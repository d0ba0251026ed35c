----------------------------- MODULE Onboarding -----------------------------
(***************************************************************************)
(* From an accepted offer to an account (app/modules/onboarding/service.py)*)
(* over the pipeline of the posting: the request for documents, its mail,  *)
(* the submission that moves the candidate to the onboarding stage, and    *)
(* the mail with the credentials.                                          *)
(*                                                                         *)
(* No handler locks what it reads, and no row has a version.  So a handler *)
(* reads the record in one step and commits in a later one: in between it  *)
(* awaits uploads or mails, and others commit.  The session writes only    *)
(* the columns that differ from what it had read.                          *)
(***************************************************************************)
EXTENDS Pipeline

CONSTANTS Record,       \* primary keys of onboarding records
          Caller,       \* requests and background tasks being served
          FileName,     \* names a candidate's pair of files may have
          Upload,       \* contents of such a pair
          Email         \* company addresses that are assigned

ASSUME FilesAreThere == "null" \notin FileName \cup Upload

VARIABLES records,      \* onboarding_record
          files,        \* what the storage holds, by record and file name
          asking,       \* records that are being made, with their application
          mails,        \* records whose mail task has not run yet
          working       \* what a handler has read and is to commit

onboardingVars == <<pipelineVars, records, files, asking, mails, working>>

OnboardingRow ==
    [application : Application,
     status : {"PENDING", "DOCUMENTS_SUBMITTED", "CREDENTIALS_SENT"},
     failed : BOOLEAN,                      \* credentialsEmailError
     documents : Optional(FileName),        \* where the urls point
     email : Optional(Email)]               \* assignedEmail

WorkRow ==
    [op : {"mail", "submit", "assign", "confirm", "retry", "send"},
     record : Record, read : OnboardingRow,
     stage : Nat,                           \* of the application, when it was read
     file : Optional(FileName)]             \* under which the documents were uploaded

OnboardingInit ==
    /\ PipelineInit /\ records = NoRecords /\ files = NoRecords
    /\ asking = NoRecords /\ mails = {} /\ working = NoRecords

-----------------------------------------------------------------------------
\* Reading and committing.

Read(s, r, op) ==
    /\ s \notin DOMAIN working
    /\ working' = Upsert(working, s, [op |-> op, record |-> r, read |-> records[r],
          stage |-> applications[records[r].application], file |-> "null"])
    /\ UNCHANGED <<pipelineVars, records, files, asking>>

Doing(s, op) == s \in DOMAIN working /\ working[s].op = op

\* Mutant: the session writes the row as it has it, with what it only read.
WholeRow(read, new, now) == new

\* UPDATE: the columns that differ from what was read, over what is there now.
Changed(read, new, now) ==
    [now EXCEPT !.status = IF new.status # read.status THEN new.status ELSE @,
                !.failed = IF new.failed # read.failed THEN new.failed ELSE @,
                !.documents = IF new.documents # read.documents THEN new.documents ELSE @,
                !.email = IF new.email # read.email THEN new.email ELSE @]

Commit(s, new) ==
    /\ records' = [records EXCEPT ![working[s].record] = Changed(working[s].read, new, @)]
    /\ working' = Without(working, {s})
    /\ UNCHANGED <<files, asking, mails>>

\* A failure is written with its text: the same text as was read is no change.
CommitFailure(s) ==
    /\ \E failed \in {TRUE, working[s].read.failed => records[working[s].record].failed} :
          records' = [records EXCEPT ![working[s].record].failed = failed]
    /\ working' = Without(working, {s})
    /\ UNCHANGED <<pipelineVars, files, asking, mails>>

\* An upload or an insert fails, or the server stops: nothing is committed, but
\* what was uploaded stays.
GiveUp(s) ==
    /\ working' = Without(working, {s})
    /\ UNCHANGED <<pipelineVars, records, files, asking, mails>>

-----------------------------------------------------------------------------
\* The request for documents.

\* For any application without a record; others that look now find none either.
LookForRecord(r, a) ==
    /\ OfType("HIRED") # {}
    /\ a \in DOMAIN applications
    /\ r \notin DOMAIN records \cup DOMAIN asking
    /\ \A q \in DOMAIN records : records[q].application # a
    /\ asking' = Upsert(asking, r, a)
    /\ UNCHANGED <<pipelineVars, records, files, mails, working>>

\* Nothing keeps an application from having two.
SendDocumentRequest(r) ==
    /\ r \in DOMAIN asking
    /\ records' = Upsert(records, r, [application |-> asking[r], status |-> "PENDING",
          failed |-> FALSE, documents |-> "null", email |-> "null"])
    /\ asking' = Without(asking, {r})
    /\ mails' = mails \cup {r}
    /\ UNCHANGED <<pipelineVars, files, working>>

LoadDocumentRequest(s, r) ==
    /\ r \in mails
    /\ Read(s, r, "mail")
    /\ mails' = mails \ {r}

\* The task: a failure is recorded and nothing sends it again.
MailDocumentRequest(s, delivered) ==
    /\ Doing(s, "mail")
    /\ IF delivered
       THEN Commit(s, [working[s].read EXCEPT !.failed = FALSE]) /\ UNCHANGED pipelineVars
       ELSE CommitFailure(s)

-----------------------------------------------------------------------------
\* The submission.

\* Mutant: only the status is looked at, so credentials sent before the
\* documents and documents sent twice are the same.
ReceiveUnlessSubmitted(s, r) ==
    /\ r \in DOMAIN records /\ records[r].status # "DOCUMENTS_SUBMITTED"
    /\ Read(s, r, "submit") /\ UNCHANGED mails

\* By the link of the mail, which may arrive before the task has recorded it, or
\* although the service reported a failure.  Not once documents are there.
ReceiveDocuments(s, r) ==
    /\ r \in DOMAIN records
    /\ ~(records[r].status # "PENDING" /\ records[r].documents # "null")
    /\ Read(s, r, "submit") /\ UNCHANGED mails

\* A file of the same record and name is replaced at once ("x-upsert"), before
\* anything is committed.
UploadDocuments(s, name, upload) ==
    /\ Doing(s, "submit") /\ working[s].file = "null"
    /\ files' = Upsert(files, <<working[s].record, name>>, upload)
    /\ working' = [working EXCEPT ![s].file = name]
    /\ UNCHANGED <<pipelineVars, records, asking, mails>>

\* The onboarding stage, made when the posting has none: order 999 and the
\* slug "onboard" must then be free.
OnboardStage == IF OfType("ONBOARDING") = {} THEN FreshStage ELSE Earliest(OfType("ONBOARDING"))

MayMakeStage ==
    \A p \in DOMAIN stages : ~stages[p].onboard /\ stages[p].order # 999

\* The stage is looked up after the uploads; whether the candidate has to be
\* moved is judged by where the application was read to be, a stage the history
\* refers to.
SubmitDocuments(s) ==
    LET w == working[s]
        a == records[w.record].application
        p == OnboardStage
    IN  /\ Doing(s, "submit") /\ w.file # "null"
        /\ Commit(s, [w.read EXCEPT !.status = "DOCUMENTS_SUBMITTED", !.documents = w.file])
        /\ IF p \in DOMAIN stages
           THEN UNCHANGED stages
           ELSE /\ MayMakeStage
                /\ stages' = Upsert(stages, p, [name |-> "Onboard", type |-> "ONBOARDING",
                      order |-> 999, default |-> FALSE, onboard |-> TRUE])
        /\ IF w.stage # p THEN w.stage \in DOMAIN stages /\ MoveTo(a, p)
           ELSE UNCHANGED <<applications, lastMove>>
        /\ UNCHANGED <<posting, edits>>

-----------------------------------------------------------------------------
\* The credentials.

\* Mutant: an address may be assigned whatever was mailed.
ReceiveAnyAssignment(s, r) ==
    /\ r \in DOMAIN records
    /\ Read(s, r, "assign") /\ UNCHANGED mails

ReceiveAssignment(s, r) ==
    /\ r \in DOMAIN records /\ records[r].status # "CREDENTIALS_SENT"
    /\ Read(s, r, "assign") /\ UNCHANGED mails

AssignCredentials(s, email) ==
    /\ Doing(s, "assign")
    /\ Commit(s, [working[s].read EXCEPT !.email = email])
    /\ UNCHANGED pipelineVars

ReceiveConfirmation(s, r) ==
    /\ r \in DOMAIN records
    /\ Read(s, r, "confirm") /\ UNCHANGED mails

\* Shows the administrator a password, which nothing keeps.
ConfirmAssignCredentials(s) ==
    /\ Doing(s, "confirm")
    /\ Commit(s, [working[s].read EXCEPT !.failed = FALSE])
    /\ UNCHANGED pipelineVars

\* Calls the mail service without the password it requires: always a failure.
ConfirmAndSendCredentials(s, r) ==
    /\ r \in DOMAIN records /\ records[r].email # "null"
    /\ Read(s, r, "retry") /\ UNCHANGED mails

CredentialsNotSent(s) == Doing(s, "retry") /\ CommitFailure(s)

\* In any status; the mail may be sent again, to the address that is read here.
LoadCredentials(s, r) ==
    /\ r \in DOMAIN records /\ records[r].email # "null"
    /\ Read(s, r, "send") /\ UNCHANGED mails

SendCredentialsWithPassword(s, delivered) ==
    /\ Doing(s, "send")
    /\ IF delivered
       THEN /\ Commit(s, [working[s].read EXCEPT !.status = "CREDENTIALS_SENT", !.failed = FALSE])
            /\ UNCHANGED pipelineVars
       ELSE CommitFailure(s)

-----------------------------------------------------------------------------
\* The key of a deleted stage is not given to another one: who had read it keeps
\* a reference that leads nowhere.
PipelineStep ==
    /\ PipelineNext
    /\ working' = [s \in DOMAIN working |->
          IF working[s].stage \in DOMAIN stages' THEN working[s]
          ELSE [working[s] EXCEPT !.stage = NoStage]]
    /\ UNCHANGED <<records, files, asking, mails>>

OnboardingNext ==
    \/ PipelineStep
    \/ \E r \in Record, a \in Application : LookForRecord(r, a)
    \/ \E r \in Record : SendDocumentRequest(r)
    \/ \E s \in Caller, r \in DOMAIN records :
         \/ LoadDocumentRequest(s, r)
         \/ ReceiveDocuments(s, r)
         \/ ReceiveAssignment(s, r)
         \/ ReceiveConfirmation(s, r)
         \/ ConfirmAndSendCredentials(s, r)
         \/ LoadCredentials(s, r)
    \/ \E s \in DOMAIN working :
         \/ \E name \in FileName, upload \in Upload : UploadDocuments(s, name, upload)
         \/ SubmitDocuments(s)
         \/ \E email \in Email : AssignCredentials(s, email)
         \/ ConfirmAssignCredentials(s)
         \/ CredentialsNotSent(s)
         \/ \E delivered \in BOOLEAN :
              MailDocumentRequest(s, delivered) \/ SendCredentialsWithPassword(s, delivered)
         \/ GiveUp(s)

OnboardingSpec == OnboardingInit /\ [][OnboardingNext]_onboardingVars

-----------------------------------------------------------------------------
\* The pages.

RecordOf(a) == {r \in DOMAIN records : records[r].application = a}

\* What the urls of a record lead to.
DocumentsOf(r) ==
    IF records[r].documents = "null" THEN "null" ELSE files[<<r, records[r].documents>>]

\* What the recruiter reads: a mail that failed hides the progress.
OnboardingStatus(r) == IF records[r].failed THEN "FAILED" ELSE records[r].status

\* The row of an application is made of the first of its records the database
\* returns, in no order; so of any.
GetAcceptedWorkspace(p) ==
    [candidates |->
        {[application |-> a, status |-> "UNSENT"] : a \in {b \in InStage(p) : RecordOf(b) = {}}}
        \cup UNION {{[application |-> a, status |-> OnboardingStatus(r)] : r \in RecordOf(a)} :
                    a \in InStage(p)},
     onboardStage |-> IF OfType("ONBOARDING") = {} THEN NoStage ELSE Earliest(OfType("ONBOARDING"))]

GetOnboardWorkspace(p) ==
    UNION {{[application |-> a, status |-> OnboardingStatus(r),
             documents |-> DocumentsOf(r), email |-> records[r].email] : r \in RecordOf(a)} :
           a \in InStage(p)}

\* What the candidate reads, who is asked for documents while it is PENDING.
GetPublicOnboarding(r) ==
    IF records[r].documents = "null" THEN "PENDING" ELSE records[r].status

-----------------------------------------------------------------------------
OnboardingTypeOK ==
    /\ PipelineTypeOK
    /\ Table(records, Record, OnboardingRow)
    /\ Table(files, Record \X FileName, Upload)
    /\ Table(asking, Record, Application)
    /\ Table(working, Caller, WorkRow)
    /\ mails \subseteq DOMAIN records

\* The candidate is asked for documents exactly as long as none are there,
\* whatever the administrators do meanwhile, and the recruiter who reads that the
\* documents were submitted finds them in the workspace.
OnboardPagesAgree ==
    /\ \A r \in DOMAIN records :
         GetPublicOnboarding(r) = "PENDING" <=> records[r].documents = "null"
    /\ \A p \in OfType("ONBOARDING") : \A row \in GetOnboardWorkspace(p) :
         row.status = "DOCUMENTS_SUBMITTED" => row.documents \in Upload

\* A step of the handler s, which is at work on r.
StepOf(s, op, r) ==
    /\ Doing(s, op) /\ working[s].record = r
    /\ s \in DOMAIN working' => working'[s] # working[s]

\* Nothing takes documents away that a candidate has handed in, and only a
\* submission that was under way before they were there puts others in their
\* place; nobody else who commits what was read earlier undoes them.  An address
\* that was mailed is changed only by an assignment that was under way before.
\* (onboarding/service.py:510, which looks before the uploads, and 399.)
SubmittedIsKept ==
    [][\A r \in DOMAIN records :
         /\ r \in DOMAIN records'
         /\ DocumentsOf(r) # "null" =>
              /\ DocumentsOf(r)' # "null"
              /\ DocumentsOf(r)' = DocumentsOf(r)
                 \/ \E s \in DOMAIN working :
                      StepOf(s, "submit", r) /\ working[s].read.documents = "null"
         /\ records[r].status = "CREDENTIALS_SENT" =>
              records'[r].email = records[r].email
              \/ \E s \in DOMAIN working :
                   StepOf(s, "assign", r) /\ working[s].read.status # "CREDENTIALS_SENT"]_onboardingVars
=============================================================================
