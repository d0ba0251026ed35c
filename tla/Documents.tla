----------------------------- MODULE Documents -----------------------------
(***************************************************************************)
(* Collecting documents of accepted candidates                             *)
(* (app/modules/document_collection/service.py): templates, the requests   *)
(* made of them, the background task that mails a request's link, and the  *)
(* candidate's answer.                                                     *)
(*                                                                         *)
(* Neither the handlers nor the task lock what they read.  Sending looks   *)
(* for a pending request before it inserts one, an answer is accepted      *)
(* before its files are uploaded and it is committed, and the task loads   *)
(* the request, mails, and then writes what became of the mail.  A mail    *)
(* may arrive although sending it failed, and the server may restart;      *)
(* nothing resumes a task.  The files that answers name are left out.      *)
(***************************************************************************)
EXTENDS Tables, Naturals, FiniteSets

CONSTANTS
    Candidate,      \* applications in the posting's accepted stage
    Template,       \* primary keys of templates
    Form,           \* sets of fields a template may have
    Request,        \* primary keys of requests
    Submission,     \* calls that hand in answers, which stand for their answers
    MaxRestarts     \* restarts of the server (bound)

ASSUME RestartsAreCounted == MaxRestarts \in Nat

VARIABLES
    templates,      \* document_collection_template with its fields
    requests,       \* document_collection_request
    making,         \* requests that are being made
    answering,      \* submissions that were accepted and not yet committed
    tasks,          \* mail tasks that have not ended
    inbox,          \* requests whose mail has arrived
    crossed,        \* candidates to whom overlapping calls sent requests (history)
    restarts

documentsVars ==
    <<templates, requests, making, answering, tasks, inbox, crossed, restarts>>

TemplateRow == [status : {"DRAFT", "ACTIVE", "ARCHIVED"}, form : Form \cup {"empty"}]

RequestRow ==
    [application : Candidate, template : Optional(Template), form : Form,
     status : {"PENDING", "SUBMITTED", "FAILED"},
     answers : Optional(Submission),    \* whose answers they are
     number : Nat]                  \* its place in the order of creation

\* A request about to be inserted: whether another was, since it was looked for.
MakingRow ==
    [application : Candidate, template : Template, form : Form, overtaken : BOOLEAN]

\* An answer about to be committed, and the status that let it begin.
AnsweringRow == [request : Request, read : {"PENDING", "SUBMITTED", "FAILED"}]

DocumentsInit ==
    /\ templates = NoRecords /\ requests = NoRecords
    /\ making = NoRecords /\ answering = NoRecords
    /\ tasks = NoRecords /\ inbox = {} /\ crossed = {} /\ restarts = 0

-----------------------------------------------------------------------------
\* Templates.

Publishable(status, form) == status = "ACTIVE" => form # "empty"

\* Keys are never given again; here, not while a request is made of the row.
FreshTemplate(k) ==
    k \notin DOMAIN templates /\ \A q \in DOMAIN making : making[q].template # k

\* Without fields a template gets a single default one.
CreateTemplate(k, status, form) ==
    /\ FreshTemplate(k)
    /\ templates' = Upsert(templates, k, [status |-> status, form |-> form])
    /\ UNCHANGED <<requests, making, answering, tasks, inbox, crossed, restarts>>

\* The service means to check the new fields before it publishes them, but
\* reads those it had loaded: an active template may lose all its fields.
UpdateTemplate(k, status, form) ==
    /\ k \in DOMAIN templates
    /\ Publishable(status, templates[k].form)
    /\ templates' = Upsert(templates, k, [status |-> status, form |-> form])
    /\ UNCHANGED <<requests, making, answering, tasks, inbox, crossed, restarts>>

\* The requests made of it keep their copy of the fields.
DeleteTemplate(k) ==
    /\ k \in DOMAIN templates
    /\ \A q \in DOMAIN requests : requests[q].template = k => requests[q].status # "PENDING"
    /\ templates' = Without(templates, {k})
    /\ requests' = [q \in DOMAIN requests |->
          IF requests[q].template = k THEN [requests[q] EXCEPT !.template = "null"] ELSE requests[q]]
    /\ UNCHANGED <<making, answering, tasks, inbox, crossed, restarts>>

CopyTemplate(k, source) ==
    /\ source \in DOMAIN templates /\ FreshTemplate(k)
    /\ templates' = Upsert(templates, k, [status |-> "DRAFT", form |-> templates[source].form])
    /\ UNCHANGED <<requests, making, answering, tasks, inbox, crossed, restarts>>

-----------------------------------------------------------------------------
\* Requests.

Of(c) == {q \in DOMAIN requests : requests[q].application = c}

\* Mutant: a new request is made whatever became of the earlier ones.
NothingIsPending(c) == FALSE

\* Not while the latest request of the application is pending.
LatestIsPending(c) ==
    \E q \in Of(c) :
        /\ requests[q].status = "PENDING"
        /\ \A p \in Of(c) : requests[p].number <= requests[q].number

\* The template is active and the candidate not being asked, as far as is committed.
LookForRequest(q, c, k) ==
    /\ k \in DOMAIN templates /\ templates[k].status = "ACTIVE"
    /\ templates[k].form # "empty"
    /\ q \notin DOMAIN requests \cup DOMAIN making /\ ~LatestIsPending(c)
    /\ making' = Upsert(making, q, [application |-> c, template |-> k,
          form |-> templates[k].form, overtaken |-> FALSE])
    /\ UNCHANGED <<templates, requests, answering, tasks, inbox, crossed, restarts>>

\* Nothing keeps a candidate from having two; the template must still be there.
SendRequest(q) ==
    LET new == making[q]
    IN  /\ q \in DOMAIN making /\ new.template \in DOMAIN templates
        /\ requests' = Upsert(requests, q,
              [application |-> new.application, template |-> new.template, form |-> new.form,
               status |-> "PENDING", answers |-> "null", number |-> Cardinality(DOMAIN requests)])
        /\ making' = [p \in DOMAIN making \ {q} |->
              IF making[p].application = new.application
              THEN [making[p] EXCEPT !.overtaken = TRUE] ELSE making[p]]
        /\ crossed' = crossed \cup (IF new.overtaken THEN {new.application} ELSE {})
        /\ tasks' = Upsert(tasks, q, "queued")
        /\ UNCHANGED <<templates, answering, inbox, restarts>>

LoadRequest(q) ==
    /\ tasks[q] = "queued"
    /\ tasks' = [tasks EXCEPT ![q] = "mailing"]
    /\ UNCHANGED <<templates, requests, making, answering, inbox, crossed, restarts>>

\* The mail arrives before the call that sends it returns.
MailArrives(q) ==
    /\ tasks[q] = "mailing"
    /\ tasks' = [tasks EXCEPT ![q] = "arrived"]
    /\ inbox' = inbox \cup {q}
    /\ UNCHANGED <<templates, requests, making, answering, crossed, restarts>>

MailReported(q) ==
    /\ tasks[q] = "arrived"
    /\ tasks' = Without(tasks, {q})
    /\ UNCHANGED <<templates, requests, making, answering, inbox, crossed, restarts>>

\* The failure is written over whatever the candidate has done meanwhile; the
\* answers are another column.
MailFails(q) ==
    /\ tasks[q] \in {"mailing", "arrived"}
    /\ tasks' = Without(tasks, {q})
    /\ requests' = [requests EXCEPT ![q].status = "FAILED"]
    /\ UNCHANGED <<templates, making, answering, inbox, crossed, restarts>>

\* Mutant: whoever holds the mail may hand in answers at any time.
ReceiveAnyAnswers(s, q) ==
    /\ q \in inbox /\ s \notin DOMAIN answering
    /\ answering' = Upsert(answering, s, [request |-> q, read |-> requests[q].status])
    /\ UNCHANGED <<templates, requests, making, tasks, inbox, crossed, restarts>>

\* Not once they were handed in.
ReceiveAnswers(s, q) ==
    /\ q \in inbox /\ requests[q].status # "SUBMITTED" /\ s \notin DOMAIN answering
    /\ answering' = Upsert(answering, s, [request |-> q, read |-> requests[q].status])
    /\ UNCHANGED <<templates, requests, making, tasks, inbox, crossed, restarts>>

\* After the uploads, whatever was committed meanwhile.
SubmitAnswers(s) ==
    /\ s \in DOMAIN answering
    /\ requests' = [requests EXCEPT ![answering[s].request].status = "SUBMITTED",
                                    ![answering[s].request].answers = s]
    /\ answering' = Without(answering, {s})
    /\ UNCHANGED <<templates, making, tasks, inbox, crossed, restarts>>

\* An answer is missing or an upload fails.
AbandonAnswers(s) ==
    /\ answering' = Without(answering, {s})
    /\ UNCHANGED <<templates, requests, making, tasks, inbox, crossed, restarts>>

\* The insert fails.
AbandonRequest(q) ==
    /\ making' = Without(making, {q})
    /\ UNCHANGED <<templates, requests, answering, tasks, inbox, crossed, restarts>>

\* Calls that are being handled end with the server as well.
Restart ==
    /\ restarts < MaxRestarts /\ tasks # NoRecords
    /\ restarts' = restarts + 1
    /\ tasks' = NoRecords /\ making' = NoRecords /\ answering' = NoRecords
    /\ UNCHANGED <<templates, requests, inbox, crossed>>

DocumentsNext ==
    \/ \E k \in Template :
         \/ \E status \in {"DRAFT", "ACTIVE"}, form \in Form : CreateTemplate(k, status, form)
         \/ \E status \in {"DRAFT", "ACTIVE", "ARCHIVED"}, form \in Form \cup {"empty"} :
              UpdateTemplate(k, status, form)
         \/ DeleteTemplate(k)
         \/ \E source \in Template : CopyTemplate(k, source)
    \/ \E q \in Request, c \in Candidate, k \in Template : LookForRequest(q, c, k)
    \/ \E q \in DOMAIN making : SendRequest(q)
    \/ \E q \in DOMAIN tasks :
         \/ LoadRequest(q)
         \/ MailArrives(q)
         \/ MailReported(q)
         \/ MailFails(q)
    \/ \E s \in Submission, q \in inbox : ReceiveAnswers(s, q)
    \/ \E s \in DOMAIN answering : SubmitAnswers(s)
    \/ \E s \in DOMAIN answering : AbandonAnswers(s)
    \/ \E q \in DOMAIN making : AbandonRequest(q)
    \/ Restart

DocumentsSpec == DocumentsInit /\ [][DocumentsNext]_documentsVars

-----------------------------------------------------------------------------
DocumentsTypeOK ==
    /\ Table(templates, Template, TemplateRow)
    /\ Table(requests, Request, RequestRow)
    /\ Table(making, Request, MakingRow)
    /\ Table(answering, Submission, AnsweringRow)
    /\ Table(tasks, DOMAIN requests, {"queued", "mailing", "arrived"})
    /\ inbox \subseteq DOMAIN requests /\ crossed \subseteq Candidate
    /\ restarts \in 0..MaxRestarts

\* The call s, accepted before the answers of q were there, commits.
AnsweredEarlier(s, q) ==
    /\ answering[s].request = q /\ answering[s].read # "SUBMITTED"
    /\ s \notin DOMAIN answering'

\* What a candidate has submitted stays submitted, whatever the mail task and
\* the administrators of templates do meanwhile: only a submission accepted
\* before (service.py:576) puts other answers in their place, and only the task
\* whose mail arrived and was reported as failed writes FAILED over the status.
\* Nobody is asked twice at one time unless overlapping calls did it (438).
AnswersAreKept ==
    [][/\ \A q \in DOMAIN requests : requests[q].status = "SUBMITTED" =>
            \/ /\ requests'[q].status = "SUBMITTED"
               /\ \/ requests'[q].answers = requests[q].answers
                  \/ \E s \in DOMAIN answering : AnsweredEarlier(s, q)
            \/ /\ q \in DOMAIN tasks /\ tasks[q] = "arrived" /\ q \notin DOMAIN tasks'
               /\ requests'[q].status = "FAILED"
               /\ requests'[q].answers = requests[q].answers
       /\ \A c \in Candidate \ crossed' : Cardinality({q \in DOMAIN requests' :
            requests'[q].application = c /\ requests'[q].status = "PENDING"}) <= 1]_documentsVars
=============================================================================
