-------------------------------- MODULE Jobs --------------------------------
(***************************************************************************)
(* Requisitions and their approvals (app/modules/jobs/service.py), handler *)
(* against handler.  A handler loads the requisition with all its          *)
(* approvals once, decides on what it loaded, and writes at its commit     *)
(* only the columns it changed; there is no lock and no version column, so *)
(* two handlers of one requisition may overlap.  The unique key            *)
(* (requisition, approver) is what the database checks at the commit.      *)
(*                                                                         *)
(* Texts, salaries, numbers, the activity log and mails are left out; of   *)
(* the fields only whether all that submission requires are there is kept. *)
(***************************************************************************)
EXTENDS Tables, Naturals, FiniteSets

CONSTANTS
    Requisition,    \* primary keys of requisitions
    Approver,       \* members who ever hold the permission to approve jobs
    Session         \* requests being handled at one time

ASSUME ApproversAreFinite == IsFiniteSet(Approver)

VARIABLES
    jobs,           \* job_requisition
    approvals,      \* requisition_approval: per requisition, by approver
    postings,       \* per requisition, how many job_posting rows name it
    sessions,       \* the handlers between their load and their commit
    raced           \* requisitions written by a handler that had loaded them
                    \* before another handler's commit (history variable)

jobsVars == <<jobs, approvals, postings, sessions, raced>>

Decision == {"APPROVED", "REJECTED"}
ApprovalRow == {"PENDING"} \cup Decision

\* The statuses that some handler writes.
RequisitionStatus ==
    {"DRAFT", "PENDING_APPROVAL", "PARTIALLY_APPROVED", "APPROVED", "REJECTED", "CLOSED"}

RequisitionColumns == [status : RequisitionStatus, complete : BOOLEAN]

Undecided == {"PENDING_APPROVAL", "PARTIALLY_APPROVED"}

JobsInit ==
    /\ jobs = NoRecords /\ approvals = [r \in Requisition |-> NoRecords]
    /\ postings = [r \in Requisition |-> 0]
    /\ sessions = NoRecords /\ raced = {}

-----------------------------------------------------------------------------
\* Loads.

CreateRequisition(r, complete) ==
    /\ r \notin DOMAIN jobs
    /\ jobs' = Upsert(jobs, r, [status |-> "DRAFT", complete |-> complete])
    /\ UNCHANGED <<approvals, postings, sessions, raced>>

\* A field that is null is not applied, so nothing that is there goes.
ApplyRequisitionUpdates(row) == [row EXCEPT !.complete = TRUE]

\* Only a draft is edited.
UpdateRequisition(r) ==
    /\ r \in DOMAIN jobs /\ jobs[r].status = "DRAFT"
    /\ jobs' = [jobs EXCEPT ![r] = ApplyRequisitionUpdates(@)]
    /\ UNCHANGED <<approvals, postings, sessions, raced>>

\* What every handler remembers of the requisition it loaded.
Begin(s, r, op, who, decision) ==
    /\ s \notin DOMAIN sessions
    /\ sessions' = Upsert(sessions, s,
          [requisition |-> r, op |-> op, who |-> who, decision |-> decision,
           status |-> jobs[r].status, approvals |-> approvals[r], stale |-> FALSE])
    /\ UNCHANGED <<jobs, approvals, postings, raced>>

\* Title, department, employment type, openings and reason are there.
SubmissionReady(row) == row.complete

\* The active members whose role allows it: any of those who ever hold it.
OrgApprovers == SUBSET Approver

BeginSubmit(s, r, approvers) ==
    /\ jobs[r].status = "DRAFT" /\ SubmissionReady(jobs[r])
    /\ approvers # {}
    /\ Begin(s, r, "submit", approvers, "none")

BeginDecide(s, r, m, decision) ==
    /\ jobs[r].status \in Undecided
    /\ m \in DOMAIN approvals[r] /\ approvals[r][m] = "PENDING"
    /\ Begin(s, r, "decide", {m}, decision)

ClosableStatuses == {"APPROVED", "REJECTED"} \cup Undecided

BeginClose(s, r) ==
    jobs[r].status \in ClosableStatuses /\ Begin(s, r, "close", {}, "none")

BeginReopen(s, r) ==
    jobs[r].status = "CLOSED" /\ Begin(s, r, "reopen", {}, "none")

-----------------------------------------------------------------------------
\* Commits.

\* A column is written only when the handler changed it from what it loaded.
WriteStatus(s, status) ==
    LET r == sessions[s].requisition
    IN  IF status = sessions[s].status THEN jobs
        ELSE [jobs EXCEPT ![r].status = status]

End(s) ==
    LET r == sessions[s].requisition
    IN  /\ sessions' = [t \in DOMAIN sessions \ {s} |->
                          [sessions[t] EXCEPT !.stale = @ \/ sessions[t].requisition = r]]
        /\ raced' = IF sessions[s].stale THEN raced \cup {r} ELSE raced

CommitSubmit(s) ==
    LET r == sessions[s].requisition
        new == sessions[s].who
    IN  /\ sessions[s].op = "submit"
        /\ new \cap DOMAIN approvals[r] = {}
        /\ jobs' = WriteStatus(s, "PENDING_APPROVAL")
        /\ approvals' = [approvals EXCEPT ![r] =
              [m \in DOMAIN approvals[r] \cup new |->
                 IF m \in new THEN "PENDING" ELSE approvals[r][m]]]
        /\ End(s) /\ UNCHANGED postings

\* The unique key refuses an approver who is already listed: all is rolled back.
SubmitRefused(s) ==
    /\ sessions[s].op = "submit"
    /\ sessions[s].who \cap DOMAIN approvals[sessions[s].requisition] # {}
    /\ sessions' = Without(sessions, {s})
    /\ UNCHANGED <<jobs, approvals, postings, raced>>

\* Mutant: the last approval is taken for that of all, whatever others said.
VerdictOfTheLast(s) ==
    IF \E m \in DOMAIN sessions[s].approvals \ sessions[s].who :
         sessions[s].approvals[m] = "PENDING"
    THEN "PARTIALLY_APPROVED" ELSE sessions[s].decision

\* Computed from the approvals as loaded, with the handler's own decision.
Verdict(s) ==
    LET seen == {sessions[s].approvals[m] :
                   m \in DOMAIN sessions[s].approvals \ sessions[s].who}
                \cup {sessions[s].decision}
    IN  CASE "REJECTED" \in seen -> "REJECTED"
          [] seen = {"APPROVED"} -> "APPROVED"
          [] OTHER -> "PARTIALLY_APPROVED"

CommitDecide(s) ==
    LET r == sessions[s].requisition
    IN  /\ sessions[s].op = "decide"
        /\ approvals' = [approvals EXCEPT ![r] =
              [m \in DOMAIN approvals[r] |->
                 IF m \in sessions[s].who THEN sessions[s].decision ELSE approvals[r][m]]]
        /\ jobs' = WriteStatus(s, Verdict(s))
        /\ postings' = IF Verdict(s) = "APPROVED"
                       THEN [postings EXCEPT ![r] = @ + 1] ELSE postings
        /\ End(s)

CommitClose(s) ==
    /\ sessions[s].op = "close"
    /\ jobs' = WriteStatus(s, "CLOSED")
    /\ End(s) /\ UNCHANGED <<approvals, postings>>

\* Mutant: reopening puts a requisition straight back to its approvers.
ReopenAsPending(s) ==
    /\ sessions[s].op = "reopen"
    /\ jobs' = WriteStatus(s, "PENDING_APPROVAL")
    /\ End(s) /\ UNCHANGED <<approvals, postings>>

\* The approvals of the earlier round stay.
CommitReopen(s) ==
    /\ sessions[s].op = "reopen"
    /\ jobs' = WriteStatus(s, "DRAFT")
    /\ End(s) /\ UNCHANGED <<approvals, postings>>

JobsNext ==
    \/ \E r \in Requisition, complete \in BOOLEAN : CreateRequisition(r, complete)
    \/ \E r \in DOMAIN jobs :
         \/ UpdateRequisition(r)
         \/ \E s \in Session :
              \/ \E approvers \in OrgApprovers : BeginSubmit(s, r, approvers)
              \/ \E m \in Approver, d \in Decision : BeginDecide(s, r, m, d)
              \/ BeginClose(s, r)
              \/ BeginReopen(s, r)
    \/ \E s \in DOMAIN sessions :
         \/ CommitSubmit(s)
         \/ SubmitRefused(s)
         \/ CommitDecide(s)
         \/ CommitClose(s)
         \/ CommitReopen(s)

JobsSpec == JobsInit /\ [][JobsNext]_jobsVars

-----------------------------------------------------------------------------
JobsTypeOK ==
    /\ Table(jobs, Requisition, RequisitionColumns)
    /\ \A r \in Requisition : Table(approvals[r], Approver, ApprovalRow)
    /\ postings \in [Requisition -> Nat]
    /\ raced \in SUBSET Requisition

\* A posting appears only when every approver ever asked has approved: a
\* refusal in an earlier round still stops it, overlaps apart.
UnanimousPosting ==
    [][\A r \in Requisition \ raced' :
         postings'[r] > postings[r] => \A m \in DOMAIN approvals'[r] : approvals'[r][m] = "APPROVED"]_jobsVars

-----------------------------------------------------------------------------
(***************************************************************************)
(* What the pages on requisitions answer (app/modules/jobs/service.py):    *)
(* the list within the reader's scope, one requisition, who is offered a   *)
(* decision, the counts of its approvals, its pipeline and the public      *)
(* postings.                                                               *)
(***************************************************************************)

CONSTANTS
    Staff,          \* members who read the pages; the approvers are some of them
    RaisedBy,       \* Requisition -> Staff: raisedById
    DepartmentOf,   \* Requisition -> a department or "none": departmentId
    Departments,    \* Staff -> departments: department_member
    Teams           \* Staff -> hiring teams: team_member

ASSUME JobsReaders == Approver \subseteq Staff /\ RaisedBy \in [Requisition -> Staff]

ViewScope == {"organization", "department", "team", "self", "public_open"}

\* OPEN_REQUISITION_STATUSES; no handler writes the other two.
OpenStatuses == {"APPROVED"}

TeamMates(m) == {n \in Staff : Teams[m] \cap Teams[n] # {}}

Raised(m) == {r \in DOMAIN jobs : RaisedBy[r] = m}
Open == {r \in DOMAIN jobs : jobs[r].status \in OpenStatuses}
OfDepartments(m) == {r \in DOMAIN jobs : DepartmentOf[r] \in Departments[m]}
OfTeamMates(m) == {r \in DOMAIN jobs : RaisedBy[r] \in TeamMates(m)}

ListRequisitions(m, scope) ==
    CASE scope = "organization" -> DOMAIN jobs
      [] scope = "department" -> Raised(m) \cup Open \cup OfDepartments(m)
      [] scope = "team" -> Raised(m) \cup Open \cup OfTeamMates(m)
      [] OTHER -> Raised(m) \cup Open

\* What one requisition's handlers let pass: unlike the list, the scopes of the
\* department and of the team do not include what the reader raised.
HasAccess(m, scope, r) ==
    r \in CASE scope = "organization" -> DOMAIN jobs
            [] scope = "department" -> OfDepartments(m)
            [] scope = "team" -> OfTeamMates(m)
            [] OTHER -> Raised(m)

GetRequisition(m, scope) == {r \in DOMAIN jobs : r \in Open \/ HasAccess(m, scope, r)}

\* The history of changes, without the exception for open ones.
GetRequisitionActivity(m, scope) == {r \in DOMAIN jobs : HasAccess(m, scope, r)}

\* The list on everybody's dashboard.
GetOpenJobRequisitions == Open

-----------------------------------------------------------------------------
ApprovalsWith(r, decision) == {m \in DOMAIN approvals[r] : approvals[r][m] = decision}

ApprovalSummary(r) ==
    [approved |-> Cardinality(ApprovalsWith(r, "APPROVED")),
     rejected |-> Cardinality(ApprovalsWith(r, "REJECTED")),
     pending |-> Cardinality(ApprovalsWith(r, "PENDING")),
     total |-> Cardinality(DOMAIN approvals[r])]

CanApprove(r, m) == jobs[r].status \in Undecided /\ m \in ApprovalsWith(r, "PENDING")

\* canEdit and canSubmit.
CanEdit(r, m) == RaisedBy[r] = m /\ jobs[r].status = "DRAFT"

\* scalar_one_or_none: a second posting of the requisition makes it fail.
PipelinePosting(m, scope, r) ==
    CASE ~HasAccess(m, scope, r) -> "forbidden"
      [] HasAccess(m, scope, r) /\ postings[r] = 0 -> "not found"
      [] HasAccess(m, scope, r) /\ postings[r] = 1 -> "board"
      [] OTHER -> "error"

\* Nothing takes a posting down with its requisition.
ListPublicPostings == {r \in Requisition : postings[r] > 0}

-----------------------------------------------------------------------------
\* What the pages say of a requisition is so, overlapping handlers apart:
\* somebody is offered its decision exactly while it waits for one, nobody is
\* both offered a decision and the editing, the counts of its approvals are
\* those of its status, an approved one is public and has a board (or two
\* postings, after another round) for whoever may see it, and what a list names
\* or a dashboard can be opened, what the reader raised in the narrower scopes
\* apart: two overlapping approvals leave a requisition PARTIALLY_APPROVED with
\* nobody left to ask.
JobsPagesAgree ==
    /\ \A r \in DOMAIN jobs \ raced :
         LET counts == ApprovalSummary(r)
             status == jobs[r].status
         IN  /\ status \in Undecided <=> \E m \in Staff : CanApprove(r, m)
             /\ status \in Undecided => \A m \in Staff : ~CanEdit(r, m)
             /\ status = "APPROVED" =>
                  /\ counts.total > 0 /\ counts.approved = counts.total
                  /\ r \in ListPublicPostings
                  /\ \A m \in Staff, scope \in ViewScope :
                       PipelinePosting(m, scope, r) # "not found"
             /\ status = "REJECTED" => counts.rejected > 0
             /\ status = "PARTIALLY_APPROVED" =>
                  counts.approved > 0 /\ counts.pending > 0 /\ counts.rejected = 0
    /\ \A m \in Staff, scope \in ViewScope :
         /\ GetRequisition(m, scope) \subseteq ListRequisitions(m, scope)
         /\ GetOpenJobRequisitions \cup GetRequisitionActivity(m, scope)
              \subseteq GetRequisition(m, scope)
         /\ ListRequisitions(m, scope) \ GetRequisition(m, scope) \subseteq Raised(m)
=============================================================================
