----------------------------- MODULE Interviews -----------------------------
(***************************************************************************)
(* The interviews of one candidate in one interview stage: assignments,    *)
(* slots, the candidate's link and meetings                                *)
(* (app/modules/candidates/service.py).                                    *)
(*                                                                         *)
(* Every handler is one transaction.  Of times only whether there is one   *)
(* is kept: that a slot lies in the past only stops it from being booked.  *)
(* Participants are loaded without an order, so "the first one" is any.    *)
(* Meeting links, feedback and notes, rejection records, which narrow the  *)
(* automatic choice of a substitute, and what the reminders read are left  *)
(* out.                                                                    *)
(***************************************************************************)
EXTENDS Tables, Naturals, FiniteSets, FiniteSetsExt

CONSTANTS
    Interviewer,    \* members who may be asked to interview
    SlotNumber,     \* slots one proposal may hold
    MaxEvents       \* stage events of the candidate in the stage (bound)

ASSUME InterviewersAreThere == "null" \notin Interviewer

VARIABLES
    scene,          \* posting, stage, and whether the candidate is in it
    events          \* stage_event, by age

interviewVars == <<scene, events>>

\* role is INTERVIEWER in every row that is written, so it is left out.
Approval == {"PENDING_ACCEPTANCE", "ACCEPTED", "SCHEDULED", "REJECTED"}

EventStatus == {"SCHEDULED", "ONGOING", "COMPLETED", "CANCELLED", "RESCHEDULED"}

Slot == [number : SlotNumber, by : {"INTERVIEWER", "CANDIDATE"},
         whose : Interviewer, selected : BOOLEAN]

\* Whether scheduledStartAt and candidateToken are set, the rows of
\* stage_event_participant by member, and the proposed slots.
IsEvent(row) ==
    /\ row.status \in EventStatus
    /\ row.timed \in BOOLEAN /\ row.token \in BOOLEAN
    /\ Table(row.panel, Interviewer, Approval)
    /\ row.slots \subseteq Slot

InterviewInit ==
    /\ scene = [open |-> TRUE, completed |-> FALSE, here |-> TRUE]
    /\ events = NoRecords

-----------------------------------------------------------------------------
\* Views.

NewEvent(panel, timed) ==
    [status |-> "SCHEDULED", timed |-> timed, token |-> FALSE, panel |-> panel, slots |-> {}]

Alone(m, approval) == Upsert(NoRecords, m, approval)

\* Of any status; _latest_stage_event of the views is stricter.
NoEvent == events = NoRecords
LatestEvent == Max(DOMAIN events)
Fresh == (IF NoEvent THEN 0 ELSE LatestEvent) + 1

\* Those one of whom _primary_participant returns.
Primaries(row) == {m \in DOMAIN row.panel : row.panel[m] # "REJECTED"}

\* Events among which _latest_assignment_event takes the newest.
Assignments == {e \in DOMAIN events : events[e].status # "CANCELLED" /\ Primaries(events[e]) # {}}

Unlocked ==
    Assignments # {} =>
       LET row == events[Max(Assignments)]
       IN  /\ row.status # "COMPLETED"
           /\ \E m \in Primaries(row) : row.panel[m] \notin {"ACCEPTED", "SCHEDULED"}

\* Deleting participants takes their slots with them (ON DELETE CASCADE).
WithoutPeople(row, ms) ==
    [row EXCEPT !.panel = Without(@, ms), !.slots = {s \in @ : s.whose \notin ms}]

PutEvent(e, row) == events' = Upsert(events, e, row)
AddEvent(row) == Fresh <= MaxEvents /\ PutEvent(Fresh, row)

-----------------------------------------------------------------------------
\* Assignments.

AssignStageInterviews(m, timed) ==
    /\ ~scene.completed /\ scene.here /\ Unlocked
    /\ IF NoEvent THEN AddEvent(NewEvent(Alone(m, "PENDING_ACCEPTANCE"), timed))
       ELSE LET old == events[LatestEvent]
                again == old.status \in {"SCHEDULED", "RESCHEDULED"} /\ timed
            IN  PutEvent(LatestEvent, [WithoutPeople(old, DOMAIN old.panel) EXCEPT
                      !.status = IF again THEN "RESCHEDULED" ELSE "SCHEDULED",
                      !.timed = timed,
                      !.panel = Alone(m, "PENDING_ACCEPTANCE")])
    /\ UNCHANGED scene

\* Round robin over a hiring team: always an event of its own.
DistributeStageInterviews(m, timed) ==
    /\ ~scene.completed /\ scene.here /\ Unlocked
    /\ AddEvent(NewEvent(Alone(m, "PENDING_ACCEPTANCE"), timed))
    /\ UNCHANGED scene

\* Named, or chosen among those of the team who have no row yet: either way
\* only a member who already has a row becomes the interviewer.
ReshuffleInterviewAssignment(e, m) ==
    /\ scene.open /\ ~scene.completed
    /\ PutEvent(e, [events[e] EXCEPT !.panel = [x \in DOMAIN @ |->
          IF x = m THEN "PENDING_ACCEPTANCE" ELSE "REJECTED"]])
    /\ UNCHANGED scene

\* Takes the place of one of the others, even of one who has rejected.
MoveInterviewAssignment(e, m) ==
    LET others == DOMAIN events[e].panel \ {m}
    IN  /\ scene.open /\ ~scene.completed
        /\ \E gone \in IF others = {} THEN {{}} ELSE {{x} : x \in others} :
             PutEvent(e, [WithoutPeople(events[e], gone) EXCEPT
                        !.panel = Upsert(@, m, "PENDING_ACCEPTANCE")])
        /\ UNCHANGED scene

\* Mutant: accepting leaves the status, of an interview under way or over too.
AcceptKeepingStatus(e, m, numbers) ==
    /\ scene.open /\ m \in Primaries(events[e])
    /\ PutEvent(e, [events[e] EXCEPT
          !.timed = FALSE, !.token = TRUE, !.panel = Upsert(@, m, "ACCEPTED"),
          !.slots = [number : numbers, by : {"INTERVIEWER"}, whose : {m}, selected : {FALSE}]])
    /\ UNCHANGED scene

\* The answer of the interviewer, whatever the event has become.
AcceptInterview(e, m, numbers) ==
    /\ scene.open /\ m \in Primaries(events[e])
    /\ PutEvent(e, [events[e] EXCEPT
          !.status = "SCHEDULED", !.timed = FALSE, !.token = TRUE,
          !.panel = Upsert(@, m, "ACCEPTED"),
          !.slots = [number : numbers, by : {"INTERVIEWER"}, whose : {m}, selected : {FALSE}]])
    /\ UNCHANGED scene

\* Mutant: the slots outlive the link.
RejectedWithSlots(e, m) ==
    [events[e] EXCEPT !.panel = Upsert(@, m, "REJECTED"), !.token = FALSE]

Rejected(e, m) ==
    [events[e] EXCEPT !.panel = Upsert(@, m, "REJECTED"), !.token = FALSE, !.slots = {}]

\* To nobody: as asked for, or because the team has nobody left.  Otherwise to
\* the one named or to the least busy of the team; both may be anyone in them.
RejectInterview(e, m, substitute) ==
    /\ scene.open /\ m \in DOMAIN events[e].panel
    /\ substitute \in {"null"} \cup (Interviewer \ {m})
    /\ PutEvent(e, IF substitute = "null" THEN [Rejected(e, m) EXCEPT !.status = "CANCELLED"]
               ELSE [Rejected(e, m) EXCEPT
                       !.panel = Upsert(@, substitute, "PENDING_ACCEPTANCE"),
                       !.status = "RESCHEDULED"])
    /\ UNCHANGED scene

-----------------------------------------------------------------------------
\* Meetings, by an administrator, "null", or by the primary interviewer alone.

Permitted(row, who) == who = "null" \/ who \in Primaries(row)

\* At a given time or at once; at once an event that has a meeting keeps it.
CreateInterviewMeeting(who) ==
    /\ scene.open /\ scene.here
    /\ IF NoEvent THEN who = "null" ELSE Permitted(events[LatestEvent], who)
    /\ IF NoEvent \/ events[LatestEvent].status = "COMPLETED"
       THEN AddEvent(NewEvent(IF who = "null" THEN NoRecords ELSE Alone(who, "SCHEDULED"), TRUE))
       ELSE PutEvent(LatestEvent, [events[LatestEvent] EXCEPT
                                 !.status = "SCHEDULED", !.timed = TRUE])
    /\ UNCHANGED scene

UpdateInterviewMeeting(who) ==
    /\ scene.here /\ ~NoEvent
    /\ Permitted(events[LatestEvent], who)
    /\ events[LatestEvent].status = "SCHEDULED"
    /\ PutEvent(LatestEvent, [events[LatestEvent] EXCEPT !.timed = TRUE])
    /\ UNCHANGED scene

StartInterviewMeeting(e, who) ==
    /\ scene.open /\ Permitted(events[e], who)
    /\ events[e].status = "SCHEDULED" /\ events[e].timed
    /\ PutEvent(e, [events[e] EXCEPT !.status = "ONGOING"])
    /\ UNCHANGED scene

\* The candidate is mailed a link for feedback.
CompleteInterviewMeeting(e, who) ==
    /\ scene.open /\ Permitted(events[e], who)
    /\ events[e].timed
    /\ PutEvent(e, [events[e] EXCEPT !.status = "COMPLETED", !.token = TRUE])
    /\ UNCHANGED scene

-----------------------------------------------------------------------------
\* The candidate's link.

ProposeCandidateSlots(e, numbers) ==
    LET row == events[e]
    IN  /\ row.token /\ ~row.timed
        /\ \E p \in Primaries(row) :
             /\ row.panel[p] = "ACCEPTED"
             /\ PutEvent(e, [row EXCEPT
                   !.status = "SCHEDULED",
                   !.slots = [number : numbers, by : {"CANDIDATE"}, whose : {p}, selected : {FALSE}]])
        /\ UNCHANGED scene

\* Only the slot itself is looked at, not the event nor the participant.
Book(e, p, s) ==
    /\ ~s.selected
    /\ PutEvent(e, [events[e] EXCEPT
          !.status = "SCHEDULED", !.timed = TRUE,
          !.slots = (@ \ {s}) \cup {[s EXCEPT !.selected = TRUE]},
          !.panel = Upsert(@, p, "SCHEDULED")])
    /\ UNCHANGED scene

BookCandidateProposedSlot(e, p, s) ==
    /\ scene.open /\ p \in Primaries(events[e])
    /\ s.by = "CANDIDATE"
    /\ Book(e, p, s)

SelectCandidateSlot(e, s) ==
    /\ events[e].token
    /\ s.by = "INTERVIEWER" /\ s.whose \in DOMAIN events[e].panel
    /\ Book(e, s.whose, s)

-----------------------------------------------------------------------------
\* The surroundings: stage, posting, candidate.

CompleteStage ==
    /\ scene.open /\ ~scene.completed
    /\ scene' = [scene EXCEPT !.completed = TRUE]
    /\ UNCHANGED events

ReopenStage ==
    /\ scene.open /\ scene.completed
    /\ scene' = [scene EXCEPT !.completed = FALSE]
    /\ UNCHANGED events

\* Pipeline.tla has what these two do besides.
UpdateJobPostingStatus ==
    /\ scene' = [scene EXCEPT !.open = ~@]
    /\ UNCHANGED events

MoveApplicationStage ==
    /\ scene.open
    /\ scene' = [scene EXCEPT !.here = ~@]
    /\ UNCHANGED events

InterviewNext ==
    \/ \E m \in Interviewer :
         \/ \E timed \in BOOLEAN : AssignStageInterviews(m, timed)
         \/ \E timed \in BOOLEAN : DistributeStageInterviews(m, timed)
    \/ \E e \in DOMAIN events :
         \/ \E m \in Interviewer :
              \/ ReshuffleInterviewAssignment(e, m) \/ MoveInterviewAssignment(e, m)
              \/ \E numbers \in (SUBSET SlotNumber) \ {{}} : AcceptInterview(e, m, numbers)
              \/ \E substitute \in Optional(Interviewer) : RejectInterview(e, m, substitute)
         \/ \E who \in Optional(Interviewer) :
              StartInterviewMeeting(e, who) \/ CompleteInterviewMeeting(e, who)
         \/ \E numbers \in (SUBSET SlotNumber) \ {{}} : ProposeCandidateSlots(e, numbers)
         \/ \E s \in events[e].slots :
              \/ \E p \in Interviewer : BookCandidateProposedSlot(e, p, s)
              \/ SelectCandidateSlot(e, s)
    \/ \E who \in Optional(Interviewer) : CreateInterviewMeeting(who) \/ UpdateInterviewMeeting(who)
    \/ CompleteStage \/ ReopenStage \/ UpdateJobPostingStatus \/ MoveApplicationStage

InterviewSpec == InterviewInit /\ [][InterviewNext]_interviewVars

-----------------------------------------------------------------------------
InterviewTypeOK ==
    /\ scene \in [open : BOOLEAN, completed : BOOLEAN, here : BOOLEAN]
    /\ DOMAIN events = 1..Cardinality(DOMAIN events)
    /\ \A e \in DOMAIN events : IsEvent(events[e])

\* An interview under way or over has its time, whoever set it, took it back or
\* was exchanged meanwhile; and one that is over has the link the candidate was
\* mailed for the feedback.
HeldInterviewsAreKnown ==
    \A e \in DOMAIN events :
      /\ events[e].status \in {"ONGOING", "COMPLETED"} => events[e].timed
      /\ events[e].status = "COMPLETED" => events[e].token

\* The slots of an event are one proposal: of one side and one interviewer, who
\* still has a row, behind a link that works; and once one is chosen the
\* interview has its time, so that no other is offered.  A cancelled interview
\* leaves no link.
SlotsAreOneProposal ==
    \A e \in DOMAIN events :
      /\ \A s, t \in events[e].slots : s.by = t.by /\ s.whose = t.whose
      /\ \A s \in events[e].slots :
           /\ s.whose \in DOMAIN events[e].panel /\ events[e].token
           /\ s.selected => events[e].timed
      /\ events[e].status = "CANCELLED" => ~events[e].token

-----------------------------------------------------------------------------
(***************************************************************************)
(* What the pipeline board, the workspace of a stage, the page of an       *)
(* interviewer, the recruitment report and the candidate's link show of    *)
(* interviews (app/modules/candidates/service.py), as functions of the     *)
(* tables: each picks its event and its participant in its own way.        *)
(*                                                                         *)
(* Whether the time of an interview has come is an argument, begun.  Names,*)
(* the looks of reports and the files of a candidate are left out; where   *)
(* the code takes the first participant it may be any of those it may take.*)
(***************************************************************************)

\* One of the events of the stage that are planned, the newest of them.
Planned == {e \in DOMAIN events : events[e].timed /\ events[e].status # "CANCELLED"}

\* _computed_interview_status
ComputedStatus(row, begun) ==
    CASE row.status \in {"COMPLETED", "ONGOING", "CANCELLED", "RESCHEDULED"} -> row.status
      [] row.status = "SCHEDULED" /\ row.timed /\ begun -> "ONGOING"
      [] OTHER -> "PENDING"

\* Slots no candidate has chosen.
ActiveSlots(row) == {s \in row.slots : ~s.selected}

OfferedBy(side, row) == \E s \in ActiveSlots(row) : s.by = side

\* Of a participant, or of none.
ApprovalOf(row, p) == IF p = "null" THEN "null" ELSE row.panel[p]

\* _interview_display_status: the first line that applies.
DisplayStatus(row, p, begun) ==
    LET approval == ApprovalOf(row, p)
    IN  IF approval = "REJECTED" THEN "REJECTED"
        ELSE IF ~scene.here THEN "CLOSED"
        ELSE IF row.status \in {"COMPLETED", "ONGOING"} THEN row.status
        ELSE IF row.status = "CANCELLED" THEN "UNASSIGNED"
        ELSE IF approval = "PENDING_ACCEPTANCE" THEN approval
        ELSE IF row.timed THEN "SCHEDULED"
        ELSE IF OfferedBy("CANDIDATE", row) THEN "PENDING_INTERVIEWER"
        ELSE IF OfferedBy("INTERVIEWER", row) \/ approval = "ACCEPTED" THEN "CANDIDATE_PENDING"
        ELSE IF approval = "SCHEDULED" \/ ComputedStatus(row, begun) = "PENDING" THEN "SCHEDULED"
        ELSE ComputedStatus(row, begun)

\* The participants an event may be shown with when none is given.
Shown(row) == IF Primaries(row) = {} THEN {"null"} ELSE Primaries(row)

Assignment(e, p, begun) ==
    [event |-> e, interviewer |-> p, status |-> DisplayStatus(events[e], p, begun),
     slots |-> ActiveSlots(events[e])]

\* What the board and the workspace may show of the candidate.
WorkspaceAssignments(begun) ==
    IF Assignments = {} THEN {}
    ELSE LET e == Max(Assignments) IN {Assignment(e, p, begun) : p \in Shown(events[e])}

ApplicationStatus(begun) ==
    IF Assignments = {} THEN "ACTIVE" ELSE ComputedStatus(events[Max(Assignments)], begun)

\* The meeting on the card of the candidate.
ApplicationMeeting(begun) ==
    IF Planned = {} THEN {} ELSE {[event |-> Max(Planned), status |-> ComputedStatus(events[Max(Planned)], begun)]}

\* get_stage_workspace refuses what it shows of a closed posting.
StageWorkspace(begun) == IF scene.open THEN WorkspaceAssignments(begun) ELSE {}

\* The history on the detail page: what has a time; feedback is left out.
History(begun) ==
    {[event |-> e, status |-> ComputedStatus(events[e], begun)] : e \in {x \in DOMAIN events : events[x].timed}}

\* The column of the report.
StageStatus(begun) ==
    LET e == IF Assignments # {} THEN Max(Assignments) ELSE Max(Planned)
    IN  IF Assignments \cup Planned = {} THEN {"UNASSIGNED"}
        ELSE {DisplayStatus(events[e], p, begun) : p \in Shown(events[e])}

\* list_my_interviews: every row of the member, of whatever event.
MyInterviews(m, begun) ==
    {Assignment(e, m, begun) : e \in {x \in DOMAIN events : m \in DOMAIN events[x].panel}}

\* get_candidate_slots_by_token: behind the link.
OpenSlots(e) ==
    IF events[e].timed THEN {} ELSE {s \in ActiveSlots(events[e]) : s.by = "INTERVIEWER"}

\* count_active_interviews_for_members, by which substitutes are chosen.
BusyWith(m) ==
    {e \in DOMAIN events : m \in Primaries(events[e]) /\ events[e].status \in {"SCHEDULED", "RESCHEDULED"}}

-----------------------------------------------------------------------------
\* Nobody is waited for in vain, and no two pages deny each other, whatever was
\* assigned, moved, accepted, refused, booked or taken back before: where the
\* candidate is waited for, the link offers a slot to choose (unless a second
\* refusal has left two interviewers, whose answers undo each other); where the
\* interviewer is waited for, there is a slot of the candidate to book; a slot
\* on offer is never one of an interview that shows as planned, under way or
\* over; the interviewer finds the assignment the workspace shows among their
\* own, with the same status; and whoever is shown there counts as busy
\* until the interview begins.
PagesAgree ==
    \A begun \in BOOLEAN :
      /\ \A e \in DOMAIN events : \A p \in DOMAIN events[e].panel :
           LET shown == DisplayStatus(events[e], p, begun)
           IN  /\ shown = "CANDIDATE_PENDING" /\ Primaries(events[e]) = {p} =>
                    events[e].token /\ OpenSlots(e) # {}
               /\ shown = "PENDING_INTERVIEWER" =>
                    \E s \in ActiveSlots(events[e]) : s.by = "CANDIDATE" /\ Primaries(events[e]) # {}
               /\ shown \in {"SCHEDULED", "ONGOING", "COMPLETED"} => OpenSlots(e) = {}
      /\ \A a \in WorkspaceAssignments(begun) :
           /\ a.interviewer # "null" => a \in MyInterviews(a.interviewer, begun)
           /\ a.status \in StageStatus(begun)
           /\ a.status \notin {"ONGOING", "COMPLETED", "CLOSED"} => a.event \in BusyWith(a.interviewer)
      /\ ApplicationMeeting(begun) \subseteq History(begun)
=============================================================================
