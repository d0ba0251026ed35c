------------------------------- MODULE Offers -------------------------------
(***************************************************************************)
(* Offer letters of one job posting (app/modules/offers/service.py): a     *)
(* recruiter dispatches a batch, a background task mails its letters one   *)
(* by one and sums the batch up, failed letters are retried, candidates    *)
(* answer through the links of their mail.                                 *)
(*                                                                         *)
(* A request handler is a session: it reads in one step and commits in a   *)
(* later one, without a lock on what it read.  With a single session the   *)
(* handlers are serial.  A background task is one step per commit or       *)
(* external call; a restart of the server ends every task and session and  *)
(* keeps only the tables.                                                  *)
(*                                                                         *)
(* Rows of offers and batches are numbered in the order of their           *)
(* creation, which is the order of createdAt.  The response links carry a  *)
(* random token; a token is written as the number of the task that made    *)
(* it, 0 while the letter has none.                                        *)
(***************************************************************************)
EXTENDS Integers, FiniteSets, Sequences, SequencesExt

CONSTANTS
    App,            \* applications in the job's pipeline
    Complete,       \* applications with the names and the email an offer needs
    Session,        \* database sessions of request handlers
    MaxBatch,       \* bound on the batches dispatched
    MaxTask,        \* bound on the background tasks started
    MaxRestart      \* bound on the restarts of the server

ASSUME OffersConstants ==
    /\ IsFiniteSet(App) /\ Complete \subseteq App
    /\ MaxBatch \in Nat
    /\ MaxTask \in Nat
    /\ MaxRestart \in Nat

VARIABLES
    stage,          \* pipeline stage of each application
    offers,         \* offer letters, oldest first
    batches,        \* dispatch batches, oldest first
    overdue,        \* batches whose letters are past expiresAt
    tasks,          \* background tasks, in the order they were added
    sessions,       \* what each session has read and will commit
    inbox,          \* mails each letter's candidate received: <<task, token>>
    restarts        \* restarts so far

vars == <<stage, offers, batches, overdue, tasks, sessions, inbox, restarts>>

Stage == {"OFFER", "HIRED", "REJECTED"}
Answer == {"ACCEPTED", "REJECTED"}
OfferStatus == {"DRAFT", "SENT", "FAILED", "EXPIRED", "WITHDRAWN"} \cup Answer
Finished == {"COMPLETED", "PARTIAL_FAILED", "FAILED"}
BatchStatus == {"QUEUED", "PROCESSING"} \cup Finished

Letter == 1..Len(offers)
Idle == [kind |-> "idle"]
Done == [pc |-> "done"]
TaskPc == {"begin", "next", "mail", "failed", "sent"}

OfferRow == [app : App, batch : 1..MaxBatch, status : OfferStatus,
             token : 0..MaxTask, error : BOOLEAN]
BatchRow == [status : BatchStatus, candidates : Nat, success : Nat, failure : Nat]
QueueEntry == [offer : Nat, token : 0..MaxTask]

TypeOK ==
    /\ stage \in [App -> Stage]
    /\ offers \in Seq(OfferRow)
    /\ batches \in Seq(BatchRow)
    /\ overdue \subseteq 1..Len(batches)
    /\ \A t \in 1..Len(tasks) :
          \/ tasks[t] = Done
          \/ /\ tasks[t].pc \in TaskPc
             /\ tasks[t].batch \in 1..Len(batches)
             /\ tasks[t].queue \in Seq(QueueEntry)
             /\ tasks[t].pc \in {"mail", "failed", "sent"} => tasks[t].queue # <<>>
    /\ \A s \in Session : sessions[s].kind \in {"idle", "respond", "dispatch"}
    /\ inbox \in [1..Len(offers) -> SUBSET ((1..MaxTask) \X (1..MaxTask))]
    /\ restarts \in 0..MaxRestart

-----------------------------------------------------------------------------
(* What the handlers read. *)

LettersOf(b) == {o \in Letter : offers[o].batch = b}

\* get_latest_offer_for_application: the newest letter, whatever its status.
IsLatest(o) == \A p \in Letter : offers[p].app = offers[o].app => p <= o

\* validate_candidates: whom of those picked an offer can be dispatched to.
Eligible(picked) == {a \in picked : stage[a] = "OFFER" /\ a \in Complete}

\* Mutant: whatever the candidate can still see is withdrawn.
SentOrAnswered(apps) ==
    {o \in Letter : offers[o].app \in apps /\ offers[o].status \in {"SENT"} \cup Answer}

\* The letters a dispatch to the applications of apps withdraws.
SentTo(apps) == {o \in Letter : offers[o].app \in apps /\ offers[o].status = "SENT"}

\* The letters a retry resets: failed ones, and any that still show an error.
Failed(b) == {o \in LettersOf(b) : offers[o].status = "FAILED" \/ offers[o].error}

\* Mutant: the subtraction is the wrong way round.
BlockedReversed(b) == Cardinality(LettersOf(b)) - batches[b].candidates

\* The candidates of the batch for whom no letter was made.
Blocked(b) ==
    LET missing == batches[b].candidates - Cardinality(LettersOf(b))
    IN  IF missing > 0 THEN missing ELSE 0

\* Mutant: only the letters that were sent count, whatever became of the rest.
StatusForCountsLenient(success, failure) ==
    IF success > 0 THEN "COMPLETED"
    ELSE "FAILED"

StatusForCounts(success, failure) ==
    IF success > 0 /\ failure = 0 THEN "COMPLETED"
    ELSE IF success > 0 THEN "PARTIAL_FAILED"
    ELSE "FAILED"

Running(b) == \E t \in 1..Len(tasks) : tasks[t] # Done /\ tasks[t].batch = b

-----------------------------------------------------------------------------
Init ==
    /\ stage = [a \in App |-> "OFFER"]
    /\ offers = <<>>
    /\ batches = <<>>
    /\ overdue = {}
    /\ tasks = <<>>
    /\ sessions = [s \in Session |-> Idle]
    /\ inbox = <<>>
    /\ restarts = 0

\* background_tasks.add_task: the task runs once the response is sent.
AddTask(b) == tasks' = Append(tasks, [pc |-> "begin", batch |-> b, queue |-> <<>>])

(***************************************************************************)
(* create_dispatch_batch: the first step validates the candidates and      *)
(* looks up the letters to withdraw, the second writes and commits.        *)
(***************************************************************************)
StartDispatch(s, picked) ==
    /\ sessions[s] = Idle
    /\ Eligible(picked) # {}
    /\ sessions' = [sessions EXCEPT ![s] =
          [kind |-> "dispatch", picked |-> picked, valid |-> Eligible(picked),
           sent |-> SentTo(Eligible(picked))]]
    /\ UNCHANGED <<stage, offers, batches, overdue, tasks, inbox, restarts>>

CommitDispatch(s) ==
    LET in    == sessions[s]
        b     == Len(batches) + 1
        fresh == [a \in App |-> [app |-> a, batch |-> b, status |-> "DRAFT",
                                 token |-> 0, error |-> FALSE]]
        new   == SetToSeq({fresh[a] : a \in in.valid})
        left  == [o \in Letter |-> IF o \in in.sent
                                   THEN [offers[o] EXCEPT !.status = "WITHDRAWN"]
                                   ELSE offers[o]]
    IN  /\ in.kind = "dispatch"
        /\ Len(batches) < MaxBatch
        /\ Len(tasks) < MaxTask
        /\ offers' = left \o new
        /\ inbox' = inbox \o [i \in 1..Len(new) |-> {}]
        /\ batches' = Append(batches,
              [status |-> "QUEUED", candidates |-> Cardinality(in.picked),
               success |-> 0, failure |-> Cardinality(in.picked \ in.valid)])
        /\ AddTask(b)
        /\ sessions' = [sessions EXCEPT ![s] = Idle]
        /\ UNCHANGED <<stage, overdue, restarts>>

\* retry_failed_dispatch_batch.  It does not ask whether the batch is still
\* being processed.
Retry(b) ==
    /\ b \in 1..Len(batches)
    /\ Failed(b) # {}
    /\ Len(tasks) < MaxTask
    /\ offers' = [o \in Letter |-> IF o \in Failed(b)
                     THEN [offers[o] EXCEPT !.status = "DRAFT", !.error = FALSE]
                     ELSE offers[o]]
    /\ batches' = [batches EXCEPT ![b].status = "QUEUED"]
    /\ AddTask(b)
    /\ UNCHANGED <<stage, overdue, sessions, inbox, restarts>>

-----------------------------------------------------------------------------
(* process_offer_dispatch_batch_task: the steps of task t. *)

Become(t, task) == tasks' = [tasks EXCEPT ![t] = task]
GoTo(t, pc) == Become(t, [tasks[t] EXCEPT !.pc = pc])
NextLetter(t) == Become(t, [tasks[t] EXCEPT !.pc = "next", !.queue = Tail(@)])
Current(t) == Head(tasks[t].queue)

\* Rows are read as sequences in an order of their numbers.
Ascending(S) ==
    CHOOSE f \in [1..Cardinality(S) -> S] : \A i, j \in DOMAIN f : i < j => f[i] < f[j]
Descending(S) ==
    CHOOSE f \in [1..Cardinality(S) -> S] : \A i, j \in DOMAIN f : i < j => f[i] > f[j]

\* Mutant: a retried batch starts over with the letters already sent.
DraftsAndSent(b) ==
    LET mine == Ascending({o \in LettersOf(b) : offers[o].status \in {"DRAFT", "SENT"}})
    IN  [i \in DOMAIN mine |-> [offer |-> mine[i], token |-> offers[mine[i]].token]]

\* The task loads the batch once: the drafts it will process, oldest first, and
\* their tokens.
Drafts(b) ==
    LET mine == Ascending({o \in LettersOf(b) : offers[o].status = "DRAFT"})
    IN  [i \in DOMAIN mine |-> [offer |-> mine[i], token |-> offers[mine[i]].token]]

Begin(t) ==
    LET b == tasks[t].batch
    IN  /\ tasks[t].pc = "begin"
        /\ IF batches[b].status \in {"QUEUED", "PROCESSING"}
           THEN /\ batches' = [batches EXCEPT ![b].status = "PROCESSING"]
                /\ Become(t, [pc |-> "next", batch |-> b, queue |-> Drafts(b)])
           ELSE /\ Become(t, Done)
                /\ UNCHANGED batches
        /\ UNCHANGED <<stage, offers, overdue, sessions, inbox, restarts>>

\* Rendering or uploading the letter fails: nothing was written for it yet.
RenderFails(t) ==
    /\ tasks[t].pc = "next"
    /\ tasks[t].queue # <<>>
    /\ GoTo(t, "failed")
    /\ UNCHANGED <<stage, offers, batches, overdue, sessions, inbox, restarts>>

\* Mutant: the mail carries a fresh token although the row keeps its old one.
SaveLinkFresh(t) ==
    LET o == Current(t).offer
    IN  /\ tasks[t].pc = "next"
        /\ tasks[t].queue # <<>>
        /\ offers' = IF Current(t).token = 0
                     THEN [offers EXCEPT ![o].token = t] ELSE offers
        /\ Become(t, [tasks[t] EXCEPT
              !.pc = "mail", !.queue = <<[offer |-> o, token |-> t]>> \o Tail(@)])
        /\ UNCHANGED <<stage, batches, overdue, sessions, inbox, restarts>>

\* The letter's links are committed before the mail that carries them goes out.
\* A token that was loaded is kept, and then not written again.
SaveLink(t) ==
    LET o     == Current(t).offer
        token == IF Current(t).token = 0 THEN t ELSE Current(t).token
    IN  /\ tasks[t].pc = "next"
        /\ tasks[t].queue # <<>>
        /\ offers' = IF Current(t).token = 0
                     THEN [offers EXCEPT ![o].token = token] ELSE offers
        /\ Become(t, [tasks[t] EXCEPT
              !.pc = "mail", !.queue = <<[offer |-> o, token |-> token]>> \o Tail(@)])
        /\ UNCHANGED <<stage, batches, overdue, sessions, inbox, restarts>>

\* The mail service answers: a mail may be delivered although the call fails.
SendMail(t, delivered, ok) ==
    /\ tasks[t].pc = "mail"
    /\ ok => delivered
    /\ inbox' = IF delivered
                THEN [inbox EXCEPT ![Current(t).offer] = @ \cup {<<t, Current(t).token>>}]
                ELSE inbox
    /\ GoTo(t, IF ok THEN "sent" ELSE "failed")
    /\ UNCHANGED <<stage, offers, batches, overdue, sessions, restarts>>

\* The status the task writes does not depend on what the row holds by now.
MarkSent(t) ==
    /\ tasks[t].pc = "sent"
    /\ offers' = [offers EXCEPT ![Current(t).offer].status = "SENT"]
    /\ NextLetter(t)
    /\ UNCHANGED <<stage, batches, overdue, sessions, inbox, restarts>>

MarkFailed(t) ==
    /\ tasks[t].pc = "failed"
    /\ offers' = [offers EXCEPT ![Current(t).offer] =
                     [@ EXCEPT !.status = "FAILED", !.error = TRUE]]
    /\ NextLetter(t)
    /\ UNCHANGED <<stage, batches, overdue, sessions, inbox, restarts>>

\* Mutant: a batch without a single success is left as it is.
SummariseSuccess(t) ==
    LET b       == tasks[t].batch
        success == Cardinality({o \in LettersOf(b) : offers[o].status = "SENT"})
        failure == Cardinality(Failed(b)) + Blocked(b)
    IN  /\ tasks[t].pc = "next"
        /\ tasks[t].queue = <<>>
        /\ batches' = IF success = 0 THEN batches ELSE
              [batches EXCEPT ![b] =
                 [@ EXCEPT !.status = StatusForCounts(success, failure),
                           !.success = success, !.failure = failure]]
        /\ Become(t, Done)
        /\ UNCHANGED <<stage, offers, overdue, sessions, inbox, restarts>>

\* The batch is summed up from its letters as they are now.
Summarise(t) ==
    LET b       == tasks[t].batch
        success == Cardinality({o \in LettersOf(b) : offers[o].status = "SENT"})
        failure == Cardinality(Failed(b)) + Blocked(b)
    IN  /\ tasks[t].pc = "next"
        /\ tasks[t].queue = <<>>
        /\ batches' = [batches EXCEPT ![b] =
              [@ EXCEPT !.status = StatusForCounts(success, failure),
                        !.success = success, !.failure = failure]]
        /\ Become(t, Done)
        /\ UNCHANGED <<stage, offers, overdue, sessions, inbox, restarts>>

TaskStep(t) ==
    /\ t \in 1..Len(tasks)
    /\ \/ Begin(t) \/ RenderFails(t) \/ SaveLink(t)
       \/ \E delivered, ok \in BOOLEAN : SendMail(t, delivered, ok)
       \/ MarkSent(t) \/ MarkFailed(t) \/ Summarise(t)

\* The server restarts: tasks live in its memory and are not resumed.
Restart ==
    /\ restarts < MaxRestart
    /\ restarts' = restarts + 1
    /\ tasks' = [t \in 1..Len(tasks) |-> Done]
    /\ sessions' = [s \in Session |-> Idle]
    /\ UNCHANGED <<stage, offers, batches, overdue, inbox>>

-----------------------------------------------------------------------------
(***************************************************************************)
(* A candidate, or a scanner of their mail, follows a link of a mail they  *)
(* received.  The first step of _respond_to_offer_by_token reads the       *)
(* letter, the second writes the answer; a letter that is not SENT, not    *)
(* the newest or not found by its token is left alone.                     *)
(***************************************************************************)
Follows(o, mail) == mail \in inbox[o] /\ mail[2] = offers[o].token

\* Mutant: any letter that was sent can be answered.
StartRespondAnySent(s, o, mail, answer) ==
    /\ sessions[s] = Idle
    /\ Follows(o, mail)
    /\ offers[o].status = "SENT"
    /\ sessions' = [sessions EXCEPT ![s] =
          [kind |-> "respond", offer |-> o, from |-> stage[offers[o].app],
           error |-> offers[o].error,
           status |-> IF offers[o].batch \in overdue THEN "EXPIRED" ELSE answer]]
    /\ UNCHANGED <<stage, offers, batches, overdue, tasks, inbox, restarts>>

StartRespond(s, o, mail, answer) ==
    /\ sessions[s] = Idle
    /\ Follows(o, mail)
    /\ offers[o].status = "SENT"
    /\ IsLatest(o)
    /\ sessions' = [sessions EXCEPT ![s] =
          [kind |-> "respond", offer |-> o, from |-> stage[offers[o].app],
           error |-> offers[o].error,
           status |-> IF offers[o].batch \in overdue THEN "EXPIRED" ELSE answer]]
    /\ UNCHANGED <<stage, offers, batches, overdue, tasks, inbox, restarts>>

StageFor(status) == IF status = "ACCEPTED" THEN "HIRED" ELSE "REJECTED"

CommitRespond(s) ==
    LET in  == sessions[s]
        row == offers[in.offer]
    IN  /\ in.kind = "respond"
        /\ offers' = [offers EXCEPT ![in.offer] =
              [row EXCEPT !.status = in.status,
                          !.error = row.error /\ ~(in.error /\ in.status \in Answer)]]
        /\ stage' = IF in.status \in Answer /\ StageFor(in.status) # in.from
                    THEN [stage EXCEPT ![row.app] = StageFor(in.status)] ELSE stage
        /\ sessions' = [sessions EXCEPT ![s] = Idle]
        /\ UNCHANGED <<batches, overdue, tasks, inbox, restarts>>

DeadlinePasses(b) ==
    /\ b \in 1..Len(batches) \ overdue
    /\ overdue' = overdue \cup {b}
    /\ UNCHANGED <<stage, offers, batches, tasks, sessions, inbox, restarts>>

\* A recruiter moves the application by hand (candidates/service.py).
MoveApplication(a, to) ==
    /\ stage[a] # to
    /\ stage' = [stage EXCEPT ![a] = to]
    /\ UNCHANGED <<offers, batches, overdue, tasks, sessions, inbox, restarts>>

-----------------------------------------------------------------------------
HandlerStep ==
    \/ \E s \in Session :
          \/ \E picked \in SUBSET App : StartDispatch(s, picked)
          \/ CommitDispatch(s)
          \/ \E o \in Letter : \E mail \in inbox[o], answer \in Answer :
                StartRespond(s, o, mail, answer)
          \/ CommitRespond(s)
    \/ \E a \in App, to \in Stage : MoveApplication(a, to)
    \/ \E b \in 1..MaxBatch : DeadlinePasses(b)

Common == HandlerStep \/ (\E t \in 1..MaxTask : TaskStep(t))

Next == Common \/ Restart \/ \E b \in 1..MaxBatch : Retry(b)

\* Recruiters retry only once no task works on the batch; and a server that is
\* not restarted.
PatientRetry(b) == ~Running(b) /\ Retry(b)
SteadyNext == Common \/ \E b \in 1..MaxBatch : PatientRetry(b)
PatientNext == SteadyNext \/ Restart

\* The event loop runs every background task it holds to its end.
TasksRun == \A t \in 1..MaxTask : WF_vars(TaskStep(t))

Spec == Init /\ [][Next]_vars
PatientSpec == Init /\ [][PatientNext]_vars

-----------------------------------------------------------------------------
(* Correctness. *)

\* A letter that shows as sent was mailed, and the links in its mail lead to it:
\* the token the row holds is one its candidate received, through failed calls,
\* restarts and retries (the order of the commits in _process_offer_letter).
LinksWork ==
    \A o \in Letter :
        offers[o].status = "SENT" => \E mail \in inbox[o] : Follows(o, mail)

\* A batch shown as COMPLETED has reached every candidate it was made for.
CompletedReachedAll ==
    \A b \in 1..Len(batches) :
        batches[b].status = "COMPLETED" =>
            /\ Cardinality(LettersOf(b)) = batches[b].candidates
            /\ \A o \in LettersOf(b) : offers[o].status # "DRAFT" /\ inbox[o] # {}

\* A letter that has left DRAFT is not mailed again unless a retry resets it.
NoSecondMail ==
    [][\A o \in Letter : offers[o].status # "DRAFT" => inbox'[o] = inbox[o]]_vars

\* A batch in progress, or with a letter yet to be sent.
Unsettled(b) ==
    /\ b \in 1..Len(batches)
    /\ \/ batches[b].status \in {"QUEUED", "PROCESSING"}
       \/ \E o \in LettersOf(b) : offers[o].status = "DRAFT"

\* Without a restart every batch is eventually summed up, with every draft of it
\* sent or marked as failed.
BatchesSettle == \A b \in 1..MaxBatch : Unsettled(b) ~> ~Unsettled(b)

-----------------------------------------------------------------------------
(***************************************************************************)
(* What recruiters and candidates read of offer letters: the workspace of  *)
(* the offer stage, a batch, the letters of an application, and the PDF    *)
(* behind a candidate's link (app/modules/offers/service.py).              *)
(***************************************************************************)

LettersFor(a) == {o \in Letter : offers[o].app = a}

\* Mutant: the newest letter that is no draft.
ListLatestSent(apps) ==
    LET Sent(a) == {o \in LettersFor(a) : offers[o].status # "DRAFT"}
    IN  [a \in {x \in apps : Sent(x) # {}} |-> CHOOSE o \in Sent(a) : \A p \in Sent(a) : p <= o]

\* list_latest_offers_for_applications: the newest letter of each that has one.
ListLatestOffers(apps) ==
    [a \in {x \in apps : LettersFor(x) # {}} |-> CHOOSE o \in LettersFor(a) : IsLatest(o)]

\* _offer_status; 0 stands for no letter.
OfferStatusOf(o) ==
    IF o = 0 THEN "UNSENT"
    ELSE IF offers[o].error THEN "FAILED"
    ELSE offers[o].status

\* The newest batch of the stage, 0 before the first.
LatestBatch == Len(batches)

\* get_workspace: a row for every application in the stage.
GetWorkspace ==
    LET apps   == {a \in App : stage[a] = "OFFER"}
        latest == ListLatestOffers(apps)
        Newest(a) == IF a \in DOMAIN latest THEN latest[a] ELSE 0
    IN  [candidates |-> {[application |-> a, latestOffer |-> Newest(a),
                          offerStatus |-> OfferStatusOf(Newest(a)),
                          canSend |-> a \in Complete] : a \in apps},
         latestBatch |-> LatestBatch]

\* get_dispatch_batch: the batch with its letters.
GetDispatchBatch(b) == [batch |-> batches[b], offerLetters |-> LettersOf(b)]

\* get_application_offer_letters: newest first.
GetApplicationOfferLetters(a) == Descending(LettersFor(a))

\* get_offer_download_url_by_token, for a mail the candidate holds.  In production
\* a letter whose upload fails is not mailed, so that the PDF is there; elsewhere
\* it goes out as an attachment, and its link is answered as not found.
GetOfferDownload(o, mail) ==
    IF mail[2] # offers[o].token THEN "not found"
    ELSE IF offers[o].status = "WITHDRAWN" THEN "no longer active"
    ELSE "pdf"

\* What the recruiter reads is what the candidate holds.  A row that shows a
\* letter as sent or answered stands for a mail whose link opens the letter, the
\* newest of the application, and never for one that was withdrawn.  Once a batch is summed up its failures are those its
\* letters show, and a completed one leaves no letter to be sent.
OfferPagesAgree ==
    /\ \A row \in GetWorkspace.candidates :
          /\ row.offerStatus \in {"SENT"} \cup Answer =>
                \E mail \in inbox[row.latestOffer] : GetOfferDownload(row.latestOffer, mail) = "pdf"
          /\ row.offerStatus # "UNSENT" =>
                Head(GetApplicationOfferLetters(row.application)) = row.latestOffer
          /\ row.offerStatus # "WITHDRAWN"
    /\ \A b \in DOMAIN batches :
          LET page == GetDispatchBatch(b)
              Shown(status) == {o \in page.offerLetters : OfferStatusOf(o) = status}
          IN  page.batch.status \in Finished =>
                /\ Cardinality(Shown("FAILED")) + Blocked(b) = page.batch.failure
                /\ page.batch.status = "COMPLETED" => Shown("DRAFT") = {}
=============================================================================
