------------------------------ MODULE MCOffers ------------------------------
(***************************************************************************)
(* One job posting: one candidate, whose answers race with each other and  *)
(* with a second dispatch, or two candidates and one batch; the bounds are *)
(* the configurations'.  The history variable keeps what there was when a  *)
(* session read: the letters that were SENT, and how many there were.      *)
(***************************************************************************)
EXTENDS Offers

VARIABLE seen

racingVars == <<vars, seen>>

NothingSeen == [sent |-> {}, letters |-> 0]
SeenNow == [sent |-> {o \in Letter : offers[o].status = "SENT"}, letters |-> Len(offers)]

\* A session sees the letters when it reads, and forgets them when it commits.
Remember ==
    seen' = [s \in Session |-> IF sessions'[s] = Idle THEN NothingSeen
                               ELSE IF sessions[s] = Idle THEN SeenNow
                               ELSE seen[s]]

RacingInit == Init /\ seen = [s \in Session |-> NothingSeen]

RacingSpec == RacingInit /\ [][PatientNext /\ Remember]_racingVars
SteadyRacingSpec == RacingInit /\ [][SteadyNext /\ Remember]_racingVars /\ TasksRun
LostRetrySpec == RacingInit /\ [][Next /\ Remember]_racingVars

-----------------------------------------------------------------------------
\* The session commits what it decided on the letter o when o was still SENT.
CommitsOn(s, o) ==
    /\ sessions[s] # Idle /\ sessions'[s] = Idle
    /\ o \in seen[s].sent

\* An answer is final (test_reject_offer_does_not_change_accepted_offer) for all
\* but those who read the letter before it was answered: no task and no deadline
\* changes it, nor does a link that is followed or a dispatch that is begun
\* once the answer is there.
AnswersKept ==
    \A o \in Letter :
        offers[o].status \in Answer =>
            \/ offers'[o].status = offers[o].status
            \/ \E s \in Session : CommitsOn(s, o)

\* Only a letter that was SENT can be answered, and only the newest of its
\* application (test_superseded_offer_is_not_actionable) when the link was
\* followed: whatever is newer was dispatched since.
NewestAnswered ==
    \A o \in Letter :
        offers'[o].status \in Answer /\ offers[o].status \notin Answer =>
            \E s \in Session :
                /\ CommitsOn(s, o)
                /\ \A p \in 1..seen[s].letters : offers[p].app = offers[o].app => p <= o

\* Answers stand, and the pages show them, however handlers overlap.
AnswersHold == [][AnswersKept /\ NewestAnswered /\ OfferPagesAgree']_racingVars
=============================================================================
