------------------------------ MODULE Resumes ------------------------------
(***************************************************************************)
(* Screening the resume of one application (app/modules/ai_scoring and the *)
(* rules of app/modules/jobs/service.py): the background task that has a   *)
(* model extract facts and scores them by the rules of the requisition     *)
(* (Scoring), and the handlers that ask for another analysis.              *)
(*                                                                         *)
(* Sessions read committed rows, keep what they read, and at the commit    *)
(* write only the columns that differ from it.  Of the columns only the    *)
(* status is kept.  The task takes the row's lock when it counts its       *)
(* attempt and keeps it over the download and the model, so its PROCESSING *)
(* is never seen; whether it can read the resume, and whether the model    *)
(* answers, is left open.                                                  *)
(***************************************************************************)
EXTENDS Tables, Naturals, FiniteSets

CONSTANTS
    ScreeningTask,  \* background tasks at one time (bound)
    Asker,          \* requests to analyse again at one time (bound)
    MaxRules        \* times the rules are compiled (bound)

ASSUME RulesAreCounted == MaxRules \in Nat

VARIABLES
    rules,          \* job_requisition_rules: there, and how often compiled
    analysis,       \* candidate_resume_analysis.status
    screenings,     \* tasks that have not ended
    askers,         \* handlers between their reads and their commit
    asked,          \* the rules when an analysis was last asked for
    scoredBy,       \* the rules the last complete analysis followed
    dropped         \* a restart has dropped what was under way

resumeVars == <<rules, analysis, screenings, askers, asked, scoredBy, dropped>>

Status == {"PENDING", "FAILED", "UNSUPPORTED", "TEXT_EXTRACTED", "COMPLETED"}

RowIsFree == \A t \in DOMAIN screenings : screenings[t].step \notin {"locked", "asking"}

\* The application is made with its pending analysis and the first task; its
\* requisition may have been approved before there were rules.
ResumesInit ==
    /\ rules \in [there : BOOLEAN, revision : {0}]
    /\ analysis = "PENDING"
    /\ \E t \in ScreeningTask : screenings = Upsert(NoRecords, t, [step |-> "queued"])
    /\ askers = NoRecords
    /\ asked = 0 /\ scoredBy = 0 /\ dropped = FALSE

-----------------------------------------------------------------------------
\* The task.

Step(t, from, to) ==
    /\ screenings[t].step = from
    /\ screenings' = [screenings EXCEPT ![t] = to]
    /\ UNCHANGED <<rules, analysis, askers, asked, scoredBy, dropped>>

\* In a session of its own; an attempt is counted and flushed.
CountAttempt(t) == RowIsFree /\ Step(t, "queued", [step |-> "locked"])

\* The text is extracted, and the rules are read, under the lock.
ReadRules(t) == Step(t, "locked", [step |-> "asking", rules |-> rules])

\* The status differs from the PROCESSING flushed before, so it is written
\* whatever it was; the lock is given back.
EndTask(t, status) ==
    /\ analysis' = status
    /\ screenings' = Without(screenings, {t})
    /\ UNCHANGED <<rules, askers, asked, dropped>>

\* No resume, one that cannot be downloaded, of another type, or not parsed.
NotReadable(t) ==
    /\ screenings[t].step = "locked"
    /\ \E status \in {"FAILED", "UNSUPPORTED"} : EndTask(t, status)
    /\ UNCHANGED scoredBy

\* There are no rules, or no text, or the model fails.
NotScored(t) ==
    /\ screenings[t].step = "asking"
    /\ EndTask(t, IF screenings[t].rules.there THEN "FAILED" ELSE "TEXT_EXTRACTED")
    /\ UNCHANGED scoredBy

Complete(t) ==
    /\ screenings[t].step = "asking" /\ screenings[t].rules.there
    /\ EndTask(t, "COMPLETED")
    /\ scoredBy' = screenings[t].rules.revision

\* Anything unforeseen: the session is rolled back.
TaskBreaks(t) ==
    \E from \in {"locked", "asking"} : Step(t, from, [step |-> "broken"])

\* In another session.
MarkAnalysisFailed(t) ==
    /\ screenings[t].step = "broken" /\ RowIsFree
    /\ EndTask(t, "FAILED")
    /\ UNCHANGED scoredBy

-----------------------------------------------------------------------------
\* The handlers.

\* Mutant: no task is queued while another one is under way.
QueueUnlessUnderWay(t) ==
    screenings' = IF screenings = NoRecords THEN Upsert(screenings, t, [step |-> "queued"])
                  ELSE screenings

\* After the commit.
Queue(t) == screenings' = Upsert(screenings, t, [step |-> "queued"])

Recompiled == [there |-> TRUE, revision |-> rules.revision + 1]

RebuildRules ==
    /\ rules.revision < MaxRules
    /\ rules' = Recompiled
    /\ UNCHANGED <<analysis, screenings, askers, asked, scoredBy, dropped>>

BeginAsking(a) ==
    /\ a \notin DOMAIN askers
    /\ askers' = Upsert(askers, a, analysis)
    /\ UNCHANGED <<rules, analysis, screenings, asked, scoredBy, dropped>>

\* The status becomes PENDING: an UPDATE that waits for the lock, or nothing if
\* it was PENDING when it was read.
CommitPending(a) ==
    /\ IF askers[a] = "PENDING" THEN UNCHANGED analysis
       ELSE RowIsFree /\ analysis' = "PENDING"
    /\ askers' = Without(askers, {a})

RetryAnalysis(a, t) ==
    /\ t \notin DOMAIN screenings
    /\ CommitPending(a) /\ Queue(t)
    /\ asked' = rules.revision
    /\ UNCHANGED <<rules, scoredBy, dropped>>

ReEvaluate(a, t) ==
    /\ t \notin DOMAIN screenings /\ rules.revision < MaxRules
    /\ rules' = Recompiled
    /\ CommitPending(a) /\ Queue(t)
    /\ asked' = rules.revision + 1
    /\ UNCHANGED <<scoredBy, dropped>>

\* Tasks and handlers are gone; nothing takes them up again.
ServerRestarts ==
    /\ dropped' = TRUE
    /\ screenings' = NoRecords /\ askers' = NoRecords
    /\ UNCHANGED <<rules, analysis, asked, scoredBy>>

ResumesNext ==
    \/ \E t \in DOMAIN screenings :
         \/ CountAttempt(t) \/ ReadRules(t)
         \/ NotReadable(t) \/ NotScored(t) \/ Complete(t)
         \/ TaskBreaks(t) \/ MarkAnalysisFailed(t)
    \/ RebuildRules
    \/ \E a \in Asker : BeginAsking(a)
    \/ \E a \in DOMAIN askers, t \in ScreeningTask : RetryAnalysis(a, t) \/ ReEvaluate(a, t)
    \/ ServerRestarts

ResumesSpec == ResumesInit /\ [][ResumesNext]_resumeVars

-----------------------------------------------------------------------------
ResumesTypeOK ==
    /\ rules \in [there : BOOLEAN, revision : 0..MaxRules]
    /\ analysis \in Status
    /\ DOMAIN screenings \subseteq ScreeningTask
    /\ \A t \in DOMAIN screenings :
         screenings[t].step \in {"queued", "locked", "asking", "broken"}
    /\ Cardinality({t \in DOMAIN screenings : screenings[t].step \in {"locked", "asking"}}) <= 1
    /\ Table(askers, Asker, Status)
    /\ asked \in 0..MaxRules /\ scoredBy \in 0..MaxRules /\ dropped \in BOOLEAN

\* Once no task is under way, and unless a restart dropped one, a complete
\* analysis follows the rules there were when it was last asked for, or later
\* ones, in whatever order tasks, retries and re-evaluations met.
ScoredAsLastAsked ==
    (screenings = NoRecords /\ ~dropped /\ analysis = "COMPLETED") => scoredBy >= asked
=============================================================================
