------------------------------ MODULE Pipeline ------------------------------
(***************************************************************************)
(* The pipeline of one job posting: its stages, which the jobs service     *)
(* sets up and the candidates service edits, and the applications in them. *)
(* Every handler is one transaction.                                       *)
(*                                                                         *)
(* Orders are whole numbers, so the renumbering of stages closer than 1e-6 *)
(* never happens here; colours, due dates and evaluation sheets are left   *)
(* out.                                                                    *)
(***************************************************************************)
EXTENDS Tables, Integers, Sequences, FiniteSets, FiniteSetsExt

CONSTANTS
    MaxEdits,       \* changes made to the stages (bound)
    Application,    \* candidates of the posting
    StageName,      \* names given to stages
    TypeInput,      \* types given to stages one by one
    OrderInput      \* orders an administrator may type

\* The code gives stages the first three names itself.
ASSUME PipelineInputs ==
    /\ MaxEdits \in Nat
    /\ {"Applied", "Onboard", "Other"} \subseteq StageName
    /\ TypeInput \subseteq {"DEFAULT", "INTERVIEW", "OFFER", "HIRED", "REJECTED", "ONBOARDING"}
    /\ OrderInput \subseteq Int

VARIABLES
    posting,        \* job_posting.status
    stages,         \* pipeline_stage, by id
    edits,          \* changes made to the stages so far
    applications,   \* candidate_application: its pipelineStageId
    lastMove        \* toStageId of the latest application_stage_history row

pipelineVars == <<posting, stages, edits, applications, lastMove>>

NoStage == 0     \* a reference that is null

\* Keys are UUIDs; a number that no row has does as well.
FreshStage == Max(DOMAIN stages \cup {0}) + 1

Edited == edits < MaxEdits /\ edits' = edits + 1
StageType == {"DEFAULT", "INTERVIEW", "OFFER", "HIRED", "REJECTED", "ONBOARDING"}

StageRow ==
    [name : StageName, type : StageType, order : Int, default : BOOLEAN,
     onboard : BOOLEAN]       \* whether its slug is "onboard"

\* A slug is made of the name, and made unique with a suffix.
NewStage(name, type, order, default) ==
    [name |-> name, type |-> type, order |-> order, default |-> default,
     onboard |-> name = "Onboard" /\ \A p \in DOMAIN stages : ~stages[p].onboard]

AppliedStage == [name |-> "Applied", type |-> "DEFAULT", order |-> 1,
                 default |-> TRUE, onboard |-> FALSE]

\* A posting as decide_requisition publishes it.
PipelineInit ==
    /\ posting = "PUBLISHED"
    /\ stages = [p \in {1} |-> AppliedStage] /\ edits = 0
    /\ applications = NoRecords /\ lastMove = NoRecords

Orders == {stages[p].order : p \in DOMAIN stages}
Protected(p) == stages[p].name = "Applied" /\ stages[p].order = 1
InStage(p) == {a \in DOMAIN applications : applications[a] = p}

\* Position in the order, from 1.
Rank(ss, p) == Cardinality({q \in DOMAIN ss : ss[q].order <= ss[p].order})

\* The one with the least order, of a nonempty set of stages.
Earliest(ps) == CHOOSE p \in ps : \A q \in ps : stages[p].order <= stages[q].order

OfType(type) == {p \in DOMAIN stages : stages[p].type = type}

-----------------------------------------------------------------------------
\* The posting.

UpdatePostingStatus(status) ==
    /\ posting' = status
    /\ UNCHANGED <<stages, edits, applications, lastMove>>

-----------------------------------------------------------------------------
\* Stages, as the jobs service sets them up.

CreatePipelineStage(name, type) ==
    /\ posting # "CLOSED" /\ Edited
    /\ type # "ONBOARDING"
    /\ type \in {"OFFER", "HIRED", "REJECTED"} => OfType(type) = {}
    /\ stages' = Upsert(stages, FreshStage,
          NewStage(name, type, (IF stages = NoRecords THEN 0 ELSE Max(Orders)) + 1,
                   stages = NoRecords /\ name = "Applied"))
    /\ UNCHANGED <<posting, applications, lastMove>>

\* All stages but a protected one are deleted, those with applications cannot
\* be; without a protected one a new Applied stage is made.  Then the rows.
ReplaceSetup(rows) ==
    LET kept == {p \in DOMAIN stages : Protected(p)}
        base == IF kept = {} THEN Upsert(NoRecords, FreshStage, AppliedStage)
                ELSE [p \in kept |-> stages[p]]
        first == Max(DOMAIN stages \cup DOMAIN base)
    IN  /\ posting # "CLOSED" /\ Edited
        /\ \A p \in DOMAIN stages \ kept : InStage(p) = {}
        /\ stages' = [p \in DOMAIN base \cup (first + 1 .. first + Len(rows)) |->
              IF p \in DOMAIN base THEN base[p] ELSE rows[p - first]]
        /\ lastMove' = [a \in DOMAIN lastMove |->
              IF lastMove[a] \in DOMAIN stages \ kept THEN NoStage ELSE lastMove[a]]
        /\ UNCHANGED <<posting, applications>>

SetupRow(type, i, default) ==
    [name |-> "Other", type |-> type, order |-> 1 + i, default |-> default, onboard |-> FALSE]

SetupDefaults == <<"DEFAULT", "INTERVIEW", "OFFER", "HIRED", "REJECTED">>

CreateDefaultPipeline ==
    ReplaceSetup([i \in DOMAIN SetupDefaults |-> SetupRow(SetupDefaults[i], i, TRUE)])

\* The stages of another posting, but its Applied one.
ImportPipeline(types) ==
    /\ types # <<>>
    /\ ReplaceSetup([i \in DOMAIN types |-> SetupRow(types[i], i, FALSE)])

-----------------------------------------------------------------------------
\* Stages, as the candidates service edits them.

SingleType(type, p) ==
    type \in {"OFFER", "HIRED", "REJECTED", "ONBOARDING"} => OfType(type) \subseteq {p}

\* After another stage all are renumbered, leaving a place; otherwise last.
CreateStage(name, type, after) ==
    LET ss == IF stages = NoRecords THEN Upsert(stages, 1, AppliedStage) ELSE stages
        new == Max(DOMAIN ss) + 1
        last == after = NoStage \/ Rank(ss, after) = Cardinality(DOMAIN ss)
        place == IF last THEN Max({ss[p].order : p \in DOMAIN ss}) + 1
                 ELSE Rank(ss, after) + 1
        moved == IF last THEN ss
                 ELSE [p \in DOMAIN ss |-> [ss[p] EXCEPT !.order =
                         IF Rank(ss, p) < place THEN Rank(ss, p) ELSE Rank(ss, p) + 1]]
    IN  /\ posting # "CLOSED" /\ Edited
        /\ SingleType(type, new)
        /\ stages' = Upsert(moved, new, NewStage(name, type, place, FALSE))
        /\ UNCHANGED <<posting, applications, lastMove>>

\* The order is taken as it is; the database refuses one that is in use.
UpdateStage(p, name, type, order) ==
    /\ posting # "CLOSED" /\ p \in DOMAIN stages /\ Edited
    /\ SingleType(type, p)
    /\ \A q \in DOMAIN stages \ {p} : stages[q].order # order
    /\ stages' = [stages EXCEPT ![p] =
          [@ EXCEPT !.name = name, !.type = type, !.order = order]]
    /\ UNCHANGED <<posting, applications, lastMove>>

\* Mutant: nobody looks whether candidates are in the stage.
DeleteStageInUse(p) ==
    LET rest == Without(stages, {p})
    IN  /\ posting # "CLOSED" /\ p \in DOMAIN stages
        /\ ~Protected(p) /\ Edited
        /\ stages' = [q \in DOMAIN rest |-> [rest[q] EXCEPT !.order = Rank(rest, q)]]
        /\ lastMove' = [a \in DOMAIN lastMove |-> IF lastMove[a] = p THEN NoStage ELSE lastMove[a]]
        /\ UNCHANGED <<posting, applications>>

\* The rest is renumbered; history rows keep no reference to the stage.
DeleteStage(p) ==
    LET rest == Without(stages, {p})
    IN  /\ posting # "CLOSED" /\ p \in DOMAIN stages
        /\ ~Protected(p) /\ InStage(p) = {} /\ Edited
        /\ stages' = [q \in DOMAIN rest |-> [rest[q] EXCEPT !.order = Rank(rest, q)]]
        /\ lastMove' = [a \in DOMAIN lastMove |-> IF lastMove[a] = p THEN NoStage ELSE lastMove[a]]
        /\ UNCHANGED <<posting, applications>>

-----------------------------------------------------------------------------
\* Applications.

MoveTo(a, p) ==
    /\ applications' = Upsert(applications, a, p)
    /\ lastMove' = Upsert(lastMove, a, p)

\* The first default stage, or else the first.
DefaultStage ==
    LET defaults == {p \in DOMAIN stages : stages[p].default}
    IN  Earliest(IF defaults = {} THEN DOMAIN stages ELSE defaults)

ApplyToPosting(a) ==
    /\ posting = "PUBLISHED" /\ stages # NoRecords
    /\ a \notin DOMAIN applications
    /\ MoveTo(a, DefaultStage)
    /\ UNCHANGED <<posting, stages, edits>>

\* Mutant: moving a candidate forgets to ask whether the posting is closed.
MoveWhateverThePosting(a, p) ==
    /\ a \in DOMAIN applications /\ p \in DOMAIN stages \ {applications[a]}
    /\ MoveTo(a, p)
    /\ UNCHANGED <<posting, stages, edits>>

\* Interviews are not part of this module: a candidate whose interview is under
\* way, whom the code does not move, is moved here as well.
MoveApplication(a, p) ==
    /\ posting # "CLOSED"
    /\ a \in DOMAIN applications /\ p \in DOMAIN stages \ {applications[a]}
    /\ MoveTo(a, p)
    /\ UNCHANGED <<posting, stages, edits>>

\* Mutant: the answer to an offer moves the candidate without a history row.
AnswerWithoutHistory(a, type) ==
    /\ a \in DOMAIN applications
    /\ OfType(type) # {} /\ Earliest(OfType(type)) # applications[a]
    /\ applications' = Upsert(applications, a, Earliest(OfType(type)))
    /\ UNCHANGED <<posting, stages, edits, lastMove>>

\* The answer to an offer, whatever became of the posting.
AnswerOffer(a, type) ==
    /\ a \in DOMAIN applications
    /\ OfType(type) # {} /\ Earliest(OfType(type)) # applications[a]
    /\ MoveTo(a, Earliest(OfType(type)))
    /\ UNCHANGED <<posting, stages, edits>>

PipelineNext ==
    \/ \E status \in {"PUBLISHED", "CLOSED"} : UpdatePostingStatus(status)
    \/ \E name \in StageName, type \in TypeInput :
         \/ CreatePipelineStage(name, type)
         \/ \E after \in DOMAIN stages \cup {NoStage} : CreateStage(name, type, after)
         \/ \E p \in DOMAIN stages, order \in OrderInput : UpdateStage(p, name, type, order)
    \/ CreateDefaultPipeline
    \/ \E type \in TypeInput : ImportPipeline(<<type>>)
    \/ \E p \in DOMAIN stages : DeleteStage(p)
    \/ \E a \in Application :
         \/ ApplyToPosting(a)
         \/ \E p \in DOMAIN stages : MoveApplication(a, p)
         \/ \E type \in {"HIRED", "REJECTED"} : AnswerOffer(a, type)

-----------------------------------------------------------------------------
PipelineTypeOK ==
    /\ posting \in {"PUBLISHED", "CLOSED"}
    /\ edits \in 0..MaxEdits
    /\ Table(stages, Nat \ {NoStage}, StageRow)
    /\ Table(applications, Application, DOMAIN stages)
    /\ Table(lastMove, Application, DOMAIN stages \cup {NoStage})

\* The last row of a candidate's history names the stage the candidate is in,
\* whoever moved the candidate and whatever stages were deleted since.
HistoryFollows ==
    \A a \in DOMAIN applications : a \in DOMAIN lastMove /\ lastMove[a] = applications[a]

\* While the posting is closed its pipeline is frozen ("This job opening is
\* closed. Pipeline changes are disabled."), but for the candidates' own
\* answers: offers move them to an accepted or rejected stage, submitted
\* documents to the onboarding stage, which may be made for them.
ClosedIsFrozen ==
    [][posting = "CLOSED" /\ posting' = "CLOSED" =>
         /\ \A p \in DOMAIN stages : p \in DOMAIN stages' /\ stages'[p] = stages[p]
         /\ \A p \in DOMAIN stages' \ DOMAIN stages : stages'[p].type = "ONBOARDING"
         /\ \A a \in DOMAIN applications' :
              \/ a \in DOMAIN applications /\ applications'[a] = applications[a]
              \/ stages'[applications'[a]].type \in {"HIRED", "REJECTED", "ONBOARDING"}]_pipelineVars
=============================================================================
