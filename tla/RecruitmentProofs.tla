-------------------------- MODULE RecruitmentProofs --------------------------
(***************************************************************************)
(* Recruitment, for every set of candidates, stages, uploads, addresses,   *)
(* requisitions and interviewers: the history follows the candidates, a    *)
(* closed posting is frozen, what was submitted is kept and told; then     *)
(* requisitions, collected documents and screenings, handler against       *)
(* handler and task against task; the points of a resume; and what follows *)
(* of recruitment as a whole.                                              *)
(***************************************************************************)
EXTENDS MCRecruitment, FiniteLemmas

-----------------------------------------------------------------------------
(* The pipeline. *)

PipelineInv ==
    /\ PipelineTypeOK
    /\ stages = [p \in DOMAIN stages |-> stages[p]]
    /\ IsFiniteSet(DOMAIN stages)
    /\ HistoryFollows

\* A table of stages that steps of the pipeline may leave behind.
StageTable(ss) ==
    /\ Table(ss, Nat \ {NoStage}, StageRow)
    /\ ss = [p \in DOMAIN ss |-> ss[p]]
    /\ IsFiniteSet(DOMAIN ss)

\* One of the earliest stages of a set is one of that set.
LEMMA EarliestIsOne ==
    ASSUME PipelineInv, NEW ps \in SUBSET DOMAIN stages, ps # {}
    PROVE  Earliest(ps) \in ps
<1> DEFINE f == [p \in ps |-> stages[p].order]
<1>1. IsFiniteSet(ps)
  BY FS_Subset DEF PipelineInv
<1>2. \A p \in ps : f[p] \in Int
  BY DEF PipelineInv, PipelineTypeOK, Table, StageRow
<1>3. \E p \in ps : \A q \in ps : f[p] <= f[q]
  <2> HIDE DEF f
  <2> QED BY <1>1, <1>2, LeastExists
<1>4. \E p \in ps : \A q \in ps : stages[p].order <= stages[q].order
  BY <1>3
<1> QED BY <1>4 DEF Earliest

\* An order or a key beyond those of a finite nonempty table of stages.
LEMMA OrdersHaveAGreatest ==
    ASSUME NEW ss, IsFiniteSet(DOMAIN ss), DOMAIN ss # {}, \A p \in DOMAIN ss : ss[p].order \in Int
    PROVE  Max({ss[p].order : p \in DOMAIN ss}) \in Int
<1> DEFINE S == {ss[p].order : p \in DOMAIN ss}
<1>1. IsFiniteSet(S)
  <2> DEFINE f == [p \in DOMAIN ss |-> ss[p].order]
  <2>1. f \in Surjection(DOMAIN ss, S)
    BY DEF Surjection
  <2> HIDE DEF f, S
  <2> QED BY <2>1, FS_Surjection
<1>2. S \in SUBSET Int /\ S # {}
  OBVIOUS
<1>3. Max(S) \in S
  <2> HIDE DEF S
  <2> QED BY <1>1, <1>2, MaxIsGreatest
<1> QED BY <1>2, <1>3

LEMMA RanksAreNumbers ==
    ASSUME NEW ss, IsFiniteSet(DOMAIN ss), NEW p
    PROVE  Rank(ss, p) \in Nat
<1> DEFINE S == {q \in DOMAIN ss : ss[q].order <= ss[p].order}
<1>1. IsFiniteSet(S)
  BY FS_Subset
<1>2. Cardinality(S) \in Nat
  BY <1>1, FS_CardinalityType
<1> QED BY <1>2 DEF Rank

LEMMA OneStageMore ==
    ASSUME NEW ss, StageTable(ss), NEW p \in Nat \ {NoStage}, NEW row \in StageRow
    PROVE  StageTable(Upsert(ss, p, row)) /\ DOMAIN Upsert(ss, p, row) = DOMAIN ss \cup {p}
<1>1. DOMAIN Upsert(ss, p, row) = DOMAIN ss \cup {p}
  BY DEF Upsert
<1>2. IsFiniteSet(DOMAIN ss \cup {p})
  BY FS_AddElement DEF StageTable
<1> QED BY <1>1, <1>2 DEF StageTable, Table, Upsert

LEMMA NewStagesAreRows ==
    ASSUME NEW name \in StageName, NEW type \in StageType, NEW order \in Int,
           NEW default \in BOOLEAN
    PROVE  NewStage(name, type, order, default) \in StageRow /\ AppliedStage \in StageRow
BY PipelineInputs DEF NewStage, AppliedStage, StageRow, StageType

-----------------------------------------------------------------------------
(* What steps do to the references to stages. *)

\* No stage goes: the references stay.
LEMMA StagesKept ==
    ASSUME PipelineInv, StageTable(stages'), DOMAIN stages \subseteq DOMAIN stages',
           edits' \in 0 .. MaxEdits, posting' \in {"PUBLISHED", "CLOSED"},
           UNCHANGED <<applications, lastMove>>
    PROVE  PipelineInv'
BY DEF PipelineInv, PipelineTypeOK, HistoryFollows, StageTable, Table

\* A candidate is moved with a row of the history.
LEMMA CandidateMoved ==
    ASSUME PipelineInv, StageTable(stages'), DOMAIN stages \subseteq DOMAIN stages',
           NEW a \in Application, NEW p \in DOMAIN stages', MoveTo(a, p),
           UNCHANGED <<posting, edits>>
    PROVE  PipelineInv'
<1>1. PipelineTypeOK'
  BY DEF PipelineInv, PipelineTypeOK, StageTable, Table, MoveTo, Upsert
<1>2. HistoryFollows'
  BY DEF PipelineInv, HistoryFollows, MoveTo, Upsert
<1> QED BY <1>1, <1>2 DEF PipelineInv, StageTable

\* Stages nobody is in go, with the references of the history to them.
LEMMA StagesGone ==
    ASSUME PipelineInv, StageTable(stages'), NEW gone \in SUBSET DOMAIN stages,
           DOMAIN stages \ gone \subseteq DOMAIN stages', \A p \in gone : InStage(p) = {},
           lastMove' = [a \in DOMAIN lastMove |->
              IF lastMove[a] \in gone THEN NoStage ELSE lastMove[a]],
           edits' \in 0 .. MaxEdits, UNCHANGED <<posting, applications>>
    PROVE  PipelineInv'
<1>1. \A a \in DOMAIN applications : applications[a] \in DOMAIN stages \ gone
  BY DEF PipelineInv, PipelineTypeOK, Table, InStage
<1>2. PipelineTypeOK'
  BY <1>1 DEF PipelineInv, PipelineTypeOK, StageTable, Table
<1>3. HistoryFollows'
  BY <1>1 DEF PipelineInv, HistoryFollows
<1> QED BY <1>2, <1>3 DEF PipelineInv, StageTable

-----------------------------------------------------------------------------
(* The steps of the pipeline. *)

LEMMA InvGivesTable ==
    ASSUME PipelineInv
    PROVE  StageTable(stages) /\ (stages # NoRecords => DOMAIN stages # {})
<1>1. DOMAIN stages = {} => stages = NoRecords
  BY DEF PipelineInv, NoRecords
<1> QED BY <1>1 DEF PipelineInv, PipelineTypeOK, StageTable

LEMMA EditsCounted ==
    ASSUME PipelineInv, Edited
    PROVE  edits' \in 0 .. MaxEdits
BY PipelineInputs DEF PipelineInv, PipelineTypeOK, Edited

LEMMA CreatePipelineStageInv ==
    ASSUME PipelineInv, NEW name \in StageName, NEW type \in StageType,
           CreatePipelineStage(name, type)
    PROVE  PipelineInv'
<1> DEFINE order == (IF stages = NoRecords THEN 0 ELSE Max(Orders)) + 1
           default == stages = NoRecords /\ name = "Applied"
<1>1. StageTable(stages) /\ (stages # NoRecords => DOMAIN stages # {})
  BY InvGivesTable
<1>2. order \in Int
  BY <1>1, OrdersHaveAGreatest DEF StageTable, Table, StageRow, Orders
<1>3. default \in BOOLEAN
  OBVIOUS
<1>4. FreshStage \in Nat \ {NoStage}
  BY <1>1, FreshKeys DEF StageTable, Table, FreshStage, NoStage
<1>5. stages' = Upsert(stages, FreshStage, NewStage(name, type, order, default))
  BY DEF CreatePipelineStage
<1>6. NewStage(name, type, order, default) \in StageRow
  <2> HIDE DEF order, default
  <2> QED BY <1>2, <1>3, NewStagesAreRows
<1>7. StageTable(stages') /\ DOMAIN stages \subseteq DOMAIN stages'
  <2> DEFINE row == NewStage(name, type, order, default)
  <2> HIDE DEF order, default, row
  <2>1. stages' = Upsert(stages, FreshStage, row) /\ row \in StageRow
    BY <1>5, <1>6 DEF row
  <2>2. StageTable(Upsert(stages, FreshStage, row))
        /\ DOMAIN Upsert(stages, FreshStage, row) = DOMAIN stages \cup {FreshStage}
    BY <1>1, <1>4, <2>1, OneStageMore
  <2> QED BY <2>1, <2>2
<1>8. posting' \in {"PUBLISHED", "CLOSED"}
  BY DEF PipelineInv, PipelineTypeOK, CreatePipelineStage
<1> QED BY <1>7, <1>8, EditsCounted, StagesKept DEF CreatePipelineStage

LEMMA CreateStageInv ==
    ASSUME PipelineInv, NEW name \in StageName, NEW type \in StageType, NEW after,
           CreateStage(name, type, after)
    PROVE  PipelineInv'
<1> DEFINE ss == IF stages = NoRecords THEN Upsert(stages, 1, AppliedStage) ELSE stages
           new == Max(DOMAIN ss) + 1
           last == after = NoStage \/ Rank(ss, after) = Cardinality(DOMAIN ss)
           place == IF last THEN Max({ss[p].order : p \in DOMAIN ss}) + 1
                    ELSE Rank(ss, after) + 1
           moved == IF last THEN ss
                    ELSE [p \in DOMAIN ss |-> [ss[p] EXCEPT !.order =
                            IF Rank(ss, p) < place THEN Rank(ss, p) ELSE Rank(ss, p) + 1]]
<1>1. StageTable(stages) /\ (stages # NoRecords => DOMAIN stages # {})
  BY InvGivesTable
<1>2. StageTable(ss) /\ DOMAIN ss # {} /\ DOMAIN stages \subseteq DOMAIN ss
  <2>1. AppliedStage \in StageRow
    BY PipelineInputs DEF AppliedStage, StageRow, StageType
  <2>2. 1 \in Nat \ {NoStage}
    BY DEF NoStage
  <2>3. /\ StageTable(Upsert(stages, 1, AppliedStage))
        /\ DOMAIN Upsert(stages, 1, AppliedStage) = DOMAIN stages \cup {1}
    BY <1>1, <2>1, <2>2, OneStageMore
  <2> QED BY <1>1, <2>3
<1>3. new \in Nat \ {NoStage}
  <2> HIDE DEF ss
  <2>1. DOMAIN ss \in SUBSET Int /\ IsFiniteSet(DOMAIN ss) /\ DOMAIN ss \subseteq Nat \ {NoStage}
    BY <1>2 DEF StageTable, Table
  <2>2. Max(DOMAIN ss) \in DOMAIN ss
    BY <2>1, <1>2, MaxIsGreatest
  <2> QED BY <2>1, <2>2 DEF NoStage
<1>4. \A p : Rank(ss, p) \in Nat
  BY <1>2, RanksAreNumbers DEF StageTable
<1>5. place \in Int
  <2> HIDE DEF ss
  <2>1. Max({ss[p].order : p \in DOMAIN ss}) \in Int
    BY <1>2, OrdersHaveAGreatest DEF StageTable, Table, StageRow
  <2> QED BY <1>4, <2>1
<1>6. StageTable(moved) /\ DOMAIN moved = DOMAIN ss
  <2> HIDE DEF ss, place
  <2>1. \A p \in DOMAIN ss :
          [ss[p] EXCEPT !.order = IF Rank(ss, p) < place THEN Rank(ss, p) ELSE Rank(ss, p) + 1]
             \in StageRow
    BY <1>2, <1>4 DEF StageTable, Table, StageRow
  <2> QED BY <1>2, <2>1 DEF StageTable, Table
<1>7. stages' = Upsert(moved, new, NewStage(name, type, place, FALSE))
  BY DEF CreateStage
<1>8. NewStage(name, type, place, FALSE) \in StageRow
  <2> HIDE DEF place
  <2> QED BY <1>5, NewStagesAreRows
<1>9. StageTable(stages') /\ DOMAIN stages \subseteq DOMAIN stages'
  <2> DEFINE row == NewStage(name, type, place, FALSE)
  <2> HIDE DEF ss, moved, new, place, row
  <2>1. stages' = Upsert(moved, new, row) /\ row \in StageRow
    BY <1>7, <1>8 DEF row
  <2>2. /\ StageTable(Upsert(moved, new, row))
        /\ DOMAIN Upsert(moved, new, row) = DOMAIN moved \cup {new}
    BY <1>3, <1>6, <2>1, OneStageMore
  <2> QED BY <1>2, <1>6, <2>1, <2>2
<1>10. posting' \in {"PUBLISHED", "CLOSED"} /\ Edited /\ UNCHANGED <<applications, lastMove>>
  BY DEF PipelineInv, PipelineTypeOK, CreateStage
<1> QED BY <1>9, <1>10, EditsCounted, StagesKept

LEMMA UpdateStageInv ==
    ASSUME PipelineInv, NEW p \in DOMAIN stages, NEW name \in StageName,
           NEW type \in StageType, NEW order \in Int, UpdateStage(p, name, type, order)
    PROVE  PipelineInv'
<1>1. StageTable(stages)
  BY InvGivesTable
<1>2. [stages[p] EXCEPT !.name = name, !.type = type, !.order = order] \in StageRow
  BY <1>1 DEF StageTable, Table, StageRow
<1>3. stages' = [stages EXCEPT ![p] = [stages[p] EXCEPT !.name = name, !.type = type, !.order = order]]
  BY DEF UpdateStage
<1>4. StageTable(stages') /\ DOMAIN stages' = DOMAIN stages
  BY <1>1, <1>2, <1>3 DEF StageTable, Table
<1>5. posting' \in {"PUBLISHED", "CLOSED"} /\ Edited /\ UNCHANGED <<applications, lastMove>>
  BY DEF PipelineInv, PipelineTypeOK, UpdateStage
<1> QED BY <1>4, <1>5, EditsCounted, StagesKept

LEMMA DeleteStageInv ==
    ASSUME PipelineInv, NEW p \in DOMAIN stages, DeleteStage(p)
    PROVE  PipelineInv'
<1> DEFINE rest == Without(stages, {p})
<1>1. StageTable(rest) /\ DOMAIN rest = DOMAIN stages \ {p}
  <2>1. IsFiniteSet(DOMAIN stages \ {p})
    BY FS_RemoveElement DEF PipelineInv
  <2> QED BY <2>1, InvGivesTable DEF StageTable, Table, Without
<1>2. \A q : Rank(rest, q) \in Nat
  BY <1>1, RanksAreNumbers DEF StageTable
<1>3. stages' = [q \in DOMAIN rest |-> [rest[q] EXCEPT !.order = Rank(rest, q)]]
  BY DEF DeleteStage
<1>4. StageTable(stages') /\ DOMAIN stages' = DOMAIN stages \ {p}
  <2> HIDE DEF rest
  <2>1. \A q \in DOMAIN rest : [rest[q] EXCEPT !.order = Rank(rest, q)] \in StageRow
    BY <1>1, <1>2 DEF StageTable, Table, StageRow
  <2> QED BY <1>1, <1>3, <2>1 DEF StageTable, Table
<1>5. lastMove' = [a \in DOMAIN lastMove |-> IF lastMove[a] \in {p} THEN NoStage ELSE lastMove[a]]
  BY DEF DeleteStage
<1>6. InStage(p) = {} /\ Edited /\ UNCHANGED <<posting, applications>>
  BY DEF DeleteStage
<1> QED BY <1>4, <1>5, <1>6, EditsCounted, StagesGone

LEMMA ReplaceSetupInv ==
    ASSUME PipelineInv, NEW rows, NEW n \in Nat, Len(rows) = n,
           \A i \in 1 .. n : rows[i] \in StageRow, ReplaceSetup(rows)
    PROVE  PipelineInv'
<1> DEFINE kept == {p \in DOMAIN stages : Protected(p)}
           base == IF kept = {} THEN Upsert(NoRecords, FreshStage, AppliedStage)
                   ELSE [p \in kept |-> stages[p]]
           first == Max(DOMAIN stages \cup DOMAIN base)
           gone == DOMAIN stages \ kept
<1>1. StageTable(stages)
  BY InvGivesTable
<1>2. FreshStage \in Nat \ {NoStage}
  BY <1>1, FreshKeys DEF StageTable, Table, FreshStage, NoStage
<1>3. StageTable(base) /\ kept \subseteq DOMAIN base /\ DOMAIN base # {}
  <2>1. CASE kept = {}
    <3>1. AppliedStage \in StageRow
      BY PipelineInputs DEF AppliedStage, StageRow, StageType
    <3>2. StageTable(NoRecords)
      BY FS_EmptySet DEF StageTable, Table, NoRecords
    <3>3. /\ StageTable(Upsert(NoRecords, FreshStage, AppliedStage))
          /\ DOMAIN Upsert(NoRecords, FreshStage, AppliedStage) = DOMAIN NoRecords \cup {FreshStage}
      BY <1>2, <3>1, <3>2, OneStageMore, Zenon
    <3> QED BY <2>1, <3>3
  <2>2. CASE kept # {}
    <3>1. IsFiniteSet(kept)
      BY <1>1, FS_Subset DEF StageTable
    <3> QED BY <1>1, <2>2, <3>1 DEF StageTable, Table
  <2> QED BY <2>1, <2>2
<1>4. first \in Nat
  <2> DEFINE keys == DOMAIN stages \cup DOMAIN base
  <2>1. keys \subseteq Nat /\ keys # {} /\ keys \in SUBSET Int
    BY <1>1, <1>3 DEF StageTable, Table
  <2>2. IsFiniteSet(keys)
    BY <1>1, <1>3, FS_Union DEF StageTable
  <2>3. Max(keys) \in keys
    <3> HIDE DEF keys
    <3> QED BY <2>1, <2>2, MaxIsGreatest
  <2> QED BY <2>1, <2>3
<1>5. stages' = [p \in DOMAIN base \cup (first + 1 .. first + Len(rows)) |->
                   IF p \in DOMAIN base THEN base[p] ELSE rows[p - first]]
  BY DEF ReplaceSetup
<1>6. StageTable(stages') /\ kept \subseteq DOMAIN stages'
  <2> HIDE DEF base, first, kept
  <2> DEFINE keys == DOMAIN base \cup (first + 1 .. first + n)
  <2>1. IsFiniteSet(first + 1 .. first + n)
    BY <1>4, FS_Interval
  <2>2. IsFiniteSet(keys)
    BY <1>3, <2>1, FS_Union DEF StageTable
  <2>3. keys \subseteq Nat \ {NoStage}
    BY <1>3, <1>4 DEF StageTable, Table, NoStage
  <2>4. \A p \in keys \ DOMAIN base : p - first \in 1 .. n
    BY <1>4
  <2>5. \A p \in keys : (IF p \in DOMAIN base THEN base[p] ELSE rows[p - first]) \in StageRow
    BY <1>3, <2>4 DEF StageTable, Table
  <2>6. stages' = [p \in keys |-> IF p \in DOMAIN base THEN base[p] ELSE rows[p - first]]
    BY <1>5
  <2>7. kept \subseteq keys
    BY <1>3
  <2> QED BY <2>2, <2>3, <2>5, <2>6, <2>7 DEF StageTable, Table
<1>7. DOMAIN stages \ gone = kept
  OBVIOUS
<1>8. /\ \A p \in gone : InStage(p) = {}
      /\ lastMove' = [a \in DOMAIN lastMove |->
            IF lastMove[a] \in gone THEN NoStage ELSE lastMove[a]]
      /\ Edited /\ UNCHANGED <<posting, applications>>
  BY DEF ReplaceSetup
<1> QED
  <2>1. gone \in SUBSET DOMAIN stages
    OBVIOUS
  <2> HIDE DEF kept, gone
  <2> QED BY <1>6, <1>7, <1>8, <2>1, EditsCounted, StagesGone

LEMMA SetupInv ==
    ASSUME PipelineInv, NEW types, NEW n \in Nat, DOMAIN types = 1 .. n,
           \A i \in 1 .. n : types[i] \in StageType, NEW default \in BOOLEAN,
           ReplaceSetup([i \in DOMAIN types |-> SetupRow(types[i], i, default)])
    PROVE  PipelineInv'
<1> DEFINE rows == [i \in DOMAIN types |-> SetupRow(types[i], i, default)]
<1>1. Len(rows) = n /\ \A i \in 1 .. n : rows[i] = SetupRow(types[i], i, default)
  OBVIOUS
<1>2. \A i \in 1 .. n : SetupRow(types[i], i, default) \in StageRow
  BY PipelineInputs DEF SetupRow, StageRow, StageType
<1> HIDE DEF rows
<1> QED BY <1>1, <1>2, ReplaceSetupInv DEF rows

LEMMA CreateDefaultPipelineInv ==
    ASSUME PipelineInv, CreateDefaultPipeline
    PROVE  PipelineInv'
<1>1. DOMAIN SetupDefaults = 1 .. 5 /\ \A i \in 1 .. 5 : SetupDefaults[i] \in StageType
  BY DEF SetupDefaults, StageType
<1>2. 5 \in Nat /\ TRUE \in BOOLEAN
  OBVIOUS
<1> QED BY <1>1, <1>2, SetupInv, Zenon DEF CreateDefaultPipeline

LEMMA ImportPipelineInv ==
    ASSUME PipelineInv, NEW type \in StageType, ImportPipeline(<<type>>)
    PROVE  PipelineInv'
<1>1. DOMAIN <<type>> = 1 .. 1 /\ \A i \in 1 .. 1 : <<type>>[i] \in StageType
  OBVIOUS
<1>2. 1 \in Nat /\ FALSE \in BOOLEAN
  OBVIOUS
<1> QED BY <1>1, <1>2, SetupInv, Zenon DEF ImportPipeline

LEMMA ApplyToPostingInv ==
    ASSUME PipelineInv, NEW a \in Application, ApplyToPosting(a)
    PROVE  PipelineInv'
<1> DEFINE defaults == {p \in DOMAIN stages : stages[p].default}
           ps == IF defaults = {} THEN DOMAIN stages ELSE defaults
<1>1. StageTable(stages) /\ DOMAIN stages # {}
  BY InvGivesTable DEF ApplyToPosting
<1>2. ps \in SUBSET DOMAIN stages /\ ps # {}
  BY <1>1
<1>3. DefaultStage \in DOMAIN stages
  <2>1. DefaultStage = Earliest(ps)
    BY DEF DefaultStage
  <2> HIDE DEF ps
  <2> QED BY <1>2, <2>1, EarliestIsOne
<1> QED BY <1>1, <1>3, CandidateMoved DEF ApplyToPosting

\* Every step of the pipeline preserves the invariant.
LEMMA PipelineStepInv ==
    ASSUME PipelineInv, PipelineNext
    PROVE  PipelineInv'
<1>1. ASSUME NEW status \in {"PUBLISHED", "CLOSED"}, UpdatePostingStatus(status)
      PROVE  PipelineInv'
  BY <1>1 DEF PipelineInv, PipelineTypeOK, HistoryFollows, UpdatePostingStatus
<1> USE DEF StageType
<1>2. ASSUME NEW name \in StageName, NEW type \in TypeInput, CreatePipelineStage(name, type)
      PROVE  PipelineInv'
  BY <1>2, CreatePipelineStageInv, PipelineInputs
<1>3. ASSUME NEW name \in StageName, NEW type \in TypeInput, NEW after,
             CreateStage(name, type, after)
      PROVE  PipelineInv'
  BY <1>3, CreateStageInv, PipelineInputs
<1>4. ASSUME NEW name \in StageName, NEW type \in TypeInput, NEW p \in DOMAIN stages,
             NEW order \in OrderInput, UpdateStage(p, name, type, order)
      PROVE  PipelineInv'
  BY <1>4, UpdateStageInv, PipelineInputs
<1>5. ASSUME NEW type \in TypeInput, ImportPipeline(<<type>>)
      PROVE  PipelineInv'
  BY <1>5, ImportPipelineInv, PipelineInputs
<1>6. StageTable(stages)
  BY InvGivesTable
<1>7. ASSUME NEW a \in Application, NEW p \in DOMAIN stages, MoveApplication(a, p)
      PROVE  PipelineInv'
  BY <1>6, <1>7, CandidateMoved DEF MoveApplication
<1>8. ASSUME NEW a \in Application, NEW type, AnswerOffer(a, type)
      PROVE  PipelineInv'
  <2>1. Earliest(OfType(type)) \in DOMAIN stages
    BY <1>8, EarliestIsOne DEF AnswerOffer, OfType
  <2> QED BY <1>6, <1>8, <2>1, CandidateMoved DEF AnswerOffer
<1> QED
  BY <1>1, <1>2, <1>3, <1>4, <1>5, <1>7, <1>8, CreateDefaultPipelineInv, DeleteStageInv,
     ApplyToPostingInv DEF PipelineNext

-----------------------------------------------------------------------------
(* The onboarding over it. *)

\* Documents that are there were submitted, and only documents that are there are
\* told to be.
RowSound(row) ==
    /\ row.documents # "null" => row.status # "PENDING"
    /\ row.status = "DOCUMENTS_SUBMITTED" => row.documents # "null"

\* What a handler works with: what it read was sound, it was allowed to begin, and
\* what it uploaded is there.
WorkSound(w) ==
    /\ w.record \in DOMAIN records
    /\ RowSound(w.read)
    /\ w.op = "submit" => w.read.documents = "null"
    /\ w.op = "assign" => w.read.status # "CREDENTIALS_SENT"
    /\ w.file # "null" => <<w.record, w.file>> \in DOMAIN files

RecordSound(r) ==
    /\ records[r].application \in DOMAIN applications
    /\ RowSound(records[r])
    /\ records[r].documents # "null" => <<r, records[r].documents>> \in DOMAIN files

OnboardingInv ==
    /\ PipelineInv
    /\ Table(records, Record, OnboardingRow)
    /\ Table(files, Record \X FileName, Upload)
    /\ Table(asking, Record, DOMAIN applications)
    /\ Table(working, Caller, WorkRow)
    /\ mails \subseteq DOMAIN records
    /\ \A r \in DOMAIN asking : r \notin DOMAIN records
    /\ \A r \in DOMAIN records : RecordSound(r)
    /\ \A s \in DOMAIN working : WorkSound(working[s])

LEMMA InvGivesType ==
    ASSUME OnboardingInv
    PROVE  OnboardingTypeOK
<1>1. DOMAIN applications \subseteq Application
  BY DEF OnboardingInv, PipelineInv, PipelineTypeOK, Table
<1> QED BY <1>1 DEF OnboardingInv, PipelineInv, OnboardingTypeOK, Table

LEMMA PipelineUnchanged ==
    ASSUME PipelineInv, UNCHANGED pipelineVars
    PROVE  PipelineInv'
BY DEF pipelineVars, PipelineInv, PipelineTypeOK, HistoryFollows

\* No application is ever taken away.
LEMMA ApplicationsGrow ==
    ASSUME PipelineNext
    PROVE  DOMAIN applications \subseteq DOMAIN applications'
BY DEF PipelineNext, UpdatePostingStatus, CreatePipelineStage, CreateStage, UpdateStage,
   CreateDefaultPipeline, ImportPipeline, ReplaceSetup, DeleteStage, ApplyToPosting,
   MoveApplication, AnswerOffer, MoveTo, Upsert

\* A handler ends and writes one record.
LEMMA RecordWritten ==
    ASSUME OnboardingInv, PipelineInv', DOMAIN applications \subseteq DOMAIN applications',
           NEW s \in DOMAIN working, NEW row \in OnboardingRow,
           records' = [records EXCEPT ![working[s].record] = row],
           row.application = records[working[s].record].application, RowSound(row),
           row.documents # "null" => <<working[s].record, row.documents>> \in DOMAIN files,
           working' = Without(working, {s}), UNCHANGED <<files, asking, mails>>
    PROVE  OnboardingInv'
<1> DEFINE q == working[s].record
<1>1. q \in DOMAIN records
  BY DEF OnboardingInv, WorkSound
<1>2. /\ DOMAIN records' = DOMAIN records /\ records'[q] = row
      /\ \A r \in DOMAIN records \ {q} : records'[r] = records[r]
  BY <1>1
<1>3. /\ DOMAIN working' = DOMAIN working \ {s}
      /\ \A t \in DOMAIN working' : working'[t] = working[t]
  BY DEF Without
<1> HIDE DEF q
<1>4. Table(records', Record, OnboardingRow)
  BY <1>2 DEF OnboardingInv, Table
<1>5. \A r \in DOMAIN records : RecordSound(r)'
  <2> SUFFICES ASSUME NEW r \in DOMAIN records PROVE RecordSound(r)'
    OBVIOUS
  <2>1. RecordSound(r)
    BY DEF OnboardingInv
  <2>2. CASE r = q
    BY <1>1, <1>2, <2>1, <2>2 DEF RecordSound, RowSound, q
  <2>3. CASE r # q
    BY <1>2, <2>1, <2>3 DEF RecordSound, RowSound
  <2> QED BY <2>2, <2>3
<1>6. \A t \in DOMAIN working' : WorkSound(working[t])'
  <2> SUFFICES ASSUME NEW t \in DOMAIN working' PROVE WorkSound(working[t])'
    OBVIOUS
  <2>1. WorkSound(working[t]) /\ working'[t] = working[t]
    BY <1>3 DEF OnboardingInv
  <2>2. DOMAIN records' = DOMAIN records /\ files' = files
    BY <1>2
  <2> QED BY <2>1, <2>2 DEF WorkSound, RowSound
<1>7. Table(working', Caller, WorkRow) /\ Table(asking', Record, DOMAIN applications')
  BY <1>3 DEF OnboardingInv, Table
<1> QED BY <1>2, <1>4, <1>5, <1>6, <1>7 DEF OnboardingInv

\* What a session writes of a row.
LEMMA ChangedColumns ==
    ASSUME NEW read \in OnboardingRow, NEW new \in OnboardingRow, NEW now \in OnboardingRow
    PROVE  LET row == Changed(read, new, now)
           IN  /\ row \in OnboardingRow
               /\ row.application = now.application
               /\ row.status = IF new.status # read.status THEN new.status ELSE now.status
               /\ row.documents = IF new.documents # read.documents
                                  THEN new.documents ELSE now.documents
               /\ row.email = IF new.email # read.email THEN new.email ELSE now.email
BY DEF Changed, OnboardingRow

\* What is known of a handler that commits.
LEMMA WorkerFacts ==
    ASSUME OnboardingInv, NEW s \in DOMAIN working
    PROVE  /\ working[s].record \in DOMAIN records
           /\ working[s].read \in OnboardingRow /\ RowSound(working[s].read)
           /\ records[working[s].record] \in OnboardingRow
           /\ RecordSound(working[s].record) /\ WorkSound(working[s])
           /\ working[s].file \in Optional(FileName) /\ working[s].stage \in Nat
BY DEF OnboardingInv, WorkSound, WorkRow, Table

\* A commit that leaves the documents alone.
LEMMA CommitInv ==
    ASSUME OnboardingInv, NEW s \in DOMAIN working, NEW new \in OnboardingRow,
           Commit(s, new), UNCHANGED pipelineVars,
           new.documents = working[s].read.documents,
           new.status \in {working[s].read.status, "CREDENTIALS_SENT"}
    PROVE  OnboardingInv'
<1> DEFINE now == records[working[s].record]
           row == Changed(working[s].read, new, now)
<1>1. /\ row \in OnboardingRow /\ row.application = now.application
      /\ row.status \in {now.status, "CREDENTIALS_SENT"} /\ row.documents = now.documents
  BY WorkerFacts, ChangedColumns
<1>2. RowSound(now) /\ (now.documents # "null" => <<working[s].record, now.documents>> \in DOMAIN files)
  BY WorkerFacts DEF RecordSound
<1>3. RowSound(row) /\ (row.documents # "null" => <<working[s].record, row.documents>> \in DOMAIN files)
  BY <1>1, <1>2 DEF RowSound
<1>4. records' = [records EXCEPT ![working[s].record] = row]
  BY DEF Commit
<1>5. PipelineInv' /\ DOMAIN applications \subseteq DOMAIN applications'
  BY PipelineUnchanged DEF OnboardingInv, pipelineVars
<1> HIDE DEF row
<1> QED BY <1>1, <1>3, <1>4, <1>5, RecordWritten DEF Commit

LEMMA CommitFailureInv ==
    ASSUME OnboardingInv, NEW s \in DOMAIN working, CommitFailure(s)
    PROVE  OnboardingInv'
<1> DEFINE now == records[working[s].record]
<1>1. PICK failed \in {TRUE, working[s].read.failed => now.failed} :
         records' = [records EXCEPT ![working[s].record].failed = failed]
  BY DEF CommitFailure
<1>2. failed \in BOOLEAN
  OBVIOUS
<1> DEFINE row == [now EXCEPT !.failed = failed]
<1>3. /\ row \in OnboardingRow /\ row.application = now.application
      /\ row.status = now.status /\ row.documents = now.documents
  BY <1>2, WorkerFacts DEF OnboardingRow
<1>4. RowSound(row) /\ (row.documents # "null" => <<working[s].record, row.documents>> \in DOMAIN files)
  BY <1>3, WorkerFacts DEF RowSound, RecordSound
<1>5. records' = [records EXCEPT ![working[s].record] = row]
  BY <1>1
<1>6. PipelineInv' /\ DOMAIN applications \subseteq DOMAIN applications'
  BY PipelineUnchanged DEF OnboardingInv, CommitFailure, pipelineVars
<1> HIDE DEF row
<1> QED BY <1>3, <1>4, <1>5, <1>6, RecordWritten DEF CommitFailure

LEMMA GiveUpInv ==
    ASSUME OnboardingInv, NEW s \in DOMAIN working, GiveUp(s)
    PROVE  OnboardingInv'
<1>1. PipelineInv'
  BY PipelineUnchanged DEF OnboardingInv, GiveUp
<1>2. UNCHANGED <<records, files, asking, mails, applications>>
  BY DEF GiveUp, pipelineVars
<1>3. /\ DOMAIN working' = DOMAIN working \ {s}
      /\ \A t \in DOMAIN working' : working'[t] = working[t]
  BY DEF GiveUp, Without
<1> QED
  BY <1>1, <1>2, <1>3 DEF OnboardingInv, Table, RecordSound, WorkSound, RowSound

LEMMA ReadInv ==
    ASSUME OnboardingInv, NEW s \in Caller, NEW r \in DOMAIN records,
           NEW op \in {"mail", "submit", "assign", "confirm", "retry", "send"}, Read(s, r, op),
           mails' \subseteq mails,
           op = "submit" => records[r].documents = "null",
           op = "assign" => records[r].status # "CREDENTIALS_SENT"
    PROVE  OnboardingInv'
<1> DEFINE w == [op |-> op, record |-> r, read |-> records[r],
                 stage |-> applications[records[r].application], file |-> "null"]
<1>1. PipelineInv' /\ UNCHANGED <<records, files, asking, applications>>
  BY PipelineUnchanged DEF OnboardingInv, Read, pipelineVars
<1>2. RecordSound(r)
  BY DEF OnboardingInv
<1>3. applications[records[r].application] \in Nat
  BY <1>2 DEF OnboardingInv, PipelineInv, PipelineTypeOK, Table, RecordSound
<1>4. w \in WorkRow
  BY <1>3 DEF OnboardingInv, WorkRow, Table, Optional
<1>5. WorkSound(w)
  BY <1>2 DEF WorkSound, RecordSound
<1>6. working' = Upsert(working, s, w)
  BY DEF Read
<1> HIDE DEF w
<1>7. \A t \in DOMAIN working' : working'[t] \in WorkRow /\ WorkSound(working'[t])
  BY <1>4, <1>5, <1>6 DEF Upsert, OnboardingInv, Table
<1>8. DOMAIN working' \subseteq Caller
  BY <1>6 DEF Upsert, OnboardingInv, Table
<1>9. \A t \in DOMAIN working' : WorkSound(working[t])'
  BY <1>1, <1>7 DEF WorkSound, RowSound
<1> QED
  BY <1>1, <1>7, <1>8, <1>9 DEF OnboardingInv, Table, RecordSound, RowSound

LEMMA LookForRecordInv ==
    ASSUME OnboardingInv, NEW r \in Record, NEW a \in Application, LookForRecord(r, a)
    PROVE  OnboardingInv'
<1>1. PipelineInv' /\ UNCHANGED <<records, files, mails, working, applications>>
  BY PipelineUnchanged DEF OnboardingInv, LookForRecord, pipelineVars
<1>2. asking' = Upsert(asking, r, a) /\ a \in DOMAIN applications /\ r \notin DOMAIN records
  BY DEF LookForRecord
<1> QED
  BY <1>1, <1>2 DEF OnboardingInv, Table, Upsert, RecordSound, WorkSound, RowSound

LEMMA SendDocumentRequestInv ==
    ASSUME OnboardingInv, NEW r \in Record, SendDocumentRequest(r)
    PROVE  OnboardingInv'
<1> DEFINE row == [application |-> asking[r], status |-> "PENDING", failed |-> FALSE,
                   documents |-> "null", email |-> "null"]
<1>1. PipelineInv' /\ UNCHANGED <<files, working, applications>>
  BY PipelineUnchanged DEF OnboardingInv, SendDocumentRequest, pipelineVars
<1>2. asking[r] \in DOMAIN applications /\ asking[r] \in Application /\ r \notin DOMAIN records
  BY DEF SendDocumentRequest, OnboardingInv, PipelineInv, PipelineTypeOK, Table
<1>3. row \in OnboardingRow /\ RowSound(row) /\ row.documents = "null"
      /\ row.application \in DOMAIN applications
  BY <1>2 DEF OnboardingRow, Optional, RowSound
<1>4. records' = Upsert(records, r, row) /\ asking' = Without(asking, {r}) /\ mails' = mails \cup {r}
  BY DEF SendDocumentRequest
<1> HIDE DEF row
<1>5. /\ DOMAIN records' = DOMAIN records \cup {r} /\ records'[r] = row
      /\ \A q \in DOMAIN records : records'[q] = records[q]
  BY <1>2, <1>4 DEF Upsert
<1>6. \A q \in DOMAIN records' : RecordSound(q)'
  BY <1>1, <1>3, <1>5 DEF OnboardingInv, RecordSound, RowSound
<1>7. Table(records', Record, OnboardingRow)
  BY <1>3, <1>5 DEF OnboardingInv, Table
<1>8. Table(asking', Record, DOMAIN applications') /\ \A q \in DOMAIN asking' : q \notin DOMAIN records'
  BY <1>1, <1>4, <1>5 DEF OnboardingInv, Table, Without
<1>9. \A s \in DOMAIN working' : WorkSound(working[s])'
  BY <1>1, <1>5 DEF OnboardingInv, WorkSound, RowSound
<1> QED BY <1>1, <1>4, <1>5, <1>6, <1>7, <1>8, <1>9 DEF OnboardingInv

LEMMA UploadDocumentsInv ==
    ASSUME OnboardingInv, NEW s \in DOMAIN working, NEW name \in FileName, NEW upload \in Upload,
           UploadDocuments(s, name, upload)
    PROVE  OnboardingInv'
<1> DEFINE q == working[s].record
<1>1. PipelineInv' /\ UNCHANGED <<records, asking, mails, applications>>
  BY PipelineUnchanged DEF OnboardingInv, UploadDocuments, pipelineVars
<1>2. q \in DOMAIN records /\ q \in Record
  BY WorkerFacts DEF OnboardingInv, Table
<1>3. files' = Upsert(files, <<q, name>>, upload)
  BY DEF UploadDocuments
<1>4. working' = [working EXCEPT ![s].file = name]
  BY DEF UploadDocuments
<1> HIDE DEF q
<1>5. /\ Table(files', Record \X FileName, Upload) /\ DOMAIN files \subseteq DOMAIN files'
      /\ <<q, name>> \in DOMAIN files'
  BY <1>2, <1>3 DEF OnboardingInv, Table, Upsert
<1>6. \A r \in DOMAIN records' : RecordSound(r)'
  BY <1>1, <1>5 DEF OnboardingInv, RecordSound, RowSound
<1>7. /\ working'[s] \in WorkRow /\ working'[s].record = q /\ working'[s].file = name
      /\ working'[s].read = working[s].read /\ working'[s].op = working[s].op
  BY <1>4 DEF OnboardingInv, Table, WorkRow, Optional, q
<1>8. DOMAIN working' = DOMAIN working /\ \A t \in DOMAIN working \ {s} : working'[t] = working[t]
  BY <1>4
<1>9. WorkSound(working[s])'
  BY <1>1, <1>2, <1>5, <1>7, WorkerFacts DEF WorkSound, RowSound
<1>10. \A t \in DOMAIN working \ {s} : WorkSound(working[t])'
  BY <1>1, <1>5, <1>8 DEF OnboardingInv, WorkSound, RowSound
<1>11. Table(working', Caller, WorkRow)
  BY <1>7, <1>8 DEF OnboardingInv, Table
<1> QED
  BY <1>1, <1>5, <1>6, <1>8, <1>9, <1>10, <1>11 DEF OnboardingInv

LEMMA SubmitPipelineInv ==
    ASSUME OnboardingInv, NEW s \in DOMAIN working, SubmitDocuments(s)
    PROVE  PipelineInv' /\ DOMAIN applications \subseteq DOMAIN applications'
<1> DEFINE a == records[working[s].record].application
           p == OnboardStage
<1>1. a \in Application /\ StageTable(stages) /\ PipelineInv
  BY InvGivesTable, WorkerFacts DEF OnboardingInv, OnboardingRow
<1>2. StageTable(stages') /\ DOMAIN stages \subseteq DOMAIN stages' /\ p \in DOMAIN stages'
  <2>1. CASE p \in DOMAIN stages
    BY <1>1, <2>1 DEF SubmitDocuments
  <2>2. CASE p \notin DOMAIN stages
    <3> DEFINE row == [name |-> "Onboard", type |-> "ONBOARDING", order |-> 999,
                       default |-> FALSE, onboard |-> TRUE]
    <3>1. row \in StageRow
      BY PipelineInputs DEF StageRow, StageType
    <3>2. p = FreshStage
      BY <1>1, <2>2, EarliestIsOne DEF OnboardStage, OfType
    <3>3. p \in Nat \ {NoStage}
      BY <1>1, <3>2, FreshKeys DEF StageTable, Table, FreshStage, NoStage
    <3>4. stages' = Upsert(stages, p, row)
      BY <2>2 DEF SubmitDocuments
    <3>5. StageTable(Upsert(stages, p, row)) /\ DOMAIN Upsert(stages, p, row) = DOMAIN stages \cup {p}
      <4> HIDE DEF row, p
      <4> QED BY <1>1, <3>1, <3>3, OneStageMore
    <3> HIDE DEF row, p
    <3> QED BY <3>4, <3>5
  <2> QED BY <2>1, <2>2
<1>3. CASE working[s].stage # p
  <2>1. MoveTo(a, p) /\ UNCHANGED <<posting, edits>>
    BY <1>3 DEF SubmitDocuments
  <2> HIDE DEF p, a
  <2>2. DOMAIN applications \subseteq DOMAIN applications'
    BY <2>1 DEF MoveTo, Upsert
  <2> QED BY <1>1, <1>2, <2>1, <2>2, CandidateMoved
<1>4. CASE working[s].stage = p
  <2>1. UNCHANGED <<applications, lastMove, posting, edits>>
    BY <1>4 DEF SubmitDocuments
  <2>2. edits' \in 0 .. MaxEdits /\ posting' \in {"PUBLISHED", "CLOSED"}
    BY <1>1, <2>1 DEF PipelineInv, PipelineTypeOK
  <2> QED BY <1>1, <1>2, <2>1, <2>2, StagesKept
<1> QED BY <1>3, <1>4

\* A submission writes both columns, as it had read neither of them so.
LEMMA SubmittedRow ==
    ASSUME OnboardingInv, NEW s \in DOMAIN working, SubmitDocuments(s)
    PROVE  \E row \in OnboardingRow :
             /\ records' = [records EXCEPT ![working[s].record] = row]
             /\ row.application = records[working[s].record].application
             /\ row.email = records[working[s].record].email
             /\ row.status = "DOCUMENTS_SUBMITTED" /\ row.documents = working[s].file
<1> DEFINE read == working[s].read
           new == [read EXCEPT !.status = "DOCUMENTS_SUBMITTED", !.documents = working[s].file]
           now == records[working[s].record]
           row == Changed(read, new, now)
<1>1. working[s].op = "submit" /\ working[s].file # "null"
  BY DEF SubmitDocuments, Doing
<1>2. /\ read \in OnboardingRow /\ now \in OnboardingRow /\ RowSound(read)
      /\ read.documents = "null" /\ working[s].file \in Optional(FileName)
  BY <1>1, WorkerFacts DEF WorkSound
<1>3. /\ new \in OnboardingRow /\ new.status = "DOCUMENTS_SUBMITTED"
      /\ new.documents = working[s].file /\ new.email = read.email
  BY <1>2 DEF OnboardingRow
<1>4. read.status # "DOCUMENTS_SUBMITTED"
  BY <1>2 DEF RowSound
<1>5. records' = [records EXCEPT ![working[s].record] = row]
  BY DEF SubmitDocuments, Commit
<1> HIDE DEF new, read, now
<1>6. /\ row \in OnboardingRow /\ row.application = now.application /\ row.email = now.email
      /\ row.status = "DOCUMENTS_SUBMITTED" /\ row.documents = working[s].file
  BY <1>1, <1>2, <1>3, <1>4, ChangedColumns
<1> HIDE DEF row
<1> QED BY <1>5, <1>6 DEF now

LEMMA SubmitDocumentsInv ==
    ASSUME OnboardingInv, NEW s \in DOMAIN working, SubmitDocuments(s)
    PROVE  OnboardingInv'
<1>1. PipelineInv' /\ DOMAIN applications \subseteq DOMAIN applications'
  BY SubmitPipelineInv
<1>2. PICK row \in OnboardingRow :
        /\ records' = [records EXCEPT ![working[s].record] = row]
        /\ row.application = records[working[s].record].application
        /\ row.status = "DOCUMENTS_SUBMITTED" /\ row.documents = working[s].file
  BY SubmittedRow
<1>3. working[s].file # "null" /\ working' = Without(working, {s}) /\ UNCHANGED <<files, asking, mails>>
  BY DEF SubmitDocuments, Commit
<1>4. RowSound(row) /\ <<working[s].record, row.documents>> \in DOMAIN files
  BY <1>2, <1>3, WorkerFacts DEF RowSound, WorkSound
<1> QED BY <1>1, <1>2, <1>3, <1>4, RecordWritten

LEMMA PipelineStepsInv ==
    ASSUME OnboardingInv, PipelineStep
    PROVE  OnboardingInv'
<1>1. PipelineInv' /\ DOMAIN applications \subseteq DOMAIN applications'
  BY PipelineStepInv, ApplicationsGrow DEF OnboardingInv, PipelineStep
<1>2. UNCHANGED <<records, files, asking, mails>> /\ DOMAIN working' = DOMAIN working
  BY DEF PipelineStep
<1>3. \A s \in DOMAIN working :
        working'[s] = working[s] \/ working'[s] = [working[s] EXCEPT !.stage = NoStage]
  BY DEF PipelineStep
<1>4. \A s \in DOMAIN working :
        /\ working'[s] \in WorkRow
        /\ working'[s].record = working[s].record /\ working'[s].read = working[s].read
        /\ working'[s].op = working[s].op /\ working'[s].file = working[s].file
  <2> SUFFICES ASSUME NEW s \in DOMAIN working
               PROVE  /\ working'[s] \in WorkRow
                      /\ working'[s].record = working[s].record
                      /\ working'[s].read = working[s].read
                      /\ working'[s].op = working[s].op /\ working'[s].file = working[s].file
    OBVIOUS
  <2> DEFINE w == [working[s] EXCEPT !.stage = NoStage]
  <2>1. working[s] \in WorkRow
    BY DEF OnboardingInv, Table
  <2>2. /\ w \in WorkRow /\ w.record = working[s].record /\ w.read = working[s].read
        /\ w.op = working[s].op /\ w.file = working[s].file
    BY <2>1 DEF WorkRow, NoStage
  <2>3. working'[s] = working[s] \/ working'[s] = w
    BY <1>3
  <2> HIDE DEF w
  <2> QED BY <2>1, <2>2, <2>3
<1>5. \A s \in DOMAIN working' : WorkSound(working[s])'
  BY <1>2, <1>4 DEF OnboardingInv, WorkSound, RowSound
<1> QED
  BY <1>1, <1>2, <1>4, <1>5 DEF OnboardingInv, Table, RecordSound, RowSound

\* The handlers that are under way.
LEMMA HandlerInv ==
    ASSUME OnboardingInv, NEW s \in DOMAIN working,
           \/ \E email \in Email : AssignCredentials(s, email)
           \/ ConfirmAssignCredentials(s)
           \/ CredentialsNotSent(s)
           \/ \E delivered \in BOOLEAN :
                MailDocumentRequest(s, delivered) \/ SendCredentialsWithPassword(s, delivered)
    PROVE  OnboardingInv'
<1> DEFINE read == working[s].read
<1>1. read \in OnboardingRow
  BY WorkerFacts
<1>2. ASSUME NEW email \in Email, AssignCredentials(s, email) PROVE OnboardingInv'
  <2> DEFINE new == [read EXCEPT !.email = email]
  <2>1. new \in OnboardingRow /\ new.documents = read.documents /\ new.status = read.status
    BY <1>1 DEF OnboardingRow, Optional
  <2>2. Commit(s, new) /\ UNCHANGED pipelineVars
    BY <1>2 DEF AssignCredentials
  <2> HIDE DEF new
  <2> QED BY <2>1, <2>2, CommitInv
<1>3. ASSUME Commit(s, [read EXCEPT !.failed = FALSE]), UNCHANGED pipelineVars PROVE OnboardingInv'
  <2> DEFINE new == [read EXCEPT !.failed = FALSE]
  <2>1. new \in OnboardingRow /\ new.documents = read.documents /\ new.status = read.status
    BY <1>1 DEF OnboardingRow
  <2>2. Commit(s, new) /\ UNCHANGED pipelineVars
    BY <1>3
  <2> HIDE DEF new
  <2> QED BY <2>1, <2>2, CommitInv
<1>4. ASSUME SendCredentialsWithPassword(s, TRUE) PROVE OnboardingInv'
  <2> DEFINE new == [read EXCEPT !.status = "CREDENTIALS_SENT", !.failed = FALSE]
  <2>1. new \in OnboardingRow /\ new.documents = read.documents /\ new.status = "CREDENTIALS_SENT"
    BY <1>1 DEF OnboardingRow
  <2>2. Commit(s, new) /\ UNCHANGED pipelineVars
    BY <1>4 DEF SendCredentialsWithPassword
  <2> HIDE DEF new
  <2> QED BY <2>1, <2>2, CommitInv
<1>5. ASSUME ConfirmAssignCredentials(s) PROVE OnboardingInv'
  BY <1>3, <1>5, Zenon DEF ConfirmAssignCredentials
<1>6. ASSUME CredentialsNotSent(s) PROVE OnboardingInv'
  BY <1>6, CommitFailureInv DEF CredentialsNotSent
<1>7. ASSUME NEW delivered \in BOOLEAN, MailDocumentRequest(s, delivered) PROVE OnboardingInv'
  <2>1. CASE delivered
    BY <1>3, <1>7, <2>1, Zenon DEF MailDocumentRequest
  <2>2. CASE ~delivered
    BY <1>7, <2>2, CommitFailureInv, Zenon DEF MailDocumentRequest
  <2> QED BY <2>1, <2>2
<1>8. ASSUME NEW delivered \in BOOLEAN, SendCredentialsWithPassword(s, delivered) PROVE OnboardingInv'
  <2>1. CASE delivered
    <3>1. delivered = TRUE
      BY <2>1
    <3> QED BY <1>4, <1>8, <3>1, Zenon
  <2>2. CASE ~delivered
    BY <1>8, <2>2, CommitFailureInv, Zenon DEF SendCredentialsWithPassword
  <2> QED BY <2>1, <2>2
<1> QED BY <1>2, <1>5, <1>6, <1>7, <1>8

LEMMA ReceiveDocumentsInv ==
    ASSUME OnboardingInv, NEW s \in Caller, NEW r \in DOMAIN records, ReceiveDocuments(s, r)
    PROVE  OnboardingInv'
<1>1. records[r].documents = "null"
  BY DEF ReceiveDocuments, OnboardingInv, RecordSound, RowSound
<1>2. Read(s, r, "submit") /\ mails' \subseteq mails
  BY DEF ReceiveDocuments
<1> QED BY <1>1, <1>2, ReadInv

LEMMA OnboardingStepInv ==
    ASSUME OnboardingInv, OnboardingNext
    PROVE  OnboardingInv'
<1>1. ASSUME NEW s \in Caller, NEW r \in DOMAIN records, LoadDocumentRequest(s, r)
      PROVE  OnboardingInv'
  BY <1>1, ReadInv DEF LoadDocumentRequest
<1>2. ASSUME NEW s \in Caller, NEW r \in DOMAIN records, ReceiveAssignment(s, r)
      PROVE  OnboardingInv'
  BY <1>2, ReadInv DEF ReceiveAssignment
<1>3. ASSUME NEW s \in Caller, NEW r \in DOMAIN records, ReceiveConfirmation(s, r)
      PROVE  OnboardingInv'
  BY <1>3, ReadInv DEF ReceiveConfirmation
<1>4. ASSUME NEW s \in Caller, NEW r \in DOMAIN records, ConfirmAndSendCredentials(s, r)
      PROVE  OnboardingInv'
  BY <1>4, ReadInv DEF ConfirmAndSendCredentials
<1>5. ASSUME NEW s \in Caller, NEW r \in DOMAIN records, LoadCredentials(s, r)
      PROVE  OnboardingInv'
  BY <1>5, ReadInv DEF LoadCredentials
<1> QED
  BY <1>1, <1>2, <1>3, <1>4, <1>5, PipelineStepsInv, LookForRecordInv, SendDocumentRequestInv,
     ReceiveDocumentsInv, UploadDocumentsInv, SubmitDocumentsInv, HandlerInv, GiveUpInv
     DEF OnboardingNext

LEMMA OnboardingInitInv ==
    ASSUME OnboardingInit
    PROVE  OnboardingInv
<1>1. AppliedStage \in StageRow
  BY PipelineInputs DEF AppliedStage, StageRow, StageType
<1>2. DOMAIN stages = {1} /\ IsFiniteSet({1})
  BY FS_Singleton DEF OnboardingInit, PipelineInit
<1>3. PipelineInv
  BY <1>1, <1>2, PipelineInputs DEF OnboardingInit, PipelineInit, PipelineInv, PipelineTypeOK,
     Table, NoStage, NoRecords, HistoryFollows
<1> QED BY <1>3 DEF OnboardingInit, OnboardingInv, NoRecords, Table

LEMMA OnboardingInvHolds == OnboardingSpec => []OnboardingInv
<1>1. OnboardingInv /\ UNCHANGED onboardingVars => OnboardingInv'
  <2> SUFFICES ASSUME OnboardingInv, UNCHANGED onboardingVars PROVE OnboardingInv'
    OBVIOUS
  <2>1. PipelineInv' /\ UNCHANGED <<applications, records, files, asking, mails, working>>
    BY PipelineUnchanged DEF OnboardingInv, onboardingVars, pipelineVars
  <2> QED BY <2>1 DEF OnboardingInv, RecordSound, WorkSound, RowSound
<1>2. OnboardingInv /\ [OnboardingNext]_onboardingVars => OnboardingInv'
  BY <1>1, OnboardingStepInv
<1> QED BY <1>2, OnboardingInitInv, PTL DEF OnboardingSpec

\* The stages, the applications with their history, the records of onboarding and
\* what handlers hold of them stay well typed (Pipeline, Onboarding).
THEOREM OnboardingTypeCorrect == OnboardingSpec => []OnboardingTypeOK
BY OnboardingInvHolds, InvGivesType, PTL

\* The last row of a candidate's history names the stage the candidate is in,
\* whoever moves candidates, on whatever reading, and whatever is done to the stages.
THEOREM HistoryIsTrue == OnboardingSpec => []HistoryFollows
<1>1. OnboardingInv => HistoryFollows
  BY DEF OnboardingInv, PipelineInv
<1> QED BY <1>1, OnboardingInvHolds, PTL

\* Candidate and recruiter read the same of the submitted documents.
THEOREM OnboardingIsTold == OnboardingSpec => []OnboardPagesAgree
<1>1. ASSUME OnboardingInv PROVE OnboardPagesAgree
  <2>1. \A r \in DOMAIN records : GetPublicOnboarding(r) = "PENDING" <=> records[r].documents = "null"
    BY <1>1 DEF OnboardingInv, RecordSound, RowSound, GetPublicOnboarding
  <2>2. ASSUME NEW p \in OfType("ONBOARDING"), NEW row \in GetOnboardWorkspace(p),
               row.status = "DOCUMENTS_SUBMITTED"
        PROVE  row.documents \in Upload
    <3>1. PICK a \in InStage(p) : \E r \in RecordOf(a) :
            row = [application |-> a, status |-> OnboardingStatus(r),
                   documents |-> DocumentsOf(r), email |-> records[r].email]
      BY <2>2 DEF GetOnboardWorkspace
    <3>2. PICK r \in RecordOf(a) :
            row = [application |-> a, status |-> OnboardingStatus(r),
                   documents |-> DocumentsOf(r), email |-> records[r].email]
      BY <3>1
    <3>3. r \in DOMAIN records /\ records[r].status = "DOCUMENTS_SUBMITTED"
      BY <2>2, <3>2 DEF OnboardingStatus, RecordOf
    <3>4. records[r].documents # "null" /\ <<r, records[r].documents>> \in DOMAIN files
      BY <1>1, <3>3 DEF OnboardingInv, RecordSound, RowSound
    <3>5. DocumentsOf(r) \in Upload
      BY <1>1, <3>4 DEF OnboardingInv, Table, DocumentsOf
    <3> QED BY <3>2, <3>5
  <2> QED BY <2>1, <2>2 DEF OnboardPagesAgree
<1> QED BY <1>1, OnboardingInvHolds, PTL

-----------------------------------------------------------------------------
(* What steps may never do. *)

\* What a step may do to the documents and to the mailed address of r.
KeptRecord(r) ==
    /\ r \in DOMAIN records'
    /\ DocumentsOf(r) # "null" =>
         /\ DocumentsOf(r)' # "null"
         /\ DocumentsOf(r)' = DocumentsOf(r)
            \/ \E s \in DOMAIN working :
                 StepOf(s, "submit", r) /\ working[s].read.documents = "null"
    /\ records[r].status = "CREDENTIALS_SENT" =>
         records'[r].email = records[r].email
         \/ \E s \in DOMAIN working :
              StepOf(s, "assign", r) /\ working[s].read.status # "CREDENTIALS_SENT"

KeptStep == \A r \in DOMAIN records : KeptRecord(r)

\* Nothing happens to what is not written.
LEMMA KeptWhenNotWritten ==
    ASSUME NEW r, r \in DOMAIN records', records'[r].documents = records[r].documents,
           records'[r].email = records[r].email,
           records[r].documents # "null" =>
              files'[<<r, records[r].documents>>] = files[<<r, records[r].documents>>]
    PROVE  KeptRecord(r)
BY DEF KeptRecord, DocumentsOf

\* A handler that writes neither the documents nor the address.
LEMMA KeptByCommit ==
    ASSUME OnboardingInv, NEW s \in DOMAIN working, NEW new \in OnboardingRow, Commit(s, new),
           new.documents = working[s].read.documents, new.email = working[s].read.email
    PROVE  KeptStep
<1> DEFINE now == records[working[s].record]
           row == Changed(working[s].read, new, now)
<1>1. row.documents = now.documents /\ row.email = now.email
  BY WorkerFacts, ChangedColumns
<1>2. records' = [records EXCEPT ![working[s].record] = row] /\ UNCHANGED files
  BY DEF Commit
<1> HIDE DEF row
<1>3. ASSUME NEW r \in DOMAIN records PROVE KeptRecord(r)
  <2>1. /\ r \in DOMAIN records' /\ records'[r].documents = records[r].documents
        /\ records'[r].email = records[r].email
    BY <1>1, <1>2
  <2> QED BY <1>2, <2>1, KeptWhenNotWritten
<1> QED BY <1>3 DEF KeptStep

LEMMA KeptByFailure ==
    ASSUME OnboardingInv, NEW s \in DOMAIN working, CommitFailure(s)
    PROVE  KeptStep
<1>1. PICK failed : records' = [records EXCEPT ![working[s].record].failed = failed]
  BY DEF CommitFailure
<1>2. UNCHANGED files
  BY DEF CommitFailure
<1>3. ASSUME NEW r \in DOMAIN records PROVE KeptRecord(r)
  <2>1. records[r] \in OnboardingRow
    BY DEF OnboardingInv, Table
  <2>2. /\ r \in DOMAIN records' /\ records'[r].documents = records[r].documents
        /\ records'[r].email = records[r].email
    BY <1>1, <2>1 DEF OnboardingRow
  <2> QED BY <1>2, <2>2, KeptWhenNotWritten
<1> QED BY <1>3 DEF KeptStep

LEMMA KeptByAssignment ==
    ASSUME OnboardingInv, NEW s \in DOMAIN working, NEW email \in Email, AssignCredentials(s, email)
    PROVE  KeptStep
<1> DEFINE read == working[s].read
           new == [read EXCEPT !.email = email]
           now == records[working[s].record]
           row == Changed(read, new, now)
<1>1. read \in OnboardingRow /\ now \in OnboardingRow
  BY WorkerFacts
<1>2. new \in OnboardingRow /\ new.documents = read.documents
  BY <1>1 DEF OnboardingRow, Optional
<1>3. records' = [records EXCEPT ![working[s].record] = row] /\ UNCHANGED files
      /\ working' = Without(working, {s})
  BY DEF AssignCredentials, Commit
<1> HIDE DEF new, read, now
<1>4. row.documents = now.documents
  BY <1>1, <1>2, ChangedColumns
<1> HIDE DEF row
<1>5. StepOf(s, "assign", working[s].record) /\ read.status # "CREDENTIALS_SENT"
  BY <1>3, WorkerFacts DEF AssignCredentials, StepOf, Doing, Without, WorkSound, read
<1>6. ASSUME NEW r \in DOMAIN records PROVE KeptRecord(r)
  <2>1. CASE r = working[s].record
    BY <1>3, <1>4, <1>5, <2>1 DEF KeptRecord, DocumentsOf, now, read
  <2>2. CASE r # working[s].record
    BY <1>3, <2>2, KeptWhenNotWritten
  <2> QED BY <2>1, <2>2
<1> QED BY <1>6 DEF KeptStep

\* An upload replaces what a record shows only under the same name, by a submission
\* that began when nothing was there.
LEMMA KeptByUpload ==
    ASSUME OnboardingInv, NEW s \in DOMAIN working, NEW name \in FileName, NEW upload \in Upload,
           UploadDocuments(s, name, upload)
    PROVE  KeptStep
<1> DEFINE q == working[s].record
<1>1. files' = Upsert(files, <<q, name>>, upload) /\ UNCHANGED records
  BY DEF UploadDocuments
<1>2. StepOf(s, "submit", q) /\ working[s].read.documents = "null"
  <2>1. Doing(s, "submit") /\ working[s].file = "null" /\ working' = [working EXCEPT ![s].file = name]
    BY DEF UploadDocuments
  <2>2. working'[s].file = name /\ name # "null"
    BY <2>1, FilesAreThere DEF OnboardingInv, Table, WorkRow
  <2> QED BY <2>1, <2>2, WorkerFacts DEF StepOf, Doing, WorkSound
<1>3. upload # "null"
  BY FilesAreThere
<1> HIDE DEF q
<1>4. ASSUME NEW r \in DOMAIN records PROVE KeptRecord(r)
  <2>1. RecordSound(r)
    BY DEF OnboardingInv
  <2>2. CASE <<r, records[r].documents>> = <<q, name>>
    BY <1>1, <1>2, <1>3, <2>2 DEF KeptRecord, DocumentsOf, Upsert
  <2>3. CASE <<r, records[r].documents>> # <<q, name>>
    BY <1>1, <2>1, <2>3, KeptWhenNotWritten DEF Upsert, RecordSound
  <2> QED BY <2>2, <2>3
<1> QED BY <1>4 DEF KeptStep

LEMMA KeptBySubmission ==
    ASSUME OnboardingInv, NEW s \in DOMAIN working, SubmitDocuments(s)
    PROVE  KeptStep
<1> DEFINE q == working[s].record
<1>1. PICK row \in OnboardingRow :
        /\ records' = [records EXCEPT ![q] = row]
        /\ row.email = records[q].email /\ row.documents = working[s].file
  BY SubmittedRow
<1>2. /\ Doing(s, "submit") /\ working[s].file # "null" /\ working' = Without(working, {s})
      /\ UNCHANGED files
  BY DEF SubmitDocuments, Commit
<1>3. /\ StepOf(s, "submit", q) /\ working[s].read.documents = "null"
      /\ <<q, working[s].file>> \in DOMAIN files
  BY <1>2, WorkerFacts DEF StepOf, Doing, Without, WorkSound
<1>4. files[<<q, working[s].file>>] # "null"
  BY <1>3, FilesAreThere DEF OnboardingInv, Table
<1> HIDE DEF q
<1>5. ASSUME NEW r \in DOMAIN records PROVE KeptRecord(r)
  <2>1. CASE r = q
    BY <1>1, <1>2, <1>3, <1>4, <2>1 DEF KeptRecord, DocumentsOf
  <2>2. CASE r # q
    BY <1>1, <1>2, <2>2, KeptWhenNotWritten
  <2> QED BY <2>1, <2>2
<1> QED BY <1>5 DEF KeptStep

LEMMA KeptByHandler ==
    ASSUME OnboardingInv, NEW s \in DOMAIN working,
           \/ ConfirmAssignCredentials(s)
           \/ CredentialsNotSent(s)
           \/ \E delivered \in BOOLEAN :
                MailDocumentRequest(s, delivered) \/ SendCredentialsWithPassword(s, delivered)
    PROVE  KeptStep
<1> DEFINE read == working[s].read
<1>1. read \in OnboardingRow
  BY WorkerFacts
<1>2. ASSUME Commit(s, [read EXCEPT !.failed = FALSE]) PROVE KeptStep
  <2> DEFINE new == [read EXCEPT !.failed = FALSE]
  <2>1. new \in OnboardingRow /\ new.documents = read.documents /\ new.email = read.email
    BY <1>1 DEF OnboardingRow
  <2>2. Commit(s, new)
    BY <1>2
  <2> HIDE DEF new
  <2> QED BY <2>1, <2>2, KeptByCommit
<1>3. ASSUME SendCredentialsWithPassword(s, TRUE) PROVE KeptStep
  <2> DEFINE new == [read EXCEPT !.status = "CREDENTIALS_SENT", !.failed = FALSE]
  <2>1. new \in OnboardingRow /\ new.documents = read.documents /\ new.email = read.email
    BY <1>1 DEF OnboardingRow
  <2>2. Commit(s, new)
    BY <1>3 DEF SendCredentialsWithPassword
  <2> HIDE DEF new
  <2> QED BY <2>1, <2>2, KeptByCommit
<1>4. ASSUME ConfirmAssignCredentials(s) PROVE KeptStep
  BY <1>2, <1>4, Zenon DEF ConfirmAssignCredentials
<1>5. ASSUME CredentialsNotSent(s) PROVE KeptStep
  BY <1>5, KeptByFailure DEF CredentialsNotSent
<1>6. ASSUME NEW delivered \in BOOLEAN, MailDocumentRequest(s, delivered) PROVE KeptStep
  <2>1. CASE delivered
    BY <1>2, <1>6, <2>1, Zenon DEF MailDocumentRequest
  <2>2. CASE ~delivered
    BY <1>6, <2>2, KeptByFailure, Zenon DEF MailDocumentRequest
  <2> QED BY <2>1, <2>2
<1>7. ASSUME NEW delivered \in BOOLEAN, SendCredentialsWithPassword(s, delivered) PROVE KeptStep
  <2>1. CASE delivered
    <3>1. delivered = TRUE
      BY <2>1
    <3> QED BY <1>3, <1>7, <3>1, Zenon
  <2>2. CASE ~delivered
    BY <1>7, <2>2, KeptByFailure, Zenon DEF SendCredentialsWithPassword
  <2> QED BY <2>1, <2>2
<1> QED BY <1>4, <1>5, <1>6, <1>7

LEMMA OnboardingStepKeeps ==
    ASSUME OnboardingInv, OnboardingNext
    PROVE  KeptStep
<1>1. CASE UNCHANGED <<records, files>>
  BY <1>1, KeptWhenNotWritten DEF KeptStep
<1>2. ASSUME NEW r \in Record, SendDocumentRequest(r) PROVE KeptStep
  <2>1. r \notin DOMAIN records /\ UNCHANGED files
    BY <1>2 DEF SendDocumentRequest, OnboardingInv
  <2>2. \A q \in DOMAIN records : q \in DOMAIN records' /\ records'[q] = records[q]
    BY <1>2, <2>1 DEF SendDocumentRequest, Upsert
  <2> QED BY <2>1, <2>2, KeptWhenNotWritten DEF KeptStep
<1>3. ASSUME NEW s \in Caller, NEW r \in DOMAIN records, NEW op, Read(s, r, op) PROVE KeptStep
  BY <1>1, <1>3 DEF Read
<1>4. ASSUME NEW s \in DOMAIN working, GiveUp(s) PROVE KeptStep
  BY <1>1, <1>4 DEF GiveUp
<1>5. CASE PipelineStep
  BY <1>1, <1>5 DEF PipelineStep
<1>6. ASSUME NEW r, NEW a, LookForRecord(r, a) PROVE KeptStep
  BY <1>1, <1>6 DEF LookForRecord
<1> QED
  BY <1>2, <1>3, <1>4, <1>5, <1>6, KeptByUpload, KeptBySubmission, KeptByAssignment, KeptByHandler
     DEF OnboardingNext, LoadDocumentRequest, ReceiveDocuments, ReceiveAssignment,
     ReceiveConfirmation, ConfirmAndSendCredentials, LoadCredentials

\* Documents that were handed in are never taken away, and replaced, like an address
\* that was mailed, only by a handler that had looked before they were there: in
\* whatever order any number of calls and tasks read and commit
\* (onboarding/service.py).
THEOREM SubmittedStays == OnboardingSpec => SubmittedIsKept
<1>1. OnboardingInv /\ [OnboardingNext]_onboardingVars => [KeptStep]_onboardingVars
  BY OnboardingStepKeeps
<1>2. SubmittedIsKept <=> [][KeptStep]_onboardingVars
  BY DEF SubmittedIsKept, KeptStep, KeptRecord
<1> QED BY <1>1, <1>2, OnboardingInvHolds, PTL DEF OnboardingSpec

FrozenStep ==
    posting = "CLOSED" /\ posting' = "CLOSED" =>
       /\ \A p \in DOMAIN stages : p \in DOMAIN stages' /\ stages'[p] = stages[p]
       /\ \A p \in DOMAIN stages' \ DOMAIN stages : stages'[p].type = "ONBOARDING"
       /\ \A a \in DOMAIN applications' :
            \/ a \in DOMAIN applications /\ applications'[a] = applications[a]
            \/ stages'[applications'[a]].type \in {"HIRED", "REJECTED", "ONBOARDING"}

LEMMA PipelineStepFrozen ==
    ASSUME PipelineInv, PipelineNext
    PROVE  FrozenStep
<1>1. SUFFICES ASSUME posting = "CLOSED" PROVE FrozenStep
  BY DEF FrozenStep
<1>2. ASSUME NEW status, UpdatePostingStatus(status) PROVE FrozenStep
  BY <1>2 DEF FrozenStep, UpdatePostingStatus
<1>3. ASSUME NEW a \in Application, NEW type \in {"HIRED", "REJECTED"}, AnswerOffer(a, type)
      PROVE  FrozenStep
  <2> DEFINE p == Earliest(OfType(type))
  <2>1. p \in OfType(type)
    BY <1>3, EarliestIsOne DEF AnswerOffer, OfType
  <2>2. stages[p].type = type
    BY <2>1 DEF OfType
  <2>3. applications' = Upsert(applications, a, p) /\ UNCHANGED stages
    BY <1>3 DEF AnswerOffer, MoveTo
  <2> HIDE DEF p
  <2> QED BY <2>2, <2>3 DEF FrozenStep, Upsert
<1> QED
  BY <1>1, <1>2, <1>3 DEF PipelineNext, CreatePipelineStage, CreateStage, UpdateStage,
     CreateDefaultPipeline, ImportPipeline, ReplaceSetup, DeleteStage, ApplyToPosting,
     MoveApplication

LEMMA SubmitFrozen ==
    ASSUME OnboardingInv, NEW s \in DOMAIN working, SubmitDocuments(s)
    PROVE  FrozenStep
<1> DEFINE a == records[working[s].record].application
           p == OnboardStage
<1>1. /\ \A q \in DOMAIN stages : q \in DOMAIN stages' /\ stages'[q] = stages[q]
      /\ \A q \in DOMAIN stages' \ DOMAIN stages : stages'[q].type = "ONBOARDING"
      /\ stages'[p].type = "ONBOARDING"
  <2>1. CASE p \in DOMAIN stages
    <3>1. OfType("ONBOARDING") # {}
      <4>1. FreshStage \notin DOMAIN stages
        BY FreshKeys, InvGivesTable DEF OnboardingInv, StageTable, Table, FreshStage
      <4> QED BY <2>1, <4>1 DEF OnboardStage
    <3>2. p \in OfType("ONBOARDING")
      BY <3>1, EarliestIsOne DEF OnboardingInv, OnboardStage, OfType
    <3> QED BY <2>1, <3>2 DEF SubmitDocuments, OfType
  <2>2. CASE p \notin DOMAIN stages
    <3>1. stages' = Upsert(stages, p, [name |-> "Onboard", type |-> "ONBOARDING",
                      order |-> 999, default |-> FALSE, onboard |-> TRUE])
      BY <2>2 DEF SubmitDocuments
    <3> HIDE DEF p
    <3> QED BY <2>2, <3>1 DEF Upsert
  <2> QED BY <2>1, <2>2
<1>2. applications' = applications \/ applications' = Upsert(applications, a, p)
  BY DEF SubmitDocuments, MoveTo
<1> HIDE DEF a, p
<1> QED BY <1>1, <1>2 DEF FrozenStep, Upsert

\* While a posting is closed nobody changes its stages or moves its candidates,
\* but for the answers of the candidates themselves and the onboarding stage
\* made for them.
THEOREM ClosedStaysFrozen == OnboardingSpec => ClosedIsFrozen
<1>1. ASSUME OnboardingInv, OnboardingNext
      PROVE  [FrozenStep]_pipelineVars
  <2>1. CASE UNCHANGED pipelineVars
    BY <2>1
  <2>2. CASE PipelineStep
    BY <1>1, <2>2, PipelineStepFrozen DEF OnboardingInv, PipelineStep
  <2>3. ASSUME NEW s \in DOMAIN working, SubmitDocuments(s) PROVE FrozenStep
    BY <1>1, <2>3, SubmitFrozen
  <2> QED
    BY <1>1, <2>1, <2>2, <2>3 DEF OnboardingNext, LookForRecord, SendDocumentRequest,
       LoadDocumentRequest, ReceiveDocuments, ReceiveAssignment, ReceiveConfirmation,
       ConfirmAndSendCredentials, LoadCredentials, Read, UploadDocuments, AssignCredentials,
       ConfirmAssignCredentials, CredentialsNotSent, CommitFailure, MailDocumentRequest,
       SendCredentialsWithPassword, GiveUp
<1>2. OnboardingInv /\ [OnboardingNext]_onboardingVars => [FrozenStep]_pipelineVars
  BY <1>1 DEF onboardingVars
<1>3. ClosedIsFrozen <=> [][FrozenStep]_pipelineVars
  BY DEF ClosedIsFrozen, FrozenStep
<1> QED BY <1>2, <1>3, OnboardingInvHolds, PTL DEF OnboardingSpec

-----------------------------------------------------------------------------
(* Requisitions. *)

\* The approvals of a requisition, and what a handler loaded.
Sheet == UNION {[D -> ApprovalRow] : D \in SUBSET Approver}

SessionRow ==
    [requisition : Requisition, op : {"submit", "decide", "close", "reopen"},
     who : SUBSET Approver, decision : Decision \cup {"none"}, status : RequisitionStatus,
     approvals : Sheet, stale : BOOLEAN]

Given(r, d) == \E m \in DOMAIN approvals[r] : approvals[r][m] = d

\* A handler nobody was committed behind finds what it loaded, and what let it
\* begin still holds.
LoadedOK(s) ==
    LET r == sessions[s].requisition
    IN  /\ sessions[s].status = jobs[r].status
        /\ sessions[s].approvals = approvals[r]
        /\ sessions[s].op = "submit" => sessions[s].who # {} /\ jobs[r].status = "DRAFT"
        /\ sessions[s].op = "decide" =>
             sessions[s].who # {} /\ sessions[s].who \subseteq DOMAIN approvals[r]

\* What the status of a requisition says of its approvals.
StatusOK(r) ==
    /\ jobs[r].status \in Undecided => Given(r, "PENDING")
    /\ jobs[r].status = "PARTIALLY_APPROVED" => Given(r, "APPROVED") /\ ~Given(r, "REJECTED")
    /\ jobs[r].status = "APPROVED" =>
          /\ Given(r, "APPROVED") /\ postings[r] > 0
          /\ \A m \in DOMAIN approvals[r] : approvals[r][m] = "APPROVED"
    /\ jobs[r].status = "REJECTED" => Given(r, "REJECTED")

JobsInv ==
    /\ JobsTypeOK /\ approvals \in [Requisition -> Sheet]
    /\ DOMAIN sessions \subseteq Session
    /\ \A s \in DOMAIN sessions :
         /\ sessions[s] \in SessionRow /\ sessions[s].requisition \in DOMAIN jobs
         /\ sessions[s].op = "decide" => sessions[s].decision \in Decision
         /\ ~sessions[s].stale => LoadedOK(s)
    /\ \A r \in DOMAIN jobs \ raced : StatusOK(r)

LEMMA SheetType ==
    ASSUME NEW f
    PROVE  f \in Sheet <=> /\ f = [m \in DOMAIN f |-> f[m]]
                           /\ DOMAIN f \subseteq Approver
                           /\ \A m \in DOMAIN f : f[m] \in ApprovalRow
BY DEF Sheet

\* A handler ends with its commit, and those that had loaded the requisition
\* before are stale.
LEMMA Committed ==
    ASSUME JobsInv, NEW s \in DOMAIN sessions, NEW r, r = sessions[s].requisition, End(s),
           Table(jobs', Requisition, RequisitionColumns), approvals' \in [Requisition -> Sheet],
           postings' \in [Requisition -> Nat], DOMAIN jobs' = DOMAIN jobs,
           \A q \in DOMAIN jobs \ {r} :
              jobs'[q] = jobs[q] /\ approvals'[q] = approvals[q] /\ postings'[q] = postings[q],
           ~sessions[s].stale /\ r \notin raced => StatusOK(r)'
    PROVE  JobsInv'
<1>1. DOMAIN sessions' = DOMAIN sessions \ {s}
  BY DEF End
<1>2. ASSUME NEW t \in DOMAIN sessions'
      PROVE  /\ sessions'[t] \in SessionRow /\ sessions'[t].requisition \in DOMAIN jobs'
             /\ sessions'[t].op = "decide" => sessions'[t].decision \in Decision
             /\ ~sessions'[t].stale => LoadedOK(t)'
  <2> DEFINE stale == sessions[t].stale \/ sessions[t].requisition = r
  <2>1. sessions'[t] = [sessions[t] EXCEPT !.stale = stale]
    BY <1>1, <1>2 DEF End
  <2>2. t \in DOMAIN sessions /\ sessions[t] \in SessionRow
    BY <1>1, <1>2 DEF JobsInv
  <2>3. stale \in BOOLEAN
    BY <2>2 DEF SessionRow
  <2>4. /\ sessions'[t] \in SessionRow /\ sessions'[t].stale = stale
        /\ sessions'[t].requisition = sessions[t].requisition
        /\ sessions'[t].op = sessions[t].op /\ sessions'[t].who = sessions[t].who
        /\ sessions'[t].decision = sessions[t].decision
        /\ sessions'[t].status = sessions[t].status
        /\ sessions'[t].approvals = sessions[t].approvals
    <3> HIDE DEF stale
    <3> QED BY <2>1, <2>2, <2>3 DEF SessionRow
  <2>5. /\ sessions'[t].requisition \in DOMAIN jobs'
        /\ sessions'[t].op = "decide" => sessions'[t].decision \in Decision
    BY <2>2, <2>4 DEF JobsInv
  <2>6. ASSUME ~stale PROVE LoadedOK(t)'
    BY <2>2, <2>4, <2>6 DEF JobsInv, LoadedOK
  <2> QED BY <2>4, <2>5, <2>6
<1>3. \A q \in Requisition : Table(approvals'[q], Approver, ApprovalRow)
  BY SheetType DEF Table
<1>4. raced' \in SUBSET Requisition
  BY DEF End, JobsInv, JobsTypeOK, SessionRow
<1>5. ASSUME NEW q \in DOMAIN jobs' \ raced' PROVE StatusOK(q)'
  <2>1. q \in DOMAIN jobs \ raced
    BY <1>5 DEF End
  <2>2. CASE q = r
    BY <1>5, <2>1, <2>2 DEF End
  <2>3. CASE q # r
    BY <2>1, <2>3 DEF JobsInv, StatusOK, Given
  <2> QED BY <2>2, <2>3
<1> QED BY <1>1, <1>2, <1>3, <1>4, <1>5 DEF JobsInv, JobsTypeOK

\* It writes the status only if it changed it.
LEMMA StatusWritten ==
    ASSUME JobsInv, NEW s \in DOMAIN sessions, NEW r, r = sessions[s].requisition,
           NEW status \in RequisitionStatus, jobs' = WriteStatus(s, status)
    PROVE  /\ Table(jobs', Requisition, RequisitionColumns)
           /\ DOMAIN jobs' = DOMAIN jobs
           /\ \A q \in DOMAIN jobs \ {r} : jobs'[q] = jobs[q]
           /\ ~sessions[s].stale => jobs'[r].status = status
<1>1. r \in DOMAIN jobs /\ jobs[r] \in RequisitionColumns
  BY DEF JobsInv, JobsTypeOK, Table
<1>2. [jobs[r] EXCEPT !.status = status] \in RequisitionColumns
  BY <1>1 DEF RequisitionColumns
<1>3. [jobs[r] EXCEPT !.status = status].status = status
  BY <1>1 DEF RequisitionColumns
<1>4. CASE status = sessions[s].status
  BY <1>1, <1>4 DEF WriteStatus, JobsInv, JobsTypeOK, LoadedOK
<1>5. CASE status # sessions[s].status
  <2>1. jobs' = [jobs EXCEPT ![r] = [jobs[r] EXCEPT !.status = status]]
    BY <1>5 DEF WriteStatus
  <2> QED BY <1>1, <1>2, <1>3, <2>1 DEF JobsInv, JobsTypeOK, Table
<1> QED BY <1>4, <1>5

LEMMA BeginInv ==
    ASSUME JobsInv, NEW s \in Session, NEW r \in DOMAIN jobs, NEW op, NEW who, NEW decision,
           Begin(s, r, op, who, decision),
           op \in {"submit", "decide", "close", "reopen"}, who \in SUBSET Approver,
           decision \in Decision \cup {"none"},
           op = "submit" => who # {} /\ jobs[r].status = "DRAFT",
           op = "decide" => /\ who # {} /\ who \subseteq DOMAIN approvals[r]
                            /\ decision \in Decision
    PROVE  JobsInv'
<1> DEFINE row == [requisition |-> r, op |-> op, who |-> who, decision |-> decision,
                   status |-> jobs[r].status, approvals |-> approvals[r], stale |-> FALSE]
<1>1. row \in SessionRow
  BY DEF SessionRow, JobsInv, JobsTypeOK, Table, RequisitionColumns
<1>2. sessions' = Upsert(sessions, s, row) /\ UNCHANGED <<jobs, approvals, postings, raced>>
  BY DEF Begin
<1>3. LoadedOK(s)'
  <2>1. sessions'[s] = row
    BY <1>2 DEF Upsert
  <2>2. /\ row.requisition = r /\ row.op = op /\ row.who = who /\ row.decision = decision
        /\ row.status = jobs[r].status /\ row.approvals = approvals[r]
    OBVIOUS
  <2> HIDE DEF row
  <2> QED BY <1>2, <2>1, <2>2 DEF LoadedOK
<1>4. \A t \in DOMAIN sessions : t # s => sessions'[t] = sessions[t]
  <2> HIDE DEF row
  <2> QED BY <1>2 DEF Upsert
<1>5. DOMAIN sessions' = DOMAIN sessions \cup {s} /\ sessions'[s] = row
  <2> HIDE DEF row
  <2> QED BY <1>2 DEF Upsert
<1>6. row.requisition = r /\ row.op = op /\ row.decision = decision
  OBVIOUS
<1> HIDE DEF row
<1>7. ASSUME NEW t \in DOMAIN sessions'
      PROVE  /\ sessions'[t] \in SessionRow /\ sessions'[t].requisition \in DOMAIN jobs'
             /\ sessions'[t].op = "decide" => sessions'[t].decision \in Decision
             /\ ~sessions'[t].stale => LoadedOK(t)'
  <2>1. CASE t = s
    BY <1>1, <1>2, <1>3, <1>5, <1>6, <2>1
  <2>2. CASE t # s
    <3>1. t \in DOMAIN sessions /\ sessions'[t] = sessions[t]
      BY <1>4, <1>5, <2>2
    <3> QED BY <1>2, <3>1 DEF JobsInv, LoadedOK
  <2> QED BY <2>1, <2>2
<1>8. \A q \in DOMAIN jobs' \ raced' : StatusOK(q)'
  BY <1>2 DEF JobsInv, StatusOK, Given
<1> QED BY <1>2, <1>5, <1>7, <1>8 DEF JobsInv, JobsTypeOK

\* What a handler changes of the table of requisitions, without committing
\* behind another's back: a new one, or one that stays a draft.
LEMMA JobWritten ==
    ASSUME JobsInv, NEW r \in Requisition, NEW row \in RequisitionColumns, row.status = "DRAFT",
           jobs' = Upsert(jobs, r, row), r \in DOMAIN jobs => jobs[r].status = "DRAFT",
           UNCHANGED <<approvals, postings, sessions, raced>>
    PROVE  JobsInv'
<1>1. /\ DOMAIN jobs' = DOMAIN jobs \cup {r} /\ jobs'[r] = row
      /\ \A q \in DOMAIN jobs : q # r => jobs'[q] = jobs[q]
  BY DEF Upsert
<1>2. \A s \in DOMAIN sessions : ~sessions[s].stale => LoadedOK(s)'
  BY <1>1 DEF JobsInv, LoadedOK
<1>3. \A q \in DOMAIN jobs' \ raced' : StatusOK(q)'
  BY <1>1 DEF JobsInv, StatusOK, Given, Undecided
<1>4. Table(jobs', Requisition, RequisitionColumns)
  BY <1>1 DEF JobsInv, JobsTypeOK, Table
<1> QED BY <1>1, <1>2, <1>3, <1>4 DEF JobsInv, JobsTypeOK

LEMMA CommitSubmitInv ==
    ASSUME JobsInv, NEW s \in DOMAIN sessions, CommitSubmit(s)
    PROVE  JobsInv'
<1> SUFFICES ASSUME NEW r, r = sessions[s].requisition, NEW new, new = sessions[s].who
             PROVE  JobsInv'
  OBVIOUS
<1> DEFINE sheet == [m \in DOMAIN approvals[r] \cup new |->
                       IF m \in new THEN "PENDING" ELSE approvals[r][m]]
<1>1. r \in DOMAIN jobs /\ r \in Requisition /\ new \subseteq Approver /\ approvals[r] \in Sheet
  BY DEF JobsInv, JobsTypeOK, SessionRow
<1>2. sheet \in Sheet
  BY <1>1, SheetType DEF ApprovalRow
<1>3. approvals' = [approvals EXCEPT ![r] = sheet]
  BY DEF CommitSubmit
<1>4. approvals' \in [Requisition -> Sheet]
  <2> HIDE DEF sheet
  <2> QED BY <1>2, <1>3 DEF JobsInv
<1>5. jobs' = WriteStatus(s, "PENDING_APPROVAL") /\ End(s) /\ UNCHANGED postings
  BY DEF CommitSubmit
<1>6. /\ Table(jobs', Requisition, RequisitionColumns) /\ DOMAIN jobs' = DOMAIN jobs
      /\ \A q \in DOMAIN jobs \ {r} : jobs'[q] = jobs[q]
      /\ ~sessions[s].stale => jobs'[r].status = "PENDING_APPROVAL"
  <2>1. "PENDING_APPROVAL" \in RequisitionStatus
    BY DEF RequisitionStatus
  <2> QED BY <1>5, <2>1, StatusWritten
<1>7. ~sessions[s].stale => StatusOK(r)'
  <2>1. ~sessions[s].stale => new # {}
    BY DEF CommitSubmit, JobsInv, LoadedOK
  <2>2. approvals'[r] = sheet
    <3> HIDE DEF sheet
    <3> QED BY <1>1, <1>3 DEF JobsInv
  <2>3. new # {} => Given(r, "PENDING")'
    BY <2>2 DEF Given
  <2> HIDE DEF sheet
  <2> QED BY <1>6, <2>1, <2>3 DEF StatusOK, Undecided
<1>8. \A q \in DOMAIN jobs \ {r} : approvals'[q] = approvals[q] /\ postings'[q] = postings[q]
  <2> HIDE DEF sheet
  <2> QED BY <1>3, <1>5 DEF JobsInv, JobsTypeOK, Table
<1>9. postings' \in [Requisition -> Nat]
  BY <1>5 DEF JobsInv, JobsTypeOK
<1> HIDE DEF sheet
<1> QED BY <1>4, <1>5, <1>6, <1>7, <1>8, <1>9, Committed

\* The sheet a decision leaves, and what a sheet says.
Decided(s, r) ==
    [m \in DOMAIN approvals[r] |->
       IF m \in sessions[s].who THEN sessions[s].decision ELSE approvals[r][m]]

Says(sheet, d) == \E m \in DOMAIN sheet : sheet[m] = d

\* What a handler that is not stale decides is what all approvals then say.
LEMMA VerdictIsSound ==
    ASSUME JobsInv, NEW s \in DOMAIN sessions, sessions[s].op = "decide", ~sessions[s].stale,
           NEW r, r = sessions[s].requisition, NEW sheet, sheet = Decided(s, r)
    PROVE  /\ Verdict(s) \in {"APPROVED", "REJECTED", "PARTIALLY_APPROVED"}
           /\ Verdict(s) = "APPROVED" =>
                 Says(sheet, "APPROVED") /\ \A m \in DOMAIN sheet : sheet[m] = "APPROVED"
           /\ Verdict(s) = "REJECTED" => Says(sheet, "REJECTED")
           /\ Verdict(s) = "PARTIALLY_APPROVED" =>
                 Says(sheet, "APPROVED") /\ Says(sheet, "PENDING") /\ ~Says(sheet, "REJECTED")
<1> USE DEF Decided, Says
<1> DEFINE seen == {sessions[s].approvals[m] :
                      m \in DOMAIN sessions[s].approvals \ sessions[s].who}
                   \cup {sessions[s].decision}
<1>1. sessions[s] \in SessionRow /\ LoadedOK(s)
  BY DEF JobsInv
<1>2. /\ sessions[s].approvals = approvals[r] /\ sessions[s].decision \in Decision
      /\ sessions[s].who # {} /\ sessions[s].who \subseteq DOMAIN approvals[r]
  BY <1>1 DEF LoadedOK, JobsInv
<1>3. \A d : d \in seen <=> Says(sheet, d)
  <2>1. Says(sheet, sessions[s].decision)
    BY <1>2
  <2>2. ASSUME NEW d \in seen PROVE Says(sheet, d)
    BY <1>2, <2>1
  <2>3. ASSUME NEW d, Says(sheet, d) PROVE d \in seen
    <3>1. PICK m \in DOMAIN sheet : sheet[m] = d
      BY <2>3
    <3>2. CASE m \in sessions[s].who
      BY <3>1, <3>2
    <3>3. CASE m \notin sessions[s].who
      <4>1. m \in DOMAIN sessions[s].approvals \ sessions[s].who /\ d = sessions[s].approvals[m]
        BY <1>2, <3>1, <3>3
      <4> QED BY <4>1
    <3> QED BY <3>2, <3>3
  <2> QED BY <2>2, <2>3
<1>4. seen \subseteq ApprovalRow
  BY <1>1, <1>2, SheetType DEF SessionRow, ApprovalRow
<1>5. Verdict(s) = IF "REJECTED" \in seen THEN "REJECTED"
                   ELSE IF seen = {"APPROVED"} THEN "APPROVED" ELSE "PARTIALLY_APPROVED"
  BY DEF Verdict
<1>6. sessions[s].decision \in seen /\ sessions[s].decision \in {"APPROVED", "REJECTED"}
  BY <1>2 DEF Decision
<1> HIDE DEF seen
<1>7. CASE "REJECTED" \in seen
  BY <1>3, <1>5, <1>7
<1>8. CASE "REJECTED" \notin seen /\ seen = {"APPROVED"}
  <2>1. ASSUME NEW m \in DOMAIN sheet PROVE sheet[m] = "APPROVED"
    <3>1. Says(sheet, sheet[m])
      OBVIOUS
    <3>2. sheet[m] \in seen
      BY <1>3, <3>1
    <3> QED BY <1>8, <3>2
  <2>2. Says(sheet, "APPROVED")
    BY ZenonT(40), <1>3, <1>8
  <2>3. Verdict(s) = "APPROVED"
    BY <1>5, <1>8
  <2> QED BY <2>1, <2>2, <2>3
<1>9. CASE "REJECTED" \notin seen /\ seen # {"APPROVED"}
  <2>1. "APPROVED" \in seen
    BY <1>6, <1>9
  <2>2. "PENDING" \in seen
    BY <1>4, <1>9, <2>1 DEF ApprovalRow, Decision
  <2> QED BY <1>3, <1>5, <1>9, <2>1, <2>2
<1> QED BY <1>7, <1>8, <1>9

LEMMA DecisionWritten ==
    ASSUME JobsInv, NEW s \in DOMAIN sessions, NEW r, r = sessions[s].requisition, CommitDecide(s)
    PROVE  /\ r \in DOMAIN jobs /\ r \in Requisition
           /\ approvals' = [approvals EXCEPT ![r] = Decided(s, r)]
           /\ approvals'[r] = Decided(s, r)
           /\ postings' = IF Verdict(s) = "APPROVED"
                          THEN [postings EXCEPT ![r] = @ + 1] ELSE postings
           /\ jobs' = WriteStatus(s, Verdict(s)) /\ End(s)
BY DEF JobsInv, JobsTypeOK, SessionRow, CommitDecide, Decided

LEMMA CommitDecideInv ==
    ASSUME JobsInv, NEW s \in DOMAIN sessions, sessions[s].decision \in Decision, CommitDecide(s)
    PROVE  JobsInv'
<1> SUFFICES ASSUME NEW r, r = sessions[s].requisition PROVE JobsInv'
  OBVIOUS
<1> DEFINE sheet == Decided(s, r)
<1>1. /\ r \in DOMAIN jobs /\ r \in Requisition
      /\ approvals' = [approvals EXCEPT ![r] = sheet] /\ approvals'[r] = sheet
      /\ postings' = IF Verdict(s) = "APPROVED" THEN [postings EXCEPT ![r] = @ + 1] ELSE postings
      /\ jobs' = WriteStatus(s, Verdict(s)) /\ End(s)
  BY DecisionWritten
<1>2. sheet \in Sheet
  BY <1>1, SheetType DEF Decided, ApprovalRow, JobsInv
<1>3. Verdict(s) \in RequisitionStatus
  BY DEF Verdict, RequisitionStatus
<1>4. /\ Table(jobs', Requisition, RequisitionColumns) /\ DOMAIN jobs' = DOMAIN jobs
      /\ \A q \in DOMAIN jobs \ {r} : jobs'[q] = jobs[q]
      /\ ~sessions[s].stale => jobs'[r].status = Verdict(s)
  BY <1>1, <1>3, StatusWritten
<1>5. postings' \in [Requisition -> Nat] /\ (Verdict(s) = "APPROVED" => postings'[r] > 0)
  BY <1>1 DEF JobsInv, JobsTypeOK
<1>6. ASSUME ~sessions[s].stale PROVE StatusOK(r)'
  <2>1. /\ Verdict(s) \in {"APPROVED", "REJECTED", "PARTIALLY_APPROVED"}
        /\ Verdict(s) = "APPROVED" =>
              Says(sheet, "APPROVED") /\ \A m \in DOMAIN sheet : sheet[m] = "APPROVED"
        /\ Verdict(s) = "REJECTED" => Says(sheet, "REJECTED")
        /\ Verdict(s) = "PARTIALLY_APPROVED" =>
              Says(sheet, "APPROVED") /\ Says(sheet, "PENDING") /\ ~Says(sheet, "REJECTED")
    <3>1. sessions[s].op = "decide"
      BY DEF CommitDecide
    <3> QED BY <1>6, <3>1, VerdictIsSound
  <2>2. jobs'[r].status = Verdict(s)
    BY <1>4, <1>6
  <2> HIDE DEF sheet
  <2> QED BY <1>1, <1>5, <2>1, <2>2 DEF StatusOK, Given, Says, Undecided
<1> HIDE DEF sheet
<1>7. approvals' \in [Requisition -> Sheet]
  BY <1>1, <1>2 DEF JobsInv
<1>8. \A q \in DOMAIN jobs \ {r} : approvals'[q] = approvals[q] /\ postings'[q] = postings[q]
  BY <1>1 DEF JobsInv, JobsTypeOK, Table
<1> QED BY <1>1, <1>4, <1>5, <1>6, <1>7, <1>8, Committed

\* Closing and reopening write only the status.
LEMMA OnlyStatusWritten ==
    ASSUME JobsInv, NEW s \in DOMAIN sessions, NEW status \in {"CLOSED", "DRAFT"},
           jobs' = WriteStatus(s, status), End(s), UNCHANGED <<approvals, postings>>
    PROVE  JobsInv'
<1> SUFFICES ASSUME NEW r, r = sessions[s].requisition PROVE JobsInv'
  OBVIOUS
<1>1. /\ Table(jobs', Requisition, RequisitionColumns) /\ DOMAIN jobs' = DOMAIN jobs
      /\ \A q \in DOMAIN jobs \ {r} : jobs'[q] = jobs[q]
      /\ ~sessions[s].stale => jobs'[r].status = status
  <2>1. status \in RequisitionStatus
    BY DEF RequisitionStatus
  <2> QED BY <2>1, StatusWritten
<1>2. ~sessions[s].stale => StatusOK(r)'
  BY <1>1 DEF StatusOK, Undecided
<1>3. approvals' \in [Requisition -> Sheet] /\ postings' \in [Requisition -> Nat]
  BY DEF JobsInv, JobsTypeOK
<1> QED BY <1>1, <1>2, <1>3, Committed

LEMMA SubmitRefusedInv ==
    ASSUME JobsInv, NEW s \in DOMAIN sessions, SubmitRefused(s)
    PROVE  JobsInv'
<1>1. sessions' = Without(sessions, {s}) /\ UNCHANGED <<jobs, approvals, postings, raced>>
  BY DEF SubmitRefused
<1>2. DOMAIN sessions' = DOMAIN sessions \ {s} /\ \A t \in DOMAIN sessions' : sessions'[t] = sessions[t]
  BY <1>1 DEF Without
<1>3. ASSUME NEW t \in DOMAIN sessions', ~sessions'[t].stale PROVE LoadedOK(t)'
  <2>1. t \in DOMAIN sessions /\ sessions'[t] = sessions[t]
    BY <1>2, <1>3
  <2> QED BY <1>1, <1>3, <2>1 DEF JobsInv, LoadedOK
<1>4. \A q \in DOMAIN jobs' \ raced' : StatusOK(q)'
  BY <1>1 DEF JobsInv, StatusOK, Given
<1> QED BY <1>1, <1>2, <1>3, <1>4 DEF JobsInv, JobsTypeOK

LEMMA JobsStepInv ==
    ASSUME JobsInv, JobsNext
    PROVE  JobsInv'
<1>1. ASSUME NEW r \in Requisition, NEW complete \in BOOLEAN, CreateRequisition(r, complete)
      PROVE  JobsInv'
  <2> DEFINE row == [status |-> "DRAFT", complete |-> complete]
  <2>1. row \in RequisitionColumns /\ row.status = "DRAFT"
    BY DEF RequisitionColumns, RequisitionStatus
  <2>2. /\ jobs' = Upsert(jobs, r, row) /\ r \notin DOMAIN jobs
        /\ UNCHANGED <<approvals, postings, sessions, raced>>
    BY <1>1 DEF CreateRequisition
  <2> HIDE DEF row
  <2> QED BY <2>1, <2>2, JobWritten
<1>2. ASSUME NEW r \in DOMAIN jobs, UpdateRequisition(r) PROVE JobsInv'
  <2> DEFINE row == [jobs[r] EXCEPT !.complete = TRUE]
  <2>1. jobs[r] \in RequisitionColumns /\ jobs[r].status = "DRAFT" /\ r \in Requisition
    BY <1>2 DEF JobsInv, JobsTypeOK, Table, UpdateRequisition
  <2>2. row \in RequisitionColumns /\ row.status = "DRAFT"
    BY <2>1 DEF RequisitionColumns
  <2>3. jobs' = [jobs EXCEPT ![r] = row] /\ UNCHANGED <<approvals, postings, sessions, raced>>
    BY <1>2 DEF UpdateRequisition, ApplyRequisitionUpdates
  <2>4. jobs' = Upsert(jobs, r, row)
    <3> HIDE DEF row
    <3> QED BY <1>2, <2>3 DEF Upsert
  <2> HIDE DEF row
  <2> QED BY <2>1, <2>2, <2>3, <2>4, JobWritten
<1>3. ASSUME NEW r \in DOMAIN jobs, NEW s \in Session, NEW who \in OrgApprovers,
             BeginSubmit(s, r, who)
      PROVE  JobsInv'
  BY <1>3, BeginInv DEF BeginSubmit, OrgApprovers
<1>4. ASSUME NEW r \in DOMAIN jobs, NEW s \in Session, NEW m \in Approver, NEW d \in Decision,
             BeginDecide(s, r, m, d)
      PROVE  JobsInv'
  <2>1. Begin(s, r, "decide", {m}, d) /\ {m} # {} /\ {m} \subseteq DOMAIN approvals[r]
    BY <1>4 DEF BeginDecide
  <2> QED BY <2>1, BeginInv
<1>5. ASSUME NEW r \in DOMAIN jobs, NEW s \in Session, BeginClose(s, r) PROVE JobsInv'
  BY <1>5, BeginInv DEF BeginClose
<1>6. ASSUME NEW r \in DOMAIN jobs, NEW s \in Session, BeginReopen(s, r) PROVE JobsInv'
  BY <1>6, BeginInv DEF BeginReopen
<1>7. ASSUME NEW s \in DOMAIN sessions, CommitClose(s) PROVE JobsInv'
  BY <1>7, OnlyStatusWritten DEF CommitClose
<1>8. ASSUME NEW s \in DOMAIN sessions, CommitReopen(s) PROVE JobsInv'
  BY <1>8, OnlyStatusWritten DEF CommitReopen
<1>9. ASSUME NEW s \in DOMAIN sessions, CommitDecide(s) PROVE JobsInv'
  BY <1>9, CommitDecideInv DEF CommitDecide, JobsInv
<1> QED
  BY <1>1, <1>2, <1>3, <1>4, <1>5, <1>6, <1>7, <1>8, <1>9, CommitSubmitInv, SubmitRefusedInv
  DEF JobsNext

LEMMA JobsInvHolds == JobsSpec => []JobsInv
<1>1. JobsInit => JobsInv
  <2> SUFFICES ASSUME JobsInit PROVE JobsInv
    OBVIOUS
  <2>1. DOMAIN NoRecords = {} /\ NoRecords = [x \in DOMAIN NoRecords |-> NoRecords[x]]
    BY DEF NoRecords
  <2>2. NoRecords \in Sheet
    BY <2>1, SheetType
  <2> QED BY <2>1, <2>2 DEF JobsInit, JobsInv, JobsTypeOK, Table
<1>2. JobsInv /\ UNCHANGED jobsVars => JobsInv'
  <2> SUFFICES ASSUME JobsInv, UNCHANGED jobsVars PROVE JobsInv'
    OBVIOUS
  <2>1. UNCHANGED <<jobs, approvals, postings, sessions, raced>>
    BY DEF jobsVars
  <2>2. \A s \in DOMAIN sessions : ~sessions[s].stale => LoadedOK(s)'
    BY <2>1 DEF JobsInv, LoadedOK
  <2>3. \A q \in DOMAIN jobs \ raced : StatusOK(q)'
    BY <2>1 DEF JobsInv, StatusOK, Given
  <2> QED BY <2>1, <2>2, <2>3 DEF JobsInv, JobsTypeOK
<1>3. JobsInv /\ [JobsNext]_jobsVars => JobsInv'
  BY <1>2, JobsStepInv
<1> QED BY <1>1, <1>3, PTL DEF JobsSpec

UnanimousStep ==
    \A r \in Requisition \ raced' :
       postings'[r] > postings[r] => \A m \in DOMAIN approvals'[r] : approvals'[r][m] = "APPROVED"

\* A posting appears only when every approver ever asked has approved, however
\* submissions, decisions, closings and reopenings overlap, unless one of them
\* had loaded the requisition before another was committed
\* (jobs/service.py:1755).
THEOREM PostingIsUnanimous == JobsSpec => UnanimousPosting
<1>1. ASSUME JobsInv, JobsNext, NEW r \in Requisition \ raced', postings'[r] > postings[r]
      PROVE  \A m \in DOMAIN approvals'[r] : approvals'[r][m] = "APPROVED"
  <2>1. PICK s \in DOMAIN sessions : CommitDecide(s)
    <3>1. \/ UNCHANGED postings
          \/ \E s \in DOMAIN sessions : CommitDecide(s)
      BY ZenonT(40), <1>1 DEF JobsNext, CreateRequisition, UpdateRequisition, BeginSubmit, BeginDecide,
         BeginClose, BeginReopen, Begin, CommitSubmit, SubmitRefused, CommitClose, CommitReopen
    <3> QED BY <1>1, <3>1 DEF JobsInv, JobsTypeOK
  <2>2. PICK q : q = sessions[s].requisition
    OBVIOUS
  <2>3. /\ q \in DOMAIN jobs /\ q \in Requisition /\ approvals'[q] = Decided(s, q)
        /\ postings' = IF Verdict(s) = "APPROVED" THEN [postings EXCEPT ![q] = @ + 1] ELSE postings
        /\ End(s) /\ sessions[s].op = "decide"
    BY <1>1, <2>1, <2>2, DecisionWritten DEF CommitDecide
  <2>4. r = q /\ Verdict(s) = "APPROVED"
    BY <1>1, <2>3 DEF JobsInv, JobsTypeOK
  <2>5. ~sessions[s].stale
    BY <1>1, <2>2, <2>3, <2>4 DEF End
  <2> QED BY <1>1, <2>2, <2>3, <2>4, <2>5, VerdictIsSound
<1>2. JobsInv /\ [JobsNext]_jobsVars => [UnanimousStep]_jobsVars
  BY <1>1 DEF UnanimousStep
<1>3. UnanimousPosting <=> [][UnanimousStep]_jobsVars
  BY DEF UnanimousPosting, UnanimousStep
<1> QED BY <1>2, <1>3, JobsInvHolds, PTL DEF JobsSpec

LEMMA CountsTell ==
    ASSUME JobsInv, NEW r \in DOMAIN jobs, NEW d
    PROVE  /\ Cardinality(ApprovalsWith(r, d)) \in Nat
           /\ Cardinality(ApprovalsWith(r, d)) > 0 <=> Given(r, d)
           /\ Cardinality(DOMAIN approvals[r]) > 0 <=> DOMAIN approvals[r] # {}
<1>1. DOMAIN approvals[r] \subseteq Approver
  BY DEF JobsInv, JobsTypeOK, Table
<1>2. IsFiniteSet(DOMAIN approvals[r]) /\ IsFiniteSet(ApprovalsWith(r, d))
  BY <1>1, ApproversAreFinite, FS_Subset DEF ApprovalsWith
<1>3. \A S : IsFiniteSet(S) => Cardinality(S) \in Nat /\ (Cardinality(S) > 0 <=> S # {})
  BY FS_CardinalityType, FS_EmptySet
<1>4. ApprovalsWith(r, d) # {} <=> Given(r, d)
  BY DEF ApprovalsWith, Given
<1> QED BY <1>2, <1>3, <1>4

\* What approvers and readers are shown of a requisition is so, and whatever is
\* listed can be opened (jobs/service.py).
THEOREM RequisitionsAreTold == JobsSpec => []JobsPagesAgree
<1>1. ASSUME JobsInv PROVE JobsPagesAgree
  <2>1. ASSUME NEW r \in DOMAIN jobs \ raced
        PROVE  LET counts == ApprovalSummary(r)
                   status == jobs[r].status
               IN  /\ status \in Undecided <=> \E m \in Staff : CanApprove(r, m)
                   /\ status \in Undecided => \A m \in Staff : ~CanEdit(r, m)
                   /\ status = "APPROVED" =>
                        /\ counts.total > 0 /\ counts.approved = counts.total
                        /\ r \in ListPublicPostings
                        /\ \A m \in Staff, scope \in ViewScope :
                             PipelinePosting(m, scope, r) # "not found"
                   /\ status = "REJECTED" => counts.rejected > 0
                   /\ status = "PARTIALLY_APPROVED" =>
                        counts.approved > 0 /\ counts.pending > 0 /\ counts.rejected = 0
    <3>1. StatusOK(r) /\ r \in Requisition /\ DOMAIN approvals[r] \subseteq Staff
      BY <1>1, <2>1, JobsReaders DEF JobsInv, JobsTypeOK, Table
    <3>2. \A d : /\ Cardinality(ApprovalsWith(r, d)) \in Nat
                 /\ Cardinality(ApprovalsWith(r, d)) > 0 <=> Given(r, d)
                 /\ Cardinality(DOMAIN approvals[r]) > 0 <=> DOMAIN approvals[r] # {}
      BY <1>1, CountsTell
    <3>3. jobs[r].status \in Undecided <=> \E m \in Staff : CanApprove(r, m)
      BY <3>1 DEF StatusOK, Given, CanApprove, ApprovalsWith
    <3>4. jobs[r].status \in Undecided => \A m \in Staff : ~CanEdit(r, m)
      BY DEF Undecided, CanEdit
    <3>5. ASSUME jobs[r].status = "APPROVED"
          PROVE  /\ ApprovalSummary(r).total > 0
                 /\ ApprovalSummary(r).approved = ApprovalSummary(r).total
                 /\ r \in ListPublicPostings
                 /\ \A m \in Staff, scope \in ViewScope : PipelinePosting(m, scope, r) # "not found"
      <4>1. ApprovalsWith(r, "APPROVED") = DOMAIN approvals[r] /\ DOMAIN approvals[r] # {}
        BY <3>1, <3>5 DEF StatusOK, Given, ApprovalsWith
      <4>2. postings[r] > 0 /\ postings[r] \in Nat
        BY <1>1, <3>1, <3>5 DEF StatusOK, JobsInv, JobsTypeOK
      <4> QED BY <3>1, <3>2, <4>1, <4>2 DEF ApprovalSummary, ListPublicPostings, PipelinePosting
    <3>6. jobs[r].status = "REJECTED" => ApprovalSummary(r).rejected > 0
      BY <3>1, <3>2 DEF StatusOK, ApprovalSummary
    <3>7. ASSUME jobs[r].status = "PARTIALLY_APPROVED"
          PROVE  /\ ApprovalSummary(r).approved > 0 /\ ApprovalSummary(r).pending > 0
                 /\ ApprovalSummary(r).rejected = 0
      <4>1. Given(r, "APPROVED") /\ Given(r, "PENDING") /\ ~Given(r, "REJECTED")
        BY <3>1, <3>7 DEF StatusOK, Undecided
      <4> QED BY <3>2, <4>1 DEF ApprovalSummary
    <3> QED BY <3>3, <3>4, <3>5, <3>6, <3>7
  <2>2. ASSUME NEW m \in Staff, NEW scope \in ViewScope
        PROVE  /\ GetRequisition(m, scope) \subseteq ListRequisitions(m, scope)
               /\ GetOpenJobRequisitions \cup GetRequisitionActivity(m, scope)
                    \subseteq GetRequisition(m, scope)
               /\ ListRequisitions(m, scope) \ GetRequisition(m, scope) \subseteq Raised(m)
    BY DEF ViewScope, GetRequisition, ListRequisitions, HasAccess, GetOpenJobRequisitions,
       GetRequisitionActivity, Open, Raised, OfDepartments, OfTeamMates
  <2> QED BY <2>1, <2>2 DEF JobsPagesAgree
<1> QED BY <1>1, JobsInvHolds, PTL

-----------------------------------------------------------------------------
(* Collected documents. *)

\* Of a candidate's requests only the latest is ever pending, unless calls overlapped.
PendingIsLatest(rs, cs) ==
    \A p, q \in DOMAIN rs :
       rs[p].application = rs[q].application /\ rs[q].application \notin cs
          /\ rs[q].status = "PENDING" =>
          /\ rs[p].number <= rs[q].number
          /\ rs[p].status = "PENDING" => p = q

NothingPends(rs, c) ==
    \A q \in DOMAIN rs : rs[q].application = c => rs[q].status # "PENDING"

\* Who was not overtaken since it looked still has nothing pending before it.
MakingSound ==
    /\ Table(making, Request, MakingRow)
    /\ \A q \in DOMAIN making :
         /\ q \notin DOMAIN requests
         /\ ~making[q].overtaken =>
              making[q].application \in crossed \/ NothingPends(requests, making[q].application)

AnsweringSound ==
    /\ Table(answering, Submission, AnsweringRow)
    /\ \A s \in DOMAIN answering :
         answering[s].request \in inbox /\ answering[s].read # "SUBMITTED"

TasksSound ==
    /\ Table(tasks, DOMAIN requests, {"queued", "mailing", "arrived"})
    /\ \A q \in DOMAIN tasks : tasks[q] = "arrived" <=> q \in inbox

DocumentsInv ==
    /\ Table(templates, Template, TemplateRow)
    /\ Table(requests, Request, RequestRow)
    /\ inbox \subseteq DOMAIN requests /\ crossed \subseteq Candidate
    /\ restarts \in 0 .. MaxRestarts
    /\ IsFiniteSet(DOMAIN requests)
    /\ \A q \in DOMAIN requests : requests[q].number < Cardinality(DOMAIN requests)
    /\ PendingIsLatest(requests, crossed)
    /\ \A q \in DOMAIN requests : requests[q].status = "SUBMITTED" => q \in inbox
    /\ MakingSound /\ AnsweringSound /\ TasksSound

KeptAnswers(q) ==
    \/ /\ requests'[q].status = "SUBMITTED"
       /\ \/ requests'[q].answers = requests[q].answers
          \/ \E s \in DOMAIN answering : AnsweredEarlier(s, q)
    \/ /\ q \in DOMAIN tasks /\ tasks[q] = "arrived" /\ q \notin DOMAIN tasks'
       /\ requests'[q].status = "FAILED"
       /\ requests'[q].answers = requests[q].answers

AnswersStep ==
    /\ \A q \in DOMAIN requests : requests[q].status = "SUBMITTED" => KeptAnswers(q)
    /\ \A c \in Candidate \ crossed' : Cardinality({q \in DOMAIN requests' :
         requests'[q].application = c /\ requests'[q].status = "PENDING"}) <= 1

LEMMA DocumentsTyped ==
    ASSUME DocumentsInv
    PROVE  DocumentsTypeOK
BY DEF DocumentsInv, DocumentsTypeOK, MakingSound, AnsweringSound, TasksSound

\* Nobody is asked twice at one time.
LEMMA OneIsPending ==
    ASSUME NEW rs, NEW cs, PendingIsLatest(rs, cs), NEW c, c \notin cs
    PROVE  Cardinality({q \in DOMAIN rs :
             rs[q].application = c /\ rs[q].status = "PENDING"}) <= 1
<1> DEFINE S == {q \in DOMAIN rs : rs[q].application = c /\ rs[q].status = "PENDING"}
<1>1. CASE S = {}
  BY <1>1, FS_EmptySet
<1>2. CASE S # {}
  <2>1. PICK x \in S : TRUE
    BY <1>2
  <2>2. S = {x}
    BY <2>1 DEF PendingIsLatest
  <2>3. Cardinality({x}) = 1
    BY FS_Singleton
  <2> QED BY <2>2, <2>3
<1> QED BY <1>1, <1>2

\* Nothing happens to the requests.
LEMMA RequestsKept ==
    ASSUME DocumentsInv, UNCHANGED <<requests, crossed>>,
           Table(templates', Template, TemplateRow), inbox' \subseteq DOMAIN requests,
           inbox \subseteq inbox', restarts' \in 0 .. MaxRestarts,
           MakingSound', AnsweringSound', TasksSound'
    PROVE  DocumentsInv' /\ AnswersStep
<1>1. DocumentsInv'
  BY DEF DocumentsInv
<1>2. \A q \in DOMAIN requests : requests[q].status = "SUBMITTED" => KeptAnswers(q)
  BY DEF KeptAnswers
<1> QED BY <1>1, <1>2, OneIsPending DEF AnswersStep, DocumentsInv

\* Requests are rewritten, none becomes pending and none is forgotten.
LEMMA RequestsRewritten ==
    ASSUME DocumentsInv, DOMAIN requests' = DOMAIN requests,
           \A q \in DOMAIN requests :
              /\ requests'[q] \in RequestRow
              /\ requests'[q].application = requests[q].application
              /\ requests'[q].number = requests[q].number
              /\ requests'[q].status = "PENDING" => requests[q].status = "PENDING"
              /\ requests'[q].status = "SUBMITTED" => q \in inbox
              /\ requests[q].status = "SUBMITTED" => KeptAnswers(q),
           Table(templates', Template, TemplateRow),
           UNCHANGED <<making, inbox, crossed, restarts>>, AnsweringSound', TasksSound'
    PROVE  DocumentsInv' /\ AnswersStep
<1>1. PendingIsLatest(requests', crossed')
  BY DEF DocumentsInv, PendingIsLatest
<1>2. \A q \in DOMAIN requests' : requests'[q].number < Cardinality(DOMAIN requests')
  BY DEF DocumentsInv
<1>3. \A c : NothingPends(requests, c) => NothingPends(requests', c)
  BY DEF NothingPends
<1>4. MakingSound'
  BY <1>3 DEF DocumentsInv, MakingSound
<1>5. Table(requests', Request, RequestRow)
  BY DEF DocumentsInv, Table
<1>6. DocumentsInv'
  BY <1>1, <1>2, <1>4, <1>5 DEF DocumentsInv
<1> QED BY <1>1, <1>6, OneIsPending DEF AnswersStep

LEMMA TemplatesInv ==
    ASSUME DocumentsInv, Table(templates', Template, TemplateRow),
           UNCHANGED <<requests, making, answering, tasks, inbox, crossed, restarts>>
    PROVE  DocumentsInv' /\ AnswersStep
<1>1. MakingSound' /\ AnsweringSound' /\ TasksSound'
  BY DEF DocumentsInv, MakingSound, AnsweringSound, TasksSound, NothingPends
<1> QED BY <1>1, RequestsKept DEF DocumentsInv

LEMMA DeleteTemplateInv ==
    ASSUME DocumentsInv, NEW k \in Template, DeleteTemplate(k)
    PROVE  DocumentsInv' /\ AnswersStep
<1>1. /\ DOMAIN requests' = DOMAIN requests
      /\ UNCHANGED <<making, answering, tasks, inbox, crossed, restarts>>
      /\ Table(templates', Template, TemplateRow)
  BY DEF DeleteTemplate, Without, DocumentsInv, Table
<1>2. ASSUME NEW q \in DOMAIN requests
      PROVE  /\ requests'[q] \in RequestRow
             /\ requests'[q].application = requests[q].application
             /\ requests'[q].number = requests[q].number
             /\ requests'[q].status = requests[q].status
             /\ requests'[q].answers = requests[q].answers
  <2>1. requests[q] \in RequestRow
    BY DEF DocumentsInv, Table
  <2>2. \/ requests'[q] = requests[q]
        \/ requests'[q] = [requests[q] EXCEPT !.template = "null"]
    BY DEF DeleteTemplate
  <2>3. [requests[q] EXCEPT !.template = "null"] \in RequestRow
    BY <2>1 DEF RequestRow, Optional
  <2> QED BY <2>1, <2>2, <2>3 DEF RequestRow
<1>3. AnsweringSound' /\ TasksSound'
  BY <1>1 DEF DocumentsInv, AnsweringSound, TasksSound
<1>4. \A q \in DOMAIN requests : requests[q].status = "SUBMITTED" => q \in inbox /\ KeptAnswers(q)
  BY <1>2 DEF DocumentsInv, KeptAnswers
<1> QED BY <1>1, <1>2, <1>3, <1>4, RequestsRewritten

LEMMA LookForRequestInv ==
    ASSUME DocumentsInv, NEW q \in Request, NEW c \in Candidate, NEW k \in Template,
           LookForRequest(q, c, k)
    PROVE  DocumentsInv' /\ AnswersStep
<1> DEFINE row == [application |-> c, template |-> k, form |-> templates[k].form,
                   overtaken |-> FALSE]
<1>1. templates[k].form \in Form
  BY DEF LookForRequest, DocumentsInv, Table, TemplateRow
<1>2. row \in MakingRow /\ row.application = c
  BY <1>1 DEF MakingRow
<1>3. /\ making' = Upsert(making, q, row) /\ q \notin DOMAIN requests /\ ~LatestIsPending(c)
      /\ UNCHANGED <<templates, requests, answering, tasks, inbox, crossed, restarts>>
  BY DEF LookForRequest
<1>4. c \in crossed \/ NothingPends(requests, c)
  BY <1>3 DEF DocumentsInv, PendingIsLatest, LatestIsPending, Of, NothingPends
<1> HIDE DEF row
<1>5. MakingSound'
  BY <1>2, <1>3, <1>4 DEF DocumentsInv, MakingSound, Table, Upsert, NothingPends
<1>6. AnsweringSound' /\ TasksSound'
  BY <1>3 DEF DocumentsInv, AnsweringSound, TasksSound
<1> QED BY <1>3, <1>5, <1>6, RequestsKept DEF DocumentsInv

LEMMA SendRequestInv ==
    ASSUME DocumentsInv, NEW q \in DOMAIN making, SendRequest(q)
    PROVE  DocumentsInv' /\ AnswersStep
<1> DEFINE n == Cardinality(DOMAIN requests)
           c == making[q].application
           row == [application |-> c, template |-> making[q].template, form |-> making[q].form,
                   status |-> "PENDING", answers |-> "null", number |-> n]
<1>1. n \in Nat /\ IsFiniteSet(DOMAIN requests \cup {q})
  BY FS_CardinalityType, FS_AddElement DEF DocumentsInv
<1>2. q \notin DOMAIN requests /\ making[q] \in MakingRow /\ q \in Request
  BY DEF DocumentsInv, MakingSound, Table
<1>3. Cardinality(DOMAIN requests \cup {q}) = n + 1
  BY <1>2, FS_AddElement DEF DocumentsInv
<1>4. /\ row \in RequestRow /\ row.application = c /\ row.number = n /\ row.status = "PENDING"
      /\ c \in Candidate
  <2> HIDE DEF n
  <2> QED BY <1>1, <1>2 DEF MakingRow, RequestRow, Optional
<1>5. /\ requests' = Upsert(requests, q, row)
      /\ tasks' = Upsert(tasks, q, "queued")
      /\ crossed' = crossed \cup (IF making[q].overtaken THEN {c} ELSE {})
      /\ making' = [p \in DOMAIN making \ {q} |->
            IF making[p].application = c THEN [making[p] EXCEPT !.overtaken = TRUE]
            ELSE making[p]]
      /\ UNCHANGED <<templates, answering, inbox, restarts>>
  BY DEF SendRequest
<1>6. c \in crossed' \/ NothingPends(requests, c)
  BY <1>5 DEF DocumentsInv, MakingSound
<1>7. \A p \in DOMAIN requests : requests[p].number \in Nat /\ requests[p].number < n
  BY DEF DocumentsInv, Table, RequestRow
<1> HIDE DEF row, n, c
<1>8. /\ DOMAIN requests' = DOMAIN requests \cup {q} /\ requests'[q] = row
      /\ \A p \in DOMAIN requests : requests'[p] = requests[p]
  BY <1>2, <1>5 DEF Upsert
<1>9. crossed \subseteq crossed' /\ crossed' \subseteq Candidate
  BY <1>4, <1>5 DEF DocumentsInv
<1>10. PendingIsLatest(requests', crossed')
  <2> SUFFICES ASSUME NEW p \in DOMAIN requests', NEW r \in DOMAIN requests',
                      requests'[p].application = requests'[r].application,
                      requests'[r].application \notin crossed',
                      requests'[r].status = "PENDING"
               PROVE  /\ requests'[p].number <= requests'[r].number
                      /\ requests'[p].status = "PENDING" => p = r
    BY DEF PendingIsLatest
  <2>1. CASE p = q /\ r = q
    BY <1>1, <1>4, <1>8, <2>1
  <2>2. CASE p # q /\ r = q
    <3>1. NothingPends(requests, c) /\ p \in DOMAIN requests /\ requests[p].application = c
      BY <1>4, <1>6, <1>8, <2>2
    <3> QED BY <1>1, <1>4, <1>7, <1>8, <2>2, <3>1 DEF NothingPends
  <2>3. CASE p = q /\ r # q
    BY <1>4, <1>6, <1>8, <2>3 DEF NothingPends
  <2>4. CASE p # q /\ r # q
    BY <1>8, <1>9, <2>4 DEF DocumentsInv, PendingIsLatest
  <2> QED BY <2>1, <2>2, <2>3, <2>4
<1>11. MakingSound'
  <2> SUFFICES ASSUME NEW p \in DOMAIN making'
               PROVE  /\ p \in Request /\ making'[p] \in MakingRow /\ p \notin DOMAIN requests'
                      /\ ~making'[p].overtaken =>
                           making'[p].application \in crossed' \/ NothingPends(requests', making'[p].application)
    BY DEF MakingSound, Table
  <2>1. /\ p \in DOMAIN making \ {q} /\ p \in Request /\ p \notin DOMAIN requests
        /\ making[p] \in MakingRow
        /\ ~making[p].overtaken => making[p].application \in crossed \/ NothingPends(requests, making[p].application)
    BY <1>5 DEF DocumentsInv, MakingSound, Table
  <2>2. CASE making[p].application = c
    <3>1. making'[p] = [making[p] EXCEPT !.overtaken = TRUE]
      BY <1>5, <2>1, <2>2
    <3> QED BY <1>8, <1>9, <2>1, <3>1 DEF MakingRow
  <2>3. CASE making[p].application # c
    <3>1. making'[p] = making[p]
      BY <1>5, <2>1, <2>3
    <3>2. NothingPends(requests, making[p].application) => NothingPends(requests', making[p].application)
      BY <1>4, <1>8, <2>3, <3>1 DEF NothingPends
    <3> QED BY <1>8, <1>9, <2>1, <3>1, <3>2
  <2> QED BY <2>2, <2>3
<1>12. AnsweringSound'
  BY <1>5 DEF DocumentsInv, AnsweringSound
<1>13. TasksSound'
  BY <1>2, <1>5, <1>8 DEF DocumentsInv, TasksSound, Table, Upsert
<1>14. \A p \in DOMAIN requests' : requests'[p].number < Cardinality(DOMAIN requests')
  BY <1>1, <1>3, <1>4, <1>7, <1>8
<1>15. \A p \in DOMAIN requests' : requests'[p].status = "SUBMITTED" => p \in inbox'
  BY <1>4, <1>5, <1>8 DEF DocumentsInv
<1>16. Table(requests', Request, RequestRow)
  BY <1>2, <1>4, <1>8 DEF DocumentsInv, Table
<1>17. DocumentsInv'
  BY <1>1, <1>5, <1>8, <1>9, <1>10, <1>11, <1>12, <1>13, <1>14, <1>15, <1>16 DEF DocumentsInv
<1>18. \A p \in DOMAIN requests : requests[p].status = "SUBMITTED" => KeptAnswers(p)
  BY <1>8 DEF KeptAnswers
<1> QED BY <1>10, <1>17, <1>18, OneIsPending DEF AnswersStep

LEMMA MailFailsInv ==
    ASSUME DocumentsInv, NEW q \in DOMAIN tasks, MailFails(q)
    PROVE  DocumentsInv' /\ AnswersStep
<1> DEFINE row == [requests[q] EXCEPT !.status = "FAILED"]
<1>1. /\ requests' = [requests EXCEPT ![q] = row]
      /\ tasks' = Without(tasks, {q})
      /\ UNCHANGED <<templates, making, answering, inbox, crossed, restarts>>
      /\ tasks[q] \in {"mailing", "arrived"}
  BY DEF MailFails
<1>2. q \in DOMAIN requests /\ requests[q] \in RequestRow
  BY DEF DocumentsInv, TasksSound, Table
<1>3. /\ row \in RequestRow /\ row.status = "FAILED" /\ row.answers = requests[q].answers
      /\ row.application = requests[q].application /\ row.number = requests[q].number
  BY <1>2 DEF RequestRow
<1> HIDE DEF row
<1>4. /\ DOMAIN requests' = DOMAIN requests /\ requests'[q] = row
      /\ \A p \in DOMAIN requests : p # q => requests'[p] = requests[p]
  BY <1>1, <1>2
<1>5. requests[q].status = "SUBMITTED" => KeptAnswers(q)
  <2>1. requests[q].status = "SUBMITTED" => tasks[q] = "arrived"
    BY <1>2 DEF DocumentsInv, TasksSound
  <2> QED BY <1>1, <1>3, <1>4, <2>1 DEF KeptAnswers, Without
<1>6. \A p \in DOMAIN requests :
         /\ requests'[p] \in RequestRow
         /\ requests'[p].application = requests[p].application
         /\ requests'[p].number = requests[p].number
         /\ requests'[p].status = "PENDING" => requests[p].status = "PENDING"
         /\ requests'[p].status = "SUBMITTED" => p \in inbox
         /\ requests[p].status = "SUBMITTED" => KeptAnswers(p)
  BY <1>3, <1>4, <1>5 DEF DocumentsInv, Table, KeptAnswers
<1>7. AnsweringSound'
  BY <1>1 DEF DocumentsInv, AnsweringSound
<1>8. TasksSound'
  BY <1>1, <1>4 DEF DocumentsInv, TasksSound, Table, Without
<1>9. Table(templates', Template, TemplateRow)
  BY <1>1 DEF DocumentsInv
<1> QED BY <1>1, <1>4, <1>6, <1>7, <1>8, <1>9, RequestsRewritten

LEMMA ReceiveAnswersInv ==
    ASSUME DocumentsInv, NEW s \in Submission, NEW q \in inbox, ReceiveAnswers(s, q)
    PROVE  DocumentsInv' /\ AnswersStep
<1> DEFINE row == [request |-> q, read |-> requests[q].status]
<1>1. /\ answering' = Upsert(answering, s, row) /\ requests[q].status # "SUBMITTED"
      /\ UNCHANGED <<templates, requests, making, tasks, inbox, crossed, restarts>>
  BY DEF ReceiveAnswers
<1>2. q \in Request /\ requests[q] \in RequestRow
  BY DEF DocumentsInv, Table
<1>3. row \in AnsweringRow /\ row.request = q /\ row.read # "SUBMITTED"
  BY <1>1, <1>2 DEF AnsweringRow, RequestRow
<1> HIDE DEF row
<1>4. AnsweringSound'
  BY <1>1, <1>3 DEF DocumentsInv, AnsweringSound, Table, Upsert
<1>5. MakingSound' /\ TasksSound'
  BY <1>1 DEF DocumentsInv, MakingSound, TasksSound, NothingPends
<1> QED BY <1>1, <1>4, <1>5, RequestsKept DEF DocumentsInv

LEMMA SubmitAnswersInv ==
    ASSUME DocumentsInv, NEW s \in DOMAIN answering, SubmitAnswers(s)
    PROVE  DocumentsInv' /\ AnswersStep
<1> DEFINE q == answering[s].request
           row == [requests[q] EXCEPT !.status = "SUBMITTED", !.answers = s]
<1>1. /\ q \in DOMAIN requests /\ q \in inbox /\ requests[q] \in RequestRow
      /\ s \in Submission /\ answering[s].read # "SUBMITTED"
  BY DEF DocumentsInv, AnsweringSound, Table
<1>2. /\ requests' = [requests EXCEPT ![q] = row] /\ answering' = Without(answering, {s})
      /\ UNCHANGED <<templates, making, tasks, inbox, crossed, restarts>>
  BY <1>1 DEF SubmitAnswers, DocumentsInv, Table, RequestRow
<1>3. /\ row \in RequestRow /\ row.status = "SUBMITTED"
      /\ row.application = requests[q].application /\ row.number = requests[q].number
  BY <1>1 DEF RequestRow, Optional
<1>4. AnsweredEarlier(s, q)
  BY <1>1, <1>2 DEF AnsweredEarlier, Without
<1> HIDE DEF row, q
<1>5. /\ DOMAIN requests' = DOMAIN requests /\ requests'[q] = row
      /\ \A p \in DOMAIN requests : p # q => requests'[p] = requests[p]
  BY <1>1, <1>2
<1>6. \A p \in DOMAIN requests :
         /\ requests'[p] \in RequestRow
         /\ requests'[p].application = requests[p].application
         /\ requests'[p].number = requests[p].number
         /\ requests'[p].status = "PENDING" => requests[p].status = "PENDING"
         /\ requests'[p].status = "SUBMITTED" => p \in inbox
         /\ requests[p].status = "SUBMITTED" => KeptAnswers(p)
  BY <1>1, <1>3, <1>4, <1>5 DEF DocumentsInv, Table, KeptAnswers
<1>7. AnsweringSound' /\ TasksSound'
  BY <1>2, <1>5 DEF DocumentsInv, AnsweringSound, TasksSound, Table, Without
<1>8. Table(templates', Template, TemplateRow)
  BY <1>2 DEF DocumentsInv
<1> QED BY <1>2, <1>5, <1>6, <1>7, <1>8, RequestsRewritten

\* What a call or a task leaves behind when it does nothing more to the requests.
LEMMA CallsEnd ==
    ASSUME DocumentsInv, UNCHANGED <<templates, requests, crossed>>,
           inbox' \subseteq DOMAIN requests, inbox \subseteq inbox', restarts' \in 0 .. MaxRestarts,
           DOMAIN making' \subseteq DOMAIN making, DOMAIN answering' \subseteq DOMAIN answering,
           \A q \in DOMAIN making' : making'[q] = making[q],
           \A s \in DOMAIN answering' : answering'[s] = answering[s], TasksSound'
    PROVE  DocumentsInv' /\ AnswersStep
<1>1. MakingSound' /\ AnsweringSound'
  BY DEF DocumentsInv, MakingSound, AnsweringSound, Table, NothingPends
<1> QED BY <1>1, RequestsKept DEF DocumentsInv

LEMMA DocumentsStepInv ==
    ASSUME DocumentsInv, DocumentsNext
    PROVE  DocumentsInv' /\ AnswersStep
<1>1. ASSUME NEW k \in Template, NEW status \in {"DRAFT", "ACTIVE"}, NEW form \in Form,
             CreateTemplate(k, status, form)
      PROVE  DocumentsInv' /\ AnswersStep
  <2>1. Table(templates', Template, TemplateRow)
    BY <1>1 DEF CreateTemplate, Upsert, DocumentsInv, Table, TemplateRow
  <2> QED BY <1>1, <2>1, TemplatesInv DEF CreateTemplate
<1>2. ASSUME NEW k \in Template, NEW status \in {"DRAFT", "ACTIVE", "ARCHIVED"},
             NEW form \in Form \cup {"empty"}, UpdateTemplate(k, status, form)
      PROVE  DocumentsInv' /\ AnswersStep
  <2>1. Table(templates', Template, TemplateRow)
    BY <1>2 DEF UpdateTemplate, Upsert, DocumentsInv, Table, TemplateRow
  <2> QED BY <1>2, <2>1, TemplatesInv DEF UpdateTemplate
<1>3. ASSUME NEW k \in Template, NEW source \in Template, CopyTemplate(k, source)
      PROVE  DocumentsInv' /\ AnswersStep
  <2>1. Table(templates', Template, TemplateRow)
    BY <1>3 DEF CopyTemplate, Upsert, DocumentsInv, Table, TemplateRow
  <2> QED BY <1>3, <2>1, TemplatesInv DEF CopyTemplate
<1>4. ASSUME NEW q \in DOMAIN tasks, LoadRequest(q) PROVE DocumentsInv' /\ AnswersStep
  <2>1. TasksSound'
    BY <1>4 DEF LoadRequest, DocumentsInv, TasksSound, Table
  <2> QED BY <1>4, <2>1, CallsEnd DEF LoadRequest, DocumentsInv
<1>5. ASSUME NEW q \in DOMAIN tasks, MailArrives(q) PROVE DocumentsInv' /\ AnswersStep
  <2>1. TasksSound' /\ inbox' \subseteq DOMAIN requests
    BY <1>5 DEF MailArrives, DocumentsInv, TasksSound, Table
  <2> QED BY <1>5, <2>1, CallsEnd DEF MailArrives, DocumentsInv
<1>6. ASSUME NEW q \in DOMAIN tasks, MailReported(q) PROVE DocumentsInv' /\ AnswersStep
  <2>1. TasksSound'
    BY <1>6 DEF MailReported, Without, DocumentsInv, TasksSound, Table
  <2> QED BY <1>6, <2>1, CallsEnd DEF MailReported, DocumentsInv
<1>7. ASSUME NEW s \in DOMAIN answering, AbandonAnswers(s) PROVE DocumentsInv' /\ AnswersStep
  <2>1. TasksSound'
    BY <1>7 DEF AbandonAnswers, DocumentsInv, TasksSound
  <2> QED BY <1>7, <2>1, CallsEnd DEF AbandonAnswers, Without, DocumentsInv
<1>8. ASSUME NEW q \in DOMAIN making, AbandonRequest(q) PROVE DocumentsInv' /\ AnswersStep
  <2>1. TasksSound'
    BY <1>8 DEF AbandonRequest, DocumentsInv, TasksSound
  <2> QED BY <1>8, <2>1, CallsEnd DEF AbandonRequest, Without, DocumentsInv
<1>9. ASSUME Restart PROVE DocumentsInv' /\ AnswersStep
  <2>1. restarts' \in 0 .. MaxRestarts
    BY <1>9, RestartsAreCounted DEF Restart, DocumentsInv
  <2>2. TasksSound'
    BY <1>9 DEF Restart, NoRecords, TasksSound, Table
  <2> QED BY <1>9, <2>1, <2>2, CallsEnd DEF Restart, NoRecords, DocumentsInv
<1> QED
  BY <1>1, <1>2, <1>3, <1>4, <1>5, <1>6, <1>7, <1>8, <1>9, DeleteTemplateInv, LookForRequestInv,
     SendRequestInv, MailFailsInv, ReceiveAnswersInv, SubmitAnswersInv DEF DocumentsNext

LEMMA DocumentsInvHolds == DocumentsSpec => []DocumentsInv
<1>1. DocumentsInit => DocumentsInv
  BY RestartsAreCounted, FS_EmptySet DEF DocumentsInit, DocumentsInv, MakingSound, AnsweringSound,
     TasksSound, NoRecords, Table, PendingIsLatest
<1>2. DocumentsInv /\ UNCHANGED documentsVars => DocumentsInv'
  BY DEF documentsVars, DocumentsInv, MakingSound, AnsweringSound, TasksSound, NothingPends
<1>3. DocumentsInv /\ [DocumentsNext]_documentsVars => DocumentsInv'
  BY <1>2, DocumentsStepInv
<1> QED BY <1>1, <1>3, PTL DEF DocumentsSpec

\* However calls, mail tasks and administrators of templates overlap: submitted
\* answers are replaced only by a submission accepted before they were there, and
\* hidden only by the task whose mail arrived and was reported as failed; and no
\* candidate is asked twice at one time unless two calls looked before either
\* inserted its request (document_collection/service.py).
THEOREM AnswersStay == DocumentsSpec => AnswersAreKept
<1>1. DocumentsInv /\ [DocumentsNext]_documentsVars => [AnswersStep]_documentsVars
  BY DocumentsStepInv
<1>2. AnswersAreKept <=> [][AnswersStep]_documentsVars
  BY DEF AnswersAreKept, AnswersStep, KeptAnswers
<1> QED BY <1>1, <1>2, DocumentsInvHolds, PTL DEF DocumentsSpec

-----------------------------------------------------------------------------
(* Screenings. *)

\* A task that has read the rules keeps them.
ScreeningRow ==
    {[step |-> "queued"], [step |-> "locked"], [step |-> "broken"]}
    \cup [step : {"asking"}, rules : [there : BOOLEAN, revision : Nat]]

Locked(t) == screenings[t].step \in {"locked", "asking"}

\* A task that follows the rules of the last request, or has not read any yet.
UpToDate(t) ==
    screenings[t].step = "asking" => screenings[t].rules.revision >= asked

ResumesTypes ==
    /\ rules \in [there : BOOLEAN, revision : 0 .. MaxRules]
    /\ analysis \in Status
    /\ DOMAIN screenings \subseteq ScreeningTask
    /\ \A t \in DOMAIN screenings :
         /\ screenings[t] \in ScreeningRow
         /\ screenings[t].step = "asking" => screenings[t].rules.revision \in 0 .. rules.revision
    /\ Table(askers, Asker, Status)
    /\ asked \in 0 .. rules.revision /\ scoredBy \in 0 .. MaxRules /\ dropped \in BOOLEAN

OneLocked == \A t, u \in DOMAIN screenings : Locked(t) /\ Locked(u) => t = u

\* Behind a task that follows older rules than were asked for since, another one
\* is queued; and a result that follows older rules is not the last.
OthersFollow ==
    /\ \A t \in DOMAIN screenings :
         ~UpToDate(t) => \E u \in DOMAIN screenings : screenings[u].step = "queued"
    /\ ~dropped /\ analysis = "COMPLETED" /\ scoredBy < asked =>
         \E u \in DOMAIN screenings : UpToDate(u)

ResumesInv == ResumesTypes /\ OneLocked /\ OthersFollow

\* Every task has a step of its own.
LEMMA StepsDiffer ==
    ASSUME NEW row \in ScreeningRow
    PROVE  /\ row.step \in {"queued", "locked", "asking", "broken"}
           /\ row.step = "asking" => row.rules \in [there : BOOLEAN, revision : Nat]
BY DEF ScreeningRow

LEMMA CountAttemptInv ==
    ASSUME ResumesInv, NEW t \in DOMAIN screenings, CountAttempt(t)
    PROVE  ResumesInv'
<1> DEFINE row == [step |-> "locked"]
<1>1. /\ screenings' = [screenings EXCEPT ![t] = row] /\ RowIsFree
      /\ UNCHANGED <<rules, analysis, askers, asked, scoredBy, dropped>>
  BY DEF CountAttempt, Step
<1>2. row \in ScreeningRow /\ row.step = "locked"
  BY DEF ScreeningRow
<1> HIDE DEF row
<1>3. ResumesTypes'
  BY <1>1, <1>2 DEF ResumesInv, ResumesTypes, Table
<1>4. OneLocked'
  BY <1>1, <1>2 DEF ResumesInv, OneLocked, Locked, RowIsFree
<1>5. OthersFollow'
  BY <1>1, <1>2 DEF ResumesInv, OthersFollow, UpToDate, RowIsFree
<1> QED BY <1>3, <1>4, <1>5 DEF ResumesInv

LEMMA ReadRulesInv ==
    ASSUME ResumesInv, NEW t \in DOMAIN screenings, ReadRules(t)
    PROVE  ResumesInv'
<1> DEFINE row == [step |-> "asking", rules |-> rules]
<1>1. /\ screenings' = [screenings EXCEPT ![t] = row] /\ screenings[t].step = "locked"
      /\ UNCHANGED <<rules, analysis, askers, asked, scoredBy, dropped>>
  BY DEF ReadRules, Step
<1>2. /\ rules \in [there : BOOLEAN, revision : Nat] /\ asked \in Nat
      /\ rules.revision \in Nat /\ asked <= rules.revision
  BY RulesAreCounted DEF ResumesInv, ResumesTypes
<1>3. row \in ScreeningRow /\ row.step = "asking" /\ row.rules = rules
  BY <1>2 DEF ScreeningRow
<1> HIDE DEF row
<1>4. ResumesTypes'
  BY <1>1, <1>2, <1>3 DEF ResumesInv, ResumesTypes, Table
<1>5. OneLocked'
  BY <1>1, <1>3 DEF ResumesInv, OneLocked, Locked
<1>6. OthersFollow'
  BY <1>1, <1>2, <1>3 DEF ResumesInv, OthersFollow, UpToDate
<1> QED BY <1>4, <1>5, <1>6 DEF ResumesInv

LEMMA TaskBreaksInv ==
    ASSUME ResumesInv, NEW t \in DOMAIN screenings, TaskBreaks(t)
    PROVE  ResumesInv'
<1> DEFINE row == [step |-> "broken"]
<1>1. /\ screenings' = [screenings EXCEPT ![t] = row]
      /\ screenings[t].step \in {"locked", "asking"}
      /\ UNCHANGED <<rules, analysis, askers, asked, scoredBy, dropped>>
  BY DEF TaskBreaks, Step
<1>2. row \in ScreeningRow /\ row.step = "broken"
  BY DEF ScreeningRow
<1> HIDE DEF row
<1>3. ResumesTypes'
  BY <1>1, <1>2 DEF ResumesInv, ResumesTypes, Table
<1>4. OneLocked'
  BY <1>1, <1>2 DEF ResumesInv, OneLocked, Locked
<1>5. OthersFollow'
  BY <1>1, <1>2 DEF ResumesInv, OthersFollow, UpToDate
<1> QED BY <1>3, <1>4, <1>5 DEF ResumesInv

\* A task that ends without a result, or with one of the rules it follows.
LEMMA TaskEnded ==
    ASSUME ResumesInv, NEW t \in DOMAIN screenings, NEW status \in Status, EndTask(t, status),
           scoredBy' \in 0 .. MaxRules,
           status = "COMPLETED" =>
              screenings[t].step = "asking" /\ scoredBy' = screenings[t].rules.revision,
           screenings[t].step # "queued"
    PROVE  ResumesInv'
<1>1. /\ analysis' = status /\ DOMAIN screenings' = DOMAIN screenings \ {t}
      /\ \A u \in DOMAIN screenings' : screenings'[u] = screenings[u]
      /\ UNCHANGED <<rules, askers, asked, dropped>>
  BY DEF EndTask, Without
<1>2. ResumesTypes'
  BY <1>1 DEF ResumesInv, ResumesTypes, Table
<1>3. OneLocked'
  BY <1>1 DEF ResumesInv, OneLocked, Locked
<1>4. OthersFollow'
  <2>1. ASSUME NEW u \in DOMAIN screenings', ~UpToDate(u)'
        PROVE  \E v \in DOMAIN screenings' : screenings'[v].step = "queued"
    BY <1>1, <2>1 DEF ResumesInv, OthersFollow, UpToDate
  <2>2. ASSUME analysis' = "COMPLETED", scoredBy' < asked'
        PROVE  \E u \in DOMAIN screenings' : UpToDate(u)'
    <3>1. ~UpToDate(t)
      BY <1>1, <2>2 DEF UpToDate, ResumesInv, ResumesTypes
    <3>2. PICK u \in DOMAIN screenings : screenings[u].step = "queued"
      BY <3>1 DEF ResumesInv, OthersFollow
    <3> QED BY <1>1, <3>2 DEF UpToDate
  <2> QED BY <2>1, <2>2 DEF OthersFollow
<1> QED BY <1>2, <1>3, <1>4 DEF ResumesInv

\* A handler that asks for another analysis queues a task for it.
LEMMA TaskQueued ==
    ASSUME ResumesInv, NEW a \in DOMAIN askers, NEW t \in ScreeningTask \ DOMAIN screenings,
           CommitPending(a), Queue(t),
           rules' \in [there : BOOLEAN, revision : 0 .. MaxRules],
           rules.revision <= rules'.revision, asked' = rules'.revision,
           UNCHANGED <<scoredBy, dropped>>
    PROVE  ResumesInv'
<1> DEFINE row == [step |-> "queued"]
<1>1. screenings' = Upsert(screenings, t, row)
  BY DEF Queue
<1>2. row \in ScreeningRow /\ row.step = "queued"
  BY DEF ScreeningRow
<1> HIDE DEF row
<1>3. /\ DOMAIN screenings' = DOMAIN screenings \cup {t} /\ screenings'[t] = row
      /\ \A u \in DOMAIN screenings : screenings'[u] = screenings[u]
  BY <1>1 DEF Upsert
<1>4. /\ askers' = Without(askers, {a}) /\ analysis' \in Status
  BY DEF CommitPending, ResumesInv, ResumesTypes, Status
<1>5. Table(askers', Asker, Status)
  BY <1>4 DEF ResumesInv, ResumesTypes, Table, Without
<1>6. ResumesTypes'
  BY <1>2, <1>3, <1>4, <1>5 DEF ResumesInv, ResumesTypes
<1>7. OneLocked'
  BY <1>2, <1>3 DEF ResumesInv, OneLocked, Locked
<1>8. OthersFollow'
  BY <1>2, <1>3 DEF ResumesInv, OthersFollow, UpToDate
<1> QED BY <1>6, <1>7, <1>8 DEF ResumesInv

LEMMA ResumesStepInv ==
    ASSUME ResumesInv, ResumesNext
    PROVE  ResumesInv'
<1> USE DEF Status
<1>1. ASSUME NEW t \in DOMAIN screenings, NotReadable(t) PROVE ResumesInv'
  BY <1>1, TaskEnded DEF NotReadable, ResumesInv, ResumesTypes
<1>2. ASSUME NEW t \in DOMAIN screenings, NotScored(t) PROVE ResumesInv'
  BY <1>2, TaskEnded DEF NotScored, ResumesInv, ResumesTypes
<1>3. ASSUME NEW t \in DOMAIN screenings, Complete(t) PROVE ResumesInv'
  <2>1. screenings[t].rules.revision \in 0 .. MaxRules
    <3>1. /\ screenings[t].rules.revision \in 0 .. rules.revision
          /\ rules.revision \in 0 .. MaxRules
      BY <1>3 DEF Complete, ResumesInv, ResumesTypes
    <3> QED BY <3>1, RulesAreCounted
  <2> QED BY <1>3, <2>1, TaskEnded DEF Complete
<1>4. ASSUME NEW t \in DOMAIN screenings, MarkAnalysisFailed(t) PROVE ResumesInv'
  BY <1>4, TaskEnded DEF MarkAnalysisFailed, ResumesInv, ResumesTypes
<1>5. ASSUME rules.revision < MaxRules
      PROVE  /\ Recompiled \in [there : BOOLEAN, revision : 0 .. MaxRules]
             /\ Recompiled.revision = rules.revision + 1
  BY <1>5, RulesAreCounted DEF Recompiled, ResumesInv, ResumesTypes
<1>6. ASSUME RebuildRules PROVE ResumesInv'
  <2>1. /\ rules' \in [there : BOOLEAN, revision : 0 .. MaxRules]
        /\ rules'.revision = rules.revision + 1
    BY <1>5, <1>6 DEF RebuildRules
  <2> QED BY <1>6, <2>1 DEF RebuildRules, ResumesInv, ResumesTypes, OneLocked, Locked,
             OthersFollow, UpToDate
<1>7. ASSUME NEW a \in Asker, BeginAsking(a) PROVE ResumesInv'
  BY <1>7 DEF BeginAsking, Upsert, Table, ResumesInv, ResumesTypes, OneLocked, Locked,
     OthersFollow, UpToDate
<1>8. ASSUME NEW a \in DOMAIN askers, NEW t \in ScreeningTask, RetryAnalysis(a, t)
      PROVE  ResumesInv'
  <2>1. rules' = rules /\ rules.revision <= rules'.revision /\ asked' = rules'.revision
    BY <1>8 DEF RetryAnalysis, ResumesInv, ResumesTypes
  <2> QED BY <1>8, <2>1, TaskQueued DEF RetryAnalysis, ResumesInv, ResumesTypes
<1>9. ASSUME NEW a \in DOMAIN askers, NEW t \in ScreeningTask, ReEvaluate(a, t)
      PROVE  ResumesInv'
  <2>1. /\ rules' \in [there : BOOLEAN, revision : 0 .. MaxRules]
        /\ rules'.revision = rules.revision + 1 /\ asked' = rules'.revision
    BY <1>5, <1>9 DEF ReEvaluate
  <2>2. rules.revision <= rules'.revision
    BY <2>1 DEF ResumesInv, ResumesTypes
  <2> QED BY <1>9, <2>1, <2>2, TaskQueued DEF ReEvaluate
<1>10. ASSUME ServerRestarts PROVE ResumesInv'
  BY <1>10 DEF ServerRestarts, NoRecords, Table, ResumesInv, ResumesTypes, OneLocked, OthersFollow
<1> QED
  BY <1>1, <1>2, <1>3, <1>4, <1>6, <1>7, <1>8, <1>9, <1>10, CountAttemptInv, ReadRulesInv,
     TaskBreaksInv DEF ResumesNext

LEMMA ResumesInvHolds == ResumesSpec => []ResumesInv
<1>1. ASSUME ResumesInit PROVE ResumesInv
  <2>1. PICK t \in ScreeningTask : screenings = Upsert(NoRecords, t, [step |-> "queued"])
    BY <1>1 DEF ResumesInit
  <2>2. DOMAIN screenings = {t} /\ screenings[t] = [step |-> "queued"]
    BY <2>1 DEF Upsert, NoRecords
  <2>3. rules.revision = 0 /\ rules \in [there : BOOLEAN, revision : 0 .. MaxRules]
    BY <1>1, RulesAreCounted DEF ResumesInit
  <2>4. [step |-> "queued"] \in ScreeningRow
    BY DEF ScreeningRow
  <2>5. \A u \in DOMAIN screenings : screenings[u] \in ScreeningRow /\ screenings[u].step = "queued"
    BY <2>2, <2>4
  <2>6. Table(askers, Asker, Status)
    BY <1>1 DEF ResumesInit, Table, NoRecords
  <2>7. analysis = "PENDING" /\ asked = 0 /\ scoredBy = 0 /\ dropped = FALSE
    BY <1>1 DEF ResumesInit
  <2>8. ResumesTypes
    <3>1. DOMAIN screenings \subseteq ScreeningTask
      BY <2>1, <2>2
    <3>2. asked \in 0 .. rules.revision /\ scoredBy \in 0 .. MaxRules
      BY <2>3, <2>7, RulesAreCounted
    <3>5. dropped \in BOOLEAN
      BY <2>7, Zenon
    <3>3. analysis \in Status
      BY <2>7 DEF Status
    <3>4. \A u \in DOMAIN screenings : screenings[u].step # "asking"
      BY <2>5
    <3> QED BY <2>3, <2>5, <2>6, <3>1, <3>2, <3>3, <3>4, <3>5 DEF ResumesTypes
  <2>9. OneLocked /\ OthersFollow
    BY <2>2, <2>5, <2>7 DEF OneLocked, Locked, OthersFollow, UpToDate
  <2> QED BY <2>8, <2>9 DEF ResumesInv
<1>2. ResumesInv /\ UNCHANGED resumeVars => ResumesInv'
  BY DEF resumeVars, ResumesInv, ResumesTypes, OneLocked, Locked, OthersFollow, UpToDate
<1>3. ResumesInv /\ [ResumesNext]_resumeVars => ResumesInv'
  BY <1>2, ResumesStepInv
<1> QED BY <1>1, <1>3, PTL DEF ResumesSpec

\* Once no task is under way, and unless a restart dropped one, a complete
\* analysis follows the rules there were when it was last asked for, or later
\* ones, in whatever order tasks, retries and compilations of the rules met
\* (ai_scoring/service.py).
THEOREM ScoresFollow == ResumesSpec => []ScoredAsLastAsked
<1>1. ASSUME ResumesInv PROVE ScoredAsLastAsked
  BY <1>1 DEF ResumesInv, ResumesTypes, OthersFollow, ScoredAsLastAsked, NoRecords
<1> QED BY <1>1, ResumesInvHolds, PTL

-----------------------------------------------------------------------------
(* Interviews. *)

\* The participants of an event, and its row.
Panel == UNION {[D -> Approval] : D \in SUBSET Interviewer}

EventRow ==
    [status : EventStatus, timed : BOOLEAN, token : BOOLEAN, panel : Panel, slots : SUBSET Slot]

\* An interview under way or over has its time, and one that is over its link.
HeldOK(row) ==
    /\ row.status \in {"ONGOING", "COMPLETED"} => row.timed
    /\ row.status = "COMPLETED" => row.token

\* The slots are one proposal, behind a link that works.
SlotsOK(row) ==
    /\ \A s, t \in row.slots : s.by = t.by /\ s.whose = t.whose
    /\ \A s \in row.slots :
         /\ s.whose \in DOMAIN row.panel /\ row.token
         /\ s.selected => row.timed
    /\ row.status = "CANCELLED" => ~row.token

\* The only interviewer left, once accepted, has slots on offer until there is
\* a time.
WaitedOK(row) ==
    \A p \in Interviewer :
      Primaries(row) = {p} /\ row.panel[p] = "ACCEPTED" /\ ~row.timed /\ row.status # "CANCELLED" =>
        row.slots # {}

RowOK(row) == row \in EventRow /\ HeldOK(row) /\ SlotsOK(row) /\ WaitedOK(row)

InterviewInv ==
    /\ scene \in [open : BOOLEAN, completed : BOOLEAN, here : BOOLEAN]
    /\ \E n \in Nat : DOMAIN events = 1..n
    /\ \A e \in DOMAIN events : RowOK(events[e])

LEMMA PanelType ==
    ASSUME NEW f
    PROVE  f \in Panel <=> /\ f = [m \in DOMAIN f |-> f[m]]
                           /\ DOMAIN f \subseteq Interviewer
                           /\ \A m \in DOMAIN f : f[m] \in Approval
BY DEF Panel

LEMMA PanelUpserted ==
    ASSUME NEW f \in Panel, NEW m \in Interviewer, NEW a \in Approval
    PROVE  /\ Upsert(f, m, a) \in Panel
           /\ m \in DOMAIN Upsert(f, m, a) /\ Upsert(f, m, a)[m] = a
           /\ DOMAIN Upsert(f, m, a) = DOMAIN f \cup {m}
           /\ \A x \in DOMAIN f \ {m} : Upsert(f, m, a)[x] = f[x]
BY PanelType DEF Upsert

LEMMA PanelWithout ==
    ASSUME NEW f \in Panel, NEW ms
    PROVE  /\ Without(f, ms) \in Panel
           /\ DOMAIN Without(f, ms) = DOMAIN f \ ms
           /\ \A x \in DOMAIN f \ ms : Without(f, ms)[x] = f[x]
BY PanelType DEF Without

LEMMA PanelAlone ==
    ASSUME NEW m \in Interviewer, NEW a \in Approval
    PROVE  Alone(m, a) \in Panel /\ DOMAIN Alone(m, a) = {m} /\ Alone(m, a)[m] = a
BY PanelType DEF Alone, Upsert, NoRecords

\* A new event, with nobody, or with one interviewer who has not accepted.
LEMMA NewEventOK ==
    ASSUME NEW panel \in Panel, NEW timed \in BOOLEAN,
           \A m \in DOMAIN panel : panel[m] # "ACCEPTED"
    PROVE  RowOK(NewEvent(panel, timed))
BY DEF RowOK, EventRow, HeldOK, SlotsOK, WaitedOK, NewEvent, EventStatus, Primaries

\* The slots an interviewer or a candidate proposes.
LEMMA ProposalOK ==
    ASSUME NEW numbers \in (SUBSET SlotNumber) \ {{}}, NEW m \in Interviewer,
           NEW side \in {"INTERVIEWER", "CANDIDATE"}
    PROVE  LET slots == [number : numbers, by : {side}, whose : {m}, selected : {FALSE}]
           IN  /\ slots \subseteq Slot /\ slots # {}
               /\ \A s \in slots : s.by = side /\ s.whose = m /\ ~s.selected
<1>1. PICK n \in numbers : TRUE
  OBVIOUS
<1>2. [number |-> n, by |-> side, whose |-> m, selected |-> FALSE]
        \in [number : numbers, by : {side}, whose : {m}, selected : {FALSE}]
  OBVIOUS
<1> QED BY <1>2 DEF Slot

LEMMA AssignedOK ==
    ASSUME NEW old, RowOK(old), NEW m \in Interviewer, NEW timed \in BOOLEAN,
           NEW status \in {"SCHEDULED", "RESCHEDULED"}
    PROVE  RowOK([WithoutPeople(old, DOMAIN old.panel) EXCEPT
                    !.status = status, !.timed = timed, !.panel = Alone(m, "PENDING_ACCEPTANCE")])
<1> DEFINE bare == WithoutPeople(old, DOMAIN old.panel)
           alone == Alone(m, "PENDING_ACCEPTANCE")
           new == [bare EXCEPT !.status = status, !.timed = timed, !.panel = alone]
<1>1. bare \in EventRow /\ bare.slots = {}
  BY PanelWithout DEF RowOK, EventRow, SlotsOK, WithoutPeople
<1>2. alone \in Panel /\ DOMAIN alone = {m} /\ alone[m] = "PENDING_ACCEPTANCE"
  BY PanelAlone DEF Approval
<1>3. /\ new \in EventRow /\ new.status = status /\ new.timed = timed /\ new.panel = alone
      /\ new.slots = {}
  <2> HIDE DEF bare, alone
  <2> QED BY <1>1, <1>2 DEF EventRow, EventStatus
<1> QED BY <1>2, <1>3 DEF RowOK, HeldOK, SlotsOK, WaitedOK, Primaries

LEMMA ReshuffledOK ==
    ASSUME NEW old, RowOK(old), NEW m \in Interviewer
    PROVE  RowOK([old EXCEPT !.panel = [x \in DOMAIN @ |->
                    IF x = m THEN "PENDING_ACCEPTANCE" ELSE "REJECTED"]])
<1> DEFINE panel == [x \in DOMAIN old.panel |-> IF x = m THEN "PENDING_ACCEPTANCE" ELSE "REJECTED"]
           new == [old EXCEPT !.panel = panel]
<1>1. panel \in Panel /\ DOMAIN panel = DOMAIN old.panel /\ \A x \in DOMAIN panel : panel[x] # "ACCEPTED"
  BY PanelType DEF RowOK, EventRow, Approval
<1>2. /\ new \in EventRow /\ new.status = old.status /\ new.timed = old.timed /\ new.panel = panel
      /\ new.slots = old.slots /\ new.token = old.token
  <2> HIDE DEF panel
  <2> QED BY <1>1 DEF RowOK, EventRow
<1>3. RowOK(new)
  <2> HIDE DEF panel, new
  <2> QED BY <1>1, <1>2 DEF RowOK, HeldOK, SlotsOK, WaitedOK, Primaries
<1> QED BY <1>3

LEMMA MovedOK ==
    ASSUME NEW old, RowOK(old), NEW m \in Interviewer, NEW gone \in SUBSET Interviewer, m \notin gone
    PROVE  RowOK([WithoutPeople(old, gone) EXCEPT !.panel = Upsert(@, m, "PENDING_ACCEPTANCE")])
<1> DEFINE bare == WithoutPeople(old, gone)
           panel == Upsert(bare.panel, m, "PENDING_ACCEPTANCE")
           new == [bare EXCEPT !.panel = panel]
<1>1. /\ bare \in EventRow /\ bare.status = old.status /\ bare.timed = old.timed
      /\ bare.token = old.token /\ bare.slots = {s \in old.slots : s.whose \notin gone}
      /\ DOMAIN bare.panel = DOMAIN old.panel \ gone
  BY PanelWithout DEF RowOK, EventRow, WithoutPeople
<1>2. /\ panel \in Panel /\ DOMAIN panel = DOMAIN bare.panel \cup {m}
      /\ panel[m] = "PENDING_ACCEPTANCE"
  <2> HIDE DEF bare
  <2> QED BY <1>1, PanelUpserted DEF EventRow, Approval
<1>3. /\ new \in EventRow /\ new.status = old.status /\ new.timed = old.timed /\ new.panel = panel
      /\ new.token = old.token /\ new.slots = {s \in old.slots : s.whose \notin gone}
  <2> HIDE DEF bare, panel
  <2> QED BY <1>1, <1>2 DEF EventRow
<1>4. RowOK(new)
  <2> HIDE DEF bare, panel, new
  <2>1. HeldOK(new) /\ SlotsOK(new)
    BY <1>1, <1>2, <1>3 DEF RowOK, HeldOK, SlotsOK
  <2>2. m \in Primaries(new)
    BY <1>2, <1>3 DEF Primaries
  <2> QED BY <1>2, <1>3, <2>1, <2>2 DEF RowOK, WaitedOK
<1> QED BY <1>4

LEMMA AcceptedOK ==
    ASSUME NEW old, RowOK(old), NEW m \in Interviewer, NEW numbers \in (SUBSET SlotNumber) \ {{}}
    PROVE  RowOK([old EXCEPT
              !.status = "SCHEDULED", !.timed = FALSE, !.token = TRUE,
              !.panel = Upsert(@, m, "ACCEPTED"),
              !.slots = [number : numbers, by : {"INTERVIEWER"}, whose : {m}, selected : {FALSE}]])
<1> DEFINE slots == [number : numbers, by : {"INTERVIEWER"}, whose : {m}, selected : {FALSE}]
           panel == Upsert(old.panel, m, "ACCEPTED")
           new == [old EXCEPT !.status = "SCHEDULED", !.timed = FALSE, !.token = TRUE,
                              !.panel = panel, !.slots = slots]
<1>1. /\ slots \subseteq Slot /\ slots # {}
      /\ \A s \in slots : s.by = "INTERVIEWER" /\ s.whose = m /\ ~s.selected
  BY ProposalOK
<1>2. panel \in Panel /\ m \in DOMAIN panel
  <2>1. old.panel \in Panel /\ "ACCEPTED" \in Approval
    BY DEF RowOK, EventRow, Approval
  <2> QED BY <2>1, PanelUpserted
<1>3. /\ new \in EventRow /\ new.status = "SCHEDULED" /\ new.token /\ new.panel = panel
      /\ new.slots = slots
  <2> HIDE DEF slots, panel
  <2> QED BY <1>1, <1>2 DEF RowOK, EventRow, EventStatus
<1>4. RowOK(new)
  <2> HIDE DEF slots, panel, new
  <2> QED BY <1>1, <1>2, <1>3 DEF RowOK, HeldOK, SlotsOK, WaitedOK
<1> QED BY <1>4

LEMMA RefusedOK ==
    ASSUME NEW refused \in EventRow, ~refused.token, refused.slots = {}
    PROVE  /\ RowOK([refused EXCEPT !.status = "CANCELLED"])
           /\ \A substitute \in Interviewer :
                RowOK([refused EXCEPT !.panel = Upsert(@, substitute, "PENDING_ACCEPTANCE"),
                                      !.status = "RESCHEDULED"])
<1>1. ASSUME NEW new, new = [refused EXCEPT !.status = "CANCELLED"] PROVE RowOK(new)
  <2>1. new \in EventRow /\ new.status = "CANCELLED" /\ ~new.token /\ new.slots = {}
    BY <1>1 DEF EventRow, EventStatus
  <2> QED BY <2>1 DEF RowOK, HeldOK, SlotsOK, WaitedOK
<1>2. ASSUME NEW substitute \in Interviewer PROVE
        RowOK([refused EXCEPT !.panel = Upsert(@, substitute, "PENDING_ACCEPTANCE"),
                              !.status = "RESCHEDULED"])
  <2> DEFINE panel == Upsert(refused.panel, substitute, "PENDING_ACCEPTANCE")
             new == [refused EXCEPT !.panel = panel, !.status = "RESCHEDULED"]
  <2>1. panel \in Panel /\ substitute \in DOMAIN panel /\ panel[substitute] = "PENDING_ACCEPTANCE"
    <3>1. refused.panel \in Panel /\ "PENDING_ACCEPTANCE" \in Approval
      BY DEF EventRow, Approval
    <3>2. substitute \in Interviewer
      BY <1>2
    <3>3. panel[substitute] = "PENDING_ACCEPTANCE"
      BY DEF Upsert
    <3> QED BY <3>1, <3>2, <3>3, PanelUpserted
  <2>2. new \in EventRow /\ new.status = "RESCHEDULED" /\ new.panel = panel /\ new.slots = {}
    <3> HIDE DEF panel
    <3> QED BY <2>1 DEF EventRow, EventStatus
  <2>3. RowOK(new)
    <3> HIDE DEF panel, new
    <3>1. substitute \in Primaries(new)
      BY <2>1, <2>2 DEF Primaries
    <3> QED BY <2>1, <2>2, <3>1 DEF RowOK, HeldOK, SlotsOK, WaitedOK
  <2> QED BY <2>3
<1> QED BY <1>1, <1>2

LEMMA RejectedRow ==
    ASSUME NEW e \in DOMAIN events, RowOK(events[e]), NEW m \in Interviewer
    PROVE  Rejected(e, m) \in EventRow /\ ~Rejected(e, m).token /\ Rejected(e, m).slots = {}
<1> DEFINE panel == Upsert(events[e].panel, m, "REJECTED")
<1>1. panel \in Panel
  BY PanelUpserted DEF RowOK, EventRow, Approval
<1> HIDE DEF panel
<1> QED BY <1>1 DEF RowOK, EventRow, Rejected, panel

\* A meeting is made, held or ended: there is a time, and a link behind one
\* that is over.
LEMMA MeetingOK ==
    ASSUME NEW old, RowOK(old)
    PROVE  /\ RowOK([old EXCEPT !.status = "SCHEDULED", !.timed = TRUE])
           /\ RowOK([old EXCEPT !.status = "COMPLETED", !.token = TRUE]) \/ ~old.timed
           /\ RowOK([old EXCEPT !.status = "ONGOING"]) \/ ~old.timed
           /\ RowOK([old EXCEPT !.timed = TRUE])
<1>1. ASSUME NEW new, new \in EventRow, new.panel = old.panel, new.slots = old.slots, new.timed,
             new.token = old.token \/ new.token, new.status # "CANCELLED" \/ new.token = old.token,
             new.status = "CANCELLED" => old.status = "CANCELLED",
             new.status = "COMPLETED" => new.token
      PROVE  RowOK(new)
  BY <1>1 DEF RowOK, HeldOK, SlotsOK, WaitedOK
<1>2. RowOK([old EXCEPT !.status = "SCHEDULED", !.timed = TRUE])
  <2> DEFINE new == [old EXCEPT !.status = "SCHEDULED", !.timed = TRUE]
  <2>1. /\ new \in EventRow /\ new.panel = old.panel /\ new.slots = old.slots /\ new.timed
        /\ new.token = old.token /\ new.status = "SCHEDULED"
    BY DEF RowOK, EventRow, EventStatus
  <2> HIDE DEF new
  <2>2. RowOK(new)
    BY <1>1, <2>1
  <2> QED BY <2>2 DEF new
<1>3. ASSUME old.timed PROVE RowOK([old EXCEPT !.status = "COMPLETED", !.token = TRUE])
  <2> DEFINE new == [old EXCEPT !.status = "COMPLETED", !.token = TRUE]
  <2>1. /\ new \in EventRow /\ new.panel = old.panel /\ new.slots = old.slots /\ new.timed
        /\ new.token /\ new.status = "COMPLETED"
    BY <1>3 DEF RowOK, EventRow, EventStatus
  <2> HIDE DEF new
  <2>2. RowOK(new)
    BY <1>1, <2>1
  <2> QED BY <2>2 DEF new
<1>4. ASSUME old.timed PROVE RowOK([old EXCEPT !.status = "ONGOING"])
  <2> DEFINE new == [old EXCEPT !.status = "ONGOING"]
  <2>1. /\ new \in EventRow /\ new.panel = old.panel /\ new.slots = old.slots /\ new.timed
        /\ new.token = old.token /\ new.status = "ONGOING"
    BY <1>4 DEF RowOK, EventRow, EventStatus
  <2> HIDE DEF new
  <2>2. RowOK(new)
    BY <1>1, <2>1
  <2> QED BY <2>2 DEF new
<1>5. RowOK([old EXCEPT !.timed = TRUE])
  <2> DEFINE new == [old EXCEPT !.timed = TRUE]
  <2>1. /\ new \in EventRow /\ new.panel = old.panel /\ new.slots = old.slots /\ new.timed
        /\ new.token = old.token /\ new.status = old.status
    BY DEF RowOK, EventRow, EventStatus
  <2> HIDE DEF new
  <2>2. RowOK(new)
    BY <1>1, <2>1 DEF RowOK, HeldOK
  <2> QED BY <2>2 DEF new
<1> QED BY <1>2, <1>3, <1>4, <1>5

LEMMA ProposedOK ==
    ASSUME NEW old, RowOK(old), old.token, NEW p \in Primaries(old),
           NEW numbers \in (SUBSET SlotNumber) \ {{}}
    PROVE  RowOK([old EXCEPT
              !.status = "SCHEDULED",
              !.slots = [number : numbers, by : {"CANDIDATE"}, whose : {p}, selected : {FALSE}]])
<1> DEFINE slots == [number : numbers, by : {"CANDIDATE"}, whose : {p}, selected : {FALSE}]
           new == [old EXCEPT !.status = "SCHEDULED", !.slots = slots]
<1>1. p \in DOMAIN old.panel /\ p \in Interviewer
  BY PanelType DEF Primaries, RowOK, EventRow
<1>2. /\ slots \subseteq Slot /\ slots # {}
      /\ \A s \in slots : s.by = "CANDIDATE" /\ s.whose = p /\ ~s.selected
  BY ZenonT(40), <1>1, ProposalOK
<1>3. /\ new \in EventRow /\ new.status = "SCHEDULED" /\ new.token /\ new.panel = old.panel
      /\ new.slots = slots
  <2> HIDE DEF slots
  <2> QED BY <1>2 DEF RowOK, EventRow, EventStatus
<1>4. RowOK(new)
  <2> HIDE DEF slots, new
  <2> QED BY <1>1, <1>2, <1>3 DEF RowOK, HeldOK, SlotsOK, WaitedOK
<1> QED BY <1>4

LEMMA BookedOK ==
    ASSUME NEW old, RowOK(old), NEW s \in old.slots, NEW p \in Interviewer
    PROVE  RowOK([old EXCEPT
              !.status = "SCHEDULED", !.timed = TRUE,
              !.slots = (@ \ {s}) \cup {[s EXCEPT !.selected = TRUE]},
              !.panel = Upsert(@, p, "SCHEDULED")])
<1> DEFINE chosen == [s EXCEPT !.selected = TRUE]
           slots == (old.slots \ {s}) \cup {chosen}
           panel == Upsert(old.panel, p, "SCHEDULED")
           new == [old EXCEPT !.status = "SCHEDULED", !.timed = TRUE, !.slots = slots, !.panel = panel]
<1>1. s \in Slot
  BY DEF RowOK, EventRow
<1>2. chosen \in Slot /\ chosen.by = s.by /\ chosen.whose = s.whose
  BY <1>1 DEF Slot
<1>3. slots \subseteq Slot /\ \A t \in slots : t.by = s.by /\ t.whose = s.whose
  <2> HIDE DEF chosen
  <2> QED BY <1>2 DEF RowOK, EventRow, SlotsOK
<1>4. panel \in Panel /\ DOMAIN panel = DOMAIN old.panel \cup {p}
  <2>1. old.panel \in Panel /\ "SCHEDULED" \in Approval
    BY DEF RowOK, EventRow, Approval
  <2> QED BY <2>1, PanelUpserted
<1>5. /\ new \in EventRow /\ new.status = "SCHEDULED" /\ new.timed /\ new.panel = panel
      /\ new.slots = slots /\ new.token = old.token
  <2> HIDE DEF slots, panel
  <2> QED BY <1>3, <1>4 DEF RowOK, EventRow, EventStatus
<1>6. RowOK(new)
  <2>1. old.token /\ s.whose \in DOMAIN old.panel
    BY DEF RowOK, SlotsOK
  <2> HIDE DEF slots, panel, new
  <2> QED BY <1>3, <1>4, <1>5, <2>1 DEF RowOK, HeldOK, SlotsOK, WaitedOK
<1> QED BY <1>6

\* Events are numbered from one on.
LEMMA Numbered ==
    ASSUME InterviewInv
    PROVE  /\ Fresh \in Nat \ {0} /\ Fresh \notin DOMAIN events
           /\ ~NoEvent => LatestEvent \in DOMAIN events
           /\ \A e \in Nat : DOMAIN events \cup {e} = DOMAIN events \/ e # Fresh
                \/ \E n \in Nat : DOMAIN events \cup {e} = 1..n
<1>1. PICK n \in Nat : DOMAIN events = 1..n
  BY DEF InterviewInv
<1>2. CASE n = 0
  <2>1. DOMAIN events = {}
    BY <1>1, <1>2
  <2>2. events = NoRecords
    BY <2>1 DEF NoRecords
  <2>3. Fresh = 1
    BY <2>2 DEF Fresh, NoEvent
  <2> QED BY <2>1, <2>2, <2>3 DEF NoEvent
<1>3. CASE n # 0
  <2>1. IsFiniteSet(1..n) /\ 1..n # {} /\ 1..n \in SUBSET Int /\ n \in 1..n
    <3>1. IsFiniteSet(1..n)
      BY FS_Interval
    <3> QED BY <1>3, <3>1
  <2>2. Max(1..n) \in 1..n /\ n <= Max(1..n)
    BY <2>1, MaxIsGreatest
  <2>3. LatestEvent = n
    BY <1>1, <2>2 DEF LatestEvent
  <2>4. ~NoEvent
    BY <1>1, <2>1 DEF NoEvent, NoRecords
  <2>5. Fresh = n + 1
    BY <2>3, <2>4 DEF Fresh
  <2>6. 1..n \cup {n + 1} = 1..(n + 1)
    BY <1>1
  <2> QED BY <1>1, <2>1, <2>3, <2>5, <2>6
<1> QED BY <1>2, <1>3

LEMMA RowUpserted ==
    ASSUME NEW f, NEW k, NEW row, NEW x \in DOMAIN f \cup {k}
    PROVE  \/ Upsert(f, k, row)[x] = row
           \/ x \in DOMAIN f /\ Upsert(f, k, row)[x] = f[x]
BY DEF Upsert

LEMMA EventPut ==
    ASSUME InterviewInv, NEW e, e \in DOMAIN events \/ e = Fresh, NEW row, RowOK(row),
           PutEvent(e, row), scene' = scene
    PROVE  InterviewInv'
<1>1. events' = Upsert(events, e, row) /\ DOMAIN events' = DOMAIN events \cup {e}
  BY DEF PutEvent, Upsert
<1>2. \E n \in Nat : DOMAIN events' = 1..n
  <2>1. CASE e \in DOMAIN events
    BY <1>1, <2>1 DEF InterviewInv
  <2>2. CASE e = Fresh
    BY <1>1, <2>2, Numbered
  <2> QED BY <2>1, <2>2
<1>3. ASSUME NEW x \in DOMAIN events'
      PROVE  events'[x] = row \/ (x \in DOMAIN events /\ events'[x] = events[x])
  <2>1. x \in DOMAIN events \cup {e} /\ events'[x] = Upsert(events, e, row)[x]
    BY <1>1, <1>3
  <2> QED BY <2>1, RowUpserted
<1>4. \A x \in DOMAIN events' : RowOK(events'[x])
  BY <1>3 DEF InterviewInv
<1> QED BY <1>2, <1>4 DEF InterviewInv

LEMMA AssignInv ==
    ASSUME InterviewInv, NEW m \in Interviewer, NEW timed \in BOOLEAN,
           AssignStageInterviews(m, timed) \/ DistributeStageInterviews(m, timed)
    PROVE  InterviewInv'
<1>1. RowOK(NewEvent(Alone(m, "PENDING_ACCEPTANCE"), timed))
  <2> DEFINE alone == Alone(m, "PENDING_ACCEPTANCE")
  <2>1. "PENDING_ACCEPTANCE" \in Approval
    BY DEF Approval
  <2>2. alone \in Panel /\ DOMAIN alone = {m} /\ alone[m] = "PENDING_ACCEPTANCE"
    BY <2>1, PanelAlone
  <2> HIDE DEF alone
  <2>3. \A x \in DOMAIN alone : alone[x] # "ACCEPTED"
    BY <2>2
  <2>4. RowOK(NewEvent(alone, timed))
    BY <2>2, <2>3, NewEventOK
  <2> QED BY <2>4 DEF alone
<1>2. CASE AddEvent(NewEvent(Alone(m, "PENDING_ACCEPTANCE"), timed)) /\ UNCHANGED scene
  BY <1>1, <1>2, EventPut DEF AddEvent
<1>3. CASE ~NoEvent /\ AssignStageInterviews(m, timed)
  <2> DEFINE old == events[LatestEvent]
  <2>1. LatestEvent \in DOMAIN events /\ RowOK(old)
    BY <1>3, Numbered DEF InterviewInv
  <2>2. PICK status \in {"SCHEDULED", "RESCHEDULED"} :
          PutEvent(LatestEvent, [WithoutPeople(old, DOMAIN old.panel) EXCEPT
            !.status = status, !.timed = timed, !.panel = Alone(m, "PENDING_ACCEPTANCE")])
    BY <1>3 DEF AssignStageInterviews
  <2>3. scene' = scene
    BY <1>3 DEF AssignStageInterviews
  <2>4. RowOK([WithoutPeople(old, DOMAIN old.panel) EXCEPT
                 !.status = status, !.timed = timed, !.panel = Alone(m, "PENDING_ACCEPTANCE")])
    BY <2>1, AssignedOK
  <2> QED BY <2>1, <2>2, <2>3, <2>4, EventPut
<1> QED BY <1>2, <1>3 DEF AssignStageInterviews, DistributeStageInterviews

LEMMA PanelChangeInv ==
    ASSUME InterviewInv, NEW e \in DOMAIN events, NEW m \in Interviewer,
           ReshuffleInterviewAssignment(e, m) \/ MoveInterviewAssignment(e, m)
    PROVE  InterviewInv'
<1> DEFINE old == events[e]
<1>1. RowOK(old)
  BY DEF InterviewInv
<1>2. CASE ReshuffleInterviewAssignment(e, m)
  <2>1. RowOK([old EXCEPT !.panel = [x \in DOMAIN @ |->
                 IF x = m THEN "PENDING_ACCEPTANCE" ELSE "REJECTED"]])
    BY <1>1, ReshuffledOK
  <2> QED BY <1>2, <2>1, EventPut DEF ReshuffleInterviewAssignment
<1>3. CASE MoveInterviewAssignment(e, m)
  <2>1. DOMAIN old.panel \subseteq Interviewer
    BY <1>1, PanelType DEF RowOK, EventRow
  <2>2. PICK gone \in SUBSET Interviewer : m \notin gone /\
          PutEvent(e, [WithoutPeople(old, gone) EXCEPT !.panel = Upsert(@, m, "PENDING_ACCEPTANCE")])
    BY <1>3, <2>1 DEF MoveInterviewAssignment
  <2>3. RowOK([WithoutPeople(old, gone) EXCEPT !.panel = Upsert(@, m, "PENDING_ACCEPTANCE")])
    BY <1>1, <2>2, MovedOK
  <2>4. scene' = scene
    BY <1>3 DEF MoveInterviewAssignment
  <2> QED BY <2>2, <2>3, <2>4, EventPut
<1> QED BY <1>2, <1>3

LEMMA AnswerInv ==
    ASSUME InterviewInv, NEW e \in DOMAIN events, NEW m \in Interviewer,
           \/ \E numbers \in (SUBSET SlotNumber) \ {{}} : AcceptInterview(e, m, numbers)
           \/ \E substitute \in Optional(Interviewer) : RejectInterview(e, m, substitute)
    PROVE  InterviewInv'
<1> DEFINE old == events[e]
<1>1. RowOK(old)
  BY DEF InterviewInv
<1>2. ASSUME NEW numbers \in (SUBSET SlotNumber) \ {{}}, AcceptInterview(e, m, numbers)
      PROVE  InterviewInv'
  <2>1. RowOK([old EXCEPT
              !.status = "SCHEDULED", !.timed = FALSE, !.token = TRUE,
              !.panel = Upsert(@, m, "ACCEPTED"),
              !.slots = [number : numbers, by : {"INTERVIEWER"}, whose : {m}, selected : {FALSE}]])
    BY <1>1, <1>2, AcceptedOK
  <2> QED BY <1>2, <2>1, EventPut DEF AcceptInterview
<1>3. ASSUME NEW substitute \in Optional(Interviewer), RejectInterview(e, m, substitute)
      PROVE  InterviewInv'
  <2>1. Rejected(e, m) \in EventRow /\ ~Rejected(e, m).token /\ Rejected(e, m).slots = {}
    BY <1>1, RejectedRow
  <2>2. RowOK([Rejected(e, m) EXCEPT !.status = "CANCELLED"])
    BY <2>1, RefusedOK
  <2>3. ASSUME substitute # "null"
        PROVE  RowOK([Rejected(e, m) EXCEPT !.panel = Upsert(@, substitute, "PENDING_ACCEPTANCE"),
                                            !.status = "RESCHEDULED"])
    BY <1>3, <2>1, <2>3, RefusedOK DEF Optional
  <2> QED BY <1>3, <2>2, <2>3, EventPut DEF RejectInterview
<1> QED BY <1>2, <1>3

LEMMA MeetingInv ==
    ASSUME InterviewInv, NEW who \in Optional(Interviewer),
           \/ CreateInterviewMeeting(who) \/ UpdateInterviewMeeting(who)
           \/ \E e \in DOMAIN events : StartInterviewMeeting(e, who) \/ CompleteInterviewMeeting(e, who)
    PROVE  InterviewInv'
<1>1. \A e \in DOMAIN events : RowOK(events[e])
  BY DEF InterviewInv
<1>2. CASE CreateInterviewMeeting(who)
  <2>1. CASE AddEvent(NewEvent(IF who = "null" THEN NoRecords ELSE Alone(who, "SCHEDULED"), TRUE))
    <3> DEFINE panel == IF who = "null" THEN NoRecords ELSE Alone(who, "SCHEDULED")
    <3>1. panel \in Panel /\ \A m \in DOMAIN panel : panel[m] # "ACCEPTED"
      <4>1. CASE who = "null"
        BY <4>1, PanelType DEF NoRecords
      <4>2. CASE who # "null"
        <5> DEFINE alone == Alone(who, "SCHEDULED")
        <5>1. "SCHEDULED" \in Approval /\ who \in Interviewer
          BY <4>2 DEF Approval, Optional
        <5>2. alone \in Panel /\ DOMAIN alone = {who} /\ alone[who] = "SCHEDULED"
          BY <5>1, PanelAlone
        <5>3. panel = alone
          BY <4>2
        <5> HIDE DEF alone, panel
        <5> QED BY <5>2, <5>3
      <4> QED BY <4>1, <4>2
    <3>2. RowOK(NewEvent(panel, TRUE))
      <4> HIDE DEF panel
      <4> QED BY <3>1, NewEventOK
    <3> QED BY <1>2, <2>1, <3>2, EventPut DEF CreateInterviewMeeting, AddEvent
  <2>2. CASE ~NoEvent /\ PutEvent(LatestEvent, [events[LatestEvent] EXCEPT
                                 !.status = "SCHEDULED", !.timed = TRUE])
    <3>1. LatestEvent \in DOMAIN events
      BY <2>2, Numbered
    <3>2. RowOK([events[LatestEvent] EXCEPT !.status = "SCHEDULED", !.timed = TRUE])
      BY <1>1, <3>1, MeetingOK
    <3> QED BY <1>2, <2>2, <3>1, <3>2, EventPut DEF CreateInterviewMeeting
  <2> QED BY <1>2, <2>1, <2>2 DEF CreateInterviewMeeting
<1>3. CASE UpdateInterviewMeeting(who)
  <2>1. LatestEvent \in DOMAIN events
    BY <1>3, Numbered DEF UpdateInterviewMeeting
  <2>2. RowOK([events[LatestEvent] EXCEPT !.timed = TRUE])
    BY <1>1, <2>1, MeetingOK
  <2> QED BY <1>3, <2>1, <2>2, EventPut DEF UpdateInterviewMeeting
<1>4. ASSUME NEW e \in DOMAIN events, StartInterviewMeeting(e, who) PROVE InterviewInv'
  <2>1. RowOK([events[e] EXCEPT !.status = "ONGOING"])
    BY <1>1, <1>4, MeetingOK DEF StartInterviewMeeting
  <2> QED BY <1>4, <2>1, EventPut DEF StartInterviewMeeting
<1>5. ASSUME NEW e \in DOMAIN events, CompleteInterviewMeeting(e, who) PROVE InterviewInv'
  <2>1. RowOK([events[e] EXCEPT !.status = "COMPLETED", !.token = TRUE])
    BY <1>1, <1>5, MeetingOK DEF CompleteInterviewMeeting
  <2> QED BY <1>5, <2>1, EventPut DEF CompleteInterviewMeeting
<1> QED BY <1>2, <1>3, <1>4, <1>5

LEMMA LinkInv ==
    ASSUME InterviewInv, NEW e \in DOMAIN events,
           \/ \E numbers \in (SUBSET SlotNumber) \ {{}} : ProposeCandidateSlots(e, numbers)
           \/ \E s \in events[e].slots :
                \/ \E p \in Interviewer : BookCandidateProposedSlot(e, p, s)
                \/ SelectCandidateSlot(e, s)
    PROVE  InterviewInv'
<1> DEFINE old == events[e]
<1>1. RowOK(old)
  BY DEF InterviewInv
<1>2. ASSUME NEW numbers \in (SUBSET SlotNumber) \ {{}}, ProposeCandidateSlots(e, numbers)
      PROVE  InterviewInv'
  <2>1. PICK p \in Primaries(old) : PutEvent(e, [old EXCEPT
          !.status = "SCHEDULED",
          !.slots = [number : numbers, by : {"CANDIDATE"}, whose : {p}, selected : {FALSE}]])
    BY <1>2 DEF ProposeCandidateSlots
  <2>2. RowOK([old EXCEPT
          !.status = "SCHEDULED",
          !.slots = [number : numbers, by : {"CANDIDATE"}, whose : {p}, selected : {FALSE}]])
    BY <1>1, <1>2, ProposedOK DEF ProposeCandidateSlots
  <2>3. scene' = scene
    BY <1>2 DEF ProposeCandidateSlots
  <2> QED BY <2>1, <2>2, <2>3, EventPut
<1>3. ASSUME NEW s \in old.slots, NEW p \in Interviewer, Book(e, p, s) PROVE InterviewInv'
  <2>1. RowOK([old EXCEPT
          !.status = "SCHEDULED", !.timed = TRUE,
          !.slots = (@ \ {s}) \cup {[s EXCEPT !.selected = TRUE]},
          !.panel = Upsert(@, p, "SCHEDULED")])
    BY <1>1, <1>3, BookedOK
  <2> QED BY <1>3, <2>1, EventPut DEF Book
<1>4. \A s \in old.slots : s.whose \in Interviewer
  BY <1>1 DEF RowOK, EventRow, Slot
<1> QED BY <1>2, <1>3, <1>4 DEF BookCandidateProposedSlot, SelectCandidateSlot

LEMMA InterviewStepInv ==
    ASSUME InterviewInv, InterviewNext
    PROVE  InterviewInv'
<1>1. CASE \E m \in Interviewer :
         \/ \E timed \in BOOLEAN : AssignStageInterviews(m, timed)
         \/ \E timed \in BOOLEAN : DistributeStageInterviews(m, timed)
  BY <1>1, AssignInv
<1>2. CASE \E e \in DOMAIN events : \E m \in Interviewer :
         \/ ReshuffleInterviewAssignment(e, m) \/ MoveInterviewAssignment(e, m)
         \/ \E numbers \in (SUBSET SlotNumber) \ {{}} : AcceptInterview(e, m, numbers)
         \/ \E substitute \in Optional(Interviewer) : RejectInterview(e, m, substitute)
  BY <1>2, PanelChangeInv, AnswerInv
<1>3. CASE \E who \in Optional(Interviewer) :
         \/ CreateInterviewMeeting(who) \/ UpdateInterviewMeeting(who)
         \/ \E e \in DOMAIN events : StartInterviewMeeting(e, who) \/ CompleteInterviewMeeting(e, who)
  BY <1>3, MeetingInv
<1>4. CASE \E e \in DOMAIN events :
         \/ \E numbers \in (SUBSET SlotNumber) \ {{}} : ProposeCandidateSlots(e, numbers)
         \/ \E s \in events[e].slots :
              \/ \E p \in Interviewer : BookCandidateProposedSlot(e, p, s)
              \/ SelectCandidateSlot(e, s)
  BY <1>4, LinkInv
<1>5. CASE CompleteStage \/ ReopenStage \/ UpdateJobPostingStatus \/ MoveApplicationStage
  <2>1. scene' \in [open : BOOLEAN, completed : BOOLEAN, here : BOOLEAN] /\ events' = events
    BY <1>5 DEF InterviewInv, CompleteStage, ReopenStage, UpdateJobPostingStatus, MoveApplicationStage
  <2> QED BY <2>1 DEF InterviewInv
<1> QED BY <1>1, <1>2, <1>3, <1>4, <1>5 DEF InterviewNext

LEMMA InterviewInvHolds == InterviewSpec => []InterviewInv
<1>1. InterviewInit => InterviewInv
  <2> SUFFICES ASSUME InterviewInit PROVE InterviewInv
    OBVIOUS
  <2>1. DOMAIN events = {} /\ {} = 1..0
    BY DEF InterviewInit, NoRecords
  <2> QED BY <2>1 DEF InterviewInv, InterviewInit
<1>2. InterviewInv /\ UNCHANGED interviewVars => InterviewInv'
  BY DEF InterviewInv, interviewVars
<1>3. InterviewInv /\ [InterviewNext]_interviewVars => InterviewInv'
  BY <1>2, InterviewStepInv
<1> QED BY <1>1, <1>3, PTL DEF InterviewSpec

\* How an interviewer is shown who has not refused.
LEMMA ShownAs ==
    ASSUME NEW row, RowOK(row), NEW p \in Primaries(row), NEW begun \in BOOLEAN
    PROVE  LET shown == DisplayStatus(row, p, begun)
           IN  /\ shown = "CANDIDATE_PENDING" =>
                     /\ ~row.timed /\ row.status # "CANCELLED"
                     /\ OfferedBy("INTERVIEWER", row) \/ row.panel[p] = "ACCEPTED"
                     /\ ~OfferedBy("CANDIDATE", row)
               /\ shown = "PENDING_INTERVIEWER" => OfferedBy("CANDIDATE", row)
               /\ shown \in {"SCHEDULED", "ONGOING", "COMPLETED"} =>
                     row.timed \/ ~OfferedBy("INTERVIEWER", row)
               /\ row.status \in {"ONGOING", "COMPLETED"} =>
                     shown \in {"ONGOING", "COMPLETED", "CLOSED"}
<1>1. /\ p \in Interviewer /\ row.panel[p] \in Approval /\ row.panel[p] # "REJECTED"
      /\ row.timed \in BOOLEAN /\ HeldOK(row)
  BY PanelType DEF Primaries, RowOK, EventRow
<1>2. ApprovalOf(row, p) = row.panel[p]
  BY <1>1, InterviewersAreThere DEF ApprovalOf
<1>3. ComputedStatus(row, begun) \in {"COMPLETED", "ONGOING", "CANCELLED", "RESCHEDULED", "PENDING"}
  BY DEF ComputedStatus
<1>4. ComputedStatus(row, begun) = "ONGOING" => row.status = "ONGOING" \/ row.timed
  BY DEF ComputedStatus
<1>5. ComputedStatus(row, begun) = "COMPLETED" => row.status = "COMPLETED"
  BY DEF ComputedStatus
<1> DEFINE shown == DisplayStatus(row, p, begun)
<1>6. row.status \in {"ONGOING", "COMPLETED"} => shown \in {"ONGOING", "COMPLETED", "CLOSED"}
  BY <1>1, <1>2 DEF DisplayStatus
<1>7. shown = "PENDING_INTERVIEWER" => OfferedBy("CANDIDATE", row)
  BY <1>1, <1>2, <1>3 DEF DisplayStatus, EventStatus, RowOK, EventRow
<1>8. shown \in {"SCHEDULED", "ONGOING", "COMPLETED"} => row.timed \/ ~OfferedBy("INTERVIEWER", row)
  BY <1>1, <1>2, <1>3 DEF DisplayStatus, HeldOK
<1>9. shown = "CANDIDATE_PENDING" =>
        /\ ~row.timed /\ row.status # "CANCELLED"
        /\ OfferedBy("INTERVIEWER", row) \/ row.panel[p] = "ACCEPTED"
        /\ ~OfferedBy("CANDIDATE", row)
  BY <1>1, <1>2, <1>3 DEF DisplayStatus, HeldOK
<1> QED BY <1>6, <1>7, <1>8, <1>9

LEMMA RefusedIsShown ==
    ASSUME NEW row, RowOK(row), NEW p \in DOMAIN row.panel \ Primaries(row), NEW begun \in BOOLEAN
    PROVE  DisplayStatus(row, p, begun) = "REJECTED"
<1>1. p \in Interviewer /\ row.panel[p] = "REJECTED"
  BY PanelType DEF Primaries, RowOK, EventRow
<1>2. ApprovalOf(row, p) = "REJECTED"
  BY <1>1, InterviewersAreThere DEF ApprovalOf
<1> QED BY <1>2 DEF DisplayStatus

LEMMA NewestIsThere ==
    ASSUME InterviewInv, NEW S \in SUBSET DOMAIN events, S # {}
    PROVE  Max(S) \in S
<1>1. PICK n \in Nat : DOMAIN events = 1..n
  BY DEF InterviewInv
<1>2. IsFiniteSet(1..n) /\ S \subseteq 1..n
  BY <1>1, FS_Interval
<1>3. IsFiniteSet(S) /\ S \in SUBSET Int
  BY <1>2, FS_Subset
<1> QED BY <1>3, MaxIsGreatest

LEMMA EventPagesAgree ==
    ASSUME InterviewInv, NEW begun \in BOOLEAN, NEW e \in DOMAIN events, NEW p \in DOMAIN events[e].panel
    PROVE  LET shown == DisplayStatus(events[e], p, begun)
           IN  /\ shown = "CANDIDATE_PENDING" /\ Primaries(events[e]) = {p} =>
                    events[e].token /\ OpenSlots(e) # {}
               /\ shown = "PENDING_INTERVIEWER" =>
                    \E s \in ActiveSlots(events[e]) : s.by = "CANDIDATE" /\ Primaries(events[e]) # {}
               /\ shown \in {"SCHEDULED", "ONGOING", "COMPLETED"} => OpenSlots(e) = {}
<1> DEFINE row == events[e]
           shown == DisplayStatus(row, p, begun)
<1>1. RowOK(row) /\ row.slots \subseteq Slot
  BY DEF InterviewInv, RowOK, EventRow
<1>2. CASE p \notin Primaries(row)
  <2>1. shown = "REJECTED"
    BY <1>1, <1>2, RefusedIsShown
  <2> QED BY <2>1
<1>3. CASE p \in Primaries(row)
  <2>1. /\ shown = "CANDIDATE_PENDING" =>
              /\ ~row.timed /\ row.status # "CANCELLED"
              /\ OfferedBy("INTERVIEWER", row) \/ row.panel[p] = "ACCEPTED"
              /\ ~OfferedBy("CANDIDATE", row)
        /\ shown = "PENDING_INTERVIEWER" => OfferedBy("CANDIDATE", row)
        /\ shown \in {"SCHEDULED", "ONGOING", "COMPLETED"} =>
              row.timed \/ ~OfferedBy("INTERVIEWER", row)
    BY <1>1, <1>3, ShownAs
  <2> HIDE DEF shown
  <2>2. shown \in {"SCHEDULED", "ONGOING", "COMPLETED"} => OpenSlots(e) = {}
    BY <2>1 DEF OpenSlots, OfferedBy
  <2>3. ASSUME shown = "CANDIDATE_PENDING", Primaries(row) = {p}
        PROVE  row.token /\ OpenSlots(e) # {}
    <3>1. \E s \in row.slots : TRUE
      <4>1. CASE OfferedBy("INTERVIEWER", row)
        BY <4>1 DEF OfferedBy, ActiveSlots
      <4>2. CASE row.panel[p] = "ACCEPTED"
        <5>1. p \in Interviewer
          BY <1>1, PanelType DEF RowOK, EventRow
        <5> QED BY <1>1, <2>1, <2>3, <4>2, <5>1 DEF RowOK, WaitedOK
      <4> QED BY <2>1, <2>3, <4>1, <4>2
    <3>2. PICK s \in row.slots : TRUE
      BY <3>1
    <3>3. row.token /\ s \in ActiveSlots(row)
      BY <1>1, <2>1, <2>3 DEF RowOK, SlotsOK, ActiveSlots
    <3>4. s.by = "INTERVIEWER"
      BY <1>1, <2>1, <2>3, <3>3 DEF OfferedBy, Slot
    <3> QED BY <2>1, <2>3, <3>3, <3>4 DEF OpenSlots
  <2>4. shown = "PENDING_INTERVIEWER" =>
          \E s \in ActiveSlots(row) : s.by = "CANDIDATE" /\ Primaries(row) # {}
    BY <1>3, <2>1 DEF OfferedBy
  <2> QED BY <2>2, <2>3, <2>4 DEF shown
<1> QED BY <1>2, <1>3

LEMMA WorkspaceAgrees ==
    ASSUME InterviewInv, NEW begun \in BOOLEAN, NEW a \in WorkspaceAssignments(begun)
    PROVE  /\ a.interviewer # "null" => a \in MyInterviews(a.interviewer, begun)
           /\ a.status \in StageStatus(begun)
           /\ a.status \notin {"ONGOING", "COMPLETED", "CLOSED"} => a.event \in BusyWith(a.interviewer)
<1>1. Assignments # {}
  BY DEF WorkspaceAssignments
<1> DEFINE e == Max(Assignments)
<1>2. e \in Assignments
  BY <1>1, NewestIsThere DEF Assignments
<1>3. /\ e \in DOMAIN events /\ RowOK(events[e]) /\ events[e].status # "CANCELLED"
      /\ Primaries(events[e]) # {}
  BY <1>2 DEF Assignments, InterviewInv
<1>4. PICK p \in Primaries(events[e]) : a = Assignment(e, p, begun)
  BY <1>1, <1>3 DEF WorkspaceAssignments, Shown
<1>5. /\ a.event = e /\ a.interviewer = p /\ a.status = DisplayStatus(events[e], p, begun)
      /\ p \in DOMAIN events[e].panel
  BY <1>4 DEF Assignment, Primaries
<1>6. a \in MyInterviews(a.interviewer, begun)
  BY <1>3, <1>4, <1>5 DEF MyInterviews
<1>7. a.status \in StageStatus(begun)
  BY <1>1, <1>3, <1>5 DEF StageStatus, Shown
<1>8. ASSUME a.status \notin {"ONGOING", "COMPLETED", "CLOSED"}
      PROVE  a.event \in BusyWith(a.interviewer)
  <2>1. events[e].status \notin {"ONGOING", "COMPLETED"}
    BY <1>3, <1>5, <1>8, ShownAs
  <2>2. events[e].status \in {"SCHEDULED", "RESCHEDULED"}
    BY <1>3, <2>1 DEF RowOK, EventRow, EventStatus
  <2> QED BY <1>3, <1>5, <2>2 DEF BusyWith
<1> QED BY <1>6, <1>7, <1>8

\* Who held an interview is known, the slots on offer are one proposal, and the
\* pages of recruiters, interviewers and candidates agree, whatever was assigned,
\* moved, accepted, refused, booked or taken back (candidates/service.py).
THEOREM InterviewsHold ==
    InterviewSpec => [](HeldInterviewsAreKnown /\ SlotsAreOneProposal /\ PagesAgree)
<1> SUFFICES ASSUME InterviewInv
             PROVE  HeldInterviewsAreKnown /\ SlotsAreOneProposal /\ PagesAgree
  BY InterviewInvHolds, PTL
<1>1. HeldInterviewsAreKnown /\ SlotsAreOneProposal
  BY DEF InterviewInv, RowOK, HeldOK, SlotsOK, HeldInterviewsAreKnown, SlotsAreOneProposal
<1>2. ASSUME NEW begun \in BOOLEAN PROVE ApplicationMeeting(begun) \subseteq History(begun)
  <2>1. Planned # {} => Max(Planned) \in Planned
    BY NewestIsThere DEF Planned
  <2> QED BY <2>1 DEF ApplicationMeeting, History, Planned
<1>3. PagesAgree
  BY <1>2, EventPagesAgree, WorkspaceAgrees DEF PagesAgree
<1> QED BY <1>1, <1>3

-----------------------------------------------------------------------------
(* Recruitment as a whole: each component goes its own way. *)

LEMMA JobsGoOn == Spec => JobsSpec
<1>1. Init => JobsInit
  BY DEF Init
<1>2. [Next]_recruitmentVars => [JobsNext]_jobsVars
  BY DEF Next, recruitmentVars
<1> QED BY <1>1, <1>2, PTL DEF Spec, JobsSpec

LEMMA OnboardingGoesOn == Spec => OnboardingSpec
<1>1. Init => OnboardingInit
  BY DEF Init
<1>2. [Next]_recruitmentVars => [OnboardingNext]_onboardingVars
  BY DEF Next, recruitmentVars
<1> QED BY <1>1, <1>2, PTL DEF Spec, OnboardingSpec

LEMMA DocumentsGoOn == Spec => DocumentsSpec
<1>1. Init => DocumentsInit
  BY DEF Init
<1>2. [Next]_recruitmentVars => [DocumentsNext]_documentsVars
  BY DEF Next, recruitmentVars
<1> QED BY <1>1, <1>2, PTL DEF Spec, DocumentsSpec

LEMMA ResumesGoOn == Spec => ResumesSpec
<1>1. Init => ResumesInit
  BY DEF Init
<1>2. [Next]_recruitmentVars => [ResumesNext]_resumeVars
  BY DEF Next, recruitmentVars
<1> QED BY <1>1, <1>2, PTL DEF Spec, ResumesSpec

LEMMA InterviewsGoOn == Spec => InterviewSpec
<1>1. Init => InterviewInit
  BY DEF Init
<1>2. [Next]_recruitmentVars => [InterviewNext]_interviewVars
  BY DEF Next, recruitmentVars
<1> QED BY <1>1, <1>2, PTL DEF Spec, InterviewSpec

\* Every component keeps its types in recruitment as a whole (the tables of
\* jobs, candidates, onboarding, document collection and screenings).
THEOREM RecruitmentTypeCorrect == Spec => []TypeOK
<1>1. ASSUME JobsInv, DocumentsInv, ResumesInv, InterviewInv
      PROVE  JobsTypeOK /\ DocumentsTypeOK /\ ResumesTypeOK /\ InterviewTypeOK
  <2>1. JobsTypeOK /\ DocumentsTypeOK
    BY <1>1, DocumentsTyped DEF JobsInv
  <2>2. ResumesTypeOK
    <3> DEFINE holders == {t \in DOMAIN screenings : screenings[t].step \in {"locked", "asking"}}
    <3>1. \A t, u \in holders : t = u
      BY <1>1 DEF ResumesInv, OneLocked, Locked
    <3>2. Cardinality(holders) <= 1
      <4> HIDE DEF holders
      <4>1. CASE holders = {}
        BY <4>1, FS_EmptySet
      <4>2. CASE holders # {}
        <5>1. PICK t \in holders : holders = {t}
          BY <3>1, <4>2
        <5> QED BY <5>1, FS_Singleton
      <4> QED BY <4>1, <4>2
    <3>3. asked \in 0..MaxRules
      BY <1>1, RulesAreCounted DEF ResumesInv, ResumesTypes
    <3>4. \A t \in DOMAIN screenings : screenings[t].step \in {"queued", "locked", "asking", "broken"}
      BY <1>1 DEF ResumesInv, ResumesTypes, ScreeningRow
    <3> HIDE DEF holders
    <3>5. Table(askers, Asker, Status)
      BY <1>1 DEF ResumesInv, ResumesTypes
    <3> QED BY <1>1, <3>2, <3>3, <3>4, <3>5 DEF ResumesInv, ResumesTypes, ResumesTypeOK, holders
  <2>3. InterviewTypeOK
    <3>1. PICK n \in Nat : DOMAIN events = 1..n
      BY <1>1 DEF InterviewInv
    <3>2. Cardinality(1..n) = n
      BY FS_Interval
    <3>3. \A e \in DOMAIN events : IsEvent(events[e])
      BY <1>1, PanelType DEF InterviewInv, RowOK, EventRow, IsEvent, Table
    <3> QED BY <1>1, <3>1, <3>2, <3>3 DEF InterviewInv, InterviewTypeOK
  <2> QED BY <2>1, <2>2, <2>3
<1> QED
  BY <1>1, JobsGoOn, OnboardingGoesOn, DocumentsGoOn, ResumesGoOn, InterviewsGoOn, JobsInvHolds,
     OnboardingTypeCorrect, DocumentsInvHolds, ResumesInvHolds, InterviewInvHolds, PTL DEF TypeOK

\* What a posting stands for stays: all its approvers published it, and once
\* closed nobody is moved in it (Jobs, Pipeline).
THEOREM PostingsStay == Spec => PostingsStand
BY JobsGoOn, OnboardingGoesOn, PostingIsUnanimous, ClosedStaysFrozen, PTL DEF PostingsStand

\* What a candidate handed in stays (Onboarding, Documents).
THEOREM HandedInStays == Spec => HandedInIsKept
BY OnboardingGoesOn, DocumentsGoOn, SubmittedStays, AnswersStay, PTL DEF HandedInIsKept

\* What the pages tell of requisitions and of onboarding is so (Jobs, Onboarding).
THEOREM BoardsTell == Spec => []BoardsAgree
BY JobsGoOn, OnboardingGoesOn, RequisitionsAreTold, OnboardingIsTold, PTL DEF BoardsAgree

\* Interviews hold what they promise in recruitment as a whole (Interviews).
THEOREM InterviewsStaySound == Spec => []InterviewsAreSound
BY InterviewsGoOn, InterviewsHold, PTL DEF InterviewsAreSound

-----------------------------------------------------------------------------
(* Scores. *)

LEMMA LesserOfTwo ==
    ASSUME NEW x \in Int, NEW y \in Int
    PROVE  Min({x, y}) = IF x <= y THEN x ELSE y
<1> DEFINE S == {x, y}
<1>1. S \in SUBSET Int /\ S # {} /\ IsFiniteSet(S)
  <2>1. IsFiniteSet({x})
    BY FS_Singleton
  <2>2. {x, y} = {x} \cup {y}
    OBVIOUS
  <2> QED BY <2>1, <2>2, FS_AddElement
<1>2. Min(S) \in S /\ \A z \in S : Min(S) <= z
  <2> HIDE DEF S
  <2> QED BY <1>1, MinIsLeast
<1> DEFINE m == Min(S)
<1>3. (m = x \/ m = y) /\ m <= x /\ m <= y
  BY <1>2
<1> HIDE DEF m
<1>4. m = IF x <= y THEN x ELSE y
  BY <1>3
<1> QED BY <1>4 DEF m

LEMMA GreaterOfTwo ==
    ASSUME NEW x \in Int, NEW y \in Int
    PROVE  Max({x, y}) = x \/ Max({x, y}) = y
<1> DEFINE S == {x, y}
<1>1. S \in SUBSET Int /\ S # {} /\ IsFiniteSet(S)
  <2>1. IsFiniteSet({x})
    BY FS_Singleton
  <2>2. {x, y} = {x} \cup {y}
    OBVIOUS
  <2> QED BY <2>1, <2>2, FS_AddElement
<1>2. Max(S) \in S
  <2> HIDE DEF S
  <2> QED BY <1>1, MaxIsGreatest
<1> QED BY <1>2

\* What a division gives out is the whole.
LEMMA DividedWholly ==
    ASSUME NEW total \in Nat, NEW n \in Nat \ {0}
    PROVE  /\ total \div n \in Nat /\ total % n \in Nat /\ total % n < n
           /\ total = n * (total \div n) + (total % n)
OBVIOUS

\* Some of n shares and some of r remaining points, against all of them.
LEMMA SharesTaken ==
    ASSUME NEW n \in Nat, NEW q \in Nat, NEW r \in Nat, NEW a \in 0..n, NEW b \in 0..r
    PROVE  /\ a * q + b \in 0..(n * q + r)
           /\ a * q + b = n * q + r <=> (a = n \/ q = 0) /\ b = r
<1> DEFINE p == (n - a) * q
           u == a * q
           v == n * q
<1>1. p \in Nat /\ u \in Nat /\ v \in Nat
  <2>1. n - a \in Nat /\ a \in Nat
    OBVIOUS
  <2>2. \A x, y \in Nat : x * y \in Nat
    OBVIOUS
  <2> QED BY <2>1, <2>2
<1>2. v = u + p
  OBVIOUS
<1>3. p = 0 <=> a = n \/ q = 0
  <2>1. \A x, y \in Nat : x * y = 0 <=> x = 0 \/ y = 0
    OBVIOUS
  <2>2. n - a \in Nat /\ (n - a = 0 <=> a = n)
    OBVIOUS
  <2> QED BY <2>1, <2>2
<1> HIDE DEF p, u, v
<1>4. u + b \in 0..(v + r) /\ (u + b = v + r <=> p = 0 /\ b = r)
  BY <1>1, <1>2
<1> QED BY <1>3, <1>4 DEF u, v

LEMMA NothingToEarn ==
    ASSUME NEW list, DOMAIN list = {}, NEW worth, NEW found
    PROVE  Points(list, worth, found) = 0
<1> DEFINE F == {i \in DOMAIN list : list[i] \in found}
           f == [A \in {{}} |-> 0]
<1>1. F = {} /\ IsFiniteSet(F)
  BY FS_EmptySet
<1>2. CountsUp(worth, f, F)
  BY <1>1 DEF CountsUp
<1>3. Points(list, worth, found) = MapThenSumSet(LAMBDA i : worth[i], F)
  BY DEF Points
<1> HIDE DEF F
<1>4. MapThenSumSet(LAMBDA i : worth[i], F) = f[F]
  <2> HIDE DEF f
  <2> QED BY <1>1, <1>2, SumOfValues
<1>5. f[F] = 0
  BY <1>1
<1> QED BY <1>3, <1>4, <1>5

\* The points of a list are earned exactly by having all that has points.
LEMMA PointsEarned ==
    ASSUME NEW list, NEW total \in Nat, NEW found, Len(list) \in Nat \ {0}, DOMAIN list = 1..Len(list)
    PROVE  LET worth  == DistributePoints(total, list)
               earned == Points(list, worth, found)
           IN  earned \in 0..total /\ (earned = total <=> HasAll(list, worth, found))
<1> DEFINE n == Len(list)
           q == total \div n
           r == total % n
           S == 1..n
           R == 1..r
           F == {i \in DOMAIN list : list[i] \in found}
           worth == DistributePoints(total, list)
           earned == Points(list, worth, found)
           f == [A \in SUBSET F |-> Cardinality(A) * q + Cardinality(A \cap R)]
<1>1. n \in Nat \ {0} /\ q \in Nat /\ r \in Nat /\ r < n /\ total = n * q + r
  <2>1. n \in Nat \ {0}
    OBVIOUS
  <2> HIDE DEF n
  <2> QED BY <2>1, DividedWholly
<1>2. worth = [i \in S |-> q + (IF i <= r THEN 1 ELSE 0)]
  BY DEF DistributePoints
<1>3. earned = MapThenSumSet(LAMBDA i : worth[i], F)
  BY DEF Points
<1>4. F \subseteq S /\ DOMAIN list = S
  OBVIOUS
<1>5. HasAll(list, worth, found) <=> \A i \in S : worth[i] = 0 \/ i \in F
  BY DEF HasAll
<1> HIDE DEF worth, earned, F, n, q, r
<1>6. IsFiniteSet(S) /\ Cardinality(S) = n /\ IsFiniteSet(R) /\ Cardinality(R) = r /\ R \subseteq S
  <2>1. 1 \in Int /\ n \in Int /\ r \in Int
    BY <1>1
  <2>2. /\ IsFiniteSet(1..n) /\ Cardinality(1..n) = IF 1 > n THEN 0 ELSE n - 1 + 1
        /\ IsFiniteSet(1..r) /\ Cardinality(1..r) = IF 1 > r THEN 0 ELSE r - 1 + 1
    BY <2>1, FS_Interval
  <2> QED BY <1>1, <2>2
<1>7. \A i \in S : worth[i] = q + (IF i \in R THEN 1 ELSE 0)
  BY <1>1, <1>2
<1> HIDE DEF S, R
<1>8. \A A \in SUBSET F : /\ IsFiniteSet(A) /\ Cardinality(A) \in Nat
                          /\ IsFiniteSet(A \cap R) /\ Cardinality(A \cap R) \in Nat
  <2> SUFFICES ASSUME NEW A \in SUBSET F
               PROVE  /\ IsFiniteSet(A) /\ Cardinality(A) \in Nat
                      /\ IsFiniteSet(A \cap R) /\ Cardinality(A \cap R) \in Nat
    OBVIOUS
  <2>1. IsFiniteSet(A)
    BY <1>4, <1>6, FS_Subset
  <2>2. IsFiniteSet(A \cap R)
    BY <1>6, FS_Subset
  <2> QED BY <2>1, <2>2, FS_CardinalityType
<1>9. CountsUp(worth, f, F)
  <2>1. f[{}] = 0
    <3>1. Cardinality({}) = 0 /\ {} \cap R = {}
      BY FS_EmptySet
    <3>2. f[{}] = 0 * q + 0
      BY <3>1
    <3> QED BY <1>1, <3>2
  <2>2. ASSUME NEW A \in SUBSET F, NEW x \in A PROVE f[A] = worth[x] + f[A \ {x}]
    <3> DEFINE B == A \ {x}
               k == Cardinality(B)
               l == Cardinality(B \cap R)
    <3>1. B \in SUBSET F
      OBVIOUS
    <3>2. k \in Nat /\ l \in Nat
      BY <1>8, <3>1
    <3>3. Cardinality(A) = k + 1
      <4>1. IsFiniteSet(A) /\ k = Cardinality(A) - 1 /\ Cardinality(A) \in Nat
        BY <1>8, <2>2, FS_RemoveElement
      <4> HIDE DEF k
      <4> QED BY <4>1, <3>2
    <3>4. Cardinality(A \cap R) = l + (IF x \in R THEN 1 ELSE 0)
      <4>1. CASE x \in R
        <5>1. IsFiniteSet(A \cap R) /\ Cardinality(A \cap R) \in Nat /\ x \in A \cap R
          BY <1>8, <2>2, <4>1
        <5>2. Cardinality((A \cap R) \ {x}) = Cardinality(A \cap R) - 1
          BY <5>1, FS_RemoveElement
        <5>3. (A \cap R) \ {x} = B \cap R
          OBVIOUS
        <5>4. l = Cardinality(A \cap R) - 1
          BY <5>2, <5>3
        <5> HIDE DEF l
        <5> QED BY <3>2, <4>1, <5>1, <5>4
      <4>2. CASE x \notin R
        <5>1. A \cap R = B \cap R
          BY <4>2
        <5>2. Cardinality(A \cap R) = l
          BY <5>1
        <5> HIDE DEF l
        <5> QED BY <3>2, <4>2, <5>2
      <4> QED BY <4>1, <4>2
    <3>5. f[A] = (k + 1) * q + (l + (IF x \in R THEN 1 ELSE 0))
      BY <2>2, <3>3, <3>4
    <3>6. f[B] = k * q + l
      BY <3>1
    <3>7. worth[x] = q + (IF x \in R THEN 1 ELSE 0)
      BY <1>4, <1>7, <2>2
    <3> HIDE DEF B, k, l, f
    <3>8. (k + 1) * q = k * q + q /\ k * q \in Int
      BY <1>1, <3>2
    <3> DEFINE kq == k * q
               kkq == (k + 1) * q
               one == IF x \in R THEN 1 ELSE 0
    <3>9. one \in Nat
      OBVIOUS
    <3>10. f[A] = kkq + (l + one) /\ f[B] = kq + l /\ worth[x] = q + one /\ kkq = kq + q /\ kq \in Int
      BY <3>5, <3>6, <3>7, <3>8
    <3> HIDE DEF kq, kkq, one
    <3>11. f[A] = worth[x] + f[B]
      BY <1>1, <3>2, <3>9, <3>10
    <3> QED BY <3>11 DEF B
  <2> HIDE DEF f
  <2> QED BY <2>1, <2>2 DEF CountsUp
<1>10. earned = f[F]
  <2>1. IsFiniteSet(F)
    BY <1>8
  <2> HIDE DEF f
  <2>2. MapThenSumSet(LAMBDA i : worth[i], F) = f[F]
    BY <1>9, <2>1, SumOfValues
  <2> QED BY <1>3, <2>2
<1> DEFINE a == Cardinality(F)
           b == Cardinality(F \cap R)
<1>11. earned = a * q + b
  BY <1>10
<1>12. a \in 0..n /\ (a = n <=> F = S)
  <2>1. IsFiniteSet(F) /\ a <= Cardinality(S) /\ (Cardinality(S) = a => S = F)
    BY <1>4, <1>6, FS_Subset
  <2>2. a \in Nat
    BY <1>8
  <2>3. F = S => a = n
    BY <1>6
  <2> HIDE DEF a
  <2> QED BY <1>1, <1>6, <2>1, <2>2, <2>3
<1>13. b \in 0..r /\ (b = r <=> R \subseteq F)
  <2> DEFINE G == F \cap R
  <2>1. G \in SUBSET R
    OBVIOUS
  <2>2. IsFiniteSet(G) /\ Cardinality(G) <= Cardinality(R) /\ (Cardinality(R) = Cardinality(G) => R = G)
    BY <1>6, <2>1, FS_Subset
  <2>3. Cardinality(G) \in Nat
    BY <1>8
  <2>4. R \subseteq F <=> G = R
    OBVIOUS
  <2>5. G = R => Cardinality(G) = r
    BY <1>6
  <2>6. b = Cardinality(G)
    OBVIOUS
  <2> HIDE DEF G, b
  <2> QED BY <1>1, <1>6, <2>2, <2>3, <2>4, <2>5, <2>6
<1> HIDE DEF a, b, f
<1>14. /\ a * q + b \in 0..(n * q + r)
       /\ a * q + b = n * q + r <=> (a = n \/ q = 0) /\ b = r
  BY <1>1, <1>12, <1>13, SharesTaken
<1>15. (\A i \in S : worth[i] = 0 \/ i \in F) <=> (F = S \/ q = 0) /\ R \subseteq F
  <2>1. CASE q = 0
    <3>1. \A i \in S : worth[i] = 0 <=> i \notin R
      BY <1>7, <2>1
    <3> QED BY <1>6, <2>1, <3>1
  <2>2. CASE q # 0
    <3>1. \A i \in S : worth[i] # 0
      <4> SUFFICES ASSUME NEW i \in S PROVE worth[i] # 0
        OBVIOUS
      <4>1. CASE i \in R
        <5>1. worth[i] = q + 1
          BY <1>7, <4>1
        <5> QED BY <1>1, <5>1
      <4>2. CASE i \notin R
        <5>1. worth[i] = q + 0
          BY <1>7, <4>2
        <5> QED BY <1>1, <2>2, <5>1
      <4> QED BY <4>1, <4>2
    <3> QED BY <1>4, <1>6, <2>2, <3>1
  <2> QED BY <2>1, <2>2
<1>16. earned \in 0..total /\ (earned = total <=> HasAll(list, worth, found))
  BY <1>1, <1>5, <1>11, <1>12, <1>13, <1>14, <1>15
<1> QED BY <1>16 DEF worth, earned

\* Points for experience are all earned from half a point below their number on.
LEMMA ExperienceEarned ==
    ASSUME NEW h \in Nat, NEW per \in Nat, NEW most \in {0, 40}
    PROVE  LET got == Min({Rounded(h * per), most})
           IN  got \in 0..most /\ (got = most <=> 2 * most <= h * per + 1)
<1> DEFINE x == h * per
           y == Rounded(x)
           got == Min({y, most})
<1>1. x \in Nat
  OBVIOUS
<1>2. y = (x \div 2) + (IF x % 4 = 3 THEN 1 ELSE 0)
  BY DEF Rounded
<1> HIDE DEF x
<1>3. y \in Nat /\ (40 <= y <=> 80 <= x + 1)
  <2> HIDE DEF y
  <2>1. (x % 4 = 3 => x \div 2 = 2 * (x \div 4) + 1) /\ x = 4 * (x \div 4) + (x % 4) /\ x \div 4 \in Nat
        /\ x % 4 \in 0..3 /\ x \div 2 \in Nat /\ 2 * (x \div 2) <= x /\ x <= 2 * (x \div 2) + 1
    BY <1>1
  <2>2. CASE x % 4 = 3
    BY <1>1, <1>2, <2>1, <2>2
  <2>3. CASE x % 4 # 3
    BY <1>1, <1>2, <2>1, <2>3
  <2> QED BY <2>2, <2>3
<1> HIDE DEF y
<1>4. got = IF y <= most THEN y ELSE most
  BY <1>3, LesserOfTwo
<1> HIDE DEF got
<1>5. got \in 0..most /\ (got = most <=> 2 * most <= x + 1)
  BY <1>1, <1>3, <1>4
<1> QED BY <1>5 DEF got, y, x

\* Full marks are earned exactly by all that points are given for, for every
\* requisition and every resume.
LEMMA FullMarks == screening \in Screenings => FullMarksForAll
<1> SUFFICES ASSUME screening \in Screenings PROVE FullMarksForAll
  OBVIOUS
<1> DEFINE want == screening.want
           facts == screening.facts
           compiled == CompileRules(want)
           e == compiled.maxExperience
           d == compiled.degree
           c == IF want.certificates # <<>> THEN 10 ELSE 0
           s == Total - e - d - c
           gotE == ScoreExperience(compiled, facts)
           gotD == ScoreEducation(compiled, facts)
           gotC == ScoreCertifications(compiled, facts)
           gotS == ScoreSkills(compiled, facts)
<1>1. /\ want.years \in Nat /\ facts.halfYears \in Nat
      /\ want.degree \in BOOLEAN /\ want.knockout \in BOOLEAN /\ facts.degree \in BOOLEAN
      /\ want.skills \in SkillInput /\ want.certificates \in CertificateInput
  BY ScoringInputs DEF Screenings
<1>2. /\ Len(want.skills) \in Nat /\ DOMAIN want.skills = 1..Len(want.skills)
      /\ Len(want.certificates) \in Nat /\ DOMAIN want.certificates = 1..Len(want.certificates)
  BY <1>1, ScoringInputs
<1>3. /\ e = (IF want.years > 0 THEN 40 ELSE 0) /\ d = (IF want.degree THEN 10 ELSE 0)
      /\ compiled.skills = want.skills /\ compiled.certificates = want.certificates
      /\ compiled.skillPoints = DistributePoints(s, want.skills)
      /\ compiled.certificatePoints = DistributePoints(c, want.certificates)
      /\ compiled.perYear = (IF want.years > 0 THEN Max({1, 40 \div want.years}) ELSE 0)
      /\ compiled.knockout = want.knockout
  BY DEF CompileRules
<1>4. /\ gotE = Min({Rounded(facts.halfYears * compiled.perYear), e})
      /\ gotD = (IF facts.degree THEN d ELSE 0)
      /\ gotC = Points(want.certificates, compiled.certificatePoints, facts.certificates)
      /\ gotS = Points(want.skills, compiled.skillPoints, facts.skills)
  BY <1>3 DEF ScoreExperience, ScoreEducation, ScoreCertifications, ScoreSkills
<1>5. (ScoreResume(compiled, facts).score = Total) <=>
          /\ ~(want.knockout /\ facts.assessment = "failed")
          /\ Min({Total, gotE + gotS + gotD + gotC}) = Total
  <2> DEFINE sum == Min({Total, gotE + gotS + gotD + gotC})
  <2>1. ScoreResume(compiled, facts).score =
            IF compiled.knockout /\ facts.assessment = "failed" THEN 0 ELSE sum
    BY DEF ScoreResume, KnockedOut
  <2>2. Total # 0
    BY DEF Total
  <2> HIDE DEF sum, compiled
  <2>3. compiled.knockout = want.knockout
    BY <1>3
  <2> HIDE DEF want, facts
  <2> QED BY <2>1, <2>2, <2>3 DEF sum
<1>6. /\ (want.skills = <<>> <=> Len(want.skills) = 0) /\ (want.certificates = <<>> <=> Len(want.certificates) = 0)
  <2>1. \A list : Len(list) \in Nat /\ DOMAIN list = 1..Len(list) => (list = <<>> <=> Len(list) = 0)
    OBVIOUS
  <2> QED BY <1>2, <2>1
<1> HIDE DEF compiled, e, d, gotE, gotD, gotC, gotS
<1>7. e \in {0, 40} /\ d \in {0, 10} /\ c \in {0, 10} /\ s \in 40..100 /\ e + d + c + s = 100
  <2>1. e \in {0, 40} /\ d \in {0, 10} /\ c \in {0, 10}
    BY <1>3
  <2>2. s = 100 - e - d - c
    BY DEF Total
  <2> HIDE DEF c, s
  <2> QED BY <2>1, <2>2
<1>8. gotE \in 0..e /\ (gotE = e <=> 2 * e <= facts.halfYears * compiled.perYear + 1)
  <2>1. compiled.perYear \in Nat
    <3>1. CASE want.years > 0
      <4> DEFINE y == want.years
                 z == 40 \div y
      <4>1. z \in Nat
        <5>1. y \in Nat \ {0}
          BY <1>1, <3>1
        <5> HIDE DEF y
        <5> QED BY <5>1
      <4>2. compiled.perYear = Max({1, z})
        BY <1>3, <3>1
      <4> HIDE DEF z
      <4>3. Max({1, z}) = 1 \/ Max({1, z}) = z
        BY <4>1, GreaterOfTwo
      <4> QED BY <4>1, <4>2, <4>3
    <3>2. CASE ~(want.years > 0)
      BY <1>3, <3>2
    <3> QED BY <3>1, <3>2
  <2> DEFINE h == facts.halfYears
             per == compiled.perYear
  <2>2. h \in Nat /\ per \in Nat
    BY <1>1, <2>1
  <2>3. gotE = Min({Rounded(h * per), e})
    BY <1>4
  <2>4. e \in {0, 40}
    BY <1>7
  <2> HIDE DEF h, per, c, s
  <2>5. /\ Min({Rounded(h * per), e}) \in 0..e
        /\ Min({Rounded(h * per), e}) = e <=> 2 * e <= h * per + 1
    BY <2>2, <2>4, ExperienceEarned
  <2>6. gotE \in 0..e /\ (gotE = e <=> 2 * e <= h * per + 1)
    BY <2>3, <2>5
  <2> QED BY <2>6 DEF h, per
<1>9. want.years > 0 \/ 2 * e <= facts.halfYears * compiled.perYear + 1
  <2>1. CASE ~(want.years > 0)
    <3>1. e = 0 /\ compiled.perYear = 0
      BY <1>3, <2>1
    <3> HIDE DEF want, facts
    <3>2. facts.halfYears * 0 = 0
      BY <1>1
    <3> QED BY <3>1, <3>2
  <2> QED BY <2>1
<1>10. gotD \in 0..d /\ (gotD = d <=> (want.degree => facts.degree))
  BY <1>1, <1>3, <1>4
<1>11. gotC \in 0..c /\ (gotC = c <=> HasAll(want.certificates, compiled.certificatePoints, facts.certificates))
  <2> DEFINE list == want.certificates
             found == facts.certificates
             worth == compiled.certificatePoints
  <2>1. CASE Len(list) = 0
    <3>1. c = 0 /\ DOMAIN list = {}
      BY <1>2, <1>6, <2>1
    <3> HIDE DEF list, found, worth
    <3>2. Points(list, worth, found) = 0
      BY <3>1, NothingToEarn
    <3>3. HasAll(list, worth, found)
      BY <3>1 DEF HasAll
    <3> QED BY <1>4, <3>1, <3>2, <3>3 DEF list, found, worth
  <2>2. CASE Len(list) # 0
    <3>1. Len(list) \in Nat \ {0} /\ DOMAIN list = 1..Len(list)
      BY <1>2, <2>2
    <3>2. c \in Nat /\ worth = DistributePoints(c, list)
      BY <1>3, <1>7
    <3> HIDE DEF list, found, worth, c
    <3>3. Points(list, DistributePoints(c, list), found) \in 0..c
          /\ (Points(list, DistributePoints(c, list), found) = c
                  <=> HasAll(list, DistributePoints(c, list), found))
      BY <3>1, <3>2, PointsEarned
    <3> QED BY <1>4, <3>2, <3>3 DEF list, found, worth
  <2> QED BY <2>1, <2>2
<1>12. /\ gotS \in 0..s
       /\ gotS = s <=> want.skills # <<>> /\ HasAll(want.skills, compiled.skillPoints, facts.skills)
  <2> DEFINE list == want.skills
             found == facts.skills
             worth == compiled.skillPoints
  <2>1. CASE Len(list) = 0
    <3>1. list = <<>> /\ DOMAIN list = {}
      BY <1>2, <1>6, <2>1
    <3> HIDE DEF list, found, worth, s
    <3>2. Points(list, worth, found) = 0
      BY <3>1, NothingToEarn
    <3>3. s \in 40..100
      BY <1>7 DEF s
    <3> QED BY <1>4, <3>1, <3>2, <3>3 DEF list, found, worth
  <2>2. CASE Len(list) # 0
    <3>1. Len(list) \in Nat \ {0} /\ DOMAIN list = 1..Len(list) /\ list # <<>>
      BY <1>2, <1>6, <2>2
    <3>2. s \in Nat /\ worth = DistributePoints(s, list)
      <4>1. worth = DistributePoints(s, list)
        BY <1>3
      <4> HIDE DEF s, c
      <4>2. s \in Nat
        BY <1>7
      <4> QED BY <4>1, <4>2
    <3> HIDE DEF list, found, worth, s
    <3>3. Points(list, DistributePoints(s, list), found) \in 0..s
          /\ (Points(list, DistributePoints(s, list), found) = s
                  <=> HasAll(list, DistributePoints(s, list), found))
      BY <3>1, <3>2, PointsEarned
    <3> QED BY <1>4, <3>1, <3>2, <3>3 DEF list, found, worth
  <2> QED BY <2>1, <2>2
<1> HIDE DEF c, s
<1>13. Min({Total, gotE + gotS + gotD + gotC}) = Total <=>
           gotE = e /\ gotS = s /\ gotD = d /\ gotC = c
  <2> DEFINE sum == gotE + gotS + gotD + gotC
  <2>1. sum \in 0..100 /\ (sum = 100 <=> gotE = e /\ gotS = s /\ gotD = d /\ gotC = c)
    <3>1. /\ e \in Nat /\ d \in Nat /\ c \in Nat /\ s \in Nat
          /\ gotE \in 0..e /\ gotS \in 0..s /\ gotD \in 0..d /\ gotC \in 0..c
      BY <1>7, <1>8, <1>10, <1>11, <1>12
    <3> QED BY <1>7, <3>1
  <2> HIDE DEF sum
  <2>2. Min({100, sum}) = IF 100 <= sum THEN 100 ELSE sum
    BY <2>1, LesserOfTwo
  <2>3. Min({100, sum}) = 100 <=> sum = 100
    BY <2>1, <2>2
  <2> QED BY <2>1, <2>3 DEF sum, Total
<1>14. (ScoreResume(compiled, facts).score = Total) <=>
          /\ want.skills # <<>> /\ HasAll(want.skills, compiled.skillPoints, facts.skills)
          /\ HasAll(want.certificates, compiled.certificatePoints, facts.certificates)
          /\ want.degree => facts.degree
          /\ want.years > 0 => 2 * e <= facts.halfYears * compiled.perYear + 1
          /\ ~(want.knockout /\ facts.assessment = "failed")
  BY <1>5, <1>8, <1>9, <1>10, <1>11, <1>12, <1>13
<1> HIDE DEF want, facts
<1> QED BY <1>14 DEF FullMarksForAll, compiled, e, want, facts

\* A score is of the screening last asked for, and full marks are in everybody's
\* reach (Resumes, Scoring).
THEOREM ScoresStayFair == Spec => []ScoresAreFair
<1>1. Init => screening \in Screenings
  <2>1. \E x \in Screenings : x.want.years = 0
    <3>1. PICK h \in HalfYearsInput, k \in SkillInput, l \in CertificateInput : TRUE
      BY ScoringInputs
    <3> DEFINE x == [want |-> [years |-> 0, skills |-> k, degree |-> FALSE, certificates |-> l,
                               knockout |-> FALSE],
                     facts |-> [halfYears |-> h, skills |-> {}, degree |-> FALSE,
                                certificates |-> {}, assessment |-> "none", doubtful |-> FALSE]]
    <3>2. x \in Screenings /\ x.want.years = 0
      BY <3>1, ScoringInputs DEF Screenings
    <3> QED BY <3>2
  <2>2. Idle \in Screenings
    BY <2>1 DEF Idle
  <2> QED BY <2>2 DEF Init, ScoringInit
<1>2. screening \in Screenings /\ [Next]_recruitmentVars => (screening \in Screenings)'
  BY DEF Next, recruitmentVars
<1>3. screening \in Screenings /\ ScoredAsLastAsked => ScoresAreFair
  BY FullMarks DEF ScoresAreFair
<1> QED BY <1>1, <1>2, <1>3, ResumesGoOn, ScoresFollow, PTL DEF Spec

\* The history follows the candidates in recruitment as a whole (Pipeline).
THEOREM HistoryStaysTrue == Spec => []HistoryFollows
BY OnboardingGoesOn, HistoryIsTrue, PTL
=============================================================================
