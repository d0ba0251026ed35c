---------------------------- MODULE LettersProofs ----------------------------
(***************************************************************************)
(* Offer letters, for every number of candidates, sessions, batches, tasks *)
(* and restarts: as long as a retry waits until no task works on its       *)
(* batch, links work, a completed batch reached everybody, nobody is       *)
(* mailed twice, and an answer is only overwritten by whoever had read the *)
(* letter before.  Then what letters say and what the clock reminds of.    *)
(***************************************************************************)
EXTENDS MCLetters, MCOffers, FiniteLemmas, SequenceTheorems

-----------------------------------------------------------------------------
(* Offers: the tables, and what tasks and sessions hold of them. *)

\* A letter that reached its candidate, whatever became of it since.
Out == {"SENT", "EXPIRED", "WITHDRAWN"} \cup Answer

TaskRow == [pc : TaskPc, batch : 1..MaxBatch, queue : Seq(QueueEntry)]
RespondRow == [kind : {"respond"}, offer : Nat, from : Stage, error : BOOLEAN,
               status : Answer \cup {"EXPIRED"}]
DispatchRow == [kind : {"dispatch"}, picked : SUBSET App, valid : SUBSET App, sent : SUBSET Nat]
Box == SUBSET ((1..MaxTask) \X (1..MaxTask))

OffersTypes ==
    /\ stage \in [App -> Stage]
    /\ offers \in Seq(OfferRow)
    /\ batches \in Seq(BatchRow) /\ Len(batches) <= MaxBatch
    /\ overdue \subseteq 1..Len(batches)
    /\ tasks \in Seq(TaskRow \cup {Done}) /\ Len(tasks) <= MaxTask
    /\ sessions \in [Session -> {Idle} \cup RespondRow \cup DispatchRow]
    /\ inbox \in Seq(Box) /\ Len(inbox) = Len(offers)
    /\ restarts \in 0..MaxRestart

\* The letters of a batch, of the table ls; boxes are the mailboxes.
Mine(b, ls) == {o \in 1..Len(ls) : ls[o].batch = b}
MineWith(b, ls, states) == {o \in Mine(b, ls) : ls[o].status \in states}

\* A letter that is out has a link that leads to it; one that was withdrawn has
\* a successor.
LetterOK(o, ls, bs, boxes) ==
    /\ ls[o].batch \in 1..Len(bs)
    /\ ls[o].error <=> ls[o].status = "FAILED"
    /\ ls[o].status \in Out => \E mail \in boxes[o] : mail[2] = ls[o].token
    /\ ls[o].status = "WITHDRAWN" => \E p \in 1..Len(ls) : ls[p].app = ls[o].app /\ o < p

\* The letters a task has left are the drafts of its batch, with their tokens.
QueueOK(task, ls) ==
    /\ \A i \in 1..Len(task.queue) :
          /\ task.queue[i].offer \in MineWith(task.batch, ls, {"DRAFT"})
          /\ ls[task.queue[i].offer].token = task.queue[i].token
    /\ \A i, j \in 1..Len(task.queue) :
          task.queue[i].offer = task.queue[j].offer => i = j
    /\ \A o \in MineWith(task.batch, ls, {"DRAFT"}) :
          \E i \in 1..Len(task.queue) : task.queue[i].offer = o

\* A task works on a batch in progress; past the link, its letter has a token,
\* and past the mail, the candidate has it.
TaskOK(task, ls, bs, boxes) ==
    /\ task.batch \in 1..Len(bs)
    /\ bs[task.batch].status \in {"QUEUED", "PROCESSING"}
    /\ task.pc # "begin" => QueueOK(task, ls)
    /\ task.pc \in {"mail", "failed", "sent"} => task.queue # <<>>
    /\ task.pc \in {"mail", "sent"} => task.queue[1].token # 0
    /\ task.pc = "sent" => \E mail \in boxes[task.queue[1].offer] : mail[2] = task.queue[1].token

\* What a session read may be stale, but a letter that was out still is.
SessionOK(read, ls) ==
    /\ read.kind = "respond" => read.offer \in 1..Len(ls) /\ ls[read.offer].status \in Out
    /\ read.kind = "dispatch" =>
          /\ read.valid \subseteq read.picked
          /\ \A o \in read.sent :
                o \in 1..Len(ls) /\ ls[o].status \in Out /\ ls[o].app \in read.valid

MissingOf(b, ls, bs) ==
    IF bs[b].candidates > Cardinality(Mine(b, ls))
    THEN bs[b].candidates - Cardinality(Mine(b, ls)) ELSE 0

\* A batch summed up counts its failures, and a completed one reached everybody.
BatchOK(b, ls, bs) ==
    /\ Cardinality(Mine(b, ls)) <= bs[b].candidates
    /\ bs[b].status \in Finished =>
          bs[b].failure = Cardinality(MineWith(b, ls, {"FAILED"})) + MissingOf(b, ls, bs)
    /\ bs[b].status = "COMPLETED" =>
          /\ Cardinality(Mine(b, ls)) = bs[b].candidates
          /\ \A o \in Mine(b, ls) : ls[o].status \in Out

TasksOK(ts, ls, bs, boxes) ==
    /\ \A t \in 1..Len(ts) : ts[t] # Done => TaskOK(ts[t], ls, bs, boxes)
    /\ \A t, u \in 1..Len(ts) :
          ts[t] # Done /\ ts[u] # Done /\ ts[t].batch = ts[u].batch => t = u

OffersInv ==
    /\ OffersTypes
    /\ \A o \in 1..Len(offers) : LetterOK(o, offers, batches, inbox)
    /\ TasksOK(tasks, offers, batches, inbox)
    /\ \A s \in Session : SessionOK(sessions[s], offers)
    /\ \A b \in 1..Len(batches) : BatchOK(b, offers, batches)

-----------------------------------------------------------------------------
(* Sequences out of sets. *)

LEMMA AscendingLists ==
    ASSUME NEW S \in SUBSET Nat, IsFiniteSet(S)
    PROVE  /\ Ascending(S) \in Seq(S) /\ Len(Ascending(S)) = Cardinality(S)
           /\ Cardinality(S) \in Nat /\ DOMAIN Ascending(S) = 1..Cardinality(S)
           /\ \A i, j \in 1..Cardinality(S) : Ascending(S)[i] = Ascending(S)[j] => i = j
           /\ \A x \in S : \E i \in 1..Cardinality(S) : Ascending(S)[i] = x
<1> DEFINE f == Ascending(S)
           n == Cardinality(S)
<1>1. S \in SUBSET Int /\ n \in Nat
  BY FS_CardinalityType
<1>2. \E g \in [1..n -> S] : Rising(g, n)
  BY <1>1, RisingExists
<1>3. \E g \in [1..n -> S] : \A i, j \in DOMAIN g : i < j => g[i] < g[j]
  BY <1>2 DEF Rising
<1>4. f \in [1..n -> S] /\ \A i, j \in DOMAIN f : i < j => f[i] < f[j]
  BY <1>3 DEF Ascending
<1>5. Rising(f, n)
  BY <1>4 DEF Rising
<1>6. /\ \A i, j \in 1..n : f[i] = f[j] => i = j
      /\ \A x \in S : \E i \in 1..n : f[i] = x
  <2> HIDE DEF f
  <2> QED BY <1>1, <1>4, <1>5, RisingCovers
<1>7. f \in Seq(S) /\ Len(f) = n /\ DOMAIN f = 1..n
  <2> HIDE DEF f, n
  <2> QED BY <1>1, <1>4
<1> QED BY <1>1, <1>6, <1>7

LEMMA SetToSeqLists ==
    ASSUME NEW S, IsFiniteSet(S)
    PROVE  /\ SetToSeq(S) \in Seq(S) /\ Len(SetToSeq(S)) = Cardinality(S)
           /\ Cardinality(S) \in Nat
           /\ \A x \in S : \E i \in 1..Cardinality(S) : SetToSeq(S)[i] = x
<1> DEFINE f == SetToSeq(S)
           n == Cardinality(S)
<1>1. n \in Nat /\ ExistsBijection(1..n, S)
  BY FS_CardinalityType
<1>2. \E g \in [1..n -> S] : IsInjective(g)
  BY <1>1 DEF ExistsBijection, Bijection, Injection
<1>3. f \in [1..n -> S] /\ IsInjective(f)
  BY <1>2 DEF SetToSeq
<1>4. f \in Injection(1..n, S)
  BY <1>3 DEF Injection
<1>5. IsFiniteSet(1..n) /\ Cardinality(1..n) = n
  <2> HIDE DEF n
  <2>1. 1 \in Int /\ n \in Int
    BY <1>1
  <2> QED BY <1>1, <2>1, FS_Interval
<1> HIDE DEF f
<1>6. f \in Surjection(1..n, S)
  BY <1>4, <1>5, FS_Injection
<1>7. \A x \in S : \E i \in 1..n : f[i] = x
  BY <1>6 DEF Surjection
<1> HIDE DEF n
<1>8. f \in Seq(S) /\ Len(f) = n
  BY <1>1, <1>3
<1> QED BY <1>1, <1>7, <1>8 DEF f, n

-----------------------------------------------------------------------------
(* What a change of some rows leaves as it was. *)

LEMMA MineStay ==
    ASSUME NEW ls, NEW ms, Len(ms) = Len(ls),
           \A o \in 1..Len(ls) : ms[o].batch = ls[o].batch
    PROVE  \A b : Mine(b, ms) = Mine(b, ls)
BY DEF Mine

LEMMA LetterKept ==
    ASSUME NEW o, NEW ls, NEW ms, NEW bs, NEW cs, NEW boxes, NEW post,
           LetterOK(o, ls, bs, boxes), ms[o] = ls[o], boxes[o] \subseteq post[o],
           Len(bs) \in Nat, Len(cs) \in Nat, Len(bs) <= Len(cs),
           Len(ls) \in Nat, Len(ms) \in Nat, Len(ls) <= Len(ms),
           \A p \in 1..Len(ls) : ms[p].app = ls[p].app
    PROVE  LetterOK(o, ms, cs, post)
<1>1. ls[o].batch \in 1..Len(cs)
  BY DEF LetterOK
<1>2. \A p \in 1..Len(ls) : p \in 1..Len(ms)
  OBVIOUS
<1> QED BY <1>1, <1>2 DEF LetterOK

LEMMA QueueKept ==
    ASSUME NEW k, NEW ls, NEW ms, QueueOK(k, ls), Mine(k.batch, ms) = Mine(k.batch, ls),
           \A o \in Mine(k.batch, ls) :
              (ms[o].status = "DRAFT" <=> ls[o].status = "DRAFT") /\ ms[o].token = ls[o].token
    PROVE  QueueOK(k, ms)
<1>1. MineWith(k.batch, ms, {"DRAFT"}) = MineWith(k.batch, ls, {"DRAFT"})
  BY DEF MineWith
<1>2. \A o \in MineWith(k.batch, ls, {"DRAFT"}) : ms[o].token = ls[o].token
  BY DEF MineWith
<1> QED BY <1>1, <1>2 DEF QueueOK

LEMMA TaskKept ==
    ASSUME NEW k \in TaskRow, NEW ls, NEW ms, NEW bs, NEW cs, NEW boxes, NEW post,
           TaskOK(k, ls, bs, boxes), Mine(k.batch, ms) = Mine(k.batch, ls),
           \A o \in Mine(k.batch, ls) :
              /\ (ms[o].status = "DRAFT" <=> ls[o].status = "DRAFT") /\ ms[o].token = ls[o].token
              /\ boxes[o] \subseteq post[o],
           k.batch \in 1..Len(cs), cs[k.batch].status = bs[k.batch].status
    PROVE  TaskOK(k, ms, cs, post)
<1>1. k.pc # "begin" => QueueOK(k, ms)
  BY QueueKept DEF TaskOK
<1>2. k.pc = "sent" => k.queue[1].offer \in Mine(k.batch, ls)
  <2>1. k.queue \in Seq(QueueEntry) /\ (k.queue # <<>> => Len(k.queue) \in Nat \ {0})
    BY EmptySeq DEF TaskRow
  <2>2. k.pc = "sent" => QueueOK(k, ls) /\ 1 \in 1..Len(k.queue)
    BY <2>1 DEF TaskOK
  <2> QED BY <2>2 DEF QueueOK, MineWith
<1>3. k.pc = "sent" => \E mail \in post[k.queue[1].offer] : mail[2] = k.queue[1].token
  BY <1>2 DEF TaskOK
<1> QED BY <1>1, <1>3 DEF TaskOK

LEMMA SessionKept ==
    ASSUME NEW q, NEW ls, NEW ms, SessionOK(q, ls),
           Len(ls) \in Nat, Len(ms) \in Nat, Len(ls) <= Len(ms),
           \A o \in 1..Len(ls) :
              ms[o].app = ls[o].app /\ (ls[o].status \in Out => ms[o].status \in Out)
    PROVE  SessionOK(q, ms)
<1>1. \A o \in 1..Len(ls) : o \in 1..Len(ms)
  OBVIOUS
<1> QED BY <1>1 DEF SessionOK

LEMMA BatchKept ==
    ASSUME NEW b, NEW ls, NEW ms, NEW bs, NEW cs, BatchOK(b, ls, bs), cs[b] = bs[b],
           Mine(b, ms) = Mine(b, ls),
           \A o \in Mine(b, ls) :
              /\ ms[o].status = "FAILED" <=> ls[o].status = "FAILED"
              /\ ls[o].status \in Out => ms[o].status \in Out
    PROVE  BatchOK(b, ms, cs)
<1>1. MineWith(b, ms, {"FAILED"}) = MineWith(b, ls, {"FAILED"})
  BY DEF MineWith
<1>2. MissingOf(b, ms, cs) = MissingOf(b, ls, bs)
  BY DEF MissingOf
<1> QED BY <1>1, <1>2 DEF BatchOK

-----------------------------------------------------------------------------
(* Tasks: one of them takes a step, the others are about other batches. *)

LEMMA TaskIs ==
    ASSUME OffersTypes, NEW t \in 1..Len(tasks), tasks[t].pc \in TaskPc
    PROVE  tasks[t] \in TaskRow /\ tasks[t] # Done
<1>1. tasks[t] \in TaskRow \cup {Done}
  BY ElementOfSeq DEF OffersTypes
<1>2. Done.pc \notin TaskPc
  BY DEF Done, TaskPc
<1> QED BY <1>1, <1>2

LEMMA TaskSet ==
    ASSUME NEW ts \in Seq(TaskRow \cup {Done}), NEW t \in 1..Len(ts),
           NEW k \in TaskRow \cup {Done}, NEW us, us = [ts EXCEPT ![t] = k]
    PROVE  /\ us \in Seq(TaskRow \cup {Done}) /\ Len(us) = Len(ts) /\ us[t] = k
           /\ \A u \in 1..Len(ts) : u # t => us[u] = ts[u]
BY ExceptSeq

-----------------------------------------------------------------------------
(* The steps of the handlers that write no letter. *)

LEMMA SessionReads ==
    ASSUME OffersInv, NEW s \in Session, NEW row \in {Idle} \cup RespondRow \cup DispatchRow,
           SessionOK(row, offers), sessions' = [sessions EXCEPT ![s] = row],
           UNCHANGED <<stage, offers, batches, overdue, tasks, inbox, restarts>>
    PROVE  OffersInv'
<1>1. OffersTypes'
  BY DEF OffersInv, OffersTypes
<1>2. \A r \in Session : SessionOK(sessions'[r], offers')
  BY DEF OffersInv, OffersTypes
<1> QED BY <1>1, <1>2 DEF OffersInv

LEMMA StartDispatchKeeps ==
    ASSUME OffersInv, NEW s \in Session, NEW picked \in SUBSET App, StartDispatch(s, picked)
    PROVE  OffersInv'
<1> DEFINE row == [kind |-> "dispatch", picked |-> picked, valid |-> Eligible(picked),
                   sent |-> SentTo(Eligible(picked))]
<1>1. Eligible(picked) \subseteq picked
  BY DEF Eligible
<1>2. SentTo(Eligible(picked)) \subseteq 1..Len(offers)
      /\ \A o \in SentTo(Eligible(picked)) :
            offers[o].status \in Out /\ offers[o].app \in Eligible(picked)
  BY DEF SentTo, Letter, Out
<1>3. SentTo(Eligible(picked)) \in SUBSET Nat
  BY <1>2
<1>4. row \in DispatchRow
  BY <1>1, <1>3 DEF DispatchRow
<1>5. SessionOK(row, offers)
  BY <1>1, <1>2 DEF SessionOK
<1>6. sessions' = [sessions EXCEPT ![s] = row]
      /\ UNCHANGED <<stage, offers, batches, overdue, tasks, inbox, restarts>>
  BY DEF StartDispatch
<1> HIDE DEF row
<1> QED BY <1>4, <1>5, <1>6, SessionReads

LEMMA StartRespondKeeps ==
    ASSUME OffersInv, NEW s \in Session, NEW o \in 1..Len(offers), NEW mail, NEW answer \in Answer,
           StartRespond(s, o, mail, answer)
    PROVE  OffersInv'
<1> DEFINE row == [kind |-> "respond", offer |-> o, from |-> stage[offers[o].app],
                   error |-> offers[o].error,
                   status |-> IF offers[o].batch \in overdue THEN "EXPIRED" ELSE answer]
<1>1. offers[o] \in OfferRow /\ stage[offers[o].app] \in Stage
  <2>1. offers[o] \in OfferRow
    BY ElementOfSeq DEF OffersInv, OffersTypes
  <2> QED BY <2>1 DEF OffersInv, OffersTypes, OfferRow
<1>2. row \in RespondRow
  BY <1>1 DEF RespondRow, OfferRow
<1>3. SessionOK(row, offers)
  BY DEF SessionOK, StartRespond, Out
<1>4. sessions' = [sessions EXCEPT ![s] = row]
      /\ UNCHANGED <<stage, offers, batches, overdue, tasks, inbox, restarts>>
  BY DEF StartRespond
<1> HIDE DEF row
<1> QED BY <1>2, <1>3, <1>4, SessionReads

LEMMA OutsideKeeps ==
    ASSUME OffersInv,
           \/ \E b \in 1..MaxBatch : DeadlinePasses(b)
           \/ \E a \in App, to \in Stage : MoveApplication(a, to)
    PROVE  OffersInv'
<1>1. OffersTypes'
  BY DEF OffersInv, OffersTypes, DeadlinePasses, MoveApplication
<1>2. UNCHANGED <<offers, batches, tasks, sessions, inbox>>
  BY DEF DeadlinePasses, MoveApplication
<1> QED BY <1>1, <1>2 DEF OffersInv

LEMMA RestartKeeps ==
    ASSUME OffersInv, Restart
    PROVE  OffersInv'
<1>1. tasks' \in Seq(TaskRow \cup {Done}) /\ Len(tasks') = Len(tasks)
      /\ \A t \in 1..Len(tasks) : tasks'[t] = Done
  <2>1. Len(tasks) \in Nat
    BY DEF OffersInv, OffersTypes
  <2> QED BY <2>1 DEF Restart
<1>2. restarts' \in 0..MaxRestart
  BY OffersConstants DEF Restart, OffersInv, OffersTypes
<1>3. sessions' \in [Session -> {Idle} \cup RespondRow \cup DispatchRow]
      /\ \A s \in Session : SessionOK(sessions'[s], offers)
  BY DEF Restart, SessionOK, Idle
<1>4. UNCHANGED <<stage, offers, batches, overdue, inbox>>
  BY DEF Restart
<1>5. OffersTypes'
  BY <1>1, <1>2, <1>3, <1>4 DEF OffersInv, OffersTypes
<1>6. TasksOK(tasks', offers', batches', inbox')
  BY <1>1 DEF TasksOK
<1> QED BY <1>3, <1>4, <1>5, <1>6 DEF OffersInv

-----------------------------------------------------------------------------
(* The steps of a task. *)

\* A task may write its batch and the letters of it that are not out yet, and
\* put mails into boxes.
LEMMA TaskGoesOn ==
    ASSUME OffersInv, NEW t \in 1..Len(tasks), tasks[t].pc \in TaskPc,
           NEW k \in TaskRow \cup {Done}, tasks' = [tasks EXCEPT ![t] = k],
           offers' \in Seq(OfferRow), Len(offers') = Len(offers),
           \A o \in 1..Len(offers) :
              /\ offers'[o].app = offers[o].app /\ offers'[o].batch = offers[o].batch
              /\ offers[o].status \in Out => offers'[o] = offers[o]
              /\ o \notin Mine(tasks[t].batch, offers) => offers'[o] = offers[o]
              /\ inbox[o] \subseteq inbox'[o]
              /\ LetterOK(o, offers', batches', inbox'),
           inbox' \in Seq(Box), Len(inbox') = Len(inbox),
           batches' \in Seq(BatchRow), Len(batches') = Len(batches),
           \A c \in 1..Len(batches) : c # tasks[t].batch => batches'[c] = batches[c],
           BatchOK(tasks[t].batch, offers', batches'),
           k # Done => k.batch = tasks[t].batch /\ TaskOK(k, offers', batches', inbox'),
           UNCHANGED <<stage, overdue, sessions, restarts>>
    PROVE  OffersInv'
<1> DEFINE b == tasks[t].batch
<1>1. tasks[t] \in TaskRow /\ tasks[t] # Done
  BY TaskIs DEF OffersInv
<1>2. \A c : Mine(c, offers') = Mine(c, offers)
  BY MineStay
<1>3. tasks' \in Seq(TaskRow \cup {Done}) /\ Len(tasks') = Len(tasks)
  BY TaskSet DEF OffersInv, OffersTypes
<1>4. OffersTypes'
  BY <1>3 DEF OffersInv, OffersTypes
<1>5. tasks \in Seq(TaskRow \cup {Done}) /\ TasksOK(tasks, offers, batches, inbox)
      /\ tasks'[t] = k /\ \A u \in 1..Len(tasks) : u # t => tasks'[u] = tasks[u]
  <2>1. tasks \in Seq(TaskRow \cup {Done}) /\ TasksOK(tasks, offers, batches, inbox)
    BY DEF OffersInv, OffersTypes
  <2> QED BY <2>1, TaskSet
<1>6. ASSUME NEW u \in 1..Len(tasks), u # t, tasks[u] # Done
      PROVE  TaskOK(tasks[u], offers', batches', inbox')
  <2>1. tasks[u] \in TaskRow
    BY <1>5, <1>6, ElementOfSeq
  <2>2. tasks[u].batch # tasks[t].batch /\ TaskOK(tasks[u], offers, batches, inbox)
    BY <1>1, <1>5, <1>6 DEF TasksOK
  <2>3. tasks[u].batch \in 1..Len(batches') /\ batches'[tasks[u].batch] = batches[tasks[u].batch]
    BY <2>2 DEF TaskOK
  <2>4. \A o \in Mine(tasks[u].batch, offers) :
           o \in 1..Len(offers) /\ o \notin Mine(tasks[t].batch, offers)
    BY <2>2 DEF Mine
  <2>5. \A o \in Mine(tasks[u].batch, offers) :
           /\ (offers'[o].status = "DRAFT" <=> offers[o].status = "DRAFT")
           /\ offers'[o].token = offers[o].token /\ inbox[o] \subseteq inbox'[o]
    BY <2>4
  <2>6. Mine(tasks[u].batch, offers') = Mine(tasks[u].batch, offers)
    BY <1>2
  <2>7. batches'[tasks[u].batch].status = batches[tasks[u].batch].status
    BY <2>3
  <2> DEFINE x == tasks[u]
             ls == offers
             ms == offers'
             bs == batches
             cs == batches'
             boxes == inbox
             mls == inbox'
  <2>8. x \in TaskRow /\ TaskOK(x, ls, bs, boxes) /\ x.batch \in 1..Len(cs)
    BY <2>1, <2>2, <2>3
  <2>9. cs[x.batch].status = bs[x.batch].status /\ Mine(x.batch, ms) = Mine(x.batch, ls)
    BY <2>6, <2>7
  <2>10. \A o \in Mine(x.batch, ls) :
            /\ (ms[o].status = "DRAFT" <=> ls[o].status = "DRAFT") /\ ms[o].token = ls[o].token
            /\ boxes[o] \subseteq mls[o]
    BY <2>5
  <2> HIDE DEF x, ls, ms, bs, cs, boxes, mls
  <2>11. TaskOK(x, ms, cs, mls)
    BY <2>8, <2>9, <2>10, TaskKept
  <2> QED BY <2>11 DEF x, ms, cs, mls
<1>7. ASSUME NEW u \in 1..Len(tasks'), tasks'[u] # Done
      PROVE  TaskOK(tasks'[u], offers', batches', inbox')
  <2>1. CASE u = t
    BY <1>5, <1>7, <2>1
  <2>2. CASE u # t
    <3>1. tasks'[u] = tasks[u] /\ u \in 1..Len(tasks)
      BY <1>3, <1>5, <2>2
    <3> QED BY <1>6, <1>7, <2>2, <3>1
  <2> QED BY <2>1, <2>2
<1>8. ASSUME NEW u \in 1..Len(tasks'), NEW v \in 1..Len(tasks'), tasks'[u] # Done,
             tasks'[v] # Done, tasks'[u].batch = tasks'[v].batch
      PROVE  u = v
  <2>1. u \in 1..Len(tasks) /\ v \in 1..Len(tasks)
    BY <1>3
  <2>2. tasks[u] # Done /\ tasks'[u].batch = tasks[u].batch
    BY <1>1, <1>5, <1>8, <2>1
  <2>3. tasks[v] # Done /\ tasks'[v].batch = tasks[v].batch
    BY <1>1, <1>5, <1>8, <2>1
  <2> QED BY <1>5, <1>8, <2>1, <2>2, <2>3 DEF TasksOK
<1>9. TasksOK(tasks', offers', batches', inbox')
  BY <1>7, <1>8 DEF TasksOK
<1>10. ASSUME NEW s \in Session
      PROVE  SessionOK(sessions[s], offers')
  <2>1. SessionOK(sessions[s], offers) /\ Len(offers) \in Nat
    BY DEF OffersInv, OffersTypes
  <2> QED BY <2>1, SessionKept
<1>11. ASSUME NEW c \in 1..Len(batches)
      PROVE  BatchOK(c, offers', batches')
  <2>1. CASE c = b
    BY <2>1
  <2>2. CASE c # b
    <3>1. BatchOK(c, offers, batches) /\ batches'[c] = batches[c]
      BY <2>2 DEF OffersInv
    <3>2. \A o \in Mine(c, offers) : o \in 1..Len(offers) /\ o \notin Mine(b, offers)
      BY <2>2 DEF Mine
    <3>3. \A o \in Mine(c, offers) : offers'[o] = offers[o]
      BY <3>2
    <3> QED BY ZenonT(40), <1>2, <3>1, <3>3, BatchKept
  <2> QED BY <2>1, <2>2
<1> QED BY <1>4, <1>9, <1>10, <1>11 DEF OffersInv

\* What a task with its letter in hand knows of it.
LEMMA InHand ==
    ASSUME OffersInv, NEW t \in 1..Len(tasks), tasks[t].pc \in TaskPc \ {"begin"},
           tasks[t].queue # <<>>
    PROVE  /\ tasks[t] \in TaskRow /\ TaskOK(tasks[t], offers, batches, inbox)
           /\ tasks[t].queue \in Seq(QueueEntry) /\ Len(tasks[t].queue) \in Nat \ {0}
           /\ Current(t) = tasks[t].queue[1] /\ Current(t) \in QueueEntry
           /\ Current(t).offer \in MineWith(tasks[t].batch, offers, {"DRAFT"})
           /\ Current(t).offer \in 1..Len(offers) /\ offers[Current(t).offer] \in OfferRow
           /\ offers[Current(t).offer].batch = tasks[t].batch
           /\ offers[Current(t).offer].status = "DRAFT"
           /\ offers[Current(t).offer].token = Current(t).token
           /\ tasks[t].batch \in 1..Len(batches)
<1>1. tasks[t] \in TaskRow /\ TaskOK(tasks[t], offers, batches, inbox)
  BY TaskIs DEF OffersInv, TasksOK
<1>2. tasks[t].queue \in Seq(QueueEntry) /\ Len(tasks[t].queue) \in Nat \ {0}
  BY <1>1, EmptySeq DEF TaskRow
<1>3. Current(t) = tasks[t].queue[1] /\ Current(t) \in QueueEntry
  BY <1>2 DEF Current
<1>4. QueueOK(tasks[t], offers) /\ 1 \in 1..Len(tasks[t].queue)
  BY <1>1, <1>2 DEF TaskOK
<1>5. Current(t).offer \in MineWith(tasks[t].batch, offers, {"DRAFT"})
      /\ offers[Current(t).offer].token = Current(t).token
  BY <1>3, <1>4 DEF QueueOK
<1>6. Current(t).offer \in 1..Len(offers) /\ offers[Current(t).offer].batch = tasks[t].batch
      /\ offers[Current(t).offer].status = "DRAFT"
  BY <1>5 DEF MineWith, Mine
<1>7. offers[Current(t).offer] \in OfferRow
  BY <1>6, ElementOfSeq DEF OffersInv, OffersTypes
<1> QED BY <1>1, <1>2, <1>3, <1>5, <1>6, <1>7 DEF TaskOK

\* The batch of a task is in progress, so nothing is promised of its figures.
LEMMA InProgressOK ==
    ASSUME NEW b, NEW ls, NEW ms, NEW bs, NEW cs, BatchOK(b, ls, bs),
           Mine(b, ms) = Mine(b, ls), cs[b].candidates = bs[b].candidates,
           cs[b].status \in {"QUEUED", "PROCESSING"}
    PROVE  BatchOK(b, ms, cs)
BY DEF BatchOK, Finished

\* Drafts lists the drafts of the batch, each once, with their tokens.
LEMMA DraftsListed ==
    ASSUME OffersInv, NEW b
    PROVE  /\ Drafts(b) \in Seq(QueueEntry)
           /\ QueueOK([pc |-> "next", batch |-> b, queue |-> Drafts(b)], offers)
<1> DEFINE S == {o \in LettersOf(b) : offers[o].status = "DRAFT"}
           q == Ascending(S)
           n == Cardinality(S)
<1>1. S = MineWith(b, offers, {"DRAFT"})
  BY DEF LettersOf, Letter, MineWith, Mine
<1>2. S \subseteq 1..Len(offers) /\ Len(offers) \in Nat
  BY DEF LettersOf, Letter, OffersInv, OffersTypes
<1>3. S \in SUBSET Nat /\ IsFiniteSet(S)
  <2>1. 1 \in Int /\ Len(offers) \in Int
    BY <1>2
  <2>2. IsFiniteSet(1..Len(offers))
    BY <2>1, FS_Interval
  <2>3. S \in SUBSET (1..Len(offers))
    BY <1>2
  <2> HIDE DEF S
  <2>4. IsFiniteSet(S)
    BY <2>2, <2>3, FS_Subset
  <2> QED BY <1>2, <2>4
<1>4. /\ q \in Seq(S) /\ Len(q) = n /\ n \in Nat /\ DOMAIN q = 1..n
      /\ \A i, j \in 1..n : q[i] = q[j] => i = j
      /\ \A x \in S : \E i \in 1..n : q[i] = x
  <2> HIDE DEF S
  <2> QED BY <1>3, AscendingLists
<1>5. Drafts(b) = [i \in 1..n |-> [offer |-> q[i], token |-> offers[q[i]].token]]
  BY <1>4 DEF Drafts
<1>6. \A i \in 1..n : q[i] \in S
  <2> HIDE DEF S, q
  <2> QED BY <1>4
<1>7. \A o \in S : offers[o].token \in 0..MaxTask /\ o \in Nat
  <2>1. offers \in Seq(OfferRow)
    BY DEF OffersInv, OffersTypes
  <2>2. \A o \in 1..Len(offers) : offers[o] \in OfferRow
    BY <2>1, ElementOfSeq
  <2>3. \A o \in S : offers[o] \in OfferRow /\ o \in Nat
    BY <1>2, <2>2
  <2> QED BY <2>3 DEF OfferRow
<1> HIDE DEF S, q, n
<1>8. Drafts(b) \in Seq(QueueEntry) /\ Len(Drafts(b)) = n
      /\ \A i \in 1..n : Drafts(b)[i].offer = q[i] /\ Drafts(b)[i].token = offers[q[i]].token
  <2>1. \A i \in 1..n : [offer |-> q[i], token |-> offers[q[i]].token] \in QueueEntry
    BY <1>6, <1>7 DEF QueueEntry
  <2>2. Drafts(b) \in [1..n -> QueueEntry]
    BY <1>5, <2>1
  <2>3. Drafts(b) \in Seq(QueueEntry)
    BY <1>4, <2>2
  <2>4. DOMAIN Drafts(b) = 1..n
    BY <1>5
  <2>5. Len(Drafts(b)) = n
    BY <1>4, <2>3, <2>4
  <2>6. \A i \in 1..n : Drafts(b)[i].offer = q[i] /\ Drafts(b)[i].token = offers[q[i]].token
    BY <1>5
  <2> QED BY <2>3, <2>5, <2>6
<1>9. QueueOK([pc |-> "next", batch |-> b, queue |-> Drafts(b)], offers)
  BY <1>1, <1>4, <1>6, <1>8 DEF QueueOK
<1> QED BY <1>8, <1>9

\* What a step leaves of the letters, when it writes none of them.
LEMMA LettersStay ==
    ASSUME OffersInv, NEW b, UNCHANGED offers, Len(batches') = Len(batches),
           \A o \in 1..Len(offers) : inbox[o] \subseteq inbox'[o]
    PROVE  \A o \in 1..Len(offers) :
              /\ offers'[o].app = offers[o].app /\ offers'[o].batch = offers[o].batch
              /\ offers[o].status \in Out => offers'[o] = offers[o]
              /\ o \notin Mine(b, offers) => offers'[o] = offers[o]
              /\ inbox[o] \subseteq inbox'[o]
              /\ LetterOK(o, offers', batches', inbox')
<1> SUFFICES ASSUME NEW o \in 1..Len(offers)
             PROVE  LetterOK(o, offers', batches', inbox')
  OBVIOUS
<1> DEFINE ls == offers
           ms == offers'
           bs == batches
           cs == batches'
           boxes == inbox
           mls == inbox'
<1>1. LetterOK(o, ls, bs, boxes) /\ ms[o] = ls[o] /\ boxes[o] \subseteq mls[o]
  BY DEF OffersInv
<1>2. Len(bs) \in Nat /\ Len(cs) \in Nat /\ Len(bs) <= Len(cs)
  BY DEF OffersInv, OffersTypes
<1>3. Len(ls) \in Nat /\ Len(ms) \in Nat /\ Len(ls) <= Len(ms)
  BY DEF OffersInv, OffersTypes
<1>4. \A p \in 1..Len(ls) : ms[p].app = ls[p].app
  OBVIOUS
<1> HIDE DEF ls, ms, bs, cs, boxes, mls
<1>5. LetterOK(o, ms, cs, mls)
  BY <1>1, <1>2, <1>3, <1>4, LetterKept
<1> QED BY <1>5 DEF ms, cs, mls

\* What a step leaves of the letters, when it writes the draft at n.
LEMMA DraftWritten ==
    ASSUME OffersInv, NEW n \in 1..Len(offers), offers[n].status = "DRAFT",
           NEW row \in OfferRow, row.app = offers[n].app, row.batch = offers[n].batch,
           row.error <=> row.status = "FAILED", row.status # "WITHDRAWN",
           row.status \in Out => \E mail \in inbox[n] : mail[2] = row.token,
           offers' = [offers EXCEPT ![n] = row], UNCHANGED <<batches, inbox>>
    PROVE  /\ offers' \in Seq(OfferRow) /\ Len(offers') = Len(offers) /\ offers'[n] = row
           /\ \A o \in 1..Len(offers) : o # n => offers'[o] = offers[o]
           /\ \A c : Mine(c, offers') = Mine(c, offers)
           /\ \A o \in 1..Len(offers) :
              /\ offers'[o].app = offers[o].app /\ offers'[o].batch = offers[o].batch
              /\ offers[o].status \in Out => offers'[o] = offers[o]
              /\ o \notin Mine(offers[n].batch, offers) => offers'[o] = offers[o]
              /\ inbox[o] \subseteq inbox'[o]
              /\ LetterOK(o, offers', batches', inbox')
<1>1. offers \in Seq(OfferRow) /\ Len(offers) \in Nat /\ Len(batches) \in Nat
  BY DEF OffersInv, OffersTypes
<1>2. /\ offers' \in Seq(OfferRow) /\ Len(offers') = Len(offers) /\ offers'[n] = row
      /\ \A o \in 1..Len(offers) : o # n => offers'[o] = offers[o]
      /\ \A o \in 1..Len(offers) :
            offers'[o].app = offers[o].app /\ offers'[o].batch = offers[o].batch
      /\ \A c : Mine(c, offers') = Mine(c, offers)
  <2>1. /\ offers' \in Seq(OfferRow) /\ Len(offers') = Len(offers)
        /\ \A o \in 1..Len(offers) : offers'[o] = IF o = n THEN row ELSE offers[o]
    BY <1>1, ExceptSeq
  <2>2. \A o \in 1..Len(offers) :
           offers'[o].app = offers[o].app /\ offers'[o].batch = offers[o].batch
    BY <2>1
  <2>3. \A c : Mine(c, offers') = Mine(c, offers)
    BY <2>1, <2>2 DEF Mine
  <2> QED BY <2>1, <2>2, <2>3
<1>3. \A o \in 1..Len(offers) : offers[o].status \in Out => o # n
  BY DEF Out, Answer
<1>4. \A o \in 1..Len(offers) : o \notin Mine(offers[n].batch, offers) => o # n
  BY DEF Mine
<1>5. ASSUME NEW o \in 1..Len(offers)
      PROVE  LetterOK(o, offers', batches, inbox)
  <2>1. CASE o = n
    <3>1. offers[n].batch \in 1..Len(batches)
      BY DEF OffersInv, LetterOK
    <3> QED BY <1>2, <2>1, <3>1 DEF LetterOK
  <2>2. CASE o # n
    <3>1. LetterOK(o, offers, batches, inbox) /\ offers'[o] = offers[o]
      BY <1>2, <2>2 DEF OffersInv
    <3>2. \A p \in 1..Len(offers) : offers'[p].app = offers[p].app
      BY <1>2
    <3> QED BY <1>2, <3>1, <3>2 DEF LetterOK
  <2> QED BY <2>1, <2>2
<1> QED BY <1>2, <1>3, <1>4, <1>5

LEMMA TailOf ==
    ASSUME NEW q \in Seq(QueueEntry), q # <<>>
    PROVE  /\ Tail(q) \in Seq(QueueEntry) /\ Len(q) \in Nat \ {0} /\ Len(Tail(q)) = Len(q) - 1
           /\ \A i \in 1..Len(Tail(q)) : i + 1 \in 1..Len(q) /\ Tail(q)[i] = q[i + 1]
<1>1. Len(q) \in Nat \ {0}
  BY EmptySeq
<1> QED BY <1>1

LEMMA Requeued ==
    ASSUME NEW q \in Seq(QueueEntry), q # <<>>, NEW e \in QueueEntry, NEW r, r = <<e>> \o Tail(q)
    PROVE  /\ r \in Seq(QueueEntry) /\ Len(r) = Len(q) /\ r[1] = e /\ r # <<>>
           /\ \A i \in 1..Len(q) : i # 1 => r[i] = q[i]
<1>1. Tail(q) \in Seq(QueueEntry) /\ Len(q) \in Nat \ {0} /\ Len(Tail(q)) = Len(q) - 1
      /\ \A i \in 1..Len(Tail(q)) : Tail(q)[i] = q[i + 1]
  BY TailOf
<1> DEFINE w == Tail(q)
           h == <<e>>
<1>2. h \in Seq(QueueEntry) /\ Len(h) = 1 /\ h[1] = e /\ w \in Seq(QueueEntry)
  BY <1>1
<1> HIDE DEF w, h
<1>3. h \o w \in Seq(QueueEntry) /\ Len(h \o w) = 1 + Len(w)
      /\ \A i \in 1..Len(h) + Len(w) : (h \o w)[i] = IF i <= Len(h) THEN h[i] ELSE w[i - Len(h)]
  BY ZenonT(40), <1>2, ConcatProperties
<1>4. r = h \o w
  BY DEF h, w
<1>5. Len(w) = Len(q) - 1 /\ \A i \in 1..Len(w) : w[i] = q[i + 1]
  BY <1>1 DEF w
<1>6. \A i \in 1..Len(q) : i # 1 => r[i] = q[i]
  <2> SUFFICES ASSUME NEW i \in 1..Len(q), i # 1
               PROVE  r[i] = q[i]
    OBVIOUS
  <2>1. i - 1 \in 1..Len(w) /\ i \in 1..1 + Len(w) /\ i - 1 + 1 = i
    BY <1>1, <1>5
  <2> QED BY <1>2, <1>3, <1>4, <1>5, <2>1
<1> QED BY <1>1, <1>2, <1>3, <1>4, <1>5, <1>6

\* The head of the queue is done with.
LEMMA QueueTail ==
    ASSUME NEW k, NEW m, NEW ls, NEW ms, QueueOK(k, ls), k.queue \in Seq(QueueEntry),
           k.queue # <<>>, m.batch = k.batch, m.queue = Tail(k.queue),
           Mine(k.batch, ms) = Mine(k.batch, ls),
           \A o \in Mine(k.batch, ls) : o # k.queue[1].offer => ms[o] = ls[o],
           ms[k.queue[1].offer].status # "DRAFT"
    PROVE  QueueOK(m, ms)
<1> DEFINE q == k.queue
           n == k.queue[1].offer
<1>1. Tail(q) \in Seq(QueueEntry) /\ Len(q) \in Nat \ {0} /\ Len(Tail(q)) = Len(q) - 1
      /\ \A i \in 1..Len(Tail(q)) : i + 1 \in 1..Len(q) /\ Tail(q)[i] = q[i + 1]
  BY TailOf
<1>2. MineWith(k.batch, ms, {"DRAFT"}) = MineWith(k.batch, ls, {"DRAFT"}) \ {n}
  BY DEF MineWith
<1>3. \A i \in 1..Len(Tail(q)) : Tail(q)[i].offer # n
  BY <1>1 DEF QueueOK
<1>4. \A i \in 1..Len(m.queue) :
          /\ m.queue[i].offer \in MineWith(m.batch, ms, {"DRAFT"})
          /\ ms[m.queue[i].offer].token = m.queue[i].token
  BY <1>1, <1>2, <1>3 DEF QueueOK, MineWith
<1>5. \A i, j \in 1..Len(m.queue) : m.queue[i].offer = m.queue[j].offer => i = j
  BY <1>1 DEF QueueOK
<1>6. \A o \in MineWith(m.batch, ms, {"DRAFT"}) : \E i \in 1..Len(m.queue) : m.queue[i].offer = o
  <2> SUFFICES ASSUME NEW o \in MineWith(m.batch, ms, {"DRAFT"})
               PROVE  \E i \in 1..Len(m.queue) : m.queue[i].offer = o
    OBVIOUS
  <2>1. PICK i \in 1..Len(q) : q[i].offer = o
    BY <1>2 DEF QueueOK
  <2>2. i # 1
    BY <1>2, <2>1
  <2>3. i - 1 \in 1..Len(Tail(q)) /\ (i - 1) + 1 = i
    BY <1>1, <2>2
  <2> QED BY <1>1, <2>1, <2>3
<1> QED BY <1>4, <1>5, <1>6 DEF QueueOK

\* The head of the queue has got its token.
LEMMA QueueHead ==
    ASSUME NEW k, NEW m, NEW ls, NEW ms, QueueOK(k, ls), k.queue \in Seq(QueueEntry),
           k.queue # <<>>, NEW e \in QueueEntry,
           m.batch = k.batch, m.queue = <<e>> \o Tail(k.queue), e.offer = k.queue[1].offer,
           Mine(k.batch, ms) = Mine(k.batch, ls),
           \A o \in Mine(k.batch, ls) : o # e.offer => ms[o] = ls[o],
           ms[e.offer].status = "DRAFT", ms[e.offer].token = e.token
    PROVE  QueueOK(m, ms)
<1> DEFINE q == k.queue
           r == m.queue
<1>1. /\ r \in Seq(QueueEntry) /\ Len(r) = Len(q) /\ r[1] = e
      /\ \A i \in 1..Len(q) : i # 1 => r[i] = q[i]
  <2> HIDE DEF q, r
  <2>1. q \in Seq(QueueEntry) /\ q # <<>> /\ r = <<e>> \o Tail(q)
    BY DEF q, r
  <2> QED BY <2>1, Requeued
<1>2. Len(q) \in Nat \ {0}
  BY TailOf
<1>3. e.offer \in MineWith(k.batch, ls, {"DRAFT"})
  BY <1>2 DEF QueueOK
<1>4. MineWith(k.batch, ms, {"DRAFT"}) = MineWith(k.batch, ls, {"DRAFT"})
  BY <1>3 DEF MineWith
<1>5. \A i \in 1..Len(q) : r[i].offer = q[i].offer
  BY <1>1
<1>6. \A i \in 1..Len(r) : ms[r[i].offer].token = r[i].token
  <2> SUFFICES ASSUME NEW i \in 1..Len(q)
               PROVE  ms[r[i].offer].token = r[i].token
    BY <1>1
  <2>1. CASE i = 1
    BY <1>1, <2>1
  <2>2. CASE i # 1
    <3>1. q[i].offer # e.offer /\ q[i].offer \in Mine(k.batch, ls) /\ ls[q[i].offer].token = q[i].token
      BY <1>2, <2>2 DEF QueueOK, MineWith
    <3> QED BY <1>1, <2>2, <3>1
  <2> QED BY <2>1, <2>2
<1>7. \A i \in 1..Len(m.queue) :
          /\ m.queue[i].offer \in MineWith(m.batch, ms, {"DRAFT"})
          /\ ms[m.queue[i].offer].token = m.queue[i].token
  <2>1. \A i \in 1..Len(q) : q[i].offer \in MineWith(k.batch, ls, {"DRAFT"})
    BY DEF QueueOK
  <2> QED BY <1>1, <1>4, <1>5, <1>6, <2>1
<1>8. \A i, j \in 1..Len(m.queue) : m.queue[i].offer = m.queue[j].offer => i = j
  <2>1. \A i, j \in 1..Len(q) : q[i].offer = q[j].offer => i = j
    BY DEF QueueOK
  <2> QED BY <1>1, <1>5, <2>1
<1>9. \A o \in MineWith(m.batch, ms, {"DRAFT"}) : \E i \in 1..Len(m.queue) : m.queue[i].offer = o
  <2>1. \A o \in MineWith(k.batch, ls, {"DRAFT"}) : \E i \in 1..Len(q) : q[i].offer = o
    BY DEF QueueOK
  <2> QED BY <1>1, <1>4, <1>5, <2>1
<1> QED BY <1>7, <1>8, <1>9 DEF QueueOK

LEMMA BeginKeeps ==
    ASSUME OffersInv, NEW t \in 1..Len(tasks), Begin(t)
    PROVE  OffersInv'
<1> DEFINE b == tasks[t].batch
           k == [pc |-> "next", batch |-> b, queue |-> Drafts(b)]
<1>1. tasks[t].pc = "begin" /\ tasks[t].pc \in TaskPc
  BY DEF Begin, TaskPc
<1>2. tasks[t] \in TaskRow /\ tasks[t] # Done
  BY <1>1, TaskIs DEF OffersInv
<1>3. b \in 1..Len(batches) /\ batches[b].status \in {"QUEUED", "PROCESSING"}
  BY <1>2 DEF OffersInv, TasksOK, TaskOK
<1>4. /\ batches' = [batches EXCEPT ![b].status = "PROCESSING"]
      /\ tasks' = [tasks EXCEPT ![t] = k]
      /\ UNCHANGED <<stage, offers, overdue, sessions, inbox, restarts>>
  BY <1>3 DEF Begin, Become
<1>5. Drafts(b) \in Seq(QueueEntry) /\ QueueOK(k, offers)
  <2> HIDE DEF b
  <2> QED BY DraftsListed
<1>6. b \in 1..MaxBatch
  BY <1>2 DEF TaskRow
<1>7. k \in TaskRow
  BY <1>5, <1>6 DEF TaskRow, TaskPc
<1>8. /\ batches' \in Seq(BatchRow) /\ Len(batches') = Len(batches)
      /\ batches'[b].candidates = batches[b].candidates
      /\ batches'[b].status = "PROCESSING"
      /\ \A c \in 1..Len(batches) : c # b => batches'[c] = batches[c]
  <2> DEFINE row == [batches[b] EXCEPT !.status = "PROCESSING"]
  <2>1. batches \in Seq(BatchRow)
    BY DEF OffersInv, OffersTypes
  <2>2. batches[b] \in BatchRow
    BY <1>3, <2>1, ElementOfSeq
  <2>3. row \in BatchRow /\ row.candidates = batches[b].candidates /\ row.status = "PROCESSING"
    BY <2>2 DEF BatchRow, BatchStatus
  <2>4. batches' = [batches EXCEPT ![b] = row]
    BY <1>4
  <2> HIDE DEF row
  <2> QED BY <1>3, <2>1, <2>3, <2>4, ExceptSeq
<1>9. TaskOK(k, offers', batches', inbox')
  BY <1>3, <1>4, <1>5, <1>8 DEF TaskOK
<1>10. BatchOK(b, offers', batches')
  <2>1. BatchOK(b, offers, batches)
    BY <1>3 DEF OffersInv
  <2> QED BY <1>4, <1>8, <2>1 DEF BatchOK, Finished
<1>11. \A o \in 1..Len(offers) :
          /\ offers'[o].app = offers[o].app /\ offers'[o].batch = offers[o].batch
          /\ offers[o].status \in Out => offers'[o] = offers[o]
          /\ o \notin Mine(b, offers) => offers'[o] = offers[o]
          /\ inbox[o] \subseteq inbox'[o]
          /\ LetterOK(o, offers', batches', inbox')
  BY <1>4, <1>8, LettersStay
<1>12. k # Done => k.batch = b /\ TaskOK(k, offers', batches', inbox')
  BY <1>9
<1>13. /\ offers' \in Seq(OfferRow) /\ Len(offers') = Len(offers)
       /\ inbox' \in Seq(Box) /\ Len(inbox') = Len(inbox)
  BY <1>4 DEF OffersInv, OffersTypes
<1> HIDE DEF k
<1> QED BY <1>1, <1>4, <1>7, <1>8, <1>10, <1>11, <1>12, <1>13, TaskGoesOn

\* A task goes on with the letter in hand; only the mailbox of its candidate may
\* have got a mail.
LEMMA HandStays ==
    ASSUME OffersInv, NEW t \in 1..Len(tasks), tasks[t].pc \in TaskPc \ {"begin"},
           tasks[t].queue # <<>>, NEW pc \in {"mail", "failed", "sent"},
           tasks' = [tasks EXCEPT ![t] = [tasks[t] EXCEPT !.pc = pc]],
           pc # "failed" => tasks[t].pc = "mail",
           pc = "sent" => \E mail \in inbox'[Current(t).offer] : mail[2] = Current(t).token,
           inbox' \in Seq(Box), Len(inbox') = Len(inbox),
           \A o \in 1..Len(offers) : inbox[o] \subseteq inbox'[o],
           UNCHANGED <<stage, offers, batches, overdue, sessions, restarts>>
    PROVE  OffersInv'
<1> DEFINE k == [tasks[t] EXCEPT !.pc = pc]
<1>1. /\ tasks[t] \in TaskRow /\ TaskOK(tasks[t], offers, batches, inbox)
      /\ Current(t) = tasks[t].queue[1]
      /\ tasks[t].batch \in 1..Len(batches)
  BY InHand
<1>2. /\ k \in TaskRow /\ k.pc = pc /\ k.batch = tasks[t].batch /\ k.queue = tasks[t].queue
  BY <1>1 DEF TaskRow, TaskPc
<1>3. tasks' = [tasks EXCEPT ![t] = k]
  OBVIOUS
<1> HIDE DEF k
<1>4. QueueOK(k, offers)
  BY SMTT(30), <1>1, <1>2 DEF TaskOK, QueueOK
<1>5. TaskOK(k, offers', batches', inbox')
  BY <1>1, <1>2, <1>4 DEF TaskOK
<1>6. BatchOK(tasks[t].batch, offers', batches')
  BY <1>1 DEF OffersInv
<1>7. \A o \in 1..Len(offers) :
          /\ offers'[o].app = offers[o].app /\ offers'[o].batch = offers[o].batch
          /\ offers[o].status \in Out => offers'[o] = offers[o]
          /\ o \notin Mine(tasks[t].batch, offers) => offers'[o] = offers[o]
          /\ inbox[o] \subseteq inbox'[o]
          /\ LetterOK(o, offers', batches', inbox')
  BY LettersStay
<1>8. k # Done => k.batch = tasks[t].batch /\ TaskOK(k, offers', batches', inbox')
  BY <1>2, <1>5
<1>9. /\ offers' \in Seq(OfferRow) /\ Len(offers') = Len(offers)
      /\ batches' \in Seq(BatchRow) /\ Len(batches') = Len(batches)
      /\ \A c \in 1..Len(batches) : c # tasks[t].batch => batches'[c] = batches[c]
  BY DEF OffersInv, OffersTypes
<1> QED BY ZenonT(40), <1>2, <1>3, <1>6, <1>7, <1>8, <1>9, TaskGoesOn

LEMMA RenderFailsKeeps ==
    ASSUME OffersInv, NEW t \in 1..Len(tasks), RenderFails(t)
    PROVE  OffersInv'
<1>1. tasks[t].pc \in TaskPc \ {"begin"} /\ tasks[t].queue # <<>>
      /\ tasks' = [tasks EXCEPT ![t] = [tasks[t] EXCEPT !.pc = "failed"]]
      /\ UNCHANGED <<stage, offers, batches, overdue, sessions, inbox, restarts>>
  BY DEF RenderFails, GoTo, Become, TaskPc
<1>2. inbox' \in Seq(Box) /\ Len(inbox') = Len(inbox)
      /\ \A o \in 1..Len(offers) : inbox[o] \subseteq inbox'[o]
  BY <1>1 DEF OffersInv, OffersTypes
<1>3. PICK pc \in {"mail", "failed", "sent"} : pc = "failed"
  OBVIOUS
<1> QED BY <1>1, <1>2, <1>3, HandStays

LEMMA SendMailKeeps ==
    ASSUME OffersInv, NEW t \in 1..Len(tasks), NEW delivered \in BOOLEAN, NEW ok \in BOOLEAN,
           SendMail(t, delivered, ok)
    PROVE  OffersInv'
<1> DEFINE n == Current(t).offer
           mail == <<t, Current(t).token>>
<1>1. tasks[t].pc = "mail" /\ tasks[t].pc \in TaskPc \ {"begin"} /\ (ok => delivered)
      /\ inbox' = (IF delivered THEN [inbox EXCEPT ![n] = inbox[n] \cup {mail}] ELSE inbox)
      /\ UNCHANGED <<stage, offers, batches, overdue, sessions, restarts>>
  BY DEF SendMail, TaskPc
<1>2. tasks[t].queue # <<>>
  BY <1>1, TaskIs DEF OffersInv, TasksOK, TaskOK
<1>3. /\ TaskOK(tasks[t], offers, batches, inbox)
      /\ Current(t) = tasks[t].queue[1] /\ Current(t) \in QueueEntry
      /\ n \in 1..Len(offers)
  BY <1>1, <1>2, InHand
<1>4. inbox \in Seq(Box) /\ n \in 1..Len(inbox) /\ inbox[n] \in Box
  <2>1. inbox \in Seq(Box) /\ n \in 1..Len(inbox)
    BY <1>3 DEF OffersInv, OffersTypes
  <2> HIDE DEF n
  <2> QED BY <2>1, ElementOfSeq
<1>5. mail \in (1..MaxTask) \X (1..MaxTask)
  <2>1. Current(t).token # 0
    BY <1>1, <1>3 DEF TaskOK
  <2>2. Current(t).token \in 1..MaxTask
    BY <1>3, <2>1, OffersConstants DEF QueueEntry
  <2>3. t \in 1..MaxTask
    BY OffersConstants DEF OffersInv, OffersTypes
  <2> QED BY <2>2, <2>3
<1>6. inbox[n] \cup {mail} \in Box
  BY <1>4, <1>5 DEF Box
<1>7. /\ inbox' \in Seq(Box) /\ Len(inbox') = Len(inbox)
      /\ \A o \in 1..Len(inbox) :
            inbox'[o] = IF delivered /\ o = n THEN inbox[n] \cup {mail} ELSE inbox[o]
  <2>1. CASE delivered
    <3> DEFINE box == inbox[n] \cup {mail}
    <3>1. inbox' = [inbox EXCEPT ![n] = box] /\ box \in Box
      BY <1>1, <1>6, <2>1
    <3> HIDE DEF box, n, mail
    <3>2. /\ inbox' \in Seq(Box) /\ Len(inbox') = Len(inbox)
          /\ \A o \in 1..Len(inbox) : inbox'[o] = IF o = n THEN box ELSE inbox[o]
      BY <1>4, <3>1, ExceptSeq
    <3> QED BY <2>1, <3>2 DEF box
  <2>2. CASE ~delivered
    BY <1>1, <1>4, <2>2
  <2> QED BY <2>1, <2>2
<1>8. Len(inbox) = Len(offers)
  BY DEF OffersInv, OffersTypes
<1>9. \A o \in 1..Len(offers) : inbox[o] \subseteq inbox'[o]
  BY <1>7, <1>8
<1>10. PICK pc \in {"mail", "failed", "sent"} : pc = (IF ok THEN "sent" ELSE "failed")
  OBVIOUS
<1>11. tasks' = [tasks EXCEPT ![t] = [tasks[t] EXCEPT !.pc = pc]]
  BY <1>10 DEF SendMail, GoTo, Become
<1>12. pc = "sent" => \E m \in inbox'[Current(t).offer] : m[2] = Current(t).token
  <2>1. pc = "sent" => mail \in inbox'[n]
    BY <1>1, <1>4, <1>7, <1>10
  <2>2. mail[2] = Current(t).token
    OBVIOUS
  <2> QED BY <2>1, <2>2
<1> HIDE DEF n, mail
<1> QED BY <1>1, <1>2, <1>7, <1>9, <1>11, <1>12, HandStays

LEMMA SaveLinkKeeps ==
    ASSUME OffersInv, NEW t \in 1..Len(tasks), SaveLink(t)
    PROVE  OffersInv'
<1> DEFINE b == tasks[t].batch
           n == Current(t).offer
           token == IF Current(t).token = 0 THEN t ELSE Current(t).token
           row == [offers[n] EXCEPT !.token = token]
           e == [offer |-> n, token |-> token]
           r == <<e>> \o Tail(tasks[t].queue)
           k == [tasks[t] EXCEPT !.pc = "mail", !.queue = r]
<1>1. tasks[t].pc \in TaskPc \ {"begin"} /\ tasks[t].queue # <<>>
      /\ tasks' = [tasks EXCEPT ![t] = k]
      /\ offers' = (IF Current(t).token = 0 THEN [offers EXCEPT ![n].token = token] ELSE offers)
      /\ UNCHANGED <<stage, batches, overdue, sessions, inbox, restarts>>
  BY DEF SaveLink, Become, TaskPc
<1>2. /\ tasks[t] \in TaskRow /\ TaskOK(tasks[t], offers, batches, inbox)
      /\ tasks[t].queue \in Seq(QueueEntry)
      /\ Current(t) = tasks[t].queue[1] /\ Current(t) \in QueueEntry
      /\ n \in 1..Len(offers) /\ offers[n] \in OfferRow
      /\ offers[n].batch = b /\ offers[n].status = "DRAFT"
      /\ offers[n].token = Current(t).token /\ b \in 1..Len(batches)
  BY <1>1, InHand
<1>3. token \in 1..MaxTask
  <2>1. t \in 1..MaxTask
    BY OffersConstants DEF OffersInv, OffersTypes
  <2> QED BY <1>2, <2>1, OffersConstants DEF QueueEntry
<1>4. /\ row \in OfferRow /\ row.app = offers[n].app /\ row.batch = offers[n].batch
      /\ row.status = "DRAFT" /\ row.error = offers[n].error /\ row.token = token
  <2> DEFINE o == offers[n]
  <2>1. o \in OfferRow /\ o.status = "DRAFT"
    BY <1>2
  <2>2. row = [o EXCEPT !.token = token]
    OBVIOUS
  <2> HIDE DEF token, n, o, row
  <2>3. row \in OfferRow
    BY <1>3, <2>1, <2>2 DEF OfferRow
  <2>4. /\ row.app = o.app /\ row.batch = o.batch /\ row.status = o.status
        /\ row.error = o.error /\ row.token = token
    BY <2>1, <2>2 DEF OfferRow
  <2> QED BY <2>1, <2>3, <2>4 DEF o
<1>5. offers' = [offers EXCEPT ![n] = row]
  <2>0. offers \in Seq(OfferRow)
    BY DEF OffersInv, OffersTypes
  <2>1. CASE Current(t).token = 0
    BY <1>1, <2>1
  <2>2. CASE Current(t).token # 0
    <3>1. offers' = offers /\ row = offers[n]
      BY <1>1, <1>2, <2>2 DEF OfferRow
    <3> HIDE DEF row, n
    <3> QED BY <1>2, <2>0, <3>1
  <2> QED BY <2>1, <2>2
<1>6. ~offers[n].error
  BY <1>2 DEF OffersInv, LetterOK
<1>7. e \in QueueEntry /\ e.offer = n /\ e.token = token
  BY SMTT(30), <1>2, <1>3 DEF QueueEntry, OffersInv, OffersTypes
<1> HIDE DEF n, row, token, e
<1>8. /\ offers' \in Seq(OfferRow) /\ Len(offers') = Len(offers) /\ offers'[n] = row
      /\ \A o \in 1..Len(offers) : o # n => offers'[o] = offers[o]
      /\ \A c : Mine(c, offers') = Mine(c, offers)
      /\ \A o \in 1..Len(offers) :
              /\ offers'[o].app = offers[o].app /\ offers'[o].batch = offers[o].batch
              /\ offers[o].status \in Out => offers'[o] = offers[o]
              /\ o \notin Mine(offers[n].batch, offers) => offers'[o] = offers[o]
              /\ inbox[o] \subseteq inbox'[o]
              /\ LetterOK(o, offers', batches', inbox')
  <2>1. (row.error <=> row.status = "FAILED") /\ row.status # "WITHDRAWN" /\ row.status \notin Out
    BY <1>4, <1>6 DEF Out, Answer
  <2>2. UNCHANGED <<batches, inbox>>
    BY <1>1
  <2> QED BY <1>2, <1>4, <1>5, <2>1, <2>2, DraftWritten
<1>9. r \in Seq(QueueEntry) /\ r # <<>> /\ r[1] = e
  <2> HIDE DEF r
  <2>1. r = <<e>> \o Tail(tasks[t].queue)
    BY DEF r
  <2> QED BY <1>1, <1>2, <1>7, <2>1, Requeued
<1>10. k \in TaskRow /\ k.pc = "mail" /\ k.batch = b /\ k.queue = r
  <2> HIDE DEF r
  <2> QED BY <1>2, <1>9 DEF TaskRow, TaskPc
<1>11. QueueOK(k, offers')
  <2> DEFINE k0 == tasks[t]
             ls == offers
             ms == offers'
  <2>1. QueueOK(k0, ls) /\ k0.queue \in Seq(QueueEntry) /\ k0.queue # <<>>
    BY <1>1, <1>2 DEF TaskOK
  <2>2. k.batch = k0.batch /\ k.queue = <<e>> \o Tail(k0.queue) /\ e.offer = k0.queue[1].offer
    BY <1>2, <1>7, <1>10 DEF n
  <2>3. Mine(k0.batch, ms) = Mine(k0.batch, ls)
        /\ \A o \in Mine(k0.batch, ls) : o # e.offer => ms[o] = ls[o]
    BY <1>7, <1>8 DEF Mine
  <2>4. ms[e.offer].status = "DRAFT" /\ ms[e.offer].token = e.token
    BY <1>4, <1>7, <1>8
  <2> HIDE DEF k0, ls, ms, k
  <2>5. QueueOK(k, ms)
    BY <1>7, <2>1, <2>2, <2>3, <2>4, QueueHead
  <2> QED BY <2>5 DEF ms
<1>12. TaskOK(k, offers', batches', inbox')
  <2>1. k.queue # <<>> /\ k.queue[1].token # 0 /\ k.pc = "mail" /\ k.batch = b
    BY <1>3, <1>7, <1>9, <1>10
  <2>2. batches[b].status \in {"QUEUED", "PROCESSING"} /\ UNCHANGED batches
    BY <1>1, <1>2 DEF TaskOK
  <2> HIDE DEF k
  <2> QED BY <1>2, <1>11, <2>1, <2>2 DEF TaskOK
<1>13. BatchOK(b, offers', batches')
  <2>1. BatchOK(b, offers, batches) /\ batches[b].status \in {"QUEUED", "PROCESSING"}
    BY <1>2 DEF OffersInv, TaskOK
  <2>2. UNCHANGED batches /\ Mine(b, offers') = Mine(b, offers)
    BY <1>1, <1>8
  <2> HIDE DEF b
  <2> QED BY <2>1, <2>2 DEF BatchOK, Finished
<1>14. k # Done => k.batch = tasks[t].batch /\ TaskOK(k, offers', batches', inbox')
  BY <1>10, <1>12
<1>15. /\ inbox' \in Seq(Box) /\ Len(inbox') = Len(inbox)
       /\ batches' \in Seq(BatchRow) /\ Len(batches') = Len(batches)
       /\ \A c \in 1..Len(batches) : c # tasks[t].batch => batches'[c] = batches[c]
  BY <1>1 DEF OffersInv, OffersTypes
<1> HIDE DEF k
<1> QED BY ZenonT(40), <1>1, <1>2, <1>8, <1>10, <1>13, <1>14, <1>15, TaskGoesOn

\* A task is done with the letter in hand: it is out, or it has failed.
LEMMA HandDone ==
    ASSUME OffersInv, NEW t \in 1..Len(tasks), tasks[t].pc \in {"sent", "failed"},
           NEW row \in OfferRow,
           row.app = offers[Current(t).offer].app, row.batch = offers[Current(t).offer].batch,
           row.token = offers[Current(t).offer].token,
           \/ tasks[t].pc = "sent" /\ row.status = "SENT" /\ ~row.error
           \/ row.status = "FAILED" /\ row.error,
           offers' = [offers EXCEPT ![Current(t).offer] = row],
           tasks' = [tasks EXCEPT ![t] = [tasks[t] EXCEPT !.pc = "next", !.queue = Tail(tasks[t].queue)]],
           UNCHANGED <<stage, batches, overdue, sessions, inbox, restarts>>
    PROVE  OffersInv'
<1> DEFINE b == tasks[t].batch
           n == Current(t).offer
           r == Tail(tasks[t].queue)
           k == [tasks[t] EXCEPT !.pc = "next", !.queue = r]
<1>1. tasks[t].pc \in TaskPc \ {"begin"} /\ tasks[t].queue # <<>>
  <2>1. tasks[t].pc \in TaskPc \ {"begin"}
    BY DEF TaskPc
  <2> QED BY <2>1, TaskIs DEF OffersInv, TasksOK, TaskOK
<1>2. /\ tasks[t] \in TaskRow /\ TaskOK(tasks[t], offers, batches, inbox)
      /\ tasks[t].queue \in Seq(QueueEntry)
      /\ Current(t) = tasks[t].queue[1]
      /\ n \in 1..Len(offers) /\ offers[n] \in OfferRow
      /\ offers[n].batch = b /\ offers[n].status = "DRAFT"
      /\ offers[n].token = Current(t).token /\ b \in 1..Len(batches)
  BY <1>1, InHand
<1>3. row.status \in Out => \E mail \in inbox[n] : mail[2] = row.token
  <2>1. row.status \in Out => tasks[t].pc = "sent"
    BY DEF Out, Answer
  <2> QED BY <1>2, <2>1 DEF TaskOK
<1>4. (row.error <=> row.status = "FAILED") /\ row.status # "WITHDRAWN" /\ row.status # "DRAFT"
  OBVIOUS
<1>5. tasks' = [tasks EXCEPT ![t] = k] /\ offers' = [offers EXCEPT ![n] = row]
  OBVIOUS
<1> HIDE DEF n
<1>6. /\ offers' \in Seq(OfferRow) /\ Len(offers') = Len(offers) /\ offers'[n] = row
      /\ \A o \in 1..Len(offers) : o # n => offers'[o] = offers[o]
      /\ \A c : Mine(c, offers') = Mine(c, offers)
      /\ \A o \in 1..Len(offers) :
              /\ offers'[o].app = offers[o].app /\ offers'[o].batch = offers[o].batch
              /\ offers[o].status \in Out => offers'[o] = offers[o]
              /\ o \notin Mine(offers[n].batch, offers) => offers'[o] = offers[o]
              /\ inbox[o] \subseteq inbox'[o]
              /\ LetterOK(o, offers', batches', inbox')
  <2>1. row.app = offers[n].app /\ row.batch = offers[n].batch /\ UNCHANGED <<batches, inbox>>
    BY DEF n
  <2> QED BY ZenonT(40), <1>2, <1>3, <1>4, <1>5, <2>1, DraftWritten
<1>7. r \in Seq(QueueEntry)
  BY <1>1, <1>2, TailOf
<1>8. k \in TaskRow /\ k.pc = "next" /\ k.batch = b /\ k.queue = r
  <2> HIDE DEF r
  <2> QED BY <1>2, <1>7 DEF TaskRow, TaskPc
<1>9. QueueOK(k, offers')
  <2> DEFINE k0 == tasks[t]
             ls == offers
             ms == offers'
  <2>1. QueueOK(k0, ls) /\ k0.queue \in Seq(QueueEntry) /\ k0.queue # <<>>
    BY <1>1, <1>2 DEF TaskOK
  <2>2. k.batch = k0.batch /\ k.queue = Tail(k0.queue)
    BY <1>8
  <2>3. Mine(k0.batch, ms) = Mine(k0.batch, ls)
        /\ \A o \in Mine(k0.batch, ls) : o # k0.queue[1].offer => ms[o] = ls[o]
    <3>1. k0.queue[1].offer = n
      BY <1>2 DEF n
    <3>2. \A o \in Mine(k0.batch, ls) : o \in 1..Len(offers)
      BY DEF Mine
    <3> QED BY <1>6, <3>1, <3>2
  <2>4. ms[k0.queue[1].offer].status # "DRAFT"
    BY <1>2, <1>4, <1>6 DEF n
  <2> HIDE DEF k0, ls, ms, k
  <2>5. QueueOK(k, ms)
    BY <2>1, <2>2, <2>3, <2>4, QueueTail
  <2> QED BY <2>5 DEF ms
<1>10. TaskOK(k, offers', batches', inbox')
  <2>1. batches[b].status \in {"QUEUED", "PROCESSING"} /\ UNCHANGED batches
    BY <1>2 DEF TaskOK
  <2> HIDE DEF k
  <2> QED BY <1>2, <1>8, <1>9, <2>1 DEF TaskOK
<1>11. BatchOK(b, offers', batches')
  <2>1. BatchOK(b, offers, batches) /\ batches[b].status \in {"QUEUED", "PROCESSING"}
    BY <1>2 DEF OffersInv, TaskOK
  <2>2. UNCHANGED batches /\ Mine(b, offers') = Mine(b, offers)
    BY <1>6
  <2> HIDE DEF b
  <2> QED BY <2>1, <2>2 DEF BatchOK, Finished
<1>12. k # Done => k.batch = tasks[t].batch /\ TaskOK(k, offers', batches', inbox')
  BY <1>8, <1>10
<1>13. /\ inbox' \in Seq(Box) /\ Len(inbox') = Len(inbox)
       /\ batches' \in Seq(BatchRow) /\ Len(batches') = Len(batches)
       /\ \A c \in 1..Len(batches) : c # tasks[t].batch => batches'[c] = batches[c]
  BY DEF OffersInv, OffersTypes
<1>14. /\ offers' \in Seq(OfferRow) /\ Len(offers') = Len(offers)
       /\ \A o \in 1..Len(offers) :
              /\ offers'[o].app = offers[o].app /\ offers'[o].batch = offers[o].batch
              /\ offers[o].status \in Out => offers'[o] = offers[o]
              /\ o \notin Mine(tasks[t].batch, offers) => offers'[o] = offers[o]
              /\ inbox[o] \subseteq inbox'[o]
              /\ LetterOK(o, offers', batches', inbox')
  BY <1>2, <1>6
<1> HIDE DEF k
<1> QED BY ZenonT(40), <1>1, <1>5, <1>8, <1>11, <1>12, <1>13, <1>14, TaskGoesOn

LEMMA MarkSentKeeps ==
    ASSUME OffersInv, NEW t \in 1..Len(tasks), MarkSent(t)
    PROVE  OffersInv'
<1> DEFINE n == Current(t).offer
           row == [offers[n] EXCEPT !.status = "SENT"]
<1>1. tasks[t].pc = "sent" /\ tasks[t].pc \in TaskPc \ {"begin"}
      /\ offers' = [offers EXCEPT ![n].status = "SENT"]
      /\ tasks' = [tasks EXCEPT ![t] = [tasks[t] EXCEPT !.pc = "next", !.queue = Tail(tasks[t].queue)]]
      /\ UNCHANGED <<stage, batches, overdue, sessions, inbox, restarts>>
  BY DEF MarkSent, NextLetter, Become, TaskPc
<1>2. tasks[t].queue # <<>>
  BY <1>1, TaskIs DEF OffersInv, TasksOK, TaskOK
<1>3. n \in 1..Len(offers) /\ offers[n] \in OfferRow /\ offers[n].status = "DRAFT"
  BY <1>1, <1>2, InHand
<1>4. ~offers[n].error
  BY <1>3 DEF OffersInv, LetterOK
<1>5. /\ row \in OfferRow /\ row.app = offers[n].app /\ row.batch = offers[n].batch
      /\ row.status = "SENT" /\ row.error = offers[n].error /\ row.token = offers[n].token
  <2> HIDE DEF n
  <2> QED BY <1>3 DEF OfferRow, OfferStatus
<1>6. offers' = [offers EXCEPT ![n] = row]
  BY <1>1
<1> HIDE DEF row
<1> QED BY <1>1, <1>4, <1>5, <1>6, HandDone

LEMMA MarkFailedKeeps ==
    ASSUME OffersInv, NEW t \in 1..Len(tasks), MarkFailed(t)
    PROVE  OffersInv'
<1> DEFINE n == Current(t).offer
           row == [offers[n] EXCEPT !.status = "FAILED", !.error = TRUE]
<1>1. tasks[t].pc = "failed" /\ tasks[t].pc \in TaskPc \ {"begin"}
      /\ offers' = [offers EXCEPT ![n] = row]
      /\ tasks' = [tasks EXCEPT ![t] = [tasks[t] EXCEPT !.pc = "next", !.queue = Tail(tasks[t].queue)]]
      /\ UNCHANGED <<stage, batches, overdue, sessions, inbox, restarts>>
  BY DEF MarkFailed, NextLetter, Become, TaskPc
<1>2. tasks[t].queue # <<>>
  BY <1>1, TaskIs DEF OffersInv, TasksOK, TaskOK
<1>3. n \in 1..Len(offers) /\ offers[n] \in OfferRow
  BY <1>1, <1>2, InHand
<1>4. /\ row \in OfferRow /\ row.app = offers[n].app /\ row.batch = offers[n].batch
      /\ row.status = "FAILED" /\ row.error = TRUE /\ row.token = offers[n].token
  <2> HIDE DEF n
  <2> QED BY <1>3 DEF OfferRow, OfferStatus
<1> HIDE DEF row
<1> QED BY <1>1, <1>4, HandDone

\* The letters of a batch are finitely many.
LEMMA MineFinite ==
    ASSUME NEW b, NEW ls, Len(ls) \in Nat, NEW states
    PROVE  /\ IsFiniteSet(Mine(b, ls)) /\ Cardinality(Mine(b, ls)) \in Nat
           /\ IsFiniteSet(MineWith(b, ls, states)) /\ Cardinality(MineWith(b, ls, states)) \in Nat
           /\ Mine(b, ls) \subseteq 1..Len(ls)
<1>1. 1 \in Int /\ Len(ls) \in Int
  OBVIOUS
<1>2. IsFiniteSet(1..Len(ls))
  BY <1>1, FS_Interval
<1> DEFINE M == Mine(b, ls)
           W == MineWith(b, ls, states)
<1>3. M \in SUBSET (1..Len(ls)) /\ W \in SUBSET M
  BY DEF Mine, MineWith
<1> HIDE DEF M, W
<1>4. IsFiniteSet(M)
  BY <1>2, <1>3, FS_Subset
<1>5. IsFiniteSet(W)
  BY <1>3, <1>4, FS_Subset
<1>6. Cardinality(M) \in Nat /\ Cardinality(W) \in Nat
  BY <1>4, <1>5, FS_CardinalityType
<1> QED BY <1>3, <1>4, <1>5, <1>6 DEF M, W

LEMMA FailedIs ==
    ASSUME OffersInv, NEW b
    PROVE  Failed(b) = MineWith(b, offers, {"FAILED"}) /\ LettersOf(b) = Mine(b, offers)
BY DEF OffersInv, LetterOK, Failed, LettersOf, Letter, MineWith, Mine

LEMMA SummariseKeeps ==
    ASSUME OffersInv, NEW t \in 1..Len(tasks), Summarise(t)
    PROVE  OffersInv'
<1> DEFINE b == tasks[t].batch
           success == Cardinality({o \in LettersOf(b) : offers[o].status = "SENT"})
           failure == Cardinality(Failed(b)) + Blocked(b)
           row == [batches[b] EXCEPT !.status = StatusForCounts(success, failure),
                                     !.success = success, !.failure = failure]
           lost == MissingOf(b, offers, batches)
           broken == Cardinality(MineWith(b, offers, {"FAILED"}))
<1>1. tasks[t].pc = "next" /\ tasks[t].pc \in TaskPc /\ tasks[t].queue = <<>>
      /\ batches' = [batches EXCEPT ![b] = row]
      /\ tasks' = [tasks EXCEPT ![t] = Done]
      /\ UNCHANGED <<stage, offers, overdue, sessions, inbox, restarts>>
  BY DEF Summarise, Become, TaskPc
<1>2. tasks[t] \in TaskRow /\ TaskOK(tasks[t], offers, batches, inbox)
  BY <1>1, TaskIs DEF OffersInv, TasksOK
<1>3. b \in 1..Len(batches) /\ batches \in Seq(BatchRow) /\ batches[b] \in BatchRow
      /\ Len(offers) \in Nat /\ offers \in Seq(OfferRow)
  <2>1. b \in 1..Len(batches) /\ batches \in Seq(BatchRow)
    BY <1>2 DEF TaskOK, OffersInv, OffersTypes
  <2> HIDE DEF b
  <2>2. batches[b] \in BatchRow
    BY <2>1, ElementOfSeq
  <2> QED BY <2>1, <2>2 DEF OffersInv, OffersTypes
<1>4. success \in Nat
  <2>1. {o \in LettersOf(b) : offers[o].status = "SENT"} = MineWith(b, offers, {"SENT"})
    BY DEF LettersOf, Letter, MineWith, Mine
  <2> QED BY <1>3, <2>1, MineFinite
<1>5. Cardinality(Mine(b, offers)) \in Nat /\ batches[b].candidates \in Nat
      /\ Cardinality(Mine(b, offers)) <= batches[b].candidates
      /\ broken \in Nat
  BY <1>3, MineFinite DEF OffersInv, BatchOK, BatchRow
<1>6. failure = broken + lost /\ lost \in Nat
      /\ (lost = 0 => Cardinality(Mine(b, offers)) = batches[b].candidates)
  <2>1. Blocked(b) = lost
    BY <1>5, FailedIs DEF Blocked, MissingOf
  <2>2. Cardinality(Failed(b)) = broken
    BY FailedIs
  <2>3. lost \in Nat /\ (lost = 0 => Cardinality(Mine(b, offers)) = batches[b].candidates)
    BY <1>5 DEF MissingOf
  <2> QED BY <2>1, <2>2, <2>3
<1>7. failure \in Nat /\ StatusForCounts(success, failure) \in Finished
      /\ (StatusForCounts(success, failure) = "COMPLETED" => failure = 0)
  BY <1>5, <1>6 DEF StatusForCounts, Finished
<1> HIDE DEF success, failure, b
<1>8. /\ row \in BatchRow /\ row.status = StatusForCounts(success, failure)
      /\ row.candidates = batches[b].candidates /\ row.failure = failure
  BY <1>3, <1>4, <1>7 DEF BatchRow, BatchStatus
<1> HIDE DEF row
<1>9. /\ batches' \in Seq(BatchRow) /\ Len(batches') = Len(batches) /\ batches'[b] = row
      /\ \A c \in 1..Len(batches) : c # b => batches'[c] = batches[c]
  BY <1>1, <1>3, <1>8, ExceptSeq
<1>10. MissingOf(b, offers, batches') = lost
  BY <1>8, <1>9 DEF MissingOf
<1>11. failure = 0 => \A o \in Mine(b, offers) : offers[o].status \in Out
  <2> SUFFICES ASSUME failure = 0, NEW o \in Mine(b, offers)
               PROVE  offers[o].status \in Out
    OBVIOUS
  <2>1. broken = 0
    BY <1>5, <1>6
  <2>2. MineWith(b, offers, {"FAILED"}) = {}
    <3> DEFINE W == MineWith(b, offers, {"FAILED"})
    <3>1. IsFiniteSet(W) /\ Cardinality(W) = 0
      BY <1>3, <2>1, MineFinite
    <3> HIDE DEF W
    <3>2. W = {}
      BY <3>1, FS_EmptySet
    <3> QED BY <3>2 DEF W
  <2>3. offers[o].status # "FAILED"
    BY <2>2 DEF MineWith
  <2>4. offers[o].status # "DRAFT"
    <3>1. QueueOK(tasks[t], offers)
      BY <1>1, <1>2 DEF TaskOK
    <3>2. MineWith(b, offers, {"DRAFT"}) = {}
      BY <1>1, <3>1 DEF QueueOK, b
    <3> QED BY <3>2 DEF MineWith
  <2>5. offers[o].status \in OfferStatus
    <3>1. o \in 1..Len(offers)
      BY DEF Mine
    <3>2. offers[o] \in OfferRow
      BY <1>3, <3>1, ElementOfSeq
    <3> QED BY <3>2 DEF OfferRow
  <2> QED BY <2>3, <2>4, <2>5 DEF Out, OfferStatus
<1>12. BatchOK(b, offers', batches')
  <2>1. batches'[b].status = "COMPLETED" =>
           /\ Cardinality(Mine(b, offers)) = batches'[b].candidates
           /\ \A o \in Mine(b, offers) : offers[o].status \in Out
    BY <1>5, <1>6, <1>7, <1>8, <1>9, <1>11
  <2> HIDE DEF lost, broken
  <2> QED BY <1>1, <1>5, <1>6, <1>8, <1>9, <1>10, <2>1 DEF BatchOK, lost, broken
<1>13. \A o \in 1..Len(offers) :
          /\ offers'[o].app = offers[o].app /\ offers'[o].batch = offers[o].batch
          /\ offers[o].status \in Out => offers'[o] = offers[o]
          /\ o \notin Mine(b, offers) => offers'[o] = offers[o]
          /\ inbox[o] \subseteq inbox'[o]
          /\ LetterOK(o, offers', batches', inbox')
  BY <1>1, <1>9, LettersStay
<1>14. /\ offers' \in Seq(OfferRow) /\ Len(offers') = Len(offers)
       /\ inbox' \in Seq(Box) /\ Len(inbox') = Len(inbox)
  BY <1>1 DEF OffersInv, OffersTypes
<1>15. PICK k \in TaskRow \cup {Done} : k = Done
  OBVIOUS
<1> QED BY <1>1, <1>9, <1>12, <1>13, <1>14, <1>15, TaskGoesOn DEF b

LEMMA TaskStepKeeps ==
    ASSUME OffersInv, NEW t \in 1..Len(tasks), TaskStep(t)
    PROVE  OffersInv'
<1>1. CASE Begin(t)
  BY <1>1, BeginKeeps
<1>2. CASE RenderFails(t)
  BY <1>2, RenderFailsKeeps
<1>3. CASE SaveLink(t)
  BY <1>3, SaveLinkKeeps
<1>4. ASSUME NEW delivered \in BOOLEAN, NEW ok \in BOOLEAN, SendMail(t, delivered, ok)
      PROVE  OffersInv'
  BY <1>4, SendMailKeeps
<1>5. CASE MarkSent(t)
  BY <1>5, MarkSentKeeps
<1>6. CASE MarkFailed(t)
  BY <1>6, MarkFailedKeeps
<1>7. CASE Summarise(t)
  BY <1>7, SummariseKeeps
<1> QED BY <1>1, <1>2, <1>3, <1>4, <1>5, <1>6, <1>7 DEF TaskStep

-----------------------------------------------------------------------------
(* The commits of the handlers: they write letters under the tasks. *)

\* A task goes on undisturbed if the drafts of its batch are left alone.
LEMMA TasksUndisturbed ==
    ASSUME OffersInv, NEW t \in 1..Len(tasks), tasks[t] # Done,
           Mine(tasks[t].batch, offers') = Mine(tasks[t].batch, offers),
           \A o \in Mine(tasks[t].batch, offers) :
              /\ (offers'[o].status = "DRAFT" <=> offers[o].status = "DRAFT")
              /\ offers'[o].token = offers[o].token /\ inbox[o] \subseteq inbox'[o],
           tasks[t].batch \in 1..Len(batches'),
           batches'[tasks[t].batch].status = batches[tasks[t].batch].status
    PROVE  TaskOK(tasks[t], offers', batches', inbox')
<1>1. tasks \in Seq(TaskRow \cup {Done}) /\ TasksOK(tasks, offers, batches, inbox)
  BY DEF OffersInv, OffersTypes
<1>2. tasks[t] \in TaskRow
  BY <1>1, ElementOfSeq
<1>3. TaskOK(tasks[t], offers, batches, inbox)
  BY <1>1 DEF TasksOK
<1> DEFINE x == tasks[t]
           ls == offers
           ms == offers'
           bs == batches
           cs == batches'
           boxes == inbox
           mls == inbox'
<1>4. x \in TaskRow /\ TaskOK(x, ls, bs, boxes) /\ x.batch \in 1..Len(cs)
  BY <1>2, <1>3
<1>5. cs[x.batch].status = bs[x.batch].status /\ Mine(x.batch, ms) = Mine(x.batch, ls)
  OBVIOUS
<1>6. \A o \in Mine(x.batch, ls) :
          /\ (ms[o].status = "DRAFT" <=> ls[o].status = "DRAFT") /\ ms[o].token = ls[o].token
          /\ boxes[o] \subseteq mls[o]
  OBVIOUS
<1> HIDE DEF x, ls, ms, bs, cs, boxes, mls
<1>7. TaskOK(x, ms, cs, mls)
  BY <1>4, <1>5, <1>6, TaskKept
<1> QED BY <1>7 DEF x, ms, cs, mls

\* A new task starts on a batch no other task works on.
LEMMA TaskAdded ==
    ASSUME OffersInv, NEW b \in 1..MaxBatch, AddTask(b), Len(tasks) < MaxTask,
           \A t \in 1..Len(tasks) :
              tasks[t] # Done => tasks[t].batch # b /\ TaskOK(tasks[t], offers', batches', inbox'),
           b \in 1..Len(batches'), batches'[b].status = "QUEUED"
    PROVE  /\ tasks' \in Seq(TaskRow \cup {Done}) /\ Len(tasks') <= MaxTask
           /\ TasksOK(tasks', offers', batches', inbox')
<1> DEFINE k == [pc |-> "begin", batch |-> b, queue |-> <<>>]
           n == Len(tasks) + 1
<1>1. k \in TaskRow /\ TaskOK(k, offers', batches', inbox')
  <2>1. <<>> \in Seq(QueueEntry)
    OBVIOUS
  <2>2. k \in TaskRow
    BY <2>1 DEF TaskRow, TaskPc
  <2> QED BY <2>2 DEF TaskOK
<1>2. k.batch = b /\ k # Done
  BY DEF Done
<1>3. tasks \in Seq(TaskRow \cup {Done}) /\ Len(tasks) \in Nat
  BY DEF OffersInv, OffersTypes
<1>4. tasks' = Append(tasks, k)
  BY DEF AddTask
<1> HIDE DEF k
<1>5. /\ tasks' \in Seq(TaskRow \cup {Done}) /\ Len(tasks') = n /\ tasks'[n] = k
      /\ \A t \in 1..Len(tasks) : tasks'[t] = tasks[t]
  BY <1>1, <1>3, <1>4, AppendProperties
<1>6. \A t \in 1..n : t = n \/ t \in 1..Len(tasks)
  BY <1>3
<1>7. \A t \in 1..Len(tasks') : tasks'[t] # Done => TaskOK(tasks'[t], offers', batches', inbox')
  BY <1>1, <1>5, <1>6
<1>8. \A t, u \in 1..Len(tasks') :
          tasks'[t] # Done /\ tasks'[u] # Done /\ tasks'[t].batch = tasks'[u].batch => t = u
  <2>1. \A t, u \in 1..Len(tasks) :
          tasks[t] # Done /\ tasks[u] # Done /\ tasks[t].batch = tasks[u].batch => t = u
    BY DEF OffersInv, TasksOK
  <2> QED BY <1>2, <1>5, <1>6, <2>1
<1>9. Len(tasks') <= MaxTask
  BY <1>3, <1>5, OffersConstants
<1> QED BY <1>5, <1>7, <1>8, <1>9 DEF TasksOK

LEMMA CommitRespondKeeps ==
    ASSUME OffersInv, NEW s \in Session, CommitRespond(s)
    PROVE  OffersInv'
<1> DEFINE in == sessions[s]
           n == in.offer
           row == [offers[n] EXCEPT !.status = in.status,
                                    !.error = offers[n].error /\ ~(in.error /\ in.status \in Answer)]
<1>1. in.kind = "respond" /\ offers' = [offers EXCEPT ![n] = row]
      /\ sessions' = [sessions EXCEPT ![s] = Idle]
      /\ UNCHANGED <<batches, overdue, tasks, inbox, restarts>>
  <2>1. in.kind = "respond" /\ sessions' = [sessions EXCEPT ![s] = Idle]
        /\ UNCHANGED <<batches, overdue, tasks, inbox, restarts>>
    BY DEF CommitRespond
  <2>2. offers' = [offers EXCEPT ![n] = row]
    BY DEF CommitRespond
  <2> QED BY <2>1, <2>2
<1>2. in \in RespondRow
  BY <1>1 DEF OffersInv, OffersTypes, Idle, DispatchRow
<1>3. n \in 1..Len(offers) /\ offers[n].status \in Out /\ offers \in Seq(OfferRow)
      /\ Len(offers) \in Nat
  BY <1>1 DEF OffersInv, OffersTypes, SessionOK
<1>4. offers[n] \in OfferRow /\ ~offers[n].error
  <2>1. offers[n] \in OfferRow
    BY <1>3, ElementOfSeq
  <2>2. offers[n].status # "FAILED"
    BY <1>3 DEF Out, Answer
  <2> QED BY <1>3, <2>1, <2>2 DEF OffersInv, LetterOK
<1>5. /\ row \in OfferRow /\ row.app = offers[n].app /\ row.batch = offers[n].batch
      /\ row.status = in.status /\ ~row.error /\ row.token = offers[n].token
  <2> HIDE DEF n
  <2> QED BY <1>2, <1>4 DEF OfferRow, RespondRow, OfferStatus, Answer
<1>6. row.status \in Out /\ row.status # "WITHDRAWN" /\ row.status # "FAILED" /\ row.status # "DRAFT"
  BY <1>2, <1>5 DEF RespondRow, Out, Answer
<1> HIDE DEF row, n
<1>7. /\ offers' \in Seq(OfferRow) /\ Len(offers') = Len(offers)
      /\ \A o \in 1..Len(offers) : offers'[o] = IF o = n THEN row ELSE offers[o]
  BY <1>1, <1>3, <1>5, ExceptSeq
<1>8. \A o \in 1..Len(offers) :
         /\ offers'[o].app = offers[o].app /\ offers'[o].batch = offers[o].batch
         /\ offers'[o].token = offers[o].token
         /\ (offers'[o].status = "DRAFT" <=> offers[o].status = "DRAFT")
         /\ (offers'[o].status = "FAILED" <=> offers[o].status = "FAILED")
         /\ (offers[o].status \in Out => offers'[o].status \in Out)
  <2>1. offers[n].status # "DRAFT" /\ offers[n].status # "FAILED"
    BY <1>3 DEF Out, Answer
  <2> QED BY <1>5, <1>6, <1>7, <2>1
<1>9. \A c : Mine(c, offers') = Mine(c, offers) /\ Mine(c, offers) \subseteq 1..Len(offers)
  BY <1>7, <1>8 DEF Mine
<1>10. \A o \in 1..Len(offers') : LetterOK(o, offers', batches', inbox')
  <2> SUFFICES ASSUME NEW o \in 1..Len(offers)
               PROVE  LetterOK(o, offers', batches, inbox)
    BY <1>1, <1>7
  <2>1. LetterOK(o, offers, batches, inbox)
    BY DEF OffersInv
  <2>2. \A p \in 1..Len(offers) : offers'[p].app = offers[p].app
    BY <1>8
  <2>3. CASE o = n
    <3>1. \E mail \in inbox[o] : mail[2] = offers'[o].token
      BY <1>3, <1>8, <2>1, <2>3 DEF LetterOK
    <3>2. offers'[o] = row /\ offers'[o].batch = offers[o].batch
      BY <1>7, <1>8, <2>3
    <3> QED BY <1>5, <1>6, <2>1, <3>1, <3>2 DEF LetterOK
  <2>4. CASE o # n
    <3>1. offers'[o] = offers[o]
      BY <1>7, <2>4
    <3> QED BY <1>7, <2>1, <2>2, <3>1 DEF LetterOK
  <2> QED BY <2>3, <2>4
<1>11. TasksOK(tasks', offers', batches', inbox')
  <2>1. ASSUME NEW t \in 1..Len(tasks), tasks[t] # Done
        PROVE  TaskOK(tasks[t], offers', batches', inbox')
    <3>1. tasks[t].batch \in 1..Len(batches)
      BY <2>1 DEF OffersInv, TasksOK, TaskOK
    <3>2. \A o \in Mine(tasks[t].batch, offers) :
              /\ (offers'[o].status = "DRAFT" <=> offers[o].status = "DRAFT")
              /\ offers'[o].token = offers[o].token /\ inbox[o] \subseteq inbox'[o]
      BY <1>1, <1>8, <1>9
    <3>3. tasks[t].batch \in 1..Len(batches')
          /\ batches'[tasks[t].batch].status = batches[tasks[t].batch].status
          /\ Mine(tasks[t].batch, offers') = Mine(tasks[t].batch, offers)
      BY <1>1, <1>9, <3>1
    <3> QED BY <2>1, <3>2, <3>3, TasksUndisturbed
  <2>2. \A t, u \in 1..Len(tasks) :
          tasks[t] # Done /\ tasks[u] # Done /\ tasks[t].batch = tasks[u].batch => t = u
    BY DEF OffersInv, TasksOK
  <2> QED BY <1>1, <2>1, <2>2 DEF TasksOK
<1>12. ASSUME NEW r \in Session
       PROVE  SessionOK(sessions'[r], offers')
  <2>1. CASE r = s
    <3>1. sessions'[r] = Idle
      BY <1>1, <2>1 DEF OffersInv, OffersTypes
    <3> QED BY <3>1 DEF SessionOK, Idle
  <2>2. CASE r # s
    <3>1. sessions'[r] = sessions[r] /\ SessionOK(sessions[r], offers)
      BY <1>1, <2>2 DEF OffersInv, OffersTypes
    <3>2. \A o \in 1..Len(offers) :
             offers'[o].app = offers[o].app /\ (offers[o].status \in Out => offers'[o].status \in Out)
      BY <1>8
    <3> QED BY <1>3, <1>7, <3>1, <3>2, SessionKept
  <2> QED BY <2>1, <2>2
<1>13. ASSUME NEW c \in 1..Len(batches)
       PROVE  BatchOK(c, offers', batches')
  <2>1. BatchOK(c, offers, batches) /\ batches'[c] = batches[c]
    BY <1>1 DEF OffersInv
  <2>2. \A o \in Mine(c, offers) :
          /\ offers'[o].status = "FAILED" <=> offers[o].status = "FAILED"
          /\ offers[o].status \in Out => offers'[o].status \in Out
    BY <1>8, <1>9
  <2> QED BY <1>9, <2>1, <2>2, BatchKept
<1>14. stage' \in [App -> Stage]
  <2>1. \A status : StageFor(status) \in Stage
    BY DEF StageFor, Stage
  <2> QED BY <2>1 DEF CommitRespond, OffersInv, OffersTypes
<1>15. OffersTypes'
  <2>1. sessions' \in [Session -> {Idle} \cup RespondRow \cup DispatchRow]
    BY <1>1 DEF OffersInv, OffersTypes
  <2> QED BY <1>1, <1>7, <1>14, <2>1 DEF OffersInv, OffersTypes
<1> QED BY <1>1, <1>10, <1>11, <1>12, <1>13, <1>15 DEF OffersInv

\* The drafts a dispatch adds: one for each candidate it is valid for.
Fresh(b) ==
    [a \in App |-> [app |-> a, batch |-> b, status |-> "DRAFT", token |-> 0, error |-> FALSE]]
NewLetters(valid, b) == SetToSeq({Fresh(b)[a] : a \in valid})

LEMMA FreshLetters ==
    ASSUME NEW valid \in SUBSET App, NEW b \in 1..MaxBatch
    PROVE  /\ NewLetters(valid, b) \in Seq(OfferRow) /\ Len(NewLetters(valid, b)) \in Nat
           /\ Len(NewLetters(valid, b)) <= Cardinality(valid)
           /\ \A i \in 1..Len(NewLetters(valid, b)) :
                 \E a \in valid : NewLetters(valid, b)[i] = Fresh(b)[a]
           /\ \A a \in valid :
                 \E i \in 1..Len(NewLetters(valid, b)) : NewLetters(valid, b)[i] = Fresh(b)[a]
           /\ \A a \in valid :
                 /\ Fresh(b)[a].app = a /\ Fresh(b)[a].batch = b /\ Fresh(b)[a].token = 0
                 /\ Fresh(b)[a].status = "DRAFT" /\ ~Fresh(b)[a].error
<1> DEFINE fresh == Fresh(b)
           F == {fresh[a] : a \in valid}
           f == [r \in F |-> r.app]
           new == NewLetters(valid, b)
<1>1. \A a \in valid : /\ fresh[a] \in OfferRow
                       /\ fresh[a].app = a /\ fresh[a].batch = b /\ fresh[a].token = 0
                       /\ fresh[a].status = "DRAFT" /\ ~fresh[a].error
  BY OffersConstants DEF OfferRow, OfferStatus, Fresh
<1>2. new = SetToSeq(F)
  BY DEF NewLetters
<1> HIDE DEF fresh, new
<1>3. \A r \in F : r.app \in valid /\ r = fresh[r.app]
  BY <1>1
<1>4. f \in Injection(F, valid)
  <2> HIDE DEF F
  <2>1. f \in [F -> valid]
    BY <1>3
  <2>2. \A r, q \in F : f[r] = f[q] => r = q
    BY <1>3
  <2> QED BY <2>1, <2>2 DEF Injection, IsInjective
<1>5. IsFiniteSet(valid)
  BY OffersConstants, FS_Subset
<1> HIDE DEF f
<1>6. IsFiniteSet(F) /\ Cardinality(F) <= Cardinality(valid)
  <2> HIDE DEF F
  <2> QED BY <1>4, <1>5, FS_Injection
<1>7. F \subseteq OfferRow /\ \A r \in F : \E a \in valid : r = fresh[a]
  BY <1>1
<1>8. \A a \in valid : fresh[a] \in F
  OBVIOUS
<1> HIDE DEF F
<1>9. /\ new \in Seq(F) /\ Len(new) = Cardinality(F) /\ Cardinality(F) \in Nat
      /\ \A r \in F : \E i \in 1..Cardinality(F) : new[i] = r
  BY <1>2, <1>6, SetToSeqLists
<1>10. \A i \in 1..Len(new) : new[i] \in F
  BY <1>9, ElementOfSeq
<1>11. new \in Seq(OfferRow)
  BY <1>7, <1>9
<1>12. /\ \A i \in 1..Len(new) : \E a \in valid : new[i] = fresh[a]
       /\ \A a \in valid : \E i \in 1..Len(new) : new[i] = fresh[a]
  BY <1>7, <1>8, <1>9, <1>10
<1> QED BY <1>1, <1>6, <1>9, <1>11, <1>12 DEF fresh, new

\* What a dispatch makes of the table of letters: those it looked up are
\* withdrawn, the new ones follow.
LEMMA Dispatched ==
    ASSUME OffersInv, NEW s \in Session, CommitDispatch(s)
    PROVE  /\ offers' \in Seq(OfferRow) /\ Len(offers') \in Nat /\ Len(offers) <= Len(offers')
           /\ Len(offers') - Len(offers) <= Cardinality(sessions[s].picked)
           /\ Cardinality(sessions[s].picked) \in Nat
           /\ Cardinality(sessions[s].picked \ sessions[s].valid) \in Nat
           /\ inbox' \in Seq(Box) /\ Len(inbox') = Len(offers')
           /\ \A o \in 1..Len(offers) :
                 /\ inbox'[o] = inbox[o] /\ offers'[o].app = offers[o].app
                 /\ offers'[o].batch = offers[o].batch /\ offers'[o].token = offers[o].token
                 /\ o \notin sessions[s].sent => offers'[o] = offers[o]
                 /\ o \in sessions[s].sent =>
                       /\ offers[o].status \in Out
                       /\ offers'[o].status = "WITHDRAWN" /\ ~offers'[o].error
                       /\ \E p \in 1..Len(offers') : o < p /\ offers'[p].app = offers'[o].app
           /\ \A o \in Len(offers) + 1..Len(offers') :
                 /\ offers'[o].batch = Len(batches) + 1 /\ offers'[o].status = "DRAFT"
                 /\ ~offers'[o].error
<1> DEFINE in == sessions[s]
           b == Len(batches) + 1
           fresh == [a \in App |-> [app |-> a, batch |-> b, status |-> "DRAFT",
                                    token |-> 0, error |-> FALSE]]
           new == SetToSeq({fresh[a] : a \in in.valid})
           left == [o \in Letter |-> IF o \in in.sent
                                     THEN [offers[o] EXCEPT !.status = "WITHDRAWN"]
                                     ELSE offers[o]]
           more == [i \in 1..Len(new) |-> {}]
           n == Len(offers)
<1>1. in.kind = "dispatch" /\ Len(batches) < MaxBatch
      /\ offers' = left \o new /\ inbox' = inbox \o more
  BY DEF CommitDispatch
<1>2. in \in DispatchRow
  BY <1>1 DEF OffersInv, OffersTypes, Idle, RespondRow
<1>3. in.picked \in SUBSET App /\ in.valid \in SUBSET App /\ in.valid \subseteq in.picked
      /\ \A o \in in.sent : o \in 1..n /\ offers[o].status \in Out /\ offers[o].app \in in.valid
  BY <1>1, <1>2 DEF DispatchRow, OffersInv, SessionOK
<1>4. b \in 1..MaxBatch /\ Len(batches) \in Nat
  BY <1>1, OffersConstants DEF OffersInv, OffersTypes
<1>5. offers \in Seq(OfferRow) /\ n \in Nat /\ inbox \in Seq(Box) /\ Len(inbox) = n
  BY DEF OffersInv, OffersTypes
<1>6. \A o \in 1..n : offers[o] \in OfferRow
  <2> HIDE DEF n
  <2>1. n = Len(offers)
    BY DEF n
  <2> QED BY <1>5, <2>1, ElementOfSeq
<1>7. /\ new \in Seq(OfferRow) /\ Len(new) \in Nat /\ Len(new) <= Cardinality(in.valid)
      /\ \A i \in 1..Len(new) : \E a \in in.valid : new[i] = fresh[a]
      /\ \A a \in in.valid : \E i \in 1..Len(new) : new[i] = fresh[a]
      /\ \A a \in in.valid : /\ fresh[a].app = a /\ fresh[a].batch = b /\ fresh[a].token = 0
                             /\ fresh[a].status = "DRAFT" /\ ~fresh[a].error
  <2> DEFINE v == in.valid
  <2>1. v \in SUBSET App /\ new = NewLetters(v, b) /\ fresh = Fresh(b)
    BY <1>3 DEF NewLetters, Fresh
  <2> HIDE DEF v, new, fresh, b
  <2>2. /\ NewLetters(v, b) \in Seq(OfferRow) /\ Len(NewLetters(v, b)) \in Nat
        /\ Len(NewLetters(v, b)) <= Cardinality(v)
        /\ \A i \in 1..Len(NewLetters(v, b)) : \E a \in v : NewLetters(v, b)[i] = Fresh(b)[a]
        /\ \A a \in v : \E i \in 1..Len(NewLetters(v, b)) : NewLetters(v, b)[i] = Fresh(b)[a]
        /\ \A a \in v :
              /\ Fresh(b)[a].app = a /\ Fresh(b)[a].batch = b /\ Fresh(b)[a].token = 0
              /\ Fresh(b)[a].status = "DRAFT" /\ ~Fresh(b)[a].error
    BY <1>4, <2>1, FreshLetters
  <2> QED BY <2>1, <2>2 DEF v
<1>8. /\ IsFiniteSet(in.picked) /\ IsFiniteSet(in.valid) /\ IsFiniteSet(in.picked \ in.valid)
      /\ Cardinality(in.picked) \in Nat /\ Cardinality(in.picked \ in.valid) \in Nat
      /\ Cardinality(in.valid) \in Nat /\ Cardinality(in.valid) <= Cardinality(in.picked)
  <2> DEFINE P == in.picked
             V == in.valid
             D == P \ V
  <2>1. P \in SUBSET App /\ V \in SUBSET P /\ D \in SUBSET P
    BY <1>3
  <2> HIDE DEF P, V, D
  <2>2. IsFiniteSet(P)
    BY <2>1, OffersConstants, FS_Subset
  <2>3. IsFiniteSet(V) /\ IsFiniteSet(D) /\ Cardinality(V) <= Cardinality(P)
    BY <2>1, <2>2, FS_Subset
  <2>4. Cardinality(P) \in Nat /\ Cardinality(V) \in Nat /\ Cardinality(D) \in Nat
    BY <2>2, <2>3, FS_CardinalityType
  <2> QED BY <2>2, <2>3, <2>4 DEF P, V, D
<1>9. /\ left \in Seq(OfferRow) /\ Len(left) = n
      /\ \A o \in 1..n : left[o] = IF o \in in.sent
                                   THEN [offers[o] EXCEPT !.status = "WITHDRAWN"] ELSE offers[o]
  <2>1. \A o \in 1..n : [offers[o] EXCEPT !.status = "WITHDRAWN"] \in OfferRow
    BY <1>6 DEF OfferRow, OfferStatus
  <2> HIDE DEF n, in
  <2>2. Letter = 1..n
    BY DEF Letter, n
  <2>3. left \in [1..n -> OfferRow]
    BY <1>6, <2>1, <2>2
  <2>6. \A o \in 1..n : left[o] = IF o \in in.sent
                                   THEN [offers[o] EXCEPT !.status = "WITHDRAWN"] ELSE offers[o]
    BY <2>2
  <2> HIDE DEF left
  <2>4. left \in Seq(OfferRow) /\ DOMAIN left = 1..n
    BY <1>5, <2>3
  <2>5. Len(left) = n
    BY <1>5, <2>4
  <2> QED BY <2>4, <2>5, <2>6
<1> HIDE DEF new, left, fresh
<1>10. /\ more \in Seq(Box) /\ Len(more) = Len(new)
  <2>1. {} \in Box
    BY DEF Box
  <2>2. more \in [1..Len(new) -> Box]
    BY <2>1
  <2>3. more \in Seq(Box) /\ DOMAIN more = 1..Len(new)
    BY <1>7, <2>2
  <2> QED BY <1>7, <2>3
<1> HIDE DEF more
<1>11. /\ offers' \in Seq(OfferRow) /\ Len(offers') = n + Len(new)
       /\ \A i \in 1..n + Len(new) : offers'[i] = IF i <= n THEN left[i] ELSE new[i - n]
  <2>1. /\ left \o new \in Seq(OfferRow) /\ Len(left \o new) = Len(left) + Len(new)
        /\ \A i \in 1..Len(left) + Len(new) :
              (left \o new)[i] = IF i <= Len(left) THEN left[i] ELSE new[i - Len(left)]
    <3>1. left \in Seq(OfferRow) /\ new \in Seq(OfferRow)
      BY <1>7, <1>9
    <3> QED BY <3>1, ConcatProperties
  <2> QED BY <1>1, <1>9, <2>1
<1>12. /\ inbox' \in Seq(Box) /\ Len(inbox') = n + Len(new)
       /\ \A i \in 1..n + Len(new) : inbox'[i] = IF i <= n THEN inbox[i] ELSE more[i - n]
  <2>1. /\ inbox \o more \in Seq(Box) /\ Len(inbox \o more) = Len(inbox) + Len(more)
        /\ \A i \in 1..Len(inbox) + Len(more) :
              (inbox \o more)[i] = IF i <= Len(inbox) THEN inbox[i] ELSE more[i - Len(inbox)]
    BY <1>5, <1>10, ConcatProperties
  <2> QED BY <1>1, <1>5, <1>10, <2>1
<1>13. ASSUME NEW o \in 1..n
       PROVE  /\ inbox'[o] = inbox[o] /\ offers'[o].app = offers[o].app
              /\ offers'[o].batch = offers[o].batch /\ offers'[o].token = offers[o].token
              /\ offers'[o].error = offers[o].error
              /\ o \notin in.sent => offers'[o] = offers[o]
              /\ o \in in.sent => offers'[o].status = "WITHDRAWN"
  <2>1. o \in 1..n + Len(new) /\ o <= n
    BY <1>5, <1>7
  <2>2. offers'[o] = left[o] /\ inbox'[o] = inbox[o]
    BY <1>11, <1>12, <2>1
  <2> HIDE DEF n, in
  <2> QED BY <1>6, <1>9, <2>2 DEF OfferRow
<1>14. ASSUME NEW o \in 1..n, o \in in.sent
       PROVE  /\ offers[o].status \in Out /\ ~offers'[o].error
              /\ \E p \in 1..Len(offers') : o < p /\ offers'[p].app = offers'[o].app
  <2>1. offers[o].status \in Out /\ offers[o].app \in in.valid
    BY <1>3, <1>14
  <2>2. offers[o].status # "FAILED"
    BY <2>1 DEF Out, Answer
  <2>3. ~offers[o].error
    BY <2>2 DEF OffersInv, LetterOK
  <2>4. PICK i \in 1..Len(new) : new[i] = fresh[offers[o].app]
    BY <1>7, <2>1
  <2>5. n + i \in 1..n + Len(new) /\ ~(n + i <= n) /\ n + i - n = i /\ o < n + i
    BY <1>5, <1>7
  <2>6. offers'[n + i] = fresh[offers[o].app]
    BY <1>11, <2>4, <2>5
  <2>7. offers'[n + i].app = offers'[o].app
    BY <1>7, <1>13, <2>1, <2>6
  <2> QED BY <1>11, <1>13, <2>1, <2>3, <2>5, <2>7
<1>15. ASSUME NEW o \in n + 1..n + Len(new)
       PROVE  offers'[o].batch = b /\ offers'[o].status = "DRAFT" /\ ~offers'[o].error
  <2>1. o \in 1..n + Len(new) /\ ~(o <= n) /\ o - n \in 1..Len(new)
    BY <1>5, <1>7
  <2>2. offers'[o] = new[o - n]
    BY <1>11, <2>1
  <2> DEFINE i == o - n
  <2>3. i \in 1..Len(new) /\ offers'[o] = new[i]
    BY <2>1, <2>2
  <2> HIDE DEF i, new, b
  <2> QED BY <1>7, <2>3
<1>16. Len(offers') \in Nat /\ n <= Len(offers') /\ Len(offers') - n <= Cardinality(in.picked)
  BY <1>5, <1>7, <1>8, <1>11
<1> QED BY <1>8, <1>11, <1>12, <1>13, <1>14, <1>15, <1>16

LEMMA CommitDispatchKeeps ==
    ASSUME OffersInv, NEW s \in Session, CommitDispatch(s)
    PROVE  OffersInv'
<1> DEFINE in == sessions[s]
           sent == in.sent
           b == Len(batches) + 1
           row == [status |-> "QUEUED", candidates |-> Cardinality(in.picked),
                   success |-> 0, failure |-> Cardinality(in.picked \ in.valid)]
           n == Len(offers)
           m == Len(offers')
<1>1. in.kind = "dispatch" /\ Len(batches) < MaxBatch /\ Len(tasks) < MaxTask
      /\ batches' = Append(batches, row) /\ AddTask(b)
      /\ sessions' = [sessions EXCEPT ![s] = Idle]
      /\ UNCHANGED <<stage, overdue, restarts>>
  BY DEF CommitDispatch
<1>2. /\ offers' \in Seq(OfferRow) /\ m \in Nat /\ n <= m
      /\ m - n <= Cardinality(in.picked)
      /\ Cardinality(in.picked) \in Nat /\ Cardinality(in.picked \ in.valid) \in Nat
      /\ inbox' \in Seq(Box) /\ Len(inbox') = m
  BY Dispatched
<1>3. \A o \in 1..n :
         /\ inbox'[o] = inbox[o] /\ offers'[o].app = offers[o].app
         /\ offers'[o].batch = offers[o].batch /\ offers'[o].token = offers[o].token
         /\ o \notin sent => offers'[o] = offers[o]
         /\ o \in sent =>
               /\ offers[o].status \in Out
               /\ offers'[o].status = "WITHDRAWN" /\ ~offers'[o].error
               /\ \E p \in 1..m : o < p /\ offers'[p].app = offers'[o].app
  BY Dispatched
<1>4. \A o \in n + 1..m :
         offers'[o].batch = b /\ offers'[o].status = "DRAFT" /\ ~offers'[o].error
  BY Dispatched
<1>5. batches \in Seq(BatchRow) /\ Len(batches) \in Nat /\ n \in Nat
  BY DEF OffersInv, OffersTypes
<1>6. row \in BatchRow
  <2> HIDE DEF in
  <2> QED BY <1>2 DEF BatchRow, BatchStatus
<1>7. row.status = "QUEUED" /\ row.candidates = Cardinality(in.picked)
  OBVIOUS
<1> HIDE DEF row, n, m, sent
<1>8. /\ batches' \in Seq(BatchRow) /\ Len(batches') = b /\ batches'[b] = row
      /\ \A c \in 1..Len(batches) : batches'[c] = batches[c]
  BY <1>1, <1>5, <1>6, AppendProperties
<1>9. \A o \in 1..n : offers[o].batch \in 1..Len(batches)
  BY DEF OffersInv, LetterOK, n
<1>10. /\ \A o \in 1..m : o \in 1..n \/ o \in n + 1..m
       /\ \A o \in 1..n : o \in 1..m
  BY <1>2, <1>5
<1>11. ASSUME NEW c \in 1..Len(batches)
       PROVE  Mine(c, offers') = Mine(c, offers) /\ Mine(c, offers) \subseteq 1..n
  <2>1. c # b
    BY <1>5
  <2>2. Mine(c, offers) = {o \in 1..n : offers[o].batch = c}
    BY DEF Mine, n
  <2>3. Mine(c, offers') = {o \in 1..m : offers'[o].batch = c}
    BY DEF Mine, m
  <2> QED BY <1>3, <1>4, <1>10, <2>1, <2>2, <2>3
<1>12. Mine(b, offers') \subseteq n + 1..m
  <2>1. \A o \in 1..n : offers'[o].batch # b
    BY <1>3, <1>5, <1>9
  <2> QED BY <1>10, <2>1 DEF Mine, m
<1>13. \A o \in 1..n :
         /\ (offers'[o].status = "DRAFT" <=> offers[o].status = "DRAFT")
         /\ (offers'[o].status = "FAILED" <=> offers[o].status = "FAILED")
         /\ (offers[o].status \in Out => offers'[o].status \in Out)
  <2>1. "WITHDRAWN" \in Out /\ "DRAFT" \notin Out /\ "FAILED" \notin Out
    BY DEF Out, Answer
  <2> QED BY <1>3, <2>1
<1>14. ASSUME NEW o \in 1..m
       PROVE  LetterOK(o, offers', batches', inbox')
  <2>1. CASE o \in n + 1..m
    <3>1. b \in 1..Len(batches')
      BY <1>5, <1>8
    <3>2. offers'[o].status \notin Out /\ offers'[o].status # "FAILED" /\ offers'[o].status # "WITHDRAWN"
      BY <1>4, <2>1 DEF Out, Answer
    <3> QED BY <1>4, <2>1, <3>1, <3>2 DEF LetterOK
  <2>2. CASE o \in 1..n
    <3>1. LetterOK(o, offers, batches, inbox)
      BY <2>2 DEF OffersInv, n
    <3>2. offers'[o].batch \in 1..Len(batches')
      BY <1>3, <1>5, <1>8, <1>9, <2>2
    <3>3. offers'[o].status \in Out => \E mail \in inbox'[o] : mail[2] = offers'[o].token
      <4>1. offers'[o].status \in Out => offers[o].status \in Out
        BY <1>3, <2>2
      <4> QED BY <1>3, <2>2, <3>1, <4>1 DEF LetterOK
    <3>4. offers'[o].error <=> offers'[o].status = "FAILED"
      <4>1. CASE o \in sent
        BY <1>3, <2>2, <4>1
      <4>2. CASE o \notin sent
        BY <1>3, <2>2, <3>1, <4>2 DEF LetterOK
      <4> QED BY <4>1, <4>2
    <3>5. offers'[o].status = "WITHDRAWN" =>
              \E p \in 1..m : offers'[p].app = offers'[o].app /\ o < p
      <4>1. CASE o \in sent
        BY <1>3, <2>2, <4>1
      <4>2. CASE o \notin sent
        <5>1. offers'[o] = offers[o]
          BY <1>3, <2>2, <4>2
        <5>2. offers[o].status = "WITHDRAWN" =>
                 \E p \in 1..n : offers[p].app = offers[o].app /\ o < p
          BY <3>1 DEF LetterOK, n
        <5> QED BY <1>3, <1>10, <5>1, <5>2
      <4> QED BY <4>1, <4>2
    <3> QED BY <3>2, <3>3, <3>4, <3>5 DEF LetterOK, m
  <2> QED BY <1>10, <2>1, <2>2
<1>15. ASSUME NEW t \in 1..Len(tasks), tasks[t] # Done
       PROVE  tasks[t].batch # b /\ TaskOK(tasks[t], offers', batches', inbox')
  <2>1. tasks[t].batch \in 1..Len(batches)
    BY <1>15 DEF OffersInv, TasksOK, TaskOK
  <2>2. \A o \in Mine(tasks[t].batch, offers) :
            /\ (offers'[o].status = "DRAFT" <=> offers[o].status = "DRAFT")
            /\ offers'[o].token = offers[o].token /\ inbox[o] \subseteq inbox'[o]
    BY <1>3, <1>11, <1>13, <2>1
  <2>3. tasks[t].batch \in 1..Len(batches') /\ tasks[t].batch # b
        /\ batches'[tasks[t].batch].status = batches[tasks[t].batch].status
        /\ Mine(tasks[t].batch, offers') = Mine(tasks[t].batch, offers)
    BY <1>5, <1>8, <1>11, <2>1
  <2> QED BY <1>15, <2>2, <2>3, TasksUndisturbed
<1>16. b \in 1..MaxBatch /\ b \in 1..Len(batches') /\ batches'[b].status = "QUEUED"
  BY <1>1, <1>5, <1>7, <1>8, OffersConstants
<1>17. /\ tasks' \in Seq(TaskRow \cup {Done}) /\ Len(tasks') <= MaxTask
       /\ TasksOK(tasks', offers', batches', inbox')
  <2> HIDE DEF b
  <2> QED BY <1>1, <1>15, <1>16, TaskAdded
<1>18. ASSUME NEW r \in Session
       PROVE  SessionOK(sessions'[r], offers')
  <2>1. CASE r = s
    <3>1. sessions'[r] = Idle
      BY <1>1, <2>1 DEF OffersInv, OffersTypes
    <3> QED BY <3>1 DEF SessionOK, Idle
  <2>2. CASE r # s
    <3>1. sessions'[r] = sessions[r] /\ SessionOK(sessions[r], offers)
      BY <1>1, <2>2 DEF OffersInv, OffersTypes
    <3>2. \A o \in 1..Len(offers) :
             offers'[o].app = offers[o].app /\ (offers[o].status \in Out => offers'[o].status \in Out)
      BY <1>3, <1>13 DEF n
    <3>3. Len(offers) \in Nat /\ Len(offers') \in Nat /\ Len(offers) <= Len(offers')
      BY <1>2, <1>5 DEF n, m
    <3> QED BY <3>1, <3>2, <3>3, SessionKept
  <2> QED BY <2>1, <2>2
<1>19. ASSUME NEW c \in 1..Len(batches')
       PROVE  BatchOK(c, offers', batches')
  <2>1. CASE c \in 1..Len(batches)
    <3>1. BatchOK(c, offers, batches) /\ batches'[c] = batches[c]
      BY <1>8, <2>1 DEF OffersInv
    <3>2. \A o \in Mine(c, offers) :
            /\ offers'[o].status = "FAILED" <=> offers[o].status = "FAILED"
            /\ offers[o].status \in Out => offers'[o].status \in Out
      BY <1>11, <1>13, <2>1
    <3> QED BY <1>11, <2>1, <3>1, <3>2, BatchKept
  <2>2. CASE c = b
    <3>1. Cardinality(Mine(b, offers')) <= Cardinality(in.picked)
      <4> DEFINE M == Mine(b, offers')
                 I == n + 1..m
      <4>1. n + 1 \in Int /\ m \in Int
        BY <1>2, <1>5
      <4>2. IsFiniteSet(I) /\ Cardinality(I) = (IF n + 1 > m THEN 0 ELSE m - (n + 1) + 1)
        <5> DEFINE lo == n + 1
        <5>1. lo \in Int /\ m \in Int /\ lo = n + 1 /\ I = lo..m
          BY <4>1
        <5> HIDE DEF lo, I
        <5> QED BY <5>1, FS_Interval
      <4>3. M \in SUBSET I
        BY <1>12
      <4>4. Cardinality(I) <= Cardinality(in.picked)
        <5> HIDE DEF I
        <5> QED BY <1>2, <1>5, <4>2
      <4> HIDE DEF M, I
      <4>5. IsFiniteSet(M) /\ Cardinality(M) <= Cardinality(I)
        BY <4>2, <4>3, FS_Subset
      <4>6. Cardinality(M) \in Nat /\ Cardinality(I) \in Nat
        BY <4>2, <4>5, FS_CardinalityType
      <4>7. Cardinality(M) <= Cardinality(in.picked)
        <5> HIDE DEF in
        <5> QED BY <1>2, <4>4, <4>5, <4>6
      <4> QED BY <4>7 DEF M
    <3>2. batches'[b].status = "QUEUED" /\ batches'[b].candidates = Cardinality(in.picked)
      BY <1>7, <1>8
    <3> HIDE DEF b
    <3> QED BY <2>2, <3>1, <3>2 DEF BatchOK, Finished
  <2> QED BY <1>5, <1>8, <2>1, <2>2
<1>20. OffersTypes'
  <2>1. sessions' \in [Session -> {Idle} \cup RespondRow \cup DispatchRow]
    BY <1>1 DEF OffersInv, OffersTypes
  <2>2. Len(batches') <= MaxBatch /\ overdue' \subseteq 1..Len(batches')
    BY <1>1, <1>5, <1>8, OffersConstants DEF OffersInv, OffersTypes
  <2>3. stage' \in [App -> Stage] /\ restarts' \in 0..MaxRestart
    BY <1>1 DEF OffersInv, OffersTypes
  <2> QED BY <1>2, <1>8, <1>17, <2>1, <2>2, <2>3 DEF OffersTypes, m
<1> QED BY <1>14, <1>17, <1>18, <1>19, <1>20 DEF OffersInv, m

LEMMA PatientRetryKeeps ==
    ASSUME OffersInv, NEW b \in 1..MaxBatch, PatientRetry(b)
    PROVE  OffersInv'
<1> DEFINE n == Len(offers)
           row == [batches[b] EXCEPT !.status = "QUEUED"]
<1>1. b \in 1..Len(batches) /\ Len(tasks) < MaxTask
      /\ offers' = [o \in Letter |-> IF o \in Failed(b)
                       THEN [offers[o] EXCEPT !.status = "DRAFT", !.error = FALSE]
                       ELSE offers[o]]
      /\ batches' = [batches EXCEPT ![b] = row] /\ AddTask(b)
      /\ UNCHANGED <<stage, overdue, sessions, inbox, restarts>>
      /\ \A t \in 1..Len(tasks) : tasks[t] # Done => tasks[t].batch # b
  BY DEF PatientRetry, Retry, Running
<1>2. offers \in Seq(OfferRow) /\ n \in Nat /\ batches \in Seq(BatchRow) /\ Len(batches) \in Nat
  BY DEF OffersInv, OffersTypes
<1>3. Failed(b) = MineWith(b, offers, {"FAILED"})
  BY FailedIs
<1>4. \A o \in 1..n : offers[o] \in OfferRow
  <2> HIDE DEF n
  <2>1. n = Len(offers)
    BY DEF n
  <2> QED BY <1>2, <2>1, ElementOfSeq
<1>5. /\ offers' \in Seq(OfferRow) /\ Len(offers') = n
      /\ \A o \in 1..n : offers'[o] = IF o \in Failed(b)
                       THEN [offers[o] EXCEPT !.status = "DRAFT", !.error = FALSE]
                       ELSE offers[o]
  <2>1. \A o \in 1..n : [offers[o] EXCEPT !.status = "DRAFT", !.error = FALSE] \in OfferRow
    BY <1>4 DEF OfferRow, OfferStatus
  <2> HIDE DEF n
  <2>2. Letter = 1..n
    BY DEF Letter, n
  <2>3. /\ \A o \in 1..n : offers'[o] = IF o \in Failed(b)
                       THEN [offers[o] EXCEPT !.status = "DRAFT", !.error = FALSE]
                       ELSE offers[o]
        /\ DOMAIN offers' = 1..n
    BY <1>1, <2>2
  <2>4. offers' = [o \in 1..n |-> offers'[o]]
    BY <1>1, <2>2
  <2>5. \A o \in 1..n : offers'[o] \in OfferRow
    BY <1>4, <2>1, <2>3
  <2>6. offers' \in [1..n -> OfferRow]
    BY <2>4, <2>5
  <2>7. offers' \in Seq(OfferRow)
    BY <1>2, <2>6
  <2>8. Len(offers') = n
    BY <1>2, <2>6
  <2> QED BY <2>3, <2>7, <2>8
<1>6. \A o \in 1..n :
         /\ offers'[o].app = offers[o].app /\ offers'[o].batch = offers[o].batch
         /\ offers'[o].token = offers[o].token
         /\ o \notin Failed(b) => offers'[o] = offers[o]
         /\ o \in Failed(b) => offers'[o].status = "DRAFT" /\ ~offers'[o].error
  <2> HIDE DEF n
  <2> QED BY <1>4, <1>5 DEF OfferRow
<1>7. \A o \in Failed(b) : offers[o].status = "FAILED" /\ offers[o].batch = b
  BY <1>3 DEF MineWith, Mine
<1>8. row \in BatchRow /\ row.status = "QUEUED" /\ row.candidates = batches[b].candidates
  <2>1. batches[b] \in BatchRow
    BY <1>1, <1>2, ElementOfSeq
  <2> QED BY <2>1 DEF BatchRow, BatchStatus
<1> HIDE DEF row, n
<1>9. /\ batches' \in Seq(BatchRow) /\ Len(batches') = Len(batches) /\ batches'[b] = row
      /\ \A c \in 1..Len(batches) : c # b => batches'[c] = batches[c]
  <2>1. batches' = [batches EXCEPT ![b] = row] /\ b \in 1..Len(batches)
    BY <1>1
  <2>2. batches \in Seq(BatchRow) /\ row \in BatchRow
    BY <1>2, <1>8
  <2> QED BY <2>1, <2>2, ExceptSeq
<1>10. \A c : /\ Mine(c, offers') = Mine(c, offers) /\ Mine(c, offers) \subseteq 1..n
              /\ \A o \in Mine(c, offers) : offers[o].batch = c
  BY <1>5, <1>6 DEF Mine, n
<1>11. \A o \in 1..n : offers[o].status \in Out => offers'[o] = offers[o]
  BY <1>6, <1>7 DEF Out, Answer
<1>12. ASSUME NEW o \in 1..n
       PROVE  LetterOK(o, offers', batches', inbox')
  <2>1. LetterOK(o, offers, batches, inbox)
    BY DEF OffersInv, n
  <2>2. CASE o \in Failed(b)
    <3>1. offers'[o].status = "DRAFT" /\ ~offers'[o].error /\ offers'[o].batch = offers[o].batch
      BY <1>6, <2>2
    <3>2. offers'[o].status \notin Out /\ offers'[o].status # "FAILED" /\ offers'[o].status # "WITHDRAWN"
      BY <3>1 DEF Out, Answer
    <3> QED BY <1>9, <2>1, <3>1, <3>2 DEF LetterOK
  <2>3. CASE o \notin Failed(b)
    <3>1. offers'[o] = offers[o] /\ UNCHANGED inbox
      BY <1>1, <1>6, <2>3
    <3>2. \A p \in 1..n : offers'[p].app = offers[p].app
      BY <1>6
    <3> QED BY <1>5, <1>9, <2>1, <3>1, <3>2 DEF LetterOK, n
  <2> QED BY <2>2, <2>3
<1>13. ASSUME NEW t \in 1..Len(tasks), tasks[t] # Done
       PROVE  tasks[t].batch # b /\ TaskOK(tasks[t], offers', batches', inbox')
  <2>1. tasks[t].batch \in 1..Len(batches) /\ tasks[t].batch # b
    BY <1>1, <1>13 DEF OffersInv, TasksOK, TaskOK
  <2>2. \A o \in Mine(tasks[t].batch, offers) : o \in 1..n /\ o \notin Failed(b)
    BY <1>7, <1>10, <2>1
  <2>3. \A o \in Mine(tasks[t].batch, offers) :
            /\ (offers'[o].status = "DRAFT" <=> offers[o].status = "DRAFT")
            /\ offers'[o].token = offers[o].token /\ inbox[o] \subseteq inbox'[o]
    BY <1>1, <1>6, <2>2
  <2>4. tasks[t].batch \in 1..Len(batches')
        /\ batches'[tasks[t].batch].status = batches[tasks[t].batch].status
        /\ Mine(tasks[t].batch, offers') = Mine(tasks[t].batch, offers)
    BY <1>9, <1>10, <2>1
  <2> QED BY <1>13, <2>1, <2>3, <2>4, TasksUndisturbed
<1>14. /\ tasks' \in Seq(TaskRow \cup {Done}) /\ Len(tasks') <= MaxTask
       /\ TasksOK(tasks', offers', batches', inbox')
  <2>1. b \in 1..Len(batches') /\ batches'[b].status = "QUEUED"
    BY <1>1, <1>8, <1>9
  <2> QED BY <1>1, <1>13, <2>1, TaskAdded
<1>15. ASSUME NEW r \in Session
       PROVE  SessionOK(sessions'[r], offers')
  <2>1. sessions'[r] = sessions[r] /\ SessionOK(sessions[r], offers)
    BY <1>1 DEF OffersInv
  <2>2. \A o \in 1..Len(offers) :
             offers'[o].app = offers[o].app /\ (offers[o].status \in Out => offers'[o].status \in Out)
    BY <1>6, <1>11 DEF n
  <2>3. Len(offers) \in Nat /\ Len(offers') \in Nat /\ Len(offers) <= Len(offers')
    <3>1. Len(offers') = n /\ n \in Nat /\ n = Len(offers)
      BY <1>2, <1>5 DEF n
    <3> QED BY <3>1
  <2> QED BY <2>1, <2>2, <2>3, SessionKept
<1>16. ASSUME NEW c \in 1..Len(batches)
       PROVE  BatchOK(c, offers', batches')
  <2>1. BatchOK(c, offers, batches)
    BY DEF OffersInv
  <2>2. CASE c # b
    <3>1. \A o \in Mine(c, offers) : o \in 1..n /\ o \notin Failed(b)
      BY <1>7, <1>10, <2>2
    <3>2. \A o \in Mine(c, offers) :
            /\ offers'[o].status = "FAILED" <=> offers[o].status = "FAILED"
            /\ offers[o].status \in Out => offers'[o].status \in Out
      BY <1>6, <3>1
    <3>3. batches'[c] = batches[c] /\ Mine(c, offers') = Mine(c, offers)
      BY <1>9, <1>10, <2>2
    <3> QED BY <2>1, <3>2, <3>3, BatchKept
  <2>3. CASE c = b
    <3>1. batches'[b].status = "QUEUED" /\ batches'[b].candidates = batches[b].candidates
          /\ Mine(b, offers') = Mine(b, offers)
      BY <1>8, <1>9, <1>10
    <3> QED BY <2>1, <2>3, <3>1 DEF BatchOK, Finished
  <2> QED BY <2>2, <2>3
<1>17. OffersTypes'
  <2>1. Len(batches') <= MaxBatch /\ overdue' \subseteq 1..Len(batches')
    BY <1>1, <1>9 DEF OffersInv, OffersTypes
  <2>2. /\ stage' \in [App -> Stage] /\ restarts' \in 0..MaxRestart
        /\ sessions' \in [Session -> {Idle} \cup RespondRow \cup DispatchRow]
        /\ inbox' \in Seq(Box) /\ Len(inbox') = Len(offers')
    BY <1>1, <1>5 DEF OffersInv, OffersTypes, n
  <2> QED BY <1>5, <1>9, <1>14, <2>1, <2>2 DEF OffersTypes
<1> QED BY <1>5, <1>9, <1>12, <1>14, <1>15, <1>16, <1>17 DEF OffersInv

-----------------------------------------------------------------------------
(* The invariant, and what it promises. *)

LEMMA OffersStart ==
    ASSUME Init
    PROVE  OffersInv
<1>1. OffersTypes
  <2>1. /\ offers \in Seq(OfferRow) /\ Len(offers) = 0 /\ batches \in Seq(BatchRow)
        /\ Len(batches) = 0 /\ tasks \in Seq(TaskRow \cup {Done}) /\ Len(tasks) = 0
        /\ inbox \in Seq(Box) /\ Len(inbox) = 0
    BY DEF Init
  <2>2. stage \in [App -> Stage] /\ sessions \in [Session -> {Idle} \cup RespondRow \cup DispatchRow]
    BY DEF Init, Stage
  <2>3. overdue \subseteq 1..Len(batches) /\ restarts \in 0..MaxRestart
    BY OffersConstants DEF Init
  <2> QED BY <2>1, <2>2, <2>3, OffersConstants DEF OffersTypes
<1>2. Len(offers) = 0 /\ Len(batches) = 0 /\ Len(tasks) = 0
  BY DEF Init
<1>3. \A s \in Session : SessionOK(sessions[s], offers)
  BY DEF Init, SessionOK, Idle
<1> QED BY <1>1, <1>2, <1>3 DEF OffersInv, TasksOK

LEMMA OffersNext ==
    ASSUME OffersInv, [PatientNext]_vars
    PROVE  OffersInv'
<1>1. ASSUME NEW s \in Session, NEW picked \in SUBSET App, StartDispatch(s, picked)
      PROVE  OffersInv'
  BY <1>1, StartDispatchKeeps
<1>2. ASSUME NEW s \in Session, CommitDispatch(s)
      PROVE  OffersInv'
  BY <1>2, CommitDispatchKeeps
<1>3. ASSUME NEW s \in Session, NEW o \in Letter, NEW mail \in inbox[o], NEW answer \in Answer,
             StartRespond(s, o, mail, answer)
      PROVE  OffersInv'
  <2>1. o \in 1..Len(offers)
    BY <1>3 DEF Letter
  <2> QED BY <1>3, <2>1, StartRespondKeeps
<1>4. ASSUME NEW s \in Session, CommitRespond(s)
      PROVE  OffersInv'
  BY <1>4, CommitRespondKeeps
<1>5. ASSUME \/ \E b \in 1..MaxBatch : DeadlinePasses(b)
             \/ \E a \in App, to \in Stage : MoveApplication(a, to)
      PROVE  OffersInv'
  BY <1>5, OutsideKeeps
<1>6. ASSUME NEW t \in 1..MaxTask, TaskStep(t)
      PROVE  OffersInv'
  <2>1. t \in 1..Len(tasks)
    BY <1>6 DEF TaskStep
  <2> QED BY <1>6, <2>1, TaskStepKeeps
<1>7. CASE Restart
  BY <1>7, RestartKeeps
<1>8. ASSUME NEW b \in 1..MaxBatch, PatientRetry(b)
      PROVE  OffersInv'
  BY <1>8, PatientRetryKeeps
<1>9. CASE UNCHANGED vars
  BY <1>9 DEF vars, OffersInv, OffersTypes
<1>10. CASE HandlerStep
  BY <1>1, <1>2, <1>3, <1>4, <1>5, <1>10 DEF HandlerStep
<1> QED BY <1>6, <1>7, <1>8, <1>9, <1>10 DEF PatientNext, SteadyNext, Common

\* The order of rows by their number is as good as that by their dates.
LEMMA NewestFirst ==
    ASSUME NEW S \in SUBSET Nat, IsFiniteSet(S), S # {}
    PROVE  \E x \in S : (\A y \in S : y <= x) /\ Head(Descending(S)) = x
<1> DEFINE n == Cardinality(S)
           d == Descending(S)
<1>1. S \in SUBSET Int /\ n \in Nat
  BY FS_CardinalityType
<1>2. n # 0
  BY FS_EmptySet
<1>3. PICK g \in [1..n -> S] : Rising(g, n)
  <2> HIDE DEF n
  <2>1. n = Cardinality(S)
    BY DEF n
  <2> QED BY <1>1, <2>1, RisingExists
<1>4. \A i, j \in 1..n : i < j => g[i] < g[j]
  BY <1>3 DEF Rising
<1> HIDE DEF n
<1>5. [i \in 1..n |-> g[n + 1 - i]] \in [1..n -> S]
  BY <1>1, <1>3
<1>6. \E f \in [1..n -> S] : \A i, j \in DOMAIN f : i < j => f[i] > f[j]
  <2> DEFINE f == [i \in 1..n |-> g[n + 1 - i]]
  <2>1. \A i \in 1..n : n + 1 - i \in 1..n
    BY <1>1
  <2>2. \A i, j \in 1..n : i < j => f[i] > f[j]
    <3> SUFFICES ASSUME NEW i \in 1..n, NEW j \in 1..n, i < j
                 PROVE  g[n + 1 - i] > g[n + 1 - j]
      OBVIOUS
    <3>1. n + 1 - j < n + 1 - i /\ n + 1 - i \in 1..n /\ n + 1 - j \in 1..n
      BY <1>1, <2>1
    <3>2. g[n + 1 - j] < g[n + 1 - i]
      BY <1>4, <3>1
    <3>3. g[n + 1 - j] \in Int /\ g[n + 1 - i] \in Int
      BY <1>1, <3>1
    <3> QED BY <3>2, <3>3
  <2> QED BY <1>5, <2>2
<1>7. d \in [1..n -> S] /\ \A i, j \in 1..n : i < j => d[i] > d[j]
  BY <1>6 DEF Descending, n
<1> HIDE DEF d
<1> DEFINE h == [i \in 1..n |-> d[n + 1 - i]]
<1>8. \A i \in 1..n : n + 1 - i \in 1..n /\ n + 1 - (n + 1 - i) = i
  BY <1>1
<1>9. h \in [1..n -> S] /\ \A i \in 1..n : h[i] = d[n + 1 - i]
  BY <1>7, <1>8
<1>10. Rising(h, n)
  <2> SUFFICES ASSUME NEW i \in 1..n, NEW j \in 1..n, i < j
               PROVE  h[i] < h[j]
    BY DEF Rising
  <2>1. n + 1 - j < n + 1 - i /\ n + 1 - i \in 1..n /\ n + 1 - j \in 1..n
    BY <1>1, <1>8
  <2>2. d[n + 1 - j] > d[n + 1 - i]
    BY <1>7, <2>1
  <2>3. d[n + 1 - j] \in Int /\ d[n + 1 - i] \in Int
    BY <1>1, <1>7, <2>1
  <2> QED BY <1>9, <2>2, <2>3
<1> HIDE DEF h
<1>11. \A x \in S : \E i \in 1..n : h[i] = x
  <2>1. n = Cardinality(S)
    BY DEF n
  <2> QED BY <1>1, <1>9, <1>10, <2>1, RisingCovers
<1>12. 1 \in 1..n /\ n \in 1..n /\ n + 1 - n = 1
  BY <1>1, <1>2
<1>13. h[n] = d[1] /\ d[1] \in S
  BY <1>7, <1>9, <1>12
<1>14. \A y \in S : y <= d[1]
  <2> SUFFICES ASSUME NEW y \in S
               PROVE  y <= d[1]
    OBVIOUS
  <2>1. PICK i \in 1..n : h[i] = y
    BY <1>11
  <2>2. CASE i = n
    BY <1>1, <1>13, <2>1, <2>2
  <2>3. CASE i # n
    <3>1. i < n
      BY <1>1, <2>3
    <3>2. h[i] < h[n]
      BY <1>10, <1>12, <3>1 DEF Rising
    <3>3. y \in Int /\ d[1] \in Int /\ y < d[1]
      BY <1>1, <1>13, <2>1, <3>2
    <3> QED BY <3>3
  <2> QED BY <2>2, <2>3
<1>15. Head(d) = d[1]
  BY <1>1, <1>7, <1>12
<1> QED BY <1>13, <1>14, <1>15 DEF d

LEMMA LetterSets ==
    ASSUME OffersInv, NEW a
    PROVE  LettersFor(a) \in SUBSET Nat /\ IsFiniteSet(LettersFor(a))
<1> DEFINE S == LettersFor(a)
<1>1. S \in SUBSET (1..Len(offers)) /\ Len(offers) \in Nat
  BY DEF LettersFor, Letter, OffersInv, OffersTypes
<1>2. 1 \in Int /\ Len(offers) \in Int
  BY <1>1
<1>3. IsFiniteSet(1..Len(offers))
  BY <1>2, FS_Interval
<1> HIDE DEF S
<1>4. IsFiniteSet(S)
  BY <1>1, <1>3, FS_Subset
<1> QED BY <1>1, <1>4 DEF S

LEMMA LinksFollow ==
    ASSUME OffersInv, NEW o \in Letter, offers[o].status \in Out
    PROVE  \E mail \in inbox[o] : Follows(o, mail)
BY DEF OffersInv, LetterOK, Follows, Letter

LEMMA CompletedFollows ==
    ASSUME OffersInv
    PROVE  CompletedReachedAll
<1> SUFFICES ASSUME NEW b \in 1..Len(batches), batches[b].status = "COMPLETED"
             PROVE  /\ Cardinality(LettersOf(b)) = batches[b].candidates
                    /\ \A o \in LettersOf(b) : offers[o].status # "DRAFT" /\ inbox[o] # {}
  BY DEF CompletedReachedAll
<1>1. BatchOK(b, offers, batches) /\ LettersOf(b) = Mine(b, offers)
  BY FailedIs DEF OffersInv
<1>2. \A o \in LettersOf(b) : o \in Letter /\ offers[o].status \in Out
  BY <1>1 DEF BatchOK, Mine, Letter
<1>3. \A o \in LettersOf(b) : inbox[o] # {}
  BY <1>2, LinksFollow
<1>4. \A o \in LettersOf(b) : offers[o].status # "DRAFT"
  BY <1>2 DEF Out, Answer
<1> QED BY <1>1, <1>3, <1>4 DEF BatchOK

\* The row the workspace shows for an application.
LEMMA RowsAgree ==
    ASSUME OffersInv, NEW row \in GetWorkspace.candidates
    PROVE  /\ row.offerStatus \in {"SENT"} \cup Answer =>
                \E mail \in inbox[row.latestOffer] : GetOfferDownload(row.latestOffer, mail) = "pdf"
           /\ row.offerStatus # "UNSENT" =>
                Head(GetApplicationOfferLetters(row.application)) = row.latestOffer
           /\ row.offerStatus # "WITHDRAWN"
<1> DEFINE apps == {a \in App : stage[a] = "OFFER"}
           latest == ListLatestOffers(apps)
           Newest(a) == IF a \in DOMAIN latest THEN latest[a] ELSE 0
<1>1. PICK a \in apps :
         row = [application |-> a, latestOffer |-> Newest(a),
                offerStatus |-> OfferStatusOf(Newest(a)), canSend |-> a \in Complete]
  BY DEF GetWorkspace
<1> DEFINE o == Newest(a)
<1>2. row.application = a /\ row.latestOffer = o /\ row.offerStatus = OfferStatusOf(o)
  BY <1>1
<1>3. CASE LettersFor(a) = {}
  <2>1. o = 0
    BY <1>3 DEF ListLatestOffers
  <2>2. OfferStatusOf(o) = "UNSENT"
    BY <2>1 DEF OfferStatusOf
  <2> QED BY <1>2, <2>2 DEF Answer
<1>4. CASE LettersFor(a) # {}
  <2>1. PICK x \in LettersFor(a) :
           (\A y \in LettersFor(a) : y <= x) /\ Head(Descending(LettersFor(a))) = x
    BY <1>4, LetterSets, NewestFirst
  <2>2. o = CHOOSE p \in LettersFor(a) : IsLatest(p)
    BY <1>4 DEF ListLatestOffers
  <2>3. x \in 1..Len(offers) /\ IsLatest(x)
    BY <2>1 DEF LettersFor, Letter, IsLatest
  <2>4. o \in LettersFor(a) /\ IsLatest(o)
    BY <2>1, <2>2, <2>3
  <2> HIDE DEF o
  <2>5. o \in 1..Len(offers) /\ Len(offers) \in Nat /\ offers[o].app = a
    BY <2>4 DEF LettersFor, Letter, OffersInv, OffersTypes
  <2>6. o = x
    <3>1. o <= x
      BY <2>1, <2>4
    <3>2. x <= o
      BY <2>1, <2>4 DEF IsLatest, LettersFor
    <3> QED BY <2>3, <2>5, <3>1, <3>2
  <2>7. LetterOK(o, offers, batches, inbox)
    BY <2>5 DEF OffersInv
  <2>8. OfferStatusOf(o) = offers[o].status
    BY <2>5, <2>7 DEF OfferStatusOf, LetterOK
  <2>9. offers[o].status # "WITHDRAWN"
    <3> SUFFICES ASSUME offers[o].status = "WITHDRAWN"
                 PROVE  FALSE
      OBVIOUS
    <3>1. PICK p \in 1..Len(offers) : offers[p].app = offers[o].app /\ o < p
      BY <2>7 DEF LetterOK
    <3>2. p <= o
      BY <2>4, <3>1 DEF IsLatest, Letter
    <3> QED BY <2>5, <3>1, <3>2
  <2>10. offers[o].status \in {"SENT"} \cup Answer =>
            \E mail \in inbox[o] : GetOfferDownload(o, mail) = "pdf"
    <3>1. offers[o].status \in {"SENT"} \cup Answer => offers[o].status \in Out
      BY DEF Out
    <3>2. offers[o].status \in {"SENT"} \cup Answer => \E mail \in inbox[o] : mail[2] = offers[o].token
      BY <2>7, <3>1 DEF LetterOK
    <3> QED BY <2>9, <3>2 DEF GetOfferDownload
  <2> QED BY <1>2, <2>1, <2>6, <2>8, <2>9, <2>10 DEF GetApplicationOfferLetters
<1> QED BY <1>3, <1>4

LEMMA PagesAgree ==
    ASSUME OffersInv
    PROVE  OfferPagesAgree
<1>1. ASSUME NEW b \in DOMAIN batches, batches[b].status \in Finished
      PROVE  /\ Cardinality({o \in LettersOf(b) : OfferStatusOf(o) = "FAILED"}) + Blocked(b)
                   = batches[b].failure
             /\ batches[b].status = "COMPLETED" =>
                   {o \in LettersOf(b) : OfferStatusOf(o) = "DRAFT"} = {}
  <2>1. b \in 1..Len(batches)
    BY DEF OffersInv, OffersTypes
  <2>2. BatchOK(b, offers, batches)
    BY <2>1 DEF OffersInv
  <2>3. LettersOf(b) = Mine(b, offers) /\ \A o \in Mine(b, offers) : o \in 1..Len(offers)
    BY FailedIs DEF Mine
  <2>4. \A o \in Mine(b, offers) : OfferStatusOf(o) = offers[o].status
    <3> SUFFICES ASSUME NEW o \in Mine(b, offers)
                 PROVE  OfferStatusOf(o) = offers[o].status
      OBVIOUS
    <3>1. o \in 1..Len(offers) /\ LetterOK(o, offers, batches, inbox) /\ o # 0
      BY <2>3 DEF OffersInv
    <3> QED BY <3>1 DEF OfferStatusOf, LetterOK
  <2>5. {o \in LettersOf(b) : OfferStatusOf(o) = "FAILED"} = MineWith(b, offers, {"FAILED"})
    BY <2>3, <2>4 DEF MineWith
  <2>6. Blocked(b) = MissingOf(b, offers, batches)
    <3>1. Cardinality(Mine(b, offers)) \in Nat
          /\ IsFiniteSet(MineWith(b, offers, {"FAILED"}))
      <4>1. Len(offers) \in Nat
        BY DEF OffersInv, OffersTypes
      <4> QED BY <4>1, MineFinite
    <3>2. batches[b] \in BatchRow
      <4>1. batches \in Seq(BatchRow)
        BY DEF OffersInv, OffersTypes
      <4> QED BY <2>1, <4>1, ElementOfSeq
    <3>3. batches[b].candidates \in Nat
      BY <3>2 DEF BatchRow
    <3> QED BY <2>3, <3>1, <3>3 DEF Blocked, MissingOf
  <2>7. batches[b].status = "COMPLETED" => \A o \in Mine(b, offers) : offers[o].status # "DRAFT"
    BY <2>2 DEF BatchOK, Out, Answer
  <2>8. batches[b].failure = Cardinality(MineWith(b, offers, {"FAILED"})) + MissingOf(b, offers, batches)
    BY <1>1, <2>2 DEF BatchOK
  <2>9. Cardinality(MineWith(b, offers, {"FAILED"})) + MissingOf(b, offers, batches) = batches[b].failure
    BY <2>8
  <2> QED BY <2>3, <2>4, <2>5, <2>6, <2>7, <2>9
<1>2. \A b \in DOMAIN batches :
         GetDispatchBatch(b).batch = batches[b] /\ GetDispatchBatch(b).offerLetters = LettersOf(b)
  BY DEF GetDispatchBatch
<1> QED BY <1>1, <1>2, RowsAgree DEF OfferPagesAgree

-----------------------------------------------------------------------------
(* What a step never does. *)

SecondMailStep == \A o \in Letter : offers[o].status # "DRAFT" => inbox'[o] = inbox[o]

LEMMA NoSecondMailNext ==
    ASSUME OffersInv, [PatientNext]_vars
    PROVE  SecondMailStep
<1> SUFFICES ASSUME NEW o \in Letter, offers[o].status # "DRAFT"
             PROVE  inbox'[o] = inbox[o]
  BY DEF SecondMailStep
<1>1. ASSUME NEW s \in Session, CommitDispatch(s)
      PROVE  inbox'[o] = inbox[o]
  BY <1>1, Dispatched DEF Letter
<1>2. ASSUME NEW t \in 1..MaxTask, TaskStep(t)
      PROVE  inbox'[o] = inbox[o]
  <2>1. ASSUME NEW delivered \in BOOLEAN, NEW ok \in BOOLEAN, SendMail(t, delivered, ok)
        PROVE  inbox'[o] = inbox[o]
    <3>1. t \in 1..Len(tasks) /\ tasks[t].pc = "mail" /\ tasks[t].pc \in TaskPc \ {"begin"}
      BY <1>2, <2>1 DEF TaskStep, SendMail, TaskPc
    <3>2. tasks[t].queue # <<>>
      BY <3>1, TaskIs DEF OffersInv, TasksOK, TaskOK
    <3>3. offers[Current(t).offer].status = "DRAFT"
      BY <3>1, <3>2, InHand
    <3>4. Current(t).offer # o
      BY <3>3
    <3>5. o \in DOMAIN inbox
      BY DEF OffersInv, OffersTypes, Letter
    <3> QED BY <2>1, <3>4, <3>5 DEF SendMail
  <2> QED BY <1>2, <2>1 DEF TaskStep, Begin, RenderFails, SaveLink, MarkSent, MarkFailed, Summarise
<1>3. ASSUME NEW s \in Session, NEW picked \in SUBSET App, StartDispatch(s, picked)
      PROVE  inbox'[o] = inbox[o]
  BY <1>3 DEF StartDispatch
<1>4. ASSUME NEW s \in Session, NEW p \in Letter, NEW mail \in inbox[p], NEW answer \in Answer,
             StartRespond(s, p, mail, answer)
      PROVE  inbox'[o] = inbox[o]
  BY <1>4 DEF StartRespond
<1>5. ASSUME NEW s \in Session, CommitRespond(s)
      PROVE  inbox'[o] = inbox[o]
  BY <1>5 DEF CommitRespond
<1>6. CASE HandlerStep
  BY <1>1, <1>3, <1>4, <1>5, <1>6 DEF HandlerStep, MoveApplication, DeadlinePasses
<1> QED BY <1>2, <1>6 DEF PatientNext, SteadyNext, Common, Restart, PatientRetry, Retry, vars

\* What a session has read was so: the letter it answers was SENT and the newest
\* of its application, and those it withdraws were SENT.
ReadHolds(read, saw, ls) ==
    /\ read.kind = "respond" =>
          /\ read.offer \in saw.sent /\ read.offer \in 1..Len(ls)
          /\ saw.letters \in Nat /\ saw.letters <= Len(ls)
          /\ \A p \in 1..saw.letters : ls[p].app = ls[read.offer].app => p <= read.offer
    /\ read.kind = "dispatch" => read.sent \subseteq saw.sent

ReadsHold == \A s \in Session : ReadHolds(sessions[s], seen[s], offers)

AnswersInv == OffersInv /\ ReadsHold

AnswersStep == AnswersKept /\ NewestAnswered

\* A step that leaves what is out as it is, adds no letter and answers none.
Quiet ==
    /\ Len(offers') = Len(offers)
    /\ \A o \in 1..Len(offers) :
          /\ offers'[o].app = offers[o].app
          /\ offers[o].status \in Out => offers'[o].status = offers[o].status
          /\ offers'[o].status \in Answer => offers[o].status \in Answer

LEMMA QuietWrite ==
    ASSUME OffersInv, OffersInv', NEW n \in 1..Len(offers), offers[n].status \notin Out,
           NEW row, row.app = offers[n].app, row.status \notin Answer,
           offers' = [offers EXCEPT ![n] = row]
    PROVE  Quiet
<1>1. offers \in Seq(OfferRow) /\ Len(offers) \in Nat
  BY DEF OffersInv, OffersTypes
<1>2. offers' \in Seq(OfferRow) /\ Len(offers') \in Nat
  BY DEF OffersInv, OffersTypes
<1>3. Len(offers') = Len(offers)
  <2>1. DOMAIN offers' = DOMAIN offers
    OBVIOUS
  <2>2. DOMAIN offers' = 1..Len(offers') /\ DOMAIN offers = 1..Len(offers)
    BY <1>1, <1>2
  <2> QED BY <1>1, <1>2, <2>1, <2>2
<1>4. \A o \in 1..Len(offers) : offers'[o] = IF o = n THEN row ELSE offers[o]
  <2>1. DOMAIN offers = 1..Len(offers)
    BY <1>1
  <2> QED BY <2>1
<1> QED BY <1>3, <1>4 DEF Quiet

LEMMA TasksAreQuiet ==
    ASSUME OffersInv, NEW t \in 1..Len(tasks), TaskStep(t)
    PROVE  Quiet /\ UNCHANGED sessions
<1>0. OffersInv'
  BY TaskStepKeeps
<1>1. UNCHANGED sessions
  BY DEF TaskStep, Begin, RenderFails, SaveLink, SendMail, MarkSent, MarkFailed, Summarise
<1>2. UNCHANGED offers => Quiet
  BY DEF Quiet
<1> DEFINE n == Current(t).offer
<1>3. ASSUME tasks[t].pc \in TaskPc \ {"begin"}, tasks[t].queue # <<>>
      PROVE  n \in 1..Len(offers) /\ offers[n] \in OfferRow /\ offers[n].status \notin Out
             /\ offers[n].status \notin Answer
  <2>1. n \in 1..Len(offers) /\ offers[n] \in OfferRow /\ offers[n].status = "DRAFT"
    BY <1>3, InHand
  <2> HIDE DEF n
  <2> QED BY <2>1 DEF Out, Answer
<1>4. CASE SaveLink(t)
  <2>1. n \in 1..Len(offers) /\ offers[n] \in OfferRow /\ offers[n].status \notin Out
        /\ offers[n].status \notin Answer
    BY <1>3, <1>4 DEF SaveLink, TaskPc
  <2> DEFINE row == [offers[n] EXCEPT !.token = IF Current(t).token = 0 THEN t ELSE Current(t).token]
  <2>2. offers' = offers \/ offers' = [offers EXCEPT ![n] = row]
    BY <1>4 DEF SaveLink
  <2>3. row.app = offers[n].app /\ row.status = offers[n].status
    BY <2>1 DEF OfferRow
  <2> HIDE DEF row, n
  <2> QED BY <1>1, <1>2, <2>1, <2>2, <2>3, <1>0, QuietWrite
<1>5. CASE MarkSent(t)
  <2>1. tasks[t].pc \in TaskPc \ {"begin"} /\ tasks[t].pc = "sent"
    BY <1>5 DEF MarkSent, TaskPc
  <2>2. tasks[t].queue # <<>>
    BY <2>1, TaskIs DEF OffersInv, TasksOK, TaskOK
  <2>3. n \in 1..Len(offers) /\ offers[n] \in OfferRow /\ offers[n].status \notin Out
    BY <1>3, <2>1, <2>2
  <2> DEFINE row == [offers[n] EXCEPT !.status = "SENT"]
  <2>4. offers' = [offers EXCEPT ![n] = row]
    BY <1>5 DEF MarkSent
  <2>5. row.app = offers[n].app /\ row.status \notin Answer
    BY <2>3 DEF OfferRow, Answer
  <2> HIDE DEF row, n
  <2> QED BY <1>1, <2>3, <2>4, <2>5, <1>0, QuietWrite
<1>6. CASE MarkFailed(t)
  <2>1. tasks[t].pc \in TaskPc \ {"begin"} /\ tasks[t].pc = "failed"
    BY <1>6 DEF MarkFailed, TaskPc
  <2>2. tasks[t].queue # <<>>
    BY <2>1, TaskIs DEF OffersInv, TasksOK, TaskOK
  <2>3. n \in 1..Len(offers) /\ offers[n] \in OfferRow /\ offers[n].status \notin Out
    BY <1>3, <2>1, <2>2
  <2> DEFINE row == [offers[n] EXCEPT !.status = "FAILED", !.error = TRUE]
  <2>4. offers' = [offers EXCEPT ![n] = row]
    BY <1>6 DEF MarkFailed
  <2>5. row.app = offers[n].app /\ row.status \notin Answer
    BY <2>3 DEF OfferRow, Answer
  <2> HIDE DEF row, n
  <2> QED BY <1>1, <2>3, <2>4, <2>5, <1>0, QuietWrite
<1>7. CASE \/ Begin(t) \/ RenderFails(t) \/ \E delivered, ok \in BOOLEAN : SendMail(t, delivered, ok)
           \/ Summarise(t)
  BY <1>1, <1>2, <1>7 DEF Begin, RenderFails, SendMail, Summarise
<1> QED BY <1>4, <1>5, <1>6, <1>7 DEF TaskStep

LEMMA RetryIsQuiet ==
    ASSUME OffersInv, NEW b \in 1..MaxBatch, PatientRetry(b)
    PROVE  Quiet /\ UNCHANGED sessions
<1>1. /\ offers' = [o \in Letter |-> IF o \in Failed(b)
                       THEN [offers[o] EXCEPT !.status = "DRAFT", !.error = FALSE]
                       ELSE offers[o]]
      /\ UNCHANGED sessions
  BY DEF PatientRetry, Retry
<1>2. Failed(b) = MineWith(b, offers, {"FAILED"}) /\ Len(offers) \in Nat
      /\ offers \in Seq(OfferRow)
  BY FailedIs DEF OffersInv, OffersTypes
<1>3. Len(offers') = Len(offers)
  <2>1. offers' \in Seq(OfferRow) /\ Len(offers') \in Nat
    BY PatientRetryKeeps DEF OffersInv, OffersTypes
  <2>2. DOMAIN offers' = 1..Len(offers')
    BY <2>1
  <2>3. DOMAIN offers' = 1..Len(offers)
    BY <1>1 DEF Letter
  <2> QED BY <1>2, <2>1, <2>2, <2>3
<1>4. \A o \in 1..Len(offers) : offers[o] \in OfferRow
  BY <1>2, ElementOfSeq
<1>5. \A o \in 1..Len(offers) :
          /\ offers'[o].app = offers[o].app
          /\ offers'[o] = offers[o] \/ (offers[o].status = "FAILED" /\ offers'[o].status = "DRAFT")
  <2> SUFFICES ASSUME NEW o \in 1..Len(offers)
               PROVE  /\ offers'[o].app = offers[o].app
                      /\ offers'[o] = offers[o]
                         \/ (offers[o].status = "FAILED" /\ offers'[o].status = "DRAFT")
    OBVIOUS
  <2>1. offers[o] \in OfferRow
    BY <1>4
  <2>2. CASE o \in Failed(b)
    <3>1. offers'[o] = [offers[o] EXCEPT !.status = "DRAFT", !.error = FALSE]
      BY <1>1, <2>2 DEF Letter
    <3>2. offers[o].status = "FAILED"
      BY <1>2, <2>2 DEF MineWith
    <3> QED BY <2>1, <3>1, <3>2 DEF OfferRow
  <2>3. CASE o \notin Failed(b)
    BY <1>1, <2>3 DEF Letter
  <2> QED BY <2>2, <2>3
<1>6. "FAILED" \notin Out /\ "DRAFT" \notin Answer
  BY DEF Out, Answer
<1> QED BY <1>1, <1>3, <1>5, <1>6 DEF Quiet

\* Letters are never taken back, nor given to another application.
Grows ==
    /\ Len(offers) <= Len(offers')
    /\ \A o \in 1..Len(offers) : offers'[o].app = offers[o].app

\* What a session read stays so while letters are added.
LEMMA ReadStays ==
    ASSUME OffersInv, OffersInv', Remember, Grows, NEW s \in Session,
           ReadHolds(sessions[s], seen[s], offers), sessions'[s] \in {Idle, sessions[s]}
    PROVE  ReadHolds(sessions'[s], seen'[s], offers')
<1>1. CASE sessions'[s] = Idle
  BY <1>1 DEF ReadHolds, Idle
<1>2. CASE sessions'[s] # Idle
  <2>1. sessions'[s] = sessions[s] /\ seen'[s] = seen[s]
    BY <1>2 DEF Remember
  <2>2. Len(offers) \in Nat /\ Len(offers') \in Nat
    BY DEF OffersInv, OffersTypes
  <2> QED BY <2>1, <2>2 DEF ReadHolds, Grows
<1> QED BY <1>1, <1>2

LEMMA QuietKeepsReads ==
    ASSUME AnswersInv, OffersInv', Remember, Quiet, UNCHANGED sessions
    PROVE  ReadsHold' /\ AnswersStep
<1>1. "SENT" \in Out /\ Answer \subseteq Out
  BY DEF Out
<1>2. Grows
  BY DEF Grows, Quiet, AnswersInv, OffersInv, OffersTypes
<1>3. ReadsHold'
  BY <1>2, ReadStays DEF AnswersInv, ReadsHold
<1>4. AnswersStep
  BY <1>1 DEF AnswersStep, AnswersKept, NewestAnswered, Quiet, Letter
<1> QED BY <1>3, <1>4

\* A session that begins writes nothing: what it reads is so.
LEMMA ReadingHolds ==
    ASSUME AnswersInv, OffersInv', Remember, UNCHANGED offers, NEW s \in Session,
           sessions[s] = Idle, NEW row \in RespondRow \cup DispatchRow,
           sessions' = [sessions EXCEPT ![s] = row], ReadHolds(row, SeenNow, offers)
    PROVE  ReadsHold' /\ AnswersStep
<1>1. sessions \in [Session -> {Idle} \cup RespondRow \cup DispatchRow]
  BY DEF AnswersInv, OffersInv, OffersTypes
<1>2. row # Idle
  BY DEF Idle, RespondRow, DispatchRow
<1>3. ReadHolds(sessions'[s], seen'[s], offers')
  BY <1>1, <1>2 DEF Remember
<1>4. Grows
  BY DEF Grows, AnswersInv, OffersInv, OffersTypes
<1>5. \A r \in Session \ {s} : ReadHolds(sessions'[r], seen'[r], offers')
  BY <1>1, <1>4, ReadStays DEF AnswersInv, ReadsHold
<1>6. AnswersStep
  BY DEF AnswersStep, AnswersKept, NewestAnswered
<1> QED BY <1>3, <1>5, <1>6 DEF ReadsHold

LEMMA StartDispatchReads ==
    ASSUME AnswersInv, OffersInv', Remember, NEW s \in Session, NEW picked \in SUBSET App,
           StartDispatch(s, picked)
    PROVE  ReadsHold' /\ AnswersStep
<1> DEFINE row == [kind |-> "dispatch", picked |-> picked, valid |-> Eligible(picked),
                   sent |-> SentTo(Eligible(picked))]
<1>1. sessions[s] = Idle /\ sessions' = [sessions EXCEPT ![s] = row] /\ UNCHANGED offers
  BY DEF StartDispatch
<1>2. Eligible(picked) \subseteq App /\ SentTo(Eligible(picked)) \in SUBSET Nat
  BY DEF Eligible, SentTo, Letter, AnswersInv, OffersInv, OffersTypes
<1>3. row \in DispatchRow
  BY <1>2 DEF DispatchRow
<1>4. ReadHolds(row, SeenNow, offers)
  BY DEF ReadHolds, SeenNow, SentTo
<1> HIDE DEF row
<1> QED BY <1>1, <1>3, <1>4, ReadingHolds

LEMMA StartRespondReads ==
    ASSUME AnswersInv, OffersInv', Remember, NEW s \in Session, NEW o \in Letter,
           NEW mail \in inbox[o], NEW answer \in Answer, StartRespond(s, o, mail, answer)
    PROVE  ReadsHold' /\ AnswersStep
<1> DEFINE row == [kind |-> "respond", offer |-> o, from |-> stage[offers[o].app],
                   error |-> offers[o].error,
                   status |-> IF offers[o].batch \in overdue THEN "EXPIRED" ELSE answer]
<1>1. sessions[s] = Idle /\ sessions' = [sessions EXCEPT ![s] = row] /\ UNCHANGED offers
  BY DEF StartRespond
<1>2. offers[o] \in OfferRow /\ stage[offers[o].app] \in Stage /\ Len(offers) \in Nat
  <2>1. offers[o] \in OfferRow
    BY ElementOfSeq DEF AnswersInv, OffersInv, OffersTypes, Letter
  <2> QED BY <2>1 DEF AnswersInv, OffersInv, OffersTypes, OfferRow
<1>3. row \in RespondRow
  BY <1>2 DEF RespondRow, OfferRow, Letter
<1>4. ReadHolds(row, SeenNow, offers)
  BY <1>2 DEF ReadHolds, SeenNow, StartRespond, IsLatest, Letter
<1> HIDE DEF row
<1> QED BY <1>1, <1>3, <1>4, ReadingHolds

LEMMA CommitDispatchStands ==
    ASSUME AnswersInv, OffersInv', Remember, NEW s \in Session, CommitDispatch(s)
    PROVE  ReadsHold' /\ AnswersStep
<1>1. sessions' = [sessions EXCEPT ![s] = Idle] /\ sessions[s].kind = "dispatch"
      /\ sessions \in [Session -> {Idle} \cup RespondRow \cup DispatchRow]
  BY DEF CommitDispatch, AnswersInv, OffersInv, OffersTypes
<1>2. /\ Len(offers) <= Len(offers')
      /\ \A o \in 1..Len(offers) :
            /\ offers'[o].app = offers[o].app
            /\ o \notin sessions[s].sent => offers'[o] = offers[o]
            /\ o \in sessions[s].sent => offers'[o].status = "WITHDRAWN"
  BY Dispatched DEF AnswersInv
<1>3. ReadsHold'
  <2>1. Grows
    BY <1>2 DEF Grows
  <2>2. \A r \in Session : sessions'[r] \in {Idle, sessions[r]}
    BY <1>1
  <2> QED BY <2>1, <2>2, ReadStays DEF AnswersInv, ReadsHold
<1>4. \A o \in sessions[s].sent : CommitsOn(s, o)
  <2>1. sessions[s] # Idle /\ sessions'[s] = Idle
    BY <1>1 DEF Idle
  <2>2. sessions[s].sent \subseteq seen[s].sent
    BY <1>1 DEF AnswersInv, ReadsHold, ReadHolds
  <2> QED BY <2>1, <2>2 DEF CommitsOn
<1>5. "WITHDRAWN" \notin Answer
  BY DEF Answer
<1>6. AnswersKept
  BY <1>2, <1>4 DEF AnswersKept, Letter
<1>7. NewestAnswered
  BY <1>2, <1>5 DEF NewestAnswered, Letter
<1> QED BY <1>3, <1>6, <1>7 DEF AnswersStep

LEMMA CommitRespondStands ==
    ASSUME AnswersInv, OffersInv', Remember, NEW s \in Session, CommitRespond(s)
    PROVE  ReadsHold' /\ AnswersStep
<1> DEFINE n == sessions[s].offer
           row == [offers[n] EXCEPT !.status = sessions[s].status,
                       !.error = offers[n].error
                                 /\ ~(sessions[s].error /\ sessions[s].status \in Answer)]
<1>1. sessions' = [sessions EXCEPT ![s] = Idle] /\ sessions[s].kind = "respond"
      /\ sessions \in [Session -> {Idle} \cup RespondRow \cup DispatchRow]
      /\ offers' = [offers EXCEPT ![n] = row]
  BY DEF CommitRespond, AnswersInv, OffersInv, OffersTypes
<1>2. offers \in Seq(OfferRow) /\ Len(offers) \in Nat /\ offers' \in Seq(OfferRow)
      /\ Len(offers') \in Nat
  BY DEF AnswersInv, OffersInv, OffersTypes
<1>3. /\ n \in seen[s].sent /\ n \in 1..Len(offers)
      /\ \A p \in 1..seen[s].letters : offers[p].app = offers[n].app => p <= n
  BY <1>1 DEF AnswersInv, ReadsHold, ReadHolds
<1>4. CommitsOn(s, n)
  BY <1>1, <1>3 DEF CommitsOn, Idle
<1>5. row.app = offers[n].app
  <2>1. offers[n] \in OfferRow
    BY <1>2, <1>3, ElementOfSeq
  <2> QED BY <2>1 DEF OfferRow
<1> HIDE DEF row, n
<1>6. Len(offers') = Len(offers)
      /\ \A o \in 1..Len(offers) : offers'[o] = IF o = n THEN row ELSE offers[o]
  <2>1. DOMAIN offers = 1..Len(offers) /\ DOMAIN offers' = DOMAIN offers
        /\ DOMAIN offers' = 1..Len(offers')
    BY <1>1, <1>2
  <2>2. Len(offers') = Len(offers)
    BY <1>2, <2>1
  <2> QED BY <1>1, <2>1, <2>2
<1>7. ReadsHold'
  <2>1. Grows
    BY <1>2, <1>5, <1>6 DEF Grows
  <2>2. \A r \in Session : sessions'[r] \in {Idle, sessions[r]}
    BY <1>1
  <2> QED BY <2>1, <2>2, ReadStays DEF AnswersInv, ReadsHold
<1>8. AnswersKept
  BY <1>4, <1>6 DEF AnswersKept, Letter
<1>9. NewestAnswered
  <2> SUFFICES ASSUME NEW o \in Letter, offers'[o].status \in Answer, offers[o].status \notin Answer
               PROVE  \E r \in Session :
                         /\ CommitsOn(r, o)
                         /\ \A p \in 1..seen[r].letters : offers[p].app = offers[o].app => p <= o
    BY DEF NewestAnswered
  <2>1. o = n
    BY <1>6 DEF Letter
  <2> QED BY <1>3, <1>4, <2>1
<1> QED BY <1>7, <1>8, <1>9 DEF AnswersStep

LEMMA AnswersNext ==
    ASSUME AnswersInv, [PatientNext /\ Remember]_racingVars
    PROVE  AnswersInv' /\ AnswersStep
<1> DEFINE Goal == ReadsHold' /\ AnswersStep
<1>1. OffersInv /\ OffersInv' /\ ReadsHold
  <2>1. [PatientNext]_vars
    BY DEF racingVars
  <2> QED BY <2>1, OffersNext DEF AnswersInv
<1>2. UNCHANGED offers => Quiet /\ AnswersStep
  BY DEF Quiet, AnswersStep, AnswersKept, NewestAnswered
<1>3. ASSUME UNCHANGED racingVars
      PROVE  Goal
  <2>1. UNCHANGED <<offers, sessions, seen>>
    BY <1>3 DEF racingVars, vars
  <2> QED BY <1>1, <1>2, <2>1 DEF ReadsHold
<1>4. ASSUME Remember, \/ \E b \in 1..MaxBatch : DeadlinePasses(b)
                       \/ \E a \in App, to \in Stage : MoveApplication(a, to)
      PROVE  Goal
  BY <1>1, <1>2, <1>4, QuietKeepsReads DEF DeadlinePasses, MoveApplication
<1>5. ASSUME Remember, NEW t \in 1..MaxTask, TaskStep(t)
      PROVE  Goal
  <2>1. t \in 1..Len(tasks)
    BY <1>5 DEF TaskStep
  <2> QED BY <1>1, <1>5, <2>1, TasksAreQuiet, QuietKeepsReads
<1>6. ASSUME Remember, NEW b \in 1..MaxBatch, PatientRetry(b)
      PROVE  Goal
  BY <1>1, <1>6, RetryIsQuiet, QuietKeepsReads
<1>7. ASSUME Remember, Restart
      PROVE  Goal
  <2>1. (\A s \in Session : sessions'[s] = Idle) /\ UNCHANGED offers
    BY <1>7 DEF Restart
  <2>2. ReadsHold'
    BY <2>1 DEF ReadsHold, ReadHolds, Idle
  <2> QED BY <1>2, <2>1, <2>2
<1> HIDE DEF Goal
<1>8. ASSUME Remember, HandlerStep
      PROVE  Goal
  BY <1>1, <1>4, <1>8, StartDispatchReads, StartRespondReads, CommitDispatchStands,
     CommitRespondStands DEF HandlerStep, Goal
<1>9. Goal
  BY <1>3, <1>5, <1>6, <1>7, <1>8 DEF PatientNext, SteadyNext, Common
<1> QED BY <1>1, <1>9 DEF AnswersInv, Goal

-----------------------------------------------------------------------------
(* Theorems about offer letters. *)

\* What follows holds of the dispatch explored with templates and reminders, and
\* of the one whose handlers overlap, on a server that is restarted or never is:
\* all are patient dispatches.
THEOREM LettersArePatient ==
    /\ LettersSpec => PatientSpec
    /\ SteadyRacingSpec => RacingSpec
    /\ RacingSpec => PatientSpec
<1>1. LettersInit => Init
  BY DEF LettersInit
<1>2. [LettersNext]_lettersVars => [PatientNext]_vars
  BY DEF LettersNext, lettersVars
<1>3. [SteadyNext /\ Remember]_racingVars => [PatientNext /\ Remember]_racingVars
  BY DEF PatientNext
<1>4. [PatientNext /\ Remember]_racingVars => [PatientNext]_vars
  BY DEF racingVars
<1>5. LettersSpec => PatientSpec
  BY <1>1, <1>2, PTL DEF LettersSpec, PatientSpec
<1>6. SteadyRacingSpec => RacingSpec
  BY <1>3, PTL DEF SteadyRacingSpec, RacingSpec
<1>7. RacingSpec => PatientSpec
  BY <1>4, PTL DEF RacingSpec, PatientSpec, RacingInit
<1> QED BY <1>5, <1>6, <1>7

\* Every letter that is out has its link, tasks and sessions work on what is
\* still so, and batches count what became of their letters: the invariant the
\* other theorems follow from.
THEOREM OffersSound == PatientSpec => []OffersInv
<1>1. Init => OffersInv
  BY OffersStart
<1>2. OffersInv /\ [PatientNext]_vars => OffersInv'
  BY OffersNext
<1> QED BY <1>1, <1>2, PTL DEF PatientSpec

\* Through failed calls, retries and restarts, a letter that shows as sent was
\* mailed, and the links in its mail lead to it.
THEOREM LinksAlwaysWork == PatientSpec => []LinksWork
<1>1. OffersInv => LinksWork
  <2>1. "SENT" \in Out
    BY DEF Out
  <2> QED BY <2>1, LinksFollow DEF LinksWork
<1> QED BY <1>1, OffersSound, PTL

\* A batch shown as completed reached everybody it was made for, and the pages
\* of recruiters and candidates say what the letters are.
THEOREM BatchesStayTrue == PatientSpec => []BatchesAreTrue
<1>1. OffersInv => BatchesAreTrue
  BY CompletedFollows, PagesAgree DEF BatchesAreTrue
<1> QED BY <1>1, OffersSound, PTL

\* A letter that has left DRAFT is not mailed again unless a retry resets it.
THEOREM NobodyIsMailedTwice == PatientSpec => NoSecondMail
<1>1. OffersInv /\ [PatientNext]_vars => [SecondMailStep]_vars
  BY NoSecondMailNext
<1>2. PatientSpec => [][SecondMailStep]_vars
  BY <1>1, OffersSound, PTL DEF PatientSpec
<1> QED BY <1>2 DEF NoSecondMail, SecondMailStep

HoldStep == AnswersKept /\ NewestAnswered /\ OfferPagesAgree'

\* However handlers overlap, on any number of sessions: an answer is only changed
\* by a session that had read its letter while it was SENT, an answer is only
\* given to a letter that was SENT and the newest when its link was followed, and
\* the pages agree after every step.
THEOREM AnswersAlwaysHold == RacingSpec => AnswersHold
<1>1. RacingInit => AnswersInv
  <2>1. RacingInit => ReadsHold
    BY DEF RacingInit, Init, ReadsHold, ReadHolds, Idle
  <2> QED BY <2>1, OffersStart DEF AnswersInv, RacingInit
<1>2. AnswersInv /\ [PatientNext /\ Remember]_racingVars => AnswersInv' /\ AnswersStep
  BY AnswersNext
<1>3. AnswersInv' => OfferPagesAgree'
  <2>1. AnswersInv => OfferPagesAgree
    BY PagesAgree DEF AnswersInv
  <2> QED BY <2>1, PTL
<1>4. AnswersInv /\ [PatientNext /\ Remember]_racingVars => [HoldStep]_racingVars
  BY <1>2, <1>3 DEF HoldStep, AnswersStep
<1>5. RacingSpec => [][HoldStep]_racingVars
  <2>1. RacingSpec => []AnswersInv
    BY <1>1, <1>2, PTL DEF RacingSpec
  <2> QED BY <1>4, <2>1, PTL DEF RacingSpec
<1> QED BY <1>5 DEF AnswersHold, HoldStep

-----------------------------------------------------------------------------
(* Templates: their tables, and the letters made from them. *)

CategoryTables == UNION {[G -> CategoryRow] : G \in SUBSET OfferCategory}
TemplateRec == [name : Name, status : TemplateStatus, footer : Text, categories : CategoryTables]
TextRow == [footer : Text, sections : SUBSET SectionRow]
LetterRow == [from : OfferTemplate \cup {"null"}, text : TextRow, override : Override,
              status : {"drafted", "rendered", "failed"},
              said : {"null"} \cup TextRow]

\* What is rendered says what was copied.
Faithful(row) == row.status = "rendered" => row.said = row.text

TablesInv ==
    /\ DOMAIN templates \subseteq OfferTemplate
    /\ \A t \in DOMAIN templates : templates[t] \in TemplateRec
    /\ \A t, u \in DOMAIN templates : t # u => templates[t].name # templates[u].name

TemplatesInv ==
    /\ TablesInv
    /\ DOMAIN letters \subseteq Addressee
    /\ \A a \in DOMAIN letters :
          letters[a] \in LetterRow /\ Faithful(letters[a])
    /\ salary \in BOOLEAN

\* A row of the template table is written whole.
LEMMA TemplateWritten ==
    ASSUME TemplatesInv, NEW t \in OfferTemplate, NEW row \in TemplateRec,
           \A u \in DOMAIN templates \ {t} : templates[u].name # row.name,
           WriteTemplate(t, row)
    PROVE  TemplatesInv'
<1>1. templates' = Upsert(templates, t, row) /\ UNCHANGED <<letters, candidates, salary>>
  BY DEF WriteTemplate
<1>2. /\ DOMAIN templates' = DOMAIN templates \cup {t} /\ templates'[t] = row
      /\ \A u \in DOMAIN templates : u # t => templates'[u] = templates[u]
  BY <1>1 DEF Upsert
<1>3. TablesInv'
  BY <1>2 DEF TablesInv, TemplatesInv
<1> QED BY <1>1, <1>3 DEF TemplatesInv

\* The next name of a copy is one no template has.
LEMMA CopyNameIsNew ==
    ASSUME TablesInv, NEW name \in Name
    PROVE  NextCopyName(name) \notin Names
<1> DEFINE S == {n \in 1..Copies + 1 : <<name[1], n>> \notin Names}
<1>1. Copies + 1 \in 1..Copies + 1 /\ 1 \in Int /\ Copies + 1 \in Int
  BY TemplatesConstants
<1>2. Names \subseteq Name
  BY DEF TablesInv, Names, TemplateRec
<1>3. <<name[1], Copies + 1>> \notin Name
  BY TemplatesConstants DEF Name
<1>4. Copies + 1 \in S
  BY <1>1, <1>2, <1>3
<1>5. IsFiniteSet(1..Copies + 1)
  <2> DEFINE hi == Copies + 1
  <2>1. 1 \in Int /\ hi \in Int
    BY <1>1
  <2> HIDE DEF hi
  <2>2. IsFiniteSet(1..hi)
    BY <2>1, FS_Interval
  <2> QED BY <2>2 DEF hi
<1>6. S \in SUBSET (1..Copies + 1)
  OBVIOUS
<1>7. S \in SUBSET Int
  BY TemplatesConstants
<1> HIDE DEF S
<1>8. IsFiniteSet(S)
  BY <1>5, <1>6, FS_Subset
<1>9. Min(S) \in S
  BY <1>4, <1>7, <1>8, MinIsLeast
<1>10. <<name[1], Min(S)>> \notin Names
  BY <1>9 DEF S
<1> QED BY <1>10 DEF NextCopyName, S

LEMMA CategoriesGrow ==
    ASSUME NEW cs \in CategoryTables, NEW g \in OfferCategory, NEW row \in CategoryRow
    PROVE  Upsert(cs, g, row) \in CategoryTables
<1>1. PICK G \in SUBSET OfferCategory : cs \in [G -> CategoryRow]
  BY DEF CategoryTables
<1>2. Upsert(cs, g, row) \in [G \cup {g} -> CategoryRow] /\ G \cup {g} \in SUBSET OfferCategory
  BY <1>1 DEF Upsert
<1> QED BY <1>2 DEF CategoryTables

LEMMA CategoriesCount ==
    ASSUME NEW cs \in CategoryTables
    PROVE  DOMAIN cs \subseteq OfferCategory /\ Cardinality(DOMAIN cs) \in Nat
           /\ \A g \in DOMAIN cs : cs[g] \in CategoryRow
<1>1. PICK G \in SUBSET OfferCategory : cs \in [G -> CategoryRow]
  BY DEF CategoryTables
<1>2. DOMAIN cs = G /\ \A g \in DOMAIN cs : cs[g] \in CategoryRow
  BY <1>1
<1>3. IsFiniteSet(G)
  BY TemplatesConstants, FS_Subset
<1> QED BY <1>2, <1>3, FS_CardinalityType

LEMMA NewCategoryRow ==
    ASSUME NEW slug \in Root, NEW order \in Int
    PROVE  NewCategory(slug, order) \in CategoryRow
<1>1. \A k \in SectionKey : [key |-> k, text |-> "", order |-> 1] \in SectionRow
  BY DEF SectionRow, Text
<1>2. DefaultSections \in SUBSET SectionRow
  BY <1>1 DEF DefaultSections
<1> QED BY <1>2 DEF NewCategory, CategoryRow

LEMMA CreateTemplateKeeps ==
    ASSUME TemplatesInv, NEW t \in OfferTemplate, NEW g \in OfferCategory, NEW slug \in Root,
           NEW footer \in FooterInput, CreateTemplate(t, <<slug, 0>>, g, slug, footer)
    PROVE  TemplatesInv'
<1> DEFINE name == UniqueName(<<slug, 0>>)
           cs == Upsert(NoRecords, g, NewCategory(slug, 1))
           row == [name |-> name, status |-> "DRAFT", footer |-> footer, categories |-> cs]
<1>1. name \in Name /\ WriteTemplate(t, row)
  BY DEF CreateTemplate
<1>2. <<slug, 0>> \in Name
  BY TemplatesConstants DEF Name
<1>3. name \notin Names
  BY <1>2, CopyNameIsNew DEF UniqueName, TemplatesInv
<1>4. NoRecords \in CategoryTables
  <2>1. NoRecords \in [{} -> CategoryRow]
    BY DEF NoRecords
  <2> QED BY <2>1 DEF CategoryTables
<1>5. cs \in CategoryTables
  <2>1. NewCategory(slug, 1) \in CategoryRow
    BY NewCategoryRow
  <2> QED BY <1>4, <2>1, CategoriesGrow
<1>6. row \in TemplateRec /\ row.name = name
  <2> HIDE DEF name, cs
  <2> QED BY <1>1, <1>5, TemplatesConstants DEF TemplateRec, TemplateStatus
<1>7. \A u \in DOMAIN templates \ {t} : templates[u].name # row.name
  BY <1>3, <1>6 DEF Names
<1> HIDE DEF row
<1> QED BY <1>1, <1>6, <1>7, TemplateWritten

LEMMA UpdateTemplateKeeps ==
    ASSUME TemplatesInv, NEW t \in OfferTemplate, NEW name \in Name,
           NEW status \in TemplateStatus, NEW footer \in FooterInput,
           UpdateTemplate(t, name, status, footer)
    PROVE  TemplatesInv'
<1> DEFINE row == [templates[t] EXCEPT !.name = name, !.status = status, !.footer = footer]
<1>1. t \in DOMAIN templates /\ WriteTemplate(t, row)
      /\ \A u \in DOMAIN templates \ {t} : templates[u].name # name
  BY DEF UpdateTemplate
<1>2. row \in TemplateRec /\ row.name = name
  BY <1>1, TemplatesConstants DEF TemplatesInv, TablesInv, TemplateRec
<1> HIDE DEF row
<1> QED BY <1>1, <1>2, TemplateWritten

LEMMA CopyTemplateKeeps ==
    ASSUME TemplatesInv, NEW t \in OfferTemplate, NEW u \in OfferTemplate,
           NEW gs \in SUBSET OfferCategory, NEW g \in [gs -> OfferCategory],
           CopyTemplate(t, u, g)
    PROVE  TemplatesInv'
<1> DEFINE cs == templates[t].categories
           name == NextCopyName(templates[t].name)
           ds == [c \in {g[d] : d \in DOMAIN g} |-> cs[CHOOSE d \in DOMAIN g : g[d] = c]]
           row == [templates[t] EXCEPT !.name = name, !.categories = ds]
<1>1. t \in DOMAIN templates /\ u \notin DOMAIN templates /\ name \in Name /\ WriteTemplate(u, row)
      /\ DOMAIN g = DOMAIN cs
  BY DEF CopyTemplate
<1>2. templates[t] \in TemplateRec
  BY <1>1 DEF TemplatesInv, TablesInv
<1>3. cs \in CategoryTables /\ templates[t].name \in Name
  BY <1>2 DEF TemplateRec
<1>4. \A d \in DOMAIN g : cs[d] \in CategoryRow
  <2> HIDE DEF cs
  <2> QED BY <1>1, <1>3, CategoriesCount
<1>5. ds \in CategoryTables
  <2> HIDE DEF cs
  <2> DEFINE G == {g[d] : d \in DOMAIN g}
  <2>1. G \in SUBSET OfferCategory
    OBVIOUS
  <2>2. \A c \in G : (CHOOSE d \in DOMAIN g : g[d] = c) \in DOMAIN g
    OBVIOUS
  <2>3. ds \in [G -> CategoryRow]
    BY <1>4, <2>2
  <2> HIDE DEF ds, G
  <2> QED BY <2>1, <2>3 DEF CategoryTables
<1>6. name \notin Names
  BY <1>3, CopyNameIsNew DEF TemplatesInv
<1> HIDE DEF ds, name
<1>7. row \in TemplateRec /\ row.name = name
  BY <1>1, <1>2, <1>5 DEF TemplateRec
<1>8. \A v \in DOMAIN templates \ {u} : templates[v].name # row.name
  BY <1>6, <1>7 DEF Names
<1> HIDE DEF row
<1> QED BY <1>1, <1>7, <1>8, TemplateWritten

\* Only the categories of a template are written.
LEMMA CategoriesWritten ==
    ASSUME TemplatesInv, NEW t \in OfferTemplate, t \in DOMAIN templates,
           NEW cs \in CategoryTables, WriteTemplate(t, [templates[t] EXCEPT !.categories = cs])
    PROVE  TemplatesInv'
<1> DEFINE row == [templates[t] EXCEPT !.categories = cs]
<1>1. row \in TemplateRec /\ row.name = templates[t].name
  BY DEF TemplatesInv, TablesInv, TemplateRec
<1>2. \A u \in DOMAIN templates \ {t} : templates[u].name # row.name
  BY <1>1 DEF TemplatesInv, TablesInv
<1>3. WriteTemplate(t, row)
  OBVIOUS
<1> HIDE DEF row
<1> QED BY <1>1, <1>2, <1>3, TemplateWritten

LEMMA CreateCategoryKeeps ==
    ASSUME TemplatesInv, NEW t \in OfferTemplate, NEW g \in OfferCategory, NEW slug \in Root,
           CreateCategory(t, g, slug)
    PROVE  TemplatesInv'
<1> DEFINE cs == templates[t].categories
           row == NewCategory(slug, Cardinality(DOMAIN cs) + 1)
           ds == Upsert(cs, g, row)
<1>1. t \in DOMAIN templates /\ WriteTemplate(t, [templates[t] EXCEPT !.categories = ds])
  BY DEF CreateCategory
<1>2. cs \in CategoryTables
  BY <1>1 DEF TemplatesInv, TablesInv, TemplateRec
<1>3. Cardinality(DOMAIN cs) + 1 \in Int
  <2> HIDE DEF cs
  <2>1. Cardinality(DOMAIN cs) \in Nat
    BY <1>2, CategoriesCount
  <2> QED BY <2>1
<1>4. row \in CategoryRow
  BY <1>3, NewCategoryRow
<1>5. ds \in CategoryTables
  <2> HIDE DEF cs, row
  <2> QED BY <1>2, <1>4, CategoriesGrow
<1> HIDE DEF ds
<1> QED BY <1>1, <1>5, CategoriesWritten

LEMMA UpsertSectionKeeps ==
    ASSUME TemplatesInv, NEW t \in OfferTemplate, NEW g \in OfferCategory,
           NEW key \in SectionKey, NEW text \in Text, UpsertSection(t, g, key, text, 1)
    PROVE  TemplatesInv'
<1> DEFINE cs == templates[t].categories
           old == cs[g].sections
           new == {s \in old : s.key # key} \cup {[key |-> key, text |-> text, order |-> 1]}
           ds == [cs EXCEPT ![g].sections = new]
<1>1. t \in DOMAIN templates /\ g \in DOMAIN cs
      /\ WriteTemplate(t, [templates[t] EXCEPT !.categories = ds])
  BY DEF UpsertSection
<1>2. cs \in CategoryTables
  BY <1>1 DEF TemplatesInv, TablesInv, TemplateRec
<1>3. cs[g] \in CategoryRow
  <2> HIDE DEF cs
  <2> QED BY <1>1, <1>2, CategoriesCount
<1>4. new \in SUBSET SectionRow
  BY <1>3 DEF CategoryRow, SectionRow
<1>5. [cs[g] EXCEPT !.sections = new] \in CategoryRow
  <2> HIDE DEF new, cs
  <2> QED BY <1>3, <1>4 DEF CategoryRow
<1>6. ds \in CategoryTables
  <2> HIDE DEF new, cs
  <2>1. PICK G \in SUBSET OfferCategory : cs \in [G -> CategoryRow]
    BY <1>2 DEF CategoryTables
  <2>2. ds \in [G -> CategoryRow]
    BY <1>5, <2>1
  <2> HIDE DEF ds
  <2> QED BY <2>2 DEF CategoryTables
<1> HIDE DEF ds
<1> QED BY <1>1, <1>6, CategoriesWritten

LEMMA DeleteTemplateKeeps ==
    ASSUME TemplatesInv, NEW t \in OfferTemplate, DeleteTemplate(t)
    PROVE  TemplatesInv'
<1>1. /\ templates' = Without(templates, {t})
      /\ letters' = [a \in DOMAIN letters |->
            [letters[a] EXCEPT !.from = IF letters[a].from = t THEN "null" ELSE letters[a].from]]
      /\ UNCHANGED <<candidates, salary>>
  BY DEF DeleteTemplate
<1>2. DOMAIN templates' \subseteq DOMAIN templates
      /\ \A u \in DOMAIN templates' : templates'[u] = templates[u]
  BY <1>1 DEF Without
<1>3. TablesInv'
  BY <1>2 DEF TablesInv, TemplatesInv
<1>4. ASSUME NEW a \in DOMAIN letters
      PROVE  letters'[a] \in LetterRow /\ Faithful(letters'[a])
  <2>1. letters[a] \in LetterRow /\ Faithful(letters[a])
    BY DEF TemplatesInv
  <2>2. PICK from \in OfferTemplate \cup {"null"} : letters'[a] = [letters[a] EXCEPT !.from = from]
    BY <1>1, <2>1 DEF LetterRow
  <2>3. letters'[a] \in LetterRow /\ letters'[a].text = letters[a].text
        /\ letters'[a].status = letters[a].status /\ letters'[a].said = letters[a].said
    BY <2>1, <2>2 DEF LetterRow
  <2> QED BY <1>1, <2>1, <2>3 DEF Faithful
<1>5. DOMAIN letters' = DOMAIN letters
  BY <1>1
<1> QED BY <1>1, <1>3, <1>4, <1>5 DEF TemplatesInv

LEMMA SnapshotIsText ==
    ASSUME TemplatesInv, NEW t \in DOMAIN templates, NEW g \in DOMAIN templates[t].categories
    PROVE  Snapshot(t, g) \in TextRow
<1> DEFINE cs == templates[t].categories
<1>1. templates[t].footer \in Text /\ cs \in CategoryTables
  BY DEF TemplatesInv, TablesInv, TemplateRec
<1>2. cs[g] \in CategoryRow
  <2> HIDE DEF cs
  <2>1. g \in DOMAIN cs
    BY DEF cs
  <2> QED BY <1>1, <2>1, CategoriesCount
<1> QED BY <1>1, <1>2 DEF Snapshot, TextRow, CategoryRow

\* A letter that is written alone, and says nothing false, leaves the others.
LEMMA LetterWritten ==
    ASSUME TemplatesInv, NEW a \in DOMAIN letters, NEW row \in LetterRow,
           Faithful(row), letters' = [letters EXCEPT ![a] = row],
           UNCHANGED <<templates, candidates, salary>>
    PROVE  TemplatesInv'
<1>1. DOMAIN letters' = DOMAIN letters /\ letters'[a] = row
      /\ \A x \in DOMAIN letters : x # a => letters'[x] = letters[x]
  OBVIOUS
<1> QED BY <1>1 DEF TemplatesInv, TablesInv

LEMMA DispatchToKeeps ==
    ASSUME TemplatesInv, NEW t \in OfferTemplate, NEW g \in OfferCategory,
           NEW apps \in SUBSET Addressee, NEW override \in Override,
           DispatchTo(apps, t, g, override)
    PROVE  TemplatesInv'
<1> DEFINE row == Draft(t, Snapshot(t, g), override)
<1>1. /\ t \in DOMAIN templates /\ g \in DOMAIN templates[t].categories
      /\ letters' = [a \in DOMAIN letters \cup apps |-> IF a \in apps THEN row ELSE letters[a]]
      /\ UNCHANGED <<templates, candidates, salary>>
  BY DEF DispatchTo
<1>2. Snapshot(t, g) \in TextRow
  BY <1>1, SnapshotIsText
<1>3. row \in LetterRow /\ Faithful(row)
  BY <1>2 DEF Draft, LetterRow, Faithful
<1> HIDE DEF row
<1>4. DOMAIN letters' = DOMAIN letters \cup apps
      /\ \A a \in DOMAIN letters' : letters'[a] = row \/ (a \in DOMAIN letters /\ letters'[a] = letters[a])
  BY <1>1
<1> QED BY <1>1, <1>3, <1>4 DEF TemplatesInv, TablesInv

LEMMA RenderLetterKeeps ==
    ASSUME TemplatesInv, NEW a \in Addressee, RenderLetter(a)
    PROVE  TemplatesInv'
<1> DEFINE old == letters[a]
           row == IF Renderable(a) THEN [old EXCEPT !.status = "rendered", !.said = old.text]
                                   ELSE [old EXCEPT !.status = "failed"]
<1>1. /\ a \in DOMAIN letters
      /\ letters' = [letters EXCEPT ![a] = row]
      /\ UNCHANGED <<templates, candidates, salary>>
  BY DEF RenderLetter
<1>2. old \in LetterRow
  BY <1>1 DEF TemplatesInv
<1> HIDE DEF old
<1>3. row \in LetterRow /\ Faithful(row)
  <2>1. CASE Renderable(a)
    <3>1. row = [old EXCEPT !.status = "rendered", !.said = old.text]
      BY <2>1
    <3>2. row \in LetterRow /\ row.said = old.text /\ row.text = old.text
      BY <1>2, <3>1 DEF LetterRow
    <3> QED BY <3>2 DEF Faithful
  <2>2. CASE ~Renderable(a)
    <3>1. row = [old EXCEPT !.status = "failed"]
      BY <2>2
    <3>2. row \in LetterRow /\ row.status = "failed"
      BY <1>2, <3>1 DEF LetterRow
    <3> QED BY <3>2 DEF Faithful
  <2> QED BY <2>1, <2>2
<1> HIDE DEF row
<1> QED BY <1>1, <1>3, LetterWritten

LEMMA RetryLetterKeeps ==
    ASSUME TemplatesInv, NEW a \in Addressee, RetryLetter(a)
    PROVE  TemplatesInv'
<1> DEFINE row == [letters[a] EXCEPT !.status = "drafted"]
<1>1. /\ a \in DOMAIN letters
      /\ letters' = [letters EXCEPT ![a] = row]
      /\ UNCHANGED <<templates, candidates, salary>>
  BY DEF RetryLetter
<1>2. letters[a] \in LetterRow
  BY <1>1 DEF TemplatesInv
<1>3. row \in LetterRow /\ row.status = "drafted"
  BY <1>2 DEF LetterRow
<1> HIDE DEF row
<1>4. Faithful(row)
  BY <1>3 DEF Faithful
<1> QED BY <1>1, <1>3, <1>4, LetterWritten

LEMMA TemplatesStep ==
    ASSUME TemplatesInv, [TemplatesNext]_templateVars
    PROVE  TemplatesInv'
<1>1. ASSUME EditSalary
      PROVE  TemplatesInv'
  <2>1. salary' \in BOOLEAN /\ UNCHANGED <<templates, letters, candidates>>
    BY <1>1 DEF EditSalary
  <2> QED BY <2>1 DEF TemplatesInv, TablesInv
<1>2. ASSUME UNCHANGED templateVars
      PROVE  TemplatesInv'
  BY <1>2 DEF templateVars, TemplatesInv, TablesInv
<1> QED BY <1>1, <1>2, CreateTemplateKeeps, UpdateTemplateKeeps, DeleteTemplateKeeps,
           CopyTemplateKeeps, CreateCategoryKeeps, UpsertSectionKeeps, DispatchToKeeps,
           RenderLetterKeeps, RetryLetterKeeps DEF TemplatesNext

LEMMA TemplatesStart == TemplatesInit => TemplatesInv
BY DEF TemplatesInit, TemplatesInv, TablesInv, NoRecords

LEMMA TemplatesTyped == TemplatesInv => TemplatesTypeOK
<1> SUFFICES ASSUME TemplatesInv PROVE TemplatesTypeOK
  OBVIOUS
<1>1. ASSUME NEW t \in DOMAIN templates
      PROVE  TemplateRow(templates[t])
  <2> DEFINE cs == templates[t].categories
  <2>1. templates[t] \in TemplateRec
    BY DEF TemplatesInv, TablesInv
  <2>2. cs \in CategoryTables
    BY <2>1 DEF TemplateRec
  <2>3. Table(cs, OfferCategory, CategoryRow)
    <3> HIDE DEF cs
    <3> QED BY <2>2, CategoriesCount DEF Table
  <2> QED BY <2>1, <2>3 DEF TemplateRec, TemplateRow
<1> QED BY <1>1 DEF TemplatesInv, TablesInv, TemplatesTypeOK

-----------------------------------------------------------------------------
(* What letters promise. *)

\* The copy is one the template held, and a letter that was found valid can be
\* rendered, unless it is addressed by one word or the salary was edited.
PromiseKept(a) ==
    /\ letters[a].text \in offered[a]
    /\ \/ letters[a].override = "word" \/ a \in repriced
       \/ Renderable(a) /\ letters[a].status # "failed"

PromisesInv == \A a \in DOMAIN letters : PromiseKept(a)

\* Letters that keep their copies, on the same salary, and fail only when they
\* cannot be rendered.
LEMMA CopiesStay ==
    ASSUME PromisesInv, LettersRemember, UNCHANGED <<candidates, salary>>,
           DOMAIN letters' = DOMAIN letters,
           \A a \in DOMAIN letters :
              /\ letters'[a].text = letters[a].text
              /\ letters'[a].override = letters[a].override
              /\ letters'[a].status = "failed" => letters[a].status = "failed" \/ ~Renderable(a)
    PROVE  PromisesInv'
<1> SUFFICES ASSUME NEW a \in DOMAIN letters
             PROVE  PromiseKept(a)'
  BY DEF PromisesInv
<1>1. PromiseKept(a)
  BY DEF PromisesInv
<1>2. offered'[a] = offered[a] /\ repriced' = repriced
  BY DEF LettersRemember
<1>3. Renderable(a)' <=> Renderable(a)
  BY DEF Renderable, RenderNames, Renders, Body
<1> QED BY <1>1, <1>2, <1>3 DEF PromiseKept

\* Whom the validation clears can be rendered.
LEMMA ValidRenders ==
    ASSUME NEW a \in Addressee, NEW text, NEW requireEmail \in BOOLEAN,
           Obstacles(a, text, requireEmail) = {}
    PROVE  Renders(candidates[a].names, text) /\ (requireEmail => candidates[a].email)
<1>1. "last name" \notin Obstacles(a, text, requireEmail)
      /\ "salary" \notin Obstacles(a, text, requireEmail)
      /\ "email" \notin Obstacles(a, text, requireEmail)
  OBVIOUS
<1>2. candidates[a].names = "both"
  BY <1>1 DEF Obstacles
<1>3. AsksForSalary(text) => salary
  BY <1>1 DEF Obstacles
<1>4. requireEmail => candidates[a].email
  BY <1>1 DEF Obstacles
<1> QED BY <1>2, <1>3, <1>4 DEF Renders, Body, AsksForSalary

LEMMA DispatchPromises ==
    ASSUME PromisesInv, LettersRemember, NEW t \in OfferTemplate, NEW g \in OfferCategory,
           NEW apps \in SUBSET Addressee, NEW override \in Override,
           DispatchTo(apps, t, g, override)
    PROVE  PromisesInv'
<1> DEFINE row == Draft(t, Snapshot(t, g), override)
<1>1. /\ t \in DOMAIN templates /\ g \in DOMAIN templates[t].categories
      /\ apps \subseteq Sendable(t, g) /\ apps \cap DOMAIN letters = {}
      /\ letters' = [a \in DOMAIN letters \cup apps |-> IF a \in apps THEN row ELSE letters[a]]
      /\ UNCHANGED <<templates, candidates, salary>>
  BY DEF DispatchTo
<1>2. row.from = t /\ row.text = Snapshot(t, g) /\ row.override = override /\ row.status = "drafted"
  BY DEF Draft
<1> HIDE DEF row
<1>3. repriced' = repriced
  BY <1>1 DEF LettersRemember
<1>4. ASSUME NEW a \in apps
      PROVE  PromiseKept(a)'
  <2>1. letters'[a] = row /\ a \in DOMAIN letters' /\ a \notin DOMAIN letters
    BY <1>1
  <2>2. offered'[a] = Texts(t)
    BY <1>2, <2>1 DEF LettersRemember
  <2>3. Snapshot(t, g) \in Texts(t)
    BY <1>1 DEF Texts
  <2>4. Renders(candidates[a].names, Snapshot(t, g)) /\ candidates[a].email
    <3>1. Obstacles(a, Snapshot(t, g), TRUE) = {}
      BY <1>1 DEF Sendable
    <3> QED BY <3>1, ValidRenders
  <2>5. override # "word" => Renderable(a)'
    <3>1. override # "word" => RenderNames(a)' = candidates[a].names \/ RenderNames(a)' = "both"
      BY <1>1, <1>2, <2>1 DEF RenderNames, Override
    <3>2. Renders("both", Snapshot(t, g))
      BY <2>4 DEF Renders
    <3>3. \A names : Renders(names, Snapshot(t, g)) => Renders(names, letters[a].text)'
      BY <1>1, <1>2, <2>1 DEF Renders, Body
    <3>4. candidates'[a].email
      BY <1>1, <2>4
    <3> QED BY <2>4, <3>1, <3>2, <3>3, <3>4 DEF Renderable, Renders
  <2> QED BY <1>2, <2>1, <2>2, <2>3, <2>5 DEF PromiseKept
<1>5. ASSUME NEW a \in DOMAIN letters
      PROVE  PromiseKept(a)'
  <2>1. letters'[a] = letters[a] /\ a \in DOMAIN letters'
    BY <1>1
  <2>2. offered'[a] = offered[a]
    BY <2>1 DEF LettersRemember
  <2>3. Renderable(a)' <=> Renderable(a)
    BY <1>1, <2>1 DEF Renderable, RenderNames, Renders, Body
  <2> QED BY <1>3, <2>1, <2>2, <2>3 DEF PromiseKept, PromisesInv
<1>6. DOMAIN letters' = DOMAIN letters \cup apps
  BY <1>1
<1> QED BY <1>4, <1>5, <1>6 DEF PromisesInv

LEMMA RenderPromises ==
    ASSUME TemplatesInv, PromisesInv, LettersRemember, NEW a \in Addressee,
           RenderLetter(a) \/ RetryLetter(a)
    PROVE  PromisesInv'
<1>1. a \in DOMAIN letters /\ letters[a] \in LetterRow /\ UNCHANGED <<candidates, salary>>
  BY DEF TemplatesInv, RenderLetter, RetryLetter
<1>2. DOMAIN letters' = DOMAIN letters /\ \A x \in DOMAIN letters : x # a => letters'[x] = letters[x]
  BY DEF RenderLetter, RetryLetter
<1>3. /\ letters'[a].text = letters[a].text
      /\ letters'[a].override = letters[a].override
      /\ letters'[a].status = "failed" => ~Renderable(a)
  <2>1. CASE RenderLetter(a) /\ Renderable(a)
    <3>1. letters'[a] = [letters[a] EXCEPT !.status = "rendered", !.said = letters[a].text]
      BY <1>1, <2>1 DEF RenderLetter
    <3> QED BY <1>1, <3>1 DEF LetterRow
  <2>2. CASE RenderLetter(a) /\ ~Renderable(a)
    <3>1. letters'[a] = [letters[a] EXCEPT !.status = "failed"]
      BY <1>1, <2>2 DEF RenderLetter
    <3> QED BY <1>1, <2>2, <3>1 DEF LetterRow
  <2>3. CASE RetryLetter(a)
    <3>1. letters'[a] = [letters[a] EXCEPT !.status = "drafted"]
      BY <1>1, <2>3 DEF RetryLetter
    <3> QED BY <1>1, <3>1 DEF LetterRow
  <2> QED BY <2>1, <2>2, <2>3
<1> QED BY <1>1, <1>2, <1>3, CopiesStay

LEMMA PromisesNext ==
    ASSUME TemplatesInv, PromisesInv, [LettersNext]_lettersVars
    PROVE  PromisesInv'
<1>1. CASE UNCHANGED lettersVars
  BY <1>1 DEF lettersVars, templateVars, PromisesInv, PromiseKept, Renderable, RenderNames,
              Renders, Body
<1>2. CASE LettersNext
  <2>1. LettersRemember /\ [TemplatesNext]_templateVars
    BY <1>2 DEF LettersNext
  <2>2. ASSUME UNCHANGED <<letters, candidates, salary>>
        PROVE  PromisesInv'
    BY <2>1, <2>2, CopiesStay
  <2>3. ASSUME NEW t \in OfferTemplate, DeleteTemplate(t)
        PROVE  PromisesInv'
    <3>1. /\ DOMAIN letters' = DOMAIN letters /\ UNCHANGED <<candidates, salary>>
          /\ \A a \in DOMAIN letters :
                letters'[a] = [letters[a] EXCEPT !.from = IF @ = t THEN "null" ELSE @]
      BY <2>3 DEF DeleteTemplate
    <3>2. ASSUME NEW a \in DOMAIN letters
          PROVE  /\ letters'[a].text = letters[a].text
                 /\ letters'[a].override = letters[a].override
                 /\ letters'[a].status = letters[a].status
      <4>1. letters[a] \in LetterRow
        BY DEF TemplatesInv
      <4> QED BY <3>1, <4>1 DEF LetterRow
    <3> QED BY <2>1, <3>1, <3>2, CopiesStay
  <2>4. ASSUME EditSalary
        PROVE  PromisesInv'
    <3>1. UNCHANGED letters /\ (repriced' = DOMAIN letters \/ UNCHANGED <<letters, candidates, salary>>)
      BY <2>1, <2>4 DEF EditSalary, LettersRemember
    <3>2. \A a \in DOMAIN letters : offered'[a] = offered[a]
      BY <2>1, <3>1 DEF LettersRemember
    <3> QED BY <2>2, <3>1, <3>2 DEF PromisesInv, PromiseKept
  <2>5. ASSUME UNCHANGED templateVars
        PROVE  PromisesInv'
    BY <2>2, <2>5 DEF templateVars
  <2>6. ASSUME NEW t \in OfferTemplate, NEW row, WriteTemplate(t, row)
        PROVE  PromisesInv'
    BY <2>2, <2>6 DEF WriteTemplate
  <2>7. ASSUME NEW t \in OfferTemplate, NEW g \in OfferCategory, NEW apps \in SUBSET Addressee,
               NEW override \in Override, DispatchTo(apps, t, g, override)
        PROVE  PromisesInv'
    BY <2>1, <2>7, DispatchPromises
  <2>8. ASSUME NEW a \in Addressee, RenderLetter(a) \/ RetryLetter(a)
        PROVE  PromisesInv'
    BY <2>1, <2>8, RenderPromises
  <2>9. ASSUME NEW t \in OfferTemplate, NEW g \in OfferCategory,
               \/ \E slug \in Root, footer \in FooterInput : CreateTemplate(t, <<slug, 0>>, g, slug, footer)
               \/ \E slug \in Root : CreateCategory(t, g, slug)
               \/ \E key \in SectionKey, text \in Text : UpsertSection(t, g, key, text, 1)
        PROVE  PromisesInv'
    BY <2>6, <2>9 DEF CreateTemplate, CreateCategory, UpsertSection
  <2>10. ASSUME NEW t \in OfferTemplate,
                \/ \E name \in Name, status \in TemplateStatus, footer \in FooterInput :
                      UpdateTemplate(t, name, status, footer)
                \/ \E u \in OfferTemplate, gs \in SUBSET OfferCategory :
                      \E g \in [gs -> OfferCategory] : CopyTemplate(t, u, g)
         PROVE  PromisesInv'
    BY <2>6, <2>10 DEF UpdateTemplate, CopyTemplate
  <2> QED BY <2>1, <2>3, <2>4, <2>5, <2>7, <2>8, <2>9, <2>10 DEF TemplatesNext
<1> QED BY <1>1, <1>2

LEMMA PromisesFollow == TemplatesInv /\ PromisesInv => LettersKeepTheirWord
<1> SUFFICES ASSUME TemplatesInv, PromisesInv PROVE LettersKeepTheirWord
  OBVIOUS
<1>1. ASSUME NEW a \in DOMAIN letters
      PROVE  /\ letters[a].status = "rendered" => letters[a].said \in offered[a]
             /\ letters[a].status = "failed" => letters[a].override = "word" \/ a \in repriced
  BY DEF TemplatesInv, Faithful, PromisesInv, PromiseKept
<1>2. ASSUME NEW t, NEW g, NEW a \in Sendable(t, g)
      PROVE  a \in DOMAIN DownloadArchive(t, g)
  <2>1. a \in Downloadable(t, g)
    BY DEF Sendable, Downloadable, Obstacles
  <2>2. \A x \in Downloadable(t, g) : Renders(candidates[x].names, Snapshot(t, g))
    BY ValidRenders DEF Downloadable
  <2> QED BY <2>1, <2>2 DEF DownloadArchive
<1> QED BY <1>1, <1>2 DEF LettersKeepTheirWord

-----------------------------------------------------------------------------
(* Reminders: the daily scans. *)

Ahead(k) == IF k = "replacement" THEN 1 ELSE 7

IsDue(k, i) == reminders[i].held /\ reminders[i].date = today + Ahead(k)

\* What a scan has read, and what it owes: of the items not edited since it was
\* begun, those due are waiting in it, told of in it, or bear the mark already.
ScanInv(k) ==
    LET left == scans[k].left
        told == scans[k].told
    IN  /\ left \cup told \subseteq Of(k)
        /\ ScanRuns(k) => \A i \in left \cup told : ~reminders[i].sent
        /\ \A i \in left \ edited : IsDue(k, i)
        /\ \A i \in told \ edited : IsDue(k, i) /\ mailed[i] = reminders[i].date
        /\ \A i \in Of(k) \ edited : IsDue(k, i) =>
              /\ ScanRuns(k) => reminders[i].sent \/ i \in left \cup told
              /\ scans[k].at = "done" => reminders[i].sent

MarksAreTrue ==
    \A i \in Item \ crossed : reminders[i].sent => mailed[i] = reminders[i].date

RemindersInv == RemindersTypeOK /\ MarksAreTrue /\ \A k \in Scan : ScanInv(k)

LEMMA Kinds ==
    /\ Of("replacement") = Replacement /\ Of("warranty") = Issued
    /\ Scan = {"replacement", "warranty"} /\ \A k \in Scan : Of(k) \subseteq Item
    /\ \A k, l \in Scan : k # l => Of(k) \cap Of(l) = {}
BY RemindersConstants DEF Of, Scan, Item

LEMMA BeginScanKeeps ==
    ASSUME RemindersInv, NEW k \in Scan, BeginScan(k, Unmarked(k, Ahead(k)))
    PROVE  RemindersInv'
<1> DEFINE items == Unmarked(k, Ahead(k))
           row == [at |-> "running", left |-> items, told |-> {}]
<1>1. /\ scans' = [scans EXCEPT ![k] = row] /\ edited' = edited \ Of(k)
      /\ UNCHANGED <<today, reminders, mailed, crossed>>
  BY DEF BeginScan
<1>2. items = {i \in Of(k) : IsDue(k, i) /\ ~reminders[i].sent}
  BY DEF Unmarked, IsDue
<1>3. row \in ScanState
  BY <1>2, Kinds DEF ScanState
<1>4. scans'[k] = row /\ \A l \in Scan : l # k => scans'[l] = scans[l]
  BY <1>1 DEF RemindersInv, RemindersTypeOK
<1>5. RemindersTypeOK'
  BY <1>1, <1>3 DEF RemindersInv, RemindersTypeOK
<1>6. MarksAreTrue'
  BY <1>1 DEF RemindersInv, MarksAreTrue
<1>7. ScanInv(k)'
  <2> HIDE DEF items
  <2> QED BY <1>1, <1>2, <1>4 DEF ScanInv, IsDue, ScanRuns
<1>8. ASSUME NEW l \in Scan, l # k
      PROVE  ScanInv(l)'
  <2>1. ScanInv(l) /\ scans'[l] = scans[l] /\ Of(l) \cap Of(k) = {}
    BY <1>4, <1>8, Kinds DEF RemindersInv
  <2>2. \A i \in Of(l) : i \in edited' <=> i \in edited
    BY <1>1, <2>1
  <2> QED BY <1>1, <2>1, <2>2 DEF ScanInv, IsDue, ScanRuns
<1> QED BY <1>5, <1>6, <1>7, <1>8 DEF RemindersInv

LEMMA TellKeeps ==
    ASSUME RemindersInv, NEW k \in Scan, NEW i \in Of(k), Tell(k, i, today + Ahead(k))
    PROVE  RemindersInv'
<1> DEFINE row == [scans[k] EXCEPT !.left = scans[k].left \ {i}, !.told = scans[k].told \cup {i}]
           day == today + Ahead(k)
<1>1. /\ ScanRuns(k) /\ i \in scans[k].left
      /\ mailed' = [mailed EXCEPT ![i] = day]
      /\ scans' = [scans EXCEPT ![k] = row]
      /\ UNCHANGED <<today, reminders, edited, crossed>>
  BY DEF Tell
<1>2. i \in Item /\ scans[k] \in ScanState /\ day \in Nat
  BY Kinds DEF RemindersInv, RemindersTypeOK, Ahead
<1>3. row \in ScanState /\ row.at = "running" /\ row.left = scans[k].left \ {i}
      /\ row.told = scans[k].told \cup {i}
  BY <1>1, <1>2 DEF ScanState, ScanRuns
<1> HIDE DEF row
<1>4. scans'[k] = row /\ \A l \in Scan : l # k => scans'[l] = scans[l]
  BY <1>1 DEF RemindersInv, RemindersTypeOK
<1>5. mailed'[i] = day /\ \A j \in Item : j # i => mailed'[j] = mailed[j]
  BY <1>1, <1>2 DEF RemindersInv, RemindersTypeOK
<1>6. RemindersTypeOK'
  <2>1. mailed' \in [Item -> Nat] /\ scans' \in [Scan -> ScanState]
    BY <1>1, <1>2, <1>3 DEF RemindersInv, RemindersTypeOK
  <2> QED BY <1>1, <2>1 DEF RemindersInv, RemindersTypeOK
<1>7. ~reminders[i].sent /\ (i \notin edited => IsDue(k, i))
  BY <1>1 DEF RemindersInv, ScanInv
<1>8. MarksAreTrue'
  BY <1>1, <1>5, <1>7 DEF RemindersInv, MarksAreTrue
<1>9. ScanInv(k)'
  <2>1. ScanInv(k) /\ Of(k) \subseteq Item
    BY Kinds DEF RemindersInv
  <2>2. \A j : IsDue(k, j)' = IsDue(k, j)
    BY <1>1 DEF IsDue
  <2>3. IsDue(k, i) => reminders[i].date = day
    BY DEF IsDue
  <2> HIDE DEF day
  <2> QED BY <1>1, <1>3, <1>4, <1>5, <1>7, <2>1, <2>2, <2>3 DEF ScanInv, ScanRuns
<1>10. ASSUME NEW l \in Scan, l # k
       PROVE  ScanInv(l)'
  <2>1. ScanInv(l) /\ scans'[l] = scans[l] /\ i \notin Of(l) /\ Of(l) \subseteq Item
    BY <1>4, <1>10, Kinds DEF RemindersInv
  <2>2. \A j \in Of(l) : mailed'[j] = mailed[j]
    BY <1>5, <2>1
  <2> QED BY <1>1, <2>1, <2>2 DEF ScanInv, IsDue, ScanRuns
<1> QED BY <1>6, <1>8, <1>9, <1>10 DEF RemindersInv

LEMMA EndScanKeeps ==
    ASSUME RemindersInv, NEW k \in Scan, EndScan(k)
    PROVE  RemindersInv'
<1> DEFINE told == scans[k].told
           row == [scans[k] EXCEPT !.at = "done"]
<1>1. /\ ScanRuns(k) /\ scans[k].left = {}
      /\ reminders' = [i \in Item |->
            [reminders[i] EXCEPT !.sent = reminders[i].sent \/ i \in told]]
      /\ scans' = [scans EXCEPT ![k] = row]
      /\ crossed' = crossed \cup (told \cap edited)
      /\ UNCHANGED <<today, mailed, edited>>
  BY DEF EndScan
<1>2. scans[k] \in ScanState /\ told \subseteq Of(k) /\ Of(k) \subseteq Item
  BY Kinds DEF RemindersInv, RemindersTypeOK, ScanInv
<1>3. row \in ScanState /\ row.at = "done" /\ row.left = {} /\ row.told = told
  BY <1>1, <1>2 DEF ScanState
<1> HIDE DEF row
<1>4. scans'[k] = row /\ \A l \in Scan : l # k => scans'[l] = scans[l]
  BY <1>1 DEF RemindersInv, RemindersTypeOK
<1>5. ASSUME NEW i \in Item
      PROVE  /\ reminders'[i] \in ReminderRow
             /\ reminders'[i].held = reminders[i].held /\ reminders'[i].date = reminders[i].date
             /\ reminders'[i].sent <=> reminders[i].sent \/ i \in told
  <2>1. reminders[i] \in ReminderRow
    BY DEF RemindersInv, RemindersTypeOK
  <2> QED BY <1>1, <2>1 DEF ReminderRow
<1> HIDE DEF told
<1>6. RemindersTypeOK'
  <2>1. reminders' \in [Item -> ReminderRow] /\ scans' \in [Scan -> ScanState]
    BY <1>1, <1>3, <1>5 DEF RemindersInv, RemindersTypeOK
  <2>2. crossed' \subseteq Item
    BY <1>1, <1>2 DEF RemindersInv, RemindersTypeOK
  <2> QED BY <1>1, <2>1, <2>2 DEF RemindersInv, RemindersTypeOK
<1>7. \A l \in Scan, i \in Item : IsDue(l, i)' <=> IsDue(l, i)
  BY <1>1, <1>5 DEF IsDue
<1>8. ScanInv(k)
  BY DEF RemindersInv
<1>9. MarksAreTrue'
  <2>1. \A i \in told \ edited : mailed[i] = reminders[i].date
    BY <1>8 DEF ScanInv, told
  <2> QED BY <1>1, <1>2, <1>5, <2>1 DEF RemindersInv, MarksAreTrue
<1>10. ScanInv(k)'
  <2>1. scans'[k].told = told /\ scans'[k].left = {} /\ ~ScanRuns(k)'
    BY <1>3, <1>4 DEF ScanRuns
  <2>2. \A i \in told \ edited : IsDue(k, i)' /\ mailed'[i] = reminders'[i].date
    BY <1>1, <1>2, <1>5, <1>7, <1>8 DEF ScanInv, told
  <2>3. \A i \in Of(k) \ edited : IsDue(k, i)' => reminders'[i].sent
    BY <1>1, <1>2, <1>5, <1>7, <1>8 DEF ScanInv, told
  <2> QED BY <1>1, <1>2, <2>1, <2>2, <2>3 DEF ScanInv
<1>11. ASSUME NEW l \in Scan, l # k
       PROVE  ScanInv(l)'
  <2>1. ScanInv(l) /\ scans'[l] = scans[l] /\ Of(l) \cap Of(k) = {} /\ Of(l) \subseteq Item
    BY <1>4, <1>11, Kinds DEF RemindersInv
  <2>2. \A i \in Of(l) : /\ IsDue(l, i)' <=> IsDue(l, i)
                         /\ reminders'[i].sent <=> reminders[i].sent
                         /\ reminders'[i].date = reminders[i].date
    BY <1>2, <1>5, <1>7, <2>1
  <2> QED BY <1>1, <2>1, <2>2 DEF ScanInv, ScanRuns
<1> QED BY <1>6, <1>9, <1>10, <1>11 DEF RemindersInv

LEMMA LoseScanKeeps ==
    ASSUME RemindersInv, NEW k \in Scan, LoseScan(k)
    PROVE  RemindersInv'
<1> DEFINE row == [scans[k] EXCEPT !.at = "lost"]
<1>1. scans' = [scans EXCEPT ![k] = row] /\ UNCHANGED <<today, reminders, mailed, edited, crossed>>
  BY DEF LoseScan
<1>2. scans[k] \in ScanState
  BY DEF RemindersInv, RemindersTypeOK
<1>3. row \in ScanState /\ row.at = "lost" /\ row.left = scans[k].left /\ row.told = scans[k].told
  BY <1>2 DEF ScanState
<1> HIDE DEF row
<1>4. scans'[k] = row /\ \A l \in Scan : l # k => scans'[l] = scans[l]
  BY <1>1 DEF RemindersInv, RemindersTypeOK
<1>5. RemindersTypeOK' /\ MarksAreTrue'
  BY <1>1, <1>3 DEF RemindersInv, RemindersTypeOK, MarksAreTrue
<1>6. ScanInv(k)'
  BY <1>1, <1>3, <1>4 DEF RemindersInv, ScanInv, IsDue, ScanRuns
<1>7. \A l \in Scan : l # k => ScanInv(l)'
  BY <1>1, <1>4 DEF RemindersInv, ScanInv, IsDue, ScanRuns
<1> QED BY <1>5, <1>6, <1>7 DEF RemindersInv

LEMMA NextDayKeeps ==
    ASSUME RemindersInv, NextDay
    PROVE  RemindersInv'
<1>1. /\ today < LastDay /\ today' = today + 1 /\ scans' = [k \in Scan |-> Due] /\ edited' = {}
      /\ UNCHANGED <<reminders, mailed, crossed>>
  BY DEF NextDay
<1>2. Due \in ScanState
  BY DEF Due, ScanState
<1>3. today' \in 1..LastDay
  BY <1>1, RemindersConstants DEF RemindersInv, RemindersTypeOK
<1>4. RemindersTypeOK' /\ MarksAreTrue'
  BY <1>1, <1>2, <1>3 DEF RemindersInv, RemindersTypeOK, MarksAreTrue
<1>5. \A k \in Scan : ScanInv(k)'
  BY <1>1 DEF ScanInv, ScanRuns, Due
<1> QED BY <1>4, <1>5 DEF RemindersInv

\* An edit never makes a mark, nor keeps one with another date.
LEMMA EditKeeps ==
    ASSUME RemindersInv, NEW i \in Item, NEW row \in ReminderRow,
           row.sent => reminders[i].sent /\ row.date = reminders[i].date, Edit(i, row)
    PROVE  RemindersInv'
<1>1. /\ reminders' = [reminders EXCEPT ![i] = row] /\ edited' = edited \cup {i}
      /\ crossed' = IF row.sent THEN crossed ELSE crossed \ {i}
      /\ UNCHANGED <<today, scans, mailed>>
  BY DEF Edit
<1>2. reminders'[i] = row /\ \A j \in Item : j # i => reminders'[j] = reminders[j]
  BY <1>1 DEF RemindersInv, RemindersTypeOK
<1>3. RemindersTypeOK'
  BY <1>1 DEF RemindersInv, RemindersTypeOK
<1>4. MarksAreTrue'
  BY <1>1, <1>2 DEF RemindersInv, MarksAreTrue
<1>5. ASSUME NEW k \in Scan
      PROVE  ScanInv(k)'
  <2>1. ScanInv(k) /\ Of(k) \subseteq Item
    BY Kinds DEF RemindersInv
  <2> QED BY <1>1, <1>2, <2>1 DEF ScanInv, IsDue, ScanRuns
<1> QED BY <1>3, <1>4, <1>5 DEF RemindersInv

LEMMA RemindersStep ==
    ASSUME RemindersInv, [RemindersNext]_reminderVars
    PROVE  RemindersInv'
<1>1. "replacement" \in Scan /\ "warranty" \in Scan /\ Replacement \subseteq Item /\ Issued \subseteq Item
  BY DEF Scan, Item
<1>2. Ahead("replacement") = 1 /\ Ahead("warranty") = 7
  BY DEF Ahead
<1>3. \A i \in Item : reminders[i] \in ReminderRow
  BY DEF RemindersInv, RemindersTypeOK
<1>4. ASSUME TempReplacementReminderJob \/ WarrantyTrackerScanJob
      PROVE  RemindersInv'
  BY <1>1, <1>2, <1>4, BeginScanKeeps
     DEF TempReplacementReminderJob, WarrantyTrackerScanJob, DueTomorrow, ExpiringInAWeek
<1>5. ASSUME \/ EndReplacementScan \/ EndWarrantyScan
             \/ \E k \in Scan : LoseScan(k)
             \/ NextDay
      PROVE  RemindersInv'
  BY <1>1, <1>5, EndScanKeeps, LoseScanKeeps, NextDayKeeps DEF EndReplacementScan, EndWarrantyScan
<1>6. ASSUME NEW l \in Replacement, SendTempReplacementReminder(l)
      PROVE  RemindersInv'
  BY <1>1, <1>2, <1>6, TellKeeps, Kinds DEF SendTempReplacementReminder
<1>7. ASSUME NEW u \in Issued, SendWarrantyAlert(u)
      PROVE  RemindersInv'
  BY <1>1, <1>2, <1>7, TellKeeps, Kinds DEF SendWarrantyAlert
<1>8. ASSUME NEW l \in Replacement, NEW date \in DateInput, SetReplacementReturnDate(l, date)
      PROVE  RemindersInv'
  <2> DEFINE row == [reminders[l] EXCEPT !.date = date, !.sent = FALSE]
  <2>1. row \in ReminderRow /\ ~row.sent /\ l \in Item
    BY <1>1, <1>3 DEF ReminderRow, Date
  <2>2. Edit(l, row)
    BY <1>8 DEF SetReplacementReturnDate
  <2> HIDE DEF row
  <2> QED BY <2>1, <2>2, EditKeeps
<1>9. ASSUME NEW u \in Issued, NEW date \in Date, SetWarrantyExpiry(u, date)
      PROVE  RemindersInv'
  <2> DEFINE row == [reminders[u] EXCEPT !.date = date,
                        !.sent = reminders[u].sent /\ date = reminders[u].date]
  <2>1. row \in ReminderRow /\ u \in Item
        /\ (row.sent => reminders[u].sent /\ row.date = reminders[u].date)
    BY <1>1, <1>3 DEF ReminderRow
  <2>2. Edit(u, row)
    BY <1>9 DEF SetWarrantyExpiry
  <2> HIDE DEF row
  <2> QED BY <2>1, <2>2, EditKeeps
<1>10. ASSUME NEW i \in Item, NEW held \in BOOLEAN, Edit(i, [reminders[i] EXCEPT !.held = held])
       PROVE  RemindersInv'
  <2> DEFINE row == [reminders[i] EXCEPT !.held = held]
  <2>1. row \in ReminderRow /\ row.sent = reminders[i].sent /\ row.date = reminders[i].date
    BY <1>3 DEF ReminderRow
  <2>2. Edit(i, row)
    BY <1>10
  <2> HIDE DEF row
  <2> QED BY <2>1, <2>2, EditKeeps
<1>11. ASSUME \/ \E i \in Item : ReturnAssigned(i)
              \/ \E u \in Issued : Reissue(u)
       PROVE  RemindersInv'
  BY <1>1, <1>10, <1>11 DEF ReturnAssigned, Reissue
<1>12. ASSUME UNCHANGED reminderVars
       PROVE  RemindersInv'
  BY <1>12 DEF reminderVars, RemindersInv, RemindersTypeOK, MarksAreTrue, ScanInv, IsDue, ScanRuns
<1> QED BY <1>4, <1>5, <1>6, <1>7, <1>8, <1>9, <1>11, <1>12 DEF RemindersNext

LEMMA RemindersStart == RemindersInit => RemindersInv
<1> SUFFICES ASSUME RemindersInit PROVE RemindersInv
  OBVIOUS
<1>1. [date |-> NoDay, sent |-> FALSE, held |-> TRUE] \in ReminderRow /\ Due \in ScanState
  BY DEF ReminderRow, Date, Due, ScanState
<1>2. 1 \in 1..LastDay /\ NoDay \in Nat
  BY RemindersConstants DEF NoDay
<1>3. RemindersTypeOK
  BY <1>1, <1>2 DEF RemindersInit, RemindersTypeOK
<1>4. MarksAreTrue /\ \A k \in Scan : ScanInv(k)
  BY DEF RemindersInit, MarksAreTrue, ScanInv, ScanRuns, Due
<1> QED BY <1>3, <1>4 DEF RemindersInv

LEMMA RemindedFollows == RemindersInv => DueIsReminded
<1> SUFFICES ASSUME RemindersInv PROVE DueIsReminded
  OBVIOUS
<1>1. ScanInv("replacement") /\ ScanInv("warranty") /\ MarksAreTrue
  BY Kinds DEF RemindersInv
<1>2. Replacement \subseteq Item /\ Issued \subseteq Item
  BY DEF Item
<1>3. \A i \in Replacement \ (edited \cup crossed) :
          scans["replacement"].at = "done" /\ reminders[i].held /\ reminders[i].date = today + 1
             => mailed[i] = reminders[i].date /\ reminders[i].sent
  BY <1>1, <1>2, Kinds DEF ScanInv, IsDue, Ahead, MarksAreTrue
<1>4. \A u \in Issued \ (edited \cup crossed) :
          scans["warranty"].at = "done" /\ reminders[u].held /\ reminders[u].date = today + 7
             => mailed[u] = reminders[u].date /\ reminders[u].sent
  BY <1>1, <1>2, Kinds DEF ScanInv, IsDue, Ahead, MarksAreTrue
<1>5. ASSUME NEW u \in Issued \ edited, u \in scans["warranty"].told
      PROVE  u \in WarrantyFeed
  <2>1. reminders[u].held /\ reminders[u].date = today + 7
    BY <1>1, <1>5 DEF ScanInv, IsDue, Ahead
  <2>2. today + 7 \in today..today + 7
    BY DEF RemindersInv, RemindersTypeOK
  <2> QED BY <2>1, <2>2 DEF WarrantyFeed
<1> QED BY <1>3, <1>4, <1>5 DEF DueIsReminded

-----------------------------------------------------------------------------
(* Reminders: the hourly scan of proposed interview slots. *)

SlotsRow == [invited : HourOrNone, last : HourOrNone, slots : SUBSET UNION SlotsInput,
             booked : BOOLEAN, inviting : BOOLEAN]

NotForgotten ==
    hourly = "done" /\ settled /\ Waiting => event.last # NoHour /\ hour - event.last < Interval

\* Unless a scan failed, the last reminder is the one that was noted.
NotPestered ==
    skipped = 0 =>
        /\ mails[2] = event.last
        /\ mails[1] # NoHour => mails[2] - mails[1] >= 4

SlotsTypes ==
    /\ hour \in Hour /\ mails \in HourOrNone \X HourOrNone /\ event \in SlotsRow
    /\ hourly \in {"due", "done", "skipped"} /\ settled \in BOOLEAN
    /\ skipped \in 0..MaxSkipped /\ proposals \in 0..MaxProposals

SlotsInv == SlotsTypes /\ NotForgotten /\ NotPestered

LEMMA IntervalIsKnown == Interval \in {4, 24, 120}
BY DEF Interval

LEMMA HoursAreNumbers ==
    /\ NoHour \in HourOrNone /\ NoHour = -1 /\ Hour \subseteq HourOrNone /\ HourOrNone \subseteq Int
    /\ \A h \in Hour : h # NoHour
BY SlotsConstants DEF NoHour, HourOrNone, Hour

LEMMA LaterThanInterval ==
    ASSUME SlotsInv
    PROVE  /\ hour - event.last >= Interval => hour - event.last >= 4
           /\ ~(hour - event.last >= Interval) => hour - event.last < Interval
<1> DEFINE since == hour - event.last
           step == Interval
<1>1. hour \in Int /\ event.last \in Int
  BY HoursAreNumbers DEF SlotsInv, SlotsTypes, SlotsRow
<1>2. since \in Int /\ step \in {4, 24, 120}
  BY <1>1, IntervalIsKnown
<1> HIDE DEF since, step
<1>3. (since >= step => since >= 4) /\ (~(since >= step) => since < step)
  BY <1>2
<1> QED BY <1>3 DEF since, step

\* What is edited between two scans is settled by the next.
LEMMA SlotsEdited ==
    ASSUME SlotsInv, NEW row \in SlotsRow, event' = row, settled' = FALSE,
           \/ UNCHANGED mails /\ row.last = event.last
           \/ mails' = NoReminders /\ row.last = NoHour,
           proposals' \in 0..MaxProposals, UNCHANGED <<hour, hourly, skipped>>
    PROVE  SlotsInv'
<1>1. mails' \in HourOrNone \X HourOrNone
  BY HoursAreNumbers DEF NoReminders, SlotsInv, SlotsTypes
<1>2. SlotsTypes'
  BY <1>1 DEF SlotsInv, SlotsTypes
<1>3. NotForgotten'
  BY DEF NotForgotten
<1>4. NotPestered'
  BY DEF NotPestered, SlotsInv, NoReminders
<1> QED BY <1>2, <1>3, <1>4 DEF SlotsInv

LEMMA SlotReminderJobKeeps ==
    ASSUME SlotsInv, SlotReminderJob
    PROVE  SlotsInv'
<1>1. hourly' = "done" /\ settled' = TRUE /\ UNCHANGED <<hour, skipped, proposals>>
  BY DEF SlotReminderJob
<1>2. hour \in Hour /\ event \in SlotsRow /\ mails \in HourOrNone \X HourOrNone
      /\ event.last \in HourOrNone
  BY DEF SlotsInv, SlotsTypes, SlotsRow
<1>3. CASE ReminderDue
  <2>1. mails' = <<mails[2], hour>> /\ event' = [event EXCEPT !.last = hour]
    BY <1>3 DEF SlotReminderJob
  <2>2. event' \in SlotsRow /\ event'.last = hour
        /\ event'.invited = event.invited /\ event'.slots = event.slots
        /\ event'.booked = event.booked
    BY <1>2, <2>1, HoursAreNumbers DEF SlotsRow
  <2>3. SlotsTypes'
    BY <1>1, <1>2, <2>1, <2>2, HoursAreNumbers DEF SlotsInv, SlotsTypes
  <2>4. hour - hour = 0 /\ hour # NoHour
    BY <1>2, HoursAreNumbers
  <2>5. Interval' = Interval
    BY <1>1, <2>2 DEF Interval, Future
  <2>6. NotForgotten'
    BY <1>1, <2>2, <2>4, <2>5, IntervalIsKnown DEF NotForgotten
  <2>7. ASSUME skipped' = 0
        PROVE  mails'[2] = event'.last /\ (mails'[1] # NoHour => mails'[2] - mails'[1] >= 4)
    <3>1. mails[2] = event.last /\ mails'[2] = hour /\ mails'[1] = mails[2]
      BY <1>1, <2>1, <2>7 DEF SlotsInv, NotPestered
    <3>2. event.last # NoHour => hour - event.last >= Interval
      BY <1>3 DEF ReminderDue
    <3>3. event.last # NoHour => hour - event.last >= 4
      BY <3>2, LaterThanInterval
    <3> QED BY <2>2, <3>1, <3>3
  <2>8. NotPestered'
    BY <2>7 DEF NotPestered
  <2> QED BY <2>3, <2>6, <2>8 DEF SlotsInv
<1>4. CASE ~ReminderDue
  <2>1. UNCHANGED <<mails, event>>
    BY <1>4 DEF SlotReminderJob
  <2>2. SlotsTypes' /\ NotPestered'
    BY <1>1, <2>1 DEF SlotsInv, SlotsTypes, NotPestered
  <2>3. Waiting => event.last # NoHour /\ ~(hour - event.last >= Interval)
    BY <1>4 DEF ReminderDue
  <2>4. Waiting => event.last # NoHour /\ hour - event.last < Interval
    BY <2>3, LaterThanInterval
  <2>5. NotForgotten'
    BY <1>1, <2>1, <2>4 DEF NotForgotten, Waiting, Interval, Future
  <2> QED BY <2>2, <2>5 DEF SlotsInv
<1> QED BY <1>3, <1>4

LEMMA SlotsStep ==
    ASSUME SlotsInv, [SlotsNext]_slotVars
    PROVE  SlotsInv'
<1>1. event \in SlotsRow /\ event.last \in HourOrNone /\ hour \in Hour
      /\ skipped \in 0..MaxSkipped /\ proposals \in 0..MaxProposals
  BY DEF SlotsInv, SlotsTypes, SlotsRow
<1>2. ASSUME SkipReminderJob
      PROVE  SlotsInv'
  <2>1. hourly' = "skipped" /\ skipped < MaxSkipped /\ skipped' = skipped + 1
        /\ (mails' = <<mails[2], hour>> \/ UNCHANGED mails)
        /\ UNCHANGED <<hour, event, settled, proposals>>
    BY <1>2 DEF SkipReminderJob
  <2>2. mails' \in HourOrNone \X HourOrNone
    BY <2>1, HoursAreNumbers DEF SlotsInv, SlotsTypes
  <2>3. skipped' \in 0..MaxSkipped /\ skipped' # 0
    BY <1>1, <2>1, SlotsConstants
  <2>4. SlotsTypes'
    BY <2>1, <2>2, <2>3 DEF SlotsInv, SlotsTypes
  <2> QED BY <2>1, <2>3, <2>4 DEF SlotsInv, NotForgotten, NotPestered
<1>3. ASSUME HourStrikes
      PROVE  SlotsInv'
  <2>1. hour < LastHour /\ hour' = hour + 1 /\ hourly' = "due"
        /\ UNCHANGED <<event, mails, settled, skipped, proposals>>
    BY <1>3 DEF HourStrikes
  <2>2. hour' \in Hour
    BY <1>1, <2>1, SlotsConstants DEF Hour
  <2>3. SlotsTypes'
    BY <2>1, <2>2 DEF SlotsInv, SlotsTypes
  <2>4. NotForgotten' /\ NotPestered'
    BY <2>1 DEF SlotsInv, NotForgotten, NotPestered
  <2> QED BY <2>3, <2>4 DEF SlotsInv
<1>4. ASSUME NEW slots \in SlotsInput, ProposeSlots(slots)
      PROVE  SlotsInv'
  <2> DEFINE row == [event EXCEPT !.slots = slots, !.booked = FALSE, !.inviting = TRUE]
  <2>1. proposals < MaxProposals /\ event' = row /\ settled' = FALSE
        /\ proposals' = proposals + 1 /\ UNCHANGED <<hour, mails, hourly, skipped>>
    BY <1>4 DEF ProposeSlots
  <2>2. slots \in SUBSET UNION SlotsInput
    OBVIOUS
  <2>3. row \in SlotsRow /\ row.last = event.last
    BY <1>1, <2>2 DEF SlotsRow
  <2>4. proposals' \in 0..MaxProposals
    BY <1>1, <2>1, SlotsConstants
  <2> HIDE DEF row
  <2> QED BY <2>1, <2>3, <2>4, SlotsEdited
<1>5. ASSUME InviteToSlots
      PROVE  SlotsInv'
  <2>1. PICK sent \in BOOLEAN :
           event' = [event EXCEPT !.inviting = FALSE, !.invited = IF sent THEN hour ELSE event.invited]
    BY <1>5 DEF InviteToSlots
  <2> DEFINE row == [event EXCEPT !.inviting = FALSE, !.invited = IF sent THEN hour ELSE event.invited]
  <2>2. settled' = FALSE /\ UNCHANGED <<hour, mails, hourly, skipped, proposals>>
    BY <1>5 DEF InviteToSlots
  <2>3. row \in SlotsRow /\ row.last = event.last
    BY <1>1, HoursAreNumbers DEF SlotsRow
  <2>4. proposals' \in 0..MaxProposals /\ event' = row
    BY <1>1, <2>1, <2>2
  <2> HIDE DEF row
  <2> QED BY <2>2, <2>3, <2>4, SlotsEdited
<1>6. ASSUME WithdrawSlots
      PROVE  SlotsInv'
  <2> DEFINE row == [event EXCEPT !.slots = {}, !.invited = NoHour, !.last = NoHour, !.booked = FALSE]
  <2>1. event' = row /\ mails' = NoReminders /\ settled' = FALSE
        /\ UNCHANGED <<hour, hourly, skipped, proposals>>
    BY <1>6 DEF WithdrawSlots
  <2>2. row \in SlotsRow /\ row.last = NoHour
    BY <1>1, HoursAreNumbers DEF SlotsRow
  <2>3. proposals' \in 0..MaxProposals
    BY <1>1, <2>1
  <2> HIDE DEF row
  <2> QED BY <2>1, <2>2, <2>3, SlotsEdited
<1>7. ASSUME NEW s \in UNION SlotsInput, ChooseSlot(s)
      PROVE  SlotsInv'
  <2> DEFINE row == [event EXCEPT !.slots = event.slots \ {s}, !.booked = TRUE]
  <2>1. event' = row /\ settled' = FALSE /\ UNCHANGED <<hour, mails, hourly, skipped, proposals>>
    BY <1>7 DEF ChooseSlot
  <2>2. row \in SlotsRow /\ row.last = event.last
    BY <1>1 DEF SlotsRow
  <2>3. proposals' \in 0..MaxProposals
    BY <1>1, <2>1
  <2> HIDE DEF row
  <2> QED BY <2>1, <2>2, <2>3, SlotsEdited
<1>8. ASSUME UNCHANGED slotVars
      PROVE  SlotsInv'
  BY <1>8 DEF slotVars, SlotsInv, SlotsTypes, NotForgotten, NotPestered, Waiting, Interval, Future
<1> QED BY <1>2, <1>3, <1>4, <1>5, <1>6, <1>7, <1>8, SlotReminderJobKeeps DEF SlotsNext

LEMMA SlotsStart == SlotsInit => SlotsInv
<1> SUFFICES ASSUME SlotsInit PROVE SlotsInv
  OBVIOUS
<1>1. event \in SlotsRow /\ mails \in HourOrNone \X HourOrNone
  BY HoursAreNumbers DEF SlotsInit, SlotsRow, NoReminders
<1>2. SlotsTypes
  BY <1>1, SlotsConstants DEF SlotsInit, SlotsTypes, Hour
<1>3. NotForgotten /\ NotPestered
  BY DEF SlotsInit, NotForgotten, NotPestered, NoReminders
<1> QED BY <1>2, <1>3 DEF SlotsInv

-----------------------------------------------------------------------------
(* Theorems about everything that is mailed. *)

LEMMA SlotsFollow == SlotsInv => SlotsTypeOK /\ KeptInformed
<1>1. SlotsInv => SlotsTypeOK
  BY DEF SlotsInv, SlotsTypes, SlotsTypeOK, SlotsRow
<1>2. SlotsInv => KeptInformed
  BY DEF SlotsInv, NotForgotten, NotPestered, KeptInformed
<1> QED BY <1>1, <1>2

LEMMA OffersTyped == OffersInv => TypeOK
<1> SUFFICES ASSUME OffersInv PROVE TypeOK
  OBVIOUS
<1>1. OffersTypes
  BY DEF OffersInv
<1>2. inbox \in [1..Len(offers) -> SUBSET ((1..MaxTask) \X (1..MaxTask))]
  <2>1. inbox \in Seq(Box) /\ Len(inbox) = Len(offers)
    BY <1>1 DEF OffersTypes
  <2>2. inbox \in [1..Len(inbox) -> Box]
    BY <2>1
  <2> QED BY <2>1, <2>2 DEF Box
<1>3. ASSUME NEW t \in 1..Len(tasks), tasks[t] # Done
      PROVE  /\ tasks[t].pc \in TaskPc
             /\ tasks[t].batch \in 1..Len(batches)
             /\ tasks[t].queue \in Seq(QueueEntry)
             /\ tasks[t].pc \in {"mail", "failed", "sent"} => tasks[t].queue # <<>>
  <2>1. tasks[t] \in TaskRow
    BY <1>1, <1>3, TaskIs DEF OffersTypes
  <2>2. TaskOK(tasks[t], offers, batches, inbox)
    BY <1>3 DEF OffersInv, TasksOK
  <2> QED BY <1>3, <2>1, <2>2 DEF TaskRow, TaskOK
<1>4. \A s \in Session : sessions[s].kind \in {"idle", "respond", "dispatch"}
  BY <1>1 DEF OffersTypes, Idle, RespondRow, DispatchRow
<1> QED BY <1>1, <1>2, <1>3, <1>4 DEF OffersTypes, TypeOK

\* Each part takes its own steps, or stutters.
LEMMA LettersParts ==
    [LettersNext]_lettersVars =>
        [TemplatesNext]_templateVars /\ [RemindersNext]_reminderVars /\ [SlotsNext]_slotVars
BY DEF LettersNext, lettersVars, templateVars, reminderVars, slotVars

LEMMA MailSound ==
    /\ LettersSpec => []TemplatesInv
    /\ LettersSpec => []RemindersInv
    /\ LettersSpec => []SlotsInv
<1>1. LettersInit => TemplatesInv /\ RemindersInv /\ SlotsInv
  BY TemplatesStart, RemindersStart, SlotsStart DEF LettersInit
<1>2. TemplatesInv /\ [LettersNext]_lettersVars => TemplatesInv'
  BY LettersParts, TemplatesStep
<1>3. RemindersInv /\ [LettersNext]_lettersVars => RemindersInv'
  BY LettersParts, RemindersStep
<1>4. SlotsInv /\ [LettersNext]_lettersVars => SlotsInv'
  BY LettersParts, SlotsStep
<1>5. LettersSpec => []TemplatesInv
  BY <1>1, <1>2, PTL DEF LettersSpec
<1>6. LettersSpec => []RemindersInv
  BY <1>1, <1>3, PTL DEF LettersSpec
<1>7. LettersSpec => []SlotsInv
  BY <1>1, <1>4, PTL DEF LettersSpec
<1> QED BY <1>5, <1>6, <1>7

\* The tables of offers, templates and reminders hold rows of their types, and
\* no two templates share a name, however often they are copied and renamed.
THEOREM MailIsTyped == LettersSpec => []LettersTypeOK
<1>1. OffersInv /\ TemplatesInv /\ RemindersInv /\ SlotsInv => LettersTypeOK
  BY OffersTyped, TemplatesTyped, SlotsFollow DEF RemindersInv, LettersTypeOK
<1> QED BY <1>1, MailSound, LettersArePatient, OffersSound, PTL

\* A letter says what its template said when it was dispatched, whatever is edited,
\* copied or deleted before it is rendered or tried again; what the validation
\* clears is rendered, by mail and in the archive, unless it was addressed by one
\* word or the salary was edited.
THEOREM LettersAlwaysKeepTheirWord == LettersSpec => []LettersKeepTheirWord
<1>1. LettersInit => PromisesInv
  BY DEF LettersInit, TemplatesInit, NoRecords, PromisesInv
<1>2. TemplatesInv /\ PromisesInv /\ [LettersNext]_lettersVars => PromisesInv'
  BY PromisesNext
<1>3. LettersSpec => []PromisesInv
  BY <1>1, <1>2, MailSound, PTL DEF LettersSpec
<1> QED BY <1>3, MailSound, PromisesFollow, PTL

\* Whoever holds something that is due is told of its date, and an invited
\* candidate is neither forgotten nor pestered, on every day and at every hour.
THEOREM RemindersAlwaysHold == LettersSpec => []RemindersHold
<1>1. RemindersInv /\ SlotsInv => RemindersHold
  BY RemindedFollows, SlotsFollow DEF RemindersHold
<1> QED BY <1>1, MailSound, PTL

=============================================================================
