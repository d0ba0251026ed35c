------------------------- MODULE LeaveSessionProofs -------------------------
(***************************************************************************)
(* The leave handlers in overlapping sessions, for every number of sessions *)
(* and every table: what holds whatever they do to each other, and that one *)
(* session alone implements the ledger.  What a session has read may be    *)
(* stale at once, so the invariant says of a session only what no other can *)
(* take away from it: that a key two sessions insert is held by one, and, of *)
(* an approval nobody disturbed, that what it read is still there.         *)
(***************************************************************************)
EXTENDS LeaveSessions, LeaveLedgerProofs, FiniteLemmas

-----------------------------------------------------------------------------
(* The leave handlers in sessions of their own (LeaveSessions). *)

\* Two rows that grant the same: what a request or an approval leaves alone.
SameGrant(a, b) ==
    /\ a.allocated = b.allocated
    /\ a.carriedForward = b.carriedForward
    /\ a.lapsed = b.lapsed

\* The session has a row to write: a new one, or one changed since it was read.
Loaded(me, bs) ==
    /\ me.row \in BalanceRow
    /\ me.isNew \/ (me.key \in DOMAIN bs /\ me.base \in BalanceRow)

\* What each kind of handler holds at each of its steps.
CreateOK(me, rs, bs) ==
    me.op = "create" =>
        /\ me.step \in {"balance", "insert", "commit"}
        /\ me.id \in RequestId /\ me.request \in RequestRow
        /\ me.step \in {"balance", "insert"} => ~me.isNew
        /\ me.step = "insert" => me.row \in BalanceRow
        /\ me.step = "commit" =>
              \/ me.row = NoRow /\ ~me.isNew
              \/ Loaded(me, bs) /\ (me.isNew \/ SameGrant(me.row, me.base))

ApproveOK(me, rs, bs) ==
    me.op = "approve" =>
        /\ me.id \in DOMAIN rs /\ me.request \in RequestRow
        /\ me.step \in {"balance", "insert"} => ~me.isNew
        /\ me.step = "insert" => me.row \in BalanceRow
        /\ me.step \in {"check", "commit"} =>
              Loaded(me, bs) /\ (me.isNew \/ SameGrant(me.row, me.base))

DecideOK(me, rs, bs) ==
    me.op = "decide" =>
        me.step = "commit" /\ me.id \in DOMAIN rs /\ me.request \in RequestRow

UpsertOK(me, rs, bs) ==
    me.op = "upsert" => me.step \in {"check", "commit"} /\ Loaded(me, bs)

HandlerOK(me, rs, bs) ==
    /\ CreateOK(me, rs, bs) /\ ApproveOK(me, rs, bs)
    /\ DecideOK(me, rs, bs) /\ UpsertOK(me, rs, bs)

HandlersOK == \A s \in Session : HandlerOK(session[s], requests, balances)

\* The session has inserted a balance row it has not committed.
Holding(me) ==
    me.op \in {"create", "approve"} /\ me.step \in {"check", "commit"} /\ me.isNew

\* No row of that key is committed, and no other session has inserted one.
KeysHeld ==
    \A s \in Session : Holding(session[s]) =>
        /\ session[s].key \notin DOMAIN balances
        /\ \A o \in Session \ {s} : Holding(session[o]) => session[o].key # session[s].key

SessionInv == SessionTypeOK /\ HandlersOK /\ KeysHeld

-----------------------------------------------------------------------------
\* A state of a session is idle or has all its fields.
Handler ==
    [op : {"create", "approve", "decide", "upsert"},
     step : {"balance", "insert", "check", "commit"},
     id : RequestId \cup {"none"}, request : RequestRow \cup {NoRequest},
     key : BalanceKey, quota : Nat, base : BalanceRow \cup {NoRow},
     isNew : BOOLEAN, row : BalanceRow \cup {NoRow}, alone : BOOLEAN]

LEMMA SessionStates ==
    /\ SessionState = {Idle} \cup Handler
    /\ Idle.op = "none"
    /\ \A h \in Handler : h.op # "none"
    /\ \A rs, bs : HandlerOK(Idle, rs, bs) /\ ~Holding(Idle)
    /\ NoRow \notin BalanceRow
<1>1. SessionState = {Idle} \cup Handler
  BY DEF SessionState, Handler
<1>2. Idle.op = "none"
  BY DEF Idle
<1>3. \A h \in Handler : h.op # "none"
  BY DEF Handler
<1>4. \A rs, bs : HandlerOK(Idle, rs, bs) /\ ~Holding(Idle)
  BY <1>2 DEF HandlerOK, CreateOK, ApproveOK, DecideOK, UpsertOK, Holding
<1>5. NoRow \notin BalanceRow
  <2>1. NoRow.used = -1
    BY DEF NoRow
  <2>2. \A b \in BalanceRow : b.used \in Nat
    BY DEF BalanceRow
  <2> QED BY <2>1, <2>2
<1> QED BY <1>1, <1>2, <1>3, <1>4, <1>5

\* Rows of the tables are never deleted: what a session holds stays good.
LEMMA HandlerFrame ==
    ASSUME NEW me, NEW rs, NEW bs, NEW rs2, NEW bs2, HandlerOK(me, rs, bs),
           DOMAIN rs \subseteq DOMAIN rs2, DOMAIN bs \subseteq DOMAIN bs2
    PROVE  HandlerOK(me, rs2, bs2)
BY DEF HandlerOK, CreateOK, ApproveOK, DecideOK, UpsertOK, Loaded

\* A step of one session that changes nothing but what it holds.
LEMMA OneSession ==
    ASSUME SessionInv, NEW s \in Session, NEW h, UNCHANGED vars,
           h \in SessionState, HandlerOK(h, requests, balances),
           session' = [session EXCEPT ![s] = h],
           Holding(h) =>
              /\ h.key \notin DOMAIN balances
              /\ \A o \in Session \ {s} : Holding(session[o]) => session[o].key # h.key
    PROVE  SessionInv'
<1>1. TypeOK'
  BY TypeNext DEF SessionInv, SessionTypeOK
<1>2. session' \in [Session -> SessionState]
  BY DEF SessionInv, SessionTypeOK
<1>3. \A x \in Session : session'[x] = IF x = s THEN h ELSE session[x]
  BY DEF SessionInv, SessionTypeOK
<1>4. HandlersOK'
  BY <1>3 DEF SessionInv, HandlersOK, vars
<1>5. KeysHeld'
  BY <1>3 DEF SessionInv, KeysHeld, vars
<1> QED BY <1>1, <1>2, <1>4, <1>5 DEF SessionInv, SessionTypeOK

\* A handler that ends without writing.
LEMMA EndedSession ==
    ASSUME SessionInv, NEW s \in Session, UNCHANGED vars, End(s)
    PROVE  SessionInv'
BY OneSession, SessionStates DEF End

\* A handler that starts holds nothing another has inserted.
LEMMA BegunSession ==
    ASSUME SessionInv, NEW s \in Session, NEW h, Begin(s, h),
           h \in SessionState, HandlerOK(h, requests, balances), ~Holding(h)
    PROVE  SessionInv'
<1>0. UNCHANGED vars
  BY DEF Begin
<1>1. TypeOK'
  BY <1>0, TypeNext DEF SessionInv, SessionTypeOK
<1>2. ASSUME NEW x \in Session
      PROVE  /\ session'[x] \in SessionState
             /\ HandlerOK(session'[x], requests, balances)
             /\ Holding(session'[x]) =>
                  x # s /\ Holding(session[x]) /\ session'[x].key = session[x].key
  <2>1. session[x] \in SessionState /\ HandlerOK(session[x], requests, balances)
    BY <1>2 DEF SessionInv, SessionTypeOK, HandlersOK
  <2>2. session'[x] = IF x = s THEN h
                      ELSE IF Busy(x) THEN [session[x] EXCEPT !.alone = FALSE] ELSE Idle
    BY <1>2 DEF Begin
  <2>3. CASE x = s
    BY <2>2, <2>3
  <2>4. CASE x # s /\ ~Busy(x)
    BY <2>2, <2>4, SessionStates
  <2>5. CASE x # s /\ Busy(x)
    <3> DEFINE me == session[x]
               new == [me EXCEPT !.alone = FALSE]
    <3>1. me \in Handler
      BY <2>1, <2>5, SessionStates DEF Busy
    <3>2. new \in Handler
      BY <3>1 DEF Handler
    <3>3. /\ new.op = me.op /\ new.step = me.step /\ new.id = me.id
          /\ new.request = me.request /\ new.key = me.key /\ new.base = me.base
          /\ new.isNew = me.isNew /\ new.row = me.row
      BY <3>1 DEF Handler
    <3>4. session'[x] = new /\ HandlerOK(me, requests, balances)
      BY <2>1, <2>2, <2>5
    <3> HIDE DEF me, new
    <3>5. HandlerOK(new, requests, balances)
      BY <3>3, <3>4
      DEF HandlerOK, CreateOK, ApproveOK, DecideOK, UpsertOK, Loaded, SameGrant
    <3>6. Holding(new) <=> Holding(me)
      BY <3>3 DEF Holding
    <3>7. new \in SessionState
      BY <3>2, SessionStates
    <3> QED BY <2>5, <3>3, <3>4, <3>5, <3>6, <3>7 DEF me
  <2> QED BY <2>3, <2>4, <2>5
<1>3. session' \in [Session -> SessionState]
  <2>1. session' = [x \in Session |-> session'[x]]
    BY DEF Begin
  <2> QED BY <1>2, <2>1
<1>4. HandlersOK'
  BY <1>0, <1>2 DEF HandlersOK, vars
<1>5. KeysHeld'
  BY <1>0, <1>2 DEF SessionInv, KeysHeld, vars
<1> QED BY <1>1, <1>3, <1>4, <1>5 DEF SessionInv, SessionTypeOK

-----------------------------------------------------------------------------
(* One lemma per step of a handler. *)

\* What Start puts into a session.
LEMMA StartedHandler ==
    ASSUME SessionInv, NEW s \in Session,
           NEW op \in {"create", "approve", "decide"},
           NEW step \in {"balance", "commit"},
           NEW id \in RequestId, NEW request \in RequestRow, NEW key \in BalanceKey,
           NEW quota \in Nat,
           op = "approve" => step = "balance",
           op = "decide" => step = "commit",
           op # "create" => id \in DOMAIN requests,
           Start(s, op, step, id, request, key, quota)
    PROVE  SessionInv'
<1> DEFINE h == [op |-> op, step |-> step, id |-> id, request |-> request, key |-> key,
                 quota |-> quota, base |-> NoRow, isNew |-> FALSE, row |-> NoRow,
                 alone |-> Alone(s)]
<1>1. Alone(s) \in BOOLEAN
  BY DEF Alone
<1>2. h \in Handler
  BY <1>1 DEF Handler
<1>3. /\ h.op = op /\ h.step = step /\ h.id = id /\ h.request = request
      /\ h.row = NoRow /\ ~h.isNew
  OBVIOUS
<1>4. Begin(s, h)
  BY DEF Start
<1> HIDE DEF h
<1>5. HandlerOK(h, requests, balances)
  BY <1>3 DEF HandlerOK, CreateOK, ApproveOK, DecideOK, UpsertOK
<1>6. ~Holding(h)
  BY <1>3 DEF Holding
<1> QED BY <1>2, <1>4, <1>5, <1>6, BegunSession, SessionStates

LEMMA StartCreateKeeps ==
    ASSUME SessionInv, NEW s \in Session, NEW r \in RequestId, NEW m \in Member,
           NEW t \in LeaveType, NEW start \in Date, NEW end \in Date, NEW d \in DayInput,
           StartCreate(s, r, m, t, start, end, d)
    PROVE  SessionInv'
<1> DEFINE row == [member |-> m, type |-> t, start |-> start, end |-> end,
                   days |-> Chargeable(start, end, d), status |-> "PENDING"]
           step == IF leaveTypes[t].isPaid THEN "balance" ELSE "commit"
<1>1. row \in RequestRow
  BY ChargeableType DEF RequestRow, RequestStatus
<1>2. leaveTypes[t].quota \in Nat
  BY DEF StartCreate, SessionInv, SessionTypeOK, TypeOK, LeaveTypeRow
<1>3. step \in {"balance", "commit"}
  OBVIOUS
<1>4. Start(s, "create", step, r, row, KeyOf(row), leaveTypes[t].quota)
  BY DEF StartCreate
<1> HIDE DEF row, step
<1>5. KeyOf(row) \in BalanceKey
  BY <1>1, KeyOfType
<1> QED BY <1>1, <1>2, <1>3, <1>4, <1>5, StartedHandler

LEMMA StartApproveKeeps ==
    ASSUME SessionInv, NEW s \in Session, NEW r \in RequestId, StartApprove(s, r)
    PROVE  SessionInv'
<1>1. r \in DOMAIN requests /\ requests[r] \in RequestRow
  BY DEF StartApprove, SessionInv, SessionTypeOK, TypeOK
<1>2. leaveTypes[requests[r].type].quota \in Nat
  BY DEF StartApprove, SessionInv, SessionTypeOK, TypeOK, LeaveTypeRow
<1>3. KeyOf(requests[r]) \in BalanceKey
  BY <1>1, KeyOfType
<1>4. Start(s, "approve", "balance", r, requests[r], KeyOf(requests[r]),
            leaveTypes[requests[r].type].quota)
  BY DEF StartApprove
<1> QED BY <1>1, <1>2, <1>3, <1>4, StartedHandler

LEMMA StartDecideKeeps ==
    ASSUME SessionInv, NEW s \in Session, NEW r \in RequestId,
           NEW status \in RequestStatus, StartDecide(s, r, status)
    PROVE  SessionInv'
<1> DEFINE row == [requests[r] EXCEPT !.status = status]
<1>1. r \in DOMAIN requests /\ requests[r] \in RequestRow
  BY DEF StartDecide, SessionInv, SessionTypeOK, TypeOK
<1>2. row \in RequestRow
  BY <1>1 DEF RequestRow
<1>3. KeyOf(requests[r]) \in BalanceKey
  BY <1>1, KeyOfType
<1>4. Start(s, "decide", "commit", r, row, KeyOf(requests[r]), 0)
  BY DEF StartDecide
<1> HIDE DEF row
<1> QED BY <1>1, <1>2, <1>3, <1>4, StartedHandler

LEMMA StartUpsertKeeps ==
    ASSUME SessionInv, NEW s \in Session, NEW k \in BalanceKey, NEW in \in BalanceInput,
           StartUpsert(s, k, in)
    PROVE  SessionInv'
<1> DEFINE base == IF k \in DOMAIN balances THEN balances[k] ELSE NoRow
           row  == Charged(in, 0)
           h == [op |-> "upsert", step |-> "check", id |-> "none",
                 request |-> NoRequest, key |-> k, quota |-> 0, base |-> base,
                 isNew |-> k \notin DOMAIN balances, row |-> row, alone |-> Alone(s)]
<1>1. Alone(s) \in BOOLEAN
  BY DEF Alone
<1>2. row \in BalanceRow
  BY ChargedRow, LedgerConstants
<1>3. base \in BalanceRow \cup {NoRow} /\ (k \in DOMAIN balances => base \in BalanceRow)
  BY DEF SessionInv, SessionTypeOK, TypeOK
<1>4. Begin(s, h)
  BY DEF StartUpsert
<1> HIDE DEF row, base
<1>5. h \in Handler
  BY <1>1, <1>2, <1>3 DEF Handler
<1>6. /\ h.op = "upsert" /\ h.step = "check" /\ h.row = row /\ h.base = base
      /\ h.key = k /\ (h.isNew <=> k \notin DOMAIN balances)
  OBVIOUS
<1> HIDE DEF h
<1>7. HandlerOK(h, requests, balances)
  BY <1>2, <1>3, <1>6 DEF HandlerOK, CreateOK, ApproveOK, DecideOK, UpsertOK, Loaded
<1>8. ~Holding(h)
  BY <1>6 DEF Holding
<1> QED BY <1>4, <1>5, <1>7, <1>8, BegunSession, SessionStates

\* A busy session holds a handler's fields.
LEMMA BusyHandler ==
    ASSUME SessionInv, NEW s \in Session, Busy(s)
    PROVE  session[s] \in Handler /\ HandlerOK(session[s], requests, balances)
BY SessionStates DEF SessionInv, SessionTypeOK, HandlersOK, Busy

\* With its balance in memory, a create or an approve goes on or gives up.
LEMMA WithBalanceKeeps ==
    ASSUME SessionInv, NEW s \in Session, NEW row \in BalanceRow, NEW isNew \in BOOLEAN,
           UNCHANGED vars, Busy(s), session[s].op \in {"create", "approve"},
           IF isNew THEN /\ session[s].key \notin DOMAIN balances
                         /\ \A o \in Session \ {s} :
                              Holding(session[o]) => session[o].key # session[s].key
                    ELSE session[s].key \in DOMAIN balances,
           WithBalance(s, row, isNew)
    PROVE  SessionInv'
<1> DEFINE me == session[s]
<1>1. me \in Handler /\ HandlerOK(me, requests, balances)
  BY BusyHandler
<1>2. ASSUME NEW step \in {"check", "commit"}, me.op = "create" => step = "commit",
             session' = [session EXCEPT ![s] =
                [me EXCEPT !.step = step, !.base = row, !.row = row, !.isNew = isNew]]
      PROVE  SessionInv'
  <2> DEFINE h == [me EXCEPT !.step = step, !.base = row, !.row = row, !.isNew = isNew]
  <2>1. h \in Handler
    BY <1>1, <1>2 DEF Handler
  <2>2. /\ h.op = me.op /\ h.step = step /\ h.id = me.id /\ h.request = me.request
        /\ h.row = row /\ h.base = row /\ h.isNew = isNew /\ h.key = me.key
    BY <1>1 DEF Handler
  <2>3. session' = [session EXCEPT ![s] = h]
    BY <1>2
  <2> HIDE DEF h
  <2>4. HandlerOK(h, requests, balances)
    BY <1>1, <1>2, <2>2
    DEF HandlerOK, CreateOK, ApproveOK, DecideOK, UpsertOK, Loaded, SameGrant
  <2>5. Holding(h) => /\ h.key \notin DOMAIN balances
                      /\ \A o \in Session \ {s} : Holding(session[o]) => session[o].key # h.key
    BY <2>2 DEF Holding
  <2>6. h \in SessionState
    BY <2>1, SessionStates
  <2> HIDE DEF me
  <2> QED BY <2>3, <2>4, <2>5, <2>6, OneSession
<1>3. CASE me.op = "approve"
  BY <1>2, <1>3 DEF WithBalance
<1>4. CASE me.op # "approve" /\ Entitlement(row) - row.used - me.request.days >= 0
  BY <1>2, <1>4 DEF WithBalance
<1>5. CASE me.op # "approve" /\ ~(Entitlement(row) - row.used - me.request.days >= 0)
  BY <1>5, EndedSession DEF WithBalance
<1> QED BY <1>3, <1>4, <1>5

LEMMA ReadBalanceKeeps ==
    ASSUME SessionInv, NEW s \in Session, ReadBalance(s)
    PROVE  SessionInv'
<1> DEFINE me == session[s]
           k  == me.key
<1>1. Busy(s) /\ me.step = "balance" /\ UNCHANGED vars
  BY DEF ReadBalance, At
<1>2. me \in Handler /\ HandlerOK(me, requests, balances)
  BY <1>1, BusyHandler
<1>3. me.op \in {"create", "approve"}
  BY <1>1, <1>2 DEF HandlerOK, CreateOK, ApproveOK, DecideOK, UpsertOK, Handler
<1>4. CASE k \in DOMAIN balances
  <2>1. WithBalance(s, balances[k], FALSE)
    BY <1>4 DEF ReadBalance
  <2>2. balances[k] \in BalanceRow
    BY <1>4 DEF SessionInv, SessionTypeOK, TypeOK
  <2>3. FALSE \in BOOLEAN
    OBVIOUS
  <2> QED BY <1>1, <1>3, <1>4, <2>1, <2>2, <2>3, WithBalanceKeeps
<1>5. CASE k \notin DOMAIN balances
  <2> DEFINE start == [allocated |-> me.quota, carriedForward |-> 0, lapsed |-> 0]
             row == Charged(start, ApprovedDays(requests, k))
             h == [me EXCEPT !.step = "insert", !.row = row]
  <2>1. ApprovedDays(requests, k) \in Nat
    BY ChargedUnitsFinite DEF SessionInv, SessionTypeOK, TypeOK
  <2>2. me.quota \in Nat
    BY <1>2 DEF Handler
  <2>3. row \in BalanceRow
    BY <2>1, <2>2, ChargedRow
  <2>4. session' = [session EXCEPT ![s] = h]
    BY <1>5 DEF ReadBalance
  <2> HIDE DEF row
  <2>5. h \in Handler
    BY <1>2, <2>3 DEF Handler
  <2>6. /\ h.op = me.op /\ h.step = "insert" /\ h.id = me.id /\ h.request = me.request
        /\ h.row = row /\ h.isNew = me.isNew
    BY <1>2 DEF Handler
  <2> HIDE DEF h
  <2>7. HandlerOK(h, requests, balances)
    BY <1>1, <1>2, <1>3, <2>3, <2>6
    DEF HandlerOK, CreateOK, ApproveOK, DecideOK, UpsertOK
  <2>8. ~Holding(h)
    BY <2>6 DEF Holding
  <2>9. h \in SessionState
    BY <2>5, SessionStates
  <2> HIDE DEF me, k
  <2> QED BY <1>1, <2>4, <2>7, <2>8, <2>9, OneSession
<1> QED BY <1>4, <1>5

LEMMA InsertBalanceKeeps ==
    ASSUME SessionInv, NEW s \in Session, InsertBalance(s)
    PROVE  SessionInv'
<1> DEFINE me == session[s]
           k  == me.key
<1>1. Busy(s) /\ me.step = "insert" /\ UNCHANGED vars /\ ~HeldByOther(s, k)
  BY DEF InsertBalance, At
<1>2. me \in Handler /\ HandlerOK(me, requests, balances)
  BY <1>1, BusyHandler
<1>3. me.op \in {"create", "approve"} /\ me.row \in BalanceRow
  BY <1>1, <1>2 DEF HandlerOK, CreateOK, ApproveOK, DecideOK, UpsertOK, Handler
<1>4. CASE k \in DOMAIN balances
  BY <1>1, <1>4, EndedSession DEF InsertBalance
<1>5. CASE k \notin DOMAIN balances
  <2>1. WithBalance(s, me.row, TRUE)
    BY <1>5 DEF InsertBalance
  <2>2. \A o \in Session \ {s} : Holding(session[o]) => session[o].key # k
    BY <1>1 DEF HeldByOther, Holding, At, Busy
  <2>3. TRUE \in BOOLEAN
    OBVIOUS
  <2> QED BY <1>1, <1>3, <1>5, <2>1, <2>2, <2>3, WithBalanceKeeps
<1> QED BY <1>4, <1>5

LEMMA SumAndCheckKeeps ==
    ASSUME SessionInv, NEW s \in Session, SumAndCheck(s)
    PROVE  SessionInv'
<1> DEFINE me  == session[s]
           sum == ApprovedDays(requests, me.key)
           charge == IF me.op = "approve" THEN sum + me.request.days ELSE sum
           new == Charged(me.row, charge)
           h == [me EXCEPT !.step = "commit", !.row = new]
<1>1. Busy(s) /\ me.step = "check" /\ UNCHANGED vars
  BY DEF SumAndCheck, At
<1>2. me \in Handler /\ HandlerOK(me, requests, balances)
  BY <1>1, BusyHandler
<1>3. me.op \in {"approve", "upsert"} /\ Loaded(me, balances)
  BY <1>1, <1>2 DEF HandlerOK, CreateOK, ApproveOK, DecideOK, UpsertOK, Handler
<1>4. CASE new.remaining >= 0
  <2>1. sum \in Nat
    BY ChargedUnitsFinite DEF SessionInv, SessionTypeOK, TypeOK
  <2>2. me.op = "approve" => me.request.days \in Nat
    BY <1>2, LedgerConstants DEF HandlerOK, ApproveOK, RequestRow
  <2>3. charge \in Nat
    BY <2>1, <2>2
  <2>4. me.row \in BalanceRow
    BY <1>3 DEF Loaded
  <2>5. new \in BalanceRow
    BY <2>3, <2>4, ChargedRow DEF BalanceRow
  <2>6. SameGrant(new, me.row)
    BY DEF SameGrant, Charged
  <2>7. session' = [session EXCEPT ![s] = h]
    BY <1>4 DEF SumAndCheck
  <2> HIDE DEF new, sum, charge
  <2>8. h \in Handler
    BY <1>2, <2>5 DEF Handler
  <2>9. /\ h.op = me.op /\ h.step = "commit" /\ h.id = me.id /\ h.request = me.request
        /\ h.row = new /\ h.isNew = me.isNew /\ h.base = me.base /\ h.key = me.key
    BY <1>2 DEF Handler
  <2> HIDE DEF h
  <2>10. HandlerOK(h, requests, balances)
    BY <1>1, <1>2, <1>3, <2>5, <2>6, <2>9
    DEF HandlerOK, CreateOK, ApproveOK, DecideOK, UpsertOK, Loaded, SameGrant
  <2>11. Holding(h) => Holding(me)
    BY <1>1, <2>9 DEF Holding
  <2>12. Holding(h) =>
           /\ h.key \notin DOMAIN balances
           /\ \A o \in Session \ {s} : Holding(session[o]) => session[o].key # h.key
    BY <2>9, <2>11 DEF SessionInv, KeysHeld
  <2>13. h \in SessionState
    BY <2>8, SessionStates
  <2> HIDE DEF me
  <2> QED BY <1>1, <2>7, <2>10, <2>12, <2>13, OneSession
<1>5. CASE ~(new.remaining >= 0)
  BY <1>1, <1>5, EndedSession DEF SumAndCheck
<1> QED BY <1>4, <1>5

-----------------------------------------------------------------------------
(* Commits. *)

\* An UPDATE of the columns that changed keeps a row a row, and what it grants
\* when the handler did not change that.
LEMMA WrittenRow ==
    ASSUME NEW current \in BalanceRow, NEW base \in BalanceRow, NEW new \in BalanceRow
    PROVE  /\ WriteChanged(current, base, new) \in BalanceRow
           /\ SameGrant(new, base) => SameGrant(WriteChanged(current, base, new), current)
           /\ base = current => WriteChanged(current, base, new).used = new.used
           /\ base = current => WriteChanged(current, base, new) = new
<1> DEFINE row == WriteChanged(current, base, new)
<1>1. /\ DOMAIN current = {"allocated", "used", "remaining", "carriedForward", "lapsed"}
      /\ DOMAIN new = DOMAIN current
  BY DEF BalanceRow
<1>2. row = [c \in DOMAIN current |-> IF new[c] # base[c] THEN new[c] ELSE current[c]]
  BY DEF WriteChanged
<1>3. /\ row.allocated = IF new.allocated # base.allocated THEN new.allocated ELSE current.allocated
      /\ row.used = IF new.used # base.used THEN new.used ELSE current.used
      /\ row.remaining = IF new.remaining # base.remaining THEN new.remaining ELSE current.remaining
      /\ row.carriedForward = IF new.carriedForward # base.carriedForward
                              THEN new.carriedForward ELSE current.carriedForward
      /\ row.lapsed = IF new.lapsed # base.lapsed THEN new.lapsed ELSE current.lapsed
  BY <1>1, <1>2
<1>4. row \in BalanceRow
  <2>1. row = [allocated |-> row.allocated, used |-> row.used, remaining |-> row.remaining,
               carriedForward |-> row.carriedForward, lapsed |-> row.lapsed]
    BY <1>1, <1>2
  <2>2. /\ row.allocated \in Nat /\ row.used \in Nat /\ row.remaining \in Int
        /\ row.carriedForward \in Nat /\ row.lapsed \in Nat
    BY <1>3 DEF BalanceRow
  <2> HIDE DEF row
  <2> QED BY <2>1, <2>2 DEF BalanceRow
<1>5. SameGrant(new, base) => SameGrant(row, current)
  <2> HIDE DEF row
  <2> QED BY <1>3 DEF SameGrant
<1>6. base = current => row = new
  <2> SUFFICES ASSUME base = current PROVE row = new
    OBVIOUS
  <2>1. \A c \in DOMAIN current : row[c] = new[c]
    BY <1>2
  <2>2. row = [c \in DOMAIN current |-> row[c]]
    BY <1>2
  <2>3. new = [c \in DOMAIN current |-> new[c]]
    BY <1>1 DEF BalanceRow
  <2> QED BY <2>1, <2>2, <2>3
<1> QED BY <1>4, <1>5, <1>6

\* What a commit makes of the balances.
LEMMA CommittedRows ==
    ASSUME SessionInv, NEW s \in Session, session[s] \in Handler,
           session[s].row = NoRow \/ Loaded(session[s], balances)
    PROVE  LET me == session[s]
               after == CommittedBalances(s)
           IN  /\ DOMAIN after = DOMAIN balances \cup
                     (IF me.row # NoRow /\ me.isNew THEN {me.key} ELSE {})
               /\ DOMAIN after \subseteq BalanceKey
               /\ \A k \in DOMAIN after : after[k] \in BalanceRow
               /\ \A k \in DOMAIN balances : k # me.key => after[k] = balances[k]
               /\ me.row = NoRow => after = balances
               /\ me.row # NoRow /\ me.isNew => after[me.key] = me.row
               /\ me.row # NoRow /\ ~me.isNew =>
                     after[me.key] = WriteChanged(balances[me.key], me.base, me.row)
<1> DEFINE me == session[s]
           after == CommittedBalances(s)
<1>1. /\ DOMAIN balances \subseteq BalanceKey
      /\ \A k \in DOMAIN balances : balances[k] \in BalanceRow
  BY DEF SessionInv, SessionTypeOK, TypeOK
<1>2. me.key \in BalanceKey
  BY DEF Handler
<1>3. CASE me.row = NoRow
  <2>1. after = balances
    BY <1>3 DEF CommittedBalances
  <2> QED BY <1>1, <1>3, <2>1
<1>4. CASE me.row # NoRow /\ me.isNew
  <2>1. after = Put(balances, me.key, me.row)
    BY <1>4 DEF CommittedBalances
  <2>2. me.row \in BalanceRow
    BY <1>4 DEF Loaded
  <2>3. DOMAIN after = DOMAIN balances \cup {me.key} /\ after[me.key] = me.row
        /\ \A k \in DOMAIN balances : k # me.key => after[k] = balances[k]
    <3> HIDE DEF after, me
    <3> QED BY <2>1 DEF Put
  <2> HIDE DEF after, me
  <2> QED BY <1>1, <1>2, <1>4, <2>2, <2>3 DEF after, me
<1>5. CASE me.row # NoRow /\ ~me.isNew
  <2> DEFINE new == WriteChanged(balances[me.key], me.base, me.row)
  <2>1. after = [balances EXCEPT ![me.key] = new]
    BY <1>5 DEF CommittedBalances
  <2>2. me.key \in DOMAIN balances /\ me.base \in BalanceRow /\ me.row \in BalanceRow
    BY <1>5 DEF Loaded
  <2>3. balances[me.key] \in BalanceRow
    BY <1>1, <2>2
  <2>4. new \in BalanceRow
    BY <2>2, <2>3, WrittenRow
  <2> HIDE DEF new, me
  <2>5. DOMAIN after = DOMAIN balances /\ after[me.key] = new
        /\ \A k \in DOMAIN balances : k # me.key => after[k] = balances[k]
    BY <2>1, <2>2
  <2> HIDE DEF after
  <2> QED BY <1>1, <1>5, <2>2, <2>4, <2>5 DEF after, me, new
<1> QED BY <1>3, <1>4, <1>5

\* A handler that ends with a commit: the tables grow, and nobody else had
\* inserted the key of a row that is new.
LEMMA CommittedSession ==
    ASSUME SessionInv, NEW s \in Session, End(s),
           UNCHANGED <<leaveTypes, holidays>>,
           DOMAIN requests \subseteq DOMAIN requests', DOMAIN requests' \subseteq RequestId,
           IsFiniteSet(DOMAIN requests'),
           \A r \in DOMAIN requests' : requests'[r] \in RequestRow,
           DOMAIN balances \subseteq DOMAIN balances', DOMAIN balances' \subseteq BalanceKey,
           \A k \in DOMAIN balances' : balances'[k] \in BalanceRow,
           \A o \in Session \ {s} :
              Holding(session[o]) => session[o].key \notin DOMAIN balances'
    PROVE  SessionInv'
<1>1. TypeOK'
  BY DEF SessionInv, SessionTypeOK, TypeOK
<1>2. session' \in [Session -> SessionState]
  BY SessionStates DEF SessionInv, SessionTypeOK, End
<1>3. \A x \in Session : session'[x] = IF x = s THEN Idle ELSE session[x]
  BY DEF SessionInv, SessionTypeOK, End
<1>4. HandlersOK'
  <2> SUFFICES ASSUME NEW x \in Session
               PROVE  HandlerOK(session'[x], requests', balances')
    BY DEF HandlersOK
  <2>1. CASE x = s
    BY <1>3, <2>1, SessionStates
  <2>2. CASE x # s
    <3>1. HandlerOK(session[x], requests, balances)
      BY DEF SessionInv, HandlersOK
    <3>2. HandlerOK(session[x], requests', balances')
      BY <3>1, HandlerFrame
    <3> QED BY <1>3, <2>2, <3>2
  <2> QED BY <2>1, <2>2
<1>5. KeysHeld'
  <2>1. ~Holding(Idle)
    BY SessionStates
  <2> QED BY <1>3, <2>1 DEF SessionInv, KeysHeld
<1> QED BY <1>1, <1>2, <1>4, <1>5 DEF SessionInv, SessionTypeOK

\* What a session that commits leaves to the others that hold a key.
LEMMA OthersKeepTheirs ==
    ASSUME SessionInv, NEW s \in Session, session[s] \in Handler,
           session[s].row = NoRow \/ Loaded(session[s], balances),
           session[s].row # NoRow /\ session[s].isNew =>
              \A o \in Session \ {s} : Holding(session[o]) => session[o].key # session[s].key
    PROVE  \A o \in Session \ {s} :
              Holding(session[o]) => session[o].key \notin DOMAIN CommittedBalances(s)
<1>1. \A o \in Session \ {s} : Holding(session[o]) => session[o].key \notin DOMAIN balances
  BY DEF SessionInv, KeysHeld
<1> QED BY ZenonT(40), <1>1, CommittedRows

LEMMA CommitCreateKeeps ==
    ASSUME SessionInv, NEW s \in Session, CommitCreate(s)
    PROVE  SessionInv'
<1> DEFINE me == session[s]
<1>1. Busy(s) /\ me.step = "commit" /\ me.op = "create" /\ End(s)
  BY DEF CommitCreate, At
<1>2. me \in Handler /\ HandlerOK(me, requests, balances)
  BY <1>1, BusyHandler
<1>3. (me.row = NoRow /\ ~me.isNew) \/ Loaded(me, balances)
  BY <1>1, <1>2 DEF HandlerOK, CreateOK
<1>4. me.id \in RequestId /\ me.request \in RequestRow
  BY <1>1, <1>2 DEF HandlerOK, CreateOK
<1>5. /\ requests' = Put(requests, me.id, me.request)
      /\ balances' = CommittedBalances(s) /\ UNCHANGED <<leaveTypes, holidays>>
  BY DEF CommitCreate
<1>6. me.isNew => Holding(me)
  BY <1>1 DEF Holding
<1>7. /\ DOMAIN balances \subseteq DOMAIN balances' /\ DOMAIN balances' \subseteq BalanceKey
      /\ \A k \in DOMAIN balances' : balances'[k] \in BalanceRow
  BY <1>2, <1>3, <1>5, CommittedRows
<1>8. \A o \in Session \ {s} : Holding(session[o]) => session[o].key \notin DOMAIN balances'
  <2>1. me.isNew => \A o \in Session \ {s} : Holding(session[o]) => session[o].key # me.key
    BY <1>6 DEF SessionInv, KeysHeld
  <2> QED BY <1>2, <1>3, <1>5, <2>1, OthersKeepTheirs
<1>9. /\ DOMAIN requests' = DOMAIN requests \cup {me.id}
      /\ \A r \in DOMAIN requests' : requests'[r] \in RequestRow
      /\ DOMAIN requests' \subseteq RequestId
  BY <1>4, <1>5 DEF Put, SessionInv, SessionTypeOK, TypeOK
<1>10. IsFiniteSet(DOMAIN requests')
  <2>1. IsFiniteSet(DOMAIN requests)
    BY DEF SessionInv, SessionTypeOK, TypeOK
  <2> HIDE DEF me
  <2> QED BY <1>9, <2>1, FS_AddElement
<1> QED BY <1>1, <1>5, <1>7, <1>8, <1>9, <1>10, CommittedSession

\* A decision writes one request that is there.
LEMMA DecidedRequests ==
    ASSUME TypeOK, NEW r \in DOMAIN requests, NEW status \in RequestStatus,
           requests' = [requests EXCEPT ![r].status = status]
    PROVE  /\ DOMAIN requests' = DOMAIN requests /\ DOMAIN requests' \subseteq RequestId
           /\ IsFiniteSet(DOMAIN requests')
           /\ \A x \in DOMAIN requests' : requests'[x] \in RequestRow
BY DEF TypeOK, RequestRow

LEMMA CommitApproveKeeps ==
    ASSUME SessionInv, NEW s \in Session, CommitApprove(s)
    PROVE  SessionInv'
<1> DEFINE me == session[s]
<1>1. Busy(s) /\ me.step = "commit" /\ me.op = "approve" /\ End(s)
  BY DEF CommitApprove, At
<1>2. me \in Handler /\ HandlerOK(me, requests, balances)
  BY <1>1, BusyHandler
<1>3. Loaded(me, balances) /\ me.id \in DOMAIN requests
  BY <1>1, <1>2 DEF HandlerOK, ApproveOK
<1>5. /\ requests' = [requests EXCEPT ![me.id].status = "APPROVED"]
      /\ balances' = CommittedBalances(s) /\ UNCHANGED <<leaveTypes, holidays>>
  BY DEF CommitApprove
<1>6. me.isNew => Holding(me)
  BY <1>1 DEF Holding
<1>7. /\ DOMAIN balances \subseteq DOMAIN balances' /\ DOMAIN balances' \subseteq BalanceKey
      /\ \A k \in DOMAIN balances' : balances'[k] \in BalanceRow
  BY <1>2, <1>3, <1>5, CommittedRows
<1>8. \A o \in Session \ {s} : Holding(session[o]) => session[o].key \notin DOMAIN balances'
  <2>1. me.isNew => \A o \in Session \ {s} : Holding(session[o]) => session[o].key # me.key
    BY <1>6 DEF SessionInv, KeysHeld
  <2> QED BY <1>2, <1>3, <1>5, <2>1, OthersKeepTheirs
<1>9. "APPROVED" \in RequestStatus /\ TypeOK
  BY DEF RequestStatus, SessionInv, SessionTypeOK
<1>10. /\ DOMAIN requests' = DOMAIN requests /\ DOMAIN requests' \subseteq RequestId
       /\ IsFiniteSet(DOMAIN requests')
       /\ \A x \in DOMAIN requests' : requests'[x] \in RequestRow
  BY <1>3, <1>5, <1>9, DecidedRequests
<1> QED BY <1>1, <1>5, <1>7, <1>8, <1>10, CommittedSession

LEMMA CommitDecideKeeps ==
    ASSUME SessionInv, NEW s \in Session, CommitDecide(s)
    PROVE  SessionInv'
<1> DEFINE me == session[s]
<1>1. Busy(s) /\ me.op = "decide" /\ End(s)
  BY DEF CommitDecide, At
<1>2. me \in Handler /\ HandlerOK(me, requests, balances)
  BY <1>1, BusyHandler
<1>3. me.id \in DOMAIN requests /\ me.request.status \in RequestStatus
  BY <1>1, <1>2 DEF HandlerOK, DecideOK, RequestRow
<1>4. requests' = [requests EXCEPT ![me.id].status = me.request.status]
      /\ UNCHANGED <<leaveTypes, holidays, balances>>
  BY DEF CommitDecide
<1>5. TypeOK
  BY DEF SessionInv, SessionTypeOK
<1>6. /\ DOMAIN requests' = DOMAIN requests /\ DOMAIN requests' \subseteq RequestId
      /\ IsFiniteSet(DOMAIN requests')
      /\ \A x \in DOMAIN requests' : requests'[x] \in RequestRow
  BY <1>3, <1>4, <1>5, DecidedRequests
<1>7. \A o \in Session \ {s} : Holding(session[o]) => session[o].key \notin DOMAIN balances'
  BY <1>4 DEF SessionInv, KeysHeld
<1>8. /\ DOMAIN balances' \subseteq BalanceKey
      /\ \A k \in DOMAIN balances' : balances'[k] \in BalanceRow
  BY <1>4, <1>5 DEF TypeOK
<1> QED BY <1>1, <1>4, <1>6, <1>7, <1>8, CommittedSession

LEMMA CommitUpsertKeeps ==
    ASSUME SessionInv, NEW s \in Session, CommitUpsert(s)
    PROVE  SessionInv'
<1> DEFINE me == session[s]
<1>1. Busy(s) /\ me.step = "commit" /\ me.op = "upsert" /\ End(s)
      /\ UNCHANGED <<leaveTypes, holidays, requests>>
  BY DEF CommitUpsert, At
<1>2. me \in Handler /\ HandlerOK(me, requests, balances)
  BY <1>1, BusyHandler
<1>3. Loaded(me, balances)
  BY <1>1, <1>2 DEF HandlerOK, UpsertOK
<1>4. me.isNew => ~HeldByOther(s, me.key)
  BY DEF CommitUpsert
<1>5. balances' = balances \/ balances' = CommittedBalances(s)
  BY DEF CommitUpsert
<1>6. me.isNew => \A o \in Session \ {s} : Holding(session[o]) => session[o].key # me.key
  BY <1>4 DEF HeldByOther, Holding, At, Busy
<1>7. /\ DOMAIN balances \subseteq DOMAIN balances' /\ DOMAIN balances' \subseteq BalanceKey
      /\ \A k \in DOMAIN balances' : balances'[k] \in BalanceRow
  <2>1. CASE balances' = balances
    BY <2>1 DEF SessionInv, SessionTypeOK, TypeOK
  <2>2. CASE balances' = CommittedBalances(s)
    BY <1>2, <1>3, <2>2, CommittedRows
  <2> QED BY <1>5, <2>1, <2>2
<1>8. \A o \in Session \ {s} : Holding(session[o]) => session[o].key \notin DOMAIN balances'
  <2>1. CASE balances' = balances
    BY <2>1 DEF SessionInv, KeysHeld
  <2>2. CASE balances' = CommittedBalances(s)
    BY <1>2, <1>3, <1>6, <2>2, OthersKeepTheirs
  <2> QED BY <1>5, <2>1, <2>2
<1>9. /\ DOMAIN requests' = DOMAIN requests /\ DOMAIN requests' \subseteq RequestId
      /\ IsFiniteSet(DOMAIN requests')
      /\ \A x \in DOMAIN requests' : requests'[x] \in RequestRow
  BY <1>1 DEF SessionInv, SessionTypeOK, TypeOK
<1> QED BY <1>1, <1>7, <1>8, <1>9, CommittedSession

-----------------------------------------------------------------------------
(* Every step, and the theorems. *)

\* A change of the leave types or of the holidays leaves the sessions alone.
LEMMA SetupStepIsLedgers ==
    ASSUME SetupStep
    PROVE  Next /\ UNCHANGED <<requests, balances, session>>
<1>1. Next
  BY DEF SetupStep, Next, AdminStep
<1>2. UNCHANGED <<requests, balances, session>>
  BY DEF SetupStep, CreateLeaveType, UpdateLeaveType, CreateHoliday, UpdateHoliday,
         DeleteHoliday
<1> QED BY <1>1, <1>2

LEMMA SetupStepKeeps ==
    ASSUME SessionInv, SetupStep
    PROVE  SessionInv'
<1>1. TypeOK'
  BY SetupStepIsLedgers, TypeNext DEF SessionInv, SessionTypeOK
<1>2. UNCHANGED <<requests, balances, session>>
  BY SetupStepIsLedgers
<1>3. HandlersOK' /\ KeysHeld'
  BY <1>2 DEF SessionInv, HandlersOK, KeysHeld
<1> QED BY <1>1, <1>2, <1>3 DEF SessionInv, SessionTypeOK

LEMMA StartStepKeeps ==
    ASSUME SessionInv, NEW s \in Session, StartStep(s)
    PROVE  SessionInv'
<1>1. ASSUME NEW r \in RequestId, NEW m \in Member, NEW t \in LeaveType, NEW start \in Date,
             NEW end \in Date, NEW d \in DayInput, StartCreate(s, r, m, t, start, end, d)
      PROVE  SessionInv'
  BY <1>1, StartCreateKeeps
<1>2. ASSUME NEW r \in RequestId, StartApprove(s, r)
      PROVE  SessionInv'
  BY <1>2, StartApproveKeeps
<1>3. ASSUME NEW r \in RequestId, StartReject(s, r)
      PROVE  SessionInv'
  <2>1. "REJECTED" \in RequestStatus /\ StartDecide(s, r, "REJECTED")
    BY <1>3 DEF StartReject, RequestStatus
  <2> QED BY <2>1, StartDecideKeeps
<1>4. ASSUME NEW r \in RequestId, NEW m \in Member, NEW any \in BOOLEAN,
             StartCancel(s, r, m, any)
      PROVE  SessionInv'
  <2>1. "CANCELLED" \in RequestStatus /\ StartDecide(s, r, "CANCELLED")
    BY <1>4 DEF StartCancel, RequestStatus
  <2> QED BY <2>1, StartDecideKeeps
<1>5. ASSUME NEW k \in BalanceKey, NEW in \in BalanceInput, StartUpsert(s, k, in)
      PROVE  SessionInv'
  BY <1>5, StartUpsertKeeps
<1> QED BY <1>1, <1>2, <1>3, <1>4, <1>5 DEF StartStep

LEMMA RunStepKeeps ==
    ASSUME SessionInv, NEW s \in Session, RunStep(s)
    PROVE  SessionInv'
BY ReadBalanceKeeps, InsertBalanceKeeps, SumAndCheckKeeps, CommitCreateKeeps,
   CommitApproveKeeps, CommitDecideKeeps, CommitUpsertKeeps DEF RunStep

LEMMA SessionInvNext == SessionInv /\ [SessionNext]_sessionVars => SessionInv'
<1> SUFFICES ASSUME SessionInv, [SessionNext]_sessionVars
             PROVE  SessionInv'
  OBVIOUS
<1>1. CASE UNCHANGED sessionVars
  BY <1>1 DEF sessionVars, SessionInv, SessionTypeOK, TypeOK, HandlersOK, KeysHeld
<1>2. CASE SetupStep
  BY <1>2, SetupStepKeeps
<1>3. ASSUME NEW s \in Session, StartStep(s) \/ RunStep(s)
      PROVE  SessionInv'
  BY <1>3, StartStepKeeps, RunStepKeeps
<1> QED BY <1>1, <1>2, <1>3 DEF SessionNext

LEMMA SessionInvInit == SessionInit => SessionInv
<1> SUFFICES ASSUME SessionInit PROVE SessionInv
  OBVIOUS
<1>1. TypeOK /\ requests = [r \in {} |-> {}] /\ balances = [k \in {} |-> {}]
  BY TypeInit DEF SessionInit, Init
<1>2. \A s \in Session : session[s] = Idle
  BY DEF SessionInit
<1>3. session \in [Session -> SessionState]
  BY SessionStates DEF SessionInit
<1>4. HandlersOK /\ KeysHeld
  BY <1>2, SessionStates DEF HandlersOK, KeysHeld
<1> QED BY <1>1, <1>3, <1>4 DEF SessionInv, SessionTypeOK

\* However the sessions interleave, the tables and what each session has read
\* keep their types (leave/service.py:451-700).
THEOREM SessionsTypeCorrect == SessionSpec => []SessionTypeOK
<1>1. SessionInv => SessionTypeOK
  BY DEF SessionInv
<1> QED BY <1>1, SessionInvInit, SessionInvNext, PTL DEF SessionSpec

\* Only the commit of an assignment changes what an existing balance grants.
SurviveStep ==
    \A k \in DOMAIN balances :
        Entitlement(balances'[k]) # Entitlement(balances[k]) =>
           \E s \in Session : At(s, "commit") /\ session[s].op = "upsert"
                              /\ session[s].key = k /\ ~Busy(s)'

LEMMA SameGrantEntitles ==
    ASSUME NEW a, NEW b, SameGrant(a, b)
    PROVE  Entitlement(a) = Entitlement(b)
BY DEF SameGrant, Entitlement

\* A request or an approval grants what was granted.
LEMMA CommitGrants ==
    ASSUME SessionInv, NEW s \in Session, At(s, "commit"),
           session[s].op \in {"create", "approve"},
           balances' = CommittedBalances(s)
    PROVE  \A k \in DOMAIN balances : Entitlement(balances'[k]) = Entitlement(balances[k])
<1> DEFINE me == session[s]
<1>1. me \in Handler /\ HandlerOK(me, requests, balances) /\ me.step = "commit"
  BY BusyHandler DEF At
<1>2. \/ me.row = NoRow /\ ~me.isNew
      \/ Loaded(me, balances) /\ (me.isNew \/ SameGrant(me.row, me.base))
  BY <1>1 DEF HandlerOK, CreateOK, ApproveOK
<1>3. me.isNew => me.key \notin DOMAIN balances
  BY <1>1 DEF SessionInv, KeysHeld, Holding
<1>4. /\ \A k \in DOMAIN balances : k # me.key => balances'[k] = balances[k]
      /\ me.row = NoRow => balances' = balances
      /\ me.row # NoRow /\ ~me.isNew =>
           balances'[me.key] = WriteChanged(balances[me.key], me.base, me.row)
  BY <1>1, <1>2, CommittedRows
<1>5. \A k \in DOMAIN balances : balances[k] \in BalanceRow
  BY DEF SessionInv, SessionTypeOK, TypeOK
<1>6. CASE me.row # NoRow /\ ~me.isNew
  <2>1. me.key \in DOMAIN balances /\ me.base \in BalanceRow /\ me.row \in BalanceRow
        /\ SameGrant(me.row, me.base)
    BY <1>2, <1>6 DEF Loaded
  <2>2. SameGrant(balances'[me.key], balances[me.key])
    <3> DEFINE current == balances[me.key]
               base == me.base
               row == me.row
    <3>1. current \in BalanceRow /\ base \in BalanceRow /\ row \in BalanceRow
          /\ SameGrant(row, base)
      BY <1>5, <2>1
    <3>2. balances'[me.key] = WriteChanged(current, base, row)
      BY <1>4, <1>6
    <3> HIDE DEF current, base, row
    <3>3. SameGrant(WriteChanged(current, base, row), current)
      BY <3>1, WrittenRow
    <3> QED BY <3>2, <3>3 DEF current
  <2>3. Entitlement(balances'[me.key]) = Entitlement(balances[me.key])
    BY <2>2, SameGrantEntitles
  <2> HIDE DEF me
  <2> QED BY <1>4, <2>3
<1> HIDE DEF me
<1> QED BY <1>3, <1>4, <1>6

\* A handler that starts has only read.
LEMMA StartStepReads ==
    ASSUME NEW s \in Session, StartStep(s)
    PROVE  UNCHANGED vars
<1>1. ASSUME NEW h, Begin(s, h)
      PROVE  UNCHANGED vars
  BY <1>1 DEF Begin
<1>2. ASSUME NEW op, NEW step, NEW id, NEW request, NEW key, NEW quota,
             Start(s, op, step, id, request, key, quota)
      PROVE  UNCHANGED vars
  BY <1>1, <1>2 DEF Start
<1>3. ASSUME NEW r, NEW status, StartDecide(s, r, status)
      PROVE  UNCHANGED vars
  BY <1>2, <1>3 DEF StartDecide
<1>4. ASSUME NEW r, StartApprove(s, r)
      PROVE  UNCHANGED vars
  BY <1>2, <1>4 DEF StartApprove
<1>5. ASSUME NEW k, NEW in, StartUpsert(s, k, in)
      PROVE  UNCHANGED vars
  BY <1>1, <1>5 DEF StartUpsert
<1>6. ASSUME NEW r, NEW m, NEW t, NEW start, NEW end, NEW d,
             StartCreate(s, r, m, t, start, end, d)
      PROVE  UNCHANGED vars
  BY <1>2, <1>6 DEF StartCreate
<1>7. ASSUME NEW r, StartReject(s, r)
      PROVE  UNCHANGED vars
  BY <1>3, <1>7 DEF StartReject
<1>8. ASSUME NEW r, NEW m, NEW any, StartCancel(s, r, m, any)
      PROVE  UNCHANGED vars
  BY <1>3, <1>8 DEF StartCancel
<1> QED BY <1>4, <1>5, <1>6, <1>7, <1>8 DEF StartStep

LEMMA SurviveEachStep == SessionInv /\ [SessionNext]_sessionVars => SurviveStep
<1> SUFFICES ASSUME SessionInv, [SessionNext]_sessionVars, NEW k \in DOMAIN balances,
                    Entitlement(balances'[k]) # Entitlement(balances[k])
             PROVE  \E s \in Session : At(s, "commit") /\ session[s].op = "upsert"
                              /\ session[s].key = k /\ ~Busy(s)'
  BY DEF SurviveStep
<1>1. balances' # balances
  OBVIOUS
<1>2. PICK s \in Session : StartStep(s) \/ RunStep(s)
  BY <1>1, SetupStepIsLedgers DEF SessionNext, sessionVars
<1>3. ~StartStep(s)
  BY <1>1, StartStepReads DEF vars
<1>4. CommitCreate(s) \/ CommitApprove(s) \/ CommitUpsert(s)
  BY <1>1, <1>2, <1>3 DEF RunStep, ReadBalance, InsertBalance, SumAndCheck, CommitDecide, vars
<1>5. ~(CommitCreate(s) \/ CommitApprove(s))
  BY CommitGrants DEF CommitCreate, CommitApprove
<1>6. CommitUpsert(s)
  BY <1>4, <1>5
<1>7. At(s, "commit") /\ session[s].op = "upsert" /\ End(s)
  BY <1>6 DEF CommitUpsert
<1>8. session[s] \in Handler /\ HandlerOK(session[s], requests, balances)
  BY <1>7, BusyHandler DEF At
<1>9. Loaded(session[s], balances)
  BY <1>7, <1>8 DEF HandlerOK, UpsertOK
<1>10. session[s].key = k
  <2>1. balances' = CommittedBalances(s)
    BY <1>1, <1>6 DEF CommitUpsert
  <2>2. \A x \in DOMAIN balances : x # session[s].key => balances'[x] = balances[x]
    BY <1>8, <1>9, <2>1, CommittedRows
  <2> QED BY <2>2
<1>11. session'[s] = Idle
  BY <1>7 DEF End, SessionInv, SessionTypeOK
<1>12. ~Busy(s)'
  BY <1>11, SessionStates DEF Busy
<1> QED BY <1>7, <1>10, <1>12

\* An assignment is never undone by a request or an approval that loaded the row
\* before it (leave/service.py:473-520, 607-640).
THEOREM AssignmentsStand == SessionSpec => AssignmentsSurvive
<1>1. SessionInv /\ [SessionNext]_sessionVars => [SurviveStep]_sessionVars
  BY SurviveEachStep
<1>2. SessionSpec => [][SurviveStep]_sessionVars
  BY <1>1, SessionInvInit, SessionInvNext, PTL DEF SessionSpec
<1> QED BY <1>2 DEF AssignmentsSurvive, SurviveStep

-----------------------------------------------------------------------------
(* An approval during which no other handler ran. *)

\* What an approval nobody interfered with knows: its request, the row it
\* loaded, and, once summed, what the request takes.
Undisturbed(me, rs, bs) ==
    me.op = "approve" =>
        /\ me.id \in DOMAIN rs /\ me.request = rs[me.id] /\ me.request.status = "PENDING"
        /\ me.key = KeyOf(me.request)
        /\ me.step \in {"check", "commit"} /\ ~me.isNew => me.base = bs[me.key]
        /\ me.step = "commit" => me.row.used = ApprovedDays(rs, me.key) + me.request.days

LonelyInv ==
    \A s \in Session : Busy(s) /\ session[s].alone =>
        /\ \A o \in Session \ {s} : ~Busy(o)
        /\ Undisturbed(session[s], requests, balances)

\* A step of an approval that is not its last.
Advances(me, h) ==
    /\ h.op = me.op /\ h.id = me.id /\ h.request = me.request
    /\ h.key = me.key /\ h.alone = me.alone
    /\ \/ h.step = "insert"
       \/ h.step = "check" /\ (h.isNew \/ h.base = balances[me.key])
       \/ /\ h.step = "commit" /\ me.step = "check"
          /\ h.isNew = me.isNew /\ h.base = me.base
          /\ h.row.used = ApprovedDays(requests, me.key) + me.request.days

LEMMA ApprovalWithBalance ==
    ASSUME SessionInv, NEW s \in Session, Busy(s), session[s].op = "approve",
           NEW row \in BalanceRow, NEW isNew \in BOOLEAN, WithBalance(s, row, isNew),
           isNew \/ row = balances[session[s].key]
    PROVE  Advances(session[s], session'[s])
<1> DEFINE me == session[s]
           h  == [me EXCEPT !.step = "check", !.base = row, !.row = row, !.isNew = isNew]
<1>1. me \in Handler
  BY BusyHandler
<1>2. session' = [session EXCEPT ![s] = h]
  BY DEF WithBalance
<1>3. session'[s] = h
  BY <1>2 DEF SessionInv, SessionTypeOK
<1>4. /\ h.op = me.op /\ h.step = "check" /\ h.id = me.id /\ h.request = me.request
      /\ h.base = row /\ h.isNew = isNew /\ h.key = me.key /\ h.alone = me.alone
  BY <1>1 DEF Handler
<1> HIDE DEF h
<1> QED BY <1>3, <1>4 DEF Advances

LEMMA ApprovalAdvances ==
    ASSUME SessionInv, NEW s \in Session, RunStep(s), session[s].op = "approve"
    PROVE  session'[s] = Idle \/ (UNCHANGED vars /\ Advances(session[s], session'[s]))
<1> DEFINE me == session[s]
           k  == me.key
<1>0. Busy(s)
  BY DEF RunStep, ReadBalance, InsertBalance, SumAndCheck, CommitCreate, CommitApprove,
         CommitDecide, CommitUpsert, At
<1>1. me \in Handler /\ HandlerOK(me, requests, balances)
  BY <1>0, BusyHandler
<1>2. End(s) => session'[s] = Idle
  BY DEF End, SessionInv, SessionTypeOK
<1>3. CASE ReadBalance(s)
  <2>1. UNCHANGED vars
    BY <1>3 DEF ReadBalance
  <2>2. CASE k \in DOMAIN balances
    <3>1. WithBalance(s, balances[k], FALSE)
      BY <1>3, <2>2 DEF ReadBalance
    <3>2. balances[k] \in BalanceRow /\ FALSE \in BOOLEAN
      BY <2>2 DEF SessionInv, SessionTypeOK, TypeOK
    <3> QED BY <1>0, <2>1, <3>1, <3>2, ApprovalWithBalance
  <2>3. CASE k \notin DOMAIN balances
    <3> DEFINE row == Charged([allocated |-> me.quota, carriedForward |-> 0, lapsed |-> 0],
                              ApprovedDays(requests, k))
               h == [me EXCEPT !.step = "insert", !.row = row]
    <3>1. session' = [session EXCEPT ![s] = h]
      BY <1>3, <2>3 DEF ReadBalance
    <3>2. session'[s] = h
      BY <3>1 DEF SessionInv, SessionTypeOK
    <3> HIDE DEF row
    <3>3. /\ h.op = me.op /\ h.step = "insert" /\ h.id = me.id /\ h.request = me.request
          /\ h.key = me.key /\ h.alone = me.alone
      BY <1>1 DEF Handler
    <3> HIDE DEF h
    <3> QED BY <2>1, <3>2, <3>3 DEF Advances
  <2> QED BY <2>2, <2>3
<1>4. CASE InsertBalance(s)
  <2>1. UNCHANGED vars /\ me.step = "insert"
    BY <1>4 DEF InsertBalance, At
  <2>2. CASE k \in DOMAIN balances
    BY <1>2, <1>4, <2>2 DEF InsertBalance
  <2>3. CASE k \notin DOMAIN balances
    <3>1. WithBalance(s, me.row, TRUE)
      BY <1>4, <2>3 DEF InsertBalance
    <3>2. me.row \in BalanceRow /\ TRUE \in BOOLEAN
      BY <1>1, <2>1 DEF HandlerOK, ApproveOK
    <3> QED BY <1>0, <2>1, <3>1, <3>2, ApprovalWithBalance
  <2> QED BY <2>2, <2>3
<1>5. CASE SumAndCheck(s)
  <2> DEFINE sum == ApprovedDays(requests, k)
             new == Charged(me.row, sum + me.request.days)
             h == [me EXCEPT !.step = "commit", !.row = new]
  <2>1. UNCHANGED vars /\ me.step = "check"
    BY <1>5 DEF SumAndCheck, At
  <2>2. CASE new.remaining >= 0
    <3>1. session' = [session EXCEPT ![s] = h]
      BY <1>5, <2>2 DEF SumAndCheck
    <3>2. session'[s] = h
      BY <3>1 DEF SessionInv, SessionTypeOK
    <3>3. new.used = sum + me.request.days
      BY DEF Charged
    <3> HIDE DEF new, sum
    <3>4. /\ h.op = me.op /\ h.step = "commit" /\ h.id = me.id /\ h.request = me.request
          /\ h.key = me.key /\ h.alone = me.alone /\ h.isNew = me.isNew
          /\ h.base = me.base /\ h.row = new
      BY <1>1 DEF Handler
    <3> HIDE DEF h
    <3> QED BY <2>1, <3>2, <3>3, <3>4 DEF Advances, sum
  <2>3. CASE ~(new.remaining >= 0)
    BY <1>2, <1>5, <2>3 DEF SumAndCheck
  <2> QED BY <2>2, <2>3
<1>6. CASE CommitCreate(s) \/ CommitApprove(s) \/ CommitDecide(s) \/ CommitUpsert(s)
  BY <1>2, <1>6 DEF CommitCreate, CommitApprove, CommitDecide, CommitUpsert
<1> QED BY <1>3, <1>4, <1>5, <1>6 DEF RunStep

\* A step of a session touches no other session, and ends it or keeps its kind.
OwnStep(s) ==
    /\ \A o \in Session \ {s} : session'[o] = session[o]
    /\ \/ session'[s] = Idle
       \/ session'[s].op = session[s].op /\ session'[s].alone = session[s].alone

LEMMA RunStepOwn ==
    ASSUME SessionInv, NEW s \in Session, RunStep(s)
    PROVE  Busy(s) /\ OwnStep(s)
<1> DEFINE me == session[s]
           k  == me.key
<1>0. Busy(s)
  BY DEF RunStep, ReadBalance, InsertBalance, SumAndCheck, CommitCreate, CommitApprove,
         CommitDecide, CommitUpsert, At
<1> SUFFICES OwnStep(s)
  BY <1>0
<1>1. me \in Handler
  BY <1>0, BusyHandler
<1>2. ASSUME NEW h, session' = [session EXCEPT ![s] = h],
             h = Idle \/ (h.op = me.op /\ h.alone = me.alone)
      PROVE  OwnStep(s)
  BY <1>2 DEF SessionInv, SessionTypeOK, OwnStep
<1>3. End(s) => OwnStep(s)
  BY <1>2 DEF End
<1>4. ASSUME NEW row, NEW isNew \in BOOLEAN, WithBalance(s, row, isNew)
      PROVE  OwnStep(s)
  <2> DEFINE check == [me EXCEPT !.step = "check", !.base = row, !.row = row, !.isNew = isNew]
             commit == [me EXCEPT !.step = "commit", !.base = row, !.row = row, !.isNew = isNew]
  <2>2. check.op = me.op /\ commit.op = me.op /\ check.alone = me.alone
        /\ commit.alone = me.alone
    BY <1>1 DEF Handler
  <2>3. \/ session' = [session EXCEPT ![s] = check]
        \/ session' = [session EXCEPT ![s] = commit]
        \/ End(s)
    BY <1>4 DEF WithBalance
  <2> HIDE DEF check, commit
  <2> QED BY <1>2, <1>3, <2>2, <2>3
<1>5. ASSUME NEW step \in {"insert", "commit"}, NEW row, session' = [session EXCEPT ![s] = [me EXCEPT !.step = step, !.row = row]]
      PROVE  OwnStep(s)
  <2> DEFINE h == [me EXCEPT !.step = step, !.row = row]
  <2>1. session' = [session EXCEPT ![s] = h]
    BY <1>5
  <2>2. h.op = me.op /\ h.alone = me.alone
    BY <1>1 DEF Handler
  <2> HIDE DEF h
  <2> QED BY <1>2, <2>1, <2>2
<1>6. CASE ReadBalance(s)
  <2>1. CASE k \in DOMAIN balances
    <3>1. WithBalance(s, balances[k], FALSE)
      BY <1>6, <2>1 DEF ReadBalance
    <3> QED BY <1>4, <3>1
  <2>2. CASE k \notin DOMAIN balances
    <3> DEFINE row == Charged([allocated |-> me.quota, carriedForward |-> 0, lapsed |-> 0],
                              ApprovedDays(requests, k))
    <3>1. session' = [session EXCEPT ![s] = [me EXCEPT !.step = "insert", !.row = row]]
      BY <1>6, <2>2 DEF ReadBalance
    <3> HIDE DEF row
    <3> QED BY <1>5, <3>1
  <2> QED BY <2>1, <2>2
<1>7. CASE InsertBalance(s)
  <2>1. WithBalance(s, me.row, TRUE) \/ End(s)
    BY <1>7 DEF InsertBalance
  <2> QED BY <1>3, <1>4, <2>1
<1>8. CASE SumAndCheck(s)
  <2> DEFINE sum == ApprovedDays(requests, k)
             new == Charged(me.row, IF me.op = "approve" THEN sum + me.request.days ELSE sum)
  <2>1. session' = [session EXCEPT ![s] = [me EXCEPT !.step = "commit", !.row = new]] \/ End(s)
    BY <1>8 DEF SumAndCheck
  <2> HIDE DEF new
  <2> QED BY <1>3, <1>5, <2>1
<1>9. CASE CommitCreate(s) \/ CommitApprove(s) \/ CommitDecide(s) \/ CommitUpsert(s)
  BY <1>3, <1>9 DEF CommitCreate, CommitApprove, CommitDecide, CommitUpsert
<1> QED BY <1>0, <1>6, <1>7, <1>8, <1>9 DEF RunStep

LEMMA RunStepLonely ==
    ASSUME SessionInv, LonelyInv, NEW s \in Session, RunStep(s)
    PROVE  LonelyInv'
<1> SUFFICES ASSUME NEW x \in Session, Busy(x)', session'[x].alone
             PROVE  /\ \A o \in Session \ {x} : ~Busy(o)'
                    /\ Undisturbed(session'[x], requests', balances')
  BY DEF LonelyInv
<1>0. Busy(s) /\ OwnStep(s)
  BY RunStepOwn
<1>1. CASE x # s
  BY <1>0, <1>1 DEF LonelyInv, Busy, OwnStep
<1>2. CASE x = s
  <2> DEFINE me == session[s]
             h  == session'[s]
  <2>1. h # Idle
    BY <1>2, SessionStates DEF Busy
  <2>2. h.op = me.op /\ me.alone
    BY <1>0, <1>2, <2>1 DEF OwnStep
  <2>3. /\ \A o \in Session \ {s} : ~Busy(o)
        /\ Undisturbed(me, requests, balances)
    BY <1>0, <2>2 DEF LonelyInv
  <2>4. \A o \in Session \ {s} : ~Busy(o)'
    BY <1>0, <2>3 DEF Busy, OwnStep
  <2>5. CASE me.op = "approve"
    <3>1. UNCHANGED vars /\ Advances(me, h)
      BY <2>1, <2>5, ApprovalAdvances
    <3> HIDE DEF me, h
    <3>2. Undisturbed(h, requests, balances)
      BY <2>3, <3>1 DEF Undisturbed, Advances
    <3> QED BY <1>2, <2>4, <3>1, <3>2 DEF h, vars
  <2>6. CASE me.op # "approve"
    <3>1. Undisturbed(h, requests', balances')
      BY <2>2, <2>6 DEF Undisturbed
    <3> QED BY <1>2, <2>4, <3>1
  <2> QED BY <2>5, <2>6
<1> QED BY <1>1, <1>2

\* A handler that starts disturbs the others, and is alone if nobody was there.
LEMMA BegunLonely ==
    ASSUME SessionInv, LonelyInv, NEW s \in Session, NEW h, Begin(s, h),
           h.alone = Alone(s), Undisturbed(h, requests, balances)
    PROVE  LonelyInv'
<1> SUFFICES ASSUME NEW x \in Session, Busy(x)', session'[x].alone
             PROVE  /\ \A o \in Session \ {x} : ~Busy(o)'
                    /\ Undisturbed(session'[x], requests', balances')
  BY DEF LonelyInv
<1>1. \A y \in Session : session'[y] = IF y = s THEN h
         ELSE IF Busy(y) THEN [session[y] EXCEPT !.alone = FALSE] ELSE Idle
  BY DEF Begin
<1>2. x = s
  <2> SUFFICES ASSUME x # s PROVE FALSE
    OBVIOUS
  <2>1. CASE Busy(x)
    <3>1. session[x] \in Handler
      BY <2>1, BusyHandler
    <3>2. ~[session[x] EXCEPT !.alone = FALSE].alone
      BY <3>1 DEF Handler
    <3> QED BY <1>1, <2>1, <3>2
  <2>2. CASE ~Busy(x)
    BY <1>1, <2>2, SessionStates DEF Busy
  <2> QED BY <2>1, <2>2
<1>3. \A o \in Session \ {s} : ~Busy(o)
  BY <1>1, <1>2 DEF Alone
<1>4. \A o \in Session \ {s} : ~Busy(o)'
  BY <1>1, <1>3, SessionStates DEF Busy
<1>5. UNCHANGED vars /\ session'[s] = h
  BY <1>1 DEF Begin
<1> QED BY <1>2, <1>4, <1>5 DEF vars

LEMMA StartedLonely ==
    ASSUME SessionInv, LonelyInv, NEW s \in Session, NEW op, NEW step, NEW id,
           NEW request, NEW key, NEW quota,
           Start(s, op, step, id, request, key, quota),
           op = "approve" => /\ step = "balance" /\ id \in DOMAIN requests
                             /\ request = requests[id] /\ request.status = "PENDING"
                             /\ key = KeyOf(request)
    PROVE  LonelyInv'
<1> DEFINE h == [op |-> op, step |-> step, id |-> id, request |-> request, key |-> key,
                 quota |-> quota, base |-> NoRow, isNew |-> FALSE, row |-> NoRow,
                 alone |-> Alone(s)]
<1>1. Begin(s, h)
  BY DEF Start
<1>2. /\ h.alone = Alone(s) /\ h.op = op /\ h.step = step /\ h.id = id
      /\ h.request = request /\ h.key = key
  OBVIOUS
<1> HIDE DEF h
<1>3. Undisturbed(h, requests, balances)
  BY <1>2 DEF Undisturbed
<1> QED BY <1>1, <1>2, <1>3, BegunLonely

LEMMA StartStepLonely ==
    ASSUME SessionInv, LonelyInv, NEW s \in Session, StartStep(s)
    PROVE  LonelyInv'
<1>1. ASSUME NEW r, NEW m, NEW t, NEW start, NEW end, NEW d,
             StartCreate(s, r, m, t, start, end, d)
      PROVE  LonelyInv'
  BY <1>1, StartedLonely DEF StartCreate
<1>2. ASSUME NEW r, StartApprove(s, r)
      PROVE  LonelyInv'
  BY <1>2, StartedLonely DEF StartApprove
<1>3. ASSUME NEW r, NEW status, StartDecide(s, r, status)
      PROVE  LonelyInv'
  BY <1>3, StartedLonely DEF StartDecide
<1>4. ASSUME NEW k, NEW in, StartUpsert(s, k, in)
      PROVE  LonelyInv'
  <2> DEFINE h == [op |-> "upsert", step |-> "check", id |-> "none",
                 request |-> NoRequest, key |-> k, quota |-> 0,
                 base |-> IF k \in DOMAIN balances THEN balances[k] ELSE NoRow,
                 isNew |-> k \notin DOMAIN balances, row |-> Charged(in, 0),
                 alone |-> Alone(s)]
  <2>1. Begin(s, h)
    BY <1>4 DEF StartUpsert
  <2>2. h.alone = Alone(s) /\ h.op = "upsert"
    OBVIOUS
  <2> HIDE DEF h
  <2>3. Undisturbed(h, requests, balances)
    BY <2>2 DEF Undisturbed
  <2> QED BY <2>1, <2>2, <2>3, BegunLonely
<1>5. ASSUME NEW r, StartReject(s, r)
      PROVE  LonelyInv'
  BY <1>3, <1>5 DEF StartReject
<1>6. ASSUME NEW r, NEW m, NEW any, StartCancel(s, r, m, any)
      PROVE  LonelyInv'
  BY <1>3, <1>6 DEF StartCancel
<1> QED BY <1>1, <1>2, <1>4, <1>5, <1>6 DEF StartStep

LEMMA LonelyInvNext ==
    SessionInv /\ LonelyInv /\ [SessionNext]_sessionVars => LonelyInv'
<1> SUFFICES ASSUME SessionInv, LonelyInv, [SessionNext]_sessionVars
             PROVE  LonelyInv'
  OBVIOUS
<1>1. CASE UNCHANGED <<requests, balances, session>>
  BY <1>1 DEF LonelyInv, Busy
<1>2. CASE SetupStep
  BY <1>1, <1>2, SetupStepIsLedgers
<1>3. ASSUME NEW s \in Session, StartStep(s) \/ RunStep(s)
      PROVE  LonelyInv'
  BY <1>3, StartStepLonely, RunStepLonely
<1>4. CASE UNCHANGED sessionVars
  BY <1>1, <1>4 DEF sessionVars
<1> QED BY <1>2, <1>3, <1>4 DEF SessionNext

LEMMA LonelyInvInit == SessionInit => LonelyInv
<1> SUFFICES ASSUME SessionInit, NEW s \in Session, Busy(s) PROVE FALSE
  BY DEF LonelyInv
<1> QED BY SessionStates DEF SessionInit, Busy

LonelyStep ==
    \A s \in Session :
        (Busy(s) /\ session[s].alone /\ CommitApprove(s)) =>
           LET k == session[s].key
           IN  balances'[k].used = ApprovedDays(requests', k)

LEMMA LonelyHeals == SessionInv /\ LonelyInv => LonelyStep
<1> SUFFICES ASSUME SessionInv, LonelyInv, NEW s \in Session, Busy(s), session[s].alone,
                    CommitApprove(s)
             PROVE  balances'[session[s].key].used = ApprovedDays(requests', session[s].key)
  BY DEF LonelyStep
<1> DEFINE me == session[s]
           k  == me.key
           r  == me.id
<1>1. me.step = "commit" /\ me.op = "approve"
  BY DEF CommitApprove, At
<1>2. me \in Handler /\ HandlerOK(me, requests, balances)
  BY BusyHandler
<1>3. /\ r \in DOMAIN requests /\ me.request = requests[r] /\ requests[r].status = "PENDING"
      /\ k = KeyOf(requests[r]) /\ (~me.isNew => me.base = balances[k])
      /\ me.row.used = ApprovedDays(requests, k) + requests[r].days
  BY <1>1 DEF LonelyInv, Undisturbed
<1>4. Loaded(me, balances)
  BY <1>1, <1>2 DEF HandlerOK, ApproveOK
<1>5. me.row # NoRow
  BY <1>4, SessionStates DEF Loaded
<1>6. balances' = CommittedBalances(s)
  BY DEF CommitApprove
<1>7. /\ me.isNew => balances'[k] = me.row
      /\ ~me.isNew => balances'[k] = WriteChanged(balances[k], me.base, me.row)
  BY <1>2, <1>4, <1>5, <1>6, CommittedRows
<1>8. balances'[k].used = me.row.used
  <2>1. CASE me.isNew
    BY <1>7, <2>1
  <2>2. CASE ~me.isNew
    <3> DEFINE base == me.base
               row  == me.row
    <3>1. base \in BalanceRow /\ row \in BalanceRow
      BY <1>4, <2>2 DEF Loaded
    <3>2. balances'[k] = WriteChanged(base, base, row)
      BY <1>3, <1>7, <2>2
    <3> HIDE DEF base, row
    <3>3. WriteChanged(base, base, row).used = row.used
      BY <3>1, WrittenRow
    <3> QED BY <3>2, <3>3 DEF row
  <2> QED BY <2>1, <2>2
<1>9. ApprovedDays(requests', k) = ApprovedDays(requests, k) + requests[r].days
  <2> DEFINE new == requests'
  <2>1. requests[r] \in RequestRow /\ IsFiniteSet(DOMAIN requests)
    BY <1>3 DEF SessionInv, SessionTypeOK, TypeOK
  <2>2. requests' = [requests EXCEPT ![r].status = "APPROVED"]
    BY DEF CommitApprove
  <2> HIDE DEF me, r, k
  <2>3. /\ DOMAIN new = DOMAIN requests
        /\ \A x \in DOMAIN requests : x # r => new[x] = requests[x]
        /\ new[r].status = "APPROVED" /\ new[r].days = requests[r].days
        /\ KeyOf(new[r]) = KeyOf(requests[r])
    BY <1>3, <2>1, <2>2 DEF RequestRow, KeyOf
  <2>4. requests[r].days \in 0..MaxUnits /\ requests[r].status # "APPROVED"
    BY <1>3, <2>1 DEF RequestRow
  <2> HIDE DEF new
  <2>5. ApprovedDays(new, k) =
             IF k = KeyOf(requests[r]) THEN ApprovedDays(requests, k) + requests[r].days
                                       ELSE ApprovedDays(requests, k)
    BY <1>3, <2>1, <2>3, <2>4, ApprovalCharges
  <2> QED BY <1>3, <2>5 DEF new
<1> QED BY <1>3, <1>8, <1>9

\* An approval during which no other handler ran sets the used days right,
\* whatever an earlier race left in the row (leave/service.py:607-640).
THEOREM ApprovalsHeal == SessionSpec => LonelyApprovalHeals
<1>1. SessionInv /\ LonelyInv /\ [SessionNext]_sessionVars => [LonelyStep]_sessionVars
  BY LonelyHeals
<1>2. SessionSpec => [][LonelyStep]_sessionVars
  BY <1>1, SessionInvInit, SessionInvNext, LonelyInvInit, LonelyInvNext, PTL DEF SessionSpec
<1> QED BY <1>2 DEF LonelyApprovalHeals, LonelyStep

-----------------------------------------------------------------------------
(* One session alone implements the ledger. *)

\* Whether there was a row, and which, is what the table still says.
LoadedNow(me) ==
    /\ me.isNew <=> me.key \notin DOMAIN balances
    /\ ~me.isNew => me.base = balances[me.key]

\* The request a session is about to insert is one that may be asked for.
Asked(me) ==
    \E m \in Member, t \in LeaveType, start \in Date, end \in Date, d \in DayInput :
        /\ start <= end /\ t \in DOMAIN leaveTypes
        /\ me.id \in RequestId \ DOMAIN requests
        /\ ~HasOverlap(requests, m, start, end)
        /\ me.request = [member |-> m, type |-> t, start |-> start, end |-> end,
                         days |-> Chargeable(start, end, d), status |-> "PENDING"]

CreateNow(me) ==
    me.op = "create" =>
        /\ Asked(me) /\ me.key = KeyOf(me.request)
        /\ me.quota = leaveTypes[me.request.type].quota
        /\ me.step \in {"balance", "insert"} => leaveTypes[me.request.type].isPaid
        /\ me.step = "insert" => me.key \notin DOMAIN balances /\ me.row = BalanceOrNew(me.key)
        /\ me.step = "commit" =>
              \/ /\ leaveTypes[me.request.type].isPaid
                 /\ LoadedNow(me) /\ me.row = BalanceOrNew(me.key)
                 /\ Entitlement(me.row) - me.row.used - me.request.days >= 0
              \/ ~leaveTypes[me.request.type].isPaid /\ me.row = NoRow

ApproveNow(me) ==
    me.op = "approve" =>
        /\ me.id \in DOMAIN requests /\ me.request = requests[me.id]
        /\ me.request.status = "PENDING" /\ me.request.type \in DOMAIN leaveTypes
        /\ me.key = KeyOf(me.request) /\ me.quota = leaveTypes[me.request.type].quota
        /\ me.step = "insert" => me.key \notin DOMAIN balances /\ me.row = BalanceOrNew(me.key)
        /\ me.step = "check" => LoadedNow(me) /\ me.row = BalanceOrNew(me.key)
        /\ me.step = "commit" =>
              /\ LoadedNow(me) /\ me.row.remaining >= 0
              /\ me.row = Charged(BalanceOrNew(me.key),
                                  ApprovedDays(requests, me.key) + me.request.days)

DecideNow(me) ==
    me.op = "decide" =>
        /\ me.id \in DOMAIN requests /\ requests[me.id].status = "PENDING"
        /\ me.request.status \in {"REJECTED", "CANCELLED"}

UpsertNow(me) ==
    me.op = "upsert" =>
        /\ me.key[2] \in DOMAIN leaveTypes /\ LoadedNow(me)
        /\ \E in \in BalanceInput :
              /\ me.step = "check" => me.row = Charged(in, 0)
              /\ me.step = "commit" => /\ me.row = Charged(in, ApprovedDays(requests, me.key))
                                       /\ me.row.remaining >= 0

Now(me) == CreateNow(me) /\ ApproveNow(me) /\ DecideNow(me) /\ UpsertNow(me)

SerialInv == \A s \in Session : Busy(s) => Now(session[s])

-----------------------------------------------------------------------------
LEMMA SerialFrame ==
    ASSUME NEW only, Session = {only}, UNCHANGED vars, Now(session'[only])
    PROVE  SerialInv'
<1>0. /\ leaveTypes' = leaveTypes /\ holidays' = holidays
      /\ requests' = requests /\ balances' = balances
  BY DEF vars
<1> PICK h : h = session'[only]
  OBVIOUS
<1>1. Now(h)
  OBVIOUS
<1>2. CreateNow(session[only])'
  <2>1. CreateNow(h)
    BY <1>1 DEF Now
  <2>2. Asked(h) => Asked(session[only])'
    <3> SUFFICES ASSUME Asked(h) PROVE Asked(session[only])'
      OBVIOUS
    <3>1. PICK m \in Member, t \in LeaveType, start \in Date, end \in Date, d \in DayInput :
            /\ start <= end /\ t \in DOMAIN leaveTypes
            /\ h.id \in RequestId \ DOMAIN requests
            /\ ~HasOverlap(requests, m, start, end)
            /\ h.request = [member |-> m, type |-> t, start |-> start, end |-> end,
                            days |-> Chargeable(start, end, d), status |-> "PENDING"]
      BY DEF Asked
    <3>2. Chargeable(start, end, d)' = Chargeable(start, end, d)
      BY <1>0 DEF Chargeable, WorkingDays
    <3> QED BY <1>0, <3>1, <3>2 DEF Asked
  <2>3. BalanceOrNew(h.key)' = BalanceOrNew(h.key)
    BY <1>0 DEF BalanceOrNew
  <2>4. LoadedNow(h)' <=> LoadedNow(h)
    BY <1>0 DEF LoadedNow
  <2> QED BY <1>0, <2>1, <2>2, <2>3, <2>4 DEF CreateNow, LoadedNow, BalanceOrNew
<1>3. ApproveNow(session[only])'
  <2>1. ApproveNow(h)
    BY <1>1 DEF Now
  <2> QED BY <1>0, <2>1 DEF ApproveNow, LoadedNow, BalanceOrNew
<1>4. DecideNow(session[only])'
  <2>1. DecideNow(h)
    BY <1>1 DEF Now
  <2> QED BY <1>0, <2>1 DEF DecideNow
<1>5. UpsertNow(session[only])'
  <2>1. UpsertNow(h)
    BY <1>1 DEF Now
  <2> QED BY <1>0, <2>1 DEF UpsertNow, LoadedNow
<1> QED BY <1>2, <1>3, <1>4, <1>5 DEF SerialInv, Now

LEMMA SerialEnd ==
    ASSUME NEW only, Session = {only}, session'[only] = Idle
    PROVE  SerialInv'
BY SessionStates DEF SerialInv, Busy

\* What a commit writes when what was read still holds.
LEMMA CommitPuts ==
    ASSUME SessionInv, NEW s \in Session, session[s] \in Handler,
           LoadedNow(session[s]), session[s].row \in BalanceRow
    PROVE  CommittedBalances(s) = Put(balances, session[s].key, session[s].row)
<1> DEFINE me == session[s]
           k == me.key
           row == me.row
<1>1. row # NoRow
  BY SessionStates
<1>2. CASE me.isNew
  BY <1>1, <1>2 DEF CommittedBalances
<1>3. CASE ~me.isNew
  <2>1. k \in DOMAIN balances /\ me.base = balances[k]
    BY <1>3 DEF LoadedNow
  <2> DEFINE b == balances[k]
  <2>2. b \in BalanceRow
    BY <2>1 DEF SessionInv, SessionTypeOK, TypeOK
  <2>3. CommittedBalances(s) = [balances EXCEPT ![k] = WriteChanged(b, b, row)]
    BY <1>1, <1>3, <2>1 DEF CommittedBalances
  <2>4. row \in BalanceRow
    OBVIOUS
  <2>5. WriteChanged(b, b, row) = row
    <3> HIDE DEF b, row
    <3> QED BY <2>2, <2>4, WrittenRow
  <2>6. CommittedBalances(s) = [balances EXCEPT ![k] = row]
    BY <2>3, <2>5
  <2>7. [balances EXCEPT ![k] = row] = Put(balances, k, row)
    <3> HIDE DEF k, row
    <3>1. DOMAIN balances \cup {k} = DOMAIN balances
      BY <2>1
    <3>2. Put(balances, k, row) = [x \in DOMAIN balances |-> IF x = k THEN row ELSE balances[x]]
      BY <3>1 DEF Put
    <3> QED BY <3>2
  <2> QED BY <2>6, <2>7
<1> QED BY <1>2, <1>3

LEMMA SerialBegin ==
    ASSUME NEW only, Session = {only}, NEW h, Begin(only, h), Now(h)
    PROVE  SerialInv'
<1>1. session'[only] = h /\ UNCHANGED vars
  BY DEF Begin
<1> QED BY <1>1, SerialFrame

LEMMA SerialStart ==
    ASSUME NEW only, Session = {only}, SessionInv, StartStep(only)
    PROVE  SerialInv'
<1>0. TypeOK
  BY DEF SessionInv, SessionTypeOK
<1>1. ASSUME NEW r \in RequestId, NEW m \in Member, NEW t \in LeaveType, NEW start \in Date,
             NEW end \in Date, NEW d \in DayInput, StartCreate(only, r, m, t, start, end, d)
      PROVE  SerialInv'
  <2> DEFINE row == [member |-> m, type |-> t, start |-> start, end |-> end,
                     days |-> Chargeable(start, end, d), status |-> "PENDING"]
             step == IF leaveTypes[t].isPaid THEN "balance" ELSE "commit"
             h == [op |-> "create", step |-> step, id |-> r, request |-> row,
                   key |-> KeyOf(row), quota |-> leaveTypes[t].quota, base |-> NoRow,
                   isNew |-> FALSE, row |-> NoRow, alone |-> Alone(only)]
  <2>1. Begin(only, h)
    BY <1>1 DEF StartCreate, Start
  <2>2. /\ r \notin DOMAIN requests /\ start <= end /\ t \in DOMAIN leaveTypes
        /\ ~HasOverlap(requests, m, start, end)
    BY <1>1 DEF StartCreate
  <2>3. row.type = t
    OBVIOUS
  <2>4. /\ h.op = "create" /\ h.step = step /\ h.id = r /\ h.request = row
        /\ h.key = KeyOf(row) /\ h.quota = leaveTypes[t].quota /\ h.row = NoRow
    OBVIOUS
  <2> HIDE DEF h
  <2>5. Asked(h)
    BY <1>1, <2>2, <2>4 DEF Asked
  <2> HIDE DEF row
  <2>6. CreateNow(h)
    BY <2>3, <2>4, <2>5 DEF CreateNow
  <2>7. Now(h)
    BY <2>4, <2>6 DEF Now, ApproveNow, DecideNow, UpsertNow
  <2> QED BY <2>1, <2>7, SerialBegin
<1>2. ASSUME NEW r \in RequestId, StartApprove(only, r)
      PROVE  SerialInv'
  <2> DEFINE row == requests[r]
             h == [op |-> "approve", step |-> "balance", id |-> r, request |-> row,
                   key |-> KeyOf(row), quota |-> leaveTypes[row.type].quota, base |-> NoRow,
                   isNew |-> FALSE, row |-> NoRow, alone |-> Alone(only)]
  <2>1. Begin(only, h)
    BY <1>2 DEF StartApprove, Start
  <2>2. r \in DOMAIN requests /\ row.status = "PENDING" /\ row.type \in DOMAIN leaveTypes
    BY <1>2 DEF StartApprove
  <2>4. /\ h.op = "approve" /\ h.step = "balance" /\ h.id = r /\ h.request = row
        /\ h.key = KeyOf(row) /\ h.quota = leaveTypes[row.type].quota
    OBVIOUS
  <2> HIDE DEF h
  <2>5. ApproveNow(h)
    BY <2>2, <2>4 DEF ApproveNow
  <2>6. Now(h)
    BY <2>4, <2>5 DEF Now, CreateNow, DecideNow, UpsertNow
  <2> QED BY <2>1, <2>6, SerialBegin
<1>3. ASSUME NEW r \in RequestId, NEW status \in {"REJECTED", "CANCELLED"},
             StartDecide(only, r, status)
      PROVE  SerialInv'
  <2> DEFINE row == [requests[r] EXCEPT !.status = status]
             h == [op |-> "decide", step |-> "commit", id |-> r, request |-> row,
                   key |-> KeyOf(requests[r]), quota |-> 0, base |-> NoRow,
                   isNew |-> FALSE, row |-> NoRow, alone |-> Alone(only)]
  <2>1. Begin(only, h)
    BY <1>3 DEF StartDecide, Start
  <2>2. r \in DOMAIN requests /\ requests[r].status = "PENDING"
    BY <1>3 DEF StartDecide
  <2>3. row.status = status
    BY <1>0, <2>2 DEF TypeOK, RequestRow
  <2>4. h.op = "decide" /\ h.id = r /\ h.request = row
    OBVIOUS
  <2> HIDE DEF h, row
  <2>5. Now(h)
    BY <1>3, <2>2, <2>3, <2>4 DEF Now, CreateNow, ApproveNow, DecideNow, UpsertNow
  <2> QED BY <2>1, <2>5, SerialBegin
<1>4. ASSUME NEW r \in RequestId, StartReject(only, r)
      PROVE  SerialInv'
  BY <1>3, <1>4 DEF StartReject
<1>5. ASSUME NEW r \in RequestId, NEW m \in Member, NEW any \in BOOLEAN,
             StartCancel(only, r, m, any)
      PROVE  SerialInv'
  BY <1>3, <1>5 DEF StartCancel
<1>6. ASSUME NEW k \in BalanceKey, NEW in \in BalanceInput, StartUpsert(only, k, in)
      PROVE  SerialInv'
  <2> DEFINE base == IF k \in DOMAIN balances THEN balances[k] ELSE NoRow
             row == Charged(in, 0)
             h == [op |-> "upsert", step |-> "check", id |-> "none",
                 request |-> NoRequest, key |-> k, quota |-> 0, base |-> base,
                 isNew |-> k \notin DOMAIN balances, row |-> row, alone |-> Alone(only)]
  <2>1. Begin(only, h) /\ k[2] \in DOMAIN leaveTypes
    BY <1>6 DEF StartUpsert
  <2>2. k \in DOMAIN balances => base = balances[k]
    OBVIOUS
  <2>4. /\ h.op = "upsert" /\ h.step = "check" /\ h.key = k /\ h.base = base
        /\ (h.isNew <=> k \notin DOMAIN balances) /\ h.row = row
    OBVIOUS
  <2> HIDE DEF h, base
  <2>5. Now(h)
    BY <1>6, <2>1, <2>2, <2>4
    DEF Now, CreateNow, ApproveNow, DecideNow, UpsertNow, LoadedNow
  <2> QED BY <2>1, <2>5, SerialBegin
<1> QED BY <1>1, <1>2, <1>4, <1>5, <1>6 DEF StartStep

LEMMA SerialWithBalance ==
    ASSUME NEW only, Session = {only}, SessionInv, SerialInv, Busy(only), UNCHANGED vars,
           session[only].op \in {"create", "approve"},
           session[only].step \in {"balance", "insert"},
           NEW row, NEW isNew \in BOOLEAN, WithBalance(only, row, isNew),
           row = BalanceOrNew(session[only].key),
           isNew <=> session[only].key \notin DOMAIN balances
    PROVE  SerialInv'
<1> DEFINE me == session[only]
<1>0. me \in Handler /\ Now(me)
  BY BusyHandler DEF SerialInv
<1>1. BalanceOrNew(me.key) = balances[me.key] \/ isNew
  BY DEF BalanceOrNew
<1>2. CASE me.op = "approve"
  <2> DEFINE h == [me EXCEPT !.step = "check", !.base = row, !.row = row, !.isNew = isNew]
  <2>1. session'[only] = h
    BY <1>2 DEF WithBalance, SessionInv, SessionTypeOK
  <2>2. /\ h.op = me.op /\ h.step = "check" /\ h.id = me.id /\ h.request = me.request
        /\ h.key = me.key /\ h.quota = me.quota /\ h.base = row /\ h.row = row
        /\ h.isNew = isNew
    BY <1>0 DEF Handler
  <2> HIDE DEF h
  <2>3. ApproveNow(h)
    BY <1>0, <1>1, <1>2, <2>2 DEF Now, ApproveNow, LoadedNow
  <2>4. Now(h)
    BY <1>2, <2>2, <2>3 DEF Now, CreateNow, DecideNow, UpsertNow
  <2> QED BY <2>1, <2>4, SerialFrame
<1>3. CASE me.op = "create" /\ Entitlement(row) - row.used - me.request.days >= 0
  <2> DEFINE h == [me EXCEPT !.step = "commit", !.base = row, !.row = row, !.isNew = isNew]
  <2>1. session'[only] = h
    BY <1>3 DEF WithBalance, SessionInv, SessionTypeOK
  <2>2. /\ h.op = me.op /\ h.step = "commit" /\ h.id = me.id /\ h.request = me.request
        /\ h.key = me.key /\ h.quota = me.quota /\ h.base = row /\ h.row = row
        /\ h.isNew = isNew
    BY <1>0 DEF Handler
  <2> HIDE DEF h
  <2>3. Asked(h)
    BY <1>0, <1>3, <2>2 DEF Now, CreateNow, Asked
  <2>4. CreateNow(h)
    BY <1>0, <1>1, <1>3, <2>2, <2>3 DEF Now, CreateNow, LoadedNow
  <2>5. Now(h)
    BY <1>3, <2>2, <2>4 DEF Now, ApproveNow, DecideNow, UpsertNow
  <2> QED BY <2>1, <2>5, SerialFrame
<1>4. CASE me.op = "create" /\ ~(Entitlement(row) - row.used - me.request.days >= 0)
  <2>1. session'[only] = Idle
    BY <1>4 DEF WithBalance, End, SessionInv, SessionTypeOK
  <2> QED BY <2>1, SerialEnd
<1> QED BY <1>2, <1>3, <1>4

\* What is being read or summed is current, so what is held stays current.
LEMMA SerialRead ==
    ASSUME NEW only, Session = {only}, SessionInv, SerialInv, ReadBalance(only)
    PROVE  SerialInv'
<1> DEFINE me == session[only]
           k  == me.key
<1>1. Busy(only) /\ me.step = "balance" /\ UNCHANGED vars
  BY DEF ReadBalance, At
<1>2. me \in Handler /\ HandlerOK(me, requests, balances) /\ Now(me)
  BY <1>1, BusyHandler DEF SerialInv
<1>3. me.op \in {"create", "approve"}
  BY <1>1, <1>2 DEF HandlerOK, CreateOK, ApproveOK, DecideOK, UpsertOK, Handler
<1>4. CASE k \in DOMAIN balances
  <2>1. WithBalance(only, balances[k], FALSE)
    BY <1>4 DEF ReadBalance
  <2>2. balances[k] = BalanceOrNew(k) /\ FALSE \in BOOLEAN
    BY <1>4 DEF BalanceOrNew
  <2> QED BY <1>1, <1>3, <1>4, <2>1, <2>2, SerialWithBalance
<1>5. CASE k \notin DOMAIN balances
  <2> DEFINE row == Charged([allocated |-> me.quota, carriedForward |-> 0, lapsed |-> 0],
                            ApprovedDays(requests, k))
             h == [me EXCEPT !.step = "insert", !.row = row]
  <2>1. session'[only] = h
    BY <1>5 DEF ReadBalance, SessionInv, SessionTypeOK
  <2>2. k[2] = me.request.type
    BY <1>2, <1>3 DEF Now, CreateNow, ApproveNow, KeyOf
  <2>3. me.quota = leaveTypes[k[2]].quota
    BY <1>2, <1>3, <2>2 DEF Now, CreateNow, ApproveNow
  <2>4. row = BalanceOrNew(k)
    BY <1>5, <2>3 DEF BalanceOrNew
  <2> HIDE DEF row
  <2>5. /\ h.op = me.op /\ h.step = "insert" /\ h.id = me.id /\ h.request = me.request
        /\ h.key = k /\ h.quota = me.quota /\ h.row = row
    BY <1>2 DEF Handler
  <2> HIDE DEF h
  <2>6. CASE me.op = "create"
    <3>1. Asked(h)
      BY <1>2, <2>5, <2>6 DEF Now, CreateNow, Asked
    <3>2. CreateNow(h)
      BY <1>1, <1>2, <1>5, <2>4, <2>5, <2>6, <3>1 DEF Now, CreateNow
    <3>3. Now(h)
      BY <2>5, <2>6, <3>2 DEF Now, ApproveNow, DecideNow, UpsertNow
    <3> QED BY <1>1, <2>1, <3>3, SerialFrame
  <2>7. CASE me.op = "approve"
    <3>1. ApproveNow(h)
      BY <1>1, <1>2, <1>5, <2>4, <2>5, <2>7 DEF Now, ApproveNow
    <3>2. Now(h)
      BY <2>5, <2>7, <3>1 DEF Now, CreateNow, DecideNow, UpsertNow
    <3> QED BY <1>1, <2>1, <3>2, SerialFrame
  <2> QED BY <1>3, <2>6, <2>7
<1> QED BY <1>4, <1>5

LEMMA SerialInsert ==
    ASSUME NEW only, Session = {only}, SessionInv, SerialInv, InsertBalance(only)
    PROVE  SerialInv'
<1> DEFINE me == session[only]
           k  == me.key
<1>1. Busy(only) /\ me.step = "insert" /\ UNCHANGED vars
  BY DEF InsertBalance, At
<1>2. me \in Handler /\ HandlerOK(me, requests, balances) /\ Now(me)
  BY <1>1, BusyHandler DEF SerialInv
<1>3. me.op \in {"create", "approve"}
  BY <1>1, <1>2 DEF HandlerOK, CreateOK, ApproveOK, DecideOK, UpsertOK, Handler
<1>4. k \notin DOMAIN balances /\ me.row = BalanceOrNew(k)
  BY <1>1, <1>2, <1>3 DEF Now, CreateNow, ApproveNow
<1>5. WithBalance(only, me.row, TRUE) /\ TRUE \in BOOLEAN
  BY <1>4 DEF InsertBalance
<1> QED BY <1>1, <1>3, <1>4, <1>5, SerialWithBalance

\* Charging a row anew forgets what it was charged.
LEMMA ChargedAnew ==
    ASSUME NEW b, NEW u, NEW n
    PROVE  Charged(Charged(b, u), n) = Charged(b, n)
BY DEF Charged, Entitlement

LEMMA SerialSum ==
    ASSUME NEW only, Session = {only}, SessionInv, SerialInv, SumAndCheck(only)
    PROVE  SerialInv'
<1> DEFINE me  == session[only]
           sum == ApprovedDays(requests, me.key)
           new == Charged(me.row, IF me.op = "approve" THEN sum + me.request.days ELSE sum)
           h == [me EXCEPT !.step = "commit", !.row = new]
<1>1. Busy(only) /\ me.step = "check" /\ UNCHANGED vars
  BY DEF SumAndCheck, At
<1>2. me \in Handler /\ HandlerOK(me, requests, balances) /\ Now(me)
  BY <1>1, BusyHandler DEF SerialInv
<1>3. me.op \in {"approve", "upsert"}
  BY <1>1, <1>2 DEF HandlerOK, CreateOK, ApproveOK, DecideOK, UpsertOK, Handler
<1>4. CASE ~(new.remaining >= 0)
  <2>1. session'[only] = Idle
    BY <1>4 DEF SumAndCheck, End, SessionInv, SessionTypeOK
  <2> QED BY <2>1, SerialEnd
<1>5. CASE new.remaining >= 0
  <2>1. session'[only] = h
    BY <1>5 DEF SumAndCheck, SessionInv, SessionTypeOK
  <2>2. CASE me.op = "approve"
    <3>1. new = Charged(BalanceOrNew(me.key), sum + me.request.days)
      BY <1>1, <1>2, <2>2 DEF Now, ApproveNow
    <3> HIDE DEF new, sum
    <3>2. /\ h.op = me.op /\ h.step = "commit" /\ h.id = me.id /\ h.request = me.request
          /\ h.key = me.key /\ h.quota = me.quota /\ h.row = new
          /\ h.isNew = me.isNew /\ h.base = me.base
      BY <1>2 DEF Handler
    <3> HIDE DEF h
    <3>3. ApproveNow(h)
      BY <1>1, <1>2, <1>5, <2>2, <3>1, <3>2 DEF Now, ApproveNow, LoadedNow, sum
    <3>4. Now(h)
      BY <2>2, <3>2, <3>3 DEF Now, CreateNow, DecideNow, UpsertNow
    <3> QED BY <1>1, <2>1, <3>4, SerialFrame
  <2>3. CASE me.op = "upsert"
    <3>1. PICK in \in BalanceInput : me.row = Charged(in, 0)
      BY <1>1, <1>2, <2>3 DEF Now, UpsertNow
    <3>2. new = Charged(me.row, sum)
      BY <2>3
    <3>3. new = Charged(in, sum)
      BY <3>1, <3>2, ChargedAnew
    <3> HIDE DEF new, sum
    <3>4. /\ h.op = me.op /\ h.step = "commit" /\ h.key = me.key /\ h.row = new
          /\ h.isNew = me.isNew /\ h.base = me.base
      BY <1>2 DEF Handler
    <3> HIDE DEF h
    <3>5. UpsertNow(h)
      BY <1>1, <1>2, <1>5, <2>3, <3>3, <3>4 DEF Now, UpsertNow, LoadedNow, sum
    <3>6. Now(h)
      BY <2>3, <3>4, <3>5 DEF Now, CreateNow, ApproveNow, DecideNow
    <3> QED BY <1>1, <2>1, <3>6, SerialFrame
  <2> QED BY <1>3, <2>2, <2>3
<1> QED BY <1>4, <1>5

-----------------------------------------------------------------------------
(* The commits are the handlers of the ledger. *)

LEMMA SerialCreates ==
    ASSUME NEW only, Session = {only}, SessionInv, SerialInv, CommitCreate(only)
    PROVE  Next
<1> DEFINE me == session[only]
           k  == me.key
<1>1. Busy(only) /\ me.step = "commit" /\ me.op = "create"
  BY DEF CommitCreate, At
<1>2. me \in Handler /\ HandlerOK(me, requests, balances) /\ Now(me)
  BY <1>1, BusyHandler DEF SerialInv
<1>3. PICK m \in Member, t \in LeaveType, start \in Date, end \in Date, d \in DayInput :
        /\ start <= end /\ t \in DOMAIN leaveTypes
        /\ me.id \in RequestId \ DOMAIN requests
        /\ ~HasOverlap(requests, m, start, end)
        /\ me.request = [member |-> m, type |-> t, start |-> start, end |-> end,
                         days |-> Chargeable(start, end, d), status |-> "PENDING"]
  BY <1>1, <1>2 DEF Now, CreateNow, Asked
<1>4. me.request.type = t /\ me.request.days = Chargeable(start, end, d)
  BY <1>3
<1>5. k = <<m, t, YearOf[start]>>
  BY <1>1, <1>2, <1>3 DEF Now, CreateNow, KeyOf
<1>6. \/ /\ leaveTypes[t].isPaid
         /\ LoadedNow(me) /\ me.row = BalanceOrNew(k)
         /\ Entitlement(me.row) - me.row.used - me.request.days >= 0
      \/ ~leaveTypes[t].isPaid /\ me.row = NoRow
  BY <1>1, <1>2, <1>4 DEF Now, CreateNow
<1>7. leaveTypes[t].isPaid => balances' = Put(balances, k, BalanceOrNew(k))
  <2> SUFFICES ASSUME leaveTypes[t].isPaid
               PROVE  balances' = Put(balances, k, BalanceOrNew(k))
    OBVIOUS
  <2>1. me.row \in BalanceRow
    <3>1. k \in BalanceKey /\ k[2] \in DOMAIN leaveTypes
      BY <1>2, <1>3, <1>5 DEF Handler
    <3>2. TypeOK
      BY DEF SessionInv, SessionTypeOK
    <3> QED BY <1>6, <3>1, <3>2, BalanceOrNewType
  <2>2. CommittedBalances(only) = Put(balances, k, me.row)
    BY <1>2, <1>6, <2>1, CommitPuts
  <2> QED BY <1>6, <2>2 DEF CommitCreate
<1>8. ~leaveTypes[t].isPaid => balances' = balances
  BY <1>6 DEF CommitCreate, CommittedBalances
<1>9. CreateLeaveRequest(me.id, m, t, start, end, d)
  <2>1. leaveTypes[t].isPaid =>
           Entitlement(BalanceOrNew(k)) - BalanceOrNew(k).used - Chargeable(start, end, d) >= 0
    BY <1>4, <1>6
  <2>2. /\ requests' = Put(requests, me.id, me.request)
        /\ UNCHANGED <<leaveTypes, holidays>>
    BY DEF CommitCreate
  <2> QED BY <1>3, <1>5, <1>7, <1>8, <2>1, <2>2 DEF CreateLeaveRequest
<1>10. me.id \in RequestId
  BY <1>3
<1> QED BY <1>9, <1>10 DEF Next, RequestStep

LEMMA SerialApproves ==
    ASSUME NEW only, Session = {only}, SessionInv, SerialInv, CommitApprove(only)
    PROVE  Next
<1> DEFINE me == session[only]
           k  == me.key
           r  == me.id
<1>1. Busy(only) /\ me.step = "commit" /\ me.op = "approve"
  BY DEF CommitApprove, At
<1>2. me \in Handler /\ HandlerOK(me, requests, balances) /\ Now(me)
  BY <1>1, BusyHandler DEF SerialInv
<1>3. /\ r \in DOMAIN requests /\ me.request = requests[r]
      /\ requests[r].status = "PENDING" /\ requests[r].type \in DOMAIN leaveTypes
      /\ k = KeyOf(requests[r]) /\ LoadedNow(me) /\ me.row.remaining >= 0
      /\ me.row = Charged(BalanceOrNew(k), ApprovedDays(requests, k) + requests[r].days)
  BY <1>1, <1>2 DEF Now, ApproveNow
<1>4. me.row \in BalanceRow
  BY <1>1, <1>2 DEF HandlerOK, ApproveOK, Loaded
<1>5. balances' = Put(balances, k, me.row)
  BY <1>2, <1>3, <1>4, CommitPuts DEF CommitApprove
<1>6. requests' = [requests EXCEPT ![r].status = "APPROVED"] /\ UNCHANGED <<leaveTypes, holidays>>
  BY DEF CommitApprove
<1>7. r \in RequestId
  BY <1>3 DEF SessionInv, SessionTypeOK, TypeOK
<1> HIDE DEF me, k, r
<1>8. ApproveLeaveRequest(r)
  BY <1>3, <1>5, <1>6 DEF ApproveLeaveRequest
<1> QED BY <1>7, <1>8 DEF Next, RequestStep

LEMMA SerialDecides ==
    ASSUME NEW only, Session = {only}, SessionInv, SerialInv, CommitDecide(only)
    PROVE  Next
<1> DEFINE me == session[only]
           r  == me.id
           m  == requests[r].member
<1>1. Busy(only) /\ me.op = "decide"
  BY DEF CommitDecide, At
<1>2. Now(me)
  BY <1>1 DEF SerialInv
<1>3. /\ r \in DOMAIN requests /\ requests[r].status = "PENDING"
      /\ me.request.status \in {"REJECTED", "CANCELLED"}
  BY <1>1, <1>2 DEF Now, DecideNow
<1>4. requests' = [requests EXCEPT ![r].status = me.request.status]
      /\ UNCHANGED <<leaveTypes, holidays, balances>>
  BY DEF CommitDecide
<1>5. r \in RequestId /\ m \in Member
  BY <1>3 DEF SessionInv, SessionTypeOK, TypeOK, RequestRow
<1>6. CASE me.request.status = "REJECTED"
  <2>1. RejectLeaveRequest(r)
    BY <1>3, <1>4, <1>6 DEF RejectLeaveRequest
  <2> QED BY <1>5, <2>1 DEF Next, RequestStep
<1>7. CASE me.request.status = "CANCELLED"
  <2> PICK any \in BOOLEAN : any = FALSE
    OBVIOUS
  <2>1. CancelLeaveRequest(r, m, any)
    BY <1>3, <1>4, <1>7 DEF CancelLeaveRequest
  <2> HIDE DEF r, m
  <2> QED BY <1>5, <2>1 DEF Next, RequestStep
<1> QED BY <1>3, <1>6, <1>7

LEMMA SerialUpserts ==
    ASSUME NEW only, Session = {only}, SessionInv, SerialInv, CommitUpsert(only)
    PROVE  Next
<1> DEFINE me == session[only]
           k  == me.key
<1>1. Busy(only) /\ me.step = "commit" /\ me.op = "upsert"
  BY DEF CommitUpsert, At
<1>2. me \in Handler /\ HandlerOK(me, requests, balances) /\ Now(me)
  BY <1>1, BusyHandler DEF SerialInv
<1>3. k[2] \in DOMAIN leaveTypes /\ LoadedNow(me)
  BY <1>1, <1>2 DEF Now, UpsertNow
<1>4. PICK in \in BalanceInput :
         me.row = Charged(in, ApprovedDays(requests, k)) /\ me.row.remaining >= 0
  BY <1>1, <1>2 DEF Now, UpsertNow
<1>5. me.row \in BalanceRow /\ k \in BalanceKey
  BY <1>1, <1>2 DEF HandlerOK, UpsertOK, Loaded, Handler
<1>6. CommittedBalances(only) = Put(balances, k, me.row)
  BY <1>2, <1>3, <1>5, CommitPuts
<1>7. ~(me.isNew /\ k \in DOMAIN balances)
  BY <1>3 DEF LoadedNow
<1>8. balances' = Put(balances, k, me.row) /\ UNCHANGED <<leaveTypes, holidays, requests>>
  BY <1>6, <1>7 DEF CommitUpsert
<1> HIDE DEF me, k
<1>9. UpsertLeaveBalance(k, in)
  BY <1>3, <1>4, <1>8 DEF UpsertLeaveBalance
<1> QED BY <1>5, <1>9 DEF Next, AdminStep

\* Every step of one session alone is a step of the ledger or changes no table.
LEMMA SerialStep ==
    ASSUME NEW only, Session = {only}, SessionInv, SerialInv, [SessionNext]_sessionVars
    PROVE  SerialInv' /\ [Next]_vars
<1>1. CASE UNCHANGED sessionVars
  <2>1. UNCHANGED vars /\ session' = session
    BY <1>1 DEF sessionVars, vars
  <2>2. CASE Busy(only)
    <3>1. Now(session'[only])
      BY <2>1, <2>2 DEF SerialInv
    <3> QED BY <2>1, <3>1, SerialFrame
  <2>3. CASE ~Busy(only)
    BY <2>1, <2>3 DEF SerialInv, Busy
  <2> QED BY <2>1, <2>2, <2>3
<1>2. CASE SetupStep
  <2>1. ~Busy(only)
    BY <1>2 DEF SetupStep
  <2>2. Next /\ session' = session
    BY <1>2, SetupStepIsLedgers
  <2>3. SerialInv'
    BY <2>1, <2>2 DEF SerialInv, Busy
  <2> QED BY <2>2, <2>3
<1>3. CASE StartStep(only)
  BY <1>3, SerialStart, StartStepReads
<1>4. CASE ReadBalance(only) \/ InsertBalance(only) \/ SumAndCheck(only)
  <2>1. UNCHANGED vars
    BY <1>4 DEF ReadBalance, InsertBalance, SumAndCheck
  <2> QED BY <1>4, <2>1, SerialRead, SerialInsert, SerialSum
<1>5. CASE CommitCreate(only) \/ CommitApprove(only) \/ CommitDecide(only) \/ CommitUpsert(only)
  <2>1. End(only)
    BY <1>5 DEF CommitCreate, CommitApprove, CommitDecide, CommitUpsert
  <2>2. session'[only] = Idle
    BY <2>1 DEF End, SessionInv, SessionTypeOK
  <2> QED BY <1>5, <2>2, SerialEnd, SerialCreates, SerialApproves, SerialDecides, SerialUpserts
<1> QED BY <1>1, <1>2, <1>3, <1>4, <1>5 DEF SessionNext, RunStep

LEMMA SerialInit == SessionInit => Init /\ SerialInv
BY SessionStates DEF SessionInit, SerialInv, Busy

\* One session alone runs its handlers as the ledger runs them, each in one
\* step (leave/service.py:451-924): the details of LeaveSessions implement it.
THEOREM SerialSessionsAreTheLedger ==
    ASSUME NEW only, Session = {only}
    PROVE  SessionSpec => Spec
<1>1. SessionInv /\ SerialInv /\ [SessionNext]_sessionVars => SerialInv' /\ [Next]_vars
  BY SerialStep
<1> QED BY SerialInit, <1>1, SessionInvInit, SessionInvNext, PTL DEF SessionSpec, Spec
=============================================================================
