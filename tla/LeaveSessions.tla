--------------------------- MODULE LeaveSessions ---------------------------
(***************************************************************************)
(* The leave handlers as the server runs them: every request of the API in *)
(* its own database session, at READ COMMITTED and without row locks, so   *)
(* handlers interleave between one statement and the next.                 *)
(*                                                                         *)
(* A session reads committed rows, keeps what it read in memory, and       *)
(* writes at its commit the columns it changed (autoflush is off;          *)
(* app/shared/database.py).  The exception is _get_or_create_leave_balance,*)
(* which flushes its INSERT: the row is invisible until the commit, but    *)
(* the unique key leave_balance_org_member_type_year_key makes any other   *)
(* insert of the key wait, then fail.                                      *)
(*                                                                         *)
(* The tables are those of LeaveLedger, which one session alone implements.*)
(* Changes to leave types and holidays are single-row writes and stay      *)
(* atomic.  The reads of a handler's first step touch different tables, no *)
(* two of which one handler writes, so they are one step.                  *)
(***************************************************************************)
EXTENDS LeaveLedger

CONSTANT Session    \* database sessions the server has open

VARIABLE session    \* what each session is doing, and what it has read

sessionVars == <<leaveTypes, holidays, requests, balances, session>>

Idle == [op |-> "none"]
NoRow == [used |-> -1]
NoRequest == [status |-> "none"]

Busy(s) == session[s].op # "none"
Alone(s) == \A other \in Session \ {s} : ~Busy(other)
At(s, step) == Busy(s) /\ session[s].step = step

\* The handler ends: it returned, or raised and its session was rolled back.
End(s) == session' = [session EXCEPT ![s] = Idle]

SessionState ==
    {Idle} \cup
    [op : {"create", "approve", "decide", "upsert"},
     step : {"balance", "insert", "check", "commit"},
     id : RequestId \cup {"none"},
     request : RequestRow \cup {NoRequest},
     key : BalanceKey,
     quota : Nat,
     base : BalanceRow \cup {NoRow},   \* the balance row as loaded
     isNew : BOOLEAN,                  \* it was not there: to be inserted
     row : BalanceRow \cup {NoRow},    \* the balance row as changed in memory
     alone : BOOLEAN]                  \* history: no other handler ran since

SessionTypeOK == TypeOK /\ session \in [Session -> SessionState]

-----------------------------------------------------------------------------
SessionInit == Init /\ session = [s \in Session |-> Idle]

\* Session s starts a handler that has read `state'.
Begin(s, state) ==
    /\ ~Busy(s)
    /\ session' = [x \in Session |->
          IF x = s THEN state
          ELSE IF Busy(x) THEN [session[x] EXCEPT !.alone = FALSE]
          ELSE Idle]
    /\ UNCHANGED vars

Start(s, op, step, id, request, key, quota) ==
    Begin(s, [op |-> op, step |-> step, id |-> id, request |-> request, key |-> key,
              quota |-> quota, base |-> NoRow, isNew |-> FALSE, row |-> NoRow,
              alone |-> Alone(s)])

\* create_leave_request up to the balance: the type, the overlap, the holidays.
StartCreate(s, r, m, t, start, end, days) ==
    LET row == [member |-> m, type |-> t, start |-> start, end |-> end,
                days |-> Chargeable(start, end, days), status |-> "PENDING"]
    IN  /\ r \notin DOMAIN requests
        /\ \A other \in Session : Busy(other) => session[other].id # r
        /\ start <= end
        /\ t \in DOMAIN leaveTypes
        /\ ~HasOverlap(requests, m, start, end)
        /\ Start(s, "create", IF leaveTypes[t].isPaid THEN "balance" ELSE "commit",
                 r, row, KeyOf(row), leaveTypes[t].quota)

\* Mutant: a request that was already decided can be approved.
StartApproveAny(s, r) ==
    /\ r \in DOMAIN requests
    /\ requests[r].type \in DOMAIN leaveTypes
    /\ Start(s, "approve", "balance", r, requests[r], KeyOf(requests[r]),
             leaveTypes[requests[r].type].quota)

\* approve_leave_request: the request, still pending, and its type.
StartApprove(s, r) ==
    /\ r \in DOMAIN requests
    /\ requests[r].status = "PENDING"
    /\ requests[r].type \in DOMAIN leaveTypes
    /\ Start(s, "approve", "balance", r, requests[r], KeyOf(requests[r]),
             leaveTypes[requests[r].type].quota)

\* reject_leave_request and cancel_leave_request: the request, still pending.
StartDecide(s, r, status) ==
    /\ r \in DOMAIN requests
    /\ requests[r].status = "PENDING"
    /\ Start(s, "decide", "commit", r, [requests[r] EXCEPT !.status = status],
             KeyOf(requests[r]), 0)

StartReject(s, r) == StartDecide(s, r, "REJECTED")
StartCancel(s, r, actor, canCancelAny) ==
    /\ canCancelAny \/ requests[r].member = actor
    /\ StartDecide(s, r, "CANCELLED")

\* upsert_leave_balance: the type and the row, if there is one.  What the
\* administrator entered is held in `row'; the row is inserted at the commit.
StartUpsert(s, k, in) ==
    /\ k[2] \in DOMAIN leaveTypes
    /\ Begin(s, [op |-> "upsert", step |-> "check", id |-> "none",
                 request |-> NoRequest, key |-> k, quota |-> 0,
                 base |-> IF k \in DOMAIN balances THEN balances[k] ELSE NoRow,
                 isNew |-> k \notin DOMAIN balances,
                 row |-> Charged(in, 0), alone |-> Alone(s)])

-----------------------------------------------------------------------------
(* _get_or_create_leave_balance, then the check of create_leave_request. *)

\* Mutant: a session about to insert the key already keeps others out.
HeldByWaiting(s, k) ==
    \E other \in Session \ {s} :
        At(other, "insert") /\ session[other].key = k

\* Another session has flushed an INSERT of key k it has not committed.
HeldByOther(s, k) ==
    \E other \in Session \ {s} :
        /\ At(other, "check") \/ At(other, "commit")
        /\ session[other].op \in {"create", "approve"}
        /\ session[other].isNew
        /\ session[other].key = k

\* With its balance in memory a request of a paid type is checked at once; an
\* approval goes on to sum the approved days.
WithBalance(s, row, isNew) ==
    LET me == session[s]
    IN  IF me.op = "approve"
        THEN session' = [session EXCEPT ![s] =
                [me EXCEPT !.step = "check", !.base = row, !.row = row,
                           !.isNew = isNew]]
        ELSE IF Entitlement(row) - row.used - me.request.days >= 0
        THEN session' = [session EXCEPT ![s] =
                [me EXCEPT !.step = "commit", !.base = row, !.row = row,
                           !.isNew = isNew]]
        ELSE End(s)

\* The SELECT of the balance row; without one, the sum a new row starts from.
ReadBalance(s) ==
    LET k == session[s].key
    IN  /\ At(s, "balance")
        /\ IF k \in DOMAIN balances
           THEN WithBalance(s, balances[k], FALSE)
           ELSE session' = [session EXCEPT ![s] = [@ EXCEPT !.step = "insert",
                   !.row = Charged([allocated |-> session[s].quota,
                                    carriedForward |-> 0, lapsed |-> 0],
                                   ApprovedDays(requests, k))]]
        /\ UNCHANGED vars

\* The flushed INSERT: it waits for a session that inserted the key first, and
\* fails once that session has committed.
InsertBalance(s) ==
    LET k == session[s].key
    IN  /\ At(s, "insert")
        /\ ~HeldByOther(s, k)
        /\ IF k \in DOMAIN balances THEN End(s)
                                    ELSE WithBalance(s, session[s].row, TRUE)
        /\ UNCHANGED vars

\* Mutant: the sum loses the sign of the request's days.
SumWithRefund(s) ==
    LET me  == session[s]
        new == Charged(me.row, ApprovedDays(requests, me.key)
                 - (IF me.op = "approve" THEN me.request.days ELSE 0))
    IN  /\ At(s, "check")
        /\ session' = [session EXCEPT ![s] = [@ EXCEPT !.step = "commit", !.row = new]]
        /\ UNCHANGED vars

\* Mutant: what is used is counted up instead of summed again.
CountUp(s) ==
    LET me  == session[s]
        new == Charged(me.row, me.row.used +
                 (IF me.op = "approve" THEN me.request.days ELSE 0))
    IN  /\ At(s, "check")
        /\ IF new.remaining >= 0
           THEN session' = [session EXCEPT ![s] = [@ EXCEPT !.step = "commit", !.row = new]]
           ELSE End(s)
        /\ UNCHANGED vars

\* The sum of the approved days, and the check that the balance covers them.
SumAndCheck(s) ==
    LET me  == session[s]
        sum == ApprovedDays(requests, me.key)
        new == Charged(me.row, IF me.op = "approve" THEN sum + me.request.days
                                                    ELSE sum)
    IN  /\ At(s, "check")
        /\ IF new.remaining >= 0
           THEN session' = [session EXCEPT ![s] = [@ EXCEPT !.step = "commit", !.row = new]]
           ELSE End(s)
        /\ UNCHANGED vars

-----------------------------------------------------------------------------
(* Commits. *)

\* Mutant: the UPDATE writes every column of the loaded row back.
WriteBackRow(current, base, new) == new

\* The row after an UPDATE of the columns changed in memory.
WriteChanged(current, base, new) ==
    [c \in DOMAIN current |-> IF new[c] # base[c] THEN new[c] ELSE current[c]]

\* What a session's commit makes of the balances.
CommittedBalances(s) ==
    LET me == session[s]
    IN  IF me.row = NoRow THEN balances
        ELSE IF me.isNew THEN Put(balances, me.key, me.row)
        ELSE [balances EXCEPT ![me.key] = WriteChanged(@, me.base, me.row)]

CommitCreate(s) ==
    /\ At(s, "commit") /\ session[s].op = "create"
    /\ requests' = Put(requests, session[s].id, session[s].request)
    /\ balances' = CommittedBalances(s)
    /\ End(s)
    /\ UNCHANGED <<leaveTypes, holidays>>

CommitApprove(s) ==
    /\ At(s, "commit") /\ session[s].op = "approve"
    /\ requests' = [requests EXCEPT ![session[s].id].status = "APPROVED"]
    /\ balances' = CommittedBalances(s)
    /\ End(s)
    /\ UNCHANGED <<leaveTypes, holidays>>

CommitDecide(s) ==
    /\ At(s, "commit") /\ session[s].op = "decide"
    /\ requests' = [requests EXCEPT ![session[s].id].status = session[s].request.status]
    /\ End(s)
    /\ UNCHANGED <<leaveTypes, holidays, balances>>

\* The INSERT of a new row comes with the commit here, and can wait or fail too.
CommitUpsert(s) ==
    LET lost == session[s].isNew /\ session[s].key \in DOMAIN balances
    IN  /\ At(s, "commit") /\ session[s].op = "upsert"
        /\ session[s].isNew => ~HeldByOther(s, session[s].key)
        /\ balances' = IF lost THEN balances ELSE CommittedBalances(s)
        /\ End(s)
        /\ UNCHANGED <<leaveTypes, holidays, requests>>

StartStep(s) ==
    \/ \E r \in RequestId :
         \/ \E m \in Member, t \in LeaveType, start \in Date, end \in Date,
               d \in DayInput : StartCreate(s, r, m, t, start, end, d)
         \/ StartApprove(s, r)
         \/ StartReject(s, r)
         \/ \E m \in Member, any \in BOOLEAN :
               r \in DOMAIN requests /\ StartCancel(s, r, m, any)
    \/ \E k \in BalanceKey, in \in BalanceInput : StartUpsert(s, k, in)

RunStep(s) ==
    \/ ReadBalance(s) \/ InsertBalance(s) \/ SumAndCheck(s)
    \/ CommitCreate(s) \/ CommitApprove(s) \/ CommitDecide(s) \/ CommitUpsert(s)

\* A session that is free changes a leave type or a holiday, in one write.
SetupStep ==
    /\ \E s \in Session : ~Busy(s)
    /\ \/ \E t \in LeaveType, q \in Quota, p \in BOOLEAN :
             CreateLeaveType(t, q, p) \/ UpdateLeaveType(t, q, p)
       \/ \E h \in HolidayId, d \in Date : CreateHoliday(h, d) \/ UpdateHoliday(h, d)
       \/ \E h \in HolidayId : DeleteHoliday(h)
    /\ UNCHANGED session

SessionNext == SetupStep \/ \E s \in Session : StartStep(s) \/ RunStep(s)

\* A handler that has started is run to its end: the event loop schedules every
\* coroutine whose database call has returned.
SessionSpec ==
    /\ SessionInit
    /\ [][SessionNext]_sessionVars
    /\ \A s \in Session : WF_sessionVars(RunStep(s))

-----------------------------------------------------------------------------
(* What survives the interleaving of sessions. *)

\* Every handler that starts ends: waiting for another session's uncommitted
\* balance row never becomes waiting for each other (service.py:473).
HandlersEnd == \A s \in Session : Busy(s) ~> ~Busy(s)

\* An assignment is never undone by a request or an approval that loaded the
\* row before it: only upsert_leave_balance changes what a balance grants.
AssignmentsSurvive ==
    [][\A k \in DOMAIN balances :
          Entitlement(balances'[k]) # Entitlement(balances[k]) =>
             \E s \in Session : At(s, "commit") /\ session[s].op = "upsert"
                                /\ session[s].key = k /\ ~Busy(s)']_sessionVars

\* Drift does not accumulate: an approval during which no other handler ran
\* leaves `used' equal to the approved days, whatever an earlier race left in
\* the row, because it sums the requests again (service.py:627).
LonelyApprovalHeals ==
    [][\A s \in Session :
          (Busy(s) /\ session[s].alone /\ CommitApprove(s)) =>
             LET k == session[s].key
             IN  balances'[k].used = ApprovedDays(requests', k)]_sessionVars
=============================================================================
