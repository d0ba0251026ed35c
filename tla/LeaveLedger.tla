---------------------------- MODULE LeaveLedger ----------------------------
(***************************************************************************)
(* The leave service (app/modules/leave/service.py) of one organization,   *)
(* every handler one transaction: leave types, holidays, leave requests    *)
(* and the balance rows they draw from.                                    *)
(*                                                                         *)
(* Days are counted in half days, the smallest amount the service is used  *)
(* with: one working day is two units.  A table is a partial function from *)
(* the keys of its rows to the columns the handlers read or write; a row   *)
(* that is soft-deleted leaves the function.  A handler that raises an     *)
(* HTTPException is rolled back, so it is no step of this module.          *)
(*                                                                         *)
(* The module is used alone, as the abstract specification LeaveSessions   *)
(* implements, and by Attendance, whose clock-in writes the same tables.   *)
(***************************************************************************)
EXTENDS Integers, FiniteSets, FiniteSetsExt

CONSTANTS
    Member,         \* members of the organization
    LeaveType,      \* leave types, each standing for its (case-folded) name
    RequestId,      \* primary keys of leave requests
    HolidayId,      \* primary keys of holidays
    Date,           \* calendar dates, as day numbers
    Weekend,        \* the dates that are a Saturday or a Sunday
    Year,           \* calendar years
    YearOf,         \* the year of each date
    MaxUnits,       \* bound on the length of a request, in half days
    Quota,          \* quotas an administrator enters
    DayInput,       \* lengths a member asks for
    BalanceInput    \* the allocations an administrator enters

DayUnits == 2       \* half days in a working day

(***************************************************************************)
(* The request schemas bound quota, days and the columns of a balance      *)
(* below by zero (app/modules/leave/schema.py).                            *)
(***************************************************************************)
ASSUME LedgerConstants ==
    /\ Date \subseteq Int
    /\ Weekend \subseteq Date
    /\ YearOf \in [Date -> Year]
    /\ MaxUnits \in Nat
    /\ Quota \subseteq Nat
    /\ DayInput \subseteq 0..MaxUnits
    /\ BalanceInput \subseteq
          [allocated : Nat, carriedForward : Nat, lapsed : Nat]

\* Years are those of Python's dates, from 1 to 9999.
ASSUME YearsAreFinite == IsFiniteSet(Year)

VARIABLES
    leaveTypes,     \* leave types and what they grant
    holidays,       \* dates of the holidays in force
    requests,       \* leave requests
    balances        \* balance of a member for a type in a year

vars == <<leaveTypes, holidays, requests, balances>>

RequestStatus == {"PENDING", "APPROVED", "REJECTED", "CANCELLED"}
LiveStatus == {"PENDING", "APPROVED"}

LeaveTypeRow == [quota : Nat, isPaid : BOOLEAN]
RequestRow == [member : Member, type : LeaveType, start : Date, end : Date,
               days : 0..MaxUnits, status : RequestStatus]
BalanceRow == [allocated : Nat, used : Nat, remaining : Int,
               carriedForward : Nat, lapsed : Nat]
BalanceKey == Member \X LeaveType \X Year

\* The table f after the row of key k is inserted or overwritten.
Put(f, k, row) == [x \in DOMAIN f \cup {k} |-> IF x = k THEN row ELSE f[x]]

TypeOK ==
    /\ DOMAIN leaveTypes \subseteq LeaveType
    /\ \A t \in DOMAIN leaveTypes : leaveTypes[t] \in LeaveTypeRow
    /\ DOMAIN holidays \subseteq HolidayId
    /\ \A h \in DOMAIN holidays : holidays[h] \in Date
    /\ DOMAIN requests \subseteq RequestId
    /\ IsFiniteSet(DOMAIN requests)
    /\ \A r \in DOMAIN requests : requests[r] \in RequestRow
    /\ DOMAIN balances \subseteq BalanceKey
    /\ \A k \in DOMAIN balances : balances[k] \in BalanceRow

-----------------------------------------------------------------------------
(* What the handlers compute from the tables. *)

\* The key of the balance a request is charged to: always its first day's year.
KeyOf(row) == <<row.member, row.type, YearOf[row.start]>>

\* The approved requests of reqs charged to the balance k.
ApprovedOn(reqs, k) ==
    {r \in DOMAIN reqs : reqs[r].status = "APPROVED" /\ KeyOf(reqs[r]) = k}

\* SUM(days) of the approved requests charged to k: one element per half day.
ChargedUnits(reqs, k) ==
    {u \in ApprovedOn(reqs, k) \X (1..MaxUnits) : u[2] <= reqs[u[1]].days}
ApprovedDays(reqs, k) == Cardinality(ChargedUnits(reqs, k))

Overlap(row, start, end) == row.start <= end /\ row.end >= start

\* Mutant: only what is already approved blocks a new request.
HasOverlapApprovedOnly(reqs, m, start, end) ==
    \E r \in DOMAIN reqs : /\ reqs[r].member = m
                           /\ reqs[r].status = "APPROVED"
                           /\ Overlap(reqs[r], start, end)

HasOverlap(reqs, m, start, end) ==
    \E r \in DOMAIN reqs : /\ reqs[r].member = m
                           /\ reqs[r].status \in LiveStatus
                           /\ Overlap(reqs[r], start, end)

WorkingDays(start, end) ==
    LET holidayDates == {holidays[h] : h \in DOMAIN holidays}
    IN  {d \in Date : start <= d /\ d <= end} \ (Weekend \cup holidayDates)

\* min(days, working days of the period), in half days.
Chargeable(start, end, days) ==
    LET limit == DayUnits * Cardinality(WorkingDays(start, end))
    IN  IF days <= limit THEN days ELSE limit

Entitlement(b) == b.allocated + b.carriedForward - b.lapsed

\* The balance b once `used' half days are charged to it.
Charged(b, used) ==
    [allocated |-> b.allocated, carriedForward |-> b.carriedForward,
     lapsed |-> b.lapsed, used |-> used, remaining |-> Entitlement(b) - used]

\* The balance row of k, or the row the service inserts when there is none.
BalanceOrNew(k) ==
    IF k \in DOMAIN balances
    THEN balances[k]
    ELSE Charged([allocated |-> leaveTypes[k[2]].quota, carriedForward |-> 0,
                  lapsed |-> 0], ApprovedDays(requests, k))

-----------------------------------------------------------------------------
Init ==
    /\ leaveTypes = [t \in {} |-> {}]
    /\ holidays = [h \in {} |-> {}]
    /\ requests = [r \in {} |-> {}]
    /\ balances = [k \in {} |-> {}]

\* Creating a type whose name is taken overwrites, and revives, that row.
CreateLeaveType(t, quota, isPaid) ==
    /\ leaveTypes' = Put(leaveTypes, t, [quota |-> quota, isPaid |-> isPaid])
    /\ UNCHANGED <<holidays, requests, balances>>

UpdateLeaveType(t, quota, isPaid) ==
    /\ t \in DOMAIN leaveTypes
    /\ leaveTypes' = [leaveTypes EXCEPT ![t] = [quota |-> quota, isPaid |-> isPaid]]
    /\ UNCHANGED <<holidays, requests, balances>>

CreateHoliday(h, d) ==
    /\ h \notin DOMAIN holidays
    /\ holidays' = Put(holidays, h, d)
    /\ UNCHANGED <<leaveTypes, requests, balances>>

UpdateHoliday(h, d) ==
    /\ h \in DOMAIN holidays
    /\ holidays' = [holidays EXCEPT ![h] = d]
    /\ UNCHANGED <<leaveTypes, requests, balances>>

DeleteHoliday(h) ==
    /\ h \in DOMAIN holidays
    /\ holidays' = [x \in DOMAIN holidays \ {h} |-> holidays[x]]
    /\ UNCHANGED <<leaveTypes, requests, balances>>

\* A member asks for leave for themselves.  Only a paid type is checked against
\* a balance, and the check alone creates a missing balance row.
CreateLeaveRequest(r, m, t, start, end, days) ==
    LET k      == <<m, t, YearOf[start]>>
        charge == Chargeable(start, end, days)
        row    == BalanceOrNew(k)
    IN  /\ r \notin DOMAIN requests
        /\ start <= end
        /\ t \in DOMAIN leaveTypes
        /\ ~HasOverlap(requests, m, start, end)
        /\ leaveTypes[t].isPaid => Entitlement(row) - row.used - charge >= 0
        /\ balances' = IF leaveTypes[t].isPaid THEN Put(balances, k, row)
                                               ELSE balances
        /\ requests' = Put(requests, r,
              [member |-> m, type |-> t, start |-> start, end |-> end,
               days |-> charge, status |-> "PENDING"])
        /\ UNCHANGED <<leaveTypes, holidays>>

\* Mutant: the sign of the charge is lost.
ApproveWithRefund(r) ==
    LET k    == KeyOf(requests[r])
        used == ApprovedDays(requests, k) - requests[r].days
    IN  /\ r \in DOMAIN requests
        /\ requests[r].status = "PENDING"
        /\ balances' = Put(balances, k, Charged(BalanceOrNew(k), used))
        /\ requests' = [requests EXCEPT ![r].status = "APPROVED"]
        /\ UNCHANGED <<leaveTypes, holidays>>

\* Approval recomputes what is used from the approved requests; it checks the
\* balance of every type, paid or not.
ApproveLeaveRequest(r) ==
    LET k   == KeyOf(requests[r])
        row == Charged(BalanceOrNew(k),
                       ApprovedDays(requests, k) + requests[r].days)
    IN  /\ r \in DOMAIN requests
        /\ requests[r].status = "PENDING"
        /\ requests[r].type \in DOMAIN leaveTypes
        /\ row.remaining >= 0
        /\ balances' = Put(balances, k, row)
        /\ requests' = [requests EXCEPT ![r].status = "APPROVED"]
        /\ UNCHANGED <<leaveTypes, holidays>>

RejectLeaveRequest(r) ==
    /\ r \in DOMAIN requests
    /\ requests[r].status = "PENDING"
    /\ requests' = [requests EXCEPT ![r].status = "REJECTED"]
    /\ UNCHANGED <<leaveTypes, holidays, balances>>

\* Mutant: an approved request can be cancelled too, without a refund.
CancelEvenApproved(r, actor, canCancelAny) ==
    /\ r \in DOMAIN requests
    /\ requests[r].status \in LiveStatus
    /\ canCancelAny \/ requests[r].member = actor
    /\ requests' = [requests EXCEPT ![r].status = "CANCELLED"]
    /\ UNCHANGED <<leaveTypes, holidays, balances>>

CancelLeaveRequest(r, actor, canCancelAny) ==
    /\ r \in DOMAIN requests
    /\ requests[r].status = "PENDING"
    /\ canCancelAny \/ requests[r].member = actor
    /\ requests' = [requests EXCEPT ![r].status = "CANCELLED"]
    /\ UNCHANGED <<leaveTypes, holidays, balances>>

\* Mutant: the new assignment is not held against what is already used.
UpsertUnchecked(k, in) ==
    /\ k[2] \in DOMAIN leaveTypes
    /\ balances' = Put(balances, k, Charged(in, ApprovedDays(requests, k)))
    /\ UNCHANGED <<leaveTypes, holidays, requests>>

\* An administrator assigns a balance; what is used is recomputed.
UpsertLeaveBalance(k, in) ==
    LET row == Charged(in, ApprovedDays(requests, k))
    IN  /\ k[2] \in DOMAIN leaveTypes
        /\ row.remaining >= 0
        /\ balances' = Put(balances, k, row)
        /\ UNCHANGED <<leaveTypes, holidays, requests>>

AdminStep ==
    \/ \E t \in LeaveType, q \in Quota, p \in BOOLEAN :
          CreateLeaveType(t, q, p) \/ UpdateLeaveType(t, q, p)
    \/ \E h \in HolidayId, d \in Date : CreateHoliday(h, d) \/ UpdateHoliday(h, d)
    \/ \E h \in HolidayId : DeleteHoliday(h)
    \/ \E k \in BalanceKey, in \in BalanceInput : UpsertLeaveBalance(k, in)

RequestStep ==
    \E r \in RequestId :
      \/ \E m \in Member, t \in LeaveType, start \in Date, end \in Date, d \in DayInput :
            CreateLeaveRequest(r, m, t, start, end, d)
      \/ ApproveLeaveRequest(r)
      \/ RejectLeaveRequest(r)
      \/ \E m \in Member, any \in BOOLEAN : CancelLeaveRequest(r, m, any)

Next == AdminStep \/ RequestStep

Spec == Init /\ [][Next]_vars

-----------------------------------------------------------------------------
(* Correctness. *)

\* A member never holds two pending or approved requests that share a day: what
\* _ensure_no_overlapping_request is for (service.py:451).
NoDoubleBooking ==
    \A r1, r2 \in DOMAIN requests :
        /\ r1 # r2
        /\ requests[r1].member = requests[r2].member
        /\ requests[r1].status \in LiveStatus
        /\ requests[r2].status \in LiveStatus
        => ~Overlap(requests[r1], requests[r2].start, requests[r2].end)

\* Every stored balance agrees with the approved requests it is charged with,
\* and its remaining column with its other columns, whichever handler wrote it
\* last (service.py:473, 607 and 849).
LedgerAgrees ==
    \A k \in DOMAIN balances :
        LET b == balances[k]
        IN  /\ b.used = ApprovedDays(requests, k)
            /\ b.remaining = Entitlement(b) - b.used

\* Approved leave is backed by a balance that covers it: no sequence of
\* approvals, reassignments and changes of quota overdraws a balance.
NeverOverdrawn ==
    \A r \in DOMAIN requests :
        requests[r].status = "APPROVED" =>
            LET k == KeyOf(requests[r])
            IN  /\ k \in DOMAIN balances
                /\ ApprovedDays(requests, k) <= Entitlement(balances[k])

\* A decision is final and what was asked for is never rewritten: a request
\* leaves PENDING once, and keeps its owner, its type, its days and its charge.
DecisionsAreFinal ==
    [][\A r \in DOMAIN requests :
          /\ r \in DOMAIN requests'
          /\ requests'[r] = [requests[r] EXCEPT !.status = requests'[r].status]
          /\ requests[r].status # "PENDING" =>
                requests'[r].status = requests[r].status]_vars

-----------------------------------------------------------------------------
(***************************************************************************)
(* What the leave service lists (app/modules/leave/service.py): requests,  *)
(* balances, the calendar and the summary, as functions of its tables.     *)
(* Each sums or filters for itself; balances are shown of members and      *)
(* types that never had a row.                                             *)
(*                                                                         *)
(* Pages, searches by name and the departments a reader may be confined to *)
(* are left out; scope is the member a reader sees alone, or Everybody.    *)
(***************************************************************************)

Everybody == Member

Whichever == "any"

\* _apply_leave_request_filters: what overlaps the period, by its first day's year.
Matching(rs, status, type, from, to, year) ==
    {r \in rs :
        /\ status \in {Whichever, requests[r].status} /\ type \in {Whichever, requests[r].type}
        /\ requests[r].end >= from /\ requests[r].start <= to
        /\ year \in {Whichever, YearOf[requests[r].start]}}

RequestsOf(scope) == {r \in DOMAIN requests : requests[r].member \in scope}

ListLeaveRequests(scope, status, type, from, to, year) ==
    Matching(RequestsOf(scope), status, type, from, to, year)

\* get_leave_request_detail: one's own, or all.
MayOpen(m, all, r) == r \in DOMAIN requests /\ (all \/ requests[r].member = m)

ListLeaveTypes == DOMAIN leaveTypes

\* The line of balance k: with the columns of its row, or the quota of the type
\* where there is none; what is used is summed up anew.
BalanceLine(k) ==
    LET used == ApprovedDays(requests, k)
        stored == k \in DOMAIN balances
        quota == leaveTypes[k[2]].quota
    IN  [key |-> k, virtual |-> ~stored, used |-> used,
         allocated |-> IF stored THEN balances[k].allocated ELSE quota,
         remaining |-> (IF stored THEN Entitlement(balances[k]) ELSE quota) - used]

\* Members who are not active are left out unless asked for.
ListLeaveBalances(scope, year) ==
    {BalanceLine(<<m, t, year>>) : m \in scope, t \in ListLeaveTypes}

\* Holidays and requests of any status that touch the period.
Calendar(scope, from, to) ==
    [holidays |-> {h \in DOMAIN holidays : holidays[h] \in from..to},
     leaves |-> {r \in RequestsOf(scope) : Overlap(requests[r], from, to)}]

\* get_leave_summary: all the approved leave of a member, of every year.
Approved(m) == {r \in RequestsOf({m}) : requests[r].status = "APPROVED"}

Summary(m) ==
    [items |-> Approved(m),
     totalDays |-> Cardinality({u \in Approved(m) \X (1..MaxUnits) : u[2] <= requests[u[1]].days})]

-----------------------------------------------------------------------------
\* Whatever was asked, decided and reassigned, the pages tell one story: no line
\* of the balances shows approved leave that exceeds it, a line with a row shows
\* what the row holds, the totals of the summary are those of the lines of all
\* years, the calendar of a day is what a list of that day returns, and on no
\* day does the calendar show a member twice among leave that is not refused.
PagesTellTheLedger ==
    \A m \in Member :
      LET lines == UNION {ListLeaveBalances({m}, y) : y \in Year}
      IN  /\ \A line \in lines :
               /\ line.used > 0 => line.remaining >= 0
               /\ ~line.virtual => line.used = balances[line.key].used
                                   /\ line.remaining = balances[line.key].remaining
          /\ Summary(m).totalDays = MapThenSumSet(LAMBDA line : line.used, lines)
          /\ \A d \in Date :
               LET shown == Calendar({m}, d, d).leaves
               IN  /\ shown = ListLeaveRequests({m}, Whichever, Whichever, d, d, Whichever)
                   /\ Cardinality({r \in shown : requests[r].status \in LiveStatus}) <= 1
=============================================================================
