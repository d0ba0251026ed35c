------------------------- MODULE LeaveLedgerProofs -------------------------
(***************************************************************************)
(* The invariants of LeaveLedger, for every set of members, leave types,   *)
(* dates and requests.  The sum of the days of the approved requests is    *)
(* the cardinality of their charged half days, so what an approval adds to *)
(* it is a fact about disjoint finite sets.                                *)
(***************************************************************************)
EXTENDS LeaveLedger, FiniteSetTheorems, FiniteLemmas, TLAPS

-----------------------------------------------------------------------------
(* Facts about the tables and the sum of approved days. *)

\* Inserting or overwriting the row of k leaves every other row alone.
LEMMA PutRows ==
    ASSUME NEW f, NEW k, NEW row
    PROVE  /\ DOMAIN Put(f, k, row) = DOMAIN f \cup {k}
           /\ Put(f, k, row)[k] = row
           /\ \A x \in DOMAIN f : x # k => Put(f, k, row)[x] = f[x]
  BY DEF Put

LEMMA PutType ==
    ASSUME NEW Keys, NEW Rows, NEW f, NEW k \in Keys, NEW row \in Rows,
           DOMAIN f \subseteq Keys, \A x \in DOMAIN f : f[x] \in Rows
    PROVE  /\ DOMAIN Put(f, k, row) \subseteq Keys
           /\ \A x \in DOMAIN Put(f, k, row) : Put(f, k, row)[x] \in Rows
  BY DEF Put

\* What it takes for the n-th half day of request x to be charged to k.
LEMMA ChargedPairs ==
    ASSUME NEW reqs, NEW k
    PROVE  /\ \A x, n : <<x, n>> \in ChargedUnits(reqs, k) <=>
                 /\ x \in ApprovedOn(reqs, k)
                 /\ n \in 1..MaxUnits
                 /\ n <= reqs[x].days
           /\ \A u \in ChargedUnits(reqs, k) : u = <<u[1], u[2]>>
  BY DEF ChargedUnits

\* The charged half days of a finite table of requests are finitely many.
LEMMA ChargedUnitsFinite ==
    ASSUME NEW reqs, NEW k, IsFiniteSet(DOMAIN reqs)
    PROVE  /\ IsFiniteSet(ChargedUnits(reqs, k))
           /\ ApprovedDays(reqs, k) \in Nat
  <1>1. IsFiniteSet(1..MaxUnits)
    BY FS_Interval, LedgerConstants
  <1>2. IsFiniteSet((DOMAIN reqs) \X (1..MaxUnits))
    BY <1>1, FS_Product
  <1>3. ChargedUnits(reqs, k) \subseteq (DOMAIN reqs) \X (1..MaxUnits)
    BY DEF ChargedUnits, ApprovedOn
  <1>4. IsFiniteSet(ChargedUnits(reqs, k))
    BY <1>2, <1>3, FS_Subset
  <1> QED
    BY <1>4, FS_CardinalityType DEF ApprovedDays

\* A key without approved requests is charged nothing.
LEMMA NothingCharged ==
    ASSUME NEW reqs, NEW k, ApprovedOn(reqs, k) = {}
    PROVE  ApprovedDays(reqs, k) = 0
  BY FS_EmptySet DEF ApprovedDays, ChargedUnits

\* The sum depends on nothing but the approved requests and their days.
LEMMA SameApprovedSameDays ==
    ASSUME NEW reqs, NEW new, NEW k,
           ApprovedOn(new, k) = ApprovedOn(reqs, k),
           \A r \in ApprovedOn(reqs, k) : new[r].days = reqs[r].days
    PROVE  ApprovedDays(new, k) = ApprovedDays(reqs, k)
  <1>1. ChargedUnits(new, k) = ChargedUnits(reqs, k)
    BY DEF ChargedUnits
  <1> QED
    BY <1>1 DEF ApprovedDays

\* A request of d half days has d pairs (request, n-th half day).
LEMMA PairsOfOne ==
    ASSUME NEW r, NEW d \in Nat
    PROVE  IsFiniteSet({r} \X (1..d)) /\ Cardinality({r} \X (1..d)) = d
  <1>1. IsFiniteSet({r}) /\ Cardinality({r}) = 1
    BY FS_Singleton
  <1>2. IsFiniteSet(1..d) /\ Cardinality(1..d) = d
    BY FS_Interval
  <1>3. ASSUME NEW S, NEW T, IsFiniteSet(S), IsFiniteSet(T)
        PROVE  /\ IsFiniteSet(S \X T)
               /\ Cardinality(S \X T) = Cardinality(S) * Cardinality(T)
    BY <1>3, FS_Product
  <1>4. IsFiniteSet({r} \X (1..d))
    BY <1>1, <1>2, <1>3, Zenon
  <1>5. Cardinality({r} \X (1..d)) = Cardinality({r}) * Cardinality(1..d)
    BY <1>1, <1>2, <1>3, Zenon
  <1>6. Cardinality({r} \X (1..d)) = 1 * d
    BY <1>1, <1>2, <1>5, Zenon
  <1> QED
    BY <1>4, <1>6

\* Approving r adds its days to its own balance and to no other.
LEMMA ApprovalCharges ==
    ASSUME NEW reqs, NEW new, NEW k, NEW r \in DOMAIN reqs,
           IsFiniteSet(DOMAIN reqs),
           reqs[r].days \in 0..MaxUnits,
           reqs[r].status # "APPROVED",
           DOMAIN new = DOMAIN reqs,
           \A x \in DOMAIN reqs : x # r => new[x] = reqs[x],
           new[r].status = "APPROVED",
           new[r].days = reqs[r].days,
           KeyOf(new[r]) = KeyOf(reqs[r])
    PROVE  ApprovedDays(new, k) =
             IF k = KeyOf(reqs[r]) THEN ApprovedDays(reqs, k) + reqs[r].days
                                   ELSE ApprovedDays(reqs, k)
  <1> DEFINE d   == reqs[r].days
             add == {r} \X (1..d)
  <1>1. d \in 0..MaxUnits /\ d \in Nat /\ 1..d \subseteq 1..MaxUnits
    BY LedgerConstants
  <1>4. CASE k # KeyOf(reqs[r])
    <2>1. ApprovedOn(new, k) = ApprovedOn(reqs, k)
      BY <1>4 DEF ApprovedOn
    <2>2. \A x \in ApprovedOn(reqs, k) : new[x].days = reqs[x].days
      BY DEF ApprovedOn
    <2> QED
      BY <1>4, <2>1, <2>2, SameApprovedSameDays
  <1>5. CASE k = KeyOf(reqs[r])
    <2>1. ApprovedOn(new, k) = ApprovedOn(reqs, k) \cup {r}
      BY <1>5 DEF ApprovedOn
    <2>2. r \notin ApprovedOn(reqs, k)
      BY DEF ApprovedOn
    <2>3. \A x \in ApprovedOn(reqs, k) : new[x].days = reqs[x].days
      BY DEF ApprovedOn
    <2>4. ChargedUnits(new, k) = ChargedUnits(reqs, k) \cup add
      <3>1. ASSUME NEW x, NEW n, x # r
            PROVE  <<x, n>> \in ChargedUnits(new, k) <=>
                      <<x, n>> \in ChargedUnits(reqs, k)
        BY <2>1, <2>3, <3>1, ChargedPairs
      <3>2. ASSUME NEW n
            PROVE  <<r, n>> \in ChargedUnits(new, k) <=> n \in 1..d
        BY <1>1, <2>1, ChargedPairs, LedgerConstants
      <3>3. ASSUME NEW n
            PROVE  <<r, n>> \notin ChargedUnits(reqs, k)
        BY <2>2, ChargedPairs
      <3>4. \A u : u \in add <=> u = <<u[1], u[2]>> /\ u[1] = r /\ u[2] \in 1..d
        OBVIOUS
      <3>5. \A u \in ChargedUnits(new, k) \cup ChargedUnits(reqs, k) :
               u = <<u[1], u[2]>>
        BY ChargedPairs
      <3> QED
        BY <3>1, <3>2, <3>3, <3>4, <3>5
    <2>5. ChargedUnits(reqs, k) \cap add = {}
      BY <2>2, ChargedPairs
    <2>6. IsFiniteSet(add) /\ Cardinality(add) = d
      BY <1>1, PairsOfOne
    <2>7. IsFiniteSet(ChargedUnits(reqs, k)) /\ ApprovedDays(reqs, k) \in Nat
      BY ChargedUnitsFinite
    <2>8. Cardinality(ChargedUnits(new, k)) =
             Cardinality(ChargedUnits(reqs, k)) + Cardinality(add) - Cardinality({})
      BY <2>4, <2>5, <2>6, <2>7, FS_Union
    <2> QED
      BY <1>1, <1>5, <2>6, <2>7, <2>8, FS_EmptySet DEF ApprovedDays
  <1> QED
    BY <1>4, <1>5

-----------------------------------------------------------------------------
(* The tables keep their types. *)

\* What is charged never exceeds what was asked for.
LEMMA ChargeableType ==
    ASSUME NEW start \in Date, NEW end \in Date, NEW days \in DayInput
    PROVE  Chargeable(start, end, days) \in 0..MaxUnits
  <1>1. /\ Date \subseteq Int /\ start \in Int /\ end \in Int
        /\ MaxUnits \in Nat /\ days \in 0..MaxUnits
    BY LedgerConstants
  <1>2. IsFiniteSet(start..end)
    BY <1>1, FS_Interval
  <1>3. \A d \in WorkingDays(start, end) : d \in Date /\ start <= d /\ d <= end
    BY Zenon DEF WorkingDays
  <1>4. WorkingDays(start, end) \subseteq start..end
    <2> SUFFICES ASSUME NEW d \in WorkingDays(start, end)
                 PROVE  d \in start..end
      OBVIOUS
    <2>1. d \in Int /\ start <= d /\ d <= end
      BY <1>1, <1>3
    <2> QED
      BY <1>1, <2>1
  <1>5. Cardinality(WorkingDays(start, end)) \in Nat
    BY <1>2, <1>4, FS_Subset, FS_CardinalityType
  <1> QED
    BY <1>1, <1>5 DEF Chargeable, DayUnits

\* Charging a balance keeps its entitlement and its type.
LEMMA ChargedRow ==
    ASSUME NEW b, NEW u \in Nat,
           b.allocated \in Nat, b.carriedForward \in Nat, b.lapsed \in Nat
    PROVE  /\ Charged(b, u) \in BalanceRow
           /\ Charged(b, u).used = u
           /\ Charged(b, u).remaining = Entitlement(b) - u
           /\ Entitlement(Charged(b, u)) = Entitlement(b)
           /\ Entitlement(b) \in Int
  BY DEF Charged, Entitlement, BalanceRow

\* The balance row a handler works on is well typed.
LEMMA BalanceOrNewType ==
    ASSUME TypeOK, NEW k \in BalanceKey, k[2] \in DOMAIN leaveTypes
    PROVE  BalanceOrNew(k) \in BalanceRow
  <1>1. ApprovedDays(requests, k) \in Nat
    BY ChargedUnitsFinite DEF TypeOK
  <1>2. leaveTypes[k[2]].quota \in Nat
    BY DEF TypeOK, LeaveTypeRow
  <1>3. CASE k \in DOMAIN balances
    BY <1>3 DEF BalanceOrNew, TypeOK
  <1>4. CASE k \notin DOMAIN balances
    BY <1>1, <1>2, <1>4, ChargedRow DEF BalanceOrNew
  <1> QED
    BY <1>3, <1>4

LEMMA KeyOfType ==
    ASSUME NEW row \in RequestRow
    PROVE  KeyOf(row) \in BalanceKey /\ KeyOf(row)[2] = row.type
  BY LedgerConstants DEF KeyOf, RequestRow, BalanceKey

LEMMA TypeInit == Init => TypeOK
  BY FS_EmptySet DEF Init, TypeOK

LEMMA TypeNext == TypeOK /\ [Next]_vars => TypeOK'
  <1> SUFFICES ASSUME TypeOK, [Next]_vars
               PROVE  TypeOK'
    OBVIOUS
  <1>1. ASSUME NEW t \in LeaveType, NEW q \in Quota, NEW p \in BOOLEAN,
               CreateLeaveType(t, q, p)
        PROVE  TypeOK'
    <2>1. [quota |-> q, isPaid |-> p] \in LeaveTypeRow
      BY LedgerConstants DEF LeaveTypeRow
    <2>2. leaveTypes' = Put(leaveTypes, t, [quota |-> q, isPaid |-> p])
      BY <1>1 DEF CreateLeaveType
    <2>3. /\ DOMAIN leaveTypes' \subseteq LeaveType
          /\ \A x \in DOMAIN leaveTypes' : leaveTypes'[x] \in LeaveTypeRow
      BY <2>1, <2>2, PutType DEF TypeOK
    <2> QED
      BY <1>1, <2>3 DEF CreateLeaveType, TypeOK
  <1>2. ASSUME NEW t \in LeaveType, NEW q \in Quota, NEW p \in BOOLEAN,
               UpdateLeaveType(t, q, p)
        PROVE  TypeOK'
    <2>1. [quota |-> q, isPaid |-> p] \in LeaveTypeRow
      BY LedgerConstants DEF LeaveTypeRow
    <2> QED
      BY <1>2, <2>1 DEF UpdateLeaveType, TypeOK
  <1>3. ASSUME NEW h \in HolidayId, NEW d \in Date, CreateHoliday(h, d)
        PROVE  TypeOK'
    BY <1>3, PutType DEF CreateHoliday, TypeOK
  <1>4. ASSUME NEW h \in HolidayId, NEW d \in Date, UpdateHoliday(h, d)
        PROVE  TypeOK'
    BY <1>4 DEF UpdateHoliday, TypeOK
  <1>5. ASSUME NEW h \in HolidayId, DeleteHoliday(h)
        PROVE  TypeOK'
    BY <1>5 DEF DeleteHoliday, TypeOK
  <1>6. ASSUME NEW k \in BalanceKey, NEW in \in BalanceInput, UpsertLeaveBalance(k, in)
        PROVE  TypeOK'
    <2>1. ApprovedDays(requests, k) \in Nat
      BY ChargedUnitsFinite DEF TypeOK
    <2>2. in.allocated \in Nat /\ in.carriedForward \in Nat /\ in.lapsed \in Nat
      BY LedgerConstants
    <2>3. Charged(in, ApprovedDays(requests, k)) \in BalanceRow
      BY <2>1, <2>2, ChargedRow
    <2>4. balances' = Put(balances, k, Charged(in, ApprovedDays(requests, k)))
      BY <1>6 DEF UpsertLeaveBalance
    <2>5. /\ DOMAIN balances' \subseteq BalanceKey
          /\ \A x \in DOMAIN balances' : balances'[x] \in BalanceRow
      BY <2>3, <2>4, PutType DEF TypeOK
    <2> QED
      BY <1>6, <2>5 DEF UpsertLeaveBalance, TypeOK
  <1>7. ASSUME NEW r \in RequestId, NEW m \in Member, NEW t \in LeaveType,
               NEW start \in Date, NEW end \in Date, NEW d \in DayInput,
               CreateLeaveRequest(r, m, t, start, end, d)
        PROVE  TypeOK'
    <2> DEFINE k   == <<m, t, YearOf[start]>>
               row == [member |-> m, type |-> t, start |-> start, end |-> end,
                       days |-> Chargeable(start, end, d), status |-> "PENDING"]
    <2>1. row \in RequestRow
      BY ChargeableType DEF RequestRow, RequestStatus
    <2>2. k \in BalanceKey /\ k[2] = t
      BY LedgerConstants DEF BalanceKey
    <2>3. BalanceOrNew(k) \in BalanceRow
      BY <1>7, <2>2, BalanceOrNewType DEF CreateLeaveRequest
    <2>4. requests' = Put(requests, r, row)
      BY <1>7 DEF CreateLeaveRequest
    <2>5. balances' = Put(balances, k, BalanceOrNew(k)) \/ balances' = balances
      BY <1>7 DEF CreateLeaveRequest
    <2>6. UNCHANGED <<leaveTypes, holidays>>
      BY <1>7 DEF CreateLeaveRequest
    <2> HIDE DEF k, row
    <2>7. /\ DOMAIN requests' \subseteq RequestId
          /\ \A x \in DOMAIN requests' : requests'[x] \in RequestRow
      BY <2>1, <2>4, PutType DEF TypeOK
    <2>8. /\ DOMAIN balances' \subseteq BalanceKey
          /\ \A x \in DOMAIN balances' : balances'[x] \in BalanceRow
      BY <2>2, <2>3, <2>5, PutType DEF TypeOK
    <2>9. IsFiniteSet(DOMAIN requests')
      <3>1. DOMAIN requests' = DOMAIN requests \cup {r}
        BY <2>4, PutRows
      <3> QED
        BY <3>1, FS_AddElement DEF TypeOK
    <2> QED
      BY <2>6, <2>7, <2>8, <2>9 DEF TypeOK
  <1>8. ASSUME NEW r \in RequestId, ApproveLeaveRequest(r)
        PROVE  TypeOK'
    <2> DEFINE k    == KeyOf(requests[r])
               row  == BalanceOrNew(k)
               used == ApprovedDays(requests, k) + requests[r].days
    <2>1. requests[r] \in RequestRow /\ r \in DOMAIN requests
      BY <1>8 DEF ApproveLeaveRequest, TypeOK
    <2>2. k \in BalanceKey /\ row \in BalanceRow
      BY <1>8, <2>1, KeyOfType, BalanceOrNewType DEF ApproveLeaveRequest
    <2>3. ApprovedDays(requests, k) \in Nat /\ used \in Nat
      BY <2>1, ChargedUnitsFinite, LedgerConstants DEF TypeOK, RequestRow
    <2>4. balances' = Put(balances, k, Charged(row, used))
      BY <1>8 DEF ApproveLeaveRequest
    <2>5. requests' = [requests EXCEPT ![r].status = "APPROVED"]
      BY <1>8 DEF ApproveLeaveRequest
    <2> HIDE DEF k, row, used
    <2>6. Charged(row, used) \in BalanceRow
      BY <2>2, <2>3, ChargedRow DEF BalanceRow
    <2>7. /\ DOMAIN balances' \subseteq BalanceKey
          /\ \A x \in DOMAIN balances' : balances'[x] \in BalanceRow
      BY <2>2, <2>4, <2>6, PutType DEF TypeOK
    <2> QED
      BY <1>8, <2>1, <2>5, <2>7 DEF ApproveLeaveRequest, TypeOK, RequestRow, RequestStatus
  <1>9. ASSUME NEW r \in RequestId, RejectLeaveRequest(r)
        PROVE  TypeOK'
    BY <1>9 DEF RejectLeaveRequest, TypeOK, RequestRow, RequestStatus
  <1>10. ASSUME NEW r \in RequestId, NEW m \in Member, NEW any \in BOOLEAN,
                CancelLeaveRequest(r, m, any)
         PROVE  TypeOK'
    BY <1>10 DEF CancelLeaveRequest, TypeOK, RequestRow, RequestStatus
  <1>11. CASE UNCHANGED vars
    BY <1>11 DEF vars, TypeOK
  <1> QED
    BY <1>1, <1>2, <1>3, <1>4, <1>5, <1>6, <1>7, <1>8, <1>9, <1>10, <1>11
    DEF Next, AdminStep, RequestStep

\* Every table holds well-typed rows in every reachable state, whatever the
\* quotas, lengths and allocations entered (service.py:164-924).
THEOREM TypeCorrect == Spec => []TypeOK
  BY TypeInit, TypeNext, PTL DEF Spec

-----------------------------------------------------------------------------
(* The ledger.  Balances agree with the approved requests and cover them; *)
(* the two are one inductive invariant, because a balance row created for a *)
(* key without one may only start from an empty sum.                       *)

LedgerInv == TypeOK /\ LedgerAgrees /\ NeverOverdrawn

\* A row that exists keeps the sum it agreed with; a row the service creates
\* starts from it.
LEMMA BalanceOrNewAgrees ==
    ASSUME LedgerInv, NEW k \in BalanceKey, k[2] \in DOMAIN leaveTypes
    PROVE  /\ BalanceOrNew(k).used = ApprovedDays(requests, k)
           /\ BalanceOrNew(k).remaining =
                 Entitlement(BalanceOrNew(k)) - BalanceOrNew(k).used
           /\ k \in DOMAIN balances => BalanceOrNew(k) = balances[k]
  <1>1. ApprovedDays(requests, k) \in Nat
    BY ChargedUnitsFinite DEF LedgerInv, TypeOK
  <1>2. leaveTypes[k[2]].quota \in Nat
    BY DEF LedgerInv, TypeOK, LeaveTypeRow
  <1>3. CASE k \in DOMAIN balances
    BY <1>3 DEF BalanceOrNew, LedgerInv, LedgerAgrees
  <1>4. CASE k \notin DOMAIN balances
    BY <1>1, <1>2, <1>4, ChargedRow DEF BalanceOrNew
  <1> QED
    BY <1>3, <1>4

\* Handlers that leave the approved requests and the balances alone.
LEMMA LedgerUntouched ==
    ASSUME LedgerInv, TypeOK', UNCHANGED balances,
           \A k : ApprovedOn(requests', k) = ApprovedOn(requests, k),
           \A r \in DOMAIN requests :
              requests[r].status = "APPROVED" => requests'[r] = requests[r]
    PROVE  LedgerInv'
  <1>1. \A k : \A r \in ApprovedOn(requests, k) : requests'[r].days = requests[r].days
    BY DEF ApprovedOn
  <1>2. \A k : ApprovedDays(requests', k) = ApprovedDays(requests, k)
    BY <1>1, SameApprovedSameDays
  <1>3. LedgerAgrees'
    BY <1>2 DEF LedgerInv, LedgerAgrees
  <1>4. ASSUME NEW r \in DOMAIN requests', requests'[r].status = "APPROVED"
        PROVE  r \in DOMAIN requests /\ requests[r].status = "APPROVED"
    <2>1. r \in ApprovedOn(requests', KeyOf(requests'[r]))
      BY <1>4 DEF ApprovedOn
    <2> QED
      BY <2>1 DEF ApprovedOn
  <1>5. NeverOverdrawn'
    BY <1>2, <1>4 DEF LedgerInv, NeverOverdrawn
  <1> QED
    BY <1>3, <1>5 DEF LedgerInv

LEMMA LedgerInit == Init => LedgerInv
  BY TypeInit DEF Init, LedgerInv, LedgerAgrees, NeverOverdrawn

\* A new request is pending: it may create the balance row of its key, with
\* nothing charged that was not charged before.
LEMMA CreateKeepsLedger ==
    ASSUME LedgerInv, TypeOK',
           NEW r \in RequestId, NEW m \in Member, NEW t \in LeaveType,
           NEW start \in Date, NEW end \in Date, NEW d \in DayInput,
           CreateLeaveRequest(r, m, t, start, end, d)
    PROVE  LedgerInv'
  <1> DEFINE k   == <<m, t, YearOf[start]>>
             row == [member |-> m, type |-> t, start |-> start, end |-> end,
                     days |-> Chargeable(start, end, d), status |-> "PENDING"]
  <1>1. /\ r \notin DOMAIN requests
        /\ requests' = Put(requests, r, row)
        /\ balances' = Put(balances, k, BalanceOrNew(k)) \/ balances' = balances
        /\ t \in DOMAIN leaveTypes
    BY DEF CreateLeaveRequest
  <1>2. row.status = "PENDING"
    OBVIOUS
  <1>3. k \in BalanceKey /\ k[2] = t
    BY LedgerConstants DEF BalanceKey
  <1> HIDE DEF k, row
  <1>4. /\ DOMAIN requests' = DOMAIN requests \cup {r}
        /\ requests'[r] = row
        /\ \A x \in DOMAIN requests : requests'[x] = requests[x]
    BY <1>1 DEF Put
  <1>5. \A j : ApprovedOn(requests', j) = ApprovedOn(requests, j)
    BY <1>1, <1>2, <1>4 DEF ApprovedOn
  <1>6. CASE balances' = balances
    BY <1>4, <1>5, <1>6, LedgerUntouched
  <1>7. CASE balances' = Put(balances, k, BalanceOrNew(k))
    <2>1. \A j : ApprovedDays(requests', j) = ApprovedDays(requests, j)
      <3>1. \A j : \A x \in ApprovedOn(requests, j) :
               requests'[x].days = requests[x].days
        BY <1>4 DEF ApprovedOn
      <3> QED
        BY <1>5, <3>1, SameApprovedSameDays
    <2>2. /\ DOMAIN balances' = DOMAIN balances \cup {k}
          /\ balances'[k] = BalanceOrNew(k)
          /\ \A x \in DOMAIN balances : x # k => balances'[x] = balances[x]
      BY <1>7 DEF Put
    <2>3. /\ BalanceOrNew(k).used = ApprovedDays(requests, k)
          /\ BalanceOrNew(k).remaining =
                Entitlement(BalanceOrNew(k)) - BalanceOrNew(k).used
          /\ k \in DOMAIN balances => BalanceOrNew(k) = balances[k]
      BY <1>1, <1>3, BalanceOrNewAgrees
    <2>4. LedgerAgrees'
      BY <2>1, <2>2, <2>3 DEF LedgerInv, LedgerAgrees
    <2>5. \A x \in DOMAIN balances : balances'[x] = balances[x]
      BY <2>2, <2>3
    <2>6. NeverOverdrawn'
      BY <1>2, <1>4, <2>1, <2>2, <2>5 DEF LedgerInv, NeverOverdrawn
    <2> QED
      BY <2>4, <2>6 DEF LedgerInv
  <1> QED
    BY <1>1, <1>6, <1>7

\* An approval charges its days to its own key, and only when they fit.
LEMMA ApproveKeepsLedger ==
    ASSUME LedgerInv, TypeOK', NEW r \in RequestId, ApproveLeaveRequest(r)
    PROVE  LedgerInv'
  <1> DEFINE k    == KeyOf(requests[r])
             used == ApprovedDays(requests, k) + requests[r].days
             row  == Charged(BalanceOrNew(k), used)
  <1>1. /\ r \in DOMAIN requests
        /\ requests[r].status = "PENDING"
        /\ requests[r].type \in DOMAIN leaveTypes
        /\ row.remaining >= 0
        /\ balances' = Put(balances, k, row)
        /\ requests' = [requests EXCEPT ![r].status = "APPROVED"]
    BY DEF ApproveLeaveRequest
  <1>2. requests[r] \in RequestRow
    BY <1>1 DEF LedgerInv, TypeOK
  <1>3. k \in BalanceKey /\ k[2] \in DOMAIN leaveTypes
    BY <1>1, <1>2, KeyOfType
  <1>4. ApprovedDays(requests, k) \in Nat /\ used \in Nat
    BY <1>2, ChargedUnitsFinite, LedgerConstants DEF LedgerInv, TypeOK, RequestRow
  <1>5. BalanceOrNew(k) \in BalanceRow
    BY <1>3, BalanceOrNewType DEF LedgerInv
  <1>6. /\ row.used = used
        /\ row.remaining = Entitlement(row) - used
        /\ Entitlement(row) \in Int
    BY <1>4, <1>5, ChargedRow DEF BalanceRow
  <1>7. /\ DOMAIN requests' = DOMAIN requests
        /\ \A x \in DOMAIN requests : x # r => requests'[x] = requests[x]
        /\ requests'[r].status = "APPROVED"
        /\ requests'[r].days = requests[r].days
        /\ KeyOf(requests'[r]) = k
    BY <1>1, <1>2 DEF KeyOf, RequestRow
  <1>8. \A j : ApprovedDays(requests', j) =
                 IF j = k THEN used ELSE ApprovedDays(requests, j)
    <2>1. /\ r \in DOMAIN requests
          /\ IsFiniteSet(DOMAIN requests)
          /\ requests[r].days \in 0..MaxUnits
          /\ requests[r].status # "APPROVED"
      BY <1>1, <1>2 DEF LedgerInv, TypeOK, RequestRow
    <2>2. /\ DOMAIN requests' = DOMAIN requests
          /\ \A x \in DOMAIN requests : x # r => requests'[x] = requests[x]
          /\ requests'[r].status = "APPROVED"
          /\ requests'[r].days = requests[r].days
          /\ KeyOf(requests'[r]) = KeyOf(requests[r])
      BY <1>7
    <2>3. \A j : ApprovedDays(requests', j) =
                   IF j = KeyOf(requests[r])
                   THEN ApprovedDays(requests, j) + requests[r].days
                   ELSE ApprovedDays(requests, j)
      BY <2>1, <2>2, ApprovalCharges
    <2> QED
      BY <2>3
  <1> HIDE DEF k, used, row
  <1>9. /\ DOMAIN balances' = DOMAIN balances \cup {k}
        /\ balances'[k] = row
        /\ \A x \in DOMAIN balances : x # k => balances'[x] = balances[x]
    BY <1>1 DEF Put
  <1>10. LedgerAgrees'
    BY <1>6, <1>8, <1>9 DEF LedgerInv, LedgerAgrees
  <1>11. used <= Entitlement(row)
    BY <1>1, <1>4, <1>6
  <1>12. NeverOverdrawn'
    <2> SUFFICES ASSUME NEW x \in DOMAIN requests', requests'[x].status = "APPROVED"
                 PROVE  /\ KeyOf(requests'[x]) \in DOMAIN balances'
                        /\ ApprovedDays(requests', KeyOf(requests'[x])) <=
                              Entitlement(balances'[KeyOf(requests'[x])])
      BY DEF NeverOverdrawn
    <2>1. CASE KeyOf(requests'[x]) = k
      BY <1>8, <1>9, <1>11, <2>1
    <2>2. CASE KeyOf(requests'[x]) # k
      BY <1>7, <1>8, <1>9, <2>2 DEF LedgerInv, NeverOverdrawn
    <2> QED
      BY <2>1, <2>2
  <1> QED
    BY <1>10, <1>12 DEF LedgerInv

\* An assignment keeps what is used, and is refused when it cannot cover it.
LEMMA UpsertKeepsLedger ==
    ASSUME LedgerInv, TypeOK', NEW k \in BalanceKey, NEW in \in BalanceInput,
           UpsertLeaveBalance(k, in)
    PROVE  LedgerInv'
  <1> DEFINE used == ApprovedDays(requests, k)
             row  == Charged(in, used)
  <1>1. row.remaining >= 0 /\ balances' = Put(balances, k, row) /\ requests' = requests
    BY DEF UpsertLeaveBalance
  <1>2. used \in Nat
    BY ChargedUnitsFinite DEF LedgerInv, TypeOK
  <1>3. in.allocated \in Nat /\ in.carriedForward \in Nat /\ in.lapsed \in Nat
    BY LedgerConstants
  <1>4. /\ row.used = used
        /\ row.remaining = Entitlement(row) - used
        /\ Entitlement(row) \in Int
    BY <1>2, <1>3, ChargedRow
  <1>5. used <= Entitlement(row)
    BY <1>1, <1>2, <1>4
  <1> HIDE DEF row
  <1>6. /\ DOMAIN balances' = DOMAIN balances \cup {k}
        /\ balances'[k] = row
        /\ \A x \in DOMAIN balances : x # k => balances'[x] = balances[x]
    BY <1>1 DEF Put
  <1>7. LedgerAgrees'
    BY <1>1, <1>4, <1>6 DEF LedgerInv, LedgerAgrees
  <1>8. NeverOverdrawn'
    BY <1>1, <1>5, <1>6 DEF LedgerInv, NeverOverdrawn
  <1> QED
    BY <1>7, <1>8 DEF LedgerInv

LEMMA LedgerNext == LedgerInv /\ [Next]_vars => LedgerInv'
  <1> SUFFICES ASSUME LedgerInv, [Next]_vars
               PROVE  LedgerInv'
    OBVIOUS
  <1>0. TypeOK'
    BY TypeNext DEF LedgerInv
  <1>1. CASE UNCHANGED <<requests, balances>>
    BY <1>0, <1>1, LedgerUntouched
  <1>2. ASSUME NEW t \in LeaveType, NEW q \in Quota, NEW p \in BOOLEAN,
               CreateLeaveType(t, q, p) \/ UpdateLeaveType(t, q, p)
        PROVE  LedgerInv'
    BY <1>1, <1>2 DEF CreateLeaveType, UpdateLeaveType
  <1>3. ASSUME NEW h \in HolidayId, NEW d \in Date,
               CreateHoliday(h, d) \/ UpdateHoliday(h, d)
        PROVE  LedgerInv'
    BY <1>1, <1>3 DEF CreateHoliday, UpdateHoliday
  <1>4. ASSUME NEW h \in HolidayId, DeleteHoliday(h)
        PROVE  LedgerInv'
    BY <1>1, <1>4 DEF DeleteHoliday
  <1>5. ASSUME NEW k \in BalanceKey, NEW in \in BalanceInput, UpsertLeaveBalance(k, in)
        PROVE  LedgerInv'
    BY <1>0, <1>5, UpsertKeepsLedger
  <1>6. ASSUME NEW r \in RequestId, NEW m \in Member, NEW t \in LeaveType,
               NEW start \in Date, NEW end \in Date, NEW d \in DayInput,
               CreateLeaveRequest(r, m, t, start, end, d)
        PROVE  LedgerInv'
    BY <1>0, <1>6, CreateKeepsLedger
  <1>7. ASSUME NEW r \in RequestId, ApproveLeaveRequest(r)
        PROVE  LedgerInv'
    BY <1>0, <1>7, ApproveKeepsLedger
  <1>8. ASSUME NEW r \in RequestId, RejectLeaveRequest(r)
        PROVE  LedgerInv'
    <2>1. \A x \in DOMAIN requests :
             requests[x].status = "APPROVED" => requests'[x] = requests[x]
      BY <1>8 DEF RejectLeaveRequest
    <2>2. \A k : ApprovedOn(requests', k) = ApprovedOn(requests, k)
      BY <1>8 DEF RejectLeaveRequest, ApprovedOn, LedgerInv, TypeOK, RequestRow
    <2> QED
      BY <1>0, <1>8, <2>1, <2>2, LedgerUntouched DEF RejectLeaveRequest
  <1>9. ASSUME NEW r \in RequestId, NEW m \in Member, NEW any \in BOOLEAN,
               CancelLeaveRequest(r, m, any)
        PROVE  LedgerInv'
    <2>1. \A x \in DOMAIN requests :
             requests[x].status = "APPROVED" => requests'[x] = requests[x]
      BY <1>9 DEF CancelLeaveRequest
    <2>2. \A k : ApprovedOn(requests', k) = ApprovedOn(requests, k)
      BY <1>9 DEF CancelLeaveRequest, ApprovedOn, LedgerInv, TypeOK, RequestRow
    <2> QED
      BY <1>0, <1>9, <2>1, <2>2, LedgerUntouched DEF CancelLeaveRequest
  <1>10. CASE UNCHANGED vars
    BY <1>1, <1>10 DEF vars
  <1> QED
    BY <1>2, <1>3, <1>4, <1>5, <1>6, <1>7, <1>8, <1>9, <1>10
    DEF Next, AdminStep, RequestStep

\* Stored balances agree with the approved requests they are charged with,
\* through every sequence of handlers (service.py:473, 607, 849).
THEOREM LedgerCorrect == Spec => []LedgerAgrees
  <1>1. LedgerInv => LedgerAgrees
    BY DEF LedgerInv
  <1> QED
    BY <1>1, LedgerInit, LedgerNext, PTL DEF Spec

\* Approved leave is always covered by the balance it is charged to.
THEOREM ApprovedLeaveCovered == Spec => []NeverOverdrawn
  <1>1. LedgerInv => NeverOverdrawn
    BY DEF LedgerInv
  <1> QED
    BY <1>1, LedgerInit, LedgerNext, PTL DEF Spec

-----------------------------------------------------------------------------
(* No double booking, and decisions are final. *)

\* Whether a period of row overlaps another does not depend on who asks first.
LEMMA OverlapSymmetric ==
    ASSUME NEW a \in RequestRow, NEW b \in RequestRow
    PROVE  Overlap(a, b.start, b.end) <=> Overlap(b, a.start, a.end)
  BY LedgerConstants DEF Overlap, RequestRow

\* A decision changes nothing but the status of one pending request.
Decision(r, status) ==
    /\ r \in DOMAIN requests
    /\ requests[r].status = "PENDING"
    /\ requests' = [requests EXCEPT ![r].status = status]

\* Every step leaves the requests alone, adds a pending one that overlaps no
\* live request of its member, or decides a pending one.
LEMMA RequestSteps ==
    ASSUME TypeOK, [Next]_vars
    PROVE  \/ UNCHANGED requests
           \/ \E r \in RequestId, row \in RequestRow :
                 /\ r \notin DOMAIN requests
                 /\ row.status = "PENDING"
                 /\ ~HasOverlap(requests, row.member, row.start, row.end)
                 /\ requests' = Put(requests, r, row)
           \/ \E r \in RequestId, s \in RequestStatus \ {"PENDING"} : Decision(r, s)
  <1>1. ASSUME NEW r \in RequestId, NEW m \in Member, NEW t \in LeaveType,
               NEW start \in Date, NEW end \in Date, NEW d \in DayInput,
               CreateLeaveRequest(r, m, t, start, end, d)
        PROVE  \E row \in RequestRow :
                 /\ r \notin DOMAIN requests
                 /\ row.status = "PENDING"
                 /\ ~HasOverlap(requests, row.member, row.start, row.end)
                 /\ requests' = Put(requests, r, row)
    <2> DEFINE row == [member |-> m, type |-> t, start |-> start, end |-> end,
                       days |-> Chargeable(start, end, d), status |-> "PENDING"]
    <2>1. row \in RequestRow
      BY ChargeableType DEF RequestRow, RequestStatus
    <2>2. /\ r \notin DOMAIN requests
          /\ ~HasOverlap(requests, row.member, row.start, row.end)
          /\ requests' = Put(requests, r, row)
      BY <1>1 DEF CreateLeaveRequest
    <2>3. row.status = "PENDING"
      OBVIOUS
    <2> HIDE DEF row
    <2> QED
      BY <2>1, <2>2, <2>3
  <1>2. ASSUME NEW r \in RequestId, ApproveLeaveRequest(r)
        PROVE  Decision(r, "APPROVED")
    BY <1>2 DEF ApproveLeaveRequest, Decision
  <1>3. ASSUME NEW r \in RequestId, RejectLeaveRequest(r)
        PROVE  Decision(r, "REJECTED")
    BY <1>3 DEF RejectLeaveRequest, Decision
  <1>4. ASSUME NEW r \in RequestId, NEW m \in Member, NEW any \in BOOLEAN,
               CancelLeaveRequest(r, m, any)
        PROVE  Decision(r, "CANCELLED")
    BY <1>4 DEF CancelLeaveRequest, Decision
  <1>5. ASSUME AdminStep \/ UNCHANGED vars
        PROVE  UNCHANGED requests
    BY <1>5 DEF AdminStep, CreateLeaveType, UpdateLeaveType, CreateHoliday,
                UpdateHoliday, DeleteHoliday, UpsertLeaveBalance, vars
  <1>6. {"APPROVED", "REJECTED", "CANCELLED"} \subseteq RequestStatus \ {"PENDING"}
    BY DEF RequestStatus
  <1> QED
    BY <1>1, <1>2, <1>3, <1>4, <1>5, <1>6 DEF Next, RequestStep

LEMMA BookingNext == TypeOK /\ NoDoubleBooking /\ [Next]_vars => NoDoubleBooking'
  <1> SUFFICES ASSUME TypeOK, NoDoubleBooking, [Next]_vars
               PROVE  NoDoubleBooking'
    OBVIOUS
  <1>1. CASE UNCHANGED requests
    BY <1>1 DEF NoDoubleBooking
  <1>2. ASSUME NEW r \in RequestId, NEW row \in RequestRow,
               r \notin DOMAIN requests,
               row.status = "PENDING",
               ~HasOverlap(requests, row.member, row.start, row.end),
               requests' = Put(requests, r, row)
        PROVE  NoDoubleBooking'
    <2>1. /\ DOMAIN requests' = DOMAIN requests \cup {r}
          /\ requests'[r] = row
          /\ \A x \in DOMAIN requests : requests'[x] = requests[x]
      BY <1>2 DEF Put
    <2>2. \A x \in DOMAIN requests :
             /\ requests[x] \in RequestRow
             /\ requests[x].member = row.member
             /\ requests[x].status \in LiveStatus
             => ~Overlap(requests[x], row.start, row.end)
      BY <1>2 DEF HasOverlap, TypeOK
    <2>3. \A x \in DOMAIN requests : requests[x] \in RequestRow
      BY DEF TypeOK
    <2>4. \A x \in DOMAIN requests :
             /\ requests[x].member = row.member
             /\ requests[x].status \in LiveStatus
             => ~Overlap(row, requests[x].start, requests[x].end)
      BY <2>2, <2>3, OverlapSymmetric
    <2> QED
      BY <2>1, <2>2, <2>3, <2>4 DEF NoDoubleBooking
  <1>3. ASSUME NEW r \in RequestId, NEW s \in RequestStatus, Decision(r, s)
        PROVE  NoDoubleBooking'
    <2>1. /\ DOMAIN requests' = DOMAIN requests
          /\ \A x \in DOMAIN requests :
                /\ requests'[x].member = requests[x].member
                /\ requests'[x].start = requests[x].start
                /\ requests'[x].end = requests[x].end
                /\ requests'[x].status \in LiveStatus =>
                      requests[x].status \in LiveStatus
      BY <1>3 DEF Decision, TypeOK, RequestRow, LiveStatus
    <2> QED
      BY <2>1 DEF NoDoubleBooking, Overlap
  <1> QED
    BY <1>1, <1>2, <1>3, RequestSteps

\* No interleaving of complete handlers books a member twice for one day.
THEOREM NeverBookedTwice == Spec => []NoDoubleBooking
  <1>1. Init => NoDoubleBooking
    BY DEF Init, NoDoubleBooking
  <1> QED
    BY <1>1, TypeInit, TypeNext, BookingNext, PTL DEF Spec

\* A request leaves PENDING once and is never rewritten otherwise.
THEOREM Finality == Spec => DecisionsAreFinal
  <1> DEFINE Final ==
        \A r \in DOMAIN requests :
          /\ r \in DOMAIN requests'
          /\ requests'[r] = [requests[r] EXCEPT !.status = requests'[r].status]
          /\ requests[r].status # "PENDING" =>
                requests'[r].status = requests[r].status
  <1>1. TypeOK /\ [Next]_vars => Final
    <2> SUFFICES ASSUME TypeOK, [Next]_vars, NEW x \in DOMAIN requests
                 PROVE  /\ x \in DOMAIN requests'
                        /\ requests'[x] =
                              [requests[x] EXCEPT !.status = requests'[x].status]
                        /\ requests[x].status # "PENDING" =>
                              requests'[x].status = requests[x].status
      OBVIOUS
    <2>1. requests[x] \in RequestRow
      BY DEF TypeOK
    <2>2. CASE UNCHANGED requests
      BY <2>1, <2>2 DEF RequestRow
    <2>3. ASSUME NEW r, NEW row, r \notin DOMAIN requests,
                 requests' = Put(requests, r, row)
          PROVE  x \in DOMAIN requests' /\ requests'[x] = requests[x]
      BY <2>3 DEF Put
    <2>4. ASSUME NEW r \in RequestId, NEW s \in RequestStatus, Decision(r, s)
          PROVE  /\ x \in DOMAIN requests'
                 /\ requests'[x] =
                       [requests[x] EXCEPT !.status = requests'[x].status]
                 /\ requests[x].status # "PENDING" =>
                       requests'[x].status = requests[x].status
      BY <2>1, <2>4 DEF Decision, RequestRow
    <2> QED
      BY <2>1, <2>2, <2>3, <2>4, RequestSteps DEF RequestRow
  <1> QED
    BY <1>1, TypeInit, TypeNext, PTL DEF Spec, DecisionsAreFinal

-----------------------------------------------------------------------------
(* What the pages show. *)

\* There are finitely many types, and every request is of one of them.
TypesStay ==
    /\ IsFiniteSet(DOMAIN leaveTypes)
    /\ \A r \in DOMAIN requests : requests[r].type \in DOMAIN leaveTypes

LEMMA TypesKept ==
    ASSUME TypesStay, IsFiniteSet(DOMAIN leaveTypes'), DOMAIN leaveTypes \subseteq DOMAIN leaveTypes',
           \A r \in DOMAIN requests' :
              \/ r \in DOMAIN requests /\ requests'[r].type = requests[r].type
              \/ requests'[r].type \in DOMAIN leaveTypes
    PROVE  TypesStay'
  BY DEF TypesStay

LEMMA TypesNext == TypeOK /\ TypesStay /\ [Next]_vars => TypesStay'
  <1> SUFFICES ASSUME TypeOK, TypesStay, [Next]_vars
               PROVE  TypesStay'
    OBVIOUS
  <1>0. IsFiniteSet(DOMAIN leaveTypes)
    BY DEF TypesStay
  <1>1. CASE UNCHANGED <<leaveTypes, requests>>
    BY <1>1 DEF TypesStay
  <1>2. ASSUME NEW t, NEW q, NEW p, CreateLeaveType(t, q, p)
        PROVE  TypesStay'
    <2>1. DOMAIN leaveTypes' = DOMAIN leaveTypes \cup {t} /\ requests' = requests
      BY <1>2, PutRows DEF CreateLeaveType
    <2>2. IsFiniteSet(DOMAIN leaveTypes')
      BY <1>0, <2>1, FS_AddElement
    <2> QED
      BY <2>1, <2>2, TypesKept
  <1>3. ASSUME NEW t, NEW q, NEW p, UpdateLeaveType(t, q, p)
        PROVE  TypesStay'
    BY <1>0, <1>3, TypesKept DEF UpdateLeaveType
  <1>4. ASSUME NEW r \in RequestId, NEW m, NEW t, NEW start, NEW end, NEW d,
               CreateLeaveRequest(r, m, t, start, end, d)
        PROVE  TypesStay'
    <2> DEFINE row == [member |-> m, type |-> t, start |-> start, end |-> end,
                       days |-> Chargeable(start, end, d), status |-> "PENDING"]
    <2>1. /\ requests' = Put(requests, r, row) /\ leaveTypes' = leaveTypes
          /\ t \in DOMAIN leaveTypes
      BY <1>4 DEF CreateLeaveRequest
    <2>2. row.type = t
      OBVIOUS
    <2> HIDE DEF row
    <2>3. /\ DOMAIN requests' = DOMAIN requests \cup {r} /\ requests'[r] = row
          /\ \A x \in DOMAIN requests : x # r => requests'[x] = requests[x]
      BY <2>1 DEF Put
    <2> QED
      BY <1>0, <2>1, <2>2, <2>3, TypesKept
  <1>5. ASSUME NEW r \in RequestId, NEW s \in RequestStatus, Decision(r, s), UNCHANGED leaveTypes
        PROVE  TypesStay'
    <2>1. /\ DOMAIN requests' = DOMAIN requests
          /\ \A x \in DOMAIN requests : requests'[x].type = requests[x].type
      BY <1>5 DEF Decision, TypeOK, RequestRow
    <2> QED
      BY <1>0, <1>5, <2>1, TypesKept
  <1>6. ASSUME NEW r \in RequestId,
               \/ ApproveLeaveRequest(r) \/ RejectLeaveRequest(r)
               \/ \E m, any : CancelLeaveRequest(r, m, any)
        PROVE  TypesStay'
    <2>1. /\ \E s \in RequestStatus : Decision(r, s)
          /\ UNCHANGED leaveTypes
      BY <1>6 DEF ApproveLeaveRequest, RejectLeaveRequest, CancelLeaveRequest, Decision, RequestStatus
    <2> QED
      BY <1>5, <2>1
  <1>7. CASE AdminStep
    BY <1>1, <1>2, <1>3, <1>7 DEF AdminStep, CreateHoliday, UpdateHoliday, DeleteHoliday, UpsertLeaveBalance
  <1>8. CASE RequestStep
    BY <1>4, <1>6, <1>8 DEF RequestStep
  <1> QED
    BY <1>1, <1>7, <1>8 DEF Next, vars

LEMMA LineFields ==
    ASSUME NEW k
    PROVE  /\ BalanceLine(k).key = k /\ BalanceLine(k).used = ApprovedDays(requests, k)
           /\ BalanceLine(k).virtual = (k \notin DOMAIN balances)
           /\ k \in DOMAIN balances =>
                BalanceLine(k).remaining = Entitlement(balances[k]) - BalanceLine(k).used
  BY DEF BalanceLine

\* A line shows the row it stands for, and no more leave than that row covers.
LEMMA LinesTell ==
    ASSUME LedgerInv, NEW k, NEW line, line = BalanceLine(k)
    PROVE  /\ line.used > 0 => line.remaining >= 0
           /\ ~line.virtual => line.used = balances[line.key].used
                               /\ line.remaining = balances[line.key].remaining
  <1>1. /\ line.key = k /\ line.used = ApprovedDays(requests, k)
        /\ line.virtual = (k \notin DOMAIN balances)
        /\ k \in DOMAIN balances => line.remaining = Entitlement(balances[k]) - line.used
    BY LineFields
  <1>2. ApprovedDays(requests, k) \in Nat
    BY ChargedUnitsFinite DEF LedgerInv, TypeOK
  <1>3. ASSUME line.used > 0
        PROVE  line.remaining >= 0
    <2>1. PICK r : r \in ApprovedOn(requests, k)
      <3>1. ApprovedOn(requests, k) # {}
        BY <1>1, <1>3, NothingCharged
      <3> QED
        BY <3>1
    <2>2. r \in DOMAIN requests /\ requests[r].status = "APPROVED" /\ KeyOf(requests[r]) = k
      BY <2>1 DEF ApprovedOn
    <2>3. k \in DOMAIN balances /\ ApprovedDays(requests, k) <= Entitlement(balances[k])
      BY <2>2 DEF LedgerInv, NeverOverdrawn
    <2>4. balances[k] \in BalanceRow
      BY <2>3 DEF LedgerInv, TypeOK
    <2>5. Entitlement(balances[k]) \in Int
      BY <2>4 DEF Entitlement, BalanceRow
    <2> QED
      BY <1>1, <1>2, <2>3, <2>5
  <1>4. ASSUME ~line.virtual
        PROVE  line.used = balances[line.key].used /\ line.remaining = balances[line.key].remaining
    <2>1. k \in DOMAIN balances
      BY <1>1, <1>4
    <2>2. /\ balances[k].used = ApprovedDays(requests, k)
          /\ balances[k].remaining = Entitlement(balances[k]) - balances[k].used
      BY <2>1 DEF LedgerInv, LedgerAgrees
    <2> QED
      BY <1>1, <2>1, <2>2
  <1> QED
    BY <1>3, <1>4

\* The lines of a member in all years.
LinesOf(m) == UNION {ListLeaveBalances({m}, y) : y \in Year}

LEMMA LinesOfMember ==
    ASSUME TypesStay, NEW m \in Member
    PROVE  /\ IsFiniteSet(LinesOf(m))
           /\ \A line \in LinesOf(m) : line = BalanceLine(line.key)
           /\ \A t \in DOMAIN leaveTypes, y \in Year : BalanceLine(<<m, t, y>>) \in LinesOf(m)
           /\ \A line \in LinesOf(m) : line.key[1] = m
  <1> DEFINE P == (DOMAIN leaveTypes) \X Year
             f == [p \in P |-> BalanceLine(<<m, p[1], p[2]>>)]
  <1>1. IsFiniteSet(P)
    BY YearsAreFinite, FS_Product DEF TypesStay
  <1>2. ASSUME NEW line \in LinesOf(m)
        PROVE  \E t \in DOMAIN leaveTypes, y \in Year : line = BalanceLine(<<m, t, y>>)
    <2>1. PICK y \in Year : line \in ListLeaveBalances({m}, y)
      BY <1>2 DEF LinesOf
    <2>2. PICK n \in {m}, t \in DOMAIN leaveTypes : line = BalanceLine(<<n, t, y>>)
      BY <2>1 DEF ListLeaveBalances, ListLeaveTypes
    <2> QED
      BY <2>2
  <1>3. ASSUME NEW t \in DOMAIN leaveTypes, NEW y \in Year
        PROVE  BalanceLine(<<m, t, y>>) \in LinesOf(m)
    <2>1. BalanceLine(<<m, t, y>>) \in ListLeaveBalances({m}, y)
      BY DEF ListLeaveBalances, ListLeaveTypes
    <2> QED
      BY <2>1 DEF LinesOf
  <1>4. f \in Surjection(P, LinesOf(m))
    <2>1. ASSUME NEW p \in P
          PROVE  f[p] \in LinesOf(m)
      BY <1>3
    <2>2. ASSUME NEW line \in LinesOf(m)
          PROVE  \E p \in P : f[p] = line
      <3>1. PICK t \in DOMAIN leaveTypes, y \in Year : line = BalanceLine(<<m, t, y>>)
        BY <1>2
      <3>2. <<t, y>> \in P /\ f[<<t, y>>] = line
        BY <3>1
      <3> QED
        BY <3>2
    <2> HIDE DEF P
    <2>3. f \in [P -> LinesOf(m)]
      BY <2>1
    <2> QED
      BY <2>2, <2>3 DEF Surjection
  <1>5. IsFiniteSet(LinesOf(m))
    <2> HIDE DEF P, f
    <2> QED
      BY <1>1, <1>4, FS_Surjection
  <1>6. ASSUME NEW line \in LinesOf(m)
        PROVE  line = BalanceLine(line.key) /\ line.key[1] = m
    <2>1. PICK t \in DOMAIN leaveTypes, y \in Year : line = BalanceLine(<<m, t, y>>)
      BY <1>2
    <2>2. line.key = <<m, t, y>>
      BY <2>1, LineFields
    <2> QED
      BY <2>1, <2>2
  <1> QED
    BY <1>3, <1>5, <1>6

\* The half days charged to the keys of some lines.
UnitsOfLines(lines) == UNION {ChargedUnits(requests, line.key) : line \in lines}

LEMMA UnitsOfLinesFinite ==
    ASSUME TypeOK, NEW lines
    PROVE  IsFiniteSet(UnitsOfLines(lines))
  <1>1. IsFiniteSet(1..MaxUnits) /\ IsFiniteSet(DOMAIN requests)
    BY FS_Interval, LedgerConstants DEF TypeOK
  <1>2. IsFiniteSet((DOMAIN requests) \X (1..MaxUnits))
    BY <1>1, FS_Product
  <1>3. UnitsOfLines(lines) \in SUBSET ((DOMAIN requests) \X (1..MaxUnits))
    BY DEF UnitsOfLines, ChargedUnits, ApprovedOn
  <1> QED
    BY <1>2, <1>3, FS_Subset

\* The used columns of the lines of a member add up to the half days charged to them.
LEMMA LinesAddUp ==
    ASSUME TypeOK, TypesStay, NEW m \in Member
    PROVE  MapThenSumSet(LAMBDA line : line.used, LinesOf(m)) =
             Cardinality(UnitsOfLines(LinesOf(m)))
  <1> DEFINE S == LinesOf(m)
             f == [A \in SUBSET S |-> Cardinality(UnitsOfLines(A))]
  <1>1. IsFiniteSet(S) /\ \A line \in S : line = BalanceLine(line.key)
    BY LinesOfMember
  <1> HIDE DEF S
  <1>2. f[{}] = 0
    <2>1. UnitsOfLines({}) = {}
      BY DEF UnitsOfLines
    <2> QED
      BY <2>1, FS_EmptySet
  <1>3. ASSUME NEW A \in SUBSET S, NEW x \in A
        PROVE  f[A] = x.used + f[A \ {x}]
    <2> DEFINE mine == ChargedUnits(requests, x.key)
               rest == UnitsOfLines(A \ {x})
    <2>1. UnitsOfLines(A) = mine \cup rest
      BY DEF UnitsOfLines
    <2>2. mine \cap rest = {}
      <3> SUFFICES ASSUME NEW u \in mine, NEW line \in A \ {x}, u \in ChargedUnits(requests, line.key)
                   PROVE  FALSE
        BY DEF UnitsOfLines
      <3>1. KeyOf(requests[u[1]]) = x.key /\ KeyOf(requests[u[1]]) = line.key
        BY DEF ChargedUnits, ApprovedOn
      <3>2. x = BalanceLine(x.key) /\ line = BalanceLine(line.key)
        BY <1>1
      <3> QED
        BY <3>1, <3>2
    <2>3. IsFiniteSet(mine) /\ IsFiniteSet(rest)
      BY ChargedUnitsFinite, UnitsOfLinesFinite DEF TypeOK
    <2>4. Cardinality(mine) = x.used
      <3>1. x = BalanceLine(x.key)
        BY <1>1
      <3>2. x.used = ApprovedDays(requests, x.key)
        BY <3>1, LineFields
      <3> QED
        BY <3>2 DEF ApprovedDays
    <2>5. f[A] = Cardinality(mine \cup rest) /\ f[A \ {x}] = Cardinality(rest)
      BY <2>1
    <2> HIDE DEF mine, rest, f
    <2>6. Cardinality(mine \cup rest) = Cardinality(mine) + Cardinality(rest)
      <3>1. /\ Cardinality(mine \cup rest) =
                 Cardinality(mine) + Cardinality(rest) - Cardinality(mine \cap rest)
            /\ Cardinality(mine \cap rest) = 0
        BY <2>2, <2>3, FS_Union, FS_EmptySet
      <3>2. Cardinality(mine) \in Nat /\ Cardinality(rest) \in Nat
        BY <2>3, FS_CardinalityType
      <3> QED
        BY <3>1, <3>2
    <2> QED
      BY <2>4, <2>5, <2>6
  <1>4. f[S] = Cardinality(UnitsOfLines(S))
    OBVIOUS
  <1>5. MapThenSumSet(LAMBDA line : line.used, S) = f[S]
    <2> HIDE DEF f
    <2> QED
      BY <1>1, <1>2, <1>3, SumOfUsed
  <1> QED
    BY <1>4, <1>5 DEF S

\* The summary counts the same half days.
LEMMA SummaryAddsUp ==
    ASSUME TypeOK, TypesStay, NEW m \in Member
    PROVE  Summary(m).totalDays = MapThenSumSet(LAMBDA line : line.used, LinesOf(m))
  <1> DEFINE U == {u \in Approved(m) \X (1..MaxUnits) : u[2] <= requests[u[1]].days}
  <1>1. ASSUME NEW r \in Approved(m)
        PROVE  \E line \in LinesOf(m) : KeyOf(requests[r]) = line.key
    <2>1. r \in DOMAIN requests /\ requests[r].member = m
      BY DEF Approved, RequestsOf
    <2>2. requests[r].type \in DOMAIN leaveTypes /\ YearOf[requests[r].start] \in Year
      BY <2>1, LedgerConstants DEF TypesStay, TypeOK, RequestRow
    <2> DEFINE k == KeyOf(requests[r])
    <2>3. k = <<m, requests[r].type, YearOf[requests[r].start]>>
      BY <2>1 DEF KeyOf
    <2>4. BalanceLine(k) \in LinesOf(m)
      BY <2>2, <2>3, LinesOfMember
    <2>5. BalanceLine(k).key = k
      BY LineFields
    <2> QED
      BY <2>4, <2>5
  <1>2. ASSUME NEW r, NEW line \in LinesOf(m), r \in ApprovedOn(requests, line.key)
        PROVE  r \in Approved(m)
    <2>1. r \in DOMAIN requests /\ requests[r].status = "APPROVED" /\ KeyOf(requests[r]) = line.key
      BY <1>2 DEF ApprovedOn
    <2>2. line.key[1] = m
      BY LinesOfMember
    <2>3. requests[r].member = m
      BY <2>1, <2>2 DEF KeyOf
    <2> QED
      BY <2>1, <2>3 DEF Approved, RequestsOf
  <1>3. U = UnitsOfLines(LinesOf(m))
    <2>1. ASSUME NEW u \in U
          PROVE  u \in UnitsOfLines(LinesOf(m))
      <3>1. u[1] \in Approved(m) /\ u[2] \in 1..MaxUnits /\ u[2] <= requests[u[1]].days
            /\ u = <<u[1], u[2]>>
        OBVIOUS
      <3>2. PICK line \in LinesOf(m) : KeyOf(requests[u[1]]) = line.key
        BY <1>1, <3>1
      <3>3. u[1] \in ApprovedOn(requests, line.key)
        BY <3>1, <3>2 DEF ApprovedOn, Approved, RequestsOf
      <3>4. u \in ChargedUnits(requests, line.key)
        BY <3>1, <3>3 DEF ChargedUnits
      <3> QED
        BY <3>4 DEF UnitsOfLines
    <2>2. ASSUME NEW u \in UnitsOfLines(LinesOf(m))
          PROVE  u \in U
      <3>1. PICK line \in LinesOf(m) : u \in ChargedUnits(requests, line.key)
        BY DEF UnitsOfLines
      <3>2. u[1] \in Approved(m)
        BY <1>2, <3>1 DEF ChargedUnits
      <3> QED
        BY <3>1, <3>2 DEF ChargedUnits
    <2> QED
      BY <2>1, <2>2
  <1> QED
    BY <1>3, LinesAddUp DEF Summary

\* A day of the calendar is the list of that day, and books nobody twice.
LEMMA CalendarTells ==
    ASSUME TypeOK, NoDoubleBooking, NEW m \in Member, NEW d \in Date,
           NEW shown, shown = Calendar({m}, d, d).leaves
    PROVE  /\ shown = ListLeaveRequests({m}, Whichever, Whichever, d, d, Whichever)
           /\ Cardinality({r \in shown : requests[r].status \in LiveStatus}) <= 1
  <1> DEFINE live == {r \in shown : requests[r].status \in LiveStatus}
  <1>1. shown = ListLeaveRequests({m}, Whichever, Whichever, d, d, Whichever)
    BY DEF Calendar, ListLeaveRequests, Matching, Overlap
  <1>2. ASSUME NEW r1 \in live, NEW r2 \in live
        PROVE  r1 = r2
    <2>1. /\ r1 \in DOMAIN requests /\ r2 \in DOMAIN requests
          /\ requests[r1].member = requests[r2].member
          /\ Overlap(requests[r1], d, d) /\ Overlap(requests[r2], d, d)
      BY DEF Calendar, RequestsOf
    <2>2. Overlap(requests[r1], requests[r2].start, requests[r2].end)
      BY <2>1, LedgerConstants DEF Overlap, TypeOK, RequestRow
    <2> QED
      BY <2>1, <2>2 DEF NoDoubleBooking
  <1>3. live = {} \/ \E x : live = {x}
    <2> HIDE DEF live
    <2>1. ASSUME NEW x \in live
          PROVE  live = {x}
      BY <1>2
    <2> QED
      BY <2>1
  <1>4. Cardinality(live) <= 1
    <2> HIDE DEF live
    <2>1. CASE live = {}
      BY <2>1, FS_EmptySet
    <2>2. ASSUME NEW x, live = {x}
          PROVE  Cardinality(live) <= 1
      <3>1. Cardinality(live) = 1
        BY <2>2, FS_Singleton
      <3> QED
        BY <3>1
    <2> QED
      BY <1>3, <2>1, <2>2
  <1> QED
    BY <1>1, <1>4

\* Requests, balances, summary and calendar are read by four queries that sum and
\* filter for themselves; for every sequence of requests, decisions and assignments
\* they agree with each other and with the balance rows.
THEOREM PagesTellTheSame == Spec => []PagesTellTheLedger
  <1> DEFINE Inv == LedgerInv /\ TypesStay /\ NoDoubleBooking
  <1>1. Init => TypesStay /\ NoDoubleBooking
    BY FS_EmptySet DEF Init, TypesStay, NoDoubleBooking
  <1>2. Inv => PagesTellTheLedger
    <2> SUFFICES ASSUME Inv, NEW m \in Member,
                        NEW lines, lines = UNION {ListLeaveBalances({m}, y) : y \in Year}
                 PROVE  /\ \A line \in lines :
                             /\ line.used > 0 => line.remaining >= 0
                             /\ ~line.virtual => line.used = balances[line.key].used
                                                 /\ line.remaining = balances[line.key].remaining
                        /\ Summary(m).totalDays = MapThenSumSet(LAMBDA line : line.used, lines)
                        /\ \A d \in Date :
                             LET shown == Calendar({m}, d, d).leaves
                             IN  /\ shown = ListLeaveRequests({m}, Whichever, Whichever, d, d, Whichever)
                                 /\ Cardinality({r \in shown : requests[r].status \in LiveStatus}) <= 1
      BY DEF PagesTellTheLedger
    <2>1. lines = LinesOf(m) /\ TypeOK
      BY DEF LinesOf, LedgerInv
    <2>2. ASSUME NEW line \in lines
          PROVE  /\ line.used > 0 => line.remaining >= 0
                 /\ ~line.virtual => line.used = balances[line.key].used
                                     /\ line.remaining = balances[line.key].remaining
      <3>1. line = BalanceLine(line.key)
        BY <2>1, LinesOfMember
      <3> QED
        BY <3>1, LinesTell
    <2>3. Summary(m).totalDays = MapThenSumSet(LAMBDA line : line.used, lines)
      BY <2>1, SummaryAddsUp
    <2> QED
      BY <2>1, <2>2, <2>3, CalendarTells
  <1> QED
    BY <1>1, <1>2, LedgerInit, LedgerNext, TypesNext, TypeInit, TypeNext, BookingNext, PTL
       DEF Spec, LedgerInv
=============================================================================
