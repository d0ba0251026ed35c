--------------------------- MODULE WorkforceProofs ---------------------------
(***************************************************************************)
(* Attendance, for every day length, cap and set of moments: the handlers  *)
(* of LeaveLedger and a clock-in, which gives days back, write the same    *)
(* requests and balances, and neither spoils what the other relies on.     *)
(* Then what the report tells of the days, what becomes of the text a      *)
(* member leaves when clocking out, the projects they may choose, and the  *)
(* two tables of plans, for every set of members, days and moments and     *)
(* every number of saves in progress; and workforce as a whole.            *)
(***************************************************************************)
EXTENDS MCWorkforce, LeaveLedgerProofs, FiniteLemmas

-----------------------------------------------------------------------------
(* Days and sessions. *)

\* A moment lies within its day.
LEMMA DayBounds ==
    ASSUME NEW x \in Nat
    PROVE  /\ DayOf(x) \in Nat
           /\ StartOf(DayOf(x)) <= x
           /\ x < StartOf(DayOf(x) + 1)
  <1>1. DayLength \in Nat /\ DayLength > 0
    BY DayConstants
  <1> QED
    BY <1>1 DEF DayOf, StartOf

\* Days follow each other without a gap.
LEMMA DaysInOrder ==
    ASSUME NEW d \in Int
    PROVE  /\ StartOf(d) \in Int
           /\ d >= 0 => StartOf(d) \in Nat
           /\ StartOf(d + 1) = StartOf(d) + DayLength
           /\ \A e \in Int : d <= e => StartOf(d) <= StartOf(e)
  <1>1. DayLength \in Nat /\ DayLength > 0
    BY DayConstants
  <1> QED
    BY <1>1 DEF StartOf

\* A finished session of the day d lies within it, is not longer than the cap,
\* and its hours and status agree with its times.
SoundRow(r, d) ==
    /\ r.in # NoTime
    /\ StartOf(d) <= r.in /\ r.out <= StartOf(d + 1)
    /\ r.hours = r.out - r.in /\ r.hours <= Cap
    /\ r.status = IF r.hours > HalfDayMax THEN "PRESENT" ELSE "HALF_DAY"
    /\ r.in < StartOf(d) + CloseAt => r.hours > 0

\* A row made of two times, whatever its flags.
LEMMA WorkedRow ==
    ASSUME NEW in \in Nat, NEW out \in Nat, NEW remote \in BOOLEAN,
           NEW manual \in BOOLEAN, NEW summary \in BOOLEAN
    PROVE  Worked(in, out, remote, manual, summary) \in AttendanceRow
  BY DEF Worked, AttendanceRow, StatusOf, AttendanceStatus

\* A session of the day d that was forgotten is closed on it, and soundly.
LEMMA ForgottenSession ==
    ASSUME NEW in \in Nat, NEW d \in Nat, StartOf(d) <= in, in < StartOf(d + 1),
           NEW r, r.in = in, r.out = ForgottenOut(in, d), r.hours = r.out - in,
           r.status = StatusOf(r.hours)
    PROVE  SoundRow(r, d)
  <1>1. /\ DayLength \in Nat /\ Cap \in Nat /\ CloseAt \in Nat
        /\ 0 < Cap /\ CloseAt <= DayLength /\ 0 < CloseAt
        /\ HalfDayMax \in Nat
    BY DayConstants, AttendanceConstants
  <1>2. StartOf(d) \in Nat /\ StartOf(d + 1) = StartOf(d) + DayLength
    BY DaysInOrder
  <1>3. \/ /\ r.out = in + Cap /\ in + Cap <= StartOf(d) + CloseAt
        \/ /\ r.out = StartOf(d) + CloseAt /\ StartOf(d) + CloseAt < in + Cap
    BY <1>1, <1>2 DEF ForgottenOut, CappedOut, Earlier
  <1> QED
    BY <1>1, <1>2, <1>3 DEF SoundRow, StatusOf, NoTime

\* Each part of a session split at midnight lies within its day, and is not empty.
LEMMA SegmentTimes ==
    ASSUME NEW in \in Nat, NEW now \in Nat, in < now,
           NEW out, out = CappedOut(in, now),
           NEW d \in SegmentDays(in, out)
    PROVE  /\ d \in Nat /\ out \in Nat
           /\ SegmentIn(in, d) \in Nat /\ SegmentOut(out, d) \in Nat
           /\ StartOf(d) <= SegmentIn(in, d) /\ SegmentOut(out, d) <= StartOf(d + 1)
           /\ SegmentIn(in, d) < SegmentOut(out, d)
           /\ SegmentOut(out, d) - SegmentIn(in, d) <= Cap
  <1>1. DayLength \in Nat /\ Cap \in Nat /\ 0 < Cap /\ 0 < DayLength
    BY DayConstants
  <1>2. out \in Nat /\ in < out /\ out <= in + Cap
    BY <1>1 DEF CappedOut, Earlier
  <1>3. /\ DayOf(in) \in Nat /\ in < StartOf(DayOf(in) + 1)
        /\ DayOf(out) \in Nat
    BY <1>2, DayBounds
  <1>4. d \in Nat /\ DayOf(in) <= d /\ StartOf(d) < out
    BY <1>3 DEF SegmentDays
  <1>5. /\ StartOf(d) \in Nat /\ StartOf(d + 1) \in Nat
        /\ StartOf(d) < StartOf(d + 1)
    BY <1>1, <1>4, DaysInOrder
  <1>6. in < StartOf(d + 1)
    <2>1. StartOf(DayOf(in) + 1) <= StartOf(d + 1)
      BY <1>3, <1>4, DaysInOrder
    <2> QED
      BY <1>3, <1>4, <1>5, <2>1, DaysInOrder
  <1> QED
    BY <1>1, <1>2, <1>4, <1>5, <1>6 DEF SegmentIn, SegmentOut, Earlier, Later

\* Each part of a session split at midnight is sound.
LEMMA SegmentSound ==
    ASSUME NEW in \in Nat, NEW now \in Nat, in < now, NEW summary \in BOOLEAN,
           NEW d \in SegmentDays(in, CappedOut(in, now))
    PROVE  /\ Segment(in, CappedOut(in, now), d, summary) \in AttendanceRow
           /\ Segment(in, CappedOut(in, now), d, summary).out # NoTime
           /\ ~Segment(in, CappedOut(in, now), d, summary).manual
           /\ SoundRow(Segment(in, CappedOut(in, now), d, summary), d)
  <1> DEFINE out == CappedOut(in, now)
             row == Segment(in, out, d, summary)
  <1>1. DayLength \in Nat /\ Cap \in Nat /\ HalfDayMax \in Nat
    BY DayConstants, AttendanceConstants
  <1> HIDE DEF out
  <1>2. /\ SegmentIn(in, d) \in Nat /\ SegmentOut(out, d) \in Nat
        /\ StartOf(d) <= SegmentIn(in, d) /\ SegmentOut(out, d) <= StartOf(d + 1)
        /\ SegmentIn(in, d) < SegmentOut(out, d)
        /\ SegmentOut(out, d) - SegmentIn(in, d) <= Cap
    BY SegmentTimes DEF out
  <1>3. /\ row.in = SegmentIn(in, d) /\ row.out = SegmentOut(out, d)
        /\ row.hours = SegmentOut(out, d) - SegmentIn(in, d)
        /\ row.status = StatusOf(SegmentOut(out, d) - SegmentIn(in, d))
        /\ row.manual = FALSE
    BY DEF Segment, Worked
  <1>4. row \in AttendanceRow
    BY <1>2, WorkedRow DEF Segment
  <1> HIDE DEF row
  <1>5. row.out # NoTime /\ ~row.manual /\ SoundRow(row, d)
    BY <1>1, <1>2, <1>3 DEF SoundRow, StatusOf, NoTime
  <1> QED
    BY <1>4, <1>5 DEF row, out

-----------------------------------------------------------------------------
(* What a clock-in makes of the tables. *)

\* Closing the sessions of m forgotten before today changes nothing else.
LEMMA StaleClosedRows ==
    ASSUME AttendanceTypeOK, NEW m \in Member, NEW today \in Date
    PROVE  /\ DOMAIN StaleClosed(m, today) = DOMAIN rows
           /\ \A k \in DOMAIN rows :
                 LET old == rows[k]
                     new == StaleClosed(m, today)[k]
                 IN  /\ new \in AttendanceRow
                     /\ new.in = old.in /\ new.manual = old.manual
                     /\ \/ new = old
                        \/ /\ k[1] = m /\ k[2] \in OpenDays(m) /\ k[2] < today
                           /\ new.out = ForgottenOut(old.in, k[2])
                           /\ new.hours = new.out - old.in
                           /\ new.status = StatusOf(new.hours)
                           /\ new.out # NoTime
                     /\ k[1] = m /\ k[2] \in OpenDays(m) /\ k[2] < today =>
                           new.out # NoTime
  <1>1. DOMAIN StaleClosed(m, today) = DOMAIN rows
    BY DEF StaleClosed
  <1>2. ASSUME NEW k \in DOMAIN rows
        PROVE  LET old == rows[k]
                   new == StaleClosed(m, today)[k]
               IN  /\ new \in AttendanceRow
                   /\ new.in = old.in /\ new.manual = old.manual
                   /\ \/ new = old
                      \/ /\ k[1] = m /\ k[2] \in OpenDays(m) /\ k[2] < today
                         /\ new.out = ForgottenOut(old.in, k[2])
                         /\ new.hours = new.out - old.in
                         /\ new.status = StatusOf(new.hours)
                         /\ new.out # NoTime
                   /\ k[1] = m /\ k[2] \in OpenDays(m) /\ k[2] < today =>
                         new.out # NoTime
    <2>1. rows[k] \in AttendanceRow
      BY DEF AttendanceTypeOK
    <2>2. CASE ~(k[1] = m /\ k[2] \in OpenDays(m) /\ k[2] < today)
      <3>1. StaleClosed(m, today)[k] = rows[k]
        BY <2>2 DEF StaleClosed
      <3> QED
        BY <2>1, <2>2, <3>1
    <2>3. CASE k[1] = m /\ k[2] \in OpenDays(m) /\ k[2] < today
      <3> DEFINE old == rows[k]
                 out == ForgottenOut(old.in, k[2])
                 new == [old EXCEPT !.out = out, !.hours = out - old.in,
                                    !.status = StatusOf(out - old.in)]
      <3>1. StaleClosed(m, today)[k] = new
        BY <2>3 DEF StaleClosed
      <3>2. /\ k = <<m, k[2]>> /\ k[2] \in Date /\ old.in \in Nat
        BY <2>1, <2>3 DEF OpenDays, AttendanceTypeOK, DayKey, AttendanceRow
      <3>3. k[2] \in Nat /\ StartOf(k[2]) \in Nat
        <4>1. Date \subseteq Nat
          BY Zenon, AttendanceConstants
        <4>2. k[2] \in Int /\ k[2] >= 0
          <5>1. k[2] \in Nat
            BY <3>2, <4>1, Zenon
          <5>2. \A n \in Nat : n \in Int /\ n >= 0
            OBVIOUS
          <5> QED
            BY <5>1, <5>2, Zenon
        <4>3. StartOf(k[2]) \in Nat
          BY <4>2, DaysInOrder
        <4> QED
          BY <4>2, <4>3
      <3>4. out \in Nat
        <4>1. Cap \in Nat /\ CloseAt \in Nat
          BY DayConstants
        <4> QED
          BY <3>2, <3>3, <4>1 DEF ForgottenOut, CappedOut, Earlier
      <3>5. StatusOf(out - old.in) \in AttendanceStatus
        BY DEF StatusOf, AttendanceStatus
      <3>6. out - old.in \in Int
        BY <3>2, <3>4
      <3> HIDE DEF out
      <3>7. new \in AttendanceRow
        BY <2>1, <3>4, <3>5, <3>6 DEF AttendanceRow
      <3>8. /\ new.in = old.in /\ new.manual = old.manual /\ new.out = out
            /\ new.hours = out - old.in /\ new.status = StatusOf(out - old.in)
        BY <2>1 DEF AttendanceRow
      <3>9. out # NoTime
        BY <3>4 DEF NoTime
      <3> HIDE DEF new
      <3> QED
        BY <2>3, <3>1, <3>7, <3>8, <3>9 DEF out
    <2> QED
      BY <2>2, <2>3
  <1> QED
    BY <1>1, <1>2

\* Giving a day back takes from the charge of requests and from nothing else.
LEMMA RestoredRequestRows ==
    ASSUME TypeOK, NEW m \in Member, NEW d \in Date
    PROVE  /\ DOMAIN RestoredRequests(m, d) = DOMAIN requests
           /\ \A r \in DOMAIN requests :
                 LET old == requests[r]
                     new == RestoredRequests(m, d)[r]
                 IN  /\ new \in RequestRow
                     /\ new.member = old.member /\ new.type = old.type
                     /\ new.start = old.start /\ new.end = old.end
                     /\ new.status = old.status
                     /\ new.days <= old.days
  <1>1. DOMAIN RestoredRequests(m, d) = DOMAIN requests
    BY DEF RestoredRequests
  <1>2. ASSUME NEW r \in DOMAIN requests
        PROVE  LET old == requests[r]
                   new == RestoredRequests(m, d)[r]
               IN  /\ new \in RequestRow
                   /\ new.member = old.member /\ new.type = old.type
                   /\ new.start = old.start /\ new.end = old.end
                   /\ new.status = old.status
                   /\ new.days <= old.days
    <2>1. requests[r] \in RequestRow
      BY DEF TypeOK
    <2>2. CASE r \notin LeaveOn(m, d)
      <3>1. RestoredRequests(m, d)[r] = requests[r]
        BY <2>2 DEF RestoredRequests
      <3> QED
        BY <2>1, <3>1, LedgerConstants DEF RequestRow
    <2>3. CASE r \in LeaveOn(m, d)
      <3> DEFINE old  == requests[r]
                 days == Later(0, old.days - DayUnits)
                 new  == [old EXCEPT !.days = days]
      <3>1. RestoredRequests(m, d)[r] = new
        BY <2>3 DEF RestoredRequests
      <3>2. days \in 0..MaxUnits /\ days <= old.days
        BY <2>1, LedgerConstants DEF RequestRow, Later, DayUnits
      <3> HIDE DEF days
      <3>3. new \in RequestRow
        BY <2>1, <3>2 DEF RequestRow
      <3>4. /\ new.member = old.member /\ new.type = old.type
            /\ new.start = old.start /\ new.end = old.end
            /\ new.status = old.status /\ new.days = days
        BY <2>1 DEF RequestRow
      <3> QED
        BY <3>1, <3>2, <3>3, <3>4
    <2> QED
      BY <2>2, <2>3
  <1> QED
    BY <1>1, <1>2

\* A balance given days back keeps what it grants, and its remaining column.
LEMMA RestoredBalanceRows ==
    ASSUME TypeOK, NEW m \in Member, NEW d \in Date
    PROVE  /\ DOMAIN RestoredBalances(m, d) = DOMAIN balances
           /\ \A k \in DOMAIN balances :
                 LET old == balances[k]
                     new == RestoredBalances(m, d)[k]
                 IN  /\ new \in BalanceRow
                     /\ Entitlement(new) = Entitlement(old)
                     /\ new = old \/ new.remaining = Entitlement(new) - new.used
  <1>1. DOMAIN RestoredBalances(m, d) = DOMAIN balances
    BY DEF RestoredBalances
  <1>2. ASSUME NEW k \in DOMAIN balances
        PROVE  LET old == balances[k]
                   new == RestoredBalances(m, d)[k]
               IN  /\ new \in BalanceRow
                   /\ Entitlement(new) = Entitlement(old)
                   /\ new = old \/ new.remaining = Entitlement(new) - new.used
    <2> DEFINE old   == balances[k]
               freed == {r \in LeaveOn(m, d) :
                            requests[r].days > 0 /\ requests[r].type = k[2]}
               used  == Later(0, old.used - DayUnits * Cardinality(freed))
               new   == Charged(old, used)
    <2>1. old \in BalanceRow
      BY DEF TypeOK
    <2>2. RestoredBalances(m, d)[k] = old \/ RestoredBalances(m, d)[k] = new
      BY DEF RestoredBalances
    <2>3. IsFiniteSet(freed)
      <3>1. freed \subseteq DOMAIN requests
        BY DEF LeaveOn
      <3> QED
        BY <3>1, FS_Subset DEF TypeOK
    <2>4. Cardinality(freed) \in Nat
      BY <2>3, FS_CardinalityType
    <2> HIDE DEF freed
    <2>5. used \in Nat
      BY <2>1, <2>4 DEF BalanceRow, Later, DayUnits
    <2> HIDE DEF used
    <2>6. /\ new \in BalanceRow /\ new.used = used
          /\ new.remaining = Entitlement(old) - used
          /\ Entitlement(new) = Entitlement(old)
      BY <2>1, <2>5, ChargedRow DEF BalanceRow
    <2> HIDE DEF new
    <2> QED
      BY <2>1, <2>2, <2>6
  <1> QED
    BY <1>1, <1>2

-----------------------------------------------------------------------------
(* Sessions.  That at most one is open is stated without cardinalities, and *)
(* an open session is known to have begun on the day of its row: without    *)
(* that, closing it later could leave it outside its day.                   *)

OneSession ==
    \A m \in Member : \A d, e \in OpenDays(m) :
        ~rows[<<m, d>>].manual /\ ~rows[<<m, e>>].manual => d = e

RowIsSound(r, d) ==
    ~r.manual =>
        /\ r.in # NoTime
        /\ r.out = NoTime => StartOf(d) <= r.in /\ r.in < StartOf(d + 1)
        /\ r.out # NoTime => SoundRow(r, d)

RowsAreSound == \A k \in DOMAIN rows : RowIsSound(rows[k], k[2])

SessionInv == AttendanceTypeOK /\ OneSession /\ RowsAreSound

\* What the invariant says of the sessions that run checks state.
LEMMA SessionsFollow == SessionInv => SessionsAreSound
  <1> SUFFICES ASSUME SessionInv
               PROVE  SessionsAreSound
    OBVIOUS
  <1>1. ASSUME NEW m \in Member
        PROVE  Cardinality({d \in OpenDays(m) : ~rows[<<m, d>>].manual}) <= 1
    <2> DEFINE own == {d \in OpenDays(m) : ~rows[<<m, d>>].manual}
    <2>1. \A d, e \in own : d = e
      BY DEF SessionInv, OneSession
    <2> HIDE DEF own
    <2>2. ASSUME own = {}
          PROVE  Cardinality(own) = 0
      BY <2>2, FS_EmptySet
    <2>3. ASSUME NEW x \in own
          PROVE  Cardinality(own) = 1
      <3>1. own = {x}
        BY <2>1
      <3>2. Cardinality({x}) = 1
        BY FS_Singleton, Zenon
      <3> QED
        BY <3>1, <3>2
    <2>4. Cardinality(own) <= 1
      BY <2>2, <2>3
    <2> QED
      BY <2>4 DEF own
  <1>2. ASSUME NEW k \in DOMAIN rows, ~rows[k].manual, rows[k].out # NoTime
        PROVE  SoundRow(rows[k], k[2])
    BY <1>2 DEF SessionInv, RowsAreSound, RowIsSound
  <1> QED
    BY <1>1, <1>2 DEF SessionsAreSound, SoundRow

\* Handlers that leave the rows alone keep what is known of them.
LEMMA RowsUntouched ==
    ASSUME SessionInv, TypeOK', UNCHANGED rows, UNCHANGED plan
    PROVE  SessionInv'
  BY DEF SessionInv, AttendanceTypeOK, OneSession, OpenDays, RowsAreSound

\* One row is replaced by another that is entered by hand, or that tells the same
\* times as the one it replaces.
LEMMA RowReplaced ==
    ASSUME SessionInv, NEW m \in Member, NEW d \in Date, NEW new \in AttendanceRow,
           rows' = Put(rows, <<m, d>>, new), UNCHANGED <<vars, plan>>,
           \/ new.manual
           \/ /\ <<m, d>> \in DOMAIN rows
              /\ new.in = rows[<<m, d>>].in /\ new.out = rows[<<m, d>>].out
              /\ new.hours = rows[<<m, d>>].hours
              /\ new.status = rows[<<m, d>>].status
              /\ new.manual = rows[<<m, d>>].manual
    PROVE  SessionInv'
  <1>1. /\ DOMAIN rows' = DOMAIN rows \cup {<<m, d>>}
        /\ rows'[<<m, d>>] = new
        /\ \A k \in DOMAIN rows : k # <<m, d>> => rows'[k] = rows[k]
    BY DEF Put
  <1>2. AttendanceTypeOK'
    <2>1. TypeOK' /\ UNCHANGED plan
      BY DEF SessionInv, AttendanceTypeOK, TypeOK, vars
    <2>2. <<m, d>> \in DayKey
      BY DEF DayKey
    <2> QED
      BY <1>1, <2>1, <2>2 DEF SessionInv, AttendanceTypeOK
  <1>3. \A n \in Member : \A e \in OpenDays(n)' :
           ~rows'[<<n, e>>].manual =>
              e \in OpenDays(n) /\ ~rows[<<n, e>>].manual
    BY <1>1 DEF OpenDays
  <1>4. OneSession'
    BY <1>3 DEF SessionInv, OneSession
  <1>5. RowIsSound(new, d)
    <2>1. CASE new.manual
      BY <2>1 DEF RowIsSound
    <2>2. CASE ~new.manual
      <3>1. RowIsSound(rows[<<m, d>>], d)
        BY <2>2 DEF SessionInv, RowsAreSound
      <3> QED
        BY <2>2, <3>1 DEF RowIsSound, SoundRow
    <2> QED
      BY <2>1, <2>2
  <1>6. RowsAreSound'
    BY <1>1, <1>5 DEF SessionInv, RowsAreSound
  <1> QED
    BY <1>2, <1>4, <1>6 DEF SessionInv

\* The session that a clock-in opens is the only one the member did not leave
\* to the administrator.
LEMMA ClockInSessions ==
    ASSUME SessionInv, NEW m \in Member, NEW now \in Moment, NEW remote \in BOOLEAN,
           NEW summary \in BOOLEAN, ClockIn(m, now, remote, summary)
    PROVE  AttendanceTypeOK' /\ OneSession' /\ RowsAreSound'
  <1> DEFINE today == DayOf(now)
             key   == <<m, today>>
             stale == StaleClosed(m, today)
             new   == [in |-> now, out |-> NoTime, hours |-> NoTime,
                       status |-> "PRESENT", remote |-> remote, manual |-> FALSE,
                       type |-> "WORK", summary |-> summary]
  <1>1. /\ \A d \in OpenDays(m) : d < today
        /\ rows' = Put(stale, key, new)
        /\ requests' = RestoredRequests(m, today)
        /\ balances' = RestoredBalances(m, today)
        /\ plan' = SyncedPlan(m, today, remote)
        /\ UNCHANGED <<leaveTypes, holidays>>
    BY DEF ClockIn
  <1>2. now \in Nat /\ today \in Date
    BY AttendanceConstants DEF DayOf
  <1>3. key \in DayKey
    BY <1>2 DEF DayKey
  <1>4. new \in AttendanceRow
    BY <1>2 DEF AttendanceRow, AttendanceStatus, NoTime
  <1>5. /\ new.in = now /\ new.out = NoTime /\ new.manual = FALSE
    OBVIOUS
  <1>6. StartOf(today) <= now /\ now < StartOf(today + 1)
    BY <1>2, DayBounds
  <1>7. AttendanceTypeOK
    BY DEF SessionInv
  <1>8. /\ DOMAIN stale = DOMAIN rows
        /\ \A k \in DOMAIN rows :
              /\ stale[k] \in AttendanceRow
              /\ stale[k].in = rows[k].in /\ stale[k].manual = rows[k].manual
              /\ \/ stale[k] = rows[k]
                 \/ /\ k[1] = m /\ k[2] \in OpenDays(m) /\ k[2] < today
                    /\ stale[k].out = ForgottenOut(rows[k].in, k[2])
                    /\ stale[k].hours = stale[k].out - rows[k].in
                    /\ stale[k].status = StatusOf(stale[k].hours)
                    /\ stale[k].out # NoTime
              /\ k[1] = m /\ k[2] \in OpenDays(m) /\ k[2] < today =>
                    stale[k].out # NoTime
    BY <1>2, <1>7, StaleClosedRows
  <1> HIDE DEF new, stale, today
  <1>9. /\ DOMAIN rows' = DOMAIN rows \cup {key}
        /\ rows'[key] = new
        /\ \A k \in DOMAIN rows : k # key => rows'[k] = stale[k]
    BY <1>1, <1>8 DEF Put
  <1> HIDE DEF key
  <1>10. TypeOK'
    <2>1. TypeOK
      BY <1>7 DEF AttendanceTypeOK
    <2>2. /\ DOMAIN requests' = DOMAIN requests
          /\ \A r \in DOMAIN requests : requests'[r] \in RequestRow
      BY <1>1, <1>2, <2>1, RestoredRequestRows
    <2>3. /\ DOMAIN balances' = DOMAIN balances
          /\ \A k \in DOMAIN balances : balances'[k] \in BalanceRow
      BY <1>1, <1>2, <2>1, RestoredBalanceRows
    <2> QED
      BY <1>1, <2>1, <2>2, <2>3 DEF TypeOK
  <1>11. DOMAIN plan' \subseteq DayKey /\ \A k \in DOMAIN plan' : plan'[k] \in Location
    BY <1>1, <1>7 DEF SyncedPlan, AttendanceTypeOK, Location
  <1>12. AttendanceTypeOK'
    BY <1>3, <1>4, <1>7, <1>8, <1>9, <1>10, <1>11 DEF AttendanceTypeOK
  <1>13. OneSession'
    <2>1. \A n \in Member : \A e \in OpenDays(n)' :
             n # m => e \in OpenDays(n) /\ rows'[<<n, e>>] = rows[<<n, e>>]
      BY <1>8, <1>9 DEF OpenDays, key
    <2>2. \A e \in OpenDays(m)' : e = today
      <3> SUFFICES ASSUME NEW e \in OpenDays(m)', e # today
                   PROVE  FALSE
        OBVIOUS
      <3>1. /\ <<m, e>> \in DOMAIN rows /\ rows'[<<m, e>>] = stale[<<m, e>>]
            /\ e \in Date
        BY <1>9 DEF OpenDays, key
      <3>2. stale[<<m, e>>].out = NoTime /\ stale[<<m, e>>].in # NoTime
        BY <3>1 DEF OpenDays
      <3>3. e \in OpenDays(m)
        BY <1>8, <3>1, <3>2 DEF OpenDays
      <3> QED
        BY <1>1, <1>8, <3>1, <3>2, <3>3
    <2> QED
      BY <2>1, <2>2 DEF SessionInv, OneSession
  <1>14. RowsAreSound'
    <2>1. RowIsSound(new, today)
      BY <1>2, <1>5, <1>6 DEF RowIsSound, NoTime
    <2>2. ASSUME NEW k \in DOMAIN rows
          PROVE  RowIsSound(stale[k], k[2])
      <3>1. RowIsSound(rows[k], k[2])
        BY DEF SessionInv, RowsAreSound
      <3>2. CASE stale[k] = rows[k]
        BY <3>1, <3>2
      <3>3. CASE /\ k[1] = m /\ k[2] \in OpenDays(m) /\ k[2] < today
                 /\ stale[k].out = ForgottenOut(rows[k].in, k[2])
                 /\ stale[k].hours = stale[k].out - rows[k].in
                 /\ stale[k].status = StatusOf(stale[k].hours)
                 /\ stale[k].out # NoTime
        <4>1. CASE rows[k].manual
          BY <1>8, <4>1 DEF RowIsSound
        <4>2. CASE ~rows[k].manual
          <5>1. k[2] \in Nat
            <6>1. k[2] \in Date
              BY <3>3 DEF OpenDays
            <6>2. Date \subseteq Nat
              BY Zenon, AttendanceConstants
            <6> QED
              BY <6>1, <6>2, Zenon
          <5>2. k = <<m, k[2]>>
            BY <3>3, <1>7 DEF AttendanceTypeOK, DayKey
          <5>3. rows[k].out = NoTime /\ rows[k].in # NoTime
            BY <3>3, <5>2 DEF OpenDays
          <5>4. rows[k].in \in Nat
            BY <5>3, <1>7 DEF AttendanceTypeOK, AttendanceRow
          <5>5. StartOf(k[2]) <= rows[k].in /\ rows[k].in < StartOf(k[2] + 1)
            BY <3>1, <4>2, <5>3 DEF RowIsSound
          <5>6. SoundRow(stale[k], k[2])
            BY <1>8, <3>3, <5>1, <5>4, <5>5, ForgottenSession
          <5> QED
            BY <1>8, <3>3, <5>3, <5>6 DEF RowIsSound
        <4> QED
          BY <4>1, <4>2
      <3> QED
        BY <1>8, <3>2, <3>3
    <2>3. key[2] = today
      BY DEF key
    <2> QED
      BY <1>9, <2>1, <2>2, <2>3 DEF RowsAreSound
  <1> QED
    BY <1>12, <1>13, <1>14

\* Clocking out replaces the rows of the days the session touched by its parts;
\* whatever else is open stays as it was.
LEMMA ClockOutSessions ==
    ASSUME SessionInv, NEW m \in Member, NEW now \in Moment, NEW summary \in BOOLEAN,
           ClockOut(m, now, summary)
    PROVE  SessionInv'
  <1>1. PICK day \in OpenDays(m) :
           LET in     == rows[<<m, day>>].in
               out    == CappedOut(in, now)
               parts  == {<<m, d>> : d \in SegmentDays(in, out)}
               told   == rows[<<m, day>>].summary
               last(d) == \A e \in SegmentDays(in, out) : e <= d
           IN  /\ now > in
               /\ \A k \in parts : k \in DayKey
               /\ rows' = [k \in DOMAIN rows \cup parts |->
                     IF k \in parts
                     THEN Segment(in, out, k[2], told \/ last(k[2]))
                     ELSE rows[k]]
    BY DEF ClockOut
  <1> DEFINE in     == rows[<<m, day>>].in
             out    == CappedOut(in, now)
             parts  == {<<m, d>> : d \in SegmentDays(in, out)}
  <1>2. AttendanceTypeOK /\ UNCHANGED <<vars, plan>>
    BY DEF SessionInv, ClockOut
  <1>3. in \in Nat /\ now \in Nat /\ in < now
    <2>1. rows[<<m, day>>] \in AttendanceRow /\ in # NoTime
      BY <1>2 DEF OpenDays, AttendanceTypeOK
    <2>2. now \in Nat
      BY AttendanceConstants
    <2> QED
      BY <1>1, <2>1, <2>2 DEF AttendanceRow
  <1>4. /\ DOMAIN rows' = DOMAIN rows \cup parts
        /\ \A k \in DOMAIN rows : k \notin parts => rows'[k] = rows[k]
        /\ parts \subseteq DayKey
    BY <1>1
  <1>5. ASSUME NEW k \in parts
        PROVE  /\ k = <<m, k[2]>>
               /\ rows'[k] \in AttendanceRow
               /\ rows'[k].out # NoTime /\ ~rows'[k].manual
               /\ SoundRow(rows'[k], k[2])
    <2>1. PICK d \in SegmentDays(in, out) : k = <<m, d>>
      OBVIOUS
    <2> DEFINE told == rows[<<m, day>>].summary \/ \A e \in SegmentDays(in, out) : e <= d
    <2>2. k[2] = d
      BY <2>1
    <2>3. rows'[k] = Segment(in, out, d, told)
      BY <1>1, <2>1, <2>2
    <2>4. told \in BOOLEAN
      <3>1. rows[<<m, day>>] \in AttendanceRow
        BY <1>2 DEF OpenDays, AttendanceTypeOK
      <3>2. rows[<<m, day>>].summary \in BOOLEAN
        BY <3>1 DEF AttendanceRow
      <3> QED
        BY <3>2
    <2> HIDE DEF told, in
    <2>5. /\ Segment(in, CappedOut(in, now), d, told) \in AttendanceRow
          /\ Segment(in, CappedOut(in, now), d, told).out # NoTime
          /\ ~Segment(in, CappedOut(in, now), d, told).manual
          /\ SoundRow(Segment(in, CappedOut(in, now), d, told), d)
      BY <1>3, <2>4, SegmentSound
    <2> QED
      BY <2>1, <2>2, <2>3, <2>5
  <1> HIDE DEF parts, in, out
  <1>6. AttendanceTypeOK'
    <2>1. TypeOK' /\ UNCHANGED plan
      BY <1>2 DEF AttendanceTypeOK, TypeOK, vars
    <2>2. DOMAIN rows' \subseteq DayKey
      BY <1>2, <1>4 DEF AttendanceTypeOK
    <2>3. \A k \in DOMAIN rows' : rows'[k] \in AttendanceRow
      BY <1>2, <1>4, <1>5 DEF AttendanceTypeOK
    <2> QED
      BY <1>2, <2>1, <2>2, <2>3 DEF AttendanceTypeOK
  <1>7. \A n \in Member : \A e \in OpenDays(n)' :
           e \in OpenDays(n) /\ rows'[<<n, e>>] = rows[<<n, e>>]
    <2> SUFFICES ASSUME NEW n \in Member, NEW e \in OpenDays(n)'
                 PROVE  e \in OpenDays(n) /\ rows'[<<n, e>>] = rows[<<n, e>>]
      OBVIOUS
    <2>1. <<n, e>> \in DOMAIN rows' /\ e \in Date
          /\ rows'[<<n, e>>].in # NoTime /\ rows'[<<n, e>>].out = NoTime
      BY DEF OpenDays
    <2>2. <<n, e>> \notin parts
      BY <1>5, <2>1
    <2>3. <<n, e>> \in DOMAIN rows /\ rows'[<<n, e>>] = rows[<<n, e>>]
      BY <1>4, <2>1, <2>2
    <2> QED
      BY <2>1, <2>3 DEF OpenDays
  <1>8. OneSession'
    BY <1>7 DEF SessionInv, OneSession
  <1>9. RowsAreSound'
    <2> SUFFICES ASSUME NEW k \in DOMAIN rows'
                 PROVE  RowIsSound(rows'[k], k[2])
      BY DEF RowsAreSound
    <2>1. CASE k \in parts
      <3>1. rows'[k].in # NoTime /\ rows'[k].out # NoTime /\ SoundRow(rows'[k], k[2])
        BY <1>5, <2>1 DEF SoundRow
      <3> QED
        BY <3>1 DEF RowIsSound
    <2>2. CASE k \notin parts
      BY <1>4, <2>2 DEF SessionInv, RowsAreSound
    <2> QED
      BY <2>1, <2>2
  <1> QED
    BY <1>6, <1>8, <1>9 DEF SessionInv

\* What an administrator enters is marked as entered by hand.
LEMMA ManualSessions ==
    ASSUME SessionInv, NEW m \in Member, NEW d \in Date, NEW input \in ManualInput,
           UpsertManualDay(m, d, input)
    PROVE  SessionInv'
  <1>1. input \in [in : Nat \cup {NoTime}, out : Nat \cup {NoTime},
                   type : EntryType \cup {"WORK"}, remote : BOOLEAN]
    BY AttendanceConstants
  <1> DEFINE timed == input.type = "WORK" /\ input.in # NoTime /\ input.out # NoTime
             rest  == [in |-> input.in, out |-> input.out,
                       hours |-> IF input.type = "WORK" THEN NoTime ELSE 0,
                       status |-> IF \/ input.type = "COMP_OFF"
                                     \/ input.type = "WORK" /\ input.in # NoTime
                                  THEN "PRESENT" ELSE "ABSENT",
                       remote |-> input.remote, manual |-> TRUE,
                       type |-> input.type, summary |-> FALSE]
             full  == Worked(input.in, input.out, input.remote, TRUE, FALSE)
             new   == IF timed THEN full ELSE rest
  <1>2. rows' = Put(rows, <<m, d>>, new) /\ UNCHANGED <<vars, plan>>
    BY DEF UpsertManualDay
  <1>3. rest \in AttendanceRow /\ rest.manual
    BY <1>1 DEF AttendanceRow, AttendanceStatus, NoTime
  <1>4. timed => full \in AttendanceRow /\ full.manual
    <2>1. timed => input.in \in Nat /\ input.out \in Nat
      BY <1>1
    <2>2. full.manual = TRUE
      BY DEF Worked
    <2>3. input.remote \in BOOLEAN
      BY <1>1
    <2> QED
      BY <2>1, <2>2, <2>3, WorkedRow
  <1>5. new \in AttendanceRow /\ new.manual
    BY <1>3, <1>4
  <1> HIDE DEF new
  <1> QED
    BY <1>2, <1>5, RowReplaced

\* The remote flag alone changes nothing of a session.
LEMMA RemoteSessions ==
    ASSUME SessionInv, NEW m \in Member, NEW d \in Date, NEW remote \in BOOLEAN,
           SetRemote(m, d, remote)
    PROVE  SessionInv'
  <1> DEFINE old   == rows[<<m, d>>]
             kept  == [old EXCEPT !.remote = remote]
             empty == [in |-> NoTime, out |-> NoTime, hours |-> NoTime,
                       status |-> "ABSENT", remote |-> remote, manual |-> TRUE,
                       type |-> "WORK", summary |-> FALSE]
  <1>1. UNCHANGED <<vars, plan>>
    BY DEF SetRemote
  <1>2. CASE <<m, d>> \in DOMAIN rows
    <2>1. rows' = Put(rows, <<m, d>>, kept)
      BY <1>2 DEF SetRemote
    <2>2. old \in AttendanceRow
      BY <1>2 DEF SessionInv, AttendanceTypeOK
    <2>3. /\ kept \in AttendanceRow
          /\ kept.in = old.in /\ kept.out = old.out /\ kept.hours = old.hours
          /\ kept.status = old.status /\ kept.manual = old.manual
      BY <2>2 DEF AttendanceRow
    <2> HIDE DEF kept
    <2> QED
      BY <1>1, <1>2, <2>1, <2>3, RowReplaced
  <1>3. CASE <<m, d>> \notin DOMAIN rows
    <2>1. rows' = Put(rows, <<m, d>>, empty)
      BY <1>3 DEF SetRemote
    <2>2. empty \in AttendanceRow /\ empty.manual
      BY DEF AttendanceRow, AttendanceStatus, NoTime
    <2> HIDE DEF empty
    <2> QED
      BY <1>1, <2>1, <2>2, RowReplaced
  <1> QED
    BY <1>2, <1>3

LEMMA DeletedSessions ==
    ASSUME SessionInv, NEW m \in Member, NEW d \in Date, DeleteDayEntry(m, d)
    PROVE  SessionInv'
  <1>1. /\ DOMAIN rows' \subseteq DOMAIN rows
        /\ \A k \in DOMAIN rows' : rows'[k] = rows[k]
        /\ UNCHANGED <<vars, plan>>
    BY DEF DeleteDayEntry
  <1>2. AttendanceTypeOK'
    BY <1>1 DEF SessionInv, AttendanceTypeOK, TypeOK, vars
  <1>3. OneSession'
    BY <1>1 DEF SessionInv, OneSession, OpenDays
  <1>4. RowsAreSound'
    BY <1>1 DEF SessionInv, RowsAreSound
  <1> QED
    BY <1>2, <1>3, <1>4 DEF SessionInv

LEMMA PlannedSessions ==
    ASSUME SessionInv, NEW m \in Member, NEW d \in Date,
           ClearDay(m, d) \/ \E where \in PlanInput : SetDay(m, d, where)
    PROVE  SessionInv'
  <1>1. UNCHANGED <<vars, rows>>
    BY DEF ClearDay, SetDay
  <1>2. TypeOK'
    BY <1>1 DEF SessionInv, AttendanceTypeOK, TypeOK, vars
  <1>3. DOMAIN plan' \subseteq DayKey /\ \A k \in DOMAIN plan' : plan'[k] \in Location
    <2>1. DOMAIN plan \subseteq DayKey /\ \A k \in DOMAIN plan : plan[k] \in Location
      BY DEF SessionInv, AttendanceTypeOK
    <2>2. CASE ClearDay(m, d)
      BY <2>1, <2>2 DEF ClearDay
    <2>3. ASSUME NEW where \in PlanInput, SetDay(m, d, where)
          PROVE  DOMAIN plan' \subseteq DayKey /\ \A k \in DOMAIN plan' : plan'[k] \in Location
      <3>1. where \in Location /\ <<m, d>> \in DayKey
        BY AttendanceConstants DEF DayKey
      <3>2. plan' = Put(plan, <<m, d>>, where)
        BY <2>3 DEF SetDay
      <3> QED
        BY <2>1, <3>1, <3>2, PutType
    <2> QED
      BY <2>2, <2>3
  <1>4. AttendanceTypeOK'
    BY <1>1, <1>2, <1>3 DEF SessionInv, AttendanceTypeOK
  <1>5. OneSession' /\ RowsAreSound'
    BY <1>1 DEF SessionInv, OneSession, OpenDays, RowsAreSound
  <1> QED
    BY <1>4, <1>5 DEF SessionInv

LEMMA SessionInit == AttendanceInit => SessionInv
  BY TypeInit DEF AttendanceInit, SessionInv, AttendanceTypeOK, OneSession, OpenDays,
                  RowsAreSound

LEMMA SessionNext == SessionInv /\ [AttendanceNext]_attendanceVars => SessionInv'
  <1> SUFFICES ASSUME SessionInv, [AttendanceNext]_attendanceVars
               PROVE  SessionInv'
    OBVIOUS
  <1>1. CASE AttendanceStep
    <2>1. ASSUME NEW m \in Member, NEW now \in Moment, NEW remote \in BOOLEAN,
                 NEW summary \in BOOLEAN, ClockIn(m, now, remote, summary)
          PROVE  SessionInv'
      BY <2>1, ClockInSessions DEF SessionInv
    <2> QED
      BY <1>1, <2>1, ClockOutSessions, ManualSessions, RemoteSessions,
         DeletedSessions, PlannedSessions DEF AttendanceStep
  <1>2. CASE LeaveStep \/ UNCHANGED attendanceVars
    <2>1. [Next]_vars /\ UNCHANGED rows /\ UNCHANGED plan
      BY <1>2 DEF LeaveStep, attendanceVars
    <2>2. TypeOK
      BY DEF SessionInv, AttendanceTypeOK
    <2> QED
      BY <2>1, <2>2, TypeNext, RowsUntouched
  <1> QED
    BY <1>1, <1>2 DEF AttendanceNext

\* The tables of attendance, leave and plans hold well-typed rows, whatever times
\* members and administrators enter.
THEOREM AttendanceTypeCorrect == AttendanceSpec => []AttendanceTypeOK
  <1>1. SessionInv => AttendanceTypeOK
    BY DEF SessionInv
  <1> QED
    BY <1>1, SessionInit, SessionNext, PTL DEF AttendanceSpec

\* A member has at most one session open that was not entered by hand, and every
\* finished session is sound: within its day, under the cap, with hours and status
\* that agree with its times (service.py:340-398, 659-693).
THEOREM SessionsSound == AttendanceSpec => []SessionsAreSound
  BY SessionsFollow, SessionInit, SessionNext, PTL DEF AttendanceSpec

-----------------------------------------------------------------------------
(* Balances.  A clock-in gives days back, so what a balance has used may     *)
(* fall behind what is approved (LedgerAgrees is lost), but never beyond it: *)
(* BalancesStaySound is inductive with the types alone.                      *)

BalanceInv == TypeOK /\ BalancesStaySound

\* A handler that leaves the balances and the approved requests alone.
LEMMA BalancesUntouched ==
    ASSUME BalanceInv, TypeOK', UNCHANGED balances,
           \A k : ApprovedOn(requests', k) = ApprovedOn(requests, k),
           \A r \in DOMAIN requests :
              requests[r].status = "APPROVED" => requests'[r] = requests[r]
    PROVE  BalanceInv'
  <1>1. \A k : \A r \in ApprovedOn(requests, k) : requests'[r].days = requests[r].days
    BY DEF ApprovedOn
  <1>2. \A k : ApprovedDays(requests', k) = ApprovedDays(requests, k)
    BY <1>1, SameApprovedSameDays
  <1>3. ASSUME NEW r \in DOMAIN requests', requests'[r].status = "APPROVED"
        PROVE  /\ r \in DOMAIN requests /\ requests[r].status = "APPROVED"
               /\ requests'[r] = requests[r]
    <2>1. r \in ApprovedOn(requests', KeyOf(requests'[r]))
      BY <1>3 DEF ApprovedOn
    <2> QED
      BY <2>1 DEF ApprovedOn
  <1>4. NeverOverdrawn'
    BY <1>2, <1>3 DEF BalanceInv, BalancesStaySound, NeverOverdrawn
  <1> QED
    BY <1>4 DEF BalanceInv, BalancesStaySound

\* A handler that writes the balance row of k, in agreement with itself, and
\* leaves every key covered.
LEMMA BalanceWritten ==
    ASSUME BalanceInv, TypeOK', NEW k, NEW row, balances' = Put(balances, k, row),
           row.remaining = Entitlement(row) - row.used,
           \A x \in DOMAIN requests' : requests'[x].status = "APPROVED" =>
              \/ /\ KeyOf(requests'[x]) = k
                 /\ ApprovedDays(requests', k) <= Entitlement(row)
              \/ /\ KeyOf(requests'[x]) # k
                 /\ KeyOf(requests'[x]) \in DOMAIN balances
                 /\ ApprovedDays(requests', KeyOf(requests'[x])) <=
                       Entitlement(balances[KeyOf(requests'[x])])
    PROVE  BalanceInv'
  <1>1. /\ DOMAIN balances' = DOMAIN balances \cup {k}
        /\ balances'[k] = row
        /\ \A x \in DOMAIN balances : x # k => balances'[x] = balances[x]
    BY DEF Put
  <1>2. NeverOverdrawn'
    <2> SUFFICES ASSUME NEW x \in DOMAIN requests', requests'[x].status = "APPROVED"
                 PROVE  /\ KeyOf(requests'[x]) \in DOMAIN balances'
                        /\ ApprovedDays(requests', KeyOf(requests'[x])) <=
                              Entitlement(balances'[KeyOf(requests'[x])])
      BY DEF NeverOverdrawn
    <2> QED
      BY <1>1
  <1>3. \A x \in DOMAIN balances' :
           balances'[x].remaining = Entitlement(balances'[x]) - balances'[x].used
    BY <1>1 DEF BalanceInv, BalancesStaySound
  <1> QED
    BY <1>2, <1>3 DEF BalanceInv, BalancesStaySound

LEMMA CreateKeepsBalances ==
    ASSUME BalanceInv, TypeOK',
           NEW r \in RequestId, NEW m \in Member, NEW t \in LeaveType,
           NEW start \in Date, NEW end \in Date, NEW d \in DayInput,
           CreateLeaveRequest(r, m, t, start, end, d)
    PROVE  BalanceInv'
  <1> DEFINE k   == <<m, t, YearOf[start]>>
             row == [member |-> m, type |-> t, start |-> start, end |-> end,
                     days |-> Chargeable(start, end, d), status |-> "PENDING"]
  <1>1. /\ r \notin DOMAIN requests
        /\ requests' = Put(requests, r, row)
        /\ balances' = Put(balances, k, BalanceOrNew(k)) \/ balances' = balances
        /\ t \in DOMAIN leaveTypes
    BY DEF CreateLeaveRequest
  <1>2. row.status = "PENDING"
    OBVIOUS
  <1>3. k \in BalanceKey /\ k[2] = t
    BY LedgerConstants DEF BalanceKey
  <1> HIDE DEF k, row
  <1>4. /\ DOMAIN requests' = DOMAIN requests \cup {r}
        /\ requests'[r] = row
        /\ \A x \in DOMAIN requests : requests'[x] = requests[x]
    BY <1>1 DEF Put
  <1>5. \A j : ApprovedOn(requests', j) = ApprovedOn(requests, j)
    BY <1>1, <1>2, <1>4 DEF ApprovedOn
  <1>6. CASE balances' = balances
    BY <1>4, <1>5, <1>6, BalancesUntouched
  <1>7. CASE balances' = Put(balances, k, BalanceOrNew(k))
    <2>1. \A j : ApprovedDays(requests', j) = ApprovedDays(requests, j)
      <3>1. \A j : \A x \in ApprovedOn(requests, j) :
               requests'[x].days = requests[x].days
        BY <1>4 DEF ApprovedOn
      <3> QED
        BY <1>5, <3>1, SameApprovedSameDays
    <2>2. k \in DOMAIN balances => BalanceOrNew(k) = balances[k]
      BY DEF BalanceOrNew
    <2>3. BalanceOrNew(k).remaining = Entitlement(BalanceOrNew(k)) - BalanceOrNew(k).used
      <3>1. ApprovedDays(requests, k) \in Nat
        BY ChargedUnitsFinite DEF BalanceInv, TypeOK
      <3>2. leaveTypes[k[2]].quota \in Nat
        BY <1>1, <1>3 DEF BalanceInv, TypeOK, LeaveTypeRow
      <3>3. CASE k \notin DOMAIN balances
        BY <3>1, <3>2, <3>3, ChargedRow DEF BalanceOrNew
      <3> QED
        BY <2>2, <3>3 DEF BalanceInv, BalancesStaySound
    <2>4. ASSUME NEW x \in DOMAIN requests', requests'[x].status = "APPROVED"
          PROVE  /\ KeyOf(requests'[x]) \in DOMAIN balances
                 /\ ApprovedDays(requests', KeyOf(requests'[x])) <=
                       Entitlement(balances[KeyOf(requests'[x])])
      <3>1. x \in DOMAIN requests /\ requests'[x] = requests[x]
        BY <1>2, <1>4, <2>4
      <3> QED
        BY <2>1, <2>4, <3>1 DEF BalanceInv, BalancesStaySound, NeverOverdrawn
    <2> QED
      BY <1>7, <2>2, <2>3, <2>4, BalanceWritten
  <1> QED
    BY <1>1, <1>6, <1>7

LEMMA ApproveKeepsBalances ==
    ASSUME BalanceInv, TypeOK', NEW r \in RequestId, ApproveLeaveRequest(r)
    PROVE  BalanceInv'
  <1> DEFINE k    == KeyOf(requests[r])
             used == ApprovedDays(requests, k) + requests[r].days
             row  == Charged(BalanceOrNew(k), used)
  <1>1. /\ r \in DOMAIN requests
        /\ requests[r].status = "PENDING"
        /\ requests[r].type \in DOMAIN leaveTypes
        /\ row.remaining >= 0
        /\ balances' = Put(balances, k, row)
        /\ requests' = [requests EXCEPT ![r].status = "APPROVED"]
    BY DEF ApproveLeaveRequest
  <1>2. requests[r] \in RequestRow
    BY <1>1 DEF BalanceInv, TypeOK
  <1>3. k \in BalanceKey /\ k[2] \in DOMAIN leaveTypes
    BY <1>1, <1>2, KeyOfType
  <1>4. ApprovedDays(requests, k) \in Nat /\ used \in Nat
    BY <1>2, ChargedUnitsFinite, LedgerConstants DEF BalanceInv, TypeOK, RequestRow
  <1>5. BalanceOrNew(k) \in BalanceRow
    BY <1>3, BalanceOrNewType DEF BalanceInv
  <1>6. /\ row.used = used
        /\ row.remaining = Entitlement(row) - used
        /\ Entitlement(row) \in Int
    BY <1>4, <1>5, ChargedRow DEF BalanceRow
  <1>7. /\ DOMAIN requests' = DOMAIN requests
        /\ \A x \in DOMAIN requests : x # r => requests'[x] = requests[x]
        /\ requests'[r].status = "APPROVED"
        /\ requests'[r].days = requests[r].days
        /\ KeyOf(requests'[r]) = k
    BY <1>1, <1>2 DEF KeyOf, RequestRow
  <1>8. \A j : ApprovedDays(requests', j) =
                 IF j = k THEN used ELSE ApprovedDays(requests, j)
    <2>1. /\ r \in DOMAIN requests
          /\ IsFiniteSet(DOMAIN requests)
          /\ requests[r].days \in 0..MaxUnits
          /\ requests[r].status # "APPROVED"
      BY <1>1, <1>2 DEF BalanceInv, TypeOK, RequestRow
    <2>2. /\ DOMAIN requests' = DOMAIN requests
          /\ \A x \in DOMAIN requests : x # r => requests'[x] = requests[x]
          /\ requests'[r].status = "APPROVED"
          /\ requests'[r].days = requests[r].days
          /\ KeyOf(requests'[r]) = KeyOf(requests[r])
      BY <1>7
    <2>3. \A j : ApprovedDays(requests', j) =
                   IF j = KeyOf(requests[r])
                   THEN ApprovedDays(requests, j) + requests[r].days
                   ELSE ApprovedDays(requests, j)
      BY <2>1, <2>2, ApprovalCharges
    <2> QED
      BY <2>3
  <1> HIDE DEF k, used, row
  <1>9. used <= Entitlement(row)
    BY <1>1, <1>4, <1>6
  <1>10. ASSUME NEW x \in DOMAIN requests', requests'[x].status = "APPROVED"
         PROVE  \/ /\ KeyOf(requests'[x]) = k
                   /\ ApprovedDays(requests', k) <= Entitlement(row)
                \/ /\ KeyOf(requests'[x]) # k
                   /\ KeyOf(requests'[x]) \in DOMAIN balances
                   /\ ApprovedDays(requests', KeyOf(requests'[x])) <=
                         Entitlement(balances[KeyOf(requests'[x])])
    <2>1. CASE KeyOf(requests'[x]) = k
      BY <1>8, <1>9, <2>1
    <2>2. CASE KeyOf(requests'[x]) # k
      BY <1>7, <1>8, <1>10, <2>2 DEF BalanceInv, BalancesStaySound, NeverOverdrawn
    <2> QED
      BY <2>1, <2>2
  <1>11. row.remaining = Entitlement(row) - row.used
    BY <1>6
  <1> QED
    BY <1>1, <1>10, <1>11, BalanceWritten

LEMMA UpsertKeepsBalances ==
    ASSUME BalanceInv, TypeOK', NEW k \in BalanceKey, NEW in \in BalanceInput,
           UpsertLeaveBalance(k, in)
    PROVE  BalanceInv'
  <1> DEFINE used == ApprovedDays(requests, k)
             row  == Charged(in, used)
  <1>1. row.remaining >= 0 /\ balances' = Put(balances, k, row) /\ requests' = requests
    BY DEF UpsertLeaveBalance
  <1>2. used \in Nat
    BY ChargedUnitsFinite DEF BalanceInv, TypeOK
  <1>3. in.allocated \in Nat /\ in.carriedForward \in Nat /\ in.lapsed \in Nat
    BY LedgerConstants
  <1>4. /\ row.used = used
        /\ row.remaining = Entitlement(row) - used
        /\ Entitlement(row) \in Int
    BY <1>2, <1>3, ChargedRow
  <1>5. used <= Entitlement(row)
    BY <1>1, <1>2, <1>4
  <1> HIDE DEF row
  <1>6. ASSUME NEW x \in DOMAIN requests', requests'[x].status = "APPROVED"
        PROVE  \/ /\ KeyOf(requests'[x]) = k
                  /\ ApprovedDays(requests', k) <= Entitlement(row)
               \/ /\ KeyOf(requests'[x]) # k
                  /\ KeyOf(requests'[x]) \in DOMAIN balances
                  /\ ApprovedDays(requests', KeyOf(requests'[x])) <=
                        Entitlement(balances[KeyOf(requests'[x])])
    BY <1>1, <1>5, <1>6 DEF BalanceInv, BalancesStaySound, NeverOverdrawn
  <1>7. row.remaining = Entitlement(row) - row.used
    BY <1>4
  <1> QED
    BY <1>1, <1>6, <1>7, BalanceWritten

LEMMA LeaveKeepsBalances == BalanceInv /\ [Next]_vars => BalanceInv'
  <1> SUFFICES ASSUME BalanceInv, [Next]_vars
               PROVE  BalanceInv'
    OBVIOUS
  <1>0. TypeOK'
    BY TypeNext DEF BalanceInv
  <1>1. CASE UNCHANGED <<requests, balances>>
    BY <1>0, <1>1, BalancesUntouched
  <1>2. ASSUME NEW t \in LeaveType, NEW q \in Quota, NEW p \in BOOLEAN,
               CreateLeaveType(t, q, p) \/ UpdateLeaveType(t, q, p)
        PROVE  BalanceInv'
    BY <1>1, <1>2 DEF CreateLeaveType, UpdateLeaveType
  <1>3. ASSUME NEW h \in HolidayId,
               \/ \E d \in Date : CreateHoliday(h, d) \/ UpdateHoliday(h, d)
               \/ DeleteHoliday(h)
        PROVE  BalanceInv'
    BY <1>1, <1>3 DEF CreateHoliday, UpdateHoliday, DeleteHoliday
  <1>4. ASSUME NEW r \in RequestId, NEW s \in RequestStatus \ {"APPROVED"},
               Decision(r, s), UNCHANGED balances
        PROVE  BalanceInv'
    <2>1. \A x \in DOMAIN requests :
             requests[x].status = "APPROVED" => requests'[x] = requests[x]
      BY <1>4 DEF Decision
    <2>2. \A k : ApprovedOn(requests', k) = ApprovedOn(requests, k)
      BY <1>4 DEF Decision, ApprovedOn, BalanceInv, TypeOK, RequestRow
    <2> QED
      BY <1>0, <1>4, <2>1, <2>2, BalancesUntouched
  <1>5. ASSUME NEW r \in RequestId,
               \/ RejectLeaveRequest(r)
               \/ \E m \in Member, any \in BOOLEAN : CancelLeaveRequest(r, m, any)
        PROVE  BalanceInv'
    <2>1. /\ Decision(r, "REJECTED") \/ Decision(r, "CANCELLED")
          /\ UNCHANGED balances
      BY <1>5 DEF RejectLeaveRequest, CancelLeaveRequest, Decision
    <2> QED
      BY <1>4, <2>1 DEF RequestStatus
  <1>6. CASE UNCHANGED vars
    BY <1>1, <1>6 DEF vars
  <1> QED
    BY <1>0, <1>2, <1>3, <1>5, <1>6, CreateKeepsBalances, ApproveKeepsBalances,
       UpsertKeepsBalances DEF Next, AdminStep, RequestStep

\* The sum of approved days falls when approved requests are charged less.
LEMMA LessCharged ==
    ASSUME NEW reqs, NEW new, NEW k, IsFiniteSet(DOMAIN reqs),
           ApprovedOn(new, k) = ApprovedOn(reqs, k),
           \A r \in ApprovedOn(reqs, k) :
              new[r].days \in Int /\ reqs[r].days \in Int /\ new[r].days <= reqs[r].days
    PROVE  ApprovedDays(new, k) <= ApprovedDays(reqs, k)
  <1>1. ChargedUnits(new, k) \subseteq ChargedUnits(reqs, k)
    <2> SUFFICES ASSUME NEW u \in ChargedUnits(new, k)
                 PROVE  u \in ChargedUnits(reqs, k)
      OBVIOUS
    <2>1. /\ u \in ApprovedOn(reqs, k) \X (1..MaxUnits)
          /\ u[2] <= new[u[1]].days
      BY DEF ChargedUnits
    <2>2. u[1] \in ApprovedOn(reqs, k) /\ u[2] \in 1..MaxUnits
      BY <2>1
    <2>3. u[2] <= reqs[u[1]].days
      BY <2>1, <2>2, LedgerConstants
    <2> QED
      BY <2>1, <2>3 DEF ChargedUnits
  <1>2. IsFiniteSet(ChargedUnits(reqs, k))
    BY ChargedUnitsFinite
  <1> QED
    BY <1>1, <1>2, FS_Subset DEF ApprovedDays

\* Days a clock-in gives back leave every balance covered.
LEMMA ClockInBalances ==
    ASSUME BalanceInv, TypeOK', NEW m \in Member, NEW now \in Moment,
           NEW remote \in BOOLEAN, NEW summary \in BOOLEAN,
           ClockIn(m, now, remote, summary)
    PROVE  BalanceInv'
  <1> DEFINE today == DayOf(now)
  <1>1. /\ requests' = RestoredRequests(m, today)
        /\ balances' = RestoredBalances(m, today)
    BY DEF ClockIn
  <1>2. today \in Date
    BY AttendanceConstants DEF DayOf
  <1>3. TypeOK
    BY DEF BalanceInv
  <1> HIDE DEF today
  <1>4. /\ DOMAIN requests' = DOMAIN requests
        /\ \A r \in DOMAIN requests :
              /\ requests'[r] \in RequestRow
              /\ requests'[r].member = requests[r].member
              /\ requests'[r].type = requests[r].type
              /\ requests'[r].start = requests[r].start
              /\ requests'[r].status = requests[r].status
              /\ requests'[r].days <= requests[r].days
    BY <1>1, <1>2, <1>3, RestoredRequestRows
  <1>5. /\ DOMAIN balances' = DOMAIN balances
        /\ \A k \in DOMAIN balances :
              /\ Entitlement(balances'[k]) = Entitlement(balances[k])
              /\ \/ balances'[k] = balances[k]
                 \/ balances'[k].remaining =
                       Entitlement(balances'[k]) - balances'[k].used
    BY <1>1, <1>2, <1>3, RestoredBalanceRows
  <1>6. \A r \in DOMAIN requests : KeyOf(requests'[r]) = KeyOf(requests[r])
    BY <1>4 DEF KeyOf
  <1>7. ASSUME NEW k
        PROVE  ApprovedDays(requests', k) <= ApprovedDays(requests, k)
    <2>1. ApprovedOn(requests', k) = ApprovedOn(requests, k)
      BY <1>4, <1>6 DEF ApprovedOn
    <2>2. \A r \in ApprovedOn(requests, k) :
             /\ requests'[r].days \in Int /\ requests[r].days \in Int
             /\ requests'[r].days <= requests[r].days
      BY <1>3, <1>4, LedgerConstants DEF ApprovedOn, TypeOK, RequestRow
    <2>3. IsFiniteSet(DOMAIN requests)
      BY <1>3 DEF TypeOK
    <2> QED
      BY <2>1, <2>2, <2>3, LessCharged
  <1>8. \A k : ApprovedDays(requests', k) \in Nat /\ ApprovedDays(requests, k) \in Nat
    BY <1>3, ChargedUnitsFinite DEF TypeOK
  <1>9. \A k \in DOMAIN balances : Entitlement(balances[k]) \in Int
    BY <1>3 DEF TypeOK, BalanceRow, Entitlement
  <1>10. NeverOverdrawn'
    <2> SUFFICES ASSUME NEW x \in DOMAIN requests', requests'[x].status = "APPROVED"
                 PROVE  /\ KeyOf(requests'[x]) \in DOMAIN balances'
                        /\ ApprovedDays(requests', KeyOf(requests'[x])) <=
                              Entitlement(balances'[KeyOf(requests'[x])])
      BY DEF NeverOverdrawn
    <2>1. x \in DOMAIN requests /\ requests[x].status = "APPROVED"
      BY <1>4
    <2>2. /\ KeyOf(requests[x]) \in DOMAIN balances
          /\ ApprovedDays(requests, KeyOf(requests[x])) <=
                Entitlement(balances[KeyOf(requests[x])])
      BY <2>1 DEF BalanceInv, BalancesStaySound, NeverOverdrawn
    <2>3. KeyOf(requests'[x]) = KeyOf(requests[x])
      BY <1>6, <2>1
    <2> QED
      BY <1>5, <1>7, <1>8, <1>9, <2>2, <2>3
  <1>11. \A k \in DOMAIN balances' :
            balances'[k].remaining = Entitlement(balances'[k]) - balances'[k].used
    BY <1>5 DEF BalanceInv, BalancesStaySound
  <1> QED
    BY <1>10, <1>11 DEF BalanceInv, BalancesStaySound

\* What the members and the administrators do keeps balances sound.
LEMMA BalanceNext ==
    SessionInv /\ BalanceInv /\ [AttendanceNext]_attendanceVars => BalanceInv'
  <1> SUFFICES ASSUME SessionInv, BalanceInv, [AttendanceNext]_attendanceVars
               PROVE  BalanceInv'
    OBVIOUS
  <1>1. TypeOK'
    BY SessionNext DEF SessionInv, AttendanceTypeOK
  <1>2. CASE [Next]_vars
    BY <1>2, LeaveKeepsBalances
  <1>3. ASSUME NEW m \in Member, NEW now \in Moment, NEW remote \in BOOLEAN,
               NEW summary \in BOOLEAN, ClockIn(m, now, remote, summary)
        PROVE  BalanceInv'
    BY <1>1, <1>3, ClockInBalances
  <1>4. ASSUME NEW m \in Member,
               \/ \E now \in Moment, summary \in BOOLEAN : ClockOut(m, now, summary)
               \/ \E d \in Date :
                     \/ \E input \in ManualInput : UpsertManualDay(m, d, input)
                     \/ \E remote \in BOOLEAN : SetRemote(m, d, remote)
                     \/ DeleteDayEntry(m, d)
                     \/ ClearDay(m, d)
                     \/ \E where \in PlanInput : SetDay(m, d, where)
        PROVE  UNCHANGED vars
    BY <1>4 DEF ClockOut, UpsertManualDay, SetRemote, DeleteDayEntry, ClearDay, SetDay
  <1>5. CASE LeaveStep \/ UNCHANGED attendanceVars
    BY <1>2, <1>5 DEF LeaveStep, attendanceVars
  <1> QED
    BY <1>2, <1>3, <1>4, <1>5 DEF AttendanceNext, AttendanceStep

\* Whichever handler of leave or attendance wrote a balance last, its remaining
\* column is what it grants less what is used, and it covers the approved leave.
THEOREM BalancesSound == AttendanceSpec => []BalancesStaySound
  <1>1. AttendanceInit => BalanceInv
    BY LedgerInit DEF AttendanceInit, Init, BalanceInv, BalancesStaySound, LedgerInv
  <1>2. BalanceInv => BalancesStaySound
    BY DEF BalanceInv
  <1> QED
    BY <1>1, <1>2, SessionInit, SessionNext, BalanceNext, PTL DEF AttendanceSpec

-----------------------------------------------------------------------------
(* Clocking in on a day of leave does not touch who is on leave when.      *)

LEMMA AttendanceBooking ==
    SessionInv /\ NoDoubleBooking /\ [AttendanceNext]_attendanceVars => NoDoubleBooking'
  <1> SUFFICES ASSUME SessionInv, NoDoubleBooking, [AttendanceNext]_attendanceVars
               PROVE  NoDoubleBooking'
    OBVIOUS
  <1>1. TypeOK
    BY DEF SessionInv, AttendanceTypeOK
  <1>2. CASE [Next]_vars
    BY <1>1, <1>2, BookingNext
  <1>3. ASSUME NEW m \in Member, NEW now \in Moment, NEW remote \in BOOLEAN,
               NEW summary \in BOOLEAN, ClockIn(m, now, remote, summary)
        PROVE  NoDoubleBooking'
    <2>1. requests' = RestoredRequests(m, DayOf(now)) /\ DayOf(now) \in Date
      BY <1>3, AttendanceConstants DEF ClockIn, DayOf
    <2>2. /\ DOMAIN requests' = DOMAIN requests
          /\ \A r \in DOMAIN requests :
                /\ requests'[r].member = requests[r].member
                /\ requests'[r].start = requests[r].start
                /\ requests'[r].end = requests[r].end
                /\ requests'[r].status = requests[r].status
      BY <1>1, <2>1, RestoredRequestRows
    <2> QED
      BY <2>2 DEF NoDoubleBooking, Overlap
  <1>4. ASSUME NEW m \in Member,
               \/ \E now \in Moment, summary \in BOOLEAN : ClockOut(m, now, summary)
               \/ \E d \in Date :
                     \/ \E input \in ManualInput : UpsertManualDay(m, d, input)
                     \/ \E remote \in BOOLEAN : SetRemote(m, d, remote)
                     \/ DeleteDayEntry(m, d)
                     \/ ClearDay(m, d)
                     \/ \E where \in PlanInput : SetDay(m, d, where)
        PROVE  UNCHANGED vars
    BY <1>4 DEF ClockOut, UpsertManualDay, SetRemote, DeleteDayEntry, ClearDay, SetDay
  <1>5. CASE LeaveStep \/ UNCHANGED attendanceVars
    BY <1>2, <1>5 DEF LeaveStep, attendanceVars
  <1> QED
    BY <1>2, <1>3, <1>4, <1>5 DEF AttendanceNext, AttendanceStep

\* Members who clock in and out on days of leave are not booked twice either.
THEOREM AttendanceBooksOnce == AttendanceSpec => []NoDoubleBooking
  <1>1. AttendanceInit => NoDoubleBooking
    BY DEF AttendanceInit, Init, NoDoubleBooking
  <1> QED
    BY <1>1, SessionInit, SessionNext, AttendanceBooking, PTL DEF AttendanceSpec

-----------------------------------------------------------------------------
(* The report. *)

\* At most one approved leave covers a day.
LEMMA OneLeave ==
    ASSUME TypeOK, NoDoubleBooking, NEW m, NEW d \in Int, NEW r \in LeaveOn(m, d), NEW q \in LeaveOn(m, d)
    PROVE  r = q
<1>1. /\ r \in DOMAIN requests /\ q \in DOMAIN requests
      /\ requests[r].member = requests[q].member
      /\ requests[r].status \in LiveStatus /\ requests[q].status \in LiveStatus
  BY DEF LeaveOn, LiveStatus
<1>2. /\ requests[r].start \in Int /\ requests[r].end \in Int
      /\ requests[q].start \in Int /\ requests[q].end \in Int
  BY <1>1, LedgerConstants DEF TypeOK, RequestRow
<1>3. Overlap(requests[r], requests[q].start, requests[q].end)
  BY <1>2 DEF LeaveOn, Overlap
<1> QED BY <1>1, <1>3 DEF NoDoubleBooking

\* The lines of days on leave.
LEMMA LeaveLine ==
    ASSUME AttendanceTypeOK, NEW from \in Date, NEW to \in Date, NEW page, NEW l
    PROVE  l \in LeaveLines(page, from, to) <=>
                \E r \in DOMAIN requests, d \in from..to :
                   /\ r \in LeaveOn(requests[r].member, d) /\ <<requests[r].member, d>> \notin page
                   /\ l = [member |-> requests[r].member, day |-> d, hours |-> 0, leave |-> r]
<1>2. \A r \in DOMAIN requests : /\ requests[r].start \in Int /\ requests[r].end \in Int
                                 /\ requests[r].start \in Date /\ requests[r].end \in Date
  BY LedgerConstants DEF AttendanceTypeOK, TypeOK, RequestRow
<1>3. from..to \subseteq Date /\ from \in Int /\ to \in Int /\ Date \subseteq Int
  BY DaysAreConsecutive, LedgerConstants
<1>4. ASSUME l \in LeaveLines(page, from, to)
      PROVE  \E r \in DOMAIN requests, d \in from..to :
                   /\ r \in LeaveOn(requests[r].member, d) /\ <<requests[r].member, d>> \notin page
                   /\ l = [member |-> requests[r].member, day |-> d, hours |-> 0, leave |-> r]
  <2>1. PICK x \in (DOMAIN requests) \X Date :
                 /\ requests[x[1]].status = "APPROVED"
                 /\ x[2] \in Later(requests[x[1]].start, from)..Earlier(requests[x[1]].end, to)
                 /\ <<requests[x[1]].member, x[2]>> \notin page
                 /\ l = [member |-> requests[x[1]].member, day |-> x[2], hours |-> 0, leave |-> x[1]]
    BY <1>4 DEF LeaveLines
  <2> DEFINE r == x[1]
             d == x[2]
  <2>2. r \in DOMAIN requests /\ d \in Int
    BY <1>3
  <2>3. d \in from..to /\ requests[r].start <= d /\ d <= requests[r].end
    BY <1>2, <1>3, <2>1, <2>2 DEF Later, Earlier
  <2>4. r \in LeaveOn(requests[r].member, d)
    BY <2>1, <2>2, <2>3 DEF LeaveOn
  <2> QED BY <2>1, <2>2, <2>3, <2>4
<1>5. ASSUME NEW r \in DOMAIN requests, NEW d \in from..to,
             r \in LeaveOn(requests[r].member, d), <<requests[r].member, d>> \notin page,
             l = [member |-> requests[r].member, day |-> d, hours |-> 0, leave |-> r]
      PROVE  l \in LeaveLines(page, from, to)
  <2> DEFINE x == <<r, d>>
  <2>1. x \in (DOMAIN requests) \X Date /\ x[1] = r /\ x[2] = d
    BY <1>3, <1>5
  <2>2. /\ requests[r].status = "APPROVED" /\ requests[r].start <= d /\ d <= requests[r].end
        /\ d \in Int /\ from <= d /\ d <= to
    BY <1>3, <1>5 DEF LeaveOn
  <2>3. /\ requests[r].start <= to /\ requests[r].end >= from
        /\ d \in Later(requests[r].start, from)..Earlier(requests[r].end, to)
    BY <1>2, <1>3, <2>2 DEF Later, Earlier
  <2> HIDE DEF x
  <2> QED BY <1>5, <2>1, <2>2, <2>3 DEF LeaveLines
<1> QED BY <1>4, <1>5

\* A report tells of the days of the period, each once.
LEMMA LineOf ==
    ASSUME AttendanceTypeOK, NoDoubleBooking, NEW from \in Date, NEW to \in Date,
           NEW page, page = ReportRows({}, from, to),
           NEW lines, lines = WorkLines(page) \cup LeaveLines(page, from, to)
    PROVE  /\ \A l \in lines : /\ l.day \in from..to /\ l.member \in Member
                               /\ l.leave \in LeaveOn(l.member, l.day) \/ LeaveOn(l.member, l.day) = {}
                               /\ LeaveOn(l.member, l.day) # {} \/ <<l.member, l.day>> \in DOMAIN rows
           /\ \A l, k \in lines : l.member = k.member /\ l.day = k.day => l = k
           /\ \A m \in Member, d \in from..to :
                LeaveOn(m, d) # {} \/ <<m, d>> \in DOMAIN rows =>
                   \E l \in lines : l.member = m /\ l.day = d
<1>1. from \in Int /\ to \in Int /\ from..to \subseteq Date /\ Date \subseteq Int
  BY DaysAreConsecutive, LedgerConstants
<1>2. /\ \A k \in page : k \in DOMAIN rows /\ k = <<k[1], k[2]>> /\ k[1] \in Member /\ k[2] \in from..to
      /\ \A m \in Member, d \in from..to : <<m, d>> \in DOMAIN rows => <<m, d>> \in page
  BY DEF ReportRows, AttendanceTypeOK, DayKey
<1>3. \A r \in DOMAIN requests : requests[r].member \in Member
  BY DEF AttendanceTypeOK, TypeOK, RequestRow
<1>4. \A l \in lines :
        \/ /\ <<l.member, l.day>> \in page
           /\ l.hours = rows[<<l.member, l.day>>].hours
           /\ l.leave \in IF LeaveOn(l.member, l.day) = {} THEN {"none"} ELSE LeaveOn(l.member, l.day)
           /\ l.member \in Member /\ l.day \in from..to
           /\ l = [member |-> l.member, day |-> l.day, hours |-> l.hours, leave |-> l.leave]
        \/ /\ <<l.member, l.day>> \notin page
           /\ l.hours = 0 /\ l.leave \in LeaveOn(l.member, l.day)
           /\ l.member \in Member /\ l.day \in from..to
           /\ l = [member |-> l.member, day |-> l.day, hours |-> l.hours, leave |-> l.leave]
  <2> SUFFICES ASSUME NEW l \in lines
               PROVE  \/ /\ <<l.member, l.day>> \in page
                         /\ l.hours = rows[<<l.member, l.day>>].hours
                         /\ l.leave \in IF LeaveOn(l.member, l.day) = {} THEN {"none"} ELSE LeaveOn(l.member, l.day)
                         /\ l.member \in Member /\ l.day \in from..to
                         /\ l = [member |-> l.member, day |-> l.day, hours |-> l.hours, leave |-> l.leave]
                      \/ /\ <<l.member, l.day>> \notin page
                         /\ l.hours = 0 /\ l.leave \in LeaveOn(l.member, l.day)
                         /\ l.member \in Member /\ l.day \in from..to
                         /\ l = [member |-> l.member, day |-> l.day, hours |-> l.hours, leave |-> l.leave]
    OBVIOUS
  <2>1. CASE l \in WorkLines(page)
    <3>1. PICK k \in page : \E r \in IF LeaveOn(k[1], k[2]) = {} THEN {"none"} ELSE LeaveOn(k[1], k[2]) :
                   l = [member |-> k[1], day |-> k[2], hours |-> rows[k].hours, leave |-> r]
      BY <2>1 DEF WorkLines
    <3>2. PICK r \in IF LeaveOn(k[1], k[2]) = {} THEN {"none"} ELSE LeaveOn(k[1], k[2]) :
                   l = [member |-> k[1], day |-> k[2], hours |-> rows[k].hours, leave |-> r]
      BY <3>1
    <3>3. /\ l.member = k[1] /\ l.day = k[2] /\ l.hours = rows[k].hours /\ l.leave = r
          /\ l = [member |-> l.member, day |-> l.day, hours |-> l.hours, leave |-> l.leave]
      BY <3>2
    <3>4. <<l.member, l.day>> = k
      BY <1>2, <3>3
    <3> QED BY <1>2, <3>2, <3>3, <3>4
  <2>2. CASE l \in LeaveLines(page, from, to)
    <3>1. PICK r \in DOMAIN requests, d \in from..to :
                   /\ r \in LeaveOn(requests[r].member, d) /\ <<requests[r].member, d>> \notin page
                   /\ l = [member |-> requests[r].member, day |-> d, hours |-> 0, leave |-> r]
      BY <2>2, LeaveLine
    <3>2. /\ l.member = requests[r].member /\ l.day = d /\ l.hours = 0 /\ l.leave = r
          /\ l = [member |-> l.member, day |-> l.day, hours |-> l.hours, leave |-> l.leave]
      BY <3>1
    <3> QED BY <1>3, <3>1, <3>2
  <2> QED BY <2>1, <2>2
<1>5. \A l \in lines : /\ l.day \in from..to /\ l.member \in Member
                       /\ l.leave \in LeaveOn(l.member, l.day) \/ LeaveOn(l.member, l.day) = {}
                       /\ LeaveOn(l.member, l.day) # {} \/ <<l.member, l.day>> \in DOMAIN rows
  BY <1>2, <1>4
<1>6. ASSUME NEW l \in lines, NEW k \in lines, l.member = k.member, l.day = k.day PROVE l = k
  <2>1. l.hours = k.hours
    BY <1>4, <1>6
  <2>2. l.leave = k.leave
    <3>1. l.day \in Int
      BY <1>1, <1>5
    <3>2. CASE <<l.member, l.day>> \in page /\ LeaveOn(l.member, l.day) = {}
      BY <1>4, <1>6, <3>2
    <3>3. CASE ~(<<l.member, l.day>> \in page /\ LeaveOn(l.member, l.day) = {})
      <4>1. l.leave \in LeaveOn(l.member, l.day) /\ k.leave \in LeaveOn(l.member, l.day)
        BY <1>4, <1>6, <3>3
      <4> QED BY <3>1, <4>1, OneLeave DEF AttendanceTypeOK
    <3> QED BY <3>2, <3>3
  <2>3. /\ l = [member |-> l.member, day |-> l.day, hours |-> l.hours, leave |-> l.leave]
        /\ k = [member |-> k.member, day |-> k.day, hours |-> k.hours, leave |-> k.leave]
    BY <1>4
  <2> QED BY <1>6, <2>1, <2>2, <2>3
<1>7. ASSUME NEW m \in Member, NEW d \in from..to, LeaveOn(m, d) # {} \/ <<m, d>> \in DOMAIN rows
      PROVE  \E l \in lines : l.member = m /\ l.day = d
  <2>1. CASE <<m, d>> \in DOMAIN rows
    <3>1. <<m, d>> \in page
      BY <1>2, <1>7, <2>1
    <3>2. PICK r \in IF LeaveOn(m, d) = {} THEN {"none"} ELSE LeaveOn(m, d) : TRUE
      OBVIOUS
    <3> DEFINE l == [member |-> m, day |-> d, hours |-> rows[<<m, d>>].hours, leave |-> r]
    <3>3. l \in WorkLines(page)
      <4> DEFINE k == <<m, d>>
      <4>1. k[1] = m /\ k[2] = d
        OBVIOUS
      <4> DEFINE these == {[member |-> k[1], day |-> k[2], hours |-> rows[k].hours, leave |-> q] :
                             q \in IF LeaveOn(k[1], k[2]) = {} THEN {"none"} ELSE LeaveOn(k[1], k[2])}
      <4>2. l \in these
        BY <3>2, <4>1
      <4>3. these \subseteq WorkLines(page)
        BY <3>1 DEF WorkLines
      <4> QED BY <4>2, <4>3
    <3> QED BY <3>3
  <2>2. CASE <<m, d>> \notin DOMAIN rows
    <3>1. PICK r \in LeaveOn(m, d) : TRUE
      BY <1>7, <2>2
    <3>2. r \in DOMAIN requests /\ requests[r].member = m /\ <<m, d>> \notin page
      BY <1>2, <2>2, <3>1 DEF LeaveOn
    <3> DEFINE l == [member |-> m, day |-> d, hours |-> 0, leave |-> r]
    <3>3. l \in LeaveLines(page, from, to)
      BY <1>7, <3>1, <3>2, LeaveLine
    <3> QED BY <3>3
  <2> QED BY <2>1, <2>2
<1> QED BY <1>5, <1>6, <1>7

\* What ReportsTellTheDays says of one period.
LinesAbout(lines, m, d) == {l \in lines : l.member = m /\ l.day = d}

Told(m, d) == LeaveOn(m, d) # {} \/ <<m, d>> \in DOMAIN rows

ReportTells(from, to, page, lines) ==
    /\ page = ListAttendance(Member, from, to, Whichever)
    /\ \A l \in lines : l.day \in from..to
    /\ \A m \in Member, d \in from..to :
         /\ Cardinality(LinesAbout(lines, m, d)) = IF Told(m, d) THEN 1 ELSE 0
         /\ \A l \in LinesAbout(lines, m, d) : l.leave \in LeaveOn(m, d) \/ LeaveOn(m, d) = {}
    /\ \A m \in Member :
         GetMyAttendance(m, from, to, Whichever) = {k[2] : k \in ReportRows({m}, from, to)}
    /\ from = to =>
         {l.member : l \in lines} = {k[1] : k \in Overview(from).rows} \cup Overview(from).away

LEMMA ReportsTellIf ==
    ASSUME \A from, to \in Date :
             from <= to => LET page == ReportRows({}, from, to)
                           IN  ReportTells(from, to, page, WorkLines(page) \cup LeaveLines(page, from, to))
    PROVE  ReportsTellTheDays
<1> SUFFICES ASSUME NEW from \in Date, NEW to \in Date, from <= to
             PROVE  LET all    == ReportRows({}, from, to)
                        report == ListAttendanceReport({}, from, to, all)
                        of(m, d) == {l \in report.lines : l.member = m /\ l.day = d}
                    IN  /\ all = ListAttendance(Member, from, to, Whichever)
                        /\ \A l \in report.lines : l.day \in from..to
                        /\ \A m \in Member, d \in from..to :
                             LET told == LeaveOn(m, d) # {} \/ <<m, d>> \in DOMAIN rows
                             IN  /\ Cardinality(of(m, d)) = IF told THEN 1 ELSE 0
                                 /\ \A l \in of(m, d) : l.leave \in LeaveOn(m, d) \/ LeaveOn(m, d) = {}
                        /\ \A m \in Member : GetMyAttendance(m, from, to, Whichever) = {k[2] : k \in ReportRows({m}, from, to)}
                        /\ from = to =>
                             {l.member : l \in report.lines}
                               = {k[1] : k \in Overview(from).rows} \cup Overview(from).away
  BY DEF ReportsTellTheDays
<1> DEFINE page == ReportRows({}, from, to)
           lines == ListAttendanceReport({}, from, to, page).lines
<1>1. lines = WorkLines(page) \cup LeaveLines(page, from, to)
  BY DEF ListAttendanceReport
<1>2. ReportTells(from, to, page, lines)
  BY <1>1
<1> HIDE DEF page, lines
<1>3. \A m \in Member, d \in from..to :
         /\ Cardinality({l \in lines : l.member = m /\ l.day = d})
              = IF LeaveOn(m, d) # {} \/ <<m, d>> \in DOMAIN rows THEN 1 ELSE 0
         /\ \A l \in {l \in lines : l.member = m /\ l.day = d} :
              l.leave \in LeaveOn(m, d) \/ LeaveOn(m, d) = {}
  BY <1>2 DEF ReportTells, LinesAbout, Told
<1> QED BY <1>2, <1>3 DEF ReportTells, page, lines

\* A report has one line for every day that was worked or is covered by approved
\* leave, and shows what the lists and the dashboard show
\* (attendance_report/service.py, dashboard/service.py).
THEOREM ReportsTell == AttendanceSpec => []ReportsTellTheDays
<1>1. ASSUME AttendanceTypeOK, NoDoubleBooking PROVE ReportsTellTheDays
  <2> SUFFICES ASSUME NEW from \in Date, NEW to \in Date, from <= to,
                      NEW page, page = ReportRows({}, from, to),
                      NEW lines, lines = WorkLines(page) \cup LeaveLines(page, from, to)
               PROVE  ReportTells(from, to, page, lines)
    BY ReportsTellIf
  <2>1. /\ from \in Int /\ to \in Int /\ from..to \subseteq Date /\ Date \subseteq Int
        /\ \A k \in DOMAIN rows : k = <<k[1], k[2]>> /\ k[1] \in Member /\ k[2] \in Int
    <3>1. Date \subseteq Int /\ from..to \subseteq Date
      BY DaysAreConsecutive, LedgerConstants
    <3>2. DOMAIN rows \subseteq Member \X Date
      BY <1>1 DEF AttendanceTypeOK, DayKey
    <3>3. \A k \in DOMAIN rows : k = <<k[1], k[2]>> /\ k[1] \in Member /\ k[2] \in Date
      BY <3>2
    <3>4. from \in Int /\ to \in Int
      BY <3>1
    <3> QED BY <3>1, <3>3, <3>4
  <2>2. page = ListAttendance(Member, from, to, Whichever)
    BY <2>1 DEF ReportRows, ListAttendance
  <2>0. /\ from \in Date /\ to \in Date
        /\ page = ReportRows({}, from, to) /\ lines = WorkLines(page) \cup LeaveLines(page, from, to)
    OBVIOUS
  <2>3. /\ \A l \in lines : /\ l.day \in from..to /\ l.member \in Member
                            /\ l.leave \in LeaveOn(l.member, l.day) \/ LeaveOn(l.member, l.day) = {}
                            /\ LeaveOn(l.member, l.day) # {} \/ <<l.member, l.day>> \in DOMAIN rows
        /\ \A l, k \in lines : l.member = k.member /\ l.day = k.day => l = k
        /\ \A m \in Member, d \in from..to :
             LeaveOn(m, d) # {} \/ <<m, d>> \in DOMAIN rows =>
                \E l \in lines : l.member = m /\ l.day = d
    BY ONLY SMTT(30), <1>1, <2>0, LineOf
  <2>4. ASSUME NEW m \in Member, NEW d \in from..to,
               NEW of, of = {l \in lines : l.member = m /\ l.day = d}
        PROVE  /\ Cardinality(of) = IF LeaveOn(m, d) # {} \/ <<m, d>> \in DOMAIN rows THEN 1 ELSE 0
               /\ \A l \in of : l.leave \in LeaveOn(m, d) \/ LeaveOn(m, d) = {}
    <3>1. \A l, k \in of : l = k
      BY <2>3, <2>4
    <3>2. \A l \in of : l.leave \in LeaveOn(m, d) \/ LeaveOn(m, d) = {}
      BY <2>3, <2>4
    <3>3. CASE LeaveOn(m, d) # {} \/ <<m, d>> \in DOMAIN rows
      <4>1. PICK l \in of : TRUE
        BY <2>3, <2>4, <3>3
      <4>2. of = {l}
        BY <3>1
      <4>3. Cardinality(of) = 1
        BY <4>2, FS_Singleton
      <4> QED BY <3>2, <3>3, <4>3
    <3>4. CASE ~(LeaveOn(m, d) # {} \/ <<m, d>> \in DOMAIN rows)
      <4>1. of = {}
        BY <2>3, <2>4, <3>4
      <4>2. Cardinality(of) = 0
        BY <4>1, FS_EmptySet
      <4> QED BY <3>2, <3>4, <4>2
    <3> QED BY <3>3, <3>4
  <2>5. ASSUME NEW m \in Member
        PROVE  GetMyAttendance(m, from, to, Whichever) = {k[2] : k \in ReportRows({m}, from, to)}
    <3>1. ASSUME NEW d \in GetMyAttendance(m, from, to, Whichever)
          PROVE  d \in {k[2] : k \in ReportRows({m}, from, to)}
      <4> DEFINE k == <<m, d>>
      <4>1. k \in DOMAIN rows /\ d \in from..to /\ k[1] = m /\ k[2] = d
        BY <3>1 DEF GetMyAttendance
      <4> HIDE DEF k
      <4> QED BY <4>1 DEF ReportRows
    <3>2. ASSUME NEW k \in ReportRows({m}, from, to)
          PROVE  k[2] \in GetMyAttendance(m, from, to, Whichever)
      BY <2>1, <3>2 DEF ReportRows, GetMyAttendance
    <3> QED BY <3>1, <3>2
  <2>6. ASSUME from = to
        PROVE  {l.member : l \in lines} = {k[1] : k \in Overview(from).rows} \cup Overview(from).away
    <3>1. Overview(from).rows = ListAttendance(Member, from, from, Whichever)
      BY DEF Overview, GetAttendanceToday
    <3>2. Overview(from).away = {requests[r].member : r \in GetLeaveRequests("APPROVED", from, from)}
      BY DEF Overview
    <3>3. \A d \in from..to : d = from
      BY <2>1, <2>6
    <3>4. \A r \in DOMAIN requests : requests[r].member \in Member /\ requests[r].start \in Int /\ requests[r].end \in Int
      BY <1>1, <2>1 DEF AttendanceTypeOK, TypeOK, RequestRow
    <3>5. \A m : m \in Overview(from).away <=> m \in Member /\ LeaveOn(m, from) # {}
      BY <2>1, <3>2, <3>4 DEF GetLeaveRequests, LeaveOn
    <3>6. \A m : m \in {k[1] : k \in Overview(from).rows} <=> m \in Member /\ <<m, from>> \in DOMAIN rows
      <4>1. ASSUME NEW k \in Overview(from).rows PROVE k[1] \in Member /\ <<k[1], from>> \in DOMAIN rows
        BY <2>1, <3>1, <4>1 DEF ListAttendance
      <4>2. ASSUME NEW m \in Member, <<m, from>> \in DOMAIN rows
            PROVE  m \in {k[1] : k \in Overview(from).rows}
        <5> DEFINE k == <<m, from>>
        <5>1. k[1] = m /\ k[2] = from
          OBVIOUS
        <5>2. k \in Overview(from).rows
          BY <2>1, <3>1, <4>2, <5>1 DEF ListAttendance
        <5> HIDE DEF k
        <5> QED BY <5>1, <5>2
      <4> QED BY <4>1, <4>2
    <3>7. \A m : m \in {l.member : l \in lines} <=>
                   m \in Member /\ (LeaveOn(m, from) # {} \/ <<m, from>> \in DOMAIN rows)
      <4>1. from \in from..to
        BY <2>1, <2>6
      <4>2. \A l \in lines : /\ l.member \in Member
                             /\ LeaveOn(l.member, from) # {} \/ <<l.member, from>> \in DOMAIN rows
        BY <2>3, <3>3
      <4>3. \A m \in Member : LeaveOn(m, from) # {} \/ <<m, from>> \in DOMAIN rows =>
               \E l \in lines : l.member = m
        BY <2>3, <4>1
      <4> QED BY <4>2, <4>3
    <3> QED BY <3>5, <3>6, <3>7
  <2>7. \A m \in Member, d \in from..to :
          /\ Cardinality(LinesAbout(lines, m, d)) = IF Told(m, d) THEN 1 ELSE 0
          /\ \A l \in LinesAbout(lines, m, d) : l.leave \in LeaveOn(m, d) \/ LeaveOn(m, d) = {}
    BY <2>4 DEF LinesAbout, Told
  <2> QED BY <2>2, <2>3, <2>5, <2>6, <2>7 DEF ReportTells
<1> QED BY <1>1, AttendanceTypeCorrect, AttendanceBooksOnce, PTL

-----------------------------------------------------------------------------
(* The time sheet. *)

\* The logs of a day are finitely many and lie within it.
DayLogs(S, d) ==
    /\ IsFiniteSet(S)
    /\ \A l \in S : l \in Log /\ StartOf(d) <= l.start /\ l.start < l.end /\ l.end <= StartOf(d + 1)

SheetInv ==
    /\ DOMAIN sheet \subseteq SheetDay
    /\ \A d \in DOMAIN sheet : sheet[d] \in SheetRow
    /\ DOMAIN logs \subseteq DOMAIN sheet
    /\ \A d \in DOMAIN logs : DayLogs(logs[d], d)

LEMMA SheetFollows == SheetInv => WorkLogsTypeOK
  BY DEF SheetInv, WorkLogsTypeOK, LogsOf, DayLogs, SheetRow

\* A row written for one day.
LEMMA DayWritten ==
    ASSUME SheetInv, NEW d \in SheetDay, NEW row \in SheetRow,
           DOMAIN sheet' = DOMAIN sheet \cup {d},
           \A x \in DOMAIN sheet' : sheet'[x] = IF x = d THEN row ELSE sheet[x],
           DOMAIN logs' \subseteq DOMAIN sheet',
           \A x \in DOMAIN logs' : DayLogs(logs'[x], x)
    PROVE  SheetInv'
<1>1. \A x \in DOMAIN sheet' : sheet'[x] \in SheetRow
  BY DEF SheetInv
<1> QED BY <1>1 DEF SheetInv, DayLogs

LEMMA LogsOfDay ==
    ASSUME SheetInv, NEW d PROVE DayLogs(LogsOf(d), d)
  BY FS_EmptySet DEF SheetInv, LogsOf, DayLogs

\* The log of a session is the one inserted, unless the day has logs.
LEMMA InsertedLogs ==
    ASSUME NEW d \in Nat, NEW old, DayLogs(old, d), NEW in \in Nat, NEW out \in Nat,
           StartOf(d) <= in, in < out, out <= StartOf(d + 1),
           NEW t \in Task \cup {NoTask}, NEW noted \in BOOLEAN
    PROVE  DayLogs(InsertClockSessionWorkLogIfMissing(old, in, out, t, noted), d)
<1> DEFINE l == [start |-> in, end |-> out, task |-> t, titled |-> FALSE, noted |-> noted]
<1>1. l \in Log /\ l.start = in /\ l.end = out
  BY DEF Log
<1> HIDE DEF l
<1>2. IsFiniteSet({l})
  BY FS_Singleton
<1>3. DayLogs({l}, d)
  BY <1>1, <1>2 DEF DayLogs
<1>4. InsertClockSessionWorkLogIfMissing(old, in, out, t, noted) \in {old, {l}}
  BY DEF InsertClockSessionWorkLogIfMissing, l
<1> QED BY <1>3, <1>4

\* Wherever the text goes, the day has a log with a text.
LEMMA TextWritten ==
    ASSUME NEW d \in Nat, NEW old, DayLogs(old, d), NEW in \in Nat, NEW out \in Nat,
           StartOf(d) <= in, in < out, out <= StartOf(d + 1),
           NEW t \in Task \cup {NoTask},
           NEW new \in UpsertTerminalSessionWorkLogText(old, in, out, t)
    PROVE  DayLogs(new, d) /\ \E l \in new : l.noted
<1> DEFINE target == LET matching == {l \in old : l.start = in /\ l.end = out}
                     IN  IF matching # {} THEN matching ELSE {l \in old : old = {l} /\ ~l.titled}
           told(l) == [l EXCEPT !.task = t, !.noted = TRUE, !.titled = TRUE]
           own == [start |-> in, end |-> out, task |-> t, titled |-> TRUE, noted |-> TRUE]
<1>1. target \subseteq old
  OBVIOUS
<1>2. \/ target # {} /\ \E l \in target : new = (old \ {l}) \cup {told(l)}
      \/ new = old \cup {own}
  BY DEF UpsertTerminalSessionWorkLogText
<1>3. \A l \in old : told(l) \in Log /\ told(l).start = l.start /\ told(l).end = l.end /\ told(l).noted
  BY DEF DayLogs, Log
<1>4. own \in Log /\ own.start = in /\ own.end = out /\ own.noted
  BY DEF Log
<1> HIDE DEF target, told, own
<1>5. CASE new = old \cup {own}
  <2>1. IsFiniteSet(new)
    BY <1>5, FS_AddElement DEF DayLogs
  <2> QED BY <1>4, <1>5, <2>1 DEF DayLogs
<1>6. CASE target # {} /\ \E l \in target : new = (old \ {l}) \cup {told(l)}
  <2>1. PICK l \in old : new = (old \ {l}) \cup {told(l)}
    BY <1>1, <1>6
  <2>2. IsFiniteSet(old \ {l})
    BY FS_RemoveElement DEF DayLogs
  <2> DEFINE rest == old \ {l}
             x == told(l)
  <2>3. IsFiniteSet(rest \cup {x})
    <3> HIDE DEF rest, x
    <3> QED BY <2>2, FS_AddElement DEF rest
  <2> QED BY <1>3, <2>1, <2>3 DEF DayLogs
<1> QED BY <1>2, <1>5, <1>6

LEMMA ClockInSheet ==
    ASSUME SheetInv, NEW now \in ClockTime, NEW t \in Task \cup {NoTask}, NEW told \in BOOLEAN,
           ClockInWithTask(now, t, told)
    PROVE  SheetInv'
<1> DEFINE today == DayOf(now)
           closed == [d \in DOMAIN sheet |->
              IF d \in OpenSheets
              THEN [sheet[d] EXCEPT !.out = ForgottenOut(sheet[d].in, d)] ELSE sheet[d]]
           row == [in |-> now, out |-> NoTime, task |-> t, told |-> told]
<1>1. now \in Nat /\ today \in SheetDay /\ row \in SheetRow
  BY SheetInputs DEF SheetRow
<1>2. \A d \in DOMAIN sheet : closed[d] \in SheetRow
  <2> SUFFICES ASSUME NEW d \in DOMAIN sheet PROVE closed[d] \in SheetRow
    OBVIOUS
  <2>1. d \in Nat /\ sheet[d] \in SheetRow
    BY SheetInputs DEF SheetInv
  <2>2. ASSUME d \in OpenSheets PROVE ForgottenOut(sheet[d].in, d) \in Nat
    <3>1. sheet[d].in \in Nat
      BY <2>1, <2>2 DEF OpenSheets, SheetRow
    <3>2. StartOf(d) \in Nat /\ Cap \in Nat /\ CloseAt \in Nat
      BY <2>1, DaysInOrder, DayConstants
    <3> QED BY <3>1, <3>2 DEF ForgottenOut, CappedOut, Earlier
  <2> QED BY <2>1, <2>2 DEF SheetRow
<1>3. sheet' = Upsert(closed, today, row) /\ UNCHANGED logs
  BY DEF ClockInWithTask, UpsertDayRow
<1>4. DOMAIN closed = DOMAIN sheet
  OBVIOUS
<1> HIDE DEF closed, row, today
<1>5. /\ DOMAIN sheet' = DOMAIN sheet \cup {today}
      /\ \A x \in DOMAIN sheet' : sheet'[x] \in SheetRow
  BY <1>1, <1>2, <1>3, <1>4 DEF Upsert
<1> QED BY <1>1, <1>3, <1>5 DEF SheetInv, DayLogs

\* What a clock-out writes: the parts of the session, and the logs of each.
SessionWritten(o, parts, last) ==
    \E table \in [parts -> SheetRow] : \E days :
      /\ sheet' = [d \in DOMAIN sheet \cup parts |-> IF d \in parts THEN table[d] ELSE sheet[d]]
      /\ logs' = [d \in DOMAIN logs \cup parts |-> IF d \in parts THEN days[d] ELSE logs[d]]
      /\ \A d \in parts : DayLogs(days[d], d) /\ (table[d].told => sheet[o].told \/ d = last)
      /\ ~sheet[o].told => \E l \in days[last] : l.noted

LEMMA ClockOutWrites ==
    ASSUME SheetInv, NEW now \in ClockTime, NEW text \in BOOLEAN, ClockOutWithText(now, text)
    PROVE  \E o \in OpenSheets, parts \in SUBSET SheetDay : \E last \in parts :
              SessionWritten(o, parts, last)
<1>1. PICK o \in OpenSheets :
      LET row   == sheet[o]
          out   == CappedOut(row.in, now)
          parts == SegmentDays(row.in, out)
          last  == Max(parts)
          first(d) == SegmentIn(row.in, d)
          final(d) == SegmentOut(out, d)
          told(d)  == row.told \/ (text /\ d = last)
          kept(d)  == InsertClockSessionWorkLogIfMissing(
                          LogsOf(d), first(d), final(d), row.task, told(d))
      IN  /\ OpenSheets = {o} /\ now > row.in
          /\ row.told \/ text
          /\ parts \subseteq SheetDay
          /\ sheet' = [d \in DOMAIN sheet \cup parts |->
                IF d \in parts
                THEN [in |-> first(d), out |-> final(d), task |-> row.task, told |-> told(d)]
                ELSE sheet[d]]
          /\ \E end \in IF text /\ ~row.told
                       THEN UpsertTerminalSessionWorkLogText(kept(last), first(last), final(last), row.task)
                       ELSE {kept(last)} :
               logs' = [d \in DOMAIN logs \cup parts |->
                   IF d = last THEN end ELSE IF d \in parts THEN kept(d) ELSE logs[d]]
  BY DEF ClockOutWithText
<1> DEFINE row   == sheet[o]
           out   == CappedOut(row.in, now)
           parts == SegmentDays(row.in, out)
           last  == Max(parts)
           first(d) == SegmentIn(row.in, d)
           final(d) == SegmentOut(out, d)
           told(d)  == row.told \/ (text /\ d = last)
           kept(d)  == InsertClockSessionWorkLogIfMissing(
                          LogsOf(d), first(d), final(d), row.task, told(d))
<1>2. /\ o \in DOMAIN sheet /\ row \in SheetRow /\ row.in \in Nat /\ now \in Nat
      /\ row.task \in Task \cup {NoTask} /\ row.told \in BOOLEAN /\ now > row.in
  BY <1>1, SheetInputs DEF OpenSheets, SheetInv, SheetRow
<1>3. out \in Nat /\ row.in < out
  BY <1>2, DayConstants DEF CappedOut, Earlier
<1>4. IsFiniteSet(parts) /\ parts \subseteq Nat /\ parts \subseteq SheetDay /\ parts # {}
  <2>1. DayOf(row.in) \in Nat /\ DayOf(out) \in Nat /\ StartOf(DayOf(row.in)) <= row.in
    BY <1>2, <1>3, DayBounds
  <2>2. DayOf(row.in) <= DayOf(out)
    <3>1. DayLength \in Nat /\ DayLength > 0
      BY DayConstants
    <3> HIDE DEF out, row
    <3> QED BY <1>2, <1>3, <3>1 DEF DayOf
  <2>3. DayOf(row.in) \in parts
    <3>1. StartOf(DayOf(row.in)) \in Nat
      BY <2>1, DaysInOrder
    <3> QED BY <1>2, <1>3, <2>1, <2>2, <3>1 DEF SegmentDays
  <2>4. parts \subseteq DayOf(row.in)..DayOf(out) /\ IsFiniteSet(DayOf(row.in)..DayOf(out))
    BY <2>1, FS_Interval DEF SegmentDays
  <2>5. IsFiniteSet(parts)
    BY <2>4, FS_Subset
  <2> QED BY <1>1, <2>1, <2>3, <2>4, <2>5
<1>5. last \in parts
  <2>1. parts \in SUBSET Int
    BY <1>4
  <2> HIDE DEF parts
  <2> QED BY <1>4, <2>1, MaxIsGreatest
<1>6. \A d \in parts : /\ d \in Nat /\ first(d) \in Nat /\ final(d) \in Nat
                       /\ StartOf(d) <= first(d) /\ final(d) <= StartOf(d + 1)
                       /\ first(d) < final(d)
  BY <1>2, SegmentTimes
<1>7. \A d \in parts : told(d) \in BOOLEAN
  BY <1>2
<1> HIDE DEF told, first, final, parts, last, out
<1>8. \A d \in parts : DayLogs(kept(d), d)
  BY <1>2, <1>6, <1>7, LogsOfDay, InsertedLogs
<1> DEFINE table == [d \in parts |-> [in |-> first(d), out |-> final(d), task |-> row.task, told |-> told(d)]]
<1>9. /\ table \in [parts -> SheetRow]
      /\ \A d \in parts : table[d].told => row.told \/ d = last
  <2>1. \A d \in parts : [in |-> first(d), out |-> final(d), task |-> row.task, told |-> told(d)] \in SheetRow
    BY <1>2, <1>6, <1>7 DEF SheetRow
  <2> QED BY <2>1 DEF told
<1>10. sheet' = [d \in DOMAIN sheet \cup parts |-> IF d \in parts THEN table[d] ELSE sheet[d]]
  BY <1>1 DEF parts, last, out, first, final, told
<1>11. PICK end \in IF text /\ ~row.told
                    THEN UpsertTerminalSessionWorkLogText(kept(last), first(last), final(last), row.task)
                    ELSE {kept(last)} :
               logs' = [d \in DOMAIN logs \cup parts |->
                   IF d = last THEN end ELSE IF d \in parts THEN kept(d) ELSE logs[d]]
  BY <1>1 DEF parts, last, out, first, final, told
<1>12. row.told \/ text
  BY <1>1
<1>13. DayLogs(end, last) /\ (~row.told => \E l \in end : l.noted)
  <2>1. CASE text /\ ~row.told
    <3> HIDE DEF kept
    <3> QED BY <1>2, <1>5, <1>6, <1>8, <1>11, <2>1, TextWritten
  <2>2. CASE ~(text /\ ~row.told)
    BY <1>2, <1>5, <1>8, <1>11, <1>12, <2>2
  <2> QED BY <2>1, <2>2
<1> HIDE DEF kept, row, table
<1> DEFINE days == [d \in parts |-> IF d = last THEN end ELSE kept(d)]
<1>14. /\ \A d \in parts : DayLogs(days[d], d)
       /\ ~row.told => \E l \in days[last] : l.noted
  BY <1>5, <1>8, <1>13
<1>15. logs' = [d \in DOMAIN logs \cup parts |-> IF d \in parts THEN days[d] ELSE logs[d]]
  BY <1>5, <1>11
<1> HIDE DEF days
<1>16. SessionWritten(o, parts, last)
  BY <1>9, <1>10, <1>14, <1>15 DEF SessionWritten, row
<1> QED BY <1>4, <1>5, <1>16

LEMMA ClockOutSheet ==
    ASSUME SheetInv, NEW now \in ClockTime, NEW text \in BOOLEAN, ClockOutWithText(now, text)
    PROVE  SheetInv'
<1>1. PICK o \in OpenSheets, parts \in SUBSET SheetDay : \E last \in parts :
              SessionWritten(o, parts, last)
  BY ClockOutWrites
<1>2. /\ DOMAIN sheet' = DOMAIN sheet \cup parts /\ DOMAIN logs' = DOMAIN logs \cup parts
      /\ \A d \in DOMAIN sheet' : sheet'[d] \in SheetRow
      /\ \A d \in DOMAIN logs' : DayLogs(logs'[d], d)
  BY <1>1 DEF SheetInv, SessionWritten
<1> QED BY <1>1, <1>2 DEF SheetInv, DayLogs

\* The logs submitted for a day lie within it, and span it.
LEMMA SpanOfLogs ==
    ASSUME NEW d \in SheetDay, NEW input \in BulkInput, input # {},
           \A l \in input : ValidateWorkLogItem(l, d)
    PROVE  /\ DayLogs(input, d)
           /\ DeriveDayFromLogs(input).in \in Nat /\ DeriveDayFromLogs(input).out \in Nat
<1>1. d \in Nat /\ IsFiniteSet(input) /\ \A l \in input : l \in Log
  BY SheetInputs
<1>2. \A l \in input : l.start \in Nat /\ l.end \in Nat
  BY <1>1 DEF Log
<1>3. DayLogs(input, d)
  <2> SUFFICES ASSUME NEW l \in input
               PROVE  StartOf(d) <= l.start /\ l.start < l.end /\ l.end <= StartOf(d + 1)
    BY <1>1 DEF DayLogs
  <2>1. l.start < l.end /\ DayOf(l.start) = d /\ DayOf(l.end) = d
    BY DEF ValidateWorkLogItem
  <2>2. StartOf(d) <= l.start /\ l.end < StartOf(d + 1)
    BY <1>2, <2>1, DayBounds
  <2>3. StartOf(d + 1) \in Int
    BY <1>1, DaysInOrder
  <2> QED BY <1>2, <2>1, <2>2, <2>3
<1> DEFINE begun == {l.start : l \in input}
           ended == {l.end : l \in input}
           starts == [l \in input |-> l.start]
           ends == [l \in input |-> l.end]
<1>4. begun \in SUBSET Int /\ begun # {} /\ begun \subseteq Nat
  BY <1>2
<1>5. ended \in SUBSET Int /\ ended # {} /\ ended \subseteq Nat
  BY <1>2
<1>6. IsFiniteSet(begun) /\ IsFiniteSet(ended)
  <2>1. starts \in Surjection(input, begun) /\ ends \in Surjection(input, ended)
    BY DEF Surjection
  <2> HIDE DEF begun, ended, starts, ends
  <2> QED BY <1>1, <2>1, FS_Surjection
<1>7. Max(ended) \in Nat /\ Min(begun) \in Nat
  <2> HIDE DEF begun, ended
  <2>1. Max(ended) \in ended
    BY <1>5, <1>6, MaxIsGreatest
  <2>2. Min(begun) \in begun
    BY <1>4, <1>6, MinIsLeast
  <2> QED BY <1>4, <1>5, <2>1, <2>2
<1> QED BY <1>3, <1>7 DEF DeriveDayFromLogs

LEMMA EditedSheet ==
    ASSUME SheetInv, NEW d \in SheetDay,
           \/ \E input \in BulkInput : UpsertBulkWorkLogs(d, input)
           \/ \E span \in SpanInput : ManualDay(d, span)
           \/ RemoveDay(d)
    PROVE  SheetInv'
<1>1. CASE sheet' = Without(sheet, {d}) /\ logs' = Without(logs, {d})
  BY <1>1 DEF SheetInv, Without, DayLogs
<1>2. ASSUME NEW span \in SpanInput, ManualDay(d, span) PROVE SheetInv'
  <2> DEFINE row == [in |-> span.in, out |-> span.out, task |-> NoTask, told |-> FALSE]
  <2>1. row \in SheetRow
    BY SheetInputs DEF SheetRow
  <2>2. sheet' = Upsert(sheet, d, row) /\ UNCHANGED logs
    BY <1>2 DEF ManualDay, UpsertDayRow
  <2> HIDE DEF row
  <2> QED BY <2>1, <2>2, DayWritten DEF Upsert, SheetInv
<1>3. ASSUME NEW input \in BulkInput, UpsertBulkWorkLogs(d, input), input # {} PROVE SheetInv'
  <2> DEFINE span == DeriveDayFromLogs(input)
             old == IF d \in DOMAIN sheet THEN sheet[d] ELSE [task |-> NoTask, told |-> FALSE]
             row == [in |-> span.in, out |-> span.out, task |-> old.task, told |-> old.told]
  <2>1. DayLogs(input, d) /\ span.in \in Nat /\ span.out \in Nat
    BY <1>3, SpanOfLogs DEF UpsertBulkWorkLogs
  <2>2. old.task \in Task \cup {NoTask} /\ old.told \in BOOLEAN
    BY DEF SheetInv, SheetRow
  <2> HIDE DEF span, old
  <2>3. row \in SheetRow
    BY <2>1, <2>2 DEF SheetRow
  <2>4. sheet' = Upsert(sheet, d, row) /\ logs' = Upsert(Without(logs, {d}), d, input)
    BY <1>3 DEF UpsertBulkWorkLogs, UpsertDayRow, InsertWorkLogs, span, old
  <2> HIDE DEF row
  <2>5. /\ DOMAIN logs' = DOMAIN logs \cup {d}
        /\ \A x \in DOMAIN logs' : logs'[x] = IF x = d THEN input ELSE logs[x]
    BY <2>4 DEF Upsert, Without
  <2>6. /\ DOMAIN sheet' = DOMAIN sheet \cup {d}
        /\ \A x \in DOMAIN sheet' : sheet'[x] = IF x = d THEN row ELSE sheet[x]
    BY <2>4 DEF Upsert
  <2> QED BY <2>1, <2>3, <2>5, <2>6, DayWritten DEF SheetInv
<1> QED BY <1>1, <1>2, <1>3 DEF UpsertBulkWorkLogs, RemoveDay

LEMMA SheetStep == SheetInv /\ [WorkLogsNext]_worklogVars => SheetInv'
<1> SUFFICES ASSUME SheetInv, [WorkLogsNext]_worklogVars PROVE SheetInv'
  OBVIOUS
<1>1. CASE UNCHANGED worklogVars
  BY <1>1 DEF SheetInv, worklogVars, DayLogs
<1>2. CASE WorkLogsNext
  BY <1>2, ClockInSheet, ClockOutSheet, EditedSheet DEF WorkLogsNext, DeleteBulkWorkLogsDay, DeleteDay
<1> QED BY <1>1, <1>2

LEMMA SheetBegins == WorkLogsInit => SheetInv
  BY DEF WorkLogsInit, SheetInv, NoRecords

\* A day with a log that has a text has a text in the report.
LEMMA DayHasText ==
    ASSUME NEW table, NEW d \in DOMAIN table, DayLogs(table[d], d),
           NEW x \in table[d], x.noted
    PROVE  \E p \in table[d] : p.noted /\ \A q \in table[d] : q.noted => q.start <= p.start
<1> DEFINE noted == {l \in table[d] : l.noted}
           begun == [l \in noted |-> -l.start]
<1>1. IsFiniteSet(noted) /\ noted # {}
  <2>1. noted \subseteq table[d] /\ IsFiniteSet(table[d])
    BY DEF DayLogs
  <2>2. x \in noted
    OBVIOUS
  <2> HIDE DEF noted
  <2> QED BY <2>1, <2>2, FS_Subset
<1>2. \A l \in noted : l.start \in Nat /\ begun[l] \in Int
  BY DEF DayLogs, Log
<1>3. \E p \in noted : \A q \in noted : begun[p] <= begun[q]
  <2> HIDE DEF noted, begun
  <2> QED BY <1>1, <1>2, LeastExists
<1>4. PICK p \in noted : \A q \in noted : begun[p] <= begun[q]
  BY <1>3
<1>5. ASSUME NEW q \in noted PROVE q.start <= p.start
  <2>1. begun[p] = -p.start /\ begun[q] = -q.start /\ begun[p] <= begun[q]
    BY <1>4
  <2>2. p.start \in Nat /\ q.start \in Nat
    BY <1>2
  <2> HIDE DEF begun, noted
  <2> QED BY <2>1, <2>2
<1> QED BY <1>5

\* What TextIsReported says of one step.
TextStep ==
    \A d \in SheetDay :
      (/\ OpenSheets # {} /\ \A o \in OpenSheets : ~sheet[o].told
       /\ d \in (DOMAIN sheet)' /\ sheet'[d].told /\ sheet'[d].out # NoTime
       /\ d \in DOMAIN sheet => ~sheet[d].told)
      => (DailyWorkLog(d) # {})'

LEMMA TextIsWritten ==
    ASSUME SheetInv, SheetInv', WorkLogsNext PROVE TextStep
<1> SUFFICES ASSUME NEW d \in SheetDay,
                    \A o \in OpenSheets : ~sheet[o].told,
                    d \in DOMAIN sheet', sheet'[d].told, sheet'[d].out # NoTime,
                    d \in DOMAIN sheet => ~sheet[d].told
             PROVE  (DailyWorkLog(d) # {})'
  BY DEF TextStep
<1>1. ASSUME NEW now \in ClockTime, NEW t \in Task \cup {NoTask}, NEW told \in BOOLEAN,
             ClockInWithTask(now, t, told)
      PROVE  FALSE
  <2> DEFINE today == DayOf(now)
             closed == [x \in DOMAIN sheet |->
                IF x \in OpenSheets
                THEN [sheet[x] EXCEPT !.out = ForgottenOut(sheet[x].in, x)] ELSE sheet[x]]
  <2>1. sheet' = Upsert(closed, today, [in |-> now, out |-> NoTime, task |-> t, told |-> told])
    BY <1>1 DEF ClockInWithTask, UpsertDayRow
  <2>2. \A x \in DOMAIN sheet : closed[x].told = sheet[x].told
    BY DEF SheetInv, SheetRow
  <2>3. DOMAIN closed = DOMAIN sheet
    OBVIOUS
  <2> HIDE DEF closed, today
  <2> QED BY <2>1, <2>2, <2>3 DEF Upsert
<1>2. ASSUME NEW now \in ClockTime, NEW text \in BOOLEAN, ClockOutWithText(now, text)
      PROVE  (DailyWorkLog(d) # {})'
  <2>1. PICK o \in OpenSheets, parts \in SUBSET SheetDay : \E last \in parts :
              SessionWritten(o, parts, last)
    BY <1>2, ClockOutWrites
  <2>2. ~sheet[o].told
    OBVIOUS
  <2>3. d \in parts /\ d \in DOMAIN logs' /\ \E l \in logs'[d] : l.noted
    BY <2>1, <2>2 DEF SessionWritten
  <2>4. PICK l \in logs'[d] : l.noted
    BY <2>3
  <2> DEFINE these == logs'
  <2>5. DayLogs(these[d], d)
    BY <2>3 DEF SheetInv, DayLogs
  <2>6. \E p \in these[d] : p.noted /\ \A q \in these[d] : q.noted => q.start <= p.start
    <3> SUFFICES ASSUME NEW all, all = these
                 PROVE  \E p \in all[d] : p.noted /\ \A q \in all[d] : q.noted => q.start <= p.start
      OBVIOUS
    <3> HIDE DEF these
    <3>1. d \in DOMAIN all /\ DayLogs(all[d], d) /\ l \in all[d] /\ l.noted
      BY <2>3, <2>4, <2>5 DEF these
    <3> QED BY <3>1, DayHasText
  <2> QED BY <2>3, <2>6 DEF DailyWorkLog, LogsOf
<1>3. ASSUME NEW x \in SheetDay, NEW input \in BulkInput, UpsertBulkWorkLogs(x, input)
      PROVE  FALSE
  <2>1. CASE input = {}
    BY <1>3, <2>1 DEF UpsertBulkWorkLogs, Without
  <2>2. CASE input # {}
    <3> DEFINE span == DeriveDayFromLogs(input)
               old == IF x \in DOMAIN sheet THEN sheet[x] ELSE [task |-> NoTask, told |-> FALSE]
    <3>1. sheet' = Upsert(sheet, x, [in |-> span.in, out |-> span.out, task |-> old.task, told |-> old.told])
      BY <1>3, <2>2 DEF UpsertBulkWorkLogs, UpsertDayRow
    <3>2. old.told => x \in DOMAIN sheet /\ sheet[x].told
      OBVIOUS
    <3> HIDE DEF old, span
    <3> QED BY <3>1, <3>2 DEF Upsert
  <2> QED BY <2>1, <2>2
<1>4. ASSUME NEW x \in SheetDay, NEW span \in SpanInput, ManualDay(x, span) PROVE FALSE
  BY <1>4 DEF ManualDay, UpsertDayRow, Upsert
<1>5. ASSUME NEW x \in SheetDay, RemoveDay(x) PROVE FALSE
  BY <1>5 DEF RemoveDay, Without
<1> QED BY <1>1, <1>2, <1>3, <1>4, <1>5 DEF WorkLogsNext, DeleteBulkWorkLogsDay, DeleteDay

\* A text given when clocking out is in the report of its day, whatever logs the
\* day had (attendance/service.py, clock_out and the log its text goes to).
THEOREM TextReported == WorkLogsSpec => TextIsReported
<1>1. SheetInv /\ SheetInv' /\ [WorkLogsNext]_worklogVars => [TextStep]_worklogVars
  BY TextIsWritten
<1> QED BY <1>1, SheetBegins, SheetStep, PTL DEF WorkLogsSpec, TextIsReported, TextStep

\* A day's logs lie within it, and no log is left without its row.
THEOREM LogsWithinTheirDay == WorkLogsSpec => []WorkLogsTypeOK
  BY SheetBegins, SheetStep, SheetFollows, PTL DEF WorkLogsSpec

\* Moments and days listed forwards and backwards.
Forwards(D) == [d \in D |-> d]
Backwards(D) == [d \in D |-> -d]

LEMMA Listed ==
    ASSUME NEW D \in SUBSET Nat, IsFiniteSet(D)
    PROVE  /\ TellApart(Forwards(D), D) /\ Sorted(InOrder(D, <), Forwards(D), D)
           /\ TellApart(Backwards(D), D) /\ Sorted(InOrder(D, >), Backwards(D), D)
<1>1. TellApart(Forwards(D), D) /\ TellApart(Backwards(D), D)
  BY DEF TellApart, Forwards, Backwards
<1> DEFINE n == Cardinality(D)
<1>2. ASSUME NEW f
      PROVE  /\ Sorted(f, Forwards(D), D) <=>
                    f \in [1..n -> D] /\ \A i, j \in DOMAIN f : i < j => f[i] < f[j]
             /\ Sorted(f, Backwards(D), D) <=>
                    f \in [1..n -> D] /\ \A i, j \in DOMAIN f : i < j => f[i] > f[j]
  <2>1. \A x \in D : x \in Int /\ Forwards(D)[x] = x /\ Backwards(D)[x] = -x
    BY DEF Forwards, Backwards
  <2> HIDE DEF n
  <2>2. CASE f \in [1..n -> D]
    <3>1. DOMAIN f = 1..n /\ \A i \in 1..n : f[i] \in D
      BY <2>2
    <3>2. \A i, j \in 1..n : /\ f[i] < f[j] <=> Forwards(D)[f[i]] < Forwards(D)[f[j]]
                             /\ f[i] > f[j] <=> Backwards(D)[f[i]] < Backwards(D)[f[j]]
      <4> SUFFICES ASSUME NEW i \in 1..n, NEW j \in 1..n
                   PROVE  /\ f[i] < f[j] <=> Forwards(D)[f[i]] < Forwards(D)[f[j]]
                          /\ f[i] > f[j] <=> Backwards(D)[f[i]] < Backwards(D)[f[j]]
        OBVIOUS
      <4> DEFINE x == f[i]
                 y == f[j]
      <4>1. x \in D /\ y \in D
        BY <3>1
      <4> HIDE DEF x, y
      <4>2. /\ x \in Int /\ Forwards(D)[x] = x /\ Backwards(D)[x] = -x
            /\ y \in Int /\ Forwards(D)[y] = y /\ Backwards(D)[y] = -y
        BY <2>1, <4>1
      <4>3. (x < y <=> Forwards(D)[x] < Forwards(D)[y]) /\ (x > y <=> Backwards(D)[x] < Backwards(D)[y])
        BY <4>2
      <4> QED BY <4>3 DEF x, y
    <3> QED BY <2>2, <3>1, <3>2 DEF Sorted, n
  <2>3. CASE f \notin [1..n -> D]
    BY <2>3 DEF Sorted, n
  <2> QED BY <2>2, <2>3
<1>3. (\E f : Sorted(f, Forwards(D), D)) /\ (\E f : Sorted(f, Backwards(D), D))
  BY <1>1, SortedExists
<1>4. Sorted(InOrder(D, <), Forwards(D), D)
  <2>1. \E f \in [1..n -> D] : \A i, j \in DOMAIN f : i < j => f[i] < f[j]
    BY <1>2, <1>3
  <2>2. InOrder(D, <) \in [1..n -> D] /\
        \A i, j \in DOMAIN InOrder(D, <) : i < j => InOrder(D, <)[i] < InOrder(D, <)[j]
    BY <2>1 DEF InOrder
  <2> QED BY <1>2, <2>2
<1>5. Sorted(InOrder(D, >), Backwards(D), D)
  <2>1. \E f \in [1..n -> D] : \A i, j \in DOMAIN f : i < j => f[i] > f[j]
    BY <1>2, <1>3
  <2>2. InOrder(D, >) \in [1..n -> D] /\
        \A i, j \in DOMAIN InOrder(D, >) : i < j => InOrder(D, >)[i] > InOrder(D, >)[j]
    BY <2>1 DEF InOrder
  <2> QED BY <1>2, <2>2
<1> QED BY <1>1, <1>4, <1>5

\* Backwards is the reverse of forwards.
LEMMA BackToFront ==
    ASSUME NEW D \in SUBSET Nat, IsFiniteSet(D)
    PROVE  InOrder(D, <) = Reverse(InOrder(D, >))
<1> DEFINE up == InOrder(D, <)
           down == InOrder(D, >)
           n == Cardinality(D)
           rev == [i \in 1..n |-> down[(n - i) + 1]]
<1>1. n \in Nat
  BY FS_CardinalityType
<1>2. Sorted(up, Forwards(D), D) /\ Sorted(down, Backwards(D), D) /\ TellApart(Forwards(D), D)
  BY Listed
<1> HIDE DEF up, down
<1>3. down \in [1..n -> D] /\ \A i, j \in 1..n : i < j => Backwards(D)[down[i]] < Backwards(D)[down[j]]
  BY <1>2 DEF Sorted
<1> HIDE DEF n
<1>4. \A i \in 1..n : (n - i) + 1 \in 1..n /\ down[(n - i) + 1] \in D
  BY <1>1, <1>3
<1>5. Sorted(rev, Forwards(D), D)
  <2>1. rev \in [1..n -> D]
    BY <1>4
  <2>2. ASSUME NEW i \in 1..n, NEW j \in 1..n, i < j
        PROVE  Forwards(D)[rev[i]] < Forwards(D)[rev[j]]
    <3> DEFINE x == (n - i) + 1
               y == (n - j) + 1
    <3>1. x \in 1..n /\ y \in 1..n /\ y < x /\ rev[i] = down[x] /\ rev[j] = down[y]
      BY <1>1, <2>2
    <3> HIDE DEF x, y, rev
    <3>2. Backwards(D)[down[y]] < Backwards(D)[down[x]] /\ down[x] \in D /\ down[y] \in D
      BY <1>3, <3>1
    <3>3. \A z \in D : z \in Int /\ Backwards(D)[z] = -z /\ Forwards(D)[z] = z
      BY DEF Backwards, Forwards
    <3>4. -down[y] < -down[x] /\ down[x] \in Int /\ down[y] \in Int
      BY <3>2, <3>3
    <3>5. down[x] < down[y]
      BY <3>4
    <3>6. Forwards(D)[down[x]] < Forwards(D)[down[y]]
      BY <3>2, <3>3, <3>5
    <3> QED BY <3>1, <3>6
  <2> HIDE DEF rev
  <2> QED BY <2>1, <2>2 DEF Sorted, n
<1>6. up = rev
  <2> HIDE DEF rev
  <2> QED BY <1>2, <1>5, SortedOnce
<1>7. Len(down) = n
  BY <1>1, <1>3
<1>8. Reverse(down) = rev
  BY <1>7 DEF Reverse
<1> QED BY <1>6, <1>8 DEF up, down

\* What a page that lists one line for each of D has.
LEMMA LinesListed ==
    ASSUME NEW D \in SUBSET Nat, IsFiniteSet(D)
    PROVE  /\ InOrder(D, <) \in [1..Cardinality(D) -> D] /\ InOrder(D, >) \in [1..Cardinality(D) -> D]
           /\ Cardinality(D) \in Nat
           /\ \A d \in D : \E i \in 1..Cardinality(D) : InOrder(D, <)[i] = d
<1>1. TellApart(Forwards(D), D) /\ Sorted(InOrder(D, <), Forwards(D), D) /\ Sorted(InOrder(D, >), Backwards(D), D)
  BY Listed
<1>2. EachOnce(InOrder(D, <), D)
  BY <1>1, SortedCovers
<1> QED BY <1>1, <1>2, FS_CardinalityType DEF Sorted, EachOnce

LEMMA StartsListed ==
    ASSUME SheetInv, NEW d \in SheetDay
    PROVE  LET starts == {l.start : l \in LogsOf(d)}
               shown  == InOrder(starts, <)
           IN  starts \subseteq {shown[n] : n \in DOMAIN shown}
<1> DEFINE starts == {l.start : l \in LogsOf(d)}
           shown == InOrder(starts, <)
<1>1. \A l \in LogsOf(d) : l.start \in Nat /\ StartOf(d) <= l.start /\ l.start <= StartOf(d + 1)
  <2>1. d \in Nat /\ StartOf(d + 1) \in Nat
    BY SheetInputs, DayConstants DEF StartOf
  <2>2. \A l \in LogsOf(d) : l \in Log /\ StartOf(d) <= l.start /\ l.start < l.end /\ l.end <= StartOf(d + 1)
    BY DEF SheetInv, LogsOf, DayLogs
  <2> QED BY <2>1, <2>2 DEF Log
<1>2. starts \in SUBSET Nat /\ IsFiniteSet(starts)
  <2>1. StartOf(d) \in Int /\ StartOf(d + 1) \in Int
    BY SheetInputs, DayConstants DEF StartOf
  <2> DEFINE a == StartOf(d)
             b == StartOf(d + 1)
  <2>2. starts \subseteq a..b /\ starts \subseteq Nat
    BY <1>1, <2>1
  <2>3. IsFiniteSet(a..b)
    BY <2>1, FS_Interval
  <2> HIDE DEF starts, a, b
  <2> QED BY <2>2, <2>3, FS_Subset
<1> HIDE DEF starts
<1>3. /\ shown \in [1..Cardinality(starts) -> starts]
      /\ \A x \in starts : \E i \in 1..Cardinality(starts) : shown[i] = x
  BY <1>2, LinesListed
<1> HIDE DEF shown
<1>4. starts \subseteq {shown[n] : n \in DOMAIN shown}
  BY <1>3
<1> QED BY <1>4 DEF starts, shown

LEMMA SheetPages == SheetInv => SheetPagesAgree
<1> SUFFICES ASSUME SheetInv, NEW from \in SheetDay, NEW to \in SheetDay, from <= to
             PROVE  LET list == ListWorkLogReports(from, to)
                        file == ExportWorkLogReports(from, to)
                        form == GetBulkWorkLogsRange(from, to)
                    IN  /\ [i \in DOMAIN file |-> file[i].day] = list.lines
                        /\ [i \in DOMAIN form |-> form[i].day] = Reverse(list.lines)
                        /\ \A i \in DOMAIN file :
                             /\ GetWorkLogReportDetail(file[i].day) = {file[i]}
                             /\ \E j \in DOMAIN form :
                                  /\ form[j].day = file[i].day
                                  /\ {l.start : l \in file[i].texts}
                                        \subseteq {form[j].logs[n] : n \in DOMAIN form[j].logs}
  BY DEF SheetPagesAgree
<1> DEFINE D == ReportDays(from, to)
           n == Cardinality(D)
           up == InOrder(D, <)
           down == InOrder(D, >)
           list == ListWorkLogReports(from, to)
           file == ExportWorkLogReports(from, to)
           form == GetBulkWorkLogsRange(from, to)
<1>1. D \in SUBSET Nat /\ IsFiniteSet(D) /\ D \subseteq DOMAIN sheet /\ D \subseteq SheetDay
  <2>1. from \in Int /\ to \in Int /\ D \subseteq DOMAIN sheet /\ D \subseteq SheetDay /\ D \subseteq Nat
    <3>1. SheetDay \subseteq Nat
      BY SheetInputs
    <3>2. DOMAIN sheet \subseteq SheetDay
      BY DEF SheetInv
    <3>3. D \subseteq DOMAIN sheet
      BY DEF ReportDays
    <3>4. from \in Int /\ to \in Int
      BY <3>1
    <3> HIDE DEF D
    <3> QED BY <3>1, <3>2, <3>3, <3>4
  <2>2. D \subseteq from..to
    BY <2>1 DEF ReportDays
  <2>3. IsFiniteSet(from..to)
    BY <2>1, FS_Interval
  <2> HIDE DEF D
  <2> QED BY <2>1, <2>2, <2>3, FS_Subset
<1>2. list.lines = down
  BY DEF ListWorkLogReports, ReportDays
<1>3. file = [i \in DOMAIN down |-> ReportLine(down[i])] /\ form = [i \in DOMAIN up |-> BulkDay(up[i])]
  BY DEF ExportWorkLogReports, GetBulkWorkLogsRange
<1> HIDE DEF D, list, file, form
<1>4. /\ up \in [1..n -> D] /\ down \in [1..n -> D]
      /\ \A d \in D : \E i \in 1..n : up[i] = d
  BY <1>1, LinesListed
<1>5. up = Reverse(down)
  BY <1>1, BackToFront
<1> HIDE DEF up, down, n
<1>6. /\ DOMAIN file = 1..n /\ \A i \in 1..n : file[i] = ReportLine(down[i]) /\ down[i] \in D
      /\ DOMAIN form = 1..n /\ \A i \in 1..n : form[i] = BulkDay(up[i])
  BY <1>3, <1>4
<1>7. \A d : ReportLine(d).day = d /\ ReportLine(d).texts = DailyWorkLog(d)
             /\ BulkDay(d).day = d /\ BulkDay(d).logs = InOrder({l.start : l \in LogsOf(d)}, <)
  BY DEF ReportLine, BulkDay
<1>8. [i \in DOMAIN file |-> file[i].day] = list.lines
  <2>1. [i \in DOMAIN file |-> file[i].day] = [i \in 1..n |-> down[i]]
    BY <1>6, <1>7
  <2> QED BY <1>2, <1>4, <2>1
<1>9. [i \in DOMAIN form |-> form[i].day] = Reverse(list.lines)
  <2>1. [i \in DOMAIN form |-> form[i].day] = [i \in 1..n |-> up[i]]
    BY <1>6, <1>7
  <2> QED BY <1>2, <1>4, <1>5, <2>1
<1>10. ASSUME NEW i \in DOMAIN file
       PROVE  /\ GetWorkLogReportDetail(file[i].day) = {file[i]}
              /\ \E j \in DOMAIN form :
                   /\ form[j].day = file[i].day
                   /\ {l.start : l \in file[i].texts} \subseteq {form[j].logs[k] : k \in DOMAIN form[j].logs}
  <2> DEFINE d == down[i]
  <2>1. i \in 1..n /\ d \in D /\ d \in DOMAIN sheet /\ d \in SheetDay /\ file[i] = ReportLine(d)
    BY <1>1, <1>6
  <2> HIDE DEF d
  <2>2. GetWorkLogReportDetail(d) = {ReportLine(d)}
    BY <2>1 DEF GetWorkLogReportDetail
  <2>3. PICK j \in 1..n : up[j] = d
    BY <1>4, <2>1
  <2>4. j \in DOMAIN form /\ form[j].day = d /\ form[j].logs = InOrder({l.start : l \in LogsOf(d)}, <)
    BY <1>6, <1>7, <2>3
  <2> DEFINE starts == {l.start : l \in LogsOf(d)}
             shown == InOrder(starts, <)
  <2>5. starts \subseteq {shown[k] : k \in DOMAIN shown}
    BY <2>1, StartsListed
  <2>6. {l.start : l \in DailyWorkLog(d)} \subseteq starts
    BY DEF DailyWorkLog
  <2>7. form[j].logs = shown
    BY <2>4
  <2> HIDE DEF starts, shown
  <2>8. {l.start : l \in DailyWorkLog(d)} \subseteq {form[j].logs[k] : k \in DOMAIN form[j].logs}
    BY <2>5, <2>6, <2>7
  <2>9. file[i].day = d /\ file[i].texts = DailyWorkLog(d)
    BY <1>7, <2>1
  <2> QED BY <2>1, <2>2, <2>4, <2>8, <2>9
<1> QED BY <1>8, <1>9, <1>10 DEF list, file, form

\* The export, the form and the detail of the time sheet show the days and the logs of
\* its list.
THEOREM SheetPagesTell == WorkLogsSpec => []SheetPagesAgree
  BY SheetBegins, SheetStep, SheetPages, PTL DEF WorkLogsSpec

-----------------------------------------------------------------------------
(* The weekly and the monthly plan.  What a transaction has written so far, and
   what its DELETE will find, is known of every save: the tables then agree again
   when it commits, whoever committed before it. *)

Rows(S) == UNION {[D -> S] : D \in SUBSET PlanDay}

Pc == {"delete1", "wait1", "insert1", "delete2", "wait2", "insert2", "commit"}

SaveRow ==
    [kind : {"week", "month"}, days : Rows(Optional(Place)), pc : Pc,
     seen : SUBSET PlanDay, writes : [PlanTable -> Rows(Optional(Place))],
     stale : SUBSET PlanDay]

\* The table a save replaces first, and what it has done to a table.
FirstTable(r) == IF r.kind = "week" THEN "weekly" ELSE "monthly"

HasDeleted(r, t) ==
    r.pc \in IF t = FirstTable(r) THEN Pc \ {"delete1", "wait1"} ELSE {"insert2", "commit"}

HasInserted(r, t) ==
    r.pc \in IF t = FirstTable(r) THEN {"delete2", "wait2", "insert2", "commit"} ELSE {"commit"}

\* A save writes its own days: their places, once inserted, and a deletion before
\* that.  A row of a day it deletes is in its writes, unless another save of that
\* day was committed in the meantime; while it waits, it has at least seen it.
SaveOK(r, tables) ==
    /\ \A t \in PlanTable :
          /\ DOMAIN r.writes[t] \subseteq DOMAIN r.days
          /\ \A d \in DOMAIN r.writes[t] : r.writes[t][d] = "null" \/ r.writes[t][d] = r.days[d]
          /\ HasInserted(r, t) =>
                \A d \in DOMAIN r.days : r.days[d] # "null" =>
                   d \in DOMAIN r.writes[t] /\ r.writes[t][d] = r.days[d]
          /\ HasDeleted(r, t) =>
                \A d \in DOMAIN tables[t] \cap DOMAIN r.days :
                   d \in r.stale \/ d \in DOMAIN r.writes[t]
    /\ r.seen \subseteq DOMAIN r.days
    /\ r.pc \in {"wait1", "wait2"} =>
          \A d \in DOMAIN tables[TableAt(r.kind, r.pc)] \cap DOMAIN r.days :
             d \in r.stale \/ d \in r.seen

PlanInv ==
    /\ PlanTypeOK
    /\ TablesAgree
    /\ \A s \in DOMAIN saves : saves[s] \in SaveRow /\ SaveOK(saves[s], plans)

-----------------------------------------------------------------------------
(* Steps that change one save. *)

LEMMA RowsType ==
    ASSUME NEW S, NEW f
    PROVE  f \in Rows(S) <=> /\ f = [d \in DOMAIN f |-> f[d]]
                             /\ DOMAIN f \subseteq PlanDay
                             /\ \A d \in DOMAIN f : f[d] \in S
  BY DEF Rows

\* A step that leaves the tables alone, and a row that is as it should be.
LEMMA OneSave ==
    ASSUME PlanInv, UNCHANGED <<plans, apart>>, NEW s \in Save, NEW row \in SaveRow,
           SaveOK(row, plans), Change(s, row)
    PROVE  PlanInv'
  <1>1. /\ DOMAIN saves' = DOMAIN saves \cup {s}
        /\ \A x \in DOMAIN saves' : saves'[x] = IF x = s THEN row ELSE saves[x]
    BY DEF Change, Upsert
  <1>2. PlanTypeOK' /\ TablesAgree'
    BY <1>1 DEF PlanInv, PlanTypeOK, TablesAgree
  <1>3. \A x \in DOMAIN saves' : saves'[x] \in SaveRow /\ SaveOK(saves'[x], plans')
    BY <1>1 DEF PlanInv
  <1> QED
    BY <1>2, <1>3 DEF PlanInv

LEMMA BeginSaveKeeps ==
    ASSUME PlanInv, NEW s \in Save, NEW kind \in {"week", "month"},
           NEW days \in Rows(Optional(Place)), BeginSave(s, kind, days)
    PROVE  PlanInv'
  <1> DEFINE none == [t \in PlanTable |-> NoRecords]
             row  == [kind |-> kind, days |-> days, pc |-> "delete1", seen |-> {},
                      writes |-> none, stale |-> {}]
  <1>1. Change(s, row) /\ UNCHANGED <<plans, apart>>
    BY DEF BeginSave
  <1>2. NoRecords \in Rows(Optional(Place))
    BY RowsType DEF NoRecords
  <1>3. none \in [PlanTable -> Rows(Optional(Place))]
    BY <1>2
  <1>4. row \in SaveRow
    BY <1>3 DEF SaveRow, Pc
  <1>5. /\ row.days = days /\ row.pc = "delete1" /\ row.seen = {} /\ row.kind = kind
        /\ \A t \in PlanTable : row.writes[t] = NoRecords
    OBVIOUS
  <1> HIDE DEF row
  <1>6. DOMAIN NoRecords = {}
    BY DEF NoRecords
  <1>7. SaveOK(row, plans)
    BY <1>5, <1>6 DEF SaveOK, HasInserted, HasDeleted, Pc
  <1> QED
    BY <1>1, <1>4, <1>7, OneSave

\* What a save looks like, and the table it works on.
LEMMA SaveFacts ==
    ASSUME PlanInv, NEW s \in DOMAIN saves
    PROVE  /\ s \in Save /\ saves[s] \in SaveRow /\ SaveOK(saves[s], plans)
           /\ Here(s) \in PlanTable
           /\ \A t \in PlanTable : saves[s].writes[t] \in Rows(Optional(Place))
           /\ saves[s].days \in Rows(Optional(Place))
           /\ saves[s].seen \in SUBSET PlanDay
  BY DEF PlanInv, PlanTypeOK, SaveRow, Here, TableAt, PlanTable

LEMMA BeginDeleteKeeps ==
    ASSUME PlanInv, NEW s \in DOMAIN saves, BeginDelete(s)
    PROVE  PlanInv'
  <1> DEFINE old  == saves[s]
             seen == DOMAIN old.days \cap DOMAIN plans[Here(s)]
             pc   == IF old.pc = "delete1" THEN "wait1" ELSE "wait2"
             row  == [old EXCEPT !.seen = seen, !.pc = pc]
  <1>1. /\ s \in Save /\ old \in SaveRow /\ SaveOK(old, plans) /\ Here(s) \in PlanTable
        /\ old.days \in Rows(Optional(Place))
    BY SaveFacts
  <1>2. /\ old.pc \in {"delete1", "delete2"} /\ Change(s, row) /\ UNCHANGED <<plans, apart>>
    BY <1>1 DEF BeginDelete, SaveRow
  <1>3. DOMAIN old.days \subseteq PlanDay
    BY <1>1, RowsType
  <1>4. row \in SaveRow
    BY <1>1, <1>3 DEF SaveRow, Pc
  <1>5. /\ row.kind = old.kind /\ row.days = old.days /\ row.writes = old.writes
        /\ row.stale = old.stale /\ row.seen = seen /\ row.pc = pc
    BY <1>1 DEF SaveRow
  <1>6. TableAt(row.kind, row.pc) = Here(s)
    BY <1>2, <1>5 DEF Here, TableAt
  <1>7. \A t \in PlanTable :
           /\ HasInserted(row, t) <=> HasInserted(old, t)
           /\ HasDeleted(row, t) <=> HasDeleted(old, t)
    BY <1>2, <1>5 DEF HasInserted, HasDeleted, FirstTable, Pc
  <1> HIDE DEF row
  <1>8. SaveOK(row, plans)
    BY <1>1, <1>5, <1>6, <1>7 DEF SaveOK
  <1> QED
    BY <1>1, <1>2, <1>4, <1>8, OneSave

LEMMA EndDeleteKeeps ==
    ASSUME PlanInv, NEW s \in DOMAIN saves, EndDelete(s)
    PROVE  PlanInv'
  <1> DEFINE old    == saves[s]
             here   == Here(s)
             gone   == [d \in old.seen |-> "null"]
             writes == [old.writes EXCEPT ![here] = gone]
             pc     == IF old.pc = "wait1" THEN "insert1" ELSE "insert2"
             row    == [old EXCEPT !.writes = writes, !.seen = {}, !.pc = pc]
  <1>1. /\ s \in Save /\ old \in SaveRow /\ SaveOK(old, plans) /\ here \in PlanTable
        /\ \A t \in PlanTable : old.writes[t] \in Rows(Optional(Place))
        /\ old.seen \in SUBSET PlanDay
    BY SaveFacts
  <1>2. /\ old.pc \in {"wait1", "wait2"} /\ Change(s, row) /\ UNCHANGED <<plans, apart>>
    BY <1>1 DEF EndDelete, SaveRow
  <1>3. gone \in Rows(Optional(Place))
    BY <1>1, RowsType DEF Optional
  <1>4. /\ writes \in [PlanTable -> Rows(Optional(Place))]
        /\ writes[here] = gone
        /\ \A t \in PlanTable : t # here => writes[t] = old.writes[t]
    BY <1>1, <1>3 DEF SaveRow
  <1> HIDE DEF writes
  <1>5. row \in SaveRow
    BY <1>1, <1>4 DEF SaveRow, Pc
  <1>6. /\ row.kind = old.kind /\ row.days = old.days /\ row.writes = writes
        /\ row.stale = old.stale /\ row.seen = {} /\ row.pc = pc
    BY <1>1 DEF SaveRow
  <1>7. here = TableAt(old.kind, old.pc)
    BY DEF Here
  <1>8. /\ ~HasInserted(row, here)
        /\ \A t \in PlanTable : t # here =>
              /\ HasInserted(row, t) <=> HasInserted(old, t)
              /\ HasDeleted(row, t) <=> HasDeleted(old, t)
    BY <1>1, <1>2, <1>6, <1>7
    DEF HasInserted, HasDeleted, FirstTable, Pc, TableAt, SaveRow, PlanTable
  <1> HIDE DEF row, here
  <1>9. DOMAIN gone = old.seen /\ \A d \in old.seen : gone[d] = "null"
    OBVIOUS
  <1> HIDE DEF gone
  <1>10. old.seen \subseteq DOMAIN old.days
    BY <1>1 DEF SaveOK
  <1>11. \A d \in DOMAIN plans[here] \cap DOMAIN old.days : d \in old.stale \/ d \in old.seen
    BY <1>1, <1>2, <1>7 DEF SaveOK
  <1>12. row.pc \notin {"wait1", "wait2"}
    BY <1>6
  <1>13. ASSUME NEW t \in PlanTable
         PROVE  /\ DOMAIN row.writes[t] \subseteq DOMAIN row.days
                /\ \A d \in DOMAIN row.writes[t] :
                      row.writes[t][d] = "null" \/ row.writes[t][d] = row.days[d]
                /\ HasInserted(row, t) =>
                      \A d \in DOMAIN row.days : row.days[d] # "null" =>
                         d \in DOMAIN row.writes[t] /\ row.writes[t][d] = row.days[d]
                /\ HasDeleted(row, t) =>
                      \A d \in DOMAIN plans[t] \cap DOMAIN row.days :
                         d \in row.stale \/ d \in DOMAIN row.writes[t]
    <2>1. CASE t = here
      BY <1>4, <1>6, <1>8, <1>9, <1>10, <1>11, <2>1
    <2>2. CASE t # here
      BY <1>1, <1>4, <1>6, <1>8, <2>2 DEF SaveOK
    <2> QED
      BY <2>1, <2>2
  <1>14. SaveOK(row, plans)
    BY <1>6, <1>12, <1>13 DEF SaveOK
  <1> QED
    BY <1>1, <1>2, <1>5, <1>14, OneSave

LEMMA InsertKeeps ==
    ASSUME PlanInv, NEW s \in DOMAIN saves, Insert(s)
    PROVE  PlanInv'
  <1> DEFINE old    == saves[s]
             here   == Here(s)
             before == old.writes[here]
             after  == [d \in DOMAIN before \cup Placed(s) |->
                          IF d \in Placed(s) THEN old.days[d] ELSE before[d]]
             writes == [old.writes EXCEPT ![here] = after]
             pc     == IF old.pc = "insert1" THEN "delete2" ELSE "commit"
             row    == [old EXCEPT !.writes = writes, !.pc = pc]
  <1>1. /\ s \in Save /\ old \in SaveRow /\ SaveOK(old, plans) /\ here \in PlanTable
        /\ \A t \in PlanTable : old.writes[t] \in Rows(Optional(Place))
        /\ old.days \in Rows(Optional(Place))
    BY SaveFacts
  <1>2. /\ old.pc \in {"insert1", "insert2"} /\ Change(s, row) /\ UNCHANGED <<plans, apart>>
    BY <1>1 DEF Insert, SaveRow
  <1>3. /\ DOMAIN after = DOMAIN before \cup Placed(s)
        /\ \A d \in DOMAIN after : after[d] = IF d \in Placed(s) THEN old.days[d] ELSE before[d]
        /\ after = [d \in DOMAIN after |-> after[d]]
    OBVIOUS
  <1>4. /\ Placed(s) \subseteq DOMAIN old.days
        /\ \A d \in DOMAIN old.days : d \in Placed(s) <=> old.days[d] # "null"
    BY DEF Placed
  <1> HIDE DEF after
  <1>5. after \in Rows(Optional(Place))
    <2>1. /\ before \in Rows(Optional(Place)) /\ DOMAIN before \subseteq PlanDay
          /\ \A d \in DOMAIN before : before[d] \in Optional(Place)
      BY <1>1, RowsType
    <2>2. /\ DOMAIN old.days \subseteq PlanDay
          /\ \A d \in DOMAIN old.days : old.days[d] \in Optional(Place)
      BY <1>1, RowsType
    <2>3. DOMAIN after \subseteq PlanDay
      BY <1>3, <1>4, <2>1, <2>2
    <2>4. \A d \in DOMAIN after : after[d] \in Optional(Place)
      BY <1>3, <1>4, <2>1, <2>2
    <2> QED
      BY <1>3, <2>3, <2>4, RowsType
  <1>6. /\ writes \in [PlanTable -> Rows(Optional(Place))]
        /\ writes[here] = after
        /\ \A t \in PlanTable : t # here => writes[t] = old.writes[t]
    BY <1>1, <1>5 DEF SaveRow
  <1> HIDE DEF writes
  <1>7. row \in SaveRow
    BY <1>1, <1>6 DEF SaveRow, Pc
  <1>8. /\ row.kind = old.kind /\ row.days = old.days /\ row.writes = writes
        /\ row.stale = old.stale /\ row.seen = old.seen /\ row.pc = pc
    BY <1>1 DEF SaveRow
  <1>9. here = TableAt(old.kind, old.pc)
    BY DEF Here
  <1>10. /\ HasDeleted(old, here)
         /\ \A t \in PlanTable : t # here =>
               /\ HasInserted(row, t) <=> HasInserted(old, t)
               /\ HasDeleted(row, t) <=> HasDeleted(old, t)
    BY <1>1, <1>2, <1>8, <1>9
    DEF HasInserted, HasDeleted, FirstTable, Pc, TableAt, SaveRow, PlanTable
  <1>11. row.pc \notin {"wait1", "wait2"}
    BY <1>8
  <1> HIDE DEF row, here, before
  <1>12. /\ DOMAIN before \subseteq DOMAIN old.days
         /\ \A d \in DOMAIN before : before[d] = "null" \/ before[d] = old.days[d]
         /\ \A d \in DOMAIN plans[here] \cap DOMAIN old.days :
               d \in old.stale \/ d \in DOMAIN before
    BY <1>1, <1>10 DEF SaveOK, before
  <1>13. ASSUME NEW t \in PlanTable
         PROVE  /\ DOMAIN row.writes[t] \subseteq DOMAIN row.days
                /\ \A d \in DOMAIN row.writes[t] :
                      row.writes[t][d] = "null" \/ row.writes[t][d] = row.days[d]
                /\ HasInserted(row, t) =>
                      \A d \in DOMAIN row.days : row.days[d] # "null" =>
                         d \in DOMAIN row.writes[t] /\ row.writes[t][d] = row.days[d]
                /\ HasDeleted(row, t) =>
                      \A d \in DOMAIN plans[t] \cap DOMAIN row.days :
                         d \in row.stale \/ d \in DOMAIN row.writes[t]
    <2>1. CASE t = here
      BY <1>3, <1>4, <1>6, <1>8, <1>12, <2>1
    <2>2. CASE t # here
      BY <1>1, <1>6, <1>8, <1>10, <2>2 DEF SaveOK
    <2> QED
      BY <2>1, <2>2
  <1>14. row.seen \subseteq DOMAIN row.days
    BY <1>1, <1>8 DEF SaveOK
  <1>15. SaveOK(row, plans)
    BY <1>11, <1>13, <1>14 DEF SaveOK
  <1> QED
    BY <1>1, <1>2, <1>7, <1>15, OneSave

-----------------------------------------------------------------------------
(* Steps that change the tables, or end a save. *)

\* A committed table has the rows written, and those nobody wrote.
LEMMA CommittedRows ==
    ASSUME NEW table, NEW writes
    PROVE  /\ \A d : d \in DOMAIN Committed(table, writes) <=>
                 \/ d \in DOMAIN writes /\ writes[d] # "null"
                 \/ d \notin DOMAIN writes /\ d \in DOMAIN table
           /\ \A d \in DOMAIN Committed(table, writes) :
                 Committed(table, writes)[d] = IF d \in DOMAIN writes THEN writes[d]
                                                                     ELSE table[d]
  <1> DEFINE kept == (DOMAIN table \cup DOMAIN writes) \
                        {d \in DOMAIN writes : writes[d] = "null"}
  <1>1. Committed(table, writes) =
           [d \in kept |-> IF d \in DOMAIN writes THEN writes[d] ELSE table[d]]
    BY DEF Committed
  <1>2. \A d : d \in kept <=> \/ d \in DOMAIN writes /\ writes[d] # "null"
                              \/ d \notin DOMAIN writes /\ d \in DOMAIN table
    OBVIOUS
  <1> HIDE DEF kept
  <1> QED
    BY <1>1, <1>2

\* A commit makes the tables say the same of the days of the save, but for days
\* it deletes that another save has committed since: their rows may be left.
LEMMA CommitAgrees ==
    ASSUME PlanInv, NEW s \in DOMAIN saves, CommitSave(s)
    PROVE  /\ \A t \in PlanTable : Table(plans'[t], PlanDay, Place)
           /\ TablesAgree'
           /\ \A t \in PlanTable : \A d \in PlanDay \ DOMAIN saves[s].days :
                 d \in DOMAIN plans'[t] <=> d \in DOMAIN plans[t]
  <1> DEFINE old  == saves[s]
             days == DOMAIN old.days
  <1>1. /\ old \in SaveRow /\ SaveOK(old, plans)
        /\ \A t \in PlanTable : old.writes[t] \in Rows(Optional(Place))
    BY SaveFacts
  <1>2. /\ old.pc = "commit"
        /\ \A t \in PlanTable : plans'[t] = Committed(plans[t], old.writes[t])
        /\ apart' = (apart \ days) \cup ((days \ Placed(s)) \cap old.stale)
    BY DEF CommitSave
  <1>3. \A t \in PlanTable : HasInserted(old, t) /\ HasDeleted(old, t)
    BY <1>2 DEF HasInserted, HasDeleted, Pc
  <1>4. \A t \in PlanTable :
           /\ DOMAIN old.writes[t] \subseteq days
           /\ \A d \in DOMAIN old.writes[t] :
                 old.writes[t][d] = "null" \/ old.writes[t][d] = old.days[d]
           /\ \A d \in days : old.days[d] # "null" =>
                 d \in DOMAIN old.writes[t] /\ old.writes[t][d] = old.days[d]
           /\ \A d \in DOMAIN plans[t] \cap days :
                 d \in old.stale \/ d \in DOMAIN old.writes[t]
    BY <1>1, <1>3 DEF SaveOK
  <1>5. \A t \in PlanTable :
           /\ \A d : d \in DOMAIN plans'[t] <=>
                 \/ d \in DOMAIN old.writes[t] /\ old.writes[t][d] # "null"
                 \/ d \notin DOMAIN old.writes[t] /\ d \in DOMAIN plans[t]
           /\ \A d \in DOMAIN plans'[t] :
                 plans'[t][d] = IF d \in DOMAIN old.writes[t] THEN old.writes[t][d]
                                                              ELSE plans[t][d]
    BY <1>2, CommittedRows
  <1> HIDE DEF old
  <1>6. ASSUME NEW t \in PlanTable
        PROVE  Table(plans'[t], PlanDay, Place)
    <2>1. Table(plans[t], PlanDay, Place)
      BY DEF PlanInv, PlanTypeOK
    <2>2. /\ DOMAIN old.writes[t] \subseteq PlanDay
          /\ \A d \in DOMAIN old.writes[t] : old.writes[t][d] \in Optional(Place)
      BY <1>1, RowsType
    <2>3. DOMAIN plans'[t] \subseteq PlanDay
      BY <1>5, <2>1, <2>2 DEF Table
    <2>4. ASSUME NEW d \in DOMAIN plans'[t]
          PROVE  plans'[t][d] \in Place
      <3>1. CASE d \in DOMAIN old.writes[t]
        BY <1>5, <2>2, <2>4, <3>1 DEF Optional
      <3>2. CASE d \notin DOMAIN old.writes[t]
        BY <1>5, <2>1, <2>4, <3>2 DEF Table
      <3> QED
        BY <3>1, <3>2
    <2> QED
      BY <2>3, <2>4 DEF Table
  <1>7. ASSUME NEW t \in PlanTable, NEW d \in PlanDay \ days
        PROVE  /\ d \in DOMAIN plans'[t] <=> d \in DOMAIN plans[t]
               /\ d \in DOMAIN plans[t] => plans'[t][d] = plans[t][d]
    BY <1>2, <1>4, <1>5
  <1>8. ASSUME NEW t \in PlanTable, NEW d \in days, d \in Placed(s)
        PROVE  d \in DOMAIN plans'[t] /\ plans'[t][d] = old.days[d]
    <2>1. old.days[d] # "null"
      BY <1>8 DEF Placed, old
    <2>2. d \in DOMAIN old.writes[t] /\ old.writes[t][d] = old.days[d]
      BY <1>4, <2>1
    <2>3. d \in DOMAIN plans'[t]
      BY <1>5, <2>1, <2>2
    <2> QED
      BY <1>5, <2>2, <2>3
  <1>9. ASSUME NEW t \in PlanTable, NEW d \in days, d \notin Placed(s), d \notin old.stale
        PROVE  d \notin DOMAIN plans'[t]
    <2>1. old.days[d] = "null"
      BY <1>9 DEF Placed, old
    <2>2. d \in DOMAIN old.writes[t] => old.writes[t][d] = "null"
      BY <1>4, <2>1
    <2>3. d \in DOMAIN plans[t] => d \in DOMAIN old.writes[t]
      BY <1>4, <1>9
    <2> QED
      BY <1>2, <1>5, <2>2, <2>3
  <1>10. {"weekly", "monthly"} = PlanTable
    BY DEF PlanTable
  <1>11. ASSUME NEW d \in PlanDay \ apart'
         PROVE  /\ d \in DOMAIN plans'["weekly"] <=> d \in DOMAIN plans'["monthly"]
                /\ d \in DOMAIN plans'["weekly"] =>
                      plans'["weekly"][d] = plans'["monthly"][d]
    <2>1. CASE d \notin days
      <3>1. d \notin apart
        BY <1>2, <2>1
      <3>2. /\ d \in DOMAIN plans["weekly"] <=> d \in DOMAIN plans["monthly"]
            /\ d \in DOMAIN plans["weekly"] => plans["weekly"][d] = plans["monthly"][d]
        BY <3>1 DEF PlanInv, TablesAgree
      <3> QED
        BY <1>7, <1>10, <2>1, <3>2
    <2>2. CASE d \in days /\ d \in Placed(s)
      BY <1>8, <1>10, <2>2
    <2>3. CASE d \in days /\ d \notin Placed(s)
      <3>1. d \notin old.stale
        BY <1>2, <2>3
      <3> QED
        BY <1>9, <1>10, <2>3, <3>1
    <2> QED
      BY <2>1, <2>2, <2>3
  <1>12. TablesAgree'
    BY <1>11 DEF TablesAgree
  <1> QED
    BY <1>6, <1>7, <1>12 DEF old

\* A save that goes on when s commits: the days of s are stale for it.
LEMMA OthersAtCommit ==
    ASSUME PlanInv, NEW s \in DOMAIN saves, CommitSave(s), NEW o \in DOMAIN saves, o # s
    PROVE  saves'[o] \in SaveRow /\ SaveOK(saves'[o], plans')
  <1> DEFINE old  == saves[o]
             days == DOMAIN saves[s].days
             lost == DOMAIN saves[s].writes[Here(o)]
             seen == IF old.pc \in {"wait1", "wait2"} THEN old.seen \ lost ELSE old.seen
             row  == [old EXCEPT !.seen = seen, !.stale = old.stale \cup days]
  <1>1. /\ old \in SaveRow /\ SaveOK(old, plans) /\ Here(o) \in PlanTable
        /\ old.seen \in SUBSET PlanDay
    BY SaveFacts
  <1>2. saves'[o] = row
    BY <1>1 DEF CommitSave, SaveRow
  <1>3. saves[s].days \in Rows(Optional(Place)) /\ SaveOK(saves[s], plans)
    BY SaveFacts
  <1>4. days \subseteq PlanDay
    BY <1>3, RowsType
  <1>5. lost \subseteq days
    BY <1>1, <1>3 DEF SaveOK
  <1>6. row \in SaveRow
    BY <1>1, <1>4 DEF SaveRow
  <1>7. /\ row.kind = old.kind /\ row.days = old.days /\ row.writes = old.writes
        /\ row.stale = old.stale \cup days /\ row.seen = seen /\ row.pc = old.pc
    BY <1>1 DEF SaveRow
  <1>8. \A t \in PlanTable :
           /\ HasInserted(row, t) <=> HasInserted(old, t)
           /\ HasDeleted(row, t) <=> HasDeleted(old, t)
    BY <1>7 DEF HasInserted, HasDeleted, FirstTable
  <1>9. Here(o) = TableAt(row.kind, row.pc)
    BY <1>7 DEF Here
  <1>10. old.days \in Rows(Optional(Place))
    BY SaveFacts
  <1>11. DOMAIN old.days \subseteq PlanDay
    BY <1>10, RowsType
  <1>12. \A t \in PlanTable : \A d \in PlanDay \ days :
            d \in DOMAIN plans'[t] <=> d \in DOMAIN plans[t]
    BY CommitAgrees
  <1> HIDE DEF row, days, lost
  <1>13. ASSUME NEW t \in PlanTable
         PROVE  /\ DOMAIN row.writes[t] \subseteq DOMAIN row.days
                /\ \A d \in DOMAIN row.writes[t] :
                      row.writes[t][d] = "null" \/ row.writes[t][d] = row.days[d]
                /\ HasInserted(row, t) =>
                      \A d \in DOMAIN row.days : row.days[d] # "null" =>
                         d \in DOMAIN row.writes[t] /\ row.writes[t][d] = row.days[d]
                /\ HasDeleted(row, t) =>
                      \A d \in DOMAIN plans'[t] \cap DOMAIN row.days :
                         d \in row.stale \/ d \in DOMAIN row.writes[t]
    BY <1>1, <1>7, <1>8, <1>11, <1>12 DEF SaveOK
  <1>14. row.seen \subseteq DOMAIN row.days
    BY <1>1, <1>7 DEF SaveOK
  <1>15. row.pc \in {"wait1", "wait2"} =>
            \A d \in DOMAIN plans'[Here(o)] \cap DOMAIN row.days :
               d \in row.stale \/ d \in row.seen
    <2> SUFFICES ASSUME row.pc \in {"wait1", "wait2"},
                        NEW d \in DOMAIN plans'[Here(o)] \cap DOMAIN row.days,
                        d \notin row.stale
                 PROVE  d \in row.seen
      OBVIOUS
    <2>1. d \notin days /\ d \in PlanDay /\ d \in DOMAIN old.days /\ d \notin old.stale
      BY <1>7, <1>11
    <2>2. d \in DOMAIN plans[Here(o)]
      BY <1>1, <1>12, <2>1
    <2>3. d \in old.seen
      BY <1>1, <1>7, <1>9, <2>1, <2>2 DEF SaveOK
    <2> QED
      BY <1>5, <1>7, <2>1, <2>3
  <1>16. SaveOK(row, plans')
    BY <1>9, <1>13, <1>14, <1>15 DEF SaveOK
  <1> QED
    BY <1>2, <1>6, <1>16

LEMMA CommitKeeps ==
    ASSUME PlanInv, NEW s \in DOMAIN saves, CommitSave(s)
    PROVE  PlanInv'
  <1>1. DOMAIN saves' = DOMAIN saves \ {s}
    BY DEF CommitSave
  <1>2. \A o \in DOMAIN saves' : saves'[o] \in SaveRow /\ SaveOK(saves'[o], plans')
    BY <1>1, OthersAtCommit
  <1>3. apart' \in SUBSET PlanDay
    <2>1. saves[s].days \in Rows(Optional(Place))
      BY SaveFacts
    <2>2. DOMAIN saves[s].days \subseteq PlanDay
      BY <2>1, RowsType
    <2> QED
      BY <2>2 DEF CommitSave, PlanInv, PlanTypeOK
  <1>4. /\ \A t \in PlanTable : Table(plans'[t], PlanDay, Place)
        /\ TablesAgree'
    BY CommitAgrees
  <1>5. DOMAIN plans' = PlanTable
    BY DEF CommitSave
  <1>6. PlanTypeOK'
    BY <1>1, <1>3, <1>4, <1>5 DEF PlanInv, PlanTypeOK
  <1> QED
    BY <1>2, <1>4, <1>6 DEF PlanInv

LEMMA DeadlockKeeps ==
    ASSUME PlanInv, NEW s \in DOMAIN saves, Deadlocked(s)
    PROVE  PlanInv'
  <1>1. /\ DOMAIN saves' \subseteq DOMAIN saves
        /\ \A o \in DOMAIN saves' : saves'[o] = saves[o]
        /\ UNCHANGED <<plans, apart>>
    BY DEF Deadlocked, Without
  <1> QED
    BY <1>1 DEF PlanInv, PlanTypeOK, TablesAgree

\* A clock-in changes the place of a row, never which rows there are.
LEMMA ClockInKeeps ==
    ASSUME PlanInv, NEW d \in PlanDay, NEW place \in Place, ClockInSync(d, place)
    PROVE  PlanInv'
  <1>1. /\ d \in DOMAIN plans["weekly"]
        /\ plans' = [plans EXCEPT !["weekly"] = Upsert(plans["weekly"], d, place)]
        /\ apart' = apart \cup {d}
        /\ UNCHANGED saves
    BY DEF ClockInSync
  <1>2. /\ DOMAIN plans = PlanTable => DOMAIN plans' = PlanTable
        /\ \A t \in PlanTable : t # "weekly" => plans'[t] = plans[t]
    BY <1>1
  <1>3. CASE "weekly" \in DOMAIN plans
    <2>1. plans'["weekly"] = Upsert(plans["weekly"], d, place)
      BY <1>1, <1>3
    <2>2. /\ DOMAIN plans'["weekly"] = DOMAIN plans["weekly"]
          /\ \A x \in DOMAIN plans["weekly"] :
                plans'["weekly"][x] = IF x = d THEN place ELSE plans["weekly"][x]
      BY <1>1, <2>1 DEF Upsert
    <2>3. \A t \in PlanTable : DOMAIN plans'[t] = DOMAIN plans[t]
      BY <1>2, <2>2
    <2>4. \A t \in PlanTable : Table(plans'[t], PlanDay, Place)
      BY <1>2, <2>2 DEF PlanInv, PlanTypeOK, Table
    <2>5. PlanTypeOK'
      BY <1>1, <2>4 DEF PlanInv, PlanTypeOK
    <2>6. TablesAgree'
      BY <1>1, <1>2, <2>2 DEF PlanInv, TablesAgree, PlanTable
    <2>7. \A s \in DOMAIN saves : SaveOK(saves[s], plans')
      <3> SUFFICES ASSUME NEW s \in DOMAIN saves
                   PROVE  SaveOK(saves[s], plans')
        OBVIOUS
      <3>1. SaveOK(saves[s], plans) /\ TableAt(saves[s].kind, saves[s].pc) \in PlanTable
        BY DEF PlanInv, TableAt, PlanTable
      <3> QED
        BY <2>3, <3>1 DEF SaveOK
    <2> QED
      BY <1>1, <2>5, <2>6, <2>7 DEF PlanInv
  <1> QED
    BY <1>3 DEF PlanInv, PlanTypeOK, PlanTable

LEMMA PlanStarts == PlanInit => PlanInv
  <1> SUFFICES ASSUME PlanInit
               PROVE  PlanInv
    OBVIOUS
  <1>1. /\ DOMAIN NoRecords = {} /\ DOMAIN plans = PlanTable
        /\ \A t \in PlanTable : plans[t] = NoRecords
        /\ saves = NoRecords /\ apart = {}
        /\ "weekly" \in PlanTable /\ "monthly" \in PlanTable
    BY DEF PlanInit, NoRecords, PlanTable
  <1> QED
    BY <1>1 DEF PlanInv, PlanTypeOK, TablesAgree, Table

LEMMA PlanSteps == PlanInv /\ [PlanNext]_planVars => PlanInv'
  <1> SUFFICES ASSUME PlanInv, [PlanNext]_planVars
               PROVE  PlanInv'
    OBVIOUS
  <1>1. ASSUME NEW s \in Save, NEW kind \in {"week", "month"},
               NEW days \in (SUBSET PlanDay) \ {{}},
               NEW places \in [days -> Optional(Place)], BeginSave(s, kind, places)
        PROVE  PlanInv'
    <2>1. places \in Rows(Optional(Place))
      BY RowsType
    <2> QED
      BY <1>1, <2>1, BeginSaveKeeps
  <1>2. ASSUME NEW s \in Save, NEW d \in PlanDay, NEW place \in Place,
               SetPlanDay(s, d, place)
        PROVE  PlanInv'
    <2>1. [x \in {d} |-> place] \in Rows(Optional(Place))
      BY RowsType DEF Optional
    <2> QED
      BY <1>2, <2>1, BeginSaveKeeps DEF SetPlanDay
  <1>3. ASSUME NEW s \in DOMAIN saves,
               BeginDelete(s) \/ EndDelete(s) \/ Insert(s) \/ CommitSave(s) \/ Deadlocked(s)
        PROVE  PlanInv'
    BY <1>3, BeginDeleteKeeps, EndDeleteKeeps, InsertKeeps, CommitKeeps, DeadlockKeeps
  <1>4. ASSUME NEW d \in PlanDay, NEW place \in Place, ClockInSync(d, place)
        PROVE  PlanInv'
    BY <1>4, ClockInKeeps
  <1>5. CASE UNCHANGED planVars
    BY <1>5 DEF planVars, PlanInv, PlanTypeOK, TablesAgree
  <1> QED
    BY <1>1, <1>2, <1>3, <1>4, <1>5 DEF PlanNext

\* The weekly and the monthly table tell the same story of every day but those
\* set apart, however many saves of weeks, months and days overlap
\* (weekly_plan/service.py:222-306, repository.py:57-108).
THEOREM PlanTablesAgree == PlanSpec => []TablesAgree
  <1>1. PlanInv => TablesAgree
    BY DEF PlanInv
  <1> QED
    BY <1>1, PlanStarts, PlanSteps, PTL DEF PlanSpec

\* The pages of a team say what the member's own pages say, but for days set
\* apart (weekly_plan/service.py, get_team_week and get_team_month).
THEOREM TeamReadsThePlan == PlanSpec => []PlanPagesAgree
  <1>1. PlanInv => PlanPagesAgree
    <2> SUFFICES ASSUME PlanInv, NEW r \in Reader, NEW days \in SUBSET PlanDay,
                        ResolveTeamMembers(r)
                 PROVE  /\ DOMAIN GetMyWeek(days) \ DOMAIN GetTeamWeek(r, days) \subseteq apart
                        /\ \A d \in DOMAIN GetTeamWeek(r, days) :
                              /\ GetTeamWeek(r, days)[d] = GetMyWeek(days)[d]
                              /\ GetTeamWeek(r, days)[d] = GetTeamMonth(r, days)[d]
                        /\ \A d \in days : TeamPlanToday(r, d) = GetMyMonth({d})
      BY DEF PlanPagesAgree
    <2> DEFINE weekly  == ListByRange("weekly", days)
               monthly == ListByRange("monthly", days)
               own     == MergeEntriesByDate(weekly, monthly)
    <2>1. /\ GetTeamWeek(r, days) = weekly /\ GetTeamMonth(r, days) = weekly
          /\ GetMyWeek(days) = own
      BY DEF GetTeamWeek, GetTeamMonth, GetMyWeek, ListTeamByWeek, ListTeamByRange
    <2>2. /\ DOMAIN weekly = DOMAIN plans["weekly"] \cap days
          /\ DOMAIN monthly = DOMAIN plans["monthly"] \cap days
      BY DEF ListByRange
    <2>3. /\ DOMAIN own = DOMAIN weekly \cup DOMAIN monthly
          /\ \A d \in DOMAIN weekly : own[d] = weekly[d]
      BY DEF MergeEntriesByDate
    <2>4. DOMAIN own \ DOMAIN weekly \subseteq apart
      BY <2>2, <2>3 DEF PlanInv, TablesAgree
    <2>5. \A d \in days : TeamPlanToday(r, d) = GetMyMonth({d})
      BY DEF TeamPlanToday, GetMyMonth
    <2> HIDE DEF own, weekly
    <2> QED
      BY <2>1, <2>3, <2>4, <2>5
  <1> QED
    BY <1>1, PlanStarts, PlanSteps, PTL DEF PlanSpec

-----------------------------------------------------------------------------
(* Projects. *)

ProjectRecord ==
    [status : ProjectStatus, deleted : BOOLEAN, budgeted : Hours, tasks : SUBSET TaskKey,
     members : UNION {[D -> Hours] : D \in SUBSET Staff}]

ProjectsInv ==
    /\ DOMAIN projects \subseteq Project
    /\ \A p \in DOMAIN projects : projects[p] \in ProjectRecord

LEMMA ProjectsFollow == ProjectsInv => ProjectsTypeOK
<1> SUFFICES ASSUME ProjectsInv, NEW p \in DOMAIN projects PROVE ProjectRow(projects[p])
  BY DEF ProjectsTypeOK, ProjectsInv
<1> QED BY DEF ProjectsInv, ProjectRecord, ProjectRow, ProjectTask, ProjectMember, Table

LEMMA ProjectsBegin == ProjectsInit => ProjectsInv
  BY DEF ProjectsInit, ProjectsInv, NoRecords

\* Members are entered, changed and removed one by one or together.
LEMMA MembersWritten ==
    ASSUME NEW r \in ProjectRecord, NEW D \in SUBSET Staff, NEW ms \in [D -> Hours]
    PROVE  [r EXCEPT !.members = ms] \in ProjectRecord
  BY DEF ProjectRecord

LEMMA ProjectWritten ==
    ASSUME ProjectsInv, NEW p \in Project, NEW row \in ProjectRecord, Write(p, row)
    PROVE  ProjectsInv'
  BY DEF ProjectsInv, Write, Upsert

LEMMA ProjectsStep == ProjectsInv /\ [ProjectsNext]_projects => ProjectsInv'
<1> SUFFICES ASSUME ProjectsInv, [ProjectsNext]_projects PROVE ProjectsInv'
  OBVIOUS
<1>1. CASE UNCHANGED projects
  BY <1>1 DEF ProjectsInv
<1>2. ASSUME NEW p \in Project, NEW status \in ProjectStatus, NEW budgeted \in Hours,
             UpsertProject(p, status, budgeted)
      PROVE  ProjectsInv'
  <2>1. [status |-> status, deleted |-> FALSE, budgeted |-> budgeted,
         tasks |-> {}, members |-> NoRecords] \in ProjectRecord
    <3>1. NoRecords \in [{} -> Hours]
      BY DEF NoRecords
    <3> HIDE DEF NoRecords
    <3> QED BY <3>1 DEF ProjectRecord
  <2>2. ASSUME p \in Kept
        PROVE  [projects[p] EXCEPT !.status = status, !.budgeted = budgeted] \in ProjectRecord
    BY <2>2 DEF Kept, ProjectsInv, ProjectRecord
  <2> QED BY <1>2, <2>1, <2>2, ProjectWritten DEF UpsertProject
<1>3. ASSUME NEW p \in Project, DeleteProject(p) PROVE ProjectsInv'
  <2>1. [projects[p] EXCEPT !.deleted = TRUE] \in ProjectRecord
    BY <1>3 DEF DeleteProject, Kept, ProjectsInv, ProjectRecord
  <2> QED BY <1>3, <2>1, ProjectWritten DEF DeleteProject
<1>4. ASSUME NEW p \in Kept PROVE /\ projects[p] \in ProjectRecord
                                  /\ \E D \in SUBSET Staff : projects[p].members \in [D -> Hours]
  BY <1>4 DEF Kept, ProjectsInv, ProjectRecord
<1>5. ASSUME NEW p \in Project, NEW m \in Staff, NEW hours \in Hours, AddProjectMember(p, m, hours)
      PROVE  ProjectsInv'
  <2>1. p \in Kept
    BY <1>5 DEF AddProjectMember
  <2>2. PICK D \in SUBSET Staff : projects[p].members \in [D -> Hours]
    BY <1>4, <2>1
  <2> DEFINE ms == Upsert(projects[p].members, m, hours)
  <2>3. ms \in [D \cup {m} -> Hours] /\ D \cup {m} \in SUBSET Staff
    BY <2>2, <1>5 DEF Upsert
  <2>4. Write(p, [projects[p] EXCEPT !.members = ms])
    BY <1>5 DEF AddProjectMember
  <2> HIDE DEF ms
  <2> QED BY <1>4, <2>1, <2>3, <2>4, MembersWritten, ProjectWritten
<1>6. ASSUME NEW p \in Project, NEW ms \in SUBSET Staff, BulkAssignProjectMembers(p, ms)
      PROVE  ProjectsInv'
  <2>1. p \in Kept
    BY <1>6 DEF BulkAssignProjectMembers
  <2>2. PICK D \in SUBSET Staff : projects[p].members \in [D -> Hours]
    BY <1>4, <2>1
  <2> DEFINE old == projects[p].members
             all == [m \in DOMAIN old \cup ms |-> IF m \in DOMAIN old THEN old[m] ELSE NoHours]
  <2>3. all \in [D \cup ms -> Hours] /\ D \cup ms \in SUBSET Staff
    BY <2>2, <1>6 DEF Hours
  <2>4. Write(p, [projects[p] EXCEPT !.members = all])
    BY <1>6 DEF BulkAssignProjectMembers
  <2> HIDE DEF all
  <2> QED BY <1>4, <2>1, <2>3, <2>4, MembersWritten, ProjectWritten
<1>7. ASSUME NEW p \in Project, NEW m \in Staff, RemoveProjectMember(p, m) PROVE ProjectsInv'
  <2>1. p \in Kept
    BY <1>7 DEF RemoveProjectMember
  <2>2. PICK D \in SUBSET Staff : projects[p].members \in [D -> Hours]
    BY <1>4, <2>1
  <2> DEFINE ms == Without(projects[p].members, {m})
  <2>3. ms \in [D \ {m} -> Hours] /\ D \ {m} \in SUBSET Staff
    BY <2>2 DEF Without
  <2>4. Write(p, [projects[p] EXCEPT !.members = ms])
    BY <1>7 DEF RemoveProjectMember
  <2> HIDE DEF ms
  <2> QED BY <1>4, <2>1, <2>3, <2>4, MembersWritten, ProjectWritten
<1>8. ASSUME NEW p \in Project, NEW t \in TaskKey, CreateProjectTask(p, t) PROVE ProjectsInv'
  <2>1. [projects[p] EXCEPT !.tasks = @ \cup {t}] \in ProjectRecord
    BY <1>4, <1>8 DEF CreateProjectTask, ProjectRecord
  <2> QED BY <1>8, <2>1, ProjectWritten DEF CreateProjectTask
<1> QED BY <1>1, <1>2, <1>3, <1>5, <1>6, <1>7, <1>8 DEF ProjectsNext

-----------------------------------------------------------------------------
(* Workforce as a whole. *)

\* Each part of it is a behaviour of that part.
LEMMA WorkforceParts ==
    /\ WorkforceInit => AttendanceInit /\ WorkLogsInit /\ ProjectsInit /\ PlanInit
    /\ [WorkforceNext]_<<part, attendanceVars, worklogVars, projects, planVars>> =>
         /\ [AttendanceNext]_attendanceVars /\ [WorkLogsNext]_worklogVars
         /\ [ProjectsNext]_projects /\ [PlanNext]_planVars
<1>1. WorkforceInit => AttendanceInit /\ WorkLogsInit /\ ProjectsInit /\ PlanInit
  BY DEF WorkforceInit
<1>2. WorkforceNext => /\ [AttendanceNext]_attendanceVars /\ [WorkLogsNext]_worklogVars
                      /\ [ProjectsNext]_projects /\ [PlanNext]_planVars
  BY DEF WorkforceNext
<1>3. UNCHANGED <<part, attendanceVars, worklogVars, projects, planVars>> =>
        /\ UNCHANGED attendanceVars /\ UNCHANGED worklogVars
        /\ UNCHANGED projects /\ UNCHANGED planVars
  OBVIOUS
<1> QED BY <1>1, <1>2, <1>3

LEMMA PartsGoOn ==
    WorkforceSpec => AttendanceSpec /\ WorkLogsSpec /\ [](ProjectsTypeOK) /\ PlanSpec
<1>1. ProjectsInit => ProjectsInv
  BY ProjectsBegin
<1> QED
  BY WorkforceParts, <1>1, ProjectsStep, ProjectsFollow, PTL
     DEF WorkforceSpec, AttendanceSpec, WorkLogsSpec, PlanSpec

\* The tables of the working day keep their types (attendance, work logs, projects
\* and plans), among them that logs lie within their day.
THEOREM WorkforceTypeCorrect == WorkforceSpec => []WorkforceTypeOK
<1>1. PlanInv => PlanTypeOK
  BY DEF PlanInv
<1>2. PlanSpec => []PlanTypeOK
  BY <1>1, PlanStarts, PlanSteps, PTL DEF PlanSpec
<1> QED
  BY <1>2, PartsGoOn, AttendanceTypeCorrect, LogsWithinTheirDay, PTL DEF WorkforceTypeOK

\* What the components promise holds where they run together (Attendance, WorkLogs,
\* WeeklyPlan).
THEOREM WorkforceStaysSound ==
    WorkforceSpec => /\ [](SessionsAreSound /\ BalancesStaySound /\ TablesAgree)
                     /\ []WorkforcePagesAgree
                     /\ TextIsReported
<1>1. ReportsTellTheDays /\ SheetPagesAgree /\ PlanPagesAgree => WorkforcePagesAgree
  BY DEF WorkforcePagesAgree
<1> QED
  BY <1>1, PartsGoOn, SessionsSound, BalancesSound, PlanTablesAgree, ReportsTell, SheetPagesTell,
     TeamReadsThePlan, TextReported, PTL
=============================================================================
