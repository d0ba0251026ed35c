----------------------------- MODULE Attendance -----------------------------
(***************************************************************************)
(* Attendance (app/modules/attendance/service.py) over the leave tables:   *)
(* clock-in and clock-out, manual entries and their deletion, and the      *)
(* weekly plan a clock-in consults and updates.  A clock-in on a day of    *)
(* approved leave gives that day back, so it writes the requests and       *)
(* balances of LeaveLedger.                                                *)
(*                                                                         *)
(* Every handler is one transaction.  A moment is a number of time units   *)
(* of the business time zone; a day has DayLength of them.  Clock-in and   *)
(* clock-out accept an explicit time, so moments need not come in order.   *)
(***************************************************************************)
EXTENDS LeaveLedger, Days

CONSTANTS
    HalfDayMax,     \* units of work that still count as half a day
    Moment,         \* moments at which members clock in and out
    PlanInput,      \* places a member plans a day for
    ManualInput     \* what an administrator enters for a day

Location == {"OFFICE", "WFH", "LEAVE", "HOLIDAY"}
EntryType == {"LEAVE", "COMP_OFF", "HOLIDAY", "FLOATING_HOLIDAY"}
AttendanceStatus == {"PRESENT", "HALF_DAY", "ABSENT"}

\* Days are counted from the one of moment zero.  The request schema refuses an
\* entry type together with a clock-in; the remote flag alone is not a manual entry
\* but SetRemote.
ASSUME AttendanceConstants ==
    /\ Date \subseteq Nat
    /\ HalfDayMax \in 0..Cap
    /\ Moment \subseteq Nat
    /\ PlanInput \subseteq Location
    /\ \A x \in Moment : x \div DayLength \in Date
    /\ ManualInput \subseteq
          [in : Nat \cup {NoTime}, out : Nat \cup {NoTime},
           type : EntryType \cup {"WORK"}, remote : BOOLEAN]
    /\ \A i \in ManualInput :
          /\ i.type # "WORK" => i.in = NoTime
          /\ i.type = "WORK" /\ i.remote => {i.in, i.out} # {NoTime}

VARIABLES
    rows,           \* attendance row of a member on a date
    plan            \* weekly plan: where a member means to be on a date

attendanceVars == <<vars, rows, plan>>

DayKey == Member \X Date
AttendanceRow == [in : Nat \cup {NoTime}, out : Nat \cup {NoTime},
                  hours : Int, status : AttendanceStatus, remote : BOOLEAN,
                  manual : BOOLEAN, type : EntryType \cup {"WORK"},
                  summary : BOOLEAN]

AttendanceTypeOK ==
    /\ TypeOK
    /\ DOMAIN rows \subseteq DayKey
    /\ \A k \in DOMAIN rows : rows[k] \in AttendanceRow
    /\ DOMAIN plan \subseteq DayKey
    /\ \A k \in DOMAIN plan : plan[k] \in Location

-----------------------------------------------------------------------------
(* What the handlers compute. *)

StatusOf(hours) == IF hours <= HalfDayMax THEN "HALF_DAY" ELSE "PRESENT"

\* The rows of m that are clocked in and not yet out.
OpenDays(m) ==
    {d \in Date : /\ <<m, d>> \in DOMAIN rows
                  /\ rows[<<m, d>>].in # NoTime
                  /\ rows[<<m, d>>].out = NoTime}

\* Approved leave of m that covers the day d.
LeaveOn(m, d) ==
    {r \in DOMAIN requests : /\ requests[r].member = m
                             /\ requests[r].status = "APPROVED"
                             /\ requests[r].start <= d /\ d <= requests[r].end}

Worked(in, out, remote, manual, summary) ==
    [in |-> in, out |-> out, hours |-> out - in, status |-> StatusOf(out - in),
     remote |-> remote, manual |-> manual, type |-> "WORK", summary |-> summary]

\* The part of a session on the day d.
Segment(in, out, d, summary) ==
    Worked(SegmentIn(in, d), SegmentOut(out, d), FALSE, FALSE, summary)

-----------------------------------------------------------------------------
AttendanceInit ==
    /\ Init
    /\ rows = [k \in {} |-> {}]
    /\ plan = [k \in {} |-> {}]

\* Mutant: the forgotten session is left open.
StaleLeftOpen(m, today) == rows

\* Mutant: the forgotten session is marked in a way the readers do not know.
StaleMarked(m, today) ==
    [k \in DOMAIN rows |->
        IF k[1] = m /\ k[2] \in OpenDays(m) /\ k[2] < today
        THEN [rows[k] EXCEPT !.status = "CLOSED"]
        ELSE rows[k]]

\* The rows after a session of m left open on an earlier day is closed at 23:50.
StaleClosed(m, today) ==
    [k \in DOMAIN rows |->
        IF k[1] = m /\ k[2] \in OpenDays(m) /\ k[2] < today
        THEN LET out == ForgottenOut(rows[k].in, k[2])
             IN  [rows[k] EXCEPT !.out = out, !.hours = out - rows[k].in,
                                 !.status = StatusOf(out - rows[k].in)]
        ELSE rows[k]]

\* Mutant: the day is charged once more instead of given back.
RechargedRequests(m, d) ==
    [r \in DOMAIN requests |->
        IF r \in LeaveOn(m, d) /\ requests[r].days + DayUnits <= MaxUnits
        THEN [requests[r] EXCEPT !.days = @ + DayUnits]
        ELSE requests[r]]

\* Each approved request that covers the day loses a day of its charge...
RestoredRequests(m, d) ==
    [r \in DOMAIN requests |->
        IF r \in LeaveOn(m, d)
        THEN [requests[r] EXCEPT !.days = Later(0, @ - DayUnits)]
        ELSE requests[r]]

\* Mutant: the remaining column is left as it was.
RestoredUsedOnly(m, d) ==
    [k \in DOMAIN balances |->
        LET freed == {r \in LeaveOn(m, d) :
                         requests[r].days > 0 /\ requests[r].type = k[2]}
        IN  IF k[1] = m /\ k[3] = YearOf[d] /\ freed # {}
            THEN [balances[k] EXCEPT
                     !.used = Later(0, @ - DayUnits * Cardinality(freed))]
            ELSE balances[k]]

\* ... and the balance of its type in the year of the day is given the day back.
RestoredBalances(m, d) ==
    [k \in DOMAIN balances |->
        LET freed == {r \in LeaveOn(m, d) :
                         requests[r].days > 0 /\ requests[r].type = k[2]}
            b     == balances[k]
        IN  IF k[1] = m /\ k[3] = YearOf[d] /\ freed # {} /\ b.used > 0
            THEN Charged(b, Later(0, b.used - DayUnits * Cardinality(freed)))
            ELSE b]

\* Where the member works is written to the plan of the day, if there is one.
SyncedPlan(m, d, remote) ==
    IF <<m, d>> \in DOMAIN plan
    THEN [plan EXCEPT ![<<m, d>>] = IF remote THEN "WFH" ELSE "OFFICE"]
    ELSE plan

\* With more than one open row, get_active_session raises and nothing is written.
ClockIn(m, now, remote, summary) ==
    LET today == DayOf(now)
    IN  /\ Cardinality(OpenDays(m)) <= 1
        /\ \A d \in OpenDays(m) : d < today
        /\ <<m, today>> \in DOMAIN plan => plan[<<m, today>>] # "HOLIDAY"
        /\ rows' = Put(StaleClosed(m, today), <<m, today>>,
              [in |-> now, out |-> NoTime, hours |-> NoTime, status |-> "PRESENT",
               remote |-> remote, manual |-> FALSE, type |-> "WORK",
               summary |-> summary])
        /\ requests' = RestoredRequests(m, today)
        /\ balances' = RestoredBalances(m, today)
        /\ plan' = SyncedPlan(m, today, remote)
        /\ UNCHANGED <<leaveTypes, holidays>>

\* The session is capped and split at midnight; every part replaces the row of
\* its day, without the remote flag the clock-in had set.
ClockOut(m, now, summary) ==
    \E day \in OpenDays(m) :
        LET in     == rows[<<m, day>>].in
            out    == CappedOut(in, now)
            parts  == {<<m, d>> : d \in SegmentDays(in, out)}
            told   == rows[<<m, day>>].summary
            \* A summary given at clock-out goes to the last part.
            last(d) == \A e \in SegmentDays(in, out) : e <= d
        IN  /\ OpenDays(m) = {day}
            /\ now > in
            /\ told \/ summary
            /\ \A k \in parts : k \in DayKey
            /\ rows' = [k \in DOMAIN rows \cup parts |->
                  IF k \in parts THEN Segment(in, out, k[2], told \/ last(k[2]))
                                 ELSE rows[k]]
            /\ UNCHANGED <<vars, plan>>

\* An administrator replaces the row of a day.
UpsertManualDay(m, d, input) ==
    LET timed == input.type = "WORK" /\ input.in # NoTime /\ input.out # NoTime
        rest  == [in |-> input.in, out |-> input.out,
                  hours |-> IF input.type = "WORK" THEN NoTime ELSE 0,
                  status |-> IF \/ input.type = "COMP_OFF"
                                \/ input.type = "WORK" /\ input.in # NoTime
                             THEN "PRESENT" ELSE "ABSENT",
                  remote |-> input.remote, manual |-> TRUE, type |-> input.type,
                  summary |-> FALSE]
    IN  /\ input.type = "WORK" => LeaveOn(m, d) = {}
        /\ timed => input.out > input.in
        /\ rows' = Put(rows, <<m, d>>,
              IF timed THEN Worked(input.in, input.out, input.remote, TRUE, FALSE)
                       ELSE rest)
        /\ UNCHANGED <<vars, plan>>

\* Only the remote flag: the row is kept, or an empty one is made for it.
SetRemote(m, d, remote) ==
    /\ rows' = Put(rows, <<m, d>>,
          IF <<m, d>> \in DOMAIN rows
          THEN [rows[<<m, d>>] EXCEPT !.remote = remote]
          ELSE [in |-> NoTime, out |-> NoTime, hours |-> NoTime, status |-> "ABSENT",
                remote |-> remote, manual |-> TRUE, type |-> "WORK", summary |-> FALSE])
    /\ UNCHANGED <<vars, plan>>

DeleteDayEntry(m, d) ==
    /\ LeaveOn(m, d) = {}
    /\ <<m, d>> \in DOMAIN rows
    /\ rows' = [k \in DOMAIN rows \ {<<m, d>>} |-> rows[k]]
    /\ UNCHANGED <<vars, plan>>

\* The member plans a weekday (app/modules/weekly_plan/service.py).
SetDay(m, d, where) ==
    /\ d \notin Weekend
    /\ plan' = Put(plan, <<m, d>>, where)
    /\ UNCHANGED <<vars, rows>>

\* Saving the week deletes the days left empty (replace_range).
ClearDay(m, d) ==
    /\ d \notin Weekend
    /\ plan' = [k \in DOMAIN plan \ {<<m, d>>} |-> plan[k]]
    /\ UNCHANGED <<vars, rows>>

AttendanceStep ==
    \E m \in Member :
      \/ \E now \in Moment, remote, summary \in BOOLEAN : ClockIn(m, now, remote, summary)
      \/ \E now \in Moment, summary \in BOOLEAN : ClockOut(m, now, summary)
      \/ \E d \in Date :
            \/ \E input \in ManualInput : UpsertManualDay(m, d, input)
            \/ \E remote \in BOOLEAN : SetRemote(m, d, remote)
            \/ DeleteDayEntry(m, d)
            \/ ClearDay(m, d)
            \/ \E where \in PlanInput : SetDay(m, d, where)

LeaveStep == Next /\ UNCHANGED <<rows, plan>>

AttendanceNext == AttendanceStep \/ LeaveStep

AttendanceSpec == AttendanceInit /\ [][AttendanceNext]_attendanceVars

-----------------------------------------------------------------------------
(* Correctness. *)

\* However explicit times come, clocking in never opens a second session: the
\* one before is ended or closed first (service.py:659-693).  An administrator
\* can leave another open, and get_active_session (513) then raises.  A finished
\* session lies within the day of its row, is not longer than the cap, and its
\* hours and status agree with its times; it is not negative either, unless it
\* began after 23:50 and was left open (service.py:340-398, 672-692).
SessionsAreSound ==
    /\ \A m \in Member :
         Cardinality({d \in OpenDays(m) : ~rows[<<m, d>>].manual}) <= 1
    /\ \A k \in DOMAIN rows :
        LET r == rows[k]
        IN  ~r.manual /\ r.out # NoTime =>
                /\ StartOf(k[2]) <= r.in /\ r.out <= StartOf(k[2] + 1)
                /\ r.hours = r.out - r.in /\ r.hours <= Cap
                /\ r.status = IF r.hours > HalfDayMax THEN "PRESENT" ELSE "HALF_DAY"
                /\ r.in < StartOf(k[2]) + CloseAt => r.hours > 0

\* Whichever module wrote a balance last, its remaining column is what is
\* granted less what is used, and giving days back leaves no balance overdrawn.
BalancesStaySound ==
    /\ \A k \in DOMAIN balances :
         balances[k].remaining = Entitlement(balances[k]) - balances[k].used
    /\ NeverOverdrawn

-----------------------------------------------------------------------------
(***************************************************************************)
(* What the pages show of the attendance rows and of the leave on the same *)
(* days: the attendance lists (app/modules/attendance/service.py), the     *)
(* attendance report (app/modules/attendance_report/service.py) and the    *)
(* overview of a day on the dashboard (app/modules/dashboard/service.py).  *)
(*                                                                         *)
(* A page of a report is any set of the rows it lists, from one to all of  *)
(* them.  Names, projects, departments and texts are left out.             *)
(***************************************************************************)

ASSUME DaysAreConsecutive == \A x, y \in Date : x..y \subseteq Date

-----------------------------------------------------------------------------
\* The attendance lists.

ListAttendance(ms, from, to, status) ==
    {k \in DOMAIN rows : /\ k[1] \in ms /\ from <= k[2] /\ k[2] <= to
                         /\ status \in {Whichever, rows[k].status}}

GetMyAttendance(m, from, to, status) ==
    {d \in from..to : <<m, d>> \in DOMAIN rows /\ status \in {Whichever, rows[<<m, d>>].status}}

-----------------------------------------------------------------------------
\* The attendance report.

\* Which rows it is about: unlike the lists, of members that are named or of all.
ReportRows(ms, from, to) ==
    {k \in DOMAIN rows : k[2] \in from..to /\ (ms = {} \/ k[1] \in ms)}

\* The rows of a page, joined with the approved leave that covers their day.
WorkLines(page) ==
    UNION {{[member |-> k[1], day |-> k[2], hours |-> rows[k].hours, leave |-> r] :
               r \in IF LeaveOn(k[1], k[2]) = {} THEN {"none"} ELSE LeaveOn(k[1], k[2])} :
           k \in page}

\* Mutant: a leave is listed from its first day, also when that is before the report.
LeaveLinesFromStart(page, from, to) ==
    {[member |-> requests[x[1]].member, day |-> x[2], hours |-> 0, leave |-> x[1]] :
        x \in {y \in (DOMAIN requests) \X Date :
                 /\ requests[y[1]].status = "APPROVED"
                 /\ requests[y[1]].start <= to /\ requests[y[1]].end >= from
                 /\ y[2] \in requests[y[1]].start..Earlier(requests[y[1]].end, to)
                 /\ <<requests[y[1]].member, y[2]>> \notin page}}

\* To every page all the approved leave of the period is added, whoever the
\* members asked for, but for the days on this page.
LeaveLines(page, from, to) ==
    {[member |-> requests[x[1]].member, day |-> x[2], hours |-> 0, leave |-> x[1]] :
        x \in {y \in (DOMAIN requests) \X Date :
                 /\ requests[y[1]].status = "APPROVED"
                 /\ requests[y[1]].start <= to /\ requests[y[1]].end >= from
                 /\ y[2] \in Later(requests[y[1]].start, from)..Earlier(requests[y[1]].end, to)
                 /\ <<requests[y[1]].member, y[2]>> \notin page}}

\* SUM leaves out rows without hours.
HoursOf(ks) == MapThenSumSet(LAMBDA k : IF rows[k].hours = NoTime THEN 0 ELSE rows[k].hours, ks)

ListAttendanceReport(ms, from, to, page) ==
    LET listed == ReportRows(ms, from, to)
    IN  [lines |-> WorkLines(page) \cup LeaveLines(page, from, to),
         days |-> Cardinality(listed), hours |-> HoursOf(listed),
         employees |-> Cardinality({k[1] : k \in listed})]

-----------------------------------------------------------------------------
\* The overview of a day.

GetAttendanceToday(today) == ListAttendance(Member, today, today, Whichever)

GetLeaveRequests(status, from, to) ==
    {r \in DOMAIN requests : /\ requests[r].status = status
                             /\ requests[r].end >= from /\ requests[r].start <= to}

\* Those shown as present, and those on leave, a row or not.
Overview(today) ==
    [rows |-> GetAttendanceToday(today),
     away |-> {requests[r].member : r \in GetLeaveRequests("APPROVED", today, today)}]

-----------------------------------------------------------------------------
\* Whatever is clocked, entered, deleted, asked for and decided, a report on one
\* page has one line for every day that was worked or is covered by approved
\* leave, which names that leave, and no other; it shows of each member what his
\* own list shows, and of a single day what the dashboard shows.
ReportsTellTheDays ==
    \A from, to \in Date :
      from <= to =>
        LET all    == ReportRows({}, from, to)
            report == ListAttendanceReport({}, from, to, all)
            of(m, d) == {l \in report.lines : l.member = m /\ l.day = d}
        IN  /\ all = ListAttendance(Member, from, to, Whichever)
            /\ \A l \in report.lines : l.day \in from..to
            /\ \A m \in Member, d \in from..to :
                 LET told == LeaveOn(m, d) # {} \/ <<m, d>> \in DOMAIN rows
                 IN  /\ Cardinality(of(m, d)) = IF told THEN 1 ELSE 0
                     /\ \A l \in of(m, d) : l.leave \in LeaveOn(m, d) \/ LeaveOn(m, d) = {}
            /\ \A m \in Member : GetMyAttendance(m, from, to, Whichever) = {k[2] : k \in ReportRows({m}, from, to)}
            /\ from = to =>
                 {l.member : l \in report.lines}
                   = {k[1] : k \in Overview(from).rows} \cup Overview(from).away
=============================================================================
