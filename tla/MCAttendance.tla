---------------------------- MODULE MCAttendance ----------------------------
(* One member and one leave of two working days, in units of half a day, on days
   of six four-hour units: the member clocks in at 04:00 and at 20:00 of the first
   day and at 04:00 of the second.  The history variable holds what clock-ins gave
   back, so that giving a day back again can be told from the first time. *)
EXTENDS Attendance

VARIABLE givenBack

MCAttendanceInit == AttendanceInit /\ givenBack = {}

\* The step is a clock-in on the day d that takes off what the request r is charged.
GivesBack(r, d) ==
    /\ r \in LeaveOn(requests[r].member, d)
    /\ requests'[r].days < requests[r].days
    /\ \E now \in Moment, remote, summary \in BOOLEAN :
          DayOf(now) = d /\ ClockIn(requests[r].member, now, remote, summary)

MCAttendanceNext ==
    /\ AttendanceNext
    /\ givenBack' = givenBack \cup
          {x \in (DOMAIN requests) \X Date : GivesBack(x[1], x[2])}

MCAttendanceSpec ==
    MCAttendanceInit /\ [][MCAttendanceNext]_<<attendanceVars, givenBack>>

\* app/modules/attendance/service.py:756 says that a clock-in on a day of leave
\* restores 1 day: a day that was given back to its request is not given back
\* once more when the member clocks in again on it.
RestoredOncePerDay ==
    [][\A r \in DOMAIN requests, d \in Date :
          <<r, d>> \in givenBack => ~GivesBack(r, d)]_<<attendanceVars, givenBack>>

MCDate == {1, 2}
MCWeekend == {}
MCYear == {2021, 2022}
MCYearOf == [d \in MCDate |-> IF d = 1 THEN 2021 ELSE 2022]
MCQuota == {2}
MCDayInput == {2, 4}
\* Two days are granted, so that a leave of two days can be approved.
MCBalanceInput == {[allocated |-> 4, carriedForward |-> 0, lapsed |-> 0]}
MCMoment == {7, 11, 13}
MCPlanInput == {"OFFICE", "HOLIDAY"}
MCManualInput == {[in |-> NoTime, out |-> NoTime, type |-> "LEAVE", remote |-> FALSE]}
=============================================================================
