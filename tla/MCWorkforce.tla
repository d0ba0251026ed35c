---------------------------- MODULE MCWorkforce ----------------------------
(* Attendance, the work logs of the same days, the projects they name and the
   weekly plan, each explored on its own: which one runs is chosen at the start.

   One member over Friday 31 December 2021 and Saturday 1 January 2022, in units
   of four hours: the cap of 16 hours is 4 units and a forgotten session is closed
   one unit before midnight (at 23:50 in the code).  Members clock at 04:00 and
   20:00 of the first day and at 04:00 of the second, so that sessions reach the
   cap, cross midnight and are forgotten; up to four hours of work are half a day.
   The administrator enters finished sessions, open sessions and markers. *)
EXTENDS Attendance, WorkLogs, Projects, WeeklyPlan, TLC

VARIABLE part

WorkforceInit ==
    /\ part \in {"attendance", "worklogs", "projects", "plan"}
    /\ AttendanceInit /\ WorkLogsInit /\ ProjectsInit /\ PlanInit

WorkforceNext ==
    /\ UNCHANGED part
    /\ IF part = "attendance" THEN AttendanceNext ELSE UNCHANGED attendanceVars
    /\ IF part = "worklogs" THEN WorkLogsNext ELSE UNCHANGED worklogVars
    /\ IF part = "projects" THEN ProjectsNext ELSE UNCHANGED projects
    /\ IF part = "plan" THEN PlanNext ELSE UNCHANGED planVars

WorkforceSpec ==
    /\ WorkforceInit
    /\ [][WorkforceNext]_<<part, attendanceVars, worklogVars, projects, planVars>>

Symmetry == Permutations(Staff) \cup Permutations(Save)

WorkforceTypeOK ==
    /\ AttendanceTypeOK /\ WorkLogsTypeOK /\ ProjectsTypeOK /\ PlanTypeOK

\* The pages of every part agree among themselves; those of a part that does not
\* run are empty.
WorkforcePagesAgree ==
    /\ part = "attendance" => ReportsTellTheDays
    /\ part = "worklogs" => SheetPagesAgree
    /\ part = "plan" => PlanPagesAgree

MCDate == {1, 2}
MCWeekend == {2}
MCYear == {2021, 2022}
MCYearOf == [d \in MCDate |-> IF d = 1 THEN 2021 ELSE 2022]
MCQuota == {2}
MCDayInput == {2, 4}
MCBalanceInput == {[allocated |-> 4, carriedForward |-> 0, lapsed |-> 1]}
MCMoment == {7, 11, 13}
MCPlanInput == {"OFFICE", "HOLIDAY"}
MCManualInput ==
    {[in |-> 8, out |-> 10, type |-> "WORK", remote |-> TRUE],
     [in |-> 8, out |-> NoTime, type |-> "WORK", remote |-> FALSE],
     [in |-> NoTime, out |-> NoTime, type |-> "LEAVE", remote |-> FALSE]}

LogOf(s, e, titled) == [start |-> s, end |-> e, task |-> NoTask, titled |-> titled, noted |-> FALSE]
\* The planner is in sales; one reader heads it, one heads another department, one
\* reads the whole organization.
MCReaderScope == [r \in Reader |-> IF r = "administrator" THEN "organization" ELSE "department"]
MCHeadOf == [r \in Reader |-> IF r = "head" THEN {"sales"} ELSE {"works"}]

MCBulkInput == {{}, {LogOf(7, 8, FALSE)}, {LogOf(7, 8, FALSE), LogOf(9, 11, TRUE)}}
MCSpanInput == {[in |-> NoTime, out |-> NoTime]}
=============================================================================
