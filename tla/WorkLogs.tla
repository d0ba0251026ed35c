------------------------------ MODULE WorkLogs ------------------------------
(***************************************************************************)
(* The time sheet of one member: work logs under the attendance rows, and  *)
(* the report made of them (app/modules/attendance/service.py).            *)
(*                                                                         *)
(* Every handler is one transaction.  Of texts only whether there is one   *)
(* is kept.  Whether a day is covered by leave or planned as a holiday     *)
(* (Attendance), and whether a task may be chosen (Projects), is left      *)
(* open: all of these only stop a handler.                                 *)
(***************************************************************************)
EXTENDS Tables, Days, FiniteSets, FiniteSetsExt, Sequences, SequencesExt

CONSTANTS
    Task,           \* tasks the selection of a project accepts
    NoTask,         \* in place of a project and its task
    SheetDay,       \* days
    ClockTime,      \* moments at which the member clocks in and out
    BulkInput,      \* sets of logs the member submits for a day
    SpanInput       \* times an administrator enters for a day

Log == [start : Nat, end : Nat, task : Task \cup {NoTask}, titled : BOOLEAN, noted : BOOLEAN]

\* Moments and days are counted from 0, and what is submitted are finite sets of
\* logs and times.
ASSUME SheetInputs ==
    /\ SheetDay \subseteq Nat
    /\ \A now \in ClockTime : now \in Nat /\ DayOf(now) \in SheetDay
    /\ \A input \in BulkInput : IsFiniteSet(input) /\ \A l \in input : l \in Log
    /\ \A span \in SpanInput : span.in \in Nat \cup {NoTime} /\ span.out \in Nat \cup {NoTime}

VARIABLES
    sheet,          \* attendance row of a day: times, task, description
    logs            \* the work logs of the row of a day

worklogVars == <<sheet, logs>>

\* projectId, projectTaskId and description were null, or were not.
SheetRow == [in : Nat \cup {NoTime}, out : Nat \cup {NoTime},
             task : Task \cup {NoTask}, told : BOOLEAN]

WorkLogsInit == sheet = NoRecords /\ logs = NoRecords

LogsOf(d) == IF d \in DOMAIN logs THEN logs[d] ELSE {}

-----------------------------------------------------------------------------
\* The clock.

\* The row of a day, created or replaced.
UpsertDayRow(rows, d, in, out, t, told) ==
    Upsert(rows, d, [in |-> in, out |-> out, task |-> t, told |-> told])

OpenSheets == {d \in DOMAIN sheet : sheet[d].in # NoTime /\ sheet[d].out = NoTime}

\* The logs of a forgotten session, and those of today, are left alone.
ClockInWithTask(now, t, told) ==
    LET today == DayOf(now)
        closed == [d \in DOMAIN sheet |->
              IF d \in OpenSheets
              THEN [sheet[d] EXCEPT !.out = ForgottenOut(sheet[d].in, d)] ELSE sheet[d]]
    IN  /\ Cardinality(OpenSheets) <= 1 /\ \A d \in OpenSheets : d < today
        /\ sheet' = UpsertDayRow(closed, today, now, NoTime, t, told)
        /\ UNCHANGED logs

\* A part of a session that named a task becomes a log, unless there is one.
InsertClockSessionWorkLogIfMissing(old, in, out, t, noted) ==
    IF t = NoTask \/ old # {} THEN old
    ELSE {[start |-> in, end |-> out, task |-> t, titled |-> FALSE, noted |-> noted]}

\* Mutant: one log of the day is enough, whatever its times and title.
UpsertIfEmpty(old, in, out, t) ==
    IF old # {} THEN {old}
    ELSE {{[start |-> in, end |-> out, task |-> t, titled |-> TRUE, noted |-> TRUE]}}

\* The text given at the end goes to a log of these times, to the only one if
\* it has no title, or to one of its own; any of the outcomes.
UpsertTerminalSessionWorkLogText(old, in, out, t) ==
    LET told(l)  == [l EXCEPT !.task = t, !.noted = TRUE, !.titled = TRUE]
        matching == {l \in old : l.start = in /\ l.end = out}
        target   == IF matching # {} THEN matching
                    ELSE {l \in old : old = {l} /\ ~l.titled}
    IN  IF target # {} THEN {(old \ {l}) \cup {told(l)} : l \in target}
        ELSE {old \cup {[start |-> in, end |-> out, task |-> t, titled |-> TRUE, noted |-> TRUE]}}

ClockOutWithText(now, text) ==
    \E o \in OpenSheets :
      LET row   == sheet[o]
          out   == CappedOut(row.in, now)
          parts == SegmentDays(row.in, out)
          last  == Max(parts)
          first(d) == SegmentIn(row.in, d)
          final(d) == SegmentOut(out, d)
          told(d)  == row.told \/ (text /\ d = last)
          kept(d)  == InsertClockSessionWorkLogIfMissing(
                          LogsOf(d), first(d), final(d), row.task, told(d))
      IN  /\ OpenSheets = {o} /\ now > row.in
          /\ row.told \/ text
          /\ parts \subseteq SheetDay
          /\ sheet' = [d \in DOMAIN sheet \cup parts |->
                IF d \in parts
                THEN [in |-> first(d), out |-> final(d), task |-> row.task, told |-> told(d)]
                ELSE sheet[d]]
          /\ \E end \in IF text /\ ~row.told
                       THEN UpsertTerminalSessionWorkLogText(kept(last), first(last), final(last), row.task)
                       ELSE {kept(last)} :
               logs' = [d \in DOMAIN logs \cup parts |->
                   IF d = last THEN end ELSE IF d \in parts THEN kept(d) ELSE logs[d]]
      
-----------------------------------------------------------------------------
\* Editing.

ValidateWorkLogItem(l, d) == l.start < l.end /\ DayOf(l.start) = d /\ DayOf(l.end) = d

\* The day spans its logs; the gaps between them count.
DeriveDayFromLogs(input) ==
    [in |-> Min({l.start : l \in input}), out |-> Max({l.end : l \in input})]

\* The logs of a day, once those it had are deleted.
InsertWorkLogs(d, input) == Upsert(Without(logs, {d}), d, input)

\* The logs are replaced and the row is what they span; its task and its
\* description stay.  No logs at all delete the day.
UpsertBulkWorkLogs(d, input) ==
    /\ \A l \in input : ValidateWorkLogItem(l, d)
    /\ IF input = {}
       THEN sheet' = Without(sheet, {d}) /\ logs' = Without(logs, {d})
       ELSE LET span == DeriveDayFromLogs(input)
                old  == IF d \in DOMAIN sheet THEN sheet[d] ELSE [task |-> NoTask, told |-> FALSE]
            IN  /\ sheet' = UpsertDayRow(sheet, d, span.in, span.out, old.task, old.told)
                /\ logs' = InsertWorkLogs(d, input)

\* An administrator replaces the row; the logs under it stay.
ManualDay(d, span) ==
    /\ sheet' = UpsertDayRow(sheet, d, span.in, span.out, NoTask, FALSE)
    /\ UNCHANGED logs

RemoveDay(d) ==
    /\ d \in DOMAIN sheet
    /\ sheet' = Without(sheet, {d}) /\ logs' = Without(logs, {d})

DeleteBulkWorkLogsDay(d) == RemoveDay(d)

\* Logs would be left without a row, which the table refuses.
DeleteDay(d) == LogsOf(d) = {} /\ RemoveDay(d)

WorkLogsNext ==
    \/ \E now \in ClockTime :
         \/ \E t \in Task \cup {NoTask}, told \in BOOLEAN : ClockInWithTask(now, t, told)
         \/ \E text \in BOOLEAN : ClockOutWithText(now, text)
    \/ \E d \in SheetDay :
         \/ \E input \in BulkInput : UpsertBulkWorkLogs(d, input)
         \/ \E span \in SpanInput : ManualDay(d, span)
         \/ DeleteBulkWorkLogsDay(d) \/ DeleteDay(d)

WorkLogsSpec == WorkLogsInit /\ [][WorkLogsNext]_worklogVars

-----------------------------------------------------------------------------
\* The report: a line for each row, with the text of the log that began last
\* among those that have one.

DailyWorkLog(d) ==
    LET noted == {l \in LogsOf(d) : l.noted}
    IN  {l \in noted : \A m \in noted : m.start <= l.start}

ListWorkLogReports(from, to) ==
    LET days == {d \in DOMAIN sheet : from <= d /\ d <= to}
    IN  [lines |-> InOrder(days, >),
         hours |-> MapThenSumSet(LAMBDA d : IF NoTime \in {sheet[d].in, sheet[d].out} THEN 0
                                            ELSE sheet[d].out - sheet[d].in, days)]

-----------------------------------------------------------------------------
WorkLogsTypeOK ==
    /\ \A d \in DOMAIN sheet : d \in SheetDay /\ sheet[d].in \in Nat \cup {NoTime}
    /\ DOMAIN logs \subseteq DOMAIN sheet
    /\ \A d \in DOMAIN logs : \A l \in LogsOf(d) :
         StartOf(d) <= l.start /\ l.start < l.end /\ l.end <= StartOf(d + 1)

\* A text given when clocking out is in the report of its day, whatever logs were
\* entered for that day, or left by sessions before, while the member worked:
\* only a later edit takes it away.
TextIsReported ==
    [][\A d \in SheetDay :
         (/\ OpenSheets # {} /\ \A o \in OpenSheets : ~sheet[o].told
          /\ d \in (DOMAIN sheet)' /\ sheet'[d].told /\ sheet'[d].out # NoTime
          /\ d \in DOMAIN sheet => ~sheet[d].told)
         => (DailyWorkLog(d) # {})']_worklogVars

-----------------------------------------------------------------------------
(***************************************************************************)
(* The other pages over the time sheet of WorkLogs                         *)
(* (app/modules/attendance/service.py): the detail and the export of the   *)
(* report, and the day and the range the entry form loads.  Each queries   *)
(* the rows and the logs for itself.                                       *)
(***************************************************************************)

\* The rows a period selects, for the list, its count and the export.
ReportDays(from, to) == {d \in DOMAIN sheet : from <= d /\ d <= to}

ReportLine(d) == [day |-> d, in |-> sheet[d].in, out |-> sheet[d].out,
                  task |-> sheet[d].task, texts |-> DailyWorkLog(d)]

GetWorkLogReportDetail(d) == {ReportLine(x) : x \in {d} \cap DOMAIN sheet}

ExportWorkLogReports(from, to) ==
    LET days == InOrder(ReportDays(from, to), >)
    IN  [i \in DOMAIN days |-> ReportLine(days[i])]

\* A day with its logs in the order they began.
BulkDay(d) ==
    [day |-> d, logs |-> InOrder({l.start : l \in LogsOf(d)}, <)]

\* Mutant: days without logs are left out.
RangeWithLogs(from, to) ==
    LET days == InOrder({d \in ReportDays(from, to) : LogsOf(d) # {}}, <)
    IN  [i \in DOMAIN days |-> BulkDay(days[i])]

GetBulkWorkLogsRange(from, to) ==
    LET days == InOrder(ReportDays(from, to), <)
    IN  [i \in DOMAIN days |-> BulkDay(days[i])]

-----------------------------------------------------------------------------
\* Whatever was clocked, entered and deleted, the export has the lines of the
\* list, the form loads the same days in the opposite order, the detail of a
\* line is the line, and its text is that of a log the form shows for that day.
SheetPagesAgree ==
    \A from, to \in SheetDay :
      from <= to =>
        LET list == ListWorkLogReports(from, to)
            file == ExportWorkLogReports(from, to)
            form == GetBulkWorkLogsRange(from, to)
        IN  /\ [i \in DOMAIN file |-> file[i].day] = list.lines
            /\ [i \in DOMAIN form |-> form[i].day] = Reverse(list.lines)
            /\ \A i \in DOMAIN file :
                 /\ GetWorkLogReportDetail(file[i].day) = {file[i]}
                 /\ \E j \in DOMAIN form :
                      /\ form[j].day = file[i].day
                      /\ {l.start : l \in file[i].texts} \subseteq {form[j].logs[n] : n \in DOMAIN form[j].logs}
=============================================================================
