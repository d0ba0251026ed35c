----------------------------- MODULE WeeklyPlan -----------------------------
(***************************************************************************)
(* The plan of one member (app/modules/weekly_plan): the weekly and the    *)
(* monthly table, which a save of a week or of a month replaces one after  *)
(* the other, in opposite orders, and a clock-in, which writes one of      *)
(* them.  Saves of the same member may overlap.                            *)
(*                                                                         *)
(* Each table is replaced by two statements, a DELETE and an INSERT with   *)
(* ON CONFLICT DO UPDATE.  At READ COMMITTED a statement sees what is      *)
(* committed when it begins, waits for rows another transaction has        *)
(* written, and then leaves alone a row that is gone; rows inserted while  *)
(* it waited it does not see.  A cycle of waits ends with one transaction  *)
(* aborted.  A statement here waits for all its rows at once.  The days    *)
(* belong to one week and one month; projects are left out.                *)
(***************************************************************************)
EXTENDS Tables, Naturals

CONSTANTS
    PlanDay,        \* days of the plan
    Place,          \* plan locations
    Save            \* saves in progress at one time

VARIABLES
    plans,          \* per table, the committed rows: the place of a day
    saves,          \* the transactions in progress
    apart           \* days whose two rows may tell different stories: the
                    \* clock-in wrote one, or an overlapping save cleared it
                    \* (history variable)

planVars == <<plans, saves, apart>>

PlanTable == {"weekly", "monthly"}

\* The order in which a save of a kind replaces the tables.
TableAt(kind, pc) ==
    IF (kind = "week") = (pc \in {"delete1", "wait1", "insert1"}) THEN "weekly" ELSE "monthly"

PlanInit ==
    /\ plans = [t \in PlanTable |-> NoRecords]
    /\ saves = NoRecords /\ apart = {}

Change(s, row) == saves' = Upsert(saves, s, row)

\* The rows another transaction has written and not committed.
Written(s, t) == UNION {DOMAIN saves[o].writes[t] : o \in DOMAIN saves \ {s}}

\* A save brings a place, or no place, for some days.
BeginSave(s, kind, days) ==
    /\ s \notin DOMAIN saves
    /\ Change(s, [kind |-> kind, days |-> days, pc |-> "delete1", seen |-> {},
                  writes |-> [t \in PlanTable |-> NoRecords], stale |-> {}])
    /\ UNCHANGED <<plans, apart>>

\* One day, which gets a place, is saved as a week is.
SetPlanDay(s, d, place) == BeginSave(s, "week", [x \in {d} |-> place])

Here(s) == TableAt(saves[s].kind, saves[s].pc)

\* DELETE begins: it will delete the days that are committed now.
BeginDelete(s) ==
    /\ saves[s].pc \in {"delete1", "delete2"}
    /\ Change(s, [saves[s] EXCEPT
          !.seen = DOMAIN saves[s].days \cap DOMAIN plans[Here(s)],
          !.pc = IF @ = "delete1" THEN "wait1" ELSE "wait2"])
    /\ UNCHANGED <<plans, apart>>

\* DELETE ends, once nobody else has written those rows.
EndDelete(s) ==
    LET t == Here(s)
    IN  /\ saves[s].pc \in {"wait1", "wait2"}
        /\ saves[s].seen \cap Written(s, t) = {}
        /\ Change(s, [saves[s] EXCEPT
              !.writes = [@ EXCEPT ![t] = [d \in saves[s].seen |-> "null"]],
              !.seen = {},
              !.pc = IF @ = "wait1" THEN "insert1" ELSE "insert2"])
        /\ UNCHANGED <<plans, apart>>

Placed(s) == {d \in DOMAIN saves[s].days : saves[s].days[d] # "null"}

\* Mutant: a row that is there by then is kept (ON CONFLICT DO NOTHING).
InsertOrKeep(s) ==
    LET t == Here(s)
        before == saves[s].writes[t]
        free == {d \in Placed(s) : d \notin DOMAIN plans[t] \/ d \in DOMAIN before}
    IN  /\ saves[s].pc \in {"insert1", "insert2"}
        /\ Placed(s) \cap Written(s, t) = {}
        /\ Change(s, [saves[s] EXCEPT
              !.writes = [@ EXCEPT ![t] = [d \in DOMAIN before \cup free |->
                            IF d \in free THEN saves[s].days[d] ELSE before[d]]],
              !.pc = IF @ = "insert1" THEN "delete2" ELSE "commit"])
        /\ UNCHANGED <<plans, apart>>

\* INSERT of the days with a place, over rows committed meanwhile.
Insert(s) ==
    LET t == Here(s)
        before == saves[s].writes[t]
    IN  /\ saves[s].pc \in {"insert1", "insert2"}
        /\ Placed(s) \cap Written(s, t) = {}
        /\ Change(s, [saves[s] EXCEPT
              !.writes = [@ EXCEPT ![t] = [d \in DOMAIN before \cup Placed(s) |->
                            IF d \in Placed(s) THEN saves[s].days[d] ELSE before[d]]],
              !.pc = IF @ = "insert1" THEN "delete2" ELSE "commit"])
        /\ UNCHANGED <<plans, apart>>

\* The rows of a table once a transaction's writes are in it.
Committed(rows, writes) ==
    LET gone == {d \in DOMAIN writes : writes[d] = "null"}
    IN  [d \in (DOMAIN rows \cup DOMAIN writes) \ gone |->
           IF d \in DOMAIN writes THEN writes[d] ELSE rows[d]]

\* A DELETE that waited for the rows finds them gone.
CommitSave(s) ==
    LET days == DOMAIN saves[s].days
    IN  /\ saves[s].pc = "commit"
        /\ plans' = [t \in PlanTable |-> Committed(plans[t], saves[s].writes[t])]
        /\ saves' = [o \in DOMAIN saves \ {s} |-> [saves[o] EXCEPT
              !.seen = IF saves[o].pc \in {"wait1", "wait2"}
                       THEN @ \ DOMAIN saves[s].writes[Here(o)] ELSE @,
              !.stale = @ \cup days]]
        /\ apart' = (apart \ days) \cup ((days \ Placed(s)) \cap saves[s].stale)

Waits(s, o) ==
    \/ saves[s].pc \in {"wait1", "wait2"}
         /\ saves[s].seen \cap DOMAIN saves[o].writes[Here(s)] # {}
    \/ saves[s].pc \in {"insert1", "insert2"}
         /\ Placed(s) \cap DOMAIN saves[o].writes[Here(s)] # {}

\* The database aborts one of two transactions that wait for each other.
Deadlocked(s) ==
    /\ \E o \in DOMAIN saves \ {s} : Waits(s, o) /\ Waits(o, s)
    /\ saves' = Without(saves, {s})
    /\ UNCHANGED <<plans, apart>>

\* Clocking in writes where the member works to the weekly row, if there is one.
ClockInSync(d, place) ==
    /\ d \in DOMAIN plans["weekly"] /\ d \notin Written("none", "weekly")
    /\ plans' = [plans EXCEPT !["weekly"] = Upsert(@, d, place)]
    /\ apart' = apart \cup {d}
    /\ UNCHANGED saves

PlanNext ==
    \/ \E s \in Save, kind \in {"week", "month"} :
         \E days \in (SUBSET PlanDay) \ {{}} :
           \E places \in [days -> Optional(Place)] : BeginSave(s, kind, places)
    \/ \E s \in Save, d \in PlanDay, place \in Place : SetPlanDay(s, d, place)
    \/ \E s \in DOMAIN saves :
         \/ BeginDelete(s)
         \/ EndDelete(s)
         \/ Insert(s)
         \/ CommitSave(s)
         \/ Deadlocked(s)
    \/ \E d \in PlanDay, place \in Place : ClockInSync(d, place)

PlanSpec == PlanInit /\ [][PlanNext]_planVars

-----------------------------------------------------------------------------
PlanTypeOK ==
    /\ DOMAIN saves \subseteq Save /\ apart \in SUBSET PlanDay
    /\ DOMAIN plans = PlanTable
    /\ \A t \in PlanTable : Table(plans[t], PlanDay, Place)

\* The weekly and the monthly table tell the same story of every day, however
\* saves of weeks and months overlap, wait for each other and abort, except
\* for the days a clock-in moved, and those that a save cleared after another
\* one was committed behind its back: its DELETE does not see the new row.
TablesAgree ==
    \A d \in PlanDay \ apart :
        /\ d \in DOMAIN plans["weekly"] <=> d \in DOMAIN plans["monthly"]
        /\ d \in DOMAIN plans["weekly"] => plans["weekly"][d] = plans["monthly"][d]

-----------------------------------------------------------------------------
(***************************************************************************)
(* What the pages show of the plan of one member (app/modules/weekly_plan  *)
(* and app/modules/dashboard): his own week and month, made of both        *)
(* tables, the pages of his team, made of the weekly table alone, and the  *)
(* dashboard, made of both again.  Names and projects are left out.        *)
(***************************************************************************)

CONSTANTS
    Reader,             \* members who read the pages of their team
    ReaderScope,        \* Reader -> the scope of the permission
    HeadOf,             \* Reader -> the departments the reader heads
    DepartmentsOf       \* departments the planning member is in or heads

\* A head sees his departments, a reader of any other scope everybody.
ResolveTeamMembers(r) ==
    ReaderScope[r] = "department" => HeadOf[r] \cap DepartmentsOf # {}

ListByRange(t, days) == [d \in DOMAIN plans[t] \cap days |-> plans[t][d]]

\* Of two rows of a day the one written later, of two written together the
\* weekly one.  Rows that differ were written apart by a clock-in, which writes
\* the weekly row: that one is taken.
MergeEntriesByDate(weekly, monthly) ==
    [d \in DOMAIN weekly \cup DOMAIN monthly |->
       IF d \in DOMAIN weekly THEN weekly[d] ELSE monthly[d]]

GetMyWeek(days) ==
    MergeEntriesByDate(ListByRange("weekly", days), ListByRange("monthly", days))

GetMyMonth(days) ==
    MergeEntriesByDate(ListByRange("weekly", days), ListByRange("monthly", days))

\* Mutant: the week of the team is read from the monthly table.
ListTeamByMonthly(days) == ListByRange("monthly", days)

ListTeamByWeek(days) == ListByRange("weekly", days)

ListTeamByRange(days) == ListByRange("weekly", days)

GetTeamWeek(r, days) == IF ResolveTeamMembers(r) THEN ListTeamByWeek(days) ELSE NoRecords

GetTeamMonth(r, days) == IF ResolveTeamMembers(r) THEN ListTeamByRange(days) ELSE NoRecords

\* The dashboard goes by the reader's scope for attendance, which is the same
\* here.
TeamPlanToday(r, d) ==
    IF ResolveTeamMembers(r)
    THEN MergeEntriesByDate(ListByRange("weekly", {d}), ListByRange("monthly", {d}))
    ELSE NoRecords

\* A team reads of a member's days what the member reads of them, on the page of
\* the week, on that of the month and on the dashboard, except for days an
\* overlapping save has cleared in one table: the team pages then miss a day
\* that the member still sees (weekly_plan/service.py get_team_week).
PlanPagesAgree ==
    \A r \in Reader, days \in SUBSET PlanDay :
        LET own == GetMyWeek(days)
            week == GetTeamWeek(r, days)
            month == GetTeamMonth(r, days)
        IN  ResolveTeamMembers(r) =>
              /\ DOMAIN own \ DOMAIN week \subseteq apart
              /\ \A d \in DOMAIN week : week[d] = own[d] /\ week[d] = month[d]
              /\ \A d \in days : TeamPlanToday(r, d) = GetMyMonth({d})
=============================================================================
