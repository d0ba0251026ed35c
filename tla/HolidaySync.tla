----------------------------- MODULE HolidaySync -----------------------------
(***************************************************************************)
(* Public holidays: taken over from an outside calendar into a master      *)
(* table, and from there into the holidays of each organization            *)
(* (app/modules/holiday_sync), once a year for all and on request for one. *)
(*                                                                         *)
(* A sync commits the master table and then every organization by itself;  *)
(* for an organization it reads the holidays that are there and inserts    *)
(* those that are missing, and the table has no key to refuse a second     *)
(* row.  Several syncs and the administrators (app/modules/leave) may run  *)
(* at once, and a sync may fail or be lost with the server anywhere.       *)
(*                                                                         *)
(* A holiday is a name on a date of one year; whether it is mandatory and  *)
(* how it is described are left out.                                       *)
(***************************************************************************)
EXTENDS Tables, Naturals, FiniteSets

CONSTANTS
    Festival,       \* holidays, each a name on a date
    Cluster,        \* those that stand for several days
    ClusterDay,     \* the days of a cluster: the eve, the day and two more
    Organization,
    Sync,           \* syncs in progress at one time
    MaxRows         \* rows of one holiday in an organization's table

ASSUME HolidayConstants == Cluster \subseteq Festival /\ "day" \in ClusterDay /\ MaxRows \in Nat \ {0}

VARIABLES
    master,         \* public_holiday_master of the year
    copies,         \* live rows per organization and holiday
    syncs,          \* what each running sync has fetched, read and yet to do
    doubtful        \* holidays whose rows an administrator, or an overlapping
                    \* sync, wrote between a sync's reading and its insert (history)

holidayVars == <<master, copies, syncs, doubtful>>

\* The days a holiday stands for.
Day(h, i) == <<h, i>>
BuildCluster(h) == {Day(h, i) : i \in ClusterDay}
Holidays == (UNION {BuildCluster(h) : h \in Cluster}) \cup {Day(h, "day") : h \in Festival \ Cluster}

\* The records made of the entries with a date that can be read; others are
\* left out.
ParseRawHolidays(entries) ==
    UNION {IF h \in Cluster THEN BuildCluster(h) ELSE {Day(h, "day")} : h \in entries}

HolidayInit ==
    /\ master = {} /\ syncs = NoRecords /\ doubtful = {}
    /\ copies = [o \in Organization |-> [h \in Holidays |-> 0]]

Run(s, row) == syncs' = Upsert(syncs, s, row)

-----------------------------------------------------------------------------
\* The year's sync always asks the calendar, whatever it answers that day...
BeginAnnualSync(s, entries) ==
    /\ s \notin DOMAIN syncs
    /\ Run(s, [records |-> ParseRawHolidays(entries), todo |-> Organization,
               at |-> "master", org |-> "none", new |-> {}])
    /\ UNCHANGED <<master, copies, doubtful>>

\* ... the sync of one organization only when the master table has nothing.
BeginOrgSync(s, o, entries) ==
    /\ s \notin DOMAIN syncs
    /\ Run(s, IF master = {}
              THEN [records |-> ParseRawHolidays(entries), todo |-> {o},
                    at |-> "master", org |-> "none", new |-> {}]
              ELSE [records |-> master, todo |-> {o},
                    at |-> "read", org |-> "none", new |-> {}])
    /\ UNCHANGED <<master, copies, doubtful>>

\* ON CONFLICT DO NOTHING.
UpsertMasterHolidays(s) ==
    /\ syncs[s].at = "master"
    /\ master' = master \cup syncs[s].records
    /\ Run(s, [syncs[s] EXCEPT !.at = "read"])
    /\ UNCHANGED <<copies, doubtful>>

\* Mutant: holidays are compared by what was fetched, not by what is there.
ReadNothing(s, o) ==
    /\ syncs[s].at = "read" /\ o \in syncs[s].todo
    /\ Run(s, [syncs[s] EXCEPT !.at = "insert", !.org = o, !.new = syncs[s].records])
    /\ UNCHANGED <<master, copies, doubtful>>

\* The holidays of the next organization that are missing.
ReadExisting(s, o) ==
    /\ syncs[s].at = "read" /\ o \in syncs[s].todo
    /\ Run(s, [syncs[s] EXCEPT !.at = "insert", !.org = o,
                  !.new = {h \in syncs[s].records : copies[o][h] = 0}])
    /\ UNCHANGED <<master, copies, doubtful>>

\* One of the syncs has read that the holiday is missing.
ExpectedBy(ps, o, h) ==
    \E p \in ps : syncs[p].at = "insert" /\ syncs[p].org = o /\ h \in syncs[p].new

CopyHolidaysToOrg(s) ==
    LET o == syncs[s].org
        new == syncs[s].new
    IN  /\ syncs[s].at = "insert"
        /\ \A h \in new : copies[o][h] < MaxRows
        /\ copies' = [copies EXCEPT ![o] = [h \in Holidays |-> IF h \in new THEN @[h] + 1 ELSE @[h]]]
        /\ doubtful' = doubtful \cup {<<o, h>> : h \in {x \in new : ExpectedBy(DOMAIN syncs \ {s}, o, x)}}
        /\ Run(s, [syncs[s] EXCEPT !.at = "read", !.org = "none", !.new = {}, !.todo = @ \ {o}])
        /\ UNCHANGED master

EndSync(s) ==
    /\ syncs[s].at = "read" /\ syncs[s].todo = {}
    /\ syncs' = Without(syncs, {s})
    /\ UNCHANGED <<master, copies, doubtful>>

\* The calendar does not answer, a statement fails, or the server stops.
LoseSync(s) ==
    /\ syncs' = Without(syncs, {s})
    /\ UNCHANGED <<master, copies, doubtful>>

-----------------------------------------------------------------------------
\* The administrators, who may enter a holiday that is there already.

CreateHolidayOf(o, h) ==
    /\ copies[o][h] < MaxRows
    /\ copies' = [copies EXCEPT ![o][h] = @ + 1]
    /\ doubtful' = IF copies[o][h] > 0 \/ ExpectedBy(DOMAIN syncs, o, h)
                 THEN doubtful \cup {<<o, h>>} ELSE doubtful
    /\ UNCHANGED <<master, syncs>>

\* The row is only marked, so that the next sync misses the holiday.
DeleteHolidayOf(o, h) ==
    /\ copies[o][h] > 0
    /\ copies' = [copies EXCEPT ![o][h] = @ - 1]
    /\ UNCHANGED <<master, syncs, doubtful>>

HolidayNext ==
    \/ \E s \in Sync, entries \in (SUBSET Festival) \ {{}} :
         \/ BeginAnnualSync(s, entries)
         \/ \E o \in Organization : BeginOrgSync(s, o, entries)
    \/ \E s \in DOMAIN syncs :
         \/ UpsertMasterHolidays(s)
         \/ \E o \in Organization : ReadExisting(s, o)
         \/ CopyHolidaysToOrg(s)
         \/ EndSync(s)
         \/ LoseSync(s)
    \/ \E o \in Organization, h \in Holidays : CreateHolidayOf(o, h) \/ DeleteHolidayOf(o, h)

HolidaySpec == HolidayInit /\ [][HolidayNext]_holidayVars

-----------------------------------------------------------------------------
HolidayTypeOK ==
    /\ master \subseteq Holidays
    /\ copies \in [Organization -> [Holidays -> 0..MaxRows]]
    /\ DOMAIN syncs \subseteq Sync /\ doubtful \subseteq Organization \X Holidays

\* Syncs repeated, resumed after a failure and mixed with deletions give every
\* organization a holiday once; twice only when an administrator entered it, or
\* when two syncs were in the midst of the same organization.
HolidaysAreOnce ==
    \A o \in Organization, h \in Holidays : copies[o][h] <= 1 \/ <<o, h>> \in doubtful
=============================================================================
