---------------------------- MODULE AccessControl ----------------------------
(***************************************************************************)
(* Access to doors (app/modules/access_control/service.py): which member   *)
(* may pass which access point, and the log of who passed.  Entries are    *)
(* numbered in the order of their creation; each carries the time its      *)
(* reader reported, with today the last of the modelled days.  Nothing     *)
(* compares the log with the assignments.                                  *)
(***************************************************************************)
EXTENDS Integers, FiniteSets, Sequences, FiniteSetsExt, Tables

CONSTANTS
    Entrant,        \* members of the organization
    AccessPoint,
    MaxEntries      \* bound on the entries of the log

\* Members and points are rows, by identifiers of bounded length.
ASSUME AccessConstants == MaxEntries \in Nat /\ IsFiniteSet(Entrant) /\ IsFiniteSet(AccessPoint)

VARIABLES
    passes,         \* access assignments by their unique key: member and point
    entries,        \* access log, oldest row first
    neverActive     \* keys of assignments that were disabled when created

accessVars == <<passes, entries, neverActive>>

AccessStatus == {"GRANTED", "DENIED", "EXPIRED"}
AssignmentStatus == {"ACTIVE", "DISABLED"}
EnteredAt == {"yesterday", "today"}

AssignmentRow == [status : AssignmentStatus, revoked : BOOLEAN]
EntryRow == [member : Entrant, point : AccessPoint, status : AccessStatus,
             enteredAt : EnteredAt, active : BOOLEAN]

AccessInit == passes = NoRecords /\ entries = <<>> /\ neverActive = {}

-----------------------------------------------------------------------------
\* create_log, and bulk_import_logs with the rows of one import.
Imported(rows) ==
    /\ Len(entries) + Len(rows) <= MaxEntries
    /\ entries' = entries \o rows
    /\ UNCHANGED <<passes, neverActive>>

CreateLog(row) == Imported(<<row>>)
BulkImportLogs(rows) == Imported(rows)

\* Only the mark and the notes of an entry can be edited.
UpdateLog(e, active) ==
    /\ e \in DOMAIN entries
    /\ entries' = [entries EXCEPT ![e].active = active]
    /\ UNCHANGED <<passes, neverActive>>

CreateAssignment(m, p, status) ==
    /\ <<m, p>> \notin DOMAIN passes
    /\ passes' = Upsert(passes, <<m, p>>, [status |-> status, revoked |-> FALSE])
    /\ neverActive' = IF status = "DISABLED" THEN neverActive \cup {<<m, p>>} ELSE neverActive
    /\ UNCHANGED entries

\* Mutant: disabling leaves the date of revocation to the caller.
UpdateUndated(k, status, dated) ==
    /\ k \in DOMAIN passes
    /\ passes' = [passes EXCEPT ![k] =
                     [status |-> IF status = "same" THEN @.status ELSE status,
                      revoked |-> @.revoked \/ dated]]
    /\ neverActive' = IF status = "ACTIVE" THEN neverActive \ {k} ELSE neverActive
    /\ UNCHANGED entries

\* A request names a status, a date of revocation, or both.  Disabling dates the
\* revocation; enabling again leaves the date.
UpdateAssignment(k, status, dated) ==
    /\ k \in DOMAIN passes
    /\ passes' = [passes EXCEPT ![k] =
                     [status |-> IF status = "same" THEN @.status ELSE status,
                      revoked |-> @.revoked \/ dated \/ status = "DISABLED"]]
    /\ neverActive' = IF status = "ACTIVE" THEN neverActive \ {k} ELSE neverActive
    /\ UNCHANGED entries

AccessNext ==
    \/ \E row \in EntryRow : CreateLog(row)
    \/ \E row, next \in EntryRow : BulkImportLogs(<<row, next>>)
    \/ \E e \in 1..MaxEntries, active \in BOOLEAN : UpdateLog(e, active)
    \/ \E m \in Entrant, p \in AccessPoint, status \in AssignmentStatus :
          CreateAssignment(m, p, status)
    \/ \E k \in Entrant \X AccessPoint, status \in AssignmentStatus \cup {"same"},
          dated \in BOOLEAN : UpdateAssignment(k, status, dated)

AccessSpec == AccessInit /\ [][AccessNext]_accessVars

-----------------------------------------------------------------------------
(* Pages.  A filter is a set of admitted values; all of them when it is not
   given. *)

ListLogs(members, points, statuses, times) ==
    {e \in DOMAIN entries :
        /\ entries[e].member \in members /\ entries[e].point \in points
        /\ entries[e].status \in statuses /\ entries[e].enteredAt \in times}

ListAssignments(members, points, statuses) ==
    {k \in DOMAIN passes :
        k[1] \in members /\ k[2] \in points /\ passes[k].status \in statuses}

GetLogSummary ==
    LET Today(statuses) == {e \in DOMAIN entries :
            entries[e].enteredAt = "today" /\ entries[e].status \in statuses}
    IN  [totalEntriesToday |-> Cardinality(Today(AccessStatus)),
         grantedToday |-> Cardinality(Today({"GRANTED"})),
         deniedToday |-> Cardinality(Today({"DENIED"})),
         activeAssignments |-> Cardinality({k \in DOMAIN passes : passes[k].status = "ACTIVE"}),
         uniqueEmployeesToday |-> Cardinality({entries[e].member : e \in Today(AccessStatus)})]

-----------------------------------------------------------------------------
(* Correctness. *)

AccessTypeOK ==
    /\ Table(passes, Entrant \X AccessPoint, AssignmentRow)
    /\ entries \in Seq(EntryRow) /\ Len(entries) <= MaxEntries
    /\ neverActive \subseteq DOMAIN passes

ListedToday(members, statuses) ==
    Cardinality(ListLogs(members, AccessPoint, statuses, {"today"}))

\* The figures at the top of the access page are those of the lists under it:
\* entries of the day by outcome, and the members who came, each counted once.
AccessCountsAgree ==
    LET summary == GetLogSummary
    IN  /\ summary.grantedToday = ListedToday(Entrant, {"GRANTED"})
        /\ summary.deniedToday + ListedToday(Entrant, {"GRANTED", "EXPIRED"}) = summary.totalEntriesToday
        /\ summary.uniqueEmployeesToday = Cardinality({m \in Entrant : ListedToday({m}, AccessStatus) > 0})

\* So are the entries of the day in all, and the assignments in force.
AccessSumsAgree ==
    LET summary == GetLogSummary
    IN  /\ summary.totalEntriesToday = MapThenSumSet(LAMBDA m : ListedToday({m}, AccessStatus), Entrant)
        /\ summary.activeAssignments =
              MapThenSumSet(LAMBDA p : Cardinality(ListAssignments(Entrant, {p}, {"ACTIVE"})), AccessPoint)

\* An assignment that was in force once and is disabled says since when.
DisabledAreDated ==
    \A k \in ListAssignments(Entrant, AccessPoint, {"DISABLED"}) :
        passes[k].revoked \/ k \in neverActive

\* What the access pages show of the doors is what their lists show, and what
\* happened.
AccessPagesAgree == AccessCountsAgree /\ AccessSumsAgree /\ DisabledAreDated
=============================================================================
