------------------------------- MODULE Assets -------------------------------
(***************************************************************************)
(* The asset register and the helpdesk of one organization                 *)
(* (app/modules/assets/service.py), every handler one transaction.         *)
(*                                                                         *)
(* An asset has units; an assignment gives an asset, and usually one of    *)
(* its units, to a member.  The status of an asset is stored next to those *)
(* of its units: some handlers derive it from them, others set it alone.   *)
(* Tickets lead to repairs, returns and replacements.                      *)
(*                                                                         *)
(* Rows come back in no particular order (the relationships have no        *)
(* order_by), so the "first" unit or assignment of an asset is any of      *)
(* them.  Conditions, dates, costs and notes are left out.                 *)
(***************************************************************************)
EXTENDS Tables, Integers, FiniteSets

\* A null key.
Null == "none"

CONSTANTS
    Asset, Unit,    \* primary keys of assets and of their units
    Loan, Ticket,   \* primary keys of assignments and of maintenance logs
    Member,         \* members of the organization
    GroupOf,        \* the group key of an asset: name, category and code prefix
    ModelOf,        \* the model of an asset, among Model
    Model,
    Laptop,         \* the assets in a laptop category
    Temporary,      \* the laptops kept as temporary backups
    StatusInput     \* statuses administrators choose for what they free or edit

AssetStatus == {"AVAILABLE", "ASSIGNED", "IN_MAINTENANCE", "PENDING_RETURN",
                "DAMAGED", "LOST", "RETIRED", "DISPOSED"}

ASSUME AssetConstants ==
    /\ ModelOf \in [Asset -> Model]
    /\ Temporary \subseteq Laptop /\ Laptop \subseteq Asset
    /\ StatusInput \subseteq AssetStatus \ {"ASSIGNED"}
    /\ Null \notin Asset \cup Unit \cup Loan \cup Ticket \cup Member

\* Keys are UUIDs: there are finitely many of them.
ASSUME AssetsAreFinite == IsFiniteSet(Asset) /\ IsFiniteSet(Unit)

VARIABLES
    assets,         \* asset: status, and whether it is soft-deleted
    units,          \* asset_unit
    loans,          \* asset_assignment
    tickets         \* asset_maintenance_log

vars == <<assets, units, loans, tickets>>

Nullable(S) == S \cup {Null}

AssetRow == [status : AssetStatus, deleted : BOOLEAN]
UnitRow == [asset : Asset, status : AssetStatus, holder : Nullable(Member)]
LoanRow == [asset : Asset, unit : Nullable(Unit), member : Member,
            open : BOOLEAN,                 \* returnDate is null
            next : Nullable(Loan),          \* replacementAssignmentId
            asked : BOOLEAN]                \* handoverRequestedAt is set
\* OPEN stands for IN_PROGRESS too: no handler tells them apart.
TicketStatus == {"OPEN", "COMPLETED", "CANCELLED"}
TicketRow == [asset : Nullable(Asset), unit : Nullable(Unit), by : Member,
              status : TicketStatus,
              return : BOOLEAN,             \* its subject is "asset return request"
              archived : BOOLEAN]

TablesOK ==
    /\ Table(assets, Asset, AssetRow)
    /\ Table(units, Unit, UnitRow)
    /\ Table(loans, Loan, LoanRow)
    /\ Table(tickets, Ticket, TicketRow)

\* The foreign keys, those the database nulls when a unit is deleted included.
KeysOK ==
    /\ \A u \in DOMAIN units : units[u].asset \in DOMAIN assets
    /\ \A l \in DOMAIN loans :
          /\ loans[l].asset \in DOMAIN assets
          /\ loans[l].unit # Null => /\ loans[l].unit \in DOMAIN units
                                      /\ units[loans[l].unit].asset = loans[l].asset
    /\ \A t \in DOMAIN tickets :
          /\ tickets[t].asset \in Nullable(DOMAIN assets)
          /\ tickets[t].unit \in Nullable(DOMAIN units)

\* The tables hold rows of their columns, whose references lead to rows.
TypeOK == TablesOK /\ KeysOK

NoRows == [k \in {} |-> k]
Put(f, k, row) == [x \in DOMAIN f \cup {k} |-> IF x = k THEN row ELSE f[x]]

Init == assets = NoRows /\ units = NoRows /\ loans = NoRows /\ tickets = NoRows

-----------------------------------------------------------------------------
(* What the handlers read. *)

\* _get_asset_or_404: the asset is in the register.
Registered(a) == a \in DOMAIN assets /\ ~assets[a].deleted

UnitsOf(us, a) == {u \in DOMAIN us : us[u].asset = a}
OpenLoans(a) == {l \in DOMAIN loans : loans[l].asset = a /\ loans[l].open}

\* _derive_asset_status of a set of units that is not empty.
Derived(statuses) ==
    LET Rank == <<"PENDING_RETURN", "ASSIGNED", "IN_MAINTENANCE", "DAMAGED", "LOST">>
        found == {i \in 1..5 : Rank[i] \in statuses}
    IN  IF statuses \subseteq {"RETIRED", "DISPOSED"} THEN "RETIRED"
        ELSE IF found = {} THEN "AVAILABLE"
        ELSE Rank[CHOOSE i \in found : \A j \in found : i <= j]

\* The status asset a takes from its units, or `other` if it has none.
StatusFrom(us, a, other) ==
    IF UnitsOf(us, a) = {} THEN other
    ELSE Derived({us[u].status : u \in UnitsOf(us, a)})

SetStatus(a, status) == Put(assets, a, [status |-> status, deleted |-> assets[a].deleted])

\* Unit u of asset a, if there is such a unit, after a handler changed it.
WithUnit(a, u, status, holder) ==
    IF u \in UnitsOf(units, a)
    THEN Put(units, u, [asset |-> a, status |-> status, holder |-> holder])
    ELSE units

HolderOf(u) == IF u \in DOMAIN units THEN units[u].holder ELSE Null

\* What the requests may ask for, within StatusInput.
EditStatus == StatusInput \cup {"ASSIGNED"}       \* AssetUpsertRequest
ReturnStatus == StatusInput \ {"LOST"}            \* AssetReturnRequest
OutcomeStatus(outcome) ==                         \* AssetMaintenanceUpdateRequest
    IF outcome = "COMPLETED" THEN StatusInput \ {"LOST"}
    ELSE (StatusInput \ {"LOST"}) \cup {"DAMAGED"}

\* What a member's ticket may be about: nothing in particular, or an asset and
\* maybe one of its units (HelpdeskTicketCreateRequest).
TicketSubjects ==
    {<<Null, Null>>} \cup
    {s \in Asset \X Nullable(Unit) : s[2] \in Nullable(UnitsOf(units, s[1]))}

ReplacementModes == {"PERMANENT_REPLACEMENT", "TEMPORARY_BACKUP"}

-----------------------------------------------------------------------------
(* The register. *)

\* upsert_asset without an id, and bulk_create_assets: everything is available.
CreateAsset(a, new) ==
    /\ a \notin DOMAIN assets
    /\ new \cap DOMAIN units = {}
    /\ assets' = Put(assets, a, [status |-> "AVAILABLE", deleted |-> FALSE])
    /\ units' = [u \in DOMAIN units \cup new |->
          IF u \in new THEN [asset |-> a, status |-> "AVAILABLE", holder |-> Null]
          ELSE units[u]]
    /\ UNCHANGED <<loans, tickets>>

\* Mutant: an edit may take any status that is not ASSIGNED.
AnyStatusAllowed(a, status) == status = "ASSIGNED" => OpenLoans(a) # {}

\* The guard of upsert_asset on the status it is given.
StatusAllowed(a, status) == (status = "ASSIGNED") <=> (OpenLoans(a) # {})

\* Mutant: assignments keep the units that are deleted.
UpdateAssetDangling(a, status, gone, new) ==
    /\ Registered(a) /\ StatusAllowed(a, status)
    /\ gone \subseteq UnitsOf(units, a) /\ gone # UnitsOf(units, a)
    /\ new = {}
    /\ assets' = SetStatus(a, status)
    /\ units' = [u \in DOMAIN units \ gone |-> units[u]]
    /\ UNCHANGED <<loans, tickets>>

\* upsert_asset of an asset there is.  The units given replace the stored ones
\* by position: the surplus is deleted, or new ones are added.  Without any, an
\* asset that has no unit gets one of the new status to be tracked by.
UpdateAsset(a, status, gone, new) ==
    /\ Registered(a)
    /\ StatusAllowed(a, status)
    /\ gone \subseteq UnitsOf(units, a)
    /\ gone # {} => new = {} /\ gone # UnitsOf(units, a)
    /\ UnitsOf(units, a) = {} => new # {}
    /\ new \cap DOMAIN units = {}
    /\ assets' = SetStatus(a, status)
    /\ \E kind \in {"AVAILABLE", status} :
          /\ kind # "AVAILABLE" => UnitsOf(units, a) = {} /\ Cardinality(new) = 1
          /\ units' = [u \in (DOMAIN units \ gone) \cup new |->
                IF u \in new THEN [asset |-> a, status |-> kind, holder |-> Null]
                ELSE units[u]]
    /\ loans' = [l \in DOMAIN loans |->
          IF loans[l].unit \in gone THEN [loans[l] EXCEPT !.unit = Null] ELSE loans[l]]
    /\ tickets' = [t \in DOMAIN tickets |->
          IF tickets[t].unit \in gone THEN [tickets[t] EXCEPT !.unit = Null] ELSE tickets[t]]

\* Mutant: an asset is archived whoever holds it.
DeleteAssetHeld(a) ==
    /\ Registered(a)
    /\ assets' = Put(assets, a, [status |-> assets[a].status, deleted |-> TRUE])
    /\ UNCHANGED <<units, loans, tickets>>

\* delete_asset is a soft delete.
DeleteAsset(a) ==
    /\ Registered(a)
    /\ OpenLoans(a) = {}
    /\ assets' = Put(assets, a, [status |-> assets[a].status, deleted |-> TRUE])
    /\ UNCHANGED <<units, loans, tickets>>

-----------------------------------------------------------------------------
(* Assignments. *)

Available(a) == Registered(a) /\ assets[a].status = "AVAILABLE"

\* issue_assets: `track` gives the unit each of the assets is tracked by, its
\* first one or a new one, and `id` the assignment made of it.
IssueAssets(chosen, m, id, track) ==
    /\ chosen # {}
    /\ \A a \in chosen : Available(a) /\ id[a] \notin DOMAIN loans
    /\ \A a, b \in chosen :
          /\ GroupOf[a] = GroupOf[b]
          /\ a # b => id[a] # id[b] /\ track[a] # track[b]
    /\ \A a \in chosen : IF UnitsOf(units, a) = {} THEN track[a] \notin DOMAIN units
                         ELSE track[a] \in UnitsOf(units, a)
    /\ assets' = [a \in DOMAIN assets |->
          IF a \in chosen THEN [status |-> "ASSIGNED", deleted |-> FALSE] ELSE assets[a]]
    /\ units' = [u \in DOMAIN units \cup {track[a] : a \in chosen} |->
          IF \E a \in chosen : track[a] = u
          THEN [asset |-> CHOOSE a \in chosen : track[a] = u,
                status |-> "ASSIGNED", holder |-> m]
          ELSE units[u]]
    /\ loans' = [l \in DOMAIN loans \cup {id[a] : a \in chosen} |->
          IF l \in DOMAIN loans THEN loans[l]
          ELSE LET a == CHOOSE x \in chosen : id[x] = l
               IN  [asset |-> a, unit |-> track[a], member |-> m, open |-> TRUE,
                    next |-> Null, asked |-> FALSE]]
    /\ UNCHANGED tickets

\* Mutant: the assignment that is replaced stays open.
NeverClosed(l, next, asked) ==
    [asset |-> loans[l].asset, unit |-> loans[l].unit, member |-> loans[l].member,
     open |-> next # Null, next |-> next, asked |-> asked]

Closed(l, next, asked) ==
    [asset |-> loans[l].asset, unit |-> loans[l].unit, member |-> loans[l].member,
     open |-> FALSE, next |-> next, asked |-> asked]

\* Mutant: the unit that comes back keeps its holder.
ReturnAssetStillHeld(l, status) ==
    /\ l \in DOMAIN loans /\ loans[l].open /\ Registered(loans[l].asset)
    /\ LET a == loans[l].asset
           u == loans[l].unit
           us == WithUnit(a, u, status, HolderOf(u))
       IN  /\ units' = us
           /\ assets' = SetStatus(a, IF u = Null THEN status ELSE StatusFrom(us, a, status))
    /\ loans' = Put(loans, l, Closed(l, loans[l].next, loans[l].asked))
    /\ UNCHANGED tickets

\* return_asset, of the given assignment's unit or of any: the condition the
\* asset comes back in, or the administrator, decides the next status.
ReturnAsset(l, status) ==
    /\ l \in DOMAIN loans /\ loans[l].open /\ Registered(loans[l].asset)
    /\ LET a == loans[l].asset
           u == loans[l].unit
           us == WithUnit(a, u, status, Null)
       IN  /\ units' = us
           /\ assets' = SetStatus(a, IF u = Null THEN status ELSE StatusFrom(us, a, status))
    /\ loans' = Put(loans, l, Closed(l, loans[l].next, loans[l].asked))
    /\ UNCHANGED tickets

\* Mutant: asking for the return of an assignment that has ended reopens it.
RequestReturnReopens(l) ==
    /\ l \in DOMAIN loans /\ Registered(loans[l].asset)
    /\ ~loans[l].asked
    /\ loans' = [loans EXCEPT ![l].asked = TRUE, ![l].open = TRUE]
    /\ UNCHANGED <<assets, units, tickets>>

\* request_asset_return, once per assignment.
RequestReturn(l) ==
    /\ l \in DOMAIN loans /\ loans[l].open /\ Registered(loans[l].asset)
    /\ ~loans[l].asked
    /\ loans' = [loans EXCEPT ![l].asked = TRUE]
    /\ UNCHANGED <<assets, units, tickets>>

-----------------------------------------------------------------------------
(* Tickets. *)

NewTicket(a, u, m, return) ==
    [asset |-> a, unit |-> u, by |-> m, status |-> "OPEN", return |-> return,
     archived |-> FALSE]

\* create_maintenance_record, by an administrator, about an asset and maybe a unit.
CreateMaintenance(t, a, u, m, return) ==
    /\ t \notin DOMAIN tickets
    /\ Registered(a)
    /\ u = Null \/ u \in DOMAIN units
    /\ tickets' = Put(tickets, t, NewTicket(a, u, m, return))
    /\ units' = WithUnit(a, u, "IN_MAINTENANCE", HolderOf(u))
    /\ assets' = SetStatus(a, "IN_MAINTENANCE")
    /\ UNCHANGED loans

\* create_helpdesk_ticket, by any member; a general request names no asset.
CreateTicket(t, a, u, m, return) ==
    /\ t \notin DOMAIN tickets
    /\ a = Null \/ Registered(a)
    /\ <<a, u>> \in TicketSubjects
    /\ tickets' = Put(tickets, t, NewTicket(a, u, m, return))
    /\ UNCHANGED <<assets, units, loans>>

TicketWith(t, status) == [tickets[t] EXCEPT !.status = status]

\* The units _build_swap_preview offers for a ticket in a replacement mode.
Offered(t, mode) ==
    {u \in DOMAIN units :
        /\ units[u].status = "AVAILABLE" /\ u # tickets[t].unit
        /\ Registered(units[u].asset) /\ units[u].asset \in Laptop
        /\ IF mode = "TEMPORARY_BACKUP" THEN units[u].asset \in Temporary
           ELSE ModelOf[units[u].asset] = ModelOf[tickets[t].asset]}

\* provide_replacement: the asset's assignment ends and that of the replacement
\* begins.  Only the unit the ticket names is freed; without one the asset
\* alone goes to maintenance.
ProvideReplacement(t, old, u, new, mode) ==
    /\ t \in DOMAIN tickets /\ tickets[t].status = "OPEN"
    /\ tickets[t].asset # Null
    /\ LET a == tickets[t].asset
           m == tickets[t].by
           source == tickets[t].unit
           freed == WithUnit(a, source, "IN_MAINTENANCE", Null)
           given == Put(freed, u, [asset |-> units[u].asset, status |-> "ASSIGNED", holder |-> m])
           spent == SetStatus(a, IF source \in UnitsOf(units, a)
                                 THEN StatusFrom(freed, a, "AVAILABLE") ELSE "IN_MAINTENANCE")
       IN  /\ old \in OpenLoans(a) /\ loans[old].member = m
           /\ u \in Offered(t, mode)
           /\ new \notin DOMAIN loans
           /\ units' = given
           /\ assets' = [spent EXCEPT ![units[u].asset].status =
                            StatusFrom(given, units[u].asset, "AVAILABLE")]
           /\ loans' = Put(Put(loans, old, Closed(old, new, TRUE)), new,
                  [asset |-> units[u].asset, unit |-> u, member |-> m, open |-> TRUE,
                   next |-> Null, asked |-> FALSE])
    /\ tickets' = Put(tickets, t, TicketWith(t, "COMPLETED"))

\* Another active ticket is about the same unit, or the same asset.
OtherActive(t) ==
    \E x \in DOMAIN tickets \ {t} :
        /\ tickets[x].status = "OPEN"
        /\ IF tickets[t].unit # Null THEN tickets[x].unit = tickets[t].unit
           ELSE tickets[x].asset = tickets[t].asset

\* withdraw_helpdesk_ticket, by the member who logged it.
WithdrawTicket(t) ==
    /\ t \in DOMAIN tickets /\ tickets[t].status = "OPEN"
    /\ LET a == tickets[t].asset
           u == tickets[t].unit
           resumed == IF OpenLoans(a) # {} THEN "ASSIGNED" ELSE "AVAILABLE"
           us == WithUnit(a, u, resumed, HolderOf(u))
       IN  IF a = Null \/ OtherActive(t) THEN UNCHANGED <<assets, units>>
           ELSE /\ units' = us
                /\ assets' = SetStatus(a, IF u = Null THEN resumed
                                          ELSE StatusFrom(us, a, resumed))
    /\ tickets' = Put(tickets, t, TicketWith(t, "CANCELLED"))
    /\ UNCHANGED loans

\* update_maintenance_record to OPEN or IN_PROGRESS, from whatever status.
ProgressTicket(t) ==
    /\ t \in DOMAIN tickets /\ Registered(tickets[t].asset)
    /\ LET a == tickets[t].asset
       IN  assets' = SetStatus(a, StatusFrom(units, a, "IN_MAINTENANCE"))
    /\ tickets' = Put(tickets, t, TicketWith(t, "OPEN"))
    /\ UNCHANGED <<units, loans>>

\* update_maintenance_record to COMPLETED of a request to return the asset.
CompleteReturn(t, l, status) ==
    /\ t \in DOMAIN tickets /\ Registered(tickets[t].asset) /\ tickets[t].return
    /\ LET a == tickets[t].asset
           u == IF tickets[t].unit # Null THEN tickets[t].unit ELSE loans[l].unit
           us == WithUnit(a, u, status, Null)
       IN  IF OpenLoans(a) = {} THEN UNCHANGED <<assets, units, loans>>
           ELSE /\ l \in OpenLoans(a)
                /\ units' = us
                /\ assets' = SetStatus(a, IF u = Null THEN status
                                          ELSE StatusFrom(us, a, status))
                /\ loans' = Put(loans, l, Closed(l, loans[l].next, loans[l].asked))
    /\ tickets' = Put(tickets, t, TicketWith(t, "COMPLETED"))

\* update_maintenance_record to COMPLETED or CANCELLED otherwise: the status the
\* administrator chooses goes to the ticket's unit, or to the asset, held or not.
ResolveTicket(t, outcome, status) ==
    /\ t \in DOMAIN tickets /\ Registered(tickets[t].asset)
    /\ outcome = "COMPLETED" => ~tickets[t].return
    /\ LET a == tickets[t].asset
           u == tickets[t].unit
           us == WithUnit(a, u, status, HolderOf(u))
       IN  /\ units' = us
           /\ assets' = SetStatus(a, IF u = Null THEN status ELSE StatusFrom(us, a, status))
    /\ tickets' = Put(tickets, t, TicketWith(t, outcome))
    /\ UNCHANGED loans

\* update_maintenance_record_by_id of a ticket without an asset.
UpdateGeneral(t, status) ==
    /\ t \in DOMAIN tickets /\ tickets[t].asset = Null
    /\ tickets' = Put(tickets, t, TicketWith(t, status))
    /\ UNCHANGED <<assets, units, loans>>

\* archive_ticket and unarchive_ticket; a day passes before the former.
ArchiveTicket(t, archived) ==
    /\ t \in DOMAIN tickets /\ tickets[t].archived # archived
    /\ tickets[t].asset = Null \/ Registered(tickets[t].asset)
    /\ archived => tickets[t].status # "OPEN"
    /\ tickets' = [tickets EXCEPT ![t].archived = archived]
    /\ UNCHANGED <<assets, units, loans>>

-----------------------------------------------------------------------------
RegisterStep ==
    \E a \in Asset, new \in SUBSET (Unit \ DOMAIN units) :
        \/ CreateAsset(a, new)
        \/ \E status \in EditStatus, gone \in SUBSET UnitsOf(units, a) :
              UpdateAsset(a, status, gone, new)
        \/ new = {} /\ DeleteAsset(a)

LoanStep ==
    \/ \E chosen \in SUBSET {a \in Asset : Available(a)}, m \in Member :
          \E id \in [chosen -> Loan \ DOMAIN loans], track \in [chosen -> Unit] :
              IssueAssets(chosen, m, id, track)
    \/ \E l \in DOMAIN loans : RequestReturn(l) \/ \E status \in ReturnStatus : ReturnAsset(l, status)

TicketStep ==
    \/ \E t \in Ticket \ DOMAIN tickets, a \in Nullable(Asset), u \in Nullable(Unit),
          m \in Member, return \in BOOLEAN :
          \/ CreateTicket(t, a, u, m, return)
          \/ CreateMaintenance(t, a, u, m, return)
    \/ \E t \in DOMAIN tickets :
          \/ \E old \in DOMAIN loans, new \in Loan \ DOMAIN loans, u \in DOMAIN units,
                mode \in ReplacementModes :
                ProvideReplacement(t, old, u, new, mode)
          \/ WithdrawTicket(t)
          \/ ProgressTicket(t)
          \/ \E l \in Loan, status \in OutcomeStatus("COMPLETED") : CompleteReturn(t, l, status)
          \/ \E outcome \in {"COMPLETED", "CANCELLED"} :
                \E status \in OutcomeStatus(outcome) : ResolveTicket(t, outcome, status)
          \/ \E status \in TicketStatus : UpdateGeneral(t, status)
          \/ \E archived \in BOOLEAN : ArchiveTicket(t, archived)

Next == RegisterStep \/ LoanStep \/ TicketStep

Spec == Init /\ [][Next]_vars

-----------------------------------------------------------------------------
(* Correctness. *)

\* A replaced assignment has ended, its successor serves the same member, and no
\* two assignments have the same successor (provide_replacement).
ReplacementChain ==
    \A l \in DOMAIN loans : loans[l].next # Null =>
        /\ ~loans[l].open
        /\ loans[l].next \in DOMAIN loans
        /\ loans[loans[l].next].member = loans[l].member
        /\ \A k \in DOMAIN loans \ {l} : loans[k].next # loans[l].next

\* A unit that shows a holder was given to that member and is still theirs,
\* unless they were given a replacement (only the unit their ticket names is
\* freed) or asked for the return of another unit.
HoldersAreExplained ==
    \A u \in DOMAIN units : units[u].holder # Null =>
        \E l \in DOMAIN loans :
            /\ loans[l].unit = u /\ loans[l].member = units[u].holder
            /\ \/ loans[l].open
               \/ loans[l].next # Null
               \/ \E t \in DOMAIN tickets : tickets[t].return /\ tickets[t].unit # u

\* An asset that somebody holds, or the unit they hold, shows as available, to be
\* issued or to replace another, only after a ticket was resolved, which may also
\* retire a unit that is held, or an edit has deleted the unit they hold: no other
\* sequence of edits, issues, returns, replacements and tickets offers it.
Exposed(a) ==
    \E l \in OpenLoans(a) :
        \/ Available(a)
        \/ loans[l].unit # Null /\ units[loans[l].unit].status = "AVAILABLE"
Spoilt(a) ==    \* such an accident happened before
    \E l \in OpenLoans(a) :
        \/ loans[l].unit = Null
        \/ units[loans[l].unit].status \in {"RETIRED", "DISPOSED"}
        \/ \E k \in OpenLoans(a) \ {l} : loans[k].unit = loans[l].unit
HeldStayOffTheShelf ==
    [][\A a \in DOMAIN assets :
          ~Exposed(a) /\ Exposed(a)' /\ ~Spoilt(a) =>
              \E t \in Ticket, outcome \in {"COMPLETED", "CANCELLED"} :
                  \E status \in OutcomeStatus(outcome) :
                      \/ ResolveTicket(t, outcome, status)
                      \/ \E l \in Loan : CompleteReturn(t, l, status)]_vars

Ledger ==
    [l \in DOMAIN loans |->
        [member |-> loans[l].member, asset |-> loans[l].asset,
         open |-> loans[l].open, next |-> loans[l].next]]

\* Whatever the register and the tickets do, the assignments are a ledger of
\* loans: each ends once, and a replacement never leaves its member without.
C == INSTANCE Custody WITH loans <- Ledger
CustodyKept == C!CustodySpec
=============================================================================
