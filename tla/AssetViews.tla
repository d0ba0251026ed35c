----------------------------- MODULE AssetViews -----------------------------
(***************************************************************************)
(* What the pages, lists, reports and analytics of the asset register show *)
(* (app/modules/assets/service.py), as functions of its tables.  Each      *)
(* query joins and filters them in its own way, and the pages stand beside *)
(* each other: what one shows the next should not deny.                    *)
(*                                                                         *)
(* Searches, pages of a list, dates, names and the layout of reports are   *)
(* left out.  Where a list shows the first assignment in force of an asset *)
(* it may be any of them.                                                  *)
(***************************************************************************)
EXTENDS Assets

Live == {a \in DOMAIN assets : ~assets[a].deleted}

LoansOf(m) == {l \in DOMAIN loans : loans[l].member = m /\ loans[l].asset \in Live}

WithStatus(a, statuses) == {u \in UnitsOf(units, a) : units[u].status \in statuses}

-----------------------------------------------------------------------------
(* One asset. *)

\* LOST and RETIRED units count in the total alone.
UnitSummary(a) ==
    [total |-> Cardinality(UnitsOf(units, a)),
     available |-> Cardinality(WithStatus(a, {"AVAILABLE"})),
     provided |-> Cardinality(WithStatus(a, {"ASSIGNED"})),
     underMaintenance |-> Cardinality(WithStatus(a, {"IN_MAINTENANCE", "PENDING_RETURN"})),
     damaged |-> Cardinality(WithStatus(a, {"DAMAGED"}))]

\* The assignments an asset may be shown with: one that is in force, if any.
ActiveProvision(a) == IF OpenLoans(a) = {} THEN {Null} ELSE OpenLoans(a)

OpenMaintenance(a) == {t \in DOMAIN tickets : tickets[t].asset = a /\ tickets[t].status = "OPEN"}

AssignmentStatus(l) ==
    IF loans[l].unit # Null THEN units[loans[l].unit].status ELSE assets[loans[l].asset].status

EmployeeState(l) ==
    IF loans[l].open
    THEN IF loans[l].next # Null \/ AssignmentStatus(l) = "PENDING_RETURN"
         THEN "RETURN_PENDING" ELSE "CURRENT_ASSIGNED"
    ELSE IF AssignmentStatus(l) = "IN_MAINTENANCE" THEN "RETURNED_IN_REPAIR" ELSE "RETURNED"

\* What the list of tickets says of the asset, shown with assignment l or none.
Lifecycle(a, l) ==
    LET returned == \E k \in DOMAIN loans : loans[k].asset = a /\ ~loans[k].open
        status == assets[a].status
    IN  IF l # Null /\ loans[l].next # Null THEN "PENDING_RETURN"
        ELSE IF returned /\ status = "IN_MAINTENANCE" THEN "RETURNED_IN_REPAIR"
        ELSE IF returned /\ status = "AVAILABLE" THEN "RETURNED_READY"
        ELSE IF l # Null THEN "ASSIGNED"
        ELSE status

-----------------------------------------------------------------------------
(* Lists. *)

\* No filter.
Whichever == "any"

ASSUME WhicheverIsNobody == Whichever \notin Member

\* A row for each asset, or for each of its assignments to the holder asked for.
ListAssets(status, holder) ==
    LET shown == {a \in Live : status \in {Whichever, assets[a].status}}
    IN  IF holder = Whichever THEN shown \X {Null}
        ELSE {<<loans[l].asset, l>> : l \in {k \in DOMAIN loans :
                loans[k].open /\ loans[k].member = holder /\ loans[k].asset \in shown}}

\* The page of an employee: what they have, and everything else.
CurrentOf(m) == {l \in LoansOf(m) : EmployeeState(l) = "CURRENT_ASSIGNED"}

PreviousOf(m) == {l \in LoansOf(m) : EmployeeState(l) # "CURRENT_ASSIGNED"}

\* get_asset, for a member who is not an administrator.
MaySee(m, a) == a \in Live /\ \E l \in DOMAIN loans : loans[l].asset = a /\ loans[l].member = m

AvailableGroups ==
    {[key |-> GroupOf[a],
      quantity |-> Cardinality({b \in Live : assets[b].status = "AVAILABLE" /\ GroupOf[b] = GroupOf[a]})] :
        a \in {b \in Live : assets[b].status = "AVAILABLE"}}

ReturnedAssets == {l \in DOMAIN loans : loans[l].asset \in Live /\ ~loans[l].open}

MemberTickets(m) == {t \in DOMAIN tickets : tickets[t].by = m /\ tickets[t].status = "OPEN"}

MemberAssignedAssets(m) == {l \in LoansOf(m) : loans[l].open}

\* The replacement is looked up by its key, whatever became of its asset.
Replacements ==
    {[old |-> l, new |-> IF loans[l].next \in DOMAIN loans THEN loans[l].next ELSE Null] :
        l \in {k \in DOMAIN loans : loans[k].asset \in Live /\ loans[k].next # Null}}

\* Tickets about archived assets are not listed anywhere.
Listed(t) == tickets[t].asset = Null \/ tickets[t].asset \in Live

MyTickets(m) == {t \in DOMAIN tickets : Listed(t) /\ tickets[t].by = m}

ListTickets(archived) == {t \in DOMAIN tickets : Listed(t) /\ tickets[t].archived = archived}

-----------------------------------------------------------------------------
(* Reports, and the dashboard. *)

ReportStatus(type) ==
    CASE type = "ALL_ASSETS" -> Whichever
      [] type = "AVAILABLE_ASSETS" -> "AVAILABLE"
      [] type = "PROVIDED_ASSETS" -> "ASSIGNED"
      [] type = "DAMAGED_ASSETS" -> "DAMAGED"
      [] type = "OFFBOARDING_PENDING_RETURN" -> "PENDING_RETURN"

AssetReport(type, holder) == ListAssets(ReportStatus(type), holder)

\* RETURNED_ASSETS and EMPLOYEE_ASSET_REPORT.
LoanReport(returned, holder) ==
    {l \in DOMAIN loans :
        /\ loans[l].asset \in Live
        /\ returned => ~loans[l].open
        /\ holder # Whichever => loans[l].member = holder}

MaintenanceReport == {t \in DOMAIN tickets : Listed(t)}

\* The figures of the dashboard count assets by status.
Count(statuses) == Cardinality({a \in Live : assets[a].status \in statuses})

\* The code shows the latest five, and counts those it shows.
OpenTickets == {t \in DOMAIN tickets : Listed(t) /\ tickets[t].status = "OPEN"}

-----------------------------------------------------------------------------
(* Laptops. *)

AvailableLaptopUnits ==
    {u \in DOMAIN units : units[u].status = "AVAILABLE" /\ units[u].asset \in Live \cap Laptop}

\* What a laptop counts for: its units, or itself if it has none.
Stock(a) ==
    IF UnitsOf(units, a) = {} THEN {<<a, assets[a].status>>}
    ELSE {<<u, units[u].status>> : u \in UnitsOf(units, a)}

\* One row of a brand and model.
BrandModel(model) ==
    LET laptops == {a \in Live \cap Laptop : ModelOf[a] = model}
        stock == UNION {Stock(a) : a \in laptops}
        backups == UNION {Stock(a) : a \in laptops \cap Temporary}
        In(statuses) == Cardinality({s \in stock : s[2] \in statuses})
    IN  [totalStock |-> Cardinality(stock),
         inOffice |-> In({"AVAILABLE"}), provided |-> In({"ASSIGNED"}),
         maintenanceOrDamaged |-> In({"IN_MAINTENANCE", "PENDING_RETURN", "DAMAGED"}),
         temporaryDepth |-> Cardinality({s \in backups : s[2] = "AVAILABLE"}),
         lowStock |-> In({"AVAILABLE"}) = 0]

\* The members counted by operating system.
LaptopUsers ==
    {loans[l].member : l \in {k \in DOMAIN loans :
        /\ loans[k].open /\ loans[k].asset \in Live \cap Laptop
        /\ assets[loans[k].asset].status = "ASSIGNED"}}

-----------------------------------------------------------------------------
(* Correctness. *)

\* Whoever holds something finds it on their page and in the lists and reports
\* of administrators, for as long as they hold it and whatever the register and
\* the tickets do meanwhile: nothing that is lent is hidden by an archived asset.
HoldersSeeTheirs ==
    \A l \in DOMAIN loans : loans[l].open =>
        LET m == loans[l].member
            a == loans[l].asset
        IN  /\ l \in CurrentOf(m) \cup PreviousOf(m)
            /\ l \in MemberAssignedAssets(m) /\ l \in LoanReport(FALSE, m)
            /\ <<a, l>> \in ListAssets(Whichever, m) /\ MaySee(m, a)
            /\ a \in Laptop /\ assets[a].status = "ASSIGNED" => m \in LaptopUsers
            /\ Null \notin ActiveProvision(a)

\* What is shown of the same thing in two places agrees: no assignment is both
\* current and returned, a replacement is one of two assignments that exist, the
\* groups offered for issue are the assets reported and counted as available,
\* an open ticket of a member that is listed stands on the dashboard, and the
\* laptops on offer as replacements are the ones counted as in the office.
ListsAgree ==
    LET groups == AvailableGroups
    IN  /\ \A m \in Member :
              /\ CurrentOf(m) \cap ReturnedAssets = {}
              /\ CurrentOf(m) \subseteq MemberAssignedAssets(m)
              /\ MemberTickets(m) \cap MyTickets(m) \subseteq OpenTickets
        /\ \A r \in Replacements :
              r.old \in ReturnedAssets /\ r.new # Null /\ loans[r.new].member = loans[r.old].member
        /\ \A a \in Live, l \in DOMAIN loans :
              l \in ActiveProvision(a) => Lifecycle(a, l) # "PENDING_RETURN"
        /\ MaintenanceReport = ListTickets(TRUE) \cup ListTickets(FALSE)
        /\ \A a \in Live :
              /\ OpenMaintenance(a) \subseteq OpenTickets
              /\ assets[a].status = "AVAILABLE" => \E g \in groups : g.key = GroupOf[a]
              /\ a \in Laptop /\ UnitSummary(a).available > 0 =>
                    \E u \in AvailableLaptopUnits : units[u].asset = a
        /\ \A type \in {"AVAILABLE_ASSETS", "PROVIDED_ASSETS"} :
              Count({ReportStatus(type)}) = Cardinality(AssetReport(type, Whichever))
        /\ \A mod \in Model :
              LET row == BrandModel(mod)
                  offered == {u \in AvailableLaptopUnits : ModelOf[units[u].asset] = mod}
              IN  Cardinality(offered) <= row.inOffice /\ (row.lowStock => offered = {})

ViewsAgree == HoldersSeeTheirs /\ ListsAgree
=============================================================================
