---------------------------- MODULE AssetProofs ----------------------------
(***************************************************************************)
(* What Assets keeps, for every set of assets, units, assignments, tickets *)
(* and members: its tables and keys are sound, replacements form chains,   *)
(* holders are explained, what is held stays off the shelf, and the        *)
(* assignments implement Custody.                                          *)
(***************************************************************************)
EXTENDS AssetViews, FiniteSetTheorems, TLAPS

-----------------------------------------------------------------------------
(* The operators the handlers are made of. *)

\* The status derived from units is a status, and is AVAILABLE only when every
\* unit is available or out of use for good.
LEMMA DerivedStatus ==
    ASSUME NEW S \in SUBSET AssetStatus
    PROVE  /\ Derived(S) \in AssetStatus
           /\ Derived(S) = "AVAILABLE" => S \subseteq {"AVAILABLE", "RETIRED", "DISPOSED"}
  <1> DEFINE Rank  == <<"PENDING_RETURN", "ASSIGNED", "IN_MAINTENANCE", "DAMAGED", "LOST">>
             found == {i \in 1..5 : Rank[i] \in S}
             least == CHOOSE i \in found : \A j \in found : i <= j
  <1>1. Derived(S) = IF S \subseteq {"RETIRED", "DISPOSED"} THEN "RETIRED"
                     ELSE IF found = {} THEN "AVAILABLE" ELSE Rank[least]
    BY DEF Derived
  <1>2. CASE found = {}
    <2>1. \A i \in 1..5 : Rank[i] \notin S
      BY <1>2
    <2>2. /\ "PENDING_RETURN" \notin S /\ "ASSIGNED" \notin S
          /\ "IN_MAINTENANCE" \notin S /\ "DAMAGED" \notin S /\ "LOST" \notin S
      BY <2>1
    <2> QED
      BY <1>1, <1>2, <2>2 DEF AssetStatus
  <1>3. CASE found # {}
    <2>1. \E i \in found : \A j \in found : i <= j
      <3>1. found \subseteq 1..5
        OBVIOUS
      <3> HIDE DEF found
      <3>2. CASE 1 \in found
        BY <3>1, <3>2
      <3>3. CASE 1 \notin found /\ 2 \in found
        BY <3>1, <3>3
      <3>4. CASE 1 \notin found /\ 2 \notin found /\ 3 \in found
        BY <3>1, <3>4
      <3>5. CASE 1 \notin found /\ 2 \notin found /\ 3 \notin found /\ 4 \in found
        BY <3>1, <3>5
      <3>6. CASE 1 \notin found /\ 2 \notin found /\ 3 \notin found /\ 4 \notin found
        <4>1. \A j \in found : j = 5
          BY <3>1, <3>6
        <4>2. \A j \in found : 5 <= j
          BY <4>1
        <4> QED
          BY <1>3, <4>1, <4>2
      <3> QED
        BY <3>2, <3>3, <3>4, <3>5, <3>6
    <2>2. least \in 1..5
      <3> HIDE DEF found
      <3>1. least \in found
        BY <2>1
      <3> QED
        BY <3>1 DEF found
    <2>3. Rank[least] \in {"PENDING_RETURN", "ASSIGNED", "IN_MAINTENANCE", "DAMAGED", "LOST"}
      <3> HIDE DEF least
      <3> QED
        BY <2>2
    <2> HIDE DEF found, least, Rank
    <2> QED
      BY <1>1, <1>3, <2>3 DEF AssetStatus
  <1> QED
    BY <1>2, <1>3

\* The status an asset takes from its units is a status.
LEMMA StatusFromType ==
    ASSUME NEW us, NEW a, NEW other \in AssetStatus,
           \A u \in DOMAIN us : us[u].status \in AssetStatus
    PROVE  StatusFrom(us, a, other) \in AssetStatus
  <1>1. {us[u].status : u \in UnitsOf(us, a)} \in SUBSET AssetStatus
    BY DEF UnitsOf
  <1> QED
    BY <1>1, DerivedStatus DEF StatusFrom

\* Giving a unit a status and a holder changes that unit alone, if it is one of
\* the asset, and never where a unit belongs.
LEMMA WithUnitRows ==
    ASSUME NEW a, NEW u, NEW status, NEW holder
    PROVE  LET us == WithUnit(a, u, status, holder)
           IN  /\ DOMAIN us = DOMAIN units
               /\ \A v \in DOMAIN units : ~(v = u /\ units[v].asset = a) => us[v] = units[v]
               /\ u \in DOMAIN units /\ units[u].asset = a =>
                     us[u] = [asset |-> a, status |-> status, holder |-> holder]
  <1>1. CASE u \in UnitsOf(units, a)
    <2>1. u \in DOMAIN units /\ units[u].asset = a
      BY <1>1 DEF UnitsOf
    <2> DEFINE row == [asset |-> a, status |-> status, holder |-> holder]
    <2>2. WithUnit(a, u, status, holder) = Put(units, u, row)
      BY <1>1 DEF WithUnit
    <2> HIDE DEF row
    <2>3. /\ DOMAIN Put(units, u, row) = DOMAIN units \cup {u}
          /\ Put(units, u, row)[u] = row
          /\ \A v \in DOMAIN units : v # u => Put(units, u, row)[v] = units[v]
      BY DEF Put
    <2>4. DOMAIN Put(units, u, row) = DOMAIN units
      BY <2>1, <2>3
    <2>5. \A v \in DOMAIN units : ~(v = u /\ units[v].asset = a) => Put(units, u, row)[v] = units[v]
      BY <2>1, <2>3
    <2> QED
      BY <2>2, <2>3, <2>4, <2>5 DEF row
  <1>2. CASE u \notin UnitsOf(units, a)
    BY <1>2 DEF WithUnit, UnitsOf
  <1> QED
    BY <1>1, <1>2

\* So the units keep their columns and their assets.
LEMMA WithUnitType ==
    ASSUME TypeOK, NEW a, NEW u, NEW status \in AssetStatus, NEW holder \in Nullable(Member)
    PROVE  LET us == WithUnit(a, u, status, holder)
           IN  /\ DOMAIN us = DOMAIN units
               /\ \A v \in DOMAIN units : us[v] \in UnitRow /\ us[v].asset = units[v].asset
  <1> DEFINE us == WithUnit(a, u, status, holder)
  <1>1. /\ DOMAIN us = DOMAIN units
        /\ \A v \in DOMAIN units : ~(v = u /\ units[v].asset = a) => us[v] = units[v]
        /\ u \in DOMAIN units /\ units[u].asset = a =>
              us[u] = [asset |-> a, status |-> status, holder |-> holder]
    BY WithUnitRows
  <1>2. \A v \in DOMAIN units : units[v] \in UnitRow
    BY DEF TypeOK, TablesOK, Table
  <1> HIDE DEF us
  <1>3. \A v \in DOMAIN units : us[v] \in UnitRow /\ us[v].asset = units[v].asset
    BY <1>1, <1>2 DEF UnitRow
  <1> QED
    BY <1>1, <1>3 DEF us

LEMMA HolderType == ASSUME TypeOK, NEW u PROVE HolderOf(u) \in Nullable(Member)
  BY DEF TypeOK, TablesOK, Table, UnitRow, HolderOf, Nullable

\* Setting the status of a registered asset, or of one that is, keeps the register.
LEMMA SetStatusType ==
    ASSUME TypeOK, NEW a \in DOMAIN assets, NEW status \in AssetStatus
    PROVE  /\ DOMAIN SetStatus(a, status) = DOMAIN assets
           /\ \A x \in DOMAIN assets : SetStatus(a, status)[x] \in AssetRow
           /\ SetStatus(a, status)[a].status = status
           /\ \A x \in DOMAIN assets : x # a => SetStatus(a, status)[x] = assets[x]
  BY DEF TypeOK, TablesOK, Table, AssetRow, SetStatus, Put

\* The statuses that requests may ask for are statuses.
LEMMA InputTypes ==
    /\ StatusInput \subseteq AssetStatus
    /\ EditStatus \subseteq AssetStatus
    /\ ReturnStatus \subseteq AssetStatus
    /\ \A outcome : OutcomeStatus(outcome) \subseteq AssetStatus
  BY AssetConstants DEF EditStatus, ReturnStatus, OutcomeStatus, AssetStatus

LEMMA NullIsNoKey ==
    Null \notin Asset /\ Null \notin Unit /\ Null \notin Loan /\ Null \notin Ticket /\ Null \notin Member
  BY AssetConstants

-----------------------------------------------------------------------------
(* The tables and their keys. *)

\* A step that deletes nothing and moves no unit to another asset keeps the
\* keys, if what it writes refers to rows.
LEMMA KeysKept ==
    ASSUME TypeOK, TablesOK',
           DOMAIN assets \subseteq DOMAIN assets',
           DOMAIN units \subseteq DOMAIN units',
           \A u \in DOMAIN units : units'[u].asset = units[u].asset,
           \A u \in DOMAIN units' \ DOMAIN units : units'[u].asset \in DOMAIN assets',
           \A l \in DOMAIN loans' :
              \/ /\ l \in DOMAIN loans
                 /\ loans'[l].asset = loans[l].asset /\ loans'[l].unit = loans[l].unit
              \/ /\ loans'[l].asset \in DOMAIN assets' /\ loans'[l].unit \in DOMAIN units'
                 /\ units'[loans'[l].unit].asset = loans'[l].asset,
           \A t \in DOMAIN tickets' :
              \/ /\ t \in DOMAIN tickets
                 /\ tickets'[t].asset = tickets[t].asset /\ tickets'[t].unit = tickets[t].unit
              \/ /\ tickets'[t].asset \in Nullable(DOMAIN assets')
                 /\ tickets'[t].unit \in Nullable(DOMAIN units')
    PROVE  TypeOK'
  <1>1. \A u \in DOMAIN units' : units'[u].asset \in DOMAIN assets'
    BY DEF TypeOK, KeysOK
  <1>2. \A l \in DOMAIN loans' :
          /\ loans'[l].asset \in DOMAIN assets'
          /\ loans'[l].unit # Null => /\ loans'[l].unit \in DOMAIN units'
                                      /\ units'[loans'[l].unit].asset = loans'[l].asset
    BY DEF TypeOK, KeysOK
  <1>3. \A t \in DOMAIN tickets' :
          /\ tickets'[t].asset \in Nullable(DOMAIN assets')
          /\ tickets'[t].unit \in Nullable(DOMAIN units')
    BY DEF TypeOK, KeysOK, Nullable
  <1> QED
    BY <1>1, <1>2, <1>3 DEF TypeOK, KeysOK

\* Rows of assignments and tickets after a handler changed them.
LEMMA ClosedType ==
    ASSUME TypeOK, NEW l \in DOMAIN loans, NEW next \in Nullable(Loan), NEW asked \in BOOLEAN
    PROVE  /\ Closed(l, next, asked) \in LoanRow
           /\ Closed(l, next, asked).asset = loans[l].asset
           /\ Closed(l, next, asked).unit = loans[l].unit
           /\ Closed(l, next, asked).member = loans[l].member
           /\ Closed(l, next, asked).open = FALSE
           /\ Closed(l, next, asked).next = next
  BY DEF TypeOK, TablesOK, Table, LoanRow, Closed

LEMMA TicketWithType ==
    ASSUME TypeOK, NEW t \in DOMAIN tickets, NEW status \in TicketStatus
    PROVE  LET new == Put(tickets, t, TicketWith(t, status))
           IN  /\ DOMAIN new = DOMAIN tickets
               /\ \A x \in DOMAIN tickets :
                    /\ new[x] \in TicketRow
                    /\ new[x].asset = tickets[x].asset /\ new[x].unit = tickets[x].unit
                    /\ new[x].return = tickets[x].return
  <1>1. \A x \in DOMAIN tickets : tickets[x] \in TicketRow
    BY DEF TypeOK, TablesOK, Table
  <1>2. /\ TicketWith(t, status) \in TicketRow
        /\ TicketWith(t, status).asset = tickets[t].asset
        /\ TicketWith(t, status).unit = tickets[t].unit
        /\ TicketWith(t, status).return = tickets[t].return
    BY <1>1 DEF TicketWith, TicketRow
  <1> HIDE DEF TicketWith
  <1> QED
    BY <1>1, <1>2 DEF Put

\* The parts of TypeOK that the steps below use one at a time.
LEMMA TypeParts ==
    ASSUME TypeOK
    PROVE  /\ DOMAIN assets \subseteq Asset /\ DOMAIN units \subseteq Unit
           /\ DOMAIN loans \subseteq Loan /\ DOMAIN tickets \subseteq Ticket
           /\ \A a \in DOMAIN assets : assets[a] \in AssetRow
           /\ \A u \in DOMAIN units : units[u] \in UnitRow /\ units[u].asset \in DOMAIN assets
           /\ \A l \in DOMAIN loans : loans[l] \in LoanRow /\ loans[l].asset \in DOMAIN assets
           /\ \A t \in DOMAIN tickets : tickets[t] \in TicketRow
  BY DEF TypeOK, TablesOK, KeysOK, Table

\* TablesOK after a step, from what became of the rows.
LEMMA TablesStep ==
    ASSUME DOMAIN assets' \subseteq Asset, \A a \in DOMAIN assets' : assets'[a] \in AssetRow,
           DOMAIN units' \subseteq Unit, \A u \in DOMAIN units' : units'[u] \in UnitRow,
           DOMAIN loans' \subseteq Loan, \A l \in DOMAIN loans' : loans'[l] \in LoanRow,
           DOMAIN tickets' \subseteq Ticket, \A t \in DOMAIN tickets' : tickets'[t] \in TicketRow
    PROVE  TablesOK'
  BY DEF TablesOK, Table, AssetRow, UnitRow, LoanRow, TicketRow

\* A step that writes assets and units that are there, in their columns and
\* without moving a unit, and closes or marks assignments and tickets.
LEMMA SameKeys ==
    ASSUME TypeOK,
           DOMAIN assets' = DOMAIN assets, \A a \in DOMAIN assets : assets'[a] \in AssetRow,
           DOMAIN units' = DOMAIN units,
           \A u \in DOMAIN units : units'[u] \in UnitRow /\ units'[u].asset = units[u].asset,
           DOMAIN loans' = DOMAIN loans,
           \A l \in DOMAIN loans : /\ loans'[l] \in LoanRow
                                   /\ loans'[l].asset = loans[l].asset
                                   /\ loans'[l].unit = loans[l].unit,
           DOMAIN tickets' = DOMAIN tickets,
           \A t \in DOMAIN tickets : /\ tickets'[t] \in TicketRow
                                     /\ tickets'[t].asset = tickets[t].asset
                                     /\ tickets'[t].unit = tickets[t].unit
    PROVE  TypeOK'
  <1>1. TablesOK'
    BY TypeParts, TablesStep
  <1> QED
    BY <1>1, KeysKept

\* The same when a table is left alone.
LEMMA Untouched ==
    ASSUME TypeOK
    PROVE  /\ assets' = assets => /\ DOMAIN assets' = DOMAIN assets
                                  /\ \A a \in DOMAIN assets : assets'[a] \in AssetRow
           /\ units' = units =>
                /\ DOMAIN units' = DOMAIN units
                /\ \A u \in DOMAIN units : units'[u] \in UnitRow /\ units'[u].asset = units[u].asset
           /\ loans' = loans =>
                /\ DOMAIN loans' = DOMAIN loans
                /\ \A l \in DOMAIN loans : /\ loans'[l] \in LoanRow
                                           /\ loans'[l].asset = loans[l].asset
                                           /\ loans'[l].unit = loans[l].unit
           /\ tickets' = tickets =>
                /\ DOMAIN tickets' = DOMAIN tickets
                /\ \A t \in DOMAIN tickets : /\ tickets'[t] \in TicketRow
                                             /\ tickets'[t].asset = tickets[t].asset
                                             /\ tickets'[t].unit = tickets[t].unit
  BY TypeParts

\* What closing an assignment, and noting the status of a ticket, write.
LEMMA CloseLoan ==
    ASSUME TypeOK, NEW l \in DOMAIN loans, NEW next \in Nullable(Loan), NEW asked \in BOOLEAN,
           loans' = Put(loans, l, Closed(l, next, asked))
    PROVE  /\ DOMAIN loans' = DOMAIN loans
           /\ \A k \in DOMAIN loans : /\ loans'[k] \in LoanRow
                                      /\ loans'[k].asset = loans[k].asset
                                      /\ loans'[k].unit = loans[k].unit
                                      /\ loans'[k].member = loans[k].member
           /\ \A k \in DOMAIN loans \ {l} : loans'[k] = loans[k]
           /\ loans'[l].open = FALSE /\ loans'[l].next = next
  <1> DEFINE row == Closed(l, next, asked)
  <1>1. /\ row \in LoanRow /\ row.asset = loans[l].asset /\ row.unit = loans[l].unit
        /\ row.member = loans[l].member /\ row.open = FALSE /\ row.next = next
    BY ZenonT(40), ClosedType
  <1>2. loans' = Put(loans, l, row)
    OBVIOUS
  <1> HIDE DEF row
  <1>3. /\ DOMAIN loans' = DOMAIN loans /\ loans'[l] = row
        /\ \A k \in DOMAIN loans \ {l} : loans'[k] = loans[k]
    BY <1>2 DEF Put
  <1>4. \A k \in DOMAIN loans : loans[k] \in LoanRow
    BY TypeParts
  <1> QED
    BY <1>1, <1>3, <1>4

-----------------------------------------------------------------------------
(* The register. *)

LEMMA CreateAssetType ==
    ASSUME TypeOK, NEW a \in Asset, NEW new \in SUBSET (Unit \ DOMAIN units), CreateAsset(a, new)
    PROVE  TypeOK'
  <1>1. /\ DOMAIN assets' = DOMAIN assets \cup {a}
        /\ \A x \in DOMAIN assets' : assets'[x] \in AssetRow
    BY TypeParts DEF CreateAsset, Put, AssetRow, AssetStatus
  <1>2. /\ DOMAIN units' = DOMAIN units \cup new
        /\ \A u \in DOMAIN units : units'[u] = units[u]
        /\ \A u \in new : units'[u] \in UnitRow /\ units'[u].asset = a
    BY DEF CreateAsset, UnitRow, AssetStatus, Nullable
  <1>3. loans' = loans /\ tickets' = tickets
    BY DEF CreateAsset
  <1>4. TablesOK'
    BY <1>1, <1>2, <1>3, TypeParts, TablesStep
  <1> QED
    BY <1>1, <1>2, <1>3, <1>4, KeysKept

\* What an edit of asset a with units gone and new writes.
UpdateWrites(a, gone, new) ==
    /\ DOMAIN assets' = DOMAIN assets
    /\ \A x \in DOMAIN assets : assets'[x] \in AssetRow
    /\ DOMAIN units' = (DOMAIN units \ gone) \cup new
    /\ new \cap DOMAIN units = {}
    /\ \A u \in DOMAIN units \ gone : units'[u] = units[u]
    /\ \A u \in new : units'[u] \in UnitRow /\ units'[u].asset = a /\ units'[u].holder = Null
    /\ DOMAIN loans' = DOMAIN loans
    /\ \A l \in DOMAIN loans :
         /\ loans'[l] \in LoanRow /\ loans'[l].asset = loans[l].asset
         /\ loans'[l].member = loans[l].member /\ loans'[l].open = loans[l].open
         /\ loans'[l].next = loans[l].next
         /\ loans'[l].unit = IF loans[l].unit \in gone THEN Null ELSE loans[l].unit
    /\ DOMAIN tickets' = DOMAIN tickets
    /\ \A t \in DOMAIN tickets :
         /\ tickets'[t] \in TicketRow /\ tickets'[t].asset = tickets[t].asset
         /\ tickets'[t].return = tickets[t].return
         /\ tickets'[t].unit = IF tickets[t].unit \in gone THEN Null ELSE tickets[t].unit

LEMMA UpdateAssetRows ==
    ASSUME TypeOK, NEW a \in Asset, NEW status \in EditStatus, NEW gone, NEW new \in SUBSET Unit,
           UpdateAsset(a, status, gone, new)
    PROVE  UpdateWrites(a, gone, new)
  <1>1. a \in DOMAIN assets /\ status \in AssetStatus
    BY InputTypes DEF UpdateAsset, Registered
  <1>2. /\ DOMAIN assets' = DOMAIN assets
        /\ \A x \in DOMAIN assets : assets'[x] \in AssetRow
    BY <1>1, SetStatusType DEF UpdateAsset
  <1>3. PICK kind \in {"AVAILABLE", status} :
          units' = [u \in (DOMAIN units \ gone) \cup new |->
                IF u \in new THEN [asset |-> a, status |-> kind, holder |-> Null] ELSE units[u]]
    BY DEF UpdateAsset
  <1>4. kind \in AssetStatus /\ new \cap DOMAIN units = {}
    BY <1>1 DEF AssetStatus, UpdateAsset
  <1>5. /\ DOMAIN units' = (DOMAIN units \ gone) \cup new
        /\ \A u \in DOMAIN units \ gone : units'[u] = units[u]
        /\ \A u \in new : units'[u] \in UnitRow /\ units'[u].asset = a /\ units'[u].holder = Null
    BY <1>3, <1>4 DEF UnitRow, Nullable
  <1>6. /\ DOMAIN loans' = DOMAIN loans
        /\ \A l \in DOMAIN loans :
             /\ loans'[l] \in LoanRow /\ loans'[l].asset = loans[l].asset
             /\ loans'[l].member = loans[l].member /\ loans'[l].open = loans[l].open
             /\ loans'[l].next = loans[l].next
             /\ loans'[l].unit = IF loans[l].unit \in gone THEN Null ELSE loans[l].unit
    BY TypeParts DEF UpdateAsset, LoanRow, Nullable
  <1>7. /\ DOMAIN tickets' = DOMAIN tickets
        /\ \A t \in DOMAIN tickets :
             /\ tickets'[t] \in TicketRow /\ tickets'[t].asset = tickets[t].asset
             /\ tickets'[t].return = tickets[t].return
             /\ tickets'[t].unit = IF tickets[t].unit \in gone THEN Null ELSE tickets[t].unit
    BY TypeParts DEF UpdateAsset, TicketRow, Nullable
  <1> QED
    BY <1>2, <1>4, <1>5, <1>6, <1>7 DEF UpdateWrites

LEMMA UpdateAssetType ==
    ASSUME TypeOK, NEW a \in Asset, NEW status \in EditStatus, NEW gone, NEW new \in SUBSET Unit,
           UpdateAsset(a, status, gone, new)
    PROVE  TypeOK'
  <1>0. UpdateWrites(a, gone, new)
    BY UpdateAssetRows
  <1>1. /\ DOMAIN assets' = DOMAIN assets
        /\ \A x \in DOMAIN assets : assets'[x] \in AssetRow
        /\ DOMAIN units' = (DOMAIN units \ gone) \cup new
        /\ \A u \in DOMAIN units \ gone : units'[u] = units[u]
        /\ \A u \in new : units'[u] \in UnitRow /\ units'[u].asset = a
    BY <1>0 DEF UpdateWrites
  <1>2. /\ DOMAIN loans' = DOMAIN loans
        /\ \A l \in DOMAIN loans :
             /\ loans'[l] \in LoanRow /\ loans'[l].asset = loans[l].asset
             /\ loans'[l].unit = IF loans[l].unit \in gone THEN Null ELSE loans[l].unit
    BY <1>0 DEF UpdateWrites
  <1>3. /\ DOMAIN tickets' = DOMAIN tickets
        /\ \A t \in DOMAIN tickets :
             /\ tickets'[t] \in TicketRow /\ tickets'[t].asset = tickets[t].asset
             /\ tickets'[t].unit = IF tickets[t].unit \in gone THEN Null ELSE tickets[t].unit
    BY <1>0 DEF UpdateWrites
  <1>4. TablesOK'
    BY <1>1, <1>2, <1>3, TypeParts, TablesStep
  <1>5. a \in DOMAIN assets
    BY DEF UpdateAsset, Registered
  <1>6. \A u \in DOMAIN units' : units'[u].asset \in DOMAIN assets'
    BY <1>1, <1>5, TypeParts
  <1>7. \A l \in DOMAIN loans' :
          /\ loans'[l].asset \in DOMAIN assets'
          /\ loans'[l].unit # Null => /\ loans'[l].unit \in DOMAIN units'
                                      /\ units'[loans'[l].unit].asset = loans'[l].asset
    BY <1>1, <1>2 DEF TypeOK, KeysOK
  <1>8. \A t \in DOMAIN tickets' :
          /\ tickets'[t].asset \in Nullable(DOMAIN assets')
          /\ tickets'[t].unit \in Nullable(DOMAIN units')
    BY <1>1, <1>3 DEF TypeOK, KeysOK, Nullable
  <1> QED
    BY <1>4, <1>6, <1>7, <1>8 DEF TypeOK, KeysOK

LEMMA DeleteAssetType ==
    ASSUME TypeOK, NEW a \in Asset, DeleteAsset(a)
    PROVE  TypeOK'
  <1>1. /\ DOMAIN assets' = DOMAIN assets
        /\ \A x \in DOMAIN assets : assets'[x] \in AssetRow
    BY TypeParts DEF DeleteAsset, Registered, Put, AssetRow
  <1>2. units' = units /\ loans' = loans /\ tickets' = tickets
    BY DEF DeleteAsset
  <1> QED
    BY <1>1, <1>2, Untouched, SameKeys

-----------------------------------------------------------------------------
(* Assignments. *)

\* What issuing the chosen assets writes: a new assignment and a unit of each.
IssueWrites(chosen, m, id, track) ==
    /\ DOMAIN assets' = DOMAIN assets
    /\ \A x \in DOMAIN assets : assets'[x] \in AssetRow
    /\ \A a \in chosen : a \in DOMAIN assets /\ assets'[a].status = "ASSIGNED"
    /\ \A x \in DOMAIN assets \ chosen : assets'[x] = assets[x]
    /\ DOMAIN units' = DOMAIN units \cup {track[a] : a \in chosen}
    /\ \A u \in DOMAIN units : (\A a \in chosen : track[a] # u) => units'[u] = units[u]
    /\ \A a \in chosen :
         /\ units'[track[a]] \in UnitRow /\ units'[track[a]].asset = a
         /\ units'[track[a]].status = "ASSIGNED" /\ units'[track[a]].holder = m
         /\ track[a] \in DOMAIN units => units[track[a]].asset = a
    /\ DOMAIN loans' = DOMAIN loans \cup {id[a] : a \in chosen}
    /\ \A l \in DOMAIN loans : loans'[l] = loans[l]
    /\ \A a \in chosen :
         /\ id[a] \notin DOMAIN loans /\ loans'[id[a]] \in LoanRow
         /\ loans'[id[a]].asset = a /\ loans'[id[a]].unit = track[a]
         /\ loans'[id[a]].member = m /\ loans'[id[a]].open = TRUE /\ loans'[id[a]].next = Null
    /\ tickets' = tickets

LEMMA IssueAssetsRows ==
    ASSUME TypeOK, NEW chosen \in SUBSET Asset, NEW m \in Member,
           NEW id \in [chosen -> Loan \ DOMAIN loans], NEW track \in [chosen -> Unit],
           IssueAssets(chosen, m, id, track)
    PROVE  IssueWrites(chosen, m, id, track)
  <1>1. /\ \A a \in chosen : a \in DOMAIN assets
        /\ \A a, b \in chosen : a # b => id[a] # id[b] /\ track[a] # track[b]
        /\ \A a \in chosen : track[a] \in DOMAIN units => units[track[a]].asset = a
    BY DEF IssueAssets, Available, Registered, UnitsOf
  <1>2. /\ DOMAIN assets' = DOMAIN assets
        /\ \A x \in DOMAIN assets : assets'[x] \in AssetRow
        /\ \A a \in chosen : assets'[a].status = "ASSIGNED"
        /\ \A x \in DOMAIN assets \ chosen : assets'[x] = assets[x]
    BY <1>1, TypeParts DEF IssueAssets, AssetRow, AssetStatus
  <1>3. /\ DOMAIN units' = DOMAIN units \cup {track[a] : a \in chosen}
        /\ \A u \in DOMAIN units : (\A a \in chosen : track[a] # u) => units'[u] = units[u]
    BY DEF IssueAssets
  <1>4. ASSUME NEW a \in chosen
        PROVE  /\ units'[track[a]] \in UnitRow /\ units'[track[a]].asset = a
               /\ units'[track[a]].status = "ASSIGNED" /\ units'[track[a]].holder = m
    <2>1. (CHOOSE b \in chosen : track[b] = track[a]) = a
      BY <1>1
    <2>2. units'[track[a]] = [asset |-> CHOOSE b \in chosen : track[b] = track[a],
                              status |-> "ASSIGNED", holder |-> m]
      BY DEF IssueAssets
    <2>3. units'[track[a]] = [asset |-> a, status |-> "ASSIGNED", holder |-> m]
      BY <2>1, <2>2
    <2> QED
      BY <2>3 DEF UnitRow, AssetStatus, Nullable
  <1>5. /\ DOMAIN loans' = DOMAIN loans \cup {id[a] : a \in chosen}
        /\ \A l \in DOMAIN loans : loans'[l] = loans[l]
        /\ tickets' = tickets
    BY DEF IssueAssets
  <1>6. ASSUME NEW a \in chosen
        PROVE  /\ id[a] \notin DOMAIN loans /\ loans'[id[a]] \in LoanRow
               /\ loans'[id[a]].asset = a /\ loans'[id[a]].unit = track[a]
               /\ loans'[id[a]].member = m /\ loans'[id[a]].open = TRUE
               /\ loans'[id[a]].next = Null
    <2>1. (CHOOSE b \in chosen : id[b] = id[a]) = a
      BY <1>1
    <2>2. id[a] \notin DOMAIN loans
      OBVIOUS
    <2>3. loans'[id[a]] =
            [asset |-> CHOOSE b \in chosen : id[b] = id[a],
             unit |-> track[CHOOSE b \in chosen : id[b] = id[a]], member |-> m, open |-> TRUE,
             next |-> Null, asked |-> FALSE]
      BY <2>2 DEF IssueAssets
    <2>4. loans'[id[a]] = [asset |-> a, unit |-> track[a], member |-> m, open |-> TRUE,
                           next |-> Null, asked |-> FALSE]
      BY <2>1, <2>3
    <2> QED
      BY <2>2, <2>4 DEF LoanRow, Nullable
  <1> QED
    BY <1>1, <1>2, <1>3, <1>4, <1>5, <1>6 DEF IssueWrites

LEMMA IssueAssetsType ==
    ASSUME TypeOK, NEW chosen \in SUBSET Asset, NEW m \in Member,
           NEW id \in [chosen -> Loan \ DOMAIN loans], NEW track \in [chosen -> Unit],
           IssueAssets(chosen, m, id, track)
    PROVE  TypeOK'
  <1>0. IssueWrites(chosen, m, id, track)
    BY IssueAssetsRows
  <1>1. /\ \A u \in DOMAIN units' : units'[u] \in UnitRow
        /\ DOMAIN units' \subseteq Unit
    BY <1>0, TypeParts DEF IssueWrites
  <1>2. /\ \A l \in DOMAIN loans' : loans'[l] \in LoanRow
        /\ DOMAIN loans' \subseteq Loan
    BY <1>0, TypeParts DEF IssueWrites
  <1>3. TablesOK'
    BY <1>0, <1>1, <1>2, TypeParts, TablesStep DEF IssueWrites
  <1>4. /\ \A u \in DOMAIN units : units'[u].asset = units[u].asset
        /\ \A u \in DOMAIN units' \ DOMAIN units : units'[u].asset \in DOMAIN assets'
    BY <1>0, TypeParts DEF IssueWrites
  <1>5. \A l \in DOMAIN loans' :
          \/ /\ l \in DOMAIN loans
             /\ loans'[l].asset = loans[l].asset /\ loans'[l].unit = loans[l].unit
          \/ /\ loans'[l].asset \in DOMAIN assets' /\ loans'[l].unit \in DOMAIN units'
             /\ units'[loans'[l].unit].asset = loans'[l].asset
    BY <1>0 DEF IssueWrites
  <1>6. DOMAIN assets' = DOMAIN assets /\ DOMAIN units \subseteq DOMAIN units' /\ tickets' = tickets
    BY <1>0 DEF IssueWrites
  <1> QED
    BY <1>3, <1>4, <1>5, <1>6, KeysKept

\* What the return of an assignment writes: it is closed, its unit is given back
\* and the asset takes the status of its units, or the one chosen if it has none.
GivenBack(l, u, status) ==
    LET a == loans[l].asset
        us == WithUnit(a, u, status, Null)
    IN  /\ units' = us
        /\ assets' = SetStatus(a, IF u = Null THEN status ELSE StatusFrom(us, a, status))
        /\ loans' = Put(loans, l, Closed(l, loans[l].next, loans[l].asked))

LEMMA GivenBackRows ==
    ASSUME TypeOK, NEW l \in DOMAIN loans, NEW u, NEW status \in AssetStatus,
           GivenBack(l, u, status)
    PROVE  /\ DOMAIN assets' = DOMAIN assets
           /\ \A x \in DOMAIN assets : assets'[x] \in AssetRow
           /\ DOMAIN units' = DOMAIN units
           /\ \A v \in DOMAIN units : units'[v] \in UnitRow /\ units'[v].asset = units[v].asset
           /\ DOMAIN loans' = DOMAIN loans
           /\ \A k \in DOMAIN loans : /\ loans'[k] \in LoanRow
                                      /\ loans'[k].asset = loans[k].asset
                                      /\ loans'[k].unit = loans[k].unit
                                      /\ loans'[k].member = loans[k].member
           /\ \A k \in DOMAIN loans \ {l} : loans'[k] = loans[k]
           /\ loans'[l].open = FALSE /\ loans'[l].next = loans[l].next
  <1> DEFINE a == loans[l].asset
             us == WithUnit(a, u, status, Null)
  <1>1. a \in DOMAIN assets /\ loans[l] \in LoanRow
    BY TypeParts
  <1>2. Null \in Nullable(Member)
    BY DEF Nullable
  <1>3. DOMAIN us = DOMAIN units /\ \A v \in DOMAIN units : us[v] \in UnitRow /\ us[v].asset = units[v].asset
    BY <1>2, WithUnitType
  <1>4. units' = us /\ loans' = Put(loans, l, Closed(l, loans[l].next, loans[l].asked))
    BY DEF GivenBack
  <1>5. /\ DOMAIN loans' = DOMAIN loans
        /\ \A k \in DOMAIN loans : /\ loans'[k] \in LoanRow
                                   /\ loans'[k].asset = loans[k].asset
                                   /\ loans'[k].unit = loans[k].unit
                                   /\ loans'[k].member = loans[k].member
        /\ \A k \in DOMAIN loans \ {l} : loans'[k] = loans[k]
        /\ loans'[l].open = FALSE /\ loans'[l].next = loans[l].next
    <2>1. loans[l].next \in Nullable(Loan) /\ loans[l].asked \in BOOLEAN
      BY <1>1 DEF LoanRow
    <2> QED
      BY <1>4, <2>1, CloseLoan
  <1>6. PICK s \in AssetStatus : assets' = SetStatus(a, s)
    <2>1. assets' = SetStatus(a, IF u = Null THEN status ELSE StatusFrom(us, a, status))
      BY DEF GivenBack
    <2>2. \A v \in DOMAIN us : us[v].status \in AssetStatus
      BY <1>3 DEF UnitRow
    <2> HIDE DEF us, a
    <2>3. StatusFrom(us, a, status) \in AssetStatus
      BY <2>2, StatusFromType
    <2> QED
      BY <2>1, <2>3
  <1>7. DOMAIN assets' = DOMAIN assets /\ \A x \in DOMAIN assets : assets'[x] \in AssetRow
    <2> HIDE DEF a
    <2> QED
      BY <1>1, <1>6, SetStatusType
  <1> QED
    BY <1>3, <1>4, <1>5, <1>7

\* A ticket table that is only added to, or whose rows get another status.
TicketsKept ==
    /\ DOMAIN tickets' = DOMAIN tickets
    /\ \A x \in DOMAIN tickets : /\ tickets'[x] \in TicketRow
                                 /\ tickets'[x].asset = tickets[x].asset
                                 /\ tickets'[x].unit = tickets[x].unit
                                 /\ tickets'[x].return = tickets[x].return

LEMMA TicketsAreKept ==
    ASSUME TypeOK, NEW t \in DOMAIN tickets, NEW status \in TicketStatus,
           tickets' = Put(tickets, t, TicketWith(t, status))
    PROVE  TicketsKept
  BY TicketWithType DEF TicketsKept

LEMMA GivenBackType ==
    ASSUME TypeOK, NEW l \in DOMAIN loans, NEW u, NEW status \in AssetStatus,
           GivenBack(l, u, status), TicketsKept
    PROVE  TypeOK'
  <1>1. /\ DOMAIN assets' = DOMAIN assets
        /\ \A x \in DOMAIN assets : assets'[x] \in AssetRow
        /\ DOMAIN units' = DOMAIN units
        /\ \A v \in DOMAIN units : units'[v] \in UnitRow /\ units'[v].asset = units[v].asset
        /\ DOMAIN loans' = DOMAIN loans
        /\ \A k \in DOMAIN loans : /\ loans'[k] \in LoanRow
                                   /\ loans'[k].asset = loans[k].asset
                                   /\ loans'[k].unit = loans[k].unit
    BY GivenBackRows
  <1> QED
    BY <1>1, SameKeys DEF TicketsKept

LEMMA ReturnAssetGivesBack ==
    ASSUME NEW l, NEW status, ReturnAsset(l, status)
    PROVE  l \in DOMAIN loans /\ GivenBack(l, loans[l].unit, status) /\ tickets' = tickets
  BY DEF ReturnAsset, GivenBack

LEMMA ReturnAssetType ==
    ASSUME TypeOK, NEW l \in DOMAIN loans, NEW status \in ReturnStatus, ReturnAsset(l, status)
    PROVE  TypeOK'
  <1>1. GivenBack(l, loans[l].unit, status) /\ TicketsKept
    BY ReturnAssetGivesBack, TypeParts DEF TicketsKept
  <1>2. status \in AssetStatus
    BY InputTypes
  <1> QED
    BY <1>1, <1>2, GivenBackType

LEMMA RequestReturnRows ==
    ASSUME TypeOK, NEW l \in DOMAIN loans, RequestReturn(l)
    PROVE  /\ DOMAIN loans' = DOMAIN loans
           /\ \A k \in DOMAIN loans :
                /\ loans'[k] \in LoanRow
                /\ loans'[k].asset = loans[k].asset /\ loans'[k].unit = loans[k].unit
                /\ loans'[k].member = loans[k].member /\ loans'[k].open = loans[k].open
                /\ loans'[k].next = loans[k].next
           /\ assets' = assets /\ units' = units /\ tickets' = tickets
  BY TypeParts DEF RequestReturn, LoanRow

LEMMA RequestReturnType ==
    ASSUME TypeOK, NEW l \in DOMAIN loans, RequestReturn(l)
    PROVE  TypeOK'
  BY RequestReturnRows, Untouched, SameKeys

-----------------------------------------------------------------------------
(* Tickets. *)

\* A handler that writes one unit of a registered asset, and its status.
LEMMA UnitAndAsset ==
    ASSUME TypeOK, NEW a \in DOMAIN assets, NEW u, NEW status \in AssetStatus,
           NEW holder \in Nullable(Member), NEW shown \in AssetStatus,
           units' = WithUnit(a, u, status, holder), assets' = SetStatus(a, shown)
    PROVE  /\ DOMAIN assets' = DOMAIN assets
           /\ \A x \in DOMAIN assets : assets'[x] \in AssetRow
           /\ DOMAIN units' = DOMAIN units
           /\ \A v \in DOMAIN units : units'[v] \in UnitRow /\ units'[v].asset = units[v].asset
  BY SetStatusType, WithUnitType

\* What a handler shows of an asset whose unit it has written.
LEMMA ShownType ==
    ASSUME TypeOK, NEW a, NEW u, NEW status \in AssetStatus,
           NEW holder \in Nullable(Member), NEW other \in AssetStatus
    PROVE  StatusFrom(WithUnit(a, u, status, holder), a, other) \in AssetStatus
  <1> DEFINE us == WithUnit(a, u, status, holder)
  <1>1. \A v \in DOMAIN us : us[v].status \in AssetStatus
    BY WithUnitType DEF UnitRow
  <1> HIDE DEF us
  <1>2. StatusFrom(us, a, other) \in AssetStatus
    BY <1>1, StatusFromType
  <1> QED
    BY <1>2 DEF us

\* A new ticket.
LEMMA NewTicketRows ==
    ASSUME TypeOK, NEW t \in Ticket \ DOMAIN tickets, NEW a \in Nullable(Asset),
           NEW u \in Nullable(Unit), NEW m \in Member, NEW return \in BOOLEAN,
           tickets' = Put(tickets, t, NewTicket(a, u, m, return))
    PROVE  /\ DOMAIN tickets' = DOMAIN tickets \cup {t}
           /\ \A x \in DOMAIN tickets : tickets'[x] = tickets[x]
           /\ tickets'[t] \in TicketRow /\ tickets'[t].asset = a /\ tickets'[t].unit = u
  BY DEF Put, NewTicket, TicketRow, TicketStatus

LEMMA CreateTicketType ==
    ASSUME TypeOK, NEW t \in Ticket \ DOMAIN tickets, NEW a \in Nullable(Asset),
           NEW u \in Nullable(Unit), NEW m \in Member, NEW return \in BOOLEAN,
           CreateTicket(t, a, u, m, return)
    PROVE  TypeOK'
  <1>1. /\ DOMAIN tickets' = DOMAIN tickets \cup {t}
        /\ \A x \in DOMAIN tickets : tickets'[x] = tickets[x]
        /\ tickets'[t] \in TicketRow /\ tickets'[t].asset = a /\ tickets'[t].unit = u
    BY NewTicketRows DEF CreateTicket
  <1>2. a \in Nullable(DOMAIN assets) /\ u \in Nullable(DOMAIN units)
    BY DEF CreateTicket, TicketSubjects, Registered, Nullable, UnitsOf
  <1>3. assets' = assets /\ units' = units /\ loans' = loans
    BY DEF CreateTicket
  <1>4. TablesOK'
    BY <1>1, <1>3, TypeParts, TablesStep
  <1>5. \A x \in DOMAIN tickets' :
          \/ /\ x \in DOMAIN tickets
             /\ tickets'[x].asset = tickets[x].asset /\ tickets'[x].unit = tickets[x].unit
          \/ /\ tickets'[x].asset \in Nullable(DOMAIN assets')
             /\ tickets'[x].unit \in Nullable(DOMAIN units')
    BY <1>1, <1>2, <1>3
  <1> QED
    BY <1>3, <1>4, <1>5, KeysKept

LEMMA CreateMaintenanceType ==
    ASSUME TypeOK, NEW t \in Ticket \ DOMAIN tickets, NEW a \in Nullable(Asset),
           NEW u \in Nullable(Unit), NEW m \in Member, NEW return \in BOOLEAN,
           CreateMaintenance(t, a, u, m, return)
    PROVE  TypeOK'
  <1>1. /\ DOMAIN tickets' = DOMAIN tickets \cup {t}
        /\ \A x \in DOMAIN tickets : tickets'[x] = tickets[x]
        /\ tickets'[t] \in TicketRow /\ tickets'[t].asset = a /\ tickets'[t].unit = u
    BY NewTicketRows DEF CreateMaintenance
  <1>2. a \in DOMAIN assets /\ u \in Nullable(DOMAIN units) /\ loans' = loans
    BY DEF CreateMaintenance, Registered, Nullable
  <1>3. /\ DOMAIN assets' = DOMAIN assets
        /\ \A x \in DOMAIN assets : assets'[x] \in AssetRow
        /\ DOMAIN units' = DOMAIN units
        /\ \A v \in DOMAIN units : units'[v] \in UnitRow /\ units'[v].asset = units[v].asset
    <2>1. "IN_MAINTENANCE" \in AssetStatus
      BY DEF AssetStatus
    <2>2. units' = WithUnit(a, u, "IN_MAINTENANCE", HolderOf(u)) /\ assets' = SetStatus(a, "IN_MAINTENANCE")
      BY DEF CreateMaintenance
    <2> QED
      BY <1>2, <2>1, <2>2, HolderType, UnitAndAsset
  <1>4. TablesOK'
    BY <1>1, <1>2, <1>3, TypeParts, TablesStep
  <1>5. \A x \in DOMAIN tickets' :
          \/ /\ x \in DOMAIN tickets
             /\ tickets'[x].asset = tickets[x].asset /\ tickets'[x].unit = tickets[x].unit
          \/ /\ tickets'[x].asset \in Nullable(DOMAIN assets')
             /\ tickets'[x].unit \in Nullable(DOMAIN units')
    BY <1>1, <1>2, <1>3 DEF Nullable
  <1> QED
    BY <1>2, <1>3, <1>4, <1>5, KeysKept

LEMMA WithdrawTicketType ==
    ASSUME TypeOK, NEW t \in DOMAIN tickets, WithdrawTicket(t)
    PROVE  TypeOK'
  <1> DEFINE a == tickets[t].asset
             u == tickets[t].unit
             resumed == IF OpenLoans(a) # {} THEN "ASSIGNED" ELSE "AVAILABLE"
             us == WithUnit(a, u, resumed, HolderOf(u))
  <1>1. TicketsKept /\ loans' = loans
    BY TicketsAreKept DEF WithdrawTicket, TicketStatus
  <1>2. /\ DOMAIN assets' = DOMAIN assets
        /\ \A x \in DOMAIN assets : assets'[x] \in AssetRow
        /\ DOMAIN units' = DOMAIN units
        /\ \A v \in DOMAIN units : units'[v] \in UnitRow /\ units'[v].asset = units[v].asset
    <2>1. CASE a = Null \/ OtherActive(t)
      BY <2>1, TypeParts DEF WithdrawTicket
    <2>2. CASE ~(a = Null \/ OtherActive(t))
      <3>1. a \in DOMAIN assets
        BY <2>2 DEF TypeOK, KeysOK, Nullable
      <3>2. resumed \in AssetStatus /\ HolderOf(u) \in Nullable(Member)
        BY HolderType DEF AssetStatus
      <3>3. /\ units' = us
            /\ assets' = SetStatus(a, IF u = Null THEN resumed ELSE StatusFrom(us, a, resumed))
        BY <2>2 DEF WithdrawTicket
      <3> HIDE DEF a, u, resumed
      <3>4. StatusFrom(us, a, resumed) \in AssetStatus
        BY <3>2, ShownType
      <3>5. PICK shown \in AssetStatus : assets' = SetStatus(a, shown)
        BY <3>2, <3>3, <3>4
      <3> QED
        BY <3>1, <3>2, <3>3, <3>5, UnitAndAsset
    <2> QED
      BY <2>1, <2>2
  <1>3. /\ DOMAIN loans' = DOMAIN loans
        /\ \A k \in DOMAIN loans : /\ loans'[k] \in LoanRow
                                   /\ loans'[k].asset = loans[k].asset
                                   /\ loans'[k].unit = loans[k].unit
    BY <1>1, TypeParts
  <1> QED
    BY <1>1, <1>2, <1>3, SameKeys DEF TicketsKept

\* The assignments of a handler that leaves them alone.
LEMMA LoansAlone ==
    ASSUME TypeOK, loans' = loans
    PROVE  /\ DOMAIN loans' = DOMAIN loans
           /\ \A k \in DOMAIN loans : /\ loans'[k] \in LoanRow
                                      /\ loans'[k].asset = loans[k].asset
                                      /\ loans'[k].unit = loans[k].unit
  BY TypeParts

LEMMA ProgressTicketType ==
    ASSUME TypeOK, NEW t \in DOMAIN tickets, ProgressTicket(t)
    PROVE  TypeOK'
  <1> DEFINE a == tickets[t].asset
  <1>1. TicketsKept /\ units' = units /\ loans' = loans
    BY TicketsAreKept DEF ProgressTicket, TicketStatus
  <1>2. DOMAIN assets' = DOMAIN assets /\ \A x \in DOMAIN assets : assets'[x] \in AssetRow
    <2>1. a \in DOMAIN assets
      BY DEF ProgressTicket, Registered
    <2>2. assets' = SetStatus(a, StatusFrom(units, a, "IN_MAINTENANCE"))
      BY DEF ProgressTicket
    <2>3. \A u \in DOMAIN units : units[u].status \in AssetStatus
      BY TypeParts DEF UnitRow
    <2> HIDE DEF a
    <2>4. StatusFrom(units, a, "IN_MAINTENANCE") \in AssetStatus
      BY <2>3, StatusFromType DEF AssetStatus
    <2> QED
      BY <2>1, <2>2, <2>4, SetStatusType
  <1> QED
    BY <1>1, <1>2, Untouched, SameKeys DEF TicketsKept

LEMMA CompleteReturnCases ==
    ASSUME TypeOK, NEW t \in DOMAIN tickets, NEW l, NEW status, CompleteReturn(t, l, status)
    PROVE  LET u == IF tickets[t].unit # Null THEN tickets[t].unit ELSE loans[l].unit
           IN  \/ assets' = assets /\ units' = units /\ loans' = loans
               \/ /\ l \in DOMAIN loans /\ loans[l].asset = tickets[t].asset /\ loans[l].open
                  /\ GivenBack(l, u, status)
  BY DEF CompleteReturn, GivenBack, OpenLoans

LEMMA CompleteReturnType ==
    ASSUME TypeOK, NEW t \in DOMAIN tickets, NEW l \in Loan,
           NEW status \in OutcomeStatus("COMPLETED"), CompleteReturn(t, l, status)
    PROVE  TypeOK'
  <1>1. TicketsKept
    BY TicketsAreKept DEF CompleteReturn, TicketStatus
  <1>2. status \in AssetStatus
    BY InputTypes
  <1>3. CASE assets' = assets /\ units' = units /\ loans' = loans
    BY <1>1, <1>3, Untouched, SameKeys DEF TicketsKept
  <1>4. ASSUME NEW u, l \in DOMAIN loans, GivenBack(l, u, status)
        PROVE  TypeOK'
    BY <1>1, <1>2, <1>4, GivenBackType
  <1> QED
    BY <1>3, <1>4, CompleteReturnCases

LEMMA ResolveTicketType ==
    ASSUME TypeOK, NEW t \in DOMAIN tickets, NEW outcome \in {"COMPLETED", "CANCELLED"},
           NEW status \in OutcomeStatus(outcome), ResolveTicket(t, outcome, status)
    PROVE  TypeOK'
  <1> DEFINE a == tickets[t].asset
             u == tickets[t].unit
             us == WithUnit(a, u, status, HolderOf(u))
  <1>1. TicketsKept /\ loans' = loans
    BY TicketsAreKept DEF ResolveTicket, TicketStatus
  <1>2. /\ DOMAIN assets' = DOMAIN assets
        /\ \A x \in DOMAIN assets : assets'[x] \in AssetRow
        /\ DOMAIN units' = DOMAIN units
        /\ \A v \in DOMAIN units : units'[v] \in UnitRow /\ units'[v].asset = units[v].asset
    <2>1. a \in DOMAIN assets
      BY DEF ResolveTicket, Registered
    <2>2. status \in AssetStatus /\ HolderOf(u) \in Nullable(Member)
      BY InputTypes, HolderType
    <2>3. /\ units' = us
          /\ assets' = SetStatus(a, IF u = Null THEN status ELSE StatusFrom(us, a, status))
      BY DEF ResolveTicket
    <2> HIDE DEF a, u
    <2>4. StatusFrom(us, a, status) \in AssetStatus
      BY <2>2, ShownType
    <2>5. PICK shown \in AssetStatus : assets' = SetStatus(a, shown)
      BY <2>2, <2>3, <2>4
    <2> QED
      BY <2>1, <2>2, <2>3, <2>5, UnitAndAsset
  <1> QED
    BY <1>1, <1>2, LoansAlone, SameKeys DEF TicketsKept

LEMMA UpdateGeneralType ==
    ASSUME TypeOK, NEW t \in DOMAIN tickets, NEW status \in TicketStatus, UpdateGeneral(t, status)
    PROVE  TypeOK'
  <1>1. TicketsKept
    BY TicketsAreKept DEF UpdateGeneral
  <1>2. assets' = assets /\ units' = units /\ loans' = loans
    BY DEF UpdateGeneral
  <1> QED
    BY <1>1, <1>2, Untouched, SameKeys DEF TicketsKept

LEMMA ArchiveTicketType ==
    ASSUME TypeOK, NEW t \in DOMAIN tickets, NEW archived \in BOOLEAN, ArchiveTicket(t, archived)
    PROVE  TypeOK' /\ TicketsKept
  <1>1. TicketsKept
    BY TypeParts DEF ArchiveTicket, TicketsKept, TicketRow
  <1>2. assets' = assets /\ units' = units /\ loans' = loans
    BY DEF ArchiveTicket
  <1> QED
    BY <1>1, <1>2, Untouched, SameKeys DEF TicketsKept

\* What a replacement of assignment old by unit u writes: assignment new, of u
\* to the member who logged the ticket, takes the place of old, and the ticket's
\* unit, if it is one of the asset, is freed.
ReplacementWrites(t, old, u, new) ==
    /\ old \in DOMAIN loans /\ loans[old].open /\ loans[old].asset = tickets[t].asset
    /\ loans[old].member = tickets[t].by
    /\ u \in DOMAIN units /\ units[u].status = "AVAILABLE" /\ u # tickets[t].unit
    /\ DOMAIN assets' = DOMAIN assets
    /\ \A x \in DOMAIN assets : assets'[x] \in AssetRow
    /\ DOMAIN units' = DOMAIN units
    /\ \A v \in DOMAIN units : units'[v] \in UnitRow /\ units'[v].asset = units[v].asset
    /\ units'[u].status = "ASSIGNED" /\ units'[u].holder = tickets[t].by
    /\ \A v \in DOMAIN units \ {u} :
         \/ units'[v] = units[v]
         \/ units'[v].holder = Null /\ units'[v].status = "IN_MAINTENANCE"
    /\ DOMAIN loans' = DOMAIN loans \cup {new} /\ new \notin DOMAIN loans
    /\ \A k \in DOMAIN loans \ {old} : loans'[k] = loans[k]
    /\ loans'[old] = Closed(old, new, TRUE)
    /\ loans'[new] = [asset |-> units[u].asset, unit |-> u, member |-> tickets[t].by,
                      open |-> TRUE, next |-> Null, asked |-> FALSE]
    /\ TicketsKept

LEMMA ProvideReplacementRows ==
    ASSUME TypeOK, NEW t \in DOMAIN tickets, NEW old \in DOMAIN loans,
           NEW new \in Loan \ DOMAIN loans, NEW u \in DOMAIN units, NEW mode,
           ProvideReplacement(t, old, u, new, mode)
    PROVE  ReplacementWrites(t, old, u, new)
  <1> DEFINE a == tickets[t].asset
             m == tickets[t].by
             source == tickets[t].unit
             b == units[u].asset
             freed == WithUnit(a, source, "IN_MAINTENANCE", Null)
             row == [asset |-> b, status |-> "ASSIGNED", holder |-> m]
             given == Put(freed, u, row)
             shown == IF source \in UnitsOf(units, a)
                      THEN StatusFrom(freed, a, "AVAILABLE") ELSE "IN_MAINTENANCE"
  <1>1. /\ loans[old].open /\ loans[old].asset = a /\ loans[old].member = m
        /\ units[u].status = "AVAILABLE" /\ u # source
        /\ new \notin DOMAIN loans
    BY DEF ProvideReplacement, OpenLoans, Offered
  <1>2. /\ a \in DOMAIN assets /\ b \in DOMAIN assets /\ m \in Member
    BY <1>1, TypeParts DEF TicketRow
  <1>3. /\ "IN_MAINTENANCE" \in AssetStatus /\ "ASSIGNED" \in AssetStatus
        /\ "AVAILABLE" \in AssetStatus /\ Null \in Nullable(Member)
    BY DEF AssetStatus, Nullable
  <1>4. /\ DOMAIN freed = DOMAIN units
        /\ \A v \in DOMAIN units : freed[v] \in UnitRow /\ freed[v].asset = units[v].asset
    BY <1>3, WithUnitType
  <1>5. \A v \in DOMAIN units :
          freed[v] = units[v] \/ (freed[v].holder = Null /\ freed[v].status = "IN_MAINTENANCE")
    <2>1. /\ \A v \in DOMAIN units : ~(v = source /\ units[v].asset = a) => freed[v] = units[v]
          /\ source \in DOMAIN units /\ units[source].asset = a =>
                freed[source] = [asset |-> a, status |-> "IN_MAINTENANCE", holder |-> Null]
      BY WithUnitRows
    <2> HIDE DEF a, source, freed
    <2> QED
      BY <2>1
  <1>6. units' = given
    BY DEF ProvideReplacement
  <1>7. row \in UnitRow /\ row.asset = units[u].asset /\ row.status = "ASSIGNED" /\ row.holder = m
    BY <1>2, <1>3, TypeParts DEF UnitRow, Nullable
  <1>8. /\ DOMAIN given = DOMAIN units /\ given[u] = row
        /\ \A v \in DOMAIN units \ {u} : given[v] = freed[v]
    <2> HIDE DEF freed, row
    <2> QED
      BY <1>4 DEF Put
  <1>9. /\ DOMAIN given = DOMAIN units
        /\ \A v \in DOMAIN units : given[v] \in UnitRow /\ given[v].asset = units[v].asset
        /\ given[u].status = "ASSIGNED" /\ given[u].holder = m
        /\ \A v \in DOMAIN units \ {u} :
             \/ given[v] = units[v]
             \/ given[v].holder = Null /\ given[v].status = "IN_MAINTENANCE"
    <2> HIDE DEF freed, row, given
    <2> QED
      BY <1>4, <1>5, <1>7, <1>8
  <1>10. DOMAIN assets' = DOMAIN assets /\ \A x \in DOMAIN assets : assets'[x] \in AssetRow
    <2>1. assets' = [SetStatus(a, shown) EXCEPT ![b].status = StatusFrom(given, b, "AVAILABLE")]
      BY DEF ProvideReplacement
    <2>2. shown \in AssetStatus
      <3>1. StatusFrom(freed, a, "AVAILABLE") \in AssetStatus
        BY <1>3, ShownType
      <3> QED
        BY <1>3, <3>1
    <2>3. StatusFrom(given, b, "AVAILABLE") \in AssetStatus
      <3>1. \A v \in DOMAIN given : given[v].status \in AssetStatus
        <4> HIDE DEF given
        <4> QED
          BY <1>9 DEF UnitRow
      <3> HIDE DEF given, b
      <3> QED
        BY <1>3, <3>1, StatusFromType
    <2> HIDE DEF given, b, shown, a
    <2>4. /\ DOMAIN SetStatus(a, shown) = DOMAIN assets
          /\ \A x \in DOMAIN assets : SetStatus(a, shown)[x] \in AssetRow
      BY <1>2, <2>2, SetStatusType
    <2> QED
      BY <1>2, <2>1, <2>3, <2>4 DEF AssetRow
  <1>11. /\ DOMAIN loans' = DOMAIN loans \cup {new}
         /\ \A k \in DOMAIN loans \ {old} : loans'[k] = loans[k]
         /\ loans'[old] = Closed(old, new, TRUE)
         /\ loans'[new] = [asset |-> units[u].asset, unit |-> u, member |-> tickets[t].by,
                           open |-> TRUE, next |-> Null, asked |-> FALSE]
    BY <1>1 DEF ProvideReplacement, Put
  <1>12. TicketsKept
    BY TicketsAreKept DEF ProvideReplacement, TicketStatus
  <1> HIDE DEF given
  <1> QED
    BY <1>1, <1>6, <1>9, <1>10, <1>11, <1>12 DEF ReplacementWrites

LEMMA ProvideReplacementType ==
    ASSUME TypeOK, NEW t \in DOMAIN tickets, NEW old \in DOMAIN loans,
           NEW new \in Loan \ DOMAIN loans, NEW u \in DOMAIN units, NEW mode,
           ProvideReplacement(t, old, u, new, mode)
    PROVE  TypeOK'
  <1>1. ReplacementWrites(t, old, u, new)
    BY ProvideReplacementRows
  <1>2. /\ loans'[old] \in LoanRow /\ loans'[old].asset = loans[old].asset
        /\ loans'[old].unit = loans[old].unit
    <2>1. new \in Nullable(Loan)
      BY DEF Nullable
    <2>2. loans'[old] = Closed(old, new, TRUE)
      BY <1>1 DEF ReplacementWrites
    <2>3. /\ Closed(old, new, TRUE) \in LoanRow
          /\ Closed(old, new, TRUE).asset = loans[old].asset
          /\ Closed(old, new, TRUE).unit = loans[old].unit
      BY <2>1, TypeParts DEF Closed, LoanRow
    <2> QED
      BY <2>2, <2>3
  <1>3. /\ loans'[new] \in LoanRow /\ loans'[new].asset = units[u].asset /\ loans'[new].unit = u
    BY <1>1, TypeParts DEF ReplacementWrites, LoanRow, TicketRow, Nullable
  <1>4. TablesOK'
    BY ZenonT(40), <1>1, <1>2, <1>3, TypeParts, TablesStep DEF ReplacementWrites, TicketsKept
  <1>5. \A l \in DOMAIN loans' :
          \/ /\ l \in DOMAIN loans
             /\ loans'[l].asset = loans[l].asset /\ loans'[l].unit = loans[l].unit
          \/ /\ loans'[l].asset \in DOMAIN assets' /\ loans'[l].unit \in DOMAIN units'
             /\ units'[loans'[l].unit].asset = loans'[l].asset
    <2>1. /\ DOMAIN loans' = DOMAIN loans \cup {new}
          /\ \A k \in DOMAIN loans \ {old} : loans'[k] = loans[k]
      BY <1>1 DEF ReplacementWrites
    <2>2. units[u].asset \in DOMAIN assets' /\ u \in DOMAIN units' /\ units'[u].asset = units[u].asset
      BY <1>1, TypeParts DEF ReplacementWrites
    <2> QED
      BY <1>2, <1>3, <2>1, <2>2
  <1> QED
    BY <1>1, <1>4, <1>5, KeysKept DEF ReplacementWrites, TicketsKept

-----------------------------------------------------------------------------
(* The tables hold rows of their columns, whose references lead to rows. *)

LEMMA InitType == Init => TypeOK
  BY DEF Init, TypeOK, TablesOK, KeysOK, Table, NoRows

LEMMA NextType ==
    ASSUME TypeOK, [Next]_vars
    PROVE  TypeOK'
  <1>1. CASE UNCHANGED vars
    BY <1>1, Untouched, SameKeys DEF vars
  <1>2. CASE RegisterStep
    BY <1>2, CreateAssetType, UpdateAssetType, DeleteAssetType DEF RegisterStep
  <1>3. CASE LoanStep
    <2>1. ASSUME NEW chosen \in SUBSET {a \in Asset : Available(a)}, NEW m \in Member,
                 NEW id \in [chosen -> Loan \ DOMAIN loans], NEW track \in [chosen -> Unit],
                 IssueAssets(chosen, m, id, track)
          PROVE  TypeOK'
      BY <2>1, IssueAssetsType
    <2>2. ASSUME NEW l \in DOMAIN loans, RequestReturn(l)
          PROVE  TypeOK'
      BY <2>2, RequestReturnType
    <2>3. ASSUME NEW l \in DOMAIN loans, NEW status \in ReturnStatus, ReturnAsset(l, status)
          PROVE  TypeOK'
      BY <2>3, ReturnAssetType
    <2> QED
      BY <1>3, <2>1, <2>2, <2>3 DEF LoanStep
  <1>4. CASE TicketStep
    <2>1. ASSUME NEW t \in Ticket \ DOMAIN tickets, NEW a \in Nullable(Asset),
                 NEW u \in Nullable(Unit), NEW m \in Member, NEW return \in BOOLEAN,
                 CreateTicket(t, a, u, m, return) \/ CreateMaintenance(t, a, u, m, return)
          PROVE  TypeOK'
      BY <2>1, CreateTicketType, CreateMaintenanceType
    <2>2. ASSUME NEW t \in DOMAIN tickets, NEW old \in DOMAIN loans,
                 NEW new \in Loan \ DOMAIN loans, NEW u \in DOMAIN units,
                 NEW mode \in ReplacementModes, ProvideReplacement(t, old, u, new, mode)
          PROVE  TypeOK'
      BY <2>2, ProvideReplacementType
    <2>3. ASSUME NEW t \in DOMAIN tickets, WithdrawTicket(t) \/ ProgressTicket(t)
          PROVE  TypeOK'
      BY <2>3, WithdrawTicketType, ProgressTicketType
    <2>4. ASSUME NEW t \in DOMAIN tickets, NEW l \in Loan,
                 NEW status \in OutcomeStatus("COMPLETED"), CompleteReturn(t, l, status)
          PROVE  TypeOK'
      BY <2>4, CompleteReturnType
    <2>5. ASSUME NEW t \in DOMAIN tickets, NEW outcome \in {"COMPLETED", "CANCELLED"},
                 NEW status \in OutcomeStatus(outcome), ResolveTicket(t, outcome, status)
          PROVE  TypeOK'
      BY <2>5, ResolveTicketType
    <2>6. ASSUME NEW t \in DOMAIN tickets, NEW status \in TicketStatus, UpdateGeneral(t, status)
          PROVE  TypeOK'
      BY <2>6, UpdateGeneralType
    <2>7. ASSUME NEW t \in DOMAIN tickets, NEW archived \in BOOLEAN, ArchiveTicket(t, archived)
          PROVE  TypeOK'
      BY <2>7, ArchiveTicketType
    <2> QED
      BY <1>4, <2>1, <2>2, <2>3, <2>4, <2>5, <2>6, <2>7 DEF TicketStep
  <1> QED
    BY <1>1, <1>2, <1>3, <1>4 DEF Next

\* The tables of the register and the helpdesk hold rows of their columns, whose
\* references lead to rows, whatever is edited, issued, returned or replaced.
THEOREM TypeCorrect == Spec => []TypeOK
  <1>1. Init => TypeOK
    BY InitType
  <1>2. TypeOK /\ [Next]_vars => TypeOK'
    BY NextType
  <1> QED
    BY <1>1, <1>2, PTL DEF Spec

-----------------------------------------------------------------------------
(* Replacements. *)

\* Nothing changes the chain that keeps every assignment, closes none that was
\* replaced and adds none that is.
LEMMA ChainKept ==
    ASSUME ReplacementChain, TypeOK,
           DOMAIN loans \subseteq DOMAIN loans',
           \A l \in DOMAIN loans : /\ loans'[l].next = loans[l].next
                                   /\ loans'[l].member = loans[l].member
                                   /\ loans'[l].open => loans[l].open,
           \A l \in DOMAIN loans' \ DOMAIN loans : loans'[l].next = Null
    PROVE  ReplacementChain'
  <1> SUFFICES ASSUME NEW l \in DOMAIN loans', loans'[l].next # Null
               PROVE  /\ ~loans'[l].open
                      /\ loans'[l].next \in DOMAIN loans'
                      /\ loans'[loans'[l].next].member = loans'[l].member
                      /\ \A k \in DOMAIN loans' \ {l} : loans'[k].next # loans'[l].next
    BY DEF ReplacementChain
  <1>1. l \in DOMAIN loans /\ loans[l].next = loans'[l].next
    OBVIOUS
  <1>2. /\ ~loans[l].open /\ loans[l].next \in DOMAIN loans
        /\ loans[loans[l].next].member = loans[l].member
        /\ \A k \in DOMAIN loans \ {l} : loans[k].next # loans[l].next
    BY <1>1 DEF ReplacementChain
  <1> QED
    BY <1>1, <1>2

LEMMA NextChain ==
    ASSUME TypeOK, ReplacementChain, [Next]_vars
    PROVE  ReplacementChain'
  <1>1. CASE loans' = loans
    BY <1>1 DEF ReplacementChain
  <1>2. CASE RegisterStep
    <2>1. ASSUME NEW a \in Asset, NEW new \in SUBSET (Unit \ DOMAIN units),
                 NEW status \in EditStatus, NEW gone, UpdateAsset(a, status, gone, new)
          PROVE  ReplacementChain'
      <3>1. UpdateWrites(a, gone, new)
        BY <2>1, UpdateAssetRows
      <3> QED
        BY <3>1, ChainKept DEF UpdateWrites
    <2> QED
      BY <1>1, <1>2, <2>1 DEF RegisterStep, CreateAsset, DeleteAsset
  <1>3. CASE LoanStep
    <2>1. ASSUME NEW chosen \in SUBSET {a \in Asset : Available(a)}, NEW m \in Member,
                 NEW id \in [chosen -> Loan \ DOMAIN loans], NEW track \in [chosen -> Unit],
                 IssueAssets(chosen, m, id, track)
          PROVE  ReplacementChain'
      <3>1. IssueWrites(chosen, m, id, track)
        BY <2>1, IssueAssetsRows
      <3> QED
        BY <3>1, ChainKept DEF IssueWrites
    <2>2. ASSUME NEW l \in DOMAIN loans, RequestReturn(l)
          PROVE  ReplacementChain'
      BY <2>2, RequestReturnRows, ChainKept
    <2>3. ASSUME NEW l \in DOMAIN loans, NEW status \in ReturnStatus, ReturnAsset(l, status)
          PROVE  ReplacementChain'
      <3>1. GivenBack(l, loans[l].unit, status) /\ status \in AssetStatus
        BY <2>3, ReturnAssetGivesBack, InputTypes
      <3>2. /\ DOMAIN loans' = DOMAIN loans
            /\ \A k \in DOMAIN loans : loans'[k].member = loans[k].member
            /\ \A k \in DOMAIN loans \ {l} : loans'[k] = loans[k]
            /\ loans'[l].open = FALSE /\ loans'[l].next = loans[l].next
        BY <3>1, GivenBackRows
      <3> QED
        BY <3>2, ChainKept
    <2> QED
      BY <1>3, <2>1, <2>2, <2>3 DEF LoanStep
  <1>4. CASE TicketStep
    <2>1. ASSUME NEW t \in DOMAIN tickets, NEW old \in DOMAIN loans,
                 NEW new \in Loan \ DOMAIN loans, NEW u \in DOMAIN units,
                 NEW mode \in ReplacementModes, ProvideReplacement(t, old, u, new, mode)
          PROVE  ReplacementChain'
      <3>1. ReplacementWrites(t, old, u, new)
        BY <2>1, ProvideReplacementRows
      <3>2. /\ DOMAIN loans' = DOMAIN loans \cup {new}
            /\ \A k \in DOMAIN loans \ {old} : loans'[k] = loans[k]
            /\ loans[old].open /\ loans[old].member = tickets[t].by
        BY <3>1 DEF ReplacementWrites
      <3>3. loans'[old].next = new /\ ~loans'[old].open /\ loans'[old].member = loans[old].member
        BY <3>1 DEF ReplacementWrites, Closed
      <3>4. loans'[new].next = Null /\ loans'[new].member = tickets[t].by
        BY <3>1 DEF ReplacementWrites
      <3>5. \A k \in DOMAIN loans : loans[k].next # new
        BY NullIsNoKey DEF ReplacementChain
      <3> QED
        BY <3>2, <3>3, <3>4, <3>5 DEF ReplacementChain
    <2>2. ASSUME NEW t \in DOMAIN tickets, NEW l \in Loan,
                 NEW status \in OutcomeStatus("COMPLETED"), CompleteReturn(t, l, status)
          PROVE  ReplacementChain'
      <3>1. ASSUME NEW u, l \in DOMAIN loans, GivenBack(l, u, status)
            PROVE  ReplacementChain'
        <4>1. status \in AssetStatus
          BY InputTypes
        <4>2. /\ DOMAIN loans' = DOMAIN loans
              /\ \A k \in DOMAIN loans : loans'[k].member = loans[k].member
              /\ \A k \in DOMAIN loans \ {l} : loans'[k] = loans[k]
              /\ loans'[l].open = FALSE /\ loans'[l].next = loans[l].next
          BY <3>1, <4>1, GivenBackRows
        <4> QED
          BY <4>2, ChainKept
      <3> QED
        BY <1>1, <2>2, <3>1, CompleteReturnCases
    <2> QED
      BY ZenonT(40), <1>1, <1>4, <2>1, <2>2 DEF TicketStep, CreateTicket, CreateMaintenance, WithdrawTicket,
           ProgressTicket, ResolveTicket, UpdateGeneral, ArchiveTicket
  <1> QED
    BY <1>1, <1>2, <1>3, <1>4 DEF Next, vars

\* A replaced assignment has ended, its successor serves the same member, and no
\* two assignments have the same successor.
THEOREM ReplacementsChain == Spec => []ReplacementChain
  <1>1. Init => ReplacementChain
    BY DEF Init, NoRows, ReplacementChain
  <1>2. TypeOK /\ ReplacementChain /\ [Next]_vars => ReplacementChain'
    BY NextChain
  <1> QED
    BY <1>1, <1>2, TypeCorrect, PTL DEF Spec

-----------------------------------------------------------------------------
(* Holders. *)

\* What explains that unit u shows its holder.
Explained(u) ==
    \E l \in DOMAIN loans :
        /\ loans[l].unit = u /\ loans[l].member = units[u].holder
        /\ \/ loans[l].open
           \/ loans[l].next # Null
           \/ \E t \in DOMAIN tickets : tickets[t].return /\ tickets[t].unit # u

\* A holder stays explained when the assignments of the unit stay, and none of
\* them ends but by a replacement or the return of another unit.
LEMMA StillExplained ==
    ASSUME HoldersAreExplained, NEW u \in DOMAIN units, units[u].holder # Null,
           units'[u].holder = units[u].holder,
           \A l \in DOMAIN loans : loans[l].unit = u =>
              /\ l \in DOMAIN loans' /\ loans'[l].unit = u
              /\ loans'[l].member = loans[l].member
              /\ loans[l].next # Null => loans'[l].next # Null
              /\ loans[l].open => \/ loans'[l].open
                                  \/ loans'[l].next # Null
                                  \/ \E t \in DOMAIN tickets' : tickets'[t].return /\ tickets'[t].unit # u,
           \A t \in DOMAIN tickets : tickets[t].return /\ tickets[t].unit # u =>
              t \in DOMAIN tickets' /\ tickets'[t].return /\ tickets'[t].unit # u
    PROVE  Explained(u)'
  <1>1. PICK l \in DOMAIN loans :
          /\ loans[l].unit = u /\ loans[l].member = units[u].holder
          /\ \/ loans[l].open
             \/ loans[l].next # Null
             \/ \E t \in DOMAIN tickets : tickets[t].return /\ tickets[t].unit # u
    BY DEF HoldersAreExplained
  <1>2. l \in DOMAIN loans' /\ loans'[l].unit = u /\ loans'[l].member = units'[u].holder
    BY <1>1
  <1>3. \/ loans'[l].open
        \/ loans'[l].next # Null
        \/ \E t \in DOMAIN tickets' : tickets'[t].return /\ tickets'[t].unit # u
    BY <1>1
  <1> QED
    BY <1>2, <1>3 DEF Explained

LEMMA AllExplained ==
    ASSUME \A u \in DOMAIN units' : units'[u].holder # Null => Explained(u)'
    PROVE  HoldersAreExplained'
  BY DEF HoldersAreExplained, Explained

LEMMA CreateAssetHolders ==
    ASSUME TypeOK, HoldersAreExplained, NEW a \in Asset,
           NEW new \in SUBSET (Unit \ DOMAIN units), CreateAsset(a, new)
    PROVE  HoldersAreExplained'
  <1> SUFFICES ASSUME NEW u \in DOMAIN units', units'[u].holder # Null
               PROVE  Explained(u)'
    BY AllExplained
  <1>1. u \in DOMAIN units /\ units'[u] = units[u]
    BY DEF CreateAsset
  <1> QED
    BY <1>1, StillExplained DEF CreateAsset

LEMMA UpdateAssetHolders ==
    ASSUME TypeOK, TypeOK', HoldersAreExplained, NEW a \in Asset, NEW status \in EditStatus, NEW gone,
           NEW new \in SUBSET Unit, UpdateAsset(a, status, gone, new)
    PROVE  HoldersAreExplained'
  <1> SUFFICES ASSUME NEW u \in DOMAIN units', units'[u].holder # Null
               PROVE  Explained(u)'
    BY AllExplained
  <1>0. UpdateWrites(a, gone, new)
    BY UpdateAssetRows
  <1>1. u \in DOMAIN units /\ u \notin gone /\ units'[u] = units[u]
    BY <1>0 DEF UpdateWrites
  <1>2. \A l \in DOMAIN loans : loans[l].unit = u =>
          /\ l \in DOMAIN loans' /\ loans'[l].unit = u /\ loans'[l].member = loans[l].member
          /\ loans'[l].next = loans[l].next /\ loans'[l].open = loans[l].open
    BY <1>0, <1>1 DEF UpdateWrites
  <1>3. u # Null
    BY <1>1, TypeParts, NullIsNoKey
  <1>4. \A t \in DOMAIN tickets : tickets[t].return /\ tickets[t].unit # u =>
          t \in DOMAIN tickets' /\ tickets'[t].return /\ tickets'[t].unit # u
    BY <1>0, <1>3 DEF UpdateWrites
  <1> QED
    BY <1>1, <1>2, <1>4, StillExplained

LEMMA IssueAssetsHolders ==
    ASSUME TypeOK, HoldersAreExplained, NEW chosen \in SUBSET Asset, NEW m \in Member,
           NEW id \in [chosen -> Loan \ DOMAIN loans], NEW track \in [chosen -> Unit],
           IssueAssets(chosen, m, id, track)
    PROVE  HoldersAreExplained'
  <1> SUFFICES ASSUME NEW u \in DOMAIN units', units'[u].holder # Null
               PROVE  Explained(u)'
    BY AllExplained
  <1>0. IssueWrites(chosen, m, id, track)
    BY IssueAssetsRows
  <1>1. CASE \E a \in chosen : track[a] = u
    <2>1. PICK a \in chosen : track[a] = u
      BY <1>1
    <2>2. /\ id[a] \in DOMAIN loans' /\ loans'[id[a]].unit = u
          /\ loans'[id[a]].member = units'[u].holder /\ loans'[id[a]].open
      BY <1>0, <2>1 DEF IssueWrites
    <2> QED
      BY <2>2 DEF Explained
  <1>2. CASE ~\E a \in chosen : track[a] = u
    <2>1. u \in DOMAIN units /\ units'[u] = units[u]
      BY <1>0, <1>2 DEF IssueWrites
    <2>2. /\ \A l \in DOMAIN loans : l \in DOMAIN loans' /\ loans'[l] = loans[l]
          /\ tickets' = tickets
      BY <1>0 DEF IssueWrites
    <2> QED
      BY <2>1, <2>2, StillExplained
  <1> QED
    BY <1>1, <1>2

\* A unit that is given back shows no holder.
LEMMA GivenBackHolders ==
    ASSUME TypeOK, HoldersAreExplained, NEW l \in DOMAIN loans, NEW u, NEW status \in AssetStatus,
           GivenBack(l, u, status), TicketsKept,
           \/ u = loans[l].unit
           \/ \E t \in DOMAIN tickets : tickets[t].return /\ tickets[t].unit = u
    PROVE  HoldersAreExplained'
  <1> SUFFICES ASSUME NEW v \in DOMAIN units', units'[v].holder # Null
               PROVE  Explained(v)'
    BY AllExplained
  <1>1. /\ DOMAIN units' = DOMAIN units
        /\ DOMAIN loans' = DOMAIN loans
        /\ \A k \in DOMAIN loans : /\ loans'[k].unit = loans[k].unit
                                   /\ loans'[k].member = loans[k].member
        /\ \A k \in DOMAIN loans \ {l} : loans'[k] = loans[k]
        /\ loans'[l].next = loans[l].next
    BY GivenBackRows
  <1>2. /\ ~(v = u /\ units[v].asset = loans[l].asset)
        /\ units'[v] = units[v]
    <2> DEFINE us == WithUnit(loans[l].asset, u, status, Null)
    <2>1. /\ \A w \in DOMAIN units : ~(w = u /\ units[w].asset = loans[l].asset) => us[w] = units[w]
          /\ u \in DOMAIN units /\ units[u].asset = loans[l].asset =>
               us[u] = [asset |-> loans[l].asset, status |-> status, holder |-> Null]
      BY WithUnitRows
    <2>2. units' = us
      BY DEF GivenBack
    <2> QED
      BY <1>1, <2>1, <2>2
  <1>3. /\ DOMAIN tickets' = DOMAIN tickets
        /\ \A t \in DOMAIN tickets : tickets'[t].return = tickets[t].return /\ tickets'[t].unit = tickets[t].unit
    BY DEF TicketsKept
  <1>4. loans[l].unit = v => \E t \in DOMAIN tickets' : tickets'[t].return /\ tickets'[t].unit # v
    <2> SUFFICES ASSUME loans[l].unit = v
                 PROVE  \E t \in DOMAIN tickets' : tickets'[t].return /\ tickets'[t].unit # v
      OBVIOUS
    <2>1. units[v].asset = loans[l].asset
      BY <1>1, TypeParts, NullIsNoKey DEF TypeOK, KeysOK
    <2>2. u # v
      BY <1>2, <2>1
    <2> QED
      BY <1>3, <2>2
  <1> QED
    BY <1>1, <1>2, <1>3, <1>4, StillExplained

\* A handler that leaves every holder, assignment and ticket's unit in place.
LEMMA HoldersInPlace ==
    ASSUME TypeOK, HoldersAreExplained, loans' = loans,
           DOMAIN units' = DOMAIN units, \A u \in DOMAIN units : units'[u].holder = units[u].holder,
           \A t \in DOMAIN tickets : /\ t \in DOMAIN tickets'
                                     /\ tickets'[t].return = tickets[t].return
                                     /\ tickets'[t].unit = tickets[t].unit
    PROVE  HoldersAreExplained'
  BY StillExplained, AllExplained

\* Most handlers write a unit and keep its holder.
LEMMA SameHolder ==
    ASSUME NEW a, NEW u, NEW status, units' = WithUnit(a, u, status, HolderOf(u))
    PROVE  DOMAIN units' = DOMAIN units /\ \A v \in DOMAIN units : units'[v].holder = units[v].holder
  <1>1. LET us == WithUnit(a, u, status, HolderOf(u))
        IN  /\ DOMAIN us = DOMAIN units
            /\ \A v \in DOMAIN units : ~(v = u /\ units[v].asset = a) => us[v] = units[v]
            /\ u \in DOMAIN units /\ units[u].asset = a =>
                  us[u] = [asset |-> a, status |-> status, holder |-> HolderOf(u)]
    BY WithUnitRows
  <1> QED
    BY <1>1 DEF HolderOf

LEMMA ProvideReplacementHolders ==
    ASSUME TypeOK, HoldersAreExplained, NEW t \in DOMAIN tickets, NEW old \in DOMAIN loans,
           NEW new \in Loan \ DOMAIN loans, NEW u \in DOMAIN units, NEW mode,
           ProvideReplacement(t, old, u, new, mode)
    PROVE  HoldersAreExplained'
  <1> SUFFICES ASSUME NEW v \in DOMAIN units', units'[v].holder # Null
               PROVE  Explained(v)'
    BY AllExplained
  <1>0. ReplacementWrites(t, old, u, new)
    BY ProvideReplacementRows
  <1>1. /\ DOMAIN loans' = DOMAIN loans \cup {new} /\ new # Null
        /\ \A k \in DOMAIN loans \ {old} : loans'[k] = loans[k]
        /\ loans'[new].unit = u /\ loans'[new].member = units'[u].holder /\ loans'[new].open
    BY <1>0, NullIsNoKey DEF ReplacementWrites
  <1>2. /\ loans'[old].unit = loans[old].unit /\ loans'[old].member = loans[old].member
        /\ loans'[old].next = new
    BY <1>0 DEF ReplacementWrites, Closed
  <1>3. CASE v = u
    BY <1>1, <1>3 DEF Explained
  <1>4. CASE v # u
    <2>1. v \in DOMAIN units /\ units'[v] = units[v]
      BY <1>0, <1>4 DEF ReplacementWrites
    <2>2. \A x \in DOMAIN tickets : /\ x \in DOMAIN tickets' /\ tickets'[x].return = tickets[x].return
                                    /\ tickets'[x].unit = tickets[x].unit
      BY <1>0 DEF ReplacementWrites, TicketsKept
    <2> QED
      BY <1>1, <1>2, <2>1, <2>2, StillExplained
  <1> QED
    BY <1>3, <1>4

LEMMA TicketHolders ==
    ASSUME TypeOK, HoldersAreExplained, TicketStep
    PROVE  HoldersAreExplained'
  <1>1. ASSUME NEW t \in Ticket \ DOMAIN tickets, NEW a \in Nullable(Asset),
               NEW u \in Nullable(Unit), NEW m \in Member, NEW return \in BOOLEAN,
               CreateTicket(t, a, u, m, return) \/ CreateMaintenance(t, a, u, m, return)
        PROVE  HoldersAreExplained'
    <2>1. \A x \in DOMAIN tickets : x \in DOMAIN tickets' /\ tickets'[x] = tickets[x]
      BY <1>1, NewTicketRows DEF CreateTicket, CreateMaintenance
    <2>2. /\ loans' = loans /\ DOMAIN units' = DOMAIN units
          /\ \A v \in DOMAIN units : units'[v].holder = units[v].holder
      BY <1>1, SameHolder DEF CreateTicket, CreateMaintenance
    <2> QED
      BY <2>1, <2>2, HoldersInPlace
  <1>2. ASSUME NEW t \in DOMAIN tickets, WithdrawTicket(t) \/ ProgressTicket(t)
        PROVE  HoldersAreExplained'
    <2>1. TicketsKept
      BY <1>2, TicketsAreKept DEF WithdrawTicket, ProgressTicket, TicketStatus
    <2>2. /\ loans' = loans /\ DOMAIN units' = DOMAIN units
          /\ \A v \in DOMAIN units : units'[v].holder = units[v].holder
      BY <1>2, SameHolder DEF WithdrawTicket, ProgressTicket
    <2> QED
      BY <2>1, <2>2, HoldersInPlace DEF TicketsKept
  <1>3. ASSUME NEW t \in DOMAIN tickets, NEW l \in Loan,
               NEW status \in OutcomeStatus("COMPLETED"), CompleteReturn(t, l, status)
        PROVE  HoldersAreExplained'
    <2>1. TicketsKept /\ tickets[t].return
      BY <1>3, TicketsAreKept DEF CompleteReturn, TicketStatus
    <2>2. CASE assets' = assets /\ units' = units /\ loans' = loans
      BY <2>1, <2>2, HoldersInPlace DEF TicketsKept
    <2>3. ASSUME NEW u, l \in DOMAIN loans, GivenBack(l, u, status),
                 u = IF tickets[t].unit # Null THEN tickets[t].unit ELSE loans[l].unit
          PROVE  HoldersAreExplained'
      <3>1. status \in AssetStatus
        BY InputTypes
      <3> QED
        BY <2>1, <2>3, <3>1, GivenBackHolders
    <2> QED
      BY <1>3, <2>2, <2>3, CompleteReturnCases
  <1>4. ASSUME NEW t \in DOMAIN tickets, NEW outcome \in {"COMPLETED", "CANCELLED"},
               NEW status \in OutcomeStatus(outcome), ResolveTicket(t, outcome, status)
        PROVE  HoldersAreExplained'
    <2>1. TicketsKept
      BY <1>4, TicketsAreKept DEF ResolveTicket, TicketStatus
    <2>2. /\ loans' = loans /\ DOMAIN units' = DOMAIN units
          /\ \A v \in DOMAIN units : units'[v].holder = units[v].holder
      BY <1>4, SameHolder DEF ResolveTicket
    <2> QED
      BY <2>1, <2>2, HoldersInPlace DEF TicketsKept
  <1>5. ASSUME NEW t \in DOMAIN tickets, NEW status \in TicketStatus, UpdateGeneral(t, status)
        PROVE  HoldersAreExplained'
    BY <1>5, TicketsAreKept, HoldersInPlace DEF UpdateGeneral, TicketsKept
  <1>6. ASSUME NEW t \in DOMAIN tickets, NEW archived \in BOOLEAN, ArchiveTicket(t, archived)
        PROVE  HoldersAreExplained'
    BY <1>6, ArchiveTicketType, HoldersInPlace DEF ArchiveTicket, TicketsKept
  <1> QED
    BY <1>1, <1>2, <1>3, <1>4, <1>5, <1>6, ProvideReplacementHolders DEF TicketStep

LEMMA NextHolders ==
    ASSUME TypeOK, HoldersAreExplained, [Next]_vars
    PROVE  HoldersAreExplained'
  <1>1. CASE UNCHANGED vars
    BY <1>1, HoldersInPlace DEF vars
  <1>2. CASE RegisterStep
    <2>1. ASSUME NEW a \in Asset, NEW new \in SUBSET (Unit \ DOMAIN units),
                 NEW status \in EditStatus, NEW gone, UpdateAsset(a, status, gone, new)
          PROVE  HoldersAreExplained'
      BY <2>1, UpdateAssetType, UpdateAssetHolders
    <2>2. ASSUME NEW a \in Asset, DeleteAsset(a)
          PROVE  HoldersAreExplained'
      BY <2>2, HoldersInPlace DEF DeleteAsset
    <2> QED
      BY <1>2, <2>1, <2>2, CreateAssetHolders DEF RegisterStep
  <1>3. CASE LoanStep
    <2>1. ASSUME NEW chosen \in SUBSET {a \in Asset : Available(a)}, NEW m \in Member,
                 NEW id \in [chosen -> Loan \ DOMAIN loans], NEW track \in [chosen -> Unit],
                 IssueAssets(chosen, m, id, track)
          PROVE  HoldersAreExplained'
      BY <2>1, IssueAssetsHolders
    <2>2. ASSUME NEW l \in DOMAIN loans, RequestReturn(l)
          PROVE  HoldersAreExplained'
      <3>1. /\ DOMAIN loans' = DOMAIN loans
            /\ \A k \in DOMAIN loans :
                 /\ loans'[k].unit = loans[k].unit /\ loans'[k].member = loans[k].member
                 /\ loans'[k].open = loans[k].open /\ loans'[k].next = loans[k].next
            /\ units' = units /\ tickets' = tickets
        BY <2>2, RequestReturnRows
      <3>2. ASSUME NEW u \in DOMAIN units', units'[u].holder # Null
            PROVE  Explained(u)'
        BY <3>1, <3>2, StillExplained
      <3> QED
        BY <3>2, AllExplained
    <2>3. ASSUME NEW l \in DOMAIN loans, NEW status \in ReturnStatus, ReturnAsset(l, status)
          PROVE  HoldersAreExplained'
      <3>1. GivenBack(l, loans[l].unit, status) /\ tickets' = tickets /\ status \in AssetStatus
        BY <2>3, ReturnAssetGivesBack, InputTypes
      <3>2. TicketsKept
        BY <3>1, TypeParts DEF TicketsKept
      <3> QED
        BY <3>1, <3>2, GivenBackHolders
    <2> QED
      BY <1>3, <2>1, <2>2, <2>3 DEF LoanStep
  <1> QED
    BY <1>1, <1>2, <1>3, TicketHolders DEF Next

\* A unit that shows a holder was given to that member and is still theirs, unless
\* they were given a replacement or asked for the return of another unit.
THEOREM HoldersExplained == Spec => []HoldersAreExplained
  <1>1. Init => HoldersAreExplained
    BY DEF Init, NoRows, HoldersAreExplained
  <1>2. TypeOK /\ HoldersAreExplained /\ [Next]_vars => HoldersAreExplained'
    BY NextHolders
  <1> QED
    BY <1>1, <1>2, TypeCorrect, PTL DEF Spec

-----------------------------------------------------------------------------
(* The assignments implement Custody. *)

\* What Custody sees of an assignment.
Entry(l) == [member |-> loans[l].member, asset |-> loans[l].asset,
             open |-> loans[l].open, next |-> loans[l].next]

LEMMA LedgerEntries ==
    Ledger = [l \in DOMAIN loans |-> Entry(l)]
  BY DEF Ledger, Entry

\* Custody sees nothing of a step that keeps what it sees of every assignment.
LEMMA CustodyStutters ==
    ASSUME DOMAIN loans' = DOMAIN loans,
           \A l \in DOMAIN loans :
              /\ loans'[l].member = loans[l].member /\ loans'[l].asset = loans[l].asset
              /\ loans'[l].open = loans[l].open /\ loans'[l].next = loans[l].next
    PROVE  Ledger' = Ledger
  <1>1. \A l \in DOMAIN loans : Entry(l)' = Entry(l)
    BY DEF Entry
  <1>2. Ledger' = [l \in DOMAIN loans' |-> Entry(l)']
    BY DEF Ledger, Entry
  <1> HIDE DEF Entry
  <1> QED
    BY <1>1, <1>2, LedgerEntries

\* The end of an open assignment is the end of a loan.
LEMMA CustodyCloses ==
    ASSUME TypeOK, NEW l \in DOMAIN loans, loans[l].open, DOMAIN loans' = DOMAIN loans,
           \A k \in DOMAIN loans \ {l} : loans'[k] = loans[k],
           loans'[l].member = loans[l].member, loans'[l].asset = loans[l].asset,
           loans'[l].open = FALSE, loans'[l].next = loans[l].next
    PROVE  C!CustodyNext
  <1>1. Ledger' = [k \in DOMAIN loans' |-> Entry(k)']
    BY DEF Ledger, Entry
  <1>2. \A k \in DOMAIN loans \ {l} : Entry(k)' = Entry(k)
    BY DEF Entry
  <1>3. Entry(l)' = [member |-> loans[l].member, asset |-> loans[l].asset,
                     open |-> FALSE, next |-> loans[l].next]
    BY DEF Entry
  <1>4. DOMAIN Ledger = DOMAIN loans /\ \A k \in DOMAIN loans : Ledger[k] = Entry(k)
    BY LedgerEntries
  <1>5. /\ Ledger[l].open
        /\ C!Ended(l, Ledger[l].next) = [member |-> loans[l].member, asset |-> loans[l].asset,
                                         open |-> FALSE, next |-> loans[l].next]
    BY DEF Ledger, C!Ended
  <1>6. Ledger' = [k \in DOMAIN Ledger |-> IF k = l THEN C!Ended(l, Ledger[l].next) ELSE Ledger[k]]
    <2> HIDE DEF Entry
    <2> QED
      BY <1>1, <1>2, <1>3, <1>4, <1>5
  <1>7. C!Close(l)
    BY <1>4, <1>5, <1>6 DEF C!Close
  <1>8. l \in Loan
    BY TypeParts
  <1> QED
    BY <1>7, <1>8 DEF C!CustodyNext

\* Assets are issued as loans of each of them.
LEMMA CustodyLends ==
    ASSUME TypeOK, NEW chosen \in SUBSET Asset, NEW m \in Member,
           NEW id \in [chosen -> Loan \ DOMAIN loans], NEW track \in [chosen -> Unit],
           IssueAssets(chosen, m, id, track)
    PROVE  C!CustodyNext
  <1> DEFINE new == {id[a] : a \in chosen}
             assetOf == [l \in new |-> loans'[l].asset]
  <1>0. IssueWrites(chosen, m, id, track)
    BY IssueAssetsRows
  <1>1. /\ new # {} /\ new \cap DOMAIN loans = {} /\ new \in SUBSET Loan
        /\ DOMAIN loans' = DOMAIN loans \cup new
    BY <1>0 DEF IssueWrites, IssueAssets
  <1>2. /\ \A l \in DOMAIN loans : loans'[l] = loans[l]
        /\ \A l \in new : /\ loans'[l].asset \in Asset /\ loans'[l].member = m
                          /\ loans'[l].open = TRUE /\ loans'[l].next = Null
    BY <1>0 DEF IssueWrites
  <1> HIDE DEF new
  <1>3. assetOf \in [new -> Asset]
    BY <1>2
  <1>4. Ledger' = [l \in DOMAIN loans' |-> Entry(l)']
    BY DEF Ledger, Entry
  <1>5. /\ \A l \in DOMAIN loans : Entry(l)' = Entry(l)
        /\ \A l \in new : Entry(l)' = C!NewLoan(m, assetOf[l])
    BY <1>2 DEF Entry, C!NewLoan
  <1>6. Ledger' = [l \in DOMAIN Ledger \cup new |->
                     IF l \in new THEN C!NewLoan(m, assetOf[l]) ELSE Ledger[l]]
    <2> HIDE DEF assetOf, Entry
    <2>1. \A l \in DOMAIN loans' :
            Entry(l)' = IF l \in new THEN C!NewLoan(m, assetOf[l]) ELSE Ledger[l]
      BY <1>1, <1>5, LedgerEntries
    <2>2. DOMAIN loans' = DOMAIN Ledger \cup new
      BY <1>1, LedgerEntries
    <2> QED
      BY <1>4, <2>1, <2>2
  <1>7. new \cap DOMAIN Ledger = {}
    BY <1>1, LedgerEntries
  <1>8. C!Lend(new, m, assetOf)
    BY <1>1, <1>6, <1>7 DEF C!Lend
  <1> QED
    BY <1>1, <1>3, <1>8 DEF C!CustodyNext

\* A replacement ends a loan and makes the next, for the same member.
LEMMA CustodySwaps ==
    ASSUME TypeOK, NEW t \in DOMAIN tickets, NEW old \in DOMAIN loans,
           NEW new \in Loan \ DOMAIN loans, NEW u \in DOMAIN units, NEW mode,
           ProvideReplacement(t, old, u, new, mode)
    PROVE  C!CustodyNext
  <1> DEFINE a == units[u].asset
  <1>0. ReplacementWrites(t, old, u, new)
    BY ProvideReplacementRows
  <1>1. /\ loans[old].open /\ loans[old].member = tickets[t].by
        /\ DOMAIN loans' = DOMAIN loans \cup {new}
        /\ \A k \in DOMAIN loans \ {old} : loans'[k] = loans[k]
    BY <1>0 DEF ReplacementWrites
  <1>2. Entry(old)' = C!Ended(old, new)
    <2>1. Entry(old)' = [member |-> loans[old].member, asset |-> loans[old].asset,
                         open |-> FALSE, next |-> new]
      BY <1>0 DEF ReplacementWrites, Entry, Closed
    <2> QED
      BY <2>1 DEF Ledger, C!Ended
  <1>3. Entry(new)' = C!NewLoan(loans[old].member, a)
    BY <1>0 DEF ReplacementWrites, Entry, C!NewLoan
  <1>4. \A k \in DOMAIN loans \ {old} : Entry(k)' = Entry(k)
    BY <1>1 DEF Entry
  <1>5. Ledger' = [l \in DOMAIN loans' |-> Entry(l)']
    BY DEF Ledger, Entry
  <1>6. /\ DOMAIN Ledger = DOMAIN loans /\ \A k \in DOMAIN loans : Ledger[k] = Entry(k)
        /\ Ledger[old].member = loans[old].member /\ Ledger[old].open = loans[old].open
    BY LedgerEntries DEF Entry
  <1>7. Ledger' = [l \in DOMAIN Ledger \cup {new} |->
          IF l = new THEN C!NewLoan(Ledger[old].member, a)
          ELSE IF l = old THEN C!Ended(old, new) ELSE Ledger[l]]
    <2> HIDE DEF a, Entry
    <2>1. \A l \in DOMAIN loans' :
            Entry(l)' = IF l = new THEN C!NewLoan(Ledger[old].member, a)
                        ELSE IF l = old THEN C!Ended(old, new) ELSE Ledger[l]
      BY <1>1, <1>2, <1>3, <1>4, <1>6
    <2>2. DOMAIN loans' = DOMAIN Ledger \cup {new}
      BY <1>1, <1>6
    <2> QED
      BY <1>5, <2>1, <2>2
  <1>8. C!Swap(old, new, a)
    BY <1>1, <1>6, <1>7 DEF C!Swap
  <1>9. old \in Loan /\ a \in Asset
    BY TypeParts
  <1> QED
    BY <1>8, <1>9 DEF C!CustodyNext

LEMMA CustodySteps ==
    ASSUME TypeOK, [Next]_vars
    PROVE  [C!CustodyNext]_Ledger
  <1>1. CASE loans' = loans
    BY <1>1 DEF Ledger
  <1>2. CASE RegisterStep
    <2>1. ASSUME NEW a \in Asset, NEW new \in SUBSET (Unit \ DOMAIN units),
                 NEW status \in EditStatus, NEW gone, UpdateAsset(a, status, gone, new)
          PROVE  Ledger' = Ledger
      <3>1. UpdateWrites(a, gone, new)
        BY <2>1, UpdateAssetRows
      <3> QED
        BY <3>1, CustodyStutters DEF UpdateWrites
    <2> QED
      BY <1>1, <1>2, <2>1 DEF RegisterStep, CreateAsset, DeleteAsset
  <1>3. CASE LoanStep
    <2>1. ASSUME NEW chosen \in SUBSET {a \in Asset : Available(a)}, NEW m \in Member,
                 NEW id \in [chosen -> Loan \ DOMAIN loans], NEW track \in [chosen -> Unit],
                 IssueAssets(chosen, m, id, track)
          PROVE  C!CustodyNext
      BY <2>1, CustodyLends
    <2>2. ASSUME NEW l \in DOMAIN loans, RequestReturn(l)
          PROVE  Ledger' = Ledger
      BY <2>2, RequestReturnRows, CustodyStutters
    <2>3. ASSUME NEW l \in DOMAIN loans, NEW status \in ReturnStatus, ReturnAsset(l, status)
          PROVE  C!CustodyNext
      <3>1. GivenBack(l, loans[l].unit, status) /\ status \in AssetStatus /\ loans[l].open
        BY <2>3, ReturnAssetGivesBack, InputTypes DEF ReturnAsset
      <3> QED
        BY <3>1, GivenBackRows, CustodyCloses
    <2> QED
      BY <1>3, <2>1, <2>2, <2>3 DEF LoanStep
  <1>4. CASE TicketStep
    <2>1. ASSUME NEW t \in DOMAIN tickets, NEW old \in DOMAIN loans,
                 NEW new \in Loan \ DOMAIN loans, NEW u \in DOMAIN units,
                 NEW mode \in ReplacementModes, ProvideReplacement(t, old, u, new, mode)
          PROVE  C!CustodyNext
      BY <2>1, CustodySwaps
    <2>2. ASSUME NEW t \in DOMAIN tickets, NEW l \in Loan,
                 NEW status \in OutcomeStatus("COMPLETED"), CompleteReturn(t, l, status)
          PROVE  [C!CustodyNext]_Ledger
      <3>1. status \in AssetStatus
        BY InputTypes
      <3>2. ASSUME NEW u, l \in DOMAIN loans, loans[l].open, GivenBack(l, u, status)
            PROVE  C!CustodyNext
        BY <3>1, <3>2, GivenBackRows, CustodyCloses
      <3> QED
        BY <1>1, <2>2, <3>2, CompleteReturnCases
    <2> QED
      BY ZenonT(40), <1>1, <1>4, <2>1, <2>2 DEF TicketStep, CreateTicket, CreateMaintenance, WithdrawTicket,
           ProgressTicket, ResolveTicket, UpdateGeneral, ArchiveTicket
  <1> QED
    BY <1>1, <1>2, <1>3, <1>4 DEF Next, vars

\* Whatever the register, the units and the tickets do, the assignments are a
\* ledger of loans: each ends once, and a replacement ends one and makes the next
\* in one step, for the same member.
THEOREM CustodyImplemented == Spec => CustodyKept
  <1>1. Init => C!CustodyInit
    BY DEF Init, NoRows, Ledger, C!CustodyInit
  <1>2. TypeOK /\ [Next]_vars => [C!CustodyNext]_Ledger
    BY CustodySteps
  <1> QED
    BY <1>1, <1>2, TypeCorrect, PTL DEF Spec, CustodyKept, C!CustodySpec

-----------------------------------------------------------------------------
(* What is held stays off the shelf. *)

\* A unit in use keeps its asset from being derived as available.
Busy(us, a, v) ==
    /\ v \in DOMAIN us /\ us[v].asset = a
    /\ us[v].status \notin {"AVAILABLE", "RETIRED", "DISPOSED"}

LEMMA BusyAsset ==
    ASSUME NEW us, NEW a, NEW v, NEW other, Busy(us, a, v),
           \A u \in DOMAIN us : us[u].status \in AssetStatus
    PROVE  StatusFrom(us, a, other) # "AVAILABLE"
  <1> DEFINE S == {us[u].status : u \in UnitsOf(us, a)}
  <1>1. v \in UnitsOf(us, a)
    BY DEF Busy, UnitsOf
  <1>2. S \in SUBSET AssetStatus /\ us[v].status \in S
    BY <1>1 DEF UnitsOf
  <1>3. StatusFrom(us, a, other) = Derived(S)
    BY <1>1 DEF StatusFrom
  <1> HIDE DEF S
  <1>4. Derived(S) # "AVAILABLE"
    BY <1>2, DerivedStatus DEF Busy
  <1> QED
    BY <1>3, <1>4

LEMMA UnitStatuses ==
    ASSUME TypeOK, NEW a, NEW u, NEW status \in AssetStatus, NEW holder \in Nullable(Member)
    PROVE  LET us == WithUnit(a, u, status, holder)
           IN  \A v \in DOMAIN us : us[v].status \in AssetStatus
  BY WithUnitType DEF UnitRow

\* Before an accident every open assignment has a busy unit of its own.
LEMMA HeldAreBusy ==
    ASSUME TypeOK, NEW a \in DOMAIN assets, ~Exposed(a), ~Spoilt(a)
    PROVE  /\ \A l \in OpenLoans(a) :
                /\ loans[l].unit # Null /\ Busy(units, a, loans[l].unit)
                /\ \A k \in OpenLoans(a) \ {l} : loans[k].unit # loans[l].unit
           /\ OpenLoans(a) # {} => ~Available(a)
  <1>1. \A l \in OpenLoans(a) :
          /\ loans[l].unit \in DOMAIN units \cup {Null}
          /\ loans[l].unit # Null => units[loans[l].unit].asset = a
    BY DEF OpenLoans, TypeOK, KeysOK
  <1> QED
    BY <1>1 DEF Exposed, Spoilt, Busy

\* What it takes for asset a to stay off the shelf in a step.
OffTheShelf(a) ==
    /\ OpenLoans(a) # {} => ~Available(a)
    /\ \A l \in OpenLoans(a) : loans[l].unit # Null => units[loans[l].unit].status # "AVAILABLE"

LEMMA OffIsNotExposed == ASSUME NEW a, OffTheShelf(a)' PROVE ~Exposed(a)'
  BY DEF OffTheShelf, Exposed

\* A step about other assets.
LEMMA ElsewhereOff ==
    ASSUME TypeOK, NEW a \in DOMAIN assets, ~Exposed(a),
           a \in DOMAIN assets', assets'[a] = assets[a],
           \A l \in OpenLoans(a)' : l \in OpenLoans(a) /\ loans'[l].unit = loans[l].unit,
           \A u \in DOMAIN units : units[u].asset = a => units'[u] = units[u]
    PROVE  OffTheShelf(a)'
  <1>1. \A l \in OpenLoans(a) : loans[l].unit # Null =>
          loans[l].unit \in DOMAIN units /\ units[loans[l].unit].asset = a
    BY DEF OpenLoans, TypeOK, KeysOK
  <1>2. OpenLoans(a) # {} => ~Available(a)
    BY DEF Exposed
  <1>3. \A l \in OpenLoans(a) : loans[l].unit # Null => units[loans[l].unit].status # "AVAILABLE"
    BY DEF Exposed
  <1>4. Available(a)' <=> Available(a)
    BY DEF Available, Registered
  <1> QED
    BY <1>1, <1>2, <1>3, <1>4 DEF OffTheShelf

LEMMA UpdateAssetOff ==
    ASSUME TypeOK, NEW a \in DOMAIN assets, ~Exposed(a), ~Spoilt(a), NEW b \in Asset,
           NEW status \in EditStatus, NEW gone \in SUBSET UnitsOf(units, b), NEW new \in SUBSET Unit,
           UpdateAsset(b, status, gone, new)
    PROVE  OffTheShelf(a)'
  <1>0. UpdateWrites(b, gone, new)
    BY UpdateAssetRows
  <1>1. OpenLoans(a)' = OpenLoans(a)
    BY <1>0 DEF UpdateWrites, OpenLoans
  <1>2. \A l \in OpenLoans(a) : loans'[l].unit # Null =>
          /\ loans'[l].unit = loans[l].unit
          /\ units'[loans[l].unit] = units[loans[l].unit]
    BY <1>0 DEF UpdateWrites, OpenLoans, TypeOK, KeysOK
  <1>3. OpenLoans(a) # {} => ~Available(a)'
    <2>1. CASE a = b
      <3>1. b \in DOMAIN assets /\ status \in AssetStatus /\ assets' = SetStatus(b, status)
        BY InputTypes DEF UpdateAsset, Registered
      <3>2. assets'[b].status = status
        BY <3>1, SetStatusType
      <3>3. OpenLoans(a) # {} => status = "ASSIGNED"
        BY <2>1 DEF UpdateAsset, StatusAllowed
      <3> QED
        BY <2>1, <3>2, <3>3 DEF Available
    <2>2. CASE a # b
      <3>1. assets'[a] = assets[a] /\ a \in DOMAIN assets'
        BY <2>2 DEF UpdateAsset, SetStatus, Put
      <3>2. OpenLoans(a) # {} => ~Available(a)
        BY HeldAreBusy
      <3> QED
        BY <3>1, <3>2 DEF Available, Registered
    <2> QED
      BY <2>1, <2>2
  <1>4. \A l \in OpenLoans(a) : units[loans[l].unit].status # "AVAILABLE"
    BY HeldAreBusy DEF Busy
  <1> QED
    BY <1>1, <1>2, <1>3, <1>4 DEF OffTheShelf

LEMMA IssueAssetsOff ==
    ASSUME TypeOK, NEW a \in DOMAIN assets, ~Exposed(a), ~Spoilt(a),
           NEW chosen \in SUBSET Asset, NEW m \in Member,
           NEW id \in [chosen -> Loan \ DOMAIN loans], NEW track \in [chosen -> Unit],
           IssueAssets(chosen, m, id, track)
    PROVE  OffTheShelf(a)'
  <1>0. IssueWrites(chosen, m, id, track)
    BY IssueAssetsRows
  <1>1. CASE a \in chosen
    <2>1. OpenLoans(a) = {}
      BY <1>1, HeldAreBusy DEF IssueAssets
    <2>2. assets'[a].status = "ASSIGNED"
      BY <1>0, <1>1 DEF IssueWrites
    <2>3. \A l \in OpenLoans(a)' : l = id[a]
      BY <1>0, <2>1 DEF IssueWrites, OpenLoans
    <2>4. loans'[id[a]].unit = track[a] /\ units'[track[a]].status = "ASSIGNED"
      BY <1>0, <1>1 DEF IssueWrites
    <2> QED
      BY <2>2, <2>3, <2>4 DEF OffTheShelf, Available
  <1>2. CASE a \notin chosen
    <2>1. a \in DOMAIN assets' /\ assets'[a] = assets[a]
      BY <1>0, <1>2 DEF IssueWrites
    <2>2. \A l \in OpenLoans(a)' : l \in OpenLoans(a) /\ loans'[l].unit = loans[l].unit
      BY <1>0, <1>2 DEF IssueWrites, OpenLoans
    <2>3. \A u \in DOMAIN units : units[u].asset = a => units'[u] = units[u]
      BY <1>0, <1>2 DEF IssueWrites
    <2> QED
      BY <2>1, <2>2, <2>3, ElsewhereOff
  <1> QED
    BY <1>1, <1>2

LEMMA ReturnAssetOff ==
    ASSUME TypeOK, NEW a \in DOMAIN assets, ~Exposed(a), ~Spoilt(a),
           NEW l \in DOMAIN loans, NEW status \in ReturnStatus, ReturnAsset(l, status)
    PROVE  OffTheShelf(a)'
  <1> DEFINE b == loans[l].asset
             u == loans[l].unit
             us == WithUnit(b, u, status, Null)
  <1>1. GivenBack(l, u, status) /\ status \in AssetStatus /\ loans[l].open
    BY ReturnAssetGivesBack, InputTypes DEF ReturnAsset
  <1>2. /\ DOMAIN assets' = DOMAIN assets /\ DOMAIN units' = DOMAIN units
        /\ DOMAIN loans' = DOMAIN loans
        /\ \A k \in DOMAIN loans \ {l} : loans'[k] = loans[k]
        /\ loans'[l].open = FALSE
    BY <1>1, GivenBackRows
  <1>3. \A k \in OpenLoans(a)' : k # l /\ k \in OpenLoans(a) /\ loans'[k].unit = loans[k].unit
    BY <1>2 DEF OpenLoans
  <1>4. /\ units' = us
        /\ \A v \in DOMAIN units : ~(v = u /\ units[v].asset = b) => us[v] = units[v]
    <2>1. units' = us
      BY <1>1 DEF GivenBack
    <2>2. /\ \A v \in DOMAIN units : ~(v = u /\ units[v].asset = b) => us[v] = units[v]
          /\ u \in DOMAIN units /\ units[u].asset = b =>
               us[u] = [asset |-> b, status |-> status, holder |-> Null]
      BY WithUnitRows
    <2> QED
      BY <2>1, <2>2
  <1>5. assets' = SetStatus(b, IF u = Null THEN status ELSE StatusFrom(us, b, status))
    BY <1>1 DEF GivenBack
  <1>6. CASE a # b
    <2>1. assets'[a] = assets[a]
      BY <1>5, <1>6 DEF SetStatus, Put
    <2>2. \A v \in DOMAIN units : units[v].asset = a => units'[v] = units[v]
      BY <1>4, <1>6
    <2> QED
      BY <1>2, <1>3, <2>1, <2>2, ElsewhereOff
  <1>7. CASE a = b
    <2>1. /\ l \in OpenLoans(a) /\ u # Null
          /\ \A k \in OpenLoans(a) : loans[k].unit # Null /\ Busy(units, a, loans[k].unit)
          /\ \A k \in OpenLoans(a) \ {l} : loans[k].unit # u
      BY <1>1, <1>7, HeldAreBusy DEF OpenLoans
    <2>2. \A k \in OpenLoans(a)' : Busy(us, a, loans[k].unit)
      BY <1>2, <1>3, <1>4, <2>1 DEF Busy
    <2>3. \A v \in DOMAIN us : us[v].status \in AssetStatus
      BY <1>1, UnitStatuses DEF Nullable
    <2>4. assets'[a].status = StatusFrom(us, a, status)
      BY <1>5, <1>7, <2>1 DEF SetStatus, Put
    <2> HIDE DEF us
    <2>5. OpenLoans(a)' # {} => assets'[a].status # "AVAILABLE"
      BY <2>2, <2>3, <2>4, BusyAsset
    <2> QED
      BY <1>3, <1>4, <2>2, <2>5 DEF OffTheShelf, Available, Busy
  <1> QED
    BY <1>6, <1>7

\* A step that writes one unit, of the asset that is shown, so that neither looks
\* available while an assignment is open.
LEMMA WrittenOff ==
    ASSUME TypeOK, NEW a \in DOMAIN assets, ~Exposed(a), ~Spoilt(a), loans' = loans,
           NEW b \in DOMAIN assets, NEW u, NEW status \in AssetStatus,
           NEW holder \in Nullable(Member), NEW shown \in AssetStatus,
           units' = WithUnit(b, u, status, holder), assets' = SetStatus(b, shown),
           a = b /\ OpenLoans(a) # {} => shown # "AVAILABLE" /\ status # "AVAILABLE"
    PROVE  OffTheShelf(a)'
  <1> DEFINE us == WithUnit(b, u, status, holder)
  <1>1. /\ \A v \in DOMAIN units : ~(v = u /\ units[v].asset = b) => us[v] = units[v]
        /\ u \in DOMAIN units /\ units[u].asset = b =>
             us[u] = [asset |-> b, status |-> status, holder |-> holder]
    BY WithUnitRows
  <1>2. OpenLoans(a)' = OpenLoans(a)
    BY DEF OpenLoans
  <1>3. /\ assets'[b].status = shown /\ DOMAIN assets' = DOMAIN assets
        /\ \A x \in DOMAIN assets : x # b => assets'[x] = assets[x]
    BY SetStatusType
  <1>4. CASE a # b
    <2>1. \A v \in DOMAIN units : units[v].asset = a => units'[v] = units[v]
      BY <1>1, <1>4
    <2> QED
      BY <1>2, <1>3, <1>4, <2>1, ElsewhereOff
  <1>5. CASE a = b
    <2>1. \A l \in OpenLoans(a) : Busy(units, a, loans[l].unit)
      BY HeldAreBusy
    <2>2. \A l \in OpenLoans(a) : us[loans[l].unit].status # "AVAILABLE"
      BY <1>1, <1>5, <2>1 DEF Busy
    <2>3. OpenLoans(a) # {} => ~Available(a)'
      BY <1>3, <1>5 DEF Available
    <2> QED
      BY <1>2, <2>2, <2>3 DEF OffTheShelf
  <1> QED
    BY <1>4, <1>5

LEMMA CreateMaintenanceOff ==
    ASSUME TypeOK, NEW a \in DOMAIN assets, ~Exposed(a), ~Spoilt(a),
           NEW t \in Ticket \ DOMAIN tickets, NEW b \in Nullable(Asset),
           NEW u \in Nullable(Unit), NEW m \in Member, NEW return \in BOOLEAN,
           CreateMaintenance(t, b, u, m, return)
    PROVE  OffTheShelf(a)'
  <1>1. /\ b \in DOMAIN assets /\ loans' = loans
        /\ units' = WithUnit(b, u, "IN_MAINTENANCE", HolderOf(u))
        /\ assets' = SetStatus(b, "IN_MAINTENANCE")
    BY DEF CreateMaintenance, Registered
  <1>2. "IN_MAINTENANCE" \in AssetStatus /\ HolderOf(u) \in Nullable(Member)
    BY HolderType DEF AssetStatus
  <1> QED
    BY <1>1, <1>2, WrittenOff

\* What is shown of an asset with open assignments, whichever unit is written.
LEMMA ShownIsOff ==
    ASSUME TypeOK, NEW a \in DOMAIN assets, ~Exposed(a), ~Spoilt(a), OpenLoans(a) # {},
           NEW u, NEW status \in AssetStatus \ {"AVAILABLE", "RETIRED", "DISPOSED"},
           NEW holder \in Nullable(Member), NEW other
    PROVE  StatusFrom(WithUnit(a, u, status, holder), a, other) # "AVAILABLE"
  <1> DEFINE us == WithUnit(a, u, status, holder)
  <1>1. PICK l \in OpenLoans(a) : Busy(units, a, loans[l].unit)
    BY HeldAreBusy
  <1> DEFINE v == loans[l].unit
  <1>2. /\ DOMAIN us = DOMAIN units
        /\ \A w \in DOMAIN units : ~(w = u /\ units[w].asset = a) => us[w] = units[w]
        /\ u \in DOMAIN units /\ units[u].asset = a =>
             us[u] = [asset |-> a, status |-> status, holder |-> holder]
    BY WithUnitRows
  <1>3. Busy(us, a, v)
    <2> HIDE DEF us
    <2> QED
      BY <1>1, <1>2 DEF Busy
  <1>4. \A w \in DOMAIN us : us[w].status \in AssetStatus
    BY UnitStatuses
  <1> HIDE DEF us, v
  <1>5. StatusFrom(us, a, other) # "AVAILABLE"
    BY <1>3, <1>4, BusyAsset
  <1> QED
    BY <1>5 DEF us

LEMMA WithdrawTicketOff ==
    ASSUME TypeOK, NEW a \in DOMAIN assets, ~Exposed(a), ~Spoilt(a),
           NEW t \in DOMAIN tickets, WithdrawTicket(t)
    PROVE  OffTheShelf(a)'
  <1> DEFINE b == tickets[t].asset
             u == tickets[t].unit
             resumed == IF OpenLoans(b) # {} THEN "ASSIGNED" ELSE "AVAILABLE"
             us == WithUnit(b, u, resumed, HolderOf(u))
  <1>1. loans' = loans
    BY DEF WithdrawTicket
  <1>2. CASE b = Null \/ OtherActive(t)
    BY <1>1, <1>2, ElsewhereOff DEF WithdrawTicket, OpenLoans
  <1>3. CASE ~(b = Null \/ OtherActive(t))
    <2>1. b \in DOMAIN assets
      BY <1>3 DEF TypeOK, KeysOK, Nullable
    <2>2. resumed \in AssetStatus /\ HolderOf(u) \in Nullable(Member)
      BY HolderType DEF AssetStatus
    <2>3. /\ units' = us
          /\ assets' = SetStatus(b, IF u = Null THEN resumed ELSE StatusFrom(us, b, resumed))
      BY <1>3 DEF WithdrawTicket
    <2>4. StatusFrom(us, b, resumed) \in AssetStatus
      <3> HIDE DEF b, u, resumed
      <3> QED
        BY <2>2, ShownType
    <2>5. a = b /\ OpenLoans(a) # {} =>
            resumed # "AVAILABLE" /\ StatusFrom(us, b, resumed) # "AVAILABLE"
      <3> SUFFICES ASSUME a = b, OpenLoans(a) # {}
                   PROVE  resumed # "AVAILABLE" /\ StatusFrom(us, b, resumed) # "AVAILABLE"
        OBVIOUS
      <3>1. resumed = "ASSIGNED" /\ "ASSIGNED" \in AssetStatus
        BY DEF AssetStatus
      <3> HIDE DEF b, u, resumed
      <3> QED
        BY <2>2, <3>1, ShownIsOff
    <2> HIDE DEF b, u, resumed
    <2>6. PICK shown \in AssetStatus :
            /\ assets' = SetStatus(b, shown)
            /\ a = b /\ OpenLoans(a) # {} => shown # "AVAILABLE"
      BY <2>2, <2>3, <2>4, <2>5
    <2> QED
      BY <1>1, <2>1, <2>2, <2>3, <2>5, <2>6, WrittenOff
  <1> QED
    BY <1>2, <1>3

LEMMA ProgressTicketOff ==
    ASSUME TypeOK, NEW a \in DOMAIN assets, ~Exposed(a), ~Spoilt(a),
           NEW t \in DOMAIN tickets, ProgressTicket(t)
    PROVE  OffTheShelf(a)'
  <1> DEFINE b == tickets[t].asset
             shown == StatusFrom(units, b, "IN_MAINTENANCE")
  <1>1. b \in DOMAIN assets /\ units' = units /\ loans' = loans /\ assets' = SetStatus(b, shown)
    BY DEF ProgressTicket, Registered
  <1>2. \A u \in DOMAIN units : units[u].status \in AssetStatus
    BY TypeParts DEF UnitRow
  <1>3. OpenLoans(a)' = OpenLoans(a)
    BY <1>1 DEF OpenLoans
  <1>4. CASE a # b
    <2>1. a \in DOMAIN assets' /\ assets'[a] = assets[a]
      BY <1>1, <1>4 DEF SetStatus, Put
    <2> QED
      BY <1>1, <1>3, <2>1, ElsewhereOff
  <1>5. CASE a = b
    <2>1. assets'[a].status = shown
      BY <1>1, <1>5 DEF SetStatus, Put
    <2>2. \A l \in OpenLoans(a) : Busy(units, a, loans[l].unit)
      BY HeldAreBusy
    <2>3. OpenLoans(a) # {} => StatusFrom(units, a, "IN_MAINTENANCE") # "AVAILABLE"
      BY <1>2, <2>2, BusyAsset
    <2> QED
      BY <1>1, <1>3, <1>5, <2>1, <2>2, <2>3 DEF OffTheShelf, Available, Busy
  <1> QED
    BY <1>4, <1>5

\* After a replacement neither the asset that is replaced nor the one that is
\* given shows as available: one has a unit in maintenance, the other one assigned.
LEMMA ReplacementShown ==
    ASSUME TypeOK, NEW t \in DOMAIN tickets, NEW old \in DOMAIN loans,
           NEW new \in Loan \ DOMAIN loans, NEW u \in DOMAIN units, NEW mode,
           ProvideReplacement(t, old, u, new, mode)
    PROVE  \A x \in DOMAIN assets :
              IF x \in {tickets[t].asset, units[u].asset} THEN assets'[x].status # "AVAILABLE"
              ELSE assets'[x] = assets[x]
  <1> DEFINE a == tickets[t].asset
             m == tickets[t].by
             source == tickets[t].unit
             b == units[u].asset
             freed == WithUnit(a, source, "IN_MAINTENANCE", Null)
             given == Put(freed, u, [asset |-> b, status |-> "ASSIGNED", holder |-> m])
             shown == IF source \in UnitsOf(units, a)
                      THEN StatusFrom(freed, a, "AVAILABLE") ELSE "IN_MAINTENANCE"
  <1>1. /\ a \in DOMAIN assets /\ b \in DOMAIN assets
        /\ assets' = [SetStatus(a, shown) EXCEPT ![b].status = StatusFrom(given, b, "AVAILABLE")]
    BY TypeParts DEF ProvideReplacement, OpenLoans
  <1>2. "IN_MAINTENANCE" \in AssetStatus /\ Null \in Nullable(Member)
    BY DEF AssetStatus, Nullable
  <1>3. shown \in AssetStatus /\ shown # "AVAILABLE"
    <2>1. CASE source \in UnitsOf(units, a)
      <3>1. source \in DOMAIN units /\ units[source].asset = a
        BY <2>1 DEF UnitsOf
      <3>2. /\ DOMAIN freed = DOMAIN units
            /\ source \in DOMAIN units /\ units[source].asset = a =>
                 freed[source] = [asset |-> a, status |-> "IN_MAINTENANCE", holder |-> Null]
        BY WithUnitRows
      <3>3. Busy(freed, a, source)
        <4> HIDE DEF freed, a, source
        <4> QED
          BY <3>1, <3>2 DEF Busy
      <3>4. \A v \in DOMAIN freed : freed[v].status \in AssetStatus
        BY <1>2, UnitStatuses
      <3>5. "AVAILABLE" \in AssetStatus
        BY DEF AssetStatus
      <3> HIDE DEF freed, a, source
      <3>6. StatusFrom(freed, a, "AVAILABLE") # "AVAILABLE"
        BY <3>3, <3>4, BusyAsset
      <3>7. StatusFrom(freed, a, "AVAILABLE") \in AssetStatus
        BY <3>4, <3>5, StatusFromType
      <3> QED
        BY <2>1, <3>6, <3>7
    <2>2. CASE source \notin UnitsOf(units, a)
      BY <1>2, <2>2
    <2> QED
      BY <2>1, <2>2
  <1>4. StatusFrom(given, b, "AVAILABLE") # "AVAILABLE"
    <2>1. ReplacementWrites(t, old, u, new) /\ units' = given
      BY ProvideReplacementRows DEF ProvideReplacement
    <2>2. /\ DOMAIN units' = DOMAIN units /\ units'[u].asset = b /\ units'[u].status = "ASSIGNED"
          /\ \A v \in DOMAIN units : units'[v].status \in AssetStatus
      BY <2>1 DEF ReplacementWrites, UnitRow
    <2> HIDE DEF given, b
    <2>3. Busy(given, b, u) /\ \A v \in DOMAIN given : given[v].status \in AssetStatus
      BY <2>1, <2>2 DEF Busy
    <2> QED
      BY <2>3, BusyAsset
  <1>5. /\ DOMAIN SetStatus(a, shown) = DOMAIN assets
        /\ \A x \in DOMAIN assets : SetStatus(a, shown)[x] \in AssetRow
        /\ SetStatus(a, shown)[a].status = shown
        /\ \A x \in DOMAIN assets : x # a => SetStatus(a, shown)[x] = assets[x]
    <2> HIDE DEF a, shown
    <2> QED
      BY <1>1, <1>3, SetStatusType
  <1> HIDE DEF given, b, shown, a
  <1>6. /\ assets'[b].status = StatusFrom(given, b, "AVAILABLE")
        /\ \A x \in DOMAIN assets : x # b => assets'[x] = SetStatus(a, shown)[x]
    BY <1>1, <1>5 DEF AssetRow
  <1> QED
    BY <1>3, <1>4, <1>5, <1>6 DEF a, b

LEMMA ProvideReplacementOff ==
    ASSUME TypeOK, NEW a \in DOMAIN assets, ~Exposed(a), ~Spoilt(a),
           NEW t \in DOMAIN tickets, NEW old \in DOMAIN loans,
           NEW new \in Loan \ DOMAIN loans, NEW u \in DOMAIN units, NEW mode,
           ProvideReplacement(t, old, u, new, mode)
    PROVE  OffTheShelf(a)'
  <1>0. ReplacementWrites(t, old, u, new)
    BY ProvideReplacementRows
  <1>1. /\ DOMAIN loans' = DOMAIN loans \cup {new}
        /\ \A k \in DOMAIN loans \ {old} : loans'[k] = loans[k]
        /\ loans'[old].open = FALSE
        /\ loans'[new].unit = u /\ loans'[new].asset = units[u].asset
        /\ units'[u].status = "ASSIGNED"
    BY <1>0 DEF ReplacementWrites, Closed
  <1>2. \A v \in DOMAIN units : units'[v] = units[v] \/ units'[v].status # "AVAILABLE"
    BY <1>0 DEF ReplacementWrites
  <1>3. \A l \in OpenLoans(a)' : l = new \/ (l \in OpenLoans(a) /\ loans'[l].unit = loans[l].unit)
    BY <1>1 DEF OpenLoans
  <1>4. /\ \A l \in OpenLoans(a) : Busy(units, a, loans[l].unit)
        /\ OpenLoans(a) # {} => ~Available(a)
    BY HeldAreBusy
  <1>5. \A l \in OpenLoans(a)' : units'[loans'[l].unit].status # "AVAILABLE"
    BY <1>1, <1>2, <1>3, <1>4 DEF Busy
  <1>6. OpenLoans(a)' # {} => ~Available(a)'
    <2>1. CASE a \in {tickets[t].asset, units[u].asset}
      BY <2>1, ReplacementShown DEF Available
    <2>2. CASE a \notin {tickets[t].asset, units[u].asset}
      <3>1. assets'[a] = assets[a]
        BY <2>2, ReplacementShown
      <3>2. new \notin OpenLoans(a)'
        BY <1>1, <2>2 DEF OpenLoans
      <3> QED
        BY <1>3, <1>4, <3>1, <3>2 DEF Available, Registered
    <2> QED
      BY <2>1, <2>2
  <1> QED
    BY <1>5, <1>6 DEF OffTheShelf

\* The excuse: the step resolves a ticket.
Resolves ==
    \E t \in Ticket, outcome \in {"COMPLETED", "CANCELLED"} :
        \E status \in OutcomeStatus(outcome) :
            \/ ResolveTicket(t, outcome, status)
            \/ \E l \in Loan : CompleteReturn(t, l, status)

LEMMA NextOff ==
    ASSUME TypeOK, Next, ~Resolves, NEW a \in DOMAIN assets, ~Exposed(a), ~Spoilt(a)
    PROVE  OffTheShelf(a)'
  <1>1. CASE assets' = assets /\ units' = units /\ OpenLoans(a)' = OpenLoans(a)
             /\ \A l \in OpenLoans(a) : loans'[l].unit = loans[l].unit
    BY <1>1, ElsewhereOff
  <1>2. CASE RegisterStep
    <2>1. ASSUME NEW b \in Asset, NEW new \in SUBSET (Unit \ DOMAIN units), CreateAsset(b, new)
          PROVE  OffTheShelf(a)'
      <3>1. /\ a \in DOMAIN assets' /\ assets'[a] = assets[a] /\ loans' = loans
            /\ \A u \in DOMAIN units : units'[u] = units[u]
        BY <2>1 DEF CreateAsset, Put
      <3> QED
        BY <3>1, ElsewhereOff DEF OpenLoans
    <2>2. ASSUME NEW b \in Asset, NEW new \in SUBSET (Unit \ DOMAIN units), NEW status \in EditStatus,
                 NEW gone \in SUBSET UnitsOf(units, b), UpdateAsset(b, status, gone, new)
          PROVE  OffTheShelf(a)'
      BY <2>2, UpdateAssetOff
    <2>3. ASSUME NEW b \in Asset, DeleteAsset(b)
          PROVE  OffTheShelf(a)'
      <3>1. units' = units /\ loans' = loans /\ OpenLoans(a)' = OpenLoans(a)
        BY <2>3 DEF DeleteAsset, OpenLoans
      <3>2. CASE a = b
        <4>1. OpenLoans(a)' = {}
          BY <2>3, <3>1, <3>2 DEF DeleteAsset
        <4> QED
          BY <4>1 DEF OffTheShelf
      <3>3. CASE a # b
        <4>1. a \in DOMAIN assets' /\ assets'[a] = assets[a]
          BY <2>3, <3>3 DEF DeleteAsset, Put
        <4> QED
          BY <3>1, <4>1, ElsewhereOff
      <3> QED
        BY <3>2, <3>3
    <2> QED
      BY <1>2, <2>1, <2>2, <2>3 DEF RegisterStep
  <1>3. CASE LoanStep
    <2>1. ASSUME NEW chosen \in SUBSET {b \in Asset : Available(b)}, NEW m \in Member,
                 NEW id \in [chosen -> Loan \ DOMAIN loans], NEW track \in [chosen -> Unit],
                 IssueAssets(chosen, m, id, track)
          PROVE  OffTheShelf(a)'
      BY <2>1, IssueAssetsOff
    <2>2. ASSUME NEW l \in DOMAIN loans, RequestReturn(l)
          PROVE  OffTheShelf(a)'
      BY <1>1, <2>2, RequestReturnRows DEF OpenLoans
    <2>3. ASSUME NEW l \in DOMAIN loans, NEW status \in ReturnStatus, ReturnAsset(l, status)
          PROVE  OffTheShelf(a)'
      BY <2>3, ReturnAssetOff
    <2> QED
      BY <1>3, <2>1, <2>2, <2>3 DEF LoanStep
  <1>4. CASE TicketStep
    <2>1. ASSUME NEW t \in Ticket \ DOMAIN tickets, NEW b \in Nullable(Asset),
                 NEW u \in Nullable(Unit), NEW m \in Member, NEW return \in BOOLEAN,
                 CreateMaintenance(t, b, u, m, return)
          PROVE  OffTheShelf(a)'
      BY <2>1, CreateMaintenanceOff
    <2>2. ASSUME NEW t \in DOMAIN tickets, NEW old \in DOMAIN loans,
                 NEW new \in Loan \ DOMAIN loans, NEW u \in DOMAIN units,
                 NEW mode \in ReplacementModes, ProvideReplacement(t, old, u, new, mode)
          PROVE  OffTheShelf(a)'
      BY <2>2, ProvideReplacementOff
    <2>3. ASSUME NEW t \in DOMAIN tickets, WithdrawTicket(t) \/ ProgressTicket(t)
          PROVE  OffTheShelf(a)'
      BY <2>3, WithdrawTicketOff, ProgressTicketOff
    <2>4. ASSUME NEW t, assets' = assets /\ units' = units /\ loans' = loans
          PROVE  OffTheShelf(a)'
      BY <1>1, <2>4 DEF OpenLoans
    <2>5. \A t \in DOMAIN tickets : t \in Ticket
      BY TypeParts
    <2>6. \A t \in DOMAIN tickets :
            /\ \A l \in Loan, status \in OutcomeStatus("COMPLETED") : ~CompleteReturn(t, l, status)
            /\ \A outcome \in {"COMPLETED", "CANCELLED"} :
                 \A status \in OutcomeStatus(outcome) : ~ResolveTicket(t, outcome, status)
      BY <2>5 DEF Resolves
    <2> QED
      BY <1>4, <2>1, <2>2, <2>3, <2>4, <2>6
         DEF TicketStep, CreateTicket, UpdateGeneral, ArchiveTicket
  <1> QED
    BY <1>2, <1>3, <1>4 DEF Next

\* An asset that somebody holds, or the unit they hold, comes to show as available
\* only when a ticket is resolved, or after an earlier accident.
THEOREM HeldAssetsStayOff == Spec => HeldStayOffTheShelf
  <1> DEFINE Step ==
        \A a \in DOMAIN assets :
          ~Exposed(a) /\ Exposed(a)' /\ ~Spoilt(a) =>
              \E t \in Ticket, outcome \in {"COMPLETED", "CANCELLED"} :
                  \E status \in OutcomeStatus(outcome) :
                      \/ ResolveTicket(t, outcome, status)
                      \/ \E l \in Loan : CompleteReturn(t, l, status)
  <1>1. TypeOK /\ [Next]_vars => [Step]_vars
    <2> SUFFICES ASSUME TypeOK, Next, NEW a \in DOMAIN assets,
                        ~Exposed(a), Exposed(a)', ~Spoilt(a), ~Resolves
                 PROVE  FALSE
      BY DEF Resolves
    <2>1. OffTheShelf(a)'
      BY NextOff
    <2> QED
      BY <2>1, OffIsNotExposed
  <1>2. HeldStayOffTheShelf <=> [][Step]_vars
    BY DEF HeldStayOffTheShelf
  <1> QED
    BY <1>1, <1>2, TypeCorrect, PTL DEF Spec

-----------------------------------------------------------------------------
(* What the pages show. *)

\* Nothing that is lent belongs to an archived asset.
HeldAreLive == \A l \in DOMAIN loans : loans[l].open => Registered(loans[l].asset)

\* The step archives no asset, nor brings one back.
RegisterKept ==
    /\ DOMAIN assets \subseteq DOMAIN assets'
    /\ \A x \in DOMAIN assets : assets'[x].deleted = assets[x].deleted

LEMMA SetStatusKeeps ==
    ASSUME NEW a \in DOMAIN assets, NEW status, assets' = SetStatus(a, status)
    PROVE  RegisterKept
  BY DEF SetStatus, Put, RegisterKept

LEMMA LiveKept ==
    ASSUME HeldAreLive, TypeOK, RegisterKept,
           \A l \in DOMAIN loans' : loans'[l].open =>
              \/ l \in DOMAIN loans /\ loans[l].open /\ loans'[l].asset = loans[l].asset
              \/ Registered(loans'[l].asset)
    PROVE  HeldAreLive'
  <1> SUFFICES ASSUME NEW l \in DOMAIN loans', loans'[l].open
               PROVE  loans'[l].asset \in DOMAIN assets' /\ ~assets'[loans'[l].asset].deleted
    BY DEF HeldAreLive, Registered
  <1>1. Registered(loans'[l].asset)
    BY DEF HeldAreLive
  <1> QED
    BY <1>1 DEF Registered, RegisterKept

LEMMA GivenBackLive ==
    ASSUME TypeOK, HeldAreLive, NEW l \in DOMAIN loans, NEW u, NEW status \in AssetStatus,
           GivenBack(l, u, status)
    PROVE  HeldAreLive'
  <1> DEFINE a == loans[l].asset
             shown == IF u = Null THEN status
                      ELSE StatusFrom(WithUnit(a, u, status, Null), a, status)
  <1>1. a \in DOMAIN assets
    BY TypeParts
  <1>2. assets' = SetStatus(a, shown)
    BY DEF GivenBack
  <1>3. RegisterKept
    <2> HIDE DEF a, shown
    <2> QED
      BY <1>1, <1>2, SetStatusKeeps
  <1>4. /\ DOMAIN loans' = DOMAIN loans
        /\ \A k \in DOMAIN loans \ {l} : loans'[k] = loans[k]
        /\ loans'[l].open = FALSE
    BY GivenBackRows
  <1> QED
    BY <1>3, <1>4, LiveKept

LEMMA RegisterLive ==
    ASSUME TypeOK, HeldAreLive, RegisterStep
    PROVE  HeldAreLive'
  <1>1. ASSUME NEW a \in Asset, NEW new \in SUBSET (Unit \ DOMAIN units), CreateAsset(a, new)
        PROVE  HeldAreLive'
    <2>1. RegisterKept /\ loans' = loans
      BY <1>1 DEF CreateAsset, Put, RegisterKept
    <2> QED
      BY <2>1, LiveKept
  <1>2. ASSUME NEW a \in Asset, NEW new \in SUBSET (Unit \ DOMAIN units),
               NEW status \in EditStatus, NEW gone, UpdateAsset(a, status, gone, new)
        PROVE  HeldAreLive'
    <2>1. UpdateWrites(a, gone, new)
      BY <1>2, UpdateAssetRows
    <2>2. RegisterKept
      BY <1>2, SetStatusKeeps DEF UpdateAsset, Registered
    <2> QED
      BY <2>1, <2>2, LiveKept DEF UpdateWrites
  <1>3. ASSUME NEW a \in Asset, DeleteAsset(a)
        PROVE  HeldAreLive'
    <2>1. /\ DOMAIN assets \subseteq DOMAIN assets' /\ loans' = loans /\ OpenLoans(a) = {}
          /\ \A x \in DOMAIN assets \ {a} : assets'[x] = assets[x]
      BY <1>3 DEF DeleteAsset, Put
    <2> SUFFICES ASSUME NEW l \in DOMAIN loans, loans[l].open
                 PROVE  Registered(loans[l].asset)'
      BY <2>1 DEF HeldAreLive
    <2>2. loans[l].asset # a /\ Registered(loans[l].asset)
      BY <2>1 DEF OpenLoans, HeldAreLive
    <2> QED
      BY <2>1, <2>2 DEF Registered
  <1> QED
    BY <1>1, <1>2, <1>3 DEF RegisterStep

LEMMA LoanLive ==
    ASSUME TypeOK, HeldAreLive, LoanStep
    PROVE  HeldAreLive'
  <1>1. ASSUME NEW chosen \in SUBSET {a \in Asset : Available(a)}, NEW m \in Member,
               NEW id \in [chosen -> Loan \ DOMAIN loans], NEW track \in [chosen -> Unit],
               IssueAssets(chosen, m, id, track)
        PROVE  HeldAreLive'
    <2>1. IssueWrites(chosen, m, id, track)
      BY <1>1, IssueAssetsRows
    <2>2. \A a \in chosen : Registered(a)
      BY <1>1 DEF IssueAssets, Available
    <2>3. RegisterKept
      <3>1. assets' = [a \in DOMAIN assets |->
                IF a \in chosen THEN [status |-> "ASSIGNED", deleted |-> FALSE] ELSE assets[a]]
        BY <1>1 DEF IssueAssets
      <3>2. \A a \in chosen : assets[a] \in AssetRow /\ assets[a].deleted = FALSE
        BY <2>2, TypeParts DEF Registered, AssetRow
      <3> QED
        BY <3>1, <3>2 DEF RegisterKept
    <2>4. /\ \A l \in DOMAIN loans : loans'[l] = loans[l]
          /\ \A l \in DOMAIN loans' \ DOMAIN loans : \E a \in chosen : loans'[l].asset = a
      BY <2>1 DEF IssueWrites
    <2> QED
      BY <2>2, <2>3, <2>4, LiveKept
  <1>2. ASSUME NEW l \in DOMAIN loans, RequestReturn(l)
        PROVE  HeldAreLive'
    <2>1. RegisterKept
      BY <1>2 DEF RequestReturn, RegisterKept
    <2>2. /\ DOMAIN loans' = DOMAIN loans
          /\ \A k \in DOMAIN loans : /\ loans'[k].asset = loans[k].asset
                                     /\ loans'[k].open = loans[k].open
      BY <1>2, TypeParts DEF RequestReturn, LoanRow
    <2> QED
      BY <2>1, <2>2, LiveKept
  <1>3. ASSUME NEW l \in DOMAIN loans, NEW status \in ReturnStatus, ReturnAsset(l, status)
        PROVE  HeldAreLive'
    <2>1. GivenBack(l, loans[l].unit, status) /\ status \in AssetStatus
      BY <1>3, ReturnAssetGivesBack, InputTypes
    <2> QED
      BY <2>1, GivenBackLive
  <1> QED
    BY <1>1, <1>2, <1>3 DEF LoanStep

LEMMA TicketLive ==
    ASSUME TypeOK, HeldAreLive, TicketStep
    PROVE  HeldAreLive'
  <1>1. ASSUME NEW t, NEW a \in Nullable(Asset), NEW u, NEW m, NEW return,
               CreateTicket(t, a, u, m, return) \/ CreateMaintenance(t, a, u, m, return)
        PROVE  HeldAreLive'
    <2>1. RegisterKept
      <3>1. CASE CreateTicket(t, a, u, m, return)
        BY <3>1 DEF CreateTicket, RegisterKept
      <3>2. CASE CreateMaintenance(t, a, u, m, return)
        BY <3>2, SetStatusKeeps DEF CreateMaintenance, Registered
      <3> QED
        BY <1>1, <3>1, <3>2
    <2>2. loans' = loans
      BY <1>1 DEF CreateTicket, CreateMaintenance
    <2> QED
      BY <2>1, <2>2, LiveKept
  <1>2. ASSUME NEW t \in DOMAIN tickets, NEW old \in DOMAIN loans,
               NEW new \in Loan \ DOMAIN loans, NEW u \in DOMAIN units,
               NEW mode \in ReplacementModes, ProvideReplacement(t, old, u, new, mode)
        PROVE  HeldAreLive'
    <2>1. ReplacementWrites(t, old, u, new)
      BY <1>2, ProvideReplacementRows
    <2>2. Registered(units[u].asset)
      BY <1>2 DEF ProvideReplacement, Offered
    <2>3. RegisterKept
      <3> DEFINE a == tickets[t].asset
                 b == units[u].asset
                 source == tickets[t].unit
                 freed == WithUnit(a, source, "IN_MAINTENANCE", Null)
                 given == Put(freed, u, [asset |-> b, status |-> "ASSIGNED", holder |-> tickets[t].by])
                 shown == IF source \in UnitsOf(units, a)
                          THEN StatusFrom(freed, a, "AVAILABLE") ELSE "IN_MAINTENANCE"
                 derived == StatusFrom(given, b, "AVAILABLE")
                 spent == SetStatus(a, shown)
      <3>1. assets' = [spent EXCEPT ![b].status = derived]
        BY <1>2 DEF ProvideReplacement
      <3>2. a \in DOMAIN assets
        BY <2>1, TypeParts DEF ReplacementWrites
      <3> HIDE DEF a, b, shown, derived
      <3>3. /\ DOMAIN spent = DOMAIN assets
            /\ \A x \in DOMAIN assets :
                 spent[x] = IF x = a THEN [status |-> shown, deleted |-> assets[a].deleted]
                            ELSE assets[x]
        BY <3>2 DEF SetStatus, Put
      <3>4. \A x \in DOMAIN assets : assets[x] \in AssetRow
        BY TypeParts
      <3> HIDE DEF spent
      <3>5. DOMAIN assets' = DOMAIN assets
        BY <3>1, <3>3
      <3>6. ASSUME NEW x \in DOMAIN assets
            PROVE  assets'[x].deleted = assets[x].deleted
        <4> DEFINE row == spent[x]
        <4>1. row.deleted = assets[x].deleted /\ DOMAIN row = {"status", "deleted"}
          BY <3>3, <3>4 DEF AssetRow
        <4>2. assets'[x] = row \/ assets'[x] = [row EXCEPT !.status = derived]
          BY <3>1, <3>3
        <4> HIDE DEF row
        <4> QED
          BY <4>1, <4>2
      <3> QED
        BY <3>5, <3>6 DEF RegisterKept
    <2>4. /\ \A k \in DOMAIN loans \ {old} : loans'[k] = loans[k]
          /\ DOMAIN loans' = DOMAIN loans \cup {new}
          /\ loans'[new].asset = units[u].asset /\ loans[old].open
          /\ loans'[old].asset = loans[old].asset
      BY <2>1 DEF ReplacementWrites, Closed
    <2> QED
      BY <2>2, <2>3, <2>4, LiveKept
  <1>3. ASSUME NEW t \in DOMAIN tickets, WithdrawTicket(t)
        PROVE  HeldAreLive'
    <2>1. RegisterKept
      <3>1. CASE assets' = assets
        BY <3>1 DEF RegisterKept
      <3>2. ASSUME assets' # assets
            PROVE  RegisterKept
        <4>1. tickets[t].asset # Null
          BY <1>3, <3>2 DEF WithdrawTicket
        <4>2. tickets[t].asset \in DOMAIN assets
          BY <4>1 DEF TypeOK, KeysOK, Nullable
        <4>3. \E status : assets' = SetStatus(tickets[t].asset, status)
          BY <1>3, <3>2 DEF WithdrawTicket
        <4> QED
          BY <4>2, <4>3, SetStatusKeeps
      <3> QED
        BY <3>1, <3>2
    <2>2. loans' = loans
      BY <1>3 DEF WithdrawTicket
    <2> QED
      BY <2>1, <2>2, LiveKept
  <1>4. ASSUME NEW t \in DOMAIN tickets, NEW outcome, NEW status,
               ProgressTicket(t) \/ ResolveTicket(t, outcome, status)
        PROVE  HeldAreLive'
    <2>1. tickets[t].asset \in DOMAIN assets /\ loans' = loans
      BY <1>4 DEF ProgressTicket, ResolveTicket, Registered
    <2>2. \E shown : assets' = SetStatus(tickets[t].asset, shown)
      BY <1>4 DEF ProgressTicket, ResolveTicket
    <2>3. RegisterKept
      BY <2>1, <2>2, SetStatusKeeps
    <2> QED
      BY <2>1, <2>3, LiveKept
  <1>5. ASSUME NEW t \in DOMAIN tickets, NEW l \in Loan,
               NEW status \in OutcomeStatus("COMPLETED"), CompleteReturn(t, l, status)
        PROVE  HeldAreLive'
    <2>1. status \in AssetStatus
      BY InputTypes
    <2>2. CASE assets' = assets /\ loans' = loans
      BY <2>2, LiveKept DEF RegisterKept
    <2>3. ASSUME NEW u, l \in DOMAIN loans, GivenBack(l, u, status)
          PROVE  HeldAreLive'
      BY <2>1, <2>3, GivenBackLive
    <2> QED
      BY <1>5, <2>2, <2>3, CompleteReturnCases
  <1>6. ASSUME NEW t, NEW status, NEW archived,
               UpdateGeneral(t, status) \/ ArchiveTicket(t, archived)
        PROVE  HeldAreLive'
    <2>1. RegisterKept /\ loans' = loans
      BY <1>6 DEF UpdateGeneral, ArchiveTicket, RegisterKept
    <2> QED
      BY <2>1, LiveKept
  <1> QED
    BY <1>1, <1>2, <1>3, <1>4, <1>5, <1>6 DEF TicketStep

\* Nobody holds an archived asset, whatever is edited, issued, returned, replaced
\* or resolved: delete_asset asks for open assignments, and every handler that
\* lends an asset reads it in the register first.
THEOREM HeldAreNotArchived == Spec => []HeldAreLive
  <1>1. Init => HeldAreLive
    BY DEF Init, NoRows, HeldAreLive
  <1>2. TypeOK /\ HeldAreLive /\ [Next]_vars => HeldAreLive'
    <2>1. ASSUME HeldAreLive, UNCHANGED vars
          PROVE  HeldAreLive'
      BY <2>1 DEF HeldAreLive, Registered, vars
    <2> QED
      BY <2>1, RegisterLive, LoanLive, TicketLive DEF Next
  <1> QED
    BY <1>1, <1>2, TypeCorrect, PTL DEF Spec

LEMMA HoldersSee ==
    ASSUME TypeOK, HeldAreLive
    PROVE  HoldersSeeTheirs
  <1> SUFFICES ASSUME NEW l \in DOMAIN loans, loans[l].open,
                      NEW m, m = loans[l].member, NEW a, a = loans[l].asset
               PROVE  /\ l \in CurrentOf(m) \cup PreviousOf(m)
                      /\ l \in MemberAssignedAssets(m) /\ l \in LoanReport(FALSE, m)
                      /\ <<a, l>> \in ListAssets(Whichever, m) /\ MaySee(m, a)
                      /\ a \in Laptop /\ assets[a].status = "ASSIGNED" => m \in LaptopUsers
                      /\ Null \notin ActiveProvision(a)
    BY DEF HoldersSeeTheirs
  <1>1. a \in Live /\ l \in LoansOf(m)
    BY DEF HeldAreLive, Registered, Live, LoansOf
  <1>2. m \in Member /\ m # Whichever /\ Null \notin DOMAIN loans
    BY TypeParts, NullIsNoKey, WhicheverIsNobody DEF LoanRow
  <1>3. l \in CurrentOf(m) \cup PreviousOf(m)
    BY <1>1 DEF CurrentOf, PreviousOf
  <1>4. l \in MemberAssignedAssets(m) /\ l \in LoanReport(FALSE, m) /\ MaySee(m, a)
    BY <1>1 DEF MemberAssignedAssets, LoanReport, MaySee
  <1>5. <<a, l>> \in ListAssets(Whichever, m)
    BY <1>1, <1>2 DEF ListAssets
  <1>6. a \in Laptop /\ assets[a].status = "ASSIGNED" => m \in LaptopUsers
    BY <1>1 DEF LaptopUsers
  <1>7. Null \notin ActiveProvision(a)
    BY <1>2 DEF ActiveProvision, OpenLoans
  <1> QED
    BY <1>3, <1>4, <1>5, <1>6, <1>7

\* The figure of a status is the length of its report.
LEMMA ReportsCount ==
    ASSUME TypeOK, NEW status, status # Whichever
    PROVE  Count({status}) = Cardinality(ListAssets(status, Whichever))
  <1> DEFINE S == {a \in Live : assets[a].status \in {status}}
             T == ListAssets(status, Whichever)
             f == [a \in S |-> <<a, Null>>]
  <1>1. T = S \X {Null}
    BY DEF ListAssets
  <1>2. IsFiniteSet(S)
    <2>1. S \in SUBSET Asset
      BY TypeParts DEF Live
    <2> HIDE DEF S
    <2> QED
      BY <2>1, AssetsAreFinite, FS_Subset
  <1>3. f \in Bijection(S, T)
    <2> HIDE DEF S, T
    <2>1. f \in [S -> T]
      BY <1>1
    <2>2. \A a, b \in S : f[a] = f[b] => a = b
      OBVIOUS
    <2>3. \A r \in T : \E a \in S : f[a] = r
      BY <1>1
    <2> QED
      BY <2>1, <2>2, <2>3 DEF Bijection, Injection, Surjection, IsInjective
  <1>4. Cardinality(T) = Cardinality(S)
    <2> HIDE DEF S, T, f
    <2> QED
      BY <1>2, <1>3, FS_Bijection DEF ExistsBijection
  <1> QED
    BY <1>4 DEF Count

\* The units a laptop shows as available are on offer.
LEMMA AvailableAreOffered ==
    ASSUME TypeOK, NEW a \in Live, a \in Laptop, UnitSummary(a).available > 0
    PROVE  \E u \in AvailableLaptopUnits : units[u].asset = a
  <1> DEFINE S == WithStatus(a, {"AVAILABLE"})
  <1>1. S # {}
    <2>1. UnitSummary(a).available = Cardinality(S)
      BY DEF UnitSummary
    <2> HIDE DEF S
    <2> QED
      BY <2>1, FS_EmptySet
  <1> QED
    BY <1>1 DEF WithStatus, UnitsOf, AvailableLaptopUnits

\* The laptops of a model on offer are among those in the office.
LEMMA OfferedAreInOffice ==
    ASSUME TypeOK, NEW mod,
           NEW offered, offered = {u \in AvailableLaptopUnits : ModelOf[units[u].asset] = mod}
    PROVE  /\ Cardinality(offered) <= BrandModel(mod).inOffice
           /\ BrandModel(mod).lowStock => offered = {}
  <1> DEFINE laptops == {a \in Live \cap Laptop : ModelOf[a] = mod}
             stock == UNION {Stock(a) : a \in laptops}
             inside == {s \in stock : s[2] \in {"AVAILABLE"}}
             f == [u \in offered |-> <<u, "AVAILABLE">>]
  <1>1. /\ BrandModel(mod).inOffice = Cardinality(inside)
        /\ BrandModel(mod).lowStock = (Cardinality(inside) = 0)
    BY DEF BrandModel
  <1>2. IsFiniteSet(inside)
    <2> DEFINE K == Asset \cup Unit
               P == K \X AssetStatus
    <2>1. IsFiniteSet(K)
      BY AssetsAreFinite, FS_Union
    <2>2. IsFiniteSet(AssetStatus)
      <3>1. \A S, x : IsFiniteSet(S) => IsFiniteSet(S \cup {x})
        BY FS_AddElement
      <3>2. IsFiniteSet({"AVAILABLE"})
        BY FS_Singleton
      <3> DEFINE some == ({"AVAILABLE"} \cup {"ASSIGNED"}) \cup {"IN_MAINTENANCE"}
                 more == (some \cup {"PENDING_RETURN"}) \cup {"DAMAGED"}
                 all == ((more \cup {"LOST"}) \cup {"RETIRED"}) \cup {"DISPOSED"}
      <3>3. IsFiniteSet(some)
        BY <3>1, <3>2
      <3>4. IsFiniteSet(more)
        <4> HIDE DEF some
        <4> QED
          BY <3>1, <3>3
      <3>5. IsFiniteSet(all)
        <4> HIDE DEF more
        <4> QED
          BY <3>1, <3>4
      <3>6. AssetStatus = all
        BY DEF AssetStatus
      <3> HIDE DEF all
      <3> QED
        BY <3>5, <3>6
    <2>3. IsFiniteSet(P)
      <3> HIDE DEF K
      <3> QED
        BY <2>1, <2>2, FS_Product
    <2>4. inside \in SUBSET P
      <3> SUFFICES ASSUME NEW a \in laptops, NEW s \in Stock(a)
                   PROVE  s \in P
        OBVIOUS
      <3>1. a \in DOMAIN assets /\ assets[a] \in AssetRow /\ a \in Asset
        BY TypeParts DEF Live
      <3>2. \A u \in UnitsOf(units, a) : u \in Unit /\ units[u].status \in AssetStatus
        BY TypeParts DEF UnitsOf, UnitRow
      <3> QED
        BY <3>1, <3>2 DEF Stock, AssetRow
    <2> HIDE DEF P, inside
    <2> QED
      BY <2>3, <2>4, FS_Subset
  <1>3. f \in Injection(offered, inside)
    <2>1. ASSUME NEW u \in offered
          PROVE  <<u, "AVAILABLE">> \in inside
      <3> DEFINE a == units[u].asset
      <3>1. a \in laptops /\ u \in UnitsOf(units, a) /\ units[u].status = "AVAILABLE"
        BY DEF AvailableLaptopUnits, UnitsOf
      <3>2. <<u, "AVAILABLE">> \in Stock(a)
        <4> HIDE DEF a, laptops
        <4> QED
          BY <3>1 DEF Stock
      <3> QED
        BY <3>1, <3>2
    <2> HIDE DEF inside
    <2>2. f \in [offered -> inside] /\ \A x, y \in offered : f[x] = f[y] => x = y
      BY <2>1
    <2> QED
      BY <2>2 DEF Injection, IsInjective
  <1> HIDE DEF inside, f
  <1>4. IsFiniteSet(offered) /\ Cardinality(offered) <= Cardinality(inside)
    BY <1>2, <1>3, FS_Injection
  <1>5. Cardinality(inside) = 0 => offered = {}
    <2>1. Cardinality(offered) \in Nat
      BY <1>4, FS_CardinalityType
    <2>2. Cardinality(inside) = 0 => Cardinality(offered) = 0
      BY <1>4, <2>1
    <2> QED
      BY <1>4, <2>2, FS_EmptySet
  <1> QED
    BY <1>1, <1>4, <1>5

LEMMA ViewsListTheSame ==
    ASSUME TypeOK, ReplacementChain
    PROVE  ListsAgree
  <1>1. ASSUME NEW m \in Member
        PROVE  /\ CurrentOf(m) \cap ReturnedAssets = {}
               /\ CurrentOf(m) \subseteq MemberAssignedAssets(m)
               /\ MemberTickets(m) \cap MyTickets(m) \subseteq OpenTickets
    <2>1. \A l \in CurrentOf(m) : loans[l].open /\ l \in LoansOf(m)
      BY DEF CurrentOf, EmployeeState
    <2> QED
      BY <2>1 DEF ReturnedAssets, MemberAssignedAssets, MemberTickets, MyTickets, OpenTickets
  <1>2. ASSUME NEW r \in Replacements
        PROVE  r.old \in ReturnedAssets /\ r.new # Null /\ loans[r.new].member = loans[r.old].member
    <2>1. PICK l \in DOMAIN loans :
            /\ loans[l].asset \in Live /\ loans[l].next # Null
            /\ r = [old |-> l, new |-> IF loans[l].next \in DOMAIN loans THEN loans[l].next ELSE Null]
      BY DEF Replacements
    <2>2. /\ ~loans[l].open /\ loans[l].next \in DOMAIN loans
          /\ loans[loans[l].next].member = loans[l].member
      BY <2>1 DEF ReplacementChain
    <2>3. r.old = l /\ r.new = loans[l].next
      BY <2>1, <2>2
    <2> QED
      BY <2>1, <2>2, <2>3 DEF ReturnedAssets
  <1>3. ASSUME NEW a \in Live, NEW l \in DOMAIN loans, l \in ActiveProvision(a)
        PROVE  Lifecycle(a, l) # "PENDING_RETURN"
    <2>1. l # Null
      BY TypeParts, NullIsNoKey
    <2>2. loans[l].open
      BY <1>3, <2>1 DEF ActiveProvision, OpenLoans
    <2>3. loans[l].next = Null
      BY <2>2 DEF ReplacementChain
    <2> QED
      BY <2>1, <2>3 DEF Lifecycle
  <1>4. MaintenanceReport = ListTickets(TRUE) \cup ListTickets(FALSE)
    BY TypeParts DEF MaintenanceReport, ListTickets, TicketRow
  <1>5. ASSUME NEW a \in Live
        PROVE  /\ OpenMaintenance(a) \subseteq OpenTickets
               /\ assets[a].status = "AVAILABLE" => \E g \in AvailableGroups : g.key = GroupOf[a]
               /\ a \in Laptop /\ UnitSummary(a).available > 0 =>
                     \E u \in AvailableLaptopUnits : units[u].asset = a
    <2>1. OpenMaintenance(a) \subseteq OpenTickets
      BY DEF OpenMaintenance, OpenTickets, Listed
    <2>2. ASSUME assets[a].status = "AVAILABLE"
          PROVE  \E g \in AvailableGroups : g.key = GroupOf[a]
      <3> DEFINE Alike(x) == {b \in Live : assets[b].status = "AVAILABLE" /\ GroupOf[b] = GroupOf[x]}
                 g == [key |-> GroupOf[a], quantity |-> Cardinality(Alike(a))]
      <3>1. g \in AvailableGroups
        BY <2>2 DEF AvailableGroups
      <3>2. g.key = GroupOf[a]
        OBVIOUS
      <3> HIDE DEF g
      <3> QED
        BY <3>1, <3>2
    <2> QED
      BY <2>1, <2>2, AvailableAreOffered
  <1>6. ASSUME NEW type \in {"AVAILABLE_ASSETS", "PROVIDED_ASSETS"}
        PROVE  Count({ReportStatus(type)}) = Cardinality(AssetReport(type, Whichever))
    <2>1. ReportStatus(type) # Whichever
      BY DEF ReportStatus, Whichever
    <2> QED
      BY <2>1, ReportsCount DEF AssetReport
  <1>7. ASSUME NEW mod \in Model
        PROVE  LET row == BrandModel(mod)
                   offered == {u \in AvailableLaptopUnits : ModelOf[units[u].asset] = mod}
               IN  Cardinality(offered) <= row.inOffice /\ (row.lowStock => offered = {})
    BY OfferedAreInOffice
  <1> QED
    BY <1>1, <1>2, <1>3, <1>4, <1>5, <1>6, <1>7 DEF ListsAgree

\* Whoever holds something finds it wherever assets are shown, and what two pages
\* show of the same thing agrees, in every state the handlers reach: the pages
\* rely on the foreign keys, on the chain of replacements and on no archived asset
\* being held.
THEOREM PagesAgree == Spec => []ViewsAgree
  <1>1. TypeOK /\ ReplacementChain /\ HeldAreLive => ViewsAgree
    BY HoldersSee, ViewsListTheSame DEF ViewsAgree
  <1> QED
    BY <1>1, TypeCorrect, ReplacementsChain, HeldAreNotArchived, PTL
=============================================================================
