------------------------------ MODULE MCOffice ------------------------------
(* The leave handlers with one session, against the ledger they are to
   implement; the catalog of assets, the directory members may come from, the
   members with their departments, the yearly holidays, the doors with their log,
   and the notifications of decisions.  Each is explored on its own: which one
   runs is chosen at the start. *)
EXTENDS MCLeaveSessions, Catalog, Directory, People, HolidaySync,
    AccessControl, Notifications

VARIABLE part

OfficeInit ==
    /\ part \in {"leave", "catalog", "directory", "people", "holidays", "access", "notices"}
    /\ SessionInit /\ CatalogInit /\ DirectoryInit /\ PeopleInit /\ HolidayInit
    /\ AccessInit /\ NotificationsInit
    /\ part # "directory" => members = NoRecords

OfficeNext ==
    /\ UNCHANGED part
    /\ IF part = "leave" THEN SessionNext ELSE UNCHANGED sessionVars
    /\ IF part = "catalog" THEN CatalogNext ELSE UNCHANGED catalogVars
    /\ IF part = "directory" THEN DirectoryNext ELSE UNCHANGED directoryVars
    /\ IF part = "people" THEN PeopleNext ELSE UNCHANGED peopleVars
    /\ IF part = "holidays" THEN HolidayNext ELSE UNCHANGED holidayVars
    /\ IF part = "access" THEN AccessNext ELSE UNCHANGED accessVars
    /\ IF part = "notices" THEN NotificationsNext ELSE UNCHANGED noticeVars

OfficeSpec ==
    /\ OfficeInit
    /\ [][OfficeNext]_<<part, sessionVars, catalogVars, directoryVars, peopleVars, holidayVars,
                      accessVars, noticeVars>>

\* The configuration makes Category, GraphUser, Person, Organization, Entrant,
\* Recipient and Ask of the same values, and CategoryField, Mail, Sync and Decider
\* of the same others.
Symmetry == Permutations(Category) \cup Permutations(CategoryField)

OfficeTypeOK ==
    /\ SessionTypeOK /\ CatalogTypeOK /\ DirectoryTypeOK /\ PeopleTypeOK /\ HolidayTypeOK
    /\ AccessTypeOK /\ NotificationsTypeOK

\* What the office keeps in two places agrees: labels and values of assets with
\* the catalog, the pages on departments with each other, the holidays of an
\* organization, each once, with what the syncs and the administrators entered,
\* the figures on doors with their lists, and notifications with the decisions.
OfficeRecordsAgree ==
    /\ part = "catalog" => CatalogIsConsistent
    /\ part = "people" => DepartmentPagesAgree
    /\ part = "holidays" => HolidaysAreOnce
    /\ part = "access" => AccessPagesAgree
    /\ part = "notices" => NoticesAreTrue

\* Every request is of a member of its own.
MCAskedBy == [r \in Ask |-> r]
=============================================================================
