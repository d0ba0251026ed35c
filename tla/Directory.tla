----------------------------- MODULE Directory -----------------------------
(***************************************************************************)
(* Taking the members of an organization over from a Microsoft directory   *)
(* (app/modules/microsoft_graph, and the handlers of app/modules/employee  *)
(* that touch a profile or the status of a member).                        *)
(*                                                                         *)
(* A sync is one transaction over every user of the directory, with calls  *)
(* to the directory in between: its rows are its own until the commit, but *)
(* at each user it sees what other handlers have committed meanwhile, and  *)
(* a row it has updated is locked.  The other handlers are one transaction *)
(* each.  What the directory says of a user is any of the inputs; of a     *)
(* profile only whom it belongs to, its manager and who wrote it last are  *)
(* kept.                                                                   *)
(***************************************************************************)
EXTENDS Tables, FiniteSets

CONSTANTS
    GraphUser,      \* ids of users of the directory
    Mail,           \* their addresses
    Nobody          \* in place of a manager

VARIABLES
    settings,       \* microsoft_integration_setting: there, and last_sync_status
    accounts,       \* account: the user of each id of the directory
    members,        \* member, by its user; a user is known by its address
    profiles,       \* employee, by microsoft_id
    sync            \* a sync that is under way, with the rows it has written

directoryVars == <<settings, accounts, members, profiles, sync>>

\* An administrator may give a member without a profile one of this id.
Manual(u) == <<"manual", u>>
ASSUME ManualIds == \A u \in Mail : Manual(u) \notin GraphUser

ProfileId == GraphUser \cup {Manual(u) : u \in Mail}

MemberRow == [active : BOOLEAN, role : BOOLEAN]
ProfileRow ==
    [member : Mail, manager : GraphUser \cup {Nobody},
     by : {"directory", "administrator"}]

NoSync == [running |-> FALSE, seen |-> {}, failed |-> FALSE,
           accounts |-> NoRecords, members |-> NoRecords, profiles |-> NoRecords]

\* Some members have signed up before, one of them perhaps without a role.
DirectoryInit ==
    /\ settings = [there |-> FALSE, status |-> "null"]
    /\ accounts = NoRecords /\ profiles = NoRecords
    /\ \E U \in SUBSET Mail, role \in BOOLEAN :
         members = [u \in U |-> [active |-> TRUE, role |-> role]]
    /\ sync = NoSync

\* A table as the sync sees it: its own rows over the committed ones.
Over(own, table) ==
    [k \in DOMAIN own \cup DOMAIN table |-> IF k \in DOMAIN own THEN own[k] ELSE table[k]]

-----------------------------------------------------------------------------
\* The sync.

SaveSettings ==
    /\ settings' = [settings EXCEPT !.there = TRUE]
    /\ UNCHANGED <<accounts, members, profiles, sync>>

\* With credentials and a role to give.
StartSync ==
    /\ settings.there /\ ~sync.running
    /\ sync' = [NoSync EXCEPT !.running = TRUE]
    /\ UNCHANGED <<settings, accounts, members, profiles>>

\* The user an id belongs to: by its account, otherwise by address.
UserOf(g, mail) ==
    LET known == Over(sync.accounts, accounts)
    IN  IF g \in DOMAIN known THEN known[g] ELSE mail

\* Mutant: whoever is in the directory is an active member.
MemberOfTheDirectory(u, known) ==
    IF u \in DOMAIN known /\ known[u].active /\ known[u].role THEN NoRecords
    ELSE Upsert(NoRecords, u, [active |-> TRUE, role |-> TRUE])

\* The row the sync writes for a user, if it writes one: a new member, or the
\* role of one that lacks it; one that was deactivated is left alone.
MemberToWrite(u, known) ==
    IF u \notin DOMAIN known THEN Upsert(NoRecords, u, [active |-> TRUE, role |-> TRUE])
    ELSE IF known[u].active /\ ~known[u].role
    THEN Upsert(NoRecords, u, [active |-> TRUE, role |-> TRUE])
    ELSE NoRecords

\* Every column is written over, the manager if the directory names one who has
\* a profile already.
ProfileToWrite(g, u, boss) ==
    LET known == Over(sync.profiles, profiles)
    IN  [member |-> u, by |-> "directory",
         manager |-> IF boss \in DOMAIN known \cup {g} THEN boss
                     ELSE IF g \in DOMAIN known THEN known[g].manager ELSE Nobody]

SyncUser(g, mail, boss) ==
    /\ sync.running /\ g \notin sync.seen
    /\ LET u == UserOf(g, mail)
       IN  sync' = [sync EXCEPT
               !.seen = @ \cup {g},
               !.accounts = Upsert(@, g, u),
               !.members = Over(MemberToWrite(u, Over(@, members)), @),
               !.profiles = Upsert(@, g, ProfileToWrite(g, u, boss))]
    /\ UNCHANGED <<settings, accounts, members, profiles>>

\* A user without an address is counted as failed, and the next one follows.
SkipUser(g) ==
    /\ sync.running /\ g \notin sync.seen
    /\ sync' = [sync EXCEPT !.seen = @ \cup {g}, !.failed = TRUE]
    /\ UNCHANGED <<settings, accounts, members, profiles>>

CommitSync ==
    /\ sync.running
    /\ accounts' = Over(sync.accounts, accounts)
    /\ members' = Over(sync.members, members)
    /\ profiles' = Over(sync.profiles, profiles)
    /\ settings' = [settings EXCEPT
                      !.status = IF sync.failed THEN "completed_with_errors" ELSE "success"]
    /\ sync' = NoSync

\* The directory cannot be asked, or a statement fails: everything is rolled
\* back, the record that the sync has failed too.
AbandonSync ==
    /\ sync.running
    /\ sync' = NoSync
    /\ UNCHANGED <<settings, accounts, members, profiles>>

-----------------------------------------------------------------------------
\* The handlers.

Unlocked(table, k) == k \notin DOMAIN table

\* deactivate_employee and reactivate_employee.
SetMemberStatus(u, active) ==
    /\ u \in DOMAIN members /\ Unlocked(sync.members, u)
    /\ members' = [members EXCEPT ![u].active = active]
    /\ UNCHANGED <<settings, accounts, profiles, sync>>

Owned(u) == {p \in DOMAIN profiles : profiles[p].member = u}

\* Both handlers fail for a member with more than one profile.
UpdateEmployeeDetails(u) ==
    /\ u \in DOMAIN members
    /\ \/ /\ Owned(u) = {}
          /\ profiles' = Upsert(profiles, Manual(u),
                [member |-> u, manager |-> Nobody, by |-> "administrator"])
       \/ \E p \in ProfileId :
             /\ Owned(u) = {p} /\ Unlocked(sync.profiles, p)
             /\ profiles' = [profiles EXCEPT ![p].by = "administrator"]
    /\ UNCHANGED <<settings, accounts, members, sync>>

\* Here a manager who is not named or has no profile is taken away; of an id
\* the directory does not know only that is written.
RefreshEmployee(u, boss) ==
    \E p \in ProfileId :
      /\ settings.there
      /\ u \in DOMAIN members /\ Owned(u) = {p} /\ Unlocked(sync.profiles, p)
      /\ profiles' = [profiles EXCEPT ![p] =
            IF p \in GraphUser
            THEN [member |-> u, by |-> "directory",
                  manager |-> IF boss \in DOMAIN profiles THEN boss ELSE Nobody]
            ELSE [profiles[p] EXCEPT !.manager = Nobody]]
      /\ UNCHANGED <<settings, accounts, members, sync>>

DirectoryNext ==
    \/ SaveSettings \/ StartSync \/ CommitSync \/ AbandonSync
    \/ \E g \in GraphUser :
         \/ SkipUser(g)
         \/ \E mail \in Mail, boss \in GraphUser \cup {Nobody} :
              SyncUser(g, mail, boss)
    \/ \E u \in Mail :
         \/ \E active \in BOOLEAN : SetMemberStatus(u, active)
         \/ UpdateEmployeeDetails(u)
         \/ \E boss \in GraphUser \cup {Nobody} : RefreshEmployee(u, boss)

DirectorySpec == DirectoryInit /\ [][DirectoryNext]_directoryVars

-----------------------------------------------------------------------------
DirectoryTypeOK ==
    /\ settings \in [there : BOOLEAN, status : {"null", "success", "completed_with_errors"}]
    /\ Table(accounts, GraphUser, DOMAIN members)
    /\ Table(members, Mail, MemberRow)
    /\ Table(profiles, ProfileId, ProfileRow)
    /\ \A p \in DOMAIN profiles :
         /\ profiles[p].member \in DOMAIN members
         /\ profiles[p].manager \in DOMAIN profiles \cup {Nobody}
         /\ p \in GraphUser => p \in DOMAIN accounts /\ accounts[p] = profiles[p].member
    /\ sync.seen \subseteq GraphUser

\* Manual deactivation takes precedence over a sync, also when it happens while
\* the sync is under way: a member becomes active again by being reactivated,
\* never by what a sync commits, however many syncs meet the member.
DeactivatedStays ==
    [][\A u \in DOMAIN members :
         (~members[u].active /\ members'[u].active) => UNCHANGED <<sync, profiles>>]_directoryVars
=============================================================================
