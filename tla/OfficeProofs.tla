---------------------------- MODULE OfficeProofs ----------------------------
(***************************************************************************)
(* The directory members come from, the catalog of assets, the members with *)
(* their departments, the yearly holidays, the doors and the notifications, *)
(* for every set of users, rows and sessions; then the office as a whole.  *)
(***************************************************************************)
EXTENDS MCOffice, LeaveSessionProofs

-----------------------------------------------------------------------------
(* Tables. *)

\* The partial functions a table may be.
Rows(K, R) == UNION {[D -> R] : D \in SUBSET K}

LEMMA RowsAre ==
    ASSUME NEW K, NEW R, NEW f
    PROVE  /\ f \in Rows(K, R) => DOMAIN f \subseteq K /\ \A k \in DOMAIN f : f[k] \in R
           /\ f \in Rows(K, R) => Table(f, K, R)
           /\ NoRecords \in Rows(K, R) /\ DOMAIN NoRecords = {}
<1>1. f \in Rows(K, R) => DOMAIN f \subseteq K /\ \A k \in DOMAIN f : f[k] \in R
  BY DEF Rows
<1>2. NoRecords \in [{} -> R] /\ DOMAIN NoRecords = {}
  BY DEF NoRecords
<1>3. [{} -> R] \subseteq Rows(K, R)
  BY DEF Rows
<1> QED BY <1>1, <1>2, <1>3 DEF Table

LEMMA UpsertRows ==
    ASSUME NEW K, NEW R, NEW f \in Rows(K, R), NEW k \in K, NEW row \in R
    PROVE  Upsert(f, k, row) \in Rows(K, R)
<1>1. DOMAIN f \cup {k} \in SUBSET K /\ Upsert(f, k, row) \in [DOMAIN f \cup {k} -> R]
  BY DEF Rows, Upsert
<1> QED BY <1>1 DEF Rows

-----------------------------------------------------------------------------
(* The directory. *)

LEMMA OverRows ==
    ASSUME NEW K, NEW R, NEW f \in Rows(K, R), NEW g \in Rows(K, R)
    PROVE  Over(f, g) \in Rows(K, R)
<1>1. DOMAIN f \cup DOMAIN g \in SUBSET K /\ Over(f, g) \in [DOMAIN f \cup DOMAIN g -> R]
  BY DEF Rows, Over
<1> QED BY <1>1 DEF Rows

SyncRecord ==
    [running : BOOLEAN, seen : SUBSET GraphUser, failed : BOOLEAN,
     accounts : Rows(GraphUser, Mail), members : Rows(Mail, MemberRow),
     profiles : Rows(GraphUser, ProfileRow)]

\* What a sync has written so far: the account and the profile of every user it
\* wrote belong together, nobody's manager is unheard of, and of those it made
\* members nobody has been deactivated since.
WrittenOK(own, as, ms, ps) ==
    /\ DOMAIN own.accounts = DOMAIN own.profiles
    /\ \A g \in DOMAIN own.profiles :
         /\ own.profiles[g].member = own.accounts[g]
         /\ own.accounts[g] \in DOMAIN own.members \cup DOMAIN ms
         /\ own.profiles[g].manager \in DOMAIN own.profiles \cup DOMAIN ps \cup {Nobody}
    /\ \A u \in DOMAIN own.members : own.members[u].active /\ (u \in DOMAIN ms => ms[u].active)

TablesOK ==
    /\ settings \in [there : BOOLEAN, status : {"null", "success", "completed_with_errors"}]
    /\ accounts \in Rows(GraphUser, Mail) /\ members \in Rows(Mail, MemberRow)
    /\ profiles \in Rows(ProfileId, ProfileRow)
    /\ \A g \in DOMAIN accounts : accounts[g] \in DOMAIN members
    /\ \A p \in DOMAIN profiles :
         /\ profiles[p].member \in DOMAIN members
         /\ profiles[p].manager \in DOMAIN profiles \cup {Nobody}
         /\ p \in GraphUser => p \in DOMAIN accounts /\ accounts[p] = profiles[p].member

DirectoryInv == TablesOK /\ sync \in SyncRecord /\ WrittenOK(sync, accounts, members, profiles)

LEMMA DirectoryFollows == DirectoryInv => DirectoryTypeOK
<1> SUFFICES ASSUME DirectoryInv PROVE DirectoryTypeOK
  OBVIOUS
<1>1. Table(members, Mail, MemberRow) /\ Table(profiles, ProfileId, ProfileRow)
      /\ Table(accounts, GraphUser, DOMAIN members)
  BY RowsAre DEF DirectoryInv, TablesOK, Table
<1> QED BY <1>1 DEF DirectoryInv, TablesOK, DirectoryTypeOK, SyncRecord

LEMMA NothingWritten ==
    ASSUME NEW b \in BOOLEAN
    PROVE  /\ [NoSync EXCEPT !.running = b] \in SyncRecord
           /\ NoSync \in SyncRecord
           /\ WrittenOK([NoSync EXCEPT !.running = b], accounts, members, profiles)
           /\ WrittenOK(NoSync, accounts, members, profiles)
  BY RowsAre DEF NoSync, SyncRecord, WrittenOK

LEMMA DirectoryBegins == DirectoryInit => DirectoryInv
<1> SUFFICES ASSUME DirectoryInit PROVE DirectoryInv
  OBVIOUS
<1>1. PICK U \in SUBSET Mail, role \in BOOLEAN : members = [u \in U |-> [active |-> TRUE, role |-> role]]
  BY DEF DirectoryInit
<1>2. members \in Rows(Mail, MemberRow)
  <2>1. members \in [U -> MemberRow]
    BY <1>1 DEF MemberRow
  <2> QED BY <2>1 DEF Rows
<1>3. TablesOK
  BY <1>2, RowsAre DEF DirectoryInit, TablesOK
<1>4. sync \in SyncRecord /\ WrittenOK(sync, accounts, members, profiles)
  BY NothingWritten DEF DirectoryInit
<1> QED BY <1>3, <1>4 DEF DirectoryInv

\* What SyncUser makes of what the sync has written.
LEMMA UserWritten ==
    ASSUME DirectoryInv, NEW g \in GraphUser, NEW mail \in Mail, NEW boss \in GraphUser \cup {Nobody},
           SyncUser(g, mail, boss)
    PROVE  DirectoryInv'
<1> DEFINE u == UserOf(g, mail)
           known == Over(sync.members, members)
           new == MemberToWrite(u, known)
           row == ProfileToWrite(g, u, boss)
<1>1. /\ sync \in SyncRecord /\ sync.running
      /\ sync.accounts \in Rows(GraphUser, Mail) /\ sync.members \in Rows(Mail, MemberRow)
      /\ sync.profiles \in Rows(GraphUser, ProfileRow) /\ sync.profiles \in Rows(ProfileId, ProfileRow)
      /\ accounts \in Rows(GraphUser, Mail) /\ members \in Rows(Mail, MemberRow)
      /\ profiles \in Rows(ProfileId, ProfileRow)
  <2>1. sync.profiles \in Rows(GraphUser, ProfileRow) => sync.profiles \in Rows(ProfileId, ProfileRow)
    BY DEF Rows, ProfileId
  <2> QED BY <2>1 DEF DirectoryInv, SyncRecord, TablesOK, SyncUser
<1>2. /\ DOMAIN known = DOMAIN sync.members \cup DOMAIN members
      /\ \A x \in DOMAIN known : known[x] = IF x \in DOMAIN sync.members THEN sync.members[x] ELSE members[x]
      /\ known \in Rows(Mail, MemberRow)
  <2>1. known \in Rows(Mail, MemberRow)
    BY <1>1, OverRows
  <2> QED BY <2>1 DEF Over
<1>3. u \in Mail /\ (g \in DOMAIN sync.accounts => u = sync.accounts[g])
      /\ (g \in DOMAIN accounts /\ g \notin DOMAIN sync.accounts => u = accounts[g])
  <2>1. /\ DOMAIN Over(sync.accounts, accounts) = DOMAIN sync.accounts \cup DOMAIN accounts
        /\ \A x \in DOMAIN sync.accounts \cup DOMAIN accounts :
             Over(sync.accounts, accounts)[x] =
                IF x \in DOMAIN sync.accounts THEN sync.accounts[x] ELSE accounts[x]
        /\ Over(sync.accounts, accounts) \in Rows(GraphUser, Mail)
    <3>1. Over(sync.accounts, accounts) \in Rows(GraphUser, Mail)
      BY <1>1, OverRows
    <3> QED BY <3>1 DEF Over
  <2>2. \A x \in DOMAIN Over(sync.accounts, accounts) : Over(sync.accounts, accounts)[x] \in Mail
    BY <2>1, RowsAre
  <2> QED BY <2>1, <2>2 DEF UserOf
<1>4. /\ new \in Rows(Mail, MemberRow)
      /\ DOMAIN new \subseteq {u}
      /\ u \in DOMAIN new \cup DOMAIN known
      /\ u \in DOMAIN new => new[u].active /\ (u \in DOMAIN known => known[u].active)
  <2>1. NoRecords \in Rows(Mail, MemberRow) /\ DOMAIN NoRecords = {}
    BY RowsAre
  <2> DEFINE r == [active |-> TRUE, role |-> TRUE]
  <2>2. r \in MemberRow /\ r.active
    BY DEF MemberRow
  <2> HIDE DEF u, known, r
  <2>3. /\ Upsert(NoRecords, u, r) \in Rows(Mail, MemberRow)
        /\ DOMAIN Upsert(NoRecords, u, r) = {u} /\ Upsert(NoRecords, u, r)[u] = r
    <3>1. Upsert(NoRecords, u, r) \in Rows(Mail, MemberRow)
      BY <1>3, <2>1, <2>2, UpsertRows
    <3> QED BY <2>1, <3>1 DEF Upsert
  <2>4. \/ new = NoRecords /\ u \in DOMAIN known
        \/ new = Upsert(NoRecords, u, r) /\ (u \in DOMAIN known => known[u].active)
    BY DEF MemberToWrite, r
  <2> QED BY <2>1, <2>2, <2>3, <2>4
<1>5. row \in ProfileRow /\ row.member = u
      /\ row.manager \in DOMAIN sync.profiles \cup DOMAIN profiles \cup {g} \cup {Nobody}
  <2> DEFINE seen == Over(sync.profiles, profiles)
  <2>1. DOMAIN seen = DOMAIN sync.profiles \cup DOMAIN profiles /\ seen \in Rows(ProfileId, ProfileRow)
        /\ \A x \in DOMAIN seen : seen[x] = IF x \in DOMAIN sync.profiles THEN sync.profiles[x] ELSE profiles[x]
    <3>1. seen \in Rows(ProfileId, ProfileRow)
      BY <1>1, OverRows
    <3> QED BY <3>1 DEF Over
  <2>2. \A x \in DOMAIN seen : seen[x].manager \in GraphUser \cup {Nobody}
        /\ seen[x].manager \in DOMAIN sync.profiles \cup DOMAIN profiles \cup {Nobody}
    <3> SUFFICES ASSUME NEW x \in DOMAIN seen
                 PROVE  /\ seen[x].manager \in GraphUser \cup {Nobody}
                        /\ seen[x].manager \in DOMAIN sync.profiles \cup DOMAIN profiles \cup {Nobody}
      OBVIOUS
    <3>1. seen[x] \in ProfileRow
      BY <2>1, RowsAre
    <3>2. seen[x].manager \in DOMAIN sync.profiles \cup DOMAIN profiles \cup {Nobody}
      BY <2>1 DEF DirectoryInv, TablesOK, WrittenOK
    <3> QED BY <3>1, <3>2 DEF ProfileRow
  <2> HIDE DEF seen
  <2>3. row = [member |-> u, by |-> "directory",
               manager |-> IF boss \in DOMAIN seen \cup {g} THEN boss
                           ELSE IF g \in DOMAIN seen THEN seen[g].manager ELSE Nobody]
    BY DEF ProfileToWrite, seen
  <2> DEFINE m == IF boss \in DOMAIN seen \cup {g} THEN boss
                  ELSE IF g \in DOMAIN seen THEN seen[g].manager ELSE Nobody
  <2>4. m \in GraphUser \cup {Nobody}
        /\ m \in DOMAIN sync.profiles \cup DOMAIN profiles \cup {g} \cup {Nobody}
    BY <2>1, <2>2
  <2> HIDE DEF m, row, u
  <2> QED BY <1>3, <2>3, <2>4 DEF ProfileRow, m
<1>6. /\ sync'.running = sync.running /\ sync'.failed = sync.failed
      /\ sync'.seen = sync.seen \cup {g}
      /\ sync'.accounts = Upsert(sync.accounts, g, u)
      /\ sync'.members = Over(new, sync.members)
      /\ sync'.profiles = Upsert(sync.profiles, g, row)
      /\ sync' = [sync EXCEPT !.seen = sync'.seen, !.accounts = sync'.accounts,
                              !.members = sync'.members, !.profiles = sync'.profiles]
  BY <1>1 DEF SyncUser, SyncRecord
<1> HIDE DEF u, known, new, row
<1>7. /\ sync'.accounts \in Rows(GraphUser, Mail) /\ DOMAIN sync'.accounts = DOMAIN sync.accounts \cup {g}
      /\ \A x \in DOMAIN sync'.accounts : sync'.accounts[x] = IF x = g THEN u ELSE sync.accounts[x]
      /\ sync'.profiles \in Rows(GraphUser, ProfileRow) /\ DOMAIN sync'.profiles = DOMAIN sync.profiles \cup {g}
      /\ \A x \in DOMAIN sync'.profiles : sync'.profiles[x] = IF x = g THEN row ELSE sync.profiles[x]
  <2>1. sync'.accounts \in Rows(GraphUser, Mail)
    BY <1>1, <1>3, <1>6, UpsertRows
  <2>2. sync'.profiles \in Rows(GraphUser, ProfileRow)
    BY <1>1, <1>5, <1>6, UpsertRows
  <2> QED BY <1>6, <2>1, <2>2 DEF Upsert
<1>8. /\ sync'.members \in Rows(Mail, MemberRow) /\ DOMAIN sync'.members = DOMAIN new \cup DOMAIN sync.members
      /\ \A x \in DOMAIN sync'.members : sync'.members[x] = IF x \in DOMAIN new THEN new[x] ELSE sync.members[x]
  <2>1. sync'.members \in Rows(Mail, MemberRow)
    BY <1>1, <1>4, <1>6, OverRows
  <2> QED BY <1>6, <2>1 DEF Over
<1>9. sync' \in SyncRecord
  <2> DEFINE a == sync'.accounts
             m == sync'.members
             p == sync'.profiles
             s == sync'.seen
  <2>1. a \in Rows(GraphUser, Mail) /\ m \in Rows(Mail, MemberRow) /\ p \in Rows(GraphUser, ProfileRow)
        /\ s \in SUBSET GraphUser /\ sync' = [sync EXCEPT !.seen = s, !.accounts = a, !.members = m, !.profiles = p]
    BY <1>1, <1>6, <1>7, <1>8 DEF SyncRecord
  <2> HIDE DEF a, m, p, s
  <2> QED BY <1>1, <2>1 DEF SyncRecord
<1>10. UNCHANGED <<settings, accounts, members, profiles>>
  BY DEF SyncUser
<1>11. WrittenOK(sync', accounts, members, profiles)
  <2>1. DOMAIN sync'.accounts = DOMAIN sync'.profiles
    BY <1>7 DEF DirectoryInv, WrittenOK
  <2>2. ASSUME NEW x \in DOMAIN sync'.profiles
        PROVE  /\ sync'.profiles[x].member = sync'.accounts[x]
               /\ sync'.accounts[x] \in DOMAIN sync'.members \cup DOMAIN members
               /\ sync'.profiles[x].manager \in DOMAIN sync'.profiles \cup DOMAIN profiles \cup {Nobody}
    <3>1. CASE x = g
      BY <1>2, <1>4, <1>5, <1>7, <1>8, <3>1
    <3>2. CASE x # g
      BY <1>7, <1>8, <2>2, <3>2 DEF DirectoryInv, WrittenOK
    <3> QED BY <3>1, <3>2
  <2>3. ASSUME NEW x \in DOMAIN sync'.members
        PROVE  sync'.members[x].active /\ (x \in DOMAIN members => members[x].active)
    <3>1. CASE x \in DOMAIN new
      <4>1. x = u /\ sync'.members[x].active
        BY <1>4, <1>8, <3>1
      <4>2. ASSUME x \in DOMAIN members PROVE members[x].active
        <5>1. x \in DOMAIN known /\ known[x].active
          BY <1>2, <1>4, <3>1, <4>1, <4>2
        <5>2. CASE x \in DOMAIN sync.members
          BY <4>2, <5>2 DEF DirectoryInv, WrittenOK
        <5>3. CASE x \notin DOMAIN sync.members
          BY <1>2, <5>1, <5>3
        <5> QED BY <5>2, <5>3
      <4> QED BY <4>1, <4>2
    <3>2. CASE x \notin DOMAIN new
      BY <1>8, <2>3, <3>2 DEF DirectoryInv, WrittenOK
    <3> QED BY <3>1, <3>2
  <2> QED BY <2>1, <2>2, <2>3 DEF WrittenOK
<1> QED BY <1>9, <1>10, <1>11 DEF DirectoryInv, TablesOK, WrittenOK

LEMMA SyncCommitted ==
    ASSUME DirectoryInv, CommitSync
    PROVE  DirectoryInv'
<1>1. /\ sync.accounts \in Rows(GraphUser, Mail) /\ sync.members \in Rows(Mail, MemberRow)
      /\ sync.profiles \in Rows(GraphUser, ProfileRow) /\ sync.profiles \in Rows(ProfileId, ProfileRow)
      /\ accounts \in Rows(GraphUser, Mail) /\ members \in Rows(Mail, MemberRow)
      /\ profiles \in Rows(ProfileId, ProfileRow)
  <2>1. sync.profiles \in Rows(GraphUser, ProfileRow) => sync.profiles \in Rows(ProfileId, ProfileRow)
    BY DEF Rows, ProfileId
  <2> QED BY <2>1 DEF DirectoryInv, SyncRecord, TablesOK
<1>2. /\ accounts' \in Rows(GraphUser, Mail)
      /\ DOMAIN accounts' = DOMAIN sync.accounts \cup DOMAIN accounts
      /\ \A x \in DOMAIN accounts' : accounts'[x] = IF x \in DOMAIN sync.accounts THEN sync.accounts[x] ELSE accounts[x]
  <2>1. accounts' \in Rows(GraphUser, Mail)
    BY <1>1, OverRows DEF CommitSync
  <2> QED BY <2>1 DEF CommitSync, Over
<1>3. /\ members' \in Rows(Mail, MemberRow)
      /\ DOMAIN members' = DOMAIN sync.members \cup DOMAIN members
  <2>1. members' \in Rows(Mail, MemberRow)
    BY <1>1, OverRows DEF CommitSync
  <2> QED BY <2>1 DEF CommitSync, Over
<1>4. /\ profiles' \in Rows(ProfileId, ProfileRow)
      /\ DOMAIN profiles' = DOMAIN sync.profiles \cup DOMAIN profiles
      /\ \A x \in DOMAIN profiles' : profiles'[x] = IF x \in DOMAIN sync.profiles THEN sync.profiles[x] ELSE profiles[x]
  <2>1. profiles' \in Rows(ProfileId, ProfileRow)
    BY <1>1, OverRows DEF CommitSync
  <2> QED BY <2>1 DEF CommitSync, Over
<1>5. settings' \in [there : BOOLEAN, status : {"null", "success", "completed_with_errors"}]
  BY DEF CommitSync, DirectoryInv, TablesOK
<1>6. \A g \in DOMAIN accounts' : accounts'[g] \in DOMAIN members'
  BY <1>2, <1>3 DEF DirectoryInv, TablesOK, WrittenOK
<1>7. ASSUME NEW p \in DOMAIN profiles'
      PROVE  /\ profiles'[p].member \in DOMAIN members'
             /\ profiles'[p].manager \in DOMAIN profiles' \cup {Nobody}
             /\ p \in GraphUser => p \in DOMAIN accounts' /\ accounts'[p] = profiles'[p].member
  <2>1. CASE p \in DOMAIN sync.profiles
    BY <1>2, <1>3, <1>4, <2>1 DEF DirectoryInv, WrittenOK
  <2>2. CASE p \notin DOMAIN sync.profiles
    BY <1>2, <1>3, <1>4, <1>7, <2>2 DEF DirectoryInv, TablesOK, WrittenOK
  <2> QED BY <2>1, <2>2
<1>8. sync' = NoSync
  BY DEF CommitSync
<1>9. sync' \in SyncRecord /\ WrittenOK(sync', accounts', members', profiles')
  BY <1>8, RowsAre DEF NoSync, SyncRecord, WrittenOK
<1> QED BY <1>2, <1>3, <1>4, <1>5, <1>6, <1>7, <1>9 DEF DirectoryInv, TablesOK, WrittenOK

\* Only what the sync has written changes, and nothing of it that matters.
LEMMA SyncControlled ==
    ASSUME DirectoryInv,
           SaveSettings \/ StartSync \/ AbandonSync \/ \E g \in GraphUser : SkipUser(g)
    PROVE  DirectoryInv'
<1>1. CASE SaveSettings
  BY <1>1 DEF SaveSettings, DirectoryInv, TablesOK, SyncRecord, WrittenOK
<1>2. CASE StartSync
  <2>1. sync' \in SyncRecord /\ WrittenOK(sync', accounts, members, profiles)
    BY <1>2, RowsAre DEF StartSync, NoSync, SyncRecord, WrittenOK
  <2> QED BY <1>2, <2>1 DEF StartSync, DirectoryInv, TablesOK, WrittenOK
<1>3. CASE AbandonSync
  <2>1. sync' \in SyncRecord /\ WrittenOK(sync', accounts, members, profiles)
    BY <1>3, RowsAre DEF AbandonSync, NoSync, SyncRecord, WrittenOK
  <2> QED BY <1>3, <2>1 DEF AbandonSync, DirectoryInv, TablesOK, WrittenOK
<1>4. ASSUME NEW g \in GraphUser, SkipUser(g) PROVE DirectoryInv'
  <2>1. /\ sync' \in SyncRecord /\ sync'.accounts = sync.accounts
        /\ sync'.members = sync.members /\ sync'.profiles = sync.profiles
    BY <1>4 DEF SkipUser, DirectoryInv, SyncRecord
  <2> QED BY ZenonT(40), <1>4, <2>1 DEF SkipUser, DirectoryInv, TablesOK, WrittenOK
<1> QED BY <1>1, <1>2, <1>3, <1>4

LEMMA StatusSet ==
    ASSUME DirectoryInv, NEW u \in Mail, NEW active \in BOOLEAN, SetMemberStatus(u, active)
    PROVE  DirectoryInv'
<1>1. /\ members \in Rows(Mail, MemberRow) /\ u \in DOMAIN members
      /\ members' = [members EXCEPT ![u].active = active] /\ u \notin DOMAIN sync.members
  BY DEF DirectoryInv, TablesOK, SetMemberStatus, Unlocked
<1>2. [members[u] EXCEPT !.active = active] \in MemberRow
  <2>1. members[u] \in MemberRow
    BY <1>1, RowsAre
  <2> QED BY <2>1 DEF MemberRow
<1>3. /\ DOMAIN members' = DOMAIN members /\ \A x \in DOMAIN members : x # u => members'[x] = members[x]
      /\ members' \in [DOMAIN members -> MemberRow] /\ DOMAIN members \in SUBSET Mail
  <2>1. members \in [DOMAIN members -> MemberRow] /\ DOMAIN members \in SUBSET Mail
    BY <1>1 DEF Rows
  <2> QED BY <1>1, <1>2, <2>1
<1>4. members' \in Rows(Mail, MemberRow)
  BY <1>3 DEF Rows
<1> QED BY <1>1, <1>3, <1>4 DEF DirectoryInv, TablesOK, WrittenOK, SetMemberStatus

\* A profile is replaced by one of the same member, or added for one without.
LEMMA ProfileSet ==
    ASSUME DirectoryInv, NEW p \in ProfileId, NEW row \in ProfileRow,
           row.member \in DOMAIN members, row.manager \in DOMAIN profiles \cup {Nobody},
           \/ p \in DOMAIN profiles /\ profiles[p].member = row.member
           \/ p \notin GraphUser,
           NEW ps, ps = profiles',
           DOMAIN ps = DOMAIN profiles \cup {p},
           \A x \in DOMAIN ps : ps[x] = IF x = p THEN row ELSE profiles[x],
           ps \in Rows(ProfileId, ProfileRow),
           UNCHANGED <<settings, accounts, members, sync>>
    PROVE  DirectoryInv'
<1>1. \A x \in DOMAIN ps :
         /\ ps[x].member \in DOMAIN members
         /\ ps[x].manager \in DOMAIN ps \cup {Nobody}
         /\ x \in GraphUser => x \in DOMAIN accounts /\ accounts[x] = ps[x].member
  BY DEF DirectoryInv, TablesOK
<1>2. WrittenOK(sync, accounts, members, ps)
  BY DEF DirectoryInv, WrittenOK
<1> QED BY <1>1, <1>2 DEF DirectoryInv, TablesOK, WrittenOK

LEMMA ProfilesEdited ==
    ASSUME DirectoryInv, NEW u \in Mail,
           UpdateEmployeeDetails(u) \/ \E boss \in GraphUser \cup {Nobody} : RefreshEmployee(u, boss)
    PROVE  DirectoryInv'
<1>1. profiles \in Rows(ProfileId, ProfileRow)
      /\ \A p \in DOMAIN profiles : p \in ProfileId /\ profiles[p] \in ProfileRow
  BY RowsAre DEF DirectoryInv, TablesOK
<1>2. CASE /\ u \in DOMAIN members
           /\ profiles' = Upsert(profiles, Manual(u), [member |-> u, manager |-> Nobody, by |-> "administrator"])
           /\ UNCHANGED <<settings, accounts, members, sync>>
           /\ Owned(u) = {}
  <2> DEFINE row == [member |-> u, manager |-> Nobody, by |-> "administrator"]
             p == Manual(u)
  <2>1. row \in ProfileRow /\ row.member = u /\ row.manager = Nobody /\ p \in ProfileId
    BY DEF ProfileRow, ProfileId
  <2>2. p \in DOMAIN profiles => profiles[p].member = u \/ p \notin GraphUser
    BY ManualIds
  <2>3. p \notin GraphUser
    BY ManualIds
  <2> HIDE DEF row, p
  <2>4. profiles' = Upsert(profiles, p, row)
    BY <1>2 DEF row, p
  <2>5. /\ profiles' \in Rows(ProfileId, ProfileRow) /\ DOMAIN profiles' = DOMAIN profiles \cup {p}
        /\ \A x \in DOMAIN profiles' : profiles'[x] = IF x = p THEN row ELSE profiles[x]
    <3>1. profiles' \in Rows(ProfileId, ProfileRow)
      BY <1>1, <2>1, <2>4, UpsertRows
    <3> QED BY <2>4, <3>1 DEF Upsert
  <2> QED BY <1>2, <2>1, <2>3, <2>5, ProfileSet
<1>3. ASSUME NEW p \in DOMAIN profiles, profiles[p].member = u, NEW row \in ProfileRow, row.member = u,
             row.manager \in DOMAIN profiles \cup {Nobody}, u \in DOMAIN members,
             profiles' = [profiles EXCEPT ![p] = row], UNCHANGED <<settings, accounts, members, sync>>
      PROVE  DirectoryInv'
  <2>1. /\ profiles \in [DOMAIN profiles -> ProfileRow] /\ DOMAIN profiles \in SUBSET ProfileId
    BY <1>1 DEF Rows
  <2>2. /\ profiles' \in [DOMAIN profiles -> ProfileRow] /\ DOMAIN profiles' = DOMAIN profiles
        /\ \A x \in DOMAIN profiles' : profiles'[x] = IF x = p THEN row ELSE profiles[x]
    BY <1>3, <2>1
  <2>3. profiles' \in Rows(ProfileId, ProfileRow) /\ DOMAIN profiles' = DOMAIN profiles \cup {p}
    BY <2>1, <2>2 DEF Rows
  <2>4. p \in ProfileId
    BY <1>1
  <2>5. p \in DOMAIN profiles /\ profiles[p].member = row.member /\ row.member \in DOMAIN members
    BY <1>3
  <2>6. \A x \in DOMAIN profiles' : profiles'[x] = IF x = p THEN row ELSE profiles[x]
    BY <2>2
  <2> QED BY ONLY DirectoryInv, <1>3, <2>3, <2>4, <2>5, <2>6, ProfileSet
<1>4. CASE UpdateEmployeeDetails(u)
  <2>1. ASSUME NEW p \in ProfileId, Owned(u) = {p}, profiles' = [profiles EXCEPT ![p].by = "administrator"],
               u \in DOMAIN members, UNCHANGED <<settings, accounts, members, sync>>
        PROVE  DirectoryInv'
    <3> DEFINE row == [profiles[p] EXCEPT !.by = "administrator"]
    <3>1. p \in DOMAIN profiles /\ profiles[p].member = u
      BY <2>1 DEF Owned
    <3>2. row \in ProfileRow /\ row.member = u /\ row.manager = profiles[p].manager
      BY <1>1, <3>1 DEF ProfileRow
    <3>3. profiles' = [profiles EXCEPT ![p] = row]
      BY <2>1
    <3>4. profiles[p].manager \in DOMAIN profiles \cup {Nobody}
      BY <3>1 DEF DirectoryInv, TablesOK
    <3> HIDE DEF row
    <3> QED BY <1>3, <2>1, <3>1, <3>2, <3>3, <3>4
  <2> QED BY <1>2, <1>4, <2>1 DEF UpdateEmployeeDetails
<1>5. ASSUME NEW boss \in GraphUser \cup {Nobody}, RefreshEmployee(u, boss) PROVE DirectoryInv'
  <2>1. PICK p \in ProfileId :
      /\ u \in DOMAIN members /\ Owned(u) = {p}
      /\ profiles' = [profiles EXCEPT ![p] =
            IF p \in GraphUser
            THEN [member |-> u, by |-> "directory",
                  manager |-> IF boss \in DOMAIN profiles THEN boss ELSE Nobody]
            ELSE [profiles[p] EXCEPT !.manager = Nobody]]
      /\ UNCHANGED <<settings, accounts, members, sync>>
    BY <1>5 DEF RefreshEmployee
  <2> DEFINE fresh == [member |-> u, by |-> "directory",
                       manager |-> IF boss \in DOMAIN profiles THEN boss ELSE Nobody]
             left == [profiles[p] EXCEPT !.manager = Nobody]
             row == IF p \in GraphUser THEN fresh ELSE left
  <2>2. p \in DOMAIN profiles /\ profiles[p].member = u
    BY <2>1 DEF Owned
  <2>3. fresh \in ProfileRow /\ fresh.member = u /\ fresh.manager \in DOMAIN profiles \cup {Nobody}
    <3> DEFINE m == IF boss \in DOMAIN profiles THEN boss ELSE Nobody
    <3>1. m \in GraphUser \cup {Nobody} /\ m \in DOMAIN profiles \cup {Nobody}
      OBVIOUS
    <3> HIDE DEF m
    <3> QED BY <3>1 DEF ProfileRow
  <2>4. left \in ProfileRow /\ left.member = u /\ left.manager = Nobody
    BY <1>1, <2>2 DEF ProfileRow
  <2>5. profiles' = [profiles EXCEPT ![p] = row]
    BY <2>1
  <2> HIDE DEF fresh, left
  <2>6. row \in ProfileRow /\ row.member = u /\ row.manager \in DOMAIN profiles \cup {Nobody}
    BY <2>3, <2>4
  <2> HIDE DEF row
  <2> QED BY <1>3, <2>1, <2>2, <2>5, <2>6
<1> QED BY <1>4, <1>5

LEMMA DirectorySteps == DirectoryInv /\ [DirectoryNext]_directoryVars => DirectoryInv'
<1> SUFFICES ASSUME DirectoryInv, [DirectoryNext]_directoryVars PROVE DirectoryInv'
  OBVIOUS
<1>1. CASE UNCHANGED directoryVars
  BY <1>1 DEF directoryVars, DirectoryInv, TablesOK, WrittenOK
<1>2. CASE DirectoryNext
  BY <1>2, SyncControlled, SyncCommitted, UserWritten, StatusSet, ProfilesEdited DEF DirectoryNext
<1> QED BY <1>1, <1>2

\* What DeactivatedStays says of one step.
StaysStep ==
    \A u \in DOMAIN members :
      (~members[u].active /\ members'[u].active) => UNCHANGED <<sync, profiles>>

LEMMA DeactivatedStep == DirectoryInv /\ DirectoryNext => StaysStep
<1> SUFFICES ASSUME DirectoryInv, DirectoryNext, NEW u \in DOMAIN members,
                    ~members[u].active, members'[u].active
             PROVE  UNCHANGED <<sync, profiles>>
  BY DEF StaysStep
<1>1. CASE UNCHANGED members
  BY <1>1
<1>2. CASE CommitSync
  <2>1. u \notin DOMAIN sync.members
    BY DEF DirectoryInv, WrittenOK
  <2>2. members'[u] = members[u]
    BY <1>2, <2>1 DEF CommitSync, Over
  <2> QED BY <2>2
<1>3. CASE \E v \in Mail : \E active \in BOOLEAN : SetMemberStatus(v, active)
  BY <1>3 DEF SetMemberStatus
<1>4. DirectoryNext => UNCHANGED members \/ CommitSync
                       \/ \E v \in Mail : \E active \in BOOLEAN : SetMemberStatus(v, active)
  BY DEF DirectoryNext, SaveSettings, StartSync, AbandonSync, SkipUser, SyncUser,
         UpdateEmployeeDetails, RefreshEmployee
<1> QED BY <1>1, <1>2, <1>3, <1>4

\* A sync under way keeps its tables consistent, whatever handlers do meanwhile
\* (microsoft_graph/service.py).
THEOREM DirectoryTypeCorrect == DirectorySpec => []DirectoryTypeOK
  BY DirectoryBegins, DirectorySteps, DirectoryFollows, PTL DEF DirectorySpec

\* No sync makes a deactivated member active again, however many users it writes and
\* whatever is deactivated while it runs (microsoft_graph/service.py).
THEOREM DeactivatedForGood == DirectorySpec => DeactivatedStays
<1>1. DirectoryInv /\ [DirectoryNext]_directoryVars => [StaysStep]_directoryVars
  BY DeactivatedStep
<1> QED BY <1>1, DirectoryBegins, DirectorySteps, PTL DEF DirectorySpec, DeactivatedStays, StaysStep

-----------------------------------------------------------------------------
(* The catalog of assets. *)

CatalogTables ==
    /\ codes \in Rows(Code, CodeRow) /\ categories \in Rows(Category, CatalogCategoryRow)
    /\ fields \in Rows(CategoryField, FieldRow) /\ items \in Rows(Item, ItemRow)

\* An asset names a category that is there, or none, and keeps values of fields
\* that are there; its label is the category's unless it was given one.
ItemOK(row, cs, fs) ==
    /\ row.category \in DOMAIN cs \cup {"null"}
    /\ row.values \subseteq DOMAIN fs
    /\ ~row.deleted /\ ~row.given =>
          row.label = IF row.category \in DOMAIN cs THEN cs[row.category].name ELSE "OTHER"

ItemsOK == \A i \in DOMAIN items : ItemOK(items[i], categories, fields)

\* No two rows among those given share a name.
OwnNames(table, among) == \A k \in among : NameFree(table, k, table[k].name, among)

CatalogInv ==
    /\ CatalogTables /\ ItemsOK
    /\ OwnNames(categories, DOMAIN categories) /\ OwnNames(codes, ActiveOf(codes))

\* Adding the OS field, or making it a choice again, removes no field.
LEMMA EnsuredFields ==
    ASSUME NEW cs \in Rows(Category, CatalogCategoryRow), NEW fs \in Rows(CategoryField, FieldRow),
           NEW f \in CategoryField
    PROVE  /\ EnsuredOs(cs, fs, f) \in Rows(CategoryField, FieldRow)
           /\ DOMAIN fs \subseteq DOMAIN EnsuredOs(cs, fs, f)
<1>1. CASE LaptopCategories(cs) = {}
  BY <1>1 DEF EnsuredOs
<1>2. CASE LaptopCategories(cs) # {}
  <2> DEFINE c == CHOOSE c \in LaptopCategories(cs) : TRUE
             o == CHOOSE o \in OsFields(fs, c) : TRUE
             row == [category |-> c, name |-> "OS", select |-> TRUE]
  <2>1. c \in LaptopCategories(cs)
    BY <1>2
  <2>2. c \in Category
    BY <2>1, RowsAre DEF LaptopCategories, ActiveOf
  <2>3. row \in FieldRow
    BY <2>2, CatalogConstants DEF FieldRow
  <2>4. EnsuredOs(cs, fs, f) = IF OsFields(fs, c) = {} THEN Upsert(fs, f, row)
                               ELSE [fs EXCEPT ![o].select = TRUE]
    BY <1>2 DEF EnsuredOs
  <2> HIDE DEF c, row
  <2>5. CASE OsFields(fs, c) = {}
    <3>1. DOMAIN fs \subseteq DOMAIN Upsert(fs, f, row)
      BY DEF Upsert
    <3> QED BY <2>3, <2>4, <2>5, <3>1, UpsertRows
  <2>6. CASE OsFields(fs, c) # {}
    <3> DEFINE new == [fs EXCEPT ![o].select = TRUE]
    <3>1. o \in DOMAIN fs
      BY <2>6 DEF OsFields
    <3>2. fs[o] \in FieldRow
      BY <3>1, RowsAre
    <3>3. [fs[o] EXCEPT !.select = TRUE] \in FieldRow
      BY <3>2 DEF FieldRow
    <3>4. new \in [DOMAIN fs -> FieldRow] /\ DOMAIN fs \in SUBSET CategoryField
      BY <3>1, <3>3 DEF Rows
    <3>5. new \in Rows(CategoryField, FieldRow) /\ DOMAIN new = DOMAIN fs
      BY <3>4 DEF Rows
    <3> QED BY <2>4, <2>6, <3>5
  <2> QED BY <2>5, <2>6
<1> QED BY <1>1, <1>2

\* Fields that only become more leave the assets as they are.
LEMMA MoreFields ==
    ASSUME CatalogInv, UNCHANGED <<codes, categories, items>>,
           fields' \in Rows(CategoryField, FieldRow), DOMAIN fields \subseteq DOMAIN fields'
    PROVE  CatalogInv'
BY DEF CatalogInv, CatalogTables, ItemsOK, ItemOK, OwnNames, NameFree, ActiveOf

LEMMA CodeSteps ==
    ASSUME CatalogInv, NEW k \in Code, NEW name \in CodeName,
           CreateCode(k, name) \/ UpdateCode(k, name) \/ DeleteCode(k)
    PROVE  CatalogInv'
<1>0. UNCHANGED <<categories, fields, items>>
  BY DEF CreateCode, UpdateCode, DeleteCode
<1>1. codes \in Rows(Code, CodeRow)
  BY DEF CatalogInv, CatalogTables
<1>2. CASE CreateCode(k, name)
  <2> DEFINE row == [name |-> name, active |-> TRUE]
  <2>1. row \in CodeRow /\ row.name = name /\ row.active
    BY DEF CodeRow
  <2>2. codes' = Upsert(codes, k, row) /\ k \notin DOMAIN codes
        /\ NameFree(codes, k, name, ActiveOf(codes))
    BY <1>2 DEF CreateCode
  <2> HIDE DEF row
  <2>3. codes' \in Rows(Code, CodeRow)
    BY <1>1, <2>1, <2>2, UpsertRows
  <2>4. OwnNames(codes, ActiveOf(codes))'
    BY <2>1, <2>2 DEF Upsert, OwnNames, NameFree, ActiveOf, CatalogInv
  <2> QED BY <1>0, <2>3, <2>4 DEF CatalogInv, CatalogTables, ItemsOK
<1>3. CASE UpdateCode(k, name)
  <2>1. codes' = [codes EXCEPT ![k].name = name] /\ k \in DOMAIN codes /\ codes[k].active
        /\ NameFree(codes, k, name, ActiveOf(codes))
    BY <1>3 DEF UpdateCode, ActiveOf
  <2>2. codes \in [DOMAIN codes -> CodeRow] /\ DOMAIN codes \subseteq Code
    BY <1>1 DEF Rows
  <2>3. codes' \in [DOMAIN codes -> CodeRow]
    BY <2>1, <2>2 DEF CodeRow
  <2>4. codes' \in Rows(Code, CodeRow)
    BY <2>2, <2>3 DEF Rows
  <2>5. /\ DOMAIN codes' = DOMAIN codes
        /\ codes'[k].name = name
        /\ \A x \in DOMAIN codes : codes'[x].active = codes[x].active
        /\ \A x \in DOMAIN codes \ {k} : codes'[x] = codes[x]
    BY <2>1, <2>2 DEF CodeRow
  <2>6. OwnNames(codes, ActiveOf(codes))'
    BY <2>1, <2>5 DEF OwnNames, NameFree, ActiveOf, CatalogInv
  <2> QED BY <1>0, <2>4, <2>6 DEF CatalogInv, CatalogTables, ItemsOK
<1>4. CASE DeleteCode(k)
  <2>1. codes' = [codes EXCEPT ![k].active = FALSE] /\ k \in DOMAIN codes
    BY <1>4 DEF DeleteCode, ActiveOf
  <2>2. codes \in [DOMAIN codes -> CodeRow] /\ DOMAIN codes \subseteq Code
    BY <1>1 DEF Rows
  <2>3. codes' \in [DOMAIN codes -> CodeRow]
    BY <2>1, <2>2 DEF CodeRow
  <2>4. codes' \in Rows(Code, CodeRow)
    BY <2>2, <2>3 DEF Rows
  <2>5. /\ DOMAIN codes' = DOMAIN codes
        /\ \A x \in DOMAIN codes : codes'[x].name = codes[x].name
        /\ \A x \in DOMAIN codes : codes'[x].active => codes[x].active
    BY <2>1, <2>2 DEF CodeRow
  <2>6. OwnNames(codes, ActiveOf(codes))'
    BY <2>5 DEF OwnNames, NameFree, ActiveOf, CatalogInv
  <2> QED BY <1>0, <2>4, <2>6 DEF CatalogInv, CatalogTables, ItemsOK
<1> QED BY <1>2, <1>3, <1>4

\* A new category, under a free name.
LEMMA CreateCategoryKeeps ==
    ASSUME CatalogInv, NEW c \in Category, NEW name \in CategoryName, NEW f \in CategoryField,
           CreateCategory(c, name, f)
    PROVE  CatalogInv'
<1> DEFINE row == [name |-> name, active |-> TRUE]
<1>1. /\ categories \in Rows(Category, CatalogCategoryRow)
      /\ fields \in Rows(CategoryField, FieldRow)
  BY DEF CatalogInv, CatalogTables
<1>2. row \in CatalogCategoryRow /\ row.name = name
  BY DEF CatalogCategoryRow
<1>3. /\ categories' = Upsert(categories, c, row) /\ c \notin DOMAIN categories
      /\ NameFree(categories, c, name, DOMAIN categories) /\ UNCHANGED <<codes, items>>
      /\ fields' = fields \/ fields' = EnsuredOs(categories', fields, f)
  BY DEF CreateCategory
<1> HIDE DEF row
<1>4. categories' \in Rows(Category, CatalogCategoryRow)
  BY <1>1, <1>2, <1>3, UpsertRows
<1>5. fields' \in Rows(CategoryField, FieldRow) /\ DOMAIN fields \subseteq DOMAIN fields'
  <2> PICK cs : cs = categories'
    OBVIOUS
  <2>1. /\ EnsuredOs(cs, fields, f) \in Rows(CategoryField, FieldRow)
        /\ DOMAIN fields \subseteq DOMAIN EnsuredOs(cs, fields, f)
    BY <1>1, <1>4, EnsuredFields
  <2> QED BY <1>1, <1>3, <2>1
<1>6. /\ DOMAIN categories' = DOMAIN categories \cup {c} /\ categories'[c].name = name
      /\ \A x \in DOMAIN categories : categories'[x] = categories[x]
  BY <1>2, <1>3 DEF Upsert
<1>7. OwnNames(categories, DOMAIN categories)'
  BY <1>3, <1>6 DEF OwnNames, NameFree, CatalogInv
<1>8. ItemsOK'
  <2> SUFFICES ASSUME NEW i \in DOMAIN items PROVE ItemOK(items[i], categories', fields')
    BY <1>3 DEF ItemsOK
  <2>1. ItemOK(items[i], categories, fields)
    BY DEF CatalogInv, ItemsOK
  <2>2. items[i].category # c
    BY <1>3, <2>1, CatalogConstants DEF ItemOK
  <2> QED BY <1>5, <1>6, <2>1, <2>2 DEF ItemOK
<1> QED BY <1>3, <1>4, <1>5, <1>7, <1>8 DEF CatalogInv, CatalogTables, OwnNames, NameFree, ActiveOf

\* The assets of a renamed category carry its new name.
LEMMA UpdateCategoryKeeps ==
    ASSUME CatalogInv, NEW c \in Category, NEW name \in CategoryName, NEW f \in CategoryField,
           UpdateCategory(c, name, f)
    PROVE  CatalogInv'
<1>1. /\ categories \in [DOMAIN categories -> CatalogCategoryRow]
      /\ DOMAIN categories \subseteq Category
      /\ fields \in Rows(CategoryField, FieldRow)
      /\ items \in [DOMAIN items -> ItemRow] /\ DOMAIN items \subseteq Item
  BY DEF CatalogInv, CatalogTables, Rows
<1>2. /\ categories' = [categories EXCEPT ![c].name = name] /\ c \in DOMAIN categories
      /\ NameFree(categories, c, name, DOMAIN categories) /\ UNCHANGED codes
      /\ items' = Relabelled(c, name)
      /\ fields' = fields \/ fields' = EnsuredOs(categories', fields, f)
  BY DEF UpdateCategory, ActiveOf
<1>3. categories' \in [DOMAIN categories -> CatalogCategoryRow]
  BY <1>1, <1>2 DEF CatalogCategoryRow
<1>4. categories' \in Rows(Category, CatalogCategoryRow)
  BY <1>1, <1>3 DEF Rows
<1>5. fields' \in Rows(CategoryField, FieldRow) /\ DOMAIN fields \subseteq DOMAIN fields'
  <2> PICK cs : cs = categories'
    OBVIOUS
  <2>1. /\ EnsuredOs(cs, fields, f) \in Rows(CategoryField, FieldRow)
        /\ DOMAIN fields \subseteq DOMAIN EnsuredOs(cs, fields, f)
    BY <1>1, <1>4, EnsuredFields
  <2> QED BY <1>1, <1>2, <2>1
<1>6. /\ DOMAIN categories' = DOMAIN categories /\ categories'[c].name = name
      /\ \A x \in DOMAIN categories \ {c} : categories'[x] = categories[x]
  BY <1>1, <1>2 DEF CatalogCategoryRow
<1>7. OwnNames(categories, DOMAIN categories)'
  BY <1>2, <1>6 DEF OwnNames, NameFree, CatalogInv
<1>8. ASSUME NEW i \in DOMAIN items
      PROVE  items'[i] \in ItemRow /\ ItemOK(items'[i], categories', fields')
  <2> DEFINE old == items[i]
             new == [old EXCEPT !.label = name, !.given = FALSE]
  <2>1. old \in ItemRow /\ ItemOK(old, categories, fields)
    BY <1>1, <1>8 DEF CatalogInv, ItemsOK
  <2>2. new \in ItemRow
    BY <2>1 DEF ItemRow
  <2>3. /\ new.category = old.category /\ new.values = old.values /\ new.label = name
        /\ new.deleted = old.deleted
    BY <2>1 DEF ItemRow
  <2>4. items'[i] = IF old.category = c /\ ~old.deleted THEN new ELSE old
    BY <1>2, <1>8 DEF Relabelled
  <2> HIDE DEF old, new
  <2> QED BY <1>2, <1>5, <1>6, <2>1, <2>2, <2>3, <2>4 DEF ItemOK
<1>9. DOMAIN items' = DOMAIN items /\ items' \in [DOMAIN items -> ItemRow]
  <2>1. DOMAIN items' = DOMAIN items /\ items' = [i \in DOMAIN items |-> items'[i]]
    BY <1>2 DEF Relabelled
  <2> QED BY <1>8, <2>1
<1>10. items' \in Rows(Item, ItemRow)
  BY <1>1, <1>9 DEF Rows
<1>11. ItemsOK'
  BY <1>8, <1>9 DEF ItemsOK
<1> QED BY <1>2, <1>4, <1>5, <1>7, <1>10, <1>11
    DEF CatalogInv, CatalogTables, OwnNames, NameFree, ActiveOf

LEMMA DeleteCategoryKeeps ==
    ASSUME CatalogInv, NEW c \in Category, DeleteCategory(c)
    PROVE  CatalogInv'
<1>1. /\ categories \in [DOMAIN categories -> CatalogCategoryRow]
      /\ DOMAIN categories \subseteq Category
  BY DEF CatalogInv, CatalogTables, Rows
<1>2. categories' = [categories EXCEPT ![c].active = FALSE] /\ UNCHANGED <<codes, fields, items>>
  BY DEF DeleteCategory
<1>3. categories' \in [DOMAIN categories -> CatalogCategoryRow]
  BY <1>1, <1>2 DEF CatalogCategoryRow
<1>4. categories' \in Rows(Category, CatalogCategoryRow)
  BY <1>1, <1>3 DEF Rows
<1>5. /\ DOMAIN categories' = DOMAIN categories
      /\ \A x \in DOMAIN categories : categories'[x].name = categories[x].name
  BY <1>1, <1>2 DEF CatalogCategoryRow
<1>6. OwnNames(categories, DOMAIN categories)' /\ ItemsOK'
  BY <1>2, <1>5 DEF OwnNames, NameFree, CatalogInv, ItemsOK, ItemOK
<1> QED BY <1>2, <1>4, <1>6 DEF CatalogInv, CatalogTables, OwnNames, NameFree, ActiveOf

\* Fields come and change without touching the assets; a deleted one takes its
\* values along.
LEMMA FieldSteps ==
    ASSUME CatalogInv, NEW f \in CategoryField, NEW c \in Category, NEW name \in FieldName,
           NEW select \in BOOLEAN,
           \/ CreateCategoryField(f, c, name) \/ UpdateCategoryField(f, name, select)
           \/ ListCategories(f) \/ DeleteCategoryField(f)
    PROVE  CatalogInv'
<1>1. /\ fields \in [DOMAIN fields -> FieldRow] /\ DOMAIN fields \subseteq CategoryField
      /\ fields \in Rows(CategoryField, FieldRow)
      /\ items \in [DOMAIN items -> ItemRow] /\ DOMAIN items \subseteq Item
      /\ categories \in Rows(Category, CatalogCategoryRow)
  BY DEF CatalogInv, CatalogTables, Rows
<1>2. CASE CreateCategoryField(f, c, name)
  <2> DEFINE row == [category |-> c, name |-> name, select |-> FALSE]
  <2>1. row \in FieldRow
    BY DEF FieldRow
  <2>2. fields' = Upsert(fields, f, row) /\ UNCHANGED <<codes, categories, items>>
    BY <1>2 DEF CreateCategoryField
  <2> HIDE DEF row
  <2>3. fields' \in Rows(CategoryField, FieldRow)
    BY <1>1, <2>1, <2>2, UpsertRows
  <2>4. DOMAIN fields \subseteq DOMAIN fields'
    BY <2>2 DEF Upsert
  <2> QED BY <2>2, <2>3, <2>4, MoreFields
<1>3. CASE UpdateCategoryField(f, name, select)
  <2> DEFINE row == [category |-> fields[f].category, name |-> name, select |-> select]
  <2>1. f \in DOMAIN fields /\ fields' = [fields EXCEPT ![f] = row]
        /\ UNCHANGED <<codes, categories, items>>
    BY <1>3 DEF UpdateCategoryField
  <2>2. row \in FieldRow
    BY <1>1, <2>1 DEF FieldRow
  <2> HIDE DEF row
  <2>3. fields' \in [DOMAIN fields -> FieldRow]
    BY <1>1, <2>1, <2>2
  <2>4. fields' \in Rows(CategoryField, FieldRow) /\ DOMAIN fields' = DOMAIN fields
    BY <1>1, <2>3 DEF Rows
  <2> QED BY <2>1, <2>4, MoreFields
<1>4. CASE ListCategories(f)
  <2>1. fields' = EnsuredOs(categories, fields, f) /\ UNCHANGED <<codes, categories, items>>
    BY <1>4 DEF ListCategories
  <2>2. fields' \in Rows(CategoryField, FieldRow) /\ DOMAIN fields \subseteq DOMAIN fields'
    BY <1>1, <2>1, EnsuredFields
  <2> QED BY <2>1, <2>2, MoreFields
<1>5. CASE DeleteCategoryField(f)
  <2>1. /\ fields' = Without(fields, {f}) /\ UNCHANGED <<codes, categories>>
        /\ items' = [i \in DOMAIN items |-> [items[i] EXCEPT !.values = @ \ {f}]]
    BY <1>5 DEF DeleteCategoryField
  <2>2. fields' \in [DOMAIN fields \ {f} -> FieldRow] /\ DOMAIN fields \ {f} \in SUBSET CategoryField
    BY <1>1, <2>1 DEF Without
  <2>3. fields' \in Rows(CategoryField, FieldRow) /\ DOMAIN fields' = DOMAIN fields \ {f}
    BY <2>2 DEF Rows
  <2>4. ASSUME NEW i \in DOMAIN items
        PROVE  items'[i] \in ItemRow /\ ItemOK(items'[i], categories, fields')
    <3> DEFINE old == items[i]
               new == [old EXCEPT !.values = @ \ {f}]
    <3>1. old \in ItemRow /\ ItemOK(old, categories, fields)
      BY <1>1, <2>4 DEF CatalogInv, ItemsOK
    <3>2. new \in ItemRow
      BY <3>1 DEF ItemRow
    <3>3. /\ new.category = old.category /\ new.values = old.values \ {f} /\ new.label = old.label
          /\ new.deleted = old.deleted /\ new.given = old.given
      BY <3>1 DEF ItemRow
    <3>4. items'[i] = new
      BY <2>1, <2>4
    <3> HIDE DEF old, new
    <3> QED BY <2>3, <3>1, <3>2, <3>3, <3>4 DEF ItemOK
  <2>5. DOMAIN items' = DOMAIN items /\ items' \in [DOMAIN items -> ItemRow]
    <3>1. DOMAIN items' = DOMAIN items /\ items' = [i \in DOMAIN items |-> items'[i]]
      BY <2>1
    <3> QED BY <2>4, <3>1
  <2>6. items' \in Rows(Item, ItemRow)
    BY <1>1, <2>5 DEF Rows
  <2>7. ItemsOK'
    BY <2>1, <2>4, <2>5 DEF ItemsOK
  <2> QED BY <2>1, <2>3, <2>6, <2>7
      DEF CatalogInv, CatalogTables, OwnNames, NameFree, ActiveOf
<1> QED BY <1>2, <1>3, <1>4, <1>5

\* An asset is saved with the present name of its category, or one of its own.
LEMMA ItemSteps ==
    ASSUME CatalogInv, NEW i \in Item, NEW c \in Category \cup {"null"},
           NEW values \in SUBSET CategoryField, NEW given \in CategoryName \cup {"null"},
           SaveItem(i, c, given, values) \/ CreateItem(i, c, values) \/ DeleteItem(i)
    PROVE  CatalogInv'
<1>0. UNCHANGED <<codes, categories, fields>>
  BY DEF SaveItem, CreateItem, DeleteItem
<1>1. /\ items \in [DOMAIN items -> ItemRow] /\ DOMAIN items \subseteq Item
      /\ items \in Rows(Item, ItemRow) /\ categories \in [DOMAIN categories -> CatalogCategoryRow]
  BY DEF CatalogInv, CatalogTables, Rows
<1>2. LabelOf(c) \in CategoryName \cup {"OTHER"}
  BY <1>1 DEF LabelOf, CatalogCategoryRow
<1>3. ASSUME NEW row \in ItemRow, ItemOK(row, categories, fields), items' = Upsert(items, i, row)
      PROVE  CatalogInv'
  <2>1. items' \in Rows(Item, ItemRow)
    BY <1>1, <1>3, UpsertRows
  <2>2. ItemsOK'
    BY <1>0, <1>3 DEF Upsert, ItemsOK, CatalogInv
  <2> QED BY <1>0, <2>1, <2>2 DEF CatalogInv, CatalogTables, OwnNames, NameFree, ActiveOf
<1>4. CASE SaveItem(i, c, given, values)
  <2> DEFINE label == IF given = "null" THEN LabelOf(c) ELSE given
             row == [category |-> c, label |-> label, given |-> given # "null",
                     values |-> values, deleted |-> FALSE]
  <2>1. items' = Upsert(items, i, row) /\ c \in DOMAIN categories \cup {"null"}
        /\ values \subseteq DOMAIN fields
    BY <1>4 DEF SaveItem
  <2>2. label \in CategoryName \cup {"OTHER"} /\ (given = "null" => label = LabelOf(c))
    BY <1>2
  <2> HIDE DEF label
  <2>3. row \in ItemRow
    BY <2>2 DEF ItemRow
  <2>4. ItemOK(row, categories, fields)
    BY <2>1, <2>2 DEF ItemOK, LabelOf
  <2> HIDE DEF row
  <2> QED BY <1>3, <2>1, <2>3, <2>4
<1>5. CASE CreateItem(i, c, values)
  <2> DEFINE label == LabelOf(c)
             row == [category |-> c, label |-> label, given |-> FALSE,
                     values |-> values, deleted |-> FALSE]
  <2>1. items' = Upsert(items, i, row) /\ c \in DOMAIN categories \cup {"null"}
        /\ values \subseteq DOMAIN fields
    BY <1>5 DEF CreateItem, ActiveOf
  <2>2. label \in CategoryName \cup {"OTHER"}
    BY <1>2
  <2> HIDE DEF label
  <2>3. row \in ItemRow
    BY <2>2 DEF ItemRow
  <2>4. ItemOK(row, categories, fields)
    BY <2>1 DEF ItemOK, LabelOf, label
  <2> HIDE DEF row
  <2> QED BY <1>3, <2>1, <2>3, <2>4
<1>6. CASE DeleteItem(i)
  <2>1. i \in DOMAIN items /\ items' = [items EXCEPT ![i].deleted = TRUE]
    BY <1>6 DEF DeleteItem
  <2>2. items' \in [DOMAIN items -> ItemRow]
    BY ZenonT(40), <1>1, <2>1 DEF ItemRow
  <2>3. items' \in Rows(Item, ItemRow) /\ DOMAIN items' = DOMAIN items
    BY <1>1, <2>2 DEF Rows
  <2>4. /\ items'[i].category = items[i].category /\ items'[i].values = items[i].values
        /\ items'[i].deleted
        /\ \A x \in DOMAIN items \ {i} : items'[x] = items[x]
    BY <1>1, <2>1 DEF ItemRow
  <2>5. ItemsOK'
    BY <1>0, <2>1, <2>3, <2>4 DEF ItemsOK, ItemOK, CatalogInv
  <2> QED BY <1>0, <2>3, <2>5 DEF CatalogInv, CatalogTables, OwnNames, NameFree, ActiveOf
<1> QED BY <1>4, <1>5, <1>6

LEMMA CatalogInvInit == CatalogInit => CatalogInv
BY RowsAre DEF CatalogInit, CatalogInv, CatalogTables, ItemsOK, OwnNames, ActiveOf

LEMMA CatalogInvNext == CatalogInv /\ [CatalogNext]_catalogVars => CatalogInv'
<1> SUFFICES ASSUME CatalogInv, [CatalogNext]_catalogVars
             PROVE  CatalogInv'
  OBVIOUS
<1>1. CASE UNCHANGED catalogVars
  BY <1>1 DEF catalogVars, CatalogInv, CatalogTables, ItemsOK, OwnNames, NameFree, ActiveOf
<1>2. CASE \E k \in Code :
          \/ \E name \in CodeName : CreateCode(k, name) \/ UpdateCode(k, name)
          \/ DeleteCode(k)
  <2>1. ASSUME NEW k \in Code, NEW name \in CodeName, CreateCode(k, name) \/ UpdateCode(k, name)
        PROVE  CatalogInv'
    BY <2>1, CodeSteps
  <2>2. ASSUME NEW k \in Code, DeleteCode(k)
        PROVE  CatalogInv'
    <3>1. codes \in [DOMAIN codes -> CodeRow]
      BY DEF CatalogInv, CatalogTables, Rows
    <3>2. k \in DOMAIN codes
      BY <2>2 DEF DeleteCode, ActiveOf
    <3>3. codes[k].name \in CodeName
      BY <3>1, <3>2 DEF CodeRow
    <3> QED BY <2>2, <3>3, CodeSteps
  <2> QED BY <1>2, <2>1, <2>2
<1>3. ASSUME NEW c \in Category, NEW name \in CategoryName, NEW f \in CategoryField,
             CreateCategory(c, name, f) \/ UpdateCategory(c, name, f)
      PROVE  CatalogInv'
  BY <1>3, CreateCategoryKeeps, UpdateCategoryKeeps
<1>4. ASSUME NEW c \in Category, DeleteCategory(c)
      PROVE  CatalogInv'
  BY <1>4, DeleteCategoryKeeps
<1>5. ASSUME NEW c \in Category, NEW f \in CategoryField, NEW name \in FieldName,
             CreateCategoryField(f, c, name)
      PROVE  CatalogInv'
  BY <1>5, FieldSteps
<1>6. ASSUME NEW f \in CategoryField, ListCategories(f) \/ DeleteCategoryField(f)
      PROVE  CatalogInv'
  <2>1. CASE Category = {}
    <3>0. /\ DOMAIN categories \subseteq Category
          /\ fields \in [DOMAIN fields -> FieldRow]
      BY DEF CatalogInv, CatalogTables, Rows
    <3>00. \A x \in DOMAIN fields : fields[x].category \in Category
      BY <3>0 DEF FieldRow
    <3>1. DOMAIN categories = {} /\ DOMAIN fields = {}
      BY <2>1, <3>0, <3>00
    <3>2. LaptopCategories(categories) = {}
      BY <3>1 DEF LaptopCategories, ActiveOf
    <3>3. ListCategories(f)
      BY <1>6, <3>1 DEF DeleteCategoryField
    <3>4. UNCHANGED catalogVars
      BY <3>2, <3>3 DEF ListCategories, EnsuredOs, catalogVars
    <3> QED BY <1>1, <3>4
  <2>2. CASE Category # {}
    BY <1>6, <2>2, FieldSteps, CatalogConstants
  <2> QED BY <2>1, <2>2
<1>7. ASSUME NEW f \in CategoryField, NEW name \in FieldName, NEW select \in BOOLEAN,
             UpdateCategoryField(f, name, select)
      PROVE  CatalogInv'
  <2>1. fields \in [DOMAIN fields -> FieldRow]
    BY DEF CatalogInv, CatalogTables, Rows
  <2>2. fields[f].category \in Category
    BY <1>7, <2>1 DEF UpdateCategoryField, FieldRow
  <2> QED BY <1>7, <2>2, FieldSteps
<1>8. ASSUME NEW i \in Item, NEW c \in Category \cup {"null"}, NEW values \in SUBSET CategoryField,
             NEW given \in CategoryName \cup {"null"},
             SaveItem(i, c, given, values) \/ CreateItem(i, c, values) \/ DeleteItem(i)
      PROVE  CatalogInv'
  BY <1>8, ItemSteps
<1>9. CASE \E i \in Item :
          \/ \E c \in Category \cup {"null"}, values \in SUBSET CategoryField :
                \/ \E given \in CategoryName \cup {"null"} : SaveItem(i, c, given, values)
                \/ CreateItem(i, c, values)
          \/ DeleteItem(i)
  <2>1. "null" \in CategoryName \cup {"null"} /\ "null" \in Category \cup {"null"}
        /\ {} \in SUBSET CategoryField
    OBVIOUS
  <2> QED BY <1>8, <1>9, <2>1
<1> QED BY <1>1, <1>2, <1>3, <1>4, <1>5, <1>6, <1>7, <1>9 DEF CatalogNext

LEMMA CatalogFollows == CatalogInv => CatalogTypeOK
BY RowsAre DEF CatalogInv, CatalogTables, CatalogTypeOK

\* The catalog and the register keep their types.
THEOREM CatalogTypeCorrect == CatalogSpec => []CatalogTypeOK
BY CatalogFollows, CatalogInvInit, CatalogInvNext, PTL DEF CatalogSpec

LEMMA CatalogAgrees == CatalogInv => CatalogIsConsistent
BY DEF CatalogInv, ItemsOK, ItemOK, OwnNames, CatalogIsConsistent, LabelOf

\* The register reads what the catalog says, through every renaming, deletion
\* and change of the assets (assets/service.py).
THEOREM CatalogStaysConsistent == CatalogSpec => []CatalogIsConsistent
BY CatalogAgrees, CatalogInvInit, CatalogInvNext, PTL DEF CatalogSpec

-----------------------------------------------------------------------------
(* The members and their departments. *)

PersonRowOf(rs) == [active : BOOLEAN, role : Optional(rs)]
DepartmentRowOf(ms, ds) == [active : BOOLEAN, head : Optional(ms), parent : Optional(ds)]
TeamOf(ms) == [active : BOOLEAN, members : SUBSET ms]

PeopleInv ==
    /\ people \in Rows(Person, PersonRowOf(roles)) /\ roles \subseteq Role
    /\ bound \subseteq Employed
    /\ departments \in Rows(Department, DepartmentRowOf(Employed, DOMAIN departments))
    /\ memberships \subseteq (DOMAIN departments) \X Employed
    /\ headships \subseteq (DOMAIN departments) \X Employed
    /\ team \in TeamOf(Employed)

LEMMA RowsGrow ==
    ASSUME NEW K, NEW R, NEW S, R \subseteq S, NEW f \in Rows(K, R)
    PROVE  f \in Rows(K, S)
<1>1. f \in [DOMAIN f -> S] /\ DOMAIN f \in SUBSET K
  BY DEF Rows
<1> QED BY <1>1 DEF Rows

\* A table with the same keys whose rows are of R.
LEMMA RowsBy ==
    ASSUME NEW K, NEW R, NEW D \in SUBSET K, NEW f \in [D -> R]
    PROVE  f \in Rows(K, R)
BY DEF Rows

LEMMA DeleteEmployeeKeeps ==
    ASSUME PeopleInv, NEW m \in Person, DeleteEmployee(m)
    PROVE  PeopleInv'
<1>1. /\ m \notin bound /\ \A d \in Department : <<d, m>> \notin memberships
      /\ people' = Without(people, {m})
      /\ team' = [team EXCEPT !.members = @ \ {m}]
      /\ headships' = {h \in headships : h[2] # m}
      /\ departments' = [d \in DOMAIN departments |->
            [departments[d] EXCEPT !.head = IF @ = m THEN "null" ELSE @]]
      /\ UNCHANGED <<bound, roles, memberships>>
  BY DEF DeleteEmployee
<1>2. people \in [Employed -> PersonRowOf(roles)] /\ Employed \in SUBSET Person
  BY DEF PeopleInv, Rows, Employed
<1>3. Employed' = Employed \ {m}
  BY <1>1 DEF Employed, Without
<1>4. people' \in Rows(Person, PersonRowOf(roles))
  <2>1. people' \in [Employed \ {m} -> PersonRowOf(roles)]
    BY <1>1, <1>2 DEF Without, Employed
  <2>2. Employed \ {m} \in SUBSET Person
    BY <1>2
  <2> QED BY <2>1, <2>2, RowsBy
<1>5. departments \in [DOMAIN departments -> DepartmentRowOf(Employed, DOMAIN departments)]
      /\ DOMAIN departments \in SUBSET Department
  BY DEF PeopleInv, Rows
<1>6. DOMAIN departments' = DOMAIN departments
  BY <1>1
<1>7. departments' \in [DOMAIN departments -> DepartmentRowOf(Employed \ {m}, DOMAIN departments)]
  <2>1. ASSUME NEW d \in DOMAIN departments
        PROVE  [departments[d] EXCEPT !.head = IF @ = m THEN "null" ELSE @]
                  \in DepartmentRowOf(Employed \ {m}, DOMAIN departments)
    BY <1>5, <2>1 DEF DepartmentRowOf, Optional
  <2> QED BY <1>1, <2>1
<1>8. departments' \in Rows(Department, DepartmentRowOf(Employed', DOMAIN departments'))
  BY <1>3, <1>5, <1>6, <1>7, RowsBy
<1>9. /\ memberships' \subseteq (DOMAIN departments') \X Employed'
      /\ headships' \subseteq (DOMAIN departments') \X Employed'
  <2>1. \A h \in memberships : h = <<h[1], h[2]>> /\ h[1] \in DOMAIN departments /\ h[2] \in Employed
    BY DEF PeopleInv
  <2>2. \A h \in headships : h = <<h[1], h[2]>> /\ h[1] \in DOMAIN departments /\ h[2] \in Employed
    BY DEF PeopleInv
  <2>3. \A h \in memberships : h[2] # m
    BY <1>1, <1>5, <2>1
  <2> QED BY <1>1, <1>3, <1>6, <2>1, <2>2, <2>3
<1>10. team' \in TeamOf(Employed')
  BY <1>1, <1>3 DEF PeopleInv, TeamOf
<1> QED BY <1>1, <1>3, <1>4, <1>8, <1>9, <1>10 DEF PeopleInv

\* A member's row changes, and no other table.
LEMMA MemberChanges ==
    ASSUME PeopleInv, NEW rs, rs \subseteq Role, roles' = rs,
           people' \in [Employed -> PersonRowOf(rs)],
           UNCHANGED <<bound, departments, memberships, headships, team>>
    PROVE  PeopleInv'
<1>1. Employed \in SUBSET Person /\ Employed' = Employed
  BY DEF PeopleInv, Rows, Employed
<1>2. people' \in Rows(Person, PersonRowOf(rs))
  BY <1>1, RowsBy
<1> QED BY <1>1, <1>2 DEF PeopleInv

LEMMA MemberSteps ==
    ASSUME PeopleInv, NEW m \in Person, NEW r, NEW active \in BOOLEAN,
           SetActive(m, active) \/ UpdateEmployeeRole(m, r)
    PROVE  PeopleInv'
<1>1. people \in [Employed -> PersonRowOf(roles)] /\ roles \subseteq Role
  BY DEF PeopleInv, Rows, Employed
<1>2. people' \in [Employed -> PersonRowOf(roles)]
  <2>1. CASE SetActive(m, active)
    BY <1>1, <2>1 DEF SetActive, PersonRowOf
  <2>2. CASE UpdateEmployeeRole(m, r)
    BY <1>1, <2>2 DEF UpdateEmployeeRole, PersonRowOf, Optional
  <2> QED BY <2>1, <2>2
<1>3. UNCHANGED <<bound, roles, departments, memberships, headships, team>>
  BY DEF SetActive, UpdateEmployeeRole
<1> QED BY <1>1, <1>2, <1>3, MemberChanges

LEMMA RoleSteps ==
    ASSUME PeopleInv, NEW r \in Role, NEW name \in Role,
           CreateRole(r) \/ DeleteRole(r) \/ UpdateRole(r, name)
    PROVE  PeopleInv'
<1>1. people \in [Employed -> PersonRowOf(roles)] /\ roles \subseteq Role
  BY DEF PeopleInv, Rows, Employed
<1>2. UNCHANGED <<bound, departments, memberships, headships, team>>
  BY DEF CreateRole, DeleteRole, UpdateRole
<1>3. CASE CreateRole(r)
  <2> DEFINE rs == roles \cup {r}
  <2>1. roles' = rs /\ people' = people
    BY <1>3 DEF CreateRole
  <2>2. people' \in [Employed -> PersonRowOf(rs)] /\ rs \subseteq Role
    BY <1>1, <2>1 DEF PersonRowOf, Optional
  <2> HIDE DEF rs
  <2> QED BY <1>2, <2>1, <2>2, MemberChanges
<1>4. CASE DeleteRole(r)
  <2> DEFINE rs == roles \ {r}
  <2>1. roles' = rs /\ people' = people /\ \A m \in Employed : people[m].role # r
    BY <1>4 DEF DeleteRole
  <2>2. people' \in [Employed -> PersonRowOf(rs)] /\ rs \subseteq Role
    <3>1. \A m \in Employed : people[m] \in PersonRowOf(rs)
      BY <1>1, <2>1 DEF PersonRowOf, Optional
    <3> QED BY <1>1, <2>1, <3>1
  <2> HIDE DEF rs
  <2> QED BY <1>2, <2>1, <2>2, MemberChanges
<1>5. CASE UpdateRole(r, name)
  <2> DEFINE rs == (roles \ {r}) \cup {name}
             renamed == [m \in Employed |-> [people[m] EXCEPT !.role = IF @ = r THEN name ELSE @]]
  <2>1. roles' = rs /\ people' = renamed
    BY <1>5 DEF UpdateRole
  <2>2. renamed \in [Employed -> PersonRowOf(rs)] /\ rs \subseteq Role
    <3>1. \A m \in Employed :
             [people[m] EXCEPT !.role = IF @ = r THEN name ELSE @] \in PersonRowOf(rs)
      BY <1>1 DEF PersonRowOf, Optional
    <3> QED BY <1>1, <3>1
  <2> HIDE DEF rs, renamed
  <2> QED BY <1>2, <2>1, <2>2, MemberChanges
<1> QED BY <1>3, <1>4, <1>5

LEMMA BoundStep ==
    ASSUME PeopleInv, NEW m \in Person, BecomeBound(m)
    PROVE  PeopleInv'
BY DEF PeopleInv, BecomeBound, Employed

\* Departments change, and their heads.
LEMMA DepartmentChanges ==
    ASSUME PeopleInv, NEW D \in SUBSET Department, DOMAIN departments \subseteq D,
           departments' \in [D -> DepartmentRowOf(Employed, D)],
           headships' \subseteq D \X Employed,
           UNCHANGED <<people, bound, roles, memberships, team>>
    PROVE  PeopleInv'
<1>1. Employed' = Employed /\ DOMAIN departments' = D
  BY DEF Employed
<1>2. departments' \in Rows(Department, DepartmentRowOf(Employed, D))
  BY RowsBy
<1>3. memberships \subseteq D \X Employed
  BY DEF PeopleInv
<1> QED BY <1>1, <1>2, <1>3 DEF PeopleInv

LEMMA UpsertDepartmentKeeps ==
    ASSUME PeopleInv, NEW d \in Department, NEW row \in DepartmentRow, UpsertDepartment(d, row)
    PROVE  PeopleInv'
<1> DEFINE D == DOMAIN departments
           E == D \cup {d}
           new == Upsert(departments, d, row)
<1>1. departments \in [D -> DepartmentRowOf(Employed, D)] /\ D \in SUBSET Department
      /\ headships \subseteq D \X Employed
  BY DEF PeopleInv, Rows
<1>2. /\ departments' = new /\ headships' = headships
      /\ row.head \in Optional(Employed) /\ row.parent \in Optional(D)
      /\ UNCHANGED <<people, bound, roles, memberships, team>>
  BY DEF UpsertDepartment, ActiveDepartments, Optional
<1>3. row \in DepartmentRowOf(Employed, E)
  BY <1>2 DEF DepartmentRow, DepartmentRowOf, Optional
<1>4. \A x \in D : departments[x] \in DepartmentRowOf(Employed, E)
  BY <1>1 DEF DepartmentRowOf, Optional
<1>5. new \in [E -> DepartmentRowOf(Employed, E)]
  BY <1>3, <1>4 DEF Upsert
<1>6. E \in SUBSET Department /\ D \subseteq E /\ headships \subseteq E \X Employed
  BY <1>1
<1> HIDE DEF new, E
<1> QED BY <1>2, <1>5, <1>6, DepartmentChanges

LEMMA HeadSteps ==
    ASSUME PeopleInv, NEW d \in Department, NEW m,
           DeactivateDepartment(d) \/ AssignDepartmentHead(d, m) \/ RemoveDepartmentHead(d, m)
    PROVE  PeopleInv'
<1> DEFINE D == DOMAIN departments
<1>1. departments \in [D -> DepartmentRowOf(Employed, D)] /\ D \in SUBSET Department
      /\ headships \subseteq D \X Employed
  BY DEF PeopleInv, Rows
<1>2. UNCHANGED <<people, bound, roles, memberships, team>>
  BY DEF DeactivateDepartment, AssignDepartmentHead, RemoveDepartmentHead
<1>3. departments' \in [D -> DepartmentRowOf(Employed, D)]
  <2>1. CASE DeactivateDepartment(d)
    BY <1>1, <2>1 DEF DeactivateDepartment, DepartmentRowOf
  <2>2. CASE AssignDepartmentHead(d, m)
    <3>1. d \in D /\ m \in Employed /\ departments[d] \in DepartmentRowOf(Employed, D)
          /\ departments' = [departments EXCEPT ![d].head = IF @ = "null" THEN m ELSE @]
      BY <1>1, <2>2 DEF AssignDepartmentHead, ActiveDepartments
    <3> DEFINE head == IF departments[d].head = "null" THEN m ELSE departments[d].head
    <3>2. head \in Optional(Employed)
      BY <3>1 DEF DepartmentRowOf, Optional
    <3>3. departments' = [departments EXCEPT ![d].head = head]
      BY <3>1
    <3> HIDE DEF head
    <3> QED BY <1>1, <3>2, <3>3 DEF DepartmentRowOf
  <2>3. CASE RemoveDepartmentHead(d, m)
    BY <1>1, <2>3 DEF RemoveDepartmentHead, DepartmentRowOf, Optional
  <2> QED BY <2>1, <2>2, <2>3
<1>4. headships' \subseteq D \X Employed
  BY <1>1 DEF DeactivateDepartment, AssignDepartmentHead, RemoveDepartmentHead, ActiveDepartments
<1>5. DOMAIN departments \subseteq D
  OBVIOUS
<1> HIDE DEF D
<1> QED BY <1>1, <1>2, <1>3, <1>4, <1>5, DepartmentChanges

LEMMA MembershipSteps ==
    ASSUME PeopleInv, NEW d, NEW m,
           AddDepartmentMembers(d, m) \/ RemoveDepartmentMember(d, m)
    PROVE  PeopleInv'
<1>1. UNCHANGED <<people, bound, roles, departments, headships, team>>
  BY DEF AddDepartmentMembers, RemoveDepartmentMember
<1>2. memberships' \subseteq (DOMAIN departments) \X Employed
  BY DEF AddDepartmentMembers, RemoveDepartmentMember, PeopleInv
<1> QED BY <1>1, <1>2 DEF PeopleInv, Employed

LEMMA TeamSteps ==
    ASSUME PeopleInv, NEW m, NEW active \in BOOLEAN,
           CreateTeam(m) \/ UpdateTeam(active) \/ AddTeamMember(m) \/ RemoveTeamMember(m)
    PROVE  PeopleInv'
<1>1. UNCHANGED <<people, bound, roles, departments, memberships, headships>>
  BY DEF CreateTeam, UpdateTeam, AddTeamMember, RemoveTeamMember
<1>2. team' \in TeamOf(Employed)
  <2>0. team \in TeamOf(Employed)
    BY DEF PeopleInv
  <2>1. CASE CreateTeam(m)
    BY <2>1 DEF CreateTeam, TeamOf
  <2>2. CASE UpdateTeam(active)
    BY <2>0, <2>2 DEF UpdateTeam, TeamOf
  <2>3. CASE AddTeamMember(m)
    BY <2>0, <2>3 DEF AddTeamMember, TeamOf
  <2>4. CASE RemoveTeamMember(m)
    BY <2>0, <2>4 DEF RemoveTeamMember, TeamOf
  <2> QED BY <2>1, <2>2, <2>3, <2>4
<1> QED BY <1>1, <1>2 DEF PeopleInv, Employed

LEMMA PeopleInvInit == PeopleInit => PeopleInv
<1> SUFFICES ASSUME PeopleInit PROVE PeopleInv
  OBVIOUS
<1>1. people \in [Person -> PersonRowOf(roles)] /\ Employed = Person
  BY DEF PeopleInit, PersonRowOf, Optional, Employed
<1>2. people \in Rows(Person, PersonRowOf(roles))
  BY <1>1, RowsBy
<1> QED BY <1>1, <1>2, RowsAre DEF PeopleInit, PeopleInv, TeamOf

LEMMA PeopleInvNext == PeopleInv /\ [PeopleNext]_peopleVars => PeopleInv'
<1> SUFFICES ASSUME PeopleInv, [PeopleNext]_peopleVars
             PROVE  PeopleInv'
  OBVIOUS
<1>1. CASE UNCHANGED peopleVars
  BY <1>1 DEF peopleVars, PeopleInv, Employed
<1>0. PICK yes, no \in BOOLEAN : yes = TRUE /\ no = FALSE
  OBVIOUS
<1>2. ASSUME NEW m \in Person,
             DeleteEmployee(m) \/ DeactivateEmployee(m) \/ ReactivateEmployee(m) \/ BecomeBound(m)
             \/ AddTeamMember(m) \/ RemoveTeamMember(m)
      PROVE  PeopleInv'
  <2>1. DeactivateEmployee(m) => SetActive(m, no)
    BY <1>0 DEF DeactivateEmployee
  <2>2. ReactivateEmployee(m) => SetActive(m, yes)
    BY <1>0 DEF ReactivateEmployee
  <2> QED BY <1>0, <1>2, <2>1, <2>2, DeleteEmployeeKeeps, BoundStep, MemberSteps, TeamSteps
<1>3. ASSUME NEW m \in Person, NEW r \in Role, UpdateEmployeeRole(m, r)
      PROVE  PeopleInv'
  BY <1>0, <1>3, MemberSteps
<1>4. ASSUME NEW r \in Role, NEW name \in Role, CreateRole(r) \/ DeleteRole(r) \/ UpdateRole(r, name)
      PROVE  PeopleInv'
  BY <1>4, RoleSteps
<1>5. ASSUME NEW d \in Department, NEW row \in DepartmentRow, UpsertDepartment(d, row)
      PROVE  PeopleInv'
  BY <1>5, UpsertDepartmentKeeps
<1>6. ASSUME NEW d \in Department, NEW m,
             DeactivateDepartment(d) \/ AssignDepartmentHead(d, m) \/ RemoveDepartmentHead(d, m)
      PROVE  PeopleInv'
  BY <1>6, HeadSteps
<1>7. ASSUME NEW d \in Department, NEW m, AddDepartmentMembers(d, m) \/ RemoveDepartmentMember(d, m)
      PROVE  PeopleInv'
  BY <1>7, MembershipSteps
<1>8. ASSUME NEW m, CreateTeam(m)
      PROVE  PeopleInv'
  BY <1>0, <1>8, TeamSteps
<1>9. ASSUME NEW active \in BOOLEAN, UpdateTeam(active)
      PROVE  PeopleInv'
  BY <1>9, TeamSteps
<1>10. CASE DeleteTeam
  BY <1>0, <1>9, <1>10 DEF DeleteTeam
<1> QED BY <1>1, <1>2, <1>3, <1>4, <1>5, <1>6, <1>7, <1>8, <1>9, <1>10 DEF PeopleNext

LEMMA PeopleFollows == PeopleInv => PeopleTypeOK
<1> SUFFICES ASSUME PeopleInv PROVE PeopleTypeOK
  OBVIOUS
<1>1. /\ Table(people, Person, PersonRowOf(roles))
      /\ Table(departments, Department, DepartmentRowOf(Employed, DOMAIN departments))
  BY RowsAre DEF PeopleInv
<1> QED BY <1>1 DEF PeopleInv, PeopleTypeOK, PersonRowOf, DepartmentRowOf, TeamOf

\* Whatever is deleted, in whatever order, nothing refers to a row that is gone.
THEOREM PeopleTypeCorrect == PeopleSpec => []PeopleTypeOK
BY PeopleFollows, PeopleInvInit, PeopleInvNext, PTL DEF PeopleSpec

-----------------------------------------------------------------------------
(* What the pages show of them. *)

LEMMA InIs ==
    ASSUME NEW X, NEW Y, NEW pairs \in SUBSET (X \X Y), NEW m
    PROVE  /\ \A d : d \in In(pairs, m) <=> <<d, m>> \in pairs
           /\ In(pairs, m) \subseteq X
<1>1. \A p \in pairs : p = <<p[1], p[2]>> /\ p[1] \in X
  OBVIOUS
<1>2. ASSUME NEW d
      PROVE  d \in In(pairs, m) <=> <<d, m>> \in pairs
  BY <1>1 DEF In
<1>3. In(pairs, m) \subseteq X
  BY <1>1 DEF In
<1> QED BY <1>2, <1>3

LEMMA WithinIs ==
    ASSUME NEW X, NEW Y, NEW pairs \in SUBSET (X \X Y), NEW ds
    PROVE  Within(pairs, ds) \subseteq Y
BY DEF Within

LEMMA DepartmentCounts ==
    ASSUME PeopleInv, NEW d
    PROVE  LET page == DepartmentSummary(d, Employed)
           IN  page.count = Cardinality(Within(memberships, {d}) \cup Within(headships, {d}))
                              + Cardinality(page.members \cap page.heads)
<1> DEFINE M == Within(memberships, {d})
           H == Within(headships, {d})
<1>1. M \subseteq Employed /\ H \subseteq Employed
  BY WithinIs DEF PeopleInv
<1>2. Employed \subseteq Person
  BY RowsAre DEF PeopleInv, Employed
<1>3. IsFiniteSet(M) /\ IsFiniteSet(H)
  BY <1>1, <1>2, PeopleConstants, FS_Subset
<1>4. M \cap Employed = M /\ H \cap Employed = H
  BY <1>1
<1>5. /\ DepartmentSummary(d, Employed).members = M \cap Employed
      /\ DepartmentSummary(d, Employed).heads = H \cap Employed
      /\ DepartmentSummary(d, Employed).count
            = Cardinality(M \cap Employed) + Cardinality(H \cap Employed)
  BY DEF DepartmentSummary
<1> HIDE DEF M, H
<1>6. Cardinality(M \cup H) = Cardinality(M) + Cardinality(H) - Cardinality(M \cap H)
  BY <1>3, FS_Union
<1>7. Cardinality(M) \in Nat /\ Cardinality(H) \in Nat /\ Cardinality(M \cap H) \in Nat
  BY <1>3, FS_CardinalityType, FS_Intersection
<1>8. /\ DepartmentSummary(d, Employed).members = M
      /\ DepartmentSummary(d, Employed).heads = H
      /\ DepartmentSummary(d, Employed).count = Cardinality(M) + Cardinality(H)
  BY <1>4, <1>5
<1> QED BY <1>6, <1>7, <1>8 DEF M, H

\* A department on the dashboard of m.
CardOf(d, m) ==
    [id |-> d, role |-> IF <<d, m>> \in headships THEN "HEAD" ELSE "MEMBER",
     count |-> Cardinality(Within(memberships, {d}) \cup Within(headships, {d}))]

LEMMA PagesAgree == PeopleInv => DepartmentPagesAgree
<1> SUFFICES ASSUME PeopleInv, NEW m \in Employed
             PROVE  LET mine == MyDepartments(m)
                    IN  /\ {c.id : c \in mine} = ListDepartments("department", m)
                        /\ ListDepartments("self", m) \subseteq ListDepartments("department", m)
                        /\ HasMyDepartment(m) =>
                              MyDepartment(m) = {c.id : c \in {x \in mine : x.role = "HEAD"}}
                        /\ DeactivationImpact(m) >= Cardinality({c \in mine : c.role = "HEAD"})
                        /\ ListEmployees("department", m) = ListMembers(GetDepartmentMemberIds(m))
                        /\ \A c \in mine :
                             LET page == DepartmentSummary(c.id, Employed)
                             IN  page.count = c.count + Cardinality(page.members \cap page.heads)
                        /\ (m \in ListEmployees("organization", m)) # (m \in ListDeactivatedEmployees)
  BY DEF DepartmentPagesAgree
<1> DEFINE M == In(memberships, m)
           H == In(headships, m)
           mine == MyDepartments(m)
           shown == (M \cup H) \cap ActiveDepartments
           headed == {c \in mine : c.role = "HEAD"}
<1>1. /\ \A d : d \in H <=> <<d, m>> \in headships
      /\ H \subseteq DOMAIN departments
  BY InIs DEF PeopleInv
<1>2. mine = {CardOf(d, m) : d \in shown}
  BY DEF MyDepartments, CardOf
<1>3. /\ \A c \in mine : c.id \in shown /\ c = CardOf(c.id, m)
      /\ \A d \in shown : CardOf(d, m) \in mine
      /\ \A d : /\ CardOf(d, m).id = d
                 /\ CardOf(d, m).role = "HEAD" <=> d \in H
                 /\ CardOf(d, m).count =
                      Cardinality(Within(memberships, {d}) \cup Within(headships, {d}))
  <2>1. \A d : /\ CardOf(d, m).id = d
               /\ CardOf(d, m).role = "HEAD" <=> d \in H
               /\ CardOf(d, m).count =
                    Cardinality(Within(memberships, {d}) \cup Within(headships, {d}))
    BY <1>1 DEF CardOf
  <2> HIDE DEF mine, shown
  <2> QED BY <1>2, <2>1
<1>4. ListDepartments("department", m) = shown /\ ListDepartments("self", m) \subseteq shown
  BY DEF ListDepartments
<1>5. {c.id : c \in mine} = ListDepartments("department", m)
      /\ ListDepartments("self", m) \subseteq ListDepartments("department", m)
  <2> HIDE DEF mine, shown
  <2>1. ASSUME NEW d \in shown
        PROVE  \E c \in mine : c.id = d
    <3>1. CardOf(d, m) \in mine
      BY <1>3, <2>1
    <3>2. CardOf(d, m).id = d
      BY DEF CardOf
    <3> QED BY <3>1, <3>2
  <2>2. \A c \in mine : c.id \in shown
    BY <1>3
  <2>3. {c.id : c \in mine} = shown
    BY <2>1, <2>2
  <2> QED BY <1>4, <2>3
<1>6. {c.id : c \in headed} = H \cap ActiveDepartments
  <2>1. \A c \in headed : c.id \in H \cap ActiveDepartments
    <3> HIDE DEF mine, H
    <3> QED BY <1>3
  <2>2. \A d \in H \cap ActiveDepartments : CardOf(d, m) \in headed
    <3>1. \A d \in H \cap ActiveDepartments : d \in shown
      OBVIOUS
    <3> HIDE DEF mine, H, M, shown
    <3>2. ASSUME NEW d \in H \cap ActiveDepartments
          PROVE  CardOf(d, m) \in mine /\ CardOf(d, m).role = "HEAD"
      <4>1. d \in shown /\ d \in H
        BY <3>1, <3>2
      <4>2. CardOf(d, m) \in mine
        BY <1>3, <4>1
      <4>3. CardOf(d, m).role = "HEAD"
        BY <1>1, <4>1 DEF CardOf
      <4> QED BY <4>2, <4>3
    <3> QED BY <3>2
  <2>3. ASSUME NEW d \in H \cap ActiveDepartments
        PROVE  \E c \in headed : c.id = d
    <3>1. CardOf(d, m) \in headed
      BY <2>2, <2>3
    <3>2. CardOf(d, m).id = d
      BY DEF CardOf
    <3> HIDE DEF headed
    <3> QED BY <3>1, <3>2
  <2> HIDE DEF headed, H
  <2> QED BY <2>1, <2>3
<1>7. HasMyDepartment(m) => MyDepartment(m) = {c.id : c \in headed}
  BY <1>6 DEF HasMyDepartment, MyDepartment
<1>8. DeactivationImpact(m) >= Cardinality(headed)
  <2>1. IsFiniteSet(H)
    <3>1. DOMAIN departments \subseteq Department
      BY RowsAre DEF PeopleInv
    <3> QED BY <1>1, <3>1, PeopleConstants, FS_Subset
  <2> DEFINE f == [c \in headed |-> c.id]
  <2>2. f \in Injection(headed, H)
    <3>1. \A c \in headed : c.id \in H
      BY <1>6
    <3>2. \A c, e \in headed : c.id = e.id => c = e
      BY <1>3
    <3> HIDE DEF headed, H
    <3> QED BY <3>1, <3>2 DEF Injection, IsInjective
  <2> HIDE DEF f, headed
  <2>3. Cardinality(headed) <= Cardinality(H)
    BY <2>1, <2>2, FS_Injection
  <2>4. Cardinality(headed) \in Nat /\ Cardinality(H) \in Nat
    BY <2>1, <2>2, FS_Injection, FS_CardinalityType
  <2> QED BY <2>3, <2>4 DEF DeactivationImpact
<1>9. ListEmployees("department", m) = ListMembers(GetDepartmentMemberIds(m))
  BY DEF ListEmployees, ListMembers, GetDepartmentMemberIds
<1>10. ASSUME NEW c \in mine
       PROVE  LET page == DepartmentSummary(c.id, Employed)
              IN  page.count = c.count + Cardinality(page.members \cap page.heads)
  <2>1. c.count = Cardinality(Within(memberships, {c.id}) \cup Within(headships, {c.id}))
    <3> HIDE DEF mine, shown
    <3>1. c = CardOf(c.id, m)
      BY <1>3, <1>10
    <3> DEFINE d == c.id
    <3>2. c.count = CardOf(d, m).count
      BY <3>1
    <3>3. CardOf(d, m).count = Cardinality(Within(memberships, {d}) \cup Within(headships, {d}))
      BY DEF CardOf
    <3> QED BY <3>2, <3>3
  <2> QED BY <2>1, DepartmentCounts
<1>11. (m \in ListEmployees("organization", m)) # (m \in ListDeactivatedEmployees)
  <2>1. people[m].active \in BOOLEAN
    <3>1. people \in [Employed -> PersonRowOf(roles)]
      BY DEF PeopleInv, Rows, Employed
    <3> QED BY <3>1 DEF PersonRowOf
  <2> QED BY <2>1 DEF ListEmployees, ListDeactivatedEmployees
<1> HIDE DEF mine
<1> QED BY <1>5, <1>7, <1>8, <1>9, <1>10, <1>11 DEF mine

\* However members, heads and departments come and go, the pages that show them
\* agree.
THEOREM DepartmentPagesStayTrue == PeopleSpec => []DepartmentPagesAgree
BY PagesAgree, PeopleInvInit, PeopleInvNext, PTL DEF PeopleSpec

-----------------------------------------------------------------------------
(* The holidays. *)

SyncRow ==
    [records : SUBSET Holidays, todo : SUBSET Organization, at : {"master", "read", "insert"},
     org : Organization \cup {"none"}, new : SUBSET Holidays]

HolidayTables ==
    /\ master \subseteq Holidays /\ copies \in [Organization -> [Holidays -> 0..MaxRows]]
    /\ syncs \in Rows(Sync, SyncRow) /\ doubtful \subseteq Organization \X Holidays

\* What a sync is about to insert is still missing, or doubtful.
MissingStill(ps, cs, ds) ==
    \A s \in DOMAIN ps : ps[s].at = "insert" =>
        /\ ps[s].org \in Organization
        /\ \A h \in ps[s].new : cs[ps[s].org][h] = 0 \/ <<ps[s].org, h>> \in ds

HolidayInv == HolidayTables /\ MissingStill(syncs, copies, doubtful) /\ HolidaysAreOnce

LEMMA ParsedAreHolidays ==
    ASSUME NEW named \in SUBSET Festival
    PROVE  ParseRawHolidays(named) \subseteq Holidays
<1>1. \A h \in named : (IF h \in Cluster THEN BuildCluster(h) ELSE {Day(h, "day")}) \subseteq Holidays
  <2> SUFFICES ASSUME NEW h \in named
               PROVE  (IF h \in Cluster THEN BuildCluster(h) ELSE {Day(h, "day")}) \subseteq Holidays
    OBVIOUS
  <2>1. CASE h \in Cluster
    <3>1. BuildCluster(h) \in {BuildCluster(x) : x \in Cluster}
      BY <2>1
    <3> QED BY <2>1, <3>1 DEF Holidays
  <2>2. CASE h \notin Cluster
    <3>1. Day(h, "day") \in {Day(x, "day") : x \in Festival \ Cluster}
      BY <2>2
    <3> QED BY <2>2, <3>1 DEF Holidays
  <2> QED BY <2>1, <2>2
<1> QED BY <1>1 DEF ParseRawHolidays

\* A sync that begins, goes on to something else than inserting, or ends.
LEMMA SyncMoves ==
    ASSUME HolidayInv, NEW s \in Sync, NEW row \in SyncRow, row.at # "insert",
           syncs' = Upsert(syncs, s, row), UNCHANGED <<copies, doubtful>>, master' \subseteq Holidays
    PROVE  HolidayInv'
<1>1. syncs' \in Rows(Sync, SyncRow)
  BY UpsertRows DEF HolidayInv, HolidayTables
<1>2. \A x \in DOMAIN syncs' : syncs'[x] = row \/ (x \in DOMAIN syncs /\ syncs'[x] = syncs[x])
  BY DEF Upsert
<1>3. MissingStill(syncs, copies, doubtful)'
  BY <1>2 DEF HolidayInv, MissingStill
<1> QED BY <1>1, <1>3 DEF HolidayInv, HolidayTables, HolidaysAreOnce

LEMMA SyncRowsAre ==
    ASSUME HolidayInv, NEW s \in DOMAIN syncs
    PROVE  s \in Sync /\ syncs[s] \in SyncRow
BY RowsAre DEF HolidayInv, HolidayTables

LEMMA SyncGone ==
    ASSUME HolidayInv, NEW s, syncs' = Without(syncs, {s}), UNCHANGED <<master, copies, doubtful>>
    PROVE  HolidayInv'
<1>1. DOMAIN syncs \ {s} \in SUBSET Sync /\ syncs' \in [DOMAIN syncs \ {s} -> SyncRow]
  BY DEF HolidayInv, HolidayTables, Rows, Without
<1>2. syncs' \in Rows(Sync, SyncRow)
  BY <1>1 DEF Rows
<1>3. \A x \in DOMAIN syncs' : x \in DOMAIN syncs /\ syncs'[x] = syncs[x]
  BY DEF Without
<1>4. MissingStill(syncs, copies, doubtful)'
  BY <1>3 DEF HolidayInv, MissingStill
<1> QED BY <1>2, <1>4 DEF HolidayInv, HolidayTables, HolidaysAreOnce

LEMMA BeginSteps ==
    ASSUME HolidayInv, NEW s \in Sync, NEW named \in SUBSET Festival, NEW o \in Organization,
           BeginAnnualSync(s, named) \/ BeginOrgSync(s, o, named)
    PROVE  HolidayInv'
<1> DEFINE Row(records, todo, at) ==
      [records |-> records, todo |-> todo, at |-> at, org |-> "none", new |-> {}]
<1>1. ParseRawHolidays(named) \in SUBSET Holidays /\ master \in SUBSET Holidays
  BY ParsedAreHolidays DEF HolidayInv, HolidayTables
<1>2. /\ Row(ParseRawHolidays(named), Organization, "master") \in SyncRow
      /\ Row(ParseRawHolidays(named), {o}, "master") \in SyncRow
      /\ Row(master, {o}, "read") \in SyncRow
  BY <1>1 DEF SyncRow
<1>3. PICK row \in SyncRow : row.at # "insert" /\ syncs' = Upsert(syncs, s, row)
  <2>1. CASE BeginAnnualSync(s, named)
    BY <1>2, <2>1 DEF BeginAnnualSync, Run
  <2>2. CASE BeginOrgSync(s, o, named)
    BY <1>2, <2>2 DEF BeginOrgSync, Run
  <2> QED BY <2>1, <2>2
<1>4. UNCHANGED <<master, copies, doubtful>>
  BY DEF BeginAnnualSync, BeginOrgSync
<1> QED BY <1>1, <1>3, <1>4, SyncMoves

LEMMA MasterStep ==
    ASSUME HolidayInv, NEW s \in DOMAIN syncs, UpsertMasterHolidays(s)
    PROVE  HolidayInv'
<1> DEFINE row == [syncs[s] EXCEPT !.at = "read"]
<1>1. s \in Sync /\ syncs[s] \in SyncRow
  BY SyncRowsAre
<1>2. row \in SyncRow /\ row.at = "read" /\ syncs[s].records \subseteq Holidays
  BY <1>1 DEF SyncRow
<1>3. syncs' = Upsert(syncs, s, row) /\ master' = master \cup syncs[s].records
      /\ UNCHANGED <<copies, doubtful>>
  BY DEF UpsertMasterHolidays, Run
<1>4. master' \subseteq Holidays
  BY <1>2, <1>3 DEF HolidayInv, HolidayTables
<1> HIDE DEF row
<1> QED BY <1>1, <1>2, <1>3, <1>4, SyncMoves

LEMMA ReadStep ==
    ASSUME HolidayInv, NEW s \in DOMAIN syncs, NEW o \in Organization, ReadExisting(s, o)
    PROVE  HolidayInv'
<1> DEFINE missing == {h \in syncs[s].records : copies[o][h] = 0}
           row == [syncs[s] EXCEPT !.at = "insert", !.org = o, !.new = missing]
<1>1. s \in Sync /\ syncs[s] \in SyncRow
  BY SyncRowsAre
<1>2. missing \in SUBSET Holidays /\ \A h \in missing : copies[o][h] = 0
  BY <1>1 DEF SyncRow
<1>3. syncs' = Upsert(syncs, s, row) /\ UNCHANGED <<master, copies, doubtful>>
  BY DEF ReadExisting, Run
<1> HIDE DEF missing
<1>4. row \in SyncRow /\ row.org = o /\ row.new = missing
  BY <1>1, <1>2 DEF SyncRow
<1> HIDE DEF row
<1>5. syncs' \in Rows(Sync, SyncRow)
  BY <1>1, <1>3, <1>4, UpsertRows DEF HolidayInv, HolidayTables
<1>6. \A x \in DOMAIN syncs' : syncs'[x] = row \/ (x \in DOMAIN syncs /\ syncs'[x] = syncs[x])
  BY <1>3 DEF Upsert
<1>7. MissingStill(syncs, copies, doubtful)'
  BY <1>2, <1>3, <1>4, <1>6 DEF HolidayInv, MissingStill
<1> QED BY <1>3, <1>5, <1>7 DEF HolidayInv, HolidayTables, HolidaysAreOnce

LEMMA CopyStep ==
    ASSUME HolidayInv, NEW s \in DOMAIN syncs, CopyHolidaysToOrg(s)
    PROVE  HolidayInv'
<1> DEFINE o == syncs[s].org
           new == syncs[s].new
           row == [syncs[s] EXCEPT !.at = "read", !.org = "none", !.new = {}, !.todo = @ \ {o}]
           others == DOMAIN syncs \ {s}
           known == {x \in new : ExpectedBy(others, o, x)}
<1>1. s \in Sync /\ syncs[s] \in SyncRow
  BY SyncRowsAre
<1>2. /\ syncs[s].at = "insert" /\ \A h \in new : copies[o][h] < MaxRows
      /\ syncs' = Upsert(syncs, s, row) /\ master' = master
      /\ doubtful' = doubtful \cup {<<o, h>> : h \in known}
      /\ copies' = [copies EXCEPT ![o] = [h \in Holidays |-> IF h \in new THEN @[h] + 1 ELSE @[h]]]
  BY DEF CopyHolidaysToOrg, Run
<1>3. o \in Organization /\ new \subseteq Holidays
      /\ \A h \in new : copies[o][h] = 0 \/ <<o, h>> \in doubtful
  BY <1>1, <1>2 DEF HolidayInv, MissingStill, SyncRow
<1>4. row \in SyncRow /\ row.at = "read"
  BY <1>1 DEF SyncRow
<1>5. \A x \in DOMAIN syncs' : syncs'[x] = row \/ (x \in others /\ syncs'[x] = syncs[x])
  BY <1>2 DEF Upsert
<1>6. syncs' \in Rows(Sync, SyncRow)
  <2> HIDE DEF row
  <2> QED BY <1>1, <1>2, <1>4, UpsertRows DEF HolidayInv, HolidayTables
<1>7. \A x \in others : syncs[x].at = "insert" /\ syncs[x].org = o =>
          \A h \in syncs[x].new \cap new : h \in known
  BY DEF ExpectedBy
<1>8. known \subseteq Holidays /\ doubtful' \subseteq Organization \X Holidays
      /\ doubtful \subseteq doubtful' /\ \A h \in known : <<o, h>> \in doubtful'
  <2>1. known \subseteq Holidays /\ doubtful \subseteq Organization \X Holidays
    BY <1>3 DEF HolidayInv, HolidayTables
  <2> HIDE DEF known
  <2>2. \A p \in {<<o, h>> : h \in known} : p \in Organization \X Holidays
    BY <1>3, <2>1
  <2> QED BY <1>2, <2>1, <2>2
<1> HIDE DEF row, known, others, o, new
<1>9. copies \in [Organization -> [Holidays -> 0..MaxRows]] /\ MaxRows \in Nat
  BY HolidayConstants DEF HolidayInv, HolidayTables
<1>10. \A q \in Organization, h \in Holidays :
          copies'[q][h] = IF q = o /\ h \in new THEN copies[q][h] + 1 ELSE copies[q][h]
  BY <1>2, <1>3, <1>9
<1>11. copies' \in [Organization -> [Holidays -> 0..MaxRows]]
  <2>1. \A h \in Holidays : (IF h \in new THEN copies[o][h] + 1 ELSE copies[o][h]) \in 0..MaxRows
    BY <1>2, <1>3, <1>9
  <2> QED BY <1>2, <1>3, <1>9, <2>1
<1>12. HolidaysAreOnce'
  <2> SUFFICES ASSUME NEW q \in Organization, NEW h \in Holidays
               PROVE  copies'[q][h] <= 1 \/ <<q, h>> \in doubtful'
    BY DEF HolidaysAreOnce
  <2>1. copies[q][h] <= 1 \/ <<q, h>> \in doubtful
    BY DEF HolidayInv, HolidaysAreOnce
  <2> QED BY <1>3, <1>8, <1>9, <1>10, <2>1
<1>13. MissingStill(syncs, copies, doubtful)'
  <2> SUFFICES ASSUME NEW x \in DOMAIN syncs', syncs'[x].at = "insert"
               PROVE  /\ syncs'[x].org \in Organization
                      /\ \A h \in syncs'[x].new :
                            copies'[syncs'[x].org][h] = 0 \/ <<syncs'[x].org, h>> \in doubtful'
    BY DEF MissingStill
  <2>1. x \in others /\ syncs'[x] = syncs[x]
    BY <1>4, <1>5
  <2>2. x \in DOMAIN syncs /\ syncs[x].org \in Organization /\ syncs[x].new \subseteq Holidays
        /\ \A h \in syncs[x].new : copies[syncs[x].org][h] = 0 \/ <<syncs[x].org, h>> \in doubtful
    BY <2>1, SyncRowsAre DEF others, HolidayInv, MissingStill, SyncRow
  <2> QED BY <1>7, <1>8, <1>10, <2>1, <2>2
<1> QED BY <1>2, <1>6, <1>8, <1>11, <1>12, <1>13 DEF HolidayInv, HolidayTables

LEMMA AdministratorSteps ==
    ASSUME HolidayInv, NEW o \in Organization, NEW h \in Holidays,
           CreateHolidayOf(o, h) \/ DeleteHolidayOf(o, h)
    PROVE  HolidayInv'
<1>1. copies \in [Organization -> [Holidays -> 0..MaxRows]] /\ MaxRows \in Nat
  BY HolidayConstants DEF HolidayInv, HolidayTables
<1>2. /\ copies' \in [Organization -> [Holidays -> 0..MaxRows]]
      /\ \A q \in Organization, x \in Holidays : q # o \/ x # h => copies'[q][x] = copies[q][x]
      /\ copies'[o][h] \in {copies[o][h] + 1, copies[o][h] - 1}
      /\ copies'[o][h] = copies[o][h] + 1 => CreateHolidayOf(o, h)
  BY <1>1 DEF CreateHolidayOf, DeleteHolidayOf
<1>3. /\ doubtful \subseteq doubtful' /\ doubtful' \subseteq Organization \X Holidays
      /\ master' = master /\ syncs' = syncs
      /\ CreateHolidayOf(o, h) =>
            \/ copies[o][h] = 0 /\ ~ExpectedBy(DOMAIN syncs, o, h)
            \/ <<o, h>> \in doubtful'
  BY <1>1 DEF CreateHolidayOf, DeleteHolidayOf, HolidayInv, HolidayTables
<1>4. \A s \in DOMAIN syncs : syncs[s] \in SyncRow
  BY SyncRowsAre
<1>5. HolidaysAreOnce'
  <2> SUFFICES ASSUME NEW q \in Organization, NEW x \in Holidays
               PROVE  copies'[q][x] <= 1 \/ <<q, x>> \in doubtful'
    BY DEF HolidaysAreOnce
  <2>1. copies[q][x] <= 1 \/ <<q, x>> \in doubtful
    BY DEF HolidayInv, HolidaysAreOnce
  <2> QED BY SMTT(30), <1>1, <1>2, <1>3, <2>1
<1>6. MissingStill(syncs, copies, doubtful)'
  <2> SUFFICES ASSUME NEW s \in DOMAIN syncs, syncs[s].at = "insert"
               PROVE  /\ syncs[s].org \in Organization
                      /\ \A x \in syncs[s].new :
                            copies'[syncs[s].org][x] = 0 \/ <<syncs[s].org, x>> \in doubtful'
    BY <1>3 DEF MissingStill
  <2>1. syncs[s].org \in Organization /\ syncs[s].new \subseteq Holidays
        /\ \A x \in syncs[s].new : copies[syncs[s].org][x] = 0 \/ <<syncs[s].org, x>> \in doubtful
    BY <1>4 DEF HolidayInv, MissingStill, SyncRow
  <2>2. syncs[s].org = o /\ h \in syncs[s].new => ExpectedBy(DOMAIN syncs, o, h)
    BY DEF ExpectedBy
  <2>3. ASSUME NEW x \in syncs[s].new
        PROVE  copies'[syncs[s].org][x] = 0 \/ <<syncs[s].org, x>> \in doubtful'
    <3>1. CASE syncs[s].org = o /\ x = h
      <4>1. CASE CreateHolidayOf(o, h)
        BY <1>3, <2>2, <2>3, <3>1, <4>1
      <4>2. CASE copies'[o][h] = copies[o][h] - 1
        BY <1>1, <1>2, <1>3, <2>1, <2>3, <3>1, <4>2
      <4> QED BY <1>2, <4>1, <4>2
    <3>2. CASE syncs[s].org # o \/ x # h
      BY <1>2, <1>3, <2>1, <2>3, <3>2
    <3> QED BY <3>1, <3>2
  <2> QED BY <2>1, <2>3
<1> QED BY <1>2, <1>3, <1>5, <1>6 DEF HolidayInv, HolidayTables

LEMMA HolidayInvInit == HolidayInit => HolidayInv
BY HolidayConstants, RowsAre DEF HolidayInit, HolidayInv, HolidayTables, MissingStill, HolidaysAreOnce

LEMMA HolidayInvNext == HolidayInv /\ [HolidayNext]_holidayVars => HolidayInv'
<1> SUFFICES ASSUME HolidayInv, [HolidayNext]_holidayVars
             PROVE  HolidayInv'
  OBVIOUS
<1>1. CASE UNCHANGED holidayVars
  BY <1>1 DEF holidayVars, HolidayInv, HolidayTables, MissingStill, HolidaysAreOnce
<1>2. ASSUME NEW s \in Sync, NEW named \in SUBSET Festival, BeginAnnualSync(s, named)
      PROVE  HolidayInv'
  <2>1. CASE Organization = {}
    <3>1. Organization \in SUBSET Organization /\ ParseRawHolidays(named) \in SUBSET Holidays
      BY ParsedAreHolidays, <1>2
    <3> DEFINE row == [records |-> ParseRawHolidays(named), todo |-> Organization,
                       at |-> "master", org |-> "none", new |-> {}]
    <3>2. row \in SyncRow /\ row.at = "master"
      BY <3>1 DEF SyncRow
    <3>3. syncs' = Upsert(syncs, s, row) /\ UNCHANGED <<master, copies, doubtful>>
      BY <1>2 DEF BeginAnnualSync, Run
    <3>4. master' \subseteq Holidays
      BY <3>3 DEF HolidayInv, HolidayTables
    <3> HIDE DEF row
    <3> QED BY <1>2, <3>2, <3>3, <3>4, SyncMoves
  <2>2. CASE Organization # {}
    BY <1>2, <2>2, BeginSteps
  <2> QED BY <2>1, <2>2
<1>3. ASSUME NEW s \in Sync, NEW named \in SUBSET Festival, NEW o \in Organization,
             BeginOrgSync(s, o, named)
      PROVE  HolidayInv'
  BY <1>3, BeginSteps
<1>4. ASSUME NEW s \in DOMAIN syncs, UpsertMasterHolidays(s) \/ CopyHolidaysToOrg(s)
                                     \/ EndSync(s) \/ LoseSync(s)
      PROVE  HolidayInv'
  BY <1>4, MasterStep, CopyStep, SyncGone DEF EndSync, LoseSync
<1>5. ASSUME NEW s \in DOMAIN syncs, NEW o \in Organization, ReadExisting(s, o)
      PROVE  HolidayInv'
  BY <1>5, ReadStep
<1>6. ASSUME NEW o \in Organization, NEW h \in Holidays, CreateHolidayOf(o, h) \/ DeleteHolidayOf(o, h)
      PROVE  HolidayInv'
  BY <1>6, AdministratorSteps
<1> QED BY <1>1, <1>2, <1>3, <1>4, <1>5, <1>6 DEF HolidayNext

LEMMA HolidayFollows == HolidayInv => HolidayTypeOK /\ HolidaysAreOnce
BY RowsAre DEF HolidayInv, HolidayTables, HolidayTypeOK

\* The tables of holidays keep their types.
THEOREM HolidayTypeCorrect == HolidaySpec => []HolidayTypeOK
BY HolidayFollows, HolidayInvInit, HolidayInvNext, PTL DEF HolidaySpec

\* However syncs overlap, fail and are repeated, an organization has a holiday
\* twice only when an administrator entered it, or when two were at it at once.
THEOREM HolidaysStayOnce == HolidaySpec => []HolidaysAreOnce
BY HolidayFollows, HolidayInvInit, HolidayInvNext, PTL DEF HolidaySpec

-----------------------------------------------------------------------------
(* The doors. *)

AccessInv ==
    /\ passes \in Rows(Entrant \X AccessPoint, AssignmentRow)
    /\ entries \in Seq(EntryRow) /\ Len(entries) <= MaxEntries
    /\ neverActive \subseteq DOMAIN passes
    /\ \A k \in DOMAIN passes :
          passes[k].status = "DISABLED" => passes[k].revoked \/ k \in neverActive

LEMMA EntriesChange ==
    ASSUME AccessInv, entries' \in Seq(EntryRow), Len(entries') <= MaxEntries,
           UNCHANGED <<passes, neverActive>>
    PROVE  AccessInv'
BY DEF AccessInv

LEMMA LogSteps ==
    ASSUME AccessInv, NEW rows \in Seq(EntryRow), Imported(rows)
    PROVE  AccessInv'
<1>1. entries' = entries \o rows /\ Len(entries) + Len(rows) <= MaxEntries
      /\ UNCHANGED <<passes, neverActive>>
  BY DEF Imported
<1>2. entries \in Seq(EntryRow)
  BY DEF AccessInv
<1>3. entries' \in Seq(EntryRow) /\ Len(entries') = Len(entries) + Len(rows)
  BY <1>1, <1>2
<1> QED BY <1>1, <1>3, EntriesChange

LEMMA UpdateLogKeeps ==
    ASSUME AccessInv, NEW e, NEW active \in BOOLEAN, UpdateLog(e, active)
    PROVE  AccessInv'
<1>1. entries \in Seq(EntryRow) /\ e \in DOMAIN entries /\ Len(entries) <= MaxEntries
      /\ entries' = [entries EXCEPT ![e].active = active] /\ UNCHANGED <<passes, neverActive>>
  BY DEF UpdateLog, AccessInv
<1> DEFINE row == [entries[e] EXCEPT !.active = active]
<1>2. entries[e] \in EntryRow
  BY <1>1
<1>3. row \in EntryRow
  BY <1>2 DEF EntryRow
<1> HIDE DEF row
<1>4. entries' = [entries EXCEPT ![e] = row]
  BY <1>1 DEF row
<1>5. entries' \in Seq(EntryRow) /\ Len(entries') = Len(entries)
  BY <1>1, <1>3, <1>4
<1> QED BY <1>1, <1>5, EntriesChange

LEMMA CreateAssignmentKeeps ==
    ASSUME AccessInv, NEW m \in Entrant, NEW p \in AccessPoint, NEW status \in AssignmentStatus,
           CreateAssignment(m, p, status)
    PROVE  AccessInv'
<1> DEFINE k == <<m, p>>
           row == [status |-> status, revoked |-> FALSE]
<1>1. /\ k \notin DOMAIN passes /\ passes' = Upsert(passes, k, row) /\ entries' = entries
      /\ neverActive' = IF status = "DISABLED" THEN neverActive \cup {k} ELSE neverActive
  BY DEF CreateAssignment
<1>2. k \in Entrant \X AccessPoint /\ row \in AssignmentRow /\ row.status = status
  BY DEF AssignmentRow
<1> HIDE DEF k, row
<1>3. passes' \in Rows(Entrant \X AccessPoint, AssignmentRow)
  BY <1>1, <1>2, UpsertRows DEF AccessInv
<1>4. DOMAIN passes' = DOMAIN passes \cup {k} /\ passes'[k] = row
      /\ \A x \in DOMAIN passes : passes'[x] = passes[x]
  BY <1>1 DEF Upsert
<1> QED BY <1>1, <1>2, <1>3, <1>4 DEF AccessInv

LEMMA UpdateAssignmentKeeps ==
    ASSUME AccessInv, NEW k, NEW status \in AssignmentStatus \cup {"same"}, NEW dated \in BOOLEAN,
           UpdateAssignment(k, status, dated)
    PROVE  AccessInv'
<1> DEFINE new == IF status = "same" THEN passes[k].status ELSE status
           on == passes[k].revoked \/ dated \/ status = "DISABLED"
           row == [status |-> new, revoked |-> on]
<1>1. passes \in [DOMAIN passes -> AssignmentRow] /\ DOMAIN passes \in SUBSET (Entrant \X AccessPoint)
  BY DEF AccessInv, Rows
<1>2. /\ k \in DOMAIN passes /\ passes' = [passes EXCEPT ![k] = row] /\ entries' = entries
      /\ neverActive' = IF status = "ACTIVE" THEN neverActive \ {k} ELSE neverActive
  BY DEF UpdateAssignment
<1>3. passes[k].status \in AssignmentStatus /\ passes[k].revoked \in BOOLEAN
  BY <1>1, <1>2 DEF AssignmentRow
<1>4. new \in AssignmentStatus /\ on \in BOOLEAN
  BY <1>3
<1>5. (new = "DISABLED" /\ ~on => status = "same" /\ passes[k].status = "DISABLED" /\ ~passes[k].revoked)
  BY <1>3
<1> HIDE DEF new, on
<1>6. row \in AssignmentRow /\ row.status = new /\ row.revoked = on
  BY <1>4 DEF AssignmentRow
<1> HIDE DEF row
<1>7. passes' \in [DOMAIN passes -> AssignmentRow]
  BY <1>1, <1>2, <1>6
<1>8. passes' \in Rows(Entrant \X AccessPoint, AssignmentRow) /\ DOMAIN passes' = DOMAIN passes
  BY <1>1, <1>7 DEF Rows
<1>9. passes'[k] = row /\ \A x \in DOMAIN passes \ {k} : passes'[x] = passes[x]
  BY <1>1, <1>2
<1>10. ASSUME NEW x \in DOMAIN passes', passes'[x].status = "DISABLED"
       PROVE  passes'[x].revoked \/ x \in neverActive'
  <2>1. CASE x = k
    <3>1. CASE on
      BY <1>6, <1>9, <2>1, <3>1
    <3>2. CASE ~on
      <4>1. k \in neverActive /\ status = "same"
        BY <1>2, <1>5, <1>6, <1>9, <1>10, <2>1, <3>2 DEF AccessInv
      <4> QED BY <1>2, <2>1, <4>1
    <3> QED BY <3>1, <3>2
  <2>2. CASE x # k
    BY <1>2, <1>8, <1>9, <1>10, <2>2 DEF AccessInv
  <2> QED BY <2>1, <2>2
<1>11. neverActive' \subseteq DOMAIN passes'
  BY <1>2, <1>8 DEF AccessInv
<1> QED BY <1>2, <1>8, <1>10, <1>11 DEF AccessInv

LEMMA AccessInvInit == AccessInit => AccessInv
BY RowsAre, AccessConstants DEF AccessInit, AccessInv

LEMMA AccessInvNext == AccessInv /\ [AccessNext]_accessVars => AccessInv'
<1> SUFFICES ASSUME AccessInv, [AccessNext]_accessVars
             PROVE  AccessInv'
  OBVIOUS
<1>1. CASE UNCHANGED accessVars
  BY <1>1 DEF accessVars, AccessInv
<1>2. ASSUME NEW row \in EntryRow, CreateLog(row)
      PROVE  AccessInv'
  <2>1. <<row>> \in Seq(EntryRow) /\ Imported(<<row>>)
    BY <1>2 DEF CreateLog
  <2> QED BY <2>1, LogSteps
<1>3. ASSUME NEW row \in EntryRow, NEW next \in EntryRow, BulkImportLogs(<<row, next>>)
      PROVE  AccessInv'
  <2>1. <<row, next>> \in Seq(EntryRow) /\ Imported(<<row, next>>)
    BY <1>3 DEF BulkImportLogs
  <2> QED BY <2>1, LogSteps
<1>4. ASSUME NEW e \in 1..MaxEntries, NEW active \in BOOLEAN, UpdateLog(e, active)
      PROVE  AccessInv'
  BY <1>4, UpdateLogKeeps
<1>5. ASSUME NEW m \in Entrant, NEW p \in AccessPoint, NEW status \in AssignmentStatus,
             CreateAssignment(m, p, status)
      PROVE  AccessInv'
  BY <1>5, CreateAssignmentKeeps
<1>6. ASSUME NEW k \in Entrant \X AccessPoint, NEW status \in AssignmentStatus \cup {"same"},
             NEW dated \in BOOLEAN, UpdateAssignment(k, status, dated)
      PROVE  AccessInv'
  BY <1>6, UpdateAssignmentKeeps
<1> QED BY <1>1, <1>2, <1>3, <1>4, <1>5, <1>6 DEF AccessNext

LEMMA CountsFollow == AccessInv => AccessCountsAgree
<1> SUFFICES ASSUME AccessInv PROVE AccessCountsAgree
  OBVIOUS
<1> DEFINE today == {e \in DOMAIN entries : entries[e].enteredAt = "today"}
           came == {entries[e].member : e \in today}
<1>1. \A e \in DOMAIN entries : entries[e] \in EntryRow
  BY DEF AccessInv
<1>2. \A e \in DOMAIN entries :
        /\ entries[e].member \in Entrant /\ entries[e].point \in AccessPoint
        /\ entries[e].status \in AccessStatus
  BY <1>1 DEF EntryRow
<1>3. IsFiniteSet(DOMAIN entries)
  <2>1. DOMAIN entries = 1..Len(entries) /\ Len(entries) \in Nat
    BY DEF AccessInv
  <2> QED BY <2>1, FS_Interval
<1> DEFINE Of(s) == {e \in today : entries[e].status \in s}
<1>4. /\ GetLogSummary.totalEntriesToday = Cardinality(Of(AccessStatus))
      /\ GetLogSummary.grantedToday = Cardinality(Of({"GRANTED"}))
      /\ GetLogSummary.deniedToday = Cardinality(Of({"DENIED"}))
      /\ GetLogSummary.uniqueEmployeesToday = Cardinality(came)
  <2>1. \A s : Of(s) = {e \in DOMAIN entries : entries[e].enteredAt = "today" /\ entries[e].status \in s}
    OBVIOUS
  <2>2. Of(AccessStatus) = today
    BY <1>2
  <2> QED BY <2>1, <2>2 DEF GetLogSummary
<1>5. \A s : ListedToday(Entrant, s) = Cardinality(Of(s))
  <2>1. \A s : ListLogs(Entrant, AccessPoint, s, {"today"}) = Of(s)
    BY <1>2 DEF ListLogs
  <2> QED BY <2>1 DEF ListedToday
<1>6. Cardinality(Of({"DENIED"})) + Cardinality(Of({"GRANTED", "EXPIRED"})) = Cardinality(Of(AccessStatus))
  <2> DEFINE A == Of({"DENIED"})
             B == Of({"GRANTED", "EXPIRED"})
             C == Of(AccessStatus)
  <2>1. A \subseteq DOMAIN entries /\ B \subseteq DOMAIN entries /\ A \cap B = {}
        /\ A \cup B = C
    BY DEF AccessStatus
  <2> HIDE DEF A, B, C
  <2>2. IsFiniteSet(A) /\ IsFiniteSet(B)
    BY <1>3, <2>1, FS_Subset
  <2>3. Cardinality(A \cup B) = Cardinality(A) + Cardinality(B) - Cardinality(A \cap B)
    BY <2>2, FS_Union
  <2>4. Cardinality(A) \in Nat /\ Cardinality(B) \in Nat /\ Cardinality(A \cap B) = 0
    BY <2>1, <2>2, FS_CardinalityType, FS_EmptySet
  <2>5. Cardinality(A) + Cardinality(B) = Cardinality(C)
    <3>1. A \cup B = C
      BY <2>1
    <3>2. Cardinality(A \cup B) = Cardinality(C)
      BY <3>1
    <3>3. Cardinality(A) + Cardinality(B) = Cardinality(A \cup B)
      BY <2>3, <2>4
    <3> QED BY <3>2, <3>3
  <2> QED BY <2>5 DEF A, B, C
<1>7. \A m \in Entrant : ListedToday({m}, AccessStatus) > 0 <=> m \in came
  <2> SUFFICES ASSUME NEW m \in Entrant
               PROVE  ListedToday({m}, AccessStatus) > 0 <=> m \in came
    OBVIOUS
  <2> DEFINE his == ListLogs({m}, AccessPoint, AccessStatus, {"today"})
  <2>1. his = {e \in today : entries[e].member = m}
    BY <1>2 DEF ListLogs
  <2>2. his # {} <=> m \in came
    BY <2>1
  <2>3. IsFiniteSet(his)
    BY <1>3, <2>1, FS_Subset
  <2>4. Cardinality(his) \in Nat /\ (Cardinality(his) = 0 <=> his = {})
    BY <2>3, FS_CardinalityType, FS_EmptySet
  <2> HIDE DEF his
  <2>5. Cardinality(his) > 0 <=> his # {}
    BY <2>4
  <2> QED BY <2>2, <2>5 DEF ListedToday, his
<1>8. came = {m \in Entrant : ListedToday({m}, AccessStatus) > 0}
  BY <1>2, <1>7
<1> HIDE DEF Of, came
<1> QED BY <1>4, <1>5, <1>6, <1>8 DEF AccessCountsAgree

\* How MapThenSumSet adds the figures of the members, and of the points.
EntrySteps(h, s) ==
    IF s = {} THEN 0
    ELSE LET x == CHOOSE x \in s : TRUE IN ListedToday({x}, AccessStatus) + h[s \ {x}]
PassSteps(h, s) ==
    IF s = {} THEN 0
    ELSE LET x == CHOOSE x \in s : TRUE
         IN  Cardinality(ListAssignments(Entrant, {x}, {"ACTIVE"})) + h[s \ {x}]

LEMMA EntriesAddUp ==
    ASSUME AccessInv
    PROVE  MapThenSumSet(LAMBDA m : ListedToday({m}, AccessStatus), Entrant) =
               GetLogSummary.totalEntriesToday
<1> DEFINE iter == CHOOSE h : h = [s \in SUBSET Entrant |-> EntrySteps(h, s)]
           D == {e \in DOMAIN entries : entries[e].enteredAt = "today"}
           owner == [e \in D |-> entries[e].member]
           g == [m \in Entrant |-> ListedToday({m}, AccessStatus)]
<1>1. MapThenSumSet(LAMBDA m : ListedToday({m}, AccessStatus), Entrant) = iter[Entrant]
  BY DEF MapThenSumSet, MapThenFoldSet, EntrySteps
<1>2. \A e \in DOMAIN entries :
        /\ entries[e].member \in Entrant /\ entries[e].point \in AccessPoint
        /\ entries[e].status \in AccessStatus
  <2>1. \A e \in DOMAIN entries : entries[e] \in EntryRow
    BY DEF AccessInv
  <2> QED BY <2>1 DEF EntryRow
<1>3. IsFiniteSet(D)
  <2>1. DOMAIN entries = 1..Len(entries) /\ Len(entries) \in Nat
    BY DEF AccessInv
  <2>2. IsFiniteSet(DOMAIN entries)
    BY <2>1, FS_Interval
  <2> QED BY <2>2, FS_Subset
<1>4. ASSUME NEW m \in Entrant PROVE g[m] = Cardinality(OwnedBy({m}, D, owner))
  <2>1. ListLogs({m}, AccessPoint, AccessStatus, {"today"}) = OwnedBy({m}, D, owner)
    BY <1>2 DEF ListLogs, OwnedBy
  <2> QED BY <2>1 DEF ListedToday
<1>5. GetLogSummary.totalEntriesToday = Cardinality(OwnedBy(Entrant, D, owner))
  <2>1. OwnedBy(Entrant, D, owner) =
            {e \in DOMAIN entries : entries[e].enteredAt = "today" /\ entries[e].status \in AccessStatus}
    BY <1>2 DEF OwnedBy
  <2> QED BY <2>1 DEF GetLogSummary
<1>6. ASSUME NEW h, NEW s \in SUBSET Entrant PROVE SumStep(g, h, s) = EntrySteps(h, s)
  <2>1. CASE s = {}
    BY <2>1 DEF SumStep, EntrySteps
  <2>2. CASE s # {}
    <3>1. (CHOOSE x \in s : TRUE) \in Entrant
      BY <2>2
    <3> QED BY <2>2, <3>1 DEF SumStep, EntrySteps
  <2> QED BY <2>1, <2>2
<1> HIDE DEF g, D, owner
<1>7. SumsTo(g, Entrant, Cardinality(OwnedBy(Entrant, D, owner)))
  BY <1>3, <1>4, AccessConstants, CountsAddUp
<1>8. ASSUME NEW h PROVE IsSum(g, h, Entrant) <=> h = [s \in SUBSET Entrant |-> EntrySteps(h, s)]
  BY <1>6 DEF IsSum
<1>9. IsSum(g, iter, Entrant)
  BY <1>7, <1>8 DEF SumsTo
<1> HIDE DEF iter
<1> QED BY <1>1, <1>5, <1>7, <1>9 DEF SumsTo

LEMMA PassesAddUp ==
    ASSUME AccessInv
    PROVE  MapThenSumSet(LAMBDA p : Cardinality(ListAssignments(Entrant, {p}, {"ACTIVE"})), AccessPoint) =
               GetLogSummary.activeAssignments
<1> DEFINE iter == CHOOSE h : h = [s \in SUBSET AccessPoint |-> PassSteps(h, s)]
           D == {k \in DOMAIN passes : passes[k].status = "ACTIVE"}
           owner == [k \in D |-> k[2]]
           g == [p \in AccessPoint |-> Cardinality(ListAssignments(Entrant, {p}, {"ACTIVE"}))]
<1>1. MapThenSumSet(LAMBDA p : Cardinality(ListAssignments(Entrant, {p}, {"ACTIVE"})), AccessPoint) =
          iter[AccessPoint]
  BY DEF MapThenSumSet, MapThenFoldSet, PassSteps
<1>2. DOMAIN passes \subseteq Entrant \X AccessPoint
  BY DEF AccessInv, Rows
<1>3. IsFiniteSet(D)
  <2>1. IsFiniteSet(Entrant \X AccessPoint)
    BY AccessConstants, FS_Product
  <2>2. D \subseteq Entrant \X AccessPoint
    BY <1>2
  <2> QED BY <2>1, <2>2, FS_Subset
<1>4. ASSUME NEW p \in AccessPoint PROVE g[p] = Cardinality(OwnedBy({p}, D, owner))
  <2>1. ListAssignments(Entrant, {p}, {"ACTIVE"}) = OwnedBy({p}, D, owner)
    BY <1>2 DEF ListAssignments, OwnedBy
  <2> QED BY <2>1
<1>5. GetLogSummary.activeAssignments = Cardinality(OwnedBy(AccessPoint, D, owner))
  <2>1. OwnedBy(AccessPoint, D, owner) = D
    BY <1>2 DEF OwnedBy
  <2> QED BY <2>1 DEF GetLogSummary
<1>6. ASSUME NEW h, NEW s \in SUBSET AccessPoint PROVE SumStep(g, h, s) = PassSteps(h, s)
  <2>1. CASE s = {}
    BY <2>1 DEF SumStep, PassSteps
  <2>2. CASE s # {}
    <3>1. (CHOOSE x \in s : TRUE) \in AccessPoint
      BY <2>2
    <3> QED BY <2>2, <3>1 DEF SumStep, PassSteps
  <2> QED BY <2>1, <2>2
<1> HIDE DEF g, D, owner
<1>7. SumsTo(g, AccessPoint, Cardinality(OwnedBy(AccessPoint, D, owner)))
  BY <1>3, <1>4, AccessConstants, CountsAddUp
<1>8. ASSUME NEW h PROVE IsSum(g, h, AccessPoint) <=> h = [s \in SUBSET AccessPoint |-> PassSteps(h, s)]
  BY <1>6 DEF IsSum
<1>9. IsSum(g, iter, AccessPoint)
  BY <1>7, <1>8 DEF SumsTo
<1> HIDE DEF iter
<1> QED BY <1>1, <1>5, <1>7, <1>9 DEF SumsTo

LEMMA SumsFollow == AccessInv => AccessSumsAgree
BY EntriesAddUp, PassesAddUp DEF AccessSumsAgree

LEMMA AccessFollows == AccessInv => AccessTypeOK
BY RowsAre DEF AccessInv, AccessTypeOK

\* Assignments and log keep their types.
THEOREM AccessTypeCorrect == AccessSpec => []AccessTypeOK
BY AccessFollows, AccessInvInit, AccessInvNext, PTL DEF AccessSpec

LEMMA DatesFollow == AccessInv => DisabledAreDated
BY DEF AccessInv, DisabledAreDated, ListAssignments

LEMMA AccessPagesFollow == AccessInv => AccessPagesAgree
BY CountsFollow, SumsFollow, DatesFollow DEF AccessPagesAgree

\* The figures on the access page are those of the lists, added up by member and by
\* point, and an assignment that was once in force and is disabled says since when.
THEOREM AccessFiguresHold == AccessSpec => []AccessPagesAgree
BY AccessPagesFollow, AccessInvInit, AccessInvNext, PTL DEF AccessSpec

-----------------------------------------------------------------------------
(* The notifications of decisions. *)

\* Sessions that have decided r, notifications of it.
Telling(r, ds) == {d \in Decider : ds[d].kind = "tell" /\ ds[d].ask = r}
Told(r, ns) == {n \in DOMAIN ns : ns[n].ask = r}

\* Of a request decided at most once: told, about to be told, or lost, and
\* only one of these and once.
ToldOnce(r, as, ds, ns, lost) ==
    /\ \A n \in Told(r, ns) : ns[n].verdict = as[r] /\ ns[n].member = AskedBy[r]
    /\ \A d \in Telling(r, ds) : ds[d].verdict = as[r]
    /\ \A n, m \in Told(r, ns) : n = m
    /\ \A d, e \in Telling(r, ds) : d = e
    /\ Told(r, ns) = {} \/ Telling(r, ds) = {}
    /\ r \in lost => Told(r, ns) = {} /\ Telling(r, ds) = {}
    /\ as[r] \in Verdict <=> Told(r, ns) # {} \/ Telling(r, ds) # {} \/ r \in lost

NoticesInv ==
    NotificationsTypeOK /\ \A r \in Ask \ contested : ToldOnce(r, asks, deciders, notices, untold)

LEMMA NoticesAreTold == NoticesInv => DecisionsAreTold
<1> SUFFICES ASSUME NoticesInv, NEW r \in Ask \ contested
             PROVE  LET told    == {n \in DOMAIN notices : notices[n].ask = r}
                        telling == {d \in Decider : deciders[d].kind = "tell" /\ deciders[d].ask = r}
                    IN  /\ \A n \in told : notices[n].verdict = asks[r] /\ notices[n].member = AskedBy[r]
                        /\ Cardinality(told) + Cardinality(telling) + (IF r \in untold THEN 1 ELSE 0)
                              = IF asks[r] \in Verdict THEN 1 ELSE 0
  BY DEF DecisionsAreTold
<1> DEFINE told == Told(r, notices)
           telling == Telling(r, deciders)
<1>1. ToldOnce(r, asks, deciders, notices, untold)
  BY DEF NoticesInv
<1>2. Cardinality(told) = IF told = {} THEN 0 ELSE 1
  <2>1. CASE told = {}
    BY <2>1, FS_EmptySet
  <2>2. CASE told # {}
    <3>1. PICK n \in told : TRUE
      BY <2>2
    <3>2. told = {n}
      BY <1>1, <3>1 DEF ToldOnce
    <3> QED BY <2>2, <3>2, FS_Singleton
  <2> QED BY <2>1, <2>2
<1>3. Cardinality(telling) = IF telling = {} THEN 0 ELSE 1
  <2>1. CASE telling = {}
    BY <2>1, FS_EmptySet
  <2>2. CASE telling # {}
    <3>1. PICK d \in telling : TRUE
      BY <2>2
    <3>2. telling = {d}
      BY <1>1, <3>1 DEF ToldOnce
    <3> QED BY <2>2, <3>2, FS_Singleton
  <2> QED BY <2>1, <2>2
<1>4. Cardinality(told) + Cardinality(telling) + (IF r \in untold THEN 1 ELSE 0)
        = IF asks[r] \in Verdict THEN 1 ELSE 0
  <2>1. /\ told = {} \/ telling = {}
        /\ r \in untold => told = {} /\ telling = {}
        /\ asks[r] \in Verdict <=> told # {} \/ telling # {} \/ r \in untold
    BY <1>1 DEF ToldOnce
  <2> HIDE DEF told, telling
  <2> QED BY <1>2, <1>3, <2>1
<1> QED BY <1>1, <1>4 DEF ToldOnce, Told, Telling

LEMMA DeciderIs ==
    ASSUME NoticesInv, NEW d \in Decider, deciders[d] # Free
    PROVE  deciders[d] \in [kind : {"decide", "tell"}, ask : Ask, verdict : Verdict]
BY DEF NoticesInv, NotificationsTypeOK, DeciderState

\* A session goes on to something else than telling, and nothing else changes.
LEMMA DeciderMoves ==
    ASSUME NoticesInv, NEW d \in Decider, NEW new \in DeciderState, new.kind # "tell",
           deciders[d].kind # "tell", deciders' = [deciders EXCEPT ![d] = new],
           UNCHANGED <<asks, notices, contested, untold>>
    PROVE  NoticesInv'
<1>1. NotificationsTypeOK'
  BY DEF NoticesInv, NotificationsTypeOK
<1>2. \A r \in Ask : Telling(r, deciders') = Telling(r, deciders)
                     /\ \A e \in Telling(r, deciders) : deciders'[e] = deciders[e]
  BY DEF Telling, NoticesInv, NotificationsTypeOK
<1>3. ASSUME NEW r \in Ask \ contested
      PROVE  ToldOnce(r, asks, deciders', notices, untold)
  <2>1. ToldOnce(r, asks, deciders, notices, untold)
    BY <1>3 DEF NoticesInv
  <2>2. Telling(r, deciders') = Telling(r, deciders)
        /\ \A e \in Telling(r, deciders) : deciders'[e] = deciders[e]
    BY <1>2, <1>3
  <2> QED BY <2>1, <2>2 DEF ToldOnce
<1> QED BY <1>1, <1>3 DEF NoticesInv

LEMMA ReadRequestKeeps ==
    ASSUME NoticesInv, NEW d \in Decider, NEW r \in Ask, NEW verdict \in Verdict,
           ReadRequest(d, r, verdict)
    PROVE  NoticesInv'
<1> DEFINE new == [kind |-> "decide", ask |-> r, verdict |-> verdict]
<1>1. new \in DeciderState /\ new.kind # "tell"
  BY DEF DeciderState
<1>2. /\ deciders[d].kind # "tell" /\ deciders' = [deciders EXCEPT ![d] = new]
      /\ UNCHANGED <<asks, notices, contested, untold>>
  BY DEF ReadRequest, Free
<1> HIDE DEF new
<1> QED BY <1>1, <1>2, DeciderMoves

LEMMA CommitDecisionKeeps ==
    ASSUME NoticesInv, NEW d \in Decider, CommitDecision(d)
    PROVE  NoticesInv'
<1> DEFINE r == deciders[d].ask
<1>1. deciders[d] \in [kind : {"decide", "tell"}, ask : Ask, verdict : Verdict]
      /\ deciders[d].kind = "decide" /\ deciders[d] \in DeciderState
  BY DeciderIs DEF CommitDecision, Free, NoticesInv, NotificationsTypeOK
<1>2. /\ asks' = [asks EXCEPT ![r] = deciders[d].verdict]
      /\ deciders' = [deciders EXCEPT ![d].kind = "tell"]
      /\ contested' = IF asks[r] = "PENDING" THEN contested ELSE contested \cup {r}
      /\ notices' = notices /\ untold' = untold
  BY DEF CommitDecision
<1>3. r \in Ask /\ deciders[d].verdict \in Verdict
  BY <1>1
<1>4. /\ deciders' \in [Decider -> DeciderState]
      /\ deciders'[d].kind = "tell" /\ deciders'[d].ask = r
      /\ deciders'[d].verdict = deciders[d].verdict
      /\ \A e \in Decider \ {d} : deciders'[e] = deciders[e]
  BY <1>1, <1>2 DEF DeciderState, NoticesInv, NotificationsTypeOK
<1>5. NotificationsTypeOK'
  BY <1>2, <1>3, <1>4 DEF NoticesInv, NotificationsTypeOK
<1> HIDE DEF r
<1>6. ASSUME NEW q \in Ask \ contested'
      PROVE  ToldOnce(q, asks', deciders', notices, untold)
  <2>1. ToldOnce(q, asks, deciders, notices, untold)
    BY <1>2, <1>6 DEF NoticesInv
  <2>2. CASE q = r
    <3>1. asks[r] = "PENDING" /\ asks'[r] = deciders[d].verdict
      BY <1>2, <1>3, <1>6, <2>2 DEF NoticesInv, NotificationsTypeOK
    <3>2. Told(r, notices) = {} /\ Telling(r, deciders) = {} /\ r \notin untold
      BY <2>1, <2>2, <3>1 DEF ToldOnce, Verdict
    <3>3. Telling(r, deciders') = {d}
      BY <1>4, <3>2 DEF Telling
    <3> QED BY <1>3, <1>4, <2>2, <3>1, <3>2, <3>3 DEF ToldOnce
  <2>3. CASE q # r
    <3>1. asks'[q] = asks[q]
      BY <1>2, <1>6, <2>3 DEF NoticesInv, NotificationsTypeOK
    <3>2. Telling(q, deciders') = Telling(q, deciders)
          /\ \A e \in Telling(q, deciders) : deciders'[e] = deciders[e]
      BY <1>1, <1>4, <2>3 DEF Telling, r
    <3> QED BY <2>1, <3>1, <3>2 DEF ToldOnce
  <2> QED BY <2>2, <2>3
<1> QED BY <1>2, <1>5, <1>6 DEF NoticesInv

LEMMA CancelRequestKeeps ==
    ASSUME NoticesInv, NEW r \in Ask, CancelRequest(r)
    PROVE  NoticesInv'
<1>1. NotificationsTypeOK'
  BY DEF NoticesInv, NotificationsTypeOK, CancelRequest
<1>2. \A q \in Ask : asks'[q] = IF q = r THEN "CANCELLED" ELSE asks[q]
  BY DEF NoticesInv, NotificationsTypeOK, CancelRequest
<1>3. asks[r] = "PENDING" /\ UNCHANGED <<deciders, notices, contested, untold>>
  BY DEF CancelRequest
<1>4. \A q \in Ask \ contested : ToldOnce(q, asks', deciders, notices, untold)
  BY <1>2, <1>3 DEF ToldOnce, NoticesInv, Verdict
<1> QED BY <1>1, <1>3, <1>4 DEF NoticesInv

\* A session that told the member of what it decided.
LEMMA TellingKeeps ==
    ASSUME NoticesInv, NEW d \in Decider, HandleApprove(d) \/ HandleReject(d)
    PROVE  NoticesInv'
<1> DEFINE r == deciders[d].ask
           row == [member |-> AskedBy[r], ask |-> r, verdict |-> deciders[d].verdict,
                   status |-> "UNREAD"]
<1>1. deciders[d] \in [kind : {"decide", "tell"}, ask : Ask, verdict : Verdict]
      /\ deciders[d].kind = "tell"
  BY DeciderIs DEF HandleApprove, HandleReject, Free
<1>2. /\ notices' = notices \o <<row>> /\ deciders' = [deciders EXCEPT ![d] = Free]
      /\ UNCHANGED <<asks, contested, untold>>
  BY DEF HandleApprove, HandleReject, CreateNotificationBatch
<1>3. r \in Ask /\ row \in NoticeRow /\ row.ask = r /\ row.verdict = deciders[d].verdict
      /\ row.member = AskedBy[r]
  BY <1>1, NotificationsConstants DEF NoticeRow
<1>4. deciders' \in [Decider -> DeciderState] /\ deciders'[d].kind # "tell"
      /\ \A e \in Decider \ {d} : deciders'[e] = deciders[e]
  BY <1>2 DEF DeciderState, NoticesInv, NotificationsTypeOK, Free
<1> HIDE DEF row
<1>5. notices \in Seq(NoticeRow)
  BY DEF NoticesInv, NotificationsTypeOK
<1>6. /\ notices' \in Seq(NoticeRow) /\ DOMAIN notices' = DOMAIN notices \cup {Len(notices) + 1}
      /\ Len(notices) + 1 \notin DOMAIN notices /\ notices'[Len(notices) + 1] = row
      /\ \A n \in DOMAIN notices : notices'[n] = notices[n]
  BY <1>2, <1>3, <1>5
<1>7. NotificationsTypeOK'
  BY <1>2, <1>4, <1>6 DEF NoticesInv, NotificationsTypeOK
<1> DEFINE last == Len(notices) + 1
<1> HIDE DEF last
<1>8. ASSUME NEW q \in Ask \ contested
      PROVE  ToldOnce(q, asks, deciders', notices', untold)
  <2>1. ToldOnce(q, asks, deciders, notices, untold)
    BY <1>8 DEF NoticesInv
  <2>2. CASE q = r
    <3>1. d \in Telling(r, deciders)
      BY <1>1 DEF Telling
    <3>2. /\ Told(r, notices) = {} /\ Telling(r, deciders) = {d} /\ r \notin untold
          /\ asks[r] = deciders[d].verdict /\ asks[r] \in Verdict
      BY <2>1, <2>2, <3>1 DEF ToldOnce
    <3>3. Telling(r, deciders') = {}
      BY <1>4, <3>2 DEF Telling
    <3>4. Told(r, notices') = {last}
      BY <1>3, <1>6, <3>2 DEF Told, last
    <3> QED BY <1>3, <1>6, <2>2, <3>2, <3>3, <3>4 DEF ToldOnce, last
  <2>3. CASE q # r
    <3>1. Telling(q, deciders') = Telling(q, deciders)
          /\ \A e \in Telling(q, deciders) : deciders'[e] = deciders[e]
      BY <1>1, <1>4, <2>3 DEF Telling
    <3>2. Told(q, notices') = Told(q, notices)
          /\ \A n \in Told(q, notices) : notices'[n] = notices[n]
      BY <1>3, <1>6, <2>3 DEF Told
    <3> QED BY <2>1, <3>1, <3>2 DEF ToldOnce
  <2> QED BY <2>2, <2>3
<1> QED BY <1>2, <1>7, <1>8 DEF NoticesInv

LEMMA LoseDeciderKeeps ==
    ASSUME NoticesInv, NEW d \in Decider, LoseDecider(d)
    PROVE  NoticesInv'
<1> DEFINE r == deciders[d].ask
<1>1. deciders[d] \in [kind : {"decide", "tell"}, ask : Ask, verdict : Verdict]
  BY DeciderIs DEF LoseDecider
<1>2. /\ untold' = IF deciders[d].kind = "tell" THEN untold \cup {r} ELSE untold
      /\ deciders' = [deciders EXCEPT ![d] = Free]
      /\ UNCHANGED <<asks, notices, contested>>
  BY DEF LoseDecider
<1>3. CASE deciders[d].kind # "tell"
  <2>1. Free \in DeciderState /\ Free.kind # "tell"
    BY DEF DeciderState, Free
  <2> QED BY <1>2, <1>3, <2>1, DeciderMoves
<1>4. CASE deciders[d].kind = "tell"
  <2>1. deciders' \in [Decider -> DeciderState] /\ deciders'[d].kind # "tell"
        /\ \A e \in Decider \ {d} : deciders'[e] = deciders[e]
    BY <1>2 DEF DeciderState, NoticesInv, NotificationsTypeOK, Free
  <2>2. NotificationsTypeOK'
    BY <1>1, <1>2, <2>1 DEF NoticesInv, NotificationsTypeOK
  <2>3. ASSUME NEW q \in Ask \ contested
        PROVE  ToldOnce(q, asks, deciders', notices, untold')
    <3>1. ToldOnce(q, asks, deciders, notices, untold)
      BY <2>3 DEF NoticesInv
    <3>2. CASE q = r
      <4>1. d \in Telling(r, deciders)
        BY <1>4 DEF Telling
      <4>2. Telling(r, deciders') = {} /\ Told(r, notices) = {} /\ r \in untold'
            /\ asks[r] \in Verdict
        BY <1>2, <1>4, <2>1, <3>1, <3>2, <4>1 DEF ToldOnce, Telling
      <4> QED BY <3>2, <4>2 DEF ToldOnce
    <3>3. CASE q # r
      <4>1. Telling(q, deciders') = Telling(q, deciders)
            /\ \A e \in Telling(q, deciders) : deciders'[e] = deciders[e]
        BY <1>4, <2>1, <3>3 DEF Telling
      <4>2. q \in untold' <=> q \in untold
        BY <1>2, <3>3
      <4> QED BY <3>1, <4>1, <4>2 DEF ToldOnce
    <3> QED BY <3>2, <3>3
  <2> QED BY <1>2, <2>2, <2>3 DEF NoticesInv
<1> QED BY <1>3, <1>4

\* Reading changes no more than the status of a notification.
LEMMA ReadingKeeps ==
    ASSUME NoticesInv, NEW m \in Recipient,
           (\E n \in DOMAIN notices : MarkNotificationAsRead(m, n)) \/ MarkAllNotificationsAsRead(m)
    PROVE  NoticesInv'
<1>1. notices \in Seq(NoticeRow) /\ \A n \in DOMAIN notices : notices[n] \in NoticeRow
  BY DEF NoticesInv, NotificationsTypeOK
<1>2. DOMAIN notices' = DOMAIN notices
      /\ \A n \in DOMAIN notices : notices'[n] \in {notices[n], [notices[n] EXCEPT !.status = "READ"]}
  <2>1. CASE \E n \in DOMAIN notices : MarkNotificationAsRead(m, n)
    BY <1>1, <2>1 DEF MarkNotificationAsRead
  <2>2. CASE MarkAllNotificationsAsRead(m)
    BY <2>2 DEF MarkAllNotificationsAsRead
  <2> QED BY <2>1, <2>2
<1>3. \A n \in DOMAIN notices :
        /\ notices'[n] \in NoticeRow /\ notices'[n].ask = notices[n].ask
        /\ notices'[n].verdict = notices[n].verdict /\ notices'[n].member = notices[n].member
  BY <1>1, <1>2 DEF NoticeRow
<1>4. notices' \in Seq(NoticeRow)
  <2>1. Len(notices) \in Nat /\ DOMAIN notices = 1..Len(notices)
    BY <1>1
  <2>2. notices' \in [1..Len(notices) -> NoticeRow]
    <3>1. CASE \E n \in DOMAIN notices : MarkNotificationAsRead(m, n)
      BY <1>1, <1>3, <2>1, <3>1 DEF MarkNotificationAsRead
    <3>2. CASE MarkAllNotificationsAsRead(m)
      BY <1>3, <2>1, <3>2 DEF MarkAllNotificationsAsRead
    <3> QED BY <3>1, <3>2
  <2> QED BY <2>1, <2>2
<1>5. UNCHANGED <<asks, deciders, contested, untold>>
  BY DEF MarkNotificationAsRead, MarkAllNotificationsAsRead
<1>6. NotificationsTypeOK'
  BY <1>4, <1>5 DEF NoticesInv, NotificationsTypeOK
<1>7. \A q \in Ask \ contested : ToldOnce(q, asks, deciders, notices', untold)
  <2>1. \A q \in Ask : Told(q, notices') = Told(q, notices)
    BY <1>2, <1>3 DEF Told
  <2>2. \A q \in Ask : \A n \in Told(q, notices) :
           notices'[n].verdict = notices[n].verdict /\ notices'[n].member = notices[n].member
    BY <1>3 DEF Told
  <2> QED BY <2>1, <2>2 DEF ToldOnce, NoticesInv
<1> QED BY <1>5, <1>6, <1>7 DEF NoticesInv

LEMMA NoticesInvInit == NotificationsInit => NoticesInv
<1> SUFFICES ASSUME NotificationsInit PROVE NoticesInv
  OBVIOUS
<1>1. NotificationsTypeOK
  BY DEF NotificationsInit, NotificationsTypeOK, DeciderState
<1>2. \A r \in Ask : Told(r, notices) = {} /\ Telling(r, deciders) = {} /\ r \notin untold
                     /\ asks[r] \notin Verdict
  BY DEF NotificationsInit, Told, Telling, Free, Verdict
<1> QED BY <1>1, <1>2 DEF NoticesInv, ToldOnce

LEMMA NoticesInvNext == NoticesInv /\ [NotificationsNext]_noticeVars => NoticesInv'
<1> SUFFICES ASSUME NoticesInv, [NotificationsNext]_noticeVars
             PROVE  NoticesInv'
  OBVIOUS
<1>1. CASE UNCHANGED noticeVars
  BY <1>1 DEF noticeVars, NoticesInv, NotificationsTypeOK, ToldOnce, Told, Telling
<1>2. ASSUME NEW d \in Decider, NEW r \in Ask, NEW verdict \in Verdict, ReadRequest(d, r, verdict)
      PROVE  NoticesInv'
  BY <1>2, ReadRequestKeeps
<1>3. ASSUME NEW d \in Decider, CommitDecision(d) \/ HandleApprove(d) \/ HandleReject(d) \/ LoseDecider(d)
      PROVE  NoticesInv'
  BY <1>3, CommitDecisionKeeps, TellingKeeps, LoseDeciderKeeps
<1>4. ASSUME NEW r \in Ask, CancelRequest(r)
      PROVE  NoticesInv'
  BY <1>4, CancelRequestKeeps
<1>5. ASSUME NEW m \in Recipient,
             (\E n \in DOMAIN notices : MarkNotificationAsRead(m, n)) \/ MarkAllNotificationsAsRead(m)
      PROVE  NoticesInv'
  BY <1>5, ReadingKeeps
<1> QED BY <1>1, <1>2, <1>3, <1>4, <1>5 DEF NotificationsNext

\* Requests, sessions and notifications keep their types.
THEOREM NoticesTypeCorrect == NotificationsSpec => []NotificationsTypeOK
<1>1. NoticesInv => NotificationsTypeOK
  BY DEF NoticesInv
<1> QED BY <1>1, NoticesInvInit, NoticesInvNext, PTL DEF NotificationsSpec

\* Of a request decided once the member is told exactly once, and of what was
\* decided, unless the session was lost after its commit.
THEOREM DecisionsToldOnce == NotificationsSpec => []DecisionsAreTold
<1> QED BY NoticesAreTold, NoticesInvInit, NoticesInvNext, PTL DEF NotificationsSpec

\* The order of the list, and the whole list.
Sooner(n, o) ==
    \/ notices[n].status = "READ" /\ notices[o].status = "UNREAD"
    \/ notices[n].status = notices[o].status /\ n > o
Listing(m, statuses) == InOrder(NoticesOf(m, statuses), Sooner)

\* The same order by numbers.
SoonerKey == [n \in DOMAIN notices |-> IF notices[n].status = "READ" THEN -n ELSE Len(notices) + 1 - n]

LEMMA SoonerIsOrder ==
    ASSUME notices \in Seq(NoticeRow), NEW n \in DOMAIN notices, NEW o \in DOMAIN notices
    PROVE  /\ SoonerKey[n] \in Int
           /\ SoonerKey[n] = SoonerKey[o] => n = o
           /\ Sooner(n, o) <=> SoonerKey[n] < SoonerKey[o]
<1> DEFINE len == Len(notices)
           s == notices[n].status
           t == notices[o].status
<1>1. len \in Nat /\ n \in 1..len /\ o \in 1..len
  OBVIOUS
<1>2. s \in {"READ", "UNREAD"} /\ t \in {"READ", "UNREAD"}
  <2>1. notices[n] \in NoticeRow /\ notices[o] \in NoticeRow
    OBVIOUS
  <2> QED BY <2>1 DEF NoticeRow
<1>3. /\ SoonerKey[n] = IF s = "READ" THEN -n ELSE len + 1 - n
      /\ SoonerKey[o] = IF t = "READ" THEN -o ELSE len + 1 - o
  BY DEF SoonerKey
<1>4. Sooner(n, o) <=> (s = "READ" /\ t = "UNREAD") \/ (s = t /\ n > o)
  BY DEF Sooner
<1> HIDE DEF len, s, t
<1> DEFINE x == SoonerKey[n]
           y == SoonerKey[o]
<1>5. x = (IF s = "READ" THEN -n ELSE len + 1 - n) /\ y = IF t = "READ" THEN -o ELSE len + 1 - o
  BY <1>3
<1>6. Sooner(n, o) <=> x < y
  <2> HIDE DEF x, y
  <2>1. CASE s = "READ" /\ t = "READ"
    BY <1>1, <1>4, <1>5, <2>1
  <2>2. CASE s = "READ" /\ t = "UNREAD"
    BY <1>1, <1>4, <1>5, <2>2
  <2>3. CASE s = "UNREAD" /\ t = "READ"
    BY <1>1, <1>4, <1>5, <2>3
  <2>4. CASE s = "UNREAD" /\ t = "UNREAD"
    BY <1>1, <1>4, <1>5, <2>4
  <2> QED BY <1>2, <2>1, <2>2, <2>3, <2>4
<1>7. x \in Int /\ (x = y => n = o)
  <2> HIDE DEF x, y
  <2> QED BY <1>1, <1>2, <1>5
<1> QED BY <1>6, <1>7

\* The list has every notification it is to show once.
LEMMA NoticesListed ==
    ASSUME notices \in Seq(NoticeRow), NEW m, NEW statuses
    PROVE  LET shown == NoticesOf(m, statuses)
           IN  /\ IsFiniteSet(shown) /\ Cardinality(shown) \in Nat
               /\ Listing(m, statuses) \in [1..Cardinality(shown) -> shown]
               /\ EachOnce(Listing(m, statuses), shown)
<1> DEFINE S == NoticesOf(m, statuses)
           n == Cardinality(S)
           f == Listing(m, statuses)
<1>1. S \subseteq DOMAIN notices
  BY DEF NoticesOf
<1>2. IsFiniteSet(S)
  <2>1. DOMAIN notices = 1..Len(notices) /\ Len(notices) \in Nat
    OBVIOUS
  <2>2. IsFiniteSet(DOMAIN notices)
    BY <2>1, FS_Interval
  <2> HIDE DEF S
  <2> QED BY <1>1, <2>2, FS_Subset
<1> HIDE DEF S
<1>3. TellApart(SoonerKey, S)
  BY <1>1, SoonerIsOrder DEF TellApart
<1>4. ASSUME NEW g
      PROVE  Sorted(g, SoonerKey, S) <=>
                g \in [1..n -> S] /\ \A i, j \in DOMAIN g : i < j => Sooner(g[i], g[j])
  <2> HIDE DEF n
  <2>1. CASE g \in [1..n -> S]
    <3>1. DOMAIN g = 1..n /\ \A i \in 1..n : g[i] \in DOMAIN notices
      BY <1>1, <2>1
    <3>2. \A i, j \in 1..n : Sooner(g[i], g[j]) <=> SoonerKey[g[i]] < SoonerKey[g[j]]
      BY <3>1, SoonerIsOrder
    <3> QED BY <2>1, <3>1, <3>2 DEF Sorted, n
  <2>2. CASE g \notin [1..n -> S]
    BY <2>2 DEF Sorted, n
  <2> QED BY <2>1, <2>2
<1>5. \E g : Sorted(g, SoonerKey, S)
  BY <1>2, <1>3, SortedExists
<1>6. \E g \in [1..n -> S] : \A i, j \in DOMAIN g : i < j => Sooner(g[i], g[j])
  BY <1>4, <1>5
<1>7. f \in [1..n -> S] /\ \A i, j \in DOMAIN f : i < j => Sooner(f[i], f[j])
  BY <1>6 DEF Listing, InOrder, S
<1> HIDE DEF f
<1>8. Sorted(f, SoonerKey, S)
  BY <1>4, <1>7
<1>9. EachOnce(f, S)
  BY <1>2, <1>3, <1>8, SortedCovers
<1> QED BY <1>2, <1>7, <1>9, FS_CardinalityType DEF S, f

LEMMA PageOfList ==
    ASSUME NEW m, NEW statuses, NEW limit, NEW offset
    PROVE  ListNotifications(m, statuses, limit, offset) =
               [items |-> {Listing(m, statuses)[i] :
                              i \in (offset + 1..offset + limit) \cap DOMAIN Listing(m, statuses)},
                total |-> Len(Listing(m, statuses))]
BY DEF ListNotifications, Listing, InOrder, Sooner

LEMMA NoticePages == NoticesInv => NoticePagesAgree
<1> SUFFICES ASSUME NoticesInv, NEW m \in Recipient
             PROVE  LET all  == {"READ", "UNREAD"}
                        Page(o) == ListMemberNotifications(m, all, 1, o)
                        Unread  == ListMemberNotifications(m, {"UNREAD"}, 1, 0)
                    IN  /\ UNION {Page(o).list.items : o \in 0..Page(0).list.total - 1} = NoticesOf(m, all)
                        /\ Unread.list.total = Page(0).unreadCount
                        /\ Unread.list.total + ListNotifications(m, {"READ"}, 1, 0).total
                              = Page(0).list.total
                        /\ Unread.unreadCount > 0 => Unread.list.items # {}
  BY DEF NoticePagesAgree
<1> DEFINE all == {"READ", "UNREAD"}
           Page(o) == ListMemberNotifications(m, all, 1, o)
           Unread == ListMemberNotifications(m, {"UNREAD"}, 1, 0)
           Of(s) == NoticesOf(m, s)
           Count(s) == Cardinality(Of(s))
<1>1. notices \in Seq(NoticeRow)
  BY DEF NoticesInv, NotificationsTypeOK
<1>2. ASSUME NEW s
      PROVE  /\ IsFiniteSet(Of(s)) /\ Count(s) \in Nat
             /\ Listing(m, s) \in [1..Count(s) -> Of(s)]
             /\ EachOnce(Listing(m, s), Of(s))
  BY <1>1, NoticesListed
<1>3. ASSUME NEW s, NEW o \in Nat
      PROVE  /\ ListNotifications(m, s, 1, o).total = Count(s)
             /\ ListNotifications(m, s, 1, o).items =
                   IF o < Count(s) THEN {Listing(m, s)[o + 1]} ELSE {}
  <2> DEFINE f == Listing(m, s)
             n == Count(s)
             list == ListNotifications(m, s, 1, o)
  <2>1. list.items = {f[i] : i \in (o + 1..o + 1) \cap DOMAIN f} /\ list.total = Len(f)
    BY PageOfList
  <2>2. f \in [1..n -> Of(s)] /\ n \in Nat
    BY <1>2
  <2> HIDE DEF f, n, list
  <2>3. DOMAIN f = 1..n /\ Len(f) = n
    BY <2>2
  <2>4. (o + 1..o + 1) \cap DOMAIN f = IF o < n THEN {o + 1} ELSE {}
    BY <2>2, <2>3
  <2>5. list.items = IF o < n THEN {f[o + 1]} ELSE {}
    BY <2>1, <2>4
  <2> QED BY <2>1, <2>3, <2>5 DEF f, n, list
<1>4. ASSUME NEW o
      PROVE  Page(o).list = ListNotifications(m, all, 1, o) /\ Page(o).unreadCount = Count({"UNREAD"})
  BY DEF ListMemberNotifications, CountUnread
<1>5. Unread.list = ListNotifications(m, {"UNREAD"}, 1, 0) /\ Unread.unreadCount = Count({"UNREAD"})
  BY DEF ListMemberNotifications, CountUnread
<1> HIDE DEF Page, Unread
<1>6. UNION {Page(o).list.items : o \in 0..Page(0).list.total - 1} = Of(all)
  <2> DEFINE f == Listing(m, all)
             n == Count(all)
             S == Of(all)
  <2>1. n \in Nat /\ f \in [1..n -> S] /\ EachOnce(f, S)
    BY <1>2
  <2>2. Page(0).list.total = n
    <3>1. 0 \in Nat
      OBVIOUS
    <3>2. ListNotifications(m, all, 1, 0).total = Count(all)
      BY <1>3, <3>1
    <3>3. Page(0).list = ListNotifications(m, all, 1, 0)
      BY <1>4
    <3> QED BY <3>2, <3>3
  <2>3. ASSUME NEW o \in 0..n - 1 PROVE Page(o).list.items = {f[o + 1]}
    <3>1. o \in Nat /\ o < n
      BY <2>1
    <3> QED BY <1>3, <1>4, <3>1
  <2>4. \A x \in S : \E i \in 1..n : f[i] = x
    BY <2>1 DEF EachOnce
  <2> HIDE DEF f, n, S
  <2>5. ASSUME NEW x \in S PROVE x \in UNION {Page(o).list.items : o \in 0..n - 1}
    <3>1. PICK i \in 1..n : f[i] = x
      BY <2>4
    <3>2. i - 1 \in 0..n - 1 /\ (i - 1) + 1 = i
      BY <2>1
    <3>3. Page(i - 1).list.items = {x}
      BY <2>3, <3>1, <3>2
    <3> QED BY <3>2, <3>3
  <2>6. ASSUME NEW o \in 0..n - 1 PROVE Page(o).list.items \subseteq S
    <3>1. o + 1 \in 1..n
      BY <2>1
    <3> QED BY <2>1, <2>3, <3>1
  <2>7. UNION {Page(o).list.items : o \in 0..n - 1} = S
    BY <2>5, <2>6
  <2> QED BY <2>2, <2>7 DEF S
<1>7. Count({"UNREAD"}) + Count({"READ"}) = Count(all)
  <2> DEFINE A == Of({"UNREAD"})
             B == Of({"READ"})
             U == Of(all)
  <2>1. A \cup B = U /\ A \cap B = {}
    BY DEF NoticesOf
  <2>2. IsFiniteSet(A) /\ IsFiniteSet(B) /\ Cardinality(A) \in Nat /\ Cardinality(B) \in Nat
    BY <1>2
  <2> HIDE DEF A, B, U
  <2>3. Cardinality(A \cup B) = Cardinality(A) + Cardinality(B) - Cardinality(A \cap B)
    BY <2>2, FS_Union
  <2>4. Cardinality(A \cap B) = 0
    BY <2>1, FS_EmptySet
  <2>5. Cardinality(A \cup B) = Cardinality(A) + Cardinality(B)
    BY <2>2, <2>3, <2>4
  <2>6. Cardinality(U) = Cardinality(A) + Cardinality(B)
    BY <2>1, <2>5
  <2> QED BY <2>6 DEF A, B, U
<1>8. /\ Unread.list.total = Count({"UNREAD"}) /\ Page(0).list.total = Count(all)
      /\ ListNotifications(m, {"READ"}, 1, 0).total = Count({"READ"})
  <2>1. 0 \in Nat
    OBVIOUS
  <2>2. /\ ListNotifications(m, {"UNREAD"}, 1, 0).total = Count({"UNREAD"})
        /\ ListNotifications(m, all, 1, 0).total = Count(all)
        /\ ListNotifications(m, {"READ"}, 1, 0).total = Count({"READ"})
    BY <1>3, <2>1
  <2>3. Page(0).list = ListNotifications(m, all, 1, 0)
    BY <1>4
  <2>4. Unread.list = ListNotifications(m, {"UNREAD"}, 1, 0)
    BY <1>5
  <2> QED BY <2>2, <2>3, <2>4
<1>9. Count({"UNREAD"}) > 0 => Unread.list.items # {}
  <2> DEFINE n == Count({"UNREAD"})
  <2>1. Unread.list.items = IF 0 < n THEN {Listing(m, {"UNREAD"})[0 + 1]} ELSE {}
    BY <1>3, <1>5
  <2>2. n \in Nat
    BY <1>2
  <2> HIDE DEF n
  <2>3. n > 0 => Unread.list.items # {}
    BY <2>1, <2>2
  <2> QED BY <2>3 DEF n
<1> HIDE DEF Count, Of
<1>10. Page(0).unreadCount = Count({"UNREAD"})
  BY <1>4
<1> QED BY <1>5, <1>6, <1>7, <1>8, <1>9, <1>10 DEF Page, Unread, Of

\* Notifications tell of the decisions, and the pages show each of them once.
THEOREM NoticesStayTrue == NotificationsSpec => []NoticesAreTrue
BY NoticesAreTold, NoticePages, NoticesInvInit, NoticesInvNext, PTL DEF NotificationsSpec, NoticesAreTrue

-----------------------------------------------------------------------------
(* The office as a whole. *)

OfficeInv ==
    /\ SessionInv /\ CatalogInv /\ DirectoryInv /\ PeopleInv /\ HolidayInv /\ AccessInv
    /\ NoticesInv

officeVars ==
    <<part, sessionVars, catalogVars, directoryVars, peopleVars, holidayVars, accessVars,
      noticeVars>>

LEMMA OfficeStep ==
    [OfficeNext]_officeVars =>
        /\ [SessionNext]_sessionVars /\ [CatalogNext]_catalogVars
        /\ [DirectoryNext]_directoryVars /\ [PeopleNext]_peopleVars
        /\ [HolidayNext]_holidayVars /\ [AccessNext]_accessVars
        /\ [NotificationsNext]_noticeVars
BY DEF OfficeNext, officeVars

LEMMA OfficeInvInit == OfficeInit => OfficeInv
BY SessionInvInit, CatalogInvInit, DirectoryBegins, PeopleInvInit, HolidayInvInit, AccessInvInit,
   NoticesInvInit DEF OfficeInit, OfficeInv

LEMMA OfficeInvNext == OfficeInv /\ [OfficeNext]_officeVars => OfficeInv'
BY OfficeStep, SessionInvNext, CatalogInvNext, DirectorySteps, PeopleInvNext, HolidayInvNext,
   AccessInvNext, NoticesInvNext DEF OfficeInv

\* Everything the office keeps has its type.
THEOREM OfficeTypeCorrect == OfficeSpec => []OfficeTypeOK
<1>1. OfficeInv => OfficeTypeOK
  BY CatalogFollows, DirectoryFollows, PeopleFollows, HolidayFollows, AccessFollows
     DEF OfficeInv, OfficeTypeOK, SessionInv, NoticesInv
<1> QED BY <1>1, OfficeInvInit, OfficeInvNext, PTL DEF OfficeSpec, officeVars

\* What the office keeps in two places agrees.
THEOREM OfficeStaysTrue == OfficeSpec => []OfficeRecordsAgree
<1>1. OfficeInv => OfficeRecordsAgree
  BY CatalogAgrees, PagesAgree, HolidayFollows, AccessPagesFollow, NoticesAreTold, NoticePages
     DEF OfficeInv, OfficeRecordsAgree, NoticesAreTrue
<1> QED BY <1>1, OfficeInvInit, OfficeInvNext, PTL DEF OfficeSpec, officeVars

\* Nor does anything else in the office make a deactivated member active again
\* while the directory is being copied.
THEOREM OfficeDeactivatesForGood == OfficeSpec => DeactivatedStays
<1>1. OfficeInv /\ [OfficeNext]_officeVars => [StaysStep]_directoryVars
  BY OfficeStep, DeactivatedStep DEF OfficeInv
<1> QED BY <1>1, OfficeInvInit, OfficeInvNext, PTL
       DEF OfficeSpec, officeVars, DeactivatedStays, StaysStep

\* With one session the leave handlers of the office are those of the ledger.
THEOREM OfficeLeaveIsTheLedger ==
    ASSUME NEW only, Session = {only}
    PROVE  OfficeSpec => Spec
<1>1. OfficeInit => Init /\ SerialInv
  BY SerialInit DEF OfficeInit
<1>2. OfficeInv /\ SerialInv /\ [OfficeNext]_officeVars => SerialInv' /\ [Next]_vars
  BY OfficeStep, SerialStep DEF OfficeInv
<1> QED BY <1>1, <1>2, OfficeInvInit, OfficeInvNext, PTL DEF OfficeSpec, officeVars, Spec
=============================================================================
