------------------------------- MODULE People -------------------------------
(***************************************************************************)
(* Members, their roles, the departments and the hiring team of a stage    *)
(* (app/modules/employee, role, departments and hiring_teams, service.py). *)
(* Every handler is one transaction; the database keeps what the models    *)
(* declare: a role with members cannot be deleted, nor a member to whom a  *)
(* row must refer that SQLAlchemy would set to null.                       *)
(*                                                                         *)
(* Profiles, permissions and what a caller with a narrower scope may do    *)
(* are left out.  `bound` stands for the rows of other modules that keep a *)
(* member: leave, approvals, requisitions, interviews.                     *)
(***************************************************************************)
EXTENDS Tables, FiniteSets, FiniteSetsExt

CONSTANTS
    Person,         \* keys of members
    Role,           \* keys of roles, which are as good as their names
    Department      \* keys of departments

ASSUME PeopleConstants == IsFiniteSet(Person) /\ IsFiniteSet(Department)

VARIABLES
    people,         \* member
    bound,          \* members with such rows elsewhere
    roles,          \* role
    departments,    \* department
    memberships,    \* department_member
    headships,      \* department_head
    team            \* hiring_team of a stage, with its hiring_team_member rows

peopleVars == <<people, bound, roles, departments, memberships, headships, team>>

PersonRow == [active : BOOLEAN, role : Optional(Role)]
DepartmentRow == [active : BOOLEAN, head : Optional(Person), parent : Optional(Department)]

PeopleInit ==
    /\ people = [m \in Person |-> [active |-> TRUE, role |-> "null"]]
    /\ bound = {} /\ roles = {} /\ departments = NoRecords
    /\ memberships = {} /\ headships = {}
    /\ team = [active |-> FALSE, members |-> {}]

Employed == DOMAIN people
ActiveDepartments == {d \in DOMAIN departments : departments[d].active}

-----------------------------------------------------------------------------
\* Members.

\* Not while an interview, a department or another such row names the member:
\* the first stops the handler, which sets a status the enumeration lacks, the
\* others the database.
DeleteEmployee(m) ==
    /\ m \in Employed \ bound
    /\ \A d \in Department : <<d, m>> \notin memberships
    /\ people' = Without(people, {m})
    /\ team' = [team EXCEPT !.members = @ \ {m}]
    /\ headships' = {h \in headships : h[2] # m}
    /\ departments' = [d \in DOMAIN departments |->
          [departments[d] EXCEPT !.head = IF @ = m THEN "null" ELSE @]]
    /\ UNCHANGED <<bound, roles, memberships>>

SetActive(m, active) ==
    /\ m \in Employed
    /\ people' = [people EXCEPT ![m].active = active]
    /\ UNCHANGED <<bound, roles, departments, memberships, headships, team>>

DeactivateEmployee(m) == SetActive(m, FALSE)

ReactivateEmployee(m) == SetActive(m, TRUE)

UpdateEmployeeRole(m, r) ==
    /\ m \in Employed /\ r \in roles
    /\ people' = [people EXCEPT ![m].role = r]
    /\ UNCHANGED <<bound, roles, departments, memberships, headships, team>>

\* The member asks for leave, is asked to approve or to interview, and so on.
BecomeBound(m) ==
    /\ m \in Employed
    /\ bound' = bound \cup {m}
    /\ UNCHANGED <<people, roles, departments, memberships, headships, team>>

-----------------------------------------------------------------------------
\* Roles.

CreateRole(r) ==
    /\ r \notin roles
    /\ roles' = roles \cup {r}
    /\ UNCHANGED <<people, bound, departments, memberships, headships, team>>

\* A new name, which must be free.
UpdateRole(r, name) ==
    /\ r \in roles /\ name \notin roles \ {r}
    /\ roles' = (roles \ {r}) \cup {name}
    /\ people' = [m \in Employed |-> [people[m] EXCEPT !.role = IF @ = r THEN name ELSE @]]
    /\ UNCHANGED <<bound, departments, memberships, headships, team>>

DeleteRole(r) ==
    /\ r \in roles /\ \A m \in Employed : people[m].role # r
    /\ roles' = roles \ {r}
    /\ UNCHANGED <<people, bound, departments, memberships, headships, team>>

-----------------------------------------------------------------------------
\* Departments.  Ended ones keep their members and heads, who may still change.

UpsertDepartment(d, row) ==
    /\ d \in DOMAIN departments => departments[d].active
    /\ row.head \in Optional(Employed)
    /\ row.parent \in Optional(ActiveDepartments)
    /\ departments' = Upsert(departments, d, row)
    /\ UNCHANGED <<people, bound, roles, memberships, headships, team>>

DeactivateDepartment(d) ==
    /\ d \in ActiveDepartments
    /\ departments' = [departments EXCEPT ![d].active = FALSE]
    /\ UNCHANGED <<people, bound, roles, memberships, headships, team>>

\* The row is committed before the answer fails for an ended department.
AddDepartmentMembers(d, ms) ==
    /\ d \in DOMAIN departments /\ ms \subseteq Employed
    /\ memberships' = memberships \cup ({d} \X ms)
    /\ UNCHANGED <<people, bound, roles, departments, headships, team>>

RemoveDepartmentMember(d, m) ==
    /\ <<d, m>> \in memberships
    /\ memberships' = memberships \ {<<d, m>>}
    /\ UNCHANGED <<people, bound, roles, departments, headships, team>>

\* The first head is the one the department names.
AssignDepartmentHead(d, m) ==
    /\ d \in ActiveDepartments /\ m \in Employed
    /\ headships' = headships \cup {<<d, m>>}
    /\ departments' = [departments EXCEPT ![d].head = IF @ = "null" THEN m ELSE @]
    /\ UNCHANGED <<people, bound, roles, memberships, team>>

RemoveDepartmentHead(d, m) ==
    /\ d \in ActiveDepartments /\ <<d, m>> \in headships
    /\ headships' = headships \ {<<d, m>>}
    /\ departments' = [departments EXCEPT ![d].head = IF @ = m THEN "null" ELSE @]
    /\ UNCHANGED <<people, bound, roles, memberships, team>>

-----------------------------------------------------------------------------
\* The hiring team.

\* An active team of that name gets these members instead of its own.
CreateTeam(ms) ==
    /\ ms \subseteq Employed
    /\ team' = [active |-> TRUE, members |-> ms]
    /\ UNCHANGED <<people, bound, roles, departments, memberships, headships>>

UpdateTeam(active) ==
    /\ team' = [team EXCEPT !.active = active]
    /\ UNCHANGED <<people, bound, roles, departments, memberships, headships>>

DeleteTeam == UpdateTeam(FALSE)

AddTeamMember(m) ==
    /\ m \in Employed \ team.members
    /\ team' = [team EXCEPT !.members = @ \cup {m}]
    /\ UNCHANGED <<people, bound, roles, departments, memberships, headships>>

RemoveTeamMember(m) ==
    /\ team' = [team EXCEPT !.members = @ \ {m}]
    /\ UNCHANGED <<people, bound, roles, departments, memberships, headships>>

PeopleNext ==
    \/ \E m \in Person :
         \/ DeleteEmployee(m) \/ DeactivateEmployee(m) \/ ReactivateEmployee(m) \/ BecomeBound(m)
         \/ \E r \in Role : UpdateEmployeeRole(m, r)
         \/ AddTeamMember(m) \/ RemoveTeamMember(m)
    \/ \E r \in Role : CreateRole(r) \/ DeleteRole(r) \/ (\E name \in Role : UpdateRole(r, name))
    \/ \E d \in Department :
         \/ \E row \in DepartmentRow : UpsertDepartment(d, row)
         \/ DeactivateDepartment(d)
         \/ \E ms \in SUBSET Person : AddDepartmentMembers(d, ms)
         \/ \E m \in Person :
              RemoveDepartmentMember(d, m) \/ AssignDepartmentHead(d, m) \/ RemoveDepartmentHead(d, m)
    \/ \E ms \in SUBSET Person : CreateTeam(ms)
    \/ \E active \in BOOLEAN : UpdateTeam(active)
    \/ DeleteTeam

PeopleSpec == PeopleInit /\ [][PeopleNext]_peopleVars

-----------------------------------------------------------------------------
\* Whatever is deleted and in whatever order, nothing refers to a row that is
\* not there.
PeopleTypeOK ==
    /\ Table(people, Person, [active : BOOLEAN, role : Optional(roles)])
    /\ bound \subseteq Employed /\ roles \subseteq Role
    /\ Table(departments, Department,
             [active : BOOLEAN, head : Optional(Employed), parent : Optional(DOMAIN departments)])
    /\ memberships \subseteq (DOMAIN departments) \X Employed
    /\ headships \subseteq (DOMAIN departments) \X Employed
    /\ team \in [active : BOOLEAN, members : SUBSET Employed]

-----------------------------------------------------------------------------
(***************************************************************************)
(* What the pages show of the members and departments of People: the       *)
(* employee lists (app/modules/employee/service.py), the department pages  *)
(* (app/modules/departments/service.py) and the departments on the         *)
(* dashboard (app/modules/dashboard/service.py).  Each queries the tables  *)
(* for itself.  Names, searches, profiles and orders are left out.         *)
(***************************************************************************)

\* Departments of m by a table of pairs, ended ones included.
In(pairs, m) == {h[1] : h \in {p \in pairs : p[2] = m}}

\* Those who are in departments ds by a table of pairs.
Within(pairs, ds) == {h[2] : h \in {p \in pairs : p[1] \in ds}}

-----------------------------------------------------------------------------
\* The department pages.

\* Mutant: departments one only heads are forgotten.
ListOwnDepartments(scope, m) ==
    {d \in ActiveDepartments : scope # "organization" => d \in In(memberships, m)}

\* The departments a reader of a scope is shown.
ListDepartments(scope, m) ==
    {d \in ActiveDepartments :
        CASE scope = "self"         -> d \in In(memberships, m)
          [] scope = "department"   -> d \in In(memberships, m) \cup In(headships, m)
          [] scope = "organization" -> TRUE}

\* A reader of the scope "self" sees of the members only himself; whoever is a
\* member and a head counts twice.
DepartmentSummary(d, ms) ==
    LET shown(pairs) == Within(pairs, {d}) \cap ms
    IN  [members |-> shown(memberships), heads |-> shown(headships),
         count |-> Cardinality(shown(memberships)) + Cardinality(shown(headships))]

\* GET /departments/mine answers 404 when one of those m heads has ended.
HasMyDepartment(m) == In(headships, m) \subseteq ActiveDepartments

MyDepartment(m) == In(headships, m)

\* The choices a form offers.
DepartmentMeta ==
    [members |-> {m \in Employed : people[m].active}, departments |-> ActiveDepartments]

-----------------------------------------------------------------------------
\* The dashboard.

MyDepartments(m) ==
    {[id |-> d, role |-> IF <<d, m>> \in headships THEN "HEAD" ELSE "MEMBER",
      count |-> Cardinality(Within(memberships, {d}) \cup Within(headships, {d}))] :
        d \in (In(memberships, m) \cup In(headships, m)) \cap ActiveDepartments}

GetDepartmentMemberIds(m) ==
    LET ds == In(headships, m)
    IN  {o \in Within(memberships, ds) \cup Within(headships, ds) : people[o].active}

ListMembers(ms) == {m \in Employed \cap ms : people[m].active}

-----------------------------------------------------------------------------
\* The employee lists.

ListEmployees(scope, m) ==
    LET ds == In(headships, m)
    IN  {o \in Employed :
            /\ people[o].active
            /\ scope = "department" =>
                 o \in Within(memberships, ds) \cup Within(headships, ds)}

ListDeactivatedEmployees == {m \in Employed : ~people[m].active}

ListRolesForOrg == roles

\* What deactivating and deleting announce: here the departments a member heads,
\* and whether the member is in the hiring team.
DeactivationImpact(m) == Cardinality(In(headships, m))

PreviewEmployeeDelete(m) == Cardinality({m} \cap team.members)

-----------------------------------------------------------------------------
\* However members, heads and departments came and went, what a member is shown
\* of the departments is the same on the dashboard and on the department pages,
\* in the role the heads' own page gives him, and what a head is shown of his
\* people is the same in the employee list and on the dashboard; the counts of
\* the two differ by those who are members and heads.
DepartmentPagesAgree ==
    \A m \in Employed :
      LET mine == MyDepartments(m)
      IN  /\ {c.id : c \in mine} = ListDepartments("department", m)
          /\ ListDepartments("self", m) \subseteq ListDepartments("department", m)
          /\ HasMyDepartment(m) => MyDepartment(m) = {c.id : c \in {x \in mine : x.role = "HEAD"}}
          /\ DeactivationImpact(m) >= Cardinality({c \in mine : c.role = "HEAD"})
          /\ ListEmployees("department", m)
               = ListMembers(GetDepartmentMemberIds(m))
          /\ \A c \in mine :
               LET page == DepartmentSummary(c.id, Employed)
               IN  page.count = c.count + Cardinality(page.members \cap page.heads)
          /\ (m \in ListEmployees("organization", m)) # (m \in ListDeactivatedEmployees)
=============================================================================
