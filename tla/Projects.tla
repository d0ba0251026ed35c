------------------------------ MODULE Projects ------------------------------
(***************************************************************************)
(* Projects, their tasks and who is assigned to them                       *)
(* (app/modules/projects/service.py).  Every handler is one transaction.   *)
(* Deleting only marks a project; of its columns the status and the hours  *)
(* are kept.                                                               *)
(***************************************************************************)
EXTENDS Tables, Integers, FiniteSets, FiniteSetsExt

CONSTANTS
    Project,
    Staff,          \* members who may be assigned
    TaskKey,
    HoursInput      \* hours that may be budgeted or allocated

VARIABLE
    projects        \* project, with its rows of project_task and project_member

ProjectStatus == {"ACTIVE", "ON_HOLD", "COMPLETED", "CANCELLED"}

NoHours == -1
Hours == HoursInput \cup {NoHours}

ProjectMember == Hours

ProjectTask(ts) == ts \subseteq TaskKey

ProjectRow(p) ==
    /\ p.status \in ProjectStatus /\ p.deleted \in BOOLEAN
    /\ p.budgeted \in Hours
    /\ ProjectTask(p.tasks) /\ Table(p.members, Staff, ProjectMember)

ProjectsInit == projects = NoRecords

Kept == {p \in DOMAIN projects : ~projects[p].deleted}

Write(p, row) == projects' = Upsert(projects, p, row)

-----------------------------------------------------------------------------
UpsertProject(p, status, budgeted) ==
    \/ /\ p \notin DOMAIN projects
       /\ Write(p, [status |-> status, deleted |-> FALSE, budgeted |-> budgeted,
                     tasks |-> {}, members |-> NoRecords])
    \/ /\ p \in Kept
       /\ Write(p, [projects[p] EXCEPT !.status = status, !.budgeted = budgeted])

DeleteProject(p) == p \in Kept /\ Write(p, [projects[p] EXCEPT !.deleted = TRUE])

AddProjectMember(p, m, hours) ==
    /\ p \in Kept
    /\ Write(p, [projects[p] EXCEPT !.members = Upsert(@, m, hours)])

\* Those already assigned keep their hours.
BulkAssignProjectMembers(p, ms) ==
    /\ p \in Kept
    /\ Write(p, [projects[p] EXCEPT !.members =
          [m \in DOMAIN @ \cup ms |-> IF m \in DOMAIN @ THEN @[m] ELSE NoHours]])

RemoveProjectMember(p, m) ==
    /\ p \in Kept /\ m \in DOMAIN projects[p].members
    /\ Write(p, [projects[p] EXCEPT !.members = Without(@, {m})])

\* A new task: a name is used twice without hindrance, an id is not.
CreateProjectTask(p, t) ==
    /\ p \in Kept /\ \A q \in DOMAIN projects : t \notin projects[q].tasks
    /\ Write(p, [projects[p] EXCEPT !.tasks = @ \cup {t}])

ProjectsNext ==
    \E p \in Project :
      \/ \E status \in ProjectStatus, budgeted \in Hours :
           UpsertProject(p, status, budgeted)
      \/ DeleteProject(p)
      \/ \E m \in Staff :
           \/ \E hours \in Hours : AddProjectMember(p, m, hours)
           \/ RemoveProjectMember(p, m)
      \/ \E ms \in SUBSET Staff : BulkAssignProjectMembers(p, ms)
      \/ \E t \in TaskKey : CreateProjectTask(p, t)

-----------------------------------------------------------------------------
\* Views.

AllocatedHours(p) ==
    MapThenSumSet(LAMBDA m : projects[p].members[m],
                  {m \in DOMAIN projects[p].members : projects[p].members[m] # NoHours})

CapacityFor(p) ==
    LET budgeted == projects[p].budgeted
    IN  [allocated |-> AllocatedHours(p),
         warning   |-> budgeted # NoHours /\ AllocatedHours(p) > budgeted]

ListProjects(scope, m) ==
    {p \in Kept : scope = "self" => m \in DOMAIN projects[p].members}

\* What is offered to a member who records work...
ListProjectsForAttendance(m) ==
    {p \in ListProjects("self", m) : projects[p].status = "ACTIVE"}

\* ... and what is accepted, whomever the project is assigned to: a project
\* together with a task of it, or neither.
ValidProjectSelection(p, t) ==
    \/ p = "null" /\ t = "null"
    \/ p \in Kept /\ projects[p].status = "ACTIVE" /\ t \in projects[p].tasks

ProjectsTypeOK ==
    /\ DOMAIN projects \subseteq Project
    /\ \A p \in DOMAIN projects : ProjectRow(projects[p])
=============================================================================
