# KLHRMS server: TLA+ models and proofs

The repository is the server of a human-resources system: a FastAPI application
(`src/app`) over PostgreSQL through asynchronous SQLAlchemy sessions, with background
tasks, a scheduler, and clients for mail, file storage and calendars. Each part under
`src/app/modules/` is a route, a controller, a service and sometimes a repository; the
logic is in the services. These modules model that logic: which states the tables can
reach, one action per handler, and what happens when handlers interleave, fail or die.

Contents: [inventory](#inventory) · [the modules](#the-modules) ·
[the runs](#the-runs) · [fairness](#fairness) · [the proofs](#the-proofs) ·
[findings](#findings) · [observations](#observations) ·
[what is not modelled](#what-is-not-modelled) · [plan](#plan)

## Inventory

How work reaches a service. An HTTP request gets a database session of its own
(`app/shared/database.py`): no autoflush, READ COMMITTED, a commit at the end of the
handler. A handler that raises is rolled back. Handlers of different requests interleave
at every `await`; a few repositories take row locks, most do not. `BackgroundTasks` runs a
task in the same process after the response, with a session of its own; nothing resumes
it after a restart. `app/shared/scheduler.py` calls four services at fixed times. Mail,
storage and calendar calls happen in the middle of handlers, before or after a commit.

| Component | State | Operations that change it | Talks to | What is hard | What makes it correct |
|---|---|---|---|---|---|
| Leave (`leave`) | leave types, holidays, requests, balances | create/update types and holidays; create, approve, reject, cancel a request; assign a balance | Attendance writes its requests and balances; Holiday sync its holidays | sums read before a commit that no lock protects; balance rows created on demand under a unique key; two balance years | no double booking; balances agree with requests; approved leave is covered; decisions final |
| Attendance (`attendance`) | one row per member and day | clock in, clock out, manual entry, remote flag, delete entry | reads holidays, leave and plan; gives leave days back; syncs the plan | explicit times out of order, sessions that cross midnight, are forgotten or reach the 16 h cap; the same day clocked twice | one open session; sound finished sessions; balances kept sound by two writers |
| Work logs (`attendance`) | work logs under the rows of attendance | clock-out text, bulk save, bulk deletion | projects and tasks, reports | a log entered in bulk is taken for the log of a session | what a member writes is kept and reported |
| Weekly plan (`weekly_plan`) | weekly and monthly plan rows of a member | save week, save month, set a day | Attendance reads and writes it | two tables updated in opposite orders by overlapping saves | the two tables tell the same story; a deadlock costs one save only |
| Assets and helpdesk (`assets`) | assets, units, assignments, tickets, maintenance records, categories, fields | upsert, issue, return, replace, repair, ticket life cycle, archive, catalog edits, reminder scans | procurement, notifications, mail | asset state derived from units yet also set directly; labels copied from a catalog; scans that mail first and mark later | what is held is off the shelf; replacements chain; pages agree; labels follow the catalog |
| Procurement (`procurement`) | requisitions, decisions, purchase orders | create, submit, approve, reject, issue order, receive | assets, storage, mail | states of two workflows mixed | a submitted requisition can be decided |
| Jobs (`jobs`) | requisitions, approvals, pipeline, postings | create, submit, decide, close, reopen, apply | candidates, scoring | approvers deciding on what they read; editing while deciding | a posting is published by all its approvers; a closed one is frozen |
| Candidates and interviews (`candidates`) | applications and stages, assignments, slots, meetings | move stage, distribute, accept, refuse, reshuffle, propose and select slots, reminders | hiring teams, calendar, mail | mails before or after commits; substitutes; slots of someone who left | the history follows the moves; interviews held are known; slots are one proposal |
| Resume scoring (`ai_scoring`, `resume_parser`) | one analysis per application | create, retry, run | external model | overlapping tasks that each read other rules; a task dying half-way | a score is of the rules last asked for |
| Offers (`offers`) | templates, batches, letters, tokens | dispatch, process in background, retry, answer by link; template edits | stage of the application; mail, storage | overlapping tasks, lost mails, delivered-but-failed mails, restarts, answers racing dispatches | every candidate of a completed batch was reached; links work; answers final |
| Onboarding (`onboarding`) | accepted candidates' requests, documents, credentials | send requests, submit, confirm credentials | pipeline, mail | public links, mails that fail | what was submitted and mailed is kept |
| Document collection (`document_collection`) | templates, requests, answers | send, submit | mail, storage | a late mail task overwrites an answer | an answer is never lost |
| Holiday sync (`holiday_sync`) | master holidays and an organization's copies | yearly job, manual sync | leave | two syncs insert at once; dates move | each holiday once |
| Employees, Departments, Roles, Hiring teams | members, roles, departments, heads, team members | activate, remove, assign, edit | most others, as reads | pages that count heads and members differently | references stay valid; pages agree |
| Directory sync (`microsoft_graph`) | accounts, profiles, members, runs | sync in batches, refresh, settings | external directory | members edited while a sync writes what it read | nobody deactivated comes back |
| Projects (`projects`) | projects, members, tasks, hours | create, edit, assign, delete | attendance, work logs | — | hours and members stay within their project |
| Access control (`access_control`) | assignments, log entries | assign, disable, log, import | — | figures beside lists | counts are those of the lists |
| Notifications (`notifications`) | notifications of decisions | told, read, read all | leave | a second transaction that may be lost; duplicates | a decision is told of once |
| Dashboard, reports | none | — | reads the components | each page joins and filters in its own way | pages agree |
| Sessions, scheduler, mail/storage/calendar clients, authentication | none that outlives a call | — | all | ordering of commits and calls | modelled inside the components that use them |

Behaviours a test hardly reaches are listed in `PROJECT.json` under `hazards`, each at
its line; most come from four patterns: a sum or status read before a commit without a
lock; an external call on the wrong side of a commit; a row remembered by a background
task; and a derived column that two handlers compute differently.

## The modules

A table is a partial function from its keys to the columns the handlers read or write
(`Tables`): `Upsert(f, k, row)` is an insert or an overwrite, and a soft-deleted row leaves
the domain where nothing reads it any more. A handler that raises is rolled back, so its
conditions are guards. Names, texts, notes and timestamps no condition reads are left out.
Definitions whose comment begins with *Mutant:* are plausible wrong versions of the
definition after them; they are not part of a specification, and show that the property
named with them in `PROJECT.json` can fail.

| Module | Models | Over |
|---|---|---|
| `Tables`, `Days` | tables as partial functions, and rows in an order; the arithmetic of work sessions | — |
| `LeaveLedger` | the leave service, every handler one transaction, with its pages | — |
| `LeaveSessions` | the same handlers statement by statement over concurrent sessions | `LeaveLedger` |
| `Attendance` | attendance, the plan of a day, and the reports, over the leave tables | `LeaveLedger`, `Days` |
| `WorkLogs`, `Projects`, `WeeklyPlan` | work logs and the report of them; projects; the two plan tables with their row locks | `Tables` |
| `Custody` | abstract: a loan is made once and ends once; a replacement swaps two in one step | — |
| `Assets`, `AssetViews` | the register and the helpdesk; the pages and reports over them | `Tables`; `Assets` |
| `Procurement` | requisitions and orders over the register | `Assets` |
| `Catalog`, `Reminders` | categories and fields with the labels on assets; the daily scans and the slot reminders | — |
| `Jobs`, `Pipeline`, `Onboarding` | requisitions with approvals; stages, moves and history; from accepted offer to account | `Onboarding` over `Pipeline` |
| `Interviews` | assignments, slots and meetings of one interview stage | — |
| `Documents` | document requests and the task that mails them | — |
| `Resumes`, `Scoring` | screening tasks; the points of a resume | — |
| `Offers`, `Templates` | dispatch, background tasks, retries, answers; templates and what a letter says | — |
| `People`, `Directory` | members, roles, departments, hiring teams; the directory sync | — |
| `HolidaySync`, `AccessControl`, `Notifications` | the parts of those names | — |
| `MCOrganization`, `MCProcurement`, `MCWorkforce`, `MCAttendance`, `MCLeaveLedger`, `MCLeaveSessions`, `MCOffice`, `MCRecruitment`, `MCOffers`, `MCLetters` | the instances the configurations check | the modules above |
| `AssetProofs`, `LeaveLedgerProofs`, `LeaveSessionProofs`, `WorkforceProofs`, `RecruitmentProofs`, `OfficeProofs`, `LettersProofs`, `FiniteLemmas` | the theorems | the modules they are about |

Four MC modules put components that share no state beside each other and choose at the
start which one runs (`part`); this costs the sum of their state spaces, not the product.
Components that do share state are composed for real: `Attendance` writes the leave tables
of `LeaveLedger`, `Procurement` the assets and tickets of `Assets`, `Onboarding` the
applications of `Pipeline`.

### Leave

`LeaveLedger` has one action per handler of `app/modules/leave/service.py`, over the tables
of `app/models/leave.py`: `leaveTypes`, `holidays`, `requests`, `balances`.
`BalanceOrNew` is `_get_or_create_leave_balance`; `ApprovedDays` is
`_get_approved_leave_days`, a cardinality of charged half days so that no recursion is
needed. Days are counted in half days. Only a paid type is checked when a request is made,
all types when it is approved: both are as in the code. A request is charged to the year of
its first day. The lists, the calendar and the summary are operators over the tables.

In `LeaveSessions` each handler is the sequence of its statements: read, find or insert the
balance row, sum and check, commit. `session[s]` holds what session `s` remembers: the
request, the balance row as loaded and as changed. The details that matter are those of
the database: an UPDATE writes only the columns that changed in memory (`WriteChanged`); a
flushed INSERT of a balance key makes another session's insert of it wait, and then fail
(`HeldByOther`, `InsertBalance`). With one session it implements `LeaveLedger!Spec` under
the identity mapping, which keeps the two descriptions of the handlers from drifting apart.

### Attendance, work logs, plan, projects

Time is a number; `x \div DayLength` is its day. `StaleClosed` is the closing of a forgotten
session at 23:50, `CappedOut` the 16 hour cap, `SegmentDays` and `Segment` the split at
midnight, `RestoredRequests` and `RestoredBalances` what clocking in on a day of leave gives
back. Clock times are inputs (`Moment`), not a clock: both handlers accept an explicit time.
`WorkLogs` follows the logs of one member through clock-out, bulk save, manual days and
deletions, and the report that reads them. In `WeeklyPlan` a save locks the rows it deletes,
table by table, waits for another save's locks, and may be chosen as the victim of a
deadlock. `Projects` has the handlers of `projects/service.py` and what clocking in may name.

### Assets, procurement, catalog

`Assets` has one action per handler of `assets/service.py` that changes assets, units,
assignments or tickets. The status of an asset is kept beside those of its units, as in the
code, and each handler writes the ones it writes. `Custody` says what lending promises
without any of this; `CustodyKept` is its specification under the mapping of assignments to
loans. `AssetViews` defines every list, page, count and report as the query computes it.
`Catalog` is about labels: an asset stores the *name* of its category and values under the
*names* of fields, so renaming rewrites assets.

### Recruitment

`Jobs`: a handler loads the requisition with all its approvals, decides on what it loaded,
and commits the columns it changed, so two approvers can overlap. `Pipeline` keeps stages
with their orders, applications and their history, every handler one step. `Onboarding` adds
the records. Its handlers are two steps or more, since nothing locks a record or gives it a
version: a caller reads (`Read` keeps the row and the stage of the application in `working`),
awaits its uploads or its mail while others commit, and commits the columns that differ from
what it read (`Changed`); a submission uploads in between, under a name of the candidate's
choice that replaces an earlier file of that name at once (`UploadDocuments`; the two files of
a pair are one). `Documents` is made the same way: `making` holds requests that were looked for
and not yet inserted, `answering` submissions that were accepted and not yet committed, and the
mail task remembers what it loaded, as those of `Resumes` do. `Interviews` follows one candidate
in one stage with its events, assignments, slots and meetings. `Scoring` is an algorithm: the rules compiled from a
requisition and the points they give, checked over bounded inputs.

### Offers, templates, reminders

`create_dispatch_batch` and `_respond_to_offer_by_token` are two steps each, a read and a
commit, because nothing locks what was read. `process_offer_dispatch_batch_task` is a record
in `tasks` with a program counter: load (`Begin`), render and store, save the link, mail
(`SendMail`: succeeds, fails, or fails although delivered), mark, and in the end `Summarise`.
A task works from the letters it loaded; it looks at rows again only to sum them up.
`Restart` ends all tasks and sessions. `Templates` models which facts a letter needs, twice:
as the validation asks for them (`Obstacles`) and as the renderer does (`Renders`), which run
at different times and share no code. `Reminders` are the scans of the clock and the reminders of open
slots.

### Office

`People` has the handlers of employees, roles, departments and hiring teams; `Directory` the
sync that reads users one by one while administrators act; `HolidaySync` the yearly job and
the manual sync, statement by statement; `AccessControl` and `Notifications` the parts of
those names, the latter with decisions that race.

## The runs

| Run | Instance | What it shows |
|---|---|---|
| `organization` | 2 assets, 2 units, 2 assignments, 1 ticket, 2 members | `ViewsAgree`, `ReplacementChain`, `HoldersAreExplained`, `HeldStayOffTheShelf`, and `CustodyKept`: the register implements `Custody` |
| `workforce` | 1 member, 2 days in two years, 1 request, three clock times, three manual entries; a time sheet; a project; a planned day under 2 saves and 3 readers | `SessionsAreSound`, `BalancesStaySound`, `TablesAgree`, `TextIsReported`, `WorkforcePagesAgree` |
| `leave_ledger` | 1 member, 1 type, 2 requests, 1 holiday, 30–31 Dec and a Saturday 1 Jan | `NoDoubleBooking`, `LedgerAgrees`, `NeverOverdrawn`, `PagesTellTheLedger`, `DecisionsAreFinal` when handlers do not overlap |
| `leave_sessions` | 2 sessions, 2 requests, 1 day | what survives interleaving: `AssignmentsSurvive`, `LonelyApprovalHeals`, and `HandlersEnd`: nobody waits for ever |
| `office` | 1 session for leave; 2 categories with 2 fields; 2 directory users with 2 mails; 2 members, a role, a department; a festival over 2 organizations and 2 syncs; 2 entrants at a door; 2 decisions by 2 approvers | `LeaveSessions` implements `LeaveLedger` (`Spec`); `OfficeRecordsAgree`; `DeactivatedStays` |
| `recruitment` | 1 requisition, 2 approvers in 2 sessions; 1 application in up to 3 stages; 2 onboarding records, 2 callers, 2 addresses; 3 interviewers over 2 events; 2 document requests with 2 submissions; 3 screening tasks, 2 rule sets; resumes of 0, 3 and 25 years | `PostingsStand`, `BoardsAgree`, `HistoryFollows`, `InterviewsAreSound`, `HandedInIsKept`, `ScoresAreFair` |
| `letters` | 2 letters, 1 batch, 2 tasks, 1 restart; 2 templates in 2 categories; a loan and an issued unit over 3 days; slots over 14 hours | `LinksWork`, `BatchesAreTrue`, `NoSecondMail`, `LettersKeepTheirWord`, `RemindersHold` |
| `offers_answers` | 1 application, 2 batches, 2 tasks, 2 sessions; a history variable of what each session saw | `AnswersHold` although answers and dispatches race, and with fair tasks `BatchesSettle` |
| `leave_race_overdraw` | 2 sessions, 2 requests, 2 days | **violated**: two approvals at once overdraw a balance |
| `attendance_restored_twice` | two working days, one leave of both; a history variable of the days given back | **violated**: what a clock-in gave back of a day is not given back again |
| `offers_lost_retry` | 2 applications, 1 batch, 2 tasks, impatient retries | **violated**: a batch shown COMPLETED has reached everyone |
| `procurement_undecidable` | 1 requisition, any member in finance | **violated**: a submitted requisition can be decided |

### Why these bounds

*Leave.* Nothing in the service relates two members or two types except by key, so one of
each, with two requests, meets every interaction: overlap, a shared balance, an overdraft
by the pair. Three dates are the fewest with a period of two days, a day off and two years.
Quotas 1 and 3 and lengths of 1 and 4 half days give charges that are cut by the calendar,
that fit, and that overdraw; the two assignments have different entitlements, one of which
is below what may be approved. `MaxUnits` is above the longest charge of the instance, so
it never cuts anything. The two-session run keeps one day: its sessions then contend for
the one balance row.

*Attendance.* The day has six units of four hours. The three clock times are chosen so that
a session can end on its own day, cross midnight, reach the cap, and be forgotten until the
next day; `HalfDayMax` and `Cap` lie on times that occur, so that their comparisons matter
at equality. The manual entries are a finished session, an open one and a marker. Two days
are enough because a session of at most 16 hours touches at most two.

*Assets.* Two units of two assets, both usable as backups, and two assignments are the fewest
for a replacement; one ticket takes every outcome in turn.

*Recruitment.* Two approvers in two sessions overlap in every way a pair can; a third
interviewer is the fewest for a substitute who refuses as well. Two callers on one record are
the fewest of which one commits what it read before the other, and one file name is what both
must use for the upload of one to replace the other's before it commits (the theorem has any
number of names). Three screening tasks are
two that overlap and one that retries. `MaxEdits`, `MaxEvents`, `MaxRules` and `MaxRestarts`
bound counters by name.

*Offers.* Two letters in one batch are the fewest for one to fail and another not; two
tasks the fewest that overlap. Superseding needs two batches and one application, and two
sessions are the fewest of which one commits what it read before the other. Batches,
tasks and restarts are bounded by name; the system stops when they are used up, so these
runs do not check for deadlock. `MoveApplication` takes candidates out of the OFFER stage.

*Office.* Two users who share or swap two mail addresses are the fewest that a sync can
confuse; two syncs and two organizations the fewest that insert at once; two racing
decisions of one request the fewest that tell twice.

For every property a listed theorem states, the proof makes these bounds irrelevant.

### What the restrictions mean

- `leave_sessions` does not claim the invariants of `LeaveLedger`: with concurrent sessions
  `NeverOverdrawn`, `LedgerAgrees`, `NoDoubleBooking` and `DecisionsAreFinal` are all
  violable for the same reason, a check that no lock protects. One run shows it.
- `letters` uses `PatientNext`, in which a retry waits until no task works on the batch. The
  code does not ask; `offers_lost_retry` shows what that costs.
- `AnswersHold` is not that an answer is never overwritten: both links of a letter, or an
  answer and a new dispatch, can commit over each other, since nothing locks what was read
  (`offers/service.py` 1303, 963). The property says by whom: a session that had read the
  letter while it was SENT. No other session does, no task and no deadline; and an answer
  goes to the letter that was newest when its link was followed. `offers_answers` has retries
  that wait, like `letters`, and so has the theorem.
- The server of `Offers` is in production mode: a letter whose PDF cannot be stored fails.
  Elsewhere it is mailed with the PDF attached, and its download link is answered by 404
  (1182, 1286). A database error in the middle of a task, which ends it like a restart, is
  not told from one.
- `Reminders` are of units. The scan of warranties also takes assignments without a unit, for
  which it uses or makes the first unit of the asset (`_ensure_tracking_unit`, 3879); making
  one is in no model.
- Salaries of `Templates` become incomplete by a currency of blanks only: an amount that is
  sent empty is not written (`jobs/service.py` 876).
- `SessionsAreSound` speaks of sessions the members clocked; an administrator's manual row
  is only held to the hours its handler computes. Sessions that begin after 23:50 are
  exempt from being positive.
- `HandedInIsKept` is not that nothing is ever replaced: the code lets it happen, and the
  property says by whom. A submission that looked (`onboarding/service.py` 510,
  `document_collection/service.py` 576) before another was committed replaces what that one
  handed in, an upload under the same name even before it commits; an assignment that looked
  (399) before credentials were mailed changes the mailed address after it. Nobody who looked
  later does, no handler writes back what it only read, and documents never disappear.
  Two requests of either kind for one candidate exist only if two calls looked (238, 438)
  before either inserted; pages show any one of two onboarding records.
- Handlers of onboarding that overlap run on one record, while stages change little
  (`OneRecord`); with two records and edited stages submissions come one at a time
  (`OneSubmission`). Templates of collected documents change while there is at most one
  request (`OneRequest`), and of two interview events one has a single row (`TwoRounds`).
  The theorems have none of these restrictions.
- `Pipeline` has no interviews: `MoveApplication` also moves a candidate whose interview is
  under way, which the code refuses (`candidates/service.py` 1599). It allows more than the
  code does, so what holds of it holds of the code.
- Properties of overlapping handlers name what they exempt: `PostingsStand` and
  `BoardsAgree` requisitions whose approvers overlapped, `HolidaysAreOnce` holidays two
  syncs were at together, `DecisionsAreTold` requests two decisions raced for.

## Fairness

`SessionSpec` has weak fairness on every step of a handler that has begun, `SteadyRacingSpec`
on every step of a background task: the event loop runs each coroutine whose awaited call
has returned, and database, mail and storage calls return or raise. No handler is ever
assumed to start: members, recruiters and candidates may stop at any moment. Which way a
mail call goes is not fair either. `BatchesSettle` is checked without restarts, since a
restart leaves a batch in PROCESSING for good.

## The proofs

TLC checks the small instances above; the theorems hold for every value of the constants,
from the assumptions the modules name. These are what the code or its schemas guarantee:
what members and administrators enter is well typed (`LedgerConstants`, `SheetInputs`,
`PipelineInputs`, `ScoringInputs`), dates are consecutive days (`DaysAreConsecutive`) of
finitely many years (`YearsAreFinite`: Python's dates end in 9999), tables of people, doors,
assets, applications and categories are finite (`ApproversAreFinite`, `PeopleConstants`,
`AccessConstants`, `AssetsAreFinite`, `OffersConstants`, `TemplatesConstants`), a loan is not a
unit (`RemindersConstants`), the null of a column is no key (`UploadsAreThere`,
`InterviewersAreThere`, `AssetConstants`) and a missing filter no member
(`WhicheverIsNobody`), and an account made by hand has an identifier no directory gives out
(`ManualIds`).

Every safety property of a passing run is stated by a theorem; liveness is TLC's.

| Module | Theorems |
|---|---|
| `LeaveLedgerProofs` | `TypeCorrect`, `LedgerCorrect`, `ApprovedLeaveCovered`, `NeverBookedTwice`, `Finality`, `PagesTellTheSame` |
| `LeaveSessionProofs` | `SessionsTypeCorrect`, `AssignmentsStand`, `ApprovalsHeal`, and `SerialSessionsAreTheLedger`: with one session the handlers, statement by statement, implement the ledger |
| `WorkforceProofs` | of attendance: `AttendanceTypeCorrect`, `SessionsSound`, `BalancesSound`, `AttendanceBooksOnce`; of plan, logs and the whole: `PlanTablesAgree`, `TeamReadsThePlan`, `ReportsTell`, `TextReported`, `LogsWithinTheirDay`, `SheetPagesTell`, `WorkforceTypeCorrect`, `WorkforceStaysSound` |
| `AssetProofs` | `TypeCorrect`, `ReplacementsChain`, `HoldersExplained`, `HeldAssetsStayOff`, `HeldAreNotArchived`, `PagesAgree`, and `CustodyImplemented`: the register implements `Custody` |
| `RecruitmentProofs` | of each component: `HistoryIsTrue`, `OnboardingIsTold`, `SubmittedStays`, `ClosedStaysFrozen`, `PostingIsUnanimous`, `RequisitionsAreTold`, `AnswersStay`, `ScoresFollow`, `InterviewsHold`; of recruitment as a whole: `RecruitmentTypeCorrect`, `PostingsStay`, `HandedInStays`, `BoardsTell`, `InterviewsStaySound`, `ScoresStayFair`, `HistoryStaysTrue` |
| `OfficeProofs` | of each component: `DeactivatedForGood`, `CatalogStaysConsistent`, `DepartmentPagesStayTrue`, `HolidaysStayOnce`, `AccessFiguresHold`, `DecisionsToldOnce`, `NoticesStayTrue`; of the office: `OfficeTypeCorrect`, `OfficeStaysTrue`, `OfficeDeactivatesForGood`, `OfficeLeaveIsTheLedger` |
| `LettersProofs` | of the dispatch: `LettersArePatient`, `OffersSound`, `LinksAlwaysWork`, `BatchesStayTrue`, `NobodyIsMailedTwice`, `AnswersAlwaysHold`; of all that is mailed: `MailIsTyped`, `LettersAlwaysKeepTheirWord`, `RemindersAlwaysHold` |
| `FiniteLemmas` | least, greatest and fresh elements of finite sets; that a finite set can be listed in an order of keys, each element once; what a sum over a finite set adds up to |

Every invariance proof has the same layout: the initial states, one lemma per action, one
lemma that puts the actions together, and a theorem whose last step is temporal. What
differs is the inductive invariant, and why the property alone would not do.

**Leave.** `TypeOK` includes that the table of requests is finite, without which the sum of
approved days would be no number. An approval writes `used` as the sum over the *other*
approved requests plus its own days, so `LedgerAgrees` survives it only by
`ApprovalCharges`: approving a request adds exactly its days to its own key and nothing to
another. `NeverOverdrawn` speaks of the requests while the handlers check the row; that both
agree is `LedgerAgrees`. Their conjunction with `TypeOK` is `LedgerInv`. The pages sum and
filter for themselves; that they agree with the rows needs all of it, and that the type of
a request is one of finitely many in the table (`TypesStay`).

**Leave sessions.** `HandlersOK` says what a handler holds in memory at each of its
statements, `KeysHeld` that a balance key two sessions insert is held by the one that got
there first; both are needed before a commit can be typed. `AssignmentsSurvive` needs that
the row and the base of a handler that is no assignment agree on the granted columns.
`LonelyApprovalHeals` needs the history variable's meaning: an approval still marked lonely
has read exactly what is there (`Undisturbed`). The refinement needs `SerialInv`: with one
session, what was read still holds, so that all the statements before the commit are
stutters and the commit is the ledger's action. It is proved under
`\A s, t \in Session : s = t`, which the run satisfies.

**Attendance.** `SessionInv` adds to the types that a member has at most one open session of
their own (`OneSession`, stated without cardinalities) and that rows are sound
(`RowsAreSound`). Days must be naturals: a forgotten session of a negative day would be
closed at a moment that means *no time*. `BalanceInv` is `TypeOK` of the ledger with
`BalancesStaySound`; it holds because giving a day back only ever lowers `used`. That the
reports tell of a day once needs `NoDoubleBooking`, with clock-ins splitting leaves.
The pages of the time sheet are lists sorted out of sets: two are equal, or one the other
backwards, because a finite set of days has one ascending list (`SortedOnce`).

**Work logs and plan.** A member's text stays in the log of its session because of what the
day's logs may be (`SheetInv`). `PlanInv` says for each save what it has locked, deleted and
written; two saves that overlap hold different rows or one waits.

**Assets.** `TypeOK` refers rows to rows. `ReplacementChain`, `HoldersAreExplained` and the
bookkeeping of exceptions (`Spoilt`) are inductive over it. `HeldStayOffTheShelf` is a step
property: it needs what makes an asset busy and what puts it on the shelf, action by action
(`Busy`, `OffTheShelf`). Proving it showed a case the first formulation missed, a *retired*
unit that is still held. The pages (`ViewsAgree`) rely on the foreign keys, on the chain of
replacements and on one more invariant, `HeldAreLive`: no archived asset is held. The
refinement of `Custody` maps an assignment to a loan, active until `returnedAt`; each action
issues, ends or swaps loans or leaves them alone.

**Recruitment.** `PipelineInv` keeps the stages finite, so that the next order exists, and
histories in step. `OnboardingInv` says of the records that one with documents is not pending
and that its documents are in the storage (`RecordSound`), and of every caller what it may
still believe: that the row it read was sound, what its guard saw there, and that what it
uploaded is there (`WorkSound`). `JobsInv` says of each handler what it loaded (`LoadedOK`) and
that status and approvals fit (`StatusOK`) unless handlers overlapped. `DocumentsInv`: the
pending request of a candidate is its latest unless calls overlapped (`PendingIsLatest`), a
call that was not overtaken still has nothing pending before it (`MakingSound`), and answers
under way were accepted before any were there (`AnsweringSound`). `ResumesInv`: at most one task holds the lock (`OneLocked`), and the others follow
the rules it read or later ones (`OthersFollow`). `InterviewInv` adds what an interviewer who
waits may see (`WaitedOK`). For the scores no state matters, only arithmetic: what a
division leaves over goes to the first names, so the shares add up to the whole
(`SharesTaken`), names found earn all of it only if those missing are worth nothing
(`PointsEarned`), and the points for experience, rounded, are full from half a point below
their number on (`ExperienceEarned`).

**Office.** `DirectoryInv`: what a sync has written is still of the row it read
(`WrittenOK`). `CatalogInv`: an asset's label is the name of a live category and its
values are under names that category owns. `HolidayInv`: what a sync is about to
insert is still missing, or doubtful (`MissingStill`). `PeopleInv`: rows refer to rows; the
counts of the pages are of sets whose difference is known. `NoticesInv`: for a request
decided once, its telling is done, under way, or lost, and never two of them. The pages of
notifications cut a list sorted by status and time into pages; together they show every
notification because that order decides any two rows (`SoonerIsOrder`). The totals of the
access page are the sums over members and over doors of what their lists count, since an
entry is of one member and an assignment of one door (`CountsAddUp`).

**Offers.** `OffersInv` relates the letters to what each task still has in its queue: the
drafts of its batch, each once, with the tokens the rows have (`QueueOK`). From this follow
that a link saved is the one mailed (`LetterOK`), that a task sums up a batch no other task
works on (`TasksOK`), and that a batch counts what became of its letters (`BatchOK`): a
completed one has as many letters as candidates, and all of them are out. What a session
read may be stale, but a letter that was out still is (`SessionOK`). The letters of a batch
are loaded in order, so the proof needs that a finite set of row numbers can be listed in
ascending order, uniquely (`Rising`). `AnswersHold` is proved for any number of sessions, of
`RacingSpec`, in which `seen` keeps what there was when each of them read. What a session
holds was so then (`ReadHolds`), and stays a fact of the past because letters are only added
(`Grows`); every step of a task is `Quiet`: it sends letters, and answers or withdraws none.
The other theorems are about `PatientSpec`; `LettersArePatient` carries them to the
specifications the runs check.

**Templates.** `TemplatesInv`: a letter that is rendered says what was copied into it
(`Faithful`), which no edit of a template touches, because the copy is in the letter.
`PromisesInv`, about the history variables `offered` and `repriced`: the copy is one the
template held at the dispatch, and until the salary is edited a letter that was validated
can be rendered, since what the validation and the renderer look for is the same
(`ValidRenders`).
Names stay unique since the next number of a copy is one that no template has, within a
finite range (`CopyNameIsNew`).

**Reminders.** `ScanInv` says, of the items not edited since a scan began, that those due
are waiting in it, told of in it, or marked already; and of those it holds, that none is
marked. `MarksAreTrue`: a mark is about the date that was mailed, but for the items a scan
marked after an edit. For the slots, what was noted last is what was mailed last unless a
scan failed (`NotPestered`), and intervals are never under four hours.

What is proved of a component alone is lifted to the composite, because the composite's
step is a step of one component and leaves the variables of the others alone; the composite
theorems are the ones that name the properties of the runs.

Proving also corrected the models: a `CASE` whose guards overlapped is not first-match,
`HeldStayOffTheShelf` was restated for the units above, and `FullMarksForAll` first asked for
every certificate, although the eleventh of a requisition is worth nothing.

**Sums and lists.** A sum of the community modules is a recursive function chosen over the
subsets of a set. The theorems of the libraries about such folds take an operator as a
parameter, which the provers cannot instantiate; so `FiniteLemmas` proves of a given
function that it is the sum if it starts at zero and grows by each element
(`SumIsTheSum`), by well-founded induction over finite subsets, as a least counterexample.
In the same way a finite set has a list in the order of its keys (`SortedExists`), which
`InOrder` of `Tables`, the ORDER BY of a query, chooses.

Not proved, and checked by TLC only: liveness, `HandlersEnd` and `BatchesSettle`, which is
out of the prover's reach, as is the ENABLED in their fairness.

## Findings

- **A submitted purchase requisition can be decided by nobody** (`procurement_undecidable`,
  `procurement/service.py:151`). Submitting writes PENDING; deciding wants
  PENDING_FINANCE_APPROVAL, which nothing writes.
- **Concurrent approvals overdraw a balance** (`leave_race_overdraw`,
  `leave/service.py:627`). Both sum the approved days before either commits.
- **A retry can be lost** (`offers_lost_retry`, `offers/service.py:1050`). A retry during
  processing resets a letter; the running task then sums up a batch in which a draft is
  neither success nor failure, the queued task finds the batch COMPLETED and returns.
- **A worked leave day is given back at every clock-in** (`attendance_restored_twice`,
  `attendance/service.py:749`).

## Observations

Seen while modelling and proving, and not claimed as findings because nothing in the
repository states otherwise, or because no run is about them.

*Attendance and leave.* Clocking in on half a day of leave gives back a whole day; leave over
New Year is charged to one year and given back to the other; a session begun after 23:50 and
forgotten has negative hours (`attendance/service.py:677`); clock-out resets the remote flag,
may overwrite the finished row of another day, and over midnight replaces the next day's
row; clock-out text overwrites the only untitled log of the day even if it was entered in
bulk (1577–1593); deleting a day that has work logs fails (1025–1057); bulk save keeps the
earlier type and remote flag (1705–1712), bulk deletion has no leave check (1878); projects
that are not offered are accepted (429–477); `auto_stop_open_sessions` has no caller. The
attendance report adds its leave rows to every page (`attendance_report/service.py`
365–408). Pending requests are each checked against the whole balance (`leave/service.py`
575). Team pages of the plan read the weekly table only, and miss what an overlapping save
cleared there.

*Assets and procurement.* A retired unit may still be held; `raise_replacement_appraisal`
always fails, its urgency is none the service accepts; a purchase order is uploaded and
mailed before it is committed; a notification flushed after the commit is lost; a deleted
category's name cannot be used again; live assets can be saved into a deactivated category;
the dashboard counts at most five open tickets; an archived ticket that is reopened is
hidden from the list and shown on the dashboard. A date edited while a reminder scan runs is
marked although nobody was told (`assets/service.py` 2796, 2862); a missed day is never
caught up; a failed mail counts as sent.

*Recruitment.* Two overlapping approvals leave a requisition PARTIALLY_APPROVED with nobody
left to decide; a double click publishes two postings, after which reading the posting fails;
a requisition that is reopened cannot be submitted to the same approver; closing it leaves
the posting public. A stage named *Applied* loses its protection when moved; a submission
whose stage slug is taken fails for ever; a second submission that overlaps the first replaces
its documents (`onboarding/service.py` 510, 588), an assignment that overlaps the mail changes
the address after the credentials were sent to the old one (399, 657), and two sends at once
make two records (238) or two pending requests (`document_collection/service.py` 438); `confirm_and_send_credentials` always fails for want
of a password. After a refusal with a substitute two interviewers may be open; one who
refuses twice wipes the slots of the one who accepted; a reshuffle leaves the slots of the
one it demotes; a candidate can pick a second slot and book a second meeting
(`candidates/service.py` 3416); a crash between the two commits of an acceptance loses the
invitation (2558). A screening that failed keeps its old score and counts as recommended;
points per year are rounded down, so fifteen years earn 30 of 40 (`jobs/service.py` 544);
ten points go to the first ten certificates, and a resume without the eleventh has full marks.

*Offers.* An overlapping task overwrites an answer by SENT; an answer that commits after a
new dispatch overwrites WITHDRAWN; a letter answered before its batch is summed up counts
neither way; two answers of one candidate, or an answer and a dispatch, overwrite each other
when both read the letter SENT; a name of one word passes validation and can never be
rendered; a currency blanked between dispatch and rendering makes letters fail.

*People, directory, holidays, doors, notifications.* Deleting an employee names a status its
enum lacks and nullifies columns that may not be null; an inactive department commits and
then answers 404; parents of departments are not checked for cycles; a department's page
counts a head who is a member twice, the dashboard once. A profile edited by hand and synced
later has two rows, after which reading the employee fails; a directory sync rolls back
wholly, its own record of the failure included. An organization's holidays have no unique
key: two syncs duplicate them, and one that an administrator deleted comes back. Re-enabling
an access keeps its revocation date. Read notifications are listed before unread ones.

## What is not modelled

Authentication and the scope of a request (an action is available to whoever has the
permission), texts, rendering, file formats and the storage protocol; imports from sheets,
exports and archives; the extraction of facts from a resume by an external model; group
memberships, photos and the chain of managers of the directory; notes, feedback and
reassignment requests of interviews; interview distribution over many candidates; form
metadata of postings; vendors and order templates; notifications of assets and procurement;
`auto_stop_open_sessions`. Multiple organizations appear only where rows cross them (holiday
sync); elsewhere every query is filtered by one. `PROJECT.json` lists the parts one by one.

## Plan

1. Vendors and order templates of procurement, with a property that relates an order to the
   requisition it fulfils.
2. Interview distribution over many candidates, which `Interviews` follows for one.
3. Should the leave service come to lock the balance row before it sums the approved days:
   that overlapping sessions then implement `LeaveLedger`.
