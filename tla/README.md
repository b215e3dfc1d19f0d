# IAM Sentinel in TLA+

IAM Sentinel scans the identities of a cloud account, turns what its checks
find into *findings*, and lets a team work on them until they are resolved,
suppressed or accepted. This directory holds TLA+ models of it: of the parts
whose correctness depends on the order in which things happen, of the analysis
from the policy documents and log lines to the findings, and of the pages that
show them; the TLC configurations that check the models on small instances; and
proofs, checked by TLAPS, of the properties that matter most. Paths below are
relative to the root of the repository.

## 1. Inventory

One process serves everything (`app/db.py`: one worker, four threads): the
threads that handle requests, a pool of four threads for scans (`app/jobs.py`),
and the thread of the scheduler (`app/scheduler.py`). They share only the
database (SQLite in development, PostgreSQL in production), the pool's queue
and the scheduler's job table. Each handler is one transaction
(`session_scope`), except a scan, which commits as it goes. A transaction does
not have the database to itself: what it loads it keeps as objects, decides on
and writes later, whatever others have committed in between.

| Component | Source (under `src/app`) | State it keeps | Operations | What must be true | Here |
| --- | --- | --- | --- | --- | --- |
| Finding workflow | `services/workflow_service.py`, `exception_service.py`, `bulk_service.py`, `web/views.py` | `finding_group.current_status`, `last_seen_run`; `finding.status` per run; `finding_exception`; `finding_status_history` | transition, suppress and accept risk, reopen, bulk actions, expiry sweep, detection by a scan | one legal move per change, one audit row per move, snapshots that agree with the group, exceptions that agree with the status | modelled, proved |
| Scan runs | `services/scan_service.py`, `jobs.py`, `db.py` | `run.status`, the pool's queue, uncommitted groups, locks | enqueue, submit, execute, persist, summarize, fail | every run ends, an end is final, no lost or doubled group | modelled, proved |
| User administration | `services/user_service.py`, `web/authz.py` | `app_user.role`, `is_active` | create, change role, (de)activate | never zero active admins | modelled, proved |
| Schedules | `scheduler.py`, `services/schedule_service.py`, `web/views.py`, `api/accounts.py` | `schedule` rows, live jobs, `next_run_at` | connect with a schedule, save, delete, run now, fire, start | the live jobs mirror the rows, one schedule per account, no fire undoes an edit | modelled, proved |
| Tickets | `services/ticket_service.py`, `integrations/` | `ticket_ref`, targets, the tickets outside | create ticket, manage targets | every ticket outside is accounted for, no target is used that was off | modelled, proved |
| Collaboration | `services/collaboration.py`, `bulk_service.py` | assignee, comments, audit events | assign, comment, in bulk | the trail explains the assignee | modelled |
| Access control | `api/auth.py`, `services/rbac.py`, `web/__init__.py` | cookies, tokens | login, every request, logout | no request is served under a revoked right | modelled, proved |
| Ingestion | `ingestion/`, `domain/logparse.py` | none (reads an organisation) | file and AWS adapter, log parsing, join of names | what the analysis is told is what there is | modelled in part |
| Permission graph | `analysis/graph.py`, `domain/policy.py`, `services/graph_view.py` | none (a function of a dataset) | build, escalation paths, blast radius, drawing | says what the documents allow | modelled |
| Least privilege | `analysis/least_privilege.py` | none | suggest a policy | grants what was used, nothing else | modelled, proved in part |
| Checks, risk, engine | `analysis/engine.py`, `risk.py`, `checks/`, `compliance/mappings.py` | none | run checks, score, summarize | disuse is real, clearing never hurts | modelled |
| Run comparison | `services/diff_service.py` | none | new, resolved, changed, net risk | accounts for every row of both runs | modelled |
| Queries and pages | `services/finding_query.py`, `finding_detail.py`, `run_query.py`, `dashboard.py`, `compliance_view.py`, `checks_catalog.py` | none | table, facets, drawer, dashboard, compliance, catalog, runs | all pages tell one story, a drawer is of one moment | modelled in part, proved in part |
| Configuration, CLI, migrations, schemas, export, HTML | the rest | none of their own | read and format | | not modelled (section 6) |

What is hard to test in it, and where, is the list `hazards` of `PROJECT.json`:
two requests between each other's reads and writes; scans that end in another
order than they began; a write that fails together with the handler that should
record the failure; a sweep that meets the exception of a decision already
replaced; a pool that refuses; a restart.

## 2. Modules

| Module | What it is |
| --- | --- |
| `Workflow` | the statuses, the allowed transitions, the audit rows; data shared by the modules below |
| `FindingLifecycle` | the abstract specification: what an auditor is promised |
| `FindingWorkflow` | every handler that moves a group, as transactions that load, decide and commit between each other; implements `FindingLifecycle` |
| `FindingViews` | what the pages show of a state of `FindingWorkflow` |
| `ScanRuns` | the scans of one account: request thread, worker, locks, status |
| `UserAdmin` | user administration as transactions that lock, read, count and write |
| `ScheduleSync` | schedule rows and the live jobs of the scheduler: edits, fires, restarts |
| `Access` | the ladder of roles and what a drawer offers to each |
| `Requests` | requests from the door to their commit: comments, assignments, moves, sweeps, tickets, targets, roles |
| `PolicyDocs` | policy documents: statements, wildcards, what a document grants |
| `Organisation` | an organisation that changes, and the dataset a scan of it ingests |
| `PermissionGraph`, `LeastPrivilege` | the graph of a dataset, the policies suggested for it |
| `Checks` | the registered checks, risk, posture, compliance |
| `Analysis` | the composition: an organisation, its scans, their comparison |
| `FindingLifecycleProofs`, `FindingWorkflowProofs`, `ScanRunsProofs`, `UserAdminProofs`, `ScheduleSyncProofs`, `RequestsProofs`, `AnalysisProofs` | theorems |
| `FiniteFacts` | lemmas the proofs share: least and greatest numbers, finite sets, division |
| `MCFindingWorkflow`, `MCScanRuns`, `MCUserAdmin`, `MCScheduleSync`, `MCRequests`, `MCAnalysis` | small constants for TLC |

`FindingViews` extends `FindingWorkflow` and `Access`, `Requests` extends
`Access`; `Analysis` extends `Checks`, which extends `PermissionGraph` and
`LeastPrivilege`, which both read the dataset of `Organisation`. No module has a
`RECURSIVE` operator: what the code computes by searching a graph is a function
on distances (`Within`).

Operators named `X_Y` (`Transition_NoMirror`) are mutants of `X`: what a
plausible slip in that code would do. No specification uses them; replacing `X`
by one of them is how each property is shown to be able to fail.

### The finding workflow

`FindingWorkflow` keeps the columns that the properties speak of:
`status[g]` is `current_status` (with `Absent` before the first detection),
`lastSeen[g]` is `last_seen_run`, `finding[g][r]` is `finding.status` of the
snapshot in run `r`, `history[g]` the audit rows, `active` the
`finding_exception` rows with `revoked_at IS NULL`, `runs[r]` the status of the
run. A row that was revoked is never read again, so it is dropped. A day is a
number, and the bound `Days` also bounds the dates of exceptions.

A transaction has two kinds of steps. `Load` reads the row of one group:
`seen[x][g]` is what the session of `x` (a request thread, the scheduler or a
scan) then has in its identity map, the status and the last run, and is not read
again. The commit is a step of its own that decides on `seen` and not on what is
there by then: `FindingTransition` and `RevokeException` are the two branches of
the transition route, `CreateException` the suppress and accept-risk routes and
the bulk exception, `BulkTransition` the bulk status change, `ExpireExceptions`
the sweep (which the daily job and two pages run), `Quit` every way a request
ends without having written. `transition()` is the operator `Transition`: the
status, its audit row and the snapshot in the run that was *loaded* as the last
one, for all groups of the request. A sweep has a step more: `FindExpired` is its
query, whose rows (`due`) it works through afterwards. `EnqueueScan` creates a
run, and `PersistScan` and `FailScan` are its end: the groups the scan has loaded
by then are those it has detected, each of them gets a row with the status that
was loaded, and all of them are re-dated.

So a move may be committed between a scan's read and its commit, or begin before
and end after it; two moves, two sweeps or two scans may cross in the same way.
Two ghost variables record which overlaps there were, for the properties to be
exact about them: `contested` are the groups of which some writer once moved a
status that was no longer there (`MovedSince`), `torn` those whose newest writer
had loaded them before another one wrote (`Overtaken`: moved, or re-dated to a new
run), so that the next undisturbed writer takes a group out of `torn`. The model
is slightly more liberal than a database: row locks would exclude some of the
orders on PostgreSQL, as would a scan's write lock on SQLite, but not the ones
just described, because a lock delays a writer without making it read again.
`history` is in the order of the commits. The drawer lists the rows by id, which
is the same order on SQLite; on PostgreSQL an id is drawn when the row is
inserted, and the rows of two overlapping moves may be listed the other way
round.

The code accepts two requests that move a group into or out of an exception
status without touching `finding_exception`. They are enabled by the constant
`IrregularPaths`, so that one can say what holds with them and what only
without them: `"plain_exception"` is a transition route called with
`suppressed` or `accepted_risk`, `"bulk_reopen"` the bulk Reopen of a
suppressed or accepted group.

`FindingLifecycle` has no exceptions, snapshots, runs or transactions: in a step,
some groups move, each by a move its writer may make from a status that it has
had (`Past`; the present one, unless the group is contested), and each gets one
audit row. That the detailed module implements it (`ImplementsLifecycle`) says
that, whatever overlaps, none of the handlers writes a status without its row,
skips the table of transitions, or lets a scan or a sweep undo what it may not
undo. (`docs/ARCHITECTURE_SPEC.md:898` reopens a resolved finding on
"re-detection with changed evidence"; the code, and so the model, reopens it on
any re-detection.)

### Scan runs

`row[r]` is `run.status` as committed, `request[r]` is the thread in
`enqueue_scan`, `job[r]` the job: in the queue, at one of the commits of
`execute_scan`, or over. A commit is one step. A persisting run looks its
fingerprints up one by one (`todo`), inserts the missing ones (`pending`, then
`created`) and re-dates the known ones (`dating`, then `dated`); nobody sees
either before `Complete`.

The database is a constant. On SQLite a run takes the one write lock
(`writer`) with its first persisted row and holds it to its last commit;
another commit waits and may give up. On PostgreSQL there is no such lock, a
write to a group waits for the transaction that wrote it (`Rival`), a second
insert of a fingerprint fails, and a circle of waits has a victim. In each of
these failures the session is unusable until it is rolled back, so the commit
of the handler fails as well and the row keeps its last committed status:
`EndJob` with `row` unchanged.

`Faults` names what may happen around a scan: `"refuse"` and `"half_refuse"`
(the pool raises, without or with the job in its queue; CPython's executor
queues the job before it starts a thread), and `"crash"`. That an adapter, the
normalization or a check raises is always possible (`ScanRaises`).

### User administration

Each thread of `Requests` passes the role check (`Gate`), locks, reads its
target (`seen`), compares and counts (`RejectLastAdmin`, `PassCheck`), and
writes (`Commit`); other threads step in between. On SQLite `wants` is the one
database lock, on PostgreSQL the rows that are active admins' when the locking
SELECT starts; a row that has ceased to be one when its lock is granted is
passed over. `CreateUser` locks no admin. `NewAdmins` says whether requests may
also make admins.

### Schedules

`rows[i]` is the row of `schedule` with id `i`, `jobs[i]` the cron expression
of the live job `schedule:i`, or `NoCron`. Each request is a thread of
`Editors` that goes from one step to the next: it reads (`StartSave`,
`StartDelete`), commits (`ConnectBoth`, `ConnectAlone`, `InsertSchedule`,
`UpdateSchedule`, `DeleteSchedule`), and only then touches the scheduler
(`SyncSchedule`, `RemoveScheduleJob`). A fire is a thread of `Firers`, or the
request of "Run now": `FireRead`, `FireCommit`, `Enqueue`. `StartScheduler` is a
restart: every thread is gone, and the jobs are read from the rows. `GiveUp`
is a transaction that fails.

Three details of the libraries decide what the interleavings do, and are
modelled as external. The ORM's UPDATE sets only the columns that differ from
what the session read (`Columns`, `Written`), which is why a fire does not put
an old expression back. An UPDATE or a fire that finds its row deleted raises
and rolls back (`StaleDataError`), a second DELETE only warns. An id is used
again on SQLite after the row with the highest one is deleted, on PostgreSQL
never (`Fresh`). The time `next_run_at` is represented by the cron expression
it was computed from; whether a new computation gives another time is the
parameter `moved`.

`Overlap` says whether two edits of one account's schedule may be under way at
once. Nothing in the code prevents it; the constant separates what the code
keeps when people take turns from what it loses when they do not.

### Requests

`Requests` is about what happens between the door of the application and the
commit. `creds` are the cookies and tokens in use, with the role a token was
issued under; a request (`req[s]`, one per slot) is let in by `Arrive`, which
loads the user of its credential and asks `at_least`, and remembers what it
read: the version of the account, the assignee or the status of each group of
its batch (`prior`, one `ReadGroup` step per group), the version of its target.
Its writes are one step (`AddComment`, `CommitAssign`, `CommitMove`,
`CommitTicket`, `ChangeTarget`, `ChangeRole`, `ChangeActive`), decided on what
it read and not on what is there now, as the ORM's objects are. A sweep is what
the findings pages and the drawer do first, with the right to look as its only
requirement.

A ticket is made outside the database: `CheckTicket` and `CheckTarget` are the
two reads, `Deliver` the call, `AnswerLost` a call whose answer is lost,
`CommitTicket` the reference; `Fail` is every way a request ends without its
write, after the call included. `alone` is a ghost: whether another request for
the same group made a ticket meanwhile. `version` is one too, and `activity`
is the timeline of the drawer, with three interleaved trails.

### The analysis

A statement is a record of sets (`PolicyDocs`); an action is a name, and what
matters of it is which wildcards cover it. `Organisation` holds what the
outside may change, one call of IAM or one line of the log per step, and
operators for what the two adapters see of it: the file adapter loads every
policy of its file and believes the inventory, the AWS one fetches the policies
it finds attached, and knows nothing of a role's credentials. Of a principal's
role it keeps whether it is one of the names `risk.py:73-78` counts as
administrative (`adminRole`). A log line has a shape (`json`, `plain`, `noise`);
its outcome, its principal and the action it stands for are operators
(`OutcomeOf`, `Canonical`, `to_iam_action`).

`PermissionGraph` builds the edges the code saves, and, apart from them, the
simple directed graphs the searches run on, in which an edge of one relation
replaces another (`AssumeOnly`, `EscalationGraph`). The code records one
shortest path, which one depends on the order of a set: `escalations` is the
set of those it may record. `LeastPrivilege` is `recommend()` with its two
gates; `Checks` has an operator per registered check and integer arithmetic
for the scores (the posture score is an exponential of a load, and the load is
what is compared). `Analysis` adds the scans and the comparison: `Scan` runs the
whole chain on the dataset of its moment and persists rows and summary.

### The pages

`FindingViews` has no state: its operators read one state of
`FindingWorkflow`, as a page reads one transaction. Several modules of the code
repeat the same condition (what the current run is, which statuses are active);
each is its own operator here, so that a disagreement can show.

## 3. Runs

All bounds are constants of the `.cfg` files: `MaxRuns`, `MaxInFlight`,
`MaxDay`, `MaxMoves` (users leave a group alone once it has that many audit
rows), `MaxArrivals` (requests let in), `MaxCreds` (credentials at a time),
`MaxChanges`, `MaxLines`, `MaxScans`, and the sizes of the sets.

| Run | Bounds | Shows |
| --- | --- | --- |
| `WorkflowOverlap` | 2 groups, 1 request thread and the scheduler, 2 runs in flight, 1 day, 3 moves, plain exceptions; pages of 1 row | `SnapshotMirrors`, `AuditReplays`, `PagesAgree`, `DrawerTellsTheGroup`, `ImplementsLifecycle`, `PastSnapshotsFrozen` |
| `WorkflowRegular` | 1 group, 1 request thread and the scheduler, 2 runs one at a time, 2 days, 5 moves, no irregular path, fair | `TypeOK`, `ExceptionMatchesStatus`, `NoForeignExpiry`, `DisplayedRowsMirror`, `DrawerShowsException`, `ExceptionsEnd` |
| `ScanRunsSqlite` | 3 runs, 2 workers, 2 fingerprints, refusals, crashes | `TypeOK`, `MissingStaysMissing`, `CountedAgainstNewest`, `TerminalIsFinal` |
| `ScanRunsSerial` | 3 runs, 1 worker, 2 fingerprints, PostgreSQL, refusals, fair | `OpenRunsHaveOwners`, `RunsEnd` |
| `UserAdminSqlite` | 3 accounts, 2 threads, 2 roles | `TypeOK`, `SomeActiveAdmin`, `DecidedOnCurrent`, `RejectionsJustified` |
| `ScheduleEditsApart` | 2 accounts, 2 ids, 2 expressions, 2 editors, 1 firer, PostgreSQL, edits of one account apart | `TypeOK`, `JobsMirrorRows`, `OneSchedulePerAccount`, `FiresKeepSchedules` |
| `Requests` | 2 users, 2 groups, 1 webhook, 2 requests at a time, 3 in all, 1 credential at a time | `TypeOK`, `DecisionsFresh`, `TicketsAccountedFor`, `TrailsExplain` |
| `OrgGrants` | 2 users, 2 roles, 4 documents, 6 trust statements, 4 changes, AWS adapter | `PathsExplainReach`, `BlastCountsTrusted`, `PageShowsGrants` |
| `OrgActivity` | 1 user, 3 documents and an unknown one, 7 log lines of which 3 occur, credentials and ages, 4 changes, 2 scans, file adapter | `TypeOK`, `DisuseIsReal`, `SuggestedNeverWidens`, `SuggestedKeepsUse`, `NoPolicyOffSparseData`, `DiffAccountsForRuns`, `ClearingNeverHurts` |

Two groups are enough for a selection of which one part moves and another is
skipped, or of which one is loaded before a commit and one after. A request, a
sweep and two scans are every pair of writers that can overlap but for two
requests of users, whose overlaps `Requests` has; the theorems of section 4 have
them all. Three moves are a detection, the way to "resolved", and the scan that
finds it again. Five moves and two days are a detection, a suppression with a
date, its end, a second suppression and one thing more. Three runs with two workers have
one run queued behind two that contend. Three accounts allow one to be
promoted while two are demoted. Two schedule ids allow two accounts at once, or
one that deletes its schedule and saves another; two editors and a firer are
three threads at one schedule, as "Run now" is a fire by an editor. Three
requests, two at a time, are a target that is enabled, a ticket and its
retry, or two moves that overlap a third; one credential at a time still lets
a request outlive its session and a token outlive a role, because a request
stays open when its credential is gone. Four attachments
or trust statements give a chain of two hops whose ends hold something, with a
replaced edge in it. Four changes between two scans take a grant from used to
unused, or bring a finding with other evidence. The symmetry used permutes
groups, fingerprints, accounts, expressions, threads or principals of one kind,
and only in runs without liveness. Deadlock is not checked where the bounds
bring a run to its end: in `ScanRuns` (the number of runs) and in the two runs
of `Analysis` (the changes and the scans).

Three runs end in a counterexample, each for something that the repository says
of itself and that the code does not do (`findings` in `PROJECT.json`):

| Run | Property | Counterexample |
| --- | --- | --- |
| `BulkReopenExpiry` | `NoForeignExpiry` | a dated suppression, a bulk Reopen that leaves its row active, a second suppression; the first row's date undoes it |
| `ScanUniqueConflict` | `OpenRunsHaveOwners` | two scans on PostgreSQL find the same group missing; the second fails to insert it and to say so |
| `UserAdminPostgres` | `SomeActiveAdmin` | an admin promoted while a request waits for the row locks is counted by it and demoted by another |

### What is not guaranteed

The models also show where a property ends. These are stated with their
assumption above, and fail without it:

- A scan and a move of the same group do not see each other when they overlap.
  If the move commits first, the scan writes the old status into the new run's
  row; if the scan commits first, the move goes to the row of the run that was
  the last one when it was loaded, so a past row is rewritten and the new one is
  left behind. One scan and one request are enough, and without the exception of
  `torn` groups TLC finds it in nine states, although `workflow_service.py:115`
  means to "keep the current run's snapshot in sync". `SnapshotMirrors`,
  `PastSnapshotsFrozen`, `DisplayedRowsMirror` and `DrawerTellsTheGroup` say that
  nothing worse happens: only groups in `torn` are affected, until somebody writes
  them undisturbed, and no row ever shows a status the group has not had.
- Two scans of an account that overlap may end in reverse order; the older one
  becomes the last seen run, and pages show the other: `DisplayedRowsMirror`
  needs `MaxInFlight = 1`.
- Two first saves of an account's schedule that overlap make two schedules, and
  two edits that overlap may reach the scheduler in the opposite order of their
  commits: `OneSchedulePerAccount` and `JobsMirrorRows` need `Overlap = FALSE`,
  the latter PostgreSQL as well, since SQLite uses the id of a deleted row again.
- The web wizard keeps the account when its schedule is refused, although
  `views.py:260-261` promises both or neither (`ConnectAlone`); the API route
  keeps the promise.
- Two moves of one group that overlap are both committed and both start from
  the same status. The group is then contested: its trail has a fork, and every
  row still starts from a status it has had (`AuditReplays`, and for the
  trails of several kinds together `TrailsExplain`). Two suppressions that
  overlap leave two active exception rows, and a sweep that overlooked a
  decision may undo it: `ExceptionMatchesStatus`, `DrawerShowsException` and
  `NoForeignExpiry` are about groups that are not contested.
- On PostgreSQL the ids of overlapping assignments (`audit_event`) and moves
  (`finding_status_history`) need not follow the order of their commits, by
  which the models keep the trails; the drawer lists them by id.
- A ticket may be made with a target that was disabled after the request had
  looked at it: `DecisionsFresh` is about the look.
- A double click on "Create ticket" makes two tickets, which the comment at
  `ticket_service.py:54` means to exclude: `TicketsAccountedFor` excludes it
  for requests that do not meet.
- `diff_service.py:194` takes a run to have at most one finding per fingerprint;
  denied IAM actions have one per event (`OneRowPerIssue`), and the comparison
  keeps one of them. Its counts agree nevertheless.
- Where two principals share a name in the log, the first one listed gets the
  events of both (`normalize.py:91-99`), and the other may be called unused
  although it is not: `DisuseReported` and `SuggestionsKeepUse` assume
  `UniqueNames`.
- A role drops out of a blast radius when the one who could assume it may pass
  roles as well (`BlastCountsTrusted` says exactly when not).
- A public deployment is not free of writes: looking at the findings sweeps
  (`PublicModeOnlySweeps`).

### Fairness

`WorkflowRegular` assumes that days go by and that the scheduler starts its
daily sweep and loads the groups it needs (`WF` of `NextDay`, of `FindExpired`
and of `Load` for the thread `Scheduler`). A sweep may fail before its commit
(`Quit`, which is not fair); the job runs again the next day, and strong fairness
of `ExpireExceptions(Scheduler)` says that not every one of infinitely many
attempts fails. Weak fairness would not do, as each failure disables the commit
until the next attempt, and no fairness would allow a job that never succeeds.
Nobody is assumed to do anything else; sweeps from the pages and requests may
come in between at will. `ScanRunsSerial` assumes that the thread of a request and the job of a
run go on when they can (`WF` for each run): both are operating system
threads, and with one worker a job in the queue is taken as soon as the one
before ends. No fairness is assumed of users who ask for scans.

## 4. Proofs

All theorems hold for every value of the constants that satisfies the named
assumption of the module, with no bound on groups, runs, workers, accounts,
requests, documents or threads other than the constants themselves.

*Workflow.* Everything rests on `SeenInv`: what an open transaction has loaded of
a group is a status the group has had, and the present one if the group has not
moved since (`SeenIsPast`). A commit appends one row to the groups it moves, so
every other session's view of them becomes out of date and no one else's does
(`RecordKeepsSeen`). `WorkflowImplementsLifecycle` maps each commit to a step of
the abstract specification, from the status that was loaded, and every other step
to a stutter; `LifecycleAuditReplays` proves of the abstract specification alone
that the audit trail replays, by an invariant over sequences (appending one legal
row keeps a sound trail sound), and `WorkflowAuditReplays` carries it over.
`WorkflowSnapshotMirrors` and `WorkflowPastFrozen` share the invariant
`SnapshotInv`: besides the mirror itself (`Mirrored`) one needs that snapshots
exist only in completed runs, otherwise a scan that ends could meet one, and show
only statuses the group has had, which is where `SeenInv` comes in
(`SnapshotsPast`). No theorem assumes that transactions do not overlap; what an
overlap costs is in the statements, as `torn` and `contested`.

`RegularExceptionsMatch` is about `IrregularPaths = {}`. An exception row
remembers the audit row that it was written with, and its invariant says of the
rows a sweep has found that they had come to their date and are active still
unless their group has moved since (`DueFound`), and that a sweep loads no other
groups (`SweepScope`): so a sweep that overlooked no move closes the one row that
explains the status it ends. `RegularNoForeignExpiry` follows from it.
`SerialDisplayedRowsMirror` assumes `MaxInFlight <= 1` and adds that runs end in
the order of their ids and that no snapshot is newer than the last seen run.

*Scan runs.* `MissingIsSafe` assumes SQLite or one worker: then two runs are
never both between their first write and their last (`LockHeld`,
`OneExecutes`), and a run outside of it has nothing uncommitted (`OwnMissing`).
`FinalStatusStays` assumes that the pool does not raise for a job it has
queued: then a run that waits to be refused has no job, and a job that is
under way has an open run (`Underway`). Without that assumption it is false, as
`execute_scan` does not look at the status. `NoRunIsAbandoned` assumes one
worker on PostgreSQL and no restart: then no write of a scan can fail
(`WritesSucceed`).

`SummaryIsCurrent` assumes SQLite: while a summed run holds the write lock, no
run changes its status (`SummedKeeps`). Elsewhere another scan may end between
the read and the commit.

*User administration.* `LockoutHolds` and `DecisionsCurrent` assume SQLite, or
PostgreSQL where no request makes an admin. The invariant `Covered` says that
what a request holds or still wants covers all that a rival would need, so at
most one is past its locks (`OnePastLocks`), so what it counted (`Counted`)
still holds when it commits. `UserAdminPostgres` shows that the assumption is
needed. `RejectionsNeeded`, an action property, needs no such assumption: a
step from "loaded" to "idle" can only be a refusal (`RefusedStep`), and what a
request takes from the account it read it takes from any (`TakesAdminFromAll`),
so even an account that changed in between would be no admin afterwards.

*Schedules.* `SchedulesMirrored` and `OneScheduleEach` assume PostgreSQL and
edits of one account that wait for each other. The invariant `SyncInv` says
what the thread of an edit knows at each of its steps: a save that found no
schedule is right about that until it inserts one, a save or delete that found
one still finds it, and what it is about to give to the scheduler is what the
row says (`ThreadKnows`, one conjunct per step, `Apart`: at most one such
thread per account). When a delete removes a job, its id must not belong to a
newer schedule; on PostgreSQL it cannot, as new ids are above `lastId`. `FiresAreHarmless`
needs no assumption and no invariant but types: a fire writes one column of a
row that is there.

*Requests.* `RequestsTyped` needs, besides the types, that only requests for
tickets go past the door (`OnlyTicketsGoOn`). `RequestsDecideFresh` follows from
`AllFresh`: what a request knows of its user and its target is never from the
future, and is right unless it is from the past. `TicketsAreAccountedFor` rests
on `Accounted`, seven conjuncts, of which the argument is three: two
requests that make a ticket for one finding have met (`Met`), the finding of
one that met nobody has none yet (`Unticketed`), and once a reference is written
no request passes the check again (`Settled`). `PublicModeOnlySweeps` assumes the
public mode and shows that then only sweeps are let in. `RequestsLeaveTrails`
needs, besides `TrailsExplain`, that what each open request has read of a finding
is somewhere in that finding's trail (`ReadsSeen`). Timelines only grow, so it
stays there (`StaysSeen`), and a line that starts from it starts where the
finding has been (`OneMoreLine`), whatever was committed in between.

*Pages.* `ViewsDrawerTellsTheGroup` and `RegularDrawerShowsException` carry the
workflow's invariants over to what a drawer shows: that the run a drawer picks
has a row of the group is `SnapshotInv` and the types. `ViewsPagesAgree` needs
the types only. Its parts are that the current run is the greatest of the
completed ones for every module that looks for it (`NewestIsGreatest`), that
the pair to compare is the newest two (`CompareIsTheNewestTwo`), that every row
is on the page its rank divided by the size names and the footer counts the
same rows (`PageOfRow`, `PageShowsItsRows`, `FooterNumbers`), and that the three
definitions of "active" select the same rows (`ActiveRows`).

*Analysis, one scan.* These theorems need nothing but the types of the
organisation (`OrgTypeOK`), or nothing at all.

- `SuggestionsNeverWiden`: what `resources_for` hands out for an action comes
  from statements that grant it, with an exact name first and a wildcard
  otherwise; documents with a condition or a denial get no suggestion at all.
- `SuggestionsKeepUse`, `DisuseReported`: a line is joined to a principal
  exactly if it carries one of its names (`JoinedByName`), and the parser calls
  it a success exactly if the log says so (`SuccessIsRead`), so `used_by` is
  what was exercised (`UseIsRead`). They assume `UniqueNames`: no two principals
  share a name in the log. The code does not enforce it, see section 3.
- `SuggestionsNeedData`: a window of `MIN_WINDOW_DAYS` is spanned by two dated
  lines (`WindowIsSpanned`). That needs `MIN_WINDOW_DAYS > 1`, because events of
  one day count as one day; the code has 14.
- `BlastCountsTrust`, `PathsExplain`: searching by hops, as networkx does, ends
  in the least closed set (`WithinIsClosure`). It saturates after as many hops
  as there are nodes with an edge out, since before that each hop adds one
  (`WithinSaturates`). The first hop at which an admin comes in sight has a path
  of that length (`NearestHasPath`) and no path is shorter (`HopsAddUp`), and the
  edges between different principals are the steps that the documents allow
  (`EdgesAreSteps`).
- `PageShows`: the chain of a principal holds all of its permissions
  (`ChainShowsGrants`), over a graph of finitely many origins.

*Analysis, the completed runs.* `AnalysisTyped`, `ClearingHelps` and
`DiffAccounts` follow from the inductive invariant `RunsInv`: each run has
finitely many rows, one of each issue (denied IAM actions excepted), with risks
in range; its summary adds up; and its counts of new and resolved findings are
those against the run before it. `TypeOK` alone is not inductive: it says
nothing of where the counts come from, nor that a set of rows has a number.
That a scan establishes it is a lemma per check and
`FoundByCheck`. `DiffAccounts` then is about sums: of the rows kept from two runs
the risks of the common issues cancel but for those that moved (`RisksSplit`,
`CardsExplain`), and the cards correspond one to one to the fingerprints the
summary counted (`CardsAreOnly`). `ClearingHelps` rests on
`DiminishingGrows`: the weight of `n + 1` findings, rounded down, is never less
than that of `n`.

Induction over data is out of the prover's reach, so an argument that would be
one is by a least counterexample instead: `NatMin` (from the library's
well-foundedness of `<`) for numbers, `SubsetInduction` for finite sets. The
sums of the community modules are `CHOOSE` of a function that satisfies their
recursion; `SumsExist` shows that there is one, and the other facts about sums
follow.

Every invariant and every action property that a run checks is so proved for
all constants; the theorems with an assumption name it above. Model-checked only:
`ExceptionsEnd` and `RunsEnd`, as liveness is out of the prover's reach, and
what the counterexamples show.

## 5. What is left out of the modelled parts

In `FindingWorkflow` a transaction writes at its commit, all groups at once.
Another transaction sees nothing before the commit in the code either; what is
lost is that a writer that waits for a row lock may have written other rows
already, which nobody can tell, and the deadlocks of such waits, which end in a
rollback (`Quit`; for scans see `ScanRuns`). A request loads a group at most
once, as its session does. A plain transition that enters an exception
status without a row is a path of the model (`"plain_exception"`), and the
reason why `ExceptionMatchesStatus` is claimed only without it.

In `ScanRuns` an error of the application's own during persistence (not of the
database) is not modelled; the progress percentage is left out, the rows of the
snapshot and the counts of the summary are in `Analysis`, and `run_scan`, which
the command line uses, is the same execution without the pool. The pool takes
the oldest job first; the model leaves open which one. `ScheduleSync` leaves
out `last_run_at`, the thresholds and the author of a schedule, how expressions
are parsed, and what a fire does after `enqueue_scan` is called, which is
`ScanRuns`. In `UserAdmin` the validation of addresses, names and passwords is
left out, and so is the failure of a commit that waits for no lock.

`Requests` leaves out passwords, the CSRF check, rate limits, the audit rows of
sign-ins and refusals, the checks of titles and URLs (they refuse before
anything is read), and what a move does besides the status. `Organisation`
leaves out malformed input and the conversion of columns and dates, letter case
and prefix wildcards of actions, and gives policies distinct uids (an inline
policy is known by its owner's name in the code). `Checks` leaves out the texts
of findings, the grade and the exponential of the posture. The workflow status
is not part of `Analysis`, so neither the re-detection of a suppressed finding
nor a status change counts in its comparison. `FindingViews` has one account,
no search, no sort keys and no saved views: a filter is any set of rows, a sort
any order.

## 6. Not modelled

- `api/schemas.py`, `api/errors.py`, `api/pagination.py`, templates, forms, the
  export: conversions without state or decisions.
- `config.py`, `cli.py`, `migrations/`, `models/`: declarations and one-shot
  commands. The models read the tables' columns and constraints from `models/`.
- `ingestion/moto/seed.py` and the drift of the demo source: data.
- `integrations/net_safety.py`: resolution and pinning of addresses, which
  decide whether a call is made and appear as a call that fails.

## 7. Possible extensions

A composition in which `FindingWorkflow`'s `PersistScan` is implemented by a
scan of `ScanRuns` with the rows of `Analysis`; the evidence of a finding in the
workflow; several accounts on the pages.
