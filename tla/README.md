# TLA+ models of Personal PM Agent

This directory holds a verification project for the program in `src/`: TLA+
modules that follow its code, TLC configurations that check them on small
instances, and proofs that TLAPS checks for instances of any size.
`PROJECT.json` lists the runs, the mutants, the theorems and, for every
definition of a module, the source lines it stands for.

Contents: [the system](#the-system) · [modules](#modules) · [runs](#runs) ·
[proofs](#proofs) · [disagreements](#where-the-code-disagrees-with-its-documents) ·
[not modelled](#what-is-not-modelled) · [plan](#plan)

## The system

A personal project manager: a FastAPI application (`src/apps/api`), a worker
process (`src/apps/worker`), a deterministic planner library
(`src/packages/planner`) and a web client (`src/apps/web`), over one PostgreSQL
database. Requests run as concurrent transactions under READ COMMITTED; the
worker polls; the planner is a pure function.

| Component | State | Operations | Interacts by | What is hard | What makes it correct |
|---|---|---|---|---|---|
| Outbox and worker | `outbox_events`, `external_executions` | enqueue, claim (`FOR UPDATE SKIP LOCKED`), call the provider, record, mark failed; poll, stop, crash, restart | row lock held during the provider call | crash between effect and commit, timeouts with unknown outcome, several workers | no false success; one executor at a time; outcomes are final; answered commands settle |
| Task commands, work sessions | `tasks`, `work_sessions`, `audit_events` | PATCH, transition, start, block, complete, partial | optimistic version, unlocked snapshots | lost updates, stale snapshots, partial audit | one accepted command per version; statuses follow the table; every write audited, truly |
| Approvals | `proposals`, `approvals` | propose, approve, reject, undo | proposal row lock, then task row lock | racing decisions, a task that changes under its proposal | decided once; executed as shown |
| Focus blocks | `proposals`, and the outbox | propose, approve, execute | unlocked read, two transactions | repeated and concurrent execution, staleness | nothing without an approval, and one that was given in time; one command per proposal |
| Plan snapshots | `plan_snapshots` | create_plan | partial unique index | overlapping calls, torn reads, failures | exactly one current plan, the newest |
| Views | none | today, inbox, projects, calendar, review | several statements of one READ COMMITTED session | torn reads across tables, identity map of the session | tasks no older than their plan; no view goes back |
| Operation events | `agent_step_events` | append, replay and close, reconnect | server-sent events with a cursor | breaking connections, racing appenders | nothing lost, repeated or left behind |
| Planner | none (pure) | validation, graph analysis, slots, placement, promotion, three passes, replanning, risk, today's list | function calls; the plan before is input of the next | order, rounding, cycles, exhausted capacity, protected work | exact cycles and latest finishes; no time used twice or left idle; protected work stays; honest risk |
| Inbox, processing jobs | `inbox_items`, `candidate_facts`, `idempotency_keys` | create, process, fail, mark, decide | row locks, unique keys | redelivery, two jobs at once, racing decisions, crashes | an operation runs once; a candidate is decided once; jobs end |
| Calendar import and sync | `external_calendar_events`, pending changes in memory | webhook, recovery round, import, update, tombstone | callbacks | lost and repeated webhooks, failing syncs, syncs that cross | a registered change is reconciled, once and as the provider has it (only without crossing syncs, see below) |
| Calendar connections | OAuth states in memory, `calendar_connections` | begin, callback, exchange, save | one-time state | replay, expiry, several processes, two callbacks | a connection has the scopes its user granted |
| Identity and sign-in | `users`, `workspaces`, `sessions` | sign in, fixture reset, expiry | unique email, cascading deletes | first sign-ins that race, a reset meanwhile | one workspace per user |
| Uploads | `source_artifacts`, objects in the bucket | create bucket, put, commit, delete | two stores without a common transaction | any step fails, the reset deletes rows | a row has its bytes |
| Rate limits | counters in memory or Redis | ask | clock | window boundaries, a Redis that fails | both limiters give one answer |
| Agent actions | execution records | handle, execute, verify | provider call | duplicates in one process, timeouts, ids of nothing | what is reported as done has happened |
| Everything else | | notifications, analytics reports, telemetry, web pages, migrations | | | see [not modelled](#what-is-not-modelled) |

The hazards behind this table, each at its line and with the properties that
would catch it, are in `PROJECT.json` under `hazards`.

## Modules

### Outbox and ExternalExecution

`Outbox` models `OutboxWorker.run_once`, `poll` and `_main`,
`enqueue_external_command` and the two repositories. `record` and `execution`
are the rows of the two tables, keyed by idempotency key; `worker` is the
program counter of each polling process, what is left of its batch and the row
it has locked. A worker's transaction commits once, at the end: `Claim` takes
the lock and sends the request, `AnswerVerified`, `AnswerFailed` and
`AnswerTimeout` write and commit, `FailClosed` is the worker without an
executor, `Crash` rolls back although the request has left. The provider is
external (`inflight`, `applied`): it may act on a request at any time after it
was sent, repeatedly or never, and recognises the key.

`ExternalExecution` is what the outbox promises its callers: a key is requested
once, may be performed from then on, and is settled once, as succeeded only if
it was performed. `Outbox` refines it (`KeepsContract`), and `FocusBlocks` uses
it in place of the outbox.

### TaskStateMachine and TaskRecords

`TaskStateMachine` is the transition table of the planner package with its
guards. `TaskRecords` has the rows of `tasks` and every writer that interleaves
on them. A request handler is a small state machine: `Submit` (the client read
version and state), for transitions an unlocked `Snapshot`, then one atomic
`UPDATE ... WHERE version = expected` with the audit event. Work sessions load
the row, compute from it and write the columns that differ, by primary key.
`commits` is a history variable: it counts the committed writes of a task.
`VersionedSpec` has the versioned writers only, `TaskSpec` has all.

### Approvals

`ApprovalService` over `TaskRecords`: `Open` takes the proposal's row lock,
`Refuse`, `Supersede`, `Approve`, `Reject`, `Undo` are the outcomes, `Rollback`
is a failing request. The task row is locked only in the last step of a
decision, so that step is one action; other requests run between the two locks.
A payload digest has two values: that of the stored targets, or that of another
document, as `CHANGE_HARD_DEADLINE` proposals have it.

### FocusBlocks

`FocusBlockApprovalService`: `BeginApprove`/`CommitApprove` (a read without a
lock, then the write), `BeginExecute`, `Judge` (the first transaction: the
version check) and `Enqueue` (the second one). The command goes to the contract
`ExternalExecution` with the proposals as commands, whose key is the
proposal's, so that enqueueing twice fails at the unique key. A proposal is bound
to whatever task version its caller names; `ChangeTask` counts versions up to
`MaxVersion`. An approval row is kept as the version its task had when it was
granted.

### PlanSnapshots and Views

`PlanSnapshots` is `PlanningService.create_plan`: `ReadRows`, `ReadBaseline`,
`Reject`, `ReadCurrent`, `Commit`, and `Abort` at any point. The canonical rows
are a counter (which state was read is all that matters), the plan a row with
`current` and the state it was made from. The plan a call replans from is kept
by the call; no column stores it.

`Views` composes it with the read side: every view is its list of statements,
taken from `queries.py` in their order, and each runs by itself against what is
committed then. `BeginView`, `ReadPlan`, `ReadTable`, `Respond` and
`RespondWithError`; `request` holds what a view has read and the rows its
session already knows, `shown` what the browser was shown last.

### OperationEvents

`AgentOperationService._append` as two steps (`Count`, `Insert`), the stream
endpoint that replays what follows the cursor and closes (`Connect`), and the
web client (`operation-stream.ts`) that takes events (`Receive`), sees the end
(`End`) or a broken connection (`Break`), and reconnects with the sequence of
the last event it got. When it is answered 401 or 404 it gives up for good
(`Reject`).

### Inbox

`items`, `candidates` and `keys` are the committed rows, `worker` and
`deciding` the transactions under way, `lock` the row locks. A job is `Load`
(the item's status read without a lock), `Reserve` (the insert of the
idempotency key, which waits for another transaction that has inserted the same
key), `CommitJob`; a failing job and a mark load and write without a lock; a
decision locks candidate and item (`LockToDecide`) and commits. Workers and
requests crash at any step. A job finds one candidate unless the text of its
item is blank.

### CalendarSync

`AcceptWebhook`, `RegisterPendingChange`, `Tick`, `BeginRound`, `RecoverNext`
and `EndRound` are `SyncScheduler`. A delta sync reads the provider (`Fetch`),
looks up the row (`Select`) and commits (`Write`), or fails (`SyncFails`); it
belongs to a round or to one of the `Receivers` that serve webhooks, and all of
them interleave, since nothing in the code keeps them apart. The target that
connects the scheduler with `CalendarSyncService` has no implementation in
`src/`. It is external, and may take an event that is there to `import_event` or
to `apply_provider_update`, and one that is gone to `apply_provider_deletion`.
A webhook may come at any time, any number of times or never, for any event
that has changed; `run_due` is taken to be called by one loop.

`rows` is the table in the order of insertion, without a unique constraint. The
content of a row is its title, start and end, as of a change at the provider,
which is what both an import and an update write, and only where it differs from
what was loaded, as the session does. The columns only an import writes
(availability, status, all-day) and `provider_version`, which is written at the
insert and never compared, are left out. A deletion leaves a tombstone that no
other operation takes away. `Applies` has the errors: `scalar_one_or_none` raises
when there are two rows, and update and deletion raise `NotFoundError` when
there is none; a failing sync ends its round.

`crossed` is a history variable: the events of which some sync had read the
provider, or the row, when another one wrote.

### SignIn, Uploads and Requests

`SignIn` has the transaction of a sign-in (`SelectUser`, `InsertUser`,
`EnsureWorkspace`) and of the fixture reset (`BeginReset`, `FindRows`, `Seed`),
both ended by `CommitTxn` or `Rollback`; an insert waits for a transaction that
has inserted the same email and fails when that has committed. `Uploads` has the steps of one upload, with the
object put before the row is committed and deleted again when the commit fails.
`Requests` composes them: an upload begins in the workspace its session
resolves to (`BeginUpload`), and a committed reset deletes artifact rows through
their foreign key (`CommitWithCascade`).

### RateLimits, CalendarConnections, AgentActions

`RateLimits` drives `RateLimiter` and `RedisRateLimiter` with the same
requests on one clock. `CalendarConnections` has the states that each API
process keeps, callbacks in three steps (consume the state, exchange the code,
save the row), restarts and the clock. `AgentActions` is
`AgentOrchestrator.handle` with its intent and review rules and the command
executor: `HandleApproved` looks for an earlier success under the same key and
starts the execution, `ProviderAnswers` and `ProviderTimesOut` end the call,
`Verify` and `VerifyRaises` what follows. An answer may carry an id although no
event exists; that the provider's verification confirms only what exists is
assumed of the adapter, which is external.

### The planner

`Planner` composes four modules over the input record of `PlannerInput`, in
the order `run_planning_passes` has; `Replanning` is `plan()` around it.
`Intervals` has what windows, slots, events and allocations have in common.

| Module | Code | How it is stepped |
|---|---|---|
| `Availability` | `build_unique_slots`, `_apply_daily_capacity`, `SlotLedger.__init__` | measure the days, then decide slot by slot whether it stays free |
| `DependencyCycles` | `DependencyGraph.cycles`, `_strongly_connected_components` | one action per turn of Tarjan's loops, with the explicit work stack |
| `CriticalPath` | `backward_timing`, `unlock_counts` | `Call` and `Return` of the memoised recursion; `path` is the call stack |
| `SerialSchedule` | `serial_schedule`, `_place_task`, `SlotLedger` | `Select` a ready job, `PlaceChunk` in the first run of slots that suits it, go through the runs `Again`, `Finish`; or `GiveUp` |
| `Planner` | `passes.py`, `priority.py` | `phase` walks through slots, cycles, timing, the provisional pass, promotion, the base and the safety pass; `plans` keeps the result of each pass |
| `RiskAssessment` | `risk/classify.py`, `coverage.py`, `external.py` | operators over the finished passes |
| `TodayPlan` | `today.py` | operators over the finished passes |
| `Replanning` | `planner.py`, `replanning/` | `Validate`, `MakePasses` (around the protected allocations of the earlier plan), `RunFresh` (without it), `SelectPasses`, `DeliverPlan`; `CallAgain` calls `plan()` once more over its own result, after a revision of the input |

The data of the planner is abstracted as follows. Instants and durations are
integers in one unit, so that a date is a division; the time zone is an offset
(no daylight saving). Identifiers are integers ordered as their hex strings;
the `uuid5` identifiers of the synthetic buffers are two constants per
milestone. Of the statuses only done/cancelled against the rest is kept, which
is the only distinction the passes make. Slots that follow one another are
named by their position, so that an allocation's slot ids are an interval of
positions. `capacity_factor` is a percentage, and the rounding guard of
`floor_to_slot` is exact division. `created_at` is the same for all tasks of an
input and is dropped from the key. A pass is given its slots by position
because the code sorts them by start, which says the same of windows that
exclude one another. Nothing in the code forbids windows that overlap; they are
outside the model (see the disagreements below).

What an input may be is stated once, in `WellFormed` and `ReplanningAssumption`,
which TLC evaluates for the inputs of the run and the proofs assume of any:
every field has its type; dependencies are between tasks of the input
(`normalization/validate.py:71`); an event or block ends after it begins
(`domain/availability.py:53`); windows do not overlap, and none reaches beyond
`Never`, the instant that stands for no deadline; an earlier plan gives no time
twice. The last one is assumed of the first call only: that it holds of every
plan the calls hand on is part of what is proved. `PlannerAssumption` has the
identifiers of synthetic tasks distinct, as `uuid5` makes them.

## Runs

Deadlock is checked except where noted. All bounds are constants of the
configurations; the numbers of states are distinct states.

| Run | Shows | Bounds, and why they are enough |
|---|---|---|
| `outbox` | `SuccessIsReal`, `RowsAgree`, `ClaimIsExclusive`, refinement `KeepsContract`, liveness `AnsweredCommandsSettle` | 57 488 states. Two commands of different age, so that order matters; two equipped workers and one without executor; batches of two, so that a worker goes on after its first row; `attempts` saturates at 1, nothing reads it |
| `lost_update` (violation) | the `NoLostUpdate` of `requests`, with work sessions | one task, three handlers, three commits |
| `approvals` | `OneDecision`, `ExecutedAsShown` | 2 269 904 states. Two proposals on one task, two deciders, one versioned writer, two commits; the task starts `cancelled`, from where its status cannot move: only titles and versions matter here, and this keeps the product with `TaskRecords` small |
| `focus_blocks` | `CommandIsApproved`, `ApprovedInTime` | 646 861 states. Two proposals, three requests (two that race and a third between them), three versions |
| `focus_block_outdated` (violation) | the command of an outdated proposal goes out | as above |
| `plan_snapshots` | `OneCurrentPlan`, and of the views `TasksFollowTheirPlan`, `ViewsNeverGoBack` | 620 396 states. Two overlapping calls, three plans, one browser (browsers do not interact) with every view after every other, one change of the canonical rows; calls and plans are symmetric |
| `planner` | the eleven properties below | 93 015 states from 527 inputs, see below |
| `done_predecessor` (violation) | a done predecessor blocks its successors for ever | the inputs of `planner` |
| `inbox` | `OperationRunsOnce`, `DecidedOnce`, liveness `JobsEnd`; of the event stream `ResumeLosesNothing`, liveness `EventsArrive` | 240 250 states. Two parts that share no state, each by itself (variable `part`). Inbox: two items, one a fixture with a candidate on hold; two operations for one item, two workers and two users, so that jobs meet jobs, decisions and marks; one crash. Stream: three events, one appender; two lose events, see below |
| `requests` | `LimitersAgree`; `OneWorkspacePerUser`, `UploadsAreStored`; `ConnectionsAreGranted`; `ActionsAreReal`; for the versioned task writers `NoLostUpdate`, `StatusFollowsTable`, `TransitionAuditIsTrue` | 2 160 036 states. Five parts that share no state, each by itself (variable `part`). Limits: one key, since keys do not interact, three requests in a window of three, nine instants: three windows. Sign-ins: one email, three clients, one of which resets; three workspaces; two uploads. Connections: two each of workspaces, processes, states and callbacks. Actions: two commands under two keys or one, two requesters. Tasks: one task (rows do not interact), three handlers, three commits: a client that reads, one that overtakes it and one that overtakes both |
| `calendar` | `StoredUnlessCrossed`, liveness `OnlyUnsyncableBlocks` | 321 622 states. Two events, one blocking the other, three changes, so that one event is created, deleted and restored; a round and one webhook's sync at a time, which is enough for two to cross; a round is due one tick after the last |
| `calendar_crossed` (violation) | `RecoveredIsStored`: what is no longer pending need not be stored | as above |

`CHECK_DEADLOCK FALSE` in the runs of calendar, focus blocks, inbox, planner and
requests: when proposals, changes or workspaces are used up and requests have
ended, or the planner has returned, the system rests.

The inputs of `planner` (module `MCPlanner`) are all 64 start-dependency graphs
of three tasks, also with two of the edges as completion dependencies, on one
calendar; 162 combinations of dependencies, windows (unsorted, adjoining,
ragged, with one shorter than a slot), fixed events, protected blocks, start
dates, deadlines and amounts of work; done tasks; a task alone that comes back
to a short stretch it has passed over; a stretch across midnight whose first
part another task takes; a deadline known by its day; external
deliveries before and after they were handed over; inputs the validation
rejects; and 216 inputs that are planned twice, the second time over the plan
the first call has delivered, after nothing, time, work done, pins and a new
calendar, or a passed deadline. Three tasks are enough for a cycle with a tail
and for a chain across two windows; with slots of two units every window has a
short slot at its end, chunks cross runs, and the limit of chunks per day
binds: it is 2 here (3 in the code) so that days of twelve units reach it.

- `CyclesAreExact`: the reported cycles are the classes of mutual reachability.
  A task reaches what is in every set it belongs to that no edge leaves.
- `LatestFinishFollowsStarts`: the memoised search gives the minimum over all
  chains of start successors, for tasks that do not lead to a cycle. Completion
  dependencies have no part in it, although the specification says they should
  (see the disagreements below).
- `NoDoubleBooking`, `PredecessorsFirst`: in every state of a pass.
- `NothingMoreFits`: a pass ends only when no free stretch suits a job that it
  reports as unallocated. Excepted is, for a job that can be split, what adjoins
  slots of a day that has all the chunks it may have. Without the exception the
  statement is false, which the attempt to prove it has shown and the input
  `Crossing` exhibits: the limit is looked up for the day on which a free stretch
  begins, a job is refused a stretch across midnight whose first day is full, and
  a later job that takes the part before midnight leaves one that would suit.
- `PlansRespectCalendar`: allocations avoid events and protected blocks and
  leave the held-back share of every local day.
- `ProtectedStay`: what is pinned or within the freeze window of the earlier
  plan is in the new one unchanged.
- `RiskIsHonest`: a milestone of LOW or MEDIUM risk has all its work before its
  deadline in both passes. It is stated for passes that give no job more time
  than it needs: a task with a surplus (whole slots, kept allocations) hides the
  shortage of another in the sum that the code compares.
- `TodayIsDoable`: today's list can be worked off in its order.
- `PlanIsDelivered`: every call returns, with a plan or with the violated rules.

**Fairness.** `Outbox` assumes weak fairness of what a worker or its supervisor
does next (the loop of `poll`, a supervisor that restarts), strong fairness of
beginning a batch and of claiming (a worker is not killed before every batch or
every claim), and for the keys in `Answering` strong fairness of an answer that
is no timeout. `OperationEvents` assumes that the client reconnects and that a
connection is not always broken before its first event; a client that was
refused owes nothing any more. `Inbox` assumes that a
transaction that is not waiting goes on, and strong fairness for those that
wait, since the database grants a row or a key in turn. `CalendarSync` assumes
that `run_due` is called again and again (it has no caller in `src/`), that a
sync goes on or fails, and that at every position of a round that keeps asking
the provider is eventually reached and its event imported or deleted; without
that last one an unreachable provider, or a target that takes an event that was
never stored to `apply_provider_update` for ever, would end every round. What
remains is what no operation can store (`CannotBeSynced`). The planner is one sequential
call: weak fairness of its next step, none of calling it again.

Every property of a passing run has a mutant: a definition, changed the way a
plausible bug would change it, under which TLC finds that property violated.
The mutated forms stand before the definitions they belong to, marked "Mutant
of".

## Proofs

TLAPS proves the following for all values of the constants that satisfy the
named assumptions of the modules.

| Module | Theorems | Invariant |
|---|---|---|
| `OutboxProofs` | `TypeCorrect`, `NoFalseSuccess`, `ExclusiveClaims`, `ConsistentRows`, `OutcomesAreFinal`, `ImplementsContract` | `IInv` |
| `ApprovalsProofs` | task records: `TaskTypeCorrect`, `VersionsCount`, `WritesAreAudited`, `VersionedNoLostUpdate`, `StatusesFollowTable`, `TransitionsAuditedTruly`; approvals: `DecidedOnceForAll`, `ExecutionsAreAsShown` | `TInv`; `AInv` |
| `PlannerProofs` | one pass: `PassInvariance`, `PassCompletes`, `PassIsTypeCorrect`, `NextPassBeginsFresh`, `GatesAreKept`, `NoTimeIsLeftIdle`; the calls of `plan()`: `PlannerInvariance`, `PlansFollowGates`, `PlansLeaveNothingIdle`, `CalendarRespected`, `ProtectedAllocationsStay`, `RisksAreTrue`, `TodayCanBeDone` | `SInv`, `PassInv`; `PlannerInv`, `CallInv` |
| `GraphProofs` | the analysis of the graph, in the calls: `GraphInvariance`, `CyclesAreFound`, `LatestFinishIsRight`; `PlannerIsTypeCorrect` | `TarjanInv`, `TimingInv`, `GraphInv` |
| `PlanSnapshotsProofs` | `AlwaysOneCurrentPlan`; with the views `TasksFollow`, `NeverBack`, `PlansBehindViews` | `PInv`, `VInv` |
| `InboxProofs` | `OperationsRunOnce`, `CandidatesDecidedOnce` | `InboxInv` |
| `RequestsProofs` | `SameLimits`, `OneWorkspace`, `StoredUploads`, `ConnectionsGranted`, `ActionsReal`, `ResumingIsExact` | `RateInv`, `RequestsInv`, `ConnectionInv`, `AgentInv`, `StreamInv` |
| `CalendarProofs` | calendar sync: `RecoveredChangesStored`; focus blocks: `OnlyApprovedCommands`, `OnlyTimelyApprovals` | `SyncInv`; `FInv` |

**The outbox**, for any commands, workers and batch sizes. The safety properties
are not inductive alone. That two workers never execute the same command, and
that a loop counter stays a natural number, needs `CallsHoldClaims`: a worker
is in a provider call exactly if it holds a claim, and then has an iteration
left. That a success is real needs `RequestsAreRecorded`: what is under way to
the provider, or was performed there, has a row. `IInv` is these two with
`TypeOK`, `ClaimIsExclusive`, `RowsAgree` and `SuccessIsReal`. The three ways an
iteration commits (verified, failed, timed out) and the worker without an
executor share one lemma, `CommitIInv`. `OutcomesAreFinal` and the refinement
are step properties: under `IInv`, a step writes a pending row or none, and what
it writes is one of the settlements that `ExternalExecution` allows.

**Versioned task commands**, for any tasks, handlers and titles, under
`VersionedSpec` (with work sessions `NoLostUpdate` fails, see `lost_update`).
`TInv` adds to the type `VersionCountsCommits`, `EveryWriteAudited` and
`KnowledgeIsSound`: what a request knows of its task, through the version its
client read and through its snapshot, was true when that version was current, so
that if the version is still the one in the row, the snapshot is the row. The
transition judged on an unlocked read is therefore the transition of the row it
replaces (`SnapshotIsCurrent`), which gives the status table and the truth of
the audit event.

**Approvals**, over any tasks and with the versioned writers. `AInv` is `TInv`
with two more parts. Whoever holds a proposal's row has read the truth about it,
and approvals, audit events and statuses of a proposal go together, which gives
one decision. A version names one state of a task, and an open proposal shows
the title its task had at the version it names; a decision that finds the
version unchanged under the task's lock therefore executes on the row that was
shown.

**A planning pass**, for any problem in `Problems`: any jobs, gates (cycles
included), ranks, needs, kept allocations and slots, provided slots are in
order and exclude one another and kept allocations do. `SInv` says that the job
being placed has left the pending ones for good and waits for placed jobs only
(`CurrentIsReady`), and that the ledger is right (`LedgerIsRight`): a free slot
touches no allocation, and an allocation the pass has made is a stretch of slots
without gaps, taken from free ones. A new stretch cannot touch an older
stretch, since they share no slot; that it cannot touch a kept allocation,
which need not be aligned with slots, is the lemma `StretchTouches`: a stretch
that touched it would have a first slot that does, and that slot would not have
been free. The lemma rests on the least element of a set of naturals
(`LeastNatural`, from the library's well-founded induction).

`PassInv` adds what `NothingMoreFits` needs. What a job in work still lacks is
what it needs less what it has been given, and while it has made no progress in
a round its cursor is at the beginning, so that a job is given up only when no
run at all suits it (`IsCounted`). From then on nothing more will (`NoRoomLeft`):
runs that are free later are parts of those that were free then, so that what
fits later would have fitted then, with one exception, the chunks per day, which
is the one the property states.

**`plan()` and its calls**, for any scenarios that are well-formed: any tasks,
dependencies, calendars, revisions and numbers of calls. `PlannerInv` follows a
call through its phases. Windows are cut into slots in order that exclude one
another, whatever their lengths (`SlotsFollow`), and a slot that is free avoids
events and blocks and leaves its day what is held back (`SlotsRespect`); hence
every problem a pass is given is in `Problems` (`PassesAreWellFormed`), which
no theorem needs as a hypothesis any more. The problem stays that of the input,
and each recorded plan stays sound while the next pass goes on (`BaseKeeps`).

`CallInv` follows the calls. The earlier plan is one whose allocations exclude
one another, because it is the plan the call before has delivered; so the
protected ones can be kept. `ProtectedStay` then has two cases, one for each way
`plan()` ends: nothing that was protected moved, or the passes were made around
it. `RiskIsHonest` is an argument about sums: if the sum of all allocations
before the deadline is at least the sum of all needs, and no job has more than
it needs, every job has what it needs (`EnoughInAll`). `TodayIsDoable` rests on
a gate being over before its successor starts, also among the allocations that
the plan records, and on the places in the list being those of a linear order
(`RanksAreExact`).

**The dependency graph**, for any finite set of tasks and any edges. `TarjanInv`
has seven parts. Those that make Tarjan's algorithm right are `PathsAreKnown`
(a task being explored leads to everything younger on the stack, and everything
on the stack leads to one that is being explored and not younger),
`LowlinksAreReached` (a lowlink is the index of a task on the stack that is
reached) and `LowlinksAreLow` (no edge examined so far leads lower than the
lowlink of the task under which it was found). When a task keeps its own index,
no edge leaves the part of the stack above it except into components that are
complete (`NothingLower`), so that this part is one class (`ComponentsAreExact`).
A search that learned from finished components would break
`LowlinksAreReached`.

`TimingInv`: the tasks on the call stack are a path of successors, each once,
and none of them is resolved; every resolved task that leads to no cycle has its
exact latest finish. When such a task returns, none of its successors can be on
the stack, since that would close a cycle (`AllAreResolved`), so the fallback to
the horizon was not used, and the chains of the task are its own limit and those
of its successors with the task before them (`ChainSplits`, `ChainGrows`). The
invariant is about each resolved task by itself, because the memo may hold
inexact values of tasks that do lead to a cycle at the same time.

**Plans and views**, for any callers, plans and browsers. `PInv`: there is one
current plan, or none and no plan at all, and no plan was made from rows that
are not there yet. For the views `VInv` adds `NothingIsOvertaken`. Of the plans
that existed when a view read its plan, none but that one can be current later,
so that whatever replaces it is new (`StillFollows`); and as today and the
calendar have no tasks to read before the plan, all their tasks are as new as
the rows the plan was made from (`TasksComeAfterPlan`).

**Focus blocks**, for any proposals, tasks, versions and requests. A request
between its two transactions has found an approval of its proposal, and no
approval is ever taken back, although the proposal's status may change and so
may the task. When the versions were equal every approval there was had been
granted at a version that is not newer, and one of them is on record when the
command is enqueued (`ExecutionsAreApproved`); what is false is that the versions
are still equal then.

**Inbox**, for any items, operations, workers, users and any number of crashes.
A key under reservation is neither committed nor reserved by another job, so
that its candidate is new; a user with a decision under way holds the row of the
candidate's item, and the candidate is on hold. The status of items plays no
part, although jobs and marks overwrite it.

**The API's other parts.** The Redis counter lives exactly as long as the
window in memory as long as no call has failed (`SameLimits`). For sign-ins
`SignInInv` says what each kind of open transaction may hold (`TxnIsSound`): a
new user with its one workspace, or an existing user to whom nothing is added,
or whose workspaces are all replaced by one. New emails differ between
transactions, and only one client resets: the assumption `OneResetter`, which
`web/playwright.config.ts:6` (one worker) justifies and without which
`OneWorkspacePerUser` fails. For uploads: only an upload that is over, or whose
commit had no answer, has a row, and the object is there when the row is
committed. An OAuth state waits at one process or belongs to one callback. A command under execution has its record, a
success names an event that exists, and records only grow: what the provider
answers need not be true, but a verification that passes is, and only then a
success is written. The stream of an
operation's events, with the hypothesis `OneAppender`: as only one appender
counts and inserts, every event gets the next sequence, behind everything that
was sent; an answer on its way is increasing and without a gap behind the
cursor (`ResponseGoesOn`), so that the cursor says exactly what was received.
With two appenders the statement is false.

**Calendar sync**, for any events, changes and syncs at a time. An event is
stored as the provider has it, or some syncs of it crossed, or a change of it is
unregistered or still to come in the round (`Passed`). A sync under way that was
not crossed has read what is still so, unless the change since then is open in
the same sense, and what it loaded are still the rows of the event
(`SyncIsSound`); hence such an event has at most one row. That the two syncs of
an event do not cross cannot be concluded from anything in the code.

Every invariant that a passing run checks is the subject of a theorem, except
`NoDoubleBooking`. For windows that exclude one another it is a part of `SInv`,
which the other theorems need and `PassInvariance` proves; as a theorem of its
own it would claim more of the code than the code does.
`NoLostUpdate`, `StatusFollowsTable` and `TransitionAuditIsTrue` are about
versioned writers; `ResumeLosesNothing` and `OneWorkspacePerUser` have the
hypotheses named above, and the theorems about the planner the assumptions on
its inputs, windows that do not overlap among them. The runs make the same
restrictions. `RiskIsHonest` has a condition in its statement; it is met
for example where needs and windows are whole slots and nothing is kept.

Only model-checked are the five liveness properties (`AnsweredCommandsSettle`,
`EventsArrive`, `JobsEnd`, `OnlyUnsyncableBlocks`, `PlanIsDelivered`): fairness and
ENABLED are out of this prover's reach. Also left to TLC is that the violations
of the runs that expect one exist.

What the prover cannot do has shaped some definitions. The library's induction
theorems take an operator as a parameter, which no installed backend
instantiates, so induction is done over sets of naturals: a set that has 0, and
with every number the next, is Nat (`NaturalInduction`, from the least number
outside). Sums over finite sets, ranks and chains are treated this way. A
function of two arguments is not supported, which is why reachability is stated
with sets that no edge leaves, and a place in an order is the number of those
that come before (`Stored`, `MustDo`) instead of a sort. No module has a
RECURSIVE operator.

## Where the code disagrees with its documents

Each of these has a run that shows it (`findings` in `PROJECT.json`):

- `lost_update`: completions and partial completions of work sessions overwrite
  a task row, and a versioned command is accepted on a state that is not the
  latest.
- `done_predecessor`: a predecessor that is done blocks its successors for ever.
- `focus_block_outdated`: the command of a focus block goes out although its
  task has changed.
- `calendar_crossed`: delta syncs of one event that a webhook and a round start
  cross: the event is stored twice, after which every sync of it fails at
  `scalar_one_or_none`, or its older content is written last, and the round
  clears the change.

Others were met while modelling. They are in the modules as the code has them,
or outside the modelled part, and no property claims the opposite.

Commands, approvals and plans:

- `outbox_worker.py:83`: a command that always times out stays the oldest
  pending row and starves younger ones when there is one worker. `:88`: a row
  that is written off on a retry may belong to an event that exists.
- `analytics/service.py:101`: completing a work session sets `done` from any
  status; neither it nor a partial completion writes an audit event.
- `planning/router.py:108`: the PATCH audit event reads "before" from the
  object that the UPDATE has just refreshed.
- `approvals/service.py:195`: undo overwrites whatever was written since and
  is not audited.
- `workspace/service.py:176`: a proposal for a hard deadline carries a digest of
  other text than its stored targets and can never be approved.
- `calendar/focus_blocks.py:102`: a second approval revives a superseded
  proposal; `:177`: a proposal can be superseded after its command was
  enqueued. Approving ignores the proposal's version.
- `planning/service.py:280` and `:368`: the plan a new one is replanned from
  need not be the one it supersedes, and a plan of older rows can supersede one
  of newer rows.
- `agent/operations.py:141`: two appenders use one sequence, and a client whose
  cursor is there misses an event.
- `domain-state-machines.md:19` lists Ready → Cancelled, the table in the code
  does not.
- Views: the rows of one answer can be of different ages, and even one task can
  appear in two versions, since a session forgets rows nobody refers to. The
  project views read tasks before the plan, so that progress can be older than
  the risk beside it. `calendar_view` shows events that are marked as deleted,
  and `today_view` reads a table that imports do not write.

Planner:

- The backward calculation of latest finishes passes over completion
  dependencies (`graph/critical_path.py:45`), which the specification wants as
  gates of no length (6.4, line 289 of the planner's normative specification).
- Slots are cut from each window by itself (`availability/slots.py:157`) and
  taken by their identifier, so that windows which overlap give the same time
  twice. `availability/test_slots.py:73` and line 132 of the roadmap say that
  slots do not overlap, but no constraint or validation keeps windows from it.
- Tasks on a cycle are analysed as blocked and, if the cycle has a completion
  dependency, scheduled all the same; a slot that straddles a task's start date
  is used whole; placement looks
  at neither deadlines nor `now`, and `excluded_dates` are not read; kept
  allocations may overlap fixed events; the limit of chunks is looked up by the
  day of the run and counted by that of the chunk, in UTC; the last chunk may be
  shorter than the minimum; only unallocated required tasks are promoted, not
  the tasks they wait for; the daily buffer is taken in the order of the
  windows, not of time.
- Replanning: the freeze window has no lower bound, so that allocations of the
  past are protected for ever and count as today's minutes; tasks in progress
  are not protected, which the specification asks for (§14.2, §8.1). The
  earlier plan contains buffers, which the diff always reports as removed, so
  that a frozen buffer always gives a proposal; tasks that were split always
  count as moved. Tasks whose allocation was kept come last in today's list,
  since their identifier is another object of the same value.
- Risk: a milestone whose deadline has passed is not CRITICAL for that
  (`risk/classify.py:61`, §12.6); the surplus of one task can hide another's
  shortage.

Inbox, sign-in, uploads and limits:

- A mark or a failing job overwrites STRUCTURED and IGNORED, which
  `test_inbox_lifecycle.py` calls terminal. An item in which a job has found
  something becomes STRUCTURED, from where its candidates cannot be decided.
  Two jobs with different operations both process a new item (`jobs.py:11`
  promises otherwise). The decision's audit event has a constant "before".
- `inbox/router.py:75`: a commit that succeeded without an answer makes the
  handler delete the bytes of an existing row; this is the set `doubtful`, which
  `UploadsAreStored` excepts. A crash leaves objects without a row.
- At the very millisecond a window ends the two limiters may differ; the model's
  clock does not resolve it.

Calendar and agent:

- The deletion of an event that was never stored raises
  (`calendar/sync.py:131`), which ends every round before it clears the changes:
  those behind it are never reached, although `scheduler.py:3` promises that
  every registered change is reconciled.
- Two calls of `run_due` at once, which the modules leave out, could clear
  changes that neither has synced. An event that is restored stays marked as deleted; the provider's
  version is stored but not compared. A repeated webhook syncs again although
  the docstring of `accept_webhook` says otherwise.
- A change command without an external action is reported as executed although
  nothing is changed. A verification that fails can turn a success that another
  request has recorded for the same command into a failure. OAuth states are
  kept in one process's memory, so that a callback that reaches another one, or
  comes after a restart, is refused.

## What is not modelled

`PROJECT.json` has a component for each part, with its status and the reason.

Left out entirely: notifications and briefings (they render stored rows; their
writes are single inserts), analytics reports and pilot gates (read-only
aggregation), telemetry and redaction, the web pages apart from the reconnecting
event stream, migrations, seed scripts, evaluations and infrastructure.

Left out of modelled components: telemetry of the worker loop, read-only routes,
milestone writes of `WorkspaceService`, construction of the planner's input from
rows, the overload proposal sequence, the choice among candidate plans and the
estimates (no caller in production code), the file parsers and the extraction
pipeline (only tests call them), encryption and refresh of tokens, the checks of
a file's header and of CSRF tokens, the onboarding pages, the LLM gateway (one
stateless call, repeated once).

`FocusBlockApprovalService`, `append_step`, `ProcessingJob`,
`CalendarSyncService`, `SyncScheduler`, `AgentOrchestrator` and the command
executor have no caller in production code; what calls them here are requests in
any order.

## Plan

1. Refinement of an abstract planner, a relation between inputs and plans, by
   `Replanning`, from the invariants that are proved.
2. The construction of the planner's input from rows, which would compose
   `TaskRecords`, `PlanSnapshots` and `Planner`.
