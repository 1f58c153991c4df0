# Specifications of the Hunter NODE-BT integration

TLA+ models of the Home Assistant integration in `custom_components/hunter_node_bt/`,
model-checked with TLC; what they say of safety is also proved with TLAPS. The integration talks to
a battery-powered irrigation controller over Bluetooth LE: it polls it, edits its
watering programs, starts and stops stations. The controller has one connection to
give, answers slowly or not at all, and is edited from a phone app behind the
integration's back.

All paths of source files below are relative to the repository; file names without a
directory are in `custom_components/hunter_node_bt/`.

## The system

| Part | State | Operations | Interacts with |
|---|---|---|---|
| `HunterNodeCoordinator` (`coordinator.py`) | `data`, `last_update_success`, write status, verified time, operation lock, backup store | `_async_update_data`, `async_set_program`, `async_start_station`, `async_stop_all`, `_async_save_program_backup` | called by timer, entities and actions; uses the controller |
| `HunterNodeController` (`protocol.py:314`) | session lock, shared by address across reloads | `read_data`, `set_program`, `start_station`, `stop_all`, `_with_session` | opens one session per operation |
| `HunterNodeSession` (`protocol.py:101`) | PIN future, response future, response buffer, last fragment | `authenticate`, `transact`, and the callbacks `_on_pin`, `_on_message` | the controller, through Bleak |
| Programs (`schedules.py`) | none | `from_raw`, `build_program_patch`, `validate_daily_runtime_sync` | called within an edit's session |
| Snapshots (`models.py`) | none | `from_responses` | built from two answers |
| Entities (`valve.py`, `number.py`, `time.py`, `switch.py`, `text.py`, `button.py`, `sensor.py`) | none of their own | one edit or command each; attributes of the snapshot | coordinator |
| Setup (`__init__.py`, `setup_helpers.py`) | `runtime_data`, the lock in `hass.data` | set up, unload, add entities at the first read | coordinator, platforms |
| Advertisements (`advertisement.py`, `coordinator.py:71`) | newest observation, listeners | `async_observe`, cache sampling | signal sensor |
| Actions (`services.py`) | none | `set_program` after target and permission checks | device registry, coordinator |
| Config flow (`config_flow.py`) | the form, and a read under way | discovery, user step, the read that creates the entry, options | a controller object of its own, other flows |
| Blueprint, tools | none | | |

What is hard here:

- *Interleaving.* Everything runs in one event loop, but every radio operation is a
  chain of awaits. Two locks with different scopes order them: the operation lock of
  a coordinator (edits, polls) and the session lock of an address (everything, across
  reloads). Starts and stops take only the second, and the first for the refresh
  after it.
- *Read, patch, write, verify.* An edit must not overwrite what it has not read and
  saved, nor call verified what it has not read back.
- *Failure and cancellation at each await.* A write may have reached the controller
  although the edit failed. What is shown to the user must not claim otherwise.
- *Notifications.* Answers come in fragments, through callbacks that run between the
  awaits of the task that asked.
- *Refreshes that are put off or dropped.* Commands change the controller and publish
  nothing; what they did is read by a refresh that Home Assistant's debouncer may run,
  put off, or drop, and that may be cancelled with its caller.
- *Who listens.* Entities that need data must appear once, whenever the first read
  succeeds; polling ends when nobody listens; and a failure that follows a failure is
  told to nobody.
- *Flows that overlap.* A config flow awaits a read of the controller while another may
  create the entry it is about to create.

What makes the parts correct: one session at a time; a backup before each overwrite,
and never an older one over a newer; the write status and the published data never
claim more than is known; whatever fails, locks are handed on and each request ends;
an answer that is used answers the request that was sent; what a command did is read
after it; entities come with the data and stay; no flow
reads a controller again that is configured; an action edits the controller it was
given or none; and no edit leaves what cannot be read back.

## Modules

| Module | Models |
|---|---|
| `FifoLock` | `asyncio.Lock`: owner and waiting tasks in order; a released lock is handed to the first |
| `Coordinator` | all radio work of all coordinators of an entry, as tasks |
| `MCCoordinator` | instances of it |
| `FifoLockProofs`, `CoordinatorProofs` | theorems about them: locks, controller and store; then what is reported and published |
| `ProgramEdits` | abstract: what a program edit promises |
| `CoordinatorRefinement`, `MCRefinement` | Coordinator implements ProgramEdits, and an instance |
| `RefinementProofs` | the proof that it does |
| `Session`, `MCSession`, `SessionProofs` | one BLE session: PIN exchange, transactions, callbacks; an instance; theorems |
| `Schedules` | the rules of `schedules.py` as operators |
| `ScheduleEdits`, `MCSchedules`, `ScheduleProofs` | edits of entities, the action and the app over time; instances; theorems about both |
| `Watering`, `MCWatering`, `WateringProofs` | valves and the stop button, their refreshes through the debouncer; an instance; theorems |
| `Startup`, `MCStartup`, `StartupProofs` | setup to unload of an entry: listeners, first read, entities, polling, signal and status sensors; an instance; theorems |
| `Entries`, `MCEntries`, `EntriesProofs` | config and options flows, and the target of `set_program`; an instance; theorems |

`Coordinator` is the centre. `Session` opens up one of its sessions, `Schedules` and
`ScheduleEdits` what its edits do to a program. `Watering` and `Startup` keep its locks
and reports and drop the steps that do not matter to their questions, `Watering` to add
the state of the stations and the debouncer, `Startup` the listeners. `Entries` comes
before all: which coordinators there are, and which one an action edits through.

### Coordinator

A *task* is one call of a coordinator method; `pc` is the await it is suspended in,
`home` the generation of the coordinator it belongs to, `before`, `snapshot`,
`loaded` and `outcome` its local variables. One action is what the code does between
two awaits:

| Action | Code |
|---|---|
| `Call` | a poll, edit, start or stop begins: `async with self._operation_lock`, or straight to `HunterNodeController` |
| `EnterOperation` | the operation lock is granted; an edit sets the status `writing` (`coordinator.py:145-151`) |
| `Connect` | the session lock is granted; `_async_connect` returns |
| `Authenticate`, `ReadAll`, `ReadState` | `authenticate`, the first Read All with the validation and patch that follow, Section_State |
| `LoadBackups`, `SaveBackup` | the two awaits of `_async_save_program_backup` |
| `DeliverWrite`, `AnswerWrite`, `ReadBack` | the patch reaches the controller; its status; the verifying Read All |
| `Command` | start and stop transactions |
| `Fail`, `ConnectFails` | an exception of the await the task is in |
| `CancelSession`, `CancelOpWait`, `CancelBeforeSession` | the task is cancelled there |
| `Disconnected` (`Conclude...`) | `finally: disconnect`, both locks released, and the except clauses of the coordinator method: status, availability, published data |
| `AppEdit` | the phone app changes a program while no session is open (external) |
| `Reload` | the entry is unloaded and set up; old tasks go on |

`device` is the controller's configuration. A program is a function from fields to
values, and an edit names some fields: what the fields mean is abstracted, which ones
an edit leaves alone is not. The controller may store anything when a patch arrives
(`DeliverWrite`): the repository's captures show firmware that truncates names and
corrupts start times, and the readback has to catch it. `foreign` is a history
variable: programs that somebody else changed since a coordinator last published.
Releasing the session lock and the reporting that follows are one action, because no
await separates them.

Abstracted: the reason an edit is refused (any edit may be), times, everything of a
snapshot but the programs, and retries inside `establish_connection`. The refresh after
a command is a poll of that task here; `Watering` has the debouncer it passes.

Assumptions about what is not in the repository:

- `Store.async_save` of Home Assistant keeps what it was given or raises
  (`SaveBackup`). `BackupBeforeOverwrite` and `BackupIsCurrent` rest on it: of a save
  that is lost although it returned they say nothing.
- A write changes, however badly, only the program it names (`DeliverWrite`).
- The controller has one connection, so the phone app edits only while no session is
  open; a session that disconnects counts as open (`AppEdit`).

### ProgramEdits

Edits without locks, sessions or messages: an edit is queued, begun, sent, held, over.
It is written at most once, only when the store holds what is about to be overwritten
and while no other write awaits its verification; `verified` is reported only of a
controller that holds the edit and is otherwise as it was; and a poll is nothing at
all. `CoordinatorRefinement` reads the phase off `pc` and instantiates the abstract
specification with it (`ImplementsPromise`); `RefinementProofs` proves it.

### Session

The task (`Subscribe`, `TakeChallenge`, `TakeLogin`, `Written`, `TakeAnswer`, `Save`,
`TimeOut`, `LinkFails`), the callbacks (`Notify` with `OnPin` and `OnMessage`) and the
controller (`Challenge`, `Judge`, `Receive`, `Reply`). `Script` is the sequence of
transactions of the operation. A fragment is a part of an answer, tagged with the
transaction it answers, which the code cannot see and the properties can. `Faults`
says what the link does: notifications repeated within or after the 100 ms of the
repeat filter, lost, malformed or endless answers, error statuses, a wrong PIN, a
broken link. `TakeAnswer` begins the next transaction in the same step, as the code
does: no await separates the end of one transaction from the new future of the next,
except for the backup of an edit (`Save`).

Coordinator's `ReadAll` and `ReadBack` read `device` in one step. That is justified by
`TrustedAnswersOwn`: an answer used as configuration or as write status was sent in
answer to that request.

Assumptions: consecutive parts of an answer differ (the captured answers do when cut
into 20 bytes); a Read All takes more than one notification (1.7 kB, an attribute has
at most 512 bytes); a text with parts missing or repeated may parse or not.

### Schedules and ScheduleEdits

`Refused` and `Edited` are `build_program_patch`: which changes raise, and the program
with the patch merged in (the patch is the set of fields in which it differs).
`DailyRefused` is `validate_daily_runtime_sync`, `Readable` is `from_raw`. Changes are a
record of the fields the caller names; a station or slot may be named by number or by
string, which is how one can be named twice. `ScheduleDays` is the set of its bits, so
that bits that are no weekdays (odd and even days) are kept apart.

`ScheduleEdits` gives them a history. `programs` is what the controller holds, `view`
what the entities show. `SetStart`, `SetRuntime`, `SwitchDay`, `SetName` are the
entities, `SetProgram` the action (and the blueprint, with the daily guard); each is an
`Edit` of the fresh program. An edit is one step here: Coordinator has its session.
`Reported` is how it ends when nothing goes wrong on the way: what is read back at the
end must be readable in all its programs (`from_responses`), or the edit is `unverified`
and, if there was nothing to write, `failed`. `AppEdit` changes the controller and not
the view; the app may leave unsorted
or duplicate starts, long run times, and a program the integration cannot read.

The properties are written against independent references: sets of times instead of
lists (`StartsAsAsked`), water per station and day instead of the guard's conditions
(`DailyTotalIsSet`), the edit applied twice (`RepeatIsNoOp`), what was readable before
the edit (`VerifiedAsRead`: an edit that is unverified for its readback found a program
the app had left unreadable; it cannot lock the integration out by itself).
`RepeatIsNoOp` excludes `start_time_slots`: a slot number means another start once the
list is sorted, so an
edit of slots cannot be repeated blindly, as SCHEDULES.md:19 warns.

Abstracted: the syntax of times and names, the types of JSON values (a wrong type is
refused like a value out of range), and the range of stored integers other than times.

### Watering

One coordinator, and tasks as in `Coordinator`: callers, which may be cancelled, and
`Poller`, in which Home Assistant polls and runs refreshes put off. `running` is the set
of stations that water, `shown` and `available` what the valves show.

| Action | Code |
|---|---|
| `Command`, `Deliver`, `Answer`, `EndCommand` | `HunterNodeValve.async_open_valve`, `async_close_valve`, the stop button and `start_watering`, through `async_start_station` and `async_stop_all`; a start whose request may have arrived is `ambiguous` (`protocol.py:181`) and refreshes too |
| `EditProgram`, `ReadState`, `EndEdit` | an edit, as far as it reads and publishes station state |
| `RequestRefresh`, `RunRefresh`, `CooledDown` | `async_request_refresh`: at once, at the end of a cooldown, or dropped because a refresh is running (external) |
| `Poll`, `EndRefresh` | the update interval; what was read is published, a failure withdraws the data, a cancellation of the caller does neither |
| `Fail`, `ConnectFails`, `Cancel`, `CancelOpWait`, `Disconnected` | as in `Coordinator` |
| `Elsewhere` | the controller's timers, programs and buttons (external) |

Two history variables say what is owed. `latest` is what became of the last command the
controller got: sent, returned to its caller, read since, or its refresh dropped.
`changed` says that the controller changed by itself. `RefreshOwed` is the reason why
the debouncer may drop a request: a refresh that is running while a command returns
cannot have read yet, as the command has held the session lock. The stop button and a
closed valve stop every station, as the code does; that is the documented behaviour.

Abstracted: the remaining seconds, and the check of the duration before anything is sent.

### Startup

One entry, set up and unloaded again and again. `SetUpEntry`, `SetUpPlatform`,
`FinishSetup` are `async_setup_entry` and the platforms it forwards to, each of which
registers `add_when_ready` with the coordinator and calls it once
(`setup_helpers.py:23`). Unloading takes two steps, as in Home Assistant: the platforms
and their entities go first, the callbacks of `async_on_unload` and the background task
later, and a read may end in between. `Poll`, `ReadSucceeds`, `ReadFails`, `BeginEdit`
and `EndEdit` are the coordinator's operations, one step to begin and one to end; which
of them tell the listeners is the rule of `DataUpdateCoordinator`: a success always, an
explicit `async_update_listeners` always, a failure only if the last update had
succeeded, and the next poll is scheduled while anyone listens. The coordinator begins
as one whose last update failed (`coordinator.py:54`): before the first success no
listener is told of a failure, and only the timer (`NextPoll`) brings the entities.

Advertisements are their times. `Advertise` is Home Assistant's callback, which it
leaves out when only the signal strength differs, `Sample` the sampling of its cache
each second, and `Observe` the rule that only a newer observation counts. The signal
sensor is added without waiting for data (`AddSignal`).

Abstracted: entities that the user may have disabled do not count as listeners, so that
`PollingSurvives` does not lean on them; an edit that outlives its entry, which has no
one to tell; entities added while the platforms unload.

### Entries

`flow` is each flow's form: how it began, which controllers it offers, which one and
which PIN it tries, and whether it is at its form or in the awaited read.
`Discover`, `StartUserFlow`, `Submit`, `CreateEntry`, `ReadFails` are the steps of
`config_flow.py`, `SetOptions` the options flow with run times in half seconds,
`Load`, `Unload`, `Identify`, `Remove` what becomes of an entry, and `SetProgram` the
checks of `services.py:35` up to the edit. Home Assistant's rules are external: a flow
belongs to its unique id; an entry that is created ends the other flows of its unique id;
a flow that is ended in its read leaves an orphan, whose result nobody takes.
The `unknown` serial number, which two controllers may share, makes two candidates of
one device, and the action refuses (`ActionFindsDevice`). The user is looked up
between the choice and the edit, an await that does not suspend, so the choice is fresh
when the edit begins; one that waits for a lock while its entry is unloaded is a task of
the old coordinator in `Coordinator!Reload`.

Abstracted: layout and texts of the forms, the aborts of a user step with nothing in
reach, the input schema of the action, and every program's having the same editing
entities.

## Runs

| Run | Shows |
|---|---|
| `coordinator_safety` | `TypeOK`, `StatusTruthful`, `AvailableDataCurrent`, `VerifiedHolds`, `RefusedNeverWritten`, `OnlyEditsJudge` for two tasks of one coordinator, every request, all one-field edits of a two-field program |
| `coordinator_reload` | `OneSession`, `BackupBeforeOverwrite`, `BackupIsCurrent` for edits of two programs across a reload |
| `coordinator_refinement` | `ImplementsPromise`, `EditConcludes`, `RequestsReturn` for edits, starts and polls of one coordinator |
| `coordinator_old_edit` | `OldEditFinishesFirst` is **violated**, see below |
| `session` | `TypeOK`, `LoginTruthful`, `TrustedAnswersOwn`, `ResponseBounded`, `NothingRetained`, `SessionEnds` for the session of an edit with every fault |
| `session_repeat` | `RepeatsIgnored` is **violated**, see below |
| `schedule_edits` | `TypeOK`, `RepeatIsNoOp`, `OnlyNamedChange`, `StartsAsAsked` for one program with three slots, a visible and a hidden station, two weekdays, every entity and eleven calls of the action |
| `daily_sync` | `DailyTotalIsSet`, `VerifiedAsRead` for two programs, one of which the app may leave unreadable |
| `watering` | `TypeOK`, `RefreshOwed`, `ValvesTruthful`, `CommandsSeen` for two callers beside the poller |
| `startup` | `TypeOK`, `EntitiesWithData`, `PollingSurvives`, `StatusShownWhenAvailable`, `SignalNeverOlder`, `EntitiesAppear`, `SignalShownAtLast` for three platforms and two setups |
| `startup_status` | `StatusAlwaysShown` is **violated**, see below |
| `entries` | `TypeOK`, `FlowsReadUnconfigured`, `RunTimeAsAsked`, `ActionFindsDevice` for two flows and two controllers |

Bounds. Two tasks are enough for each pair of operations to interleave and for one to
wait while another holds a lock; `coordinator_old_edit` needs three (one edit in a
session, one behind it, one of the new coordinator). Tasks return to `idle` and call
again, so runs are unbounded sequences of calls. One reload (`Generations = 2`) gives
one old and one new coordinator; `coordinator_refinement` has none, and the proof covers
them. Two fields let an edit leave one alone, two letters
let backups of different programs meet; values are two. Tasks are interchangeable, so
the safety runs use symmetry; runs with liveness do not. In `Session`, four transactions
are the longest operation; two repeats reach every pair of neighbouring transactions;
`MaxResponse` is exactly the length of a Read All, so that an answer at the limit must
be accepted and one over it refused. In `schedule_edits`, three slots and three times
reach full, empty, unsorted and duplicate lists, and `{0, 8}` has a bit beside the
weekdays; `daily_sync` needs a second program, one weekday and one time, with the two
starts of a program left by the app.

In `watering`, a command's refresh can meet a second caller's command, edit or refresh
and the poller's; one station tells "waters" from "does not", which is all that a read
can get wrong. In `startup`, one platform has the two sensors and two have not, the
second setup begins with what the first left behind, and three times of advertisements
come in every order. In `entries`, two flows can offer or read the same controller, two
controllers can have the same serial number or different ones, one user may control
everything and one a part. `Session` stops when its session ends, and its runs do not
check for deadlock; the others do.

Fairness. `FairSpec` of Coordinator: each task that can go on does (`Progress`): the
event loop runs ready tasks, `asyncio.Lock` wakes a task it hands the lock to, and
each wait for the controller is ended by an answer, an error or a timer. Cancellation,
app edits, reloads and calls have no fairness. The one wait without a timer in the
code is the GATT write (`protocol.py:158`): that the Bluetooth stack ends it is an
assumption, in `Session` as fairness of `Receive`.

`FairSpec` of Watering adds strong fairness of `Poll`. The timer of the update interval
comes round each five minutes and the poll then waits its turn for the debouncer's lock,
where nobody overtakes it. A caller that cancels its refresh puts the timer off, though:
callers that do so for ever, each within five minutes of the last, are assumed away.

`FairSpec` of Startup: the platforms are set up, timers fire, reads and edits end, and
the cache is sampled. `ReadSucceeds` is strongly fair: a controller that is asked again
and again answers in the end, or no entity could be expected. Unloading, edits and
advertisements have no fairness, and `SignalShownAtLast` does not use the reads.

### What the three violations show

*An old edit is overtaken.* SCHEDULES.md:141 says that an in-flight edit finishes
before the new coordinator connects. An edit that holds a place in the session lock's
queue does. One that still waits for the old coordinator's operation lock, behind
another edit, has no such place: it asks for the session lock when the first edit is
over, behind the new coordinator's first read. It then writes after that read, and the
new coordinator shows the configuration before the edit, as available, until its next
poll. (`BackupBeforeOverwrite`, `VerifiedHolds` and the rest hold for the late edit.)

*A repeat across transactions.* Fragments repeated within 100 ms are dropped, but each
transaction resets the filter (`protocol.py:154`). A repeat of the last fragment that
arrives when the next transaction of the session has begun becomes the start of its
answer. The answer is then invalid and the session fails; after a write that means
`unverified` for an edit that was applied. `TrustedAnswersOwn` shows that it never goes
the other way: the repeat is not accepted as an answer.

*A status that stays.* SCHEDULES.md:25 says that the write status remains visible through
BLE failures and describes the last requested edit. When a poll has failed and an edit
follows, the sensor is told of `writing` (`coordinator.py:147`); when the edit fails too,
the coordinator reports `failed` or `unverified` through `async_set_update_error`, which
calls the listeners only after a success. The sensor goes on showing `writing`, until the
next read that succeeds. `StatusShownWhenAvailable` says what does hold.

## Proofs

Everything here holds for all constants that satisfy the modules' assumptions: any number
of tasks, reloads, programs, fields, platforms, setups, flows, controllers and users,
answers of any length, any number of start slots and stations. What is assumed:

| Assumption | Says | Because |
|---|---|---|
| `CoordinatorAssumption`, `NobodyIsNoTask` | requests and outcomes are told apart, no task is called `Nobody` | |
| `SessionAssumption` | of two successive answers of an operation one is a configuration, which takes more than one notification | the operations of `protocol.py:170-251` are a read, an edit and a command; a configuration has 1.7 kB |
| `FutureAssumption` | a result is not mistaken for a future without one | |
| `SchedulesAssumption`, `ScheduleEditsAssumption` | the disabled time comes after all others; initial programs are ones the integration can hold; the action's start times are a list | 65535 in `schedules.py`; `from_raw`; the schema in `services.py` |
| `WateringAssumption` | the poller is a task, no station is called like another request | |
| `StartupAssumption`, `EntriesAssumption` | the sensors' platform is a platform; addresses are finitely many, each controller has a PIN, and special values are told apart | |

| Module | Theorem | Property |
|---|---|---|
| `CoordinatorProofs` | `Invariance` | `[]IInv` |
| | `TypeCorrect` | `TypeOK` |
| | `SessionsExclude` | `OneSession` |
| | `BackupsPrecedeWrites` | `BackupBeforeOverwrite` |
| | `BackupsAreCurrent` | `BackupIsCurrent` |
| | `VerifiedEditsHold` | `VerifiedHolds` |
| | `RefusedEditsWroteNothing` | `RefusedNeverWritten` |
| | `StatusesTrue` | `StatusTruthful` |
| | `DataCurrent` | `AvailableDataCurrent` |
| | `EditsJudge` | `OnlyEditsJudge` |
| `RefinementProofs` | `PromiseKept` | `ImplementsPromise` |
| `SessionProofs` | `Invariance` | `[]IInv` |
| | `TypeCorrect` | `TypeOK` |
| | `LoginsAreTrue` | `LoginTruthful` |
| | `AnswersOwn` | `TrustedAnswersOwn` |
| | `ResponsesBounded` | `ResponseBounded` |
| | `NothingIsRetained` | `NothingRetained` |
| `ScheduleProofs` | `TypeCorrect` | `TypeOK` |
| | `OnlyNamedChanges` | `OnlyNamedChange` |
| | `StartsAreAsAsked` | `StartsAsAsked` |
| | `VerifiedAsWasRead` | `VerifiedAsRead` |
| | `RepeatsAreNoOps` | `RepeatIsNoOp` |
| | `DailyTotalsAreSet` | `DailyTotalIsSet` |
| `WateringProofs` | `Invariance` | `[]IInv` |
| | `TypeCorrect` | `TypeOK` |
| | `ReadOwed` | `RefreshOwed` |
| | `ValvesTrue` | `ValvesTruthful` |
| `StartupProofs` | `TypeCorrect` | `TypeOK` |
| | `EntitiesBuiltWithData` | `EntitiesWithData` |
| | `PollingGoesOn` | `PollingSurvives` |
| | `StatusIsShown` | `StatusShownWhenAvailable` |
| | `SignalGrows` | `SignalNeverOlder` |
| `EntriesProofs` | `TypeCorrect` | `TypeOK` |
| | `FlowsRead` | `FlowsReadUnconfigured` |
| | `RunTimesAsked` | `RunTimeAsAsked` |
| | `ActionFinds` | `ActionFindsDevice` |

*Coordinator.* The inductive invariant is `IInv == TypeOK /\ LockInv /\ EditInv`. Mutual
exclusion is not inductive alone: a waiting task enters when it becomes the owner, so one
has to know that owners and queues agree with program counters (`LockInv`). Nor is what an
edit writes: `EditInv` says what its frame knows at each point. Before the write,
`before` is what the controller holds, after it, what it held but for the edited
program; the loaded store is the current one between load and save; before the write
the store holds the program. All of these are stable because only the task in the
session changes `device` and `backups`, and only one is (`OthersKnow`). The proof has
one lemma per action; `FifoLockProofs` has the three lemmas about the lock they rest
on (what `Acquire`, `Release` and `Leave` do to owner and queue).

*What is reported.* The last part of `CoordinatorProofs` adds `SnapshotInv`, what a poll is about to publish is
what the controller holds, and `PublishedInv`, what is available is current. The latter is
weaker than `AvailableDataCurrent` where that is not inductive: from the arrival of its
write to its end an edit may leave the published data behind the controller, and it must
then withdraw or replace it (`Unsettled`). Steps are grouped by what they do to a
coordinator: go on in a session, go on outside, conclude, or change the world.

*Refinement.* Each step of a task changes the abstract state of its own edit alone
(`OthersShow`, `StepShows`); there is a lemma for each kind of step, which says to which
step of `ProgramEdits` it maps or that it stutters. `IInv` gives what the abstract guards
ask: `EditInv` that the store holds what is overwritten and that the controller holds what
is reported as verified, `LockInv` that no other edit is between write and verification
(`Isolation`). `IdleInv` says that a task without a call has no request.

*Session.* The answer an operation goes on from is the one to its request although the code
numbers nothing. The reason is the order of notifications, and `AirInv` says it: what may
still be under way of the answer before comes first and is its last part, because that
answer was only complete once all other parts had been taken (`Stale`, `Arrived`). Either
the answer before was a configuration, whose last part alone does not parse, or a
configuration is awaited, and a last part is none. So an answer that begins with a stray
part is not accepted (`MessageStep`, `DecodingLemma`), and one that is accepted is of this
turn alone (`AnswerInv`). `TurnInv` ties the turns of the task to those
of the controller, `LoginInv` what is under way to the verdict, `RetainInv` the futures and
the buffer to the awaits that look at them. None of this is inductive without the others.

*Schedules.* Three lemmas about operators carry the theorems. `SortedLemma`: the sorted
start times hold exactly the times given, in ascending order, with the disabled slots last;
it rests on the rank of an element of a finite set (`RankOrder`, `RankExists`).
`EnabledLemma`: the different times of a list that fits the slots fit them too, so that sorting
loses none. `OverwriteLemma`, `OverwriteTwice`, `FlaggedLemma`: merging fields or weekday flags
changes what is named, and a second time nothing. `EditedFields` says for each field what
an edit leaves in it, `EditedType` that the rules refuse what would be ill-formed, and
`EditedTwice` that an accepted edit is accepted again, `ReadableAfter` that its program can
be read back.

*Watering.* A read is owed to each command that returned (`RefreshOwed`), which is inductive
with the locks (`LockInv`) and two facts: a read that is about to be published came after
the last command, or the state is known to be dropped (`ReadInv`); and the valves show what
has been read, or are about to (`ShownInv`). The debouncer may drop a request because the
command that makes it has just held the session lock, so that a refresh that is running
waits for it and has not read (`OwnLocks`).

*Startup.* `ListenersInv` says which platforms are set up and listen in each state of the
entry, and with it that nobody is missing when the first read succeeds or a poll is
scheduled; `SignalInv` ties the signal sensor to the newest observation.

*Entries.* `FlowInv`: as long as a discovered flow is open, and while any flow reads, its
controller has no entry, because creating one ends the other flows of its controller.
`DeviceInv`: a coordinator that has read knows its controller's serial number, and the
registry has its entry under it. `FlowsRead` follows from the first, `ActionFinds` from the
second.

Each safety invariant and each action property of a passing run has its theorem.

Only model-checked: liveness (`EditConcludes`, `RequestsReturn`, `SessionEnds`,
`CommandsSeen`, `EntitiesAppear`, `SignalShownAtLast`), which is outside the prover's
reach, and the three violations, which are counterexamples. That
`json.loads` and the BLE stack behave as `Decodings` and `air` say is an abstraction,
neither checked nor proved.

## Not modelled

- `diagnostics.py` and the sensors of `sensor.py` other than signal and write status:
  projections of the snapshot, without state.
- `blueprints/`: a template that Home Assistant evaluates; the call it makes is
  `ScheduleEdits!SetProgram` with the daily guard.
- `tools/`, `captures/*/probe.py`: command-line programs apart from the integration.
- Home Assistant, Bleak and the controller's firmware, except as far as the code above
  relies on them.
- Two overlaps between modules: an orphaned read of a config flow, which has a lock of its
  own, beside the first session of the entry that was created; and entities that a read
  adds between the two steps of an unload.

## Plan

1. `Coordinator`, `ProgramEdits`, the refinement and their proofs: done.
2. `Session`, `Schedules`, `ScheduleEdits`, `Watering`, `Startup`, `Entries`: done.
3. Proofs of every safety invariant and action property the runs check: done.
4. Left: an abstract specification of what a session promises an operation (answers in the
   order of its requests, or an error), refined by `Session` and used by `Coordinator`, so
   that the step from one to the other is proved and not argued; and one of what valves
   show, refined by `Watering`.
