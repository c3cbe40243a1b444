# Formal models of yuleOSH

yuleOSH is a Python platform that drives AI-assisted embedded development
through a V-model pipeline and keeps the evidence for it. Most of its volume
is document transformation. Its control, the part where order, concurrency and
failure matter, is small and sits in a few components; these are modelled here
in TLA+, checked with TLC and, where it matters most, proved with TLAPS.

Paths below are relative to the repository; the Python package is
`src/yuleosh`.

## 1. Inventory

| Component | State it keeps | Operations | Hard part | What makes it correct |
|---|---|---|---|---|
| Checkpoint engine (`engine/checkpoint.py`) and control API (`api/pipeline.py`) | checkpoint row per pipeline, history row per run, stop flag file, `_ENGINE_OP_ACTIVE` | run in four modes (full, resume, inject, selected), stop, record, finish | threads, crash and resume, stop races, swallowed write errors | one operation per pipeline; completed means nothing is left; steps in turn; a stop is honoured; the slot comes back |
| Device pool (`device/`) | device and allocation rows, the allocator's lock, failure counts, TTLs | register, acquire, release, forced release, expire, scan, recover, remove | one transaction per call, stale reads, crashes, several managers | exclusive use; no device forgotten; seized only after consecutive failures |
| Orchestrator (`pipeline/orchestrator.py`, `session.py`) | session with steps, artifacts, errors, status; step cache | run, resume from a step, parallel groups, fallback, gates | concurrent steps, failure of one of several, order of writes | no step after a block; verdict of the session agrees with its steps |
| One-click job (`api/pipeline.py`) | job record, published checkpoint | start, publish progress, publish the outcome | shares the checkpoint row with the control operations | what is published is what ran |
| Loop engine (`loop_engine/`) | event store, dead-letter queue, dedup and rate windows, chain context | emit, process, retry, flush, recover, trigger chains | retry threads, worker, restart, duplicates | no event lost; processed once; chains end |
| Realtime bus and live feed (`realtime.py`, `api/events.py`, `llm/streaming.py`, the browser's store) | history ring, subscriber queue, connection, board and panel of the browser | publish, subscribe, replay, deliver, reconnect, poll, stream | bounded queues, broken connections, restarts, feed against poll | no gap between replay and live stream; one answer per panel; a finished run leaves the board |
| Audit log (`audit/model.py`) | hash-chained files | record, mirror, verify | file locks, day change, failing writers | the chain verifies |
| CI runner (`pipeline/async_runner.py`) | queue and status rows | submit, run stages | pool of threads | a run ends in a final status |
| Gates (`pipeline/gates.py`) | none | aggregate, classify | order of severities, overlays | monotone in its inputs |
| LLM client (`llm/client.py`, `llm/provider_fallback.py`) | the call, cost log, draft in the audit log | budget check, providers in turn, log, record | failing providers and writers, death between two records | what is recorded of a call is true; asked in turn; the call returns |
| Rate limiter (`api/ratelimit_shared.py`) | window rows | check | concurrent counters, window edges | never above the limit |
| Everything else | | | | see `components` in PROJECT.json with the reason for leaving it out |

Interactions: the HTTP API starts engine operations and one-click jobs in
threads of the server process; both write the same checkpoint row. The
orchestrator calls step handlers, which call the LLM client, the cross and
hardware layers and, for hardware tests, the device pool. A call of the model
streams its output to the realtime bus and records its draft in the audit log;
the orchestrator publishes its stages on the same bus, and the browser merges
them with a poll of the sessions. Step results feed the gates; the loop engine
reacts to results by events.

## 2. Plan

Done:

1. `CheckpointEngine` with its proofs.
2. `DevicePool`.
3. `Gates` and `Orchestrator`: run, parallel groups, cache, fallback, gates,
   resume from a step, the one-click job and what it shows on the board.
4. `LoopBus`: emission, retry, dead letters, worker, recovery.
5. `RealtimeBus` and `LiveFeed`: publication, connection, stream, poll.
6. `AuditLog` and `LlmCall`: providers in turn, records of a call, hash chain.
7. `EventDelivery`, the promise of the loop bus, which `LoopBus` implements.
8. Proofs about `LoopBus` and `LlmCall`.
9. Proofs about `DevicePool`, `Gates`, `Orchestrator` and `LiveFeed`, and what was left
   of `CheckpointEngine` and `LlmCall`: every safety property that a run checks
   is a theorem.

Next, in this order:

10. Abstract specifications: a lease service that `DevicePool` implements for
    one allocator, a task list that `CheckpointEngine` implements.
11. The chain rules (`loop_engine/chain.py`) as a module over an emission that
    nests: a chain ends, and what it visits twice.
12. Rate limiter and CI runner.

Modules compose by `EXTENDS`: `Orchestrator` extends `Gates` and applies its
operators to a session, `LiveFeed` extends `RealtimeBus` (its runs are the
publishers, and every action of the bus is one conjunct of an action of the
feed), `LlmCall` extends `AuditLog` in the same way, and `LoopBus` instantiates
`EventDelivery`. Checkpoint engine and orchestrator meet in the code only
in the checkpoint row of the board (`api/pipeline.py:222`): `Orchestrator` says
what the job writes there, `CheckpointEngine` lets it write any such row at any
time.

## 3. Modules

### CheckpointEngine

A *run* is the background thread of one accepted control request. `disk` is
the sqlite row of a pipeline, `mem` the engine's `_state`, `hist` the history
row, `flag` the stop file, `active` the slot table of the API. A step has the
five statuses of `StepStatus`; names, outputs, times and tokens are abstracted
away, a step id is its index and `UnknownStep` any id that is not registered.
Actions follow the thread: `Accept` (test and set under `_ENGINE_OP_LOCK`),
`RecordRun`, `ClearStop`, `Load` and `Prepare` (one disjunct per mode), then per step
`CheckBoundary` (the flag is read), `StepStart` (RUNNING and its save), `StepPass`
or `StepFail`, and `StopAtBoundary`, `StopClear`, `Finalize`, `Report` or
`ReportRaised`, `Release`. `RequestStop` is the stop request and may come between
any two of these, `Crash` a restart of the server. What fails: a write that
`_save_state_sqlite` logs and swallows (`Save`), the connection, which is opened
outside the `try` and raises out of `run` (`StoreRaises`), the removal of the
flag file (`Unflag`), the start of the thread (`StartFails`).

The one-click job writes the same row without the slot: `Publish` puts any row
of `JobRows` at any time, in one pipeline (`JobPipeline`), and `job` marks a row
whose status word is the job's. What the job is doing is the module
`Orchestrator`. Two history variables serve the properties: `told` (when a stop
reached the run) and `crossed` (the job wrote the row since the run's own last
write). Not part of the module: the JSON back end, throttling of requests.

`checkpoint_ops` runs two operations on one pipeline of three steps, with all
requests, one restart, one failure and one row of the job. Three steps are the
least with a step before, at and after the interesting one; two operations are
enough for every hand-over through the row, and what one pipeline does to another
is the stop flag only. `checkpoint_crash_resume` shows what a restart in the
middle of a step does: see findings. Fairness is weak fairness of every thread:
the scheduler runs threads and handlers return (they have timeouts); nobody needs
to send requests. `SlotReturns` is about operations whose thread was started:
see the deviations for the others.

### DevicePool

`dev` and `alloc` are the two tables, `lock` the allocator's mutex. A task is one
acquire ... release with its own allocation. Every registry call is its own sqlite
transaction, so `BeginAcquire`, `Expire`, `CheckExpired`, `FreeExpired`, `Choose`,
`CreateAllocation`, `MarkBusy` are separate steps under the lock, and `Finish`,
`FindAllocation`, `CheckOwn`, `EndOwn`, `ReturnDevice` separate steps outside it:
`release_allocation` looks again (`CheckOwn`) and then updates without a condition
(`EndOwn`). The watchdog lists rows once (`ListDevices`), probes them in any order
(`ProbeAlive`, `ProbeDead`), finds and ends the allocation (`FindSeized`,
`SeizeAllocation`) and marks the row (`MarkDead`); its counts are in memory and go
with its process (`WatchdogDies`). Time is `TtlPasses`, which may happen to any
active allocation. `AddDevice` registers a device ("new" until then; a deleted row
is "absent" and its id is not used again), `BeginForced`, `FindForced`,
`CheckForced`, `EndForced` are the operator's `device release` without `--job`,
`PutOnline` is the last call of that and of `device add --online`, and `Recover`
is `watchdog.recover`, which asks for no state. Events, names, platforms are
abstracted: `Wants` says which devices match.

`device_tasks`: three tasks, one device (devices meet only in the lock and in the
scan list), one crash, registration, one forced release. A forced release takes a
device from a task that does not know, and another task may then get it:
`ExclusiveUse` is stated without one, and `BusyIsHeld` with it as long as no task
overruns its TTL: with both, a device can stay BUSY with nobody (see the
deviations). `TakenComesBack` is about the finally branch of the pool: in a
behaviour without crash, forced release and overrun every device that a task takes
is given back by that task, whose function returns or raises. `LeaseEnds` is about
the others, tasks that hang or die: their device comes back by the TTL as long as
anybody asks for one; its exceptions are the ways to lose it that the deviations
list. `device_watchdog`: one task against the watchdog, the operator (who may also
remove the device, and recovers it when they like) and a board that is unplugged
twice; thresholds are the code's 2 and 3. Counters are capped at the threshold.
Fairness: threads that acquire or release are scheduled, the scan is repeated, a
command once begun is carried out, time passes; a task's function (`Finish`) need
not return.

`device_two_allocators` gives two tasks allocators of their own, as two command
line calls or two HIL steps have, and finds the double assignment.

### Gates and Orchestrator

`Gates` has no state. `Overlay` corrects the recorded status of a step by the
artifact found for it, `Worst` folds the statuses of a gate by severity,
`Blocking` and `Outcome` give green, unverified or red. Artifacts are records:
what they say and whether they name the session of the run.

`Orchestrator` is one run at a time of one project. The main thread is `stage`
and `at`: `SkipStep`, `Launch` (a step, or a parallel group at once, or in
serial mode its members in turn), `Join`, `Advance`, `Conclude`, `Classify`,
`Publish`. A step executes in a thread of its own (`th`): `CacheHit` or `Begin`,
then the handler, whose outcome is free (`HandlerReturns`, `HandlerRaises`
answered by the template, `HandlerFails`), `Complete`, `Judge`. `saved` is
session.json, and every action writes it where the code does; in particular
`Begin` saves before the final report declares the run completed, `Judge` does
not save unless the step is the final report, and `Classify` saves the verdict
of a run that has not failed only. `Start` models `--from-step` with the
artifacts taken over from the previous session, under the same or another
name. `Abort`, `SaveFails` and `Crash` are the faults; session.json is written
whole or not at all. Left out: constraints of
agents, the contents of artifacts, notifications, the digests of the gates, the
computation of the profile (a constant), two jobs at once. The assumptions on
the constants are those of the code's tables: parallel groups are disjoint
(`orchestrator.py:52`), the final report is the last step, in no group and not
reusable (`step_cache.py:67`), and an artifact that is text can only say
"skipped" or nothing (`gates.py:426`).

`orchestrator_run` has one step of every kind (five): a cached one and an advisory
one in a parallel group, one with a gate partner outside the group, a blocking
one, the final report; two profiles, both modes, two runs and one fault. Two runs
are what resuming and stale artifacts need; handlers have the outcomes their gate
tells apart; the artifact of the review names no session (`Unsigned`), so it is
never stale. Every save may fail (`SaveFails`), and so may the run at a point
outside the handlers (`Abort`); the save of the verdict is swallowed by the code,
and the run returns all the same. `LateRaise` is off there: a handler that raises
after it wrote its artifact is a deviation listed below. Fairness: the main loop
and the threads are scheduled, handlers return because model calls and tools have
timeouts; nobody has to start a run. `orchestrator_green` and `orchestrator_board`
check one statement of the repository each.

### LoopBus

An event is its event_id; `what` its content, from which the dedup key is
computed. `pc` is where `_emit_event` is with it, in a caller's or a worker's
thread: `Reject` (source or rate), `Deduplicate` (test and set under the lock),
`SaveEvent`, `Match` (the handlers subscribed at that moment, kept in `matched`; with
none the emission is over), a call of each in order, `MarkProcessed` and
`Unpend` (the two files of `mark_processed`, under its lock). A failing
handler either goes to the dead letters or gets a retry thread. All threads of an
event share a counter without a lock: it is read to be compared with the limit
(`Budget`), read again to be incremented (`Load`) and written (`Bump`), three steps
between which other threads take theirs, so it can pass the limit. `EmitAsync` and
`StartWorker` are separate, so two workers may run. `WorkerTakes` gives the content a
new event, as the worker calls `emit`.

`pending` and `processed` are the files. `Fault` is a failing operation on them: a
read that fails is taken for an empty file (`Readings`), a write that fails leaves
the file as it was, and nobody is told; `marked` is what the process believes it
has marked, and the history `astray` is what should have been in the pending file
and is not. `Restart` is a crash and the constructor of the next process: what was
in memory is gone, subscriptions too (`subs`, `Subscribe`, `Unsubscribe`), and the
constructor starts the worker for the recovered events before `Build` ends it. An
emission that comes before that dies (`Founder`), as `_coalescing` is not assigned
yet. `RecoverNow` is the manual recovery. The module describes the bus with
persistence enabled; the shipped singleton has it off, which leaves the same
actions without `pending` and `processed`. `dead` is a history of the dead
letters: the code's queue is cut at 5000, which is not reached. Handlers are
numbered in the order they are called in (`priority_filter`). Left out: chain
rules, coalescing, one-shot subscriptions, the store, the command line.

`loop_bus`: one content, two handlers, one emission and its recovery, two events, two
retries, three failing calls, one fault of the files. Three failures exhaust
one event and leave none to spare, so a dead letter, a late success and an
increment past the limit all occur; the second event is the redelivery, or the
second of a manual recovery beside the first, so that both meet in the window, in
the files and in the worker. Fairness: some thread of worker, emissions and
retries that can go on does, and handlers return or raise. `RecoveredIsEmitted`
needs no fairness of emitters or of recovery: it speaks of what is on disk, and
after a restart the worker is there; if no handler is subscribed yet the
emission ends without a call, and the event stays in the file.
`loop_bus_redelivery` is the finding.

`EventDelivery` is what the bus promises, without threads, counters, queues or
processes: an event that is accepted is addressed to its audience, once, and owed
to it until each handler has handled it; a handler handles an event once or it is
a dead letter of that handler, never both; a restart changes nothing of this. Only
a fault of the store loses an event that is owed, and the loss is then on its
account (`lost`, `faults`). The refinement mapping takes `owed` from the pending
file, `lost` from `astray`, `audience` from the handlers found, `delivered` from
the calls that succeeded and `letters` from the dead letters; threads, retry
counters, windows and the worker have no counterpart, so the steps that only touch
these stutter. It says in one formula what a retry thread, the emitting thread, a
crash between the two files of `mark_processed` and a failed write may do to each
other. A content that comes back after a restart is a new event of both
specifications; `NoRedelivery` is about that and fails.

### RealtimeBus and LiveFeed

`RealtimeBus` is one browser on the stream: `publish` in three steps
(`MakeEvent` takes the number, `Record` joins history and list of subscribers in
one critical section, `Enqueue` puts outside of it), the connection
(`Subscribe`, `ReadHistory`, `Replay` one event at a time, `Open`, `Deliver`)
and what ends it (`Disconnect`, `Reboot`). What the server has written and the
browser has not handled counts as queued, so a loss takes both. `since` survives
a restart of the server, the numbers do not, as in the code.

`LiveFeed` adds who publishes and who listens. A run (`phase`) creates its
session, begins stages, ends and publishes `run_done`, or it is a run of the
command line, which only leaves its session. One run streams: `StreamStart`,
`Buffer` and `Chunk` (the coalescer), `CloseFlush`, `CloseDone`, `CloseSilent`; an
attempt per provider. The browser's store is `board`, `previous` and the answer of
a poll on its way; `PollReads` and `PollApplies` are separate, since the answer
may be applied after what the feed said meanwhile. `Applied` is `applyDelta` of
the panel. Two history variables say when the feed itself has lost what a property
needs: `missed` (the end of a run was never told, or before its start) and
`resetLost` (the numbers of reset frames that were lost and that no later reset
has made good). The frames of a stream are published as ephemeral events, which
never enter the history (`realtime.py:345`): `FramesAssumption`. Left out: topics
and projects (one feed, all events), the fields of a run, several browsers,
heartbeats.

`live_feed`: one run, which streams up to two calls of two attempts and two
deltas each, five events, a queue and a history of two, one lost connection
or restart. A queue of two overflows within an answer and within a replay; a
history of two forgets; five numbers are the two ends, their starts and a frame,
or an answer of two attempts. Runs meet only in the numbers and in the queue, where a
second one takes the place of the events of the first; what the theorems say is
for any number of them. Fairness: a thread in `publish` runs on and a run
that has ended tells it, the handler and the browser's timers run, the browser
reconnects (`onerror` sets a timer) and polls recur, of which not every one
fails. Runs need not end and the network does what it wants. A run whose
session ends by an unexpected exception stays `created` and is not claimed to
leave the board.

### AuditLog and LlmCall

`AuditLog` is `record`: `Record` fixes file and day, `TakeLock`, `ReadAnchor`
and `WriteLine` are the locked part, `Mirror` the copy of a tenant's event to the
global log, `Abandon` an exception or the death of the process at any step, and
`Midnight` changes the day under everybody. Hashes are numbers that do not
collide; a line is written whole or not at all. `ReadAnchor` may miss files it
cannot read (`_last_hash` swallows that) and then takes an older hash; the history
`misread` has the logs this happened to. Threads and processes are the
same thing here, as the lock is a lock of the file.

`LlmCall` is `LLMClient.call`: `Begin` (configuration and budget), the chain
(`SkipProvider`, `Answer`, `Fail` by what `is_fallback_eligible` makes of it), the
vote, which leaves the answer or puts a variant's text in its place (`KeepAnswer`,
`ReplaceAnswer`), `LogCost`, `RecordDraft`, whose record then goes through the steps of
`AuditLog`, and `Return`; `Die` ends the caller anywhere. `Resolved` is
`resolve_fallback_order` with an order of the user. Other writers of the log
(`Others`) compete with it. Left out: retrieval and memory, prices, the variants
of a vote, which are calls of their own.

`llm_call`: one caller with two calls, one other writer of the global log or a
tenant's, two days, a real provider that the order names twice, and mock. The
caller and the other writer are the two that can interleave in the lock; the
second day is the one a fork needs; the order tests that nobody is asked twice.
After `MaxRecords` records (one) the other writer is silent; its event may come
before, between and after those of the calls. Fairness: a request ends,
by its timeout if not otherwise, and threads that hold or wait for a lock run
on; nobody need begin a call. `ChainVerifies` leaves out three kinds of log that
the code does fork, and `ProvenanceIsTrue` the texts a vote put in, see the
deviations.

## 4. Runs

| Run | Bounds | Shows |
|---|---|---|
| `checkpoint_ops` | 2 operations, 1 pipeline, 3 steps, 1 crash, 1 failed access, 1 row of the one-click job | one operation at a time, completed means nothing left, steps in turn, own history, late stop, the slot returns |
| `checkpoint_crash_resume` | 2 operations, 2 steps, 1 crash | violated: a completed pipeline with a step still running |
| `device_tasks` | 3 tasks, 1 device, 1 allocator, 1 crash, 1 forced release | exclusive use, busy is held, what is taken comes back, by the task or by its TTL |
| `device_watchdog` | 1 task, 1 device, thresholds 2 and 3, 2 unplugs, 1 crash, 1 forced release | seized after consecutive failures only, fault stays, dead boards are noticed, offline heals |
| `device_two_allocators` | 2 tasks, 2 allocators | violated: one device, two tasks |
| `orchestrator_run` | 5 steps, 3 gates, 2 runs, 1 fault | green is earned, a stop is a stop, failed stays, files agree with memory, the job ends |
| `orchestrator_green` | one profile without step 2 | violated: green without a step of a gate |
| `orchestrator_board` | one run | violated: a failed run shown as completed |
| `loop_bus` | 1 emission, 2 events, 2 handlers, 2 retries, 3 failures, 1 recovery, 1 fault of the files | nothing forgotten or dropped, marked means handled, what is recovered is emitted; the bus implements `EventDelivery` |
| `loop_bus_redelivery` | 1 emission, 2 events | violated: a handled event is delivered again |
| `live_feed` | 1 run, 5 events, queue and history of 2, 2 calls, 2 attempts, 2 deltas, 1 loss | no gap between replay and live stream, one answer in the panel, a finished run leaves the board |
| `llm_call` | 1 caller, 1 other writer, 2 calls, 2 days, 1 tenant, 2 providers, 1 record of others | the chain verifies, records of calls are true, providers asked in turn, calls return |

Deadlock is not checked in `device_tasks`, `device_two_allocators` and the
orchestrator, bus, feed and model call runs: their tasks, jobs, events and calls
are bounded, and the system then rests. It is checked in the checkpoint runs and in
`device_watchdog`.

## 5. Findings

Each is a run that ends in a counterexample to a statement of the repository;
PROJECT.json quotes the statement.

1. `CompletedMeansSettled`: resume looks for PENDING and FAILED records; a step
   that a crash left RUNNING is passed over (`engine/checkpoint.py:360`).
2. `ExclusiveUse`: the lock that makes an assignment atomic belongs to the
   Allocator object, and every DeviceManager has its own
   (`device/allocator.py:53`).
3. `GreenMeansEveryStepRan`: steps a profile or the diff planner removed do
   not count as not run (`pipeline/gates.py:178`).
4. `BoardTellsOutcome`: a run that stops at a failing step is published as
   completed, its unreached steps as passed (`api/pipeline.py:355`).
5. `NoRedelivery`: a success on retry marks nothing
   (`loop_engine/event_bus.py:2191`).

### Deviations without a run

Met while reading, not expressed as a run of their own:

- Checkpoint: a stop accepted before the thread's `clear_stop` is erased
  (`checkpoint.py:259`); one accepted between the boundary check and RUNNING lets
  that step begin (`:504`, `:512`), which `LateStopHonoured` allows; all pipelines
  of a project share the flag (`:219`); if `t.start()` raises, the slot that was
  set is never given back (`api/pipeline.py:801`); the one-click job overwrites
  the row of a control operation in progress, whose history row may then tell the
  job's outcome (`:733`), which is why `HistoryIsOwn` is about rows the job did
  not write since; the in-line branch ignores a result that says failed (`:571`);
  after selected, a failure and resume, a stop leaves nothing to resume (`:213`,
  `:372`); the history row of a crashed run stays running.
- Devices: the watchdog writes back states it listed before probing, so a device
  assigned meanwhile is ONLINE again and loses its `current_job`
  (`watchdog.py:130`); a release that races the expiry of its allocation returns a
  device that has been reassigned (`allocator.py:180`); a crash between ending the
  allocation and writing the device leaves it BUSY without one (`:177`); a forced
  release that is slow puts a device ONLINE that somebody else has acquired since
  (`:180`); after such a late return by a task whose allocation has expired, a
  third task can acquire the device of the second, and when a forced release then
  ends the third's allocation before the device is marked, the third finds the
  second's allocation and leaves, the second's expires and names another job than
  the row: the device stays BUSY with nobody (`:180`); when a process dies between
  the creation of an allocation and BUSY, the next task to get the device finds,
  at its release, the dead one's allocation for it, is refused, and the device
  waits for a TTL; two active allocations of one device, which a forced release or
  an overrun can leave behind, do the same to both tasks; a recover of the
  operator (`watchdog.py:189`) pops the count and writes the row in two steps, the
  scan may come between; release and assignment overwrite FAULT; `remove_device`
  checks and deletes in two transactions (`registry.py:193`); no thread sweeps
  expired allocations, only the next acquire does (`allocator.py:107`).
- Orchestrator: the template that answers a handler's exception is stored in the
  cache if the step is reusable, and reusable steps are exempt from the downgrade
  for a missing artifact; a handler that wrote a failed artifact and then raised
  is neither blocked nor seen by the gates, as the overlay reads skipped and
  `passed: false` only; the answer "block" for a cached output is ignored
  (`orchestrator.py:1247`); `--from-step` counts in the filtered list while
  artifacts are restored by the order of all steps, and it is not checked
  (`cli/main.py:254`): beyond the last registered step every step is skipped and
  the run ends `created`, although the end of `run` is written as if it could not
  (`orchestrator.py:738`); a crash leaves session.json `created`, or torn, as it
  is written in place (`session.py:294`); a save of the verdict that fails is only
  logged; the cache would keep an output with the verdict "incomplete"
  (`step_cache.py:93`), which no caller asks for today; two one-click jobs race on
  `OSH_HOME` (`api/pipeline.py:344`).
- Loop bus: the constructor starts the worker for recovered events
  (`event_bus.py:1419`) before it assigns `_coalescing` (`:1430`), so the first
  emission of a quick worker dies with an AttributeError and its event stays in
  the file; nor can anybody have subscribed, and an emission without a subscriber
  is over (`:1696`); errors of `_save_pending`, `_load_pending` and
  `_save_processed_ids` are swallowed, so an event is emitted that is in no file,
  or a file that could not be read is emptied by the next write (`:1093`);
  `retry_count` can pass `max_retries`, as it is read twice (`:1721`, `:1722`),
  which no property forbids; two workers at once are kept apart by the dedup
  window only; `_save_pending` truncates before it writes, so a crash in between
  loses all pending events (`:1090`); `emit_async` persists nothing before the
  worker takes the event; an event without a subscriber or in a coalescing window
  stays pending for good; a recovered signed event is emitted unsigned and
  rejected where signatures are required, and chain events, said to skip
  validation, do not; `loop dead-letter retry` emits in a process in which nobody
  subscribes and removes the letters (`loop_engine/cli.py:407`).
- Live feed: a full queue drops the newest event, where the docstring of the
  module says the oldest (`realtime.py:21`); `replay_history` puts old events
  behind live ones, so `run_done` may be handled before `stage_start` and the run
  stays on the board, and after another loss the smaller numbers are not asked for
  again (`realtime.py:160`); the replay ends at the first full queue, before
  anything empties it; numbers begin at 1 after a restart while the browser keeps
  its own, so it asks for nothing of the new history; a run the feed lost and no
  poll ever listed stays on the board; `session.json` is rewritten in place, and a
  poll that reads it torn takes the run off; the partial output of a provider that
  failed stays in the panel when the next one does not stream; votes run several
  emitters with the same key at once (`llm/anchoring.py:330`).
- Audit log: a writer that chose yesterday's file before midnight appends there
  under that file's lock while others anchor on today's (`audit/model.py:300`);
  the copy of a tenant's event carries the hash of the tenant's chain, so the
  global log no longer verifies; `verify` of a window begins with an empty hash
  and reports an intact log as broken when the window does not reach its
  beginning; a newest file that cannot be read, or whose last line is damaged, is
  passed over for the anchor without a word, and the next line forks the chain
  (`audit/model.py:466`).
- Model calls: a vote replaces the content (`llm/client.py:604`), while cost log
  and draft, written after it, name the provider of the answer that was replaced
  (`:622`, `:629`); variants inherit neither the budget nor the order of fallback;
  a call that its budget ends returns without any record; an error of mock is the
  answer of the call.

## 6. Proofs

Every invariant and action property that a passing run checks is a theorem, and
so is the refinement of `EventDelivery`. The proofs need the assumptions on the
constants that the modules name, which TLC evaluates in every run, and nothing
else, except where a theorem states a hypothesis of its own.

None of the properties is inductive. Each proof has an invariant in layers; a
layer is proved from the ones before it, by one lemma with a step per action,
and a property follows from the layers it needs.

`CheckpointEngine_proofs`, for every number of steps, pipelines, runs, requests,
restarts and lost writes, from `NAssumption`, `RequestsAssumption` (an injection
names one step, as `inject_at` does, `checkpoint.py:242`) and
`BoundsAssumption`:

- `TypeCorrect`, by one lemma per kind of step.
- `OneOperation`: never two operations on one pipeline. `Accept` tests the slot
  table, not the threads; `SlotInv` adds that a live thread holds its slot.
- `CompletedIsDone` and `StepsInTurn`, both from `WorkInv`: a run not yet
  finalized is not completed in memory, and every pending or failed step it knows
  is in its work list, so an empty list leaves nothing.
- `HistoryTellsOwn`: the history row of a run tells its own outcome. `report`
  reads the row on disk, which `RowInv` shows to be the checkpoint of the run as
  long as no access failed and the job has not written since: another run would
  need the slot.
- `LateStop`, with one pipeline per project, from `StopSeen`: once the step is
  over whose boundary check a stop came too late for, the stop is still in the
  flag. Otherwise it is false (another pipeline clears the shared flag), which is
  why this is a hypothesis.

`DevicePool_proofs`, for every set of devices, tasks and allocators:

- `TypeCorrect`, with the handles: whatever allocation or device a task, a command
  or the watchdog is about to write exists (`TaskHandles`, `OtherHandles`).
- `SeizedOnlyAfterFailures`: `WatchInv` says that a count is of failures since the
  last success, that a listed row was in service when it was listed, and that
  a mark was earned, although the watchdog holds no lock.
- `FaultIsKept`: only operators, and tasks or commands that decided earlier, take
  a device out of FAULT.
- `DevicesAreExclusive` and `BusyIsNeverForgotten`, with the hypothesis `OnePool`:
  tasks share one allocator, jobs have ids of their own and there is no watchdog.
  This is how the threads of one manager run. With two allocators the first is
  false (finding 2), with a watchdog it is too (see the deviations). `ExclusiveInv`
  keeps the handles of tasks apart from the choice of a device to its return, not
  only while it is used, and needs that what an expiry frees is nobody's.
  `CoveredInv` and `KeptInv` say what covers a BUSY device without and with forced
  releases.

`Gates_proofs`, for every table of gates, from the definitions alone:

- `GreenIsFailClosed`: behind green every hard gate not declared inapplicable has a
  registered step, and none of its registered steps gives cause to worry. What it
  cannot say is that all steps were registered (finding 3).
- `WorseIsNotGreener`: no step gets a run to green by becoming more severe. Gates
  declared inapplicable are kept out, since it is false for them: not-run is more
  severe than a warning, but only not-run and skipped are excused
  (`gates.py:695`).

`Orchestrator_proofs`, for every list of steps, groups, profiles, reusable steps,
outcomes and any number of runs and faults, from `StepsAssumption`,
`RunsAssumption`, `NoneAssumption` (None is a value of its own) and `GatesAssumption`:

- `TypeCorrect`, with what a save may take from the session directory.
- `ResultIsFinal`, `NothingStartsAfterBlock`: `ThreadInv` says that threads live
  only while the main thread waits for them, that they are of one group, and that
  in the loop nothing has blocked yet.
- `FailureIsKept` and `CompletedMeansEnded`: `WalkInv` and `LifeInv` follow the
  loop and each step; `CacheInv` keeps failures out of the cache; `ReportInv` says
  that the final report, the last step and in no group, begins only behind the end
  of every other step, so that declaring the run completed overwrites no failure;
  `DiskInv` says the same of session.json.
- `ReturnedIsSaved`, with the hypothesis `FromWithin`: `--from-step` lies within the
  registered steps. The code does not check it, and the property fails beyond
  (see the deviations).
- `GreenNeedsEvidence`, with the hypothesis `~LateRaise`: a handler that raises has
  written nothing. Otherwise the template that answers the exception stands beside
  an artifact of the run (see the deviations). `EvidenceInv` traces the output of
  each step to the run, a previous session or the cache. `OnlyEarlierTakenOver`
  follows from it too; the property names `LateRaise` itself.

`LoopBus_proofs`, for every set of contents and handlers and every bound,
from `BusAssumption`:

- `TypeCorrect`. It claims no bound for the counter that threads share; there is
  none in the code.
- `ProcessedSafety`, `NothingForgottenSafety`, `FailureSafety`: `EventInv` says of
  one event what disk, dead letters, retries and history agree on at each place
  its threads can be, e.g. that an event whose emission is between the two files
  of `mark_processed` has every handler behind it, and that a handler the emission
  has not reached is neither handled nor buried (`AheadIsOpen`). Handlers are
  called in order, so what is ahead and behind is a comparison with `at`
  (`MinIsLeast`, by well-foundedness of the naturals). A step touches the event of
  its thread only (`OthersSame`, `OwnStep`), except a restart and a recovery,
  which have lemmas of their own.
- `Implementation`: the bus implements `EventDelivery`; each step is one of its
  steps or stutters (`StepDelivers`), by the same invariant.

`LiveFeed_proofs`, for any number of runs, calls, attempts, deltas, losses and any
sizes of queue and history, from `BusAssumption`, `LiveFeedAssumption` and
`FramesAssumption`, for a bus that carries the events of the feed:

- `TypeCorrect`, with the hypothesis `FeedBodies \subseteq Bodies` (the parameter
  of the bus admits what the feed publishes; the run takes them equal).
- `NothingInTheGap`: `GapInv` says of every persistent event of the history where it
  is: handled, queued, to be replayed, dropped by a full queue, or with a publisher
  that already knows the subscription and will put it.
- `PanelShowsOneAnswer`: `OrderInv` keeps the frames of the stream, in the queue and
  with its publisher, in the order of their numbers. `AnswerInv` says that each of
  them goes on where the one before it ended, or a reset frame lies between, that
  the first one does so for the text in the panel, and the buffer of the emitter
  for the last. A frame that is lost leaves a gap in the text and breaks nothing; a
  reset that is lost does until a later one arrives. `Later` is a recursive
  function; what it returns is shown by a least counterexample (`LaterIs`).

`LlmCall_proofs`, for all sets of callers, other writers, tenants and providers,
any order of fallback and all bounds, from `CallAssumption`, `BodiesAssumption`
(the audit log admits drafts and events without one) and `AuditAssumption`:

- `TypeCorrect`.
- `ChainSafety`: logs verify, with the exceptions the property names. The
  invariant adds that nothing is dated in the future (`Dated`), that who is past
  `TakeLock` holds the lock of its file (`Locked`) and that who has read the
  anchor of today's file, and could read the files, still has the newest hash
  (`Anchored`). `ChainGrows` is the step: a line behind the newest hash in the
  newest file extends the chain.
- `ProvenanceSafety`: a draft stands for an answer that was given and names the
  provider of the text unless a vote put the text there, there is one per call,
  and the cost log says the same. The invariant follows a call through its steps:
  what a vote may have replaced (`VotedOn`), no record before its time (`NotYet`,
  `OnlyPast`), one answer per call, and a draft that a caller has on its way is
  its own and not yet in the log (`DraftInv`).
- `AskingInTurn`: providers are asked in the order of the chain, each once, none
  that was to be skipped, and there is always a next one. It rests on what the
  chain is for every order a user may write (`ChainExists`, `ChainIsGood`: no
  provider twice, the primary first, mock last), by a least counterexample, and on
  `WalkInv`, where a call is in its chain.

Some statements were wrong as first written, although the runs passed, and the
attempt to prove them showed it. `BusyIsHeld` did not hold with four tasks when a
forced release meets an expiry. `PanelIsOneAnswer` took a lost reset to be made
good by any later frame of a reset, also one sent before it; the history variable
is a set of numbers now. `AskedInTurn` allowed a primary that was to be skipped
to be asked at the first place. `HistoryIsOwn` needs an injection to name one
step.

tlapm 1.4.5 hands z3 two things that are not true of TLA+, and a leaf that meets
one of them may be accepted without being proved. An `EXCEPT` with two paths into one
function is translated as if the paths were of different arguments: the modules
write `[@ EXCEPT ...]` instead. And the axioms for `Len` and `<<>>` take every function
for a sequence, so a function on `0..m` beside a sequence is a contradiction: the
two recursive functions that are proved about (`Later`, `Resolved`) are unfolded in
lemmas that know nothing of sequences (`PartsUnfold`, `ChainUnfold` and those after
them). The other leaves were tried with FALSE for their goal and a short time limit;
only those inside an impossible case prove it.

Only model-checked: liveness (`SlotReturns`, `TakenComesBack`, `DeadIsNoticed`,
`LeaseEnds`, `OfflineHeals`, `JobEnds`, `RecoveredIsEmitted`, `BoardSettles`,
`EveryCallReturns`), since the prover does neither fairness nor `ENABLED`. The
findings are counterexamples and need no proof.

## 7. Not modelled

Step handlers, generators, knowledge stores, report and evidence assembly, user
interface, front ends and hardware drivers transform documents or drive external
tools; a handler or a probe is an outcome the environment chooses. The
asynchronous CI runner and the rate limiter have control of their own and are in
the plan. Availability levels and health probes of the LLM layer are loops around
requests whose outcome `LlmCall` leaves free, and so are the variants of a vote.
Of the loop engine, the chain rules are in the plan; coalescing windows are never
switched on by anything in the repository. PROJECT.json names every component with
the reason.
