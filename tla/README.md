# TLA+ verification of DiscoClaw

DiscoClaw is a Discord bot that runs AI runtimes for its users: it answers
messages, runs scheduled automations ("crons"), mirrors a task list into forum
threads, and drives plans and voice. This directory models the parts of it
where concurrency, crashes and retries decide whether it is correct, checks the
models with TLC on small instances, and proves the central invariants with
TLAPS for instances of every size. Source paths are relative to `src/` of the
repository; `cron/executor.ts` is `src/src/cron/executor.ts` in
`PROJECT.json`.

How to run: `tlc -config MCKeyedQueue.cfg MCKeyedQueue.tla` (and likewise for
the other configurations), `tlapm SessionProofs.tla` (and the other
`*Proofs` modules).

## 1. Inventory

The program is one Node.js process: within it everything between two `await`s
is atomic, and the hard behaviours come from what may happen at each `await`
(other handlers, timers, Discord events), from the death of the process, and
from a second process that was started by mistake or by a service manager.

| Component (source) | State it keeps | Operations | Talks to | Hard behaviour | What makes it correct |
|---|---|---|---|---|---|
| Keyed queues (`group-queue.ts`, `tasks/task-lifecycle.ts`, `discord/durable-write-queue.ts`) | a map key -> tail promise | `run(key, fn)` | every message session, task thread, memory file | calls that reject, arrive during clean-up | one at a time per key, in order, no leaked entry, all served |
| Directory locks (`cron/job-lock.ts`, `pidlock.ts`) | a directory with `meta.json` on disk | acquire, release | executor, start-up | crash at any call, stale owner, reused pid, rival takeovers | one live holder, stale locks recovered |
| Cron executor (`cron/executor.ts`, `cron/run-control.ts`) | running flag per job object, active and queued keys, cancelers | tick, lock, run, chain, cancel, clean-up, rerun | scheduler, stats, locks, runtime, Discord | overlapping ticks, replaced jobs, cancels, chains | one run per cron, a cancel stops its run, every run leaves its guards, cascades end |
| Cron scheduler and job lifecycle (`cron/scheduler.ts`, `cron/forum-sync.ts`, `discord/actions-crons.ts`) | job table with timers; the forum threads | create, update, pause, resume, delete, load, archive, unarchive | stats, executor, Discord events | handlers that overlap at their awaits, restart | job, record and thread agree; a pause holds |
| Cron run stats (`cron/run-stats.ts`) | records in memory, a file, a write mutex, three indexes | upsert, record run, sweep, remove, load | all of the cron subsystem | queued writes, failed flush, crash | the file is the memory when at rest; no wedged queue |
| Task sync coordinator (`tasks/sync-coordinator.ts`, `tasks/sync-coordinator-retries.ts`) | syncing flag, pending poster, two retry timers | `sync`, timers | sync engine, in-flight registry | coalescing, failing runs, deferred closes | no request, poster or deferred close lost; retries end |
| Tasks and their threads (`tasks/store.ts`, `tasks/task-action-*.ts`, `tasks/task-sync-*.ts`, `tasks/thread-*.ts`) | tasks in memory, JSONL on disk, forum threads | create, update, close, reload, five-phase sync | lifecycle queue, Discord | snapshot against later changes, lost answers, crash before a write | one thread per task, a closed task's thread archived |
| Runtime limits, pools and supervision (`runtime/concurrency-limit.ts`, `runtime/process-pool.ts`, `runtime/long-running-process.ts`, `runtime/cli-adapter.ts`, `runtime/global-supervisor.ts`) | a semaphore, a process table, a process's turn queue, cycle counters | acquire, spawn, send, evict, fall back, retry, abort, kill all | every invocation of a model | hangs, exits, late output, eviction, early stop | limit kept, a turn hears its own answer, every invocation ends |
| Messages, reactions, in-flight replies (`discord/message-coordinator.ts`, `discord/reaction-handler.ts`, `discord/inflight-replies.ts`, `discord/long-run-watchdog.ts`) | pending buffers, the registry, `inflight.json`, runs | batch, answer, follow up, dispose, drain, clean up | keyed queue, Discord, start and shutdown | crash or shutdown at any step of a reply | no reply left unfinished and untold, no mark overwritten |
| Plans (`discord/plan-manager.ts`, `discord/plan-commands.ts`, `discord/actions-plan.ts`, `discord/forge-plan-registry.ts`) | plan and phases files, the git tree, a writer lock | run, phase, retry, fix loop, skip, regenerate, close | runtime, git, messages | minutes-long phases under other commands, user edits, crash | dependencies first, records stand, the user's work is kept |
| Forge (`discord/forge-commands.ts`) | the draft of a plan | draft, audit, revise, cancel | runtimes, plans | cancel, a budget of rounds | ends, and leaves a plan a human can continue |
| Defer and loop schedulers (`discord/defer-scheduler.ts`, ...) | timers, failure counts | schedule, tick, cancel | actions | cancel during a tick | limits, no tick after cancel |
| Streaming display (`discord/streaming-progress.ts`, ...) | display state of one reply | events, tick | Discord edits | late edits | last edit wins |
| Durable memory (`discord/durable-memory.ts`) | a file per user | read-modify-write | keyed queue | interleaving | serialised by the queue |
| Cron sync, runtime adapters, cron parsing, pipeline, voice, webhooks, bootstrap, cold storage | see `components` in `PROJECT.json` | | | | |

Interactions that matter here: the executor takes a directory lock per run and
reports to the stats store; chained jobs hand state through the stats store and
start each other; the scheduler's job objects are replaced under a run by
updates and reloads; every task thread operation goes through the lifecycle
queue, except two of the sync's phases; the sync coordinator asks the in-flight
registry whether a thread may be closed; every invocation passes the semaphore,
the supervisor and the pool; a message session's turns are served one at a time
by its keyed queue; a plan's run and the plan commands meet at the writer lock.

## 2. Modules

| Module | Models | Checked by | Proved by |
|---|---|---|---|
| `FifoLock` | what a keyed queue promises: a FIFO lock per key | as the specification `KeyedQueue` implements | |
| `KeyedQueue` | the promise chain of `group-queue.ts` | `MCKeyedQueue` | `SessionProofs` |
| `DirLock` | the directory lock, one file-system call per step | `MCDirLock` | `DirLockProofs` |
| `CronExecutor` | `executeCronJob`, `fireChainedJobs`, run control, job objects | `MCCronExecutor` | `CronExecutorProofs` |
| `CronLifecycle` | threads, scheduler, cron actions, stats file | `MCCronLifecycle` | `CronLifecycleProofs` |
| `SyncCoordinator` | the task sync coordinator and its retries | `MCSyncCoordinator` | `SyncCoordinatorProofs` |
| `TaskSync` | task store, task actions, the five-phase sync, threads | `MCTaskSync` | `TaskSyncProofs` |
| `Slots` | what a concurrency limit promises: slots in order of arrival | as the specification `Limiter` implements | |
| `Limiter` | the semaphore of `concurrency-limit.ts` | through `TurnPool`, which extends it | `TurnPoolProofs` |
| `TurnPool` | an invocation: limit, supervisor, pool, process, one-shot | `MCTurnPool` | `TurnPoolProofs` |
| `Replies` | a session's turns and their replies, shutdown, restart | `MCReplies` | `SessionProofs` |
| `PlanRun` | plan phases, their runner, the commands around it | `MCPlanRun` | `PlanRunProofs` |

In all of them one action is the code between two `await`s; a model's step
names are places where the code awaits.

### KeyedQueue
`tails` is the map, `prev[c]` the promise call `c` awaits, `stage[c]` where the
call is. `Enqueue` is `run()` up to its first await, `Start` the continuation
after the predecessor, `Finish` the `finally` block (resolve, then delete the
entry if it is still the call's own). `ticket` and `clock` record the order of
arrival. The task lifecycle lock is the same protocol in function form.

### DirLock
`exists`, `meta`, `tmps`, `young` are the directory, its `meta.json`, its
temporary files and whether its mtime is within the grace period; `pc` and
`seen` are the locals of `acquireCronLock` and `releaseCronLock`. A recursive
removal is two steps (the entries, then the directory, which fails with
ENOTEMPTY when an entry appeared meanwhile), since that is what Node does.
Processes die at any step; a later incarnation may have the pid of an earlier
one. `misjudged` records that a takeover removed a directory it had not found
stale. `pidlock.ts` is the same protocol. Left out are its conversion of a
legacy lock file and the fallback of its release (`pidlock.ts:192-195`), which
removes a lock by pid alone when the process holds no token: the program's only
call (`src/index.ts:343`) is made by a process that has acquired the lock and
so has its token. File-system calls fail here where the state of the disk makes
them fail, and in no other way.

### CronExecutor
`current` and `generation` are the scheduler's job objects, `running` their
flags, `activeKeys`, `queuedKeys`, `canceler`, `lock`, `status` the executor's
tables; `act[r]` are the locals of one activation; `todo[r]` is what is left of
the `fireChainedJobs` loops that slot `r` started. The steps of an activation
follow the function from the lock to the rerun. Abstracted: prompt, runtime
output and Discord text, of which only success, failure and whether a record is
written matter. `FailLock` is enabled even when the lock is free: the file
system may refuse. `ReleaseLock` frees the lock or leaves it as `Leftover`, a
directory of a live process that nobody releases; the guards are cleared all
the same, as the `catch` at `executor.ts:637-639` has it. Taking the lock is
one atomic step: this module is the executor's half of the argument, and the
takeovers that err in `DirLock` (`misjudged`) are excluded here.

Writes to the stats store may fail where the code goes on after a failure, and
`Upsert` creates a record that was removed since it was read, without its chain
(`recorded`, `chained`). A `cronDelete` cancels and unregisters in one step,
and its record goes in another, behind the writes that wait (`removing`);
after a restart a deleted cron may be back, when its thread was not archived.
`stopped` is the history of runs that a `cronPause` or a `cronDelete` found
before their end, whether the canceler table led to them or not. Each of the
hand-offs in `todo` is fetched, sent and launched in steps of their own. The
loops of activations that used one slot one after the other run in that order;
with two slots this leaves out only interleavings of two loops of one slot. The
`__upstream` state a chained job finds is left out; its loss is described in
section 5.

### CronLifecycle
`thread` is what the bot was last told of the thread, `job` the scheduler's
timer, `rec` and `disk` the `disabled` flag in memory and in the file, `writes`
the write mutex with the write being flushed at its head. The in-memory part of
a write happens when the mutex takes it up; the flush rewrites the whole store
with a temporary file and a rename, so a crash leaves the old or the new file.
When a flush ends, the mutex starts the next write before the code awaiting the
finished one goes on, which is why `FlushDone` is one step. `handler` holds the
handlers that are between two awaits: loading a thread (`parse`, `save`),
`cronUpdate` (`edit`), `ensureStatusMessage` (`post`), `cronDelete` (`remove`,
`archive`). `held` is the record object the loader read before its write, which
it looks at again afterwards, even if the record has left the store.

Two history variables say what a cron may be excused for. `excuse` is
`raced` when a handler that decides about the job (load, update, delete)
overlapped another operation on the same cron, when a loader's write failed, or
when a paused cron's definition was changed; it is `refused` after a thread
that could not be loaded. `paused` are the acknowledged pauses that nothing
revoked.

Left out: manually created threads (the bot rejects them), a stored author
losing permission, tags and prompt messages, and the executor's own writes,
which do not touch the flag. A thread without a stored definition is loaded
through `Reload` after a start.

### SyncCoordinator
`phase`, `poster`, `pending`, `sawDeferral`, `plan` are the coordinator and its
run; `failureRetry` and `closeRetry` the two timers; `toClose` and `busy` the
tasks whose thread is to be closed and those with a reply in flight. A run is
reduced to what decides the rest: `Snapshot` reads the store, `Attempt` closes,
gives up on or defers one thread, and the run ends by `Succeed`, `MissForum` or
`Fail`. Nearly nothing throws out of `runTaskSync`, so `Fail` stands for the
coordinator's catch branch whatever reaches it. `RetryEnabled = FALSE` would
lose the deferred-close retry when a run fails (the code clears it there and
sets nothing); closes given up with a warning are never retried.

### TaskSync
`store` and `disk` are the task map and its JSONL file, `owner`, `archived` and
`shown` the forum's threads, `queue` the lifecycle lock per task. `act[a]` is
the task action a message turn executes; `phase`, `snap`, `todo`, `cur`, `seen`
and `found` are the locals of a sync run. `Persist` is the chained write of the
store, which writes what is in memory when it runs; `Reload` and `Crash` take
the file back. Phases 1, 3 and 4 take the task's lock and read the task again
(`Latest`); `Block` (phase 2) and `Phase5Applies` do neither, as in the code:
phase 5 goes by what it planned (`found`), the thread's state at that time
included. The file is rewritten in place, so a reload or a crash may meet a
part of it (`HalfWritten`). A Discord call may fail, or a thread may be created
although the answer is lost (`CreateThread`). `closeTaskThread` swallows every
failure: the thread that cannot be fetched, the rename, the archiving
(`CloseThread`), and before it a thread that cannot be fetched counts as closed
(`ReconcileClosed`). `excused` is the history of tasks whose thread is not
expected to be archived: closed by `taskUpdate` (which unarchives), or refused
unseen. When a run starts is `SyncCoordinator`'s subject; here one starts
whenever it is `due`.
Left out: threads made by users and the forum guard's answer, `skipPhase5`, a
file cut in the middle of a line (a reload that meets it fails, and so does a
start), writes of the file that fail, tags and starter messages.

### Slots, Limiter and TurnPool
`Limiter` is the semaphore: `active`, `waiting` and one release closure per
permit; `Slots` says without counts what it is to do, and `KeepsLimit` is the
refinement. `TurnPool` extends it with the rest of an invocation's way:
`inv[i]` is where the generator of invocation `i` stands and what the
supervisor counted; `pool` the processes in the map and `older` the order in
which they were put there, which the map's insertion order gives the code and
which an eviction follows; `procs[p]` a `LongRunningProcess` with its current
turn, its turn queue and the prompts its subprocess has not answered (`work`);
`shots[i]` the one-shot attempt. The subprocess is the environment: it answers
in order, hangs, overflows or exits. A consumer may stop at any event (`Cut`):
the supervisor at its event limit, or because its `rawEventTap` threw, or a
caller without a supervisor that breaks off the iteration. `left` is the
history of a process made idle that way while its subprocess still answered. An
exception counts as a failure that may be retried, which is what the
classification does with one it does not know; the others end like a hard
failure. A supervised caller gets the events when its turn is over, so that its
stopping leaves nothing open.
Left out: launcher-state retry, the session resume map, the wall-time limit,
the `plan_phase` profile, stall against progress, images, usage, telemetry. A
one-shot spawned after `killAllSubprocesses` is possible in both.

### Replies
`line` are the calls of `queue.run` of a session, `buffer` its
`pendingMessages`, `turn[m]` the locals of the handler of event `m`. A reply is
an event and a follow-up depth; `shown` is what the channel shows of it and
`flight` the edits on their way, which Discord applies in order or refuses.
`registry`, `queue` and `file` are the in-flight registry, its persist queue
and `inflight.json`; `runs` the watchdog's store; `boot` and `stop` how far
start-up and shutdown are. `After` is the order of the catch blocks and the
safety net. An error the runtime reports is shown in a reaction's reply by an
edit that counts as the final one whatever becomes of it (`RuntimeError`).
`lost` are the replies that nothing will settle any more, each
added where the code gives up on it; `unlisted` those whose entry the clean-up
unlinked.
Left out: streamed previews, edits that time out, stop reactions and aborts by
the user, threads that became archived (50083), notices of finished runs, the
shutdown context, pending channels, failing disk writes.

### PlanRun
`plan` is the plan file (status, and a version of what each phase is made of),
`phases` the phases file with the `planContentHash` it was made from; `head`,
`index` and `work` are the last commit, git's index and the working tree, as
sets of authors per file. `run[r]` is a call that may start a run: its place,
its phase, the copy of the phases file it took, the snapshot before the phase.
`StartCommand` registers the plan before it waits for the lock, `StartAction`
validates without the lock and registers afterwards, as the two callers do.
`Choose` to `Commit` are `runNextPhase`: mark, revert a failed attempt's files,
execute (or audit and fix), record, commit. Every git command may fail; a
commit takes the whole index, and a failed one is followed by `git reset`. A
throw may leave the fix agents' edits in the tree; on the action's path a throw
skips the closing (`SkipClose`). `Outside` are the plan commands, the user's
edits and staging, and the crash. `precious` and `staged` are the history of
what the user changed between phases, and of what the user staged.
Left out: projects without git, targets that are refused, the convergence
message, codex's exempted error, git commands of the agents, the backing task,
the order of the lock's waiters, and forge, which makes the plans.

## 3. Runs

| Run | Instance | Shows |
|---|---|---|
| `keyed_queue` | 5 calls, 3 on one key and 2 on another | exclusion, every call served; refinement of `FifoLock` (order) |
| `dir_lock` | 3 processes, 2 pids, 3 callers | exclusion as long as no takeover errs; a dead owner's lock is recovered |
| `cron_executor` | 2 crons chained to one another, limit 1, 2 slots, 2 ticks, 2 job objects, 2 control actions or restarts (514,000 states) | one run at a time, status is true, cancel stops the run it meant, every run leaves its guards, cascades end but for reruns |
| `cron_skipped` | the same without control actions | **violated**: an overlapping tick leads to another run (finding 1) |
| `cron_lifecycle` | 1 cron, 2 handlers, 5 operations, 1 failed flush, 1 restart | record, job, thread and file agree; an acknowledged pause holds; every handler ends |
| `sync_coordinator` | 2 tasks, 2 posters, 3 requests, 1 failure, 2 replies, 1 missed forum | no request, poster or deferred close lost; syncs come to rest |
| `task_sync` | 1 task, 2 turns, 2 threads, 3 actions or restarts, 1 fault, 1 reply (322,000 states) | one thread per task, the right one; a closed task's thread is archived |
| `turn_pool` | 3 invocations (2 of one session, 1 supervised), limit 2, pool of 1, 2 cycles, 2 events, 1 interrupt (1,129,000 states) | the semaphore implements `Slots`; a turn hears its own answer; every invocation ends; no process runs outside the pool |
| `replies` | a message and a reaction of one session, 1 follow-up each, 2 troubles (317,000 states) | the file follows the registry; a mark stands; no placeholder is forgotten |
| `command_batched` | 3 messages, the last a command | **violated**: a command answered as a prompt (finding 2) |
| `plan_run` | 1 implementation phase and the audit, 2 files, a command and an action, 2 troubles (973,000 states) | dependencies first, the user's work kept and committed only if staged, records stand, every run ends |
| `plan_retry` | 1 implementation phase and the audit, 1 trouble | **violated**: a phase done but not committed (finding 3) |

Every property of a passing run has a mutant in its module: a version of one
mapped definition with a plausible bug, under which TLC finds the property
violated. They stand directly above the definition they change and are used by
no specification.

### Bounds, and why they are enough
- Keyed queue: three calls on one key are the fewest in which a call queues
  behind one that queues itself, and in which the map entry of a finished call
  may belong to a later one. The second key shows independence.
- Directory lock: a dead owner and two rivals need three callers; pid reuse
  needs a third incarnation with an old pid. Callers repeat without bound.
- Executor: `MaxFires` counts ticks; two are one that runs and one that
  overlaps, and chained runs and reruns come on top without a bound of their
  own. Two crons that lead to one another are the smallest cycle: the chain of
  a cron is checked for cycles (`discord/actions-crons.ts:450`) before the
  awaits that end in its write (`:535`), so two `cronUpdate`s that overlap can
  leave one; with the limit at 1 the first downstream run is the last.
  `MaxTroubles` counts replaced job objects, pauses, deletes and restarts; two
  pair any of them. `Managed` names the cron they touch; its two job objects
  (`MaxGeneration`) give one replacement under a run. Two slots allow two
  activations of one cron at once, which is what exclusion is about; a tick
  that finds no free slot is not taken, so more than two concurrent activations
  (more than two crons of a cascade at once) are not explored by TLC; the
  proofs have no such bound.
- Lifecycle: an interesting history needs a creation, a pause or an archive, a
  load and one operation that overlaps it, and one more to see the effect; one
  failed write and one restart can fall anywhere. One cron is enough for the
  properties, which relate the state of a single cron; other crons only make
  the write queue longer, which the cron's own writes do as well.
- Coordinator: two tasks let one close be deferred while another goes through;
  three requests are one running, one coalesced, and one coalesced on top of it.
- Tasks: the properties are about one task; others only make a run longer. Two
  threads are what a second one needs to exist; three actions are a creation, a
  close and one that interferes, and a crash or reload counts as one. One fault
  falls on any Discord call, the lost answer included.
- Turns: two sessions compete for a pool of one (eviction), two invocations of
  one session for its process, three for a limit of two. The supervised one may
  retry once and hear two events, so that the event limit strikes with an answer
  outstanding.
- Replies: one reply of each kind with a follow-up; two troubles are, for
  instance, a shutdown and a refused edit, or a crash during the clean-up that
  follows a crash. `command_batched` needs three messages and no trouble.
- Plans: the implementation phase is a dependency, the audit its dependent, and
  a failed one is retried by the other call. A command and an action meet at
  the registration. Two troubles pair any two of: a failure, a throw, a stop, a
  failing git command, a user's edit, its staging, a command, a change of the
  plan, a crash. Two files are one of the phase and one of the user: a staged
  file goes into the commit of another. Longer chains of phases are left to the
  theorems, which hold for every number of them.

### Fairness
Weak fairness only, and only for steps the program takes by itself:
continuations after an await (promises settle, file-system and Discord calls
return, the runtime and the parser have timeouts), timers, the mutex's drain,
and the end of a reply in flight. A release is fair only while its process
lives. Ticks, requests, arrivals, user actions, events, crashes and failures
are the environment's choice and have no fairness. In `dir_lock` a caller that
was turned away tries again, because a cron ticks again; `StaleLockRecovered`
is about processes that keep trying and holds vacuously once all have died.
`CascadeEnds` has the reruns that never end as an alternative: no fairness
rules them out where chains form a cycle. `TurnPool`, `Replies` and `PlanRun`
have one weak fairness condition each, on the disjunction of all the steps
program, subprocess and Discord take by themselves: something possible happens,
and with the bounds on what the environment may do that is enough for every run
to come to its end. In `Replies` it includes `Boot`: the service manager
restarts the program after a failure (`Restart=on-failure`), an operator after
a stop. A turn of `Replies` ends because invocations do (`TurnPool`'s
`EveryInvocationEnds`); a sync of `TaskSync` that is due starts because
`SyncCoordinator`'s syncs come to rest.

## 4. Proofs

All theorems hold for every value of the constants that satisfies the modules'
named assumptions (null values differ from real ones, bounds are naturals,
`Chain` is a function into sequences, `Managed` a set of crons). Bounds are
constants like the others, so the theorems hold for all of them.

- **SessionProofs**, for what serves a session: `KeyedQueue` and `Replies`. The
  invariant of the queue (`ChainInvariant`) says that the pending calls of a
  key form one chain: each waits for the latest one before it, nobody waits for
  a call that is done and has released its key, and the map entry is the end of
  the chain. `MutualExclusion` is not inductive alone: it needs that no two
  calls wait for the same predecessor. From it follow `KeyMutualExclusion`,
  `NoLeakedEntry`, and `ImplementsFifoLock`: each step of the promise chain is
  a step of `FifoLock` or leaves its variables unchanged. Of `Replies`,
  `BasicInvariant` says that the registry holds the current replies of the
  turns that will dispose of them, that a turn which awaits an edit has that
  edit on its way, and that nothing refers to a reply that was never sent.
  `FileFollows` needs to say what `inflight.json` will be when the queued
  operations have been done (`Listed`: the last word about a reply is an
  `add`), since a step can rarely tell from the file alone. `MarkStands`:
  before the drain no reply has the shutdown's mark, and after it nothing is
  asked behind a mark but marks and deletes. `WaitingOwned` says how a
  placeholder may still be one: a live turn has yet to settle it, a mark is on
  its way, the next start will find it in the file, or it is one of the known
  losses of section 5. It is what `InterruptedIsTold` can promise without time:
  the run shows that the owner acts, the theorem that there always is one.
- **CronExecutorProofs.** `RunInvariant` ties the tables together: every
  activation between lock and clean-up is the one `lock`, `canceler`,
  `activeKeys` and `running` name for its cron, and every entry of theirs has
  such an activation, but for locks that are left over. `OneRun` and
  `GuardsConsistent` follow. `DepthBounded` has its own invariant, about the
  depths of activations and of the hand-offs still in `todo`; it holds for
  cyclic chains too: what these can do is run without end (section 5), not
  deep. `StatusIsTrue`: of the writes of a record only the start of a run says
  running, and every way out of a run writes an end before the activation goes.
  `CancelHolds`: a run that a pause or a delete found before its end carries
  the cancel (`StoppedInv`). That rests on `RunInvariant`: the cancel is handed
  to whoever the table names, and the table names that run, whatever other
  activations registered, skipped and cleared before.
- **CronLifecycleProofs.** `TypeCorrect` needs that only the write at the head
  of the queue can be empty, and contains that a live record object held by a
  loader is in the store. `FileIsMemory` strengthens `DiskIsMemory` by the case
  of an empty write at the head: it leaves memory and file alike. `PauseHeld`
  follows a pause through the write queue (`PauseInv`): a write a handler
  awaits is its only one and of its cron; a queued pause is met by no handler
  that could arm the job, unless the history notes it, and an armed job means a
  later resume is queued; once the pause is on disk every queued write of the
  cron leaves the record disabled, one handler at most decides about it, and
  the job is armed only while a load is still to look at the flag.
  `SettledAgree` compares the job not with the record but with what the queued
  writes will make of it (`Becomes`: the last write that does not just keep the
  record decides, and a kept record that is missing is created). `Consistent`
  says that the two agree unless a loader or a removal is under way, `Orderly`
  what each handler in the middle of its operation has done so far; both hold
  for as long as the operations on the cron have not overlapped. The proof
  found two CASE expressions of the model with overlapping guards, of which
  TLC had taken the first; they are now IF expressions.
- **SyncCoordinatorProofs.** `NoRequestLost`, `PosterSurvives` (an action
  property), and `DeferredNeverForgotten` through `DeferralInvariant`: a
  deferred close is seen by the run that deferred it, or one of the timers is
  set, or another run or follow-up is due. The last two assume `RetryEnabled`.
- **TaskSyncProofs.** `OneThread`, for any number of tasks, threads and turns.
  `TaskInvariant` says who may act on a thread: an action or a phase of the
  sync between its lookup and its use of the result is the one that holds the
  task's lock, so the result is still true when it is used; and whatever refers
  to a thread (memory, file, a lookup's result) refers to the one
  thread its task owns. The phases without the lock never create a thread, and
  phase 5 stores a reference only to the thread it found under the task's name.
  What a half-written file gives back is a part of the memory, so its references
  are the memory's.
- **DirLockProofs.** `OneHolderUnlessMisjudged`, for any number of processes,
  callers and pids. The invariant says that the directory at the path is its
  maker's: whoever is engaged with the lock made it, and the token in it, if
  any, is the maker's. A takeover that does not err either saw no metadata, and
  then the maker is not engaged, or saw the maker's, judged it dead, and the
  dead do not come back. `TokenOnDisk`: until such a takeover a holder's token
  stays on disk, although no run lists that property.
- **TurnPoolProofs.** The semaphore's count is the number of holders, and it is
  full whenever somebody waits; so `Limiter` implements `Slots`
  (`SemaphoreKeepsLimit`) and at most `Max` invocations hold a permit
  (`AtMostMax`), in whatever invocations do with it (`TurnsKeepLimit`).
  `PoolHoldsTheLiving` and `TurnsHearTheirOwnAnswer` share `SessionInv`: the
  pool holds exactly the processes alive, one per session and at most
  `MaxProcesses`; an invocation that waits for a turn is the current turn of a
  process of its session; and a process whose turn was not cut short owes
  answers to nobody but its current turn, and none once that turn has ended.
  The pool is a set with an order because of these proofs: a sequence makes
  every step an argument about positions, while all an eviction needs to know
  is which process was put there first.
- **PlanRunProofs.** A run writes the phases from the copy it took minutes
  before. `PlanInvariant` says why that is safe: whoever has such a copy holds
  the lock; the copy has every final record of the disk; the phase carried out
  was free to start, by the copy, and still is by the disk. From it
  `PhasesInOrder`, and `RecordKept`, an action property, for any number of
  phases, files, calls and troubles. `UserWorkStands` rests on `UserInv`: phases
  start in order, so a failed phase is the only one in progress and its
  retry alone may revert files; the hash taken after the failure tells the
  user's later work from the phase's (`Reverts`); and what a run will revert,
  commit or roll back leaves out every file with work of the user that is not
  staged (`Exposed`, `Spares`). Staged work survives a checkout, which takes
  the file from the index: what is committed is staged, and what is staged is
  in the tree (`Nested`), after a failed commit and its `git reset` as well.

Theorems without a run of their own property: `NoLeakedEntry` (the queue's map
has an entry exactly for keys with pending calls), `GuardsConsistent` (the
executor's guards agree, but for a lock whose release failed), `DepthBounded`
(chains never run deeper than the limit, cyclic ones too),
`DeferredNeverForgotten`, `TokenOnDisk`, and `WaitingOwned` (no placeholder
without somebody who will settle it).

Only model-checked: the liveness properties, which are out of the prover's
reach. Every safety property of a passing run is a theorem.

## 5. Findings

With a run that shows them:

1. `cron/executor.ts:174` (run `cron_skipped`): a tick that fires while a run of
   its cron is active is queued, and the end of that run starts another one
   (`:635`, `:657-664`). docs/cron.md:209, .context/discord.md:135 and
   docs/cron-patterns.md:748 say that the tick is skipped.
2. `discord/message-coordinator.ts:1589` (run `command_batched`): a call takes
   what is first in its session's buffer, but looks for a command in its own
   message only. A command that another call takes is sent to the model as a
   prompt and never carried out, though README.md:108 says that commands bypass
   batching.
3. `discord/plan-manager.ts:2178` (run `plan_retry`): the snapshot of changed
   files is taken before a retry reverts the failed attempt's files; what the
   retry writes to the same files counts as unmodified, and nothing is
   committed (docs/plan-architecture.md:174-178).

Seen while modelling, without a run of their own. Locks and crons:
- `pidlock.ts:131-139`, `cron/job-lock.ts:110-116`: a lock that cannot be
  examined counts as stale, and what is at its path is removed; if its owner
  released and another caller acquired in between, that caller's lock is
  removed and two hold it. `DirLock` has this as `misjudged`.
- `cron/executor.ts:637-639`: a lock that fails to be removed stays, owned by a
  live process, and no later run of that cron gets it: the cron is silent until
  the process restarts. The failure is logged once; each tick after it is
  logged as a failed acquisition.
- `cron/executor.ts:635`: the queued rerun is consumed before the lock is
  released and the running flag cleared. A tick in between is logged as queued;
  nobody fires it.
- `discord/actions-crons.ts:704`: a pause or a delete cancels the run and leaves
  its queued rerun, which starts all the same.
- `cron/executor.ts:657-663`: a queued rerun keeps the chain depth, so two jobs
  chained to each other can go on for ever, below the depth limit that
  docs/cron.md:153 says prevents runaway cascades; `CascadeEnds` has these
  reruns as its alternative. Chains are checked for cycles before the awaits
  that end in their write (`discord/actions-crons.ts:450` and `:535`), so two
  updates that overlap can close one.
- `cron/executor.ts:430`: a run's `<cron-state>` replaces the whole state, and
  with it an `__upstream` that arrived during the run.
- `cron/forum-sync.ts:392`: archiving persists `disabled: true` and unarchiving
  restores it, while docs/cron.md:11 and :19 say that unarchiving resumes the
  job.
- `cronUpdate` arms a paused cron (`discord/actions-crons.ts:517`) and leaves
  its record disabled; loading, updating and status posting in flight bring a
  deleted cron's job or record back; a load overwrites a pause whose write is
  queued ahead of its own, and leaves a paused cron armed when its write fails.
  `CronLifecycle` excuses exactly these.
- docs/cron.md:20 says a deleted thread's stats are cleaned up on the next
  start; they are removed at once, and a thread deleted while the program is
  down keeps its record.

Tasks:
- `tasks/sync-coordinator.ts:103-107`: a sync that cannot find the forum returns
  an ordinary result and cancels the pending retry of a deferred close.
- `tasks/store.ts:170` rewrites the file in place: a reload that reads it in the
  middle of a write drops the tasks it does not see, and the next write makes
  the loss final; so does a crash in the middle of a write.
- Phase 5 archives the thread of a task that was reopened during the run; the
  next sync or update repairs it.
- .context/dev.md:298-299 says that store events trigger a sync; nothing
  subscribes. docs/tasks.md:34 describes a bidirectional sync that has no
  direction from thread to task.

Invocations:
- `runtime/long-running-process.ts:329`: a turn whose consumer stops early makes
  the process idle while its subprocess still answers; the next turn hears the
  rest (`HearsOwnAnswer` excuses it by `left`).
- `runtime/cli-adapter.ts:202` removes the pool's process by key after a
  failure, by then perhaps the busy process of another invocation.

Replies (`lost` and `unlisted` in the model):
- A shutdown right after a start clears `inflight.json` with the entries an
  earlier process left (`discord/inflight-replies.ts:199-203`).
- The clean-up at start can mark a reply of the new process as restarted, and
  its unlink drops entries registered meanwhile.
- A crash between a placeholder and its registration leaves it for ever, for
  reactions (`discord/reaction-handler.ts:249`, registered at 559) and
  follow-ups, which have no watchdog run of their own.
- The drain may overwrite a final answer that is being edited; a follow-up that
  cannot be sent makes the catch block overwrite the old, answered reply; a
  suppressed follow-up is deleted even after the drain.
- Messages that wait in memory at a crash are lost without a notice.

Plans:
- A crash between "done" and the commit leaves the phase's changes uncommitted.
- `discord/plan-manager.ts:2503-2505`: `git commit` without a pathspec commits
  whatever the user has staged as the phase's work, though
  docs/plan-architecture.md:177 says that the runner stages only files the
  phase modified; `UserWorkKept` has staged work as its exception (`staged`).
  After a failed commit `git reset` also unstages what the user had staged.
- A plan closed while a run waits for the lock, and regenerated, has its phases
  run although it is closed: only the hash is checked there.
- A user's edit during a phase is the phase's to the runner: committed, reverted
  by a retry, or rolled back by the audit's fix loop.
- Two runs of one plan can be registered (`discord/actions-plan.ts:336-353`);
  the first to end deregisters both. The action may write the phases file, and
  approve and close the plan file, without the lock that
  `discord/plan-commands.ts:250` says callers must hold.
- A phase in progress at a crash is resumed without the retry's safety check.

## 6. What is not modelled

Text (prompts, parsing, formatting, redaction, Discord rendering), the wire
formats of model providers, audio, HTTP servers, images, databases, health
checks and configuration: they keep little state of their own and are better
served by tests. They are also most of the program by size, so the models
cover a small share of its lines. Forge, the defer and loop schedulers, the
streaming display, the pipeline engine and the abort registry have protocols
and are in the plan. What is left out of a modelled component is named in its
section above; the list with reasons is `components` in `PROJECT.json`.

## 7. Plan

Done: everything in the table of section 2.

Next, in this order:

1. Forge (`discord/forge-commands.ts`): draft, audit and revise rounds, cancel
   and resume, the plan left behind; composed with `PlanRun` at the writer lock.
2. Defer and loop schedulers with the depth limit of deferred runs, and the
   shutdown that cancels their timers while a handler may still schedule more
   (`discord/defer-scheduler.ts`, `src/index.ts:296`).
3. The abort registry and streaming display as part of `Replies`.
4. Proofs: for the liveness properties, the safety half of each, as
   `WaitingOwned` is for `InterruptedIsTold`: whenever something is still to
   come, some step that brings it nearer is not ruled out.

Modules to be proved about use no recursive operators; their parameters are
constants with named assumptions, and their invariants conjunctions of named
parts. Small related components share a run where that asks one question, so
that the number of runs stays that of the questions.
