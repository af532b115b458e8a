---------------------------- MODULE CronExecutor ----------------------------
(***************************************************************************)
(* executeCronJob and fireChainedJobs of src/src/cron/executor.ts with the  *)
(* scheduler's job table, CronRunControl, the per-cron lock and the run     *)
(* status kept by CronRunStats.  One action is the code between two awaits. *)
(* The lock is taken in one step; what this module adds to the argument of   *)
(* DirLock is the executor's part, and the takeovers that err there          *)
(* (misjudged) are left out here.                                           *)
(***************************************************************************)
EXTENDS Naturals, Sequences

CONSTANTS
  Cron,           \* cron ids, each with its forum thread: the run keys
  Run,            \* slots for the activations of executeCronJob alive together
  NoRun,          \* no activation
  Leftover,       \* the directory of a lock whose release failed
  Chain,          \* [Cron -> Seq(Cron)]: the chain field of each record
  MaxChainDepth,  \* MAX_CHAIN_DEPTH
  Managed,        \* bound: the crons the control actions touch
  MaxGeneration,  \* bound: job objects registered per cron
  MaxFires,       \* bound: ticks, triggers and webhooks
  MaxTroubles     \* bound: control actions and restarts of the process

ASSUME NoRunAssumption == NoRun \notin Run /\ Leftover \notin Run /\ Leftover # NoRun
ASSUME ChainAssumption == Chain \in [Cron -> Seq(Cron)]
ASSUME BoundsAssumption ==
  /\ Managed \subseteq Cron
  /\ MaxChainDepth \in Nat /\ MaxGeneration \in Nat \ {0}
  /\ MaxFires \in Nat /\ MaxTroubles \in Nat

VARIABLES
  current,     \* scheduler: generation of the registered job object, 0 when there is none
  generation,  \* per cron: job objects created so far
  running,     \* job objects <<cron, generation>> whose running flag is set
  activeKeys,  \* activeCronRunKeys
  queuedKeys,  \* queuedCronRerunKeys
  canceler,    \* CronRunControl: per cron, the activation its canceler belongs to
  lock,        \* per cron: the activation that holds the lock directory, or Leftover
  recorded,    \* crons that have a record in the stats store
  status,      \* their lastRunStatus: success and error are both "ended"
  chained,     \* crons whose record has its chain field
  removing,    \* crons whose record a cronDelete is about to remove
  act,         \* per slot: the local variables of an activation, or idle
  todo,        \* per slot: what is left of the fireChainedJobs loops it started
  stopped,     \* history: slots whose run a cronPause or cronDelete found before its end
  fires, troubles \* counted for their bounds

scheduler == <<current, generation>>
guards == <<running, activeKeys, queuedKeys, canceler, lock>>
stats == <<recorded, status, chained>>
control == <<removing, stopped>>
bounds == <<fires, troubles>>
vars == <<scheduler, guards, stats, control, act, todo, bounds>>

(* Between the lock and the cleanup that follows its release. *)
Critical ==
  {"recordStart", "check", "announce", "invoke", "persist", "output", "finalOk", "finalErr",
   "release"}

(* Up to the last look executeCronJob takes at cancelRequested. *)
Cancelable == {"recordStart", "check", "announce", "invoke"}

Steps == {"locking", "status", "rerun"} \cup Critical

Activation ==
  [step : Steps, cron : Cron, gen : 1 .. MaxGeneration, depth : Nat,
   cancel : BOOLEAN, rerun : BOOLEAN]

(* What a fireChainedJobs loop has left: gen is 0 until the job is fetched,  *)
(* sent tells that the write of its state has settled.                       *)
Handoff == [to : Cron, gen : 0 .. MaxGeneration, depth : Nat, sent : BOOLEAN]

(* A slot no activation uses. *)
Free == [step |-> "free"]

Init ==
  /\ current = [c \in Cron |-> 1]
  /\ generation = [c \in Cron |-> 1]
  /\ running = {}
  /\ activeKeys = {}
  /\ queuedKeys = {}
  /\ canceler = [c \in Cron |-> NoRun]
  /\ lock = [c \in Cron |-> NoRun]
  /\ recorded = Cron
  /\ status = [c \in Cron |-> "none"]
  /\ chained = Cron
  /\ removing = {}
  /\ stopped = {}
  /\ act = [r \in Run |-> Free]
  /\ todo = [r \in Run |-> <<>>]
  /\ fires = 0
  /\ troubles = 0

At(r, step) == act[r].step = step
Goto(r, step) == act' = [act EXCEPT ![r].step = step]
End(r) == act' = [act EXCEPT ![r] = Free]
Idle(r) == At(r, "free") /\ todo[r] = <<>>
CronOf(r) == act[r].cron
JobOf(r) == <<act[r].cron, act[r].gen>>
InRun(r) == act[r].step \in Critical

-----------------------------------------------------------------------------
(* The entry of executeCronJob for job object <<c, g>> with chain depth d,   *)
(* up to the await of acquireCronLock.                                       *)

(* job.running: the tick is dropped; a run in progress will repeat once. *)
Overlap(c, g) ==
  /\ <<c, g>> \in running
  /\ queuedKeys' = IF c \in activeKeys THEN queuedKeys \cup {c} ELSE queuedKeys

BeginRun(r, c, g, d) ==
  act' = [act EXCEPT ![r] = [step |-> "locking", cron |-> c, gen |-> g, depth |-> d,
                             cancel |-> FALSE, rerun |-> FALSE]]

Execute(c, g, d) ==
  \/ Overlap(c, g) /\ UNCHANGED act
  \/ /\ <<c, g>> \notin running
     /\ \E r \in Run : At(r, "free") /\ BeginRun(r, c, g, d)
     /\ UNCHANGED queuedKeys

(* A timer of the scheduler, cronTrigger or a webhook starts the job. *)
Fire(c) ==
  /\ current[c] # 0
  /\ fires < MaxFires
  /\ fires' = fires + 1
  /\ Execute(c, current[c], 0)
  /\ UNCHANGED <<scheduler, running, activeKeys, canceler, lock, stats, control, todo, troubles>>

-----------------------------------------------------------------------------
(* One activation. *)

(* Mutant of LockFree: no lock directory is configured. *)
LockFree_NoLock(c) == TRUE

LockFree(c) == lock[c] = NoRun

AcquireLock(r) ==
  /\ At(r, "locking") /\ LockFree(CronOf(r))
  /\ lock' = [lock EXCEPT ![CronOf(r)] = r]
  /\ running' = running \cup {JobOf(r)}
  /\ activeKeys' = activeKeys \cup {CronOf(r)}
  /\ canceler' = [canceler EXCEPT ![CronOf(r)] = r]
  /\ Goto(r, "recordStart")
  /\ UNCHANGED <<scheduler, queuedKeys, stats, control, todo, bounds>>

(* Mutant of FailLock: the lock is taken inside the try block, whose finally *)
(* clears the canceler of the run in progress.                               *)
FailLock_ClearsCanceler(r) ==
  /\ At(r, "locking")
  /\ End(r)
  /\ canceler' = [canceler EXCEPT ![CronOf(r)] = NoRun]
  /\ UNCHANGED <<scheduler, running, activeKeys, queuedKeys, lock, stats, control, todo, bounds>>

(* "cron:skip (lock acquire failed)": another activation holds the lock, or  *)
(* the file system failed.  No rerun is queued.                              *)
FailLock(r) ==
  /\ At(r, "locking")
  /\ End(r)
  /\ UNCHANGED <<scheduler, guards, stats, control, todo, bounds>>

SetStatus(c, s) ==
  status' = IF c \in recorded THEN [status EXCEPT ![c] = s] ELSE status

(* recordRunStart, before the run's checks. *)
RecordStart(r) ==
  /\ At(r, "recordStart")
  /\ SetStatus(CronOf(r), "running")
  /\ Goto(r, "check")
  /\ UNCHANGED <<scheduler, guards, recorded, chained, control, todo, bounds>>

(* Mutant of EndWithError: a status the store does not know. *)
EndWithError_Canceled(r) ==
  /\ SetStatus(CronOf(r), IF act[r].cancel THEN "canceled" ELSE "ended")
  /\ Goto(r, "finalErr")
  /\ UNCHANGED <<scheduler, guards, recorded, chained, control, todo, bounds>>

(* recordError, then the return or the catch that leads to the finally block. *)
EndWithError(r) ==
  /\ SetStatus(CronOf(r), "ended")
  /\ Goto(r, "finalErr")
  /\ UNCHANGED <<scheduler, guards, recorded, chained, control, todo, bounds>>

(* Guild missing, channel missing or not allowlisted. *)
RejectRun(r) == At(r, "check") /\ EndWithError(r)

(* The prompt is built; with a record, the status message is updated before  *)
(* the invocation.                                                           *)
Prepare(r) ==
  /\ At(r, "check")
  /\ Goto(r, IF CronOf(r) \in recorded THEN "announce" ELSE "invoke")
  /\ UNCHANGED <<scheduler, guards, stats, control, todo, bounds>>

(* upsertRecord: a record that was removed in the meantime is created again, *)
(* without its chain.                                                        *)
Upsert(c) ==
  /\ recorded' = recorded \cup {c}
  /\ status' = IF c \in recorded THEN status ELSE [status EXCEPT ![c] = "none"]
  /\ UNCHANGED chained

(* An upsert whose error the caller logs and goes past: it may change nothing. *)
TryUpsert(c) == Upsert(c) \/ UNCHANGED stats

(* ensureStatusMessage edits the message, or posts one and stores its id. *)
EnsureStatusMessage(r) == TryUpsert(CronOf(r))

Announce(r) ==
  /\ At(r, "announce")
  /\ EnsureStatusMessage(r)
  /\ Goto(r, "invoke")
  /\ UNCHANGED <<scheduler, guards, control, todo, bounds>>

(* The runtime reported an error, was canceled, or the invocation threw. *)
RuntimeFails(r) == At(r, "invoke") /\ EndWithError(r)

RuntimeSucceeds(r) ==
  /\ At(r, "invoke") /\ ~act[r].cancel
  /\ Goto(r, "persist")
  /\ UNCHANGED <<scheduler, guards, stats, control, todo, bounds>>

(* A <cron-state> block is written to the record. *)
PersistState(r) ==
  /\ At(r, "persist")
  /\ TryUpsert(CronOf(r))
  /\ Goto(r, "output")
  /\ UNCHANGED <<scheduler, guards, control, todo, bounds>>

(* Sending or an action throws: the catch block. *)
OutputFails(r) == At(r, "output") /\ EndWithError(r)

OutputSent(r) ==
  /\ At(r, "output")
  /\ SetStatus(CronOf(r), "ended")
  /\ Goto(r, "finalOk")
  /\ UNCHANGED <<scheduler, guards, recorded, chained, control, todo, bounds>>

DepthReached(d) == d >= MaxChainDepth

Downstream(c, d) ==
  [i \in 1 .. Len(Chain[c]) |-> [to |-> Chain[c][i], gen |-> 0, depth |-> d, sent |-> FALSE]]

(* Mutant of ChainItems: the downstream context keeps the depth. *)
ChainItems_SameDepth(r) ==
  IF DepthReached(act[r].depth) \/ CronOf(r) \notin chained THEN <<>>
  ELSE Downstream(CronOf(r), act[r].depth)

(* fireChainedJobs up to its first await: the downstream jobs to go through. *)
ChainItems(r) ==
  IF DepthReached(act[r].depth) \/ CronOf(r) \notin chained THEN <<>>
  ELSE Downstream(CronOf(r), act[r].depth + 1)

(* `void fireChainedJobs` after a success, then the finally block up to the  *)
(* await of releaseCronLock: the queued rerun is consumed here.              *)
Finalize(r) ==
  /\ At(r, "finalOk") \/ At(r, "finalErr")
  /\ todo' = IF At(r, "finalOk") THEN [todo EXCEPT ![r] = @ \o ChainItems(r)] ELSE todo
  /\ act' = [act EXCEPT ![r].step = "release", ![r].rerun = CronOf(r) \in queuedKeys]
  /\ queuedKeys' = queuedKeys \ {CronOf(r)}
  /\ UNCHANGED <<scheduler, running, activeKeys, canceler, lock, stats, control, bounds>>

StoppedJobs(r) == {JobOf(r)}

(* After the finally block's last await: the queued rerun, if any. *)
AfterCleanup(r) == IF act[r].rerun THEN Goto(r, "rerun") ELSE End(r)

(* The cleanup behind releaseCronLock, up to the next await. *)
Cleanup(r) ==
  /\ canceler' = [canceler EXCEPT ![CronOf(r)] = IF @ = r THEN NoRun ELSE @]
  /\ activeKeys' = activeKeys \ {CronOf(r)}
  /\ running' = running \ StoppedJobs(r)
  /\ stopped' = stopped \ {r}
  /\ IF CronOf(r) \in recorded THEN Goto(r, "status") ELSE AfterCleanup(r)

(* Mutant of ReleaseLock: no catch, a failed release leaves the finally block. *)
ReleaseLock_NoCatch(r) ==
  /\ At(r, "release")
  /\ \/ lock' = [lock EXCEPT ![CronOf(r)] = NoRun] /\ Cleanup(r)
     \/ /\ lock' = [lock EXCEPT ![CronOf(r)] = Leftover]
        /\ End(r)
        /\ UNCHANGED <<canceler, activeKeys, running, stopped>>
  /\ UNCHANGED <<scheduler, queuedKeys, stats, removing, todo, bounds>>

(* The directory is gone, or it was not removed (its meta file could not be  *)
(* read, or the error was caught): this live process then goes on owning it. *)
(* A removal that got no further than the meta file leaves a directory that  *)
(* is stale after a while: a free lock that fails to be taken until then.    *)
ReleaseLock(r) ==
  /\ At(r, "release")
  /\ \E left \in {NoRun, Leftover} : lock' = [lock EXCEPT ![CronOf(r)] = left]
  /\ Cleanup(r)
  /\ UNCHANGED <<scheduler, queuedKeys, stats, removing, todo, bounds>>

UpdateStatusMessage(r) ==
  /\ At(r, "status")
  /\ EnsureStatusMessage(r)
  /\ AfterCleanup(r)
  /\ UNCHANGED <<scheduler, guards, control, todo, bounds>>

(* queueMicrotask: executeCronJob with the same job object and context, the  *)
(* depth of the chain included.                                              *)
Rerun(r) ==
  /\ At(r, "rerun")
  /\ \/ Overlap(CronOf(r), act[r].gen) /\ End(r)
     \/ /\ JobOf(r) \notin running
        /\ BeginRun(r, CronOf(r), act[r].gen, act[r].depth)
        /\ UNCHANGED queuedKeys
  /\ UNCHANGED <<scheduler, running, activeKeys, canceler, lock, stats, control, todo, bounds>>

-----------------------------------------------------------------------------
(* The fireChainedJobs loop of the activation in slot r.  The loops of       *)
(* activations that used the slot one after the other run in that order.     *)

Item(r) == Head(todo[r])
Fetched(item) == item.gen # 0
Reachable(c) == c \in recorded /\ current[c] # 0
NextItem(r) == todo' = [todo EXCEPT ![r] = Tail(@)]

(* The record or the scheduler job is missing: the downstream is skipped. *)
SkipDownstream(r) ==
  /\ todo[r] # <<>> /\ ~Fetched(Item(r)) /\ ~Reachable(Item(r).to)
  /\ NextItem(r)
  /\ UNCHANGED <<scheduler, guards, stats, control, act, bounds>>

(* The record and the job object are read; the state write is queued. *)
FetchDownstream(r) ==
  /\ todo[r] # <<>> /\ ~Fetched(Item(r)) /\ Reachable(Item(r).to)
  /\ todo' = [todo EXCEPT ![r] = [@ EXCEPT ![1].gen = current[Item(r).to]]]
  /\ UNCHANGED <<scheduler, guards, stats, control, act, bounds>>

(* The write: it creates a record removed since it was read, or it fails and *)
(* the loop goes on all the same.                                            *)
ForwardState(r) ==
  /\ todo[r] # <<>> /\ Fetched(Item(r)) /\ ~Item(r).sent
  /\ TryUpsert(Item(r).to)
  /\ todo' = [todo EXCEPT ![r] = [@ EXCEPT ![1].sent = TRUE]]
  /\ UNCHANGED <<scheduler, guards, control, act, bounds>>

(* `void executeCronJob(downstreamJob, ...)` with the object fetched before  *)
(* the await of the state write.                                             *)
LaunchDownstream(r) ==
  /\ todo[r] # <<>> /\ Fetched(Item(r)) /\ Item(r).sent
  /\ Execute(Item(r).to, Item(r).gen, Item(r).depth)
  /\ NextItem(r)
  /\ UNCHANGED <<scheduler, running, activeKeys, canceler, lock, stats, control, bounds>>

-----------------------------------------------------------------------------
(* Control actions and the process. *)

(* cronUpdate or a reparse registers a new job object; a run of the old one  *)
(* goes on, and the new object's running flag is false.                      *)
Trouble == troubles < MaxTroubles /\ troubles' = troubles + 1

Register(c) ==
  /\ Trouble
  /\ current[c] # 0
  /\ generation[c] < MaxGeneration
  /\ generation' = [generation EXCEPT ![c] = @ + 1]
  /\ current' = [current EXCEPT ![c] = generation[c] + 1]
  /\ UNCHANGED <<guards, stats, control, act, todo, fires>>

(* CronRunControl.requestCancel, and for the history the runs it is meant for. *)
RequestCancel(c) ==
  /\ act' = [r \in Run |-> IF canceler[c] = r THEN [act[r] EXCEPT !.cancel = TRUE] ELSE act[r]]
  /\ stopped' = stopped \cup {r \in Run : act[r].step \in Cancelable /\ CronOf(r) = c}

(* cronPause: the canceler of a run in progress, if there is one, is called. *)
Cancel(c) ==
  /\ Trouble
  /\ c \in recorded /\ current[c] # 0
  /\ RequestCancel(c)
  /\ UNCHANGED <<scheduler, guards, stats, removing, todo, fires>>

(* cronDelete up to the await of removeRecord: cancel and unregister. *)
Delete(c) ==
  /\ Trouble
  /\ c \in recorded
  /\ RequestCancel(c)
  /\ current' = [current EXCEPT ![c] = 0]
  /\ removing' = removing \cup {c}
  /\ UNCHANGED <<generation, guards, stats, todo, fires>>

(* removeRecord, behind the writes that were queued before it. *)
RemoveRecord(c) ==
  /\ c \in removing
  /\ removing' = removing \ {c}
  /\ recorded' = recorded \ {c}
  /\ chained' = chained \ {c}
  /\ UNCHANGED <<scheduler, guards, status, stopped, act, todo, bounds>>

(* Mutant of Swept: the interrupted runs keep their status. *)
Swept_Kept(s) == s

(* sweepInterrupted *)
Swept(s) == IF s = "running" THEN "interrupted" ELSE s

(* The process dies and starts again: memory is lost, the lock directories   *)
(* of the dead pid are stale, the store is swept and the jobs are registered *)
(* again from their threads.  A deleted cron whose thread is not archived    *)
(* comes back, in any case one whose record was not removed yet.             *)
Restart ==
  /\ Trouble
  /\ running' = {} /\ activeKeys' = {} /\ queuedKeys' = {}
  /\ canceler' = [c \in Cron |-> NoRun]
  /\ lock' = [c \in Cron |-> NoRun]
  /\ act' = [r \in Run |-> Free]
  /\ todo' = [r \in Run |-> <<>>]
  /\ removing' = {} /\ stopped' = {}
  /\ \E back \in SUBSET {c \in Cron : current[c] = 0} :
       /\ removing \subseteq back
       /\ current' = [c \in Cron |-> IF c \in back THEN generation[c] ELSE current[c]]
       /\ recorded' = recorded \cup back
       /\ status' = [c \in Cron |-> IF c \in recorded' \ recorded THEN "none"
                                    ELSE Swept(status[c])]
  /\ UNCHANGED <<generation, chained, fires>>

(* Nothing is left to run. *)
Quiet ==
  /\ \A r \in Run : Idle(r)
  /\ UNCHANGED vars

-----------------------------------------------------------------------------
RunStep(r) ==
  \/ AcquireLock(r) \/ FailLock(r) \/ RecordStart(r) \/ RejectRun(r) \/ Prepare(r) \/ Announce(r)
  \/ RuntimeFails(r) \/ RuntimeSucceeds(r)
  \/ PersistState(r) \/ OutputFails(r) \/ OutputSent(r)
  \/ Finalize(r) \/ ReleaseLock(r) \/ UpdateStatusMessage(r) \/ Rerun(r)

ChainStep(r) ==
  SkipDownstream(r) \/ FetchDownstream(r) \/ ForwardState(r) \/ LaunchDownstream(r)

Next ==
  \/ \E c \in Cron : Fire(c)
  \/ \E c \in Managed : Register(c) \/ Cancel(c) \/ Delete(c) \/ RemoveRecord(c)
  \/ \E r \in Run : RunStep(r) \/ ChainStep(r)
  \/ Restart
  \/ Quiet

(* Every await of an activation settles: the runtime has a timeout, the      *)
(* file-system calls return, Discord calls resolve or reject.                *)
Fairness == \A r \in Run : WF_vars(RunStep(r)) /\ WF_vars(ChainStep(r))

Spec == Init /\ [][Next]_vars
FairSpec == Spec /\ Fairness

-----------------------------------------------------------------------------
(* Shape of the state. *)
TypeOK ==
  /\ current \in [Cron -> 0 .. MaxGeneration]
  /\ generation \in [Cron -> 1 .. MaxGeneration]
  /\ running \subseteq Cron \X (1 .. MaxGeneration)
  /\ activeKeys \subseteq Cron /\ queuedKeys \subseteq Cron
  /\ canceler \in [Cron -> Run \cup {NoRun}]
  /\ lock \in [Cron -> Run \cup {NoRun, Leftover}]
  /\ recorded \subseteq Cron /\ chained \subseteq Cron /\ removing \subseteq Cron
  /\ status \in [Cron -> {"none", "running", "ended", "interrupted"}]
  /\ act \in [Run -> Activation \cup {Free}]
  /\ todo \in [Run -> Seq(Handoff)]
  /\ stopped \subseteq Run
  /\ fires \in 0 .. MaxFires /\ troubles \in 0 .. MaxTroubles

(* "Only one execution per job runs at a time": two ticks that both pass the *)
(* running check while a lock attempt is pending, and a job object replaced  *)
(* during a run, never lead to two runs of one cron.                         *)
OneRunPerCron ==
  \A r, s \in Run : InRun(r) /\ InRun(s) /\ CronOf(r) = CronOf(s) => r = s

(* The four guards agree: a cron is active, flagged running and cancelable   *)
(* exactly while an activation of it is between lock and cleanup.  The lock  *)
(* is that activation's too, or the release of an earlier one failed and     *)
(* nothing of the cron runs.                                                 *)
GuardsAgree ==
  /\ activeKeys = {CronOf(r) : r \in {s \in Run : InRun(s)}}
  /\ running = {JobOf(r) : r \in {s \in Run : InRun(s)}}
  /\ \A c \in Cron :
       /\ canceler[c] # NoRun => InRun(canceler[c]) /\ CronOf(canceler[c]) = c
       /\ lock[c] = canceler[c] \/ (lock[c] = Leftover /\ canceler[c] = NoRun)

(* No cron is shown as running when nothing runs it, restarts included. *)
RunningStatusIsTrue ==
  \A c \in recorded :
    status[c] = "running" =>
      \E r \in Run : act[r].step \in {"check", "announce", "invoke", "persist", "output"}
        /\ CronOf(r) = c

(* cronPause and cronDelete stop the run in progress of the cron they name,  *)
(* whichever activations tick, skip or end at the same time: it neither posts *)
(* its output nor fires its chain.                                           *)
CancelStopsRun ==
  \A r \in stopped : act[r].step \notin {"persist", "output", "finalOk"}

(* Chains never run deeper than the limit, whatever the records say. *)
ChainDepthBounded ==
  \A r \in Run : act[r] # Free => act[r].depth <= MaxChainDepth

(* docs/cron.md:209, a tick that fires while the previous run is still active *)
(* "is skipped": no overlap leads to another attempt.                        *)
OverlapIsSkipped == \A r \in Run : ~At(r, "rerun")

(* Every run comes to its end, and its cron is then free to run again, or    *)
(* kept from it by nothing but a directory that could not be removed.        *)
EveryRunEnds ==
  \A c \in Cron :
    c \in activeKeys ~>
      /\ c \notin activeKeys
      /\ canceler[c] = NoRun
      /\ \A g \in 1 .. MaxGeneration : <<c, g>> \notin running
      /\ lock[c] \in {NoRun, Leftover}

(* docs/cron.md:153, the depth limit "prevents runaway cascades", also where *)
(* the chains form a cycle: once the ticks have stopped, the activations     *)
(* they caused come to an end, unless queued reruns, which keep their depth, *)
(* go on without end.                                                        *)
CascadeEnds ==
  <>[](\A r \in Run : Idle(r)) \/ []<>(\E r \in Run : At(r, "rerun"))
=============================================================================
