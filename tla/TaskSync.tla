------------------------------- MODULE TaskSync -------------------------------
(***************************************************************************)
(* Tasks and their forum threads, src/src/tasks: the store and its file     *)
(* (store.ts), the direct actions taskCreate, taskUpdate, taskClose and     *)
(* taskSync (task-action-mutations.ts, task-action-thread-sync.ts), and the *)
(* run of the five-phase sync (task-sync-engine.ts, task-sync-phase-apply   *)
(* .ts, task-sync-reconcile.ts) with the per-task lifecycle lock between    *)
(* them.  Which run is started when is SyncCoordinator's subject: here a    *)
(* run starts when one is due.  A title, a label or a tag is left out       *)
(* unless a decision reads it.                                              *)
(***************************************************************************)
EXTENDS Naturals, Sequences, FiniteSets

CONSTANTS
  Task, Actor,       \* task ids; message turns that execute task actions
  Sync,              \* the sync run, as a user of the lifecycle lock
  Labelled,          \* tasks with a waiting-* or blocked-* label
  NoTask, NoThread,
  MaxThreads,        \* bound: threads Discord creates
  MaxActions,        \* bound: actions and restarts
  MaxFaults,         \* bound: Discord calls that fail
  MaxReplies         \* bound: replies that start in a task's thread

ASSUME NamesAssumption == Sync \notin Actor /\ NoTask \notin Task
ASSUME LabelAssumption == Labelled \subseteq Task
ASSUME BoundsAssumption ==
  /\ MaxThreads \in Nat /\ MaxActions \in Nat /\ MaxFaults \in Nat
  /\ MaxReplies \in Nat /\ NoThread \notin 1..MaxThreads

Thread == 1..MaxThreads
Status == {"open", "blocked", "closed"}
Record == [status : Status \cup {"none"}, ref : Thread \cup {NoThread}]
Absent == [status |-> "none", ref |-> NoThread]
Idle == [op |-> "idle", task |-> NoTask, at |-> "idle", to |-> "none",
         known |-> Absent, same |-> FALSE]
NoTasks == [t \in Task |-> Absent]

VARIABLES
  store,      \* [Task -> Record]: the map in memory; "none": no such task
  disk,       \* the JSONL file
  owner,      \* [Thread -> Task \cup {NoTask}]: the task whose id is in the name
  archived,   \* [Thread -> BOOLEAN]
  shown,      \* [Thread -> {"open", "closed"}]: the name shows the closed status
  queue,      \* [Task -> Seq(Actor \cup {Sync})]: the lifecycle lock, holder first
  act,        \* [Actor -> the action the turn is executing]
  phase,      \* the phase of the sync run, 0: no run
  snap, todo, cur,   \* its snapshot, the operations left, the task it is at
  seen,       \* phase 1: status read under the lock, thread the lookup returned
  found,      \* phase 5: threads still to reconcile, each with its archive state then
  sawDeferral,       \* counters.closesDeferred > 0
  due,        \* the coordinator owes a run
  busy,       \* threads with a reply in flight
  excused,    \* history: tasks closed by taskUpdate, or whose close failed unseen
  actions, faults, replies   \* counted for their bounds

memory == <<store, disk>>
forum == <<owner, archived, shown>>
run == <<phase, snap, todo, cur, seen, found, sawDeferral>>
bounds == <<actions, faults, replies>>
vars == <<memory, forum, queue, act, run, due, busy, excused, bounds>>

Init ==
  /\ store = NoTasks /\ disk = NoTasks
  /\ owner = [th \in Thread |-> NoTask]
  /\ archived = [th \in Thread |-> FALSE]
  /\ shown = [th \in Thread |-> "open"]
  /\ queue = [t \in Task |-> <<>>] /\ act = [a \in Actor |-> Idle]
  /\ phase = 0 /\ snap = NoTasks /\ todo = {} /\ cur = NoTask
  /\ seen = Absent /\ found = {} /\ sawDeferral = FALSE
  /\ due = TRUE /\ busy = {} /\ excused = {}
  /\ actions = 0 /\ faults = 0 /\ replies = 0

-----------------------------------------------------------------------------
(* The lifecycle lock, the store and the forum. *)

Holds(w, t) == queue[t] # <<>> /\ Head(queue[t]) = w
Release(t) == queue' = [queue EXCEPT ![t] = Tail(@)]
Exists(t) == store[t].status # "none"
Fault == faults < MaxFaults /\ faults' = faults + 1

FindThread_StoreOnly(t) == store[t].ref

(* findExistingThreadForTask: the newest active thread with the task's id in *)
(* its name, or the newest archived one.                                     *)
FindThread(t) ==
  LET Mine == {th \in Thread : owner[th] = t}
      Active == {th \in Mine : ~archived[th]}
      Newest(S) == CHOOSE th \in S : \A u \in S : u <= th
  IN CASE Active # {} -> Newest(Active)
       [] Active = {} /\ Mine # {} -> Newest(Mine)
       [] OTHER -> NoThread

NameOf(status) == IF status = "closed" THEN "closed" ELSE "open"

(* TaskStore.update with an external reference; it throws, and the callers   *)
(* only log, when the task is gone.                                          *)
StoreRef_Upserts(t, th) == store' = [store EXCEPT ![t].ref = th]

StoreRef(t, th) ==
  store' = IF Exists(t) THEN [store EXCEPT ![t].ref = th] ELSE store

(* createTaskThread succeeds, fails, or the answer is lost although Discord  *)
(* created the thread.  The reference is stored in the step that gets the    *)
(* answer, if the task is still in the store; owed: whether a failure asks   *)
(* for a run.                                                                *)
CreateThread(t, status, owed) ==
  \/ \E th \in Thread :
       /\ owner[th] = NoTask /\ \A u \in Thread : owner[u] = NoTask => th <= u
       /\ owner' = [owner EXCEPT ![th] = t]
       /\ shown' = [shown EXCEPT ![th] = NameOf(status)]
       /\ UNCHANGED archived
       /\ \/ StoreRef(t, th) /\ UNCHANGED <<due, faults>>
          \/ Fault /\ due' = owed /\ UNCHANGED store
  \/ Fault /\ due' = owed /\ UNCHANGED <<store, forum>>

(* closeTaskThread unarchives, renames and archives the thread and ignores   *)
(* every failure: the thread is not fetched, not renamed, or not archived.   *)
CloseThread(t, th) ==
  /\ \/ /\ shown' = [shown EXCEPT ![th] = "closed"]
        /\ archived' = [archived EXCEPT ![th] = TRUE]
        /\ excused' = excused \ {t} /\ UNCHANGED faults
     \/ Fault /\ excused' = excused \cup {t} /\ UNCHANGED <<archived, shown>>
     \/ /\ Fault /\ archived' = [archived EXCEPT ![th] = TRUE]
        /\ excused' = excused \ {t} /\ UNCHANGED shown
     \/ /\ Fault /\ shown' = [shown EXCEPT ![th] = "closed"]
        /\ archived' = [archived EXCEPT ![th] = FALSE]
        /\ excused' = excused \cup {t}
  /\ UNCHANGED owner

(* The sync defers a close while a reply is in flight in the thread. *)
CloseOrDefer(t, th) ==
  IF th \in busy
  THEN sawDeferral' = TRUE /\ UNCHANGED <<forum, faults, excused>>
  ELSE CloseThread(t, th) /\ UNCHANGED sawDeferral

(* isTaskThreadAlreadyClosed, then the close: a thread that could not be     *)
(* fetched counts as closed.                                                 *)
AlreadyClosed(th) == archived[th] /\ shown[th] = "closed"

ReconcileClosed(t, th) ==
  IF AlreadyClosed(th)
  THEN UNCHANGED <<forum, faults, excused, sawDeferral>>
  ELSE \/ CloseOrDefer(t, th)
       \/ Fault /\ excused' = excused \cup {t} /\ UNCHANGED <<forum, sawDeferral>>

(* What may be read of a file while writeToDisk rewrites it in place: it is  *)
(* truncated first and filled a task at a time.                              *)
HalfWritten == {[t \in Task |-> IF t \in S THEN store[t] ELSE Absent] : S \in SUBSET Task}

(* The chained writeToDisk of schedulePersist writes what is in memory when  *)
(* it runs.                                                                  *)
Persist ==
  /\ disk # store /\ disk' = store
  /\ UNCHANGED <<store, forum, queue, act, run, due, busy, excused, bounds>>

ReplyStarts(th) ==
  /\ owner[th] # NoTask /\ th \notin busy /\ replies < MaxReplies
  /\ busy' = busy \cup {th} /\ replies' = replies + 1
  /\ UNCHANGED <<memory, forum, queue, act, run, due, excused, actions, faults>>

ReplyEnds(th) ==
  /\ th \in busy /\ busy' = busy \ {th}
  /\ UNCHANGED <<memory, forum, queue, act, run, due, excused, bounds>>

-----------------------------------------------------------------------------
(* The direct actions. *)

Starts(a, t, r) ==
  /\ act[a].op = "idle" /\ actions < MaxActions /\ actions' = actions + 1
  /\ act' = [act EXCEPT ![a] = r]
  /\ queue' = [queue EXCEPT ![t] = Append(@, a)]
  /\ UNCHANGED <<disk, forum, run, due, busy, faults, replies>>

(* handleTaskCreate enters the task first and takes the lock afterwards. *)
Create(a, t) ==
  /\ ~Exists(t)
  /\ store' = [store EXCEPT ![t] = [status |-> "open", ref |-> NoThread]]
  /\ excused' = excused \ {t}
  /\ Starts(a, t, [Idle EXCEPT !.op = "create", !.task = t, !.at = "lock"])

Update(a, t, s) ==
  /\ Exists(t)
  /\ Starts(a, t, [Idle EXCEPT !.op = "update", !.task = t, !.at = "lock", !.to = s])
  /\ UNCHANGED <<store, excused>>

(* handleTaskClose decides before it has the lock whether the task is closed *)
(* already, and then works with the record it read.  An action of a reply in *)
(* the task's own thread may close it under that reply.                      *)
Close(a, t, same) ==
  /\ Exists(t) /\ (same => store[t].ref \in busy)
  /\ Starts(a, t, [Idle EXCEPT !.op = "close", !.task = t, !.at = "lock",
                               !.known = store[t], !.same = same])
  /\ UNCHANGED <<store, excused>>

(* handleTaskSync reads the file back, whatever is not written yet, and asks *)
(* for a run.  A read that meets a write in progress loses the tasks that    *)
(* are not in the file yet, from memory and with the next write for good.    *)
Reload ==
  /\ actions < MaxActions /\ actions' = actions + 1
  /\ \/ store' = disk /\ UNCHANGED disk
     \/ disk # store /\ store' \in HalfWritten /\ disk' = store
  /\ due' = TRUE
  /\ UNCHANGED <<forum, queue, act, run, busy, excused, faults, replies>>

Ends(a) == act' = [act EXCEPT ![a] = Idle] /\ Release(act[a].task)

(* ensureCreatedTaskThreadLink: a record that has its thread needs nothing. *)
CreateLooks(a) ==
  LET t == act[a].task IN
  /\ act[a].op = "create" /\ act[a].at = "lock" /\ Holds(a, t)
  /\ IF store[t].ref # NoThread
     THEN Ends(a)
     ELSE /\ act' = [act EXCEPT ![a].at = "link",
                       ![a].known = [status |-> IF Exists(t) THEN store[t].status
                                                              ELSE "open",
                                     ref |-> FindThread(t)]]
          /\ UNCHANGED queue
  /\ UNCHANGED <<memory, forum, run, due, busy, excused, bounds>>

CreateLinks(a) ==
  LET t == act[a].task
      k == act[a].known
  IN /\ act[a].op = "create" /\ act[a].at = "link"
     /\ Ends(a)
     /\ IF k.ref # NoThread
        THEN StoreRef(t, k.ref) /\ UNCHANGED <<forum, faults, due>>
        ELSE CreateThread(t, k.status, TRUE)
     /\ UNCHANGED <<disk, run, busy, excused, actions, replies>>

(* The status, if one is given, is written under the lock and the thread     *)
(* follows: it is unarchived, even when the task is closed by this update or *)
(* was closed before, and stays so until a sync.                             *)
Excuse(t, r) == IF r.status = "closed" THEN excused \cup {t} ELSE excused \ {t}

UpdateWrites(a) ==
  LET t == act[a].task IN
  /\ act[a].op = "update" /\ act[a].at = "lock" /\ Holds(a, t)
  /\ IF Exists(t)
     THEN LET r == [store[t] EXCEPT !.status = IF act[a].to = "none" THEN @ ELSE act[a].to]
          IN
          /\ store' = [store EXCEPT ![t] = r]
          /\ excused' = Excuse(t, r)
          /\ IF r.ref = NoThread THEN Ends(a)
             ELSE act' = [act EXCEPT ![a].at = "thread", ![a].known = r] /\ UNCHANGED queue
     ELSE Ends(a) /\ UNCHANGED <<store, excused>>
  /\ UNCHANGED <<disk, forum, run, due, busy, bounds>>

UpdateThread(a) ==
  LET k == act[a].known IN
  /\ act[a].op = "update" /\ act[a].at = "thread"
  /\ Ends(a)
  /\ \/ /\ archived' = [archived EXCEPT ![k.ref] = FALSE]
        /\ shown' = [shown EXCEPT ![k.ref] = NameOf(k.status)]
        /\ excused' = Excuse(act[a].task, k) /\ UNCHANGED <<faults, due>>
     \/ Fault /\ due' = TRUE /\ UNCHANGED <<archived, shown, excused>>
  /\ UNCHANGED <<memory, owner, run, busy, actions, replies>>

CloseWrites(a) ==
  LET t == act[a].task
      k == act[a].known
      r == IF k.status = "closed" THEN k ELSE [store[t] EXCEPT !.status = "closed"]
  IN /\ act[a].op = "close" /\ act[a].at = "lock" /\ Holds(a, t)
     /\ IF k.status = "closed" \/ Exists(t)
        THEN /\ store' = IF k.status = "closed" THEN store ELSE [store EXCEPT ![t] = r]
             /\ IF r.ref = NoThread THEN Ends(a) /\ UNCHANGED excused
                ELSE /\ act' = [act EXCEPT ![a].at = "thread", ![a].known = r]
                     /\ excused' = excused \ {t}
                     /\ UNCHANGED queue
        ELSE Ends(a) /\ UNCHANGED <<store, excused>>
     /\ UNCHANGED <<disk, forum, run, due, busy, bounds>>

CloseDefers_NoRepair(a) ==
  /\ act[a].op = "close" /\ act[a].at = "thread"
  /\ ~act[a].same /\ act[a].known.ref \in busy
  /\ Ends(a) /\ UNCHANGED <<memory, forum, run, due, busy, excused, bounds>>

(* syncClosedTaskThread: deferred while another reply is in flight there. *)
CloseDefers(a) ==
  /\ act[a].op = "close" /\ act[a].at = "thread"
  /\ ~act[a].same /\ act[a].known.ref \in busy
  /\ Ends(a) /\ due' = TRUE
  /\ UNCHANGED <<memory, forum, run, busy, excused, bounds>>

CloseCloses(a) ==
  /\ act[a].op = "close" /\ act[a].at = "thread"
  /\ act[a].same \/ act[a].known.ref \notin busy
  /\ CloseThread(act[a].task, act[a].known.ref)
  /\ Ends(a)
  /\ UNCHANGED <<memory, run, due, busy, actions, replies>>

-----------------------------------------------------------------------------
(* The sync run. *)

(* normalizeTaskSyncBuckets. *)
Bucket(p, S) ==
  {t \in Task :
     CASE p = 1 -> S[t].status \in {"open", "blocked"} /\ S[t].ref = NoThread
       [] p = 2 -> S[t].status = "open" /\ t \in Labelled
       [] p = 3 -> S[t].status \in {"open", "blocked"} /\ S[t].ref # NoThread
       [] p = 4 -> S[t].status = "closed" /\ S[t].ref # NoThread
       [] OTHER -> FALSE}

SyncStart ==
  /\ phase = 0 /\ due
  /\ phase' = 1 /\ snap' = store /\ todo' = Bucket(1, store)
  /\ due' = FALSE /\ sawDeferral' = FALSE
  /\ UNCHANGED <<memory, forum, queue, act, cur, seen, found, busy, excused, bounds>>

NextPhase ==
  /\ phase \in 1..3 /\ todo = {} /\ cur = NoTask
  /\ phase' = phase + 1 /\ todo' = Bucket(phase + 1, snap)
  /\ UNCHANGED <<memory, forum, queue, act, snap, cur, seen, found, sawDeferral, due, busy,
                 excused, bounds>>

(* Phases 1, 3 and 4 take the task's lock ... *)
Take(t) ==
  /\ phase \in {1, 3, 4} /\ t \in todo /\ cur = NoTask
  /\ cur' = t /\ todo' = todo \ {t}
  /\ queue' = [queue EXCEPT ![t] = Append(@, Sync)]
  /\ UNCHANGED <<memory, forum, act, phase, snap, seen, found, sawDeferral, due, busy,
                 excused, bounds>>

(* ... phase 2 does not, and writes from the snapshot. *)
Block(t) ==
  /\ phase = 2 /\ t \in todo /\ todo' = todo \ {t}
  /\ IF Exists(t)
     THEN store' = [store EXCEPT ![t].status = "blocked"]
          /\ snap' = [snap EXCEPT ![t].status = "blocked"]
     ELSE UNCHANGED <<store, snap>>
  /\ UNCHANGED <<disk, forum, queue, act, phase, cur, seen, found, sawDeferral, due, busy,
                 excused, bounds>>

(* The record under the lock: the newest, or the snapshot's if it is gone. *)
Latest(t) == IF Exists(t) THEN store[t] ELSE snap[t]
Done == Release(cur) /\ cur' = NoTask
Locked(p) == phase = p /\ cur # NoTask /\ Holds(Sync, cur)

Phase1Looks ==
  LET r == Latest(cur) IN
  /\ Locked(1) /\ seen = Absent
  /\ IF r.ref # NoThread \/ r.status = "closed"
     THEN Done /\ UNCHANGED seen
     ELSE seen' = [status |-> r.status, ref |-> FindThread(cur)] /\ UNCHANGED <<queue, cur>>
  /\ UNCHANGED <<memory, forum, act, phase, snap, todo, found, sawDeferral, due, busy,
                 excused, bounds>>

Phase1Links ==
  /\ Locked(1) /\ seen # Absent /\ seen' = Absent /\ Done
  /\ IF seen.ref # NoThread
     THEN StoreRef(cur, seen.ref) /\ UNCHANGED <<forum, faults, due>>
     ELSE CreateThread(cur, seen.status, due)
  /\ UNCHANGED <<disk, act, phase, snap, todo, found, sawDeferral, busy, excused,
                 actions, replies>>

Phase3Renames ==
  LET r == Latest(cur) IN
  /\ Locked(3) /\ Done
  /\ \/ /\ shown' = IF r.ref = NoThread \/ r.status = "closed" THEN shown
                    ELSE IF archived[r.ref] THEN shown ELSE [shown EXCEPT ![r.ref] = "open"]
        /\ UNCHANGED faults
     \/ Fault /\ UNCHANGED shown
  /\ UNCHANGED <<memory, owner, archived, act, phase, snap, todo, seen, found,
                 sawDeferral, due, busy, excused, actions, replies>>

Phase4Closes ==
  LET r == Latest(cur) IN
  /\ Locked(4) /\ Done
  /\ IF r.ref = NoThread \/ r.status # "closed"
     THEN UNCHANGED <<forum, faults, excused, sawDeferral>>
     ELSE ReconcileClosed(cur, r.ref)
  /\ UNCHANGED <<memory, act, phase, snap, todo, seen, found, due, busy, actions, replies>>

(* planTaskReconcileOperations: threads of tasks closed in the snapshot that *)
(* have no other thread, if Discord lists them.                              *)
ClosedThreads ==
  {th \in Thread : /\ owner[th] # NoTask
                   /\ snap[owner[th]].status = "closed"
                   /\ snap[owner[th]].ref \in {NoThread, th}}
Planned(S) == {<<th, archived[th]>> : th \in S}

Phase5Plans ==
  /\ phase = 4 /\ todo = {} /\ cur = NoTask
  /\ phase' = 5
  /\ \/ found' = Planned(ClosedThreads) /\ UNCHANGED faults
     \/ Fault /\ found' = Planned({th \in ClosedThreads : ~archived[th]})
     \/ Fault /\ found' = {}
  /\ UNCHANGED <<memory, forum, queue, act, snap, todo, cur, seen, sawDeferral, due, busy,
                 excused, actions, replies>>

(* Without the lock and without reading the task again; the archive state    *)
(* at planning decides whether a thread is closed in any case, and entered   *)
(* in the task, or looked at first.                                          *)
Phase5Applies(f) ==
  LET th == f[1]
      t == owner[th]
  IN /\ phase = 5 /\ f \in found /\ found' = found \ {f}
     /\ \/ f[2] /\ ReconcileClosed(t, th) /\ UNCHANGED store
        \/ /\ ~f[2] /\ CloseOrDefer(t, th)
           /\ IF th \notin busy /\ snap[t].ref = NoThread THEN StoreRef(t, th)
                                                          ELSE UNCHANGED store
     /\ UNCHANGED <<disk, queue, act, phase, snap, todo, cur, seen, due, busy, actions,
                    replies>>

(* A run that deferred a close is followed by another one. *)
SyncEnd ==
  /\ phase = 5 /\ found = {}
  /\ phase' = 0 /\ due' = (due \/ sawDeferral) /\ snap' = NoTasks
  /\ UNCHANGED <<memory, forum, queue, act, todo, cur, seen, found, sawDeferral, busy,
                 excused, bounds>>

(* The program stops, perhaps in the middle of a write; it starts again from *)
(* the file, with a startup sync.                                            *)
Crash ==
  /\ actions < MaxActions /\ actions' = actions + 1
  /\ \/ store' = disk /\ UNCHANGED disk
     \/ disk # store /\ store' \in HalfWritten /\ disk' = store'
  /\ due' = TRUE /\ busy' = {}
  /\ queue' = [t \in Task |-> <<>>] /\ act' = [a \in Actor |-> Idle]
  /\ phase' = 0 /\ snap' = NoTasks /\ todo' = {} /\ cur' = NoTask /\ found' = {}
  /\ seen' = Absent
  /\ sawDeferral' = FALSE
  /\ UNCHANGED <<forum, excused, faults, replies>>

-----------------------------------------------------------------------------
ActionStep(a) ==
  \/ CreateLooks(a) \/ CreateLinks(a) \/ UpdateWrites(a) \/ UpdateThread(a)
  \/ CloseWrites(a) \/ CloseDefers(a) \/ CloseCloses(a)

SyncStep ==
  \/ SyncStart \/ NextPhase \/ (\E t \in Task : Take(t) \/ Block(t))
  \/ Phase1Looks \/ Phase1Links \/ Phase3Renames \/ Phase4Closes
  \/ Phase5Plans \/ (\E f \in Thread \X BOOLEAN : Phase5Applies(f)) \/ SyncEnd

Requested(a) ==
  \E t \in Task :
    \/ Create(a, t)
    \/ \E s \in {"open", "closed", "none"} : Update(a, t, s)
    \/ \E same \in BOOLEAN : Close(a, t, same)

(* Message turns are alike: an action is executed by some free one. *)
FreeTurn == CHOOSE a \in Actor : act[a].op = "idle"
Request == (\E a \in Actor : act[a].op = "idle") /\ Requested(FreeTurn)

(* Nothing is due and nobody is under way: only an action is awaited. *)
AtRest ==
  /\ phase = 0 /\ ~due /\ busy = {} /\ \A a \in Actor : act[a] = Idle
  /\ UNCHANGED vars

Next ==
  \/ AtRest \/ Request \/ Reload \/ \E a \in Actor : ActionStep(a)
  \/ \E th \in Thread : ReplyStarts(th) \/ ReplyEnds(th)
  \/ SyncStep \/ Persist \/ Crash

Spec == Init /\ [][Next]_vars

(* Every awaited Discord call returns or fails, every reply ends, and a due  *)
(* run starts: SyncCoordinator's liveness.                                   *)
FairSpec ==
  /\ Spec /\ WF_vars(SyncStep)
  /\ \A a \in Actor : WF_vars(ActionStep(a))
  /\ \A th \in Thread : WF_vars(ReplyEnds(th))

-----------------------------------------------------------------------------
(* The shape of the state: lock queues hold actors and the sync run at most  *)
(* once, and a task that is not in the store has no reference there: a       *)
(* thread that is created after its task went away is not entered.           *)
TypeOK ==
  /\ store \in [Task -> Record] /\ disk \in [Task -> Record]
  /\ \A t \in Task : Exists(t) \/ store[t] = Absent
  /\ owner \in [Thread -> Task \cup {NoTask}]
  /\ archived \in [Thread -> BOOLEAN] /\ shown \in [Thread -> {"open", "closed"}]
  /\ queue \in [Task -> Seq(Actor \cup {Sync})]
  /\ \A a \in Actor : act[a].task \in Task \cup {NoTask} /\ act[a].known \in Record
  /\ phase \in 0..5 /\ snap \in [Task -> Record] /\ todo \subseteq Task
  /\ cur \in Task \cup {NoTask} /\ seen \in Record /\ found \subseteq Thread \X BOOLEAN
  /\ sawDeferral \in BOOLEAN /\ due \in BOOLEAN
  /\ busy \subseteq Thread /\ excused \subseteq Task

(* However creates, syncs, lost answers, reloads of an older file and        *)
(* restarts interleave, Discord never gets a second thread with a task's id, *)
(* and a task that has a thread reference refers to the thread with its id:  *)
(* phase 1 and taskCreate both look before they create.                      *)
OneThreadPerTask ==
  /\ \A th, u \in Thread : owner[th] = owner[u] /\ owner[th] # NoTask => th = u
  /\ \A t \in Task : store[t].ref # NoThread => owner[store[t].ref] = t

(* A task that is closed and linked gets its thread archived, though the     *)
(* close was deferred for a reply, fell between the phases of a run, or the  *)
(* program restarted: unless the task is opened again, was closed by         *)
(* taskUpdate, or Discord refused the archiving unseen.                      *)
Closed(t) == store[t].status = "closed" /\ store[t].ref # NoThread /\ t \notin excused
ThreadOfClosedIsArchived ==
  \A t \in Task : Closed(t) ~> (~Closed(t) \/ archived[store[t].ref])
=============================================================================
