---------------------------- MODULE TaskSyncProofs ----------------------------
(***************************************************************************)
(* For every set of tasks and turns and every bound: the state of tasks,    *)
(* threads and sync keeps its shape, and no task ever has two threads.      *)
(***************************************************************************)
EXTENDS TaskSync, TLAPS

USE DEF memory, forum, run, bounds

Activity ==
  [op : {"idle", "create", "update", "close"}, task : Task \cup {NoTask},
   at : {"idle", "lock", "link", "thread"}, to : Status \cup {"none"},
   known : Record, same : BOOLEAN]

Whole(s) == \A t \in Task : s[t].status = "none" => s[t] = Absent

Types ==
  /\ TypeOK
  /\ act \in [Actor -> Activity]
  /\ Whole(store) /\ Whole(disk)

(* Who works on a thread holds the lock of its task, and so does phase 1     *)
(* between the lookup and the creation.                                      *)
Locks ==
  /\ \A a \in Actor : act[a].at # "idle" => act[a].task \in Task
  /\ \A a \in Actor : act[a].at \in {"link", "thread"} => Holds(a, act[a].task)
  /\ seen # Absent => phase = 1 /\ cur \in Task /\ Holds(Sync, cur)

HoldsKept(w) ==
  \A t \in Task : Holds(w, t) => queue'[t] # <<>> /\ Head(queue'[t]) = w

(* The references of s are to the threads that o gives the task. *)
RefersTo(s, o) == \A t \in Task : s[t].ref # NoThread => o[s[t].ref] = t

(* The threads of o have different tasks. *)
Distinct(o) == \A th, u \in Thread : o[th] = o[u] /\ o[th] # NoTask => th = u

(* Phase 5 goes through threads of tasks. *)
Links ==
  /\ Distinct(owner) /\ RefersTo(store, owner) /\ RefersTo(disk, owner)
  /\ \A f \in found : owner[f[1]] # NoTask

(* What a lookup of t returned is still what it would return. *)
Fresh(o, t, ref) ==
  IF ref = NoThread THEN \A th \in Thread : o[th] # t ELSE o[ref] = t

Looks ==
  /\ \A a \in Actor : act[a].at = "link" => Fresh(owner, act[a].task, act[a].known.ref)
  /\ seen # Absent => Fresh(owner, cur, seen.ref)

Inv == Types /\ Locks /\ Links /\ Looks

-----------------------------------------------------------------------------
(* The pieces the steps are made of. *)

LEMMA RecordType ==
  /\ Absent \in Record /\ Idle \in Activity /\ NoTasks \in [Task -> Record]
  /\ \A r \in Record : r.status \in Status \cup {"none"} /\ r.ref \in Thread \cup {NoThread}
  /\ \A r \in Record, x \in Status : [r EXCEPT !.status = x] \in Record
  /\ \A r \in Record, th \in Thread : [r EXCEPT !.ref = th] \in Record
  BY DEF Absent, Idle, NoTasks, Activity, Record, Status

(* The lookup returns the thread of the task, and none only if it has none. *)
LEMMA FindThreadIs ==
  ASSUME Types, Links, NEW t \in Task
  PROVE  FindThread(t) \in Thread \cup {NoThread} /\ Fresh(owner, t, FindThread(t))
  <1> DEFINE Mine == {th \in Thread : owner[th] = t}
             Active == {th \in Mine : ~archived[th]}
             Newest(S) == CHOOSE th \in S : \A u \in S : u <= th
  <1>1. FindThread(t) = CASE Active # {} -> Newest(Active)
                          [] Active = {} /\ Mine # {} -> Newest(Mine)
                          [] OTHER -> NoThread
    BY DEF FindThread
  <1>2. \A th, u \in Mine : th = u
    BY NamesAssumption DEF Links, Distinct
  <1>3. \A S \in SUBSET Mine : S # {} => Newest(S) \in S
    <2> SUFFICES ASSUME NEW S \in SUBSET Mine, S # {} PROVE Newest(S) \in S
      OBVIOUS
    <2>1. PICK th \in S : TRUE
      OBVIOUS
    <2>2. \A u \in S : u <= th
      BY <1>2, BoundsAssumption DEF Thread
    <2> QED
      BY <2>1, <2>2
  <1>4. NoThread \notin Thread
    BY BoundsAssumption DEF Thread
  <1> HIDE DEF Newest
  <1>5. CASE Mine = {}
    <2>1. FindThread(t) = NoThread
      BY <1>1, <1>5
    <2> QED
      BY <1>5, <2>1 DEF Fresh
  <1>6. CASE Mine # {}
    <2>1. FindThread(t) \in Mine
      BY <1>1, <1>3, <1>6
    <2> QED
      BY <1>4, <2>1 DEF Fresh
  <1> QED
    BY <1>5, <1>6

(* The reference is entered in a record that is there. *)
LEMMA StoreRefLinks ==
  ASSUME Types, NEW t \in Task, NEW th \in Thread, NEW o, o[th] = t, RefersTo(store, o),
         StoreRef(t, th)
  PROVE  store' \in [Task -> Record] /\ Whole(store') /\ RefersTo(store', o)
  <1>1. store \in [Task -> Record]
    BY DEF Types, TypeOK
  <1>2. CASE ~Exists(t)
    BY <1>1, <1>2 DEF StoreRef, Types
  <1>3. CASE Exists(t)
    <2>1. /\ store' \in [Task -> Record]
          /\ \A u \in Task : u # t => store'[u] = store[u]
          /\ store'[t].ref = th /\ store'[t].status = store[t].status
      BY <1>1, <1>3 DEF StoreRef, Record
    <2> QED
      BY <1>3, <2>1 DEF RefersTo, Whole, Types, Exists
  <1> QED
    BY <1>2, <1>3

(* One more thread, for a task without one, whose answer may be lost. *)
LEMMA CreateThreadLinks ==
  ASSUME Types, Links, NEW t \in Task, NEW s, NEW d \in BOOLEAN,
         \A th \in Thread : owner[th] # t,
         CreateThread(t, s, d)
  PROVE  /\ store' \in [Task -> Record] /\ Whole(store') /\ due' \in BOOLEAN
         /\ owner' \in [Thread -> Task \cup {NoTask}]
         /\ archived' \in [Thread -> BOOLEAN] /\ shown' \in [Thread -> {"open", "closed"}]
         /\ Distinct(owner') /\ RefersTo(store', owner') /\ RefersTo(disk, owner')
         /\ \A th \in Thread : owner[th] # NoTask => owner'[th] = owner[th]
         /\ \A th \in Thread : owner'[th] = owner[th] \/ owner'[th] = t
  <1>1. store \in [Task -> Record] /\ disk \in [Task -> Record] /\ due \in BOOLEAN
        /\ owner \in [Thread -> Task \cup {NoTask}]
        /\ archived \in [Thread -> BOOLEAN] /\ shown \in [Thread -> {"open", "closed"}]
        /\ Whole(store)
    BY DEF Types, TypeOK
  <1>2. \A u \in Task : store[u].ref \in Thread \cup {NoThread} /\ disk[u].ref \in Thread \cup {NoThread}
    BY <1>1 DEF Record
  <1>3. CASE Fault /\ due' = d /\ UNCHANGED <<store, forum>>
    BY <1>1, <1>3 DEF Links
  <1>4. CASE ~(Fault /\ due' = d /\ UNCHANGED <<store, forum>>)
    <2>1. PICK th \in Thread :
            /\ owner[th] = NoTask
            /\ owner' = [owner EXCEPT ![th] = t]
            /\ shown' = [shown EXCEPT ![th] = NameOf(s)]
            /\ UNCHANGED archived
            /\ \/ StoreRef(t, th) /\ UNCHANGED <<due, faults>>
               \/ Fault /\ due' = d /\ UNCHANGED store
      BY <1>4 DEF CreateThread
    <2>2. /\ owner'[th] = t /\ \A u \in Thread : u # th => owner'[u] = owner[u]
          /\ owner' \in [Thread -> Task \cup {NoTask}]
      BY <1>1, <2>1
    <2>3. shown' \in [Thread -> {"open", "closed"}] /\ due' \in BOOLEAN
          /\ archived' \in [Thread -> BOOLEAN]
      BY <1>1, <2>1 DEF NameOf
    <2>4. Distinct(owner')
      BY <2>2 DEF Distinct, Links
    <2>5. RefersTo(store, owner') /\ RefersTo(disk, owner')
      BY <1>2, <2>1, <2>2, NamesAssumption DEF Links, RefersTo
    <2>6. store' \in [Task -> Record] /\ Whole(store') /\ RefersTo(store', owner')
      BY <1>1, <2>1, <2>2, <2>5, StoreRefLinks
    <2> QED
      BY <2>1, <2>2, <2>3, <2>4, <2>5, <2>6
  <1> QED
    BY <1>3, <1>4

LEMMA CloseThreadType ==
  ASSUME Types, NEW t \in Task, NEW th, CloseThread(t, th)
  PROVE  /\ UNCHANGED owner /\ excused' \subseteq Task
         /\ archived' \in [Thread -> BOOLEAN] /\ shown' \in [Thread -> {"open", "closed"}]
  <1>1. /\ archived \in [Thread -> BOOLEAN] /\ shown \in [Thread -> {"open", "closed"}]
        /\ excused \subseteq Task
    BY DEF Types, TypeOK
  <1> QED
    BY <1>1 DEF CloseThread

(* A close by the sync, deferred or not, looked at first or not. *)
LEMMA ReconcileType ==
  ASSUME Types, NEW t \in Task, NEW th, CloseOrDefer(t, th) \/ ReconcileClosed(t, th)
  PROVE  /\ UNCHANGED owner /\ excused' \subseteq Task /\ sawDeferral' \in BOOLEAN
         /\ archived' \in [Thread -> BOOLEAN] /\ shown' \in [Thread -> {"open", "closed"}]
  <1>1. /\ archived \in [Thread -> BOOLEAN] /\ shown \in [Thread -> {"open", "closed"}]
        /\ excused \subseteq Task /\ sawDeferral \in BOOLEAN
    BY DEF Types, TypeOK
  <1>2. CASE CloseOrDefer(t, th)
    BY <1>1, <1>2, CloseThreadType DEF CloseOrDefer
  <1> QED
    BY <1>1, <1>2 DEF ReconcileClosed

(* Half of the store: each task is there as it is, or not at all. *)
LEMMA HalfLinks ==
  ASSUME Types, Links, NEW h \in HalfWritten
  PROVE  h \in [Task -> Record] /\ Whole(h) /\ RefersTo(h, owner)
  <1>1. PICK S \in SUBSET Task : h = [t \in Task |-> IF t \in S THEN store[t] ELSE Absent]
    BY DEF HalfWritten
  <1>2. store \in [Task -> Record] /\ Whole(store) /\ RefersTo(store, owner)
    BY DEF Types, TypeOK, Links
  <1>3. h \in [Task -> Record]
    BY <1>1, <1>2, RecordType
  <1>4. \A t \in Task : h[t] = store[t] \/ h[t] = Absent
    BY <1>1
  <1>5. Absent.ref = NoThread
    BY DEF Absent
  <1> QED
    BY <1>2, <1>3, <1>4, <1>5 DEF Whole, RefersTo

(* The lock: the first in a queue stays so when others come, and the queues  *)
(* of other tasks are left alone.                                            *)
LEMMA AppendQueue ==
  ASSUME Types, NEW t \in Task, NEW w \in Actor \cup {Sync},
         queue' = [queue EXCEPT ![t] = Append(@, w)]
  PROVE  /\ queue' \in [Task -> Seq(Actor \cup {Sync})]
         /\ \A v : HoldsKept(v)
  <1>1. queue \in [Task -> Seq(Actor \cup {Sync})]
    BY DEF Types, TypeOK
  <1>2. queue' \in [Task -> Seq(Actor \cup {Sync})]
    BY <1>1
  <1>3. ASSUME NEW v, NEW u \in Task, Holds(v, u)
        PROVE  queue'[u] # <<>> /\ Head(queue'[u]) = v
    <2>1. CASE u # t
      BY <1>1, <1>3, <2>1 DEF Holds
    <2>2. CASE u = t
      <3>1. queue[t] \in Seq(Actor \cup {Sync}) /\ queue[t] # <<>> /\ Head(queue[t]) = v
        BY <1>1, <1>3, <2>2 DEF Holds
      <3>2. queue'[t] = Append(queue[t], w)
        BY <1>1
      <3>3. Append(queue[t], w) # <<>> /\ Head(Append(queue[t], w)) = v
        BY <3>1
      <3> QED
        BY <2>2, <3>2, <3>3 DEF Holds
    <2> QED
      BY <2>1, <2>2
  <1> QED
    BY <1>2, <1>3 DEF HoldsKept

LEMMA ReleaseQueue ==
  ASSUME Types, NEW t \in Task, NEW w, Holds(w, t), Release(t)
  PROVE  /\ queue' \in [Task -> Seq(Actor \cup {Sync})]
         /\ \A v : v # w => HoldsKept(v)
  <1>1. queue \in [Task -> Seq(Actor \cup {Sync})]
    BY DEF Types, TypeOK
  <1>2. queue[t] \in Seq(Actor \cup {Sync}) /\ queue[t] # <<>>
    BY <1>1 DEF Holds
  <1>3. Tail(queue[t]) \in Seq(Actor \cup {Sync})
    BY <1>2
  <1>4. queue' \in [Task -> Seq(Actor \cup {Sync})]
        /\ \A u \in Task : u # t => queue'[u] = queue[u]
    BY <1>1, <1>3 DEF Release
  <1> QED
    BY <1>4 DEF Holds, HoldsKept

-----------------------------------------------------------------------------
(* Steps that leave threads and references alone. *)

LEMMA SameLinks ==
  ASSUME Links, UNCHANGED <<owner, store, disk, found>> PROVE Links'
  BY DEF Links

LEMMA SameLooks ==
  ASSUME Looks, Locks, UNCHANGED owner,
         \A a \in Actor : act'[a] = act[a] \/ act'[a].at # "link",
         (seen' = seen /\ cur' = cur) \/ seen' = Absent
  PROVE  Looks'
  BY DEF Looks, Fresh

LEMMA SameQueue == ASSUME UNCHANGED queue PROVE \A w : HoldsKept(w)
  BY DEF HoldsKept, Holds

(* A turn moves on, and whoever else holds a lock keeps it. *)
LEMMA ActorLocks ==
  ASSUME Locks, NEW a \in Actor,
         \A b \in Actor : b # a => act'[b] = act[b] /\ HoldsKept(b),
         \/ act'[a].at = "idle"
         \/ act'[a].at = "lock" /\ act'[a].task \in Task
         \/ /\ act'[a].task = act[a].task /\ act[a].task \in Task
            /\ Holds(a, act[a].task) /\ HoldsKept(a),
         UNCHANGED <<phase, cur, seen>>, HoldsKept(Sync)
  PROVE  Locks'
  <1>1. ASSUME NEW b \in Actor
        PROVE  /\ act'[b].at # "idle" => act'[b].task \in Task
               /\ act'[b].at \in {"link", "thread"}
                    => queue'[act'[b].task] # <<>> /\ Head(queue'[act'[b].task]) = b
    <2>1. CASE b # a
      BY <2>1 DEF Locks, HoldsKept
    <2>2. CASE b = a
      BY <2>2 DEF HoldsKept
    <2> QED
      BY <2>1, <2>2
  <1>2. seen' # Absent
          => phase' = 1 /\ cur' \in Task /\ queue'[cur'] # <<>> /\ Head(queue'[cur']) = Sync
    BY DEF Locks, HoldsKept
  <1> QED
    BY <1>1, <1>2 DEF Locks, Holds

(* The sync moves on: the turns keep their locks. *)
LEMMA SyncLocks ==
  ASSUME Locks, UNCHANGED act, \A b \in Actor : HoldsKept(b),
         \/ seen' = Absent
         \/ UNCHANGED <<phase, cur, seen>> /\ HoldsKept(Sync)
         \/ /\ UNCHANGED <<phase, cur>> /\ HoldsKept(Sync)
            /\ phase = 1 /\ cur \in Task /\ Holds(Sync, cur)
  PROVE  Locks'
  <1>1. ASSUME NEW b \in Actor
        PROVE  /\ act'[b].at # "idle" => act'[b].task \in Task
               /\ act'[b].at \in {"link", "thread"}
                    => queue'[act'[b].task] # <<>> /\ Head(queue'[act'[b].task]) = b
    BY DEF Locks, HoldsKept
  <1>2. seen' # Absent
          => phase' = 1 /\ cur' \in Task /\ queue'[cur'] # <<>> /\ Head(queue'[cur']) = Sync
    BY DEF Locks, HoldsKept
  <1> QED
    BY <1>1, <1>2 DEF Locks, Holds

-----------------------------------------------------------------------------
(* The direct actions. *)

(* A turn that is at work has its task. *)
LEMMA AtWork ==
  ASSUME Types, Locks, NEW a \in Actor, act[a].at # "idle"
  PROVE  act[a] \in Activity /\ act[a].task \in Task /\ act[a].known \in Record
  BY DEF Types, Locks, Activity

LEMMA EndsStep ==
  ASSUME Types, Locks, NEW a \in Actor, act[a].at # "idle", Holds(a, act[a].task), Ends(a),
         UNCHANGED <<phase, cur, seen>>
  PROVE  /\ act' \in [Actor -> Activity]
         /\ queue' \in [Task -> Seq(Actor \cup {Sync})]
         /\ Locks'
         /\ act'[a].at = "idle" /\ \A b \in Actor : b # a => act'[b] = act[b]
  <1>1. act' = [act EXCEPT ![a] = Idle] /\ Release(act[a].task)
    BY DEF Ends
  <1>2. act' \in [Actor -> Activity] /\ act'[a] = Idle
        /\ \A b \in Actor : b # a => act'[b] = act[b]
    BY <1>1, RecordType DEF Types
  <1>3. act[a].task \in Task
    BY AtWork
  <1>4. /\ queue' \in [Task -> Seq(Actor \cup {Sync})]
        /\ \A v : v # a => HoldsKept(v)
    BY <1>1, <1>3, ReleaseQueue
  <1>5. act'[a].at = "idle" /\ Sync # a
    BY <1>2, NamesAssumption DEF Idle
  <1>6. Locks'
    BY <1>2, <1>4, <1>5, ActorLocks
  <1> QED
    BY <1>2, <1>4, <1>5, <1>6

LEMMA MovesStep ==
  ASSUME Types, Locks, NEW a \in Actor, act[a].at # "idle", Holds(a, act[a].task),
         NEW r \in Activity, r.task = act[a].task, act' = [act EXCEPT ![a] = r],
         UNCHANGED <<queue, phase, cur, seen>>
  PROVE  /\ act' \in [Actor -> Activity]
         /\ Locks'
         /\ act'[a] = r /\ \A b \in Actor : b # a => act'[b] = act[b]
  <1>1. act' \in [Actor -> Activity] /\ act'[a] = r
        /\ \A b \in Actor : b # a => act'[b] = act[b]
    BY DEF Types
  <1>2. Locks'
    BY <1>1, AtWork, SameQueue, ActorLocks
  <1> QED
    BY <1>1, <1>2

LEMMA StartsStep ==
  ASSUME Inv, NEW a \in Actor, NEW t \in Task, NEW r \in Activity, r.task = t, r.at = "lock",
         Starts(a, t, r)
  PROVE  /\ act' \in [Actor -> Activity]
         /\ queue' \in [Task -> Seq(Actor \cup {Sync})]
         /\ Locks' /\ Looks'
  <1>1. act' = [act EXCEPT ![a] = r] /\ queue' = [queue EXCEPT ![t] = Append(@, a)]
        /\ UNCHANGED <<owner, phase, cur, seen>>
    BY DEF Starts
  <1>2. act' \in [Actor -> Activity] /\ act'[a] = r
        /\ \A b \in Actor : b # a => act'[b] = act[b]
    BY <1>1 DEF Inv, Types
  <1>3. queue' \in [Task -> Seq(Actor \cup {Sync})] /\ \A v : HoldsKept(v)
    BY <1>1, AppendQueue DEF Inv
  <1>4. Locks'
    BY <1>1, <1>2, <1>3, ActorLocks DEF Inv
  <1>5. Looks'
    BY <1>1, <1>2, SameLooks DEF Inv
  <1> QED
    BY <1>2, <1>3, <1>4, <1>5

LEMMA RequestInv == ASSUME Inv, NEW a \in Actor, Requested(a) PROVE Inv'
  <1>1. store \in [Task -> Record] /\ disk \in [Task -> Record] /\ excused \subseteq Task
    BY DEF Inv, Types, TypeOK
  <1>2. PICK t \in Task :
          \/ Create(a, t)
          \/ \E s \in {"open", "closed", "none"} : Update(a, t, s)
          \/ \E same \in BOOLEAN : Close(a, t, same)
    BY DEF Requested
  <1>3. CASE Create(a, t)
    <2> DEFINE r == [Idle EXCEPT !.op = "create", !.task = t, !.at = "lock"]
    <2>1. r \in Activity /\ r.task = t /\ r.at = "lock"
      BY DEF Idle, Activity, Absent, Record
    <2>2. Starts(a, t, r)
      BY <1>3 DEF Create
    <2> HIDE DEF r
    <2>3. /\ act' \in [Actor -> Activity]
          /\ queue' \in [Task -> Seq(Actor \cup {Sync})]
          /\ Locks' /\ Looks'
      BY <2>1, <2>2, StartsStep
    <2>4. store' \in [Task -> Record] /\ Whole(store') /\ RefersTo(store', owner)
          /\ excused' \subseteq Task
      <3>1. [status |-> "open", ref |-> NoThread] \in Record
        BY DEF Record, Status
      <3>2. store' = [store EXCEPT ![t] = [status |-> "open", ref |-> NoThread]]
        BY <1>3 DEF Create
      <3>3. store' \in [Task -> Record] /\ store'[t].status = "open" /\ store'[t].ref = NoThread
            /\ \A u \in Task : u # t => store'[u] = store[u]
        BY <1>1, <3>1, <3>2
      <3> QED
        BY <1>1, <1>3, <3>3 DEF Create, Whole, RefersTo, Inv, Types, Links
    <2>5. Links'
      BY <2>2, <2>4 DEF Starts, Inv, Links
    <2>6. Types'
      BY <2>2, <2>3, <2>4 DEF Starts, Inv, Types, TypeOK, Activity, Exists, Whole
    <2> QED
      BY <2>3, <2>5, <2>6 DEF Inv
  <1>4. ASSUME NEW s \in {"open", "closed", "none"}, Update(a, t, s) PROVE Inv'
    <2> DEFINE r == [Idle EXCEPT !.op = "update", !.task = t, !.at = "lock", !.to = s]
    <2>1. r \in Activity /\ r.task = t /\ r.at = "lock"
      BY DEF Idle, Activity, Absent, Record, Status
    <2>2. Starts(a, t, r) /\ UNCHANGED <<store, excused>>
      BY <1>4 DEF Update
    <2> HIDE DEF r
    <2>3. /\ act' \in [Actor -> Activity]
          /\ queue' \in [Task -> Seq(Actor \cup {Sync})]
          /\ Locks' /\ Looks'
      BY <2>1, <2>2, StartsStep
    <2>4. Links'
      BY <2>2, SameLinks DEF Starts, Inv
    <2>5. Types'
      BY <2>2, <2>3 DEF Starts, Inv, Types, TypeOK, Activity, Exists
    <2> QED
      BY <2>3, <2>4, <2>5 DEF Inv
  <1>5. ASSUME NEW same \in BOOLEAN, Close(a, t, same) PROVE Inv'
    <2> DEFINE r == [Idle EXCEPT !.op = "close", !.task = t, !.at = "lock",
                                 !.known = store[t], !.same = same]
    <2>1. r \in Activity /\ r.task = t /\ r.at = "lock"
      BY <1>1 DEF Idle, Activity, Absent, Record, Status
    <2>2. Starts(a, t, r) /\ UNCHANGED <<store, excused>>
      BY <1>5 DEF Close
    <2> HIDE DEF r
    <2>3. /\ act' \in [Actor -> Activity]
          /\ queue' \in [Task -> Seq(Actor \cup {Sync})]
          /\ Locks' /\ Looks'
      BY <2>1, <2>2, StartsStep
    <2>4. Links'
      BY <2>2, SameLinks DEF Starts, Inv
    <2>5. Types'
      BY <2>2, <2>3 DEF Starts, Inv, Types, TypeOK, Activity, Exists
    <2> QED
      BY <2>3, <2>4, <2>5 DEF Inv
  <1> QED
    BY <1>2, <1>3, <1>4, <1>5

LEMMA CreateLooksInv == ASSUME Inv, NEW a \in Actor, CreateLooks(a) PROVE Inv'
  <1> DEFINE t == act[a].task
  <1>1. act[a].at = "lock" /\ Holds(a, t)
        /\ UNCHANGED <<store, disk, forum, run, due, busy, excused>>
    BY DEF CreateLooks
  <1>2. act[a] \in Activity /\ t \in Task
    BY <1>1, AtWork DEF Inv
  <1>3. Links'
    BY <1>1, SameLinks DEF Inv
  <1>4. CASE store[t].ref # NoThread
    <2>1. Ends(a)
      BY <1>4 DEF CreateLooks
    <2>2. /\ act' \in [Actor -> Activity]
          /\ queue' \in [Task -> Seq(Actor \cup {Sync})]
          /\ Locks' /\ act'[a].at = "idle" /\ \A b \in Actor : b # a => act'[b] = act[b]
      BY <1>1, <2>1, EndsStep DEF Inv
    <2>3. Looks'
      BY <1>1, <2>2, SameLooks DEF Inv
    <2>4. Types'
      BY <1>1, <2>2 DEF Inv, Types, TypeOK, Activity, Exists
    <2> QED
      BY <1>3, <2>2, <2>3, <2>4 DEF Inv
  <1>5. CASE store[t].ref = NoThread
    <2> DEFINE k == [status |-> IF Exists(t) THEN store[t].status ELSE "open",
                     ref |-> FindThread(t)]
               r == [act[a] EXCEPT !.at = "link", !.known = k]
    <2>1. FindThread(t) \in Thread \cup {NoThread} /\ Fresh(owner, t, FindThread(t))
      BY <1>2, FindThreadIs DEF Inv
    <2>2. store[t] \in Record
      BY <1>2 DEF Inv, Types, TypeOK
    <2>3. k \in Record /\ k.ref = FindThread(t)
      BY <2>1, <2>2 DEF Record, Status
    <2>4. act' = [act EXCEPT ![a].at = "link", ![a].known = k] /\ UNCHANGED queue
      BY <1>5 DEF CreateLooks
    <2> HIDE DEF k
    <2>5. r \in Activity /\ r.task = t /\ r.at = "link" /\ r.known = k
      BY <1>2, <2>3 DEF Activity
    <2>6. act' = [act EXCEPT ![a] = r]
      BY <1>2, <2>4 DEF Inv, Types
    <2> HIDE DEF r
    <2>7. /\ act' \in [Actor -> Activity] /\ Locks'
          /\ act'[a] = r /\ \A b \in Actor : b # a => act'[b] = act[b]
      BY <1>1, <2>4, <2>5, <2>6, MovesStep DEF Inv
    <2>8. Looks'
      BY <1>1, <2>1, <2>3, <2>5, <2>7 DEF Inv, Looks
    <2>9. Types'
      BY <1>1, <2>4, <2>7 DEF Inv, Types, TypeOK, Activity, Exists
    <2> QED
      BY <1>3, <2>7, <2>8, <2>9 DEF Inv
  <1> QED
    BY <1>4, <1>5
(* A new thread of one task does not change what a lookup for another one    *)
(* would return.                                                             *)
LEMMA OtherFresh ==
  ASSUME NEW o, NEW p, NEW t \in Task, NEW u \in Task, u # t, NEW ref \in Thread \cup {NoThread},
         Fresh(o, u, ref),
         \A th \in Thread : o[th] # NoTask => p[th] = o[th],
         \A th \in Thread : p[th] = o[th] \/ p[th] = t
  PROVE  Fresh(p, u, ref)
  BY NamesAssumption DEF Fresh

(* What CreateThread and StoreRef leave behind. *)
Linked(t) ==
  /\ store' \in [Task -> Record] /\ Whole(store') /\ due' \in BOOLEAN
  /\ owner' \in [Thread -> Task \cup {NoTask}]
  /\ archived' \in [Thread -> BOOLEAN] /\ shown' \in [Thread -> {"open", "closed"}]
  /\ Distinct(owner') /\ RefersTo(store', owner') /\ RefersTo(disk, owner')
  /\ \A th \in Thread : owner[th] # NoTask => owner'[th] = owner[th]
  /\ \A th \in Thread : owner'[th] = owner[th] \/ owner'[th] = t

(* The second half of both ways to a thread: the lookup is still fresh. *)
LEMMA LinkStep ==
  ASSUME Inv, NEW t \in Task, NEW ref \in Thread \cup {NoThread}, Fresh(owner, t, ref),
         NEW s, NEW d \in BOOLEAN,
         IF ref # NoThread THEN StoreRef(t, ref) /\ UNCHANGED <<forum, faults, due>>
                           ELSE CreateThread(t, s, d)
  PROVE  Linked(t)
  <1>1. CASE ref # NoThread
    <2>1. owner[ref] = t /\ ref \in Thread
      BY <1>1 DEF Fresh
    <2>2. store' \in [Task -> Record] /\ Whole(store') /\ RefersTo(store', owner)
      BY <1>1, <2>1, StoreRefLinks DEF Inv, Links
    <2> QED
      BY <1>1, <2>2 DEF Linked, Inv, Types, TypeOK, Links
  <1>2. CASE ref = NoThread
    <2>1. \A th \in Thread : owner[th] # t
      BY <1>2 DEF Fresh
    <2> QED
      BY <1>2, <2>1, CreateThreadLinks DEF Linked, Inv
  <1> QED
    BY <1>1, <1>2

LEMMA CreateLinksInv == ASSUME Inv, NEW a \in Actor, CreateLinks(a) PROVE Inv'
  <1> DEFINE t == act[a].task
             k == act[a].known
  <1>1. /\ act[a].at = "link" /\ Ends(a)
        /\ UNCHANGED <<disk, run, busy, excused>>
    BY DEF CreateLinks
  <1>2. /\ t \in Task /\ k.ref \in Thread \cup {NoThread}
        /\ Holds(a, t) /\ Fresh(owner, t, k.ref)
    BY <1>1, AtWork, RecordType DEF Inv, Locks, Looks
  <1>3. Linked(t)
    BY <1>2, LinkStep DEF CreateLinks
  <1>4. /\ act' \in [Actor -> Activity]
        /\ queue' \in [Task -> Seq(Actor \cup {Sync})]
        /\ Locks' /\ act'[a].at = "idle" /\ \A b \in Actor : b # a => act'[b] = act[b]
    BY <1>1, <1>2, EndsStep DEF Inv
  <1>5. Looks'
    <2>1. ASSUME NEW b \in Actor, act'[b].at = "link"
          PROVE  Fresh(owner', act'[b].task, act'[b].known.ref)
      <3>1. b # a /\ act'[b] = act[b]
        BY <1>4, <2>1
      <3>2. /\ act[b].task \in Task /\ act[b].known.ref \in Thread \cup {NoThread}
            /\ Holds(b, act[b].task) /\ Fresh(owner, act[b].task, act[b].known.ref)
        BY <2>1, <3>1, AtWork, RecordType DEF Inv, Locks, Looks
      <3>3. act[b].task # t
        BY <1>2, <3>1, <3>2 DEF Holds
      <3> DEFINE u == act[b].task
                 ref == act[b].known.ref
      <3>4. t \in Task /\ u \in Task /\ u # t /\ ref \in Thread \cup {NoThread} /\ Fresh(owner, u, ref)
        BY <1>2, <3>2, <3>3
      <3>5. /\ \A th \in Thread : owner[th] # NoTask => owner'[th] = owner[th]
            /\ \A th \in Thread : owner'[th] = owner[th] \/ owner'[th] = t
        BY <1>3 DEF Linked
      <3> HIDE DEF t, u, ref
      <3>6. Fresh(owner', u, ref)
        BY <3>4, <3>5, OtherFresh
      <3> QED
        BY <3>1, <3>6 DEF u, ref
    <2>2. ASSUME seen # Absent PROVE Fresh(owner', cur, seen.ref)
      <3>1. /\ cur \in Task /\ seen.ref \in Thread \cup {NoThread}
            /\ Holds(Sync, cur) /\ Fresh(owner, cur, seen.ref)
        BY <2>2, RecordType DEF Inv, Locks, Looks, Types, TypeOK
      <3>2. cur # t
        BY <1>2, <3>1, NamesAssumption DEF Holds
      <3> DEFINE ref == seen.ref
      <3>3. /\ t \in Task /\ cur \in Task /\ cur # t /\ ref \in Thread \cup {NoThread}
            /\ Fresh(owner, cur, ref)
        BY <1>2, <3>1, <3>2
      <3>4. /\ \A th \in Thread : owner[th] # NoTask => owner'[th] = owner[th]
            /\ \A th \in Thread : owner'[th] = owner[th] \/ owner'[th] = t
        BY <1>3 DEF Linked
      <3> HIDE DEF t, ref
      <3>5. Fresh(owner', cur, ref)
        BY <3>3, <3>4, OtherFresh
      <3> QED
        BY <3>5 DEF ref
    <2> QED
      BY <1>1, <2>1, <2>2 DEF Looks
  <1>6. Links'
    BY <1>1, <1>3 DEF Linked, Links, Inv, Types, TypeOK
  <1>7. Types'
    BY <1>1, <1>3, <1>4 DEF Linked, Inv, Types, TypeOK, Activity, Exists, Whole
  <1> QED
    BY <1>4, <1>5, <1>6, <1>7 DEF Inv

(* A status is written: the references stay what they are. *)
LEMMA StatusLinks ==
  ASSUME Inv, NEW t \in Task, NEW x \in Status, Exists(t),
         store' = [store EXCEPT ![t] = [store[t] EXCEPT !.status = x]]
  PROVE  store' \in [Task -> Record] /\ Whole(store') /\ RefersTo(store', owner)
  <1>1. store \in [Task -> Record] /\ store[t] \in Record
    BY DEF Inv, Types, TypeOK
  <1>2. /\ store' \in [Task -> Record]
        /\ store'[t].status = x /\ store'[t].ref = store[t].ref
        /\ \A u \in Task : u # t => store'[u] = store[u]
    BY <1>1 DEF Record
  <1>3. x # "none"
    BY DEF Status
  <1>4. Whole(store')
    BY <1>2, <1>3 DEF Whole, Inv, Types
  <1>5. RefersTo(store', owner)
    BY <1>2 DEF RefersTo, Inv, Links
  <1> QED
    BY <1>2, <1>4, <1>5

(* A turn ends or goes to the thread, without touching threads' owners.      *)
LEMMA QuietActor ==
  ASSUME Inv, NEW a \in Actor, act[a].at # "idle", Holds(a, act[a].task),
         UNCHANGED <<owner, disk, run, busy>>, due' \in BOOLEAN, excused' \subseteq Task,
         archived' \in [Thread -> BOOLEAN], shown' \in [Thread -> {"open", "closed"}],
         store' \in [Task -> Record], Whole(store'), RefersTo(store', owner),
         \/ Ends(a)
         \/ \E r \in Activity :
              /\ r.task = act[a].task /\ r.at = "thread"
              /\ act' = [act EXCEPT ![a] = r] /\ UNCHANGED queue
  PROVE  Inv'
  <1>1. /\ act' \in [Actor -> Activity]
        /\ queue' \in [Task -> Seq(Actor \cup {Sync})]
        /\ Locks' /\ act'[a].at # "link" /\ \A b \in Actor : b # a => act'[b] = act[b]
    <2>1. CASE Ends(a)
      BY <2>1, EndsStep DEF Inv
    <2>2. CASE ~Ends(a)
      <3>1. PICK r \in Activity :
              /\ r.task = act[a].task /\ r.at = "thread"
              /\ act' = [act EXCEPT ![a] = r] /\ UNCHANGED queue
        BY <2>2
      <3> QED
        BY <3>1, MovesStep DEF Inv, Types, TypeOK
    <2> QED
      BY <2>1, <2>2
  <1>2. Looks'
    BY <1>1, SameLooks DEF Inv
  <1>3. Links'
    BY DEF Inv, Links
  <1>4. Types'
    BY <1>1 DEF Inv, Types, TypeOK, Activity, Exists, Whole
  <1> QED
    BY <1>1, <1>2, <1>3, <1>4 DEF Inv

LEMMA UpdateInv ==
  ASSUME Inv, NEW a \in Actor, UpdateWrites(a) \/ UpdateThread(a) PROVE Inv'
  <1>0. /\ store \in [Task -> Record] /\ disk \in [Task -> Record] /\ due \in BOOLEAN
        /\ excused \subseteq Task /\ Whole(store) /\ RefersTo(store, owner)
        /\ archived \in [Thread -> BOOLEAN] /\ shown \in [Thread -> {"open", "closed"}]
    BY DEF Inv, Types, TypeOK, Links
  <1>1. CASE UpdateWrites(a)
    <2> DEFINE t == act[a].task
    <2>1. act[a].at = "lock" /\ Holds(a, t) /\ UNCHANGED <<disk, forum, run, due, busy>>
      BY <1>1 DEF UpdateWrites
    <2>2. act[a] \in Activity /\ t \in Task
      BY <2>1, AtWork DEF Inv
    <2>3. CASE ~Exists(t)
      BY <1>0, <1>1, <2>1, <2>3, QuietActor DEF UpdateWrites
    <2>4. CASE Exists(t)
      <3> DEFINE x == IF act[a].to = "none" THEN store[t].status ELSE act[a].to
                 r == [store[t] EXCEPT !.status = x]
                 m == [act[a] EXCEPT !.at = "thread", !.known = r]
      <3>1. x \in Status /\ store[t] \in Record
        BY <1>0, <2>2, <2>4 DEF Exists, Record, Activity
      <3>2. r \in Record
        BY <3>1, RecordType
      <3>3. /\ store' = [store EXCEPT ![t] = r] /\ excused' = Excuse(t, r)
            /\ \/ Ends(a)
               \/ act' = [act EXCEPT ![a].at = "thread", ![a].known = r] /\ UNCHANGED queue
        BY <1>1, <2>4 DEF UpdateWrites
      <3> HIDE DEF x
      <3>4. store' \in [Task -> Record] /\ Whole(store') /\ RefersTo(store', owner)
        BY <2>2, <2>4, <3>1, <3>3, StatusLinks
      <3> HIDE DEF r
      <3>5. m \in Activity /\ m.task = t /\ m.at = "thread"
        BY <2>2, <3>2 DEF Activity
      <3>6. Ends(a) \/ (act' = [act EXCEPT ![a] = m] /\ UNCHANGED queue)
        BY <2>2, <3>3 DEF Inv, Types
      <3> HIDE DEF m
      <3>7. excused' \subseteq Task
        BY <1>0, <2>2, <3>3 DEF Excuse
      <3> QED
        BY <1>0, <2>1, <3>4, <3>5, <3>6, <3>7, QuietActor
    <2> QED
      BY <2>3, <2>4
  <1>2. CASE UpdateThread(a)
    <2>1. act[a].at = "thread" /\ Ends(a) /\ UNCHANGED <<store, disk, owner, run, busy>>
      BY <1>2 DEF UpdateThread
    <2>2. act[a].task \in Task /\ Holds(a, act[a].task)
      BY <2>1, AtWork DEF Inv, Locks
    <2>3. /\ due' \in BOOLEAN /\ excused' \subseteq Task
          /\ archived' \in [Thread -> BOOLEAN] /\ shown' \in [Thread -> {"open", "closed"}]
      BY <1>0, <1>2, <2>2 DEF UpdateThread, Excuse, NameOf
    <2> QED
      BY <1>0, <2>1, <2>2, <2>3, QuietActor
  <1> QED
    BY <1>1, <1>2

LEMMA CloseInv ==
  ASSUME Inv, NEW a \in Actor, CloseWrites(a) \/ CloseDefers(a) \/ CloseCloses(a) PROVE Inv'
  <1>0. /\ store \in [Task -> Record] /\ disk \in [Task -> Record] /\ due \in BOOLEAN
        /\ excused \subseteq Task /\ Whole(store) /\ RefersTo(store, owner)
        /\ archived \in [Thread -> BOOLEAN] /\ shown \in [Thread -> {"open", "closed"}]
    BY DEF Inv, Types, TypeOK, Links
  <1>1. CASE CloseWrites(a)
    <2> DEFINE t == act[a].task
               k == act[a].known
               r == IF k.status = "closed" THEN k ELSE [store[t] EXCEPT !.status = "closed"]
               m == [act[a] EXCEPT !.at = "thread", !.known = r]
    <2>1. act[a].at = "lock" /\ Holds(a, t) /\ UNCHANGED <<disk, forum, run, due, busy>>
      BY <1>1 DEF CloseWrites
    <2>2. act[a] \in Activity /\ t \in Task /\ k \in Record /\ store[t] \in Record
      BY <1>0, <2>1, AtWork DEF Inv
    <2>3. r \in Record
      BY <2>2, RecordType DEF Status
    <2>4. excused' \subseteq Task
      BY <1>0, <1>1 DEF CloseWrites
    <2>5. store' \in [Task -> Record] /\ Whole(store') /\ RefersTo(store', owner)
      <3>1. CASE store' = store
        BY <1>0, <3>1
      <3>2. CASE store' # store
        <4>1. Exists(t) /\ store' = [store EXCEPT ![t] = [store[t] EXCEPT !.status = "closed"]]
          BY <1>1, <3>2 DEF CloseWrites
        <4> QED
          BY <2>2, <4>1, StatusLinks DEF Status
      <3> QED
        BY <3>1, <3>2
    <2>6. \/ Ends(a)
          \/ act' = [act EXCEPT ![a].at = "thread", ![a].known = r] /\ UNCHANGED queue
      BY <1>1 DEF CloseWrites
    <2> HIDE DEF r
    <2>7. m \in Activity /\ m.task = t /\ m.at = "thread"
      BY <2>2, <2>3 DEF Activity
    <2>8. Ends(a) \/ (act' = [act EXCEPT ![a] = m] /\ UNCHANGED queue)
      BY <2>2, <2>6 DEF Inv, Types
    <2> HIDE DEF m
    <2> QED
      BY <1>0, <2>1, <2>4, <2>5, <2>7, <2>8, QuietActor
  <1>2. CASE CloseDefers(a)
    <2>1. act[a].at = "thread" /\ Ends(a) /\ UNCHANGED <<store, disk, forum, run, busy, excused>>
          /\ due' = TRUE
      BY <1>2 DEF CloseDefers
    <2>2. Holds(a, act[a].task)
      BY <2>1 DEF Inv, Locks
    <2> QED
      BY <1>0, <2>1, <2>2, QuietActor
  <1>3. CASE CloseCloses(a)
    <2>1. /\ act[a].at = "thread" /\ Ends(a) /\ UNCHANGED <<store, disk, run, due, busy>>
          /\ CloseThread(act[a].task, act[a].known.ref)
      BY <1>3 DEF CloseCloses
    <2>2. act[a].task \in Task /\ Holds(a, act[a].task)
      BY <2>1, AtWork DEF Inv, Locks
    <2>3. /\ UNCHANGED owner /\ excused' \subseteq Task
          /\ archived' \in [Thread -> BOOLEAN] /\ shown' \in [Thread -> {"open", "closed"}]
      BY <2>1, <2>2, CloseThreadType DEF Inv
    <2> QED
      BY <1>0, <2>1, <2>2, <2>3, QuietActor
  <1> QED
    BY <1>1, <1>2, <1>3

-----------------------------------------------------------------------------
(* The sync run. *)

(* Outside phase 1, or without a task, nothing has been looked up. *)
LEMMA NothingSeen == ASSUME Locks, phase # 1 \/ cur = NoTask PROVE seen = Absent
  BY NamesAssumption DEF Locks

(* What the steps of a run keep. *)
RunTypes ==
  /\ phase' \in 0..5 /\ snap' \in [Task -> Record] /\ todo' \subseteq Task
  /\ cur' \in Task \cup {NoTask} /\ seen' \in Record /\ found' \subseteq Thread \X BOOLEAN
  /\ sawDeferral' \in BOOLEAN /\ due' \in BOOLEAN /\ excused' \subseteq Task
  /\ archived' \in [Thread -> BOOLEAN] /\ shown' \in [Thread -> {"open", "closed"}]

(* A step of the run that creates no thread. *)
LEMMA QuietSync ==
  ASSUME Inv, UNCHANGED <<owner, disk, act, busy>>, RunTypes,
         store' \in [Task -> Record], Whole(store'), RefersTo(store', owner),
         \A f \in found' : owner[f[1]] # NoTask,
         queue' \in [Task -> Seq(Actor \cup {Sync})], \A b \in Actor : HoldsKept(b),
         \/ seen' = Absent
         \/ /\ UNCHANGED <<phase, cur>> /\ HoldsKept(Sync)
            /\ phase = 1 /\ cur \in Task /\ Holds(Sync, cur) /\ Fresh(owner, cur, seen'.ref)
  PROVE  Inv'
  <1>1. Locks'
    BY SyncLocks DEF Inv
  <1>2. Looks'
    BY DEF Inv, Looks
  <1>3. Links'
    BY DEF Inv, Links
  <1>4. Types'
    BY DEF Inv, Types, TypeOK, RunTypes, Activity, Exists, Whole
  <1> QED
    BY <1>1, <1>2, <1>3, <1>4 DEF Inv

LEMMA BucketType == ASSUME NEW p, NEW S PROVE Bucket(p, S) \subseteq Task
  BY DEF Bucket

LEMMA PhaseInv ==
  ASSUME Inv,
         \/ SyncStart \/ NextPhase \/ (\E t \in Task : Take(t) \/ Block(t))
         \/ Phase5Plans \/ SyncEnd
  PROVE  Inv'
  <1>0. /\ store \in [Task -> Record] /\ Whole(store) /\ RefersTo(store, owner)
        /\ queue \in [Task -> Seq(Actor \cup {Sync})]
        /\ phase \in 0..5 /\ snap \in [Task -> Record] /\ todo \subseteq Task
        /\ cur \in Task \cup {NoTask} /\ seen \in Record /\ found \subseteq Thread \X BOOLEAN
        /\ sawDeferral \in BOOLEAN /\ due \in BOOLEAN /\ excused \subseteq Task
        /\ archived \in [Thread -> BOOLEAN] /\ shown \in [Thread -> {"open", "closed"}]
        /\ \A f \in found : owner[f[1]] # NoTask
    BY DEF Inv, Types, TypeOK, Links
  <1>1. CASE SyncStart
    <2>1. seen' = Absent
      BY <1>1, NothingSeen DEF SyncStart, Inv
    <2>2. /\ UNCHANGED <<owner, disk, act, busy, store, found, queue, cur, excused, archived, shown>>
          /\ phase' = 1 /\ snap' = store /\ todo' = Bucket(1, store)
          /\ due' = FALSE /\ sawDeferral' = FALSE
      BY <1>1 DEF SyncStart
    <2>3. todo' \subseteq Task
      BY <2>2, BucketType
    <2>4. due' \in BOOLEAN /\ sawDeferral' \in BOOLEAN
      BY <2>2
    <2>5. phase' \in 0..5 /\ snap' \in [Task -> Record] /\ seen' \in Record
      BY <1>0, <2>1, <2>2, RecordType
    <2>6. UNCHANGED <<cur, found, excused, archived, shown>>
      BY <2>2
    <2>7. RunTypes
      BY <1>0, <2>3, <2>4, <2>5, <2>6 DEF RunTypes
    <2> QED
      BY <1>0, <2>1, <2>2, <2>7, SameQueue, QuietSync
  <1>2. CASE NextPhase
    <2>1. seen' = Absent
      BY <1>2, NothingSeen DEF NextPhase, Inv
    <2>2. phase' \in 0..5 /\ todo' \subseteq Task
      BY <1>0, <1>2, BucketType DEF NextPhase
    <2>3. UNCHANGED <<owner, disk, act, busy, store, found, queue>> /\ RunTypes
      BY <1>0, <1>2, <2>1, <2>2 DEF NextPhase, RunTypes
    <2> QED
      BY <1>0, <2>1, <2>3, SameQueue, QuietSync
  <1>3. ASSUME NEW t \in Task, Take(t) PROVE Inv'
    <2>1. seen' = Absent
      BY <1>3, NothingSeen DEF Take, Inv
    <2>2. UNCHANGED <<owner, disk, act, busy, store, found>> /\ RunTypes
      BY <1>0, <1>3, <2>1 DEF Take, RunTypes
    <2>3. queue' \in [Task -> Seq(Actor \cup {Sync})] /\ \A v : HoldsKept(v)
      BY <1>3, AppendQueue DEF Take, Inv
    <2> QED
      BY <1>0, <2>1, <2>2, <2>3, QuietSync
  <1>4. ASSUME NEW t \in Task, Block(t) PROVE Inv'
    <2>1. seen' = Absent
      BY <1>4, NothingSeen DEF Block, Inv
    <2>2. snap' \in [Task -> Record]
      <3>1. [snap[t] EXCEPT !.status = "blocked"] \in Record
        BY <1>0, RecordType DEF Status
      <3>2. snap' = [snap EXCEPT ![t] = [snap[t] EXCEPT !.status = "blocked"]] \/ snap' = snap
        BY <1>4 DEF Block
      <3> QED
        BY <1>0, <3>1, <3>2
    <2>3. UNCHANGED <<owner, disk, act, busy, found, queue>> /\ RunTypes
      BY <1>0, <1>4, <2>1, <2>2 DEF Block, RunTypes
    <2>4. store' \in [Task -> Record] /\ Whole(store') /\ RefersTo(store', owner)
      <3>1. CASE ~Exists(t)
        BY <1>0, <1>4, <3>1 DEF Block
      <3>2. CASE Exists(t)
        <4>1. store' = [store EXCEPT ![t] = [store[t] EXCEPT !.status = "blocked"]]
          BY <1>4, <3>2 DEF Block
        <4> QED
          BY <3>2, <4>1, StatusLinks DEF Status
      <3> QED
        BY <3>1, <3>2
    <2> QED
      BY <1>0, <2>1, <2>3, <2>4, SameQueue, QuietSync
  <1>5. CASE Phase5Plans
    <2>1. seen' = Absent
      BY <1>5, NothingSeen DEF Phase5Plans, Inv
    <2>2. found' \subseteq Thread \X BOOLEAN /\ \A f \in found' : owner[f[1]] # NoTask
      <3>1. PICK S \in SUBSET ClosedThreads : found' = Planned(S)
        <4>1. CASE found' = {}
          BY <4>1 DEF Planned
        <4> QED
          BY <1>5, <4>1 DEF Phase5Plans
      <3>2. \A th \in S : th \in Thread /\ archived[th] \in BOOLEAN /\ owner[th] # NoTask
        BY <1>0, <3>1 DEF ClosedThreads
      <3> QED
        BY <3>1, <3>2 DEF Planned
    <2>3. UNCHANGED <<owner, disk, act, busy, store, queue>> /\ RunTypes
      BY <1>0, <1>5, <2>1, <2>2 DEF Phase5Plans, RunTypes
    <2> QED
      BY <1>0, <2>1, <2>2, <2>3, SameQueue, QuietSync
  <1>6. CASE SyncEnd
    <2>1. seen' = Absent
      BY <1>6, NothingSeen DEF SyncEnd, Inv
    <2>2. due' \in BOOLEAN /\ snap' \in [Task -> Record]
      BY <1>0, <1>6, RecordType DEF SyncEnd
    <2>3. UNCHANGED <<owner, disk, act, busy, store, found, queue>> /\ RunTypes
      BY <1>0, <1>6, <2>1, <2>2 DEF SyncEnd, RunTypes
    <2> QED
      BY <1>0, <2>1, <2>3, SameQueue, QuietSync
  <1> QED
    BY <1>1, <1>2, <1>3, <1>4, <1>5, <1>6

(* The run gives its task back. *)
LEMMA DoneQueue ==
  ASSUME Inv, cur # NoTask, Holds(Sync, cur), Done
  PROVE  /\ cur \in Task /\ cur' = NoTask
         /\ queue' \in [Task -> Seq(Actor \cup {Sync})]
         /\ \A b \in Actor : HoldsKept(b)
  <1>1. cur \in Task
    BY DEF Inv, Types, TypeOK
  <1>2. Release(cur) /\ cur' = NoTask
    BY DEF Done
  <1> QED
    BY <1>1, <1>2, ReleaseQueue, NamesAssumption DEF Inv

LEMMA LatestType == ASSUME Inv, NEW t \in Task PROVE Latest(t) \in Record
  BY DEF Inv, Types, TypeOK, Latest

LEMMA LockedInv ==
  ASSUME Inv, Phase1Looks \/ Phase3Renames \/ Phase4Closes
  PROVE  Inv'
  <1>0. /\ store \in [Task -> Record] /\ Whole(store) /\ RefersTo(store, owner)
        /\ queue \in [Task -> Seq(Actor \cup {Sync})]
        /\ phase \in 0..5 /\ snap \in [Task -> Record] /\ todo \subseteq Task
        /\ cur \in Task \cup {NoTask} /\ seen \in Record /\ found \subseteq Thread \X BOOLEAN
        /\ sawDeferral \in BOOLEAN /\ due \in BOOLEAN /\ excused \subseteq Task
        /\ archived \in [Thread -> BOOLEAN] /\ shown \in [Thread -> {"open", "closed"}]
        /\ \A f \in found : owner[f[1]] # NoTask
    BY DEF Inv, Types, TypeOK, Links
  <1>1. CASE Phase1Looks
    <2>1. /\ phase = 1 /\ cur # NoTask /\ cur \in Task /\ Holds(Sync, cur) /\ seen = Absent
          /\ UNCHANGED <<store, disk, forum, act, phase, snap, todo, found, sawDeferral, due, busy,
                         excused>>
      BY <1>0, <1>1 DEF Phase1Looks, Locked
    <2>2. CASE Done /\ UNCHANGED seen
      <3>1. RunTypes
        BY <1>0, <2>1, <2>2, DoneQueue DEF RunTypes
      <3> QED
        BY <1>0, <2>1, <2>2, <3>1, DoneQueue, QuietSync
    <2>3. CASE ~(Done /\ UNCHANGED seen)
      <3>1. /\ seen' = [status |-> Latest(cur).status, ref |-> FindThread(cur)]
            /\ UNCHANGED <<queue, cur>>
        BY <1>1, <2>3 DEF Phase1Looks
      <3>2. Latest(cur) \in Record
        BY <2>1, LatestType
      <3>3. FindThread(cur) \in Thread \cup {NoThread} /\ Fresh(owner, cur, FindThread(cur))
        BY <2>1, FindThreadIs DEF Inv
      <3>4. seen' \in Record /\ seen'.ref = FindThread(cur)
        BY <3>1, <3>2, <3>3 DEF Record
      <3>5. RunTypes
        BY <1>0, <2>1, <3>1, <3>4 DEF RunTypes
      <3> QED
        BY <1>0, <2>1, <3>1, <3>3, <3>4, <3>5, SameQueue, QuietSync
    <2> QED
      BY <2>2, <2>3
  <1>2. CASE Phase3Renames
    <2>1. /\ phase = 3 /\ cur # NoTask /\ Holds(Sync, cur) /\ Done
          /\ UNCHANGED <<store, disk, owner, archived, act, phase, snap, todo, seen, found,
                         sawDeferral, due, busy, excused>>
      BY <1>2 DEF Phase3Renames, Locked
    <2>2. shown' \in [Thread -> {"open", "closed"}]
      BY <1>0, <1>2 DEF Phase3Renames
    <2>3. seen' = Absent /\ RunTypes
      BY <1>0, <2>1, <2>2, DoneQueue, NothingSeen DEF RunTypes, Inv
    <2> QED
      BY <1>0, <2>1, <2>3, DoneQueue, QuietSync
  <1>3. CASE Phase4Closes
    <2>1. /\ phase = 4 /\ cur # NoTask /\ cur \in Task /\ Holds(Sync, cur) /\ Done
          /\ UNCHANGED <<store, disk, act, phase, snap, todo, seen, found, due, busy>>
      BY <1>0, <1>3 DEF Phase4Closes, Locked
    <2>2. /\ UNCHANGED owner /\ excused' \subseteq Task /\ sawDeferral' \in BOOLEAN
          /\ archived' \in [Thread -> BOOLEAN] /\ shown' \in [Thread -> {"open", "closed"}]
      <3>1. CASE ReconcileClosed(cur, Latest(cur).ref)
        BY <2>1, <3>1, ReconcileType DEF Inv
      <3>2. CASE UNCHANGED <<forum, faults, excused, sawDeferral>>
        BY <1>0, <3>2
      <3> QED
        BY <1>3, <3>1, <3>2 DEF Phase4Closes
    <2>3. seen' = Absent /\ RunTypes
      BY <1>0, <2>1, <2>2, DoneQueue, NothingSeen DEF RunTypes, Inv
    <2> QED
      BY <1>0, <2>1, <2>2, <2>3, DoneQueue, QuietSync
  <1> QED
    BY <1>1, <1>2, <1>3

LEMMA Phase1LinksInv == ASSUME Inv, Phase1Links PROVE Inv'
  <1>1. /\ phase = 1 /\ cur # NoTask /\ Holds(Sync, cur) /\ seen # Absent
        /\ seen' = Absent /\ Done
        /\ UNCHANGED <<disk, act, phase, snap, todo, found, sawDeferral, busy, excused>>
    BY DEF Phase1Links, Locked
  <1>2. /\ cur \in Task /\ cur' = NoTask
        /\ queue' \in [Task -> Seq(Actor \cup {Sync})] /\ \A b \in Actor : HoldsKept(b)
    BY <1>1, DoneQueue
  <1>3. seen.ref \in Thread \cup {NoThread} /\ Fresh(owner, cur, seen.ref) /\ due \in BOOLEAN
    BY <1>1, RecordType DEF Inv, Looks, Types, TypeOK
  <1>4. Linked(cur)
    BY <1>2, <1>3, LinkStep DEF Phase1Links
  <1>5. Locks'
    BY <1>1, <1>2, SyncLocks DEF Inv
  <1>6. Looks'
    <2>1. ASSUME NEW b \in Actor, act[b].at = "link"
          PROVE  Fresh(owner', act[b].task, act[b].known.ref)
      <3> DEFINE u == act[b].task
                 ref == act[b].known.ref
      <3>1. /\ u \in Task /\ ref \in Thread \cup {NoThread}
            /\ Holds(b, u) /\ Fresh(owner, u, ref)
        BY <2>1, AtWork, RecordType DEF Inv, Locks, Looks
      <3>2. u # cur
        BY <1>1, <3>1, NamesAssumption DEF Holds
      <3>3. /\ \A th \in Thread : owner[th] # NoTask => owner'[th] = owner[th]
            /\ \A th \in Thread : owner'[th] = owner[th] \/ owner'[th] = cur
        BY <1>4 DEF Linked
      <3> HIDE DEF u, ref
      <3>4. Fresh(owner', u, ref)
        BY <1>2, <3>1, <3>2, <3>3, OtherFresh
      <3> QED
        BY <3>4 DEF u, ref
    <2> QED
      BY <1>1, <2>1 DEF Looks
  <1>7. Links'
    BY <1>1, <1>4 DEF Linked, Links, Inv, Types, TypeOK
  <1>8. Types'
    BY <1>1, <1>2, <1>4, RecordType DEF Linked, Inv, Types, TypeOK, Activity, Exists, Whole
  <1> QED
    BY <1>5, <1>6, <1>7, <1>8 DEF Inv

LEMMA Phase5AppliesInv ==
  ASSUME Inv, NEW f \in Thread \X BOOLEAN, Phase5Applies(f) PROVE Inv'
  <1>0. /\ store \in [Task -> Record] /\ Whole(store) /\ RefersTo(store, owner)
        /\ queue \in [Task -> Seq(Actor \cup {Sync})]
        /\ phase \in 0..5 /\ snap \in [Task -> Record] /\ todo \subseteq Task
        /\ cur \in Task \cup {NoTask} /\ seen \in Record /\ found \subseteq Thread \X BOOLEAN
        /\ sawDeferral \in BOOLEAN /\ due \in BOOLEAN /\ excused \subseteq Task
        /\ archived \in [Thread -> BOOLEAN] /\ shown \in [Thread -> {"open", "closed"}]
        /\ owner \in [Thread -> Task \cup {NoTask}]
        /\ \A u \in found : owner[u[1]] # NoTask
    BY DEF Inv, Types, TypeOK, Links
  <1> DEFINE th == f[1]
             t == owner[th]
  <1>1. /\ phase = 5 /\ f \in found /\ found' = found \ {f}
        /\ UNCHANGED <<disk, queue, act, phase, snap, todo, cur, seen, due, busy>>
    BY DEF Phase5Applies
  <1>2. th \in Thread /\ t \in Task
    BY <1>0, <1>1
  <1>3. /\ UNCHANGED owner /\ excused' \subseteq Task /\ sawDeferral' \in BOOLEAN
        /\ archived' \in [Thread -> BOOLEAN] /\ shown' \in [Thread -> {"open", "closed"}]
    BY <1>2, ReconcileType DEF Phase5Applies, Inv
  <1>4. store' \in [Task -> Record] /\ Whole(store') /\ RefersTo(store', owner)
    <2>1. CASE UNCHANGED store
      BY <1>0, <2>1
    <2>2. CASE StoreRef(t, th)
      BY <1>0, <1>2, <2>2, StoreRefLinks DEF Inv
    <2> QED
      BY <2>1, <2>2 DEF Phase5Applies
  <1>5. seen' = Absent /\ RunTypes
    BY <1>0, <1>1, <1>3, NothingSeen DEF RunTypes, Inv
  <1> QED
    BY <1>0, <1>1, <1>3, <1>4, <1>5, SameQueue, QuietSync

-----------------------------------------------------------------------------
(* The rest, and all of it. *)

LEMMA CrashInv == ASSUME Inv, Crash PROVE Inv'
  <1>1. /\ \/ store' = disk /\ UNCHANGED disk
           \/ store' \in HalfWritten /\ disk' = store'
        /\ due' = TRUE /\ busy' = {}
        /\ queue' = [t \in Task |-> <<>>] /\ act' = [a \in Actor |-> Idle]
        /\ phase' = 0 /\ snap' = NoTasks /\ todo' = {} /\ cur' = NoTask /\ found' = {}
        /\ seen' = Absent /\ sawDeferral' = FALSE
        /\ UNCHANGED <<forum, excused>>
    BY DEF Crash
  <1>2. Locks'
    BY <1>1 DEF Locks, Idle
  <1>3. Looks'
    BY <1>1 DEF Looks, Idle
  <1>4. /\ store' \in [Task -> Record] /\ Whole(store') /\ RefersTo(store', owner)
        /\ disk' = store'
    <2>1. CASE store' = disk /\ UNCHANGED disk
      BY <2>1 DEF Inv, Types, TypeOK, Links
    <2>2. CASE store' \in HalfWritten /\ disk' = store'
      BY <2>2, HalfLinks DEF Inv
    <2> QED
      BY <1>1, <2>1, <2>2
  <1>9. Links'
    BY <1>1, <1>4 DEF Links, Inv
  <1>5. act' \in [Actor -> Activity] /\ snap' \in [Task -> Record] /\ seen' \in Record
        /\ queue' \in [Task -> Seq(Actor \cup {Sync})]
    BY <1>1, RecordType
  <1>6. due' \in BOOLEAN /\ sawDeferral' \in BOOLEAN
    BY <1>1
  <1>7. /\ busy' = {} /\ phase' = 0 /\ todo' = {} /\ cur' = NoTask /\ found' = {}
        /\ UNCHANGED <<forum, excused>>
    BY <1>1
  <1>8. Types'
    BY <1>4, <1>5, <1>6, <1>7 DEF Inv, Types, TypeOK, Activity, Exists, Whole
  <1> QED
    BY <1>2, <1>3, <1>8, <1>9 DEF Inv

(* Steps that touch neither the lock nor the turns nor the run. *)
LEMMA MemoryInv ==
  ASSUME Inv,
         \/ AtRest \/ UNCHANGED vars \/ Reload \/ Persist
         \/ \E th \in Thread : ReplyStarts(th) \/ ReplyEnds(th)
  PROVE  Inv'
  <1>1. /\ UNCHANGED <<forum, queue, act, run, excused>>
        /\ store' \in {store, disk} \cup HalfWritten /\ disk' \in {store, disk}
        /\ due' \in {due, TRUE} /\ busy' \subseteq busy \cup Thread
    BY DEF AtRest, vars, Reload, Persist, ReplyStarts, ReplyEnds
  <1>2. Locks'
    BY <1>1 DEF Inv, Locks, Holds
  <1>3. Looks'
    BY <1>1 DEF Inv, Looks
  <1>4. Links'
    BY <1>1, HalfLinks DEF Inv, Links
  <1>5. store' \in [Task -> Record] /\ disk' \in [Task -> Record] /\ Whole(store') /\ Whole(disk')
    BY <1>1, HalfLinks DEF Inv, Types, TypeOK
  <1>6. Types'
    BY <1>1, <1>5 DEF Inv, Types, TypeOK, Activity, Exists, Whole
  <1> QED
    BY <1>2, <1>3, <1>4, <1>6 DEF Inv

LEMMA InitInv == ASSUME Init PROVE Inv
  <1>1. Locks
    BY DEF Init, Locks, Idle
  <1>2. Looks
    BY DEF Init, Looks, Idle
  <1>3. Links
    BY DEF Init, Links, Distinct, RefersTo, NoTasks, Absent
  <1>4. /\ act \in [Actor -> Activity] /\ seen \in Record
        /\ store \in [Task -> Record] /\ disk \in [Task -> Record] /\ snap \in [Task -> Record]
    BY RecordType DEF Init
  <1>5. Whole(store) /\ Whole(disk)
    BY DEF Init, Whole, NoTasks
  <1>6. queue \in [Task -> Seq(Actor \cup {Sync})]
    BY DEF Init
  <1>7. due \in BOOLEAN /\ sawDeferral \in BOOLEAN /\ archived \in [Thread -> BOOLEAN]
    BY DEF Init
  <1>8. /\ phase \in 0..5 /\ todo \subseteq Task /\ cur \in Task \cup {NoTask}
        /\ found \subseteq Thread \X BOOLEAN /\ busy \subseteq Thread /\ excused \subseteq Task
        /\ owner \in [Thread -> Task \cup {NoTask}] /\ shown \in [Thread -> {"open", "closed"}]
    BY DEF Init
  <1>9. TypeOK
    BY <1>4, <1>5, <1>6, <1>7, <1>8 DEF TypeOK, Activity, Exists, Whole
  <1> QED
    BY <1>1, <1>2, <1>3, <1>4, <1>5, <1>9 DEF Inv, Types

LEMMA NextInv == ASSUME Inv, [Next]_vars PROVE Inv'
  <1>1. CASE \/ AtRest \/ UNCHANGED vars \/ Reload \/ Persist
             \/ \E th \in Thread : ReplyStarts(th) \/ ReplyEnds(th)
    BY <1>1, MemoryInv
  <1>2. CASE Request
    <2>1. FreeTurn \in Actor /\ Requested(FreeTurn)
      BY <1>2 DEF Request, FreeTurn
    <2> QED
      BY <2>1, RequestInv
  <1>3. CASE \E a \in Actor : ActionStep(a)
    BY <1>3, CreateLooksInv, CreateLinksInv, UpdateInv, CloseInv DEF ActionStep
  <1>4. CASE SyncStep
    BY <1>4, PhaseInv, LockedInv, Phase1LinksInv, Phase5AppliesInv DEF SyncStep
  <1>5. CASE Crash
    BY <1>5, CrashInv
  <1> QED
    BY <1>1, <1>2, <1>3, <1>4, <1>5 DEF Next

(* Whoever works on a task's thread holds its lock, what a lookup returned   *)
(* holds until it is used, and the references are to the tasks' threads.     *)
THEOREM TaskInvariant == Spec => []Inv
  BY InitInv, NextInv, PTL DEF Spec

(* The state of tasks, threads, locks and sync keeps its shape. *)
THEOREM TypeCorrect == Spec => []TypeOK
  <1>1. Inv => TypeOK
    BY DEF Inv, Types
  <1> QED
    BY <1>1, TaskInvariant, PTL

(* Creates, syncs, lost answers of Discord, reloads of an older file and     *)
(* restarts, of any number of tasks and turns, never give a task a second    *)
(* thread, nor a reference to another task's.                                *)
THEOREM OneThread == Spec => []OneThreadPerTask
  <1>1. Inv => OneThreadPerTask
    BY DEF Inv, Links, Distinct, RefersTo, OneThreadPerTask
  <1> QED
    BY <1>1, TaskInvariant, PTL
=============================================================================
