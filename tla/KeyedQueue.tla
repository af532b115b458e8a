----------------------------- MODULE KeyedQueue -----------------------------
(***************************************************************************)
(* KeyedQueue.run of src/src/group-queue.ts: a promise chain per key.  The  *)
(* same protocol is withTaskLifecycleLock of src/src/tasks/                 *)
(* task-lifecycle.ts.  The event loop runs each synchronous stretch         *)
(* without interruption, so one action is the code between two awaits:      *)
(*   Enqueue  from the call of run to `await prev`                          *)
(*   Start    the continuation after `await prev`, up to the await of fn()  *)
(*   Finish   fn() settled, with a value or a rejection: the finally block  *)
(***************************************************************************)
EXTENDS Naturals

CONSTANTS
  Call,      \* the invocations of run(): each happens at most once
  Key,       \* session keys, task ids, user ids
  KeyOf,     \* the key argument of each call
  NoCall     \* "no entry": Map.get returned undefined

ASSUME KeyOfAssumption == KeyOf \in [Call -> Key]
ASSUME NoCallAssumption == NoCall \notin Call

VARIABLES
  tails,   \* the map of the class: per key, the call whose tail promise is stored
  prev,    \* per call, the call whose tail it awaits; NoCall is Promise.resolve()
  stage,   \* per call: not called yet, awaiting prev, inside fn, settled
  ticket,  \* history: order of arrival
  clock    \* history: arrivals so far

queueVars == <<tails, prev, stage, ticket, clock>>

Stages == {"idle", "waiting", "running", "done"}

QueueInit ==
  /\ tails = [k \in Key |-> NoCall]
  /\ prev = [c \in Call |-> NoCall]
  /\ stage = [c \in Call |-> "idle"]
  /\ ticket = [c \in Call |-> 0]
  /\ clock = 0

(* Mutant of Enqueue: the key is ignored, one chain serves every key. *)
Enqueue_OneChain(c) ==
  /\ stage[c] = "idle"
  /\ prev' = [prev EXCEPT ![c] = tails[KeyOf[c]]]
  /\ tails' = [k \in Key |-> c]
  /\ stage' = [stage EXCEPT ![c] = "waiting"]
  /\ clock' = clock + 1
  /\ ticket' = [ticket EXCEPT ![c] = clock + 1]

Enqueue(c) ==
  /\ stage[c] = "idle"
  /\ prev' = [prev EXCEPT ![c] = tails[KeyOf[c]]]
  /\ tails' = [tails EXCEPT ![KeyOf[c]] = c]
  /\ stage' = [stage EXCEPT ![c] = "waiting"]
  /\ clock' = clock + 1
  /\ ticket' = [ticket EXCEPT ![c] = clock + 1]

(* Mutant of Start: the work begins without `await prev`. *)
Start_NoAwait(c) ==
  /\ stage[c] = "waiting"
  /\ stage' = [stage EXCEPT ![c] = "running"]
  /\ UNCHANGED <<tails, prev, ticket, clock>>

(* Mutant of TailSettled: `release()` has moved into the `if` that follows   *)
(* it, so the tail of a call that another one queued behind never settles.   *)
TailSettled_ReleaseInsideIf(p) == p = NoCall

(* The tail of p settles when p released, and p releases only after its own  *)
(* predecessor's tail settled: `await prev` returns when p is done.          *)
TailSettled(p) == p # NoCall => stage[p] = "done"

Start(c) ==
  /\ stage[c] = "waiting"
  /\ TailSettled(prev[c])
  /\ stage' = [stage EXCEPT ![c] = "running"]
  /\ UNCHANGED <<tails, prev, ticket, clock>>

(* Mutant of TailsAfter: the entry is deleted without the comparison with    *)
(* the call's own tail.                                                      *)
TailsAfter_Unconditional(c) == [tails EXCEPT ![KeyOf[c]] = NoCall]

(* The map after the finally block of c: the entry goes only if it is c's. *)
TailsAfter(c) ==
  [k \in Key |-> IF k = KeyOf[c] /\ tails[k] = c THEN NoCall ELSE tails[k]]

Finish(c) ==
  /\ stage[c] = "running"
  /\ stage' = [stage EXCEPT ![c] = "done"]
  /\ tails' = TailsAfter(c)
  /\ UNCHANGED <<prev, ticket, clock>>

(* Every call of the instance was made and settled: nothing is left to do. *)
AllDone ==
  /\ \A c \in Call : stage[c] = "done"
  /\ UNCHANGED queueVars

QueueNext ==
  \/ \E c \in Call : Enqueue(c) \/ Start(c) \/ Finish(c)
  \/ AllDone

(* Promise callbacks always run, and the work handed to run() settles.  The  *)
(* arrival of a call is the environment's choice.                            *)
QueueFairness == \A c \in Call : WF_queueVars(Start(c)) /\ WF_queueVars(Finish(c))

QueueSpec == QueueInit /\ [][QueueNext]_queueVars
FairQueueSpec == QueueSpec /\ QueueFairness

-----------------------------------------------------------------------------
(* Shape of the state; an entry of the map, and the call another one awaits, *)
(* are calls of that same key.                                               *)
QueueTypeOK ==
  /\ tails \in [Key -> Call \cup {NoCall}]
  /\ \A k \in Key : tails[k] # NoCall => KeyOf[tails[k]] = k
  /\ prev \in [Call -> Call \cup {NoCall}]
  /\ \A c \in Call : prev[c] # NoCall => KeyOf[prev[c]] = KeyOf[c]
  /\ stage \in [Call -> Stages]
  /\ ticket \in [Call -> Nat]
  /\ clock \in Nat

Pending(k) == {c \in Call : KeyOf[c] = k /\ stage[c] \in {"waiting", "running"}}

(* Two calls of one key are never inside fn together: a session's messages,  *)
(* a task's thread operations and a user's memory writes never interleave.   *)
MutualExclusion ==
  \A c, d \in Call :
    stage[c] = "running" /\ stage[d] = "running" /\ KeyOf[c] = KeyOf[d] => c = d

(* The map holds an entry for exactly the keys that still have a pending     *)
(* call, and it is the latest arrival: size() does not grow with the number  *)
(* of sessions ever seen, and no entry is dropped while calls queue behind.  *)
EntryIffPending ==
  \A k \in Key :
    IF Pending(k) = {}
    THEN tails[k] = NoCall
    ELSE tails[k] \in Pending(k) /\ \A c \in Pending(k) : ticket[c] <= ticket[tails[k]]

Fifo == INSTANCE FifoLock

(* Calls of one key run in the order in which run() was called, one at a     *)
(* time: the promise chain implements the FIFO lock.                         *)
ServesInOrder == Fifo!Spec

(* Every call that was made is eventually served, whatever happens on other  *)
(* keys and in whatever order their works settle.                            *)
EveryCallServed == \A c \in Call : stage[c] = "waiting" ~> stage[c] = "done"

=============================================================================
