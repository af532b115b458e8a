------------------------------ MODULE FifoLock ------------------------------
(***************************************************************************)
(* What DiscoClaw's per-key serializers promise, without saying how: for    *)
(* every key the calls are served one at a time and in the order in which   *)
(* they arrived.  KeyedQueue (src/src/group-queue.ts) and the task          *)
(* lifecycle lock (src/src/tasks/task-lifecycle.ts) implement it.           *)
(***************************************************************************)
EXTENDS Naturals

CONSTANTS
  Call,   \* the invocations of run(): each happens at most once
  KeyOf   \* [Call -> keys]: the session key, task id or user id of the call

VARIABLES
  stage,  \* [Call -> {"idle", "waiting", "running", "done"}]
  ticket, \* [Call -> Nat]: the place of the call in the order of arrival
  clock   \* tickets handed out so far

vars == <<stage, ticket, clock>>

(* The calls of the same key that arrived before c. *)
Earlier(c) ==
  {d \in Call : stage[d] # "idle" /\ KeyOf[d] = KeyOf[c] /\ ticket[d] < ticket[c]}

Init ==
  /\ stage = [c \in Call |-> "idle"]
  /\ ticket = [c \in Call |-> 0]
  /\ clock = 0

Request(c) ==
  /\ stage[c] = "idle"
  /\ stage' = [stage EXCEPT ![c] = "waiting"]
  /\ clock' = clock + 1
  /\ ticket' = [ticket EXCEPT ![c] = clock + 1]

Grant(c) ==
  /\ stage[c] = "waiting"
  /\ \A d \in Earlier(c) : stage[d] = "done"
  /\ stage' = [stage EXCEPT ![c] = "running"]
  /\ UNCHANGED <<ticket, clock>>

Finish(c) ==
  /\ stage[c] = "running"
  /\ stage' = [stage EXCEPT ![c] = "done"]
  /\ UNCHANGED <<ticket, clock>>

Next == \E c \in Call : Request(c) \/ Grant(c) \/ Finish(c)

Spec == Init /\ [][Next]_vars
=============================================================================
