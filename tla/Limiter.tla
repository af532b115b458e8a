------------------------------- MODULE Limiter -------------------------------
(***************************************************************************)
(* The Semaphore of src/src/runtime/concurrency-limit.ts: a count of active *)
(* permits, a queue of waiters, and a release closure per permit that works *)
(* once.  A released permit is handed to the first waiter without touching  *)
(* the count.  withConcurrencyLimit acquires before it starts the wrapped   *)
(* runtime and releases in the finally of its generator.                    *)
(***************************************************************************)
EXTENDS Naturals, Sequences, FiniteSets

CONSTANTS
  Inv,   \* invocations of a limited runtime, each acquires once
  Max    \* maxConcurrentInvocations; without a limit there is no semaphore

ASSUME MaxAssumption == Max \in Nat \ {0}

VARIABLES
  active,   \* this.active
  waiting,  \* this.queue
  permit    \* [Inv -> the state of the invocation's release closure]

limiter == <<active, waiting, permit>>

Permits == {"none", "waiting", "held", "released"}

LimiterInit ==
  /\ active = 0 /\ waiting = <<>> /\ permit = [i \in Inv |-> "none"]

Acquire(i) ==
  /\ permit[i] = "none"
  /\ IF active < Max
     THEN /\ active' = active + 1 /\ permit' = [permit EXCEPT ![i] = "held"]
          /\ UNCHANGED waiting
     ELSE /\ waiting' = Append(waiting, i)
          /\ permit' = [permit EXCEPT ![i] = "waiting"]
          /\ UNCHANGED active

Release_FreesOnly(i) ==
  \/ /\ permit[i] = "held" /\ active' = active - 1
     /\ permit' = [permit EXCEPT ![i] = "released"] /\ UNCHANGED waiting
  \/ permit[i] = "released" /\ UNCHANGED limiter

(* The closure may be called again: it does nothing then. *)
Release(i) ==
  \/ /\ permit[i] = "held" /\ waiting # <<>>
     /\ permit' = [permit EXCEPT ![i] = "released", ![Head(waiting)] = "held"]
     /\ waiting' = Tail(waiting) /\ UNCHANGED active
  \/ /\ permit[i] = "held" /\ waiting = <<>>
     /\ permit' = [permit EXCEPT ![i] = "released"]
     /\ active' = IF active > 0 THEN active - 1 ELSE 0
     /\ UNCHANGED waiting
  \/ permit[i] = "released" /\ UNCHANGED limiter

LimiterNext == \E i \in Inv : Acquire(i) \/ Release(i)

LimiterSpec == LimiterInit /\ [][LimiterNext]_limiter

-----------------------------------------------------------------------------
Held == {i \in Inv : permit[i] = "held"}

LimiterTypeOK ==
  /\ active \in Nat /\ waiting \in Seq(Inv) /\ permit \in [Inv -> Permits]

(* The count and the queue implement the limit: Slots, where the holders are *)
(* the invocations whose closure has not been called.                        *)
Limit == INSTANCE Slots WITH held <- Held, line <- waiting
KeepsLimit == Limit!Spec
=============================================================================
