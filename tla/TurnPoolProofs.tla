--------------------------- MODULE TurnPoolProofs ---------------------------
(***************************************************************************)
(* The semaphore implements Slots for every set of invocations and every    *)
(* limit, and so does the composition TurnPool: none of its steps uses the  *)
(* count, the queue or a release closure in another way.  The count is the  *)
(* number of open closures (CountsHolders); nobody waits below the limit    *)
(* (FullIfWaiting); the queue holds the waiting invocations once each.      *)
(*                                                                          *)
(* The sessions keep three things (SessionInv): a process object on its own *)
(* holds only prompts and events of its turn unless a turn of it was cut    *)
(* short (Process); the pool holds the living, one per session and no more  *)
(* than its size (PoolInv); and an invocation in a turn waits for a process *)
(* of its session whose turn is its own (TurnsInv).  One lemma per change   *)
(* of a process object, then one per action.                                *)
(***************************************************************************)
EXTENDS TurnPool, FiniteSetTheorems, TLAPS

CountsHolders == IsFiniteSet(Held) /\ active = Cardinality(Held)
FullIfWaiting == active <= Max /\ (waiting # <<>> => active = Max)
QueueIsWaiting ==
  /\ \A n \in 1..Len(waiting) : permit[waiting[n]] = "waiting"
  /\ \A m, n \in 1..Len(waiting) : waiting[m] = waiting[n] => m = n
LimiterInv == LimiterTypeOK /\ CountsHolders /\ FullIfWaiting /\ QueueIsWaiting

-----------------------------------------------------------------------------
(* Slots counts as this module does. *)
LEMMA SameCount == \A S : Limit!Cardinality(S) = Cardinality(S)
  BY DEF Limit!Cardinality, Cardinality

(* The head of a non-empty queue of invocations, and what is left of it.     *)
LEMMA HeadTail ==
  ASSUME NEW S, NEW q \in Seq(S), q # <<>>
  PROVE  /\ Head(q) \in S /\ Tail(q) \in Seq(S) /\ Head(q) = q[1]
         /\ Len(q) >= 1 /\ Len(Tail(q)) = Len(q) - 1
         /\ \A n \in 1..Len(Tail(q)) : Tail(q)[n] = q[n + 1]
  OBVIOUS

(* A new queue: no permit, nobody waits. *)
LEMMA LimiterInitInv == LimiterInit => LimiterInv
<1> SUFFICES ASSUME LimiterInit PROVE LimiterInv
  OBVIOUS
<1>1. Held = {}
  BY DEF LimiterInit, Held
<1>2. CountsHolders
  BY <1>1, FS_EmptySet DEF LimiterInit, CountsHolders
<1> QED
  BY <1>2, MaxAssumption
  DEF LimiterInit, LimiterInv, LimiterTypeOK, Permits, FullIfWaiting, QueueIsWaiting

(* acquire() while a permit is free: the holders and the count grow by one.  *)
LEMMA AcquireFree ==
  ASSUME LimiterInv, NEW i \in Inv, Acquire(i), active < Max
  PROVE  LimiterInv' /\ Limit!Ask(i)
<1>1. /\ Held' = Held \cup {i} /\ i \notin Held
      /\ waiting = <<>> /\ UNCHANGED waiting /\ active' = active + 1
  BY DEF LimiterInv, LimiterTypeOK, Acquire, Held, FullIfWaiting
<1>2. CountsHolders'
  BY <1>1, FS_AddElement DEF LimiterInv, CountsHolders
<1>3. LimiterTypeOK'
  BY DEF LimiterInv, LimiterTypeOK, Acquire, Permits
<1>4. FullIfWaiting' /\ QueueIsWaiting'
  BY <1>1, MaxAssumption DEF LimiterInv, LimiterTypeOK, FullIfWaiting, QueueIsWaiting
<1>5. Limit!Ask(i)
  BY <1>1, SameCount DEF Limit!Ask, Limit!InLine, LimiterInv, CountsHolders
<1> QED
  BY <1>2, <1>3, <1>4, <1>5 DEF LimiterInv

(* acquire() at the limit: the invocation joins the end of the queue.        *)
LEMMA AcquireFull ==
  ASSUME LimiterInv, NEW i \in Inv, Acquire(i), ~(active < Max)
  PROVE  LimiterInv' /\ Limit!Ask(i)
<1>1. /\ Held' = Held /\ i \notin Held
      /\ waiting' = Append(waiting, i) /\ UNCHANGED active
      /\ permit' = [permit EXCEPT ![i] = "waiting"] /\ permit[i] = "none"
  BY DEF LimiterInv, LimiterTypeOK, Acquire, Held
<1>2. LimiterTypeOK' /\ CountsHolders'
  BY <1>1 DEF LimiterInv, LimiterTypeOK, CountsHolders, Permits
<1>3. FullIfWaiting'
  BY <1>1, MaxAssumption DEF LimiterInv, LimiterTypeOK, FullIfWaiting
<1>4. \A n \in 1..Len(waiting) : waiting[n] # i /\ waiting[n] \in Inv
  BY <1>1 DEF LimiterInv, LimiterTypeOK, QueueIsWaiting
<1>5. QueueIsWaiting'
  BY <1>1, <1>4 DEF LimiterInv, LimiterTypeOK, QueueIsWaiting
<1>6. Limit!Ask(i)
  BY <1>1, <1>4, SameCount DEF Limit!Ask, Limit!InLine, LimiterInv, CountsHolders
<1> QED
  BY <1>2, <1>3, <1>5, <1>6 DEF LimiterInv

(* A release with waiters: the slot changes hands, the count stays.          *)
LEMMA Transfers ==
  ASSUME LimiterInv, NEW i \in Inv, permit[i] = "held", waiting # <<>>, Release(i)
  PROVE  LimiterInv' /\ Limit!Return(i)
<1> DEFINE h == Head(waiting)
<1>1. /\ waiting \in Seq(Inv) /\ permit \in [Inv -> Permits]
      /\ permit' = [permit EXCEPT ![i] = "released", ![h] = "held"]
      /\ waiting' = Tail(waiting) /\ UNCHANGED active
  BY DEF LimiterInv, LimiterTypeOK, Release
<1>2. /\ h \in Inv /\ h = waiting[1] /\ Len(waiting) >= 1
      /\ Tail(waiting) \in Seq(Inv) /\ Len(Tail(waiting)) = Len(waiting) - 1
      /\ \A n \in 1..Len(Tail(waiting)) : Tail(waiting)[n] = waiting[n + 1]
  BY <1>1, HeadTail
<1>3. permit[h] = "waiting" /\ h # i
  BY <1>1, <1>2 DEF LimiterInv, QueueIsWaiting
<1>4. Held' = (Held \ {i}) \cup {h} /\ i \in Held /\ h \notin Held
  BY <1>1, <1>2, <1>3 DEF Held
<1>5. IsFiniteSet(Held \ {i}) /\ Cardinality(Held \ {i}) = Cardinality(Held) - 1
  BY <1>4, FS_RemoveElement DEF LimiterInv, CountsHolders
<1>6. IsFiniteSet(Held') /\ Cardinality(Held') = Cardinality(Held) - 1 + 1
  BY <1>4, <1>5, FS_AddElement
<1>7. Cardinality(Held) \in Nat
  BY DEF LimiterInv, LimiterTypeOK, CountsHolders
<1>8. CountsHolders'
  BY <1>1, <1>6, <1>7 DEF LimiterInv, CountsHolders
<1>9. LimiterTypeOK'
  BY <1>1, <1>2 DEF LimiterInv, LimiterTypeOK, Permits
<1>10. FullIfWaiting'
  BY <1>1 DEF LimiterInv, FullIfWaiting
<1>11. \A n \in 1..Len(waiting') :
         /\ n + 1 \in 1..Len(waiting) /\ waiting'[n] = waiting[n + 1]
         /\ waiting[n + 1] # h /\ permit[waiting[n + 1]] = "waiting"
  BY <1>1, <1>2 DEF LimiterInv, QueueIsWaiting
<1>12. QueueIsWaiting'
  <2>1. \A n \in 1..Len(waiting') : permit'[waiting'[n]] = "waiting"
    BY <1>1, <1>2, <1>11
  <2>2. \A m, n \in 1..Len(waiting') : waiting'[m] = waiting'[n] => m = n
    BY <1>1, <1>2, <1>11 DEF LimiterInv, QueueIsWaiting
  <2> QED
    BY <2>1, <2>2 DEF QueueIsWaiting
<1>13. Limit!Return(i)
  BY <1>1, <1>4 DEF Limit!Return
<1> QED
  BY <1>8, <1>9, <1>10, <1>12, <1>13 DEF LimiterInv

(* A release with nobody waiting: the slot is free again.                    *)
LEMMA Frees ==
  ASSUME LimiterInv, NEW i \in Inv, permit[i] = "held", waiting = <<>>, Release(i)
  PROVE  LimiterInv' /\ Limit!Return(i)
<1>1. /\ Held' = Held \ {i} /\ i \in Held /\ UNCHANGED waiting
      /\ permit' = [permit EXCEPT ![i] = "released"]
      /\ active' = IF active > 0 THEN active - 1 ELSE 0
  BY DEF LimiterInv, LimiterTypeOK, Release, Held
<1>2. IsFiniteSet(Held') /\ Cardinality(Held') = Cardinality(Held) - 1
  BY <1>1, FS_RemoveElement DEF LimiterInv, CountsHolders
<1>3. active > 0
  BY <1>1, FS_EmptySet, FS_CardinalityType DEF LimiterInv, CountsHolders, LimiterTypeOK
<1>4. CountsHolders' /\ active' = active - 1
  BY <1>1, <1>2, <1>3 DEF LimiterInv, CountsHolders
<1>5. LimiterTypeOK' /\ FullIfWaiting'
  BY <1>1, <1>3, <1>4, MaxAssumption DEF LimiterInv, LimiterTypeOK, FullIfWaiting, Permits
<1>6. QueueIsWaiting'
  BY <1>1 DEF QueueIsWaiting
<1>7. Limit!Return(i)
  BY <1>1 DEF Limit!Return
<1> QED
  BY <1>4, <1>5, <1>6, <1>7 DEF LimiterInv

(* Every step of the semaphore keeps the invariant and is a step of Slots.   *)
LEMMA LimiterStep ==
  ASSUME LimiterInv, [LimiterNext]_limiter
  PROVE  LimiterInv' /\ [Limit!Next]_(Limit!vars)
<1>1. CASE UNCHANGED limiter
  BY <1>1 DEF limiter, LimiterInv, LimiterTypeOK, CountsHolders, FullIfWaiting, QueueIsWaiting,
              Held, Limit!vars
<1>2. ASSUME NEW i \in Inv, Acquire(i) PROVE LimiterInv' /\ Limit!Ask(i)
  BY <1>2, AcquireFree, AcquireFull
<1>3. ASSUME NEW i \in Inv, Release(i), permit[i] = "held" PROVE LimiterInv' /\ Limit!Return(i)
  BY <1>3, Transfers, Frees
<1>4. ASSUME NEW i \in Inv, Release(i), permit[i] # "held" PROVE UNCHANGED limiter
  BY <1>4 DEF Release
<1>5. CASE LimiterNext
  BY <1>1, <1>2, <1>3, <1>4, <1>5 DEF LimiterNext, Limit!Next
<1> QED
  BY <1>1, <1>5

(* The semaphore implements Slots: at most Max permits, given out in order   *)
(* of arrival, none idle while somebody waits.                               *)
THEOREM SemaphoreKeepsLimit == LimiterSpec => KeepsLimit
<1>1. LimiterInit => LimiterInv
  BY LimiterInitInv
<1>2. LimiterInv /\ [LimiterNext]_limiter => LimiterInv'
  BY LimiterStep
<1>3. LimiterInv /\ [LimiterNext]_limiter => [Limit!Next]_(Limit!vars)
  BY LimiterStep
<1>4. LimiterInit => Limit!Init
  BY DEF LimiterInit, Limit!Init, Held
<1> QED
  BY <1>1, <1>2, <1>3, <1>4, PTL DEF LimiterSpec, KeepsLimit, Limit!Spec

(* The number of open permits never exceeds the limit.                       *)
THEOREM AtMostMax == LimiterSpec => [](Cardinality(Held) <= Max)
<1>1. LimiterInit => LimiterInv
  BY LimiterInitInv
<1>2. LimiterInv /\ [LimiterNext]_limiter => LimiterInv'
  BY LimiterStep
<1>3. LimiterInv => Cardinality(Held) <= Max
  BY DEF LimiterInv, CountsHolders, FullIfWaiting
<1> QED
  BY <1>1, <1>2, <1>3, PTL DEF LimiterSpec

-----------------------------------------------------------------------------
(* A step of the composition acquires, releases or leaves the limiter alone. *)
LEMMA StepOfLimiter == [Next]_vars => [LimiterNext]_limiter
<1> SUFFICES ASSUME [Next]_vars PROVE [LimiterNext]_limiter
  OBVIOUS
<1>1. ASSUME NEW i \in Inv, Begin(i) PROVE LimiterNext
  BY <1>1 DEF Begin, LimiterNext
<1>2. ASSUME NEW i \in Inv, Close(i) PROVE LimiterNext
  BY <1>2 DEF Close, LimiterNext
<1>3. ASSUME NEW i \in Inv, Consumer(i), ~Close(i) PROVE UNCHANGED limiter
  BY <1>3 DEF Consumer, Reuse, Spawn, NoProcess, Shoot, FallBack, TurnYields, ShotYields,
              ShotOver, Decide
<1>4. ASSUME NEW i \in Inv, OneShot(i) \/ Abort(i) PROVE UNCHANGED limiter
  BY <1>4 DEF OneShot, ShotStalls, ShotExits, Abort
<1>5. ASSUME NEW p \in Proc, Subprocess(p) \/ IdleTimeout(p) PROVE UNCHANGED limiter
  BY <1>5 DEF Subprocess, Says, Answers, Exits, Hangs, IdleTimeout
<1>6. CASE KillAll
  BY <1>6 DEF KillAll
<1>7. CASE AtRest \/ UNCHANGED vars
  BY <1>7 DEF AtRest, vars
<1> QED
  BY <1>1, <1>2, <1>3, <1>4, <1>5, <1>6, <1>7 DEF Next

(* Invocations that run through the supervisor, the pool and one-shots keep  *)
(* the limit: the composition implements Slots.                              *)
THEOREM TurnsKeepLimit == Spec => KeepsLimit
<1>1. Init => LimiterInit
  BY DEF Init
<1>2. [Next]_vars => [LimiterNext]_limiter
  BY StepOfLimiter
<1>3. Spec => LimiterSpec
  BY <1>1, <1>2, PTL DEF Spec, LimiterSpec
<1> QED
  BY <1>3, SemaphoreKeepsLimit
-----------------------------------------------------------------------------
(* A process object on its own: the type of its fields, what its state says  *)
(* of its turn, and whose prompts and events it holds unless a turn of it     *)
(* was cut short.                                                            *)
ProcState ==
  [at : {"unborn", "idle", "busy", "dead"}, key : Key \cup {Unborn.key},
   turn : Inv \cup {NoInv}, queue : Seq(Event), work : Seq(Inv), spoke : Nat, left : BOOLEAN]

Shape(r) ==
  /\ r.at \in {"unborn", "idle"} => r.turn = NoInv /\ r.queue = <<>>
  /\ r.at \in {"busy", "dead"} => r.turn \in Inv

Heard(r) == \A k \in 1..Len(r.queue) : r.queue[k].from = r.turn
Own(r) ==
  /\ r.at = "idle" => r.work = <<>>
  /\ r.at = "busy" => r.work = IF Ended(r) THEN <<>> ELSE <<r.turn>>
  /\ Heard(r)

Process(r) == r \in ProcState /\ Shape(r) /\ (r.left \/ Own(r))

EventKind == {"text", "final", "done"} \cup Failure \cup Error

(* An event of an invocation is an event.                                    *)
LEMMA EvIsEvent == \A kind \in EventKind, i \in Inv : Ev(kind, i) \in Event
  BY DEF Ev, Event, EventKind

(* The empty queue. *)
LEMMA EmptyQueue == <<>> \in Seq(Event) /\ \A r : r.queue = <<>> => ~Ended(r) /\ Heard(r)
  BY DEF Ended, Heard

(* No process, and the one that is not there yet.                            *)
LEMMA UnbornIsProcess == Process(Unborn) /\ Unborn.at = "unborn" /\ Unborn.turn = NoInv
<1>1. Unborn \in ProcState
  BY DEF Unborn, ProcState
<1>2. Shape(Unborn) /\ Own(Unborn) /\ Unborn.at = "unborn" /\ Unborn.turn = NoInv
  BY DEF Unborn, Shape, Own, Heard
<1> QED
  BY <1>1, <1>2 DEF Process

(* Two events at the end of a queue.                                         *)
LEMMA TwoMore ==
  ASSUME NEW S, NEW q \in Seq(S), NEW e \in S, NEW d \in S
  PROVE  LET n == q \o <<e, d>>
         IN /\ n \in Seq(S) /\ Len(n) = Len(q) + 2
            /\ n[Len(q) + 1] = e /\ n[Len(q) + 2] = d
            /\ \A k \in 1..Len(q) : n[k] = q[k]
  OBVIOUS

(* Terminal events go to a turn that is open, and end it.                    *)
LEMMA Pushes ==
  ASSUME NEW r \in ProcState, NEW kind \in EventKind, NEW i \in Inv \cup {NoInv},
         Open(r) => i \in Inv
  PROVE  LET n == Push(r, kind, i)
         IN /\ n \in ProcState
            /\ n.at = r.at /\ n.key = r.key /\ n.turn = r.turn /\ n.work = r.work
            /\ n.left = r.left /\ n.spoke = r.spoke
            /\ ~Open(r) => n.queue = r.queue
            /\ Open(r) => Ended(n)
            /\ Heard(r) /\ i = r.turn => Heard(n)
<1> DEFINE n == Push(r, kind, i)
<1>1. CASE ~Open(r)
  <2>1. n = r
    BY <1>1 DEF Push, ProcState
  <2> QED
    BY <2>1, <1>1
<1>2. CASE Open(r)
  <2> DEFINE e == Ev(kind, i)  d == Ev("done", i)
  <2>1. e \in Event /\ d \in Event /\ r.queue \in Seq(Event)
    BY <1>2, EvIsEvent DEF EventKind, ProcState
  <2>2. n = [r EXCEPT !.queue = @ \o <<e, d>>]
    BY <1>2 DEF Push
  <2>3. /\ d.kind = "done" /\ e.from = i /\ d.from = i
    BY DEF Ev
  <2> HIDE DEF e, d, n
  <2>4. /\ n.queue \in Seq(Event) /\ Len(n.queue) = Len(r.queue) + 2
        /\ n.queue[Len(r.queue) + 1] = e /\ n.queue[Len(r.queue) + 2] = d
        /\ \A k \in 1..Len(r.queue) : n.queue[k] = r.queue[k]
    BY <2>1, <2>2, TwoMore DEF ProcState
  <2>5. /\ n \in ProcState
        /\ n.at = r.at /\ n.key = r.key /\ n.turn = r.turn /\ n.work = r.work
        /\ n.left = r.left /\ n.spoke = r.spoke
    BY <2>2, <2>4 DEF ProcState
  <2>6. Ended(n)
    BY <2>1, <2>3, <2>4 DEF Ended
  <2>7. ASSUME Heard(r), i = r.turn PROVE Heard(n)
    <3>1. \A k \in 1..Len(n.queue) : k \in 1..Len(r.queue) \/ k = Len(r.queue) + 1
                                                           \/ k = Len(r.queue) + 2
      BY <2>1, <2>4
    <3> QED
      BY <2>3, <2>4, <2>5, <2>7, <3>1 DEF Heard
  <2> QED
    BY <1>2, <2>5, <2>6, <2>7 DEF n
<1> QED
  BY <1>1, <1>2

(* A dead process: forgotten, unless a turn still reads from it.             *)
LEMMA Forgets ==
  ASSUME NEW r \in ProcState, r.at = "dead", r.left \/ Heard(r)
  PROVE  LET n == Forgotten(r)
         IN /\ Process(n) /\ n.at \in {"unborn", "dead"}
            /\ r.turn # NoInv => n = r
<1>1. CASE r.turn = NoInv
  BY <1>1, UnbornIsProcess DEF Forgotten
<1>2. CASE r.turn # NoInv
  <2>1. Forgotten(r) = r
    BY <1>2 DEF Forgotten
  <2>2. Shape(r) /\ (r.left \/ Own(r))
    BY <1>2 DEF Shape, Own, ProcState
  <2> QED
    BY <2>1, <2>2 DEF Process
<1> QED
  BY <1>1, <1>2

(* terminate() and exits: the turn hears of it, nobody else.                 *)
LEMMA Dies ==
  ASSUME NEW r, Process(r), NEW kind \in EventKind
  PROVE  LET n == Dead(r, kind)
         IN /\ Process(n) /\ n.at \in {"unborn", "dead"}
            /\ r.turn # NoInv => n.at = "dead" /\ n.turn = r.turn /\ n.key = r.key
<1> DEFINE m == Push(r, kind, r.turn)  d == [m EXCEPT !.at = "dead"]
<1>1. r \in ProcState /\ r.turn \in Inv \cup {NoInv} /\ (Open(r) => r.turn \in Inv)
  BY DEF Process, ProcState, Open
<1>2. /\ m \in ProcState /\ m.key = r.key /\ m.turn = r.turn /\ m.left = r.left
      /\ Heard(r) => Heard(m)
  BY <1>1, Pushes
<1> HIDE DEF m
<1>3. /\ d \in ProcState /\ d.at = "dead" /\ d.key = r.key /\ d.turn = r.turn /\ d.left = r.left
      /\ Heard(r) => Heard(d)
  BY <1>2 DEF ProcState, Heard
<1>4. d.left \/ Heard(d)
  BY <1>3 DEF Process, Own
<1>5. Dead(r, kind) = Forgotten(d)
  BY DEF Dead, d, m
<1> HIDE DEF d
<1> QED
  BY <1>3, <1>4, <1>5, Forgets

(* An idle process takes a turn.                                             *)
LEMMA Starts ==
  ASSUME NEW r, Process(r), r.work = <<>> \/ r.left, NEW i \in Inv
  PROVE  LET n == Started(r, i)
         IN Process(n) /\ n.at = "busy" /\ n.turn = i /\ n.key = r.key
<1> DEFINE n == Started(r, i)
<1>0. r \in ProcState /\ r.work \in Seq(Inv) /\ Append(r.work, i) \in Seq(Inv)
  BY DEF Process, ProcState
<1>1. n \in ProcState /\ n.at = "busy" /\ n.turn = i /\ n.key = r.key
  BY <1>0, EmptyQueue DEF Started, ProcState
<1>2. Shape(n)
  BY <1>1 DEF Shape
<1>3. n.queue = <<>> /\ n.left = r.left /\ n.work = Append(r.work, i)
  BY DEF Started, Process, ProcState
<1> HIDE DEF n
<1>4. ASSUME ~n.left PROVE Own(n)
  <2>1. r.work = <<>>
    BY <1>3, <1>4
  <2>3. n.work = <<i>>
    BY <1>3, <2>1
  <2>2. ~Ended(n) /\ Heard(n)
    BY <1>3 DEF Ended, Heard
  <2> QED
    BY <1>1, <2>3, <2>2 DEF Own
<1>5. Process(n)
  BY <1>1, <1>2, <1>4 DEF Process
<1> QED
  BY <1>1, <1>5 DEF n

(* A turn is over: unless it was cut short, its prompt has been answered.    *)
LEMMA Ends ==
  ASSUME NEW r, Process(r), r.turn # NoInv, r.at = "busy" => r.left \/ r.work = <<>>
  PROVE  LET n == Over(r)
         IN /\ Process(n) /\ n.turn = NoInv
            /\ r.at = "busy" => n.at = "idle" /\ n.key = r.key
            /\ r.at = "dead" => n.at = "unborn"
<1> DEFINE m == [r EXCEPT !.at = IF @ = "busy" THEN "idle" ELSE @, !.turn = NoInv, !.queue = <<>>]
<1>1. r \in ProcState /\ r.at \in {"busy", "dead"}
  BY DEF Process, Shape, ProcState
<1>2. Over(r) = Forgotten(m)
  BY DEF Over
<1>3. /\ m \in ProcState /\ m.turn = NoInv /\ m.queue = <<>> /\ m.key = r.key /\ m.left = r.left
      /\ m.work = r.work /\ (r.at = "busy" => m.at = "idle") /\ (r.at = "dead" => m.at = "dead")
  BY <1>1, EmptyQueue DEF ProcState
<1> HIDE DEF m
<1>4. CASE r.at = "dead"
  BY <1>2, <1>3, <1>4, UnbornIsProcess DEF Forgotten
<1>5. CASE r.at = "busy"
  <2>1. Forgotten(m) = m
    BY <1>3, <1>5 DEF Forgotten
  <2>2. Shape(m) /\ (m.left \/ Own(m))
    BY <1>3, <1>5 DEF Shape, Own, Heard
  <2> QED
    BY <1>2, <1>3, <1>5, <2>1, <2>2 DEF Process
<1> QED
  BY <1>1, <1>4, <1>5

(* The process whose turn is open answers its prompt; the prompt it works on *)
(* is the turn's, unless an earlier turn was cut short.                      *)
LEMMA WorksOnTurn ==
  ASSUME NEW r, Process(r), r.at \in {"idle", "busy"}, r.work # <<>>
  PROVE  /\ r \in ProcState /\ Head(r.work) \in Inv /\ Tail(r.work) \in Seq(Inv)
         /\ Open(r) => r.at = "busy"
         /\ ~r.left => /\ r.at = "busy" /\ Open(r) /\ Head(r.work) = r.turn
                       /\ Tail(r.work) = <<>>
<1>1. r \in ProcState /\ r.work \in Seq(Inv)
  BY DEF Process, ProcState
<1>2. Head(r.work) \in Inv /\ Tail(r.work) \in Seq(Inv)
  BY <1>1
<1>3. Open(r) => r.at = "busy"
  BY <1>1 DEF Open, Process, Shape, ProcState
<1>4. ASSUME ~r.left
      PROVE  r.at = "busy" /\ Open(r) /\ Head(r.work) = r.turn /\ Tail(r.work) = <<>>
  <2>1. Own(r)
    BY <1>4 DEF Process
  <2>2. r.at = "busy" /\ ~Ended(r) /\ r.work = <<r.turn>>
    BY <2>1 DEF Own
  <2>3. r.turn \in Inv /\ r.turn # NoInv
    BY <2>2, SessionAssumption DEF Process, Shape
  <2> QED
    BY <2>2, <2>3 DEF Open
<1> QED
  BY <1>1, <1>2, <1>3, <1>4

(* One more event at the end of a queue.                                     *)
LEMMA OneMore ==
  ASSUME NEW S, NEW q \in Seq(S), NEW e \in S
  PROVE  LET n == Append(q, e)
         IN /\ n \in Seq(S) /\ Len(n) = Len(q) + 1 /\ n[Len(q) + 1] = e
            /\ \A k \in 1..Len(q) : n[k] = q[k]
  OBVIOUS

(* Text, and a text buffer that overflows: the turn stays open.              *)
LEMMA Speaks ==
  ASSUME NEW r, Process(r), r.at = "busy", Open(r), r.work # <<>>, NEW kind \in {"text", "overflow"}
  PROVE  LET n == [r EXCEPT !.queue = Append(@, Ev(kind, Head(r.work))), !.spoke = @ + 1]
         IN /\ Process(n) /\ n.at = r.at /\ n.key = r.key /\ n.turn = r.turn
<1> DEFINE e == Ev(kind, Head(r.work))
           n == [r EXCEPT !.queue = Append(@, e), !.spoke = @ + 1]
<1>1. /\ r \in ProcState /\ r.queue \in Seq(Event) /\ e \in Event /\ e.kind = kind
      /\ ~r.left => e.from = r.turn
  BY WorksOnTurn, EvIsEvent DEF EventKind, Failure, ProcState, Ev
<1> HIDE DEF e
<1>2. /\ Append(r.queue, e) \in Seq(Event) /\ r.spoke + 1 \in Nat
  BY <1>1 DEF ProcState
<1>3. /\ n \in ProcState /\ n.at = r.at /\ n.key = r.key /\ n.turn = r.turn /\ n.left = r.left
      /\ n.work = r.work /\ n.queue = Append(r.queue, e)
  BY <1>1, <1>2 DEF ProcState
<1> HIDE DEF n
<1>4. /\ Len(n.queue) = Len(r.queue) + 1 /\ n.queue[Len(r.queue) + 1] = e
      /\ \A k \in 1..Len(r.queue) : n.queue[k] = r.queue[k]
  BY <1>1, <1>3, OneMore
<1>5. \A k \in 1..Len(n.queue) : k \in 1..Len(r.queue) \/ k = Len(r.queue) + 1
  BY <1>1, <1>4
<1>6. ~Ended(n)
  BY <1>1, <1>4, <1>5 DEF Open, Ended
<1>7. Shape(n)
  BY <1>3 DEF Process, Shape
<1>8. ASSUME ~r.left PROVE Own(n)
  <2>1. Own(r) /\ ~Ended(r)
    BY <1>8 DEF Process, Open
  <2>2. Heard(n)
    BY <1>1, <1>3, <1>4, <1>5, <1>8, <2>1 DEF Own, Heard
  <2> QED
    BY <1>3, <1>6, <2>1, <2>2 DEF Own
<1>9. Process(n)
  BY <1>3, <1>7, <1>8 DEF Process
<1> QED
  BY <1>3, <1>9 DEF n, e

(* The result of a prompt: a turn that works on its own prompt hears it and  *)
(* ends; the last answer owed to cut turns makes an idle process clean.      *)
LEMMA AnswersPrompt ==
  ASSUME NEW r, Process(r), r.at \in {"idle", "busy"}, r.work # <<>>,
         NEW kind \in {"final", "overflow"}
  PROVE  LET n == [Push(r, kind, Head(r.work)) EXCEPT
                     !.work = Tail(@), !.spoke = 0,
                     !.left = @ /\ (r.at = "busy" \/ Len(r.work) > 1)]
         IN /\ Process(n) /\ n.at = r.at /\ n.key = r.key /\ n.turn = r.turn
<1> DEFINE m == Push(r, kind, Head(r.work))
           l == m.left /\ (r.at = "busy" \/ Len(r.work) > 1)
           n == [m EXCEPT !.work = Tail(@), !.spoke = 0, !.left = l]
<1>1. /\ r \in ProcState /\ r.work \in Seq(Inv) /\ Head(r.work) \in Inv /\ Tail(r.work) \in Seq(Inv)
      /\ Open(r) => r.at = "busy"
      /\ ~r.left => /\ r.at = "busy" /\ Open(r) /\ Head(r.work) = r.turn
                    /\ Tail(r.work) = <<>>
  BY WorksOnTurn DEF ProcState
<1>2. kind \in EventKind /\ l \in BOOLEAN
  BY DEF EventKind, Failure
<1>3. /\ m \in ProcState
      /\ m.at = r.at /\ m.key = r.key /\ m.turn = r.turn /\ m.work = r.work /\ m.left = r.left
      /\ ~Open(r) => m.queue = r.queue
      /\ Open(r) => Ended(m)
      /\ Heard(r) /\ Head(r.work) = r.turn => Heard(m)
  BY <1>1, <1>2, Pushes
<1> HIDE DEF m
<1>4. l => r.left
  BY <1>3
<1>5. r.left /\ ~l => r.at = "idle" /\ Tail(r.work) = <<>>
  BY <1>1, <1>3
<1> HIDE DEF l
<1>6. /\ n \in ProcState /\ n.at = r.at /\ n.key = r.key /\ n.turn = r.turn /\ n.left = l
      /\ n.work = Tail(r.work) /\ n.queue = m.queue
  BY <1>1, <1>2, <1>3 DEF ProcState
<1> HIDE DEF n
<1>7. Shape(n)
  BY <1>1, <1>3, <1>6 DEF Process, Shape
<1>8. ASSUME ~r.left PROVE Own(n)
  <2>1. Heard(n) /\ Ended(n)
    BY <1>1, <1>3, <1>6, <1>8 DEF Process, Own, Heard, Ended
  <2> QED
    BY <1>1, <1>6, <1>8, <2>1 DEF Own
<1>9. ASSUME r.left, ~l PROVE Own(n)
  <2>1. n.queue = <<>>
    BY <1>1, <1>3, <1>5, <1>6, <1>9 DEF Process, Shape
  <2> QED
    BY <1>5, <1>6, <1>9, <2>1, EmptyQueue DEF Own
<1>10. n.left \/ Own(n)
  BY <1>6, <1>8, <1>9
<1>11. Process(n)
  BY <1>6, <1>7, <1>10 DEF Process
<1> QED
  BY <1>6, <1>11 DEF n, m, l

(* The first event that is not "done" is handed over: the turn is no nearer  *)
(* to its end.                                                               *)
LEMMA HandsOver ==
  ASSUME NEW r, Process(r), r.queue # <<>>, Head(r.queue).kind # "done"
  PROVE  LET n == [r EXCEPT !.queue = Tail(@)]
         IN /\ Process(n) /\ n.at = r.at /\ n.key = r.key /\ n.turn = r.turn
<1> DEFINE n == [r EXCEPT !.queue = Tail(@)]
<1>1. r \in ProcState /\ r.queue \in Seq(Event)
  BY DEF Process, ProcState
<1>2. /\ Tail(r.queue) \in Seq(Event) /\ Head(r.queue) = r.queue[1]
      /\ Len(r.queue) >= 1 /\ Len(Tail(r.queue)) = Len(r.queue) - 1
      /\ \A k \in 1..Len(Tail(r.queue)) : Tail(r.queue)[k] = r.queue[k + 1]
  BY <1>1, HeadTail
<1>3. /\ n \in ProcState /\ n.at = r.at /\ n.key = r.key /\ n.turn = r.turn /\ n.left = r.left
      /\ n.work = r.work /\ n.queue = Tail(r.queue)
  BY <1>1, <1>2 DEF ProcState
<1> HIDE DEF n
<1>4. Ended(n) <=> Ended(r)
  <2>1. ASSUME NEW k \in 1..Len(r.queue), r.queue[k].kind = "done" PROVE Ended(n)
    <3>1. k - 1 \in 1..Len(n.queue) /\ n.queue[k - 1] = r.queue[(k - 1) + 1]
      BY <1>1, <1>2, <1>3, <2>1
    <3> QED
      BY <2>1, <3>1 DEF Ended
  <2>2. ASSUME NEW k \in 1..Len(n.queue), n.queue[k].kind = "done" PROVE Ended(r)
    <3>1. k + 1 \in 1..Len(r.queue) /\ n.queue[k] = r.queue[k + 1]
      BY <1>1, <1>2, <1>3
    <3> QED
      BY <2>2, <3>1 DEF Ended
  <2> QED
    BY <2>1, <2>2 DEF Ended
<1>5. Shape(n)
  BY <1>1, <1>3 DEF Process, Shape
<1>6. ASSUME ~r.left PROVE Own(n)
  <2>1. Own(r)
    BY <1>6 DEF Process
  <2>2. \A k \in 1..Len(n.queue) : k + 1 \in 1..Len(r.queue) /\ n.queue[k] = r.queue[k + 1]
    BY <1>1, <1>2, <1>3
  <2>3. Heard(n)
    BY <1>3, <2>1, <2>2 DEF Own, Heard
  <2> QED
    BY <1>3, <1>4, <2>1, <2>3 DEF Own
<1>7. Process(n)
  BY <1>3, <1>5, <1>6 DEF Process
<1> QED
  BY <1>3, <1>7 DEF n

(* A turn whose consumer stops early: if it was open, the process is marked.  *)
LEMMA CutShort ==
  ASSUME NEW r, Process(r), r.turn # NoInv
  PROVE  LET n == Over([r EXCEPT !.left = @ \/ Open(r)])
         IN /\ Process(n) /\ n.turn = NoInv
            /\ r.at = "busy" => n.at = "idle" /\ n.key = r.key
            /\ r.at = "dead" => n.at = "unborn"
<1> DEFINE l == r.left \/ Open(r)
           m == [r EXCEPT !.left = l]
<1>1. r \in ProcState /\ l \in BOOLEAN
  BY DEF Process, ProcState, Open
<1>2. (r.left => l) /\ (l => r.left \/ Open(r)) /\ (Open(r) => l)
  OBVIOUS
<1> HIDE DEF l
<1>3. /\ m \in ProcState /\ m.at = r.at /\ m.key = r.key /\ m.turn = r.turn /\ m.left = l
      /\ m.work = r.work /\ m.queue = r.queue
  BY <1>1 DEF ProcState
<1> HIDE DEF m
<1>4. Process(m)
  <2>1. Shape(m) /\ (Own(r) => Own(m))
    BY <1>3 DEF Process, Shape, Own, Heard, Ended
  <2>2. m.left \/ Own(m)
    BY <1>2, <1>3, <2>1 DEF Process
  <2> QED
    BY <1>3, <2>1, <2>2 DEF Process
<1>5. ASSUME m.at = "busy", ~m.left PROVE m.work = <<>>
  BY <1>2, <1>3, <1>4, <1>5 DEF Process, Own, Open, Ended
<1>6. Over(m) = Over([r EXCEPT !.left = @ \/ Open(r)])
  BY DEF m, l
<1>7. m.at = "busy" => m.left \/ m.work = <<>>
  BY <1>5
<1>8. m.turn # NoInv
  BY <1>3
<1> QED
  BY <1>3, <1>4, <1>6, <1>7, <1>8, Ends

(* A turn that reads "done" has had the answer to its prompt.                *)
LEMMA Answered ==
  ASSUME NEW r, Process(r), r.queue # <<>>, Head(r.queue).kind = "done", r.at = "busy"
  PROVE  r.left \/ r.work = <<>>
<1>1. r.queue \in Seq(Event)
  BY DEF Process, ProcState
<1>2. Head(r.queue) = r.queue[1] /\ 1 \in 1..Len(r.queue)
  BY <1>1, HeadTail
<1>3. Ended(r)
  BY <1>2 DEF Ended
<1> QED
  BY <1>3 DEF Process, Own

-----------------------------------------------------------------------------
(* The pool: what it holds, and whose turn an invocation waits for.          *)
ProcsInv == procs \in [Proc -> ProcState] /\ \A p \in Proc : Process(procs[p])

Ordered ==
  /\ older \subseteq pool \X pool
  /\ \A p, q \in pool : p # q => (<<p, q>> \in older <=> <<q, p>> \notin older)

PoolInv ==
  /\ pool \subseteq Proc /\ Ordered
  /\ IsFiniteSet(pool) /\ Cardinality(pool) <= MaxProcesses
  /\ \A p \in Proc : Live(p) <=> p \in pool
  /\ \A p, q \in pool : procs[p].key = procs[q].key => p = q

Awaits(i, p) == p \in Proc /\ procs[p].turn = i /\ procs[p].key = KeyOf[i]
TurnsInv == \A i \in Inv : inv[i].at = "turn" => Awaits(i, inv[i].proc)

InvState ==
  [at : {"idle", "ready", "turn", "shot", "decide", "close", "over"}, proc : Nat, cycle : Nat,
   seen : Nat, done : BOOLEAN, error : {"none", "limit", "thrown"} \cup Error,
   failed : SUBSET ({"missing_done", "limit", "thrown"} \cup Error), aborted : BOOLEAN]
InvsInv == inv \in [Inv -> InvState]

ShotState == [at : {"none", "run", "killed"}, queue : Seq(Event), finished : BOOLEAN]
ShotsInv == shots \in [Inv -> ShotState]

SessionInv == ProcsInv /\ PoolInv /\ TurnsInv

(* Nobody is put into the pool. *)
LEMMA Shrinks ==
  ASSUME PoolInv, NEW S, Removed(S),
         \A p \in Proc : procs'[p].at \in {"idle", "busy"} <=> p \in pool',
         \A p \in pool' : procs'[p].key = procs[p].key
  PROVE  PoolInv'
<1>1. pool' = pool \ S /\ older' = older \cap (pool' \X pool')
  BY DEF Removed
<1>2. Ordered'
  BY <1>1 DEF PoolInv, Ordered
<1>3. IsFiniteSet(pool') /\ Cardinality(pool') <= Cardinality(pool)
  BY <1>1, FS_Subset DEF PoolInv
<1>4. Cardinality(pool) \in Nat /\ Cardinality(pool') \in Nat
  BY <1>3, FS_CardinalityType DEF PoolInv
<1>5. Cardinality(pool') <= MaxProcesses
  BY <1>3, <1>4, LimitsAssumption DEF PoolInv
<1>6. \A p, q \in pool' : procs'[p].key = procs'[q].key => p = q
  BY <1>1 DEF PoolInv
<1>7. (\A p \in Proc : Live(p) <=> p \in pool)'
  BY DEF Live
<1> QED
  BY <1>1, <1>2, <1>3, <1>5, <1>6, <1>7 DEF PoolInv

(* A process is put last, where it was or where there is room.               *)
LEMMA Grows ==
  ASSUME PoolInv, NEW p \in Proc, NEW S, PutLast(p, S),
         p \in pool \/ Cardinality(pool \ S) < MaxProcesses,
         \A q \in Proc : procs'[q].at \in {"idle", "busy"} <=> q \in pool',
         \A q \in pool \ (S \cup {p}) :
            procs'[q].key = procs[q].key /\ procs'[q].key # procs'[p].key
  PROVE  PoolInv'
<1> DEFINE others == pool \ (S \cup {p})
<1>1. /\ pool' = others \cup {p} /\ p \notin others /\ others \subseteq pool
      /\ older' = (older \cap (others \X others)) \cup (others \X {p})
  BY DEF PutLast
<1>2. Ordered'
  BY <1>1 DEF PoolInv, Ordered
<1>3. IsFiniteSet(pool) /\ IsFiniteSet(pool \ S) /\ IsFiniteSet(others)
  BY FS_Subset DEF PoolInv
<1>4. IsFiniteSet(pool') /\ Cardinality(pool') = Cardinality(others) + 1
  BY <1>1, <1>3, FS_AddElement
<1>5. Cardinality(others) \in Nat /\ Cardinality(pool) \in Nat /\ Cardinality(pool \ S) \in Nat
  BY <1>3, FS_CardinalityType
<1> HIDE DEF others
<1>6. Cardinality(others) < MaxProcesses
  <2>1. CASE p \in pool
    <3>1. IsFiniteSet(pool \ {p}) /\ Cardinality(pool \ {p}) = Cardinality(pool) - 1
      BY <1>3, <2>1, FS_RemoveElement
    <3>2. Cardinality(others) <= Cardinality(pool \ {p})
      BY <3>1, FS_Subset DEF others
    <3>3. Cardinality(pool) <= MaxProcesses
      BY DEF PoolInv
    <3> QED
      BY <1>5, <3>1, <3>2, <3>3, LimitsAssumption
  <2>2. CASE p \notin pool
    <3>1. Cardinality(others) <= Cardinality(pool \ S)
      BY <1>3, FS_Subset DEF others
    <3>2. Cardinality(pool \ S) < MaxProcesses
      BY <2>2
    <3> QED
      BY <1>5, <3>1, <3>2, LimitsAssumption
  <2> QED
    BY <2>1, <2>2
<1>7. Cardinality(pool') <= MaxProcesses
  BY <1>4, <1>5, <1>6, LimitsAssumption
<1>8. \A q, r \in pool' : procs'[q].key = procs'[r].key => q = r
  <2>1. \A q \in others : procs'[q].key = procs[q].key /\ procs'[q].key # procs'[p].key
    BY DEF others
  <2>2. \A q, r \in others : procs[q].key = procs[r].key => q = r
    BY <1>1 DEF PoolInv
  <2> QED
    BY <1>1, <2>1, <2>2
<1>9. (\A q \in Proc : Live(q) <=> q \in pool)'
  BY DEF Live
<1>10. pool' \subseteq Proc
  BY <1>1 DEF PoolInv
<1> QED
  BY <1>2, <1>4, <1>7, <1>8, <1>9, <1>10 DEF PoolInv

(* Turns that go on, go on with the same process.                            *)
LEMMA TurnsKept ==
  ASSUME TurnsInv,
         \A i \in Inv : inv'[i].at = "turn" =>
           /\ inv[i].at = "turn" /\ inv'[i].proc = inv[i].proc
           /\ LET p == inv[i].proc
              IN p \in Proc /\ procs[p].turn = i =>
                   procs'[p].turn = i /\ procs'[p].key = procs[p].key
  PROVE  TurnsInv'
<1> SUFFICES ASSUME NEW i \in Inv, inv'[i].at = "turn"
             PROVE  /\ inv'[i].proc \in Proc /\ procs'[inv'[i].proc].turn = i
                    /\ procs'[inv'[i].proc].key = KeyOf[i]
  BY DEF TurnsInv, Awaits
<1> QED
  BY DEF TurnsInv, Awaits

(* Nothing of the session changes but an event, an answer or a counter.      *)
LEMMA OneProcess ==
  ASSUME SessionInv, NEW p \in Proc, NEW n, Process(n), procs' = [procs EXCEPT ![p] = n],
         n.at = procs[p].at, n.key = procs[p].key, n.turn = procs[p].turn, UNCHANGED <<pool, older>>,
         \A i \in Inv : inv'[i].at = "turn" => inv[i].at = "turn" /\ inv'[i].proc = inv[i].proc
  PROVE  SessionInv'
<1>1. procs \in [Proc -> ProcState] /\ n \in ProcState
  BY DEF SessionInv, ProcsInv, Process
<1>2. /\ procs' \in [Proc -> ProcState]
      /\ \A q \in Proc : procs'[q] = IF q = p THEN n ELSE procs[q]
  BY <1>1
<1>3. /\ ProcsInv'
      /\ \A q \in Proc : /\ procs'[q].at = procs[q].at /\ procs'[q].key = procs[q].key
                         /\ procs'[q].turn = procs[q].turn
  BY <1>2 DEF SessionInv, ProcsInv
<1>4. (\A q \in Proc : Live(q) <=> q \in pool)'
  BY <1>3 DEF SessionInv, PoolInv, Live
<1>5. PoolInv'
  BY <1>3, <1>4 DEF SessionInv, PoolInv, Ordered
<1>6. TurnsInv'
  BY <1>3, TurnsKept DEF SessionInv
<1> QED
  BY <1>3, <1>5, <1>6 DEF SessionInv

(* Processes end by terminate() or an exit: none of them stays in the pool.  *)
LEMMA Terminates ==
  ASSUME SessionInv, NEW S, NEW kind \in EventKind, Terminate(S, kind),
         \A i \in Inv : inv'[i].at = "turn" => inv[i].at = "turn" /\ inv'[i].proc = inv[i].proc
  PROVE  SessionInv'
<1>1. /\ procs' = [p \in Proc |-> IF p \in S /\ Live(p) THEN Dead(procs[p], kind) ELSE procs[p]]
      /\ Removed(S) /\ pool' = pool \ S
  BY DEF Terminate, Removed
<1>2. ASSUME NEW p \in Proc, p \in S, Live(p)
      PROVE  /\ Process(procs'[p]) /\ procs'[p].at \in {"unborn", "dead"}
             /\ procs[p].turn # NoInv =>
                  procs'[p].turn = procs[p].turn /\ procs'[p].key = procs[p].key
  <2>1. procs'[p] = Dead(procs[p], kind) /\ Process(procs[p])
    BY <1>1, <1>2 DEF SessionInv, ProcsInv
  <2>2. LET n == Dead(procs[p], kind)
        IN /\ Process(n) /\ n.at \in {"unborn", "dead"}
           /\ procs[p].turn # NoInv =>
                n.at = "dead" /\ n.turn = procs[p].turn /\ n.key = procs[p].key
    BY <2>1, Dies
  <2> QED
    BY <2>1, <2>2
<1>3. ASSUME NEW p \in Proc, ~(p \in S /\ Live(p)) PROVE procs'[p] = procs[p]
  BY <1>1, <1>3
<1>4. ProcsInv'
  <2>1. ASSUME NEW p \in Proc PROVE Process(procs'[p])
    <3>1. CASE p \in S /\ Live(p)
      BY <1>2, <3>1
    <3>2. CASE ~(p \in S /\ Live(p))
      BY <1>3, <3>2 DEF SessionInv, ProcsInv
    <3> QED
      BY <3>1, <3>2
  <2>2. \A p \in Proc : procs'[p] \in ProcState
    BY <2>1 DEF Process
  <2>3. procs' \in [Proc -> ProcState]
    BY <1>1, <2>2
  <2> QED
    BY <2>1, <2>3 DEF ProcsInv
<1>5. \A p \in Proc : procs'[p].at \in {"idle", "busy"} <=> p \in pool'
  BY <1>1, <1>2, <1>3 DEF SessionInv, PoolInv, Live
<1>6. \A p \in pool' : procs'[p].key = procs[p].key
  BY <1>1, <1>3 DEF SessionInv, PoolInv
<1>7. PoolInv'
  BY <1>1, <1>5, <1>6, Shrinks DEF SessionInv
<1>8. \A p \in Proc : procs[p].turn # NoInv =>
        procs'[p].turn = procs[p].turn /\ procs'[p].key = procs[p].key
  BY <1>2, <1>3
<1>9. TurnsInv'
  BY <1>8, TurnsKept, SessionAssumption DEF SessionInv
<1> QED
  BY <1>4, <1>7, <1>9 DEF SessionInv

-----------------------------------------------------------------------------
(* The actions.  Reuse and Spawn send a prompt to a process without a turn.  *)
LEMMA Sends ==
  ASSUME NEW s, Process(s), s.turn = NoInv, s.at \in {"idle", "unborn"},
         s.work = <<>> \/ s.left, NEW i \in Inv, NEW p, NEW r \in Send(i, p, s)
  PROVE  /\ Process(r) /\ r.at \in {"unborn", "busy", "dead"}
         /\ inv[i].aborted => r.at # "busy"
         /\ ~inv[i].aborted => r.turn = i /\ r.key = s.key
<1>1. CASE inv[i].aborted
  <2> DEFINE d == [s EXCEPT !.at = "dead"]
  <2>1. r = Forgotten(d) /\ s \in ProcState /\ s.queue = <<>>
    BY <1>1 DEF Send, Process, Shape
  <2>2. d \in ProcState /\ d.at = "dead" /\ d.queue = <<>> /\ d.turn = NoInv
    BY <2>1 DEF ProcState
  <2> HIDE DEF d
  <2>3. Process(r) /\ r.at \in {"unborn", "dead"}
    BY <2>1, <2>2, EmptyQueue, Forgets
  <2> QED
    BY <1>1, <2>3
<1>2. CASE ~inv[i].aborted
  <2> DEFINE n == Started(s, i)
  <2>1. Process(n) /\ n.at = "busy" /\ n.turn = i /\ n.key = s.key
    BY Starts
  <2>2. r \in {n, Dead(n, "stdin")}
    BY <1>2 DEF Send
  <2> HIDE DEF n
  <2>3. CASE r = n
    BY <1>2, <2>1, <2>3
  <2>4. CASE r = Dead(n, "stdin")
    <3>1. "stdin" \in EventKind /\ n.turn # NoInv
      BY <2>1, SessionAssumption DEF EventKind, Failure
    <3> QED
      BY <1>2, <2>1, <2>4, <3>1, Dies
  <2> QED
    BY <2>2, <2>3, <2>4
<1> QED
  BY <1>1, <1>2

(* The invocation takes the process for its turn, unless it is aborted.      *)
LEMMA TakesTurn ==
  ASSUME InvsInv, NEW i \in Inv, inv[i].at = "ready", NEW p \in Proc, inv' = Turn(i, p)
  PROVE  /\ InvsInv'
         /\ inv'[i].at = "turn" => ~inv[i].aborted /\ inv'[i].proc = p
         /\ \A j \in Inv : j # i => inv'[j] = inv[j]
<1>1. p \in Nat /\ inv[i] \in InvState /\ inv \in [Inv -> InvState]
  BY LimitsAssumption DEF InvsInv
<1>2. inv[i].aborted \in BOOLEAN /\ inv[i].error \in {"none", "limit", "thrown"} \cup Error
  BY <1>1 DEF InvState
<1> DEFINE a == IF inv[i].aborted THEN "decide" ELSE "turn"
           e == IF inv[i].aborted THEN "aborted" ELSE inv[i].error
           v == [inv[i] EXCEPT !.at = a, !.proc = p, !.error = e, !.done = inv[i].aborted]
<1>3. inv' = [inv EXCEPT ![i] = v]
  BY <1>1 DEF Turn
<1>4. a \in {"decide", "turn"} /\ e \in {"none", "limit", "thrown"} \cup Error
  BY <1>2 DEF Error
<1>5. a = "turn" => ~inv[i].aborted
  OBVIOUS
<1> HIDE DEF a, e
<1>6. v \in InvState /\ v.at = a /\ v.proc = p
  BY <1>1, <1>2, <1>4 DEF InvState
<1> HIDE DEF v
<1> QED
  BY <1>1, <1>3, <1>5, <1>6 DEF InvsInv

(* getOrSpawn finds the idle process of the session.                         *)
LEMMA ReuseInv ==
  ASSUME SessionInv, InvsInv, NEW i \in Inv, Reuse(i)
  PROVE  SessionInv' /\ InvsInv'
<1> PICK p \in Of(KeyOf[i]) :
        /\ procs[p].at = "idle" /\ inv' = Turn(i, p) /\ inv[i].at = "ready"
        /\ \E r \in Send(i, p, procs[p]) :
             /\ procs' = [procs EXCEPT ![p] = r]
             /\ IF r.at = "busy" THEN PutLast(p, {}) ELSE Removed({p})
  BY DEF Reuse, Ready
<1>1. PICK r \in Send(i, p, procs[p]) :
        /\ procs' = [procs EXCEPT ![p] = r]
        /\ IF r.at = "busy" THEN PutLast(p, {}) ELSE Removed({p})
        /\ procs[p].at = "idle" /\ inv' = Turn(i, p) /\ inv[i].at = "ready"
  OBVIOUS
<1>2. /\ p \in pool /\ p \in Proc /\ procs[p].key = KeyOf[i] /\ Process(procs[p])
      /\ procs[p].turn = NoInv /\ (procs[p].work = <<>> \/ procs[p].left)
      /\ procs \in [Proc -> ProcState]
  BY <1>1 DEF Of, SessionInv, PoolInv, ProcsInv, Process, Shape, Own
<1>3. /\ Process(r) /\ r.at \in {"unborn", "busy", "dead"}
      /\ inv[i].aborted => r.at # "busy"
      /\ ~inv[i].aborted => r.turn = i /\ r.key = KeyOf[i]
  BY <1>1, <1>2, Sends
<1>4. /\ InvsInv'
      /\ inv'[i].at = "turn" => ~inv[i].aborted /\ inv'[i].proc = p
      /\ \A j \in Inv : j # i => inv'[j] = inv[j]
  BY <1>1, <1>2, TakesTurn
<1>5. \A q \in Proc : procs'[q] = IF q = p THEN r ELSE procs[q]
  BY <1>1, <1>2
<1>6. ProcsInv'
  BY <1>1, <1>2, <1>3, <1>5 DEF SessionInv, ProcsInv, Process
<1>7. PoolInv'
  <2>1. CASE r.at = "busy"
    <3>1. PutLast(p, {}) /\ pool' = pool
      BY <1>1, <1>2, <2>1 DEF PutLast
    <3>2. \A q \in Proc : procs'[q].at \in {"idle", "busy"} <=> q \in pool'
      BY <1>2, <1>5, <2>1, <3>1 DEF SessionInv, PoolInv, Live
    <3>3. \A q \in pool \ {p} :
            procs'[q].key = procs[q].key /\ procs'[q].key # procs'[p].key
      BY <1>2, <1>3, <1>5, <2>1 DEF SessionInv, PoolInv
    <3> QED
      BY <1>2, <3>1, <3>2, <3>3, Grows DEF SessionInv
  <2>2. CASE r.at # "busy"
    <3>1. Removed({p}) /\ pool' = pool \ {p}
      BY <1>1, <2>2 DEF Removed
    <3>2. \A q \in Proc : procs'[q].at \in {"idle", "busy"} <=> q \in pool'
      BY <1>2, <1>3, <1>5, <2>2, <3>1 DEF SessionInv, PoolInv, Live
    <3>3. \A q \in pool' : procs'[q].key = procs[q].key
      BY <1>5, <3>1 DEF SessionInv, PoolInv
    <3> QED
      BY <3>1, <3>2, <3>3, Shrinks DEF SessionInv
  <2> QED
    BY <2>1, <2>2
<1>8. TurnsInv'
  <2>1. ASSUME NEW j \in Inv, j # i, inv'[j].at = "turn" PROVE Awaits(j, inv[j].proc)'
    <3>1. Awaits(j, inv[j].proc) /\ inv'[j] = inv[j]
      BY <1>4, <2>1 DEF SessionInv, TurnsInv
    <3>2. inv[j].proc # p
      BY <1>2, <3>1, SessionAssumption DEF Awaits
    <3> QED
      BY <1>5, <3>1, <3>2 DEF Awaits
  <2>2. ASSUME inv'[i].at = "turn" PROVE Awaits(i, inv[i].proc)'
    BY <1>2, <1>3, <1>4, <1>5, <2>2 DEF Awaits
  <2> QED
    BY <2>1, <2>2 DEF TurnsInv
<1> QED
  BY <1>4, <1>6, <1>7, <1>8 DEF SessionInv

(* The processes getOrSpawn ends are idle, and there is room after that.     *)
LEMMA Evicts ==
  ASSUME SessionInv, NEW i \in Inv, Free(i)
  PROVE  LET mine == Of(KeyOf[i])
             gone == Gone(mine)
         IN /\ gone \subseteq pool /\ mine \subseteq gone
            /\ \A p \in gone : procs[p].at = "idle" /\ procs[p].turn = NoInv
            /\ Room(mine) \/ OldestIdle(mine) # {} => Cardinality(pool \ gone) < MaxProcesses
<1> DEFINE mine == Of(KeyOf[i])
           old == OldestIdle(mine)
           gone == Gone(mine)
<1>1. /\ mine \subseteq pool /\ old \subseteq pool \ mine
      /\ gone = mine \cup (IF Room(mine) THEN {} ELSE old)
      /\ \A p \in mine \cup old : procs[p].at = "idle"
  BY DEF Of, OldestIdle, Gone, Free
<1>2. pool \subseteq Proc /\ IsFiniteSet(pool) /\ Cardinality(pool) <= MaxProcesses
  BY DEF SessionInv, PoolInv
<1> HIDE DEF mine, old, gone
<1>3. \A p \in gone : procs[p].at = "idle" /\ procs[p].turn = NoInv
  BY <1>1, <1>2 DEF SessionInv, ProcsInv, Process, Shape
<1>4. CASE Room(mine)
  BY <1>1, <1>3, <1>4 DEF Room, mine, gone
<1>5. ASSUME ~Room(mine), old # {} PROVE Cardinality(pool \ gone) < MaxProcesses
  <2>1. PICK o \in old : TRUE
    BY <1>5
  <2>2. o \in pool /\ pool \ gone \subseteq pool \ {o}
    BY <1>1, <1>5, <2>1
  <2>3. IsFiniteSet(pool \ {o}) /\ Cardinality(pool \ {o}) = Cardinality(pool) - 1
    BY <1>2, <2>2, FS_RemoveElement
  <2>4. IsFiniteSet(pool \ gone) /\ Cardinality(pool \ gone) <= Cardinality(pool \ {o})
    BY <2>2, <2>3, FS_Subset
  <2>5. Cardinality(pool) \in Nat /\ Cardinality(pool \ gone) \in Nat
    BY <1>2, <2>4, FS_CardinalityType
  <2> QED
    BY <1>2, <2>3, <2>4, <2>5, LimitsAssumption
<1> QED
  BY <1>1, <1>3, <1>4, <1>5 DEF mine, old, gone

(* getOrSpawn starts a process for the session.                              *)
LEMMA SpawnInv ==
  ASSUME SessionInv, InvsInv, NEW i \in Inv, Spawn(i)
  PROVE  SessionInv' /\ InvsInv'
<1> DEFINE mine == Of(KeyOf[i])
           gone == Gone(mine)
           s == [Unborn EXCEPT !.key = KeyOf[i]]
<1> PICK p \in Fresh :
        /\ inv' = Turn(i, p) /\ inv[i].at = "ready"
        /\ \E r \in Send(i, p, s) :
             /\ procs' = [q \in Proc |-> IF q = p THEN r
                                         ELSE IF q \in gone THEN Unborn ELSE procs[q]]
             /\ IF r.at = "busy" THEN PutLast(p, gone) ELSE Removed(gone)
  BY DEF Spawn, Ready
<1>1. PICK r \in Send(i, p, s) :
        /\ procs' = [q \in Proc |-> IF q = p THEN r
                                    ELSE IF q \in gone THEN Unborn ELSE procs[q]]
        /\ IF r.at = "busy" THEN PutLast(p, gone) ELSE Removed(gone)
        /\ inv' = Turn(i, p) /\ inv[i].at = "ready"
  OBVIOUS
<1>2. /\ gone \subseteq pool /\ mine \subseteq gone
      /\ \A q \in gone : procs[q].at = "idle" /\ procs[q].turn = NoInv
      /\ Cardinality(pool \ gone) < MaxProcesses
  BY Evicts DEF Spawn
<1>3. /\ p \in Proc /\ procs[p] = Unborn /\ procs[p].turn = NoInv /\ p \notin pool
      /\ pool \subseteq Proc
  BY UnbornIsProcess DEF Fresh, SessionInv, PoolInv, Live
<1>4. Process(s) /\ s.turn = NoInv /\ s.at = "unborn" /\ s.work = <<>> /\ s.key = KeyOf[i]
  <2>1. /\ s.at = "unborn" /\ s.turn = NoInv /\ s.queue = <<>> /\ s.work = <<>> /\ s.key = KeyOf[i]
        /\ s \in ProcState
    BY UnbornIsProcess, SessionAssumption DEF Unborn, Process, ProcState
  <2> QED
    BY <2>1, EmptyQueue DEF Process, Shape, Own
<1>5. \A q \in pool \ gone : procs[q].key # KeyOf[i]
  BY <1>2 DEF mine, Of
<1> HIDE DEF mine, gone, s
<1>6. /\ Process(r) /\ r.at \in {"unborn", "busy", "dead"}
      /\ inv[i].aborted => r.at # "busy"
      /\ ~inv[i].aborted => r.turn = i /\ r.key = KeyOf[i]
  BY <1>1, <1>4, Sends
<1>7. /\ InvsInv'
      /\ inv'[i].at = "turn" => ~inv[i].aborted /\ inv'[i].proc = p
      /\ \A j \in Inv : j # i => inv'[j] = inv[j]
  BY <1>1, <1>3, TakesTurn
<1>8. /\ procs'[p] = r
      /\ \A q \in Proc : q # p => procs'[q] = IF q \in gone THEN Unborn ELSE procs[q]
  BY <1>1, <1>3
<1>9. ProcsInv'
  <2>1. \A q \in Proc : Process(procs'[q])
    BY <1>6, <1>8, UnbornIsProcess DEF SessionInv, ProcsInv
  <2>2. \A q \in Proc : procs'[q] \in ProcState
    BY <2>1 DEF Process
  <2>3. procs' \in [Proc -> ProcState]
    BY <1>1, <2>2
  <2> QED
    BY <2>1, <2>3 DEF ProcsInv
<1>10. PoolInv'
  <2>1. \A q \in Proc : q # p => (procs'[q].at \in {"idle", "busy"} <=> q \in pool \ gone)
    BY <1>8, UnbornIsProcess DEF SessionInv, PoolInv, Live
  <2>2. CASE r.at = "busy"
    <3>1. PutLast(p, gone) /\ pool' = (pool \ gone) \cup {p}
      BY <1>1, <1>3, <2>2 DEF PutLast
    <3>2. \A q \in Proc : procs'[q].at \in {"idle", "busy"} <=> q \in pool'
      BY <1>8, <2>1, <2>2, <3>1
    <3>3. \A q \in pool \ (gone \cup {p}) :
            procs'[q].key = procs[q].key /\ procs'[q].key # procs'[p].key
      BY <1>3, <1>5, <1>6, <1>8, <2>2
    <3> QED
      BY <1>2, <1>3, <3>1, <3>2, <3>3, Grows DEF SessionInv
  <2>3. CASE r.at # "busy"
    <3>1. Removed(gone) /\ pool' = pool \ gone
      BY <1>1, <2>3 DEF Removed
    <3>2. \A q \in Proc : procs'[q].at \in {"idle", "busy"} <=> q \in pool'
      BY <1>3, <1>6, <1>8, <2>1, <2>3, <3>1
    <3>3. \A q \in pool' : procs'[q].key = procs[q].key
      BY <1>3, <1>8, <3>1
    <3> QED
      BY <3>1, <3>2, <3>3, Shrinks DEF SessionInv
  <2> QED
    BY <2>2, <2>3
<1>11. TurnsInv'
  <2>1. ASSUME NEW j \in Inv, j # i, inv'[j].at = "turn" PROVE Awaits(j, inv[j].proc)'
    <3>1. Awaits(j, inv[j].proc) /\ inv'[j] = inv[j]
      BY <1>7, <2>1 DEF SessionInv, TurnsInv
    <3>2. inv[j].proc # p /\ inv[j].proc \notin gone
      BY <1>2, <1>3, <3>1, SessionAssumption DEF Awaits
    <3> QED
      BY <1>8, <3>1, <3>2 DEF Awaits
  <2>2. ASSUME inv'[i].at = "turn" PROVE Awaits(i, inv[i].proc)'
    BY <1>3, <1>6, <1>7, <1>8, <2>2 DEF Awaits
  <2> QED
    BY <2>1, <2>2 DEF TurnsInv
<1> QED
  BY <1>7, <1>9, <1>10, <1>11 DEF SessionInv

(* getOrSpawn returns null: the invocation goes on with a one-shot.          *)
LEMMA ShootInv ==
  ASSUME InvsInv, NEW i \in Inv, Shoot(i)
  PROVE  InvsInv' /\ inv'[i].at = "shot" /\ \A j \in Inv : j # i => inv'[j] = inv[j]
<1> DEFINE v == [inv[i] EXCEPT !.at = "shot", !.proc = 0]
<1>1. inv \in [Inv -> InvState] /\ inv' = [inv EXCEPT ![i] = v]
  BY DEF Shoot, InvsInv
<1>2. v \in InvState /\ v.at = "shot"
  BY <1>1 DEF InvState
<1> HIDE DEF v
<1> QED
  BY <1>1, <1>2 DEF InvsInv

LEMMA NoProcessInv ==
  ASSUME SessionInv, InvsInv, NEW i \in Inv, NoProcess(i)
  PROVE  SessionInv' /\ InvsInv'
<1> DEFINE mine == Of(KeyOf[i])
           gone == Gone(mine)
<1>1. /\ InvsInv' /\ inv'[i].at = "shot"
      /\ \A j \in Inv : j # i => inv'[j] = inv[j]
  BY ShootInv DEF NoProcess
<1>2. CASE UNCHANGED <<pool, older, procs>>
  <2>1. ProcsInv' /\ PoolInv'
    BY <1>2 DEF SessionInv, ProcsInv, PoolInv, Ordered, Live
  <2>2. TurnsInv'
    BY <1>1, <1>2, TurnsKept DEF SessionInv
  <2> QED
    BY <1>1, <2>1, <2>2 DEF SessionInv
<1>3. ASSUME Free(i), Removed(gone), procs' = [q \in Proc |-> IF q \in gone THEN Unborn ELSE procs[q]]
      PROVE  SessionInv'
  <2>1. /\ gone \subseteq pool
        /\ \A q \in gone : procs[q].at = "idle" /\ procs[q].turn = NoInv
    BY <1>3, Evicts
  <2>2. Removed(gone) /\ pool' = pool \ gone /\ pool \subseteq Proc
    BY <1>3 DEF Removed, SessionInv, PoolInv
  <2> HIDE DEF mine, gone
  <2>3. ProcsInv'
    <3>1. \A q \in Proc : Process(procs'[q])
      BY <1>3, UnbornIsProcess DEF SessionInv, ProcsInv
    <3>2. \A q \in Proc : procs'[q] \in ProcState
      BY <3>1 DEF Process
    <3>3. procs' \in [Proc -> ProcState]
      BY <1>3, <3>2
    <3> QED
      BY <3>1, <3>3 DEF ProcsInv
  <2>4. \A q \in Proc : procs'[q].at \in {"idle", "busy"} <=> q \in pool'
    BY <1>3, <2>2, UnbornIsProcess DEF SessionInv, PoolInv, Live
  <2>5. \A q \in pool' : procs'[q].key = procs[q].key
    BY <1>3, <2>2
  <2>6. PoolInv'
    BY <2>2, <2>4, <2>5, Shrinks DEF SessionInv
  <2>7. TurnsInv'
    <3>1. \A q \in Proc : procs[q].turn # NoInv => procs'[q] = procs[q]
      BY <1>3, <2>1
    <3> QED
      BY <1>1, <3>1, TurnsKept, SessionAssumption DEF SessionInv
  <2> QED
    BY <2>3, <2>6, <2>7 DEF SessionInv
<1> QED
  BY <1>1, <1>2, <1>3 DEF NoProcess

(* A failed turn: its process is over, and whatever process the session has  *)
(* by now is ended.                                                          *)
LEMMA FallBackInv ==
  ASSUME SessionInv, InvsInv, NEW i \in Inv, FallBack(i)
  PROVE  SessionInv' /\ InvsInv'
<1> DEFINE p == inv[i].proc
           S == Of(KeyOf[i])
<1>1. /\ inv[i].at = "turn" /\ Removed(S)
      /\ procs' = [q \in Proc |->
                     IF q = p THEN Over(IF p \in S THEN [procs[p] EXCEPT !.at = "dead"]
                                                   ELSE procs[p])
                     ELSE IF q \in S THEN Dead(procs[q], "killed") ELSE procs[q]]
  BY DEF FallBack
<1>2. /\ InvsInv' /\ inv'[i].at = "shot"
      /\ \A j \in Inv : j # i => inv'[j] = inv[j]
  BY ShootInv DEF FallBack
<1>3. /\ p \in Proc /\ procs[p].turn = i /\ procs[p].key = KeyOf[i] /\ Process(procs[p])
      /\ S \subseteq pool /\ pool \subseteq Proc /\ i # NoInv /\ pool' = pool \ S
  BY <1>1, SessionAssumption DEF SessionInv, TurnsInv, Awaits, ProcsInv, PoolInv, Of, Removed
<1>4. p \in S <=> procs[p].at = "busy"
  BY <1>3 DEF SessionInv, PoolInv, Live, Of, Process, Shape
<1> DEFINE d == IF p \in S THEN [procs[p] EXCEPT !.at = "dead"] ELSE procs[p]
<1>5. Process(d) /\ d.at = "dead" /\ d.turn # NoInv
  <2>1. procs[p] \in ProcState /\ procs[p].at \in {"busy", "dead"}
    BY <1>3 DEF Process, Shape, ProcState
  <2>2. /\ d \in ProcState /\ d.at = "dead" /\ d.turn = i /\ d.left = procs[p].left
        /\ d.queue = procs[p].queue
    BY <1>3, <1>4, <2>1 DEF ProcState
  <2> HIDE DEF d
  <2>3. Shape(d) /\ (Own(procs[p]) => Own(d))
    BY <1>3, <2>2 DEF Shape, Own, Heard
  <2>4. d.left \/ Own(d)
    BY <1>3, <2>2, <2>3 DEF Process
  <2> QED
    BY <1>3, <2>2, <2>3, <2>4 DEF Process
<1>6. procs'[p] = Over(d)
  BY <1>1, <1>3
<1> HIDE DEF d
<1>7. Process(procs'[p]) /\ procs'[p].at = "unborn"
  BY <1>5, <1>6, Ends
<1>8. ASSUME NEW q \in Proc, q # p, q \in S
      PROVE  /\ Process(procs'[q]) /\ procs'[q].at \in {"unborn", "dead"}
             /\ procs[q].turn # NoInv =>
                  procs'[q].turn = procs[q].turn /\ procs'[q].key = procs[q].key
  <2>1. procs'[q] = Dead(procs[q], "killed") /\ Process(procs[q]) /\ "killed" \in EventKind
    BY <1>1, <1>8 DEF SessionInv, ProcsInv, EventKind, Error
  <2>2. LET n == Dead(procs[q], "killed")
        IN /\ Process(n) /\ n.at \in {"unborn", "dead"}
           /\ procs[q].turn # NoInv =>
                n.at = "dead" /\ n.turn = procs[q].turn /\ n.key = procs[q].key
    BY <2>1, Dies
  <2> QED
    BY <2>1, <2>2
<1>9. ASSUME NEW q \in Proc, q # p, q \notin S PROVE procs'[q] = procs[q]
  BY <1>1, <1>9
<1>10. procs' = [q \in Proc |-> procs'[q]]
  BY <1>1
<1> HIDE DEF p, S
<1>11. ProcsInv'
  <2>1. ASSUME NEW q \in Proc PROVE Process(procs'[q])
    <3>1. CASE q # p /\ q \notin S
      BY <1>9, <3>1 DEF SessionInv, ProcsInv
    <3> QED
      BY <1>7, <1>8, <3>1
  <2>2. \A q \in Proc : procs'[q] \in ProcState
    BY <2>1 DEF Process
  <2> QED
    BY <1>10, <2>1, <2>2 DEF ProcsInv
<1>12. PoolInv'
  <2>1. \A q \in Proc : procs'[q].at \in {"idle", "busy"} <=> q \in pool'
    <3>1. p \notin pool'
      BY <1>3, <1>4 DEF SessionInv, PoolInv, Live, Process, Shape
    <3> QED
      BY <1>3, <1>7, <1>8, <1>9, <3>1 DEF SessionInv, PoolInv, Live
  <2>2. \A q \in pool' : procs'[q].key = procs[q].key
    BY <1>3, <1>7, <1>9, <2>1
  <2> QED
    BY <1>1, <2>1, <2>2, Shrinks DEF SessionInv
<1>13. TurnsInv'
  <2>1. \A q \in Proc : q # p /\ procs[q].turn # NoInv =>
          procs'[q].turn = procs[q].turn /\ procs'[q].key = procs[q].key
    BY <1>8, <1>9
  <2>2. \A j \in Inv : j # NoInv
    BY SessionAssumption
  <2> QED
    BY <1>2, <1>3, <2>1, <2>2, TurnsKept DEF SessionInv
<1> QED
  BY <1>2, <1>11, <1>12, <1>13 DEF SessionInv

(* What an event changes in the supervisor's counters.                       *)
LEMMA SeenInv ==
  ASSUME InvsInv, NEW i \in Inv, NEW e
  PROVE  LET v == Seen(i, e)
         IN /\ v \in [Inv -> InvState]
            /\ \A j \in Inv : v[j].at = inv[j].at /\ v[j].proc = inv[j].proc
<1> DEFINE d == inv[i].done \/ e.kind = "done"
           er == IF e.kind \in Error THEN e.kind ELSE inv[i].error
           n == [inv[i] EXCEPT !.seen = @ + 1, !.done = d, !.error = er]
<1>1. inv \in [Inv -> InvState] /\ inv[i] \in InvState
  BY DEF InvsInv
<1>2. d \in BOOLEAN /\ er \in {"none", "limit", "thrown"} \cup Error /\ inv[i].seen + 1 \in Nat
  BY <1>1 DEF InvState
<1>3. Seen(i, e) = IF i \in Supervised THEN [inv EXCEPT ![i] = n] ELSE inv
  BY <1>1 DEF Seen
<1> HIDE DEF d, er
<1>4. n \in InvState /\ n.at = inv[i].at /\ n.proc = inv[i].proc
  BY <1>1, <1>2 DEF InvState
<1> HIDE DEF n
<1> QED
  BY <1>1, <1>3, <1>4

LEMMA CutInv ==
  ASSUME InvsInv, NEW i \in Inv
  PROVE  /\ Cut(i) \in [Inv -> InvState] /\ Cut(i)[i].at = "decide"
         /\ \A j \in Inv : j # i => Cut(i)[j] = inv[j]
<1> DEFINE er == IF Limited(i) THEN "limit" ELSE "thrown"
           n == [inv[i] EXCEPT !.at = "decide", !.seen = @ + 1, !.error = er]
<1>1. er \in {"limit", "thrown"} /\ inv[i] \in InvState /\ inv[i].seen + 1 \in Nat
  BY DEF InvsInv, InvState
<1>2. Cut(i) = [inv EXCEPT ![i] = n]
  BY DEF Cut
<1> HIDE DEF er
<1>3. n \in InvState /\ n.at = "decide"
  BY <1>1 DEF InvState
<1> HIDE DEF n
<1> QED
  BY <1>2, <1>3 DEF InvsInv

(* A turn that ends while its process lives on, or had died.                 *)
LEMMA TurnOver ==
  ASSUME SessionInv, NEW i \in Inv, inv[i].at = "turn", NEW n, Process(n), n.turn = NoInv,
         procs[inv[i].proc].at = "busy" => n.at = "idle" /\ n.key = procs[inv[i].proc].key,
         procs[inv[i].proc].at = "dead" => n.at = "unborn",
         procs' = [procs EXCEPT ![inv[i].proc] = n], UNCHANGED <<pool, older>>,
         inv'[i].at # "turn",
         \A j \in Inv : j # i => inv'[j].at = inv[j].at /\ inv'[j].proc = inv[j].proc
  PROVE  SessionInv'
<1> DEFINE p == inv[i].proc
<1>1. /\ p \in Proc /\ procs[p].turn = i /\ i # NoInv /\ procs \in [Proc -> ProcState]
      /\ Process(procs[p]) /\ n \in ProcState
  BY SessionAssumption DEF SessionInv, TurnsInv, Awaits, ProcsInv, Process
<1>2. procs[p].at \in {"busy", "dead"}
  BY <1>1 DEF Process, Shape, ProcState
<1>3. /\ procs' \in [Proc -> ProcState]
      /\ \A q \in Proc : procs'[q] = IF q = p THEN n ELSE procs[q]
  BY <1>1
<1> HIDE DEF p
<1>4. ProcsInv'
  BY <1>3 DEF SessionInv, ProcsInv
<1>5. \A q \in Proc : /\ procs'[q].at \in {"idle", "busy"} <=> procs[q].at \in {"idle", "busy"}
                      /\ procs[q].at \in {"idle", "busy"} => procs'[q].key = procs[q].key
  BY <1>2, <1>3 DEF p
<1>6. (\A q \in Proc : Live(q) <=> q \in pool)'
  BY <1>5 DEF SessionInv, PoolInv, Live
<1>7. PoolInv'
  BY <1>5, <1>6 DEF SessionInv, PoolInv, Ordered, Live
<1>8. \A q \in Proc : procs[q].turn # i => procs'[q] = procs[q]
  BY <1>1, <1>3
<1>9. TurnsInv'
  BY <1>8, TurnsKept DEF SessionInv
<1> QED
  BY <1>4, <1>7, <1>9 DEF SessionInv

(* An event reaches the caller: the turn goes on, is over or is cut short.   *)
LEMMA TurnYieldsInv ==
  ASSUME SessionInv, InvsInv, NEW i \in Inv, TurnYields(i)
  PROVE  SessionInv' /\ InvsInv'
<1> DEFINE p == inv[i].proc
           r == procs[p]
           e == Head(r.queue)
<1>1. /\ inv[i].at = "turn" /\ r.queue # <<>> /\ UNCHANGED <<pool, older>>
      /\ p \in Proc /\ r.turn = i /\ i # NoInv /\ Process(r)
  BY SessionAssumption DEF TurnYields, SessionInv, TurnsInv, Awaits, ProcsInv
<1>2. CASE /\ procs' = [procs EXCEPT ![p] = Over([procs[p] EXCEPT !.left = @ \/ Open(procs[p])])]
           /\ inv' = Cut(i)
  <2> DEFINE n == Over([r EXCEPT !.left = @ \/ Open(r)])
  <2>1. procs' = [procs EXCEPT ![p] = n] /\ inv' = Cut(i)
    BY <1>2
  <2>2. /\ Process(n) /\ n.turn = NoInv
        /\ r.at = "busy" => n.at = "idle" /\ n.key = r.key
        /\ r.at = "dead" => n.at = "unborn"
    BY <1>1, CutShort
  <2> HIDE DEF n
  <2>3. InvsInv' /\ inv'[i].at = "decide" /\ \A j \in Inv : j # i => inv'[j] = inv[j]
    BY <2>1, CutInv DEF InvsInv
  <2> QED
    BY <1>1, <2>1, <2>2, <2>3, TurnOver
<1>3. CASE /\ e.kind = "done" /\ procs' = [procs EXCEPT ![p] = Over(procs[p])]
           /\ inv' = [Seen(i, e) EXCEPT ![i].at = "decide"]
  <2> DEFINE n == Over(r)
             v == Seen(i, e)
  <2>1. procs' = [procs EXCEPT ![p] = n] /\ inv' = [v EXCEPT ![i].at = "decide"]
    BY <1>3
  <2>2. r.at = "busy" => r.left \/ r.work = <<>>
    BY <1>1, <1>3, Answered
  <2>3. /\ Process(n) /\ n.turn = NoInv
        /\ r.at = "busy" => n.at = "idle" /\ n.key = r.key
        /\ r.at = "dead" => n.at = "unborn"
    BY <1>1, <2>2, Ends
  <2>4. /\ v \in [Inv -> InvState]
        /\ \A j \in Inv : v[j].at = inv[j].at /\ v[j].proc = inv[j].proc
    BY SeenInv
  <2> HIDE DEF n, v
  <2>5. /\ InvsInv' /\ inv'[i].at = "decide"
        /\ \A j \in Inv : j # i => inv'[j].at = inv[j].at /\ inv'[j].proc = inv[j].proc
    BY <2>1, <2>4 DEF InvsInv, InvState
  <2> QED
    BY <1>1, <2>1, <2>3, <2>5, TurnOver
<1>4. CASE /\ e.kind # "done" /\ procs' = [procs EXCEPT ![p].queue = Tail(@)]
           /\ inv' = Seen(i, e)
  <2> DEFINE n == [r EXCEPT !.queue = Tail(@)]
             v == Seen(i, e)
  <2>1. procs' = [procs EXCEPT ![p] = n] /\ inv' = v
    BY <1>4
  <2>2. Process(n) /\ n.at = r.at /\ n.key = r.key /\ n.turn = r.turn
    BY <1>1, <1>4, HandsOver
  <2>3. /\ v \in [Inv -> InvState]
        /\ \A j \in Inv : v[j].at = inv[j].at /\ v[j].proc = inv[j].proc
    BY SeenInv
  <2> HIDE DEF n, v
  <2> QED
    BY <1>1, <2>1, <2>2, <2>3, OneProcess DEF InvsInv
<1> QED
  BY <1>2, <1>3, <1>4 DEF TurnYields

(* What the subprocess says and answers reaches one process object.          *)
LEMMA SubprocessInv ==
  ASSUME SessionInv, InvsInv, NEW p \in Proc, Subprocess(p) \/ IdleTimeout(p)
  PROVE  SessionInv' /\ InvsInv'
<1>1. UNCHANGED inv /\ Process(procs[p])
  BY DEF Subprocess, Says, Answers, Exits, Hangs, IdleTimeout, SessionInv, ProcsInv
<1>2. \A i \in Inv : inv'[i].at = "turn" => inv[i].at = "turn" /\ inv'[i].proc = inv[i].proc
  BY <1>1
<1>3. InvsInv'
  BY <1>1 DEF InvsInv
<1>4. CASE Says(p)
  <2>1. PICK kind \in {"text", "overflow"} :
          procs' = [procs EXCEPT ![p].queue = Append(@, Ev(kind, Head(procs[p].work))),
                                 ![p].spoke = @ + 1]
    BY <1>4 DEF Says
  <2> DEFINE n == [procs[p] EXCEPT !.queue = Append(@, Ev(kind, Head(procs[p].work))),
                                   !.spoke = @ + 1]
  <2>2. procs' = [procs EXCEPT ![p] = n]
    BY <2>1 DEF SessionInv, ProcsInv
  <2>3. Process(n) /\ n.at = procs[p].at /\ n.key = procs[p].key /\ n.turn = procs[p].turn
    BY <1>1, <1>4, Speaks DEF Says
  <2>4. UNCHANGED <<pool, older>>
    BY <1>4 DEF Says
  <2> HIDE DEF n
  <2> QED
    BY <1>2, <1>3, <2>2, <2>3, <2>4, OneProcess
<1>5. CASE Answers(p)
  <2> DEFINE r == procs[p]
  <2>1. PICK kind \in {"final", "overflow"} :
          procs' = [procs EXCEPT ![p] =
            [Push(r, kind, Head(r.work)) EXCEPT
               !.work = Tail(@), !.spoke = 0,
               !.left = @ /\ (r.at = "busy" \/ Len(r.work) > 1)]]
    BY <1>5 DEF Answers
  <2> DEFINE n == [Push(r, kind, Head(r.work)) EXCEPT
                     !.work = Tail(@), !.spoke = 0,
                     !.left = @ /\ (r.at = "busy" \/ Len(r.work) > 1)]
  <2>2. procs' = [procs EXCEPT ![p] = n]
    BY <2>1
  <2>3. Process(n) /\ n.at = r.at /\ n.key = r.key /\ n.turn = r.turn
    <3>1. Process(r) /\ r.at \in {"idle", "busy"} /\ r.work # <<>>
      BY <1>1, <1>5 DEF Answers, Live
    <3> HIDE DEF r
    <3> QED
      BY <3>1, AnswersPrompt
  <2>4. UNCHANGED <<pool, older>>
    BY <1>5 DEF Answers
  <2> HIDE DEF n
  <2> QED
    BY <1>2, <1>3, <2>2, <2>3, <2>4, OneProcess
<1>6. CASE Exits(p) \/ Hangs(p) \/ IdleTimeout(p)
  <2>1. PICK kind \in {"exit", "hang", "killed"} : Terminate({p}, kind)
    BY <1>6 DEF Exits, Hangs, IdleTimeout
  <2>2. kind \in EventKind
    BY DEF EventKind, Failure, Error
  <2> QED
    BY <1>2, <1>3, <2>1, <2>2, Terminates
<1> QED
  BY <1>4, <1>5, <1>6 DEF Subprocess

(* Steps of an invocation that leave the pool and its processes alone.       *)
LEMMA AloneInv ==
  ASSUME SessionInv, UNCHANGED <<pool, older, procs>>,
         \A i \in Inv : inv'[i].at = "turn" => inv[i].at = "turn" /\ inv'[i].proc = inv[i].proc
  PROVE  SessionInv'
<1>1. ProcsInv' /\ PoolInv'
  BY DEF SessionInv, ProcsInv, PoolInv, Ordered, Live
<1>2. TurnsInv'
  BY TurnsKept DEF SessionInv
<1> QED
  BY <1>1, <1>2 DEF SessionInv

(* evaluateCycle: complete, bail or the next cycle.                          *)
LEMMA DecideInv ==
  ASSUME InvsInv, NEW i \in Inv, Decide(i)
  PROVE  InvsInv' /\ inv'[i].at # "turn" /\ \A j \in Inv : j # i => inv'[j] = inv[j]
<1> DEFINE v == inv[i]
           sig == IF v.error = "none" THEN "missing_done" ELSE v.error
           again == [v EXCEPT !.at = "ready", !.proc = 0, !.cycle = @ + 1, !.done = FALSE,
                              !.error = "none", !.failed = @ \cup {sig}]
           close == [v EXCEPT !.at = "close", !.proc = 0]
<1>1. inv \in [Inv -> InvState] /\ v \in InvState
  BY DEF InvsInv
<1>2. \E n \in {again, close} : inv' = [inv EXCEPT ![i] = n]
  BY DEF Decide
<1>3. sig \in {"missing_done", "limit", "thrown"} \cup Error /\ v.cycle + 1 \in Nat
  BY <1>1 DEF InvState
<1> HIDE DEF v, sig
<1>4. v.failed \cup {sig} \in SUBSET ({"missing_done", "limit", "thrown"} \cup Error)
  BY <1>1, <1>3 DEF InvState
<1>5. again \in InvState /\ again.at = "ready" /\ close \in InvState /\ close.at = "close"
  BY <1>1, <1>3, <1>4 DEF InvState
<1> HIDE DEF again, close
<1> QED
  BY <1>1, <1>2, <1>5 DEF InvsInv

LEMMA ConsumerInv ==
  ASSUME SessionInv, InvsInv, NEW i \in Inv, Consumer(i) \/ Begin(i) \/ OneShot(i)
  PROVE  SessionInv' /\ InvsInv'
<1>1. CASE Reuse(i) \/ Spawn(i) \/ NoProcess(i) \/ FallBack(i) \/ TurnYields(i)
  BY <1>1, ReuseInv, SpawnInv, NoProcessInv, FallBackInv, TurnYieldsInv
<1>2. CASE ShotYields(i)
  <2>1. UNCHANGED <<pool, older, procs>> /\ inv[i].at = "shot"
    BY <1>2 DEF ShotYields
  <2>2. CASE inv' = Cut(i)
    <3>1. InvsInv' /\ inv'[i].at = "decide" /\ \A j \in Inv : j # i => inv'[j] = inv[j]
      BY <2>2, CutInv DEF InvsInv
    <3> QED
      BY <2>1, <3>1, AloneInv
  <2>3. CASE inv' = Seen(i, Head(shots[i].queue))
    <3>1. InvsInv' /\ \A j \in Inv : inv'[j].at = inv[j].at /\ inv'[j].proc = inv[j].proc
      BY <2>3, SeenInv DEF InvsInv
    <3> QED
      BY <2>1, <3>1, AloneInv
  <2> QED
    BY <1>2, <2>2, <2>3 DEF ShotYields
<1>3. CASE ShotOver(i) \/ Begin(i)
  <2>1. /\ UNCHANGED <<pool, older, procs>>
        /\ \E a \in {"decide", "ready"} : inv' = [inv EXCEPT ![i].at = a]
    BY <1>3 DEF ShotOver, Begin
  <2>2. /\ InvsInv'
        /\ \A j \in Inv : inv'[j].at = "turn" => inv[j].at = "turn" /\ inv'[j].proc = inv[j].proc
    BY <2>1 DEF InvsInv, InvState
  <2> QED
    BY <2>1, <2>2, AloneInv
<1>4. CASE Decide(i)
  <2>1. UNCHANGED <<pool, older, procs>>
    BY <1>4 DEF Decide
  <2> QED
    BY <1>4, <2>1, DecideInv, AloneInv
<1>5. CASE Close(i)
  <2>1. UNCHANGED <<pool, older, procs>> /\ inv' = [inv EXCEPT ![i] = [Asleep EXCEPT !.at = "over"]]
    BY <1>5 DEF Close
  <2>2. [Asleep EXCEPT !.at = "over"] \in InvState /\ [Asleep EXCEPT !.at = "over"].at = "over"
    BY DEF Asleep, InvState
  <2>3. InvsInv' /\ \A j \in Inv : inv'[j].at = "turn" => inv'[j] = inv[j]
    BY <2>1, <2>2 DEF InvsInv
  <2> QED
    BY <2>1, <2>3, AloneInv
<1>6. CASE OneShot(i)
  <2>1. UNCHANGED <<pool, older, procs>> /\ UNCHANGED inv
    BY <1>6 DEF OneShot, ShotStalls, ShotExits
  <2>2. InvsInv'
    BY <2>1 DEF InvsInv
  <2> QED
    BY <2>1, <2>2, AloneInv
<1> QED
  BY <1>1, <1>2, <1>3, <1>4, <1>5, <1>6 DEF Consumer

(* Aborts and the shutdown.                                                  *)
LEMMA InterruptInv ==
  ASSUME SessionInv, InvsInv, (\E i \in Inv : Abort(i)) \/ KillAll
  PROVE  SessionInv' /\ InvsInv'
<1>1. ASSUME NEW i \in Inv, Abort(i) PROVE SessionInv' /\ InvsInv'
  <2> DEFINE v == [inv[i] EXCEPT !.aborted = TRUE]
  <2>1. inv \in [Inv -> InvState] /\ inv' = [inv EXCEPT ![i] = v]
    BY <1>1 DEF Abort, InvsInv
  <2>2. v \in InvState /\ v.at = inv[i].at /\ v.proc = inv[i].proc
    BY <2>1 DEF InvState
  <2> HIDE DEF v
  <2>5. InvsInv' /\ \A j \in Inv : inv'[j].at = inv[j].at /\ inv'[j].proc = inv[j].proc
    BY <2>1, <2>2 DEF InvsInv
  <2>3. Terminate({inv[i].proc}, "killed") \/ UNCHANGED <<pool, older, procs>>
    BY <1>1 DEF Abort
  <2>4. "killed" \in EventKind
    BY DEF EventKind, Error
  <2> QED
    BY <2>3, <2>4, <2>5, Terminates, AloneInv
<1>2. CASE KillAll
  <2>1. Terminate(pool, "killed") /\ UNCHANGED inv /\ "killed" \in EventKind
    BY <1>2 DEF KillAll, EventKind, Error
  <2>2. InvsInv'
    BY <2>1 DEF InvsInv
  <2> QED
    BY <2>1, <2>2, Terminates
<1> QED
  BY <1>1, <1>2

LEMMA SessionStep == SessionInv /\ InvsInv /\ [Next]_vars => SessionInv' /\ InvsInv'
<1> SUFFICES ASSUME SessionInv, InvsInv, [Next]_vars PROVE SessionInv' /\ InvsInv'
  OBVIOUS
<1>1. CASE UNCHANGED vars
  <2>1. UNCHANGED <<pool, older, procs, inv>>
    BY <1>1 DEF vars
  <2>2. InvsInv'
    BY <2>1 DEF InvsInv
  <2> QED
    BY <2>1, <2>2, AloneInv
<1>2. CASE AtRest
  BY <1>1, <1>2 DEF AtRest
<1> QED
  BY <1>1, <1>2, SubprocessInv, ConsumerInv, InterruptInv DEF Next

(* The event queue of a one-shot holds events.                               *)
LEMMA ShotsStep == ShotsInv /\ [Next]_vars => ShotsInv'
<1> SUFFICES ASSUME ShotsInv, [Next]_vars PROVE ShotsInv'
  OBVIOUS
<1>1. \A kind \in EventKind, i \in Inv :
        /\ Ev(kind, i) \in Event /\ Ev("done", i) \in Event
        /\ <<Ev(kind, i)>> \in Seq(Event) /\ <<Ev(kind, i), Ev("done", i)>> \in Seq(Event)
        /\ <<Ev("done", i)>> \in Seq(Event)
  BY EvIsEvent DEF EventKind
<1>2. NoShot \in ShotState
  BY EmptyQueue DEF NoShot, ShotState
<1>3. ASSUME NEW i \in Inv, NEW kind \in EventKind, Finish(i, <<Ev(kind, i)>>) PROVE ShotsInv'
  <2> DEFINE q == shots[i].queue \o <<Ev(kind, i)>> \o <<Ev("done", i)>>
  <2>1. shots \in [Inv -> ShotState] /\ shots[i] \in ShotState /\ shots[i].queue \in Seq(Event)
    BY DEF ShotsInv, ShotState
  <2>2. q \in Seq(Event)
    BY <1>1, <2>1
  <2>3. shots' = [shots EXCEPT ![i].queue = q, ![i].finished = TRUE]
    BY <1>3 DEF Finish
  <2> HIDE DEF q
  <2> QED
    BY <2>1, <2>2, <2>3 DEF ShotsInv, ShotState
<1>4. ASSUME NEW i \in Inv, OneShot(i) PROVE ShotsInv'
  <2>1. PICK kind \in {"stall", "final", "aborted", "soft", "hard"} : Finish(i, <<Ev(kind, i)>>)
    BY <1>4 DEF OneShot, ShotStalls, ShotExits
  <2> QED
    BY <1>3, <2>1 DEF EventKind, Error
<1>5. ASSUME NEW i \in Inv, Shoot(i) PROVE ShotsInv'
  <2>1. shots' = [shots EXCEPT ![i] = Attempt(i)] /\ "aborted" \in EventKind
    BY <1>5 DEF Shoot, EventKind, Error
  <2>2. Attempt(i) \in ShotState
    BY <1>1, <2>1, EmptyQueue DEF Attempt, NoShot, ShotState
  <2> HIDE DEF Attempt
  <2> QED
    BY <2>1, <2>2 DEF ShotsInv
<1>6. ASSUME NEW i \in Inv, ShotYields(i) \/ ShotOver(i) PROVE ShotsInv'
  <2>1. shots[i].queue # <<>> => Tail(shots[i].queue) \in Seq(Event)
    BY HeadTail DEF ShotsInv, ShotState
  <2>2. \/ shots' = [shots EXCEPT ![i] = NoShot]
        \/ /\ shots[i].queue # <<>>
           /\ shots' = [shots EXCEPT ![i].queue = Tail(@)]
    BY <1>6 DEF ShotYields, ShotOver
  <2>3. CASE shots' = [shots EXCEPT ![i] = NoShot]
    BY <1>2, <2>3 DEF ShotsInv
  <2>4. CASE shots[i].queue # <<>> /\ shots' = [shots EXCEPT ![i].queue = Tail(@)]
    BY <2>1, <2>4 DEF ShotsInv, ShotState
  <2> QED
    BY <2>2, <2>3, <2>4
<1>7. ASSUME NEW i \in Inv, Abort(i) PROVE ShotsInv'
  <2> DEFINE s == shots[i]
             q == IF s.finished THEN s.queue ELSE s.queue \o <<Ev("aborted", i), Ev("done", i)>>
  <2>1. s \in ShotState /\ s.queue \in Seq(Event) /\ "aborted" \in EventKind
    BY DEF ShotsInv, ShotState, EventKind, Error
  <2>2. q \in Seq(Event)
    BY <1>1, <2>1
  <2>3. \/ UNCHANGED shots
        \/ shots' = [shots EXCEPT ![i].at = "killed", ![i].queue = q, ![i].finished = TRUE]
    BY <1>7 DEF Abort
  <2> HIDE DEF q
  <2> QED
    BY <2>2, <2>3 DEF ShotsInv, ShotState
<1>8. CASE KillAll
  <2>1. shots' = [i \in Inv |-> IF shots[i].at = "run" THEN [shots[i] EXCEPT !.at = "killed"]
                                                       ELSE shots[i]]
    BY <1>8 DEF KillAll
  <2> QED
    BY <2>1 DEF ShotsInv, ShotState
<1>9. ASSUME UNCHANGED shots PROVE ShotsInv'
  BY <1>9 DEF ShotsInv
<1>10. ASSUME NEW p \in Proc, Subprocess(p) \/ IdleTimeout(p) PROVE UNCHANGED shots
  BY <1>10 DEF Subprocess, Says, Answers, Exits, Hangs, IdleTimeout
<1>11. ASSUME NEW i \in Inv, Consumer(i) \/ Begin(i) PROVE ShotsInv'
  <2>1. CASE Reuse(i) \/ Spawn(i) \/ TurnYields(i) \/ Decide(i) \/ Close(i) \/ Begin(i)
    BY <1>9, <2>1 DEF Reuse, Spawn, TurnYields, Decide, Close, Begin
  <2>2. CASE NoProcess(i) \/ FallBack(i)
    BY <1>5, <2>2 DEF NoProcess, FallBack
  <2> QED
    BY <1>6, <1>11, <2>1, <2>2 DEF Consumer
<1>12. CASE AtRest \/ UNCHANGED vars
  BY <1>9, <1>12 DEF AtRest, vars
<1> QED
  BY <1>4, <1>7, <1>8, <1>9, <1>10, <1>11, <1>12 DEF Next

-----------------------------------------------------------------------------
LEMMA SessionInit == Init => SessionInv /\ InvsInv /\ ShotsInv
<1> SUFFICES ASSUME Init PROVE SessionInv /\ InvsInv /\ ShotsInv
  OBVIOUS
<1>1. ProcsInv
  BY UnbornIsProcess DEF Init, ProcsInv, Process
<1>2. IsFiniteSet({}) /\ Cardinality({}) = 0
  BY FS_EmptySet
<1>3. PoolInv
  BY <1>2, UnbornIsProcess, LimitsAssumption DEF Init, PoolInv, Ordered, Live
<1>4. Asleep \in InvState /\ Asleep.at = "idle"
  BY DEF Asleep, InvState
<1>5. InvsInv /\ TurnsInv
  BY <1>4 DEF Init, InvsInv, TurnsInv
<1>6. ShotsInv
  BY EmptyQueue DEF Init, ShotsInv, ShotState, NoShot
<1> QED
  BY <1>1, <1>3, <1>5, <1>6 DEF SessionInv

(* The type invariant of the composition: whatever kills, evictions, exits   *)
(* and fallbacks do, for every pool size and every number of sessions, the   *)
(* pool holds exactly the processes that are alive, one per session and at   *)
(* most MaxProcesses.                                                        *)
THEOREM PoolHoldsTheLiving == Spec => []TypeOK
<1>1. Init => LimiterInv /\ SessionInv /\ InvsInv /\ ShotsInv
  BY LimiterInitInv, SessionInit DEF Init
<1>2. /\ LimiterInv /\ SessionInv /\ InvsInv /\ ShotsInv /\ [Next]_vars
      => (LimiterInv /\ SessionInv /\ InvsInv /\ ShotsInv)'
  BY LimiterStep, StepOfLimiter, SessionStep, ShotsStep
<1>3. LimiterInv /\ SessionInv /\ InvsInv /\ ShotsInv => TypeOK
  <2> SUFFICES ASSUME LimiterInv, SessionInv, ShotsInv PROVE TypeOK
    OBVIOUS
  <2>1. /\ LimiterTypeOK /\ pool \subseteq Proc /\ older \subseteq pool \X pool
        /\ \A p, q \in pool : p # q => (<<p, q>> \in older <=> <<q, p>> \notin older)
        /\ Cardinality(pool) <= MaxProcesses
    BY DEF LimiterInv, SessionInv, PoolInv, Ordered
  <2>2. \A p \in Proc :
          /\ procs[p].at \in {"unborn", "idle", "busy", "dead"}
          /\ procs[p].queue \in Seq(Event) /\ procs[p].turn \in Inv \cup {NoInv}
          /\ Live(p) <=> p \in pool
    BY DEF SessionInv, ProcsInv, PoolInv, ProcState
  <2>3. ASSUME NEW k \in Key PROVE Cardinality(Of(k)) <= 1
    <3>1. CASE Of(k) = {}
      BY <3>1, FS_EmptySet
    <3>2. ASSUME NEW p \in Of(k) PROVE Cardinality(Of(k)) <= 1
      <4>1. Of(k) = {p}
        BY <3>2 DEF Of, SessionInv, PoolInv
      <4> QED
        BY <4>1, FS_Singleton
    <3> QED
      BY <3>1, <3>2
  <2>4. \A i \in Inv : shots[i].queue \in Seq(Event)
    BY DEF ShotsInv, ShotState
  <2> QED
    BY <2>1, <2>2, <2>3, <2>4 DEF TypeOK
<1> QED
  BY <1>1, <1>2, <1>3, PTL DEF Spec

(* A turn hears the answer to its own prompt, for every set of sessions and  *)
(* invocations, unless the supervisor's limit cut a turn of its process.     *)
THEOREM TurnsHearTheirOwnAnswer == Spec => []HearsOwnAnswer
<1>1. Init => SessionInv /\ InvsInv
  BY SessionInit
<1>2. SessionInv /\ InvsInv /\ [Next]_vars => (SessionInv /\ InvsInv)'
  BY SessionStep
<1>3. SessionInv => HearsOwnAnswer
  <2> SUFFICES ASSUME SessionInv, NEW p \in Proc, Foreign(p) PROVE procs[p].left
    BY DEF HearsOwnAnswer
  <2>1. procs[p].left \/ Heard(procs[p])
    BY DEF SessionInv, ProcsInv, Process, Own
  <2>2. ~Heard(procs[p])
    BY DEF Heard, Foreign
  <2> QED
    BY <2>1, <2>2
<1> QED
  BY <1>1, <1>2, <1>3, PTL DEF Spec
=============================================================================
