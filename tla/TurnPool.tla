------------------------------ MODULE TurnPool ------------------------------
(***************************************************************************)
(* An invocation of a runtime from the concurrency limit to its last event, *)
(* src/src/runtime: the limiter (concurrency-limit.ts) around the global    *)
(* supervisor's retry loop (global-supervisor.ts) around the CLI adapter    *)
(* (cli-adapter.ts), which sends the prompt to a long-running process of    *)
(* the session (long-running-process.ts, process-pool.ts) and falls back to *)
(* a one-shot subprocess.  An event is its kind and the invocation whose    *)
(* prompt it answers; text, images, usage and telemetry are left out.  The  *)
(* subprocess is the environment: it answers the prompts in order, hangs or *)
(* exits.  External: a stream whose last listener went loses its data.      *)
(***************************************************************************)
EXTENDS Limiter

CONSTANTS
  Key, KeyOf,     \* session keys; [Inv -> Key]
  Supervised,     \* invocations with the global supervisor on
  NoInv,
  Proc,           \* LongRunningProcess objects in use at once, numbered
  MaxProcesses,   \* opts.maxProcesses
  MaxCycles, MaxRetries, MaxEvents,  \* the supervisor's limits
  MaxTexts,       \* bound: text events before the result
  MaxInterrupts   \* bound: abort signals and the shutdown

ASSUME SessionAssumption ==
  KeyOf \in [Inv -> Key] /\ Supervised \subseteq Inv /\ NoInv \notin Inv
ASSUME LimitsAssumption ==
  /\ MaxProcesses \in Nat /\ MaxCycles \in Nat \ {0} /\ MaxRetries \in 0..(MaxCycles - 1)
  /\ MaxEvents \in Nat \ {0} /\ MaxTexts \in Nat /\ MaxInterrupts \in Nat /\ Proc \subseteq Nat

Failure == {"exit", "hang", "overflow", "stdin"}   \* the adapter falls back
Error == {"killed", "aborted", "stall", "soft", "hard"}   \* the consumer sees these
Event == [kind : {"text", "final", "done"} \cup Failure \cup Error, from : Inv]
NoShot == [at |-> "none", queue |-> <<>>, finished |-> FALSE]
Unborn == [at |-> "unborn", key |-> CHOOSE k \in Key : TRUE, turn |-> NoInv, queue |-> <<>>,
           work |-> <<>>, spoke |-> 0, left |-> FALSE]
Asleep == [at |-> "idle", proc |-> 0, cycle |-> 1, seen |-> 0, done |-> FALSE,
           error |-> "none", failed |-> {}, aborted |-> FALSE]

VARIABLES
  pool,    \* the processes in ProcessPool.pool
  older,   \* its insertion order: <<p, q>> when p was put there before q
  procs,   \* [Proc -> state, current turn, turnQueue, prompts not yet answered]
  inv,     \* [Inv -> where the invocation is, what the supervisor counts]
  shots,   \* [Inv -> the one-shot attempt and its event queue]
  down,    \* shuttingDown
  interrupts   \* counted for its bound

vars == <<limiter, pool, older, procs, inv, shots, down, interrupts>>

Init ==
  /\ LimiterInit
  /\ pool = {} /\ older = {} /\ procs = [p \in Proc |-> Unborn]
  /\ inv = [i \in Inv |-> Asleep] /\ shots = [i \in Inv |-> NoShot]
  /\ down = FALSE /\ interrupts = 0

-----------------------------------------------------------------------------
(* The long-running process. *)

Ev(kind, i) == [kind |-> kind, from |-> i]
Live(p) == procs[p].at \in {"idle", "busy"}
Ended(r) == \E k \in 1..Len(r.queue) : r.queue[k].kind = "done"
Open(r) == r.turn # NoInv /\ ~Ended(r)

(* A dead process nobody reads from is forgotten. *)
Forgotten(r) == IF r.at = "dead" /\ r.turn = NoInv THEN Unborn ELSE r

Push(r, kind, from) ==
  [r EXCEPT !.queue = IF Open(r) THEN @ \o <<Ev(kind, from), Ev("done", from)>> ELSE @]

Dead_Silent(r, kind) == Forgotten([r EXCEPT !.at = "dead"])

(* terminate() and handleExit: the consumer of an open turn gets an error. *)
Dead(r, kind) == Forgotten([Push(r, kind, r.turn) EXCEPT !.at = "dead"])

(* What Map.delete and a Map.set after it leave of the pool. *)
Removed(S) == pool' = pool \ S /\ older' = older \cap (pool' \X pool')
PutLast(p, S) ==
  LET others == pool \ (S \cup {p}) IN
  /\ pool' = others \cup {p}
  /\ older' = (older \cap (others \X others)) \cup (others \X {p})

(* terminate() runs the clean-up that takes the process out of the pool. *)
Terminate(S, kind) ==
  /\ procs' = [p \in Proc |-> IF p \in S /\ Live(p) THEN Dead(procs[p], kind) ELSE procs[p]]
  /\ Removed(S)

Started(r, i) ==
  [r EXCEPT !.at = "busy", !.turn = i, !.queue = <<>>, !.work = Append(@, i), !.spoke = 0]

(* The finally of sendTurn: the process goes back to idle, whatever the     *)
(* subprocess still has to say.                                             *)
Over(r) ==
  Forgotten([r EXCEPT !.at = IF @ = "busy" THEN "idle" ELSE @, !.turn = NoInv,
                      !.queue = <<>>])

Says(p) ==
  LET r == procs[p] IN
  /\ r.at = "busy" /\ Open(r) /\ r.work # <<>> /\ r.spoke < MaxTexts
  /\ \E kind \in {"text", "overflow"} :
       procs' = [procs EXCEPT ![p].queue = Append(@, Ev(kind, Head(r.work))),
                              ![p].spoke = @ + 1]
  /\ UNCHANGED <<limiter, pool, older, inv, shots, down, interrupts>>

(* The result of a prompt, heard by the turn that listens, if one does.     *)
Answers(p) ==
  LET r == procs[p] IN
  /\ Live(p) /\ r.work # <<>>
  /\ \E kind \in {"final", "overflow"} :
       procs' = [procs EXCEPT ![p] =
         [Push(r, kind, Head(r.work)) EXCEPT !.work = Tail(@), !.spoke = 0,
                                             !.left = @ /\ (r.at = "busy" \/ Len(r.work) > 1)]]
  /\ UNCHANGED <<limiter, pool, older, inv, shots, down, interrupts>>

(* An exit after terminate() changes nothing. *)
Exits(p) ==
  /\ Live(p) /\ Terminate({p}, "exit")
  /\ UNCHANGED <<limiter, inv, shots, down, interrupts>>

Hangs(p) ==
  /\ procs[p].at = "busy" /\ Terminate({p}, "hang")
  /\ UNCHANGED <<limiter, inv, shots, down, interrupts>>

IdleTimeout(p) ==
  /\ procs[p].at = "idle" /\ Terminate({p}, "killed")
  /\ UNCHANGED <<limiter, inv, shots, down, interrupts>>

-----------------------------------------------------------------------------
(* The invocation enters: limiter, supervisor cycle, getOrSpawn. *)

Begin(i) ==
  /\ inv[i].at = "idle" /\ Acquire(i)
  /\ inv' = [inv EXCEPT ![i].at = "ready"]
  /\ UNCHANGED <<pool, older, procs, shots, down, interrupts>>

Ready(i) == inv[i].at = "ready" /\ permit[i] = "held"
Of(k) == {p \in pool : procs[p].key = k}
Fresh == {p \in Proc : procs[p] = Unborn}
OldestIdle(S) ==
  LET idle == {p \in pool \ S : procs[p].at = "idle"}
  IN {p \in idle : \A q \in idle : <<q, p>> \notin older}

(* A signal that fired before the turn takes the process down again. *)
Turn(i, p) == [inv EXCEPT ![i].at = IF @ # "idle" /\ inv[i].aborted THEN "decide" ELSE "turn",
                          ![i].proc = p,
                          ![i].error = IF inv[i].aborted THEN "aborted" ELSE @,
                          ![i].done = inv[i].aborted]

(* The turn starts, or its write to stdin fails. *)
Send(i, p, r) ==
  IF inv[i].aborted THEN {Forgotten([r EXCEPT !.at = "dead"])}
  ELSE {Started(r, i), Dead(Started(r, i), "stdin")}

Reuse(i) ==
  /\ Ready(i) /\ ~down
  /\ \E p \in Of(KeyOf[i]) :
       /\ procs[p].at = "idle"
       /\ \E r \in Send(i, p, procs[p]) :
            /\ procs' = [procs EXCEPT ![p] = r]
            /\ IF r.at = "busy" THEN PutLast(p, {}) ELSE Removed({p})
       /\ inv' = Turn(i, p)
  /\ UNCHANGED <<limiter, shots, down, interrupts>>

(* The processes getOrSpawn ends: the idle one of this session, if its       *)
(* environment changed, and the least recently used idle one at capacity.    *)
Room_OneTooMany(mine) == Cardinality(pool \ mine) <= MaxProcesses

Room(mine) == Cardinality(pool \ mine) < MaxProcesses
Gone(mine) == mine \cup IF Room(mine) THEN {} ELSE OldestIdle(mine)
Free(i) == \A p \in Of(KeyOf[i]) : procs[p].at = "idle"

Spawn(i) ==
  LET mine == Of(KeyOf[i])
      gone == Gone(mine)
  IN /\ Ready(i) /\ ~down /\ Free(i)
     /\ Room(mine) \/ OldestIdle(mine) # {}
     /\ \E p \in Fresh :
          /\ \A u \in Fresh : p <= u
          /\ \E r \in Send(i, p, [Unborn EXCEPT !.key = KeyOf[i]]) :
               /\ procs' = [q \in Proc |-> IF q = p THEN r
                                           ELSE IF q \in gone THEN Unborn ELSE procs[q]]
               /\ IF r.at = "busy" THEN PutLast(p, gone) ELSE Removed(gone)
          /\ inv' = Turn(i, p)
     /\ UNCHANGED <<limiter, shots, down, interrupts>>

(* The one-shot attempt: an aborted invocation gets its error at once. *)
Attempt(i) ==
  IF inv[i].aborted
  THEN [NoShot EXCEPT !.finished = TRUE, !.queue = <<Ev("aborted", i), Ev("done", i)>>]
  ELSE [NoShot EXCEPT !.at = "run"]
Shoot(i) ==
  /\ inv' = [inv EXCEPT ![i].at = "shot", ![i].proc = 0]
  /\ shots' = [shots EXCEPT ![i] = Attempt(i)]
  /\ UNCHANGED <<limiter, down, interrupts>>

(* getOrSpawn returns null: shutting down, session busy, nothing to evict, or *)
(* the spawn failed after the evictions.                                     *)
NoProcess(i) ==
  LET mine == Of(KeyOf[i])
      gone == Gone(mine)
  IN /\ Ready(i)
     /\ \/ /\ down \/ ~Free(i)
           /\ UNCHANGED <<pool, older, procs>>
        \/ /\ ~down /\ Free(i)
           /\ procs' = [q \in Proc |-> IF q \in gone THEN Unborn ELSE procs[q]]
           /\ Removed(gone)
     /\ Shoot(i)

-----------------------------------------------------------------------------
(* Events reach the supervisor, or the caller if there is none. *)

(* maxTotalEvents counts every event of every cycle. *)
Limited(i) == i \in Supervised /\ inv[i].seen >= MaxEvents
Seen(i, e) ==
  IF i \in Supervised
  THEN [inv EXCEPT ![i].seen = @ + 1, ![i].done = @ \/ e.kind = "done",
                   ![i].error = IF e.kind \in Error THEN e.kind ELSE @]
  ELSE inv

(* The consumer stops at an event: the supervisor at its limit or because    *)
(* rawEventTap threw, a caller without supervisor because it returns or      *)
(* throws in its loop.  The generators below it return.                      *)
Cut(i) == [inv EXCEPT ![i].at = "decide", ![i].seen = @ + 1,
                      ![i].error = IF Limited(i) THEN "limit" ELSE "thrown"]

FallBack_KeepsProcess(i) ==
  LET p == inv[i].proc IN
  /\ inv[i].at = "turn" /\ procs[p].queue # <<>> /\ Head(procs[p].queue).kind \in Failure
  /\ procs' = [procs EXCEPT ![p] = Over(@)] /\ UNCHANGED <<pool, older>>
  /\ Shoot(i)

(* A turn whose process failed: pool.remove ends whatever process the        *)
(* session has by now.                                                       *)
FallBack(i) ==
  LET p == inv[i].proc
      S == Of(KeyOf[i])
  IN /\ inv[i].at = "turn" /\ procs[p].queue # <<>> /\ Head(procs[p].queue).kind \in Failure
     /\ procs' = [q \in Proc |->
                    IF q = p THEN Over(IF p \in S THEN [procs[p] EXCEPT !.at = "dead"]
                                                  ELSE procs[p])
                    ELSE IF q \in S THEN Dead(procs[q], "killed") ELSE procs[q]]
     /\ Removed(S)
     /\ Shoot(i)

TurnYields(i) ==
  LET p == inv[i].proc
      e == Head(procs[p].queue)
  IN /\ inv[i].at = "turn" /\ procs[p].queue # <<>> /\ e.kind \notin Failure
     /\ \/ /\ procs' = [procs EXCEPT ![p] = Over([procs[p] EXCEPT !.left = @ \/ Open(procs[p])])]
           /\ inv' = Cut(i)
        \/ /\ ~Limited(i) /\ e.kind = "done"
           /\ procs' = [procs EXCEPT ![p] = Over(procs[p])]
           /\ inv' = [Seen(i, e) EXCEPT ![i].at = "decide"]
        \/ /\ ~Limited(i) /\ e.kind # "done"
           /\ procs' = [procs EXCEPT ![p].queue = Tail(@)] /\ inv' = Seen(i, e)
     /\ UNCHANGED <<limiter, pool, older, shots, down, interrupts>>

(* A consumer that stops early kills an attempt that has not finished.       *)
ShotYields(i) ==
  LET s == shots[i] IN
  /\ inv[i].at = "shot" /\ s.queue # <<>>
  /\ \/ shots' = [shots EXCEPT ![i] = NoShot] /\ inv' = Cut(i)
     \/ /\ ~Limited(i)
        /\ shots' = [shots EXCEPT ![i].queue = Tail(@)] /\ inv' = Seen(i, Head(s.queue))
  /\ UNCHANGED <<limiter, pool, older, procs, down, interrupts>>

ShotOver(i) ==
  /\ inv[i].at = "shot" /\ shots[i].queue = <<>> /\ shots[i].finished
  /\ inv' = [inv EXCEPT ![i].at = "decide"] /\ shots' = [shots EXCEPT ![i] = NoShot]
  /\ UNCHANGED <<limiter, pool, older, procs, down, interrupts>>

(* The one-shot subprocess.  Its text is left out: it only counts as events. *)
Finish(i, events) ==
  shots' = [shots EXCEPT ![i].queue = @ \o events \o <<Ev("done", i)>>, ![i].finished = TRUE]

ShotStalls(i) ==
  /\ shots[i].at = "run" /\ ~shots[i].finished
  /\ Finish(i, <<Ev("stall", i)>>)
  /\ UNCHANGED <<limiter, pool, older, procs, inv, down, interrupts>>

(* tryFinalize: both streams ended and the process exited.  A killed one has *)
(* no exit code.                                                             *)
ShotExits(i) ==
  LET s == shots[i] IN
  /\ s.at \in {"run", "killed"} /\ ~s.finished
  /\ \/ /\ ~inv[i].aborted /\ s.at = "run" /\ Finish(i, <<Ev("final", i)>>)
     \/ \E kind \in IF inv[i].aborted THEN {"aborted"}
                    ELSE IF s.at = "killed" THEN {"soft"} ELSE {"soft", "hard"} :
          Finish(i, <<Ev(kind, i)>>)
  /\ UNCHANGED <<limiter, pool, older, procs, inv, down, interrupts>>

-----------------------------------------------------------------------------
(* evaluateCycle and the decision to complete, bail or retry. *)

Retryable(error) == error \notin {"aborted", "hard", "limit"}

Decide(i) ==
  LET v == inv[i]
      sig == IF v.error = "none" THEN "missing_done" ELSE v.error
      retry == /\ i \in Supervised
               /\ ~(v.done /\ v.error = "none")
               /\ Retryable(v.error)
               /\ v.cycle < MaxCycles /\ v.cycle - 1 < MaxRetries
               /\ sig \notin v.failed
  IN /\ v.at = "decide"
     /\ inv' = [inv EXCEPT ![i] =
          IF retry
          THEN [v EXCEPT !.at = "ready", !.proc = 0, !.cycle = @ + 1, !.done = FALSE,
                         !.error = "none", !.failed = @ \cup {sig}]
          ELSE [v EXCEPT !.at = "close", !.proc = 0]]
     /\ UNCHANGED <<limiter, pool, older, procs, shots, down, interrupts>>

(* The caller took the last event: the finally of withConcurrencyLimit. *)
Close(i) ==
  /\ inv[i].at = "close" /\ permit[i] = "held" /\ Release(i)
  /\ inv' = [inv EXCEPT ![i] = [Asleep EXCEPT !.at = "over"]]
  /\ UNCHANGED <<pool, older, procs, shots, down, interrupts>>

(* The caller's signal: a turn kills its process, a one-shot its subprocess. *)
Abort(i) ==
  /\ inv[i].at \notin {"idle", "over"} /\ ~inv[i].aborted /\ interrupts < MaxInterrupts
  /\ interrupts' = interrupts + 1 /\ inv' = [inv EXCEPT ![i].aborted = TRUE]
  /\ IF inv[i].at = "turn" THEN Terminate({inv[i].proc}, "killed") ELSE UNCHANGED <<pool, older, procs>>
  /\ shots' = IF shots[i].at = "run"
              THEN [shots EXCEPT ![i].at = "killed",
                      ![i].queue = IF shots[i].finished THEN @
                                   ELSE @ \o <<Ev("aborted", i), Ev("done", i)>>,
                      ![i].finished = TRUE]
              ELSE shots
  /\ UNCHANGED <<limiter, down>>

(* killAllSubprocesses at shutdown, while invocations still run. *)
KillAll ==
  /\ ~down /\ down' = TRUE /\ interrupts < MaxInterrupts /\ interrupts' = interrupts + 1
  /\ Terminate(pool, "killed")
  /\ shots' = [i \in Inv |-> IF shots[i].at = "run" THEN [shots[i] EXCEPT !.at = "killed"]
                                                    ELSE shots[i]]
  /\ UNCHANGED <<limiter, inv>>

-----------------------------------------------------------------------------
Subprocess(p) == Says(p) \/ Answers(p) \/ Exits(p) \/ Hangs(p)
OneShot(i) == ShotStalls(i) \/ ShotExits(i)
Consumer(i) ==
  \/ Reuse(i) \/ Spawn(i) \/ NoProcess(i) \/ FallBack(i) \/ TurnYields(i)
  \/ ShotYields(i) \/ ShotOver(i) \/ Decide(i) \/ Close(i)

AtRest == (\A i \in Inv : inv[i].at = "over") /\ UNCHANGED vars

Next ==
  \/ \E p \in Proc : Subprocess(p) \/ IdleTimeout(p)
  \/ \E i \in Inv : Begin(i) \/ OneShot(i) \/ Consumer(i) \/ Abort(i)
  \/ KillAll \/ AtRest

Spec == Init /\ [][Next]_vars

(* A subprocess says something, exits or runs into a timer (the hang timer   *)
(* and the stall timers are armed whenever it may be silent); callers ask    *)
(* for the next event.                                                       *)
Step == \/ \E p \in Proc : Subprocess(p)
        \/ \E i \in Inv : OneShot(i) \/ Consumer(i)

FairSpec == Spec /\ WF_vars(Step)

-----------------------------------------------------------------------------
(* The shape of the state, and that the pool holds exactly the processes     *)
(* that are alive, one per session and at most MaxProcesses: whatever kills, *)
(* evictions, exits and fallbacks do, no process is left running unpooled.   *)
(* Its order compares any two, so the eviction finds one oldest process.     *)
TypeOK ==
  /\ LimiterTypeOK /\ pool \subseteq Proc /\ older \subseteq pool \X pool
  /\ \A p, q \in pool : p # q => (<<p, q>> \in older <=> <<q, p>> \notin older)
  /\ \A p \in Proc :
       /\ procs[p].at \in {"unborn", "idle", "busy", "dead"}
       /\ procs[p].queue \in Seq(Event) /\ procs[p].turn \in Inv \cup {NoInv}
       /\ Live(p) <=> p \in pool
  /\ Cardinality(pool) <= MaxProcesses /\ \A k \in Key : Cardinality(Of(k)) <= 1
  /\ \A i \in Inv : shots[i].queue \in Seq(Event)

(* What a turn hears is the answer to its own prompt, over fallbacks, kills, *)
(* aborts, exits and reuse of the process: except after a consumer stopped a *)
(* turn of that process early, when the process was made idle although the   *)
(* subprocess was still answering.                                           *)
Foreign(p) == \E k \in 1..Len(procs[p].queue) : procs[p].queue[k].from # procs[p].turn
HearsOwnAnswer == \A p \in Proc : Foreign(p) => procs[p].left

(* Every invocation comes to its end and gives its permit back, whatever     *)
(* hangs, exits, is aborted, evicted or killed by another session's turn.    *)
EveryInvocationEnds ==
  <>[](\A i \in Inv : inv[i].at = "idle" \/ (inv[i].at = "over" /\ permit[i] = "released"))
=============================================================================
