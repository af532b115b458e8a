------------------------------- MODULE Replies -------------------------------
(***************************************************************************)
(* From a message or reaction to its settled reply, across shutdowns and    *)
(* crashes: the pending buffer of a session and the turns it is drained by  *)
(* (src/src/discord/message-coordinator.ts, reaction-handler.ts), the       *)
(* registry of unfinished replies with its file (inflight-replies.ts), the  *)
(* long-run watchdog with its own (long-run-watchdog.ts), the shutdown and  *)
(* the start of the process (src/src/index.ts, index.post-connect.ts).      *)
(* Discord applies the edits of a message in the order in which they were   *)
(* asked for.  One queue.run serves the calls of a session in their order   *)
(* (KeyedQueue).  Left out: what the reply says, streamed previews, edits   *)
(* that time out, stop reactions, aborts by the user, replies refused in an *)
(* archived thread, notices of finished runs (off for messages), failing    *)
(* disk writes.                                                             *)
(***************************************************************************)
EXTENDS Naturals, Sequences

CONSTANTS
  Msg, Session, SessionOf,  \* events that start a turn, sessions, [Msg -> Session]
  Reaction,     \* those that are reactions: no buffer and no watchdog
  Command,      \* the messages that isQueueLevelCommand accepts
  MaxDepth,     \* params.actionFollowupDepth
  MaxTroubles   \* bound: follow-ups, refused calls of Discord, timeouts, crashes
                \* and shutdowns, all together

ASSUME MsgAssumption ==
  /\ SessionOf \in [Msg -> Session]
  /\ Reaction \subseteq Msg /\ Command \subseteq Msg \ Reaction
ASSUME BoundsAssumption == MaxDepth \in Nat /\ MaxTroubles \in Nat

Reply == Msg \X (0..MaxDepth)   \* the first reply of a turn and its follow-ups
Mark == {"restarting", "restarted"}   \* INTERRUPTED_GRACEFUL and INTERRUPTED_COLD
Edit == {"text", "gone"} \cup Mark   \* an answer or an error; "gone" is a delete
Shown == {"absent", "waiting"} \cup Edit
Asleep == [at |-> "none", batch |-> <<>>, depth |-> 0, final |-> FALSE, held |-> FALSE]
Op(op, r) == [op |-> op, of |-> {r}]

VARIABLES
  line,     \* [Session -> the calls of queue.run that have not settled]
  buffer,   \* pendingMessages
  turn,     \* [Msg -> the call: its batch, followUpDepth, replyFinalized, disposer]
  shown,    \* [Reply -> what the channel shows]
  flight,   \* [Reply -> edits on their way to Discord]
  registry, \* the replies in flight
  queue,    \* persistQueue: the operations that wait or run
  file,     \* inflight.json
  runs,     \* [Msg -> the run in the watchdog's store]
  boot,     \* how far the start of the process is
  due,      \* final notices this start still has to post
  orphans,  \* replies this start found in the file
  stop,     \* how far the shutdown is
  troubles, \* counted for its bound
  unlisted, \* history: replies whose entry the clean-up's unlink took
  lost      \* history: replies that nothing will settle any more

inbox == <<line, buffer>>
discord == <<shown, flight>>
disk == <<queue, file>>
start == <<boot, due, orphans>>
history == <<unlisted, lost>>
vars == <<inbox, turn, discord, registry, disk, runs, start, stop, troubles, history>>

Init ==
  /\ line = [s \in Session |-> <<>>] /\ buffer = [s \in Session |-> <<>>]
  /\ turn = [m \in Msg |-> Asleep]
  /\ shown = [r \in Reply |-> "absent"] /\ flight = [r \in Reply |-> <<>>]
  /\ registry = {} /\ queue = <<>> /\ file = {}
  /\ runs = [m \in Msg |-> "none"]
  /\ boot = "off" /\ due = {} /\ orphans = {} /\ stop = "no" /\ troubles = 0
  /\ unlisted = {} /\ lost = {}

Down == stop \in {"drained", "clearing"}   \* shuttingDown
Current(m) == <<m, turn[m].depth>>
Alive(m) == turn[m].at \notin {"none", "queued", "over", "dead"}
Trouble == troubles < MaxTroubles /\ troubles' = troubles + 1
Has(q, x) == \E k \in 1..Len(q) : q[k] = x

-----------------------------------------------------------------------------
(* The inbox of a session, and the start of a turn. *)

Arrive(m) ==
  LET s == SessionOf[m] IN
  /\ boot # "off" /\ turn[m].at = "none"
  /\ turn' = [turn EXCEPT ![m].at = "queued"]
  /\ line' = [line EXCEPT ![s] = Append(@, m)]
  /\ buffer' = IF m \in Reaction THEN buffer ELSE [buffer EXCEPT ![s] = Append(@, m)]
  /\ UNCHANGED <<discord, registry, disk, runs, start, stop, troubles, history>>

(* A command by itself, or everything before the next command. *)
Chunk(b) ==
  SubSeq(b, 1, CHOOSE n \in 1..Len(b) :
    IF b[1] \in Command THEN n = 1
    ELSE /\ \A k \in 1..n : b[k] \notin Command
         /\ n < Len(b) => b[n + 1] \in Command)

Batch(m) ==
  LET b == buffer[SessionOf[m]] IN
  IF m \in Reaction THEN <<m>> ELSE IF b = <<>> THEN <<>> ELSE Chunk(b)

Over(m) ==
  /\ turn' = [turn EXCEPT ![m] = [Asleep EXCEPT !.at = "over"]]
  /\ line' = [line EXCEPT ![SessionOf[m]] = Tail(@)]

(* The call drains the buffer.  Nothing left: an earlier batch took its      *)
(* message.  Its own message decides whether a command is carried out;       *)
(* otherwise the batch is answered, beginning with a placeholder.            *)
Begin(m) ==
  LET s == SessionOf[m]
      batch == Batch(m)
      rest == SubSeq(buffer[s], Len(batch) + 1, Len(buffer[s]))
  IN /\ turn[m].at = "queued" /\ Head(line[s]) = m
     /\ buffer' = IF m \in Reaction THEN buffer ELSE [buffer EXCEPT ![s] = rest]
     /\ IF batch = <<>> \/ m \in Command
        THEN Over(m) /\ UNCHANGED <<shown, troubles>>
        ELSE \/ /\ turn' = [turn EXCEPT ![m].at = "placed", ![m].batch = batch]
                /\ shown' = [shown EXCEPT ![<<m, 0>>] = "waiting"]
                /\ UNCHANGED <<line, troubles>>
             \/ Over(m) /\ Trouble /\ UNCHANGED shown
     /\ UNCHANGED <<flight, registry, disk, runs, start, stop, history>>

-----------------------------------------------------------------------------
(* The reply of a turn. *)

(* Mutant: the entry is kept in memory only. *)
Register_NotPersisted(m) ==
  LET r == Current(m) IN
  /\ turn[m].at \in {"placed", "sent"}
  /\ turn' = [turn EXCEPT ![m].at = "stream", ![m].final = FALSE, ![m].held = ~Down]
  /\ runs' = IF turn[m].at = "placed" /\ m \notin Reaction
             THEN [runs EXCEPT ![m] = "running"] ELSE runs
  /\ IF Down
     THEN /\ flight' = [flight EXCEPT ![r] = Append(@, "restarting")] /\ lost' = lost \cup {r}
          /\ UNCHANGED registry
     ELSE registry' = registry \cup {r} /\ UNCHANGED <<flight, lost>>
  /\ UNCHANGED <<inbox, shown, disk, start, stop, troubles, unlisted>>

(* The watchdog's run is on disk before a message's first reply is           *)
(* registered.  After the drain a reply is marked and forgotten at once.     *)
Register(m) ==
  LET r == Current(m) IN
  /\ turn[m].at \in {"placed", "sent"}
  /\ turn' = [turn EXCEPT ![m].at = "stream", ![m].final = FALSE, ![m].held = ~Down]
  /\ runs' = IF turn[m].at = "placed" /\ m \notin Reaction
             THEN [runs EXCEPT ![m] = "running"] ELSE runs
  /\ IF Down
     THEN /\ flight' = [flight EXCEPT ![r] = Append(@, "restarting")] /\ lost' = lost \cup {r}
          /\ UNCHANGED <<registry, queue>>
     ELSE /\ registry' = registry \cup {r} /\ queue' = Append(queue, Op("add", r))
          /\ UNCHANGED <<flight, lost>>
  /\ UNCHANGED <<inbox, shown, file, start, stop, troubles, unlisted>>

(* The turn asks Discord for an edit of its reply and awaits it. *)
Asks(m, at, edit) ==
  /\ turn' = [turn EXCEPT ![m].at = at]
  /\ flight' = [flight EXCEPT ![Current(m)] = Append(@, edit)]

OwnStep == UNCHANGED <<inbox, shown, disk, registry, runs, start, stop, history>>

(* Mutant: the final edit does not look at shuttingDown. *)
Answer_IgnoresShutdown(m) ==
  turn[m].at = "stream" /\ Asks(m, "editing", "text") /\ OwnStep /\ UNCHANGED troubles

Answer(m) ==
  /\ turn[m].at = "stream"
  /\ IF Down
     THEN turn' = [turn EXCEPT ![m].at = "answered", ![m].final = TRUE] /\ UNCHANGED flight
     ELSE Asks(m, "editing", "text")
  /\ OwnStep /\ UNCHANGED troubles

(* An error of the runtime is shown in a reaction's reply by a preview edit,  *)
(* which counts as the final one whether it is sent, refused or skipped.     *)
RuntimeError(m) ==
  /\ turn[m].at = "stream" /\ m \in Reaction
  /\ IF Down THEN turn' = [turn EXCEPT ![m].at = "closing"] /\ UNCHANGED flight
     ELSE Asks(m, "reporting", "text")
  /\ OwnStep /\ UNCHANGED troubles

(* An empty follow-up, or an empty answer to a reaction, is deleted. *)
Suppress(m) ==
  /\ turn[m].at = "stream" /\ (turn[m].depth > 0 \/ m \in Reaction)
  /\ Asks(m, "suppressing", "gone") /\ OwnStep /\ UNCHANGED troubles

(* The inner catch. *)
Thrown(m) ==
  IF Down THEN turn' = [turn EXCEPT ![m].at = "failed"] /\ UNCHANGED flight
  ELSE Asks(m, "erring", "text")

Throw(m) == turn[m].at = "stream" /\ Thrown(m) /\ OwnStep /\ UNCHANGED troubles

(* The outer catch: an exception before the reply is registered. *)
ThrowEarly(m) ==
  /\ turn[m].at = "placed" /\ m \in Reaction
  /\ IF Down
     THEN /\ turn' = [turn EXCEPT ![m].at = "outcome"] /\ lost' = lost \cup {Current(m)}
          /\ UNCHANGED flight
     ELSE Asks(m, "outer", "text") /\ UNCHANGED lost
  /\ UNCHANGED <<inbox, shown, disk, registry, runs, start, stop, troubles, unlisted>>

(* Mutant: the disposer forgets the file. *)
Dispose_MemoryOnly(m) ==
  IF turn[m].held THEN registry' = registry \ {Current(m)} /\ UNCHANGED queue
  ELSE UNCHANGED <<registry, queue>>

Dispose(m) ==
  IF turn[m].held
  THEN registry' = registry \ {Current(m)} /\ queue' = Append(queue, Op("remove", Current(m)))
  ELSE UNCHANGED <<registry, queue>>

(* The results of actions are sent back to the model: the reply is settled,  *)
(* a new placeholder is sent.                                                *)
FollowUp(m) ==
  /\ turn[m].at = "answered" /\ turn[m].depth < MaxDepth
  /\ Trouble /\ Dispose(m)
  /\ turn' = [turn EXCEPT ![m].at = "sending", ![m].held = FALSE]
  /\ UNCHANGED <<inbox, discord, file, runs, start, stop, history>>

Send(m) ==
  LET next == <<m, turn[m].depth + 1>> IN
  /\ turn[m].at = "sending"
  /\ \/ /\ turn' = [turn EXCEPT ![m].at = "sent", ![m].depth = @ + 1]
        /\ shown' = [shown EXCEPT ![next] = "waiting"] /\ UNCHANGED <<flight, troubles>>
     \/ Trouble /\ Thrown(m) /\ UNCHANGED shown   \* the catch still has the old reply
  /\ UNCHANGED <<inbox, disk, registry, runs, start, stop, history>>

(* What the turn does when its edit has settled: catch and safety net. *)
After(m, ok) ==
  CASE turn[m].at = "editing" -> IF ok THEN "answered" ELSE IF Down THEN "failed" ELSE "erring"
    [] turn[m].at = "erring" ->
         IF ok \/ turn[m].final \/ Down THEN "failed" ELSE "deleting"
    [] turn[m].at = "suppressing" ->
         IF ok \/ m \notin Reaction \/ Down THEN "closing" ELSE "discarding"
    [] turn[m].at \in {"reporting", "discarding"} -> "closing"
    [] turn[m].at = "deleting" -> "failed"
    [] turn[m].at = "outer" -> "outcome"

Says(at) ==
  IF at = "erring" THEN <<"text">>
  ELSE IF at \in {"deleting", "discarding"} THEN <<"gone">> ELSE <<>>

(* Discord applies or refuses an edit, and whoever awaits it goes on.        *)
Deliver(r) ==
  LET m == r[1]
      edit == Head(flight[r])
      own == edit \notin Mark
      last == turn[m].at \in {"reporting", "suppressing", "discarding", "deleting", "outer"}
  IN /\ flight[r] # <<>>
     /\ \E ok \in BOOLEAN :
          /\ ok => shown[r] # "gone"
          /\ IF ok \/ shown[r] = "gone" THEN UNCHANGED troubles ELSE Trouble
          /\ shown' = IF ok THEN [shown EXCEPT ![r] = edit] ELSE shown
          /\ turn' = IF own THEN [turn EXCEPT ![m].at = After(m, ok),
                                              ![m].final = @ \/ ok] ELSE turn
          /\ flight' = [flight EXCEPT ![r] =
                          Tail(@) \o IF own THEN Says(After(m, ok)) ELSE <<>>]
          /\ lost' = IF ok THEN lost \ {r} ELSE IF own => last THEN lost \cup {r} ELSE lost
     /\ UNCHANGED <<inbox, disk, registry, runs, start, stop, unlisted>>

(* Mutant: the disposer is called behind the try, not in its finally. *)
Close_NoFinally(m) ==
  /\ turn[m].at \in {"answered", "closing", "failed"}
  /\ IF turn[m].at = "failed" THEN UNCHANGED <<registry, queue>> ELSE Dispose(m)
  /\ \/ /\ turn[m].at = "failed" /\ ~Down
        /\ turn' = [turn EXCEPT ![m].at = "outer", ![m].held = FALSE]
        /\ flight' = [flight EXCEPT ![Current(m)] = Append(@, "text")]
     \/ /\ turn' = [turn EXCEPT ![m].at = "outcome", ![m].held = FALSE]
        /\ UNCHANGED flight
  /\ UNCHANGED <<inbox, shown, file, runs, start, stop, troubles, history>>

(* The inner finally; then the outer catch, unless the signal was aborted.   *)
Close(m) ==
  /\ turn[m].at \in {"answered", "closing", "failed"}
  /\ Dispose(m)
  /\ \/ /\ turn[m].at = "failed" /\ ~Down
        /\ turn' = [turn EXCEPT ![m].at = "outer", ![m].held = FALSE]
        /\ flight' = [flight EXCEPT ![Current(m)] = Append(@, "text")]
     \/ /\ turn' = [turn EXCEPT ![m].at = "outcome", ![m].held = FALSE]
        /\ UNCHANGED flight
  /\ UNCHANGED <<inbox, shown, file, runs, start, stop, troubles, history>>

(* The outer finally: the watchdog's run is complete, without a notice.  What *)
(* the replies of the turn say is forgotten.                                 *)
Settled(S) == [r \in Reply |-> IF r \in S /\ shown[r] \notin {"absent", "waiting"}
                                THEN "gone" ELSE shown[r]]

Complete(m) ==
  /\ turn[m].at = "outcome" /\ Over(m)
  /\ runs' = [runs EXCEPT ![m] = IF @ = "running" THEN "done" ELSE @]
  /\ shown' = Settled({r \in Reply : r[1] = m})
  /\ UNCHANGED <<buffer, flight, disk, registry, start, stop, troubles, history>>

-----------------------------------------------------------------------------
(* The file of unfinished replies: one operation at a time reads it, changes *)
(* it and writes it back.                                                    *)
Result(op) ==
  CASE op.op = "add" -> file \cup op.of [] op.op = "remove" -> file \ op.of
    [] op.op = "clear" -> {}

(* A shutdown that comes before the clean-up of the start also clears the     *)
(* entries an earlier process left.                                          *)
Persist ==
  /\ queue # <<>> /\ queue' = Tail(queue) /\ file' = Result(Head(queue))
  /\ lost' = IF Head(queue).op = "clear"
             THEN lost \cup {r \in file : turn[r[1]].at = "dead"} ELSE lost
  /\ UNCHANGED <<inbox, turn, discord, registry, runs, start, stop, troubles, unlisted>>

-----------------------------------------------------------------------------
(* Shutdown, crash and start. *)

Marked(S, mark) == [r \in Reply |-> IF r \in S THEN Append(flight[r], mark) ELSE flight[r]]
Unmarked(S, mark) == {r \in S : Has(flight[r], mark)}

Stop ==
  /\ boot # "off" /\ stop = "no" /\ Trouble
  /\ stop' = "stopping"
  /\ UNCHANGED <<inbox, turn, discord, registry, disk, runs, start, history>>

(* drainInFlightReplies up to its await: snapshot, clear, flag, edits. *)
Drain ==
  /\ stop = "stopping" /\ stop' = "drained"
  /\ flight' = Marked(registry, "restarting") /\ registry' = {}
  /\ UNCHANGED <<inbox, turn, shown, disk, runs, start, troubles, history>>

(* Its edits have settled, or its time is up: the file is cleared. *)
Clear ==
  LET open == Unmarked(Reply, "restarting") \ lost IN
  /\ stop = "drained" /\ stop' = "clearing"
  /\ IF open = {} THEN UNCHANGED troubles ELSE Trouble
  /\ lost' = lost \cup open
  /\ queue' = Append(queue, Op("clear", <<>>))
  /\ UNCHANGED <<inbox, turn, discord, registry, file, runs, start, unlisted>>

(* Memory is gone, and so are the edits that have not reached Discord.       *)
(* Nobody knows of a reply that had no entry yet, or none any more, unless   *)
(* the watchdog has its run.                                                 *)
Dies(unmarked) ==
  LET unseen(r) == \/ turn[r[1]].at \in {"placed", "sent", "outer"} /\ r = Current(r[1])
                   \/ Has(queue, Op("add", r))
                   \/ r \in unlisted
  IN /\ lost' = lost \cup unmarked
                   \cup {r \in Reply : /\ Alive(r[1]) /\ shown[r] = "waiting"
                                    /\ unseen(r) /\ runs[r[1]] # "running"}
     /\ turn' = [m \in Msg |-> IF turn[m].at = "none" THEN Asleep
                               ELSE [Asleep EXCEPT !.at = "dead"]]
     /\ line' = [s \in Session |-> <<>>] /\ buffer' = [s \in Session |-> <<>>]
     /\ flight' = [r \in Reply |-> <<>>] /\ registry' = {} /\ unlisted' = {}
     /\ queue' = <<>>
     /\ boot' = "off" /\ due' = {} /\ orphans' = {} /\ stop' = "no"
     /\ shown' = Settled(Reply)
     /\ UNCHANGED <<file, runs>>

Exit == stop = "clearing" /\ ~Has(queue, Op("clear", <<>>)) /\ Dies({}) /\ UNCHANGED troubles

(* A shutdown may be cut short before its marks arrive, when their turns have *)
(* disposed of the entries meanwhile.                                        *)
Crash ==
  /\ boot # "off" /\ Dies(Unmarked(Reply, "restarting") \ file)
  /\ IF stop = "no" THEN Trouble ELSE UNCHANGED troubles

(* The handlers are registered before the login: events arrive from here on. *)
Boot ==
  /\ boot = "off" /\ boot' = "login"
  /\ UNCHANGED <<inbox, turn, discord, registry, disk, runs, due, orphans, stop, troubles,
                 history>>

(* startupSweep: runs of an earlier process are interrupted. *)
Sweep ==
  /\ boot = "login" /\ boot' = "post"
  /\ runs' = [m \in Msg |-> IF runs[m] = "running" /\ ~Alive(m) THEN "interrupted" ELSE runs[m]]
  /\ due' = {m \in Msg : runs'[m] = "interrupted"}
  /\ UNCHANGED <<inbox, turn, discord, registry, disk, orphans, stop, troubles, history>>

Post(m) ==
  /\ boot = "post" /\ m \in due /\ due' = due \ {m}
  /\ \/ /\ runs' = [runs EXCEPT ![m] = "posted"]  /\ UNCHANGED troubles
     \/ Trouble /\ UNCHANGED runs   \* retried at the next start
  /\ UNCHANGED <<inbox, turn, discord, registry, disk, boot, orphans, stop, history>>

(* cleanupOrphanedReplies loads the file as it is by now. *)
Load ==
  /\ boot = "post" /\ due = {}
  /\ orphans' = file /\ flight' = Marked(file, "restarted")
  /\ boot' = IF file = {} THEN "up" ELSE "cleaning"
  /\ UNCHANGED <<inbox, turn, shown, registry, disk, runs, due, stop, troubles, history>>

(* Outside the persist queue: an operation that has read the file by then     *)
(* writes it again.                                                          *)
Unlink ==
  /\ boot = "cleaning" /\ boot' = "up" /\ orphans' = {}
  /\ IF Unmarked(orphans, "restarted") = {} THEN UNCHANGED troubles ELSE Trouble
  /\ lost' = lost \cup Unmarked(orphans, "restarted")
  /\ \/ /\ file' = {} /\ unlisted' = unlisted \cup (registry \cap file)
        /\ UNCHANGED queue
     \/ /\ queue # <<>> /\ file' = Result(Head(queue)) /\ queue' = Tail(queue)
        /\ UNCHANGED unlisted
  /\ UNCHANGED <<inbox, turn, discord, registry, runs, due, stop>>

-----------------------------------------------------------------------------
Turn(m) ==
  \/ Begin(m) \/ Register(m) \/ Answer(m) \/ RuntimeError(m) \/ Suppress(m)
  \/ Throw(m) \/ ThrowEarly(m)
  \/ FollowUp(m) \/ Send(m) \/ Close(m) \/ Complete(m)

Step ==
  \/ \E m \in Msg : Turn(m) \/ Post(m)
  \/ \E r \in Reply : Deliver(r)
  \/ Persist \/ Drain \/ Clear \/ Exit
  \/ Boot \/ Sweep \/ Load \/ Unlink

AtRest == boot = "up" /\ stop = "no" /\ (\A m \in Msg : ~Alive(m)) /\ UNCHANGED vars

Next == Step \/ (\E m \in Msg : Arrive(m)) \/ Stop \/ Crash \/ AtRest

Spec == Init /\ [][Next]_vars

(* Runtimes come to their end (TurnPool), Discord answers or refuses, and    *)
(* the service manager or the operator starts the program again.             *)
FairSpec == Spec /\ WF_vars(Step)

-----------------------------------------------------------------------------
(* The shape of the state; what is registered is the current reply of a live *)
(* turn that will dispose it: no path out of a turn leaves its channel in    *)
(* flight, where every later sync would defer it.                            *)
TypeOK ==
  /\ \A r \in Reply : shown[r] \in Shown /\ \A k \in 1..Len(flight[r]) : flight[r][k] \in Edit
  /\ file \subseteq Reply /\ orphans \subseteq Reply /\ due \subseteq Msg
  /\ runs \in [Msg -> {"none", "running", "done", "interrupted", "posted"}]
  /\ boot \in {"off", "login", "post", "cleaning", "up"}
  /\ stop \in {"no", "stopping", "drained", "clearing"}
  /\ registry = IF Down THEN {} ELSE {Current(m) : m \in {c \in Msg : turn[c].held}}

(* A command is taken by its own call and runs by itself.                    *)
CommandsRunAlone ==
  \A m \in Msg : \A k \in 1..Len(turn[m].batch) :
    {m, turn[m].batch[k]} \cap Command # {} => turn[m].batch[k] = m

(* When no operation of the file waits, the file has the replies in flight   *)
(* and, besides, only replies of an earlier process: a crash now would find  *)
(* every one of them.  Except for those whose entry the clean-up unlinked.   *)
FileFollowsRegistry ==
  queue = <<>> =>
    /\ registry \subseteq file \cup unlisted
    /\ ~Down => \A r \in file \ registry : turn[r[1]].at = "dead"

(* Once the shutdown has marked a reply as interrupted, no edit of its own   *)
(* turn, wherever it stands, replaces the mark.                              *)
InterruptedStands ==
  Down => \A r \in Reply :
    LET story == <<shown[r]>> \o flight[r]
    IN Has(story, "restarting") => story[Len(story)] \in Mark \cup {"gone"}

(* A placeholder does not stay: its turn settles it, or a shutdown or the    *)
(* next start marks it, or the watchdog posts that the run was interrupted.  *)
(* Except when the process died before anything of it was on disk, when the  *)
(* clean-up unlinked its entry, or when Discord refused the last attempt.    *)
InterruptedIsTold ==
  <>[](\A r \in Reply : shown[r] = "waiting" =>
         runs[r[1]] \in {"interrupted", "posted"} \/ r \in lost)
=============================================================================
