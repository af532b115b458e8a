--------------------------- MODULE CronLifecycle ---------------------------
(***************************************************************************)
(* The life of a cron: its forum thread (cron/forum-sync.ts), the cron      *)
(* actions (discord/actions-crons.ts), the scheduler's job                  *)
(* (cron/scheduler.ts) and its record in the stats store                    *)
(* (cron/run-stats.ts), whose writes go through one mutex and a file that is *)
(* replaced as a whole.  A paused cron is a stopped job and a record with   *)
(* disabled: true.  One action is the code between two awaits.  All threads *)
(* are bot-owned, and the stored author stays on the allowlist.             *)
(***************************************************************************)
EXTENDS Naturals, Sequences

CONSTANTS
  Cron,            \* crons, each with its thread
  Handler,         \* slots for the handlers in progress together
  NoHandler,       \* a write nobody waits for
  MaxOps,          \* bound: operations started
  MaxFlushErrors,  \* bound: writes of the file that fail
  MaxCrashes       \* bound: restarts of the process

ASSUME NoHandlerAssumption == NoHandler \notin Handler
ASSUME BoundsAssumption == MaxOps \in Nat /\ MaxFlushErrors \in Nat /\ MaxCrashes \in Nat

VARIABLES
  thread,      \* none, open, archived or gone, as of the last event
  job,         \* CronScheduler: no job, or one whose timer is armed or stopped
  rec,         \* the record in memory: none, or on / off for disabled false / true
  disk,        \* the same in the file
  writes,      \* WriteMutex: the entry being flushed, then the waiting ones
  dirty,       \* the last flush failed
  handler,     \* per slot: the handler's local variables, or Free
  excuse,      \* history: why job and record of a cron may disagree
  paused,      \* history: crons whose pause was acknowledged and not revoked
  ops, flushErrors, crashes   \* counted for their bounds

store == <<rec, disk, writes, dirty>>
history == <<excuse, paused>>
bounds == <<ops, flushErrors, crashes>>
vars == <<thread, job, store, handler, history, bounds>>

Free == [step |-> "free"]

(* parse, save: loadThreadAsCron before and after the registration.  edit:  *)
(* cronUpdate.  post: ensureStatusMessage.  remove, archive: cronDelete.     *)
Steps == {"parse", "save", "edit", "post", "remove", "archive"}

(* held is existingRecord of loadThreadAsCron: no object, the object in the  *)
(* store, or one that was removed from it with its last disabled value.      *)
Activity == [step : Steps, cron : Cron, held : {"none", "live", "on", "off"}]

Write == [cron : Cron, to : {"on", "off", "keep", "remove", "nothing"},
          by : {"pause", "other"}, owner : Handler \cup {NoHandler}]

Init ==
  /\ thread = [c \in Cron |-> "none"]
  /\ job = [c \in Cron |-> "none"]
  /\ rec = [c \in Cron |-> "none"]
  /\ disk = [c \in Cron |-> "none"]
  /\ writes = <<>>
  /\ dirty = FALSE
  /\ handler = [h \in Handler |-> Free]
  /\ excuse = [c \in Cron |-> "none"]
  /\ paused = {}
  /\ ops = 0 /\ flushErrors = 0 /\ crashes = 0

At(h, step) == handler[h].step = step
CronOf(h) == handler[h].cron
Busy(c, steps) == \E h \in Handler : handler[h].step \in steps /\ CronOf(h) = c
Pending(c) == \E i \in 1 .. Len(writes) : writes[i].cron = c
Calm(c) == ~Busy(c, Steps) /\ ~Pending(c)

Operation ==
  /\ ops < MaxOps
  /\ ops' = ops + 1
  /\ UNCHANGED <<flushErrors, crashes>>

Start(c, step) ==
  \E h \in Handler :
    /\ At(h, "free")
    /\ handler' = [handler EXCEPT ![h] = [step |-> step, cron |-> c, held |-> "none"]]

-----------------------------------------------------------------------------
(* CronRunStats: the mutex runs the in-memory part of a write when it takes  *)
(* it up; the flush of the whole store follows.                              *)

WriteOf(c, to, by, h) == [cron |-> c, to |-> to, by |-> by, owner |-> h]

(* Mutant of Begun: a removal leaves the file alone. *)
Begun_RemovalNotFlushed(w) == IF w.to = "remove" THEN [w EXCEPT !.to = "nothing"] ELSE w

(* A removal that finds no record has nothing to flush. *)
Begun(w) == IF w.to = "remove" /\ rec[w.cron] = "none" THEN [w EXCEPT !.to = "nothing"] ELSE w

(* upsertRecord creates a missing record, enabled unless told otherwise. *)
Written(w) ==
  rec' = [rec EXCEPT ![w.cron] =
            CASE w.to = "keep" -> IF @ = "none" THEN "on" ELSE @
              [] w.to = "remove" -> "none"
              [] OTHER -> w.to]

(* Mutant of Frozen: a loader's object is looked up again in the store. *)
Frozen_Shared(a, w) == a

(* A loader keeps the record object it read although it left the store. *)
Frozen(a, w) ==
  IF w.to = "remove" /\ a.step = "save" /\ a.cron = w.cron /\ a.held = "live"
    THEN [a EXCEPT !.held = rec[w.cron]] ELSE a

(* A handler that leaves the slots as hs enqueues w: an idle mutex starts it. *)
Enqueue(w, hs) ==
  /\ IF writes = <<>>
     THEN writes' = <<Begun(w)>> /\ Written(w) /\ handler' = [h \in Handler |-> Frozen(hs[h], w)]
     ELSE writes' = Append(writes, w) /\ handler' = hs /\ UNCHANGED rec
  /\ UNCHANGED <<disk, dirty>>

(* drain: the next write is started before the awaiting handler goes on. *)
NextWrite ==
  IF Len(writes) = 1 THEN writes' = <<>> /\ UNCHANGED rec
  ELSE writes' = <<Begun(writes[2])>> \o Tail(Tail(writes)) /\ Written(writes[2])

(* Mutant of Released: the promise of a failed write is never rejected. *)
Released_OnlyIfOk(h, ok) ==
  IF ~ok THEN handler[h] ELSE IF At(h, "remove") THEN [handler[h] EXCEPT !.step = "archive"] ELSE Free

(* The handler that awaited the write: cronDelete goes on to the thread when *)
(* it succeeded, every other way out ends the handler.                       *)
Released(h, ok) ==
  IF ok /\ At(h, "remove") THEN [handler[h] EXCEPT !.step = "archive"] ELSE Free

WakeOwner(ok) ==
  handler' = [h \in Handler |->
                IF h = Head(writes).owner THEN Released(h, ok)
                ELSE IF Len(writes) > 1 THEN Frozen(handler[h], writes[2]) ELSE handler[h]]

(* Mutant of RestoresDisabled: a disabled cron stays registered. *)
RestoresDisabled_Never(h) == FALSE

(* "Restore disabled state from stats": the loader looks at the object it    *)
(* read before the write, which is current while it is in the store.         *)
RestoresDisabled(h) ==
  LET c == CronOf(h)
      now == IF handler[h].held # "live" THEN handler[h].held
             ELSE IF rec'[c] = "none" THEN rec[c] ELSE rec'[c]
  IN At(h, "save") /\ now = "off"

Stopped(c) == [job EXCEPT ![c] = IF @ = "none" THEN "none" ELSE "stopped"]

(* A pause is acknowledged when its write is on disk; one that was resumed   *)
(* meanwhile does not count.                                                 *)
Acknowledge(w) ==
  paused' = IF /\ w.by = "pause" /\ excuse[w.cron] = "none"
               /\ \A i \in 2 .. Len(writes) :
                    writes[i].cron = w.cron => writes[i].to \in {"off", "keep"}
              THEN paused \cup {w.cron} ELSE paused

FlushDone ==
  /\ writes # <<>>
  /\ NextWrite
  /\ IF Head(writes).to = "nothing" THEN UNCHANGED <<disk, dirty>> ELSE disk' = rec /\ dirty' = FALSE
  /\ WakeOwner(TRUE)
  /\ job' = IF Head(writes).owner # NoHandler /\ RestoresDisabled(Head(writes).owner)
              THEN Stopped(Head(writes).cron) ELSE job
  /\ Acknowledge(Head(writes))
  /\ UNCHANGED <<thread, excuse, bounds>>

(* The file cannot be written: memory keeps the change, the caller gets the  *)
(* error, and a loader does not look at the disabled flag.                   *)
FlushFails ==
  /\ writes # <<>> /\ Head(writes).to # "nothing"
  /\ flushErrors < MaxFlushErrors
  /\ flushErrors' = flushErrors + 1
  /\ NextWrite
  /\ dirty' = TRUE
  /\ WakeOwner(FALSE)
  /\ IF Head(writes).owner # NoHandler /\ At(Head(writes).owner, "save")
     THEN /\ excuse' = [excuse EXCEPT ![Head(writes).cron] = "raced"]
          /\ paused' = paused \ {Head(writes).cron}
     ELSE UNCHANGED <<excuse, paused>>
  /\ UNCHANGED <<thread, job, disk, ops, crashes>>

-----------------------------------------------------------------------------
(* History: an operation that starts while another handler of the cron is    *)
(* under way may leave job and record apart, until a quiet pause or resume.  *)

Note(c, raced, revoked) ==
  /\ excuse' = IF raced THEN [excuse EXCEPT ![c] = "raced"] ELSE excuse
  /\ paused' = IF raced \/ revoked THEN paused \ {c} ELSE paused

(* Handlers after whose last await the job or the record is changed. *)
Deciding == Steps \ {"post"}

NoteSwitch(c, revoked) ==
  /\ excuse' = CASE Busy(c, Deciding) -> [excuse EXCEPT ![c] = "raced"]
                 [] Calm(c) /\ thread[c] # "gone" -> [excuse EXCEPT ![c] = "none"]
                 [] OTHER -> excuse
  /\ paused' = IF Busy(c, Deciding) \/ revoked THEN paused \ {c} ELSE paused

-----------------------------------------------------------------------------
(* Actions on crons (discord/actions-crons.ts). *)

(* cronCreate: the thread, the registration, the record. *)
Create(c) ==
  /\ Operation
  /\ thread[c] = "none"
  /\ thread' = [thread EXCEPT ![c] = "open"]
  /\ job' = [job EXCEPT ![c] = "armed"]
  /\ Enqueue(WriteOf(c, "keep", "other", NoHandler), handler)
  /\ UNCHANGED history

Known(c) == rec[c] # "none" /\ job[c] # "none"

Pause(c) ==
  /\ Operation
  /\ Known(c)
  /\ job' = Stopped(c)
  /\ Enqueue(WriteOf(c, "off", "pause", NoHandler), handler)
  /\ NoteSwitch(c, FALSE)
  /\ UNCHANGED thread

Resume(c) ==
  /\ Operation
  /\ Known(c)
  /\ job' = [job EXCEPT ![c] = "armed"]
  /\ Enqueue(WriteOf(c, "on", "other", NoHandler), handler)
  /\ NoteSwitch(c, TRUE)
  /\ UNCHANGED thread

(* cronUpdate without a change of the definition. *)
UpdateSettings(c) ==
  /\ Operation
  /\ Known(c)
  /\ Enqueue(WriteOf(c, "keep", "other", NoHandler), handler)
  /\ UNCHANGED <<thread, job, history>>

(* cronUpdate of the definition up to the edit of the starter message ... *)
Update(c) ==
  /\ Operation
  /\ Known(c)
  /\ Start(c, "edit")
  /\ Note(c, ~Calm(c), FALSE)
  /\ UNCHANGED <<thread, job, store>>

(* ... and after it: registered, hence armed, whatever the job's state.      *)
Reregister(h) ==
  LET c == CronOf(h) IN
  /\ At(h, "edit")
  /\ job' = [job EXCEPT ![c] = "armed"]
  /\ Enqueue(WriteOf(c, "keep", "other", NoHandler), [handler EXCEPT ![h] = Free])
  /\ Note(c, job[c] # "armed", FALSE)
  /\ UNCHANGED <<thread, bounds>>

(* ensureStatusMessage, of an update, a creation or a run of the cron. *)
Post(c) ==
  /\ Operation
  /\ rec[c] # "none"
  /\ Start(c, "post")
  /\ Note(c, Busy(c, {"remove"}) \/ Pending(c), FALSE)
  /\ UNCHANGED <<thread, job, store>>

(* The message is edited in place, or a new one is posted and stored. *)
Posted(h) ==
  /\ At(h, "post")
  /\ \/ handler' = [handler EXCEPT ![h] = Free] /\ UNCHANGED store
     \/ Enqueue(WriteOf(CronOf(h), "keep", "other", NoHandler), [handler EXCEPT ![h] = Free])
  /\ UNCHANGED <<thread, job, history, bounds>>

(* cronDelete up to the removal of the record. *)
Delete(c) ==
  /\ Operation
  /\ rec[c] # "none"
  /\ job' = [job EXCEPT ![c] = "none"]
  /\ \E h \in Handler :
       /\ At(h, "free")
       /\ Enqueue(WriteOf(c, "remove", "other", h),
                  [handler EXCEPT ![h] = [step |-> "remove", cron |-> c, held |-> "none"]])
  /\ Note(c, ~Calm(c), TRUE)
  /\ UNCHANGED thread

(* The archive handler: the job is stopped and the record, if any, disabled. *)
Archived(c, hs) ==
  /\ thread' = [thread EXCEPT ![c] = "archived"]
  /\ job' = Stopped(c)
  /\ IF rec[c] = "none" THEN handler' = hs /\ UNCHANGED store
     ELSE Enqueue(WriteOf(c, "off", "other", NoHandler), hs)

(* cronDelete archives the thread, or cannot. *)
ArchiveDeleted(h) ==
  LET c == CronOf(h)
      hs == [handler EXCEPT ![h] = Free]
  IN
  /\ At(h, "archive")
  /\ \/ thread[c] = "open" /\ Archived(c, hs)
     \/ handler' = hs /\ UNCHANGED <<thread, job, store>>
  /\ UNCHANGED <<history, bounds>>

-----------------------------------------------------------------------------
(* Events of the forum (cron/forum-sync.ts). *)

(* Archived by a user, or by Discord after a time without messages. *)
Archive(c) ==
  /\ Operation
  /\ thread[c] = "open"
  /\ Archived(c, handler)
  /\ Note(c, Busy(c, Deciding) \/ (rec[c] = "none" /\ Pending(c)), FALSE)

Unarchive(c) ==
  /\ Operation
  /\ thread[c] = "archived"
  /\ thread' = [thread EXCEPT ![c] = "open"]
  /\ Start(c, "parse")
  /\ excuse' = IF Calm(c) THEN excuse ELSE [excuse EXCEPT ![c] = "raced"]
  /\ paused' = IF Calm(c) THEN paused ELSE paused \ {c}
  /\ UNCHANGED <<job, store>>

(* A new name, an edited starter message, a thread seen before its action    *)
(* registered it, or at startup one without a stored definition.             *)
Reload(c) ==
  /\ Operation
  /\ thread[c] = "open"
  /\ Start(c, "parse")
  /\ Note(c, ~Calm(c), FALSE)
  /\ UNCHANGED <<thread, job, store>>

(* No starter message, an author not allowlisted, a definition that cannot   *)
(* be parsed or scheduled: but for the first, the job is stopped.            *)
Refuse(h) ==
  LET c == CronOf(h) IN
  /\ At(h, "parse")
  /\ job' = Stopped(c) \/ UNCHANGED job
  /\ handler' = [handler EXCEPT ![h] = Free]
  /\ excuse' = [excuse EXCEPT ![c] = IF @ = "none" THEN "refused" ELSE @]
  /\ UNCHANGED <<thread, store, paused, bounds>>

(* Mutant of LoadedState: a load enables the cron. *)
LoadedState_Enabled(c) == "on"

(* "Preserve existing disabled state" *)
LoadedState(c) == IF rec[c] = "off" THEN "off" ELSE "on"

(* The definition is parsed: registered, hence armed, and stored. *)
Load(h) ==
  LET c == CronOf(h)
      held == IF rec[c] = "none" THEN "none" ELSE "live"
  IN
  /\ At(h, "parse")
  /\ job' = [job EXCEPT ![c] = "armed"]
  /\ Enqueue(WriteOf(c, LoadedState(c), "other", h),
             [handler EXCEPT ![h] = [step |-> "save", cron |-> c, held |-> held]])
  /\ excuse' = [excuse EXCEPT ![c] = IF @ = "refused" THEN "none" ELSE @]
  /\ UNCHANGED <<thread, paused, bounds>>

ThreadDelete(c) ==
  /\ Operation
  /\ thread[c] \in {"open", "archived"}
  /\ thread' = [thread EXCEPT ![c] = "gone"]
  /\ job' = [job EXCEPT ![c] = "none"]
  /\ Enqueue(WriteOf(c, "remove", "other", NoHandler), handler)
  /\ Note(c, ~Calm(c), TRUE)

-----------------------------------------------------------------------------
(* What may have become of a thread while the program was down. *)
Later(t) == IF t \in {"open", "archived"} THEN {"open", "archived", "gone"} ELSE {t}

(* The process dies at any point; loadRunStats reads the file and            *)
(* initCronForum registers the open threads from their stored definitions.   *)
Restart ==
  /\ crashes < MaxCrashes
  /\ crashes' = crashes + 1
  /\ \E t \in [Cron -> {"none", "open", "archived", "gone"}] :
       /\ \A c \in Cron : t[c] \in Later(thread[c])
       /\ thread' = t
       /\ job' = [c \in Cron |->
                    IF t[c] # "open" \/ disk[c] = "none" THEN "none"
                    ELSE IF disk[c] = "off" THEN "stopped" ELSE "armed"]
  /\ rec' = disk
  /\ writes' = <<>>
  /\ dirty' = FALSE
  /\ handler' = [h \in Handler |-> Free]
  /\ excuse' = [c \in Cron |-> "none"]
  /\ UNCHANGED <<disk, paused, ops, flushErrors>>

(* Nothing is under way and no further operation comes. *)
Quiet ==
  /\ writes = <<>> /\ \A h \in Handler : At(h, "free")
  /\ UNCHANGED vars

Command(c) ==
  \/ Create(c) \/ Pause(c) \/ Resume(c) \/ UpdateSettings(c) \/ Update(c) \/ Post(c) \/ Delete(c)

Event(c) == Archive(c) \/ Unarchive(c) \/ Reload(c) \/ ThreadDelete(c)

HandlerStep(h) == Reregister(h) \/ Posted(h) \/ ArchiveDeleted(h) \/ Refuse(h) \/ Load(h)

Next ==
  \/ \E c \in Cron : Command(c) \/ Event(c)
  \/ \E h \in Handler : HandlerStep(h)
  \/ FlushDone
  \/ FlushFails
  \/ Restart
  \/ Quiet

(* File-system and Discord calls settle, and the parser has a timeout. *)
Fairness ==
  /\ WF_vars(FlushDone \/ FlushFails)
  /\ \A h \in Handler : WF_vars(HandlerStep(h))

Spec == Init /\ [][Next]_vars
FairSpec == Spec /\ Fairness

-----------------------------------------------------------------------------
(* Shape of the state; an object held as live is the one in the store. *)
TypeOK ==
  /\ thread \in [Cron -> {"none", "open", "archived", "gone"}]
  /\ job \in [Cron -> {"none", "armed", "stopped"}]
  /\ rec \in [Cron -> {"none", "on", "off"}]
  /\ disk \in [Cron -> {"none", "on", "off"}]
  /\ writes \in Seq(Write)
  /\ dirty \in BOOLEAN
  /\ handler \in [Handler -> Activity \cup {Free}]
  /\ \A h \in Handler : At(h, "save") /\ handler[h].held = "live" => rec[CronOf(h)] # "none"
  /\ excuse \in [Cron -> {"none", "refused", "raced"}]
  /\ paused \subseteq Cron
  /\ ops \in 0 .. MaxOps /\ flushErrors \in 0 .. MaxFlushErrors /\ crashes \in 0 .. MaxCrashes

(* When nothing of a cron is under way and its operations did not overlap,   *)
(* its job does what its record says: an open, enabled cron is armed, a      *)
(* disabled one is not, and there is no job without a record or a thread.    *)
SettledIsConsistent ==
  \A c \in Cron :
    Calm(c) /\ excuse[c] = "none" =>
      /\ rec[c] = "off" => job[c] # "armed"
      /\ rec[c] = "on" /\ thread[c] = "open" => job[c] = "armed"
      /\ rec[c] = "none" \/ thread[c] \in {"none", "gone"} => job[c] = "none"

(* An acknowledged pause outlasts reloads, archiving and restarts: only a    *)
(* resume, a removal or an overlapping operation ends it.                    *)
PauseHolds ==
  \A c \in paused : Calm(c) => job[c] # "armed" /\ rec[c] # "on"

(* When the mutex is idle and the last flush succeeded, the file is what the *)
(* memory is: a restart changes nothing.                                     *)
DiskIsMemory == writes = <<>> /\ ~dirty => disk = rec

(* Every handler ends: a write that fails does not leave its caller waiting  *)
(* nor the ones behind it.                                                   *)
EveryHandlerEnds == \A h \in Handler : ~At(h, "free") ~> At(h, "free")
=============================================================================
