------------------------ MODULE CronLifecycleProofs ------------------------
(***************************************************************************)
(* For every set of crons and handler slots and every bound: the state      *)
(* keeps its shape, whenever the write queue of the stats store is idle     *)
(* after a successful flush the file is what the memory is, an acknowledged *)
(* pause holds, and a settled cron's job does what its record says.         *)
(***************************************************************************)
EXTENDS CronLifecycle, TLAPS

USE DEF store, history, bounds

(* Only a write the mutex has begun may turn out to be empty. *)
WaitingAreReal == \A i \in 2 .. Len(writes) : writes[i].to # "nothing"

TypeInv == TypeOK /\ WaitingAreReal

(* A write in progress that flushes nothing leaves the file as it was. *)
DiskInv ==
  ~dirty /\ (writes = <<>> \/ Head(writes).to = "nothing") => disk = rec

Real == {w \in Write : w.to # "nothing"}

(* The held objects of hs are in the store. *)
HeldIn(hs, r) ==
  \A h \in Handler : hs[h].step = "save" /\ hs[h].held = "live" => r[hs[h].cron] # "none"

(* Taking up a write keeps the record's type and yields a write. *)
LEMMA BegunType ==
  ASSUME TypeOK, NEW w \in Real, Written(w)
  PROVE  /\ Begun(w) \in Write
         /\ rec' \in [Cron -> {"none", "on", "off"}]
         /\ Begun(w).to = "nothing" => rec' = rec
         /\ \A c \in Cron : rec[c] # "none" /\ rec'[c] = "none" => w.to = "remove" /\ w.cron = c
<1>1. w.cron \in Cron /\ w.to \in {"on", "off", "keep", "remove"}
  BY DEF Real, Write
<1>2. rec \in [Cron -> {"none", "on", "off"}]
  BY DEF TypeOK
<1>3. Begun(w) \in Write
  BY DEF Begun, Write, Real
<1>4. rec' \in [Cron -> {"none", "on", "off"}]
  BY <1>1, <1>2 DEF Written
<1>5. Begun(w).to = "nothing" => rec' = rec
  BY <1>1, <1>2 DEF Written, Begun
<1>6. \A c \in Cron : rec[c] # "none" /\ rec'[c] = "none" => w.to = "remove" /\ w.cron = c
  BY <1>1, <1>2 DEF Written
<1> QED
  BY <1>3, <1>4, <1>5, <1>6

(* Freezing the held objects keeps the handlers' types, and no live object   *)
(* is missing from the store afterwards.                                     *)
LEMMA FrozenType ==
  ASSUME TypeOK, NEW w \in Real, Written(w),
         NEW a \in Activity \cup {Free},
         a.step = "save" /\ a.held = "live" => rec[a.cron] # "none"
  PROVE  /\ Frozen(a, w) \in Activity \cup {Free}
         /\ Frozen(a, w).step = "save" /\ Frozen(a, w).held = "live"
              => rec'[Frozen(a, w).cron] # "none"
<1>1. w.cron \in Cron /\ rec[w.cron] \in {"none", "on", "off"}
  BY DEF Real, Write, TypeOK
<1>2. CASE w.to = "remove" /\ a.step = "save" /\ a.cron = w.cron /\ a.held = "live"
  <2>1. a \in Activity
    BY <1>2 DEF Free
  <2>2. rec[w.cron] \in {"on", "off"}
    BY <1>1, <1>2
  <2>3. Frozen(a, w) = [a EXCEPT !.held = rec[w.cron]]
    BY <1>2 DEF Frozen
  <2> QED
    BY <2>1, <2>2, <2>3 DEF Activity
<1>3. CASE ~(w.to = "remove" /\ a.step = "save" /\ a.cron = w.cron /\ a.held = "live")
  <2>1. Frozen(a, w) = a
    BY <1>3 DEF Frozen
  <2>2. CASE a.step = "save" /\ a.held = "live"
    <3>1. a.cron \in Cron
      BY <2>2 DEF Free, Activity
    <3> QED
      BY <1>3, <2>1, <2>2, <3>1, BegunType
  <2> QED
    BY <2>1, <2>2
<1> QED
  BY <1>2, <1>3

(* Enqueueing keeps the store and the handlers in shape. *)
LEMMA EnqueueType ==
  ASSUME TypeInv, NEW w \in Real, NEW hs \in [Handler -> Activity \cup {Free}], HeldIn(hs, rec),
         Enqueue(w, hs)
  PROVE  /\ writes' \in Seq(Write) /\ WaitingAreReal'
         /\ rec' \in [Cron -> {"none", "on", "off"}]
         /\ disk' = disk /\ dirty' = dirty
         /\ handler' \in [Handler -> Activity \cup {Free}] /\ HeldIn(handler', rec')
<1>1. TypeOK /\ w \in Write /\ writes \in Seq(Write)
  BY DEF TypeInv, TypeOK, Real
<1>2. CASE writes = <<>>
  <2>1. writes' = <<Begun(w)>> /\ Written(w)
        /\ handler' = [h \in Handler |-> Frozen(hs[h], w)]
    BY <1>2 DEF Enqueue
  <2>2. \A h \in Handler : /\ Frozen(hs[h], w) \in Activity \cup {Free}
                           /\ Frozen(hs[h], w).step = "save" /\ Frozen(hs[h], w).held = "live"
                                => rec'[Frozen(hs[h], w).cron] # "none"
    BY <1>1, <2>1, FrozenType DEF HeldIn
  <2>3. handler' \in [Handler -> Activity \cup {Free}] /\ HeldIn(handler', rec')
    BY <2>1, <2>2 DEF HeldIn
  <2>4. Begun(w) \in Write /\ rec' \in [Cron -> {"none", "on", "off"}]
    BY <1>1, <2>1, BegunType
  <2>5. writes' \in Seq(Write) /\ Len(writes') = 1
    BY <2>1, <2>4
  <2> QED
    BY <2>3, <2>4, <2>5 DEF Enqueue, WaitingAreReal
<1>3. CASE writes # <<>>
  <2>1. writes' = Append(writes, w) /\ handler' = hs /\ rec' = rec
    BY <1>3 DEF Enqueue
  <2>2. writes' \in Seq(Write) /\ Len(writes') = Len(writes) + 1
    BY <1>1, <2>1
  <2>3. \A i \in 2 .. Len(writes) : writes'[i] = writes[i]
    BY <1>1, <2>1
  <2>4. writes'[Len(writes) + 1] = w
    BY <1>1, <2>1
  <2>5. WaitingAreReal'
    BY <1>1, <2>2, <2>3, <2>4 DEF WaitingAreReal, TypeInv, Real
  <2> QED
    BY <2>1, <2>2, <2>5, <1>1 DEF Enqueue, HeldIn, TypeOK
<1> QED
  BY <1>2, <1>3

(* Enqueueing keeps the file in step. *)
LEMMA EnqueueDisk ==
  ASSUME TypeInv, DiskInv, NEW w \in Real, NEW hs, Enqueue(w, hs)
  PROVE  DiskInv'
<1>1. TypeOK /\ w \in Write /\ writes \in Seq(Write)
  BY DEF TypeInv, TypeOK, Real
<1>2. CASE writes = <<>>
  <2>1. writes' = <<Begun(w)>> /\ Written(w) /\ disk' = disk /\ dirty' = dirty
    BY <1>2 DEF Enqueue
  <2>2. Head(writes') = Begun(w) /\ writes' # <<>>
    BY <2>1
  <2>3. Begun(w).to = "nothing" => rec' = rec
    BY <1>1, <2>1, BegunType
  <2> QED
    BY <1>2, <2>1, <2>2, <2>3 DEF DiskInv
<1>3. CASE writes # <<>>
  <2>1. writes' = Append(writes, w) /\ rec' = rec /\ disk' = disk /\ dirty' = dirty
    BY <1>3 DEF Enqueue
  <2>2. writes' # <<>> /\ Head(writes') = Head(writes)
    BY <1>1, <1>3, <2>1
  <2> QED
    BY <1>3, <2>1, <2>2 DEF DiskInv
<1> QED
  BY <1>2, <1>3

(* What is left of a queue behind its second entry. *)
LEMMA NonEmptyLength ==
  ASSUME NEW S, NEW q \in Seq(S), q # <<>>
  PROVE  Len(q) \in Nat /\ (Len(q) = 1 <=> ~(Len(q) > 1))
<1>1. Len(q) \in Nat /\ Len(q) # 0
  OBVIOUS
<1>2. \A n \in Nat : n # 0 => (n = 1 <=> ~(n > 1))
  OBVIOUS
<1> QED
  BY <1>1, <1>2

LEMMA BehindTheSecond ==
  ASSUME NEW S, NEW q \in Seq(S), Len(q) > 1
  PROVE  /\ Tail(Tail(q)) \in Seq(S)
         /\ Len(Tail(Tail(q))) = Len(q) - 2
         /\ \A i \in 1 .. Len(q) - 2 : Tail(Tail(q))[i] = q[i + 2]
<1> DEFINE r == Tail(q)
<1>1. /\ r \in Seq(S) /\ Len(r) = Len(q) - 1
      /\ \A i \in 1 .. Len(q) - 1 : r[i] = q[i + 1]
  OBVIOUS
<1>2. r # <<>>
  <2>1. Len(q) \in Nat
    OBVIOUS
  <2>2. Len(r) # 0
    BY <1>1, <2>1
  <2>3. Len(<<>>) = 0
    OBVIOUS
  <2> HIDE DEF r
  <2> QED
    BY <2>2, <2>3
<1> HIDE DEF r
<1>3. /\ Tail(r) \in Seq(S) /\ Len(Tail(r)) = Len(r) - 1
      /\ \A i \in 1 .. Len(r) - 1 : Tail(r)[i] = r[i + 1]
  BY <1>1, <1>2
<1>4. \A i \in 1 .. Len(q) - 2 : Tail(r)[i] = q[i + 2]
  BY <1>1, <1>3
<1> QED
  BY <1>1, <1>3, <1>4 DEF r

(* Ending a write, and starting the next one, keeps the store in shape.      *)
LEMMA NextWriteType ==
  ASSUME TypeInv, writes # <<>>, NextWrite
  PROVE  /\ writes' \in Seq(Write) /\ WaitingAreReal'
         /\ rec' \in [Cron -> {"none", "on", "off"}]
         /\ writes' # <<>> /\ Head(writes').to = "nothing" => rec' = rec
         /\ writes' = <<>> => rec' = rec
         /\ Len(writes) > 1 => writes[2] \in Real /\ Written(writes[2])
         /\ Len(writes) = 1 => rec' = rec
<1>1. TypeOK /\ writes \in Seq(Write) /\ Len(writes) \in Nat /\ Len(writes) >= 1
  BY DEF TypeInv, TypeOK
<1>2. CASE Len(writes) = 1
  BY <1>1, <1>2 DEF NextWrite, WaitingAreReal, TypeOK
<1>3. CASE Len(writes) > 1
  <2> DEFINE w == writes[2]
  <2>1. w \in Real
    BY <1>1, <1>3 DEF TypeInv, WaitingAreReal, Real
  <2>0. ~(Len(writes) = 1)
    BY <1>1, <1>3, NonEmptyLength
  <2>2. writes' = <<Begun(w)>> \o Tail(Tail(writes)) /\ Written(w)
    BY <2>0, Zenon DEF NextWrite
  <2>3. /\ Begun(w) \in Write
        /\ rec' \in [Cron -> {"none", "on", "off"}]
        /\ Begun(w).to = "nothing" => rec' = rec
    BY <1>1, <2>1, <2>2, BegunType
  <2>4. Tail(Tail(writes)) \in Seq(Write) /\ Len(Tail(Tail(writes))) = Len(writes) - 2
    BY <1>1, <1>3, BehindTheSecond
  <2>5. \A i \in 1 .. Len(writes) - 2 : Tail(Tail(writes))[i] = writes[i + 2]
    BY <1>1, <1>3, BehindTheSecond
  <2>6. writes' \in Seq(Write) /\ Len(writes') = Len(writes) - 1
    BY <1>1, <2>2, <2>3, <2>4
  <2>7. \A i \in 2 .. Len(writes) - 1 : writes'[i] = writes[i + 1]
    BY <1>1, <2>2, <2>3, <2>4, <2>5
  <2>8. WaitingAreReal'
    BY <1>1, <2>6, <2>7 DEF WaitingAreReal, TypeInv
  <2>9. writes' # <<>> /\ Head(writes') = Begun(w)
    BY <1>1, <2>2, <2>3, <2>4, <2>6
  <2> QED
    BY <1>3, <2>1, <2>2, <2>3, <2>6, <2>8, <2>9
<1>4. Len(writes) = 1 \/ Len(writes) > 1
  BY <1>1, NonEmptyLength
<1> QED
  BY <1>2, <1>3, <1>4

(* What the owner becomes is a handler past its write. *)
LEMMA ReleasedType ==
  ASSUME TypeOK, NEW h \in Handler, NEW ok \in BOOLEAN
  PROVE  Released(h, ok) \in Activity \cup {Free} /\ Released(h, ok).step # "save"
<1>1. handler[h] \in Activity \cup {Free}
  BY DEF TypeOK
<1>2. CASE ok /\ At(h, "remove")
  <2>1. handler[h] \in Activity
    BY <1>1, <1>2 DEF At, Free
  <2> QED
    BY <1>2, <2>1 DEF Released, Activity, Steps
<1>3. CASE ~(ok /\ At(h, "remove"))
  BY <1>3 DEF Released, Free
<1> QED
  BY <1>2, <1>3

(* The handlers after the end of a write. *)
LEMMA WakeOwnerType ==
  ASSUME TypeInv, writes # <<>>, NextWrite, NEW ok \in BOOLEAN, WakeOwner(ok)
  PROVE  handler' \in [Handler -> Activity \cup {Free}] /\ HeldIn(handler', rec')
<1>1. TypeOK
  BY DEF TypeInv
<1> DEFINE a(h) == IF h = Head(writes).owner THEN Released(h, ok)
                   ELSE IF Len(writes) > 1 THEN Frozen(handler[h], writes[2]) ELSE handler[h]
<1>2. ASSUME NEW h \in Handler
      PROVE  /\ a(h) \in Activity \cup {Free}
             /\ a(h).step = "save" /\ a(h).held = "live" => rec'[a(h).cron] # "none"
  <2>1. CASE h = Head(writes).owner
    BY <1>1, <2>1, ReleasedType
  <2>2. CASE h # Head(writes).owner /\ Len(writes) > 1
    <3>1. handler[h] \in Activity \cup {Free}
          /\ (handler[h].step = "save" /\ handler[h].held = "live" => rec[handler[h].cron] # "none")
      BY <1>1 DEF TypeOK, At, CronOf
    <3>2. writes[2] \in Real /\ Written(writes[2])
      BY <2>2, NextWriteType
    <3> QED
      BY <1>1, <2>2, <3>1, <3>2, FrozenType
  <2>3. CASE h # Head(writes).owner /\ ~(Len(writes) > 1)
    <3>1. Len(writes) = 1
      BY <1>1, <2>3, NonEmptyLength DEF TypeOK
    <3>2. rec' = rec
      BY <3>1, NextWriteType
    <3> QED
      BY <1>1, <2>3, <3>2 DEF TypeOK, At, CronOf
  <2> QED
    BY <2>1, <2>2, <2>3
<1>3. handler' = [h \in Handler |-> a(h)]
  BY DEF WakeOwner
<1> HIDE DEF a
<1> QED
  BY <1>2, <1>3 DEF HeldIn

(* What TypeOK says of everything but the store and the handlers. *)
Rest ==
  /\ thread \in [Cron -> {"none", "open", "archived", "gone"}]
  /\ job \in [Cron -> {"none", "armed", "stopped"}]
  /\ disk \in [Cron -> {"none", "on", "off"}]
  /\ dirty \in BOOLEAN
  /\ excuse \in [Cron -> {"none", "refused", "raced"}]
  /\ paused \subseteq Cron
  /\ ops \in 0 .. MaxOps /\ flushErrors \in 0 .. MaxFlushErrors /\ crashes \in 0 .. MaxCrashes

(* The parts of TypeInv, before and after a step. *)
LEMMA TypeInvParts ==
  TypeInv => /\ Rest
             /\ rec \in [Cron -> {"none", "on", "off"}]
             /\ writes \in Seq(Write) /\ WaitingAreReal
             /\ handler \in [Handler -> Activity \cup {Free}] /\ HeldIn(handler, rec)
BY DEF TypeInv, TypeOK, Rest, HeldIn, At, CronOf

LEMMA TypeInvNext ==
  ASSUME Rest', rec' \in [Cron -> {"none", "on", "off"}],
         writes' \in Seq(Write), WaitingAreReal',
         handler' \in [Handler -> Activity \cup {Free}], HeldIn(handler', rec')
  PROVE  TypeInv'
BY DEF TypeInv, TypeOK, Rest, HeldIn, At, CronOf

LEMMA WriteOfReal ==
  ASSUME NEW c \in Cron, NEW to \in {"on", "off", "keep", "remove"},
         NEW by \in {"pause", "other"}, NEW h \in Handler \cup {NoHandler}
  PROVE  WriteOf(c, to, by, h) \in Real
BY DEF WriteOf, Real, Write

(* Setting a slot to a handler that holds nothing missing. *)
LEMMA SlotType ==
  ASSUME TypeInv, NEW h \in Handler, NEW a \in Activity \cup {Free},
         a.step = "save" /\ a.held = "live" => rec[a.cron] # "none"
  PROVE  /\ [handler EXCEPT ![h] = a] \in [Handler -> Activity \cup {Free}]
         /\ HeldIn([handler EXCEPT ![h] = a], rec)
<1>1. handler \in [Handler -> Activity \cup {Free}] /\ HeldIn(handler, rec)
  BY TypeInvParts
<1> QED
  BY <1>1 DEF HeldIn

LEMMA StartType ==
  ASSUME TypeInv, NEW c \in Cron, NEW step \in Steps, Start(c, step)
  PROVE  handler' \in [Handler -> Activity \cup {Free}] /\ HeldIn(handler', rec)
<1>1. PICK h \in Handler :
        handler' = [handler EXCEPT ![h] = [step |-> step, cron |-> c, held |-> "none"]]
  BY DEF Start
<1>2. [step |-> step, cron |-> c, held |-> "none"] \in Activity
  BY DEF Activity
<1> QED
  BY <1>1, <1>2, SlotType

LEMMA OperationType ==
  ASSUME Rest, Operation
  PROVE  ops' \in 0 .. MaxOps /\ flushErrors' = flushErrors /\ crashes' = crashes
BY BoundsAssumption DEF Rest, Operation

LEMMA StoppedType ==
  ASSUME Rest, NEW c \in Cron
  PROVE  Stopped(c) \in [Cron -> {"none", "armed", "stopped"}]
BY DEF Rest, Stopped

LEMMA HistoryType ==
  ASSUME Rest, NEW c \in Cron, NEW raced, NEW revoked,
         Note(c, raced, revoked) \/ NoteSwitch(c, revoked)
  PROVE  /\ excuse' \in [Cron -> {"none", "refused", "raced"}]
         /\ paused' \subseteq Cron
BY DEF Rest, Note, NoteSwitch

(* A step that leaves the store alone. *)
LEMMA StoreUnchanged ==
  ASSUME TypeInv, UNCHANGED store, Rest',
         handler' \in [Handler -> Activity \cup {Free}], HeldIn(handler', rec)
  PROVE  TypeInv'
<1>1. /\ rec' \in [Cron -> {"none", "on", "off"}]
      /\ writes' \in Seq(Write) /\ WaitingAreReal' /\ HeldIn(handler', rec')
  BY TypeInvParts DEF WaitingAreReal, HeldIn
<1> QED
  BY <1>1, TypeInvNext

(* A step that enqueues a write. *)
LEMMA Enqueued ==
  ASSUME TypeInv, NEW w \in Real, NEW hs \in [Handler -> Activity \cup {Free}], HeldIn(hs, rec),
         Enqueue(w, hs), disk' = disk /\ dirty' = dirty => Rest'
  PROVE  TypeInv'
BY EnqueueType, TypeInvNext

(* The archive handler, from cronDelete or from the forum. *)
LEMMA ArchivedType ==
  ASSUME TypeInv, NEW c \in Cron, NEW hs \in [Handler -> Activity \cup {Free}], HeldIn(hs, rec),
         Archived(c, hs),
         /\ excuse' \in [Cron -> {"none", "refused", "raced"}]
         /\ paused' \subseteq Cron
         /\ ops' \in 0 .. MaxOps /\ flushErrors' = flushErrors /\ crashes' = crashes
  PROVE  TypeInv'
<1>1. Rest
  BY TypeInvParts
<1>2. disk' = disk /\ dirty' = dirty => Rest'
  BY <1>1, StoppedType DEF Archived, Rest
<1>3. CASE rec[c] = "none"
  BY <1>2, <1>3, StoreUnchanged DEF Archived
<1>4. CASE rec[c] # "none"
  <2>1. WriteOf(c, "off", "other", NoHandler) \in Real
    BY WriteOfReal
  <2> QED
    BY <1>2, <1>4, <2>1, Enqueued DEF Archived
<1> QED
  BY <1>3, <1>4

-----------------------------------------------------------------------------
(* The actions on crons keep the shape of the state. *)
LEMMA CommandType ==
  ASSUME TypeInv, NEW c \in Cron, Command(c)
  PROVE  TypeInv'
<1>1. Rest /\ handler \in [Handler -> Activity \cup {Free}] /\ HeldIn(handler, rec)
  BY TypeInvParts
<1>2. \A to \in {"on", "off", "keep", "remove"}, by \in {"pause", "other"},
         h \in Handler \cup {NoHandler} : WriteOf(c, to, by, h) \in Real
  BY WriteOfReal
<1>3. CASE Create(c)
  <2>1. disk' = disk /\ dirty' = dirty => Rest'
    BY <1>1, <1>3, OperationType DEF Create, Rest
  <2> QED
    BY <1>1, <1>2, <1>3, <2>1, Enqueued DEF Create
<1>4. CASE Pause(c)
  <2>1. disk' = disk /\ dirty' = dirty => Rest'
    BY <1>1, <1>4, OperationType, StoppedType, HistoryType DEF Pause, Rest
  <2> QED
    BY <1>1, <1>2, <1>4, <2>1, Enqueued DEF Pause
<1>5. CASE Resume(c)
  <2>1. disk' = disk /\ dirty' = dirty => Rest'
    BY <1>1, <1>5, OperationType, HistoryType DEF Resume, Rest
  <2> QED
    BY <1>1, <1>2, <1>5, <2>1, Enqueued DEF Resume
<1>6. CASE UpdateSettings(c)
  <2>1. disk' = disk /\ dirty' = dirty => Rest'
    BY <1>1, <1>6, OperationType DEF UpdateSettings, Rest
  <2> QED
    BY <1>1, <1>2, <1>6, <2>1, Enqueued DEF UpdateSettings
<1>7. CASE Update(c)
  <2>1. Rest'
    BY <1>1, <1>7, OperationType, HistoryType DEF Update, Rest
  <2>2. handler' \in [Handler -> Activity \cup {Free}] /\ HeldIn(handler', rec')
    BY <1>7, StartType DEF Update, Steps
  <2> QED
    BY <1>7, <2>1, <2>2, StoreUnchanged DEF Update, HeldIn
<1>8. CASE Post(c)
  <2>1. Rest'
    BY <1>1, <1>8, OperationType, HistoryType DEF Post, Rest
  <2>2. handler' \in [Handler -> Activity \cup {Free}] /\ HeldIn(handler', rec')
    BY <1>8, StartType DEF Post, Steps
  <2> QED
    BY <1>8, <2>1, <2>2, StoreUnchanged DEF Post, HeldIn
<1>9. CASE Delete(c)
  <2>1. disk' = disk /\ dirty' = dirty => Rest'
    BY <1>1, <1>9, OperationType, HistoryType DEF Delete, Rest
  <2>2. PICK h \in Handler :
          Enqueue(WriteOf(c, "remove", "other", h),
                  [handler EXCEPT ![h] = [step |-> "remove", cron |-> c, held |-> "none"]])
    BY <1>9 DEF Delete
  <2>3. [step |-> "remove", cron |-> c, held |-> "none"] \in Activity
    BY DEF Activity, Steps
  <2> QED
    BY <1>2, <2>1, <2>2, <2>3, SlotType, Enqueued
<1> QED
  BY <1>3, <1>4, <1>5, <1>6, <1>7, <1>8, <1>9 DEF Command

(* The events of the forum keep it too. *)
LEMMA EventType ==
  ASSUME TypeInv, NEW c \in Cron, Event(c)
  PROVE  TypeInv'
<1>1. Rest /\ handler \in [Handler -> Activity \cup {Free}] /\ HeldIn(handler, rec)
  BY TypeInvParts
<1>2. CASE Archive(c)
  BY <1>1, <1>2, OperationType, HistoryType, ArchivedType DEF Archive
<1>3. CASE Unarchive(c)
  <2>1. Rest'
    BY <1>1, <1>3, OperationType DEF Unarchive, Rest
  <2>2. handler' \in [Handler -> Activity \cup {Free}] /\ HeldIn(handler', rec')
    BY <1>3, StartType DEF Unarchive, Steps
  <2> QED
    BY <1>3, <2>1, <2>2, StoreUnchanged DEF Unarchive, HeldIn
<1>4. CASE Reload(c)
  <2>1. Rest'
    BY <1>1, <1>4, OperationType, HistoryType DEF Reload, Rest
  <2>2. handler' \in [Handler -> Activity \cup {Free}] /\ HeldIn(handler', rec')
    BY <1>4, StartType DEF Reload, Steps
  <2> QED
    BY <1>4, <2>1, <2>2, StoreUnchanged DEF Reload, HeldIn
<1>5. CASE ThreadDelete(c)
  <2>1. disk' = disk /\ dirty' = dirty => Rest'
    BY <1>1, <1>5, OperationType, HistoryType DEF ThreadDelete, Rest
  <2>2. WriteOf(c, "remove", "other", NoHandler) \in Real
    BY WriteOfReal
  <2> QED
    BY <1>1, <1>5, <2>1, <2>2, Enqueued DEF ThreadDelete
<1> QED
  BY <1>2, <1>3, <1>4, <1>5 DEF Event

(* The continuations of the handlers keep it. *)
LEMMA HandlerStepType ==
  ASSUME TypeInv, NEW h \in Handler, HandlerStep(h)
  PROVE  TypeInv'
<1> DEFINE c == CronOf(h)
           freed == [handler EXCEPT ![h] = Free]
<1>1. Rest /\ handler \in [Handler -> Activity \cup {Free}]
      /\ rec \in [Cron -> {"none", "on", "off"}]
  BY TypeInvParts
<1>2. handler[h].step \in Steps => c \in Cron
  BY <1>1 DEF CronOf, Activity, Free, Steps
<1>3. freed \in [Handler -> Activity \cup {Free}] /\ HeldIn(freed, rec)
  BY SlotType DEF Free
<1>4. CASE Reregister(h)
  <2>1. c \in Cron
    BY <1>2, <1>4 DEF Reregister, At, Steps
  <2> HIDE DEF c
  <2>2. Note(c, job[c] # "armed", FALSE)
    BY <1>4 DEF Reregister, c
  <2>3. disk' = disk /\ dirty' = dirty => Rest'
    BY <1>1, <1>4, <2>1, <2>2, HistoryType DEF Reregister, Rest, c
  <2>4. WriteOf(c, "keep", "other", NoHandler) \in Real
    BY <2>1, WriteOfReal
  <2> QED
    BY <1>3, <1>4, <2>3, <2>4, Enqueued DEF Reregister, c
<1>5. CASE Posted(h)
  <2>1. c \in Cron
    BY <1>2, <1>5 DEF Posted, At, Steps
  <2>2. disk' = disk /\ dirty' = dirty => Rest'
    BY <1>1, <1>5 DEF Posted, Rest
  <2>3. WriteOf(c, "keep", "other", NoHandler) \in Real
    BY <2>1, WriteOfReal
  <2> QED
    BY <1>3, <1>5, <2>2, <2>3, Enqueued, StoreUnchanged DEF Posted
<1>6. CASE ArchiveDeleted(h)
  <2>1. c \in Cron
    BY <1>2, <1>6 DEF ArchiveDeleted, At, Steps
  <2>2. CASE Archived(c, freed)
    BY <1>1, <1>3, <1>6, <2>1, <2>2, ArchivedType DEF ArchiveDeleted, Rest
  <2>3. CASE handler' = freed /\ UNCHANGED <<thread, job, store>>
    <3>1. Rest'
      BY <1>1, <1>6, <2>3 DEF ArchiveDeleted, Rest
    <3> QED
      BY <1>3, <2>3, <3>1, StoreUnchanged
  <2> QED
    BY <1>6, <2>2, <2>3 DEF ArchiveDeleted
<1>7. CASE Refuse(h)
  <2>1. c \in Cron
    BY <1>2, <1>7 DEF Refuse, At, Steps
  <2>2. Rest'
    BY <1>1, <1>7, <2>1, StoppedType DEF Refuse, Rest
  <2> QED
    BY <1>3, <1>7, <2>2, StoreUnchanged DEF Refuse
<1>8. CASE Load(h)
  <2> DEFINE held == IF rec[c] = "none" THEN "none" ELSE "live"
             a == [step |-> "save", cron |-> c, held |-> held]
             w == WriteOf(c, LoadedState(c), "other", h)
  <2>1. c \in Cron
    BY <1>2, <1>8 DEF Load, At, Steps
  <2>2. disk' = disk /\ dirty' = dirty => Rest'
    BY <1>1, <1>8, <2>1 DEF Load, Rest
  <2>3. w \in Real
    BY <2>1, WriteOfReal DEF LoadedState
  <2>4. a \in Activity /\ (a.held = "live" => rec[a.cron] # "none")
    BY <2>1 DEF Activity, Steps
  <2>5. Enqueue(w, [handler EXCEPT ![h] = a])
    BY <1>8 DEF Load
  <2> HIDE DEF a, w
  <2>6. [handler EXCEPT ![h] = a] \in [Handler -> Activity \cup {Free}]
        /\ HeldIn([handler EXCEPT ![h] = a], rec)
    BY <2>4, SlotType
  <2> QED
    BY <2>2, <2>3, <2>5, <2>6, Enqueued
<1> QED
  BY <1>4, <1>5, <1>6, <1>7, <1>8 DEF HandlerStep

(* The end of a write keeps it, whether the flush succeeded or not. *)
LEMMA FlushType ==
  ASSUME TypeInv, FlushDone \/ FlushFails
  PROVE  TypeInv'
<1>1. /\ Rest /\ rec \in [Cron -> {"none", "on", "off"}]
      /\ writes \in Seq(Write)
      /\ writes # <<>> /\ NextWrite
  BY TypeInvParts DEF FlushDone, FlushFails
<1>2. PICK ok \in BOOLEAN : WakeOwner(ok)
  BY DEF FlushDone, FlushFails
<1>3. /\ rec' \in [Cron -> {"none", "on", "off"}]
      /\ writes' \in Seq(Write) /\ WaitingAreReal'
  BY <1>1, NextWriteType
<1>4. handler' \in [Handler -> Activity \cup {Free}] /\ HeldIn(handler', rec')
  BY <1>1, <1>2, WakeOwnerType
<1>5. Head(writes).cron \in Cron
  <2>1. Head(writes) \in Write
    BY <1>1
  <2> QED
    BY <2>1 DEF Write
<1>6. CASE FlushDone
  <2>1. job' \in [Cron -> {"none", "armed", "stopped"}]
    BY <1>1, <1>5, <1>6, StoppedType DEF FlushDone, Rest
  <2>2. paused' \subseteq Cron
    BY <1>1, <1>5, <1>6 DEF FlushDone, Acknowledge, Rest
  <2>3. Rest'
    BY <1>1, <1>6, <2>1, <2>2 DEF FlushDone, Rest
  <2> QED
    BY <1>3, <1>4, <2>3, TypeInvNext
<1>7. CASE FlushFails
  <2>1. flushErrors' \in 0 .. MaxFlushErrors
    BY <1>1, <1>7, BoundsAssumption DEF FlushFails, Rest
  <2>2. Rest'
    BY <1>1, <1>5, <1>7, <2>1 DEF FlushFails, Rest
  <2> QED
    BY <1>3, <1>4, <2>2, TypeInvNext
<1> QED
  BY <1>6, <1>7

LEMMA RestartType ==
  ASSUME TypeInv, Restart
  PROVE  TypeInv'
<1>1. Rest
  BY TypeInvParts
<1>2. crashes' \in 0 .. MaxCrashes
  BY <1>1, BoundsAssumption DEF Restart, Rest
<1>3. Rest'
  <2>1. /\ thread' \in [Cron -> {"none", "open", "archived", "gone"}]
        /\ job' \in [Cron -> {"none", "armed", "stopped"}]
    BY DEF Restart
  <2>2. /\ excuse' \in [Cron -> {"none", "refused", "raced"}]
        /\ dirty' \in BOOLEAN
    BY DEF Restart
  <2>3. UNCHANGED <<disk, paused, ops, flushErrors>>
    BY DEF Restart
  <2> QED
    BY <1>1, <1>2, <2>1, <2>2, <2>3 DEF Rest
<1>4. handler' \in [Handler -> Activity \cup {Free}] /\ HeldIn(handler', rec')
  BY DEF Restart, HeldIn, Free
<1>5. writes' \in Seq(Write) /\ WaitingAreReal'
  BY DEF Restart, WaitingAreReal
<1> QED
  BY <1>1, <1>3, <1>4, <1>5, TypeInvNext DEF Restart, Rest

LEMMA TypeInvariant == Spec => []TypeInv
<1>1. Init => TypeInv
  <2> SUFFICES ASSUME Init PROVE TypeInv
    OBVIOUS
  <2>1. ops \in 0 .. MaxOps /\ flushErrors \in 0 .. MaxFlushErrors /\ crashes \in 0 .. MaxCrashes
    BY BoundsAssumption DEF Init
  <2>2. WaitingAreReal /\ writes \in Seq(Write)
    BY DEF Init, WaitingAreReal
  <2> QED
    BY <2>1, <2>2 DEF Init, TypeInv, TypeOK, At, Free
<1>2. TypeInv /\ [Next]_vars => TypeInv'
  <2> SUFFICES ASSUME TypeInv, [Next]_vars PROVE TypeInv'
    OBVIOUS
  <2>1. CASE UNCHANGED vars
    BY <2>1 DEF vars, TypeInv, TypeOK, WaitingAreReal, At, CronOf
  <2>2. CASE Quiet
    BY <2>1, <2>2 DEF Quiet, vars, TypeInv, TypeOK, WaitingAreReal, At, CronOf
  <2> QED
    BY <2>1, <2>2, CommandType, EventType, HandlerStepType, FlushType, RestartType DEF Next
<1> QED
  BY <1>1, <1>2, PTL DEF Spec

(* The state keeps its shape, and a record a loader holds as live is in the  *)
(* store, for every set of crons and slots.                                  *)
THEOREM TypeCorrect == Spec => []TypeOK
BY TypeInvariant, PTL DEF TypeInv

-----------------------------------------------------------------------------
(* Steps that leave rec, disk, writes and dirty alone keep DiskInv. *)
LEMMA StoreUnchangedDisk ==
  ASSUME DiskInv, UNCHANGED store
  PROVE  DiskInv'
BY DEF DiskInv

LEMMA ArchivedDisk ==
  ASSUME TypeInv, DiskInv, NEW c \in Cron, NEW hs, Archived(c, hs)
  PROVE  DiskInv'
BY WriteOfReal, EnqueueDisk, StoreUnchangedDisk DEF Archived

(* The end of a write: a flush leaves the file as the memory was, and the    *)
(* next write changes the memory only when it has something to flush.        *)
LEMMA FlushDisk ==
  ASSUME TypeInv, DiskInv, FlushDone \/ FlushFails
  PROVE  DiskInv'
<1>1. writes # <<>> /\ NextWrite
  BY DEF FlushDone, FlushFails
<1>2. writes' = <<>> \/ Head(writes').to = "nothing" => rec' = rec
  BY <1>1, NextWriteType
<1>3. CASE FlushDone
  <2>1. CASE Head(writes).to = "nothing"
    BY <1>2, <1>3, <2>1 DEF FlushDone, DiskInv
  <2>2. CASE Head(writes).to # "nothing"
    BY <1>2, <1>3, <2>2 DEF FlushDone, DiskInv
  <2> QED
    BY <2>1, <2>2
<1>4. CASE FlushFails
  BY <1>4 DEF FlushFails, DiskInv
<1> QED
  BY <1>3, <1>4

LEMMA StepDisk ==
  ASSUME TypeInv, DiskInv, [Next]_vars
  PROVE  DiskInv'
<1>1. \A c \in Cron, to \in {"on", "off", "keep", "remove"}, by \in {"pause", "other"},
         h \in Handler \cup {NoHandler} : WriteOf(c, to, by, h) \in Real
  BY WriteOfReal
<1>2. handler \in [Handler -> Activity \cup {Free}]
  BY TypeInvParts
<1>3. ASSUME NEW c \in Cron, Command(c) PROVE DiskInv'
  <2>1. CASE Create(c)
    BY <1>1, <2>1, EnqueueDisk DEF Create
  <2>2. CASE Pause(c)
    BY <1>1, <2>2, EnqueueDisk DEF Pause
  <2>3. CASE Resume(c)
    BY <1>1, <2>3, EnqueueDisk DEF Resume
  <2>4. CASE UpdateSettings(c)
    BY <1>1, <2>4, EnqueueDisk DEF UpdateSettings
  <2>5. CASE Update(c)
    BY <2>5, StoreUnchangedDisk DEF Update
  <2>6. CASE Post(c)
    BY <2>6, StoreUnchangedDisk DEF Post
  <2>7. CASE Delete(c)
    BY <1>1, <2>7, EnqueueDisk DEF Delete
  <2> QED
    BY <1>3, <2>1, <2>2, <2>3, <2>4, <2>5, <2>6, <2>7 DEF Command
<1>4. ASSUME NEW c \in Cron, Event(c) PROVE DiskInv'
  <2>1. CASE Archive(c)
    BY <2>1, ArchivedDisk DEF Archive
  <2>2. CASE Unarchive(c)
    BY <2>2, StoreUnchangedDisk DEF Unarchive
  <2>3. CASE Reload(c)
    BY <2>3, StoreUnchangedDisk DEF Reload
  <2>4. CASE ThreadDelete(c)
    BY <1>1, <2>4, EnqueueDisk DEF ThreadDelete
  <2> QED
    BY <1>4, <2>1, <2>2, <2>3, <2>4 DEF Event
<1>5. ASSUME NEW h \in Handler, HandlerStep(h) PROVE DiskInv'
  <2>1. CronOf(h) \in Cron
    <3>1. handler[h].step # "free"
      BY <1>5 DEF HandlerStep, Reregister, Posted, ArchiveDeleted, Refuse, Load, At
    <3>2. handler[h] \in Activity
      BY <1>2, <3>1 DEF Free
    <3> QED
      BY <3>2 DEF CronOf, Activity
  <2>2. CASE Reregister(h)
    BY <1>1, <2>1, <2>2, EnqueueDisk DEF Reregister
  <2>3. CASE Posted(h)
    BY <1>1, <2>1, <2>3, EnqueueDisk, StoreUnchangedDisk DEF Posted
  <2>4. CASE ArchiveDeleted(h)
    BY <2>1, <2>4, ArchivedDisk, StoreUnchangedDisk DEF ArchiveDeleted
  <2>5. CASE Refuse(h)
    BY <2>5, StoreUnchangedDisk DEF Refuse
  <2>6. CASE Load(h)
    <3>1. LoadedState(CronOf(h)) \in {"on", "off", "keep", "remove"}
      BY DEF LoadedState
    <3> QED
      BY <1>1, <2>1, <2>6, <3>1, EnqueueDisk DEF Load
  <2> QED
    BY <1>5, <2>2, <2>3, <2>4, <2>5, <2>6 DEF HandlerStep
<1>6. CASE Restart
  BY <1>6 DEF Restart, DiskInv
<1>7. CASE Quiet \/ UNCHANGED vars
  BY <1>7, StoreUnchangedDisk DEF Quiet, vars
<1> QED
  BY <1>3, <1>4, <1>5, <1>6, <1>7, FlushDisk DEF Next

(* Whenever the write queue is idle after a successful flush, the file is    *)
(* what the memory is, for every number of crons, writes and failures.       *)
THEOREM FileIsMemory == Spec => []DiskIsMemory
<1>1. Init => DiskInv
  BY DEF Init, DiskInv
<1>2. TypeInv /\ DiskInv /\ [Next]_vars => DiskInv'
  BY StepDisk
<1>3. DiskInv => DiskIsMemory
  BY DEF DiskInv, DiskIsMemory
<1> QED
  BY <1>1, <1>2, <1>3, TypeInvariant, PTL DEF Spec
-----------------------------------------------------------------------------
(* Pauses. *)

(* A write that a handler awaits is the only one it awaits, and of its cron. *)
OwnerInv ==
  /\ \A i \in 1 .. Len(writes) :
       writes[i].owner # NoHandler =>
         /\ handler[writes[i].owner].step \in {"save", "remove"}
         /\ handler[writes[i].owner].cron = writes[i].cron
  /\ \A i, j \in 1 .. Len(writes) :
       writes[i].owner = writes[j].owner /\ writes[i].owner # NoHandler => i = j

(* The write in progress is in the memory. *)
HeadInv ==
  writes # <<>> =>
    /\ Head(writes).to \in {"on", "off"} => rec[Head(writes).cron] = Head(writes).to
    /\ Head(writes).to \in {"remove", "nothing"} => rec[Head(writes).cron] = "none"

(* What has no thread yet has no record, and nobody is about to write one.   *)
ThreadOk(c) ==
  thread[c] = "none" => rec[c] = "none" /\ disk[c] = "none" /\ Calm(c)

(* As long as no operation overlaps a pause, no handler is under way that    *)
(* could arm the job, and if it is armed it was resumed.                     *)
PendingOk(c) ==
  \A i \in 1 .. Len(writes) :
    writes[i].cron = c /\ writes[i].by = "pause" =>
      /\ writes[i].to = "off"
      /\ excuse[c] # "raced" =>
           /\ ~Busy(c, Deciding)
           /\ job[c] = "armed" =>
                \E j \in (i + 1) .. Len(writes) : writes[j].cron = c /\ writes[j].to = "on"

(* A load has armed the job and will look at the disabled flag. *)
Restoring(c) ==
  \E h \in Handler : \E i \in 1 .. Len(writes) :
    /\ handler[h].step = "save" /\ handler[h].cron = c /\ handler[h].held = "live"
    /\ writes[i].owner = h

Decides(h, c) == handler[h].step \in Deciding /\ handler[h].cron = c

Paused(c) ==
  /\ rec[c] = "off" /\ disk[c] = "off"
  /\ \A i \in 1 .. Len(writes) : writes[i].cron = c => writes[i].to \in {"off", "keep"}
  /\ \A h, g \in Handler : Decides(h, c) /\ Decides(g, c) => h = g
  /\ job[c] = "armed" => Restoring(c)

CronOk(c) == ThreadOk(c) /\ PendingOk(c) /\ (c \in paused => Paused(c))

PauseInv == OwnerInv /\ HeadInv /\ \A c \in Cron : CronOk(c)

(* The record that a write makes of r. *)
Applied(to, r) ==
  CASE to = "keep" -> IF r = "none" THEN "on" ELSE r
    [] to = "remove" -> "none"
    [] OTHER -> to

(* What a step on cron c does to queue, memory and handlers: it adds a write *)
(* that sets the record to "to", or none, and leaves the slots as hs.        *)
Grown(c, to, by, owner, hs) ==
  /\ to \in {"none", "on", "off", "keep", "remove"}
  /\ writes' \in Seq(Write) /\ Len(writes) \in Nat /\ disk' = disk
  /\ Len(writes') = IF to = "none" THEN Len(writes) ELSE Len(writes) + 1
  /\ \A i \in 1 .. Len(writes) : writes'[i] = writes[i]
  /\ to # "none" =>
       /\ writes'[Len(writes) + 1].cron = c
       /\ writes'[Len(writes) + 1].owner = owner
       /\ writes'[Len(writes) + 1].by = by
       /\ to # "remove" => writes'[Len(writes) + 1].to = to
       /\ to = "remove" => writes'[Len(writes) + 1].to \in {"remove", "nothing"}
  /\ \A h \in Handler :
       /\ handler'[h].step = hs[h].step /\ handler'[h].cron = hs[h].cron
       /\ to # "remove" \/ hs[h].cron # c => handler'[h] = hs[h]
  /\ \A d \in Cron : d # c => rec'[d] = rec[d]
  /\ writes = <<>> /\ to # "none" => rec'[c] = Applied(to, rec[c])
  /\ writes # <<>> => rec' = rec /\ (to # "none" => writes'[Len(writes) + 1].to = to)
  /\ to = "none" => writes' = writes /\ rec' = rec

LEMMA FrozenKeeps ==
  ASSUME NEW a, NEW w
  PROVE  a \in Activity \cup {Free} =>
           /\ Frozen(a, w).step = a.step /\ Frozen(a, w).cron = a.cron
           /\ w.to # "remove" \/ a.cron # w.cron => Frozen(a, w) = a
<1> SUFFICES ASSUME a \in Activity \cup {Free}
             PROVE  /\ Frozen(a, w).step = a.step /\ Frozen(a, w).cron = a.cron
                    /\ w.to # "remove" \/ a.cron # w.cron => Frozen(a, w) = a
  OBVIOUS
<1>1. CASE a = Free
  BY <1>1 DEF Frozen, Free
<1>2. CASE a \in Activity
  BY <1>2 DEF Frozen, Activity
<1> QED
  BY <1>1, <1>2

LEMMA WrittenIs ==
  ASSUME TypeInv, NEW w \in Real, Written(w)
  PROVE  /\ \A c \in Cron : c # w.cron => rec'[c] = rec[c]
         /\ rec'[w.cron] = Applied(w.to, rec[w.cron])
<1>1. w.cron \in Cron /\ rec \in [Cron -> {"none", "on", "off"}]
  BY TypeInvParts DEF Real, Write
<1> QED
  BY <1>1 DEF Written, Applied

LEMMA BegunIs ==
  ASSUME NEW w \in Real
  PROVE  /\ Begun(w).cron = w.cron /\ Begun(w).owner = w.owner /\ Begun(w).by = w.by
         /\ w.to # "remove" => Begun(w).to = w.to
         /\ w.to = "remove" => Begun(w).to \in {"remove", "nothing"}
BY DEF Begun, Real, Write

LEMMA EnqueueGrows ==
  ASSUME TypeInv, NEW c \in Cron, NEW to \in {"on", "off", "keep", "remove"},
         NEW by \in {"pause", "other"}, NEW owner \in Handler \cup {NoHandler},
         NEW hs \in [Handler -> Activity \cup {Free}], HeldIn(hs, rec),
         Enqueue(WriteOf(c, to, by, owner), hs)
  PROVE  Grown(c, to, by, owner, hs)
<1> DEFINE w == WriteOf(c, to, by, owner)
<1>0. w \in Real /\ w.cron = c /\ w.to = to /\ w.by = by /\ w.owner = owner /\ Enqueue(w, hs)
  BY WriteOfReal DEF WriteOf
<1> HIDE DEF w
<1>1. /\ writes \in Seq(Write) /\ w \in Write /\ writes' \in Seq(Write) /\ disk' = disk
      /\ rec \in [Cron -> {"none", "on", "off"}] /\ w.cron \in Cron
  BY <1>0, TypeInvParts, EnqueueType DEF Real, Write
<1>2. CASE writes = <<>>
  <2>1. writes' = <<Begun(w)>> /\ Written(w)
        /\ handler' = [h \in Handler |-> Frozen(hs[h], w)]
    BY <1>0, <1>2 DEF Enqueue
  <2>2. Len(writes) = 0 /\ Len(writes') = 1 /\ writes'[1] = Begun(w)
    BY <1>2, <2>1
  <2>3. \A h \in Handler :
          /\ handler'[h].step = hs[h].step /\ handler'[h].cron = hs[h].cron
          /\ w.to # "remove" \/ hs[h].cron # w.cron => handler'[h] = hs[h]
    BY <2>1, FrozenKeeps
  <2>4. /\ \A d \in Cron : d # w.cron => rec'[d] = rec[d]
        /\ rec'[w.cron] = Applied(w.to, rec[w.cron])
    BY <1>0, <2>1, WrittenIs
  <2> QED
    BY <1>0, <1>1, <1>2, <2>2, <2>3, <2>4, BegunIs DEF Grown
<1>3. CASE writes # <<>>
  <2>1. writes' = Append(writes, w) /\ handler' = hs /\ rec' = rec
    BY <1>0, <1>3 DEF Enqueue
  <2>2. Len(writes') = Len(writes) + 1 /\ writes'[Len(writes) + 1] = w
        /\ \A i \in 1 .. Len(writes) : writes'[i] = writes[i]
    BY <1>1, <2>1
  <2>3. w.to # "nothing"
    BY <1>0 DEF Real
  <2> QED
    BY <1>0, <1>1, <1>3, <2>1, <2>2, <2>3 DEF Grown
<1> QED
  BY <1>2, <1>3

LEMMA PlainGrows ==
  ASSUME TypeInv, NEW c, NEW hs, UNCHANGED store, handler' = hs
  PROVE  Grown(c, "none", "other", NoHandler, hs)
<1>1. writes \in Seq(Write)
  BY TypeInvParts
<1> QED
  BY <1>1 DEF Grown

(* What ending a write and starting the next one does. *)
Drained ==
  /\ Len(writes) \in Nat /\ Len(writes) >= 1 /\ Head(writes) = writes[1]
  /\ writes' \in Seq(Write) /\ Len(writes') = Len(writes) - 1
  /\ \A i \in 1 .. Len(writes) - 1 :
       /\ writes'[i].cron = writes[i + 1].cron /\ writes'[i].owner = writes[i + 1].owner
       /\ writes'[i].by = writes[i + 1].by
       /\ writes[i + 1].to # "remove" => writes'[i].to = writes[i + 1].to
       /\ writes[i + 1].to = "remove" => writes'[i].to \in {"remove", "nothing"}
  /\ \A c \in Cron :
       \/ rec'[c] = rec[c]
       \/ Len(writes) > 1 /\ writes[2].cron = c
  /\ Len(writes) > 1 => rec'[writes[2].cron] = Applied(writes[2].to, rec[writes[2].cron])
  /\ \A i \in 2 .. Len(writes) - 1 : writes'[i].to = writes[i + 1].to
  /\ Len(writes) > 1 => writes[2].to # "nothing"
  /\ \A h \in Handler : h # Head(writes).owner =>
       /\ handler'[h].step = handler[h].step /\ handler'[h].cron = handler[h].cron
       /\ \/ handler'[h] = handler[h]
          \/ Len(writes) > 1 /\ writes[2].to = "remove" /\ writes[2].cron = handler[h].cron
  /\ \A h \in Handler : h = Head(writes).owner =>
       \/ handler'[h] = Free
       \/ /\ handler[h].step = "remove" /\ handler'[h].step = "archive"
          /\ handler'[h].cron = handler[h].cron

LEMMA DrainedIs ==
  ASSUME TypeInv, writes # <<>>, NextWrite, NEW ok \in BOOLEAN, WakeOwner(ok)
  PROVE  Drained
<1>1. /\ writes \in Seq(Write) /\ handler \in [Handler -> Activity \cup {Free}]
      /\ rec \in [Cron -> {"none", "on", "off"}]
  BY TypeInvParts
<1>2. Len(writes) \in Nat /\ Len(writes) >= 1 /\ Head(writes) = writes[1]
      /\ writes' \in Seq(Write)
  BY <1>1, NextWriteType
<1>3. ASSUME NEW h \in Handler
      PROVE  /\ h = Head(writes).owner => handler'[h] = Released(h, ok)
             /\ h # Head(writes).owner /\ Len(writes) > 1
                  => handler'[h] = Frozen(handler[h], writes[2])
             /\ h # Head(writes).owner /\ ~(Len(writes) > 1) => handler'[h] = handler[h]
  BY DEF WakeOwner
<1>4. ASSUME NEW h \in Handler, h = Head(writes).owner
      PROVE  \/ handler'[h] = Free
             \/ /\ handler[h].step = "remove" /\ handler'[h].step = "archive"
                /\ handler'[h].cron = handler[h].cron
  <2>1. CASE ok /\ At(h, "remove")
    <3>1. handler[h] \in Activity /\ handler[h].step = "remove"
      BY <1>1, <2>1 DEF At, Free
    <3>2. handler'[h] = [handler[h] EXCEPT !.step = "archive"]
      BY <1>3, <1>4, <2>1 DEF Released
    <3> QED
      BY <3>1, <3>2 DEF Activity
  <2>2. CASE ~(ok /\ At(h, "remove"))
    BY <1>3, <1>4, <2>2 DEF Released
  <2> QED
    BY <2>1, <2>2
<1>5. CASE Len(writes) = 1
  <2>1. writes' = <<>> /\ rec' = rec
    BY <1>5 DEF NextWrite
  <2>2. Len(writes') = 0 /\ ~(Len(writes) > 1)
    BY <1>5, <2>1
  <2>3. \A h \in Handler : h # Head(writes).owner => handler'[h] = handler[h]
    BY <1>3, <2>2
  <2> QED
    BY <1>2, <1>4, <1>5, <2>1, <2>2, <2>3 DEF Drained
<1>6. CASE Len(writes) > 1
  <2> DEFINE w == writes[2]
             rest == Tail(Tail(writes))
  <2>1. w \in Real /\ Written(w)
    BY <1>6, NextWriteType
  <2>2. writes' = <<Begun(w)>> \o rest
    BY <1>1, <1>6, NonEmptyLength, Zenon DEF NextWrite
  <2>3. rest \in Seq(Write) /\ Len(rest) = Len(writes) - 2
        /\ \A i \in 1 .. Len(writes) - 2 : rest[i] = writes[i + 2]
    BY <1>1, <1>6, BehindTheSecond
  <2>4. Begun(w) \in Write
    BY <2>1, BegunType DEF TypeInv
  <2> HIDE DEF rest
  <2>5. Len(writes') = Len(writes) - 1 /\ writes'[1] = Begun(w)
        /\ \A i \in 2 .. Len(writes) - 1 : writes'[i] = writes[i + 1]
    BY <1>2, <2>2, <2>3, <2>4
  <2>6. ASSUME NEW i \in 1 .. Len(writes) - 1
        PROVE  /\ writes'[i].cron = writes[i + 1].cron /\ writes'[i].owner = writes[i + 1].owner
               /\ writes'[i].by = writes[i + 1].by
               /\ writes[i + 1].to # "remove" => writes'[i].to = writes[i + 1].to
               /\ writes[i + 1].to = "remove" => writes'[i].to \in {"remove", "nothing"}
    <3>1. CASE i = 1
      BY <2>1, <2>5, <3>1, BegunIs
    <3>2. CASE i # 1
      BY <1>2, <2>5, <3>2
    <3> QED
      BY <3>1, <3>2
  <2>7. /\ \A c \in Cron : rec'[c] = rec[c] \/ w.cron = c
        /\ rec'[w.cron] = Applied(w.to, rec[w.cron])
        /\ w.to # "nothing"
    BY <2>1, WrittenIs DEF Real
  <2>8. ASSUME NEW h \in Handler, h # Head(writes).owner
        PROVE  /\ handler'[h].step = handler[h].step /\ handler'[h].cron = handler[h].cron
               /\ handler'[h] = handler[h] \/ (w.to = "remove" /\ w.cron = handler[h].cron)
    BY <1>1, <1>3, <1>6, <2>8, FrozenKeeps
  <2> QED
    BY <1>2, <1>4, <1>6, <2>5, <2>6, <2>7, <2>8 DEF Drained
<1> QED
  BY <1>1, <1>5, <1>6, NonEmptyLength

(* At most one slot changes, free or of the cron, whose handler awaits none. *)
Moved(c, hs) ==
  /\ \A h \in Handler :
       \/ hs[h] = handler[h]
       \/ /\ handler[h].step = "free" \/ handler[h].cron = c
          /\ handler[h].step \notin {"save", "remove"}
          /\ hs[h].step = "free" \/ hs[h].cron = c
  /\ \A h, g \in Handler : hs[h] # handler[h] /\ hs[g] # handler[g] => h = g

(* The other crons are left alone. *)
OthersStay(c) ==
  /\ \A d \in Cron : d # c => thread'[d] = thread[d] /\ job'[d] = job[d] /\ excuse'[d] = excuse[d]
  /\ \A d \in Cron : d # c /\ d \in paused' => d \in paused

LEMMA OthersKept ==
  ASSUME TypeInv, NEW c \in Cron, NEW to, NEW by, NEW owner, NEW hs,
         Grown(c, to, by, owner, hs), Moved(c, hs), OthersStay(c),
         NEW d \in Cron, d # c, CronOk(d)
  PROVE  CronOk(d)'
<1>1. /\ Len(writes) \in Nat /\ Len(writes') \in {Len(writes), Len(writes) + 1}
      /\ \A i \in 1 .. Len(writes) : writes'[i] = writes[i]
      /\ \A i \in 1 .. Len(writes') : writes'[i].cron = d => i \in 1 .. Len(writes)
      /\ rec'[d] = rec[d] /\ disk'[d] = disk[d]
  BY DEF Grown
<1>2. /\ thread'[d] = thread[d] /\ job'[d] = job[d] /\ excuse'[d] = excuse[d]
      /\ d \in paused' => d \in paused
  BY DEF OthersStay
<1>3. ASSUME NEW h \in Handler
      PROVE  /\ handler'[h].step # "free" /\ handler'[h].cron = d
                  => handler'[h].step = handler[h].step /\ handler[h].cron = d
             /\ handler[h].step # "free" /\ handler[h].cron = d => handler'[h] = handler[h]
  BY DEF Grown, Moved
<1>4. /\ Calm(d) => Calm(d)'
      /\ ~Busy(d, Deciding) => ~Busy(d, Deciding)'
  BY <1>1, <1>3 DEF Calm, Busy, Pending, CronOf, Steps, Deciding
<1>5. ThreadOk(d)'
  BY <1>1, <1>2, <1>4 DEF CronOk, ThreadOk
<1>6. PendingOk(d)'
  <2> SUFFICES ASSUME NEW i \in 1 .. Len(writes'), writes'[i].cron = d, writes'[i].by = "pause"
               PROVE  /\ writes'[i].to = "off"
                      /\ excuse'[d] # "raced" =>
                           /\ ~Busy(d, Deciding)'
                           /\ job'[d] = "armed" =>
                                \E j \in (i + 1) .. Len(writes') :
                                  writes'[j].cron = d /\ writes'[j].to = "on"
    BY DEF PendingOk
  <2>1. i \in 1 .. Len(writes) /\ writes'[i] = writes[i]
    BY <1>1
  <2>2. /\ writes[i].to = "off"
        /\ excuse[d] # "raced" =>
             /\ ~Busy(d, Deciding)
             /\ job[d] = "armed" =>
                  \E j \in (i + 1) .. Len(writes) : writes[j].cron = d /\ writes[j].to = "on"
    BY <2>1 DEF CronOk, PendingOk
  <2>3. \A j \in (i + 1) .. Len(writes) : j \in (i + 1) .. Len(writes') /\ writes'[j] = writes[j]
    BY <1>1, <2>1
  <2> QED
    BY <1>2, <1>4, <2>1, <2>2, <2>3
<1>7. ASSUME d \in paused' PROVE Paused(d)'
  <2>1. Paused(d)
    BY <1>2, <1>7 DEF CronOk
  <2>2. \A i \in 1 .. Len(writes') : writes'[i].cron = d => writes'[i].to \in {"off", "keep"}
    BY <1>1, <2>1 DEF Paused
  <2>3. \A h, g \in Handler : Decides(h, d)' /\ Decides(g, d)' => h = g
    BY <1>3, <2>1 DEF Paused, Decides, Deciding, Steps
  <2>4. Restoring(d) => Restoring(d)'
    <3> SUFFICES ASSUME Restoring(d) PROVE Restoring(d)'
      OBVIOUS
    <3>1. PICK h \in Handler, i \in 1 .. Len(writes) :
            /\ handler[h].step = "save" /\ handler[h].cron = d /\ handler[h].held = "live"
            /\ writes[i].owner = h
      BY DEF Restoring
    <3>2. handler'[h] = handler[h] /\ i \in 1 .. Len(writes') /\ writes'[i] = writes[i]
      BY <1>1, <1>3, <3>1
    <3> QED
      BY <3>1, <3>2 DEF Restoring
  <2> QED
    BY <1>1, <1>2, <2>1, <2>2, <2>3, <2>4 DEF Paused
<1> QED
  BY <1>5, <1>6, <1>7 DEF CronOk

(* A handler that begins to await a write did not await one before. *)
OwnerBegins(c, to, owner, hs) ==
  to # "none" /\ owner # NoHandler =>
    /\ owner \in Handler /\ hs[owner].step \in {"save", "remove"} /\ hs[owner].cron = c
    /\ handler[owner].step \notin {"save", "remove"}

LEMMA OwnersKept ==
  ASSUME TypeInv, NEW c, NEW to, NEW by, NEW owner, NEW hs,
         Grown(c, to, by, owner, hs), Moved(c, hs), OwnerBegins(c, to, owner, hs), OwnerInv
  PROVE  OwnerInv'
<1>1. /\ Len(writes) \in Nat /\ Len(writes') \in {Len(writes), Len(writes) + 1}
      /\ \A i \in 1 .. Len(writes) : writes'[i] = writes[i]
      /\ Len(writes') = Len(writes) + 1 =>
           /\ to # "none"
           /\ writes'[Len(writes')].cron = c /\ writes'[Len(writes')].owner = owner
  BY DEF Grown
<1>2. \A i \in 1 .. Len(writes) : writes[i].owner \in Handler \cup {NoHandler}
  <2>1. \A i \in 1 .. Len(writes) : writes[i] \in Write
    BY TypeInvParts
  <2> QED
    BY <2>1 DEF Write
<1>3. \A i \in 1 .. Len(writes') : i \in 1 .. Len(writes) \/ i = Len(writes')
  BY <1>1
<1>4. \A h \in Handler : handler[h].step \in {"save", "remove"} =>
        handler'[h].step = handler[h].step /\ handler'[h].cron = handler[h].cron
  BY DEF Grown, Moved
<1>5. \A h \in Handler : handler'[h].step = hs[h].step /\ handler'[h].cron = hs[h].cron
  BY DEF Grown
<1>6. ASSUME NEW i \in 1 .. Len(writes'), writes'[i].owner # NoHandler
      PROVE  /\ handler'[writes'[i].owner].step \in {"save", "remove"}
             /\ handler'[writes'[i].owner].cron = writes'[i].cron
  <2>1. CASE i \in 1 .. Len(writes)
    BY <1>1, <1>2, <1>4, <1>6, <2>1 DEF OwnerInv
  <2>2. CASE i \notin 1 .. Len(writes)
    BY <1>1, <1>3, <1>5, <1>6, <2>2 DEF OwnerBegins
  <2> QED
    BY <2>1, <2>2
<1>7. ASSUME NEW i \in 1 .. Len(writes'), NEW j \in 1 .. Len(writes'),
             writes'[i].owner = writes'[j].owner, writes'[i].owner # NoHandler
      PROVE  i = j
  <2>1. CASE i \in 1 .. Len(writes) /\ j \in 1 .. Len(writes)
    BY <1>1, <1>7, <2>1 DEF OwnerInv
  <2>2. CASE i \in 1 .. Len(writes) /\ j \notin 1 .. Len(writes)
    BY <1>1, <1>3, <1>7, <2>2 DEF OwnerInv, OwnerBegins
  <2>3. CASE j \in 1 .. Len(writes) /\ i \notin 1 .. Len(writes)
    BY <1>1, <1>3, <1>7, <2>3 DEF OwnerInv, OwnerBegins
  <2>4. CASE i \notin 1 .. Len(writes) /\ j \notin 1 .. Len(writes)
    BY <1>3, <2>4
  <2> QED
    BY <2>1, <2>2, <2>3, <2>4
<1> QED
  BY <1>6, <1>7 DEF OwnerInv

LEMMA HeadKept ==
  ASSUME TypeInv, NEW c, NEW to, NEW by, NEW owner, NEW hs,
         Grown(c, to, by, owner, hs), HeadInv
  PROVE  HeadInv'
<1>1. writes \in Seq(Write) /\ writes' \in Seq(Write)
  BY TypeInvParts DEF Grown
<1>2. CASE writes # <<>>
  <2>1. Head(writes') = Head(writes) /\ rec' = rec
    BY <1>1, <1>2 DEF Grown
  <2> QED
    BY <1>2, <2>1 DEF HeadInv
<1>3. CASE writes = <<>>
  <2>1. CASE to = "none"
    BY <1>3, <2>1 DEF Grown, HeadInv
  <2>2. CASE to # "none"
    <3>1. Len(writes) = 0 /\ Head(writes') = writes'[Len(writes) + 1]
      BY <1>1, <1>3, <2>2 DEF Grown
    <3>2. /\ Head(writes').cron = c /\ rec'[c] = Applied(to, rec[c])
          /\ to # "remove" => Head(writes').to = to
          /\ to = "remove" => Head(writes').to \in {"remove", "nothing"}
      BY <1>3, <2>2, <3>1 DEF Grown
    <3> QED
      BY <3>2 DEF Grown, Applied, HeadInv
  <2> QED
    BY <2>1, <2>2
<1> QED
  BY <1>2, <1>3

NoneDecidesAnew(c, hs) ==
  \A h \in Handler : hs[h].step \in Deciding /\ hs[h].cron = c => Decides(h, c)

(* A pause under way stays undisturbed, or is noted as disturbed.            *)
PendingStays(c, to, by, hs) ==
  /\ by = "pause" => to = "off"
  /\ excuse'[c] # "raced" /\ (Pending(c) \/ by = "pause") =>
       \/ by # "pause" /\ excuse[c] # "raced" /\ Busy(c, Deciding)
       \/ /\ ~Busy(c, Deciding) /\ NoneDecidesAnew(c, hs)
          /\ job'[c] = "armed" =>
               to = "on" \/ (by # "pause" /\ job[c] = "armed" /\ excuse[c] # "raced")

LEMMA PendingKept ==
  ASSUME TypeInv, NEW c \in Cron, NEW to, NEW by, NEW owner, NEW hs,
         Grown(c, to, by, owner, hs), by # "pause" \/ to # "none",
         PendingStays(c, to, by, hs), PendingOk(c)
  PROVE  PendingOk(c)'
<1>1. /\ Len(writes) \in Nat /\ Len(writes') \in {Len(writes), Len(writes) + 1}
      /\ \A i \in 1 .. Len(writes) : writes'[i] = writes[i]
      /\ Len(writes') = Len(writes) + 1 =>
           /\ writes'[Len(writes')].cron = c /\ writes'[Len(writes')].by = by
           /\ to # "remove" => writes'[Len(writes')].to = to
      /\ to = "on" => Len(writes') = Len(writes) + 1
  BY DEF Grown
<1>2. \A i \in 1 .. Len(writes') : i \in 1 .. Len(writes) \/ i = Len(writes')
  BY <1>1
<1>3. ~Busy(c, Deciding) /\ NoneDecidesAnew(c, hs) => ~Busy(c, Deciding)'
  BY DEF Grown, NoneDecidesAnew, Busy, Decides, CronOf
<1> SUFFICES ASSUME NEW i \in 1 .. Len(writes'), writes'[i].cron = c, writes'[i].by = "pause"
             PROVE  /\ writes'[i].to = "off"
                    /\ excuse'[c] # "raced" =>
                         /\ ~Busy(c, Deciding)'
                         /\ job'[c] = "armed" =>
                              \E j \in (i + 1) .. Len(writes') :
                                writes'[j].cron = c /\ writes'[j].to = "on"
  BY DEF PendingOk
<1>4. CASE i \in 1 .. Len(writes)
  <2>1. /\ writes'[i] = writes[i]
        /\ writes[i].to = "off"
        /\ excuse[c] # "raced" =>
             /\ ~Busy(c, Deciding)
             /\ job[c] = "armed" =>
                  \E j \in (i + 1) .. Len(writes) : writes[j].cron = c /\ writes[j].to = "on"
    BY <1>1, <1>4 DEF PendingOk
  <2>2. Pending(c)
    BY <1>4, <2>1 DEF Pending
  <2>3. \A j \in (i + 1) .. Len(writes) : j \in (i + 1) .. Len(writes') /\ writes'[j] = writes[j]
    BY <1>1, <1>4
  <2>4. to = "on" =>
          Len(writes') \in (i + 1) .. Len(writes') /\ writes'[Len(writes')].cron = c
            /\ writes'[Len(writes')].to = "on"
    BY <1>1, <1>4
  <2> QED
    BY <1>3, <2>1, <2>2, <2>3, <2>4 DEF PendingStays
<1>5. CASE i \notin 1 .. Len(writes)
  <2>1. i = Len(writes') /\ by = "pause" /\ to = "off" /\ writes'[i].to = "off"
    BY <1>1, <1>2, <1>5 DEF PendingStays
  <2> QED
    BY <1>3, <2>1 DEF PendingStays
<1> QED
  BY <1>4, <1>5

(* An acknowledged pause is kept by the step or revoked.                     *)
PausedStays(c, to, owner, hs) ==
  c \in paused' =>
    /\ c \in paused /\ to \in {"none", "off", "keep"}
    /\ NoneDecidesAnew(c, hs) \/ ~Busy(c, Deciding)
    /\ job'[c] = "armed" =>
         \/ job[c] = "armed"
         \/ /\ to # "none" /\ owner \in Handler
            /\ hs[owner].step = "save" /\ hs[owner].cron = c /\ hs[owner].held = "live"

LEMMA PausedKept ==
  ASSUME TypeInv, NEW c \in Cron, NEW to, NEW by, NEW owner, NEW hs,
         Grown(c, to, by, owner, hs), Moved(c, hs), PausedStays(c, to, owner, hs),
         c \in paused => Paused(c), c \in paused'
  PROVE  Paused(c)'
<1>1. /\ Len(writes) \in Nat /\ Len(writes') \in {Len(writes), Len(writes) + 1}
      /\ \A i \in 1 .. Len(writes) : writes'[i] = writes[i]
      /\ Len(writes') = Len(writes) + 1 => writes'[Len(writes')].to = to
      /\ to # "none" => Len(writes') = Len(writes) + 1 /\ writes'[Len(writes')].owner = owner
      /\ \A h \in Handler : handler'[h] = hs[h]
      /\ disk' = disk
  BY DEF Grown, PausedStays
<1>2. Paused(c) /\ rec'[c] = "off"
  BY DEF PausedStays, Grown, Applied, Paused
<1>3. \A i \in 1 .. Len(writes') : i \in 1 .. Len(writes) \/ (i = Len(writes') /\ to # "none")
  BY <1>1 DEF Grown
<1>4. \A i \in 1 .. Len(writes') : writes'[i].cron = c => writes'[i].to \in {"off", "keep"}
  BY <1>1, <1>2, <1>3 DEF Paused, PausedStays
<1>5. ASSUME NEW h \in Handler, NEW g \in Handler, Decides(h, c)', Decides(g, c)'
      PROVE  h = g
  <2>1. hs[h].step \in Deciding /\ hs[h].cron = c /\ hs[g].step \in Deciding /\ hs[g].cron = c
    BY <1>1, <1>5 DEF Decides
  <2>2. CASE NoneDecidesAnew(c, hs)
    BY <1>2, <2>1, <2>2 DEF NoneDecidesAnew, Paused
  <2>3. CASE ~Busy(c, Deciding)
    <3>1. hs[h] # handler[h] /\ hs[g] # handler[g]
      BY <2>1, <2>3 DEF Busy, CronOf
    <3> QED
      BY <3>1 DEF Moved
  <2> QED
    BY <2>2, <2>3 DEF PausedStays
<1>6. ASSUME job'[c] = "armed" PROVE Restoring(c)'
  <2>1. CASE job[c] = "armed"
    <3>1. PICK h \in Handler, i \in 1 .. Len(writes) :
            /\ handler[h].step = "save" /\ handler[h].cron = c /\ handler[h].held = "live"
            /\ writes[i].owner = h
      BY <1>2, <2>1 DEF Paused, Restoring
    <3>2. handler'[h] = handler[h] /\ i \in 1 .. Len(writes') /\ writes'[i] = writes[i]
      BY <1>1, <3>1 DEF Moved
    <3> QED
      BY <3>1, <3>2 DEF Restoring
  <2>2. CASE job[c] # "armed"
    <3>1. /\ to # "none" /\ owner \in Handler
          /\ hs[owner].step = "save" /\ hs[owner].cron = c /\ hs[owner].held = "live"
      BY <1>6, <2>2 DEF PausedStays
    <3>2. handler'[owner] = hs[owner] /\ Len(writes') \in 1 .. Len(writes')
          /\ writes'[Len(writes')].owner = owner
      BY <1>1, <3>1
    <3> QED
      BY <3>1, <3>2 DEF Restoring
  <2> QED
    BY <2>1, <2>2
<1> QED
  BY <1>1, <1>2, <1>4, <1>5, <1>6 DEF Paused

(* What every step on a cron does, but for the end of a write.               *)
Allowed(c, to, by, owner, hs) ==
  /\ Grown(c, to, by, owner, hs) /\ Moved(c, hs) /\ OthersStay(c)
  /\ OwnerBegins(c, to, owner, hs) /\ (by # "pause" \/ to # "none")
  /\ thread'[c] # "none"
  /\ PendingStays(c, to, by, hs) /\ PausedStays(c, to, owner, hs)

LEMMA AllowedKeeps ==
  ASSUME TypeInv, PauseInv, NEW c \in Cron, NEW to, NEW by, NEW owner, NEW hs,
         Allowed(c, to, by, owner, hs)
  PROVE  PauseInv'
<1>1. OwnerInv' /\ HeadInv'
  BY OwnersKept, HeadKept DEF Allowed, PauseInv
<1>2. \A d \in Cron : d # c => CronOk(d)'
  BY OthersKept DEF Allowed, PauseInv
<1>3. ThreadOk(c)'
  BY DEF Allowed, ThreadOk
<1>4. PendingOk(c)'
  BY PendingKept DEF Allowed, PauseInv, CronOk
<1>5. c \in paused' => Paused(c)'
  BY PausedKept DEF Allowed, PauseInv, CronOk
<1> QED
  BY <1>1, <1>2, <1>3, <1>4, <1>5 DEF PauseInv, CronOk

-----------------------------------------------------------------------------
(* The slots of the steps. *)
LEMMA StillMoves ==
  ASSUME NEW c, NEW to
  PROVE  /\ Moved(c, handler) /\ NoneDecidesAnew(c, handler)
         /\ OwnerBegins(c, to, NoHandler, handler)
BY DEF Moved, NoneDecidesAnew, Decides, OwnerBegins

LEMMA SlotMoves ==
  ASSUME TypeInv, NEW c \in Cron, NEW h \in Handler, NEW a \in Activity \cup {Free},
         handler[h].step = "free" \/ handler[h].cron = c, handler[h].step \notin {"save", "remove"},
         a = Free \/ a.cron = c
  PROVE  /\ Moved(c, [handler EXCEPT ![h] = a])
         /\ [handler EXCEPT ![h] = a] \in [Handler -> Activity \cup {Free}]
         /\ handler[h].step \in Deciding \/ a.step \notin Deciding
              => NoneDecidesAnew(c, [handler EXCEPT ![h] = a])
<1> DEFINE hs == [handler EXCEPT ![h] = a]
<1>1. handler \in [Handler -> Activity \cup {Free}]
  BY TypeInvParts
<1>2. hs[h] = a /\ \A g \in Handler : g # h => hs[g] = handler[g]
  BY <1>1
<1>3. hs \in [Handler -> Activity \cup {Free}]
  BY <1>1
<1> HIDE DEF hs
<1>4. Moved(c, hs)
  BY <1>2 DEF Moved, Free
<1>5. handler[h].step \in Deciding \/ a.step \notin Deciding => NoneDecidesAnew(c, hs)
  BY <1>2 DEF NoneDecidesAnew, Decides, Deciding, Steps, Free
<1> QED
  BY <1>3, <1>4, <1>5 DEF hs

(* A handler at a step takes one of the free slots. *)
Takes(c, step, hs) ==
  \E h \in Handler :
    /\ handler[h].step = "free" /\ hs[h].step = step /\ hs[h].cron = c
    /\ \A g \in Handler : g # h => hs[g] = handler[g]

LEMMA StartMoves ==
  ASSUME TypeInv, NEW c \in Cron, NEW step \in Steps, step # "save", Start(c, step)
  PROVE  \E hs : /\ handler' = hs /\ Moved(c, hs) /\ Takes(c, step, hs)
                 /\ step = "post" => NoneDecidesAnew(c, hs)
<1>1. PICK h \in Handler :
        /\ At(h, "free")
        /\ handler' = [handler EXCEPT ![h] = [step |-> step, cron |-> c, held |-> "none"]]
  BY DEF Start
<1> DEFINE a == [step |-> step, cron |-> c, held |-> "none"]
<1>2. a \in Activity /\ a.cron = c /\ a.step = step
  BY DEF Activity
<1>3. handler' = [handler EXCEPT ![h] = a] /\ handler \in [Handler -> Activity \cup {Free}]
  BY <1>1, TypeInvParts
<1> HIDE DEF a
<1> DEFINE hs == [handler EXCEPT ![h] = a]
<1>4. Takes(c, step, hs)
  BY <1>1, <1>2, <1>3 DEF Takes, At
<1>5. Moved(c, hs) /\ (step = "post" => NoneDecidesAnew(c, hs))
  BY <1>1, <1>2, SlotMoves DEF At, Deciding
<1>6. handler' = hs
  BY <1>3
<1> HIDE DEF hs
<1> QED
  BY <1>4, <1>5, <1>6

LEMMA CalmIs ==
  ASSUME NEW c, Calm(c)
  PROVE  ~Busy(c, Deciding) /\ ~Pending(c) /\ ~Restoring(c)
BY DEF Calm, Busy, Deciding, Steps, Restoring, CronOf

(* What the history variables say after a step. *)
LEMMA NoteIs ==
  ASSUME TypeInv, NEW c \in Cron, NEW raced, NEW revoked, Note(c, raced, revoked)
  PROVE  /\ \A d \in Cron : d # c => excuse'[d] = excuse[d]
         /\ \A d : d \in paused' => d \in paused
         /\ excuse'[c] # "raced" => ~raced /\ excuse'[c] = excuse[c]
         /\ c \in paused' => ~raced /\ ~revoked
<1>1. excuse \in [Cron -> {"none", "refused", "raced"}]
  BY TypeInvParts DEF Rest
<1> QED
  BY <1>1 DEF Note

LEMMA NoteSwitchIs ==
  ASSUME TypeInv, NEW c \in Cron, NEW revoked, NoteSwitch(c, revoked)
  PROVE  /\ \A d \in Cron : d # c => excuse'[d] = excuse[d]
         /\ \A d : d \in paused' => d \in paused
         /\ excuse'[c] # "raced" => ~Busy(c, Deciding)
         /\ excuse'[c] # "raced" =>
              excuse'[c] = excuse[c] \/ (Calm(c) /\ thread[c] # "gone")
         /\ c \in paused' => ~revoked
<1>1. excuse \in [Cron -> {"none", "refused", "raced"}]
  BY TypeInvParts DEF Rest
<1>2. CASE Busy(c, Deciding)
  <2>1. excuse' = [excuse EXCEPT ![c] = "raced"] /\ paused' = paused \ {c}
    BY <1>2, CalmIs DEF NoteSwitch
  <2>2. excuse'[c] = "raced" /\ \A d \in Cron : d # c => excuse'[d] = excuse[d]
    BY <1>1, <2>1
  <2> QED
    BY <2>1, <2>2
<1>3. CASE ~Busy(c, Deciding)
  <2>1. excuse' = IF Calm(c) /\ thread[c] # "gone" THEN [excuse EXCEPT ![c] = "none"] ELSE excuse
    BY <1>3 DEF NoteSwitch
  <2>2. paused' = IF revoked THEN paused \ {c} ELSE paused
    BY <1>3 DEF NoteSwitch
  <2> QED
    BY <1>1, <1>3, <2>1, <2>2
<1> QED
  BY <1>2, <1>3

LEMMA JobType == TypeInv => job \in [Cron -> {"none", "armed", "stopped"}]
  BY TypeInvParts DEF Rest

LEMMA StoppedIs ==
  ASSUME TypeInv, NEW c \in Cron, job' = Stopped(c)
  PROVE  job'[c] # "armed" /\ \A d \in Cron : d # c => job'[d] = job[d]
BY JobType DEF Stopped

LEMMA KnownThread ==
  ASSUME NEW c \in Cron, PauseInv, rec[c] # "none" \/ Busy(c, Steps)
  PROVE  thread[c] # "none"
BY DEF PauseInv, CronOk, ThreadOk, Calm

-----------------------------------------------------------------------------
(* The actions on crons keep the invariant. *)
LEMMA CommandAllowed ==
  ASSUME TypeInv, PauseInv, NEW c \in Cron
  PROVE  /\ Create(c) => Allowed(c, "keep", "other", NoHandler, handler)
         /\ Pause(c) => Allowed(c, "off", "pause", NoHandler, handler)
         /\ Resume(c) => Allowed(c, "on", "other", NoHandler, handler)
         /\ UpdateSettings(c) => Allowed(c, "keep", "other", NoHandler, handler)
         /\ Update(c) => \E hs : Allowed(c, "none", "other", NoHandler, hs) /\ Takes(c, "edit", hs)
         /\ Post(c) => \E hs : Allowed(c, "none", "other", NoHandler, hs) /\ Takes(c, "post", hs)
         /\ Delete(c) => \E h, hs : Allowed(c, "remove", "other", h, hs) /\ Takes(c, "remove", hs)
<1>1. handler \in [Handler -> Activity \cup {Free}] /\ HeldIn(handler, rec)
      /\ rec \in [Cron -> {"none", "on", "off"}]
  BY TypeInvParts
<1>2. \A to \in {"on", "off", "keep", "remove"}, by \in {"pause", "other"} :
        Enqueue(WriteOf(c, to, by, NoHandler), handler) => Grown(c, to, by, NoHandler, handler)
  BY <1>1, EnqueueGrows
<1>3. thread \in [Cron -> {"none", "open", "archived", "gone"}]
  BY TypeInvParts DEF Rest
<1>4. ASSUME Create(c) PROVE Allowed(c, "keep", "other", NoHandler, handler)
  <2>1. Grown(c, "keep", "other", NoHandler, handler)
    BY <1>2, <1>4 DEF Create
  <2>2. OthersStay(c) /\ thread'[c] # "none"
    BY <1>3, <1>4, JobType DEF Create, OthersStay
  <2>3. Calm(c) /\ c \notin paused
    BY <1>4 DEF Create, PauseInv, CronOk, ThreadOk, Paused
  <2>4. PendingStays(c, "keep", "other", handler) /\ PausedStays(c, "keep", NoHandler, handler)
    BY <1>4, <2>3, CalmIs DEF Create, PendingStays, PausedStays
  <2> QED
    BY <2>1, <2>2, <2>4, StillMoves DEF Allowed
<1>5. ASSUME Pause(c) PROVE Allowed(c, "off", "pause", NoHandler, handler)
  <2>1. Grown(c, "off", "pause", NoHandler, handler)
    BY <1>2, <1>5 DEF Pause
  <2>2. /\ \A d \in Cron : d # c => excuse'[d] = excuse[d]
        /\ \A d : d \in paused' => d \in paused
        /\ excuse'[c] # "raced" => ~Busy(c, Deciding)
    BY <1>5, NoteSwitchIs DEF Pause
  <2>3. job'[c] # "armed" /\ \A d \in Cron : d # c => job'[d] = job[d]
    BY <1>5, StoppedIs DEF Pause
  <2>4. OthersStay(c) /\ thread'[c] # "none"
    BY <1>5, <2>2, <2>3, KnownThread DEF Pause, Known, OthersStay
  <2>5. PendingStays(c, "off", "pause", handler)
    BY <2>2, <2>3, StillMoves DEF PendingStays
  <2>6. PausedStays(c, "off", NoHandler, handler)
    BY <2>2, <2>3, StillMoves DEF PausedStays
  <2> QED
    BY <2>1, <2>4, <2>5, <2>6, StillMoves DEF Allowed
<1>6. ASSUME Resume(c) PROVE Allowed(c, "on", "other", NoHandler, handler)
  <2>1. Grown(c, "on", "other", NoHandler, handler)
    BY <1>2, <1>6 DEF Resume
  <2>2. /\ \A d \in Cron : d # c => excuse'[d] = excuse[d]
        /\ \A d : d \in paused' => d \in paused
        /\ excuse'[c] # "raced" => ~Busy(c, Deciding)
        /\ c \notin paused'
    BY <1>6, NoteSwitchIs DEF Resume
  <2>3. OthersStay(c) /\ thread'[c] # "none"
    BY <1>6, <2>2, JobType, KnownThread DEF Resume, Known, OthersStay
  <2>4. PendingStays(c, "on", "other", handler)
    BY <2>2, StillMoves DEF PendingStays
  <2>5. PausedStays(c, "on", NoHandler, handler)
    BY <2>2 DEF PausedStays
  <2> QED
    BY <2>1, <2>3, <2>4, <2>5, StillMoves DEF Allowed
<1>7. ASSUME UpdateSettings(c) PROVE Allowed(c, "keep", "other", NoHandler, handler)
  <2>1. Grown(c, "keep", "other", NoHandler, handler)
    BY <1>2, <1>7 DEF UpdateSettings
  <2>2. OthersStay(c) /\ thread'[c] # "none"
    BY <1>7, KnownThread DEF UpdateSettings, Known, OthersStay
  <2>3. PendingStays(c, "keep", "other", handler) /\ PausedStays(c, "keep", NoHandler, handler)
    BY <1>7, StillMoves DEF UpdateSettings, PendingStays, PausedStays
  <2> QED
    BY <2>1, <2>2, <2>3, StillMoves DEF Allowed
<1>8. ASSUME Update(c)
      PROVE  \E hs : Allowed(c, "none", "other", NoHandler, hs) /\ Takes(c, "edit", hs)
  <2>1. PICK hs : handler' = hs /\ Moved(c, hs) /\ Takes(c, "edit", hs)
    BY <1>8, StartMoves DEF Update, Steps
  <2>2. Grown(c, "none", "other", NoHandler, hs)
    BY <1>8, <2>1, PlainGrows DEF Update
  <2>3. /\ \A d \in Cron : d # c => excuse'[d] = excuse[d]
        /\ \A d : d \in paused' => d \in paused
        /\ excuse'[c] # "raced" => Calm(c)
        /\ c \in paused' => Calm(c)
    BY <1>8, NoteIs DEF Update
  <2>4. OthersStay(c) /\ thread'[c] # "none" /\ job' = job
    BY <1>8, <2>3, KnownThread DEF Update, Known, OthersStay
  <2>5. PendingStays(c, "none", "other", hs)
    BY <2>3, CalmIs DEF PendingStays
  <2>6. PausedStays(c, "none", NoHandler, hs)
    BY <2>3, <2>4, CalmIs DEF PausedStays
  <2> QED
    BY <2>1, <2>2, <2>4, <2>5, <2>6 DEF Allowed, OwnerBegins
<1>9. ASSUME Post(c)
      PROVE  \E hs : Allowed(c, "none", "other", NoHandler, hs) /\ Takes(c, "post", hs)
  <2>1. PICK hs : /\ handler' = hs /\ Moved(c, hs) /\ NoneDecidesAnew(c, hs)
                  /\ Takes(c, "post", hs)
    BY <1>9, StartMoves DEF Post, Steps
  <2>2. Grown(c, "none", "other", NoHandler, hs)
    BY <1>9, <2>1, PlainGrows DEF Post
  <2>3. /\ \A d \in Cron : d # c => excuse'[d] = excuse[d]
        /\ \A d : d \in paused' => d \in paused
        /\ excuse'[c] # "raced" => ~Pending(c)
    BY <1>9, NoteIs DEF Post
  <2>4. OthersStay(c) /\ thread'[c] # "none" /\ job' = job
    BY <1>9, <2>3, KnownThread DEF Post, OthersStay
  <2>5. PendingStays(c, "none", "other", hs)
    BY <2>3 DEF PendingStays
  <2>6. PausedStays(c, "none", NoHandler, hs)
    BY <2>1, <2>3, <2>4 DEF PausedStays
  <2> QED
    BY <2>1, <2>2, <2>4, <2>5, <2>6 DEF Allowed, OwnerBegins
<1>10. ASSUME Delete(c)
       PROVE  \E h, hs : Allowed(c, "remove", "other", h, hs) /\ Takes(c, "remove", hs)
  <2> DEFINE a == [step |-> "remove", cron |-> c, held |-> "none"]
  <2>1. PICK h \in Handler :
          At(h, "free") /\ Enqueue(WriteOf(c, "remove", "other", h), [handler EXCEPT ![h] = a])
    BY <1>10 DEF Delete
  <2>2. a \in Activity /\ a.cron = c /\ a.step = "remove"
    BY DEF Activity, Steps
  <2> DEFINE hs == [handler EXCEPT ![h] = a]
  <2>3. hs[h] = a /\ \A g \in Handler : g # h => hs[g] = handler[g]
    BY <1>1
  <2>4. Enqueue(WriteOf(c, "remove", "other", h), hs)
    BY <2>1
  <2> HIDE DEF a
  <2>5. Moved(c, hs) /\ hs \in [Handler -> Activity \cup {Free}] /\ HeldIn(hs, rec)
    BY <2>1, <2>2, SlotMoves, SlotType DEF At
  <2>6. Grown(c, "remove", "other", h, hs)
    BY <2>4, <2>5, EnqueueGrows
  <2>7. OwnerBegins(c, "remove", h, hs) /\ Takes(c, "remove", hs)
    BY <2>1, <2>2, <2>3 DEF OwnerBegins, Takes, At
  <2>8. /\ \A d \in Cron : d # c => excuse'[d] = excuse[d]
        /\ \A d : d \in paused' => d \in paused
        /\ excuse'[c] # "raced" => Calm(c)
        /\ c \notin paused'
    BY <1>10, NoteIs DEF Delete
  <2>9. OthersStay(c) /\ thread'[c] # "none"
    BY <1>10, <2>8, JobType, KnownThread DEF Delete, OthersStay
  <2> HIDE DEF hs
  <2>10. PendingStays(c, "remove", "other", hs) /\ PausedStays(c, "remove", h, hs)
    BY <2>8, CalmIs DEF PendingStays, PausedStays
  <2> QED
    BY <2>5, <2>6, <2>7, <2>9, <2>10 DEF Allowed
<1> QED
  BY <1>4, <1>5, <1>6, <1>7, <1>8, <1>9, <1>10

LEMMA CommandPause ==
  ASSUME TypeInv, PauseInv, NEW c \in Cron, Command(c)
  PROVE  PauseInv'
BY CommandAllowed, AllowedKeeps DEF Command

(* The events of the forum keep it. *)
LEMMA ArchivedGrows ==
  ASSUME TypeInv, NEW c \in Cron, NEW hs \in [Handler -> Activity \cup {Free}], HeldIn(hs, rec),
         Archived(c, hs)
  PROVE  Grown(c, IF rec[c] = "none" THEN "none" ELSE "off", "other", NoHandler, hs)
<1>1. CASE rec[c] = "none"
  BY <1>1, PlainGrows DEF Archived
<1>2. CASE rec[c] # "none"
  BY <1>2, EnqueueGrows DEF Archived
<1> QED
  BY <1>1, <1>2

LEMMA EventAllowed ==
  ASSUME TypeInv, PauseInv, NEW c \in Cron
  PROVE  /\ Archive(c) => \E to : /\ to = (IF rec[c] = "none" THEN "none" ELSE "off")
                                  /\ Allowed(c, to, "other", NoHandler, handler)
         /\ Unarchive(c) \/ Reload(c)
              => \E hs : Allowed(c, "none", "other", NoHandler, hs) /\ Takes(c, "parse", hs)
         /\ ThreadDelete(c) => Allowed(c, "remove", "other", NoHandler, handler)
<1>1. handler \in [Handler -> Activity \cup {Free}] /\ HeldIn(handler, rec)
  BY TypeInvParts
<1>2. /\ thread \in [Cron -> {"none", "open", "archived", "gone"}]
      /\ excuse \in [Cron -> {"none", "refused", "raced"}]
  BY TypeInvParts DEF Rest
<1>3. ASSUME Archive(c)
      PROVE  \E to : /\ to = (IF rec[c] = "none" THEN "none" ELSE "off")
                     /\ Allowed(c, to, "other", NoHandler, handler)
  <2>1. PICK to : /\ to = (IF rec[c] = "none" THEN "none" ELSE "off")
                  /\ Grown(c, to, "other", NoHandler, handler)
    BY <1>1, <1>3, ArchivedGrows DEF Archive
  <2>2. /\ \A d \in Cron : d # c => excuse'[d] = excuse[d]
        /\ \A d : d \in paused' => d \in paused
        /\ excuse'[c] # "raced" => ~Busy(c, Deciding)
    BY <1>3, NoteIs DEF Archive
  <2>3. job'[c] # "armed" /\ \A d \in Cron : d # c => job'[d] = job[d]
    BY <1>3, StoppedIs DEF Archive, Archived
  <2>4. OthersStay(c) /\ thread'[c] # "none"
    BY <1>2, <1>3, <2>2, <2>3 DEF Archive, Archived, OthersStay
  <2>5. PendingStays(c, to, "other", handler) /\ PausedStays(c, to, NoHandler, handler)
    BY <2>1, <2>2, <2>3, StillMoves DEF PendingStays, PausedStays
  <2> QED
    BY <2>1, <2>4, <2>5, StillMoves DEF Allowed
<1>4. ASSUME Unarchive(c) \/ Reload(c)
      PROVE  \E hs : Allowed(c, "none", "other", NoHandler, hs) /\ Takes(c, "parse", hs)
  <2>1. PICK hs : handler' = hs /\ Moved(c, hs) /\ Takes(c, "parse", hs)
    BY <1>4, StartMoves DEF Unarchive, Reload, Steps
  <2>2. Grown(c, "none", "other", NoHandler, hs)
    BY <1>4, <2>1, PlainGrows DEF Unarchive, Reload
  <2>3. /\ \A d \in Cron : d # c => excuse'[d] = excuse[d]
        /\ \A d : d \in paused' => d \in paused
        /\ excuse'[c] # "raced" => Calm(c)
        /\ c \in paused' => Calm(c)
    <3>1. CASE Reload(c)
      BY <3>1, NoteIs DEF Reload
    <3>2. CASE Unarchive(c)
      BY <1>2, <3>2 DEF Unarchive
    <3> QED
      BY <1>4, <3>1, <3>2
  <2>4. OthersStay(c) /\ thread'[c] # "none" /\ job' = job
    BY <1>2, <1>4, <2>3 DEF Unarchive, Reload, OthersStay
  <2>5. PendingStays(c, "none", "other", hs)
    BY <2>3, CalmIs DEF PendingStays
  <2>6. PausedStays(c, "none", NoHandler, hs)
    BY <2>3, <2>4, CalmIs DEF PausedStays
  <2> QED
    BY <2>1, <2>2, <2>4, <2>5, <2>6 DEF Allowed, OwnerBegins
<1>5. ASSUME ThreadDelete(c) PROVE Allowed(c, "remove", "other", NoHandler, handler)
  <2>1. Grown(c, "remove", "other", NoHandler, handler)
    BY <1>1, <1>5, EnqueueGrows DEF ThreadDelete
  <2>2. /\ \A d \in Cron : d # c => excuse'[d] = excuse[d]
        /\ \A d : d \in paused' => d \in paused
        /\ excuse'[c] # "raced" => Calm(c)
        /\ c \notin paused'
    BY <1>5, NoteIs DEF ThreadDelete
  <2>3. OthersStay(c) /\ thread'[c] # "none"
    BY <1>2, <1>5, <2>2, JobType DEF ThreadDelete, OthersStay
  <2>4. /\ PendingStays(c, "remove", "other", handler)
        /\ PausedStays(c, "remove", NoHandler, handler)
    BY <2>2, CalmIs DEF PendingStays, PausedStays
  <2> QED
    BY <2>1, <2>3, <2>4, StillMoves DEF Allowed
<1> QED
  BY <1>3, <1>4, <1>5

LEMMA EventPause ==
  ASSUME TypeInv, PauseInv, NEW c \in Cron, Event(c)
  PROVE  PauseInv'
BY EventAllowed, AllowedKeeps DEF Event

(* The continuations of the handlers keep it: while one of them decides, a   *)
(* pause that is under way is either noted as disturbed or impossible.       *)
Frees(h, hs) == hs[h] = Free /\ \A g \in Handler : g # h => hs[g] = handler[g]

LEMMA HandlerStepAllowed ==
  ASSUME TypeInv, PauseInv, NEW h \in Handler, HandlerStep(h),
         NEW c, c = CronOf(h)
  PROVE  /\ c \in Cron /\ handler[h].cron = c
         /\ Reregister(h) => \E hs : Allowed(c, "keep", "other", NoHandler, hs) /\ Frees(h, hs)
         /\ Posted(h) => \E hs : \E to \in {"none", "keep"} :
                           Allowed(c, to, "other", NoHandler, hs) /\ Frees(h, hs)
         /\ ArchiveDeleted(h) =>
              \E hs : \E to \in {"none", "off"} :
                /\ Allowed(c, to, "other", NoHandler, hs) /\ Frees(h, hs)
                /\ to = "off" => rec[c] # "none"
         /\ Refuse(h) => \E hs : Allowed(c, "none", "other", NoHandler, hs) /\ Frees(h, hs)
         /\ Load(h) =>
              \E hs : /\ Allowed(c, LoadedState(c), "other", h, hs)
                      /\ \A g \in Handler : g # h => hs[g] = handler[g]
                      /\ hs[h].step = "save" /\ hs[h].cron = c
                      /\ hs[h].held = IF rec[c] = "none" THEN "none" ELSE "live"
<1> DEFINE freed == [handler EXCEPT ![h] = Free]
<1>1. handler \in [Handler -> Activity \cup {Free}] /\ rec \in [Cron -> {"none", "on", "off"}]
      /\ excuse \in [Cron -> {"none", "refused", "raced"}]
  BY TypeInvParts DEF Rest
<1>2. handler[h].step \in Steps \ {"save", "remove"}
  BY DEF HandlerStep, Reregister, Posted, ArchiveDeleted, Refuse, Load, At, Steps
<1>3. c \in Cron /\ handler[h].cron = c
  <2>1. handler[h] \in Activity
    BY <1>1, <1>2 DEF Free, Steps
  <2> QED
    BY <2>1 DEF CronOf, Activity
<1>4. thread[c] # "none"
  BY <1>2, <1>3, KnownThread DEF Busy
<1>5. handler[h].step \in Deciding => Busy(c, Deciding)
  BY <1>3 DEF Busy
<1>6. Moved(c, freed) /\ freed \in [Handler -> Activity \cup {Free}] /\ HeldIn(freed, rec)
      /\ NoneDecidesAnew(c, freed) /\ OwnerBegins(c, "none", NoHandler, freed)
      /\ \A to : OwnerBegins(c, to, NoHandler, freed)
      /\ Frees(h, freed)
  BY <1>1, <1>2, <1>3, SlotMoves, SlotType DEF Free, Deciding, Steps, OwnerBegins, Frees
<1> HIDE DEF freed
<1>7. ASSUME Reregister(h)
      PROVE  \E hs : Allowed(c, "keep", "other", NoHandler, hs) /\ Frees(h, hs)
  <2>1. Grown(c, "keep", "other", NoHandler, freed)
    BY <1>3, <1>6, <1>7, EnqueueGrows DEF Reregister, freed
  <2>2. /\ \A d \in Cron : d # c => excuse'[d] = excuse[d]
        /\ \A d : d \in paused' => d \in paused
        /\ excuse'[c] # "raced" => excuse[c] # "raced"
        /\ c \in paused' => job[c] = "armed"
    <3>1. Note(c, job[c] # "armed", FALSE)
      BY <1>7 DEF Reregister
    <3> QED
      BY <1>3, <3>1, NoteIs
  <2>3. OthersStay(c) /\ thread'[c] # "none"
    BY <1>3, <1>4, <1>7, <2>2, JobType DEF Reregister, OthersStay
  <2>4. Busy(c, Deciding)
    BY <1>5, <1>7 DEF Reregister, At, Deciding, Steps
  <2>5. PendingStays(c, "keep", "other", freed) /\ PausedStays(c, "keep", NoHandler, freed)
    BY <1>6, <2>2, <2>4 DEF PendingStays, PausedStays
  <2> QED
    BY <1>3, <1>6, <2>1, <2>3, <2>5 DEF Allowed
<1>8. ASSUME Posted(h)
      PROVE  \E hs : \E to \in {"none", "keep"} :
               Allowed(c, to, "other", NoHandler, hs) /\ Frees(h, hs)
  <2>1. PICK to \in {"none", "keep"} : Grown(c, to, "other", NoHandler, freed)
    <3>1. CASE handler' = freed /\ UNCHANGED store
      BY <3>1, PlainGrows
    <3>2. CASE Enqueue(WriteOf(c, "keep", "other", NoHandler), freed)
      BY <1>3, <1>6, <3>2, EnqueueGrows
    <3> QED
      BY <1>8, <3>1, <3>2 DEF Posted, freed
  <2>2. OthersStay(c) /\ thread'[c] # "none"
    BY <1>4, <1>8 DEF Posted, OthersStay
  <2>3. PendingStays(c, to, "other", freed) /\ PausedStays(c, to, NoHandler, freed)
    BY <1>6, <1>8 DEF Posted, PendingStays, PausedStays
  <2> QED
    BY <1>3, <1>6, <2>1, <2>2, <2>3 DEF Allowed
<1>9. ASSUME ArchiveDeleted(h)
      PROVE  \E hs : \E to \in {"none", "off"} :
               /\ Allowed(c, to, "other", NoHandler, hs) /\ Frees(h, hs)
               /\ to = "off" => rec[c] # "none"
  <2>1. Busy(c, Deciding) /\ excuse' = excuse /\ paused' = paused
    BY <1>5, <1>9 DEF ArchiveDeleted, At, Deciding, Steps
  <2>2. CASE Archived(c, freed)
    <3>1. PICK to \in {"none", "off"} : /\ Grown(c, to, "other", NoHandler, freed)
                                        /\ to = "off" => rec[c] # "none"
      BY <1>3, <1>6, <2>2, ArchivedGrows
    <3>2. job'[c] # "armed" /\ \A d \in Cron : d # c => job'[d] = job[d]
      BY <1>3, <2>2, StoppedIs DEF Archived
    <3>3. thread \in [Cron -> {"none", "open", "archived", "gone"}]
      BY TypeInvParts DEF Rest
    <3>4. OthersStay(c) /\ thread'[c] # "none"
      BY <1>3, <2>1, <2>2, <3>2, <3>3 DEF Archived, OthersStay
    <3>5. PendingStays(c, to, "other", freed) /\ PausedStays(c, to, NoHandler, freed)
      BY <1>6, <2>1, <3>2 DEF PendingStays, PausedStays
    <3> QED
      BY <1>3, <1>6, <3>1, <3>4, <3>5 DEF Allowed
  <2>3. CASE handler' = freed /\ UNCHANGED <<thread, job, store>>
    <3>1. Grown(c, "none", "other", NoHandler, freed)
      BY <2>3, PlainGrows
    <3>2. OthersStay(c) /\ thread'[c] # "none"
      BY <1>4, <2>1, <2>3 DEF OthersStay
    <3>3. PendingStays(c, "none", "other", freed) /\ PausedStays(c, "none", NoHandler, freed)
      BY <1>6, <2>1, <2>3 DEF PendingStays, PausedStays
    <3> QED
      BY <1>3, <1>6, <3>1, <3>2, <3>3 DEF Allowed
  <2> QED
    BY <1>9, <2>2, <2>3 DEF ArchiveDeleted, freed
<1>10. ASSUME Refuse(h)
       PROVE  \E hs : Allowed(c, "none", "other", NoHandler, hs) /\ Frees(h, hs)
  <2>1. Grown(c, "none", "other", NoHandler, freed)
    BY <1>10, PlainGrows DEF Refuse, freed
  <2>2. /\ job'[c] = "armed" => job[c] = "armed"
        /\ \A d \in Cron : d # c => job'[d] = job[d]
    BY <1>3, <1>10, StoppedIs DEF Refuse
  <2>3. /\ \A d \in Cron : d # c => excuse'[d] = excuse[d]
        /\ excuse'[c] # "raced" => excuse[c] # "raced"
    BY <1>1, <1>3, <1>10 DEF Refuse
  <2>4. OthersStay(c) /\ thread'[c] # "none" /\ paused' = paused
    BY <1>4, <1>10, <2>2, <2>3 DEF Refuse, OthersStay
  <2>5. Busy(c, Deciding)
    BY <1>5, <1>10 DEF Refuse, At, Deciding, Steps
  <2>6. PendingStays(c, "none", "other", freed) /\ PausedStays(c, "none", NoHandler, freed)
    BY <1>6, <2>2, <2>3, <2>4, <2>5 DEF PendingStays, PausedStays
  <2> QED
    BY <1>3, <1>6, <2>1, <2>4, <2>6 DEF Allowed
<1>11. ASSUME Load(h)
       PROVE  \E hs : /\ Allowed(c, LoadedState(c), "other", h, hs)
                      /\ \A g \in Handler : g # h => hs[g] = handler[g]
                      /\ hs[h].step = "save" /\ hs[h].cron = c
                      /\ hs[h].held = IF rec[c] = "none" THEN "none" ELSE "live"
  <2> DEFINE held == IF rec[c] = "none" THEN "none" ELSE "live"
             a == [step |-> "save", cron |-> c, held |-> held]
             hs == [handler EXCEPT ![h] = a]
             to == LoadedState(c)
  <2>1. /\ a \in Activity /\ a.cron = c /\ a.step = "save"
        /\ a.held = held
    BY <1>3 DEF Activity, Steps
  <2>2. Enqueue(WriteOf(c, to, "other", h), hs)
    BY <1>11 DEF Load
  <2> HIDE DEF a
  <2>3. handler[h].step = "parse" /\ Busy(c, Deciding)
    BY <1>5, <1>11 DEF Load, At, Deciding, Steps
  <2>4. /\ Moved(c, hs) /\ hs \in [Handler -> Activity \cup {Free}] /\ HeldIn(hs, rec)
        /\ NoneDecidesAnew(c, hs) /\ hs[h] = a
        /\ \A g \in Handler : g # h => hs[g] = handler[g]
    BY <1>1, <1>2, <1>3, <2>1, <2>3, SlotMoves, SlotType DEF Deciding, Steps
  <2> HIDE DEF hs
  <2>5. to \in {"on", "off"} /\ (rec[c] = "off" => to = "off")
    BY DEF LoadedState
  <2> HIDE DEF to
  <2>6. Grown(c, to, "other", h, hs)
    BY <1>3, <2>2, <2>4, <2>5, EnqueueGrows
  <2>7. OwnerBegins(c, to, h, hs)
    BY <2>1, <2>3, <2>4 DEF OwnerBegins
  <2>8. /\ \A d \in Cron : d # c => excuse'[d] = excuse[d]
        /\ excuse'[c] # "raced" => excuse[c] # "raced"
    BY <1>1, <1>3, <1>11 DEF Load
  <2>9. OthersStay(c) /\ thread'[c] # "none" /\ paused' = paused
    BY <1>3, <1>4, <1>11, <2>8, JobType DEF Load, OthersStay
  <2>10. PendingStays(c, to, "other", hs)
    BY <2>3, <2>8 DEF PendingStays
  <2>11. c \in paused => rec[c] = "off"
    BY <1>3 DEF PauseInv, CronOk, Paused
  <2>12. PausedStays(c, to, h, hs)
    BY <2>1, <2>4, <2>5, <2>9, <2>11 DEF PausedStays
  <2>13. Allowed(c, to, "other", h, hs)
    BY <1>3, <2>4, <2>6, <2>7, <2>9, <2>10, <2>12 DEF Allowed
  <2> QED
    BY <2>1, <2>4, <2>13 DEF to
<1> QED
  BY <1>3, <1>7, <1>8, <1>9, <1>10, <1>11

LEMMA HandlerStepPause ==
  ASSUME TypeInv, PauseInv, NEW h \in Handler, HandlerStep(h)
  PROVE  PauseInv'
BY HandlerStepAllowed, AllowedKeeps DEF HandlerStep

-----------------------------------------------------------------------------
(* The end of a write. *)
LEMMA DrainedOwners ==
  ASSUME TypeInv, OwnerInv, Drained
  PROVE  /\ OwnerInv'
         /\ \A i \in 2 .. Len(writes) :
              writes[i].owner # NoHandler => writes[i].owner # Head(writes).owner
<1>1. /\ Len(writes) \in Nat /\ Len(writes) >= 1 /\ Head(writes) = writes[1]
      /\ Len(writes') = Len(writes) - 1
      /\ \A i \in 1 .. Len(writes) - 1 :
           writes'[i].cron = writes[i + 1].cron /\ writes'[i].owner = writes[i + 1].owner
      /\ \A h \in Handler : h # Head(writes).owner =>
           handler'[h].step = handler[h].step /\ handler'[h].cron = handler[h].cron
  BY DEF Drained
<1>2. \A i \in 1 .. Len(writes) : writes[i].owner \in Handler \cup {NoHandler}
  <2>1. \A i \in 1 .. Len(writes) : writes[i] \in Write
    BY TypeInvParts
  <2> QED
    BY <2>1 DEF Write
<1>3. \A i \in 2 .. Len(writes) :
        writes[i].owner # NoHandler => writes[i].owner # Head(writes).owner
  BY <1>1 DEF OwnerInv
<1>4. ASSUME NEW i \in 1 .. Len(writes'), writes'[i].owner # NoHandler
      PROVE  /\ handler'[writes'[i].owner].step \in {"save", "remove"}
             /\ handler'[writes'[i].owner].cron = writes'[i].cron
  <2>1. /\ i + 1 \in 2 .. Len(writes) /\ i + 1 \in 1 .. Len(writes)
        /\ writes'[i].cron = writes[i + 1].cron /\ writes'[i].owner = writes[i + 1].owner
    BY <1>1
  <2> QED
    BY <1>1, <1>2, <1>3, <1>4, <2>1 DEF OwnerInv
<1>5. ASSUME NEW i \in 1 .. Len(writes'), NEW j \in 1 .. Len(writes'),
             writes'[i].owner = writes'[j].owner, writes'[i].owner # NoHandler
      PROVE  i = j
  <2>1. /\ i + 1 \in 1 .. Len(writes) /\ j + 1 \in 1 .. Len(writes)
        /\ writes'[i].owner = writes[i + 1].owner /\ writes'[j].owner = writes[j + 1].owner
    BY <1>1
  <2>2. i + 1 = j + 1
    BY <1>5, <2>1 DEF OwnerInv
  <2> QED
    BY <2>2
<1> QED
  BY <1>3, <1>4, <1>5 DEF OwnerInv

LEMMA DrainedHead ==
  ASSUME TypeInv, Drained
  PROVE  HeadInv'
<1> SUFFICES ASSUME writes' # <<>>
             PROVE  /\ Head(writes').to \in {"on", "off"} => rec'[Head(writes').cron] = Head(writes').to
                    /\ Head(writes').to \in {"remove", "nothing"} => rec'[Head(writes').cron] = "none"
  BY DEF HeadInv
<1>1. writes' \in Seq(Write) /\ Len(writes') = Len(writes) - 1 /\ Len(writes) \in Nat
  BY DEF Drained
<1>2. Len(writes) > 1 /\ 1 \in 1 .. Len(writes) - 1 /\ Head(writes') = writes'[1]
  BY <1>1
<1>3. /\ writes'[1].cron = writes[2].cron
      /\ rec'[writes[2].cron] = Applied(writes[2].to, rec[writes[2].cron])
      /\ writes[2].to # "remove" => writes'[1].to = writes[2].to
      /\ writes[2].to = "remove" => writes'[1].to \in {"remove", "nothing"}
      /\ writes[2].to # "nothing"
  BY <1>2 DEF Drained
<1> QED
  BY <1>2, <1>3 DEF Applied

(* Each write moves up by one, and the handlers of a cron do not get more.   *)
LEMMA DrainedCron ==
  ASSUME TypeInv, Drained, NEW c
  PROVE  /\ \A i \in 1 .. Len(writes') :
              /\ i + 1 \in 2 .. Len(writes) /\ writes'[i].cron = writes[i + 1].cron
              /\ writes'[i].by = writes[i + 1].by
              /\ writes[i + 1].to # "remove" => writes'[i].to = writes[i + 1].to
         /\ \A j \in 2 .. Len(writes) :
              /\ j - 1 \in 1 .. Len(writes') /\ writes'[j - 1].cron = writes[j].cron
              /\ writes'[j - 1].owner = writes[j].owner
              /\ writes[j].to # "remove" => writes'[j - 1].to = writes[j].to
         /\ \A h \in Handler, S \in {Steps, Deciding} :
              handler'[h].step \in S /\ handler'[h].cron = c
                => handler[h].step \in S /\ handler[h].cron = c
<1>1. /\ Len(writes) \in Nat /\ Len(writes') = Len(writes) - 1
      /\ \A i \in 1 .. Len(writes) - 1 :
           /\ writes'[i].cron = writes[i + 1].cron /\ writes'[i].owner = writes[i + 1].owner
           /\ writes'[i].by = writes[i + 1].by
           /\ writes[i + 1].to # "remove" => writes'[i].to = writes[i + 1].to
  BY DEF Drained
<1>2. ASSUME NEW h \in Handler, NEW S \in {Steps, Deciding},
             handler'[h].step \in S, handler'[h].cron = c
      PROVE  handler[h].step \in S /\ handler[h].cron = c
  <2>1. CASE h = Head(writes).owner
    BY <1>2, <2>1 DEF Drained, Steps, Deciding, Free
  <2>2. CASE h # Head(writes).owner
    BY <1>2, <2>2 DEF Drained
  <2> QED
    BY <2>1, <2>2
<1>3. ASSUME NEW j \in 2 .. Len(writes)
      PROVE  /\ j - 1 \in 1 .. Len(writes') /\ writes'[j - 1].cron = writes[j].cron
             /\ writes'[j - 1].owner = writes[j].owner
             /\ writes[j].to # "remove" => writes'[j - 1].to = writes[j].to
  <2>1. j - 1 \in 1 .. Len(writes) - 1 /\ (j - 1) + 1 = j
    BY <1>1
  <2> QED
    BY <1>1, <2>1
<1>4. ASSUME NEW i \in 1 .. Len(writes')
      PROVE  /\ i + 1 \in 2 .. Len(writes) /\ writes'[i].cron = writes[i + 1].cron
             /\ writes'[i].by = writes[i + 1].by
             /\ writes[i + 1].to # "remove" => writes'[i].to = writes[i + 1].to
  BY <1>1
<1> QED
  BY <1>2, <1>3, <1>4

LEMMA FlushPause ==
  ASSUME TypeInv, PauseInv, FlushDone \/ FlushFails
  PROVE  PauseInv'
<1>1. writes # <<>> /\ NextWrite /\ thread' = thread
  BY DEF FlushDone, FlushFails
<1>2. PICK ok \in BOOLEAN : WakeOwner(ok)
  BY DEF FlushDone, FlushFails
<1>3. Drained
  BY <1>1, <1>2, DrainedIs
<1>4. /\ Len(writes) \in Nat /\ Len(writes) >= 1 /\ Head(writes) = writes[1]
      /\ 1 \in 1 .. Len(writes) /\ (Len(writes) > 1 => 2 \in 1 .. Len(writes))
      /\ Head(writes) \in Write /\ Head(writes).cron \in Cron
  <2>1. Len(writes) \in Nat /\ Len(writes) >= 1 /\ Head(writes) = writes[1]
    BY <1>3 DEF Drained
  <2>2. Head(writes) \in Write
    BY <1>1, TypeInvParts
  <2> QED
    BY <2>1, <2>2 DEF Write
<1>5. /\ OwnerInv' /\ HeadInv'
      /\ \A i \in 2 .. Len(writes) :
           writes[i].owner # NoHandler => writes[i].owner # Head(writes).owner
  BY <1>3, DrainedOwners, DrainedHead DEF PauseInv
<1>6. /\ rec \in [Cron -> {"none", "on", "off"}] /\ disk \in [Cron -> {"none", "on", "off"}]
      /\ job \in [Cron -> {"none", "armed", "stopped"}]
      /\ excuse \in [Cron -> {"none", "refused", "raced"}]
  BY TypeInvParts DEF Rest
<1>7. disk' = rec \/ disk' = disk
  BY DEF FlushDone, FlushFails
<1>8. ASSUME NEW c \in Cron
      PROVE  /\ job'[c] = "armed" => job[c] = "armed"
             /\ excuse'[c] # "raced" => excuse[c] # "raced"
  BY <1>4, <1>6 DEF FlushDone, FlushFails, Stopped
<1>9. ASSUME NEW c \in Cron PROVE ThreadOk(c)'
  <2> SUFFICES ASSUME thread[c] = "none"
               PROVE  rec'[c] = "none" /\ disk'[c] = "none" /\ Calm(c)'
    BY <1>1 DEF ThreadOk
  <2>1. rec[c] = "none" /\ disk[c] = "none" /\ Calm(c)
    BY DEF PauseInv, CronOk, ThreadOk
  <2>2. rec'[c] = "none"
    BY <1>3, <1>4, <2>1 DEF Drained, Calm, Pending
  <2>3. \A i \in 1 .. Len(writes') : writes'[i].cron # c
    <3> SUFFICES ASSUME NEW i \in 1 .. Len(writes') PROVE writes'[i].cron # c
      OBVIOUS
    <3>1. i + 1 \in 1 .. Len(writes) /\ writes'[i].cron = writes[i + 1].cron
      BY <1>3, <1>4, DrainedCron
    <3> QED
      BY <2>1, <3>1 DEF Calm, Pending
  <2>4. \A h \in Handler : ~(handler'[h].step \in Steps /\ handler'[h].cron = c)
    BY <1>3, <2>1, DrainedCron DEF Calm, Busy, CronOf
  <2> QED
    BY <1>7, <2>1, <2>2, <2>3, <2>4 DEF Calm, Busy, Pending, CronOf
<1>10. ASSUME NEW c \in Cron PROVE PendingOk(c)'
  <2> SUFFICES ASSUME NEW i \in 1 .. Len(writes'), writes'[i].cron = c, writes'[i].by = "pause"
               PROVE  /\ writes'[i].to = "off"
                      /\ excuse'[c] # "raced" =>
                           /\ ~Busy(c, Deciding)'
                           /\ job'[c] = "armed" =>
                                \E j \in (i + 1) .. Len(writes') :
                                  writes'[j].cron = c /\ writes'[j].to = "on"
    BY DEF PendingOk
  <2>1. /\ i + 1 \in 2 .. Len(writes) /\ i + 1 \in 1 .. Len(writes)
        /\ writes[i + 1].cron = c /\ writes[i + 1].by = "pause"
        /\ writes[i + 1].to # "remove" => writes'[i].to = writes[i + 1].to
    <3>1. /\ i + 1 \in 2 .. Len(writes) /\ writes[i + 1].cron = c /\ writes[i + 1].by = "pause"
          /\ writes[i + 1].to # "remove" => writes'[i].to = writes[i + 1].to
      BY <1>3, DrainedCron
    <3> QED
      BY <1>4, <3>1
  <2>2. /\ writes[i + 1].to = "off"
        /\ excuse[c] # "raced" =>
             /\ ~Busy(c, Deciding)
             /\ job[c] = "armed" =>
                  \E j \in (i + 1 + 1) .. Len(writes) :
                    writes[j].cron = c /\ writes[j].to = "on"
    BY <2>1 DEF PauseInv, CronOk, PendingOk
  <2>3. ~Busy(c, Deciding) => ~Busy(c, Deciding)'
    BY <1>3, DrainedCron DEF Busy, CronOf
  <2>4. ASSUME NEW j \in (i + 1 + 1) .. Len(writes), writes[j].cron = c, writes[j].to = "on"
        PROVE  /\ j - 1 \in (i + 1) .. Len(writes')
               /\ writes'[j - 1].cron = c /\ writes'[j - 1].to = "on"
    <3>1. j \in 2 .. Len(writes) /\ Len(writes') = Len(writes) - 1
      BY <1>3, <1>4, <2>1 DEF Drained
    <3>2. writes'[j - 1].cron = c /\ writes'[j - 1].to = "on"
      BY <1>3, <2>4, <3>1, DrainedCron
    <3> QED
      BY <1>4, <2>1, <3>1, <3>2
  <2> QED
    BY <1>8, <2>1, <2>2, <2>3, <2>4
<1>11. ASSUME NEW c \in Cron, rec[c] = "off",
              \A j \in 2 .. Len(writes) : writes[j].cron = c => writes[j].to \in {"off", "keep"}
       PROVE  /\ rec'[c] = "off"
              /\ \A i \in 1 .. Len(writes') :
                   writes'[i].cron = c => writes'[i].to \in {"off", "keep"}
  <2>1. rec'[c] = "off"
    <3>1. Len(writes) > 1 => 2 \in 2 .. Len(writes)
      BY <1>4
    <3> QED
      BY <1>3, <1>11, <3>1 DEF Drained, Applied
  <2>2. ASSUME NEW i \in 1 .. Len(writes'), writes'[i].cron = c
        PROVE  writes'[i].to \in {"off", "keep"}
    <3>1. /\ i + 1 \in 2 .. Len(writes) /\ writes[i + 1].cron = c
          /\ writes[i + 1].to # "remove" => writes'[i].to = writes[i + 1].to
      BY <1>3, <2>2, DrainedCron
    <3> QED
      BY <1>11, <3>1
  <2> QED
    BY <2>1, <2>2
<1>12. ASSUME NEW c \in Cron, c \in paused', c \in paused PROVE Paused(c)'
  <2>1. Paused(c)
    BY <1>12 DEF PauseInv, CronOk
  <2>2. /\ rec'[c] = "off"
        /\ \A i \in 1 .. Len(writes') : writes'[i].cron = c => writes'[i].to \in {"off", "keep"}
    BY <1>4, <1>11, <2>1 DEF Paused
  <2>3. disk'[c] = "off"
    BY <1>7, <2>1 DEF Paused
  <2>4. \A h, g \in Handler : Decides(h, c)' /\ Decides(g, c)' => h = g
    BY <1>3, <2>1, DrainedCron DEF Paused, Decides
  <2>5. ASSUME job'[c] = "armed" PROVE Restoring(c)'
    <3>1. PICK h \in Handler, i \in 1 .. Len(writes) :
            /\ handler[h].step = "save" /\ handler[h].cron = c /\ handler[h].held = "live"
            /\ writes[i].owner = h
      BY <1>8, <2>1, <2>5 DEF Paused, Restoring
    <3>2. h # NoHandler /\ writes[i].cron = c
      BY <3>1, NoHandlerAssumption DEF PauseInv, OwnerInv
    <3>3. i # 1
      <4> SUFFICES ASSUME i = 1 PROVE FALSE
        OBVIOUS
      <4>1. Head(writes).owner = h /\ Head(writes).cron = c /\ h # NoHandler
        BY <1>4, <3>1, <3>2
      <4>2. CASE FlushDone
        <5>1. RestoresDisabled(h)
          BY <2>2, <3>1 DEF RestoresDisabled, At, CronOf
        <5>2. job' = Stopped(c)
          BY <4>1, <4>2, <5>1 DEF FlushDone
        <5> QED
          BY <2>5, <5>2, StoppedIs
      <4>3. CASE FlushFails
        BY <1>12, <3>1, <4>1, <4>3 DEF FlushFails, At
      <4> QED
        BY <4>2, <4>3
    <3>4. i \in 2 .. Len(writes) /\ h # Head(writes).owner
      BY <1>4, <1>5, <3>1, <3>2, <3>3
    <3>5. i - 1 \in 1 .. Len(writes') /\ writes'[i - 1].owner = h
      BY <1>3, <3>1, <3>4, DrainedCron
    <3>6. handler'[h] = handler[h]
      BY <1>3, <1>4, <2>1, <3>1, <3>4 DEF Drained, Paused
    <3> QED
      BY <3>1, <3>5, <3>6 DEF Restoring
  <2> QED
    BY <2>2, <2>3, <2>4, <2>5 DEF Paused
<1>13. ASSUME NEW c \in Cron, c \in paused', c \notin paused PROVE Paused(c)'
  <2>1. FlushDone
    BY <1>13 DEF FlushDone, FlushFails
  <2>2. /\ Head(writes).cron = c /\ Head(writes).by = "pause" /\ excuse[c] = "none"
        /\ \A i \in 2 .. Len(writes) : writes[i].cron = c => writes[i].to \in {"off", "keep"}
    BY <1>13, <2>1 DEF FlushDone, Acknowledge
  <2>3. /\ Head(writes).to = "off" /\ ~Busy(c, Deciding)
        /\ job[c] = "armed" =>
             \E j \in (1 + 1) .. Len(writes) : writes[j].cron = c /\ writes[j].to = "on"
    BY <1>4, <2>2 DEF PauseInv, CronOk, PendingOk
  <2>4. job[c] # "armed"
    BY <2>2, <2>3
  <2>5. rec[c] = "off"
    BY <1>1, <2>2, <2>3 DEF PauseInv, HeadInv
  <2>6. disk' = rec
    BY <2>1, <2>3 DEF FlushDone
  <2>7. /\ rec'[c] = "off"
        /\ \A i \in 1 .. Len(writes') : writes'[i].cron = c => writes'[i].to \in {"off", "keep"}
    BY <1>11, <2>2, <2>5
  <2>8. \A h \in Handler : ~Decides(h, c)'
    BY <1>3, <2>3, DrainedCron DEF Busy, CronOf, Decides
  <2> QED
    BY <1>8, <2>4, <2>5, <2>6, <2>7, <2>8 DEF Paused
<1> QED
  BY <1>5, <1>9, <1>10, <1>12, <1>13 DEF PauseInv, CronOk

LEMMA RestartPause ==
  ASSUME TypeInv, PauseInv, Restart
  PROVE  PauseInv'
<1>1. /\ writes' = <<>> /\ rec' = disk /\ disk' = disk /\ paused' = paused
      /\ \A h \in Handler : handler'[h].step = "free"
  BY DEF Restart, Free
<1>2. OwnerInv' /\ HeadInv'
  BY <1>1 DEF OwnerInv, HeadInv
<1>3. ASSUME NEW c \in Cron PROVE CronOk(c)'
  <2>1. /\ thread'[c] = "none" => thread[c] = "none"
        /\ disk[c] = "off" => job'[c] # "armed"
    <3>1. thread[c] \in {"none", "open", "archived", "gone"}
      BY TypeInvParts DEF Rest
    <3>2. PICK t \in [Cron -> {"none", "open", "archived", "gone"}] :
            /\ t[c] \in Later(thread[c])
            /\ thread' = t
            /\ job' = [d \in Cron |->
                         IF t[d] # "open" \/ disk[d] = "none" THEN "none"
                         ELSE IF disk[d] = "off" THEN "stopped" ELSE "armed"]
      BY DEF Restart
    <3> QED
      BY <3>1, <3>2 DEF Later
  <2>2. Calm(c)' /\ \A h \in Handler : ~Decides(h, c)'
    BY <1>1 DEF Calm, Busy, Pending, Steps, Deciding, Decides, At
  <2>3. ThreadOk(c)'
    BY <1>1, <2>1, <2>2 DEF PauseInv, CronOk, ThreadOk
  <2>4. PendingOk(c)'
    BY <1>1 DEF PendingOk
  <2>5. c \in paused' => Paused(c)'
    BY <1>1, <2>1, <2>2 DEF PauseInv, CronOk, Paused
  <2> QED
    BY <2>3, <2>4, <2>5 DEF CronOk
<1> QED
  BY <1>2, <1>3 DEF PauseInv

LEMMA StillPause ==
  ASSUME PauseInv, UNCHANGED vars
  PROVE  PauseInv'
<1>1. OwnerInv' /\ HeadInv'
  BY DEF vars, PauseInv, OwnerInv, HeadInv
<1>2. ASSUME NEW c \in Cron PROVE CronOk(c)'
  BY DEF vars, PauseInv, CronOk, ThreadOk, PendingOk, Paused, Restoring, Decides, Calm, Busy,
         Pending, CronOf
<1> QED
  BY <1>1, <1>2 DEF PauseInv

LEMMA PauseInvariant == Spec => []PauseInv
<1>1. Init => PauseInv
  <2> SUFFICES ASSUME Init PROVE PauseInv
    OBVIOUS
  <2>1. writes = <<>> /\ \A h \in Handler : handler[h].step = "free"
    BY DEF Init, Free
  <2>2. \A c \in Cron : Calm(c)
    BY <2>1 DEF Calm, Busy, Pending, Steps
  <2> QED
    BY <2>1, <2>2 DEF Init, PauseInv, OwnerInv, HeadInv, CronOk, ThreadOk, PendingOk
<1>2. TypeInv /\ PauseInv /\ [Next]_vars => PauseInv'
  BY CommandPause, EventPause, HandlerStepPause, FlushPause, RestartPause, StillPause
  DEF Next, Quiet
<1> QED
  BY <1>1, <1>2, TypeInvariant, PTL DEF Spec

(* An acknowledged pause holds, for every number of crons and handlers and   *)
(* every number of restarts and failed writes: only a resume, a removal or   *)
(* an overlapping operation ends it.                                         *)
THEOREM PauseHeld == Spec => []PauseHolds
<1>1. TypeInv /\ PauseInv => PauseHolds
  <2> SUFFICES ASSUME TypeInv, PauseInv, NEW c \in paused, Calm(c)
               PROVE  job[c] # "armed" /\ rec[c] # "on"
    BY DEF PauseHolds
  <2>1. c \in Cron
    BY TypeInvParts DEF Rest
  <2> QED
    BY <2>1, CalmIs DEF PauseInv, CronOk, Paused
<1> QED
  BY <1>1, TypeInvariant, PauseInvariant, PTL
-----------------------------------------------------------------------------
(* What the writes in the queue will make of a record: the last one that     *)
(* does not just keep it decides, and a kept record is created if missing.   *)
KeepAfter(c, i) == \E j \in (i + 1) .. Len(writes) : writes[j].cron = c /\ writes[j].to = "keep"

Result(c, base, i) == IF base = "none" /\ KeepAfter(c, i) THEN "on" ELSE base

Decisive(c, i) == writes[i].cron = c /\ writes[i].to # "keep"

ValueOf(to) == IF to = "remove" THEN "none" ELSE to

Becomes(c, v) ==
  \/ \E i \in 2 .. Len(writes) :
       /\ Decisive(c, i)
       /\ \A j \in (i + 1) .. Len(writes) : ~Decisive(c, j)
       /\ v = Result(c, ValueOf(writes[i].to), i)
  \/ /\ \A j \in 2 .. Len(writes) : ~Decisive(c, j)
     /\ v = Result(c, rec[c], 1)

LEMMA PendingBecomes ==
  ASSUME TypeInv, NEW c \in Cron, ~Pending(c), NEW v, Becomes(c, v)
  PROVE  v = rec[c]
<1>1. Len(writes) \in Nat
  BY TypeInvParts
<1>2. \A i \in 1 .. Len(writes) : writes[i].cron # c
  BY DEF Pending
<1> QED
  BY <1>1, <1>2 DEF Becomes, Decisive, Result, KeepAfter

(* A record that the waiting writes at most keep or set stays, one that they *)
(* at most remove stays away.                                                *)
OnlyTo(c, kinds) == \A i \in 1 .. Len(writes) : writes[i].cron = c => writes[i].to \in kinds

LEMMA OnlyBecomes ==
  ASSUME TypeInv, NEW c \in Cron, NEW v, Becomes(c, v)
  PROVE  /\ rec[c] # "none" /\ OnlyTo(c, {"on", "off", "keep"}) => v # "none"
         /\ rec[c] = "none" /\ OnlyTo(c, {"remove", "nothing"}) => v = "none"
         /\ (/\ rec[c] # "none"
             /\ \A i \in 2 .. Len(writes) : writes[i].cron = c => writes[i].to = "keep")
              => v = rec[c]
<1>1. Len(writes) \in Nat /\ \A i \in 2 .. Len(writes) : i \in 1 .. Len(writes) /\ writes[i].to # "nothing"
  BY TypeInvParts DEF WaitingAreReal
<1> QED
  BY <1>1 DEF Becomes, Decisive, Result, KeepAfter, OnlyTo, ValueOf

(* A write behind the others decides, unless it keeps what they make.        *)
LEMMA GrownBecomes ==
  ASSUME TypeInv, NEW c \in Cron, NEW to, NEW by, NEW owner, NEW hs,
         Grown(c, to, by, owner, hs), NEW d \in Cron, NEW v, Becomes(d, v)'
  PROVE  /\ d # c \/ to = "none" => Becomes(d, v)
         /\ d = c /\ to \in {"on", "off"} => v = to
         /\ d = c /\ to = "remove" => v = "none"
         /\ d = c /\ to = "keep" =>
              v # "none" /\ (Becomes(c, v) \/ (v = "on" /\ Becomes(c, "none")))
<1>1. /\ writes \in Seq(Write) /\ Len(writes) \in Nat
      /\ \A i \in 2 .. Len(writes) : writes[i].to # "nothing"
  BY TypeInvParts DEF WaitingAreReal
<1>2. CASE to = "none"
  BY <1>2 DEF Grown, Becomes, Decisive, Result, KeepAfter
<1>3. ASSUME to # "none"
      PROVE  /\ Len(writes') = Len(writes) + 1
             /\ \A i \in 1 .. Len(writes) : writes'[i] = writes[i]
             /\ writes'[Len(writes) + 1].cron = c
  BY <1>3 DEF Grown
<1>4. ASSUME to # "none", d # c PROVE Becomes(d, v)
  <2>1. rec'[d] = rec[d]
    BY <1>4 DEF Grown
  <2>2. /\ \A i \in 2 .. Len(writes) : i \in 2 .. Len(writes') /\ writes'[i] = writes[i]
        /\ \A i \in 2 .. Len(writes') : writes'[i].cron = d => i \in 2 .. Len(writes)
    BY <1>1, <1>3, <1>4
  <2>3. ASSUME NEW i \in 1 .. Len(writes)
        PROVE  KeepAfter(d, i)' <=> KeepAfter(d, i)
    BY <1>1, <1>3, <1>4 DEF KeepAfter
  <2>4. CASE \E i \in 2 .. Len(writes') :
               /\ Decisive(d, i)'
               /\ \A j \in (i + 1) .. Len(writes') : ~Decisive(d, j)'
               /\ v = Result(d, ValueOf(writes[i].to), i)'
    <3>1. PICK i \in 2 .. Len(writes') :
               /\ Decisive(d, i)'
               /\ \A j \in (i + 1) .. Len(writes') : ~Decisive(d, j)'
               /\ v = Result(d, ValueOf(writes[i].to), i)'
      BY <2>4
    <3>2. i \in 2 .. Len(writes) /\ i \in 1 .. Len(writes) /\ Decisive(d, i) /\ writes'[i] = writes[i]
      BY <1>1, <2>2, <3>1 DEF Decisive
    <3>3. \A j \in (i + 1) .. Len(writes) : ~Decisive(d, j)
      BY <1>1, <1>3, <1>4, <3>1, <3>2 DEF Decisive
    <3>4. v = Result(d, ValueOf(writes[i].to), i)
      BY <2>3, <3>1, <3>2 DEF Result
    <3> QED
      BY <3>2, <3>3, <3>4 DEF Becomes
  <2>5. CASE /\ \A j \in 2 .. Len(writes') : ~Decisive(d, j)'
             /\ v = Result(d, rec[d], 1)'
    <3>1. \A j \in 2 .. Len(writes) : ~Decisive(d, j)
      BY <1>1, <2>2, <2>5 DEF Decisive
    <3>2. KeepAfter(d, 1)' <=> KeepAfter(d, 1)
      BY <1>1, <1>3, <1>4 DEF KeepAfter
    <3> QED
      BY <2>1, <2>5, <3>1, <3>2 DEF Becomes, Result
  <2> QED
    BY <2>4, <2>5 DEF Becomes
<1>5. CASE to # "none" /\ d = c /\ writes = <<>>
  <2>1. Len(writes) = 0 /\ Len(writes') = 1 /\ rec'[c] = Applied(to, rec[c])
    BY <1>3, <1>5 DEF Grown
  <2>2. v = rec'[c] /\ Becomes(c, rec[c])
    BY <1>5, <2>1 DEF Becomes, Result, KeepAfter
  <2> QED
    BY <1>5, <2>1, <2>2 DEF Applied
<1>6. CASE to # "none" /\ d = c /\ writes # <<>>
  <2>0. PICK n \in Nat : n = Len(writes)
    BY <1>1
  <2>1. /\ n >= 1 /\ writes'[n + 1].to = to /\ writes'[n + 1].cron = c
        /\ Len(writes') = n + 1 /\ \A i \in 1 .. n : writes'[i] = writes[i]
        /\ rec' = rec
    BY <1>1, <1>3, <1>6, <2>0, NonEmptyLength DEF Grown
  <2>2. CASE to # "keep"
    <3>1. Decisive(c, n + 1)' /\ n + 1 \in 2 .. Len(writes')
      BY <2>1, <2>2 DEF Decisive
    <3>2. PICK i \in 2 .. Len(writes') :
               /\ \A j \in (i + 1) .. Len(writes') : ~Decisive(c, j)'
               /\ v = Result(c, ValueOf(writes[i].to), i)'
      BY <1>6, <3>1 DEF Becomes
    <3>3. i = n + 1
      BY <2>1, <3>1, <3>2
    <3>4. ~KeepAfter(c, n + 1)'
      BY <2>1 DEF KeepAfter
    <3> QED
      BY <1>6, <2>1, <2>2, <3>2, <3>3, <3>4 DEF Result, ValueOf
  <2>3. CASE to = "keep"
    <3>1. ASSUME NEW i \in 1 .. n PROVE KeepAfter(c, i)'
      BY <2>1, <2>3 DEF KeepAfter
    <3>2. CASE \E i \in 2 .. Len(writes') :
                 /\ Decisive(c, i)'
                 /\ \A j \in (i + 1) .. Len(writes') : ~Decisive(c, j)'
                 /\ v = Result(c, ValueOf(writes[i].to), i)'
      <4>1. PICK i \in 2 .. Len(writes') :
                 /\ Decisive(c, i)'
                 /\ \A j \in (i + 1) .. Len(writes') : ~Decisive(c, j)'
                 /\ v = Result(c, ValueOf(writes[i].to), i)'
        BY <3>2
      <4>2. i # n + 1
        BY <2>1, <2>3, <4>1 DEF Decisive
      <4>3. i \in 2 .. n /\ i \in 1 .. n /\ Decisive(c, i) /\ writes'[i] = writes[i]
        BY <2>1, <4>1, <4>2 DEF Decisive
      <4>4. \A j \in (i + 1) .. n : ~Decisive(c, j)
        BY <2>1, <4>1, <4>3 DEF Decisive
      <4>5. Becomes(c, Result(c, ValueOf(writes[i].to), i))
        BY <2>0, <4>3, <4>4 DEF Becomes
      <4> QED
        BY <1>6, <2>3, <3>1, <4>1, <4>3, <4>5 DEF Result
    <3>3. CASE /\ \A j \in 2 .. Len(writes') : ~Decisive(c, j)'
               /\ v = Result(c, rec[c], 1)'
      <4>1. \A j \in 2 .. n : ~Decisive(c, j)
        BY <2>1, <3>3 DEF Decisive
      <4>2. Becomes(c, Result(c, rec[c], 1))
        BY <2>0, <4>1 DEF Becomes
      <4>3. 1 \in 1 .. n
        BY <2>1
      <4> QED
        BY <1>6, <2>1, <2>3, <3>1, <3>3, <4>2, <4>3 DEF Result
    <3> QED
      BY <1>6, <2>3, <3>2, <3>3 DEF Becomes
  <2> QED
    BY <2>2, <2>3
<1> QED
  BY <1>2, <1>4, <1>5, <1>6 DEF Grown

(* The end of a write leaves what the queue makes of every record.           *)
LEMMA DrainedBecomes ==
  ASSUME TypeInv, Drained, NEW c \in Cron, NEW v, Becomes(c, v)'
  PROVE  Becomes(c, v)
<1> DEFINE n == Len(writes)
<1>1. /\ n \in Nat /\ n >= 1 /\ Len(writes') = n - 1
      /\ rec'[c] = rec[c] \/ (n > 1 /\ writes[2].cron = c)
  BY DEF Drained
<1>2. \A i \in 2 .. n - 1 : writes'[i].cron = writes[i + 1].cron /\ writes'[i].to = writes[i + 1].to
  BY <1>1 DEF Drained
<1> HIDE DEF n
<1>3. ASSUME NEW i \in 2 .. n - 1 PROVE Decisive(c, i)' <=> Decisive(c, i + 1)
  BY <1>2 DEF Decisive
<1>4. ASSUME NEW i \in 1 .. n - 1 PROVE KeepAfter(c, i)' <=> KeepAfter(c, i + 1)
  <2>1. ASSUME NEW j \in (i + 1) .. n - 1
        PROVE  j + 1 \in (i + 1 + 1) .. n /\ writes'[j].cron = writes[j + 1].cron
               /\ writes'[j].to = writes[j + 1].to
    BY <1>1, <1>2
  <2>2. ASSUME NEW j \in (i + 1 + 1) .. n
        PROVE  j - 1 \in (i + 1) .. n - 1 /\ writes'[j - 1].cron = writes[j].cron
               /\ writes'[j - 1].to = writes[j].to
    <3>1. j - 1 \in (i + 1) .. n - 1 /\ j - 1 \in 2 .. n - 1 /\ (j - 1) + 1 = j
      BY <1>1
    <3> QED
      BY <1>2, <3>1
  <2>3. ASSUME KeepAfter(c, i)' PROVE KeepAfter(c, i + 1)
    <3>1. PICK j \in (i + 1) .. n - 1 : writes'[j].cron = c /\ writes'[j].to = "keep"
      BY <1>1, <2>3 DEF KeepAfter
    <3>2. j + 1 \in (i + 1 + 1) .. n /\ writes[j + 1].cron = c /\ writes[j + 1].to = "keep"
      BY <2>1, <3>1
    <3> QED
      BY <3>2 DEF KeepAfter, n
  <2>4. ASSUME KeepAfter(c, i + 1) PROVE KeepAfter(c, i)'
    <3>1. PICK j \in (i + 1 + 1) .. n : writes[j].cron = c /\ writes[j].to = "keep"
      BY <2>4 DEF KeepAfter, n
    <3>2. /\ j - 1 \in (i + 1) .. Len(writes')
          /\ writes'[j - 1].cron = c /\ writes'[j - 1].to = "keep"
      BY <1>1, <2>2, <3>1
    <3> QED
      BY <3>2 DEF KeepAfter
  <2> QED
    BY <2>3, <2>4
<1>5. CASE \E i \in 2 .. Len(writes') :
             /\ Decisive(c, i)'
             /\ \A j \in (i + 1) .. Len(writes') : ~Decisive(c, j)'
             /\ v = Result(c, ValueOf(writes[i].to), i)'
  <2>1. PICK i \in 2 .. Len(writes') :
             /\ Decisive(c, i)'
             /\ \A j \in (i + 1) .. Len(writes') : ~Decisive(c, j)'
             /\ v = Result(c, ValueOf(writes[i].to), i)'
    BY <1>5
  <2>2. i \in 2 .. n - 1 /\ i \in 1 .. n - 1 /\ i + 1 \in 2 .. n /\ Decisive(c, i + 1)
    BY <1>1, <1>3, <2>1
  <2>3. ASSUME NEW j \in (i + 1 + 1) .. n PROVE ~Decisive(c, j)
    <3>1. j - 1 \in (i + 1) .. Len(writes') /\ j - 1 \in 2 .. n - 1 /\ (j - 1) + 1 = j
      BY <1>1, <2>2
    <3> QED
      BY <1>3, <2>1, <3>1
  <2>4. v = Result(c, ValueOf(writes[i + 1].to), i + 1)
    BY <1>2, <1>4, <2>1, <2>2 DEF Result
  <2> QED
    BY <2>2, <2>3, <2>4 DEF Becomes, n
<1>6. CASE /\ \A j \in 2 .. Len(writes') : ~Decisive(c, j)'
           /\ v = Result(c, rec[c], 1)'
  <2>1. CASE n = 1
    <3>1. ~KeepAfter(c, 1)' /\ ~KeepAfter(c, 1) /\ rec'[c] = rec[c]
      BY <1>1, <2>1 DEF KeepAfter, n
    <3> QED
      BY <1>6, <2>1, <3>1 DEF Becomes, Result, n
  <2>2. CASE n > 1
    <3>1. ASSUME NEW j \in 3 .. n PROVE ~Decisive(c, j)
      <4>1. j - 1 \in 2 .. Len(writes') /\ j - 1 \in 2 .. n - 1 /\ (j - 1) + 1 = j
        BY <1>1
      <4> QED
        BY <1>3, <1>6, <4>1
    <3>2. KeepAfter(c, 1)' <=> KeepAfter(c, 2)
      BY <1>1, <1>4, <2>2
    <3>3. KeepAfter(c, 1) <=> KeepAfter(c, 2) \/ (writes[2].cron = c /\ writes[2].to = "keep")
      BY <1>1, <2>2 DEF KeepAfter, n
    <3>4. CASE writes[2].cron # c
      <4>1. \A j \in 2 .. n : ~Decisive(c, j)
        BY <1>1, <3>1, <3>4 DEF Decisive
      <4> QED
        BY <1>1, <1>6, <3>2, <3>3, <3>4, <4>1 DEF Becomes, Result, n
    <3>5. CASE writes[2].cron = c
      <4>1. /\ rec'[c] = Applied(writes[2].to, rec[c])
            /\ writes[2].to \in {"on", "off", "keep", "remove"}
        <5>1. writes[2] \in Write
          BY <1>1, <2>2, TypeInvParts DEF n
        <5> QED
          BY <2>2, <3>5, <5>1 DEF Drained, Write, n
      <4>2. CASE writes[2].to = "keep"
        <5>1. \A j \in 2 .. n : ~Decisive(c, j)
          BY <1>1, <3>1, <4>2 DEF Decisive
        <5> QED
          BY <1>6, <3>3, <3>5, <4>1, <4>2, <5>1 DEF Becomes, Result, Applied, n
      <4>3. CASE writes[2].to # "keep"
        <5>1. Decisive(c, 2) /\ 2 \in 2 .. n
          BY <1>1, <2>2, <3>5, <4>3 DEF Decisive
        <5>2. rec'[c] = ValueOf(writes[2].to)
          BY <4>1, <4>3 DEF Applied, ValueOf
        <5>3. \A j \in (2 + 1) .. n : ~Decisive(c, j)
          BY <3>1
        <5> QED
          BY <1>6, <3>2, <5>1, <5>2, <5>3 DEF Becomes, Result, n
      <4> QED
        BY <4>2, <4>3
    <3> QED
      BY <3>4, <3>5
  <2> QED
    BY <1>1, <2>1, <2>2
<1> QED
  BY <1>5, <1>6 DEF Becomes

-----------------------------------------------------------------------------
(* Job and record. *)

(* The loader in slot h awaits its own write, which restores what the record *)
(* said; beyond it the cron is only kept.                                    *)
LoadsOnly(h, c) ==
  \A i \in 1 .. Len(writes) :
    writes[i].cron = c =>
      \/ writes[i].owner # h /\ writes[i].to = "keep"
      \/ writes[i].owner = h /\ writes[i].to = "on"
      \/ writes[i].owner = h /\ writes[i].to = "off" /\ handler[h].held = "live"

Doing(h, c, step) == handler[h].step = step /\ handler[h].cron = c

(* The handlers of a cron whose operations did not overlap: one decides, and *)
(* what it found when it started is still so.                                *)
Orderly(c) ==
  /\ \A g, h \in Handler : Decides(g, c) /\ Decides(h, c) => g = h
  /\ \A h \in Handler :
       /\ Doing(h, c, "parse") =>
            thread[c] = "open" /\ OnlyTo(c, {"keep"}) /\ (rec[c] = "none" => ~Pending(c))
       /\ Doing(h, c, "save") =>
            /\ thread[c] = "open" /\ job[c] = "armed"
            /\ handler[h].held \in {"none", "live"} /\ LoadsOnly(h, c)
       /\ Doing(h, c, "remove") \/ Doing(h, c, "archive") =>
            job[c] = "none" /\ OnlyTo(c, {"remove", "nothing"})
       /\ Doing(h, c, "archive") => rec[c] = "none"
       /\ Doing(h, c, "post") =>
            /\ rec[c] # "none" /\ OnlyTo(c, {"on", "off", "keep"})
            /\ ~Busy(c, {"remove", "archive"})

(* The job is right for the value v of the record. *)
Agree(v, c) ==
  /\ v = "off" => job[c] # "armed"
  /\ v = "on" /\ thread[c] = "open" => job[c] = "armed"
  /\ v = "none" => job[c] = "none"

(* Unless a loader or a removal is under way, the job is right for the value *)
(* that the record will have.                                                *)
Changing == {"parse", "save", "remove", "archive"}

Consistent(c) ==
  ~Busy(c, Changing) =>
    /\ \A v : Becomes(c, v) => Agree(v, c)
    /\ thread[c] \in {"none", "gone"} => job[c] = "none"

Settled(c) ==
  /\ excuse[c] # "raced" => Orderly(c)
  /\ excuse[c] = "none" => Consistent(c)

SettleInv == \A c \in Cron : Settled(c)

LEMMA NoneOrderly ==
  ASSUME NEW c, ~Busy(c, Steps)'
  PROVE  Orderly(c)'
BY DEF Busy, CronOf, Steps, Orderly, Decides, Deciding, Doing

LEMMA OnlyGrows ==
  ASSUME NEW c, NEW to, NEW by, NEW owner, NEW hs, Grown(c, to, by, owner, hs),
         NEW kinds, OnlyTo(c, kinds), to \in {"none"} \cup kinds,
         to = "remove" => "nothing" \in kinds
  PROVE  OnlyTo(c, kinds)'
<1> SUFFICES ASSUME NEW i \in 1 .. Len(writes'), writes'[i].cron = c
             PROVE  writes'[i].to \in kinds
  BY DEF OnlyTo
<1>1. CASE i \in 1 .. Len(writes)
  BY <1>1 DEF Grown, OnlyTo
<1>2. CASE i \notin 1 .. Len(writes)
  <2>1. i = Len(writes) + 1 /\ to # "none"
    BY <1>2 DEF Grown
  <2> QED
    BY <2>1 DEF Grown
<1> QED
  BY <1>1, <1>2

(* The other crons are left alone. *)
LEMMA OthersSettled ==
  ASSUME TypeInv, NEW c \in Cron, NEW to, NEW by, NEW owner, NEW hs,
         Grown(c, to, by, owner, hs), Moved(c, hs), OthersStay(c),
         NEW d \in Cron, d # c, Settled(d)
  PROVE  Settled(d)'
<1>1. /\ Len(writes) \in Nat
      /\ \A i \in 1 .. Len(writes) : i \in 1 .. Len(writes') /\ writes'[i] = writes[i]
      /\ \A i \in 1 .. Len(writes') : writes'[i].cron = d => i \in 1 .. Len(writes)
      /\ rec'[d] = rec[d]
  BY DEF Grown
<1>2. thread'[d] = thread[d] /\ job'[d] = job[d] /\ excuse'[d] = excuse[d]
  BY DEF OthersStay
<1>3. ASSUME NEW h \in Handler
      PROVE  /\ handler'[h].step \in Steps /\ handler'[h].cron = d
                  => handler'[h] = handler[h] /\ handler[h].cron = d
             /\ handler[h].step \in Steps /\ handler[h].cron = d => handler'[h] = handler[h]
  BY DEF Grown, Moved, Steps
<1>4. \A S \in SUBSET Steps : Busy(d, S)' <=> Busy(d, S)
  BY <1>3 DEF Busy, CronOf
<1>5. /\ \A kinds : OnlyTo(d, kinds) => OnlyTo(d, kinds)'
      /\ Pending(d)' => Pending(d)
  BY <1>1 DEF OnlyTo, Pending
<1>6. ASSUME Orderly(d) PROVE Orderly(d)'
  <2>1. \A g, h \in Handler : Decides(g, d)' /\ Decides(h, d)' => g = h
    BY <1>3, <1>6 DEF Orderly, Decides, Deciding
  <2>2. \A h \in Handler, step \in Steps :
          Doing(h, d, step)' => Doing(h, d, step) /\ handler'[h] = handler[h]
    BY <1>3 DEF Doing
  <2>3. \A h \in Handler : handler'[h] = handler[h] /\ LoadsOnly(h, d) => LoadsOnly(h, d)'
    BY <1>1 DEF LoadsOnly
  <2>4. ~Busy(d, {"remove", "archive"}) => ~Busy(d, {"remove", "archive"})'
    BY <1>4 DEF Steps
  <2>5. ASSUME NEW h \in Handler
        PROVE  /\ Doing(h, d, "parse")' =>
                    thread'[d] = "open" /\ OnlyTo(d, {"keep"})' /\ (rec'[d] = "none" => ~Pending(d)')
               /\ Doing(h, d, "save")' =>
                    /\ thread'[d] = "open" /\ job'[d] = "armed"
                    /\ handler'[h].held \in {"none", "live"} /\ LoadsOnly(h, d)'
               /\ Doing(h, d, "remove")' \/ Doing(h, d, "archive")' =>
                    job'[d] = "none" /\ OnlyTo(d, {"remove", "nothing"})'
               /\ Doing(h, d, "archive")' => rec'[d] = "none"
               /\ Doing(h, d, "post")' =>
                    /\ rec'[d] # "none" /\ OnlyTo(d, {"on", "off", "keep"})'
                    /\ ~Busy(d, {"remove", "archive"})'
    BY <1>1, <1>2, <1>5, <1>6, <2>2, <2>3, <2>4 DEF Orderly, Steps
  <2> QED
    BY <2>1, <2>5 DEF Orderly
<1>7. ASSUME Consistent(d) PROVE Consistent(d)'
  <2>1. Changing \in SUBSET Steps
    BY DEF Changing, Steps
  <2>2. ~Busy(d, Changing)' => ~Busy(d, Changing)
    BY <1>4, <2>1
  <2>3. \A v : Becomes(d, v)' => Becomes(d, v)
    BY GrownBecomes
  <2> QED
    BY <1>2, <1>7, <2>2, <2>3 DEF Consistent, Agree
<1> QED
  BY <1>2, <1>6, <1>7 DEF Settled

LEMMA AllowedSettles ==
  ASSUME TypeInv, SettleInv, NEW c \in Cron, NEW to, NEW by, NEW owner, NEW hs,
         Allowed(c, to, by, owner, hs), Settled(c)'
  PROVE  SettleInv'
BY OthersSettled DEF Allowed, SettleInv

(* What a step leaves of the memory. *)
LEMMA RecGrows ==
  ASSUME TypeInv, NEW c \in Cron, NEW to, NEW by, NEW owner, NEW hs,
         Grown(c, to, by, owner, hs)
  PROVE  /\ to = "none" => rec' = rec /\ (Pending(c)' => Pending(c))
         /\ rec[c] # "none" /\ to # "remove" => rec'[c] # "none"
         /\ \A h \in Handler : handler'[h].step = hs[h].step /\ handler'[h].cron = hs[h].cron
         /\ to # "remove" => \A h \in Handler : handler'[h] = hs[h]
BY DEF Grown, Applied, Pending

(* Posts alone go on through a pause, a resume or an archive.                *)
LEMMA PostsOrderly ==
  ASSUME TypeInv, NEW c \in Cron, NEW to, NEW by, NEW owner, NEW hs,
         Grown(c, to, by, owner, hs), to # "remove",
         \A h \in Handler : hs[h].step \in Steps /\ hs[h].cron = c =>
           hs[h].step = "post" /\ hs[h] = handler[h],
         Orderly(c) \/ ~Busy(c, Steps)
  PROVE  Orderly(c)'
<1>1. ASSUME NEW h \in Handler, handler'[h].step \in Steps, handler'[h].cron = c
      PROVE  handler'[h].step = "post" /\ Doing(h, c, "post")
  BY <1>1, RecGrows DEF Doing
<1>2. ~Busy(c, Deciding)'
  BY <1>1 DEF Busy, CronOf, Deciding, Steps
<1>3. CASE ~Busy(c, Steps)
  <2>1. ~Busy(c, Steps)'
    BY <1>1, <1>3 DEF Busy, CronOf, Doing, Steps
  <2> QED
    BY <2>1, NoneOrderly
<1>4. CASE Orderly(c) /\ Busy(c, Steps)
  <2>1. ASSUME NEW h \in Handler, Doing(h, c, "post")'
        PROVE  /\ rec'[c] # "none" /\ OnlyTo(c, {"on", "off", "keep"})'
               /\ ~Busy(c, {"remove", "archive"})'
    <3>1. Doing(h, c, "post")
      BY <1>1, <2>1 DEF Doing, Steps
    <3>2. rec[c] # "none" /\ OnlyTo(c, {"on", "off", "keep"})
      BY <1>4, <3>1 DEF Orderly
    <3>3. to \in {"none"} \cup {"on", "off", "keep"}
      BY DEF Grown
    <3>4. OnlyTo(c, {"on", "off", "keep"})'
      BY <3>2, <3>3, OnlyGrows
    <3>5. ~Busy(c, {"remove", "archive"})'
      BY <1>2 DEF Busy, Deciding, Steps
    <3> QED
      BY <3>2, <3>4, <3>5, RecGrows
  <2>2. \A h \in Handler : /\ ~Doing(h, c, "parse")' /\ ~Doing(h, c, "save")'
                           /\ ~Doing(h, c, "remove")' /\ ~Doing(h, c, "archive")'
                           /\ ~Decides(h, c)'
    BY <1>1 DEF Doing, Decides, Steps, Deciding
  <2> QED
    BY <2>1, <2>2 DEF Orderly
<1> QED
  BY <1>3, <1>4

(* A write that keeps the record changes nothing for the handlers of the     *)
(* cron, nor does a post that begins while no write of the cron waits.       *)
LEMMA KeepOrderly ==
  ASSUME TypeInv, NEW c \in Cron, NEW to \in {"none", "keep"}, NEW by, NEW hs,
         Grown(c, to, by, NoHandler, hs),
         thread'[c] = thread[c], job'[c] = job[c],
         rec[c] # "none", ~Busy(c, {"remove", "archive"}), Orderly(c),
         \A h \in Handler : hs[h].step \in Steps /\ hs[h].cron = c =>
           hs[h] = handler[h] \/ (hs[h].step = "post" /\ ~Pending(c))
  PROVE  Orderly(c)'
<1>1. ASSUME NEW h \in Handler, handler'[h].step \in Steps, handler'[h].cron = c
      PROVE  \/ handler'[h] = handler[h]
             \/ handler'[h].step = "post" /\ ~Pending(c)
  BY <1>1, RecGrows
<1>2. \A h \in Handler, step \in Deciding :
        Doing(h, c, step)' => Doing(h, c, step) /\ handler'[h] = handler[h]
  BY <1>1 DEF Doing, Deciding, Steps
<1>3. \A g, h \in Handler : Decides(g, c)' /\ Decides(h, c)' => g = h
  BY <1>2 DEF Decides, Orderly, Doing
<1>4. ~Busy(c, {"remove", "archive"})'
  BY <1>2 DEF Busy, CronOf, Doing, Deciding, Steps
<1>5. rec'[c] # "none"
  BY RecGrows
<1>6. \A kinds : OnlyTo(c, kinds) /\ "keep" \in kinds => OnlyTo(c, kinds)'
  BY OnlyGrows
<1>7. ASSUME NEW h \in Handler, Doing(h, c, "save")'
      PROVE  /\ thread'[c] = "open" /\ job'[c] = "armed"
             /\ handler'[h].held \in {"none", "live"} /\ LoadsOnly(h, c)'
  <2>1. Doing(h, c, "save") /\ handler'[h] = handler[h]
    BY <1>2, <1>7 DEF Deciding, Steps
  <2>2. /\ thread[c] = "open" /\ job[c] = "armed"
        /\ handler[h].held \in {"none", "live"} /\ LoadsOnly(h, c)
    BY <2>1 DEF Orderly
  <2>3. ASSUME NEW i \in 1 .. Len(writes'), writes'[i].cron = c
        PROVE  \/ writes'[i].owner # h /\ writes'[i].to = "keep"
               \/ writes'[i].owner = h /\ writes'[i].to = "on"
               \/ writes'[i].owner = h /\ writes'[i].to = "off" /\ handler'[h].held = "live"
    <3>1. CASE i \in 1 .. Len(writes)
      BY <2>1, <2>2, <2>3, <3>1 DEF Grown, LoadsOnly
    <3>2. CASE i \notin 1 .. Len(writes)
      <4>1. i = Len(writes) + 1 /\ to = "keep"
        BY <3>2 DEF Grown
      <4> QED
        BY <4>1, NoHandlerAssumption DEF Grown
    <3> QED
      BY <3>1, <3>2
  <2> QED
    BY <2>1, <2>2, <2>3 DEF LoadsOnly
<1>8. ASSUME NEW h \in Handler, Doing(h, c, "post")'
      PROVE  OnlyTo(c, {"on", "off", "keep"})'
  <2>1. OnlyTo(c, {"on", "off", "keep"})
    <3>1. CASE Pending(c)
      <4>1. Doing(h, c, "post")
        BY <1>1, <1>8, <3>1 DEF Doing, Steps
      <4> QED
        BY <4>1 DEF Orderly
    <3>2. CASE ~Pending(c)
      BY <3>2 DEF Pending, OnlyTo
    <3> QED
      BY <3>1, <3>2
  <2> QED
    BY <1>6, <2>1
<1>9. \A h \in Handler : Doing(h, c, "parse")' => thread'[c] = "open" /\ OnlyTo(c, {"keep"})'
  BY <1>2, <1>6 DEF Orderly, Deciding, Steps
<1>10. \A h \in Handler : ~Doing(h, c, "remove")' /\ ~Doing(h, c, "archive")'
  BY <1>4 DEF Busy, CronOf, Doing
<1> QED
  BY <1>3, <1>4, <1>5, <1>7, <1>8, <1>9, <1>10 DEF Orderly

(* A handler that starts when nothing of its cron is under way is alone.     *)
LEMMA TakenAlone ==
  ASSUME TypeInv, NEW c \in Cron, NEW to, NEW by, NEW owner, NEW hs, NEW step \in Steps,
         Grown(c, to, by, owner, hs), Takes(c, step, hs), ~Busy(c, Steps)
  PROVE  /\ \A g \in Handler : handler'[g].step \in Steps /\ handler'[g].cron = c
                                 => handler'[g].step = step
         /\ Busy(c, {step})'
         /\ \A g, h \in Handler : Decides(g, c)' /\ Decides(h, c)' => g = h
<1>1. PICK h \in Handler :
        /\ hs[h].step = step /\ hs[h].cron = c
        /\ \A g \in Handler : g # h => hs[g] = handler[g]
  BY DEF Takes
<1>2. \A g \in Handler : handler'[g].step = hs[g].step /\ handler'[g].cron = hs[g].cron
  BY RecGrows
<1>3. \A g \in Handler : handler'[g].step \in Steps /\ handler'[g].cron = c => g = h
  BY <1>1, <1>2 DEF Busy, CronOf
<1> QED
  BY <1>1, <1>2, <1>3 DEF Busy, CronOf, Decides, Deciding

(* Each action on a cron leaves job and record in agreement, or is noted.    *)
LEMMA CommandSettles ==
  ASSUME TypeInv, PauseInv, SettleInv, NEW c \in Cron, Command(c)
  PROVE  SettleInv'
<1>1. Settled(c) /\ job \in [Cron -> {"none", "armed", "stopped"}]
  BY JobType DEF SettleInv
<1>2. /\ thread \in [Cron -> {"none", "open", "archived", "gone"}]
      /\ rec \in [Cron -> {"none", "on", "off"}]
  BY TypeInvParts DEF Rest
<1>3. CASE Create(c)
  <2>1. Allowed(c, "keep", "other", NoHandler, handler)
    BY <1>3, CommandAllowed
  <2>2. Grown(c, "keep", "other", NoHandler, handler)
    BY <2>1 DEF Allowed
  <2>3. Calm(c) /\ rec[c] = "none"
    BY <1>3 DEF Create, PauseInv, CronOk, ThreadOk
  <2>4. ~Busy(c, Steps)'
    BY <2>2, <2>3, RecGrows DEF Calm, Busy, CronOf
  <2>5. job'[c] = "armed" /\ thread'[c] = "open"
    BY <1>1, <1>2, <1>3 DEF Create
  <2>6. ASSUME NEW v, Becomes(c, v)' PROVE v = "on"
    BY <2>2, <2>3, <2>6, GrownBecomes, PendingBecomes, CalmIs
  <2>7. Settled(c)'
    BY <2>4, <2>5, <2>6, NoneOrderly DEF Settled, Consistent, Agree
  <2> QED
    BY <2>1, <2>7, AllowedSettles
<1>4. CASE Pause(c) \/ Resume(c)
  <2>1. PICK to \in {"on", "off"}, by \in {"pause", "other"}, revoked \in BOOLEAN :
          /\ Allowed(c, to, by, NoHandler, handler) /\ NoteSwitch(c, revoked)
          /\ to = "off" => job' = Stopped(c)
          /\ to = "on" => job' = [job EXCEPT ![c] = "armed"]
    BY <1>4, CommandAllowed DEF Pause, Resume
  <2>2. Grown(c, to, by, NoHandler, handler)
    BY <2>1 DEF Allowed
  <2>3. /\ excuse'[c] # "raced" => ~Busy(c, Deciding)
        /\ excuse'[c] # "raced" => excuse'[c] = excuse[c] \/ (Calm(c) /\ thread[c] # "gone")
    BY <2>1, NoteSwitchIs
  <2>4. ASSUME excuse'[c] # "raced" PROVE Orderly(c)'
    <3>1. Orderly(c) \/ ~Busy(c, Steps)
      BY <1>1, <2>3, <2>4 DEF Settled, Calm
    <3>2. \A h \in Handler : handler[h].step \in Steps /\ handler[h].cron = c =>
            handler[h].step = "post"
      BY <2>3, <2>4 DEF Busy, CronOf, Deciding
    <3> QED
      BY <2>2, <3>1, <3>2, PostsOrderly
  <2>5. ASSUME excuse'[c] = "none" PROVE Consistent(c)'
    <3>1. thread' = thread /\ Known(c) /\ thread[c] # "none"
      BY <1>4, KnownThread DEF Pause, Resume, Known
    <3>2. thread[c] # "gone"
      <4> SUFFICES ASSUME thread[c] = "gone" PROVE FALSE
        OBVIOUS
      <4>1. ~Busy(c, Changing) /\ excuse[c] = "none"
        BY <2>3, <2>5 DEF Busy, Changing, Deciding, Steps
      <4> QED
        BY <1>1, <3>1, <4>1 DEF Settled, Consistent, Known
    <3>3. \A v : Becomes(c, v)' => v = to
      BY <2>2, GrownBecomes
    <3>4. to = "off" => job'[c] # "armed"
      BY <2>1, StoppedIs
    <3>5. to = "on" => job'[c] = "armed"
      BY <1>1, <2>1
    <3> QED
      BY <3>1, <3>2, <3>3, <3>4, <3>5 DEF Consistent, Agree
  <2> QED
    BY <2>1, <2>4, <2>5, AllowedSettles DEF Settled
<1>5. CASE UpdateSettings(c)
  <2>1. Allowed(c, "keep", "other", NoHandler, handler)
    BY <1>5, CommandAllowed
  <2>2. Grown(c, "keep", "other", NoHandler, handler)
    BY <2>1 DEF Allowed
  <2>3. thread' = thread /\ job' = job /\ excuse' = excuse /\ rec[c] # "none" /\ job[c] # "none"
    BY <1>5 DEF UpdateSettings, Known, history
  <2>4. ASSUME Orderly(c) PROVE Orderly(c)'
    <3>1. ~Busy(c, {"remove", "archive"})
      BY <2>3, <2>4 DEF Orderly, Busy, CronOf, Doing
    <3> QED
      BY <2>2, <2>3, <2>4, <3>1, KeepOrderly
  <2>5. ASSUME Consistent(c) PROVE Consistent(c)'
    <3> SUFFICES ASSUME ~Busy(c, Changing)'
                 PROVE  /\ \A v : Becomes(c, v)' => Agree(v, c)'
                        /\ thread'[c] \in {"none", "gone"} => job'[c] = "none"
      BY DEF Consistent
    <3>1. ~Busy(c, Changing)
      BY <2>2, RecGrows DEF Busy, CronOf
    <3>2. ~Becomes(c, "none")
      BY <2>3, <2>5, <3>1 DEF Consistent, Agree
    <3>3. \A v : Becomes(c, v)' => Becomes(c, v)
      BY <2>2, <3>2, GrownBecomes
    <3> QED
      BY <2>3, <2>5, <3>1, <3>3 DEF Consistent, Agree
  <2> QED
    BY <1>1, <2>1, <2>3, <2>4, <2>5, AllowedSettles DEF Settled
<1>6. CASE Update(c)
  <2>1. PICK hs : Allowed(c, "none", "other", NoHandler, hs) /\ Takes(c, "edit", hs)
    BY <1>6, CommandAllowed
  <2>2. Grown(c, "none", "other", NoHandler, hs)
    BY <2>1 DEF Allowed
  <2>3. excuse'[c] # "raced" => Calm(c) /\ excuse'[c] = excuse[c]
    BY <1>6, NoteIs DEF Update
  <2>4. thread' = thread /\ job' = job
    BY <1>6 DEF Update
  <2>5. ASSUME excuse'[c] # "raced" PROVE Orderly(c)'
    <3>1. /\ \A g \in Handler : handler'[g].step \in Steps /\ handler'[g].cron = c
                                  => handler'[g].step = "edit"
          /\ \A g, h \in Handler : Decides(g, c)' /\ Decides(h, c)' => g = h
      BY <2>1, <2>2, <2>3, <2>5, TakenAlone DEF Calm, Steps
    <3> QED
      BY <3>1 DEF Orderly, Doing, Steps
  <2>6. ASSUME excuse'[c] = "none" PROVE Consistent(c)'
    <3>1. ~Busy(c, Changing) /\ Consistent(c)
      BY <1>1, <2>3, <2>6 DEF Settled, Calm, Busy, Changing, Steps
    <3>2. \A v : Becomes(c, v)' => Becomes(c, v)
      BY <2>2, GrownBecomes
    <3> QED
      BY <2>4, <3>1, <3>2 DEF Consistent, Agree
  <2> QED
    BY <2>1, <2>5, <2>6, AllowedSettles DEF Settled
<1>7. CASE Post(c)
  <2>1. PICK hs : Allowed(c, "none", "other", NoHandler, hs) /\ Takes(c, "post", hs)
    BY <1>7, CommandAllowed
  <2>2. Grown(c, "none", "other", NoHandler, hs)
    BY <2>1 DEF Allowed
  <2>3. excuse'[c] # "raced" => ~Busy(c, {"remove"}) /\ ~Pending(c) /\ excuse'[c] = excuse[c]
    BY <1>7, NoteIs DEF Post
  <2>4. thread' = thread /\ job' = job /\ rec[c] # "none"
    BY <1>7 DEF Post
  <2>5. \A h \in Handler : hs[h] = handler[h] \/ (handler[h].step = "free" /\ hs[h].step = "post")
    BY <2>1 DEF Takes
  <2>6. ASSUME excuse'[c] # "raced" PROVE Orderly(c)'
    <3>1. Orderly(c)
      BY <1>1, <2>3, <2>6 DEF Settled
    <3>2. ~Busy(c, {"remove", "archive"})
      BY <2>3, <2>4, <2>6, <3>1 DEF Orderly, Busy, CronOf, Doing
    <3> QED
      BY <2>2, <2>3, <2>4, <2>5, <2>6, <3>1, <3>2, KeepOrderly
  <2>7. ASSUME excuse'[c] = "none" PROVE Consistent(c)'
    <3>1. Consistent(c)
      BY <1>1, <2>3, <2>7 DEF Settled
    <3>2. ~Busy(c, Changing)' => ~Busy(c, Changing)
      BY <2>2, <2>5, RecGrows DEF Busy, CronOf, Changing
    <3>3. \A v : Becomes(c, v)' => Becomes(c, v)
      BY <2>2, GrownBecomes
    <3> QED
      BY <2>4, <3>1, <3>2, <3>3 DEF Consistent, Agree
  <2> QED
    BY <2>1, <2>6, <2>7, AllowedSettles DEF Settled
<1>8. CASE Delete(c)
  <2>1. PICK h, hs : Allowed(c, "remove", "other", h, hs) /\ Takes(c, "remove", hs)
    BY <1>8, CommandAllowed
  <2>2. Grown(c, "remove", "other", h, hs)
    BY <2>1 DEF Allowed
  <2>3. excuse'[c] # "raced" => Calm(c)
    BY <1>8, NoteIs DEF Delete
  <2>4. job'[c] = "none"
    BY <1>1, <1>8 DEF Delete
  <2>5. ASSUME Calm(c)
        PROVE  Orderly(c)' /\ Busy(c, {"remove"})'
    <3>1. /\ \A g \in Handler : handler'[g].step \in Steps /\ handler'[g].cron = c
                                  => handler'[g].step = "remove"
          /\ \A g, k \in Handler : Decides(g, c)' /\ Decides(k, c)' => g = k
          /\ Busy(c, {"remove"})'
      BY <2>1, <2>2, <2>5, TakenAlone DEF Calm, Steps
    <3>2. OnlyTo(c, {"remove", "nothing"})
      BY <2>5 DEF Calm, Pending, OnlyTo
    <3>3. OnlyTo(c, {"remove", "nothing"})'
      BY <2>2, <3>2, OnlyGrows
    <3> QED
      BY <2>4, <3>1, <3>3 DEF Orderly, Doing, Steps
  <2>6. Busy(c, {"remove"})' => Busy(c, Changing)'
    BY DEF Busy, Changing
  <2> QED
    BY <2>1, <2>3, <2>5, <2>6, AllowedSettles DEF Settled, Consistent
<1> QED
  BY <1>3, <1>4, <1>5, <1>6, <1>7, <1>8 DEF Command

(* Each event of the forum does too. *)
LEMMA EventSettles ==
  ASSUME TypeInv, PauseInv, SettleInv, NEW c \in Cron, Event(c)
  PROVE  SettleInv'
<1>1. Settled(c) /\ job \in [Cron -> {"none", "armed", "stopped"}]
  BY JobType DEF SettleInv
<1>2. /\ thread \in [Cron -> {"none", "open", "archived", "gone"}]
      /\ rec \in [Cron -> {"none", "on", "off"}]
      /\ excuse \in [Cron -> {"none", "refused", "raced"}]
  BY TypeInvParts DEF Rest
<1>3. CASE Archive(c)
  <2>1. PICK to : /\ to = (IF rec[c] = "none" THEN "none" ELSE "off")
                  /\ Allowed(c, to, "other", NoHandler, handler)
    BY <1>3, EventAllowed
  <2>2. Grown(c, to, "other", NoHandler, handler)
    BY <2>1 DEF Allowed
  <2>3. excuse'[c] # "raced" =>
          /\ ~Busy(c, Deciding) /\ ~(rec[c] = "none" /\ Pending(c))
          /\ excuse'[c] = excuse[c]
    BY <1>3, NoteIs DEF Archive
  <2>4. /\ job' = Stopped(c) /\ job'[c] # "armed" /\ (job[c] = "none" => job'[c] = "none")
        /\ thread'[c] = "archived"
    BY <1>1, <1>2, <1>3 DEF Archive, Archived, Stopped
  <2>5. ASSUME excuse'[c] # "raced" PROVE Orderly(c)'
    <3>1. Orderly(c) /\ to # "remove"
      BY <1>1, <2>1, <2>3, <2>5 DEF Settled
    <3>2. \A h \in Handler : handler[h].step \in Steps /\ handler[h].cron = c =>
            handler[h].step = "post"
      BY <2>3, <2>5 DEF Busy, CronOf, Deciding
    <3> QED
      BY <2>2, <3>1, <3>2, PostsOrderly
  <2>6. ASSUME excuse'[c] = "none" PROVE Consistent(c)'
    <3>1. CASE rec[c] = "none"
      <4>1. ~Busy(c, Changing) /\ Consistent(c) /\ ~Pending(c)
        BY <1>1, <2>3, <2>6, <3>1 DEF Settled, Busy, Changing, Deciding, Steps
      <4>2. \A v : Becomes(c, v)' => Becomes(c, v) /\ v = "none"
        BY <2>1, <2>2, <3>1, <4>1, GrownBecomes, PendingBecomes
      <4> QED
        BY <2>4, <4>1, <4>2 DEF Consistent, Agree
    <3>2. CASE rec[c] # "none"
      <4>1. \A v : Becomes(c, v)' => v = "off"
        BY <2>1, <2>2, <3>2, GrownBecomes
      <4> QED
        BY <2>4, <4>1 DEF Consistent, Agree
    <3> QED
      BY <3>1, <3>2
  <2> QED
    BY <2>1, <2>5, <2>6, AllowedSettles DEF Settled
<1>4. CASE Unarchive(c) \/ Reload(c)
  <2>1. PICK hs : Allowed(c, "none", "other", NoHandler, hs) /\ Takes(c, "parse", hs)
    BY <1>4, EventAllowed
  <2>2. Grown(c, "none", "other", NoHandler, hs)
    BY <2>1 DEF Allowed
  <2>3. excuse'[c] # "raced" => Calm(c)
    <3>1. CASE Reload(c)
      BY <3>1, NoteIs DEF Reload
    <3>2. CASE Unarchive(c)
      BY <1>2, <3>2 DEF Unarchive
    <3> QED
      BY <1>4, <3>1, <3>2
  <2>4. thread'[c] = "open"
    BY <1>2, <1>4 DEF Unarchive, Reload
  <2>5. ASSUME Calm(c) PROVE Orderly(c)' /\ Busy(c, {"parse"})'
    <3>1. /\ \A g \in Handler : handler'[g].step \in Steps /\ handler'[g].cron = c
                                  => handler'[g].step = "parse"
          /\ \A g, k \in Handler : Decides(g, c)' /\ Decides(k, c)' => g = k
          /\ Busy(c, {"parse"})'
      BY <2>1, <2>2, <2>5, TakenAlone DEF Calm, Steps
    <3>2. OnlyTo(c, {"keep"}) /\ ~Pending(c)
      BY <2>5 DEF Calm, Pending, OnlyTo
    <3>3. OnlyTo(c, {"keep"})' /\ ~Pending(c)'
      BY <2>2, <3>2, OnlyGrows, RecGrows
    <3> QED
      BY <2>4, <3>1, <3>3 DEF Orderly, Doing, Steps
  <2>6. Busy(c, {"parse"})' => Busy(c, Changing)'
    BY DEF Busy, Changing
  <2> QED
    BY <2>1, <2>3, <2>5, <2>6, AllowedSettles DEF Settled, Consistent
<1>5. CASE ThreadDelete(c)
  <2>1. Allowed(c, "remove", "other", NoHandler, handler)
    BY <1>5, EventAllowed
  <2>2. Grown(c, "remove", "other", NoHandler, handler)
    BY <2>1 DEF Allowed
  <2>3. excuse'[c] # "raced" => Calm(c)
    BY <1>5, NoteIs DEF ThreadDelete
  <2>4. job'[c] = "none"
    BY <1>1, <1>5 DEF ThreadDelete
  <2>5. ASSUME Calm(c) PROVE Orderly(c)'
    <3>1. ~Busy(c, Steps)'
      BY <2>2, <2>5, RecGrows DEF Calm, Busy, CronOf
    <3> QED
      BY <3>1, NoneOrderly
  <2>6. \A v : Becomes(c, v)' => v = "none"
    BY <2>2, GrownBecomes
  <2> QED
    BY <2>1, <2>3, <2>4, <2>5, <2>6, AllowedSettles DEF Settled, Consistent, Agree
<1> QED
  BY <1>3, <1>4, <1>5 DEF Event

(* The handler that ends was the only one that decides about its cron.       *)
LEMMA FreedAlone ==
  ASSUME TypeInv, NEW c \in Cron, NEW h \in Handler, Decides(h, c), Orderly(c),
         NEW hs, Frees(h, hs)
  PROVE  \A g \in Handler : hs[g].step \in Steps /\ hs[g].cron = c =>
           hs[g].step = "post" /\ hs[g] = handler[g]
<1>1. \A g \in Handler : g # h => hs[g] = handler[g] /\ ~Decides(g, c)
  BY DEF Frees, Orderly
<1> QED
  BY <1>1 DEF Frees, Free, Decides, Deciding, Steps

(* The continuations of the handlers do too. *)
LEMMA HandlerStepSettles ==
  ASSUME TypeInv, PauseInv, SettleInv, NEW h \in Handler, HandlerStep(h)
  PROVE  SettleInv'
<1>0. PICK c : c = CronOf(h)
  OBVIOUS
<1>1. c \in Cron /\ handler[h].cron = c
  BY <1>0, HandlerStepAllowed
<1>2. Settled(c) /\ job \in [Cron -> {"none", "armed", "stopped"}]
  BY <1>1, JobType DEF SettleInv
<1>3. /\ thread \in [Cron -> {"none", "open", "archived", "gone"}]
      /\ rec \in [Cron -> {"none", "on", "off"}]
      /\ excuse \in [Cron -> {"none", "refused", "raced"}]
  BY TypeInvParts DEF Rest
<1>4. CASE Reregister(h)
  <2>1. PICK hs : Allowed(c, "keep", "other", NoHandler, hs) /\ Frees(h, hs)
    BY <1>0, <1>4, HandlerStepAllowed
  <2>2. Grown(c, "keep", "other", NoHandler, hs)
    BY <2>1 DEF Allowed
  <2>3. Note(c, job[c] # "armed", FALSE) /\ thread' = thread /\ job'[c] = "armed"
    BY <1>0, <1>1, <1>2, <1>4 DEF Reregister
  <2>4. excuse'[c] # "raced" => job[c] = "armed" /\ excuse'[c] = excuse[c]
    BY <1>1, <2>3, NoteIs
  <2>5. Decides(h, c) /\ handler[h].step = "edit"
    BY <1>1, <1>4 DEF Reregister, At, Decides, Deciding, Steps
  <2>6. ASSUME excuse'[c] # "raced" PROVE Orderly(c)'
    <3>1. Orderly(c)
      BY <1>2, <2>4, <2>6 DEF Settled
    <3> QED
      BY <1>1, <2>1, <2>2, <2>5, <3>1, FreedAlone, PostsOrderly
  <2>7. ASSUME excuse'[c] = "none" PROVE Consistent(c)'
    <3>1. Orderly(c) /\ Consistent(c) /\ job[c] = "armed"
      BY <1>2, <2>4, <2>7 DEF Settled
    <3>2. ~Busy(c, Changing)
      BY <2>5, <3>1 DEF Orderly, Busy, CronOf, Decides, Changing, Deciding, Steps
    <3>3. ~Becomes(c, "none")
      BY <3>1, <3>2 DEF Consistent, Agree
    <3>4. \A v : Becomes(c, v)' => Becomes(c, v)
      BY <1>1, <2>2, <3>3, GrownBecomes
    <3> QED
      BY <2>3, <3>1, <3>2, <3>4 DEF Consistent, Agree
  <2> QED
    BY <1>1, <2>1, <2>6, <2>7, AllowedSettles DEF Settled
<1>5. CASE Posted(h)
  <2>0. PICK hs : \E to \in {"none", "keep"} :
          Allowed(c, to, "other", NoHandler, hs) /\ Frees(h, hs)
    BY <1>0, <1>5, HandlerStepAllowed
  <2>1. PICK to \in {"none", "keep"} : Allowed(c, to, "other", NoHandler, hs) /\ Frees(h, hs)
    BY <2>0
  <2>2. Grown(c, to, "other", NoHandler, hs)
    BY <2>1 DEF Allowed
  <2>3. thread' = thread /\ job' = job /\ excuse' = excuse
    BY <1>5 DEF Posted, history
  <2>4. Doing(h, c, "post")
    BY <1>1, <1>5 DEF Posted, At, Doing
  <2>5. \A g \in Handler : hs[g] = handler[g] \/ hs[g].step = "free"
    BY <2>1 DEF Frees, Free
  <2>6. ASSUME Orderly(c)
        PROVE  Orderly(c)' /\ (\A v : Becomes(c, v)' => Becomes(c, v))
    <3>1. rec[c] # "none" /\ OnlyTo(c, {"on", "off", "keep"}) /\ ~Busy(c, {"remove", "archive"})
      BY <2>4, <2>6 DEF Orderly
    <3>2. Orderly(c)'
      BY <1>1, <2>2, <2>3, <2>5, <2>6, <3>1, KeepOrderly DEF Steps
    <3>3. ~Becomes(c, "none")
      BY <1>1, <3>1, OnlyBecomes
    <3> QED
      BY <1>1, <2>1, <2>2, <3>2, <3>3, GrownBecomes
  <2>7. ~Busy(c, Changing)' => ~Busy(c, Changing)
    <3>1. \A g \in Handler : handler[g].step \in Changing /\ handler[g].cron = c => hs[g] = handler[g]
      BY <2>1, <2>4 DEF Frees, Doing, Changing
    <3> QED
      BY <1>1, <2>2, <3>1, RecGrows DEF Busy, CronOf
  <2> QED
    BY <1>1, <1>2, <2>1, <2>3, <2>6, <2>7, AllowedSettles DEF Settled, Consistent, Agree
<1>6. CASE ArchiveDeleted(h)
  <2>0. PICK hs : \E to \in {"none", "off"} :
          /\ Allowed(c, to, "other", NoHandler, hs) /\ Frees(h, hs)
          /\ to = "off" => rec[c] # "none"
    BY <1>0, <1>6, HandlerStepAllowed
  <2>1. PICK to \in {"none", "off"} :
          /\ Allowed(c, to, "other", NoHandler, hs) /\ Frees(h, hs)
          /\ to = "off" => rec[c] # "none"
    BY <2>0
  <2>2. Grown(c, to, "other", NoHandler, hs)
    BY <2>1 DEF Allowed
  <2>3. excuse' = excuse /\ (job' = Stopped(c) \/ job' = job)
    BY <1>0, <1>6 DEF ArchiveDeleted, Archived, history
  <2>4. Doing(h, c, "archive") /\ Decides(h, c)
    BY <1>1, <1>6 DEF ArchiveDeleted, At, Doing, Decides, Deciding, Steps
  <2>5. ASSUME Orderly(c) PROVE Settled(c)'
    <3>1. rec[c] = "none" /\ job[c] = "none" /\ OnlyTo(c, {"remove", "nothing"}) /\ to = "none"
      BY <2>1, <2>4, <2>5 DEF Orderly
    <3>2. job'[c] = "none"
      BY <1>1, <1>2, <2>3, <3>1 DEF Stopped
    <3>3. \A v : Becomes(c, v)' => v = "none"
      BY <1>1, <2>2, <3>1, GrownBecomes, OnlyBecomes
    <3>4. Orderly(c)'
      BY <1>1, <2>1, <2>2, <2>4, <2>5, <3>1, FreedAlone, PostsOrderly
    <3> QED
      BY <3>2, <3>3, <3>4 DEF Settled, Consistent, Agree
  <2> QED
    BY <1>1, <1>2, <2>1, <2>3, <2>5, AllowedSettles DEF Settled
<1>7. CASE Refuse(h)
  <2>1. PICK hs : Allowed(c, "none", "other", NoHandler, hs) /\ Frees(h, hs)
    BY <1>0, <1>7, HandlerStepAllowed
  <2>2. Grown(c, "none", "other", NoHandler, hs)
    BY <2>1 DEF Allowed
  <2>3. excuse'[c] # "none" /\ (excuse'[c] # "raced" => excuse[c] # "raced")
    BY <1>0, <1>1, <1>3, <1>7 DEF Refuse
  <2>4. Decides(h, c)
    BY <1>1, <1>7 DEF Refuse, At, Decides, Deciding, Steps
  <2>5. Orderly(c) => Orderly(c)'
    BY <1>1, <2>1, <2>2, <2>4, FreedAlone, PostsOrderly
  <2> QED
    BY <1>1, <1>2, <2>1, <2>3, <2>5, AllowedSettles DEF Settled
<1>8. CASE Load(h)
  <2>1. PICK hs : /\ Allowed(c, LoadedState(c), "other", h, hs)
                  /\ \A g \in Handler : g # h => hs[g] = handler[g]
                  /\ hs[h].step = "save" /\ hs[h].cron = c
                  /\ hs[h].held = IF rec[c] = "none" THEN "none" ELSE "live"
    BY <1>0, <1>8, HandlerStepAllowed
  <2> DEFINE to == LoadedState(c)
  <2>2. Grown(c, to, "other", h, hs) /\ to \in {"on", "off"} /\ (to = "off" => rec[c] # "none")
    BY <2>1 DEF Allowed, LoadedState
  <2> HIDE DEF to
  <2>3. thread' = thread /\ job'[c] = "armed" /\ (excuse'[c] # "raced" => excuse[c] # "raced")
    BY <1>0, <1>1, <1>2, <1>3, <1>8 DEF Load
  <2>4. Doing(h, c, "parse") /\ Decides(h, c)
    BY <1>1, <1>8 DEF Load, At, Doing, Decides, Deciding, Steps
  <2>5. \A g \in Handler : handler'[g] = hs[g]
    BY <1>1, <2>2, RecGrows
  <2>6. Busy(c, Changing)'
    BY <2>1, <2>5 DEF Busy, CronOf, Changing
  <2>7. ASSUME Orderly(c) PROVE Orderly(c)'
    <3>1. thread[c] = "open" /\ OnlyTo(c, {"keep"})
      BY <2>4, <2>7 DEF Orderly
    <3>2. ASSUME NEW g \in Handler, handler'[g].step \in Steps, handler'[g].cron = c, g # h
          PROVE  Doing(g, c, "post") /\ handler'[g].step = "post"
      <4>1. handler'[g] = handler[g] /\ ~Decides(g, c)
        BY <2>1, <2>4, <2>5, <2>7, <3>2 DEF Orderly
      <4> QED
        BY <3>2, <4>1 DEF Decides, Deciding, Steps, Doing
    <3>3. \A g, k \in Handler : Decides(g, c)' /\ Decides(k, c)' => g = k
      BY <3>2 DEF Decides, Deciding, Steps
    <3>4. \A i \in 1 .. Len(writes) : writes[i].owner # h
      BY <2>4, NoHandlerAssumption DEF PauseInv, OwnerInv, Doing
    <3>5. ASSUME NEW i \in 1 .. Len(writes'), writes'[i].cron = c
          PROVE  \/ writes'[i].owner # h /\ writes'[i].to = "keep"
                 \/ writes'[i].owner = h /\ writes'[i].to = "on"
                 \/ writes'[i].owner = h /\ writes'[i].to = "off" /\ handler'[h].held = "live"
      <4>1. CASE i \in 1 .. Len(writes)
        BY <2>2, <3>1, <3>4, <3>5, <4>1 DEF Grown, OnlyTo
      <4>2. CASE i \notin 1 .. Len(writes)
        <5>1. i = Len(writes) + 1 /\ writes'[i].to = to /\ writes'[i].owner = h
          BY <2>2, <4>2 DEF Grown
        <5> QED
          BY <2>1, <2>2, <2>5, <5>1
      <4> QED
        BY <4>1, <4>2
    <3>6. LoadsOnly(h, c)' /\ handler'[h].held \in {"none", "live"}
      BY <2>1, <2>5, <3>5 DEF LoadsOnly
    <3>7. ASSUME NEW g \in Handler, Doing(g, c, "post")'
          PROVE  /\ rec'[c] # "none" /\ OnlyTo(c, {"on", "off", "keep"})'
                 /\ ~Busy(c, {"remove", "archive"})'
      <4>1. Doing(g, c, "post")
        BY <2>1, <2>5, <3>2, <3>7 DEF Doing, Steps
      <4>2. rec[c] # "none" /\ OnlyTo(c, {"on", "off", "keep"})
        BY <2>7, <4>1 DEF Orderly
      <4>3. OnlyTo(c, {"on", "off", "keep"})'
        BY <2>2, <4>2, OnlyGrows
      <4>4. ~Busy(c, {"remove", "archive"})'
        BY <2>1, <2>5, <3>2 DEF Busy, CronOf, Steps
      <4> QED
        BY <1>1, <2>2, <4>2, <4>3, <4>4, RecGrows
    <3>8. \A g \in Handler : /\ ~Doing(g, c, "parse")' /\ ~Doing(g, c, "remove")'
                             /\ ~Doing(g, c, "archive")'
                             /\ Doing(g, c, "save")' => g = h
      BY <2>1, <2>5, <3>2 DEF Doing, Steps
    <3> QED
      BY <2>3, <3>1, <3>3, <3>6, <3>7, <3>8 DEF Orderly
  <2> QED
    BY <1>1, <1>2, <2>1, <2>3, <2>6, <2>7, AllowedSettles DEF Settled, Consistent
<1> QED
  BY <1>4, <1>5, <1>6, <1>7, <1>8 DEF HandlerStep

(* The end of a write takes job and record to agreement, if its handler has  *)
(* changed the job; a loader whose write failed is noted.                    *)
LEMMA FlushSettles ==
  ASSUME TypeInv, PauseInv, SettleInv, FlushDone \/ FlushFails
  PROVE  SettleInv'
<1>1. writes # <<>> /\ NextWrite /\ thread' = thread
  BY DEF FlushDone, FlushFails
<1>2. PICK ok \in BOOLEAN : WakeOwner(ok)
  BY DEF FlushDone, FlushFails
<1>3. Drained
  BY <1>1, <1>2, DrainedIs
<1>4. /\ Len(writes) \in Nat /\ Len(writes) >= 1 /\ Head(writes) = writes[1]
      /\ Len(writes') = Len(writes) - 1
      /\ 1 \in 1 .. Len(writes) /\ Head(writes) \in Write
      /\ Head(writes).cron \in Cron /\ Head(writes).owner \in Handler \cup {NoHandler}
  <2>1. /\ Len(writes) \in Nat /\ Len(writes) >= 1 /\ Head(writes) = writes[1]
        /\ Len(writes') = Len(writes) - 1
    BY <1>3 DEF Drained
  <2>2. Head(writes) \in Write
    BY <1>1, TypeInvParts
  <2> QED
    BY <2>1, <2>2 DEF Write
<1>5. /\ rec \in [Cron -> {"none", "on", "off"}]
      /\ job \in [Cron -> {"none", "armed", "stopped"}]
      /\ excuse \in [Cron -> {"none", "refused", "raced"}]
  BY TypeInvParts DEF Rest
<1> SUFFICES ASSUME NEW c \in Cron PROVE Settled(c)'
  BY DEF SettleInv
<1>6. Settled(c)
  BY DEF SettleInv
<1>7. /\ excuse'[c] # "raced" => excuse'[c] = excuse[c]
      /\ \/ job'[c] = job[c]
         \/ /\ FlushDone /\ Head(writes).cron = c /\ Head(writes).owner \in Handler
            /\ RestoresDisabled(Head(writes).owner)
            /\ job'[c] = IF job[c] = "none" THEN "none" ELSE "stopped"
  BY <1>4, <1>5 DEF FlushDone, FlushFails, Stopped
(* Each handler goes on as it was, but for the one that awaited the write.   *)
<1>8. ASSUME NEW h \in Handler
      PROVE  \/ /\ h # Head(writes).owner
                /\ handler'[h].step = handler[h].step /\ handler'[h].cron = handler[h].cron
             \/ /\ h = Head(writes).owner /\ handler[h].step = "remove"
                /\ handler'[h].step = "archive" /\ handler'[h].cron = handler[h].cron
             \/ h = Head(writes).owner /\ handler'[h] = Free
  BY <1>3 DEF Drained
<1>9. ASSUME NEW h \in Handler, h = Head(writes).owner
      PROVE  handler[h].step \in {"save", "remove"} /\ handler[h].cron = Head(writes).cron
  BY <1>4, <1>9, NoHandlerAssumption DEF PauseInv, OwnerInv
<1>10. ASSUME NEW kinds, OnlyTo(c, kinds), "remove" \in kinds => "nothing" \in kinds
       PROVE  OnlyTo(c, kinds)'
  <2> SUFFICES ASSUME NEW i \in 1 .. Len(writes'), writes'[i].cron = c
               PROVE  writes'[i].to \in kinds
    BY DEF OnlyTo
  <2>1. /\ i + 1 \in 1 .. Len(writes) /\ writes'[i].cron = writes[i + 1].cron
        /\ writes[i + 1].to # "remove" => writes'[i].to = writes[i + 1].to
        /\ writes[i + 1].to = "remove" => writes'[i].to \in {"remove", "nothing"}
    BY <1>3, <1>4 DEF Drained
  <2> QED
    BY <1>10, <2>1 DEF OnlyTo
<1>11. /\ rec[c] = "none" /\ OnlyTo(c, {"remove", "nothing"}) => rec'[c] = "none"
       /\ rec[c] # "none" /\ OnlyTo(c, {"on", "off", "keep"}) => rec'[c] # "none"
       /\ (\A i \in 2 .. Len(writes) : writes[i].cron = c => writes[i].to = "keep")
            => rec'[c] = rec[c] \/ rec[c] = "none"
       /\ rec[c] = "none" /\ ~Pending(c) => rec'[c] = "none"
  BY <1>3, <1>4 DEF Drained, Applied, OnlyTo, Pending
<1>12. Pending(c)' => Pending(c)
  BY <1>3, <1>4, DrainedCron DEF Pending
<1>13. ASSUME Orderly(c), excuse'[c] # "raced" PROVE Orderly(c)'
  <2>1. \A g, h \in Handler : Decides(g, c)' /\ Decides(h, c)' => g = h
    BY <1>3, <1>13, DrainedCron DEF Orderly, Decides
  <2>2. ASSUME NEW h \in Handler, Doing(h, c, "parse")'
        PROVE  thread'[c] = "open" /\ OnlyTo(c, {"keep"})' /\ (rec'[c] = "none" => ~Pending(c)')
    <3>1. Doing(h, c, "parse")
      BY <1>8, <2>2 DEF Doing, Free
    <3>2. thread[c] = "open" /\ OnlyTo(c, {"keep"}) /\ (rec[c] = "none" => ~Pending(c))
      BY <1>13, <3>1 DEF Orderly
    <3>3. OnlyTo(c, {"on", "off", "keep"})
      BY <3>2 DEF OnlyTo
    <3>4. OnlyTo(c, {"keep"})'
      BY <1>10, <3>2
    <3> QED
      BY <1>1, <1>11, <1>12, <3>2, <3>3, <3>4
  <2>3. ASSUME NEW h \in Handler, Doing(h, c, "save")'
        PROVE  /\ thread'[c] = "open" /\ job'[c] = "armed"
               /\ handler'[h].held \in {"none", "live"} /\ LoadsOnly(h, c)'
    <3>1. Doing(h, c, "save") /\ h # Head(writes).owner
      BY <1>8, <1>9, <2>3 DEF Doing, Free
    <3>2. /\ thread[c] = "open" /\ job[c] = "armed"
          /\ handler[h].held \in {"none", "live"} /\ LoadsOnly(h, c)
      BY <1>13, <3>1 DEF Orderly
    <3>3. ASSUME NEW i \in 1 .. Len(writes), writes[i].cron = c PROVE writes[i].to # "remove"
      BY <3>2, <3>3 DEF LoadsOnly
    <3>4. handler'[h] = handler[h]
      <4>1. Len(writes) > 1 => 2 \in 1 .. Len(writes)
        BY <1>4
      <4> QED
        BY <1>3, <3>1, <3>3, <4>1 DEF Drained, Doing
    <3>5. job'[c] = job[c]
      <4> SUFFICES ASSUME Head(writes).cron = c, Head(writes).owner \in Handler PROVE FALSE
        BY <1>7
      <4>1. Decides(h, c) /\ Decides(Head(writes).owner, c)
        BY <1>9, <3>1 DEF Decides, Doing, Deciding, Steps
      <4> QED
        BY <1>13, <3>1, <4>1 DEF Orderly
    <3>6. ASSUME NEW i \in 1 .. Len(writes'), writes'[i].cron = c
          PROVE  \/ writes'[i].owner # h /\ writes'[i].to = "keep"
                 \/ writes'[i].owner = h /\ writes'[i].to = "on"
                 \/ writes'[i].owner = h /\ writes'[i].to = "off" /\ handler'[h].held = "live"
      <4>1. /\ i + 1 \in 1 .. Len(writes) /\ writes'[i].cron = writes[i + 1].cron
            /\ writes'[i].owner = writes[i + 1].owner
            /\ writes[i + 1].to # "remove" => writes'[i].to = writes[i + 1].to
        BY <1>3, <1>4 DEF Drained
      <4> QED
        BY <3>2, <3>3, <3>4, <3>6, <4>1 DEF LoadsOnly
    <3> QED
      BY <1>1, <3>2, <3>4, <3>5, <3>6 DEF LoadsOnly
  <2>4. ASSUME NEW h \in Handler, Doing(h, c, "remove")' \/ Doing(h, c, "archive")'
        PROVE  /\ job'[c] = "none" /\ OnlyTo(c, {"remove", "nothing"})'
               /\ Doing(h, c, "archive")' => rec'[c] = "none"
    <3>1. Doing(h, c, "remove") \/ Doing(h, c, "archive")
      BY <1>8, <2>4 DEF Doing, Free
    <3>2. job[c] = "none" /\ OnlyTo(c, {"remove", "nothing"})
      BY <1>13, <3>1 DEF Orderly
    <3>3. ASSUME Doing(h, c, "archive")' PROVE rec[c] = "none"
      <4>1. CASE Doing(h, c, "archive")
        BY <1>13, <4>1 DEF Orderly
      <4>2. CASE ~Doing(h, c, "archive")
        <5>1. h = Head(writes).owner /\ Head(writes).cron = c
          BY <1>8, <1>9, <3>1, <3>3, <4>2 DEF Doing, Free
        <5>2. Head(writes).to \in {"remove", "nothing"}
          BY <1>4, <3>2, <5>1 DEF OnlyTo
        <5> QED
          BY <1>1, <5>1, <5>2 DEF PauseInv, HeadInv
      <4> QED
        BY <4>1, <4>2
    <3>4. OnlyTo(c, {"remove", "nothing"})'
      BY <1>10, <3>2
    <3> QED
      BY <1>7, <1>11, <3>2, <3>3, <3>4
  <2>5. ASSUME NEW h \in Handler, Doing(h, c, "post")'
        PROVE  /\ rec'[c] # "none" /\ OnlyTo(c, {"on", "off", "keep"})'
               /\ ~Busy(c, {"remove", "archive"})'
    <3>1. Doing(h, c, "post")
      BY <1>8, <2>5 DEF Doing, Free
    <3>2. /\ rec[c] # "none" /\ OnlyTo(c, {"on", "off", "keep"})
          /\ ~Busy(c, {"remove", "archive"})
      BY <1>13, <3>1 DEF Orderly
    <3>3. OnlyTo(c, {"on", "off", "keep"})'
      BY <1>10, <3>2
    <3>4. ~Busy(c, {"remove", "archive"})'
      BY <1>8, <3>2 DEF Busy, CronOf, Free
    <3> QED
      BY <1>11, <3>2, <3>3, <3>4
  <2> QED
    BY <2>1, <2>2, <2>3, <2>4, <2>5 DEF Orderly
<1>14. ASSUME Orderly(c), Consistent(c), excuse'[c] = "none" PROVE Consistent(c)'
  <2> SUFFICES ASSUME ~Busy(c, Changing)'
               PROVE  /\ \A v : Becomes(c, v)' => Agree(v, c)'
                      /\ thread'[c] \in {"none", "gone"} => job'[c] = "none"
    BY DEF Consistent
  <2>1. \A v : Becomes(c, v)' => Becomes(c, v)
    BY <1>3, DrainedBecomes
  <2>2. CASE ~Busy(c, Changing)
    <3>1. job'[c] = job[c]
      BY <1>7, <1>9, <2>2 DEF Busy, CronOf, Changing
    <3> QED
      BY <1>1, <1>14, <2>1, <2>2, <3>1 DEF Consistent, Agree
  <2>3. CASE Busy(c, Changing)
    <3>1. PICK h \in Handler : handler[h].step \in Changing /\ handler[h].cron = c
      BY <2>3 DEF Busy, CronOf
    <3>2. h = Head(writes).owner /\ handler'[h] = Free /\ Head(writes).cron = c
      BY <1>8, <1>9, <3>1 DEF Busy, CronOf, Changing
    <3>3. CASE handler[h].step = "remove"
      <4>1. job[c] = "none" /\ OnlyTo(c, {"remove", "nothing"})
        BY <1>14, <3>1, <3>3 DEF Orderly, Doing
      <4>2. rec[c] = "none"
        BY <1>1, <1>4, <3>2, <4>1 DEF OnlyTo, PauseInv, HeadInv
      <4>3. \A v : Becomes(c, v)' => v = "none"
        BY <2>1, <4>1, <4>2, OnlyBecomes
      <4> QED
        BY <1>7, <4>1, <4>3 DEF Agree
    <3>4. CASE handler[h].step = "save"
      <4>1. FlushDone
        <5> SUFFICES ASSUME FlushFails PROVE FALSE
          OBVIOUS
        <5>1. excuse' = [excuse EXCEPT ![c] = "raced"]
          BY <3>1, <3>2, <3>4, NoHandlerAssumption DEF FlushFails, At
        <5> QED
          BY <1>5, <1>14, <5>1
      <4>2. /\ thread[c] = "open" /\ job[c] = "armed"
            /\ handler[h].held \in {"none", "live"} /\ LoadsOnly(h, c)
        BY <1>14, <3>1, <3>4 DEF Orderly, Doing
      <4>3. /\ Head(writes).to \in {"on", "off"}
            /\ Head(writes).to = "off" => handler[h].held = "live"
        BY <1>4, <3>2, <4>2 DEF LoadsOnly
      <4>4. rec[c] = Head(writes).to
        BY <1>1, <3>2, <4>3 DEF PauseInv, HeadInv
      <4>5. ASSUME NEW i \in 2 .. Len(writes), writes[i].cron = c PROVE writes[i].to = "keep"
        <5>1. writes[i].owner # h
          BY <1>4, <3>2, NoHandlerAssumption DEF PauseInv, OwnerInv
        <5> QED
          BY <1>4, <4>2, <4>5, <5>1 DEF LoadsOnly
      <4>6. rec'[c] = rec[c]
        BY <1>11, <4>3, <4>4, <4>5
      <4>7. \A v : Becomes(c, v)' => v = rec[c]
        BY <2>1, <4>3, <4>4, <4>5, OnlyBecomes
      <4>8. CASE rec[c] = "off"
        <5>1. RestoresDisabled(h)
          BY <3>1, <3>4, <4>3, <4>4, <4>6, <4>8 DEF RestoresDisabled, At, CronOf
        <5>2. job' = Stopped(c)
          BY <3>2, <4>1, <5>1, NoHandlerAssumption DEF FlushDone
        <5>3. job'[c] # "armed"
          BY <5>2, StoppedIs
        <5> QED
          BY <1>1, <4>2, <4>7, <4>8, <5>3 DEF Agree
      <4>9. CASE rec[c] = "on"
        <5>1. ~RestoresDisabled(h)
          BY <3>1, <4>2, <4>6, <4>9 DEF RestoresDisabled, CronOf
        <5>2. job'[c] = "armed"
          BY <1>7, <3>2, <4>2, <5>1
        <5> QED
          BY <1>1, <4>2, <4>7, <4>9, <5>2 DEF Agree
      <4> QED
        BY <4>3, <4>4, <4>8, <4>9
    <3> QED
      BY <1>9, <3>2, <3>3, <3>4
  <2> QED
    BY <2>2, <2>3
<1> QED
  BY <1>6, <1>7, <1>13, <1>14 DEF Settled

(* A restart takes every job from the file. *)
LEMMA RestartSettles ==
  ASSUME TypeInv, Restart
  PROVE  SettleInv'
<1>1. writes' = <<>> /\ rec' = disk /\ \A h \in Handler : handler'[h].step = "free"
  BY DEF Restart, Free
<1> SUFFICES ASSUME NEW c \in Cron PROVE Settled(c)'
  BY DEF SettleInv
<1>2. Orderly(c)'
  <2>1. ~Busy(c, Steps)'
    BY <1>1 DEF Busy, Steps
  <2> QED
    BY <2>1, NoneOrderly
<1>3. PICK t \in [Cron -> {"none", "open", "archived", "gone"}] :
        /\ thread' = t
        /\ job' = [d \in Cron |->
                     IF t[d] # "open" \/ disk[d] = "none" THEN "none"
                     ELSE IF disk[d] = "off" THEN "stopped" ELSE "armed"]
  BY DEF Restart
<1>4. \A v : Becomes(c, v)' => v = disk[c]
  <2>1. Len(writes') = 0
    BY <1>1
  <2> QED
    BY <1>1, <2>1 DEF Becomes, Result, KeepAfter
<1>5. disk[c] \in {"none", "on", "off"}
  BY TypeInvParts DEF Rest
<1>6. /\ disk[c] = "off" => job'[c] # "armed"
      /\ disk[c] = "on" /\ thread'[c] = "open" => job'[c] = "armed"
      /\ disk[c] = "none" \/ thread'[c] # "open" => job'[c] = "none"
  BY <1>3, <1>5
<1> QED
  BY <1>2, <1>4, <1>6 DEF Settled, Consistent, Agree

LEMMA StillSettled ==
  ASSUME SettleInv, UNCHANGED vars
  PROVE  SettleInv'
<1> SUFFICES ASSUME NEW c \in Cron PROVE Settled(c)'
  BY DEF SettleInv
<1>1. /\ thread' = thread /\ job' = job /\ rec' = rec /\ writes' = writes
      /\ handler' = handler /\ excuse' = excuse
  BY DEF vars, store, history
<1>2. Orderly(c) => Orderly(c)'
  BY <1>1 DEF Orderly, OnlyTo, LoadsOnly, Doing, Decides, Busy, Pending, CronOf
<1>3. ASSUME NEW v, Becomes(c, v)' PROVE Becomes(c, v)
  BY <1>1, <1>3 DEF Becomes, Decisive, Result, KeepAfter
<1>4. Busy(c, Changing) => Busy(c, Changing)'
  BY <1>1 DEF Busy, CronOf
<1> QED
  BY <1>1, <1>2, <1>3, <1>4 DEF SettleInv, Settled, Consistent, Agree

(* When nothing of a cron is under way and its operations did not overlap,   *)
(* its job does what its record says, for every number of crons, handlers,   *)
(* failed writes and restarts.                                               *)
THEOREM SettledAgree == Spec => []SettledIsConsistent
<1>1. Init => SettleInv
  <2> SUFFICES ASSUME Init, NEW c \in Cron PROVE Settled(c)
    BY DEF SettleInv
  <2>1. writes = <<>> /\ Len(writes) = 0 /\ \A h \in Handler : handler[h].step = "free"
    BY DEF Init, Free
  <2>2. Orderly(c)
    BY <2>1 DEF Orderly, Doing, Decides, Deciding, Steps
  <2>3. \A v : Becomes(c, v) => v = "none"
    BY <2>1 DEF Init, Becomes, Result, KeepAfter
  <2> QED
    BY <2>2, <2>3 DEF Init, Settled, Consistent, Agree
<1>2. TypeInv /\ PauseInv /\ SettleInv /\ [Next]_vars => SettleInv'
  BY CommandSettles, EventSettles, HandlerStepSettles, FlushSettles, RestartSettles, StillSettled
  DEF Next, Quiet
<1>3. TypeInv /\ SettleInv => SettledIsConsistent
  <2> SUFFICES ASSUME TypeInv, SettleInv, NEW c \in Cron, Calm(c), excuse[c] = "none"
               PROVE  /\ rec[c] = "off" => job[c] # "armed"
                      /\ rec[c] = "on" /\ thread[c] = "open" => job[c] = "armed"
                      /\ rec[c] = "none" \/ thread[c] \in {"none", "gone"} => job[c] = "none"
    BY DEF SettledIsConsistent
  <2>1. ~Busy(c, Changing) /\ Consistent(c)
    BY DEF SettleInv, Settled, Calm, Busy, Changing, Steps
  <2>2. Becomes(c, rec[c])
    <3>1. /\ \A j \in 2 .. Len(writes) : ~Decisive(c, j)
          /\ ~KeepAfter(c, 1)
      BY TypeInvParts DEF Calm, Pending, Decisive, KeepAfter
    <3> QED
      BY <3>1 DEF Becomes, Result
  <2> QED
    BY <2>1, <2>2 DEF Consistent, Agree
<1> QED
  BY <1>1, <1>2, <1>3, TypeInvariant, PauseInvariant, PTL DEF Spec
=============================================================================
