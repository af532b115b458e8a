------------------------- MODULE CronExecutorProofs -------------------------
(***************************************************************************)
(* Proofs about CronExecutor for every set of crons, every chain and every  *)
(* bound: its types, that one cron never has two runs, that the four        *)
(* bookkeepings of a run agree, and that the chain depth is bounded.        *)
(***************************************************************************)
EXTENDS CronExecutor, SequenceTheorems, TLAPS

(* The bookkeepings taken run by run and key by key: an activation in its   *)
(* critical part is the cancelable run of its cron and entered everywhere, and *)
(* nothing else is entered anywhere.                                         *)
RunsEntered ==
  \A r \in Run :
    InRun(r) => /\ canceler[CronOf(r)] = r
                /\ CronOf(r) \in activeKeys
                /\ JobOf(r) \in running

EntriesRun ==
  /\ \A c \in Cron : canceler[c] # NoRun => InRun(canceler[c]) /\ CronOf(canceler[c]) = c
  /\ \A c \in activeKeys : canceler[c] # NoRun
  /\ \A c \in Cron, g \in 1 .. MaxGeneration :
       <<c, g>> \in running => canceler[c] # NoRun /\ act[canceler[c]].gen = g

(* The lock is with the run that can be canceled, or left over. *)
LocksAgree ==
  \A c \in Cron : lock[c] = canceler[c] \/ (lock[c] = Leftover /\ canceler[c] = NoRun)

DepthInv ==
  /\ ChainDepthBounded
  /\ \A r \in Run : \A i \in 1 .. Len(todo[r]) : todo[r][i].depth <= MaxChainDepth

IInv == TypeOK /\ RunsEntered /\ EntriesRun /\ LocksAgree

-----------------------------------------------------------------------------
(* The types. *)

LEMMA InitTypeOK == Init => TypeOK
  BY NoRunAssumption, BoundsAssumption
  DEF Init, TypeOK, Activation, Free, Handoff

LEMMA SetStatusType ==
  ASSUME TypeOK, NEW c, NEW s \in {"none", "running", "ended", "interrupted"},
         SetStatus(c, s)
  PROVE  status' \in [Cron -> {"none", "running", "ended", "interrupted"}]
  BY DEF TypeOK, SetStatus

(* A slot goes to another step. *)
LEMMA GotoType ==
  ASSUME TypeOK, NEW r \in Run, NEW s \in Steps, ~At(r, "free"), Goto(r, s)
  PROVE  act' \in [Run -> Activation \cup {Free}]
  <1>1. act[r] \in Activation
    BY DEF TypeOK, At, Free
  <1>2. [act[r] EXCEPT !.step = s] \in Activation
    BY <1>1 DEF Activation
  <1>3. act' = [act EXCEPT ![r] = [act[r] EXCEPT !.step = s]]
    BY DEF Goto
  <1> QED
    BY <1>2, <1>3 DEF TypeOK

LEMMA EndType ==
  ASSUME TypeOK, NEW r \in Run, End(r)
  PROVE  act' \in [Run -> Activation \cup {Free}]
  BY DEF TypeOK, End

LEMMA BeginType ==
  ASSUME TypeOK, NEW r \in Run, NEW c \in Cron, NEW g \in 1 .. MaxGeneration, NEW d \in Nat,
         BeginRun(r, c, g, d)
  PROVE  act' \in [Run -> Activation \cup {Free}]
  BY DEF TypeOK, BeginRun, Activation, Steps

(* A slot in use has a cron and a job object. *)
LEMMA UsedSlot ==
  ASSUME TypeOK, NEW r \in Run, ~At(r, "free")
  PROVE  /\ act[r] \in Activation
         /\ CronOf(r) \in Cron
         /\ act[r].gen \in 1 .. MaxGeneration
         /\ act[r].depth \in Nat
         /\ JobOf(r) = <<CronOf(r), act[r].gen>>
         /\ JobOf(r) \in Cron \X (1 .. MaxGeneration)
  <1>1. act[r] \in Activation
    BY DEF TypeOK, At, Free
  <1> QED
    BY <1>1 DEF Activation, CronOf, JobOf

(* The last await of the finally block returned. *)
LEMMA AfterCleanupType ==
  ASSUME TypeOK, NEW r \in Run, ~At(r, "free"), AfterCleanup(r)
  PROVE  act' \in [Run -> Activation \cup {Free}]
  BY GotoType, EndType DEF AfterCleanup, Steps

(* A record may come back. *)
LEMMA TryUpsertType ==
  ASSUME TypeOK, NEW c \in Cron, TryUpsert(c)
  PROVE  /\ recorded' \subseteq Cron /\ chained' \subseteq Cron
         /\ status' \in [Cron -> {"none", "running", "ended", "interrupted"}]
  <1>1. CASE UNCHANGED stats
    BY <1>1 DEF TypeOK, stats
  <1>2. CASE Upsert(c)
    BY <1>2 DEF Upsert, TypeOK
  <1> QED
    BY <1>1, <1>2 DEF TryUpsert

LEMMA ExecuteType ==
  ASSUME TypeOK, NEW c \in Cron, NEW g \in 1 .. MaxGeneration, NEW d \in Nat, Execute(c, g, d)
  PROVE  /\ act' \in [Run -> Activation \cup {Free}]
         /\ queuedKeys' \subseteq Cron
  <1>1. CASE Overlap(c, g) /\ UNCHANGED act
    BY <1>1 DEF TypeOK, Overlap
  <1>2. CASE /\ \E r \in Run : At(r, "free") /\ BeginRun(r, c, g, d)
             /\ UNCHANGED queuedKeys
    BY <1>2, BeginType DEF TypeOK
  <1> QED
    BY <1>1, <1>2 DEF Execute

LEMMA DownstreamType ==
  ASSUME NEW c \in Cron, NEW d \in Nat
  PROVE  Downstream(c, d) \in Seq(Handoff)
  <1> DEFINE n == Len(Chain[c])
  <1>1. Chain[c] \in Seq(Cron) /\ n \in Nat
    BY ChainAssumption
  <1>2. \A i \in 1 .. n :
          [to |-> Chain[c][i], gen |-> 0, depth |-> d, sent |-> FALSE] \in Handoff
    BY <1>1, BoundsAssumption DEF Handoff
  <1>3. Downstream(c, d) \in [1 .. n -> Handoff]
    BY <1>2 DEF Downstream
  <1> QED
    BY <1>1, <1>3, SeqDef

LEMMA ChainItemsType ==
  ASSUME TypeOK, NEW r \in Run, ~At(r, "free")
  PROVE  ChainItems(r) \in Seq(Handoff)
  <1>1. CronOf(r) \in Cron /\ act[r].depth + 1 \in Nat
    BY UsedSlot
  <1>2. Downstream(CronOf(r), act[r].depth + 1) \in Seq(Handoff)
    BY <1>1, DownstreamType
  <1> QED
    BY <1>2 DEF ChainItems

LEMMA FireType == ASSUME TypeOK, NEW c \in Cron, Fire(c) PROVE TypeOK'
  <1>1. current[c] \in 1 .. MaxGeneration
    BY BoundsAssumption DEF TypeOK, Fire
  <1>2. act' \in [Run -> Activation \cup {Free}] /\ queuedKeys' \subseteq Cron
    BY <1>1, ExecuteType DEF Fire
  <1> QED
    BY <1>2, BoundsAssumption DEF TypeOK, Fire, scheduler, stats, control

LEMMA LockStepsType ==
  ASSUME TypeOK, NEW r \in Run,
         AcquireLock(r) \/ FailLock(r) \/ ReleaseLock(r) \/ UpdateStatusMessage(r)
  PROVE  TypeOK'
  <1>1. CASE AcquireLock(r)
    <2>1. ~At(r, "free") BY <1>1 DEF AcquireLock, At
    <2>2. act' \in [Run -> Activation \cup {Free}]
      BY <1>1, <2>1, GotoType DEF AcquireLock, Steps, Critical
    <2>3. CronOf(r) \in Cron /\ JobOf(r) \in Cron \X (1 .. MaxGeneration)
      BY <2>1, UsedSlot
    <2>4. /\ running' \subseteq Cron \X (1 .. MaxGeneration) /\ activeKeys' \subseteq Cron
          /\ lock' \in [Cron -> Run \cup {NoRun, Leftover}] /\ canceler' \in [Cron -> Run \cup {NoRun}]
      BY <1>1, <2>3 DEF AcquireLock, TypeOK
    <2> QED
      BY <1>1, <2>2, <2>4 DEF AcquireLock, TypeOK, scheduler, stats, bounds, control
  <1>2. CASE FailLock(r)
    BY <1>2, EndType DEF FailLock, TypeOK, scheduler, guards, stats, bounds, control
  <1>3. CASE ReleaseLock(r)
    <2>1. ~At(r, "free") BY <1>3 DEF ReleaseLock, At
    <2>2. act' \in [Run -> Activation \cup {Free}]
      BY <1>3, <2>1, GotoType, AfterCleanupType DEF ReleaseLock, Cleanup, Steps
    <2>3. lock' \in [Cron -> Run \cup {NoRun, Leftover}]
      BY <1>3, <2>1, UsedSlot DEF ReleaseLock, TypeOK
    <2> QED
      BY <1>3, <2>1, <2>2, <2>3, UsedSlot
      DEF ReleaseLock, Cleanup, TypeOK, scheduler, stats, bounds
  <1>4. CASE UpdateStatusMessage(r)
    <2>1. ~At(r, "free") BY <1>4 DEF UpdateStatusMessage, At
    <2>2. act' \in [Run -> Activation \cup {Free}]
      BY <1>4, <2>1, AfterCleanupType DEF UpdateStatusMessage
    <2> QED
      BY <1>4, <2>1, <2>2, TryUpsertType, UsedSlot
      DEF UpdateStatusMessage, EnsureStatusMessage, TypeOK, scheduler, guards, bounds, control
  <1> QED
    BY <1>1, <1>2, <1>3, <1>4

LEMMA EndWithErrorType ==
  ASSUME TypeOK, NEW r \in Run, ~At(r, "free"), EndWithError(r)
  PROVE  TypeOK'
  <1>1. act' \in [Run -> Activation \cup {Free}]
    BY GotoType DEF EndWithError, Steps, Critical
  <1>2. status' \in [Cron -> {"none", "running", "ended", "interrupted"}]
    BY SetStatusType DEF EndWithError
  <1> QED
    BY <1>1, <1>2 DEF EndWithError, TypeOK, scheduler, guards, bounds, control

LEMMA RunBodyType ==
  ASSUME TypeOK, NEW r \in Run,
         \/ RecordStart(r) \/ RejectRun(r) \/ Prepare(r) \/ Announce(r) \/ RuntimeFails(r)
         \/ RuntimeSucceeds(r) \/ PersistState(r) \/ OutputFails(r) \/ OutputSent(r)
  PROVE  TypeOK'
  <1>1. CASE RecordStart(r)
    <2>1. act' \in [Run -> Activation \cup {Free}]
      BY <1>1, GotoType DEF RecordStart, Steps, Critical, At
    <2>2. status' \in [Cron -> {"none", "running", "ended", "interrupted"}]
      BY <1>1, SetStatusType DEF RecordStart
    <2> QED
      BY <1>1, <2>1, <2>2 DEF RecordStart, TypeOK, scheduler, guards, bounds, control
  <1>2. CASE RejectRun(r) \/ RuntimeFails(r) \/ OutputFails(r)
    BY <1>2, EndWithErrorType DEF RejectRun, RuntimeFails, OutputFails, At
  <1>3. CASE Prepare(r)
    <2>1. act' \in [Run -> Activation \cup {Free}]
      BY <1>3, GotoType DEF Prepare, Steps, Critical, At
    <2> QED
      BY <1>3, <2>1 DEF Prepare, TypeOK, scheduler, guards, stats, bounds, control
  <1>4. CASE RuntimeSucceeds(r)
    <2>1. act' \in [Run -> Activation \cup {Free}]
      BY <1>4, GotoType DEF RuntimeSucceeds, Steps, Critical, At
    <2> QED
      BY <1>4, <2>1 DEF RuntimeSucceeds, TypeOK, scheduler, guards, stats, bounds, control
  <1>5. CASE PersistState(r)
    <2>1. ~At(r, "free") BY <1>5 DEF PersistState, At
    <2>2. act' \in [Run -> Activation \cup {Free}]
      BY <1>5, <2>1, GotoType DEF PersistState, Steps, Critical
    <2>3. CronOf(r) \in Cron
      BY <2>1, UsedSlot
    <2>4. /\ recorded' \subseteq Cron /\ chained' \subseteq Cron
          /\ status' \in [Cron -> {"none", "running", "ended", "interrupted"}]
      BY <1>5, <2>3, TryUpsertType DEF PersistState
    <2> QED
      BY <1>5, <2>2, <2>4 DEF PersistState, TypeOK, scheduler, guards, bounds, control
  <1>6. CASE OutputSent(r)
    <2>1. act' \in [Run -> Activation \cup {Free}]
      BY <1>6, GotoType DEF OutputSent, Steps, Critical, At
    <2>2. status' \in [Cron -> {"none", "running", "ended", "interrupted"}]
      BY <1>6, SetStatusType DEF OutputSent
    <2> QED
      BY <1>6, <2>1, <2>2 DEF OutputSent, TypeOK, scheduler, guards, bounds, control
  <1>7. CASE Announce(r)
    <2>1. ~At(r, "free") BY <1>7 DEF Announce, At
    <2>2. act' \in [Run -> Activation \cup {Free}]
      BY <1>7, <2>1, GotoType DEF Announce, Steps, Critical
    <2> QED
      BY <1>7, <2>1, <2>2, TryUpsertType, UsedSlot DEF Announce, EnsureStatusMessage, TypeOK, scheduler, guards, bounds, control
  <1> QED
    BY <1>1, <1>2, <1>3, <1>4, <1>5, <1>6, <1>7

LEMMA FinalizeType == ASSUME TypeOK, NEW r \in Run, Finalize(r) PROVE TypeOK'
  <1>1. ~At(r, "free")
    BY DEF Finalize, At
  <1>2. act[r] \in Activation
    BY <1>1, UsedSlot
  <1>3. act' \in [Run -> Activation \cup {Free}]
    <2> DEFINE b == CronOf(r) \in queuedKeys
    <2>1. b \in BOOLEAN
      OBVIOUS
    <2>2. act' = [act EXCEPT ![r].step = "release", ![r].rerun = b]
      BY DEF Finalize
    <2> HIDE DEF b
    <2>3. [act[r] EXCEPT !.step = "release", !.rerun = b] \in Activation
      BY <1>2, <2>1 DEF Activation, Steps, Critical
    <2>4. act' = [act EXCEPT ![r] = [act[r] EXCEPT !.step = "release", !.rerun = b]]
      BY <2>2 DEF TypeOK
    <2> QED
      BY <2>3, <2>4 DEF TypeOK
  <1>4. todo' \in [Run -> Seq(Handoff)]
    <2>1. todo[r] \o ChainItems(r) \in Seq(Handoff)
      BY <1>1, ChainItemsType DEF TypeOK
    <2> QED
      BY <2>1 DEF Finalize, TypeOK
  <1> QED
    BY <1>3, <1>4 DEF Finalize, TypeOK, scheduler, stats, bounds, control

LEMMA RerunType == ASSUME TypeOK, NEW r \in Run, Rerun(r) PROVE TypeOK'
  <1>1. ~At(r, "free")
    BY DEF Rerun, At
  <1>2. act' \in [Run -> Activation \cup {Free}] /\ queuedKeys' \subseteq Cron
    <2>1. CASE Overlap(CronOf(r), act[r].gen) /\ End(r)
      BY <1>1, <2>1, UsedSlot, EndType DEF Overlap, TypeOK
    <2>2. CASE BeginRun(r, CronOf(r), act[r].gen, act[r].depth) /\ UNCHANGED queuedKeys
      BY <1>1, <2>2, UsedSlot, BeginType DEF TypeOK
    <2> QED
      BY <2>1, <2>2 DEF Rerun
  <1> QED
    BY <1>2 DEF Rerun, TypeOK, scheduler, stats, bounds, control

LEMMA HeadItem ==
  ASSUME TypeOK, NEW r \in Run, todo[r] # <<>>
  PROVE  /\ Item(r) = todo[r][1] /\ Item(r) \in Handoff /\ 1 \in 1 .. Len(todo[r])
         /\ Item(r).to \in Cron /\ Item(r).gen \in 0 .. MaxGeneration /\ Item(r).depth \in Nat
         /\ Tail(todo[r]) \in Seq(Handoff)
  <1>1. todo[r] \in Seq(Handoff)
    BY DEF TypeOK
  <1>2. Item(r) = todo[r][1] /\ Item(r) \in Handoff /\ Tail(todo[r]) \in Seq(Handoff)
        /\ 1 \in 1 .. Len(todo[r])
    BY <1>1 DEF Item
  <1> QED
    BY <1>2 DEF Handoff

LEMMA ChainStepType == ASSUME TypeOK, NEW r \in Run, ChainStep(r) PROVE TypeOK'
  <1>1. todo[r] # <<>>
    BY DEF ChainStep, SkipDownstream, FetchDownstream, ForwardState, LaunchDownstream
  <1>2. CASE SkipDownstream(r)
    BY <1>1, <1>2, HeadItem
    DEF SkipDownstream, NextItem, TypeOK, scheduler, guards, stats, bounds, control
  <1>3. CASE FetchDownstream(r)
    <2>1. [todo[r] EXCEPT ![1].gen = current[Item(r).to]] \in Seq(Handoff)
      <3>1. [todo[r][1] EXCEPT !.gen = current[Item(r).to]] \in Handoff
        BY <1>1, HeadItem DEF TypeOK, Handoff
      <3>2. todo[r] \in Seq(Handoff) /\ 1 \in 1 .. Len(todo[r])
        BY <1>1, HeadItem DEF TypeOK
      <3> QED
        BY <3>1, <3>2
    <2>2. todo' \in [Run -> Seq(Handoff)]
      BY <1>3, <2>1 DEF FetchDownstream, TypeOK
    <2> QED
      BY <1>3, <2>2 DEF FetchDownstream, TypeOK, scheduler, guards, stats, bounds, control
  <1>4. CASE ForwardState(r)
    <2>1. [todo[r] EXCEPT ![1].sent = TRUE] \in Seq(Handoff)
      <3>1. [todo[r][1] EXCEPT !.sent = TRUE] \in Handoff
        BY <1>1, HeadItem DEF TypeOK, Handoff
      <3>2. todo[r] \in Seq(Handoff) /\ 1 \in 1 .. Len(todo[r])
        BY <1>1, HeadItem DEF TypeOK
      <3> QED
        BY <3>1, <3>2
    <2>2. todo' \in [Run -> Seq(Handoff)]
      BY <1>4, <2>1 DEF ForwardState, TypeOK
    <2> QED
      BY <1>1, <1>4, <2>2, HeadItem, TryUpsertType
      DEF ForwardState, TypeOK, scheduler, guards, bounds, control
  <1>5. CASE LaunchDownstream(r)
    <2>1. Item(r).gen \in 1 .. MaxGeneration
      BY <1>1, <1>5, HeadItem, BoundsAssumption DEF LaunchDownstream, Fetched
    <2>2. act' \in [Run -> Activation \cup {Free}] /\ queuedKeys' \subseteq Cron
      BY <1>1, <1>5, <2>1, HeadItem, ExecuteType DEF LaunchDownstream
    <2> QED
      BY <1>1, <1>5, <2>2, HeadItem
      DEF LaunchDownstream, NextItem, TypeOK, scheduler, stats, bounds, control
  <1> QED
    BY <1>2, <1>3, <1>4, <1>5 DEF ChainStep

(* requestCancel of a free slot changes nothing. *)
LEMMA CancelFree == [Free EXCEPT !.cancel = TRUE] = Free
  BY DEF Free

LEMMA RequestCancelType ==
  ASSUME TypeOK, NEW c, RequestCancel(c)
  PROVE  act' \in [Run -> Activation \cup {Free}] /\ stopped' \subseteq Run
  <1>1. \A r \in Run : act'[r] \in Activation \cup {Free}
    <2>1. TAKE r \in Run
    <2>2. CASE canceler[c] # r
      BY <2>2 DEF RequestCancel, TypeOK
    <2>3. CASE canceler[c] = r /\ act[r] \in Activation
      BY <2>3 DEF RequestCancel, TypeOK, Activation
    <2>4. CASE canceler[c] = r /\ act[r] = Free
      BY <2>4, CancelFree DEF RequestCancel, TypeOK
    <2> QED
      BY <2>2, <2>3, <2>4 DEF TypeOK
  <1> QED
    BY <1>1 DEF RequestCancel, TypeOK

LEMMA ControlType ==
  ASSUME TypeOK, NEW c \in Cron, Register(c) \/ Cancel(c) \/ Delete(c) \/ RemoveRecord(c)
  PROVE  TypeOK'
  <1>1. CASE Register(c)
    BY <1>1, BoundsAssumption DEF Register, Trouble, TypeOK, guards, stats, control
  <1>2. CASE Cancel(c)
    BY <1>2, RequestCancelType, BoundsAssumption
    DEF Cancel, Trouble, TypeOK, scheduler, guards, stats
  <1>3. CASE Delete(c)
    BY <1>3, RequestCancelType, BoundsAssumption DEF Delete, Trouble, TypeOK, guards, stats
  <1>4. CASE RemoveRecord(c)
    BY <1>4 DEF RemoveRecord, TypeOK, scheduler, guards, bounds
  <1> QED
    BY <1>1, <1>2, <1>3, <1>4

LEMMA RestartType == ASSUME TypeOK, Restart PROVE TypeOK'
  <1>1. PICK back \in SUBSET {c \in Cron : current[c] = 0} :
          /\ current' = [c \in Cron |-> IF c \in back THEN generation[c] ELSE current[c]]
          /\ recorded' = recorded \cup back
          /\ status' = [c \in Cron |-> IF c \in recorded' \ recorded THEN "none"
                                       ELSE Swept(status[c])]
    BY DEF Restart
  <1>2. current' \in [Cron -> 0 .. MaxGeneration] /\ recorded' \subseteq Cron
    BY <1>1, BoundsAssumption DEF TypeOK
  <1>3. status' \in [Cron -> {"none", "running", "ended", "interrupted"}]
    BY <1>1 DEF TypeOK, Swept
  <1> QED
    BY <1>2, <1>3, BoundsAssumption DEF Restart, Trouble, TypeOK

LEMMA NextTypeOK == ASSUME TypeOK, [Next]_vars PROVE TypeOK'
  <1>1. CASE \E c \in Cron : Fire(c)
    BY <1>1, FireType
  <1>2. CASE \E c \in Managed : Register(c) \/ Cancel(c) \/ Delete(c) \/ RemoveRecord(c)
    BY <1>2, ControlType, BoundsAssumption
  <1>3. CASE \E r \in Run : RunStep(r)
    BY <1>3, LockStepsType, RunBodyType, FinalizeType, RerunType DEF RunStep
  <1>4. CASE \E r \in Run : ChainStep(r)
    BY <1>4, ChainStepType
  <1>5. CASE Restart
    BY <1>5, RestartType
  <1>6. CASE UNCHANGED vars
    BY <1>6 DEF TypeOK, vars, scheduler, guards, stats, bounds, control
  <1> QED
    BY <1>1, <1>2, <1>3, <1>4, <1>5, <1>6 DEF Next, Quiet

(* Every reachable state has the declared shape, for every configuration.    *)
THEOREM TypeCorrect == Spec => []TypeOK
  BY InitTypeOK, NextTypeOK, PTL DEF Spec

-----------------------------------------------------------------------------
(* One run per cron. *)

(* The same activations are in their critical part, for the same jobs. *)
SameRuns ==
  \A r \in Run :
    /\ act'[r].step \in Critical <=> act[r].step \in Critical
    /\ act[r].step \in Critical => act'[r].cron = act[r].cron /\ act'[r].gen = act[r].gen

LEMMA Frame ==
  ASSUME IInv, SameRuns, UNCHANGED <<running, activeKeys, canceler, lock>>
  PROVE  RunsEntered' /\ EntriesRun' /\ LocksAgree'
  <1>1. RunsEntered'
    BY DEF IInv, RunsEntered, SameRuns, InRun, CronOf, JobOf
  <1>2. ASSUME NEW c \in Cron, canceler[c] # NoRun
        PROVE  act'[canceler[c]].step \in Critical /\ act'[canceler[c]].cron = c
               /\ act'[canceler[c]].gen = act[canceler[c]].gen
    <2>1. canceler[c] \in Run
      BY <1>2 DEF IInv, TypeOK
    <2> QED
      BY <1>2, <2>1 DEF IInv, EntriesRun, SameRuns, InRun, CronOf
  <1>3. EntriesRun'
    BY <1>2 DEF IInv, EntriesRun, InRun, CronOf
  <1>4. LocksAgree'
    BY DEF IInv, LocksAgree
  <1> QED
    BY <1>1, <1>3, <1>4

(* A slot moves between two steps that are both inside or both outside the   *)
(* critical part.                                                            *)
LEMMA GotoSameRuns ==
  ASSUME TypeOK, NEW r \in Run, NEW s, Goto(r, s), act[r].step \in Critical <=> s \in Critical,
         ~At(r, "free")
  PROVE  SameRuns
  <1>1. act[r] \in Activation
    BY UsedSlot
  <1>2. \A q \in Run : q # r => act'[q] = act[q]
    BY DEF Goto, TypeOK
  <1>3. act'[r].step = s /\ act'[r].cron = act[r].cron /\ act'[r].gen = act[r].gen
    BY <1>1 DEF Goto, TypeOK, Activation
  <1> QED
    BY <1>2, <1>3 DEF SameRuns

LEMMA EndSameRuns ==
  ASSUME TypeOK, NEW r \in Run, End(r), act[r].step \notin Critical
  PROVE  SameRuns
  BY DEF End, TypeOK, SameRuns, Free, Critical

LEMMA BeginSameRuns ==
  ASSUME TypeOK, NEW r \in Run, NEW c, NEW g, NEW d, BeginRun(r, c, g, d),
         act[r].step \notin Critical
  PROVE  SameRuns
  BY DEF BeginRun, TypeOK, SameRuns, Critical

LEMMA ExecuteSameRuns ==
  ASSUME TypeOK, NEW c, NEW g, NEW d, Execute(c, g, d)
  PROVE  SameRuns
  <1>1. CASE UNCHANGED act
    BY <1>1 DEF SameRuns
  <1>2. CASE \E r \in Run : At(r, "free") /\ BeginRun(r, c, g, d)
    BY <1>2, BeginSameRuns DEF At, Critical
  <1> QED
    BY <1>1, <1>2 DEF Execute

(* requestCancel touches one flag. *)
LEMMA CancelKeeps ==
  ASSUME TypeOK, NEW c, RequestCancel(c), NEW r \in Run
  PROVE  /\ act'[r].step = act[r].step
         /\ act[r] # Free => /\ act'[r].cron = act[r].cron /\ act'[r].gen = act[r].gen
                             /\ act'[r].depth = act[r].depth
                             /\ act'[r].cancel = (act[r].cancel \/ canceler[c] = r)
         /\ act[r] = Free => act'[r] = Free
  <1>1. CASE canceler[c] # r
    BY <1>1 DEF RequestCancel, TypeOK, Activation
  <1>2. CASE canceler[c] = r /\ act[r] \in Activation
    BY <1>2 DEF RequestCancel, Activation, Free
  <1>3. CASE canceler[c] = r /\ act[r] = Free
    BY <1>3, CancelFree DEF RequestCancel
  <1> QED
    BY <1>1, <1>2, <1>3 DEF TypeOK

LEMMA CancelSameRuns ==
  ASSUME TypeOK, NEW c, RequestCancel(c)
  PROVE  SameRuns
  BY CancelKeeps DEF SameRuns, Free, Critical

(* The steps that open and close nothing. *)
LEMMA QuietSteps ==
  ASSUME IInv, NEW r \in Run,
         \/ FailLock(r) \/ RecordStart(r) \/ RejectRun(r) \/ Prepare(r) \/ RuntimeFails(r)
         \/ RuntimeSucceeds(r) \/ PersistState(r) \/ OutputFails(r) \/ OutputSent(r)
         \/ UpdateStatusMessage(r) \/ Rerun(r) \/ Announce(r)
  PROVE  RunsEntered' /\ EntriesRun' /\ LocksAgree'
  <1> USE DEF IInv
  <1>1. CASE FailLock(r)
    BY <1>1, EndSameRuns, Frame DEF FailLock, At, Critical, guards
  <1>2. CASE RecordStart(r)
    BY <1>2, GotoSameRuns, Frame DEF RecordStart, At, Critical, guards
  <1>3. CASE RejectRun(r) \/ RuntimeFails(r) \/ OutputFails(r)
    BY <1>3, GotoSameRuns, Frame
    DEF RejectRun, RuntimeFails, OutputFails, EndWithError, At, Critical, guards
  <1>4. CASE Prepare(r)
    BY <1>4, GotoSameRuns, Frame DEF Prepare, At, Critical, guards
  <1>5. CASE RuntimeSucceeds(r)
    BY <1>5, GotoSameRuns, Frame DEF RuntimeSucceeds, At, Critical, guards
  <1>6. CASE PersistState(r)
    BY <1>6, GotoSameRuns, Frame DEF PersistState, At, Critical, guards
  <1>7. CASE OutputSent(r)
    BY <1>7, GotoSameRuns, Frame DEF OutputSent, At, Critical, guards
  <1>8. CASE UpdateStatusMessage(r)
    BY <1>8, GotoSameRuns, EndSameRuns, Frame
    DEF UpdateStatusMessage, AfterCleanup, At, Critical, guards
  <1>9. CASE Rerun(r)
    BY <1>9, BeginSameRuns, EndSameRuns, Frame DEF Rerun, At, Critical
  <1>10. CASE Announce(r)
    BY <1>10, GotoSameRuns, Frame DEF Announce, At, Critical, guards
  <1> QED
    BY <1>1, <1>2, <1>3, <1>4, <1>5, <1>6, <1>7, <1>8, <1>9, <1>10

LEMMA FinalizeRuns ==
  ASSUME IInv, NEW r \in Run, Finalize(r)
  PROVE  RunsEntered' /\ EntriesRun' /\ LocksAgree'
  <1>1. ~At(r, "free") /\ act[r].step \in Critical
    BY DEF Finalize, At, Critical
  <1>2. act[r] \in Activation
    BY <1>1, UsedSlot DEF IInv
  <1>3. \A q \in Run : q # r => act'[q] = act[q]
    BY DEF Finalize, IInv, TypeOK
  <1>4. act'[r].step = "release" /\ act'[r].cron = act[r].cron /\ act'[r].gen = act[r].gen
    <2> DEFINE b == CronOf(r) \in queuedKeys
    <2>1. act' = [act EXCEPT ![r].step = "release", ![r].rerun = b]
      BY DEF Finalize
    <2> HIDE DEF b
    <2> QED
      BY <1>2, <2>1 DEF IInv, TypeOK, Activation
  <1>5. SameRuns
    BY <1>1, <1>3, <1>4 DEF SameRuns, Critical
  <1> QED
    BY <1>5, Frame DEF Finalize

LEMMA AcquireRuns ==
  ASSUME IInv, NEW r \in Run, AcquireLock(r)
  PROVE  RunsEntered' /\ EntriesRun' /\ LocksAgree'
  <1> DEFINE c == CronOf(r)
  <1>1. /\ ~At(r, "free") /\ act[r].step = "locking" /\ lock[c] = NoRun /\ r # NoRun
    BY NoRunAssumption DEF AcquireLock, At, LockFree
  <1>2. /\ act[r] \in Activation /\ c \in Cron /\ JobOf(r) = <<c, act[r].gen>>
        /\ act[r].gen \in 1 .. MaxGeneration
    BY <1>1, UsedSlot DEF IInv
  <1>0. canceler[c] = NoRun
    BY <1>1, <1>2, NoRunAssumption DEF IInv, LocksAgree
  <1>3. \A q \in Run : q # r => act'[q] = act[q]
    BY DEF AcquireLock, Goto, IInv, TypeOK
  <1>4. act'[r].step = "recordStart" /\ act'[r].cron = c /\ act'[r].gen = act[r].gen
    BY <1>2 DEF AcquireLock, Goto, IInv, TypeOK, Activation, CronOf
  <1>5. /\ lock' = [lock EXCEPT ![c] = r] /\ canceler' = [canceler EXCEPT ![c] = r]
        /\ running' = running \cup {<<c, act[r].gen>>} /\ activeKeys' = activeKeys \cup {c}
    BY <1>2 DEF AcquireLock
  <1>6. lock'[c] = r /\ canceler'[c] = r
        /\ \A d \in Cron : d # c => lock'[d] = lock[d] /\ canceler'[d] = canceler[d]
    BY <1>2, <1>5 DEF IInv, TypeOK
  <1>7. RunsEntered'
    <2> SUFFICES ASSUME NEW q \in Run, act'[q].step \in Critical
                 PROVE  canceler'[act'[q].cron] = q /\ act'[q].cron \in activeKeys'
                        /\ <<act'[q].cron, act'[q].gen>> \in running'
      BY DEF RunsEntered, InRun, CronOf, JobOf
    <2>1. CASE q = r
      BY <1>4, <1>5, <1>6, <2>1
    <2>2. CASE q # r
      <3>1. canceler[act[q].cron] = q /\ act[q].cron \in activeKeys /\ <<act[q].cron, act[q].gen>> \in running
        BY <1>3, <2>2 DEF IInv, RunsEntered, InRun, CronOf, JobOf
      <3>2. act[q].cron # c /\ act[q].cron \in Cron
        BY <1>0, <1>1, <3>1, NoRunAssumption DEF IInv, TypeOK
      <3> QED
        BY <1>3, <1>5, <1>6, <2>2, <3>1, <3>2
    <2> QED
      BY <2>1, <2>2
  <1>8. \A d \in Cron : d # c /\ canceler[d] # NoRun => canceler[d] \in Run /\ canceler[d] # r
    BY <1>1 DEF IInv, TypeOK, EntriesRun, InRun, Critical
  <1>9. EntriesRun'
    <2>2. ASSUME NEW d \in Cron, canceler'[d] # NoRun
          PROVE  act'[canceler'[d]].step \in Critical /\ act'[canceler'[d]].cron = d
      <3>1. CASE d = c
        BY <1>4, <1>6, <3>1 DEF Critical
      <3>2. CASE d # c
        BY <1>3, <1>6, <1>8, <2>2, <3>2 DEF IInv, EntriesRun, InRun, CronOf
      <3> QED
        BY <3>1, <3>2
    <2>3. \A d \in activeKeys' : canceler'[d] # NoRun
      BY <1>0, <1>1, <1>5, <1>6 DEF IInv, EntriesRun, TypeOK
    <2>4. ASSUME NEW d \in Cron, NEW g \in 1 .. MaxGeneration, <<d, g>> \in running'
          PROVE  canceler'[d] # NoRun /\ act'[canceler'[d]].gen = g
      <3>1. CASE d = c
        <4>1. <<d, g>> \notin running
          BY <1>0, <1>1, <3>1 DEF IInv, EntriesRun
        <4>2. g = act[r].gen
          BY <1>5, <2>4, <4>1
        <4> QED
          BY <1>0, <1>1, <1>4, <1>6, <3>1, <4>2
      <3>2. CASE d # c
        <4>1. <<d, g>> \in running
          BY <1>5, <2>4, <3>2
        <4> QED
          BY <1>3, <1>6, <1>8, <3>2, <4>1 DEF IInv, EntriesRun
      <3> QED
        BY <3>1, <3>2
    <2> QED
      BY <2>2, <2>3, <2>4 DEF EntriesRun, InRun, CronOf
  <1>10. LocksAgree'
    BY <1>6 DEF IInv, LocksAgree
  <1> QED
    BY <1>7, <1>9, <1>10

LEMMA ReleaseRuns ==
  ASSUME IInv, NEW r \in Run, ReleaseLock(r)
  PROVE  RunsEntered' /\ EntriesRun' /\ LocksAgree'
  <1> DEFINE c == CronOf(r)
  <1>1. ~At(r, "free") /\ act[r].step \in Critical
    BY DEF ReleaseLock, At, Critical
  <1>2. /\ act[r] \in Activation /\ c \in Cron /\ JobOf(r) = <<c, act[r].gen>>
        /\ act[r].gen \in 1 .. MaxGeneration
    BY <1>1, UsedSlot DEF IInv
  <1>3. canceler[c] = r
    BY <1>1, <1>2 DEF IInv, RunsEntered, EntriesRun, InRun
  <1>4. \A q \in Run : q # r => act'[q] = act[q]
    BY DEF ReleaseLock, Cleanup, AfterCleanup, Goto, End, IInv, TypeOK
  <1>5. act'[r].step \notin Critical
    <2>1. CASE Goto(r, "status") \/ Goto(r, "rerun")
      BY <1>2, <2>1 DEF Goto, IInv, TypeOK, Activation, Critical
    <2>2. CASE End(r)
      BY <2>2 DEF End, Free, IInv, TypeOK, Critical
    <2> QED
      BY <2>1, <2>2 DEF ReleaseLock, Cleanup, AfterCleanup
  <1>6. /\ running' = running \ {<<c, act[r].gen>>} /\ activeKeys' = activeKeys \ {c}
        /\ lock'[c] \in {NoRun, Leftover} /\ canceler'[c] = NoRun
        /\ \A d \in Cron : d # c => lock'[d] = lock[d] /\ canceler'[d] = canceler[d]
    BY <1>2, <1>3 DEF ReleaseLock, Cleanup, StoppedJobs, IInv, TypeOK
  <1>7. RunsEntered'
    <2> SUFFICES ASSUME NEW q \in Run, act'[q].step \in Critical
                 PROVE  canceler'[act'[q].cron] = q /\ act'[q].cron \in activeKeys'
                        /\ <<act'[q].cron, act'[q].gen>> \in running'
      BY DEF RunsEntered, InRun, CronOf, JobOf
    <2>1. q # r
      BY <1>5 DEF Critical
    <2>2. canceler[act[q].cron] = q /\ act[q].cron \in activeKeys /\ <<act[q].cron, act[q].gen>> \in running
      BY <1>4, <2>1 DEF IInv, RunsEntered, InRun, CronOf, JobOf
    <2>3. act[q].cron # c /\ act[q].cron \in Cron
      BY <1>3, <2>1, <2>2 DEF IInv, TypeOK
    <2> QED
      BY <1>4, <1>6, <2>1, <2>2, <2>3
  <1>8. \A d \in Cron : d # c /\ canceler[d] # NoRun => canceler[d] \in Run /\ canceler[d] # r
    BY DEF IInv, TypeOK, EntriesRun
  <1>9. EntriesRun'
    <2>2. ASSUME NEW d \in Cron, canceler'[d] # NoRun
          PROVE  act'[canceler'[d]].step \in Critical /\ act'[canceler'[d]].cron = d
      <3>1. d # c
        BY <1>6, <2>2
      <3> QED
        BY <1>4, <1>6, <1>8, <2>2, <3>1 DEF IInv, EntriesRun, InRun, CronOf
    <2>3. \A d \in activeKeys' : canceler'[d] # NoRun
      BY <1>6 DEF IInv, EntriesRun, TypeOK
    <2>4. ASSUME NEW d \in Cron, NEW g \in 1 .. MaxGeneration, <<d, g>> \in running'
          PROVE  canceler'[d] # NoRun /\ act'[canceler'[d]].gen = g
      <3>1. <<d, g>> \in running /\ <<d, g>> # <<c, act[r].gen>>
        BY <1>6, <2>4
      <3>2. canceler[d] # NoRun /\ act[canceler[d]].gen = g
        BY <3>1 DEF IInv, EntriesRun
      <3>3. d # c
        BY <1>3, <3>1, <3>2
      <3> QED
        BY <1>4, <1>6, <1>8, <3>2, <3>3
    <2> QED
      BY <2>2, <2>3, <2>4 DEF EntriesRun, InRun, CronOf
  <1>10. LocksAgree'
    BY <1>6 DEF IInv, LocksAgree
  <1> QED
    BY <1>7, <1>9, <1>10

LEMMA RestartRuns == ASSUME IInv, Restart PROVE RunsEntered' /\ EntriesRun' /\ LocksAgree'
  <1>1. \A r \in Run : act'[r].step = "free"
    BY DEF Restart, Free
  <1> QED
    BY <1>1 DEF Restart, RunsEntered, EntriesRun, LocksAgree, InRun, Critical

LEMMA InitIInv == Init => IInv
  <1> SUFFICES ASSUME Init PROVE IInv
    OBVIOUS
  <1>1. \A r \in Run : act[r].step = "free"
    BY DEF Init, Free
  <1>2. RunsEntered /\ EntriesRun /\ LocksAgree
    BY <1>1 DEF Init, RunsEntered, EntriesRun, LocksAgree, InRun, Critical
  <1> QED
    BY <1>2, InitTypeOK DEF IInv

LEMMA NextIInv == ASSUME IInv, [Next]_vars PROVE IInv'
  <1>1. TypeOK'
    BY NextTypeOK DEF IInv
  <1>2. RunsEntered' /\ EntriesRun' /\ LocksAgree'
    <2>1. CASE \E c \in Cron : Fire(c)
      BY <2>1, ExecuteSameRuns, Frame DEF Fire, IInv
    <2>2. CASE \E c \in Managed : Register(c) \/ RemoveRecord(c)
      <3>1. SameRuns
        BY <2>2 DEF Register, RemoveRecord, SameRuns
      <3> QED
        BY <2>2, <3>1, Frame DEF Register, RemoveRecord, guards
    <2>3. CASE \E c \in Managed : Cancel(c) \/ Delete(c)
      BY <2>3, CancelSameRuns, Frame DEF Cancel, Delete, guards, IInv
    <2>4. CASE \E r \in Run : RunStep(r)
      BY <2>4, QuietSteps, FinalizeRuns, AcquireRuns, ReleaseRuns DEF RunStep
    <2>5. CASE \E r \in Run : ChainStep(r)
      <3>1. PICK r \in Run : ChainStep(r)
        BY <2>5
      <3>2. SameRuns
        <4>1. CASE UNCHANGED act
          BY <4>1 DEF SameRuns
        <4>2. CASE LaunchDownstream(r)
          BY <4>2, ExecuteSameRuns DEF LaunchDownstream, IInv
        <4> QED
          BY <3>1, <4>1, <4>2 DEF ChainStep, SkipDownstream, FetchDownstream, ForwardState
      <3> QED
        BY <3>1, <3>2, Frame
        DEF ChainStep, SkipDownstream, FetchDownstream, ForwardState, LaunchDownstream, guards
    <2>6. CASE Restart
      BY <2>6, RestartRuns
    <2>7. CASE UNCHANGED vars
      <3>1. SameRuns
        BY <2>7 DEF SameRuns, vars
      <3> QED
        BY <2>7, <3>1, Frame DEF vars, guards
    <2> QED
      BY <2>1, <2>2, <2>3, <2>4, <2>5, <2>6, <2>7 DEF Next, Quiet
  <1> QED
    BY <1>1, <1>2 DEF IInv

(* The inductive invariant holds throughout. *)
THEOREM RunInvariant == Spec => []IInv
  BY InitIInv, NextIInv, PTL DEF Spec

LEMMA IInvOneRun == IInv => OneRunPerCron
  BY DEF IInv, RunsEntered, OneRunPerCron

(* Two activations of one cron are never in their critical parts together,   *)
(* whatever ticks, triggers, chains, reruns and restarts do.                 *)
THEOREM OneRun == Spec => []OneRunPerCron
  BY RunInvariant, IInvOneRun, PTL

LEMMA IInvGuards == IInv => GuardsAgree
  <1> SUFFICES ASSUME IInv PROVE GuardsAgree
    OBVIOUS
  <1>1. ASSUME NEW c \in Cron, canceler[c] # NoRun
        PROVE  canceler[c] \in Run /\ InRun(canceler[c]) /\ CronOf(canceler[c]) = c
    BY <1>1 DEF IInv, TypeOK, EntriesRun
  <1>2. activeKeys = {CronOf(r) : r \in {s \in Run : InRun(s)}}
    <2>1. ASSUME NEW c \in activeKeys
          PROVE  \E r \in Run : InRun(r) /\ CronOf(r) = c
      BY <1>1 DEF IInv, TypeOK, EntriesRun
    <2> QED
      BY <2>1 DEF IInv, RunsEntered
  <1>3. running = {JobOf(r) : r \in {s \in Run : InRun(s)}}
    <2>1. ASSUME NEW j \in running
          PROVE  \E r \in Run : InRun(r) /\ JobOf(r) = j
      <3>1. PICK c \in Cron, g \in 1 .. MaxGeneration : j = <<c, g>>
        BY DEF IInv, TypeOK
      <3>2. canceler[c] # NoRun /\ act[canceler[c]].gen = g
        BY <3>1 DEF IInv, EntriesRun
      <3> QED
        BY <1>1, <3>1, <3>2 DEF JobOf, CronOf
    <2> QED
      BY <2>1 DEF IInv, RunsEntered
  <1> QED
    BY <1>1, <1>2, <1>3 DEF GuardsAgree, IInv, LocksAgree

(* activeCronRunKeys, the running flags and the cancelers always tell the    *)
(* same story, and so do the lock directories but for those whose removal    *)
(* failed.                                                                   *)
THEOREM GuardsConsistent == Spec => []GuardsAgree
  BY RunInvariant, IInvGuards, PTL

-----------------------------------------------------------------------------
(* The depth of chains. *)

(* No activation got a depth it did not have. *)
SameDepths ==
  \A r \in Run :
    act'[r] # Free => act[r] # Free /\ act'[r].depth = act[r].depth

LEMMA DepthFrame ==
  ASSUME DepthInv, SameDepths, UNCHANGED todo
  PROVE  DepthInv'
  BY DEF DepthInv, ChainDepthBounded, SameDepths

LEMMA GotoDepths ==
  ASSUME TypeOK, NEW r \in Run, NEW s, Goto(r, s), ~At(r, "free")
  PROVE  SameDepths
  <1>1. act[r] \in Activation
    BY UsedSlot
  <1>2. \A q \in Run : q # r => act'[q] = act[q]
    BY DEF Goto, TypeOK
  <1>3. act'[r].depth = act[r].depth
    BY <1>1 DEF Goto, TypeOK, Activation
  <1>4. act[r] # Free
    BY DEF At, Free
  <1> QED
    BY <1>2, <1>3, <1>4 DEF SameDepths

LEMMA EndDepths ==
  ASSUME TypeOK, NEW r \in Run, End(r)
  PROVE  SameDepths
  BY DEF End, TypeOK, SameDepths

LEMMA BeginDepths ==
  ASSUME TypeOK, ChainDepthBounded, NEW r \in Run, NEW c, NEW g, NEW d \in Nat,
         d <= MaxChainDepth, BeginRun(r, c, g, d)
  PROVE  ChainDepthBounded'
  <1>1. act'[r].depth = d /\ \A q \in Run : q # r => act'[q] = act[q]
    BY DEF BeginRun, TypeOK
  <1> QED
    BY <1>1 DEF ChainDepthBounded

LEMMA ExecuteDepths ==
  ASSUME TypeOK, ChainDepthBounded, NEW c, NEW g, NEW d \in Nat,
         d <= MaxChainDepth, Execute(c, g, d)
  PROVE  ChainDepthBounded'
  <1>1. CASE UNCHANGED act
    BY <1>1 DEF ChainDepthBounded
  <1>2. CASE \E r \in Run : BeginRun(r, c, g, d)
    BY <1>2, BeginDepths
  <1> QED
    BY <1>1, <1>2 DEF Execute

LEMMA RunStepDepths ==
  ASSUME TypeOK, DepthInv, NEW r \in Run, RunStep(r)
  PROVE  DepthInv'
  <1>1. CASE AcquireLock(r) \/ ReleaseLock(r)
    BY <1>1, GotoDepths, EndDepths, DepthFrame DEF AcquireLock, ReleaseLock, Cleanup, AfterCleanup, At
  <1>2. CASE FailLock(r)
    BY <1>2, EndDepths, DepthFrame DEF FailLock
  <1>3. CASE \/ RecordStart(r) \/ Prepare(r) \/ Announce(r)
             \/ RuntimeSucceeds(r) \/ PersistState(r) \/ OutputSent(r)
    BY <1>3, GotoDepths, DepthFrame
    DEF RecordStart, Prepare, Announce, RuntimeSucceeds, PersistState, OutputSent, At
  <1>4. CASE RejectRun(r) \/ RuntimeFails(r) \/ OutputFails(r)
    BY <1>4, GotoDepths, DepthFrame DEF RejectRun, RuntimeFails, OutputFails, EndWithError, At
  <1>5. CASE UpdateStatusMessage(r)
    BY <1>5, GotoDepths, EndDepths, DepthFrame DEF UpdateStatusMessage, AfterCleanup, At
  <1>6. CASE Rerun(r)
    <2>1. act[r] \in Activation /\ act[r].depth \in Nat /\ act[r] # Free
      BY <1>6, UsedSlot DEF Rerun, At, Free
    <2>2. act[r].depth <= MaxChainDepth
      BY <2>1 DEF DepthInv, ChainDepthBounded
    <2>3. ChainDepthBounded'
      <3>1. CASE End(r)
        BY <3>1, EndDepths DEF SameDepths, DepthInv, ChainDepthBounded
      <3>2. CASE BeginRun(r, CronOf(r), act[r].gen, act[r].depth)
        BY <2>1, <2>2, <3>2, BeginDepths DEF DepthInv
      <3> QED
        BY <1>6, <3>1, <3>2 DEF Rerun
    <2> QED
      BY <1>6, <2>3 DEF Rerun, DepthInv
  <1>7. CASE Finalize(r)
    <2>1. /\ act[r] \in Activation /\ ~At(r, "free") /\ act[r] # Free
          /\ CronOf(r) \in Cron /\ act[r].depth \in Nat
      BY <1>7, UsedSlot DEF Finalize, At, Free
    <2>2. SameDepths
      <3> DEFINE b == CronOf(r) \in queuedKeys
      <3>1. act' = [act EXCEPT ![r].step = "release", ![r].rerun = b]
        BY <1>7 DEF Finalize
      <3> HIDE DEF b
      <3> QED
        BY <2>1, <3>1 DEF TypeOK, Activation, SameDepths
    <2>3. \A i \in 1 .. Len(ChainItems(r)) : ChainItems(r)[i].depth <= MaxChainDepth
      <3>1. CASE DepthReached(act[r].depth) \/ CronOf(r) \notin chained
        BY <3>1 DEF ChainItems
      <3>2. CASE ~(DepthReached(act[r].depth) \/ CronOf(r) \notin chained)
        <4>1. act[r].depth + 1 <= MaxChainDepth
          BY <2>1, <3>2, BoundsAssumption DEF DepthReached
        <4>2. Len(Chain[CronOf(r)]) \in Nat
          BY <2>1, ChainAssumption
        <4>3. ChainItems(r) = [i \in 1 .. Len(Chain[CronOf(r)]) |->
                [to |-> Chain[CronOf(r)][i], gen |-> 0, depth |-> act[r].depth + 1,
                 sent |-> FALSE]]
          BY <3>2 DEF ChainItems, Downstream
        <4>4. ChainItems(r) \in Seq(Handoff)
          BY <2>1, ChainItemsType
        <4>5. DOMAIN ChainItems(r) = 1 .. Len(Chain[CronOf(r)])
          BY <4>3
        <4>6. 1 .. Len(ChainItems(r)) = DOMAIN ChainItems(r)
          BY <4>4, LenProperties
        <4> QED
          BY <4>1, <4>3, <4>5, <4>6
      <3> QED
        BY <3>1, <3>2
    <2>4. ASSUME NEW q \in Run, NEW i \in 1 .. Len(todo'[q])
          PROVE  todo'[q][i].depth <= MaxChainDepth
      <3>1. CASE todo'[q] = todo[q]
        BY <3>1 DEF DepthInv
      <3>2. CASE q = r /\ todo'[q] = todo[r] \o ChainItems(r)
        <4>1. todo[r] \in Seq(Handoff) /\ ChainItems(r) \in Seq(Handoff)
          BY <2>1, ChainItemsType DEF TypeOK
        <4>2. CASE i <= Len(todo[r])
          BY <3>2, <4>1, <4>2 DEF DepthInv
        <4>3. CASE ~(i <= Len(todo[r]))
          <5>1. i - Len(todo[r]) \in 1 .. Len(ChainItems(r))
            BY <3>2, <4>1, <4>3
          <5>2. todo'[q][i] = ChainItems(r)[i - Len(todo[r])]
            BY <3>2, <4>1, <4>3
          <5> QED
            BY <2>3, <5>1, <5>2
        <4> QED
          BY <4>2, <4>3
      <3> QED
        BY <1>7, <3>1, <3>2 DEF Finalize, TypeOK
    <2>5. ChainDepthBounded'
      BY <2>2 DEF SameDepths, DepthInv, ChainDepthBounded
    <2> QED
      BY <2>4, <2>5 DEF DepthInv
  <1> QED
    BY <1>1, <1>2, <1>3, <1>4, <1>5, <1>6, <1>7 DEF RunStep

LEMMA TailDepths ==
  ASSUME TypeOK, DepthInv, NEW r \in Run, todo[r] # <<>>, NextItem(r)
  PROVE  \A q \in Run : \A i \in 1 .. Len(todo'[q]) : todo'[q][i].depth <= MaxChainDepth
  <1> SUFFICES ASSUME NEW q \in Run, NEW i \in 1 .. Len(todo'[q])
               PROVE  todo'[q][i].depth <= MaxChainDepth
    OBVIOUS
  <1>1. CASE q # r
    BY <1>1 DEF NextItem, TypeOK, DepthInv
  <1>2. CASE q = r
    <2>1. todo[r] \in Seq(Handoff) /\ todo'[r] = Tail(todo[r])
      BY DEF NextItem, TypeOK
    <2>2. i + 1 \in 1 .. Len(todo[r]) /\ todo'[r][i] = todo[r][i + 1]
      BY <1>2, <2>1
    <2> QED
      BY <1>2, <2>2 DEF DepthInv
  <1> QED
    BY <1>1, <1>2

LEMMA ChainStepDepths ==
  ASSUME TypeOK, DepthInv, NEW r \in Run, ChainStep(r)
  PROVE  DepthInv'
  <1>1. todo[r] # <<>>
    BY DEF ChainStep, SkipDownstream, FetchDownstream, ForwardState, LaunchDownstream
  <1>2. CASE SkipDownstream(r)
    BY <1>1, <1>2, TailDepths DEF SkipDownstream, DepthInv, ChainDepthBounded
  <1>3. CASE FetchDownstream(r) \/ ForwardState(r)
    <2>1. todo[r] \in Seq(Handoff) /\ 1 \in 1 .. Len(todo[r]) /\ todo[r][1] \in Handoff
      BY <1>1, HeadItem DEF TypeOK
    <2>2. PICK h \in {[todo[r][1] EXCEPT !.gen = current[Item(r).to]],
                     [todo[r][1] EXCEPT !.sent = TRUE]} :
            todo' = [todo EXCEPT ![r] = [todo[r] EXCEPT ![1] = h]]
      BY <1>3, <2>1 DEF FetchDownstream, ForwardState, TypeOK
    <2>3. h.depth = todo[r][1].depth
      BY <2>1 DEF Handoff
    <2>4. ASSUME NEW q \in Run, NEW i \in 1 .. Len(todo'[q])
          PROVE  todo'[q][i].depth <= MaxChainDepth
      <3>1. CASE q # r
        BY <2>2, <2>4, <3>1 DEF TypeOK, DepthInv
      <3>2. CASE q = r
        <4>1. todo'[r] = [todo[r] EXCEPT ![1] = h]
          BY <2>2 DEF TypeOK
        <4>2. Len(todo'[r]) = Len(todo[r])
          BY <2>1, <4>1
        <4>3. todo'[r][i].depth = todo[r][i].depth
          BY <2>1, <2>3, <2>4, <3>2, <4>1, <4>2
        <4> QED
          BY <2>4, <3>2, <4>2, <4>3 DEF DepthInv
      <3> QED
        BY <3>1, <3>2
    <2> QED
      BY <1>3, <2>4 DEF FetchDownstream, ForwardState, DepthInv, ChainDepthBounded
  <1>4. CASE LaunchDownstream(r)
    <2>1. Item(r).depth \in Nat /\ Item(r).depth <= MaxChainDepth
      BY <1>1, HeadItem DEF DepthInv
    <2>2. ChainDepthBounded'
      BY <1>4, <2>1, ExecuteDepths DEF LaunchDownstream, DepthInv
    <2> QED
      BY <1>1, <1>4, <2>2, TailDepths DEF LaunchDownstream, DepthInv
  <1> QED
    BY <1>2, <1>3, <1>4 DEF ChainStep

LEMMA CancelDepths ==
  ASSUME TypeOK, NEW c, RequestCancel(c)
  PROVE  SameDepths
  BY CancelKeeps DEF SameDepths

LEMMA NextDepth == ASSUME TypeOK, DepthInv, [Next]_vars PROVE DepthInv'
  <1>1. CASE \E c \in Cron : Fire(c)
    BY <1>1, ExecuteDepths, BoundsAssumption DEF Fire, DepthInv
  <1>2. CASE \E c \in Managed : Register(c) \/ RemoveRecord(c)
    BY <1>2 DEF Register, RemoveRecord, DepthInv, ChainDepthBounded
  <1>3. CASE \E c \in Managed : Cancel(c) \/ Delete(c)
    BY <1>3, CancelDepths, DepthFrame DEF Cancel, Delete
  <1>4. CASE \E r \in Run : RunStep(r)
    BY <1>4, RunStepDepths
  <1>5. CASE \E r \in Run : ChainStep(r)
    BY <1>5, ChainStepDepths
  <1>6. CASE Restart
    BY <1>6 DEF Restart, DepthInv, ChainDepthBounded
  <1>7. CASE UNCHANGED vars
    BY <1>7 DEF vars, DepthInv, ChainDepthBounded
  <1> QED
    BY <1>1, <1>2, <1>3, <1>4, <1>5, <1>6, <1>7 DEF Next, Quiet

LEMMA InitDepth == Init => DepthInv
  BY DEF Init, DepthInv, ChainDepthBounded

(* No activation is ever deeper in a chain than MAX_CHAIN_DEPTH, for every   *)
(* chain, cyclic ones included.                                              *)
THEOREM DepthBounded == Spec => []ChainDepthBounded
  <1>1. Init => TypeOK /\ DepthInv
    BY InitTypeOK, InitDepth
  <1>2. TypeOK /\ DepthInv /\ [Next]_vars => (TypeOK /\ DepthInv)'
    BY NextTypeOK, NextDepth
  <1>3. DepthInv => ChainDepthBounded
    BY DEF DepthInv
  <1> QED
    BY <1>1, <1>2, <1>3, PTL DEF Spec
-----------------------------------------------------------------------------
(* The status on record. *)

Showing == {"check", "announce", "invoke", "persist", "output"}

(* What shows a cron as running goes on showing it. *)
KeepsShowing ==
  \A r \in Run :
    act[r].step \in Showing => act'[r].step \in Showing /\ act'[r].cron = act[r].cron

NoNewRunning ==
  \A c \in recorded' : status'[c] = "running" => c \in recorded /\ status[c] = "running"

LEMMA StatusFrame ==
  ASSUME RunningStatusIsTrue, KeepsShowing, NoNewRunning
  PROVE  RunningStatusIsTrue'
  <1> SUFFICES ASSUME NEW c \in recorded', status'[c] = "running"
               PROVE  \E r \in Run : act'[r].step \in Showing /\ act'[r].cron = c
    BY DEF RunningStatusIsTrue, CronOf, Showing
  <1>1. PICK r \in Run : act[r].step \in Showing /\ act[r].cron = c
    BY DEF NoNewRunning, RunningStatusIsTrue, CronOf, Showing
  <1> QED
    BY <1>1 DEF KeepsShowing

LEMMA SameStats == ASSUME UNCHANGED <<recorded, status>> PROVE NoNewRunning
  BY DEF NoNewRunning

LEMMA UpsertStats ==
  ASSUME TypeOK, NEW c \in Cron, Upsert(c)
  PROVE  NoNewRunning
  <1> SUFFICES ASSUME NEW d \in recorded', status'[d] = "running"
               PROVE  d \in recorded /\ status[d] = "running"
    BY DEF NoNewRunning
  <1>1. CASE c \in recorded
    BY <1>1 DEF Upsert
  <1>2. CASE c \notin recorded
    BY <1>2 DEF Upsert, TypeOK
  <1> QED
    BY <1>1, <1>2

LEMMA TryUpsertStats ==
  ASSUME TypeOK, NEW c \in Cron, TryUpsert(c)
  PROVE  NoNewRunning
  BY UpsertStats, SameStats DEF TryUpsert, stats

LEMMA GotoShowing ==
  ASSUME TypeOK, NEW r \in Run, NEW s, Goto(r, s), ~At(r, "free"),
         act[r].step \in Showing => s \in Showing
  PROVE  KeepsShowing
  <1>1. act[r] \in Activation
    BY UsedSlot
  <1>2. \A q \in Run : q # r => act'[q] = act[q]
    BY DEF Goto, TypeOK
  <1>3. act'[r].step = s /\ act'[r].cron = act[r].cron
    BY <1>1 DEF Goto, TypeOK, Activation
  <1> QED
    BY <1>2, <1>3 DEF KeepsShowing

LEMMA EndShowing ==
  ASSUME TypeOK, NEW r \in Run, End(r), act[r].step \notin Showing
  PROVE  KeepsShowing
  BY DEF End, TypeOK, KeepsShowing

LEMMA BeginShowing ==
  ASSUME TypeOK, NEW r \in Run, NEW c, NEW g, NEW d, BeginRun(r, c, g, d),
         act[r].step \notin Showing
  PROVE  KeepsShowing
  BY DEF BeginRun, TypeOK, KeepsShowing

LEMMA ExecuteShowing ==
  ASSUME TypeOK, NEW c, NEW g, NEW d, Execute(c, g, d)
  PROVE  KeepsShowing
  <1>1. CASE UNCHANGED act
    BY <1>1 DEF KeepsShowing
  <1>2. CASE \E r \in Run : At(r, "free") /\ BeginRun(r, c, g, d)
    BY <1>2, BeginShowing DEF At, Showing
  <1> QED
    BY <1>1, <1>2 DEF Execute

LEMMA CancelShowing ==
  ASSUME TypeOK, NEW c, RequestCancel(c)
  PROVE  KeepsShowing
  BY CancelKeeps DEF KeepsShowing, Showing, Free

(* A step that records the end of a run: of the runs of its cron only this   *)
(* one can stop showing, and the cron is not on record as running then.      *)
LEMMA EndRecorded ==
  ASSUME TypeOK, RunningStatusIsTrue, NEW r \in Run, NEW s, NEW t, ~At(r, "free"),
         SetStatus(CronOf(r), s), s # "running", UNCHANGED recorded, Goto(r, t)
  PROVE  RunningStatusIsTrue'
  <1> SUFFICES ASSUME NEW c \in recorded', status'[c] = "running"
               PROVE  \E q \in Run : act'[q].step \in Showing /\ act'[q].cron = c
    BY DEF RunningStatusIsTrue, CronOf, Showing
  <1>1. CronOf(r) \in Cron
    BY UsedSlot
  <1>2. c # CronOf(r)
    BY <1>1 DEF SetStatus, TypeOK
  <1>3. status[c] = "running" /\ c \in recorded
    BY <1>1, <1>2 DEF SetStatus, TypeOK
  <1>4. PICK q \in Run : act[q].step \in Showing /\ act[q].cron = c
    BY <1>3 DEF RunningStatusIsTrue, CronOf, Showing
  <1>5. q # r
    BY <1>2, <1>4 DEF CronOf
  <1>6. act'[q] = act[q]
    BY <1>5 DEF Goto, TypeOK
  <1> QED
    BY <1>4, <1>6

LEMMA RecordStartStatus ==
  ASSUME TypeOK, RunningStatusIsTrue, NEW r \in Run, RecordStart(r)
  PROVE  RunningStatusIsTrue'
  <1> SUFFICES ASSUME NEW c \in recorded', status'[c] = "running"
               PROVE  \E q \in Run : act'[q].step \in Showing /\ act'[q].cron = c
    BY DEF RunningStatusIsTrue, CronOf, Showing
  <1>1. act[r] \in Activation /\ CronOf(r) \in Cron
    BY UsedSlot DEF RecordStart, At
  <1>2. act'[r].step = "check" /\ act'[r].cron = act[r].cron
    BY <1>1 DEF RecordStart, Goto, TypeOK, Activation
  <1>3. CASE c = CronOf(r)
    BY <1>2, <1>3 DEF CronOf, Showing
  <1>4. CASE c # CronOf(r)
    <2>1. c \in recorded /\ status[c] = "running"
      BY <1>1, <1>4 DEF RecordStart, SetStatus, TypeOK
    <2>2. PICK q \in Run : act[q].step \in Showing /\ act[q].cron = c
      BY <2>1 DEF RunningStatusIsTrue, CronOf, Showing
    <2>3. act'[q] = act[q]
      BY <1>4, <2>2 DEF RecordStart, Goto, TypeOK, CronOf
    <2> QED
      BY <2>2, <2>3
  <1> QED
    BY <1>3, <1>4

LEMMA RunStepStatus ==
  ASSUME TypeOK, RunningStatusIsTrue, NEW r \in Run, RunStep(r)
  PROVE  RunningStatusIsTrue'
  <1>1. CASE AcquireLock(r)
    BY <1>1, GotoShowing, SameStats, StatusFrame DEF AcquireLock, At, Showing, stats
  <1>2. CASE FailLock(r)
    BY <1>2, EndShowing, SameStats, StatusFrame DEF FailLock, At, Showing, stats
  <1>3. CASE RecordStart(r)
    BY <1>3, RecordStartStatus
  <1>4. CASE RejectRun(r) \/ RuntimeFails(r) \/ OutputFails(r)
    BY <1>4, EndRecorded DEF RejectRun, RuntimeFails, OutputFails, EndWithError, At
  <1>5. CASE OutputSent(r)
    BY <1>5, EndRecorded DEF OutputSent, At
  <1>6. CASE Prepare(r) \/ RuntimeSucceeds(r)
    BY <1>6, GotoShowing, SameStats, StatusFrame DEF Prepare, RuntimeSucceeds, At, Showing, stats
  <1>7. CASE Announce(r) \/ PersistState(r)
    <2>1. ~At(r, "free") /\ CronOf(r) \in Cron
      BY <1>7, UsedSlot DEF Announce, PersistState, At
    <2>2. KeepsShowing
      BY <1>7, <2>1, GotoShowing DEF Announce, PersistState, Showing
    <2>3. NoNewRunning
      BY <1>7, <2>1, TryUpsertStats DEF Announce, PersistState, EnsureStatusMessage
    <2> QED
      BY <2>2, <2>3, StatusFrame
  <1>8. CASE Finalize(r)
    <2>1. act[r].step \notin Showing
      BY <1>8 DEF Finalize, At, Showing
    <2>2. \A q \in Run : q # r => act'[q] = act[q]
      BY <1>8 DEF Finalize, TypeOK
    <2>3. KeepsShowing
      BY <2>1, <2>2 DEF KeepsShowing
    <2> QED
      BY <1>8, <2>3, SameStats, StatusFrame DEF Finalize, stats
  <1>9. CASE ReleaseLock(r)
    <2>1. KeepsShowing
      BY <1>9, GotoShowing, EndShowing DEF ReleaseLock, Cleanup, AfterCleanup, At, Showing
    <2> QED
      BY <1>9, <2>1, SameStats, StatusFrame DEF ReleaseLock, stats
  <1>10. CASE UpdateStatusMessage(r)
    <2>1. ~At(r, "free") /\ CronOf(r) \in Cron
      BY <1>10, UsedSlot DEF UpdateStatusMessage, At
    <2>2. KeepsShowing
      BY <1>10, GotoShowing, EndShowing DEF UpdateStatusMessage, AfterCleanup, At, Showing
    <2>3. NoNewRunning
      BY <1>10, <2>1, TryUpsertStats DEF UpdateStatusMessage, EnsureStatusMessage
    <2> QED
      BY <2>2, <2>3, StatusFrame
  <1>11. CASE Rerun(r)
    BY <1>11, BeginShowing, EndShowing, SameStats, StatusFrame DEF Rerun, At, Showing, stats
  <1> QED
    BY <1>1, <1>2, <1>3, <1>4, <1>5, <1>6, <1>7, <1>8, <1>9, <1>10, <1>11 DEF RunStep

LEMMA RestartStatus == ASSUME TypeOK, Restart PROVE RunningStatusIsTrue'
  <1>1. PICK back \in SUBSET {c \in Cron : current[c] = 0} :
          /\ recorded' = recorded \cup back
          /\ status' = [c \in Cron |-> IF c \in recorded' \ recorded THEN "none"
                                       ELSE Swept(status[c])]
    BY DEF Restart
  <1>2. \A c \in recorded' : status'[c] # "running"
    BY <1>1 DEF Swept, TypeOK
  <1> QED
    BY <1>2 DEF RunningStatusIsTrue

LEMMA NextStatus ==
  ASSUME TypeOK, RunningStatusIsTrue, [Next]_vars
  PROVE  RunningStatusIsTrue'
  <1>1. CASE \E c \in Cron : Fire(c)
    BY <1>1, ExecuteShowing, SameStats, StatusFrame DEF Fire, stats
  <1>2. CASE UNCHANGED <<act, stats>>
    BY <1>2 DEF RunningStatusIsTrue, stats, CronOf
  <1>3. CASE \E c \in Managed : Cancel(c) \/ Delete(c)
    <2>1. KeepsShowing
      BY <1>3, CancelShowing DEF Cancel, Delete
    <2>2. NoNewRunning
      BY <1>3, SameStats DEF Cancel, Delete, stats
    <2> QED
      BY <2>1, <2>2, StatusFrame
  <1>4. CASE \E r \in Run : RunStep(r)
    BY <1>4, RunStepStatus
  <1>5. CASE \E r \in Run : ChainStep(r)
    <2>1. PICK r \in Run : ChainStep(r)
      BY <1>5
    <2>2. KeepsShowing
      <3>1. CASE UNCHANGED act
        BY <3>1 DEF KeepsShowing
      <3>2. CASE LaunchDownstream(r)
        BY <3>2, ExecuteShowing DEF LaunchDownstream
      <3> QED
        BY <2>1, <3>1, <3>2 DEF ChainStep, SkipDownstream, FetchDownstream, ForwardState
    <2>3. NoNewRunning
      <3>1. CASE ForwardState(r)
        <4>1. Item(r).to \in Cron
          BY <3>1, HeadItem DEF ForwardState
        <4> QED
          BY <3>1, <4>1, TryUpsertStats DEF ForwardState
      <3>2. CASE UNCHANGED stats
        BY <3>2, SameStats DEF stats
      <3> QED
        BY <2>1, <3>1, <3>2 DEF ChainStep, SkipDownstream, FetchDownstream, LaunchDownstream
    <2> QED
      BY <2>2, <2>3, StatusFrame
  <1>6. CASE Restart
    BY <1>6, RestartStatus
  <1>7. CASE \E c \in Managed : RemoveRecord(c)
    BY <1>7 DEF RemoveRecord, RunningStatusIsTrue, CronOf
  <1> QED
    BY <1>1, <1>2, <1>3, <1>4, <1>5, <1>6, <1>7 DEF Next, Quiet, Register, vars

(* lastRunStatus never says "running" of a cron that no activation runs:     *)
(* each way out of executeCronJob records an end, and a record restored by   *)
(* an upsert or found by a restart is not "running".                         *)
THEOREM StatusIsTrue == Spec => []RunningStatusIsTrue
  <1>1. Init => TypeOK /\ RunningStatusIsTrue
    BY InitTypeOK DEF Init, RunningStatusIsTrue
  <1>2. TypeOK /\ RunningStatusIsTrue /\ [Next]_vars => (TypeOK /\ RunningStatusIsTrue)'
    BY NextTypeOK, NextStatus
  <1> QED
    BY <1>1, <1>2, PTL DEF Spec
-----------------------------------------------------------------------------
(* Cancels. *)

PastCancel == {"persist", "output", "finalOk"}

(* A run that a pause or a delete found carries the request until it has     *)
(* looked for it, and never gets past that look.                             *)
StoppedInv ==
  \A r \in stopped :
    /\ act[r].step \in Critical \ PastCancel
    /\ act[r].step \in Cancelable => act[r].cancel

(* A slot of a stopped run stays where it is or moves on without passing the *)
(* look, and keeps the request.                                              *)
Heeds(r) ==
  r \in stopped =>
    /\ act'[r].step \in Critical \ PastCancel
    /\ act'[r].step \in Cancelable => act'[r].cancel

LEMMA HeedsFrame ==
  ASSUME \A r \in Run : Heeds(r), TypeOK, stopped' \subseteq stopped
  PROVE  StoppedInv'
  BY DEF StoppedInv, Heeds, TypeOK

LEMMA SameHeeds ==
  ASSUME StoppedInv, NEW r \in Run, act'[r] = act[r]
  PROVE  Heeds(r)
  BY DEF StoppedInv, Heeds

(* The slot goes to a step that is neither past the look nor before it       *)
(* without the request.                                                      *)
LEMMA GotoHeeds ==
  ASSUME TypeOK, StoppedInv, NEW r \in Run, NEW s \in Critical, Goto(r, s), ~At(r, "free"),
         act[r].step \in Cancelable /\ act[r].cancel => s \notin PastCancel,
         s \in Cancelable => act[r].step \in Cancelable \cup {"locking"},
         act[r].step \notin Cancelable => s \notin PastCancel \/ act[r].step \in PastCancel
  PROVE  \A q \in Run : Heeds(q)
  <1>1. act[r] \in Activation
    BY UsedSlot
  <1>2. \A q \in Run : q # r => act'[q] = act[q]
    BY DEF Goto, TypeOK
  <1>3. act'[r].step = s /\ act'[r].cancel = act[r].cancel
    BY <1>1 DEF Goto, TypeOK, Activation
  <1>4. Heeds(r)
    BY <1>3 DEF StoppedInv, Heeds, Critical
  <1> QED
    BY <1>2, <1>4, SameHeeds

(* A slot outside the critical part is no stopped run's. *)
LEMMA OutsideHeeds ==
  ASSUME TypeOK, StoppedInv, NEW r \in Run, act[r].step \notin Critical,
         \A q \in Run : q # r => act'[q] = act[q]
  PROVE  \A q \in Run : Heeds(q)
  <1>1. Heeds(r)
    BY DEF StoppedInv, Heeds
  <1> QED
    BY <1>1, SameHeeds

LEMMA RunStepHeeds ==
  ASSUME TypeOK, StoppedInv, NEW r \in Run, RunStep(r) PROVE StoppedInv'
  <1>1. CASE AcquireLock(r)
    <2>1. \A q \in Run : q # r => act'[q] = act[q]
      BY <1>1 DEF AcquireLock, Goto, TypeOK
    <2> QED
      BY <1>1, <2>1, OutsideHeeds, HeedsFrame DEF AcquireLock, At, Critical, control
  <1>2. CASE FailLock(r) \/ Rerun(r)
    <2>1. \A q \in Run : q # r => act'[q] = act[q]
      BY <1>2 DEF FailLock, Rerun, End, BeginRun, TypeOK
    <2> QED
      BY <1>2, <2>1, OutsideHeeds, HeedsFrame DEF FailLock, Rerun, At, Critical, control
  <1>3. CASE RecordStart(r) \/ Prepare(r) \/ Announce(r)
    BY <1>3, GotoHeeds, HeedsFrame
    DEF RecordStart, Prepare, Announce, At, Critical, Cancelable, PastCancel, control
  <1>4. CASE RejectRun(r) \/ RuntimeFails(r) \/ OutputFails(r)
    BY <1>4, GotoHeeds, HeedsFrame
    DEF RejectRun, RuntimeFails, OutputFails, EndWithError, At, Critical, Cancelable, PastCancel,
        control
  <1>5. CASE RuntimeSucceeds(r)
    BY <1>5, GotoHeeds, HeedsFrame
    DEF RuntimeSucceeds, At, Critical, Cancelable, PastCancel, control
  <1>6. CASE PersistState(r) \/ OutputSent(r)
    BY <1>6, GotoHeeds, HeedsFrame
    DEF PersistState, OutputSent, At, Critical, Cancelable, PastCancel, control
  <1>7. CASE Finalize(r)
    <2> DEFINE b == CronOf(r) \in queuedKeys
    <2>1. act[r] \in Activation
      BY <1>7, UsedSlot DEF Finalize, At
    <2>2. act' = [act EXCEPT ![r].step = "release", ![r].rerun = b]
      BY <1>7 DEF Finalize
    <2> HIDE DEF b
    <2>3. act'[r].step = "release" /\ \A q \in Run : q # r => act'[q] = act[q]
      BY <2>1, <2>2 DEF TypeOK, Activation
    <2>4. Heeds(r)
      BY <2>3 DEF Heeds, Critical, PastCancel, Cancelable
    <2>5. \A q \in Run : Heeds(q)
      BY <2>3, <2>4, SameHeeds
    <2> QED
      BY <1>7, <2>5, HeedsFrame DEF Finalize, control
  <1>8. CASE ReleaseLock(r)
    <2>1. \A q \in Run : q # r => act'[q] = act[q]
      BY <1>8 DEF ReleaseLock, Cleanup, AfterCleanup, Goto, End, TypeOK
    <2>2. stopped' = stopped \ {r}
      BY <1>8 DEF ReleaseLock, Cleanup
    <2> QED
      BY <2>1, <2>2 DEF StoppedInv, TypeOK
  <1>9. CASE UpdateStatusMessage(r)
    <2>1. \A q \in Run : q # r => act'[q] = act[q]
      BY <1>9 DEF UpdateStatusMessage, AfterCleanup, Goto, End, TypeOK
    <2> QED
      BY <1>9, <2>1, OutsideHeeds, HeedsFrame DEF UpdateStatusMessage, At, Critical, control
  <1> QED
    BY <1>1, <1>2, <1>3, <1>4, <1>5, <1>6, <1>7, <1>8, <1>9 DEF RunStep

LEMMA ExecuteHeeds ==
  ASSUME TypeOK, StoppedInv, NEW c, NEW g, NEW d, Execute(c, g, d)
  PROVE  \A q \in Run : Heeds(q)
  <1>1. CASE UNCHANGED act
    BY <1>1, SameHeeds
  <1>2. CASE \E r \in Run : At(r, "free") /\ BeginRun(r, c, g, d)
    <2>1. PICK r \in Run : At(r, "free") /\ BeginRun(r, c, g, d)
      BY <1>2
    <2>2. \A q \in Run : q # r => act'[q] = act[q]
      BY <2>1 DEF BeginRun, TypeOK
    <2> QED
      BY <2>1, <2>2, OutsideHeeds DEF At, Critical
  <1> QED
    BY <1>1, <1>2 DEF Execute

(* The table of the cancelers leads to every run the request is meant for.   *)
LEMMA CancelReaches ==
  ASSUME IInv, StoppedInv, NEW c \in Cron, RequestCancel(c)
  PROVE  StoppedInv'
  <1> SUFFICES ASSUME NEW r \in Run, r \in stopped'
               PROVE  /\ act'[r].step \in Critical \ PastCancel
                      /\ act'[r].step \in Cancelable => act'[r].cancel
    BY RequestCancelType DEF StoppedInv, IInv
  <1>1. act'[r].step = act[r].step
    BY CancelKeeps DEF IInv
  <1>2. CASE r \in stopped
    <2>1. act[r].step \in Critical \ PastCancel
          /\ (act[r].step \in Cancelable => act[r].cancel)
      BY <1>2 DEF StoppedInv
    <2>2. act[r] # Free
      BY <2>1 DEF Free, Critical
    <2> QED
      BY <1>1, <2>1, <2>2, CancelKeeps DEF IInv
  <1>3. CASE act[r].step \in Cancelable /\ CronOf(r) = c
    <2>1. InRun(r) /\ act[r] # Free /\ act[r].step \notin PastCancel
      BY <1>3 DEF InRun, Free, Critical, Cancelable, PastCancel
    <2>2. canceler[c] = r
      BY <1>3, <2>1 DEF IInv, RunsEntered
    <2> QED
      BY <1>1, <2>1, <2>2, CancelKeeps DEF IInv, InRun
  <1> QED
    BY <1>2, <1>3 DEF RequestCancel

LEMMA NextHeeds == ASSUME IInv, StoppedInv, [Next]_vars PROVE StoppedInv'
  <1> USE DEF IInv
  <1>1. CASE UNCHANGED <<act, stopped>>
    BY <1>1 DEF StoppedInv
  <1>2. CASE \E c \in Cron : Fire(c)
    BY <1>2, ExecuteHeeds, HeedsFrame DEF Fire, control
  <1>3. CASE \E c \in Managed : Cancel(c) \/ Delete(c)
    BY <1>3, CancelReaches, BoundsAssumption DEF Cancel, Delete
  <1>4. CASE \E r \in Run : RunStep(r)
    BY <1>4, RunStepHeeds
  <1>5. CASE \E r \in Run : ChainStep(r)
    BY <1>1, <1>5, ExecuteHeeds, HeedsFrame
    DEF ChainStep, SkipDownstream, FetchDownstream, ForwardState, LaunchDownstream, control
  <1>6. CASE Restart
    BY <1>6 DEF Restart, StoppedInv
  <1> QED
    BY <1>1, <1>2, <1>3, <1>4, <1>5, <1>6
    DEF Next, Quiet, Register, RemoveRecord, control, vars

(* A pause or a delete reaches the run in progress through the table of      *)
(* cancelers, whatever ticks, skips, replaced job objects and ends of other  *)
(* runs did to that table before: the run neither posts its output nor fires *)
(* its chain.                                                                *)
THEOREM CancelHolds == Spec => []CancelStopsRun
  <1>1. Init => IInv /\ StoppedInv
    BY InitIInv DEF Init, StoppedInv
  <1>2. IInv /\ StoppedInv /\ [Next]_vars => (IInv /\ StoppedInv)'
    BY NextIInv, NextHeeds
  <1>3. IInv /\ StoppedInv => CancelStopsRun
    BY DEF StoppedInv, CancelStopsRun, PastCancel
  <1> QED
    BY <1>1, <1>2, <1>3, PTL DEF Spec
=============================================================================
