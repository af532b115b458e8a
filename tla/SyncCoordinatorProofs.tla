------------------------ MODULE SyncCoordinatorProofs ------------------------
(***************************************************************************)
(* For every set of tasks and posters and every bound: the coordinator's    *)
(* state keeps its shape, no request is lost behind a running sync, the     *)
(* poster of a coalesced caller survives, and, with the failure retry       *)
(* enabled, a deferred close always has something that comes back to it.    *)
(***************************************************************************)
EXTENDS SyncCoordinator, TLAPS

USE DEF run, timers, world, history, bounds

(* Starting a run, or coalescing with one, keeps the run's variables in shape. *)
LEMMA SyncType ==
  ASSUME TypeOK, NEW p \in Poster \cup {NoPoster}, Sync(p)
  PROVE  /\ phase' \in {"idle", "reload", "apply"}
         /\ poster' \in Poster \cup {NoPoster}
         /\ pending' \in Poster \cup {NoPoster, NoFollowUp}
         /\ sawDeferral' \in BOOLEAN /\ plan' \subseteq Task
         /\ phase' # "idle"
         /\ phase' # "apply" => plan' = {} /\ ~sawDeferral'
BY DEF TypeOK, Sync, Begin, FollowUp

(* The same for the finally block. *)
LEMMA FinallyType ==
  ASSUME TypeOK, Finally
  PROVE  /\ phase' \in {"idle", "reload"}
         /\ poster' \in Poster \cup {NoPoster}
         /\ pending' = NoFollowUp
         /\ sawDeferral' = FALSE /\ plan' = {}
         /\ phase' = "idle" => poster' = NoPoster
BY DEF TypeOK, Finally, Begin

(* The shape of the state is kept by every step. *)
THEOREM TypeCorrect == Spec => []TypeOK
<1>1. Init => TypeOK
  <2> SUFFICES ASSUME Init PROVE TypeOK
    OBVIOUS
  <2>1. /\ requests \in 0 .. MaxRequests /\ failures \in 0 .. MaxFailures
        /\ replies \in 0 .. MaxReplies /\ misses \in 0 .. MaxMisses
    BY BoundsAssumption DEF Init
  <2> QED
    BY <2>1 DEF Init, TypeOK
<1>2. TypeOK /\ [Next]_vars => TypeOK'
  <2> SUFFICES ASSUME TypeOK, [Next]_vars PROVE TypeOK'
    OBVIOUS
  <2> USE BoundsAssumption, SwitchAssumption
  <2>1. ASSUME NEW t \in Task, Close(t) PROVE TypeOK'
    BY <2>1 DEF TypeOK, Close
  <2>2. ASSUME NEW t \in Task, Settle(t) PROVE TypeOK'
    BY <2>2 DEF TypeOK, Settle
  <2>3. ASSUME NEW t \in Task, ReplyStarts(t) PROVE TypeOK'
    BY <2>3 DEF TypeOK, ReplyStarts
  <2>4. ASSUME NEW t \in Task, ReplyEnds(t) PROVE TypeOK'
    BY <2>4 DEF TypeOK, ReplyEnds
  <2>5. ASSUME NEW p \in Poster \cup {NoPoster}, Request(p) PROVE TypeOK'
    <3>1. Sync(p) /\ requests' \in 0 .. MaxRequests
      BY <2>5 DEF TypeOK, Request
    <3> QED
      BY <2>5, <3>1, SyncType DEF TypeOK, Request
  <2>6. CASE Snapshot
    BY <2>6 DEF TypeOK, Snapshot
  <2>7. ASSUME NEW t \in Task, Attempt(t) PROVE TypeOK'
    BY <2>7 DEF TypeOK, Attempt
  <2>8. CASE Succeed
    BY <2>8, FinallyType DEF TypeOK, Succeed, CloseRetryAfter
  <2>9. CASE MissForum
    <3>1. misses' \in 0 .. MaxMisses
      BY <2>9 DEF TypeOK, MissForum
    <3> QED
      BY <2>9, <3>1, FinallyType DEF TypeOK, MissForum
  <2>10. CASE Fail
    <3>1. failures' \in 0 .. MaxFailures
      BY <2>10 DEF TypeOK, Fail
    <3> QED
      BY <2>10, <3>1, FinallyType DEF TypeOK, Fail
  <2>11. CASE FailureTimer
    BY <2>11, SyncType DEF TypeOK, FailureTimer
  <2>12. CASE CloseTimer
    BY <2>12, SyncType DEF TypeOK, CloseTimer
  <2>13. CASE UNCHANGED vars
    BY <2>13 DEF TypeOK, vars
  <2> QED
    BY <2>1, <2>2, <2>3, <2>4, <2>5, <2>6, <2>7, <2>8, <2>9, <2>10, <2>11, <2>12, <2>13
       DEF Next, RunStep
<1> QED
  BY <1>1, <1>2, PTL DEF Spec

(* Every task owed to a caller is covered: no run that passed its snapshot   *)
(* without a follow-up leaves one behind (RequestIsCovered is inductive      *)
(* together with the shape of the state).                                    *)
THEOREM NoRequestLost == Spec => []RequestIsCovered
<1>1. Init => RequestIsCovered
  BY DEF Init, RequestIsCovered
<1>2. TypeOK /\ RequestIsCovered /\ [Next]_vars => RequestIsCovered'
  <2> SUFFICES ASSUME TypeOK, RequestIsCovered, [Next]_vars, ~Missed', owed' # {}
               PROVE  phase' = "reload" \/ pending' # NoFollowUp
    BY DEF RequestIsCovered
  <2>0. ~Missed
    BY DEF TypeOK, Missed, Next, RunStep, Close, Settle, ReplyStarts, ReplyEnds, Request,
           Snapshot, Attempt, Succeed, MissForum, Fail, FailureTimer, CloseTimer, vars
  <2>1. ASSUME NEW p \in Poster \cup {NoPoster}, Sync(p)
        PROVE  phase' = "reload" \/ pending' # NoFollowUp
    BY <2>1, PosterAssumption DEF Sync, Begin, FollowUp
  <2>2. ASSUME NEW t \in Task, Close(t) \/ Settle(t) \/ ReplyStarts(t) \/ ReplyEnds(t)
        PROVE  phase' = "reload" \/ pending' # NoFollowUp
    BY <2>0, <2>2 DEF RequestIsCovered, Close, Settle, ReplyStarts, ReplyEnds
  <2>3. ASSUME NEW p \in Poster \cup {NoPoster}, Request(p)
        PROVE  phase' = "reload" \/ pending' # NoFollowUp
    BY <2>1, <2>3 DEF Request
  <2>4. CASE Snapshot
    BY <2>4 DEF Snapshot
  <2>5. ASSUME NEW t \in Task, Attempt(t)
        PROVE  phase' = "reload" \/ pending' # NoFollowUp
    BY <2>0, <2>5 DEF RequestIsCovered, Attempt
  <2>6. CASE Succeed \/ Fail
    <3>1. pending # NoFollowUp
      BY <2>0, <2>6 DEF RequestIsCovered, Succeed, Fail
    <3> QED
      BY <2>6, <3>1 DEF Succeed, Fail, Finally, Begin
  <2>7. CASE MissForum
    BY <2>7 DEF MissForum, TypeOK, Missed
  <2>8. CASE FailureTimer \/ CloseTimer
    BY <2>1, <2>8 DEF FailureTimer, CloseTimer
  <2>9. CASE UNCHANGED vars
    BY <2>0, <2>9 DEF RequestIsCovered, vars
  <2> QED
    BY <2>2, <2>3, <2>4, <2>5, <2>6, <2>7, <2>8, <2>9 DEF Next, RunStep
<1> QED
  BY <1>1, <1>2, TypeCorrect, PTL DEF Spec

(* A poster waiting for the follow-up goes into it or gives way to another. *)
THEOREM PosterSurvives == Spec => PosterIsKept
<1>1. ASSUME [Next]_vars
      PROVE  [(pending \in Poster) =>
               (pending' \in Poster \/ (pending' = NoFollowUp /\ poster' = pending))]_vars
  <2> SUFFICES ASSUME pending \in Poster
               PROVE  pending' \in Poster \/ (pending' = NoFollowUp /\ poster' = pending)
    OBVIOUS
  <2>1. ASSUME NEW p \in Poster \cup {NoPoster}, Sync(p) PROVE pending' \in Poster
    BY <2>1, PosterAssumption DEF Sync, Begin, FollowUp
  <2>2. ASSUME Finally PROVE pending' = NoFollowUp /\ poster' = pending
    BY <2>2, PosterAssumption DEF Finally, Begin
  <2> QED
    BY <1>1, <2>1, <2>2 DEF Next, RunStep, Close, Settle, ReplyStarts, ReplyEnds, Request, Snapshot,
       Attempt, Succeed, MissForum, Fail, FailureTimer, CloseTimer, vars
<1> QED
  BY <1>1, PTL DEF Spec, PosterIsKept

(* What carries DeferredHasRetry from the attempt that deferred a close to   *)
(* the timer: during a run, a deferred close is still in the plan or has     *)
(* been noticed; between runs, a timer is set.                               *)
DeferralTracked ==
  ~Missed =>
    /\ deferred \subseteq toClose
    /\ phase = "apply" => deferred \subseteq plan \/ sawDeferral
    /\ phase = "idle" /\ deferred # {} => closeRetry \/ failureRetry

(* With the failure retry enabled, DeferralTracked is an invariant. *)
THEOREM DeferralInvariant == RetryEnabled => (Spec => []DeferralTracked)
<1> SUFFICES ASSUME RetryEnabled PROVE Spec => []DeferralTracked
  OBVIOUS
<1>1. Init => DeferralTracked
  BY DEF Init, DeferralTracked
<1>2. TypeOK /\ DeferralTracked /\ [Next]_vars => DeferralTracked'
  <2> SUFFICES ASSUME TypeOK, DeferralTracked, [Next]_vars, ~Missed'
               PROVE  /\ deferred' \subseteq toClose'
                      /\ phase' = "apply" => deferred' \subseteq plan' \/ sawDeferral'
                      /\ phase' = "idle" /\ deferred' # {} => closeRetry' \/ failureRetry'
    BY DEF DeferralTracked
  <2>0. ~Missed
    BY DEF TypeOK, Missed, Next, RunStep, Close, Settle, ReplyStarts, ReplyEnds, Request,
           Snapshot, Attempt, Succeed, MissForum, Fail, FailureTimer, CloseTimer, vars
  <2> USE <2>0 DEF DeferralTracked
  <2>1. ASSUME NEW t \in Task, Close(t) \/ Settle(t) \/ ReplyStarts(t) \/ ReplyEnds(t)
        PROVE  /\ deferred' \subseteq toClose'
               /\ phase' = "apply" => deferred' \subseteq plan' \/ sawDeferral'
               /\ phase' = "idle" /\ deferred' # {} => closeRetry' \/ failureRetry'
    BY <2>1 DEF Close, Settle, ReplyStarts, ReplyEnds
  <2>2. ASSUME NEW p \in Poster \cup {NoPoster}, Sync(p), UNCHANGED <<toClose, deferred>>
        PROVE  /\ deferred' \subseteq toClose'
               /\ phase' = "apply" => deferred' \subseteq plan' \/ sawDeferral'
               /\ phase' # "idle"
    BY <2>2 DEF Sync, Begin
  <2>3. ASSUME NEW p \in Poster \cup {NoPoster}, Request(p)
        PROVE  /\ deferred' \subseteq toClose'
               /\ phase' = "apply" => deferred' \subseteq plan' \/ sawDeferral'
               /\ phase' = "idle" /\ deferred' # {} => closeRetry' \/ failureRetry'
    BY <2>2, <2>3 DEF Request
  <2>4. CASE Snapshot
    BY <2>4 DEF Snapshot
  <2>5. ASSUME NEW t \in Task, Attempt(t)
        PROVE  /\ deferred' \subseteq toClose'
               /\ phase' = "apply" => deferred' \subseteq plan' \/ sawDeferral'
               /\ phase' = "idle" /\ deferred' # {} => closeRetry' \/ failureRetry'
    BY <2>5 DEF Attempt
  <2>6. CASE Succeed
    BY <2>6, FinallyType DEF Succeed, CloseRetryAfter
  <2>7. CASE Fail
    BY <2>7, FinallyType DEF Fail
  <2>8. CASE MissForum
    BY <2>8 DEF MissForum, TypeOK, Missed
  <2>9. CASE FailureTimer
    BY <2>2, <2>9 DEF FailureTimer
  <2>10. CASE CloseTimer
    BY <2>2, <2>10 DEF CloseTimer
  <2>11. CASE UNCHANGED vars
    BY <2>11 DEF vars
  <2> QED
    BY <2>1, <2>3, <2>4, <2>5, <2>6, <2>7, <2>8, <2>9, <2>10, <2>11 DEF Next, RunStep
<1> QED
  BY <1>1, <1>2, TypeCorrect, PTL DEF Spec

(* With the failure retry enabled, a deferred close always has a run or a    *)
(* timer that comes back to it.                                              *)
THEOREM DeferredNeverForgotten == RetryEnabled => (Spec => []DeferredHasRetry)
<1> SUFFICES ASSUME RetryEnabled PROVE Spec => []DeferredHasRetry
  OBVIOUS
<1>1. TypeOK /\ DeferralTracked => DeferredHasRetry
  BY DEF DeferralTracked, DeferredHasRetry, CloseRetryIsKept, TypeOK
<1>2. Spec => []DeferralTracked
  BY DeferralInvariant
<1> QED
  BY <1>1, <1>2, TypeCorrect, PTL
=============================================================================
