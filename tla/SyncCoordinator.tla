--------------------------- MODULE SyncCoordinator ---------------------------
(***************************************************************************)
(* TaskSyncCoordinator of src/src/tasks/sync-coordinator.ts with the retry  *)
(* timers of sync-coordinator-retries.ts: the guard that lets one task sync *)
(* run at a time, the follow-up that coalesced callers share, the retry     *)
(* after a failed run and the retry of closes deferred because a reply was  *)
(* in flight in the task's thread.  runTaskSync is reduced to what decides  *)
(* these: when it reads the store, which closes it defers, how it ends.     *)
(***************************************************************************)
EXTENDS Naturals

CONSTANTS
  Task,          \* tasks that get closed; each has a thread
  Poster,        \* status posters a caller may pass to sync()
  NoPoster,      \* `undefined`: no poster was passed
  NoFollowUp,    \* `false`: no follow-up is pending
  RetryEnabled,  \* enableFailureRetry
  MaxRequests,   \* bound: calls of sync() by actions and the startup
  MaxFailures,   \* bound: runs that throw
  MaxReplies,    \* bound: replies that start in a task's thread
  MaxMisses      \* bound: runs that do not find the forum

ASSUME PosterAssumption ==
  /\ NoPoster \notin Poster /\ NoFollowUp \notin Poster
  /\ NoPoster # NoFollowUp
ASSUME SwitchAssumption == RetryEnabled \in BOOLEAN
ASSUME BoundsAssumption ==
  /\ MaxRequests \in Nat /\ MaxFailures \in Nat
  /\ MaxReplies \in Nat /\ MaxMisses \in Nat

VARIABLES
  phase,         \* no run; before the store is read; going through the plan
  poster,        \* the status poster of the run
  pending,       \* pendingStatusPoster
  failureRetry,  \* failureRetryPending: its timer is set
  closeRetry,    \* deferredCloseRetryPending: its timer is set
  sawDeferral,   \* counters.closesDeferred > 0
  plan,          \* closes the run still has to go through
  toClose,       \* closed tasks whose thread is not closed yet
  busy,          \* tasks with a reply in flight in their thread
  owed,          \* history: to be closed when a sync was asked for, not yet in a plan
  deferred,      \* history: tasks whose last close attempt was deferred
  requests, failures, replies, misses  \* counted for their bounds

run == <<phase, poster, pending, sawDeferral, plan>>
timers == <<failureRetry, closeRetry>>
world == <<toClose, busy>>
history == <<owed, deferred>>
bounds == <<requests, failures, replies, misses>>
vars == <<run, timers, world, history, bounds>>

Init ==
  /\ phase = "idle" /\ poster = NoPoster /\ pending = NoFollowUp
  /\ sawDeferral = FALSE /\ plan = {}
  /\ failureRetry = FALSE /\ closeRetry = FALSE
  /\ toClose = {} /\ busy = {}
  /\ owed = {} /\ deferred = {}
  /\ requests = 0 /\ failures = 0 /\ replies = 0 /\ misses = 0

-----------------------------------------------------------------------------
(* Tasks and their threads. *)

(* The task is closed in the store; nothing tells the coordinator. *)
Close(t) ==
  /\ toClose' = toClose \cup {t}
  /\ UNCHANGED <<run, timers, busy, history, bounds>>

(* The action that closed the task closes its thread, or the task is opened  *)
(* again.                                                                    *)
Settle(t) ==
  /\ t \in toClose
  /\ toClose' = toClose \ {t}
  /\ deferred' = deferred \ {t}
  /\ owed' = owed \ {t}
  /\ UNCHANGED <<run, timers, busy, bounds>>

ReplyStarts(t) ==
  /\ t \notin busy /\ replies < MaxReplies
  /\ busy' = busy \cup {t}
  /\ replies' = replies + 1
  /\ UNCHANGED <<run, timers, toClose, history, requests, failures, misses>>

ReplyEnds(t) ==
  /\ t \in busy
  /\ busy' = busy \ {t}
  /\ UNCHANGED <<run, timers, toClose, history, bounds>>

-----------------------------------------------------------------------------
(* sync() *)

(* Mutants of FollowUp: a coalesced call is forgotten; the last caller wins. *)
FollowUp_Dropped(p) == pending
FollowUp_LastWins(p) == p

(* pendingStatusPoster after a call that finds a run in progress. *)
FollowUp(p) == IF p # NoPoster \/ pending = NoFollowUp THEN p ELSE pending

Begin(p) ==
  /\ phase' = "reload"
  /\ poster' = p
  /\ sawDeferral' = FALSE
  /\ plan' = {}

Sync(p) ==
  IF phase = "idle"
  THEN Begin(p) /\ UNCHANGED pending
  ELSE pending' = FollowUp(p) /\ UNCHANGED <<phase, poster, sawDeferral, plan>>

(* The taskSync action, a repair after a thread operation, the startup. *)
Request(p) ==
  /\ requests < MaxRequests
  /\ requests' = requests + 1
  /\ Sync(p)
  /\ owed' = owed \cup toClose
  /\ UNCHANGED <<timers, world, deferred, failures, replies, misses>>

(* runTaskSync takes its snapshot of the store, after the reload of the tag  *)
(* map and the look-up of the forum.                                         *)
Snapshot ==
  /\ phase = "reload"
  /\ phase' = "apply"
  /\ plan' = toClose
  /\ owed' = {}
  /\ UNCHANGED <<poster, pending, sawDeferral, timers, world, deferred, bounds>>

(* Phases 4 and 5 for one task: closed, given up with a warning, or deferred *)
(* because a reply is in flight.                                             *)
Attempt(t) ==
  /\ phase = "apply" /\ t \in plan
  /\ plan' = plan \ {t}
  /\ \/ /\ t \in busy /\ t \in toClose
        /\ sawDeferral' = TRUE
        /\ deferred' = deferred \cup {t}
        /\ UNCHANGED <<toClose, owed>>
     \/ /\ t \notin busy \/ t \notin toClose
        /\ deferred' = deferred \ {t}
        /\ \/ toClose' = toClose \ {t} /\ owed' = owed \ {t}
           \/ UNCHANGED <<toClose, owed>>
        /\ UNCHANGED sawDeferral
  /\ UNCHANGED <<phase, poster, pending, timers, busy, bounds>>

(* Mutants of Finally: the follow-up is not started; its flag is not reset. *)
Finally_NoFollowUp ==
  /\ phase' = "idle" /\ poster' = NoPoster /\ sawDeferral' = FALSE /\ plan' = {}
  /\ UNCHANGED pending

Finally_KeepsPending ==
  IF pending = NoFollowUp
  THEN /\ phase' = "idle" /\ poster' = NoPoster /\ sawDeferral' = FALSE /\ plan' = {}
       /\ UNCHANGED pending
  ELSE Begin(pending) /\ UNCHANGED pending

(* The finally block: the run ends, the follow-up starts at once. *)
Finally ==
  /\ pending' = NoFollowUp
  /\ IF pending = NoFollowUp
     THEN phase' = "idle" /\ poster' = NoPoster /\ sawDeferral' = FALSE /\ plan' = {}
     ELSE Begin(pending)

(* Mutant of CloseRetryAfter: a run that ended well cancels the retry. *)
CloseRetryAfter_Canceled == FALSE

(* The deferred-close retry after a run that returned a result. *)
CloseRetryAfter == sawDeferral

(* runTaskSync returned: the failure retry is canceled, the retry of the     *)
(* deferred closes is set, left, or canceled.                                *)
Succeed ==
  /\ phase = "apply" /\ plan = {}
  /\ failureRetry' = FALSE
  /\ closeRetry' = CloseRetryAfter
  /\ Finally
  /\ UNCHANGED <<world, history, bounds>>

(* The forum could not be found or fetched: runTaskSync returns a result     *)
(* with one warning, which the coordinator takes for a run that went well.   *)
MissForum ==
  /\ phase = "reload" /\ misses < MaxMisses
  /\ misses' = misses + 1
  /\ failureRetry' = FALSE
  /\ closeRetry' = FALSE
  /\ Finally
  /\ UNCHANGED <<world, history, requests, failures, replies>>

(* runTaskSync threw. *)
Fail ==
  /\ phase = "apply" /\ failures < MaxFailures
  /\ failures' = failures + 1
  /\ closeRetry' = FALSE
  /\ failureRetry' = (failureRetry \/ RetryEnabled)
  /\ Finally
  /\ UNCHANGED <<world, history, requests, replies, misses>>

FailureTimer ==
  /\ failureRetry
  /\ failureRetry' = FALSE
  /\ Sync(NoPoster)
  /\ UNCHANGED <<closeRetry, world, history, bounds>>

CloseTimer ==
  /\ closeRetry
  /\ closeRetry' = FALSE
  /\ Sync(NoPoster)
  /\ UNCHANGED <<failureRetry, world, history, bounds>>

-----------------------------------------------------------------------------
RunStep == Snapshot \/ Succeed \/ \E t \in Task : Attempt(t)

Next ==
  \/ \E t \in Task : Close(t) \/ Settle(t) \/ ReplyStarts(t) \/ ReplyEnds(t)
  \/ \E p \in Poster \cup {NoPoster} : Request(p)
  \/ RunStep \/ MissForum \/ Fail
  \/ FailureTimer \/ CloseTimer

(* The awaits of a run settle, timers fire, a reply comes to its end. *)
Fairness ==
  /\ WF_vars(RunStep)
  /\ WF_vars(FailureTimer) /\ WF_vars(CloseTimer)
  /\ \A t \in Task : WF_vars(ReplyEnds(t))

Spec == Init /\ [][Next]_vars
FairSpec == Spec /\ Fairness

-----------------------------------------------------------------------------
(* Shape of the state; a run's locals exist only while it runs, and no       *)
(* follow-up is left pending when nothing runs.                              *)
TypeOK ==
  /\ phase \in {"idle", "reload", "apply"}
  /\ poster \in Poster \cup {NoPoster}
  /\ pending \in Poster \cup {NoPoster, NoFollowUp}
  /\ failureRetry \in BOOLEAN /\ closeRetry \in BOOLEAN /\ sawDeferral \in BOOLEAN
  /\ plan \subseteq Task /\ toClose \subseteq Task /\ busy \subseteq Task
  /\ owed \subseteq Task /\ deferred \subseteq Task
  /\ phase # "apply" => plan = {} /\ ~sawDeferral
  /\ phase = "idle" => pending = NoFollowUp /\ poster = NoPoster
  /\ requests \in 0 .. MaxRequests /\ failures \in 0 .. MaxFailures
  /\ replies \in 0 .. MaxReplies /\ misses \in 0 .. MaxMisses

Missed == misses > 0

(* sync-coordinator.ts:79 "coalesced into the running sync's follow-up": what *)
(* was to be closed when a caller asked for a sync is read by a run that has *)
(* not read the store yet, the running one or its follow-up, as long as the  *)
(* forum is found.                                                           *)
RequestIsCovered == ~Missed /\ owed # {} => phase = "reload" \/ pending # NoFollowUp

(* sync-coordinator.ts:74 "Preserve the most specific statusPoster": a status *)
(* poster handed over by a coalesced caller is used by the follow-up or gives *)
(* way to another poster, never to none.                                     *)
PosterIsKept ==
  [][(pending \in Poster) =>
       (pending' \in Poster \/ (pending' = NoFollowUp /\ poster' = pending))]_vars

(* docs/plan-command-reference.md:491 "deferred-close retries when sync       *)
(* reports closesDeferred > 0": a close put off because of a reply in flight *)
(* has a run or a timer that will come back to it.                           *)
CloseRetryIsKept == deferred # {} => phase # "idle" \/ closeRetry \/ failureRetry

(* That holds, whatever coalesced, failed or was retried in between, as long *)
(* as the forum is found.                                                    *)
DeferredHasRetry == ~Missed => CloseRetryIsKept

(* Such a close is carried out or given up with a warning. *)
DeferredIsRetried == \A t \in Task : t \in deferred ~> (t \notin deferred \/ Missed)

(* Once no caller asks any more, follow-ups and retries come to an end. *)
SyncQuiesces == <>[](phase = "idle" /\ ~closeRetry /\ ~failureRetry)
=============================================================================
