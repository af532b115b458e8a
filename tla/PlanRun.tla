------------------------------- MODULE PlanRun -------------------------------
(***************************************************************************)
(* The runs of one approved plan: its phases on disk and the runner that    *)
(* carries them out in a git working tree (src/src/discord/                 *)
(* plan-manager.ts), the command and the action that start a run            *)
(* (message-coordinator.ts, actions-plan.ts), the commands that change the  *)
(* plan or its phases meanwhile (plan-commands.ts) and the workspace writer *)
(* lock (forge-plan-registry.ts; here any waiter may be served next).  The  *)
(* files are under git: committed, staged in the index and in the working   *)
(* tree, each a set of those whose changes it has; one that git does not    *)
(* track is a file with nothing committed and nothing staged.  Phases form  *)
(* the chain that decomposePlan makes of a list of files, the audit last,   *)
(* so that a target phase is the next one or refused.  Left out: what       *)
(* phases say and find, the convergence guard's message, codex's exempted   *)
(* error, git commands of the agents, the backing task.                     *)
(***************************************************************************)
EXTENDS Naturals

CONSTANTS
  Last,         \* number of phases: the last one is the audit
  File,         \* files of the project
  Run, Command, \* calls that may start a run; those that are !plan commands
  NoRun,
  MaxPhases,    \* phases a run carries out at most
  Kinds,        \* bound: what may happen besides undisturbed runs,
  MaxTroubles   \* and how often

AllKinds ==
  {"fail", "throw", "stop", "git", "edit", "stage", "command", "plan", "crash"}

ASSUME PlanAssumption ==
  /\ Last \in Nat \ {0} /\ MaxPhases \in Nat \ {0} /\ MaxTroubles \in Nat
  /\ Command \subseteq Run /\ NoRun \notin Run /\ Kinds \subseteq AllKinds

Phase == 1..Last
User == 0
Author == 0..Last
Implements(p) == p # Last
DependsOn(p) == IF Implements(p) THEN Phase \cap {p - 1} ELSE 1..(Last - 1)
Terminal == {"done", "skipped"}
Runnable == {"APPROVED"}   \* IMPLEMENTING is accepted too, but nothing sets it

VARIABLES
  plan,     \* the plan file: its status and the version of what each phase is made of
  phases,   \* the phases file: made or not, planContentHash, one row per phase
  head, index, work, \* [File -> authors]: the last commit, what is staged, the working tree
  run,      \* [Run -> the progress of a run and what it holds in memory]
  lock,     \* the writer lock's holder
  running,  \* isPlanRunning
  troubles, \* counted for its bound
  precious, \* history: files the user changed while no phase was carried out
  staged    \* history: files the user staged

tree == <<head, index, work, precious, staged>>
vars == <<plan, phases, tree, run, lock, running, troubles>>
repo == <<head, index>>
user == <<precious, staged>>

Nothing == [f \in File |-> {}]
Pending == [status |-> "pending", files |-> {}, hashed |-> FALSE, was |-> Nothing]
Fresh == [made |-> TRUE, hash |-> plan, row |-> [p \in Phase |-> Pending]]
NoPhases == [made |-> FALSE, hash |-> [status |-> "REVIEW", text |-> [p \in Phase |-> 0]],
             row |-> [p \in Phase |-> Pending]]
(* A run that carries out no phase. *)
Between(at, count, limit) ==
  [at |-> at, count |-> count, limit |-> limit, phase |-> 1, copy |-> NoPhases,
   pre |-> {}, set |-> {}, outcome |-> "none"]
Idle == Between("idle", 0, 0)
Over == Between("over", 0, 0)

Init ==
  /\ plan = [status |-> "APPROVED", text |-> [p \in Phase |-> 0]]
  /\ phases = NoPhases
  /\ head = Nothing /\ index = Nothing /\ work = Nothing /\ precious = {} /\ staged = {}
  /\ run = [r \in Run |-> Idle] /\ lock = NoRun /\ running = FALSE /\ troubles = 0

Trouble(kind) ==
  kind \in Kinds /\ troubles < MaxTroubles /\ troubles' = troubles + 1

At(r, at) == run[r].at = at
To(r, at) == run' = [run EXCEPT ![r].at = at]
Dirty == {f \in File : work[f] # index[f] \/ index[f] # head[f]}   \* gitDiffNames
Stale == phases.hash # plan                 \* checkStaleness
Status(p) == phases.row[p].status

-----------------------------------------------------------------------------
(* Choosing a phase. *)

First(S) == CHOOSE p \in S : \A q \in S : p <= q
InProgress == {p \in Phase : Status(p) = "in-progress"}
Failed == {p \in Phase : Status(p) = "failed"}
Ready == {p \in Phase : Status(p) = "pending"
                        /\ \A d \in DependsOn(p) : Status(d) \in Terminal}

NothingToRun == InProgress \cup Failed \cup Ready = {}
NextPhase ==
  First(IF InProgress # {} THEN InProgress ELSE IF Failed # {} THEN Failed ELSE Ready)

(* A failed phase whose changes are not on record is not retried. *)
RetryBlocked(p) ==
  /\ Status(p) = "failed" /\ Implements(p)
  /\ phases.row[p].files = {} \/ ~phases.row[p].hashed

-----------------------------------------------------------------------------
(* A call: a command registers the plan and validates it under the lock, an  *)
(* action validates it without and registers the plan afterwards.  A call    *)
(* while the plan is registered changes nothing.                             *)

StartCommand(r, limit) ==
  /\ r \in Command /\ At(r, "idle") /\ ~running
  /\ running' = TRUE
  /\ run' = [run EXCEPT ![r] = Between("queued", 0, limit)]
  /\ UNCHANGED <<plan, phases, tree, lock, troubles>>

StartAction(r) ==
  /\ r \notin Command /\ At(r, "idle") /\ ~running
  /\ run' = [run EXCEPT ![r] = Between("gate", 0, MaxPhases)]
  /\ UNCHANGED <<plan, phases, tree, lock, running, troubles>>

Validate(r) ==
  /\ At(r, "queued") /\ lock = NoRun
  /\ lock' = r /\ To(r, "gate")
  /\ UNCHANGED <<plan, phases, tree, running, troubles>>

(* Mutant: a refused command stays registered. *)
Refuse_StaysRegistered(r) ==
  /\ run' = [run EXCEPT ![r] = Over]
  /\ IF r \in Command THEN lock' = NoRun ELSE UNCHANGED lock
  /\ UNCHANGED running

Refuse(r) ==
  /\ run' = [run EXCEPT ![r] = Over]
  /\ IF r \in Command THEN lock' = NoRun /\ running' = FALSE ELSE UNCHANGED <<lock, running>>

(* The plan's status, and whether there is a phases file. *)
Gate(r) ==
  /\ At(r, "gate")
  /\ IF plan.status \in Runnable
     THEN To(r, IF phases.made THEN "check" ELSE "generate") /\ UNCHANGED <<lock, running>>
     ELSE Refuse(r)
  /\ UNCHANGED <<plan, phases, tree, troubles>>

(* The plan was read in between. *)
Generate(r) ==
  /\ At(r, "generate")
  /\ phases' = Fresh /\ To(r, "check")
  /\ UNCHANGED <<plan, tree, lock, running, troubles>>

Check(r) ==
  /\ At(r, "check")
  /\ IF Stale \/ NothingToRun THEN Refuse(r)
     ELSE /\ To(r, "loop") /\ running' = TRUE
          /\ IF r \in Command THEN lock' = NoRun ELSE UNCHANGED lock
  /\ UNCHANGED <<plan, phases, tree, troubles>>

-----------------------------------------------------------------------------
(* runNextPhase, under the lock. *)

(* The phase is over and the lock released. *)
Leave(r, at) ==
  /\ lock' = NoRun
  /\ run' = [run EXCEPT ![r] = Between(at, run[r].count, run[r].limit)]

(* Mutant: one phase more than the limit. *)
Choose_OneMore(r) ==
  /\ At(r, "loop") /\ run[r].count <= run[r].limit /\ lock = NoRun
  /\ IF Stale \/ NothingToRun THEN Leave(r, "closing")
     ELSE IF RetryBlocked(NextPhase) THEN Leave(r, "closing")
     ELSE /\ lock' = r
          /\ run' = [run EXCEPT ![r].at = "chosen", ![r].phase = NextPhase, ![r].copy = phases]
  /\ UNCHANGED <<plan, phases, tree, running, troubles>>

(* Everything up to the first event is one step. *)
Choose(r) ==
  /\ At(r, "loop") /\ run[r].count < run[r].limit /\ lock = NoRun
  /\ IF Stale \/ NothingToRun THEN Leave(r, "closing")
     ELSE IF RetryBlocked(NextPhase) THEN Leave(r, "closing")
     ELSE /\ lock' = r
          /\ run' = [run EXCEPT ![r].at = "chosen", ![r].phase = NextPhase, ![r].copy = phases]
  /\ UNCHANGED <<plan, phases, tree, running, troubles>>

Row(r) == run[r].copy.row[run[r].phase]
WithRow(r, row) == [run[r].copy EXCEPT !.row[run[r].phase] = row]

(* Mutant: a retry reverts every file of the failed attempt. *)
ToRevert_Unchecked(r) ==
  IF Row(r).status = "failed" /\ Row(r).hashed THEN Row(r).files ELSE {}

(* The files of the failed attempt that still are as it left them. *)
ToRevert(r) ==
  IF Row(r).status = "failed" /\ Row(r).hashed
  THEN {f \in Row(r).files : work[f] = Row(r).was[f]} ELSE {}

(* In progress on disk, the snapshot, and what a retry has to revert. *)
Mark(r) ==
  LET marked == WithRow(r, [Row(r) EXCEPT !.status = "in-progress"]) IN
  /\ At(r, "chosen")
  /\ phases' = marked
  /\ run' = [run EXCEPT ![r].at = "reverting", ![r].copy = marked,
                        ![r].pre = Dirty, ![r].set = ToRevert(r)]
  /\ UNCHANGED <<plan, tree, lock, running, troubles>>

(* Tracked files as they are staged, the others removed. *)
CheckedOut(S) == [f \in File |-> IF f \in S THEN index[f] ELSE work[f]]

Revert(r) ==
  /\ At(r, "reverting")
  /\ \/ work' = CheckedOut(run[r].set) /\ UNCHANGED troubles
     \/ Trouble("git") /\ UNCHANGED work
  /\ run' = [run EXCEPT ![r].at = "ready", ![r].set = {}]
  /\ UNCHANGED <<plan, phases, repo, user, lock, running>>

Edited(r, S) == [f \in File |-> IF f \in S THEN work[f] \cup {run[r].phase} ELSE work[f]]
Ends(r, outcome) == run' = [run EXCEPT ![r].at = "executed", ![r].outcome = outcome,
                                       ![r].set = {}]

Implement(r) ==
  /\ At(r, "ready") /\ Implements(run[r].phase)
  /\ \E S \in SUBSET File : work' = Edited(r, S)
  /\ \/ Ends(r, "done") /\ UNCHANGED troubles
     \/ Ends(r, "failed") /\ Trouble("fail")
  /\ UNCHANGED <<plan, phases, repo, user, lock, running>>

(* An audit that finds something starts the fix loop from a snapshot. *)
Audit(r) ==
  /\ At(r, "ready") /\ ~Implements(run[r].phase)
  /\ \/ Ends(r, "done") /\ UNCHANGED troubles
     \/ Ends(r, "failed") /\ Trouble("fail")
     \/ /\ run' = [run EXCEPT ![r].at = "fixing", ![r].set = Dirty] /\ Trouble("fail")
  /\ UNCHANGED <<plan, phases, tree, lock, running>>

(* What was clean when the fix loop started, as it is staged; the rest as the *)
(* attempts to fix, which wrote S, leave it.                                  *)
RolledBack(r, S) ==
  [f \in File |-> IF f \in (S \cup Dirty) \ run[r].set THEN index[f] ELSE Edited(r, S)[f]]

(* The last audit passes, or what the attempts changed first is rolled back. *)
Fix(r) ==
  /\ At(r, "fixing")
  /\ \E S \in SUBSET File :
       \/ work' = Edited(r, S) /\ Ends(r, "done") /\ UNCHANGED troubles
       \/ work' = RolledBack(r, S) /\ Ends(r, "audit failed") /\ UNCHANGED troubles
       \/ work' = Edited(r, S) /\ Ends(r, "audit failed") /\ Trouble("git")
  /\ UNCHANGED <<plan, phases, repo, user, lock, running>>

Modified(r) == Dirty \ run[r].pre

Attempt(r) ==
  LET hashed == run[r].outcome = "failed" /\ Modified(r) # {} IN
  [status |-> IF run[r].outcome = "done" THEN "done" ELSE "failed",
   files |-> Modified(r), hashed |-> hashed,
   was |-> [f \in File |-> IF hashed /\ f \in Modified(r) THEN work[f] ELSE {}]]

Done(r) ==
  /\ lock' = NoRun
  /\ run' = [run EXCEPT ![r] = Between("loop", run[r].count + 1, run[r].limit)]

(* The outcome, the files and their hashes on disk. *)
Record(r) ==
  LET recorded == WithRow(r, Attempt(r)) IN
  /\ At(r, "executed")
  /\ phases' = recorded
  /\ CASE run[r].outcome # "done" -> Leave(r, "closing")
       [] run[r].outcome = "done" /\ Modified(r) = {} -> Done(r)
       [] OTHER -> /\ run' = [run EXCEPT ![r].at = "committing", ![r].copy = recorded,
                                         ![r].set = Modified(r)]
                   /\ UNCHANGED lock
  /\ UNCHANGED <<plan, tree, running, troubles>>

Added(S) == [f \in File |-> IF f \in S THEN work[f] ELSE index[f]]   \* git add

(* The commit, of all that is staged, and its hash on disk; or git fails,    *)
(* and git reset, if it works, unstages everything.                          *)
Commit(r) ==
  /\ At(r, "committing")
  /\ \/ /\ index' = Added(run[r].set) /\ head' = index'
        /\ phases' = run[r].copy /\ UNCHANGED troubles
     \/ /\ Trouble("git") /\ UNCHANGED <<head, phases>>
        /\ index' \in {head, index, Added(run[r].set)}
  /\ Done(r)
  /\ UNCHANGED <<plan, work, user, running>>

(* A progress message is refused while the phase is carried out, or between  *)
(* two attempts to fix.  A command goes on to close the plan, an action does *)
(* only if it finds its thread archived.                                     *)
Throw(r) ==
  /\ run[r].at \in {"chosen", "reverting", "ready", "fixing"}
  /\ Trouble("throw")
  /\ \/ UNCHANGED work
     \/ At(r, "fixing") /\ \E S \in SUBSET File : work' \in {Edited(r, S), RolledBack(r, S)}
  /\ Leave(r, "closing") \/ (r \notin Command /\ Leave(r, "leaving"))
  /\ UNCHANGED <<plan, phases, repo, user, running>>

-----------------------------------------------------------------------------
(* The end of a run. *)

(* The limit, a shutdown, an archived thread. *)
Stop(r) ==
  /\ At(r, "loop")
  /\ IF run[r].count = run[r].limit THEN UNCHANGED troubles ELSE Trouble("stop")
  /\ To(r, "closing")
  /\ UNCHANGED <<plan, phases, tree, lock, running>>

(* The action cannot tell of a phase's end. *)
SkipClose(r) ==
  /\ r \notin Command /\ run[r].at \in {"loop", "closing"}
  /\ Trouble("throw") /\ To(r, "leaving")
  /\ UNCHANGED <<plan, phases, tree, lock, running>>

Complete == \A p \in Phase : Status(p) \in Terminal

(* closePlanIfComplete *)
Close(r) ==
  /\ At(r, "closing") /\ lock = NoRun
  /\ plan' = IF Complete /\ plan.status \in Runnable
             THEN [plan EXCEPT !.status = "CLOSED"] ELSE plan
  /\ To(r, "leaving")
  /\ UNCHANGED <<phases, tree, lock, running, troubles>>

Deregister(r) ==
  /\ At(r, "leaving")
  /\ run' = [run EXCEPT ![r] = Over] /\ running' = FALSE
  /\ UNCHANGED <<plan, phases, tree, lock, troubles>>

-----------------------------------------------------------------------------
(* The other commands, the user and the process. *)

(* Not under the lock. *)
SetStatus(status) ==
  /\ plan.status # status /\ Trouble("plan")
  /\ plan' = [plan EXCEPT !.status = status]
  /\ UNCHANGED <<phases, tree, run, lock, running>>

EditPlan(p) ==
  /\ Trouble("plan")
  /\ plan' = [plan EXCEPT !.text[p] = @ + 1]
  /\ UNCHANGED <<phases, tree, run, lock, running>>

UnderLock == lock = NoRun /\ Trouble("command") /\ UNCHANGED <<plan, tree, run, lock, running>>

(* Mutant: resequencing does not look at the dependencies. *)
Kept_Unordered ==
  {p \in Phase : Status(p) = "done" /\ phases.hash.text[p] = plan.text[p]}

(* Done phases that did not change and whose dependencies are kept. *)
Kept ==
  {p \in Phase : \A q \in 1..p : Status(q) = "done" /\ phases.hash.text[q] = plan.text[q]}

Regenerate(keepDone) ==
  /\ UnderLock
  /\ phases' = IF keepDone /\ phases.made
               THEN [Fresh EXCEPT !.row = [p \in Phase |->
                       IF p \in Kept THEN phases.row[p] ELSE Pending]]
               ELSE Fresh

Skipped(S) ==
  [phases EXCEPT !.row = [p \in Phase |->
    IF p \in S THEN [@[p] EXCEPT !.status = "skipped"] ELSE @[p]]]

(* Mutant: the lock is not waited for. *)
Skip_Unlocked ==
  /\ Trouble("command") /\ UNCHANGED <<plan, tree, run, lock, running>>
  /\ InProgress \cup Failed # {}
  /\ phases' = Skipped({First(InProgress \cup Failed)})

Skip ==
  /\ UnderLock
  /\ InProgress \cup Failed # {}
  /\ phases' = Skipped({First(InProgress \cup Failed)})

SkipTo(p) ==
  /\ UnderLock
  /\ phases.made /\ Status(p) \notin Terminal
  /\ phases' = Skipped({q \in 1..(p - 1) : Status(q) \notin Terminal})

(* A phase is being carried out. *)
Executing ==
  \E r \in Run : run[r].at \in {"reverting", "ready", "fixing", "executed", "committing"}

UserEdit(f) ==
  /\ User \notin work[f] /\ Trouble("edit")
  /\ work' = [work EXCEPT ![f] = @ \cup {User}]
  /\ precious' = IF Executing THEN precious ELSE precious \cup {f}
  /\ UNCHANGED <<plan, phases, repo, staged, run, lock, running>>

UserStage(f) ==
  /\ index[f] # work[f] /\ Trouble("stage")
  /\ index' = [index EXCEPT ![f] = work[f]] /\ staged' = staged \cup {f}
  /\ UNCHANGED <<plan, phases, head, work, precious, run, lock, running>>

Crash ==
  /\ Trouble("crash")
  /\ run' = [r \in Run |-> IF At(r, "idle") THEN Idle ELSE Over]
  /\ lock' = NoRun /\ running' = FALSE
  /\ UNCHANGED <<plan, phases, tree>>

-----------------------------------------------------------------------------
RunStep(r) ==
  \/ Validate(r) \/ Gate(r) \/ Generate(r) \/ Check(r)
  \/ Choose(r) \/ Mark(r) \/ Revert(r) \/ Implement(r) \/ Audit(r) \/ Fix(r)
  \/ Record(r) \/ Commit(r) \/ Throw(r)
  \/ Stop(r) \/ SkipClose(r) \/ Close(r) \/ Deregister(r)

Call(r) == StartAction(r) \/ \E limit \in {1, MaxPhases} : StartCommand(r, limit)

Outside ==
  \/ \E status \in {"APPROVED", "CLOSED"} : SetStatus(status)
  \/ \E p \in Phase : EditPlan(p) \/ SkipTo(p)
  \/ \E keepDone \in BOOLEAN : Regenerate(keepDone)
  \/ Skip \/ Crash
  \/ \E f \in File : UserEdit(f) \/ UserStage(f)

(* No run is left: nothing more has to happen. *)
AtRest == (\A r \in Run : At(r, "over")) /\ UNCHANGED vars

Next == (\E r \in Run : Call(r) \/ RunStep(r)) \/ Outside \/ AtRest

Spec == Init /\ [][Next]_vars
FairSpec == Spec /\ WF_vars(\E r \in Run : RunStep(r))
-----------------------------------------------------------------------------
Status_ == {"pending", "in-progress"} \cup Terminal \cup {"failed"}
Rows == [status : Status_, files : SUBSET File, hashed : BOOLEAN,
         was : [File -> SUBSET Author]]
Plans == [status : {"REVIEW", "APPROVED", "CLOSED"}, text : [Phase -> Nat]]
PhasesFiles == [made : BOOLEAN, hash : Plans, row : [Phase -> Rows]]
Outcomes == {"none", "done", "failed", "audit failed"}
Places == {"idle", "queued", "gate", "generate", "check", "loop", "chosen", "reverting",
           "ready", "fixing", "executed", "committing", "closing", "leaving", "over"}

Progress == [at : Places, count : 0..MaxPhases, limit : 0..MaxPhases, phase : Phase,
             copy : PhasesFiles, pre : SUBSET File, set : SUBSET File, outcome : Outcomes]

(* The state has its types, and no run carries out more phases than its limit. *)
TypeOK ==
  /\ plan \in Plans /\ phases \in PhasesFiles
  /\ head \in [File -> SUBSET Author] /\ index \in [File -> SUBSET Author]
  /\ work \in [File -> SUBSET Author]
  /\ run \in [Run -> Progress]
  /\ \A r \in Run : run[r].count <= run[r].limit
  /\ lock \in Run \cup {NoRun} /\ running \in BOOLEAN
  /\ troubles \in 0..MaxTroubles /\ precious \subseteq File /\ staged \subseteq File

(* On disk, a phase that was started has all the phases it depends on done   *)
(* or skipped, whatever was skipped, regenerated, resequenced, retried or    *)
(* left in progress by a crash.                                              *)
DependenciesFirst ==
  \A p \in Phase : Status(p) \in {"in-progress", "done", "failed"}
                    => \A d \in DependsOn(p) : Status(d) \in Terminal

(* What the user changes while no phase is carried out stays in the working  *)
(* tree through retries and rollbacks, whose checkouts take what is staged,  *)
(* and is committed as a phase's work only if the user had staged it: a file *)
(* that was dirty is not added, but the commit takes the whole index.        *)
UserWorkKept ==
  \A f \in precious : User \in work[f] /\ (User \in head[f] => f \in staged)

(* A phase recorded as done or skipped keeps its record until the phases are *)
(* regenerated: no run writes its older copy over a skip, and none carries a *)
(* done phase out again.                                                     *)
RecordStands ==
  [][(\E p \in Phase : Status(p) \in Terminal /\ phases'.row[p].status # Status(p))
       => \A p \in Phase : phases'.row[p].status \in {"pending", "done"}]_phases

(* Every run ends, and then nobody holds the lock or finds the plan running. *)
EveryRunEnds ==
  <>[](/\ \A r \in Run : run[r].at \in {"idle", "over"}
       /\ lock = NoRun /\ ~running)

(* docs/plan-architecture.md:174-178, on success the runner stages the files *)
(* "modified by the phase" and commits: once a phase is done, what it wrote  *)
(* is committed.  A retry that writes the same files again is not.           *)
DoneIsCommitted ==
  ~Executing => \A p \in Phase : Status(p) = "done"
                  => \A f \in File : p \in work[f] => p \in head[f]
=============================================================================
