--------------------------- MODULE PlanRunProofs ---------------------------
(***************************************************************************)
(* For every number of phases, set of files, set of calls and bound: the    *)
(* state keeps its types, a phase on disk is started only after those it    *)
(* depends on, a phase's final record stands until the phases are made anew *)
(* and the user's work between phases is kept.  A run writes from the copy  *)
(* it took when it got the lock; the inductive invariant PlanInv says what  *)
(* that copy has in common with the disk (CopyAgrees) and that the phase it *)
(* carries out was free to start.  UserInv, inductive together with it,     *)
(* says what a run keeps out of its reach at each point of a phase (Spares):*)
(* the exposed files, whose work by the user is in the working tree alone.  *)
(* What failed attempts left is checked against the tree before the phase   *)
(* starts, and from its snapshot on no row on disk is failed, so that a     *)
(* failed commit, which unstages everything, puts nothing in a retry's way. *)
(***************************************************************************)
EXTENDS PlanRun, TLAPS, WellFoundedInduction

Started == {"in-progress", "done", "failed"}
InMemory == {"chosen", "reverting", "ready", "fixing", "executed", "committing"}

Ordered(f) ==
  \A p \in Phase : f.row[p].status \in Started
                    => \A d \in DependsOn(p) : f.row[d].status \in Terminal

(* Phase p may be started by the rows of f. *)
Free(f, p) ==
  /\ f.row[p].status \notin Terminal
  /\ \A d \in DependsOn(p) : f.row[d].status \in Terminal

(* What the progress x of a run has in common with the phases file f. *)
Sound(x, f) ==
  x.at \in InMemory =>
    /\ x.count < x.limit
    /\ Ordered(x.copy)
    /\ x.at # "committing" => Free(x.copy, x.phase)
    /\ \A p \in Phase : f.row[p].status \in Terminal => x.copy.row[p].status = f.row[p].status

CopyAgrees == \A r \in Run : Sound(run[r], phases)

Holding(r) ==
  run[r].at \in InMemory \/ (r \in Command /\ run[r].at \in {"gate", "generate", "check"})

LockHeld == \A r \in Run : Holding(r) => lock = r

PlanInv == TypeOK /\ Ordered(phases) /\ CopyAgrees /\ LockHeld

-----------------------------------------------------------------------------
LEMMA PhaseIsNat == Phase \subseteq Nat /\ 1 \in Phase /\ \A p \in Phase : DependsOn(p) \subseteq Phase
  BY PlanAssumption DEF Phase, DependsOn, Implements

(* A set of phases that is not empty has a first element. *)
LEMMA FirstIsLeast ==
  ASSUME NEW S \in SUBSET Phase, S # {}
  PROVE  First(S) \in S
<1> DEFINE R == OpToRel(<, Nat)
<1>1. S \subseteq Nat
  BY PhaseIsNat
<1>2. PICK x \in S : \A y \in S : ~(<<y, x>> \in R)
  <2> HIDE DEF R
  <2>1. IsWellFoundedOn(R, Nat)
    BY NatLessThanWellFounded DEF R
  <2> QED
    BY <1>1, <2>1, WFMin
<1>3. ASSUME NEW y \in S
      PROVE  x <= y
  <2>1. ~(<<y, x>> \in R)
    BY <1>2
  <2>2. x \in Nat /\ y \in Nat
    BY <1>1
  <2>3. ~(y < x)
    BY <2>1, <2>2 DEF OpToRel
  <2> QED
    BY <2>2, <2>3
<1> HIDE DEF R
<1> QED
  BY <1>3 DEF First

LEMMA NextIsPhase ==
  ASSUME TypeOK, ~NothingToRun
  PROVE  NextPhase \in InProgress \cup Failed \cup Ready
<1>1. InProgress \subseteq Phase /\ Failed \subseteq Phase /\ Ready \subseteq Phase
  BY DEF InProgress, Failed, Ready
<1> QED
  BY <1>1, FirstIsLeast DEF NextPhase, NothingToRun
-----------------------------------------------------------------------------
LEMMA BetweenTypes ==
  ASSUME NEW at \in Places, NEW limit \in 0..MaxPhases, NEW count \in 0..limit
  PROVE  /\ Between(at, count, limit) \in Progress
         /\ Between(at, count, limit).count <= Between(at, count, limit).limit
<1>1. NoPhases \in PhasesFiles
  BY PhaseIsNat DEF NoPhases, PhasesFiles, Plans, Rows, Pending, Nothing, Status_, Terminal
<1>2. count \in 0..MaxPhases /\ count <= limit
  BY PlanAssumption
<1> QED
  BY <1>1, <1>2, PhaseIsNat DEF Between, Progress, Outcomes

LEMMA InitInv == Init => PlanInv
<1> SUFFICES ASSUME Init PROVE PlanInv
  OBVIOUS
<1>1. NoPhases \in PhasesFiles
  BY PhaseIsNat DEF NoPhases, PhasesFiles, Plans, Rows, Pending, Nothing, Status_, Terminal
<1>2. Idle \in Progress /\ Idle.count <= Idle.limit
  BY BetweenTypes, PlanAssumption DEF Idle, Places
<1>3. TypeOK
  <2>1. plan \in Plans /\ phases \in PhasesFiles
    BY <1>1, PhaseIsNat DEF Init, Plans
  <2>2. /\ head \in [File -> SUBSET Author] /\ index \in [File -> SUBSET Author]
        /\ work \in [File -> SUBSET Author]
    BY DEF Init, Nothing
  <2>3. run \in [Run -> Progress] /\ \A r \in Run : run[r].count <= run[r].limit
    BY <1>2 DEF Init
  <2>4. troubles \in 0..MaxTroubles
    BY PlanAssumption DEF Init
  <2> QED
    BY <2>1, <2>2, <2>3, <2>4 DEF Init, TypeOK
<1>4. Ordered(phases)
  BY DEF Init, Ordered, NoPhases, Pending, Started
<1>5. \A r \in Run : run[r].at = "idle"
  BY DEF Init, Idle, Between
<1> QED
  BY <1>3, <1>4, <1>5 DEF PlanInv, CopyAgrees, Sound, LockHeld, Holding, InMemory

(* The values a step writes have their types. *)
LEMMA ValueTypes ==
  ASSUME TypeOK, NEW r \in Run
  PROVE  /\ run[r] \in Progress /\ run[r].count <= run[r].limit
         /\ Fresh \in PhasesFiles
         /\ Row(r) \in Rows
         /\ \A row \in Rows : WithRow(r, row) \in PhasesFiles
         /\ Dirty \in SUBSET File
<1>1. run[r] \in Progress /\ run[r].count <= run[r].limit
  BY DEF TypeOK
<1>2. Pending \in Rows
  BY DEF Pending, Rows, Nothing, Status_
<1>3. NoPhases \in PhasesFiles /\ Fresh \in PhasesFiles
  BY <1>2, PhaseIsNat DEF NoPhases, Fresh, PhasesFiles, Plans, TypeOK
<1>5. run[r].copy \in PhasesFiles /\ run[r].phase \in Phase
  BY <1>1 DEF Progress
<1>6. Row(r) \in Rows
  BY <1>5 DEF Row, PhasesFiles
<1>7. ASSUME NEW row \in Rows
      PROVE  WithRow(r, row) \in PhasesFiles
  BY <1>5, <1>7 DEF WithRow, PhasesFiles
<1> QED
  BY <1>1, <1>3, <1>6, <1>7 DEF Dirty

(* One run makes progress. *)
LEMMA RunTypes ==
  ASSUME TypeOK, NEW r \in Run, NEW x \in Progress, x.count <= x.limit,
         run' = [run EXCEPT ![r] = x]
  PROVE  run' \in [Run -> Progress] /\ \A q \in Run : run'[q].count <= run'[q].limit
  BY DEF TypeOK

LEMMA CallTypes ==
  ASSUME TypeOK, NEW r \in Run, Call(r)
  PROVE  TypeOK'
<1>1. PICK at \in Places, limit \in 0..MaxPhases : run' = [run EXCEPT ![r] = Between(at, 0, limit)]
  BY PlanAssumption DEF Call, StartCommand, StartAction, Places
<1>2. 0 \in 0..limit
  BY PlanAssumption
<1>3. run' \in [Run -> Progress] /\ \A q \in Run : run'[q].count <= run'[q].limit
  BY <1>1, <1>2, BetweenTypes, RunTypes
<1> QED
  BY <1>3 DEF Call, StartCommand, StartAction, TypeOK, tree

(* The steps of a run before and after its phases. *)
LEMMA OutsidePhaseTypes ==
  ASSUME TypeOK, NEW r \in Run,
         Validate(r) \/ Gate(r) \/ Generate(r) \/ Check(r) \/ Stop(r) \/ SkipClose(r) \/ Close(r)
           \/ Deregister(r)
  PROVE  TypeOK'
<1>1. \/ \E at \in Places : run' = [run EXCEPT ![r].at = at]
      \/ run' = [run EXCEPT ![r] = Over]
  BY DEF Validate, Gate, Generate, Check, Stop, SkipClose, Close, Deregister, Refuse, To, Places
<1>2. ASSUME NEW at \in Places
      PROVE  /\ [run[r] EXCEPT !.at = at] \in Progress
             /\ [run[r] EXCEPT !.at = at].count <= [run[r] EXCEPT !.at = at].limit
  BY ValueTypes DEF Progress
<1>3. Over \in Progress /\ Over.count <= Over.limit
  BY BetweenTypes, PlanAssumption DEF Over, Places
<1>4. run' \in [Run -> Progress] /\ \A q \in Run : run'[q].count <= run'[q].limit
  <2>1. ASSUME NEW at \in Places, run' = [run EXCEPT ![r].at = at]
        PROVE  run' \in [Run -> Progress] /\ \A q \in Run : run'[q].count <= run'[q].limit
    BY <1>2, <2>1, RunTypes
  <2> QED
    BY <1>1, <1>3, <2>1, RunTypes
<1>5. plan' \in Plans
  BY DEF Validate, Gate, Generate, Check, Stop, SkipClose, Close, Deregister, Plans, TypeOK
<1>6. phases' \in PhasesFiles
  BY ValueTypes DEF Validate, Gate, Generate, Check, Stop, SkipClose, Close, Deregister, TypeOK
<1>9. troubles' \in 0..MaxTroubles
  BY PlanAssumption DEF Validate, Gate, Generate, Check, Stop, SkipClose, Close, Deregister, TypeOK, Trouble
<1>7. lock' \in Run \cup {NoRun} /\ running' \in BOOLEAN
  BY DEF Validate, Gate, Generate, Check, Stop, SkipClose, Close, Deregister, Refuse, TypeOK
<1>8. UNCHANGED tree
  BY DEF Validate, Gate, Generate, Check, Stop, SkipClose, Close, Deregister
<1> QED
  BY <1>4, <1>5, <1>6, <1>7, <1>8, <1>9 DEF TypeOK, tree

(* Leaving a phase. *)
LEMMA LeaveTypes ==
  ASSUME TypeOK, NEW r \in Run, NEW at \in Places, Leave(r, at) \/ (Done(r) /\ run[r].count < run[r].limit)
  PROVE  /\ run' \in [Run -> Progress] /\ \A q \in Run : run'[q].count <= run'[q].limit
         /\ lock' \in Run \cup {NoRun}
<1>1. run[r].limit \in 0..MaxPhases /\ run[r].count \in 0..run[r].limit
  BY ValueTypes, PlanAssumption DEF Progress
<1>2. CASE Leave(r, at)
  <2>1. run' = [run EXCEPT ![r] = Between(at, run[r].count, run[r].limit)]
    BY <1>2 DEF Leave
  <2> QED
    BY <1>1, <1>2, <2>1, BetweenTypes, RunTypes DEF Leave
<1>3. CASE Done(r) /\ run[r].count < run[r].limit
  <2>1. run[r].count + 1 \in 0..run[r].limit
    BY <1>1, <1>3, PlanAssumption
  <2>2. run' = [run EXCEPT ![r] = Between("loop", run[r].count + 1, run[r].limit)]
    BY <1>3 DEF Done
  <2>3. "loop" \in Places
    BY DEF Places
  <2> QED
    BY <1>1, <1>3, <2>1, <2>2, <2>3, BetweenTypes, RunTypes DEF Done
<1> QED
  BY <1>2, <1>3

(* A step of a run inside a phase. *)
LEMMA InsideTypes ==
  ASSUME TypeOK, NEW r \in Run, NEW x \in Progress, x.count = run[r].count, x.limit = run[r].limit,
         run' = [run EXCEPT ![r] = x]
  PROVE  run' \in [Run -> Progress] /\ \A q \in Run : run'[q].count <= run'[q].limit
  BY RunTypes, ValueTypes

LEMMA ChooseTypes ==
  ASSUME TypeOK, NEW r \in Run, Choose(r)
  PROVE  TypeOK'
<1>1. /\ run' \in [Run -> Progress] /\ \A q \in Run : run'[q].count <= run'[q].limit
      /\ lock' \in Run \cup {NoRun}
  <2>1. CASE Leave(r, "closing")
    BY <2>1, LeaveTypes DEF Places
  <2>2. CASE /\ ~NothingToRun /\ lock' = r
             /\ run' = [run EXCEPT ![r].at = "chosen", ![r].phase = NextPhase, ![r].copy = phases]
    <3> DEFINE x == [run[r] EXCEPT !.at = "chosen", !.phase = NextPhase, !.copy = phases]
    <3>1. NextPhase \in Phase
      BY <2>2, NextIsPhase DEF InProgress, Failed, Ready
    <3>2. phases \in PhasesFiles
      BY DEF TypeOK
    <3>3. x \in Progress /\ x.count = run[r].count /\ x.limit = run[r].limit
      BY <3>1, <3>2, ValueTypes DEF Progress, Places
    <3>4. run' = [run EXCEPT ![r] = x]
      BY <2>2 DEF TypeOK
    <3> HIDE DEF x
    <3> QED
      BY <2>2, <3>3, <3>4, InsideTypes
  <2> QED
    BY <2>1, <2>2 DEF Choose
<1> QED
  BY <1>1 DEF Choose, TypeOK, tree

LEMMA MarkTypes ==
  ASSUME TypeOK, NEW r \in Run, Mark(r)
  PROVE  TypeOK'
<1> DEFINE row == [Row(r) EXCEPT !.status = "in-progress"]
           x == [run[r] EXCEPT !.at = "reverting", !.copy = WithRow(r, row),
                               !.pre = Dirty, !.set = ToRevert(r)]
<1>1. row \in Rows
  BY ValueTypes DEF Rows, Status_
<1>2. WithRow(r, row) \in PhasesFiles
  BY <1>1, ValueTypes
<1>3. ToRevert(r) \in SUBSET File
  BY ValueTypes DEF ToRevert, Rows
<1>4. phases' = WithRow(r, row) /\ run' = [run EXCEPT ![r] = x]
  BY DEF Mark, TypeOK
<1> HIDE DEF row
<1>5. x \in Progress /\ x.count = run[r].count /\ x.limit = run[r].limit
  BY <1>2, <1>3, ValueTypes DEF Progress, Places
<1> HIDE DEF x
<1>6. run' \in [Run -> Progress] /\ \A q \in Run : run'[q].count <= run'[q].limit
  BY <1>4, <1>5, InsideTypes
<1> QED
  BY <1>2, <1>4, <1>6 DEF Mark, TypeOK, tree

LEMMA WorkTypes ==
  ASSUME TypeOK, NEW r \in Run
  PROVE  /\ \A S \in SUBSET File : CheckedOut(S) \in [File -> SUBSET Author]
         /\ \A S \in SUBSET File : /\ Edited(r, S) \in [File -> SUBSET Author]
                                   /\ RolledBack(r, S) \in [File -> SUBSET Author]
<1>1. run[r].phase \in Author
  BY ValueTypes, PlanAssumption DEF Progress, Phase, Author
<1>2. ASSUME NEW S \in SUBSET File
      PROVE  Edited(r, S) \in [File -> SUBSET Author]
  BY <1>1 DEF Edited, TypeOK
<1>3. ASSUME NEW S \in SUBSET File
      PROVE  RolledBack(r, S) \in [File -> SUBSET Author]
  BY <1>2 DEF RolledBack, TypeOK
<1> QED
  BY <1>2, <1>3 DEF CheckedOut, TypeOK

LEMMA CountTypes ==
  ASSUME TypeOK, troubles' = troubles \/ (troubles < MaxTroubles /\ troubles' = troubles + 1)
  PROVE  troubles' \in 0..MaxTroubles
  BY PlanAssumption DEF TypeOK

(* The steps that leave the phases file alone: the tree, the outcome. *)
LEMMA CarryOutTypes ==
  ASSUME TypeOK, NEW r \in Run, Revert(r) \/ Implement(r) \/ Audit(r) \/ Fix(r) \/ Throw(r)
  PROVE  TypeOK'
<1>1. run' \in [Run -> Progress] /\ \A q \in Run : run'[q].count <= run'[q].limit
  <2>1. CASE Revert(r)
    <3> DEFINE x == [run[r] EXCEPT !.at = "ready", !.set = {}]
    <3>1. x \in Progress /\ x.count = run[r].count /\ x.limit = run[r].limit
      BY ValueTypes DEF Progress, Places
    <3>2. run' = [run EXCEPT ![r] = x]
      BY <2>1 DEF Revert, TypeOK
    <3> HIDE DEF x
    <3> QED
      BY <3>1, <3>2, InsideTypes
  <2>2. ASSUME NEW outcome \in Outcomes, Ends(r, outcome)
        PROVE  run' \in [Run -> Progress] /\ \A q \in Run : run'[q].count <= run'[q].limit
    <3> DEFINE x == [run[r] EXCEPT !.at = "executed", !.outcome = outcome, !.set = {}]
    <3>1. x \in Progress /\ x.count = run[r].count /\ x.limit = run[r].limit
      BY ValueTypes DEF Progress, Places
    <3>2. run' = [run EXCEPT ![r] = x]
      BY <2>2 DEF Ends, TypeOK
    <3> HIDE DEF x
    <3> QED
      BY <3>1, <3>2, InsideTypes
  <2>3. CASE run' = [run EXCEPT ![r].at = "fixing", ![r].set = Dirty]
    <3> DEFINE x == [run[r] EXCEPT !.at = "fixing", !.set = Dirty]
    <3>1. x \in Progress /\ x.count = run[r].count /\ x.limit = run[r].limit
      BY ValueTypes DEF Progress, Places
    <3>2. run' = [run EXCEPT ![r] = x]
      BY <2>3 DEF TypeOK
    <3> HIDE DEF x
    <3> QED
      BY <3>1, <3>2, InsideTypes
  <2>4. CASE Throw(r)
    <3>1. PICK at \in {"closing", "leaving"} : Leave(r, at)
      BY <2>4 DEF Throw
    <3> QED
      BY <3>1, LeaveTypes DEF Places
  <2> QED
    BY <2>1, <2>2, <2>3, <2>4 DEF Implement, Audit, Fix, Outcomes
<1>2. work' \in [File -> SUBSET Author]
  <2>1. CASE Revert(r)
    <3>1. run[r].set \in SUBSET File
      BY ValueTypes DEF Progress
    <3> QED
      BY <2>1, <3>1, WorkTypes DEF Revert, TypeOK
  <2>2. CASE Implement(r)
    BY <2>2, WorkTypes DEF Implement
  <2>3. CASE Fix(r) \/ Throw(r)
    <3>1. \/ \E S \in SUBSET File : work' \in {Edited(r, S), RolledBack(r, S)}
          \/ work' = work
      BY <2>3 DEF Fix, Throw
    <3> QED
      BY <3>1, WorkTypes DEF TypeOK
  <2>4. CASE Audit(r)
    BY <2>4 DEF Audit, TypeOK, tree
  <2> QED
    BY <2>1, <2>2, <2>3, <2>4
<1>3. lock' \in Run \cup {NoRun}
  BY DEF Revert, Implement, Audit, Fix, Throw, Leave, TypeOK
<1>4. troubles' \in 0..MaxTroubles
  <2>1. troubles' = troubles \/ (troubles < MaxTroubles /\ troubles' = troubles + 1)
    BY DEF Revert, Implement, Audit, Fix, Throw, Trouble
  <2> QED
    BY <2>1, CountTypes
<1>5. UNCHANGED <<plan, phases, repo, user, running>>
  BY DEF Revert, Implement, Audit, Fix, Throw, tree, repo, user
<1> QED
  BY <1>1, <1>2, <1>3, <1>4, <1>5 DEF TypeOK, repo, user

LEMMA AttemptType ==
  ASSUME TypeOK, NEW r \in Run
  PROVE  Attempt(r) \in Rows /\ Modified(r) \in SUBSET File
<1> DEFINE h == run[r].outcome = "failed" /\ Modified(r) # {}
           status == IF run[r].outcome = "done" THEN "done" ELSE "failed"
           was == [f \in File |-> IF h /\ f \in Modified(r) THEN work[f] ELSE {}]
<1>1. Modified(r) \in SUBSET File
  BY DEF Modified, Dirty
<1>2. h \in BOOLEAN
  OBVIOUS
<1>3. status \in Status_
  BY DEF Status_, Terminal
<1>4. was \in [File -> SUBSET Author]
  BY DEF TypeOK
<1>5. Attempt(r) = [status |-> status, files |-> Modified(r), hashed |-> h, was |-> was]
  BY Zenon DEF Attempt
<1> HIDE DEF h, status, was
<1> QED
  BY <1>1, <1>2, <1>3, <1>4, <1>5 DEF Rows

LEMMA RecordTypes ==
  ASSUME TypeOK, CopyAgrees, NEW r \in Run, Record(r)
  PROVE  TypeOK'
<1>1. WithRow(r, Attempt(r)) \in PhasesFiles
  BY AttemptType, ValueTypes
<1>2. run[r].count < run[r].limit
  BY DEF CopyAgrees, Sound, Record, At, InMemory
<1>3. /\ run' \in [Run -> Progress] /\ \A q \in Run : run'[q].count <= run'[q].limit
      /\ lock' \in Run \cup {NoRun}
  <2>1. CASE Leave(r, "closing") \/ Done(r)
    BY <1>2, <2>1, LeaveTypes DEF Places
  <2>2. CASE /\ run' = [run EXCEPT ![r].at = "committing", ![r].copy = WithRow(r, Attempt(r)),
                                   ![r].set = Modified(r)]
             /\ UNCHANGED lock
    <3> DEFINE x == [run[r] EXCEPT !.at = "committing", !.copy = WithRow(r, Attempt(r)),
                                   !.set = Modified(r)]
    <3>1. x \in Progress /\ x.count = run[r].count /\ x.limit = run[r].limit
      BY <1>1, AttemptType, ValueTypes DEF Progress, Places
    <3>2. run' = [run EXCEPT ![r] = x]
      BY <2>2 DEF TypeOK
    <3> HIDE DEF x
    <3> QED
      BY <2>2, <3>1, <3>2, InsideTypes DEF TypeOK
  <2> QED
    BY <2>1, <2>2 DEF Record
<1> QED
  BY <1>1, <1>3 DEF Record, TypeOK, tree

LEMMA CommitTypes ==
  ASSUME TypeOK, CopyAgrees, NEW r \in Run, Commit(r)
  PROVE  TypeOK'
<1>1. run[r].count < run[r].limit
  BY DEF CopyAgrees, Sound, Commit, At, InMemory
<1>2. Done(r)
  BY DEF Commit
<1>3. /\ run' \in [Run -> Progress] /\ \A q \in Run : run'[q].count <= run'[q].limit
      /\ lock' \in Run \cup {NoRun}
  BY <1>1, <1>2, LeaveTypes DEF Places
<1>4. head' \in [File -> SUBSET Author] /\ index' \in [File -> SUBSET Author]
  <2>1. Added(run[r].set) \in [File -> SUBSET Author]
    BY DEF Added, TypeOK
  <2> QED
    BY <2>1 DEF Commit, TypeOK
<1>5. phases' \in PhasesFiles
  BY ValueTypes DEF Commit, TypeOK, Progress
<1>6. troubles' \in 0..MaxTroubles
  <2>1. troubles' = troubles \/ (troubles < MaxTroubles /\ troubles' = troubles + 1)
    BY DEF Commit, Trouble
  <2> QED
    BY <2>1, CountTypes
<1> QED
  BY <1>3, <1>4, <1>5, <1>6 DEF Commit, TypeOK, user

LEMMA OutsideTypes ==
  ASSUME TypeOK, Outside
  PROVE  TypeOK'
<1>1. troubles' \in 0..MaxTroubles
  <2>1. troubles' = troubles \/ (troubles < MaxTroubles /\ troubles' = troubles + 1)
    BY DEF Outside, SetStatus, EditPlan, SkipTo, Regenerate, Skip, Crash, UserEdit, UserStage,
       Trouble, UnderLock
  <2> QED
    BY <2>1, CountTypes
<1>2. CASE \E status \in {"APPROVED", "CLOSED"} : SetStatus(status)
  BY <1>1, <1>2 DEF SetStatus, TypeOK, Plans, tree
<1>3. CASE \E p \in Phase : EditPlan(p)
  <2>1. PICK p \in Phase : EditPlan(p)
    BY <1>3
  <2>2. plan.text[p] + 1 \in Nat /\ plan \in Plans
    BY DEF TypeOK, Plans
  <2>3. plan' \in Plans
    <3> DEFINE n == plan.text[p] + 1
    <3>1. plan' = [plan EXCEPT !.text[p] = n]
      BY <2>1 DEF EditPlan
    <3>2. n \in Nat
      BY <2>2
    <3> HIDE DEF n
    <3> QED
      BY <2>2, <3>1, <3>2 DEF Plans
  <2> QED
    BY <1>1, <2>1, <2>3 DEF EditPlan, TypeOK, tree
<1>4. ASSUME phases' \in PhasesFiles, UnderLock
      PROVE  TypeOK'
  BY <1>1, <1>4 DEF UnderLock, TypeOK, tree
<1>5. ASSUME NEW S, phases' = Skipped(S)
      PROVE  phases' \in PhasesFiles
  <2>1. \A p \in Phase : [phases.row[p] EXCEPT !.status = "skipped"] \in Rows
    <3>1. \A p \in Phase : phases.row[p] \in Rows
      BY DEF TypeOK, PhasesFiles
    <3>2. "skipped" \in Status_
      BY DEF Status_, Terminal
    <3> QED
      BY <3>1, <3>2 DEF Rows
  <2>2. [p \in Phase |-> IF p \in S THEN [phases.row[p] EXCEPT !.status = "skipped"]
                         ELSE phases.row[p]] \in [Phase -> Rows]
    BY <2>1 DEF TypeOK, PhasesFiles
  <2> QED
    BY <1>5, <2>2 DEF Skipped, TypeOK, PhasesFiles
<1>6. CASE Skip \/ \E p \in Phase : SkipTo(p)
  BY <1>4, <1>5, <1>6 DEF Skip, SkipTo
<1>7. CASE \E keepDone \in BOOLEAN : Regenerate(keepDone)
  <2>1. Pending \in Rows
    BY DEF Pending, Rows, Nothing, Status_
  <2>2. Fresh \in PhasesFiles
    BY <2>1 DEF Fresh, PhasesFiles, TypeOK
  <2>3. [Fresh EXCEPT !.row = [p \in Phase |-> IF p \in Kept THEN phases.row[p] ELSE Pending]]
          \in PhasesFiles
    BY <2>1, <2>2 DEF PhasesFiles, TypeOK
  <2> QED
    BY <1>4, <1>7, <2>2, <2>3 DEF Regenerate
<1>8. CASE \E f \in File : UserEdit(f)
  BY <1>1, <1>8, PlanAssumption DEF UserEdit, TypeOK, User, Author, repo
<1>10. CASE \E f \in File : UserStage(f)
  BY <1>1, <1>10 DEF UserStage, TypeOK
<1>9. CASE Crash
  <2>1. Idle \in Progress /\ Idle.count <= Idle.limit /\ Over \in Progress /\ Over.count <= Over.limit
    BY BetweenTypes, PlanAssumption DEF Idle, Over, Places
  <2>2. run' \in [Run -> Progress] /\ \A q \in Run : run'[q].count <= run'[q].limit
    BY <1>9, <2>1 DEF Crash
  <2> QED
    BY <1>1, <1>9, <2>2 DEF Crash, TypeOK, tree
<1> QED
  BY <1>2, <1>3, <1>6, <1>7, <1>8, <1>9, <1>10 DEF Outside

LEMMA StepTypes ==
  ASSUME TypeOK, CopyAgrees, [Next]_vars
  PROVE  TypeOK'
<1>1. CASE \E r \in Run : Call(r) \/ RunStep(r)
  BY <1>1, CallTypes, OutsidePhaseTypes, ChooseTypes, MarkTypes, CarryOutTypes, RecordTypes,
     CommitTypes DEF RunStep
<1>2. CASE UNCHANGED vars
  BY <1>2 DEF vars, tree, TypeOK
<1> QED
  BY <1>1, <1>2, OutsideTypes DEF Next, AtRest
-----------------------------------------------------------------------------
(* Every way to write a phases file keeps the phases in order.               *)

LEMMA BeforeIsOther ==
  ASSUME NEW p \in Phase
  PROVE  \A d \in DependsOn(p) : d \in Phase /\ d < p
  BY PlanAssumption DEF DependsOn, Phase, Implements

LEMMA FreshOrdered == Ordered(Fresh) /\ \A p \in Phase : Fresh.row[p].status = "pending"
  BY DEF Fresh, Pending, Ordered, Started

(* A phase that is free may get any row, and stays free until it is final.   *)
LEMMA WriteOrdered ==
  ASSUME NEW f \in PhasesFiles, NEW p \in Phase, NEW row \in Rows, Ordered(f), Free(f, p)
  PROVE  /\ Ordered([f EXCEPT !.row[p] = row])
         /\ row.status \notin Terminal => Free([f EXCEPT !.row[p] = row], p)
         /\ \A q \in Phase : f.row[q].status \in Terminal
              => [f EXCEPT !.row[p] = row].row[q].status = f.row[q].status
<1> DEFINE g == [f EXCEPT !.row[p] = row]
<1>1. g.row[p] = row /\ \A q \in Phase : q # p => g.row[q] = f.row[q]
  BY DEF PhasesFiles
<1> HIDE DEF g
<1>2. \A d \in DependsOn(p) : d \in Phase /\ d # p
  BY BeforeIsOther, PhaseIsNat
<1>3. ASSUME NEW q \in Phase, g.row[q].status \in Started, NEW d \in DependsOn(q)
      PROVE  g.row[d].status \in Terminal
  <2>1. d \in Phase /\ d # q
    BY BeforeIsOther, PhaseIsNat
  <2>2. CASE q = p
    BY <1>1, <2>1, <2>2 DEF Free
  <2>3. CASE q # p
    <3>1. f.row[d].status \in Terminal
      BY <1>1, <1>3, <2>3 DEF Ordered
    <3>2. d # p
      BY <3>1 DEF Free
    <3> QED
      BY <1>1, <2>1, <3>1, <3>2
  <2> QED
    BY <2>2, <2>3
<1>4. Ordered(g)
  BY <1>3 DEF Ordered
<1>5. row.status \notin Terminal => Free(g, p)
  BY <1>1, <1>2 DEF Free
<1>6. \A q \in Phase : f.row[q].status \in Terminal => g.row[q].status = f.row[q].status
  BY <1>1 DEF Free
<1> QED
  BY <1>4, <1>5, <1>6 DEF g

LEMMA KeptOrdered ==
  ASSUME TypeOK
  PROVE  /\ Ordered([Fresh EXCEPT !.row = [p \in Phase |-> IF p \in Kept THEN phases.row[p] ELSE Pending]])
         /\ \A p \in Phase : [Fresh EXCEPT !.row = [q \in Phase |-> IF q \in Kept THEN phases.row[q]
                                                      ELSE Pending]].row[p].status \in {"pending", "done"}
<1> DEFINE g == [Fresh EXCEPT !.row = [p \in Phase |-> IF p \in Kept THEN phases.row[p] ELSE Pending]]
<1>1. \A p \in Phase : g.row[p] = IF p \in Kept THEN phases.row[p] ELSE Pending
  BY DEF Fresh
<1> HIDE DEF g
<1>2. ASSUME NEW p \in Phase
      PROVE  p \in Kept => /\ phases.row[p].status = "done"
                           /\ \A d \in Phase : d < p => d \in Kept
  <2>1. p \in 1..p
    BY PhaseIsNat, PlanAssumption DEF Phase
  <2>2. \A d \in Phase : d < p => 1..d \subseteq 1..p
    BY PlanAssumption DEF Phase
  <2> QED
    BY <2>1, <2>2 DEF Kept, Status
<1>3. Ordered(g)
  <2>1. SUFFICES ASSUME NEW p \in Phase, g.row[p].status \in Started, NEW d \in DependsOn(p)
                 PROVE  g.row[d].status \in Terminal
    BY DEF Ordered
  <2>2. p \in Kept
    BY <1>1, <2>1 DEF Pending, Started
  <2> QED
    BY <1>1, <1>2, <2>2, BeforeIsOther DEF Terminal
<1>4. \A p \in Phase : g.row[p].status \in {"pending", "done"}
  BY <1>1, <1>2 DEF Pending
<1> QED
  BY <1>3, <1>4 DEF g

LEMMA SkippedOrdered ==
  ASSUME TypeOK, Ordered(phases), NEW S, \A p \in S : p \in Phase /\ Status(p) \notin Terminal
  PROVE  /\ Ordered(Skipped(S))
         /\ \A p \in Phase : Status(p) \in Terminal => Skipped(S).row[p].status = Status(p)
<1> DEFINE g == Skipped(S)
<1>1. \A p \in Phase : g.row[p].status = IF p \in S THEN "skipped" ELSE Status(p)
  BY DEF Skipped, Status, TypeOK, PhasesFiles, Rows
<1> HIDE DEF g
<1>2. Ordered(g)
  BY <1>1, BeforeIsOther DEF Ordered, Status, Started, Terminal
<1> QED
  BY <1>1, <1>2 DEF g
-----------------------------------------------------------------------------
(* Every step keeps the invariant.                                           *)

Agrees == Ordered(phases) /\ CopyAgrees /\ LockHeld

(* Only one run holds the lock. *)
LEMMA OneHolder ==
  ASSUME TypeOK, LockHeld, NEW r \in Run, Holding(r) \/ lock = NoRun
  PROVE  \A q \in Run \ {r} : ~Holding(q)
  BY PlanAssumption DEF LockHeld

(* Run r moves to x, the others stay as they are. *)
LEMMA Moves ==
  ASSUME TypeOK, CopyAgrees, LockHeld, NEW r \in Run, NEW x, run' = [run EXCEPT ![r] = x],
         Ordered(phases)', Sound(x, phases'), Holding(r)' => lock' = r,
         \A q \in Run \ {r} : \/ ~Holding(q)
                              \/ UNCHANGED <<phases, lock>>
  PROVE  Agrees'
<1>1. run'[r] = x /\ \A q \in Run \ {r} : run'[q] = run[q]
  BY DEF TypeOK
<1>2. ASSUME NEW q \in Run
      PROVE  Sound(run'[q], phases')
  <2>1. CASE q = r
    BY <1>1, <2>1
  <2>2. CASE q # r /\ ~Holding(q)
    BY <1>1, <2>2 DEF Sound, Holding
  <2>3. CASE q # r /\ UNCHANGED phases
    BY <1>1, <2>3 DEF CopyAgrees
  <2> QED
    BY <2>1, <2>2, <2>3
<1>3. ASSUME NEW q \in Run, Holding(q)'
      PROVE  lock' = q
  <2>1. CASE q = r
    BY <1>3, <2>1
  <2>2. CASE q # r
    <3>1. Holding(q)
      BY <1>1, <1>3, <2>2 DEF Holding
    <3> QED
      BY <2>2, <3>1 DEF LockHeld
  <2> QED
    BY <2>1, <2>2
<1> QED
  BY <1>2, <1>3 DEF Agrees, CopyAgrees, LockHeld

LEMMA SameOrder ==
  ASSUME UNCHANGED phases, Ordered(phases)
  PROVE  Ordered(phases)'
  BY DEF Ordered

LEMMA AtMoves ==
  ASSUME TypeOK, NEW r \in Run, NEW at
  PROVE  [run[r] EXCEPT !.at = at].at = at
  BY DEF TypeOK, Progress

(* The steps that end with the run outside a phase, the phases file as it was. *)
LEMMA LeavingStep ==
  ASSUME PlanInv, NEW r \in Run, NEW x, run' = [run EXCEPT ![r] = x], UNCHANGED phases,
         x.at \notin InMemory,
         \/ UNCHANGED lock /\ (Holding(r)' => Holding(r))
         \/ (Holding(r) \/ lock = NoRun) /\ ~Holding(r)'
         \/ lock = NoRun /\ lock' = r
  PROVE  Agrees'
<1>1. Sound(x, phases')
  BY DEF Sound
<1>2. Holding(r)' => lock' = r
  BY DEF PlanInv, LockHeld
<1>3. \A q \in Run \ {r} : ~Holding(q) \/ UNCHANGED <<phases, lock>>
  BY OneHolder DEF PlanInv
<1> QED
  BY <1>1, <1>2, <1>3, Moves, SameOrder DEF PlanInv

LEMMA CallStep ==
  ASSUME PlanInv, NEW r \in Run, Call(r)
  PROVE  Agrees'
<1>1. PICK at \in {"queued", "gate"}, limit \in Nat : run' = [run EXCEPT ![r] = Between(at, 0, limit)]
  BY PlanAssumption DEF Call, StartCommand, StartAction
<1>2. Between(at, 0, limit).at = at
  BY DEF Between
<1>3. UNCHANGED <<phases, lock>>
  BY DEF Call, StartCommand, StartAction
<1>4. ~Holding(r)'
  <2>1. run'[r].at = at
    BY <1>1, <1>2 DEF PlanInv, TypeOK
  <2>2. r \in Command => at = "queued"
    BY <2>1, PlanAssumption DEF Call, StartCommand, StartAction, PlanInv, TypeOK, Between
  <2> QED
    BY <2>1, <2>2 DEF Holding, InMemory
<1> QED
  BY <1>1, <1>2, <1>3, <1>4, LeavingStep DEF InMemory

LEMMA OutsidePhaseStep ==
  ASSUME PlanInv, NEW r \in Run,
         Validate(r) \/ Gate(r) \/ Check(r) \/ Stop(r) \/ SkipClose(r) \/ Close(r) \/ Deregister(r)
  PROVE  Agrees'
<1> USE DEF At, To, Holding, InMemory
<1>1. ASSUME NEW at \in {"gate", "generate", "check", "loop", "closing", "leaving"},
             run' = [run EXCEPT ![r].at = at]
      PROVE  /\ run' = [run EXCEPT ![r] = [run[r] EXCEPT !.at = at]]
             /\ [run[r] EXCEPT !.at = at].at = at /\ run'[r].at = at
  BY <1>1, AtMoves DEF PlanInv, TypeOK
<1>2. run' = [run EXCEPT ![r] = Over] => run'[r].at = "over" /\ Over.at = "over"
  BY DEF Over, Between, PlanInv, TypeOK
<1>3. CASE Validate(r)
  <2>1. run' = [run EXCEPT ![r].at = "gate"] /\ lock = NoRun /\ lock' = r /\ UNCHANGED phases
    BY <1>3 DEF Validate
  <2> QED
    BY <2>1, <1>1, LeavingStep
<1>4. CASE Gate(r) \/ Check(r)
  <2>1. CASE run' = [run EXCEPT ![r] = Over]
    <3>1. UNCHANGED phases /\ (UNCHANGED lock \/ (r \in Command /\ lock' = NoRun))
      BY <1>4, <2>1 DEF Gate, Check, Refuse
    <3>2. r \in Command => Holding(r)
      BY <1>4 DEF Gate, Check
    <3>3. ~Holding(r)'
      BY <1>2, <2>1
    <3> QED
      BY <2>1, <3>1, <3>2, <3>3, <1>2, LeavingStep
  <2>2. CASE Gate(r) /\ run' # [run EXCEPT ![r] = Over]
    <3>1. /\ run[r].at = "gate" /\ UNCHANGED <<phases, lock>>
          /\ run' = [run EXCEPT ![r].at = IF phases.made THEN "check" ELSE "generate"]
      BY <2>2 DEF Gate, Refuse
    <3>2. PICK at \in {"check", "generate"} : run' = [run EXCEPT ![r].at = at]
      BY <3>1
    <3>3. Holding(r)' => Holding(r)
      BY <1>1, <3>1, <3>2
    <3> QED
      BY <1>1, <3>1, <3>2, <3>3, LeavingStep
  <2>3. CASE Check(r) /\ run' # [run EXCEPT ![r] = Over]
    <3>1. /\ run[r].at = "check" /\ UNCHANGED phases
          /\ run' = [run EXCEPT ![r].at = "loop"]
          /\ IF r \in Command THEN lock' = NoRun ELSE UNCHANGED lock
      BY <2>3 DEF Check, Refuse
    <3>2. ~Holding(r)' /\ (r \in Command => Holding(r))
      BY <1>1, <3>1
    <3> QED
      BY <1>1, <3>1, <3>2, LeavingStep
  <2> QED
    BY <1>4, <2>1, <2>2, <2>3
<1>5. CASE Stop(r) \/ SkipClose(r) \/ Close(r)
  <2>1. PICK at \in {"closing", "leaving"} : run' = [run EXCEPT ![r].at = at]
    BY <1>5 DEF Stop, SkipClose, Close
  <2>2. UNCHANGED <<phases, lock>>
    BY <1>5 DEF Stop, SkipClose, Close
  <2>3. ~Holding(r)'
    BY <1>1, <2>1
  <2> QED
    BY <1>1, <2>1, <2>2, <2>3, LeavingStep
<1>6. CASE Deregister(r)
  <2>1. run' = [run EXCEPT ![r] = Over] /\ UNCHANGED <<phases, lock>>
    BY <1>6 DEF Deregister
  <2>2. ~Holding(r)'
    BY <1>2, <2>1
  <2> QED
    BY <1>2, <2>1, <2>2, LeavingStep
<1> QED
  BY <1>3, <1>4, <1>5, <1>6

(* The file is made anew: no phase is started or final. *)
LEMMA GenerateStep ==
  ASSUME PlanInv, NEW r \in Run, Generate(r)
  PROVE  Agrees'
<1>1. phases' = Fresh /\ UNCHANGED lock /\ run[r].at = "generate" /\ run' = [run EXCEPT ![r].at = "check"]
  BY DEF Generate, At, To
<1>2. run'[r].at = "check" /\ \A q \in Run \ {r} : run'[q] = run[q]
  BY <1>1, AtMoves DEF PlanInv, TypeOK
<1>3. Ordered(phases)' /\ \A p \in Phase : phases'.row[p].status \notin Terminal
  BY <1>1, FreshOrdered DEF Terminal, Ordered
<1>4. ASSUME NEW q \in Run
      PROVE  Sound(run'[q], phases')
  BY <1>2, <1>3 DEF Sound, InMemory, CopyAgrees, PlanInv
<1>5. \A q \in Run : Holding(q)' => Holding(q)
  BY <1>1, <1>2 DEF Holding, InMemory
<1> QED
  BY <1>1, <1>3, <1>4, <1>5 DEF Agrees, CopyAgrees, LockHeld, PlanInv

(* The run leaves the phase and the lock. *)
LEMMA LeaveStep ==
  ASSUME PlanInv, NEW r \in Run, NEW x, run' = [run EXCEPT ![r] = x], x.at \in {"loop", "closing", "leaving"},
         lock' = NoRun, Holding(r) \/ lock = NoRun, Ordered(phases)'
  PROVE  Agrees'
<1>1. run'[r] = x
  BY DEF PlanInv, TypeOK
<1>2. ~Holding(r)' /\ Sound(x, phases')
  BY <1>1 DEF Holding, InMemory, Sound
<1> QED
  BY <1>2, OneHolder, Moves DEF PlanInv

LEMMA ChooseStep ==
  ASSUME PlanInv, NEW r \in Run, Choose(r)
  PROVE  Agrees'
<1>1. UNCHANGED phases /\ lock = NoRun /\ Ordered(phases)'
  BY SameOrder DEF Choose, PlanInv
<1>2. CASE Leave(r, "closing")
  <2>1. Between("closing", run[r].count, run[r].limit).at = "closing"
    BY DEF Between
  <2> QED
    BY <1>1, <1>2, <2>1, LeaveStep DEF Leave
<1>3. CASE /\ ~NothingToRun /\ lock' = r
           /\ run' = [run EXCEPT ![r].at = "chosen", ![r].phase = NextPhase, ![r].copy = phases]
  <2> DEFINE x == [run[r] EXCEPT !.at = "chosen", !.phase = NextPhase, !.copy = phases]
  <2>1. run' = [run EXCEPT ![r] = x]
    BY <1>3 DEF PlanInv, TypeOK
  <2>2. x.at = "chosen" /\ x.phase = NextPhase /\ x.copy = phases
        /\ x.count = run[r].count /\ x.limit = run[r].limit
    BY DEF PlanInv, TypeOK, Progress
  <2>3. run[r].count < run[r].limit
    BY DEF Choose
  <2>4. NextPhase \in InProgress \cup Failed \cup Ready
    BY <1>3, NextIsPhase DEF PlanInv
  <2>5. Free(phases, NextPhase)
    BY <2>4 DEF PlanInv, Ordered, Free, InProgress, Failed, Ready, Status, Started, Terminal
  <2> HIDE DEF x
  <2>6. Sound(x, phases')
    BY <1>1, <2>2, <2>3, <2>5 DEF Sound, PlanInv
  <2> QED
    BY <1>1, <1>3, <2>1, <2>6, OneHolder, Moves DEF PlanInv
<1> QED
  BY <1>2, <1>3 DEF Choose

(* The steps that carry a phase out. *)
LEMMA CarryOutStep ==
  ASSUME PlanInv, NEW r \in Run, Revert(r) \/ Implement(r) \/ Audit(r) \/ Fix(r) \/ Throw(r)
  PROVE  Agrees'
<1>1. UNCHANGED phases /\ Ordered(phases)'
  BY SameOrder DEF Revert, Implement, Audit, Fix, Throw, PlanInv
<1>2. run[r].at \in InMemory \ {"committing"} /\ Holding(r)
  BY DEF Revert, Implement, Audit, Fix, Throw, At, InMemory, Holding
<1>3. ASSUME NEW x, run' = [run EXCEPT ![r] = x], UNCHANGED lock,
             x.count = run[r].count, x.limit = run[r].limit, x.copy = run[r].copy,
             x.phase = run[r].phase
      PROVE  Agrees'
  <2>1. Sound(x, phases')
    BY <1>1, <1>2, <1>3 DEF Sound, CopyAgrees, PlanInv
  <2>2. lock' = r
    BY <1>2, <1>3 DEF PlanInv, LockHeld
  <2> QED
    BY <1>1, <1>3, <2>1, <2>2, Moves DEF PlanInv
<1>4. CASE Throw(r)
  <2>1. PICK at \in {"closing", "leaving"} : Leave(r, at)
    BY <1>4 DEF Throw
  <2>2. Between(at, run[r].count, run[r].limit).at = at
    BY DEF Between
  <2> QED
    BY <1>1, <1>2, <2>1, <2>2, LeaveStep DEF Leave
<1>5. CASE Revert(r)
  <2> DEFINE x == [run[r] EXCEPT !.at = "ready", !.set = {}]
  <2>1. run' = [run EXCEPT ![r] = x] /\ UNCHANGED lock
    BY <1>5 DEF Revert, PlanInv, TypeOK
  <2>2. x.count = run[r].count /\ x.limit = run[r].limit /\ x.copy = run[r].copy /\ x.phase = run[r].phase
    BY DEF PlanInv, TypeOK, Progress
  <2> QED
    BY <2>1, <2>2, <1>3
<1>6. ASSUME NEW outcome, Ends(r, outcome), UNCHANGED lock
      PROVE  Agrees'
  <2> DEFINE x == [run[r] EXCEPT !.at = "executed", !.outcome = outcome, !.set = {}]
  <2>1. run' = [run EXCEPT ![r] = x]
    BY <1>6 DEF Ends, PlanInv, TypeOK
  <2>2. x.count = run[r].count /\ x.limit = run[r].limit /\ x.copy = run[r].copy /\ x.phase = run[r].phase
    BY DEF PlanInv, TypeOK, Progress
  <2> QED
    BY <2>1, <2>2, <1>3, <1>6
<1>7. CASE run' = [run EXCEPT ![r].at = "fixing", ![r].set = Dirty] /\ UNCHANGED lock
  <2> DEFINE x == [run[r] EXCEPT !.at = "fixing", !.set = Dirty]
  <2>1. run' = [run EXCEPT ![r] = x]
    BY <1>7 DEF PlanInv, TypeOK
  <2>2. x.count = run[r].count /\ x.limit = run[r].limit /\ x.copy = run[r].copy /\ x.phase = run[r].phase
    BY DEF PlanInv, TypeOK, Progress
  <2> QED
    BY <2>1, <2>2, <1>3, <1>7
<1> QED
  BY <1>4, <1>5, <1>6, <1>7 DEF Implement, Audit, Fix

(* The steps that write from the copy. *)
LEMMA CopyFacts ==
  ASSUME PlanInv, NEW r \in Run, run[r].at \in InMemory
  PROVE  /\ lock = r /\ Holding(r)
         /\ run[r].copy \in PhasesFiles /\ run[r].phase \in Phase
         /\ Ordered(run[r].copy)
         /\ run[r].at # "committing" => Free(run[r].copy, run[r].phase)
         /\ \A p \in Phase : Status(p) \in Terminal => run[r].copy.row[p].status = Status(p)
<1>1. Holding(r)
  BY DEF Holding
<1>2. run[r].copy \in PhasesFiles /\ run[r].phase \in Phase
  BY ValueTypes DEF PlanInv, Progress
<1> QED
  BY <1>1, <1>2 DEF PlanInv, LockHeld, CopyAgrees, Sound, Status

(* RecordStands for one step. *)
Stands ==
  (\E p \in Phase : Status(p) \in Terminal /\ phases'.row[p].status # Status(p))
    => \A p \in Phase : phases'.row[p].status \in {"pending", "done"}

LEMMA MarkStep ==
  ASSUME PlanInv, NEW r \in Run, Mark(r)
  PROVE  Agrees' /\ Stands
<1> DEFINE row == [Row(r) EXCEPT !.status = "in-progress"]
           marked == WithRow(r, row)
           x == [run[r] EXCEPT !.at = "reverting", !.copy = marked, !.pre = Dirty, !.set = ToRevert(r)]
<1>1. run[r].at = "chosen" /\ phases' = marked /\ UNCHANGED lock /\ run' = [run EXCEPT ![r] = x]
  BY DEF Mark, At, PlanInv, TypeOK
<1>2. row \in Rows /\ row.status = "in-progress"
  BY ValueTypes DEF PlanInv, Rows, Status_
<1> HIDE DEF row
<1>3. /\ Ordered(marked) /\ Free(marked, run[r].phase)
      /\ \A q \in Phase : run[r].copy.row[q].status \in Terminal
           => marked.row[q].status = run[r].copy.row[q].status
  <2>1. /\ run[r].copy \in PhasesFiles /\ run[r].phase \in Phase
        /\ Ordered(run[r].copy) /\ Free(run[r].copy, run[r].phase)
    BY <1>1, CopyFacts DEF InMemory
  <2>2. row.status \notin Terminal
    BY <1>2 DEF Terminal
  <2>3. marked = [run[r].copy EXCEPT !.row[run[r].phase] = row]
    BY DEF WithRow
  <2> HIDE DEF marked
  <2> QED
    BY <1>2, <2>1, <2>2, <2>3, WriteOrdered
<1>4. x.at = "reverting" /\ x.copy = marked /\ x.phase = run[r].phase
      /\ x.count = run[r].count /\ x.limit = run[r].limit
  BY DEF PlanInv, TypeOK, Progress
<1> HIDE DEF marked, x
<1>5. Sound(x, phases')
  BY <1>1, <1>3, <1>4 DEF Sound, CopyAgrees, PlanInv, InMemory
<1>6. Stands
  BY <1>1, <1>3, CopyFacts DEF Stands, InMemory
<1> QED
  BY <1>1, <1>3, <1>5, <1>6, CopyFacts, OneHolder, Moves DEF PlanInv, Ordered, InMemory

LEMMA RecordStep ==
  ASSUME PlanInv, NEW r \in Run, Record(r)
  PROVE  Agrees' /\ Stands
<1> DEFINE recorded == WithRow(r, Attempt(r))
           x == [run[r] EXCEPT !.at = "committing", !.copy = recorded, !.set = Modified(r)]
<1>1. run[r].at = "executed" /\ phases' = recorded
  BY DEF Record, At
<1>2. /\ Ordered(recorded)
      /\ \A q \in Phase : run[r].copy.row[q].status \in Terminal
           => recorded.row[q].status = run[r].copy.row[q].status
  <2>1. /\ run[r].copy \in PhasesFiles /\ run[r].phase \in Phase
        /\ Ordered(run[r].copy) /\ Free(run[r].copy, run[r].phase)
    BY <1>1, CopyFacts DEF InMemory
  <2>2. Attempt(r) \in Rows
    BY AttemptType DEF PlanInv
  <2>3. recorded = [run[r].copy EXCEPT !.row[run[r].phase] = Attempt(r)]
    BY DEF WithRow
  <2> HIDE DEF recorded
  <2> QED
    BY <2>1, <2>2, <2>3, WriteOrdered
<1>3. x.at = "committing" /\ x.copy = recorded /\ x.count = run[r].count /\ x.limit = run[r].limit
  BY DEF PlanInv, TypeOK, Progress
<1>4. \/ Leave(r, "closing") \/ Done(r)
      \/ run' = [run EXCEPT ![r] = x] /\ UNCHANGED lock
  BY DEF Record, PlanInv, TypeOK
<1> HIDE DEF recorded, x
<1>5. Stands
  BY <1>1, <1>2, CopyFacts DEF Stands, InMemory
<1>6. Ordered(phases)'
  BY <1>1, <1>2 DEF Ordered
<1>7. CASE Leave(r, "closing") \/ Done(r)
  BY <1>1, <1>6, <1>7, <1>5, CopyFacts, LeaveStep DEF Leave, Done, Between, InMemory
<1>8. CASE run' = [run EXCEPT ![r] = x] /\ UNCHANGED lock
  <2>1. Sound(x, phases')
    BY <1>1, <1>2, <1>3 DEF Sound, CopyAgrees, PlanInv, InMemory
  <2> QED
    BY <1>1, <1>5, <1>6, <1>8, <2>1, CopyFacts, OneHolder, Moves DEF PlanInv, InMemory
<1> QED
  BY <1>4, <1>7, <1>8

LEMMA CommitStep ==
  ASSUME PlanInv, NEW r \in Run, Commit(r)
  PROVE  Agrees' /\ Stands
<1>1. run[r].at = "committing" /\ (phases' = run[r].copy \/ UNCHANGED phases) /\ Done(r)
  BY DEF Commit, At
<1>2. Stands
  BY <1>1, CopyFacts DEF Stands, InMemory, Status
<1>3. Ordered(phases)'
  BY <1>1, CopyFacts DEF InMemory, Ordered, PlanInv
<1> QED
  BY <1>1, <1>2, <1>3, CopyFacts, LeaveStep DEF Done, Between, InMemory

(* The other commands, the user and the process. *)
LEMMA OutsideStep ==
  ASSUME PlanInv, Outside
  PROVE  Agrees' /\ Stands
<1>1. ASSUME UnderLock, Ordered(phases)'
      PROVE  Agrees'
  <2>1. \A q \in Run : ~Holding(q) /\ run' = run /\ lock' = lock
    BY <1>1, PlanAssumption DEF UnderLock, PlanInv, LockHeld
  <2> QED
    BY <1>1, <2>1 DEF Agrees, CopyAgrees, LockHeld, Sound, Holding
<1>2. ASSUME UNCHANGED phases
      PROVE  Stands
  BY <1>2 DEF Stands, Status
<1>3. CASE \/ \E status \in {"APPROVED", "CLOSED"} : SetStatus(status)
           \/ \E p \in Phase : EditPlan(p)
           \/ \E f \in File : UserEdit(f) \/ UserStage(f)
  <2>1. UNCHANGED <<phases, run, lock>>
    BY <1>3 DEF SetStatus, EditPlan, UserEdit, UserStage
  <2> QED
    BY <1>2, <2>1 DEF PlanInv, Agrees, Ordered, CopyAgrees, LockHeld, Holding
<1>4. CASE Crash
  <2>1. UNCHANGED phases /\ \A q \in Run : run'[q].at \in {"idle", "over"}
    BY <1>4 DEF Crash, Idle, Over, Between
  <2> QED
    BY <1>2, <2>1, SameOrder DEF PlanInv, Agrees, CopyAgrees, Sound, LockHeld, Holding, InMemory
<1>5. CASE Skip \/ \E p \in Phase : SkipTo(p)
  <2>1. PICK S : UnderLock /\ phases' = Skipped(S) /\ \A p \in S : p \in Phase /\ Status(p) \notin Terminal
    <3>1. CASE Skip
      <4>1. InProgress \cup Failed \in SUBSET Phase /\ InProgress \cup Failed # {}
        BY <3>1 DEF Skip, InProgress, Failed
      <4>2. First(InProgress \cup Failed) \in InProgress \cup Failed
        BY <4>1, FirstIsLeast
      <4> QED
        BY <3>1, <4>1, <4>2 DEF Skip, InProgress, Failed, Terminal
    <3>2. ASSUME NEW p \in Phase, SkipTo(p)
          PROVE  \E S : UnderLock /\ phases' = Skipped(S) /\ \A q \in S : q \in Phase /\ Status(q) \notin Terminal
      <4>1. 1..(p - 1) \subseteq Phase
        BY PlanAssumption DEF Phase
      <4>2. /\ UnderLock
            /\ phases' = Skipped({q \in 1..(p - 1) : Status(q) \notin Terminal})
        BY <3>2 DEF SkipTo
      <4>3. \A q \in {q \in 1..(p - 1) : Status(q) \notin Terminal} : q \in Phase /\ Status(q) \notin Terminal
        BY <4>1
      <4> QED
        BY <4>2, <4>3
    <3> QED
      BY <1>5, <3>1, <3>2
  <2>2. /\ Ordered(Skipped(S))
        /\ \A p \in Phase : Status(p) \in Terminal => Skipped(S).row[p].status = Status(p)
    BY <2>1, SkippedOrdered DEF PlanInv
  <2>3. Ordered(phases)' /\ Stands
    BY <2>1, <2>2 DEF Ordered, Stands
  <2> QED
    BY <2>1, <2>3, <1>1
<1>6. CASE \E keepDone \in BOOLEAN : Regenerate(keepDone)
  <2>1. UnderLock /\ Ordered(phases)' /\ \A p \in Phase : phases'.row[p].status \in {"pending", "done"}
    BY <1>6, FreshOrdered, KeptOrdered DEF Regenerate, Ordered, PlanInv
  <2> QED
    BY <2>1, <1>1 DEF Stands
<1> QED
  BY <1>3, <1>4, <1>5, <1>6 DEF Outside

LEMMA NextStep ==
  ASSUME PlanInv, [Next]_vars
  PROVE  PlanInv' /\ Stands
<1>1. TypeOK'
  BY StepTypes DEF PlanInv
<1>2. ASSUME NEW r \in Run, Call(r) \/ RunStep(r)
      PROVE  Agrees' /\ Stands
  <2>1. UNCHANGED phases => Stands
    BY DEF Stands, Status
  <2>2. CASE Call(r)
    BY <2>1, <2>2, CallStep DEF Call, StartCommand, StartAction
  <2>3. CASE Validate(r) \/ Gate(r) \/ Check(r) \/ Stop(r) \/ SkipClose(r) \/ Close(r) \/ Deregister(r)
    BY <2>1, <2>3, OutsidePhaseStep DEF Validate, Gate, Check, Stop, SkipClose, Close, Deregister
  <2>4. CASE Generate(r)
    <3>1. Stands
      BY <2>4, FreshOrdered DEF Generate, Stands
    <3> QED
      BY <2>4, <3>1, GenerateStep
  <2>5. CASE Choose(r)
    BY <2>1, <2>5, ChooseStep DEF Choose
  <2>6. CASE Revert(r) \/ Implement(r) \/ Audit(r) \/ Fix(r) \/ Throw(r)
    BY <2>1, <2>6, CarryOutStep DEF Revert, Implement, Audit, Fix, Throw
  <2> QED
    BY <1>2, <2>2, <2>3, <2>4, <2>5, <2>6, MarkStep, RecordStep, CommitStep DEF RunStep
<1>3. ASSUME UNCHANGED vars
      PROVE  Agrees' /\ Stands
  <2>1. UNCHANGED <<phases, run, lock>>
    BY <1>3 DEF vars
  <2> QED
    BY <2>1 DEF PlanInv, Agrees, Ordered, CopyAgrees, LockHeld, Holding, Stands, Status
<1>4. Agrees' /\ Stands
  <2>1. CASE \E r \in Run : Call(r) \/ RunStep(r)
    BY <1>2, <2>1
  <2>2. CASE Outside
    BY <2>2, OutsideStep
  <2>3. CASE UNCHANGED vars
    BY <1>3, <2>3
  <2> QED
    BY <2>1, <2>2, <2>3 DEF Next, AtRest
<1> QED
  BY <1>1, <1>4 DEF PlanInv, Agrees

THEOREM PlanInvariant == Spec => []PlanInv
<1>1. Init => PlanInv
  BY InitInv
<1>2. PlanInv /\ [Next]_vars => PlanInv'
  BY NextStep
<1> QED
  BY <1>1, <1>2, PTL DEF Spec

(* The state of plan, phases file, tree and runs keeps its types, and no run *)
(* carries out more phases than its limit.                                   *)
THEOREM TypeCorrect == Spec => []TypeOK
<1>1. PlanInv => TypeOK
  BY DEF PlanInv
<1> QED
  BY <1>1, PlanInvariant, PTL

(* A phase on disk is started only after all the phases it depends on are    *)
(* done or skipped, whatever the commands, retries and crashes.              *)
THEOREM PhasesInOrder == Spec => []DependenciesFirst
<1>1. PlanInv => DependenciesFirst
  BY DEF PlanInv, Ordered, DependenciesFirst, Started, Status
<1> QED
  BY <1>1, PlanInvariant, PTL

(* A final record of a phase stands until the phases are regenerated.        *)
THEOREM RecordKept == Spec => RecordStands
<1>1. PlanInv /\ [Next]_vars => [Stands]_phases
  BY NextStep
<1>2. [Stands]_phases => [(\E p \in Phase : Status(p) \in Terminal /\ phases'.row[p].status # Status(p))
       => \A p \in Phase : phases'.row[p].status \in {"pending", "done"}]_phases
  BY DEF Stands
<1> QED
  BY <1>1, <1>2, PlanInvariant, PTL DEF Spec, RecordStands
-----------------------------------------------------------------------------
(* What the user changed between phases.                                     *)

Carrying == InMemory \ {"chosen"}

(* Before a phase that was started every phase is final. *)
InOrder(f) ==
  \A p, q \in Phase : p < q /\ f.row[q].status # "pending" => f.row[p].status \in Terminal

NoFailure(f) == \A p \in Phase : f.row[p].status # "failed"

(* A retry by the rows of f finds files that hold the user's work when it    *)
(* compares them, and none of those it must spare.                           *)
Reverts(f, contents, spared) ==
  \A p \in Phase : f.row[p].status = "failed" /\ f.row[p].hashed =>
    \A x \in f.row[p].files : User \in f.row[p].was[x] => User \in contents[x] /\ x \notin spared

(* What the progress x of a run keeps out of its reach. *)
Spares(x, f, contents, spared) ==
  /\ x.at \in InMemory => InOrder(x.copy)
  /\ x.at = "chosen" => Reverts(x.copy, contents, spared)
  /\ x.at \in Carrying => NoFailure(f) /\ spared \subseteq x.pre
  /\ x.at = "committing" => NoFailure(x.copy)
  /\ x.at \in {"reverting", "committing"} => x.set \cap spared = {}
  /\ x.at = "fixing" => spared \subseteq x.set

(* The user's work that only the working tree has. *)
Exposed == {f \in precious : User \notin index[f]}

(* What is committed is staged, what is staged is in the working tree, and   *)
(* the user staged what is staged of the work between phases.                *)
Nested ==
  /\ \A f \in File : /\ User \in head[f] => User \in index[f]
                     /\ User \in index[f] => User \in work[f]
  /\ \A f \in precious : User \in work[f] /\ (User \in index[f] => f \in staged)

AllSpare == \A r \in Run : Spares(run[r], phases, work, Exposed)

UserInv ==
  /\ Nested
  /\ InOrder(phases) /\ Reverts(phases, work, Exposed)
  /\ AllSpare

LEMMA ExposedIsDirty ==
  ASSUME PlanInv, UserInv
  PROVE  Exposed \subseteq Dirty
  BY DEF UserInv, Nested, Exposed, Dirty, PlanInv, TypeOK

LEMMA SameExposed ==
  ASSUME UNCHANGED <<repo, user>>
  PROVE  Exposed' = Exposed
  BY DEF repo, user, Exposed

LEMMA SameTree ==
  ASSUME UNCHANGED tree
  PROVE  work' = work /\ Exposed' = Exposed /\ (Nested => Nested')
  BY DEF tree, Exposed, Nested

(* Around a phase that may be started nothing is in progress or failed. *)
LEMMA OneAtATime ==
  ASSUME NEW f, NEW p \in Phase, InOrder(f), Free(f, p)
  PROVE  /\ \A q \in Phase : q < p => f.row[q].status \in Terminal
         /\ \A q \in Phase \ {p} : f.row[q].status \in Terminal \cup {"pending"}
<1>1. ASSUME NEW q \in Phase, q < p
      PROVE  f.row[q].status \in Terminal
  <2>1. q \in 1..(Last - 1)
    BY <1>1, PlanAssumption DEF Phase
  <2>2. CASE q \in DependsOn(p)
    BY <2>2 DEF Free
  <2>3. CASE q \notin DependsOn(p)
    <3>1. p # Last /\ q # p - 1
      BY <2>1, <2>3, <1>1 DEF DependsOn, Implements
    <3>2. p - 1 \in Phase /\ q < p - 1
      BY <3>1, <1>1, PlanAssumption DEF Phase
    <3>3. f.row[p - 1].status \in Terminal
      BY <3>1, <3>2 DEF Free, DependsOn, Implements
    <3> QED
      BY <3>2, <3>3 DEF InOrder, Terminal
  <2> QED
    BY <2>2, <2>3
<1>2. ASSUME NEW q \in Phase, p < q
      PROVE  f.row[q].status = "pending"
  BY <1>2 DEF InOrder, Free
<1>3. \A q \in Phase \ {p} : q < p \/ p < q
  BY PlanAssumption DEF Phase
<1> QED
  BY <1>1, <1>2, <1>3

(* A run writes the row of the phase it carries out. *)
LEMMA WriteInOrder ==
  ASSUME NEW f \in PhasesFiles, NEW p \in Phase, NEW row \in Rows, InOrder(f), Free(f, p)
  PROVE  /\ InOrder([f EXCEPT !.row[p] = row])
         /\ row.status # "failed" => NoFailure([f EXCEPT !.row[p] = row])
         /\ \A q \in Phase : [f EXCEPT !.row[p] = row].row[q].status = "failed"
              => q = p /\ [f EXCEPT !.row[p] = row].row[q] = row
<1> DEFINE g == [f EXCEPT !.row[p] = row]
<1>1. g.row[p] = row /\ \A q \in Phase : q # p => g.row[q] = f.row[q]
  BY DEF PhasesFiles
<1> HIDE DEF g
<1>2. InOrder(g)
  <2>1. SUFFICES ASSUME NEW a \in Phase, NEW b \in Phase, a < b, g.row[b].status # "pending"
                 PROVE  g.row[a].status \in Terminal
    BY DEF InOrder
  <2>2. a # b /\ a \in Nat /\ b \in Nat
    BY <2>1, PhaseIsNat
  <2>3. CASE b = p
    BY <1>1, <2>1, <2>2, <2>3, OneAtATime
  <2>4. CASE b # p
    <3>1. f.row[a].status \in Terminal
      BY <1>1, <2>1, <2>4 DEF InOrder
    <3>2. a # p
      BY <3>1 DEF Free
    <3> QED
      BY <1>1, <3>1, <3>2
  <2> QED
    BY <2>3, <2>4
<1>3. \A q \in Phase : g.row[q].status = "failed" => q = p /\ g.row[q] = row
  BY <1>1, OneAtATime DEF Terminal
<1>4. row.status # "failed" => NoFailure(g)
  BY <1>3 DEF NoFailure
<1> QED
  BY <1>2, <1>3, <1>4 DEF g

LEMMA FreshInOrder == InOrder(Fresh) /\ NoFailure(Fresh)
  BY FreshOrdered DEF InOrder, NoFailure

(* The file made from the done phases that are kept. *)
LEMMA KeptInOrder ==
  ASSUME TypeOK
  PROVE  /\ InOrder([Fresh EXCEPT !.row = [p \in Phase |-> IF p \in Kept THEN phases.row[p] ELSE Pending]])
         /\ NoFailure([Fresh EXCEPT !.row = [p \in Phase |-> IF p \in Kept THEN phases.row[p] ELSE Pending]])
<1> DEFINE g == [Fresh EXCEPT !.row = [p \in Phase |-> IF p \in Kept THEN phases.row[p] ELSE Pending]]
<1>1. \A p \in Phase : g.row[p] = IF p \in Kept THEN phases.row[p] ELSE Pending
  BY DEF Fresh
<1>2. NoFailure(g)
  BY KeptOrdered DEF NoFailure
<1> HIDE DEF g
<1>3. ASSUME NEW p \in Phase, NEW q \in Phase, p < q, g.row[q].status # "pending"
      PROVE  g.row[p].status \in Terminal
  <2>1. q \in Kept
    BY <1>1, <1>3 DEF Pending
  <2>2. 1..p \subseteq 1..q /\ p \in 1..p
    BY <1>3, PlanAssumption DEF Phase
  <2>3. p \in Kept /\ Status(p) = "done"
    BY <2>1, <2>2 DEF Kept
  <2> QED
    BY <1>1, <2>3 DEF Terminal, Status
<1>4. InOrder(g)
  BY <1>3 DEF InOrder
<1> QED
  BY <1>2, <1>4 DEF g

(* A skip of phases that have none before them left to run. *)
LEMMA SkippedInOrder ==
  ASSUME TypeOK, InOrder(phases), Reverts(phases, work, Exposed), NEW S,
         \A q \in S : q \in Phase /\ \A p \in Phase : p < q => p \in S \/ Status(p) \in Terminal
  PROVE  InOrder(Skipped(S)) /\ Reverts(Skipped(S), work, Exposed)
<1> DEFINE g == Skipped(S)
<1>1. \A p \in Phase : /\ g.row[p].status = IF p \in S THEN "skipped" ELSE Status(p)
                       /\ p \notin S => g.row[p] = phases.row[p]
  BY DEF Skipped, Status, TypeOK, PhasesFiles, Rows
<1> HIDE DEF g
<1>2. InOrder(g)
  BY <1>1 DEF InOrder, Status, Terminal
<1>3. Reverts(g, work, Exposed)
  BY <1>1 DEF Reverts, Status
<1> QED
  BY <1>2, <1>3 DEF g

(* The runs that are not the one that moves hold no phase. *)
LEMMA OnlyOneSpares ==
  ASSUME PlanInv, NEW r \in Run, NEW x, run' = [run EXCEPT ![r] = x],
         Holding(r) \/ lock = NoRun, Spares(x, phases', work', Exposed')
  PROVE  AllSpare'
<1>1. run'[r] = x /\ \A q \in Run \ {r} : run'[q] = run[q] /\ run[q].at \notin InMemory
  BY OneHolder DEF PlanInv, TypeOK, Holding
<1>2. ASSUME NEW q \in Run \ {r}
      PROVE  Spares(run'[q], phases', work', Exposed')
  BY <1>1 DEF Spares, Carrying, InMemory
<1> QED
  BY <1>1, <1>2 DEF AllSpare

(* A run that is in no phase has nothing to keep. *)
LEMMA OutsideSpares ==
  ASSUME NEW x, x.at \notin InMemory, NEW f, NEW contents, NEW spared
  PROVE  Spares(x, f, contents, spared)
  BY DEF Spares, Carrying, InMemory

LEMMA BetweenSpares ==
  ASSUME NEW at, at \notin InMemory, NEW count, NEW limit, NEW f, NEW contents, NEW spared
  PROVE  Spares(Between(at, count, limit), f, contents, spared)
  BY OutsideSpares DEF Between

(* Nothing is reverted from rows none of which failed. *)
LEMMA NoFailureReverts ==
  ASSUME NEW f, NoFailure(f), NEW contents, NEW spared
  PROVE  Reverts(f, contents, spared)
  BY DEF NoFailure, Reverts

(* What holds of the phase that run r carries out. *)
LEMMA CarryingFacts ==
  ASSUME PlanInv, UserInv, NEW r \in Run, run[r].at \in InMemory
  PROVE  /\ Holding(r) /\ run[r].copy \in PhasesFiles /\ run[r].phase \in Phase
         /\ InOrder(run[r].copy)
         /\ run[r].at # "committing" => Free(run[r].copy, run[r].phase)
         /\ run[r].at \in Carrying => NoFailure(phases) /\ Exposed \subseteq run[r].pre
  BY CopyFacts DEF UserInv, AllSpare, Spares

(* The steps of a run that leave the tree and the rows as they are. *)
LEMMA RunSpares ==
  ASSUME PlanInv, UserInv, NEW r \in Run, NEW x, run' = [run EXCEPT ![r] = x], x.at \notin InMemory,
         UNCHANGED tree,
         UNCHANGED phases \/ phases' = Fresh
  PROVE  UserInv'
<1>1. run'[r] = x /\ \A q \in Run \ {r} : run'[q] = run[q]
  BY DEF PlanInv, TypeOK
<1>2. InOrder(phases') /\ Reverts(phases', work, Exposed) /\ (NoFailure(phases) => NoFailure(phases'))
  BY FreshInOrder, NoFailureReverts DEF UserInv
<1>3. ASSUME NEW q \in Run \ {r}
      PROVE  Spares(run'[q], phases', work, Exposed)
  <2>1. Spares(run[q], phases, work, Exposed)
    BY DEF UserInv, AllSpare
  <2> QED
    BY <1>1, <1>2, <2>1 DEF Spares
<1>4. Spares(run'[r], phases', work, Exposed)
  BY <1>1, OutsideSpares
<1> QED
  BY <1>2, <1>3, <1>4, SameTree DEF UserInv, AllSpare

LEMMA CallSpares ==
  ASSUME PlanInv, UserInv, NEW r \in Run,
         Call(r) \/ Validate(r) \/ Gate(r) \/ Generate(r) \/ Check(r) \/ Stop(r) \/ SkipClose(r)
           \/ Close(r) \/ Deregister(r)
  PROVE  UserInv'
<1>1. UNCHANGED tree /\ (UNCHANGED phases \/ phases' = Fresh)
  BY DEF Call, StartCommand, StartAction, Validate, Gate, Generate, Check, Stop, SkipClose, Close,
     Deregister
<1>2. \/ \E at \in {"gate", "generate", "check", "loop", "closing", "leaving"} : run' = [run EXCEPT ![r].at = at]
      \/ run' = [run EXCEPT ![r] = Over]
      \/ \E at \in {"queued", "gate"}, limit \in Nat : run' = [run EXCEPT ![r] = Between(at, 0, limit)]
  BY PlanAssumption DEF Call, StartCommand, StartAction, Validate, Gate, Generate, Check, Stop,
     SkipClose, Close, Deregister, Refuse, To
<1>3. ASSUME NEW at \in {"gate", "generate", "check", "loop", "closing", "leaving"},
             run' = [run EXCEPT ![r].at = at]
      PROVE  UserInv'
  <2> DEFINE x == [run[r] EXCEPT !.at = at]
  <2>1. run' = [run EXCEPT ![r] = x] /\ x.at = at
    BY <1>3, AtMoves DEF PlanInv, TypeOK
  <2> HIDE DEF x
  <2> QED
    BY <1>1, <2>1, RunSpares DEF InMemory
<1>4. ASSUME NEW at \in {"queued", "gate", "over"}, NEW limit, run' = [run EXCEPT ![r] = Between(at, 0, limit)]
      PROVE  UserInv'
  <2>1. Between(at, 0, limit).at \notin InMemory
    BY DEF Between, InMemory
  <2> QED
    BY <1>1, <1>4, <2>1, RunSpares
<1> QED
  BY <1>2, <1>3, <1>4 DEF Over

(* A phase is chosen by the rows on disk. *)
LEMMA ChooseSpares ==
  ASSUME PlanInv, UserInv, NEW r \in Run, Choose(r)
  PROVE  UserInv'
<1>1. UNCHANGED <<tree, phases>> /\ lock = NoRun
  BY DEF Choose
<1>2. AllSpare'
  <2>1. CASE Leave(r, "closing")
    <3>1. Spares(Between("closing", run[r].count, run[r].limit), phases', work', Exposed')
      BY BetweenSpares DEF InMemory
    <3> QED
      BY <1>1, <2>1, <3>1, OnlyOneSpares DEF Leave
  <2>2. CASE run' = [run EXCEPT ![r].at = "chosen", ![r].phase = NextPhase, ![r].copy = phases]
    <3> DEFINE x == [run[r] EXCEPT !.at = "chosen", !.phase = NextPhase, !.copy = phases]
    <3>1. run' = [run EXCEPT ![r] = x]
      BY <2>2 DEF PlanInv, TypeOK
    <3>2. x.at = "chosen" /\ x.copy = phases
      BY DEF PlanInv, TypeOK, Progress
    <3> HIDE DEF x
    <3>3. Spares(x, phases', work', Exposed')
      BY <1>1, <3>2, SameTree DEF Spares, Carrying, UserInv
    <3> QED
      BY <1>1, <3>1, <3>3, OnlyOneSpares
  <2> QED
    BY <2>1, <2>2 DEF Choose
<1> QED
  BY <1>1, <1>2, SameTree DEF UserInv

(* The files that a retry is to revert are not the user's. *)
LEMMA MarkSpares ==
  ASSUME PlanInv, UserInv, NEW r \in Run, Mark(r)
  PROVE  UserInv'
<1> DEFINE row == [Row(r) EXCEPT !.status = "in-progress"]
           marked == WithRow(r, row)
           x == [run[r] EXCEPT !.at = "reverting", !.copy = marked, !.pre = Dirty, !.set = ToRevert(r)]
<1>1. /\ run[r].at = "chosen" /\ phases' = marked /\ run' = [run EXCEPT ![r] = x]
      /\ UNCHANGED tree
  BY DEF Mark, At, PlanInv, TypeOK
<1>2. row \in Rows /\ row.status # "failed"
  BY ValueTypes DEF PlanInv, Rows, Status_
<1>3. Holding(r) /\ run[r].copy \in PhasesFiles /\ run[r].phase \in Phase
      /\ InOrder(run[r].copy) /\ Free(run[r].copy, run[r].phase)
  BY <1>1, CarryingFacts DEF InMemory
<1>4. InOrder(marked) /\ NoFailure(marked)
  <2> HIDE DEF row
  <2> QED
    BY <1>2, <1>3, WriteInOrder DEF WithRow
<1>5. Exposed \subseteq Dirty
  BY ExposedIsDirty
<1>6. ToRevert(r) \cap Exposed = {}
  <2>1. SUFFICES ASSUME NEW f \in ToRevert(r), f \in Exposed
                 PROVE  FALSE
    OBVIOUS
  <2>2. Row(r).status = "failed" /\ Row(r).hashed /\ f \in Row(r).files /\ work[f] = Row(r).was[f]
    BY <2>1 DEF ToRevert
  <2>3. Reverts(run[r].copy, work, Exposed)
    BY <1>1 DEF UserInv, AllSpare, Spares
  <2>4. User \in work[f]
    BY <2>1 DEF UserInv, Nested, Exposed
  <2> QED
    BY <1>3, <2>1, <2>2, <2>3, <2>4 DEF Reverts, Row
<1>7. x.at = "reverting" /\ x.copy = marked /\ x.pre = Dirty /\ x.set = ToRevert(r)
  BY DEF PlanInv, TypeOK, Progress
<1> HIDE DEF marked, x
<1>8. Spares(x, phases', work', Exposed')
  BY <1>1, <1>4, <1>5, <1>6, <1>7, SameTree DEF Spares
<1>9. AllSpare'
  BY <1>1, <1>3, <1>8, OnlyOneSpares
<1>10. Reverts(phases', work', Exposed') /\ InOrder(phases')
  BY <1>1, <1>4, NoFailureReverts
<1> QED
  BY <1>1, <1>9, <1>10, SameTree DEF UserInv

(* The steps that write the tree: a file keeps the user's work unless it is  *)
(* checked out of the index, and no file that must be spared is.             *)
LEMMA TreeSpares ==
  ASSUME PlanInv, UserInv, NEW r \in Run, run[r].at \in Carrying, NEW S, S \cap Exposed = {},
         \A f \in File : IF f \in S THEN work'[f] = index[f] ELSE work[f] \subseteq work'[f],
         UNCHANGED <<repo, user, phases>>, AllSpare'
  PROVE  UserInv'
<1>1. precious \subseteq File /\ UNCHANGED <<head, index, precious, staged>>
  BY DEF PlanInv, TypeOK, repo, user
<1>2. Nested'
  BY <1>1 DEF UserInv, Nested, Exposed
<1>3. Reverts(phases', work', Exposed') /\ InOrder(phases')
  BY CarryingFacts, NoFailureReverts DEF UserInv, Carrying
<1> QED
  BY <1>2, <1>3 DEF UserInv

LEMMA TreeGrows ==
  ASSUME PlanInv, UserInv, NEW r \in Run, run[r].at \in Carrying,
         \A f \in File : work[f] \subseteq work'[f],
         UNCHANGED <<repo, user, phases>>, AllSpare'
  PROVE  UserInv'
<1>1. PICK S : S = {}
  OBVIOUS
<1>2. S \cap Exposed = {}
  BY <1>1
<1>3. \A f \in File : IF f \in S THEN work'[f] = index[f] ELSE work[f] \subseteq work'[f]
  BY <1>1
<1> QED
  BY <1>2, <1>3, TreeSpares

(* What the fix loop leaves: its edits, or its rollback. *)
LEMMA FixTrees ==
  ASSUME PlanInv, UserInv, NEW r \in Run, run[r].at = "fixing", NEW S \in SUBSET File,
         work' \in {Edited(r, S), RolledBack(r, S)}, UNCHANGED <<repo, user, phases>>, AllSpare'
  PROVE  UserInv'
<1>1. run[r].at \in Carrying
  BY DEF Carrying, InMemory
<1>2. Exposed \subseteq run[r].set
  BY DEF UserInv, AllSpare, Spares
<1>3. \A f \in File : work[f] \subseteq Edited(r, S)[f]
  BY DEF Edited
<1>4. CASE work' = Edited(r, S)
  BY <1>1, <1>3, <1>4, TreeGrows
<1>5. CASE work' = RolledBack(r, S)
  <2> DEFINE R == (S \cup Dirty) \ run[r].set
  <2>1. R \cap Exposed = {}
    BY <1>2
  <2>2. \A f \in File : IF f \in R THEN work'[f] = index[f] ELSE work[f] \subseteq work'[f]
    BY <1>3, <1>5 DEF RolledBack
  <2> HIDE DEF R
  <2> QED
    BY <1>1, <2>1, <2>2, TreeSpares
<1> QED
  BY <1>4, <1>5

LEMMA CarryOutSpares ==
  ASSUME PlanInv, UserInv, NEW r \in Run, Revert(r) \/ Implement(r) \/ Audit(r) \/ Fix(r)
  PROVE  UserInv'
<1>1. run[r].at \in Carrying /\ run[r].at \in InMemory \ {"committing"} /\ UNCHANGED <<repo, user, phases>>
  BY DEF Revert, Implement, Audit, Fix, At, InMemory, Carrying, tree, repo, user
<1>2. Holding(r) /\ InOrder(run[r].copy) /\ NoFailure(phases) /\ Exposed \subseteq run[r].pre
  BY <1>1, CarryingFacts DEF Carrying
<1>3. ASSUME NEW x, run' = [run EXCEPT ![r] = x], x.at \in {"ready", "executed", "fixing"},
             x.copy = run[r].copy, x.pre = run[r].pre, x.at = "fixing" => Exposed \subseteq x.set
      PROVE  AllSpare'
  <2>1. Spares(x, phases', work', Exposed')
    BY <1>1, <1>2, <1>3, SameExposed DEF Spares
  <2> QED
    BY <1>2, <1>3, <2>1, OnlyOneSpares
<1>4. ASSUME NEW outcome, Ends(r, outcome)
      PROVE  AllSpare'
  <2> DEFINE x == [run[r] EXCEPT !.at = "executed", !.outcome = outcome, !.set = {}]
  <2>1. run' = [run EXCEPT ![r] = x]
    BY <1>4 DEF Ends, PlanInv, TypeOK
  <2>2. x.at = "executed" /\ x.copy = run[r].copy /\ x.pre = run[r].pre
    BY DEF PlanInv, TypeOK, Progress
  <2> HIDE DEF x
  <2> QED
    BY <2>1, <2>2, <1>3
<1>5. ASSUME NEW S \in SUBSET File
      PROVE  \A f \in File : work[f] \subseteq Edited(r, S)[f]
  BY DEF Edited
<1>6. CASE Revert(r)
  <2> DEFINE x == [run[r] EXCEPT !.at = "ready", !.set = {}]
  <2>1. run' = [run EXCEPT ![r] = x]
    BY <1>6 DEF Revert, PlanInv, TypeOK
  <2>2. x.at = "ready" /\ x.copy = run[r].copy /\ x.pre = run[r].pre
    BY DEF PlanInv, TypeOK, Progress
  <2> HIDE DEF x
  <2>3. AllSpare'
    BY <2>1, <2>2, <1>3
  <2>4. run[r].set \cap Exposed = {}
    BY <1>6 DEF Revert, At, UserInv, AllSpare, Spares
  <2>5. CASE work' = CheckedOut(run[r].set)
    <3>1. \A f \in File : IF f \in run[r].set THEN work'[f] = index[f] ELSE work[f] \subseteq work'[f]
      BY <2>5 DEF CheckedOut
    <3> QED
      BY <1>1, <2>3, <2>4, <3>1, TreeSpares
  <2>6. CASE work' = work
    BY <1>1, <2>3, <2>6, TreeGrows
  <2> QED
    BY <1>6, <2>5, <2>6 DEF Revert
<1>7. CASE Implement(r)
  <2>1. PICK S \in SUBSET File : work' = Edited(r, S)
    BY <1>7 DEF Implement
  <2>2. \A f \in File : work[f] \subseteq work'[f]
    BY <1>5, <2>1
  <2>3. AllSpare'
    BY <1>4, <1>7 DEF Implement
  <2> QED
    BY <1>1, <2>2, <2>3, TreeGrows
<1>8. CASE Audit(r)
  <2>1. ASSUME run' = [run EXCEPT ![r].at = "fixing", ![r].set = Dirty]
        PROVE  AllSpare'
    <3> DEFINE x == [run[r] EXCEPT !.at = "fixing", !.set = Dirty]
    <3>1. run' = [run EXCEPT ![r] = x]
      BY <2>1 DEF PlanInv, TypeOK
    <3>2. x.at = "fixing" /\ x.copy = run[r].copy /\ x.pre = run[r].pre /\ x.set = Dirty
      BY DEF PlanInv, TypeOK, Progress
    <3>3. Exposed \subseteq x.set
      BY <3>2, ExposedIsDirty
    <3> HIDE DEF x
    <3> QED
      BY <3>1, <3>2, <3>3, <1>3
  <2>2. AllSpare'
    BY <1>4, <1>8, <2>1 DEF Audit
  <2>3. \A f \in File : work[f] \subseteq work'[f]
    BY <1>8 DEF Audit, tree
  <2> QED
    BY <1>1, <2>2, <2>3, TreeGrows
<1>9. CASE Fix(r)
  <2>1. AllSpare'
    BY <1>4, <1>9 DEF Fix
  <2>2. PICK S \in SUBSET File : work' \in {Edited(r, S), RolledBack(r, S)}
    BY <1>9 DEF Fix
  <2> QED
    BY <1>1, <1>9, <2>1, <2>2, FixTrees DEF Fix, At
<1> QED
  BY <1>6, <1>7, <1>8, <1>9

LEMMA ThrowSpares ==
  ASSUME PlanInv, UserInv, NEW r \in Run, Throw(r)
  PROVE  UserInv'
<1>1. run[r].at \in InMemory /\ UNCHANGED <<repo, user, phases>>
  BY DEF Throw, InMemory
<1>2. PICK at \in {"closing", "leaving"} : Leave(r, at)
  BY DEF Throw
<1>3. Spares(Between(at, run[r].count, run[r].limit), phases', work', Exposed')
  BY BetweenSpares DEF InMemory
<1>4. AllSpare'
  BY <1>1, <1>2, <1>3, CarryingFacts, OnlyOneSpares DEF Leave
<1>5. CASE work' = work
  <2>1. UNCHANGED tree
    BY <1>1, <1>5 DEF tree, repo, user
  <2> QED
    BY <1>1, <1>4, <2>1, SameTree DEF UserInv
<1>6. ASSUME run[r].at = "fixing", NEW S \in SUBSET File, work' \in {Edited(r, S), RolledBack(r, S)}
      PROVE  UserInv'
  BY <1>1, <1>4, <1>6, FixTrees
<1> QED
  BY <1>5, <1>6 DEF Throw, At

(* What is recorded of a failed attempt, or committed, is what it changed.   *)
LEMMA RecordSpares ==
  ASSUME PlanInv, UserInv, NEW r \in Run, Record(r)
  PROVE  UserInv'
<1> DEFINE recorded == WithRow(r, Attempt(r))
           x == [run[r] EXCEPT !.at = "committing", !.copy = recorded, !.set = Modified(r)]
<1>1. run[r].at = "executed" /\ phases' = recorded /\ UNCHANGED tree
  BY DEF Record, At
<1>2. Holding(r) /\ run[r].copy \in PhasesFiles /\ run[r].phase \in Phase
      /\ InOrder(run[r].copy) /\ Free(run[r].copy, run[r].phase) /\ Exposed \subseteq run[r].pre
  BY <1>1, CarryingFacts DEF InMemory, Carrying
<1>3. /\ InOrder(recorded)
      /\ Attempt(r).status # "failed" => NoFailure(recorded)
      /\ \A q \in Phase : recorded.row[q].status = "failed" => recorded.row[q] = Attempt(r)
  <2>1. Attempt(r) \in Rows
    BY AttemptType DEF PlanInv
  <2>2. recorded = [run[r].copy EXCEPT !.row[run[r].phase] = Attempt(r)]
    BY DEF WithRow
  <2> HIDE DEF recorded
  <2> QED
    BY <1>2, <2>1, <2>2, WriteInOrder
<1>4. Modified(r) \cap Exposed = {}
  BY <1>2 DEF Modified
<1>5. Reverts(recorded, work, Exposed)
  <2>1. SUFFICES ASSUME NEW q \in Phase, recorded.row[q].status = "failed", recorded.row[q].hashed,
                        NEW f \in recorded.row[q].files, User \in recorded.row[q].was[f]
                 PROVE  User \in work[f] /\ f \notin Exposed
    BY DEF Reverts
  <2>2. recorded.row[q] = Attempt(r)
    BY <1>3, <2>1
  <2> HIDE DEF recorded
  <2>3. Attempt(r).files = Modified(r) /\ Modified(r) \in SUBSET File
    BY AttemptType DEF Attempt, PlanInv
  <2>4. Attempt(r).was[f] \subseteq work[f]
    BY <2>1, <2>2, <2>3 DEF Attempt
  <2> QED
    BY <1>4, <2>1, <2>2, <2>3, <2>4
<1>6. x.at = "committing" /\ x.copy = recorded /\ x.set = Modified(r) /\ x.pre = run[r].pre
  BY DEF PlanInv, TypeOK, Progress
<1> HIDE DEF recorded
<1>7. AllSpare'
  <2>1. CASE Leave(r, "closing")
    <3>1. Spares(Between("closing", run[r].count, run[r].limit), phases', work', Exposed')
      BY BetweenSpares DEF InMemory
    <3> QED
      BY <1>2, <2>1, <3>1, OnlyOneSpares DEF Leave
  <2>2. CASE Done(r)
    <3>1. Spares(Between("loop", run[r].count + 1, run[r].limit), phases', work', Exposed')
      BY BetweenSpares DEF InMemory
    <3> QED
      BY <1>2, <2>2, <3>1, OnlyOneSpares DEF Done
  <2>3. CASE run[r].outcome = "done" /\ run' = [run EXCEPT ![r] = x]
    <3>1. Attempt(r).status = "done"
      BY <2>3 DEF Attempt
    <3>2. NoFailure(recorded)
      BY <1>3, <3>1
    <3> HIDE DEF x
    <3>3. Spares(x, phases', work', Exposed')
      BY <1>1, <1>2, <1>3, <1>4, <1>6, <3>2, SameTree DEF Spares
    <3> QED
      BY <1>2, <2>3, <3>3, OnlyOneSpares
  <2>4. \/ Leave(r, "closing") \/ Done(r)
        \/ run[r].outcome = "done" /\ run' = [run EXCEPT ![r] = x]
    BY DEF Record, PlanInv, TypeOK, recorded
  <2> QED
    BY <2>1, <2>2, <2>3, <2>4
<1> QED
  BY <1>1, <1>3, <1>5, <1>7, SameTree DEF UserInv

(* What is staged, committed or unstaged of the user's work is what the user  *)
(* had staged: the phase's own files are not among the exposed ones.          *)
LEMMA CommitSpares ==
  ASSUME PlanInv, UserInv, NEW r \in Run, Commit(r)
  PROVE  UserInv'
<1> DEFINE added == Added(run[r].set)
<1>1. run[r].at = "committing" /\ UNCHANGED <<work, user>> /\ Done(r)
      /\ (phases' = run[r].copy \/ UNCHANGED phases)
      /\ \/ index' = added /\ head' = added
         \/ index' \in {head, index, added} /\ UNCHANGED head
  BY DEF Commit, At
<1>2. Holding(r) /\ InOrder(run[r].copy) /\ NoFailure(run[r].copy) /\ run[r].set \cap Exposed = {}
      /\ NoFailure(phases)
  BY <1>1, CarryingFacts DEF InMemory, UserInv, AllSpare, Spares, Carrying
<1>3. Spares(Between("loop", run[r].count + 1, run[r].limit), phases', work', Exposed')
  BY BetweenSpares DEF InMemory
<1>4. AllSpare'
  BY <1>1, <1>2, <1>3, OnlyOneSpares DEF Done
<1>5. Nested'
  <2>1. precious \subseteq File /\ UNCHANGED <<work, precious, staged>>
    BY <1>1 DEF PlanInv, TypeOK, user
  <2>2. \A f \in File : added[f] = IF f \in run[r].set THEN work[f] ELSE index[f]
    BY DEF Added
  <2> HIDE DEF added
  <2>3. \A f \in File : /\ User \in index[f] => User \in added[f]
                        /\ User \in added[f] => User \in work[f]
    BY <2>2 DEF UserInv, Nested
  <2>4. \A f \in precious : User \in added[f] => f \in staged
    BY <1>2, <2>1, <2>2 DEF UserInv, Nested, Exposed
  <2> QED
    BY <1>1, <2>1, <2>3, <2>4 DEF UserInv, Nested
<1>6. InOrder(phases') /\ Reverts(phases', work', Exposed')
  BY <1>1, <1>2, NoFailureReverts DEF UserInv
<1> QED
  BY <1>4, <1>5, <1>6 DEF UserInv

(* The user changes a file that does not hold the user's work. *)
LEMMA UserEditSpares ==
  ASSUME PlanInv, UserInv, NEW f \in File, UserEdit(f)
  PROVE  UserInv'
<1>1. /\ User \notin work[f] /\ UNCHANGED <<phases, head, index, staged, run>>
      /\ precious' = IF Executing THEN precious ELSE precious \cup {f}
      /\ work' = [work EXCEPT ![f] = @ \cup {User}]
  BY DEF UserEdit, repo
<1>2. \A g \in File : work[g] \subseteq work'[g] /\ User \in work'[f]
  BY <1>1 DEF PlanInv, TypeOK
<1>3. precious \subseteq File /\ User \notin index[f]
  BY <1>1 DEF UserInv, Nested, PlanInv, TypeOK
<1>4. Nested'
  BY <1>1, <1>2, <1>3 DEF UserInv, Nested
<1>9. Exposed' \subseteq Exposed \cup {f}
  BY <1>1 DEF Exposed
<1>5. ASSUME NEW c \in PhasesFiles, Reverts(c, work, Exposed)
      PROVE  Reverts(c, work', Exposed')
  <2>1. \A p \in Phase : c.row[p].files \subseteq File
    BY <1>5 DEF PhasesFiles, Rows
  <2> QED
    BY <1>1, <1>2, <1>9, <1>5, <2>1 DEF Reverts
<1>6. ASSUME NEW q \in Run
      PROVE  Spares(run[q], phases, work', Exposed')
  <2>1. Spares(run[q], phases, work, Exposed)
    BY DEF UserInv, AllSpare
  <2>2. run[q].at \in Carrying => Exposed' = Exposed
    BY <1>1 DEF Executing, Carrying, InMemory, Exposed
  <2>3. run[q].at = "chosen" => Reverts(run[q].copy, work', Exposed')
    <3>1. run[q].copy \in PhasesFiles
      BY ValueTypes DEF PlanInv, Progress
    <3> QED
      BY <2>1, <3>1, <1>5 DEF Spares
  <2>4. run[q].at \in {"reverting", "committing", "fixing"} => run[q].at \in Carrying
    BY DEF Carrying, InMemory
  <2> QED
    BY <2>1, <2>2, <2>3, <2>4 DEF Spares
<1>7. Reverts(phases, work', Exposed') /\ InOrder(phases)
  BY <1>5 DEF UserInv, PlanInv, TypeOK
<1> QED
  BY <1>1, <1>4, <1>6, <1>7 DEF UserInv, AllSpare

(* The user stages a file: less is exposed. *)
LEMMA UserStageSpares ==
  ASSUME PlanInv, UserInv, NEW f \in File, UserStage(f)
  PROVE  UserInv'
<1>1. /\ UNCHANGED <<phases, head, work, precious, run>>
      /\ index' = [index EXCEPT ![f] = work[f]] /\ staged' = staged \cup {f}
  BY DEF UserStage
<1>2. /\ index'[f] = work[f] /\ \A g \in File \ {f} : index'[g] = index[g]
      /\ precious \subseteq File
  BY <1>1 DEF PlanInv, TypeOK
<1>3. Nested'
  BY <1>1, <1>2 DEF UserInv, Nested
<1>4. Exposed' \subseteq Exposed
  BY <1>1, <1>2 DEF UserInv, Nested, Exposed
<1>5. ASSUME NEW c, Reverts(c, work, Exposed)
      PROVE  Reverts(c, work', Exposed')
  BY <1>1, <1>4, <1>5 DEF Reverts
<1>6. ASSUME NEW q \in Run
      PROVE  Spares(run'[q], phases', work', Exposed')
  <2>1. Spares(run[q], phases, work, Exposed)
    BY DEF UserInv, AllSpare
  <2> QED
    BY <1>1, <1>4, <1>5, <2>1 DEF Spares
<1> QED
  BY <1>1, <1>3, <1>5, <1>6 DEF UserInv, AllSpare

LEMMA OutsideUserSpares ==
  ASSUME PlanInv, UserInv, Outside
  PROVE  UserInv'
<1>1. ASSUME UnderLock, InOrder(phases'), Reverts(phases', work, Exposed)
      PROVE  UserInv'
  <2>1. \A q \in Run : run'[q].at \notin InMemory
    BY <1>1, PlanAssumption DEF UnderLock, PlanInv, LockHeld, Holding
  <2>2. \A q \in Run : Spares(run'[q], phases', work', Exposed')
    BY <2>1, OutsideSpares
  <2>3. UNCHANGED tree
    BY <1>1 DEF UnderLock
  <2> QED
    BY <1>1, <2>2, <2>3, SameTree DEF UserInv, AllSpare
<1>2. CASE \/ \E status \in {"APPROVED", "CLOSED"} : SetStatus(status)
           \/ \E p \in Phase : EditPlan(p)
  <2>1. UNCHANGED <<phases, tree, run>>
    BY <1>2 DEF SetStatus, EditPlan
  <2> QED
    BY <2>1, SameTree DEF UserInv, AllSpare
<1>3. CASE Crash
  <2>1. /\ UNCHANGED <<phases, tree>>
        /\ \A q \in Run : run'[q].at \in {"idle", "over"}
    BY <1>3 DEF Crash, Idle, Over, Between
  <2>2. \A q \in Run : Spares(run'[q], phases', work', Exposed')
    BY <2>1, OutsideSpares DEF InMemory
  <2> QED
    BY <2>1, <2>2, SameTree DEF UserInv, AllSpare
<1>4. CASE Skip
  <2>1. InProgress \cup Failed \in SUBSET Phase /\ InProgress \cup Failed # {}
    BY <1>4 DEF Skip, InProgress, Failed
  <2>2. First(InProgress \cup Failed) \in InProgress \cup Failed
    BY <2>1, FirstIsLeast
  <2>3. \A p \in Phase : p < First(InProgress \cup Failed) => Status(p) \in Terminal
    BY <2>2 DEF UserInv, InOrder, InProgress, Failed, Status
  <2>4. /\ InOrder(Skipped({First(InProgress \cup Failed)}))
        /\ Reverts(Skipped({First(InProgress \cup Failed)}), work, Exposed)
    BY <2>1, <2>2, <2>3, SkippedInOrder DEF UserInv, PlanInv
  <2> QED
    BY <1>1, <1>4, <2>4 DEF Skip
<1>5. ASSUME NEW p \in Phase, SkipTo(p)
      PROVE  UserInv'
  <2> DEFINE S == {q \in 1..(p - 1) : Status(q) \notin Terminal}
  <2>1. \A q \in S : q \in Phase /\ \A d \in Phase : d < q => d \in S \/ Status(d) \in Terminal
    BY PlanAssumption DEF Phase
  <2>2. UnderLock /\ phases' = Skipped(S)
    BY <1>5 DEF SkipTo
  <2> HIDE DEF S
  <2>3. InOrder(Skipped(S)) /\ Reverts(Skipped(S), work, Exposed)
    BY <2>1, SkippedInOrder DEF UserInv, PlanInv
  <2> QED
    BY <1>1, <2>2, <2>3
<1>6. CASE \E keepDone \in BOOLEAN : Regenerate(keepDone)
  <2>1. UnderLock /\ InOrder(phases') /\ NoFailure(phases')
    BY <1>6, FreshInOrder, KeptInOrder DEF Regenerate, PlanInv
  <2> QED
    BY <2>1, <1>1, NoFailureReverts
<1> QED
  BY <1>2, <1>3, <1>4, <1>5, <1>6, UserEditSpares, UserStageSpares DEF Outside

LEMMA UserStep ==
  ASSUME PlanInv, UserInv, [Next]_vars
  PROVE  UserInv'
<1>1. ASSUME NEW r \in Run, Call(r) \/ RunStep(r)
      PROVE  UserInv'
  BY <1>1, CallSpares, ChooseSpares, MarkSpares, CarryOutSpares, ThrowSpares, RecordSpares, CommitSpares
     DEF RunStep
<1>2. CASE UNCHANGED vars
  <2>1. UNCHANGED <<phases, run, tree>>
    BY <1>2 DEF vars
  <2> QED
    BY <2>1, SameTree DEF UserInv, AllSpare
<1> QED
  BY <1>1, <1>2, OutsideUserSpares DEF Next, AtRest

LEMMA InitUser == Init => UserInv
<1> SUFFICES ASSUME Init PROVE UserInv
  OBVIOUS
<1>1. phases = NoPhases /\ \A p \in Phase : NoPhases.row[p].status = "pending"
  BY DEF Init, NoPhases, Pending
<1>2. InOrder(phases) /\ NoFailure(phases)
  BY <1>1 DEF InOrder, NoFailure
<1>3. \A r \in Run : Spares(run[r], phases, work, Exposed)
  BY BetweenSpares DEF Init, Idle, InMemory
<1>4. Nested
  BY DEF Init, Nested, Nothing
<1> QED
  BY <1>2, <1>3, <1>4, NoFailureReverts DEF UserInv, AllSpare

(* What the user changes between phases stays in the working tree, and is    *)
(* committed with a phase only where the user had staged it.                 *)
THEOREM UserWorkStands == Spec => []UserWorkKept
<1>1. Init => UserInv
  BY InitUser
<1>2. PlanInv /\ UserInv /\ [Next]_vars => UserInv'
  BY UserStep
<1>3. PlanInv /\ UserInv => UserWorkKept
  BY DEF UserInv, Nested, UserWorkKept, PlanInv, TypeOK
<1> QED
  BY <1>1, <1>2, <1>3, PlanInvariant, PTL DEF Spec
=============================================================================
