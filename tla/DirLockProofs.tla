--------------------------- MODULE DirLockProofs ---------------------------
(***************************************************************************)
(* For any processes, callers and pids: as long as no takeover removed a    *)
(* directory it had not found stale, whoever is between its mkdir and the   *)
(* end of its release owns the directory at the path, so that there is one  *)
(* holder at most.  The argument: a caller that takes over either saw no    *)
(* metadata, and then the maker is not engaged, or saw the maker's, judged  *)
(* it dead, and the dead do not come back.                                  *)
(***************************************************************************)
EXTENDS DirLock, TLAPS

TakesOver(c) == pc[c] \in {"rmEntries", "rmDir"}

(* Whose metadata is on disk or was read has been started. *)
Known ==
  /\ meta # NoCaller => life[ProcOf[meta]] # "new"
  /\ \A c \in Caller : seen[c] # NoCaller => life[ProcOf[seen[c]]] # "new"

(* What a caller that inspected the lock may conclude. *)
Judged ==
  /\ \A c \in Caller : pc[c] = "checkAge" => seen[c] = NoCaller
  /\ \A c \in Caller : TakesOver(c) /\ seen[c] # NoCaller => ~Up(ProcOf[seen[c]])

(* The directory at the path is its maker's. *)
Owned ==
  /\ \A c \in Caller : Engaged(c) => exists /\ maker = c
  /\ \A c \in Caller : pc[c] \in {"held", "relEntries"} => meta = c
  /\ meta # NoCaller => meta = maker
  /\ \A c \in Caller : c \in sameDir /\ seen[c] # NoCaller /\ (TakesOver(c) \/ pc[c] = "judge")
                         => seen[c] = maker

LockInv ==
  /\ TypeOK /\ Known /\ Judged
  /\ ~exists => sameDir = {}
  /\ ~misjudged => Owned

-----------------------------------------------------------------------------
LEMMA InitLock == Init => LockInv
<1> SUFFICES ASSUME Init PROVE LockInv
  OBVIOUS
<1>1. \A c \in Caller : pc[c] = "idle" /\ seen[c] = NoCaller
  BY DEF Init
<1>2. TypeOK
  <2>1. pc \in [Caller -> Steps] /\ life \in [Process -> {"new", "up", "gone"}]
    BY DEF Init, Steps
  <2> QED
    BY <1>1, <2>1 DEF Init, TypeOK
<1> QED
  BY <1>1, <1>2 DEF Init, LockInv, Known, Judged, Owned, Engaged, TakesOver

LEMMA ProcessTypes ==
  ASSUME TypeOK, Age \/ AllGone \/ \E p \in Process : Boot(p) \/ Crash(p)
  PROVE  TypeOK'
<1>1. CASE Age \/ AllGone
  <2>1. UNCHANGED <<life, pc, seen, exists, meta, tmps, maker, sameDir, misjudged>> /\ young' \in BOOLEAN
    BY <1>1 DEF Age, AllGone, TypeOK, history, vars
  <2> QED
    BY <2>1 DEF TypeOK, Up
<1>2. CASE \E p \in Process : Boot(p)
  BY <1>2 DEF Boot, TypeOK, disk, history, Up
<1>3. CASE \E p \in Process : Crash(p)
  <2>1. PICK p \in Process : Crash(p)
    BY <1>3
  <2>2. life' \in [Process -> {"new", "up", "gone"}] /\ pc' \in [Caller -> Steps]
    BY <2>1 DEF Crash, TypeOK, Steps
  <2>3. \A c \in Caller : pc'[c] # "idle" => life'[ProcOf[c]] = "up" /\ pc'[c] = pc[c]
    BY <2>1, ProcOfAssumption DEF Crash, TypeOK, Up
  <2> QED
    BY <2>1, <2>2, <2>3 DEF Crash, TypeOK, disk, history, Up
<1> QED
  BY <1>1, <1>2, <1>3

(* A caller moves on; its process is up. *)
LEMMA GotoTypes ==
  ASSUME TypeOK, NEW c \in Caller, Up(ProcOf[c]), NEW step \in Steps, Goto(c, step), UNCHANGED life,
         step = "judge" => seen'[c] # NoCaller,
         \A d \in Caller \ {c} : seen'[d] = seen[d]
  PROVE  /\ pc' \in [Caller -> Steps]
         /\ \A d \in Caller : pc'[d] # "idle" => Up(ProcOf[d])'
         /\ \A d \in Caller : pc'[d] = "judge" => seen'[d] # NoCaller
  BY DEF Goto, TypeOK, Up

LEMMA StepTypes ==
  ASSUME TypeOK, NEW c \in Caller, AcquireStep(c) \/ ReleaseStep(c)
  PROVE  TypeOK'
<1> USE DEF At, Throw
<1>1. CASE Mkdir(c) \/ MkdirAgain(c)
  <2>1. PICK step \in {"readMeta", "write", "idle"} : Goto(c, step)
    BY <1>1 DEF Mkdir, MkdirAgain
  <2>2. UNCHANGED <<life, seen>> /\ Up(ProcOf[c]) /\ ((UNCHANGED <<disk, history>>) \/ MakeDirectory(c))
    BY <1>1 DEF Mkdir, MkdirAgain
  <2>3. /\ pc' \in [Caller -> Steps]
        /\ \A d \in Caller : pc'[d] # "idle" => Up(ProcOf[d])'
        /\ \A d \in Caller : pc'[d] = "judge" => seen'[d] # NoCaller
    BY <2>1, <2>2, GotoTypes DEF Steps
  <2>4. CASE UNCHANGED <<disk, history>>
    BY <2>2, <2>3, <2>4 DEF TypeOK, disk, history
  <2>5. CASE MakeDirectory(c)
    <3>1. exists' = TRUE /\ young' = TRUE /\ misjudged' = misjudged
      BY <2>5 DEF MakeDirectory
    <3>2. meta' = NoCaller /\ tmps' = {} /\ maker' = c /\ sameDir' = sameDir /\ c # NoCaller
      BY <2>5, NoCallerAssumption DEF MakeDirectory
    <3> QED
      BY <2>2, <2>3, <3>1, <3>2 DEF TypeOK
  <2> QED
    BY <2>2, <2>4, <2>5
<1>2. CASE WriteTmp(c) \/ Rename(c)
  <2>1. PICK step \in {"rename", "held", "idle"} : Goto(c, step)
    BY <1>2 DEF WriteTmp, Rename
  <2>2. UNCHANGED <<life, seen, exists, history>> /\ Up(ProcOf[c])
    BY <1>2 DEF WriteTmp, Rename
  <2>3. /\ pc' \in [Caller -> Steps]
        /\ \A d \in Caller : pc'[d] # "idle" => Up(ProcOf[d])'
        /\ \A d \in Caller : pc'[d] = "judge" => seen'[d] # NoCaller
    BY <2>1, <2>2, GotoTypes DEF Steps
  <2>4. /\ meta' \in Caller \cup {NoCaller} /\ tmps' \subseteq {PidOf[p] : p \in Process}
        /\ young' \in BOOLEAN /\ (~exists => meta' = NoCaller /\ tmps' = {})
    BY <1>2, ProcOfAssumption DEF WriteTmp, Rename, TypeOK
  <2> QED
    BY <2>2, <2>3, <2>4 DEF TypeOK, history
<1>3. CASE ReadMeta(c) \/ CheckAge(c) \/ Judge(c) \/ Release(c)
  <2>1. PICK step \in {"checkAge", "judge", "rmEntries", "idle", "relEntries"} :
          Goto(c, step) /\ (step = "judge" => seen'[c] # NoCaller)
    BY <1>3 DEF ReadMeta, CheckAge, Judge, Release, TypeOK
  <2>2. UNCHANGED <<life, disk, maker, misjudged>> /\ Up(ProcOf[c]) /\ sameDir' \subseteq Caller
    BY <1>3 DEF ReadMeta, CheckAge, Judge, Release, Inspected, TypeOK, history
  <2>3. seen' \in [Caller -> Caller \cup {NoCaller}] /\ \A d \in Caller \ {c} : seen'[d] = seen[d]
    BY <1>3 DEF ReadMeta, CheckAge, Judge, Release, TypeOK
  <2>4. /\ pc' \in [Caller -> Steps]
        /\ \A d \in Caller : pc'[d] # "idle" => Up(ProcOf[d])'
        /\ \A d \in Caller : pc'[d] = "judge" => seen'[d] # NoCaller
    BY <2>1, <2>2, <2>3, GotoTypes DEF Steps
  <2> QED
    BY <2>2, <2>3, <2>4 DEF TypeOK, disk
<1>4. CASE RemoveEntries(c) \/ RemoveDirectory(c) \/ ReleaseEntries(c) \/ ReleaseDirectory(c)
  <2>1. PICK step \in {"rmDir", "mkdir2", "idle", "relDir"} : Goto(c, step)
    BY <1>4 DEF RemoveEntries, RemoveDirectory, ReleaseEntries, ReleaseDirectory
  <2>2. UNCHANGED <<life, seen, maker>> /\ Up(ProcOf[c]) /\ sameDir' \subseteq Caller
    BY <1>4 DEF RemoveEntries, RemoveDirectory, ReleaseEntries, ReleaseDirectory, TypeOK, history
  <2>3. /\ pc' \in [Caller -> Steps]
        /\ \A d \in Caller : pc'[d] # "idle" => Up(ProcOf[d])'
        /\ \A d \in Caller : pc'[d] = "judge" => seen'[d] # NoCaller
    BY <2>1, <2>2, GotoTypes DEF Steps
  <2>4. /\ meta' \in Caller \cup {NoCaller} /\ tmps' \subseteq {PidOf[p] : p \in Process}
        /\ young' \in BOOLEAN /\ exists' \in BOOLEAN
    BY <1>4 DEF RemoveEntries, RemoveDirectory, ReleaseEntries, ReleaseDirectory, EmptyDirectory,
                TypeOK, Removable
  <2>5. (exists' => exists) /\ (~exists' => meta' = NoCaller /\ tmps' = {})
    <3>1. CASE RemoveEntries(c) \/ ReleaseEntries(c)
      <4>1. exists' = exists
        BY <3>1 DEF RemoveEntries, ReleaseEntries, EmptyDirectory
      <4>2. meta' = NoCaller /\ tmps' = {}
        BY <3>1 DEF RemoveEntries, ReleaseEntries, EmptyDirectory
      <4> QED
        BY <4>1, <4>2
    <3>2. CASE RemoveDirectory(c) \/ ReleaseDirectory(c)
      <4>1. exists' = (exists /\ ~Removable) /\ meta' = meta /\ tmps' = tmps
        BY <3>2 DEF RemoveDirectory, ReleaseDirectory
      <4>2. ~exists => meta = NoCaller /\ tmps = {}
        BY DEF TypeOK
      <4> QED
        BY <4>1, <4>2 DEF Removable
    <3> QED
      BY <1>4, <3>1, <3>2
  <2>6. misjudged' \in BOOLEAN
    BY <1>4 DEF RemoveEntries, RemoveDirectory, ReleaseEntries, ReleaseDirectory, TypeOK, history
  <2> QED
    BY <2>2, <2>3, <2>4, <2>5, <2>6 DEF TypeOK
<1> QED
  BY <1>1, <1>2, <1>3, <1>4 DEF AcquireStep, ReleaseStep
-----------------------------------------------------------------------------
LEMMA UpIsInUse ==
  ASSUME NEW c \in Caller, ~OwnerAlive(ProcOf[c])
  PROVE  ~Up(ProcOf[c])
  BY ProcOfAssumption DEF OwnerAlive, PidInUse

LEMMA ProcessStep ==
  ASSUME LockInv, Age \/ AllGone \/ \E p \in Process : Boot(p) \/ Crash(p)
  PROVE  LockInv'
<1>1. TypeOK'
  BY ProcessTypes DEF LockInv
<1>2. CASE Age \/ AllGone
  <2>1. UNCHANGED <<life, pc, seen, exists, meta, tmps, maker, sameDir, misjudged>>
    BY <1>2 DEF Age, AllGone, history, vars
  <2> QED
    BY <1>1, <2>1 DEF LockInv, Known, Judged, Owned, Engaged, TakesOver, Up
<1>3. CASE \E p \in Process : Boot(p)
  <2>1. PICK p \in Process : Boot(p)
    BY <1>3
  <2>2. UNCHANGED <<pc, seen, exists, meta, tmps, maker, sameDir, misjudged>>
    BY <2>1 DEF Boot, disk, history
  <2>3. \A q \in Process : life[q] # "new" => life'[q] = life[q]
    BY <2>1 DEF Boot, LockInv, TypeOK
  <2>4. Known' /\ Judged'
    BY <2>2, <2>3, ProcOfAssumption DEF LockInv, Known, Judged, TakesOver, TypeOK, Up
  <2> QED
    BY <1>1, <2>2, <2>4 DEF LockInv, Owned, Engaged, TakesOver
<1>4. CASE \E p \in Process : Crash(p)
  <2>1. PICK p \in Process : Crash(p)
    BY <1>4
  <2>2. UNCHANGED <<seen, exists, meta, tmps, maker, sameDir, misjudged>>
    BY <2>1 DEF Crash, disk, history
  <2>3. \A q \in Process : (life'[q] = life[q] \/ life'[q] = "gone")
    BY <2>1 DEF Crash, LockInv, TypeOK
  <2>4. \A c \in Caller : pc'[c] = "idle" \/ pc'[c] = pc[c]
    BY <2>1 DEF Crash, LockInv, TypeOK
  <2>5. Known' /\ Judged'
    BY <2>2, <2>3, <2>4, ProcOfAssumption DEF LockInv, Known, Judged, TakesOver, TypeOK, Up
  <2> QED
    BY <1>1, <2>2, <2>4, <2>5 DEF LockInv, Owned, Engaged, TakesOver
<1> QED
  BY <1>2, <1>3, <1>4

(* A takeover that errs not removes a directory whose maker is done with it. *)
LEMMA TakeoverOfStale ==
  ASSUME LockInv, ~misjudged, NEW c \in Caller, TakesOver(c), exists, ~Misjudges(c)
  PROVE  \A d \in Caller : ~Engaged(d)
<1>1. c \in sameDir /\ ~(seen[c] = NoCaller /\ Engaged(maker))
  BY DEF Misjudges
<1>2. ASSUME NEW d \in Caller, Engaged(d)
      PROVE  FALSE
  <2>1. maker = d
    BY <1>2 DEF LockInv, Owned
  <2>2. seen[c] # NoCaller
    BY <1>1, <1>2, <2>1
  <2>3. seen[c] = d
    BY <1>1, <2>1, <2>2 DEF LockInv, Owned
  <2>4. ~Up(ProcOf[d])
    BY <2>2, <2>3 DEF LockInv, Judged
  <2> QED
    BY <1>2, <2>4 DEF LockInv, TypeOK, Engaged
<1> QED
  BY <1>2

LEMMA MakeStep ==
  ASSUME LockInv, NEW c \in Caller, Mkdir(c) \/ MkdirAgain(c)
  PROVE  LockInv'
<1>1. TypeOK'
  BY StepTypes DEF LockInv, AcquireStep
<1>2. UNCHANGED <<life, seen>> /\ \A d \in Caller \ {c} : pc'[d] = pc[d]
  BY DEF Mkdir, MkdirAgain, Goto, Throw, LockInv, TypeOK
<1>3. CASE ~exists /\ MakeDirectory(c) /\ pc'[c] = "write"
  <2>1. exists' = TRUE /\ maker' = c /\ meta' = NoCaller /\ UNCHANGED <<sameDir, misjudged>>
    BY <1>3 DEF MakeDirectory
  <2>2. sameDir = {}
    BY <1>3 DEF LockInv
  <2>3. ~misjudged => \A d \in Caller : ~Engaged(d)
    BY <1>3 DEF LockInv, Owned
  <2>4. Known' /\ Judged'
    BY <1>2, <1>3, <2>1 DEF LockInv, Known, Judged, TakesOver, Up
  <2>5. ~misjudged => Owned'
    BY <1>2, <1>3, <2>1, <2>2, <2>3 DEF Owned, Engaged
  <2> QED
    BY <1>1, <2>1, <2>4, <2>5 DEF LockInv
<1>4. CASE UNCHANGED <<disk, history>> /\ pc'[c] \in {"readMeta", "idle"}
  <2>1. UNCHANGED <<exists, meta, maker, sameDir, misjudged>>
    BY <1>4 DEF disk, history
  <2>2. Known' /\ Judged'
    BY <1>2, <1>4, <2>1 DEF LockInv, Known, Judged, TakesOver, Up
  <2>3. Owned => Owned'
    BY <1>2, <1>4, <2>1 DEF Owned, Engaged, TakesOver
  <2> QED
    BY <1>1, <2>1, <2>2, <2>3 DEF LockInv
<1> QED
  BY <1>3, <1>4 DEF Mkdir, MkdirAgain, Goto, Throw, LockInv, TypeOK

LEMMA WriteStep ==
  ASSUME LockInv, NEW c \in Caller, WriteTmp(c) \/ Rename(c)
  PROVE  LockInv'
<1>1. TypeOK'
  BY StepTypes DEF LockInv, AcquireStep
<1>2. UNCHANGED <<life, seen, exists, maker, sameDir, misjudged>> /\ \A d \in Caller \ {c} : pc'[d] = pc[d]
  BY DEF WriteTmp, Rename, Goto, Throw, LockInv, TypeOK, history
<1>3. \/ pc'[c] \in {"rename", "idle"} /\ meta' = meta
      \/ pc'[c] = "held" /\ meta' = c
  BY DEF WriteTmp, Rename, Goto, Throw, LockInv, TypeOK
<1>4. Engaged(c) /\ pc[c] \notin {"held", "relEntries"} /\ Up(ProcOf[c])
  BY DEF WriteTmp, Rename, At, Engaged
<1>5. Known' /\ Judged'
  BY <1>2, <1>3, <1>4, NoCallerAssumption DEF LockInv, Known, Judged, TakesOver, Up
<1>6. Owned => Owned'
  <2> SUFFICES ASSUME Owned PROVE Owned'
    OBVIOUS
  <2>1. exists /\ maker = c /\ \A d \in Caller : Engaged(d) => d = c
    BY <1>4 DEF Owned
  <2>2. \A d \in Caller \ {c} : ~Engaged(d) /\ ~Engaged(d)'
    BY <1>2, <2>1 DEF Engaged
  <2> QED
    BY <1>2, <1>3, <2>1, <2>2 DEF Owned, Engaged, TakesOver
<1> QED
  BY <1>1, <1>2, <1>5, <1>6 DEF LockInv

LEMMA LookStep ==
  ASSUME LockInv, NEW c \in Caller, ReadMeta(c) \/ CheckAge(c) \/ Judge(c)
  PROVE  LockInv'
<1>1. TypeOK'
  BY StepTypes DEF LockInv, AcquireStep
<1>2. UNCHANGED <<life, exists, meta, maker, misjudged>>
      /\ \A d \in Caller \ {c} : pc'[d] = pc[d] /\ seen'[d] = seen[d] /\ (d \in sameDir' <=> d \in sameDir)
  BY DEF ReadMeta, CheckAge, Judge, Goto, Throw, LockInv, TypeOK, disk, history, Inspected
<1>3. pc[c] \in {"readMeta", "checkAge", "judge"} /\ ~Engaged(c)
  BY DEF ReadMeta, CheckAge, Judge, At, Engaged
<1>4. pc'[c] \in {"checkAge", "judge", "rmEntries", "idle"} /\ ~Engaged(c)'
  BY DEF ReadMeta, CheckAge, Judge, Goto, Throw, LockInv, TypeOK, Engaged
<1>5. \/ pc'[c] \in {"checkAge", "judge"} /\ seen'[c] = meta /\ (pc'[c] = "checkAge" => meta = NoCaller)
      \/ pc'[c] \in {"rmEntries", "idle"} /\ seen'[c] = seen[c]
  BY DEF ReadMeta, CheckAge, Judge, Goto, Throw, LockInv, TypeOK
<1>6. ~exists => sameDir' = {}
  BY DEF ReadMeta, CheckAge, Judge, Inspected, LockInv, history
<1>7. pc'[c] = "rmEntries" /\ seen'[c] # NoCaller
        => /\ pc[c] = "judge" /\ seen'[c] = seen[c] /\ sameDir' = sameDir
           /\ ~Up(ProcOf[seen[c]])
  <2>1. ASSUME pc'[c] = "rmEntries", seen'[c] # NoCaller
        PROVE  Judge(c)
    <3>1. ~ReadMeta(c)
      BY <2>1 DEF ReadMeta, Goto, LockInv, TypeOK
    <3>2. ~CheckAge(c)
      BY <2>1 DEF CheckAge, At, LockInv, Judged
    <3> QED
      BY <3>1, <3>2
  <2>2. ASSUME Judge(c), pc'[c] = "rmEntries"
        PROVE  ~OwnerAlive(ProcOf[seen[c]]) /\ pc[c] = "judge" /\ UNCHANGED <<seen, sameDir>>
    BY <2>2 DEF Judge, At, Goto, Throw, LockInv, TypeOK, history
  <2>3. seen[c] # NoCaller /\ ~OwnerAlive(ProcOf[seen[c]]) => ~Up(ProcOf[seen[c]])
    BY UpIsInUse DEF LockInv, TypeOK
  <2> QED
    BY <2>1, <2>2, <2>3
<1>8. Known'
  BY <1>2, <1>5 DEF LockInv, Known
<1>9. Judged'
  BY <1>2, <1>4, <1>5, <1>7 DEF LockInv, Judged, TakesOver, Up
<1>10. ~misjudged => Owned'
  <2> SUFFICES ASSUME ~misjudged, Owned PROVE Owned'
    BY DEF LockInv
  <2>1. \A d \in Caller : Engaged(d)' => Engaged(d) /\ pc'[d] = pc[d]
    BY <1>2, <1>4 DEF Engaged
  <2>2. c \in sameDir' /\ seen'[c] # NoCaller /\ (TakesOver(c)' \/ pc'[c] = "judge") => seen'[c] = maker'
    BY <1>2, <1>4, <1>5, <1>7 DEF Owned, TakesOver
  <2> QED
    BY <1>2, <1>4, <2>1, <2>2 DEF Owned, TakesOver, Engaged
<1> QED
  BY <1>1, <1>2, <1>6, <1>8, <1>9, <1>10 DEF LockInv

LEMMA RemoveStep ==
  ASSUME LockInv, NEW c \in Caller, RemoveEntries(c) \/ RemoveDirectory(c)
  PROVE  LockInv'
<1>1. TypeOK'
  BY StepTypes DEF LockInv, AcquireStep
<1>2. UNCHANGED <<life, seen, maker>> /\ \A d \in Caller \ {c} : pc'[d] = pc[d]
  BY DEF RemoveEntries, RemoveDirectory, Goto, Throw, LockInv, TypeOK
<1>3. TakesOver(c) /\ pc'[c] \in {"rmDir", "idle", "mkdir2"} /\ (pc'[c] = "rmDir" => UNCHANGED sameDir)
  BY DEF RemoveEntries, RemoveDirectory, TakesOver, At, Goto, Throw, LockInv, TypeOK, history
<1>4. /\ (exists' => exists) /\ (exists' => sameDir' = sameDir)
      /\ (~exists' => sameDir' = {})
      /\ (meta' = meta \/ meta' = NoCaller)
  <2>1. CASE RemoveEntries(c)
    <3>1. exists' = exists
      BY <2>1 DEF RemoveEntries, EmptyDirectory
    <3>2. sameDir' = sameDir /\ meta' = NoCaller
      BY <2>1 DEF RemoveEntries, EmptyDirectory
    <3> QED
      BY <3>1, <3>2 DEF LockInv
  <2>2. CASE RemoveDirectory(c)
    <3>1. exists' = (exists /\ ~Removable)
      BY <2>2 DEF RemoveDirectory
    <3>2. meta' = meta /\ sameDir' = IF exists' THEN sameDir ELSE {}
      BY <2>2 DEF RemoveDirectory
    <3> QED
      BY <3>1, <3>2
  <2> QED
    BY <2>1, <2>2
<1>5. Known' /\ Judged'
  BY <1>2, <1>3, <1>4 DEF LockInv, Known, Judged, TakesOver, Up
<1>6. ~misjudged' => ~misjudged /\ (UNCHANGED <<exists, meta>> \/ ~exists \/ ~Misjudges(c))
  BY DEF RemoveEntries, RemoveDirectory, Removable
<1>7. ~misjudged' => Owned'
  <2> SUFFICES ASSUME ~misjudged' PROVE Owned'
    OBVIOUS
  <2>1. Owned
    BY <1>6 DEF LockInv
  <2>2. CASE UNCHANGED <<exists, meta>>
    BY <1>2, <1>3, <1>4, <2>1, <2>2 DEF Owned, Engaged, TakesOver
  <2>3. CASE \A d \in Caller : ~Engaged(d)
    BY <1>2, <1>3, <1>4, <2>1, <2>3 DEF Owned, Engaged, TakesOver
  <2> QED
    BY <1>3, <1>6, <2>1, <2>2, <2>3, TakeoverOfStale DEF Owned
<1> QED
  BY <1>1, <1>4, <1>5, <1>7 DEF LockInv

LEMMA ReleaseLockStep ==
  ASSUME LockInv, NEW c \in Caller, ReleaseStep(c)
  PROVE  LockInv'
<1>1. TypeOK'
  BY StepTypes DEF LockInv
<1>2. UNCHANGED <<life, seen, maker, misjudged>> /\ \A d \in Caller \ {c} : pc'[d] = pc[d]
  BY DEF ReleaseStep, Release, ReleaseEntries, ReleaseDirectory, Goto, LockInv, TypeOK, history
<1>3. Engaged(c) /\ pc'[c] \in {"relEntries", "relDir", "idle"}
  BY DEF ReleaseStep, Release, ReleaseEntries, ReleaseDirectory, Engaged, At, Goto, LockInv, TypeOK
<1>4. /\ (exists' => exists) /\ (exists' => sameDir' = sameDir)
      /\ (~exists' => sameDir' = {})
      /\ (meta' = meta \/ meta' = NoCaller)
      /\ (pc'[c] # "idle" => (exists' <=> exists))
      /\ (pc'[c] = "relEntries" => meta' = c)
  <2>1. CASE Release(c)
    <3>1. UNCHANGED <<exists, meta, sameDir>> /\ (pc'[c] = "relEntries" => meta = c)
      BY <2>1 DEF Release, Goto, disk, history, LockInv, TypeOK
    <3> QED
      BY <3>1 DEF LockInv
  <2>2. CASE ReleaseEntries(c)
    <3>1. exists' = exists
      BY <2>2 DEF ReleaseEntries, EmptyDirectory
    <3>2. sameDir' = sameDir /\ meta' = NoCaller /\ pc'[c] = "relDir"
      BY <2>2 DEF ReleaseEntries, EmptyDirectory, history, Goto, LockInv, TypeOK
    <3> QED
      BY <3>1, <3>2 DEF LockInv
  <2>3. CASE ReleaseDirectory(c)
    <3>1. exists' = (exists /\ ~Removable)
      BY <2>3 DEF ReleaseDirectory
    <3>2. meta' = meta /\ pc'[c] = "idle" /\ sameDir' = IF exists' THEN sameDir ELSE {}
      BY <2>3 DEF ReleaseDirectory, Goto, LockInv, TypeOK
    <3> QED
      BY <3>1, <3>2
  <2> QED
    BY <2>1, <2>2, <2>3 DEF ReleaseStep
<1>5. Known' /\ Judged'
  BY <1>2, <1>3, <1>4 DEF LockInv, Known, Judged, TakesOver, Up
<1>6. Owned => Owned'
  <2> SUFFICES ASSUME Owned PROVE Owned'
    OBVIOUS
  <2>1. exists /\ maker = c
    BY <1>3 DEF Owned
  <2>2. \A d \in Caller \ {c} : ~Engaged(d) /\ ~Engaged(d)'
    BY <1>2, <2>1 DEF Owned, Engaged
  <2> QED
    BY <1>2, <1>3, <1>4, <2>1, <2>2 DEF Owned, Engaged, TakesOver
<1> QED
  BY <1>1, <1>2, <1>4, <1>5, <1>6 DEF LockInv

THEOREM LockInvariant == Spec => []LockInv
<1>1. LockInv /\ [Next]_vars => LockInv'
  <2> SUFFICES ASSUME LockInv, [Next]_vars PROVE LockInv'
    OBVIOUS
  <2>1. CASE UNCHANGED vars
    BY <2>1, ProcessStep DEF AllGone, vars, LockInv, TypeOK, Known, Judged, Owned, Engaged, TakesOver, Up
  <2>2. CASE \E c \in Caller : AcquireStep(c) \/ ReleaseStep(c)
    BY <2>2, MakeStep, WriteStep, LookStep, RemoveStep, ReleaseLockStep DEF AcquireStep
  <2> QED
    BY <2>1, <2>2, ProcessStep DEF Next
<1> QED
  BY <1>1, InitLock, PTL DEF Spec

(* The state keeps its shape, and a stopped process has no caller in progress. *)
THEOREM TypeCorrect == Spec => []TypeOK
<1>1. LockInv => TypeOK
  BY DEF LockInv
<1> QED
  BY <1>1, LockInvariant, PTL

(* Crashes at any step, reused pids and rivals alone never let a second      *)
(* caller in: that needs a takeover of a directory that was not stale.       *)
THEOREM OneHolderUnlessMisjudged == Spec => []ExclusiveUnlessMisjudged
<1>1. LockInv => ExclusiveUnlessMisjudged
  BY DEF LockInv, Owned, Engaged, ExclusiveUnlessMisjudged, MutualExclusion, Holders
<1> QED
  BY <1>1, LockInvariant, PTL

(* Until then a holder's token is on disk, in the directory it made, until   *)
(* it releases.                                                              *)
THEOREM TokenOnDisk == Spec => []HeldIsOnDisk
<1>1. LockInv => HeldIsOnDisk
  BY DEF LockInv, Owned, Engaged, HeldIsOnDisk, Holders
<1> QED
  BY <1>1, LockInvariant, PTL
=============================================================================
