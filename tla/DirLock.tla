------------------------------ MODULE DirLock ------------------------------
(***************************************************************************)
(* The directory lock of src/src/cron/job-lock.ts (acquireCronLock,         *)
(* releaseCronLock) and of src/src/pidlock.ts (acquirePidLock,              *)
(* releasePidLock): one lock path on a file system shared by processes that *)
(* can die at any step.  Each action is one file-system call with the code  *)
(* that follows it up to the next await.  `fs.rm(dir, {recursive})` is two  *)
(* calls: the entries are unlinked, then the directory is removed, which    *)
(* fails when an entry appeared in between.                                 *)
(***************************************************************************)
EXTENDS FiniteSets

CONSTANTS
  Process,     \* incarnations of the program: one that died never comes back
  Caller,      \* call sites that acquire and release the lock, again and again
  ProcOf,      \* the process each caller runs in
  PidOf,       \* the pid of each process: two processes may get the same one
  StartKnown,  \* /proc/<pid>/stat gives the start time of a process (Linux)
  MayStall,    \* a live process may stall longer than GRACE_PERIOD_MS in writeMeta
  NoCaller     \* no meta.json, or nobody

ASSUME ProcOfAssumption == ProcOf \in [Caller -> Process]
ASSUME StartKnownAssumption == StartKnown \in BOOLEAN
ASSUME MayStallAssumption == MayStall \in BOOLEAN
ASSUME NoCallerAssumption == NoCaller \notin Caller

VARIABLES
  life,     \* per process: not started, running, gone
  pc,       \* per caller: where it is in acquire or release
  seen,     \* per caller: whose meta.json it read
  exists,   \* the lock directory exists
  meta,     \* the caller whose token is in meta.json, NoCaller when there is none
  tmps,     \* the pids with a meta.json.tmp.<pid> in the directory
  young,    \* the mtime of the directory is less than GRACE_PERIOD_MS ago
  maker,    \* history: the caller whose mkdir made the directory
  sameDir,  \* history: callers that inspected the very directory now on disk
  misjudged \* history: a takeover removed a directory it had not found stale

disk == <<exists, meta, tmps, young>>
history == <<maker, sameDir, misjudged>>
vars == <<life, pc, seen, exists, meta, tmps, young, maker, sameDir, misjudged>>

Steps ==
  {"idle", "write", "rename", "readMeta", "checkAge", "judge", "rmEntries", "rmDir",
   "mkdir2", "held", "relEntries", "relDir"}

(* Callers whose mkdir succeeded and that have not finished with the lock. *)
Engaged(c) == pc[c] \in {"write", "rename", "held", "relEntries", "relDir"}

Init ==
  /\ life = [p \in Process |-> "new"]
  /\ pc = [c \in Caller |-> "idle"]
  /\ seen = [c \in Caller |-> NoCaller]
  /\ exists = FALSE
  /\ meta = NoCaller
  /\ tmps = {}
  /\ young = FALSE
  /\ maker = NoCaller
  /\ sameDir = {}
  /\ misjudged = FALSE

Up(p) == life[p] = "up"
At(c, step) == Up(ProcOf[c]) /\ pc[c] = step
Goto(c, step) == pc' = [pc EXCEPT ![c] = step]

(* The error the code throws ends the attempt: the caller may try again. *)
Throw(c) == Goto(c, "idle")

-----------------------------------------------------------------------------
(* Processes. *)

PidInUse(pid) == \E p \in Process : Up(p) /\ PidOf[p] = pid

Boot(p) ==
  /\ life[p] = "new"
  /\ ~PidInUse(PidOf[p])
  /\ life' = [life EXCEPT ![p] = "up"]
  /\ UNCHANGED <<pc, seen, disk, history>>

(* The process dies: its callers stop where they are, the disk stays. *)
Crash(p) ==
  /\ Up(p)
  /\ life' = [life EXCEPT ![p] = "gone"]
  /\ pc' = [c \in Caller |-> IF ProcOf[c] = p THEN "idle" ELSE pc[c]]
  /\ UNCHANGED <<seen, disk, history>>

(* Two seconds pass without a change to the directory. *)
Age ==
  /\ exists /\ young
  /\ MayStall \/ ~Engaged(maker)
  /\ young' = FALSE
  /\ UNCHANGED <<life, pc, seen, exists, meta, tmps, history>>

-----------------------------------------------------------------------------
(* acquire *)

MakeDirectory(c) ==
  /\ exists' = TRUE
  /\ meta' = NoCaller
  /\ tmps' = {}
  /\ young' = TRUE
  /\ maker' = c
  /\ UNCHANGED <<sameDir, misjudged>>

(* Mutant of Mkdir: an existing directory is no error (recursive: true). *)
Mkdir_Recursive(c) ==
  /\ At(c, "idle")
  /\ Goto(c, "write")
  /\ IF exists THEN UNCHANGED <<disk, history>> ELSE MakeDirectory(c)
  /\ UNCHANGED <<life, seen>>

(* Attempt 1: the atomic mkdir. *)
Mkdir(c) ==
  /\ At(c, "idle")
  /\ IF exists
     THEN Goto(c, "readMeta") /\ UNCHANGED <<disk, history>>
     ELSE Goto(c, "write") /\ MakeDirectory(c)
  /\ UNCHANGED <<life, seen>>

(* writeMeta, first half: the temporary file. *)
WriteTmp(c) ==
  /\ At(c, "write")
  /\ IF exists
     THEN /\ Goto(c, "rename")
          /\ tmps' = tmps \cup {PidOf[ProcOf[c]]}
          /\ young' = TRUE
     ELSE /\ Throw(c)
          /\ UNCHANGED <<tmps, young>>
  /\ UNCHANGED <<life, seen, exists, meta, history>>

(* writeMeta, second half: the rename publishes the token. *)
Rename(c) ==
  /\ At(c, "rename")
  /\ IF exists /\ PidOf[ProcOf[c]] \in tmps
     THEN /\ Goto(c, "held")
          /\ meta' = c
          /\ tmps' = tmps \ {PidOf[ProcOf[c]]}
          /\ young' = TRUE
     ELSE /\ Throw(c)
          /\ UNCHANGED <<meta, tmps, young>>
  /\ UNCHANGED <<life, seen, exists, history>>

Inspected(c) == IF exists THEN sameDir \cup {c} ELSE sameDir \ {c}

(* Mutant of ReadMeta: missing metadata is not told from an owner. *)
ReadMeta_NoNullCheck(c) ==
  /\ At(c, "readMeta")
  /\ seen' = [seen EXCEPT ![c] = meta]
  /\ Goto(c, "judge")
  /\ sameDir' = Inspected(c)
  /\ UNCHANGED <<life, disk, maker, misjudged>>

(* EEXIST: read the metadata of the existing lock. *)
ReadMeta(c) ==
  /\ At(c, "readMeta")
  /\ seen' = [seen EXCEPT ![c] = meta]
  /\ Goto(c, IF meta = NoCaller THEN "checkAge" ELSE "judge")
  /\ sameDir' = Inspected(c)
  /\ UNCHANGED <<life, disk, maker, misjudged>>

(* No metadata: the lock is initializing unless the directory is old.  A     *)
(* directory that cannot be examined counts as old.                          *)
CheckAge(c) ==
  /\ At(c, "checkAge")
  /\ IF exists /\ young THEN Throw(c) ELSE Goto(c, "rmEntries")
  /\ sameDir' = Inspected(c)
  /\ UNCHANGED <<life, seen, disk, maker, misjudged>>

(* Mutant of OwnerAlive: the start time is not compared. *)
OwnerAlive_PidOnly(p) == PidInUse(PidOf[p])

(* kill(pid, 0) answers, and the start time does not tell a reused pid. *)
OwnerAlive(p) == PidInUse(PidOf[p]) /\ (StartKnown => Up(p))

Judge(c) ==
  /\ At(c, "judge")
  /\ IF OwnerAlive(ProcOf[seen[c]]) THEN Throw(c) ELSE Goto(c, "rmEntries")
  /\ UNCHANGED <<life, seen, disk, history>>

(* The directory about to be removed is not the one c inspected, or its      *)
(* maker is alive and has merely not published its token yet.                *)
Misjudges(c) == exists /\ (c \notin sameDir \/ (seen[c] = NoCaller /\ Engaged(maker)))

EmptyDirectory ==
  /\ meta' = NoCaller
  /\ tmps' = {}
  /\ young' = IF exists /\ (meta # NoCaller \/ tmps # {}) THEN TRUE ELSE young
  /\ UNCHANGED exists

(* The takeover unlinks the entries of the directory now at the path ... *)
RemoveEntries(c) ==
  /\ At(c, "rmEntries")
  /\ Goto(c, "rmDir")
  /\ EmptyDirectory
  /\ misjudged' = (misjudged \/ Misjudges(c))
  /\ UNCHANGED <<life, seen, maker, sameDir>>

Removable == exists /\ meta = NoCaller /\ tmps = {}

(* ... and removes the directory; ENOENT is ignored, ENOTEMPTY is thrown. *)
RemoveDirectory(c) ==
  /\ At(c, "rmDir")
  /\ exists' = (exists /\ ~Removable)
  /\ IF exists' THEN Throw(c) ELSE Goto(c, "mkdir2")
  /\ sameDir' = IF exists' THEN sameDir ELSE {}
  /\ misjudged' = (misjudged \/ (Removable /\ Misjudges(c)))
  /\ UNCHANGED <<life, seen, meta, tmps, young, maker>>

(* Attempt 2. *)
MkdirAgain(c) ==
  /\ At(c, "mkdir2")
  /\ IF exists
     THEN Throw(c) /\ UNCHANGED <<disk, history>>
     ELSE Goto(c, "write") /\ MakeDirectory(c)
  /\ UNCHANGED <<life, seen>>

-----------------------------------------------------------------------------
(* release *)

(* Only a directory that carries the caller's own token is removed. *)
Release(c) ==
  /\ At(c, "held")
  /\ Goto(c, IF meta = c THEN "relEntries" ELSE "idle")
  /\ UNCHANGED <<life, seen, disk, history>>

ReleaseEntries(c) ==
  /\ At(c, "relEntries")
  /\ Goto(c, "relDir")
  /\ EmptyDirectory
  /\ UNCHANGED <<life, seen, history>>

(* A failure of the removal is swallowed. *)
ReleaseDirectory(c) ==
  /\ At(c, "relDir")
  /\ Goto(c, "idle")
  /\ exists' = (exists /\ ~Removable)
  /\ sameDir' = IF exists' THEN sameDir ELSE {}
  /\ UNCHANGED <<life, seen, meta, tmps, young, maker, misjudged>>

-----------------------------------------------------------------------------
AcquireStep(c) ==
  \/ Mkdir(c)
  \/ WriteTmp(c)
  \/ Rename(c)
  \/ ReadMeta(c)
  \/ CheckAge(c)
  \/ Judge(c)
  \/ RemoveEntries(c)
  \/ RemoveDirectory(c)
  \/ MkdirAgain(c)

ReleaseStep(c) == Release(c) \/ ReleaseEntries(c) \/ ReleaseDirectory(c)

(* Every process died: nothing is left to run. *)
AllGone == (\A p \in Process : life[p] = "gone") /\ UNCHANGED vars

Next ==
  \/ \E p \in Process : Boot(p) \/ Crash(p)
  \/ Age
  \/ \E c \in Caller : AcquireStep(c) \/ ReleaseStep(c)
  \/ AllGone

(* Callers of a live process go on with what they do, and a caller that was  *)
(* turned away tries again (the next cron tick, the next start).             *)
Fairness ==
  /\ WF_vars(Age)
  /\ \A c \in Caller : WF_vars(AcquireStep(c)) /\ WF_vars(ReleaseStep(c))

Spec == Init /\ [][Next]_vars
FairSpec == Spec /\ Fairness

-----------------------------------------------------------------------------
(* Shape of the state; a stopped process has no caller in progress. *)
TypeOK ==
  /\ life \in [Process -> {"new", "up", "gone"}]
  /\ pc \in [Caller -> Steps]
  /\ \A c \in Caller : pc[c] # "idle" => Up(ProcOf[c])
  /\ seen \in [Caller -> Caller \cup {NoCaller}]
  /\ \A c \in Caller : pc[c] = "judge" => seen[c] # NoCaller
  /\ exists \in BOOLEAN /\ young \in BOOLEAN /\ misjudged \in BOOLEAN
  /\ meta \in Caller \cup {NoCaller}
  /\ maker \in Caller \cup {NoCaller}
  /\ exists => maker # NoCaller
  /\ ~exists => meta = NoCaller /\ tmps = {}
  /\ tmps \subseteq {PidOf[p] : p \in Process}
  /\ sameDir \subseteq Caller

Holders == {c \in Caller : pc[c] = "held"}

(* "Throws if another live process holds the lock" (pidlock.ts:99): never    *)
(* two holders.                                                              *)
MutualExclusion == \A c, d \in Holders : c = d

(* Two holders need a takeover that removed a directory it had not found     *)
(* stale: crashes at any step, reused pids and concurrent first attempts     *)
(* alone never let a second caller in.                                       *)
ExclusiveUnlessMisjudged == ~misjudged => MutualExclusion

(* As long as no takeover erred, a holder's token is on disk until it        *)
(* releases: a live holder is never robbed by a caller that starts afresh.   *)
HeldIsOnDisk == ~misjudged => \A c \in Holders : exists /\ meta = c /\ maker = c

OwnedByDead == exists /\ ~Up(ProcOf[maker])

(* A process that dies at any step of acquire or release does not wedge the  *)
(* lock: as long as some process keeps trying, its directory goes away.      *)
StaleLockRecovered == OwnedByDead ~> (~OwnedByDead \/ \A p \in Process : ~Up(p))
=============================================================================
