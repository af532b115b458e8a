----------------------------- MODULE MCDirLock -----------------------------
(***************************************************************************)
(* DirLock with three incarnations: the third may be given the pid of the   *)
(* first once that one died.  Three callers, one per process, are the       *)
(* fewest that leave a dead owner and two rivals for its lock.              *)
(***************************************************************************)
EXTENDS DirLock, TLC

CONSTANTS p1, p2, p3, ca, cb, cc, pid1, pid2

MCProcess == {p1, p2, p3}
MCCaller == {ca, cb, cc}
MCProcOf == (ca :> p1) @@ (cb :> p2) @@ (cc :> p3)
MCPidOf == (p1 :> pid1) @@ (p2 :> pid2) @@ (p3 :> pid1)
=============================================================================
