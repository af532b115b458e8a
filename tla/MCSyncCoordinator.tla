-------------------------- MODULE MCSyncCoordinator --------------------------
(***************************************************************************)
(* SyncCoordinator with two tasks, so that one close can be deferred while  *)
(* another goes through, and two posters that coalesced callers hand over.  *)
(***************************************************************************)
EXTENDS SyncCoordinator, TLC

CONSTANTS t1, t2, pa, pb

MCTask == {t1, t2}
MCPoster == {pa, pb}
=============================================================================
