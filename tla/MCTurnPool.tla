----------------------------- MODULE MCTurnPool -----------------------------
(***************************************************************************)
(* TurnPool with a pool of one process for two sessions: i1 and i2 share a  *)
(* session, i3 has one of its own; i1 is supervised.                         *)
(***************************************************************************)
EXTENDS TurnPool, TLC

CONSTANTS i1, i2, i3, k1, k2

MCInv == {i1, i2, i3}
MCKeyOf == (i1 :> k1) @@ (i2 :> k1) @@ (i3 :> k2)
MCKey == {k1, k2}
MCProc == 1..3
MCSupervised == {i1}
=============================================================================
