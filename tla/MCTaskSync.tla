----------------------------- MODULE MCTaskSync -----------------------------
(***************************************************************************)
(* TaskSync with one task that has a waiting-* label and two message turns: *)
(* what the runs ask about are races on one task, and phases run in turn.   *)
(***************************************************************************)
EXTENDS TaskSync

CONSTANTS t1, a1, a2

MCTask == {t1}
MCActor == {a1, a2}
=============================================================================
