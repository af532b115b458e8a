---------------------------- MODULE MCKeyedQueue ----------------------------
(***************************************************************************)
(* KeyedQueue on five calls over two keys: three on one, so that a call can *)
(* queue behind a call that itself queues, and two on the other.            *)
(***************************************************************************)
EXTENDS KeyedQueue

CONSTANTS c1, c2, c3, c4, c5, k1, k2

MCCall == {c1, c2, c3, c4, c5}
MCKey == {k1, k2}
MCKeyOf == [c \in MCCall |-> IF c \in {c1, c2, c3} THEN k1 ELSE k2]
=============================================================================
