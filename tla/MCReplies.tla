------------------------------ MODULE MCReplies ------------------------------
(***************************************************************************)
(* Replies with a message m1 and a reaction r2 of one session, or with       *)
(* three messages of one session, the last of them a command.               *)
(***************************************************************************)
EXTENDS Replies

CONSTANTS m1, r2, m3, c4, s1

MCSessionOf == [m \in Msg |-> s1]
=============================================================================
