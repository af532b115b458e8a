--------------------------- MODULE MCCronExecutor ---------------------------
(***************************************************************************)
(* CronExecutor for TLC: two crons whose chains lead to one another, as two *)
(* cronUpdate actions leave them when both passed detectChainCycle before   *)
(* either wrote its chain.  The ticks of the first overlap, its job object  *)
(* is replaced, and it is paused and deleted under a run.                   *)
(***************************************************************************)
EXTENDS CronExecutor, TLC

CONSTANTS up, down, r1, r2

MCCron == {up, down}
MCChain == (up :> <<down>>) @@ (down :> <<up>>)
MCRun == {r1, r2}
=============================================================================
