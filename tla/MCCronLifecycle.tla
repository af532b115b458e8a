-------------------------- MODULE MCCronLifecycle --------------------------
(***************************************************************************)
(* CronLifecycle with one cron and two handlers under way together: enough  *)
(* for a loader that overlaps a deletion, an update or another loader.      *)
(***************************************************************************)
EXTENDS CronLifecycle

CONSTANTS c1, h1, h2

MCCron == {c1}
MCHandler == {h1, h2}
=============================================================================
