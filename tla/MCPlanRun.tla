------------------------------ MODULE MCPlanRun ------------------------------
(* One plan of two phases and their audit, one file; a !plan command and an  *)
(* action of the model.  MCFailuresOnly: attempts fail, nothing else.        *)
EXTENDS PlanRun

CONSTANTS c1, a2, f1, f2

MCKinds == AllKinds
MCFailuresOnly == {"fail"}
=============================================================================
