---------------------------- MODULE MCPlanWorkflow ----------------------------
(***************************************************************************)
(* Instances of PlanWorkflow for TLC: the tasks are model values.             *)
(***************************************************************************)
EXTENDS PlanWorkflow

CONSTANTS t1, t2

=============================================================================
