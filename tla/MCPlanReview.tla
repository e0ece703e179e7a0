---------------------------- MODULE MCPlanReview ----------------------------
(* One run, discussed by the front ends. *)
EXTENDS PlanReview
=============================================================================
