--------------------------- MODULE MCWorkflowEngine ---------------------------
(***************************************************************************)
(* Small plans for TLC.  Tasks are numbered as the planner numbers them;    *)
(* the plans differ in what the properties tell apart: dependency edges,    *)
(* preconditions, effects and control steps.                                *)
(***************************************************************************)
EXTENDS WorkflowEngine

AgentTask(deps) == [kind |-> "agent", deps |-> deps, pre |-> FALSE, eff |-> {}]
Editing         == [AgentTask({}) EXCEPT !.pre = TRUE, !.eff = Files]
Approval        == [AgentTask({}) EXCEPT !.kind = "approval"]

Single == <<AgentTask({})>>
Chain  == <<AgentTask({}), AgentTask({1})>>
Chain3 == <<AgentTask({}), AgentTask({1}), AgentTask({2})>>

\* Task 3 was dropped by parse_plan, and task 2 still waits for it; an answer to a
\* replan that names task 2 of the original plan.
Gap    == <<AgentTask({}), AgentTask({3})>>
Late   == <<AgentTask({2})>>

MixedPlans   == {Chain3, Gap}
MixedRepairs == {Single, Chain, Late}
DiskPlans    == {Single, Chain, <<Editing>>, <<Approval, AgentTask({1})>>}
RepairPlans  == {Single, Chain}
=============================================================================
