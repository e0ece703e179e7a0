------------------------------ MODULE Delivery ------------------------------
(***************************************************************************)
(* What Landing and PullRequest have in common: the runs whose results are  *)
(* delivered, the files of a project, and how much may go wrong.            *)
(***************************************************************************)
EXTENDS Naturals, FiniteSets

CONSTANTS
  Runs,
  Files,
  MaxFaults   \* bound: failed writes, updates, calls and commands, lost answers, crashes

ASSUME DeliveryAssumption == MaxFaults \in Nat

VARIABLE faults

Fault   == faults < MaxFaults /\ faults' = faults + 1
NoFault == UNCHANGED faults
=============================================================================
