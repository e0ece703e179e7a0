------------------------------- MODULE MCBacklog -------------------------------
(***************************************************************************)
(* One issue, a goal that a user may put in by hand, a run that somebody    *)
(* submits and one of the autopilot's, under either kind of configuration.  *)
(***************************************************************************)
EXTENDS Backlog

HandsFree == [auto_approve |-> TRUE, continuous |-> TRUE]
Watched   == [auto_approve |-> FALSE, continuous |-> FALSE]
MCConfigs == {HandsFree, Watched}
=============================================================================
