--------------------------- MODULE MCDaemonScheduler ---------------------------
(***************************************************************************)
(* Small instances of DaemonScheduler for TLC.  Daemons and tasks are       *)
(* interchangeable; runs and slots are numbered and are not.                *)
(***************************************************************************)
EXTENDS DaemonScheduler, TLC

Symmetry == Permutations(Daemons) \cup Permutations(Tasks)
=============================================================================
