----------------------------- MODULE MCKnowledge -----------------------------
(***************************************************************************)
(* Two runs for goals of one shape, and a new database beside a snapshot    *)
(* that holds a pattern of that shape.                                      *)
(***************************************************************************)
EXTENDS Knowledge, TLC

OneShape == [r \in Runs |-> "s"]
OldSnapshot == {<<"patterns", "s">>}

Symmetric == Permutations(Runs)
=============================================================================
