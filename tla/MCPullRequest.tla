---------------------------- MODULE MCPullRequest ----------------------------
(* One run alone in the base clone, two in clones of their own, one of each. *)
EXTENDS PullRequest

MCModified == [r \in {"r1", "r2"} |-> IF r = "r1" THEN {"a", "b"} ELSE {"a"}]
MCGoals == [r \in {"r1", "r2"} |-> IF r = "r1" THEN "g1" ELSE "g2"]
Place(first, second) == [r \in {"r1", "r2"} |-> IF r = "r1" THEN first ELSE second]
MCPlacements == {Place("shared", None), Place("r1", "r2"), Place("r1", "shared")}
=============================================================================
