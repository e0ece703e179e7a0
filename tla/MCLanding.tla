------------------------------- MODULE MCLanding -------------------------------
(***************************************************************************)
(* Two runs of goals put in by hand that share a file, and one of an issue  *)
(* that edits that file too.                                                *)
(***************************************************************************)
EXTENDS Landing

MCIssueOf == [r \in {"m1", "m2", "t"} |-> IF r = "t" THEN "i" ELSE "none"]
MCEditsOf == [r \in {"m1", "m2", "t"} |-> IF r = "m2" THEN {"a", "b"} ELSE {"a"}]
=============================================================================
