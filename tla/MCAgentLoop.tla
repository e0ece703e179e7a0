------------------------------ MODULE MCAgentLoop ------------------------------
(***************************************************************************)
(* One agent with an existing file, a new one in a second crate and a path  *)
(* its validation refuses.                                                  *)
(***************************************************************************)
EXTENDS AgentLoop

MCCrateOf == [f \in {"lib", "new", "bad"} |->
                CASE f = "lib" -> "core" [] f = "new" -> "cli" [] f = "bad" -> "none"]
=============================================================================
