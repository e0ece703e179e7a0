---------------------------- MODULE MCSwarmRunner ----------------------------
(***************************************************************************)
(* Answers for the runner: plans in and out of order, parallel tasks on one *)
(* file, a cycle, a dependency the scope guard removes, an answer without a *)
(* plan, and paths of every kind the validator distinguishes.  What agents  *)
(* touch is a lock file and the manifest beside it, which the capture tells *)
(* apart.                                                                   *)
(***************************************************************************)
EXTENDS SwarmRunner

T(id, files, deps, edit, template) ==
  [id |-> id, files |-> files, depends_on |-> deps, edit |-> edit, template |-> template]
A(plan, named) == [tasks |-> plan, mentioned |-> <<>>, first |-> <<"Cargo.lock">>, named |-> named]

MCPaths  == {"Cargo.lock", "Cargo.toml", "c.rs", "*.rs", "noext", "Cargo.loc"}
MCNear   == [f \in MCPaths |-> IF f = "Cargo.loc" THEN "Cargo.lock" ELSE "none"]
MCKnown  == {"Cargo.lock", "Cargo.toml", "c.rs", "Cargo.loc"}

Ordered == A(<<T("task-1", <<"Cargo.loc">>, <<>>, "none", "none"),
               T("task-2", <<"Cargo.lock", "Cargo.toml">>, <<"task-1">>, "none", "none"),
               T("task-3", <<"Cargo.lock", "*.rs">>, <<"task-1", "task-2">>, "none", "none")>>, {})
Swapped == A(<<T("task-2", <<"Cargo.lock">>, <<"task-1">>, "Cargo.lock", "none"),
               T("task-1", <<"Cargo.lock">>, <<>>, "none", "none")>>, {})
Parallel == A(<<T("task-1", <<"Cargo.lock">>, <<>>, "Cargo.lock", "none"),
                T("task-2", <<"Cargo.toml">>, <<>>, "none", "edit"),
                T("task-3", <<"c.rs">>, <<"task-1">>, "none", "none")>>, {})
Rebuilt == A(<<T("task-1", <<"Cargo.lock">>, <<>>, "Cargo.lock", "none"),
               T("task-2", <<"Cargo.lock">>, <<"task-1">>, "none", "edit")>>, {})
Cyclic == A(<<T("task-1", <<"Cargo.lock">>, <<"task-2">>, "none", "none"),
              T("task-2", <<"Cargo.toml">>, <<"task-1">>, "none", "none")>>, {})
Trimmed == A(<<T("task-1", <<"c.rs">>, <<>>, "none", "none"),
               T("task-2", <<"Cargo.lock">>, <<"task-1">>, "none", "other"),
               T("task-3", <<"Cargo.toml">>, <<>>, "none", "none"),
               T("task-4", <<"Cargo.lock">>, <<>>, "none", "none")>>, {"Cargo.lock"})
Collapsing == A(<<T("task-2", <<"Cargo.lock">>, <<>>, "none", "none"),
                  T("task-3", <<"Cargo.lock", "noext">>, <<"task-2">>, "none", "edit")>>, {"Cargo.lock"})
Unparsed == A(<<>>, {})

MCAnswers == {Ordered, Rebuilt, Parallel, Cyclic, Trimmed, Collapsing, Unparsed, Swapped}

\* The answers satisfy what the theorems assume.
ASSUME MCAnswersAssumption == DistinctAnswers
==============================================================================
