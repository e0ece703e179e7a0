---------------------------- MODULE PlanValidation ----------------------------
(***************************************************************************)
(* What becomes of the planner model's answer before anything executes it  *)
(* (orchestrator/src/planner_types.rs): parse_plan caps it, repairs and     *)
(* drops paths, refuses dependency cycles; constrain_to_named_files then    *)
(* clamps it to the files the goal names.  Pure functions; a path is a      *)
(* model value and its spelling is abstracted to the predicates the code    *)
(* evaluates on it.                                                         *)
(***************************************************************************)
EXTENDS Naturals, Sequences, FiniteSets, SequencesExt

CONSTANTS
  Paths,      \* every path an answer may hold
  RepoFiles,  \* those that exist in the repository
  Globs,      \* paths with a '*'
  Malformed,  \* paths without an extension or with a space
  KnownDir,   \* paths below a directory that holds a repository file
  NearMiss,   \* Paths -> Paths: the first repository file with the same stem
  NoPath,     \* an absent path
  MaxTasks    \* MAX_TASKS

ASSUME PathsAssumption ==
  /\ RepoFiles \subseteq Paths /\ Globs \subseteq Paths /\ Malformed \subseteq Paths
  /\ KnownDir \subseteq Paths
  /\ NearMiss \in [Paths -> RepoFiles \cup {NoPath}]
  /\ NoPath \notin Paths /\ MaxTasks \in Nat \ {0}

IdsOf(tasks)   == {tasks[i].id : i \in DOMAIN tasks}
FilesOf(tasks) == UNION {ToSet(tasks[i].files) : i \in DOMAIN tasks}
MapTasks(tasks, F(_)) == [i \in DOMAIN tasks |-> [tasks[i] EXCEPT !.files = F(@)]]

\* The n-th of a set of places, and what a filter that keeps these places of a
\* sequence returns (SelectSeq, over places instead of a test).
Nth(S, n) == CHOOSE i \in S : Cardinality({j \in S : j < i}) = n - 1
Kept(s, S) == [n \in 1 .. Cardinality(S) |-> s[Nth(S, n)]]

\* A task that has lost all its files is dropped.
HaveFiles(tasks) == Kept(tasks, {i \in DOMAIN tasks : tasks[i].files # <<>>})

\* A path that misses the repository only by its extension is corrected.
Resolve(f) == IF f \in RepoFiles \/ NearMiss[f] = NoPath THEN f ELSE NearMiss[f]

\* A new path is believed unless the task also names existing files and the
\* path's directory is known: then it is taken for a hallucination.
Believed(f, files) ==
  \/ f \in RepoFiles
  \/ /\ f \notin Malformed
     /\ (ToSet(files) \cap RepoFiles = {} \/ f \notin KnownDir)

ValidFiles(files) ==
  LET exact    == Kept(files, {i \in DOMAIN files : files[i] \notin Globs})
      resolved == [i \in DOMAIN exact |-> Resolve(exact[i])]
  IN  Kept(resolved, {i \in DOMAIN resolved : Believed(resolved[i], resolved)})

\* Mutant: only a task that depends on itself is a cycle.
DetectCycle_SelfOnly(tasks) ==
  \E i \in DOMAIN tasks : tasks[i].id \in ToSet(tasks[i].depends_on)

\* detect_cycle: dependencies on ids outside the plan are not edges.  A finite
\* graph has a cycle iff some nonempty set of nodes has an edge from each
\* member back into the set.
DetectCycle(tasks) ==
  \E S \in (SUBSET IdsOf(tasks)) \ {{}} :
    \A id \in S : \E i \in DOMAIN tasks :
      tasks[i].id = id /\ ToSet(tasks[i].depends_on) \cap S # {}

\* The answer held no JSON array: one task on the paths the text mentions, or
\* on the first repository files if it mentions none.
FallbackTask(mentioned, firstFiles) ==
  [id |-> "task-1", files |-> IF mentioned = <<>> THEN firstFiles ELSE mentioned,
   depends_on |-> <<>>, edit |-> NoPath, template |-> "none"]

Refused    == [ok |-> FALSE, tasks |-> <<>>]
Planned(s) == [ok |-> TRUE, tasks |-> s]

ParsePlan(answer, mentioned, firstFiles) ==
  IF answer = <<>> THEN Planned(<<FallbackTask(mentioned, firstFiles)>>)
  ELSE LET capped == SubSeq(answer, 1, IF Len(answer) > MaxTasks THEN MaxTasks ELSE Len(answer))
           valid  == HaveFiles(MapTasks(capped, ValidFiles))
       IN  IF valid = <<>> \/ DetectCycle(valid) THEN Refused ELSE Planned(valid)

\* Files the goal names are the only existing files the plan may touch.
InScope(named, files) ==
  Kept(files, {i \in DOMAIN files : files[i] \in named \/ files[i] \notin RepoFiles})

\* Several tasks on one and the same file become one.
Collapsed(tasks) ==
  LET labelled == {i \in DOMAIN tasks : tasks[i].template # "none"}
  IN  <<[id |-> "task-1", files |-> <<CHOOSE f \in FilesOf(tasks) : TRUE>>,
         depends_on |-> <<>>, edit |-> NoPath,
         template |-> IF labelled = {} THEN "none" ELSE tasks[Nth(labelled, 1)].template]>>

ConstrainToNamedFiles(named, tasks) ==
  IF named = {} THEN tasks
  ELSE LET Clamp(files) == InScope(named, files)
           kept == HaveFiles(MapTasks(tasks, Clamp))
           some == IF kept = <<>>
                   THEN <<FallbackTask(SetToSeq(named), <<>>)>> ELSE kept
       IN  IF Len(some) > 1 /\ \E f \in Paths : FilesOf(some) = {f}
           THEN Collapsed(some) ELSE some

\* plan_goal without the inference call.
ValidatedPlan(answer, mentioned, firstFiles, named) ==
  LET parsed == ParsePlan(answer, mentioned, firstFiles)
  IN  IF parsed.ok THEN Planned(ConstrainToNamedFiles(named, parsed.tasks)) ELSE Refused

\* A dependency on an id that is not in the plan (any more).
Dangling(tasks, id) == \E i \in DOMAIN tasks :
  tasks[i].id = id /\ ~(ToSet(tasks[i].depends_on) \subseteq IdsOf(tasks))
===============================================================================
