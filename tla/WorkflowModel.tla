---------------------------- MODULE WorkflowModel ----------------------------
(***************************************************************************)
(* The workflow document of crates/workflow/src/model.rs: its life cycle,  *)
(* the DAG of steps, readiness, the output checkpoint and the splice that  *)
(* adaptive replanning performs.  Pure operators, shared by the engine's   *)
(* state machine and its proofs.                                           *)
(*                                                                         *)
(* A step id <<r, k>> stands for the code's "task-k" (r = 0) and           *)
(* "r<r>-task-k" (spliced in by replan r).  The list order of the code is  *)
(* the lexicographic order of the ids: replans only append, and a removal  *)
(* keeps the order of what is left.  Ids are the planner's strings and     *)
(* nothing checks them; that two tasks share one, or that one is called    *)
(* like a step of the engine's own ("quality-gate"), is left out.          *)
(***************************************************************************)
EXTENDS Naturals

CONSTANTS
  Files,       \* paths an agent may modify
  MaxTasks,    \* MAX_TASKS: tasks one planner answer may hold
  MaxReplans   \* MAX_REPLAN_ATTEMPTS

ASSUME BoundsAssumption == MaxTasks \in Nat \ {0} /\ MaxReplans \in Nat

StepId == (0 .. MaxReplans) \X (1 .. (MaxTasks + 1))
GateId == <<0, MaxTasks + 1>>
NoStep == <<0, 0>>

Before(a, b) == a[1] < b[1] \/ (a[1] = b[1] /\ a[2] < b[2])

\* The element `iter().find(..)` meets first: a singleton, or empty for S = {}.
First(S) == {s \in S : \A t \in S : t = s \/ Before(s, t)}

-----------------------------------------------------------------------------
(* Life cycle.                                                             *)

WorkflowState == {"created", "running", "paused", "completed", "cancelled", "failed"}
Terminal      == {"completed", "cancelled", "failed"}

CanTransition ==
  { <<"created", "running">>, <<"created", "cancelled">>,
    <<"running", "paused">>, <<"running", "completed">>,
    <<"running", "cancelled">>, <<"running", "failed">>,
    <<"paused", "running">>, <<"paused", "cancelled">> }

\* An illegal transition is refused and leaves the document as it was; the
\* engine ignores the returned flag.
Transition(w, to) ==
  IF <<w.state, to>> \in CanTransition THEN [w EXCEPT !.state = to] ELSE w

-----------------------------------------------------------------------------
(* Steps.  "absent" marks an id that names no step of the document; `pre`  *)
(* is a FileExists precondition, `eff` the paths of a FilesChanged effect  *)
(* ({}: no effect).  `out` is a history component: the files of which the  *)
(* step's agent wrote the latest version.                                  *)

Kind      == {"agent", "approval", "gate"}
StepState == {"absent", "pending", "running", "passed", "failed", "skipped"}

Step == [kind : Kind, state : StepState, deps : SUBSET StepId,
         pre : BOOLEAN, eff : SUBSET Files, out : SUBSET Files]

Absent == [kind |-> "agent", state |-> "absent", deps |-> {},
           pre |-> FALSE, eff |-> {}, out |-> {}]

Task == [kind : Kind, deps : SUBSET (1 .. MaxTasks), pre : BOOLEAN, eff : SUBSET Files]

\* A task list, as a function on the numbers of its task ids.
IsPlan(p) == DOMAIN p \subseteq 1 .. MaxTasks /\ p \in [DOMAIN p -> Task]

StepOf(task, deps) ==
  [kind |-> task.kind, state |-> "pending", deps |-> deps,
   pre |-> task.pre, eff |-> task.eff, out |-> {}]

NoSteps == [id \in StepId |-> Absent]

InState(steps, st) == {id \in StepId : steps[id].state = st}
Present(steps)     == {id \in StepId : steps[id].state # "absent"}

IsReady(steps, id) ==
  steps[id].state = "pending" /\ steps[id].deps \subseteq InState(steps, "passed")

ReadyAgents(steps)   == {id \in StepId : IsReady(steps, id) /\ steps[id].kind = "agent"}
ReadyControls(steps) == {id \in StepId : IsReady(steps, id) /\ steps[id].kind # "agent"}

-----------------------------------------------------------------------------
(* The document.                                                           *)

Capture  == [Files -> StepId \cup {NoStep}]   \* path -> step whose content is kept
NoFiles  == [f \in Files |-> NoStep]

Workflow == [state : WorkflowState, steps : [StepId -> Step],
             replans : 0 .. MaxReplans, captured : Capture, complete : BOOLEAN]

WithTrailingGate(steps) ==
  IF Present(steps) = {} \/ \E id \in Present(steps) : steps[id].kind = "gate"
  THEN steps
  ELSE [steps EXCEPT ![GateId] =
          [Absent EXCEPT !.kind = "gate", !.state = "pending", !.deps = Present(steps)]]

NewWorkflow(steps) ==
  [state |-> "created", steps |-> WithTrailingGate(steps), replans |-> 0,
   captured |-> NoFiles, complete |-> TRUE]

\* A template, instantiated: its control steps, preconditions and effects kept.
Instantiate(plan) ==
  [id \in StepId |->
     IF id[1] = 0 /\ id[2] \in DOMAIN plan
     THEN StepOf(plan[id[2]], {0} \X plan[id[2]].deps)
     ELSE Absent]

\* The executor's ad-hoc run: only the agent tasks reach the persisted plan,
\* and neither preconditions nor effects do.
FromTasks(plan) ==
  [id \in StepId |->
     IF id[1] = 0 /\ id[2] \in DOMAIN plan /\ plan[id[2]].kind = "agent"
     THEN StepOf([plan[id[2]] EXCEPT !.pre = FALSE, !.eff = {}],
                 {0} \X plan[id[2]].deps)
     ELSE Absent]

-----------------------------------------------------------------------------
(* Checkpoint.  A write <<s, f>> is one entry of a round's modified_files; *)
(* entries come in task order, so the last writer of a path wins.          *)

LastWriter(writes, f, old) ==
  LET by == {s \in StepId : <<s, f>> \in writes}
  IN  IF by = {} THEN old
      ELSE CHOOSE s \in by : \A t \in by : t = s \/ Before(t, s)

Overlay(files, writes) == [f \in Files |-> LastWriter(writes, f, files[f])]

\* Mutants: skipped content goes unnoticed; a path already captured is kept.
AbsorbCaptured_Trusting(w, writes, stored) ==
  [w EXCEPT !.captured = Overlay(w.captured, stored)]

AbsorbCaptured_FirstWins(w, writes, stored) ==
  [w EXCEPT !.captured = [f \in Files |-> IF w.captured[f] # NoStep THEN w.captured[f]
                                          ELSE LastWriter(stored, f, NoStep)],
            !.complete = w.complete /\ writes \subseteq stored]

\* `stored` are the writes that are UTF-8 and within the size caps; any other
\* one is skipped and marks the checkpoint incomplete.
AbsorbCaptured(w, writes, stored) ==
  [w EXCEPT !.captured = Overlay(w.captured, stored),
            !.complete = w.complete /\ writes \subseteq stored]

\* Mutant: control steps keep their verdict.
ResetPassedSteps_AgentsOnly(w) ==
  [w EXCEPT !.steps = [id \in StepId |->
                         IF w.steps[id].state = "passed" /\ w.steps[id].kind = "agent"
                         THEN [w.steps[id] EXCEPT !.state = "pending", !.out = {}]
                         ELSE w.steps[id]],
            !.captured = NoFiles,
            !.complete = TRUE]

ResetPassedSteps(w) ==
  [w EXCEPT !.steps = [id \in StepId |->
                         IF w.steps[id].state = "passed"
                         THEN [w.steps[id] EXCEPT !.state = "pending", !.out = {}]
                         ELSE w.steps[id]],
            !.captured = NoFiles,
            !.complete = TRUE]

\* `files` has, of every file, the latest version if a Passed step wrote it.
Covers(files, steps) ==
  \A id \in InState(steps, "passed") : \A f \in steps[id].out : files[f] = id

-----------------------------------------------------------------------------
(* Replanning.                                                             *)

\* Mutant: one pass over the steps instead of a fixpoint.
Doomed_Direct(steps, failed) ==
  {failed} \cup {id \in Present(steps) : failed \in steps[id].deps}

\* The failed step and its transitive dependents: the least set that holds
\* the step and every step that depends on a member.
Doomed(steps, failed) ==
  LET Closed(D) == /\ failed \in D
                   /\ \A id \in Present(steps) : steps[id].deps \cap D # {} => id \in D
  IN  {id \in Present(steps) : \A D \in SUBSET Present(steps) : Closed(D) => id \in D}

\* A dependency "task-k" of a new task is another new task when the answer has
\* a task-k, else the plan's original task-k; one on a doomed step is dropped.
SpliceReplan(w, failed, tasks) ==
  LET n      == w.replans + 1
      doomed == Doomed(w.steps, failed)
      Named(k) == IF k \in DOMAIN tasks THEN <<n, k>> ELSE <<0, k>>
  IN  [w EXCEPT
        !.replans = n,
        !.steps = [id \in StepId |->
          IF id[1] = n
          THEN IF id[2] \in DOMAIN tasks
               THEN StepOf(tasks[id[2]], {Named(k) : k \in tasks[id[2]].deps} \ doomed)
               ELSE Absent
          ELSE IF id \in doomed THEN Absent ELSE w.steps[id]]]
=============================================================================
