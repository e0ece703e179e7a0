---------------------------- MODULE WorkflowEngine ----------------------------
(***************************************************************************)
(* One goal executed as a workflow: the executor that claims the           *)
(* agent_run row (agent-daemon/src/executor.rs), the engine loop that      *)
(* drives the persisted document (workflow/src/engine.rs), the runner's    *)
(* waves as far as the engine observes them (orchestrator/src/runner.rs)   *)
(* and the bridge that serves pause, resume, cancel and run-from-def       *)
(* (agent-daemon/src/db_bridge.rs) concurrently with them.  Every await    *)
(* that reads or writes the shared store is a step of its own.             *)
(*                                                                         *)
(* One executor at a time works on the goal: the scheduler's lease, which  *)
(* the module DaemonScheduler models, is what provides it.                 *)
(***************************************************************************)
EXTENDS WorkflowModel, FiniteSets

CONSTANTS
  InitialPlans,    \* the plans a user may have approved, or template defs
  ReplanOutputs,   \* task lists replan_goal may return
  Origins,         \* of the goal: a plan a user approved, or a run-from-def request
  ZeroDisk,        \* TRUE: the runner's GitHub-API mode, which ignores depends_on
  MaxConcurrent,   \* resources.max_concurrent_agents
  MaxRequests,     \* bound: bridge requests in a behaviour
  MaxFaults        \* bound: crashes, store errors and lost responses in a behaviour

ASSUME PlansAssumption ==
  /\ \A p \in InitialPlans \cup ReplanOutputs : IsPlan(p)
  /\ Origins \subseteq {"user", "def"} /\ ZeroDisk \in BOOLEAN
  /\ MaxConcurrent \in Nat \ {0}
  /\ MaxRequests \in Nat /\ MaxFaults \in Nat

VARIABLES
  plan,      \* the goal's task list
  hasPlan,   \* it is stored as the goal_plan
  run,       \* agent_run.status
  docs,      \* the workflow_run documents with this run_id
  creator,   \* what create_from_def has still to write
  control,   \* the run's RunControl in the engine's registry
  bridge,    \* the bridge request whose store write is outstanding
  pc,        \* where the executor is
  wf,        \* the executor's copy of the document
  agg,       \* the aggregate's modified_files: path -> last writer
  exists,    \* the precondition files exist in the executor's clone
  round,     \* the runner's round in progress
  cancelled, \* history: when the last unrevoked cancel was acknowledged
  reqs, faults

storeVars == <<hasPlan, run, docs>>
execVars  == <<pc, wf, agg, exists, round>>
userVars  == <<creator, control, bridge, cancelled, reqs>>
vars == <<plan, hasPlan, run, docs, creator, control, bridge, pc, wf, agg,
          exists, round, cancelled, reqs, faults>>

NoRun   == NewWorkflow(NoSteps)
Outcome == {"applied", "noop", "error"}
Quiet   == [batch |-> {}, res |-> [id \in {} |-> "noop"], writes |-> {}]
Done(r) == DOMAIN r.res

Init ==
  /\ plan \in InitialPlans
  /\ docs = {}
  /\ \E o \in Origins : creator = (IF o = "def" THEN "approve" ELSE "none")
  /\ run = (IF creator = "approve" THEN "pending" ELSE "approved")
  /\ hasPlan = (creator = "none")
  /\ control = "continue" /\ bridge = "none" /\ cancelled = "none"
  /\ pc = "idle" /\ wf = NoRun /\ agg = NoFiles /\ exists = TRUE /\ round = Quiet
  /\ reqs = 0 /\ faults = 0

\* Mutant: the update spares terminal documents.
Saved_SparingTerminal(w) == {IF d.state \in Terminal THEN d ELSE w : d \in docs}

\* UPDATE workflow_run CONTENT .. WHERE run_id: every document becomes w.
Saved(w) == {w : d \in docs}
-----------------------------------------------------------------------------
(* create_from_def, after it stored the run as pending.                    *)

\* UPDATE .. SET status = 'approved', whatever became of the row meanwhile.
ApproveRun ==
  /\ creator = "approve"
  /\ creator' = "plan" /\ run' = "approved"
  /\ UNCHANGED <<plan, hasPlan, docs, control, bridge, execVars, cancelled, reqs, faults>>

StorePlan ==
  /\ creator = "plan"
  /\ creator' = "run" /\ hasPlan' = TRUE
  /\ UNCHANGED <<plan, run, docs, control, bridge, execVars, cancelled, reqs, faults>>

CreateTemplateRun ==
  /\ creator = "run"
  /\ creator' = "none"
  /\ docs' = docs \cup {NewWorkflow(Instantiate(plan))}
  /\ UNCHANGED <<plan, hasPlan, run, control, bridge, execVars, cancelled, reqs, faults>>

-----------------------------------------------------------------------------
(* The bridge.                                                             *)

Request ==
  /\ bridge = "none" /\ reqs < MaxRequests
  /\ reqs' = reqs + 1
  /\ UNCHANGED <<plan, storeVars, execVars, creator, faults>>

RequestPause ==
  /\ Request
  /\ control' = "pause"
  /\ UNCHANGED <<bridge, cancelled>>

RequestResume ==
  /\ Request
  /\ control' = "continue"
  /\ bridge' = "resume" /\ cancelled' = "none"

\* UPDATE agent_run SET status = 'approved' WHERE status = 'paused'
ResumeWrite ==
  /\ bridge = "resume" /\ bridge' = "none"
  /\ run' = IF run = "paused" THEN "approved" ELSE run
  /\ UNCHANGED <<plan, hasPlan, docs, creator, control, execVars, cancelled, reqs, faults>>

RequestCancel ==
  /\ Request
  /\ control' = "cancel"
  /\ bridge' = "cancel"
  /\ cancelled' = CASE pc \in {"loop", "round"} /\ run = "running" -> "live"
                    [] pc \in {"claimed", "load", "start", "started", "loop", "round"} -> "early"
                    [] OTHER -> cancelled

\* UPDATE workflow_run SET state = 'cancelled' WHERE state = 'paused'
CancelWrite ==
  /\ bridge = "cancel" /\ bridge' = "none"
  /\ docs' = {IF d.state = "paused" THEN [d EXCEPT !.state = "cancelled"] ELSE d : d \in docs}
  /\ UNCHANGED <<plan, hasPlan, run, creator, control, execVars, cancelled, reqs, faults>>

-----------------------------------------------------------------------------
(* The executor up to the engine's loop.                                   *)

Claim ==
  /\ pc = "idle" /\ run \in {"pending", "approved"}
  /\ run' = "running" /\ pc' = "claimed"
  /\ UNCHANGED <<plan, hasPlan, docs, userVars, wf, agg, exists, round, faults>>

\* A run without a stored plan takes the legacy path and plans from scratch.
ReadPlan ==
  /\ pc = "claimed"
  /\ pc' = IF hasPlan THEN "load" ELSE "legacy"
  /\ UNCHANGED <<plan, storeVars, userVars, wf, agg, exists, round, faults>>

\* get_by_run_id returns any one of the documents; a missing or terminal one
\* is replaced by a new workflow built from the plan.
LoadWorkflow ==
  /\ pc = "load" /\ pc' = "start"
  /\ \/ \E d \in docs : d.state \notin Terminal /\ wf' = d /\ UNCHANGED docs
     \/ /\ docs = {} \/ \E d \in docs : d.state \in Terminal
        /\ wf' = NewWorkflow(FromTasks(plan))
        /\ docs' = docs \cup {wf'}
  /\ UNCHANGED <<plan, hasPlan, run, userVars, agg, exists, round, faults>>

\* Steps found Running are reset first; outputs of Passed steps are seeded from
\* a complete checkpoint, else the steps are reset to run again.
ClearResidue(w) ==
  [w EXCEPT !.steps = [id \in StepId |->
                         IF w.steps[id].state = "running"
                         THEN [w.steps[id] EXCEPT !.state = "pending"]
                         ELSE w.steps[id]]]

HasPassed(w) == InState(w.steps, "passed") # {}

StartExecution ==
  LET clean == ClearResidue(wf)
      ready == IF HasPassed(clean) /\ ~clean.complete
               THEN ResetPassedSteps(clean) ELSE clean
      w     == IF ready.state \in {"created", "paused"}
               THEN Transition(ready, "running") ELSE ready
  IN  /\ pc = "start" /\ pc' = "started"
      /\ wf' = w /\ docs' = Saved(w)
      /\ agg' = IF HasPassed(clean) /\ clean.complete THEN clean.captured ELSE NoFiles
      /\ exists' \in IF \E id \in StepId : w.steps[id].pre THEN BOOLEAN ELSE {TRUE}
      /\ UNCHANGED <<plan, hasPlan, run, userVars, round, faults>>

\* control.resume(): whatever was requested before the loop starts is erased.
ResumeControl ==
  /\ pc = "started" /\ pc' = "loop"
  /\ control' = "continue"
  /\ UNCHANGED <<plan, storeVars, creator, bridge, cancelled, reqs, wf, agg, exists, round, faults>>

-----------------------------------------------------------------------------
(* The engine loop.  `Checked` is the document after check_preconditions,  *)
(* which every iteration applies before it looks at the steps.             *)

CheckPreconditions(w) ==
  [w EXCEPT !.steps = [id \in StepId |->
      IF w.steps[id].state = "pending" /\ w.steps[id].pre /\ ~exists
      THEN [w.steps[id] EXCEPT !.state = "failed"]
      ELSE w.steps[id]]]

Checked == CheckPreconditions(wf)
Failed  == InState(Checked.steps, "failed")
Pending == InState(Checked.steps, "pending")

\* Mutant: run control is not consulted.
Continue_Unchecked == pc = "loop"

Continue == pc = "loop" /\ control = "continue"

\* The document is saved and the loop goes on.
Checkpoint(w) ==
  /\ wf' = w /\ docs' = Saved(w) /\ pc' = "loop"
  /\ UNCHANGED <<plan, hasPlan, run, userVars, agg, exists, round, faults>>

\* Mutant: the outcome is not persisted.
Leave_Unsaved(w, state, outcome) ==
  /\ wf' = Transition(w, state) /\ UNCHANGED docs
  /\ pc' = outcome
  /\ control' = IF outcome = "paused" THEN control ELSE "continue"
  /\ UNCHANGED <<plan, hasPlan, run, creator, bridge, cancelled, reqs, agg, exists, round, faults>>

\* execute returns; a paused run keeps its control, any other drops it.
Leave(w, state, outcome) ==
  /\ wf' = Transition(w, state) /\ docs' = Saved(wf')
  /\ pc' = outcome
  /\ control' = IF outcome = "paused" THEN control ELSE "continue"
  /\ UNCHANGED <<plan, hasPlan, run, creator, bridge, cancelled, reqs, agg, exists, round, faults>>

LoopPaused    == pc = "loop" /\ control = "pause"  /\ Leave(wf, "paused", "paused")
LoopCancelled == pc = "loop" /\ control = "cancel" /\ Leave(wf, "cancelled", "cancelled")

Replan ==
  /\ Continue
  /\ Checked.replans < MaxReplans
  /\ \E s \in First(Failed), tasks \in ReplanOutputs :
       Checkpoint(SpliceReplan(Checked, s, tasks))

\* The budget is spent, the answer is empty or invalid, or inference failed.
ReplanFailed ==
  /\ Continue /\ Failed # {}
  /\ Leave(Checked, "failed", "failed")

Complete ==
  /\ Continue /\ Failed = {} /\ Pending = {}
  /\ Leave(Checked, "completed", "completed")

AwaitApproval ==
  /\ Continue /\ Failed = {}
  /\ \E s \in First(ReadyControls(Checked.steps)) :
       /\ Checked.steps[s].kind = "approval"
       /\ Leave(Checked, "paused", "paused")

\* Without captured files no code changed and the check passes unrun.
QualityGate ==
  /\ Continue /\ Failed = {}
  /\ \E s \in First(ReadyControls(Checked.steps)),
        verdict \in IF Checked.captured = NoFiles THEN {"passed"} ELSE {"passed", "failed"} :
       /\ Checked.steps[s].kind = "gate"
       /\ Checkpoint([Checked EXCEPT !.steps[s].state = verdict])

Stuck ==
  /\ Continue /\ Failed = {} /\ Pending # {}
  /\ ReadyControls(Checked.steps) = {} /\ ReadyAgents(Checked.steps) = {}
  /\ Leave(Checked, "failed", "failed")

Dispatch ==
  /\ Continue /\ Failed = {}
  /\ ReadyControls(Checked.steps) = {} /\ ReadyAgents(Checked.steps) # {}
  /\ round' = [Quiet EXCEPT !.batch = ReadyAgents(Checked.steps)]
  /\ wf' = Checked /\ pc' = "round"
  /\ UNCHANGED <<plan, storeVars, userVars, agg, exists, faults>>

-----------------------------------------------------------------------------
(* run_planned.  `completed` starts empty, so in disk mode a task waits    *)
(* for its dependencies to complete in this very call.                     *)

Runnable ==
  {id \in round.batch \ Done(round) : ZeroDisk \/ wf.steps[id].deps \subseteq Done(round)}

\* A wave takes the first tasks of the list, zero-disk mode all of them.
IsWave(W) ==
  /\ W \subseteq Runnable /\ W # {}
  /\ \A a \in W, b \in Runnable \ W : Before(a, b)
  /\ Cardinality(W) = Cardinality(Runnable)
       \/ (~ZeroDisk /\ Cardinality(W) = MaxConcurrent)
  /\ ZeroDisk \/ Cardinality(W) <= MaxConcurrent

\* Only what applied tasks changed is captured; zero-disk mode keeps the
\* changes of an agent that then failed, too.
RunWave(W) ==
  \E res \in [W -> Outcome], out \in [W -> SUBSET Files] :
    /\ \A id \in W : res[id] = "applied" \/ ZeroDisk \/ out[id] = {}
    /\ round' = [round EXCEPT
         !.res = [id \in Done(round) \cup W |-> IF id \in W THEN res[id] ELSE round.res[id]],
         !.writes = round.writes \cup {e \in W \X Files : e[2] \in out[e[1]]}]

Wave ==
  /\ pc = "round" /\ (ZeroDisk \/ control = "continue")
  /\ \E W \in SUBSET round.batch : IsWave(W) /\ RunWave(W)
  /\ UNCHANGED <<plan, storeVars, userVars, pc, wf, agg, exists, faults>>

\* Zero-disk mode records no result for a response it cannot parse.
LostResponse ==
  /\ pc = "round" /\ ZeroDisk /\ faults < MaxFaults /\ Runnable # {}
  /\ \E id \in Runnable : round' = [round EXCEPT !.batch = round.batch \ {id}]
  /\ faults' = faults + 1
  /\ UNCHANGED <<plan, storeVars, userVars, pc, wf, agg, exists>>

Changed          == {f \in Files : \E id \in StepId : <<id, f>> \in round.writes}
LastVersions(id) == {f \in Files : LastWriter(round.writes, f, NoStep) = id}

\* Mutant: a step without changes is left as it was.
AbsorbRound_NoSkip(w) ==
  [w EXCEPT !.steps = [id \in StepId |->
      IF id \in Done(round) /\ round.res[id] # "noop"
      THEN [w.steps[id] EXCEPT
              !.state = IF round.res[id] = "applied" THEN "passed" ELSE "failed",
              !.out = LastVersions(id)]
      ELSE [w.steps[id] EXCEPT !.out = w.steps[id].out \ Changed]]]

\* Mutant: a step dispatched without an answer is left running.
AbsorbRound_LeavesRunning(w) ==
  [w EXCEPT !.steps = [id \in StepId |->
      IF id \in Done(round)
      THEN [w.steps[id] EXCEPT
              !.state = CASE round.res[id] = "applied" -> "passed"
                          [] round.res[id] = "noop"    -> "skipped"
                          [] OTHER                     -> "failed",
              !.out = LastVersions(id)]
      ELSE [w.steps[id] EXCEPT
              !.state = IF IsReady(w.steps, id) /\ w.steps[id].kind = "agent"
                        THEN "running" ELSE w.steps[id].state,
              !.out = w.steps[id].out \ Changed]]]

\* absorb_round: applied -> Passed, no change and no error -> Skipped.  What an
\* earlier step wrote into a file of the round is not the latest version any more.
AbsorbRound(w) ==
  [w EXCEPT !.steps = [id \in StepId |->
      IF id \in Done(round)
      THEN [w.steps[id] EXCEPT
              !.state = CASE round.res[id] = "applied" -> "passed"
                          [] round.res[id] = "noop"    -> "skipped"
                          [] OTHER                     -> "failed",
              !.out = LastVersions(id)]
      ELSE [w.steps[id] EXCEPT !.out = w.steps[id].out \ Changed]]]

\* Mutant: an unmet effect puts the step back in the queue.
CheckEffects_Requeue(w) ==
  [w EXCEPT !.steps = [id \in StepId |->
      IF w.steps[id].state = "passed" /\ w.steps[id].eff # {}
         /\ w.steps[id].eff \cap Changed = {}
      THEN [w.steps[id] EXCEPT !.state = "pending"]
      ELSE w.steps[id]]]

\* check_effects looks at every Passed step, whichever round passed it.
CheckEffects(w) ==
  [w EXCEPT !.steps = [id \in StepId |->
      IF w.steps[id].state = "passed" /\ w.steps[id].eff # {}
         /\ w.steps[id].eff \cap Changed = {}
      THEN [w.steps[id] EXCEPT !.state = "failed"]
      ELSE w.steps[id]]]

\* The round returns when nothing is runnable or, in disk mode, a pause or
\* cancel was seen between waves.
RoundEnds == Runnable = {} \/ (~ZeroDisk /\ control # "continue")

FinishRound ==
  /\ pc = "round" /\ RoundEnds
  /\ \E stored \in SUBSET round.writes :
       wf' = AbsorbCaptured(CheckEffects(AbsorbRound(wf)), round.writes, stored)
  /\ docs' = Saved(wf')
  /\ agg' = Overlay(agg, round.writes)
  /\ round' = Quiet /\ pc' = "loop"
  /\ UNCHANGED <<plan, hasPlan, run, userVars, exists, faults>>

-----------------------------------------------------------------------------
(* What the executor makes of the outcome.                                 *)

Fault == faults < MaxFaults /\ faults' = faults + 1

\* The executor is done with the goal for now.
Rest == pc' = "idle" /\ wf' = NoRun /\ agg' = NoFiles /\ exists' = TRUE /\ round' = Quiet

\* agent_run.status is written with the error ignored: the write may be lost.
Report(status) ==
  /\ Rest
  /\ \/ run' = status /\ UNCHANGED faults
     \/ Fault /\ UNCHANGED run
  /\ UNCHANGED <<plan, hasPlan, docs, userVars>>

ReportPaused    == pc = "paused" /\ Report("paused")
ReportCancelled == pc = "cancelled" /\ Report("failed")

\* The final gate refuses a result without changes and may refuse any other.
ReportCompleted ==
  /\ pc = "completed"
  /\ \E status \in IF agg = NoFiles THEN {"failed"} ELSE {"passed", "failed"} : Report(status)

\* A failed workflow is an iteration like any other: the next one, if fuel is
\* left, does not look at the plan again but lets the runner plan anew.
RetryLegacy ==
  /\ pc = "failed" /\ pc' = "legacy"
  /\ UNCHANGED <<plan, storeVars, userVars, wf, agg, exists, round, faults>>

OutOfFuel == pc = "failed" /\ Report("failed")

ReportLegacy == pc = "legacy" /\ \E status \in {"passed", "failed"} : Report(status)

-----------------------------------------------------------------------------
(* Faults.                                                                 *)

\* No repository for the project, or it cannot be cloned.
SetupFails ==
  /\ pc = "claimed" /\ Fault
  /\ Rest /\ run' = "failed"
  /\ UNCHANGED <<plan, hasPlan, docs, userVars>>

\* A store error while the plan is read counts as no plan.
PlanUnreadable ==
  /\ pc = "claimed" /\ Fault
  /\ pc' = "legacy"
  /\ UNCHANGED <<plan, storeVars, userVars, wf, agg, exists, round>>

\* A store or runner error is propagated by `?` out of run_workflow; the
\* run's control is not dropped.
EngineError ==
  /\ pc \in {"load", "start", "loop", "round"} /\ Fault
  /\ pc' = "failed" /\ round' = Quiet
  /\ UNCHANGED <<plan, storeVars, userVars, wf, agg, exists>>

\* The daemon dies and is started again: only the store survives, and rows
\* left running are queued anew.
Crash ==
  /\ Fault
  /\ Rest
  /\ run' = IF run = "running" THEN "pending" ELSE run
  /\ creator' = "none" /\ control' = "continue" /\ bridge' = "none" /\ cancelled' = "none"
  /\ UNCHANGED <<plan, hasPlan, docs, reqs>>

-----------------------------------------------------------------------------
Creator  == ApproveRun \/ StorePlan \/ CreateTemplateRun
Requests == RequestPause \/ RequestResume \/ RequestCancel
Bridge   == ResumeWrite \/ CancelWrite

Engine ==
  \/ LoopPaused \/ LoopCancelled \/ Replan \/ ReplanFailed \/ Complete
  \/ AwaitApproval \/ QualityGate \/ Stuck \/ Dispatch
  \/ Wave \/ FinishRound

Executor ==
  \/ Claim \/ ReadPlan \/ LoadWorkflow \/ StartExecution \/ ResumeControl
  \/ Engine
  \/ ReportPaused \/ ReportCancelled \/ ReportCompleted \/ RetryLegacy
  \/ OutOfFuel \/ ReportLegacy

Faults == LostResponse \/ SetupFails \/ PlanUnreadable \/ EngineError \/ Crash

Next == Creator \/ Requests \/ Bridge \/ Executor \/ Faults

Spec == Init /\ [][Next]_vars

\* Tasks of the daemon's runtime make progress; users need not act, and
\* nothing has to fail.  An agent answers or times out.
Fairness == WF_vars(Executor) /\ WF_vars(Bridge) /\ WF_vars(Creator)

FairSpec == Spec /\ Fairness

-----------------------------------------------------------------------------
(* Properties.                                                             *)

PC == {"idle", "claimed", "load", "start", "started", "loop", "round",
       "paused", "cancelled", "completed", "failed", "legacy"}

\* Every variable keeps its shape; in particular step ids stay within the
\* replan budget and every recorded writer is a step id.
TypeOK ==
  /\ plan \in InitialPlans /\ hasPlan \in BOOLEAN
  /\ run \in {"pending", "approved", "running", "paused", "passed", "failed"}
  /\ docs \subseteq Workflow
  /\ creator \in {"none", "approve", "plan", "run"}
  /\ control \in {"continue", "pause", "cancel"}
  /\ bridge \in {"none", "resume", "cancel"}
  /\ pc \in PC
  /\ wf \in Workflow
  /\ agg \in Capture /\ exists \in BOOLEAN
  /\ round \in [batch : SUBSET StepId,
                res : UNION {[D -> Outcome] : D \in SUBSET StepId},
                writes : SUBSET (StepId \X Files)]
  /\ cancelled \in {"none", "early", "live"}
  /\ reqs \in Nat /\ faults \in Nat

InSession == pc \in {"started", "loop", "round"}

\* Whatever the document's state was when it was loaded, and whatever the
\* bridge wrote meanwhile, the engine loop works on a Running document: none of
\* the transitions it attempts (engine.rs:379-525) can be silently refused.
EngineRunsRunning == InSession => wf.state = "running"

\* At every await of the loop the store holds exactly the engine's copy, so a
\* crash resumes from the last completed round (engine.rs:533-534), although
\* the bridge writes documents of the run at the same time.
CheckpointInSync == InSession => wf \in docs

\* If the latest version of a file is a Passed step's, it is what the session's
\* result has, and what every document has whose checkpoint claims to be complete
\* (model.rs:161-162, 282-307; engine.rs:298-329): resets, resumes, partial
\* checkpoints and the order of two writers lose none.  A version that a later
\* step replaced is gone (see RoundsBuildOn).
PassedWorkSurvives ==
  /\ InSession => Covers(agg, wf.steps)
  /\ \A d \in docs : d.complete => Covers(d.captured, d.steps)

\* While the checkpoint claims to be complete it holds, for every file of the
\* session's result, the content the result has: absorb_captured and
\* merge_results agree on the last writer (model.rs:282-307, engine.rs:298-321).
CheckpointFaithful ==
  InSession /\ wf.complete => \A f \in Files : agg[f] # NoStep => wf.captured[f] = agg[f]

\* A step passes only on top of Passed dependencies, and they stay Passed as
\* long as it does, through replans and resets (model.rs:140-144, 309-323,
\* 426-447).  Effects break it (see OnlyFreshStepsDemoted): plans without them.
PassedInOrder ==
  \A d \in docs : \A id \in InState(d.steps, "passed") :
    d.steps[id].deps \subseteq InState(d.steps, "passed")

\* In an acyclic plan only a gap blocks pending steps for ever: a run that fails as
\* "stuck" (engine.rs:518-528) has a Skipped step, or one that waits for an id no
\* step of the document has.  parse_plan refuses cycles (planner_types.rs:226) but
\* leaves such ids behind (planner_types.rs:171-173, 219).
StuckOnlyBehindGap ==
  \A d \in docs : d.state = "failed" /\ InState(d.steps, "failed") = {} =>
    \/ InState(d.steps, "skipped") # {}
    \/ \E id \in InState(d.steps, "pending") : ~(d.steps[id].deps \subseteq Present(d.steps))

\* A replan may find dependencies on ids the document does not have, but makes none:
\* no step that is left, and no new one, waits for a step the replan took away
\* (model.rs:432-464).
ReplanOrphansNobody ==
  [][InSession /\ InSession' =>
       LET gone == Present(wf.steps) \ Present(wf'.steps)
       IN  \A id \in Present(wf'.steps) : wf'.steps[id].deps \cap gone = {}]_vars

\* A paused agent_run always has a document to resume (or one cancelled while
\* dormant), so resume never plans the goal anew (db_bridge.rs:254-255).
PausedRunHasWorkflow ==
  pc = "idle" /\ run = "paused" => \E d \in docs : d.state \in {"paused", "cancelled"}

\* "Passed steps are never re-run within this engine session" (engine.rs:325).
NoRerunInSession ==
  [][InSession /\ InSession' =>
       \A id \in InState(wf.steps, "passed") : wf'.steps[id].state # "pending"]_vars

\* Once a cancel that arrived during the loop of a row that says running is
\* acknowledged, and no resume revoked it, no further round is dispatched
\* (db_bridge.rs:268-269).
NoRoundAfterLiveCancel == [][cancelled = "live" => ~(pc = "loop" /\ pc' = "round")]_vars

\* An approved goal is worked off unless a fault interferes: it ends, or a user
\* has paused it.
GoalSettles == run = "approved" ~> run \in {"passed", "failed", "paused"} \/ faults > 0

\* A pause or cancel seen by the loop or the runner takes the executor out of
\* the loop unless the user takes it back (engine.rs:9-10), even when the loop
\* would not end by itself.
StopRequestTakesEffect ==
  pc \in {"loop", "round"} /\ control # "continue"
    ~> pc \notin {"loop", "round"} \/ control = "continue"

-----------------------------------------------------------------------------
(* What comments of the code claim and the code does not do.               *)

\* planner_types.rs:82-87 asks for the tasks left "from the CURRENT state of the
\* repository": what a Passed step wrote is still there after a later round.  An
\* agent starts from HEAD (runner.rs:655) and its whole file replaces the earlier
\* one (model.rs:296-297).
RoundsBuildOn ==
  [][pc = "round" /\ pc' = "loop" =>
       \A id \in InState(wf.steps, "passed") : \A f \in wf.steps[id].out : agg'[f] = id]_vars

\* engine.rs:521 "Steps pending but none ready, no failure, no control -> cycle".
StuckIsCycle ==
  \A d \in docs : d.state = "failed" /\ InState(d.steps, "failed") = {} =>
    \E S \in SUBSET InState(d.steps, "pending") :
      S # {} /\ \A id \in S : d.steps[id].deps \cap S # {}

\* model.rs:38 "Terminal states absorb": a terminal document never changes.
TerminalAbsorbs == [][\A d \in docs : d.state \in Terminal => d \in docs']_vars

\* db_bridge.rs:268-269 "live runs are cancelled cooperatively by the engine
\* between waves": after an acknowledged cancel no round is dispatched.
CancelHonoured == [][cancelled # "none" => ~(pc = "loop" /\ pc' = "round")]_vars

\* db_bridge.rs:254-255 "Requeue the agent_run so the scheduler picks it up":
\* the resume of a paused document gets it out of paused.
ResumeHonoured ==
  bridge = "resume" /\ (\E d \in docs : d.state = "paused")
    ~> \A d \in docs : d.state # "paused"

\* model.rs:325-327 "the build/test check runs once all agent work completes".
CompletedIsGated ==
  \A d \in docs : d.state = "completed" =>
    \E id \in InState(d.steps, "passed") : d.steps[id].kind = "gate"

\* engine.rs:286 "Agent finished without applying changes -- not a failure":
\* a document fails only with a failed step.
FailsOnlyOnFailedStep ==
  \A d \in docs : d.state = "failed" => InState(d.steps, "failed") # {}

\* executor.rs:1109-1111 "an approved plan with persisted steps executes through
\* the workflow engine (.. never re-plans from scratch)".
NeverReplansFromScratch == pc = "legacy" => ~hasPlan

\* engine.rs:249 "Verify effects of steps that just passed": only steps of the
\* round are demoted.
OnlyFreshStepsDemoted ==
  [][pc = "round" /\ pc' = "loop" =>
       \A id \in InState(wf.steps, "passed") : wf'.steps[id].state = "passed"]_vars

\* engine.rs:119 "Skips LLM planning entirely": a template goal is not planned.
TemplateSkipsPlanning == [][pc = "claimed" => pc' # "legacy"]_vars
=============================================================================
