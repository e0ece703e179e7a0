----------------------------- MODULE SwarmRunner -----------------------------
(***************************************************************************)
(* One SwarmRunner::run (orchestrator/src/runner.rs): the plan, the waves   *)
(* of agents in cloned workspaces (memtree.rs), the graph executor that     *)
(* tries templated tasks first (graph.rs), the capture of what changed, and *)
(* the zero-disk loop that replaces the waves when a GitHub repository is   *)
(* configured.  A file's content is the set of tasks whose edits its author *)
(* found in it or made, so that losing an edit and leaking one are both     *)
(* visible.  Workspaces are private, so an agent's whole stay in one is a   *)
(* single step.                                                             *)
(***************************************************************************)
EXTENDS PlanValidation

CONSTANTS
  TaskIds,        \* every task id an answer may hold
  Answers,        \* what the planner may answer, with the goal's wording
  Modes,          \* "disk" and "virtual" (zero-disk)
  DocFiles,       \* paths with a document or configuration extension
  Manifests,      \* paths that end with Cargo.toml
  LockFiles,      \* paths that end with Cargo.lock
  Unseen,         \* what the capture cannot read back: below target/, ignored by
                  \* git and new, with a name git quotes, or not UTF-8
  Touched,        \* bound: the paths agents write and delete
  MaxConcurrent,  \* resources.max_concurrent_agents
  MaxRetries,     \* the graph executor's checks
  MaxRequests     \* bound: pause, cancel and resume requests

\* What the planner is told to answer: the parser reads no other fields.
Task == [id : TaskIds, files : Seq(Paths), depends_on : Seq(TaskIds),
         edit : Paths \cup {NoPath},
         template : {"none", "edit", "create", "refactor", "doc", "other"}]

\* "-" stands for no content.
ASSUME RunnerAssumption ==
  /\ "task-1" \in TaskIds /\ "-" \notin TaskIds /\ IsFiniteSet(TaskIds)
  /\ Answers \subseteq [tasks : Seq(Task), mentioned : Seq(Paths), first : Seq(Paths),
                        named : SUBSET Paths]
  /\ Modes \subseteq {"disk", "virtual"} /\ DocFiles \subseteq Paths
  /\ Manifests \cup LockFiles \cup Unseen \subseteq Paths
  /\ Touched \subseteq Paths \ (Globs \cup Malformed)
  /\ MaxConcurrent \in Nat \ {0} /\ MaxRetries \in Nat \ {0}
  /\ MaxRequests \in Nat

\* No answer gives two tasks one id.  Nothing in the code checks it; with a duplicate
\* completed.len() never reaches tasks.len(), the later task takes the place of the
\* earlier one (task_map) and the run stops as "possible cycle".  What follows is
\* about answers without duplicates.
DistinctAnswers ==
  \A a \in Answers : \A i, j \in DOMAIN a.tasks : a.tasks[i].id = a.tasks[j].id => i = j

VARIABLES
  mode,       \* fixed by the configuration
  pc,         \* where execute_tasks is
  tasks,      \* the plan
  st,         \* task id -> how far it is
  ws,         \* task id -> its workspace: path -> content
  fixes,      \* fix rounds of the graph execution in progress
  repo,       \* the run's clone: path -> content
  anyApplied, \* any_applied
  captured,   \* modified_files, per path, in the order they were captured
  control,    \* RunControl
  halted,     \* SwarmResult.halted
  hooked,     \* task id -> task hooks fired
  desk,       \* the agent-worker component: its request, then its answer
  requests

vars == <<mode, pc, tasks, st, ws, fixes, repo, anyApplied, captured, control,
          halted, hooked, desk, requests>>

Gone     == {"-"}      \* in the content of a file that does not exist (any more)
Content  == SUBSET (TaskIds \cup Gone)
Marks(c) == c \ Gone
There(c) == "-" \notin c
Tree    == [Paths -> Content]
Pristine == [f \in Paths |-> IF f \in RepoFiles THEN {} ELSE Gone]
Missing  == [f \in Paths |-> Gone]

Outcomes  == {"applied", "noop", "error"}
Underway  == {"queued", "graph", "check", "agent", "e-applied", "e-noop", "e-error", "e-panic",
              "fetched", "posted"}
Statuses  == {"pending", "dropped"} \cup Outcomes \cup Underway
Ended(o)  == CASE o = "applied" -> "e-applied" [] o = "noop" -> "e-noop"
               [] o = "error" -> "e-error" [] o = "panic" -> "e-panic"
Completed == {id \in TaskIds : st[id] \in Outcomes}
In(s)     == {id \in TaskIds : st[id] \in s}
TaskOf(id) == tasks[CHOOSE i \in DOMAIN tasks : tasks[i].id = id]
PlannedIds  == IdsOf(tasks)

\* The tree after an agent wrote the paths W, edited or made anew, and deleted D.
Edited(tree, id, W, D) ==
  [f \in Paths |-> IF f \in D THEN tree[f] \cup Gone
                   ELSE IF f \in W THEN Marks(tree[f]) \cup {id} ELSE tree[f]]

NoRequest == [at |-> "idle", tree |-> Missing, fits |-> [f \in Touched |-> "none"]]

Init ==
  /\ mode \in Modes /\ pc = "plan" /\ tasks = <<>>
  /\ st = [id \in TaskIds |-> "pending"] /\ ws = [id \in TaskIds |-> Missing]
  /\ fixes = 0 /\ repo = Pristine
  /\ anyApplied = FALSE /\ captured = [f \in Paths |-> <<>>]
  /\ control = "continue" /\ halted = FALSE
  /\ hooked = [id \in TaskIds |-> 0]
  /\ desk = NoRequest
  /\ requests = 0

resultVars == <<anyApplied, captured, halted>>
userVars   == <<control, requests>>
-----------------------------------------------------------------------------
(* run: discover, retrieve, plan_goal                                      *)

\* A task without files has come from the fallback on an empty repository, where
\* the repair after the plan finds no file either: it is dropped.
PlanGoal ==
  /\ pc = "plan"
  /\ \E a \in Answers :
       LET v == ValidatedPlan(a.tasks, a.mentioned, a.first, a.named)
       IN  /\ tasks' = HaveFiles(v.tasks)
           /\ pc' = IF v.ok THEN "loop" ELSE "failed"
  /\ UNCHANGED <<mode, st, ws, fixes, repo, resultVars, hooked, desk, userVars>>

\* Planning inference failed: the run has no result.
PlanningFails ==
  /\ pc = "plan" /\ pc' = "failed"
  /\ UNCHANGED <<mode, tasks, st, ws, fixes, repo, resultVars, hooked, desk, userVars>>
-----------------------------------------------------------------------------
(* Disk mode: dependency waves                                             *)

\* Mutant: only the first dependency is waited for.
IsReady_FirstOnly(t) ==
  st[t.id] = "pending" /\ (t.depends_on # <<>> => t.depends_on[1] \in Completed)

IsReady(t) == st[t.id] = "pending" /\ ToSet(t.depends_on) \subseteq Completed

\* The places of the ready tasks in the plan, and of the first of them.
Ready == {i \in DOMAIN tasks : IsReady(tasks[i])}
Wave  == {i \in Ready : Cardinality({j \in Ready : j < i}) < MaxConcurrent}
InWave(id) == \E i \in Wave : tasks[i].id = id
AllCompleted == PlannedIds \subseteq Completed

AtLoop == pc = "loop" /\ mode = "disk"
CanStart == AtLoop /\ ~AllCompleted /\ control = "continue" /\ Ready # {}

\* The places, in a task's depends_on, of completed tasks that declare a file which
\* exists in their workspaces.
Donors(t, f) ==
  {k \in DOMAIN t.depends_on :
     LET d == t.depends_on[k]
     IN  d \in Completed /\ f \in ToSet(TaskOf(d).files) /\ There(ws[d][f])}

\* Mutant: the first dependency that has the file provides it.
Inherited_First(t) ==
  [f \in Paths |-> IF Donors(t, f) = {} THEN repo[f]
                   ELSE ws[t.depends_on[Min(Donors(t, f))]][f]]

\* A clone of the run's repository, over which each dependency's declared files
\* are copied from its workspace, in depends_on order, if they exist there.
Inherited(t) ==
  [f \in Paths |-> IF Donors(t, f) = {} THEN repo[f]
                   ELSE ws[t.depends_on[Max(Donors(t, f))]][f]]

StartWave ==
  /\ CanStart
  /\ st' = [id \in TaskIds |-> IF InWave(id) THEN "queued" ELSE st[id]]
  /\ ws' = [id \in TaskIds |-> IF InWave(id) THEN Inherited(TaskOf(id)) ELSE ws[id]]
  /\ pc' = "dispatch"
  /\ UNCHANGED <<mode, tasks, fixes, repo, resultVars, hooked, desk, userVars>>

\* git clone failed: the error leaves execute_tasks and every result is lost.
CloneFails ==
  /\ CanStart /\ pc' = "failed"
  /\ UNCHANGED <<mode, tasks, st, ws, fixes, repo, resultVars, hooked, desk, userVars>>

\* A pause or cancel is looked at only here, between two waves.
Halt ==
  /\ AtLoop /\ ~AllCompleted /\ control # "continue"
  /\ halted' = TRUE /\ pc' = "capture"
  /\ UNCHANGED <<mode, tasks, st, ws, fixes, repo, anyApplied, captured, hooked, desk, userVars>>

\* Mutant: with nothing ready the loop goes round again.
WavesEnd_OnlyWhenAllRan ==
  /\ AtLoop /\ AllCompleted
  /\ pc' = "capture"
  /\ UNCHANGED <<mode, tasks, st, ws, fixes, repo, resultVars, hooked, desk, userVars>>

\* Everything ran, or nothing can ("possible cycle").
WavesEnd ==
  /\ AtLoop /\ (AllCompleted \/ (control = "continue" /\ Ready = {}))
  /\ pc' = "capture"
  /\ UNCHANGED <<mode, tasks, st, ws, fixes, repo, resultVars, hooked, desk, userVars>>

\* The spawn loop takes the wave's tasks one by one and waits for a graph
\* execution before it goes on; agents spawned earlier run meanwhile.
Queue == {i \in DOMAIN tasks : st[tasks[i].id] = "queued"}
AtDispatch(t) == /\ pc = "dispatch" /\ In({"graph", "check"}) = {}
                 /\ Queue # {} /\ t = tasks[Min(Queue)]

\* A result: the task is complete and its hook has fired.
Finish(id, outcome) ==
  /\ st' = [st EXCEPT ![id] = outcome]
  /\ hooked' = [hooked EXCEPT ![id] = @ + 1]
  /\ anyApplied' = (anyApplied \/ outcome = "applied")

DirectEdit(t) ==
  /\ AtDispatch(t) /\ t.edit # NoPath /\ There(ws[t.id][t.edit])
  /\ ws' = [ws EXCEPT ![t.id] = Edited(@, t.id, {t.edit}, {})]
  /\ Finish(t.id, "applied")
  /\ UNCHANGED <<mode, pc, tasks, fixes, repo, captured, halted, desk, userVars>>

\* No direct edit, or its OLD block was not found.
UseGraph(t) ==
  /\ AtDispatch(t) /\ t.template # "none"
  /\ st' = [st EXCEPT ![t.id] = "graph"] /\ fixes' = 0
  /\ UNCHANGED <<mode, pc, tasks, ws, repo, resultVars, hooked, desk, userVars>>

SpawnAgent(t) ==
  /\ AtDispatch(t) /\ t.template = "none"
  /\ st' = [st EXCEPT ![t.id] = "agent"]
  /\ UNCHANGED <<mode, pc, tasks, ws, fixes, repo, resultVars, hooked, desk, userVars>>

Template(t) == IF t.files[1] \in DocFiles THEN "doc" ELSE t.template
CanGenerate(t) ==
  /\ Template(t) \in {"edit", "create", "refactor", "doc"}
  /\ Template(t) = "edit" => There(ws[t.id][t.files[1]])

\* The generated blocks are applied; a document is not checked.
GraphGenerates(t) ==
  /\ st[t.id] = "graph" /\ CanGenerate(t)
  /\ \E W \in SUBSET Touched : \E D \in SUBSET (Touched \ W) :
       ws' = [ws EXCEPT ![t.id] = Edited(@, t.id, W, D)]
  /\ IF Template(t) = "doc" THEN Finish(t.id, "applied")
     ELSE /\ st' = [st EXCEPT ![t.id] = "check"]
          /\ UNCHANGED <<hooked, anyApplied>>
  /\ UNCHANGED <<mode, pc, tasks, fixes, repo, captured, halted, desk, userVars>>

GraphPasses(t) ==
  /\ st[t.id] = "check" /\ Finish(t.id, "applied")
  /\ UNCHANGED <<mode, pc, tasks, ws, fixes, repo, captured, halted, desk, userVars>>

GraphFixes(t) ==
  /\ st[t.id] = "check" /\ fixes < MaxRetries - 1
  /\ \E W \in SUBSET Touched : ws' = [ws EXCEPT ![t.id] = Edited(@, t.id, W, {})]
  /\ fixes' = fixes + 1
  /\ UNCHANGED <<mode, pc, tasks, st, repo, resultVars, hooked, desk, userVars>>

\* Out of checks, or an error (unknown template, missing file, truncated
\* document, failed inference, OLD block not found): an agent takes the task over
\* in the workspace as it was left, partly edited or not.
GraphGivesUp(t) ==
  /\ st[t.id] \in {"graph", "check"}
  /\ \E W \in SUBSET Touched :
       /\ (st[t.id] = "graph" /\ ~CanGenerate(t)) => W = {}
       /\ (st[t.id] = "check" /\ fixes = MaxRetries - 1) => W = {}
       /\ ws' = [ws EXCEPT ![t.id] = Edited(@, t.id, W, {})]
  /\ st' = [st EXCEPT ![t.id] = "agent"]
  /\ UNCHANGED <<mode, pc, tasks, fixes, repo, resultVars, hooked, desk, userVars>>

DispatchEnds ==
  /\ pc = "dispatch" /\ Queue = {} /\ In({"graph", "check"}) = {}
  /\ pc' = "join"
  /\ UNCHANGED <<mode, tasks, st, ws, fixes, repo, resultVars, hooked, desk, userVars>>

\* What the agent reports need not be what it wrote: an error or a fallback
\* leaves edits behind, an OLD block that is not found counts as an edit.
AgentEnds(id, outcome) ==
  /\ st[id] = "agent"
  /\ \E W \in SUBSET Touched : \E D \in SUBSET (Touched \ W) :
       ws' = [ws EXCEPT ![id] = Edited(@, id, W, D)]
  /\ st' = [st EXCEPT ![id] = Ended(outcome)]
  /\ UNCHANGED <<mode, pc, tasks, fixes, repo, resultVars, hooked, desk, userVars>>

JoinNext(id, outcome) ==
  /\ pc = "join" /\ st[id] = Ended(outcome)
  /\ Finish(id, outcome)
  /\ UNCHANGED <<mode, pc, tasks, ws, fixes, repo, captured, halted, desk, userVars>>

\* The join error does not say which task panicked: it has no result and is
\* ready again in the next wave.
JoinPanicked(id) ==
  /\ pc = "join" /\ st[id] = "e-panic"
  /\ st' = [st EXCEPT ![id] = "pending"]
  /\ UNCHANGED <<mode, pc, tasks, ws, fixes, repo, resultVars, hooked, desk, userVars>>

WaveEnds ==
  /\ pc = "join" /\ In(Underway) = {}
  /\ pc' = "loop"
  /\ UNCHANGED <<mode, tasks, st, ws, fixes, repo, resultVars, hooked, desk, userVars>>

\* What the capture may keep: a lock file only if a manifest changed beside it.
Listed(id, f) ==
  /\ f \notin Unseen
  /\ f \in LockFiles => \E m \in Manifests : ws[id][m] # repo[m]

\* The file exists and is not the one of the run's clone.
Differs(id, f) == There(ws[id][f]) /\ ws[id][f] # repo[f]

HasChanged(id, f) == Differs(id, f) /\ Listed(id, f)

\* Mutant: every workspace is captured, whatever became of its task.
Captures_Everything(f) ==
  LET who == {i \in DOMAIN tasks : HasChanged(tasks[i].id, f)}
  IN  [n \in 1 .. Cardinality(who) |-> ws[tasks[Nth(who, n)].id][f]]

\* The tasks that were applied and whose workspaces hold another version of a file.
Changers(f) ==
  {i \in DOMAIN tasks : st[tasks[i].id] = "applied" /\ HasChanged(tasks[i].id, f)}

\* Per path: their versions, in plan order.
Captures(f) == [n \in 1 .. Cardinality(Changers(f)) |-> ws[tasks[Nth(Changers(f), n)].id][f]]

Capture ==
  /\ pc = "capture"
  /\ captured' = [f \in Paths |-> IF anyApplied THEN Captures(f) ELSE <<>>]
  /\ pc' = "done"
  /\ UNCHANGED <<mode, tasks, st, ws, fixes, repo, anyApplied, halted, hooked, desk, userVars>>
-----------------------------------------------------------------------------
(* Zero-disk mode: one task after the other, dependencies and RunControl    *)
(* unread, every task on its own copy of the branch.  A small task goes to  *)
(* the agent-worker component (components/agent-worker/src/lib.rs), which    *)
(* applies the model's edits to a copy of its own and sends the text along;  *)
(* the runner applies them again.                                           *)

Remaining == {i \in DOMAIN tasks : st[tasks[i].id] = "pending"}
AtTask(t) == /\ pc = "loop" /\ mode = "virtual" /\ In({"fetched", "posted"}) = {}
             /\ Remaining # {} /\ t = tasks[Min(Remaining)]

Fetched(t, loaded) == [f \in Paths |-> IF f \in loaded THEN Pristine[f] ELSE Gone]
Loadable(t) == SUBSET (ToSet(t.files) \cap RepoFiles)
Collect(tree, W) == [f \in Paths |-> IF f \in W THEN Append(captured[f], tree[f]) ELSE captured[f]]

Present(tree) == {f \in Paths : There(tree[f])}

\* The task's files from the GitHub API; those it does not get are left out.
Fetch(t) ==
  /\ AtTask(t)
  /\ \E loaded \in Loadable(t) : ws' = [ws EXCEPT ![t.id] = Fetched(t, loaded)]
  /\ st' = [st EXCEPT ![t.id] = "fetched"]
  /\ UNCHANGED <<mode, pc, tasks, fixes, repo, resultVars, hooked, desk, userVars>>

\* Large files: the native agent over a VirtFileProvider.  What it wrote is
\* captured whether or not it succeeded; a deletion goes to the disk.
NativeAgent(t, outcome) ==
  /\ st[t.id] = "fetched" /\ Present(ws[t.id]) # {}
  /\ \E W \in SUBSET Touched : \E D \in SUBSET (Touched \ W) :
       /\ ws' = [ws EXCEPT ![t.id] = Edited(@, t.id, W, {})]
       /\ captured' = Collect(ws'[t.id], W)
       /\ repo' = Edited(repo, t.id, {}, D)
       /\ anyApplied' = (anyApplied \/ W # {} \/ outcome = "applied")
  /\ st' = [st EXCEPT ![t.id] = outcome]
  /\ hooked' = [hooked EXCEPT ![t.id] = @ + 1]
  /\ UNCHANGED <<mode, pc, tasks, fixes, halted, desk, userVars>>

\* The object store: the runner puts a file under StoredKey, the worker's adapter
\* looks every key up as the key of a blob.
StoredKey(f) == <<"file", f>>
Lookup(key)  == <<"blob", key>>
FromStore(tree) ==
  {f \in Present(tree) : Lookup(StoredKey(f)) \in {StoredKey(g) : g \in Present(tree)}}

\* What the worker has loaded: the files it finds in the store, then those the
\* request itself holds, which are all the runner has.
Received(tree) ==
  [f \in Paths |-> IF f \in FromStore(tree) \cup Present(tree) THEN tree[f] ELSE Gone]

\* The files are stored, and the worker is called with them in the request.
Post(t) ==
  /\ st[t.id] = "fetched"
  /\ st' = [st EXCEPT ![t.id] = "posted"]
  /\ desk' = [NoRequest EXCEPT !.at = "asked", !.tree = Received(ws[t.id])]
  /\ UNCHANGED <<mode, pc, tasks, ws, fixes, repo, resultVars, hooked, userVars>>

Reply(answer) == desk' = [desk EXCEPT !.at = answer]
WorkerOnly == UNCHANGED <<mode, pc, tasks, st, ws, fixes, repo, resultVars, hooked, userVars>>

\* Inference failed (a status, no content, a file whose control characters the
\* hand-written request does not escape).  The error's text is not escaped in
\* the worker's own answer, which then is no JSON.
InferenceFails ==
  /\ desk.at = "asked"
  /\ \E answer \in {"error", "garbled"} : Reply(answer)
  /\ WorkerOnly

\* What the edits of an answer do to a file, here and at the runner: an OLD block
\* found as it is ("exact"), only when spaces are ignored ("fuzzy", not here), an
\* empty one ("blank", only here), one not found or a deletion ("missed").
Fits == {"none", "exact", "fuzzy", "blank", "missed", "create"}
Hit(tree, fits, kinds) ==
  {f \in Touched : fits[f] = "create" \/ (fits[f] \in kinds /\ f \in Present(tree))}

\* The edits of one answer, none when it does not parse, and the edited files.
WorkerAnswers(id) ==
  /\ desk.at = "asked" /\ st[id] = "posted"
  /\ \E fits \in [Touched -> Fits] :
       desk' = [at |-> "ok", fits |-> fits,
                tree |-> Edited(desk.tree, id, Hit(desk.tree, fits, {"exact", "blank"}), {})]
  /\ WorkerOnly

Sent(t)    == st[t.id] = "posted" /\ desk.at = "ok" /\ \E f \in Touched : desk.fits[f] # "none"
Applied(t) == Hit(ws[t.id], desk.fits, {"exact", "fuzzy"})
HasDiff    == Hit(desk.tree, desk.fits, {"exact", "blank"}) # {}

\* The answered edits are applied again, to the runner's copy, and captured.
WorkerEdits(t) ==
  /\ Sent(t) /\ Applied(t) # {}
  /\ ws' = [ws EXCEPT ![t.id] = Edited(@, t.id, Applied(t), {})]
  /\ captured' = Collect(ws'[t.id], Applied(t))
  /\ Finish(t.id, "applied") /\ desk' = NoRequest
  /\ UNCHANGED <<mode, pc, tasks, fixes, repo, halted, userVars>>

\* None of them changed a file here, yet the worker sent a diff: the files it
\* says it modified, edits not found among them, are captured as they were loaded.
WorkerDiffOnly(t) ==
  /\ Sent(t) /\ Applied(t) = {} /\ HasDiff
  /\ \E missed \in SUBSET Hit(ws[t.id], desk.fits, {"missed"}) :
       captured' = Collect(ws[t.id], Hit(ws[t.id], desk.fits, {"blank"}) \cup missed)
  /\ Finish(t.id, "applied") /\ desk' = NoRequest
  /\ UNCHANGED <<mode, pc, tasks, ws, fixes, repo, halted, userVars>>

\* Nothing changed anywhere: the task counts as applied if any before it was.
WorkerMissed(t) ==
  /\ Sent(t) /\ Applied(t) = {} /\ ~HasDiff
  /\ Finish(t.id, IF anyApplied THEN "applied" ELSE "noop") /\ desk' = NoRequest
  /\ UNCHANGED <<mode, pc, tasks, ws, fixes, repo, captured, halted, userVars>>

\* No edits, an error status, or no answer: a transport error or the 300 s of
\* the call, whatever the worker is at.
WorkerFails(t) ==
  /\ st[t.id] = "posted" /\ (desk.at \in {"asked", "error"} \/ (desk.at = "ok" /\ ~Sent(t)))
  /\ Finish(t.id, "error") /\ desk' = NoRequest
  /\ UNCHANGED <<mode, pc, tasks, ws, fixes, repo, captured, halted, userVars>>

\* A response that is no JSON leaves the task without a result.
WorkerGarbled(t) ==
  /\ st[t.id] = "posted" /\ desk.at = "garbled"
  /\ st' = [st EXCEPT ![t.id] = "dropped"] /\ desk' = NoRequest
  /\ UNCHANGED <<mode, pc, tasks, ws, fixes, repo, resultVars, hooked, userVars>>

LoopEnds ==
  /\ pc = "loop" /\ mode = "virtual" /\ Remaining = {} /\ In({"fetched", "posted"}) = {}
  /\ pc' = "done"
  /\ UNCHANGED <<mode, tasks, st, ws, fixes, repo, resultVars, hooked, desk, userVars>>
-----------------------------------------------------------------------------
Request(c) ==
  /\ requests < MaxRequests /\ control # c /\ pc \notin {"done", "failed"}
  /\ control' = c /\ requests' = requests + 1
  /\ UNCHANGED <<mode, pc, tasks, st, ws, fixes, repo, resultVars, hooked, desk>>

DiskStep ==
  \/ StartWave \/ CloneFails \/ Halt \/ WavesEnd
  \/ \E i \in DOMAIN tasks : DirectEdit(tasks[i])
  \/ \E i \in DOMAIN tasks : UseGraph(tasks[i])
  \/ \E i \in DOMAIN tasks : SpawnAgent(tasks[i])
  \/ \E i \in DOMAIN tasks : GraphGenerates(tasks[i])
  \/ \E i \in DOMAIN tasks : GraphPasses(tasks[i])
  \/ \E i \in DOMAIN tasks : GraphFixes(tasks[i])
  \/ \E i \in DOMAIN tasks : GraphGivesUp(tasks[i])
  \/ DispatchEnds
  \/ \E id \in TaskIds, o \in Outcomes \cup {"panic"} : AgentEnds(id, o)
  \/ \E id \in TaskIds, o \in Outcomes : JoinNext(id, o)
  \/ \E id \in TaskIds : JoinPanicked(id)
  \/ WaveEnds \/ Capture

VirtualStep ==
  \/ \E i \in DOMAIN tasks : Fetch(tasks[i])
  \/ \E i \in DOMAIN tasks : Post(tasks[i])
  \/ InferenceFails
  \/ \E id \in TaskIds : WorkerAnswers(id)
  \/ \E i \in DOMAIN tasks : WorkerMissed(tasks[i])
  \/ \E i \in DOMAIN tasks, o \in Outcomes : NativeAgent(tasks[i], o)
  \/ \E i \in DOMAIN tasks : WorkerEdits(tasks[i])
  \/ \E i \in DOMAIN tasks : WorkerDiffOnly(tasks[i])
  \/ \E i \in DOMAIN tasks : WorkerFails(tasks[i])
  \/ \E i \in DOMAIN tasks : WorkerGarbled(tasks[i])
  \/ LoopEnds

System == PlanGoal \/ PlanningFails \/ DiskStep \/ VirtualStep
Next == System \/ \E c \in {"continue", "pause", "cancel"} : Request(c)

Spec == Init /\ [][Next]_vars
\* Inference and git calls have timeouts and the runner never waits for a user.
FairSpec == Spec /\ WF_vars(System)
-----------------------------------------------------------------------------
(* Properties                                                               *)

TypeOK ==
  /\ mode \in Modes /\ pc \in {"plan", "loop", "dispatch", "join", "capture", "done", "failed"}
  /\ st \in [TaskIds -> Statuses] /\ ws \in [TaskIds -> Tree] /\ repo \in Tree
  /\ IdsOf(tasks) \subseteq TaskIds /\ fixes \in 0 .. MaxRetries
  /\ anyApplied \in BOOLEAN /\ halted \in BOOLEAN
  /\ captured \in [Paths -> Seq(Content)]
  /\ desk \in [at : {"idle", "asked", "error", "garbled", "ok"}, tree : Tree,
               fits : [Touched -> Fits]]
  /\ control \in {"continue", "pause", "cancel"}
  /\ hooked \in [TaskIds -> Nat] /\ requests \in Nat

\* A workspace holds, besides its own task's edits, only those of completed
\* tasks: concurrent agents never see each other's work, and a task that
\* panicked leaves nothing to the tasks after it (memtree.rs: agents work in
\* isolated clones).
IsolatedWork == \A id \in TaskIds, f \in Paths : Marks(ws[id][f]) \subseteq Completed \cup {id}

\* Whatever a run reports as modified was written by tasks that completed:
\* neither a halt, a panic nor a stuck plan leaks half-done edits into a result.
OnlyFinishedWork ==
  \A f \in Paths : \A i \in DOMAIN captured[f] : Marks(captured[f][i]) \subseteq Completed

\* With distinct ids a run that ends by itself leaves a task out only if some
\* dependency names a task that is not in the plan: "possible cycle" is never a
\* cycle, because parse_plan refused those (runner.rs:674-677).
StuckOnlyOnDangling ==
  (pc = "done" /\ mode = "disk" /\ ~halted) =>
    AllCompleted \/ \E id \in PlannedIds \ Completed : Dangling(tasks, id)

\* Each completed task has fired its task hook exactly once, a task without a
\* result none: trajectories list what happened, retries after a panic included.
HookPerResult == \A id \in TaskIds : hooked[id] = IF id \in Completed THEN 1 ELSE 0

Concerned(i, f) ==
  \/ f \in ToSet(tasks[i].files)
  \/ st[tasks[i].id] # "pending" /\ ws[tasks[i].id][f] # repo[f]
Chained(f) == \A i, j \in DOMAIN tasks :
  i # j /\ Concerned(i, f) /\ Concerned(j, f) =>
    \/ /\ tasks[i].id \in ToSet(tasks[j].depends_on) /\ f \in ToSet(tasks[i].files)
    \/ /\ tasks[j].id \in ToSet(tasks[i].depends_on) /\ f \in ToSet(tasks[j].files)
Position(id) == CHOOSE i \in DOMAIN tasks : tasks[i].id = id
InPlanOrder == \A i \in DOMAIN tasks :
  LET d == tasks[i].depends_on
      at == [k \in DOMAIN d |-> IF d[k] \in PlannedIds THEN Position(d[k]) ELSE 0]
  IN  \A k \in DOMAIN d : at[k] < i /\ \A l \in 1 .. k - 1 : at[l] < at[k]
EditsSurvive(f) ==
  \A id \in PlannedIds : st[id] = "applied" /\ id \in ws[id][f] /\ There(ws[id][f]) =>
    captured[f] # <<>> /\ id \in captured[f][Len(captured[f])]

\* The capture passes over no applied task's version of the file.
Unfiltered(f) == \A id \in PlannedIds : st[id] = "applied" /\ Differs(id, f) => Listed(id, f)

\* When the tasks on a file all depend on each other, declare it, and the plan
\* and its depends_on lists name them in that order, the version of the file the
\* run ends with holds every applied task's edits, unless the capture's filter
\* dropped one of their versions (runner.rs:960-984).
InOrderEditsSurvive ==
  (pc = "done" /\ mode = "disk" /\ InPlanOrder) =>
    \A f \in Paths : Chained(f) /\ Unfiltered(f) => EditsSurvive(f)

\* The same from depends_on alone, which is what the planner is told suffices
\* (planner_types.rs:42).
DependentEditsSurvive ==
  (pc = "done" /\ mode = "disk") =>
    \A f \in Paths : Chained(f) /\ Unfiltered(f) => EditsSurvive(f)

\* "Use git diff to find ALL changed files (not just task.files)" (runner.rs:953).
AllChangesCaptured ==
  (pc = "done" /\ mode = "disk") =>
    \A id \in PlannedIds, f \in Paths :
      st[id] = "applied" /\ Differs(id, f) => captured[f] # <<>>

\* "keep Cargo.lock only when a Cargo.toml also changed (a real dependency edit)"
\* (runner.rs:974-976): a result with a changed lock file has a changed manifest.
NoLockChurn ==
  (pc = "done" /\ mode = "disk" /\ \A m \in Manifests : captured[m] = <<>>) =>
    \A f \in LockFiles : captured[f] = <<>>

\* A run ends, whatever its agents report and whoever pauses it, unless agents panic
\* again and again: a panicked task is ready for the next wave, without limit
\* (runner.rs:668-675, 934).
RunEnds == <>(pc \in {"done", "failed"}) \/ []<>(\E id \in TaskIds : st[id] = "e-panic")

DiskPlan == mode = "disk"
Needs == [id \in TaskIds |->
            IF DiskPlan /\ id \in PlannedIds THEN ToSet(TaskOf(id).depends_on) \cap TaskIds
            ELSE {}]
Dag == INSTANCE DagExecution
         WITH Tasks <- TaskIds, Width <- MaxConcurrent, needs <- Needs,
              running <- IF DiskPlan THEN In(Underway) ELSE {},
              ended <- IF DiskPlan THEN Completed ELSE {}
\* The waves execute the plan's graph: DagExecution's promise, in disk mode.
ExecutesDag == Dag!Spec
=============================================================================
