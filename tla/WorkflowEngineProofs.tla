------------------------- MODULE WorkflowEngineProofs -------------------------
(***************************************************************************)
(* Proofs about WorkflowModel and WorkflowEngine, for every set of files,   *)
(* every set of plans, every replan budget and any number of requests and   *)
(* faults.  The first part is what the operators on documents return and    *)
(* preserve; the second one is about the engine that applies them.          *)
(*                                                                         *)
(* `GoodDoc` is what every operation on a document keeps: the type, that a  *)
(* step still to run has recorded no output, and that a checkpoint which    *)
(* claims to be complete has content for all outputs of Passed steps.       *)
(***************************************************************************)
EXTENDS WorkflowEngine, TLAPS, WellFoundedInduction

-----------------------------------------------------------------------------
(* The order of steps has a maximum on every non-empty set of ids.          *)

Less == {p \in Nat \X Nat : p[1] < p[2]}

\* The order of the naturals is well-founded.
LEMMA LessWellFounded == IsWellFoundedOn(Less, Nat)
<1>1. Less = OpToRel(<, Nat)
  BY Zenon DEF Less, OpToRel
<1>2. QED
  BY <1>1, NatLessThanWellFounded, Zenon

\* A bounded set of naturals has a maximum.
LEMMA BoundedMaximum ==
  ASSUME NEW B \in Nat, NEW S, S \subseteq 0 .. B, S # {}
  PROVE  \E m \in S : \A k \in S : k <= m
<1> DEFINE T == {n \in Nat : \E k \in S : n = B - k}
<1>1. \A k \in S : k \in Nat /\ B - k \in T
  OBVIOUS
<1>2. T \subseteq Nat /\ T # {}
  BY <1>1
<1>3. PICK x \in T : \A y \in T : <<y, x>> \notin Less
  <2> HIDE DEF T
  <2>1. QED
    BY <1>2, LessWellFounded, WFMin, Zenon
<1>4. PICK m \in S : x = B - m
  OBVIOUS
<1>5. ASSUME NEW k \in S PROVE k <= m
  <2>1. B - k \in T /\ B - k \in Nat /\ B - m \in Nat
    BY <1>1
  <2>2. ~(B - k < B - m)
    BY <1>3, <1>4, <2>1 DEF Less
  <2>3. QED
    BY <2>2, <1>1
<1>6. QED
  BY <1>5

\* A step id is a pair of a replan and a number.
LEMMA IdParts ==
  ASSUME NEW s \in StepId
  PROVE  /\ s = <<s[1], s[2]>>
         /\ s[1] \in 0 .. MaxReplans /\ s[2] \in 1 .. (MaxTasks + 1)
BY DEF StepId

\* The gate has a step id; NoStep is none.
LEMMA SpecialIds == GateId \in StepId /\ NoStep \notin StepId
BY BoundsAssumption DEF GateId, NoStep, StepId

\* A set of steps has a last one in the order of the document.
LEMMA LastOfSteps ==
  ASSUME NEW S, S \subseteq StepId, S # {}
  PROVE  \E s \in S : \A t \in S : t = s \/ Before(t, s)
<1> DEFINE R == {r \in 0 .. MaxReplans : \E s \in S : s[1] = r}
<1>1. \A s \in S : s[1] \in R
  BY IdParts
<1>2. R \subseteq 0 .. MaxReplans /\ R # {}
  BY <1>1
<1>3. PICK m \in R : \A r \in R : r <= m
  <2> HIDE DEF R
  <2>1. QED
    BY <1>2, BoundedMaximum, BoundsAssumption
<1> DEFINE K == {k \in 0 .. (MaxTasks + 1) : \E s \in S : s[1] = m /\ s[2] = k}
<1>4. \A s \in S : s[1] = m => s[2] \in K
  BY IdParts
<1>5. K \subseteq 0 .. (MaxTasks + 1) /\ K # {}
  BY <1>4
<1>6. PICK n \in K : \A k \in K : k <= n
  <2> HIDE DEF K
  <2>1. MaxTasks + 1 \in Nat
    BY BoundsAssumption
  <2>2. QED
    BY <1>5, <2>1, BoundedMaximum
<1>7. PICK s \in S : s[1] = m /\ s[2] = n
  OBVIOUS
<1>8. ASSUME NEW t \in S PROVE t = s \/ Before(t, s)
  <2>1. t[1] <= m /\ (t[1] = m => t[2] <= n)
    BY <1>1, <1>3, <1>4, <1>6
  <2>2. /\ t = <<t[1], t[2]>> /\ s = <<s[1], s[2]>>
        /\ t[1] \in 0 .. MaxReplans /\ t[2] \in 1 .. (MaxTasks + 1)
        /\ s[1] \in 0 .. MaxReplans /\ s[2] \in 1 .. (MaxTasks + 1)
    BY IdParts
  <2>3. CASE t[1] = m /\ t[2] = n
    BY <2>2, <2>3, <1>7
  <2>4. CASE t[1] # m \/ t[2] # n
    BY <2>1, <2>2, <2>4, <1>7, BoundsAssumption DEF Before
  <2>5. QED
    BY <2>3, <2>4
<1>9. QED
  BY <1>8

-----------------------------------------------------------------------------
(* The checkpoint.                                                          *)

\* The writer kept for a path is one of its writers, if it has any, and else the
\* earlier one.
LEMMA LastWriterFact ==
  ASSUME NEW writes, NEW f, NEW old \in StepId \cup {NoStep}
  PROVE  /\ LastWriter(writes, f, old) \in StepId \cup {NoStep}
         /\ (\A s \in StepId : <<s, f>> \notin writes) => LastWriter(writes, f, old) = old
         /\ (\E s \in StepId : <<s, f>> \in writes) =>
              LastWriter(writes, f, old) = LastWriter(writes, f, NoStep)
<1> DEFINE by == {s \in StepId : <<s, f>> \in writes}
<1>1. CASE by = {}
  BY <1>1 DEF LastWriter
<1>2. CASE by # {}
  <2>1. by \subseteq StepId
    OBVIOUS
  <2>2. \E s \in by : \A t \in by : t = s \/ Before(t, s)
    <3> HIDE DEF by
    <3>1. QED
      BY <1>2, <2>1, LastOfSteps
  <2>3. /\ LastWriter(writes, f, old) = CHOOSE s \in by : \A t \in by : t = s \/ Before(t, s)
        /\ LastWriter(writes, f, NoStep) = CHOOSE s \in by : \A t \in by : t = s \/ Before(t, s)
    BY <1>2 DEF LastWriter
  <2>4. LastWriter(writes, f, old) \in by
    <3> HIDE DEF by
    <3>1. QED
      BY <2>2, <2>3
  <2>5. QED
    BY <1>2, <2>3, <2>4
<1>3. QED
  BY <1>1, <1>2

\* absorb_captured keeps the last version of a written file and the old one of any
\* other.
LEMMA OverlayFact ==
  ASSUME NEW files \in Capture, NEW writes
  PROVE  /\ Overlay(files, writes) \in Capture
         /\ \A f \in Files : (\A s \in StepId : <<s, f>> \notin writes) =>
              Overlay(files, writes)[f] = files[f]
         /\ \A f \in Files, s \in StepId : LastWriter(writes, f, NoStep) = s =>
              Overlay(files, writes)[f] = s
<1>1. \A f \in Files : Overlay(files, writes)[f] = LastWriter(writes, f, files[f])
  BY DEF Overlay
<1>2. \A f \in Files : files[f] \in StepId \cup {NoStep}
  BY DEF Capture
<1>3. ASSUME NEW f \in Files
      PROVE  /\ LastWriter(writes, f, files[f]) \in StepId \cup {NoStep}
             /\ (\A s \in StepId : <<s, f>> \notin writes) =>
                  LastWriter(writes, f, files[f]) = files[f]
             /\ \A s \in StepId : LastWriter(writes, f, NoStep) = s =>
                  LastWriter(writes, f, files[f]) = s
  <2>1. files[f] \in StepId \cup {NoStep} /\ NoStep \in StepId \cup {NoStep}
    BY <1>2
  <2>2. /\ LastWriter(writes, f, files[f]) \in StepId \cup {NoStep}
        /\ (\A s \in StepId : <<s, f>> \notin writes) =>
             LastWriter(writes, f, files[f]) = files[f]
        /\ (\E s \in StepId : <<s, f>> \in writes) =>
             LastWriter(writes, f, files[f]) = LastWriter(writes, f, NoStep)
    BY <2>1, LastWriterFact, Zenon
  <2>3. (\A s \in StepId : <<s, f>> \notin writes) => LastWriter(writes, f, NoStep) = NoStep
    BY <2>1, LastWriterFact, Zenon
  <2>4. QED
    BY <2>2, <2>3, SpecialIds
<1>4. Overlay(files, writes) \in Capture
  BY <1>1, <1>3 DEF Overlay, Capture
<1>5. QED
  BY <1>1, <1>3, <1>4

\* Two file maps that agree where the first has content still do after the
\* same writes.
LEMMA OverlayAgrees ==
  ASSUME NEW files \in Capture, NEW others \in Capture, NEW writes,
         \A f \in Files : files[f] # NoStep => others[f] = files[f]
  PROVE  \A f \in Files : Overlay(files, writes)[f] # NoStep
                            => Overlay(others, writes)[f] = Overlay(files, writes)[f]
BY DEF Overlay, LastWriter

-----------------------------------------------------------------------------
(* Documents.                                                               *)

Clean(steps) ==
  \A id \in StepId : steps[id].state \in {"pending", "running"} => steps[id].out = {}

GoodDoc(w) ==
  /\ w \in Workflow
  /\ Clean(w.steps)
  /\ w.complete => Covers(w.captured, w.steps)

\* No step is Passed with an output that was not a Passed step's before.
NoNewOutput(new, old) ==
  \A id \in StepId : new[id].state = "passed" =>
    new[id].out = {} \/ (old[id].state = "passed" /\ new[id].out = old[id].out)

\* A capture that covers some passed steps covers fewer passed steps.
LEMMA CoversKept ==
  ASSUME NEW new, NEW old, NoNewOutput(new, old), NEW files, Covers(files, old)
  PROVE  Covers(files, new)
BY DEF NoNewOutput, Covers, InState

\* Steps without new output keep a document good.
LEMMA GoodSteps ==
  ASSUME NEW w, GoodDoc(w), NEW steps \in [StepId -> Step],
         Clean(steps), NoNewOutput(steps, w.steps)
  PROVE  GoodDoc([w EXCEPT !.steps = steps])
<1> DEFINE v == [w EXCEPT !.steps = steps]
<1>1. /\ v \in Workflow /\ v.steps = steps
      /\ v.captured = w.captured /\ v.complete = w.complete
  BY DEF GoodDoc, Workflow
<1>2. w.complete => Covers(w.captured, steps)
  BY CoversKept DEF GoodDoc
<1> HIDE DEF v
<1>3. GoodDoc(v)
  BY <1>1, <1>2 DEF GoodDoc
<1>4. QED
  BY <1>3 DEF v

\* A transition touches nothing but the state.
LEMMA GoodTransition ==
  ASSUME NEW w, GoodDoc(w), NEW to \in WorkflowState
  PROVE  /\ GoodDoc(Transition(w, to))
         /\ Transition(w, to).steps = w.steps
         /\ Transition(w, to).captured = w.captured
         /\ Transition(w, to).complete = w.complete
<1> DEFINE v == [w EXCEPT !.state = to]
<1>1. /\ v \in Workflow /\ v.steps = w.steps
      /\ v.captured = w.captured /\ v.complete = w.complete
  BY DEF GoodDoc, Workflow
<1>2. GoodDoc(v)
  BY <1>1 DEF GoodDoc
<1>3. QED
  BY <1>1, <1>2 DEF Transition

\* A planned task becomes a pending step without output.
LEMMA StepOfType ==
  ASSUME NEW task \in Task, NEW deps \in SUBSET StepId
  PROVE  /\ StepOf(task, deps) \in Step
         /\ StepOf(task, deps).state = "pending" /\ StepOf(task, deps).out = {}
BY DEF StepOf, Task, Step, StepState

\* An absent step is well-typed and has no output.
LEMMA AbsentType == Absent \in Step /\ Absent.state = "absent" /\ Absent.out = {}
BY DEF Absent, Step, StepState, Kind

\* A new workflow of pending steps is good.
LEMMA FreshSteps ==
  ASSUME NEW steps \in [StepId -> Step],
         \A id \in StepId : steps[id].state \in {"absent", "pending"} /\ steps[id].out = {}
  PROVE  GoodDoc(NewWorkflow(steps)) /\ NewWorkflow(steps).state = "created"
<1>1. /\ WithTrailingGate(steps) \in [StepId -> Step]
      /\ \A id \in StepId : /\ WithTrailingGate(steps)[id].state \in {"absent", "pending"}
                            /\ WithTrailingGate(steps)[id].out = {}
  <2> DEFINE gate == [Absent EXCEPT !.kind = "gate", !.state = "pending",
                                    !.deps = Present(steps)]
  <2>1. gate \in Step /\ gate.state = "pending" /\ gate.out = {}
    BY DEF Absent, Step, StepState, Kind, Present
  <2> HIDE DEF gate
  <2>2. /\ [steps EXCEPT ![GateId] = gate] \in [StepId -> Step]
        /\ \A id \in StepId : /\ [steps EXCEPT ![GateId] = gate][id].state \in {"absent", "pending"}
                              /\ [steps EXCEPT ![GateId] = gate][id].out = {}
    BY <2>1
  <2>3. QED
    BY <2>2 DEF WithTrailingGate, gate
<1> DEFINE w == NewWorkflow(steps)
<1>2. w.steps = WithTrailingGate(steps) /\ w.state = "created" /\ w.captured = NoFiles
  BY DEF NewWorkflow
<1>3. NoFiles \in Capture
  BY DEF NoFiles, Capture
<1>4. w \in Workflow
  BY <1>1, <1>3, BoundsAssumption DEF NewWorkflow, Workflow, WorkflowState
<1>5. Clean(w.steps) /\ Covers(w.captured, w.steps)
  BY <1>1, <1>2 DEF Clean, Covers, InState
<1>6. QED
  BY <1>2, <1>4, <1>5 DEF GoodDoc

\* Workflows built from a plan or a template are good.
LEMMA PlanSteps ==
  ASSUME NEW tasks, IsPlan(tasks)
  PROVE  /\ GoodDoc(NewWorkflow(Instantiate(tasks)))
         /\ GoodDoc(NewWorkflow(FromTasks(tasks)))
         /\ NewWorkflow(FromTasks(tasks)).state = "created"
         /\ GoodDoc(NewWorkflow(NoSteps))
<1>1. ASSUME NEW k \in DOMAIN tasks
      PROVE  /\ tasks[k] \in Task
             /\ {0} \X tasks[k].deps \subseteq StepId
             /\ [tasks[k] EXCEPT !.pre = FALSE, !.eff = {}] \in Task
  <2>1. tasks[k] \in Task
    BY DEF IsPlan
  <2>2. tasks[k].deps \subseteq 1 .. MaxTasks
    BY <2>1 DEF Task
  <2>3. ASSUME NEW d \in {0} \X tasks[k].deps PROVE d \in StepId
    <3>1. PICK j \in tasks[k].deps : d = <<0, j>>
      OBVIOUS
    <3>2. j \in 1 .. (MaxTasks + 1) /\ 0 \in 0 .. MaxReplans
      BY <2>2, BoundsAssumption
    <3>3. QED
      BY <3>1, <3>2 DEF StepId
  <2>4. [tasks[k] EXCEPT !.pre = FALSE, !.eff = {}] \in Task
    BY <2>1 DEF Task
  <2>5. QED
    BY <2>1, <2>3, <2>4
<1>2. ASSUME NEW id \in StepId
      PROVE  /\ Instantiate(tasks)[id] \in Step
             /\ Instantiate(tasks)[id].state \in {"absent", "pending"}
             /\ Instantiate(tasks)[id].out = {}
  <2>1. CASE id[1] = 0 /\ id[2] \in DOMAIN tasks
    <3>1. Instantiate(tasks)[id] = StepOf(tasks[id[2]], {0} \X tasks[id[2]].deps)
      BY <2>1 DEF Instantiate
    <3>2. tasks[id[2]] \in Task /\ {0} \X tasks[id[2]].deps \in SUBSET StepId
      BY <2>1, <1>1
    <3>3. QED
      BY ONLY <3>1, <3>2, StepOfType
  <2>2. CASE ~(id[1] = 0 /\ id[2] \in DOMAIN tasks)
    BY <2>2, AbsentType DEF Instantiate
  <2>3. QED
    BY <2>1, <2>2
<1>3. ASSUME NEW id \in StepId
      PROVE  /\ FromTasks(tasks)[id] \in Step
             /\ FromTasks(tasks)[id].state \in {"absent", "pending"}
             /\ FromTasks(tasks)[id].out = {}
  <2>1. CASE id[1] = 0 /\ id[2] \in DOMAIN tasks /\ tasks[id[2]].kind = "agent"
    <3>1. FromTasks(tasks)[id] = StepOf([tasks[id[2]] EXCEPT !.pre = FALSE, !.eff = {}],
                                       {0} \X tasks[id[2]].deps)
      BY <2>1 DEF FromTasks
    <3>2. /\ [tasks[id[2]] EXCEPT !.pre = FALSE, !.eff = {}] \in Task
          /\ {0} \X tasks[id[2]].deps \in SUBSET StepId
      BY <2>1, <1>1
    <3>3. QED
      BY ONLY <3>1, <3>2, StepOfType
  <2>2. CASE ~(id[1] = 0 /\ id[2] \in DOMAIN tasks /\ tasks[id[2]].kind = "agent")
    BY <2>2, AbsentType DEF FromTasks
  <2>3. QED
    BY <2>1, <2>2
<1>4. Instantiate(tasks) \in [StepId -> Step] /\ FromTasks(tasks) \in [StepId -> Step]
  BY <1>2, <1>3 DEF Instantiate, FromTasks
<1>5. NoSteps \in [StepId -> Step] /\ \A id \in StepId : NoSteps[id] = Absent
  BY AbsentType DEF NoSteps
<1>6. QED
  BY <1>2, <1>3, <1>4, <1>5, AbsentType, FreshSteps

\* reset_passed_steps keeps a document good and leaves no step passed.
LEMMA GoodReset ==
  ASSUME NEW w, GoodDoc(w)
  PROVE  /\ GoodDoc(ResetPassedSteps(w))
         /\ ResetPassedSteps(w).state = w.state
         /\ InState(ResetPassedSteps(w).steps, "passed") = {}
<1> DEFINE steps == [id \in StepId |->
                       IF w.steps[id].state = "passed"
                       THEN [w.steps[id] EXCEPT !.state = "pending", !.out = {}]
                       ELSE w.steps[id]]
           v == [w EXCEPT !.steps = steps, !.captured = NoFiles, !.complete = TRUE]
<1>1. w \in Workflow /\ \A id \in StepId : w.steps[id] \in Step
  BY DEF GoodDoc, Workflow
<1>2. ASSUME NEW id \in StepId
      PROVE  /\ steps[id] \in Step /\ steps[id].state # "passed"
             /\ steps[id].state \in {"pending", "running"} => steps[id].out = {}
  <2>1. w.steps[id] \in Step
    BY <1>1
  <2>2. CASE w.steps[id].state = "passed"
    <3>1. steps[id] = [w.steps[id] EXCEPT !.state = "pending", !.out = {}]
      BY <2>2
    <3>2. QED
      BY <2>1, <3>1 DEF Step, StepState
  <2>3. CASE w.steps[id].state # "passed"
    <3>1. steps[id] = w.steps[id]
      BY <2>3
    <3>2. QED
      BY <2>1, <2>3, <3>1 DEF GoodDoc, Clean
  <2>4. QED
    BY <2>2, <2>3
<1>3. steps \in [StepId -> Step]
  BY <1>2
<1>4. ResetPassedSteps(w) = v
  BY DEF ResetPassedSteps
<1> HIDE DEF steps
<1>5. v \in Workflow /\ v.steps = steps /\ v.state = w.state
  BY <1>1, <1>3 DEF Workflow, Capture, NoFiles
<1>6. QED
  BY <1>2, <1>4, <1>5 DEF GoodDoc, Clean, Covers, InState

\* splice_replan keeps a document good and creates no output.
LEMMA GoodSplice ==
  ASSUME NEW w, GoodDoc(w), w.replans < MaxReplans, NEW failed, NEW tasks, IsPlan(tasks)
  PROVE  LET v == SpliceReplan(w, failed, tasks)
         IN  /\ GoodDoc(v) /\ NoNewOutput(v.steps, w.steps)
             /\ v.state = w.state /\ v.captured = w.captured /\ v.complete = w.complete
<1> DEFINE n == w.replans + 1
           doomed == Doomed(w.steps, failed)
           Named(k) == IF k \in DOMAIN tasks THEN <<n, k>> ELSE <<0, k>>
           Deps(k) == {Named(j) : j \in tasks[k].deps} \ doomed
           steps == [id \in StepId |->
              IF id[1] = n
              THEN IF id[2] \in DOMAIN tasks THEN StepOf(tasks[id[2]], Deps(id[2])) ELSE Absent
              ELSE IF id \in doomed THEN Absent ELSE w.steps[id]]
           v == [w EXCEPT !.replans = n, !.steps = steps]
<1>1. SpliceReplan(w, failed, tasks) = v
  BY Zenon DEF SpliceReplan
<1>2. /\ w \in Workflow /\ w.replans \in 0 .. MaxReplans
      /\ \A id \in StepId : w.steps[id] \in Step
  BY DEF GoodDoc, Workflow
<1>3. n \in 0 .. MaxReplans
  BY <1>2, BoundsAssumption
<1>4. ASSUME NEW k \in DOMAIN tasks
      PROVE  tasks[k] \in Task /\ Deps(k) \subseteq StepId
  <2>1. tasks[k] \in Task /\ tasks[k].deps \subseteq 1 .. MaxTasks
    BY DEF IsPlan, Task
  <2>2. \A j \in tasks[k].deps : Named(j) \in StepId
    BY <2>1, <1>3, BoundsAssumption DEF StepId
  <2>3. QED
    BY <2>1, <2>2
<1> HIDE DEF Deps, doomed, n
<1>5. ASSUME NEW id \in StepId
      PROVE  /\ steps[id] \in Step
             /\ steps[id].state \in {"pending", "running"} => steps[id].out = {}
             /\ steps[id].state = "passed" => steps[id] = w.steps[id]
  <2>1. CASE id[1] = n /\ id[2] \in DOMAIN tasks
    <3>1. steps[id] = StepOf(tasks[id[2]], Deps(id[2]))
      BY <2>1
    <3>2. QED
      BY <2>1, <3>1, <1>4, StepOfType
  <2>2. CASE (id[1] = n /\ id[2] \notin DOMAIN tasks) \/ (id[1] # n /\ id \in doomed)
    <3>1. steps[id] = Absent
      BY <2>2
    <3>2. QED
      BY <3>1, AbsentType
  <2>3. CASE id[1] # n /\ id \notin doomed
    <3>1. steps[id] = w.steps[id]
      BY <2>3
    <3>2. QED
      BY <3>1, <1>2 DEF GoodDoc, Clean
  <2>4. QED
    BY <2>1, <2>2, <2>3
<1>6. steps \in [StepId -> Step]
  BY <1>5
<1>7. Clean(steps) /\ NoNewOutput(steps, w.steps)
  BY <1>5 DEF Clean, NoNewOutput
<1> HIDE DEF steps
<1>8. /\ v \in Workflow /\ v.steps = steps /\ v.state = w.state
      /\ v.captured = w.captured /\ v.complete = w.complete
  BY <1>2, <1>3, <1>6 DEF Workflow
<1>9. w.complete => Covers(w.captured, steps)
  BY <1>7, CoversKept DEF GoodDoc
<1> HIDE DEF v
<1>10. GoodDoc(v)
  BY <1>7, <1>8, <1>9 DEF GoodDoc
<1>11. QED
  BY <1>1, <1>7, <1>8, <1>10
-----------------------------------------------------------------------------
(* The engine.                                                              *)

Dormant == \E d \in docs : d.state \in {"paused", "cancelled"}

\* The aggregate and a complete checkpoint have the same content.
Agree(files, w) ==
  w.complete => \A f \in Files : files[f] # NoStep => w.captured[f] = files[f]

Session ==
  InSession => /\ wf.state = "running" /\ wf \in docs
               /\ Covers(agg, wf.steps) /\ Agree(agg, wf)

IInv ==
  /\ TypeOK
  /\ GoodDoc(wf) /\ \A d \in docs : GoodDoc(d)
  /\ pc = "start" => wf.state \notin Terminal /\ docs # {}
  /\ Session
  /\ pc = "paused" => Dormant
  /\ run = "paused" => pc = "idle" /\ Dormant

-----------------------------------------------------------------------------
\* No round in progress is well-typed.
LEMMA QuietType ==
  Quiet \in [batch : SUBSET StepId,
             res : UNION {[D -> Outcome] : D \in SUBSET StepId},
             writes : SUBSET (StepId \X Files)]
<1>1. [id \in {} |-> "noop"] \in [{} -> Outcome]
  BY DEF Outcome
<1>2. [id \in {} |-> "noop"] \in UNION {[D -> Outcome] : D \in SUBSET StepId}
  BY <1>1
<1>3. QED
  BY <1>2 DEF Quiet

\* The empty document is a good one.
LEMMA NoRunGood == GoodDoc(NoRun)
<1>1. IsPlan([k \in {} |-> 0])
  BY DEF IsPlan
<1>2. QED
  BY <1>1, PlanSteps DEF NoRun

\* The empty set of captured files is well-typed.
LEMMA NoFilesType == NoFiles \in Capture
BY DEF NoFiles, Capture

\* An update leaves one version of the documents.
LEMMA SavedFact ==
  ASSUME NEW w
  PROVE  Saved(w) \subseteq {w} /\ (docs # {} => Saved(w) = {w})
BY DEF Saved

\* The initial state satisfies the invariant.
LEMMA InitInv == Init => IInv
<1> SUFFICES ASSUME Init PROVE IInv
  OBVIOUS
<1>1. TypeOK
  BY QuietType, NoRunGood, NoFilesType, PlansAssumption
     DEF Init, TypeOK, PC, GoodDoc
<1>2. QED
  BY <1>1, NoRunGood DEF Init, IInv, Session, InSession

\* What the loop does to the document before it looks at the steps.
LEMMA CheckedFact ==
  ASSUME GoodDoc(wf)
  PROVE  /\ GoodDoc(Checked) /\ NoNewOutput(Checked.steps, wf.steps)
         /\ Checked.state = wf.state /\ Checked.replans = wf.replans
         /\ Checked.captured = wf.captured /\ Checked.complete = wf.complete
         /\ Failed = {} => Checked = wf
<1> DEFINE Unmet(id) == wf.steps[id].state = "pending" /\ wf.steps[id].pre /\ ~exists
           steps == [id \in StepId |->
                       IF Unmet(id) THEN [wf.steps[id] EXCEPT !.state = "failed"]
                       ELSE wf.steps[id]]
<1>1. Checked = [wf EXCEPT !.steps = steps]
  BY Zenon DEF Checked, CheckPreconditions
<1>2. wf \in Workflow /\ wf.steps \in [StepId -> Step]
  BY DEF GoodDoc, Workflow
<1>3. ASSUME NEW id \in StepId
      PROVE  /\ steps[id] \in Step
             /\ steps[id].state \in {"pending", "running"} => steps[id].out = {}
             /\ steps[id].state = "passed" => steps[id] = wf.steps[id]
             /\ Unmet(id) => steps[id].state = "failed"
  <2>1. wf.steps[id] \in Step
    BY <1>2
  <2>2. CASE Unmet(id)
    <3>1. steps[id] = [wf.steps[id] EXCEPT !.state = "failed"]
      BY <2>2
    <3>2. steps[id] \in Step /\ steps[id].state = "failed"
      BY <2>1, <3>1 DEF Step, StepState
    <3>3. QED
      BY <3>2
  <2>3. CASE ~Unmet(id)
    <3>1. steps[id] = wf.steps[id]
      BY <2>3
    <3>2. QED
      BY <2>1, <2>3, <3>1 DEF GoodDoc, Clean
  <2>4. QED
    BY <2>2, <2>3
<1>4. steps \in [StepId -> Step] /\ Clean(steps) /\ NoNewOutput(steps, wf.steps)
  BY <1>3 DEF Clean, NoNewOutput
<1>5. (\A id \in StepId : ~Unmet(id)) => steps = wf.steps
  BY <1>2
<1> HIDE DEF steps, Unmet
<1>6. GoodDoc(Checked)
  BY <1>1, <1>4, GoodSteps
<1>7. /\ Checked.steps = steps
      /\ Checked.state = wf.state /\ Checked.replans = wf.replans
      /\ Checked.captured = wf.captured /\ Checked.complete = wf.complete
      /\ steps = wf.steps => Checked = wf
  BY <1>1, <1>2 DEF Workflow
<1>8. Failed = {} => Checked = wf
  BY <1>3, <1>5, <1>7 DEF Failed, InState
<1>9. QED
  BY <1>4, <1>6, <1>7, <1>8

\* The loop goes on with a document that passed no step anew, or none with an
\* output.
LEMMA CheckpointKeeps ==
  ASSUME IInv, pc = "loop", NEW w, GoodDoc(w), w.state = "running",
         w.captured = wf.captured, w.complete = wf.complete,
         NoNewOutput(w.steps, wf.steps), Checkpoint(w)
  PROVE  IInv'
<1>1. wf' = w /\ pc' = "loop" /\ docs' = {w} /\ agg' = agg
  BY SavedFact DEF Checkpoint, IInv, Session, InSession
<1>2. run # "paused" /\ run' = run
  BY DEF IInv, Checkpoint
<1>3. TypeOK'
  BY <1>1 DEF IInv, TypeOK, Checkpoint, PC, GoodDoc, userVars
<1>4. Covers(agg, w.steps) /\ Agree(agg, w)
  BY CoversKept DEF IInv, Session, InSession, Agree
<1>5. QED
  BY <1>1, <1>2, <1>3, <1>4 DEF IInv, Session, InSession, Agree

\* execute returns.
LEMMA LeaveKeeps ==
  ASSUME IInv, pc = "loop", NEW w, GoodDoc(w), w.state = "running",
         NEW to \in WorkflowState, NEW outcome \in {"paused", "cancelled", "completed", "failed"},
         outcome = "paused" => to = "paused",
         Leave(w, to, outcome)
  PROVE  IInv'
<1>1. /\ wf' = Transition(w, to) /\ GoodDoc(wf') /\ docs' = {wf'}
      /\ pc' = outcome /\ run # "paused" /\ run' = run
  BY SavedFact, GoodTransition DEF Leave, IInv, Session, InSession
<1>2. TypeOK'
  BY <1>1 DEF IInv, TypeOK, Leave, PC, GoodDoc
<1>3. outcome = "paused" => wf'.state = "paused"
  <2>1. w \in Workflow
    BY DEF GoodDoc
  <2>2. QED
    BY <1>1, <2>1 DEF Transition, CanTransition, Workflow
<1>4. QED
  BY <1>1, <1>2, <1>3 DEF IInv, Session, InSession, Dormant

-----------------------------------------------------------------------------
(* The executor up to the loop.                                             *)

\* Loading or creating the document.
LEMMA LoadStep == ASSUME IInv, LoadWorkflow PROVE IInv'
<1>1. PICK d \in docs \cup {NewWorkflow(FromTasks(plan))} :
        /\ wf' = d /\ d.state \notin Terminal
        /\ docs' = docs \cup {d}
  <2>1. NewWorkflow(FromTasks(plan)).state = "created"
    BY PlanSteps, PlansAssumption DEF IInv, TypeOK
  <2>2. QED
    BY <2>1 DEF LoadWorkflow, Terminal
<1>2. GoodDoc(NewWorkflow(FromTasks(plan)))
  BY PlanSteps, PlansAssumption DEF IInv, TypeOK
<1>3. GoodDoc(d) /\ \A e \in docs' : GoodDoc(e)
  BY <1>1, <1>2 DEF IInv
<1>4. /\ pc' = "start" /\ run' = run /\ run # "paused" /\ agg' = agg
      /\ wf'.state \notin Terminal /\ docs' # {}
  BY <1>1 DEF LoadWorkflow, IInv
<1>5. TypeOK'
  BY <1>1, <1>3 DEF IInv, TypeOK, LoadWorkflow, PC, GoodDoc, userVars
<1>6. QED
  BY <1>1, <1>3, <1>4, <1>5 DEF IInv, Session, InSession

\* Clearing the crash residue keeps a document good and its passed steps.
LEMMA ClearResidueFact ==
  ASSUME NEW w, GoodDoc(w), NEW clean, clean = ClearResidue(w)
  PROVE  /\ GoodDoc(clean) /\ clean.state = w.state
         /\ InState(clean.steps, "passed") = InState(w.steps, "passed")
<1> DEFINE steps == [id \in StepId |-> IF w.steps[id].state = "running"
                                       THEN [w.steps[id] EXCEPT !.state = "pending"]
                                       ELSE w.steps[id]]
<1>1. clean = [w EXCEPT !.steps = steps]
  BY Zenon DEF ClearResidue
<1>2. w \in Workflow /\ w.steps \in [StepId -> Step]
  BY DEF GoodDoc, Workflow
<1>3. ASSUME NEW id \in StepId
      PROVE  /\ steps[id] \in Step
             /\ steps[id].state \in {"pending", "running"} => steps[id].out = {}
             /\ steps[id].state = "passed" <=> w.steps[id].state = "passed"
             /\ steps[id].out = w.steps[id].out
  <2>1. w.steps[id] \in Step
    BY <1>2
  <2>2. CASE w.steps[id].state = "running"
    <3>1. steps[id] = [w.steps[id] EXCEPT !.state = "pending"]
      BY <2>2
    <3>2. /\ steps[id] \in Step /\ steps[id].state = "pending"
          /\ steps[id].out = w.steps[id].out
      BY <2>1, <3>1 DEF Step, StepState
    <3>3. w.steps[id].out = {}
      BY <2>2 DEF GoodDoc, Clean
    <3>4. QED
      BY <2>2, <3>2, <3>3
  <2>3. CASE w.steps[id].state # "running"
    <3>1. steps[id] = w.steps[id]
      BY <2>3
    <3>2. QED
      BY <2>1, <2>3, <3>1 DEF GoodDoc, Clean
  <2>4. QED
    BY <2>2, <2>3
<1>4. steps \in [StepId -> Step] /\ Clean(steps) /\ NoNewOutput(steps, w.steps)
  BY <1>3 DEF Clean, NoNewOutput
<1>5. InState(steps, "passed") = InState(w.steps, "passed")
  BY <1>3 DEF InState
<1> HIDE DEF steps
<1>6. GoodDoc(clean)
  BY <1>1, <1>4, GoodSteps
<1>7. clean.steps = steps /\ clean.state = w.state
  BY <1>1, <1>2 DEF Workflow
<1>8. QED
  BY <1>5, <1>6, <1>7

\* Seeding the aggregate from the checkpoint, or resetting the passed steps.
LEMMA StartStep == ASSUME IInv, StartExecution PROVE IInv'
<1> DEFINE clean == ClearResidue(wf)
           trusted == HasPassed(clean) /\ clean.complete
           ready == IF HasPassed(clean) /\ ~clean.complete
                    THEN ResetPassedSteps(clean) ELSE clean
           w     == IF ready.state \in {"created", "paused"}
                    THEN Transition(ready, "running") ELSE ready
<1>1. /\ pc = "start" /\ wf.state \notin Terminal /\ docs # {} /\ GoodDoc(wf)
      /\ run # "paused"
  BY DEF IInv, StartExecution
<1>2. /\ wf' = w /\ docs' = Saved(w) /\ pc' = "started" /\ run' = run
      /\ agg' = IF trusted THEN clean.captured ELSE NoFiles
      /\ exists' \in BOOLEAN
      /\ UNCHANGED <<plan, hasPlan, run, userVars, round, faults>>
  BY Zenon DEF StartExecution
<1>3. GoodDoc(clean) /\ clean.state = wf.state
  BY <1>1, ClearResidueFact
<1> HIDE DEF clean
<1>4. /\ GoodDoc(ready) /\ ready.state = wf.state
      /\ trusted => ready = clean
      /\ ~trusted => InState(ready.steps, "passed") = {}
  BY <1>3, GoodReset DEF HasPassed
<1> HIDE DEF ready, trusted
<1>5. /\ GoodDoc(w) /\ w.state = "running"
      /\ w.steps = ready.steps /\ w.captured = ready.captured /\ w.complete = ready.complete
  <2>1. wf.state \in {"created", "running", "paused"}
    BY <1>1 DEF GoodDoc, Workflow, WorkflowState, Terminal
  <2>2. CASE ready.state \in {"created", "paused"}
    <3>1. w = Transition(ready, "running")
      BY <2>2
    <3>2. "running" \in WorkflowState /\ <<ready.state, "running">> \in CanTransition
      BY <2>2 DEF WorkflowState, CanTransition
    <3>3. w.state = "running"
      BY <3>1, <3>2, <1>4 DEF Transition, GoodDoc, Workflow
    <3>4. QED
      BY <3>1, <3>2, <3>3, <1>4, GoodTransition
  <2>3. CASE ready.state \notin {"created", "paused"}
    BY <2>1, <2>3, <1>4
  <2>4. QED
    BY <2>2, <2>3
<1> HIDE DEF w
<1>6. docs' = {w}
  BY <1>1, <1>2, SavedFact
<1>7. Covers(agg', w.steps) /\ Agree(agg', w) /\ agg' \in Capture
  <2>1. CASE trusted
    <3>1. agg' = clean.captured /\ ready = clean /\ clean.complete
      BY <1>2, <1>4, <2>1 DEF trusted
    <3>2. QED
      BY <3>1, <1>3, <1>5 DEF GoodDoc, Workflow, Agree
  <2>2. CASE ~trusted
    BY <1>2, <1>4, <1>5, <2>2, NoFilesType DEF Covers, Agree, NoFiles
  <2>3. QED
    BY <2>1, <2>2
<1>8. TypeOK'
  BY <1>2, <1>5, <1>6, <1>7 DEF IInv, TypeOK, PC, GoodDoc, userVars
<1>9. QED
  BY <1>1, <1>2, <1>5, <1>6, <1>7, <1>8 DEF IInv, Session, InSession

-----------------------------------------------------------------------------
(* One iteration of the loop.                                               *)

\* What the loop may rely on after check_effects.
LEMMA LoopFacts ==
  ASSUME IInv, pc = "loop"
  PROVE  /\ GoodDoc(wf) /\ wf.state = "running"
         /\ GoodDoc(Checked) /\ Checked.state = "running"
         /\ Checked.captured = wf.captured /\ Checked.complete = wf.complete
         /\ Checked.replans = wf.replans
         /\ NoNewOutput(Checked.steps, wf.steps) /\ (Failed = {} => Checked = wf)
BY CheckedFact DEF IInv, Session, InSession

\* Splicing a replan into the document.
LEMMA ReplanStep == ASSUME IInv, Replan PROVE IInv'
<1>1. pc = "loop"
  BY DEF Replan, Continue
<1>2. PICK s \in First(Failed), tasks \in ReplanOutputs :
        Checked.replans < MaxReplans /\ Checkpoint(SpliceReplan(Checked, s, tasks))
  BY DEF Replan
<1> DEFINE w == SpliceReplan(Checked, s, tasks)
<1>3. /\ GoodDoc(w) /\ NoNewOutput(w.steps, Checked.steps)
      /\ w.state = Checked.state /\ w.captured = Checked.captured
      /\ w.complete = Checked.complete
  <2>1. IsPlan(tasks)
    BY PlansAssumption
  <2>2. QED
    BY <1>1, <1>2, <2>1, LoopFacts, GoodSplice
<1> HIDE DEF w
<1>4. NoNewOutput(w.steps, wf.steps)
  BY <1>1, <1>3, LoopFacts DEF NoNewOutput
<1>5. Checkpoint(w)
  BY <1>2 DEF w
<1>6. QED
  BY <1>1, <1>3, <1>4, <1>5, LoopFacts, CheckpointKeeps

\* The quality gate step.
LEMMA QualityGateStep == ASSUME IInv, QualityGate PROVE IInv'
<1>1. pc = "loop" /\ Failed = {}
  BY DEF QualityGate, Continue
<1>2. PICK s \in First(ReadyControls(Checked.steps)), verdict \in {"passed", "failed"} :
        Checkpoint([Checked EXCEPT !.steps[s].state = verdict])
  BY DEF QualityGate
<1>3. s \in StepId /\ Checked.steps[s].state = "pending"
  BY DEF First, ReadyControls, IsReady
<1>4. /\ GoodDoc(Checked) /\ Checked.steps \in [StepId -> Step] /\ Checked \in Workflow
      /\ Checked.steps[s].out = {}
  BY <1>1, <1>3, LoopFacts DEF GoodDoc, Workflow, Clean
<1> DEFINE step  == [Checked.steps[s] EXCEPT !.state = verdict]
           steps == [Checked.steps EXCEPT ![s] = step]
           w     == [Checked EXCEPT !.steps = steps]
<1>5. [Checked EXCEPT !.steps[s].state = verdict] = w
  BY <1>3, <1>4 DEF Workflow
<1>6. step \in Step /\ step.state = verdict /\ step.out = {}
  BY <1>3, <1>4 DEF Step, StepState
<1> HIDE DEF step
<1>7. ASSUME NEW id \in StepId
      PROVE  /\ steps[id] \in Step
             /\ id = s => steps[id] = step
             /\ id # s => steps[id] = Checked.steps[id]
  BY <1>3, <1>4, <1>6
<1>8. steps \in [StepId -> Step]
  BY <1>4, <1>6
<1>9. Clean(steps) /\ NoNewOutput(steps, Checked.steps)
  BY <1>4, <1>6, <1>7 DEF Clean, NoNewOutput, GoodDoc
<1> HIDE DEF steps
<1>10. GoodDoc(w)
  BY <1>4, <1>8, <1>9, GoodSteps
<1>11. /\ w.steps = steps /\ w.state = Checked.state
       /\ w.captured = Checked.captured /\ w.complete = Checked.complete
  BY <1>4 DEF Workflow
<1> HIDE DEF w
<1>12. NoNewOutput(w.steps, wf.steps)
  BY <1>1, <1>9, <1>11, LoopFacts
<1>13. Checkpoint(w)
  BY <1>2, <1>5
<1>14. QED
  BY <1>1, <1>10, <1>11, <1>12, <1>13, LoopFacts, CheckpointKeeps

\* Leaving the loop saves a document that agrees with the aggregate.
LEMMA LeaveSteps ==
  ASSUME IInv,
         LoopPaused \/ LoopCancelled \/ ReplanFailed \/ Complete \/ AwaitApproval \/ Stuck
  PROVE  IInv'
<1>1. pc = "loop"
  BY DEF LoopPaused, LoopCancelled, ReplanFailed, Complete, AwaitApproval, Stuck, Continue
<1>2. {"paused", "cancelled", "failed", "completed"} \subseteq WorkflowState
  BY DEF WorkflowState
<1>3. CASE LoopPaused
  BY <1>1, <1>2, <1>3, LoopFacts, LeaveKeeps DEF LoopPaused
<1>4. CASE LoopCancelled
  BY <1>1, <1>2, <1>4, LoopFacts, LeaveKeeps DEF LoopCancelled
<1>5. CASE ReplanFailed \/ Stuck
  <2>1. Leave(Checked, "failed", "failed")
    BY <1>5 DEF ReplanFailed, Stuck
  <2>2. QED
    BY <1>1, <1>2, <2>1, LoopFacts, LeaveKeeps
<1>6. CASE Complete
  BY <1>1, <1>2, <1>6, LoopFacts, LeaveKeeps DEF Complete
<1>7. CASE AwaitApproval
  <2>1. Leave(Checked, "paused", "paused")
    BY <1>7 DEF AwaitApproval
  <2>2. QED
    BY <1>1, <1>2, <2>1, LoopFacts, LeaveKeeps
<1>8. QED
  BY <1>3, <1>4, <1>5, <1>6, <1>7

\* Dispatching the ready agent steps.
LEMMA DispatchStep == ASSUME IInv, Dispatch PROVE IInv'
<1>1. /\ pc = "loop" /\ Failed = {} /\ pc' = "round" /\ wf' = Checked /\ run # "paused"
      /\ UNCHANGED <<docs, run, agg>>
  BY DEF Dispatch, Continue, storeVars, IInv
<1>2. wf' = wf
  BY <1>1, LoopFacts
<1>3. ReadyAgents(Checked.steps) \in SUBSET StepId
  BY DEF ReadyAgents
<1>4. round' \in [batch : SUBSET StepId,
                  res : UNION {[D -> Outcome] : D \in SUBSET StepId},
                  writes : SUBSET (StepId \X Files)]
  BY <1>3, QuietType DEF Dispatch
<1>5. TypeOK'
  BY <1>1, <1>2, <1>4 DEF IInv, TypeOK, Dispatch, PC, storeVars, userVars
<1>6. QED
  BY <1>1, <1>2, <1>5 DEF IInv, Session, InSession

-----------------------------------------------------------------------------
(* The runner's round.                                                      *)

\* Waves of the runner, inside a round.
LEMMA WaveSteps == ASSUME IInv, Wave \/ LostResponse PROVE IInv'
<1> DEFINE RoundType == [batch : SUBSET StepId,
                         res : UNION {[D -> Outcome] : D \in SUBSET StepId},
                         writes : SUBSET (StepId \X Files)]
<1>1. /\ pc = "round" /\ run # "paused" /\ round \in RoundType
      /\ UNCHANGED <<plan, storeVars, userVars, pc, wf, agg, exists>>
      /\ faults' \in Nat
  <2>1. pc = "round" /\ run # "paused" /\ round \in RoundType /\ faults \in Nat
    BY DEF Wave, LostResponse, IInv, TypeOK
  <2>2. /\ UNCHANGED <<plan, storeVars, userVars, pc, wf, agg, exists>>
        /\ faults' = faults \/ faults' = faults + 1
    BY DEF Wave, LostResponse
  <2>3. QED
    BY <2>1, <2>2
<1>2. round' \in RoundType
  <2>1. CASE Wave
    <3>0. PICK W \in SUBSET round.batch : RunWave(W)
      BY <2>1 DEF Wave
    <3>1. PICK res \in [W -> Outcome], out \in [W -> SUBSET Files] :
            round' = [round EXCEPT
              !.res = [id \in Done(round) \cup W |->
                         IF id \in W THEN res[id] ELSE round.res[id]],
              !.writes = round.writes \cup {e \in W \X Files : e[2] \in out[e[1]]}]
      BY <3>0, Zenon DEF RunWave
    <3> DEFINE D == Done(round) \cup W
               r == [id \in D |-> IF id \in W THEN res[id] ELSE round.res[id]]
               x == round.writes \cup {e \in W \X Files : e[2] \in out[e[1]]}
    <3>2. W \subseteq StepId /\ x \in SUBSET (StepId \X Files)
      BY <1>1
    <3>3. PICK C \in SUBSET StepId : round.res \in [C -> Outcome]
      BY <1>1
    <3>4. D \in SUBSET StepId /\ r \in [D -> Outcome]
      BY <3>2, <3>3 DEF Done
    <3> HIDE DEF D, r, x
    <3>5. r \in UNION {[E -> Outcome] : E \in SUBSET StepId}
      BY <3>4
    <3>6. round' = [round EXCEPT !.res = r, !.writes = x]
      BY <3>1 DEF r, x, D
    <3>7. QED
      BY <1>1, <3>2, <3>5, <3>6
  <2>2. CASE LostResponse
    <3>1. PICK id \in Runnable : round' = [round EXCEPT !.batch = round.batch \ {id}]
      BY <2>2 DEF LostResponse
    <3>2. QED
      BY <1>1, <3>1
  <2>3. QED
    BY <2>1, <2>2, <1>1 DEF Wave, LostResponse
<1> HIDE DEF RoundType
<1>3. TypeOK'
  BY <1>1, <1>2 DEF IInv, TypeOK, storeVars, userVars, RoundType
<1>4. QED
  BY <1>1, <1>3 DEF IInv, Session, InSession, storeVars, Dormant

\* After absorb_round and check_effects the latest version of a file is a Passed
\* step's because it was and nobody wrote the file, or because the step wrote it last.
LEMMA AbsorbFact ==
  ASSUME GoodDoc(wf), TypeOK, NEW v, v = CheckEffects(AbsorbRound(wf))
  PROVE  /\ v \in Workflow /\ Clean(v.steps)
         /\ v.state = wf.state /\ v.captured = wf.captured /\ v.complete = wf.complete
         /\ \A id \in InState(v.steps, "passed") : \A f \in v.steps[id].out :
              \/ id \in InState(wf.steps, "passed") /\ f \in wf.steps[id].out \ Changed
              \/ LastWriter(round.writes, f, NoStep) = id
<1> DEFINE verdict(id) == CASE round.res[id] = "applied" -> "passed"
                            [] round.res[id] = "noop"    -> "skipped"
                            [] OTHER                     -> "failed"
           mid  == [id \in StepId |->
                      IF id \in Done(round)
                      THEN [wf.steps[id] EXCEPT !.state = verdict(id), !.out = LastVersions(id)]
                      ELSE [wf.steps[id] EXCEPT !.out = wf.steps[id].out \ Changed]]
           a == AbsorbRound(wf)
           unmet(id) == /\ a.steps[id].state = "passed" /\ a.steps[id].eff # {}
                        /\ a.steps[id].eff \cap Changed = {}
           fin == [id \in StepId |-> IF unmet(id)
                                     THEN [a.steps[id] EXCEPT !.state = "failed"]
                                     ELSE a.steps[id]]
<1>1. wf \in Workflow /\ wf.steps \in [StepId -> Step]
  BY DEF GoodDoc, Workflow
<1>2. a = [wf EXCEPT !.steps = mid]
  BY Zenon DEF AbsorbRound
<1>3. v = [a EXCEPT !.steps = fin]
  BY Zenon DEF CheckEffects
<1>4. ASSUME NEW id \in StepId
      PROVE  /\ mid[id] \in Step
             /\ mid[id].state \in {"pending", "running"} => mid[id].out = {}
             /\ mid[id].state = "passed" =>
                  \/ wf.steps[id].state = "passed" /\ mid[id].out = wf.steps[id].out \ Changed
                  \/ \A f \in mid[id].out : LastWriter(round.writes, f, NoStep) = id
  <2>1. wf.steps[id] \in Step
    BY <1>1
  <2>2. CASE id \in Done(round)
    <3>1. mid[id] = [wf.steps[id] EXCEPT !.state = verdict(id), !.out = LastVersions(id)]
      BY <2>2
    <3>2. verdict(id) \in {"passed", "skipped", "failed"} /\ LastVersions(id) \in SUBSET Files
      BY DEF LastVersions
    <3> HIDE DEF verdict
    <3>3. /\ mid[id] \in Step /\ mid[id].state = verdict(id) /\ mid[id].out = LastVersions(id)
      BY <2>1, <3>1, <3>2 DEF Step, StepState
    <3>4. QED
      BY <3>2, <3>3 DEF LastVersions
  <2>3. CASE id \notin Done(round)
    <3>1. mid[id] = [wf.steps[id] EXCEPT !.out = wf.steps[id].out \ Changed]
      BY <2>3
    <3>2. /\ mid[id] \in Step /\ mid[id].state = wf.steps[id].state
          /\ mid[id].out = wf.steps[id].out \ Changed
      BY <2>1, <3>1 DEF Step
    <3>3. QED
      BY <3>2 DEF GoodDoc, Clean
  <2>4. QED
    BY <2>2, <2>3
<1>5. mid \in [StepId -> Step]
  BY <1>4
<1> HIDE DEF mid, a
<1>6. /\ a \in Workflow /\ a.steps = mid /\ a.state = wf.state
      /\ a.captured = wf.captured /\ a.complete = wf.complete
  BY <1>1, <1>2, <1>5 DEF Workflow
<1>7. ASSUME NEW id \in StepId
      PROVE  /\ fin[id] \in Step
             /\ fin[id].state \in {"pending", "running", "passed"} => fin[id] = mid[id]
  <2>1. a.steps[id] \in Step
    BY <1>5, <1>6
  <2>2. CASE unmet(id)
    <3>1. fin[id] = [a.steps[id] EXCEPT !.state = "failed"]
      BY <2>2
    <3>2. fin[id] \in Step /\ fin[id].state = "failed"
      BY <2>1, <3>1 DEF Step, StepState
    <3>3. QED
      BY <3>2
  <2>3. CASE ~unmet(id)
    BY <2>1, <2>3, <1>6
  <2>4. QED
    BY <2>2, <2>3
<1>8. fin \in [StepId -> Step]
  BY <1>7
<1> HIDE DEF fin
<1>9. /\ v \in Workflow /\ v.steps = fin /\ v.state = wf.state
      /\ v.captured = wf.captured /\ v.complete = wf.complete
  BY <1>3, <1>6, <1>8 DEF Workflow
<1>10. Clean(v.steps)
  BY <1>4, <1>7, <1>9 DEF Clean
<1>11. ASSUME NEW id \in InState(v.steps, "passed"), NEW f \in v.steps[id].out
       PROVE  \/ id \in InState(wf.steps, "passed") /\ f \in wf.steps[id].out \ Changed
              \/ LastWriter(round.writes, f, NoStep) = id
  <2>1. id \in StepId /\ v.steps[id].state = "passed"
    BY DEF InState
  <2>2. v.steps[id] = mid[id]
    BY <2>1, <1>7, <1>9
  <2>3. QED
    BY <2>1, <2>2, <1>4 DEF InState
<1>12. QED
  BY <1>9, <1>10, <1>11

\* Absorbing a round: the one step that extends the checkpoint.
LEMMA FinishStep == ASSUME IInv, FinishRound PROVE IInv'
<1> DEFINE v == CheckEffects(AbsorbRound(wf))
           new == Overlay(agg, round.writes)
<1>1. /\ pc = "round" /\ run # "paused" /\ GoodDoc(wf) /\ TypeOK /\ agg \in Capture
      /\ wf.state = "running" /\ Covers(agg, wf.steps) /\ Agree(agg, wf) /\ docs # {}
  BY DEF FinishRound, IInv, Session, InSession, TypeOK
<1>2. PICK stored \in SUBSET round.writes : wf' = AbsorbCaptured(v, round.writes, stored)
  BY DEF FinishRound
<1>3. /\ pc' = "loop" /\ docs' = {wf'} /\ agg' = new /\ run' = run
  BY <1>1, SavedFact DEF FinishRound
<1>4. /\ v \in Workflow /\ Clean(v.steps)
      /\ v.state = wf.state /\ v.captured = wf.captured /\ v.complete = wf.complete
      /\ \A id \in InState(v.steps, "passed") : \A f \in v.steps[id].out :
           \/ id \in InState(wf.steps, "passed") /\ f \in wf.steps[id].out \ Changed
           \/ LastWriter(round.writes, f, NoStep) = id
  BY <1>1, AbsorbFact
<1> HIDE DEF v
<1>5. v.captured \in Capture
  BY <1>4 DEF Workflow
<1>6. /\ wf' \in Workflow /\ wf'.steps = v.steps /\ wf'.state = "running"
      /\ wf'.captured = Overlay(v.captured, stored)
      /\ wf'.complete = (v.complete /\ round.writes \subseteq stored)
  BY <1>1, <1>2, <1>4, <1>5, OverlayFact DEF AbsorbCaptured, Workflow
<1>7. \A id \in InState(v.steps, "passed") : id \in StepId /\ v.steps[id].out \subseteq Files
  BY <1>4 DEF InState, Workflow, Step
<1>8. new \in Capture /\ Covers(new, v.steps)
  <2>1. new \in Capture
    BY <1>1, OverlayFact
  <2>2. ASSUME NEW id \in InState(v.steps, "passed"), NEW f \in v.steps[id].out
        PROVE  new[f] = id
    <3>1. f \in Files /\ id \in StepId
      BY <1>7
    <3>2. CASE LastWriter(round.writes, f, NoStep) = id
      BY <1>1, <3>1, <3>2, OverlayFact
    <3>3. CASE id \in InState(wf.steps, "passed") /\ f \in wf.steps[id].out \ Changed
      <4>1. agg[f] = id /\ \A s \in StepId : <<s, f>> \notin round.writes
        BY <1>1, <3>1, <3>3 DEF Covers, Changed
      <4>2. QED
        BY <1>1, <3>1, <4>1, OverlayFact
    <3>4. QED
      BY <1>4, <3>2, <3>3
  <2>3. QED
    BY <2>1, <2>2 DEF Covers
<1>9. ASSUME wf'.complete
      PROVE  /\ \A f \in Files : new[f] # NoStep => wf'.captured[f] = new[f]
             /\ Covers(wf'.captured, v.steps)
  <2>1. v.complete /\ stored = round.writes /\ wf'.captured = Overlay(wf.captured, round.writes)
    <3>1. v.complete /\ round.writes \subseteq stored
      BY <1>6, <1>9
    <3>2. QED
      BY <1>4, <1>6, <3>1
  <2>2. \A f \in Files : agg[f] # NoStep => wf.captured[f] = agg[f]
    BY <1>1, <1>4, <2>1 DEF Agree
  <2>3. \A f \in Files : new[f] # NoStep => wf'.captured[f] = new[f]
    BY <1>1, <1>4, <1>5, <2>1, <2>2, OverlayAgrees
  <2>4. Covers(wf'.captured, v.steps)
    BY <1>7, <1>8, <2>3, SpecialIds DEF Covers
  <2>5. QED
    BY <2>3, <2>4
<1> HIDE DEF new
<1>10. GoodDoc(wf')
  BY <1>4, <1>6, <1>9 DEF GoodDoc
<1>11. TypeOK'
  BY <1>1, <1>3, <1>6, <1>8, QuietType DEF FinishRound, TypeOK, PC, userVars
<1>12. QED
  BY <1>1, <1>3, <1>6, <1>8, <1>9, <1>10, <1>11 DEF IInv, Session, InSession, Agree

-----------------------------------------------------------------------------
(* Everything around the loop.                                              *)

\* The executor comes to rest; run gets a new status or keeps its own.
LEMMA RestKeeps ==
  ASSUME IInv, Rest, docs' = docs, plan' = plan, hasPlan' = hasPlan,
         creator' \in {"none", "approve", "plan", "run"}, control' \in {"continue", "pause", "cancel"},
         bridge' \in {"none", "resume", "cancel"}, cancelled' \in {"none", "early", "live"},
         reqs' \in Nat, faults' \in Nat,
         run' \in {run, "pending", "passed", "failed", "paused"},
         run' = "paused" => run = "paused" \/ pc = "paused"
  PROVE  IInv'
<1>1. TypeOK'
  BY NoRunGood, NoFilesType, QuietType DEF IInv, TypeOK, Rest, PC, GoodDoc
<1>2. run' = "paused" => Dormant'
  BY DEF IInv, Dormant
<1>3. QED
  BY <1>1, <1>2, NoRunGood DEF IInv, Rest, Session, InSession

\* The final write of the agent_run row.
LEMMA ReportSteps ==
  ASSUME IInv, ReportPaused \/ ReportCancelled \/ ReportCompleted \/ OutOfFuel \/ ReportLegacy
  PROVE  IInv'
<1>1. PICK status \in {"paused", "passed", "failed"} :
        Report(status) /\ (status = "paused" => pc = "paused")
  BY DEF ReportPaused, ReportCancelled, ReportCompleted, OutOfFuel, ReportLegacy
<1>2. /\ Rest /\ UNCHANGED <<docs, plan, hasPlan, creator, control, bridge, cancelled, reqs>>
      /\ run' \in {run, status} /\ faults' \in Nat
  BY <1>1 DEF Report, Fault, IInv, TypeOK, userVars
<1>3. /\ creator \in {"none", "approve", "plan", "run"} /\ control \in {"continue", "pause", "cancel"}
      /\ bridge \in {"none", "resume", "cancel"} /\ cancelled \in {"none", "early", "live"}
      /\ reqs \in Nat
  BY DEF IInv, TypeOK
<1>4. QED
  BY <1>1, <1>2, <1>3, RestKeeps

\* Faults after which the executor is idle.
LEMMA RestingFaults == ASSUME IInv, SetupFails \/ Crash PROVE IInv'
<1>1. /\ Rest /\ UNCHANGED <<docs, plan, hasPlan>> /\ faults' \in Nat /\ reqs' = reqs
      /\ run' \in {run, "pending", "failed"}
  BY DEF SetupFails, Crash, Fault, IInv, TypeOK, userVars
<1>2. /\ creator' \in {"none", "approve", "plan", "run"} /\ control' \in {"continue", "pause", "cancel"}
      /\ bridge' \in {"none", "resume", "cancel"} /\ cancelled' \in {"none", "early", "live"}
      /\ reqs \in Nat
  BY DEF SetupFails, Crash, IInv, TypeOK, userVars
<1>3. QED
  BY <1>1, <1>2, RestKeeps

\* Steps of the executor that change only where it is.
LEMMA MoveSteps ==
  ASSUME IInv, Claim \/ ReadPlan \/ RetryLegacy \/ PlanUnreadable \/ EngineError
  PROVE  IInv'
<1>1. /\ UNCHANGED <<plan, hasPlan, docs, userVars, wf, agg, exists>>
      /\ pc' \in {"claimed", "load", "legacy", "failed"}
      /\ run' \in {run, "running"} /\ run' # "paused" /\ round' \in {round, Quiet}
      /\ faults' \in Nat
  BY DEF Claim, ReadPlan, RetryLegacy, PlanUnreadable, EngineError, Fault, IInv, TypeOK,
         storeVars, userVars
<1>2. TypeOK'
  BY <1>1, QuietType DEF IInv, TypeOK, PC, userVars
<1>3. QED
  BY <1>1, <1>2 DEF IInv, Session, InSession

\* Requests and writes that leave the document alone.
LEMMA ControlSteps ==
  ASSUME IInv, ResumeControl \/ StorePlan \/ RequestPause \/ RequestResume \/ RequestCancel
  PROVE  IInv'
<1>1. /\ UNCHANGED <<plan, run, docs, wf, agg, exists, round, faults>>
      /\ hasPlan' \in BOOLEAN
      /\ pc' = pc \/ (pc = "started" /\ pc' = "loop")
  BY DEF ResumeControl, StorePlan, RequestPause, RequestResume, RequestCancel, Request,
         IInv, TypeOK, storeVars, execVars, userVars
<1>2. /\ creator' \in {"none", "approve", "plan", "run"} /\ control' \in {"continue", "pause", "cancel"}
      /\ bridge' \in {"none", "resume", "cancel"} /\ cancelled' \in {"none", "early", "live"}
      /\ reqs' \in Nat
  BY DEF ResumeControl, StorePlan, RequestPause, RequestResume, RequestCancel, Request,
         IInv, TypeOK, execVars, storeVars
<1>3. TypeOK'
  BY <1>1, <1>2 DEF IInv, TypeOK, PC
<1>4. QED
  BY <1>1, <1>3 DEF IInv, Session, InSession, Dormant

\* Writes of the bridge and of run-from-def next to a working executor.
LEMMA StoreSteps ==
  ASSUME IInv, ApproveRun \/ CreateTemplateRun \/ ResumeWrite \/ CancelWrite
  PROVE  IInv'
<1>1. /\ UNCHANGED <<plan, hasPlan, control, execVars, cancelled, reqs, faults>>
      /\ creator' \in {creator, "plan", "none"} /\ bridge' \in {bridge, "none"}
      /\ run' \in {run, "approved"}
  BY DEF ApproveRun, CreateTemplateRun, ResumeWrite, CancelWrite, execVars
<1>2. /\ \A d \in docs' : GoodDoc(d)
      /\ wf \in docs /\ wf.state = "running" => wf \in docs'
      /\ docs # {} => docs' # {}
      /\ Dormant => Dormant'
  <2>1. CASE CreateTemplateRun
    <3>1. docs' = docs \cup {NewWorkflow(Instantiate(plan))}
      BY <2>1 DEF CreateTemplateRun
    <3>2. GoodDoc(NewWorkflow(Instantiate(plan)))
      BY PlanSteps, PlansAssumption DEF IInv, TypeOK
    <3>3. QED
      BY <3>1, <3>2 DEF IInv, Dormant
  <2>2. CASE ApproveRun \/ ResumeWrite
    BY <2>2 DEF ApproveRun, ResumeWrite, IInv, Dormant
  <2>3. CASE CancelWrite
    <3> DEFINE new(d) == IF d.state = "paused" THEN [d EXCEPT !.state = "cancelled"] ELSE d
    <3>1. docs' = {new(d) : d \in docs}
      BY <2>3 DEF CancelWrite
    <3>2. ASSUME NEW d \in docs
          PROVE  /\ GoodDoc(new(d))
                 /\ d.state # "paused" => new(d) = d
                 /\ d.state \in {"paused", "cancelled"} => new(d).state = "cancelled"
      <4>1. CASE d.state = "paused"
        <5>1. <<"paused", "cancelled">> \in CanTransition /\ "cancelled" \in WorkflowState
          BY DEF CanTransition, WorkflowState
        <5>2. new(d) = Transition(d, "cancelled")
          BY <4>1, <5>1 DEF Transition
        <5>3. GoodDoc(d) /\ d \in Workflow
          BY DEF IInv, GoodDoc
        <5>4. new(d).state = "cancelled"
          BY <4>1, <5>3 DEF Workflow
        <5>5. QED
          BY <4>1, <5>1, <5>2, <5>3, <5>4, GoodTransition
      <4>2. CASE d.state # "paused"
        BY <4>2 DEF IInv
      <4>3. QED
        BY <4>1, <4>2
    <3> HIDE DEF new
    <3>3. QED
      BY <3>1, <3>2 DEF Dormant
  <2>4. QED
    BY <2>1, <2>2, <2>3
<1>3. TypeOK'
  BY <1>1, <1>2 DEF IInv, TypeOK, execVars, GoodDoc
<1>4. QED
  BY <1>1, <1>2, <1>3 DEF IInv, Session, InSession, execVars

\* Every step preserves the invariant.
LEMMA NextInv == IInv /\ [Next]_vars => IInv'
<1> SUFFICES ASSUME IInv, [Next]_vars PROVE IInv'
  OBVIOUS
<1>1. CASE Creator \/ Requests \/ Bridge
  BY <1>1, ControlSteps, StoreSteps DEF Creator, Requests, Bridge
<1>2. CASE Engine
  BY <1>2, ReplanStep, QualityGateStep, LeaveSteps, DispatchStep, WaveSteps, FinishStep DEF Engine
<1>3. CASE Executor /\ ~Engine
  BY <1>3, LoadStep, StartStep, MoveSteps, ControlSteps, ReportSteps DEF Executor
<1>4. CASE Faults
  BY <1>4, WaveSteps, MoveSteps, RestingFaults DEF Faults
<1>5. CASE UNCHANGED vars
  BY <1>5 DEF vars, IInv, TypeOK, Session, InSession, Dormant
<1>6. QED
  BY <1>1, <1>2, <1>3, <1>4, <1>5 DEF Next, Executor

\* The inductive invariant: good documents, and, while the engine is in its loop, a
\* saved working copy whose checkpoint and aggregate agree and cover the passed steps.
THEOREM Invariance == Spec => []IInv
BY InitInv, NextInv, PTL DEF Spec

-----------------------------------------------------------------------------
(* The theorems.                                                            *)

\* Every variable keeps its type: step ids stay within the replan budget of
\* engine.rs:397, every captured path has a step of the run as its writer.
THEOREM TypeCorrect == Spec => []TypeOK
<1>1. IInv => TypeOK
  BY DEF IInv
<1>2. QED
  BY <1>1, Invariance, PTL

\* No transition the loop attempts on its document is ever refused
\* (engine.rs:379-525, model.rs:413-421).
THEOREM LoopWorksOnRunning == Spec => []EngineRunsRunning
<1>1. IInv => EngineRunsRunning
  BY DEF IInv, Session, EngineRunsRunning
<1>2. QED
  BY <1>1, Invariance, PTL

\* The store always has the engine's copy when the loop awaits (engine.rs:533-538).
THEOREM CheckpointsInSync == Spec => []CheckpointInSync
<1>1. IInv => CheckpointInSync
  BY DEF IInv, Session, CheckpointInSync
<1>2. QED
  BY <1>1, Invariance, PTL

\* Whatever crashes, errors and requests happen, the latest version of a file, if it
\* is a Passed step's, is in the session's result and in every checkpoint that
\* claims to be complete (model.rs:161-162, 282-307; engine.rs:298-329).
THEOREM LatestVersionsKept == Spec => []PassedWorkSurvives
<1>1. IInv => PassedWorkSurvives
  BY DEF IInv, Session, GoodDoc, PassedWorkSurvives
<1>2. QED
  BY <1>1, Invariance, PTL

\* A complete checkpoint has the content the session's result has
\* (model.rs:282-307, engine.rs:298-321).
THEOREM CheckpointsFaithful == Spec => []CheckpointFaithful
<1>1. IInv => CheckpointFaithful
  BY DEF IInv, Session, Agree, CheckpointFaithful
<1>2. QED
  BY <1>1, Invariance, PTL

\* A paused agent_run can be resumed from a document (db_bridge.rs:254-255).
THEOREM PausedResumable == Spec => []PausedRunHasWorkflow
<1>1. IInv => PausedRunHasWorkflow
  BY DEF IInv, Dormant, PausedRunHasWorkflow
<1>2. QED
  BY <1>1, Invariance, PTL

-----------------------------------------------------------------------------
(* A live cancel stays effective until the executor is out of the loop with *)
(* a row that cannot be claimed; only a resume, which revokes it, makes the *)
(* row claimable again.  create_from_def may still approve the row behind   *)
(* an executor that claimed it at once, but not one that has found a plan.  *)

CancelInv ==
  /\ creator = "approve" =>
       ~hasPlan /\ pc \in {"idle", "claimed", "legacy"} /\ cancelled # "live"
  /\ pc # "idle" => run \in {"running", "approved"}
  /\ bridge = "resume" => cancelled = "none"
  /\ cancelled = "live" =>
       \/ pc \in {"loop", "round"} /\ control # "continue" /\ run = "running"
       \/ pc \in {"paused", "cancelled", "completed", "failed", "legacy"} /\ run = "running"
       \/ pc = "idle" /\ run \notin {"pending", "approved"}

\* A live cancel stays in force until the user revokes it.
LEMMA CancelStep == CancelInv /\ [Next]_vars => CancelInv'
<1> SUFFICES ASSUME CancelInv, [Next]_vars PROVE CancelInv'
  OBVIOUS
<1> USE DEF CancelInv
<1>1. CASE ApproveRun \/ StorePlan \/ CreateTemplateRun
  BY <1>1 DEF ApproveRun, StorePlan, CreateTemplateRun, execVars
<1>2. CASE RequestPause \/ RequestResume \/ RequestCancel
  BY <1>2 DEF RequestPause, RequestResume, RequestCancel, Request, execVars, storeVars
<1>3. CASE ResumeWrite \/ CancelWrite
  BY <1>3 DEF ResumeWrite, CancelWrite, execVars
<1>4. CASE Claim \/ ReadPlan \/ LoadWorkflow \/ StartExecution \/ ResumeControl
  <2>1. /\ pc' \in {"claimed", "load", "legacy", "start", "started", "loop"}
        /\ pc = "idle" => run \in {"pending", "approved"} /\ run' = "running" /\ pc' = "claimed"
        /\ pc # "idle" => run' = run /\ pc \in {"claimed", "load", "start", "started"}
        /\ pc = "claimed" /\ ~hasPlan => pc' = "legacy"
        /\ UNCHANGED <<bridge, cancelled, creator, hasPlan>>
    BY <1>4 DEF Claim, ReadPlan, LoadWorkflow, StartExecution, ResumeControl, storeVars, userVars
  <2>2. QED
    BY <2>1
<1>5. CASE Engine
  <2>1. /\ pc \in {"loop", "round"} /\ run' = run
        /\ UNCHANGED <<bridge, cancelled, creator, hasPlan>>
        /\ \/ pc' \in {"loop", "round"} /\ control' = control
           \/ pc' \in {"paused", "cancelled", "completed", "failed"}
    BY <1>5 DEF Engine, LoopPaused, LoopCancelled, Replan, ReplanFailed, Complete,
                AwaitApproval, QualityGate, Stuck, Dispatch, Wave, FinishRound,
                Continue, Checkpoint, Leave, storeVars, userVars
  <2>2. QED
    BY <2>1
<1>6. CASE ReportPaused \/ ReportCancelled \/ ReportCompleted \/ OutOfFuel \/ ReportLegacy
  <2>1. /\ pc' = "idle" /\ pc # "idle" /\ UNCHANGED <<bridge, cancelled, creator, hasPlan>>
        /\ run' \in {run, "paused", "passed", "failed"}
    BY <1>6 DEF ReportPaused, ReportCancelled, ReportCompleted, OutOfFuel, ReportLegacy,
                Report, Rest, userVars
  <2>2. QED
    BY <2>1
<1>7. CASE RetryLegacy \/ PlanUnreadable \/ EngineError \/ LostResponse
  BY <1>7 DEF RetryLegacy, PlanUnreadable, EngineError, LostResponse, storeVars, userVars
<1>8. CASE SetupFails \/ Crash
  BY <1>8 DEF SetupFails, Crash, Rest, userVars
<1>9. CASE UNCHANGED vars
  BY <1>9 DEF vars
<1>10. QED
  BY <1>1, <1>2, <1>3, <1>4, <1>5, <1>6, <1>7, <1>8, <1>9
     DEF Next, Creator, Requests, Bridge, Executor, Faults

\* After an acknowledged live cancel nobody revoked, no round is dispatched
\* (db_bridge.rs:268-269, runner.rs:661-668).
THEOREM LiveCancelEffective == Spec => NoRoundAfterLiveCancel
<1>1. Init => CancelInv
  BY DEF Init, CancelInv
<1>2. ASSUME CancelInv, [Next]_vars, cancelled = "live", pc = "loop", pc' = "round"
      PROVE  FALSE
  <2>1. control # "continue"
    BY <1>2 DEF CancelInv
  <2>2. ~Dispatch
    BY <2>1 DEF Dispatch, Continue
  <2>3. CASE Creator \/ Requests \/ Bridge
    BY <1>2, <2>3 DEF Creator, Requests, Bridge, ApproveRun, StorePlan, CreateTemplateRun,
         RequestPause, RequestResume, RequestCancel, Request, ResumeWrite, CancelWrite, execVars
  <2>4. CASE Executor
    BY <1>2, <2>2, <2>4 DEF Executor, Engine, Claim, ReadPlan, LoadWorkflow, StartExecution,
         ResumeControl, LoopPaused, LoopCancelled, Replan, ReplanFailed, Complete,
         AwaitApproval, QualityGate, Stuck, Wave, FinishRound, Checkpoint, Leave,
         ReportPaused, ReportCancelled, ReportCompleted, RetryLegacy, OutOfFuel,
         ReportLegacy, Report, Rest
  <2>5. CASE Faults \/ UNCHANGED vars
    BY <1>2, <2>5 DEF Faults, LostResponse, SetupFails, PlanUnreadable, EngineError, Crash,
         Rest, vars
  <2>6. QED
    BY <1>2, <2>3, <2>4, <2>5 DEF Next
<1>3. CancelInv /\ [Next]_vars => (cancelled = "live" => ~(pc = "loop" /\ pc' = "round"))
  BY <1>2
<1>4. QED
  BY <1>1, <1>3, CancelStep, PTL DEF Spec, NoRoundAfterLiveCancel
-----------------------------------------------------------------------------
(* The order of work.  What follows is about the graph of steps: what the   *)
(* operations keep of it, what a new document and a splice make of it, and  *)
(* what that means for the documents a run can reach.                       *)

\* The steps a document has, what they wait for and their effects are the same.
SameGraph(new, old) ==
  \A id \in StepId : /\ new[id].deps = old[id].deps /\ new[id].eff = old[id].eff
                     /\ new[id].state = "absent" <=> old[id].state = "absent"

\* Neither a step nor a dependency of one is of a replan still to come.
WithinReplans(w) ==
  \A id \in Present(w.steps) :
    id[1] <= w.replans /\ \A d \in w.steps[id].deps : d[1] <= w.replans

\* The steps wait in no circle: every set of them has one that waits for none of them.
\* They may wait for ids no step has.
Acyclic(steps) ==
  \A S \in SUBSET Present(steps) : S # {} => \E id \in S : steps[id].deps \cap S = {}

OnPassed(steps) ==
  \A id \in InState(steps, "passed") : steps[id].deps \subseteq InState(steps, "passed")

NoEffects(steps) == \A id \in StepId : steps[id].eff = {}

\* What each of them says is a matter of the graph alone.
LEMMA SameGraphKeeps ==
  ASSUME NEW new, NEW old, SameGraph(new, old)
  PROVE  /\ Present(new) = Present(old)
         /\ Acyclic(old) => Acyclic(new)
         /\ NoEffects(old) => NoEffects(new)
<1>1. Present(new) = Present(old)
  BY DEF SameGraph, Present
<1>2. \A id \in Present(new) : new[id].deps = old[id].deps
  BY DEF SameGraph, Present
<1>3. Acyclic(old) => Acyclic(new)
  BY <1>1, <1>2 DEF Acyclic
<1>4. NoEffects(old) => NoEffects(new)
  BY DEF SameGraph, NoEffects
<1>5. QED
  BY <1>1, <1>3, <1>4

\* A document whose graph and budget are the same stays within its replans.
LEMMA SameGraphWithin ==
  ASSUME NEW new, NEW old, SameGraph(new.steps, old.steps), new.replans = old.replans,
         WithinReplans(old)
  PROVE  WithinReplans(new)
BY DEF SameGraph, WithinReplans, Present

-----------------------------------------------------------------------------
(* What the operations do to the graph and to the states.                  *)

\* Clearing the crash residue.
LEMMA ClearResidueGraph ==
  ASSUME NEW w, GoodDoc(w)
  PROVE  LET v == ClearResidue(w)
         IN  /\ SameGraph(v.steps, w.steps) /\ v.replans = w.replans
             /\ \A id \in StepId : v.steps[id].state # w.steps[id].state =>
                                     w.steps[id].state = "running" /\ v.steps[id].state = "pending"
<1> DEFINE steps == [id \in StepId |-> IF w.steps[id].state = "running"
                                       THEN [w.steps[id] EXCEPT !.state = "pending"]
                                       ELSE w.steps[id]]
           v == ClearResidue(w)
<1>1. v = [w EXCEPT !.steps = steps]
  BY Zenon DEF ClearResidue
<1>2. w \in Workflow /\ w.steps \in [StepId -> Step]
  BY DEF GoodDoc, Workflow
<1>3. ASSUME NEW id \in StepId
      PROVE  /\ steps[id].deps = w.steps[id].deps /\ steps[id].eff = w.steps[id].eff
             /\ steps[id].state = "absent" <=> w.steps[id].state = "absent"
             /\ steps[id].state # w.steps[id].state =>
                  w.steps[id].state = "running" /\ steps[id].state = "pending"
  <2>1. w.steps[id] \in Step
    BY <1>2
  <2>2. QED
    BY <2>1 DEF Step
<1> HIDE DEF steps
<1>4. v.steps = steps /\ v.replans = w.replans
  BY <1>1, <1>2 DEF Workflow
<1>5. QED
  BY <1>3, <1>4 DEF SameGraph

\* Resetting the passed steps.
LEMMA ResetGraph ==
  ASSUME NEW w, GoodDoc(w)
  PROVE  LET v == ResetPassedSteps(w)
         IN  /\ SameGraph(v.steps, w.steps) /\ v.replans = w.replans
             /\ \A id \in StepId : v.steps[id].state # w.steps[id].state => v.steps[id].state = "pending"
<1> DEFINE steps == [id \in StepId |->
                       IF w.steps[id].state = "passed"
                       THEN [w.steps[id] EXCEPT !.state = "pending", !.out = {}]
                       ELSE w.steps[id]]
           v == ResetPassedSteps(w)
<1>1. v = [w EXCEPT !.steps = steps, !.captured = NoFiles, !.complete = TRUE]
  BY Zenon DEF ResetPassedSteps
<1>2. w \in Workflow /\ w.steps \in [StepId -> Step]
  BY DEF GoodDoc, Workflow
<1>3. ASSUME NEW id \in StepId
      PROVE  /\ steps[id].deps = w.steps[id].deps /\ steps[id].eff = w.steps[id].eff
             /\ steps[id].state = "absent" <=> w.steps[id].state = "absent"
             /\ steps[id].state # w.steps[id].state => steps[id].state = "pending"
  <2>1. w.steps[id] \in Step
    BY <1>2
  <2>2. QED
    BY <2>1 DEF Step
<1> HIDE DEF steps
<1>4. v.steps = steps /\ v.replans = w.replans
  BY <1>1, <1>2 DEF Workflow
<1>5. QED
  BY <1>3, <1>4 DEF SameGraph

\* A transition leaves the steps alone.
LEMMA TransitionGraph ==
  ASSUME NEW w, GoodDoc(w), NEW to
  PROVE  /\ Transition(w, to).steps = w.steps /\ Transition(w, to).replans = w.replans
         /\ Transition(w, to).state \in {w.state, to}
BY DEF Transition, GoodDoc, Workflow

\* A step is as good as its graph: every document is within its own.
LEMMA SameGraphItself == ASSUME NEW steps PROVE SameGraph(steps, steps)
BY DEF SameGraph

\* What the loop checks before it looks at the steps.
LEMMA CheckedGraph ==
  ASSUME GoodDoc(wf)
  PROVE  /\ SameGraph(Checked.steps, wf.steps) /\ Checked.replans = wf.replans
         /\ \A id \in StepId : Checked.steps[id].state # wf.steps[id].state =>
              wf.steps[id].state = "pending" /\ Checked.steps[id].state = "failed"
<1> DEFINE steps == [id \in StepId |->
                       IF wf.steps[id].state = "pending" /\ wf.steps[id].pre /\ ~exists
                       THEN [wf.steps[id] EXCEPT !.state = "failed"]
                       ELSE wf.steps[id]]
<1>1. Checked = [wf EXCEPT !.steps = steps]
  BY Zenon DEF Checked, CheckPreconditions
<1>2. wf \in Workflow /\ wf.steps \in [StepId -> Step]
  BY DEF GoodDoc, Workflow
<1>3. ASSUME NEW id \in StepId
      PROVE  /\ steps[id].deps = wf.steps[id].deps /\ steps[id].eff = wf.steps[id].eff
             /\ steps[id].state = "absent" <=> wf.steps[id].state = "absent"
             /\ steps[id].state # wf.steps[id].state =>
                  wf.steps[id].state = "pending" /\ steps[id].state = "failed"
  <2>1. wf.steps[id] \in Step
    BY <1>2
  <2>2. QED
    BY <2>1 DEF Step
<1> HIDE DEF steps
<1>4. Checked.steps = steps /\ Checked.replans = wf.replans
  BY <1>1, <1>2 DEF Workflow
<1>5. QED
  BY <1>3, <1>4 DEF SameGraph

\* A verdict of the quality gate.
LEMMA VerdictGraph ==
  ASSUME NEW w, GoodDoc(w), NEW s \in StepId, w.steps[s].state = "pending",
         NEW verdict \in {"passed", "failed"},
         NEW v, v = [w EXCEPT !.steps[s].state = verdict]
  PROVE  /\ SameGraph(v.steps, w.steps) /\ v.replans = w.replans
         /\ v.steps[s].state = verdict
         /\ \A id \in StepId \ {s} : v.steps[id] = w.steps[id]
<1>1. w \in Workflow /\ w.steps \in [StepId -> Step] /\ w.steps[s] \in Step
  BY DEF GoodDoc, Workflow
<1>2. /\ v.steps = [w.steps EXCEPT ![s].state = verdict] /\ v.replans = w.replans
  BY <1>1 DEF Workflow
<1>3. v.steps[s] = [w.steps[s] EXCEPT !.state = verdict]
  BY <1>1, <1>2
<1>4. \A id \in StepId \ {s} : v.steps[id] = w.steps[id]
  BY <1>1, <1>2
<1>5. /\ v.steps[s].deps = w.steps[s].deps /\ v.steps[s].eff = w.steps[s].eff
      /\ v.steps[s].state = verdict
  BY <1>1, <1>3 DEF Step
<1>6. QED
  BY <1>2, <1>4, <1>5 DEF SameGraph

\* Absorbing a round and checking effects: results decide the states of the steps
\* that ran, effects only demote.
LEMMA AbsorbGraph ==
  ASSUME GoodDoc(wf), NEW v, v = CheckEffects(AbsorbRound(wf)),
         \A id \in Done(round) : wf.steps[id].state # "absent"
  PROVE  /\ SameGraph(v.steps, wf.steps) /\ v.replans = wf.replans
         /\ \A id \in StepId :
              \/ v.steps[id].state = wf.steps[id].state
              \/ /\ id \in Done(round) \/ (wf.steps[id].state = "passed" /\ wf.steps[id].eff # {})
                 /\ v.steps[id].state \in {"passed", "skipped", "failed"}
         /\ \A id \in StepId : wf.steps[id].state = "passed" /\ id \notin Done(round)
              /\ wf.steps[id].eff = {} => v.steps[id].state = "passed"
<1> DEFINE verdict(id) == CASE round.res[id] = "applied" -> "passed"
                            [] round.res[id] = "noop"    -> "skipped"
                            [] OTHER                     -> "failed"
           mid  == [id \in StepId |->
                      IF id \in Done(round)
                      THEN [wf.steps[id] EXCEPT !.state = verdict(id), !.out = LastVersions(id)]
                      ELSE [wf.steps[id] EXCEPT !.out = wf.steps[id].out \ Changed]]
           a == AbsorbRound(wf)
           unmet(id) == /\ a.steps[id].state = "passed" /\ a.steps[id].eff # {}
                        /\ a.steps[id].eff \cap Changed = {}
           fin == [id \in StepId |-> IF unmet(id)
                                     THEN [a.steps[id] EXCEPT !.state = "failed"]
                                     ELSE a.steps[id]]
<1>1. wf \in Workflow /\ wf.steps \in [StepId -> Step]
  BY DEF GoodDoc, Workflow
<1>2. a = [wf EXCEPT !.steps = mid]
  BY Zenon DEF AbsorbRound
<1>3. v = [a EXCEPT !.steps = fin]
  BY Zenon DEF CheckEffects
<1>4. ASSUME NEW id \in StepId
      PROVE  /\ mid[id] \in Step
             /\ mid[id].deps = wf.steps[id].deps /\ mid[id].eff = wf.steps[id].eff
             /\ id \notin Done(round) => mid[id].state = wf.steps[id].state
             /\ id \in Done(round) => mid[id].state \in {"passed", "skipped", "failed"}
  <2>1. wf.steps[id] \in Step
    BY <1>1
  <2>2. CASE id \in Done(round)
    <3>1. mid[id] = [wf.steps[id] EXCEPT !.state = verdict(id), !.out = LastVersions(id)]
      BY <2>2
    <3>2. verdict(id) \in {"passed", "skipped", "failed"} /\ LastVersions(id) \in SUBSET Files
      BY DEF LastVersions
    <3> HIDE DEF verdict
    <3>3. /\ mid[id] \in Step /\ mid[id].state = verdict(id)
          /\ mid[id].deps = wf.steps[id].deps /\ mid[id].eff = wf.steps[id].eff
      BY <2>1, <3>1, <3>2 DEF Step, StepState
    <3>4. QED
      BY <2>2, <3>2, <3>3
  <2>3. CASE id \notin Done(round)
    <3>1. mid[id] = [wf.steps[id] EXCEPT !.out = wf.steps[id].out \ Changed]
      BY <2>3
    <3>2. /\ mid[id] \in Step /\ mid[id].state = wf.steps[id].state
          /\ mid[id].deps = wf.steps[id].deps /\ mid[id].eff = wf.steps[id].eff
      BY <2>1, <3>1 DEF Step
    <3>3. QED
      BY <2>3, <3>2
  <2>4. QED
    BY <2>2, <2>3
<1> HIDE DEF mid, a
<1>5. a.steps = mid /\ a.replans = wf.replans /\ a \in Workflow
  <2>1. mid \in [StepId -> Step]
    BY <1>4 DEF mid
  <2>2. QED
    BY <1>1, <1>2, <2>1 DEF Workflow
<1>6. ASSUME NEW id \in StepId
      PROVE  /\ fin[id].deps = mid[id].deps /\ fin[id].eff = mid[id].eff
             /\ fin[id].state # mid[id].state =>
                  mid[id].state = "passed" /\ mid[id].eff # {} /\ fin[id].state = "failed"
  <2>1. a.steps[id] = mid[id] /\ mid[id] \in Step
    BY <1>4, <1>5
  <2>2. CASE unmet(id)
    <3>1. fin[id] = [mid[id] EXCEPT !.state = "failed"]
      BY <2>1, <2>2
    <3>2. QED
      BY <2>1, <2>2, <3>1 DEF Step
  <2>3. CASE ~unmet(id)
    BY <2>1, <2>3
  <2>4. QED
    BY <2>2, <2>3
<1> HIDE DEF fin
<1>7. v.steps = fin /\ v.replans = wf.replans
  BY <1>1, <1>3, <1>5 DEF Workflow
<1>8. QED
  BY <1>4, <1>6, <1>7 DEF SameGraph

-----------------------------------------------------------------------------
(* The splice.                                                             *)

\* The doomed steps are present, and whoever waits for one is one.
LEMMA DoomedClosed ==
  ASSUME NEW steps, NEW failed
  PROVE  /\ Doomed(steps, failed) \subseteq Present(steps)
         /\ \A id \in Present(steps) :
              steps[id].deps \cap Doomed(steps, failed) # {} => id \in Doomed(steps, failed)
BY DEF Doomed

\* No step that passed on passed ones is doomed.
LEMMA PassedNotDoomed ==
  ASSUME NEW steps, NEW failed, OnPassed(steps), failed \in Present(steps),
         failed \notin InState(steps, "passed")
  PROVE  Doomed(steps, failed) \cap InState(steps, "passed") = {}
<1> DEFINE D == Present(steps) \ InState(steps, "passed")
<1>1. \A id \in Present(steps) : steps[id].deps \cap D # {} => id \in D
  BY DEF OnPassed
<1>2. failed \in D /\ D \in SUBSET Present(steps)
  OBVIOUS
<1>3. \A id \in Doomed(steps, failed) : id \in D
  BY <1>1, <1>2 DEF Doomed
<1>4. QED
  BY <1>3

\* The steps after a splice, one by one.
LEMMA SpliceSteps ==
  ASSUME NEW w, GoodDoc(w), NEW failed, NEW tasks
  PROVE  LET n == w.replans + 1
             doomed == Doomed(w.steps, failed)
             Named(k) == IF k \in DOMAIN tasks THEN <<n, k>> ELSE <<0, k>>
             v == SpliceReplan(w, failed, tasks)
         IN  /\ v.replans = n /\ v.state = w.state
             /\ \A id \in StepId :
                  /\ id[1] = n /\ id[2] \in DOMAIN tasks =>
                       v.steps[id] = StepOf(tasks[id[2]], {Named(k) : k \in tasks[id[2]].deps} \ doomed)
                  /\ id[1] = n /\ id[2] \notin DOMAIN tasks => v.steps[id] = Absent
                  /\ id[1] # n /\ id \in doomed => v.steps[id] = Absent
                  /\ id[1] # n /\ id \notin doomed => v.steps[id] = w.steps[id]
<1> DEFINE n == w.replans + 1
           doomed == Doomed(w.steps, failed)
           Named(k) == IF k \in DOMAIN tasks THEN <<n, k>> ELSE <<0, k>>
           Deps(k) == {Named(j) : j \in tasks[k].deps} \ doomed
           steps == [id \in StepId |->
              IF id[1] = n
              THEN IF id[2] \in DOMAIN tasks THEN StepOf(tasks[id[2]], Deps(id[2])) ELSE Absent
              ELSE IF id \in doomed THEN Absent ELSE w.steps[id]]
           v == [w EXCEPT !.replans = n, !.steps = steps]
<1>1. SpliceReplan(w, failed, tasks) = v
  BY Zenon DEF SpliceReplan
<1>2. w \in Workflow
  BY DEF GoodDoc
<1>3. \A id \in StepId :
        /\ id[1] = n /\ id[2] \in DOMAIN tasks => steps[id] = StepOf(tasks[id[2]], Deps(id[2]))
        /\ id[1] = n /\ id[2] \notin DOMAIN tasks => steps[id] = Absent
        /\ id[1] # n /\ id \in doomed => steps[id] = Absent
        /\ id[1] # n /\ id \notin doomed => steps[id] = w.steps[id]
  BY Zenon
<1> HIDE DEF steps
<1>4. v.replans = n /\ v.steps = steps /\ v.state = w.state
  BY <1>2 DEF Workflow
<1> HIDE DEF v
<1>5. QED
  BY <1>1, <1>3, <1>4, Zenon

\* A splice stays within the replans and changes no step that is left; the new
\* steps are pending.
LEMMA SpliceWithin ==
  ASSUME NEW w, GoodDoc(w), WithinReplans(w), NEW failed, NEW tasks, IsPlan(tasks)
  PROVE  LET v == SpliceReplan(w, failed, tasks)
             doomed == Doomed(w.steps, failed)
         IN  /\ WithinReplans(v)
             /\ Present(w.steps) \ doomed \subseteq Present(v.steps)
             /\ \A id \in StepId :
                  \/ v.steps[id].state = "pending" /\ id[1] = w.replans + 1 /\ id[2] \in DOMAIN tasks
                  \/ v.steps[id].state = "absent"
                  \/ v.steps[id] = w.steps[id] /\ id \notin doomed /\ id \in Present(w.steps)
<1> DEFINE n == w.replans + 1
           doomed == Doomed(w.steps, failed)
           Named(k) == IF k \in DOMAIN tasks THEN <<n, k>> ELSE <<0, k>>
           v == SpliceReplan(w, failed, tasks)
<1>0. /\ v.replans = n
      /\ \A id \in StepId :
           /\ id[1] = n /\ id[2] \in DOMAIN tasks =>
                v.steps[id] = StepOf(tasks[id[2]], {Named(k) : k \in tasks[id[2]].deps} \ doomed)
           /\ id[1] = n /\ id[2] \notin DOMAIN tasks => v.steps[id] = Absent
           /\ id[1] # n /\ id \in doomed => v.steps[id] = Absent
           /\ id[1] # n /\ id \notin doomed => v.steps[id] = w.steps[id]
  BY SpliceSteps
<1>1. w.replans \in Nat /\ v.replans = n
  BY <1>0 DEF GoodDoc, Workflow
<1> HIDE DEF v, doomed
<1>2. ASSUME NEW id \in StepId, id[1] = n, id[2] \in DOMAIN tasks
      PROVE  /\ v.steps[id].state = "pending"
             /\ \A d \in v.steps[id].deps : d[1] <= n
  <2>1. v.steps[id] = StepOf(tasks[id[2]], {Named(k) : k \in tasks[id[2]].deps} \ doomed)
    BY <1>2, <1>0
  <2>2. v.steps[id].state = "pending" /\ v.steps[id].deps = {Named(k) : k \in tasks[id[2]].deps} \ doomed
    BY <2>1 DEF StepOf
  <2>3. \A k \in tasks[id[2]].deps : Named(k)[1] = n \/ Named(k)[1] = 0
    OBVIOUS
  <2>4. n \in Nat /\ 0 <= n
    BY <1>1
  <2> HIDE DEF Named, n
  <2>5. QED
    BY <2>2, <2>3, <2>4
<1>3. ASSUME NEW id \in StepId, ~(id[1] = n /\ id[2] \in DOMAIN tasks)
      PROVE  v.steps[id] = Absent \/ (v.steps[id] = w.steps[id] /\ id \notin doomed)
  BY <1>3, <1>0
<1>4. ASSUME NEW id \in Present(w.steps) PROVE id[1] # n
  <2>1. id[1] <= w.replans /\ id \in StepId
    BY DEF WithinReplans, Present
  <2>2. id[1] \in Nat
    BY <2>1, IdParts, BoundsAssumption
  <2>3. QED
    BY <2>1, <2>2, <1>1
<1>5. \A id \in Present(w.steps) \ doomed : v.steps[id] = w.steps[id]
  BY <1>4, <1>0 DEF Present
<1>6. \A id \in StepId :
        \/ v.steps[id].state = "pending" /\ id[1] = n /\ id[2] \in DOMAIN tasks
        \/ v.steps[id].state = "absent"
        \/ v.steps[id] = w.steps[id] /\ id \notin doomed /\ id \in Present(w.steps)
  BY <1>2, <1>3, AbsentType DEF Present
<1>7. ASSUME NEW id \in Present(v.steps)
      PROVE  id[1] <= v.replans /\ \A d \in v.steps[id].deps : d[1] <= v.replans
  <2>1. id \in StepId /\ v.steps[id].state # "absent"
    BY DEF Present
  <2>2. CASE id[1] = n /\ id[2] \in DOMAIN tasks
    BY <2>1, <2>2, <1>1, <1>2
  <2>3. CASE ~(id[1] = n /\ id[2] \in DOMAIN tasks)
    <3>1. v.steps[id] = w.steps[id] /\ id \in Present(w.steps)
      BY <2>1, <2>3, <1>3, AbsentType DEF Present
    <3>2. id[1] <= w.replans /\ (\A d \in w.steps[id].deps : d[1] <= w.replans /\ d \in StepId)
      BY <3>1, <2>1 DEF WithinReplans, GoodDoc, Workflow, Step
    <3>3. QED
      BY <3>1, <3>2, <1>1, <2>1, IdParts
  <2>4. QED
    BY <2>2, <2>3
<1>8. WithinReplans(v)
  BY <1>7 DEF WithinReplans
<1>9. Present(w.steps) \ doomed \subseteq Present(v.steps)
  BY <1>5 DEF Present
<1>10. QED
  BY <1>6, <1>8, <1>9 DEF v, doomed

\* A splice keeps passed work on passed work.
LEMMA SpliceOnPassed ==
  ASSUME NEW w, GoodDoc(w), WithinReplans(w), OnPassed(w.steps),
         NEW failed \in Present(w.steps), failed \notin InState(w.steps, "passed"),
         NEW tasks, IsPlan(tasks)
  PROVE  OnPassed(SpliceReplan(w, failed, tasks).steps)
<1> DEFINE v == SpliceReplan(w, failed, tasks)
<1>1. InState(v.steps, "passed") = InState(w.steps, "passed")
      /\ \A id \in InState(w.steps, "passed") : v.steps[id] = w.steps[id]
  <2>1. \A id \in InState(v.steps, "passed") : v.steps[id] = w.steps[id]
    BY SpliceWithin DEF InState
  <2>2. ASSUME NEW id \in InState(w.steps, "passed") PROVE v.steps[id] = w.steps[id]
    <3>1. id \in Present(w.steps) \ Doomed(w.steps, failed)
      BY PassedNotDoomed DEF InState, Present
    <3>2. id \in Present(v.steps) /\ id \in StepId /\ id[1] <= w.replans
      BY <3>1, SpliceWithin DEF Present, WithinReplans
    <3>3. w.replans \in Nat /\ id[1] \in Nat
      BY <3>2, IdParts DEF GoodDoc, Workflow
    <3>4. QED
      BY <3>2, <3>3, SpliceWithin DEF Present
  <2>3. QED
    BY <2>1, <2>2 DEF InState
<1>2. QED
  BY <1>1 DEF OnPassed

-----------------------------------------------------------------------------
(* Task lists, and the documents made of them.                             *)

\* The tasks of the list do not wait for each other in a circle; they may wait for
\* tasks the list has lost.
AcyclicPlan(p) ==
  \A S \in SUBSET DOMAIN p : S # {} => \E k \in S : p[k].deps \cap S = {}

Effectless(p) == \A k \in DOMAIN p : p[k].eff = {}

\* The steps of the tasks D of a plan.
StepsOf(steps, p, D) ==
  \A id \in StepId :
    IF id[1] = 0 /\ id[2] \in D
    THEN steps[id].state = "pending" /\ steps[id].deps = {0} \X p[id[2]].deps
    ELSE steps[id] = Absent

\* The number of a task makes a step id; the gate's number is no task's.
LEMMA TaskId ==
  ASSUME NEW r \in 0 .. MaxReplans, NEW k \in 1 .. MaxTasks
  PROVE  <<r, k>> \in StepId /\ <<r, k>> # GateId
BY BoundsAssumption DEF StepId, GateId

\* The steps of some tasks of a plan: none waits for the gate.
LEMMA PlanGraph ==
  ASSUME NEW p, IsPlan(p), NEW D, D \subseteq DOMAIN p, NEW steps, StepsOf(steps, p, D)
  PROVE  /\ Present(steps) = {0} \X D
         /\ GateId \notin Present(steps)
         /\ \A id \in Present(steps) : steps[id].state = "pending" /\ id[1] = 0
                                       /\ \A d \in steps[id].deps : d[1] = 0 /\ d # GateId
         /\ AcyclicPlan(p) => Acyclic(steps)
<1>1. \A k \in D : k \in 1 .. MaxTasks /\ p[k].deps \subseteq 1 .. MaxTasks
  BY DEF IsPlan, Task
<1>2. 0 \in 0 .. MaxReplans
  BY BoundsAssumption
<1>3. ASSUME NEW id \in StepId
      PROVE  id \in Present(steps) <=> id[1] = 0 /\ id[2] \in D
  BY AbsentType DEF StepsOf, Present
<1>4. Present(steps) = {0} \X D
  <2>1. ASSUME NEW id \in Present(steps) PROVE id \in {0} \X D
    <3>1. id \in StepId
      BY DEF Present
    <3>2. id = <<id[1], id[2]>> /\ id[1] = 0 /\ id[2] \in D
      BY <3>1, <1>3, IdParts
    <3>3. QED
      BY <3>2
  <2>2. ASSUME NEW id \in {0} \X D PROVE id \in Present(steps)
    <3>1. PICK k \in D : id = <<0, k>>
      OBVIOUS
    <3>2. id \in StepId
      BY <3>1, <1>1, <1>2, TaskId
    <3>3. QED
      BY <3>1, <3>2, <1>3
  <2>3. QED
    BY <2>1, <2>2
<1>5. GateId \notin Present(steps)
  <2>1. \A k \in D : <<0, k>> # GateId
    BY <1>1, <1>2, TaskId
  <2>2. QED
    BY <2>1, <1>4
<1>6. ASSUME NEW id \in Present(steps)
      PROVE  /\ steps[id].state = "pending" /\ id[1] = 0 /\ id[2] \in D
             /\ steps[id].deps = {0} \X p[id[2]].deps
  <2>1. id \in StepId
    BY DEF Present
  <2>2. QED
    BY <2>1, <1>3 DEF StepsOf
<1>7. ASSUME NEW id \in Present(steps), NEW d \in steps[id].deps
      PROVE  d[1] = 0 /\ d # GateId
  <2>1. PICK j \in p[id[2]].deps : d = <<0, j>>
    BY <1>6
  <2>2. j \in 1 .. MaxTasks
    BY <1>1, <1>6
  <2>3. QED
    BY <2>1, <2>2, <1>2, TaskId
<1>8. ASSUME AcyclicPlan(p), NEW S \in SUBSET Present(steps), S # {}
      PROVE  \E id \in S : steps[id].deps \cap S = {}
  <2> DEFINE K == {k \in D : <<0, k>> \in S}
  <2>1. K \in SUBSET DOMAIN p /\ K # {}
    BY <1>4, <1>8
  <2>2. PICK k \in K : p[k].deps \cap K = {}
    <3> HIDE DEF K
    <3>1. QED
      BY <2>1, <1>8 DEF AcyclicPlan
  <2>3. <<0, k>> \in S /\ <<0, k>>[2] = k
    OBVIOUS
  <2>4. steps[<<0, k>>].deps = {0} \X p[k].deps
    BY <2>3, <1>6
  <2>5. ASSUME NEW d \in S, d \in {0} \X p[k].deps PROVE FALSE
    <3>1. PICK j \in p[k].deps : d = <<0, j>>
      BY <2>5
    <3>2. d \in {0} \X D
      BY <1>4
    <3>3. j \in D /\ <<0, j>> \in S
      BY <3>1, <3>2
    <3>4. QED
      BY <3>1, <3>3, <2>2
  <2>6. steps[<<0, k>>].deps \cap S = {}
    BY <2>4, <2>5
  <2>7. QED
    BY <2>3, <2>6
<1>9. QED
  BY <1>4, <1>5, <1>6, <1>7, <1>8 DEF Acyclic

\* The gate appended to a plan waits for all of it, and nothing for the gate.
LEMMA GateGraph ==
  ASSUME NEW steps \in [StepId -> Step], GateId \notin Present(steps),
         \A id \in Present(steps) : steps[id].state = "pending" /\ id[1] = 0
                                    /\ \A d \in steps[id].deps : d[1] = 0 /\ d # GateId
  PROVE  LET w == NewWorkflow(steps)
         IN  /\ w.replans = 0 /\ WithinReplans(w) /\ w.state = "created"
             /\ \A id \in StepId : w.steps[id].state \in {"absent", "pending"}
             /\ NoEffects(steps) => NoEffects(w.steps)
             /\ Acyclic(steps) => Acyclic(w.steps)
<1> DEFINE w == NewWorkflow(steps)
           gate == [Absent EXCEPT !.kind = "gate", !.state = "pending", !.deps = Present(steps)]
<1>1. w.replans = 0 /\ w.state = "created" /\ w.steps = WithTrailingGate(steps)
  BY DEF NewWorkflow
<1>2. gate.state = "pending" /\ gate.deps = Present(steps) /\ gate.eff = {}
  BY DEF Absent
<1>3. GateId \in StepId /\ GateId[1] = 0
  BY SpecialIds DEF GateId
<1> HIDE DEF w, gate
<1>4. CASE w.steps = steps
  <2>1. WithinReplans(w)
    BY <1>1, <1>4 DEF WithinReplans
  <2>2. \A id \in StepId : w.steps[id].state \in {"absent", "pending"}
    BY <1>4 DEF Present
  <2>3. QED
    BY <1>1, <1>4, <2>1, <2>2 DEF w
<1>5. CASE w.steps = [steps EXCEPT ![GateId] = gate]
  <2>1. /\ w.steps[GateId] = gate
        /\ \A id \in StepId \ {GateId} : w.steps[id] = steps[id]
    BY <1>3, <1>5
  <2>2. Present(w.steps) = Present(steps) \cup {GateId}
    BY <2>1, <1>2, <1>3 DEF Present
  <2>3. \A id \in Present(steps) : w.steps[id] = steps[id] /\ id \in StepId
    BY <2>1 DEF Present
  <2>4. \A id \in Present(w.steps) : id[1] <= 0 /\ \A d \in w.steps[id].deps : d[1] <= 0
    BY <2>1, <2>2, <2>3, <1>2, <1>3
  <2>5. WithinReplans(w)
    BY <1>1, <2>4 DEF WithinReplans
  <2>6. \A id \in StepId : w.steps[id].state \in {"absent", "pending"}
    BY <2>1, <1>2 DEF Present
  <2>7. NoEffects(steps) => NoEffects(w.steps)
    BY <2>1, <1>2 DEF NoEffects
  <2>8. ASSUME Acyclic(steps),
               NEW S \in SUBSET Present(w.steps), S # {}
        PROVE  \E id \in S : w.steps[id].deps \cap S = {}
    <3> DEFINE T == S \ {GateId}
    <3>1. T \in SUBSET Present(steps)
      BY <2>2
    <3>2. CASE T = {}
      BY <3>2, <2>1, <1>2, <2>8
    <3>3. CASE T # {}
      <4>1. PICK id \in T : steps[id].deps \cap T = {}
        BY <3>1, <3>3, <2>8 DEF Acyclic
      <4>2. id \in Present(steps) /\ GateId \notin steps[id].deps
        BY <3>1
      <4>3. QED
        BY <4>1, <4>2, <2>3
    <3>4. QED
      BY <3>2, <3>3
  <2>9. Acyclic(steps) => Acyclic(w.steps)
    BY <2>8 DEF Acyclic
  <2>10. QED
    BY <1>1, <2>5, <2>6, <2>7, <2>9 DEF w
<1>6. QED
  BY <1>1, <1>4, <1>5 DEF WithTrailingGate, gate

\* What a new document is like: nothing ran, and it has no circle the plan has not.
NewDocument(w, p) ==
  /\ WithinReplans(w) /\ w.state = "created"
  /\ \A id \in StepId : w.steps[id].state \in {"absent", "pending"}
  /\ Effectless(p) => NoEffects(w.steps)
  /\ AcyclicPlan(p) => Acyclic(w.steps)

\* A document made of steps of tasks of a plan.
LEMMA NewGraph ==
  ASSUME NEW p, IsPlan(p), NEW D, D \subseteq DOMAIN p,
         NEW steps \in [StepId -> Step], StepsOf(steps, p, D),
         Effectless(p) => NoEffects(steps)
  PROVE  NewDocument(NewWorkflow(steps), p)
<1>1. /\ GateId \notin Present(steps)
      /\ \A id \in Present(steps) : steps[id].state = "pending" /\ id[1] = 0
                                    /\ \A d \in steps[id].deps : d[1] = 0 /\ d # GateId
      /\ AcyclicPlan(p) => Acyclic(steps)
  <2>1. GateId \notin Present(steps)
    BY PlanGraph
  <2>2. \A id \in Present(steps) : steps[id].state = "pending" /\ id[1] = 0
                                   /\ \A d \in steps[id].deps : d[1] = 0 /\ d # GateId
    BY ONLY IsPlan(p), D \subseteq DOMAIN p, StepsOf(steps, p, D), PlanGraph
  <2>3. AcyclicPlan(p) => Acyclic(steps)
    BY PlanGraph
  <2>4. QED
    BY <2>1, <2>2, <2>3
<1> DEFINE w == NewWorkflow(steps)
<1>2. /\ WithinReplans(w) /\ w.state = "created"
      /\ \A id \in StepId : w.steps[id].state \in {"absent", "pending"}
      /\ NoEffects(steps) => NoEffects(w.steps)
      /\ Acyclic(steps) => Acyclic(w.steps)
  BY <1>1, GateGraph
<1> HIDE DEF w
<1>3. NewDocument(w, p)
  BY <1>1, <1>2 DEF NewDocument
<1>4. QED
  BY <1>3 DEF w

\* Documents made of a plan, of a template, and the empty one.
LEMMA NewDocuments ==
  ASSUME NEW p, IsPlan(p)
  PROVE  /\ NewDocument(NewWorkflow(Instantiate(p)), p)
         /\ NewDocument(NewWorkflow(FromTasks(p)), p)
         /\ NewDocument(NoRun, p)
<1>1. ASSUME NEW k \in DOMAIN p
      PROVE  /\ p[k] \in Task /\ {0} \X p[k].deps \in SUBSET StepId
             /\ [p[k] EXCEPT !.pre = FALSE, !.eff = {}] \in Task
             /\ [p[k] EXCEPT !.pre = FALSE, !.eff = {}].eff = {}
  <2>1. p[k] \in Task /\ p[k].deps \subseteq 1 .. MaxTasks
    BY DEF IsPlan, Task
  <2>2. \A j \in p[k].deps : <<0, j>> \in StepId
    BY <2>1, TaskId, BoundsAssumption
  <2>3. [p[k] EXCEPT !.pre = FALSE, !.eff = {}] \in Task
        /\ [p[k] EXCEPT !.pre = FALSE, !.eff = {}].eff = {}
    BY <2>1 DEF Task
  <2>4. QED
    BY <2>1, <2>2, <2>3
<1>2. Absent \in Step /\ Absent.eff = {}
  BY AbsentType DEF Absent
<1>3. NewDocument(NewWorkflow(Instantiate(p)), p)
  <2> DEFINE steps == Instantiate(p)
  <2>1. ASSUME NEW id \in StepId
        PROVE  /\ steps[id] \in Step
               /\ IF id[1] = 0 /\ id[2] \in DOMAIN p
                  THEN /\ steps[id].state = "pending" /\ steps[id].deps = {0} \X p[id[2]].deps
                       /\ steps[id].eff = p[id[2]].eff
                  ELSE steps[id] = Absent
    <3>1. CASE id[1] = 0 /\ id[2] \in DOMAIN p
      <4>1. steps[id] = StepOf(p[id[2]], {0} \X p[id[2]].deps)
        BY <3>1 DEF Instantiate
      <4>2. p[id[2]] \in Task /\ {0} \X p[id[2]].deps \in SUBSET StepId
        BY <3>1, <1>1
      <4>3. steps[id] \in Step
        BY ONLY <4>1, <4>2, StepOfType
      <4>4. QED
        BY <3>1, <4>1, <4>3 DEF StepOf
    <3>2. CASE ~(id[1] = 0 /\ id[2] \in DOMAIN p)
      BY <3>2, <1>2 DEF Instantiate
    <3>3. QED
      BY <3>1, <3>2
  <2>2. steps \in [StepId -> Step]
    BY <2>1 DEF Instantiate
  <2> HIDE DEF steps
  <2>3. StepsOf(steps, p, DOMAIN p) /\ (Effectless(p) => NoEffects(steps))
    BY <2>1, <1>2 DEF StepsOf, Effectless, NoEffects
  <2>4. NewDocument(NewWorkflow(steps), p)
    BY <2>2, <2>3, NewGraph
  <2>5. QED
    BY <2>4 DEF steps
<1>4. NewDocument(NewWorkflow(FromTasks(p)), p)
  <2> DEFINE steps == FromTasks(p)
             D == {k \in DOMAIN p : p[k].kind = "agent"}
  <2>1. ASSUME NEW id \in StepId
        PROVE  /\ steps[id] \in Step /\ steps[id].eff = {}
               /\ IF id[1] = 0 /\ id[2] \in D
                  THEN steps[id].state = "pending" /\ steps[id].deps = {0} \X p[id[2]].deps
                  ELSE steps[id] = Absent
    <3>1. CASE id[1] = 0 /\ id[2] \in D
      <4> DEFINE t == [p[id[2]] EXCEPT !.pre = FALSE, !.eff = {}]
      <4>1. steps[id] = StepOf(t, {0} \X p[id[2]].deps)
        BY <3>1 DEF FromTasks
      <4>2. t \in Task /\ t.eff = {}
        BY <3>1, <1>1
      <4> HIDE DEF t
      <4>3. {0} \X p[id[2]].deps \in SUBSET StepId
        BY <3>1, <1>1
      <4>4. steps[id] \in Step
        BY ONLY <4>1, <4>2, <4>3, StepOfType
      <4>5. QED
        BY <3>1, <4>1, <4>2, <4>4 DEF StepOf
    <3>2. CASE ~(id[1] = 0 /\ id[2] \in D)
      BY <3>2, <1>2 DEF FromTasks
    <3>3. QED
      BY <3>1, <3>2
  <2>2. steps \in [StepId -> Step]
    BY <2>1 DEF FromTasks
  <2> HIDE DEF steps
  <2>3. D \subseteq DOMAIN p
    OBVIOUS
  <2> HIDE DEF D
  <2>4. StepsOf(steps, p, D) /\ NoEffects(steps)
    BY <2>1 DEF StepsOf, NoEffects
  <2>5. NewDocument(NewWorkflow(steps), p)
    BY <2>2, <2>3, <2>4, NewGraph
  <2>6. QED
    BY <2>5 DEF steps
<1>5. NewDocument(NoRun, p)
  <2>1. /\ NoSteps \in [StepId -> Step] /\ StepsOf(NoSteps, p, {}) /\ NoEffects(NoSteps)
    BY <1>2 DEF NoSteps, StepsOf, NoEffects
  <2>2. QED
    BY <2>1, NewGraph DEF NoRun
<1>6. QED
  BY <1>3, <1>4, <1>5

-----------------------------------------------------------------------------
\* A splice of an acyclic answer closes no circle: what was there waits for no new
\* step, and new steps wait for each other only as the answer says.
LEMMA SpliceSolid ==
  ASSUME NEW w, GoodDoc(w), WithinReplans(w), Acyclic(w.steps),
         NEW failed, NEW tasks, IsPlan(tasks), AcyclicPlan(tasks)
  PROVE  Acyclic(SpliceReplan(w, failed, tasks).steps)
<1> DEFINE n == w.replans + 1
           doomed == Doomed(w.steps, failed)
           Named(k) == IF k \in DOMAIN tasks THEN <<n, k>> ELSE <<0, k>>
           v == SpliceReplan(w, failed, tasks)
<1>a. GoodDoc(w)
  OBVIOUS
<1>1. /\ v.replans = n
      /\ \A id \in StepId :
           /\ id[1] = n /\ id[2] \in DOMAIN tasks =>
                v.steps[id] = StepOf(tasks[id[2]], {Named(k) : k \in tasks[id[2]].deps} \ doomed)
           /\ id[1] = n /\ id[2] \notin DOMAIN tasks => v.steps[id] = Absent
           /\ id[1] # n /\ id \in doomed => v.steps[id] = Absent
           /\ id[1] # n /\ id \notin doomed => v.steps[id] = w.steps[id]
  BY ONLY <1>a, SpliceSteps
<1> HIDE DEF v, doomed
<1>2. w.replans \in Nat /\ n \in Nat /\ n # 0 /\ n > w.replans
  BY BoundsAssumption DEF GoodDoc, Workflow
<1> HIDE DEF n
<1>3. ASSUME NEW id \in Present(v.steps), id[1] # n
      PROVE  id \in Present(w.steps) /\ v.steps[id] = w.steps[id]
  BY <1>3, <1>1, AbsentType DEF Present
<1>4. ASSUME NEW id \in Present(v.steps), id[1] = n
      PROVE  /\ id \in StepId /\ id[2] \in DOMAIN tasks
             /\ \A d \in v.steps[id].deps : \E k \in tasks[id[2]].deps : d = Named(k)
  <2>1. id \in StepId /\ id[2] \in DOMAIN tasks
    BY <1>4, <1>1, AbsentType DEF Present
  <2>2. v.steps[id] = StepOf(tasks[id[2]], {Named(k) : k \in tasks[id[2]].deps} \ doomed)
    BY <1>4, <2>1, <1>1
  <2>3. v.steps[id].deps = {Named(k) : k \in tasks[id[2]].deps} \ doomed
    BY <2>2 DEF StepOf
  <2>4. QED
    BY <2>1, <2>3
<1>5. ASSUME NEW S \in SUBSET Present(v.steps), S # {}
      PROVE  \E id \in S : v.steps[id].deps \cap S = {}
  <2> DEFINE T == {id \in S : id[1] # n}
  <2>1. CASE T # {}
    <3>1. T \in SUBSET Present(w.steps)
      BY <1>3
    <3>2. PICK id \in T : w.steps[id].deps \cap T = {}
      BY <2>1, <3>1 DEF Acyclic
    <3>3. id \in S /\ id \in Present(w.steps) /\ v.steps[id] = w.steps[id]
      BY <1>3
    <3>4. ASSUME NEW d \in w.steps[id].deps PROVE d \notin S
      <4>1. d[1] <= w.replans
        BY <3>3 DEF WithinReplans
      <4>2. d \in StepId
        BY <3>3 DEF GoodDoc, Workflow, Step, Present
      <4>3. d[1] \in Nat
        BY <4>2, IdParts, BoundsAssumption
      <4>4. d[1] # n
        BY <4>1, <4>3, <1>2
      <4>5. QED
        BY <3>2, <4>4
    <3>5. QED
      BY <3>3, <3>4
  <2>2. CASE T = {}
    <3> DEFINE K == {k \in DOMAIN tasks : <<n, k>> \in S}
    <3>1. \A id \in S : id[1] = n /\ id[2] \in DOMAIN tasks /\ id = <<n, id[2]>>
      BY <2>2, <1>4, IdParts
    <3>2. K \in SUBSET DOMAIN tasks /\ K # {}
      BY <3>1, <1>5
    <3> HIDE DEF K
    <3>3. PICK k \in K : tasks[k].deps \cap K = {}
      BY <3>2 DEF AcyclicPlan
    <3>4. <<n, k>> \in S /\ <<n, k>>[1] = n /\ <<n, k>>[2] = k
      BY DEF K
    <3>5. ASSUME NEW d \in v.steps[<<n, k>>].deps, d \in S PROVE FALSE
      <4>1. PICK j \in tasks[k].deps : d = Named(j)
        BY <3>4, <1>4
      <4>2. d[1] = n
        BY <3>1, <3>5
      <4>3. j \in DOMAIN tasks /\ d = <<n, j>>
        BY <4>1, <4>2, <1>2
      <4>4. QED
        BY <4>1, <4>3, <3>3, <3>5 DEF K
    <3>6. QED
      BY <3>4, <3>5
  <2>3. QED
    BY <2>1, <2>2
<1>6. QED
  BY <1>5 DEF Acyclic, v

\* A splice of an answer without effects adds none.
LEMMA SpliceNoEffects ==
  ASSUME NEW w, GoodDoc(w), NoEffects(w.steps), NEW failed, NEW tasks, Effectless(tasks)
  PROVE  NoEffects(SpliceReplan(w, failed, tasks).steps)
<1> DEFINE n == w.replans + 1
           doomed == Doomed(w.steps, failed)
           Named(k) == IF k \in DOMAIN tasks THEN <<n, k>> ELSE <<0, k>>
           v == SpliceReplan(w, failed, tasks)
<1>1. /\ v.replans = n
      /\ \A id \in StepId :
           /\ id[1] = n /\ id[2] \in DOMAIN tasks =>
                v.steps[id] = StepOf(tasks[id[2]], {Named(k) : k \in tasks[id[2]].deps} \ doomed)
           /\ id[1] = n /\ id[2] \notin DOMAIN tasks => v.steps[id] = Absent
           /\ id[1] # n /\ id \in doomed => v.steps[id] = Absent
           /\ id[1] # n /\ id \notin doomed => v.steps[id] = w.steps[id]
  BY SpliceSteps
<1> HIDE DEF v, doomed, n
<1>2. Absent.eff = {}
  BY DEF Absent
<1>3. \A task, deps : StepOf(task, deps).eff = task.eff
  BY DEF StepOf
<1>4. ASSUME NEW id \in StepId PROVE v.steps[id].eff = {}
  <2>1. CASE id[1] = n /\ id[2] \in DOMAIN tasks
    <3> DEFINE deps == {Named(k) : k \in tasks[id[2]].deps} \ doomed
    <3>1. v.steps[id] = StepOf(tasks[id[2]], deps)
      BY <2>1, <1>1
    <3> HIDE DEF deps
    <3>2. v.steps[id].eff = tasks[id[2]].eff
      BY <3>1, <1>3
    <3>3. QED
      BY <2>1, <3>2 DEF Effectless
  <2>2. CASE ~(id[1] = n /\ id[2] \in DOMAIN tasks)
    <3>1. v.steps[id] = Absent \/ v.steps[id] = w.steps[id]
      BY <2>2, <1>1
    <3>2. QED
      BY <3>1, <1>2 DEF NoEffects
  <2>3. QED
    BY <2>1, <2>2
<1>5. QED
  BY <1>4 DEF NoEffects, v

-----------------------------------------------------------------------------
(* What a step of the system does to the documents.                        *)

\* Steps wait, and none of them can be taken up.
Blocked(steps) == InState(steps, "pending") # {} /\ \A id \in StepId : ~IsReady(steps, id)

\* The engine worked on the document's steps without changing its graph: only ready
\* steps pass; passed ones stay, if no effect speaks against them, unless all are reset; and a
\* document fails with a failed step or because its steps are blocked.
Worked(new, old) ==
  /\ SameGraph(new.steps, old.steps) /\ new.replans = old.replans
  /\ InState(new.steps, "running") \subseteq InState(old.steps, "running")
  /\ \A id \in InState(new.steps, "passed") :
       id \in InState(old.steps, "passed") \/ IsReady(old.steps, id)
  /\ \/ InState(new.steps, "passed") = {}
     \/ \A id \in InState(old.steps, "passed") :
          id \in InState(new.steps, "passed") \/ old.steps[id].eff # {}
  /\ new.state = "failed" =>
       \/ old.state = "failed" /\ new.steps = old.steps
       \/ InState(new.steps, "failed") # {}
       \/ Blocked(new.steps)

\* A replan was spliced in for a failed step.
Spliced(new, old) ==
  \E mid \in Workflow, tasks \in ReplanOutputs :
    /\ Worked(mid, old) /\ GoodDoc(mid) /\ mid.state = "running" /\ mid.replans < MaxReplans
    /\ \E s \in InState(mid.steps, "failed") : new = SpliceReplan(mid, s, tasks)

Fresh(new) ==
  new \in {NewWorkflow(Instantiate(plan)), NewWorkflow(FromTasks(plan)), NoRun}

Documents == docs \cup {wf}

Evolved(new) == Fresh(new) \/ \E old \in Documents : Worked(new, old) \/ Spliced(new, old)

\* The steps of a round were ready when it was dispatched, and still are.
RoundReady == pc = "round" => \A id \in round.batch \cup Done(round) : IsReady(wf.steps, id)

\* The invariant all that follows rests on: documents are within their replans, no step
\* is left running, a round is made of ready steps.
BInv ==
  /\ IInv
  /\ \A d \in Documents : WithinReplans(d) /\ InState(d.steps, "running") = {}
  /\ RoundReady

-----------------------------------------------------------------------------
\* The steps are as they were.
LEMMA WorkedSame ==
  ASSUME NEW new, NEW old, new.steps = old.steps, new.replans = old.replans,
         new.state = "failed" => \/ old.state = "failed" \/ InState(new.steps, "failed") # {}
                                 \/ Blocked(new.steps)
  PROVE  Worked(new, old)
BY DEF Worked, SameGraph

\* A document nobody touched.
LEMMA WorkedItself == ASSUME NEW d PROVE Worked(d, d)
BY WorkedSame

\* The loop's document.
LEMMA LoopDocument ==
  ASSUME IInv, pc = "loop"
  PROVE  /\ GoodDoc(wf) /\ wf.state = "running" /\ wf \in Documents
         /\ GoodDoc(Checked) /\ Checked.state = "running" /\ Checked \in Workflow
         /\ Worked(Checked, wf) /\ (Failed = {} => Checked = wf)
<1>1. /\ GoodDoc(wf) /\ wf.state = "running" /\ wf \in Documents
      /\ GoodDoc(Checked) /\ Checked.state = "running" /\ Checked \in Workflow
      /\ (Failed = {} => Checked = wf)
  BY LoopFacts DEF Documents, GoodDoc
<1>2. /\ SameGraph(Checked.steps, wf.steps) /\ Checked.replans = wf.replans
      /\ \A id \in StepId : Checked.steps[id].state # wf.steps[id].state =>
           wf.steps[id].state = "pending" /\ Checked.steps[id].state = "failed"
  BY <1>1, CheckedGraph
<1>3. Worked(Checked, wf)
  BY <1>1, <1>2 DEF Worked, InState
<1>4. QED
  BY <1>1, <1>3

\* Nothing happened to the documents.
LEMMA QuietSteps ==
  ASSUME docs' = docs, wf' = wf
  PROVE  \A new \in Documents' : Evolved(new)
BY WorkedItself DEF Documents, Evolved

\* The documents of the steps that leave the executor idle.
LEMMA RestSteps ==
  ASSUME docs' = docs, wf' = NoRun
  PROVE  \A new \in Documents' : Evolved(new)
BY WorkedItself DEF Documents, Evolved, Fresh

\* One document is saved over the others.
LEMMA SavedSteps ==
  ASSUME NEW w, wf' = w, docs' = Saved(w), Evolved(w)
  PROVE  \A new \in Documents' : Evolved(new)
<1>1. \A new \in Documents' : new = w
  BY SavedFact DEF Documents
<1>2. QED
  BY <1>1

\* Writes of the bridge and of the template service.
LEMMA StoreEvolves ==
  ASSUME IInv, CreateTemplateRun \/ CancelWrite \/ LoadWorkflow
  PROVE  \A new \in Documents' : Evolved(new)
<1>1. CASE CreateTemplateRun
  BY <1>1, WorkedItself DEF CreateTemplateRun, execVars, Documents, Evolved, Fresh
<1>2. CASE LoadWorkflow
  BY <1>2, WorkedItself DEF LoadWorkflow, Documents, Evolved, Fresh
<1>3. CASE CancelWrite
  <2>1. wf' = wf
    BY <1>3 DEF CancelWrite, execVars
  <2>2. ASSUME NEW d \in docs, d.state = "paused"
        PROVE  Worked([d EXCEPT !.state = "cancelled"], d)
    <3> DEFINE new == [d EXCEPT !.state = "cancelled"]
    <3>1. d \in Workflow
      BY DEF IInv, GoodDoc
    <3>2. new.steps = d.steps /\ new.replans = d.replans /\ new.state # "failed"
      BY <3>1 DEF Workflow
    <3> HIDE DEF new
    <3>3. Worked(new, d)
      BY <3>2, WorkedSame
    <3>4. QED
      BY <3>3 DEF new
  <2> DEFINE new(d) == IF d.state = "paused" THEN [d EXCEPT !.state = "cancelled"] ELSE d
  <2>3. docs' = {new(d) : d \in docs}
    BY <1>3 DEF CancelWrite
  <2>4. \A d \in docs : Worked(new(d), d)
    BY <2>2, WorkedItself
  <2> HIDE DEF new
  <2>5. QED
    BY <2>1, <2>3, <2>4, WorkedItself DEF Documents, Evolved
<1>4. QED
  BY <1>1, <1>2, <1>3

\* Cleared and, without a checkpoint to trust, reset.
LEMMA StartEvolves ==
  ASSUME IInv, StartExecution
  PROVE  \A new \in Documents' : Evolved(new)
<1> DEFINE clean == ClearResidue(wf)
           ready == IF HasPassed(clean) /\ ~clean.complete
                    THEN ResetPassedSteps(clean) ELSE clean
           w     == IF ready.state \in {"created", "paused"}
                    THEN Transition(ready, "running") ELSE ready
<1>1. pc = "start" /\ wf.state \notin Terminal /\ GoodDoc(wf) /\ wf.steps \in [StepId -> Step]
  BY DEF IInv, StartExecution, GoodDoc, Workflow
<1>2. wf' = w /\ docs' = Saved(w)
  BY Zenon DEF StartExecution
<1>3. /\ GoodDoc(clean) /\ clean.state = wf.state /\ clean.replans = wf.replans
      /\ SameGraph(clean.steps, wf.steps)
      /\ \A id \in StepId : clean.steps[id].state # wf.steps[id].state =>
           wf.steps[id].state = "running" /\ clean.steps[id].state = "pending"
  BY <1>1, ClearResidueFact, ClearResidueGraph
<1> HIDE DEF clean
<1>4. /\ GoodDoc(ready) /\ ready.state = wf.state /\ ready.replans = wf.replans
      /\ SameGraph(ready.steps, clean.steps)
      /\ \/ ready.steps = clean.steps
         \/ /\ InState(ready.steps, "passed") = {}
            /\ \A id \in StepId : ready.steps[id].state # clean.steps[id].state =>
                 ready.steps[id].state = "pending"
  BY <1>3, GoodReset, ResetGraph, SameGraphItself
<1> HIDE DEF ready
<1>5. w.steps = ready.steps /\ w.replans = ready.replans /\ w.state # "failed"
  BY <1>1, <1>4, TransitionGraph DEF Terminal
<1> HIDE DEF w
<1>6. SameGraph(w.steps, wf.steps)
  BY <1>3, <1>4, <1>5 DEF SameGraph
<1>7. InState(w.steps, "running") \subseteq InState(wf.steps, "running")
  BY <1>3, <1>4, <1>5 DEF InState
<1>8. InState(w.steps, "passed") = {} \/ InState(w.steps, "passed") = InState(wf.steps, "passed")
  <2>1. InState(clean.steps, "passed") = InState(wf.steps, "passed")
    BY <1>3 DEF InState
  <2>2. QED
    BY <2>1, <1>4, <1>5
<1>9. Worked(w, wf)
  BY <1>3, <1>4, <1>5, <1>6, <1>7, <1>8 DEF Worked
<1>10. QED
  BY <1>2, <1>9, SavedSteps DEF Evolved, Documents

\* Leaving the loop: a failed document has a failed step, or its steps are blocked.
LEMMA LeaveEvolves ==
  ASSUME IInv,
         LoopPaused \/ LoopCancelled \/ ReplanFailed \/ Complete \/ AwaitApproval \/ Stuck
  PROVE  \A new \in Documents' : Evolved(new)
<1>1. pc = "loop"
  BY DEF LoopPaused, LoopCancelled, ReplanFailed, Complete, AwaitApproval, Stuck, Continue
<1>2. PICK w \in {wf, Checked}, to \in {"paused", "cancelled", "completed", "failed"} :
        /\ wf' = Transition(w, to) /\ docs' = Saved(wf')
        /\ to = "failed" => w = Checked /\ (Failed # {} \/ Stuck)
  BY DEF LoopPaused, LoopCancelled, ReplanFailed, Complete, AwaitApproval, Stuck, Leave
<1>3. GoodDoc(w) /\ w.state = "running" /\ Worked(w, wf)
  BY <1>1, LoopDocument, WorkedItself
<1>4. /\ wf'.steps = w.steps /\ wf'.replans = w.replans
      /\ wf'.state = "failed" => to = "failed"
  <2>1. Transition(w, to).steps = w.steps /\ Transition(w, to).replans = w.replans
        /\ Transition(w, to).state \in {w.state, to}
    BY <1>3, TransitionGraph
  <2>2. QED
    BY <1>2, <1>3, <2>1
<1>5. Stuck => Blocked(Checked.steps)
  <2>1. ASSUME NEW id \in StepId, IsReady(Checked.steps, id)
        PROVE  id \in ReadyAgents(Checked.steps) \/ id \in ReadyControls(Checked.steps)
    BY <2>1 DEF ReadyAgents, ReadyControls
  <2>2. QED
    BY <2>1 DEF Stuck, Blocked, Pending
<1>6. wf'.state = "failed" => InState(wf'.steps, "failed") # {} \/ Blocked(wf'.steps)
  BY <1>2, <1>4, <1>5 DEF Failed
<1>7. Worked(wf', wf)
  <2>1. \/ InState(w.steps, "passed") = {}
        \/ \A id \in InState(wf.steps, "passed") :
             id \in InState(w.steps, "passed") \/ wf.steps[id].eff # {}
    BY <1>3 DEF Worked
  <2>2. QED
    BY <1>3, <1>4, <1>6, <2>1 DEF Worked
<1>8. QED
  BY <1>2, <1>7, SavedSteps DEF Evolved, Documents

\* A replan, spliced into what the loop checked.
LEMMA ReplanEvolves ==
  ASSUME IInv, Replan
  PROVE  \A new \in Documents' : Evolved(new)
<1>1. pc = "loop"
  BY DEF Replan, Continue
<1>2. PICK s \in First(Failed), tasks \in ReplanOutputs :
        Checked.replans < MaxReplans /\ Checkpoint(SpliceReplan(Checked, s, tasks))
  BY DEF Replan
<1>3. s \in InState(Checked.steps, "failed")
  BY DEF First, Failed
<1> DEFINE w == SpliceReplan(Checked, s, tasks)
<1>4. wf' = w /\ docs' = Saved(w)
  BY <1>2 DEF Checkpoint
<1>5. Spliced(w, wf)
  BY <1>1, <1>2, <1>3, LoopDocument DEF Spliced
<1> HIDE DEF w
<1>6. QED
  BY <1>4, <1>5, SavedSteps DEF Evolved, Documents

\* A verdict on a ready step.
LEMMA GateEvolves ==
  ASSUME IInv, QualityGate
  PROVE  /\ \A new \in Documents' : Evolved(new)
         /\ \A id \in InState(wf.steps, "passed") : wf'.steps[id].state = "passed"
<1>1. pc = "loop" /\ Failed = {}
  BY DEF QualityGate, Continue
<1>2. PICK s \in First(ReadyControls(Checked.steps)), verdict \in {"passed", "failed"} :
        Checkpoint([Checked EXCEPT !.steps[s].state = verdict])
  BY DEF QualityGate
<1>3. GoodDoc(wf) /\ Checked = wf /\ wf.state = "running" /\ wf \in Workflow
  BY <1>1, LoopDocument DEF GoodDoc
<1>4. s \in StepId /\ IsReady(wf.steps, s) /\ wf.steps[s].state = "pending"
  BY <1>3 DEF First, ReadyControls, IsReady
<1> DEFINE w == [wf EXCEPT !.steps[s].state = verdict]
<1>5. wf' = w /\ docs' = Saved(w)
  BY <1>2, <1>3 DEF Checkpoint
<1>6. /\ SameGraph(w.steps, wf.steps) /\ w.replans = wf.replans /\ w.state = wf.state
      /\ w.steps[s].state = verdict
      /\ \A id \in StepId \ {s} : w.steps[id] = wf.steps[id]
  <2>1. w.state = wf.state
    BY <1>3 DEF Workflow
  <2>2. w = [wf EXCEPT !.steps[s].state = verdict]
    OBVIOUS
  <2> HIDE DEF w
  <2>3. /\ SameGraph(w.steps, wf.steps) /\ w.replans = wf.replans
        /\ w.steps[s].state = verdict
        /\ \A id \in StepId \ {s} : w.steps[id] = wf.steps[id]
    BY <1>3, <1>4, <2>2, VerdictGraph
  <2>4. QED
    BY <2>1, <2>3
<1> HIDE DEF w
<1>7. \A id \in InState(wf.steps, "passed") : w.steps[id].state = "passed"
  BY <1>4, <1>6 DEF InState
<1>8. Worked(w, wf)
  BY <1>3, <1>4, <1>6, <1>7 DEF Worked, InState
<1>9. QED
  BY <1>5, <1>7, <1>8, SavedSteps DEF Evolved, Documents

\* The results of a round.
LEMMA FinishEvolves ==
  ASSUME BInv, FinishRound
  PROVE  /\ \A new \in Documents' : Evolved(new)
         /\ \A id \in InState(wf.steps, "passed") : wf'.steps[id].state # "pending"
<1> DEFINE v == CheckEffects(AbsorbRound(wf))
<1>1. /\ pc = "round" /\ GoodDoc(wf) /\ wf.state = "running" /\ TypeOK
      /\ \A id \in Done(round) : IsReady(wf.steps, id)
  BY DEF FinishRound, BInv, IInv, Session, InSession, RoundReady
<1>2. PICK stored \in SUBSET round.writes : wf' = AbsorbCaptured(v, round.writes, stored)
  BY DEF FinishRound
<1>3. docs' = Saved(wf')
  BY DEF FinishRound
<1>4. \A id \in Done(round) : wf.steps[id].state = "pending"
  BY <1>1 DEF IsReady
<1>5. /\ SameGraph(v.steps, wf.steps) /\ v.replans = wf.replans
      /\ \A id \in StepId :
           \/ v.steps[id].state = wf.steps[id].state
           \/ /\ id \in Done(round) \/ (wf.steps[id].state = "passed" /\ wf.steps[id].eff # {})
              /\ v.steps[id].state \in {"passed", "skipped", "failed"}
      /\ \A id \in StepId : wf.steps[id].state = "passed" /\ id \notin Done(round)
           /\ wf.steps[id].eff = {} => v.steps[id].state = "passed"
  <2>1. \A id \in Done(round) : wf.steps[id].state # "absent"
    BY <1>4
  <2>2. QED
    BY <1>1, <2>1, AbsorbGraph
<1>6. v \in Workflow /\ v.state = wf.state
  BY <1>1, AbsorbFact
<1> HIDE DEF v
<1>7. wf'.steps = v.steps /\ wf'.replans = v.replans /\ wf'.state = "running"
  BY <1>1, <1>2, <1>6 DEF AbsorbCaptured, Workflow
<1>8. \A id \in InState(wf.steps, "passed") :
        v.steps[id].state = "passed" \/ wf.steps[id].eff # {}
  BY <1>4, <1>5 DEF InState
<1>9. ASSUME NEW id \in InState(v.steps, "passed")
      PROVE  id \in InState(wf.steps, "passed") \/ IsReady(wf.steps, id)
  BY <1>1, <1>5 DEF InState
<1>10. InState(v.steps, "running") \subseteq InState(wf.steps, "running")
  BY <1>5 DEF InState
<1>11. Worked(wf', wf)
  <2>1. \A id \in InState(wf.steps, "passed") :
          id \in InState(v.steps, "passed") \/ wf.steps[id].eff # {}
    BY <1>8 DEF InState
  <2>2. QED
    BY <1>5, <1>7, <1>9, <1>10, <2>1 DEF Worked
<1>12. \A id \in InState(wf.steps, "passed") : wf'.steps[id].state # "pending"
  BY <1>5, <1>7 DEF InState
<1>13. QED
  BY <1>3, <1>11, <1>12, SavedSteps DEF Evolved, Documents

\* Every step makes new documents, works on old ones or splices a replan into one.
LEMMA DocumentsEvolve ==
  ASSUME BInv, [Next]_vars
  PROVE  \A new \in Documents' : Evolved(new)
<1>0. IInv
  BY DEF BInv
<1>1. CASE ApproveRun \/ StorePlan \/ RequestPause \/ RequestResume \/ RequestCancel \/ ResumeWrite
  <2>1. docs' = docs /\ wf' = wf
    BY <1>1 DEF ApproveRun, StorePlan, RequestPause, RequestResume, RequestCancel, Request, ResumeWrite,
                storeVars, execVars
  <2>2. QED
    BY <2>1, QuietSteps
<1>2. CASE CreateTemplateRun \/ CancelWrite \/ LoadWorkflow
  BY <1>0, <1>2, StoreEvolves
<1>3. CASE \/ Claim \/ ReadPlan \/ ResumeControl \/ RetryLegacy
           \/ Wave \/ LostResponse \/ PlanUnreadable \/ EngineError \/ UNCHANGED vars
  <2>1. docs' = docs /\ wf' = wf
    BY <1>3 DEF Claim, ReadPlan, ResumeControl, RetryLegacy, Wave, LostResponse,
                PlanUnreadable, EngineError, storeVars, vars
  <2>2. QED
    BY <2>1, QuietSteps
<1>4. CASE StartExecution
  BY <1>0, <1>4, StartEvolves
<1>5. CASE LoopPaused \/ LoopCancelled \/ ReplanFailed \/ Complete \/ AwaitApproval \/ Stuck
  BY <1>0, <1>5, LeaveEvolves
<1>6. CASE Replan
  BY <1>0, <1>6, ReplanEvolves
<1>7. CASE QualityGate
  BY <1>0, <1>7, GateEvolves
<1>8. CASE Dispatch
  <2>1. docs' = docs /\ wf' = Checked /\ pc = "loop" /\ Failed = {}
    BY <1>8 DEF Dispatch, Continue, storeVars
  <2>2. QED
    BY <2>1, <1>0, LoopDocument, QuietSteps
<1>9. CASE FinishRound
  BY <1>9, FinishEvolves
<1>10. CASE \/ ReportPaused \/ ReportCancelled \/ ReportCompleted \/ OutOfFuel
            \/ ReportLegacy \/ SetupFails \/ Crash
  <2>1. docs' = docs /\ wf' = NoRun
    BY <1>10 DEF ReportPaused, ReportCancelled, ReportCompleted, OutOfFuel, ReportLegacy,
                 Report, SetupFails, Crash, Rest
  <2>2. QED
    BY <2>1, RestSteps
<1>11. QED
  BY <1>1, <1>2, <1>3, <1>4, <1>5, <1>6, <1>7, <1>8, <1>9, <1>10
     DEF Next, Creator, Requests, Bridge, Executor, Engine, Faults

\* A document that evolved is within its replans, and none of its steps is running.
LEMMA BaseKept ==
  ASSUME BInv, NEW new, Evolved(new)
  PROVE  WithinReplans(new) /\ InState(new.steps, "running") = {}
<1>1. CASE Fresh(new)
  <2>1. IsPlan(plan)
    BY PlansAssumption DEF BInv, IInv, TypeOK
  <2>2. NewDocument(new, plan)
    BY <1>1, <2>1, NewDocuments DEF Fresh
  <2>3. QED
    BY <2>2 DEF NewDocument, InState
<1>2. ASSUME NEW old \in Documents, NEW doc, Worked(doc, old)
      PROVE  WithinReplans(doc) /\ InState(doc.steps, "running") = {}
  <2>1. WithinReplans(old) /\ InState(old.steps, "running") = {}
    BY DEF BInv
  <2>2. WithinReplans(doc)
    BY <1>2, <2>1, SameGraphWithin DEF Worked
  <2>3. QED
    BY <1>2, <2>1, <2>2 DEF Worked
<1>3. ASSUME NEW old \in Documents, Spliced(new, old)
      PROVE  WithinReplans(new) /\ InState(new.steps, "running") = {}
  <2>1. PICK mid \in Workflow, tasks \in ReplanOutputs :
          /\ Worked(mid, old) /\ GoodDoc(mid)
          /\ \E s \in InState(mid.steps, "failed") : new = SpliceReplan(mid, s, tasks)
    BY <1>3 DEF Spliced
  <2>2. PICK s \in InState(mid.steps, "failed") : new = SpliceReplan(mid, s, tasks)
    BY <2>1
  <2>3. WithinReplans(mid) /\ InState(mid.steps, "running") = {}
    BY <2>1, <1>2
  <2>4. IsPlan(tasks)
    BY PlansAssumption
  <2>5. /\ WithinReplans(new)
        /\ \A id \in StepId : new.steps[id].state \in {"pending", "absent"}
                              \/ new.steps[id] = mid.steps[id]
    BY <2>1, <2>2, <2>3, <2>4, SpliceWithin
  <2>6. QED
    BY <2>3, <2>5 DEF InState
<1>4. QED
  BY <1>1, <1>2, <1>3 DEF Evolved

\* A round is made of ready steps, and nobody touches the document meanwhile.
LEMMA RoundKept ==
  ASSUME BInv, [Next]_vars
  PROVE  RoundReady'
<1>0. IInv
  BY DEF BInv
<1>1. CASE Dispatch
  <2>1. /\ pc = "loop" /\ Failed = {} /\ wf' = Checked
        /\ round' = [Quiet EXCEPT !.batch = ReadyAgents(Checked.steps)]
    BY <1>1 DEF Dispatch, Continue
  <2>2. wf' = wf /\ Checked = wf
    BY <2>1, <1>0, LoopDocument
  <2>3. round'.batch = ReadyAgents(wf.steps) /\ Done(round') = {}
    BY <2>1, <2>2 DEF Quiet, Done
  <2>4. QED
    BY <2>2, <2>3 DEF RoundReady, ReadyAgents
<1>2. CASE Wave
  <2>1. pc = "round" /\ pc' = "round" /\ wf' = wf
    BY <1>2 DEF Wave
  <2>2. PICK W \in SUBSET round.batch : RunWave(W)
    BY <1>2 DEF Wave
  <2>3. PICK res \in [W -> Outcome], out \in [W -> SUBSET Files] :
          round' = [round EXCEPT
            !.res = [id \in Done(round) \cup W |-> IF id \in W THEN res[id] ELSE round.res[id]],
            !.writes = round.writes \cup {e \in W \X Files : e[2] \in out[e[1]]}]
    BY <2>2, Zenon DEF RunWave
  <2> DEFINE x == round.writes \cup {e \in W \X Files : e[2] \in out[e[1]]}
             r == [id \in Done(round) \cup W |-> IF id \in W THEN res[id] ELSE round.res[id]]
  <2>4. DOMAIN r = Done(round) \cup W
    OBVIOUS
  <2> HIDE DEF r, x
  <2>5. round'.batch = round.batch /\ round'.res = r
    <3>1. round' = [round EXCEPT !.res = r, !.writes = x]
      BY <2>3 DEF r, x
    <3>2. round \in [batch : SUBSET StepId,
                     res : UNION {[D -> Outcome] : D \in SUBSET StepId},
                     writes : SUBSET (StepId \X Files)]
      BY DEF BInv, IInv, TypeOK
    <3>3. QED
      BY <3>1, <3>2
  <2>6. Done(round') = Done(round) \cup W
    BY <2>4, <2>5 DEF Done
  <2>7. QED
    BY <2>1, <2>5, <2>6 DEF BInv, RoundReady
<1>3. CASE LostResponse
  <2>1. PICK id \in Runnable : round' = [round EXCEPT !.batch = round.batch \ {id}]
    BY <1>3 DEF LostResponse
  <2>2. round \in [batch : SUBSET StepId,
                   res : UNION {[D -> Outcome] : D \in SUBSET StepId},
                   writes : SUBSET (StepId \X Files)]
    BY DEF BInv, IInv, TypeOK
  <2>3. round'.batch \subseteq round.batch /\ Done(round') = Done(round)
    BY <2>1, <2>2 DEF Done
  <2>4. wf' = wf /\ pc = "round"
    BY <1>3 DEF LostResponse
  <2>5. QED
    BY <2>3, <2>4 DEF BInv, RoundReady
<1>4. CASE \/ ApproveRun \/ StorePlan \/ CreateTemplateRun \/ RequestPause \/ RequestResume
           \/ RequestCancel \/ ResumeWrite \/ CancelWrite \/ UNCHANGED vars
  <2>1. pc' = pc /\ wf' = wf /\ round' = round
    BY <1>4 DEF ApproveRun, StorePlan, CreateTemplateRun, RequestPause, RequestResume, RequestCancel,
                Request, ResumeWrite, CancelWrite, execVars, vars
  <2>2. QED
    BY <2>1 DEF BInv, RoundReady
<1>5. CASE \/ Claim \/ ReadPlan \/ LoadWorkflow \/ StartExecution \/ ResumeControl
           \/ LoopPaused \/ LoopCancelled \/ Replan \/ ReplanFailed \/ Complete
           \/ AwaitApproval \/ QualityGate \/ Stuck \/ FinishRound
           \/ ReportPaused \/ ReportCancelled \/ ReportCompleted \/ RetryLegacy
           \/ OutOfFuel \/ ReportLegacy \/ SetupFails \/ PlanUnreadable \/ EngineError \/ Crash
  <2>1. pc' # "round"
    BY <1>5 DEF Claim, ReadPlan, LoadWorkflow, StartExecution, ResumeControl,
         LoopPaused, LoopCancelled, Replan, ReplanFailed, Complete, AwaitApproval,
         QualityGate, Stuck, FinishRound, Checkpoint, Leave, ReportPaused, ReportCancelled,
         ReportCompleted, RetryLegacy, OutOfFuel, ReportLegacy, Report, Rest, SetupFails,
         PlanUnreadable, EngineError, Crash
  <2>2. QED
    BY <2>1 DEF RoundReady
<1>6. QED
  BY <1>1, <1>2, <1>3, <1>4, <1>5
     DEF Next, Creator, Requests, Bridge, Executor, Engine, Faults

\* Documents stay within their replans, rounds are made of ready steps.
LEMMA BaseInvariance == Spec => []BInv
<1>1. Init => BInv
  <2>1. ASSUME Init PROVE BInv
    <3>1. IInv /\ Documents = {NoRun} /\ pc = "idle"
      BY <2>1, InitInv DEF Init, Documents
    <3>2. NewDocument(NoRun, plan)
      BY <2>1, NewDocuments, PlansAssumption DEF Init
    <3>3. QED
      BY <3>1, <3>2 DEF BInv, RoundReady, NewDocument, InState
  <2>2. QED
    BY <2>1
<1>2. BInv /\ [Next]_vars => BInv'
  <2> SUFFICES ASSUME BInv, [Next]_vars PROVE BInv'
    OBVIOUS
  <2>1. IInv'
    BY NextInv DEF BInv
  <2>2. \A new \in Documents' : WithinReplans(new) /\ InState(new.steps, "running") = {}
    BY DocumentsEvolve, BaseKept
  <2>3. QED
    BY <2>1, <2>2, RoundKept DEF BInv
<1>3. QED
  BY <1>1, <1>2, PTL DEF Spec

-----------------------------------------------------------------------------
(* Passed steps rest on passed steps.                                       *)

\* No planned task declares effects.
NoEffectPlans == \A p \in InitialPlans \cup ReplanOutputs : Effectless(p)

OInv ==
  BInv /\ \A d \in Documents : NoEffects(d.steps) /\ OnPassed(d.steps)

\* A document that was worked on has passed steps on passed ones.
LEMMA WorkedOrder ==
  ASSUME NEW new, NEW old, Worked(new, old), NoEffects(old.steps), OnPassed(old.steps)
  PROVE  NoEffects(new.steps) /\ OnPassed(new.steps)
<1>1. NoEffects(new.steps)
  BY SameGraphKeeps DEF Worked
<1>2. ASSUME InState(new.steps, "passed") # {}, NEW id \in InState(new.steps, "passed")
      PROVE  new.steps[id].deps \subseteq InState(new.steps, "passed")
  <2>1. id \in StepId /\ new.steps[id].deps = old.steps[id].deps
    BY DEF InState, Worked, SameGraph
  <2>2. old.steps[id].deps \subseteq InState(old.steps, "passed")
    BY DEF Worked, OnPassed, IsReady
  <2>3. InState(old.steps, "passed") \subseteq InState(new.steps, "passed")
    BY <1>2 DEF Worked, NoEffects, InState
  <2>4. QED
    BY <2>1, <2>2, <2>3
<1>3. QED
  BY <1>1, <1>2 DEF OnPassed

\* A document that evolved has passed steps on passed ones.
LEMMA OrderKept ==
  ASSUME OInv, NoEffectPlans, NEW new, Evolved(new)
  PROVE  NoEffects(new.steps) /\ OnPassed(new.steps)
<1>1. CASE Fresh(new)
  <2>1. IsPlan(plan) /\ Effectless(plan)
    BY PlansAssumption DEF OInv, BInv, IInv, TypeOK, NoEffectPlans
  <2>2. NewDocument(new, plan)
    BY <1>1, <2>1, NewDocuments DEF Fresh
  <2>3. QED
    BY <2>1, <2>2 DEF NewDocument, OnPassed, InState
<1>2. ASSUME NEW old \in Documents, Worked(new, old)
      PROVE  NoEffects(new.steps) /\ OnPassed(new.steps)
  BY <1>2, WorkedOrder DEF OInv
<1>3. ASSUME NEW old \in Documents, Spliced(new, old)
      PROVE  NoEffects(new.steps) /\ OnPassed(new.steps)
  <2>1. PICK mid \in Workflow, tasks \in ReplanOutputs :
          /\ Worked(mid, old) /\ GoodDoc(mid)
          /\ \E s \in InState(mid.steps, "failed") : new = SpliceReplan(mid, s, tasks)
    BY <1>3 DEF Spliced
  <2>2. PICK s \in InState(mid.steps, "failed") : new = SpliceReplan(mid, s, tasks)
    BY <2>1
  <2>3. NoEffects(mid.steps) /\ OnPassed(mid.steps) /\ WithinReplans(mid)
    BY <2>1, WorkedOrder, SameGraphWithin DEF OInv, BInv, Worked
  <2>4. IsPlan(tasks) /\ Effectless(tasks)
    BY PlansAssumption DEF NoEffectPlans
  <2>5. s \in Present(mid.steps) /\ s \notin InState(mid.steps, "passed")
    BY DEF InState, Present
  <2>6. NoEffects(new.steps)
    BY <2>1, <2>2, <2>3, <2>4, SpliceNoEffects
  <2>7. OnPassed(new.steps)
    BY <2>1, <2>2, <2>3, <2>4, <2>5, SpliceOnPassed
  <2>8. QED
    BY <2>6, <2>7
<1>4. QED
  BY <1>1, <1>2, <1>3 DEF Evolved

\* Without effects, a passed step rests on passed steps in every document, whatever
\* replans, resets, crashes and requests there were (model.rs:140-144, 309-323, 426-447).
THEOREM PassedRestsOnPassed ==
  ASSUME NoEffectPlans
  PROVE  Spec => []PassedInOrder
<1>1. Init /\ BInv => OInv
  <2>1. ASSUME Init, BInv PROVE OInv
    <3>1. Documents = {NoRun} /\ plan \in InitialPlans
      BY <2>1 DEF Init, Documents
    <3>2. NewDocument(NoRun, plan) /\ Effectless(plan)
      BY <3>1, NewDocuments, PlansAssumption DEF NoEffectPlans
    <3>3. QED
      BY <2>1, <3>1, <3>2 DEF OInv, NewDocument, InState, OnPassed
  <2>2. QED
    BY <2>1
<1>2. OInv /\ BInv' /\ [Next]_vars => OInv'
  <2> SUFFICES ASSUME OInv, BInv', [Next]_vars PROVE OInv'
    OBVIOUS
  <2>1. \A new \in Documents' : NoEffects(new.steps) /\ OnPassed(new.steps)
    BY DocumentsEvolve, OrderKept DEF OInv
  <2>2. QED
    BY <2>1 DEF OInv
<1>3. OInv => PassedInOrder
  BY DEF OInv, Documents, OnPassed, PassedInOrder
<1>4. QED
  BY <1>1, <1>2, <1>3, BaseInvariance, PTL DEF Spec

-----------------------------------------------------------------------------
(* What blocks a run.                                                       *)

\* No planned task list has a circle.
AcyclicPlans == \A p \in InitialPlans \cup ReplanOutputs : AcyclicPlan(p)

\* A pending step waits for an id no step has.
Gap(steps) == \E id \in InState(steps, "pending") : ~(steps[id].deps \subseteq Present(steps))

\* A failed document has a failed step, a skipped one, or a gap.
Excused(d) ==
  d.state = "failed" => \/ InState(d.steps, "failed") # {}
                        \/ InState(d.steps, "skipped") # {}
                        \/ Gap(d.steps)

SInv ==
  BInv /\ \A d \in Documents : Acyclic(d.steps) /\ Excused(d)

\* In an acyclic graph only a skipped or a failed step or a gap blocks.
LEMMA BlockedBehindGap ==
  ASSUME NEW steps \in [StepId -> Step], Acyclic(steps), Blocked(steps),
         InState(steps, "running") = {}
  PROVE  InState(steps, "failed") # {} \/ InState(steps, "skipped") # {} \/ Gap(steps)
<1> DEFINE S == InState(steps, "pending")
<1>1. S # {} /\ S \in SUBSET Present(steps)
  BY DEF Blocked, InState, Present
<1>2. PICK id \in S : steps[id].deps \cap S = {}
  BY <1>1 DEF Acyclic
<1>3. id \in Present(steps) /\ id \in StepId /\ steps[id].state = "pending"
  BY DEF InState, Present
<1>4. PICK d \in steps[id].deps : d \notin InState(steps, "passed")
  BY <1>3 DEF Blocked, IsReady
<1>5. CASE d \in Present(steps)
  <2>1. d \in StepId /\ steps[d].state \notin {"absent", "pending", "passed", "running"}
    BY <1>2, <1>4, <1>5 DEF InState, Present
  <2>2. steps[d].state \in StepState
    BY <2>1 DEF Step
  <2>3. QED
    BY <2>1, <2>2 DEF StepState, InState
<1>6. CASE d \notin Present(steps)
  BY <1>4, <1>6 DEF Gap
<1>7. QED
  BY <1>5, <1>6

\* A document that was worked on is still acyclic.
LEMMA WorkedSolid ==
  ASSUME NEW new, NEW old, Worked(new, old), Acyclic(old.steps),
         InState(old.steps, "running") = {}, Excused(old), new.steps \in [StepId -> Step]
  PROVE  Acyclic(new.steps) /\ Excused(new)
<1>1. Acyclic(new.steps)
  BY SameGraphKeeps DEF Worked
<1>2. InState(new.steps, "running") = {}
  BY DEF Worked
<1>3. Excused(new)
  BY <1>1, <1>2, BlockedBehindGap DEF Worked, Excused
<1>4. QED
  BY <1>1, <1>3

\* A document that evolved is acyclic.
LEMMA SolidKept ==
  ASSUME SInv, AcyclicPlans, NEW new, GoodDoc(new), Evolved(new)
  PROVE  Acyclic(new.steps) /\ Excused(new)
<1>1. CASE Fresh(new)
  <2>1. IsPlan(plan) /\ AcyclicPlan(plan)
    BY PlansAssumption DEF SInv, BInv, IInv, TypeOK, AcyclicPlans
  <2>2. NewDocument(new, plan)
    BY <1>1, <2>1, NewDocuments DEF Fresh
  <2>3. QED
    BY <2>1, <2>2 DEF NewDocument, Excused
<1>2. ASSUME NEW old \in Documents, NEW doc, GoodDoc(doc), Worked(doc, old)
      PROVE  Acyclic(doc.steps) /\ Excused(doc)
  <2>1. /\ Acyclic(old.steps) /\ Excused(old)
        /\ InState(old.steps, "running") = {}
    BY DEF SInv, BInv
  <2>2. doc.steps \in [StepId -> Step]
    BY <1>2 DEF GoodDoc, Workflow
  <2>3. QED
    BY <1>2, <2>1, <2>2, WorkedSolid
<1>3. ASSUME NEW old \in Documents, Spliced(new, old)
      PROVE  Acyclic(new.steps) /\ Excused(new)
  <2>1. PICK mid \in Workflow, tasks \in ReplanOutputs :
          /\ Worked(mid, old) /\ GoodDoc(mid) /\ mid.state = "running"
          /\ \E s \in InState(mid.steps, "failed") : new = SpliceReplan(mid, s, tasks)
    BY <1>3 DEF Spliced
  <2>2. PICK s \in InState(mid.steps, "failed") : new = SpliceReplan(mid, s, tasks)
    BY <2>1
  <2>3. Acyclic(mid.steps)
    BY <2>1, <1>2
  <2>4. WithinReplans(mid)
    BY <2>1, SameGraphWithin DEF SInv, BInv, Worked
  <2>5. IsPlan(tasks) /\ AcyclicPlan(tasks)
    BY PlansAssumption DEF AcyclicPlans
  <2>6. Acyclic(new.steps)
    BY <2>1, <2>2, <2>3, <2>4, <2>5, SpliceSolid
  <2>7. new.state = "running"
    BY <2>1, <2>2, SpliceSteps
  <2>8. QED
    BY <2>6, <2>7 DEF Excused
<1>4. QED
  BY <1>1, <1>2, <1>3 DEF Evolved

\* With acyclic plans every document is acyclic, and one fails only behind a failed step,
\* a skipped one or a gap.
LEMMA SolidInvariance == ASSUME AcyclicPlans PROVE Spec => []SInv
<1>1. Init /\ BInv => SInv
  <2>1. ASSUME Init, BInv PROVE SInv
    <3>1. Documents = {NoRun} /\ plan \in InitialPlans
      BY <2>1 DEF Init, Documents
    <3>2. NewDocument(NoRun, plan) /\ AcyclicPlan(plan)
      BY <3>1, NewDocuments, PlansAssumption DEF AcyclicPlans
    <3>3. QED
      BY <2>1, <3>1, <3>2 DEF SInv, NewDocument, Excused
  <2>2. QED
    BY <2>1
<1>2. SInv /\ BInv' /\ [Next]_vars => SInv'
  <2> SUFFICES ASSUME SInv, BInv', [Next]_vars PROVE SInv'
    OBVIOUS
  <2>1. \A new \in Documents' : GoodDoc(new)
    BY DEF BInv, IInv, Documents
  <2>2. \A new \in Documents' : Acyclic(new.steps) /\ Excused(new)
    BY <2>1, DocumentsEvolve, SolidKept DEF SInv
  <2>3. QED
    BY <2>2 DEF SInv
<1>3. QED
  BY <1>1, <1>2, BaseInvariance, PTL DEF Spec

\* A run of acyclic plans is stuck behind a skipped step or an id no step has: no
\* replan, reset, crash or request closes a circle (engine.rs:518-528, model.rs:426-464).
THEOREM OnlyGapsBlock == ASSUME AcyclicPlans PROVE Spec => []StuckOnlyBehindGap
<1>1. SInv => StuckOnlyBehindGap
  BY DEF SInv, Documents, Excused, Gap, StuckOnlyBehindGap
<1>2. QED
  BY <1>1, SolidInvariance, PTL

-----------------------------------------------------------------------------
(* Replans orphan nobody.                                                   *)

\* What a splice takes away, no step it leaves or adds waits for.
LEMMA SpliceOrphansNobody ==
  ASSUME NEW w, GoodDoc(w), WithinReplans(w), NEW failed, NEW tasks, IsPlan(tasks)
  PROVE  LET v == SpliceReplan(w, failed, tasks)
         IN  \A id \in Present(v.steps) :
               v.steps[id].deps \cap (Present(w.steps) \ Present(v.steps)) = {}
<1> DEFINE n == w.replans + 1
           doomed == Doomed(w.steps, failed)
           Named(k) == IF k \in DOMAIN tasks THEN <<n, k>> ELSE <<0, k>>
           v == SpliceReplan(w, failed, tasks)
<1>1. \A id \in StepId :
        id[1] = n /\ id[2] \in DOMAIN tasks =>
          v.steps[id] = StepOf(tasks[id[2]], {Named(k) : k \in tasks[id[2]].deps} \ doomed)
  BY SpliceSteps
<1>2. /\ Present(w.steps) \ doomed \subseteq Present(v.steps)
      /\ \A id \in StepId :
           \/ v.steps[id].state = "pending" /\ id[1] = n /\ id[2] \in DOMAIN tasks
           \/ v.steps[id].state = "absent"
           \/ v.steps[id] = w.steps[id] /\ id \notin doomed /\ id \in Present(w.steps)
  BY SpliceWithin
<1>3. \A id \in Present(w.steps) : w.steps[id].deps \cap doomed # {} => id \in doomed
  BY DoomedClosed
<1> HIDE DEF v, doomed
<1>4. ASSUME NEW id \in Present(v.steps) PROVE v.steps[id].deps \cap doomed = {}
  <2>1. id \in StepId /\ v.steps[id].state # "absent"
    BY DEF Present
  <2>2. CASE id[1] = n /\ id[2] \in DOMAIN tasks
    <3> DEFINE deps == {Named(k) : k \in tasks[id[2]].deps} \ doomed
    <3>1. v.steps[id] = StepOf(tasks[id[2]], deps)
      BY <2>1, <2>2, <1>1
    <3>2. deps \cap doomed = {}
      OBVIOUS
    <3> HIDE DEF deps
    <3>3. QED
      BY <3>1, <3>2 DEF StepOf
  <2>3. CASE v.steps[id] = w.steps[id] /\ id \notin doomed /\ id \in Present(w.steps)
    BY <2>3, <1>3
  <2>4. QED
    BY <2>1, <2>2, <2>3, <1>2
<1>5. QED
  BY <1>2, <1>4 DEF v

\* Only a replan takes steps away as long as the engine is in its loop.
LEMMA OrphansNobodyStep ==
  ASSUME BInv, [Next]_vars, InSession, InSession'
  PROVE  LET gone == Present(wf.steps) \ Present(wf'.steps)
         IN  \A id \in Present(wf'.steps) : wf'.steps[id].deps \cap gone = {}
<1>0. IInv
  BY DEF BInv
<1>1. CASE Replan
  <2>1. pc = "loop"
    BY <1>1 DEF Replan, Continue
  <2>2. PICK s \in First(Failed), tasks \in ReplanOutputs : wf' = SpliceReplan(Checked, s, tasks)
    BY <1>1 DEF Replan, Checkpoint
  <2>3. /\ GoodDoc(Checked) /\ SameGraph(Checked.steps, wf.steps)
        /\ Checked.replans = wf.replans /\ WithinReplans(wf)
    BY <2>1, <1>0, LoopDocument DEF Worked, BInv
  <2>4. WithinReplans(Checked) /\ IsPlan(tasks)
    BY <2>3, SameGraphWithin, PlansAssumption
  <2>5. Present(Checked.steps) = Present(wf.steps)
    BY <2>3, SameGraphKeeps
  <2>6. QED
    BY <2>2, <2>3, <2>4, <2>5, SpliceOrphansNobody
<1>2. CASE ~Replan
  <2>1. SameGraph(wf'.steps, wf.steps)
    <3>1. CASE QualityGate
      <4>1. pc = "loop" /\ Failed = {}
        BY <3>1 DEF QualityGate, Continue
      <4>2. PICK s \in First(ReadyControls(Checked.steps)), verdict \in {"passed", "failed"} :
              wf' = [Checked EXCEPT !.steps[s].state = verdict]
        BY <3>1 DEF QualityGate, Checkpoint
      <4>3. GoodDoc(wf) /\ Checked = wf
        BY <4>1, <1>0, LoopDocument
      <4>4. s \in StepId /\ wf.steps[s].state = "pending"
        BY <4>3 DEF First, ReadyControls, IsReady
      <4>5. QED
        BY <4>2, <4>3, <4>4, VerdictGraph
    <3>2. CASE FinishRound
      <4> DEFINE v == CheckEffects(AbsorbRound(wf))
      <4>1. /\ pc = "round" /\ GoodDoc(wf) /\ TypeOK
            /\ \A id \in Done(round) : wf.steps[id].state # "absent"
        BY <3>2 DEF FinishRound, BInv, IInv, RoundReady, IsReady
      <4>2. PICK stored \in SUBSET round.writes : wf' = AbsorbCaptured(v, round.writes, stored)
        BY <3>2 DEF FinishRound
      <4>3. SameGraph(v.steps, wf.steps) /\ v \in Workflow
        BY <4>1, AbsorbGraph, AbsorbFact
      <4> HIDE DEF v
      <4>4. wf'.steps = v.steps
        BY <4>2, <4>3 DEF AbsorbCaptured, Workflow
      <4>5. QED
        BY <4>3, <4>4
    <3>3. CASE Dispatch
      <4>1. wf' = Checked /\ pc = "loop" /\ Failed = {}
        BY <3>3 DEF Dispatch, Continue
      <4>2. wf' = wf
        BY <4>1, <1>0, LoopDocument
      <4>3. QED
        BY <4>2, SameGraphItself
    <3>4. CASE \/ ApproveRun \/ StorePlan \/ CreateTemplateRun \/ RequestPause \/ RequestResume
               \/ RequestCancel \/ ResumeWrite \/ CancelWrite \/ UNCHANGED vars
               \/ ResumeControl \/ Wave \/ LostResponse
      <4>1. wf' = wf
        BY <3>4 DEF ApproveRun, StorePlan, CreateTemplateRun, RequestPause, RequestResume,
             RequestCancel, Request, ResumeWrite, CancelWrite, ResumeControl, Wave,
             LostResponse, execVars, vars
      <4>2. QED
        BY <4>1, SameGraphItself
    <3>5. CASE \/ Claim \/ ReadPlan \/ LoadWorkflow \/ StartExecution \/ LoopPaused
               \/ LoopCancelled \/ ReplanFailed \/ Complete \/ AwaitApproval \/ Stuck
               \/ ReportPaused \/ ReportCancelled \/ ReportCompleted \/ RetryLegacy
               \/ OutOfFuel \/ ReportLegacy \/ SetupFails \/ PlanUnreadable \/ EngineError \/ Crash
      <4>1. ~InSession \/ ~InSession'
        BY <3>5 DEF InSession, Claim, ReadPlan, LoadWorkflow, StartExecution,
             LoopPaused, LoopCancelled, ReplanFailed, Complete, AwaitApproval,
             Stuck, Leave, ReportPaused, ReportCancelled,
             ReportCompleted, RetryLegacy, OutOfFuel, ReportLegacy, Report, Rest, SetupFails,
             PlanUnreadable, EngineError, Crash
      <4>2. QED
        BY <4>1
    <3>6. QED
      BY <1>2, <3>1, <3>2, <3>3, <3>4, <3>5
         DEF Next, Creator, Requests, Bridge, Executor, Engine, Faults
  <2>2. Present(wf'.steps) = Present(wf.steps)
    BY <2>1, SameGraphKeeps
  <2>3. QED
    BY <2>2
<1>3. QED
  BY <1>1, <1>2

\* No replan takes a step away that one it leaves or adds waits for, whatever the plans
\* and answers name (model.rs:432-464).
THEOREM NobodyOrphaned == Spec => ReplanOrphansNobody
<1>1. BInv /\ [Next]_vars =>
        (InSession /\ InSession' =>
           LET gone == Present(wf.steps) \ Present(wf'.steps)
           IN  \A id \in Present(wf'.steps) : wf'.steps[id].deps \cap gone = {})
  BY OrphansNobodyStep
<1>2. QED
  BY <1>1, BaseInvariance, PTL DEF Spec, ReplanOrphansNobody

-----------------------------------------------------------------------------
\* What passed stays out of the queue as long as the engine is in its loop.
LEMMA NoRerunStep ==
  ASSUME BInv, [Next]_vars, InSession, InSession'
  PROVE  \A id \in InState(wf.steps, "passed") : wf'.steps[id].state # "pending"
<1>0. IInv
  BY DEF BInv
<1>1. CASE Replan
  <2>1. pc = "loop"
    BY <1>1 DEF Replan, Continue
  <2>2. PICK s \in First(Failed), tasks \in ReplanOutputs : wf' = SpliceReplan(Checked, s, tasks)
    BY <1>1 DEF Replan, Checkpoint
  <2>3. /\ GoodDoc(Checked) /\ SameGraph(Checked.steps, wf.steps)
        /\ Checked.replans = wf.replans /\ WithinReplans(wf)
    BY <2>1, <1>0, LoopDocument DEF Worked, BInv
  <2>4. WithinReplans(Checked) /\ IsPlan(tasks)
    BY <2>3, SameGraphWithin, PlansAssumption
  <2>5. \A id \in StepId :
          \/ wf'.steps[id].state = "pending" /\ id[1] = Checked.replans + 1
          \/ wf'.steps[id].state = "absent"
          \/ wf'.steps[id] = Checked.steps[id]
    BY <2>2, <2>3, <2>4, SpliceWithin
  <2>6. ASSUME NEW id \in InState(wf.steps, "passed"), wf'.steps[id].state = "pending" PROVE FALSE
    <3>1. id \in Present(wf.steps) /\ id \in StepId
      BY DEF InState, Present
    <3>2. id[1] # Checked.replans + 1
      <4>1. id[1] <= wf.replans
        BY <3>1, <2>3 DEF WithinReplans
      <4>2. wf.replans \in Nat /\ id[1] \in Nat
        BY <3>1, <1>0, IdParts, BoundsAssumption DEF IInv, GoodDoc, Workflow
      <4>3. QED
        BY <4>1, <4>2, <2>3
    <3>3. Checked.steps[id].state # "pending"
      <4>1. GoodDoc(wf)
        BY <1>0 DEF IInv
      <4>2. QED
        BY <3>1, <4>1, CheckedGraph DEF InState
    <3>4. QED
      BY <2>5, <2>6, <3>1, <3>2, <3>3
  <2>7. QED
    BY <2>6
<1>2. CASE QualityGate
  BY <1>0, <1>2, GateEvolves
<1>3. CASE FinishRound
  BY <1>3, FinishEvolves
<1>4. CASE Dispatch
  <2>1. wf' = Checked /\ pc = "loop" /\ Failed = {}
    BY <1>4 DEF Dispatch, Continue
  <2>2. wf' = wf
    BY <2>1, <1>0, LoopDocument
  <2>3. QED
    BY <2>2 DEF InState
<1>5. CASE \/ ApproveRun \/ StorePlan \/ CreateTemplateRun \/ RequestPause \/ RequestResume
           \/ RequestCancel \/ ResumeWrite \/ CancelWrite \/ UNCHANGED vars
           \/ ResumeControl \/ Wave \/ LostResponse
  <2>1. wf' = wf
    BY <1>5 DEF ApproveRun, StorePlan, CreateTemplateRun, RequestPause, RequestResume, RequestCancel,
                Request, ResumeWrite, CancelWrite, ResumeControl, Wave, LostResponse,
                execVars, vars
  <2>2. QED
    BY <2>1 DEF InState
<1>6. CASE \/ Claim \/ ReadPlan \/ LoadWorkflow \/ StartExecution \/ LoopPaused
           \/ LoopCancelled \/ ReplanFailed \/ Complete \/ AwaitApproval \/ Stuck
           \/ ReportPaused \/ ReportCancelled \/ ReportCompleted \/ RetryLegacy
           \/ OutOfFuel \/ ReportLegacy \/ SetupFails \/ PlanUnreadable \/ EngineError \/ Crash
  <2>1. ~InSession \/ ~InSession'
    BY <1>6 DEF InSession, Claim, ReadPlan, LoadWorkflow, StartExecution,
         LoopPaused, LoopCancelled, ReplanFailed, Complete, AwaitApproval,
         Stuck, Leave, ReportPaused, ReportCancelled,
         ReportCompleted, RetryLegacy, OutOfFuel, ReportLegacy, Report, Rest, SetupFails,
         PlanUnreadable, EngineError, Crash
  <2>2. QED
    BY <2>1
<1>7. QED
  BY <1>1, <1>2, <1>3, <1>4, <1>5, <1>6
     DEF Next, Creator, Requests, Bridge, Executor, Engine, Faults

\* "Passed steps are never re-run within this engine session" (engine.rs:325): replans,
\* rounds and unmet effects never put one back into the queue.
THEOREM NoRerun == Spec => NoRerunInSession
<1>1. BInv /\ [Next]_vars =>
        (InSession /\ InSession' =>
           \A id \in InState(wf.steps, "passed") : wf'.steps[id].state # "pending")
  BY NoRerunStep
<1>2. QED
  BY <1>1, BaseInvariance, PTL DEF Spec, NoRerunInSession
=============================================================================
