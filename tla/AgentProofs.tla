------------------------------ MODULE AgentProofs ------------------------------
(***************************************************************************)
(* Proofs about AgentLoop and the virtual workspace an agent may work on,   *)
(* for any files, crates, answers, steps, blocks and attempts: what an      *)
(* agent reports, what the records tell, and when it may be done.           *)
(***************************************************************************)
EXTENDS AgentLoop, VirtWorkspace, TLAPS

Owners == {"absent", "base", "ours"}

\* Where the agent is, and what goes with it: the loop and sub-agents are the swarm's,
\* only an applying run has edits of its own, and a retry has attempts left.
Placed ==
  /\ agent.at \in {"ask", "act"} \/ agent.sub => driver = "swarm"
  /\ agent.sub => agent.left > 0 /\ agent.at \in {"start", "chat", "apply"}
  /\ agent.at \in {"ask", "act", "start"} => ~run.record
  /\ agent.at # "apply" => run.edits = {}
  /\ agent.at = "redo" => tries.attempt < MaxAttempts

\* What has changed in the tree is in the report, or will be when the run ends.
Covered == ~hidden => Changed \subseteq edits \cup run.edits

IInv == TypeOK /\ Placed /\ RecordsClosed /\ Covered /\ AttemptsTold
-----------------------------------------------------------------------------
(* What the parts of a step do.                                             *)

\* A file that is written, or removed, leaves every other one as it was.
LEMMA OneTouched ==
  ASSUME TypeOK, UNCHANGED driverVars, NEW f \in Files,
         Deletes(f) \/ \E what \in {"ours", "absent"} : Touch(f, what)
  PROVE  /\ disk' \in [Files -> Owners] /\ virt' \in [Files -> Owners]
         /\ dirty' \subseteq Crates(Files)
         /\ Changed' \subseteq Changed \cup {f}
<1>1. /\ disk \in [Files -> Owners] /\ virt \in [Files -> Owners]
      /\ dirty \subseteq Crates(Files) /\ Crates({f}) \subseteq Crates(Files)
      /\ provider' = provider
  BY DEF TypeOK, Owners, Crates, driverVars
<1>2. dirty' \subseteq Crates(Files)
  BY <1>1 DEF Touch, Deletes
<1>3. disk' \in [Files -> Owners] /\ virt' \in [Files -> Owners]
  BY <1>1 DEF Touch, Deletes, Owners
<1>4. Changed' \subseteq Changed \cup {f}
  BY <1>1 DEF Touch, Deletes, Changed, Tree
<1>5. QED
  BY <1>2, <1>3, <1>4

\* A step that writes no file changes none, whatever it builds.
LEMMA NoFile ==
  ASSUME TypeOK, UNCHANGED <<driverVars, disk, virt>>, dirty' \subseteq dirty
  PROVE  /\ disk' \in [Files -> Owners] /\ virt' \in [Files -> Owners]
         /\ dirty' \subseteq Crates(Files)
         /\ Changed' = Changed
BY DEF TypeOK, Owners, driverVars, Changed, Tree

\* A block that was applied, or failed.
LEMMA OneFile ==
  ASSUME TypeOK, UNCHANGED driverVars, NEW f \in Files, Applies(f) \/ Fails
  PROVE  /\ disk' \in [Files -> Owners] /\ virt' \in [Files -> Owners]
         /\ dirty' \subseteq Crates(Files)
         /\ Changed' \subseteq Changed \cup {f}
<1>1. CASE NoTouch
  BY <1>1, NoFile DEF NoTouch
<1>2. CASE Deletes(f) \/ Touch(f, "ours")
  BY <1>2, OneTouched
<1>3. QED
  BY <1>1, <1>2 DEF Applies, Writes, Creates, Fails

\* What update_attempts leaves in the record: every attempt, unless it is lost.
LEMMA Telling ==
  ASSUME TypeOK, NEW n \in 1 .. MaxAttempts, Tell(n)
  PROVE  /\ tries' \in [attempt : 1 .. MaxAttempts, told : 0 .. MaxAttempts, lost : BOOLEAN]
         /\ tries'.attempt = n
         /\ run.record /\ ~tries'.lost => tries'.told = n
<1>1. tries \in [attempt : 1 .. MaxAttempts, told : 0 .. MaxAttempts, lost : BOOLEAN]
  BY DEF TypeOK
<1>2. CASE tries' = [attempt |-> n, told |-> IF run.record THEN n ELSE 0, lost |-> FALSE]
  BY <1>2, AgentAssumption
<1>3. CASE run.record /\ tries' = [tries EXCEPT !.attempt = n, !.lost = TRUE]
  BY <1>1, <1>3
<1>4. QED
  BY <1>2, <1>3 DEF Tell

\* A standard run that ends: an error hides what it wrote, a result reports it, and only
\* an error leaves a record open.
LEMMA RunEndsKeeps ==
  ASSUME IInv, UNCHANGED <<driverVars, tries, disk, virt, dirty>>,
         agent.at \in {"start", "chat", "apply"},
         NEW status \in {"running", "passed", "skipped", "failed"},
         \/ RunEnds(run.edits, TRUE, status) /\ (run.record => status # "running")
         \/ RunEnds({}, FALSE, status)
  PROVE  IInv'
<1> DEFINE ends == {"act", "failed", "returned", "tried"}
<1>1. TypeOK /\ Placed /\ RecordsClosed /\ Covered
  BY DEF IInv
<1>2. /\ run' \in [todo : 0 .. MaxBlocks, edits : SUBSET Files, record : BOOLEAN]
      /\ run'.edits = {} /\ (driver = "swarm" => ~run'.record)
  <2>1. run.record \in BOOLEAN /\ 0 \in 0 .. MaxBlocks
    BY <1>1, AgentAssumption DEF TypeOK
  <2>2. \E b \in BOOLEAN : /\ run' = [todo |-> 0, edits |-> {}, record |-> b]
                           /\ driver = "swarm" => b = FALSE
    BY <2>1 DEF RunEnds, NoRun
  <2>3. QED
    BY <2>1, <2>2
<1>3. /\ edits' \subseteq Files /\ hidden' \in BOOLEAN
      /\ records' \subseteq {"running", "passed", "skipped", "failed"}
      /\ "running" \in records' => hidden'
      /\ ~hidden' => ~hidden /\ run.edits \cup edits \subseteq edits'
  <2>1. CASE RunEnds(run.edits, TRUE, status) /\ (run.record => status # "running")
    BY <1>1, <2>1 DEF TypeOK, RunEnds, RecordsClosed
  <2>2. CASE RunEnds({}, FALSE, status)
    BY <1>1, <2>2 DEF TypeOK, RunEnds
  <2>3. QED
    BY <2>1, <2>2
<1>4. /\ agent' \in [at : ends, step : 1 .. MaxSteps, left : 0 .. MaxBlocks,
                     fixes : 0 .. Attempts, done : BOOLEAN, sub : BOOLEAN]
      /\ ~agent'.sub /\ (agent'.at = "act" => driver = "swarm")
      /\ agent'.at = "returned" => driver = "swarm"
  <2>1. CASE agent.sub
    <3>1. agent' = [agent EXCEPT !.at = "act", !.sub = FALSE, !.left = @ - 1]
      BY <2>1 DEF RunEnds
    <3>2. agent.left - 1 \in 0 .. MaxBlocks /\ driver = "swarm"
      BY <1>1, <2>1, AgentAssumption DEF TypeOK, Placed
    <3>3. QED
      BY <1>1, <3>1, <3>2 DEF TypeOK
  <2>2. CASE ~agent.sub
    <3>1. \E at \in {"failed", "returned", "tried"} :
            agent' = [agent EXCEPT !.at = at] /\ (at = "returned" => driver = "swarm")
      BY <2>2 DEF RunEnds
    <3>2. QED
      BY <1>1, <2>2, <3>1 DEF TypeOK
  <2>3. QED
    BY <1>1, <2>1, <2>2 DEF TypeOK
<1>5. TypeOK'
  BY <1>1, <1>2, <1>3, <1>4 DEF TypeOK, driverVars
<1>6. Placed'
  BY <1>2, <1>4 DEF Placed, driverVars
<1>7. RecordsClosed'
  BY <1>3 DEF RecordsClosed
<1>8. Covered'
  <2>1. UNCHANGED <<driverVars, disk, virt>> /\ dirty' \subseteq dirty
    OBVIOUS
  <2>2. Changed' = Changed
    BY <1>1, <2>1, NoFile
  <2>3. QED
    BY <1>1, <1>3, <2>2 DEF Covered
<1>9. AttemptsTold'
  BY <1>4 DEF AttemptsTold, driverVars
<1>10. QED
  BY <1>5, <1>6, <1>7, <1>8, <1>9 DEF IInv

RunOver == SkipDone \/ ChatFails \/ ParseFails \/ ApplyFails \/ FinishRun

\* The steps that end a standard run.
LEMMA RunOverKeeps ==
  ASSUME IInv, RunOver
  PROVE  IInv'
<1>1. /\ agent.at # "apply" => run.edits = {}
      /\ agent.at = "start" => ~run.record
  BY DEF IInv, Placed
<1>2. CASE SkipDone
  <2>1. run.edits = {} /\ ~run.record
    BY <1>1, <1>2 DEF SkipDone
  <2>2. RunEnds(run.edits, TRUE, "running")
    BY <1>2, <2>1 DEF SkipDone
  <2>3. QED
    BY <1>2, <2>1, <2>2, RunEndsKeeps DEF SkipDone, NoTouch
<1>3. CASE ChatFails
  BY <1>3, RunEndsKeeps DEF ChatFails, NoTouch
<1>4. CASE ParseFails
  <2>1. run.edits = {}
    BY <1>1, <1>4 DEF ParseFails
  <2>2. RunEnds(run.edits, TRUE, "failed")
    BY <1>4, <2>1 DEF ParseFails
  <2>3. QED
    BY <1>4, <2>2, RunEndsKeeps DEF ParseFails, NoTouch
<1>5. CASE ApplyFails
  BY <1>5, RunEndsKeeps DEF ApplyFails, Fails, NoTouch
<1>6. CASE FinishRun
  <2>1. \E status \in {"skipped", "passed"} : RunEnds(run.edits, TRUE, status)
    BY <1>6 DEF FinishRun
  <2>2. QED
    BY <1>6, <2>1, RunEndsKeeps DEF FinishRun, NoTouch
<1>7. QED
  BY <1>2, <1>3, <1>4, <1>5, <1>6 DEF RunOver

\* The others.
Working ==
  \/ StartRun \/ ChatAnswers \/ ChatWraps \/ ApplyNext
  \/ EndUngated \/ EnterGate \/ GateErrs \/ CliGate \/ (\E v \in Verdicts : RetryGate(v))
  \/ RedoFails \/ RedoUnparsed \/ Redo \/ Reapply \/ ReapplyFails \/ ReapplyEnds
  \/ FallBack \/ SalvageBlock \/ WrapText \/ NothingToDo \/ Respond
  \/ Tool \/ EditBlock \/ SpawnAgent \/ Nudge \/ CompileFails \/ CompilesClean \/ NextStep

\* No step writes a file that it does not report, except behind the report.
LEMMA TreeStep ==
  ASSUME TypeOK, Working
  PROVE  /\ disk' \in [Files -> Owners] /\ virt' \in [Files -> Owners]
         /\ dirty' \subseteq Crates(Files) /\ UNCHANGED driverVars
         /\ ~hidden' => Changed' \subseteq Changed \cup edits' \cup run'.edits
<1>0. Valid \subseteq Files /\ WrapTargets \subseteq Files /\ run.edits \subseteq Files
  BY AgentAssumption DEF TypeOK, WrapTargets
<1>1. CASE StartRun \/ ChatAnswers \/ FallBack \/ NothingToDo \/ Respond \/ SpawnAgent \/ Nudge \/ NextStep
  <2>1. UNCHANGED <<driverVars, disk, virt>> /\ dirty' \subseteq dirty
    BY <1>1 DEF StartRun, ChatAnswers, FallBack, NothingToDo, Respond, SpawnAgent, Nudge,
                NextStep, NoTouch, Untouched
  <2>2. QED
    BY <2>1, NoFile
<1>2. CASE EndUngated \/ EnterGate \/ GateErrs \/ CliGate \/ (\E v \in Verdicts : RetryGate(v))
  <2>1. UNCHANGED <<driverVars, disk, virt>> /\ dirty' \subseteq dirty
    BY <1>2 DEF EndUngated, EnterGate, GateErrs, CliGate, RetryGate, Driven
  <2>2. QED
    BY <2>1, NoFile
<1>3. CASE RedoFails \/ RedoUnparsed \/ Redo \/ ReapplyFails \/ ReapplyEnds
  <2>1. UNCHANGED <<driverVars, disk, virt>> /\ dirty' \subseteq dirty
    BY <1>3 DEF RedoFails, RedoUnparsed, Redo, ReapplyFails, ReapplyEnds, Driven
  <2>2. QED
    BY <2>1, NoFile
<1>4. CASE CompileFails \/ CompilesClean
  <2>1. UNCHANGED <<driverVars, disk, virt>> /\ dirty' \subseteq dirty
    BY <1>4 DEF CompileFails, CompilesClean, Check, Built, Untouched
  <2>2. QED
    BY <2>1, NoFile
<1>5. CASE ChatWraps \/ ApplyNext
  <2>1. /\ UNCHANGED driverVars
        /\ \E f \in Files : Applies(f) /\ f \in run'.edits
    <3>1. run = [todo |-> run.todo, edits |-> run.edits, record |-> run.record]
      BY DEF TypeOK
    <3>2. CASE ChatWraps
      BY <1>0, <3>1, <3>2 DEF ChatWraps, Applies
    <3>3. CASE ApplyNext
      BY <1>0, <3>1, <3>3 DEF ApplyNext
    <3>4. QED
      BY <1>5, <3>2, <3>3
  <2>2. QED
    BY <2>1, OneFile
<1>6. CASE SalvageBlock \/ WrapText \/ EditBlock \/ Reapply
  <2>1. /\ UNCHANGED driverVars
        /\ \/ \E f \in Files : (Applies(f) \/ Fails) /\ f \in edits'
           \/ Fails
    BY <1>0, <1>6 DEF SalvageBlock, WrapText, EditBlock, Reapply, Applies, Untouched
  <2>2. CASE Fails
    BY <2>1, <2>2, NoFile DEF Fails, NoTouch
  <2>3. QED
    BY <2>1, <2>2, OneFile
<1>7. CASE Tool
  <2>1. UNCHANGED driverVars
    BY <1>7 DEF Tool, Untouched
  <2>2. CASE NoTouch
    BY <2>1, <2>2, NoFile DEF NoTouch
  <2>3. CASE \E f \in Files, w \in {"ours", "absent"} : Touch(f, w) /\ hidden' = TRUE
    BY <2>1, <2>3, OneTouched
  <2>4. QED
    BY <1>7, <2>2, <2>3 DEF Tool
<1>8. QED
  BY <1>1, <1>2, <1>3, <1>4, <1>5, <1>6, <1>7 DEF Working

-----------------------------------------------------------------------------
(* The invariant.                                                           *)

Places == {"ask", "act", "start", "chat", "apply", "tried", "gate", "redo", "reapply",
           "returned", "failed", "panicked"}
AgentStates == [at : Places, step : 1 .. MaxSteps, left : 0 .. MaxBlocks,
                fixes : 0 .. Attempts, done : BOOLEAN, sub : BOOLEAN]
RunStates == [todo : 0 .. MaxBlocks, edits : SUBSET Files, record : BOOLEAN]
TryStates == [attempt : 1 .. MaxAttempts, told : 0 .. MaxAttempts, lost : BOOLEAN]
RecordStates == {"running", "passed", "skipped", "failed"}

\* Where a step may take the agent.
LEMMA AgentForms ==
  ASSUME TypeOK
  PROVE  /\ agent \in AgentStates
         /\ \A at \in Places : [agent EXCEPT !.at = at] \in AgentStates
         /\ Return \in AgentStates /\ [agent EXCEPT !.at = "start", !.sub = TRUE] \in AgentStates
         /\ \A n \in 1 .. MaxBlocks : [agent EXCEPT !.at = "act", !.left = n] \in AgentStates
         /\ agent.step # MaxSteps => [agent EXCEPT !.at = "ask", !.step = @ + 1] \in AgentStates
         /\ agent.left > 0 =>
              /\ NextBlock \in AgentStates /\ [NextBlock EXCEPT !.done = TRUE] \in AgentStates
              /\ agent.fixes < Attempts => [NextBlock EXCEPT !.fixes = @ + 1] \in AgentStates
<1>1. agent \in AgentStates
  BY DEF TypeOK, AgentStates, Places
<1>2. \A at \in Places : [agent EXCEPT !.at = at] \in AgentStates
  BY <1>1 DEF AgentStates
<1>3. Return \in AgentStates /\ [agent EXCEPT !.at = "start", !.sub = TRUE] \in AgentStates
  BY <1>1 DEF AgentStates, Return, Places
<1>4. ASSUME NEW n \in 1 .. MaxBlocks
      PROVE  [agent EXCEPT !.at = "act", !.left = n] \in AgentStates
  <2>1. n \in 0 .. MaxBlocks
    BY AgentAssumption
  <2>2. QED
    BY <1>1, <2>1 DEF AgentStates, Places
<1>5. ASSUME agent.step # MaxSteps
      PROVE  [agent EXCEPT !.at = "ask", !.step = @ + 1] \in AgentStates
  <2>1. agent.step + 1 \in 1 .. MaxSteps
    BY <1>1, <1>5, AgentAssumption DEF AgentStates
  <2>2. QED
    BY <1>1, <2>1 DEF AgentStates, Places
<1>6. ASSUME agent.left > 0
      PROVE  NextBlock \in AgentStates /\ [NextBlock EXCEPT !.done = TRUE] \in AgentStates
  <2>1. agent.left - 1 \in 0 .. MaxBlocks
    BY <1>1, <1>6, AgentAssumption DEF AgentStates
  <2>2. NextBlock \in AgentStates
    BY <1>1, <2>1 DEF AgentStates, NextBlock
  <2>3. QED
    BY <2>2 DEF AgentStates
<1>7. ASSUME agent.left > 0, agent.fixes < Attempts
      PROVE  [NextBlock EXCEPT !.fixes = @ + 1] \in AgentStates
  <2>1. NextBlock \in AgentStates /\ NextBlock.fixes = agent.fixes
    BY <1>1, <1>6, <1>7 DEF NextBlock, AgentStates
  <2>2. agent.fixes + 1 \in 0 .. Attempts
    BY <1>1, <1>7 DEF AgentStates, Attempts
  <2>3. QED
    BY <2>1, <2>2 DEF AgentStates
<1>8. QED
  BY <1>1, <1>2, <1>3, <1>4, <1>5, <1>6, <1>7

\* And so the agent stays within its limits.
LEMMA AgentStep ==
  ASSUME TypeOK, Working
  PROVE  agent' \in AgentStates
<1>1. CASE StartRun \/ ChatAnswers \/ ChatWraps \/ ApplyNext
  BY <1>1, AgentForms DEF StartRun, ChatAnswers, ChatWraps, ApplyNext, Places
<1>2. CASE EndUngated \/ EnterGate \/ GateErrs \/ CliGate \/ (\E v \in Verdicts : RetryGate(v))
  BY <1>2, AgentForms DEF EndUngated, EnterGate, GateErrs, CliGate, RetryGate, Places
<1>3. CASE RedoFails \/ RedoUnparsed \/ Redo \/ Reapply \/ ReapplyFails \/ ReapplyEnds
  BY <1>3, AgentForms DEF RedoFails, RedoUnparsed, Redo, Reapply, ReapplyFails, ReapplyEnds,
                          Places
<1>4. CASE FallBack \/ NothingToDo \/ Respond \/ SpawnAgent
  BY <1>4, AgentForms DEF FallBack, NothingToDo, Respond, SpawnAgent, Places
<1>5. CASE SalvageBlock \/ WrapText \/ EditBlock \/ Tool \/ Nudge
  BY <1>5, AgentForms DEF SalvageBlock, WrapText, EditBlock, Tool, Nudge, InLoop, Places
<1>6. CASE CompileFails \/ CompilesClean
  BY <1>6, AgentForms DEF CompileFails, CompilesClean, Check, InLoop
<1>7. CASE NextStep
  BY <1>7, AgentForms DEF NextStep
<1>8. QED
  BY <1>1, <1>2, <1>3, <1>4, <1>5, <1>6, <1>7 DEF Working

\* The state of a standard run keeps its type: no more blocks than one answer has.
LEMMA RunStep ==
  ASSUME TypeOK, Working
  PROVE  run' \in RunStates
<1>1. CASE UNCHANGED run
  BY <1>1 DEF TypeOK, RunStates
<1>2. CASE StartRun
  <2>1. \E b \in BOOLEAN : run' = [NoRun EXCEPT !.record = b]
    BY <1>2 DEF StartRun
  <2>2. NoRun \in RunStates
    BY AgentAssumption DEF NoRun, RunStates
  <2>3. QED
    BY <2>1, <2>2 DEF RunStates
<1>3. CASE \E n \in 0 .. MaxBlocks : run' = [run EXCEPT !.todo = n]
  BY <1>3 DEF TypeOK, RunStates
<1>4. CASE ChatWraps
  <2>1. \E f \in Files : run' = [run EXCEPT !.edits = {f}]
    BY <1>4, AgentAssumption DEF ChatWraps
  <2>2. QED
    BY <2>1 DEF TypeOK, RunStates
<1>5. CASE ApplyNext \/ Reapply
  <2>1. run.todo - 1 \in 0 .. MaxBlocks
    <3>1. run.todo \in 0 .. MaxBlocks /\ run.todo > 0 /\ MaxBlocks \in Nat
      BY <1>5, AgentAssumption DEF ApplyNext, Reapply, TypeOK
    <3>2. QED
      BY <3>1
  <2>2. \E S \in SUBSET Files : run' = [run EXCEPT !.todo = run.todo - 1, !.edits = S]
    <3>1. run \in RunStates /\ run.edits \subseteq Files
      BY DEF TypeOK, RunStates
    <3>2. CASE ApplyNext
      <4>1. PICK f \in Valid : run' = [run EXCEPT !.todo = @ - 1, !.edits = @ \cup {f}]
        BY <3>2 DEF ApplyNext
      <4>2. run.edits \cup {f} \in SUBSET Files
        BY <3>1, AgentAssumption
      <4>3. QED
        BY <4>1, <4>2
    <3>3. CASE Reapply
      <4>1. run' = [run EXCEPT !.todo = run.todo - 1, !.edits = run.edits]
        BY <3>1, <3>3 DEF Reapply, RunStates
      <4>2. QED
        BY <3>1, <4>1
    <3>4. QED
      BY <1>5, <3>2, <3>3
  <2>3. QED
    BY <2>1, <2>2 DEF TypeOK, RunStates
<1>6. QED
  BY <1>1, <1>2, <1>3, <1>4, <1>5
     DEF Working, ChatAnswers, EndUngated, EnterGate, GateErrs, CliGate, RetryGate, RedoFails,
         RedoUnparsed, Redo, ReapplyFails, ReapplyEnds, FallBack, SalvageBlock, WrapText,
         NothingToDo, Respond, Tool, EditBlock, SpawnAgent, Nudge, CompileFails, CompilesClean,
         Check, NextStep, Untouched

\* The steps of the loop, of a standard run and of the gate keep the types.
LEMMA TypeStep ==
  ASSUME TypeOK, Placed, Working
  PROVE  TypeOK'
<1>1. tries' \in TryStates
  <2>1. CASE UNCHANGED tries
    BY <2>1 DEF TypeOK, TryStates
  <2>2. CASE EndUngated
    BY <2>1, <2>2, Telling, AgentAssumption DEF EndUngated, TryStates
  <2>3. CASE \E v \in Verdicts : RetryGate(v)
    <3>1. tries.attempt \in 1 .. MaxAttempts
      BY DEF TypeOK
    <3>2. QED
      BY <2>1, <2>3, <3>1, Telling DEF RetryGate, TryStates
  <2>4. CASE RedoUnparsed \/ Redo
    <3>1. tries.attempt + 1 \in 1 .. MaxAttempts
      BY <2>4, AgentAssumption DEF TypeOK, Placed, RedoUnparsed, Redo
    <3>2. CASE RedoUnparsed
      BY <3>1, <3>2, Telling DEF RedoUnparsed, TryStates
    <3>3. CASE Redo
      BY <3>1, <3>3 DEF Redo, TryStates, TypeOK
    <3>4. QED
      BY <2>4, <3>2, <3>3
  <2>5. QED
    BY <2>1, <2>2, <2>3, <2>4
       DEF Working, StartRun, ChatAnswers, ChatWraps, ApplyNext, EnterGate, GateErrs, CliGate,
           RedoFails, Reapply, ReapplyFails, ReapplyEnds, FallBack, SalvageBlock, WrapText,
           NothingToDo, Respond, Tool, EditBlock, SpawnAgent, Nudge, CompileFails, CompilesClean,
           Check, NextStep, Untouched
<1>2. edits' \subseteq Files /\ hidden' \in BOOLEAN
  <2>1. CASE UNCHANGED <<edits, hidden>>
    BY <2>1 DEF TypeOK
  <2>2. CASE Redo \/ Reapply \/ SalvageBlock \/ WrapText \/ EditBlock \/ Tool
    BY <2>2, AgentAssumption
       DEF TypeOK, Redo, Reapply, SalvageBlock, WrapText, WrapTargets, EditBlock, Tool
  <2>3. QED
    BY <2>1, <2>2
       DEF Working, StartRun, ChatAnswers, ChatWraps, ApplyNext, EndUngated, EnterGate, GateErrs,
           CliGate, RetryGate, RedoFails, RedoUnparsed, ReapplyFails, ReapplyEnds, FallBack,
           NothingToDo, Respond, SpawnAgent, Nudge, CompileFails, CompilesClean, Check, NextStep
<1>3. records' \subseteq RecordStates
  <2>1. CASE UNCHANGED records
    BY <2>1 DEF TypeOK, RecordStates
  <2>2. CASE CliGate
    BY <2>2 DEF TypeOK, RecordStates, CliGate, Verdicts
  <2>3. QED
    BY <2>1, <2>2
       DEF Working, StartRun, ChatAnswers, ChatWraps, ApplyNext, EndUngated, EnterGate, GateErrs,
           RetryGate, RedoFails, RedoUnparsed, Redo, Reapply, ReapplyFails, ReapplyEnds, FallBack,
           SalvageBlock, WrapText, NothingToDo, Respond, Tool, EditBlock, SpawnAgent, Nudge,
           CompileFails, CompilesClean, Check, NextStep, Untouched
<1>4. QED
  BY <1>1, <1>2, <1>3, AgentStep, RunStep, TreeStep
     DEF TypeOK, AgentStates, Places, RunStates, TryStates, RecordStates, Owners, driverVars

\* The places of the loop stay the swarm's, and the standard run's edits its own.
LEMMA PlacedStep ==
  ASSUME TypeOK, Placed, Working
  PROVE  Placed'
<1>1. CASE StartRun
  BY <1>1 DEF TypeOK, Placed, driverVars, StartRun, NoRun
<1>2. CASE ChatAnswers \/ ChatWraps \/ ApplyNext
  BY <1>2 DEF TypeOK, Placed, driverVars, ChatAnswers, ChatWraps, ApplyNext
<1>3. CASE EndUngated \/ EnterGate \/ GateErrs \/ CliGate
  BY <1>3 DEF TypeOK, Placed, driverVars, EndUngated, EnterGate, GateErrs, CliGate, Driven, Return
<1>4. CASE \E v \in Verdicts : RetryGate(v)
  <2>1. agent.at = "gate" /\ ~agent.sub /\ UNCHANGED <<driver, run>> /\ run.edits = {}
    BY <1>4 DEF TypeOK, Placed, driverVars, RetryGate, Driven
  <2>2. tries.attempt \in 1 .. MaxAttempts /\ tries'.attempt = tries.attempt
    BY <1>4, Telling DEF TypeOK, RetryGate
  <2>3. \E at \in {"returned", "redo"} :
          /\ agent' = [agent EXCEPT !.at = at]
          /\ at = "redo" => tries.attempt # MaxAttempts
    BY <1>4 DEF RetryGate, Return, OutOfAttempts
  <2>4. agent'.at \in {"returned", "redo"} /\ ~agent'.sub
        /\ (agent'.at = "redo" => tries.attempt # MaxAttempts)
    BY <2>1, <2>3 DEF TypeOK
  <2>5. agent'.at = "redo" => tries'.attempt < MaxAttempts
    BY <2>2, <2>4, AgentAssumption
  <2>6. QED
    BY <2>1, <2>4, <2>5 DEF Placed
<1>5. CASE RedoUnparsed
  BY <1>5, AgentAssumption, Telling DEF TypeOK, Placed, driverVars, RedoUnparsed, Driven, Return
<1>6. CASE RedoFails \/ Redo \/ Reapply \/ ReapplyFails \/ ReapplyEnds
  BY <1>6 DEF TypeOK, Placed, driverVars, RedoFails, Redo, Reapply, ReapplyFails, ReapplyEnds, Driven
<1>7. CASE FallBack \/ NothingToDo \/ SpawnAgent
  BY <1>7 DEF TypeOK, Placed, driverVars, FallBack, NothingToDo, SpawnAgent, Untouched, Return, InLoop
<1>13. CASE Respond
  BY <1>13 DEF TypeOK, Placed, driverVars, Respond, Untouched
<1>8. CASE SalvageBlock \/ WrapText
  BY <1>8 DEF TypeOK, Placed, driverVars, SalvageBlock, WrapText, Untouched, Return
<1>9. CASE EditBlock \/ Tool \/ Nudge
  BY <1>9 DEF TypeOK, Placed, driverVars, EditBlock, Tool, Nudge, Untouched, NextBlock, InLoop
<1>10. CASE CompileFails \/ CompilesClean
  <2>1. /\ agent.at = "act" /\ ~agent.sub /\ driver = "swarm" /\ ~run.record /\ run.edits = {}
        /\ UNCHANGED <<driver, run, tries>>
    BY <1>10 DEF TypeOK, Placed, driverVars, CompileFails, CompilesClean, Check, Untouched, InLoop
  <2>2. agent' \in {[NextBlock EXCEPT !.fixes = @ + 1], [NextBlock EXCEPT !.done = TRUE]}
    BY <1>10 DEF CompileFails, CompilesClean, Check
  <2>3. agent'.at = "act" /\ ~agent'.sub
    BY <2>1, <2>2 DEF TypeOK, NextBlock
  <2>4. QED
    BY <2>1, <2>3 DEF Placed
<1>11. CASE NextStep
  BY <1>11 DEF TypeOK, Placed, driverVars, NextStep, Untouched, Return
<1>12. QED
  BY <1>1, <1>2, <1>3, <1>4, <1>5, <1>6, <1>7, <1>8, <1>9, <1>10, <1>11, <1>13 DEF Working

\* The gate rewrites a record only to close it.
LEMMA ClosedStep ==
  ASSUME RecordsClosed, TypeOK, Working
  PROVE  RecordsClosed'
<1>1. hidden => hidden'
  BY DEF Working, StartRun, ChatAnswers, ChatWraps, ApplyNext, EndUngated, EnterGate, GateErrs,
         CliGate, RetryGate, RedoFails, RedoUnparsed, Redo, Reapply, ReapplyFails, ReapplyEnds,
         FallBack, SalvageBlock, WrapText, NothingToDo, Respond, Tool, EditBlock, SpawnAgent,
         Nudge, CompileFails, CompilesClean, Check, NextStep
<1>2. CASE UNCHANGED records
  BY <1>1, <1>2 DEF RecordsClosed
<1>3. CASE CliGate
  BY <1>3 DEF CliGate, Verdicts, RecordsClosed
<1>4. QED
  BY <1>2, <1>3
     DEF Working, StartRun, ChatAnswers, ChatWraps, ApplyNext, EndUngated, EnterGate, GateErrs,
         RetryGate, RedoFails, RedoUnparsed, Redo, Reapply, ReapplyFails, ReapplyEnds, FallBack,
         SalvageBlock, WrapText, NothingToDo, Respond, Tool, EditBlock, SpawnAgent, Nudge,
         CompileFails, CompilesClean, Check, NextStep, Untouched

\* No step forgets what was reported, unless it hides it.
LEMMA CoveredStep ==
  ASSUME TypeOK, Placed, Covered, Working
  PROVE  Covered'
<1>1. ~hidden' => ~hidden /\ edits \cup run.edits \subseteq edits' \cup run'.edits
  <2>1. CASE StartRun
    BY <2>1 DEF StartRun, Placed
  <2>2. CASE ChatAnswers \/ ApplyNext
    <3>1. run \in RunStates
      BY DEF TypeOK, RunStates
    <3>2. run.edits \subseteq run'.edits /\ UNCHANGED <<edits, hidden>>
      BY <2>2, <3>1 DEF ChatAnswers, ApplyNext, RunStates
    <3>3. QED
      BY <3>2
  <2>3. CASE ChatWraps
    BY <2>3 DEF ChatWraps, Placed
  <2>4. CASE UNCHANGED run /\ edits \subseteq edits' /\ (hidden => hidden')
    BY <2>4
  <2>5. CASE Redo
    BY <2>5 DEF Redo
  <2>6. CASE Reapply
    BY <2>6 DEF Reapply, TypeOK
  <2>7. QED
    BY <2>1, <2>2, <2>3, <2>4, <2>5, <2>6
       DEF Working, EndUngated, EnterGate, GateErrs, CliGate, RetryGate, RedoFails, RedoUnparsed,
           ReapplyFails, ReapplyEnds, FallBack, SalvageBlock, WrapText, NothingToDo, Respond,
           Tool, EditBlock, SpawnAgent, Nudge, CompileFails, CompilesClean, Check, NextStep,
           Untouched
<1>2. ~hidden' => Changed' \subseteq Changed \cup edits' \cup run'.edits
  BY TreeStep
<1>3. QED
  BY <1>1, <1>2 DEF Covered

\* Whatever returns to run_with_retry's caller has told of its attempts just then.
LEMMA ToldStep ==
  ASSUME TypeOK, Placed, Working
  PROVE  AttemptsTold'
<1> SUFFICES ASSUME driver' = "retry", agent'.at = "returned", run'.record, ~tries'.lost
             PROVE  tries'.told = tries'.attempt
  BY DEF AttemptsTold
<1>1. driver = "retry" /\ agent.at \notin {"ask", "act"}
  BY TreeStep DEF Placed, driverVars
<1>2. tries.attempt \in 1 .. MaxAttempts /\ 1 \in 1 .. MaxAttempts /\ MaxAttempts \in Nat \ {0, 1}
  BY AgentAssumption DEF TypeOK
<1>3. CASE EndUngated
  BY <1>1, <1>2, <1>3, Telling DEF EndUngated
<1>4. CASE \E v \in Verdicts : RetryGate(v)
  <2>1. UNCHANGED run /\ agent.at = "gate"
    BY <1>4 DEF RetryGate
  <2>2. CASE Tell(tries.attempt)
    BY <1>2, <2>1, <2>2, Telling
  <2>3. CASE tries.attempt = 1 /\ agent' = [agent EXCEPT !.at = "redo"]
    BY <2>3 DEF TypeOK
  <2>4. QED
    BY <1>2, <1>4, <2>2, <2>3 DEF RetryGate, OutOfAttempts
<1>5. CASE RedoUnparsed
  <2>1. tries.attempt + 1 \in 1 .. MaxAttempts
    BY <1>2, <1>5 DEF RedoUnparsed, Placed
  <2>2. QED
    BY <1>5, <2>1, Telling DEF RedoUnparsed
<1>6. CASE agent'.at # "returned"
  BY <1>6
<1>7. QED
  <2>1. CASE StartRun \/ ChatAnswers \/ ChatWraps \/ ApplyNext \/ Reapply
    BY <2>1 DEF StartRun, ChatAnswers, ChatWraps, ApplyNext, Reapply, TypeOK
  <2>2. CASE EnterGate \/ GateErrs \/ RedoFails \/ Redo \/ ReapplyFails \/ ReapplyEnds
    BY <2>2 DEF EnterGate, GateErrs, RedoFails, Redo, ReapplyFails, ReapplyEnds, TypeOK
  <2>3. CASE CliGate
    BY <1>1, <2>3 DEF CliGate
  <2>4. QED
    BY <1>1, <1>3, <1>4, <1>5, <2>1, <2>2, <2>3
       DEF Working, FallBack, SalvageBlock, WrapText, NothingToDo, Respond, Tool, EditBlock,
           SpawnAgent, Nudge, CompileFails, CompilesClean, Check, NextStep, InLoop
-----------------------------------------------------------------------------
(* Theorems.                                                                *)

\* Nothing has changed before an agent starts.
LEMMA InitInv == Init => IInv
<1> SUFFICES ASSUME Init PROVE IInv
  OBVIOUS
<1>1. BaseTree(Existing) \in [Files -> Owners] /\ BaseTree({}) \in [Files -> Owners]
  BY DEF BaseTree, Owners
<1>2. Begin \in AgentStates /\ [Begin EXCEPT !.at = "start"] \in AgentStates
  <2>1. 1 \in 1 .. MaxSteps /\ 0 \in 0 .. MaxBlocks /\ 0 \in 0 .. Attempts
    BY AgentAssumption DEF Attempts
  <2>2. QED
    BY <2>1 DEF Begin, AgentStates, Places
<1>3. NoRun \in RunStates /\ tries \in TryStates
  BY AgentAssumption DEF Init, NoRun, RunStates, TryStates
<1>4. TypeOK
  BY <1>1, <1>2, <1>3 DEF Init, TypeOK, AgentStates, Places, RunStates, TryStates, Owners
<1>5. Placed
  BY DEF Init, Placed, Begin, NoRun
<1>6. Changed = {}
  BY DEF Init, Changed, Tree
<1>7. RecordsClosed /\ Covered /\ AttemptsTold
  BY <1>6 DEF Init, RecordsClosed, Covered, AttemptsTold, Begin
<1>8. QED
  BY <1>4, <1>5, <1>7 DEF IInv

\* Every step keeps the invariant.
LEMMA StepInv == IInv /\ [Next]_vars => IInv'
<1> SUFFICES ASSUME IInv, [Next]_vars PROVE IInv'
  OBVIOUS
<1>1. CASE RunOver
  BY <1>1, RunOverKeeps
<1>2. CASE Working
  BY <1>2, TypeStep, PlacedStep, ClosedStep, CoveredStep, ToldStep DEF IInv
<1>3. CASE UNCHANGED vars
  BY <1>3 DEF vars, driverVars, IInv, TypeOK, Placed, RecordsClosed, Covered, AttemptsTold, Changed, Tree
<1>4. QED
  BY <1>1, <1>2, <1>3 DEF Next, RunOver, Working

\* The invariant holds for any files, answers, tools, builds and attempts.
THEOREM AgentInvariance == Spec => []IInv
BY InitInv, StepInv, PTL DEF Spec

\* Steps, blocks, compile fixes and attempts stay within their limits (run_with_tools,
\* run_with_retry).
THEOREM WithinLimits == Spec => []TypeOK
<1>1. IInv => TypeOK
  BY DEF IInv
<1>2. QED
  BY <1>1, AgentInvariance, PTL

\* An agent that returns has reported every file it left changed (agent.rs:765-797),
\* unless something wrote behind the report.
THEOREM ReportIsWhole == Spec => []ChangesReported
<1>1. IInv => ChangesReported
  BY DEF IInv, Placed, Covered, ChangesReported
<1>2. QED
  BY <1>1, AgentInvariance, PTL

\* The record of a retried run tells of every attempt (agent.rs:443-588).
THEOREM EveryAttemptTold == Spec => []AttemptsTold
<1>1. IInv => AttemptsTold
  BY DEF IInv
<1>2. QED
  BY <1>1, AgentInvariance, PTL

\* Every early return of a run that gives a result has closed its record
\* (agent.rs:326-410).
THEOREM ResultsCloseRecords == Spec => []RecordsClosed
<1>1. IInv => RecordsClosed
  BY DEF IInv
<1>2. QED
  BY <1>1, AgentInvariance, PTL

\* Nothing but an accepted check lets an agent be done.
LEMMA DoneStep ==
  ASSUME TypeOK, [Next]_vars, ~agent.done, agent'.done
  PROVE  agent'.fixes = Attempts \/ dirty' \cap Crates(edits') = {}
<1>1. CASE \E clean \in BOOLEAN : Check(clean)
  <2>1. PICK clean \in BOOLEAN : Check(clean)
    BY <1>1
  <2>2. CASE clean = TRUE
    BY <2>1, <2>2 DEF Check, Built, Checkable
  <2>3. CASE clean = FALSE /\ agent.fixes < Attempts
    BY <2>1, <2>3 DEF Check, NextBlock, TypeOK
  <2>4. CASE clean = FALSE /\ ~(agent.fixes < Attempts)
    <3>1. agent.fixes = Attempts
      BY <2>4 DEF TypeOK, Attempts
    <3>2. QED
      BY <2>1, <2>4, <3>1 DEF Check, NextBlock, TypeOK
  <2>5. QED
    BY <2>1, <2>2, <2>3, <2>4
<1>2. CASE RunOver
  <2>1. \E found, ok, status : RunEnds(found, ok, status)
    BY <1>2 DEF RunOver, SkipDone, ChatFails, ParseFails, ApplyFails, FinishRun
  <2>2. agent'.done = agent.done
    BY <2>1 DEF RunEnds, TypeOK
  <2>3. QED
    BY <2>2
<1>3. CASE \/ StartRun \/ ChatAnswers \/ ChatWraps \/ ApplyNext \/ EndUngated \/ EnterGate
           \/ GateErrs \/ CliGate \/ (\E v \in Verdicts : RetryGate(v)) \/ RedoFails
           \/ RedoUnparsed \/ Redo \/ Reapply \/ ReapplyFails \/ ReapplyEnds
  <2>1. agent'.done = agent.done
    BY <1>3 DEF StartRun, ChatAnswers, ChatWraps, ApplyNext, EndUngated, EnterGate, GateErrs,
                CliGate, RetryGate, RedoFails, RedoUnparsed, Redo, Reapply, ReapplyFails,
                ReapplyEnds, Return, TypeOK
  <2>2. QED
    BY <2>1
<1>4. CASE \/ FallBack \/ SalvageBlock \/ WrapText \/ NothingToDo \/ Respond \/ Tool
           \/ EditBlock \/ SpawnAgent \/ Nudge \/ NextStep
  <2>1. agent'.done = agent.done
    BY <1>4 DEF FallBack, SalvageBlock, WrapText, NothingToDo, Respond, Tool, EditBlock,
                SpawnAgent, Nudge, NextStep, NextBlock, Return, TypeOK
  <2>2. QED
    BY <2>1
<1>5. CASE UNCHANGED vars
  BY <1>5 DEF vars
<1>6. QED
  BY <1>1, <1>2, <1>3, <1>4, <1>5 DEF Next, RunOver, CompileFails, CompilesClean

\* A DONE is accepted only with every reported crate built, or with no fix left
\* (agent.rs:807-826).
THEOREM DoneMeansBuilt == Spec => DoneIsClean
<1>1. TypeOK /\ [Next]_vars =>
        (~agent.done /\ agent'.done =>
           agent'.fixes = Attempts \/ dirty' \cap Crates(edits') = {})
  BY DoneStep
<1>2. QED
  BY <1>1, WithinLimits, PTL DEF Spec, DoneIsClean
-----------------------------------------------------------------------------
(* The virtual workspace.                                                   *)

\* Some paths, each with a content.
FileSets == UNION {[S -> Contents] : S \in SUBSET Paths}

\* Loading, writing and deleting give a workspace again (workspace.rs:75-95).
LEMMA EditsTyped ==
  ASSUME NEW ws \in Workspaces, NEW files \in FileSets, NEW path \in Paths
  PROVE  /\ LoadFiles(ws, files) \in Workspaces
         /\ WriteFiles(ws, files) \in Workspaces
         /\ DeleteFile(ws, path) \in Workspaces
<1>1. \A tree \in Trees : Over(tree, files) \in Trees
  BY DEF Over, Trees, FileSets
<1>2. [ws.working EXCEPT ![path] = Absent] \in Trees
  BY DEF Workspaces, Trees
<1> QED BY <1>1, <1>2 DEF LoadFiles, WriteFiles, DeleteFile, Workspaces

\* What is put can be read, and putting removes nothing (store.rs:48-52).
LEMMA PutStored ==
  ASSUME NEW tree \in Trees, NEW store, NEW files \in FileSets, TreeStored(tree, store)
  PROVE  TreeStored(Over(tree, files), Put(store, files)) /\ TreeStored(tree, Put(store, files))
BY DEF TreeStored, Over, Put, Trees, FileSets

\* Every operation leaves a workspace whose entries can all be read from its store
\* (read_file after load_file, write_file, delete_file, commit and fork).
THEOREM BlobsStayReadable ==
  ASSUME NEW ws \in Workspaces, NEW store, NEW files \in FileSets, NEW path \in Paths,
         Stored(ws, store)
  PROVE  /\ Stored(LoadFiles(ws, files), Put(store, files))
         /\ Stored(WriteFiles(ws, files), Put(store, files))
         /\ Stored(DeleteFile(ws, path), store)
         /\ Stored(Commit(ws), store)
         /\ Stored(Fork(ws), store)
<1>1. ws.base \in Trees /\ ws.working \in Trees
  BY DEF Workspaces
<1>2. TreeStored(ws.base, store) /\ TreeStored(ws.working, store)
  BY DEF Stored
<1>3. Stored(LoadFiles(ws, files), Put(store, files))
  BY <1>1, <1>2, PutStored DEF Stored, LoadFiles
<1>4. Stored(WriteFiles(ws, files), Put(store, files))
  BY <1>1, <1>2, PutStored DEF Stored, WriteFiles, Workspaces
<1>5. TreeStored([ws.working EXCEPT ![path] = Absent], store)
  BY <1>1, <1>2 DEF TreeStored, Trees
<1>6. Stored(DeleteFile(ws, path), store)
  BY <1>2, <1>5 DEF Stored, DeleteFile, Workspaces
<1>7. Stored(Commit(ws), store) /\ Stored(Fork(ws), store)
  BY <1>2 DEF Stored, Commit, Fork, Workspaces
<1> QED BY <1>3, <1>4, <1>6, <1>7

\* A merge, too: the contents it takes are copied into our store (workspace.rs:222-246).
THEOREM MergeStaysReadable ==
  ASSUME NEW ours \in Workspaces, NEW theirs \in Workspaces,
         NEW store, NEW theirStore, Stored(ours, store)
  PROVE  Stored(Merge(ours, theirs, theirStore), MergedStore(ours, theirs, store, theirStore))
<1> DEFINE merged == Merge(ours, theirs, theirStore)
           both   == MergedStore(ours, theirs, store, theirStore)
<1>1. merged.base = ours.base
  BY DEF Merge, Workspaces
<1>2. merged.working = [p \in Paths |->
        IF /\ TheyChanged(ours, theirs, p)
           /\ theirs.working[p] \in theirStore \cup {Absent}
        THEN theirs.working[p] ELSE ours.working[p]]
  BY DEF Merge, Workspaces
<1>3. TreeStored(ours.base, both) /\ TreeStored(ours.working, both)
  BY DEF Stored, TreeStored, MergedStore
<1>4. TreeStored(merged.working, both)
  <2> SUFFICES ASSUME NEW p \in Paths, merged.working[p] # Absent
               PROVE  merged.working[p] \in both
    BY DEF TreeStored
  <2>1. CASE TheyChanged(ours, theirs, p) /\ theirs.working[p] \in theirStore \cup {Absent}
    <3>1. merged.working[p] = theirs.working[p]
      BY <1>2, <2>1
    <3> QED BY <2>1, <3>1 DEF MergedStore
  <2>2. CASE ~(TheyChanged(ours, theirs, p) /\ theirs.working[p] \in theirStore \cup {Absent})
    <3>1. merged.working[p] = ours.working[p]
      BY <1>2, <2>2
    <3> QED BY <1>3, <3>1 DEF TreeStored
  <2> QED BY <2>1, <2>2
<1> HIDE DEF merged, both
<1> QED BY <1>1, <1>3, <1>4 DEF Stored, merged, both

\* What has been committed is no change any more (workspace.rs:130-149).
THEOREM CommitSettles ==
  ASSUME NEW ws \in Workspaces
  PROVE  ~HasChanges(Commit(ws)) /\ \A p \in Paths : ReadFile(Commit(ws), p) = ReadFile(ws, p)
BY DEF HasChanges, Diff, Commit, ReadFile, Workspaces

\* The diff of a workspace that was loaded with `old' and then written with `new' is
\* what `new' changes: the files the pull request of a run is made from
\* (executor.rs:1425-1436, github.rs:245-248).
THEOREM DiffOfLoadedAndWritten ==
  ASSUME NEW old \in FileSets, NEW new \in FileSets, DOMAIN old \subseteq DOMAIN new,
         Absent \notin Contents
  PROVE  Diff(WriteFiles(LoadFiles(New, old), new))
           = {p \in DOMAIN new : p \notin DOMAIN old \/ old[p] # new[p]}
<1> DEFINE ws == WriteFiles(LoadFiles(New, old), new)
<1>1. ws.base = Over(EmptyTree, old) /\ ws.working = Over(Over(EmptyTree, old), new)
  BY DEF WriteFiles, LoadFiles, New
<1>2. \A p \in Paths : /\ ws.base[p] = IF p \in DOMAIN old THEN old[p] ELSE Absent
                       /\ ws.working[p] = IF p \in DOMAIN new THEN new[p]
                                          ELSE IF p \in DOMAIN old THEN old[p] ELSE Absent
  BY <1>1 DEF Over, EmptyTree
<1>3. DOMAIN new \subseteq Paths /\ \A p \in DOMAIN new : new[p] # Absent
  BY DEF FileSets
<1> HIDE DEF ws
<1> QED BY <1>2, <1>3 DEF Diff, ws

\* The list of modified files leaves deletions out: it is the diff exactly when nothing
\* was deleted (file_provider.rs:105-112; a run's deletions are in no pull request).
THEOREM ModifiedFilesOmitDeletions ==
  ASSUME NEW ws \in Workspaces
  PROVE  DOMAIN ModifiedFiles(ws) = Diff(ws) <=> \A p \in Diff(ws) : ws.working[p] # Absent
BY DEF ModifiedFiles

\* Merging a fork of a workspace without pending changes, neither side having moved its
\* base since, is a three-way merge: each path is theirs if they changed it and ours
\* otherwise, and the conflicts are the paths both changed (workspace.rs:178-250).
THEOREM MergeOfForkIsThreeWay ==
  ASSUME NEW ours \in Workspaces, NEW theirs \in Workspaces, NEW theirStore,
         theirs.base = ours.base, Stored(theirs, theirStore)
  PROVE  /\ \A p \in Paths :
              ReadFile(Merge(ours, theirs, theirStore), p)
                = IF p \in Diff(theirs) THEN ReadFile(theirs, p) ELSE ReadFile(ours, p)
         /\ Conflicts(ours, theirs) = Diff(ours) \cap Diff(theirs)
<1>1. \A p \in Paths : TheyChanged(ours, theirs, p) <=> p \in Diff(theirs)
  BY DEF TheyChanged, Diff
<1>2. \A p \in Paths : theirs.working[p] \in theirStore \cup {Absent}
  BY DEF Stored, TreeStored
<1>3. \A p \in Paths : WeChanged(ours, p) <=> p \in Diff(ours)
  BY DEF WeChanged, Diff
<1>4. Merge(ours, theirs, theirStore).working = [p \in Paths |->
        IF /\ TheyChanged(ours, theirs, p)
           /\ theirs.working[p] \in theirStore \cup {Absent}
        THEN theirs.working[p] ELSE ours.working[p]]
  BY DEF Merge, Workspaces
<1>5. \A p \in Paths :
        ReadFile(Merge(ours, theirs, theirStore), p)
          = IF p \in Diff(theirs) THEN ReadFile(theirs, p) ELSE ReadFile(ours, p)
  BY <1>1, <1>2, <1>4 DEF ReadFile
<1>6. Conflicts(ours, theirs) = Diff(ours) \cap Diff(theirs)
  BY <1>1, <1>3 DEF Conflicts, Diff
<1> QED BY <1>5, <1>6

\* "Uses self.base as the common ancestor" (workspace.rs:176) holds no longer once we
\* commit: an edit of ours that they never saw is undone, and no conflict is reported.
THEOREM MergeAfterCommitReverts ==
  ASSUME NEW ours \in Workspaces, NEW theirStore, NEW path \in Paths,
         NEW files \in FileSets, path \in DOMAIN files,
         Stored(Fork(ours), theirStore), files[path] # ReadFile(ours, path)
  PROVE  LET after == Commit(WriteFiles(ours, files))
         IN  /\ ReadFile(Merge(after, Fork(ours), theirStore), path) = ReadFile(ours, path)
             /\ path \notin Conflicts(after, Fork(ours))
<1> DEFINE after == Commit(WriteFiles(ours, files))
<1>1. WriteFiles(ours, files) \in Workspaces
  BY EditsTyped
<1>2. after \in Workspaces /\ after.base = after.working
  BY <1>1 DEF Commit, Workspaces
<1>3. after.working[path] = files[path]
  BY <1>1 DEF Commit, WriteFiles, Over, Workspaces
<1>4. Fork(ours).working = ours.working
  BY DEF Fork
<1>5. ours.working[path] \in theirStore \cup {Absent}
  BY <1>4 DEF Stored, TreeStored
<1> HIDE DEF after
<1>6. TheyChanged(after, Fork(ours), path) /\ ~WeChanged(after, path)
  BY <1>2, <1>3, <1>4 DEF TheyChanged, WeChanged, ReadFile
<1>7. Merge(after, Fork(ours), theirStore).working = [p \in Paths |->
        IF /\ TheyChanged(after, Fork(ours), p)
           /\ Fork(ours).working[p] \in theirStore \cup {Absent}
        THEN Fork(ours).working[p] ELSE after.working[p]]
  BY <1>2 DEF Merge, Workspaces
<1>8. ReadFile(Merge(after, Fork(ours), theirStore), path) = ReadFile(ours, path)
  BY <1>4, <1>5, <1>6, <1>7 DEF ReadFile
<1>9. path \notin Conflicts(after, Fork(ours))
  BY <1>6 DEF Conflicts
<1> QED BY <1>8, <1>9 DEF after
=============================================================================
