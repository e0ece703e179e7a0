------------------------------- MODULE AgentLoop -------------------------------
(***************************************************************************)
(* One coding agent (agent-core/src/agent.rs): the tool loop a wave of the  *)
(* swarm runs in a worktree (run_with_tools), the one-shot standard run it   *)
(* falls back to or starts as a sub-agent, the same standard run over a      *)
(* virtual workspace (zero-disk), and the two drivers that put it before the *)
(* quality gate (quality-gate/src/lib.rs): the command line's run, and       *)
(* run_with_retry.  What a file holds is abstracted to whose it is; what the *)
(* model answers, what a tool does and whether a build passes are choices.   *)
(***************************************************************************)
EXTENDS Naturals, Sequences, FiniteSets

CONSTANTS
  Files,      \* every path a response may name
  Valid,      \* is_valid_file_path
  Existing,   \* the files of the base commit
  TaskFiles,  \* the files the planner gave the task
  CrateOf,    \* file -> the crate it is in, or NoCrate
  NoCrate,
  MaxSteps,   \* inference calls of the loop (10 in the runner)
  MaxAttempts, \* max_attempts of run_with_retry
  MaxBlocks   \* bound: blocks in one response

Attempts == 2   \* COMPILE_FIX_ATTEMPTS

ASSUME AgentAssumption ==
  /\ Valid \subseteq Files /\ Existing \subseteq Files /\ TaskFiles \subseteq Files
  /\ MaxSteps \in Nat \ {0} /\ MaxBlocks \in Nat \ {0} /\ MaxAttempts \in Nat \ {0, 1}

VARIABLES
  driver,    \* who runs the agent: "swarm", "cli" or "retry"
  toolchain, \* the repository's build files are of a kind the gate knows
  tries,     \* run_with_retry: the attempt, and how many the record tells of
  provider,  \* the agent works on a virtual workspace
  disk,      \* file -> "absent", "base" or "ours" in the repository directory
  virt,      \* the same in the virtual workspace
  agent,     \* where the agent is
  edits,     \* the files the loop reports as edited
  run,       \* the standard run in progress
  records,   \* the statuses of the agent_run records of ended runs
  dirty,     \* history: crates changed since they were last built cleanly
  hidden     \* history: something wrote, or may have, outside the report

driverVars == <<driver, toolchain, provider>>
vars == <<driverVars, tries, disk, virt, agent, edits, run, records, dirty, hidden>>

NoRun == [todo |-> 0, edits |-> {}, record |-> FALSE]
Begin == [at |-> "ask", step |-> 1, left |-> 0, fixes |-> 0, done |-> FALSE,
          sub |-> FALSE]

BaseTree(S) == [f \in Files |-> IF f \in S THEN "base" ELSE "absent"]

\* The runner starts the loop in a worktree, and a standard run when the task's
\* files come from a virtual workspace, with or without a checkout on disk.  The
\* other drivers start a standard run in the user's repository.
Init ==
  /\ driver \in {"swarm", "cli", "retry"} /\ toolchain \in BOOLEAN
  /\ provider \in BOOLEAN /\ (provider => driver = "swarm")
  /\ driver = "swarm" => toolchain
  /\ tries = [attempt |-> 1, told |-> 0, lost |-> FALSE]
  /\ virt = BaseTree(Existing)
  /\ disk \in {BaseTree(Existing)} \cup (IF provider THEN {BaseTree({})} ELSE {})
  /\ agent = IF provider \/ driver # "swarm" THEN [Begin EXCEPT !.at = "start"] ELSE Begin
  /\ edits = {} /\ run = NoRun /\ dirty = {} /\ hidden = FALSE
  /\ records = {}

Tree    == IF provider THEN virt ELSE disk
Crates(S) == {CrateOf[f] : f \in S} \ {NoCrate}
-----------------------------------------------------------------------------
(* Edits                                                                    *)

Touch(f, what) ==
  /\ IF provider THEN virt' = [virt EXCEPT ![f] = what] /\ UNCHANGED disk
                 ELSE disk' = [disk EXCEPT ![f] = what] /\ UNCHANGED virt
  /\ dirty' = dirty \cup Crates({f})
NoTouch == UNCHANGED <<disk, virt, dirty>>

\* apply_edits on one block: an Ok that changed the file, an Ok that changed
\* nothing (OLD not found, nothing to delete), or an error.
Writes(f) == (Touch(f, "ours") \/ NoTouch) /\ Tree[f] # "absent"
Creates(f) == Touch(f, "ours")
\* A deletion goes to the disk, whatever the workspace is.
Deletes(f) == /\ disk' = [disk EXCEPT ![f] = "absent"] /\ UNCHANGED virt
              /\ dirty' = IF disk[f] = "absent" THEN dirty ELSE dirty \cup Crates({f})
Applies(f) == Writes(f) \/ Creates(f) \/ Deletes(f)
Fails == NoTouch   \* no such file to edit, or the write failed

\* try_auto_wrap: the whole text becomes a file the task names and the disk lacks.
WrapTargets == {f \in TaskFiles : disk[f] = "absent"}
-----------------------------------------------------------------------------
(* The standard run: Agent::run                                             *)

InLoop == agent.at = "act" /\ agent.left > 0
Return == [agent EXCEPT !.at = "returned"]

\* A standard run ends: it is the result, or one block of the loop that spawned it.
\* An error leaves the run's record as it was stored, "running".
RunEnds(found, ok, status) ==
  /\ run' = IF driver = "swarm" THEN NoRun ELSE [NoRun EXCEPT !.record = run.record]
  /\ records' = IF run.record THEN records \cup {status} ELSE records
  /\ IF agent.sub
     THEN /\ agent' = [agent EXCEPT !.at = "act", !.sub = FALSE, !.left = @ - 1]
          /\ edits' = IF ok THEN edits \cup found ELSE edits
          /\ hidden' = (hidden \/ ~ok)
     ELSE /\ agent' = [agent EXCEPT !.at = IF ~ok THEN "failed"
                                         ELSE IF driver = "swarm" THEN "returned" ELSE "tried"]
          /\ edits' = found
          /\ hidden' = (hidden \/ ~ok \/ edits # {})

\* A similar task was done before: the run does nothing.
SkipDone ==
  /\ agent.at = "start" /\ ~provider
  /\ RunEnds({}, TRUE, "running")
  /\ NoTouch /\ UNCHANGED <<driverVars, tries>>

\* The run's record is written, if there is a knowledge base and it answers.
StartRun ==
  /\ agent.at = "start"
  /\ agent' = [agent EXCEPT !.at = "chat"]
  /\ \E recorded \in IF provider THEN {FALSE} ELSE BOOLEAN :
       run' = [NoRun EXCEPT !.record = recorded]
  /\ NoTouch /\ UNCHANGED <<driverVars, tries, edits, records, hidden>>

\* Inference fails, or the wrapped file cannot be written.
ChatFails ==
  /\ agent.at = "chat"
  /\ RunEnds({}, FALSE, "running")
  /\ NoTouch /\ UNCHANGED <<driverVars, tries>>

ParseFails ==
  /\ agent.at = "chat"
  /\ RunEnds({}, TRUE, "failed")
  /\ NoTouch /\ UNCHANGED <<driverVars, tries>>

\* Edits to apply, those with an invalid path already dropped.
ChatAnswers ==
  /\ agent.at = "chat"
  /\ \E n \in 0 .. MaxBlocks : run' = [run EXCEPT !.todo = n]
  /\ agent' = [agent EXCEPT !.at = "apply"]
  /\ NoTouch /\ UNCHANGED <<driverVars, tries, edits, records, hidden>>

\* A response without a block is a new file, for a file of the task (or of the
\* sub-agent) that the disk lacks.
ChatWraps ==
  /\ agent.at = "chat"
  /\ \E f \in IF agent.sub THEN {x \in Files : disk[x] = "absent"} ELSE WrapTargets :
       /\ f \in Valid
       /\ Creates(f) /\ run' = [run EXCEPT !.edits = {f}]
  /\ agent' = [agent EXCEPT !.at = "apply"]
  /\ UNCHANGED <<driverVars, tries, edits, records, hidden>>

ApplyNext ==
  /\ agent.at = "apply" /\ run.todo > 0
  /\ \E f \in Valid :
       /\ Applies(f)
       /\ run' = [run EXCEPT !.todo = @ - 1, !.edits = @ \cup {f}]
  /\ UNCHANGED <<driverVars, tries, agent, edits, records, hidden>>

\* One edit fails: those before it stay, the record stays "running".
ApplyFails ==
  /\ agent.at = "apply" /\ run.todo > 0
  /\ Fails /\ RunEnds({}, FALSE, "running")
  /\ UNCHANGED <<driverVars, tries>>

FinishRun ==
  /\ agent.at = "apply" /\ run.todo = 0
  /\ RunEnds(run.edits, TRUE, IF run.edits = {} THEN "skipped" ELSE "passed")
  /\ NoTouch /\ UNCHANGED <<driverVars, tries>>
-----------------------------------------------------------------------------
(* The drivers with a quality gate                                          *)

\* detect_toolchain: four checks, or none at all.
Checks == IF toolchain THEN <<"fmt", "lint", "build", "test:unit">> ELSE <<>>

\* run_all: the checks in order, up to the first that fails; a command that
\* cannot be started is an error of the gate.  Without checks everything passes.
Verdicts == IF Checks = <<>> THEN {"passed"} ELSE {"passed", "failed", "error"}

\* update_attempts writes the whole list, if the run has a record; a failed query
\* is only logged.
Tell(attempt) ==
  \/ tries' = [attempt |-> attempt, told |-> IF run.record THEN attempt ELSE 0, lost |-> FALSE]
  \/ run.record /\ tries' = [tries EXCEPT !.attempt = attempt, !.lost = TRUE]

Driven == UNCHANGED <<driverVars, disk, virt, dirty>>

\* Nothing was applied, or the user asked for no gate.
EndUngated ==
  /\ agent.at = "tried"
  /\ edits = {} \/ driver = "cli"
  /\ IF driver = "retry" THEN Tell(1) ELSE UNCHANGED tries
  /\ agent' = Return
  /\ Driven /\ UNCHANGED <<edits, run, records, hidden>>

EnterGate ==
  /\ agent.at = "tried" /\ edits # {}
  /\ agent' = [agent EXCEPT !.at = "gate"]
  /\ Driven /\ UNCHANGED <<tries, edits, run, records, hidden>>

\* The gate itself fails: the record stays as the agent closed it.
GateErrs ==
  /\ agent.at = "gate" /\ "error" \in Verdicts
  /\ agent' = [agent EXCEPT !.at = "failed"]
  /\ Driven /\ UNCHANGED <<tries, edits, run, records, hidden>>

\* The command line stores the verdict over what the agent wrote, best effort.
CliGate ==
  /\ agent.at = "gate" /\ driver = "cli"
  /\ \E v \in Verdicts \ {"error"} : records' \in {records, IF run.record THEN {v} ELSE records}
  /\ agent' = Return
  /\ Driven /\ UNCHANGED <<tries, edits, run, hidden>>

OutOfAttempts == tries.attempt = MaxAttempts

\* run_with_retry: a pass is the end; a failure of the first attempt is not
\* stored before the next one ends.
RetryGate(v) ==
  /\ agent.at = "gate" /\ driver = "retry" /\ v \in Verdicts \ {"error"}
  /\ IF v = "passed" \/ tries.attempt > 1 THEN Tell(tries.attempt) ELSE UNCHANGED tries
  /\ agent' = IF v = "passed" \/ OutOfAttempts THEN Return ELSE [agent EXCEPT !.at = "redo"]
  /\ Driven /\ UNCHANGED <<edits, run, records, hidden>>

RedoFails ==
  /\ agent.at = "redo"
  /\ agent' = [agent EXCEPT !.at = "failed"]
  /\ Driven /\ UNCHANGED <<tries, edits, run, records, hidden>>

\* An answer that does not parse uses an attempt up, without a gate.
RedoUnparsed ==
  /\ agent.at = "redo"
  /\ Tell(tries.attempt + 1)
  /\ agent' = IF tries.attempt + 1 = MaxAttempts THEN Return ELSE agent
  /\ Driven /\ UNCHANGED <<edits, run, records, hidden>>

\* The next attempt's edits replace those of the result, not those on disk.
Redo ==
  /\ agent.at = "redo"
  /\ \E n \in 0 .. MaxBlocks : run' = [run EXCEPT !.todo = n]
  /\ tries' = [tries EXCEPT !.attempt = @ + 1]
  /\ agent' = [agent EXCEPT !.at = "reapply"] /\ edits' = {} /\ hidden' = TRUE
  /\ Driven /\ UNCHANGED records

\* Paths are not validated here.
Reapply ==
  /\ agent.at = "reapply" /\ run.todo > 0
  /\ \E f \in Files : Applies(f) /\ edits' = edits \cup {f}
  /\ run' = [run EXCEPT !.todo = @ - 1]
  /\ UNCHANGED <<driverVars, tries, agent, records, hidden>>

ReapplyFails ==
  /\ agent.at = "reapply" /\ run.todo > 0
  /\ agent' = [agent EXCEPT !.at = "failed"]
  /\ Driven /\ UNCHANGED <<tries, edits, run, records, hidden>>

ReapplyEnds ==
  /\ agent.at = "reapply" /\ run.todo = 0
  /\ agent' = [agent EXCEPT !.at = "gate"]
  /\ Driven /\ UNCHANGED <<tries, edits, run, records, hidden>>
-----------------------------------------------------------------------------
(* The tool loop: run_with_tools                                            *)

Untouched == UNCHANGED <<driverVars, tries, run, records>>

\* Inference failed, or the first response held nothing: fall back.
FallBack ==
  /\ agent.at = "ask"
  /\ agent' = [agent EXCEPT !.at = "start"]
  /\ NoTouch /\ Untouched /\ UNCHANGED <<edits, hidden>>

\* A truncated response with one unclosed block: applied as it is, path and all,
\* its errors ignored, and the loop ends.
SalvageBlock ==
  /\ agent.at = "ask"
  /\ \E f \in Files : (Applies(f) \/ Fails) /\ edits' = edits \cup {f}
  /\ agent' = Return /\ hidden' = hidden
  /\ Untouched

WrapText ==
  /\ agent.at = "ask"
  /\ \E f \in WrapTargets : (Creates(f) \/ Fails) /\ edits' = edits \cup {f}
  /\ agent' = Return /\ hidden' = hidden
  /\ Untouched

\* Later responses without a block end the loop with what there is.
NothingToDo ==
  /\ agent.at = "ask" /\ agent.step > 1
  /\ agent' = Return
  /\ NoTouch /\ Untouched /\ UNCHANGED <<edits, hidden>>

Respond ==
  /\ agent.at = "ask"
  /\ \E n \in 1 .. MaxBlocks : agent' = [agent EXCEPT !.at = "act", !.left = n]
  /\ NoTouch /\ Untouched /\ UNCHANGED <<edits, hidden>>

NextBlock == [agent EXCEPT !.left = @ - 1]

\* A tool may write any file; cutting its result to 2000 bytes inside a
\* character panics the task.
Tool ==
  /\ InLoop
  /\ \/ NoTouch /\ hidden' = hidden
     \/ \E f \in Files, w \in {"ours", "absent"} : Touch(f, w) /\ hidden' = TRUE
  /\ agent' \in {NextBlock, [agent EXCEPT !.at = "panicked"]}
  /\ Untouched /\ UNCHANGED edits

\* Mutant: the report is replaced, not extended.
EditBlock_LastOnly ==
  /\ InLoop
  /\ \/ \E f \in Valid : Applies(f) /\ edits' = {f}
     \/ Fails /\ edits' = edits
  /\ agent' = NextBlock /\ hidden' = hidden
  /\ Untouched

EditBlock ==
  /\ InLoop
  /\ \/ \E f \in Valid : Applies(f) /\ edits' = edits \cup {f}
     \/ Fails /\ edits' = edits            \* rejected path, or apply failed
  /\ agent' = NextBlock /\ hidden' = hidden
  /\ Untouched

SpawnAgent ==
  /\ InLoop
  /\ agent' = [agent EXCEPT !.at = "start", !.sub = TRUE]
  /\ NoTouch /\ Untouched /\ UNCHANGED <<edits, hidden>>

\* compile_check: only the crates of the reported edits are built, on disk.
Checkable == Crates(edits)
\* Mutant: the loop over the edits stops at the first crate.
Built_FirstOnly(clean) ==
  \E c \in Checkable \cup {NoCrate} : dirty' = IF clean THEN dirty \ {c} ELSE dirty

Built(clean) == dirty' = IF clean THEN dirty \ Checkable ELSE dirty

\* DONE: nudged while there is nothing to show, sent back while the edits do not
\* build and there are attempts left, otherwise accepted.
Nudge ==
  /\ InLoop /\ edits = {} /\ agent.step <= 2
  /\ agent' = NextBlock
  /\ NoTouch /\ Untouched /\ UNCHANGED <<edits, hidden>>

Check(clean) ==
  /\ InLoop /\ ~(edits = {} /\ agent.step <= 2)
  /\ Checkable = {} => clean
  /\ agent' = IF ~clean /\ agent.fixes < Attempts
              THEN [NextBlock EXCEPT !.fixes = @ + 1]
              ELSE [NextBlock EXCEPT !.done = TRUE]
  /\ Built(clean)
  /\ UNCHANGED <<disk, virt, edits, hidden>> /\ Untouched

CompileFails == Check(FALSE)
CompilesClean == Check(TRUE)

\* The blocks after an accepted DONE are executed too.
NextStep ==
  /\ agent.at = "act" /\ agent.left = 0
  /\ agent' = IF agent.done \/ agent.step = MaxSteps THEN Return
              ELSE [agent EXCEPT !.at = "ask", !.step = @ + 1]
  /\ NoTouch /\ Untouched /\ UNCHANGED <<edits, hidden>>
-----------------------------------------------------------------------------
Ended == agent.at \in {"returned", "failed", "panicked"}

Next ==
  \/ SkipDone \/ StartRun \/ ChatFails \/ ParseFails \/ ChatAnswers \/ ChatWraps
  \/ ApplyNext \/ ApplyFails \/ FinishRun
  \/ EndUngated \/ EnterGate \/ GateErrs \/ CliGate \/ (\E v \in Verdicts : RetryGate(v))
  \/ RedoFails \/ RedoUnparsed \/ Redo \/ Reapply \/ ReapplyFails \/ ReapplyEnds
  \/ FallBack \/ SalvageBlock \/ WrapText \/ NothingToDo \/ Respond
  \/ Tool \/ EditBlock \/ SpawnAgent \/ Nudge \/ CompileFails \/ CompilesClean \/ NextStep
  \/ Ended /\ UNCHANGED vars

\* Inference, tools and builds answer or time out.
Spec == Init /\ [][Next]_vars /\ WF_vars(Next /\ ~Ended)
-----------------------------------------------------------------------------
Changed == {f \in Files : Tree[f] # BaseTree(Existing)[f]}

\* The state is well formed: steps and compile-fix attempts stay within their
\* limits (the loop and compile_fix_used of run_with_tools).
TypeOK ==
  /\ driver \in {"swarm", "cli", "retry"} /\ toolchain \in BOOLEAN
  /\ provider \in BOOLEAN /\ hidden \in BOOLEAN
  /\ tries \in [attempt : 1 .. MaxAttempts, told : 0 .. MaxAttempts, lost : BOOLEAN]
  /\ disk \in [Files -> {"absent", "base", "ours"}]
  /\ virt \in [Files -> {"absent", "base", "ours"}]
  /\ agent \in [at : {"ask", "act", "start", "chat", "apply", "tried", "gate", "redo", "reapply",
                       "returned", "failed", "panicked"},
                step : 1 .. MaxSteps, left : 0 .. MaxBlocks, fixes : 0 .. Attempts,
                done : BOOLEAN, sub : BOOLEAN]
  /\ edits \subseteq Files /\ dirty \subseteq Crates(Files)
  /\ run \in [todo : 0 .. MaxBlocks, edits : SUBSET Files, record : BOOLEAN]
  /\ records \subseteq {"running", "passed", "skipped", "failed"}

\* What an agent leaves changed in its tree is in its report, also across failed
\* blocks and sub-agents (agent.rs:765-797), unless a tool wrote, a sub-agent died
\* half-way, or a later run's result replaced the report: the fallback's after
\* the loop had edited (agent.rs:666), a retry's (agent.rs:569).
ChangesReported == agent.at = "returned" /\ ~hidden => Changed \subseteq edits

\* A run whose result is not an error has closed its agent_run record, whatever
\* early return it took (agent.rs:326-410): a record left "running" is shown to
\* every later agent as one at work.
RecordsClosed == "running" \in records => hidden

\* A result of run_with_retry comes with a record that tells of every attempt,
\* whichever of them passed, failed the gate or did not parse, unless the last
\* update failed (agent.rs:443-588, update_attempts).
AttemptsTold ==
  agent.at = "returned" /\ driver = "retry" /\ run.record /\ ~tries.lost
  => tries.told = tries.attempt

\* A DONE is accepted only with every edited crate built since its last change,
\* or with the compile-fix attempts used up (agent.rs:807-826, compile_check).
DoneIsClean ==
  [][~agent.done /\ agent'.done => agent'.fixes = Attempts \/ dirty' \cap Crates(edits') = {}]_vars

\* Nudges, failed builds, sub-agents and fallbacks do not keep an agent going.
LoopEnds == <>Ended

\* Refuted: a DONE does not end its response, so later blocks change what was built.
ReturnsBuilt ==
  agent.at = "returned" /\ agent.done /\ agent.fixes < Attempts => dirty \cap Crates(edits) = {}

\* Refuted: "Only wrap for non-existent files - CREATE on existing files would
\* overwrite them" (agent.rs:63).  The disk is asked, not the virtual workspace.
WrapsOnlyNewFiles ==
  [][agent.at = "chat" /\ agent'.at = "apply"
     => \A f \in run'.edits : Tree[f] = "absent"]_vars

\* Refuted: an edit whose OLD block is not found counts as applied.
AppliedMeansChanged ==
  agent.at = "returned" /\ ~provider /\ edits # {} => Changed # {}
=============================================================================
