------------------------------- MODULE Landing -------------------------------
(***************************************************************************)
(* From a claimed run to a landed branch (agent-daemon/src/executor.rs, the *)
(* gate-verify-land half, with repo.rs): every run works on its own copy of *)
(* the tip of swarm/auto, or of the project's branch while there is no      *)
(* swarm/auto, and its full-file results are committed to swarm/auto, which  *)
(* is made from the live checkout's HEAD, or to the branch of its issue.  A *)
(* file is the set of runs, and people, whose edits it contains.  Claiming  *)
(* and the agents' work are choices here: DaemonScheduler, WorkflowEngine   *)
(* and SwarmRunner are their models.                                        *)
(***************************************************************************)
EXTENDS Delivery

CONSTANTS
  IssueOf,    \* run -> the issue it came from, or NoIssue
  NoIssue,
  EditsOf,    \* run -> the files it edits, when it edits any
  People,     \* who commits to the source repository besides the runs
  Outside,    \* the files they edit
  MaxRuns     \* execution slots

Issues == {IssueOf[r] : r \in Runs} \ {NoIssue}

ASSUME LandingAssumption ==
  /\ EditsOf \in [Runs -> SUBSET Files] /\ DOMAIN IssueOf = Runs
  /\ People \cap Runs = {} /\ Outside \subseteq Files
  /\ MaxRuns \in Nat \ {0}

VARIABLES
  row,      \* run -> status of its agent_run row
  exec,     \* run -> the executor working on it
  trunk,    \* the tree at the tip of the project's branch
  head,     \* the tree at the HEAD of the live checkout, of that branch or another
  created,  \* there is a swarm/auto
  auto,     \* the tree at its tip
  ticket,   \* issue -> the tree at the tip of swarm/issue-n
  unpushed, \* swarm/auto is ahead of its remote
  landed,   \* history: runs committed to swarm/auto
  overtook  \* history: who was still on an older tree when a run landed

landVars == <<row, exec, trunk, head, created, auto, ticket, unpushed, landed, overtook, faults>>
source  == <<trunk, head>>
landing == <<created, auto, ticket, unpushed, landed, overtook>>

Trees    == [Files -> SUBSET (Runs \cup People)]
Base     == [f \in Files |-> {}]   \* what the source repository held at first
Terminal == {"passed", "failed"}
NoExec   == [at |-> "idle", from |-> "trunk", base |-> Base, files |-> {}, index |-> Base,
             ok |-> FALSE]

LandInit ==
  /\ row = [r \in Runs |-> "approved"] /\ exec = [r \in Runs |-> NoExec]
  /\ trunk = Base /\ head = Base /\ created = FALSE
  /\ auto = Base /\ ticket = [i \in Issues |-> Base] /\ unpushed = FALSE
  /\ landed = {} /\ overtook = {} /\ faults = 0

At(r, phase) == exec[r].at = phase
Move(r, phase) == exec' = [exec EXCEPT ![r].at = phase]
SetRow(r, s) == row' = [row EXCEPT ![r] = s]

Executing == {r \in Runs : exec[r].at # "idle"}
-----------------------------------------------------------------------------
(* Executing a run                                                          *)

Claim(r) ==
  /\ row[r] \in {"approved", "pending"} /\ At(r, "idle")
  /\ Cardinality(Executing) < MaxRuns
  /\ SetRow(r, "running") /\ Move(r, "sync")
  /\ UNCHANGED <<faults, source, landing>>

\* Mutant: the run's copy is put on the project's branch, not on swarm/auto.
SyncedTree_ProjectBranch == trunk

SyncedTree == IF created THEN auto ELSE trunk

\* sync_repo_to_branch: the run's own copy of the tip of swarm/auto, if there is one.
SyncRepo(r) ==
  /\ At(r, "sync")
  /\ exec' = [exec EXCEPT ![r].at = "work", ![r].base = SyncedTree,
                          ![r].from = IF created THEN "auto" ELSE "trunk"]
  /\ UNCHANGED <<row, faults, source, landing>>

\* swarm/auto cannot be fetched, or nothing: the copy stays on the project's branch or
\* on what the source repository has checked out, of now or of an earlier day.
SyncFails(r) ==
  /\ At(r, "sync") /\ Fault
  /\ \E tree \in {Base, trunk, head} :
       exec' = [exec EXCEPT ![r].at = "work", ![r].base = tree, ![r].from = "trunk"]
  /\ overtook' = overtook \cup {[run |-> r, over |-> q, crossing |-> FALSE] : q \in landed}
  /\ UNCHANGED <<row, source, created, auto, ticket, unpushed, landed>>

\* The agents return full contents of the files they changed, or nothing; a run
\* whose iterations all fail is over.
Work(r) ==
  /\ At(r, "work")
  /\ \E fs \in {{}, EditsOf[r]} :
       exec' = [exec EXCEPT ![r].at = "gate", ![r].files = fs]
  /\ UNCHANGED <<row, faults, source, landing>>

WorkFails(r) ==
  /\ At(r, "work")
  /\ SetRow(r, "failed") /\ exec' = [exec EXCEPT ![r] = NoExec]
  /\ UNCHANGED <<faults, source, landing>>

Result(r, f) == exec[r].base[f] \cup {r}
Edited(r, tree) == [f \in Files |-> IF f \in exec[r].files THEN Result(r, f) ELSE tree[f]]

\* The gate builds and tests the run's base with its files; no files, no pass.
Gate(r) ==
  /\ At(r, "gate")
  /\ \E passes \in IF exec[r].files = {} THEN {FALSE} ELSE BOOLEAN :
       Move(r, IF passes THEN "verify" ELSE "record")
  /\ UNCHANGED <<row, faults, source, landing>>

\* A second model may reject what the gate passed; if it cannot answer, it accepts.
Verify(r) ==
  /\ At(r, "verify")
  /\ \E accepts \in BOOLEAN :
       exec' = [exec EXCEPT ![r].at = IF accepts THEN "add" ELSE "record", ![r].ok = accepts]
  /\ UNCHANGED <<row, faults, source, landing>>

\* The tree that land_to_branch makes its worktree of: an issue's branch is reset to
\* HEAD, swarm/auto is taken as it is, or made from HEAD.
LandingTree(r) == IF IssueOf[r] = NoIssue /\ created THEN auto ELSE head

LandAdd(r) ==
  /\ At(r, "add")
  /\ exec' = [exec EXCEPT ![r].at = "commit", ![r].index = LandingTree(r)]
  /\ IF IssueOf[r] = NoIssue
     THEN created' = TRUE /\ auto' = LandingTree(r) /\ ticket' = ticket
     ELSE ticket' = [ticket EXCEPT ![IssueOf[r]] = LandingTree(r)] /\ UNCHANGED <<created, auto>>
  /\ UNCHANGED <<row, source, unpushed, landed, overtook, faults>>

\* The worktree cannot be made: the run passes without having landed.
LandFails(r) ==
  /\ At(r, "add") /\ Fault /\ Move(r, "record")
  /\ UNCHANGED <<row, source, landing>>

\* Runs that work on a tree older than the one r has just landed.
Behind(r) == {[run |-> q, over |-> r, crossing |-> exec[q].at = "commit"] :
                q \in {x \in Runs \ {r} : exec[x].at \in {"work", "gate", "verify", "add", "commit"}}}

\* Mutant: the worktree is made of the run's own base.
CommitTree_RunBase(r) == Edited(r, exec[r].base)

\* The worktree's files are committed on top of the branch as it is now; with
\* nothing to commit there is no push either.
CommitTree(r) == Edited(r, exec[r].index)

Commit(r) ==
  /\ At(r, "commit")
  /\ LET i   == IssueOf[r]
         tip == IF i = NoIssue THEN auto ELSE ticket[i]
         new == CommitTree(r)
     IN  /\ Move(r, IF new = tip THEN "record" ELSE "push")
         /\ IF i = NoIssue
            THEN /\ auto' = new /\ ticket' = ticket
                 /\ unpushed' = (unpushed \/ new # tip)
                 /\ landed' = landed \cup {r} /\ overtook' = overtook \cup Behind(r)
            ELSE auto' = auto /\ ticket' = [ticket EXCEPT ![i] = new]
                 /\ UNCHANGED <<unpushed, landed, overtook>>
  /\ UNCHANGED <<row, source, created, faults>>

\* Best effort: a failed push is not repeated.
PushBranch(r) ==
  /\ At(r, "push") /\ Move(r, "record")
  /\ \/ unpushed' = (unpushed /\ IssueOf[r] # NoIssue) /\ NoFault
     \/ unpushed' = unpushed /\ Fault
  /\ UNCHANGED <<row, source, created, auto, ticket, landed, overtook>>

\* update_run; an error is ignored and leaves the row running.
RecordRun(r) ==
  /\ At(r, "record")
  /\ \/ SetRow(r, IF exec[r].ok THEN "passed" ELSE "failed") /\ NoFault
     \/ row' = row /\ Fault
  /\ exec' = [exec EXCEPT ![r] = NoExec]
  /\ UNCHANGED <<source, landing>>
-----------------------------------------------------------------------------
\* The daemon dies; the next one makes its running rows pending again.
Crash ==
  /\ Fault
  /\ row' = [r \in Runs |-> IF row[r] = "running" THEN "pending" ELSE row[r]]
  /\ exec' = [r \in Runs |-> NoExec]
  /\ UNCHANGED <<source, landing>>

\* Somebody commits to the project's branch, to the one that is checked out, or to
\* both, where they are the same one.
Upstream ==
  /\ \E f \in Outside : \E t, h \in {{}, People} :
       /\ trunk' = [trunk EXCEPT ![f] = @ \cup t]
       /\ head' = [head EXCEPT ![f] = @ \cup h]
  /\ UNCHANGED <<row, exec, faults, landing>>

Executor(r) == Claim(r) \/ SyncRepo(r) \/ Work(r) \/ WorkFails(r) \/ Gate(r) \/ Verify(r)
               \/ LandAdd(r) \/ Commit(r) \/ PushBranch(r) \/ RecordRun(r)

LandNext == (\E r \in Runs : Executor(r) \/ SyncFails(r) \/ LandFails(r)) \/ Crash \/ Upstream

\* A run's steps end; a slot that is free again and again goes to every run in turn.
LandSpec == LandInit /\ [][LandNext]_landVars /\ \A r \in Runs : SF_landVars(Executor(r))
-----------------------------------------------------------------------------
\* The state is well formed, and the executors stay within their slots.
LandTypeOK ==
  /\ row \in [Runs -> Terminal \cup {"approved", "pending", "running"}]
  /\ \A r \in Runs :
       /\ exec[r].at \in {"idle", "sync", "work", "gate", "verify", "add", "commit", "push",
                         "record"}
       /\ exec[r].from \in {"auto", "trunk"} /\ exec[r].base \in Trees /\ exec[r].index \in Trees
       /\ exec[r].files \subseteq Files /\ exec[r].ok \in BOOLEAN
  /\ trunk \in Trees /\ head \in Trees /\ created \in BOOLEAN
  /\ auto \in Trees /\ ticket \in [Issues -> Trees] /\ unpushed \in BOOLEAN
  /\ landed \subseteq Runs /\ faults \in 0 .. MaxFaults
  /\ Cardinality(Executing) <= MaxRuns

\* An edit landed on swarm/auto stays at its tip (executor.rs:487 "serial edits to
\* the same file build on each other instead of clobbering"), also between parallel
\* runs of different files.  It is lost only to a run that started from an older tree
\* and writes the same file, or whose landing worktree was made before this commit.
LandedEditsStay ==
  \A r \in landed : \A f \in EditsOf[r] :
    \/ r \in auto[f]
    \/ \E o \in overtook : o.over = r /\ o.run \in landed /\ (f \in EditsOf[o.run] \/ o.crossing)

\* r lands on swarm/auto, and no other run has since r synced.
Lands(r) ==
  /\ At(r, "commit") /\ exec'[r].at \in {"push", "record"} /\ IssueOf[r] = NoIssue
  /\ ~\E o \in overtook : o.run = r

\* What a run that synced to swarm/auto lands on it is the tree the gate built, unless
\* another run landed since (run_quality_gate verifies the run's own copy).
GatedTip ==
  [][\A r \in Runs :
       Lands(r) /\ exec[r].from = "auto" => auto' = Edited(r, exec[r].base)]_landVars

\* Refuted: "Quality-gated changes accumulated by the autopilot loop" (executor.rs:578).
\* The first run was synced, and gated, on the project's branch.
FirstTipGated ==
  [][\A r \in Runs : Lands(r) => auto' = Edited(r, exec[r].base)]_landVars

\* Refuted: "the lander creates swarm/auto from it [the project branch] on the first
\* pass" (executor.rs:479-480).
AutoFromProject == [][~created /\ created' => auto' = trunk]_landVars

\* Refuted: "one ticket = one PR" (executor.rs:528).  A run's full files come from
\* swarm/auto, so the issue's branch carries other runs' edits of those files.
OneTicketOneBranch ==
  \A i \in Issues, f \in Files : \A r \in ticket[i][f] \cap Runs : IssueOf[r] = i

\* Refuted: a crash between commit and push, and nothing is left to commit later.
LandedIsPushed == [](unpushed => <>~unpushed)

\* Refuted: a row can pass without its landing, and fail after it.
PassedIsLanded == \A r \in Runs : row[r] = "passed" /\ IssueOf[r] = NoIssue => r \in landed
=============================================================================
