------------------------------- MODULE Backlog -------------------------------
(***************************************************************************)
(* From a ticket to a run and back (agent-daemon: github_sync.rs and         *)
(* autopilot.rs): issues with the trigger label become goals, the autopilot *)
(* turns the oldest queued goal into a run while the pipeline has room, and *)
(* the runs' statuses go back to the issues as labels.  A statement that    *)
(* the database refuses in an answered request passes for done (store.rs:   *)
(* 223-244).  What an executor does between claiming a run and writing its  *)
(* outcome is the subject of Landing.                                       *)
(***************************************************************************)
EXTENDS Naturals, FiniteSets

CONSTANTS
  Goals,      \* identities of autopilot_goal rows
  ByHand,     \* those that users may make
  Runs,       \* identities of agent_run rows
  Human,      \* those that users submit
  Pausable,   \* bound: those that users pause, once
  Issues,     \* open issues with the trigger label
  NoIssue, NoGoal,
  Configs,    \* [autopilot] auto_approve and continuous
  MaxPerDay,  \* max_runs_per_day
  MaxRuns,    \* execution slots of the daemon, also the autopilot's cap
  MaxFaults   \* bound: failed gh commands and queries, and crashes

ASSUME BacklogAssumption ==
  /\ ByHand \subseteq Goals /\ NoIssue \notin Issues /\ NoGoal \notin Goals
  /\ Human \subseteq Runs /\ Pausable \subseteq Runs /\ IsFiniteSet(Runs)
  /\ Configs \subseteq [auto_approve : BOOLEAN, continuous : BOOLEAN]
  /\ MaxPerDay \in Nat /\ MaxRuns \in Nat \ {0} /\ MaxFaults \in Nat

VARIABLES
  cfg,      \* the configuration
  goal,     \* goal -> its backlog row
  row,      \* run -> status of its agent_run row
  made,     \* run -> the goal it was made for
  today,    \* autonomous runs created today
  working,  \* the runs an executor works on
  pilot,    \* the autopilot's tick
  sync,     \* the GitHub loop
  labels,   \* issue -> its swarm:* labels
  resumed,  \* history: runs a user resumed
  faults

backlogVars == <<cfg, goal, row, made, today, working, pilot, sync, labels, resumed, faults>>
backlog == <<cfg, goal, made, today, pilot>>
github  == <<sync, labels>>
runs    == <<row, working, resumed>>

Terminal == {"passed", "failed"}
Sleeping == [at |-> "sleep", goals |-> {}]
Polling  == [at |-> "list", todo |-> Issues, labels |-> {}, row |-> "none", on |-> NoIssue]
NoRow    == [status |-> "none", issue |-> NoIssue, created_at |-> 0, empty |-> FALSE]

BacklogInit ==
  /\ cfg \in Configs /\ goal = [g \in Goals |-> NoRow]
  /\ row = [r \in Runs |-> "none"] /\ made = [r \in Runs |-> NoGoal]
  /\ today = 0 /\ working = {}
  /\ pilot = Sleeping /\ sync = Polling /\ labels = [i \in Issues |-> {}]
  /\ resumed = {} /\ faults = 0

Fault == faults < MaxFaults /\ faults' = faults + 1
NoFault == UNCHANGED faults
SetRow(r, s) == row' = [row EXCEPT ![r] = s]
-----------------------------------------------------------------------------
(* The autopilot: tick                                                      *)

Tick(at) == pilot.at = at
PilotTo(at, S) == pilot' = [at |-> at, goals |-> S]

\* With auto_approve, planned runs of the autopilot's are approved, unless that is refused.
Approve ==
  /\ Tick("sleep")
  /\ \/ row' = [r \in Runs |-> IF cfg.auto_approve /\ r \notin Human /\ row[r] = "planned"
                               THEN "approved" ELSE row[r]]
        /\ NoFault
     \/ row' = row /\ Fault
  /\ PilotTo("count", {})
  /\ UNCHANGED <<cfg, goal, made, today, resumed, working, github>>

\* Mutant: failed rows are taken for waiting ones.
Active_Failed == {r \in Runs : row[r] \notin {"none", "passed", "paused"}}

\* The depth of the pipeline: people's runs count, paused ones do not.
Active == {r \in Runs : row[r] \in {"pending", "planning", "planned", "approved", "running"}}

AfterCount == IF cfg.continuous THEN "select" ELSE "cap"

\* A count that the database refuses is none.
Count ==
  /\ Tick("count")
  /\ \/ PilotTo(IF Cardinality(Active) >= MaxRuns THEN "sleep" ELSE AfterCount, {}) /\ NoFault
     \/ PilotTo(AfterCount, {}) /\ Fault
  /\ UNCHANGED <<cfg, goal, made, today, runs, github>>

DailyCap ==
  /\ Tick("cap")
  /\ \/ PilotTo(IF today >= MaxPerDay THEN "sleep" ELSE "select", {}) /\ NoFault
     \/ PilotTo("select", {}) /\ Fault
  /\ UNCHANGED <<cfg, goal, made, today, runs, github>>

Queued == {g \in Goals : goal[g].status = "queued"}
Oldest  == {g \in Queued : \A h \in Queued : goal[g].created_at <= goal[h].created_at}

\* The oldest queued goal; one without a text ends the tick, and is there the next time.
Select ==
  /\ Tick("select")
  /\ \/ Queued = {} /\ PilotTo("sleep", {})
     \/ \E g \in Oldest : IF goal[g].empty THEN PilotTo("sleep", {}) ELSE PilotTo("mark", {g})
  /\ UNCHANGED <<cfg, goal, made, today, runs, faults, github>>

\* The goal is consumed before its run exists; refused, it stays queued.
Mark ==
  /\ Tick("mark")
  /\ \/ goal' = [g \in Goals |-> IF g \in pilot.goals THEN [goal[g] EXCEPT !.status = "started"]
                                 ELSE goal[g]]
        /\ NoFault
     \/ goal' = goal /\ Fault
  /\ PilotTo("create", pilot.goals)
  /\ UNCHANGED <<cfg, made, today, runs, github>>

\* Bound: Runs \ Human of the autopilot's runs are followed; a further one is taken to
\* fail in planning before anything looks at it.
CreateRun ==
  /\ Tick("create")
  /\ LET fresh == {r \in Runs \ Human : row[r] = "none"}
         r     == CHOOSE x \in fresh : TRUE
     IN  \/ /\ fresh # {}
            /\ SetRow(r, "planning")
            /\ \E g \in pilot.goals : made' = [made EXCEPT ![r] = g]
         \/ fresh = {} /\ row' = row /\ made' = made
  /\ today' = today + 1
  /\ PilotTo("sleep", {})
  /\ UNCHANGED <<cfg, goal, resumed, working, faults, github>>

\* A query fails: the tick ends where it is.
TickFails ==
  /\ pilot.at # "sleep" /\ Fault
  /\ PilotTo("sleep", {})
  /\ UNCHANGED <<cfg, goal, made, today, runs, github>>

NewDay ==
  /\ today # 0 /\ today' = 0
  /\ UNCHANGED <<cfg, goal, made, pilot, runs, faults, github>>
-----------------------------------------------------------------------------
(* Users                                                                    *)

NextAge == Cardinality({g \in Goals : goal[g].status # "none"}) + 1

\* A goal from the dashboard or a client, which may have no text.
QueueByHand(g) ==
  /\ g \in ByHand /\ goal[g].status = "none"
  /\ \E empty \in BOOLEAN :
       goal' = [goal EXCEPT ![g] = [status |-> "queued", issue |-> NoIssue,
                                    created_at |-> NextAge, empty |-> empty]]
  /\ UNCHANGED <<cfg, made, today, pilot, runs, faults, github>>

Submit(r) ==
  /\ r \in Human /\ row[r] = "none"
  /\ \E s \in {"planning", "pending"} : SetRow(r, s)
  /\ UNCHANGED <<working, resumed, faults, backlog, github>>

ApproveByHand(r) ==
  /\ row[r] = "planned" /\ SetRow(r, "approved")
  /\ UNCHANGED <<working, resumed, faults, backlog, github>>

\* A pause stops the executor between waves; resuming approves again.
Pause(r) ==
  /\ r \in working \cap Pausable /\ r \notin resumed /\ working' = working \ {r}
  /\ SetRow(r, "paused")
  /\ UNCHANGED <<resumed, faults, backlog, github>>

Resume(r) ==
  /\ row[r] = "paused"
  /\ SetRow(r, "approved") /\ resumed' = resumed \cup {r}
  /\ UNCHANGED <<working, faults, backlog, github>>

User == \/ \E g \in Goals : QueueByHand(g)
        \/ \E r \in Runs : Submit(r) \/ ApproveByHand(r) \/ Pause(r) \/ Resume(r)
-----------------------------------------------------------------------------
(* The runs, as the backlog sees them                                       *)

Plan(r) ==
  /\ row[r] = "planning"
  /\ \E s \in {"planned", "failed"} : SetRow(r, s)
  /\ UNCHANGED <<working, resumed, faults, backlog, github>>

Claim(r) ==
  /\ row[r] \in {"approved", "pending"} /\ r \notin working
  /\ Cardinality(working) < MaxRuns
  /\ SetRow(r, "running") /\ working' = working \cup {r}
  /\ UNCHANGED <<resumed, faults, backlog, github>>

\* The final update of the row; an error is ignored and leaves it running.
Record(r) ==
  /\ r \in working /\ working' = working \ {r}
  /\ \/ \E s \in Terminal : SetRow(r, s) /\ NoFault
     \/ row' = row /\ Fault
  /\ UNCHANGED <<resumed, backlog, github>>
-----------------------------------------------------------------------------
(* GitHub sync: ingest, then reconcile                                      *)

Loop(at) == sync.at = at
LabelOf(s) == CASE s = "passed" -> "done" [] s = "failed" -> "failed" [] OTHER -> "running"
SyncTo(at) == [sync EXCEPT !.at = at]
others == <<runs, backlog>>
IssueOf(r) == IF made[r] = NoGoal THEN NoIssue ELSE goal[made[r]].issue

\* Mutant: the label marker is not looked at.
Unseen_Always(i) == TRUE

\* One issue of the list: skipped when a state label shows it was seen.
Unseen(i) == labels[i] = {}

ListIssue ==
  /\ Loop("list")
  /\ \/ \E i \in sync.todo :
          sync' = IF Unseen(i)
                  THEN [sync EXCEPT !.at = "known", !.on = i, !.todo = @ \ {i}]
                  ELSE [sync EXCEPT !.todo = @ \ {i}]
     \/ sync.todo = {} /\ sync' = [Polling EXCEPT !.at = "rows"]
  /\ UNCHANGED <<labels, faults, others>>

KnownGoal(i) == \E g \in Goals : goal[g].issue = i

\* .. or when it has a goal; an unreadable table counts as no goal.
LookUpGoal ==
  /\ Loop("known")
  /\ \/ sync' = SyncTo(IF KnownGoal(sync.on) THEN "list" ELSE "queue") /\ NoFault
     \/ sync' = SyncTo("queue") /\ Fault
  /\ UNCHANGED <<labels, others>>

\* Refused, the issue gets its label without a goal.
QueueGoal ==
  /\ Loop("queue")
  /\ \/ /\ \E g \in Goals :
             /\ goal[g].status = "none"
             /\ goal' = [goal EXCEPT ![g] = [status |-> "queued", issue |-> sync.on,
                                            created_at |-> NextAge, empty |-> FALSE]]
        /\ NoFault
     \/ goal' = goal /\ Fault
  /\ sync' = SyncTo("mark")
  /\ UNCHANGED <<cfg, made, today, pilot, runs, labels>>

MarkQueued ==
  /\ Loop("mark") /\ sync' = SyncTo("list")
  /\ \/ labels' = [labels EXCEPT ![sync.on] = @ \cup {"queued"}] /\ NoFault
     \/ labels' = labels /\ Fault
  /\ UNCHANGED others

\* The statuses of ticketed runs are read together and synced one by one; here
\* one run of one issue per round, read before its labels are.
ReadRow ==
  /\ Loop("rows")
  /\ \/ \E r \in Runs :
          /\ IssueOf(r) # NoIssue
          /\ sync' = [sync EXCEPT !.at = "view", !.on = IssueOf(r), !.row = row[r]]
     \/ (\A r \in Runs : IssueOf(r) = NoIssue) /\ sync' = Polling
  /\ UNCHANGED <<labels, faults, others>>

\* Mutant: any state label counts as synced.
Synced_AnyLabel(cur, target) == cur # {}
Synced(cur, target) == target \in cur

\* Labels that cannot be read are taken for none.
ViewLabels ==
  /\ Loop("view")
  /\ \/ /\ sync' = IF Synced(labels[sync.on], LabelOf(sync.row)) THEN Polling
                   ELSE [sync EXCEPT !.at = "swap", !.labels = labels[sync.on] \ {LabelOf(sync.row)}]
        /\ NoFault
     \/ sync' = [sync EXCEPT !.at = "swap", !.labels = {}] /\ Fault
  /\ UNCHANGED <<labels, others>>

DropStale ==
  /\ Loop("swap") /\ sync.labels # {}
  /\ \E l \in sync.labels :
       /\ sync' = [sync EXCEPT !.labels = @ \ {l}]
       /\ \/ labels' = [labels EXCEPT ![sync.on] = @ \ {l}] /\ NoFault
          \/ labels' = labels /\ Fault
  /\ UNCHANGED others

AddTarget ==
  /\ Loop("swap") /\ sync.labels = {} /\ sync' = Polling
  /\ \/ labels' = [labels EXCEPT ![sync.on] = @ \cup {LabelOf(sync.row)}] /\ NoFault
     \/ labels' = labels /\ Fault
  /\ UNCHANGED others

\* The list of issues, a goal or the runs: an error ends the half of the round.
RoundFails ==
  /\ sync.at \in {"list", "queue", "rows"} /\ Fault
  /\ sync' = IF Loop("rows") THEN Polling ELSE [Polling EXCEPT !.at = "rows"]
  /\ UNCHANGED <<labels, others>>
-----------------------------------------------------------------------------
\* The daemon dies; the next one makes its running rows pending again.
Crash ==
  /\ Fault
  /\ row' = [r \in Runs |-> IF row[r] = "running" THEN "pending" ELSE row[r]]
  /\ working' = {}
  /\ pilot' = Sleeping /\ sync' = Polling
  /\ UNCHANGED <<cfg, goal, made, today, resumed, labels>>

Autopilot == Approve \/ Count \/ DailyCap \/ Select \/ Mark \/ CreateRun
Executor(r) == Plan(r) \/ Claim(r) \/ Record(r)
GitHub == ListIssue \/ LookUpGoal \/ QueueGoal \/ MarkQueued \/ ReadRow \/ ViewLabels
          \/ DropStale \/ AddTarget

BacklogNext == \/ Autopilot \/ TickFails \/ NewDay \/ User
               \/ \E r \in Runs : Executor(r)
               \/ GitHub \/ RoundFails \/ Crash

\* The loops tick on timers, days pass, plans and runs come to an end, free slots are
\* given out; no user has to do anything.
BacklogSpec ==
  /\ BacklogInit /\ [][BacklogNext]_backlogVars
  /\ WF_backlogVars(Autopilot) /\ WF_backlogVars(NewDay) /\ WF_backlogVars(GitHub)
  /\ WF_backlogVars(\E r \in Runs : Executor(r))
-----------------------------------------------------------------------------
Labels == {"queued", "running", "done", "failed"}

\* The state is well formed.
BacklogTypeOK ==
  /\ cfg \in Configs /\ today \in Nat
  /\ goal \in [Goals -> [status : {"none", "queued", "started"}, issue : Issues \cup {NoIssue},
                         created_at : Nat, empty : BOOLEAN]]
  /\ row \in [Runs -> Terminal \cup
                {"none", "planning", "planned", "approved", "pending", "running", "paused"}]
  /\ made \in [Runs -> Goals \cup {NoGoal}]
  /\ working \subseteq Runs /\ Cardinality(working) <= MaxRuns
  /\ pilot.at \in {"sleep", "count", "cap", "select", "mark", "create"}
  /\ pilot.goals \subseteq Goals
  /\ sync.at \in {"list", "known", "queue", "mark", "rows", "view", "swap"}
  /\ sync.todo \subseteq Issues /\ sync.labels \subseteq Labels
  /\ labels \in [Issues -> SUBSET Labels]
  /\ resumed \subseteq Runs /\ faults \in 0 .. MaxFaults

\* The autopilot adds no run to a full pipeline: of its own runs, no more than max_runs
\* wait or execute, one more for each count that failed.  The count is read several
\* queries before the run is created, and no other tick comes between.  Runs a user
\* resumed were not counted while they were paused.
OwnActive == (Active \ Human) \ resumed
PipelineCap == Cardinality(OwnActive) <= MaxRuns + faults

\* No single failure makes an issue two goals (github_sync.rs:130 "label marker OR
\* an existing goal row - belt + braces").
IngestedOnce ==
  \A i \in Issues : Cardinality({g \in Goals : goal[g].issue = i}) > 1 => faults > 1

\* Rows that count as active and that nobody in the daemon moves: their final update was
\* lost, or they wait for a user's approval.
Held == {r \in Runs : \/ row[r] = "running" /\ r \notin working
                      \/ row[r] = "planned" /\ (r \in Human \/ ~cfg.auto_approve)}
EmptyFirst == \E g \in Oldest : goal[g].empty

\* A queued goal gets its turn, at the latest on another day, unless for ever the
\* pipeline is full of such rows (autopilot.rs:103), the first goal of the backlog has
\* no text (129-131), or no run is allowed on any day (109-114).
GoalStarts ==
  \A g \in Goals :
    goal[g].status = "queued" /\ (cfg.continuous \/ MaxPerDay > 0)
      ~> \/ goal[g].status = "started"
         \/ [](Cardinality(Held) >= MaxRuns \/ EmptyFirst)

\* When an issue's only run is over, the issue ends up with its label, whatever
\* gh calls failed before.
OnlyRun(r, i) == \A q \in Runs : IssueOf(q) = i <=> q = r
LabelSettles ==
  \A r \in Runs, i \in Issues :
    (OnlyRun(r, i) /\ row[r] \in Terminal)
      ~> ([](LabelOf(row[r]) \in labels[i]) \/ ~OnlyRun(r, i))

\* Refuted: "at most `max_runs` are ever in flight" (autopilot.rs:102).  People submit
\* runs whatever the depth of the pipeline.
AtMostMaxRuns == Cardinality(Active) <= MaxRuns

\* Refuted: a goal is consumed before its run exists, and an issue is labelled queued
\* whether or not it has a goal.
NoGoalLost ==
  \A g \in Goals : goal[g].status = "started" /\ g \notin pilot.goals => \E r \in Runs : made[r] = g
QueuedHasGoal == \A i \in Issues : "queued" \in labels[i] => KnownGoal(i)

\* Refuted: "Mark the backlog row consumed, then create the run" (autopilot.rs:133).
\* When the first is refused, the next tick makes another run.
OneRunEach == \A r, q \in Runs : made[r] = made[q] /\ made[r] # NoGoal => r = q

\* Refuted: a goal without a text holds up those behind it, the blocked pipeline too.
EveryGoalStarts ==
  \A g \in Goals : goal[g].status = "queued" /\ ~goal[g].empty ~> goal[g].status = "started"
=============================================================================
