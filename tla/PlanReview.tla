------------------------------ MODULE PlanReview ------------------------------
(***************************************************************************)
(* The conversation about a run's plan.  Front ends (the api server and    *)
(* its MCP endpoint, the MCP server, the terminal UI) send statements to   *)
(* the daemon's database through http_bridge.rs or db_bridge.rs; the       *)
(* daemon's planner and executor (agent-daemon/src/executor.rs) answer by  *)
(* way of the run's status, its goal_plan rows and its workflow document.  *)
(* No statement of a front end but resume looks at the status it replaces. *)
(* A lease lets one worker at a time have a run (DaemonScheduler); what    *)
(* the execution of a document does is the module WorkflowEngine.          *)
(***************************************************************************)
EXTENDS Naturals, Sequences, FiniteSets

CONSTANTS
  NumRows,      \* bound: the runs that are ever created, numbered in that order
  Clients,      \* the front ends in use
  MaxRequests,  \* bound: what the users ask for
  Faults,       \* the kinds of faults a behaviour may contain, each once
  MaxFaults     \* bound: how many of them

FrontEnds == {"api", "mcp", "tui"}

ASSUME PlanReviewAssumption ==
  /\ NumRows \in Nat /\ MaxRequests \in Nat /\ MaxFaults \in Nat
  /\ Clients \subseteq FrontEnds
  /\ Faults \subseteq {"reply", "write", "read", "crash"}

Rows == 1 .. NumRows

VARIABLES
  status,     \* run -> agent_run.status
  plans,      \* run -> its goal_plan rows, in the order they were stored
  doc,        \* run -> its workflow_run: the state, and where its plan is in plans
  listed,     \* run -> the status the poll loop's list has for it
  worker,     \* run -> the task spawned for it
  client,     \* client -> the statements it has still to send
  requests,   \* how many requests were made
  feedback,   \* history: run -> each feedback given: was it put on a plan row?
  announced,  \* history: run -> how many of its plans the user was told of
  granted,    \* history: run -> how many statements let it execute
  executed,   \* history: run -> how many executions were started
  faults      \* the faults that happened

vars == <<status, plans, doc, listed, worker, client, requests, feedback, announced,
          granted, executed, faults>>

Claimable == {"pending", "planning", "approved"}
Resting   == {"none", "planned", "paused", "finished", "deleted"}
Status    == Claimable \cup Resting \cup {"running"}

\* A plan: its version, the feedback on its row (0 when there is none), the feedback
\* its planner was shown and (history) how much there was when the planner looked.
NoPlan == [version |-> 0, note |-> 0, heard |-> {}, after |-> 0]
Free   == [pc |-> "free", draft |-> NoPlan, place |-> 0]
NoDoc  == [state |-> "none", place |-> 0]
Silent == [todo |-> <<>>, run |-> 0, left |-> 0]

Init ==
  /\ status = [r \in Rows |-> "none"] /\ plans = [r \in Rows |-> <<>>]
  /\ doc = [r \in Rows |-> NoDoc] /\ listed = [r \in Rows |-> "none"]
  /\ worker = [r \in Rows |-> Free]
  /\ client = [c \in Clients |-> Silent] /\ requests = 0
  /\ feedback = [r \in Rows |-> <<>>] /\ announced = [r \in Rows |-> 0]
  /\ granted = [r \in Rows |-> 0] /\ executed = [r \in Rows |-> 0]
  /\ faults = {}

Fault(kind) ==
  /\ kind \in Faults \ faults /\ Cardinality(faults) < MaxFaults
  /\ faults' = faults \cup {kind}
NoFault == UNCHANGED faults

Exists(r) == status[r] \notin {"none", "deleted"}

\* UPDATE changes the row if there is one.
Written(r, new) == IF Exists(r) THEN [status EXCEPT ![r] = new] ELSE status
-----------------------------------------------------------------------------
(* The statements of the front ends, executed on the daemon's store.       *)

untouched == <<plans, feedback, granted>>

\* A new goal gets a new row each time its statement is executed (rows past the bound
\* are not watched).
Create(new) ==
  LET r == Cardinality({q \in Rows : status[q] # "none"}) + 1 IN
  /\ status' = IF r \in Rows THEN [status EXCEPT ![r] = new] ELSE status
  /\ granted' = IF r \in Rows /\ new = "pending" THEN [granted EXCEPT ![r] = 1] ELSE granted
  /\ UNCHANGED <<plans, feedback>>

Approve(r) ==
  /\ status' = Written(r, "approved")
  /\ granted' = [granted EXCEPT ![r] = @ + 1]
  /\ UNCHANGED <<plans, feedback>>

\* The dashboard's feedback asks for a plan and is put in progress_message.
Replan(r) ==
  /\ status' = Written(r, "planning")
  /\ feedback' = [feedback EXCEPT ![r] = Append(@, FALSE)]
  /\ UNCHANGED <<plans, granted>>

\* Feedback through the api server's MCP endpoint is put on the run's plans, every
\* version of them, and a second statement asks for a plan.
Record(r) ==
  /\ plans' = [plans EXCEPT ![r] =
                 [i \in DOMAIN plans[r] |-> [plans[r][i] EXCEPT !.note = Len(feedback[r]) + 1]]]
  /\ feedback' = [feedback EXCEPT ![r] = Append(@, plans[r] # <<>>)]
  /\ UNCHANGED <<status, granted>>

Set(r, new) == status' = Written(r, new) /\ UNCHANGED untouched

\* A paused run is made claimable again; any other is left alone.
Resume(r) ==
  \/ status[r] = "paused" /\ Approve(r)
  \/ status[r] # "paused" /\ UNCHANGED <<status, untouched>>

\* The bridges let a statement through by its first word.
NotAllowed(op) == op = "let"

\* UPDATE takes no ORDER BY: the text is no statement, and what follows it is not tried.
NoStatement(op) == op = "order by"

Execute(op, r) ==
  \/ op = "plan" /\ Create("planning")
  \/ op = "run" /\ Create("pending")
  \/ op = "approve" /\ Approve(r)
  \/ op = "replan" /\ Replan(r)
  \/ op = "record" /\ Record(r)
  \/ op = "ask" /\ Set(r, "planning")
  \/ op = "delete" /\ Set(r, "deleted")
  \/ op = "resume" /\ Resume(r)
  \/ (NotAllowed(op) \/ NoStatement(op)) /\ UNCHANGED <<status, untouched>>
-----------------------------------------------------------------------------
(* The front ends.                                                         *)

daemonless == <<listed, doc, worker, announced, executed>>

New == {<<"plan">>, <<"run">>}

ApiEdit     == <<"let">>       \* an edited plan, approved
McpFeedback == <<"order by">>  \* feedback on the newest plan
McpEdit     == <<"order by">>  \* an edited newest plan

\* What a user can ask of a front end about a run, each request the statements it sends.
ApiAsks == {<<"approve">>, <<"replan">>, <<"record", "ask">>, ApiEdit, <<"delete">>, <<"resume">>}
McpAsks == {<<"approve">>, McpFeedback, McpEdit, <<"delete">>}
TuiAsks == {<<"approve">>, <<"delete">>}
Asks(c) ==
  CASE c = "api" -> New \cup ApiAsks
    [] c = "mcp" -> New \cup McpAsks
    [] c = "tui" -> {<<"plan">>} \cup TuiAsks

\* The api server tries the shim and then the bridge, the terminal UI the bridge and
\* then the shim, the MCP server only the shim.
Attempts == [c \in FrontEnds |-> IF c = "mcp" THEN 1 ELSE 2]

\* A user submits a goal, or asks something about a run that exists.
Request(c) ==
  /\ client[c].todo = <<>> /\ requests < MaxRequests
  /\ \E todo \in Asks(c), r \in Rows \cup {0} :
       /\ IF todo \in New THEN r = 0 ELSE r # 0 /\ Exists(r)
       /\ client' = [client EXCEPT ![c] = [todo |-> todo, run |-> r, left |-> Attempts[c]]]
  /\ requests' = requests + 1
  /\ UNCHANGED <<status, untouched, daemonless, faults>>

Op(c) == Head(client[c].todo)

\* The next statement's turn, with all roads open.  Whether the answer reports a
\* success is not looked at.
Answered(c) ==
  LET rest == Tail(client[c].todo) IN
  IF rest = <<>> THEN Silent ELSE [client[c] EXCEPT !.todo = rest, !.left = Attempts[c]]

\* The next road's, or the front end reports an error.
Unanswered(c) == IF client[c].left = 1 THEN Silent ELSE [client[c] EXCEPT !.left = @ - 1]

Deliver(c) ==
  /\ client[c].todo # <<>> /\ Execute(Op(c), client[c].run)
  /\ client' = [client EXCEPT ![c] = Answered(c)]
  /\ UNCHANGED <<requests, daemonless, faults>>

\* A road is down, or it takes the statement and the answer gets lost.
LoseAnswer(c) ==
  /\ client[c].todo # <<>> /\ Fault("reply")
  /\ Execute(Op(c), client[c].run) \/ UNCHANGED <<status, untouched>>
  /\ client' = [client EXCEPT ![c] = Unanswered(c)]
  /\ UNCHANGED <<requests, daemonless>>

\* The store rejects the statement: the shim's answer is taken for a success, the
\* bridge's is an error.
Reject(c) ==
  /\ client[c].todo # <<>> /\ Fault("write")
  /\ client' \in {[client EXCEPT ![c] = Answered(c)], [client EXCEPT ![c] = Unanswered(c)]}
  /\ UNCHANGED <<status, untouched, requests, daemonless>>
-----------------------------------------------------------------------------
(* The planner: handle_planning.                                           *)

elsewhere == <<client, requests, listed>>
At(r, pc)  == worker[r].pc = pc
To(r, pc)  == worker' = [worker EXCEPT ![r].pc = pc]
Ends(r)    == worker' = [worker EXCEPT ![r] = Free]

\* The poll loop reads the claimable runs, and takes the list up when it is through with
\* the last one.
ListPending ==
  /\ \A r \in Rows : listed[r] = "none"
  /\ \E r \in Rows : status[r] \in Claimable
  /\ listed' = [r \in Rows |-> IF status[r] \in Claimable THEN status[r] ELSE "none"]
  /\ UNCHANGED <<status, untouched, doc, worker, announced, executed, client, requests, faults>>

\* A run of the list is skipped while another worker has its lease.  handle_task goes by
\* the status on the list, whatever the run's has become.
TryClaim(r) ==
  /\ listed[r] # "none" /\ listed' = [listed EXCEPT ![r] = "none"]
  /\ \/ At(r, "free") /\ To(r, IF listed[r] = "planning" THEN "plan" ELSE "execute")
     \/ ~At(r, "free") /\ worker' = worker
  /\ UNCHANGED <<status, untouched, doc, announced, executed, client, requests, faults>>

\* A claim the store rejects ends the task.
ClaimRejected(r) ==
  /\ At(r, "plan") \/ At(r, "execute")
  /\ Fault("write") /\ Ends(r)
  /\ UNCHANGED <<status, untouched, doc, announced, executed, elsewhere>>

ClaimPlanning(r) ==
  /\ At(r, "plan") /\ To(r, "look")
  /\ status' = Written(r, "running")
  /\ UNCHANGED <<untouched, doc, announced, executed, elsewhere, faults>>

\* Mutant: only the newest plan's feedback goes into the context.
Shown_Newest(seen) == IF seen = <<>> THEN {} ELSE {seen[Len(seen)].note} \ {0}

\* The context lists every previous plan with the feedback on it.
Shown(seen) == {seen[i].note : i \in DOMAIN seen} \ {0}

\* The places of the highest version.
Newest(seen) == {i \in DOMAIN seen : \A j \in DOMAIN seen : seen[j].version <= seen[i].version}

NextVersion(seen) == IF seen = <<>> THEN 1 ELSE seen[CHOOSE i \in Newest(seen) : TRUE].version + 1

\* get_plans; an error counts as no plans.
Look(r) ==
  /\ At(r, "look")
  /\ \E seen \in {plans[r], <<>>} :
       /\ IF seen = plans[r] THEN NoFault ELSE Fault("read")
       /\ \E i \in IF seen = <<>> THEN {0} ELSE Newest(seen) :
            worker' = [worker EXCEPT ![r].pc = "think", ![r].draft =
              [version |-> NextVersion(seen), note |-> IF i = 0 THEN 0 ELSE seen[i].note,
               heard |-> Shown(seen), after |-> Len(feedback[r])]]
  /\ UNCHANGED <<status, untouched, doc, announced, executed, elsewhere>>

\* Mutant: the failure is only logged.
PlanFailed_Logged(r) == status
PlanFailed(r) == Written(r, "finished")

\* No repository, no clone or no plan.
PlanFails(r) ==
  /\ At(r, "look") \/ At(r, "think")
  /\ status' = PlanFailed(r) /\ Ends(r)
  /\ UNCHANGED <<untouched, doc, announced, executed, elsewhere, faults>>

\* store_plan, its error ignored.
StorePlan(r) ==
  /\ At(r, "think") /\ To(r, "announce")
  /\ \/ plans' = [plans EXCEPT ![r] = Append(@, worker[r].draft)] /\ NoFault
     \/ plans' = plans /\ Fault("write")
  /\ UNCHANGED <<status, feedback, granted, doc, announced, executed, elsewhere>>

\* Mutant: an approval that arrived meanwhile is respected.
Planned_IfRunning(r) == IF status[r] = "running" THEN Written(r, "planned") ELSE status
Planned(r) == Written(r, "planned")

\* The run waits for approval, whatever its status has become meanwhile.
Announce(r) ==
  /\ At(r, "announce") /\ Ends(r)
  /\ \/ status' = Planned(r) /\ NoFault
     \/ status' = status /\ Fault("write")
  /\ announced' = IF status'[r] = "planned" THEN [announced EXCEPT ![r] = Len(plans[r])]
                  ELSE announced
  /\ UNCHANGED <<untouched, doc, executed, elsewhere>>
-----------------------------------------------------------------------------
(* The executor: handle_execute and run_workflow.                          *)

\* Mutant: a run approved again is left as it is.
ClaimedRun_Pending(r) == IF status[r] = "pending" THEN "running" ELSE status[r]

ClaimedRun(r) == IF status[r] \in {"pending", "approved"} THEN "running" ELSE status[r]

\* Nobody looks at whether the claim found the run, or found it claimable.
ClaimRun(r) ==
  /\ At(r, "execute") /\ To(r, "fetch")
  /\ status' = Written(r, ClaimedRun(r))
  /\ executed' = [executed EXCEPT ![r] = @ + 1]
  /\ UNCHANGED <<untouched, doc, announced, elsewhere, faults>>

Live(r) == doc[r].state \in {"live", "paused"}

Begin(r, i, d) ==
  /\ worker' = [worker EXCEPT ![r].pc = "work", ![r].place = i]
  /\ doc' = [doc EXCEPT ![r] = d]

\* The latest plan is what was approved; a document that has not ended is taken up
\* instead, and without a plan (an error counts as none) the goal is planned and
\* carried out in one go.
Fetch(r) ==
  /\ At(r, "fetch")
  /\ \/ /\ plans[r] # <<>> /\ NoFault
        /\ IF Live(r) THEN Begin(r, doc[r].place, [doc[r] EXCEPT !.state = "live"])
           ELSE \E i \in Newest(plans[r]) : Begin(r, i, [state |-> "live", place |-> i])
     \/ /\ Begin(r, 0, doc[r])
        /\ IF plans[r] = <<>> THEN NoFault ELSE Fault("read")
  /\ UNCHANGED <<status, untouched, announced, executed, elsewhere>>

\* The setup fails, or the run is over; the error of the last write is ignored.
Finish(r) ==
  /\ At(r, "fetch") \/ At(r, "work")
  /\ Ends(r)
  /\ doc' = IF worker[r].place = 0 THEN doc ELSE [doc EXCEPT ![r].state = "ended"]
  /\ \/ status' = Written(r, "finished") /\ NoFault
     \/ status' = status /\ Fault("write")
  /\ UNCHANGED <<untouched, announced, executed, elsewhere>>

\* A user pauses the run while its document is executed.
Pause(r) ==
  /\ At(r, "work") /\ worker[r].place # 0
  /\ Ends(r)
  /\ doc' = [doc EXCEPT ![r].state = "paused"]
  /\ status' = Written(r, "paused")
  /\ UNCHANGED <<untouched, announced, executed, elsewhere, faults>>

\* The daemon dies and starts again: what was running is pending.
Crash ==
  /\ Fault("crash")
  /\ worker' = [r \in Rows |-> Free] /\ listed' = [r \in Rows |-> "none"]
  /\ status' = [r \in Rows |-> IF status[r] = "running" THEN "pending" ELSE status[r]]
  /\ UNCHANGED <<untouched, doc, announced, executed, client, requests>>
-----------------------------------------------------------------------------
Plan(r) == Look(r) \/ PlanFails(r) \/ StorePlan(r) \/ Announce(r)
Run(r)  == Fetch(r) \/ Finish(r) \/ Pause(r)
Work(r) == ClaimPlanning(r) \/ ClaimRun(r) \/ Plan(r) \/ Run(r)

Next ==
  \/ \E c \in Clients : Request(c) \/ Deliver(c) \/ LoseAnswer(c) \/ Reject(c)
  \/ ListPending
  \/ \E r \in Rows : TryClaim(r) \/ ClaimRejected(r) \/ Work(r)
  \/ Crash

\* The runtime drives spawned tasks and the poll loop, and a request comes to an end;
\* no fault is owed, nor is a user's request.
Fairness ==
  /\ WF_vars(ListPending)
  /\ \A r \in Rows : WF_vars(TryClaim(r)) /\ WF_vars(Work(r))
  /\ \A c \in Clients : WF_vars(Deliver(c))

Spec == Init /\ [][Next]_vars /\ Fairness
-----------------------------------------------------------------------------
(* Properties.                                                             *)

PlanRow == [version : Nat \ {0}, note : Nat, heard : SUBSET Nat, after : Nat]

\* Each variable holds a value of its kind, and a front end with statements left has a
\* road left (api-server/src/lib.rs, surreal_query).
TypeOK ==
  /\ status \in [Rows -> Status] /\ listed \in [Rows -> Claimable \cup {"none"}]
  /\ \A r \in Rows : plans[r] \in Seq(PlanRow) /\ feedback[r] \in Seq(BOOLEAN)
  /\ \A r \in Rows : /\ doc[r].state \in {"none", "live", "paused", "ended"}
                     /\ {doc[r].place, worker[r].place, announced[r]} \subseteq 0 .. Len(plans[r])
                     /\ worker[r].pc \in {"free", "plan", "look", "think", "announce",
                                         "execute", "fetch", "work"}
                     /\ worker[r].draft \in PlanRow \cup {NoPlan}
  /\ \A c \in Clients : IF client[c].todo = <<>> THEN client[c] = Silent
                        ELSE client[c].left \in 1 .. Attempts[c]
  /\ requests \in 0 .. MaxRequests /\ faults \subseteq Faults
  /\ \A r \in Rows : {granted[r], executed[r]} \subseteq Nat

\* No plan of a run that is there is executed that its user was not told of, whatever is
\* approved, and when, and however old the list the poll loop goes by: an approval given
\* while a newer plan is being made is not taken for one of that plan before it is
\* announced.  Only a failed write or a crash between the plan and its announcement lets
\* one through (handle_planning's last write, executor.rs:863).
ExecutesReviewed ==
  \A r \in Rows : worker[r].pc = "work" /\ worker[r].place > announced[r]
                 => status[r] = "deleted" \/ faults \cap {"write", "crash"} # {}

\* A planner has been shown the last feedback that was on a plan row when it looked,
\* also when it came in while an earlier planner was at work (handle_planning's context,
\* executor.rs:703, over the rows the api server's plan_feedback writes).
StoredFeedbackHeard ==
  \A r \in Rows : \A i \in DOMAIN plans[r] :
    LET p == plans[r][i]
        stored == {n \in 1 .. p.after : feedback[r][n]} IN
    stored # {} /\ "read" \notin faults => (CHOOSE n \in stored : \A k \in stored : k <= n) \in p.heard

\* The versions of a run's plans number them, so that the latest plan is well defined
\* (get_latest_plan); a failed get_plans starts again with version 1.
VersionsUnique ==
  \A r \in Rows : "read" \in faults \/ \A i, j \in DOMAIN plans[r] :
    plans[r][i].version = plans[r][j].version => i = j

\* An approval, a resumption or a submission starts no more than two executions, though
\* nobody looks at what a claim changed (handle_execute, executor.rs:903) and the poll
\* loop goes by a list that may be older than the last execution (main.rs:407): no list
\* that is read once the run was claimed has it.  A restart counts as one of them.
Grants(r) == granted[r] + (IF "crash" \in faults THEN 1 ELSE 0)
ApprovalsSpent == \A r \in Rows : executed[r] <= 2 * Grants(r)

\* The writes of a worker, a front end or a restart bring no deleted run back
\* (UPDATE in update_run and format_update).
DeletedStays == [][\A r \in Rows : status[r] = "deleted" => status'[r] = "deleted"]_vars

\* A run always comes back to rest: planned, paused, over or deleted, and never stays
\* with a status that nobody acts on, unless a write failed (executor.rs:863, 866).
RunsSettle == \A r \in Rows : []<>(status[r] \in Resting \/ "write" \in faults)

\* Refuted (api-server/src/lib.rs:885 "Feedback stored on the goal_plan by the daemon
\* during re-planning"): the planner is shown the last feedback that was given.
FeedbackHeard ==
  \A r \in Rows : \A i \in DOMAIN plans[r] :
    LET p == plans[r][i] IN p.after # 0 /\ faults = {} => p.after \in p.heard

\* Refuted (executor.rs:1113 "a run reaching execution with a persisted plan means that
\* plan IS the approved plan"): what is executed is the last plan the user was told of.
ExecutesLatest ==
  \A r \in Rows : worker[r].pc = "work" /\ worker[r].place # 0 /\ faults = {}
                 => worker[r].place = announced[r]

\* Refuted (main.rs:404 "per-task lease (try_claim) dedups so a task is never spawned
\* twice"): one approval is one execution.
OneExecutionEach == \A r \in Rows : executed[r] <= Grants(r)

\* Refuted: a run that is approved is executed, paused or deleted before it asks for
\* approval again.
ApprovalTakesEffect ==
  [][\A r \in Rows : status[r] = "approved" => status'[r] # "planned"]_vars

\* Refuted: a request makes at most one run.
SubmittedOnce == Cardinality({r \in Rows : status[r] # "none"}) <= requests
=============================================================================
