---------------------------- MODULE DaemonScheduler ----------------------------
(***************************************************************************)
(* How daemons share the agent_run rows: the poll loop, startup recovery   *)
(* and task lifecycle of agent-daemon/src/main.rs over the leases bucket   *)
(* of events/src/scheduler.rs.  The bucket holds a lease per run and a     *)
(* fixed number of execution slots; create() is atomic, put() and purge()  *)
(* are unconditional, nobody reads a value, and an entry disappears when   *)
(* no put renews it within LEASE_TTL.  Every request to the bucket or to   *)
(* the store is a step of its own, so pollers, tasks, heartbeats and       *)
(* restarting daemons interleave between them.  What an execution does     *)
(* inside is the module WorkflowEngine.                                    *)
(***************************************************************************)
EXTENDS Integers, FiniteSets

CONSTANTS
  Daemons,
  NumRuns,   \* runs are numbered in the order of created_at
  MaxSlots,  \* resources.max_concurrent_runs, at least 1
  Dynamic,   \* resources.dynamic_slots
  Tasks,     \* bound: the tokio tasks that live at a time
  Faults,    \* the kinds of faults a behaviour may contain
  MaxFaults, \* bound: how many of them, pauses included
  None

FaultKind == {"crash", "panic", "reply", "write", "lapse", "busy", "pause", "nats"}

ASSUME SchedulerAssumption ==
  /\ NumRuns \in Nat /\ MaxSlots \in Nat \ {0} /\ MaxFaults \in Nat
  /\ Dynamic \in BOOLEAN
  /\ Faults \subseteq FaultKind
  /\ None \notin Daemons
  /\ IsFiniteSet(Tasks)

Runs   == 1 .. NumRuns
Slots  == 0 .. MaxSlots - 1
NoSlot == MaxSlots            \* a task spawned without a scheduler

VARIABLES
  status,    \* agent_run.status
  leases,    \* the runs with an entry lease.<run> in the bucket
  slots,     \* the slots with an entry goal-execution-lock.slot-<i>
  poller,    \* per daemon: startup and the poll loop
  task,      \* the spawned tasks, each with its heartbeat
  orphans,   \* history: runs whose worker ended without writing an outcome
  approved,  \* history: runs the user let execute
  disturbed, \* history: a held entry vanished, or a run started without one
  faults

vars == <<status, leases, slots, poller, task, orphans, approved, disturbed, faults>>

Claimable == {"pending", "planning", "approved"}
Status    == Claimable \cup {"new", "planned", "running", "paused", "finished"}
Entry     == [run : Runs, how : Claimable]

\* No task, and a poller that is not running.
Ended   == [pc |-> "off", daemon |-> None, run |-> 0, how |-> "pending", slot |-> NoSlot]
NoEntry == [run |-> 0, how |-> "pending"]
Down    == [pc |-> "down", kv |-> FALSE, list |-> {}, cur |-> NoEntry, probe |-> 0,
            runs |-> {}, held |-> {}]

Init ==
  /\ status = [r \in Runs |-> "new"]
  /\ leases = {} /\ slots = {}
  /\ poller = [d \in Daemons |-> Down]
  /\ task = [t \in Tasks |-> Ended]
  /\ orphans = {} /\ approved = {} /\ disturbed = FALSE /\ faults = 0

-----------------------------------------------------------------------------
(* Who holds what.                                                         *)

Holding == {"spawned", "working", "done", "panicked"}

HoldsSlot(t)  == task[t].pc \in Holding /\ task[t].slot # NoSlot
HoldsLease(t) == task[t].pc \in Holding \cup {"slotFreed"} /\ task[t].slot # NoSlot
Holders       == {t \in Tasks : HoldsSlot(t)}
Claiming(d)   == poller[d].pc \in {"probe", "unclaim"}

\* A list is served in the order of created_at.
Oldest(list) == {e \in list : \A f \in list : e.run <= f.run}

\* Mutant: the heartbeat renews the lease only.
BeatsSlot_LeaseOnly(t) == FALSE

\* The heartbeat runs until it is aborted, after both releases, and renews the
\* lease and the slot well within the TTL.
BeatsLease(t) == task[t].pc # "off" /\ task[t].slot # NoSlot
BeatsSlot(t) == BeatsLease(t)

\* The rows left running when the workers of the runs rs disappear.
Orphaned(rs) == orphans \cup {r \in rs : status[r] = "running"}

Fault(kind) ==
  /\ kind \in Faults /\ faults < MaxFaults
  /\ faults' = faults + 1

-----------------------------------------------------------------------------
(* Users.                                                                  *)

userless == <<leases, slots, poller, task, orphans, disturbed, faults>>

Submit(r) ==
  /\ status[r] = "new"
  /\ \/ /\ status' = [status EXCEPT ![r] = "planning"]
        /\ UNCHANGED approved
     \/ /\ status' = [status EXCEPT ![r] = "pending"]
        /\ approved' = approved \cup {r}
  /\ UNCHANGED userless

\* Approval of a plan, or the resumption of a paused run.
Approve(r) ==
  /\ status[r] \in {"planned", "paused"}
  /\ status' = [status EXCEPT ![r] = "approved"]
  /\ approved' = approved \cup {r}
  /\ UNCHANGED userless

-----------------------------------------------------------------------------
(* Startup.                                                                *)

\* Without NATS the daemon has no scheduler and keeps no leases.
Start(d) ==
  /\ poller[d].pc = "down"
  /\ \/ /\ poller' = [poller EXCEPT ![d].pc = "reset", ![d].kv = TRUE]
        /\ UNCHANGED faults
     \/ /\ poller' = [poller EXCEPT ![d].pc = "reset"]
        /\ Fault("nats")
  /\ UNCHANGED <<status, leases, slots, task, orphans, approved, disturbed>>

\* Mutant: startup leaves the running rows alone.
Recovered_Forgotten(s) == s

\* UPDATE agent_run SET status = 'pending' WHERE status = 'running'
Recovered(s) == IF s = "running" THEN "pending" ELSE s

Reset(d) ==
  /\ poller[d].pc = "reset"
  /\ status' = [r \in Runs |-> Recovered(status[r])]
  /\ orphans' = {r \in orphans : status'[r] = "running"}
  /\ poller' = [poller EXCEPT ![d].pc = IF poller[d].kv THEN "keys" ELSE "first"]
  /\ UNCHANGED <<leases, slots, task, approved, disturbed, faults>>

\* release_all_leases lists the keys of every daemon ..
ListKeys(d) ==
  /\ poller[d].pc = "keys"
  /\ poller' = [poller EXCEPT ![d].pc = "purge", ![d].runs = leases, ![d].held = slots]
  /\ UNCHANGED <<status, leases, slots, task, orphans, approved, disturbed, faults>>

\* .. and purges them one at a time.
PurgeLease(d, r) ==
  /\ poller[d].pc = "purge" /\ r \in poller[d].runs
  /\ leases' = leases \ {r}
  /\ disturbed' = (disturbed \/ (\E t \in Tasks : HoldsLease(t) /\ task[t].run = r)
                             \/ (\E e \in Daemons : Claiming(e) /\ poller[e].cur.run = r))
  /\ poller' = [poller EXCEPT ![d].runs = @ \ {r}]
  /\ UNCHANGED <<status, slots, task, orphans, approved, faults>>

PurgeSlot(d, s) ==
  /\ poller[d].pc = "purge" /\ s \in poller[d].held
  /\ slots' = slots \ {s}
  /\ disturbed' = (disturbed \/ \E t \in Tasks : HoldsSlot(t) /\ task[t].slot = s)
  /\ poller' = [poller EXCEPT ![d].held = @ \ {s}]
  /\ UNCHANGED <<status, leases, task, orphans, approved, faults>>

Purged(d) ==
  /\ poller[d].pc = "purge" /\ poller[d].runs = {} /\ poller[d].held = {}
  /\ poller' = [poller EXCEPT ![d].pc = "first"]
  /\ UNCHANGED <<status, leases, slots, task, orphans, approved, disturbed, faults>>

\* A failed reset, listing or purge does not keep the daemon from starting.
ResetFails(d) ==
  /\ poller[d].pc = "reset" /\ Fault("write")
  /\ poller' = [poller EXCEPT ![d].pc = IF poller[d].kv THEN "keys" ELSE "first"]
  /\ UNCHANGED <<status, leases, slots, task, orphans, approved, disturbed>>

PurgeFails(d) ==
  /\ Fault("reply")
  /\ \/ poller[d].pc = "keys" /\ poller' = [poller EXCEPT ![d].pc = "first"]
     \/ poller[d].pc = "purge" /\ \E r \in poller[d].runs :
          poller' = [poller EXCEPT ![d].runs = @ \ {r}]
     \/ poller[d].pc = "purge" /\ \E s \in poller[d].held :
          poller' = [poller EXCEPT ![d].held = @ \ {s}]
  /\ UNCHANGED <<status, leases, slots, task, orphans, approved, disturbed>>

-----------------------------------------------------------------------------
(* The poll loop.                                                          *)

Pending == {[run |-> r, how |-> status[r]] : r \in {q \in Runs : status[q] \in Claimable}}

\* process_pending, at startup, looks at the first row only.
ListPending(d) ==
  /\ \/ poller[d].pc = "first"
     \/ poller[d].pc = "poll" /\ poller[d].list = {} /\ Pending # {}
  /\ poller' = [poller EXCEPT
       ![d].list = IF poller[d].pc = "first" THEN Oldest(Pending) ELSE Pending,
       ![d].pc = "poll"]
  /\ UNCHANGED <<status, leases, slots, task, orphans, approved, disturbed, faults>>

Serving(d, e) == poller[d].pc = "poll" /\ e \in Oldest(poller[d].list)

\* The poller moves on to the next row of its list, or gives up the pass.
NextRow(d, e) == [poller EXCEPT ![d].list = @ \ {e}]
Resumed(d)    == [poller EXCEPT ![d].pc = "poll", ![d].cur = NoEntry, ![d].probe = 0]
PassOver(d)   == [poller EXCEPT ![d].pc = "poll", ![d].cur = NoEntry, ![d].probe = 0,
                                ![d].list = {}]

\* can_schedule finds the host over its limits and the pass ends.
HostBusy(d, e) ==
  /\ Serving(d, e) /\ Fault("busy")
  /\ poller' = PassOver(d)
  /\ UNCHANGED <<status, leases, slots, task, orphans, approved, disturbed>>

\* Mutant: the claim is a put, which a held lease does not stop.
ClaimFree_Always(r) == TRUE

\* leases.create fails when the key exists.
ClaimFree(r) == r \notin leases

TryClaim(d, e) ==
  /\ Serving(d, e) /\ poller[d].kv
  /\ IF ClaimFree(e.run)
       THEN /\ leases' = leases \cup {e.run}
            /\ poller' = [poller EXCEPT ![d].list = @ \ {e}, ![d].cur = e, ![d].pc = "probe"]
       ELSE poller' = NextRow(d, e) /\ UNCHANGED leases
  /\ UNCHANGED <<status, slots, task, orphans, approved, disturbed, faults>>

\* A create took effect and its reply is lost: the poller takes it for failed.
LostClaim(d, e) ==
  /\ Serving(d, e) /\ poller[d].kv /\ e.run \notin leases /\ Fault("reply")
  /\ leases' = leases \cup {e.run}
  /\ poller' = NextRow(d, e)
  /\ UNCHANGED <<status, slots, task, orphans, approved, disturbed>>

LostSlot(d) ==
  /\ poller[d].pc = "probe" /\ poller[d].probe \in Slots \ slots /\ Fault("reply")
  /\ slots' = slots \cup {poller[d].probe}
  /\ poller' = [poller EXCEPT ![d].probe = @ + 1]
  /\ UNCHANGED <<status, leases, task, orphans, approved, disturbed>>

\* A tokio task, and its heartbeat, for the entry e.
Spawn(d, e, s) == \E t \in Tasks :
  /\ task[t].pc = "off"
  /\ task' = [task EXCEPT ![t] = [pc |-> "spawned", daemon |-> d, run |-> e.run,
                                  how |-> e.how, slot |-> s]]

Probes == Slots

\* Mutant: the probe takes a slot whether or not it is free.
SlotFree_Always(s) == TRUE

SlotFree(s) == s \notin slots

\* try_acquire_execution_slot tries the slots in turn.
ProbeSlot(d) ==
  /\ poller[d].pc = "probe" /\ poller[d].probe \in Probes
  /\ LET s == poller[d].probe IN
     IF SlotFree(s)
       THEN /\ slots' = slots \cup {s}
            /\ Spawn(d, poller[d].cur, s)
            /\ poller' = Resumed(d)
       ELSE poller' = [poller EXCEPT ![d].probe = @ + 1] /\ UNCHANGED <<slots, task>>
  /\ UNCHANGED <<status, leases, orphans, approved, disturbed, faults>>

\* effective_slots lies between 1 and the maximum.
NoFreeSlot(d) ==
  /\ poller[d].pc = "probe"
  /\ poller[d].probe = MaxSlots \/ (Dynamic /\ poller[d].probe > 0)
  /\ poller' = [poller EXCEPT ![d].pc = "unclaim"]
  /\ UNCHANGED <<status, leases, slots, task, orphans, approved, disturbed, faults>>

Unclaim(d) ==
  /\ poller[d].pc = "unclaim"
  /\ leases' = leases \ {poller[d].cur.run}
  /\ poller' = PassOver(d)
  /\ UNCHANGED <<status, slots, task, orphans, approved, disturbed, faults>>

\* Without a scheduler one row is spawned per poll, unclaimed.
SpawnUnscheduled(d, e) ==
  /\ Serving(d, e) /\ ~poller[d].kv
  /\ Spawn(d, e, NoSlot)
  /\ poller' = PassOver(d)
  /\ disturbed' = TRUE
  /\ UNCHANGED <<status, leases, slots, orphans, approved, faults>>

-----------------------------------------------------------------------------
(* A spawned task.                                                         *)

\* handle_planning claims unconditionally; handle_execute's claim is
\* conditional, and the number of rows it changed is not looked at.
ClaimRow(t) ==
  LET r == task[t].run IN
  /\ task[t].pc = "spawned"
  /\ task' = [task EXCEPT ![t].pc = "working"]
  /\ IF task[t].how = "planning" \/ status[r] \in {"pending", "approved"}
       THEN /\ status' = [status EXCEPT ![r] = "running"]
            /\ orphans' = orphans \ {r}
       ELSE UNCHANGED <<status, orphans>>
  /\ UNCHANGED <<leases, slots, poller, approved, disturbed, faults>>

\* The store rejects the claim and handle_task returns.
ClaimRejected(t) ==
  /\ task[t].pc = "spawned" /\ Fault("write")
  /\ task' = [task EXCEPT ![t].pc = "done"]
  /\ UNCHANGED <<status, leases, slots, poller, orphans, approved, disturbed>>

\* Mutant: a setup failure returns without a status write.
Outcomes_SilentFailure(how) == {IF how = "planning" THEN "planned" ELSE "finished", "running"}

Outcomes(how) == {IF how = "planning" THEN "planned" ELSE "finished", "finished"}

Conclude(t, outcome) ==
  /\ task[t].pc = "working"
  /\ status' = [status EXCEPT ![task[t].run] = outcome]
  /\ task' = [task EXCEPT ![t].pc = "done"]
  /\ orphans' = orphans \ {task[t].run}
  /\ UNCHANGED <<leases, slots, poller, approved, disturbed>>

Finish(t) ==
  \/ \E s \in Outcomes(task[t].how) : Conclude(t, s) /\ UNCHANGED faults
  \/ task[t].how # "planning" /\ Conclude(t, "paused") /\ Fault("pause")

\* The result of the final update is discarded, so it may never happen.
FinishUnwritten(t) ==
  /\ task[t].pc = "working" /\ Fault("write")
  /\ task' = [task EXCEPT ![t].pc = "done"]
  /\ orphans' = Orphaned({task[t].run})
  /\ UNCHANGED <<status, leases, slots, poller, approved, disturbed>>

ReleaseSlot(t) ==
  /\ task[t].pc = "done"
  /\ slots' = slots \ {task[t].slot}
  /\ task' = IF task[t].slot = NoSlot THEN [task EXCEPT ![t] = Ended]
                                     ELSE [task EXCEPT ![t].pc = "slotFreed"]
  /\ UNCHANGED <<status, leases, poller, orphans, approved, disturbed, faults>>

ReleaseLease(t) ==
  /\ task[t].pc = "slotFreed"
  /\ leases' = leases \ {task[t].run}
  /\ task' = [task EXCEPT ![t].pc = "leaseFreed"]
  /\ UNCHANGED <<status, slots, poller, orphans, approved, disturbed, faults>>

AbortHeartbeat(t) ==
  /\ task[t].pc = "leaseFreed"
  /\ task' = [task EXCEPT ![t] = Ended]
  /\ UNCHANGED <<status, leases, slots, poller, orphans, approved, disturbed, faults>>

\* A heartbeat's puts: each may take effect at any moment between the release
\* of the entry and the abort, too.
RenewLease(t) ==
  /\ BeatsLease(t)
  /\ leases' = leases \cup {task[t].run}
  /\ UNCHANGED <<status, slots, poller, task, orphans, approved, disturbed, faults>>

RenewSlot(t) ==
  /\ BeatsSlot(t)
  /\ slots' = slots \cup {task[t].slot}
  /\ UNCHANGED <<status, leases, poller, task, orphans, approved, disturbed, faults>>

-----------------------------------------------------------------------------
(* Time and faults.                                                        *)

\* LEASE_TTL passes without a put: no heartbeat renews the entry.
ExpireLease(r) ==
  /\ r \in leases
  /\ \A t \in Tasks : BeatsLease(t) => task[t].run # r
  /\ \A d \in Daemons : Claiming(d) => poller[d].cur.run # r
  /\ leases' = leases \ {r}
  /\ UNCHANGED <<status, slots, poller, task, orphans, approved, disturbed, faults>>

ExpireSlot(s) ==
  /\ s \in slots
  /\ \A t \in Tasks : BeatsSlot(t) => task[t].slot # s
  /\ slots' = slots \ {s}
  /\ UNCHANGED <<status, leases, poller, task, orphans, approved, disturbed, faults>>

\* A heartbeat cannot reach NATS for longer than the TTL.
Lapse ==
  /\ Fault("lapse") /\ disturbed' = TRUE
  /\ \/ \E r \in leases : leases' = leases \ {r} /\ UNCHANGED slots
     \/ \E s \in slots : slots' = slots \ {s} /\ UNCHANGED leases
  /\ UNCHANGED <<status, poller, task, orphans, approved>>

\* A panic in handle_task ends the task; its heartbeat lives on.
Panic(t) ==
  /\ task[t].pc = "working" /\ Fault("panic")
  /\ task' = IF task[t].slot = NoSlot THEN [task EXCEPT ![t] = Ended]
                                     ELSE [task EXCEPT ![t].pc = "panicked"]
  /\ orphans' = Orphaned({task[t].run})
  /\ UNCHANGED <<status, leases, slots, poller, approved, disturbed>>

Crash(d) ==
  /\ poller[d].pc # "down" /\ Fault("crash")
  /\ poller' = [poller EXCEPT ![d] = Down]
  /\ task' = [t \in Tasks |-> IF task[t].daemon = d THEN Ended ELSE task[t]]
  /\ orphans' = Orphaned({task[t].run : t \in {u \in Tasks :
                               task[u].daemon = d /\ task[u].pc = "working"}})
  /\ UNCHANGED <<status, leases, slots, approved, disturbed>>

-----------------------------------------------------------------------------
User      == \E r \in Runs : Submit(r) \/ Approve(r)
Purge(d)  == (\E r \in Runs : PurgeLease(d, r)) \/ (\E s \in Slots : PurgeSlot(d, s)) \/ Purged(d)
Boot(d)   == Reset(d) \/ ListKeys(d) \/ Purge(d)
Serve(d)  == \E e \in Entry : TryClaim(d, e) \/ SpawnUnscheduled(d, e)
Claim(d)  == ProbeSlot(d) \/ NoFreeSlot(d) \/ Unclaim(d)
Poll(d)   == ListPending(d) \/ Serve(d) \/ Claim(d)
Work(t)   == ClaimRow(t) \/ Finish(t)
Retire(t) == ReleaseSlot(t) \/ ReleaseLease(t) \/ AbortHeartbeat(t)
Beat(t)   == RenewLease(t) \/ RenewSlot(t)
Expiry    == (\E r \in Runs : ExpireLease(r)) \/ (\E s \in Slots : ExpireSlot(s))
Failure   == \/ \E d \in Daemons, e \in Entry : HostBusy(d, e) \/ LostClaim(d, e)
             \/ \E d \in Daemons : ResetFails(d) \/ PurgeFails(d) \/ LostSlot(d) \/ Crash(d)
             \/ \E t \in Tasks : ClaimRejected(t) \/ FinishUnwritten(t) \/ Panic(t)
             \/ Lapse

Next ==
  \/ User \/ Expiry \/ Failure
  \/ \E d \in Daemons : Start(d) \/ Boot(d) \/ Poll(d)
  \/ \E t \in Tasks : Work(t) \/ Retire(t) \/ Beat(t)

Spec == Init /\ [][Next]_vars

\* The runtime polls every ready future, and entries that nobody renews expire.
Fairness ==
  /\ \A d \in Daemons : WF_vars(Boot(d)) /\ WF_vars(Poll(d))
  /\ \A t \in Tasks : WF_vars(Work(t) \/ Retire(t))
  /\ \A r \in Runs : WF_vars(ExpireLease(r))
  /\ \A s \in Slots : WF_vars(ExpireSlot(s))

FairSpec    == Spec /\ Fairness

\* A supervisor also restarts a daemon that is down.
RestartSpec == FairSpec /\ \A d \in Daemons : WF_vars(Start(d))

-----------------------------------------------------------------------------
(* Properties.                                                             *)

PollerState ==
  [pc : {"down", "reset", "keys", "purge", "first", "poll", "probe", "unclaim"},
   kv : BOOLEAN, list : SUBSET Entry, cur : Entry \cup {NoEntry},
   probe : 0 .. MaxSlots, runs : SUBSET Runs, held : SUBSET Slots]

TaskState ==
  [pc : Holding \cup {"off", "slotFreed", "leaseFreed"}, daemon : Daemons \cup {None},
   run : 0 .. NumRuns, how : Claimable, slot : 0 .. MaxSlots]

\* Type invariant: pollers and tasks hold runs and slots that exist, and only
\* an unscheduled task has nothing to release.
TypeOK ==
  /\ status \in [Runs -> Status]
  /\ leases \subseteq Runs /\ slots \subseteq Slots
  /\ poller \in [Daemons -> PollerState]
  /\ \A d \in Daemons : Claiming(d) => poller[d].kv /\ poller[d].cur \in Entry
  /\ task \in [Tasks -> TaskState]
  /\ \A t \in Tasks :
       /\ task[t].pc # "off" => task[t].run \in Runs
       /\ task[t].pc \in {"slotFreed", "leaseFreed"} => task[t].slot # NoSlot
  /\ orphans \subseteq Runs /\ approved \subseteq Runs
  /\ disturbed \in BOOLEAN /\ faults \in Nat

\* One run, one task: as long as no held entry was taken away, two tasks never
\* work on the same run, whichever daemons they belong to, however stale the
\* lists they were claimed from and whatever replies were lost (main.rs:403-406).
OneTaskPerRun ==
  ~disturbed =>
    \A t, u \in Tasks : HoldsLease(t) /\ HoldsLease(u) /\ t # u
                        => task[t].run # task[u].run

\* The slots cap the tasks of all daemons together, although each daemon
\* computes its own effective cap and heartbeats put slots back unconditionally
\* (scheduler.rs:275-277).
ConcurrencyCapped ==
  ~disturbed => Cardinality(Holders) <= MaxSlots

\* A row says running only while a task works on it, or when its worker ended
\* without a final write: no claim or outcome of one task overwrites a row in a
\* way that leaves it running for ever, even when a run is executed twice.
RunningHasWorker ==
  \A r \in Runs : status[r] = "running" =>
    r \in orphans \/ \E t \in Tasks : task[t].pc = "working" /\ task[t].run = r

\* Startup purges no entry a live task relies on: "nothing is legitimately held
\* at boot" (scheduler.rs:140-141).  With a single daemon this holds.
NothingLivePurged ==
  \A t \in Tasks :
    /\ HoldsLease(t) => task[t].run \in leases
    /\ HoldsSlot(t) => task[t].slot \in slots

\* The leases bucket of a single daemon, restarts and panics included, seats
\* each run's worker alone: try_claim and try_acquire_execution_slot together
\* never admit a task that another one excludes.
Jobs == {[worker |-> t, run |-> task[t].run, seat |-> task[t].slot] : t \in Holders}

Pool == INSTANCE ExecutionPool WITH Workers <- Tasks, Seats <- Slots, jobs <- Jobs

ImplementsPool == Pool!Spec

\* Every claimed or claimable run comes to rest: no ghost entry of a late
\* heartbeat, lost reply or crash, and no race for the last slot, keeps it
\* waiting for ever when crashed daemons are restarted.  Only a panic does: its
\* heartbeat keeps lease and slot until the daemon is restarted.
EveryRunSettles ==
  \A r \in Runs : status[r] \in Claimable \cup {"running"}
                    ~> \/ status[r] \in {"planned", "paused", "finished"}
                       \/ \E t \in Tasks : task[t].pc = "panicked"

\* "the task runs exactly once" (docs/features/resilience.feature:53-58): a
\* finished run is not started again.
FinishedRunNotRerun ==
  [][\A t \in Tasks : task[t].pc = "spawned" /\ task'[t].pc = "working"
                        => status[task[t].run] # "finished"]_vars

\* "the task becomes available for another daemon" when its daemon crashes
\* (docs/features/distributed_coordination.feature:17-20): as long as some daemon
\* is up, a run whose daemon crashed does not stay running.
CrashedRunAvailable ==
  \A r \in Runs, d \in Daemons :
    (r \in orphans /\ poller[d].pc # "down") ~> (r \notin orphans \/ poller[d].pc = "down")

\* planning "waits for approval" (agent-daemon/README.md:11): nothing executes a
\* run submitted for planning before the user approved a plan.
ExecutesApprovedRuns ==
  \A t \in Tasks : task[t].pc = "working" /\ task[t].how # "planning"
                      => task[t].run \in approved

\* "No scheduler: strictly serial" (main.rs:432): a daemon without NATS
\* works on one task at a time.
SerialWithoutScheduler ==
  LET unscheduled == {t \in Tasks : task[t].pc \in Holding /\ task[t].slot = NoSlot} IN
  \A t, u \in unscheduled : t # u => task[t].daemon # task[u].daemon
=============================================================================
