------------------------ MODULE DaemonSchedulerProofs ------------------------
(***************************************************************************)
(* Proofs about DaemonScheduler, for every number of daemons, runs, slots   *)
(* and tasks and every kind and number of faults.                           *)
(***************************************************************************)
EXTENDS DaemonScheduler, FiniteSetTheorems, TLAPS

\* The entries of the bucket tell the truth about their holders, and no entry
\* has two.
LeasesExclusive ==
  /\ \A t \in Tasks : HoldsLease(t) => task[t].run \in leases
  /\ \A d \in Daemons : Claiming(d) => poller[d].cur.run \in leases
  /\ \A t, u \in Tasks : HoldsLease(t) /\ HoldsLease(u) /\ t # u
                         => task[t].run # task[u].run
  /\ \A d \in Daemons, t \in Tasks : Claiming(d) /\ HoldsLease(t)
                                     => poller[d].cur.run # task[t].run
  /\ \A d, e \in Daemons : Claiming(d) /\ Claiming(e) /\ d # e
                           => poller[d].cur.run # poller[e].cur.run

SlotsExclusive ==
  /\ \A t \in Tasks : HoldsSlot(t) => task[t].slot \in slots
  /\ \A t, u \in Tasks : HoldsSlot(t) /\ HoldsSlot(u) /\ t # u
                         => task[t].slot # task[u].slot

IInv ==
  /\ TypeOK
  /\ RunningHasWorker
  /\ ~disturbed => LeasesExclusive /\ SlotsExclusive

-----------------------------------------------------------------------------
(* Types.  A poller or a task is updated a field at a time.                *)

\* The constants: NoSlot is no slot, and the idle records are well-typed.
LEMMA Constants ==
  /\ NoSlot \in 0 .. MaxSlots /\ NoSlot \notin Slots
  /\ Slots \subseteq 0 .. MaxSlots /\ Runs \subseteq 0 .. NumRuns /\ 0 \notin Runs
  /\ Ended \in TaskState /\ Down \in PollerState
  /\ Claimable \subseteq Status
BY SchedulerAssumption
   DEF NoSlot, Slots, Runs, Ended, TaskState, Down, PollerState, NoEntry, Entry, Claimable,
       Status, Holding

\* Nothing runs and nobody holds anything at first.
LEMMA InitInv == Init => IInv
<1> SUFFICES ASSUME Init PROVE IInv
  OBVIOUS
<1>1. TypeOK
  BY Constants DEF Init, TypeOK, Status, Claiming, Down, Ended
<1>2. QED
  BY <1>1 DEF Init, IInv, RunningHasWorker, LeasesExclusive, SlotsExclusive, HoldsLease,
              HoldsSlot, Holding, Claiming, Down, Ended

\* Starting and purging keep the types.
LEMMA BootType ==
  ASSUME TypeOK, NEW d \in Daemons, Start(d) \/ Boot(d)
  PROVE  TypeOK'
<1>1. CASE Start(d)
  <2>1. status' = status /\ UNCHANGED <<leases, slots, task, orphans, approved, disturbed>>
        /\ faults' \in Nat
    BY <1>1 DEF Start, Fault, TypeOK
  <2>2. poller' \in [Daemons -> PollerState]
    BY <1>1 DEF Start, TypeOK, PollerState
  <2>3. \A e \in Daemons : poller'[e] = poller[e] \/ poller'[e].pc = "reset"
    BY <1>1 DEF Start, TypeOK, PollerState
  <2>4. QED
    BY <2>1, <2>2, <2>3 DEF TypeOK, Claiming
<1>2. CASE Reset(d)
  BY <1>2 DEF Reset, Recovered, TypeOK, PollerState, Claiming, Status, Claimable
<1>3. CASE ListKeys(d)
  <2>1. poller' \in [Daemons -> PollerState]
    <3> DEFINE p == [poller[d] EXCEPT !.pc = "purge", !.runs = leases, !.held = slots]
    <3>1. p \in PollerState
      <4>1. poller[d] \in PollerState /\ leases \in SUBSET Runs /\ slots \in SUBSET Slots
        BY DEF TypeOK
      <4>2. QED
        BY <4>1 DEF PollerState
    <3>2. poller' = [poller EXCEPT ![d] = p]
      BY <1>3 DEF ListKeys
    <3> HIDE DEF p
    <3>3. QED
      BY <3>1, <3>2 DEF TypeOK
  <2>2. \A e \in Daemons : poller'[e] = poller[e] \/ poller'[e].pc = "purge"
    BY <1>3 DEF ListKeys, TypeOK, PollerState
  <2>3. QED
    BY <1>3, <2>1, <2>2 DEF ListKeys, TypeOK, Claiming
<1>4. ASSUME NEW r \in Runs, PurgeLease(d, r) PROVE TypeOK'
  <2>1. poller' \in [Daemons -> PollerState]
    BY <1>4 DEF PurgeLease, TypeOK, PollerState
  <2>2. QED
    BY <1>4, <2>1 DEF PurgeLease, TypeOK, PollerState, Claiming
<1>5. ASSUME NEW s \in Slots, PurgeSlot(d, s) PROVE TypeOK'
  BY <1>5 DEF PurgeSlot, TypeOK, PollerState, Claiming
<1>6. CASE Purged(d)
  BY <1>6 DEF Purged, TypeOK, PollerState, Claiming
<1>7. QED
  BY <1>1, <1>2, <1>3, <1>4, <1>5, <1>6 DEF Boot, Purge

\* A task's own steps keep the types.
LEMMA TaskType ==
  ASSUME TypeOK, NEW t \in Tasks, Work(t) \/ Retire(t) \/ Beat(t)
  PROVE  TypeOK'
<1> USE DEF TypeOK, TaskState, Claiming
<1>1. CASE ClaimRow(t)
  BY <1>1 DEF ClaimRow, Status, Holding
<1>2. CASE Finish(t)
  <2>1. PICK outcome \in Status : Conclude(t, outcome)
    BY <1>2 DEF Finish, Outcomes, Status
  <2>2. faults' \in Nat
    BY <1>2 DEF Finish, Fault
  <2>3. QED
    BY <2>1, <2>2 DEF Conclude, Holding
<1>3. CASE ReleaseSlot(t)
  BY <1>3, Constants DEF ReleaseSlot, Ended, Holding
<1>4. CASE ReleaseLease(t)
  BY <1>4 DEF ReleaseLease
<1>5. CASE AbortHeartbeat(t)
  BY <1>5, Constants DEF AbortHeartbeat, Ended
<1>6. CASE RenewLease(t)
  BY <1>6 DEF RenewLease, BeatsLease
<1>7. CASE RenewSlot(t)
  <2>1. task[t].slot \in Slots
    BY <1>7, SchedulerAssumption DEF RenewSlot, BeatsSlot, BeatsLease, NoSlot, Slots
  <2>2. QED
    BY <1>7, <2>1 DEF RenewSlot
<1>8. QED
  BY <1>1, <1>2, <1>3, <1>4, <1>5, <1>6, <1>7 DEF Work, Retire, Beat

\* A poller that resumes its list, or drops it, is well-typed and claims nothing.
LEMMA PassOverType ==
  ASSUME TypeOK, NEW d \in Daemons, poller' \in {PassOver(d), Resumed(d)}
  PROVE  /\ poller' \in [Daemons -> PollerState]
         /\ \A e \in Daemons : Claiming(e)' => poller'[e].kv /\ poller'[e].cur \in Entry
<1>1. poller' \in [Daemons -> PollerState]
  BY DEF PassOver, Resumed, TypeOK, PollerState
<1>2. \A e \in Daemons : poller'[e] = poller[e] \/ poller'[e].pc = "poll"
  BY DEF PassOver, Resumed, TypeOK, PollerState
<1>3. QED
  BY <1>1, <1>2 DEF TypeOK, Claiming

\* A poller that probes the next slot is well-typed.
LEMMA NextProbeType ==
  ASSUME TypeOK, NEW d \in Daemons, Claiming(d), poller[d].probe \in Slots,
         poller' = [poller EXCEPT ![d].probe = @ + 1]
  PROVE  /\ poller' \in [Daemons -> PollerState]
         /\ \A e \in Daemons : Claiming(e)' => poller'[e].kv /\ poller'[e].cur \in Entry
<1>1. poller[d].probe + 1 \in 0 .. MaxSlots
  BY SchedulerAssumption DEF Slots
<1>2. poller' \in [Daemons -> PollerState]
  BY <1>1 DEF TypeOK, PollerState
<1>3. \A e \in Daemons : /\ poller'[e].pc = poller[e].pc
                         /\ poller'[e].kv = poller[e].kv
                         /\ poller'[e].cur = poller[e].cur
  BY DEF TypeOK, PollerState
<1>4. QED
  BY <1>2, <1>3 DEF TypeOK, Claiming

\* Spawning fills a free task record with an entry of the list.
LEMMA SpawnType ==
  ASSUME TypeOK, NEW d \in Daemons, NEW e \in Entry, NEW s \in 0 .. MaxSlots, Spawn(d, e, s)
  PROVE  /\ task' \in [Tasks -> TaskState]
         /\ \A t \in Tasks :
              /\ task'[t].pc # "off" => task'[t].run \in Runs
              /\ task'[t].pc \in {"slotFreed", "leaseFreed"} => task'[t].slot # NoSlot
<1>1. PICK t \in Tasks :
        task' = [task EXCEPT ![t] = [pc |-> "spawned", daemon |-> d, run |-> e.run,
                                     how |-> e.how, slot |-> s]]
  BY DEF Spawn
<1>2. [pc |-> "spawned", daemon |-> d, run |-> e.run, how |-> e.how, slot |-> s] \in TaskState
  BY Constants DEF TaskState, Entry, Holding
<1>3. QED
  BY <1>1, <1>2 DEF TypeOK, Entry

\* A poller's steps keep the types.
LEMMA PollType ==
  ASSUME TypeOK, NEW d \in Daemons, Poll(d)
  PROVE  TypeOK'
<1>1. CASE ListPending(d)
  <2>1. Pending \subseteq Entry /\ Oldest(Pending) \subseteq Entry
    BY DEF Pending, Oldest, Entry
  <2>2. poller' \in [Daemons -> PollerState]
    <3>1. PICK list \in SUBSET Entry :
            poller' = [poller EXCEPT ![d].list = list, ![d].pc = "poll"]
      BY <1>1, <2>1 DEF ListPending
    <3> DEFINE p == [poller[d] EXCEPT !.list = list, !.pc = "poll"]
    <3>2. p \in PollerState /\ poller' = [poller EXCEPT ![d] = p]
      BY <3>1 DEF TypeOK, PollerState
    <3> HIDE DEF p
    <3>3. QED
      BY <3>2 DEF TypeOK
  <2>3. \A e \in Daemons : poller'[e] = poller[e] \/ poller'[e].pc = "poll"
    BY <1>1 DEF ListPending, TypeOK, PollerState
  <2>4. QED
    BY <1>1, <2>2, <2>3 DEF ListPending, TypeOK, Claiming
<1>2. ASSUME NEW e \in Entry, TryClaim(d, e) PROVE TypeOK'
  BY <1>2 DEF TryClaim, ClaimFree, NextRow, Serving, Entry, Claiming, TypeOK, PollerState
<1>3. ASSUME NEW e \in Entry, SpawnUnscheduled(d, e) PROVE TypeOK'
  <2>1. poller' = PassOver(d) /\ Spawn(d, e, NoSlot)
    BY <1>3 DEF SpawnUnscheduled
  <2>2. QED
    BY <1>3, <2>1, PassOverType, SpawnType, Constants DEF SpawnUnscheduled, TypeOK
<1>4. CASE ProbeSlot(d)
  <2>1. poller[d].probe \in Slots /\ Claiming(d) /\ poller[d].cur \in Entry
    BY <1>4 DEF ProbeSlot, Probes, Claiming, TypeOK
  <2>2. CASE SlotFree(poller[d].probe)
    <3>1. poller' = Resumed(d) /\ Spawn(d, poller[d].cur, poller[d].probe)
      BY <1>4, <2>2 DEF ProbeSlot
    <3>2. QED
      BY <1>4, <2>1, <2>2, <3>1, PassOverType, SpawnType, Constants DEF ProbeSlot, TypeOK
  <2>3. CASE ~SlotFree(poller[d].probe)
    <3>1. poller' = [poller EXCEPT ![d].probe = @ + 1] /\ UNCHANGED <<slots, task>>
      BY <1>4, <2>3 DEF ProbeSlot
    <3>2. QED
      BY <1>4, <3>1, NextProbeType, <2>1 DEF ProbeSlot, TypeOK
  <2>4. QED
    BY <2>2, <2>3
<1>5. CASE NoFreeSlot(d)
  <2>1. poller' = [poller EXCEPT ![d].pc = "unclaim"] /\ Claiming(d)
    BY <1>5 DEF NoFreeSlot, Claiming
  <2>2. poller' \in [Daemons -> PollerState]
    BY <2>1 DEF TypeOK, PollerState
  <2>3. \A e \in Daemons : /\ Claiming(e)' = Claiming(e)
                           /\ poller'[e].kv = poller[e].kv
                           /\ poller'[e].cur = poller[e].cur
    BY <2>1 DEF TypeOK, PollerState, Claiming
  <2>4. QED
    BY <1>5, <2>2, <2>3 DEF NoFreeSlot, TypeOK
<1>6. CASE Unclaim(d)
  BY <1>6, PassOverType DEF Unclaim, TypeOK
<1>7. QED
  BY <1>1, <1>2, <1>3, <1>4, <1>5, <1>6 DEF Poll, Serve, Claim

\* Faults keep the types.
LEMMA FaultType ==
  ASSUME TypeOK, Failure
  PROVE  TypeOK'
<1> faults' \in Nat
  <2>1. \E kind \in FaultKind : Fault(kind)
    BY Zenon DEF Failure, HostBusy, LostClaim, ResetFails, PurgeFails, LostSlot, Crash,
                 ClaimRejected, FinishUnwritten, Panic, Lapse, FaultKind
  <2>2. QED
    BY <2>1 DEF Fault, TypeOK
<1>1. ASSUME NEW d \in Daemons, NEW e \in Entry, HostBusy(d, e) PROVE TypeOK'
  BY <1>1, PassOverType DEF HostBusy, TypeOK
<1>2. ASSUME NEW d \in Daemons, NEW e \in Entry, LostClaim(d, e) PROVE TypeOK'
  BY <1>2 DEF LostClaim, NextRow, Serving, Entry, Claiming, TypeOK, PollerState
<1>3. ASSUME NEW d \in Daemons, LostSlot(d) PROVE TypeOK'
  <2>1. poller[d].probe \in Slots /\ Claiming(d)
    BY <1>3 DEF LostSlot, Claiming
  <2>2. QED
    BY <1>3, <2>1, NextProbeType DEF LostSlot, TypeOK
<1>4. ASSUME NEW d \in Daemons, Crash(d) PROVE TypeOK'
  <2>1. poller' \in [Daemons -> PollerState]
    BY <1>4, Constants DEF Crash, TypeOK
  <2>2. \A e \in Daemons : poller'[e] = poller[e] \/ poller'[e].pc = "down"
    BY <1>4 DEF Crash, TypeOK, Down
  <2>3. task' \in [Tasks -> TaskState] /\ \A t \in Tasks : task'[t] = task[t] \/ task'[t] = Ended
    BY <1>4, Constants DEF Crash, TypeOK
  <2>4. orphans' \subseteq Runs
    BY <1>4 DEF Crash, Orphaned, TypeOK
  <2>5. QED
    BY <1>4, <2>1, <2>2, <2>3, <2>4 DEF Crash, TypeOK, Claiming, Ended
<1>5. ASSUME NEW t \in Tasks, ClaimRejected(t) PROVE TypeOK'
  BY <1>5 DEF ClaimRejected, TypeOK, TaskState, Claiming, Holding
<1>6. ASSUME NEW t \in Tasks, FinishUnwritten(t) PROVE TypeOK'
  BY <1>6 DEF FinishUnwritten, Orphaned, TypeOK, TaskState, Claiming, Holding
<1>7. ASSUME NEW t \in Tasks, Panic(t) PROVE TypeOK'
  BY <1>7, Constants DEF Panic, Orphaned, TypeOK, TaskState, Claiming, Holding, Ended
<1>8. CASE Lapse
  BY <1>8 DEF Lapse, TypeOK, Claiming
<1>9. ASSUME NEW d \in Daemons, ResetFails(d) PROVE TypeOK'
  BY <1>9 DEF ResetFails, TypeOK, PollerState, Claiming
<1>10. ASSUME NEW d \in Daemons, PurgeFails(d) PROVE TypeOK'
  BY <1>10 DEF PurgeFails, TypeOK, PollerState, Claiming
<1>11. QED
  BY <1>1, <1>2, <1>3, <1>4, <1>5, <1>6, <1>7, <1>8, <1>9, <1>10 DEF Failure

\* Every step keeps the types.
LEMMA TypeInvariant ==
  ASSUME TypeOK, [Next]_vars
  PROVE  TypeOK'
<1>1. CASE User
  BY <1>1 DEF User, Submit, Approve, userless, TypeOK, Status, Claimable, Claiming
<1>2. CASE Expiry
  BY <1>2 DEF Expiry, ExpireLease, ExpireSlot, TypeOK, Claiming
<1>3. CASE UNCHANGED vars
  BY <1>3 DEF vars, TypeOK, Claiming
<1>4. QED
  BY <1>1, <1>2, <1>3, FaultType, BootType, PollType, TaskType DEF Next

-----------------------------------------------------------------------------
(* Running rows.                                                           *)

\* Every step keeps track of the running rows: only a claim makes a row running, and
\* only an outcome, a fault or startup takes its worker away.
LEMMA Tracked ==
  ASSUME TypeOK, RunningHasWorker, [Next]_vars
  PROVE  RunningHasWorker'
<1> USE DEF RunningHasWorker
<1>1. CASE User
  BY <1>1 DEF User, Submit, Approve, userless, TypeOK
<1>2. CASE Expiry \/ UNCHANGED vars
  BY <1>2 DEF Expiry, ExpireLease, ExpireSlot, vars
<1>3. ASSUME NEW d \in Daemons, Start(d) \/ Boot(d) PROVE RunningHasWorker'
  <2>1. CASE Reset(d)
    BY <2>1 DEF Reset, Recovered, TypeOK
  <2>2. QED
    BY <1>3, <2>1 DEF Start, Boot, ListKeys, Purge, PurgeLease, PurgeSlot, Purged
<1>4. ASSUME NEW d \in Daemons, Poll(d) PROVE RunningHasWorker'
  <2>1. UNCHANGED <<status, orphans>>
    BY <1>4 DEF Poll, Serve, Claim, ListPending, TryClaim, SpawnUnscheduled, ProbeSlot,
                NoFreeSlot, Unclaim
  <2>2. UNCHANGED task \/ \E e \in Entry \cup {NoEntry}, s \in 0 .. MaxSlots : Spawn(d, e, s)
    BY <1>4, Constants DEF Poll, Serve, Claim, ListPending, TryClaim, SpawnUnscheduled,
                ProbeSlot, NoFreeSlot, Unclaim, TypeOK, PollerState, Probes
  <2>3. \A t \in Tasks : task[t].pc = "working" => task'[t] = task[t]
    BY <2>2 DEF Spawn, TypeOK
  <2>4. QED
    BY <2>1, <2>3
<1>5. ASSUME NEW t \in Tasks, Work(t) \/ Retire(t) \/ Beat(t) PROVE RunningHasWorker'
  <2>1. CASE ClaimRow(t)
    BY <2>1 DEF ClaimRow, TypeOK, TaskState
  <2>2. CASE Finish(t)
    <3>1. PICK outcome \in Status \ {"running"} : Conclude(t, outcome)
      BY <2>2 DEF Finish, Outcomes, Status
    <3>2. QED
      BY <3>1 DEF Conclude, TypeOK, TaskState
  <2>3. CASE Retire(t)
    BY <2>3 DEF Retire, ReleaseSlot, ReleaseLease, AbortHeartbeat, TypeOK, TaskState
  <2>4. CASE Beat(t)
    BY <2>4 DEF Beat, RenewLease, RenewSlot
  <2>5. QED
    BY <1>5, <2>1, <2>2, <2>3, <2>4 DEF Work
<1>6. CASE Failure
  <2>1. ASSUME NEW d \in Daemons, Crash(d) PROVE RunningHasWorker'
    BY <2>1 DEF Crash, Orphaned, TypeOK
  <2>2. ASSUME NEW t \in Tasks, ClaimRejected(t) PROVE RunningHasWorker'
    BY <2>2 DEF ClaimRejected, TypeOK, TaskState
  <2>3. ASSUME NEW t \in Tasks, FinishUnwritten(t) PROVE RunningHasWorker'
    BY <2>3 DEF FinishUnwritten, Orphaned, TypeOK, TaskState
  <2>4. ASSUME NEW t \in Tasks, Panic(t) PROVE RunningHasWorker'
    BY <2>4 DEF Panic, Orphaned, TypeOK, TaskState
  <2>5. QED
    BY <1>6, <2>1, <2>2, <2>3, <2>4 DEF Failure, HostBusy, LostClaim, ResetFails, PurgeFails, LostSlot,
         Lapse
<1>7. QED
  BY <1>1, <1>2, <1>3, <1>4, <1>5, <1>6 DEF Next

-----------------------------------------------------------------------------
(* Exclusion, while no held entry is taken away.                           *)

\* A step that gives nobody anything new to hold.
NoNewHolder ==
  /\ \A d \in Daemons : Claiming(d)' => Claiming(d) /\ poller'[d].cur = poller[d].cur
  /\ \A t \in Tasks : HoldsLease(t)' => HoldsLease(t) /\ task'[t].run = task[t].run
  /\ \A t \in Tasks : HoldsSlot(t)' => HoldsSlot(t) /\ task'[t].slot = task[t].slot

\* Faults other than a lapse give nobody an entry and take none away.
LEMMA FaultNoNewHolder ==
  ASSUME TypeOK, Failure, ~disturbed'
  PROVE  NoNewHolder /\ leases \subseteq leases' /\ slots \subseteq slots'
<1> USE DEF TypeOK, NoNewHolder, Claiming, HoldsLease, HoldsSlot
<1>1. ASSUME NEW d \in Daemons, NEW e \in Entry, HostBusy(d, e) \/ LostClaim(d, e)
      PROVE  NoNewHolder /\ leases \subseteq leases' /\ slots \subseteq slots'
  <2>1. poller' \in {PassOver(d), NextRow(d, e)}
    BY <1>1 DEF HostBusy, LostClaim
  <2>2. \A x \in Daemons : Claiming(x)' => Claiming(x) /\ poller'[x].cur = poller[x].cur
    BY <2>1 DEF PassOver, NextRow, PollerState
  <2>3. QED
    BY <1>1, <2>2 DEF HostBusy, LostClaim
<1>2. ASSUME NEW d \in Daemons, LostSlot(d)
      PROVE  NoNewHolder /\ leases \subseteq leases' /\ slots \subseteq slots'
  BY <1>2 DEF LostSlot, PollerState
<1>3. ASSUME NEW d \in Daemons, Crash(d)
      PROVE  NoNewHolder /\ leases \subseteq leases' /\ slots \subseteq slots'
  BY <1>3 DEF Crash, Down, Ended, Holding
<1>4. ASSUME NEW t \in Tasks, ClaimRejected(t) \/ FinishUnwritten(t) \/ Panic(t)
      PROVE  NoNewHolder /\ leases \subseteq leases' /\ slots \subseteq slots'
  BY <1>4 DEF ClaimRejected, FinishUnwritten, Panic, TaskState, Holding, Ended
<1>5. ASSUME NEW d \in Daemons, ResetFails(d) \/ PurgeFails(d)
      PROVE  NoNewHolder /\ leases \subseteq leases' /\ slots \subseteq slots'
  BY <1>5 DEF ResetFails, PurgeFails, PollerState
<1>6. QED
  BY <1>1, <1>2, <1>3, <1>4, <1>5 DEF Failure, Lapse

\* A task never comes to hold anything after it was spawned.
LEMMA TaskNoNewHolder ==
  ASSUME TypeOK, NEW t \in Tasks, Work(t) \/ Retire(t) \/ Beat(t)
  PROVE  NoNewHolder /\ UNCHANGED <<poller, disturbed>>
<1>1. UNCHANGED <<poller, disturbed>>
  BY DEF Work, ClaimRow, Finish, Conclude, Retire, ReleaseSlot, ReleaseLease, AbortHeartbeat,
         Beat, RenewLease, RenewSlot
<1>2. \A u \in Tasks : u # t => task'[u] = task[u]
  BY DEF Work, ClaimRow, Finish, Conclude, Retire, ReleaseSlot, ReleaseLease, AbortHeartbeat,
         Beat, RenewLease, RenewSlot, TypeOK
<1>3. /\ HoldsLease(t)' => HoldsLease(t) /\ task'[t].run = task[t].run
      /\ HoldsSlot(t)' => HoldsSlot(t) /\ task'[t].slot = task[t].slot
  BY DEF Work, ClaimRow, Finish, Conclude, Retire, ReleaseSlot, ReleaseLease, AbortHeartbeat,
         Beat, RenewLease, RenewSlot, TypeOK, TaskState, Holding, Ended, HoldsLease, HoldsSlot
<1>4. QED
  BY <1>1, <1>2, <1>3 DEF NoNewHolder, HoldsLease, HoldsSlot, Claiming

\* A starting daemon touches no task and holds nothing.
LEMMA BootNoNewHolder ==
  ASSUME TypeOK, NEW d \in Daemons, Start(d) \/ Boot(d)
  PROVE  NoNewHolder /\ UNCHANGED task
<1>1. UNCHANGED task
  BY DEF Start, Boot, Reset, ListKeys, Purge, PurgeLease, PurgeSlot, Purged
<1>2. \A e \in Daemons : Claiming(e)' => poller'[e] = poller[e]
  BY DEF Start, Boot, Reset, ListKeys, Purge, PurgeLease, PurgeSlot, Purged, TypeOK,
         PollerState, Claiming
<1>3. QED
  BY <1>1, <1>2 DEF NoNewHolder, HoldsLease, HoldsSlot, Claiming

\* Leases stay exclusive in every step that disturbs none: a claim needs a free
\* entry, a release removes its own, and expiry only what nobody holds.
LEMMA LeasesKept ==
  ASSUME TypeOK, LeasesExclusive, [Next]_vars, ~disturbed'
  PROVE  LeasesExclusive'
<1> USE DEF LeasesExclusive, HoldsLease, Claiming
<1>1. CASE UNCHANGED vars \/ User
  BY <1>1 DEF vars, User, Submit, Approve, userless
<1>2. CASE Expiry
  BY <1>2 DEF Expiry, ExpireLease, ExpireSlot, BeatsLease, Holding
<1>3. ASSUME NEW d \in Daemons, Start(d) \/ Boot(d) PROVE LeasesExclusive'
  <2>1. NoNewHolder /\ UNCHANGED task
    BY <1>3, BootNoNewHolder
  <2>2. UNCHANGED leases \/ \E r \in Runs : PurgeLease(d, r)
    BY <1>3 DEF Start, Boot, Reset, ListKeys, Purge, PurgeSlot, Purged
  <2>3. /\ \A t \in Tasks : HoldsLease(t) => task[t].run \in leases'
        /\ \A e \in Daemons : Claiming(e) => poller[e].cur.run \in leases'
    BY <2>2 DEF PurgeLease
  <2>4. QED
    BY <2>1, <2>3 DEF NoNewHolder
<1>4. ASSUME NEW d \in Daemons, Poll(d) PROVE LeasesExclusive'
  <2> USE DEF TypeOK, PollerState
  <2>1. CASE ListPending(d)
    BY <2>1 DEF ListPending
  <2>2. ASSUME NEW e \in Entry, TryClaim(d, e) PROVE LeasesExclusive'
    <3>1. CASE ClaimFree(e.run)
      <4>1. /\ leases' = leases \cup {e.run} /\ UNCHANGED task /\ e.run \notin leases
            /\ poller' = [poller EXCEPT ![d].list = @ \ {e}, ![d].cur = e, ![d].pc = "probe"]
        BY <2>2, <3>1 DEF TryClaim, ClaimFree
      <4>2. /\ poller'[d].cur = e
            /\ \A x \in Daemons : x # d => poller'[x] = poller[x]
        BY <4>1
      <4>3. QED
        BY <4>1, <4>2
    <3>2. CASE ~ClaimFree(e.run)
      <4>1. poller' = NextRow(d, e) /\ UNCHANGED <<leases, task>>
        BY <2>2, <3>2 DEF TryClaim
      <4>2. \A x \in Daemons : poller'[x].pc = poller[x].pc /\ poller'[x].cur = poller[x].cur
        BY <4>1 DEF NextRow
      <4>3. QED
        BY <4>1, <4>2
    <3>3. QED
      BY <3>1, <3>2
  <2>3. ASSUME NEW e \in Entry, SpawnUnscheduled(d, e) PROVE LeasesExclusive'
    BY <2>3 DEF SpawnUnscheduled
  <2>4. CASE ProbeSlot(d)
    <3>1. CASE SlotFree(poller[d].probe)
      <4>1. poller' = Resumed(d) /\ Claiming(d) /\ UNCHANGED leases
        BY <2>4, <3>1 DEF ProbeSlot
      <4>2. PICK t \in Tasks : /\ task[t].pc = "off"
                               /\ \A u \in Tasks : u # t => task'[u] = task[u]
                               /\ task'[t].run = poller[d].cur.run
        BY <2>4, <3>1 DEF ProbeSlot, Spawn
      <4>3. /\ ~Claiming(d)'
            /\ \A x \in Daemons : x # d => poller'[x] = poller[x]
        BY <4>1 DEF Resumed
      <4>4. \A u \in Tasks : u # t => HoldsLease(u)' = HoldsLease(u)
        BY <4>2
      <4>5. \A x \in Daemons : Claiming(x)' => x # d /\ Claiming(x)
        BY <4>3
      <4>6. \A u \in Tasks : HoldsLease(u)' => task'[u].run \in leases'
        BY <4>1, <4>2, <4>4
      <4>7. \A x \in Daemons : Claiming(x)' => poller'[x].cur.run \in leases'
        BY <4>1, <4>3, <4>5
      <4>8. \A u, v \in Tasks : HoldsLease(u)' /\ HoldsLease(v)' /\ u # v
                               => task'[u].run # task'[v].run
        <5>1. \A u \in Tasks : u # t /\ HoldsLease(u) => poller[d].cur.run # task[u].run
          BY <4>1
        <5>2. QED
          BY <4>2, <4>4, <5>1
      <4>9. \A x \in Daemons, u \in Tasks : Claiming(x)' /\ HoldsLease(u)'
                               => poller'[x].cur.run # task'[u].run
        BY <4>1, <4>2, <4>3, <4>4, <4>5
      <4>10. \A x, y \in Daemons : Claiming(x)' /\ Claiming(y)' /\ x # y
                               => poller'[x].cur.run # poller'[y].cur.run
        BY <4>3, <4>5
      <4>11. QED
        BY <4>6, <4>7, <4>8, <4>9, <4>10
    <3>2. CASE ~SlotFree(poller[d].probe)
      BY <2>4, <3>2 DEF ProbeSlot
    <3>3. QED
      BY <3>1, <3>2
  <2>5. CASE NoFreeSlot(d)
    BY <2>5 DEF NoFreeSlot
  <2>6. CASE Unclaim(d)
    <3>1. Claiming(d) /\ leases' = leases \ {poller[d].cur.run} /\ UNCHANGED task
      BY <2>6 DEF Unclaim
    <3>2. /\ ~Claiming(d)'
          /\ \A x \in Daemons : x # d => poller'[x] = poller[x]
      BY <2>6 DEF Unclaim, PassOver
    <3>3. QED
      BY <3>1, <3>2
  <2>7. QED
    BY <1>4, <2>1, <2>2, <2>3, <2>4, <2>5, <2>6 DEF Poll, Serve, Claim
<1>5. ASSUME NEW t \in Tasks, Work(t) \/ Retire(t) \/ Beat(t) PROVE LeasesExclusive'
  <2>1. NoNewHolder
    BY <1>5, TaskNoNewHolder
  <2>2. \/ leases \subseteq leases'
        \/ leases' = leases \ {task[t].run} /\ HoldsLease(t) /\ ~HoldsLease(t)'
    BY <1>5 DEF Work, ClaimRow, Finish, Conclude, Retire, ReleaseSlot, ReleaseLease,
                AbortHeartbeat, Beat, RenewLease, RenewSlot, TypeOK, TaskState, Holding
  <2>3. QED
    BY <2>1, <2>2 DEF NoNewHolder
<1>6. CASE Failure
  BY <1>6, FaultNoNewHolder DEF NoNewHolder
<1>7. QED
  BY <1>1, <1>2, <1>3, <1>4, <1>5, <1>6 DEF Next

\* Slots stay exclusive for the same reason.
LEMMA SlotsKept ==
  ASSUME TypeOK, SlotsExclusive, [Next]_vars, ~disturbed'
  PROVE  SlotsExclusive'
<1> USE DEF SlotsExclusive, HoldsSlot
<1>1. CASE UNCHANGED vars \/ User
  BY <1>1 DEF vars, User, Submit, Approve, userless
<1>2. CASE Expiry
  BY <1>2 DEF Expiry, ExpireLease, ExpireSlot, BeatsSlot, BeatsLease, Holding
<1>3. ASSUME NEW d \in Daemons, Start(d) \/ Boot(d) PROVE SlotsExclusive'
  <2>1. UNCHANGED task
    BY <1>3, BootNoNewHolder
  <2>2. UNCHANGED slots \/ \E s \in Slots : PurgeSlot(d, s)
    BY <1>3 DEF Start, Boot, Reset, ListKeys, Purge, PurgeLease, Purged
  <2>3. \A t \in Tasks : HoldsSlot(t) => task[t].slot \in slots'
    BY <2>2 DEF PurgeSlot
  <2>4. QED
    BY <2>1, <2>3
<1>4. ASSUME NEW d \in Daemons, Poll(d) PROVE SlotsExclusive'
  <2>1. CASE ProbeSlot(d) /\ SlotFree(poller[d].probe)
    <3>1. /\ poller[d].probe \notin slots
          /\ slots' = slots \cup {poller[d].probe}
      BY <2>1 DEF ProbeSlot, SlotFree
    <3>2. PICK t \in Tasks : /\ task[t].pc = "off"
                             /\ \A u \in Tasks : u # t => task'[u] = task[u]
                             /\ task'[t].slot = poller[d].probe
      BY <2>1 DEF ProbeSlot, Spawn, TypeOK
    <3>3. QED
      BY <3>1, <3>2 DEF Holding
  <2>2. ASSUME NEW e \in Entry, SpawnUnscheduled(d, e) PROVE SlotsExclusive'
    BY <2>2 DEF SpawnUnscheduled
  <2>3. CASE UNCHANGED <<task, slots>>
    BY <2>3
  <2>4. QED
    BY <1>4, <2>1, <2>2, <2>3
       DEF Poll, Serve, Claim, ListPending, TryClaim, ProbeSlot, NoFreeSlot, Unclaim
<1>5. ASSUME NEW t \in Tasks, Work(t) \/ Retire(t) \/ Beat(t) PROVE SlotsExclusive'
  <2>1. NoNewHolder
    BY <1>5, TaskNoNewHolder
  <2>2. \/ slots \subseteq slots'
        \/ slots' = slots \ {task[t].slot} /\ HoldsSlot(t) /\ ~HoldsSlot(t)'
    <3>1. CASE ReleaseSlot(t) /\ task[t].slot = NoSlot
      BY <3>1, Constants DEF ReleaseSlot, TypeOK
    <3>2. CASE ReleaseSlot(t) /\ task[t].slot # NoSlot
      BY <3>2 DEF ReleaseSlot, TypeOK, TaskState, Holding
    <3>3. QED
      BY <1>5, <3>1, <3>2 DEF Work, ClaimRow, Finish, Conclude, Retire, ReleaseLease,
                AbortHeartbeat, Beat, RenewLease, RenewSlot
  <2>3. QED
    BY <2>1, <2>2 DEF NoNewHolder
<1>6. CASE Failure
  BY <1>6, FaultNoNewHolder DEF NoNewHolder
<1>7. QED
  BY <1>1, <1>2, <1>3, <1>4, <1>5, <1>6 DEF Next

-----------------------------------------------------------------------------
(* Theorems.                                                               *)

\* The history variable disturbed is never reset.
LEMMA DisturbedForGood ==
  ASSUME TypeOK, [Next]_vars, disturbed
  PROVE  disturbed'
<1>1. ASSUME NEW d \in Daemons, Start(d) \/ Boot(d) \/ Poll(d) PROVE disturbed'
  BY <1>1 DEF Start, Boot, Reset, ListKeys, Purge, PurgeLease, PurgeSlot, Purged, Poll, Serve,
              Claim, ListPending, TryClaim, SpawnUnscheduled, ProbeSlot, NoFreeSlot, Unclaim
<1>2. CASE Failure
  BY <1>2 DEF Failure, HostBusy, LostClaim, ResetFails, PurgeFails, LostSlot, Crash,
              ClaimRejected, FinishUnwritten, Panic, Lapse
<1>3. QED
  BY <1>1, <1>2, TaskNoNewHolder
     DEF Next, User, Submit, Approve, userless, Expiry, ExpireLease, ExpireSlot, vars

\* The three parts of the inductive invariant are preserved by every step: types,
\* the bookkeeping of running rows and, as long as nothing disturbs them, the
\* exclusive hold of tasks and pollers on their entries.
THEOREM Invariance == Spec => []IInv
<1>1. ASSUME IInv, [Next]_vars PROVE IInv'
  BY <1>1, TypeInvariant, Tracked, LeasesKept, SlotsKept, DisturbedForGood DEF IInv
<1>2. QED
  BY InitInv, <1>1, PTL DEF Spec

\* Pollers and tasks only ever hold runs and slots that exist (main.rs:401-635).
THEOREM TypeCorrect == Spec => []TypeOK
<1>1. IInv => TypeOK
  BY DEF IInv
<1>2. QED
  BY <1>1, Invariance, PTL

\* A run is worked on by one task at a time unless a held entry was purged or
\* lapsed: leases.create decides every race of the pollers (scheduler.rs:104-124).
THEOREM ExclusiveExecution == Spec => []OneTaskPerRun
<1>1. IInv => OneTaskPerRun
  BY DEF IInv, OneTaskPerRun, LeasesExclusive
<1>2. QED
  BY <1>1, Invariance, PTL

\* Under the same condition no more than MaxSlots tasks hold a slot, over all
\* daemons: the slots inject the tasks into 0..MaxSlots-1 (scheduler.rs:289-303).
THEOREM ExecutionCap == Spec => []ConcurrencyCapped
<1>1. ASSUME IInv PROVE ConcurrencyCapped
  <2> DEFINE f == [t \in Holders |-> task[t].slot]
  <2> SUFFICES ASSUME ~disturbed PROVE Cardinality(Holders) <= MaxSlots
    BY DEF ConcurrencyCapped
  <2>1. f \in Injection(Holders, Slots)
    BY <1>1 DEF IInv, TypeOK, SlotsExclusive, Holders, Injection, IsInjective
  <2>2. IsFiniteSet(Slots) /\ Cardinality(Slots) = MaxSlots
    BY FS_Interval, SchedulerAssumption DEF Slots
  <2> HIDE DEF f
  <2>3. QED
    BY <2>1, <2>2, FS_Injection
<1>2. QED
  BY <1>1, Invariance, PTL

\* A row that says running has a worker or lost it without a final write: the
\* claims and outcomes of executor.rs leave no other row behind.
THEOREM RunningRowsTracked == Spec => []RunningHasWorker
<1>1. IInv => RunningHasWorker
  BY DEF IInv
<1>2. QED
  BY <1>1, Invariance, PTL

-----------------------------------------------------------------------------
(* A single daemon implements the pool.                                    *)

\* While the daemon is down or starting none of its tasks is alive, and a
\* scheduler always comes with it: startup disturbs nothing.
Alone(d) ==
  /\ IInv /\ ~disturbed
  /\ poller[d].pc \in {"down", "reset", "keys", "purge"} => \A t \in Tasks : task[t].pc = "off"
  /\ poller[d].pc # "down" => poller[d].kv
  /\ \A t \in Tasks : task[t].pc # "off" => task[t].daemon = d

\* With one daemon, and neither lapses nor a missing NATS, nothing ever disturbs a
\* holder: its tasks died with the daemon before its startup purges their entries.
LEMMA AloneKept ==
  ASSUME NEW d, Daemons = {d}, {"lapse", "nats"} \cap Faults = {}, Alone(d), [Next]_vars
  PROVE  Alone(d)'
<1> USE DEF Alone
<1>1. TypeOK /\ IInv' /\ TypeOK'
  <2>1. IInv'
    BY TypeInvariant, Tracked, LeasesKept, SlotsKept, DisturbedForGood DEF IInv
  <2>2. QED
    BY <2>1 DEF IInv
<1>2. ASSUME Start(d) \/ Boot(d) PROVE Alone(d)'
  <2>1. UNCHANGED task
    BY <1>2, BootNoNewHolder, <1>1
  <2>2. /\ poller[d].pc \in {"down", "reset", "keys", "purge"}
        /\ poller'[d].pc # "down" /\ poller'[d].kv
    BY <1>1, <1>2 DEF Start, Fault, Boot, Reset, ListKeys, Purge, PurgeLease, PurgeSlot, Purged,
                      TypeOK, PollerState
  <2>3. ~disturbed'
    BY <1>2, <2>2 DEF Start, Boot, Reset, ListKeys, Purge, PurgeLease, PurgeSlot, Purged,
                      HoldsLease, HoldsSlot, Holding, Claiming
  <2>4. QED
    BY <1>1, <2>1, <2>2, <2>3
<1>3. ASSUME Poll(d) PROVE Alone(d)'
  <2>1. /\ poller[d].pc \in {"first", "poll", "probe", "unclaim"} /\ poller[d].kv
        /\ poller'[d].pc \in {"first", "poll", "probe", "unclaim"} /\ poller'[d].kv
    <3> DEFINE Up == {"first", "poll", "probe", "unclaim"}
    <3>1. poller[d].pc \in Up
      BY <1>3 DEF Poll, Serve, Claim, ListPending, TryClaim, SpawnUnscheduled, ProbeSlot,
                  NoFreeSlot, Unclaim, Serving
    <3>2. CASE ListPending(d) \/ NoFreeSlot(d)
      BY <1>1, <3>1, <3>2 DEF ListPending, NoFreeSlot, TypeOK, PollerState
    <3>3. CASE ProbeSlot(d) \/ Unclaim(d)
      BY <1>1, <3>1, <3>3 DEF ProbeSlot, Unclaim, Resumed, PassOver, TypeOK, PollerState
    <3>4. ASSUME NEW e \in Entry, TryClaim(d, e) \/ SpawnUnscheduled(d, e)
          PROVE  poller'[d].pc \in Up /\ poller'[d].kv
      BY <1>1, <3>1, <3>4 DEF TryClaim, SpawnUnscheduled, NextRow, PassOver, TypeOK, PollerState
    <3>5. QED
      BY <1>3, <3>1, <3>2, <3>3, <3>4 DEF Poll, Serve, Claim
  <2>2. ~disturbed'
    BY <1>3, <2>1 DEF Poll, Serve, Claim, ListPending, TryClaim, SpawnUnscheduled, ProbeSlot,
         NoFreeSlot, Unclaim
  <2>3. UNCHANGED task \/ \E e \in Entry \cup {NoEntry}, s \in 0 .. MaxSlots : Spawn(d, e, s)
    BY <1>1, <1>3, Constants DEF Poll, Serve, Claim, ListPending, TryClaim, SpawnUnscheduled,
                ProbeSlot, NoFreeSlot, Unclaim, TypeOK, PollerState, Probes
  <2>4. \A t \in Tasks : task'[t].pc # "off" => task'[t].daemon = d
    BY <1>1, <2>3 DEF Spawn, TypeOK
  <2>5. QED
    BY <1>1, <2>1, <2>2, <2>4
<1>4. ASSUME NEW t \in Tasks, Work(t) \/ Retire(t) \/ Beat(t) PROVE Alone(d)'
  <2>1. UNCHANGED <<poller, disturbed>>
    BY <1>1, <1>4, TaskNoNewHolder
  <2>2. \A u \in Tasks : task'[u].pc = "off" \/
          (task[u].pc # "off" /\ task'[u].daemon = task[u].daemon)
    BY <1>1, <1>4 DEF Work, ClaimRow, Finish, Conclude, Retire, ReleaseSlot, ReleaseLease,
         AbortHeartbeat, Beat, RenewLease, RenewSlot, BeatsLease, BeatsSlot, TypeOK, TaskState,
         Ended
  <2>3. QED
    BY <1>1, <2>1, <2>2
<1>5. CASE Failure
  <2>1. ~disturbed'
    BY <1>5 DEF Failure, HostBusy, LostClaim, ResetFails, PurgeFails, LostSlot, Crash,
                ClaimRejected, FinishUnwritten, Panic, Lapse, Fault
  <2>2. CASE Crash(d)
    <3>1. \A t \in Tasks : task'[t].pc = "off"
      BY <1>1, <2>2 DEF Crash, Ended
    <3>2. poller'[d].pc = "down"
      BY <1>1, <2>2 DEF Crash, TypeOK, Down
    <3>3. QED
      BY <1>1, <2>1, <3>1, <3>2
  <2>3. ASSUME NEW e \in Entry, HostBusy(d, e) \/ LostClaim(d, e) \/ LostSlot(d)
        PROVE  Alone(d)'
    <3>1. /\ UNCHANGED task /\ poller[d].pc \in {"poll", "probe"}
          /\ poller'[d].pc \in {"poll", "probe"} /\ poller'[d].kv = poller[d].kv
      BY <1>1, <2>3 DEF HostBusy, LostClaim, LostSlot, Serving, PassOver, NextRow, TypeOK,
                        PollerState
    <3>2. QED
      BY <1>1, <2>1, <3>1
  <2>4. ASSUME NEW t \in Tasks, ClaimRejected(t) \/ FinishUnwritten(t) \/ Panic(t)
        PROVE  Alone(d)'
    <3>1. \A u \in Tasks : task'[u].pc = "off" \/
            (task[u].pc # "off" /\ task'[u].daemon = task[u].daemon)
      BY <1>1, <2>4 DEF ClaimRejected, FinishUnwritten, Panic, TypeOK, TaskState, Ended
    <3>2. UNCHANGED poller
      BY <2>4 DEF ClaimRejected, FinishUnwritten, Panic
    <3>3. QED
      BY <1>1, <2>1, <3>1, <3>2
  <2>5. ~Lapse
    BY DEF Lapse, Fault
  <2>6. CASE LostSlot(d)
    <3>1. /\ UNCHANGED task /\ poller[d].pc = "probe"
          /\ poller'[d].pc = "probe" /\ poller'[d].kv = poller[d].kv
      BY <1>1, <2>6 DEF LostSlot, TypeOK, PollerState
    <3>2. QED
      BY <1>1, <2>1, <3>1
  <2>7. CASE ResetFails(d) \/ PurgeFails(d)
    <3>1. /\ UNCHANGED task /\ poller[d].pc \in {"reset", "keys", "purge"}
          /\ poller'[d].pc # "down" /\ poller'[d].kv = poller[d].kv
      BY <1>1, <2>7 DEF ResetFails, PurgeFails, TypeOK, PollerState
    <3>2. QED
      BY <1>1, <2>1, <3>1
  <2>8. QED
    BY <1>5, <2>2, <2>3, <2>4, <2>5, <2>6, <2>7 DEF Failure
<1>6. CASE User \/ Expiry \/ UNCHANGED vars
  BY <1>1, <1>6 DEF User, Submit, Approve, userless, Expiry, ExpireLease, ExpireSlot, vars
<1>7. QED
  BY <1>2, <1>3, <1>4, <1>5, <1>6 DEF Next

\* Startup purges no entry a live task relies on: "nothing is legitimately held at
\* boot" (scheduler.rs:140-141), whatever crashes, lost replies and late heartbeats
\* there were, as long as one daemon uses the bucket and reaches it in time.
THEOREM BootPurgesNothingLive ==
  ASSUME NEW d, Daemons = {d}, {"lapse", "nats"} \cap Faults = {}
  PROVE  Spec => []NothingLivePurged
<1>1. Init => Alone(d)
  <2> SUFFICES ASSUME Init PROVE Alone(d)
    OBVIOUS
  <2>1. IInv
    BY InitInv
  <2>2. QED
    BY <2>1 DEF Init, Alone, Down, Ended
<1>2. Alone(d) /\ [Next]_vars => Alone(d)'
  BY AloneKept
<1>3. Alone(d) => NothingLivePurged
  BY DEF Alone, IInv, LeasesExclusive, SlotsExclusive, NothingLivePurged
<1>4. QED
  BY <1>1, <1>2, <1>3, PTL DEF Spec

\* Steps without a new holder are steps of the pool in which the jobs of the
\* tasks that let go of their slots end.
LEMMA LeaveStep ==
  ASSUME NoNewHolder
  PROVE  Pool!Next
<1>1. \A t \in Tasks : HoldsSlot(t)' => /\ HoldsSlot(t) /\ task'[t].run = task[t].run
                                       /\ task'[t].slot = task[t].slot
  BY DEF NoNewHolder, HoldsSlot, HoldsLease
<1>2. Jobs' \subseteq Jobs
  BY <1>1 DEF Jobs, Holders
<1>3. Pool!Leave(Jobs \ Jobs')
  BY <1>2 DEF Pool!Leave
<1>4. QED
  BY <1>3 DEF Pool!Next

\* A spawned task takes up a run nobody works on, at a seat that was free.
LEMMA TakeUpStep ==
  ASSUME IInv, ~disturbed, NEW d \in Daemons, ProbeSlot(d), SlotFree(poller[d].probe)
  PROVE  Pool!Next
<1> DEFINE e == poller[d].cur
           s == poller[d].probe
<1>1. /\ TypeOK /\ LeasesExclusive /\ SlotsExclusive /\ Claiming(d)
      /\ e \in Entry /\ s \in Slots /\ s \notin slots /\ s # NoSlot
  BY Constants DEF IInv, ProbeSlot, Claiming, TypeOK, Probes, SlotFree
<1>2. PICK t \in Tasks :
        /\ task[t].pc = "off"
        /\ task' = [task EXCEPT ![t] = [pc |-> "spawned", daemon |-> d, run |-> e.run,
                                        how |-> e.how, slot |-> s]]
  BY DEF ProbeSlot, Spawn
<1> DEFINE j == [worker |-> t, run |-> e.run, seat |-> s]
<1>3. t \notin Holders /\ t \in Holders'
  BY <1>1, <1>2 DEF Holders, HoldsSlot, Holding, TypeOK
<1>4. \A u \in Tasks : u # t => task'[u] = task[u] /\ (HoldsSlot(u)' <=> HoldsSlot(u))
  BY <1>1, <1>2 DEF HoldsSlot, TypeOK
<1>5. task'[t].run = e.run /\ task'[t].slot = s
  BY <1>1, <1>2 DEF TypeOK
<1>6. Jobs' = Jobs \cup {j}
  <2>1. Holders' = Holders \cup {t}
    BY <1>3, <1>4 DEF Holders
  <2>2. \A u \in Holders : u \in Tasks /\ task'[u] = task[u]
    BY <1>3, <1>4 DEF Holders
  <2>3. QED
    BY <1>5, <2>1, <2>2 DEF Jobs
<1>7. \A u \in Holders : u # t /\ task[u].run # e.run /\ task[u].slot # s
  BY <1>1, <1>3 DEF Holders, LeasesExclusive, SlotsExclusive, HoldsSlot, HoldsLease
<1>8. \A k \in Jobs : k.worker # t /\ k.run # e.run /\ k.seat # s
  BY <1>7 DEF Jobs
<1>9. j \in Pool!Job /\ Pool!TakeUp(j)
  BY <1>1, <1>6, <1>8 DEF Pool!Job, Pool!TakeUp, Entry
<1>10. QED
  BY <1>9 DEF Pool!Next

\* Every step of a single daemon is a step of the pool or leaves the jobs alone.
LEMMA PoolStep ==
  ASSUME NEW d, Daemons = {d}, Alone(d), [Next]_vars, ~disturbed'
  PROVE  Pool!Next \/ UNCHANGED Jobs
<1>1. TypeOK /\ IInv /\ ~disturbed
  BY DEF Alone, IInv
<1>2. CASE UNCHANGED task
  BY <1>2 DEF Jobs, Holders, HoldsSlot
<1>3. CASE Failure
  BY <1>1, <1>3, FaultNoNewHolder, LeaveStep
<1>4. ASSUME NEW t \in Tasks, Work(t) \/ Retire(t) \/ Beat(t)
      PROVE  Pool!Next \/ UNCHANGED Jobs
  BY <1>1, <1>4, TaskNoNewHolder, LeaveStep
<1>5. CASE ProbeSlot(d) /\ SlotFree(poller[d].probe)
  BY <1>1, <1>5, TakeUpStep
<1>6. QED
  BY <1>2, <1>3, <1>4, <1>5, BootNoNewHolder, <1>1
     DEF Next, User, Submit, Approve, userless, Expiry, ExpireLease, ExpireSlot, vars, Poll,
         Serve, Claim, ListPending, TryClaim, SpawnUnscheduled, ProbeSlot, NoFreeSlot, Unclaim

\* A single daemon that reaches NATS in time implements the pool, through every
\* crash, restart, panic and lost reply: its startup purge, its poller's claims and
\* its tasks' releases and heartbeats never let two tasks at one run, nor more
\* tasks than slots (main.rs:209-225, 393-438, 578-635).
THEOREM PoolImplemented ==
  ASSUME NEW d, Daemons = {d}, {"lapse", "nats"} \cap Faults = {}
  PROVE  Spec => ImplementsPool
<1>1. Init => Alone(d) /\ Pool!Init
  <2> SUFFICES ASSUME Init PROVE Alone(d) /\ Pool!Init
    OBVIOUS
  <2>1. IInv
    BY InitInv
  <2>2. QED
    BY <2>1 DEF Init, Alone, Pool!Init, Jobs, Holders, Down, Ended, HoldsSlot, Holding
<1>2. Alone(d) /\ [Next]_vars => Alone(d)'
  BY AloneKept
<1>3. Alone(d) /\ Alone(d)' /\ [Next]_vars => [Pool!Next]_Jobs
  BY PoolStep DEF Alone
<1>4. QED
  BY <1>1, <1>2, <1>3, PTL DEF Spec, ImplementsPool, Pool!Spec
=============================================================================
