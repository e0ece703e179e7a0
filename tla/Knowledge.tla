------------------------------ MODULE Knowledge ------------------------------
(***************************************************************************)
(* What the swarm learns from its runs, and what becomes of it:             *)
(*   - the hooks of a run (agent-daemon/src/hooks.rs) collect its tasks and *)
(*     at its end store a trajectory, then an error entry or, through a     *)
(*     spawned distillation, a pattern for the shape of its goal;           *)
(*   - the memory (knowledge-base/src/memory.rs) keeps an entry as a        *)
(*     database row, the authority, and mirrors it in a search index in RAM *)
(*     that is rebuilt at startup; unused entries decay;                    *)
(*   - knowledge_sync.rs imports the files under .swarm into an empty       *)
(*     database, then exports the rows to them from time to time;           *)
(*   - the executor counts the outcome of the tier that planned the run.    *)
(* The content of an entry is the run it was learnt from.  All runs are of  *)
(* one project.                                                             *)
(***************************************************************************)
EXTENDS Naturals, Sequences, FiniteSetsExt

CONSTANTS
  Runs,
  Shapes,     \* goal shapes: the keys of patterns
  ShapeOf,    \* run -> shape of its goal
  Past,       \* what the snapshot in .swarm holds comes from these earlier runs
  Nothing,
  Snapshot,   \* the entries that have a file when the database is new
  MaxRounds,  \* bound: rounds of a run (waves of its workflow, and retries)
  MaxFaults   \* bound: failed queries, writes and model calls, and crashes

Learners == Runs \cup {Past}
Entries  == ({"trajectories", "errors"} \X Learners) \cup ({"patterns"} \X Shapes)

ASSUME KnowledgeAssumption ==
  /\ Past \notin Runs /\ Nothing \notin Learners
  /\ ShapeOf \in [Runs -> Shapes] /\ Snapshot \subseteq Entries
  /\ MaxRounds \in Nat \ {0} /\ MaxFaults \in Nat

Namespaces == <<"patterns", "errors", "trajectories">>
In(ns) == {e \in Entries : e[1] = ns}
Trajectory(r) == <<"trajectories", r>>

\* Per run and not per goal shape, so that distinct failures of a goal are all
\* kept.
Error(r) == <<"errors", r>>
Pattern(r) == <<"patterns", ShapeOf[r]>>

VARIABLES
  row,      \* entry -> what its memory_entry row holds
  uses,     \* entry -> use_count, up to the number that exempts from decay
  stale,    \* entries not used for DECAY_STALE_DAYS
  index,    \* entry -> what the search index holds
  indexed,  \* the index exists; otherwise searches scan the rows
  evict,    \* rows decay has deleted and not yet evicted from the index
  refused,  \* history: entries that a failed statement left out of step with the
            \* index since it was filled
  job,      \* writer -> the store call it is in
  run,      \* run -> where it is, and its recorder
  ended,    \* history: run -> the outcomes it ended with, and what the
            \* trajectory it stored last tells of its rounds
  routing,  \* the routing_stats rows of the runs' (project, shape, tier)
  file,     \* entry -> what .swarm holds for it
  sync,     \* the import and export loop
  faults

vars == <<row, uses, stale, index, indexed, evict, refused, job, run, ended, routing, file, sync, faults>>
memory == <<row, uses, stale, index, indexed, evict, refused>>
disk   == <<file, sync>>

Hook(r) == <<"hook", r>>
Distiller(r) == <<"distill", r>>
Importer == <<"import", Past>>
Writers == ({"hook", "distill"} \X Runs) \cup {Importer}

NoEntry == <<Nothing, Nothing>>
Resting == [at |-> "idle", entry |-> NoEntry, by |-> Nothing]
Store(e, v) == [at |-> "upsert", entry |-> e, by |-> v]
DecayMinUse == 2

NoStats == [attempts |-> 0, successes |-> 0]
NewRun == [at |-> "waiting", round |-> 0, steps |-> {}, passed |-> FALSE,
           saved |-> FALSE, seen |-> NoStats]
Syncing(at, todo) == [at |-> at, todo |-> todo]

NotEnded == [with |-> {}, told |-> {}, rounds |-> 0]

Init ==
  /\ row = [e \in Entries |-> Nothing] /\ index = row
  /\ uses = [e \in Entries |-> 0] /\ stale = {} /\ evict = {} /\ refused = {} /\ indexed = TRUE
  /\ job = [w \in Writers |-> Resting]
  /\ run = [r \in Runs |-> NewRun] /\ ended = [r \in Runs |-> NotEnded]
  /\ routing = << >>
  /\ file = [e \in Entries |-> IF e \in Snapshot THEN Past ELSE Nothing]
  /\ sync = Syncing("count", {}) /\ faults = 0

Fault == faults < MaxFaults /\ faults' = faults + 1
NoFault == UNCHANGED faults
-----------------------------------------------------------------------------
(* MemoryStore                                                              *)

\* The row first; its use count starts again.  A failed embedding or query stores
\* nothing; an UPSERT that the database refuses in an answer passes for done.
Upsert(w) ==
  LET e == job[w].entry IN
  /\ job[w].at = "upsert"
  /\ \/ /\ row' = [row EXCEPT ![e] = job[w].by]
        /\ uses' = [uses EXCEPT ![e] = 0] /\ stale' = stale \ {e}
        /\ job' = [job EXCEPT ![w].at = "mirror"] /\ refused' = refused \ {e} /\ NoFault
     \/ /\ \/ job' = [job EXCEPT ![w] = Resting] /\ refused' = refused
           \/ job' = [job EXCEPT ![w].at = "mirror"] /\ refused' = refused \cup {e}
        /\ Fault /\ UNCHANGED <<row, uses, stale>>
  /\ UNCHANGED <<index, indexed, evict, run, ended, routing, disk>>

\* Then the index, best effort: what it held is deleted before the insert.
Mirror(w) ==
  LET e == job[w].entry IN
  /\ job[w].at = "mirror"
  /\ \/ index' = [index EXCEPT ![e] = IF indexed THEN job[w].by ELSE Nothing] /\ NoFault
     \/ indexed /\ index' = [index EXCEPT ![e] = Nothing] /\ Fault
  /\ job' = [job EXCEPT ![w] = Resting]
  /\ UNCHANGED <<row, uses, stale, indexed, evict, refused, run, ended, routing, disk>>

Learnt == {e \in Entries : row[e] # Nothing}

\* Time passes without a search that hits.  A store call takes less than that.
Idle ==
  /\ evict = {} /\ \A w \in Writers : job[w].at # "mirror"
  /\ stale # Learnt /\ stale' = Learnt
  /\ UNCHANGED <<row, uses, index, indexed, evict, refused, job, run, ended, routing, disk, faults>>

Decayed == {e \in stale \ In("trajectories") : uses[e] < DecayMinUse}

\* decay deletes the stale rows, then those with a time to live, of which there are
\* none, and then evicts each of them; when the second query fails it evicts nothing.
DecayRows ==
  /\ evict = {} /\ Decayed # {}
  /\ row' = [e \in Entries |-> IF e \in Decayed THEN Nothing ELSE row[e]]
  /\ uses' = [e \in Entries |-> IF e \in Decayed THEN 0 ELSE uses[e]]
  /\ stale' = stale \ Decayed
  /\ \/ evict' = Decayed /\ refused' = refused /\ NoFault
     \/ evict' = {} /\ refused' = refused \cup Decayed /\ Fault
  /\ UNCHANGED <<index, indexed, job, run, ended, routing, disk>>

\* Mutant: the index is left to the next rebuild.
Evicted_Never == index

Evicted == [e \in Entries |-> IF e \in evict THEN Nothing ELSE index[e]]

Evict ==
  /\ evict # {} /\ evict' = {} /\ index' = Evicted
  /\ UNCHANGED <<row, uses, stale, indexed, refused, job, run, ended, routing, disk, faults>>

\* What a search of everything similar offers: the index decides alone when
\* there is one, however incomplete.
Offered == IF indexed THEN {e \in Entries : index[e] # Nothing} ELSE Learnt
-----------------------------------------------------------------------------
(* A run and its recorder                                                   *)

Update(r, fields) == run' = [run EXCEPT ![r] = fields]

\* The planner is shown patterns and errors; their rows are touched.
Plan(r) ==
  LET hits == (Offered \cap Learnt) \ In("trajectories") IN
  /\ run[r].at = "waiting" /\ run[r].round = 0
  /\ Update(r, [run[r] EXCEPT !.at = "running"])
  /\ uses' = [e \in Entries |-> IF e \in hits /\ uses[e] < DecayMinUse THEN uses[e] + 1 ELSE uses[e]]
  /\ stale' = stale \ hits
  /\ UNCHANGED <<row, index, indexed, evict, refused, job, ended, routing, disk, faults>>

\* After a restart the approved plan is executed again, without planning.
Rerun(r) ==
  /\ run[r].at = "waiting" /\ run[r].round > 0
  /\ Update(r, [NewRun EXCEPT !.at = "running"])
  /\ UNCHANGED <<memory, job, ended, routing, disk, faults>>

\* execute_tasks: on_run_start each time it is called, which empties the
\* recorder, then on_task_complete or on_task_fail of the round's tasks.
Round(r) ==
  /\ run[r].at = "running" /\ run[r].round < MaxRounds
  /\ Update(r, [run[r] EXCEPT !.round = @ + 1, !.steps = {run[r].round + 1}])
  /\ UNCHANGED <<memory, job, ended, routing, disk, faults>>

\* The last iteration fails: nothing is learnt from the run.
RunErrs(r) ==
  /\ run[r].at = "running" /\ Fault
  /\ Update(r, [run[r] EXCEPT !.at = "over", !.saved = TRUE])
  /\ UNCHANGED <<memory, job, ended, routing, disk>>

\* The gate has decided; record_routing reads the counters, none when there is
\* no row yet or when the query fails.
RunEnds(r, passed) ==
  LET Read(seen) == Update(r, [run[r] EXCEPT !.at = "routed", !.passed = passed, !.seen = seen]) IN
  /\ run[r].at = "running" /\ run[r].round > 0
  /\ ended' = [ended EXCEPT ![r].with = @ \cup {passed}]
  /\ \/ Read(IF routing = << >> THEN NoStats ELSE Head(routing)) /\ NoFault
     \/ Read(NoStats) /\ routing # << >> /\ Fault
  /\ UNCHANGED <<memory, job, routing, disk>>

\* Mutant: failures count as attempts of nobody.
Counted_PassedOnly(seen, passed) ==
  [attempts |-> seen.attempts, successes |-> seen.successes + (IF passed THEN 1 ELSE 0)]

Counted(seen, passed) ==
  [attempts |-> seen.attempts + 1, successes |-> seen.successes + (IF passed THEN 1 ELSE 0)]

RoutingWrite(r) ==
  LET new == Counted(run[r].seen, run[r].passed) IN
  /\ run[r].at = "routed"
  /\ \/ /\ routing' = IF run[r].seen = NoStats THEN Append(routing, new)
                      ELSE [routing EXCEPT ![1] = new]
        /\ NoFault
     \/ routing' = routing /\ Fault
  /\ Update(r, [run[r] EXCEPT !.at = "saving", !.seen = NoStats])
  /\ UNCHANGED <<memory, job, ended, disk>>

\* The run's row gets its outcome, unless the update fails, which is ignored.
\* Then on_run_complete stores the trajectory.
Save(r) ==
  /\ run[r].at = "saving"
  /\ \/ Update(r, [run[r] EXCEPT !.at = "recording", !.saved = TRUE]) /\ NoFault
     \/ Update(r, [run[r] EXCEPT !.at = "recording"]) /\ Fault
  /\ job' = [job EXCEPT ![Hook(r)] = Store(Trajectory(r), r)]
  /\ ended' = [ended EXCEPT ![r].told = run[r].steps, ![r].rounds = run[r].round]
  /\ UNCHANGED <<memory, routing, disk>>

Succeeded(r) == run[r].passed

\* Stored or not: a success is distilled by a spawned task, a failure is
\* stored as an error.
Distil(r) ==
  /\ run[r].at = "recording" /\ job[Hook(r)] = Resting /\ Succeeded(r)
  /\ job' = [job EXCEPT ![Distiller(r)] = [Store(Pattern(r), r) EXCEPT !.at = "ask"]]
  /\ Update(r, [run[r] EXCEPT !.at = "over"])
  /\ UNCHANGED <<memory, ended, routing, disk, faults>>

KeepError(r) ==
  /\ run[r].at = "recording" /\ job[Hook(r)] = Resting /\ ~Succeeded(r)
  /\ job' = [job EXCEPT ![Hook(r)] = Store(Error(r), r)]
  /\ Update(r, [run[r] EXCEPT !.at = "over"])
  /\ UNCHANGED <<memory, ended, routing, disk, faults>>

\* The model answers with a pattern, or not.
Ask(r) ==
  /\ job[Distiller(r)].at = "ask"
  /\ \/ job' = [job EXCEPT ![Distiller(r)].at = "upsert"] /\ NoFault
     \/ job' = [job EXCEPT ![Distiller(r)] = Resting] /\ Fault
  /\ UNCHANGED <<memory, run, ended, routing, disk>>
-----------------------------------------------------------------------------
(* Knowledge sync                                                           *)

Kept(S) == {e \in S : file[e] # Nothing}

\* import_if_empty: a failed count is taken for an empty table.
ImportCount ==
  /\ sync.at = "count"
  /\ \/ /\ sync' = IF Learnt = {} THEN Syncing("import", Kept(Entries))
                   ELSE Syncing("export", {})
        /\ NoFault
     \/ Learnt # {} /\ sync' = Syncing("import", Kept(Entries)) /\ Fault
  /\ UNCHANGED <<memory, job, run, ended, routing, file>>

\* One file after the other, namespace by namespace.
ImportNext ==
  /\ sync.at = "import" /\ job[Importer] = Resting
  /\ \E e \in sync.todo :
       /\ \A f \in sync.todo : e[1] # "trajectories" \/ f[1] = "trajectories"
       /\ job' = [job EXCEPT ![Importer] = Store(e, file[e])]
       /\ sync' = [sync EXCEPT !.todo = @ \ {e}]
  /\ UNCHANGED <<memory, run, ended, routing, file, faults>>

ImportEnds ==
  /\ sync.at = "import" /\ sync.todo = {} /\ job[Importer] = Resting
  /\ sync' = Syncing("export", {})
  /\ UNCHANGED <<memory, job, run, ended, routing, file, faults>>

\* The files of the entries an export writes: one for each row, which stays
\* when the row goes, and the trajectories all in one, of which nothing stays.
Written(written, found) ==
  [e \in Entries |-> IF e \in written /\ e \in found THEN row[e]
                     ELSE IF e \in written /\ e[1] = "trajectories" THEN Nothing
                     ELSE file[e]]

\* export, namespace by namespace: a failed query is taken for no rows, a
\* failed write ends it after the first n.
Export ==
  /\ sync.at = "export"
  /\ \/ file' = Written(Entries, Learnt) /\ NoFault
     \/ \E n \in DOMAIN Namespaces :
          file' = Written(Entries, Learnt \ In(Namespaces[n])) /\ Fault
     \/ \E n \in DOMAIN Namespaces :
          file' = Written(UNION {In(Namespaces[k]) : k \in 1..(n - 1)}, Learnt) /\ Fault
  /\ UNCHANGED <<memory, job, run, ended, routing, sync>>
-----------------------------------------------------------------------------
(* The daemon dies and starts again: what was in flight is gone, a run that *)
(* was executing will be executed again, and the index is filled from the   *)
(* rows.  When filling fails the index exists and stays empty.              *)

Restarted(r) == CASE run[r].at = "waiting" -> run[r]
                  [] run[r].saved -> [run[r] EXCEPT !.at = "over"]
                  [] OTHER -> [NewRun EXCEPT !.round = 1]

Crash ==
  /\ Fault
  /\ run' = [r \in Runs |-> Restarted(r)]
  /\ job' = [w \in Writers |-> Resting] /\ evict' = {} /\ refused' = {}
  /\ indexed' \in BOOLEAN
  /\ index' \in {[e \in Entries |-> IF indexed' THEN row[e] ELSE Nothing], [e \in Entries |-> Nothing]}
  /\ sync' = Syncing("count", {})
  /\ UNCHANGED <<row, uses, stale, ended, routing, file>>

RunNext(r) ==
  \/ Plan(r) \/ Rerun(r) \/ Round(r) \/ RunErrs(r)
  \/ \E passed \in BOOLEAN : RunEnds(r, passed)
  \/ RoutingWrite(r) \/ Save(r) \/ Distil(r) \/ KeepError(r) \/ Ask(r)
SyncNext == ImportCount \/ ImportNext \/ ImportEnds \/ Export
StoreNext(w) == Upsert(w) \/ Mirror(w)

Next ==
  \/ \E r \in Runs : RunNext(r)
  \/ \E w \in Writers : StoreNext(w)
  \/ Idle \/ DecayRows \/ Evict
  \/ SyncNext
  \/ Crash

Spec == Init /\ [][Next]_vars
-----------------------------------------------------------------------------
Values == Learners \cup {Nothing}
Stats  == [attempts : Nat, successes : Nat]

\* The state has its type.
TypeOK ==
  /\ {row, index, file} \subseteq [Entries -> Values]
  /\ uses \in [Entries -> 0..DecayMinUse]
  /\ stale \subseteq Learnt /\ evict \cup refused \subseteq Entries /\ indexed \in BOOLEAN
  /\ job \in [Writers -> [at : {"idle", "ask", "upsert", "mirror"},
                          entry : Entries \cup {NoEntry}, by : Values]]
  /\ run \in [Runs -> [at : {"waiting", "running", "routed", "saving", "recording",
                            "over"},
                      round : 0..MaxRounds, steps : SUBSET (1..MaxRounds),
                      passed : BOOLEAN, saved : BOOLEAN, seen : Stats]]
  /\ routing \in Seq(Stats)
  /\ sync.at \in {"count", "import", "export"}
  /\ sync.todo \subseteq Entries
  /\ faults \in 0..MaxFaults

\* What a search offers is in the database, except between the deletion of decayed rows
\* and their eviction, and except for the very entries whose UPSERT was refused or whose
\* decay broke off since the index was filled: whatever stores, restarts and failed
\* inserts come between, nothing else that has decayed is found again (memory.rs store,
\* decay and rebuild_index).
IndexWithinRows ==
  \A e \in Entries : index[e] # Nothing => row[e] # Nothing \/ e \in evict \cup refused

\* Wherever knowledge is, and whoever copied it there, it was learnt from the
\* run it is about as that run ended: a pattern from one that passed, an error
\* from one that failed, no entry from one that has not ended (hooks.rs
\* on_run_complete, knowledge_sync.rs import and export).
LearntFromOutcome ==
  \A store \in {row, index, file}, e \in Entries :
     store[e] \in Runs =>
       CASE e[1] = "patterns" -> TRUE \in ended[store[e]].with
         [] e[1] = "errors"   -> FALSE \in ended[store[e]].with
         [] OTHER -> ended[store[e]].with # {}

\* The counters that choose the planner's tier never show more successes than
\* attempts, however the read-modify-writes of parallel runs interleave; the
\* success rate stays one (executor.rs record_routing, recommend_planner_tier).
RatesAreRates ==
  \A i \in DOMAIN routing : 0 < routing[i].attempts /\ routing[i].successes <= routing[i].attempts

\* A trajectory in the database stays there, and stays the run's own: it is
\* exempt from decay, and neither an import nor a restart replaces it
\* (memory.rs decay, knowledge_sync.rs import_if_empty).
TrajectoriesKept ==
  [][\A e \in In("trajectories") : row[e] # Nothing => row'[e] = row[e]]_vars
-----------------------------------------------------------------------------
(* What the code does not keep; the README lists them with the behaviours.  *)

\* The index is "kept in sync on store/delete" (rvindex.rs:6): when no store
\* call or decay is under way it holds what the database holds.
IndexInSync ==
  indexed /\ evict = {} /\ (\A w \in Writers : job[w].at # "mirror") /\ faults = 0
  => index = row

\* The index is an accelerator for rows that are "authoritative" (memory.rs:86-88): it
\* has nothing that they have not.
RowsAuthoritative == \A e \in Entries : index[e] # Nothing => row[e] # Nothing \/ e \in evict

\* on_run_start is "fired once after planning" (orchestrator hooks.rs:18), so
\* a trajectory tells every round of its run.
TrajectoryWhole == \A r \in Runs : ended[r].told = 1..ended[r].rounds

\* The import "never clobbers live learning" (knowledge_sync.rs).
ImportSpares == [][\A e \in Entries : row[e] \in Runs => row'[e] # Past]_vars
=============================================================================
