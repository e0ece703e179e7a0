--------------------------- MODULE KnowledgeProofs ---------------------------
(***************************************************************************)
(* Proofs about Knowledge, for any runs, shapes and snapshots and any       *)
(* number of rounds and faults: the search index holds nothing that the     *)
(* database has not, refused statements aside, and the routing counters are *)
(* those of a rate.                                                         *)
(***************************************************************************)
EXTENDS Knowledge, TLAPS

RunFields == {"at", "round", "steps", "passed", "saved", "seen"}
JobFields == {"at", "entry", "by"}
Rates == {s \in [attempts : Nat, successes : Nat] : 0 < s.attempts /\ s.successes <= s.attempts}

\* What the steps need to know of the variables' values.
Shape ==
  /\ DOMAIN row = Entries /\ DOMAIN index = Entries /\ DOMAIN file = Entries
  /\ DOMAIN job = Writers /\ DOMAIN run = Runs
  /\ \A w \in Writers : DOMAIN job[w] = JobFields
  /\ \A r \in Runs : DOMAIN run[r] = RunFields

\* A store call brings something to an entry.
Storing(w) == job[w].at # "idle" => job[w].entry \in Entries /\ job[w].by # Nothing

\* Between its two halves the row is there, and cannot decay: it was just written, or
\* refused.
Halfway(w) ==
  job[w].at = "mirror" =>
    (row[job[w].entry] # Nothing /\ job[w].entry \notin stale) \/ job[w].entry \in refused

\* An import stores what the files hold.
ImportsFiles == sync.at = "import" => sync.todo \subseteq Kept(Entries)

IndexInv ==
  /\ Shape /\ ImportsFiles /\ IndexWithinRows
  /\ \A w \in Writers : Storing(w) /\ Halfway(w)

\* Whatever a run read of the counters, and whatever became of them since, is a rate.
RatesInv ==
  /\ routing \in Seq(Rates)
  /\ \A r \in Runs : run[r].seen \in Rates \cup {NoStats}

IInv == IndexInv /\ RatesInv
-----------------------------------------------------------------------------
\* The constants: what runs store are entries, and something.
LEMMA Constants ==
  /\ \A r \in Runs : r # Nothing /\ {Trajectory(r), Error(r), Pattern(r)} \subseteq Entries
  /\ \A r \in Runs : Hook(r) \in Writers /\ Distiller(r) \in Writers
  /\ Importer \in Writers /\ Past # Nothing
  /\ DOMAIN Resting = JobFields /\ Resting.at = "idle"
  /\ \A e, v : /\ DOMAIN Store(e, v) = JobFields /\ Store(e, v).at = "upsert"
               /\ Store(e, v).entry = e /\ Store(e, v).by = v
<1>1. \A r \in Runs : r # Nothing /\ {Trajectory(r), Error(r), Pattern(r)} \subseteq Entries
  BY KnowledgeAssumption DEF Learners, Entries, Trajectory, Error, Pattern
<1>2. \A r \in Runs : Hook(r) \in Writers /\ Distiller(r) \in Writers
  BY DEF Hook, Distiller, Writers
<1>3. Importer \in Writers /\ Past # Nothing
  BY KnowledgeAssumption DEF Writers, Learners
<1>4. DOMAIN Resting = JobFields /\ Resting.at = "idle"
  BY DEF Resting, JobFields
<1>5. \A e, v : /\ DOMAIN Store(e, v) = JobFields /\ Store(e, v).at = "upsert"
                /\ Store(e, v).entry = e /\ Store(e, v).by = v
  BY DEF Store, JobFields
<1>6. QED
  BY <1>1, <1>2, <1>3, <1>4, <1>5

\* A step that gives one writer another job, and leaves the memory alone.
LEMMA JobStep ==
  ASSUME IndexInv, NEW w \in Writers, NEW j,
         job' = [job EXCEPT ![w] = j], DOMAIN j = JobFields, j.at # "mirror",
         j.at # "idle" => j.entry \in Entries /\ j.by # Nothing,
         UNCHANGED memory, DOMAIN file' = Entries, ImportsFiles',
         DOMAIN run' = Runs, \A r \in Runs : DOMAIN run'[r] = RunFields
  PROVE  IndexInv'
<1>1. job'[w] = j /\ \A v \in Writers \ {w} : job'[v] = job[v]
  BY DEF IndexInv, Shape
<1>2. row' = row /\ index' = index /\ stale' = stale /\ evict' = evict /\ refused' = refused
  BY DEF memory
<1>3. Shape'
  BY <1>1, <1>2 DEF IndexInv, Shape
<1>4. IndexWithinRows'
  BY <1>2 DEF IndexInv, IndexWithinRows
<1>5. ASSUME NEW v \in Writers PROVE Storing(v)' /\ Halfway(v)'
  BY <1>1, <1>2 DEF IndexInv, Storing, Halfway
<1>6. QED
  BY <1>3, <1>4, <1>5 DEF IndexInv

\* A step that moves runs or files, and leaves the memory and its writers alone.
LEMMA OtherStep ==
  ASSUME IndexInv, UNCHANGED <<row, index, evict, refused, job>>, stale' \subseteq stale,
         DOMAIN file' = Entries, ImportsFiles',
         DOMAIN run' = Runs, \A r \in Runs : DOMAIN run'[r] = RunFields
  PROVE  IndexInv'
BY DEF IndexInv, Shape, IndexWithinRows, Storing, Halfway
-----------------------------------------------------------------------------
(* The memory.                                                             *)

\* Storing: the row, and then the index.
LEMMA StoreInv ==
  ASSUME IndexInv, NEW w \in Writers, StoreNext(w)
  PROVE  IndexInv'
<1> DEFINE e == job[w].entry
<1>0. UNCHANGED <<run, sync, file, evict>>
  BY DEF StoreNext, Upsert, Mirror, disk
<1>1. ImportsFiles' /\ DOMAIN file' = Entries /\ DOMAIN run' = Runs
      /\ \A r \in Runs : DOMAIN run'[r] = RunFields
  BY <1>0 DEF IndexInv, Shape, ImportsFiles, Kept
<1>2. Storing(w) /\ Halfway(w)
  BY DEF IndexInv
<1>3. CASE job[w].at = "upsert" /\ row' = [row EXCEPT ![e] = job[w].by] /\ index' = index
           /\ stale' = stale \ {e} /\ job' = [job EXCEPT ![w].at = "mirror"]
           /\ refused' = refused \ {e}
  <2>1. e \in Entries /\ job[w].by # Nothing
    BY <1>2, <1>3 DEF Storing
  <2>2. /\ row'[e] = job[w].by /\ DOMAIN row' = Entries
        /\ \A f \in Entries \ {e} : row'[f] = row[f]
    BY <1>3, <2>1 DEF IndexInv, Shape
  <2>3. /\ job'[w].at = "mirror" /\ job'[w].entry = e /\ job'[w].by = job[w].by
        /\ DOMAIN job' = Writers /\ DOMAIN job'[w] = JobFields
        /\ \A v \in Writers \ {w} : job'[v] = job[v]
    BY <1>3 DEF IndexInv, Shape, JobFields
  <2>4. Shape'
    BY <1>1, <1>3, <2>2, <2>3 DEF IndexInv, Shape
  <2>5. IndexWithinRows'
    BY <1>0, <1>3, <2>1, <2>2 DEF IndexInv, IndexWithinRows
  <2>6. ASSUME NEW v \in Writers PROVE Storing(v)' /\ Halfway(v)'
    <3>1. CASE v = w
      BY <1>3, <2>1, <2>2, <2>3, <3>1 DEF Storing, Halfway
    <3>2. CASE v # w
      <4>1. Storing(v) /\ Halfway(v) /\ job'[v] = job[v]
        BY <2>3, <3>2 DEF IndexInv
      <4>2. QED
        BY <1>3, <2>1, <2>2, <4>1 DEF Storing, Halfway
    <3>3. QED
      BY <3>1, <3>2
  <2>7. QED
    BY <1>1, <2>4, <2>5, <2>6 DEF IndexInv
<1>4. CASE UNCHANGED memory /\ job' = [job EXCEPT ![w] = Resting]
  BY <1>1, <1>4, JobStep, Constants
<1>5. CASE Mirror(w)
  <2>1. e \in Entries /\ (row[e] # Nothing \/ e \in refused)
    BY <1>2, <1>5 DEF Mirror, Storing, Halfway
  <2>2. UNCHANGED <<row, stale, refused>> /\ job' = [job EXCEPT ![w] = Resting]
    BY <1>5 DEF Mirror
  <2>3. DOMAIN index' = Entries /\ \A f \in Entries \ {e} : index'[f] = index[f]
    BY <1>5 DEF Mirror, IndexInv, Shape
  <2>4. job'[w] = Resting /\ DOMAIN job' = Writers /\ \A v \in Writers \ {w} : job'[v] = job[v]
    BY <2>2 DEF IndexInv, Shape
  <2>5. Shape'
    BY <1>1, <2>2, <2>3, <2>4, Constants DEF IndexInv, Shape
  <2>6. IndexWithinRows'
    BY <1>0, <2>1, <2>2, <2>3 DEF IndexInv, IndexWithinRows
  <2>7. ASSUME NEW v \in Writers PROVE Storing(v)' /\ Halfway(v)'
    BY <2>2, <2>4, Constants DEF IndexInv, Storing, Halfway
  <2>8. QED
    BY <1>1, <2>5, <2>6, <2>7 DEF IndexInv
<1>6. CASE /\ UNCHANGED <<row, stale, index>> /\ refused' = refused \cup {e}
           /\ job[w].at = "upsert" /\ job' = [job EXCEPT ![w].at = "mirror"]
  <2>1. /\ job'[w].at = "mirror" /\ job'[w].entry = e /\ job'[w].by = job[w].by
        /\ DOMAIN job' = Writers /\ DOMAIN job'[w] = JobFields
        /\ \A v \in Writers \ {w} : job'[v] = job[v]
    BY <1>6 DEF IndexInv, Shape, JobFields
  <2>2. Shape'
    BY <1>1, <1>6, <2>1 DEF IndexInv, Shape
  <2>3. IndexWithinRows'
    BY <1>0, <1>6 DEF IndexInv, IndexWithinRows
  <2>4. ASSUME NEW v \in Writers PROVE Storing(v)' /\ Halfway(v)'
    BY <1>2, <1>6, <2>1 DEF IndexInv, Storing, Halfway
  <2>5. QED
    BY <1>1, <2>2, <2>3, <2>4 DEF IndexInv
<1>7. QED
  BY <1>3, <1>4, <1>5, <1>6 DEF StoreNext, Upsert, memory

\* Forgetting: decay takes no row that is being stored, and what it takes is marked
\* until it is evicted.
LEMMA DecayInv ==
  ASSUME IndexInv, Idle \/ DecayRows \/ Evict
  PROVE  IndexInv'
<1>0. UNCHANGED <<run, sync, file, job>>
  BY DEF Idle, DecayRows, Evict, disk
<1>1. ImportsFiles' /\ DOMAIN file' = Entries /\ DOMAIN run' = Runs
      /\ \A r \in Runs : DOMAIN run'[r] = RunFields
  BY <1>0 DEF IndexInv, Shape, ImportsFiles, Kept
<1>2. \A w \in Writers : Storing(w)'
  BY <1>0 DEF IndexInv, Storing
<1>3. CASE Idle
  <2>1. /\ row' = row /\ index' = index /\ evict' = evict /\ refused' = refused
        /\ \A w \in Writers : job[w].at # "mirror"
    BY <1>3 DEF Idle
  <2>2. Shape' /\ IndexWithinRows'
    BY <1>0, <1>1, <2>1 DEF IndexInv, Shape, IndexWithinRows
  <2>3. \A w \in Writers : Halfway(w)'
    BY <1>0, <2>1 DEF Halfway
  <2>4. QED
    BY <1>1, <1>2, <2>2, <2>3 DEF IndexInv
<1>4. CASE DecayRows
  <2>1. /\ row' = [f \in Entries |-> IF f \in Decayed THEN Nothing ELSE row[f]]
        /\ index' = index /\ stale' = stale \ Decayed /\ evict = {}
        /\ refused \subseteq refused' /\ Decayed \subseteq evict' \cup refused'
    BY <1>4 DEF DecayRows
  <2>2. Decayed \subseteq stale
    BY DEF Decayed
  <2> HIDE DEF Decayed
  <2>3. Shape' /\ IndexWithinRows'
    BY <1>0, <1>1, <2>1 DEF IndexInv, Shape, IndexWithinRows
  <2>4. \A w \in Writers : Halfway(w)'
    BY <1>0, <2>1, <2>2 DEF IndexInv, Storing, Halfway
  <2>5. QED
    BY <1>1, <1>2, <2>3, <2>4 DEF IndexInv
<1>5. CASE Evict
  <2>1. /\ row' = row /\ stale' = stale /\ evict' = {} /\ refused' = refused
        /\ index' = [f \in Entries |-> IF f \in evict THEN Nothing ELSE index[f]]
    BY <1>5 DEF Evict, Evicted
  <2>2. Shape' /\ IndexWithinRows'
    BY <1>0, <1>1, <2>1 DEF IndexInv, Shape, IndexWithinRows
  <2>3. \A w \in Writers : Halfway(w)'
    BY <1>0, <2>1 DEF IndexInv, Halfway
  <2>4. QED
    BY <1>1, <1>2, <2>2, <2>3 DEF IndexInv
<1>6. QED
  BY <1>3, <1>4, <1>5

-----------------------------------------------------------------------------
(* The runs and the files.                                                 *)

\* A step of a run starts stores of entries that are its own.
LEMMA RunInv ==
  ASSUME IndexInv, NEW r \in Runs, RunNext(r)
  PROVE  IndexInv'
<1>1. UNCHANGED disk
  BY DEF RunNext, Plan, Rerun, Round, RunErrs, RunEnds, RoutingWrite, Save, Distil, KeepError, Ask
<1>2. ImportsFiles' /\ DOMAIN file' = Entries
  BY <1>1 DEF disk, IndexInv, Shape, ImportsFiles, Kept
<1>3. DOMAIN run' = Runs /\ \A q \in Runs : DOMAIN run'[q] = RunFields
  <2>1. ASSUME NEW new, DOMAIN new = RunFields, Update(r, new)
        PROVE  DOMAIN run' = Runs /\ \A q \in Runs : DOMAIN run'[q] = RunFields
    BY <2>1 DEF Update, IndexInv, Shape
  <2>2. DOMAIN run[r] = RunFields /\ DOMAIN NewRun = RunFields
    BY DEF IndexInv, Shape, NewRun, RunFields
  <2>3. CASE Plan(r) \/ Distil(r) \/ KeepError(r)
    BY <2>1, <2>2, <2>3 DEF Plan, Distil, KeepError
  <2>4. CASE Rerun(r) \/ Round(r) \/ RunErrs(r)
    BY <2>1, <2>2, <2>4 DEF Rerun, Round, RunErrs
  <2>5. ASSUME NEW passed \in BOOLEAN, RunEnds(r, passed)
        PROVE  DOMAIN run' = Runs /\ \A q \in Runs : DOMAIN run'[q] = RunFields
    BY <2>1, <2>2, <2>5 DEF RunEnds
  <2>6. CASE RoutingWrite(r) \/ Save(r)
    BY <2>1, <2>2, <2>6 DEF RoutingWrite, Save
  <2>7. CASE Ask(r)
    BY <2>7 DEF Ask, IndexInv, Shape
  <2>8. QED
    BY <2>3, <2>4, <2>5, <2>6, <2>7 DEF RunNext
<1>4. CASE UNCHANGED <<row, index, evict, refused, job>> /\ stale' \subseteq stale
  BY <1>2, <1>3, <1>4, OtherStep
<1>5. ASSUME NEW w \in Writers, NEW e \in Entries, UNCHANGED memory,
             job' = [job EXCEPT ![w] = Store(e, r)]
      PROVE  IndexInv'
  <2> DEFINE j == Store(e, r)
  <2>1. DOMAIN j = JobFields /\ j.at = "upsert" /\ j.entry = e /\ j.by = r /\ r # Nothing
    BY Constants
  <2>2. job' = [job EXCEPT ![w] = j]
    BY <1>5
  <2> HIDE DEF j
  <2>3. QED
    BY <1>2, <1>3, <1>5, <2>1, <2>2, JobStep
<1>6. CASE Plan(r)
  BY <1>4, <1>6 DEF Plan
<1>7. CASE Rerun(r) \/ Round(r) \/ RunErrs(r) \/ RoutingWrite(r)
  BY <1>4, <1>7 DEF Rerun, Round, RunErrs, RoutingWrite, memory
<1>8. ASSUME NEW passed \in BOOLEAN, RunEnds(r, passed) PROVE IndexInv'
  BY <1>4, <1>8 DEF RunEnds, memory
<1>9. CASE Save(r)
  BY <1>5, <1>9, Constants DEF Save
<1>10. CASE KeepError(r)
  BY <1>5, <1>10, Constants DEF KeepError
<1>11. CASE Distil(r)
  <2> DEFINE j == [Store(Pattern(r), r) EXCEPT !.at = "ask"]
  <2>1. DOMAIN j = JobFields /\ j.at = "ask" /\ j.entry = Pattern(r) /\ j.by = r
    BY Constants DEF JobFields
  <2>2. job' = [job EXCEPT ![Distiller(r)] = j] /\ UNCHANGED memory
    BY <1>11 DEF Distil
  <2> HIDE DEF j
  <2>3. QED
    BY <1>2, <1>3, <2>1, <2>2, JobStep, Constants
<1>12. CASE Ask(r)
  <2> DEFINE w == Distiller(r)
             j == [job[w] EXCEPT !.at = "upsert"]
  <2>1. UNCHANGED memory /\ w \in Writers /\ job[w].at = "ask"
    BY <1>12, Constants DEF Ask
  <2>2. /\ DOMAIN j = JobFields /\ j.at = "upsert"
        /\ j.entry = job[w].entry /\ j.by = job[w].by
    BY <2>1 DEF IndexInv, Shape, JobFields
  <2>3. job[w].entry \in Entries /\ job[w].by # Nothing
    BY <2>1 DEF IndexInv, Storing
  <2>4. job' = [job EXCEPT ![w] = j] \/ job' = [job EXCEPT ![w] = Resting]
    BY <1>12 DEF Ask
  <2> HIDE DEF j, w
  <2>5. QED
    BY <1>2, <1>3, <2>1, <2>2, <2>3, <2>4, JobStep, Constants
<1>13. QED
  BY <1>6, <1>7, <1>8, <1>9, <1>10, <1>11, <1>12 DEF RunNext

\* The import reads files that are there; the export writes when no import is on.
LEMMA SyncInv ==
  ASSUME IndexInv, SyncNext
  PROVE  IndexInv'
<1>1. UNCHANGED <<memory, run>>
  BY DEF SyncNext, ImportCount, ImportNext, ImportEnds, Export
<1>2. DOMAIN run' = Runs /\ \A r \in Runs : DOMAIN run'[r] = RunFields
  BY <1>1 DEF IndexInv, Shape
<1>3. DOMAIN file' = Entries
  BY DEF SyncNext, ImportCount, ImportNext, ImportEnds, Export, Written, IndexInv, Shape
<1>4. CASE ImportCount \/ ImportEnds
  <2>1. job' = job /\ file' = file
    BY <1>4 DEF ImportCount, ImportEnds
  <2>2. sync' \in {Syncing("import", Kept(Entries)), Syncing("export", {})}
    BY <1>4 DEF ImportCount, ImportEnds
  <2>3. ImportsFiles'
    BY <2>1, <2>2 DEF ImportsFiles, Syncing, Kept
  <2>4. QED
    BY <1>1, <1>2, <1>3, <2>1, <2>3, OtherStep DEF memory
<1>5. CASE ImportNext
  <2>1. PICK e \in sync.todo :
          /\ job' = [job EXCEPT ![Importer] = Store(e, file[e])]
          /\ sync' = [sync EXCEPT !.todo = @ \ {e}]
    BY <1>5 DEF ImportNext
  <2>2. sync.at = "import" /\ file' = file
    BY <1>5 DEF ImportNext
  <2>3. sync.todo \subseteq Kept(Entries)
    BY <2>2 DEF IndexInv, ImportsFiles
  <2>4. e \in Entries /\ file[e] # Nothing
    BY <2>3 DEF Kept
  <2>5. ImportsFiles'
    BY <2>1, <2>2, <2>3 DEF ImportsFiles, Kept
  <2> DEFINE j == Store(e, file[e])
  <2>6. DOMAIN j = JobFields /\ j.at = "upsert" /\ j.entry = e /\ j.by = file[e]
    BY Constants
  <2>7. job' = [job EXCEPT ![Importer] = j] /\ Importer \in Writers
    BY <2>1, Constants
  <2> HIDE DEF j
  <2>8. QED
    BY <1>1, <1>2, <1>3, <2>4, <2>5, <2>6, <2>7, JobStep
<1>6. CASE Export
  <2>1. job' = job /\ sync' = sync /\ sync.at = "export"
    BY <1>6 DEF Export
  <2>2. ImportsFiles'
    BY <2>1 DEF ImportsFiles
  <2>3. QED
    BY <1>1, <1>2, <1>3, <2>1, <2>2, OtherStep DEF memory
<1>7. QED
  BY <1>4, <1>5, <1>6 DEF SyncNext

\* A restart drops what is under way and fills the index from the rows, or not.
LEMMA CrashInv == IndexInv /\ Crash => IndexInv'
<1> SUFFICES ASSUME IndexInv, Crash PROVE IndexInv'
  OBVIOUS
<1>1. /\ row' = row /\ file' = file /\ sync' = Syncing("count", {})
      /\ job' = [w \in Writers |-> Resting]
      /\ run' = [r \in Runs |-> Restarted(r)]
  BY DEF Crash
<1>2. DOMAIN index' = Entries /\ \A e \in Entries : index'[e] \in {row[e], Nothing}
  BY DEF Crash
<1>3. ASSUME NEW r \in Runs PROVE DOMAIN run'[r] = RunFields
  BY <1>1 DEF Restarted, NewRun, RunFields, IndexInv, Shape
<1>4. Shape'
  BY <1>1, <1>2, <1>3, Constants DEF IndexInv, Shape
<1>5. IndexWithinRows' /\ ImportsFiles'
  BY <1>1, <1>2 DEF IndexWithinRows, ImportsFiles, Syncing
<1>6. \A w \in Writers : Storing(w)' /\ Halfway(w)'
  BY <1>1, Constants DEF Storing, Halfway
<1>7. QED
  BY <1>4, <1>5, <1>6 DEF IndexInv
-----------------------------------------------------------------------------
(* The counters.                                                           *)

\* Counting the end of a run on counters that are a rate, or none, gives a rate.
LEMMA CountedRate ==
  ASSUME NEW seen \in Rates \cup {NoStats}, NEW passed
  PROVE  Counted(seen, passed) \in Rates
<1>1. /\ seen.attempts \in Nat /\ seen.successes \in Nat
      /\ seen.successes <= seen.attempts
  BY DEF Rates, NoStats
<1>2. QED
  BY <1>1 DEF Counted, Rates

\* What the runs read and write, in whatever order.
LEMMA RoutingInv ==
  ASSUME IndexInv, RatesInv, [Next]_vars
  PROVE  RatesInv'
<1> DEFINE Seen == \A q \in Runs : run'[q].seen \in Rates \cup {NoStats}
<1>1. ASSUME NEW r \in Runs, NEW new, DOMAIN new = RunFields,
             new.seen \in Rates \cup {NoStats}, Update(r, new)
      PROVE  Seen
  BY <1>1 DEF Update, RatesInv, IndexInv, Shape
<1>2. /\ \A r \in Runs : DOMAIN run[r] = RunFields /\ run[r].seen \in Rates \cup {NoStats}
      /\ DOMAIN NewRun = RunFields /\ NewRun.seen = NoStats
  BY DEF IndexInv, Shape, RatesInv, NewRun, RunFields
<1>3. ASSUME NEW r \in Runs, Plan(r) \/ Distil(r) \/ KeepError(r) \/ Rerun(r) \/ Round(r)
                             \/ RunErrs(r) \/ Save(r)
      PROVE  RatesInv'
  <2>1. routing' = routing
    BY <1>3 DEF Plan, Distil, KeepError, Rerun, Round, RunErrs, Save
  <2>2. PICK new : Update(r, new) /\ DOMAIN new = RunFields /\ new.seen \in {run[r].seen, NoStats}
    <3>1. CASE Plan(r) \/ Distil(r) \/ KeepError(r)
      BY <1>2, <3>1 DEF Plan, Distil, KeepError, RunFields
    <3>2. CASE Rerun(r)
      BY <1>2, <3>2 DEF Rerun, RunFields
    <3>3. CASE Round(r)
      <4> DEFINE new == [run[r] EXCEPT !.round = @ + 1, !.steps = {run[r].round + 1}]
      <4>1. Update(r, new)
        BY <3>3 DEF Round
      <4>2. DOMAIN new = RunFields /\ new.seen = run[r].seen
        BY <1>2 DEF RunFields
      <4> HIDE DEF new
      <4>3. QED
        BY <4>1, <4>2
    <3>4. CASE RunErrs(r)
      <4> DEFINE new == [run[r] EXCEPT !.at = "over", !.saved = TRUE]
      <4>1. Update(r, new)
        BY <3>4 DEF RunErrs
      <4>2. DOMAIN new = RunFields /\ new.seen = run[r].seen
        BY <1>2 DEF RunFields
      <4> HIDE DEF new
      <4>3. QED
        BY <4>1, <4>2
    <3>5. CASE Save(r)
      <4> DEFINE saved == [run[r] EXCEPT !.at = "recording", !.saved = TRUE]
                 lost  == [run[r] EXCEPT !.at = "recording"]
      <4>1. Update(r, saved) \/ Update(r, lost)
        BY <3>5 DEF Save
      <4>2. /\ DOMAIN saved = RunFields /\ saved.seen = run[r].seen
            /\ DOMAIN lost = RunFields /\ lost.seen = run[r].seen
        BY <1>2 DEF RunFields
      <4> HIDE DEF saved, lost
      <4>3. QED
        BY <4>1, <4>2
    <3>6. QED
      BY <1>3, <3>1, <3>2, <3>3, <3>4, <3>5
  <2>3. QED
    BY <1>1, <1>2, <2>1, <2>2 DEF RatesInv
<1>4. ASSUME NEW r \in Runs, NEW passed \in BOOLEAN, RunEnds(r, passed) PROVE RatesInv'
  <2>1. routing' = routing
    BY <1>4 DEF RunEnds
  <2>2. routing # << >> => Head(routing) \in Rates
    BY DEF RatesInv
  <2>3. PICK seen \in {NoStats, IF routing = << >> THEN NoStats ELSE Head(routing)} :
          Update(r, [run[r] EXCEPT !.at = "routed", !.passed = passed, !.seen = seen])
    BY <1>4 DEF RunEnds
  <2> DEFINE new == [run[r] EXCEPT !.at = "routed", !.passed = passed, !.seen = seen]
  <2>4. DOMAIN new = RunFields /\ new.seen = seen
    BY <1>2 DEF RunFields
  <2>5. seen \in Rates \cup {NoStats}
    BY <2>2, <2>3
  <2> HIDE DEF new
  <2>6. QED
    BY <1>1, <2>1, <2>3, <2>4, <2>5 DEF RatesInv, new
<1>5. ASSUME NEW r \in Runs, RoutingWrite(r) PROVE RatesInv'
  <2> DEFINE new == [run[r] EXCEPT !.at = "saving", !.seen = NoStats]
             c == Counted(run[r].seen, run[r].passed)
  <2>1. c \in Rates
    BY <1>2, CountedRate
  <2>2. DOMAIN new = RunFields /\ new.seen = NoStats /\ Update(r, new)
    BY <1>2, <1>5 DEF RoutingWrite, RunFields
  <2>3. \/ routing' = routing \/ routing' = Append(routing, c)
        \/ routing' = [routing EXCEPT ![1] = c]
    BY <1>5 DEF RoutingWrite
  <2> HIDE DEF new, c
  <2>4. routing' \in Seq(Rates)
    BY <2>1, <2>3 DEF RatesInv
  <2>5. QED
    BY <1>1, <2>2, <2>4 DEF RatesInv
<1>6. CASE Crash
  <2>1. routing' = routing /\ run' = [r \in Runs |-> Restarted(r)]
    BY <1>6 DEF Crash
  <2>2. \A r \in Runs : Restarted(r).seen \in {run[r].seen, NoStats}
    BY <1>2 DEF Restarted, RunFields, NewRun
  <2>3. QED
    BY <1>2, <2>1, <2>2 DEF RatesInv
<1>7. CASE UNCHANGED <<run, routing>>
  BY <1>7 DEF RatesInv
<1>8. ASSUME NEW w \in Writers, StoreNext(w) PROVE UNCHANGED <<run, routing>>
  BY <1>8 DEF StoreNext, Upsert, Mirror
<1>9. CASE Idle \/ DecayRows \/ Evict
  BY <1>7, <1>9 DEF Idle, DecayRows, Evict
<1>10. CASE SyncNext
  BY <1>7, <1>10 DEF SyncNext, ImportCount, ImportNext, ImportEnds, Export
<1>11. ASSUME NEW r \in Runs, Ask(r) PROVE RatesInv'
  BY <1>7, <1>11 DEF Ask
<1>12. CASE UNCHANGED vars
  BY <1>7, <1>12 DEF vars
<1>13. QED
  BY <1>3, <1>4, <1>5, <1>6, <1>7, <1>8, <1>9, <1>10, <1>11, <1>12 DEF Next, RunNext
-----------------------------------------------------------------------------
\* Nothing is stored at first.
LEMMA InitInv == Init => IInv
<1> SUFFICES ASSUME Init PROVE IInv
  OBVIOUS
<1>1. Shape
  BY Constants DEF Init, Shape, NewRun, RunFields
<1>2. ImportsFiles /\ IndexWithinRows
  BY DEF Init, ImportsFiles, Syncing, IndexWithinRows
<1>3. \A w \in Writers : Storing(w) /\ Halfway(w)
  BY Constants DEF Init, Storing, Halfway
<1>4. RatesInv
  BY DEF Init, RatesInv, NewRun
<1>5. QED
  BY <1>1, <1>2, <1>3, <1>4 DEF IInv, IndexInv

\* Every step.
LEMMA NextInv == IInv /\ [Next]_vars => IInv'
<1> SUFFICES ASSUME IInv, [Next]_vars PROVE IInv'
  OBVIOUS
<1>1. RatesInv'
  BY RoutingInv DEF IInv
<1>2. CASE UNCHANGED vars
  <2>1. IndexInv'
    BY <1>2 DEF vars, memory, disk, IInv, IndexInv, Shape, ImportsFiles, Kept, IndexWithinRows, Storing,
               Halfway
  <2>2. QED
    BY <1>1, <2>1 DEF IInv
<1>3. CASE Next
  <2>1. IndexInv'
    BY <1>3, StoreInv, DecayInv, RunInv, SyncInv, CrashInv DEF Next, IInv
  <2>2. QED
    BY <1>1, <2>1 DEF IInv
<1>4. QED
  BY <1>2, <1>3

\* The inductive invariant, for any runs, goal shapes, snapshots, rounds and faults.
THEOREM Invariance == Spec => []IInv
BY InitInv, NextInv, PTL DEF Spec

\* What has decayed is not found again, whatever stores, restarts and failed inserts
\* come between, unless a statement about that very entry was refused since the index was
\* filled (memory.rs, store, decay and rebuild_index).
THEOREM IndexNeverBringsBack == Spec => []IndexWithinRows
<1>1. IInv => IndexWithinRows
  BY DEF IInv, IndexInv
<1>2. QED
  BY <1>1, Invariance, PTL

\* The planner's tier is chosen by success rates that are rates, however many runs
\* read and write the counters beside each other (executor.rs, record_routing).
THEOREM RatesStayRates == Spec => []RatesAreRates
<1>1. IInv => RatesAreRates
  BY DEF IInv, RatesInv, RatesAreRates, Rates
<1>2. QED
  BY <1>1, Invariance, PTL
=============================================================================
