--------------------------- MODULE SwarmRunnerProofs ---------------------------
(***************************************************************************)
(* Proofs about PlanValidation and SwarmRunner, for any number of tasks,    *)
(* files, agents, panics and requests and for every set of answers in which *)
(* no answer gives two tasks one id (DistinctAnswers: the planner is told   *)
(* so, the code does not check it): what survives the validation of a plan, *)
(* that its waves execute it as DagExecution says, and which edits a run    *)
(* reports.                                                                 *)
(***************************************************************************)
EXTENDS SwarmRunner, FiniteSetTheorems, SequenceTheorems, WellFoundedInduction, TLAPS

-----------------------------------------------------------------------------
(* Numbers and places.                                                     *)

Less == {p \in Nat \X Nat : p[1] < p[2]}

\* The order of the naturals is well-founded.
LEMMA LessWellFounded == IsWellFoundedOn(Less, Nat)
<1>1. Less = OpToRel(<, Nat)
  BY Zenon DEF Less, OpToRel
<1>2. QED
  BY <1>1, NatLessThanWellFounded, Zenon

\* A nonempty set of naturals has a least one.
LEMMA LeastExists ==
  ASSUME NEW S, S \subseteq Nat, S # {}
  PROVE  \E m \in S : \A k \in S : m <= k
<1>1. PICK m \in S : \A k \in S : <<k, m>> \notin Less
  BY LessWellFounded, WFMin, Zenon
<1>2. ASSUME NEW k \in S PROVE m <= k
  <2>1. k \in Nat /\ m \in Nat
    OBVIOUS
  <2>2. ~(k < m)
    BY <1>1, <2>1 DEF Less
  <2>3. QED
    BY <2>1, <2>2
<1>3. QED
  BY <1>2

\* A nonempty set of places has a last one.
LEMMA LastExists ==
  ASSUME NEW B \in Nat, NEW S, S \subseteq 1 .. B, S # {}
  PROVE  \E m \in S : \A k \in S : k <= m
<1> DEFINE T == {n \in Nat : \E k \in S : n = B - k}
<1>1. \A k \in S : k \in Nat /\ B - k \in T
  OBVIOUS
<1>2. T \subseteq Nat /\ T # {}
  BY <1>1
<1>3. PICK x \in T : \A y \in T : x <= y
  <2> HIDE DEF T
  <2>1. QED
    BY <1>2, LeastExists
<1>4. PICK m \in S : x = B - m
  OBVIOUS
<1>5. ASSUME NEW k \in S PROVE k <= m
  <2>1. B - k \in T
    BY <1>1
  <2> HIDE DEF T
  <2>2. B - m <= B - k
    BY <1>3, <1>4, <2>1
  <2>3. QED
    BY <1>1, <2>2
<1>6. QED
  BY <1>5

\* Max and Min of a nonempty set of places.
LEMMA MaxIsLast ==
  ASSUME NEW B \in Nat, NEW S, S \subseteq 1 .. B, S # {}
  PROVE  Max(S) \in S /\ \A k \in S : k <= Max(S)
<1>1. \E m \in S : \A k \in S : m >= k
  BY LastExists
<1>2. QED
  BY <1>1 DEF Max

Before(S, i) == {j \in S : j < i}

\* The places before one, counted.
LEMMA CountBefore ==
  ASSUME NEW B \in Nat, NEW S, S \subseteq 1 .. B, NEW i \in Nat
  PROVE  /\ IsFiniteSet(S) /\ Cardinality(S) \in Nat /\ Cardinality(Before(S, i)) \in Nat
         /\ Cardinality(Before(S, i + 1)) =
              IF i \in S THEN Cardinality(Before(S, i)) + 1 ELSE Cardinality(Before(S, i))
<1>1. IsFiniteSet(1 .. B)
  BY FS_Interval
<1>2. IsFiniteSet(S) /\ Before(S, i) \in SUBSET S
  BY <1>1, FS_Subset DEF Before
<1>3. IsFiniteSet(Before(S, i))
  BY <1>2, FS_Subset
<1>4. /\ Cardinality(S) \in Nat /\ Cardinality(Before(S, i)) \in Nat
  BY <1>2, <1>3, FS_CardinalityType
<1>5. i \notin Before(S, i)
  BY DEF Before
<1>6. Before(S, i + 1) = IF i \in S THEN Before(S, i) \cup {i} ELSE Before(S, i)
  <2>1. \A j \in S : j < i + 1 <=> (j < i \/ j = i)
    OBVIOUS
  <2>2. Before(S, i + 1) = {j \in S : j < i \/ j = i}
    BY <2>1, Zenon DEF Before
  <2>3. QED
    BY <2>2, Zenon DEF Before
<1>7. Cardinality(Before(S, i) \cup {i}) = Cardinality(Before(S, i)) + 1
  BY <1>3, <1>5, FS_AddElement
<1>8. QED
  BY <1>2, <1>4, <1>6, <1>7

\* Every number up to the size of a set of places is the number of one of them.
LEMMA NthExists ==
  ASSUME NEW B \in Nat, NEW S, S \subseteq 1 .. B, NEW n \in 1 .. Cardinality(S)
  PROVE  \E i \in S : Cardinality(Before(S, i)) = n - 1
<1> DEFINE T == {i \in Nat : Cardinality(Before(S, i)) >= n}
<1>1. B + 1 \in T
  <2>1. Before(S, B + 1) = S
    <3>1. \A j \in S : j < B + 1
      OBVIOUS
    <3>2. QED
      BY <3>1, Zenon DEF Before
  <2>2. QED
    BY <2>1, CountBefore
<1>2. PICK i \in T : \A k \in T : i <= k
  <2>1. T \subseteq Nat /\ T # {}
    BY <1>1
  <2> HIDE DEF T
  <2>2. QED
    BY <2>1, LeastExists
<1>3. Cardinality(Before(S, 0)) = 0
  <2>1. Before(S, 0) = {}
    <3>1. \A j \in S : ~(j < 0)
      OBVIOUS
    <3>2. QED
      BY <3>1, Zenon DEF Before
  <2>2. QED
    BY <2>1, FS_EmptySet
<1>4. Cardinality(S) \in Nat /\ n \in Nat /\ n >= 1
  <2>1. Cardinality(S) \in Nat
    BY <1>1, CountBefore
  <2>2. QED
    BY <2>1
<1>5. i # 0
  BY <1>3, <1>4
<1>6. i - 1 \in Nat /\ i - 1 \notin T
  BY <1>2, <1>5
<1>7. /\ Cardinality(Before(S, i - 1)) \in Nat
      /\ Cardinality(Before(S, (i - 1) + 1)) =
           IF i - 1 \in S THEN Cardinality(Before(S, i - 1)) + 1
           ELSE Cardinality(Before(S, i - 1))
  BY <1>6, CountBefore
<1>8. (i - 1) + 1 = i
  BY <1>6
<1>9. Cardinality(Before(S, i)) >= n /\ ~(Cardinality(Before(S, i - 1)) >= n)
  BY <1>6
<1>10. i - 1 \in S /\ Cardinality(Before(S, i - 1)) = n - 1
  BY <1>4, <1>7, <1>8, <1>9
<1>11. QED
  BY <1>10

\* Nth finds it.
LEMMA NthIn ==
  ASSUME NEW B \in Nat, NEW S, S \subseteq 1 .. B, NEW n \in 1 .. Cardinality(S)
  PROVE  Nth(S, n) \in S /\ Cardinality(Before(S, Nth(S, n))) = n - 1
<1>1. \E i \in S : Cardinality(Before(S, i)) = n - 1
  BY NthExists
<1>2. QED
  BY <1>1, Zenon DEF Nth, Before

\* The last of them is the last one.
LEMMA NthLast ==
  ASSUME NEW B \in Nat, NEW S, S \subseteq 1 .. B, S # {}
  PROVE  /\ Cardinality(S) \in Nat /\ Cardinality(S) >= 1
         /\ Nth(S, Cardinality(S)) \in S
         /\ \A k \in S : k <= Nth(S, Cardinality(S))
<1>1. IsFiniteSet(S) /\ Cardinality(S) \in Nat
  BY CountBefore
<1>2. Cardinality(S) # 0
  BY <1>1, FS_EmptySet
<1> DEFINE l == Nth(S, Cardinality(S))
<1>3. l \in S /\ Cardinality(Before(S, l)) = Cardinality(S) - 1
  <2>1. Cardinality(S) \in 1 .. Cardinality(S)
    BY <1>1, <1>2
  <2>2. QED
    BY <2>1, NthIn
<1> HIDE DEF l
<1>4. ASSUME NEW k \in S, ~(k <= l) PROVE FALSE
  <2>1. Before(S, l) \in SUBSET (S \ {k}) /\ l \in S \ {k} /\ l \notin Before(S, l)
    BY <1>3, <1>4 DEF Before
  <2>2. /\ IsFiniteSet(S \ {k}) /\ Cardinality(S \ {k}) = Cardinality(S) - 1
    BY <1>1, <1>4, FS_RemoveElement
  <2>3. S \ {k} = Before(S, l)
    BY <1>3, <2>1, <2>2, FS_Subset
  <2>4. QED
    BY <2>1, <2>3
<1>5. QED
  BY <1>1, <1>2, <1>3, <1>4 DEF l

\* What a filter keeps: elements of the sequence, from places of the set, each place once.
LEMMA KeptFrom ==
  ASSUME NEW B \in Nat, NEW S, S \subseteq 1 .. B, NEW s
  PROVE  /\ Cardinality(S) \in Nat /\ DOMAIN Kept(s, S) = 1 .. Cardinality(S)
         /\ \A n \in DOMAIN Kept(s, S) : Nth(S, n) \in S /\ Kept(s, S)[n] = s[Nth(S, n)]
         /\ \A m, n \in DOMAIN Kept(s, S) : Nth(S, m) = Nth(S, n) => m = n
<1>1. Cardinality(S) \in Nat
  BY CountBefore
<1>2. \A n \in 1 .. Cardinality(S) :
        Nth(S, n) \in S /\ Cardinality(Before(S, Nth(S, n))) = n - 1
  BY NthIn
<1>3. \A m, n \in 1 .. Cardinality(S) : Nth(S, m) = Nth(S, n) => m = n
  BY <1>1, <1>2
<1>4. QED
  BY <1>1, <1>2, <1>3 DEF Kept

\* No more than n places have fewer than n of the set before them.
LEMMA FirstFew ==
  ASSUME NEW B \in Nat, NEW S, S \subseteq 1 .. B, NEW n \in Nat \ {0},
         NEW W, W = {i \in S : Cardinality({j \in S : j < i}) < n}
  PROVE  IsFiniteSet(W) /\ Cardinality(W) \in Nat /\ Cardinality(W) <= n
<1>1. W \subseteq 1 .. B /\ W \subseteq S
  OBVIOUS
<1>2. \A i \in W : Cardinality(Before(S, i)) < n
  BY DEF Before
<1>3. IsFiniteSet(W) /\ Cardinality(W) \in Nat
  BY <1>1, CountBefore, 0 \in Nat
<1>4. CASE W = {}
  <2>1. Cardinality(W) = 0
    BY <1>4, FS_EmptySet
  <2>2. QED
    BY <1>3, <2>1
<1>5. CASE W # {}
  <2>1. PICK m \in W : \A k \in W : k <= m
    BY <1>1, <1>5, LastExists
  <2>2. IsFiniteSet(W \ {m}) /\ Cardinality(W \ {m}) = Cardinality(W) - 1
    BY <1>3, FS_RemoveElement
  <2>3. \A k \in W \ {m} : k < m
    BY <1>1, <2>1
  <2>4. W \ {m} \in SUBSET Before(S, m)
    BY <1>1, <2>3, Zenon DEF Before
  <2>5. m \in Nat /\ Before(S, m) \in SUBSET S
    BY <1>1 DEF Before
  <2>6. IsFiniteSet(Before(S, m)) /\ Cardinality(Before(S, m)) \in Nat
    BY <2>5, CountBefore, FS_Subset
  <2>7. Cardinality(W \ {m}) <= Cardinality(Before(S, m))
    BY <2>4, <2>6, FS_Subset
  <2>8. Cardinality(Before(S, m)) < n
    BY <1>2
  <2>9. QED
    BY <1>3, <2>2, <2>6, <2>7, <2>8
<1>6. QED
  BY <1>4, <1>5

-----------------------------------------------------------------------------
(* What survives the validation of a plan.                                 *)

\* A plan whose tasks have distinct ids and depend on ids.
Named(p) ==
  /\ \E n \in Nat : DOMAIN p = 1 .. n
  /\ \A i \in DOMAIN p :
       /\ {"id", "files", "depends_on", "template"} \subseteq DOMAIN p[i]
       /\ p[i].id \in TaskIds /\ p[i].depends_on \in Seq(TaskIds)
  /\ \A i, j \in DOMAIN p : p[i].id = p[j].id => i = j

\* Every task of q is one of p's, but for its files.
Keeps(q, p) == \A n \in DOMAIN q : \E i \in DOMAIN p :
                 q[n].id = p[i].id /\ q[n].depends_on = p[i].depends_on

\* Neither dropping tasks nor changing their files makes a cycle.
LEMMA NoNewCycle ==
  ASSUME NEW p, NEW q, Keeps(q, p), DetectCycle(q)
  PROVE  DetectCycle(p)
<1>1. PICK S \in (SUBSET IdsOf(q)) \ {{}} :
        \A id \in S : \E n \in DOMAIN q :
          q[n].id = id /\ ToSet(q[n].depends_on) \cap S # {}
  BY DEF DetectCycle
<1>2. IdsOf(q) \subseteq IdsOf(p)
  BY DEF IdsOf, Keeps
<1>3. ASSUME NEW id \in S
      PROVE  \E i \in DOMAIN p : p[i].id = id /\ ToSet(p[i].depends_on) \cap S # {}
  <2>1. PICK n \in DOMAIN q : q[n].id = id /\ ToSet(q[n].depends_on) \cap S # {}
    BY <1>1
  <2>2. PICK i \in DOMAIN p : q[n].id = p[i].id /\ q[n].depends_on = p[i].depends_on
    BY <2>1 DEF Keeps
  <2>3. QED
    BY <2>1, <2>2
<1>4. S \in (SUBSET IdsOf(p)) \ {{}}
  BY <1>1, <1>2
<1>5. QED
  BY <1>3, <1>4 DEF DetectCycle

\* The tasks with other files.
LEMMA Repathed ==
  ASSUME NEW p, Named(p),
         NEW G, NEW q, q = [i \in DOMAIN p |-> [p[i] EXCEPT !.files = G[i]]]
  PROVE  Named(q) /\ Keeps(q, p)
<1>1. DOMAIN q = DOMAIN p
  OBVIOUS
<1>2. ASSUME NEW i \in DOMAIN p
      PROVE  DOMAIN q[i] = DOMAIN p[i] /\ q[i].id = p[i].id /\ q[i].depends_on = p[i].depends_on
  <2>1. q[i] = [p[i] EXCEPT !.files = G[i]]
    OBVIOUS
  <2>2. {"id", "depends_on"} \subseteq DOMAIN p[i]
    BY DEF Named
  <2>3. QED
    BY <2>1, <2>2
<1>3. Keeps(q, p)
  BY <1>1, <1>2 DEF Keeps
<1>4. Named(q)
  BY <1>1, <1>2 DEF Named
<1>5. QED
  BY <1>3, <1>4

\* Some of the tasks.
LEMMA KeptNamed ==
  ASSUME NEW p, Named(p), NEW S, S \subseteq DOMAIN p
  PROVE  Named(Kept(p, S)) /\ Keeps(Kept(p, S), p)
<1>1. PICK B \in Nat : DOMAIN p = 1 .. B
  BY DEF Named
<1>2. /\ Cardinality(S) \in Nat /\ DOMAIN Kept(p, S) = 1 .. Cardinality(S)
      /\ \A n \in DOMAIN Kept(p, S) : Nth(S, n) \in S /\ Kept(p, S)[n] = p[Nth(S, n)]
      /\ \A m, n \in DOMAIN Kept(p, S) : Nth(S, m) = Nth(S, n) => m = n
  BY <1>1, KeptFrom
<1> DEFINE q == Kept(p, S)
<1>3. \A n \in DOMAIN q : Nth(S, n) \in DOMAIN p /\ q[n] = p[Nth(S, n)]
  BY <1>2
<1>4. \A m, n \in DOMAIN q : Nth(S, m) = Nth(S, n) => m = n
  BY <1>2
<1>5. \E n \in Nat : DOMAIN q = 1 .. n
  BY <1>2
<1> HIDE DEF q
<1>6. Keeps(q, p)
  BY <1>3 DEF Keeps
<1>7. Named(q)
  BY <1>3, <1>4, <1>5 DEF Named
<1>8. QED
  BY <1>6, <1>7 DEF q

\* A plan of one task that depends on nothing.
LEMMA Alone ==
  ASSUME NEW t, {"id", "files", "depends_on", "template"} \subseteq DOMAIN t,
         t.id \in TaskIds, t.depends_on = <<>>
  PROVE  Named(<<t>>) /\ ~DetectCycle(<<t>>)
<1>1. DOMAIN <<t>> = 1 .. 1 /\ <<t>>[1] = t
  OBVIOUS
<1>2. <<>> \in Seq(TaskIds) /\ DOMAIN <<>> = {}
  OBVIOUS
<1>3. Named(<<t>>)
  <2>1. \A i \in DOMAIN <<t>> : i = 1
    BY <1>1
  <2>2. \E n \in Nat : DOMAIN <<t>> = 1 .. n
    BY <1>1
  <2>3. QED
    BY <1>1, <1>2, <2>1, <2>2 DEF Named
<1>4. \A i \in DOMAIN <<t>> : ToSet(<<t>>[i].depends_on) = {}
  <2>1. ToSet(<<>>) = {}
    BY <1>2 DEF ToSet
  <2>2. QED
    BY <1>1, <2>1
<1>5. ~DetectCycle(<<t>>)
  <2>1. SUFFICES ASSUME NEW S \in (SUBSET IdsOf(<<t>>)) \ {{}},
                        \A id \in S : \E i \in DOMAIN <<t>> :
                          <<t>>[i].id = id /\ ToSet(<<t>>[i].depends_on) \cap S # {}
                 PROVE  FALSE
    BY DEF DetectCycle
  <2>2. QED
    BY <2>1, <1>4
<1>6. QED
  BY <1>3, <1>5

\* Dropping the tasks without files.
LEMMA HaveFilesNamed ==
  ASSUME NEW p, Named(p)
  PROVE  Named(HaveFiles(p)) /\ Keeps(HaveFiles(p), p)
<1>1. {i \in DOMAIN p : p[i].files # <<>>} \subseteq DOMAIN p
  OBVIOUS
<1>2. QED
  BY <1>1, KeptNamed DEF HaveFiles

\* A part of a part of a plan is a part of it.
LEMMA KeepsTwice ==
  ASSUME NEW p, NEW q, NEW r, Keeps(r, q), Keeps(q, p)
  PROVE  Keeps(r, p)
BY ZenonT(40) DEF Keeps

\* No plan.
LEMMA NoTasks == Named(<<>>) /\ ~DetectCycle(<<>>) /\ DOMAIN <<>> = {}
<1>1. DOMAIN <<>> = 1 .. 0 /\ 1 .. 0 = {}
  OBVIOUS
<1>2. IdsOf(<<>>) = {}
  BY <1>1 DEF IdsOf
<1>3. ~DetectCycle(<<>>)
  BY <1>2 DEF DetectCycle
<1>4. Named(<<>>)
  BY <1>1 DEF Named
<1>5. QED
  BY <1>1, <1>3, <1>4

\* parse_plan: what it accepts has no cycle, and distinct ids if the answer has.
LEMMA ParsedSound ==
  ASSUME DistinctAnswers, NEW a \in Answers
  PROVE  LET v == ParsePlan(a.tasks, a.mentioned, a.first)
         IN  Named(v.tasks) /\ ~DetectCycle(v.tasks)
<1> DEFINE v == ParsePlan(a.tasks, a.mentioned, a.first)
<1>1. /\ a.tasks \in Seq(Task)
      /\ \A i, j \in DOMAIN a.tasks : a.tasks[i].id = a.tasks[j].id => i = j
  BY RunnerAssumption DEF DistinctAnswers
<1>2. CASE a.tasks = <<>>
  <2>1. v.tasks = <<FallbackTask(a.mentioned, a.first)>>
    BY <1>2 DEF ParsePlan, Planned
  <2>2. QED
    BY <2>1, Alone, RunnerAssumption DEF FallbackTask
<1>3. CASE a.tasks # <<>>
  <2> DEFINE n == IF Len(a.tasks) > MaxTasks THEN MaxTasks ELSE Len(a.tasks)
             capped == SubSeq(a.tasks, 1, n)
             mapped == MapTasks(capped, ValidFiles)
             valid == HaveFiles(mapped)
  <2>1. n \in Nat /\ n <= Len(a.tasks) /\ Len(a.tasks) \in Nat
    BY <1>1, PathsAssumption
  <2>2. /\ DOMAIN capped = 1 .. n /\ 1 .. n \subseteq DOMAIN a.tasks
        /\ \A i \in 1 .. n : capped[i] = a.tasks[i]
    <3> HIDE DEF n
    <3>1. DOMAIN a.tasks = 1 .. Len(a.tasks)
      BY <1>1
    <3>2. \A i \in 1 .. n : i \in 1 .. Len(a.tasks)
      BY <2>1
    <3>3. capped = [i \in 1 .. n |-> a.tasks[i]]
      BY <1>1, <2>1, <3>1, <3>2
    <3>4. QED
      BY <3>1, <3>2, <3>3
  <2>3. Named(capped)
    <3> HIDE DEF capped, n
    <3>1. \A i \in 1 .. n : capped[i] \in Task
      BY <1>1, <2>2
    <3>2. QED
      BY <1>1, <2>1, <2>2, <3>1 DEF Named, Task
  <2>4. Named(mapped)
    <3>1. mapped = [i \in DOMAIN capped |-> [capped[i] EXCEPT !.files = ValidFiles(capped[i].files)]]
      BY DEF MapTasks
    <3> DEFINE G == [i \in DOMAIN capped |-> ValidFiles(capped[i].files)]
    <3>2. mapped = [i \in DOMAIN capped |-> [capped[i] EXCEPT !.files = G[i]]]
      BY <3>1
    <3> HIDE DEF capped, n, mapped, G
    <3>3. QED
      BY <2>3, <3>2, Repathed
  <2>5. Named(valid)
    BY <2>4, HaveFilesNamed
  <2>6. v = IF valid = <<>> \/ DetectCycle(valid) THEN Refused ELSE Planned(valid)
    BY <1>3 DEF ParsePlan
  <2> HIDE DEF valid, v
  <2>7. CASE valid = <<>> \/ DetectCycle(valid)
    <3>1. v.tasks = <<>>
      BY <2>6, <2>7 DEF Refused
    <3>2. QED
      BY <3>1, NoTasks DEF v
  <2>8. CASE ~(valid = <<>> \/ DetectCycle(valid))
    <3>1. v.tasks = valid
      BY <2>6, <2>8 DEF Planned
    <3>2. QED
      BY <3>1, <2>5, <2>8 DEF v
  <2>9. QED
    BY <2>7, <2>8
<1>4. QED
  BY <1>2, <1>3

\* plan_goal: so has every plan that is executed, scope guard and collapse included.
LEMMA PlanSound ==
  ASSUME DistinctAnswers, NEW a \in Answers
  PROVE  LET v == ValidatedPlan(a.tasks, a.mentioned, a.first, a.named)
         IN  Named(v.tasks) /\ ~DetectCycle(v.tasks)
<1> DEFINE v == ValidatedPlan(a.tasks, a.mentioned, a.first, a.named)
           parsed == ParsePlan(a.tasks, a.mentioned, a.first)
           p == parsed.tasks
<1>1. Named(p) /\ ~DetectCycle(p)
  BY ParsedSound
<1>2. v = IF parsed.ok THEN Planned(ConstrainToNamedFiles(a.named, p)) ELSE Refused
  BY DEF ValidatedPlan
<1> HIDE DEF parsed
<1>3. CASE ~parsed.ok
  <2>1. v.tasks = <<>>
    BY <1>2, <1>3 DEF Refused
  <2>2. QED
    BY <2>1, NoTasks
<1>4. CASE parsed.ok
  <2>1. v.tasks = ConstrainToNamedFiles(a.named, p)
    BY <1>2, <1>4 DEF Planned
  <2> HIDE DEF v, p
  <2>2. CASE a.named = {}
    BY <1>1, <2>1, <2>2 DEF ConstrainToNamedFiles, v
  <2>3. CASE a.named # {}
    <3> DEFINE Clamp(files) == InScope(a.named, files)
               mapped == MapTasks(p, Clamp)
               kept == HaveFiles(mapped)
               some == IF kept = <<>>
                       THEN <<FallbackTask(SetToSeq(a.named), <<>>)>> ELSE kept
    <3>1. Named(mapped) /\ Keeps(mapped, p)
      <4>1. mapped = [i \in DOMAIN p |-> [p[i] EXCEPT !.files = InScope(a.named, p[i].files)]]
        BY DEF MapTasks
      <4> DEFINE G == [i \in DOMAIN p |-> InScope(a.named, p[i].files)]
      <4>2. mapped = [i \in DOMAIN p |-> [p[i] EXCEPT !.files = G[i]]]
        BY <4>1
      <4> HIDE DEF mapped, G
      <4>3. QED
        BY <1>1, <4>2, Repathed
    <3>2. Named(kept) /\ ~DetectCycle(kept)
      <4>1. Named(kept) /\ Keeps(kept, mapped)
        BY <3>1, HaveFilesNamed
      <4> HIDE DEF kept, mapped
      <4>2. Keeps(kept, p)
        BY <3>1, <4>1, KeepsTwice
      <4>3. QED
        BY <1>1, <4>1, <4>2, NoNewCycle
    <3>3. Named(some) /\ ~DetectCycle(some)
      <4> HIDE DEF kept
      <4> DEFINE t == FallbackTask(SetToSeq(a.named), <<>>)
      <4>1. Named(<<t>>) /\ ~DetectCycle(<<t>>)
        BY Alone, RunnerAssumption DEF FallbackTask
      <4> HIDE DEF t
      <4>2. some = IF kept = <<>> THEN <<t>> ELSE kept
        BY DEF t
      <4>3. QED
        BY <3>2, <4>1, <4>2
    <3>4. Named(Collapsed(some)) /\ ~DetectCycle(Collapsed(some))
      <4> HIDE DEF some
      <4>1. QED
        BY Alone, RunnerAssumption DEF Collapsed
    <3>5. v.tasks = some \/ v.tasks = Collapsed(some)
      BY <2>1, <2>3 DEF ConstrainToNamedFiles
    <3> HIDE DEF some
    <3>6. QED
      BY <3>3, <3>4, <3>5 DEF v
  <2>4. QED
    BY <2>2, <2>3 DEF v
<1>5. QED
  BY <1>3, <1>4

-----------------------------------------------------------------------------
(* The types.                                                               *)

\* What a plan is while it is executed.
Executable == Named(tasks) /\ ~DetectCycle(tasks)

\* A planned task's id is an id, and a planned one.
LEMMA TaskIdsIn ==
  ASSUME Executable, NEW i \in DOMAIN tasks
  PROVE  tasks[i].id \in TaskIds /\ tasks[i].id \in PlannedIds
BY DEF Executable, Named, PlannedIds, IdsOf

\* An agent's edits: a tree stays one, marks stay, and only the agent's own is new.
LEMMA EditedTree ==
  ASSUME NEW tree \in Tree, NEW id \in TaskIds, NEW W, NEW D
  PROVE  /\ Edited(tree, id, W, D) \in Tree
         /\ \A f \in Paths : /\ Marks(Edited(tree, id, W, D)[f]) \subseteq Marks(tree[f]) \cup {id}
                             /\ Marks(tree[f]) \subseteq Edited(tree, id, W, D)[f]
<1>1. \A f \in Paths : tree[f] \in Content
  BY DEF Tree
<1> DEFINE e == [f \in Paths |-> IF f \in D THEN tree[f] \cup Gone
                   ELSE IF f \in W THEN Marks(tree[f]) \cup {id} ELSE tree[f]]
<1>2. ASSUME NEW f \in Paths
      PROVE  /\ e[f] \in Content /\ Marks(e[f]) \subseteq Marks(tree[f]) \cup {id}
             /\ Marks(tree[f]) \subseteq e[f]
  BY <1>1 DEF Content, Marks, Gone
<1>3. e \in Tree
  BY <1>2 DEF Tree
<1>4. e = Edited(tree, id, W, D)
  BY DEF Edited
<1>5. QED
  BY <1>2, <1>3, <1>4

\* A tree nobody edits.
LEMMA NoEdits ==
  ASSUME NEW tree \in Tree, NEW id
  PROVE  Edited(tree, id, {}, {}) = tree
<1>1. Edited(tree, id, {}, {}) = [f \in Paths |-> tree[f]]
  BY DEF Edited
<1>2. QED
  BY <1>1 DEF Tree

\* The tree of a clone and the empty one are trees without anybody's edits.
LEMMA Trees == /\ Pristine \in Tree /\ Missing \in Tree
               /\ \A f \in Paths : Marks(Pristine[f]) = {} /\ Marks(Missing[f]) = {}
BY DEF Pristine, Missing, Tree, Content, Gone, Marks

\* An idle desk is a desk.
LEMMA NoRequestTyped ==
  NoRequest \in [at : {"idle", "asked", "error", "garbled", "ok"}, tree : Tree,
                 fits : [Touched -> Fits]]
BY Trees DEF NoRequest, Fits

\* What a workspace starts as.
LEMMA InheritedTree ==
  ASSUME TypeOK, Executable, NEW i \in DOMAIN tasks, NEW f \in Paths
  PROVE  LET t == tasks[i]
             D == Donors(t, f)
         IN  /\ Inherited(t)[f] = IF D = {} THEN repo[f] ELSE ws[t.depends_on[Max(D)]][f]
             /\ Inherited(t)[f] \in Content
             /\ D # {} => /\ Max(D) \in D /\ \A k \in D : k \in Nat /\ k <= Max(D)
                          /\ t.depends_on[Max(D)] \in Completed
                          /\ t.depends_on[Max(D)] \in TaskIds
<1> DEFINE t == tasks[i]
           D == Donors(t, f)
<1>1. t.depends_on \in Seq(TaskIds)
  BY DEF Executable, Named
<1>2. PICK B \in Nat : DOMAIN t.depends_on = 1 .. B
  BY <1>1
<1>3. D \subseteq 1 .. B
  BY <1>2 DEF Donors
<1>4. D # {} => Max(D) \in D /\ \A k \in D : k <= Max(D)
  BY <1>3, MaxIsLast
<1>5. \A k \in D : k \in Nat /\ t.depends_on[k] \in Completed
  BY <1>3 DEF Donors
<1>6. \A k \in D : t.depends_on[k] \in TaskIds
  BY <1>5 DEF Completed
<1>7. Inherited(t)[f] = IF D = {} THEN repo[f] ELSE ws[t.depends_on[Max(D)]][f]
  BY DEF Inherited
<1> HIDE DEF D, t
<1>8. repo[f] \in Content /\ \A id \in TaskIds : ws[id][f] \in Content
  BY DEF TypeOK, Tree
<1>9. Inherited(t)[f] \in Content
  BY <1>4, <1>6, <1>7, <1>8
<1>10. QED
  BY <1>4, <1>5, <1>6, <1>7, <1>9 DEF D, t

\* Collecting a tree's files.
LEMMA CollectTyped ==
  ASSUME TypeOK, NEW tree \in Tree, NEW W
  PROVE  /\ Collect(tree, W) \in [Paths -> Seq(Content)]
         /\ \A f \in Paths : Collect(tree, W)[f] = captured[f]
                             \/ Collect(tree, W)[f] = Append(captured[f], tree[f])
<1>1. \A f \in Paths : captured[f] \in Seq(Content) /\ tree[f] \in Content
  BY DEF TypeOK, Tree
<1>2. \A f \in Paths : Append(captured[f], tree[f]) \in Seq(Content)
  BY <1>1
<1>3. QED
  BY <1>1, <1>2 DEF Collect

\* The tasks' hooks and results.
LEMMA FinishTyped ==
  ASSUME TypeOK, NEW id \in TaskIds, NEW o \in Outcomes, Finish(id, o)
  PROVE  /\ st' \in [TaskIds -> Statuses] /\ hooked' \in [TaskIds -> Nat]
         /\ anyApplied' \in BOOLEAN
<1>1. o \in Statuses
  BY DEF Statuses
<1>2. st' \in [TaskIds -> Statuses]
  BY <1>1 DEF Finish, TypeOK
<1>3. hooked' \in [TaskIds -> Nat]
  BY DEF Finish, TypeOK
<1>4. anyApplied' \in BOOLEAN
  BY DEF Finish
<1>5. QED
  BY <1>2, <1>3, <1>4

\* Initially.
LEMMA InitTyped == Init => TypeOK /\ Executable
<1> SUFFICES ASSUME Init PROVE TypeOK /\ Executable
  OBVIOUS
<1>1. Executable
  BY NoTasks DEF Executable, Init
<1>2. IdsOf(tasks) \subseteq TaskIds
  BY <1>1 DEF Executable, Named, IdsOf
<1>3. captured \in [Paths -> Seq(Content)]
  <2>1. <<>> \in Seq(Content)
    OBVIOUS
  <2>2. QED
    BY <2>1 DEF Init
<1>4. fixes \in 0 .. MaxRetries
  BY RunnerAssumption DEF Init
<1>5. ws \in [TaskIds -> Tree] /\ repo \in Tree
  BY Trees DEF Init
<1>6. st \in [TaskIds -> Statuses] /\ hooked \in [TaskIds -> Nat]
  BY DEF Init, Statuses
<1>7. TypeOK
  BY <1>2, <1>3, <1>4, <1>5, <1>6, NoRequestTyped DEF Init, TypeOK
<1>8. QED
  BY <1>1, <1>7

\* The plan's tasks stay what they are under every step but the planner's.
LEMMA SamePlan ==
  ASSUME Executable, tasks' = tasks
  PROVE  Executable'
BY DEF Executable

\* Min returns a member of a nonempty set of places.
LEMMA MinIsFirst ==
  ASSUME NEW B \in Nat, NEW S, S \subseteq 1 .. B, S # {}
  PROVE  Min(S) \in S
<1>1. S \subseteq Nat
  OBVIOUS
<1>2. \E m \in S : \A k \in S : m <= k
  BY <1>1, LeastExists
<1>3. QED
  BY <1>2 DEF Min

\* Where a dispatched task may be.
Later == {"graph", "check", "agent", "e-applied", "e-noop", "e-error", "e-panic"}

\* A step of one task in disk mode: its status, its workspace and, with a result,
\* its hook.
DiskMove(id, s, W, D) ==
  /\ mode = "disk" /\ pc \in {"dispatch", "join"} /\ id \in PlannedIds
  /\ st[id] \in Later \cup {"queued"} /\ s \in Later \cup Outcomes \cup {"pending"}
  /\ st' = [st EXCEPT ![id] = s]
  /\ ws' = [ws EXCEPT ![id] = Edited(ws[id], id, W, D)]
  /\ anyApplied' = (anyApplied \/ s = "applied")
  /\ hooked' = [hooked EXCEPT ![id] = IF s \in Outcomes THEN hooked[id] + 1 ELSE hooked[id]]
  /\ UNCHANGED <<mode, pc, tasks, repo, captured, halted, desk>>

\* A step of one task in zero-disk mode: its copy, what is captured and the files it
\* deletes in the clone.
VirtualMove(id, s) ==
  /\ mode # "disk" /\ pc = "loop" /\ id \in PlannedIds
  /\ st[id] \in {"pending", "fetched", "posted"}
  /\ s \in {"dropped", "fetched", "posted"} \cup Outcomes
  /\ st' = [st EXCEPT ![id] = s]
  /\ \E tree \in Tree :
       /\ ws' = [ws EXCEPT ![id] = tree]
       /\ \A f \in Paths : Marks(tree[f]) \subseteq Marks(ws[id][f]) \cup {id}
       /\ \A f \in Paths : \/ captured'[f] = captured[f]
                           \/ s \in Outcomes /\ captured'[f] = Append(captured[f], tree[f])
  /\ \E D : repo' = Edited(repo, id, {}, D)
  /\ hooked' = [hooked EXCEPT ![id] = IF s \in Outcomes THEN hooked[id] + 1 ELSE hooked[id]]
  /\ UNCHANGED <<mode, pc, tasks, halted>>

\* Which task may be where.
Staged ==
  /\ pc = "plan" => tasks = <<>>
  /\ \A id \in TaskIds : st[id] # "pending" => id \in PlannedIds
  /\ mode = "disk" =>
       \A id \in TaskIds :
         \/ st[id] \in {"pending"} \cup Outcomes
         \/ /\ pc \in {"dispatch", "join"}
            /\ st[id] \in Underway \ {"fetched", "posted"}
  /\ mode # "disk" =>
       /\ pc \in {"plan", "loop", "done", "failed"}
       /\ \A id \in TaskIds :
            \/ st[id] \in {"pending", "dropped"} \cup Outcomes
            \/ pc = "loop" /\ st[id] \in {"fetched", "posted"}

DiskAction(i) ==
  LET t == tasks[i]
  IN  \/ DirectEdit(t) \/ UseGraph(t) \/ SpawnAgent(t)
      \/ GraphGenerates(t) \/ GraphPasses(t) \/ GraphFixes(t) \/ GraphGivesUp(t)

\* The first task of the queue.
LEMMA QueuedFirst ==
  ASSUME TypeOK, Executable, NEW i \in DOMAIN tasks, AtDispatch(tasks[i])
  PROVE  st[tasks[i].id] = "queued"
<1>1. PICK B \in Nat : DOMAIN tasks = 1 .. B
  BY DEF Executable, Named
<1>2. Queue \subseteq 1 .. B /\ Queue # {}
  BY <1>1 DEF Queue, AtDispatch
<1>3. Min(Queue) \in Queue
  BY <1>1, <1>2, MinIsFirst
<1>4. QED
  BY <1>3 DEF Queue, AtDispatch

\* The task that the zero-disk loop is at is pending.
LEMMA FirstRemaining ==
  ASSUME TypeOK, Executable, NEW i \in DOMAIN tasks, AtTask(tasks[i])
  PROVE  st[tasks[i].id] = "pending"
<1>1. PICK B \in Nat : DOMAIN tasks = 1 .. B
  BY DEF Executable, Named
<1>2. Remaining \subseteq 1 .. B /\ Remaining # {}
  BY <1>1 DEF Remaining, AtTask
<1>3. Min(Remaining) \in Remaining
  BY <1>1, <1>2, MinIsFirst
<1>4. QED
  BY <1>3 DEF Remaining, AtTask

\* Without edits.
LEMMA SameWs ==
  ASSUME TypeOK, NEW id \in TaskIds, ws' = ws
  PROVE  ws' = [ws EXCEPT ![id] = Edited(ws[id], id, {}, {})]
<1>1. ws[id] \in Tree /\ ws \in [TaskIds -> Tree]
  BY DEF TypeOK
<1>2. Edited(ws[id], id, {}, {}) = ws[id]
  BY <1>1, NoEdits
<1>3. QED
  BY <1>1, <1>2

\* A step that gives a task no result leaves its hook and any_applied alone.
LEMMA SameHooks ==
  ASSUME TypeOK, NEW id \in TaskIds, NEW s, s \notin Outcomes, hooked' = hooked,
         anyApplied' = anyApplied
  PROVE  /\ hooked' = [hooked EXCEPT ![id] = IF s \in Outcomes THEN hooked[id] + 1 ELSE hooked[id]]
         /\ anyApplied' = (anyApplied \/ s = "applied")
<1>1. hooked \in [TaskIds -> Nat] /\ anyApplied \in BOOLEAN
  BY DEF TypeOK
<1>2. s # "applied"
  BY DEF Outcomes
<1>3. QED
  BY <1>1, <1>2

\* Finish gives its task a result and fires its hook.
LEMMA Finished ==
  ASSUME TypeOK, NEW id \in TaskIds, NEW s \in Outcomes, Finish(id, s)
  PROVE  /\ hooked' = [hooked EXCEPT ![id] = IF s \in Outcomes THEN hooked[id] + 1 ELSE hooked[id]]
         /\ anyApplied' = (anyApplied \/ s = "applied")
         /\ st' = [st EXCEPT ![id] = s]
BY DEF Finish

\* What a dispatched task, or its agent, does is such a step.
LEMMA DiskActionMoves ==
  ASSUME TypeOK, Executable, Staged, NEW i \in DOMAIN tasks, DiskAction(i)
  PROVE  \E s, W, D : DiskMove(tasks[i].id, s, W, D)
<1> DEFINE t == tasks[i]
           id == t.id
<1>1. id \in TaskIds /\ id \in PlannedIds
  BY TaskIdsIn
<1>2. st[id] \in {"queued", "graph", "check"} => mode = "disk" /\ pc \in {"dispatch", "join"}
  BY <1>1 DEF Staged, Outcomes
<1>3. CASE DirectEdit(t)
  <2>1. st[id] = "queued"
    BY <1>3, QueuedFirst DEF DirectEdit
  <2>2. DiskMove(id, "applied", {t.edit}, {})
    BY <1>1, <1>2, <1>3, <2>1 DEF DiskMove, DirectEdit, Finish, Outcomes, Later
  <2>3. QED
    BY <2>2
<1>4. CASE UseGraph(t)
  <2>1. st[id] = "queued"
    BY <1>4, QueuedFirst DEF UseGraph
  <2>2. ws' = ws /\ hooked' = hooked /\ anyApplied' = anyApplied /\ "graph" \notin Outcomes
    BY <1>4 DEF UseGraph, resultVars, Outcomes
  <2>3. DiskMove(id, "graph", {}, {})
    BY <1>1, <1>2, <1>4, <2>1, <2>2, SameWs, SameHooks
       DEF DiskMove, UseGraph, Later, resultVars
  <2>4. QED
    BY <2>3
<1>5. CASE SpawnAgent(t)
  <2>1. st[id] = "queued"
    BY <1>5, QueuedFirst DEF SpawnAgent
  <2>2. ws' = ws /\ hooked' = hooked /\ anyApplied' = anyApplied /\ "agent" \notin Outcomes
    BY <1>5 DEF SpawnAgent, resultVars, Outcomes
  <2>3. DiskMove(id, "agent", {}, {})
    BY <1>1, <1>2, <1>5, <2>1, <2>2, SameWs, SameHooks
       DEF DiskMove, SpawnAgent, Later, resultVars
  <2>4. QED
    BY <2>3
<1>6. CASE GraphGenerates(t)
  <2>1. PICK W \in SUBSET Touched, D \in SUBSET Touched :
          ws' = [ws EXCEPT ![id] = Edited(ws[id], id, W, D)]
    BY <1>6 DEF GraphGenerates
  <2>2. CASE Template(t) = "doc"
    <3>1. DiskMove(id, "applied", W, D)
      BY <1>1, <1>2, <1>6, <2>1, <2>2, Finished
         DEF DiskMove, GraphGenerates, Finish, Outcomes, Later
    <3>2. QED
      BY <3>1
  <2>3. CASE Template(t) # "doc"
    <3>1. hooked' = hooked /\ anyApplied' = anyApplied /\ "check" \notin Outcomes
          /\ st' = [st EXCEPT ![id] = "check"]
      BY <1>6, <2>3 DEF GraphGenerates, Outcomes
    <3>2. DiskMove(id, "check", W, D)
      BY <1>1, <1>2, <1>6, <2>1, <3>1, SameHooks DEF DiskMove, GraphGenerates, Later
    <3>3. QED
      BY <3>2
  <2>4. QED
    BY <2>2, <2>3
<1>7. CASE GraphPasses(t)
  <2>1. ws' = ws
    BY <1>7 DEF GraphPasses
  <2>2. DiskMove(id, "applied", {}, {})
    BY <1>1, <1>2, <1>7, <2>1, SameWs DEF DiskMove, GraphPasses, Finish, Outcomes, Later
  <2>3. QED
    BY <2>2
<1>8. CASE GraphFixes(t)
  <2>1. PICK W \in SUBSET Touched : ws' = [ws EXCEPT ![id] = Edited(ws[id], id, W, {})]
    BY <1>8 DEF GraphFixes
  <2>2. hooked' = hooked /\ anyApplied' = anyApplied /\ "check" \notin Outcomes
    BY <1>8 DEF GraphFixes, resultVars, Outcomes
  <2>3. st' = [st EXCEPT ![id] = "check"]
    BY <1>1, <1>8 DEF GraphFixes, TypeOK
  <2>4. DiskMove(id, "check", W, {})
    BY <1>1, <1>2, <1>8, <2>1, <2>2, <2>3, SameHooks
       DEF DiskMove, GraphFixes, Later, resultVars
  <2>5. QED
    BY <2>4
<1>9. CASE GraphGivesUp(t)
  <2>1. PICK W \in SUBSET Touched : ws' = [ws EXCEPT ![id] = Edited(ws[id], id, W, {})]
    BY <1>9 DEF GraphGivesUp
  <2>2. hooked' = hooked /\ anyApplied' = anyApplied /\ "agent" \notin Outcomes
    BY <1>9 DEF GraphGivesUp, resultVars, Outcomes
  <2>3. DiskMove(id, "agent", W, {})
    BY <1>1, <1>2, <1>9, <2>1, <2>2, SameHooks DEF DiskMove, GraphGivesUp, Later, resultVars
  <2>4. QED
    BY <2>3
<1>10. QED
  BY <1>3, <1>4, <1>5, <1>6, <1>7, <1>8, <1>9 DEF DiskAction

AgentAction(id) ==
  \/ \E o \in Outcomes \cup {"panic"} : AgentEnds(id, o)
  \/ \E o \in Outcomes : JoinNext(id, o)
  \/ JoinPanicked(id)

\* What an agent does, and its joining, is such a step.
LEMMA AgentActionMoves ==
  ASSUME TypeOK, Executable, Staged, NEW id \in TaskIds, AgentAction(id)
  PROVE  \E s, W, D : DiskMove(id, s, W, D)
<1>1. st[id] \in Later =>
        mode = "disk" /\ pc \in {"dispatch", "join"} /\ id \in PlannedIds
  BY DEF Staged, Outcomes, Later
<1>2. \A o \in Outcomes \cup {"panic"} :
        /\ Ended(o) \in Later /\ Ended(o) \notin Outcomes
  BY DEF Ended, Outcomes, Later
<1>3. ASSUME NEW o \in Outcomes \cup {"panic"}, AgentEnds(id, o)
      PROVE  \E s, W, D : DiskMove(id, s, W, D)
  <2>1. PICK W \in SUBSET Touched, D \in SUBSET Touched :
          ws' = [ws EXCEPT ![id] = Edited(ws[id], id, W, D)]
    BY <1>3 DEF AgentEnds
  <2>2. hooked' = hooked /\ anyApplied' = anyApplied
    BY <1>3 DEF AgentEnds, resultVars
  <2>3. st[id] \in Later
    BY <1>3 DEF AgentEnds, Later
  <2>4. DiskMove(id, Ended(o), W, D)
    BY <1>1, <1>2, <1>3, <2>1, <2>2, <2>3, SameHooks DEF DiskMove, AgentEnds, resultVars
  <2>5. QED
    BY <2>4
<1>4. ASSUME NEW o \in Outcomes, JoinNext(id, o)
      PROVE  \E s, W, D : DiskMove(id, s, W, D)
  <2>1. ws' = ws /\ st[id] \in Later
    BY <1>2, <1>4 DEF JoinNext
  <2>2. DiskMove(id, o, {}, {})
    BY <1>1, <1>4, <2>1, SameWs, Finished DEF DiskMove, JoinNext, Finish
  <2>3. QED
    BY <2>2
<1>5. CASE JoinPanicked(id)
  <2>1. /\ ws' = ws /\ hooked' = hooked /\ anyApplied' = anyApplied
        /\ st[id] \in Later /\ "pending" \notin Outcomes
    BY <1>5 DEF JoinPanicked, resultVars, Later, Outcomes
  <2>2. DiskMove(id, "pending", {}, {})
    BY <1>1, <1>5, <2>1, SameWs, SameHooks DEF DiskMove, JoinPanicked, resultVars
  <2>3. QED
    BY <2>2
<1>6. QED
  BY <1>3, <1>4, <1>5 DEF AgentAction

VirtualAction(i) ==
  LET t == tasks[i]
  IN  \/ Fetch(t) \/ Post(t) \/ \E o \in Outcomes : NativeAgent(t, o)
      \/ WorkerEdits(t) \/ WorkerDiffOnly(t) \/ WorkerMissed(t) \/ WorkerFails(t)
      \/ WorkerGarbled(t)

\* A zero-disk step that edits nothing and captures nothing.
LEMMA QuietMove ==
  ASSUME TypeOK, NEW id \in TaskIds, id \in PlannedIds,
         mode # "disk", pc = "loop", st[id] \in {"pending", "fetched", "posted"},
         NEW s \in {"dropped", "fetched", "posted"} \cup Outcomes,
         st' = [st EXCEPT ![id] = s],
         hooked' = [hooked EXCEPT ![id] = IF s \in Outcomes THEN hooked[id] + 1 ELSE hooked[id]],
         ws' = ws, repo' = repo, captured' = captured, UNCHANGED <<mode, pc, tasks, halted>>
  PROVE  VirtualMove(id, s)
<1>1. ws[id] \in Tree /\ ws \in [TaskIds -> Tree] /\ repo \in Tree
  BY DEF TypeOK
<1>2. ws' = [ws EXCEPT ![id] = ws[id]]
  BY <1>1
<1>3. repo' = Edited(repo, id, {}, {})
  BY <1>1, NoEdits
<1>4. \A f \in Paths : Marks(ws[id][f]) \subseteq Marks(ws[id][f]) \cup {id}
  OBVIOUS
<1>5. QED
  BY <1>1, <1>2, <1>3, <1>4 DEF VirtualMove

\* What a task of a zero-disk run, its native agent or its worker does is such a step.
LEMMA VirtualActionMoves ==
  ASSUME TypeOK, Executable, Staged, NEW i \in DOMAIN tasks, VirtualAction(i)
  PROVE  \E s : VirtualMove(tasks[i].id, s)
<1> DEFINE t == tasks[i]
           id == t.id
<1>1. id \in TaskIds /\ id \in PlannedIds
  BY TaskIdsIn
<1>2. st[id] \in {"fetched", "posted"} => mode # "disk" /\ pc = "loop"
  BY <1>1 DEF Staged, Outcomes
<1>3. ws[id] \in Tree /\ ws \in [TaskIds -> Tree] /\ repo \in Tree /\ hooked \in [TaskIds -> Nat]
  BY <1>1 DEF TypeOK
<1>4. repo = Edited(repo, id, {}, {})
  BY <1>3, NoEdits
<1>5. {"fetched", "posted", "dropped"} \cap Outcomes = {}
      /\ hooked = [hooked EXCEPT ![id] = hooked[id]]
  BY <1>3 DEF Outcomes
<1>6. CASE Fetch(t)
  <2>1. PICK loaded \in Loadable(t) : ws' = [ws EXCEPT ![id] = Fetched(t, loaded)]
    BY <1>6 DEF Fetch
  <2> DEFINE tree == Fetched(t, loaded)
  <2>2. \A f \in Paths : tree[f] \in Content /\ Marks(tree[f]) = {}
    BY Trees DEF Fetched, Tree, Content, Marks, Gone
  <2>3. tree \in Tree
    BY <2>2 DEF Fetched, Tree
  <2>4. st[id] = "pending" /\ mode # "disk" /\ pc = "loop"
    BY <1>6, FirstRemaining DEF Fetch, AtTask
  <2>5. /\ hooked' = hooked /\ captured' = captured /\ repo' = repo
        /\ st' = [st EXCEPT ![id] = "fetched"] /\ UNCHANGED <<mode, pc, tasks, halted>>
    BY <1>6 DEF Fetch, resultVars
  <2> HIDE DEF tree
  <2>6. ws' = [ws EXCEPT ![id] = tree]
    BY <2>1 DEF tree
  <2>7. VirtualMove(id, "fetched")
    BY <1>1, <1>4, <1>5, <2>2, <2>3, <2>4, <2>5, <2>6 DEF VirtualMove
  <2>8. QED
    BY <2>7
<1>7. CASE Post(t)
  <2>1. /\ st' = [st EXCEPT ![id] = "posted"] /\ st[id] = "fetched"
        /\ hooked' = hooked /\ captured' = captured /\ repo' = repo /\ ws' = ws
        /\ UNCHANGED <<mode, pc, tasks, halted>>
    BY <1>7 DEF Post, resultVars
  <2>2. VirtualMove(id, "posted")
    BY <1>1, <1>2, <1>5, <2>1, QuietMove
  <2>3. QED
    BY <2>2
<1>8. ASSUME NEW o \in Outcomes, NativeAgent(t, o)
      PROVE  \E s : VirtualMove(id, s)
  <2>1. PICK W \in SUBSET Touched, D \in SUBSET Touched :
          /\ ws' = [ws EXCEPT ![id] = Edited(ws[id], id, W, {})]
          /\ captured' = Collect(ws'[id], W)
          /\ repo' = Edited(repo, id, {}, D)
    BY <1>8 DEF NativeAgent
  <2> DEFINE tree == Edited(ws[id], id, W, {})
  <2>2. tree \in Tree /\ \A f \in Paths : Marks(tree[f]) \subseteq Marks(ws[id][f]) \cup {id}
    BY <1>1, <1>3, EditedTree
  <2>3. /\ st[id] = "fetched" /\ st' = [st EXCEPT ![id] = o]
        /\ hooked' = [hooked EXCEPT ![id] = hooked[id] + 1]
        /\ UNCHANGED <<mode, pc, tasks, halted>>
    BY <1>8 DEF NativeAgent
  <2> HIDE DEF tree
  <2>4. ws' = [ws EXCEPT ![id] = tree] /\ ws'[id] = tree
    BY <1>1, <1>3, <2>1 DEF tree
  <2>5. \A f \in Paths : captured'[f] = captured[f] \/ captured'[f] = Append(captured[f], tree[f])
    BY <2>1, <2>2, <2>4, CollectTyped
  <2>6. VirtualMove(id, o)
    BY <1>1, <1>2, <2>1, <2>2, <2>3, <2>4, <2>5, ZenonT(40) DEF VirtualMove
  <2>7. QED
    BY <2>6
<1>9. CASE WorkerEdits(t)
  <2> DEFINE tree == Edited(ws[id], id, Applied(t), {})
  <2>1. tree \in Tree /\ \A f \in Paths : Marks(tree[f]) \subseteq Marks(ws[id][f]) \cup {id}
    BY <1>1, <1>3, EditedTree
  <2>2. /\ st[id] = "posted" /\ st' = [st EXCEPT ![id] = "applied"] /\ repo' = repo
        /\ hooked' = [hooked EXCEPT ![id] = hooked[id] + 1]
        /\ captured' = Collect(ws'[id], Applied(t)) /\ UNCHANGED <<mode, pc, tasks, halted>>
        /\ "applied" \in Outcomes
    BY <1>9 DEF WorkerEdits, Finish, Sent, Outcomes
  <2>3. ws' = [ws EXCEPT ![id] = tree] /\ ws'[id] = tree
    BY <1>1, <1>3, <1>9 DEF WorkerEdits
  <2> HIDE DEF tree
  <2>4. \A f \in Paths : captured'[f] = captured[f] \/ captured'[f] = Append(captured[f], tree[f])
    BY <2>1, <2>2, <2>3, CollectTyped
  <2>5. VirtualMove(id, "applied")
    BY <1>1, <1>2, <1>4, <2>1, <2>2, <2>3, <2>4 DEF VirtualMove
  <2>6. QED
    BY <2>5
<1>10. CASE WorkerDiffOnly(t)
  <2>1. PICK W : captured' = Collect(ws[id], W)
    BY <1>10 DEF WorkerDiffOnly
  <2>2. /\ st[id] = "posted" /\ st' = [st EXCEPT ![id] = "applied"] /\ repo' = repo /\ ws' = ws
        /\ hooked' = [hooked EXCEPT ![id] = hooked[id] + 1]
        /\ UNCHANGED <<mode, pc, tasks, halted>> /\ "applied" \in Outcomes
    BY <1>10 DEF WorkerDiffOnly, Finish, Sent, Outcomes
  <2> DEFINE tree == ws[id]
  <2>3. ws' = [ws EXCEPT ![id] = tree] /\ tree \in Tree
        /\ \A f \in Paths : Marks(tree[f]) \subseteq Marks(ws[id][f]) \cup {id}
    BY <1>3, <2>2
  <2>4. \A f \in Paths : captured'[f] = captured[f] \/ captured'[f] = Append(captured[f], tree[f])
    BY <2>1, <2>3, CollectTyped
  <2> HIDE DEF tree
  <2>5. VirtualMove(id, "applied")
    BY <1>1, <1>2, <1>4, <2>2, <2>3, <2>4 DEF VirtualMove
  <2>6. QED
    BY <2>5
<1>11. CASE WorkerMissed(t)
  <2> DEFINE o == IF anyApplied THEN "applied" ELSE "noop"
  <2>1. /\ st[id] = "posted" /\ st' = [st EXCEPT ![id] = o] /\ o \in Outcomes
        /\ hooked' = [hooked EXCEPT ![id] = hooked[id] + 1]
        /\ captured' = captured /\ repo' = repo /\ ws' = ws /\ UNCHANGED <<mode, pc, tasks, halted>>
    BY <1>11 DEF WorkerMissed, Finish, Sent, Outcomes
  <2> HIDE DEF o
  <2>2. VirtualMove(id, o)
    BY <1>1, <1>2, <2>1, QuietMove
  <2>3. QED
    BY <2>2
<1>12. CASE WorkerFails(t)
  <2>1. /\ st[id] = "posted" /\ st' = [st EXCEPT ![id] = "error"] /\ "error" \in Outcomes
        /\ hooked' = [hooked EXCEPT ![id] = hooked[id] + 1]
        /\ captured' = captured /\ repo' = repo /\ ws' = ws /\ UNCHANGED <<mode, pc, tasks, halted>>
    BY <1>12 DEF WorkerFails, Finish, Outcomes
  <2>2. VirtualMove(id, "error")
    BY <1>1, <1>2, <2>1, QuietMove
  <2>3. QED
    BY <2>2
<1>13. CASE WorkerGarbled(t)
  <2>1. /\ st[id] = "posted" /\ st' = [st EXCEPT ![id] = "dropped"] /\ hooked' = hooked
        /\ captured' = captured /\ repo' = repo /\ ws' = ws /\ UNCHANGED <<mode, pc, tasks, halted>>
    BY <1>13 DEF WorkerGarbled, resultVars
  <2>2. VirtualMove(id, "dropped")
    BY <1>1, <1>2, <1>5, <2>1, QuietMove
  <2>3. QED
    BY <2>2
<1>14. QED
  BY <1>6, <1>7, <1>8, <1>9, <1>10, <1>11, <1>12, <1>13 DEF VirtualAction

\* The steps that leave the tasks where they are.
Rest ==
  \/ PlanningFails \/ CloneFails \/ DispatchEnds \/ WaveEnds \/ LoopEnds \/ InferenceFails
  \/ \E id \in TaskIds : WorkerAnswers(id)
  \/ \E c \in {"continue", "pause", "cancel"} : Request(c)
  \/ UNCHANGED vars

\* Every step is of one of these kinds.
LEMMA StepKinds ==
  ASSUME [Next]_vars
  PROVE  \/ PlanGoal \/ StartWave \/ Halt \/ WavesEnd \/ Capture \/ Rest
         \/ \E i \in DOMAIN tasks : DiskAction(i) \/ VirtualAction(i)
         \/ \E id \in TaskIds : AgentAction(id)
<1>1. CASE DiskStep
  BY <1>1 DEF DiskStep, Rest, DiskAction, AgentAction
<1>2. CASE VirtualStep
  BY <1>2 DEF VirtualStep, Rest, VirtualAction
<1>3. QED
  BY <1>1, <1>2 DEF Next, System, Rest

\* Counters, requests and the worker's desk.
SmallTypes ==
  /\ fixes \in 0 .. MaxRetries /\ control \in {"continue", "pause", "cancel"}
  /\ requests \in Nat
  /\ desk \in [at : {"idle", "asked", "error", "garbled", "ok"}, tree : Tree,
               fits : [Touched -> Fits]]

\* The variables that hold no task's work keep their types.
LEMMA SmallTyped ==
  ASSUME TypeOK, Executable, [Next]_vars
  PROVE  SmallTypes'
<1>1. SmallTypes /\ MaxRetries \in Nat
  BY RunnerAssumption DEF TypeOK, SmallTypes
<1>2. CASE PlanGoal \/ StartWave \/ Halt \/ WavesEnd \/ Capture
  BY <1>1, <1>2 DEF PlanGoal, StartWave, Halt, WavesEnd, Capture, userVars, SmallTypes
<1>3. CASE PlanningFails \/ CloneFails \/ DispatchEnds \/ WaveEnds \/ LoopEnds \/ UNCHANGED vars
  BY <1>1, <1>3 DEF PlanningFails, CloneFails, DispatchEnds, WaveEnds, LoopEnds, vars,
                    userVars, SmallTypes
<1>4. ASSUME NEW c \in {"continue", "pause", "cancel"}, Request(c) PROVE SmallTypes'
  BY <1>1, <1>4 DEF Request, SmallTypes
<1>5. CASE InferenceFails
  BY <1>1, <1>5 DEF InferenceFails, Reply, WorkerOnly, userVars, SmallTypes
<1>6. ASSUME NEW id \in TaskIds, WorkerAnswers(id) PROVE SmallTypes'
  <2>1. PICK fits \in [Touched -> Fits] :
          desk' = [at |-> "ok", fits |-> fits,
                   tree |-> Edited(desk.tree, id, Hit(desk.tree, fits, {"exact", "blank"}), {})]
    BY <1>6 DEF WorkerAnswers
  <2>2. Edited(desk.tree, id, Hit(desk.tree, fits, {"exact", "blank"}), {}) \in Tree
    BY <1>1, EditedTree DEF SmallTypes
  <2>3. QED
    BY <1>1, <1>6, <2>1, <2>2 DEF WorkerAnswers, WorkerOnly, userVars, SmallTypes
<1>7. ASSUME NEW i \in DOMAIN tasks, DiskAction(i) PROVE SmallTypes'
  <2> DEFINE t == tasks[i]
  <2>1. CASE DirectEdit(t) \/ SpawnAgent(t) \/ GraphGenerates(t) \/ GraphPasses(t) \/ GraphGivesUp(t)
    BY <1>1, <2>1 DEF DirectEdit, SpawnAgent, GraphGenerates, GraphPasses, GraphGivesUp,
                      userVars, SmallTypes
  <2>2. CASE UseGraph(t)
    BY <1>1, <2>2 DEF UseGraph, userVars, SmallTypes
  <2>3. CASE GraphFixes(t)
    BY <1>1, <2>3 DEF GraphFixes, userVars, SmallTypes
  <2>4. QED
    BY <1>7, <2>1, <2>2, <2>3 DEF DiskAction
<1>8. ASSUME NEW id \in TaskIds, AgentAction(id) PROVE SmallTypes'
  BY <1>1, <1>8 DEF AgentAction, AgentEnds, JoinNext, JoinPanicked, userVars, SmallTypes
<1>9. ASSUME NEW i \in DOMAIN tasks, VirtualAction(i) PROVE SmallTypes'
  <2> DEFINE t == tasks[i]
  <2>1. CASE Post(t)
    <3>1. Received(ws[t.id]) \in Tree
      <4>1. ws[t.id] \in Tree
        BY TaskIdsIn DEF TypeOK
      <4>2. QED
        BY <4>1 DEF Received, Tree, Content, Gone
    <3>2. desk' = [NoRequest EXCEPT !.at = "asked", !.tree = Received(ws[t.id])]
      BY <2>1 DEF Post
    <3>3. UNCHANGED <<fixes, control, requests>>
      BY <2>1 DEF Post, userVars
    <3>4. QED
      BY <1>1, <3>1, <3>2, <3>3, NoRequestTyped DEF SmallTypes
  <2>2. CASE Fetch(t) \/ \E o \in Outcomes : NativeAgent(t, o)
    BY <1>1, <2>2 DEF Fetch, NativeAgent, userVars, SmallTypes
  <2>3. CASE WorkerEdits(t) \/ WorkerDiffOnly(t) \/ WorkerMissed(t) \/ WorkerFails(t)
             \/ WorkerGarbled(t)
    <3>1. desk' = NoRequest /\ UNCHANGED <<fixes, control, requests>>
      BY <2>3 DEF WorkerEdits, WorkerDiffOnly, WorkerMissed, WorkerFails, WorkerGarbled, userVars
    <3>2. QED
      BY <1>1, <3>1, NoRequestTyped DEF SmallTypes
  <2>4. QED
    BY <1>9, <2>1, <2>2, <2>3 DEF VirtualAction
<1>10. QED
  BY <1>2, <1>3, <1>4, <1>5, <1>6, <1>7, <1>8, <1>9, StepKinds DEF Rest

\* The steps of the tasks keep the types of what they change.
MainTypes ==
  /\ mode \in Modes /\ pc \in {"plan", "loop", "dispatch", "join", "capture", "done", "failed"}
  /\ st \in [TaskIds -> Statuses] /\ ws \in [TaskIds -> Tree] /\ repo \in Tree
  /\ IdsOf(tasks) \subseteq TaskIds /\ anyApplied \in BOOLEAN /\ halted \in BOOLEAN
  /\ captured \in [Paths -> Seq(Content)] /\ hooked \in [TaskIds -> Nat]

\* The two parts of TypeOK.
LEMMA TypeParts == TypeOK <=> SmallTypes /\ MainTypes
BY DEF TypeOK, SmallTypes, MainTypes

\* Planned ids are ids.
LEMMA PlannedTyped ==
  ASSUME Executable
  PROVE  PlannedIds \subseteq TaskIds
BY DEF Executable, Named, PlannedIds, IdsOf

\* A step on one workspace of a wave keeps the types.
LEMMA DiskMoveTyped ==
  ASSUME TypeOK, Executable, NEW id, NEW s, NEW W, NEW D, DiskMove(id, s, W, D)
  PROVE  MainTypes'
<1>1. id \in TaskIds
  BY PlannedTyped DEF DiskMove
<1>2. Edited(ws[id], id, W, D) \in Tree
  BY <1>1, EditedTree DEF TypeOK
<1>3. ws' \in [TaskIds -> Tree]
  BY <1>2 DEF TypeOK, DiskMove
<1>4. st' \in [TaskIds -> Statuses]
  BY DEF TypeOK, DiskMove, Statuses, Later, Underway
<1>5. hooked' \in [TaskIds -> Nat]
  <2>1. hooked[id] \in Nat /\ hooked \in [TaskIds -> Nat]
    BY <1>1 DEF TypeOK
  <2> DEFINE h == IF s \in Outcomes THEN hooked[id] + 1 ELSE hooked[id]
  <2>2. h \in Nat
    BY <2>1
  <2> HIDE DEF h
  <2>3. hooked' = [hooked EXCEPT ![id] = h]
    BY DEF DiskMove, h
  <2>4. QED
    BY <2>1, <2>2, <2>3
<1>6. anyApplied' \in BOOLEAN
  BY DEF DiskMove
<1>7. QED
  BY <1>3, <1>4, <1>5, <1>6 DEF MainTypes, TypeOK, DiskMove

\* A step of a zero-disk task keeps the types.
LEMMA VirtualMoveTyped ==
  ASSUME TypeOK, Executable, NEW id, NEW s, VirtualMove(id, s), anyApplied' \in BOOLEAN,
         captured' \in [Paths -> Seq(Content)]
  PROVE  MainTypes'
<1>1. id \in TaskIds
  BY PlannedTyped DEF VirtualMove
<1>2. PICK tree \in Tree : ws' = [ws EXCEPT ![id] = tree]
  BY DEF VirtualMove
<1>3. ws' \in [TaskIds -> Tree]
  BY <1>2 DEF TypeOK
<1>4. st' \in [TaskIds -> Statuses]
  BY DEF TypeOK, VirtualMove, Statuses, Underway
<1>5. hooked' \in [TaskIds -> Nat]
  <2>1. hooked[id] \in Nat /\ hooked \in [TaskIds -> Nat]
    BY <1>1 DEF TypeOK
  <2> DEFINE h == IF s \in Outcomes THEN hooked[id] + 1 ELSE hooked[id]
  <2>2. h \in Nat
    BY <2>1
  <2> HIDE DEF h
  <2>3. hooked' = [hooked EXCEPT ![id] = h]
    BY DEF VirtualMove, h
  <2>4. QED
    BY <2>1, <2>2, <2>3
<1>6. repo' \in Tree
  <2>1. PICK D : repo' = Edited(repo, id, {}, D)
    BY DEF VirtualMove
  <2>2. QED
    BY <1>1, <2>1, EditedTree DEF TypeOK
<1>7. QED
  BY <1>3, <1>4, <1>5, <1>6 DEF MainTypes, TypeOK, VirtualMove

\* What a zero-disk step captures.
LEMMA VirtualCaptureTyped ==
  ASSUME TypeOK, Executable, NEW i \in DOMAIN tasks, VirtualAction(i)
  PROVE  anyApplied' \in BOOLEAN /\ captured' \in [Paths -> Seq(Content)]
<1> DEFINE t == tasks[i]
           id == t.id
<1>1. id \in TaskIds /\ ws[id] \in Tree /\ ws \in [TaskIds -> Tree]
  BY TaskIdsIn DEF TypeOK
<1>2. anyApplied \in BOOLEAN /\ captured \in [Paths -> Seq(Content)]
  BY DEF TypeOK
<1>3. CASE Fetch(t) \/ Post(t) \/ WorkerGarbled(t)
  BY <1>2, <1>3 DEF Fetch, Post, WorkerGarbled, resultVars
<1>4. CASE WorkerMissed(t) \/ WorkerFails(t)
  BY <1>2, <1>4 DEF WorkerMissed, WorkerFails, Finish
<1>5. ASSUME NEW o \in Outcomes, NativeAgent(t, o)
      PROVE  anyApplied' \in BOOLEAN /\ captured' \in [Paths -> Seq(Content)]
  <2>1. PICK W : /\ ws' = [ws EXCEPT ![id] = Edited(ws[id], id, W, {})]
                 /\ captured' = Collect(ws'[id], W)
                 /\ anyApplied' = (anyApplied \/ W # {} \/ o = "applied")
    BY <1>5 DEF NativeAgent
  <2>2. Edited(ws[id], id, W, {}) \in Tree
    BY <1>1, EditedTree
  <2>3. ws'[id] \in Tree
    BY <1>1, <2>1, <2>2
  <2>4. captured' \in [Paths -> Seq(Content)]
    BY <2>1, <2>3, CollectTyped
  <2>5. anyApplied' \in BOOLEAN
    BY <2>1
  <2>6. QED
    BY <2>4, <2>5
<1>6. CASE WorkerEdits(t)
  <2>1. /\ ws' = [ws EXCEPT ![id] = Edited(ws[id], id, Applied(t), {})]
        /\ captured' = Collect(ws'[id], Applied(t)) /\ anyApplied' \in BOOLEAN
    BY <1>6 DEF WorkerEdits, Finish
  <2>2. Edited(ws[id], id, Applied(t), {}) \in Tree
    BY <1>1, EditedTree
  <2>3. ws'[id] \in Tree
    BY <1>1, <2>1, <2>2
  <2>4. QED
    BY <2>1, <2>3, CollectTyped
<1>7. CASE WorkerDiffOnly(t)
  <2>1. PICK W : captured' = Collect(ws[id], W)
    BY <1>7 DEF WorkerDiffOnly
  <2>2. anyApplied' \in BOOLEAN
    BY <1>7 DEF WorkerDiffOnly, Finish
  <2>3. QED
    BY <1>1, <2>1, <2>2, CollectTyped
<1>8. QED
  BY <1>3, <1>4, <1>5, <1>6, <1>7 DEF VirtualAction

\* The task of an id.
LEMMA TaskOfIs ==
  ASSUME Executable, NEW i \in DOMAIN tasks
  PROVE  TaskOf(tasks[i].id) = tasks[i] /\ Position(tasks[i].id) = i
<1>1. \A j \in DOMAIN tasks : tasks[j].id = tasks[i].id => j = i
  BY DEF Executable, Named
<1>2. (CHOOSE j \in DOMAIN tasks : tasks[j].id = tasks[i].id) = i
  BY <1>1
<1>3. QED
  BY <1>2 DEF TaskOf, Position

\* Every task of a wave starts from a tree.
LEMMA StartWaveTyped ==
  ASSUME TypeOK, Executable, StartWave
  PROVE  MainTypes'
<1>1. st' \in [TaskIds -> Statuses]
  BY DEF StartWave, TypeOK, Statuses, Underway
<1>2. ASSUME NEW id \in TaskIds, InWave(id) PROVE Inherited(TaskOf(id)) \in Tree
  <2>1. PICK i \in DOMAIN tasks : tasks[i].id = id
    BY <1>2 DEF InWave, Wave, Ready
  <2>2. TaskOf(id) = tasks[i]
    BY <2>1, TaskOfIs
  <2>3. \A f \in Paths : Inherited(tasks[i])[f] \in Content
    BY InheritedTree
  <2>4. Inherited(tasks[i]) \in Tree
    BY <2>3 DEF Inherited, Tree
  <2>5. QED
    BY <2>2, <2>4
<1>3. ws' \in [TaskIds -> Tree]
  <2>1. \A id \in TaskIds : ws[id] \in Tree
    BY DEF TypeOK
  <2>2. QED
    BY <1>2, <2>1, Zenon DEF StartWave
<1>4. QED
  BY <1>1, <1>3 DEF StartWave, TypeOK, MainTypes, resultVars

\* Every captured version is a content.
LEMMA CapturesTyped ==
  ASSUME TypeOK, Executable, NEW f \in Paths
  PROVE  /\ Captures(f) \in Seq(Content) /\ DOMAIN Captures(f) = 1 .. Cardinality(Changers(f))
         /\ Cardinality(Changers(f)) \in Nat
         /\ \A n \in DOMAIN Captures(f) :
              /\ Nth(Changers(f), n) \in Changers(f)
              /\ Captures(f)[n] = ws[tasks[Nth(Changers(f), n)].id][f]
<1>1. PICK B \in Nat : DOMAIN tasks = 1 .. B
  BY DEF Executable, Named
<1> DEFINE S == Changers(f)
           s == [i \in DOMAIN tasks |-> ws[tasks[i].id][f]]
<1>2. S \subseteq 1 .. B
  BY <1>1 DEF Changers
<1>3. /\ Cardinality(S) \in Nat
      /\ \A n \in 1 .. Cardinality(S) : Nth(S, n) \in S
  BY <1>1, <1>2, NthIn, CountBefore, 0 \in Nat
<1>4. \A i \in S : ws[tasks[i].id][f] \in Content
  <2>1. \A i \in DOMAIN tasks : ws[tasks[i].id] \in Tree
    BY TaskIdsIn DEF TypeOK
  <2>2. QED
    BY <1>1, <1>2, <2>1 DEF Tree
<1> HIDE DEF S
<1>5. Captures(f) = [n \in 1 .. Cardinality(S) |-> ws[tasks[Nth(S, n)].id][f]]
  BY DEF Captures, S
<1>6. Captures(f) \in [1 .. Cardinality(S) -> Content]
  BY <1>3, <1>4, <1>5
<1>7. Captures(f) \in Seq(Content)
  BY <1>3, <1>6
<1>8. QED
  BY <1>3, <1>5, <1>7 DEF S

\* The types are kept.
LEMMA StepTyped ==
  ASSUME DistinctAnswers, TypeOK, Executable, Staged, [Next]_vars
  PROVE  TypeOK' /\ Executable'
<1>1. SmallTypes'
  BY SmallTyped
<1>2. CASE PlanGoal
  <2>1. PICK a \in Answers :
          LET v == ValidatedPlan(a.tasks, a.mentioned, a.first, a.named)
          IN  tasks' = HaveFiles(v.tasks) /\ pc' = IF v.ok THEN "loop" ELSE "failed"
    BY <1>2 DEF PlanGoal
  <2>2. Named(tasks') /\ ~DetectCycle(tasks')
    <3> DEFINE p == ValidatedPlan(a.tasks, a.mentioned, a.first, a.named).tasks
    <3>1. Named(p) /\ ~DetectCycle(p) /\ tasks' = HaveFiles(p)
      BY <2>1, PlanSound
    <3> HIDE DEF p
    <3>2. Named(HaveFiles(p)) /\ Keeps(HaveFiles(p), p)
      BY <3>1, HaveFilesNamed
    <3>3. QED
      BY <3>1, <3>2, NoNewCycle
  <2>3. Executable'
    BY <2>2 DEF Executable
  <2>4. IdsOf(tasks') \subseteq TaskIds
    BY <2>2 DEF Named, IdsOf
  <2>5. pc' \in {"loop", "failed"}
    BY <2>1
  <2>6. MainTypes'
    BY <1>2, <2>4, <2>5 DEF PlanGoal, MainTypes, TypeOK, resultVars
  <2>7. QED
    BY <1>1, <2>3, <2>6, TypeParts DEF TypeOK, SmallTypes, MainTypes
<1>3. CASE StartWave
  <2>1. MainTypes' /\ tasks' = tasks
    BY <1>3, StartWaveTyped DEF StartWave
  <2>2. QED
    BY <1>1, <2>1, SamePlan DEF TypeOK, SmallTypes, MainTypes
<1>4. CASE Halt \/ WavesEnd
  <2>1. MainTypes' /\ tasks' = tasks
    BY <1>4 DEF Halt, WavesEnd, MainTypes, TypeOK, resultVars
  <2>2. QED
    BY <1>1, <2>1, SamePlan DEF TypeOK, SmallTypes, MainTypes
<1>5. CASE Capture
  <2>1. \A f \in Paths : (IF anyApplied THEN Captures(f) ELSE <<>>) \in Seq(Content)
    BY CapturesTyped
  <2>2. captured' \in [Paths -> Seq(Content)]
    BY <1>5, <2>1, Zenon DEF Capture
  <2>3. MainTypes' /\ tasks' = tasks
    BY <1>5, <2>2 DEF Capture, MainTypes, TypeOK
  <2>4. QED
    BY <1>1, <2>3, SamePlan DEF TypeOK, SmallTypes, MainTypes
<1>6. CASE Rest
  <2>1. MainTypes' /\ tasks' = tasks
    BY <1>6 DEF Rest, PlanningFails, CloneFails, DispatchEnds, WaveEnds, LoopEnds, InferenceFails,
                WorkerAnswers, Request, WorkerOnly, vars, MainTypes, TypeOK, resultVars
  <2>2. QED
    BY <1>1, <2>1, SamePlan DEF TypeOK, SmallTypes, MainTypes
<1>7. ASSUME NEW id \in TaskIds, NEW s, NEW W, NEW D, DiskMove(id, s, W, D)
      PROVE  TypeOK' /\ Executable'
  <2>1. MainTypes' /\ tasks' = tasks
    BY <1>7, DiskMoveTyped DEF DiskMove
  <2>2. QED
    BY <1>1, <2>1, SamePlan DEF TypeOK, SmallTypes, MainTypes
<1>8. ASSUME NEW i \in DOMAIN tasks, VirtualAction(i)
      PROVE  TypeOK' /\ Executable'
  <2> DEFINE id == tasks[i].id
  <2>1. PICK s : VirtualMove(id, s)
    BY <1>8, VirtualActionMoves
  <2>2. anyApplied' \in BOOLEAN /\ captured' \in [Paths -> Seq(Content)]
    BY <1>8, VirtualCaptureTyped
  <2> HIDE DEF id
  <2>3. MainTypes'
    BY <2>1, <2>2, VirtualMoveTyped
  <2>4. tasks' = tasks
    BY <2>1 DEF VirtualMove
  <2>5. QED
    BY <1>1, <2>3, <2>4, SamePlan DEF TypeOK, SmallTypes, MainTypes
<1>9. ASSUME NEW i \in DOMAIN tasks, DiskAction(i)
      PROVE  TypeOK' /\ Executable'
  BY <1>7, <1>9, DiskActionMoves, TaskIdsIn
<1>10. ASSUME NEW id \in TaskIds, AgentAction(id)
       PROVE  TypeOK' /\ Executable'
  BY <1>7, <1>10, AgentActionMoves
<1>11. QED
  BY <1>2, <1>3, <1>4, <1>5, <1>6, <1>8, <1>9, <1>10, StepKinds

-----------------------------------------------------------------------------
(* The inductive invariant.                                                 *)

\* Nobody's edits are in the run's own clone.
Clean == \A f \in Paths : Marks(repo[f]) = {}

\* In disk mode a task that has started has everything it waits for, and each file it
\* inherited holds at least the edits of the workspace it came from.
Heirs ==
  mode = "disk" =>
    \A i \in DOMAIN tasks : st[tasks[i].id] # "pending" =>
      /\ ToSet(tasks[i].depends_on) \subseteq Completed
      /\ \A f \in Paths : Donors(tasks[i], f) # {} =>
           Marks(ws[tasks[i].depends_on[Max(Donors(tasks[i], f))]][f]) \subseteq ws[tasks[i].id][f]

\* What the capture saw is what there is at the end.
Reported ==
  mode = "disk" =>
    /\ \A id \in TaskIds : st[id] = "applied" => anyApplied
    /\ pc = "done" =>
         \A f \in Paths : captured[f] = IF anyApplied THEN Captures(f) ELSE <<>>

\* The waves end by themselves only when no task is ready.
Stuck ==
  (mode = "disk" /\ pc \in {"capture", "done"} /\ ~halted) => AllCompleted \/ Ready = {}

IInv == /\ TypeOK /\ Executable /\ Staged /\ Clean /\ IsolatedWork /\ OnlyFinishedWork
        /\ Heirs /\ Reported /\ Stuck /\ HookPerResult

\* Before the plan is known no task has started.
LEMMA NothingPlanned ==
  ASSUME TypeOK, Staged, pc = "plan"
  PROVE  \A id \in TaskIds : st[id] = "pending"
<1>1. PlannedIds = {}
  BY NoTasks DEF Staged, PlannedIds, IdsOf
<1>2. QED
  BY <1>1 DEF Staged

\* Where the tasks are keeps agreeing with where execute_tasks is.
LEMMA StagedStep ==
  ASSUME TypeOK, Executable, Staged, [Next]_vars
  PROVE  Staged'
<1>1. st \in [TaskIds -> Statuses]
  BY DEF TypeOK
<1>2. CASE PlanGoal
  <2>1. \A id \in TaskIds : st'[id] = "pending"
    BY <1>2, NothingPlanned DEF PlanGoal
  <2>2. pc' \in {"loop", "failed"} /\ mode' = mode
    BY <1>2 DEF PlanGoal
  <2>3. QED
    BY <2>1, <2>2 DEF Staged
<1>3. CASE StartWave
  <2>1. /\ pc = "loop" /\ pc' = "dispatch" /\ mode = "disk" /\ tasks' = tasks /\ mode' = mode
        /\ st' = [id \in TaskIds |-> IF InWave(id) THEN "queued" ELSE st[id]]
    BY <1>3 DEF StartWave, CanStart, AtLoop
  <2>2. \A id \in TaskIds : InWave(id) => id \in PlannedIds
    BY DEF InWave, Wave, Ready, PlannedIds, IdsOf
  <2>3. \A id \in TaskIds : st[id] \in {"pending"} \cup Outcomes
    BY <2>1 DEF Staged
  <2>4. \A id \in TaskIds : st'[id] = IF InWave(id) THEN "queued" ELSE st[id]
    BY <2>1
  <2>5. PlannedIds' = PlannedIds
    BY <2>1 DEF PlannedIds
  <2>6. \A id \in TaskIds : st'[id] # "pending" => id \in PlannedIds'
    BY <2>2, <2>4, <2>5 DEF Staged
  <2>7. \A id \in TaskIds : st'[id] \in {"pending"} \cup Outcomes \cup (Underway \ {"fetched", "posted"})
    BY <2>3, <2>4 DEF Underway
  <2>8. QED
    BY <2>1, <2>6, <2>7 DEF Staged
<1>4. CASE Halt \/ WavesEnd \/ Capture
  <2>1. UNCHANGED <<mode, tasks, st>> /\ pc' \in {"capture", "done"} /\ pc \in {"loop", "capture"}
    BY <1>4 DEF Halt, WavesEnd, Capture, AtLoop
  <2>2. mode = "disk"
    BY <1>4 DEF Halt, WavesEnd, Capture, AtLoop, Staged
  <2>3. PlannedIds' = PlannedIds
    BY <2>1 DEF PlannedIds
  <2>4. QED
    BY <2>1, <2>2, <2>3 DEF Staged
<1>5. CASE Rest
  <2>1. UNCHANGED <<mode, tasks, st>>
    BY <1>5 DEF Rest, PlanningFails, CloneFails, DispatchEnds, WaveEnds, LoopEnds, InferenceFails,
                WorkerAnswers, Request, WorkerOnly, vars
  <2>2. PlannedIds' = PlannedIds
    BY <2>1 DEF PlannedIds
  <2>3. \/ pc' = pc
        \/ pc' = "failed" /\ pc \in {"plan", "loop"}
        \/ pc' = "join" /\ pc = "dispatch" /\ mode = "disk"
        \/ pc' = "loop" /\ pc = "join" /\ mode = "disk" /\ In(Underway) = {}
        \/ pc' = "done" /\ pc = "loop" /\ mode # "disk" /\ In({"fetched", "posted"}) = {}
    BY <1>5 DEF Rest, PlanningFails, CloneFails, DispatchEnds, WaveEnds, LoopEnds, InferenceFails,
                WorkerAnswers, Request, WorkerOnly, vars, CanStart, AtLoop, Staged
  <2>4. CASE pc' = pc
    BY <2>1, <2>2, <2>4 DEF Staged
  <2>5. CASE pc' = "failed" /\ pc \in {"plan", "loop"}
    <3>1. \A id \in TaskIds : mode # "disk" => st[id] \notin {"fetched", "posted"} \/ pc = "loop"
      BY DEF Staged, Outcomes
    <3>2. mode # "disk" => \A id \in TaskIds : st[id] \notin {"fetched", "posted"}
      <4>1. mode # "disk" /\ pc = "loop" => PlanningFails \/ CloneFails
        BY <1>5, <2>5 DEF Rest, DispatchEnds, WaveEnds, LoopEnds, InferenceFails,
                WorkerAnswers, Request, WorkerOnly, vars
      <4>2. mode # "disk" => pc # "loop"
        BY <4>1 DEF PlanningFails, CloneFails, CanStart, AtLoop
      <4>3. QED
        BY <3>1, <4>2
    <3>3. QED
      BY <2>1, <2>2, <2>5, <3>2 DEF Staged
  <2>6. CASE pc' = "join" /\ pc = "dispatch" /\ mode = "disk"
    BY <2>1, <2>2, <2>6 DEF Staged
  <2>7. CASE pc' = "loop" /\ pc = "join" /\ mode = "disk" /\ In(Underway) = {}
    <3>1. \A id \in TaskIds : st[id] \notin Underway
      BY <2>7 DEF In
    <3>2. QED
      BY <2>1, <2>2, <2>7, <3>1 DEF Staged
  <2>8. CASE pc' = "done" /\ pc = "loop" /\ mode # "disk" /\ In({"fetched", "posted"}) = {}
    <3>1. \A id \in TaskIds : st[id] \notin {"fetched", "posted"}
      BY <2>8 DEF In
    <3>2. QED
      BY <2>1, <2>2, <2>8, <3>1 DEF Staged
  <2>9. QED
    BY <2>3, <2>4, <2>5, <2>6, <2>7, <2>8
<1>6. ASSUME NEW id \in TaskIds, NEW s, NEW W, NEW D, DiskMove(id, s, W, D)
      PROVE  Staged'
  <2>1. UNCHANGED <<mode, tasks, pc>> /\ mode = "disk" /\ pc \in {"dispatch", "join"}
        /\ id \in PlannedIds
    BY <1>6 DEF DiskMove
  <2>2. PlannedIds' = PlannedIds
    BY <2>1 DEF PlannedIds
  <2>3. \A x \in TaskIds : st'[x] = IF x = id THEN s ELSE st[x]
    BY <1>1, <1>6 DEF DiskMove
  <2>4. s \in {"pending"} \cup Outcomes \cup (Underway \ {"fetched", "posted"})
    BY <1>6 DEF DiskMove, Later, Underway
  <2>5. QED
    BY <2>1, <2>2, <2>3, <2>4 DEF Staged
<1>7. ASSUME NEW id \in TaskIds, NEW s, VirtualMove(id, s)
      PROVE  Staged'
  <2>1. UNCHANGED <<mode, tasks, pc>> /\ mode # "disk" /\ pc = "loop" /\ id \in PlannedIds
        /\ s \in {"dropped", "fetched", "posted"} \cup Outcomes
    BY <1>7 DEF VirtualMove
  <2>2. PlannedIds' = PlannedIds
    BY <2>1 DEF PlannedIds
  <2>3. \A x \in TaskIds : st'[x] = IF x = id THEN s ELSE st[x]
    BY <1>1, <1>7 DEF VirtualMove
  <2>4. QED
    BY <2>1, <2>2, <2>3 DEF Staged
<1>8. ASSUME NEW i \in DOMAIN tasks, DiskAction(i) PROVE Staged'
  BY <1>6, <1>8, DiskActionMoves, TaskIdsIn
<1>9. ASSUME NEW id \in TaskIds, AgentAction(id) PROVE Staged'
  BY <1>6, <1>9, AgentActionMoves
<1>10. ASSUME NEW i \in DOMAIN tasks, VirtualAction(i) PROVE Staged'
  BY <1>7, <1>10, VirtualActionMoves, TaskIdsIn
<1>11. QED
  BY <1>2, <1>3, <1>4, <1>5, <1>8, <1>9, <1>10, StepKinds

\* What a step keeps besides types and stages.
Work == /\ Clean /\ IsolatedWork /\ OnlyFinishedWork
        /\ Heirs /\ Reported /\ Stuck /\ HookPerResult

\* A task that waits for completed tasks keeps its donors.
LEMMA SameDonors ==
  ASSUME tasks' = tasks, NEW i \in DOMAIN tasks, NEW f \in Paths,
         ToSet(tasks[i].depends_on) \subseteq Completed,
         \A d \in Completed : d \in Completed' /\ ws'[d][f] = ws[d][f]
  PROVE  Donors(tasks[i], f)' = Donors(tasks[i], f)
<1> DEFINE deps == tasks[i].depends_on
<1>1. \A k \in DOMAIN deps : deps[k] \in Completed
  BY DEF ToSet
<1>2. \A k \in DOMAIN deps : /\ deps[k] \in Completed' /\ ws'[deps[k]][f] = ws[deps[k]][f]
                             /\ TaskOf(deps[k])' = TaskOf(deps[k])
  BY <1>1 DEF TaskOf
<1>3. Donors(tasks[i], f)' = {k \in DOMAIN deps : f \in ToSet(TaskOf(deps[k]).files) /\ There(ws[deps[k]][f])}
  BY <1>2 DEF Donors, There, TaskOf
<1>4. Donors(tasks[i], f) = {k \in DOMAIN deps : f \in ToSet(TaskOf(deps[k]).files) /\ There(ws[deps[k]][f])}
  BY <1>1 DEF Donors
<1>5. QED
  BY <1>3, <1>4

\* A step on one workspace of a wave keeps everybody's work apart.
LEMMA DiskMoveKeeps ==
  ASSUME IInv, NEW id, NEW s, NEW W, NEW D, DiskMove(id, s, W, D)
  PROVE  Work'
<1>1. /\ id \in TaskIds /\ st[id] \in Later \cup {"queued"} /\ mode = "disk" /\ mode' = mode
      /\ pc \in {"dispatch", "join"} /\ s \in Later \cup Outcomes \cup {"pending"}
      /\ UNCHANGED <<pc, tasks, repo, captured, halted>>
  BY PlannedTyped DEF DiskMove, IInv
<1>2. \A x \in TaskIds : st'[x] = IF x = id THEN s ELSE st[x]
  BY DEF DiskMove, IInv, TypeOK
<1>3. st[id] \notin Outcomes /\ st[id] # "pending" /\ st[id] # "applied"
  BY <1>1 DEF Later, Outcomes
<1>4. id \notin Completed
  BY <1>3 DEF Completed
<1>5. /\ \A x \in Completed : x \in Completed' /\ x # id
      /\ \A x \in TaskIds \ {id} : x \in Completed' <=> x \in Completed
      /\ id \in Completed' <=> s \in Outcomes
  BY <1>1, <1>2, <1>4 DEF Completed
<1> DEFINE e == Edited(ws[id], id, W, D)
<1>6. /\ \A x \in TaskIds : ws'[x] = IF x = id THEN e ELSE ws[x]
      /\ \A f \in Paths : /\ Marks(e[f]) \subseteq Marks(ws[id][f]) \cup {id}
                          /\ Marks(ws[id][f]) \subseteq e[f]
  <2>1. ws \in [TaskIds -> Tree] /\ ws[id] \in Tree
    BY <1>1 DEF IInv, TypeOK
  <2>2. ws' = [ws EXCEPT ![id] = e]
    BY DEF DiskMove
  <2>3. QED
    BY <1>1, <2>1, <2>2, EditedTree
<1> HIDE DEF e
<1>7. Clean'
  BY <1>1 DEF Clean, IInv
<1>8. IsolatedWork'
  <2>1. SUFFICES ASSUME NEW x \in TaskIds, NEW f \in Paths
                 PROVE  Marks(ws'[x][f]) \subseteq Completed' \cup {x}
    BY DEF IsolatedWork, Marks
  <2>2. Marks(ws[x][f]) \subseteq Completed \cup {x}
    BY DEF IInv, IsolatedWork
  <2>3. CASE x = id
    <3>1. Marks(ws'[x][f]) \subseteq Marks(ws[x][f]) \cup {x}
      BY <1>6, <2>3
    <3>2. QED
      BY <1>5, <2>2, <3>1
  <2>4. CASE x # id
    <3>1. ws'[x][f] = ws[x][f]
      BY <1>6, <2>4
    <3>2. QED
      BY <1>5, <2>2, <3>1
  <2>5. QED
    BY <2>3, <2>4
<1>9. OnlyFinishedWork'
  BY <1>1, <1>5 DEF IInv, OnlyFinishedWork, Marks
<1>10. Heirs'
  <2>1. SUFFICES ASSUME NEW i \in DOMAIN tasks, st'[tasks[i].id] # "pending"
                 PROVE  /\ ToSet(tasks[i].depends_on) \subseteq Completed'
                        /\ \A f \in Paths : Donors(tasks[i], f)' # {} =>
                             Marks(ws'[tasks[i].depends_on[Max(Donors(tasks[i], f)')]][f])
                               \subseteq ws'[tasks[i].id][f]
    BY <1>1 DEF Heirs, Marks
  <2> DEFINE x == tasks[i].id
             deps == tasks[i].depends_on
  <2>2. x \in TaskIds
    BY TaskIdsIn DEF IInv
  <2>3. st[x] # "pending"
    BY <1>2, <1>3, <2>1, <2>2
  <2>4. ToSet(deps) \subseteq Completed
    BY <1>1, <2>3 DEF IInv, Heirs
  <2>5. ToSet(deps) \subseteq Completed'
    BY <1>5, <2>4
  <2>6. ASSUME NEW f \in Paths, Donors(tasks[i], f)' # {}
        PROVE  Marks(ws'[deps[Max(Donors(tasks[i], f)')]][f]) \subseteq ws'[x][f]
    <3>1. \A d \in Completed : d \in TaskIds
      BY DEF Completed
    <3>2. \A d \in Completed : d \in Completed' /\ ws'[d][f] = ws[d][f]
      BY <1>5, <1>6, <3>1
    <3>3. Donors(tasks[i], f)' = Donors(tasks[i], f)
      BY <1>1, <2>4, <3>2, SameDonors
    <3> DEFINE k == Max(Donors(tasks[i], f))
    <3>4. deps[k] \in Completed
      BY <2>6, <3>3, InheritedTree DEF IInv
    <3>5. Marks(ws[deps[k]][f]) \subseteq ws[x][f]
      BY <1>1, <2>3, <2>6, <3>3 DEF IInv, Heirs
    <3>6. Marks(ws[deps[k]][f]) \subseteq Marks(ws[x][f])
      BY <3>5 DEF Marks
    <3>7. Marks(ws[x][f]) \subseteq ws'[x][f]
      <4>1. CASE x = id
        BY <1>6, <2>2, <4>1
      <4>2. CASE x # id
        BY <1>6, <2>2, <4>2 DEF Marks
      <4>3. QED
        BY <4>1, <4>2
    <3>8. ws'[deps[k]][f] = ws[deps[k]][f]
      BY <3>2, <3>4
    <3> HIDE DEF k
    <3>9. Marks(ws'[deps[k]][f]) \subseteq ws'[x][f]
      BY <3>6, <3>7, <3>8
    <3>10. QED
      BY <3>3, <3>9 DEF k
  <2>7. QED
    BY <2>5, <2>6
<1>11. Reported'
  <2>1. \A x \in TaskIds : st'[x] = "applied" => anyApplied'
    BY <1>1, <1>2 DEF IInv, Reported, DiskMove
  <2>2. QED
    BY <1>1, <2>1 DEF Reported
<1>12. Stuck'
  BY <1>1 DEF Stuck
<1>13. HookPerResult'
  <2>1. \A x \in TaskIds : hooked[x] = IF x \in Completed THEN 1 ELSE 0
    BY DEF IInv, HookPerResult
  <2>2. \A x \in TaskIds : hooked'[x] = IF x = id THEN (IF s \in Outcomes THEN hooked[id] + 1 ELSE hooked[id])
                                        ELSE hooked[x]
    BY DEF DiskMove, IInv, TypeOK
  <2>3. ASSUME NEW x \in TaskIds PROVE hooked'[x] = IF x \in Completed' THEN 1 ELSE 0
    BY <1>4, <1>5, <2>1, <2>2
  <2>4. QED
    BY <2>3 DEF HookPerResult
<1>14. QED
  BY <1>7, <1>8, <1>9, <1>10, <1>11, <1>12, <1>13 DEF Work

\* So does a step of a zero-disk task.
LEMMA VirtualMoveKeeps ==
  ASSUME IInv, captured' \in [Paths -> Seq(Content)], NEW id, NEW s, VirtualMove(id, s)
  PROVE  Work'
<1>1. /\ id \in TaskIds /\ st[id] \in {"pending", "fetched", "posted"} /\ mode # "disk"
      /\ mode' = mode /\ tasks' = tasks
  BY PlannedTyped DEF VirtualMove, IInv
<1>2. \A x \in TaskIds : st'[x] = IF x = id THEN s ELSE st[x]
  BY DEF VirtualMove, IInv, TypeOK
<1>3. id \notin Completed
  BY <1>1 DEF Completed, Outcomes
<1>4. /\ \A x \in Completed : x \in Completed'
      /\ \A x \in TaskIds \ {id} : x \in Completed' <=> x \in Completed
      /\ id \in Completed' <=> s \in Outcomes
  BY <1>1, <1>2, <1>3 DEF Completed
<1>5. PICK tree \in Tree :
        /\ ws' = [ws EXCEPT ![id] = tree]
        /\ \A f \in Paths : Marks(tree[f]) \subseteq Marks(ws[id][f]) \cup {id}
        /\ \A f \in Paths : \/ captured'[f] = captured[f]
                            \/ s \in Outcomes /\ captured'[f] = Append(captured[f], tree[f])
  BY DEF VirtualMove
<1>6. \A x \in TaskIds : ws'[x] = IF x = id THEN tree ELSE ws[x]
  BY <1>5 DEF IInv, TypeOK
<1>7. \A f \in Paths : Marks(tree[f]) \subseteq Completed \cup {id}
  BY <1>1, <1>5 DEF IInv, IsolatedWork
<1>8. Clean'
  <2>1. PICK D : repo' = Edited(repo, id, {}, D)
    BY DEF VirtualMove
  <2>2. \A f \in Paths : Marks(repo'[f]) = {}
    <3>1. \A f \in Paths : repo'[f] = IF f \in D THEN repo[f] \cup Gone ELSE repo[f]
      BY <2>1 DEF Edited
    <3>2. QED
      BY <3>1 DEF IInv, Clean, Marks
  <2>3. QED
    BY <2>2 DEF Clean, Marks
<1>9. IsolatedWork'
  <2>1. SUFFICES ASSUME NEW x \in TaskIds, NEW f \in Paths
                 PROVE  Marks(ws'[x][f]) \subseteq Completed' \cup {x}
    BY DEF IsolatedWork, Marks
  <2>2. CASE x = id
    <3>1. ws'[x][f] = tree[f]
      BY <1>6, <2>2
    <3>2. QED
      BY <1>4, <1>7, <2>2, <3>1
  <2>3. CASE x # id
    <3>1. ws'[x][f] = ws[x][f] /\ Marks(ws[x][f]) \subseteq Completed \cup {x}
      BY <1>6, <2>3 DEF IInv, IsolatedWork
    <3>2. QED
      BY <1>4, <3>1
  <2>4. QED
    BY <2>2, <2>3
<1>10. OnlyFinishedWork'
  <2>1. SUFFICES ASSUME NEW f \in Paths, NEW n \in DOMAIN captured'[f]
                 PROVE  Marks(captured'[f][n]) \subseteq Completed'
    BY DEF OnlyFinishedWork, Marks
  <2>2. \A m \in DOMAIN captured[f] : Marks(captured[f][m]) \subseteq Completed
    BY DEF IInv, OnlyFinishedWork
  <2>3. CASE captured'[f] = captured[f]
    BY <1>4, <2>2, <2>3
  <2>4. CASE s \in Outcomes /\ captured'[f] = Append(captured[f], tree[f])
    <3>1. captured[f] \in Seq(Content) /\ tree[f] \in Content
      BY DEF IInv, TypeOK, Tree
    <3>2. \/ n \in DOMAIN captured[f] /\ captured'[f][n] = captured[f][n]
          \/ captured'[f][n] = tree[f]
      <4>1. /\ Len(captured[f]) \in Nat /\ DOMAIN captured[f] = 1 .. Len(captured[f])
            /\ DOMAIN captured'[f] = 1 .. Len(captured[f]) + 1
            /\ \A m \in 1 .. Len(captured[f]) : captured'[f][m] = captured[f][m]
            /\ captured'[f][Len(captured[f]) + 1] = tree[f]
        BY <2>4, <3>1
      <4>2. QED
        BY <4>1
    <3>3. CASE n \in DOMAIN captured[f] /\ captured'[f][n] = captured[f][n]
      BY <1>4, <2>2, <3>3
    <3>4. CASE captured'[f][n] = tree[f]
      BY <1>4, <1>7, <2>4, <3>4
    <3>5. QED
      BY <3>2, <3>3, <3>4
  <2>5. QED
    BY <1>5, <2>3, <2>4
<1>11. Heirs' /\ Reported' /\ Stuck'
  BY <1>1 DEF Heirs, Reported, Stuck
<1>12. HookPerResult'
  <2>1. \A x \in TaskIds : hooked[x] = IF x \in Completed THEN 1 ELSE 0
    BY DEF IInv, HookPerResult
  <2>2. \A x \in TaskIds : hooked'[x] = IF x = id THEN (IF s \in Outcomes THEN hooked[id] + 1 ELSE hooked[id])
                                        ELSE hooked[x]
    BY DEF VirtualMove, IInv, TypeOK
  <2>3. ASSUME NEW x \in TaskIds PROVE hooked'[x] = IF x \in Completed' THEN 1 ELSE 0
    BY <1>3, <1>4, <2>1, <2>2
  <2>4. QED
    BY <2>3 DEF HookPerResult
<1>13. QED
  BY <1>8, <1>9, <1>10, <1>11, <1>12 DEF Work

\* A new wave's workspaces hold what completed dependencies left in theirs.
LEMMA StartWaveKeeps ==
  ASSUME IInv, StartWave
  PROVE  Work'
<1>1. /\ mode = "disk" /\ mode' = mode /\ pc' = "dispatch"
      /\ UNCHANGED <<tasks, repo, captured, anyApplied, halted, hooked>>
      /\ ws' = [id \in TaskIds |-> IF InWave(id) THEN Inherited(TaskOf(id)) ELSE ws[id]]
      /\ st' = [id \in TaskIds |-> IF InWave(id) THEN "queued" ELSE st[id]]
  BY DEF StartWave, CanStart, AtLoop, resultVars
<1>2. ASSUME NEW id \in TaskIds, InWave(id)
      PROVE  \E i \in DOMAIN tasks : tasks[i].id = id /\ i \in Ready /\ st[id] = "pending"
  BY <1>2 DEF InWave, Wave, Ready, IsReady
<1>3. \A id \in TaskIds : /\ ws'[id] = IF InWave(id) THEN Inherited(TaskOf(id)) ELSE ws[id]
                          /\ st'[id] = IF InWave(id) THEN "queued" ELSE st[id]
  BY <1>1
<1>4. \A id \in TaskIds : InWave(id) => id \notin Completed
  BY <1>2 DEF Completed, Outcomes
<1>5. \A id \in TaskIds : id \in Completed' <=> id \in Completed
  <2>1. "queued" \notin Outcomes
    BY DEF Outcomes
  <2>2. QED
    BY <1>3, <1>4, <2>1 DEF Completed
<1>6. Completed \subseteq TaskIds
  BY DEF Completed
<1>7. ASSUME NEW d \in Completed, NEW f \in Paths
      PROVE  d \in Completed' /\ ws'[d][f] = ws[d][f]
  BY <1>3, <1>4, <1>5, <1>6
<1>8. Clean'
  BY <1>1 DEF IInv, Clean
<1>9. ASSUME NEW i \in DOMAIN tasks, InWave(tasks[i].id)
      PROVE  /\ ToSet(tasks[i].depends_on) \subseteq Completed
             /\ ws'[tasks[i].id] = Inherited(tasks[i])
  <2>1. PICK j \in DOMAIN tasks : tasks[j].id = tasks[i].id /\ j \in Ready
    BY <1>2, <1>9, TaskIdsIn DEF IInv
  <2>2. j = i
    BY <2>1 DEF IInv, Executable, Named
  <2>3. ToSet(tasks[i].depends_on) \subseteq Completed
    BY <2>1, <2>2 DEF Ready, IsReady
  <2>4. TaskOf(tasks[i].id) = tasks[i] /\ tasks[i].id \in TaskIds
    BY TaskOfIs, TaskIdsIn DEF IInv
  <2>5. QED
    BY <1>3, <1>9, <2>3, <2>4
<1>10. IsolatedWork'
  <2>1. SUFFICES ASSUME NEW x \in TaskIds, NEW f \in Paths
                 PROVE  Marks(ws'[x][f]) \subseteq Completed' \cup {x}
    BY DEF IsolatedWork, Marks
  <2>2. CASE ~InWave(x)
    <3>1. Marks(ws'[x][f]) \subseteq Completed \cup {x}
      BY <1>3, <2>2 DEF IInv, IsolatedWork
    <3>2. QED
      BY <1>5, <1>6, <3>1
  <2>3. CASE InWave(x)
    <3>1. PICK i \in DOMAIN tasks : tasks[i].id = x
      BY <1>2, <2>3
    <3>2. ws'[x][f] = Inherited(tasks[i])[f]
      BY <1>9, <2>3, <3>1
    <3> DEFINE D == Donors(tasks[i], f)
               d == tasks[i].depends_on[Max(D)]
    <3>3. /\ Inherited(tasks[i])[f] = IF D = {} THEN repo[f] ELSE ws[d][f]
          /\ D # {} => d \in Completed /\ d \in TaskIds
      BY InheritedTree DEF IInv
    <3> HIDE DEF D, d
    <3>4. CASE D = {}
      BY <3>2, <3>3, <3>4 DEF IInv, Clean
    <3>5. CASE D # {}
      <4>1. Marks(ws[d][f]) \subseteq Completed \cup {d} /\ d \in Completed
        BY <3>3, <3>5 DEF IInv, IsolatedWork
      <4>2. QED
        BY <1>5, <1>6, <3>2, <3>3, <3>5, <4>1
    <3>6. QED
      BY <3>4, <3>5
  <2>4. QED
    BY <2>2, <2>3
<1>11. OnlyFinishedWork'
  <2>1. \A f \in Paths : \A n \in DOMAIN captured[f] : Marks(captured[f][n]) \subseteq Completed'
    BY <1>5, <1>6 DEF IInv, OnlyFinishedWork
  <2>2. QED
    BY <1>1, <2>1 DEF OnlyFinishedWork, Marks
<1>12. Heirs'
  <2>1. SUFFICES ASSUME NEW i \in DOMAIN tasks, st'[tasks[i].id] # "pending"
                 PROVE  /\ ToSet(tasks[i].depends_on) \subseteq Completed'
                        /\ \A f \in Paths : Donors(tasks[i], f)' # {} =>
                             Marks(ws'[tasks[i].depends_on[Max(Donors(tasks[i], f)')]][f])
                               \subseteq ws'[tasks[i].id][f]
    BY <1>1 DEF Heirs, Marks
  <2> DEFINE x == tasks[i].id
             deps == tasks[i].depends_on
  <2>2. x \in TaskIds
    BY TaskIdsIn DEF IInv
  <2>3. ToSet(deps) \subseteq Completed
    <3>1. CASE InWave(x)
      BY <1>9, <3>1
    <3>2. CASE ~InWave(x)
      <4>1. st[x] # "pending"
        BY <1>3, <2>1, <2>2, <3>2
      <4>2. QED
        BY <1>1, <4>1 DEF IInv, Heirs
    <3>3. QED
      BY <3>1, <3>2
  <2>4. ToSet(deps) \subseteq Completed'
    BY <1>5, <1>6, <2>3
  <2>5. ASSUME NEW f \in Paths, Donors(tasks[i], f)' # {}
        PROVE  Marks(ws'[deps[Max(Donors(tasks[i], f)')]][f]) \subseteq ws'[x][f]
    <3>1. \A d \in Completed : d \in Completed' /\ ws'[d][f] = ws[d][f]
      BY <1>7
    <3>2. Donors(tasks[i], f)' = Donors(tasks[i], f)
      BY <1>1, <2>3, <3>1, SameDonors
    <3> DEFINE D == Donors(tasks[i], f)
               d == deps[Max(D)]
    <3>3. /\ d \in Completed /\ Inherited(tasks[i])[f] = ws[d][f]
      BY <2>5, <3>2, InheritedTree DEF IInv
    <3>4. ws'[d][f] = ws[d][f]
      BY <3>1, <3>3
    <3>5. CASE InWave(x)
      <4>1. ws'[x][f] = ws[d][f]
        BY <1>9, <3>3, <3>5
      <4>2. Marks(ws'[d][f]) \subseteq ws'[x][f]
        BY <3>4, <4>1 DEF Marks
      <4>3. QED
        BY <3>2, <4>2
    <3>6. CASE ~InWave(x)
      <4>1. st[x] # "pending" /\ ws'[x] = ws[x]
        BY <1>3, <2>1, <2>2, <3>6
      <4>2. Marks(ws[d][f]) \subseteq ws[x][f]
        BY <1>1, <2>5, <3>2, <4>1 DEF IInv, Heirs
      <4>3. QED
        BY <3>2, <3>4, <4>1, <4>2
    <3>7. QED
      BY <3>5, <3>6
  <2>6. QED
    BY <2>4, <2>5
<1>13. Reported'
  <2>1. \A x \in TaskIds : st'[x] = "applied" => anyApplied'
    BY <1>1, <1>3 DEF IInv, Reported
  <2>2. QED
    BY <1>1, <2>1 DEF Reported
<1>14. Stuck'
  BY <1>1 DEF Stuck
<1>15. HookPerResult'
  BY <1>1, <1>5 DEF IInv, HookPerResult
<1>16. QED
  BY <1>8, <1>10, <1>11, <1>12, <1>13, <1>14, <1>15 DEF Work

\* What no step of a task has touched.
LEMMA Untouched ==
  ASSUME IInv, UNCHANGED <<mode, tasks, st, ws, repo, hooked>>
  PROVE  Completed' = Completed /\ Clean' /\ IsolatedWork' /\ Heirs' /\ HookPerResult'
<1>1. Completed' = Completed
  BY DEF Completed
<1>2. Clean'
  BY DEF IInv, Clean
<1>3. IsolatedWork'
  BY <1>1 DEF IInv, IsolatedWork
<1>4. HookPerResult'
  BY <1>1 DEF IInv, HookPerResult
<1>5. ASSUME NEW i, NEW f PROVE Donors(tasks[i], f)' = Donors(tasks[i], f)
  BY <1>1 DEF Donors, TaskOf
<1>6. Heirs'
  BY <1>1, <1>5, Zenon DEF IInv, Heirs
<1>7. QED
  BY <1>1, <1>2, <1>3, <1>4, <1>6

\* Planning, the ends of waves and the capture of what changed report finished work only.
LEMMA OtherStepsKeep ==
  ASSUME DistinctAnswers, IInv, PlanGoal \/ Halt \/ WavesEnd \/ Capture \/ Rest
  PROVE  Work'
<1>1. CASE PlanGoal
  <2>1. UNCHANGED <<mode, st, ws, repo, hooked, captured, anyApplied>> /\ pc' \in {"loop", "failed"}
    BY <1>1 DEF PlanGoal, resultVars
  <2>2. Completed' = Completed
    BY <2>1 DEF Completed
  <2>3. Clean' /\ IsolatedWork' /\ OnlyFinishedWork' /\ HookPerResult'
    BY <2>1, <2>2 DEF IInv, Clean, IsolatedWork, OnlyFinishedWork, HookPerResult
  <2>4. \A id \in TaskIds : st'[id] = "pending"
    BY <1>1, <2>1, NothingPlanned DEF IInv, PlanGoal
  <2>5. \A i \in DOMAIN tasks' : tasks'[i].id \in TaskIds
    BY <1>1, StepTyped DEF IInv, Next, System, Executable, Named
  <2>6. Heirs'
    BY <2>4, <2>5 DEF Heirs
  <2>7. Reported' /\ Stuck'
    BY <2>1, <2>4 DEF Reported, Stuck
  <2>8. QED
    BY <2>3, <2>6, <2>7 DEF Work
<1>2. CASE Halt \/ WavesEnd
  <2>1. UNCHANGED <<mode, tasks, st, ws, repo, hooked, captured, anyApplied>> /\ pc' = "capture"
    BY <1>2 DEF Halt, WavesEnd, resultVars
  <2>2. Completed' = Completed /\ Clean' /\ IsolatedWork' /\ Heirs' /\ HookPerResult'
    BY <2>1, Untouched
  <2>3. OnlyFinishedWork'
    BY <2>1, <2>2 DEF IInv, OnlyFinishedWork
  <2>4. Reported'
    BY <2>1 DEF IInv, Reported
  <2>5. Ready' = Ready /\ AllCompleted' = AllCompleted
    BY <2>1, <2>2 DEF Ready, IsReady, AllCompleted, PlannedIds
  <2>6. Stuck'
    BY <1>2, <2>5 DEF Stuck, Halt, WavesEnd
  <2>7. QED
    BY <2>2, <2>3, <2>4, <2>6 DEF Work
<1>3. CASE Capture
  <2>1. /\ UNCHANGED <<mode, tasks, st, ws, repo, hooked, anyApplied, halted>>
        /\ pc = "capture" /\ pc' = "done" /\ mode = "disk"
        /\ captured' = [f \in Paths |-> IF anyApplied THEN Captures(f) ELSE <<>>]
    BY <1>3 DEF Capture, IInv, Staged
  <2>2. Completed' = Completed /\ Clean' /\ IsolatedWork' /\ Heirs' /\ HookPerResult'
    BY <2>1, Untouched
  <2>3. OnlyFinishedWork'
    <3>1. SUFFICES ASSUME NEW f \in Paths, NEW n \in DOMAIN captured'[f]
                   PROVE  Marks(captured'[f][n]) \subseteq Completed
      BY <2>2 DEF OnlyFinishedWork, Marks
    <3>2. captured'[f] = IF anyApplied THEN Captures(f) ELSE <<>>
      BY <2>1
    <3>3. captured'[f] = Captures(f)
      <4>1. DOMAIN <<>> = {}
        BY NoTasks
      <4>2. QED
        BY <3>1, <3>2, <4>1
    <3> DEFINE i == Nth(Changers(f), n)
    <3>4. i \in Changers(f) /\ captured'[f][n] = ws[tasks[i].id][f]
      BY <3>1, <3>3, CapturesTyped DEF IInv
    <3> HIDE DEF i
    <3>5. i \in DOMAIN tasks /\ tasks[i].id \in TaskIds /\ tasks[i].id \in Completed
      BY <3>4, TaskIdsIn DEF IInv, Changers, Completed, Outcomes
    <3>6. Marks(ws[tasks[i].id][f]) \subseteq Completed \cup {tasks[i].id}
      BY <3>5 DEF IInv, IsolatedWork
    <3>7. QED
      BY <3>4, <3>5, <3>6
  <2>4. \A f \in Paths : Captures(f)' = Captures(f)
    BY <2>1 DEF Captures, Changers, HasChanged, Differs, Listed
  <2>5. Reported'
    BY <2>1, <2>4 DEF IInv, Reported
  <2>6. Ready' = Ready /\ AllCompleted' = AllCompleted
    BY <2>1, <2>2 DEF Ready, IsReady, AllCompleted, PlannedIds
  <2>7. Stuck'
    BY <2>1, <2>6 DEF IInv, Stuck
  <2>8. QED
    BY <2>2, <2>3, <2>5, <2>7 DEF Work
<1>4. CASE Rest
  <2>1. UNCHANGED <<mode, tasks, st, ws, repo, hooked, captured, anyApplied, halted>>
    BY <1>4 DEF Rest, PlanningFails, CloneFails, DispatchEnds, WaveEnds, LoopEnds, InferenceFails,
                WorkerAnswers, Request, WorkerOnly, vars, resultVars
  <2>2. pc' = pc \/ pc' \notin {"capture", "done"} \/ mode # "disk"
    BY <1>4 DEF Rest, PlanningFails, CloneFails, DispatchEnds, WaveEnds, LoopEnds, InferenceFails,
                WorkerAnswers, Request, WorkerOnly, vars
  <2>3. Completed' = Completed /\ Clean' /\ IsolatedWork' /\ Heirs' /\ HookPerResult'
    BY <2>1, Untouched
  <2>4. OnlyFinishedWork'
    BY <2>1, <2>3 DEF IInv, OnlyFinishedWork
  <2>5. \A f \in Paths : Captures(f)' = Captures(f)
    BY <2>1 DEF Captures, Changers, HasChanged, Differs, Listed
  <2>6. Reported'
    BY <2>1, <2>2, <2>5 DEF IInv, Reported
  <2>7. Ready' = Ready /\ AllCompleted' = AllCompleted
    BY <2>1, <2>3 DEF Ready, IsReady, AllCompleted, PlannedIds
  <2>8. Stuck'
    BY <2>1, <2>2, <2>7 DEF IInv, Stuck
  <2>9. QED
    BY <2>3, <2>4, <2>6, <2>8 DEF Work
<1>5. QED
  BY <1>1, <1>2, <1>3, <1>4

\* The inductive invariant holds before anything is planned.
LEMMA InitInv == Init => IInv
<1> SUFFICES ASSUME Init PROVE IInv
  OBVIOUS
<1>1. TypeOK /\ Executable
  BY InitTyped
<1>2. \A id \in TaskIds : st[id] = "pending" /\ ws[id] = Missing /\ hooked[id] = 0
  BY DEF Init
<1>3. Completed = {}
  BY <1>2 DEF Completed, Outcomes
<1>4. Clean /\ IsolatedWork
  BY <1>2, Trees DEF Init, Clean, IsolatedWork
<1>5. OnlyFinishedWork
  <2>1. \A f \in Paths : DOMAIN captured[f] = {}
    BY NoTasks DEF Init
  <2>2. QED
    BY <2>1 DEF OnlyFinishedWork
<1>6. Heirs
  BY <1>1, <1>2, TaskIdsIn DEF Heirs
<1>7. Reported /\ Stuck /\ HookPerResult
  BY <1>2, <1>3 DEF Init, Reported, Stuck, HookPerResult
<1>8. Staged
  BY <1>2 DEF Init, Staged
<1>9. QED
  BY <1>1, <1>4, <1>5, <1>6, <1>7, <1>8 DEF IInv

\* Every step keeps it.
LEMMA StepInv ==
  ASSUME DistinctAnswers, IInv, [Next]_vars
  PROVE  IInv'
<1>1. TypeOK' /\ Executable' /\ Staged'
  BY StepTyped, StagedStep DEF IInv
<1>2. ASSUME NEW id, NEW s, NEW W, NEW D, DiskMove(id, s, W, D) PROVE Work'
  BY <1>2, DiskMoveKeeps
<1>3. ASSUME NEW i \in DOMAIN tasks, DiskAction(i) PROVE Work'
  BY <1>2, <1>3, DiskActionMoves DEF IInv
<1>4. ASSUME NEW id \in TaskIds, AgentAction(id) PROVE Work'
  BY <1>2, <1>4, AgentActionMoves DEF IInv
<1>5. ASSUME NEW i \in DOMAIN tasks, VirtualAction(i) PROVE Work'
  <2>1. captured' \in [Paths -> Seq(Content)]
    BY <1>5, VirtualCaptureTyped DEF IInv
  <2> DEFINE id == tasks[i].id
  <2>2. PICK s : VirtualMove(id, s)
    BY <1>5, VirtualActionMoves DEF IInv
  <2> HIDE DEF id
  <2>3. QED
    BY <2>1, <2>2, VirtualMoveKeeps
<1>6. Work'
  BY <1>3, <1>4, <1>5, StepKinds, StartWaveKeeps, OtherStepsKeep
<1>7. QED
  BY <1>1, <1>6 DEF IInv, Work

\* The inductive invariant holds in every reachable state.
THEOREM Inductive ==
  ASSUME DistinctAnswers
  PROVE  Spec => []IInv
<1>1. IInv /\ [Next]_vars => IInv'
  BY StepInv
<1>2. QED
  BY <1>1, InitInv, PTL DEF Spec

\* Every variable keeps its type: statuses, trees, requests and results.
THEOREM Typed ==
  ASSUME DistinctAnswers
  PROVE  Spec => []TypeOK
<1>1. IInv => TypeOK
  BY DEF IInv
<1>2. QED
  BY <1>1, Inductive, PTL

\* Agents work in isolated clones (memtree.rs): besides its own task's edits a
\* workspace holds only those of completed tasks, whatever panics, fails or is halted.
THEOREM WorkIsIsolated ==
  ASSUME DistinctAnswers
  PROVE  Spec => []IsolatedWork
<1>1. IInv => IsolatedWork
  BY DEF IInv
<1>2. QED
  BY <1>1, Inductive, PTL

\* A run reports only what tasks that completed wrote: no halt, panic or stuck plan
\* leaks half-done edits into modified_files, in disk mode or without a disk.
THEOREM FinishedWorkOnly ==
  ASSUME DistinctAnswers
  PROVE  Spec => []OnlyFinishedWork
<1>1. IInv => OnlyFinishedWork
  BY DEF IInv
<1>2. QED
  BY <1>1, Inductive, PTL

\* Every result fires its task hook once, and nothing else does: retries after a panic
\* neither repeat nor lose one.
THEOREM OneHookPerResult ==
  ASSUME DistinctAnswers
  PROVE  Spec => []HookPerResult
<1>1. IInv => HookPerResult
  BY DEF IInv
<1>2. QED
  BY <1>1, Inductive, PTL

\* The waves of a run that was not halted leave a task out only where some dependency
\* names a task that is not in the plan: since parse_plan refuses cycles, and the scope
\* guard and the collapse make none, "possible cycle" never is one, in a plan whose
\* answer has distinct ids.
THEOREM StuckNeverOnCycle ==
  ASSUME DistinctAnswers
  PROVE  Spec => []StuckOnlyOnDangling
<1>1. ASSUME IInv PROVE StuckOnlyOnDangling
  <2>1. SUFFICES ASSUME pc = "done", mode = "disk", ~halted, ~AllCompleted,
                        \A id \in PlannedIds \ Completed : ~Dangling(tasks, id)
                 PROVE  FALSE
    BY DEF StuckOnlyOnDangling
  <2> DEFINE S == PlannedIds \ Completed
  <2>2. Ready = {}
    BY <1>1, <2>1 DEF IInv, Stuck
  <2>3. S \in (SUBSET IdsOf(tasks)) \ {{}}
    BY <2>1 DEF AllCompleted, PlannedIds
  <2>4. ASSUME NEW id \in S
        PROVE  \E i \in DOMAIN tasks : tasks[i].id = id /\ ToSet(tasks[i].depends_on) \cap S # {}
    <3>1. PICK i \in DOMAIN tasks : tasks[i].id = id
      BY <2>4 DEF PlannedIds, IdsOf
    <3>2. id \in TaskIds
      BY <1>1, <3>1, TaskIdsIn DEF IInv
    <3>3. st[id] = "pending"
      BY <1>1, <2>1, <2>4, <3>2 DEF IInv, Staged, Completed
    <3>4. ~(ToSet(tasks[i].depends_on) \subseteq Completed)
      BY <2>2, <3>1, <3>3 DEF Ready, IsReady
    <3>5. ToSet(tasks[i].depends_on) \subseteq PlannedIds
      BY <2>1, <2>4, <3>1 DEF Dangling, PlannedIds
    <3>6. QED
      BY <3>1, <3>4, <3>5
  <2>5. DetectCycle(tasks)
    <3> HIDE DEF S
    <3>1. QED
      BY <2>3, <2>4 DEF DetectCycle
  <2>6. QED
    BY <1>1, <2>5 DEF IInv, Executable
<1>2. QED
  BY <1>1, Inductive, PTL

-----------------------------------------------------------------------------
(* The waves execute the plan's graph.                                      *)

Running == IF DiskPlan THEN In(Underway) ELSE {}
Over    == IF DiskPlan THEN Completed ELSE {}

\* A wave holds no more tasks than there may be agents.
LEMMA WaveFits ==
  ASSUME TypeOK, Executable
  PROVE  Cardinality({id \in TaskIds : InWave(id)}) <= MaxConcurrent
<1> DEFINE S == {id \in TaskIds : InWave(id)}
           f == [i \in Wave |-> tasks[i].id]
<1>1. PICK B \in Nat : DOMAIN tasks = 1 .. B
  BY DEF Executable, Named
<1>2. Ready \subseteq 1 .. B
  BY <1>1 DEF Ready
<1>3. IsFiniteSet(Wave) /\ Cardinality(Wave) \in Nat /\ Cardinality(Wave) <= MaxConcurrent
  BY <1>1, <1>2, FirstFew, RunnerAssumption DEF Wave
<1>4. f \in Surjection(Wave, S)
  <2>1. \A i \in Wave : tasks[i].id \in S
    BY TaskIdsIn DEF Wave, Ready, InWave
  <2>2. f \in [Wave -> S]
    BY <2>1
  <2>3. \A id \in S : \E i \in Wave : f[i] = id
    BY DEF InWave
  <2>4. QED
    BY <2>2, <2>3, Zenon DEF Surjection
<1>5. IsFiniteSet(S) /\ Cardinality(S) <= Cardinality(Wave)
  BY <1>3, <1>4, FS_Surjection
<1>6. Cardinality(S) \in Nat
  BY <1>5, FS_CardinalityType
<1>7. QED
  BY <1>3, <1>5, <1>6, RunnerAssumption

\* The size of a set is the same in both modules.
LEMMA SameSize == \A S : Dag!Cardinality(S) = Cardinality(S)
BY Zenon DEF Dag!Cardinality, Cardinality

\* Initially the graph has no edges and nothing runs.
LEMMA DagInit == Init => Dag!Init
<1> SUFFICES ASSUME Init PROVE Dag!Init
  OBVIOUS
<1>1. PlannedIds = {}
  BY NoTasks DEF Init, PlannedIds, IdsOf
<1>2. Needs = [id \in TaskIds |-> {}]
  BY <1>1 DEF Needs
<1>3. In(Underway) = {} /\ Completed = {}
  BY DEF Init, In, Underway, Completed, Outcomes
<1>4. QED
  BY <1>2, <1>3 DEF Dag!Init

\* Every step is one of the graph's, or none.
LEMMA DagStep == IInv /\ [Next]_vars => [Dag!Next]_<<Needs, Running, Over>>
<1> SUFFICES ASSUME IInv, [Next]_vars
             PROVE  Dag!Next \/ UNCHANGED <<Needs, Running, Over>>
  BY DEF Running, Over
<1>1. ASSUME UNCHANGED <<mode, tasks>> PROVE Needs' = Needs /\ DiskPlan' = DiskPlan
  BY <1>1 DEF Needs, DiskPlan, PlannedIds, TaskOf
<1>2. ASSUME UNCHANGED <<mode, tasks, st>> PROVE UNCHANGED <<Needs, Running, Over>>
  BY <1>1, <1>2 DEF Running, Over, In, Completed
<1>3. CASE PlanGoal
  <2>1. \A id \in TaskIds : st[id] = "pending" /\ st'[id] = "pending"
    BY <1>3, NothingPlanned DEF IInv, PlanGoal
  <2>2. Running = {} /\ Over = {} /\ Running' = {} /\ Over' = {}
    BY <2>1 DEF Running, Over, In, Completed, Underway, Outcomes
  <2>3. Needs' \in [TaskIds -> SUBSET TaskIds]
    BY DEF Needs
  <2>4. Dag!Plan
    BY <2>2, <2>3 DEF Dag!Plan, Running, Over
  <2>5. QED
    BY <2>4 DEF Dag!Next
<1>4. CASE Halt \/ WavesEnd \/ Capture
  BY <1>2, <1>4 DEF Halt, WavesEnd, Capture
<1>5. CASE Rest
  <2>1. UNCHANGED <<mode, tasks, st>>
    BY <1>5 DEF Rest, PlanningFails, CloneFails, DispatchEnds, WaveEnds, LoopEnds, InferenceFails,
                WorkerAnswers, Request, WorkerOnly, vars
  <2>2. QED
    BY <1>2, <2>1
<1>6. CASE StartWave
  <2> DEFINE S == {id \in TaskIds : InWave(id)}
  <2>1. /\ UNCHANGED <<mode, tasks>> /\ mode = "disk" /\ pc = "loop"
        /\ \A id \in TaskIds : st'[id] = IF InWave(id) THEN "queued" ELSE st[id]
    BY <1>6 DEF StartWave, CanStart, AtLoop
  <2>2. Needs' = Needs /\ DiskPlan /\ DiskPlan'
    BY <1>1, <2>1 DEF DiskPlan
  <2>3. \A id \in TaskIds : st[id] \in {"pending"} \cup Outcomes
    BY <2>1 DEF IInv, Staged
  <2>4. Running = {}
    BY <2>3 DEF Running, In, Underway, Outcomes
  <2>5. ASSUME NEW id \in S
        PROVE  st[id] = "pending" /\ Needs[id] \subseteq Completed
    <3>1. PICK i \in DOMAIN tasks : tasks[i].id = id /\ IsReady(tasks[i])
      BY <2>5 DEF InWave, Wave, Ready
    <3>2. TaskOf(id) = tasks[i]
      BY <3>1, TaskOfIs DEF IInv
    <3>3. Needs[id] \subseteq ToSet(tasks[i].depends_on)
      BY <2>5, <3>2 DEF Needs
    <3>4. QED
      BY <3>1, <3>3 DEF IsReady
  <2>6. Running' = S
    BY <2>1, <2>2, <2>3 DEF Running, In, Underway, Outcomes
  <2>7. Over' = Over /\ Over = Completed
    <3>1. \A id \in TaskIds : st'[id] \in Outcomes <=> st[id] \in Outcomes
      BY <2>1, <2>5 DEF Outcomes
    <3>2. QED
      BY <2>2, <3>1 DEF Over, Completed
  <2>8. S \cap (Running \cup Over) = {}
    BY <2>4, <2>5, <2>7 DEF Completed, Outcomes
  <2>9. Cardinality(Running \cup S) <= MaxConcurrent
    BY <2>4, WaveFits DEF IInv
  <2>10. Dag!Start(S)
    <3> HIDE DEF S
    <3>1. /\ S \cap (Running \cup Over) = {}
          /\ \A t \in S : Needs[t] \subseteq Over
          /\ Cardinality(Running \cup S) <= MaxConcurrent
          /\ Running' = Running \cup S
          /\ UNCHANGED <<Needs, Over>>
      BY <2>2, <2>4, <2>5, <2>6, <2>7, <2>8, <2>9
    <3>2. QED
      BY <3>1, SameSize DEF Dag!Start, Running, Over
  <2>11. QED
    BY <2>10 DEF Dag!Next
<1>7. ASSUME NEW id, NEW s, NEW W, NEW D, DiskMove(id, s, W, D)
      PROVE  Dag!Next \/ UNCHANGED <<Needs, Running, Over>>
  <2>1. /\ id \in TaskIds /\ st[id] \in Later \cup {"queued"} /\ UNCHANGED <<mode, tasks>>
        /\ mode = "disk" /\ s \in Later \cup Outcomes \cup {"pending"}
    BY <1>7, PlannedTyped DEF DiskMove, IInv
  <2>2. \A x \in TaskIds : st'[x] = IF x = id THEN s ELSE st[x]
    BY <1>7 DEF DiskMove, IInv, TypeOK
  <2>3. Needs' = Needs /\ DiskPlan /\ DiskPlan'
    BY <1>1, <2>1 DEF DiskPlan
  <2>4. id \in Running /\ id \notin Over
    BY <2>1, <2>3 DEF Running, Over, In, Completed, Later, Underway, Outcomes
  <2>5. CASE s \in Later
    <3>1. Running' = Running /\ Over' = Over
      BY <2>1, <2>2, <2>3, <2>5 DEF Running, Over, In, Completed, Later, Underway, Outcomes
    <3>2. QED
      BY <2>3, <3>1
  <2>6. CASE s \in Outcomes
    <3>1. Running' = Running \ {id} /\ Over' = Over \cup {id}
      BY <2>1, <2>2, <2>3, <2>6 DEF Running, Over, In, Completed, Later, Underway, Outcomes
    <3>2. Dag!End(id)
      BY <2>3, <2>4, <3>1 DEF Dag!End, Running, Over
    <3>3. QED
      BY <2>1, <3>2 DEF Dag!Next
  <2>7. CASE s = "pending"
    <3>1. Running' = Running \ {id} /\ Over' = Over
      BY <2>1, <2>2, <2>3, <2>7 DEF Running, Over, In, Completed, Later, Underway, Outcomes
    <3>2. Dag!FallBack(id)
      BY <2>3, <2>4, <3>1 DEF Dag!FallBack, Running, Over
    <3>3. QED
      BY <2>1, <3>2 DEF Dag!Next
  <2>8. QED
    BY <2>1, <2>5, <2>6, <2>7
<1>8. ASSUME NEW i \in DOMAIN tasks, DiskAction(i)
      PROVE  Dag!Next \/ UNCHANGED <<Needs, Running, Over>>
  BY <1>7, <1>8, DiskActionMoves DEF IInv
<1>9. ASSUME NEW id \in TaskIds, AgentAction(id)
      PROVE  Dag!Next \/ UNCHANGED <<Needs, Running, Over>>
  BY <1>7, <1>9, AgentActionMoves DEF IInv
<1>10. ASSUME NEW i \in DOMAIN tasks, VirtualAction(i)
       PROVE  UNCHANGED <<Needs, Running, Over>>
  <2>1. PICK s : VirtualMove(tasks[i].id, s)
    BY <1>10, VirtualActionMoves DEF IInv
  <2>2. mode # "disk" /\ UNCHANGED <<mode, tasks>>
    BY <2>1 DEF VirtualMove
  <2>3. QED
    BY <1>1, <2>2 DEF Running, Over, DiskPlan
<1>11. QED
  BY <1>3, <1>4, <1>5, <1>6, <1>8, <1>9, <1>10, StepKinds

\* The waves execute the plan's graph, whatever falls back to an agent, panics or is
\* halted: a task starts when all it depends on has ended, no more run at once than
\* there may be agents, and what has ended never starts again.
THEOREM WavesExecuteDag ==
  ASSUME DistinctAnswers
  PROVE  Spec => ExecutesDag
<1>1. Init => Dag!Init
  BY DagInit
<1>2. IInv /\ [Next]_vars => [Dag!Next]_<<Needs, Running, Over>>
  BY DagStep
<1>3. IInv /\ [Next]_vars =>
        [Dag!Next]_<<Needs, IF DiskPlan THEN In(Underway) ELSE {}, IF DiskPlan THEN Completed ELSE {}>>
  BY <1>2 DEF Running, Over
<1>4. IInv /\ [Next]_vars => IInv'
  BY StepInv
<1>5. QED
  BY <1>1, <1>3, <1>4, InitInv, PTL DEF Spec, ExecutesDag, Dag!Spec

-----------------------------------------------------------------------------
(* Which edits the reported version of a file holds.                        *)

\* Where every task on a file waits for every other one, in the plan's order, and
\* declares it, the edits a task applied are in the workspace of each later one.
LEMMA EditsHandedOn ==
  ASSUME IInv, mode = "disk", InPlanOrder, NEW f \in Paths, Chained(f),
         NEW i \in DOMAIN tasks, st[tasks[i].id] = "applied",
         tasks[i].id \in ws[tasks[i].id][f], There(ws[tasks[i].id][f])
  PROVE  \A j \in DOMAIN tasks :
           (j > i /\ st[tasks[j].id] # "pending" /\ Concerned(j, f)) =>
             tasks[i].id \in ws[tasks[j].id][f]
<1> DEFINE id == tasks[i].id
           T == {j \in DOMAIN tasks : /\ j > i /\ st[tasks[j].id] # "pending" /\ Concerned(j, f)
                                      /\ id \notin ws[tasks[j].id][f]}
<1>1. PICK B \in Nat : DOMAIN tasks = 1 .. B
  BY DEF IInv, Executable, Named
<1>2. id \in TaskIds /\ id \in Completed /\ id \in PlannedIds /\ id # "-"
  BY TaskIdsIn, RunnerAssumption DEF IInv, Completed, Outcomes
<1>3. Concerned(i, f)
  <2>1. ws[id][f] # repo[f]
    BY <1>2 DEF IInv, Clean, Marks, Gone
  <2>2. st[id] # "pending"
    OBVIOUS
  <2>3. QED
    BY <2>1, <2>2 DEF Concerned
<1>4. SUFFICES ASSUME T # {} PROVE FALSE
  OBVIOUS
<1>5. PICK j \in T : \A k \in T : j <= k
  <2>1. T \subseteq Nat
    BY <1>1
  <2> HIDE DEF T
  <2>2. QED
    BY <1>4, <2>1, LeastExists
<1>6. j \in DOMAIN tasks /\ i \in Nat /\ j \in Nat /\ j > i
  BY <1>1
<1> DEFINE x == tasks[j].id
           deps == tasks[j].depends_on
<1>7. x \in TaskIds /\ st[x] # "pending" /\ Concerned(j, f) /\ id \notin ws[x][f]
  BY <1>6, TaskIdsIn DEF IInv
<1>8. /\ deps \in Seq(TaskIds) /\ tasks[i].depends_on \in Seq(TaskIds)
      /\ ToSet(deps) \subseteq Completed
  BY <1>6, <1>7 DEF IInv, Executable, Named, Heirs
<1>9. \A k \in DOMAIN tasks : TaskOf(tasks[k].id) = tasks[k] /\ Position(tasks[k].id) = k
  BY TaskOfIs DEF IInv
<1>10. \A k \in DOMAIN tasks : \A m \in DOMAIN tasks[k].depends_on :
         tasks[k].depends_on[m] \in PlannedIds =>
           /\ Position(tasks[k].depends_on[m]) < k
           /\ \A l \in 1 .. m - 1 : tasks[k].depends_on[l] \in PlannedIds =>
                Position(tasks[k].depends_on[l]) < Position(tasks[k].depends_on[m])
  <2>1. SUFFICES ASSUME NEW k \in DOMAIN tasks, NEW m \in DOMAIN tasks[k].depends_on,
                        tasks[k].depends_on[m] \in PlannedIds
                 PROVE  /\ Position(tasks[k].depends_on[m]) < k
                        /\ \A l \in 1 .. m - 1 : tasks[k].depends_on[l] \in PlannedIds =>
                             Position(tasks[k].depends_on[l]) < Position(tasks[k].depends_on[m])
    OBVIOUS
  <2> DEFINE e == tasks[k].depends_on
             at == [n \in DOMAIN e |-> IF e[n] \in PlannedIds THEN Position(e[n]) ELSE 0]
  <2>2. at[m] < k /\ \A l \in 1 .. m - 1 : at[l] < at[m]
    BY <2>1 DEF InPlanOrder
  <2>3. e \in Seq(TaskIds)
    BY DEF IInv, Executable, Named
  <2>4. \A l \in 1 .. m - 1 : l \in DOMAIN e
    BY <2>1, <2>3
  <2>5. at[m] = Position(e[m])
    BY <2>1
  <2>6. ASSUME NEW l \in 1 .. m - 1, e[l] \in PlannedIds PROVE at[l] = Position(e[l])
    BY <2>4, <2>6
  <2>7. QED
    BY <2>2, <2>5, <2>6
<1>11. id \in ToSet(deps) /\ f \in ToSet(tasks[i].files)
  <2>1. x \notin ToSet(tasks[i].depends_on)
    <3>1. SUFFICES ASSUME NEW m \in DOMAIN tasks[i].depends_on, tasks[i].depends_on[m] = x
                   PROVE  FALSE
      BY DEF ToSet
    <3>2. x \in PlannedIds
      BY <1>6, TaskIdsIn DEF IInv
    <3>3. Position(x) < i /\ Position(x) = j
      BY <1>6, <1>9, <1>10, <3>1, <3>2
    <3>4. QED
      BY <1>6, <3>3
  <2>2. i # j
    BY <1>6
  <2>3. QED
    BY <1>3, <1>6, <1>7, <2>1, <2>2 DEF Chained
<1>12. PICK a \in DOMAIN deps : deps[a] = id
  BY <1>11 DEF ToSet
<1> DEFINE D == Donors(tasks[j], f)
           c == Max(D)
           d == deps[c]
<1>13. a \in D
  BY <1>2, <1>9, <1>11, <1>12 DEF Donors
<1>14. c \in D /\ a <= c /\ a \in Nat /\ c \in Nat /\ d \in Completed /\ d \in TaskIds
  BY <1>6, <1>13, InheritedTree DEF IInv
<1>15. /\ c \in DOMAIN deps /\ f \in ToSet(TaskOf(d).files) /\ st[d] # "pending"
  <2>1. c \in DOMAIN deps /\ f \in ToSet(TaskOf(d).files)
    BY <1>14 DEF Donors
  <2>2. st[d] # "pending"
    BY <1>14 DEF Completed, Outcomes
  <2>3. QED
    BY <2>1, <2>2
<1>16. Marks(ws[d][f]) \subseteq ws[x][f]
  BY <1>6, <1>7, <1>13 DEF IInv, Heirs
<1>17. d \in PlannedIds
  BY <1>14, <1>15 DEF IInv, Staged
<1>18. PICK p \in DOMAIN tasks : tasks[p].id = d
  BY <1>17 DEF PlannedIds, IdsOf
<1> HIDE DEF T, D, c, d, x
<1>19. p \in Nat /\ Position(d) = p /\ TaskOf(d) = tasks[p]
  BY <1>1, <1>9, <1>18
<1>20. p < j
  <2>1. Position(deps[c]) < j
    BY <1>6, <1>10, <1>15, <1>17 DEF d
  <2>2. QED
    BY <1>19, <2>1 DEF d
<1>21. CASE a = c
  <2>1. d = id
    BY <1>12, <1>21 DEF d
  <2>2. id \in Marks(ws[d][f])
    BY <1>2, <2>1 DEF Marks, Gone
  <2>3. QED
    BY <1>7, <1>16, <2>2
<1>22. CASE a # c
  <2>1. DOMAIN deps = 1 .. Len(deps) /\ Len(deps) \in Nat
    BY <1>8
  <2>2. a \in 1 .. c - 1
    BY <1>12, <1>14, <1>22, <2>1
  <2>3. Position(deps[a]) < Position(deps[c])
    BY <1>2, <1>6, <1>10, <1>12, <1>15, <1>17, <2>2 DEF d
  <2>4. i < p
    BY <1>9, <1>12, <1>19, <2>3 DEF d
  <2>5. Concerned(p, f)
    BY <1>15, <1>19 DEF Concerned
  <2>6. p \notin T
    BY <1>5, <1>6, <1>19, <1>20
  <2>7. id \in ws[d][f]
    BY <1>6, <1>15, <1>18, <2>4, <2>5, <2>6 DEF T
  <2>8. id \in Marks(ws[d][f])
    BY <1>2, <2>7 DEF Marks, Gone
  <2>9. QED
    BY <1>7, <1>16, <2>8
<1>23. QED
  BY <1>21, <1>22

\* In plan order, a run's report of such a file ends with a version that holds every
\* applied task's edits, if the capture's filter dropped no version of it: copying the
\* dependencies' files in depends_on order and capturing in plan order lose none
\* (runner.rs).
THEOREM InOrderEditsKept ==
  ASSUME DistinctAnswers
  PROVE  Spec => []InOrderEditsSurvive
<1>1. ASSUME IInv PROVE InOrderEditsSurvive
  <2>1. SUFFICES ASSUME pc = "done", mode = "disk", InPlanOrder, NEW f \in Paths, Chained(f),
                        Unfiltered(f), NEW id \in PlannedIds, st[id] = "applied", id \in ws[id][f],
                        There(ws[id][f])
                 PROVE  captured[f] # <<>> /\ id \in captured[f][Len(captured[f])]
    BY DEF InOrderEditsSurvive, EditsSurvive
  <2>2. PICK i \in DOMAIN tasks : tasks[i].id = id
    BY DEF PlannedIds, IdsOf
  <2>3. PICK B \in Nat : DOMAIN tasks = 1 .. B
    BY <1>1 DEF IInv, Executable, Named
  <2>4. id \in TaskIds /\ id # "-"
    BY <1>1, <2>2, TaskIdsIn, RunnerAssumption DEF IInv
  <2>5. ws[id][f] # repo[f]
    BY <1>1, <2>1, <2>4 DEF IInv, Clean, Marks, Gone
  <2> DEFINE C == Changers(f)
             l == Nth(C, Cardinality(C))
  <2>6. i \in C /\ C \subseteq 1 .. B
    BY <2>1, <2>2, <2>3, <2>5 DEF Changers, HasChanged, Differs, Unfiltered
  <2>7. /\ Cardinality(C) \in Nat /\ Cardinality(C) >= 1 /\ l \in C
        /\ \A k \in C : k <= l
    <3> HIDE DEF C
    <3>1. C # {}
      BY <2>6
    <3>2. QED
      BY <2>3, <2>6, <3>1, NthLast
  <2>8. captured[f] = Captures(f)
    <3>1. captured[f] = IF anyApplied THEN Captures(f) ELSE <<>>
      BY <1>1, <2>1 DEF IInv, Reported
    <3>2. anyApplied
      BY <1>1, <2>1, <2>4 DEF IInv, Reported
    <3>3. QED
      BY <3>1, <3>2
  <2>9. /\ captured[f] \in Seq(Content) /\ Len(captured[f]) = Cardinality(C)
        /\ captured[f][Cardinality(C)] = ws[tasks[l].id][f]
    <3>1. /\ captured[f] \in Seq(Content) /\ DOMAIN captured[f] = 1 .. Cardinality(C)
          /\ \A n \in DOMAIN captured[f] : captured[f][n] = ws[tasks[Nth(C, n)].id][f]
      BY <1>1, <2>8, CapturesTyped DEF IInv
    <3> HIDE DEF C
    <3>2. Len(captured[f]) = Cardinality(C)
      BY <2>7, <3>1
    <3>3. QED
      BY <2>7, <3>1, <3>2
  <2>10. l \in DOMAIN tasks /\ st[tasks[l].id] = "applied" /\ HasChanged(tasks[l].id, f)
    BY <2>7 DEF Changers
  <2>11. i \in Nat /\ l \in Nat /\ i <= l
    BY <2>3, <2>6, <2>7
  <2> HIDE DEF C, l
  <2>12. id \in ws[tasks[l].id][f]
    <3>1. CASE i = l
      BY <2>1, <2>2, <3>1
    <3>2. CASE i # l
      <4>1. l > i
        BY <2>11, <3>2
      <4>2. Concerned(l, f)
        BY <2>10 DEF Concerned, HasChanged, Differs
      <4>3. st[tasks[l].id] # "pending"
        BY <2>10
      <4>4. tasks[i].id \in ws[tasks[l].id][f]
        BY <1>1, <2>1, <2>2, <2>10, <4>1, <4>2, <4>3, EditsHandedOn
      <4>5. QED
        BY <2>2, <4>4
    <3>3. QED
      BY <3>1, <3>2
  <2>13. captured[f] # <<>>
    BY <2>7, <2>9
  <2>14. QED
    BY <2>9, <2>12, <2>13
<1>2. QED
  BY <1>1, Inductive, PTL

=============================================================================
