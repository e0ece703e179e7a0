--------------------------- MODULE DeliveryProofs ---------------------------
(***************************************************************************)
(* Proofs about what becomes of a run's result: the pull requests that      *)
(* PullRequest makes of it, and the edits that Landing keeps on swarm/auto. *)
(* All of it is for any runs, files, edits, placements, issues, slots and   *)
(* failures.                                                                *)
(***************************************************************************)
EXTENDS PullRequest, Landing, FiniteSetTheorems, TLAPS
-----------------------------------------------------------------------------
(* Pull requests: what their states have in common.                         *)

Early  == {"start", "write", "build", "pull"}
Making == {"push", "gh"}      \* an actor that has committed and has no pull request yet
CloneFields == {"head", "prev", "index", "disk", "local"}

Shape ==
  /\ dir \in Placements /\ DOMAIN at = Actors /\ \A a \in Actors : DOMAIN at[a] = Runs
  /\ DOMAIN base = CloneFields /\ DOMAIN base.local = Slugs \cup {Checkout}
  /\ base.head \in DOMAIN base.local /\ base.prev \in DOMAIN base.local
  /\ DOMAIN own = Runs /\ DOMAIN written = Runs /\ DOMAIN remote = Branches
  /\ prs \subseteq [run : Runs, head : Branches]
-----------------------------------------------------------------------------
\* The tree with the edits of r that reached the disk, and no others.
Outcome(r) == [f \in Files |-> IF f \in written[r] THEN r ELSE BaseTree[f]]

\* The base clone before anybody's commit ..
Fresh(r) ==
  /\ base.disk = Outcome(r) /\ base.index \in {BaseTree, Outcome(r)} /\ HeadTree(base) = BaseTree
  /\ \A b \in DOMAIN base.local : base.local[b] \in {None, BaseTree}

\* .. and with nothing left to commit.
Settled(r) ==
  /\ base.disk = HeadTree(base) /\ base.index = HeadTree(base)
  /\ HeadTree(base) \in {BaseTree, Outcome(r)}
  /\ \A b \in DOMAIN base.local : base.local[b] \in {None, BaseTree, Outcome(r)}

Idle(q) == at["daemon"][q] = "done" /\ at["provider"][q] = "none"

\* Where the two sequences of a run alone in the base clone are.
Turns(r) ==
  /\ \A q \in Runs \ {r} : Idle(q)
  /\ at["daemon"][r] \in Early \cup {"ask"} => at["provider"][r] = "none"
  /\ at["daemon"][r] \in {"start", "write"} => written[r] = {}
  /\ \A a \in Actors : at[a][r] \in Making => Settled(r)
  /\ ~\A a \in Actors : at[a][r] \in Making
  /\ \A a \in Actors : at[a][r] = "gh" => remote[Slug(a, r)] \in {BaseTree, Outcome(r)}

\* Its pull requests: one by git is made by the only actor that committed, one by the
\* API, unless its answer is lost, ends the phase.
Requests(r) ==
  /\ at["daemon"][r] \in Early => PrsOf(r) = {}
  /\ \A p \in PrsOf(r) : ByGit(p) =>
       Settled(r) /\ remote[p.head] = Outcome(r) /\ \A a \in Actors : at[a][r] \notin Making
  /\ r \notin unsure =>
       /\ \A p \in PrsOf(r) : ~ByGit(p) => at["daemon"][r] \in {"record", "done"}
                                           /\ at["provider"][r] = "none"
       /\ \A p, o \in PrsOf(r) : p = o

Alone(r) == (Fresh(r) \/ Settled(r)) /\ Turns(r) /\ Requests(r)

\* A run in a clone of its own.
LeftOver(r) ==
  \A f \in Files : remote[TaskBranch(r)][f] = r <=> f \in Modified[r] \ written[r]
Own(r) ==
  /\ own[r] = Outcome(r) /\ written[r] \subseteq Modified[r]
  /\ at["daemon"][r] \in {"start", "write"} => written[r] = {}
  /\ at["daemon"][r] \in Early => \A p \in PrsOf(r) : ByGit(p)
  /\ at["daemon"][r] = "pull" \/ (\E p \in PrsOf(r) : ~ByGit(p)) => LeftOver(r)

\* Nobody works in the base clone, and git never gets further than "nothing to commit".
Apiece == \A r \in Runs : dir[r] # Shared
Untouched ==
  /\ base.disk = BaseTree /\ base.index = BaseTree /\ HeadTree(base) = BaseTree
  /\ \A b \in DOMAIN base.local : base.local[b] \in {None, BaseTree}
  /\ \A a \in Actors, r \in Runs : at[a][r] \notin Making
  /\ \A p \in prs : ~ByGit(p)

IInv ==
  /\ Shape
  /\ Apiece => Untouched
  /\ \A r \in Runs : (Sole(r) => Alone(r)) /\ (Apart(r) => Own(r))
-----------------------------------------------------------------------------
(* Branches and steps.                                                      *)

LEMMA Distinct ==
  ASSUME NEW a \in Actors, NEW r \in Runs
  PROVE  /\ Slug(a, r) \in Slugs /\ Slug(a, r) \in Branches /\ TaskBranch(r) \in Branches
         /\ \A q : TaskBranch(q) # Slug(a, r)
         /\ \A q : TaskBranch(q) = TaskBranch(r) => q = r
BY DEF Slug, Slugs, TaskBranch, Branches

LEMMA Stepped ==
  ASSUME Shape, NEW a \in Actors, NEW r \in Runs, NEW s, To(a, r, s)
  PROVE  /\ DOMAIN at' = Actors /\ \A c \in Actors : DOMAIN at'[c] = Runs
         /\ \A c \in Actors, q \in Runs : at'[c][q] = (IF c = a /\ q = r THEN s ELSE at[c][q])
<1>1. at' = [at EXCEPT ![a][r] = s] /\ DOMAIN at = Actors /\ \A c \in Actors : DOMAIN at[c] = Runs
  BY DEF To, Shape
<1>2. DOMAIN at' = Actors /\ \A c \in Actors : DOMAIN at'[c] = Runs
  BY <1>1
<1>3. ASSUME NEW c \in Actors, NEW q \in Runs
      PROVE  at'[c][q] = (IF c = a /\ q = r THEN s ELSE at[c][q])
  BY <1>1
<1>4. QED
  BY <1>2, <1>3

\* An idle run does nothing.
LEMMA IdleRests ==
  ASSUME NEW q \in Runs, Idle(q)
  PROVE  ~(Daemon(q) \/ Provider(q) \/ \E a \in Actors : CommandFails(a, q))
<1>1. \A a \in Actors : at[a][q] \in {"done", "none"}
  BY DEF Idle, Actors
<1>2. "daemon" \in Actors /\ "provider" \in Actors
  BY DEF Actors
<1>3. \A a \in Actors : ~GitCommand(a, q) /\ ~CommandFails(a, q)
  BY <1>1 DEF GitCommand, CommandFails, CheckoutBranch, AddAll, Check, Tidy, Drop, CommitIndex,
              Push, Gh, Back
<1>4. QED
  BY <1>2, <1>3 DEF Idle, Daemon, Provider, Start, Write, SkipApi, CreateRef, Pull, Ask, Answer,
                    GivesUp, Record, StartJob

\* With nothing on the disk the result is the base.
LEMMA NoResult ==
  ASSUME NEW r, written[r] = {}
  PROVE  Outcome(r) = BaseTree
BY DEF Outcome, BaseTree
-----------------------------------------------------------------------------
(* The base clone of a run alone in it.                                     *)

BaseShape(g) ==
  /\ DOMAIN g = CloneFields /\ DOMAIN g.local = Slugs \cup {Checkout}
  /\ g.head \in DOMAIN g.local /\ g.prev \in DOMAIN g.local

\* Going back to the branch before.
LEMMA GoingBack ==
  ASSUME NEW r, BaseShape(base), Fresh(r) \/ Settled(r),
         CanGoBack(base), base' = WentBack(base), written' = written
  PROVE  BaseShape(base)' /\ (Fresh(r) \/ Settled(r))' /\ (Settled(r) => Settled(r)')
<1> DEFINE Old == base.local[base.prev]
           Head == HeadTree(base)
<1>1. Outcome(r)' = Outcome(r)
  BY DEF Outcome
<1>2. /\ base'.head = base.prev /\ base'.prev = base.head /\ base'.local = base.local
      /\ base'.index = Switched(base, base.index) /\ base'.disk = Switched(base, base.disk)
      /\ DOMAIN base' = CloneFields
  BY DEF WentBack, BaseShape, CloneFields
<1>3. BaseShape(base)'
  BY <1>2 DEF BaseShape
<1>4. Old # None /\ HeadTree(base)' = Old
  BY <1>2 DEF CanGoBack, HeadTree
<1>5. \A t \in {BaseTree, Outcome(r)} : t = [f \in Files |-> t[f]]
  BY DEF BaseTree, Outcome
<1>6. ASSUME Settled(r) PROVE Settled(r)'
  <2>1. Old \in {BaseTree, Outcome(r)} /\ Head \in {BaseTree, Outcome(r)}
    BY <1>4, <1>6 DEF Settled, BaseShape
  <2>2. Switched(base, Head) = Old
    <3>1. Old = [f \in Files |-> Old[f]]
      BY <1>5, <2>1
    <3>2. Switched(base, Head) = [f \in Files |-> Old[f]]
      BY DEF Switched
    <3>3. QED
      BY <3>1, <3>2
  <2>3. QED
    BY <1>1, <1>2, <1>4, <1>6, <2>1, <2>2 DEF Settled
<1>7. ASSUME Fresh(r) PROVE Fresh(r)'
  <2>1. Old = BaseTree /\ Head = BaseTree
    BY <1>4, <1>7 DEF Fresh, BaseShape
  <2>2. \A t \in {BaseTree, Outcome(r)} : Switched(base, t) = t
    <3>1. ASSUME NEW t PROVE Switched(base, t) = [f \in Files |-> t[f]]
      BY <2>1 DEF Switched
    <3>2. QED
      BY <1>5, <3>1
  <2>3. QED
    BY <1>1, <1>2, <1>4, <1>7, <2>1, <2>2 DEF Fresh
<1>8. QED
  BY <1>3, <1>6, <1>7

\* sync_repo_to_branch, before the run has written anything.
LEMMA Starting ==
  ASSUME NEW r, BaseShape(base), Fresh(r) \/ Settled(r), written[r] = {},
         base' = Synced(base), written' = written
  PROVE  BaseShape(base)' /\ Fresh(r)'
<1>1. Outcome(r) = BaseTree /\ Outcome(r)' = BaseTree
  BY NoResult DEF Outcome
<1>2. /\ base'.head = Checkout /\ base'.prev = base.head
      /\ base'.local = [base.local EXCEPT ![Checkout] = BaseTree]
      /\ base'.index = BaseTree /\ base'.disk = BaseTree /\ DOMAIN base' = CloneFields
  BY DEF Synced, BaseShape, CloneFields
<1>3. BaseShape(base)' /\ HeadTree(base)' = BaseTree
  BY <1>2 DEF BaseShape, HeadTree
<1>4. \A b \in DOMAIN base'.local : base'.local[b] \in {None, BaseTree}
  BY <1>1, <1>2 DEF Fresh, Settled
<1>5. QED
  BY <1>1, <1>2, <1>3, <1>4 DEF Fresh

\* checkout -b
LEMMA Branching ==
  ASSUME NEW r, NEW b \in Slugs, BaseShape(base), Fresh(r) \/ Settled(r),
         base' = [base EXCEPT !.local[b] = HeadTree(base), !.prev = base.head, !.head = b],
         written' = written
  PROVE  BaseShape(base)' /\ (Fresh(r) \/ Settled(r))' /\ (Settled(r) => Settled(r)')
<1>1. Outcome(r)' = Outcome(r)
  BY DEF Outcome
<1>2. /\ base'.head = b /\ base'.prev = base.head
      /\ base'.local = [base.local EXCEPT ![b] = HeadTree(base)]
      /\ base'.index = base.index /\ base'.disk = base.disk /\ DOMAIN base' = CloneFields
  BY DEF BaseShape, CloneFields
<1>3. BaseShape(base)' /\ HeadTree(base)' = HeadTree(base)
  BY <1>2 DEF BaseShape, HeadTree
<1>4. QED
  BY <1>1, <1>2, <1>3 DEF Fresh, Settled

\* add -A
LEMMA Staging ==
  ASSUME NEW r, BaseShape(base), Fresh(r) \/ Settled(r),
         base' = [base EXCEPT !.index = Staged(base)], written' = written
  PROVE  BaseShape(base)' /\ (Fresh(r) \/ Settled(r))' /\ (Settled(r) => Settled(r)')
<1>1. Outcome(r)' = Outcome(r)
  BY DEF Outcome
<1>2. /\ base'.head = base.head /\ base'.prev = base.prev /\ base'.local = base.local
      /\ base'.index = base.disk /\ base'.disk = base.disk /\ DOMAIN base' = CloneFields
  BY DEF BaseShape, CloneFields, Staged
<1>3. BaseShape(base)' /\ HeadTree(base)' = HeadTree(base)
  BY <1>2 DEF BaseShape, HeadTree
<1>4. QED
  BY <1>1, <1>2, <1>3 DEF Fresh, Settled

\* branch -D
LEMMA Dropping ==
  ASSUME NEW r, NEW b, BaseShape(base), Fresh(r) \/ Settled(r), CanDelete(base, b),
         base' = [base EXCEPT !.local[b] = None], written' = written
  PROVE  BaseShape(base)' /\ (Fresh(r) \/ Settled(r))' /\ (Settled(r) => Settled(r)')
<1>1. Outcome(r)' = Outcome(r)
  BY DEF Outcome
<1>2. /\ base'.head = base.head /\ base'.prev = base.prev
      /\ base'.local = [base.local EXCEPT ![b] = None]
      /\ base'.index = base.index /\ base'.disk = base.disk /\ DOMAIN base' = CloneFields
  BY DEF BaseShape, CloneFields
<1>3. BaseShape(base)' /\ HeadTree(base)' = HeadTree(base)
  BY <1>2 DEF BaseShape, HeadTree, CanDelete
<1>4. QED
  BY <1>1, <1>2, <1>3 DEF Fresh, Settled

\* A commit: the first one, which leaves nothing for another.
LEMMA Committing ==
  ASSUME NEW r, BaseShape(base), Fresh(r) \/ Settled(r), ~NothingStaged(base),
         base' = [base EXCEPT !.local[base.head] = base.index], written' = written
  PROVE  BaseShape(base)' /\ Settled(r)' /\ ~Settled(r)
<1>1. Outcome(r)' = Outcome(r)
  BY DEF Outcome
<1>2. /\ base'.head = base.head /\ base'.prev = base.prev
      /\ base'.local = [base.local EXCEPT ![base.head] = base.index]
      /\ base'.index = base.index /\ base'.disk = base.disk /\ DOMAIN base' = CloneFields
  BY DEF BaseShape, CloneFields
<1>3. BaseShape(base)' /\ HeadTree(base)' = base.index
  BY <1>2 DEF BaseShape, HeadTree
<1>4. ~Settled(r) /\ base.index = Outcome(r) /\ base.disk = Outcome(r)
  BY DEF NothingStaged, Settled, Fresh
<1>5. Fresh(r)
  BY <1>4
<1>6. QED
  BY <1>1, <1>2, <1>3, <1>4, <1>5 DEF Fresh, Settled
-----------------------------------------------------------------------------
(* A run alone in the base clone.                                           *)

\* A step that neither writes, commits, pushes nor makes a pull request.
LEMMA Moves ==
  ASSUME Shape, NEW r \in Runs, Alone(r), NEW a \in Actors, NEW s, To(a, r, s),
         s \notin Making \cup Early \cup {"ask"},
         at[a][r] \notin {"record", "done", "none"} \/ (a = "daemon" /\ s = "done"),
         UNCHANGED <<remote, prs, written, unsure>>,
         (Fresh(r) \/ Settled(r))', Settled(r) => Settled(r)'
  PROVE  Alone(r)'
<1>1. \A c \in Actors, q \in Runs : at'[c][q] = (IF c = a /\ q = r THEN s ELSE at[c][q])
  BY Stepped
<1>2. "daemon" \in Actors /\ "provider" \in Actors /\ Actors = {"daemon", "provider"}
  BY DEF Actors
<1>3. Outcome(r)' = Outcome(r) /\ PrsOf(r)' = PrsOf(r) /\ \A p : ByGit(p)' = ByGit(p)
  BY DEF Outcome, PrsOf, ByGit
<1>4. \A c \in Actors : Slug(c, r)' = Slug(c, r)
  BY DEF Slug
<1>5. Turns(r)'
  <2>1. \A q \in Runs \ {r} : Idle(q)'
    BY <1>1, <1>2 DEF Alone, Turns, Idle
  <2>2. \A c \in Actors : at'[c][r] \in Making => at'[c][r] = at[c][r]
    BY <1>1
  <2>3. /\ \A c \in Actors : at'[c][r] \in Making => Settled(r)'
        /\ ~\A c \in Actors : at'[c][r] \in Making
        /\ \A c \in Actors : at'[c][r] = "gh" => remote'[Slug(c, r)] \in {BaseTree, Outcome(r)'}
    BY <2>2, <1>3 DEF Alone, Turns, Making
  <2>4. at'["daemon"][r] \in Early \cup {"ask"} => at'["provider"][r] = "none"
    BY <1>1, <1>2 DEF Alone, Turns, Early
  <2>5. at'["daemon"][r] \in {"start", "write"} => written'[r] = {}
    BY <1>1, <1>2 DEF Alone, Turns, Early
  <2>6. QED
    BY <1>4, <2>1, <2>3, <2>4, <2>5 DEF Turns
<1>6. Requests(r)'
  <2>1. at'["daemon"][r] \in Early => at["daemon"][r] \in Early
    BY <1>1, <1>2
  <2>2. \A c \in Actors : at'[c][r] \in Making => at[c][r] \in Making
    BY <1>1
  <2>3. ASSUME r \notin unsure, NEW p \in PrsOf(r), ~ByGit(p)
        PROVE  at'["daemon"][r] \in {"record", "done"} /\ at'["provider"][r] = "none"
    BY <1>1, <1>2, <2>3 DEF Alone, Requests
  <2>4. QED
    BY <1>3, <2>1, <2>2, <2>3 DEF Alone, Requests
<1>7. QED
  BY <1>5, <1>6 DEF Alone

\* The daemon before it asks for a pull request by git.
LEMMA EarlyMoves ==
  ASSUME Shape, NEW r \in Runs, Alone(r), NEW s, To("daemon", r, s),
         at["daemon"][r] \in Early, s \in {"write", "build", "pull", "ask", "record"},
         (Fresh(r) \/ Settled(r))', s = "write" => written'[r] = {},
         \/ PrsOf(r)' = {}
         \/ s = "ask" /\ r \in unsure' /\ \A p \in PrsOf(r)' : ~ByGit(p)
         \/ s = "record" /\ \E x : PrsOf(r)' = {x} /\ ~ByGit(x)
  PROVE  Alone(r)'
<1>1. "daemon" \in Actors /\ "provider" \in Actors /\ Actors = {"daemon", "provider"}
  BY DEF Actors
<1>2. \A c \in Actors, q \in Runs :
        at'[c][q] = (IF c = "daemon" /\ q = r THEN s ELSE at[c][q])
  BY <1>1, Stepped
<1>3. at'["daemon"][r] = s /\ at'["provider"][r] = "none"
  BY <1>1, <1>2 DEF Alone, Turns
<1>4. \A q \in Runs \ {r} : Idle(q)'
  BY <1>1, <1>2 DEF Alone, Turns, Idle
<1>5. Turns(r)'
  BY <1>1, <1>3, <1>4 DEF Turns, Making
<1>6. Requests(r)'
  BY <1>1, <1>3 DEF Requests, Early, ByGit
<1>7. QED
  BY <1>5, <1>6 DEF Alone

LEMMA EarlyAlone ==
  ASSUME Shape, NEW r \in Runs, Alone(r), InBase(r),
         Start(r) \/ Write(r) \/ SkipApi(r) \/ CreateRef(r) \/ Pull(r)
  PROVE  Alone(r)'
<1>1. at["daemon"][r] \in Early
  BY DEF Start, Write, SkipApi, CreateRef, Pull, Early
<1>2. PrsOf(r) = {} /\ (Fresh(r) \/ Settled(r)) /\ BaseShape(base)
  BY <1>1 DEF Alone, Requests, Shape, BaseShape
<1>3. ASSUME prs' = prs PROVE PrsOf(r)' = {}
  BY <1>2, <1>3 DEF PrsOf
<1>4. ASSUME UNCHANGED <<base, written>> PROVE (Fresh(r) \/ Settled(r))'
  BY <1>2, <1>4 DEF Fresh, Settled, Outcome, HeadTree
<1>5. CASE Start(r)
  <2>1. /\ at["daemon"][r] = "start" /\ To("daemon", r, "write") /\ prs' = prs
        /\ written' = written /\ written[r] = {} /\ base' \in {base, Synced(base)}
    BY <1>5 DEF Start, InBase, github, Alone, Turns
  <2>2. (Fresh(r) \/ Settled(r))'
    BY <1>2, <1>4, <2>1, Starting
  <2>3. QED
    BY <1>1, <1>3, <2>1, <2>2, EarlyMoves
<1>6. CASE Write(r)
  <2>1. PICK ok :
          /\ base' = [base EXCEPT !.disk = [f \in Files |-> IF f \in ok THEN r ELSE base.disk[f]]]
          /\ written' = [written EXCEPT ![r] = ok]
    BY <1>6 DEF Write, InBase
  <2>2. at["daemon"][r] = "write" /\ To("daemon", r, "build") /\ prs' = prs /\ written[r] = {}
    BY <1>6 DEF Write, github, Alone, Turns
  <2>3. /\ base.disk = BaseTree /\ base.index = BaseTree /\ HeadTree(base) = BaseTree
        /\ \A b \in DOMAIN base.local : base.local[b] \in {None, BaseTree}
    BY <1>2, <2>2, NoResult DEF Fresh, Settled
  <2>4. /\ base'.disk = [f \in Files |-> IF f \in ok THEN r ELSE base.disk[f]]
        /\ base'.head = base.head /\ base'.local = base.local /\ base'.index = base.index
    BY <1>2, <2>1 DEF BaseShape, CloneFields
  <2>5. Outcome(r)' = [f \in Files |-> IF f \in ok THEN r ELSE BaseTree[f]]
    BY <2>1 DEF Outcome, Shape
  <2>6. Fresh(r)'
    BY <2>3, <2>4, <2>5 DEF Fresh, HeadTree
  <2>7. QED
    BY <1>1, <1>3, <2>2, <2>6, EarlyMoves
<1>7. CASE SkipApi(r) \/ CreateRef(r)
  <2>1. PICK s \in {"pull", "ask"} : To("daemon", r, s)
    BY <1>7 DEF SkipApi, CreateRef
  <2>2. prs' = prs /\ base' = base /\ written' = written
    BY <1>7 DEF SkipApi, CreateRef, github
  <2>3. QED
    BY <1>1, <1>3, <1>4, <2>1, <2>2, EarlyMoves
<1>8. CASE Pull(r)
  <2>1. base' = base /\ written' = written
    BY <1>8 DEF Pull
  <2> DEFINE pr == [run |-> r, head |-> TaskBranch(r)]
  <2>2. \/ prs' = prs \cup {pr} /\ To("daemon", r, "record")
        \/ prs' = prs \cup {pr} /\ To("daemon", r, "ask") /\ r \in unsure'
        \/ prs' = prs /\ To("daemon", r, "ask")
    BY <1>8 DEF Pull, Loses
  <2>3. prs' = prs \cup {pr} => PrsOf(r)' = {pr}
    BY <1>2 DEF PrsOf
  <2>4. ~ByGit(pr)
    BY DEF ByGit
  <2>5. QED
    BY <1>1, <1>3, <1>4, <2>1, <2>2, <2>3, <2>4, EarlyMoves
<1>9. QED
  BY <1>5, <1>6, <1>7, <1>8

\* The daemon asking the provider, and giving up on it.
LEMMA AskAlone ==
  ASSUME Shape, NEW r \in Runs, Alone(r),
         Ask(r) \/ Answer(r) \/ GivesUp(r) \/ Record(r) \/ StartJob(r)
  PROVE  Alone(r)'
<1>1. "daemon" \in Actors /\ "provider" \in Actors /\ Actors = {"daemon", "provider"}
  BY DEF Actors
<1>2. UNCHANGED <<remote, prs, written, unsure, base>>
  BY DEF Ask, Answer, GivesUp, Record, StartJob, github
<1>3. (Fresh(r) \/ Settled(r))' /\ (Settled(r) => Settled(r)')
  BY <1>2 DEF Alone, Fresh, Settled, Outcome, HeadTree
<1>4. ASSUME NEW a \in Actors, NEW s \in {"checkout", "record", "done"}, To(a, r, s),
             at[a][r] \notin {"record", "done", "none"} \/ (a = "daemon" /\ s = "done")
      PROVE  Alone(r)'
  BY <1>2, <1>3, <1>4, Moves DEF Making, Early
<1>5. CASE Answer(r) \/ GivesUp(r) \/ Record(r) \/ StartJob(r)
  BY <1>1, <1>4, <1>5 DEF Answer, GivesUp, Record, StartJob
<1>6. CASE Ask(r)
  <2>1. at["daemon"][r] = "ask" /\ at["provider"][r] = "none"
    BY <1>6 DEF Ask, Alone, Turns
  <2>2. CASE To("daemon", r, "checkout")
    BY <1>1, <1>4, <2>1, <2>2
  <2>3. CASE at' = [at EXCEPT !["daemon"][r] = "wait", !["provider"][r] = "queued"]
    <3>1. at'["daemon"][r] = "wait" /\ at'["provider"][r] = "queued"
      BY <1>1, <2>3 DEF Shape
    <3>2. \A q \in Runs \ {r} : Idle(q)'
      BY <1>1, <2>3 DEF Shape, Alone, Turns, Idle
    <3>3. Turns(r)'
      BY <1>1, <3>1, <3>2 DEF Turns, Making, Early
    <3>4. Requests(r)'
      <4>1. PrsOf(r)' = PrsOf(r) /\ Outcome(r)' = Outcome(r) /\ \A p : ByGit(p)' = ByGit(p)
        BY <1>2 DEF PrsOf, Outcome, ByGit
      <4>2. \A a \in Actors : at'[a][r] \notin Making
        BY <1>1, <3>1 DEF Making
      <4>3. QED
        BY <1>2, <1>3, <2>1, <3>1, <4>1, <4>2 DEF Alone, Requests, Early
    <3>5. QED
      BY <1>3, <3>3, <3>4 DEF Alone
  <2>4. QED
    BY <1>6, <2>2, <2>3 DEF Ask
<1>7. QED
  BY <1>5, <1>6

\* The git commands that only touch the clone, and those that fail.
LEMMA CloneAlone ==
  ASSUME Shape, NEW r \in Runs, Alone(r), NEW a \in Actors,
         \/ CheckoutBranch(a, r) \/ AddAll(a, r) \/ Check(a, r) \/ Tidy(a, r) \/ Drop(a, r)
         \/ Back(a, r) \/ CommandFails(a, r)
         \/ (CommitIndex(a, r) \/ Push(a, r)) /\ Fails(a, r)
  PROVE  Alone(r)'
<1> DEFINE b == Slug(a, r)
<1>1. at[a][r] \in Commands
  BY DEF CheckoutBranch, AddAll, Check, Tidy, Drop, Back, CommandFails, CommitIndex, Push, Commands
<1>2. UNCHANGED <<remote, prs, written, unsure>>
  <2>1. CASE CommitIndex(a, r)
    BY <2>1 DEF CommitIndex, github
  <2>2. CASE Push(a, r) /\ Fails(a, r)
    <3>1. at[a][r] = "push" /\ at'[a][r] \in {"record", "err"}
      BY <2>2, Stepped DEF Push, Fails
    <3>2. ~To(a, r, "gh")
      BY <3>1, Stepped
    <3>3. QED
      BY <2>2, <3>2 DEF Push
  <2>3. QED
    BY <2>1, <2>2 DEF CheckoutBranch, AddAll, Check, Tidy, Drop, Back, CommandFails, github
<1>3. PICK s \in {"add", "check", "tidy", "commit", "drop", "record", "err", "ok"} : To(a, r, s)
  BY DEF CheckoutBranch, AddAll, Check, Tidy, Drop, Back, CommandFails, Fails
<1>4. s \notin Making \cup Early \cup {"ask"} /\ at[a][r] \notin {"record", "done", "none"}
  BY <1>1, <1>3 DEF Making, Early, Commands
<1>5. BaseShape(base) /\ (Fresh(r) \/ Settled(r)) /\ b \in Slugs
  BY Distinct DEF Shape, BaseShape, Alone
<1>6. \/ base' = base
      \/ CanGoBack(base) /\ base' = WentBack(base)
      \/ base' = [base EXCEPT !.local[b] = HeadTree(base), !.prev = base.head, !.head = b]
      \/ base' = [base EXCEPT !.index = Staged(base)]
      \/ CanDelete(base, b) /\ base' = [base EXCEPT !.local[b] = None]
  <2>1. CASE CommitIndex(a, r) /\ Fails(a, r)
    <3>1. ~To(a, r, "push")
      BY <2>1, Stepped DEF Fails
    <3>2. QED
      BY <2>1, <3>1 DEF CommitIndex
  <2>2. QED
    BY <2>1 DEF CheckoutBranch, AddAll, Check, Tidy, Drop, Back, CommandFails, Push
<1>7. (Fresh(r) \/ Settled(r))' /\ (Settled(r) => Settled(r)')
  <2>1. CASE base' = base
    BY <1>2, <1>5, <2>1 DEF Fresh, Settled, Outcome, HeadTree
  <2>2. QED
    BY <1>2, <1>5, <1>6, <2>1, GoingBack, Branching, Staging, Dropping
<1>8. QED
  BY <1>2, <1>3, <1>4, <1>7, Moves

\* The commit, the push and the pull request, by the only actor that gets there.
LEMMA MakingAlone ==
  ASSUME Shape, NEW r \in Runs, Alone(r), NEW a \in Actors,
         NEW s \in {"push", "gh", "back", "record"}, To(a, r, s),
         at[a][r] \in {"commit", "push", "gh"}, written' = written, unsure \subseteq unsure',
         Settled(r)', \A c \in Actors : c # a => at[c][r] \notin Making,
         \A p \in PrsOf(r) : ~ByGit(p),
         s = "gh" => remote'[Slug(a, r)] \in {BaseTree, Outcome(r)},
         \/ prs' = prs
         \/ /\ s \notin Making /\ remote' = remote
            /\ \E x : PrsOf(r)' = PrsOf(r) \cup {x} /\ ByGit(x) /\ remote[x.head] = Outcome(r)
  PROVE  Alone(r)'
<1>1. "daemon" \in Actors /\ "provider" \in Actors /\ Actors = {"daemon", "provider"}
  BY DEF Actors
<1>2. \A c \in Actors, q \in Runs : at'[c][q] = (IF c = a /\ q = r THEN s ELSE at[c][q])
  BY Stepped
<1>3. Outcome(r)' = Outcome(r) /\ Slug(a, r)' = Slug(a, r) /\ \A p : ByGit(p)' = ByGit(p)
  BY DEF Outcome, Slug, ByGit
<1>4. \A q \in Runs \ {r} : Idle(q)'
  BY <1>1, <1>2 DEF Alone, Turns, Idle
<1>5. at["daemon"][r] \notin Early \cup {"ask"} /\ at'["daemon"][r] \notin Early \cup {"ask"}
  BY <1>1, <1>2 DEF Alone, Turns, Early
<1>6. \A c \in Actors : c # a => at'[c][r] = at[c][r]
  BY <1>2
<1>7. Turns(r)'
  <2>1. ~\A c \in Actors : at'[c][r] \in Making
    BY <1>1, <1>6
  <2>2. \A c \in Actors : at'[c][r] = "gh" => remote'[Slug(c, r)'] \in {BaseTree, Outcome(r)'}
    BY <1>2, <1>3, <1>6 DEF Making
  <2>3. at'["daemon"][r] \notin {"start", "write"}
    BY <1>5 DEF Early
  <2>4. QED
    BY <1>4, <1>5, <2>1, <2>2, <2>3 DEF Turns
<1>8. r \notin unsure => PrsOf(r) = {}
  BY <1>1 DEF Alone, Requests, Turns
<1>9. Requests(r)'
  <2>1. CASE prs' = prs
    <3>1. PrsOf(r)' = PrsOf(r)
      BY <2>1 DEF PrsOf
    <3>2. QED
      BY <1>3, <1>5, <1>8, <3>1 DEF Requests
  <2>2. CASE /\ s \notin Making /\ remote' = remote
             /\ \E x : PrsOf(r)' = PrsOf(r) \cup {x} /\ ByGit(x) /\ remote[x.head] = Outcome(r)
    <3>1. PICK x : PrsOf(r)' = PrsOf(r) \cup {x} /\ ByGit(x) /\ remote'[x.head] = Outcome(r)
      BY <2>2
    <3>2. \A c \in Actors : at'[c][r] \notin Making
      BY <1>2, <1>6, <2>2
    <3>3. QED
      BY <1>3, <1>5, <1>8, <3>1, <3>2 DEF Requests
  <2>4. QED
    BY <2>1, <2>2
<1>10. QED
  BY <1>7, <1>9 DEF Alone

LEMMA GitAlone ==
  ASSUME Shape, NEW r \in Runs, Alone(r), NEW a \in Actors, GitCommand(a, r)
  PROVE  Alone(r)'
<1> DEFINE b == Slug(a, r)
<1>1. BaseShape(base) /\ (Fresh(r) \/ Settled(r)) /\ b \in Slugs /\ b \in Branches
  BY Distinct DEF Shape, BaseShape, Alone
<1>2. ASSUME base' = base, written' = written
      PROVE  (Fresh(r) \/ Settled(r))' /\ (Settled(r) => Settled(r)')
  BY <1>1, <1>2 DEF Fresh, Settled, Outcome, HeadTree
<1>3. CASE CommitIndex(a, r) /\ ~Fails(a, r)
  <2>1. /\ ~NothingStaged(base) /\ base' = [base EXCEPT !.local[base.head] = base.index]
        /\ at[a][r] = "commit" /\ To(a, r, "push")
        /\ UNCHANGED <<remote, prs, written, unsure>>
    BY <1>3 DEF CommitIndex, github
  <2>2. Settled(r)' /\ ~Settled(r)
    BY <1>1, <2>1, Committing
  <2>3. (\A c \in Actors : at[c][r] \notin Making) /\ \A p \in PrsOf(r) : ~ByGit(p)
    BY <2>2 DEF Alone, Turns, Requests
  <2>4. QED
    BY <2>1, <2>2, <2>3, MakingAlone
<1>4. CASE Push(a, r) /\ ~Fails(a, r)
  <2>1. /\ at[a][r] = "push" /\ To(a, r, "gh") /\ base.local[b] # None
        /\ remote' = [remote EXCEPT ![b] = base.local[b]]
        /\ UNCHANGED <<prs, written, unsure, base>>
    BY <1>4 DEF Push
  <2>2. Settled(r) /\ Settled(r)'
    BY <1>2, <2>1 DEF Alone, Turns, Making
  <2>3. remote'[b] \in {BaseTree, Outcome(r)}
    BY <1>1, <2>1, <2>2 DEF Shape, Settled, BaseShape
  <2>4. (\A c \in Actors : c # a => at[c][r] \notin Making) /\ \A p \in PrsOf(r) : ~ByGit(p)
    BY <2>1 DEF Alone, Turns, Requests, Making, Actors
  <2>5. QED
    BY <2>1, <2>2, <2>3, <2>4, MakingAlone
<1>5. CASE Gh(a, r)
  <2> DEFINE pr == [run |-> r, head |-> b]
  <2>1. PICK s \in {"back", "record", "err"} : To(a, r, s)
    BY <1>5 DEF Gh, Fails
  <2>2. /\ at[a][r] = "gh" /\ unsure \subseteq unsure'
        /\ UNCHANGED <<written, base, remote>>
    BY <1>5 DEF Gh, Loses, Sure
  <2>3. Settled(r) /\ Settled(r)' /\ remote[b] \in {BaseTree, Outcome(r)}
    BY <1>2, <2>2 DEF Alone, Turns, Making
  <2>4. (\A c \in Actors : c # a => at[c][r] \notin Making) /\ \A p \in PrsOf(r) : ~ByGit(p)
    BY <2>2 DEF Alone, Turns, Requests, Making, Actors
  <2>5. CASE prs' = prs /\ unsure' = unsure
    <3>1. s \notin Making \cup Early \cup {"ask"} /\ at[a][r] \notin {"record", "done", "none"}
      BY <2>2 DEF Making, Early
    <3>2. QED
      BY <2>1, <2>2, <2>3, <2>5, <3>1, Moves
  <2>6. CASE remote[b] # BaseTree /\ prs' = prs \cup {pr} /\ s # "err"
    <3>1. ByGit(pr) /\ remote[pr.head] = Outcome(r)
      BY <2>3, <2>6, Distinct DEF ByGit
    <3>2. PrsOf(r)' = PrsOf(r) \cup {pr}
      BY <2>6 DEF PrsOf
    <3>3. s \notin Making
      BY DEF Making
    <3>4. QED
      BY <2>1, <2>2, <2>3, <2>4, <2>6, <3>1, <3>2, <3>3, MakingAlone
  <2>7. QED
    <3>1. CASE remote[b] # BaseTree /\ prs' = prs \cup {pr}
              /\ (To(a, r, "back") \/ To(a, r, IF a = "daemon" THEN "record" ELSE "back"))
      <4>1. s # "err"
        BY <2>1, <3>1, Stepped
      <4>2. QED
        BY <2>6, <3>1, <4>1
    <3>2. QED
      BY <1>5, <2>5, <3>1 DEF Gh, Sure
<1>6. QED
  BY <1>3, <1>4, <1>5, CloneAlone DEF GitCommand

\* A run that is alone in the base clone is the only one that does anything.
LEMMA AloneStep ==
  ASSUME Shape, NEW r \in Runs, Sole(r), Alone(r), Next
  PROVE  Alone(r)'
<1>1. PICK q \in Runs : Daemon(q) \/ Provider(q) \/ \E a \in Actors : CommandFails(a, q)
  BY DEF Next
<1>2. q = r
  BY <1>1, IdleRests DEF Alone, Turns
<1>3. InBase(r) /\ "daemon" \in Actors /\ "provider" \in Actors
  BY DEF Sole, InBase, Actors
<1>4. QED
  BY <1>1, <1>2, <1>3, EarlyAlone, AskAlone, GitAlone, CloneAlone DEF Daemon, Provider
-----------------------------------------------------------------------------
(* A run in a clone of its own.                                             *)

\* The API is given what the originals on the disk do not hold yet.
LEMMA NotOnDisk ==
  ASSUME NEW r \in Runs, Apart(r), own[r] = Outcome(r), Shape
  PROVE  \A f \in Files :
           Referenced(r)[TaskBranch(r)][f] = r <=> f \in Modified[r] \ written[r]
<1>1. /\ Modified[r] \subseteq Files /\ r # None /\ r # Original /\ r \in Runs
      /\ TaskBranch(r) \in DOMAIN remote
  BY PullRequestAssumption, Distinct DEF Shape, Branches
<1>2. WorkTree(r) = Outcome(r)
  BY DEF Apart, WorkTree, InBase
<1>3. \A f \in Files : Outcome(r)[f] = IF f \in written[r] THEN r ELSE BaseTree[f]
  BY DEF Outcome
<1>4. \A f \in Files : BaseTree[f] # r
  BY <1>1 DEF BaseTree
<1> DEFINE ws == Workspace(r)
<1>5. \A f \in Files :
        /\ ws.base[f] = (IF f \in Modified[r] /\ Outcome(r)[f] # None THEN Outcome(r)[f] ELSE None)
        /\ ws.working[f] = (IF f \in Modified[r] THEN r ELSE ws.base[f])
  BY <1>1, <1>2 DEF Workspace, OnDisk, VW!WriteFiles, VW!LoadFiles, VW!New, VW!Over, VW!EmptyTree
<1> HIDE DEF ws
<1>6. \A f \in Files : f \in VW!Diff(ws) <=> f \in Modified[r] \ written[r]
  BY <1>1, <1>3, <1>4, <1>5 DEF VW!Diff
<1> DEFINE sent == VW!ModifiedFiles(ws)
<1>7. /\ \A f \in Files : f \in DOMAIN sent <=> f \in Modified[r] \ written[r]
      /\ \A f \in DOMAIN sent : sent[f] = r
  BY <1>1, <1>5, <1>6 DEF VW!ModifiedFiles, VW!ReadFile, VW!Diff
<1>8. Referenced(r)[TaskBranch(r)] = VW!Over(BaseTree, sent)
  BY <1>1 DEF Referenced, ws
<1> HIDE DEF sent
<1>9. \A f \in Files : VW!Over(BaseTree, sent)[f]
        = IF f \in DOMAIN sent THEN sent[f] ELSE BaseTree[f]
  BY DEF VW!Over
<1>10. QED
  BY <1>4, <1>7, <1>8, <1>9

\* Neither its files nor its branch move.
LEMMA OwnKept ==
  ASSUME NEW r \in Runs, Own(r),
         own'[r] = own[r], written'[r] = written[r],
         remote'[TaskBranch(r)] = remote[TaskBranch(r)],
         \A p \in prs' : p \in prs \/ p.run # r \/ ByGit(p),
         \/ at'["daemon"][r] = at["daemon"][r]
         \/ at'["daemon"][r] \notin Early
         \/ at["daemon"][r] = "start" /\ at'["daemon"][r] = "write"
  PROVE  Own(r)'
<1>1. Outcome(r)' = Outcome(r) /\ \A p : ByGit(p)' = ByGit(p)
  BY DEF Outcome, ByGit
<1>2. \A p \in PrsOf(r)' : p \in PrsOf(r) \/ ByGit(p)
  BY DEF PrsOf
<1>3. at'["daemon"][r] \in Early => at["daemon"][r] \in Early
  BY DEF Early
<1>4. at'["daemon"][r] \in {"start", "write"} => at["daemon"][r] \in {"start", "write"}
  BY DEF Early
<1>5. at'["daemon"][r] = "pull" => at["daemon"][r] = "pull"
  BY DEF Early
<1>6. LeftOver(r) => LeftOver(r)'
  BY DEF LeftOver, TaskBranch
<1>7. QED
  BY <1>1, <1>2, <1>3, <1>4, <1>5, <1>6 DEF Own

\* Its own steps that write, send or ask for the pull request.
LEMMA OwnSteps ==
  ASSUME Shape, NEW r \in Runs, Apart(r), Own(r), Write(r) \/ CreateRef(r) \/ Pull(r)
  PROVE  Own(r)'
<1>1. "daemon" \in Actors
  BY DEF Actors
<1>2. \A p : ByGit(p)' = ByGit(p)
  BY DEF ByGit
<1>3. CASE Write(r)
  <2>1. PICK ok \in SUBSET Modified[r] :
          /\ own' = [own EXCEPT ![r] = [f \in Files |-> IF f \in ok THEN r ELSE own[r][f]]]
          /\ written' = [written EXCEPT ![r] = ok]
    BY <1>3 DEF Write, InBase, Apart
  <2>2. /\ at["daemon"][r] = "write" /\ at'["daemon"][r] = "build"
        /\ prs' = prs /\ written[r] = {}
    BY <1>1, <1>3, Stepped DEF Write, github, Own
  <2>3. own[r] = BaseTree /\ written'[r] = ok
    BY <2>1, <2>2, NoResult DEF Own, Shape
  <2>4. own'[r] = [f \in Files |-> IF f \in written'[r] THEN r ELSE BaseTree[f]]
    BY <2>1, <2>3 DEF Shape
  <2>5. PrsOf(r)' = PrsOf(r) /\ \A p \in PrsOf(r) : ByGit(p)
    BY <2>2 DEF PrsOf, Own, Early
  <2>6. QED
    BY <1>2, <2>2, <2>3, <2>4, <2>5 DEF Own, Outcome
<1>4. CASE CreateRef(r)
  <2>1. PICK s \in {"pull", "ask"} : To("daemon", r, s) /\ (s = "pull" => remote' = Referenced(r))
    BY <1>4 DEF CreateRef
  <2>2. /\ at["daemon"][r] = "build" /\ at'["daemon"][r] = s
        /\ UNCHANGED <<own, written, prs>>
    BY <1>1, <1>4, <2>1, Stepped DEF CreateRef
  <2>3. PrsOf(r)' = PrsOf(r) /\ (\A p \in PrsOf(r) : ByGit(p)) /\ Outcome(r)' = Outcome(r)
    BY <2>2 DEF PrsOf, Own, Early, Outcome
  <2>4. s = "pull" => LeftOver(r)'
    BY <2>1, <2>2, NotOnDisk DEF Own, LeftOver, TaskBranch
  <2>5. QED
    BY <1>2, <2>2, <2>3, <2>4 DEF Own
<1>5. CASE Pull(r)
  <2>1. PICK s \in {"record", "ask"} : To("daemon", r, s)
    BY <1>5 DEF Pull
  <2>2. /\ at["daemon"][r] = "pull" /\ at'["daemon"][r] \in {"record", "ask"}
        /\ UNCHANGED <<own, written, remote>>
    BY <1>1, <1>5, <2>1, Stepped DEF Pull
  <2>3. LeftOver(r)' /\ Outcome(r)' = Outcome(r)
    BY <2>2 DEF Own, LeftOver, TaskBranch, Outcome
  <2>4. QED
    BY <2>2, <2>3 DEF Own, Early
<1>6. QED
  BY <1>3, <1>4, <1>5

LEMMA OwnStep ==
  ASSUME Shape, NEW r \in Runs, Apart(r), Own(r), Next
  PROVE  Own(r)'
<1>1. PICK q \in Runs : Daemon(q) \/ Provider(q) \/ \E a \in Actors : CommandFails(a, q)
  BY DEF Next
<1>2. "daemon" \in Actors /\ "provider" \in Actors
  BY DEF Actors
<1>3. ASSUME q = r, Write(r) \/ CreateRef(r) \/ Pull(r) PROVE Own(r)'
  BY <1>3, OwnSteps
<1>4. ASSUME ~(q = r /\ (Write(r) \/ CreateRef(r) \/ Pull(r))) PROVE Own(r)'
  <2>1. own'[r] = own[r] /\ written'[r] = written[r]
    <3>1. CASE Write(q)
      BY <1>4, <3>1 DEF Write, Shape
    <3>2. CASE own' = own /\ written' = written
      BY <3>2
    <3>3. QED
      BY <1>1, <3>1, <3>2 DEF Daemon, Provider, Start, SkipApi, CreateRef, Pull, Ask, Answer,
         GivesUp, Record, StartJob, CommandFails, GitCommand, CheckoutBranch, AddAll, Check,
         Tidy, Drop, CommitIndex, Push, Gh, Back
  <2>2. remote'[TaskBranch(r)] = remote[TaskBranch(r)]
    <3>1. CASE CreateRef(q)
      BY <1>4, <3>1, Distinct, <1>2 DEF CreateRef, Referenced, Shape
    <3>2. ASSUME NEW a \in Actors, Push(a, q)
          PROVE  remote'[TaskBranch(r)] = remote[TaskBranch(r)]
      BY <3>2, Distinct DEF Push, Shape
    <3>3. CASE remote' = remote
      BY <3>3
    <3>4. QED
      BY <1>1, <1>2, <3>1, <3>2, <3>3 DEF Daemon, Provider, Start, Write, SkipApi, Pull, Ask,
         Answer, GivesUp, Record, StartJob, CommandFails, GitCommand, CheckoutBranch, AddAll,
         Check, Tidy, Drop, CommitIndex, Gh, Back, github
  <2>3. \A p \in prs' : p \in prs \/ p.run # r \/ ByGit(p)
    <3>1. CASE Pull(q)
      BY <1>4, <3>1 DEF Pull
    <3>2. ASSUME NEW a \in Actors, Gh(a, q)
          PROVE  \A p \in prs' : p \in prs \/ p.run # r \/ ByGit(p)
      BY <3>2, Distinct DEF Gh, ByGit
    <3>3. CASE prs' = prs
      BY <3>3
    <3>4. QED
      BY <1>1, <1>2, <3>1, <3>2, <3>3 DEF Daemon, Provider, Start, Write, SkipApi, CreateRef,
         Ask, Answer, GivesUp, Record, StartJob, CommandFails, GitCommand, CheckoutBranch,
         AddAll, Check, Tidy, Drop, CommitIndex, Push, Back, github
  <2>4. \/ at'["daemon"][r] = at["daemon"][r]
        \/ at'["daemon"][r] \notin Early
        \/ at["daemon"][r] = "start" /\ at'["daemon"][r] = "write"
    <3>1. ASSUME NEW a \in Actors, NEW s, To(a, q, s),
                 s \notin Early \/ (s = "write" /\ Start(q) /\ a = "daemon") \/ q # r
          PROVE  \/ at'["daemon"][r] = at["daemon"][r]
                 \/ at'["daemon"][r] \notin Early
                 \/ at["daemon"][r] = "start" /\ at'["daemon"][r] = "write"
      BY <1>2, <3>1, Stepped DEF Start
    <3>2. CASE Start(q) \/ Write(q) \/ CreateRef(q) \/ Pull(q)
      <4>1. PICK s : To("daemon", q, s) /\ (Start(q) => s = "write")
        BY <3>2 DEF Start, Write, CreateRef, Pull
      <4>2. QED
        BY <1>2, <1>4, <3>1, <3>2, <4>1
    <3>3. CASE SkipApi(q) \/ Answer(q) \/ GivesUp(q) \/ Record(q) \/ StartJob(q)
      BY <1>2, <3>1, <3>3 DEF SkipApi, Answer, GivesUp, Record, StartJob, Early
    <3>4. CASE Ask(q)
      <4>1. CASE To("daemon", q, "checkout")
        BY <1>2, <3>1, <4>1 DEF Early
      <4>2. CASE at' = [at EXCEPT !["daemon"][q] = "wait", !["provider"][q] = "queued"]
        <5>1. at'["daemon"][r] \in {at["daemon"][r], "wait"}
          BY <1>2, <4>2 DEF Shape
        <5>2. QED
          BY <5>1 DEF Early
      <4>3. QED
        BY <3>4, <4>1, <4>2 DEF Ask
    <3>5. ASSUME NEW a \in Actors, GitCommand(a, q) \/ CommandFails(a, q)
          PROVE  \E s : To(a, q, s) /\ s \notin Early
      BY <3>5 DEF GitCommand, CommandFails, CheckoutBranch, AddAll, Check, Tidy, Drop,
              CommitIndex, Push, Gh, Back, Fails, Early
    <3>6. QED
      BY <1>1, <1>2, <3>1, <3>2, <3>3, <3>4, <3>5 DEF Daemon, Provider
  <2>5. QED
    BY <2>1, <2>2, <2>3, <2>4, OwnKept
<1>5. QED
  BY <1>3, <1>4
-----------------------------------------------------------------------------
(* Runs in clones of their own, or nowhere.                                 *)

\* Whatever git does to the base clone leaves it without a change.
LEMMA UntouchedBase ==
  ASSUME Shape, Untouched, NEW b \in Slugs,
         \/ base' = base
         \/ CanGoBack(base) /\ base' = WentBack(base)
         \/ base' = [base EXCEPT !.local[b] = HeadTree(base), !.prev = base.head, !.head = b]
         \/ base' = [base EXCEPT !.index = Staged(base)]
         \/ CanDelete(base, b) /\ base' = [base EXCEPT !.local[b] = None]
  PROVE  /\ base'.disk = BaseTree /\ base'.index = BaseTree /\ HeadTree(base)' = BaseTree
         /\ \A c \in DOMAIN base'.local : base'.local[c] \in {None, BaseTree}
<1>1. /\ base.disk = BaseTree /\ base.index = BaseTree /\ HeadTree(base) = BaseTree
      /\ \A c \in DOMAIN base.local : base.local[c] \in {None, BaseTree}
      /\ BaseShape(base)
  BY DEF Untouched, Shape, BaseShape
<1>2. CASE base' = base
  BY <1>1, <1>2 DEF HeadTree
<1>3. CASE CanGoBack(base) /\ base' = WentBack(base)
  <2>1. /\ base'.head = base.prev /\ base'.local = base.local
        /\ base'.index = Switched(base, BaseTree) /\ base'.disk = Switched(base, BaseTree)
    BY <1>1, <1>3 DEF WentBack, BaseShape, CloneFields
  <2>2. base.local[base.prev] = BaseTree
    BY <1>1, <1>3 DEF CanGoBack, BaseShape
  <2>3. Switched(base, BaseTree) = BaseTree
    BY <1>1, <2>2 DEF Switched, BaseTree
  <2>4. QED
    BY <1>1, <2>1, <2>2, <2>3 DEF HeadTree
<1>4. CASE base' = [base EXCEPT !.local[b] = HeadTree(base), !.prev = base.head, !.head = b]
  <2>1. /\ base'.head = b /\ base'.local = [base.local EXCEPT ![b] = BaseTree]
        /\ base'.index = base.index /\ base'.disk = base.disk
    BY <1>1, <1>4 DEF BaseShape, CloneFields
  <2>2. QED
    BY <1>1, <2>1 DEF HeadTree, BaseShape
<1>5. CASE base' = [base EXCEPT !.index = Staged(base)]
  <2>1. /\ base'.head = base.head /\ base'.local = base.local
        /\ base'.index = base.disk /\ base'.disk = base.disk
    BY <1>1, <1>5 DEF BaseShape, CloneFields, Staged
  <2>2. QED
    BY <1>1, <2>1 DEF HeadTree
<1>6. CASE CanDelete(base, b) /\ base' = [base EXCEPT !.local[b] = None]
  <2>1. /\ base'.head = base.head /\ base'.local = [base.local EXCEPT ![b] = None]
        /\ base'.index = base.index /\ base'.disk = base.disk /\ base.head # b
    BY <1>1, <1>6 DEF BaseShape, CloneFields, CanDelete
  <2>2. QED
    BY <1>1, <2>1 DEF HeadTree, BaseShape
<1>7. QED
  BY <1>2, <1>3, <1>4, <1>5, <1>6

LEMMA UntouchedStep ==
  ASSUME Shape, Apiece, Untouched, Next
  PROVE  Untouched'
<1>1. PICK q \in Runs : Daemon(q) \/ Provider(q) \/ \E a \in Actors : CommandFails(a, q)
  BY DEF Next
<1>2. "daemon" \in Actors /\ "provider" \in Actors
  BY DEF Actors
<1>3. \A a \in Actors : ~Push(a, q) /\ ~Gh(a, q)
       /\ (CommitIndex(a, q) => Fails(a, q) /\ base' = base)
  BY DEF Untouched, Making, Push, Gh, CommitIndex, NothingStaged
<1>4. /\ base'.disk = BaseTree /\ base'.index = BaseTree /\ HeadTree(base)' = BaseTree
      /\ \A b \in DOMAIN base'.local : base'.local[b] \in {None, BaseTree}
  <2>1. ASSUME NEW a \in Actors, GitCommand(a, q)
        PROVE  /\ base'.disk = BaseTree /\ base'.index = BaseTree /\ HeadTree(base)' = BaseTree
               /\ \A b \in DOMAIN base'.local : base'.local[b] \in {None, BaseTree}
    <3>1. Slug(a, q) \in Slugs
      BY Distinct
    <3>2. QED
      BY <1>3, <2>1, <3>1, UntouchedBase DEF GitCommand, CheckoutBranch, AddAll, Check, Tidy, Drop,
         Back
  <2>2. CASE base' = base
    BY <2>2 DEF Untouched, HeadTree
  <2>3. QED
    BY <1>1, <1>2, <2>1, <2>2 DEF Daemon, Provider, Start, Write, SkipApi, CreateRef, Pull, Ask,
       Answer, GivesUp, Record, StartJob, CommandFails, InBase, Apiece
<1>5. \A a \in Actors, r \in Runs : at'[a][r] \notin Making
  <2>1. ASSUME NEW a \in Actors, NEW s, To(a, q, s), s \notin Making
        PROVE  \A c \in Actors, r \in Runs : at'[c][r] \notin Making
    BY <2>1, Stepped DEF Untouched
  <2>2. ASSUME NEW a \in Actors, GitCommand(a, q) \/ CommandFails(a, q)
        PROVE  \E s : To(a, q, s) /\ s \notin Making
    BY <1>3, <2>2 DEF GitCommand, CommandFails, CheckoutBranch, AddAll, Check, Tidy, Drop, Back,
       Fails, Making
  <2>3. CASE at' = [at EXCEPT !["daemon"][q] = "wait", !["provider"][q] = "queued"]
    <3>1. \A c \in Actors, r \in Runs : at'[c][r] \in {at[c][r], "wait", "queued"}
      BY <1>2, <2>3 DEF Shape
    <3>2. QED
      BY <3>1 DEF Untouched, Making
  <2>4. \/ at' = [at EXCEPT !["daemon"][q] = "wait", !["provider"][q] = "queued"]
        \/ \E a \in Actors : \E s : To(a, q, s) /\ s \notin Making
    BY <1>1, <1>2, <2>2 DEF Daemon, Provider, Start, Write, SkipApi, CreateRef, Pull, Ask, Answer,
       GivesUp, Record, StartJob, Making
  <2>5. QED
    BY <2>1, <2>3, <2>4
<1>6. \A p \in prs' : ~ByGit(p)'
  <2>1. prs' = prs \/ prs' = prs \cup {[run |-> q, head |-> TaskBranch(q)]}
    BY <1>1, <1>3 DEF Daemon, Provider, GitCommand, Start, Write, SkipApi, CreateRef, Pull, Ask,
       Answer, GivesUp, Record, StartJob, CommandFails, CheckoutBranch, AddAll, Check, Tidy, Drop,
       CommitIndex, Back, github, Actors
  <2>2. QED
    BY <2>1 DEF Untouched, ByGit
<1>7. QED
  BY <1>4, <1>5, <1>6 DEF Untouched
-----------------------------------------------------------------------------
(* All of them.                                                             *)

LEMMA ShapeStep ==
  ASSUME Shape, Next
  PROVE  Shape'
<1>1. PICK q \in Runs : Daemon(q) \/ Provider(q) \/ \E a \in Actors : CommandFails(a, q)
  BY DEF Next
<1>2. "daemon" \in Actors /\ "provider" \in Actors /\ BaseShape(base)
  BY DEF Actors, Shape, BaseShape
<1>3. dir' = dir
  BY <1>1 DEF Daemon, Provider, GitCommand, Start, Write, SkipApi, CreateRef, Pull, Ask, Answer,
     GivesUp, Record, StartJob, CommandFails, CheckoutBranch, AddAll, Check, Tidy, Drop,
     CommitIndex, Push, Gh, Back
<1>4. DOMAIN at' = Actors /\ \A a \in Actors : DOMAIN at'[a] = Runs
  <2>1. ASSUME NEW a \in Actors, NEW s, To(a, q, s)
        PROVE  DOMAIN at' = Actors /\ \A c \in Actors : DOMAIN at'[c] = Runs
    BY <2>1, Stepped
  <2>2. CASE at' = [at EXCEPT !["daemon"][q] = "wait", !["provider"][q] = "queued"]
    BY <1>2, <2>2 DEF Shape
  <2>3. \/ at' = [at EXCEPT !["daemon"][q] = "wait", !["provider"][q] = "queued"]
        \/ \E a \in Actors : \E s : To(a, q, s)
    BY <1>1, <1>2 DEF Daemon, Provider, GitCommand, Start, Write, SkipApi, CreateRef, Pull, Ask,
       Answer, GivesUp, Record, StartJob, CommandFails, CheckoutBranch, AddAll, Check, Tidy,
       Drop, CommitIndex, Push, Gh, Back, Fails
  <2>4. QED
    BY <2>1, <2>2, <2>3
<1>5. BaseShape(base)'
  <2>1. ASSUME base' = base PROVE BaseShape(base)'
    BY <1>2, <2>1
  <2>2. CASE Start(q) \/ Write(q)
    BY <1>2, <2>2 DEF Start, Write, Synced, BaseShape, CloneFields
  <2>3. ASSUME NEW a \in Actors, GitCommand(a, q) PROVE BaseShape(base)'
    <3>1. Slug(a, q) \in Slugs
      BY Distinct
    <3>2. \/ base' = base \/ base' = WentBack(base)
          \/ \E b \in Slugs : base' = [base EXCEPT !.local[b] = HeadTree(base),
                                                   !.prev = base.head, !.head = b]
          \/ \E t : base' = [base EXCEPT !.index = t]
          \/ \E b, t : base' = [base EXCEPT !.local[b] = t]
      BY <2>3, <3>1 DEF GitCommand, CheckoutBranch, AddAll, Check, Tidy, Drop, CommitIndex, Push,
         Gh, Back
    <3>3. CASE base' = WentBack(base)
      BY <1>2, <3>3 DEF WentBack, BaseShape, CloneFields
    <3>4. CASE \E b \in Slugs : base' = [base EXCEPT !.local[b] = HeadTree(base),
                                                     !.prev = base.head, !.head = b]
      BY <1>2, <3>4 DEF BaseShape, CloneFields
    <3>5. CASE \E t : base' = [base EXCEPT !.index = t]
      BY <1>2, <3>5 DEF BaseShape, CloneFields
    <3>6. CASE \E b, t : base' = [base EXCEPT !.local[b] = t]
      BY <1>2, <3>6 DEF BaseShape, CloneFields
    <3>7. QED
      BY <2>1, <3>2, <3>3, <3>4, <3>5, <3>6
  <2>4. QED
    BY <1>1, <1>2, <2>1, <2>2, <2>3 DEF Daemon, Provider, SkipApi, CreateRef, Pull, Ask, Answer,
       GivesUp, Record, StartJob, CommandFails
<1>6. DOMAIN own' = Runs /\ DOMAIN written' = Runs /\ DOMAIN remote' = Branches
  BY <1>1 DEF Shape, Daemon, Provider, GitCommand, Start, Write, SkipApi, CreateRef, Pull, Ask,
     Answer, GivesUp, Record, StartJob, CommandFails, CheckoutBranch, AddAll, Check, Tidy, Drop,
     CommitIndex, Push, Gh, Back, Referenced, github
<1>7. prs' \subseteq [run : Runs, head : Branches]
  <2>1. \A a \in Actors : Slug(a, q) \in Branches /\ TaskBranch(q) \in Branches
    BY Distinct
  <2>2. \/ prs' = prs \/ prs' = prs \cup {[run |-> q, head |-> TaskBranch(q)]}
        \/ \E a \in Actors : prs' = prs \cup {[run |-> q, head |-> Slug(a, q)]}
    BY <1>1, <1>2 DEF Daemon, Provider, GitCommand, Start, Write, SkipApi, CreateRef, Pull, Ask,
       Answer, GivesUp, Record, StartJob, CommandFails, CheckoutBranch, AddAll, Check, Tidy,
       Drop, CommitIndex, Push, Gh, Back, github
  <2>3. QED
    BY <1>2, <2>1, <2>2 DEF Shape
<1>8. QED
  BY <1>3, <1>4, <1>5, <1>6, <1>7 DEF Shape, BaseShape

LEMMA InitInv == Init => IInv
<1> SUFFICES ASSUME Init PROVE IInv
  OBVIOUS
<1>1. /\ base = Clone /\ \A b \in DOMAIN base.local : base.local[b] \in {None, BaseTree}
      /\ base.disk = BaseTree /\ base.index = BaseTree /\ HeadTree(base) = BaseTree
      /\ base.local[Checkout] = BaseTree
  BY DEF Init, Clone, HeadTree
<1>2. Shape
  BY <1>1 DEF Init, Shape, Clone, CloneFields
<1>3. \A r \in Runs : /\ written[r] = {} /\ Outcome(r) = BaseTree /\ PrsOf(r) = {}
                      /\ at["daemon"][r] \in {"start", "done"} /\ at["provider"][r] = "none"
                      /\ dir[r] = None => at["daemon"][r] = "done"
  BY NoResult DEF Init, PrsOf, Actors
<1>4. ASSUME NEW r \in Runs, Sole(r) PROVE Alone(r)
  <2>1. \A a \in Actors : at[a][r] \notin Making
    BY <1>3 DEF Actors, Making
  <2>2. Fresh(r)
    BY <1>1, <1>3 DEF Fresh
  <2>3. Turns(r)
    BY <1>3, <1>4, <2>1 DEF Turns, Sole, Idle, Making, Actors
  <2>4. QED
    BY <1>3, <2>2, <2>3 DEF Alone, Requests
<1>5. ASSUME NEW r \in Runs, Apart(r) PROVE Own(r)
  BY <1>3 DEF Own, Init
<1>6. Untouched
  BY <1>1, <1>3 DEF Untouched, Making, Actors, Init
<1>7. QED
  BY <1>2, <1>4, <1>5, <1>6 DEF IInv

LEMMA StepInv == IInv /\ [Next]_vars => IInv'
<1> SUFFICES ASSUME IInv, [Next]_vars PROVE IInv'
  OBVIOUS
<1>1. CASE UNCHANGED vars
  BY <1>1 DEF vars, IInv, Shape, Alone, Turns, Requests, Fresh, Settled, Own, LeftOver, Sole,
     Apart, Apiece, Untouched,
     Outcome, HeadTree, PrsOf, ByGit, Idle, Slug, TaskBranch
<1>2. CASE Next
  <2>1. /\ \A r \in Runs : (Sole(r)' <=> Sole(r)) /\ (Apart(r)' <=> Apart(r))
        /\ (Apiece' <=> Apiece)
    <3>1. dir' = dir
      BY <1>2, ZenonT(40) DEF Next, Daemon, Provider, GitCommand, Start, Write, SkipApi, CreateRef,
         Pull, Ask, Answer, GivesUp, Record, StartJob, CommandFails, CheckoutBranch, AddAll, Check,
         Tidy, Drop, CommitIndex, Push, Gh, Back
    <3>2. QED
      BY <3>1 DEF Sole, Apart, Apiece
  <2>2. QED
    BY <1>2, <2>1, ShapeStep, AloneStep, OwnStep, UntouchedStep DEF IInv
<1>3. QED
  BY <1>1, <1>2

LEMMA Invariance == Spec => []IInv
BY InitInv, StepInv, PTL DEF Spec

\* A run alone in the base clone gets one pull request, in whatever order the daemon and
\* the provider run their git commands and whichever of them fail: the second one only
\* comes after an answer of GitHub's was lost (executor.rs, git_pr.rs, git-provider).
THEOREM OneRequestEach == Spec => []OnePullRequest
<1>1. ASSUME IInv PROVE OnePullRequest
  <2>1. ASSUME NEW r \in Runs, Sole(r), r \notin unsure PROVE Cardinality(PrsOf(r)) <= 1
    <3>1. \A p, o \in PrsOf(r) : p = o
      BY <1>1, <2>1 DEF IInv, Alone, Requests
    <3>2. CASE PrsOf(r) = {}
      BY <3>2, FS_EmptySet
    <3>3. ASSUME NEW p \in PrsOf(r) PROVE Cardinality(PrsOf(r)) <= 1
      <4>1. PrsOf(r) = {p}
        BY <3>1
      <4>2. Cardinality(PrsOf(r)) = 1
        BY <4>1, FS_Singleton
      <4>3. QED
        BY <4>2
    <3>4. QED
      BY <3>2, <3>3
  <2>2. QED
    BY <2>1 DEF OnePullRequest
<1>2. QED
  BY <1>1, Invariance, PTL

\* What git publishes for it is every edit that reached the disk and nothing else, though
\* either process may commit what the other staged (git_pr.rs, git-provider/src/main.rs).
THEOREM GitPublishesAll == Spec => []GitPrWhole
<1>1. ASSUME IInv PROVE GitPrWhole
  <2>1. ASSUME NEW p \in prs, ByGit(p), Sole(p.run), NEW f \in Files
        PROVE  remote[p.head][f] = IF f \in written[p.run] THEN p.run ELSE BaseTree[f]
    <3>1. p.run \in Runs /\ p \in PrsOf(p.run)
      BY <1>1 DEF IInv, Shape, PrsOf
    <3>2. remote[p.head] = Outcome(p.run)
      BY <1>1, <2>1, <3>1 DEF IInv, Alone, Requests
    <3>3. QED
      BY <3>2 DEF Outcome
  <2>2. QED
    BY <2>1 DEF GitPrWhole
<1>2. QED
  BY <1>1, Invariance, PTL

\* In a clone of its own, the API's pull request has the files that could not be written
\* to the disk, and only those (executor.rs:1395-1403, 1431).
THEOREM ApiPublishesLeftOvers == Spec => []ApiPrLeftOver
<1>1. ASSUME IInv PROVE ApiPrLeftOver
  <2>1. ASSUME NEW p \in prs, ~ByGit(p), Apart(p.run), NEW f \in Files
        PROVE  remote[p.head][f] = p.run <=> f \in Modified[p.run] \ written[p.run]
    <3>1. p.run \in Runs /\ p \in PrsOf(p.run) /\ p.head = TaskBranch(p.run)
      BY <1>1, <2>1 DEF IInv, Shape, PrsOf, ByGit
    <3>2. LeftOver(p.run)
      BY <1>1, <2>1, <3>1 DEF IInv, Own
    <3>3. QED
      BY <3>1, <3>2 DEF LeftOver
  <2>2. QED
    BY <2>1 DEF ApiPrLeftOver
<1>2. QED
  BY <1>1, Invariance, PTL

\* Runs in clones of their own leave nothing in the base clone that git could make a pull
\* request of (executor.rs:951, isolate_run_workspace).
THEOREM IsolationKeepsGitOut == Spec => []IsolatedNeverByGit
<1>1. IInv => IsolatedNeverByGit
  BY DEF IInv, Untouched, Apiece, IsolatedNeverByGit
<1>2. QED
  BY <1>1, Invariance, PTL
-----------------------------------------------------------------------------
(* Landing: what an executor holds, and what has landed.                    *)

ExecFields == {"at", "from", "base", "files", "index", "ok"}

\* A run that has its copy and has not landed.
UnderWay == {"work", "gate", "verify", "add", "commit"}

LandShape ==
  /\ DOMAIN exec = Runs /\ \A q \in Runs : DOMAIN exec[q] = ExecFields
  /\ landed \subseteq Runs

\* A run that landed over r's edit of f, from a tree or into a worktree without it.
Excused(r, f) ==
  \E o \in overtook : o.over = r /\ o.run \in landed /\ (f \in EditsOf[o.run] \/ o.crossing)

\* q has started from a tree with r's edit of f; or r has overtaken it, or the edit
\* is lost already.
BaseKnows(q) ==
  \A r \in landed : \A f \in EditsOf[r] :
    \/ r \in exec[q].base[f]
    \/ \E o \in overtook : o.run = q /\ o.over = r
    \/ Excused(r, f)

\* So it is with the worktree that it commits.
IndexKnows(q) ==
  \A r \in landed : \A f \in EditsOf[r] :
    \/ r \in exec[q].index[f]
    \/ \E o \in overtook : o.run = q /\ o.over = r /\ o.crossing
    \/ Excused(r, f)

Overtaken(q) == \E o \in overtook : o.run = q

\* A run that synced to swarm/auto and that nobody has overtaken is still on its tip.
OnTip(q) == exec[q].from = "auto" => created /\ (Overtaken(q) \/ exec[q].base = auto)

\* What an executor holds.
Holds(q) ==
  /\ exec[q].at \in UnderWay => BaseKnows(q) /\ OnTip(q)
  /\ exec[q].at = "commit" /\ IssueOf[q] = NoIssue =>
       created /\ IndexKnows(q) /\ (Overtaken(q) \/ exec[q].index = auto)
  /\ exec[q].at = "gate" => exec[q].files \in {{}, EditsOf[q]}
  /\ exec[q].at \in {"verify", "add", "commit"} => exec[q].files = EditsOf[q]

LandInv ==
  /\ LandShape /\ LandedEditsStay
  /\ landed # {} => created
  /\ \A q \in Runs : Holds(q)
-----------------------------------------------------------------------------
\* An excuse stays one.
LEMMA ExcuseStays ==
  ASSUME landed \subseteq landed', overtook \subseteq overtook',
         NEW r, NEW f, Excused(r, f)
  PROVE  Excused(r, f)'
BY DEF Excused

\* Nothing has landed at first, and nobody is under way.
LEMMA LandStart == LandInit => LandInv
<1> SUFFICES ASSUME LandInit PROVE LandInv
  OBVIOUS
<1>1. \A q \in Runs : exec[q].at = "idle" /\ DOMAIN exec[q] = ExecFields
  BY DEF LandInit, NoExec, ExecFields
<1>2. QED
  BY <1>1 DEF LandInit, LandInv, LandShape, LandedEditsStay, Holds, UnderWay

\* A step of one executor that leaves the branch alone: it is enough to look at what
\* that executor holds afterwards.
LEMMA ExecStep ==
  ASSUME LandInv, NEW q \in Runs, NEW e,
         exec' = [exec EXCEPT ![q] = e], DOMAIN e = ExecFields,
         landed' = landed, created' = created, auto' = auto, overtook \subseteq overtook',
         Holds(q)'
  PROVE  LandInv'
<1>1. LandShape'
  BY DEF LandInv, LandShape
<1>2. \A r, f : Excused(r, f) => Excused(r, f)'
  BY ExcuseStays
<1>3. LandedEditsStay'
  BY <1>2 DEF LandInv, LandedEditsStay, Excused
<1>4. ASSUME NEW x \in Runs \ {q} PROVE Holds(x)'
  <2>1. exec'[x] = exec[x] /\ Holds(x)
    BY DEF LandInv, LandShape
  <2>2. (BaseKnows(x) => BaseKnows(x)') /\ (IndexKnows(x) => IndexKnows(x)')
        /\ (Overtaken(x) => Overtaken(x)')
    BY <1>2, <2>1 DEF BaseKnows, IndexKnows, Overtaken
  <2>3. QED
    BY <2>1, <2>2 DEF Holds, OnTip
<1>5. QED
  BY <1>1, <1>3, <1>4 DEF LandInv

\* A step within the work on the same tree.
LEMMA SameTree ==
  ASSUME LandInv, NEW q \in Runs, NEW e,
         exec' = [exec EXCEPT ![q] = e], DOMAIN e = ExecFields,
         UNCHANGED <<created, landed, auto, overtook>>,
         exec[q].at \in UnderWay, e.base = exec[q].base, e.from = exec[q].from, e.at # "commit",
         e.at = "gate" => e.files \in {{}, EditsOf[q]},
         e.at \in {"verify", "add"} => e.files = EditsOf[q]
  PROVE  LandInv'
<1>1. exec'[q] = e /\ Holds(q)
  BY DEF LandInv, LandShape
<1>2. BaseKnows(q)' /\ OnTip(q)'
  BY <1>1 DEF Holds, OnTip, BaseKnows, Excused, Overtaken
<1>3. Holds(q)'
  BY <1>1, <1>2 DEF Holds
<1>4. QED
  BY <1>3, ExecStep

\* An executor that is not under way holds nothing.
LEMMA NotUnderWay ==
  ASSUME LandInv, NEW q \in Runs, NEW e,
         exec' = [exec EXCEPT ![q] = e], DOMAIN e = ExecFields,
         UNCHANGED <<created, landed, auto, overtook>>, e.at \notin UnderWay
  PROVE  LandInv'
<1>1. exec'[q] = e
  BY DEF LandInv, LandShape
<1>2. Holds(q)'
  BY <1>1 DEF Holds, UnderWay
<1>3. QED
  BY <1>2, ExecStep
-----------------------------------------------------------------------------
\* A run gets its copy of the tip, of the project's branch while nothing has landed, or
\* of anything else: then it is behind all that has landed.
LEMMA SyncInv ==
  ASSUME LandInv, NEW q \in Runs, SyncRepo(q) \/ SyncFails(q)
  PROVE  LandInv'
<1>1. CASE SyncRepo(q)
  <2> DEFINE from == IF created THEN "auto" ELSE "trunk"
             e == [exec[q] EXCEPT !.at = "work", !.base = SyncedTree, !.from = from]
  <2>1. exec' = [exec EXCEPT ![q] = e] /\ UNCHANGED <<created, landed, auto, overtook>>
    BY <1>1 DEF SyncRepo, landing
  <2>2. DOMAIN e = ExecFields /\ e.at = "work" /\ e.base = SyncedTree /\ e.from = from
    BY DEF LandInv, LandShape, ExecFields
  <2> HIDE DEF e
  <2>3. exec'[q].at = "work" /\ exec'[q].base = SyncedTree /\ exec'[q].from = from
    BY <2>1, <2>2 DEF LandInv, LandShape
  <2>4. BaseKnows(q)'
    <3>1. CASE created
      BY <2>1, <2>3, <3>1 DEF SyncedTree, LandInv, LandedEditsStay, BaseKnows, Excused
    <3>2. CASE ~created
      BY <2>1, <3>2 DEF LandInv, BaseKnows
    <3>3. QED
      BY <3>1, <3>2
  <2>5. OnTip(q)'
    BY <2>1, <2>3 DEF OnTip, SyncedTree
  <2>6. Holds(q)'
    BY <2>3, <2>4, <2>5 DEF Holds
  <2>7. QED
    BY <2>1, <2>2, <2>6, ExecStep
<1>2. CASE SyncFails(q)
  <2>1. PICK tree \in {Base, trunk, head} :
          exec' = [exec EXCEPT ![q].at = "work", ![q].base = tree, ![q].from = "trunk"]
    BY <1>2 DEF SyncFails
  <2> DEFINE e == [exec[q] EXCEPT !.at = "work", !.base = tree, !.from = "trunk"]
  <2>2. /\ exec' = [exec EXCEPT ![q] = e] /\ UNCHANGED <<created, landed, auto>>
        /\ overtook' = overtook \cup {[run |-> q, over |-> r, crossing |-> FALSE] : r \in landed}
    BY <1>2, <2>1 DEF SyncFails
  <2>3. DOMAIN e = ExecFields /\ e.at = "work" /\ e.from = "trunk"
    BY DEF LandInv, LandShape, ExecFields
  <2> HIDE DEF e
  <2>4. exec'[q].at = "work" /\ exec'[q].from = "trunk"
    BY <2>2, <2>3 DEF LandInv, LandShape
  <2>5. \A r \in landed : \E o \in overtook' : o.run = q /\ o.over = r
    <3> SUFFICES ASSUME NEW r \in landed PROVE \E o \in overtook' : o.run = q /\ o.over = r
      OBVIOUS
    <3>1. [run |-> q, over |-> r, crossing |-> FALSE] \in overtook'
      BY <2>2
    <3>2. QED
      BY <3>1
  <2>6. BaseKnows(q)'
    BY <2>2, <2>5 DEF BaseKnows
  <2>7. Holds(q)'
    BY <2>4, <2>6 DEF Holds, OnTip
  <2>8. QED
    BY <2>2, <2>3, <2>7, ExecStep
<1>3. QED
  BY <1>1, <1>2

\* swarm/auto is made: nobody has synced to it yet, and nothing has landed.
LEMMA CreateInv ==
  ASSUME LandInv, NEW q \in Runs, LandAdd(q), IssueOf[q] = NoIssue, ~created
  PROVE  LandInv'
<1> DEFINE e == [exec[q] EXCEPT !.at = "commit", !.index = LandingTree(q)]
<1>1. /\ exec' = [exec EXCEPT ![q] = e] /\ UNCHANGED <<landed, overtook>>
      /\ created' = TRUE /\ auto' = LandingTree(q) /\ landed = {}
  BY DEF LandAdd, LandInv
<1>2. /\ DOMAIN e = ExecFields /\ e.at = "commit" /\ e.files = exec[q].files
      /\ e.index = LandingTree(q) /\ e.from = exec[q].from
  BY DEF LandInv, LandShape, ExecFields
<1> HIDE DEF e
<1>3. exec'[q] = e /\ exec[q].at = "add" /\ Holds(q)
  BY <1>1 DEF LandInv, LandShape, LandAdd, At
<1>4. \A x \in Runs : BaseKnows(x)' /\ IndexKnows(x)'
  BY <1>1 DEF BaseKnows, IndexKnows
<1>5. exec[q].from # "auto" /\ exec[q].files = EditsOf[q]
  BY <1>3 DEF Holds, OnTip, UnderWay
<1>6. Holds(q)'
  BY <1>1, <1>2, <1>3, <1>4, <1>5 DEF Holds, OnTip
<1>7. ASSUME NEW x \in Runs \ {q} PROVE Holds(x)'
  <2>1. exec'[x] = exec[x] /\ Holds(x)
    BY <1>1 DEF LandInv, LandShape
  <2>2. QED
    BY <1>1, <1>4, <2>1 DEF Holds, OnTip
<1>8. LandShape' /\ LandedEditsStay'
  BY <1>1, <1>2 DEF LandInv, LandShape, LandedEditsStay
<1>9. QED
  BY <1>1, <1>6, <1>7, <1>8 DEF LandInv

\* The worktree is made of the tip as it is, or of HEAD for an issue's branch.
LEMMA LandAddInv ==
  ASSUME LandInv, NEW q \in Runs, LandAdd(q), IssueOf[q] = NoIssue => created
  PROVE  LandInv'
<1> DEFINE e == [exec[q] EXCEPT !.at = "commit", !.index = LandingTree(q)]
<1>1. exec' = [exec EXCEPT ![q] = e] /\ UNCHANGED <<created, landed, auto, overtook>>
  BY DEF LandAdd, LandingTree
<1>2. /\ DOMAIN e = ExecFields /\ e.at = "commit" /\ e.base = exec[q].base
      /\ e.from = exec[q].from /\ e.files = exec[q].files
      /\ (IssueOf[q] = NoIssue => e.index = auto)
  BY DEF LandInv, LandShape, ExecFields, LandingTree
<1> HIDE DEF e
<1>3. exec'[q] = e /\ exec[q].at = "add" /\ Holds(q)
  BY <1>1 DEF LandInv, LandShape, LandAdd, At
<1>4. BaseKnows(q)' /\ OnTip(q)'
  BY <1>1, <1>2, <1>3 DEF Holds, OnTip, UnderWay, BaseKnows, Excused, Overtaken
<1>5. IssueOf[q] = NoIssue => created' /\ IndexKnows(q)' /\ exec'[q].index = auto'
  BY <1>1, <1>2, <1>3 DEF LandInv, LandedEditsStay, IndexKnows, Excused
<1>6. exec'[q].files = EditsOf[q]
  BY <1>2, <1>3 DEF Holds
<1>7. Holds(q)'
  BY <1>2, <1>3, <1>4, <1>5, <1>6 DEF Holds
<1>8. QED
  BY <1>1, <1>2, <1>7, ExecStep

\* The steps in between.
LEMMA WorkInv ==
  ASSUME LandInv, NEW q \in Runs,
         \/ Claim(q) \/ Work(q) \/ WorkFails(q) \/ Gate(q) \/ Verify(q) \/ LandFails(q)
         \/ PushBranch(q) \/ RecordRun(q)
  PROVE  LandInv'
<1>0. DOMAIN exec[q] = ExecFields /\ Holds(q)
  BY DEF LandInv, LandShape
<1>1. ASSUME NEW phase, Move(q, phase), UNCHANGED <<created, landed, auto, overtook>>, phase \notin UnderWay
      PROVE  LandInv'
  <2> DEFINE e == [exec[q] EXCEPT !.at = phase]
  <2>1. DOMAIN e = ExecFields /\ e.at = phase /\ exec' = [exec EXCEPT ![q] = e]
    BY <1>0, <1>1 DEF Move, ExecFields
  <2> HIDE DEF e
  <2>2. QED
    BY <1>1, <2>1, NotUnderWay
<1>2. CASE Claim(q)
  BY <1>1, <1>2 DEF Claim, landing, UnderWay
<1>3. CASE LandFails(q)
  BY <1>1, <1>3 DEF LandFails, landing, UnderWay
<1>4. CASE PushBranch(q)
  BY <1>1, <1>4 DEF PushBranch, UnderWay
<1>5. CASE WorkFails(q) \/ RecordRun(q)
  <2>1. exec' = [exec EXCEPT ![q] = NoExec] /\ UNCHANGED <<created, landed, auto, overtook>>
    BY <1>5 DEF WorkFails, RecordRun, landing
  <2>2. DOMAIN NoExec = ExecFields /\ NoExec.at \notin UnderWay
    BY DEF NoExec, ExecFields, UnderWay
  <2>3. QED
    BY <2>1, <2>2, NotUnderWay
<1>6. CASE Work(q)
  <2>1. PICK fs \in {{}, EditsOf[q]} : exec' = [exec EXCEPT ![q].at = "gate", ![q].files = fs]
    BY <1>6 DEF Work
  <2> DEFINE e == [exec[q] EXCEPT !.at = "gate", !.files = fs]
  <2>2. /\ DOMAIN e = ExecFields /\ e.at = "gate" /\ e.files = fs /\ e.base = exec[q].base
        /\ e.from = exec[q].from
        /\ exec' = [exec EXCEPT ![q] = e]
    BY <1>0, <2>1 DEF ExecFields
  <2> HIDE DEF e
  <2>3. exec[q].at \in UnderWay /\ UNCHANGED <<created, landed, auto, overtook>>
    BY <1>6 DEF Work, At, UnderWay, landing
  <2>4. QED
    BY <2>2, <2>3, SameTree
<1>7. CASE Gate(q)
  <2>1. PICK passes \in BOOLEAN : /\ Move(q, IF passes THEN "verify" ELSE "record")
                                  /\ exec[q].files = {} => passes = FALSE
    BY <1>7 DEF Gate
  <2>2. exec[q].at = "gate" /\ UNCHANGED <<created, landed, auto, overtook>>
    BY <1>7 DEF Gate, At, landing
  <2>3. CASE passes = FALSE
    BY <1>1, <2>1, <2>2, <2>3 DEF UnderWay
  <2>4. CASE passes = TRUE
    <3> DEFINE e == [exec[q] EXCEPT !.at = "verify"]
    <3>1. /\ DOMAIN e = ExecFields /\ e.at = "verify" /\ e.files = exec[q].files
          /\ e.base = exec[q].base /\ e.from = exec[q].from
          /\ exec' = [exec EXCEPT ![q] = e]
      BY <1>0, <2>1, <2>4 DEF ExecFields, Move
    <3>2. exec[q].files = EditsOf[q]
      BY <1>0, <2>1, <2>2, <2>4 DEF Holds
    <3> HIDE DEF e
    <3>3. QED
      BY <2>2, <3>1, <3>2, SameTree DEF UnderWay
  <2>5. QED
    BY <2>1, <2>3, <2>4
<1>8. CASE Verify(q)
  <2>1. PICK accepts \in BOOLEAN :
          exec' = [exec EXCEPT ![q].at = IF accepts THEN "add" ELSE "record", ![q].ok = accepts]
    BY <1>8 DEF Verify
  <2> DEFINE e == [exec[q] EXCEPT !.at = IF accepts THEN "add" ELSE "record", !.ok = accepts]
  <2>2. /\ DOMAIN e = ExecFields /\ e.at \in {"add", "record"} /\ e.files = exec[q].files
        /\ e.base = exec[q].base /\ e.from = exec[q].from
        /\ exec' = [exec EXCEPT ![q] = e]
    BY <1>0, <2>1 DEF ExecFields
  <2>3. exec[q].at = "verify" /\ UNCHANGED <<created, landed, auto, overtook>>
    BY <1>8 DEF Verify, At, landing
  <2>4. exec[q].files = EditsOf[q]
    BY <1>0, <2>3 DEF Holds
  <2> HIDE DEF e
  <2>5. QED
    BY <2>2, <2>3, <2>4, SameTree DEF UnderWay
<1>9. QED
  BY <1>2, <1>3, <1>4, <1>5, <1>6, <1>7, <1>8
-----------------------------------------------------------------------------
(* Landing.                                                                *)

\* To the branch of an issue.
LEMMA IssueCommitInv ==
  ASSUME LandInv, NEW q \in Runs, Commit(q), IssueOf[q] # NoIssue
  PROVE  LandInv'
<1>1. PICK phase \in {"push", "record"} : Move(q, phase)
  BY DEF Commit
<1>2. UNCHANGED <<created, landed, auto, overtook>>
  BY DEF Commit
<1> DEFINE e == [exec[q] EXCEPT !.at = phase]
<1>3. DOMAIN e = ExecFields /\ e.at = phase /\ exec' = [exec EXCEPT ![q] = e]
  BY <1>1 DEF Move, LandInv, LandShape, ExecFields
<1> HIDE DEF e
<1>4. QED
  BY <1>1, <1>2, <1>3, NotUnderWay DEF UnderWay

\* To swarm/auto: q's own edits are at the tip; an edit of another run is there too,
\* unless it was not in the tree or the worktree that q took it from.  Everybody else
\* under way is behind q from now on.
LEMMA CommitInv ==
  ASSUME LandInv, NEW q \in Runs, Commit(q), IssueOf[q] = NoIssue
  PROVE  LandInv'
<1>1. /\ auto' = [f \in Files |-> IF f \in exec[q].files THEN exec[q].base[f] \cup {q}
                                  ELSE exec[q].index[f]]
      /\ landed' = landed \cup {q} /\ overtook' = overtook \cup Behind(q)
      /\ exec[q].at = "commit" /\ created' = created
  BY DEF Commit, CommitTree, Edited, Result, At
<1>2. PICK phase \in {"push", "record"} : exec' = [exec EXCEPT ![q].at = phase]
  BY DEF Commit, Move
<1>3. /\ DOMAIN exec' = Runs /\ exec'[q].at = phase /\ DOMAIN exec'[q] = ExecFields
      /\ \A x \in Runs \ {q} : exec'[x] = exec[x]
  BY <1>2 DEF LandInv, LandShape, ExecFields
<1>4. LandShape'
  BY <1>1, <1>3 DEF LandInv, LandShape
<1>5. \A r, f : Excused(r, f) => Excused(r, f)'
  BY <1>1, ExcuseStays
<1>6. BaseKnows(q) /\ IndexKnows(q) /\ exec[q].files = EditsOf[q] /\ created
  BY <1>1 DEF LandInv, Holds, UnderWay
<1>7. ASSUME NEW r \in landed', NEW f \in EditsOf[r] PROVE r \in auto'[f] \/ Excused(r, f)'
  <2>0. r \in landed \cup {q}
    BY <1>1
  <2>1. CASE r = q /\ r \in Runs
    <3>1. f \in Files /\ f \in exec[q].files
      BY <1>6, <2>1, LandingAssumption
    <3>2. QED
      BY <1>1, <2>1, <3>1
  <2>2. CASE r \in landed /\ f \in EditsOf[q]
    <3>1. f \in Files
      BY <2>2, LandingAssumption
    <3>2. CASE r \in exec[q].base[f]
      BY <1>1, <1>6, <2>2, <3>1, <3>2
    <3>3. ASSUME NEW o \in overtook, o.run = q, o.over = r PROVE Excused(r, f)'
      BY <1>1, <2>2, <3>3 DEF Excused
    <3>4. QED
      BY <1>5, <1>6, <2>2, <3>2, <3>3 DEF BaseKnows
  <2>3. CASE r \in landed /\ f \notin EditsOf[q]
    <3>1. CASE r \in exec[q].index[f] /\ f \in Files
      BY <1>1, <1>6, <2>3, <3>1
    <3>2. ASSUME NEW o \in overtook, o.run = q, o.over = r, o.crossing PROVE Excused(r, f)'
      BY <1>1, <2>3, <3>2 DEF Excused
    <3>3. f \in Files
      BY <2>3, LandingAssumption DEF LandInv, LandShape
    <3>4. QED
      BY <1>5, <1>6, <2>3, <3>1, <3>2, <3>3 DEF IndexKnows
  <2>4. QED
    BY <2>0, <2>1, <2>2, <2>3
<1>8. LandedEditsStay'
  BY <1>7 DEF LandedEditsStay, Excused
<1>9. ASSUME NEW x \in Runs \ {q} PROVE Holds(x)'
  <2>1. exec'[x] = exec[x] /\ Holds(x)
    BY <1>3 DEF LandInv
  <2> DEFINE o == [run |-> x, over |-> q, crossing |-> exec[x].at = "commit"]
  <2>2. exec[x].at \in UnderWay => o \in overtook'
    BY <1>1 DEF Behind, UnderWay
  <2>3. o.run = x /\ o.over = q /\ (exec[x].at = "commit" => o.crossing)
    OBVIOUS
  <2> HIDE DEF o
  <2>4. exec[x].at \in UnderWay => Overtaken(x)'
    BY <2>2, <2>3 DEF Overtaken
  <2>5. exec[x].at \in UnderWay /\ BaseKnows(x) => BaseKnows(x)'
    BY <1>1, <1>5, <2>1, <2>2, <2>3 DEF BaseKnows
  <2>6. exec[x].at = "commit" /\ IndexKnows(x) => IndexKnows(x)'
    BY <1>1, <1>5, <2>1, <2>2, <2>3 DEF IndexKnows, UnderWay
  <2>7. QED
    BY <1>1, <2>1, <2>4, <2>5, <2>6 DEF Holds, OnTip, UnderWay
<1>10. Holds(q)'
  BY <1>3 DEF Holds, UnderWay
<1>11. QED
  BY <1>1, <1>4, <1>6, <1>8, <1>9, <1>10 DEF LandInv

\* A crash leaves nobody under way.
LEMMA LandingCrash == LandInv /\ Crash => LandInv'
<1> SUFFICES ASSUME LandInv, Crash PROVE LandInv'
  OBVIOUS
<1>1. /\ UNCHANGED <<created, landed, auto, overtook>>
      /\ \A q \in Runs : exec'[q].at = "idle" /\ DOMAIN exec'[q] = ExecFields
      /\ DOMAIN exec' = Runs
  BY DEF Crash, landing, NoExec, ExecFields
<1>2. LandShape' /\ LandedEditsStay' /\ (landed' # {} => created')
  BY <1>1 DEF LandInv, LandShape, LandedEditsStay
<1>3. \A q \in Runs : Holds(q)'
  BY <1>1 DEF Holds, UnderWay
<1>4. QED
  BY <1>2, <1>3 DEF LandInv

\* Every step.
LEMMA LandStep == LandInv /\ [LandNext]_landVars => LandInv'
<1> SUFFICES ASSUME LandInv, [LandNext]_landVars PROVE LandInv'
  OBVIOUS
<1>1. CASE UNCHANGED landVars \/ Upstream
  BY <1>1 DEF landVars, Upstream, landing, LandInv, LandShape, LandedEditsStay, Holds, OnTip,
              BaseKnows, IndexKnows, Overtaken, Excused
<1>2. ASSUME NEW q \in Runs, Executor(q) \/ SyncFails(q) \/ LandFails(q) PROVE LandInv'
  BY <1>2, SyncInv, CreateInv, LandAddInv, WorkInv, IssueCommitInv, CommitInv DEF Executor
<1>3. QED
  BY <1>1, <1>2, LandingCrash DEF LandNext
-----------------------------------------------------------------------------
\* The inductive invariant, for any runs, issues, files, edits, slots and faults.
THEOREM LandingInvariance == LandSpec => []LandInv
BY LandStart, LandStep, PTL DEF LandSpec

\* A landed edit is only lost to a run that started from an older tree and writes the
\* same file, or whose worktree was made before (executor.rs, land_to_branch).
THEOREM EditsStay == LandSpec => []LandedEditsStay
<1>1. LandInv => LandedEditsStay
  BY DEF LandInv
<1>2. QED
  BY <1>1, LandingInvariance, PTL

\* The tree that a run lands on swarm/auto is the one that the gate built and tested, if
\* the run synced to swarm/auto and nobody landed in between (executor.rs,
\* run_quality_gate and land_to_branch).
THEOREM TipIsGated == LandSpec => GatedTip
<1>1. ASSUME LandInv, LandNext, NEW q \in Runs, Lands(q), exec[q].from = "auto"
      PROVE  auto' = Edited(q, exec[q].base)
  <2>0. /\ At(q, "commit") /\ exec'[q].at \in {"push", "record"} /\ IssueOf[q] = NoIssue
        /\ ~Overtaken(q)
    BY <1>1 DEF Lands, Overtaken
  <2>1. exec[q].base = auto /\ exec[q].index = auto
    BY <1>1, <2>0 DEF LandInv, Holds, OnTip, At, UnderWay
  <2>2. CASE Commit(q)
    BY <2>0, <2>1, <2>2 DEF Commit, CommitTree
  <2>3. CASE Crash
    BY <2>0, <2>3 DEF Crash, NoExec
  <2>4. ASSUME NEW x \in Runs, x # q, Executor(x) \/ SyncFails(x) \/ LandFails(x) PROVE FALSE
    <3>1. exec'[q] = exec[q]
      BY <1>1, <2>4 DEF Executor, SyncFails, LandFails, Claim, SyncRepo, Work, WorkFails, Gate,
                       Verify, LandAdd, Commit, PushBranch, RecordRun, Move, LandInv, LandShape
    <3>2. QED
      BY <2>0, <3>1 DEF At
  <2>5. ASSUME Executor(q) \/ SyncFails(q) \/ LandFails(q) PROVE Commit(q)
    BY <2>0, <2>5 DEF Executor, SyncFails, LandFails, Claim, SyncRepo, Work, WorkFails, Gate,
                     Verify, LandAdd, PushBranch, RecordRun, At
  <2>6. CASE Upstream
    BY <2>0, <2>6 DEF Upstream, At
  <2>7. QED
    BY <1>1, <2>2, <2>3, <2>4, <2>5, <2>6 DEF LandNext
<1>2. LandInv /\ [LandNext]_landVars =>
        [\A r \in Runs :
           Lands(r) /\ exec[r].from = "auto" => auto' = Edited(r, exec[r].base)]_landVars
  BY <1>1
<1>3. QED
  BY <1>2, LandingInvariance, PTL DEF LandSpec, GatedTip
=============================================================================
