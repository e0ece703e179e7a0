-------------------------- MODULE PlanReviewProofs --------------------------
(***************************************************************************)
(* Proofs about PlanReview, for any number of runs, front ends, requests   *)
(* and faults: how often a run is executed, which plans are, and which     *)
(* feedback its planners are shown.                                        *)
(***************************************************************************)
EXTENDS PlanReview, FiniteSetTheorems, SequenceTheorems, WellFoundedInduction, TLAPS

IsSeq(s) == \E S : s \in Seq(S)

\* What the steps need to know of the variables' values: no more than that fields
\* that are updated are there.
Shape ==
  /\ status \in [Rows -> Status]
  /\ granted \in [Rows -> Nat] /\ executed \in [Rows -> Nat] /\ announced \in [Rows -> Nat]
  /\ listed \in [Rows -> Claimable \cup {"none"}]
  /\ DOMAIN plans = Rows /\ DOMAIN worker = Rows /\ DOMAIN doc = Rows
  /\ \A r \in Rows : /\ IsSeq(plans[r])
                     /\ {"pc", "place"} \subseteq DOMAIN worker[r] /\ worker[r].place \in Nat
                     /\ {"state", "place"} \subseteq DOMAIN doc[r] /\ doc[r].place \in Nat

\* Runs are created in the order of their numbers.
Counted == \E k \in 0 .. NumRows : \A r \in Rows : status[r] # "none" <=> r <= k

\* A run that the next list has, for execution; and the executions of it that are on their
\* way whatever its status: a worker that has not claimed it yet, and an entry of the list.
\* The lease keeps the entry from becoming a second worker beside the first.
Ready == {"pending", "approved"}
Begun(r) == (IF worker[r].pc = "execute" THEN 1 ELSE 0) + (IF listed[r] \in Ready THEN 1 ELSE 0)

Spent(r) ==
  /\ executed[r] + (IF status[r] \in Ready THEN 2 ELSE Begun(r)) <= 2 * Grants(r)
  /\ status[r] = "none" => executed[r] = 0 /\ worker[r].pc = "free" /\ listed[r] = "none"

\* The user was told of every plan on the rows, but for the one just stored, or one
\* that was stored while its run was being deleted; what is carried out is on the rows.
Told(r) ==
  faults \cap {"write", "crash"} = {} =>
    /\ worker[r].pc # "announce" => status[r] = "deleted" \/ announced[r] = Len(plans[r])
    /\ worker[r].pc = "work" => worker[r].place <= Len(plans[r])
    /\ doc[r].place <= Len(plans[r])

IInv == Shape /\ Counted /\ \A r \in Rows : Spent(r) /\ Told(r)
-----------------------------------------------------------------------------
(* Sequences and counting.                                                 *)

\* Appending to a sequence.
LEMMA Appended ==
  ASSUME NEW s, IsSeq(s), NEW e
  PROVE  IsSeq(Append(s, e)) /\ Len(s) \in Nat /\ Len(Append(s, e)) = Len(s) + 1
<1>1. PICK S : s \in Seq(S)
  BY DEF IsSeq
<1>2. s \in Seq(S \cup {e})
  BY <1>1
<1>3. Append(s, e) \in Seq(S \cup {e}) /\ Len(s) \in Nat /\ Len(Append(s, e)) = Len(s) + 1
  BY <1>2
<1>4. QED
  BY <1>3 DEF IsSeq

\* A function over a sequence's places is as long as the sequence.
LEMMA Mapped ==
  ASSUME NEW s, IsSeq(s), NEW t, t = [i \in DOMAIN s |-> t[i]]
  PROVE  IsSeq(t) /\ Len(t) = Len(s)
<1> DEFINE T == {t[i] : i \in DOMAIN s}
<1>1. PICK S : s \in Seq(S)
  BY DEF IsSeq
<1>2. Len(s) \in Nat /\ DOMAIN s = 1 .. Len(s)
  BY <1>1
<1>3. t \in [1 .. Len(s) -> T]
  BY <1>2
<1> HIDE DEF T
<1>4. t \in Seq(T) /\ Len(t) = Len(s)
  BY <1>2, <1>3
<1>5. QED
  BY <1>4 DEF IsSeq

\* The row that a new run gets is the first one that is free.
LEMMA NextRow ==
  ASSUME NEW k \in 0 .. NumRows, \A r \in Rows : status[r] # "none" <=> r <= k
  PROVE  Cardinality({q \in Rows : status[q] # "none"}) + 1 = k + 1
<1>1. {q \in Rows : status[q] # "none"} = 1 .. k
  BY PlanReviewAssumption DEF Rows
<1>2. Cardinality(1 .. k) = k
  BY FS_Interval
<1>3. QED
  BY <1>1, <1>2

\* Which runs exist is what the count looks at.
LEMMA StillCounted ==
  ASSUME Counted, \A r \in Rows : status'[r] = "none" <=> status[r] = "none"
  PROVE  Counted'
BY DEF Counted, Rows

\* Nothing has happened at first.
LEMMA InitInv == Init => IInv
<1> SUFFICES ASSUME Init PROVE IInv
  OBVIOUS
<1>1. \A r \in Rows : plans[r] = <<>> /\ IsSeq(plans[r]) /\ Len(plans[r]) = 0
  <2>1. <<>> \in Seq({})
    OBVIOUS
  <2>2. QED
    BY <2>1 DEF Init, IsSeq
<1>2. Shape
  BY <1>1 DEF Init, Shape, Status, Resting, Free, NoDoc
<1>3. Counted
  <2>1. 0 \in 0 .. NumRows /\ \A r \in Rows : ~(r <= 0)
    BY PlanReviewAssumption DEF Rows
  <2>2. \A r \in Rows : status[r] = "none"
    BY DEF Init
  <2>3. QED
    BY <2>1, <2>2 DEF Counted
<1>4. ASSUME NEW r \in Rows PROVE Spent(r) /\ Told(r)
  BY <1>1, <1>4 DEF Init, Spent, Begun, Ready, Grants, Told, Free, NoDoc
<1>5. QED
  BY <1>2, <1>3, <1>4 DEF IInv
-----------------------------------------------------------------------------
(* The front ends' statements.                                             *)

\* What a statement does to a run: a deleted run stays deleted, a run that becomes
\* claimable for execution is granted one, and its plans keep their number.
Stated(q) ==
  /\ status[q] = "deleted" => status'[q] = "deleted"
  /\ status[q] # "none" => granted'[q] >= granted[q]
  /\ status'[q] \in {"pending", "approved"} =>
       \/ status[q] \in {"pending", "approved"}
       \/ IF status[q] = "none" THEN granted'[q] >= 1 ELSE granted'[q] >= granted[q] + 1
  /\ status'[q] = "none" => status[q] = "none"
  /\ IsSeq(plans'[q]) /\ Len(plans'[q]) = Len(plans[q])

\* Every statement, whatever run it names and whatever became of that run meanwhile.
LEMMA Statement ==
  ASSUME Shape, Counted, NEW op, NEW r, Execute(op, r)
  PROVE  /\ status' \in [Rows -> Status] /\ granted' \in [Rows -> Nat]
         /\ DOMAIN plans' = Rows /\ Counted'
         /\ \A q \in Rows : Stated(q)
<1> USE DEF Shape
<1>n. \A q \in Rows : IsSeq(plans[q]) /\ plans[q] = plans[q]
  OBVIOUS
<1>1. ASSUME NEW new \in {"planning", "pending"}, Create(new)
      PROVE  /\ status' \in [Rows -> Status] /\ granted' \in [Rows -> Nat]
             /\ DOMAIN plans' = Rows /\ Counted'
             /\ \A q \in Rows : Stated(q)
  <2>1. PICK k \in 0 .. NumRows : \A q \in Rows : status[q] # "none" <=> q <= k
    BY DEF Counted
  <2>2. Cardinality({q \in Rows : status[q] # "none"}) + 1 = k + 1
    BY <2>1, NextRow
  <2>3. /\ status' = IF k + 1 \in Rows THEN [status EXCEPT ![k + 1] = new] ELSE status
        /\ granted' = IF k + 1 \in Rows /\ new = "pending" THEN [granted EXCEPT ![k + 1] = 1]
                      ELSE granted
        /\ plans' = plans
    BY <1>1, <2>2 DEF Create
  <2>4. new \in Status /\ new # "none"
    BY DEF Status, Claimable
  <2>5. status' \in [Rows -> Status] /\ granted' \in [Rows -> Nat]
    BY <2>3, <2>4
  <2>6. Counted'
    <3>1. CASE k + 1 \in Rows
      <4>1. k + 1 \in 0 .. NumRows
        BY <3>1 DEF Rows
      <4>2. \A q \in Rows : status'[q] # "none" <=> q <= k + 1
        BY <2>1, <2>3, <2>4, <3>1 DEF Rows
      <4>3. QED
        BY <4>1, <4>2 DEF Counted
    <3>2. CASE k + 1 \notin Rows
      BY <2>3, <3>2, StillCounted
    <3>3. QED
      BY <3>1, <3>2
  <2>7. ASSUME NEW q \in Rows PROVE Stated(q)
    <3>1. CASE q = k + 1
      <4>1. status[q] = "none" /\ status'[q] = new
        BY <2>1, <2>3, <3>1 DEF Rows
      <4>2. new = "pending" => granted'[q] = 1
        BY <2>3, <3>1
      <4>3. QED
        BY <2>3, <4>1, <4>2 DEF Stated
    <3>2. CASE q # k + 1
      BY <2>3, <3>2 DEF Stated
    <3>3. QED
      BY <3>1, <3>2
  <2>8. QED
    BY <2>3, <2>5, <2>6, <2>7
<1>2. ASSUME Approve(r)
      PROVE  /\ status' \in [Rows -> Status] /\ granted' \in [Rows -> Nat]
             /\ DOMAIN plans' = Rows /\ Counted'
             /\ \A q \in Rows : Stated(q)
  <2>0. "approved" \in Status /\ plans' = plans
    BY <1>2 DEF Approve, Status, Claimable
  <2>1. status' \in [Rows -> Status]
    BY <1>2, <2>0 DEF Approve, Written
  <2>4. granted' \in [Rows -> Nat]
    <3>1. granted' = [granted EXCEPT ![r] = granted[r] + 1]
      BY <1>2 DEF Approve
    <3>2. CASE r \in Rows
      BY <3>1, <3>2
    <3>3. CASE r \notin Rows
      BY <3>1, <3>3
    <3>4. QED
      BY <3>2, <3>3
  <2>2. ASSUME NEW q \in Rows PROVE Stated(q) /\ (status'[q] = "none" <=> status[q] = "none")
    BY <1>2 DEF Approve, Written, Exists, Stated
  <2>3. QED
    BY <2>0, <2>1, <2>2, <2>4, StillCounted
<1>3. ASSUME NEW new \in {"planning", "deleted"}, status' = Written(r, new),
             granted' = granted, plans' = plans
      PROVE  /\ status' \in [Rows -> Status] /\ granted' \in [Rows -> Nat]
             /\ DOMAIN plans' = Rows /\ Counted'
             /\ \A q \in Rows : Stated(q)
  <2>1. status' \in [Rows -> Status]
    BY <1>3 DEF Written, Status, Claimable, Resting
  <2>2. ASSUME NEW q \in Rows PROVE Stated(q) /\ (status'[q] = "none" <=> status[q] = "none")
    BY <1>3 DEF Written, Exists, Stated
  <2>3. QED
    BY <1>3, <2>1, <2>2, StillCounted
<1>4. ASSUME Record(r)
      PROVE  /\ status' \in [Rows -> Status] /\ granted' \in [Rows -> Nat]
             /\ DOMAIN plans' = Rows /\ Counted'
             /\ \A q \in Rows : Stated(q)
  <2>1. status' = status /\ granted' = granted /\ DOMAIN plans' = Rows
    BY <1>4 DEF Record
  <2>2. ASSUME NEW q \in Rows PROVE IsSeq(plans'[q]) /\ Len(plans'[q]) = Len(plans[q])
    <3>1. CASE q = r
      <4>1. plans'[q] = [i \in DOMAIN plans[q] |-> plans'[q][i]]
        BY <1>4, <3>1 DEF Record
      <4>2. QED
        BY <4>1, Mapped
    <3>2. CASE q # r
      BY <1>4, <3>2 DEF Record
    <3>3. QED
      BY <3>1, <3>2
  <2>3. QED
    BY <2>1, <2>2, StillCounted DEF Stated
<1>5. CASE UNCHANGED <<status, plans, feedback, granted>>
  BY <1>5, StillCounted DEF Stated
<1>6. CASE op = "plan" /\ Create("planning")
  BY <1>1, <1>6
<1>7. CASE op = "run" /\ Create("pending")
  BY <1>1, <1>7
<1>8. CASE Approve(r)
  BY <1>2, <1>8
<1>9. CASE Replan(r)
  BY <1>3, <1>9 DEF Replan
<1>10. CASE Record(r)
  BY <1>4, <1>10
<1>11. CASE Set(r, "planning")
  BY <1>3, <1>11 DEF Set, untouched
<1>12. CASE Set(r, "deleted")
  BY <1>3, <1>12 DEF Set, untouched
<1>13. CASE Resume(r)
  BY <1>2, <1>5, <1>13 DEF Resume, untouched
<1>14. QED
  BY <1>5, <1>6, <1>7, <1>8, <1>9, <1>10, <1>11, <1>12, <1>13 DEF Execute, untouched

\* No statement spends anything or adds a plan, so what held of the runs still does.
LEMMA ClientInv ==
  ASSUME IInv, NEW c \in Clients,
         Request(c) \/ Deliver(c) \/ LoseAnswer(c) \/ Reject(c)
  PROVE  IInv'
<1>1. CASE Request(c) \/ Reject(c) \/ (LoseAnswer(c) /\ UNCHANGED <<status, untouched>>)
  <2>1. /\ UNCHANGED <<status, plans, granted, listed, doc, worker, announced, executed>>
        /\ faults \subseteq faults' /\ ("crash" \in faults' => "crash" \in faults)
    BY <1>1 DEF Request, Reject, LoseAnswer, Fault, untouched, daemonless
  <2>2. QED
    BY <2>1, StillCounted DEF IInv, Shape, Counted, Spent, Begun, Ready, Grants, Told
<1>2. ASSUME NEW op, Execute(op, client[c].run), UNCHANGED daemonless,
             faults \subseteq faults', "crash" \in faults' => "crash" \in faults
      PROVE  IInv'
  <2>1. /\ status' \in [Rows -> Status] /\ granted' \in [Rows -> Nat]
        /\ DOMAIN plans' = Rows /\ Counted'
        /\ \A q \in Rows : Stated(q)
    BY <1>2, Statement DEF IInv
  <2>2. Shape'
    BY <1>2, <2>1 DEF IInv, Shape, Stated, daemonless
  <2>3. ASSUME NEW q \in Rows PROVE Spent(q)' /\ Told(q)'
    <3>1. Spent(q) /\ Told(q) /\ Stated(q)
      BY <2>1 DEF IInv
    <3>2. UNCHANGED <<listed, doc, worker, announced, executed>>
      BY <1>2 DEF daemonless
    <3>3. /\ granted[q] \in Nat /\ granted'[q] \in Nat /\ executed[q] \in Nat
      BY <2>1 DEF IInv, Shape
    <3>4. Spent(q)'
      <4>1. /\ Begun(q)' = Begun(q) /\ Begun(q) \in 0 .. 2 /\ executed'[q] = executed[q]
            /\ worker' = worker /\ listed' = listed
        BY <3>2 DEF Begun, Ready
      <4>2. /\ Grants(q) \in Nat /\ Grants(q)' \in Nat
            /\ Grants(q)' - Grants(q) = granted'[q] - granted[q]
        BY <1>2, <3>3 DEF Grants
      <4>3. /\ executed[q] + (IF status[q] \in Ready THEN 2 ELSE Begun(q)) <= 2 * Grants(q)
            /\ status[q] = "none" => executed[q] = 0 /\ Begun(q) = 0
        BY <3>1 DEF Spent, Begun, Ready
      <4>4. status[q] # "none" => granted'[q] >= granted[q]
        BY <3>1 DEF Stated
      <4>5. CASE status'[q] \notin Ready
        <5>1. executed[q] + Begun(q) <= 2 * Grants(q)'
          BY <3>3, <4>1, <4>2, <4>3, <4>4
        <5>2. status'[q] = "none" => executed[q] = 0 /\ worker[q].pc = "free" /\ listed[q] = "none"
          BY <3>1 DEF Stated, Spent
        <5>3. QED
          BY <4>1, <4>5, <5>1, <5>2 DEF Spent, Ready
      <4>6. CASE status'[q] \in Ready
        <5>1. \/ status[q] \in Ready
              \/ IF status[q] = "none" THEN granted'[q] >= 1 ELSE granted'[q] >= granted[q] + 1
          BY <3>1, <4>6 DEF Stated, Ready
        <5>2. Grants(q)' >= granted'[q]
          BY <1>2, <3>3 DEF Grants
        <5>3. executed[q] + 2 <= 2 * Grants(q)'
          <6>1. CASE status[q] \in Ready
            BY <3>3, <4>1, <4>2, <4>3, <4>4, <6>1 DEF Ready
          <6>2. CASE status[q] = "none"
            BY <3>3, <4>2, <4>3, <5>1, <5>2, <6>2 DEF Ready
          <6>3. CASE status[q] \notin Ready \cup {"none"}
            <7>1. granted'[q] >= granted[q] + 1 /\ executed[q] <= 2 * Grants(q)
              BY <3>3, <4>1, <4>2, <4>3, <5>1, <6>3
            <7>2. Grants(q)' >= Grants(q) + 1
              BY <3>3, <4>2, <7>1
            <7>3. QED
              BY <3>3, <4>2, <7>1, <7>2
          <6>4. QED
            BY <6>1, <6>2, <6>3
        <5>4. QED
          BY <4>1, <4>6, <5>3 DEF Spent, Ready
      <4>7. QED
        BY <4>5, <4>6
    <3>5. Told(q)'
      BY <1>2, <3>1, <3>2 DEF Told, Stated
    <3>6. QED
      BY <3>4, <3>5
  <2>4. QED
    BY <2>1, <2>2, <2>3 DEF IInv
<1>3. CASE Deliver(c)
  BY <1>2, <1>3 DEF Deliver
<1>4. CASE LoseAnswer(c) /\ Execute(Op(c), client[c].run)
  BY <1>2, <1>4 DEF LoseAnswer, Fault
<1>5. QED
  BY <1>1, <1>3, <1>4 DEF LoseAnswer
-----------------------------------------------------------------------------
(* The planner and the executor of a run.                                  *)

\* A step of one run's worker leaves the other runs as they are: it is enough to look
\* at the run itself.
LEMMA RowStep ==
  ASSUME IInv, NEW r \in Rows, Shape',
         UNCHANGED <<feedback, granted>>,
         faults \subseteq faults', "crash" \in faults' => "crash" \in faults,
         status'[r] = "none" <=> status[r] = "none",
         \A q \in Rows \ {r} :
           /\ status'[q] = status[q] /\ plans'[q] = plans[q] /\ doc'[q] = doc[q]
           /\ worker'[q] = worker[q] /\ announced'[q] = announced[q]
           /\ executed'[q] = executed[q] /\ listed'[q] = listed[q],
         Spent(r)', Told(r)'
  PROVE  IInv'
<1>1. Counted'
  BY StillCounted DEF IInv
<1>2. ASSUME NEW q \in Rows \ {r} PROVE Spent(q)' /\ Told(q)'
  BY <1>2 DEF IInv, Spent, Begun, Ready, Grants, Told
<1>3. QED
  BY <1>1, <1>2 DEF IInv

\* Claiming, by the planner or the executor, and being refused.
LEMMA ClaimInv ==
  ASSUME IInv, NEW r \in Rows,
         TryClaim(r) \/ ClaimRejected(r) \/ ClaimPlanning(r) \/ ClaimRun(r)
  PROVE  IInv'
<1> USE DEF IInv, Shape, At, To, Ends, Free, Written, Exists, Status, Claimable, Resting,
            untouched, elsewhere
<1>1. CASE TryClaim(r)
  <2>1. Shape' /\ Spent(r)' /\ Told(r)'
    <3>1. Shape'
      BY <1>1 DEF TryClaim
    <3>2. Spent(r)'
      <4>1. /\ listed'[r] = "none" /\ Begun(r)' <= Begun(r) /\ Begun(r) \in 0 .. 2
            /\ Begun(r)' \in 0 .. 2
        <5>1. listed'[r] = "none"
          BY <1>1 DEF TryClaim
        <5>2. worker'[r].pc = "execute" =>
                worker[r].pc = "execute" \/ (listed[r] \in Ready /\ worker[r].pc = "free")
          <6>1. listed[r] \in Ready \cup {"planning", "none"}
            BY DEF Ready
          <6>2. CASE worker' = worker
            BY <6>2
          <6>3. CASE worker' = [worker EXCEPT ![r].pc = IF listed[r] = "planning" THEN "plan" ELSE "execute"]
                     /\ worker[r].pc = "free" /\ listed[r] # "none"
            BY <6>1, <6>3
          <6>4. QED
            BY <1>1, <6>2, <6>3 DEF TryClaim
        <5>3. QED
          BY <5>1, <5>2 DEF Begun, Ready
      <4>2. /\ status' = status /\ executed' = executed /\ Grants(r)' = Grants(r)
            /\ status[r] # "none" /\ executed[r] \in Nat /\ Grants(r) \in Nat
        BY <1>1 DEF TryClaim, Grants, Spent
      <4>3. executed[r] + (IF status[r] \in Ready THEN 2 ELSE Begun(r)) <= 2 * Grants(r)
        BY DEF Spent
      <4>4. QED
        BY <4>1, <4>2, <4>3 DEF Spent, Ready
    <3>3. Told(r)'
      BY <1>1 DEF TryClaim, Told
    <3>4. QED
      BY <3>1, <3>2, <3>3
  <2>2. QED
    BY <1>1, <2>1, RowStep DEF TryClaim
<1>2. CASE ClaimRejected(r)
  <2>1. Shape' /\ Spent(r)' /\ Told(r)'
    <3>1. Shape'
      BY <1>2 DEF ClaimRejected, Fault
    <3>2. Spent(r)'
      BY <1>2 DEF ClaimRejected, Fault, Spent, Begun, Ready, Grants
    <3>3. Told(r)'
      BY <1>2 DEF ClaimRejected, Fault, Told
    <3>4. QED
      BY <3>1, <3>2, <3>3
  <2>2. QED
    BY <1>2, <2>1, RowStep DEF ClaimRejected, Fault
<1>3. CASE ClaimPlanning(r)
  <2>1. Shape' /\ Spent(r)' /\ Told(r)'
    <3>1. Shape'
      BY <1>3 DEF ClaimPlanning
    <3>2. Spent(r)'
      BY <1>3 DEF ClaimPlanning, Spent, Begun, Ready, Grants
    <3>3. Told(r)'
      BY <1>3 DEF ClaimPlanning, Told
    <3>4. QED
      BY <3>1, <3>2, <3>3
  <2>2. QED
    BY <1>3, <2>1, RowStep DEF ClaimPlanning
<1>4. CASE ClaimRun(r)
  <2>1. Shape' /\ Told(r)'
    <3>1. Shape'
      BY <1>4 DEF ClaimRun, ClaimedRun
    <3>2. Told(r)'
      BY <1>4 DEF ClaimRun, ClaimedRun, Told
    <3>3. QED
      BY <3>1, <3>2
  <2>2. Spent(r)'
    BY <1>4 DEF ClaimRun, ClaimedRun, Spent, Begun, Ready, Grants
  <2>3. QED
    BY <1>4, <2>1, <2>2, RowStep DEF ClaimRun, ClaimedRun
<1>5. QED
  BY <1>1, <1>2, <1>3, <1>4

\* Making a plan: the one that is stored is the only one the user was not told of,
\* until Announce.
LEMMA PlanInv ==
  ASSUME IInv, NEW r \in Rows, Plan(r)
  PROVE  IInv'
<1> USE DEF IInv, Shape, At, To, Ends, Free, Written, Exists, Status, Claimable, Resting,
            untouched, elsewhere, NoFault
<1>1. CASE Look(r)
  <2>1. PICK d : /\ worker' = [worker EXCEPT ![r].pc = "think", ![r].draft = d]
                 /\ faults \subseteq faults' /\ ("crash" \in faults' => "crash" \in faults)
    <3>1. PICK seen \in {plans[r], <<>>} :
            /\ IF seen = plans[r] THEN NoFault ELSE Fault("read")
            /\ \E i \in IF seen = <<>> THEN {0} ELSE Newest(seen) :
                 worker' = [worker EXCEPT ![r].pc = "think", ![r].draft =
                   [version |-> NextVersion(seen), note |-> IF i = 0 THEN 0 ELSE seen[i].note,
                    heard |-> Shown(seen), after |-> Len(feedback[r])]]
      BY <1>1 DEF Look
    <3>2. faults \subseteq faults' /\ ("crash" \in faults' => "crash" \in faults)
      BY <3>1 DEF Fault
    <3>3. \E d : worker' = [worker EXCEPT ![r].pc = "think", ![r].draft = d]
      BY <3>1
    <3>4. QED
      BY <3>2, <3>3
  <2>2. Shape' /\ Spent(r)' /\ Told(r)'
    <3>1. Shape'
      BY <1>1, <2>1 DEF Look
    <3>2. Spent(r)'
      BY <1>1, <2>1 DEF Look, Spent, Begun, Ready, Grants
    <3>3. Told(r)'
      BY <1>1, <2>1 DEF Look, Told
    <3>4. QED
      BY <3>1, <3>2, <3>3
  <2>3. QED
    BY <1>1, <2>1, <2>2, RowStep DEF Look
<1>2. CASE PlanFails(r)
  <2>1. Shape' /\ Spent(r)' /\ Told(r)'
    <3>1. Shape'
      BY <1>2 DEF PlanFails, PlanFailed
    <3>2. Spent(r)'
      BY <1>2 DEF PlanFails, PlanFailed, Spent, Begun, Ready, Grants
    <3>3. Told(r)'
      BY <1>2 DEF PlanFails, PlanFailed, Told
    <3>4. QED
      BY <3>1, <3>2, <3>3
  <2>2. QED
    BY <1>2, <2>1, RowStep DEF PlanFails, PlanFailed
<1>3. CASE StorePlan(r)
  <2>1. /\ \/ plans' = [plans EXCEPT ![r] = Append(@, worker[r].draft)] /\ faults' = faults
           \/ plans' = plans /\ "write" \in faults'
        /\ faults \subseteq faults' /\ ("crash" \in faults' => "crash" \in faults)
    BY <1>3 DEF StorePlan, Fault
  <2>2. IsSeq(plans'[r]) /\ Len(plans[r]) \in Nat
    <3>1. IsSeq(plans[r]) /\ Len(plans[r]) \in Nat
      BY Appended
    <3>2. CASE plans' = [plans EXCEPT ![r] = Append(@, worker[r].draft)]
      <4>1. plans'[r] = Append(plans[r], worker[r].draft)
        BY <3>2
      <4>2. QED
        BY <3>1, <4>1, Appended
    <3>3. CASE plans' = plans
      BY <3>1, <3>3
    <3>4. QED
      BY <2>1, <3>2, <3>3
  <2>3. Shape' /\ Spent(r)' /\ Told(r)'
    <3>1. Shape'
      BY <1>3, <2>1, <2>2 DEF StorePlan
    <3>2. Spent(r)'
      BY <1>3, <2>1, <2>2 DEF StorePlan, Spent, Begun, Ready, Grants
    <3>3. Told(r)'
      BY <1>3, <2>1, <2>2 DEF StorePlan, Told
    <3>4. QED
      BY <3>1, <3>2, <3>3
  <2>4. QED
    BY <1>3, <2>1, <2>3, RowStep DEF StorePlan
<1>4. CASE Announce(r)
  <2>1. /\ \/ status' = Written(r, "planned") /\ faults' = faults
           \/ status' = status /\ "write" \in faults'
        /\ faults \subseteq faults' /\ ("crash" \in faults' => "crash" \in faults)
    BY <1>4 DEF Announce, Planned, Fault
  <2>2. Len(plans[r]) \in Nat
    BY Appended
  <2>3. Shape' /\ Spent(r)' /\ Told(r)'
    <3>1. Shape'
      BY <1>4, <2>1, <2>2 DEF Announce
    <3>2. Spent(r)'
      <4>1. /\ status'[r] \in Ready => status[r] \in Ready
            /\ status'[r] = "none" => status[r] = "none"
        BY <1>4, <2>1 DEF Announce, Ready
      <4>2. /\ Begun(r)' = Begun(r) /\ Begun(r) \in 0 .. 2 /\ worker[r].pc # "free"
            /\ executed' = executed /\ executed[r] \in Nat /\ Grants(r) \in Nat
        BY <1>4 DEF Announce, Begun, Ready, Grants
      <4>3. Grants(r)' = Grants(r)
        BY <1>4, <2>1 DEF Announce, Grants
      <4>4. /\ executed[r] + (IF status[r] \in Ready THEN 2 ELSE Begun(r)) <= 2 * Grants(r)
            /\ status[r] # "none"
        BY <4>2 DEF Spent
      <4>5. QED
        BY <4>1, <4>2, <4>3, <4>4 DEF Spent, Ready
    <3>3. Told(r)'
      <4>1. CASE "write" \in faults'
        BY <4>1 DEF Told
      <4>2. CASE status' = Written(r, "planned") /\ Exists(r)
        <5>1. status'[r] = "planned"
          BY <4>2
        <5>2. announced'[r] = Len(plans[r]) /\ plans' = plans /\ doc' = doc
              /\ worker'[r].pc = "free"
          BY <1>4, <5>1 DEF Announce
        <5>3. QED
          BY <2>1, <5>2 DEF Told
      <4>3. CASE ~Exists(r)
        <5>1. status[r] = "deleted"
          BY <1>4, <4>3 DEF Announce, Spent
        <5>2. status'[r] = "deleted" /\ plans' = plans /\ doc' = doc /\ worker'[r].pc = "free"
          BY <1>4, <2>1, <5>1 DEF Announce
        <5>3. QED
          BY <2>1, <5>2 DEF Told
      <4>4. QED
        BY <2>1, <4>1, <4>2, <4>3
    <3>4. QED
      BY <3>1, <3>2, <3>3
  <2>4. QED
    BY <1>4, <2>1, <2>3, RowStep DEF Announce
<1>5. QED
  BY <1>1, <1>2, <1>3, <1>4 DEF Plan

\* Executing a plan: it is one of the run's rows, or the one of a document that was.
LEMMA RunInv ==
  ASSUME IInv, NEW r \in Rows, Run(r)
  PROVE  IInv'
<1> USE DEF IInv, Shape, At, To, Ends, Free, Written, Exists, Status, Claimable, Resting,
            untouched, elsewhere, NoFault
<1>1. CASE Fetch(r)
  <2> DEFINE Fits(i, d) ==
        /\ Begin(r, i, d)
        /\ i \in Nat /\ {"state", "place"} \subseteq DOMAIN d /\ d.place \in Nat
        /\ faults \cap {"write", "crash"} = {} => i <= Len(plans[r]) /\ d.place <= Len(plans[r])
  <2>1. \E i, d : Fits(i, d)
    <3>1. Len(plans[r]) \in Nat /\ Newest(plans[r]) \subseteq 1 .. Len(plans[r])
      <4>1. PICK S : plans[r] \in Seq(S)
        BY DEF IsSeq
      <4>2. QED
        BY <4>1 DEF Newest
    <3>2. CASE Begin(r, doc[r].place, [doc[r] EXCEPT !.state = "live"])
      <4>1. Fits(doc[r].place, [doc[r] EXCEPT !.state = "live"])
        BY <3>2 DEF Told
      <4>2. QED
        BY <4>1
    <3>3. ASSUME NEW i \in Newest(plans[r]), Begin(r, i, [state |-> "live", place |-> i])
          PROVE  \E j, d : Fits(j, d)
      <4>1. Fits(i, [state |-> "live", place |-> i])
        BY <3>1, <3>3
      <4>2. QED
        BY <4>1
    <3>4. CASE Begin(r, 0, doc[r])
      <4>1. Fits(0, doc[r])
        BY <3>1, <3>4 DEF Told
      <4>2. QED
        BY <4>1
    <3> HIDE DEF Fits
    <3>5. QED
      BY <1>1, <3>2, <3>3, <3>4 DEF Fetch
  <2>2. faults \subseteq faults' /\ ("crash" \in faults' => "crash" \in faults)
    BY <1>1 DEF Fetch, Fault
  <2>5. PICK i, d : Fits(i, d)
    BY <2>1
  <2>3. Shape' /\ Spent(r)' /\ Told(r)'
    <3>1. Shape'
      BY <1>1, <2>5, <2>2 DEF Fetch, Begin
    <3>2. Spent(r)'
      BY <1>1, <2>5, <2>2 DEF Fetch, Begin, Spent, Begun, Ready, Grants
    <3>3. Told(r)'
      BY <1>1, <2>5, <2>2 DEF Fetch, Begin, Told
    <3>4. QED
      BY <3>1, <3>2, <3>3
  <2>4. QED
    BY <1>1, <2>5, <2>2, <2>3, RowStep DEF Fetch, Begin
<1>2. CASE Finish(r)
  <2>1. /\ status' \in {Written(r, "finished"), status}
        /\ doc' \in {doc, [doc EXCEPT ![r].state = "ended"]}
        /\ faults \subseteq faults' /\ ("crash" \in faults' => "crash" \in faults)
        /\ status' = status => "write" \in faults' \/ ~Exists(r) \/ status[r] = "finished"
    BY <1>2 DEF Finish, Fault
  <2>2. Shape' /\ Spent(r)' /\ Told(r)'
    <3>1. Shape'
      BY <1>2, <2>1 DEF Finish
    <3>2. Spent(r)'
      BY <1>2, <2>1 DEF Finish, Spent, Begun, Ready, Grants
    <3>3. Told(r)'
      BY <1>2, <2>1 DEF Finish, Told
    <3>4. QED
      BY <3>1, <3>2, <3>3
  <2>3. QED
    BY <1>2, <2>1, <2>2, RowStep DEF Finish
<1>3. CASE Pause(r)
  <2>1. Shape' /\ Spent(r)' /\ Told(r)'
    <3>1. Shape'
      BY <1>3 DEF Pause
    <3>2. Spent(r)'
      BY <1>3 DEF Pause, Spent, Begun, Ready, Grants
    <3>3. Told(r)'
      BY <1>3 DEF Pause, Told
    <3>4. QED
      BY <3>1, <3>2, <3>3
  <2>2. QED
    BY <1>3, <2>1, RowStep DEF Pause
<1>4. QED
  BY <1>1, <1>2, <1>3 DEF Run

\* Reading the list.
LEMMA ListInv == IInv /\ ListPending => IInv'
<1> SUFFICES ASSUME IInv, ListPending PROVE IInv'
  OBVIOUS
<1>1. /\ UNCHANGED <<status, plans, granted, doc, worker, announced, executed, faults>>
      /\ listed' = [r \in Rows |-> IF status[r] \in Claimable THEN status[r] ELSE "none"]
  BY DEF ListPending, untouched
<1>2. Shape' /\ Counted'
  BY <1>1, StillCounted DEF IInv, Shape
<1>3. ASSUME NEW q \in Rows PROVE Spent(q)' /\ Told(q)'
  <2>1. Spent(q) /\ Told(q) /\ executed[q] \in Nat /\ granted[q] \in Nat
    BY DEF IInv, Shape
  <2>2. Told(q)'
    BY <1>1, <2>1 DEF Told
  <2>3. status[q] \notin Ready => listed'[q] \notin Ready
    BY <1>1 DEF Ready
  <2>4. Spent(q)'
    BY <1>1, <2>1, <2>3 DEF Spent, Begun, Ready, Grants, Claimable
  <2>5. QED
    BY <2>2, <2>4
<1>4. QED
  BY <1>2, <1>3 DEF IInv

\* A crash, the only one, counts as one more grant.
LEMMA CrashInv == IInv /\ Crash => IInv'
<1> SUFFICES ASSUME IInv, Crash PROVE IInv'
  OBVIOUS
<1>1. "crash" \notin faults /\ faults' = faults \cup {"crash"}
  BY DEF Crash, Fault
<1>2. Shape'
  BY DEF IInv, Shape, Crash, Free, untouched, Status, Claimable
<1>3. Counted'
  BY StillCounted DEF IInv, Shape, Crash
<1>4. ASSUME NEW q \in Rows PROVE Spent(q)' /\ Told(q)'
  <2>1. Told(q)'
    BY <1>1 DEF Told
  <2>2. /\ executed'[q] = executed[q] /\ granted'[q] = granted[q] /\ listed'[q] = "none"
        /\ worker'[q].pc = "free" /\ (status'[q] = "none" <=> status[q] = "none")
    BY DEF IInv, Shape, Crash, Free, untouched
  <2>3. executed[q] <= 2 * granted[q] /\ executed[q] \in Nat /\ granted[q] \in Nat
        /\ (status[q] = "none" => executed[q] = 0)
    BY <1>1 DEF IInv, Shape, Spent, Begun, Ready, Grants
  <2>4. Spent(q)'
    BY <1>1, <2>2, <2>3 DEF Spent, Begun, Ready, Grants
  <2>5. QED
    BY <2>1, <2>4
<1>5. QED
  BY <1>2, <1>3, <1>4 DEF IInv

\* Every step.
LEMMA NextInv == IInv /\ [Next]_vars => IInv'
<1> SUFFICES ASSUME IInv, [Next]_vars PROVE IInv'
  OBVIOUS
<1>1. CASE UNCHANGED vars
  BY <1>1 DEF vars, IInv, Shape, Counted, Spent, Begun, Ready, Grants, Told
<1>2. QED
  BY <1>1, ClientInv, ListInv, ClaimInv, PlanInv, RunInv, CrashInv DEF Next, Work
-----------------------------------------------------------------------------
\* The inductive invariant, for any number of runs, front ends, requests and faults.
THEOREM Invariance == Spec => []IInv
<1>1. QED
  BY InitInv, NextInv, PTL DEF Spec

\* No approval starts more than two executions, though nobody looks at what a claim changed
\* and the poll loop goes by a list of whatever age: the second can only come from a list
\* that was read before the first was claimed (executor.rs, handle_execute; main.rs).
THEOREM ApprovalsAtMostDouble == Spec => []ApprovalsSpent
<1>1. IInv => ApprovalsSpent
  <2> SUFFICES ASSUME IInv, NEW r \in Rows PROVE executed[r] <= 2 * Grants(r)
    BY DEF ApprovalsSpent
  <2>1. Spent(r) /\ executed[r] \in Nat /\ Begun(r) \in Nat /\ Grants(r) \in Nat
    BY DEF IInv, Shape, Begun, Grants
  <2>2. QED
    BY <2>1 DEF Spent
<1>2. QED
  BY <1>1, Invariance, PTL

\* No plan is executed that its user was not told of, unless the run was deleted, a write
\* failed or the daemon crashed (executor.rs, handle_planning).
THEOREM OnlyReviewedPlans == Spec => []ExecutesReviewed
<1>1. IInv => ExecutesReviewed
  <2>1. ASSUME IInv, NEW r \in Rows, worker[r].pc = "work",
               worker[r].place > announced[r], faults \cap {"write", "crash"} = {},
               status[r] # "deleted"
        PROVE  FALSE
    <3>1. announced[r] = Len(plans[r]) /\ worker[r].place <= Len(plans[r])
      BY <2>1 DEF IInv, Told
    <3>2. announced[r] \in Nat /\ worker[r].place \in Nat
      BY <2>1 DEF IInv, Shape
    <3>3. QED
      BY <2>1, <3>1, <3>2
  <2>2. QED
    BY <2>1 DEF ExecutesReviewed
<1>2. QED
  BY <1>1, Invariance, PTL

\* A deleted run is not brought back, whatever its worker or a restart still writes
\* (db.rs, update_run).
THEOREM DeletionFinal == Spec => DeletedStays
<1>1. ASSUME IInv, [Next]_vars
      PROVE  \A r \in Rows : status[r] = "deleted" => status'[r] = "deleted"
  <2> SUFFICES ASSUME NEW r \in Rows, status[r] = "deleted" PROVE status'[r] = "deleted"
    OBVIOUS
  <2>1. ASSUME NEW op, NEW q, Execute(op, q) PROVE status'[r] = "deleted"
    <3>1. Stated(r)
      BY <1>1, <2>1, Statement DEF IInv
    <3>2. QED
      BY <3>1 DEF Stated
  <2>2. ASSUME NEW c \in Clients, Request(c) \/ Deliver(c) \/ LoseAnswer(c) \/ Reject(c)
        PROVE  status'[r] = "deleted"
    BY <2>1, <2>2 DEF Request, Deliver, LoseAnswer, Reject
  <2>3. ASSUME NEW q \in Rows, TryClaim(q) \/ ClaimRejected(q) \/ Work(q)
        PROVE  status'[r] = "deleted"
    <3>1. \/ status' = status
          \/ \E new : status' = Written(q, new)
      BY <2>3 DEF TryClaim, ClaimRejected, Work, ClaimPlanning, ClaimRun, Plan, Run, Look,
                  PlanFails, PlanFailed, StorePlan, Announce, Planned, Fetch, Finish, Pause
    <3>2. QED
      BY <1>1, <3>1 DEF Written, Exists, IInv, Shape
  <2>4. CASE Crash \/ ListPending
    BY <1>1, <2>4 DEF Crash, ListPending, IInv, Shape
  <2>5. CASE UNCHANGED vars
    BY <2>5 DEF vars
  <2>6. QED
    BY <1>1, <2>2, <2>3, <2>4, <2>5 DEF Next
<1>2. QED
  BY <1>1, Invariance, PTL DEF Spec, DeletedStays
-----------------------------------------------------------------------------
(* Feedback reaches the planners.                                          *)

LastOf(S, n)     == n \in S /\ \A k \in S : k <= n
OnRows(given, k) == {n \in 1 .. k : given[n]}
PlanFields       == {"version", "note", "heard", "after"}

\* A plan knows the last feedback on the rows when its planner looked; `missed` says
\* that its planner may have failed to read them.
Heard(given, p, missed) ==
  /\ DOMAIN p = PlanFields /\ p.after \in 0 .. Len(given)
  /\ missed \/ \A n : LastOf(OnRows(given, p.after), n) => n \in p.heard

\* The last feedback put on a row is still on one, and all plans, the one being made
\* included, know what they can.
Conversation(r) ==
  /\ feedback[r] \in Seq(BOOLEAN) /\ IsSeq(plans[r])
  /\ {"pc", "draft"} \subseteq DOMAIN worker[r]
  /\ \A n : LastOf(OnRows(feedback[r], Len(feedback[r])), n) =>
              \E i \in DOMAIN plans[r] : plans[r][i].note = n
  /\ \A i \in DOMAIN plans[r] : Heard(feedback[r], plans[r][i], "read" \in faults)
  /\ Heard(feedback[r], worker[r].draft, "read" \in faults)

HInv ==
  /\ DOMAIN feedback = Rows /\ DOMAIN plans = Rows /\ DOMAIN worker = Rows
  /\ \A r \in Rows : Conversation(r)

Less == {p \in Nat \X Nat : p[1] < p[2]}

\* A bounded nonempty set of numbers has a last one.
LEMMA LastExists ==
  ASSUME NEW B \in Nat, NEW S, S \subseteq 1 .. B, S # {}
  PROVE  \E n : LastOf(S, n)
<1> DEFINE T == {n \in Nat : \E k \in S : n = B - k}
<1>1. \A k \in S : k \in Nat /\ B - k \in T
  OBVIOUS
<1>2. T \subseteq Nat /\ T # {}
  BY <1>1
<1>3. IsWellFoundedOn(Less, Nat)
  <2>1. Less = OpToRel(<, Nat)
    BY Zenon DEF Less, OpToRel
  <2>2. QED
    BY <2>1, NatLessThanWellFounded, Zenon
<1>4. PICK x \in T : \A y \in T : <<y, x>> \notin Less
  <2> HIDE DEF T
  <2>1. QED
    BY <1>2, <1>3, WFMin, Zenon
<1>5. PICK m \in S : x = B - m
  OBVIOUS
<1>6. ASSUME NEW k \in S PROVE k <= m
  <2>1. B - k \in T /\ B - k \in Nat /\ B - m \in Nat
    BY <1>1
  <2>2. ~(B - k < B - m)
    BY <1>4, <1>5, <2>1 DEF Less
  <2>3. QED
    BY <2>2, <1>1
<1>7. QED
  BY <1>6 DEF LastOf

\* More feedback changes nothing for the plans made before it.
LEMMA HeardStays ==
  ASSUME NEW given \in Seq(BOOLEAN), NEW b \in BOOLEAN, NEW p,
         NEW missed, NEW missed2, missed => missed2, Heard(given, p, missed)
  PROVE  Heard(Append(given, b), p, missed2)
<1>1. /\ p.after \in 0 .. Len(given) /\ Len(given) \in Nat
      /\ Len(Append(given, b)) = Len(given) + 1
      /\ \A n \in 1 .. p.after : Append(given, b)[n] = given[n]
  BY DEF Heard
<1>2. OnRows(Append(given, b), p.after) = OnRows(given, p.after)
  BY <1>1 DEF OnRows
<1>3. p.after \in 0 .. Len(Append(given, b))
  BY <1>1
<1>4. QED
  BY <1>2, <1>3 DEF Heard

\* Nor does a note put on them.
LEMMA NoteKeeps ==
  ASSUME NEW given, NEW p, NEW q, NEW missed, Heard(given, p, missed),
         DOMAIN q = PlanFields, q.after = p.after, q.heard = p.heard
  PROVE  Heard(given, q, missed)
BY DEF Heard

\* What is on the rows after one more feedback.
LEMMA OneMore ==
  ASSUME NEW given \in Seq(BOOLEAN), NEW b \in BOOLEAN, NEW n,
         LastOf(OnRows(Append(given, b), Len(Append(given, b))), n)
  PROVE  IF b THEN n = Len(given) + 1 ELSE LastOf(OnRows(given, Len(given)), n)
<1> DEFINE more == Append(given, b)
<1>1. /\ Len(given) \in Nat /\ Len(more) = Len(given) + 1
      /\ more[Len(given) + 1] = b
      /\ \A k \in 1 .. Len(given) : more[k] = given[k]
  OBVIOUS
<1> HIDE DEF more
<1>2. n \in 1 .. Len(given) + 1 /\ more[n]
      /\ \A k \in 1 .. Len(given) + 1 : more[k] => k <= n
  BY <1>1 DEF LastOf, OnRows, more
<1>3. CASE b
  <2>1. more[Len(given) + 1]
    BY <1>1, <1>3
  <2>2. Len(given) + 1 <= n
    BY <1>1, <1>2, <2>1
  <2>3. QED
    BY <1>1, <1>2, <1>3, <2>2
<1>4. CASE ~b
  <2>1. n \in 1 .. Len(given)
    BY <1>1, <1>2, <1>4
  <2>2. \A k \in OnRows(given, Len(given)) : k <= n
    BY <1>1, <1>2 DEF OnRows
  <2>3. QED
    BY <1>1, <1>2, <1>4, <2>1, <2>2 DEF LastOf, OnRows
<1>5. QED
  BY <1>3, <1>4

\* A run whose rows and feedback stay as they are, and whose draft stays or is dropped.
LEMMA Quiet ==
  ASSUME NEW r, Conversation(r), faults \subseteq faults',
         feedback'[r] = feedback[r], plans'[r] = plans[r],
         {"pc", "draft"} \subseteq DOMAIN worker'[r],
         worker'[r].draft \in {worker[r].draft, NoPlan}
  PROVE  Conversation(r)'
<1> DEFINE old == "read" \in faults
           new == "read" \in faults'
<1>1. old => new
  OBVIOUS
<1>2. ASSUME NEW p, Heard(feedback[r], p, old) PROVE Heard(feedback[r], p, new)
  BY <1>1, <1>2 DEF Heard
<1>3. Heard(feedback[r], NoPlan, new)
  <2>1. Len(feedback[r]) \in Nat
    BY DEF Conversation
  <2>2. DOMAIN NoPlan = PlanFields /\ NoPlan.after = 0
    BY DEF NoPlan, PlanFields
  <2>3. OnRows(feedback[r], 0) = {}
    BY DEF OnRows
  <2>4. QED
    BY <2>1, <2>2, <2>3 DEF Heard, LastOf
<1>4. QED
  BY <1>2, <1>3 DEF Conversation

\* Every statement: feedback that is put on the rows is on all of them.
LEMMA StatementTalk ==
  ASSUME HInv, NEW op, NEW q, Execute(op, q), faults \subseteq faults', UNCHANGED worker
  PROVE  HInv'
<1>1. CASE UNCHANGED <<plans, feedback>>
  <2>1. \A r \in Rows : Conversation(r)'
    BY <1>1, Quiet DEF HInv, Conversation
  <2>2. QED
    BY <1>1, <2>1 DEF HInv
<1>2. ASSUME NEW b \in BOOLEAN, feedback' = [feedback EXCEPT ![q] = Append(feedback[q], b)],
             \A r \in Rows : plans'[r] = IF r = q /\ b
               THEN [i \in DOMAIN plans[r] |-> [plans[r][i] EXCEPT !.note = Len(feedback[r]) + 1]]
               ELSE plans[r],
             DOMAIN plans' = Rows, b /\ q \in Rows => plans[q] # <<>>
      PROVE  HInv'
  <2>1. ASSUME NEW r \in Rows, r # q PROVE Conversation(r)'
    <3>1. feedback'[r] = feedback[r] /\ plans'[r] = plans[r] /\ worker' = worker
      BY <1>2, <2>1 DEF HInv
    <3>2. QED
      BY <3>1, Quiet DEF HInv, Conversation
  <2>2. ASSUME q \in Rows PROVE Conversation(q)'
    <3> DEFINE given == feedback[q]
               more  == Append(given, b)
               old   == plans[q]
               rows  == plans'[q]
    <3>1. Conversation(q) /\ feedback'[q] = more /\ worker' = worker
      BY <1>2, <2>2 DEF HInv
    <3>2. given \in Seq(BOOLEAN) /\ more \in Seq(BOOLEAN) /\ IsSeq(old)
      BY <3>1 DEF Conversation
    <3>3. /\ rows = [i \in DOMAIN old |-> rows[i]]
          /\ \A i \in DOMAIN old :
               rows[i] = IF b THEN [old[i] EXCEPT !.note = Len(given) + 1] ELSE old[i]
      <4>1. CASE b
        BY <1>2, <2>2, <4>1
      <4>2. CASE ~b
        <5>1. rows = old
          BY <1>2, <2>2, <4>2
        <5>2. old = [i \in DOMAIN old |-> old[i]]
          <6>1. PICK S : old \in Seq(S)
            BY <3>2 DEF IsSeq
          <6>2. QED
            BY <6>1
        <5>3. QED
          BY <4>2, <5>1, <5>2
      <4>3. QED
        BY <4>1, <4>2
    <3>4. IsSeq(rows) /\ DOMAIN rows = DOMAIN old
      <4>1. IsSeq(rows)
        BY <3>2, <3>3, Mapped
      <4>2. DOMAIN rows = DOMAIN old
        BY <3>3
      <4>3. QED
        BY <4>1, <4>2
    <3>5. ASSUME NEW i \in DOMAIN old
          PROVE  /\ DOMAIN rows[i] = PlanFields /\ rows[i].after = old[i].after
                 /\ rows[i].heard = old[i].heard
                 /\ rows[i].note = IF b THEN Len(given) + 1 ELSE old[i].note
      <4>1. DOMAIN old[i] = PlanFields
        BY <3>1 DEF Conversation, Heard
      <4>2. QED
        BY <3>3, <4>1 DEF PlanFields
    <3>6. b => old # <<>> /\ \E i \in DOMAIN old : TRUE
      <4>1. PICK S : old \in Seq(S)
        BY <3>2 DEF IsSeq
      <4>2. old # <<>> => 1 \in DOMAIN old
        BY <4>1
      <4>3. QED
        BY <1>2, <2>2, <4>2
    <3>7. ASSUME NEW n, LastOf(OnRows(more, Len(more)), n)
          PROVE  \E i \in DOMAIN rows : rows[i].note = n
      <4>1. IF b THEN n = Len(given) + 1 ELSE LastOf(OnRows(given, Len(given)), n)
        <5> HIDE DEF given
        <5>1. QED
          BY <3>2, <3>7, OneMore
      <4>2. ~b => \E i \in DOMAIN old : old[i].note = n
        BY <3>1, <4>1 DEF Conversation
      <4> HIDE DEF rows, old, given, more
      <4>3. QED
        BY <3>4, <3>5, <3>6, <4>1, <4>2
    <3> DEFINE was == "read" \in faults
               is  == "read" \in faults'
    <3>8. was => is
      OBVIOUS
    <3>9. ASSUME NEW i \in DOMAIN rows PROVE Heard(more, rows[i], is)
      <4>1. Heard(given, old[i], was)
        BY <3>1, <3>4 DEF Conversation
      <4> HIDE DEF rows, old, given, was, is
      <4>2. QED
        <5>1. Heard(more, old[i], is)
          BY <3>2, <3>8, <4>1, HeardStays
        <5>2. QED
          BY <3>4, <3>5, <5>1, NoteKeeps
    <3>10. Heard(more, worker[q].draft, is)
      <4> DEFINE d == worker[q].draft
      <4>1. Heard(given, d, was)
        BY <3>1 DEF Conversation
      <4> HIDE DEF d, given, was, is
      <4>2. Heard(more, d, is)
        BY <3>2, <3>8, <4>1, HeardStays
      <4>3. QED
        BY <4>2 DEF d
    <3>11. {"pc", "draft"} \subseteq DOMAIN worker[q]
      BY <3>1 DEF Conversation
    <3> HIDE DEF rows, old, given, more
    <3>12. QED
      BY <3>1, <3>2, <3>4, <3>7, <3>9, <3>10, <3>11 DEF Conversation, rows
  <2>3. QED
    BY <1>2, <2>1, <2>2 DEF HInv
<1>3. CASE Replan(q)
  BY <1>2, <1>3 DEF Replan, HInv
<1>4. CASE Record(q)
  <2>1. (plans[q] # <<>>) \in BOOLEAN
    OBVIOUS
  <2>2. ASSUME q \in Rows, plans[q] = <<>> PROVE plans'[q] = plans[q]
    <3>1. DOMAIN plans[q] = {}
      BY <2>2
    <3>2. plans'[q] = [i \in {} |-> i]
      BY <1>4, <2>2, <3>1 DEF Record, HInv
    <3>3. QED
      BY <2>2, <3>2
  <2>3. CASE q \in Rows /\ plans[q] = <<>>
    BY <1>2, <1>4, <2>2, <2>3 DEF Record, HInv
  <2>4. CASE ~(q \in Rows /\ plans[q] = <<>>)
    BY <1>2, <1>4, <2>4 DEF Record, HInv
  <2>5. QED
    BY <2>3, <2>4
<1>5. QED
  BY <1>1, <1>3, <1>4 DEF Execute, Create, Approve, Set, Resume, untouched

\* A planner that looks sees what is on the rows.
LEMMA LookTalk ==
  ASSUME HInv, NEW r \in Rows, Look(r)
  PROVE  HInv'
<1>a. PICK seen \in {plans[r], <<>>} :
        /\ IF seen = plans[r] THEN NoFault ELSE Fault("read")
        /\ \E i \in IF seen = <<>> THEN {0} ELSE Newest(seen) :
             worker' = [worker EXCEPT ![r].pc = "think", ![r].draft =
               [version |-> NextVersion(seen), note |-> IF i = 0 THEN 0 ELSE seen[i].note,
                heard |-> Shown(seen), after |-> Len(feedback[r])]]
  BY DEF Look
<1>b. PICK last \in IF seen = <<>> THEN {0} ELSE Newest(seen) :
        worker' = [worker EXCEPT ![r].pc = "think", ![r].draft =
          [version |-> NextVersion(seen), note |-> IF last = 0 THEN 0 ELSE seen[last].note,
           heard |-> Shown(seen), after |-> Len(feedback[r])]]
  BY <1>a
<1> DEFINE note == IF last = 0 THEN 0 ELSE seen[last].note
           version == NextVersion(seen)
<1>1. /\ seen \in {plans[r], <<>>} /\ IF seen = plans[r] THEN NoFault ELSE Fault("read")
      /\ worker' = [worker EXCEPT ![r].pc = "think", ![r].draft =
           [version |-> version, note |-> note, heard |-> Shown(seen),
            after |-> Len(feedback[r])]]
  BY <1>a, <1>b
<1> HIDE DEF note, version
<1>2. UNCHANGED <<plans, feedback>> /\ faults \subseteq faults'
  BY <1>1 DEF Look, untouched, NoFault, Fault
<1>3. ASSUME NEW q \in Rows, q # r PROVE Conversation(q)'
  <2>1. Conversation(q) /\ worker'[q] = worker[q]
    BY <1>1, <1>3 DEF HInv
  <2>2. QED
    BY <1>2, <2>1, Quiet DEF Conversation
<1>4. Conversation(r)'
  <2> DEFINE d == [version |-> version, note |-> note, heard |-> Shown(seen),
                   after |-> Len(feedback[r])]
             given == feedback[r]
  <2>1. Conversation(r)
    BY DEF HInv
  <2>2. {"pc", "draft"} \subseteq DOMAIN worker'[r] /\ worker'[r].draft = d
    BY <1>1, <2>1 DEF HInv, Conversation
  <2>3. given \in Seq(BOOLEAN) /\ Len(given) \in Nat
    BY <2>1 DEF Conversation
  <2>4. ASSUME "read" \notin faults', NEW n, LastOf(OnRows(given, Len(given)), n)
        PROVE  n \in Shown(seen)
    <3>1. seen = plans[r]
      BY <1>1, <2>4 DEF Fault
    <3>2. PICK i \in DOMAIN plans[r] : plans[r][i].note = n
      BY <2>1, <2>4 DEF Conversation
    <3>3. n # 0
      BY <2>3, <2>4 DEF LastOf, OnRows
    <3>4. QED
      BY <3>1, <3>2, <3>3 DEF Shown
  <2>5. Heard(given, d, "read" \in faults')
    <3>1. DOMAIN d = PlanFields /\ d.after = Len(given) /\ d.heard = Shown(seen)
      BY DEF PlanFields
    <3> HIDE DEF d, given
    <3>2. QED
      BY <2>3, <2>4, <3>1 DEF Heard
  <2> DEFINE was == "read" \in faults
             is  == "read" \in faults'
  <2>6. ASSUME NEW i \in DOMAIN plans[r] PROVE Heard(given, plans[r][i], is)
    <3>1. was => is
      BY <1>2
    <3>2. Heard(given, plans[r][i], was)
      BY <2>1 DEF Conversation
    <3> HIDE DEF was, is, given
    <3>3. QED
      BY <3>1, <3>2 DEF Heard
  <2> HIDE DEF d
  <2>7. QED
    BY <1>2, <2>1, <2>2, <2>5, <2>6 DEF Conversation
<1>5. DOMAIN worker' = Rows
  BY <1>1 DEF HInv
<1>6. QED
  BY <1>2, <1>3, <1>4, <1>5 DEF HInv

\* The plan that is stored has heard what its draft has.
LEMMA StoreTalk ==
  ASSUME HInv, NEW r \in Rows, StorePlan(r)
  PROVE  HInv'
<1>1. /\ worker' = [worker EXCEPT ![r].pc = "announce"] /\ feedback' = feedback
      /\ faults \subseteq faults'
      /\ plans' \in {[plans EXCEPT ![r] = Append(plans[r], worker[r].draft)], plans}
  BY DEF StorePlan, To, NoFault, Fault
<1>2. ASSUME NEW q \in Rows
      PROVE  /\ Conversation(q) /\ {"pc", "draft"} \subseteq DOMAIN worker'[q]
             /\ worker'[q].draft = worker[q].draft
  <2>1. Conversation(q)
    BY DEF HInv
  <2>2. QED
    BY <1>1, <2>1 DEF HInv, Conversation
<1>3. ASSUME NEW q \in Rows, plans'[q] = plans[q] PROVE Conversation(q)'
  BY <1>1, <1>2, <1>3, Quiet
<1>4. ASSUME plans' = [plans EXCEPT ![r] = Append(plans[r], worker[r].draft)]
      PROVE  Conversation(r)'
  <2> DEFINE old == plans[r]
             d   == worker[r].draft
             rows == Append(old, d)
             was == "read" \in faults
             is  == "read" \in faults'
             given == feedback[r]
  <2>1. Conversation(r) /\ plans'[r] = rows
    BY <1>2, <1>4 DEF HInv
  <2>2. PICK S : old \in Seq(S)
    BY <2>1 DEF Conversation, IsSeq
  <2>3. /\ DOMAIN rows = 1 .. Len(old) + 1 /\ DOMAIN old = 1 .. Len(old) /\ Len(old) \in Nat
        /\ rows[Len(old) + 1] = d /\ \A i \in DOMAIN old : rows[i] = old[i]
    <3> HIDE DEF old, d
    <3>1. old \in Seq(S \cup {d})
      BY <2>2
    <3>2. QED
      BY <3>1
  <2>4. IsSeq(rows)
    BY <2>1, Appended DEF Conversation
  <2>5. ASSUME NEW p, Heard(given, p, was) PROVE Heard(given, p, is)
    <3>1. was => is
      BY <1>1
    <3> HIDE DEF was, is, given
    <3>2. QED
      BY <2>5, <3>1 DEF Heard
  <2>6. /\ \A i \in DOMAIN old : Heard(given, old[i], was)
        /\ Heard(given, d, was)
        /\ \A n : LastOf(OnRows(given, Len(given)), n) => \E i \in DOMAIN old : old[i].note = n
    BY <2>1 DEF Conversation
  <2> HIDE DEF old, d, was, is, given, rows
  <2>7. \A i \in DOMAIN rows : Heard(given, rows[i], is)
    BY <2>3, <2>5, <2>6
  <2>8. \A n : LastOf(OnRows(given, Len(given)), n) => \E i \in DOMAIN rows : rows[i].note = n
    BY <2>3, <2>6
  <2>9. Heard(given, d, is)
    BY <2>5, <2>6
  <2>10. worker'[r].draft = d /\ feedback'[r] = given /\ given \in Seq(BOOLEAN)
    BY <1>1, <1>2, <2>1 DEF d, given, Conversation
  <2>11. QED
    BY <1>2, <2>1, <2>4, <2>7, <2>8, <2>9, <2>10 DEF Conversation, is
<1>5. DOMAIN worker' = Rows /\ DOMAIN plans' = Rows
  BY <1>1 DEF HInv
<1>6. ASSUME NEW q \in Rows PROVE Conversation(q)'
  <2>1. CASE plans'[q] = plans[q]
    BY <1>3, <2>1
  <2>2. CASE plans'[q] # plans[q]
    <3>1. q = r /\ plans' = [plans EXCEPT ![r] = Append(plans[r], worker[r].draft)]
      BY <1>1, <2>2 DEF HInv
    <3>2. QED
      BY <1>4, <3>1
  <2>3. QED
    BY <2>1, <2>2
<1>7. QED
  BY <1>1, <1>5, <1>6 DEF HInv

\* No other step touches what was said.
LEMMA OtherTalk ==
  ASSUME HInv, UNCHANGED <<plans, feedback>>, faults \subseteq faults',
         DOMAIN worker' = Rows,
         \A r \in Rows : \/ worker'[r] = Free
                         \/ {"pc", "draft"} \subseteq DOMAIN worker'[r]
                            /\ worker'[r].draft = worker[r].draft
  PROVE  HInv'
<1>1. {"pc", "draft"} \subseteq DOMAIN Free /\ Free.draft = NoPlan
  BY DEF Free
<1>2. ASSUME NEW r \in Rows PROVE Conversation(r)'
  <2>1. Conversation(r)
    BY DEF HInv
  <2>2. QED
    BY <1>1, <2>1, Quiet
<1>3. QED
  BY <1>2 DEF HInv

\* The steps of a run's worker that only move it.
LEMMA WorkTalk ==
  ASSUME HInv, NEW r \in Rows,
         \/ TryClaim(r) \/ ClaimRejected(r) \/ ClaimPlanning(r) \/ ClaimRun(r)
         \/ PlanFails(r) \/ Announce(r) \/ Run(r)
  PROVE  HInv'
<1>1. UNCHANGED <<plans, feedback>> /\ faults \subseteq faults'
  BY DEF TryClaim, ClaimRejected, ClaimPlanning, ClaimRun, PlanFails, Announce, Run, Fetch,
         Finish, Pause, untouched, NoFault, Fault
<1>2. \/ worker' = [worker EXCEPT ![r] = Free] \/ worker' = worker
      \/ \E pc : worker' = [worker EXCEPT ![r].pc = pc]
      \/ \E i : worker' = [worker EXCEPT ![r].pc = "work", ![r].place = i]
  BY DEF TryClaim, ClaimRejected, ClaimPlanning, ClaimRun, PlanFails, Announce, Run, Fetch,
         Finish, Pause, Begin, To, Ends
<1>3. \A q \in Rows : {"pc", "draft"} \subseteq DOMAIN worker[q]
  BY DEF HInv, Conversation
<1>4. DOMAIN worker = Rows
  BY DEF HInv
<1>5. /\ DOMAIN worker' = Rows
      /\ \A q \in Rows : \/ worker'[q] = Free
                         \/ {"pc", "draft"} \subseteq DOMAIN worker'[q]
                            /\ worker'[q].draft = worker[q].draft
  BY <1>2, <1>3, <1>4
<1>6. QED
  BY <1>1, <1>5, OtherTalk

\* Every step.
LEMMA NextTalk == HInv /\ [Next]_vars => HInv'
<1> SUFFICES ASSUME HInv, [Next]_vars PROVE HInv'
  OBVIOUS
<1>1. \A r \in Rows : {"pc", "draft"} \subseteq DOMAIN worker[r]
  BY DEF HInv, Conversation
<1>2. ASSUME UNCHANGED <<plans, feedback, worker>>, faults \subseteq faults' PROVE HInv'
  BY <1>1, <1>2, OtherTalk DEF HInv
<1>3. CASE UNCHANGED vars
  BY <1>2, <1>3 DEF vars
<1>4. ASSUME NEW c \in Clients, Request(c) \/ Deliver(c) \/ LoseAnswer(c) \/ Reject(c)
      PROVE  HInv'
  BY <1>2, <1>4, StatementTalk
     DEF Request, Deliver, LoseAnswer, Reject, untouched, daemonless, Fault
<1>8. CASE ListPending
  BY <1>2, <1>8 DEF ListPending, untouched
<1>5. ASSUME NEW r \in Rows, TryClaim(r) \/ ClaimRejected(r) \/ Work(r) PROVE HInv'
  BY <1>5, LookTalk, StoreTalk, WorkTalk DEF Work, Plan
<1>6. CASE Crash
  <2>1. /\ UNCHANGED <<plans, feedback>> /\ faults \subseteq faults' /\ DOMAIN worker' = Rows
        /\ \A r \in Rows : worker'[r] = Free
    BY <1>6 DEF Crash, untouched, Fault
  <2>2. QED
    BY <2>1, OtherTalk
<1>7. QED
  BY <1>3, <1>4, <1>5, <1>6, <1>8 DEF Next

\* At first nothing was said.
LEMMA InitTalk == Init => HInv
<1> SUFFICES ASSUME Init PROVE HInv
  OBVIOUS
<1>1. DOMAIN feedback = Rows /\ DOMAIN plans = Rows /\ DOMAIN worker = Rows
  BY DEF Init
<1>2. ASSUME NEW r \in Rows PROVE Conversation(r)
  <2>1. feedback[r] = <<>> /\ plans[r] = <<>> /\ worker[r] = Free
    BY <1>2 DEF Init
  <2>2. <<>> \in Seq(BOOLEAN) /\ IsSeq(<<>>) /\ Len(<<>>) = 0 /\ DOMAIN <<>> = {}
    BY DEF IsSeq
  <2>3. {"pc", "draft"} \subseteq DOMAIN Free /\ Free.draft = NoPlan
    BY DEF Free
  <2>4. DOMAIN NoPlan = PlanFields /\ NoPlan.after = 0
    BY DEF NoPlan, PlanFields
  <2>5. OnRows(<<>>, 0) = {}
    BY DEF OnRows
  <2>6. Heard(<<>>, NoPlan, "read" \in faults)
    BY <2>2, <2>4, <2>5 DEF Heard, LastOf
  <2>7. QED
    BY <2>1, <2>2, <2>3, <2>5, <2>6 DEF Conversation, LastOf
<1>3. QED
  BY <1>1, <1>2 DEF HInv

\* A planner is shown the last feedback that was on its run's rows when it looked,
\* whatever was asked, replanned or stored meanwhile, unless its read failed
\* (executor.rs, handle_planning).
THEOREM LastFeedbackShown == Spec => []StoredFeedbackHeard
<1>1. HInv => StoredFeedbackHeard
  <2> SUFFICES ASSUME HInv, NEW r \in Rows, NEW i \in DOMAIN plans[r],
                      {n \in 1 .. plans[r][i].after : feedback[r][n]} # {},
                      "read" \notin faults
               PROVE  (CHOOSE m \in {n \in 1 .. plans[r][i].after : feedback[r][n]} :
                        \A k \in {n \in 1 .. plans[r][i].after : feedback[r][n]} : k <= m)
                      \in plans[r][i].heard
    BY Zenon DEF StoredFeedbackHeard
  <2> DEFINE stored == {n \in 1 .. plans[r][i].after : feedback[r][n]}
             last   == CHOOSE n \in stored : \A k \in stored : k <= n
  <2>1. /\ plans[r][i].after \in Nat
        /\ \A n : LastOf(OnRows(feedback[r], plans[r][i].after), n) => n \in plans[r][i].heard
    BY DEF HInv, Conversation, Heard
  <2>2. stored = OnRows(feedback[r], plans[r][i].after)
    BY DEF OnRows
  <2>3. stored \subseteq 1 .. plans[r][i].after /\ stored # {}
    OBVIOUS
  <2> HIDE DEF stored
  <2>4. \E n : LastOf(stored, n)
    BY <2>1, <2>3, LastExists
  <2>5. LastOf(stored, last)
    BY <2>4 DEF LastOf
  <2> HIDE DEF last
  <2>6. last \in plans[r][i].heard
    BY <2>1, <2>2, <2>5
  <2>7. QED
    BY <2>6 DEF last, stored
<1>2. QED
  BY <1>1, InitTalk, NextTalk, PTL DEF Spec
=============================================================================
