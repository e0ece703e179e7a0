--------------------------- MODULE DispatchProofs ---------------------------
(***************************************************************************)
(* Proofs about what hands work out.  InferenceRouter hands calls to         *)
(* backends: its counters are exact, and a call fails only after every      *)
(* backend has failed it, for any number of concurrent calls, any backends  *)
(* and any answers.  Backlog hands goals to runs: it takes an issue for two *)
(* goals only after two failures, for any goals, issues, slots and failures. *)
(***************************************************************************)
EXTENDS InferenceRouter, Backlog, FiniteSetTheorems, TLAPS
-----------------------------------------------------------------------------
(* The router: its counters.                                               *)

\* The calls that are counted on a backend.
Counted(b) == {c \in Calls : call[c].guard /\ call[c].on = b}

\* What the steps need to know of a call's record.  Which backends it may be on is of
\* no importance: a call that is on none is on no backend.
Fields == {"at", "opts", "on", "guard", "model", "picked", "todo", "refused"}

Shape ==
  /\ DOMAIN call = Calls
  /\ \A c \in Calls : DOMAIN call[c] = Fields /\ call[c].guard \in BOOLEAN
  /\ inFlight \in [Backends -> Int]

\* A call that is between requests, or over, is on no backend.
AtRest == \A c \in Calls : call[c].at \in {"idle", "served", "failed"} => call[c].on = NoBackend

IInv == Shape /\ AtRest /\ InFlightExact

-----------------------------------------------------------------------------
(* Counting.                                                               *)

\* Nothing is on a backend that is not one.
LEMMA NoneOnNone == NoBackend \notin Backends
BY DEF NoBackend, Backends

\* A step that moves one call changes the number of calls counted on a backend by that
\* call.
LEMMA OneCallCounts ==
  ASSUME NEW c \in Calls, NEW b \in Backends,
         \A d \in Calls \ {c} : call'[d] = call[d]
  PROVE  LET Here  == IF call[c].guard /\ call[c].on = b THEN 1 ELSE 0
             There == IF call'[c].guard /\ call'[c].on = b THEN 1 ELSE 0 IN
         Cardinality(Counted(b)') = Cardinality(Counted(b)) - Here + There
<1> DEFINE Others == {d \in Calls \ {c} : call[d].guard /\ call[d].on = b}
<1>1. IsFiniteSet(Others) /\ Cardinality(Others) \in Nat
  BY RouterAssumption, FS_Subset, FS_CardinalityType
<1>2. c \notin Others
  OBVIOUS
<1>3. Cardinality(Others \cup {c}) = Cardinality(Others) + 1
  BY <1>1, <1>2, FS_AddElement
<1>4. Counted(b) = IF call[c].guard /\ call[c].on = b THEN Others \cup {c} ELSE Others
  BY DEF Counted
<1>5. Counted(b)' = IF call'[c].guard /\ call'[c].on = b THEN Others \cup {c} ELSE Others
  BY DEF Counted
<1> HIDE DEF Others
<1>6. QED
  BY <1>1, <1>3, <1>4, <1>5

\* So it is enough to account for the call that moves.
LEMMA OneCallMoves ==
  ASSUME IInv, NEW c \in Calls, Shape',
         \A d \in Calls \ {c} : call'[d] = call[d],
         call'[c].at \in {"idle", "served", "failed"} => call'[c].on = NoBackend,
         \A b \in Backends :
           LET Here  == IF call[c].guard /\ call[c].on = b THEN 1 ELSE 0
               There == IF call'[c].guard /\ call'[c].on = b THEN 1 ELSE 0 IN
           inFlight'[b] = inFlight[b] - Here + There
  PROVE  IInv'
<1>1. AtRest'
  BY DEF IInv, AtRest, Shape
<1>2. ASSUME NEW b \in Backends
      PROVE  inFlight'[b] = Cardinality({d \in Calls : call'[d].guard /\ call'[d].on = b})
  <2>1. inFlight[b] = Cardinality(Counted(b))
    BY DEF IInv, InFlightExact, Counted
  <2>2. inFlight'[b] = Cardinality(Counted(b)')
    BY <2>1, OneCallCounts
  <2>3. QED
    BY <2>2 DEF Counted
<1>3. InFlightExact'
  BY <1>2 DEF InFlightExact
<1>4. QED
  BY <1>1, <1>3 DEF IInv

\* A step that replaces one call's record by one of the same shape.
LEMMA ShapeKept ==
  ASSUME IInv, NEW c \in Calls, NEW r,
         call' = [call EXCEPT ![c] = r], DOMAIN r = Fields, r.guard \in BOOLEAN,
         inFlight' \in [Backends -> Int]
  PROVE  Shape'
BY DEF IInv, Shape

\* Updating one of the counters, if it is one.
LEMMA CounterSet ==
  ASSUME NEW f \in [Backends -> Int], NEW b, NEW n, b \in Backends => n \in Int
  PROVE  [f EXCEPT ![b] = n] \in [Backends -> Int]
OBVIOUS

\* A step of a call that is on no backend before and after counts nothing.
LEMMA Uncounted ==
  ASSUME IInv, NEW c \in Calls, NEW r,
         call' = [call EXCEPT ![c] = r], DOMAIN r = Fields, r.guard \in BOOLEAN,
         call[c].on = NoBackend, r.on = NoBackend, inFlight' = inFlight
  PROVE  IInv'
<1>1. Shape'
  BY ShapeKept DEF IInv, Shape
<1>2. call'[c] = r /\ \A d \in Calls \ {c} : call'[d] = call[d]
  BY DEF IInv, Shape
<1>3. \A b \in Backends : inFlight[b] \in Int /\ call[c].on # b /\ r.on # b
  BY NoneOnNone DEF IInv, Shape
<1>4. QED
  BY <1>1, <1>2, <1>3, OneCallMoves
-----------------------------------------------------------------------------
(* Requests begin and end.                                                 *)

\* A request is counted from here on if it is guarded.
LEMMA AskInv ==
  ASSUME IInv, NEW c \in Calls, NEW L, NEW b, NEW m, NEW guarded \in BOOLEAN,
         call[c].on = NoBackend, call[c].at \notin {"idle", "served", "failed"},
         Ask(c, L, b, m, guarded)
  PROVE  IInv'
<1> DEFINE r == [call[c] EXCEPT !.on = b, !.model = m, !.guard = guarded,
                              !.refused = Refused(c, L)]
<1>1. /\ DOMAIN r = Fields /\ r.on = b /\ r.guard = guarded /\ r.at = call[c].at
      /\ call' = [call EXCEPT ![c] = r]
  BY DEF Ask, IInv, Shape, Fields
<1> HIDE DEF r
<1>2. call'[c] = r /\ \A d \in Calls \ {c} : call'[d] = call[d]
  BY <1>1 DEF IInv, Shape
<1>3. Shape'
  <2>1. inFlight' \in [Backends -> Int]
    <3>1. inFlight \in [Backends -> Int] /\ (b \in Backends => inFlight[b] + 1 \in Int)
      BY DEF IInv, Shape
    <3>2. inFlight' = IF guarded THEN [inFlight EXCEPT ![b] = inFlight[b] + 1] ELSE inFlight
      BY DEF Ask
    <3>3. QED
      BY <3>1, <3>2, CounterSet
  <2>2. r.guard \in BOOLEAN
    BY <1>1, Zenon
  <2>3. QED
    BY <1>1, <2>1, <2>2, ShapeKept
<1>4. \A x \in Backends : inFlight[x] \in Int /\ call[c].on # x
  BY NoneOnNone DEF IInv, Shape
<1>5. ASSUME NEW x \in Backends
      PROVE  inFlight'[x] = inFlight[x] + (IF r.guard /\ r.on = x THEN 1 ELSE 0)
  BY <1>1, <1>4, <1>5 DEF Ask, IInv, Shape
<1>6. QED
  BY <1>1, <1>2, <1>3, <1>4, <1>5, OneCallMoves

\* However a request ends, it is taken back exactly if it was counted.
LEMMA EndInv ==
  ASSUME IInv, NEW c \in Calls, NEW r, call[c].on # NoBackend,
         call' = [call EXCEPT ![c] = r], DOMAIN r = Fields, r.guard = FALSE,
         r.on = NoBackend, inFlight' = Released(c)
  PROVE  IInv'
<1>1. call'[c] = r /\ \A d \in Calls \ {c} : call'[d] = call[d]
  BY DEF IInv, Shape
<1>2. Shape'
  <2>1. inFlight' \in [Backends -> Int]
    <3> DEFINE b == call[c].on
    <3>1. inFlight \in [Backends -> Int] /\ (b \in Backends => inFlight[b] - 1 \in Int)
      BY DEF IInv, Shape
    <3>2. inFlight' = IF call[c].guard THEN [inFlight EXCEPT ![b] = inFlight[b] - 1] ELSE inFlight
      BY DEF Released
    <3> HIDE DEF b
    <3>3. QED
      BY <3>1, <3>2, CounterSet
  <2>2. r.guard \in BOOLEAN
    BY Zenon
  <2>3. QED
    BY <2>1, <2>2, ShapeKept
<1>3. \A x \in Backends : inFlight[x] \in Int /\ r.on # x
  BY NoneOnNone DEF IInv, Shape
<1>4. ASSUME NEW x \in Backends
      PROVE  inFlight'[x] = inFlight[x] - (IF call[c].guard /\ call[c].on = x THEN 1 ELSE 0)
  BY <1>3, <1>4 DEF Released, IInv, Shape
<1>5. QED
  BY <1>1, <1>2, <1>3, <1>4, OneCallMoves

-----------------------------------------------------------------------------
(* The steps of a call.                                                    *)

\* Moving on to another way asks nobody.
LEMMA SkipInv ==
  ASSUME IInv, NEW c \in Calls, NEW L, NEW phase, call[c].on = NoBackend, Skip(c, L, phase)
  PROVE  IInv'
<1> DEFINE r == [call[c] EXCEPT !.at = phase, !.refused = Refused(c, L)]
<1>1. DOMAIN r = Fields /\ r.guard \in BOOLEAN /\ r.on = NoBackend
  BY DEF IInv, Shape, Fields
<1>2. call' = [call EXCEPT ![c] = r] /\ inFlight' = inFlight
  BY DEF Skip
<1> HIDE DEF r
<1>3. QED
  BY <1>1, <1>2, Uncounted

\* A new call, and the next one of its caller.
LEMMA CallerInv ==
  ASSUME IInv, NEW c \in Calls, Chat(c) \/ Again(c)
  PROVE  IInv'
<1>1. call[c].on = NoBackend
  BY DEF IInv, AtRest, Chat, Again
<1>2. PICK o : \/ call' = [call EXCEPT ![c] = Idle]
               \/ call' = [call EXCEPT ![c] = [Idle EXCEPT !.opts = o, !.at = "host"]]
               \/ call' = [call EXCEPT ![c] = [Idle EXCEPT !.opts = o, !.at = "kind"]]
  BY DEF Chat, Again
<1>3. inFlight' = inFlight
  BY DEF Chat, Again
<1>4. DOMAIN Idle = Fields /\ Idle.guard = FALSE /\ Idle.on = NoBackend
  BY DEF Idle, Fields
<1>5. ASSUME NEW r, call' = [call EXCEPT ![c] = r],
             DOMAIN r = Fields, r.guard = FALSE, r.on = NoBackend
      PROVE  IInv'
  <2>1. r.guard \in BOOLEAN
    BY <1>5, Zenon
  <2>2. QED
    BY <1>1, <1>3, <1>5, <2>1, Uncounted
<1>6. ASSUME NEW at
      PROVE  LET r == [Idle EXCEPT !.opts = o, !.at = at] IN
             DOMAIN r = Fields /\ r.guard = FALSE /\ r.on = NoBackend
  BY <1>4 DEF Fields
<1>7. QED
  BY <1>2, <1>4, <1>5, <1>6

\* The four ways to a backend.
LEMMA WayInv ==
  ASSUME IInv, NEW c \in Calls,
         \/ AskModelHost(c) \/ AskPreferredKind(c) \/ PickModel(c) \/ OrderByLoad(c)
         \/ TryNextHost(c) \/ HostsExhausted(c) \/ AskFallback(c) \/ AllFailed(c)
  PROVE  IInv'
<1>1. /\ call[c].on = NoBackend
      /\ call[c].at \notin {"idle", "served", "failed"}
  BY DEF AskModelHost, AskPreferredKind, PickModel, OrderByLoad, TryNextHost,
         HostsExhausted, AskFallback, AllFailed, Waiting
<1>2. ASSUME NEW L, NEW phase, Skip(c, L, phase) PROVE IInv'
  BY <1>1, <1>2, SkipInv
<1>3. ASSUME NEW L, NEW b, NEW m, NEW guarded \in BOOLEAN, Ask(c, L, b, m, guarded) PROVE IInv'
  BY <1>1, <1>3, AskInv
<1>4. ASSUME NEW r, inFlight' = inFlight, call' = [call EXCEPT ![c] = r],
             DOMAIN r = Fields, r.guard = call[c].guard, r.on = call[c].on
      PROVE  IInv'
  BY <1>1, <1>4, Uncounted DEF IInv, Shape
<1>5. ASSUME NEW phase, NEW todo, inFlight' = inFlight,
             call' = [call EXCEPT ![c].at = phase, ![c].todo = todo]
      PROVE  IInv'
  <2> DEFINE r == [call[c] EXCEPT !.at = phase, !.todo = todo]
  <2>1. DOMAIN r = Fields /\ r.guard = call[c].guard /\ r.on = call[c].on
    BY DEF IInv, Shape, Fields
  <2>2. call' = [call EXCEPT ![c] = r]
    BY <1>5
  <2> HIDE DEF r
  <2>3. QED
    BY <1>4, <1>5, <2>1, <2>2
<1>6. ASSUME NEW phase, NEW picked, NEW todo, NEW refused, inFlight' = inFlight,
             call' = [call EXCEPT ![c].at = phase, ![c].picked = picked, ![c].todo = todo,
                                  ![c].refused = refused]
      PROVE  IInv'
  <2> DEFINE r == [call[c] EXCEPT !.at = phase, !.picked = picked, !.todo = todo,
                                  !.refused = refused]
  <2>1. DOMAIN r = Fields /\ r.guard = call[c].guard /\ r.on = call[c].on
    BY DEF IInv, Shape, Fields
  <2>2. call' = [call EXCEPT ![c] = r]
    BY <1>6
  <2> HIDE DEF r
  <2>3. QED
    BY <1>4, <1>6, <2>1, <2>2
<1>0. ASSUME NEW todo, NEW refused, inFlight' = inFlight,
             call' = [call EXCEPT ![c].todo = todo, ![c].refused = refused]
      PROVE  IInv'
  <2> DEFINE r == [call[c] EXCEPT !.todo = todo, !.refused = refused]
  <2>1. DOMAIN r = Fields /\ r.guard = call[c].guard /\ r.on = call[c].on
    BY DEF IInv, Shape, Fields
  <2>2. call' = [call EXCEPT ![c] = r]
    BY <1>0
  <2> HIDE DEF r
  <2>3. QED
    BY <1>0, <1>4, <2>1, <2>2
<1>7. CASE AskModelHost(c)
  BY <1>2, <1>3, <1>7 DEF AskModelHost
<1>8. CASE AskPreferredKind(c)
  BY <1>2, <1>3, <1>8 DEF AskPreferredKind
<1>9. CASE PickModel(c)
  <2>1. PICK L : IF NothingListed(L) THEN Skip(c, L, "failed")
                 ELSE LET m == Recommended(call[c].opts.tier, Listed(L))
                      IN  /\ call' = [call EXCEPT ![c].at = "order", ![c].picked = m,
                                        ![c].todo = InOrder(Hosts(m, L)),
                                        ![c].refused = Refused(c, L)]
                          /\ UNCHANGED <<inFlight, rr, lastTie>>
    BY <1>9 DEF PickModel
  <2>2. CASE NothingListed(L)
    BY <1>2, <2>1, <2>2
  <2> DEFINE m == Recommended(call[c].opts.tier, Listed(L))
             todo == InOrder(Hosts(m, L))
  <2>3. CASE ~NothingListed(L)
    <3>1. /\ inFlight' = inFlight
          /\ call' = [call EXCEPT ![c].at = "order", ![c].picked = m, ![c].todo = todo,
                                  ![c].refused = Refused(c, L)]
      BY <2>1, <2>3
    <3> HIDE DEF m, todo
    <3>2. QED
      BY <1>6, <3>1
  <2>4. QED
    BY <2>2, <2>3
<1>10. CASE OrderByLoad(c)
  BY <1>5, <1>10 DEF OrderByLoad
<1>11. CASE TryNextHost(c)
  BY <1>3, <1>11 DEF TryNextHost
<1>12. CASE HostsExhausted(c)
  BY <1>5, <1>12 DEF HostsExhausted
<1>13. CASE AskFallback(c)
  BY <1>0, <1>3, <1>13 DEF AskFallback
<1>14. CASE AllFailed(c)
  BY <1>2, <1>14 DEF AllFailed
<1>15. QED
  BY <1>7, <1>8, <1>9, <1>10, <1>11, <1>12, <1>13, <1>14

\* An answer, an error or a timeout.
LEMMA ReplyInv ==
  ASSUME IInv, NEW c \in Calls, BackendAnswers(c) \/ BackendFails(c)
  PROVE  IInv'
<1>1. call[c].on # NoBackend /\ inFlight' = Released(c)
  BY DEF BackendAnswers, BackendFails, Asking
<1>2. ASSUME NEW phase
      PROVE  /\ DOMAIN Ended(c, phase) = Fields
             /\ Ended(c, phase).guard = FALSE /\ Ended(c, phase).on = NoBackend
  BY DEF IInv, Shape, Fields, Ended
<1>3. CASE BackendAnswers(c)
  BY <1>1, <1>2, <1>3, EndInv DEF BackendAnswers
<1>4. CASE BackendFails(c)
  <2>1. PICK phase, todo, refused :
          call' = [call EXCEPT ![c] = [Ended(c, phase) EXCEPT !.todo = todo, !.refused = refused]]
    BY <1>4 DEF BackendFails
  <2> DEFINE r == [Ended(c, phase) EXCEPT !.todo = todo, !.refused = refused]
  <2>2. DOMAIN r = Fields /\ r.guard = FALSE /\ r.on = NoBackend
    BY <1>2 DEF Fields
  <2>3. call' = [call EXCEPT ![c] = r]
    BY <2>1
  <2> HIDE DEF r
  <2>4. QED
    BY <1>1, <2>2, <2>3, EndInv
<1>5. QED
  BY <1>3, <1>4

\* Nothing is counted at first.
LEMMA InitInv == Init => IInv
<1> SUFFICES ASSUME Init PROVE IInv
  OBVIOUS
<1>1. \A c \in Calls : call[c] = Idle
  BY DEF Init
<1>2. DOMAIN Idle = Fields /\ Idle.guard = FALSE /\ Idle.on = NoBackend
  BY DEF Idle, Fields
<1>3. Shape /\ AtRest
  <2>1. DOMAIN call = Calls /\ inFlight \in [Backends -> Int]
    BY DEF Init
  <2>2. \A c \in Calls : DOMAIN call[c] = Fields /\ call[c].guard \in BOOLEAN
    BY <1>1, <1>2, Zenon
  <2>3. AtRest
    BY <1>1, <1>2 DEF AtRest
  <2>4. QED
    BY <2>1, <2>2, <2>3 DEF Shape
<1>4. ASSUME NEW b \in Backends
      PROVE  inFlight[b] = Cardinality({c \in Calls : call[c].guard /\ call[c].on = b})
  <2>1. {c \in Calls : call[c].guard /\ call[c].on = b} = {}
    BY <1>1, <1>2
  <2>2. QED
    BY <2>1, FS_EmptySet DEF Init
<1>5. QED
  BY <1>3, <1>4 DEF IInv, InFlightExact

\* Every step.
LEMMA NextInv == IInv /\ [Next]_vars => IInv'
<1> SUFFICES ASSUME IInv, [Next]_vars PROVE IInv'
  OBVIOUS
<1>1. CASE UNCHANGED vars
  BY <1>1 DEF vars, IInv, Shape, AtRest, InFlightExact
<1>2. ASSUME NEW c \in Calls, Chat(c) \/ Step(c) \/ Again(c) PROVE IInv'
  BY <1>2, CallerInv, WayInv, ReplyInv DEF Step
<1>3. QED
  BY <1>1, <1>2 DEF Next
-----------------------------------------------------------------------------
\* The counters tell the number of guarded requests under way, for any number of calls
\* and backends and whatever the backends answer (router.rs, InFlightGuard).
THEOREM CountersExact == Spec => []InFlightExact
<1>1. IInv => InFlightExact
  BY DEF IInv
<1>2. QED
  BY <1>1, InitInv, NextInv, PTL DEF Spec
-----------------------------------------------------------------------------
(* The order in which hosts are tried.                                     *)

\* Of any two members one is ahead of the other, with all that is ahead of it.
Ordered(S, ahead) ==
  /\ \A b \in S : ahead[b] \subseteq S \ {b}
  /\ \A a, b \in S : a # b => \/ ahead[a] \cup {a} \subseteq ahead[b]
                              \/ ahead[b] \cup {b} \subseteq ahead[a]

\* A proper part of a finite set is smaller.
LEMMA PartIsSmaller ==
  ASSUME NEW T, IsFiniteSet(T), NEW U, U \subseteq T, NEW x \in T, x \notin U
  PROVE  /\ Cardinality(U) \in Nat /\ Cardinality(T) \in Nat
         /\ Cardinality(U) < Cardinality(T)
<1>1. /\ IsFiniteSet(U) /\ Cardinality(U) <= Cardinality(T)
      /\ Cardinality(T) = Cardinality(U) => T = U
  BY FS_Subset
<1>2. Cardinality(U) \in Nat /\ Cardinality(T) \in Nat
  BY <1>1, FS_CardinalityType
<1>3. Cardinality(T) # Cardinality(U)
  BY <1>1
<1>4. QED
  BY <1>1, <1>2, <1>3

\* Ranked lists the members of a set, each at the place of its rank.
LEMMA RankedLists ==
  ASSUME NEW S, IsFiniteSet(S), NEW ahead, Ordered(S, ahead)
  PROVE  /\ Ranked(S, ahead) \in Seq(S) /\ Len(Ranked(S, ahead)) = Cardinality(S)
         /\ \A b \in S : /\ Cardinality(ahead[b]) + 1 \in 1 .. Cardinality(S)
                        /\ Ranked(S, ahead)[Cardinality(ahead[b]) + 1] = b
         /\ \A n \in 1 .. Cardinality(S) : Cardinality(ahead[Ranked(S, ahead)[n]]) = n - 1
<1> DEFINE N == Cardinality(S)
           rank == [b \in S |-> Cardinality(ahead[b]) + 1]
<1>1. N \in Nat
  BY FS_CardinalityType
<1>2. \A b \in S : rank[b] \in 1 .. N /\ Cardinality(ahead[b]) \in Nat
  <2>1. ASSUME NEW b \in S PROVE /\ Cardinality(ahead[b]) \in Nat /\ Cardinality(ahead[b]) < N
    <3>1. ahead[b] \subseteq S /\ b \notin ahead[b]
      BY DEF Ordered
    <3>2. QED
      BY <3>1, PartIsSmaller
  <2>2. QED
    BY <1>1, <2>1
<1>3. ASSUME NEW a \in S, NEW b \in S, a # b PROVE Cardinality(ahead[a]) # Cardinality(ahead[b])
  <2>1. \A x \in S : IsFiniteSet(ahead[x]) /\ x \notin ahead[x]
    BY FS_Subset DEF Ordered
  <2>2. CASE ahead[a] \cup {a} \subseteq ahead[b]
    <3>1. ahead[a] \subseteq ahead[b] /\ a \in ahead[b] /\ a \notin ahead[a]
      BY <2>1, <2>2
    <3>2. Cardinality(ahead[a]) < Cardinality(ahead[b])
      BY <2>1, <3>1, PartIsSmaller
    <3>3. QED
      BY <1>2, <3>2
  <2>3. CASE ahead[b] \cup {b} \subseteq ahead[a]
    <3>1. ahead[b] \subseteq ahead[a] /\ b \in ahead[a] /\ b \notin ahead[b]
      BY <2>1, <2>3
    <3>2. Cardinality(ahead[b]) < Cardinality(ahead[a])
      BY <2>1, <3>1, PartIsSmaller
    <3>3. QED
      BY <1>2, <3>2
  <2>4. QED
    BY <1>3, <2>2, <2>3 DEF Ordered
<1>4. \A n \in 1 .. N : \E b \in S : rank[b] = n
  <2>1. rank \in [S -> 1 .. N]
    BY <1>2
  <2>2. \A a, b \in S : rank[a] = rank[b] => a = b
    <3>1. ASSUME NEW a \in S, NEW b \in S, rank[a] = rank[b] PROVE a = b
      <4>1. Cardinality(ahead[a]) = Cardinality(ahead[b])
        BY <1>2, <3>1
      <4>2. QED
        BY <1>3, <4>1
    <3>2. QED
      BY <3>1
  <2> HIDE DEF rank
  <2>3. rank \in Injection(S, 1 .. N)
    BY <2>1, <2>2 DEF Injection, IsInjective
  <2>4. IsFiniteSet(1 .. N) /\ Cardinality(1 .. N) = N
    BY <1>1, FS_Interval
  <2>5. rank \in Surjection(S, 1 .. N)
    BY <2>3, <2>4, FS_Injection
  <2>6. QED
    BY <2>5 DEF Surjection
<1>5. \A n \in 1 .. N : \E b \in S : Cardinality(ahead[b]) = n - 1
  BY <1>2, <1>4
<1>6. Ranked(S, ahead) = [n \in 1 .. N |-> CHOOSE b \in S : Cardinality(ahead[b]) = n - 1]
  BY DEF Ranked
<1> HIDE DEF rank
<1>7. \A n \in 1 .. N : /\ Ranked(S, ahead)[n] \in S
                        /\ Cardinality(ahead[Ranked(S, ahead)[n]]) = n - 1
  BY <1>5, <1>6
<1>8. Ranked(S, ahead) \in Seq(S) /\ Len(Ranked(S, ahead)) = N
  BY <1>1, <1>6, <1>7
<1>9. ASSUME NEW b \in S
      PROVE  /\ Cardinality(ahead[b]) + 1 \in 1 .. N
             /\ Ranked(S, ahead)[Cardinality(ahead[b]) + 1] = b
  <2>1. Cardinality(ahead[b]) + 1 \in 1 .. N /\ (Cardinality(ahead[b]) + 1) - 1 = Cardinality(ahead[b])
    BY <1>2 DEF rank
  <2>2. QED
    BY <1>3, <1>7, <2>1
<1>10. QED
  BY <1>7, <1>8, <1>9

\* And somebody is first.
LEMMA FirstExists ==
  ASSUME NEW S, IsFiniteSet(S), S # {}, NEW ahead, Ordered(S, ahead)
  PROVE  \E b \in S : ahead[b] = {}
<1> DEFINE b == Ranked(S, ahead)[1]
<1>1. 1 \in 1 .. Cardinality(S)
  BY FS_EmptySet, FS_CardinalityType
<1>2. /\ Ranked(S, ahead) \in Seq(S) /\ Len(Ranked(S, ahead)) = Cardinality(S)
      /\ \A n \in 1 .. Cardinality(S) : Cardinality(ahead[Ranked(S, ahead)[n]]) = n - 1
  BY RankedLists
<1>3. b \in S /\ Cardinality(ahead[b]) = 0
  BY <1>1, <1>2
<1> HIDE DEF b
<1>4. IsFiniteSet(ahead[b])
  BY <1>3, FS_Subset DEF Ordered
<1>5. QED
  BY <1>3, <1>4, FS_EmptySet

\* Backends are numbers, finitely many.
LEMMA BackendsFinite == Backends \subseteq Nat /\ IsFiniteSet(Backends)
BY RouterAssumption, FS_Interval DEF Backends

\* Whatever they are ordered by, every host is listed, and nothing else.
LEMMA HostsListed ==
  ASSUME inFlight \in [Backends -> Int], NEW S, S \subseteq Backends
  PROVE  /\ InOrder(S) \in Seq(Backends) /\ S = ToSet(InOrder(S))
         /\ ByLoad(S) \in Seq(Backends) /\ S = ToSet(ByLoad(S))
<1> DEFINE order == [b \in S |-> {x \in S : x < b}]
           load == [b \in S |->
             {x \in S : inFlight[x] < inFlight[b] \/ (inFlight[x] = inFlight[b] /\ x < b)}]
<1>1. IsFiniteSet(S) /\ \A b \in S : b \in Nat /\ inFlight[b] \in Int
  BY BackendsFinite, FS_Subset
<1>2. Ordered(S, order)
  BY <1>1 DEF Ordered
<1>3. Ordered(S, load)
  BY <1>1 DEF Ordered
<1>4. InOrder(S) = Ranked(S, order) /\ ByLoad(S) = Ranked(S, load)
  BY DEF InOrder, ByLoad
<1>5. ASSUME NEW ahead, Ordered(S, ahead)
      PROVE  Ranked(S, ahead) \in Seq(Backends) /\ S = ToSet(Ranked(S, ahead))
  <2>1. /\ Ranked(S, ahead) \in Seq(S)
        /\ \A b \in S : \E n \in 1 .. Len(Ranked(S, ahead)) : Ranked(S, ahead)[n] = b
    <3>1. /\ Ranked(S, ahead) \in Seq(S) /\ Len(Ranked(S, ahead)) = Cardinality(S)
          /\ \A b \in S : /\ Cardinality(ahead[b]) + 1 \in 1 .. Cardinality(S)
                         /\ Ranked(S, ahead)[Cardinality(ahead[b]) + 1] = b
      BY <1>1, <1>5, RankedLists
    <3>2. QED
      BY <3>1, Zenon
  <2>2. ASSUME NEW s \in Seq(S), \A b \in S : \E n \in 1 .. Len(s) : s[n] = b
        PROVE  s \in Seq(Backends) /\ S = ToSet(s)
    <3>1. DOMAIN s = 1 .. Len(s) /\ Len(s) \in Nat /\ s \in [1 .. Len(s) -> S]
      OBVIOUS
    <3>2. s \in [1 .. Len(s) -> Backends]
      BY <3>1
    <3>3. s \in Seq(Backends)
      BY <3>1, <3>2
    <3>4. S = {s[i] : i \in 1 .. Len(s)}
      BY <2>2, <3>1, Zenon
    <3>5. QED
      BY <3>1, <3>3, <3>4 DEF ToSet
  <2>3. QED
    BY <2>1, <2>2
<1> HIDE DEF order, load
<1>6. QED
  BY <1>2, <1>3, <1>4, <1>5

\* Rotating the leaders of a list loses none of it.
LEMMA RotationKeeps ==
  ASSUME NEW s \in Seq(Backends), NEW n \in Nat, n <= Len(s), NEW k, n > 0 => k \in 0 .. n - 1
  PROVE  RotateLeft(s, k, n) \in Seq(Backends) /\ ToSet(s) \subseteq ToSet(RotateLeft(s, k, n))
<1> DEFINE t == RotateLeft(s, k, n)
           From(i) == IF i > n THEN i ELSE IF i + k <= n THEN i + k ELSE i + k - n
           To(j) == IF j > n THEN j ELSE IF j > k THEN j - k ELSE j + n - k
<1>1. \A i \in 1 .. Len(s) : From(i) \in 1 .. Len(s)
  OBVIOUS
<1>2. \A j \in 1 .. Len(s) : To(j) \in 1 .. Len(s) /\ From(To(j)) = j
  OBVIOUS
<1>3. t = [i \in 1 .. Len(s) |-> s[From(i)]]
  BY DEF RotateLeft
<1> HIDE DEF t, From, To
<1>4. \A i \in 1 .. Len(s) : t[i] \in Backends
  BY <1>1, <1>3
<1>5. t \in Seq(Backends) /\ DOMAIN t = 1 .. Len(s)
  BY <1>3, <1>4
<1>6. ASSUME NEW j \in 1 .. Len(s) PROVE \E i \in 1 .. Len(s) : t[i] = s[j]
  BY <1>2, <1>3
<1>7. ToSet(s) \subseteq ToSet(t)
  <2>1. DOMAIN s = 1 .. Len(s)
    OBVIOUS
  <2>2. QED
    BY <1>5, <1>6, <2>1 DEF ToSet
<1>8. QED
  BY <1>5, <1>7 DEF t
-----------------------------------------------------------------------------
(* Every backend is tried.                                                 *)

\* What a call still owes the backends: while it tries hosts, one that lists the picked
\* model has failed it or is still on its list; once it falls back, every host has
\* failed, and so has every backend with a model that is not on the list.
Owing(r) ==
  /\ r.todo \in Seq(Backends)
  /\ r.at = "order" => r.on = NoBackend
  /\ r.at \in {"order", "try"} => \A b \in Backends :
       r.picked \in ToSet(Models[b]) => b \in r.refused \cup ToSet(r.todo)
  /\ r.at = "try" /\ r.on # NoBackend =>
       r.todo # <<>> /\ r.on = r.todo[1] /\ r.model = r.picked
  /\ r.at = "fallback" => \A b \in Backends :
       /\ r.picked \in ToSet(Models[b]) => b \in r.refused
       /\ Models[b] # <<>> => b \in r.refused \cup ToSet(r.todo)
  /\ r.at = "fallback" /\ r.on # NoBackend =>
       r.todo # <<>> /\ r.on = r.todo[1] /\ r.model \in ToSet(Models[r.on])
  /\ r.at = "failed" => \A b \in Backends : Models[b] # <<>> => b \in r.refused

EveryoneOwed == rr \in Nat /\ \A c \in Calls : Owing(call[c])

\* Only the call that moves has to be looked at.
LEMMA OwingMoves ==
  ASSUME Shape, EveryoneOwed, NEW c \in Calls, NEW r,
         call' = [call EXCEPT ![c] = r], Owing(r), rr' \in Nat
  PROVE  EveryoneOwed'
<1>1. \A d \in Calls : call'[d] = IF d = c THEN r ELSE call[d]
  BY DEF Shape
<1>2. \A d \in Calls : Owing(call'[d])
  BY <1>1, Zenon DEF EveryoneOwed
<1>3. QED
  BY <1>2 DEF EveryoneOwed, Owing

\* What is left of a list after its first.
LEMMA RestOfList ==
  ASSUME NEW s \in Seq(Backends), s # <<>>
  PROVE  Tail(s) \in Seq(Backends) /\ ToSet(s) = {s[1]} \cup ToSet(Tail(s))
<1>1. /\ Tail(s) \in Seq(Backends) /\ Len(Tail(s)) = Len(s) - 1 /\ Len(s) \in Nat
      /\ DOMAIN s = 1 .. Len(s) /\ DOMAIN Tail(s) = 1 .. Len(s) - 1 /\ 1 \in 1 .. Len(s)
      /\ \A i \in 1 .. Len(s) - 1 : Tail(s)[i] = s[i + 1]
  OBVIOUS
<1>2. ASSUME NEW x \in ToSet(s) PROVE x \in {s[1]} \cup ToSet(Tail(s))
  <2>1. PICK i \in 1 .. Len(s) : x = s[i]
    BY <1>1, <1>2 DEF ToSet
  <2>2. CASE i # 1
    <3>1. i - 1 \in 1 .. Len(s) - 1 /\ Tail(s)[i - 1] = x
      BY <1>1, <2>1, <2>2
    <3>2. QED
      BY <1>1, <3>1 DEF ToSet
  <2>3. QED
    BY <2>1, <2>2
<1>3. ASSUME NEW x \in {s[1]} \cup ToSet(Tail(s)) PROVE x \in ToSet(s)
  <2>1. CASE x = s[1]
    BY <1>1, <2>1 DEF ToSet
  <2>2. CASE x \in ToSet(Tail(s))
    <3>1. PICK i \in 1 .. Len(s) - 1 : x = Tail(s)[i]
      BY <1>1, <2>2 DEF ToSet
    <3>2. i + 1 \in 1 .. Len(s) /\ x = s[i + 1]
      BY <1>1, <3>1
    <3>3. QED
      BY <1>1, <3>2 DEF ToSet
  <2>3. QED
    BY <1>3, <2>1, <2>2
<1>4. QED
  BY <1>1, <1>2, <1>3

\* The model that a backend is asked for in the end is one that it lists.
LEMMA FallbackIsListed ==
  ASSUME NEW b \in Backends, Models[b] # <<>>
  PROVE  FallbackModel(b) \in ToSet(Models[b])
<1> DEFINE s == Models[b]
           good == {i \in DOMAIN s : s[i] \in KnownGood}
           from == IF good # {} THEN good ELSE DOMAIN s
           Above(i, j) == Size[s[i]] > Size[s[j]] \/ (Size[s[i]] = Size[s[j]] /\ i >= j)
<1>1. s \in Seq(ToSet(s)) /\ s # <<>>
  BY RouterAssumption
<1>2. DOMAIN s = 1 .. Len(s) /\ Len(s) \in Nat /\ 1 \in DOMAIN s
  BY <1>1
<1>3. from \subseteq DOMAIN s /\ from # {} /\ IsFiniteSet(from)
  <2>1. from \subseteq DOMAIN s /\ from # {}
    BY <1>2
  <2>2. IsFiniteSet(DOMAIN s)
    BY <1>2, FS_Interval
  <2> HIDE DEF from, s
  <2>3. QED
    BY <2>1, <2>2, FS_Subset
<1>4. CASE KindOf[b] = "ollama"
  <2>1. \A i \in DOMAIN s : Size[s[i]] \in Nat
    <3>1. \A i \in DOMAIN s : s[i] \in OfKind("ollama")
      BY <1>4 DEF OfKind, ToSet
    <3>2. QED
      BY <3>1, RouterAssumption
  <2> DEFINE ahead == [i \in from |-> {j \in from : ~Above(i, j)}]
  <2>2. Ordered(from, ahead)
    <3>1. \A i \in from : i \in Nat /\ Size[s[i]] \in Nat
      BY <1>2, <1>3, <2>1
    <3> HIDE DEF from, s
    <3>2. QED
      BY <3>1 DEF Ordered
  <2>3. \E i \in from : ahead[i] = {}
    <3> HIDE DEF ahead, from
    <3>1. QED
      BY <1>3, <2>2, FirstExists
  <2>4. \E i \in from : \A j \in from : Above(i, j)
    <3> HIDE DEF Above, from
    <3>1. QED
      BY <2>3
  <2>5. FallbackModel(b) = s[CHOOSE i \in from : \A j \in from : Above(i, j)]
    BY <1>4, Zenon DEF FallbackModel, Largest
  <2> DEFINE top == CHOOSE i \in from : \A j \in from : Above(i, j)
  <2>6. top \in from
    <3> HIDE DEF Above, from
    <3>1. QED
      BY <2>4
  <2>7. top \in DOMAIN s /\ FallbackModel(b) = s[top]
    <3> HIDE DEF from
    <3>1. QED
      BY <1>3, <2>5, <2>6
  <2> HIDE DEF top
  <2>8. QED
    BY <2>7 DEF ToSet
<1>5. CASE KindOf[b] # "ollama"
  BY <1>2, <1>5 DEF FallbackModel, ToSet
<1>6. QED
  BY <1>4, <1>5

\* A step that moves a call to a phase in which it owes nothing, or leaves it there.
LEMMA NothingOwed ==
  ASSUME Shape, EveryoneOwed, NEW c \in Calls, NEW r,
         call' = [call EXCEPT ![c] = r], r.todo \in Seq(Backends),
         r.at \notin {"order", "try", "fallback", "failed"}, rr' = rr
  PROVE  EveryoneOwed'
<1>1. Owing(r)
  BY DEF Owing
<1>2. rr' \in Nat
  BY DEF EveryoneOwed
<1>3. QED
  BY <1>1, <1>2, OwingMoves

\* The fields of a call's record after a step that skips to the next phase or asks.
LEMMA SkipFields ==
  ASSUME Shape, NEW c \in Calls, NEW L, NEW phase, Skip(c, L, phase)
  PROVE  \E r : /\ call' = [call EXCEPT ![c] = r] /\ rr' = rr
                /\ r.at = phase /\ r.on = call[c].on /\ r.model = call[c].model
                /\ r.picked = call[c].picked /\ r.todo = call[c].todo
                /\ r.refused = call[c].refused \cup (Backends \ L)
<1> DEFINE r == [call[c] EXCEPT !.at = phase, !.refused = Refused(c, L)]
<1>1. /\ r.at = phase /\ r.on = call[c].on /\ r.model = call[c].model
      /\ r.picked = call[c].picked /\ r.todo = call[c].todo /\ r.refused = Refused(c, L)
  BY DEF Shape, Fields
<1>2. call' = [call EXCEPT ![c] = r] /\ rr' = rr
  BY DEF Skip
<1> HIDE DEF r
<1>3. QED
  BY <1>1, <1>2 DEF Refused

LEMMA AskFields ==
  ASSUME Shape, NEW c \in Calls, NEW L, NEW b, NEW m, NEW guarded \in BOOLEAN, Ask(c, L, b, m, guarded)
  PROVE  \E r : /\ call' = [call EXCEPT ![c] = r] /\ rr' = rr
                /\ r.at = call[c].at /\ r.on = b /\ r.model = m
                /\ r.picked = call[c].picked /\ r.todo = call[c].todo
                /\ r.refused = call[c].refused \cup (Backends \ L)
<1> DEFINE r == [call[c] EXCEPT !.on = b, !.model = m, !.guard = guarded,
                              !.refused = Refused(c, L)]
<1>1. /\ r.at = call[c].at /\ r.on = b /\ r.model = m
      /\ r.picked = call[c].picked /\ r.todo = call[c].todo /\ r.refused = Refused(c, L)
  BY DEF Shape, Fields
<1>2. call' = [call EXCEPT ![c] = r] /\ rr' = rr
  BY DEF Ask
<1> HIDE DEF r
<1>3. QED
  BY <1>1, <1>2 DEF Refused

\* The first two ways, the callers, and an answer.
LEMMA EarlyOwed ==
  ASSUME Shape, EveryoneOwed, NEW c \in Calls,
         AskModelHost(c) \/ AskPreferredKind(c) \/ Chat(c) \/ Again(c) \/ BackendAnswers(c)
  PROVE  EveryoneOwed'
<1>0. call[c].todo \in Seq(Backends)
  BY DEF EveryoneOwed, Owing
<1>1. ASSUME NEW L, NEW phase \in {"kind", "pick"}, Skip(c, L, phase) PROVE EveryoneOwed'
  BY <1>0, <1>1, SkipFields, NothingOwed
<1>2. ASSUME NEW L, NEW b, NEW m, NEW guarded \in BOOLEAN, Ask(c, L, b, m, guarded),
             call[c].at \in {"host", "kind"}
      PROVE  EveryoneOwed'
  BY <1>0, <1>2, AskFields, NothingOwed
<1>3. CASE AskModelHost(c)
  BY <1>1, <1>2, <1>3 DEF AskModelHost, Waiting
<1>4. CASE AskPreferredKind(c)
  BY <1>1, <1>2, <1>4 DEF AskPreferredKind, Waiting
<1>5. Idle.at = "idle" /\ Idle.todo = <<>> /\ DOMAIN Idle = Fields /\ <<>> \in Seq(Backends)
  BY DEF Idle, Fields
<1>6. CASE Chat(c)
  <2>1. PICK o \in Options, at \in {"host", "kind"} :
          call' = [call EXCEPT ![c] = [Idle EXCEPT !.opts = o, !.at = at]]
    <3>1. PICK o \in Options :
            call' = [call EXCEPT ![c] = [Idle EXCEPT
                      !.opts = o, !.at = IF o.model # NoModel /\ NumBackends > 1
                                         THEN "host" ELSE "kind"]]
      BY <1>6 DEF Chat
    <3>2. CASE o.model # NoModel /\ NumBackends > 1
      BY <3>1, <3>2
    <3>3. CASE ~(o.model # NoModel /\ NumBackends > 1)
      BY <3>1, <3>3
    <3>4. QED
      BY <3>2, <3>3
  <2> DEFINE r == [Idle EXCEPT !.opts = o, !.at = at]
  <2>2. r.at = at /\ r.todo = <<>>
    BY <1>5 DEF Fields
  <2>3. call' = [call EXCEPT ![c] = r] /\ rr' = rr
    BY <1>6, <2>1 DEF Chat
  <2> HIDE DEF r
  <2>4. QED
    BY <1>5, <2>2, <2>3, NothingOwed
<1>7. CASE Again(c)
  <2>1. call' = [call EXCEPT ![c] = Idle] /\ rr' = rr
    BY <1>7 DEF Again
  <2>2. QED
    BY <1>5, <2>1, NothingOwed
<1>8. CASE BackendAnswers(c)
  <2> DEFINE r == Ended(c, "served")
  <2>1. r.at = "served" /\ r.todo = call[c].todo
    BY DEF Ended, Shape, Fields
  <2>2. call' = [call EXCEPT ![c] = r] /\ rr' = rr
    BY <1>8 DEF BackendAnswers
  <2> HIDE DEF r
  <2>3. QED
    BY <1>0, <2>1, <2>2, NothingOwed
<1>9. QED
  BY <1>3, <1>4, <1>6, <1>7, <1>8

\* The third way: the hosts of the picked model are listed, then put into order.
LEMMA PickOwed ==
  ASSUME Shape, EveryoneOwed, NEW c \in Calls, PickModel(c)
  PROVE  EveryoneOwed'
<1>0. call[c].todo \in Seq(Backends) /\ rr \in Nat /\ call[c].on = NoBackend
  BY DEF EveryoneOwed, Owing, PickModel, Waiting
<1>1. PICK L \in Listings :
        IF NothingListed(L) THEN Skip(c, L, "failed")
        ELSE LET m == Recommended(call[c].opts.tier, Listed(L))
             IN  /\ call' = [call EXCEPT ![c].at = "order", ![c].picked = m,
                               ![c].todo = InOrder(Hosts(m, L)),
                               ![c].refused = Refused(c, L)]
                 /\ UNCHANGED <<inFlight, rr, lastTie>>
  BY DEF PickModel
<1>2. CASE NothingListed(L)
  <2>1. PICK r : /\ call' = [call EXCEPT ![c] = r] /\ rr' = rr
                 /\ r.at = "failed" /\ r.todo = call[c].todo
                 /\ r.refused = call[c].refused \cup (Backends \ L)
    BY <1>1, <1>2, SkipFields
  <2>2. Owing(r)
    BY <1>0, <1>2, <2>1 DEF Owing, NothingListed
  <2>3. QED
    BY <1>0, <2>1, <2>2, OwingMoves
<1>3. CASE ~NothingListed(L)
  <2> DEFINE m == Recommended(call[c].opts.tier, Listed(L))
             hosts == InOrder(Hosts(m, L))
             r == [call[c] EXCEPT !.at = "order", !.picked = m, !.todo = hosts,
                                  !.refused = Refused(c, L)]
  <2>1. call' = [call EXCEPT ![c] = r] /\ rr' = rr
    BY <1>1, <1>3
  <2>2. /\ r.at = "order" /\ r.picked = m /\ r.todo = hosts /\ r.on = call[c].on
        /\ r.refused = call[c].refused \cup (Backends \ L)
    BY DEF Shape, Fields, Refused
  <2>3. hosts \in Seq(Backends) /\ ToSet(hosts) = Hosts(m, L)
    <3>1. Hosts(m, L) \subseteq Backends
      BY DEF Hosts, Listings
    <3>2. QED
      BY <3>1, HostsListed DEF Shape
  <2> HIDE DEF m, hosts, r
  <2>4. Owing(r)
    BY <1>0, <2>2, <2>3 DEF Owing, Hosts
  <2>5. QED
    BY <1>0, <2>1, <2>4, OwingMoves
<1>4. QED
  BY <1>2, <1>3

LEMMA OrderOwed ==
  ASSUME Shape, EveryoneOwed, NEW c \in Calls, OrderByLoad(c)
  PROVE  EveryoneOwed'
<1> DEFINE hosts == call[c].todo
           n == Cardinality(Tied(hosts))
           sorted == ByLoad(ToSet(hosts))
           order == RotateLeft(sorted, rr % n, n)
           r == [call[c] EXCEPT !.at = "try", !.todo = order]
<1>1. /\ hosts \in Seq(Backends) /\ rr \in Nat /\ call[c].on = NoBackend
      /\ \A b \in Backends : call[c].picked \in ToSet(Models[b]) =>
                              b \in call[c].refused \cup ToSet(hosts)
  BY DEF EveryoneOwed, Owing, OrderByLoad, Waiting
<1>2. call' = [call EXCEPT ![c] = r]
  BY DEF OrderByLoad
<1>3. /\ r.at = "try" /\ r.todo = order /\ r.on = call[c].on /\ r.picked = call[c].picked
      /\ r.refused = call[c].refused
  BY DEF Shape, Fields
<1>4. rr' \in Nat
  BY <1>1, RouterAssumption DEF OrderByLoad
<1>5. ToSet(hosts) \subseteq Backends
  BY <1>1 DEF ToSet
<1>6. sorted \in Seq(Backends) /\ ToSet(sorted) = ToSet(hosts)
  BY <1>5, HostsListed DEF Shape
<1>7. n \in Nat /\ n <= Len(sorted)
  <2>1. Tied(hosts) \subseteq ToSet(sorted)
    BY <1>6 DEF Tied
  <2>2. DOMAIN sorted = 1 .. Len(sorted) /\ Len(sorted) \in Nat
    BY <1>6
  <2>3. IsFiniteSet(ToSet(sorted)) /\ Cardinality(ToSet(sorted)) <= Len(sorted)
    <3>1. /\ IsFiniteSet(1 .. Len(sorted)) /\ Cardinality(1 .. Len(sorted)) = Len(sorted)
      BY <2>2, FS_Interval
    <3>2. sorted \in Surjection(1 .. Len(sorted), ToSet(sorted))
      <4>1. sorted \in [1 .. Len(sorted) -> Backends]
        BY <1>6
      <4> HIDE DEF sorted
      <4>2. QED
        BY <2>2, <4>1 DEF Surjection, ToSet
    <3> HIDE DEF sorted
    <3>3. QED
      BY <3>1, <3>2, FS_Surjection
  <2>4. IsFiniteSet(Tied(hosts)) /\ n <= Cardinality(ToSet(sorted))
    BY <2>1, <2>3, FS_Subset
  <2>5. n \in Nat /\ Cardinality(ToSet(sorted)) \in Nat
    BY <2>3, <2>4, FS_CardinalityType
  <2> HIDE DEF n, sorted
  <2>6. QED
    BY <2>2, <2>3, <2>4, <2>5
<1>8. order \in Seq(Backends) /\ ToSet(sorted) \subseteq ToSet(order)
  <2>1. n > 0 => rr % n \in 0 .. n - 1
    <3> HIDE DEF n
    <3>1. QED
      BY <1>1, <1>7
  <2> DEFINE k == rr % n
  <2> HIDE DEF n, sorted, k
  <2>2. QED
    BY <1>6, <1>7, <2>1, RotationKeeps DEF k
<1> HIDE DEF order, sorted, r
<1>9. Owing(r)
  BY <1>1, <1>3, <1>6, <1>8, NoneOnNone DEF Owing
<1>10. QED
  BY <1>2, <1>4, <1>9, OwingMoves

\* The next host of the list is asked for the picked model; when all have failed, every
\* backend is put on the list.
LEMMA TryOwed ==
  ASSUME Shape, EveryoneOwed, NEW c \in Calls, TryNextHost(c) \/ HostsExhausted(c)
  PROVE  EveryoneOwed'
<1>1. /\ call[c].at = "try" /\ call[c].on = NoBackend /\ rr \in Nat /\ Owing(call[c])
      /\ call[c].todo \in Seq(Backends)
      /\ \A b \in Backends : call[c].picked \in ToSet(Models[b]) =>
                              b \in call[c].refused \cup ToSet(call[c].todo)
  BY DEF EveryoneOwed, Owing, TryNextHost, HostsExhausted, Waiting
<1>2. CASE TryNextHost(c)
  <2>1. PICK guarded \in BOOLEAN :
          /\ call[c].todo # <<>>
          /\ Ask(c, Backends, call[c].todo[1], call[c].picked, guarded)
    BY <1>2, Zenon DEF TryNextHost
  <2>2. PICK r : /\ call' = [call EXCEPT ![c] = r] /\ rr' = rr
                 /\ r.at = call[c].at /\ r.on = call[c].todo[1] /\ r.model = call[c].picked
                 /\ r.picked = call[c].picked /\ r.todo = call[c].todo
                 /\ r.refused = call[c].refused \cup (Backends \ Backends)
    BY <2>1, AskFields
  <2>3. Owing(r)
    BY <1>1, <2>1, <2>2 DEF Owing
  <2>4. QED
    BY <1>1, <2>2, <2>3, OwingMoves
<1>3. CASE HostsExhausted(c)
  <2> DEFINE all == [i \in 1 .. NumBackends |-> i]
             r == [call[c] EXCEPT !.at = "fallback", !.todo = all]
  <2>1. call' = [call EXCEPT ![c] = r] /\ rr' = rr /\ call[c].todo = <<>>
    BY <1>3 DEF HostsExhausted
  <2>2. /\ r.at = "fallback" /\ r.todo = all /\ r.on = call[c].on /\ r.picked = call[c].picked
        /\ r.refused = call[c].refused
    BY DEF Shape, Fields
  <2>3. all \in Seq(Backends) /\ ToSet(all) = Backends
    BY RouterAssumption DEF ToSet, Backends
  <2>4. ToSet(<<>>) = {}
    BY DEF ToSet
  <2> HIDE DEF all, r
  <2>5. Owing(r)
    BY <1>1, <2>1, <2>2, <2>3, <2>4 DEF Owing
  <2>6. QED
    BY <1>1, <2>1, <2>5, OwingMoves
<1>4. QED
  BY <1>2, <1>3

\* A backend is only passed over if it does not answer, has no model, or is a host of
\* the picked model; a call only fails when its list is empty.
LEMMA FallbackOwed ==
  ASSUME Shape, EveryoneOwed, NEW c \in Calls, AskFallback(c) \/ AllFailed(c)
  PROVE  EveryoneOwed'
<1>1. /\ call[c].at = "fallback" /\ call[c].on = NoBackend /\ rr \in Nat
      /\ call[c].todo \in Seq(Backends)
      /\ \A b \in Backends :
           /\ call[c].picked \in ToSet(Models[b]) => b \in call[c].refused
           /\ Models[b] # <<>> => b \in call[c].refused \cup ToSet(call[c].todo)
  BY DEF EveryoneOwed, Owing, AskFallback, AllFailed, Waiting
<1>2. CASE AskFallback(c)
  <2> DEFINE b == call[c].todo[1]
             pass(L) == b \notin L \/ Models[b] = <<>> \/ FallbackModel(b) = call[c].picked
  <2>1. call[c].todo # <<>>
    BY <1>2 DEF AskFallback
  <2>2. b \in Backends
    BY <1>1, <2>1
  <2>3. PICK L \in {Backends, Backends \ {b}} :
          IF pass(L) THEN /\ call' = [call EXCEPT ![c].todo = Tail(call[c].todo),
                                                  ![c].refused = Refused(c, L)]
                          /\ UNCHANGED <<inFlight, rr, lastTie>>
          ELSE Ask(c, L, b, FallbackModel(b), FALSE)
    <3> HIDE DEF b
    <3>1. \E L \in {Backends, Backends \ {b}} \cap Listings :
            IF pass(L) THEN /\ call' = [call EXCEPT ![c].todo = Tail(@),
                                                    ![c].refused = Refused(c, L)]
                            /\ UNCHANGED <<inFlight, rr, lastTie>>
            ELSE Ask(c, L, b, FallbackModel(b), FALSE)
      BY <1>2, Zenon DEF AskFallback, b
    <3>2. QED
      BY <3>1
  <2>4. Models[b] # <<>> => FallbackModel(b) \in ToSet(Models[b])
    BY <2>2, FallbackIsListed
  <2>5. CASE pass(L)
    <3> DEFINE r == [call[c] EXCEPT !.todo = Tail(call[c].todo), !.refused = Refused(c, L)]
    <3>1. call' = [call EXCEPT ![c] = r] /\ rr' = rr
      BY <2>3, <2>5
    <3>2. /\ r.at = "fallback" /\ r.todo = Tail(call[c].todo) /\ r.on = call[c].on
          /\ r.picked = call[c].picked
          /\ r.refused = call[c].refused \cup (Backends \ L)
      BY <1>1 DEF Shape, Fields, Refused
    <3>3. /\ Tail(call[c].todo) \in Seq(Backends)
          /\ ToSet(call[c].todo) = {b} \cup ToSet(Tail(call[c].todo))
      BY <1>1, <2>1, RestOfList
    <3>4. Models[b] # <<>> => b \in r.refused
      BY <1>1, <2>2, <2>4, <2>5, <3>2
    <3> HIDE DEF r, b, pass
    <3>5. Owing(r)
      BY <1>1, <3>2, <3>3, <3>4 DEF Owing
    <3>6. QED
      BY <1>1, <3>1, <3>5, OwingMoves
  <2>6. CASE ~pass(L)
    <3>1. PICK guarded \in BOOLEAN :
            Ask(c, L, b, FallbackModel(b), guarded) /\ FallbackModel(b) \in ToSet(Models[b])
      BY <2>3, <2>4, <2>6, Zenon
    <3>2. PICK r : /\ call' = [call EXCEPT ![c] = r] /\ rr' = rr
                   /\ r.at = call[c].at /\ r.on = b /\ r.model = FallbackModel(b)
                   /\ r.picked = call[c].picked /\ r.todo = call[c].todo
                   /\ r.refused = call[c].refused \cup (Backends \ L)
      BY <3>1, AskFields
    <3>3. Owing(r)
      BY <1>1, <2>1, <3>1, <3>2 DEF Owing
    <3>4. QED
      BY <1>1, <3>2, <3>3, OwingMoves
  <2>7. QED
    BY <2>5, <2>6
<1>3. CASE AllFailed(c)
  <2>1. call[c].todo = <<>> /\ Skip(c, Backends, "failed")
    BY <1>3 DEF AllFailed
  <2>2. PICK r : /\ call' = [call EXCEPT ![c] = r] /\ rr' = rr
                 /\ r.at = "failed" /\ r.todo = call[c].todo
                 /\ r.refused = call[c].refused \cup (Backends \ Backends)
    BY <2>1, SkipFields
  <2>3. ToSet(<<>>) = {}
    BY DEF ToSet
  <2>4. Owing(r)
    BY <1>1, <2>1, <2>2, <2>3 DEF Owing
  <2>5. QED
    BY <1>1, <2>2, <2>4, OwingMoves
<1>4. QED
  BY <1>2, <1>3

\* An error takes the backend off the list and counts against it, as the model that it
\* failed with is one that it lists.
LEMMA FailureOwed ==
  ASSUME Shape, EveryoneOwed, NEW c \in Calls, BackendFails(c)
  PROVE  EveryoneOwed'
<1> DEFINE at == call[c].at
           todo == IF at \in {"try", "fallback"} THEN Tail(call[c].todo) ELSE call[c].todo
           e == Ended(c, AfterFailure(at))
           r == [e EXCEPT !.todo = IF at \in {"try", "fallback"} THEN Tail(e.todo) ELSE e.todo,
                          !.refused = e.refused \cup Failed(c)]
<1>1. call' = [call EXCEPT ![c] = r] /\ rr' = rr /\ call[c].on # NoBackend
  BY DEF BackendFails, Asking
<1>2. /\ DOMAIN e = Fields /\ e.todo = call[c].todo /\ e.refused = call[c].refused
      /\ e.at = AfterFailure(at) /\ e.on = NoBackend /\ e.picked = call[c].picked
  BY DEF Ended, Shape, Fields
<1> HIDE DEF e
<1>3. /\ r.at = AfterFailure(at) /\ r.on = NoBackend /\ r.picked = call[c].picked
      /\ r.todo = todo /\ r.refused = call[c].refused \cup Failed(c)
  BY <1>2 DEF Fields
<1> HIDE DEF r
<1>4. Owing(call[c]) /\ call[c].todo \in Seq(Backends) /\ rr \in Nat
  BY DEF EveryoneOwed, Owing
<1>5. AfterFailure(at) = CASE at = "host" -> "kind" [] at = "kind" -> "pick" [] OTHER -> at
  BY DEF AfterFailure
<1>6. CASE at \in {"try", "fallback"}
  <2>1. r.at = at /\ r.todo = Tail(call[c].todo)
    BY <1>3, <1>5, <1>6
  <2>2. /\ call[c].todo # <<>> /\ call[c].on = call[c].todo[1]
        /\ at = "try" => call[c].model = call[c].picked
        /\ at = "fallback" => call[c].model \in ToSet(Models[call[c].on])
        /\ \A b \in Backends :
             /\ call[c].picked \in ToSet(Models[b]) =>
                  b \in call[c].refused \cup IF at = "try" THEN ToSet(call[c].todo) ELSE {}
             /\ at = "fallback" /\ Models[b] # <<>> => b \in call[c].refused \cup ToSet(call[c].todo)
    BY <1>1, <1>4, <1>6 DEF Owing
  <2>3. /\ Tail(call[c].todo) \in Seq(Backends)
        /\ ToSet(call[c].todo) = {call[c].on} \cup ToSet(Tail(call[c].todo))
    BY <1>4, <2>2, RestOfList
  <2>4. call[c].model \in ToSet(Models[call[c].on]) => call[c].on \in r.refused
    BY <1>3 DEF Failed
  <2> HIDE DEF at
  <2>5. Owing(r)
    <3>1. CASE at = "try"
      <4>2. \A b \in Backends :
              r.picked \in ToSet(Models[b]) => b \in r.refused \cup ToSet(r.todo)
        BY <1>3, <2>1, <2>2, <2>3, <2>4, <3>1
      <4>3. QED
        BY <1>3, <2>1, <2>3, <3>1, <4>2 DEF Owing
    <3>2. CASE at = "fallback"
      <4>2. \A b \in Backends :
              /\ r.picked \in ToSet(Models[b]) => b \in r.refused
              /\ Models[b] # <<>> => b \in r.refused \cup ToSet(r.todo)
        BY <1>3, <2>1, <2>2, <2>3, <2>4, <3>2
      <4>3. QED
        BY <1>3, <2>1, <2>3, <3>2, <4>2 DEF Owing
    <3>3. QED
      BY <1>6, <3>1, <3>2
  <2>6. QED
    BY <1>1, <1>4, <2>5, OwingMoves
<1>7. CASE at \notin {"try", "fallback"}
  <2>1. Owing(r)
    BY <1>1, <1>3, <1>4, <1>5, <1>7 DEF Owing
  <2>2. QED
    BY <1>1, <1>4, <2>1, OwingMoves
<1>8. QED
  BY <1>6, <1>7

\* Every step.
LEMMA NextOwed == IInv /\ EveryoneOwed /\ [Next]_vars => EveryoneOwed'
<1> SUFFICES ASSUME IInv, EveryoneOwed, [Next]_vars PROVE EveryoneOwed'
  OBVIOUS
<1>1. CASE UNCHANGED vars
  BY <1>1 DEF vars, EveryoneOwed, Owing
<1>2. ASSUME NEW c \in Calls, Chat(c) \/ Step(c) \/ Again(c) PROVE EveryoneOwed'
  BY <1>2, EarlyOwed, PickOwed, OrderOwed, TryOwed, FallbackOwed, FailureOwed DEF Step, IInv
<1>3. QED
  BY <1>1, <1>2 DEF Next

\* A call fails only after every backend that has a model has failed it, for any number
\* of calls and backends, any models and answers (router.rs:15, failure fallbacks).
THEOREM EveryBackendTried == Spec => []FailsOnlyIfAllDo
<1>1. Init => EveryoneOwed
  <2> SUFFICES ASSUME Init PROVE EveryoneOwed
    OBVIOUS
  <2>1. Idle.at = "idle" /\ Idle.todo = <<>> /\ <<>> \in Seq(Backends)
    BY DEF Idle
  <2>2. Owing(Idle)
    BY <2>1 DEF Owing
  <2>3. QED
    BY <2>2 DEF Init, EveryoneOwed
<1>2. EveryoneOwed => FailsOnlyIfAllDo
  BY DEF EveryoneOwed, Owing, FailsOnlyIfAllDo
<1>3. QED
  BY <1>1, <1>2, InitInv, NextInv, NextOwed, PTL DEF Spec
-----------------------------------------------------------------------------
(* The backlog: an issue and its goals.                                     *)

\* The loop is between giving an issue a goal, or dropping its labels, and putting the
\* next label on it.
Relabelling(i) == sync.at \in {"mark", "swap"} /\ sync.on = i

\* A failure is behind an issue that has a goal and no label, and behind looking it up a
\* second time; two are behind queuing it again.
Ingest ==
  /\ faults \in Nat
  /\ \A i \in Issues :
       KnownGoal(i) =>
         /\ labels[i] = {} /\ ~Relabelling(i) => faults >= 1
         /\ sync.at = "known" /\ sync.on = i => faults >= 1
         /\ sync.at = "queue" /\ sync.on = i => faults >= 2

BShape ==
  /\ DOMAIN goal = Goals /\ \A g \in Goals : DOMAIN goal[g] = {"status", "issue", "created_at", "empty"}
  /\ DOMAIN labels = Issues
  /\ DOMAIN sync = {"at", "todo", "labels", "row", "on"}

\* A goal that is not in the backlog yet has no issue.
Blank == \A g \in Goals : goal[g].status = "none" => goal[g].issue = NoIssue

BInv == BShape /\ Blank /\ Ingest /\ IngestedOnce

\* The loop's own fields, after a move of it.
LEMMA BacklogStart == BacklogInit => BInv
<1> SUFFICES ASSUME BacklogInit PROVE BInv
  OBVIOUS
<1>1. \A g \in Goals : goal[g].issue = NoIssue
  BY DEF BacklogInit, NoRow
<1>2. \A i \in Issues : ~KnownGoal(i) /\ {g \in Goals : goal[g].issue = i} = {}
  BY <1>1, BacklogAssumption DEF KnownGoal
<1>3. BShape /\ faults = 0
  BY DEF BacklogInit, BShape, Polling, NoRow
<1>4. IngestedOnce
  BY <1>2, FS_EmptySet DEF IngestedOnce
<1>5. QED
  BY <1>1, <1>2, <1>3, <1>4 DEF BInv, Blank, Ingest

\* No issue gains a goal.
LEMMA SameGoals ==
  ASSUME BInv, BShape', faults' \in Nat, faults' >= faults,
         \A g \in Goals : /\ goal'[g].issue = goal[g].issue
                          /\ goal'[g].status = "none" => goal[g].status = "none",
         \A i \in Issues : KnownGoal(i) =>
           /\ labels'[i] = {} /\ ~Relabelling(i)' => faults' >= 1
           /\ sync'.at = "known" /\ sync'.on = i => faults' >= 1
           /\ sync'.at = "queue" /\ sync'.on = i => faults' >= 2
  PROVE  BInv'
<1>1. \A i \in Issues : KnownGoal(i)' <=> KnownGoal(i)
  BY DEF KnownGoal
<1>2. Ingest'
  BY <1>1 DEF Ingest
<1>3. IngestedOnce'
  <2>1. ASSUME NEW i \in Issues
        PROVE  {g \in Goals : goal'[g].issue = i} = {g \in Goals : goal[g].issue = i}
    OBVIOUS
  <2>2. \A i \in Issues : Cardinality({g \in Goals : goal[g].issue = i}) > 1 => faults > 1
    BY DEF BInv, IngestedOnce
  <2>3. faults \in Nat
    BY DEF BInv, Ingest
  <2>4. ASSUME NEW i \in Issues, Cardinality({g \in Goals : goal'[g].issue = i}) > 1 PROVE faults' > 1
    BY <2>1, <2>2, <2>3, <2>4
  <2>5. QED
    BY <2>4 DEF IngestedOnce
<1>4. QED
  BY <1>2, <1>3 DEF BInv, Blank

\* A step that leaves issues and the loop alone.
LEMMA OffGitHub ==
  ASSUME BInv, faults' \in Nat, faults' >= faults, DOMAIN goal' = Goals,
         \A g \in Goals : /\ DOMAIN goal'[g] = {"status", "issue", "created_at", "empty"}
                          /\ goal'[g].issue = goal[g].issue
                          /\ goal'[g].status = "none" => goal[g].status = "none",
         labels' = labels, sync' = sync
  PROVE  BInv'
<1>1. BShape'
  BY DEF BInv, BShape
<1>2. \A i \in Issues : Relabelling(i)' <=> Relabelling(i)
  BY DEF Relabelling
<1>3. QED
  BY <1>1, <1>2, SameGoals DEF BInv, Ingest

\* The autopilot, the executors and the users, who make goals without issues.
LEMMA PilotKeeps ==
  ASSUME BInv,
         \/ Autopilot \/ TickFails \/ NewDay \/ User
         \/ \E r \in Runs : Executor(r)
  PROVE  BInv'
<1>1. faults \in Nat /\ BShape
  BY DEF BInv, Ingest
<1>2. faults' \in Nat /\ faults' >= faults /\ labels' = labels /\ sync' = sync
  <2>1. CASE Autopilot
    BY <1>1, <2>1 DEF Autopilot, Approve, Count, DailyCap, Select, Mark, CreateRun, Fault, NoFault, github
  <2>2. CASE TickFails \/ NewDay
    BY <1>1, <2>2 DEF TickFails, NewDay, Fault, github
  <2>3. CASE User
    BY <1>1, <2>3 DEF User, QueueByHand, Submit, ApproveByHand, Pause, Resume, github
  <2>4. CASE \E r \in Runs : Executor(r)
    BY <1>1, <2>4 DEF Executor, Plan, Claim, Record, Fault, NoFault, github
  <2>5. QED
    BY <2>1, <2>2, <2>3, <2>4
<1>3. /\ DOMAIN goal' = Goals
      /\ \A g \in Goals : /\ DOMAIN goal'[g] = {"status", "issue", "created_at", "empty"}
                          /\ goal'[g].issue = goal[g].issue
                          /\ goal'[g].status = "none" => goal[g].status = "none"
  <2>1. CASE goal' = goal
    BY <1>1, <2>1 DEF BShape
  <2>2. CASE Mark
    <3>1. \/ goal' = goal
          \/ goal' = [g \in Goals |-> IF g \in pilot.goals
                                     THEN [goal[g] EXCEPT !.status = "started"] ELSE goal[g]]
      BY <2>2 DEF Mark
    <3>2. QED
      BY <1>1, <3>1 DEF BShape
  <2>3. ASSUME NEW h \in Goals, QueueByHand(h)
        PROVE  /\ DOMAIN goal' = Goals
               /\ \A g \in Goals :
                    /\ DOMAIN goal'[g] = {"status", "issue", "created_at", "empty"}
                    /\ goal'[g].issue = goal[g].issue
                    /\ goal'[g].status = "none" => goal[g].status = "none"
    <3>1. PICK e, n :
            goal' = [goal EXCEPT ![h] = [status |-> "queued", issue |-> NoIssue,
                                         created_at |-> n, empty |-> e]]
      BY <2>3 DEF QueueByHand
    <3>2. goal[h].issue = NoIssue
      BY <2>3 DEF QueueByHand, BInv, Blank
    <3>3. \A g \in Goals : goal'[g] = IF g = h THEN [status |-> "queued", issue |-> NoIssue,
                                                     created_at |-> n, empty |-> e]
                                      ELSE goal[g]
      BY <1>1, <3>1 DEF BShape
    <3>4. DOMAIN goal' = Goals
      BY <1>1, <3>1 DEF BShape
    <3>5. QED
      BY <1>1, <3>2, <3>3, <3>4 DEF BShape
  <2>4. Mark \/ goal' = goal \/ \E h \in Goals : QueueByHand(h)
    BY DEF Autopilot, Approve, Count, DailyCap, Select, CreateRun, TickFails, NewDay, User,
           Submit, ApproveByHand, Pause, Resume, Executor, Plan, Claim, Record, backlog
  <2>5. QED
    BY <2>1, <2>2, <2>3, <2>4
<1>4. QED
  BY <1>2, <1>3, OffGitHub

\* A crash is a failure, and the loop starts over.
LEMMA SyncCrash ==
  ASSUME BInv, Crash
  PROVE  BInv'
<1>1. /\ faults' = faults + 1 /\ faults \in Nat /\ goal' = goal /\ labels' = labels
      /\ sync' = Polling /\ BShape
  BY DEF Crash, Fault, BInv, Ingest
<1>2. Polling.at = "list" /\ DOMAIN Polling = {"at", "todo", "labels", "row", "on"}
  BY DEF Polling
<1>3. BShape'
  BY <1>1, <1>2 DEF BShape
<1>4. QED
  BY <1>1, <1>2, <1>3, SameGoals

\* The loop moves on without giving an issue a goal.
LEMMA LoopInv ==
  ASSUME BInv, goal' = goal, DOMAIN labels' = Issues,
         DOMAIN sync' = {"at", "todo", "labels", "row", "on"},
         faults' \in {faults, faults + 1},
         \A i \in Issues : KnownGoal(i) =>
           /\ labels'[i] = {} /\ ~Relabelling(i)' => faults' >= 1
           /\ sync'.at = "known" /\ sync'.on = i => faults' >= 1
           /\ sync'.at = "queue" /\ sync'.on = i => faults' >= 2
  PROVE  BInv'
<1>1. faults' \in Nat /\ faults' >= faults
  BY DEF BInv, Ingest
<1>2. BShape'
  BY DEF BInv, BShape
<1>3. QED
  BY <1>1, <1>2, SameGoals

\* Ingesting, up to the goal.
LEMMA LookInv ==
  ASSUME BInv, ListIssue \/ LookUpGoal
  PROVE  BInv'
<1>1. /\ faults \in Nat /\ BShape
      /\ \A i \in Issues : KnownGoal(i) =>
           /\ labels[i] = {} /\ ~Relabelling(i) => faults >= 1
           /\ sync.at = "known" /\ sync.on = i => faults >= 1
  BY DEF BInv, Ingest
<1>2. goal' = goal /\ labels' = labels
  BY DEF ListIssue, LookUpGoal, others, backlog
<1>3. \A i \in Issues : ~Relabelling(i)
  BY DEF Relabelling, ListIssue, LookUpGoal, Loop
<1>4. CASE ListIssue
  <2>1. faults' = faults
    BY <1>4 DEF ListIssue
  <2>2. CASE sync' = [Polling EXCEPT !.at = "rows"]
    <3>1. sync'.at = "rows" /\ DOMAIN sync' = {"at", "todo", "labels", "row", "on"}
      BY <2>2 DEF Polling
    <3>2. QED
      BY <1>1, <1>2, <1>3, <2>1, <3>1, LoopInv DEF BShape
  <2>3. ASSUME NEW i \in sync.todo, ~Unseen(i), sync' = [sync EXCEPT !.todo = sync.todo \ {i}]
        PROVE  BInv'
    <3>1. sync'.at = "list" /\ DOMAIN sync' = {"at", "todo", "labels", "row", "on"}
      BY <1>1, <1>4, <2>3 DEF BShape, ListIssue, Loop
    <3>2. QED
      BY <1>1, <1>2, <1>3, <2>1, <3>1, LoopInv DEF BShape
  <2>4. ASSUME NEW i \in sync.todo, Unseen(i),
               sync' = [sync EXCEPT !.at = "known", !.on = i, !.todo = sync.todo \ {i}]
        PROVE  BInv'
    <3>1. sync'.at = "known" /\ sync'.on = i /\ DOMAIN sync' = {"at", "todo", "labels", "row", "on"}
      BY <1>1, <2>4 DEF BShape
    <3>2. labels[i] = {}
      BY <2>4 DEF Unseen
    <3>3. QED
      BY <1>1, <1>2, <1>3, <2>1, <3>1, <3>2, LoopInv DEF BShape
  <2>5. QED
    BY <1>4, <2>2, <2>3, <2>4 DEF ListIssue
<1>5. CASE LookUpGoal
  <2>1. sync.at = "known"
    BY <1>5 DEF LookUpGoal, Loop
  <2>2. PICK at : sync' = [sync EXCEPT !.at = at] /\
                  \/ at = "list" /\ faults' = faults
                  \/ at = "queue" /\ ~KnownGoal(sync.on) /\ faults' = faults
                  \/ at = "queue" /\ faults' = faults + 1
    BY <1>5 DEF LookUpGoal, SyncTo, Fault, NoFault
  <2>3. sync'.at = at /\ sync'.on = sync.on /\ DOMAIN sync' = {"at", "todo", "labels", "row", "on"}
    BY <1>1, <2>2 DEF BShape
  <2>4. \A i \in Issues : ~Relabelling(i)'
    BY <2>2, <2>3 DEF Relabelling
  <2>5. QED
    BY <1>1, <1>2, <1>3, <2>1, <2>2, <2>3, <2>4, LoopInv DEF BShape
<1>6. QED
  BY <1>4, <1>5

\* The goal is refused, or the round ends early.
LEMMA GiveUpInv ==
  ASSUME BInv, (QueueGoal /\ goal' = goal /\ Fault) \/ RoundFails
  PROVE  BInv'
<1>1. /\ faults \in Nat /\ faults' = faults + 1 /\ BShape
      /\ sync.at \in {"list", "queue", "rows"}
      /\ \A i \in Issues : KnownGoal(i) =>
           /\ labels[i] = {} /\ ~Relabelling(i) => faults >= 1
           /\ sync.at = "queue" /\ sync.on = i => faults >= 2
  BY DEF BInv, Ingest, Fault, QueueGoal, RoundFails, Loop
<1>2. goal' = goal /\ labels' = labels
  BY DEF QueueGoal, RoundFails, others, backlog
<1>3. /\ sync'.at \in {"mark", "list", "rows"}
      /\ DOMAIN sync' = {"at", "todo", "labels", "row", "on"}
  <2>1. Polling.at = "list" /\ DOMAIN Polling = {"at", "todo", "labels", "row", "on"}
    BY DEF Polling
  <2>2. CASE sync' = [sync EXCEPT !.at = "mark"]
    BY <1>1, <2>2 DEF BShape
  <2>3. CASE sync' \in {Polling, [Polling EXCEPT !.at = "rows"]}
    BY <2>1, <2>3
  <2>4. QED
    BY <2>2, <2>3 DEF QueueGoal, RoundFails, SyncTo
<1>4. \A i \in Issues : ~Relabelling(i)
  BY <1>1 DEF Relabelling
<1>5. QED
  BY <1>1, <1>2, <1>3, <1>4, LoopInv DEF BShape

\* An issue gets its goal: another one only after two failures.
LEMMA QueueInv ==
  ASSUME BInv, QueueGoal, NoFault, NEW h \in Goals, goal[h].status = "none", NEW n,
         goal' = [goal EXCEPT ![h] = [status |-> "queued", issue |-> sync.on,
                                      created_at |-> n, empty |-> FALSE]]
  PROVE  BInv'
<1> DEFINE New == [status |-> "queued", issue |-> sync.on, created_at |-> n, empty |-> FALSE]
<1>1. goal' = [goal EXCEPT ![h] = New] /\ goal[h].status = "none"
  OBVIOUS
<1>2. /\ sync.at = "queue" /\ sync' = [sync EXCEPT !.at = "mark"]
      /\ labels' = labels /\ faults' = faults /\ faults \in Nat /\ BShape
  BY DEF QueueGoal, Loop, SyncTo, BInv, Ingest, NoFault
<1>3. /\ sync'.at = "mark" /\ sync'.on = sync.on
      /\ DOMAIN sync' = {"at", "todo", "labels", "row", "on"}
  BY <1>2 DEF BShape
<1>4. \A g \in Goals : goal'[g] = IF g = h THEN New ELSE goal[g]
  BY <1>1, <1>2 DEF BShape
<1>5. BShape'
  BY <1>1, <1>2, <1>3, <1>4 DEF BShape
<1>6. ASSUME NEW i \in Issues, i # sync.on, KnownGoal(i)' PROVE KnownGoal(i)
  BY <1>4, <1>6 DEF KnownGoal
<1>7. Ingest'
  <2>1. \A i \in Issues : ~Relabelling(i) /\ (Relabelling(i)' <=> i = sync.on)
    BY <1>2, <1>3 DEF Relabelling
  <2>2. QED
    BY <1>2, <1>3, <1>6, <2>1 DEF Ingest, BInv
<1>8. ASSUME NEW i \in Issues, Cardinality({g \in Goals : goal'[g].issue = i}) > 1
      PROVE  faults' > 1
  <2> DEFINE Of == {g \in Goals : goal[g].issue = i}
             OfNow == {g \in Goals : goal'[g].issue = i}
  <2>1. CASE i # sync.on
    <3>1. goal[h].issue = NoIssue /\ NoIssue # i
      BY <1>1, BacklogAssumption DEF BInv, Blank
    <3>2. OfNow = Of
      BY <1>4, <2>1, <3>1
    <3>3. QED
      BY <1>2, <1>8, <3>2 DEF BInv, IngestedOnce
  <2>2. CASE i = sync.on /\ KnownGoal(i)
    BY <1>2, <2>2 DEF BInv, Ingest
  <2>3. CASE i = sync.on /\ ~KnownGoal(i)
    <3>1. OfNow = {h}
      BY <1>4, <2>3 DEF KnownGoal
    <3>2. Cardinality(OfNow) = 1
      BY <3>1, FS_Singleton
    <3>3. QED
      BY <1>8, <3>2
  <2>4. QED
    BY <2>1, <2>2, <2>3
<1>9. Blank'
  BY <1>4 DEF BInv, Blank
<1>10. QED
  BY <1>5, <1>7, <1>8, <1>9 DEF BInv, IngestedOnce

\* Labels: nothing is dropped that the next label does not replace, unless a call fails.
LEMMA LabelInv ==
  ASSUME BInv, MarkQueued \/ ReadRow \/ ViewLabels \/ DropStale \/ AddTarget
  PROVE  BInv'
<1>1. /\ faults \in Nat /\ BShape
      /\ \A i \in Issues : KnownGoal(i) => (labels[i] = {} /\ ~Relabelling(i) => faults >= 1)
  BY DEF BInv, Ingest
<1>2. goal' = goal
  BY DEF MarkQueued, ReadRow, ViewLabels, DropStale, AddTarget, others, backlog
<1>3. CASE MarkQueued \/ AddTarget
  <2>1. /\ sync.at \in {"mark", "swap"}
        /\ sync'.at = "list" /\ DOMAIN sync' = {"at", "todo", "labels", "row", "on"}
    BY <1>1, <1>3 DEF MarkQueued, AddTarget, Loop, SyncTo, Polling, BShape
  <2>2. PICK l : \/ labels' = [labels EXCEPT ![sync.on] = labels[sync.on] \cup {l}] /\ faults' = faults
                 \/ labels' = labels /\ faults' = faults + 1
    BY <1>3 DEF MarkQueued, AddTarget, NoFault, Fault
  <2>3. \A i \in Issues : /\ Relabelling(i) <=> i = sync.on
                          /\ ~Relabelling(i)'
    BY <2>1 DEF Relabelling
  <2>4. \A i \in Issues : labels'[i] = {} => faults' = faults + 1 \/ (labels[i] = {} /\ i # sync.on)
    BY <1>1, <2>2 DEF BShape
  <2>5. QED
    BY <1>1, <1>2, <2>1, <2>2, <2>3, <2>4, LoopInv DEF BShape
<1>4. CASE ReadRow \/ ViewLabels
  <2>1. /\ sync.at \in {"rows", "view"} /\ labels' = labels /\ faults' \in {faults, faults + 1}
        /\ sync'.at \in {"view", "swap", "list"}
        /\ DOMAIN sync' = {"at", "todo", "labels", "row", "on"}
    <3>0. Polling.at = "list" /\ DOMAIN Polling = {"at", "todo", "labels", "row", "on"}
      BY DEF Polling
    <3>1. CASE ReadRow
      <4>1. \/ sync' = Polling
            \/ \E i, s : sync' = [sync EXCEPT !.at = "view", !.on = i, !.row = s]
        BY <3>1 DEF ReadRow
      <4>2. ASSUME sync' # Polling
            PROVE  sync'.at = "view" /\ DOMAIN sync' = {"at", "todo", "labels", "row", "on"}
        <5>1. PICK i, s : sync' = [sync EXCEPT !.at = "view", !.on = i, !.row = s]
          BY <4>1, <4>2
        <5>2. sync'.at = "view" /\ DOMAIN sync' = {"at", "todo", "labels", "row", "on"}
          BY <1>1, <5>1 DEF BShape
        <5>3. QED
          BY <5>2
      <4>3. sync'.at \in {"view", "list"} /\ DOMAIN sync' = {"at", "todo", "labels", "row", "on"}
        BY <3>0, <4>1, <4>2
      <4>4. QED
        BY <3>1, <4>3 DEF ReadRow, Loop
    <3>2. CASE ViewLabels
      <4>1. \/ sync' = Polling
            \/ \E stale : sync' = [sync EXCEPT !.at = "swap", !.labels = stale]
        BY <3>2 DEF ViewLabels
      <4>2. ASSUME sync' # Polling
            PROVE  sync'.at = "swap" /\ DOMAIN sync' = {"at", "todo", "labels", "row", "on"}
        <5>1. PICK stale : sync' = [sync EXCEPT !.at = "swap", !.labels = stale]
          BY <4>1, <4>2
        <5>2. sync'.at = "swap" /\ DOMAIN sync' = {"at", "todo", "labels", "row", "on"}
          BY <1>1, <5>1 DEF BShape
        <5>3. QED
          BY <5>2
      <4>3. /\ sync'.at \in {"swap", "list"}
            /\ DOMAIN sync' = {"at", "todo", "labels", "row", "on"}
        BY <3>0, <4>1, <4>2
      <4>4. QED
        BY <3>2, <4>3 DEF ViewLabels, Loop, NoFault, Fault
    <3>3. QED
      BY <1>4, <3>1, <3>2
  <2>2. \A i \in Issues : ~Relabelling(i)
    BY <2>1 DEF Relabelling
  <2>3. QED
    BY <1>1, <1>2, <2>1, <2>2, LoopInv DEF BShape
<1>5. CASE DropStale
  <2>1. PICK l : /\ sync' = [sync EXCEPT !.labels = sync.labels \ {l}] /\ sync.at = "swap"
                 /\ \/ /\ labels' = [labels EXCEPT ![sync.on] = labels[sync.on] \ {l}]
                       /\ faults' = faults
                    \/ labels' = labels /\ faults' = faults + 1
    BY <1>5 DEF DropStale, Loop, NoFault, Fault
  <2>2. sync'.at = "swap" /\ sync'.on = sync.on /\ DOMAIN sync' = {"at", "todo", "labels", "row", "on"}
    BY <1>1, <2>1 DEF BShape
  <2>3. \A i \in Issues : /\ Relabelling(i) <=> i = sync.on
                          /\ Relabelling(i)' <=> i = sync.on
                          /\ i # sync.on => labels'[i] = labels[i]
    BY <1>1, <2>1, <2>2 DEF Relabelling, BShape
  <2>4. DOMAIN labels' = Issues
    BY <1>1, <2>1 DEF BShape
  <2>5. QED
    BY <1>1, <1>2, <2>1, <2>2, <2>3, <2>4, LoopInv
<1>6. QED
  BY <1>3, <1>4, <1>5

\* Every step.
LEMMA BacklogStep == BInv /\ [BacklogNext]_backlogVars => BInv'
<1> SUFFICES ASSUME BInv, [BacklogNext]_backlogVars PROVE BInv'
  OBVIOUS
<1>1. CASE UNCHANGED backlogVars
  BY <1>1 DEF backlogVars, BInv, BShape, Blank, Ingest, IngestedOnce, KnownGoal, Relabelling
<1>2. CASE BacklogNext
  <2>1. ASSUME QueueGoal PROVE BInv'
    BY <2>1, QueueInv, GiveUpInv DEF QueueGoal
  <2>2. QED
    BY <1>2, <2>1, PilotKeeps, SyncCrash, LookInv, GiveUpInv, LabelInv DEF BacklogNext, GitHub
<1>3. QED
  BY <1>1, <1>2

\* An issue only ever gets two goals through two failures, for any issues, goals and
\* slots (github_sync.rs:130, "belt + braces").
THEOREM IssuesIngestedOnce == BacklogSpec => []IngestedOnce
<1>1. BInv => IngestedOnce
  BY DEF BInv
<1>2. QED
  BY <1>1, BacklogStart, BacklogStep, PTL DEF BacklogSpec
-----------------------------------------------------------------------------
(* The backlog: the pipeline.                                               *)

\* From its count to the run it creates the autopilot has room for one more, counts that
\* failed aside, and one goal at most in hand.
UnderCap == pilot.at \in {"cap", "select", "mark", "create"}
Room ==
  /\ faults \in Nat /\ DOMAIN row = Runs
  /\ UnderCap => Cardinality(OwnActive) < MaxRuns + faults

Capped == Room /\ PipelineCap

LEMMA OwnActiveFinite == IsFiniteSet(OwnActive) /\ Cardinality(OwnActive) \in Nat
<1>1. OwnActive \subseteq Runs
  BY DEF OwnActive, Active
<1>2. QED
  BY <1>1, FS_Subset, FS_CardinalityType, BacklogAssumption

\* A smaller pipeline leaves the room there was.
LEMMA PipelineShrinks ==
  ASSUME Capped, DOMAIN row' = Runs, OwnActive' \subseteq OwnActive,
         faults' \in {faults, faults + 1}, UnderCap' => UnderCap
  PROVE  Capped'
<1>1. /\ Cardinality(OwnActive') <= Cardinality(OwnActive)
      /\ Cardinality(OwnActive') \in Nat /\ Cardinality(OwnActive) \in Nat
  BY FS_Subset, FS_CardinalityType, OwnActiveFinite
<1>2. faults \in Nat /\ faults' \in Nat /\ faults' >= faults
  BY DEF Capped, Room
<1>3. QED
  BY <1>1, <1>2, BacklogAssumption DEF Capped, Room, PipelineCap

\* A tick finds room only where there is some, or where the count failed.
LEMMA CountKeepsCap ==
  ASSUME Capped, Count
  PROVE  Capped'
<1>1. /\ row' = row /\ resumed' = resumed /\ DOMAIN row = Runs
      /\ OwnActive' = OwnActive /\ faults \in Nat
  BY DEF Count, runs, OwnActive, Active, Capped, Room
<1>2. Active \subseteq Runs /\ OwnActive \subseteq Active
  BY DEF OwnActive, Active
<1>3. IsFiniteSet(Active) /\ Cardinality(OwnActive) <= Cardinality(Active)
  BY <1>2, FS_Subset, BacklogAssumption
<1>4. Cardinality(OwnActive) \in Nat /\ Cardinality(Active) \in Nat
  BY <1>3, FS_CardinalityType, OwnActiveFinite
<1>5. CASE Cardinality(Active) < MaxRuns /\ NoFault
  BY <1>1, <1>3, <1>4, <1>5, BacklogAssumption DEF NoFault, Capped, Room, PipelineCap
<1>6. CASE PilotTo("sleep", {}) /\ NoFault
  BY <1>1, <1>4, <1>6 DEF PilotTo, NoFault, UnderCap, Capped, Room, PipelineCap
<1>7. CASE Fault
  BY <1>1, <1>4, <1>7, BacklogAssumption DEF Fault, Capped, Room, PipelineCap
<1>8. QED
  BY <1>4, <1>5, <1>6, <1>7, BacklogAssumption DEF Count

\* It creates one run, and starts over.
LEMMA CreateKeepsCap ==
  ASSUME Capped, CreateRun
  PROVE  Capped'
<1>1. PICK r : OwnActive' \subseteq OwnActive \cup {r} /\ DOMAIN row' = Runs
  <2>1. PICK r : /\ row' = row \/ row' = [row EXCEPT ![r] = "planning"]
                 /\ resumed' = resumed
    BY DEF CreateRun, SetRow
  <2>2. OwnActive' \subseteq OwnActive \cup {r} /\ DOMAIN row' = Runs
    BY <2>1 DEF OwnActive, Active, Capped, Room
  <2>3. QED
    BY <2>2
<1>2. /\ Cardinality(OwnActive) < MaxRuns + faults /\ faults' = faults /\ faults \in Nat
      /\ ~UnderCap'
  BY DEF CreateRun, Tick, PilotTo, UnderCap, Capped, Room
<1>3. /\ IsFiniteSet(OwnActive \cup {r})
      /\ Cardinality(OwnActive \cup {r}) <= Cardinality(OwnActive) + 1
  BY OwnActiveFinite, FS_AddElement
<1>4. /\ Cardinality(OwnActive') <= Cardinality(OwnActive \cup {r})
      /\ Cardinality(OwnActive') \in Nat /\ Cardinality(OwnActive \cup {r}) \in Nat
  BY <1>1, <1>3, FS_Subset, FS_CardinalityType
<1>5. QED
  BY <1>1, <1>2, <1>3, <1>4, OwnActiveFinite, BacklogAssumption DEF Capped, Room, PipelineCap

\* Nothing else adds to the pipeline: people submit runs of their own, and a user who
\* resumes a run takes it over.
LEMMA UsersKeepCap ==
  ASSUME Capped, User \/ \E r \in Runs : Executor(r)
  PROVE  Capped'
<1>1. UnderCap' => UnderCap
  BY DEF User, QueueByHand, Submit, ApproveByHand, Executor, Plan, Claim, Record, Pause, Resume,
         backlog, UnderCap
<1>2. faults' \in {faults, faults + 1}
  BY DEF User, QueueByHand, Submit, ApproveByHand, Executor, Plan, Claim, Record, Pause, Resume,
         Fault, NoFault
<1>3. DOMAIN row = Runs
  BY DEF Capped, Room
<1>4. OwnActive' \subseteq OwnActive /\ DOMAIN row' = Runs
  <2>1. CASE \E g \in Goals : QueueByHand(g)
    BY <1>3, <2>1 DEF QueueByHand, runs, OwnActive, Active
  <2>2. ASSUME NEW r \in Runs, Submit(r) \/ ApproveByHand(r)
        PROVE  OwnActive' \subseteq OwnActive /\ DOMAIN row' = Runs
    BY <1>3, <2>2 DEF Submit, ApproveByHand, SetRow, OwnActive, Active
  <2>3. ASSUME NEW r \in Runs, Pause(r) \/ Resume(r)
        PROVE  OwnActive' \subseteq OwnActive /\ DOMAIN row' = Runs
    BY <1>3, <2>3 DEF Pause, Resume, SetRow, OwnActive, Active
  <2>4. ASSUME NEW r \in Runs, Executor(r)
        PROVE  OwnActive' \subseteq OwnActive /\ DOMAIN row' = Runs
    BY <1>3, <2>4 DEF Executor, Plan, Claim, Record, SetRow, Terminal, OwnActive, Active
  <2>5. QED
    BY <2>1, <2>2, <2>3, <2>4 DEF User
<1>5. QED
  BY <1>1, <1>2, <1>4, PipelineShrinks

\* The rest of the tick, the loops and a crash.
LEMMA OthersKeepCap ==
  ASSUME Capped,
         \/ Approve \/ DailyCap \/ Select \/ Mark \/ TickFails \/ NewDay
         \/ GitHub \/ RoundFails \/ Crash
  PROVE  Capped'
<1>1. UnderCap' => UnderCap
  <2>1. CASE Approve \/ DailyCap \/ Select \/ Mark \/ TickFails \/ NewDay \/ RoundFails \/ Crash
    BY <2>1 DEF Approve, DailyCap, Select, Mark, TickFails, NewDay, RoundFails, Crash,
       others, backlog, Tick, PilotTo, Sleeping, UnderCap
  <2>2. CASE GitHub
    <3>1. pilot' = pilot
      BY <2>2 DEF GitHub, ListIssue, LookUpGoal, QueueGoal, MarkQueued, ReadRow, ViewLabels,
         DropStale, AddTarget, others, backlog
    <3>2. QED
      BY <3>1 DEF UnderCap
  <2>3. QED
    BY <2>1, <2>2
<1>2. faults' \in {faults, faults + 1}
  <2>1. CASE Approve \/ DailyCap \/ Select \/ Mark \/ TickFails \/ NewDay
    BY <2>1 DEF Approve, DailyCap, Select, Mark, TickFails, NewDay, Fault, NoFault
  <2>2. CASE GitHub
    <3>1. CASE ListIssue \/ LookUpGoal \/ QueueGoal \/ MarkQueued
      BY <3>1 DEF ListIssue, LookUpGoal, QueueGoal, MarkQueued, Fault, NoFault
    <3>2. CASE ReadRow \/ ViewLabels \/ DropStale \/ AddTarget
      BY <3>2 DEF ReadRow, ViewLabels, DropStale, AddTarget, Fault, NoFault
    <3>3. QED
      BY <2>2, <3>1, <3>2 DEF GitHub
  <2>3. CASE RoundFails \/ Crash
    BY <2>3 DEF RoundFails, Crash, Fault
  <2>4. QED
    BY <2>1, <2>2, <2>3
<1>3. resumed' = resumed /\ DOMAIN row' = Runs
  BY DEF Approve, DailyCap, Select, Mark, TickFails, NewDay, GitHub, ListIssue, LookUpGoal,
         QueueGoal, MarkQueued, ReadRow, ViewLabels, DropStale, AddTarget, RoundFails, Crash,
         others, runs, Capped, Room
<1>4. OwnActive' \subseteq OwnActive
  <2>1. CASE Approve
    BY <2>1 DEF Approve, OwnActive, Active, Capped, Room
  <2>2. CASE Crash
    BY <2>2 DEF Crash, OwnActive, Active, Capped, Room
  <2>3. CASE DailyCap \/ Select \/ Mark \/ TickFails \/ NewDay \/ GitHub \/ RoundFails
    <3>1. row' = row
      BY <2>3 DEF DailyCap, Select, Mark, TickFails, NewDay, GitHub, ListIssue, LookUpGoal,
         QueueGoal, MarkQueued, ReadRow, ViewLabels, DropStale, AddTarget, RoundFails, others, runs
    <3>2. QED
      BY <1>3, <3>1 DEF OwnActive, Active
  <2>4. QED
    BY <2>1, <2>2, <2>3
<1>5. QED
  BY <1>1, <1>2, <1>3, <1>4, PipelineShrinks

LEMMA CappedStep == Capped /\ [BacklogNext]_backlogVars => Capped'
<1> SUFFICES ASSUME Capped, [BacklogNext]_backlogVars PROVE Capped'
  OBVIOUS
<1>1. CASE UNCHANGED backlogVars
  BY <1>1, PipelineShrinks DEF backlogVars, OwnActive, Active, UnderCap, Capped, Room
<1>2. CASE BacklogNext
  BY <1>2, CountKeepsCap, CreateKeepsCap, UsersKeepCap, OthersKeepCap DEF BacklogNext, Autopilot
<1>3. QED
  BY <1>1, <1>2

\* Of the autopilot's own runs no more than max_runs are in flight, one more for each
\* statement that failed, for any goals, runs and slots: its count is several queries old
\* when it creates a run, and nothing but the tick itself adds to them (autopilot.rs:106).
THEOREM PipelineNeverOverfull == BacklogSpec => []PipelineCap
<1>1. BacklogInit => Capped
  <2> SUFFICES ASSUME BacklogInit PROVE Capped
    OBVIOUS
  <2>1. OwnActive = {} /\ DOMAIN row = Runs /\ pilot.at = "sleep" /\ faults = 0
    BY DEF BacklogInit, OwnActive, Active, Sleeping
  <2>2. Cardinality(OwnActive) = 0
    BY <2>1, FS_EmptySet
  <2>3. QED
    BY <2>1, <2>2, BacklogAssumption DEF Capped, Room, PipelineCap, UnderCap
<1>2. Capped => PipelineCap
  BY DEF Capped
<1>3. QED
  BY <1>1, <1>2, CappedStep, PTL DEF BacklogSpec
=============================================================================
