---------------------------- MODULE InferenceRouter ----------------------------
(***************************************************************************)
(* The inference router (inference-client/src/router.rs) under concurrent   *)
(* chat calls: four ways to find a backend, tried in order, with a counter  *)
(* of requests in flight per backend.  A listing and a request are the only *)
(* awaits; what a backend answers is a choice.  Model names are values,     *)
(* with the predicates and sizes that the code reads from their spelling.   *)
(***************************************************************************)
EXTENDS Naturals, Sequences, FiniteSets, SequencesExt

CONSTANTS
  Calls,        \* concurrent chat calls
  NumBackends,
  KindOf,       \* backend -> "claude" or "ollama"
  Models,       \* backend -> the models it lists, in order
  Static,       \* backends whose listing asks nobody (Claude, OpenAI-compatible)
  Size,         \* model -> parameters, in billions
  CodeModels,   \* is_code_model
  KnownGood,    \* names with a prefix of PREFERRED_CODE_MODELS
  Sonnets,      \* Claude models with "sonnet" in the name
  DefaultModel, \* backend kind -> default_model_for
  Options,      \* what callers ask for: [model, kind, tier]
  NoModel, NoKind,
  Cycle         \* bound: where the cursor wraps

Backends == 1 .. NumBackends
Kinds    == {"claude", "ollama"}
Names    == UNION {ToSet(Models[b]) : b \in Backends}
           \cup {DefaultModel[k] : k \in Kinds}
           \cup {o.model : o \in Options} \cup {NoModel}
OfKind(k) == UNION {ToSet(Models[b]) : b \in {x \in Backends : KindOf[x] = k}}

ASSUME RouterAssumption ==
  /\ NumBackends \in Nat /\ KindOf \in [Backends -> Kinds]
  /\ Static \subseteq Backends /\ IsFiniteSet(Calls)
  /\ OfKind("claude") \cap OfKind("ollama") = {}
  /\ \A b \in Backends : Models[b] \in Seq(ToSet(Models[b]))
  /\ Size \in [OfKind("ollama") -> Nat]
  \* The cursor only matters modulo the number of tied hosts.
  /\ Cycle \in Nat \ {0} /\ \A k \in 1 .. NumBackends : Cycle % k = 0
  /\ NoModel \notin OfKind("claude") \cup OfKind("ollama") /\ NoKind \notin Kinds

VARIABLES
  call,      \* call -> where it is, and (history) the backends that failed it
  inFlight,  \* backend -> requests counted
  rr,        \* the round-robin cursor
  lastTie    \* history: the backends of the last tie and the one it led to

vars == <<call, inFlight, rr, lastTie>>

NoBackend == 0
NoTie == [hosts |-> {}, leader |-> NoBackend]
Idle  == [at |-> "idle", opts |-> CHOOSE o \in Options : TRUE, on |-> NoBackend,
          guard |-> FALSE, model |-> NoModel, picked |-> NoModel, todo |-> <<>>, refused |-> {}]

Init == /\ call = [c \in Calls |-> Idle]
        /\ inFlight = [b \in Backends |-> 0] /\ rr = 0 /\ lastTie = NoTie
-----------------------------------------------------------------------------
(* Model selection                                                          *)

\* Which backends answer a listing.
Listings == {L \in SUBSET Backends : Static \subseteq L}
Listed(L) == FlattenSeq([b \in Backends |-> IF b \in L THEN Models[b] ELSE <<>>])
NothingListed(L) == \A b \in L : Models[b] = <<>>
Hosts(m, L) == {b \in L : m \in ToSet(Models[b])}
LeastIndex(S) == CHOOSE b \in S : \A x \in S : b <= x
Among(s, S) == LET In(m) == m \in S IN SelectSeq(s, In)

\* best_ollama_by_size: code models first, then the smallest, then as listed.
Fastest(s) ==
  LET Before(i, j) == IF (s[i] \in CodeModels) # (s[j] \in CodeModels) THEN s[i] \in CodeModels
                      ELSE Size[s[i]] < Size[s[j]] \/ (Size[s[i]] = Size[s[j]] /\ i <= j)
  IN  s[CHOOSE i \in DOMAIN s : \A j \in DOMAIN s : Before(i, j)]

\* largest_ollama: known-good names if there are any, the largest, the last listed.
Largest(s) ==
  LET good == {i \in DOMAIN s : s[i] \in KnownGood}
      Above(i, j) == Size[s[i]] > Size[s[j]] \/ (Size[s[i]] = Size[s[j]] /\ i >= j)
      from == IF good # {} THEN good ELSE DOMAIN s
  IN  s[CHOOSE i \in from : \A j \in from : Above(i, j)]

Recommended(tier, listed) ==
  LET local  == Among(listed, OfKind("ollama"))
      claude == Among(listed, OfKind("claude"))
  IN  IF tier \in {"simple", "medium"}
      THEN IF local # <<>> THEN Fastest(local) ELSE listed[1]
      ELSE IF Among(claude, Sonnets) # <<>> THEN Among(claude, Sonnets)[1]
      ELSE IF claude # <<>> THEN claude[1]
      ELSE Largest(local)

FallbackModel(b) == IF KindOf[b] = "ollama" THEN Largest(Models[b]) ELSE Models[b][1]
-----------------------------------------------------------------------------
(* chat                                                                     *)

Chat(c) ==
  /\ call[c].at = "idle"
  /\ \E o \in Options :
       call' = [call EXCEPT ![c] = [Idle EXCEPT
                 !.opts = o, !.at = IF o.model # NoModel /\ NumBackends > 1
                                    THEN "host" ELSE "kind"]]
  /\ UNCHANGED <<inFlight, rr, lastTie>>

Waiting(c, phase) == call[c].at = phase /\ call[c].on = NoBackend
Asking(c) == call[c].on # NoBackend

\* A backend that does not answer a listing has failed the call.
Refused(c, L) == call[c].refused \cup (Backends \ L)

\* After a listing L, a request; a guarded one is counted while it lasts.
Ask(c, L, b, m, guarded) ==
  /\ call' = [call EXCEPT ![c].on = b, ![c].model = m, ![c].guard = guarded,
                          ![c].refused = Refused(c, L)]
  /\ inFlight' = IF guarded THEN [inFlight EXCEPT ![b] = @ + 1] ELSE inFlight
  /\ UNCHANGED <<rr, lastTie>>
Skip(c, L, phase) ==
  /\ call' = [call EXCEPT ![c].at = phase, ![c].refused = Refused(c, L)]
  /\ UNCHANGED <<inFlight, rr, lastTie>>

\* 1: the first backend that lists the preferred model.
AskModelHost(c) ==
  /\ Waiting(c, "host")
  /\ \E L \in Listings :
       LET m == call[c].opts.model
       IN  IF Hosts(m, L) = {} THEN Skip(c, L, "kind")
           ELSE Ask(c, L, LeastIndex(Hosts(m, L)), m, TRUE)

\* 2: the first backend of the preferred kind, uncounted.
AskPreferredKind(c) ==
  /\ Waiting(c, "kind")
  /\ LET o  == call[c].opts
         bs == {b \in Backends : KindOf[b] = o.kind}
     IN  IF bs = {} THEN Skip(c, Backends, "pick")
         ELSE Ask(c, Backends, LeastIndex(bs),
                  IF o.model = NoModel THEN DefaultModel[o.kind] ELSE o.model, FALSE)

\* The members of S, by how many are ahead of each.
Ranked(S, ahead) ==
  [n \in 1 .. Cardinality(S) |-> CHOOSE b \in S : Cardinality(ahead[b]) = n - 1]
InOrder(S) == Ranked(S, [b \in S |-> {x \in S : x < b}])

\* 3: the recommended model, on the least loaded of its hosts.
PickModel(c) ==
  /\ Waiting(c, "pick")
  /\ \E L \in Listings :
       IF NothingListed(L) THEN Skip(c, L, "failed")
       ELSE LET m == Recommended(call[c].opts.tier, Listed(L))
            IN  /\ call' = [call EXCEPT ![c].at = "order", ![c].picked = m,
                              ![c].todo = InOrder(Hosts(m, L)),
                              ![c].refused = Refused(c, L)]
                /\ UNCHANGED <<inFlight, rr, lastTie>>

ByLoad(S) == Ranked(S, [b \in S |->
  {x \in S : inFlight[x] < inFlight[b] \/ (inFlight[x] = inFlight[b] /\ x < b)}])
Tied(hosts) == {b \in ToSet(hosts) : \A x \in ToSet(hosts) : inFlight[b] <= inFlight[x]}
RotateLeft(s, k, n) ==
  [i \in DOMAIN s |-> IF i > n THEN s[i] ELSE IF i + k <= n THEN s[i + k] ELSE s[i + k - n]]

\* Other calls may be counted between this and the request it orders.
OrderByLoad(c) ==
  /\ Waiting(c, "order")
  /\ LET hosts == call[c].todo
         tied  == Tied(hosts)
         n     == Cardinality(tied)
         order == RotateLeft(ByLoad(ToSet(hosts)), rr % n, n)
     IN  /\ call' = [call EXCEPT ![c].at = "try", ![c].todo = order]
         /\ rr' = IF n > 1 THEN (rr + 1) % Cycle ELSE rr
         /\ lastTie' = IF n > 1 THEN [hosts |-> tied, leader |-> order[1]] ELSE lastTie
  /\ UNCHANGED inFlight

TryNextHost(c) ==
  /\ Waiting(c, "try") /\ call[c].todo # <<>>
  /\ Ask(c, Backends, call[c].todo[1], call[c].picked, TRUE)

\* Mutant: with the hosts exhausted the call gives up.
HostsExhausted_GiveUp(c) ==
  /\ Waiting(c, "try") /\ call[c].todo = <<>> /\ Skip(c, Backends, "failed")

HostsExhausted(c) ==
  /\ Waiting(c, "try") /\ call[c].todo = <<>>
  /\ call' = [call EXCEPT ![c].at = "fallback", ![c].todo = [i \in 1 .. NumBackends |-> i]]
  /\ UNCHANGED <<inFlight, rr, lastTie>>

\* 4: every backend in turn with its own best model, uncounted; one that lists
\* nothing, or the recommended model ("already tried above"), is passed over.
AskFallback(c) ==
  /\ Waiting(c, "fallback") /\ call[c].todo # <<>>
  /\ LET b == call[c].todo[1] IN
     \E L \in {Backends, Backends \ {b}} \cap Listings :
       LET pass == b \notin L \/ Models[b] = <<>> \/ FallbackModel(b) = call[c].picked
       IN  IF pass THEN /\ call' = [call EXCEPT ![c].todo = Tail(@),
                                               ![c].refused = Refused(c, L)]
                        /\ UNCHANGED <<inFlight, rr, lastTie>>
           ELSE Ask(c, L, b, FallbackModel(b), FALSE)

AllFailed(c) ==
  /\ Waiting(c, "fallback") /\ call[c].todo = <<>> /\ Skip(c, Backends, "failed")

\* The guard is dropped on every way out.
Released(c) == IF call[c].guard THEN [inFlight EXCEPT ![call[c].on] = @ - 1] ELSE inFlight
Ended(c, phase) == [call[c] EXCEPT !.at = phase, !.on = NoBackend, !.guard = FALSE,
                                   !.model = NoModel]

BackendAnswers(c) ==
  /\ Asking(c)
  /\ call' = [call EXCEPT ![c] = Ended(c, "served")]
  /\ inFlight' = Released(c) /\ UNCHANGED <<rr, lastTie>>

\* An error for a model that the backend does not list says nothing of the backend.
Failed(c) == IF call[c].model \in ToSet(Models[call[c].on]) THEN {call[c].on} ELSE {}
AfterFailure(at) == CASE at = "host" -> "kind" [] at = "kind" -> "pick" [] OTHER -> at

\* Mutant: an error returns before the guard is dropped.
BackendFails_Leaks(c) ==
  /\ Asking(c)
  /\ LET at == call[c].at IN
     call' = [call EXCEPT ![c] = [Ended(c, AfterFailure(at)) EXCEPT
                !.todo = IF at \in {"try", "fallback"} THEN Tail(@) ELSE @,
                !.refused = @ \cup Failed(c)]]
  /\ UNCHANGED <<inFlight, rr, lastTie>>

\* An error or a timeout: on to the next host or the next way.
BackendFails(c) ==
  /\ Asking(c)
  /\ LET at == call[c].at IN
     call' = [call EXCEPT ![c] = [Ended(c, AfterFailure(at)) EXCEPT
                !.todo = IF at \in {"try", "fallback"} THEN Tail(@) ELSE @,
                !.refused = @ \cup Failed(c)]]
  /\ inFlight' = Released(c) /\ UNCHANGED <<rr, lastTie>>

Step(c) ==
  \/ AskModelHost(c) \/ AskPreferredKind(c)
  \/ PickModel(c) \/ OrderByLoad(c) \/ TryNextHost(c) \/ HostsExhausted(c)
  \/ AskFallback(c) \/ AllFailed(c)
  \/ BackendAnswers(c) \/ BackendFails(c)

\* The caller of a finished call makes another one.
Again(c) ==
  /\ call[c].at \in {"served", "failed"}
  /\ call' = [call EXCEPT ![c] = Idle] /\ UNCHANGED <<inFlight, rr, lastTie>>

Next == \E c \in Calls : Chat(c) \/ Step(c) \/ Again(c)
Spec == Init /\ [][Next]_vars
\* Every listing and every request has a timeout.
FairSpec == Spec /\ \A c \in Calls : WF_vars(Step(c))
-----------------------------------------------------------------------------
(* Properties                                                               *)

Phases == {"idle", "host", "kind", "pick", "order", "try", "fallback", "served", "failed"}
TypeOK ==
  /\ call \in [Calls -> [at : Phases, opts : Options, on : Backends \cup {NoBackend},
                         guard : BOOLEAN, model : Names, picked : Names, todo : Seq(Backends),
                         refused : SUBSET Backends]]
  /\ inFlight \in [Backends -> Nat] /\ rr \in 0 .. Cycle - 1
  /\ lastTie \in [hosts : SUBSET Backends, leader : Backends \cup {NoBackend}]

\* A backend's counter is the number of counted requests on it: no way out of a
\* call leaks a count, which would keep a host out of the rotation for ever, and
\* none is taken back twice, which would wrap the unsigned counter.
InFlightExact ==
  \A b \in Backends : inFlight[b] = Cardinality({c \in Calls : call[c].guard /\ call[c].on = b})

\* A call fails only after every backend that has a model has failed it, in a listing
\* or with a model of its own, whatever was preferred and however the four ways to a
\* backend skip what an earlier one tried (router.rs:15, failure fallbacks).
FailsOnlyIfAllDo ==
  \A c \in Calls : call[c].at = "failed" =>
    \A b \in Backends : Models[b] # <<>> => b \in call[c].refused

\* Two ties in a row between the same hosts lead to different ones, whichever
\* calls they belong to (router.rs:141-143).
TiesRotate ==
  [][\A c \in Calls :
       LET tied == Tied(call[c].todo)
       IN  (call[c].at = "order" /\ call'[c].at = "try" /\ Cardinality(tied) > 1)
             => (lastTie.hosts = tied => call'[c].todo[1] # lastTie.leader)]_vars

\* No call hangs: each ends with an answer or an error.
CallEnds == \A c \in Calls : call[c].at \notin {"idle", "served", "failed"}
                              ~> call[c].at \in {"served", "failed"}

\* What the module's comment promises (router.rs:11-14) and preferred models
\* break: a counted request goes to a host of its model no other host of which
\* had fewer requests.
LeastLoadedHost ==
  [][\A c \in Calls : call'[c].guard /\ ~call[c].guard =>
       \A b \in Hosts(call'[c].model, Backends \ call'[c].refused) :
         inFlight[call'[c].on] <= inFlight[b]]_vars
=============================================================================
