----------------------------- MODULE DagExecution -----------------------------
(***************************************************************************)
(* What executing a plan promises, without waves, workspaces or agents: a   *)
(* task starts only when everything it depends on has ended, at most Width  *)
(* tasks are under way, and an ended task never starts again.  A task that  *)
(* is under way may fall back (its agent panicked) and start again.         *)
(***************************************************************************)
EXTENDS FiniteSets, Naturals
CONSTANTS Tasks, Width

VARIABLES needs,    \* task -> the tasks it waits for, fixed by the plan
          running, ended

Init == /\ needs = [t \in Tasks |-> {}]
        /\ running = {} /\ ended = {}

\* The plan becomes known before anything runs.
Plan == /\ running = {} /\ ended = {}
        /\ \E n \in [Tasks -> SUBSET Tasks] : needs' = n
        /\ UNCHANGED <<running, ended>>

Start(S) ==
  /\ S \cap (running \cup ended) = {}
  /\ \A t \in S : needs[t] \subseteq ended
  /\ Cardinality(running \cup S) <= Width
  /\ running' = running \cup S /\ UNCHANGED <<needs, ended>>

End(t) ==
  /\ t \in running
  /\ running' = running \ {t} /\ ended' = ended \cup {t} /\ UNCHANGED needs

FallBack(t) ==
  /\ t \in running
  /\ running' = running \ {t} /\ UNCHANGED <<needs, ended>>

Next == \/ Plan
        \/ \E S \in SUBSET Tasks : Start(S)
        \/ \E t \in Tasks : End(t) \/ FallBack(t)

Spec == Init /\ [][Next]_<<needs, running, ended>>
===============================================================================
