----------------------------- MODULE RunPromise ------------------------------
(***************************************************************************)
(* What executing a plan promises, whatever queue, workers and crashes are *)
(* underneath: a node is released only when every node it depends on has a *)
(* result, a result once posted stays, and the answer is built from a set  *)
(* of results closed under dependencies, all of them unless the run was    *)
(* late.                                                                   *)
(***************************************************************************)
CONSTANTS
  Node,
  Deps   \* Deps[n]: the nodes n depends on

VARIABLES released, done, running, late, answer

vars == <<released, done, running, late, answer>>

Init ==
  /\ released = {}
  /\ done = {}
  /\ running = FALSE
  /\ late = FALSE
  /\ answer = {}

\* Execute the plan, for the first time or again.
Begin ==
  /\ ~running
  /\ running' = TRUE
  /\ late' = FALSE
  /\ answer' = {}
  /\ UNCHANGED <<released, done>>

Release(n) ==
  /\ running
  /\ Deps[n] \subseteq done
  /\ released' = released \cup {n}
  /\ UNCHANGED <<done, running, late, answer>>

\* A released node gets its result, during the run or after it.
Complete(n) ==
  /\ n \in released
  /\ done' = done \cup {n}
  /\ UNCHANGED <<released, running, late, answer>>

Expire ==
  /\ running
  /\ late' = TRUE
  /\ UNCHANGED <<released, done, running, answer>>

Answer(S) ==
  /\ running
  /\ S \subseteq done
  /\ \A n \in S : Deps[n] \subseteq S
  /\ S = Node \/ late
  /\ running' = FALSE
  /\ answer' = S
  /\ UNCHANGED <<released, done, late>>

Next ==
  \/ Begin
  \/ \E n \in Node : Release(n) \/ Complete(n)
  \/ Expire
  \/ \E S \in SUBSET Node : Answer(S)

Spec == Init /\ [][Next]_vars
=============================================================================
