---------------------------- MODULE QueuePromise -----------------------------
(***************************************************************************)
(* What the TaskQueue port promises with at-least-once workers on top, in  *)
(* memory or on Redis: a task stays in the queue until its node has a      *)
(* result or it has been put in the dead letters, and neither a result nor *)
(* a dead letter is ever taken back.                                       *)
(***************************************************************************)
EXTENDS Naturals, Sequences

CONSTANT Node

VARIABLES
  sent,     \* sent[t] is the node that task t carries
  open,     \* the tasks still in the queue, delivered or not
  done,     \* the nodes with a result
  buried    \* the tasks in the dead letters

vars == <<sent, open, done, buried>>

Init ==
  /\ sent = << >>
  /\ open = {}
  /\ done = {}
  /\ buried = {}

Send(n) ==
  /\ sent' = Append(sent, n)
  /\ open' = open \cup {Len(sent) + 1}
  /\ UNCHANGED <<done, buried>>

\* A node gets its result, from any delivery of a task that carries it.
Complete(n) ==
  /\ done' = done \cup {n}
  /\ UNCHANGED <<sent, open, buried>>

\* A task leaves the queue.
Settle(t) ==
  /\ sent[t] \in done \/ t \in buried'
  /\ open' = open \ {t}
  /\ buried' \in {buried, buried \cup {t}}
  /\ UNCHANGED <<sent, done>>

Bury(t) ==
  /\ buried' = buried \cup {t}
  /\ UNCHANGED <<sent, open, done>>

Next ==
  \/ \E n \in Node : Send(n) \/ Complete(n)
  \/ \E t \in 1 .. Len(sent) : Settle(t) \/ Bury(t)

Spec == Init /\ [][Next]_vars
=============================================================================
