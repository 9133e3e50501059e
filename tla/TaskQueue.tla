------------------------------ MODULE TaskQueue ------------------------------
(***************************************************************************)
(* The competing-consumers work queue of the distributed agents run, as    *)
(* InMemoryTaskQueue keeps it under its lock.  A task id is the position   *)
(* of the task in the order of enqueueing: claims pop the oldest waiting   *)
(* task and the in-flight dict is filled in that same order, so "the first *)
(* in the dict" is "the least id".                                         *)
(***************************************************************************)
EXTENDS Integers, Sequences, FiniteSets, Functions

CONSTANTS
  Node,      \* the node ids of one plan: a task's payload
  Worker     \* the consumers

VARIABLES
  sent,      \* sent[t] is the node that task t carries
  waiting,   \* ids of the tasks never delivered (_undelivered)
  inFlight,  \* id -> claim, of the tasks delivered and not acked (_in_flight)
  dead       \* the dead-letter list: deliveries, in order of arrival (_dead)

queueVars == <<sent, waiting, inFlight, dead>>

\* A claim: who holds the task, whether it has been idle for min_idle_ms since
\* it was last delivered, and how often it has been delivered.
Claims == [consumer : Worker, idle : BOOLEAN, deliveries : Nat \ {0}]

\* What a consumer gets: the task, stamped with the delivery count of that moment.
Deliveries == [task : Nat \ {0}, attempt : Nat \ {0}]

QueueTypeOK ==
  /\ sent \in Seq(Node)
  /\ waiting \subseteq 1 .. Len(sent)
  /\ inFlight \in [DOMAIN inFlight -> Claims]
  /\ DOMAIN inFlight \subseteq 1 .. Len(sent)
  /\ dead \in Seq(Deliveries)

QueueInit ==
  /\ sent = << >>
  /\ waiting = {}
  /\ inFlight = << >>
  /\ dead = << >>

\* The k oldest tasks of a set of tasks (all of them when there are fewer).
Oldest(S, k) == {t \in S : Cardinality({u \in S : u < t}) < k}

\* Mutated: a task is reclaimed only from its first holder.
IdleTasksOnce == {t \in DOMAIN inFlight : inFlight[t].idle /\ inFlight[t].deliveries = 1}

\* What reclaim() looks at, whoever holds it, the caller included.
IdleTasks == {t \in DOMAIN inFlight : inFlight[t].idle}

Outstanding == waiting \cup DOMAIN inFlight

-----------------------------------------------------------------------------
(* The operations; each runs under the queue's lock. *)

Enqueue(n) ==
  /\ sent' = Append(sent, n)
  /\ waiting' = waiting \cup {Len(sent) + 1}
  /\ UNCHANGED <<inFlight, dead>>

\* claim(): deliver the tasks of got, a first time, to w.
Claim(w, got) ==
  /\ waiting' = waiting \ got
  /\ inFlight' = [t \in DOMAIN inFlight \cup got |->
                    IF t \in got
                    THEN [consumer |-> w, idle |-> FALSE, deliveries |-> 1]
                    ELSE inFlight[t]]
  /\ UNCHANGED <<sent, dead>>

\* Mutated: the re-delivery is not counted.
ReclaimUncounted(w, got) ==
  /\ inFlight' = [t \in DOMAIN inFlight |->
                    IF t \in got
                    THEN [inFlight[t] EXCEPT !.consumer = w, !.idle = FALSE]
                    ELSE inFlight[t]]
  /\ UNCHANGED <<sent, waiting, dead>>

\* reclaim(): re-deliver the tasks of got to w, whoever holds them.
Reclaim(w, got) ==
  /\ inFlight' = [t \in DOMAIN inFlight |->
                    IF t \in got
                    THEN [consumer |-> w, idle |-> FALSE,
                          deliveries |-> inFlight[t].deliveries + 1]
                    ELSE inFlight[t]]
  /\ UNCHANGED <<sent, waiting, dead>>

\* ack() removes the task by id, whoever holds it by now and whether or not it
\* is still in flight.
Ack(t) ==
  /\ inFlight' = Restrict(inFlight, DOMAIN inFlight \ {t})
  /\ UNCHANGED <<sent, waiting, dead>>

DeadLetter(d) ==
  /\ inFlight' = Restrict(inFlight, DOMAIN inFlight \ {d.task})
  /\ dead' = Append(dead, d)
  /\ UNCHANGED <<sent, waiting>>

\* Time passes: a claim not renewed reaches min_idle_ms.
GrowIdle(t) ==
  /\ t \in DOMAIN inFlight
  /\ ~inFlight[t].idle
  /\ inFlight' = [inFlight EXCEPT ![t].idle = TRUE]
  /\ UNCHANGED <<sent, waiting, dead>>
=============================================================================
