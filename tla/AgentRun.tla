------------------------------ MODULE AgentRun -------------------------------
(***************************************************************************)
(* One plan executed on the queue: the supervisor releases its nodes wave  *)
(* by wave, the workers run them, and the supervisor returns whatever is   *)
(* on the blackboard once every node is there or its deadline has passed.  *)
(***************************************************************************)
EXTENDS AgentWorker

CONSTANTS
  Deps,          \* Deps[n]: the nodes n depends on
  MaxExecutions  \* bound: how many times the same plan is executed

ASSUME RunAssumption ==
  /\ Deps \in [Node -> SUBSET Node]
  /\ MaxExecutions \in Nat

VARIABLES
  phase,       \* where Supervisor.execute is
  ready,       \* plan.ready(done), as computed at the last poll
  enqueued,    \* nodes this execution has enqueued
  expired,     \* clock() >= deadline
  unread,      \* nodes collect_results has still to read
  collected,   \* nodes whose result it has read
  executions   \* number of executions started

supervisorVars == <<phase, ready, enqueued, expired, unread, collected, executions>>

vars == <<queueVars, workerVars, supervisorVars>>

SupervisorTypeOK ==
  /\ phase \in {"idle", "enqueue", "poll", "collect", "returned"}
  /\ ready \subseteq Node
  /\ enqueued \subseteq Node
  /\ expired \in BOOLEAN
  /\ unread \subseteq Node
  /\ collected \subseteq Node
  /\ executions \in Nat

\* The types of the queue, the workers and the supervisor.
TypeOK == QueueTypeOK /\ WorkerTypeOK /\ SupervisorTypeOK

Init ==
  /\ QueueInit
  /\ WorkerInit
  /\ phase = "idle"
  /\ ready = {}
  /\ enqueued = {}
  /\ expired = FALSE
  /\ unread = {}
  /\ collected = {}
  /\ executions = 0

-----------------------------------------------------------------------------
(* The supervisor. *)

\* Mutated: one dependency with a result is enough.
ReadyAny(done) ==
  {n \in Node \ done : Deps[n] = {} \/ Deps[n] \cap done # {}}

\* Plan.ready: nodes without a result all of whose dependencies have one.
Ready(done) == {n \in Node \ done : Deps[n] \subseteq done}

\* Mutated: the deadline of the previous execution is kept.
ExecuteOnOldDeadline ==
  /\ phase \in {"idle", "returned"}
  /\ executions < MaxExecutions
  /\ executions' = executions + 1
  /\ ready' = Ready({})
  /\ enqueued' = {}
  /\ collected' = {}
  /\ phase' = "enqueue"
  /\ UNCHANGED <<queueVars, workerVars, expired, unread>>

\* execute() is called: the first wave is computed from set(), whatever the
\* blackboard already holds.
Execute ==
  /\ phase \in {"idle", "returned"}
  /\ executions < MaxExecutions
  /\ executions' = executions + 1
  /\ ready' = Ready({})
  /\ enqueued' = {}
  /\ expired' = FALSE
  /\ collected' = {}
  /\ phase' = "enqueue"
  /\ UNCHANGED <<queueVars, workerVars, unread>>

EnqueueNode(n) ==
  /\ phase = "enqueue"
  /\ n \in ready \ enqueued
  /\ Enqueue(n)
  /\ enqueued' = enqueued \cup {n}
  /\ UNCHANGED <<workerVars, phase, ready, expired, unread, collected, executions>>

\* The wave is enqueued; the loop sleeps and comes round.
WaveEnqueued ==
  /\ phase = "enqueue"
  /\ ready \subseteq enqueued
  /\ phase' = "poll"
  /\ UNCHANGED <<queueVars, workerVars, ready, enqueued, expired, unread,
                 collected, executions>>

\* The deadline is set after the first wave and looked at between two waves only.
DeadlinePasses ==
  /\ phase \in {"enqueue", "poll"}
  /\ ~expired
  /\ expired' = TRUE
  /\ UNCHANGED <<queueVars, workerVars, phase, ready, enqueued, unread,
                 collected, executions>>

\* Mutated: the next wave is computed from what was enqueued.
PollOnEnqueued ==
  /\ phase = "poll"
  /\ ~(Node \subseteq board)
  /\ ~expired
  /\ ready' = Ready(enqueued)
  /\ phase' = "enqueue"
  /\ UNCHANGED <<queueVars, workerVars, enqueued, expired, unread, collected,
                 executions>>

\* Some node has no result and there is time left: compute the next wave.
PollAgain ==
  /\ phase = "poll"
  /\ ~(Node \subseteq board)
  /\ ~expired
  /\ ready' = Ready(board)
  /\ phase' = "enqueue"
  /\ UNCHANGED <<queueVars, workerVars, enqueued, expired, unread, collected,
                 executions>>

\* Mutated: the run is over when everything enqueued so far has a result.
StopOnEnqueued ==
  /\ phase = "poll"
  /\ enqueued \subseteq board \/ expired
  /\ unread' = Node
  /\ phase' = "collect"
  /\ UNCHANGED <<queueVars, workerVars, ready, enqueued, expired, collected,
                 executions>>

\* Mutated: there is no deadline.
StopOnlyComplete ==
  /\ phase = "poll"
  /\ Node \subseteq board
  /\ unread' = Node
  /\ phase' = "collect"
  /\ UNCHANGED <<queueVars, workerVars, ready, enqueued, expired, collected,
                 executions>>

StopPolling ==
  /\ phase = "poll"
  /\ Node \subseteq board \/ expired
  /\ unread' = Node
  /\ phase' = "collect"
  /\ UNCHANGED <<queueVars, workerVars, ready, enqueued, expired, collected,
                 executions>>

\* collect_results reads the nodes one by one, after the loop's own last look.
CollectNode(n) ==
  /\ phase = "collect"
  /\ n \in unread
  /\ unread' = unread \ {n}
  /\ collected' = IF n \in board THEN collected \cup {n} ELSE collected
  /\ UNCHANGED <<queueVars, workerVars, phase, ready, enqueued, expired,
                 executions>>

Return ==
  /\ phase = "collect"
  /\ unread = {}
  /\ phase' = "returned"
  /\ UNCHANGED <<queueVars, workerVars, ready, enqueued, expired, unread,
                 collected, executions>>

SupervisorStep ==
  \/ \E n \in Node : EnqueueNode(n) \/ CollectNode(n)
  \/ WaveEnqueued
  \/ PollAgain
  \/ StopPolling
  \/ Return

-----------------------------------------------------------------------------

WorkerNext(w) ==
  /\ WorkerStep(w) \/ Crash(w) \/ Restart(w)
  /\ UNCHANGED supervisorVars

\* The minimum idle time goes by for one of the tasks in flight.
IdleNext(t) == GrowIdle(t) /\ UNCHANGED <<workerVars, supervisorVars>>

Next ==
  \/ Execute
  \/ SupervisorStep
  \/ DeadlinePasses
  \/ \E w \in Worker : WorkerNext(w)
  \/ \E t \in DOMAIN inFlight : IdleNext(t)

Spec == Init /\ [][Next]_vars

\* The supervisor and every worker that is up keep running, and time passes.
\* A crash, a restart and a further execution may happen or not.
Fairness ==
  /\ WF_vars(SupervisorStep)
  /\ WF_vars(DeadlinePasses)
  /\ \A w \in Worker : WF_vars(WorkerStep(w) /\ UNCHANGED supervisorVars)
  /\ WF_vars(\E t \in DOMAIN inFlight : IdleNext(t))

FairSpec == Spec /\ Fairness

-----------------------------------------------------------------------------
(* Safety. *)

DeadTasks == {dead[i].task : i \in DOMAIN dead}

\* No task is lost to a crash, a failure or a reclaim: a task the supervisor
\* enqueued has its result on the blackboard, or is still in the queue, or is
\* in the dead-letter list.  (Worker: result written before the ack; a failed
\* attempt does not ack.)
NoLostTask ==
  \A t \in 1 .. Len(sent) :
    sent[t] \in board \/ t \in Outstanding \/ t \in DeadTasks

\* Whatever the interleaving of polls, waves and late results, a task is in the
\* queue, or was ever run, only if every node it depends on has its result.
DependencyOrder ==
  /\ \A t \in 1 .. Len(sent) : Deps[sent[t]] \subseteq board
  /\ \A n \in board : Deps[n] \subseteq board

\* Each delivery of a task goes to one consumer: however often a task is
\* reclaimed while its former holders still work on it, no two of them hold it
\* under the same attempt number, and the queue's count is at least theirs.
UniqueDelivery ==
  /\ \A v, w \in Worker : v # w => batch[v] \cap batch[w] = {}
  /\ \A w \in Worker : \A d \in batch[w] :
       d.task \in DOMAIN inFlight => d.attempt <= inFlight[d.task].deliveries

\* However many holders give a task up, together or one after the other, it is in
\* the dead letters once for each delivery beyond the last attempt, never twice
\* for one.  (dead_letter appends whether or not the task is still in flight.)
DeadOncePerDelivery ==
  \A i, j \in DOMAIN dead : dead[i] = dead[j] => i = j

\* The results a run returns are closed under dependencies, although they are
\* read one at a time while workers keep posting: a partial run never answers
\* from a node without what that node was scheduled after.
ReturnedClosed ==
  phase = "returned" => \A n \in collected : Deps[n] \subseteq collected

\* Nodes are missing from what a run returns only if its deadline passed.
CompleteUnlessExpired == phase = "returned" /\ ~expired => collected = Node

-----------------------------------------------------------------------------
(* The inductive invariant behind the safety properties. *)

\* A worker acks what it has just posted.
AckedHasResult ==
  \A w \in Worker : \A d \in batch[w] :
    pc[w] = "ack" /\ Processing(w, d) => NodeOf(d) \in board

\* The supervisor works from an old snapshot of a blackboard that only grows.
ReadyIsReleasable == \A n \in ready : Deps[n] \subseteq board

\* Only enqueued nodes get a result.
BoardWasSent == board \subseteq {sent[t] : t \in DOMAIN sent}

\* Nothing is enqueued once reading has begun, and what the enqueued nodes
\* depend on was there before: no dependency is read too early.
ReadCovers ==
  phase \in {"collect", "returned"} =>
    \A t \in 1 .. Len(sent) : Deps[sent[t]] \subseteq collected \cup unread

StoppedInTime ==
  phase \in {"collect", "returned"} /\ ~expired =>
    Node \subseteq board /\ Node \subseteq collected \cup unread

ReadIsPosted ==
  /\ collected \subseteq board
  /\ phase = "returned" => unread = {}

IInv ==
  /\ TypeOK
  /\ AckedHasResult
  /\ NoLostTask
  /\ DependencyOrder
  /\ ReadyIsReleasable
  /\ BoardWasSent
  /\ ReadCovers
  /\ StoppedInTime
  /\ ReadIsPosted

\* UniqueDelivery needs more of the queue: what is waiting was never delivered.
DeliveryInv ==
  /\ TypeOK
  /\ UniqueDelivery
  /\ waiting \cap DOMAIN inFlight = {}
  /\ \A w \in Worker : \A d \in batch[w] : d.task \notin waiting

-----------------------------------------------------------------------------
(* Liveness. *)

\* Every execution returns, whatever becomes of its tasks.
ExecutionReturns == (phase = "enqueue") ~> (phase = "returned")

\* No task stays in the queue for ever: while some worker is up, each one is
\* acked or dead-lettered, whether its capability ever succeeds or not.
QueueDrains ==
  \A t \in 1 .. MaxExecutions * Cardinality(Node) :
    (t \in Outstanding) ~> (t \notin Outstanding)

-----------------------------------------------------------------------------
(* The promise kept by the run. *)

Promise == INSTANCE RunPromise WITH
  released <- {sent[t] : t \in DOMAIN sent},
  done     <- board,
  running  <- phase \in {"enqueue", "poll", "collect"},
  late     <- expired,
  answer   <- IF phase = "returned" THEN collected ELSE {}

\* The run implements RunPromise.
KeepsPromise == Promise!Spec

QueueSide == INSTANCE QueuePromise WITH
  open <- Outstanding, done <- board, buried <- DeadTasks

\* Under the supervisor and the workers, the queue keeps the promise of its port:
\* a task leaves it only with a result or into the dead letters.
KeepsQueuePromise == QueueSide!Spec
=============================================================================
