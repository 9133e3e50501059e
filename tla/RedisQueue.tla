----------------------------- MODULE RedisQueue ------------------------------
(***************************************************************************)
(* The task queue on a Redis stream with one consumer group, and the       *)
(* workers on it, command by command: Redis runs one command at a time,    *)
(* but an ack, a reclaim and a dead letter are several commands, and a     *)
(* worker may be slow, overtaken or dead between any two of them.  A task  *)
(* id is the position of its entry in the order of XADD.  The queue is     *)
(* wired without a time to live, so nothing expires.                       *)
(***************************************************************************)
EXTENDS Integers, Sequences, FiniteSets, Functions

CONSTANTS
  Node,         \* the payload of a task
  Worker,       \* the consumers
  MaxAttempts,  \* max_attempts
  Batch,        \* count of a claim and of a reclaim
  MaxTasks,     \* bound: number of tasks enqueued
  MaxCrashes    \* bound: how many times a worker dies

ASSUME RedisAssumption ==
  /\ MaxAttempts \in Nat \ {0}
  /\ Batch \in Nat \ {0}
  /\ MaxTasks \in Nat
  /\ MaxCrashes \in Nat
  /\ IsFiniteSet(Worker)

VARIABLES
  sent,        \* payloads of all the entries ever added
  stream,      \* the entries of taskq:agents that were not deleted
  last,        \* last-delivered-id of the group
  pel,         \* the pending entries list: id -> holder, idle, times delivered
  deadStream,  \* the entries of taskq:agents:dead
  board,       \* nodes of the run with a result (the hash bb:<run>)
  pc,          \* the next command of each worker
  batch,       \* what each worker has claimed and not yet processed
  seen,        \* what each worker's XPENDING returned: id -> times delivered
  delivered,   \* history: how often each task has been delivered
  crashes

redisVars == <<sent, stream, last, pel, deadStream>>
vars == <<redisVars, board, pc, batch, seen, delivered, crashes>>

Task == 1 .. Len(sent)
PendingEntries == [consumer : Worker, idle : BOOLEAN, times : Nat \ {0}]
Deliveries == [task : Nat \ {0}, attempt : Nat \ {0}]

TypeOK ==
  /\ sent \in Seq(Node)
  /\ stream \subseteq Task
  /\ last \in 0 .. Len(sent)
  /\ DOMAIN pel \subseteq Task
  /\ pel \in [DOMAIN pel -> PendingEntries]
  /\ deadStream \in Seq(Deliveries)
  /\ board \subseteq Node
  /\ pc \in [Worker -> {"xreadgroup", "xpending", "xclaim", "check", "run",
                        "xack", "xdel", "down"}]
  /\ batch \in [Worker -> SUBSET Deliveries]
  /\ \A w \in Worker : \A d \in batch[w] : d.task \in Task
  /\ \A w \in Worker : seen[w] \in [DOMAIN seen[w] -> Nat \ {0}]
  /\ delivered \in [Task -> Nat]
  /\ crashes \in Nat

Init ==
  /\ sent = << >>
  /\ stream = {}
  /\ last = 0
  /\ pel = << >>
  /\ deadStream = << >>
  /\ board = {}
  /\ pc = [w \in Worker |-> "xreadgroup"]
  /\ batch = [w \in Worker |-> {}]
  /\ seen = [w \in Worker |-> << >>]
  /\ delivered = << >>
  /\ crashes = 0

\* The k oldest entries of a set of entries.
Oldest(S, k) == {t \in S : Cardinality({u \in S : u < t}) < k}

\* What XREADGROUP ">" may deliver.
Fresh == {t \in stream : t > last}

\* pending(): what XLEN counts.
XLen == Cardinality(stream)

Goto(w, label) == pc' = [pc EXCEPT ![w] = label]

\* d is the task worker w is processing: the oldest left in its batch.
Processing(w, d) ==
  /\ d \in batch[w]
  /\ \A e \in batch[w] : d.task <= e.task

\* _process returns.
Finish(w, d) ==
  /\ batch' = [batch EXCEPT ![w] = @ \ {d}]
  /\ Goto(w, IF batch[w] = {d} THEN "xreadgroup" ELSE "check")

-----------------------------------------------------------------------------
(* The supervisor. *)

Enqueue(n) ==
  /\ Len(sent) < MaxTasks
  /\ sent' = Append(sent, n)
  /\ stream' = stream \cup {Len(sent) + 1}
  /\ delivered' = Append(delivered, 0)
  /\ UNCHANGED <<last, pel, deadStream, board, pc, batch, seen, crashes>>

-----------------------------------------------------------------------------
(* claim: XREADGROUP moves the group's last id and opens pending entries. *)

ReadGroup(w) ==
  LET got == Oldest(Fresh, Batch)
  IN /\ pc[w] = "xreadgroup"
     /\ got # {}
     /\ last' = CHOOSE t \in got : \A u \in got : u <= t
     /\ pel' = [t \in DOMAIN pel \cup got |->
                  IF t \in got
                  THEN [consumer |-> w, idle |-> FALSE, times |-> 1]
                  ELSE pel[t]]
     /\ delivered' = [t \in Task |-> IF t \in got THEN 1 ELSE delivered[t]]
     /\ batch' = [batch EXCEPT ![w] = {[task |-> t, attempt |-> 1] : t \in got}]
     /\ Goto(w, "check")
     /\ UNCHANGED <<sent, stream, deadStream, board, seen, crashes>>

ReadNothing(w) ==
  /\ pc[w] = "xreadgroup"
  /\ Fresh = {}
  /\ Goto(w, "xpending")
  /\ UNCHANGED <<redisVars, board, batch, seen, delivered, crashes>>

(* reclaim: XPENDING tells who has been idle and how often it was delivered, *)
(* XCLAIM takes those that still are.                                        *)

\* Mutated: a worker does not take back what it failed itself.
PendingOfOthers(w) ==
  LET idle == {t \in DOMAIN pel : pel[t].idle /\ pel[t].consumer # w}
  IN /\ pc[w] = "xpending"
     /\ seen' = [seen EXCEPT ![w] = [t \in Oldest(idle, Batch) |-> pel[t].times]]
     /\ Goto(w, IF idle = {} THEN "xreadgroup" ELSE "xclaim")
     /\ UNCHANGED <<redisVars, board, batch, delivered, crashes>>

Pending(w) ==
  LET idle == {t \in DOMAIN pel : pel[t].idle}
  IN /\ pc[w] = "xpending"
     /\ seen' = [seen EXCEPT ![w] = [t \in Oldest(idle, Batch) |-> pel[t].times]]
     /\ Goto(w, IF idle = {} THEN "xreadgroup" ELSE "xclaim")
     /\ UNCHANGED <<redisVars, board, batch, delivered, crashes>>

\* XCLAIM leaves alone what is no longer pending, or was delivered meanwhile.
Claimable(w) == {t \in DOMAIN seen[w] \cap DOMAIN pel : pel[t].idle}

\* The attempt is computed from what XPENDING said.
Attempt(w, t) == seen[w][t] + 1

XClaim(w) ==
  LET got == Claimable(w)
  IN /\ pc[w] = "xclaim"
     /\ pel' = [t \in DOMAIN pel |->
                  IF t \in got
                  THEN [consumer |-> w, idle |-> FALSE, times |-> pel[t].times + 1]
                  ELSE pel[t]]
     /\ delivered' = [t \in Task |-> IF t \in got THEN delivered[t] + 1 ELSE delivered[t]]
     /\ batch' = [batch EXCEPT ![w] =
                    {[task |-> t, attempt |-> Attempt(w, t)] : t \in got}]
     /\ seen' = [seen EXCEPT ![w] = << >>]
     /\ Goto(w, IF got = {} THEN "xreadgroup" ELSE "check")
     /\ UNCHANGED <<sent, stream, last, deadStream, board, crashes>>

-----------------------------------------------------------------------------
(* _process *)

\* Mutated: the task is acked before it is copied.
BuryAfterAck(w, d) ==
  /\ pc[w] = "check"
  /\ Processing(w, d)
  /\ d.attempt > MaxAttempts
  /\ pel' = Restrict(pel, DOMAIN pel \ {d.task})
  /\ Goto(w, "xdel")
  /\ UNCHANGED <<sent, stream, last, deadStream, board, batch, seen, delivered, crashes>>

\* Mutated: the last attempt is not made.
BuryEarly(w, d) ==
  /\ pc[w] = "check"
  /\ Processing(w, d)
  /\ d.attempt >= MaxAttempts
  /\ deadStream' = Append(deadStream, d)
  /\ Goto(w, "xack")
  /\ UNCHANGED <<sent, stream, last, pel, board, batch, seen, delivered, crashes>>

\* dead_letter: first the copy.
Bury(w, d) ==
  /\ pc[w] = "check"
  /\ Processing(w, d)
  /\ d.attempt > MaxAttempts
  /\ deadStream' = Append(deadStream, d)
  /\ Goto(w, "xack")
  /\ UNCHANGED <<sent, stream, last, pel, board, batch, seen, delivered, crashes>>

\* HGET finds the result of another delivery.
SkipDone(w, d) ==
  /\ pc[w] = "check"
  /\ Processing(w, d)
  /\ d.attempt <= MaxAttempts
  /\ sent[d.task] \in board
  /\ Goto(w, "xack")
  /\ UNCHANGED <<redisVars, board, batch, seen, delivered, crashes>>

StartNode(w, d) ==
  /\ pc[w] = "check"
  /\ Processing(w, d)
  /\ d.attempt <= MaxAttempts
  /\ sent[d.task] \notin board
  /\ Goto(w, "run")
  /\ UNCHANGED <<redisVars, board, batch, seen, delivered, crashes>>

FailNode(w, d) ==
  /\ pc[w] = "run"
  /\ Processing(w, d)
  /\ Finish(w, d)
  /\ UNCHANGED <<redisVars, board, seen, delivered, crashes>>

\* HSET of the result.
WriteResult(w, d) ==
  /\ pc[w] = "run"
  /\ Processing(w, d)
  /\ board' = board \cup {sent[d.task]}
  /\ Goto(w, "xack")
  /\ UNCHANGED <<redisVars, batch, seen, delivered, crashes>>

\* XACK takes the entry from whoever holds it by now.
XAck(w, d) ==
  /\ pc[w] = "xack"
  /\ Processing(w, d)
  /\ pel' = Restrict(pel, DOMAIN pel \ {d.task})
  /\ Goto(w, "xdel")
  /\ UNCHANGED <<sent, stream, last, deadStream, board, batch, seen, delivered, crashes>>

XDel(w, d) ==
  /\ pc[w] = "xdel"
  /\ Processing(w, d)
  /\ stream' = stream \ {d.task}
  /\ Finish(w, d)
  /\ UNCHANGED <<sent, last, pel, deadStream, board, seen, delivered, crashes>>

-----------------------------------------------------------------------------

GrowIdle(t) ==
  /\ t \in DOMAIN pel
  /\ ~pel[t].idle
  /\ pel' = [pel EXCEPT ![t].idle = TRUE]
  /\ UNCHANGED <<sent, stream, last, deadStream, board, pc, batch, seen, delivered, crashes>>

\* The process dies, or a command raises: run_forever has no handler.
Crash(w) ==
  /\ pc[w] # "down"
  /\ crashes < MaxCrashes
  /\ crashes' = crashes + 1
  /\ batch' = [batch EXCEPT ![w] = {}]
  /\ seen' = [seen EXCEPT ![w] = << >>]
  /\ Goto(w, "down")
  /\ UNCHANGED <<redisVars, board, delivered>>

Restart(w) ==
  /\ pc[w] = "down"
  /\ Goto(w, "xreadgroup")
  /\ UNCHANGED <<redisVars, board, batch, seen, delivered, crashes>>

Process(w) ==
  \E d \in batch[w] :
    \/ Bury(w, d)
    \/ SkipDone(w, d)
    \/ StartNode(w, d)
    \/ FailNode(w, d)
    \/ WriteResult(w, d)
    \/ XAck(w, d)
    \/ XDel(w, d)

WorkerStep(w) ==
  \/ ReadGroup(w)
  \/ ReadNothing(w)
  \/ Pending(w)
  \/ XClaim(w)
  \/ Process(w)

Next ==
  \/ \E n \in Node : Enqueue(n)
  \/ \E w \in Worker : WorkerStep(w) \/ Crash(w) \/ Restart(w)
  \/ \E t \in DOMAIN pel : GrowIdle(t)

Spec == Init /\ [][Next]_vars

\* Workers that are up go on, and time passes; nothing is started again.
FairSpec ==
  /\ Spec
  /\ \A w \in Worker : WF_vars(WorkerStep(w))
  /\ WF_vars(\E t \in DOMAIN pel : GrowIdle(t))

-----------------------------------------------------------------------------
(* Safety. *)

Outstanding == Fresh \cup DOMAIN pel

Buried == {deadStream[i].task : i \in DOMAIN deadStream}

\* An entry that is pending is in the stream: what a reclaim takes over has a
\* payload to run, whoever died or acked in between, and XLEN never counts less
\* than is outstanding.  (ack: XACK before XDEL, queue_redis.py:92-95)
PendingIsInStream == DOMAIN pel \subseteq stream

\* A task is put in the dead letters at most once for each delivery beyond the
\* last attempt, although the copy and the ack are separate, several workers may
\* give it up at the same time, and attempts are computed from old counts.
BuriedByDelivery ==
  \A t \in Task :
    LET burials == {i \in DOMAIN deadStream : deadStream[i].task = t}
    IN burials # {} => Cardinality(burials) <= delivered[t] - MaxAttempts

\* Nobody works on a task under an attempt the group has not counted: a task is
\* never given up before it was delivered max_attempts times.
AttemptWasCounted ==
  \A w \in Worker : \A d \in batch[w] : d.attempt <= delivered[d.task]

\* What holds of the queue on Redis and its workers between any two commands.
QueueInv == TypeOK /\ PendingIsInStream /\ BuriedByDelivery /\ AttemptWasCounted

-----------------------------------------------------------------------------
(* Refinement and liveness. *)

Promise == INSTANCE QueuePromise WITH
  open <- Outstanding, done <- board, buried <- Buried

\* The queue on Redis, with its workers, keeps the promise of the port.
KeepsQueuePromise == Promise!Spec

\* While some worker is up, every task is acked or given up, whatever stays
\* behind in the stream.
EveryTaskSettles ==
  \A t \in 1 .. MaxTasks : (t \in Outstanding) ~> (t \notin Outstanding)

-----------------------------------------------------------------------------
(* What the documentation of the code says and the code does not do. *)

\* queue_redis.py:6-9: ack both XACKs and XDELs, so an empty stream means all
\* work is done and XLEN is the outstanding count; between the two commands of a
\* live worker it may be ahead.
XLenIsOutstanding ==
  (\A w \in Worker : pc[w] # "xdel") => XLen = Cardinality(Outstanding)
=============================================================================
