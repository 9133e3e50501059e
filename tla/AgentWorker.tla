----------------------------- MODULE AgentWorker -----------------------------
(***************************************************************************)
(* The workers of the distributed agents run (Worker.run_once and          *)
(* _process): claim a batch or reclaim an idle one, take its tasks one at  *)
(* a time, and post each result to the blackboard before acking the task.  *)
(***************************************************************************)
EXTENDS TaskQueue

CONSTANTS
  MaxAttempts,   \* max_attempts
  Batch,         \* batch: tasks per claim or reclaim
  MaxCrashes     \* bound: how many times a worker process dies

ASSUME WorkerAssumption ==
  /\ MaxAttempts \in Nat \ {0}
  /\ Batch \in Nat \ {0}
  /\ MaxCrashes \in Nat

VARIABLES
  board,    \* nodes of the run with a result on the blackboard
  pc,       \* where each worker is
  batch,    \* what each worker has claimed and not yet processed
  crashes   \* number of crashes so far

workerVars == <<board, pc, batch, crashes>>

WorkerTypeOK ==
  /\ board \subseteq Node
  /\ pc \in [Worker -> {"claim", "reclaim", "check", "run", "ack", "down"}]
  /\ batch \in [Worker -> SUBSET Deliveries]
  /\ \A w \in Worker : \A d \in batch[w] : d.task \in 1 .. Len(sent)
  /\ crashes \in Nat

WorkerInit ==
  /\ board = {}
  /\ pc = [w \in Worker |-> "claim"]
  /\ batch = [w \in Worker |-> {}]
  /\ crashes = 0

NodeOf(d) == sent[d.task]

\* d is the task worker w is processing: the oldest left in its batch.
Processing(w, d) ==
  /\ d \in batch[w]
  /\ \A e \in batch[w] : d.task <= e.task

Goto(w, label) == pc' = [pc EXCEPT ![w] = label]

\* _process returns: on to the next task of the batch, or to the next run_once.
Finish(w, d) ==
  /\ batch' = [batch EXCEPT ![w] = @ \ {d}]
  /\ Goto(w, IF batch[w] = {d} THEN "claim" ELSE "check")

-----------------------------------------------------------------------------
(* run_once: claim, and reclaim when nothing was waiting. *)

ClaimWork(w) ==
  LET got == Oldest(waiting, Batch)
  IN /\ pc[w] = "claim"
     /\ got # {}
     /\ Claim(w, got)
     /\ batch' = [batch EXCEPT ![w] = {[task |-> t, attempt |-> 1] : t \in got}]
     /\ Goto(w, "check")
     /\ UNCHANGED <<board, crashes>>

ClaimNothing(w) ==
  /\ pc[w] = "claim"
  /\ waiting = {}
  /\ Goto(w, "reclaim")
  /\ UNCHANGED <<queueVars, board, batch, crashes>>

ReclaimWork(w) ==
  LET got == Oldest(IdleTasks, Batch)
  IN /\ pc[w] = "reclaim"
     /\ got # {}
     /\ Reclaim(w, got)
     /\ batch' = [batch EXCEPT ![w] =
                    {[task |-> t, attempt |-> inFlight[t].deliveries + 1] : t \in got}]
     /\ Goto(w, "check")
     /\ UNCHANGED <<board, crashes>>

ReclaimNothing(w) ==
  /\ pc[w] = "reclaim"
  /\ IdleTasks = {}
  /\ Goto(w, "claim")
  /\ UNCHANGED <<queueVars, board, batch, crashes>>

-----------------------------------------------------------------------------
(* _process, in the order of the code. *)

GiveUp(w, d) ==
  /\ pc[w] = "check"
  /\ Processing(w, d)
  /\ d.attempt > MaxAttempts
  /\ DeadLetter(d)
  /\ Finish(w, d)
  /\ UNCHANGED <<board, crashes>>

\* The read and the ack are one step: a result is never taken back, so nothing
\* that happens between them changes what either does.
SkipDone(w, d) ==
  /\ pc[w] = "check"
  /\ Processing(w, d)
  /\ d.attempt <= MaxAttempts
  /\ NodeOf(d) \in board
  /\ Ack(d.task)
  /\ Finish(w, d)
  /\ UNCHANGED <<board, crashes>>

StartNode(w, d) ==
  /\ pc[w] = "check"
  /\ Processing(w, d)
  /\ d.attempt <= MaxAttempts
  /\ NodeOf(d) \notin board
  /\ Goto(w, "run")
  /\ UNCHANGED <<queueVars, board, batch, crashes>>

\* Mutated: a failed attempt is acked.
FailAndAck(w, d) ==
  /\ pc[w] = "run"
  /\ Processing(w, d)
  /\ Ack(d.task)
  /\ Finish(w, d)
  /\ UNCHANGED <<board, crashes>>

\* The hook, the capability or the grounding gate raised: no ack.
FailNode(w, d) ==
  /\ pc[w] = "run"
  /\ Processing(w, d)
  /\ Finish(w, d)
  /\ UNCHANGED <<queueVars, board, crashes>>

WriteResult(w, d) ==
  /\ pc[w] = "run"
  /\ Processing(w, d)
  /\ board' = board \cup {NodeOf(d)}
  /\ Goto(w, "ack")
  /\ UNCHANGED <<queueVars, batch, crashes>>

AckResult(w, d) ==
  /\ pc[w] = "ack"
  /\ Processing(w, d)
  /\ Ack(d.task)
  /\ Finish(w, d)
  /\ UNCHANGED <<board, crashes>>

-----------------------------------------------------------------------------

\* The process dies: what it had claimed stays in flight, held by nobody alive.
Crash(w) ==
  /\ pc[w] # "down"
  /\ crashes < MaxCrashes
  /\ crashes' = crashes + 1
  /\ batch' = [batch EXCEPT ![w] = {}]
  /\ Goto(w, "down")
  /\ UNCHANGED <<queueVars, board>>

\* run_worker.py is started again.
Restart(w) ==
  /\ pc[w] = "down"
  /\ Goto(w, "claim")
  /\ UNCHANGED <<queueVars, board, batch, crashes>>

Process(w) ==
  \E d \in batch[w] :
    \/ GiveUp(w, d)
    \/ SkipDone(w, d)
    \/ StartNode(w, d)
    \/ FailNode(w, d)
    \/ WriteResult(w, d)
    \/ AckResult(w, d)

\* What a live worker does by itself.
WorkerStep(w) ==
  \/ ClaimWork(w)
  \/ ClaimNothing(w)
  \/ ReclaimWork(w)
  \/ ReclaimNothing(w)
  \/ Process(w)
=============================================================================
