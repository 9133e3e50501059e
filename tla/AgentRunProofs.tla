--------------------------- MODULE AgentRunProofs ----------------------------
(***************************************************************************)
(* Theorems about AgentRun, for every plan, every set of workers and every *)
(* value of the bounds.                                                    *)
(***************************************************************************)
EXTENDS AgentRun, TLAPS

-----------------------------------------------------------------------------
(* Type correctness. *)

LEMMA OldestSubset == ASSUME NEW S, NEW k PROVE Oldest(S, k) \subseteq S
BY DEF Oldest

\* Where a worker goes, and what is left of its batch, keeps the types.
LEMMA FinishType ==
  ASSUME WorkerTypeOK, NEW w \in Worker, NEW d \in batch[w], Finish(w, d)
  PROVE  /\ pc' \in [Worker -> {"claim", "reclaim", "check", "run", "ack", "down"}]
         /\ batch' \in [Worker -> SUBSET Deliveries]
         /\ \A v \in Worker : batch'[v] \subseteq batch[v]
BY DEF WorkerTypeOK, Finish, Goto

LEMMA AckType ==
  ASSUME QueueTypeOK, NEW t, Ack(t)
  PROVE  QueueTypeOK'
BY DEF QueueTypeOK, Ack, Restrict

LEMMA DeadLetterType ==
  ASSUME QueueTypeOK, NEW d \in Deliveries, DeadLetter(d)
  PROVE  QueueTypeOK'
BY DEF QueueTypeOK, DeadLetter, Restrict

LEMMA EnqueueType ==
  ASSUME QueueTypeOK, NEW n \in Node, Enqueue(n)
  PROVE  QueueTypeOK'
BY DEF QueueTypeOK, Enqueue

LEMMA ClaimType ==
  ASSUME QueueTypeOK, NEW w \in Worker, NEW got, got \subseteq waiting, Claim(w, got)
  PROVE  QueueTypeOK'
<1>1. DOMAIN inFlight' = DOMAIN inFlight \cup got
  BY DEF Claim
<1>2. \A t \in DOMAIN inFlight' : inFlight'[t] \in Claims
  BY DEF Claim, QueueTypeOK, Claims
<1>3. inFlight' \in [DOMAIN inFlight' -> Claims]
  BY <1>1, <1>2 DEF Claim
<1>4. QED
  BY <1>1, <1>3 DEF QueueTypeOK, Claim

LEMMA ReclaimType ==
  ASSUME QueueTypeOK, NEW w \in Worker, NEW got, Reclaim(w, got)
  PROVE  QueueTypeOK'
<1>1. \A t \in DOMAIN inFlight : inFlight[t] \in Claims /\ inFlight[t].deliveries \in Nat \ {0}
  BY DEF QueueTypeOK, Claims
<1>2. \A t \in DOMAIN inFlight' : inFlight'[t] \in Claims
  BY <1>1 DEF Reclaim, Claims
<1>3. inFlight' \in [DOMAIN inFlight' -> Claims] /\ DOMAIN inFlight' = DOMAIN inFlight
  BY <1>2 DEF Reclaim
<1>4. QED
  BY <1>3 DEF QueueTypeOK, Reclaim

LEMMA GrowIdleType ==
  ASSUME QueueTypeOK, NEW t, GrowIdle(t)
  PROVE  QueueTypeOK'
BY DEF QueueTypeOK, GrowIdle, Claims

\* A step of a worker, on its own or by accident.
LEMMA WorkerNextType ==
  ASSUME TypeOK, NEW w \in Worker, WorkerNext(w)
  PROVE  TypeOK'
<1> USE DEF TypeOK
<1>0. SupervisorTypeOK'
  BY DEF WorkerNext, SupervisorTypeOK, supervisorVars
<1>1. CASE ClaimWork(w)
  <2> DEFINE got == Oldest(waiting, Batch)
  <2>1. got \subseteq waiting /\ got \subseteq Nat \ {0}
    BY OldestSubset DEF QueueTypeOK
  <2>2. QueueTypeOK'
    BY <1>1, <2>1, ClaimType DEF ClaimWork
  <2>3. {[task |-> t, attempt |-> 1] : t \in got} \subseteq Deliveries
    BY <2>1 DEF Deliveries
  <2>4. WorkerTypeOK'
    BY <1>1, <2>1, <2>3 DEF ClaimWork, Claim, WorkerTypeOK, QueueTypeOK, Goto
  <2>5. QED
    BY <1>0, <2>2, <2>4
<1>2. CASE ReclaimWork(w)
  <2> DEFINE got == Oldest(IdleTasks, Batch)
  <2>1. got \subseteq DOMAIN inFlight
    BY OldestSubset DEF IdleTasks
  <2>2. QueueTypeOK'
    BY <1>2, ReclaimType DEF ReclaimWork
  <2>3. \A t \in got : t \in Nat \ {0} /\ inFlight[t].deliveries \in Nat \ {0}
    BY <2>1 DEF QueueTypeOK, Claims
  <2>4. {[task |-> t, attempt |-> inFlight[t].deliveries + 1] : t \in got}
          \subseteq Deliveries
    BY <2>3 DEF Deliveries
  <2>5. WorkerTypeOK'
    BY <1>2, <2>1, <2>4 DEF ReclaimWork, Reclaim, WorkerTypeOK, QueueTypeOK, Goto
  <2>6. QED
    BY <1>0, <2>2, <2>5
<1>3. CASE ClaimNothing(w) \/ ReclaimNothing(w) \/ Crash(w) \/ Restart(w)
  BY <1>0, <1>3 DEF ClaimNothing, ReclaimNothing, Crash, Restart, Goto,
     QueueTypeOK, WorkerTypeOK, queueVars
<1>4. ASSUME NEW d \in batch[w],
             GiveUp(w, d) \/ SkipDone(w, d) \/ FailNode(w, d) \/ AckResult(w, d)
      PROVE  TypeOK'
  <2>1. d \in Deliveries /\ Finish(w, d)
    BY <1>4 DEF GiveUp, SkipDone, FailNode, AckResult, WorkerTypeOK
  <2>2. QueueTypeOK'
    <3>1. CASE GiveUp(w, d)
      BY <2>1, <3>1, DeadLetterType DEF GiveUp
    <3>2. CASE SkipDone(w, d) \/ AckResult(w, d)
      BY <3>2, AckType DEF SkipDone, AckResult
    <3>3. CASE FailNode(w, d)
      BY <3>3 DEF FailNode, QueueTypeOK, queueVars
    <3>4. QED
      BY <1>4, <3>1, <3>2, <3>3
  <2>3. WorkerTypeOK'
    <3>1. sent' = sent /\ board' = board /\ crashes' = crashes
      BY <1>4 DEF GiveUp, SkipDone, FailNode, AckResult, Ack, DeadLetter, queueVars
    <3>2. QED
      BY <2>1, <3>1, FinishType DEF WorkerTypeOK
  <2>4. QED
    BY <1>0, <2>2, <2>3
<1>5. ASSUME NEW d \in batch[w], StartNode(w, d) \/ WriteResult(w, d)
      PROVE  TypeOK'
  <2>1. NodeOf(d) \in Node
    BY DEF NodeOf, QueueTypeOK, WorkerTypeOK
  <2>2. QED
    BY <1>0, <1>5, <2>1 DEF StartNode, WriteResult, Goto, QueueTypeOK, WorkerTypeOK, queueVars
<1>6. QED
  BY <1>1, <1>2, <1>3, <1>4, <1>5 DEF WorkerNext, WorkerStep, Process

LEMMA SupervisorType ==
  ASSUME TypeOK, Execute \/ SupervisorStep \/ DeadlinePasses
  PROVE  TypeOK'
<1> USE DEF TypeOK
<1>1. ASSUME NEW n \in Node, EnqueueNode(n)
      PROVE  TypeOK'
  <2>1. QueueTypeOK'
    BY <1>1, EnqueueType DEF EnqueueNode
  <2>2. 1 .. Len(sent) \subseteq 1 .. Len(sent')
    BY <1>1 DEF EnqueueNode, Enqueue, QueueTypeOK
  <2>3. WorkerTypeOK'
    BY <1>1, <2>2 DEF EnqueueNode, WorkerTypeOK, workerVars
  <2>4. SupervisorTypeOK'
    BY <1>1 DEF EnqueueNode, SupervisorTypeOK
  <2>5. QED
    BY <2>1, <2>3, <2>4
<1>2. ASSUME queueVars' = queueVars, workerVars' = workerVars, SupervisorTypeOK'
      PROVE  TypeOK'
  BY <1>2 DEF queueVars, workerVars, QueueTypeOK, WorkerTypeOK
<1>3. Execute => queueVars' = queueVars /\ workerVars' = workerVars
  BY DEF Execute, queueVars, workerVars
<1>4. WaveEnqueued \/ PollAgain => queueVars' = queueVars /\ workerVars' = workerVars
  BY DEF WaveEnqueued, PollAgain, queueVars, workerVars
<1>5. StopPolling \/ Return => queueVars' = queueVars /\ workerVars' = workerVars
  BY DEF StopPolling, Return, queueVars, workerVars
<1>6. DeadlinePasses => queueVars' = queueVars /\ workerVars' = workerVars
  BY DEF DeadlinePasses, queueVars, workerVars
<1>7. CASE Execute \/ WaveEnqueued \/ PollAgain
  <2>1. expired' \in BOOLEAN
    BY <1>7 DEF Execute, WaveEnqueued, PollAgain, SupervisorTypeOK
  <2>2. SupervisorTypeOK'
    BY <1>7, <2>1 DEF Execute, WaveEnqueued, PollAgain, SupervisorTypeOK, Ready
  <2>3. QED
    BY <1>2, <1>3, <1>4, <1>7, <2>2
<1>8. CASE StopPolling \/ Return \/ DeadlinePasses
  BY <1>2, <1>5, <1>8, <1>6 DEF StopPolling, Return, DeadlinePasses, SupervisorTypeOK
<1>9. ASSUME NEW n \in Node, CollectNode(n)
      PROVE  TypeOK'
  <2>1. queueVars' = queueVars /\ workerVars' = workerVars
    BY <1>9 DEF CollectNode, queueVars, workerVars
  <2>2. SupervisorTypeOK'
    BY <1>9 DEF CollectNode, SupervisorTypeOK
  <2>3. QED
    BY <1>2, <2>1, <2>2
<1>10. QED
  BY <1>1, <1>7, <1>8, <1>9 DEF SupervisorStep

LEMMA TypeInit == Init => TypeOK
<1>1. \A S : << >> \in Seq(S) /\ << >> \in [DOMAIN << >> -> S] /\ DOMAIN << >> = {}
  OBVIOUS
<1>2. QueueInit => QueueTypeOK
  BY <1>1 DEF QueueInit, QueueTypeOK
<1>3. Init => expired \in BOOLEAN
  BY DEF Init
<1>4. Init => SupervisorTypeOK
  BY <1>3 DEF Init, SupervisorTypeOK
<1>5. Init => WorkerTypeOK
  BY DEF Init, QueueInit, WorkerInit, WorkerTypeOK
<1>6. QED
  BY <1>2, <1>4, <1>5 DEF Init, TypeOK

LEMMA TypeStep == TypeOK /\ [Next]_vars => TypeOK'
<1> SUFFICES ASSUME TypeOK, [Next]_vars
             PROVE  TypeOK'
  OBVIOUS
<1>1. CASE Execute \/ SupervisorStep \/ DeadlinePasses
  BY <1>1, SupervisorType
<1>2. ASSUME NEW w \in Worker, WorkerNext(w)
      PROVE  TypeOK'
  BY <1>2, WorkerNextType
<1>3. ASSUME NEW t \in DOMAIN inFlight, IdleNext(t)
      PROVE  TypeOK'
  <2>1. sent' = sent /\ QueueTypeOK'
    BY <1>3, GrowIdleType DEF IdleNext, GrowIdle, TypeOK
  <2>2. QED
    BY <1>3, <2>1 DEF IdleNext, TypeOK, WorkerTypeOK, SupervisorTypeOK, workerVars,
       supervisorVars
<1>4. CASE UNCHANGED vars
  BY <1>4 DEF vars, queueVars, workerVars, supervisorVars, TypeOK, QueueTypeOK,
     WorkerTypeOK, SupervisorTypeOK
<1>5. QED
  BY <1>1, <1>2, <1>3, <1>4 DEF Next

\* The queue, the workers and the supervisor keep their types.
THEOREM TypeCorrect == Spec => []TypeOK
BY TypeInit, TypeStep, PTL DEF Spec

-----------------------------------------------------------------------------
(* The safety properties, from IInv. *)

\* What a step of a worker may do, as far as the supervisor can tell: it adds
\* to the blackboard only a node it was sent, and a task that leaves the queue
\* leaves a result or a dead letter behind.
WorkerEffect ==
  /\ sent' = sent
  /\ board \subseteq board'
  /\ board' \subseteq board \cup {sent[t] : t \in DOMAIN sent}
  /\ DeadTasks \subseteq DeadTasks'
  /\ \A t \in Outstanding : t \in Outstanding' \/ t \in DeadTasks' \/ sent[t] \in board

LEMMA FinishEffect ==
  ASSUME TypeOK, NEW w \in Worker, NEW d \in batch[w], Finish(w, d), AckedHasResult,
         sent' = sent, board \subseteq board'
  PROVE  AckedHasResult'
<1>1. pc' = [pc EXCEPT ![w] = IF batch[w] = {d} THEN "claim" ELSE "check"]
      /\ batch' = [batch EXCEPT ![w] = batch[w] \ {d}]
  BY DEF Finish, Goto
<1>2. pc'[w] # "ack" /\ \A v \in Worker \ {w} : pc'[v] = pc[v] /\ batch'[v] = batch[v]
  BY <1>1 DEF TypeOK, WorkerTypeOK
<1>3. QED
  BY <1>2 DEF AckedHasResult, Processing, NodeOf

LEMMA DeadAppend ==
  ASSUME TypeOK, NEW d \in Deliveries, DeadLetter(d)
  PROVE  DeadTasks \subseteq DeadTasks' /\ d.task \in DeadTasks'
<1>1. /\ dead \in Seq(Deliveries)
      /\ dead' = Append(dead, d)
  BY DEF TypeOK, QueueTypeOK, DeadLetter
<1>2. /\ DOMAIN dead \subseteq DOMAIN dead'
      /\ \A i \in DOMAIN dead : dead'[i] = dead[i]
      /\ Len(dead) + 1 \in DOMAIN dead'
      /\ dead'[Len(dead) + 1] = d
  BY <1>1
<1>3. QED
  BY <1>2 DEF DeadTasks

LEMMA WorkerNextEffect ==
  ASSUME TypeOK, AckedHasResult, NEW w \in Worker, WorkerNext(w)
  PROVE  WorkerEffect /\ AckedHasResult'
<1>1. CASE ClaimWork(w)
  <2> DEFINE got == Oldest(waiting, Batch)
  <2>1. /\ Claim(w, got)
        /\ board' = board
        /\ pc' = [pc EXCEPT ![w] = "check"]
        /\ \A v \in Worker \ {w} : batch'[v] = batch[v]
    BY <1>1 DEF ClaimWork, Goto, TypeOK, WorkerTypeOK
  <2>2. Outstanding \subseteq Outstanding' /\ sent' = sent /\ dead' = dead
    BY <2>1 DEF Claim, Outstanding
  <2>3. AckedHasResult'
    BY <2>1, <2>2 DEF AckedHasResult, Processing, NodeOf, TypeOK, WorkerTypeOK
  <2>4. QED
    BY <2>1, <2>2, <2>3 DEF WorkerEffect, DeadTasks
<1>2. CASE ReclaimWork(w)
  <2> DEFINE got == Oldest(IdleTasks, Batch)
  <2>1. /\ Reclaim(w, got)
        /\ board' = board
        /\ pc' = [pc EXCEPT ![w] = "check"]
        /\ \A v \in Worker \ {w} : batch'[v] = batch[v]
    BY <1>2 DEF ReclaimWork, Goto, TypeOK, WorkerTypeOK
  <2>2. Outstanding' = Outstanding /\ sent' = sent /\ dead' = dead
    BY <2>1 DEF Reclaim, Outstanding
  <2>3. AckedHasResult'
    BY <2>1, <2>2 DEF AckedHasResult, Processing, NodeOf, TypeOK, WorkerTypeOK
  <2>4. QED
    BY <2>1, <2>2, <2>3 DEF WorkerEffect, DeadTasks
<1>3. CASE ClaimNothing(w) \/ ReclaimNothing(w) \/ Crash(w) \/ Restart(w)
  <2>1. /\ sent' = sent /\ waiting' = waiting /\ inFlight' = inFlight
        /\ dead' = dead /\ board' = board
    BY <1>3 DEF ClaimNothing, ReclaimNothing, Crash, Restart, queueVars
  <2>2. /\ pc'[w] # "ack"
        /\ \A v \in Worker \ {w} : pc'[v] = pc[v] /\ batch'[v] = batch[v]
    BY <1>3 DEF ClaimNothing, ReclaimNothing, Crash, Restart, Goto, TypeOK, WorkerTypeOK
  <2>3. AckedHasResult'
    BY <2>1, <2>2 DEF AckedHasResult, Processing, NodeOf
  <2>4. QED
    BY <2>1, <2>3 DEF WorkerEffect, DeadTasks, Outstanding
<1>4. ASSUME NEW d \in batch[w], GiveUp(w, d)
      PROVE  WorkerEffect /\ AckedHasResult'
  <2>1. d \in Deliveries /\ DeadLetter(d) /\ Finish(w, d) /\ board' = board /\ sent' = sent
    BY <1>4 DEF GiveUp, TypeOK, WorkerTypeOK, DeadLetter
  <2>2. DeadTasks \subseteq DeadTasks' /\ d.task \in DeadTasks'
    BY <2>1, DeadAppend
  <2>3. Outstanding \ {d.task} \subseteq Outstanding'
    BY <2>1 DEF DeadLetter, Outstanding, Restrict
  <2>4. AckedHasResult'
    BY <2>1, FinishEffect
  <2>5. QED
    BY <2>1, <2>2, <2>3, <2>4 DEF WorkerEffect
<1>5. ASSUME NEW d \in batch[w], SkipDone(w, d) \/ AckResult(w, d)
      PROVE  WorkerEffect /\ AckedHasResult'
  <2>1. Ack(d.task) /\ Finish(w, d) /\ board' = board /\ sent' = sent /\ dead' = dead
    BY <1>5 DEF SkipDone, AckResult, Ack
  <2>2. sent[d.task] \in board
    BY <1>5 DEF SkipDone, AckResult, AckedHasResult, NodeOf
  <2>3. Outstanding \ {d.task} \subseteq Outstanding'
    BY <2>1 DEF Ack, Outstanding, Restrict
  <2>4. AckedHasResult'
    BY <2>1, FinishEffect
  <2>5. QED
    BY <2>1, <2>2, <2>3, <2>4 DEF WorkerEffect, DeadTasks
<1>6. ASSUME NEW d \in batch[w], FailNode(w, d)
      PROVE  WorkerEffect /\ AckedHasResult'
  <2>1. /\ sent' = sent /\ waiting' = waiting /\ inFlight' = inFlight
        /\ dead' = dead /\ board' = board /\ Finish(w, d)
    BY <1>6 DEF FailNode, queueVars
  <2>2. AckedHasResult'
    BY <2>1, FinishEffect
  <2>3. QED
    BY <2>1, <2>2 DEF WorkerEffect, DeadTasks, Outstanding
<1>7. ASSUME NEW d \in batch[w], StartNode(w, d)
      PROVE  WorkerEffect /\ AckedHasResult'
  <2>1. /\ sent' = sent /\ waiting' = waiting /\ inFlight' = inFlight
        /\ dead' = dead /\ board' = board /\ batch' = batch
        /\ pc' = [pc EXCEPT ![w] = "run"]
    BY <1>7 DEF StartNode, Goto, queueVars
  <2>2. AckedHasResult'
    BY <2>1 DEF AckedHasResult, Processing, NodeOf, TypeOK, WorkerTypeOK
  <2>3. QED
    BY <2>1, <2>2 DEF WorkerEffect, DeadTasks, Outstanding
<1>8. ASSUME NEW d \in batch[w], WriteResult(w, d)
      PROVE  WorkerEffect /\ AckedHasResult'
  <2>1. /\ sent' = sent /\ waiting' = waiting /\ inFlight' = inFlight
        /\ dead' = dead /\ board' = board \cup {sent[d.task]} /\ batch' = batch
        /\ pc' = [pc EXCEPT ![w] = "ack"]
    BY <1>8 DEF WriteResult, Goto, queueVars, NodeOf
  <2>2. d.task \in DOMAIN sent
    BY DEF TypeOK, WorkerTypeOK, QueueTypeOK
  <2>3. \A e \in batch[w] : Processing(w, e) => e.task = d.task
    BY <1>8 DEF WriteResult, Processing, TypeOK, WorkerTypeOK, Deliveries
  <2>4. AckedHasResult'
    BY <2>1, <2>3 DEF AckedHasResult, Processing, NodeOf, TypeOK, WorkerTypeOK
  <2>5. QED
    BY <2>1, <2>2, <2>4 DEF WorkerEffect, DeadTasks, Outstanding
<1>9. QED
  BY <1>1, <1>2, <1>3, <1>4, <1>5, <1>6, <1>7, <1>8 DEF WorkerNext, WorkerStep, Process

LEMMA WorkerNextSafe ==
  ASSUME IInv, NEW w \in Worker, WorkerNext(w)
  PROVE  IInv'
<1>1. TypeOK /\ TypeOK'
  BY WorkerNextType DEF IInv
<1>2. WorkerEffect /\ AckedHasResult'
  BY <1>1, WorkerNextEffect DEF IInv
<1>3. /\ phase' = phase /\ ready' = ready /\ expired' = expired
      /\ unread' = unread /\ collected' = collected
  BY DEF WorkerNext, supervisorVars
<1>4. NoLostTask'
  BY <1>2 DEF IInv, NoLostTask, WorkerEffect
<1>5. DOMAIN sent = 1 .. Len(sent)
  BY <1>1 DEF TypeOK, QueueTypeOK
<1>6. DependencyOrder'
  BY <1>2, <1>5 DEF IInv, DependencyOrder, WorkerEffect
<1>7. ReadyIsReleasable' /\ BoardWasSent' /\ ReadCovers' /\ ReadIsPosted'
  BY <1>2, <1>3 DEF IInv, ReadyIsReleasable, BoardWasSent, ReadCovers, ReadIsPosted,
     WorkerEffect
<1>8. StoppedInTime'
  BY <1>2, <1>3 DEF IInv, StoppedInTime, WorkerEffect
<1>9. QED
  BY <1>1, <1>2, <1>4, <1>6, <1>7, <1>8 DEF IInv

\* A step that leaves the queue and the workers alone keeps what is said of
\* them only.
LEMMA QueueUnchanged ==
  ASSUME IInv, UNCHANGED <<queueVars, workerVars>>
  PROVE  AckedHasResult' /\ NoLostTask' /\ DependencyOrder' /\ BoardWasSent'
BY DEF IInv, queueVars, workerVars, AckedHasResult, Processing, NodeOf, NoLostTask,
   Outstanding, DeadTasks, DependencyOrder, BoardWasSent

LEMMA EnqueueNodeSafe ==
  ASSUME IInv, NEW n \in Node, EnqueueNode(n)
  PROVE  IInv'
<1>1. TypeOK /\ TypeOK'
  BY SupervisorType DEF IInv, SupervisorStep
<1>2. /\ sent \in Seq(Node)
      /\ sent' = Append(sent, n)
      /\ waiting' = waiting \cup {Len(sent) + 1}
      /\ inFlight' = inFlight /\ dead' = dead
      /\ board' = board /\ pc' = pc /\ batch' = batch
      /\ phase = "enqueue" /\ phase' = "enqueue" /\ ready' = ready /\ n \in ready
      /\ collected' = collected
  BY <1>1 DEF EnqueueNode, Enqueue, workerVars, TypeOK, QueueTypeOK
<1>3. /\ Len(sent') = Len(sent) + 1 /\ Len(sent) \in Nat
      /\ DOMAIN sent = 1 .. Len(sent) /\ DOMAIN sent' = 1 .. Len(sent) + 1
      /\ \A t \in 1 .. Len(sent) : sent'[t] = sent[t]
      /\ sent'[Len(sent) + 1] = n
  BY <1>2
<1>4. AckedHasResult'
  <2>1. \A w \in Worker : \A d \in batch[w] : d.task \in 1 .. Len(sent)
    BY <1>1 DEF TypeOK, WorkerTypeOK
  <2>2. QED
    BY <1>2, <1>3, <2>1 DEF IInv, AckedHasResult, Processing, NodeOf
<1>5. NoLostTask'
  BY <1>2, <1>3 DEF IInv, NoLostTask, Outstanding, DeadTasks
<1>6. DependencyOrder'
  BY <1>2, <1>3 DEF IInv, DependencyOrder, ReadyIsReleasable
<1>7. BoardWasSent'
  BY <1>2, <1>3 DEF IInv, BoardWasSent
<1>8. ReadyIsReleasable' /\ ReadCovers' /\ StoppedInTime' /\ ReadIsPosted'
  BY <1>2 DEF IInv, ReadyIsReleasable, ReadCovers, StoppedInTime, ReadIsPosted
<1>9. QED
  BY <1>1, <1>4, <1>5, <1>6, <1>7, <1>8 DEF IInv

LEMMA CollectNodeSafe ==
  ASSUME IInv, NEW n \in Node, CollectNode(n)
  PROVE  IInv'
<1>1. TypeOK /\ TypeOK'
  BY SupervisorType DEF IInv, SupervisorStep
<1>2. /\ UNCHANGED <<queueVars, workerVars>>
      /\ sent' = sent /\ board' = board /\ ready' = ready /\ expired' = expired
      /\ phase = "collect" /\ phase' = "collect"
      /\ unread' = unread \ {n}
      /\ collected' = IF n \in board THEN collected \cup {n} ELSE collected
  BY DEF CollectNode, queueVars, workerVars
<1>3. AckedHasResult' /\ NoLostTask' /\ DependencyOrder' /\ BoardWasSent'
  BY <1>2, QueueUnchanged
<1>4. ReadCovers'
  <2>1. \A t \in 1 .. Len(sent) : Deps[sent[t]] \subseteq board
    BY DEF IInv, DependencyOrder
  <2>2. QED
    BY <1>2, <2>1 DEF IInv, ReadCovers
<1>5. ReadyIsReleasable' /\ StoppedInTime' /\ ReadIsPosted'
  BY <1>2 DEF IInv, ReadyIsReleasable, StoppedInTime, ReadIsPosted
<1>6. QED
  BY <1>1, <1>3, <1>4, <1>5 DEF IInv

LEMMA SupervisorSafe ==
  ASSUME IInv, Execute \/ SupervisorStep \/ DeadlinePasses
  PROVE  IInv'
<1>1. TypeOK /\ TypeOK'
  BY SupervisorType DEF IInv
<1>2. ASSUME UNCHANGED <<queueVars, workerVars>>,
             ReadyIsReleasable', ReadCovers', StoppedInTime', ReadIsPosted'
      PROVE  IInv'
  BY <1>1, <1>2, QueueUnchanged DEF IInv
<1>3. UNCHANGED <<queueVars, workerVars>> => sent' = sent /\ board' = board
  BY DEF queueVars, workerVars
<1>4. CASE Execute
  BY <1>2, <1>3, <1>4 DEF IInv, Execute, Ready, ReadyIsReleasable, ReadCovers,
     StoppedInTime, ReadIsPosted
<1>5. CASE WaveEnqueued
  BY <1>2, <1>3, <1>5 DEF IInv, WaveEnqueued, ReadyIsReleasable, ReadCovers,
     StoppedInTime, ReadIsPosted
<1>6. CASE DeadlinePasses
  BY <1>2, <1>3, <1>6 DEF IInv, DeadlinePasses, ReadyIsReleasable, ReadCovers,
     StoppedInTime, ReadIsPosted
<1>7. CASE PollAgain
  BY <1>2, <1>3, <1>7 DEF IInv, PollAgain, Ready, ReadyIsReleasable, ReadCovers,
     StoppedInTime, ReadIsPosted
<1>8. CASE StopPolling
  <2>1. \A t \in 1 .. Len(sent) : Deps[sent[t]] \subseteq Node
    BY <1>1, RunAssumption DEF TypeOK, QueueTypeOK
  <2>2. QED
    BY <1>2, <1>3, <1>8, <2>1 DEF IInv, StopPolling, ReadyIsReleasable, ReadCovers,
       StoppedInTime, ReadIsPosted
<1>9. CASE Return
  BY <1>2, <1>3, <1>9 DEF IInv, Return, ReadyIsReleasable, ReadCovers,
     StoppedInTime, ReadIsPosted
<1>10. QED
  BY <1>4, <1>5, <1>6, <1>7, <1>8, <1>9, EnqueueNodeSafe, CollectNodeSafe
     DEF SupervisorStep

LEMMA IInvInit == Init => IInv
<1> SUFFICES ASSUME Init
             PROVE  IInv
  OBVIOUS
<1>1. /\ sent = << >> /\ board = {} /\ ready = {} /\ collected = {}
      /\ phase = "idle" /\ batch = [w \in Worker |-> {}]
  BY DEF Init, QueueInit, WorkerInit
<1>2. QED
  BY <1>1, TypeInit DEF IInv, AckedHasResult, NoLostTask, DependencyOrder,
     ReadyIsReleasable, BoardWasSent, ReadCovers, StoppedInTime, ReadIsPosted

LEMMA IInvStep == IInv /\ [Next]_vars => IInv'
<1> SUFFICES ASSUME IInv, [Next]_vars
             PROVE  IInv'
  OBVIOUS
<1>1. CASE Execute \/ SupervisorStep \/ DeadlinePasses
  BY <1>1, SupervisorSafe
<1>2. ASSUME NEW w \in Worker, WorkerNext(w)
      PROVE  IInv'
  BY <1>2, WorkerNextSafe
<1>3. ASSUME NEW t \in DOMAIN inFlight, IdleNext(t)
      PROVE  IInv'
  <2>1. TypeOK'
    BY <1>3, TypeStep DEF IInv, Next
  <2>2. /\ sent' = sent /\ waiting' = waiting /\ dead' = dead
        /\ DOMAIN inFlight' = DOMAIN inFlight
        /\ UNCHANGED workerVars /\ UNCHANGED supervisorVars
    BY <1>3 DEF IdleNext, GrowIdle, IInv, TypeOK, QueueTypeOK
  <2>3. AckedHasResult' /\ NoLostTask' /\ DependencyOrder' /\ BoardWasSent'
    BY <2>2 DEF IInv, workerVars, AckedHasResult, Processing, NodeOf, NoLostTask,
       Outstanding, DeadTasks, DependencyOrder, BoardWasSent
  <2>4. ReadyIsReleasable' /\ ReadCovers' /\ StoppedInTime' /\ ReadIsPosted'
    BY <2>2 DEF IInv, workerVars, supervisorVars, ReadyIsReleasable, ReadCovers,
       StoppedInTime, ReadIsPosted
  <2>5. QED
    BY <2>1, <2>3, <2>4 DEF IInv
<1>4. CASE UNCHANGED vars
  <2>1. UNCHANGED <<queueVars, workerVars>> /\ UNCHANGED supervisorVars
    BY <1>4 DEF vars
  <2>2. TypeOK'
    BY TypeStep DEF IInv
  <2>3. ReadyIsReleasable' /\ ReadCovers' /\ StoppedInTime' /\ ReadIsPosted'
    BY <2>1 DEF IInv, queueVars, workerVars, supervisorVars, ReadyIsReleasable,
       ReadCovers, StoppedInTime, ReadIsPosted
  <2>4. QED
    BY <2>1, <2>2, <2>3, QueueUnchanged DEF IInv
<1>5. QED
  BY <1>1, <1>2, <1>3, <1>4 DEF Next

LEMMA IInvCorrect == Spec => []IInv
BY IInvInit, IInvStep, PTL DEF Spec

\* No task is lost, whatever crashes, fails or is reclaimed.
THEOREM NoTaskIsLost == Spec => []NoLostTask
<1>1. IInv => NoLostTask
  BY DEF IInv
<1>2. QED
  BY <1>1, IInvCorrect, PTL

\* A node is queued or run only after every node it depends on has a result.
THEOREM DependenciesFirst == Spec => []DependencyOrder
<1>1. IInv => DependencyOrder
  BY DEF IInv
<1>2. QED
  BY <1>1, IInvCorrect, PTL

\* What a run returns is closed under dependencies.
THEOREM ReturnsClosed == Spec => []ReturnedClosed
<1>1. IInv => ReturnedClosed
  <2> SUFFICES ASSUME IInv, phase = "returned", NEW n \in collected
               PROVE  Deps[n] \subseteq collected
    BY DEF ReturnedClosed
  <2>1. PICK t \in DOMAIN sent : n = sent[t]
    BY DEF IInv, ReadIsPosted, BoardWasSent
  <2>2. t \in 1 .. Len(sent)
    BY <2>1 DEF IInv, TypeOK, QueueTypeOK
  <2>3. QED
    BY <2>1, <2>2 DEF IInv, ReadCovers, ReadIsPosted
<1>2. QED
  BY <1>1, IInvCorrect, PTL

\* A run that returns before its deadline returns a result for every node.
THEOREM ReturnsEverything == Spec => []CompleteUnlessExpired
<1>1. IInv => CompleteUnlessExpired
  <2> SUFFICES ASSUME IInv, phase = "returned", ~expired
               PROVE  collected = Node
    BY DEF CompleteUnlessExpired
  <2>1. collected \subseteq Node
    BY DEF IInv, TypeOK, SupervisorTypeOK
  <2>2. Node \subseteq collected \cup unread /\ unread = {}
    BY DEF IInv, StoppedInTime, ReadIsPosted
  <2>3. QED
    BY <2>1, <2>2
<1>2. QED
  BY <1>1, IInvCorrect, PTL

-----------------------------------------------------------------------------
(* The run implements RunPromise. *)

Released == {sent[t] : t \in DOMAIN sent}

LEMMA WorkerBoard ==
  ASSUME TypeOK, NEW w \in Worker, WorkerNext(w)
  PROVE  /\ sent' = sent
         /\ board' = board \/ \E n \in Released : board' = board \cup {n}
<1>1. CASE ClaimWork(w) \/ ReclaimWork(w)
  BY <1>1 DEF ClaimWork, ReclaimWork, Claim, Reclaim
<1>2. CASE ClaimNothing(w) \/ ReclaimNothing(w) \/ Crash(w) \/ Restart(w)
  BY <1>2 DEF ClaimNothing, ReclaimNothing, Crash, Restart, queueVars
<1>3. ASSUME NEW d \in batch[w],
             GiveUp(w, d) \/ SkipDone(w, d) \/ StartNode(w, d) \/ FailNode(w, d)
               \/ AckResult(w, d)
      PROVE  sent' = sent /\ board' = board
  BY <1>3 DEF GiveUp, SkipDone, StartNode, FailNode, AckResult, DeadLetter, Ack, queueVars
<1>4. ASSUME NEW d \in batch[w], WriteResult(w, d)
      PROVE  sent' = sent /\ \E n \in Released : board' = board \cup {n}
  <2>1. sent[d.task] \in Released
    BY DEF Released, TypeOK, WorkerTypeOK, QueueTypeOK
  <2>2. sent' = sent /\ board' = board \cup {sent[d.task]}
    BY <1>4 DEF WriteResult, NodeOf, queueVars
  <2>3. QED
    BY <2>1, <2>2
<1>5. QED
  BY <1>1, <1>2, <1>3, <1>4 DEF WorkerNext, WorkerStep, Process

LEMMA PromiseInit == Init => Promise!Init
<1> SUFFICES ASSUME Init
             PROVE  Promise!Init
  OBVIOUS
<1>1. sent = << >> /\ board = {} /\ phase = "idle"
  BY DEF Init, QueueInit, WorkerInit
<1>2. expired = FALSE
  BY DEF Init
<1>3. {sent[t] : t \in DOMAIN sent} = {}
  BY <1>1
<1>4. QED
  BY <1>1, <1>2, <1>3 DEF Promise!Init

LEMMA PromiseStep == IInv /\ [Next]_vars => [Promise!Next]_(Promise!vars)
<1> SUFFICES ASSUME IInv, [Next]_vars
             PROVE  [Promise!Next]_(Promise!vars)
  OBVIOUS
<1>0. UNCHANGED <<queueVars, workerVars>> =>
        /\ sent' = sent /\ board' = board
        /\ {sent[t] : t \in DOMAIN sent}' = {sent[t] : t \in DOMAIN sent}
  BY DEF queueVars, workerVars
<1>1. CASE Execute
  BY <1>0, <1>1 DEF Execute, Promise!Next, Promise!Begin
<1>2. ASSUME NEW n \in Node, EnqueueNode(n)
      PROVE  Promise!Release(n)
  <2>1. /\ phase = "enqueue" /\ phase' = "enqueue" /\ expired' = expired
        /\ board' = board /\ Deps[n] \subseteq board
        /\ sent \in Seq(Node) /\ sent' = Append(sent, n)
    BY <1>2 DEF EnqueueNode, Enqueue, workerVars, IInv, ReadyIsReleasable, TypeOK,
       QueueTypeOK
  <2>2. {sent'[t] : t \in DOMAIN sent'} = {sent[t] : t \in DOMAIN sent} \cup {n}
    <3>1. /\ DOMAIN sent = 1 .. Len(sent) /\ DOMAIN sent' = DOMAIN sent \cup {Len(sent) + 1}
          /\ \A t \in DOMAIN sent : sent'[t] = sent[t]
          /\ sent'[Len(sent) + 1] = n
      BY <2>1
    <3>2. QED
      BY <3>1
  <2>3. QED
    BY <2>1, <2>2 DEF Promise!Release
<1>3. CASE WaveEnqueued \/ PollAgain \/ StopPolling
  BY <1>0, <1>3 DEF WaveEnqueued, PollAgain, StopPolling, Promise!vars
<1>4. ASSUME NEW n \in Node, CollectNode(n)
      PROVE  UNCHANGED Promise!vars
  BY <1>0, <1>4 DEF CollectNode, Promise!vars
<1>5. CASE DeadlinePasses
  BY <1>0, <1>5 DEF DeadlinePasses, Promise!Next, Promise!Expire
<1>6. CASE Return
  <2>1. /\ UNCHANGED <<queueVars, workerVars>> /\ expired' = expired
        /\ phase = "collect" /\ phase' = "returned" /\ unread = {}
        /\ collected' = collected
    BY <1>6 DEF Return
  <2>2. collected \subseteq Node /\ collected \subseteq board
    BY DEF IInv, TypeOK, SupervisorTypeOK, ReadIsPosted
  <2>3. \A n \in collected : Deps[n] \subseteq collected
    BY <2>1, <2>2 DEF IInv, BoardWasSent, ReadCovers, TypeOK, QueueTypeOK
  <2>4. collected = Node \/ expired
    BY <2>1, <2>2 DEF IInv, StoppedInTime
  <2>5. Promise!Answer(collected)
    BY <1>0, <2>1, <2>2, <2>3, <2>4 DEF Promise!Answer
  <2>6. QED
    BY <2>2, <2>5 DEF Promise!Next
<1>7. ASSUME NEW w \in Worker, WorkerNext(w)
      PROVE  [Promise!Next]_(Promise!vars)
  <2>1. /\ sent' = sent
        /\ board' = board \/ \E n \in Released : board' = board \cup {n}
    BY <1>7, WorkerBoard DEF IInv
  <2>2. phase' = phase /\ expired' = expired /\ collected' = collected
    BY <1>7 DEF WorkerNext, supervisorVars
  <2>3. CASE board' = board
    BY <2>1, <2>2, <2>3 DEF Promise!vars
  <2>4. ASSUME NEW n \in Released, board' = board \cup {n}
        PROVE  n \in Node /\ Promise!Complete(n)
    BY <2>1, <2>2, <2>4 DEF Promise!Complete, Released, IInv, TypeOK, QueueTypeOK
  <2>5. QED
    BY <2>1, <2>3, <2>4 DEF Promise!Next
<1>8. ASSUME NEW t \in DOMAIN inFlight, IdleNext(t)
      PROVE  UNCHANGED Promise!vars
  BY <1>8 DEF IdleNext, GrowIdle, workerVars, supervisorVars, Promise!vars
<1>9. CASE UNCHANGED vars
  BY <1>9 DEF vars, queueVars, workerVars, supervisorVars, Promise!vars
<1>10. QED
  BY <1>1, <1>2, <1>3, <1>4, <1>5, <1>6, <1>7, <1>8, <1>9
     DEF Next, SupervisorStep, Promise!Next

\* Every execution of a plan, with whatever workers, crashes and late results,
\* is an execution RunPromise allows.
THEOREM RunKeepsPromise == Spec => KeepsPromise
BY PromiseInit, PromiseStep, IInvCorrect, PTL DEF Spec, KeepsPromise, Promise!Spec

-----------------------------------------------------------------------------
(* Each delivery goes to one consumer. *)

LEMMA ClaimDelivery ==
  ASSUME DeliveryInv, NEW w \in Worker, ClaimWork(w)
  PROVE  UniqueDelivery' /\ waiting' \cap DOMAIN inFlight' = {}
         /\ \A v \in Worker : \A d \in batch'[v] : d.task \notin waiting'
<1> DEFINE got == Oldest(waiting, Batch)
<1>1. /\ got \subseteq waiting
      /\ waiting' = waiting \ got
      /\ DOMAIN inFlight' = DOMAIN inFlight \cup got
      /\ \A t \in got : inFlight'[t].deliveries = 1
      /\ \A t \in DOMAIN inFlight \ got : inFlight'[t] = inFlight[t]
  BY OldestSubset DEF ClaimWork, Claim
<1>2. /\ batch'[w] = {[task |-> t, attempt |-> 1] : t \in got}
      /\ \A v \in Worker \ {w} : batch'[v] = batch[v]
  BY DEF ClaimWork, DeliveryInv, TypeOK, WorkerTypeOK
<1>3. \A d \in batch'[w] : d.task \in got /\ d.attempt = 1
  BY <1>2
<1>4. \A v \in Worker \ {w} : \A d \in batch[v] : d.task \notin waiting
  BY DEF DeliveryInv
<1>5. \A u, v \in Worker : u # v => batch'[u] \cap batch'[v] = {}
  BY <1>1, <1>2, <1>3, <1>4 DEF DeliveryInv, UniqueDelivery
<1>6. \A v \in Worker : \A d \in batch'[v] :
        d.task \in DOMAIN inFlight' => d.attempt <= inFlight'[d.task].deliveries
  BY <1>1, <1>2, <1>3, <1>4 DEF DeliveryInv, UniqueDelivery
<1>7. QED
  BY <1>1, <1>2, <1>3, <1>4, <1>5, <1>6 DEF DeliveryInv, UniqueDelivery

LEMMA ReclaimDelivery ==
  ASSUME DeliveryInv, NEW w \in Worker, ReclaimWork(w)
  PROVE  UniqueDelivery' /\ waiting' \cap DOMAIN inFlight' = {}
         /\ \A v \in Worker : \A d \in batch'[v] : d.task \notin waiting'
<1> DEFINE got == Oldest(IdleTasks, Batch)
<1>0. \A t \in DOMAIN inFlight : inFlight[t].deliveries \in Nat
  BY DEF DeliveryInv, TypeOK, QueueTypeOK, Claims
<1>1. /\ got \subseteq DOMAIN inFlight
      /\ waiting' = waiting
      /\ DOMAIN inFlight' = DOMAIN inFlight
      /\ \A t \in got : inFlight'[t].deliveries = inFlight[t].deliveries + 1
      /\ \A t \in DOMAIN inFlight \ got : inFlight'[t] = inFlight[t]
  BY OldestSubset DEF ReclaimWork, Reclaim, IdleTasks
<1>2. /\ batch'[w] = {[task |-> t, attempt |-> inFlight[t].deliveries + 1] : t \in got}
      /\ \A v \in Worker \ {w} : batch'[v] = batch[v]
  BY DEF ReclaimWork, DeliveryInv, TypeOK, WorkerTypeOK
<1>3. \A d \in batch'[w] : d.task \in got /\ d.attempt = inFlight[d.task].deliveries + 1
  BY <1>2
<1>4. \A v \in Worker : \A d \in batch[v] :
        /\ d.attempt \in Nat
        /\ d.task \in DOMAIN inFlight => d.attempt <= inFlight[d.task].deliveries
        /\ d.task \notin waiting
  BY DEF DeliveryInv, UniqueDelivery, TypeOK, WorkerTypeOK, Deliveries
<1>5. \A v \in Worker \ {w} : batch'[w] \cap batch'[v] = {}
  BY <1>0, <1>1, <1>2, <1>3, <1>4
<1>6. \A u, v \in Worker : u # v => batch'[u] \cap batch'[v] = {}
  BY <1>2, <1>5 DEF DeliveryInv, UniqueDelivery
<1>7. \A v \in Worker : \A d \in batch'[v] :
        d.task \in DOMAIN inFlight' => d.attempt <= inFlight'[d.task].deliveries
  BY <1>0, <1>1, <1>2, <1>3, <1>4
<1>8. QED
  BY <1>1, <1>2, <1>3, <1>4, <1>6, <1>7 DEF DeliveryInv, UniqueDelivery

\* A step that delivers nothing, and takes away from the batches and the queue.
LEMMA ShrinkDelivery ==
  ASSUME DeliveryInv,
         \A v \in Worker : batch'[v] \subseteq batch[v],
         DOMAIN inFlight' \subseteq DOMAIN inFlight,
         \A t \in DOMAIN inFlight' : inFlight'[t].deliveries = inFlight[t].deliveries,
         waiting' \cap DOMAIN inFlight' = {},
         \A v \in Worker : \A d \in batch'[v] : d.task \notin waiting'
  PROVE  UniqueDelivery'
BY DEF DeliveryInv, UniqueDelivery

LEMMA DeliveryStep == DeliveryInv /\ [Next]_vars => DeliveryInv'
<1> SUFFICES ASSUME DeliveryInv, [Next]_vars
             PROVE  DeliveryInv'
  OBVIOUS
<1>1. TypeOK /\ TypeOK'
  BY TypeStep DEF DeliveryInv
<1>2. ASSUME \A v \in Worker : batch'[v] \subseteq batch[v],
             DOMAIN inFlight' \subseteq DOMAIN inFlight,
             \A t \in DOMAIN inFlight' : inFlight'[t].deliveries = inFlight[t].deliveries,
             waiting' = waiting
      PROVE  DeliveryInv'
  <2>1. /\ waiting' \cap DOMAIN inFlight' = {}
        /\ \A v \in Worker : \A d \in batch'[v] : d.task \notin waiting'
    BY <1>2 DEF DeliveryInv
  <2>2. QED
    BY <1>1, <1>2, <2>1, ShrinkDelivery DEF DeliveryInv
<1>3. ASSUME queueVars' = queueVars, workerVars' = workerVars
      PROVE  DeliveryInv'
  BY <1>2, <1>3 DEF queueVars, workerVars
<1>4. ASSUME NEW n \in Node, EnqueueNode(n)
      PROVE  DeliveryInv'
  <2>1. /\ waiting' = waiting \cup {Len(sent) + 1}
        /\ inFlight' = inFlight /\ batch' = batch
        /\ \A w \in Worker : \A d \in batch[w] : d.task \in 1 .. Len(sent)
        /\ DOMAIN inFlight \subseteq 1 .. Len(sent) /\ Len(sent) \in Nat
    BY <1>1, <1>4 DEF EnqueueNode, Enqueue, workerVars, TypeOK, WorkerTypeOK, QueueTypeOK
  <2>2. QED
    BY <1>1, <2>1 DEF DeliveryInv, UniqueDelivery
<1>5. CASE Execute \/ WaveEnqueued
  BY <1>3, <1>5 DEF Execute, WaveEnqueued
<1>6. CASE PollAgain \/ StopPolling
  BY <1>3, <1>6 DEF PollAgain, StopPolling
<1>7. CASE Return \/ DeadlinePasses
  BY <1>3, <1>7 DEF Return, DeadlinePasses
<1>8. ASSUME NEW n \in Node, CollectNode(n)
      PROVE  DeliveryInv'
  BY <1>3, <1>8 DEF CollectNode
<1>9. ASSUME NEW w \in Worker, ClaimWork(w) \/ ReclaimWork(w)
      PROVE  DeliveryInv'
  BY <1>1, <1>9, ClaimDelivery, ReclaimDelivery DEF DeliveryInv
<1>10. ASSUME NEW w \in Worker,
              ClaimNothing(w) \/ ReclaimNothing(w) \/ Crash(w) \/ Restart(w)
       PROVE  DeliveryInv'
  <2>1. waiting' = waiting /\ inFlight' = inFlight
    BY <1>10 DEF ClaimNothing, ReclaimNothing, Crash, Restart, queueVars
  <2>2. \A v \in Worker : batch'[v] \subseteq batch[v]
    BY <1>1, <1>10 DEF ClaimNothing, ReclaimNothing, Crash, Restart, TypeOK, WorkerTypeOK
  <2>3. QED
    BY <1>2, <2>1, <2>2
<1>11. ASSUME NEW w \in Worker, NEW d \in batch[w],
              \/ GiveUp(w, d) \/ SkipDone(w, d) \/ StartNode(w, d)
              \/ FailNode(w, d) \/ WriteResult(w, d) \/ AckResult(w, d)
       PROVE  DeliveryInv'
  <2>1. \A v \in Worker : batch'[v] \subseteq batch[v]
    BY <1>1, <1>11 DEF GiveUp, SkipDone, StartNode, FailNode, WriteResult, AckResult,
       Finish, TypeOK, WorkerTypeOK
  <2>2. waiting' = waiting
    BY <1>11 DEF GiveUp, SkipDone, StartNode, FailNode, WriteResult, AckResult,
       DeadLetter, Ack, queueVars
  <2>3. /\ DOMAIN inFlight' \subseteq DOMAIN inFlight
        /\ \A t \in DOMAIN inFlight' : inFlight'[t] = inFlight[t]
    BY <1>11 DEF GiveUp, SkipDone, StartNode, FailNode, WriteResult, AckResult,
       DeadLetter, Ack, Restrict, queueVars
  <2>4. QED
    BY <1>2, <2>1, <2>2, <2>3
<1>12. ASSUME NEW t \in DOMAIN inFlight, IdleNext(t)
       PROVE  DeliveryInv'
  <2>1. /\ batch' = batch /\ waiting' = waiting
        /\ inFlight' = [inFlight EXCEPT ![t].idle = TRUE]
    BY <1>12 DEF IdleNext, GrowIdle, workerVars
  <2>2. /\ DOMAIN inFlight' = DOMAIN inFlight
        /\ \A u \in DOMAIN inFlight : inFlight'[u].deliveries = inFlight[u].deliveries
    BY <1>1, <2>1 DEF TypeOK, QueueTypeOK, Claims
  <2>3. QED
    BY <1>2, <2>1, <2>2
<1>13. CASE UNCHANGED vars
  BY <1>3, <1>13 DEF vars
<1>14. QED
  BY <1>4, <1>5, <1>6, <1>7, <1>8, <1>9, <1>10, <1>11, <1>12, <1>13
     DEF Next, SupervisorStep, WorkerNext, WorkerStep, Process

LEMMA DeliveryInit == Init => DeliveryInv
BY TypeInit DEF Init, QueueInit, WorkerInit, DeliveryInv, UniqueDelivery

\* However often a task is reclaimed, no two workers ever hold it under the
\* same attempt number.
THEOREM DeliveredOnce == Spec => []UniqueDelivery
<1>1. DeliveryInv => UniqueDelivery
  BY DEF DeliveryInv
<1>2. QED
  BY <1>1, DeliveryInit, DeliveryStep, PTL DEF Spec

-----------------------------------------------------------------------------
(* The dead letters. *)

\* A delivery that was given up is behind every holder: nobody has it in hand any
\* more, and its task is delivered again, if ever, under a later attempt.
BuriedIsPast ==
  \A i \in DOMAIN dead :
    /\ dead[i].task \in 1 .. Len(sent)
    /\ dead[i].task \notin waiting
    /\ dead[i].task \in DOMAIN inFlight =>
         dead[i].attempt <= inFlight[dead[i].task].deliveries
    /\ \A w \in Worker : dead[i] \notin batch[w]

DeadInv == DeliveryInv /\ DeadOncePerDelivery /\ BuriedIsPast

\* A step that buries nothing and delivers only what was never delivered before.
LEMMA BuriedFrame ==
  ASSUME DeadInv, dead' = dead,
         \A t \in 1 .. Len(sent) : t \in 1 .. Len(sent'),
         \A t \in 1 .. Len(sent) : t \in waiting' => t \in waiting,
         \A t \in DOMAIN inFlight' : t \in DOMAIN inFlight =>
           inFlight'[t].deliveries >= inFlight[t].deliveries,
         \A t \in DOMAIN inFlight' : t \in DOMAIN inFlight \/ t \in waiting,
         \A w \in Worker : \A d \in batch'[w] :
           \/ d \in batch[w]
           \/ d.task \in waiting
           \/ d.task \in DOMAIN inFlight /\ d.attempt > inFlight[d.task].deliveries,
         \A t \in DOMAIN inFlight : inFlight[t].deliveries \in Nat,
         \A t \in DOMAIN inFlight' : inFlight'[t].deliveries \in Nat
  PROVE  DeadOncePerDelivery' /\ BuriedIsPast'
<1>1. DeadOncePerDelivery'
  BY DEF DeadInv, DeadOncePerDelivery
<1>2. ASSUME NEW i \in DOMAIN dead
      PROVE  /\ dead[i].task \in 1 .. Len(sent')
             /\ dead[i].task \notin waiting'
             /\ dead[i].task \in DOMAIN inFlight' =>
                  dead[i].attempt <= inFlight'[dead[i].task].deliveries
             /\ \A w \in Worker : dead[i] \notin batch'[w]
  <2>1. /\ dead[i].task \in 1 .. Len(sent)
        /\ dead[i].task \notin waiting
        /\ dead[i].task \in DOMAIN inFlight =>
             dead[i].attempt <= inFlight[dead[i].task].deliveries
        /\ \A w \in Worker : dead[i] \notin batch[w]
    BY <1>2 DEF DeadInv, BuriedIsPast
  <2>2. dead[i].attempt \in Nat
    <3>1. dead \in Seq(Deliveries)
      BY DEF DeadInv, DeliveryInv, TypeOK, QueueTypeOK
    <3>2. dead[i] \in Deliveries
      BY <1>2, <3>1
    <3>3. QED
      BY <3>2 DEF Deliveries
  <2>3. QED
    BY <2>1, <2>2
<1>3. QED
  BY <1>1, <1>2 DEF BuriedIsPast

\* A holder gives its delivery up: it leaves the batch it was in, and it was in
\* no other.
LEMMA GiveUpBuries ==
  ASSUME DeadInv, NEW w \in Worker, NEW d \in batch[w], GiveUp(w, d)
  PROVE  DeadOncePerDelivery' /\ BuriedIsPast'
<1>1. /\ dead \in Seq(Deliveries) /\ d \in Deliveries
      /\ d.task \in 1 .. Len(sent) /\ d.task \notin waiting
  BY DEF DeadInv, DeliveryInv, TypeOK, QueueTypeOK, WorkerTypeOK
<1>2. /\ dead' = Append(dead, d)
      /\ sent' = sent /\ waiting' = waiting
      /\ inFlight' = Restrict(inFlight, DOMAIN inFlight \ {d.task})
      /\ batch' = [batch EXCEPT ![w] = batch[w] \ {d}]
  BY DEF GiveUp, DeadLetter, Finish
<1>3. /\ DOMAIN dead' = DOMAIN dead \cup {Len(dead) + 1}
      /\ Len(dead) + 1 \notin DOMAIN dead
      /\ \A i \in DOMAIN dead : dead'[i] = dead[i]
      /\ dead'[Len(dead) + 1] = d
  BY <1>1, <1>2
<1>4. /\ DOMAIN inFlight' = DOMAIN inFlight \ {d.task}
      /\ \A t \in DOMAIN inFlight' : inFlight'[t] = inFlight[t]
  BY <1>2 DEF Restrict
<1>5. /\ batch'[w] = batch[w] \ {d}
      /\ \A v \in Worker \ {w} : batch'[v] = batch[v]
  BY <1>2 DEF DeadInv, DeliveryInv, TypeOK, WorkerTypeOK
<1>6. \A v \in Worker \ {w} : d \notin batch[v]
  BY DEF DeadInv, DeliveryInv, UniqueDelivery
<1>7. DeadOncePerDelivery'
  <2>1. \A i \in DOMAIN dead : dead[i] # d
    BY DEF DeadInv, BuriedIsPast
  <2>2. QED
    BY <1>3, <2>1 DEF DeadInv, DeadOncePerDelivery
<1>8. BuriedIsPast'
  <2>1. ASSUME NEW i \in DOMAIN dead
        PROVE  /\ dead[i].task \in 1 .. Len(sent)
               /\ dead[i].task \notin waiting
               /\ dead[i].task \in DOMAIN inFlight' =>
                    dead[i].attempt <= inFlight'[dead[i].task].deliveries
               /\ \A v \in Worker : dead[i] \notin batch'[v]
    BY <1>4, <1>5 DEF DeadInv, BuriedIsPast
  <2>2. d.task \notin DOMAIN inFlight' /\ \A v \in Worker : d \notin batch'[v]
    BY <1>4, <1>5, <1>6
  <2>3. ASSUME NEW i \in DOMAIN dead'
        PROVE  /\ dead'[i].task \in 1 .. Len(sent')
               /\ dead'[i].task \notin waiting'
               /\ dead'[i].task \in DOMAIN inFlight' =>
                    dead'[i].attempt <= inFlight'[dead'[i].task].deliveries
               /\ \A v \in Worker : dead'[i] \notin batch'[v]
    <3>1. CASE i = Len(dead) + 1
      BY <1>1, <1>2, <1>3, <2>2, <3>1
    <3>2. CASE i \in DOMAIN dead
      BY <1>2, <1>3, <2>1, <3>2
    <3>3. QED
      BY <1>3, <2>3, <3>1, <3>2
  <2>4. QED
    BY <2>3 DEF BuriedIsPast
<1>9. QED
  BY <1>7, <1>8

LEMMA DeadInit == Init => DeadInv
BY DeliveryInit DEF Init, QueueInit, DeadInv, DeadOncePerDelivery, BuriedIsPast

LEMMA DeadStep == DeadInv /\ [Next]_vars => DeadInv'
<1> SUFFICES ASSUME DeadInv, [Next]_vars
             PROVE  DeadInv'
  OBVIOUS
<1>0. DeliveryInv /\ DeliveryInv'
  BY DeliveryStep DEF DeadInv
<1>1. /\ \A t \in DOMAIN inFlight : inFlight[t].deliveries \in Nat
      /\ \A t \in DOMAIN inFlight' : inFlight'[t].deliveries \in Nat
  BY <1>0 DEF DeliveryInv, TypeOK, QueueTypeOK, Claims
<1>2. ASSUME dead' = dead, sent' = sent, waiting' = waiting,
             \A w \in Worker : batch'[w] \subseteq batch[w],
             DOMAIN inFlight' \subseteq DOMAIN inFlight,
             \A t \in DOMAIN inFlight' : inFlight'[t].deliveries = inFlight[t].deliveries
      PROVE  DeadInv'
  <2>1. \A t \in DOMAIN inFlight' : inFlight'[t].deliveries >= inFlight[t].deliveries
    BY <1>1, <1>2
  <2>2. DeadOncePerDelivery' /\ BuriedIsPast'
    BY <1>1, <1>2, <2>1, BuriedFrame
  <2>3. QED
    BY <1>0, <2>2 DEF DeadInv
<1>3. ASSUME queueVars' = queueVars, workerVars' = workerVars
      PROVE  DeadInv'
  BY <1>2, <1>3 DEF queueVars, workerVars
<1>4. ASSUME NEW n \in Node, EnqueueNode(n)
      PROVE  DeadInv'
  <2>1. /\ dead' = dead /\ inFlight' = inFlight /\ batch' = batch
        /\ sent \in Seq(Node) /\ sent' = Append(sent, n)
        /\ waiting' = waiting \cup {Len(sent) + 1}
    BY <1>0, <1>4 DEF EnqueueNode, Enqueue, workerVars, DeliveryInv, TypeOK, QueueTypeOK
  <2>2. /\ \A t \in 1 .. Len(sent) : t \in 1 .. Len(sent')
        /\ \A t \in 1 .. Len(sent) : t \in waiting' => t \in waiting
    BY <2>1
  <2>3. \A t \in DOMAIN inFlight' : inFlight'[t].deliveries >= inFlight[t].deliveries
    BY <1>1, <2>1
  <2>4. DeadOncePerDelivery' /\ BuriedIsPast'
    BY <1>1, <2>1, <2>2, <2>3, BuriedFrame
  <2>5. QED
    BY <1>0, <2>4 DEF DeadInv
<1>5. CASE Execute \/ WaveEnqueued
  BY <1>3, <1>5 DEF Execute, WaveEnqueued
<1>6. CASE PollAgain \/ StopPolling
  BY <1>3, <1>6 DEF PollAgain, StopPolling
<1>7. CASE Return \/ DeadlinePasses
  BY <1>3, <1>7 DEF Return, DeadlinePasses
<1>8. ASSUME NEW n \in Node, CollectNode(n)
      PROVE  DeadInv'
  BY <1>3, <1>8 DEF CollectNode
<1>9. ASSUME NEW w \in Worker, ClaimWork(w)
      PROVE  DeadInv'
  <2> DEFINE got == Oldest(waiting, Batch)
  <2>1. /\ got \subseteq waiting
        /\ waiting' = waiting \ got /\ sent' = sent /\ dead' = dead
        /\ DOMAIN inFlight' = DOMAIN inFlight \cup got
        /\ \A t \in DOMAIN inFlight \ got : inFlight'[t] = inFlight[t]
    BY <1>9, OldestSubset DEF ClaimWork, Claim
  <2>2. /\ batch'[w] = {[task |-> t, attempt |-> 1] : t \in got}
        /\ \A v \in Worker \ {w} : batch'[v] = batch[v]
    BY <1>0, <1>9 DEF ClaimWork, DeliveryInv, TypeOK, WorkerTypeOK
  <2>3. \A t \in DOMAIN inFlight : t \notin got
    BY <1>0, <2>1 DEF DeliveryInv
  <2>4. \A t \in DOMAIN inFlight' : t \in DOMAIN inFlight =>
          inFlight'[t].deliveries >= inFlight[t].deliveries
    BY <1>1, <2>1, <2>3
  <2>5. \A v \in Worker : \A d \in batch'[v] : d \in batch[v] \/ d.task \in waiting
    BY <2>1, <2>2
  <2>6. DeadOncePerDelivery' /\ BuriedIsPast'
    BY <1>1, <2>1, <2>4, <2>5, BuriedFrame
  <2>7. QED
    BY <1>0, <2>6 DEF DeadInv
<1>10. ASSUME NEW w \in Worker, ReclaimWork(w)
       PROVE  DeadInv'
  <2> DEFINE got == Oldest(IdleTasks, Batch)
  <2>1. /\ got \subseteq DOMAIN inFlight
        /\ waiting' = waiting /\ sent' = sent /\ dead' = dead
        /\ DOMAIN inFlight' = DOMAIN inFlight
        /\ \A t \in got : inFlight'[t].deliveries = inFlight[t].deliveries + 1
        /\ \A t \in DOMAIN inFlight \ got : inFlight'[t] = inFlight[t]
    BY <1>10, OldestSubset DEF ReclaimWork, Reclaim, IdleTasks
  <2>2. /\ batch'[w] = {[task |-> t, attempt |-> inFlight[t].deliveries + 1] : t \in got}
        /\ \A v \in Worker \ {w} : batch'[v] = batch[v]
    BY <1>0, <1>10 DEF ReclaimWork, DeliveryInv, TypeOK, WorkerTypeOK
  <2>3. \A t \in DOMAIN inFlight' : inFlight'[t].deliveries >= inFlight[t].deliveries
    BY <1>1, <2>1
  <2>4. \A d \in batch'[w] :
          d.task \in DOMAIN inFlight /\ d.attempt > inFlight[d.task].deliveries
    BY <1>1, <2>1, <2>2
  <2>5. DeadOncePerDelivery' /\ BuriedIsPast'
    BY <1>1, <2>1, <2>2, <2>3, <2>4, BuriedFrame
  <2>6. QED
    BY <1>0, <2>5 DEF DeadInv
<1>11. ASSUME NEW w \in Worker,
              ClaimNothing(w) \/ ReclaimNothing(w) \/ Crash(w) \/ Restart(w)
       PROVE  DeadInv'
  <2>1. queueVars' = queueVars
    BY <1>11 DEF ClaimNothing, ReclaimNothing, Crash, Restart
  <2>2. \A v \in Worker : batch'[v] \subseteq batch[v]
    BY <1>0, <1>11 DEF ClaimNothing, ReclaimNothing, Crash, Restart, DeliveryInv, TypeOK,
       WorkerTypeOK
  <2>3. QED
    BY <1>2, <2>1, <2>2 DEF queueVars
<1>12. ASSUME NEW w \in Worker, NEW d \in batch[w], GiveUp(w, d)
       PROVE  DeadInv'
  BY <1>0, <1>12, GiveUpBuries DEF DeadInv
<1>13. ASSUME NEW w \in Worker, NEW d \in batch[w],
              \/ SkipDone(w, d) \/ StartNode(w, d)
              \/ FailNode(w, d) \/ WriteResult(w, d) \/ AckResult(w, d)
       PROVE  DeadInv'
  <2>1. \A v \in Worker : batch'[v] \subseteq batch[v]
    BY <1>0, <1>13 DEF SkipDone, StartNode, FailNode, WriteResult, AckResult,
       Finish, DeliveryInv, TypeOK, WorkerTypeOK
  <2>2. dead' = dead /\ sent' = sent /\ waiting' = waiting
    BY <1>13 DEF SkipDone, StartNode, FailNode, WriteResult, AckResult, Ack, queueVars
  <2>3. /\ DOMAIN inFlight' \subseteq DOMAIN inFlight
        /\ \A t \in DOMAIN inFlight' : inFlight'[t] = inFlight[t]
    BY <1>13 DEF SkipDone, StartNode, FailNode, WriteResult, AckResult, Ack, Restrict,
       queueVars
  <2>4. QED
    BY <1>2, <2>1, <2>2, <2>3
<1>14. ASSUME NEW t \in DOMAIN inFlight, IdleNext(t)
       PROVE  DeadInv'
  <2>1. /\ batch' = batch /\ waiting' = waiting /\ dead' = dead /\ sent' = sent
        /\ inFlight' = [inFlight EXCEPT ![t].idle = TRUE]
    BY <1>14 DEF IdleNext, GrowIdle, workerVars
  <2>2. /\ DOMAIN inFlight' = DOMAIN inFlight
        /\ \A u \in DOMAIN inFlight : inFlight'[u].deliveries = inFlight[u].deliveries
    BY <1>0, <2>1 DEF DeliveryInv, TypeOK, QueueTypeOK, Claims
  <2>3. QED
    BY <1>2, <2>1, <2>2
<1>15. CASE UNCHANGED vars
  BY <1>3, <1>15 DEF vars
<1>16. QED
  BY <1>4, <1>5, <1>6, <1>7, <1>8, <1>9, <1>10, <1>11, <1>12, <1>13, <1>14, <1>15
     DEF Next, SupervisorStep, WorkerNext, WorkerStep, Process

LEMMA DeadInvCorrect == Spec => []DeadInv
BY DeadInit, DeadStep, PTL DEF Spec

\* However many workers give a task up, it is in the dead letters once for each
\* delivery beyond the last attempt: dead_letter never appends the same delivery
\* twice, whatever is reclaimed from whom and whoever crashes.
THEOREM BuriedOnce == Spec => []DeadOncePerDelivery
<1>1. DeadInv => DeadOncePerDelivery
  BY DEF DeadInv
<1>2. QED
  BY <1>1, DeadInvCorrect, PTL

-----------------------------------------------------------------------------
(* The run, seen from the queue, implements QueuePromise. *)

LEMMA QueueSideInit == Init => QueueSide!Init
<1> SUFFICES ASSUME Init
             PROVE  QueueSide!Init
  OBVIOUS
<1>1. sent = << >> /\ waiting = {} /\ inFlight = << >> /\ dead = << >> /\ board = {}
  BY DEF Init, QueueInit, WorkerInit
<1>2. Outstanding = {} /\ DeadTasks = {}
  BY <1>1 DEF Outstanding, DeadTasks
<1>3. QED
  BY <1>1, <1>2 DEF QueueSide!Init

\* Acking, or burying, the delivery in hand settles its task.
LEMMA LeaveSettles ==
  ASSUME DeliveryInv, NEW w \in Worker, NEW d \in batch[w],
         waiting' = waiting, sent' = sent, board' = board,
         inFlight' = Restrict(inFlight, DOMAIN inFlight \ {d.task}),
         \/ DeadTasks' = DeadTasks /\ sent[d.task] \in board
         \/ DeadTasks' = DeadTasks \cup {d.task}
  PROVE  QueueSide!Next
<1>1. d.task \notin waiting /\ d.task \in 1 .. Len(sent)
  BY DEF DeliveryInv, TypeOK, WorkerTypeOK
<1>2. Outstanding' = Outstanding \ {d.task}
  BY <1>1 DEF Outstanding, Restrict
<1>3. QueueSide!Settle(d.task)
  BY <1>2 DEF QueueSide!Settle
<1>4. QED
  BY <1>1, <1>3 DEF QueueSide!Next

LEMMA QueueSideStep ==
  IInv /\ DeliveryInv /\ [Next]_vars => [QueueSide!Next]_(QueueSide!vars)
<1> SUFFICES ASSUME IInv, DeliveryInv, [Next]_vars
             PROVE  [QueueSide!Next]_(QueueSide!vars)
  OBVIOUS
<1>0. TypeOK
  BY DEF DeliveryInv
<1>1. ASSUME sent' = sent, board' = board, dead' = dead, Outstanding' = Outstanding
      PROVE  UNCHANGED QueueSide!vars
  BY <1>1 DEF QueueSide!vars, DeadTasks
<1>2. ASSUME queueVars' = queueVars, board' = board
      PROVE  UNCHANGED QueueSide!vars
  BY <1>1, <1>2 DEF queueVars, Outstanding
<1>3. ASSUME NEW n \in Node, EnqueueNode(n)
      PROVE  QueueSide!Next
  <2>1. /\ sent' = Append(sent, n) /\ board' = board /\ dead' = dead
        /\ waiting' = waiting \cup {Len(sent) + 1} /\ inFlight' = inFlight
    BY <1>3 DEF EnqueueNode, Enqueue, workerVars
  <2>2. Outstanding' = Outstanding \cup {Len(sent) + 1} /\ DeadTasks' = DeadTasks
    BY <2>1 DEF Outstanding, DeadTasks
  <2>3. QueueSide!Send(n)
    BY <2>1, <2>2 DEF QueueSide!Send
  <2>4. QED
    BY <2>3 DEF QueueSide!Next
<1>4. CASE Execute \/ WaveEnqueued \/ PollAgain
  BY <1>2, <1>4 DEF Execute, WaveEnqueued, PollAgain, workerVars
<1>5. CASE StopPolling \/ Return \/ DeadlinePasses
  BY <1>2, <1>5 DEF StopPolling, Return, DeadlinePasses, workerVars
<1>6. ASSUME NEW n \in Node, CollectNode(n)
      PROVE  UNCHANGED QueueSide!vars
  BY <1>2, <1>6 DEF CollectNode, workerVars
<1>7. ASSUME NEW w \in Worker, ClaimWork(w)
      PROVE  UNCHANGED QueueSide!vars
  <2>1. Oldest(waiting, Batch) \subseteq waiting
    BY OldestSubset
  <2>2. Outstanding' = Outstanding
    BY <1>7, <2>1 DEF ClaimWork, Claim, Outstanding
  <2>3. QED
    BY <1>1, <1>7, <2>2 DEF ClaimWork, Claim
<1>8. ASSUME NEW w \in Worker, ReclaimWork(w)
      PROVE  UNCHANGED QueueSide!vars
  <2>1. Outstanding' = Outstanding
    BY <1>8 DEF ReclaimWork, Reclaim, Outstanding
  <2>2. QED
    BY <1>1, <1>8, <2>1 DEF ReclaimWork, Reclaim
<1>9. ASSUME NEW w \in Worker,
             ClaimNothing(w) \/ ReclaimNothing(w) \/ Crash(w) \/ Restart(w)
      PROVE  UNCHANGED QueueSide!vars
  BY <1>2, <1>9 DEF ClaimNothing, ReclaimNothing, Crash, Restart
<1>10. ASSUME NEW w \in Worker, NEW d \in batch[w], GiveUp(w, d)
       PROVE  QueueSide!Next
  <2>1. /\ sent' = sent /\ waiting' = waiting /\ board' = board
        /\ inFlight' = Restrict(inFlight, DOMAIN inFlight \ {d.task})
        /\ dead' = Append(dead, d) /\ dead \in Seq(Deliveries)
    BY <1>0, <1>10 DEF GiveUp, DeadLetter, TypeOK, QueueTypeOK
  <2>2. /\ DOMAIN dead' = DOMAIN dead \cup {Len(dead) + 1}
        /\ \A i \in DOMAIN dead : dead'[i] = dead[i]
        /\ dead'[Len(dead) + 1] = d
    BY <2>1
  <2>3. DeadTasks' = DeadTasks \cup {d.task}
    BY <2>2 DEF DeadTasks
  <2>4. QED
    BY <2>1, <2>3, LeaveSettles
<1>11. ASSUME NEW w \in Worker, NEW d \in batch[w], SkipDone(w, d) \/ AckResult(w, d)
       PROVE  QueueSide!Next
  <2>1. /\ sent' = sent /\ waiting' = waiting /\ board' = board /\ dead' = dead
        /\ inFlight' = Restrict(inFlight, DOMAIN inFlight \ {d.task})
    BY <1>11 DEF SkipDone, AckResult, Ack
  <2>2. sent[d.task] \in board
    BY <1>11 DEF SkipDone, AckResult, IInv, AckedHasResult, NodeOf
  <2>3. QED
    BY <2>1, <2>2, LeaveSettles DEF DeadTasks
<1>12. ASSUME NEW w \in Worker, NEW d \in batch[w], StartNode(w, d) \/ FailNode(w, d)
       PROVE  UNCHANGED QueueSide!vars
  BY <1>2, <1>12 DEF StartNode, FailNode
<1>13. ASSUME NEW w \in Worker, NEW d \in batch[w], WriteResult(w, d)
       PROVE  QueueSide!Next
  <2>1. queueVars' = queueVars /\ board' = board \cup {sent[d.task]}
    BY <1>13 DEF WriteResult, NodeOf
  <2>2. sent[d.task] \in Node
    BY <1>0, <1>13 DEF TypeOK, WorkerTypeOK, QueueTypeOK
  <2>3. QueueSide!Complete(sent[d.task])
    BY <2>1 DEF QueueSide!Complete, queueVars, Outstanding, DeadTasks
  <2>4. QED
    BY <2>2, <2>3 DEF QueueSide!Next
<1>14. ASSUME NEW t \in DOMAIN inFlight, IdleNext(t)
       PROVE  UNCHANGED QueueSide!vars
  <2>1. sent' = sent /\ board' = board /\ dead' = dead /\ Outstanding' = Outstanding
    BY <1>14 DEF IdleNext, GrowIdle, workerVars, Outstanding
  <2>2. QED
    BY <1>1, <2>1
<1>15. CASE UNCHANGED vars
  BY <1>2, <1>15 DEF vars, workerVars
<1>16. QED
  BY <1>3, <1>4, <1>5, <1>6, <1>7, <1>8, <1>9, <1>10, <1>11, <1>12, <1>13, <1>14, <1>15
     DEF Next, SupervisorStep, WorkerNext, WorkerStep, Process

\* The in-memory queue, under any number of workers and executions, keeps the
\* promise of its port: a task leaves it only with a result or into the dead
\* letters, and neither is taken back.
THEOREM RunKeepsQueuePromise == Spec => KeepsQueuePromise
<1>1. DeadInv => DeliveryInv
  BY DEF DeadInv
<1>2. QED
  BY <1>1, QueueSideInit, QueueSideStep, IInvCorrect, DeadInvCorrect, PTL
     DEF Spec, KeepsQueuePromise, QueueSide!Spec
=============================================================================
