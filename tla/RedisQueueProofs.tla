--------------------------- MODULE RedisQueueProofs --------------------------
(* The safety of the queue on Redis, for any number of workers that hold what  *)
(* they hold, any number of crashes and any batch size.                        *)
EXTENDS RedisQueue, FiniteSetTheorems, SequenceTheorems,
  WellFoundedInduction, TLAPS

-----------------------------------------------------------------------------
(* Finite sets of naturals. *)

\* A finite set of naturals has a greatest element.
LEMMA GreatestElement ==
  ASSUME NEW S \in SUBSET Nat, IsFiniteSet(S), S # {}
  PROVE  \E m \in S : \A n \in S : n <= m
<1> DEFINE Above(m) == {x \in S : m < x}
           T == {Above(m) : m \in S}
<1>1. T \subseteq FiniteSubsetsOf(S)
  BY FS_Subset DEF FiniteSubsetsOf
<1>2. PICK A \in T : \A B \in T : ~ (<<B, A>> \in StrictSubsetOrdering(S))
  <2>1. T # {}
    OBVIOUS
  <2> HIDE DEF T
  <2> QED
    BY <1>1, <2>1, FS_StrictSubsetOrderingWellFounded, WFMin
<1>3. PICK m \in S : A = Above(m)
  BY <1>2
<1>4. ASSUME NEW n \in S, m < n PROVE FALSE
  <2>1. Above(n) \subseteq Above(m) /\ n \in Above(m) /\ n \notin Above(n)
    <3>1. \A x \in S : x \in Nat
      OBVIOUS
    <3>2. \A x \in S : n < x => m < x
      BY <1>4, <3>1
    <3>3. ~ (n < n)
      BY <3>1
    <3> QED
      BY <1>4, <3>2, <3>3, Zenon
  <2>2. <<Above(n), Above(m)>> \in StrictSubsetOrdering(S)
    BY <2>1, <1>3 DEF StrictSubsetOrdering
  <2> QED
    BY <1>2, <1>3, <2>2
<1> QED
  BY <1>3, <1>4

\* The k oldest entries are older than all the others.
LEMMA OldestComeFirst ==
  ASSUME NEW S \in SUBSET Nat, IsFiniteSet(S), NEW k \in Nat,
         NEW t \in Oldest(S, k), NEW u \in S \ Oldest(S, k)
  PROVE  t < u
<1> DEFINE Before(v) == {w \in S : w < v}
<1>1. SUFFICES ASSUME u <= t PROVE FALSE
  BY DEF Oldest
<1>2. Before(u) \subseteq Before(t)
  <2>1. u \in Nat /\ t \in Nat
    BY DEF Oldest
  <2>2. \A x \in S : x < u => x < t
    BY <1>1, <2>1
  <2> QED
    BY <2>2, Zenon
<1>3. IsFiniteSet(Before(t)) /\ IsFiniteSet(Before(u))
  BY FS_Subset
<1>4. Cardinality(Before(u)) <= Cardinality(Before(t))
  BY <1>2, <1>3, FS_Subset
<1>5. Cardinality(Before(t)) \in Nat /\ Cardinality(Before(u)) \in Nat
  BY <1>3, FS_CardinalityType
<1>6. Cardinality(Before(t)) < k /\ ~ (Cardinality(Before(u)) < k)
  BY DEF Oldest
<1> QED
  BY <1>4, <1>5, <1>6

\* The oldest are some of the entries.
LEMMA OldestIsSome == ASSUME NEW S, NEW k PROVE Oldest(S, k) \subseteq S
BY DEF Oldest

-----------------------------------------------------------------------------
(* The inductive invariant. *)

\* The group counts each delivery of a pending entry, and what was read of its
\* counts may only be behind.
CountsAreKept ==
  /\ \A t \in DOMAIN pel : t <= last /\ pel[t].times = delivered[t]
  /\ seen = [w \in Worker |-> seen[w]]
  /\ \A w \in Worker : \A t \in DOMAIN seen[w] : t \in 1 .. last /\ seen[w][t] <= delivered[t]

\* What is in hand or buried was delivered; a worker holds no task twice, and
\* none at all while it asks for more.
BatchesAreDelivered ==
  /\ \A w \in Worker : \A d \in batch[w] : d.task <= last
  /\ \A w \in Worker : \A d, e \in batch[w] : d.task = e.task => d = e
  /\ \A w \in Worker :
       pc[w] \in {"xreadgroup", "xpending", "xclaim", "down"} => batch[w] = {}
  /\ \A i \in DOMAIN deadStream : deadStream[i].task <= last

\* An ack follows a result or a burial, a delete follows an ack.
Acked(w) ==
  \A d \in batch[w] :
    /\ pc[w] \in {"xack", "xdel"} /\ Processing(w, d) =>
         sent[d.task] \in board \/ d.task \in Buried
    /\ pc[w] = "xdel" /\ Processing(w, d) => d.task \notin DOMAIN pel

AckedInOrder == \A w \in Worker : Acked(w)

Burials(t) == {i \in DOMAIN deadStream : deadStream[i].task = t}

\* The workers that will bury t: past the last attempt, and not yet at the ack.
GivingUp(t) ==
  {w \in Worker :
     \E d \in batch[w] :
       /\ d.task = t
       /\ d.attempt > MaxAttempts
       /\ ~ (pc[w] \in {"xack", "xdel"} /\ Processing(w, d))}

\* A burial, done or to come, costs a delivery beyond the last attempt.
Counted(t) ==
  LET n == Cardinality(Burials(t)) + Cardinality(GivingUp(t))
  IN n > 0 => n <= delivered[t] - MaxAttempts

Order ==
  /\ TypeOK
  /\ PendingIsInStream
  /\ AttemptWasCounted
  /\ CountsAreKept
  /\ BatchesAreDelivered
  /\ AckedInOrder

IInv == Order /\ \A t \in Task : Counted(t)

USE RedisAssumption

-----------------------------------------------------------------------------
(* The order of commands. *)

LEMMA InitOrder == Init => IInv
<1> SUFFICES ASSUME Init PROVE Order /\ \A t \in Task : Counted(t)
  BY DEF IInv
<1>1. Task = {} /\ DOMAIN pel = {} /\ \A w \in Worker : batch[w] = {} /\ DOMAIN seen[w] = {}
  BY DEF Init, Task
<1>2. TypeOK
  BY <1>1 DEF Init, TypeOK
<1> QED
  BY <1>1, <1>2 DEF Init, Order, PendingIsInStream, AttemptWasCounted, CountsAreKept,
    BatchesAreDelivered, AckedInOrder, Acked

Labels == {"xreadgroup", "xpending", "xclaim", "check", "run", "xack", "xdel", "down"}

LEMMA NothingSeen == DOMAIN << >> = {} /\ << >> \in [DOMAIN << >> -> Nat \ {0}]
OBVIOUS

\* What another worker does leaves a worker's promise as it is.
LEMMA AckedStays ==
  ASSUME NEW v \in Worker, Acked(v), batch'[v] = batch[v], pc'[v] = pc[v],
         \A d \in batch[v] : /\ sent'[d.task] = sent[d.task]
                             /\ d.task \in DOMAIN pel' => d.task \in DOMAIN pel,
         board \subseteq board', Buried \subseteq Buried'
  PROVE  Acked(v)'
BY DEF Acked, Processing

\* A step of a worker that leaves the stream alone and takes nothing in hand.
LEMMA QuietStep ==
  ASSUME Order, NEW w \in Worker, UNCHANGED <<redisVars, delivered>>,
         board \subseteq board', board' \subseteq Node, crashes' \in Nat,
         batch' = [batch EXCEPT ![w] = batch'[w]], batch'[w] \subseteq batch[w],
         pc' = [pc EXCEPT ![w] = pc'[w]], pc'[w] \in Labels,
         seen' = [seen EXCEPT ![w] = seen'[w]], seen'[w] = seen[w] \/ seen'[w] = << >>,
         pc'[w] \in {"xreadgroup", "xpending", "xclaim", "down"} => batch'[w] = {},
         Acked(w)'
  PROVE  Order'
<1> USE DEF Order, TypeOK, Task
<1>1. UNCHANGED <<sent, stream, last, pel, deadStream, Buried>>
  BY DEF redisVars, Buried
<1>2. \A v \in Worker : /\ batch'[v] \subseteq batch[v]
                        /\ v # w => batch'[v] = batch[v] /\ pc'[v] = pc[v]
                        /\ seen'[v] = seen[v] \/ seen'[v] = << >>
  BY DEF CountsAreKept
<1>3. TypeOK'
  <2>1. batch' \in [Worker -> SUBSET Deliveries] /\ pc' \in [Worker -> Labels]
    BY DEF Labels
  <2>2. ASSUME NEW v \in Worker PROVE seen'[v] \in [DOMAIN seen'[v] -> Nat \ {0}]
    <3>1. CASE seen'[v] = seen[v]
      BY <3>1
    <3>2. CASE seen'[v] = << >>
      BY <3>2, NothingSeen
    <3> QED
      BY <3>1, <3>2, <1>2
  <2> QED
    BY <1>1, <1>2, <2>1, <2>2 DEF Labels
<1>4. PendingIsInStream' /\ AttemptWasCounted'
  BY <1>1, <1>2 DEF PendingIsInStream, AttemptWasCounted
<1>5. CountsAreKept'
  <2>1. \A t \in DOMAIN pel' : t <= last' /\ pel'[t].times = delivered'[t]
    BY <1>1 DEF CountsAreKept
  <2>2. ASSUME NEW v \in Worker, NEW t \in DOMAIN seen'[v]
        PROVE  t \in 1 .. last' /\ seen'[v][t] <= delivered'[t]
    <3>1. seen'[v] = seen[v]
      BY <1>2, NothingSeen
    <3> QED
      BY <1>1, <3>1 DEF CountsAreKept
  <2>3. seen' = [v \in Worker |-> seen'[v]]
    BY DEF CountsAreKept
  <2> QED
    BY <2>1, <2>2, <2>3 DEF CountsAreKept
<1>6. BatchesAreDelivered'
  BY <1>1, <1>2 DEF BatchesAreDelivered
<1>7. AckedInOrder'
  BY <1>1, <1>2, AckedStays DEF AckedInOrder
<1> QED
  BY <1>3, <1>4, <1>5, <1>6, <1>7

LEMMA EnqueueKeepsOrder ==
  ASSUME Order, NEW n \in Node, Enqueue(n)
  PROVE  Order' /\ Task' = Task \cup {Len(sent) + 1}
<1> USE DEF Order, TypeOK, Enqueue, Task
<1>1. /\ Len(sent) \in Nat
      /\ Len(sent') = Len(sent) + 1
      /\ \A t \in Task : sent'[t] = sent[t]
      /\ sent' \in Seq(Node)
  OBVIOUS
<1>2. delivered \in Seq(Nat) /\ Len(delivered) = Len(sent)
  <2>1. delivered \in [1 .. Len(sent) -> Nat] /\ Len(sent) \in Nat
    OBVIOUS
  <2> QED
    <3> HIDE DEF Order, TypeOK, Enqueue, Task
    <3> QED
      BY <2>1, LenProperties
<1>3. /\ delivered' \in [Task' -> Nat]
      /\ \A t \in Task : delivered'[t] = delivered[t]
      /\ Task \subseteq Task'
  <2>1. delivered' = Append(delivered, 0)
    OBVIOUS
  <2>2. /\ delivered' \in Seq(Nat)
        /\ Len(delivered') = Len(delivered) + 1
        /\ \A t \in 1 .. Len(delivered) : delivered'[t] = delivered[t]
    BY <1>2, <2>1, AppendProperties
  <2>3. delivered' \in [1 .. Len(delivered') -> Nat]
    BY <2>2, LenProperties
  <2>4. Task' = 1 .. Len(sent) + 1 /\ Len(delivered') = Len(sent) + 1
    BY <1>1, <1>2, <2>2
  <2>5. delivered' \in [Task' -> Nat]
    BY <2>3, <2>4
  <2>6. Task \subseteq Task'
    BY <1>1, <2>4
  <2> QED
    BY <1>2, <2>2, <2>5, <2>6
<1>4. TypeOK'
  BY <1>1, <1>3, SMTT(30)
<1>5. PendingIsInStream'
  BY DEF PendingIsInStream
<1>6. AttemptWasCounted' /\ CountsAreKept'
  BY <1>1, <1>3, SMTT(30) DEF AttemptWasCounted, CountsAreKept
<1>7. BatchesAreDelivered'
  BY DEF BatchesAreDelivered
<1>8. AckedInOrder'
  BY <1>1 DEF AckedInOrder, Acked, Processing, Buried
<1> QED
  <2> HIDE DEF TypeOK, Enqueue
  <2> QED
    BY <1>1, <1>4, <1>5, <1>6, <1>7, <1>8

\* What XREADGROUP delivers is new, and all that is new and older than its last.
LEMMA ReadGroupDelivers ==
  ASSUME Order, NEW w \in Worker, ReadGroup(w), NEW got, got = Oldest(Fresh, Batch)
  PROVE  /\ got \subseteq Fresh
         /\ last' \in got
         /\ \A t \in got : t <= last'
         /\ \A t \in Fresh \ got : t > last'
<1>1. Fresh \in SUBSET Nat /\ IsFiniteSet(Fresh)
  <2>1. Fresh \subseteq 1 .. Len(sent) /\ Len(sent) \in Nat
    BY DEF Order, TypeOK, Fresh, Task
  <2> QED
    <3>1. IsFiniteSet(1 .. Len(sent))
      BY <2>1, FS_Interval
    <3>2. Fresh \in SUBSET (1 .. Len(sent))
      BY <2>1
    <3>3. IsFiniteSet(Fresh)
      BY <3>1, <3>2, FS_Subset
    <3> QED
      BY <2>1, <3>3
<1>2. got \subseteq Fresh
  BY OldestIsSome
<1>3. got \in SUBSET Nat /\ IsFiniteSet(got) /\ got # {}
  BY <1>1, <1>2, FS_Subset DEF ReadGroup
<1>4. last' \in got /\ \A t \in got : t <= last'
  BY <1>3, GreatestElement DEF ReadGroup
<1>5. \A t \in Fresh \ got : t > last'
  <2> SUFFICES ASSUME NEW t \in Fresh \ got PROVE t > last'
    OBVIOUS
  <2>1. last' < t
    BY <1>1, <1>4, OldestComeFirst
  <2> QED
    BY <2>1, <1>1, <1>3, <1>4
<1> QED
  BY <1>2, <1>4, <1>5

LEMMA ReadGroupKeepsOrder ==
  ASSUME Order, NEW w \in Worker, ReadGroup(w)
  PROVE  Order' /\ Task' = Task
<1> DEFINE got == Oldest(Fresh, Batch)
<1>1. /\ got \subseteq Fresh
      /\ last' \in got
      /\ \A t \in got : t <= last'
  BY ReadGroupDelivers
<1> USE DEF Order, TypeOK, Task
<1>2. \A t \in got : t \in stream /\ t > last /\ t \in Task /\ t \in Nat \ {0}
  BY <1>1 DEF Fresh
<1>3. last' \in 0 .. Len(sent) /\ last < last'
  BY <1>1, <1>2
<1>4. /\ batch'[w] = {[task |-> t, attempt |-> 1] : t \in got}
      /\ \A v \in Worker \ {w} : batch'[v] = batch[v]
      /\ pc'[w] = "check"
      /\ \A v \in Worker \ {w} : pc'[v] = pc[v]
  BY DEF ReadGroup, Goto
<1>5. /\ DOMAIN pel' = DOMAIN pel \cup got
      /\ \A t \in got : pel'[t] = [consumer |-> w, idle |-> FALSE, times |-> 1]
                        /\ delivered'[t] = 1
      /\ \A t \in DOMAIN pel \ got : pel'[t] = pel[t]
      /\ \A t \in Task \ got : delivered'[t] = delivered[t]
      /\ delivered' \in [Task -> Nat]
  BY <1>2 DEF ReadGroup
<1>6. UNCHANGED <<sent, stream, deadStream, board, seen, crashes>>
  BY DEF ReadGroup
<1> HIDE DEF got
<1>7. \A d \in batch'[w] : d \in Deliveries /\ d.task \in got /\ d.attempt = 1
  BY <1>2, <1>4 DEF Deliveries
<1>8. TypeOK'
  <2>1. DOMAIN pel' \subseteq Task /\ pel' \in [DOMAIN pel' -> PendingEntries]
    <3>1. ASSUME NEW t \in DOMAIN pel' PROVE t \in Task /\ pel'[t] \in PendingEntries
      <4>1. CASE t \in got
        <5>1. pel'[t] = [consumer |-> w, idle |-> FALSE, times |-> 1] /\ t \in Task
          BY <4>1, <1>2, <1>5
        <5> QED
          BY <5>1 DEF PendingEntries
      <4>2. CASE t \notin got
        BY <4>2, <1>5
      <4> QED
        BY <4>1, <4>2
    <3>2. pel' = [t \in DOMAIN pel' |-> pel'[t]]
      BY DEF ReadGroup, got
    <3> QED
      BY <3>1, <3>2
  <2>2. batch' \in [Worker -> SUBSET Deliveries] /\ pc' \in [Worker -> {"xreadgroup",
          "xpending", "xclaim", "check", "run", "xack", "xdel", "down"}]
    <3>1. batch'[w] \in SUBSET Deliveries
      BY <1>7
    <3> QED
      BY <3>1, <1>4 DEF ReadGroup, Goto
  <2>3. \A v \in Worker : \A d \in batch'[v] : d.task \in Task
    BY <1>2, <1>4, <1>7
  <2> QED
    BY <1>3, <1>5, <1>6, <2>1, <2>2, <2>3
<1>9. PendingIsInStream'
  BY <1>2, <1>5, <1>6 DEF PendingIsInStream
<1>10. AttemptWasCounted'
  <2>1. \A v \in Worker \ {w} : \A d \in batch[v] : d.task \in Task \ got
    BY <1>2 DEF BatchesAreDelivered
  <2> QED
    BY <1>4, <1>5, <1>7, <2>1, SMTT(30) DEF AttemptWasCounted
<1>11. CountsAreKept'
  <2>1. \A t \in DOMAIN pel' : t <= last' /\ pel'[t].times = delivered'[t]
    BY <1>1, <1>2, <1>3, <1>5 DEF CountsAreKept
  <2>2. \A v \in Worker : \A t \in DOMAIN seen[v] : t \in Task \ got /\ t \in 1 .. last'
    BY <1>2, <1>3 DEF CountsAreKept
  <2> QED
    BY <1>5, <1>6, <2>1, <2>2 DEF CountsAreKept
<1>12. BatchesAreDelivered'
  <2>1. \A d, e \in batch'[w] : d.task = e.task => d = e
    BY <1>4
  <2>2. \A v \in Worker : \A d \in batch'[v] : d.task <= last'
    BY <1>1, <1>3, <1>4, <1>7, SMTT(30) DEF BatchesAreDelivered
  <2>3. \A i \in DOMAIN deadStream : deadStream[i].task <= last'
    <3>1. \A i \in DOMAIN deadStream : deadStream[i].task \in Nat
      <4>1. \A i \in DOMAIN deadStream : deadStream[i] \in Deliveries
        BY ElementOfSeq, LenProperties
      <4> QED
        BY <4>1 DEF Deliveries
    <3> QED
      BY <1>3, <3>1 DEF BatchesAreDelivered
  <2> QED
    BY <1>4, <1>6, <2>1, <2>2, <2>3 DEF BatchesAreDelivered
<1>13. AckedInOrder'
  <2>1. \A v \in Worker \ {w} : \A d \in batch[v] : d.task \notin got
    BY <1>2 DEF BatchesAreDelivered
  <2> QED
    <3> HIDE DEF TypeOK, Task
    <3> QED
      BY <1>4, <1>5, <1>6, <2>1 DEF AckedInOrder, Acked, Processing, Buried
<1> QED
  BY <1>6, <1>8, <1>9, <1>10, <1>11, <1>12, <1>13

LEMMA LookKeepsOrder ==
  ASSUME Order, NEW w \in Worker, ReadNothing(w) \/ Restart(w) \/ Crash(w)
  PROVE  Order'
<1> USE DEF Order, TypeOK, Goto
<1>1. /\ UNCHANGED <<redisVars, delivered, board>>
      /\ crashes' \in Nat
      /\ batch' = [batch EXCEPT ![w] = batch'[w]] /\ batch'[w] = {}
      /\ pc' = [pc EXCEPT ![w] = pc'[w]]
      /\ pc'[w] \in {"xreadgroup", "xpending", "down"}
  BY DEF ReadNothing, Restart, Crash, BatchesAreDelivered
<1>2. seen' = [seen EXCEPT ![w] = seen'[w]] /\ (seen'[w] = seen[w] \/ seen'[w] = << >>)
  BY DEF ReadNothing, Restart, Crash, CountsAreKept
<1>3. Acked(w)'
  BY <1>1 DEF Acked
<1> QED
  BY <1>1, <1>2, <1>3, QuietStep DEF Labels

LEMMA PendingKeepsOrder ==
  ASSUME Order, NEW w \in Worker, Pending(w)
  PROVE  Order'
<1> USE DEF Order, TypeOK, Task, Goto
<1> DEFINE idle == {t \in DOMAIN pel : pel[t].idle}
           asked == Oldest(idle, Batch)
<1>1. asked \subseteq DOMAIN pel
  BY OldestIsSome
<1> HIDE DEF asked
<1>2. /\ seen'[w] = [t \in asked |-> pel[t].times]
      /\ \A v \in Worker \ {w} : seen'[v] = seen[v]
      /\ seen' = [v \in Worker |-> seen'[v]]
  BY DEF Pending, asked, CountsAreKept
<1>3. \A t \in asked : /\ pel[t].times \in Nat \ {0}
                       /\ pel[t].times <= delivered[t]
                       /\ t \in 1 .. last
  BY <1>1 DEF PendingEntries, CountsAreKept
<1>4. UNCHANGED <<redisVars, board, batch, delivered, crashes, Buried>>
  BY DEF Pending, redisVars, Buried
<1>5. /\ pc' \in [Worker -> Labels] /\ batch[w] = {}
      /\ \A v \in Worker : batch[v] # {} => pc'[v] = pc[v]
  BY DEF Pending, Labels, BatchesAreDelivered
<1>6. CountsAreKept'
  <2>1. \A t \in DOMAIN pel' : t <= last' /\ pel'[t].times = delivered'[t]
    BY <1>4 DEF CountsAreKept, redisVars
  <2>2. \A t \in DOMAIN seen'[w] : t \in 1 .. last' /\ seen'[w][t] <= delivered'[t]
    BY <1>2, <1>3, <1>4 DEF redisVars
  <2>3. \A v \in Worker \ {w} : \A t \in DOMAIN seen'[v] :
          t \in 1 .. last' /\ seen'[v][t] <= delivered'[t]
    BY <1>2, <1>4 DEF CountsAreKept, redisVars
  <2> QED
    BY <1>2, <2>1, <2>2, <2>3 DEF CountsAreKept
<1>7. TypeOK'
  <2>1. ASSUME NEW v \in Worker PROVE seen'[v] \in [DOMAIN seen'[v] -> Nat \ {0}]
    <3>1. CASE v = w
      BY <3>1, <1>2, <1>3
    <3>2. CASE v # w
      BY <3>2, <1>2
    <3> QED
      BY <3>1, <3>2
  <2> QED
    BY <1>4, <1>5, <2>1 DEF redisVars, Labels
<1>8. PendingIsInStream' /\ AttemptWasCounted'
  BY <1>4 DEF redisVars, PendingIsInStream, AttemptWasCounted
<1>9. BatchesAreDelivered'
  BY <1>4, <1>5 DEF redisVars, BatchesAreDelivered
<1>10. AckedInOrder'
  BY <1>4, <1>5 DEF redisVars, AckedInOrder, Acked, Processing
<1> QED
  BY <1>6, <1>7, <1>8, <1>9, <1>10

LEMMA XClaimKeepsOrder ==
  ASSUME Order, NEW w \in Worker, XClaim(w)
  PROVE  Order'
<1> USE DEF Order, TypeOK, Task, Goto
<1> DEFINE got == Claimable(w)
<1>1. \A t \in got : /\ t \in DOMAIN pel /\ t \in DOMAIN seen[w] /\ t \in Task
                     /\ t \in Nat \ {0} /\ t <= last
                     /\ seen[w][t] \in Nat \ {0} /\ seen[w][t] <= delivered[t]
  BY DEF Claimable, CountsAreKept
<1>2. /\ batch'[w] = {[task |-> t, attempt |-> seen[w][t] + 1] : t \in got}
      /\ \A v \in Worker \ {w} : batch'[v] = batch[v]
      /\ batch' \in [Worker -> SUBSET Deliveries]
  <2>1. {[task |-> t, attempt |-> seen[w][t] + 1] : t \in got} \subseteq Deliveries
    BY <1>1 DEF Deliveries
  <2> QED
    BY <2>1 DEF XClaim, Attempt
<1>3. /\ DOMAIN pel' = DOMAIN pel
      /\ \A t \in got : pel'[t] = [consumer |-> w, idle |-> FALSE, times |-> pel[t].times + 1]
                        /\ delivered'[t] = delivered[t] + 1
      /\ \A t \in DOMAIN pel \ got : pel'[t] = pel[t]
      /\ \A t \in Task \ got : delivered'[t] = delivered[t]
      /\ delivered' \in [Task -> Nat]
  <2>1. /\ pel' = [t \in DOMAIN pel |->
                     IF t \in got
                     THEN [consumer |-> w, idle |-> FALSE, times |-> pel[t].times + 1]
                     ELSE pel[t]]
        /\ delivered' = [t \in Task |-> IF t \in got THEN delivered[t] + 1 ELSE delivered[t]]
    BY DEF XClaim
  <2>2. \A t \in Task : delivered[t] + 1 \in Nat
    OBVIOUS
  <2>3. \A t \in got : t \in DOMAIN pel /\ t \in Task
    BY <1>1
  <2> HIDE DEF got
  <2>4. /\ DOMAIN pel' = DOMAIN pel
        /\ \A t \in got : pel'[t] = [consumer |-> w, idle |-> FALSE, times |-> pel[t].times + 1]
        /\ \A t \in DOMAIN pel \ got : pel'[t] = pel[t]
    BY <2>1, <2>3
  <2>5. /\ \A t \in got : delivered'[t] = delivered[t] + 1
        /\ \A t \in Task \ got : delivered'[t] = delivered[t]
        /\ delivered' \in [Task -> Nat]
    BY <2>1, <2>2, <2>3
  <2> QED
    BY <2>4, <2>5
<1>4. UNCHANGED <<sent, stream, last, deadStream, board, crashes>>
  BY DEF XClaim
<1>5. /\ seen'[w] = << >> /\ \A v \in Worker \ {w} : seen'[v] = seen[v]
      /\ pc'[w] \in {"xreadgroup", "check"} /\ (pc'[w] = "xreadgroup" => got = {})
      /\ \A v \in Worker \ {w} : pc'[v] = pc[v]
      /\ pc' \in [Worker -> {"xreadgroup", "xpending", "xclaim", "check", "run",
                             "xack", "xdel", "down"}]
      /\ seen' = [v \in Worker |-> seen'[v]]
  BY DEF XClaim, CountsAreKept
<1>6. pel' \in [DOMAIN pel' -> PendingEntries]
  <2>1. ASSUME NEW t \in DOMAIN pel PROVE pel'[t] \in PendingEntries
    <3>1. CASE t \in got
      <4>1. pel[t].times + 1 \in Nat \ {0}
        BY DEF PendingEntries
      <4>2. pel'[t] = [consumer |-> w, idle |-> FALSE, times |-> pel[t].times + 1]
        BY <3>1, <1>3
      <4> QED
        BY <4>1, <4>2 DEF PendingEntries
    <3> QED
      BY <3>1, <1>3
  <2>2. pel' = [t \in DOMAIN pel' |-> pel'[t]]
    BY DEF XClaim
  <2> QED
    BY <1>3, <2>1, <2>2
<1> HIDE DEF got
<1>7. \A d \in batch'[w] : /\ d.task \in got /\ d.attempt = seen[w][d.task] + 1
  BY <1>2
<1>8. TypeOK'
  <2>1. ASSUME NEW v \in Worker, NEW d \in batch'[v] PROVE d.task \in Task
    <3>1. CASE v = w
      BY <3>1, <1>1, <1>7
    <3>2. CASE v # w
      BY <3>2, <1>2
    <3> QED
      BY <3>1, <3>2
  <2>2. ASSUME NEW v \in Worker PROVE seen'[v] \in [DOMAIN seen'[v] -> Nat \ {0}]
    <3>1. CASE v = w
      BY <3>1, <1>5, NothingSeen
    <3>2. CASE v # w
      BY <3>2, <1>5
    <3> QED
      BY <3>1, <3>2
  <2> QED
    BY <1>2, <1>3, <1>4, <1>5, <1>6, <2>1, <2>2
<1>9. \A t \in Task : delivered[t] <= delivered'[t]
  <2>1. \A t \in Task : delivered[t] \in Nat
    OBVIOUS
  <2>2. \A t \in Task : delivered'[t] = delivered[t] + 1 \/ delivered'[t] = delivered[t]
    BY <1>3
  <2> QED
    <3> HIDE DEF Order, TypeOK, Task
    <3> QED
      BY <2>1, <2>2
<1>10. AttemptWasCounted'
  <2>1. ASSUME NEW d \in batch'[w] PROVE d.attempt <= delivered'[d.task]
    <3>1. d.task \in got /\ d.attempt = seen[w][d.task] + 1
      BY <1>7
    <3>2. /\ seen[w][d.task] \in Nat /\ delivered[d.task] \in Nat
          /\ seen[w][d.task] <= delivered[d.task]
          /\ delivered'[d.task] = delivered[d.task] + 1
      BY <1>1, <1>3, <3>1
    <3> QED
      <4> HIDE DEF Order, TypeOK, Task
      <4> QED
        BY <3>1, <3>2
  <2>2. \A v \in Worker \ {w} : \A d \in batch'[v] : d.attempt <= delivered'[d.task]
    <3>1. \A v \in Worker : \A d \in batch[v] :
            /\ d.attempt \in Nat /\ d.task \in Task
            /\ d.attempt <= delivered[d.task]
      BY DEF AttemptWasCounted, Deliveries
    <3> QED
      BY <1>2, <1>3, <1>9, <3>1
  <2> QED
    BY <2>1, <2>2 DEF AttemptWasCounted
<1>11. CountsAreKept'
  <2>1. ASSUME NEW t \in DOMAIN pel PROVE t <= last' /\ pel'[t].times = delivered'[t]
    <3>1. t \in Task /\ t <= last /\ pel[t].times = delivered[t]
      BY DEF CountsAreKept
    <3>2. CASE t \in got
      <4>1. pel'[t] = [consumer |-> w, idle |-> FALSE, times |-> pel[t].times + 1]
        BY <3>2, <1>3
      <4>2. pel'[t].times = pel[t].times + 1 /\ delivered'[t] = delivered[t] + 1
        BY <3>2, <4>1, <1>3
      <4> QED
        BY <3>1, <4>2, <1>4
    <3>3. CASE t \notin got
      BY <3>1, <3>3, <1>3, <1>4
    <3> QED
      BY <3>2, <3>3
  <2>2. ASSUME NEW v \in Worker \ {w}, NEW t \in DOMAIN seen[v]
        PROVE  seen[v][t] <= delivered'[t] /\ t \in 1 .. last
    <3>1. /\ t \in 1 .. last /\ t \in Task
          /\ seen[v][t] \in Nat /\ seen[v][t] <= delivered[t]
      BY DEF CountsAreKept
    <3>2. delivered[t] \in Nat /\ delivered'[t] \in Nat
      BY <1>3, <3>1
    <3> QED
      BY <1>9, <3>1, <3>2
  <2> QED
    <3>1. \A t \in DOMAIN pel' : t <= last' /\ pel'[t].times = delivered'[t]
      BY <1>3, <2>1
    <3>2. ASSUME NEW v \in Worker, NEW t \in DOMAIN seen'[v]
          PROVE  t \in 1 .. last' /\ seen'[v][t] <= delivered'[t]
      <4>1. v # w
        BY <1>5, NothingSeen
      <4> QED
        BY <4>1, <1>4, <1>5, <2>2
    <3> QED
      BY <1>5, <3>1, <3>2 DEF CountsAreKept
<1>12. BatchesAreDelivered'
  <2>1. \A d, e \in batch'[w] : d.task = e.task => d = e
    BY <1>2
  <2>2. got = {} => batch'[w] = {}
    BY <1>2
  <2> QED
    BY <1>1, <1>2, <1>4, <1>5, <1>7, <2>1, <2>2 DEF BatchesAreDelivered
<1>13. PendingIsInStream'
  BY <1>3, <1>4 DEF PendingIsInStream
<1>14. AckedInOrder'
  <2>1. Buried' = Buried
    BY <1>4 DEF Buried
  <2>2. \A v \in Worker \ {w} : Acked(v)'
    BY <1>2, <1>3, <1>4, <1>5, <2>1, AckedStays DEF AckedInOrder
  <2>3. Acked(w)'
    BY <1>5 DEF Acked
  <2> QED
    BY <2>2, <2>3 DEF AckedInOrder
<1> QED
  BY <1>8, <1>10, <1>11, <1>12, <1>13, <1>14

\* A worker that goes on with its batch, or is done with one task of it.
LEMMA ProcessKeepsOrder ==
  ASSUME Order, NEW w \in Worker, NEW d \in batch[w],
         SkipDone(w, d) \/ StartNode(w, d) \/ FailNode(w, d) \/ WriteResult(w, d)
  PROVE  Order'
<1> USE DEF Order, TypeOK, Goto
<1>1. /\ UNCHANGED <<redisVars, delivered, seen, crashes>>
      /\ board \subseteq board' /\ board' \subseteq Node
  <2>1. sent[d.task] \in Node
    BY DEF Task
  <2> QED
    BY <2>1 DEF SkipDone, StartNode, FailNode, WriteResult
<1>2. /\ batch' = [batch EXCEPT ![w] = batch'[w]] /\ batch'[w] \subseteq batch[w]
      /\ pc' = [pc EXCEPT ![w] = pc'[w]] /\ pc'[w] \in Labels \ {"xdel", "down"}
      /\ pc'[w] \in {"xreadgroup", "xpending", "xclaim"} => batch'[w] = {}
  BY DEF SkipDone, StartNode, FailNode, WriteResult, Finish, Labels
<1>3. Acked(w)'
  <2>1. CASE SkipDone(w, d) \/ WriteResult(w, d)
    <3>1. \A e \in batch[w] : Processing(w, e) => e.task = d.task
      BY <2>1 DEF SkipDone, WriteResult, Processing, Deliveries
    <3>2. pc'[w] = "xack" /\ batch' = batch /\ sent[d.task] \in board' /\ sent' = sent
      BY <2>1 DEF SkipDone, WriteResult, redisVars
    <3> QED
      BY <3>1, <3>2 DEF Acked, Processing
  <2>2. CASE StartNode(w, d) \/ FailNode(w, d)
    <3>1. pc'[w] \notin {"xack", "xdel"}
      BY <2>2 DEF StartNode, FailNode, Finish
    <3> QED
      BY <3>1 DEF Acked
  <2> QED
    BY <2>1, <2>2
<1>4. seen' = [seen EXCEPT ![w] = seen'[w]]
  BY <1>1 DEF CountsAreKept
<1> QED
  BY <1>1, <1>2, <1>3, <1>4, QuietStep

LEMMA BuryKeepsOrder ==
  ASSUME Order, NEW w \in Worker, NEW d \in batch[w], Bury(w, d)
  PROVE  /\ Order'
         /\ DOMAIN deadStream' = DOMAIN deadStream \cup {Len(deadStream) + 1}
         /\ Len(deadStream) + 1 \notin DOMAIN deadStream
         /\ \A i \in DOMAIN deadStream : deadStream'[i] = deadStream[i]
         /\ deadStream'[Len(deadStream) + 1] = d
         /\ Buried' = Buried \cup {d.task}
<1> USE DEF Order, TypeOK, Task
<1>1. d \in Deliveries /\ deadStream \in Seq(Deliveries) /\ deadStream' = Append(deadStream, d)
  BY DEF Bury
<1>2. /\ DOMAIN deadStream' = DOMAIN deadStream \cup {Len(deadStream) + 1}
      /\ Len(deadStream) + 1 \notin DOMAIN deadStream
      /\ \A i \in DOMAIN deadStream : deadStream'[i] = deadStream[i]
      /\ deadStream'[Len(deadStream) + 1] = d
      /\ deadStream' \in Seq(Deliveries)
  BY <1>1
<1>3. Buried' = Buried \cup {d.task}
  BY <1>2 DEF Buried
<1>4. TypeOK' /\ PendingIsInStream' /\ AttemptWasCounted' /\ CountsAreKept'
  BY <1>2 DEF Bury, Goto, PendingIsInStream, AttemptWasCounted, CountsAreKept
<1>5. BatchesAreDelivered'
  BY <1>2 DEF Bury, Goto, BatchesAreDelivered
<1>6. AckedInOrder'
  <2>1. \A e \in batch[w] : Processing(w, e) => e.task \in Buried'
    BY <1>3, <1>1 DEF Bury, Processing, Deliveries
  <2> QED
    BY <1>3, <2>1 DEF Bury, Goto, AckedInOrder, Acked, Processing
<1> QED
  BY <1>2, <1>3, <1>4, <1>5, <1>6

LEMMA AckKeepsOrder ==
  ASSUME Order, NEW w \in Worker, NEW d \in batch[w], XAck(w, d) \/ XDel(w, d)
  PROVE  Order'
<1> USE DEF Order, TypeOK, Task, Goto
<1>1. CASE XAck(w, d)
  <2>1. /\ DOMAIN pel' = DOMAIN pel \ {d.task}
        /\ pel' \in [DOMAIN pel' -> PendingEntries]
        /\ \A t \in DOMAIN pel' : pel'[t] = pel[t]
    BY <1>1 DEF XAck, Restrict
  <2>2. \A e \in batch[w] : Processing(w, e) => e = d
    BY <1>1 DEF XAck, Processing, BatchesAreDelivered, Deliveries
  <2>3. AckedInOrder'
    <3>1. /\ UNCHANGED <<sent, board, batch, Buried>> /\ pc'[w] = "xdel" /\ pc[w] = "xack"
          /\ \A v \in Worker \ {w} : pc'[v] = pc[v]
      BY <1>1 DEF XAck, Buried
    <3>2. \A v \in Worker \ {w} : Acked(v)'
      BY <2>1, <3>1, AckedStays DEF AckedInOrder
    <3>3. Acked(w)'
      BY <2>1, <2>2, <3>1 DEF AckedInOrder, Acked, Processing
    <3> QED
      BY <3>2, <3>3 DEF AckedInOrder
  <2> QED
    BY <1>1, <2>1, <2>3 DEF XAck, PendingIsInStream, AttemptWasCounted, CountsAreKept,
      BatchesAreDelivered
<1>2. CASE XDel(w, d)
  <2>1. d.task \notin DOMAIN pel
    BY <1>2 DEF XDel, AckedInOrder, Acked
  <2>2. TypeOK' /\ PendingIsInStream'
    BY <1>2, <2>1 DEF XDel, Finish, PendingIsInStream
  <2>3. /\ \A v \in Worker : batch'[v] \subseteq batch[v]
        /\ \A v \in Worker \ {w} : batch'[v] = batch[v] /\ pc'[v] = pc[v]
        /\ pc'[w] \in {"xreadgroup", "check"}
        /\ pc'[w] = "xreadgroup" => batch'[w] = {}
    BY <1>2 DEF XDel, Finish
  <2>4. AttemptWasCounted' /\ CountsAreKept' /\ BatchesAreDelivered'
    BY <1>2, <2>3 DEF XDel, AttemptWasCounted, CountsAreKept, BatchesAreDelivered
  <2>5. AckedInOrder'
    <3>1. UNCHANGED <<sent, pel, board, Buried>>
      BY <1>2 DEF XDel, Buried
    <3>2. \A v \in Worker \ {w} : Acked(v)'
      BY <2>3, <3>1, AckedStays DEF AckedInOrder
    <3>3. Acked(w)'
      BY <2>3 DEF Acked
    <3> QED
      BY <3>2, <3>3 DEF AckedInOrder
  <2> QED
    BY <2>2, <2>4, <2>5
<1> QED
  BY <1>1, <1>2

LEMMA EntryIdles ==
  ASSUME NEW e \in PendingEntries
  PROVE  [e EXCEPT !.idle = TRUE] \in PendingEntries /\ [e EXCEPT !.idle = TRUE].times = e.times
BY Zenon DEF PendingEntries

LEMMA EntryReplaced ==
  ASSUME NEW S, NEW f, f \in [DOMAIN f -> S], NEW t \in DOMAIN f, NEW e \in S
  PROVE  [f EXCEPT ![t] = e] \in [DOMAIN f -> S]
OBVIOUS

LEMMA IdleKeepsOrder ==
  ASSUME Order, NEW t \in DOMAIN pel, GrowIdle(t)
  PROVE  Order'
<1> USE DEF Order, TypeOK, Task
<1>1. /\ DOMAIN pel' = DOMAIN pel
      /\ \A u \in DOMAIN pel : pel'[u].times = pel[u].times
      /\ pel' \in [DOMAIN pel -> PendingEntries]
  <2>1. pel \in [DOMAIN pel -> PendingEntries] /\ pel[t] \in PendingEntries
    OBVIOUS
  <2> DEFINE e == [pel[t] EXCEPT !.idle = TRUE]
  <2>2. e \in PendingEntries /\ e.times = pel[t].times
    BY <2>1, EntryIdles
  <2>3. pel' = [pel EXCEPT ![t] = e]
    BY Zenon DEF GrowIdle
  <2> HIDE DEF Order, TypeOK, Task, e
  <2>4. pel' \in [DOMAIN pel -> PendingEntries]
    BY <2>1, <2>2, <2>3, EntryReplaced
  <2>5. \A u \in DOMAIN pel : pel'[u] = IF u = t THEN e ELSE pel[u]
    BY <2>3
  <2>6. DOMAIN pel' = DOMAIN pel
    BY <2>3
  <2> QED
    BY <2>2, <2>4, <2>5, <2>6
<1>2. UNCHANGED <<sent, stream, last, deadStream, board, pc, batch, seen, delivered, crashes>>
  BY DEF GrowIdle
<1>3. TypeOK' /\ PendingIsInStream' /\ AttemptWasCounted'
  BY <1>1, <1>2 DEF PendingIsInStream, AttemptWasCounted
<1>4. CountsAreKept'
  BY <1>1, <1>2 DEF CountsAreKept
<1>5. BatchesAreDelivered' /\ AckedInOrder'
  BY <1>1, <1>2 DEF BatchesAreDelivered, AckedInOrder, Acked, Processing, Buried
<1> QED
  <2> HIDE DEF TypeOK
  <2> QED
    BY <1>3, <1>4, <1>5

-----------------------------------------------------------------------------
(* Burials are paid for by deliveries. *)

LEMMA CountsAreNumbers ==
  ASSUME Order, NEW t
  PROVE  /\ IsFiniteSet(Burials(t)) /\ Cardinality(Burials(t)) \in Nat
         /\ IsFiniteSet(GivingUp(t)) /\ Cardinality(GivingUp(t)) \in Nat
<1>1. Burials(t) \subseteq 1 .. Len(deadStream) /\ Len(deadStream) \in Nat
  BY DEF Order, TypeOK, Burials
<1>2. IsFiniteSet(1 .. Len(deadStream))
  BY <1>1, FS_Interval
<1>3. GivingUp(t) \subseteq Worker /\ IsFiniteSet(Worker)
  BY DEF GivingUp
<1>4. IsFiniteSet(Burials(t)) /\ IsFiniteSet(GivingUp(t))
  BY <1>1, <1>2, <1>3, FS_Subset
<1> QED
  BY <1>4, FS_CardinalityType

\* With no more burials done or to come, and no fewer deliveries, the count holds.
LEMMA CountStays ==
  ASSUME Order, NEW t \in Task, Counted(t), Burials(t)' = Burials(t),
         GivingUp(t)' \subseteq GivingUp(t),
         delivered'[t] \in Nat, delivered[t] <= delivered'[t]
  PROVE  Counted(t)'
<1>1. /\ IsFiniteSet(Burials(t)) /\ Cardinality(Burials(t)) \in Nat
      /\ IsFiniteSet(GivingUp(t)) /\ Cardinality(GivingUp(t)) \in Nat
  BY CountsAreNumbers
<1>2. /\ Cardinality(GivingUp(t)') <= Cardinality(GivingUp(t))
      /\ IsFiniteSet(GivingUp(t)')
  BY <1>1, FS_Subset
<1>3. Cardinality(GivingUp(t)') \in Nat
  BY <1>2, FS_CardinalityType
<1>4. delivered[t] \in Nat /\ MaxAttempts \in Nat
  BY DEF Order, TypeOK
<1> DEFINE b == Cardinality(Burials(t))
           g == Cardinality(GivingUp(t))
           h == Cardinality(GivingUp(t)')
<1>5. b + g > 0 => b + g <= delivered[t] - MaxAttempts
  BY DEF Counted
<1>6. h <= g /\ b \in Nat /\ g \in Nat /\ h \in Nat
  BY <1>1, <1>2, <1>3
<1> HIDE DEF b, g, h
<1>7. b + h > 0 => b + h <= delivered'[t] - MaxAttempts
  BY <1>4, <1>5, <1>6
<1>8. Cardinality(Burials(t)') = b /\ Cardinality(GivingUp(t)') = h
  BY DEF b, h
<1> QED
  BY <1>7, <1>8 DEF Counted

\* A worker whose step takes nothing past the last attempt in hand gives up no more.
LEMMA GivingUpElsewhere ==
  ASSUME NEW w \in Worker, NEW t,
         \A v \in Worker \ {w} : batch'[v] = batch[v] /\ pc'[v] = pc[v],
         w \in GivingUp(t)' => w \in GivingUp(t)
  PROVE  GivingUp(t)' \subseteq GivingUp(t)
BY DEF GivingUp, Processing

\* Steps that bury nothing and take nothing in hand.
LEMMA QuietCount ==
  ASSUME Order, NEW w \in Worker, NEW t \in Task, Counted(t),
         ReadNothing(w) \/ Restart(w) \/ Crash(w) \/ Pending(w)
  PROVE  Counted(t)'
<1> USE DEF Order, TypeOK, Goto
<1>1. UNCHANGED <<deadStream, delivered>>
  BY DEF ReadNothing, Restart, Crash, Pending, redisVars
<1>2. /\ \A v \in Worker \ {w} : batch'[v] = batch[v] /\ pc'[v] = pc[v]
      /\ batch'[w] = {}
  BY DEF ReadNothing, Restart, Crash, Pending, BatchesAreDelivered
<1>3. w \notin GivingUp(t)'
  BY <1>2 DEF GivingUp
<1>4. GivingUp(t)' \subseteq GivingUp(t)
  BY <1>2, <1>3, GivingUpElsewhere
<1>5. /\ Burials(t)' = Burials(t) /\ delivered'[t] \in Nat
      /\ delivered[t] <= delivered'[t]
  BY <1>1 DEF Burials
<1> QED
  <2> HIDE DEF Order, TypeOK, Goto
  <2> QED
    BY <1>4, <1>5, CountStays

LEMMA ProcessCount ==
  ASSUME Order, NEW w \in Worker, NEW d \in batch[w], NEW t \in Task, Counted(t),
         \/ SkipDone(w, d) \/ StartNode(w, d) \/ FailNode(w, d) \/ WriteResult(w, d)
         \/ XAck(w, d) \/ XDel(w, d)
  PROVE  Counted(t)'
<1> USE DEF Order, TypeOK, Goto
<1>1. UNCHANGED <<deadStream, delivered>>
  BY DEF SkipDone, StartNode, FailNode, WriteResult, XAck, XDel, redisVars
<1>2. \A v \in Worker \ {w} : batch'[v] = batch[v] /\ pc'[v] = pc[v]
  BY DEF SkipDone, StartNode, FailNode, WriteResult, XAck, XDel, Finish
<1>3. \A e \in batch[w] : Processing(w, e) => e = d
  BY DEF SkipDone, StartNode, FailNode, WriteResult, XAck, XDel, Processing,
    BatchesAreDelivered, Deliveries
<1>4. w \in GivingUp(t)' => w \in GivingUp(t)
  <2>1. CASE SkipDone(w, d) \/ StartNode(w, d) \/ WriteResult(w, d) \/ XAck(w, d)
    <3>1. batch'[w] = batch[w] /\ (pc[w] \in {"xack", "xdel"} => pc'[w] \in {"xack", "xdel"})
      BY <2>1 DEF SkipDone, StartNode, WriteResult, XAck
    <3> QED
      BY <3>1 DEF GivingUp, Processing
  <2>2. CASE FailNode(w, d) \/ XDel(w, d)
    <3>1. batch'[w] = batch[w] \ {d}
      BY <2>2 DEF FailNode, XDel, Finish
    <3> QED
      BY <1>3, <3>1 DEF GivingUp
  <2> QED
    BY <2>1, <2>2
<1>5. GivingUp(t)' \subseteq GivingUp(t)
  BY <1>2, <1>4, GivingUpElsewhere
<1>6. /\ Burials(t)' = Burials(t)
      /\ delivered[t] <= delivered'[t] /\ delivered'[t] \in Nat
  BY <1>1 DEF Burials
<1> QED
  BY <1>5, <1>6, CountStays

LEMMA ReadGroupCount ==
  ASSUME Order, NEW w \in Worker, NEW t \in Task, Counted(t), ReadGroup(w)
  PROVE  Counted(t)'
<1> USE DEF Order, TypeOK, Goto
<1> DEFINE got == Oldest(Fresh, Batch)
<1>1. deadStream' = deadStream /\ delivered' = [u \in Task |-> IF u \in got THEN 1 ELSE delivered[u]]
  BY DEF ReadGroup
<1>2. \A v \in Worker \ {w} : batch'[v] = batch[v] /\ pc'[v] = pc[v]
  BY DEF ReadGroup
<1>3. \A d \in batch'[w] : d.attempt = 1
  BY DEF ReadGroup
<1>4. w \notin GivingUp(t)'
  BY <1>3 DEF GivingUp
<1>5. GivingUp(t)' \subseteq GivingUp(t)
  BY <1>2, <1>4, GivingUpElsewhere
<1>6. CASE t \notin got
  <2>1. delivered[t] \in Nat /\ delivered'[t] = delivered[t]
    BY <1>1, <1>6
  <2>2. delivered[t] <= delivered'[t] /\ delivered'[t] \in Nat
    BY <2>1
  <2>3. Burials(t)' = Burials(t)
    BY <1>1 DEF Burials
  <2> QED
    BY <1>5, <2>2, <2>3, CountStays
<1>7. CASE t \in got
  <2>1. t > last /\ t \in Nat /\ last \in Nat
    BY <1>7, OldestIsSome DEF Fresh, Task
  <2>2. Burials(t) = {}
    <3>1. \A i \in DOMAIN deadStream : deadStream[i].task <= last
      BY DEF BatchesAreDelivered
    <3> QED
      BY <2>1, <3>1 DEF Burials
  <2>3. GivingUp(t) = {}
    <3>1. \A v \in Worker : \A d \in batch[v] : d.task <= last
      BY DEF BatchesAreDelivered
    <3> QED
      BY <2>1, <3>1 DEF GivingUp
  <2>4. Burials(t)' = {} /\ GivingUp(t)' = {}
    BY <1>1, <1>5, <2>2, <2>3 DEF Burials
  <2>5. Cardinality(Burials(t)') = 0 /\ Cardinality(GivingUp(t)') = 0
    BY <2>4, FS_EmptySet
  <2> QED
    BY <2>5 DEF Counted
<1> QED
  BY <1>6, <1>7

\* One more delivery pays for one more burial.
LEMMA DeliveryPays ==
  ASSUME NEW b \in Nat, NEW g \in Nat, NEW h \in Nat,
         NEW before \in Nat, NEW after \in Nat, NEW m \in Nat,
         h <= g + 1, before >= m, after = before + 1,
         b + g > 0 => b + g <= before - m
  PROVE  b + h > 0 => b + h <= after - m
OBVIOUS

\* A reclaim may give a task one more burial to come, and has counted it a delivery.
LEMMA XClaimCount ==
  ASSUME Order, NEW w \in Worker, NEW t \in Task, Counted(t), XClaim(w)
  PROVE  Counted(t)'
<1> USE DEF Order, TypeOK, Goto
<1> DEFINE got == Claimable(w)
<1>1. deadStream' = deadStream
  BY DEF XClaim
<1>2. delivered[t] \in Nat /\ delivered'[t] = IF t \in got THEN delivered[t] + 1 ELSE delivered[t]
  BY DEF XClaim
<1>3. /\ \A v \in Worker \ {w} : batch'[v] = batch[v] /\ pc'[v] = pc[v]
      /\ batch'[w] = {[task |-> u, attempt |-> Attempt(w, u)] : u \in got}
  BY DEF XClaim
<1>4. CASE w \notin GivingUp(t)'
  <2>1. GivingUp(t)' \subseteq GivingUp(t)
    BY <1>3, <1>4, GivingUpElsewhere
  <2>2. delivered[t] <= delivered'[t] /\ delivered'[t] \in Nat
    BY <1>2
  <2>3. Burials(t)' = Burials(t)
    BY <1>1 DEF Burials
  <2> QED
    BY <2>1, <2>2, <2>3, CountStays
<1>5. CASE w \in GivingUp(t)'
  <2>1. PICK d \in batch'[w] : d.task = t /\ d.attempt > MaxAttempts
    BY <1>5 DEF GivingUp
  <2>2. t \in got /\ seen[w][t] + 1 > MaxAttempts
    BY <1>3, <2>1 DEF Attempt
  <2>3. seen[w][t] <= delivered[t] /\ seen[w][t] \in Nat
    BY <2>2 DEF Claimable, CountsAreKept
  <2>4. delivered[t] >= MaxAttempts /\ delivered'[t] = delivered[t] + 1
    <3> HIDE DEF Order, TypeOK, Goto
    <3> QED
      BY <1>2, <2>2, <2>3
  <2>5. GivingUp(t)' \subseteq GivingUp(t) \cup {w}
    BY <1>3 DEF GivingUp, Processing
  <2>6. /\ IsFiniteSet(GivingUp(t) \cup {w})
        /\ Cardinality(GivingUp(t) \cup {w}) <= Cardinality(GivingUp(t)) + 1
    <3>1. IsFiniteSet(GivingUp(t)) /\ Cardinality(GivingUp(t)) \in Nat
      BY CountsAreNumbers
    <3>2. /\ IsFiniteSet(GivingUp(t) \cup {w})
          /\ \/ Cardinality(GivingUp(t) \cup {w}) = Cardinality(GivingUp(t))
             \/ Cardinality(GivingUp(t) \cup {w}) = Cardinality(GivingUp(t)) + 1
      BY <3>1, FS_AddElement, Zenon
    <3> QED
      BY <3>1, <3>2
  <2>7. /\ IsFiniteSet(GivingUp(t)')
        /\ Cardinality(GivingUp(t)') <= Cardinality(GivingUp(t) \cup {w})
    BY <2>5, <2>6, FS_Subset
  <2> DEFINE b == Cardinality(Burials(t))
             g == Cardinality(GivingUp(t))
             h == Cardinality(GivingUp(t)')
  <2>8. h \in Nat /\ b \in Nat /\ g \in Nat /\ h <= g + 1
    <3> HIDE DEF Order, TypeOK, Goto
    <3> QED
      BY <2>6, <2>7, FS_CardinalityType, CountsAreNumbers
  <2>9. b + g > 0 => b + g <= delivered[t] - MaxAttempts
    BY DEF Counted
  <2>10. Burials(t)' = Burials(t)
    BY <1>1 DEF Burials
  <2>11. delivered[t] \in Nat /\ delivered'[t] \in Nat /\ MaxAttempts \in Nat
    BY <1>2, RedisAssumption
  <2> HIDE DEF b, g, h, Order, TypeOK, Goto
  <2>12. b + h > 0 => b + h <= delivered'[t] - MaxAttempts
    BY <2>4, <2>8, <2>9, <2>11, DeliveryPays
  <2> QED
    BY <2>10, <2>12 DEF Counted, b, h
<1> QED
  BY <1>4, <1>5

\* The worker that buries a task was counted among those giving it up.
LEMMA BuryCount ==
  ASSUME Order, NEW w \in Worker, NEW d \in batch[w], NEW t \in Task, Counted(t), Bury(w, d)
  PROVE  Counted(t)'
<1> USE DEF Order, TypeOK, Goto
<1>1. /\ DOMAIN deadStream' = DOMAIN deadStream \cup {Len(deadStream) + 1}
      /\ Len(deadStream) + 1 \notin DOMAIN deadStream
      /\ \A i \in DOMAIN deadStream : deadStream'[i] = deadStream[i]
      /\ deadStream'[Len(deadStream) + 1] = d
  BY BuryKeepsOrder
<1>2. /\ delivered' = delivered /\ delivered[t] \in Nat
      /\ batch' = batch /\ pc[w] = "check" /\ pc'[w] = "xack"
      /\ \A v \in Worker \ {w} : batch'[v] = batch[v] /\ pc'[v] = pc[v]
      /\ d.attempt > MaxAttempts /\ Processing(w, d) /\ Processing(w, d)'
  BY DEF Bury, Processing
<1>3. w \in GivingUp(t)' => w \in GivingUp(t)
  BY <1>2 DEF GivingUp
<1>4. GivingUp(t)' \subseteq GivingUp(t)
  BY <1>2, <1>3, GivingUpElsewhere
<1>5. CASE d.task # t
  <2>1. Burials(t)' = Burials(t)
    BY <1>1, <1>5 DEF Burials
  <2> QED
    <3> HIDE DEF Order, TypeOK, Goto
    <3> QED
      BY <1>2, <1>4, <2>1, CountStays
<1>6. CASE d.task = t
  <2>1. /\ Burials(t)' = Burials(t) \cup {Len(deadStream) + 1}
        /\ Len(deadStream) + 1 \notin Burials(t)
    BY <1>1, <1>6 DEF Burials
  <2>2. Cardinality(Burials(t)') = Cardinality(Burials(t)) + 1
    BY <2>1, CountsAreNumbers, FS_AddElement
  <2>3. w \in GivingUp(t)
    BY <1>2, <1>6 DEF GivingUp
  <2>4. w \notin GivingUp(t)'
    <3>1. \A e \in batch[w] : e.task = t => e = d
      BY <1>6 DEF BatchesAreDelivered
    <3> QED
      BY <1>2, <3>1 DEF GivingUp
  <2>5. GivingUp(t)' \subseteq GivingUp(t) \ {w}
    BY <1>4, <2>4
  <2>6. /\ IsFiniteSet(GivingUp(t) \ {w})
        /\ Cardinality(GivingUp(t) \ {w}) = Cardinality(GivingUp(t)) - 1
    BY <2>3, CountsAreNumbers, FS_RemoveElement
  <2>7. /\ IsFiniteSet(GivingUp(t)')
        /\ Cardinality(GivingUp(t)') <= Cardinality(GivingUp(t)) - 1
    BY <2>5, <2>6, FS_Subset
  <2> DEFINE b == Cardinality(Burials(t))
             g == Cardinality(GivingUp(t))
             h == Cardinality(GivingUp(t)')
  <2>8. b \in Nat /\ g \in Nat /\ h \in Nat /\ h + 1 <= g
    <3> HIDE DEF Order, TypeOK, Goto
    <3> QED
      BY <2>7, FS_CardinalityType, CountsAreNumbers
  <2>9. b + g > 0 => b + g <= delivered[t] - MaxAttempts
    BY DEF Counted
  <2> HIDE DEF b, g, h
  <2>10. b + 1 + h <= delivered[t] - MaxAttempts
    <3> HIDE DEF Order, TypeOK, Goto
    <3> QED
      BY <1>2, <2>8, <2>9
  <2> QED
    BY <1>2, <2>2, <2>10 DEF Counted, b, h
<1> QED
  BY <1>5, <1>6

LEMMA EnqueueCount ==
  ASSUME Order, \A t \in Task : Counted(t), NEW n \in Node, Enqueue(n), NEW t \in Task'
  PROVE  Counted(t)'
<1>1. Len(sent) \in Nat /\ Task' = Task \cup {Len(sent) + 1} /\ Task = 1 .. Len(sent)
  <2>1. Task' = Task \cup {Len(sent) + 1}
    BY EnqueueKeepsOrder
  <2>2. Len(sent) \in Nat
    BY DEF Order, TypeOK
  <2> QED
    BY <2>1, <2>2 DEF Task
<1> USE DEF Order, TypeOK
<1>2. UNCHANGED <<deadStream, batch, pc, last>>
  BY DEF Enqueue
<1>3. Burials(t)' = Burials(t) /\ GivingUp(t)' = GivingUp(t)
  BY <1>2 DEF Burials, GivingUp, Processing
<1>4. CASE t \in Task
  <2>1. delivered \in Seq(Nat) /\ Len(delivered) = Len(sent)
    <3>1. delivered \in [1 .. Len(sent) -> Nat]
      BY <1>1
    <3> QED
      <4> HIDE DEF Order, TypeOK
      <4> QED
        BY <1>1, <3>1, LenProperties
  <2>2. delivered'[t] = delivered[t] /\ delivered[t] \in Nat
    BY <1>1, <1>4, <2>1 DEF Enqueue
  <2>3. delivered[t] <= delivered'[t] /\ delivered'[t] \in Nat
    BY <2>2
  <2> QED
    BY <1>3, <1>4, <2>3, CountStays
<1>5. CASE t = Len(sent) + 1
  <2>1. t > last
    BY <1>1, <1>5
  <2>2. Burials(t) = {}
    <3>1. \A i \in DOMAIN deadStream : deadStream[i].task <= last
      BY DEF BatchesAreDelivered
    <3> QED
      BY <1>1, <1>5, <2>1, <3>1 DEF Burials
  <2>3. GivingUp(t) = {}
    <3>1. \A v \in Worker : \A d \in batch[v] : d.task <= last
      BY DEF BatchesAreDelivered
    <3> QED
      BY <1>1, <1>5, <2>1, <3>1 DEF GivingUp
  <2>4. Cardinality(Burials(t)') = 0 /\ Cardinality(GivingUp(t)') = 0
    BY <1>3, <2>2, <2>3, FS_EmptySet
  <2> QED
    BY <2>4 DEF Counted
<1> QED
  BY <1>1, <1>4, <1>5

LEMMA IdleCount ==
  ASSUME Order, NEW t \in Task, Counted(t), NEW u, GrowIdle(u) \/ UNCHANGED vars
  PROVE  Counted(t)'
<1>1. UNCHANGED <<deadStream, batch, pc, delivered>> /\ delivered[t] \in Nat
  BY DEF GrowIdle, vars, redisVars, Order, TypeOK
<1>2. Burials(t)' = Burials(t) /\ GivingUp(t)' = GivingUp(t)
  BY <1>1 DEF Burials, GivingUp, Processing
<1>3. delivered[t] <= delivered'[t] /\ delivered'[t] \in Nat
  BY <1>1
<1> QED
  BY <1>2, <1>3, CountStays

\* Every step keeps the invariant.
LEMMA StepKeeps == IInv /\ [Next]_vars => IInv'
<1> SUFFICES ASSUME IInv, [Next]_vars PROVE Order' /\ \A t \in Task' : Counted(t)'
  BY DEF IInv
<1>0. Order /\ \A t \in Task : Counted(t)
  BY DEF IInv
<1>1. ASSUME NEW n \in Node, Enqueue(n) PROVE Order' /\ \A t \in Task' : Counted(t)'
  BY <1>0, <1>1, EnqueueKeepsOrder, EnqueueCount
<1>2. CASE ~ \E n \in Node : Enqueue(n)
  <2>1. Task' = Task
    BY <1>2, ZenonT(60) DEF Task, Next, WorkerStep, Process, ReadGroup, ReadNothing, Pending,
      XClaim, Bury, SkipDone, StartNode, FailNode, WriteResult, XAck, XDel, Crash, Restart,
      GrowIdle, redisVars, vars
  <2>2. ASSUME NEW w \in Worker, ReadNothing(w) \/ Restart(w) \/ Crash(w) \/ Pending(w)
        PROVE  Order' /\ \A t \in Task : Counted(t)'
    BY <1>0, <2>2, LookKeepsOrder, PendingKeepsOrder, QuietCount
  <2>3. ASSUME NEW w \in Worker, ReadGroup(w)
        PROVE  Order' /\ \A t \in Task : Counted(t)'
    BY <1>0, <2>3, ReadGroupKeepsOrder, ReadGroupCount
  <2>4. ASSUME NEW w \in Worker, XClaim(w)
        PROVE  Order' /\ \A t \in Task : Counted(t)'
    BY <1>0, <2>4, XClaimKeepsOrder, XClaimCount
  <2>5. ASSUME NEW w \in Worker, NEW d \in batch[w], Bury(w, d)
        PROVE  Order' /\ \A t \in Task : Counted(t)'
    BY <1>0, <2>5, BuryKeepsOrder, BuryCount
  <2>6. ASSUME NEW w \in Worker, NEW d \in batch[w],
               \/ SkipDone(w, d) \/ StartNode(w, d) \/ FailNode(w, d) \/ WriteResult(w, d)
               \/ XAck(w, d) \/ XDel(w, d)
        PROVE  Order' /\ \A t \in Task : Counted(t)'
    BY <1>0, <2>6, ProcessKeepsOrder, AckKeepsOrder, ProcessCount
  <2>7. ASSUME NEW t \in DOMAIN pel, GrowIdle(t)
        PROVE  Order' /\ \A u \in Task : Counted(u)'
    BY <1>0, <2>7, IdleKeepsOrder, IdleCount
  <2>8. CASE UNCHANGED vars
    <3>1. Order'
      BY <1>0, <2>8 DEF vars, redisVars, Order, TypeOK, Task, PendingIsInStream,
        AttemptWasCounted, CountsAreKept, BatchesAreDelivered, AckedInOrder, Acked, Processing,
        Buried
    <3>2. Task' = Task
      BY <2>8 DEF vars, redisVars, Task
    <3> QED
      BY <1>0, <2>8, <3>1, <3>2, IdleCount
  <2> QED
    BY <1>2, <2>1, <2>2, <2>3, <2>4, <2>5, <2>6, <2>7, <2>8 DEF Next, WorkerStep, Process
<1> QED
  BY <1>1, <1>2

-----------------------------------------------------------------------------

\* The counting invariant bounds the burials done.
LEMMA IInvGivesQueueInv == IInv => QueueInv
<1> SUFFICES ASSUME IInv PROVE BuriedByDelivery
  BY DEF IInv, Order, QueueInv
<1> SUFFICES ASSUME NEW t \in Task, Burials(t) # {}
             PROVE  Cardinality(Burials(t)) <= delivered[t] - MaxAttempts
  BY DEF BuriedByDelivery, Burials
<1>1. /\ IsFiniteSet(Burials(t)) /\ Cardinality(Burials(t)) \in Nat
      /\ Cardinality(GivingUp(t)) \in Nat
  BY CountsAreNumbers DEF IInv
<1>2. Cardinality(Burials(t)) # 0
  BY <1>1, FS_EmptySet
<1>3. Counted(t) /\ delivered[t] \in Nat
  BY DEF IInv, Order, TypeOK
<1> DEFINE b == Cardinality(Burials(t))
           g == Cardinality(GivingUp(t))
<1>4. b + g > 0 => b + g <= delivered[t] - MaxAttempts
  BY <1>3 DEF Counted
<1> HIDE DEF b, g
<1>5. b \in Nat /\ g \in Nat /\ b # 0
  BY <1>1, <1>2 DEF b, g
<1>6. b <= delivered[t] - MaxAttempts
  BY <1>3, <1>4, <1>5
<1> QED
  BY <1>6 DEF b

\* Between any two commands: what is pending can be run, an attempt was counted
\* before it is made, and a task is buried at most once for each delivery too many.
THEOREM QueueIsSafe == Spec => []QueueInv
BY InitOrder, StepKeeps, IInvGivesQueueInv, PTL DEF Spec

\* A first state of the queue is one of the promise.
LEMMA PromiseInit == Init => Promise!Init
BY DEF Init, Promise!Init, Outstanding, Fresh, Buried

\* Every step is a step of the promise or changes nothing it speaks of.
LEMMA PromiseStep == IInv /\ [Next]_vars => [Promise!Next]_(Promise!vars)
<1> SUFFICES ASSUME IInv, [Next]_vars
             PROVE  Promise!Next \/ UNCHANGED <<sent, Outstanding, board, Buried>>
  BY DEF Promise!vars
<1> USE DEF IInv, Order, TypeOK, Task
<1>1. ASSUME NEW n \in Node, Enqueue(n) PROVE Promise!Next
  <2>1. Outstanding' = Outstanding \cup {Len(sent) + 1}
    BY <1>1 DEF Enqueue, Outstanding, Fresh
  <2>2. Promise!Send(n)
    BY <1>1, <2>1 DEF Promise!Send, Enqueue, Buried
  <2> QED
    BY <2>2 DEF Promise!Next
<1>2. ASSUME NEW w \in Worker, ReadGroup(w)
      PROVE  UNCHANGED <<sent, Outstanding, board, Buried>>
  <2> DEFINE got == Oldest(Fresh, Batch)
  <2>1. /\ got \subseteq Fresh
        /\ last' \in got
        /\ \A t \in got : t <= last'
        /\ \A t \in Fresh \ got : t > last'
    BY <1>2, ReadGroupDelivers
  <2>2. UNCHANGED <<sent, stream, board, Buried>> /\ DOMAIN pel' = DOMAIN pel \cup got
    BY <1>2 DEF ReadGroup, Buried
  <2> HIDE DEF got
  <2>3. Fresh' = Fresh \ got
    <3>1. \A t \in stream : t \in Nat
      OBVIOUS
    <3>2. last' \in Nat /\ last' > last
      BY <2>1, <3>1 DEF Fresh
    <3>3. \A t \in stream : t > last' => t > last
      BY <3>1, <3>2
    <3>4. \A t \in Fresh : t > last' <=> t \notin got
      BY <2>1, <3>1, <3>2 DEF Fresh
    <3> QED
      BY <2>2, <3>3, <3>4 DEF Fresh
  <2> QED
    BY <2>1, <2>2, <2>3 DEF Outstanding
<1>3. ASSUME NEW w \in Worker, ReadNothing(w) \/ Pending(w) \/ Crash(w) \/ Restart(w) \/ XClaim(w)
      PROVE  UNCHANGED <<sent, Outstanding, board, Buried>>
  BY <1>3 DEF ReadNothing, Pending, Crash, Restart, XClaim, redisVars, Outstanding, Fresh, Buried
<1>4. ASSUME NEW w \in Worker, NEW d \in batch[w], Bury(w, d)
      PROVE  Promise!Next
  <2>1. Buried' = Buried \cup {d.task} /\ d.task \in 1 .. Len(sent)
    BY <1>4, BuryKeepsOrder
  <2>2. Promise!Bury(d.task)
    BY <1>4, <2>1 DEF Promise!Bury, Bury, Outstanding, Fresh
  <2> QED
    BY <2>1, <2>2 DEF Promise!Next
<1>5. ASSUME NEW w \in Worker, NEW d \in batch[w], SkipDone(w, d) \/ StartNode(w, d) \/ FailNode(w, d)
      PROVE  UNCHANGED <<sent, Outstanding, board, Buried>>
  BY <1>5 DEF SkipDone, StartNode, FailNode, redisVars, Outstanding, Fresh, Buried
<1>6. ASSUME NEW w \in Worker, NEW d \in batch[w], WriteResult(w, d)
      PROVE  Promise!Next
  <2>1. sent[d.task] \in Node
    OBVIOUS
  <2>2. Promise!Complete(sent[d.task])
    BY <1>6 DEF WriteResult, redisVars, Promise!Complete, Outstanding, Fresh, Buried
  <2> QED
    BY <2>1, <2>2 DEF Promise!Next
<1>7. ASSUME NEW w \in Worker, NEW d \in batch[w], XAck(w, d)
      PROVE  Promise!Next
  <2>1. /\ UNCHANGED <<sent, stream, last, board, Buried>>
        /\ DOMAIN pel' = DOMAIN pel \ {d.task}
    BY <1>7 DEF XAck, Restrict, Buried
  <2>2. d.task \notin Fresh
    BY DEF BatchesAreDelivered, Fresh
  <2>3. Outstanding' = Outstanding \ {d.task}
    BY <2>1, <2>2 DEF Outstanding, Fresh
  <2>4. sent[d.task] \in board \/ d.task \in Buried
    BY <1>7 DEF XAck, AckedInOrder, Acked
  <2>5. Promise!Settle(d.task)
    BY <2>1, <2>3, <2>4 DEF Promise!Settle
  <2> QED
    BY <2>5 DEF Promise!Next
<1>8. ASSUME NEW w \in Worker, NEW d \in batch[w], XDel(w, d)
      PROVE  UNCHANGED <<sent, Outstanding, board, Buried>>
  BY <1>8 DEF XDel, BatchesAreDelivered, Outstanding, Fresh, Buried
<1>9. ASSUME NEW t \in DOMAIN pel, GrowIdle(t)
      PROVE  UNCHANGED <<sent, Outstanding, board, Buried>>
  BY <1>9 DEF GrowIdle, Outstanding, Fresh, Buried
<1>10. CASE UNCHANGED vars
  BY <1>10 DEF vars, redisVars, Outstanding, Fresh, Buried
<1> QED
  BY <1>1, <1>2, <1>3, <1>4, <1>5, <1>6, <1>7, <1>8, <1>9, <1>10 DEF Next, WorkerStep, Process

\* The queue on Redis, with its workers, keeps the promise of the port.
THEOREM RedisKeepsPromise == Spec => KeepsQueuePromise
BY InitOrder, StepKeeps, PromiseInit, PromiseStep, PTL DEF Spec, KeepsQueuePromise, Promise!Spec
=============================================================================
