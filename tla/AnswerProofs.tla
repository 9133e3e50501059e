----------------------------- MODULE AnswerProofs -----------------------------
(***************************************************************************)
(* What is proved of the way to an answer: a run in one process            *)
(* (LocalRun), the citations of an answer (Citations), and the search of   *)
(* its context (Search).                                                   *)
(***************************************************************************)
EXTENDS LocalRun, Citations, Search, SubsequenceProofs

Item == [id : STRING, deps : SUBSET STRING, wellFormed : BOOLEAN]
Planned == phase \notin {"plan", "order"}

\* What a plan must be, whoever made it.
Sound(nodes) ==
  /\ nodes # <<>>
  /\ \A i \in DOMAIN nodes : nodes[i].deps \subseteq Ids(nodes)
  /\ ~Cyclic(nodes)

-----------------------------------------------------------------------------
(* The inductive invariant *)

Types ==
  /\ LocalRunTypeOK
  /\ plan \in Seq(Item)
  /\ wave \in Seq(STRING)
  /\ ~Planned => plan = <<>> /\ wave = <<>> /\ board = {} /\ answer = {}
  /\ phase = "order" => next \in 1 .. Len(raw) + 1

\* Of nodes that wait for each other none is ordered, and as long as a pass has
\* ordered nothing, all it has looked at wait.
OrderInv ==
  /\ phase = "plan" => ordered = {}
  /\ phase = "order" =>
       /\ WellFormed(raw)
       /\ \A S \in SUBSET Ids(raw) :
            (\A i \in DOMAIN raw : raw[i].id \in S => raw[i].deps \cap S # {})
              => ordered \cap S = {}
       /\ ~moved => \A i \in 1 .. next - 1 :
                      raw[i].id \in ordered \/ ~(raw[i].deps \subseteq ordered)

\* The plan that is run is the one to run.
PlanInv ==
  Planned =>
    /\ Sound(plan)
    /\ IF WellFormed(raw) /\ ~Cyclic(raw) THEN plan = raw ELSE plan = Fallback

\* Results are posted before events, and both before they are counted; a wave is
\* over when all its futures are done, or, after an exception, have ended.
WaveInv ==
  /\ \A k \in DOMAIN wave : wave[k] \in Ids(plan)
  /\ \A n \in DOMAIN future :
       /\ future[n] \in {"written", "done"} => n \in board
       /\ future[n] = "done" => n \in ledger
  /\ \A k \in 1 .. waited : future[wave[k]] = "done"
  /\ phase \in {"wave", "answered"} => waited = Len(wave)
  /\ phase = "lost" => \A n \in DOMAIN future : future[n] \in {"done", "failed"}

LocalRunIInv == Types /\ OrderInv /\ PlanInv /\ WaveInv /\ AnswerIsWhole

-----------------------------------------------------------------------------
(* Plans *)

LEMMA ProposalsAreItems ==
  ASSUME raw \in Proposal
  PROVE  raw \in Seq(Item) /\ DOMAIN raw = 1 .. Len(raw) /\ Len(raw) \in Nat
BY LocalRunAssumption DEF Item

LEMMA FallbackIsSound == Fallback \in Seq(Item) /\ Sound(Fallback)
<1> DEFINE n == [id |-> First, deps |-> {}, wellFormed |-> TRUE]
<1>1. n \in Item /\ n.deps = {}
  BY LocalRunAssumption DEF Item
<1> HIDE DEF n
<1>2. Fallback = <<n>>
  BY DEF Fallback, n
<1>3. <<n>> \in Seq(Item) /\ <<n>> # <<>> /\ DOMAIN <<n>> = {1} /\ <<n>>[1] = n
  BY <1>1
<1>4. Ids(<<n>>) = {n.id}
  BY <1>3 DEF Ids
<1>5. ~Cyclic(<<n>>)
  <2>1. ASSUME NEW S \in (SUBSET Ids(<<n>>)) \ {{}}
        PROVE  <<n>>[1].id \in S /\ <<n>>[1].deps \cap S = {}
    BY <1>1, <1>3, <1>4
  <2> QED
    BY <1>3, <2>1 DEF Cyclic
<1> QED
  BY <1>1, <1>2, <1>3, <1>5 DEF Sound

\* Ids are all different when there are as many of them as nodes.
LEMMA DistinctIds ==
  ASSUME NEW nodes \in Seq(Item)
  PROVE  (Cardinality(Ids(nodes)) = Len(nodes)) <=>
           \A i \in DOMAIN nodes : \A j \in 1 .. i - 1 : nodes[j].id # nodes[i].id
<1> DEFINE N == 1 .. Len(nodes)
           f == [i \in N |-> nodes[i].id]
<1>1. Len(nodes) \in Nat /\ DOMAIN nodes = N
  OBVIOUS
<1>2. IsFiniteSet(N) /\ Cardinality(N) = Len(nodes)
  BY <1>1, CardinalityOfInterval
<1>3. f \in Surjection(N, Ids(nodes))
  BY <1>1 DEF Surjection, Ids
<1>4. (Cardinality(Ids(nodes)) = Cardinality(N)) <=> f \in Injection(N, Ids(nodes))
  BY <1>2, <1>3, FS_Surjection
<1>5. f \in Injection(N, Ids(nodes)) <=> \A i, j \in N : nodes[i].id = nodes[j].id => i = j
  BY <1>3 DEF Injection, Surjection, IsInjective
<1>6. ASSUME \A i \in N : \A j \in 1 .. i - 1 : nodes[j].id # nodes[i].id,
             NEW i \in N, NEW j \in N, nodes[i].id = nodes[j].id
      PROVE  i = j
  <2>1. i \in Nat /\ j \in Nat /\ ~(i < j) /\ ~(j < i)
    BY <1>1, <1>6
  <2> QED
    BY <2>1
<1>7. ASSUME \A i, j \in N : nodes[i].id = nodes[j].id => i = j,
             NEW i \in N, NEW j \in 1 .. i - 1
      PROVE  nodes[j].id # nodes[i].id
  <2>1. j \in N /\ j # i
    BY <1>1
  <2> QED
    BY <1>7, <2>1
<1> QED
  BY <1>1, <1>2, <1>4, <1>5, <1>6, <1>7

\* Nodes not in a set that is closed against them wait for each other.
LEMMA RestIsCyclic ==
  ASSUME NEW nodes \in Seq(Item), NEW counted \in SUBSET Ids(nodes), counted # Ids(nodes),
         \A i \in DOMAIN nodes : nodes[i].deps \subseteq Ids(nodes),
         \A i \in DOMAIN nodes :
           nodes[i].id \in counted \/ ~(nodes[i].deps \subseteq counted)
  PROVE  Cyclic(nodes)
<1> DEFINE S == Ids(nodes) \ counted
<1>1. S \in SUBSET Ids(nodes) /\ S # {}
  OBVIOUS
<1>2. ASSUME NEW i \in DOMAIN nodes, nodes[i].id \in S PROVE nodes[i].deps \cap S # {}
  BY <1>2
<1> QED
  BY <1>1, <1>2 DEF Cyclic

-----------------------------------------------------------------------------
(* Waves *)

LEMMA WaveOf ==
  ASSUME plan \in Seq(Item)
  PROVE  /\ Ready \in Seq(Item)
         /\ Ids(Ready) = {n \in Ids(plan) :
              \E i \in DOMAIN plan :
                plan[i].id = n /\ n \notin done /\ plan[i].deps \subseteq done}
         /\ Ready = <<>> => \A i \in DOMAIN plan :
              plan[i].id \in done \/ ~(plan[i].deps \subseteq done)
<1> DEFINE J == {i \in DOMAIN plan : plan[i].id \notin done /\ plan[i].deps \subseteq done}
           p == Picked(plan, J)
<1>1. J \in SUBSET DOMAIN plan
  OBVIOUS
<1>2. Ready = p
  BY DEF Ready
<1> HIDE DEF J
<1>3. p \in Seq(Item) /\ Len(p) = Cardinality(J) /\ IsFiniteSet(J)
  BY <1>1, PickedIsSeq
<1>4. {p[i] : i \in DOMAIN p} = {plan[k] : k \in J}
  BY <1>1, PickedRange
<1> HIDE DEF p
<1>5. Ids(p) = {plan[k].id : k \in J}
  <2>1. ASSUME NEW i \in DOMAIN p PROVE \E k \in J : p[i].id = plan[k].id
    BY <1>4
  <2>2. ASSUME NEW k \in J PROVE \E i \in DOMAIN p : p[i].id = plan[k].id
    BY <1>4
  <2> QED
    BY <2>1, <2>2 DEF Ids
<1>6. ASSUME p = <<>> PROVE J = {}
  BY <1>3, <1>6, FS_EmptySet
<1> QED
  BY ZenonT(40), <1>2, <1>3, <1>5, <1>6 DEF J, Ids

-----------------------------------------------------------------------------
(* The invariant holds, and stays *)

LEMMA LocalRunInitEstablishes == LocalRunInit => LocalRunIInv
<1> SUFFICES ASSUME LocalRunInit PROVE LocalRunIInv
  OBVIOUS
<1> USE DEF LocalRunInit
<1>1. Types
  <2>1. future \in [ToSet(wave) -> {"queued", "running", "written", "done", "failed"}]
    BY DEF ToSet
  <2>2. plan \in Seq(Item) /\ wave \in Seq(STRING) /\ waited \in 0 .. Len(wave)
    OBVIOUS
  <2>3. raw \in Proposal /\ ordered \subseteq Ids(raw) /\ next \in 0 .. Len(raw) + 1
    BY ProposalsAreItems
  <2>4. board \cup answer \subseteq Ids(plan) /\ ledger \subseteq board
    OBVIOUS
  <2> QED
    BY <2>1, <2>2, <2>3, <2>4 DEF Types, LocalRunTypeOK, Planned
<1>2. OrderInv /\ PlanInv /\ WaveInv /\ AnswerIsWhole
  BY DEF OrderInv, PlanInv, WaveInv, AnswerIsWhole, Planned, Ids
<1> QED
  BY <1>1, <1>2 DEF LocalRunIInv

\* A step of the planner that leaves a plan.
LEMMA PlanIsMade ==
  ASSUME LocalRunIInv, ~Planned, phase' = "wave", UNCHANGED <<raw, runVars>>,
         UNCHANGED orderVars,
         plan' \in Seq(Item), Sound(plan'),
         IF WellFormed(raw) /\ ~Cyclic(raw) THEN plan' = raw ELSE plan' = Fallback
  PROVE  LocalRunIInv'
<1> USE DEF runVars, orderVars
<1>1. /\ wave = <<>> /\ board = {} /\ answer = {} /\ waited = 0 /\ DOMAIN future = {}
      /\ done = {} /\ ledger = {}
  <2>1. wave = <<>> /\ board = {} /\ answer = {}
    BY DEF LocalRunIInv, Types
  <2>2. /\ waited \in 0 .. Len(wave)
        /\ future \in [ToSet(wave) -> {"queued", "running", "written", "done", "failed"}]
    BY DEF LocalRunIInv, Types, LocalRunTypeOK
  <2>3. Len(<<>>) = 0 /\ ToSet(<<>>) = {}
    BY DEF ToSet
  <2>4. waited = 0 /\ DOMAIN future = {}
    <3>1. waited \in 0 .. 0
      BY <2>1, <2>2, <2>3
    <3>2. DOMAIN future = ToSet(wave)
      BY <2>2
    <3> QED
      BY <2>1, <2>3, <3>1, <3>2
  <2> QED
    BY <2>1, <2>4 DEF LocalRunIInv, Types, LocalRunTypeOK
<1>2. Types'
  BY <1>1 DEF LocalRunIInv, Types, LocalRunTypeOK, Planned, Ids
<1>3. OrderInv' /\ AnswerIsWhole'
  BY DEF OrderInv, AnswerIsWhole
<1>4. PlanInv'
  <2>1. WellFormed(raw)' = WellFormed(raw) /\ Cyclic(raw)' = Cyclic(raw)
    BY DEF WellFormed, Cyclic, Ids
  <2>2. Sound(plan)' /\ Planned'
    BY DEF Sound, Cyclic, Ids, Planned
  <2>3. Fallback' = Fallback
    BY DEF Fallback
  <2> QED
    BY <2>1, <2>2, <2>3 DEF PlanInv
<1>5. WaveInv'
  BY <1>1 DEF WaveInv
<1> QED
  BY <1>2, <1>3, <1>4, <1>5 DEF LocalRunIInv

LEMMA ParseKeeps == LocalRunIInv /\ Parse => LocalRunIInv'
<1> SUFFICES ASSUME LocalRunIInv, Parse PROVE LocalRunIInv'
  OBVIOUS
<1>0. raw \in Seq(Item) /\ DOMAIN raw = 1 .. Len(raw) /\ Len(raw) \in Nat
  BY ProposalsAreItems DEF LocalRunIInv, Types, LocalRunTypeOK
<1>1. CASE ~WellFormed(raw)
  <2>1. /\ plan' = Fallback /\ phase' = "wave" /\ ~Planned
        /\ UNCHANGED <<raw, runVars>> /\ UNCHANGED orderVars
    BY <1>1 DEF Parse, Planned, orderVars
  <2> QED
    BY <1>1, <2>1, FallbackIsSound, PlanIsMade
<1>2. CASE WellFormed(raw)
  <2>1. /\ phase = "plan" /\ phase' = "order" /\ next' = 1
        /\ UNCHANGED <<raw, plan, ordered, moved, runVars>>
    BY <1>2 DEF Parse
  <2>2. ordered = {}
    BY <2>1 DEF LocalRunIInv, OrderInv
  <2>3. Types'
    BY <1>0, <2>1, <2>2 DEF LocalRunIInv, Types, LocalRunTypeOK, Planned, Ids, runVars
  <2>4. OrderInv'
    BY <1>2, <2>1, <2>2 DEF OrderInv, WellFormed, Ids
  <2>5. PlanInv' /\ AnswerIsWhole'
    BY <2>1 DEF PlanInv, Planned, AnswerIsWhole
  <2>6. WaveInv'
    BY <2>1 DEF LocalRunIInv, WaveInv, Ids, runVars
  <2> QED
    BY <2>3, <2>4, <2>5, <2>6 DEF LocalRunIInv
<1> QED
  BY <1>1, <1>2

\* Steps of the planner within its passes.
LEMMA PassKeeps ==
  ASSUME LocalRunIInv, phase = "order", UNCHANGED <<raw, plan, phase, runVars>>,
         ordered' \subseteq Ids(raw), next' \in 1 .. Len(raw) + 1, moved' \in BOOLEAN,
         OrderInv'
  PROVE  LocalRunIInv'
<1> USE DEF runVars
<1>1. Types'
  BY ProposalsAreItems DEF LocalRunIInv, Types, LocalRunTypeOK, Planned, Ids
<1>2. PlanInv' /\ AnswerIsWhole'
  BY DEF PlanInv, Planned, AnswerIsWhole
<1>3. WaveInv'
  BY DEF LocalRunIInv, WaveInv, Ids
<1> QED
  BY <1>1, <1>2, <1>3 DEF LocalRunIInv

LEMMA ConsiderKeeps == LocalRunIInv /\ Consider => LocalRunIInv'
<1> SUFFICES ASSUME LocalRunIInv, Consider PROVE LocalRunIInv'
  OBVIOUS
<1> DEFINE n == raw[next]
<1>0. /\ raw \in Seq(Item) /\ DOMAIN raw = 1 .. Len(raw) /\ Len(raw) \in Nat
      /\ ordered \subseteq Ids(raw) /\ moved \in BOOLEAN
  BY ProposalsAreItems DEF LocalRunIInv, Types, LocalRunTypeOK
<1>1. /\ phase = "order" /\ phase' = "order" /\ next \in DOMAIN raw /\ next' = next + 1
      /\ UNCHANGED <<raw, plan, phase, runVars>>
      /\ \/ n.deps \subseteq ordered /\ ordered' = ordered \cup {n.id} /\ moved' = TRUE
         \/ /\ n.id \in ordered \/ ~(n.deps \subseteq ordered)
            /\ UNCHANGED <<ordered, moved>>
  BY DEF Consider
<1>2. /\ WellFormed(raw)
      /\ \A S \in SUBSET Ids(raw) :
           (\A i \in DOMAIN raw : raw[i].id \in S => raw[i].deps \cap S # {})
             => ordered \cap S = {}
      /\ ~moved => \A i \in 1 .. next - 1 :
                     raw[i].id \in ordered \/ ~(raw[i].deps \subseteq ordered)
  BY <1>1 DEF LocalRunIInv, OrderInv
<1>3. ordered' \subseteq Ids(raw) /\ next' \in 1 .. Len(raw) + 1 /\ moved' \in BOOLEAN
  <2>1. n.id \in Ids(raw)
    BY <1>1 DEF Ids
  <2>2. next' \in 1 .. Len(raw) + 1
    BY <1>0, <1>1
  <2> HIDE DEF n
  <2> QED
    BY <1>0, <1>1, <2>1, <2>2
<1>4. WellFormed(raw)'
  BY <1>1, <1>2 DEF WellFormed, Ids
<1>5. ASSUME NEW S \in SUBSET Ids(raw),
             \A i \in DOMAIN raw : raw[i].id \in S => raw[i].deps \cap S # {}
      PROVE  ordered' \cap S = {}
  <2>1. ordered \cap S = {}
    BY <1>2, <1>5
  <2>2. n.deps \subseteq ordered => n.id \notin S
    BY <1>1, <1>5, <2>1
  <2> QED
    BY <1>1, <2>1, <2>2
<1>6. ASSUME ~moved', NEW i \in 1 .. next' - 1
      PROVE  raw[i].id \in ordered' \/ ~(raw[i].deps \subseteq ordered')
  <2>1. /\ UNCHANGED <<ordered, moved>> /\ ~moved
        /\ n.id \in ordered \/ ~(n.deps \subseteq ordered)
    BY <1>1, <1>6
  <2>2. i \in 1 .. next - 1 \/ i = next
    BY <1>0, <1>1
  <2> QED
    BY <1>2, <2>1, <2>2
<1> HIDE DEF n
<1>7. OrderInv'
  BY <1>1, <1>4, <1>5, <1>6 DEF OrderInv, Ids
<1> QED
  BY <1>1, <1>3, <1>7, PassKeeps

LEMMA NextPassKeeps == LocalRunIInv /\ NextPass => LocalRunIInv'
<1> SUFFICES ASSUME LocalRunIInv, NextPass PROVE LocalRunIInv'
  OBVIOUS
<1>1. /\ phase = "order" /\ phase' = "order" /\ next' = 1 /\ moved' = FALSE
      /\ UNCHANGED <<raw, plan, phase, runVars>> /\ UNCHANGED ordered
      /\ ordered \subseteq Ids(raw) /\ next' \in 1 .. Len(raw) + 1
  BY ProposalsAreItems DEF NextPass, PassOver, LocalRunIInv, Types, LocalRunTypeOK
<1>2. OrderInv'
  BY <1>1 DEF LocalRunIInv, OrderInv, WellFormed, Ids
<1> QED
  BY <1>1, <1>2, PassKeeps

LEMMA MakePlanKeeps == LocalRunIInv /\ MakePlan => LocalRunIInv'
<1> SUFFICES ASSUME LocalRunIInv, MakePlan PROVE LocalRunIInv'
  OBVIOUS
<1>0. /\ raw \in Seq(Item) /\ DOMAIN raw = 1 .. Len(raw) /\ Len(raw) \in Nat
      /\ ordered \in SUBSET Ids(raw)
  BY ProposalsAreItems DEF LocalRunIInv, Types, LocalRunTypeOK
<1>1. /\ phase = "order" /\ ~Planned /\ next > Len(raw) /\ phase' = "wave"
      /\ ordered = Ids(raw) \/ ~moved
      /\ plan' = IF ordered = Ids(raw) THEN raw ELSE Fallback
      /\ UNCHANGED <<raw, runVars>> /\ UNCHANGED orderVars
  BY DEF MakePlan, PassOver, Planned, orderVars
<1>2. /\ WellFormed(raw)
      /\ \A S \in SUBSET Ids(raw) :
           (\A i \in DOMAIN raw : raw[i].id \in S => raw[i].deps \cap S # {})
             => ordered \cap S = {}
      /\ ~moved => \A i \in 1 .. next - 1 :
                     raw[i].id \in ordered \/ ~(raw[i].deps \subseteq ordered)
  BY <1>1 DEF LocalRunIInv, OrderInv
<1>3. CASE ordered = Ids(raw)
  <2>1. ~Cyclic(raw)
    BY <1>2, <1>3 DEF Cyclic
  <2>2. Sound(raw)
    BY <1>2, <2>1 DEF Sound, WellFormed
  <2> QED
    BY <1>0, <1>1, <1>2, <1>3, <2>1, <2>2, PlanIsMade
<1>4. CASE ordered # Ids(raw)
  <2>1. \A i \in DOMAIN raw : raw[i].id \in ordered \/ ~(raw[i].deps \subseteq ordered)
    <3>1. next = Len(raw) + 1
      BY <1>0, <1>1 DEF LocalRunIInv, Types
    <3> QED
      BY <1>0, <1>1, <1>2, <1>4, <3>1
  <2>2. Cyclic(raw)
    BY <1>0, <1>2, <1>4, <2>1, RestIsCyclic DEF WellFormed
  <2> QED
    BY <1>1, <1>4, <2>2, FallbackIsSound, PlanIsMade
<1> QED
  BY <1>3, <1>4

-----------------------------------------------------------------------------
(* Waves *)

\* What run() and its threads leave as it is.
LEMMA RunLeavesPlan ==
  ASSUME LocalRunIInv, Planned, Planned', UNCHANGED <<raw, plan, orderVars>>
  PROVE  OrderInv' /\ PlanInv'
<1> USE DEF orderVars
<1>1. OrderInv'
  BY DEF OrderInv, Planned
<1>2. /\ WellFormed(raw)' = WellFormed(raw) /\ Cyclic(raw)' = Cyclic(raw)
      /\ Sound(plan)' = Sound(plan) /\ Fallback' = Fallback
  BY DEF WellFormed, Cyclic, Sound, Ids, Fallback
<1> QED
  BY <1>1, <1>2 DEF LocalRunIInv, PlanInv

LEMMA StartWaveKeeps == LocalRunIInv /\ StartWave => LocalRunIInv'
<1> SUFFICES ASSUME LocalRunIInv, StartWave PROVE LocalRunIInv'
  OBVIOUS
<1> USE DEF orderVars
<1>1. /\ wave' = [i \in DOMAIN Ready |-> Ready[i].id]
      /\ future' = [n \in Ids(Ready) |-> "queued"]
      /\ waited' = 0 /\ phase' = "wait" /\ Planned /\ Planned'
      /\ UNCHANGED <<raw, plan, orderVars, done, board, ledger, answer>>
  BY DEF StartWave, Planned
<1>2. Ready \in Seq(Item) /\ Ids(Ready) \subseteq Ids(plan)
  BY WaveOf DEF LocalRunIInv, Types
<1>3. OrderInv' /\ PlanInv'
  BY <1>1, RunLeavesPlan
<1> DEFINE R == Ready
<1> HIDE DEF R
<1>4. /\ R \in Seq(Item) /\ Ids(R) \subseteq Ids(plan)
      /\ wave' = [i \in DOMAIN R |-> R[i].id]
      /\ future' = [n \in Ids(R) |-> "queued"]
  BY <1>1, <1>2 DEF R
<1>5. /\ DOMAIN wave' = 1 .. Len(R) /\ Len(R) \in Nat /\ wave' \in Seq(STRING)
      /\ Len(wave') = Len(R)
  <2>1. \A i \in 1 .. Len(R) : R[i].id \in STRING
    <3>1. \A i \in 1 .. Len(R) : R[i] \in Item
      BY <1>4
    <3> QED
      BY <3>1 DEF Item
  <2>2. DOMAIN R = 1 .. Len(R) /\ Len(R) \in Nat
    BY <1>4
  <2> QED
    BY <1>4, <2>1, <2>2
<1>6. ToSet(wave') = Ids(R)
  BY <1>4, <1>5 DEF ToSet, Ids
<1>7. Types'
  BY <1>1, <1>4, <1>5, <1>6 DEF LocalRunIInv, Types, LocalRunTypeOK, Planned, Ids, ToSet
<1>8. WaveInv'
  <2>1. \A k \in DOMAIN wave' : wave'[k] \in Ids(plan)
    BY <1>4, <1>5 DEF Ids
  <2>2. \A n \in DOMAIN future' : future'[n] = "queued"
    BY <1>4
  <2>3. 1 .. waited' = {}
    BY <1>1
  <2> QED
    BY <1>1, <2>1, <2>2, <2>3 DEF WaveInv, Ids
<1>9. AnswerIsWhole'
  BY <1>1 DEF AnswerIsWhole
<1> QED
  BY <1>3, <1>7, <1>8, <1>9 DEF LocalRunIInv

\* What holds of the wave while it runs.
LEMMA WaveShape ==
  ASSUME LocalRunIInv
  PROVE  /\ wave \in Seq(STRING) /\ DOMAIN wave = 1 .. Len(wave) /\ Len(wave) \in Nat
         /\ waited \in Nat /\ waited <= Len(wave)
         /\ DOMAIN future = ToSet(wave)
         /\ \A n \in DOMAIN future :
              future[n] \in {"queued", "running", "written", "done", "failed"}
         /\ \A k \in 1 .. Len(wave) : wave[k] \in DOMAIN future
         /\ DOMAIN future \subseteq Ids(plan)
<1>1. /\ wave \in Seq(STRING) /\ waited \in 0 .. Len(wave)
      /\ future \in [ToSet(wave) -> {"queued", "running", "written", "done", "failed"}]
      /\ \A k \in DOMAIN wave : wave[k] \in Ids(plan)
  BY DEF LocalRunIInv, Types, LocalRunTypeOK, WaveInv
<1> QED
  BY <1>1 DEF ToSet

LEMMA WaitKeeps == LocalRunIInv /\ Wait => LocalRunIInv'
<1> SUFFICES ASSUME LocalRunIInv, Wait PROVE LocalRunIInv'
  OBVIOUS
<1> DEFINE n == wave[waited + 1]
<1>1. /\ phase = "wait" /\ Planned /\ Planned' /\ waited < Len(wave)
      /\ UNCHANGED <<raw, plan, orderVars>> /\ UNCHANGED <<wave, future, board, ledger, answer>>
      /\ \/ /\ future[n] = "done" /\ done' = done \cup {n} /\ waited' = waited + 1
            /\ phase' = phase
         \/ phase' = "unwind" /\ UNCHANGED <<done, waited>>
  BY DEF Wait, Planned
<1>2. n \in DOMAIN future /\ waited + 1 \in DOMAIN wave
  BY <1>1, WaveShape
<1>3. OrderInv' /\ PlanInv'
  BY <1>1, RunLeavesPlan
<1>4. Types'
  <2>1. future[n] = "done" => n \in board /\ n \in ledger
    BY <1>2 DEF LocalRunIInv, WaveInv
  <2>2. done' \subseteq board \cap ledger /\ waited' \in 0 .. Len(wave)
    BY <1>1, <2>1, WaveShape DEF LocalRunIInv, Types, LocalRunTypeOK
  <2>3. phase' \in {"wait", "unwind"}
    BY <1>1
  <2> HIDE DEF n
  <2> QED
    BY <1>1, <2>2, <2>3
       DEF LocalRunIInv, Types, LocalRunTypeOK, Planned, Ids, ToSet, orderVars
<1>5. WaveInv'
  <2>1. \A k \in 1 .. waited' : future[wave[k]] = "done"
    <3> SUFFICES ASSUME NEW k \in 1 .. waited' PROVE future[wave[k]] = "done"
      OBVIOUS
    <3>1. k \in 1 .. waited \/ (k = waited + 1 /\ future[n] = "done")
      BY <1>1, WaveShape
    <3> QED
      BY <3>1 DEF LocalRunIInv, WaveInv
  <2> HIDE DEF n
  <2> QED
    BY <1>1, <2>1 DEF LocalRunIInv, WaveInv, Ids
<1>6. AnswerIsWhole'
  BY <1>1 DEF AnswerIsWhole
<1> QED
  BY <1>3, <1>4, <1>5, <1>6 DEF LocalRunIInv

LEMMA WaveEndKeeps == LocalRunIInv /\ (WaveDone \/ Unwind) => LocalRunIInv'
<1> SUFFICES ASSUME LocalRunIInv, WaveDone \/ Unwind PROVE LocalRunIInv'
  OBVIOUS
<1>1. /\ Planned /\ Planned' /\ UNCHANGED <<raw, plan, orderVars>> /\ UNCHANGED runVars
      /\ \/ phase' = "wave" /\ waited = Len(wave)
         \/ phase' = "lost" /\ \A n \in ToSet(wave) : future[n] \in {"done", "failed"}
  BY DEF WaveDone, Unwind, Planned, runVars
<1>2. OrderInv' /\ PlanInv'
  BY <1>1, RunLeavesPlan
<1>3. Types'
  BY <1>1 DEF LocalRunIInv, Types, LocalRunTypeOK, Planned, Ids, ToSet, orderVars, runVars
<1>4. WaveInv'
  BY <1>1, WaveShape DEF LocalRunIInv, WaveInv, Ids, runVars
<1>5. AnswerIsWhole'
  BY <1>1 DEF AnswerIsWhole
<1> QED
  BY <1>2, <1>3, <1>4, <1>5 DEF LocalRunIInv

\* When no wave is left every node is done: the others would wait for each other.
LEMMA CollectKeeps == LocalRunIInv /\ Collect => LocalRunIInv'
<1> SUFFICES ASSUME LocalRunIInv, Collect PROVE LocalRunIInv'
  OBVIOUS
<1>1. /\ phase = "wave" /\ phase' = "answered" /\ Planned /\ Planned' /\ Ready = <<>>
      /\ answer' = board /\ UNCHANGED <<raw, plan, orderVars>>
      /\ UNCHANGED <<wave, waited, future, done, board, ledger>>
  BY DEF Collect, Planned
<1>2. /\ plan \in Seq(Item) /\ done \subseteq board /\ board \subseteq Ids(plan)
  BY DEF LocalRunIInv, Types, LocalRunTypeOK
<1>3. Sound(plan)
  BY <1>1 DEF LocalRunIInv, PlanInv
<1>4. done = Ids(plan)
  <2> SUFFICES ASSUME done # Ids(plan) PROVE FALSE
    OBVIOUS
  <2>1. \A i \in DOMAIN plan : plan[i].id \in done \/ ~(plan[i].deps \subseteq done)
    BY <1>1, <1>2, WaveOf
  <2>2. done \in SUBSET Ids(plan)
    BY <1>2
  <2>3. Cyclic(plan)
    BY <1>2, <1>3, <2>1, <2>2, RestIsCyclic DEF Sound
  <2> QED
    BY <1>3, <2>3 DEF Sound
<1>5. OrderInv' /\ PlanInv'
  BY <1>1, RunLeavesPlan
<1>6. AnswerIsWhole'
  BY <1>1, <1>2, <1>4 DEF AnswerIsWhole, Ids
<1>7. Types'
  BY <1>1, <1>2 DEF LocalRunIInv, Types, LocalRunTypeOK, Planned, Ids, ToSet, orderVars
<1>8. WaveInv'
  BY <1>1 DEF LocalRunIInv, WaveInv, Ids
<1> QED
  BY <1>5, <1>6, <1>7, <1>8 DEF LocalRunIInv

\* A thread of the pool, at any of its steps.
LEMMA NodeKeeps ==
  ASSUME LocalRunIInv, NEW n \in DOMAIN future,
         RunNode(n) \/ Post(n) \/ Log(n) \/ Raises(n)
  PROVE  LocalRunIInv' /\ ~Over
<1>1. PICK s \in {"running", "written", "done", "failed"} :
        /\ future[n] \notin {"done", "failed"}
        /\ future' = [future EXCEPT ![n] = s]
        /\ UNCHANGED <<raw, plan, phase, orderVars, wave, waited, done, answer>>
        /\ board \subseteq board' /\ board' \subseteq board \cup {n}
        /\ ledger \subseteq ledger' /\ ledger' \subseteq board'
        /\ s \in {"written", "done"} => n \in board'
        /\ s = "done" => n \in ledger'
  <2>1. ledger \subseteq board /\ (future[n] \in {"written", "done"} => n \in board)
    BY DEF LocalRunIInv, Types, LocalRunTypeOK, WaveInv
  <2>2. CASE RunNode(n)
    BY <2>1, <2>2 DEF RunNode, Goes
  <2>3. CASE Post(n)
    BY <2>1, <2>3 DEF Post, Goes
  <2>4. CASE Log(n)
    BY <2>1, <2>4 DEF Log, Goes
  <2>5. CASE Raises(n)
    BY <2>1, <2>5 DEF Raises, Goes
  <2> QED
    BY <2>2, <2>3, <2>4, <2>5
<1>2. phase \in {"wait", "unwind"}
  <2>1. waited = Len(wave) => \A m \in DOMAIN future : future[m] = "done"
    BY WaveShape DEF LocalRunIInv, WaveInv, ToSet
  <2>2. ~Planned => DOMAIN future = {}
    BY WaveShape DEF LocalRunIInv, Types, ToSet
  <2> QED
    BY <1>1, <2>1, <2>2 DEF LocalRunIInv, Types, LocalRunTypeOK, WaveInv, Planned
<1>3. OrderInv' /\ PlanInv'
  BY <1>1, <1>2, RunLeavesPlan DEF Planned
<1>4. Types'
  <2>1. n \in Ids(plan)
    BY WaveShape
  <2>2. future' \in [ToSet(wave) -> {"queued", "running", "written", "done", "failed"}]
    BY <1>1 DEF LocalRunIInv, Types, LocalRunTypeOK
  <2> QED
    BY <1>1, <1>2, <2>1, <2>2
       DEF LocalRunIInv, Types, LocalRunTypeOK, Planned, Ids, ToSet, orderVars
<1>5. WaveInv'
  <2>1. /\ DOMAIN future' = DOMAIN future /\ future'[n] = s
        /\ \A m \in DOMAIN future : m # n => future'[m] = future[m]
    BY <1>1, WaveShape
  <2>2. \A k \in 1 .. waited : wave[k] \in DOMAIN future /\ wave[k] # n
    BY <1>1, WaveShape DEF LocalRunIInv, WaveInv
  <2>3. \A m \in DOMAIN future' :
          /\ future'[m] \in {"written", "done"} => m \in board'
          /\ future'[m] = "done" => m \in ledger'
    BY <1>1, <2>1 DEF LocalRunIInv, WaveInv
  <2> QED
    BY <1>1, <1>2, <2>1, <2>2, <2>3 DEF LocalRunIInv, WaveInv, Ids
<1>6. AnswerIsWhole' /\ ~Over
  BY <1>1, <1>2 DEF AnswerIsWhole, Over
<1> QED
  BY <1>3, <1>4, <1>5, <1>6 DEF LocalRunIInv

-----------------------------------------------------------------------------
(* The theorems *)

LEMMA LocalRunStepKeeps == LocalRunIInv /\ [LocalRunNext]_localVars => LocalRunIInv'
<1> SUFFICES ASSUME LocalRunIInv, [LocalRunNext]_localVars PROVE LocalRunIInv'
  OBVIOUS
<1>1. CASE Parse \/ Consider \/ NextPass \/ MakePlan
  BY <1>1, ParseKeeps, ConsiderKeeps, NextPassKeeps, MakePlanKeeps
<1>2. CASE StartWave \/ Wait \/ WaveDone \/ Unwind \/ Collect
  BY <1>2, StartWaveKeeps, WaitKeeps, WaveEndKeeps, CollectKeeps
<1>3. CASE \E n \in DOMAIN future : RunNode(n) \/ Post(n) \/ Log(n) \/ Raises(n)
  BY <1>3, NodeKeeps
<1>4. CASE UNCHANGED localVars
  <2> USE <1>4 DEF localVars, orderVars, runVars
  <2>1. Types'
    BY DEF LocalRunIInv, Types, LocalRunTypeOK, Planned, Ids, ToSet
  <2>2. OrderInv'
    BY DEF LocalRunIInv, OrderInv, WellFormed, Ids
  <2>3. PlanInv'
    <3>1. /\ WellFormed(raw)' = WellFormed(raw) /\ Cyclic(raw)' = Cyclic(raw)
          /\ Sound(plan)' = Sound(plan) /\ Fallback' = Fallback
      BY DEF WellFormed, Cyclic, Sound, Ids, Fallback
    <3> QED
      BY <3>1 DEF LocalRunIInv, PlanInv, Planned
  <2>4. WaveInv' /\ AnswerIsWhole'
    BY DEF LocalRunIInv, WaveInv, AnswerIsWhole, Ids
  <2> QED
    BY <2>1, <2>2, <2>3, <2>4 DEF LocalRunIInv
<1> QED
  BY <1>1, <1>2, <1>3, <1>4 DEF LocalRunNext, Ended

LEMMA LocalRunInvFollows == LocalRunIInv => LocalRunInv
<1> SUFFICES ASSUME LocalRunIInv PROVE KeptIffSound
  BY DEF LocalRunIInv, LocalRunInv, Types
<1>1. /\ raw \in Seq(Item) /\ DOMAIN raw = 1 .. Len(raw)
  BY ProposalsAreItems DEF LocalRunIInv, Types, LocalRunTypeOK
<1>2. WellFormed(raw) <=>
        /\ raw # <<>>
        /\ \A i \in DOMAIN raw : raw[i].wellFormed /\ raw[i].deps \subseteq Ids(raw)
        /\ Cardinality(Ids(raw)) = Len(raw)
  BY <1>1, DistinctIds DEF WellFormed
<1>3. plan # <<>> => Planned
  BY DEF LocalRunIInv, Types
<1>4. Planned => IF WellFormed(raw) /\ ~Cyclic(raw) THEN plan = raw ELSE plan = Fallback
  BY DEF LocalRunIInv, PlanInv
<1> QED
  BY <1>2, <1>3, <1>4 DEF KeptIffSound

\* The plan that is run is the proposal exactly if that is sound, and an answer is made
\* from the results of every node: whatever a model proposes, however the threads of
\* the pool are scheduled, and whichever node raises.
THEOREM LocalRunIsSafe == LocalRunSpec => []LocalRunInv
<1>1. LocalRunInit => LocalRunIInv
  BY LocalRunInitEstablishes
<1>2. LocalRunIInv /\ [LocalRunNext]_localVars => LocalRunIInv'
  BY LocalRunStepKeeps
<1>3. LocalRunIInv => LocalRunInv
  BY LocalRunInvFollows
<1> QED
  BY <1>1, <1>2, <1>3, PTL DEF LocalRunSpec

\* Once the caller has its answer, or the exception, no thread of the run posts a
\* result or an event.
THEOREM NothingRunsOn == LocalRunSpec => OverIsOver
<1>1. LocalRunInit => LocalRunIInv
  BY LocalRunInitEstablishes
<1>2. LocalRunIInv /\ [LocalRunNext]_localVars => LocalRunIInv'
  BY LocalRunStepKeeps
<1>3. LocalRunIInv /\ [LocalRunNext]_localVars
        => [Over => UNCHANGED <<board, ledger>>]_localVars
  <2> SUFFICES ASSUME LocalRunIInv, LocalRunNext, Over PROVE UNCHANGED <<board, ledger>>
    OBVIOUS
  <2>1. ~\E n \in DOMAIN future : RunNode(n) \/ Post(n) \/ Log(n) \/ Raises(n)
    BY NodeKeeps
  <2>2. phase \in {"answered", "lost"}
    BY DEF Over
  <2> QED
    BY <2>1, <2>2
       DEF LocalRunNext, Ended, Parse, Consider, NextPass, MakePlan, PassOver, StartWave, Wait,
           WaveDone, Unwind, Collect, localVars, runVars
<1> QED
  BY <1>1, <1>2, <1>3, PTL DEF LocalRunSpec, OverIsOver

-----------------------------------------------------------------------------
(* The run implements RunPromise *)

\* No two nodes of a plan have the same id.
LEMMA PlanIsDistinct ==
  ASSUME LocalRunIInv
  PROVE  \A i, j \in DOMAIN plan : plan[i].id = plan[j].id => i = j
<1>1. CASE ~Planned
  BY <1>1 DEF LocalRunIInv, Types
<1>2. CASE plan = Fallback
  BY <1>2 DEF Fallback
<1>3. CASE plan = raw /\ WellFormed(raw)
  <2>1. raw \in Seq(Item) /\ DOMAIN raw = 1 .. Len(raw) /\ Len(raw) \in Nat
    BY ProposalsAreItems DEF LocalRunIInv, Types, LocalRunTypeOK
  <2>2. \A i \in DOMAIN raw : \A j \in 1 .. i - 1 : raw[j].id # raw[i].id
    BY <1>3 DEF WellFormed
  <2>3. ASSUME NEW i \in DOMAIN raw, NEW j \in DOMAIN raw, raw[i].id = raw[j].id
        PROVE  ~(i < j)
    <3>1. ASSUME i < j PROVE i \in 1 .. j - 1
      BY <2>1, <3>1
    <3> QED
      BY <2>2, <2>3, <3>1
  <2>4. ASSUME NEW i \in DOMAIN raw, NEW j \in DOMAIN raw, raw[i].id = raw[j].id
        PROVE  i = j
    <3>1. ~(i < j) /\ ~(j < i)
      BY <2>3, <2>4
    <3> QED
      BY <2>1, <3>1
  <2> QED
    BY <1>3, <2>4
<1> QED
  BY <1>1, <1>2, <1>3 DEF LocalRunIInv, PlanInv

\* What the nodes of a wave wait for has been counted, when the wave starts and after.
WaveCanRun ==
  \A n \in DOMAIN future : \A i \in DOMAIN plan : plan[i].id = n => plan[i].deps \subseteq done

LEMMA WaveCanRunInit == LocalRunInit => WaveCanRun
BY DEF LocalRunInit, WaveCanRun

LEMMA WaveCanRunStep ==
  ASSUME LocalRunIInv, WaveCanRun, [LocalRunNext]_localVars
  PROVE  WaveCanRun'
<1> USE DEF orderVars, runVars
<1>1. CASE Parse \/ Consider \/ NextPass \/ MakePlan
  <2>1. future' = future /\ ~Planned
    BY <1>1 DEF Parse, Consider, NextPass, MakePlan, PassOver, Planned
  <2>2. DOMAIN future = {}
    <3>1. wave = <<>> /\ DOMAIN future = ToSet(wave)
      BY <2>1, WaveShape DEF LocalRunIInv, Types
    <3> QED
      BY <3>1 DEF ToSet
  <2> QED
    BY <2>1, <2>2 DEF WaveCanRun
<1>2. CASE StartWave
  <2>1. plan' = plan /\ done' = done /\ DOMAIN future' = Ids(Ready)
    BY <1>2 DEF StartWave
  <2>2. Ids(Ready) = {n \in Ids(plan) :
          \E i \in DOMAIN plan :
            plan[i].id = n /\ n \notin done /\ plan[i].deps \subseteq done}
    BY WaveOf DEF LocalRunIInv, Types
  <2>3. ASSUME NEW n \in Ids(Ready), NEW i \in DOMAIN plan, plan[i].id = n
        PROVE  plan[i].deps \subseteq done
    <3>1. PICK j \in DOMAIN plan : plan[j].id = n /\ plan[j].deps \subseteq done
      BY <2>2
    <3>2. i = j
      BY <2>3, <3>1, PlanIsDistinct
    <3> QED
      BY <3>1, <3>2
  <2> QED
    BY <2>1, <2>3 DEF WaveCanRun
<1>3. CASE Wait \/ WaveDone \/ Unwind \/ Collect \/ UNCHANGED localVars
  <2>1. future' = future /\ plan' = plan /\ done \subseteq done'
    BY <1>3 DEF Wait, WaveDone, Unwind, Collect, localVars
  <2> QED
    BY <2>1 DEF WaveCanRun
<1>4. ASSUME NEW n \in DOMAIN future, RunNode(n) \/ Post(n) \/ Log(n) \/ Raises(n)
      PROVE  WaveCanRun'
  <2>1. DOMAIN future' = DOMAIN future /\ plan' = plan /\ done' = done
    BY <1>4, WaveShape DEF RunNode, Post, Log, Raises, Goes
  <2> QED
    BY <2>1 DEF WaveCanRun
<1> QED
  BY <1>1, <1>2, <1>3, <1>4 DEF LocalRunNext, Ended

Begun == {n \in DOMAIN future : future[n] # "queued"}

\* A step changes what the promise is about as its action does, or not at all.
LEMMA PlanBegins ==
  ASSUME LocalRunIInv, LocalRunIInv', Parse \/ MakePlan, NEW items
  PROVE  [Promise(items)!Next]_(Promise(items)!vars)
<1> USE DEF orderVars, runVars
<1>1. /\ UNCHANGED <<board, future, answer>>
      /\ plan = <<>> /\ answer = {} /\ phase' \in {"order", "wave"}
      /\ phase' = "order" => plan' = plan
  BY DEF Parse, MakePlan, PassOver, LocalRunIInv, Types, Planned
<1>2. (board \cup Begun)' = board \cup Begun
  BY <1>1 DEF Begun
<1>3. CASE phase' = "order"
  BY <1>1, <1>2, <1>3 DEF Promise!vars, Begun
<1>4. CASE phase' = "wave"
  <2>1. plan' # <<>>
    BY <1>4 DEF LocalRunIInv, PlanInv, Planned, Sound
  <2>2. Promise(items)!Begin
    BY <1>1, <1>2, <1>4, <2>1 DEF Promise!Begin, Begun
  <2> QED
    BY <2>2 DEF Promise!Next
<1> QED
  BY <1>1, <1>3, <1>4

LEMMA WavesKeepPromise ==
  ASSUME LocalRunIInv, LocalRunIInv', NEW items,
         Consider \/ NextPass \/ StartWave \/ Wait \/ WaveDone \/ Unwind
  PROVE  UNCHANGED Promise(items)!vars
<1> USE DEF orderVars, runVars
<1>1. UNCHANGED <<plan, board, answer>> /\ phase # "answered" /\ phase' # "answered"
  BY DEF Consider, NextPass, PassOver, StartWave, Wait, WaveDone, Unwind
<1>2. (board \cup Begun)' = board \cup Begun
  <2>1. CASE StartWave
    <3>1. Begun' = {}
      BY <2>1 DEF StartWave, Begun
    <3>2. phase = "wave"
      BY <2>1 DEF StartWave
    <3>3. \A n \in DOMAIN future : n \in board
      BY <3>2, WaveShape DEF LocalRunIInv, WaveInv, ToSet
    <3> QED
      BY <1>1, <3>1, <3>3 DEF Begun
  <2>2. CASE ~StartWave
    <3>1. future' = future
      BY <2>2 DEF Consider, NextPass, Wait, WaveDone, Unwind
    <3> QED
      BY <1>1, <3>1 DEF Begun
  <2> QED
    BY <2>1, <2>2
<1> QED
  BY <1>1, <1>2 DEF Promise!vars, Begun

LEMMA CollectAnswers ==
  ASSUME LocalRunIInv, LocalRunIInv', Collect, NEW items, items = plan
  PROVE  Promise(items)!Next
<1>1. /\ UNCHANGED <<plan, board, future>> /\ answer' = board
      /\ phase = "wave" /\ phase' = "answered"
  BY DEF Collect
<1>2. board = Ids(plan)
  BY <1>1 DEF LocalRunIInv, AnswerIsWhole, Ids
<1>3. plan # <<>> /\ \A i \in DOMAIN plan : plan[i].deps \subseteq Ids(plan)
  BY <1>1 DEF LocalRunIInv, PlanInv, Planned, Sound
<1>4. (board \cup Begun)' = board \cup Begun
  BY <1>1 DEF Begun
<1>5. \A n \in Ids(plan) :
        UNION {plan[i].deps : i \in {j \in DOMAIN plan : plan[j].id = n}} \subseteq Ids(plan)
  BY <1>3
<1>6. Promise(items)!Answer(board)
  BY <1>1, <1>2, <1>3, <1>4, <1>5 DEF Promise!Answer, Begun
<1> QED
  BY <1>2, <1>6 DEF Promise!Next

LEMMA NodeKeepsPromise ==
  ASSUME LocalRunIInv, WaveCanRun, NEW items, items = plan, NEW n \in DOMAIN future,
         RunNode(n) \/ Post(n) \/ Log(n) \/ Raises(n)
  PROVE  [Promise(items)!Next]_(Promise(items)!vars)
<1>1. UNCHANGED <<plan, phase, answer>> /\ n \in Ids(plan) /\ DOMAIN future' = DOMAIN future
  BY WaveShape DEF RunNode, Post, Log, Raises, Goes
<1>2. plan # <<>> /\ phase # "answered"
  <2>1. DOMAIN plan # {}
    BY <1>1 DEF Ids
  <2> QED
    BY <2>1, NodeKeeps DEF Over
<1>3. CASE RunNode(n)
  <2>1. board' = board /\ Begun' = Begun \cup {n}
    BY <1>1, <1>3, WaveShape DEF RunNode, Goes, Begun
  <2>2. done \subseteq board
    BY DEF LocalRunIInv, Types, LocalRunTypeOK
  <2>3. UNION {plan[i].deps : i \in {j \in DOMAIN plan : plan[j].id = n}} \subseteq board
    BY <2>2 DEF WaveCanRun
  <2>4. Promise(items)!Release(n)
    BY <1>1, <1>2, <2>1, <2>3 DEF Promise!Release, Begun
  <2> QED
    BY <1>1, <2>4 DEF Promise!Next
<1>4. CASE Post(n)
  <2>1. board' = board \cup {n} /\ Begun' = Begun /\ n \in Begun
    BY <1>1, <1>4, WaveShape DEF Post, Goes, Begun
  <2>2. (board \cup Begun)' = board \cup Begun
    BY <2>1
  <2>3. Promise(items)!Complete(n)
    BY <1>1, <2>1, <2>2 DEF Promise!Complete, Begun
  <2> QED
    BY <1>1, <2>3 DEF Promise!Next
<1>5. CASE Log(n) \/ Raises(n)
  <2>1. board' = board /\ Begun' = Begun
    BY <1>1, <1>5, WaveShape DEF Log, Raises, Goes, Begun
  <2> QED
    BY <1>1, <2>1 DEF Promise!vars, Begun
<1> QED
  BY <1>3, <1>4, <1>5

LEMMA LocalPromiseInit == LocalRunInit => \A items \in {plan} : Promise(items)!Init
<1> SUFFICES ASSUME LocalRunInit, NEW items, items = plan PROVE Promise(items)!Init
  OBVIOUS
<1>1. board = {} /\ answer = {} /\ plan = <<>> /\ Begun = {}
  BY DEF LocalRunInit, Begun
<1> QED
  BY <1>1 DEF Promise!Init, Begun

LEMMA LocalPromiseStep ==
  LocalRunIInv /\ LocalRunIInv' /\ WaveCanRun /\ [LocalRunNext]_localVars
    => \A items \in {plan'} : [Promise(items)!Next]_(Promise(items)!vars)
<1> SUFFICES ASSUME LocalRunIInv, LocalRunIInv', WaveCanRun, [LocalRunNext]_localVars,
                    NEW items, items = plan'
             PROVE  [Promise(items)!Next]_(Promise(items)!vars)
  OBVIOUS
<1>1. CASE Parse \/ MakePlan
  BY <1>1, PlanBegins
<1>2. CASE Consider \/ NextPass \/ StartWave \/ Wait \/ WaveDone \/ Unwind
  BY <1>2, WavesKeepPromise
<1>3. CASE Collect
  <2>1. items = plan
    BY <1>3 DEF Collect
  <2> QED
    BY <1>3, <2>1, CollectAnswers
<1>4. ASSUME NEW n \in DOMAIN future, RunNode(n) \/ Post(n) \/ Log(n) \/ Raises(n)
      PROVE  [Promise(items)!Next]_(Promise(items)!vars)
  <2>1. items = plan
    BY <1>4 DEF RunNode, Post, Log, Raises, Goes
  <2> QED
    BY <1>4, <2>1, NodeKeepsPromise
<1>5. CASE UNCHANGED localVars
  <2>1. UNCHANGED <<plan, phase, board, future, answer>>
    BY <1>5 DEF localVars, runVars
  <2> QED
    BY <2>1 DEF Promise!vars
<1> QED
  BY <1>1, <1>2, <1>3, <1>4, <1>5 DEF LocalRunNext, Ended

\* A run in one process, whatever plan it was made of, is one RunPromise allows: a node
\* is run only on the results of those it depends on, a result once posted stays, and
\* the answer is made from all of them, however many threads run the nodes of a wave;
\* none of them does anything after it.
THEOREM LocalRunIsARun == LocalRunSpec => LocalRunKeepsPromise
<1>1. LocalRunInit => LocalRunIInv /\ WaveCanRun
  BY LocalRunInitEstablishes, WaveCanRunInit
<1>2. LocalRunIInv /\ WaveCanRun /\ [LocalRunNext]_localVars => LocalRunIInv' /\ WaveCanRun'
  BY LocalRunStepKeeps, WaveCanRunStep
<1>3. LocalRunIInv /\ WaveCanRun /\ LocalRunIInv' /\ [LocalRunNext]_localVars
        => [\A items \in {plan'} : [Promise(items)!Next]_(Promise(items)!vars)]_localVars
  BY LocalPromiseStep
<1> QED
  BY <1>1, <1>2, <1>3, LocalPromiseInit, NothingRunsOn, PTL
     DEF LocalRunSpec, LocalRunKeepsPromise

-----------------------------------------------------------------------------
(* Citations: the inductive invariant *)

Result == [sources : Retrieved, markers : Seq(Marker), abstention : BOOLEAN]
Chunks == DOMAIN Label
Fanned == tier \in {"complex", "run"}

CitationTypes ==
  /\ tier \in {"none", "simple", "complex", "run"}
  /\ gate \in {"off", "deterministic", "llm"}
  /\ stage \in {"route", "retrieve", "nodes", "merge", "say", "check", "store", "done", "gone"}
  /\ DOMAIN results \subseteq 1 .. Nodes
  /\ \A i \in DOMAIN results : results[i] \in Result
  /\ merging \in 1 .. Nodes + 1 /\ taken \in Nat
  /\ shown \in Seq(Source)
  /\ draft \in Seq(Marker) /\ Len(draft) <= MaxMarkers
  /\ abstained \in BOOLEAN
  /\ flagged \subseteq Nat \ {0}

\* Which tier goes through which stage, and what is not there yet.
StageInv ==
  /\ stage \in {"nodes", "merge"} => Fanned
  /\ ~Fanned => DOMAIN results = {}
  /\ stage = "retrieve" => tier = "simple"
  /\ stage \notin {"store", "done", "gone"} => ~abstained /\ flagged = {}
  /\ stage \in {"route", "retrieve", "nodes"} => shown = <<>> /\ merging = 1 /\ taken = 0
  /\ stage \in {"route", "retrieve", "nodes", "merge"} => draft = <<>>
  /\ tier = "none" => shown = <<>>
  /\ Fanned /\ stage \in {"say", "check", "store", "done", "gone"} => merging = Nodes + 1
  /\ stage \in {"say", "check"} /\ gate # "off" /\ tier = "simple" => shown # <<>>

\* A number a node wrote means its source of that number, and with the gate on a node
\* without a source abstains.
NodesInv ==
  \A i \in DOMAIN results :
    /\ \A k \in DOMAIN results[i].markers :
         LET m == results[i].markers[k]
         IN  m.n \in DOMAIN results[i].sources => m.means = Label[results[i].sources[m.n]]
    /\ gate # "off" /\ results[i].sources = <<>> => results[i].abstention

\* The chunks whose source has been merged.
Absorbed ==
  {c \in Chunks : \E i \in DOMAIN results : \E k \in DOMAIN results[i].sources :
     results[i].sources[k] = c /\ (i < merging \/ (i = merging /\ k <= taken))}

\* A merged list has one entry for each document of some chunks, and their texts.
Merges(list, chunks) ==
  /\ \A i, j \in DOMAIN list : list[i].label = list[j].label => i = j
  /\ \A i \in DOMAIN list : \E c \in chunks : Label[c] = list[i].label
  /\ \A i \in DOMAIN list : list[i].texts \subseteq chunks \ Textless
  /\ \A c \in chunks : \E i \in DOMAIN list :
       list[i].label = Label[c] /\ (c \in Textless \/ c \in list[i].texts)

CarryInv == Fanned => Merges(shown, Absorbed)

\* A number in the draft that the list has is the document its author meant.
DraftInv ==
  \A k \in DOMAIN draft :
    /\ draft[k].means # Fabricated
    /\ draft[k].n \in DOMAIN shown /\ draft[k].means # Invented =>
         shown[draft[k].n].label = draft[k].means

Final == Text(IF abstained THEN <<>> ELSE draft, abstained, flagged)

\* What is flagged, withheld, sent and kept.
OutInv ==
  /\ stage \in {"store", "done"} /\ gate # "off" /\ tier # "none" /\ ~abstained =>
       \A k \in DOMAIN draft : draft[k].n \in DOMAIN shown \cup flagged
  /\ stage \in {"store", "done"} /\ gate # "off" /\ tier \in {"simple", "run"} /\ shown = <<>> =>
       abstained \/ (DOMAIN results = {} /\ draft = <<>>)
  /\ stage \in {"store", "done"} /\ tier # "run" => streamed = Final
  /\ stage = "done" => stored = Final

CitationsIInv ==
  CitationTypes /\ StageInv /\ NodesInv /\ CarryInv /\ DraftInv /\ OutInv

-----------------------------------------------------------------------------
(* The merged list *)

LEMMA RetrievedChunks ==
  ASSUME NEW chunks \in Retrieved
  PROVE  /\ chunks \in Seq(Chunks) /\ DOMAIN chunks = 1 .. Len(chunks) /\ Len(chunks) \in Nat
         /\ \A k \in DOMAIN chunks : chunks[k] \in Chunks /\ Label[chunks[k]] \in Doc
<1>1. chunks \in Seq(Chunks)
  BY CitationsAssumption DEF Chunks
<1>2. \A c \in Chunks : Label[c] \in Doc
  BY CitationsAssumption DEF Chunks
<1> QED
  BY <1>1, <1>2

LEMMA SourceFields ==
  ASSUME NEW list \in Seq(Source), NEW i \in DOMAIN list
  PROVE  /\ i \in 1 .. Len(list) /\ Len(list) \in Nat
         /\ list[i] \in Source /\ list[i].label \in Doc /\ list[i].texts \subseteq Chunks
<1>1. i \in 1 .. Len(list) /\ Len(list) \in Nat /\ list[i] \in Source
  OBVIOUS
<1> QED
  BY <1>1 DEF Source, Chunks

LEMMA EmptyMerges ==
  ASSUME NEW chunks, chunks = {}
  PROVE  Merges(<<>>, chunks)
BY DEF Merges

\* One more source: its document has an entry, with its text.
LEMMA AbsorbMerges ==
  ASSUME NEW list \in Seq(Source), NEW chunks \in SUBSET Chunks, NEW c \in Chunks,
         Merges(list, chunks)
  PROVE  Absorb(list, c) \in Seq(Source) /\ Merges(Absorb(list, c), chunks \cup {c})
<1> DEFINE new == Absorb(list, c)
           text == {c} \ Textless
<1>1. Label[c] \in Doc /\ text \subseteq Chunks
  BY CitationsAssumption DEF Chunks
<1>2. DOMAIN list = 1 .. Len(list) /\ Len(list) \in Nat
  OBVIOUS
<1>3. CASE \E i \in DOMAIN list : list[i].label = Label[c]
  <2>1. new = [i \in DOMAIN list |->
                 IF list[i].label = Label[c]
                 THEN [list[i] EXCEPT !.texts = @ \cup text] ELSE list[i]]
    BY <1>3 DEF Absorb
  <2>2. DOMAIN new = DOMAIN list
    BY <2>1
  <2>3. ASSUME NEW i \in DOMAIN list
        PROVE  /\ new[i] \in Source /\ new[i].label = list[i].label
               /\ new[i].texts = IF list[i].label = Label[c] THEN list[i].texts \cup text
                                 ELSE list[i].texts
    <3>1. list[i] \in Source
      BY SourceFields
    <3>2. CASE list[i].label = Label[c]
      <4>1. new[i] = [list[i] EXCEPT !.texts = @ \cup text]
        BY <2>1, <3>2
      <4>2. list[i].texts \cup text \in SUBSET Chunks
        BY <1>1, SourceFields
      <4> HIDE DEF text, new
      <4>3. [list[i] EXCEPT !.texts = @ \cup text] \in Source
        BY <3>1, <4>2 DEF Source, Chunks
      <4> QED
        BY <3>1, <3>2, <4>1, <4>3 DEF Source
    <3>3. CASE list[i].label # Label[c]
      BY <2>1, <3>1, <3>3
    <3> QED
      BY <3>2, <3>3
  <2>4. new \in Seq(Source)
    <3>1. new \in [1 .. Len(list) -> Source]
      <4>1. new = [i \in 1 .. Len(list) |-> new[i]]
        BY <1>2, <2>1
      <4> HIDE DEF new
      <4>2. \A i \in 1 .. Len(list) : new[i] \in Source
        BY <1>2, <2>3
      <4> QED
        BY <4>1, <4>2
    <3> HIDE DEF new
    <3> QED
      BY <1>2, <3>1, SeqDef
  <2> HIDE DEF new, text
  <2>5. \A i, j \in DOMAIN new : new[i].label = new[j].label => i = j
    BY <2>2, <2>3 DEF Merges
  <2>6. \A i \in DOMAIN new : \E d \in chunks \cup {c} : Label[d] = new[i].label
    <3> SUFFICES ASSUME NEW i \in DOMAIN list PROVE \E d \in chunks \cup {c} : Label[d] = new[i].label
      BY <2>2
    <3>1. PICK d \in chunks : Label[d] = list[i].label
      BY DEF Merges
    <3> QED
      BY <2>3, <3>1
  <2>7. \A i \in DOMAIN new : new[i].texts \subseteq (chunks \cup {c}) \ Textless
    <3> SUFFICES ASSUME NEW i \in DOMAIN list
                 PROVE  new[i].texts \subseteq (chunks \cup {c}) \ Textless
      BY <2>2
    <3>1. list[i].texts \subseteq chunks \ Textless
      BY DEF Merges
    <3> QED
      BY <2>3, <3>1 DEF text
  <2>8. ASSUME NEW d \in chunks \cup {c}
        PROVE  \E i \in DOMAIN new :
                 new[i].label = Label[d] /\ (d \in Textless \/ d \in new[i].texts)
    <3>1. CASE d = c
      <4>1. PICK i \in DOMAIN list : list[i].label = Label[c]
        BY <1>3
      <4>2. new[i].label = Label[c] /\ text \subseteq new[i].texts
        BY <2>3, <4>1
      <4> QED
        BY <2>2, <3>1, <4>2 DEF text
    <3>2. CASE d \in chunks
      <4>1. PICK i \in DOMAIN list : list[i].label = Label[d] /\ (d \in Textless \/ d \in list[i].texts)
        BY <3>2 DEF Merges
      <4>2. new[i].label = Label[d] /\ list[i].texts \subseteq new[i].texts
        BY <2>3, <4>1
      <4> QED
        BY <2>2, <4>1, <4>2
    <3> QED
      BY <3>1, <3>2
  <2> QED
    BY <2>4, <2>5, <2>6, <2>7, <2>8 DEF Merges, new
<1>4. CASE ~\E i \in DOMAIN list : list[i].label = Label[c]
  <2> DEFINE s == [label |-> Label[c], texts |-> text]
             n == Len(list) + 1
  <2>1. new = Append(list, s)
    BY <1>4 DEF Absorb
  <2>2. s \in Source /\ s.label = Label[c] /\ s.texts = text
    BY <1>1 DEF Source, Chunks
  <2> HIDE DEF s, text, new
  <2>3. /\ new \in Seq(Source) /\ Len(new) = Len(list) + 1
        /\ \A i \in 1 .. Len(list) : new[i] = list[i]
        /\ new[n] = s
    BY <2>1, <2>2, AppendProperties
  <2>4. DOMAIN new = DOMAIN list \cup {n} /\ n \notin DOMAIN list
    BY <1>2, <2>3
  <2>5. \A i \in DOMAIN list : new[i] = list[i]
    BY <1>2, <2>3
  <2>6. \A i, j \in DOMAIN new : new[i].label = new[j].label => i = j
    BY <1>4, <2>2, <2>3, <2>4, <2>5 DEF Merges
  <2>7. \A i \in DOMAIN new : \E d \in chunks \cup {c} : Label[d] = new[i].label
    BY <2>2, <2>3, <2>4, <2>5 DEF Merges
  <2>8. \A i \in DOMAIN new : new[i].texts \subseteq (chunks \cup {c}) \ Textless
    BY <2>2, <2>3, <2>4, <2>5 DEF Merges, text
  <2>9. ASSUME NEW d \in chunks \cup {c}
        PROVE  \E i \in DOMAIN new :
                 new[i].label = Label[d] /\ (d \in Textless \/ d \in new[i].texts)
    <3>1. CASE d = c
      <4>1. c \in Textless \/ c \in text
        BY DEF text
      <4> QED
        BY <2>2, <2>3, <2>4, <3>1, <4>1
    <3>2. CASE d \in chunks
      BY <2>4, <2>5, <3>2 DEF Merges
    <3> QED
      BY <3>1, <3>2
  <2> QED
    BY <2>3, <2>6, <2>7, <2>8, <2>9 DEF Merges, new
<1> QED
  BY <1>3, <1>4

\* A finding points at the document its node meant, and none is made up.
LEMMA FindingsMean ==
  ASSUME CitationsIInv, Merges(shown, Absorbed), merging = Nodes + 1, NEW m \in Findings
  PROVE  /\ m \in Marker /\ m.means # Fabricated
         /\ m.n \in DOMAIN shown /\ shown[m.n].label = m.means
<1>1. PICK i \in DOMAIN results : m \in ToSet(Renumber(results[i], shown))
  BY DEF Findings
<1> DEFINE r == results[i]
           J == {k \in DOMAIN r.markers : r.markers[k].n \in DOMAIN r.sources}
           kept == Picked(r.markers, J)
           put(k) == Position(shown, Label[r.sources[kept[k].n]])
<1>2. r \in Result /\ r.markers \in Seq(Marker) /\ r.sources \in Retrieved /\ i \in 1 .. Nodes
  BY DEF CitationsIInv, CitationTypes, Result
<1>3. J \in SUBSET DOMAIN r.markers
  OBVIOUS
<1>4. /\ kept \in Seq(Marker)
      /\ \A k \in DOMAIN kept : \E j \in J : kept[k] = r.markers[j]
  <2> HIDE DEF J, r
  <2>1. kept \in Seq(Marker) /\ DOMAIN kept = 1 .. Cardinality(J)
    BY <1>2, <1>3, PickedIsSeq
  <2>2. \A k \in 1 .. Cardinality(J) : Ith(J, k) \in J /\ kept[k] = r.markers[Ith(J, k)]
    BY <1>2, <1>3, PickedIsSeq
  <2> QED
    BY <2>1, <2>2
<1>5. Renumber(r, shown) = [k \in DOMAIN kept |-> [kept[k] EXCEPT !.n = put(k)]]
  BY DEF Renumber
<1>6. PICK k \in DOMAIN kept : m = [kept[k] EXCEPT !.n = put(k)]
  <2> HIDE DEF kept, r
  <2>1. m \in ToSet(Renumber(r, shown))
    BY <1>1 DEF r
  <2> QED
    BY <1>5, <2>1 DEF ToSet
<1>7. PICK j \in J : kept[k] = r.markers[j]
  BY <1>4, <1>6
<1> DEFINE old == kept[k]
           c == r.sources[old.n]
<1>8. old \in Marker /\ old.n \in DOMAIN r.sources /\ old.means = Label[c]
  <2>1. r.markers[j] \in Marker /\ j \in DOMAIN r.markers /\ r.markers[j].n \in DOMAIN r.sources
    BY <1>2, <1>7
  <2>2. r.markers[j].means = Label[r.sources[r.markers[j].n]]
    BY <2>1 DEF CitationsIInv, NodesInv
  <2> QED
    BY <1>7, <2>1, <2>2
<1>9. c \in Chunks /\ Label[c] \in Doc /\ c \in Absorbed
  <2>1. c \in Chunks /\ Label[c] \in Doc
    BY <1>2, <1>8, RetrievedChunks
  <2>2. i < merging
    BY <1>2, CitationsAssumption
  <2> QED
    BY <1>8, <2>1, <2>2 DEF Absorbed
<1>10. Position(shown, Label[c]) \in DOMAIN shown /\ shown[Position(shown, Label[c])].label = Label[c]
  <2>1. \E p \in DOMAIN shown : shown[p].label = Label[c]
    BY <1>9 DEF Merges
  <2> QED
    BY <2>1 DEF Position
<1> HIDE DEF kept, r, c
<1>11. m = [old EXCEPT !.n = Position(shown, Label[c])]
  BY <1>6 DEF c
<1> DEFINE p == Position(shown, Label[c])
<1>12. p \in Nat \ {0}
  <2>1. shown \in Seq(Source)
    BY DEF CitationsIInv, CitationTypes
  <2>2. DOMAIN shown = 1 .. Len(shown) /\ Len(shown) \in Nat
    BY <2>1
  <2> QED
    BY <1>10, <2>2
<1> HIDE DEF p, old
<1>13. m \in Marker /\ m.n = p /\ m.means = old.means
  BY <1>8, <1>11, <1>12 DEF Marker, p
<1>14. Fabricated \notin Doc
  BY CitationsAssumption
<1> QED
  BY <1>8, <1>9, <1>10, <1>13, <1>14 DEF p

-----------------------------------------------------------------------------
(* The steps *)

\* What a step that merges nothing and writes nothing keeps.
LEMMA QuietKeeps ==
  ASSUME CitationsIInv, UNCHANGED <<tier, gate, results, mergeVars, shown, draft>>
  PROVE  NodesInv' /\ CarryInv' /\ DraftInv'
<1>1. NodesInv'
  BY DEF CitationsIInv, NodesInv
<1>2. Absorbed' = Absorbed
  BY DEF Absorbed, mergeVars
<1>3. CarryInv'
  BY <1>2 DEF CitationsIInv, CarryInv, Merges, Fanned
<1> QED
  BY <1>1, <1>3 DEF CitationsIInv, DraftInv

LEMMA EmptySequence ==
  ASSUME NEW S
  PROVE  <<>> \in Seq(S) /\ Len(<<>>) = 0 /\ DOMAIN <<>> = {}
OBVIOUS

LEMMA CitationsStart == CitationsInit => CitationsIInv
<1> SUFFICES ASSUME CitationsInit PROVE CitationsIInv
  OBVIOUS
<1>1. /\ tier \in {"none", "simple", "complex", "run"}
      /\ gate \in {"off", "deterministic", "llm"}
      /\ stage = "route" /\ results = <<>> /\ merging = 1 /\ taken = 0
      /\ shown = <<>> /\ draft = <<>> /\ abstained = FALSE /\ flagged = {}
  BY DEF CitationsInit
<1>2. DOMAIN results = {} /\ DOMAIN draft = {} /\ DOMAIN shown = {}
  BY <1>1
<1>3. CitationTypes
  <2>1. Nodes \in Nat /\ MaxMarkers \in Nat
    BY CitationsAssumption
  <2>2. shown \in Seq(Source) /\ draft \in Seq(Marker) /\ Len(draft) = 0
    BY <1>1, EmptySequence
  <2>3. merging \in 1 .. Nodes + 1 /\ taken \in Nat /\ Len(draft) <= MaxMarkers
    BY <1>1, <2>1, <2>2
  <2>4. DOMAIN results \subseteq 1 .. Nodes /\ \A i \in DOMAIN results : results[i] \in Result
    BY <1>2
  <2>5. abstained \in BOOLEAN /\ flagged \subseteq Nat \ {0} /\ stage = "route"
    BY <1>1
  <2> QED
    BY <1>1, <2>2, <2>3, <2>4, <2>5 DEF CitationTypes
<1>4. StageInv
  BY <1>1, <1>2 DEF StageInv
<1>5. Absorbed = {}
  BY <1>2 DEF Absorbed
<1> QED
  BY <1>1, <1>2, <1>3, <1>4, <1>5
     DEF CitationsIInv, NodesInv, CarryInv, Merges, DraftInv, OutInv

LEMMA RouteTierStep == CitationsIInv /\ RouteTier => CitationsIInv'
<1> SUFFICES ASSUME CitationsIInv, RouteTier PROVE CitationsIInv'
  OBVIOUS
<1>1. /\ stage = "route"
      /\ UNCHANGED <<tier, gate, results, mergeVars, shown, draft, abstained, flagged, streamed, stored>>
  BY DEF RouteTier
<1>2. tier \in {"none", "simple", "complex", "run"}
  BY DEF CitationsIInv, CitationTypes
<1>3. \/ tier = "none" /\ stage' = "say"
      \/ tier = "simple" /\ stage' = "retrieve"
      \/ tier \in {"complex", "run"} /\ stage' = "nodes"
  BY <1>2 DEF RouteTier
<1>4. CitationTypes'
  BY <1>1, <1>3 DEF CitationsIInv, CitationTypes, mergeVars
<1>5. StageInv'
  BY <1>1, <1>3 DEF CitationsIInv, StageInv, Fanned, mergeVars
<1>6. OutInv'
  BY <1>1, <1>3 DEF CitationsIInv, OutInv, Final
<1> QED
  BY <1>1, <1>4, <1>5, <1>6, QuietKeeps DEF CitationsIInv

LEMMA GatherStep == CitationsIInv /\ Gather => CitationsIInv'
<1> SUFFICES ASSUME CitationsIInv, Gather PROVE CitationsIInv'
  OBVIOUS
<1>1. PICK chunks \in Retrieved :
        /\ shown' = [i \in DOMAIN chunks |-> [label |-> Label[chunks[i]], texts |-> {chunks[i]}]]
        /\ IF chunks = <<>> /\ gate # "off"
           THEN /\ abstained' = TRUE
                /\ streamed' = Text(<<>>, TRUE, {})
                /\ stage' = "store"
           ELSE stage' = "say" /\ UNCHANGED <<abstained, streamed>>
  BY DEF Gather
<1>2. stage = "retrieve" /\ UNCHANGED <<tier, gate, results, mergeVars, draft, flagged, stored>>
  BY DEF Gather
<1>3. /\ tier = "simple" /\ ~Fanned /\ ~Fanned' /\ draft = <<>> /\ flagged = {} /\ ~abstained
      /\ DOMAIN results = {}
  BY <1>2 DEF CitationsIInv, StageInv, Fanned
<1>4. shown' \in Seq(Source) /\ (shown' = <<>> => chunks = <<>>)
  <2>1. /\ chunks \in Seq(Chunks) /\ DOMAIN chunks = 1 .. Len(chunks) /\ Len(chunks) \in Nat
        /\ \A k \in DOMAIN chunks : chunks[k] \in Chunks /\ Label[chunks[k]] \in Doc
    BY RetrievedChunks
  <2>2. \A i \in DOMAIN chunks : [label |-> Label[chunks[i]], texts |-> {chunks[i]}] \in Source
    BY <2>1 DEF Source, Chunks
  <2>3. shown' \in [1 .. Len(chunks) -> Source]
    BY <1>1, <2>1, <2>2
  <2>4. shown' \in Seq(Source)
    BY <2>1, <2>3, SeqDef
  <2>5. DOMAIN shown' = 1 .. Len(chunks)
    BY <2>3
  <2>6. shown' = <<>> => Len(chunks) = 0
    BY <2>1, <2>5
  <2> QED
    BY <2>1, <2>4, <2>6
<1>5. CitationTypes'
  BY <1>1, <1>2, <1>4 DEF CitationsIInv, CitationTypes, mergeVars
<1>6. StageInv'
  <2>1. merging = 1 /\ taken = 0 /\ UNCHANGED <<merging, taken>>
    BY <1>2 DEF CitationsIInv, StageInv, mergeVars
  <2> QED
    BY <1>1, <1>2, <1>3, <1>4, <2>1 DEF StageInv
<1>7. NodesInv'
  BY <1>2, <1>3 DEF NodesInv
<1>8. CarryInv' /\ DraftInv'
  BY <1>2, <1>3 DEF CarryInv, DraftInv
<1>9. OutInv'
  <2>1. CASE chunks = <<>> /\ gate # "off"
    BY <1>1, <1>2, <1>3, <2>1 DEF OutInv, Final
  <2>2. CASE ~(chunks = <<>> /\ gate # "off")
    BY <1>1, <2>2 DEF OutInv
  <2> QED
    BY <2>1, <2>2
<1> QED
  BY <1>5, <1>6, <1>7, <1>8, <1>9 DEF CitationsIInv

LEMMA NodeAnswersStep ==
  ASSUME CitationsIInv, NEW i \in 1 .. Nodes, NodeAnswers(i)
  PROVE  CitationsIInv'
<1>1. /\ stage = "nodes" /\ i \notin DOMAIN results
      /\ UNCHANGED <<tier, gate, stage, mergeVars, shown, draft, abstained, flagged, streamed, stored>>
  BY DEF NodeAnswers
<1>2. \E r \in Result :
        /\ results' = [k \in DOMAIN results \cup {i} |-> IF k = i THEN r ELSE results[k]]
        /\ \A k \in DOMAIN r.markers : r.markers[k].n \in DOMAIN r.sources =>
             r.markers[k].means = Label[r.sources[r.markers[k].n]]
        /\ gate # "off" /\ r.sources = <<>> => r.abstention
  <2>1. PICK chunks \in Retrieved, ns \in Marks :
          LET marked == [k \in DOMAIN ns |->
                [n |-> ns[k],
                 means |-> IF ns[k] \in DOMAIN chunks THEN Label[chunks[ns[k]]] ELSE Fabricated]]
              given == [sources |-> chunks, markers |-> marked, abstention |-> FALSE]
              replaced == [sources |-> chunks, markers |-> <<>>, abstention |-> TRUE]
          IN  \/ /\ ~Checked(chunks) \/ ~MustReplace(chunks # <<>>)
                 /\ results' = [k \in DOMAIN results \cup {i} |-> IF k = i THEN given ELSE results[k]]
              \/ /\ Checked(chunks) /\ MayReplace(chunks # <<>>)
                 /\ results' = [k \in DOMAIN results \cup {i} |-> IF k = i THEN replaced ELSE results[k]]
    BY DEF NodeAnswers
  <2> DEFINE mark(n) == [n |-> n, means |-> IF n \in DOMAIN chunks THEN Label[chunks[n]] ELSE Fabricated]
             marked == [k \in DOMAIN ns |-> mark(ns[k])]
             given == [sources |-> chunks, markers |-> marked, abstention |-> FALSE]
             replaced == [sources |-> chunks, markers |-> <<>>, abstention |-> TRUE]
  <2>2. ns \in Seq(Nat \ {0}) /\ DOMAIN ns = 1 .. Len(ns) /\ Len(ns) \in Nat
    BY CitationsAssumption
  <2>3. \A n \in Nat \ {0} : mark(n) \in Marker
    BY RetrievedChunks DEF Marker
  <2>4. marked \in Seq(Marker) /\ DOMAIN marked = DOMAIN ns /\ \A k \in DOMAIN ns : marked[k] = mark(ns[k])
    <3>1. \A k \in 1 .. Len(ns) : ns[k] \in Nat \ {0}
      BY <2>2
    <3>2. marked \in [1 .. Len(ns) -> Marker]
      BY <2>2, <2>3, <3>1
    <3> QED
      BY <2>2, <3>2, SeqDef
  <2>5. \A n : mark(n).n = n /\ (n \in DOMAIN chunks => mark(n).means = Label[chunks[n]])
    OBVIOUS
  <2> HIDE DEF mark
  <2>6. CASE /\ ~Checked(chunks) \/ ~MustReplace(chunks # <<>>)
             /\ results' = [k \in DOMAIN results \cup {i} |-> IF k = i THEN given ELSE results[k]]
    <3>1. given \in Result
      <4> HIDE DEF marked
      <4> QED
        BY <2>4 DEF Result
    <3>2. \A k \in DOMAIN given.markers : given.markers[k].n \in DOMAIN given.sources =>
             given.markers[k].means = Label[given.sources[given.markers[k].n]]
      <4> HIDE DEF marked
      <4> QED
        BY <2>4, <2>5
    <3>3. gate # "off" => chunks # <<>>
      BY <2>6 DEF Checked, Verifiable, MustReplace
    <3>4. given.sources = chunks
      OBVIOUS
    <3> HIDE DEF given
    <3> QED
      BY <2>6, <3>1, <3>2, <3>3, <3>4
  <2>7. CASE results' = [k \in DOMAIN results \cup {i} |-> IF k = i THEN replaced ELSE results[k]]
    <3>1. replaced \in Result /\ replaced.markers = <<>> /\ replaced.abstention
      BY EmptySequence DEF Result
    <3> HIDE DEF replaced
    <3> QED
      BY <2>7, <3>1
  <2> QED
    BY <2>1, <2>6, <2>7 DEF mark
<1>3. PICK r \in Result :
        /\ results' = [k \in DOMAIN results \cup {i} |-> IF k = i THEN r ELSE results[k]]
        /\ \A k \in DOMAIN r.markers : r.markers[k].n \in DOMAIN r.sources =>
             r.markers[k].means = Label[r.sources[r.markers[k].n]]
        /\ gate # "off" /\ r.sources = <<>> => r.abstention
  BY <1>2
<1>4. /\ DOMAIN results' = DOMAIN results \cup {i} /\ results'[i] = r
      /\ \A k \in DOMAIN results : results'[k] = results[k]
  BY <1>1, <1>3
<1>5. CitationTypes'
  <2>1. DOMAIN results' \subseteq 1 .. Nodes /\ \A k \in DOMAIN results' : results'[k] \in Result
    BY <1>4 DEF CitationsIInv, CitationTypes
  <2> QED
    BY <1>1, <2>1 DEF CitationsIInv, CitationTypes, mergeVars
<1>6. StageInv'
  BY <1>1 DEF CitationsIInv, StageInv, Fanned, mergeVars
<1>7. NodesInv'
  <2> SUFFICES ASSUME NEW k \in DOMAIN results'
               PROVE  /\ \A j \in DOMAIN results'[k].markers :
                           results'[k].markers[j].n \in DOMAIN results'[k].sources =>
                             results'[k].markers[j].means
                               = Label[results'[k].sources[results'[k].markers[j].n]]
                      /\ gate' # "off" /\ results'[k].sources = <<>> => results'[k].abstention
    BY DEF NodesInv
  <2>1. CASE k = i
    BY <1>1, <1>3, <1>4, <2>1
  <2>2. CASE k # i
    BY <1>1, <1>4, <2>2 DEF CitationsIInv, NodesInv
  <2> QED
    BY <2>1, <2>2
<1>8. CarryInv'
  <2>1. shown' = <<>> /\ merging' = 1 /\ taken' = 0
    BY <1>1 DEF CitationsIInv, StageInv, mergeVars
  <2>2. Absorbed' = {}
    <3>1. \A k \in DOMAIN results' : k \in Nat /\ ~(k < 1)
      BY <1>5, CitationsAssumption DEF CitationTypes
    <3>2. \A k \in DOMAIN results' : \A j \in DOMAIN results'[k].sources : j \in Nat /\ ~(j <= 0)
      BY <1>5, RetrievedChunks DEF CitationTypes, Result
    <3> QED
      BY <2>1, <3>1, <3>2 DEF Absorbed
  <2> QED
    BY <2>1, <2>2, EmptyMerges DEF CarryInv
<1>9. DraftInv'
  BY <1>1 DEF CitationsIInv, DraftInv
<1>10. OutInv'
  BY <1>1 DEF OutInv
<1> QED
  BY <1>5, <1>6, <1>7, <1>8, <1>9, <1>10 DEF CitationsIInv

LEMMA CollectAllStep == CitationsIInv /\ CollectAll => CitationsIInv'
<1> SUFFICES ASSUME CitationsIInv, CollectAll PROVE CitationsIInv'
  OBVIOUS
<1>1. /\ stage = "nodes" /\ stage' = "merge"
      /\ UNCHANGED <<tier, gate, results, mergeVars, shown, draft, abstained, flagged, streamed, stored>>
  BY DEF CollectAll
<1>2. CitationTypes' /\ StageInv'
  BY <1>1 DEF CitationsIInv, CitationTypes, StageInv, Fanned, mergeVars
<1>3. OutInv'
  BY <1>1 DEF OutInv
<1> QED
  BY <1>1, <1>2, <1>3, QuietKeeps DEF CitationsIInv

LEMMA TakeSourceStep == CitationsIInv /\ TakeSource => CitationsIInv'
<1> SUFFICES ASSUME CitationsIInv, TakeSource PROVE CitationsIInv'
  OBVIOUS
<1>1. /\ stage = "merge" /\ merging \in DOMAIN results /\ taken < Len(results[merging].sources)
      /\ shown' = Absorb(shown, results[merging].sources[taken + 1])
      /\ taken' = taken + 1
      /\ UNCHANGED <<tier, gate, stage, results, merging, draft, abstained, flagged, streamed, stored>>
  BY DEF TakeSource
<1> DEFINE chunks == results[merging].sources
           c == chunks[taken + 1]
<1>2. /\ chunks \in Retrieved /\ taken \in Nat /\ DOMAIN results \subseteq 1 .. Nodes
      /\ shown \in Seq(Source) /\ \A i \in DOMAIN results : results[i].sources \in Retrieved
  BY <1>1 DEF CitationsIInv, CitationTypes, Result
<1>3. Fanned /\ draft = <<>>
  BY <1>1 DEF CitationsIInv, StageInv
<1>4. taken + 1 \in DOMAIN chunks /\ c \in Chunks
  <2>1. DOMAIN chunks = 1 .. Len(chunks) /\ Len(chunks) \in Nat
    BY <1>2, RetrievedChunks
  <2>2. taken + 1 \in DOMAIN chunks
    BY <1>1, <1>2, <2>1
  <2> QED
    BY <1>2, <2>2, RetrievedChunks
<1>5. Absorbed' = Absorbed \cup {c}
  <2>1. \A i \in DOMAIN results : \A k \in DOMAIN results[i].sources : k \in Nat
    BY <1>2, RetrievedChunks
  <2>2. \A k \in Nat : k <= taken' <=> k <= taken \/ k = taken + 1
    BY <1>1, <1>2
  <2>3. ASSUME NEW d \in Chunks PROVE d \in Absorbed' <=> d \in Absorbed \cup {c}
    <3>1. ASSUME d \in Absorbed' PROVE d \in Absorbed \cup {c}
      <4>1. PICK i \in DOMAIN results : \E k \in DOMAIN results[i].sources :
              results[i].sources[k] = d /\ (i < merging \/ (i = merging /\ k <= taken'))
        BY <1>1, <3>1 DEF Absorbed
      <4>2. PICK k \in DOMAIN results[i].sources :
              results[i].sources[k] = d /\ (i < merging \/ (i = merging /\ k <= taken'))
        BY <4>1
      <4>3. CASE i = merging /\ k = taken + 1
        BY <4>2, <4>3
      <4>4. CASE i < merging \/ (i = merging /\ k <= taken)
        BY <4>2, <4>4 DEF Absorbed
      <4> QED
        BY <2>1, <2>2, <4>2, <4>3, <4>4
    <3>2. ASSUME d \in Absorbed PROVE d \in Absorbed'
      <4>1. PICK i \in DOMAIN results : \E k \in DOMAIN results[i].sources :
              results[i].sources[k] = d /\ (i < merging \/ (i = merging /\ k <= taken))
        BY <3>2 DEF Absorbed
      <4>2. PICK k \in DOMAIN results[i].sources :
              results[i].sources[k] = d /\ (i < merging \/ (i = merging /\ k <= taken))
        BY <4>1
      <4>3. i < merging' \/ (i = merging' /\ k <= taken')
        BY <1>1, <2>1, <2>2, <4>2
      <4> QED
        BY <1>1, <4>2, <4>3 DEF Absorbed
    <3>3. c \in Absorbed'
      <4>1. taken + 1 <= taken'
        BY <1>1, <1>2
      <4>2. merging \in DOMAIN results' /\ merging = merging' /\ results' = results
        BY <1>1
      <4> HIDE DEF c
      <4>3. \E k \in DOMAIN results'[merging].sources : results'[merging].sources[k] = c /\ k <= taken'
        BY <1>4, <4>1, <4>2 DEF c
      <4> QED
        BY <1>4, <4>2, <4>3 DEF Absorbed
    <3> QED
      BY <3>1, <3>2, <3>3
  <2>4. Absorbed \subseteq Chunks /\ Absorbed' \subseteq Chunks
    BY DEF Absorbed
  <2> HIDE DEF c
  <2> QED
    BY <1>4, <2>3, <2>4
<1> HIDE DEF c, chunks
<1>6. shown' \in Seq(Source) /\ Merges(shown', Absorbed')
  <2>1. Absorbed \in SUBSET Chunks /\ Merges(shown, Absorbed)
    BY <1>3 DEF CitationsIInv, CarryInv, Absorbed
  <2>2. shown' = Absorb(shown, c)
    BY <1>1 DEF c, chunks
  <2> QED
    BY <1>2, <1>4, <1>5, <2>1, <2>2, AbsorbMerges
<1>7. CitationTypes'
  BY <1>1, <1>2, <1>6 DEF CitationsIInv, CitationTypes
<1>8. StageInv'
  BY <1>1, <1>3 DEF CitationsIInv, StageInv, Fanned
<1>9. NodesInv'
  BY <1>1 DEF CitationsIInv, NodesInv
<1>10. CarryInv'
  BY <1>6 DEF CarryInv, Merges
<1>11. DraftInv' /\ OutInv'
  BY <1>1, <1>3 DEF DraftInv, OutInv
<1> QED
  BY <1>7, <1>8, <1>9, <1>10, <1>11 DEF CitationsIInv

LEMMA NextResultStep == CitationsIInv /\ NextResult => CitationsIInv'
<1> SUFFICES ASSUME CitationsIInv, NextResult PROVE CitationsIInv'
  OBVIOUS
<1>1. /\ stage = "merge" /\ merging <= Nodes
      /\ merging \in DOMAIN results => taken = Len(results[merging].sources)
      /\ merging' = merging + 1 /\ taken' = 0
      /\ UNCHANGED <<tier, gate, stage, results, shown, draft, abstained, flagged, streamed, stored>>
  BY DEF NextResult
<1>2. /\ merging \in 1 .. Nodes + 1 /\ taken \in Nat /\ DOMAIN results \subseteq 1 .. Nodes
      /\ \A i \in DOMAIN results : results[i].sources \in Retrieved
      /\ Nodes \in Nat
  BY CitationsAssumption DEF CitationsIInv, CitationTypes, Result
<1>3. Absorbed' = Absorbed
  <2>1. \A i \in DOMAIN results : i \in Nat
    BY <1>2
  <2>2. \A i \in DOMAIN results : \A k \in DOMAIN results[i].sources :
          k \in 1 .. Len(results[i].sources) /\ Len(results[i].sources) \in Nat
    BY <1>2, RetrievedChunks
  <2>3. \A i \in DOMAIN results : \A k \in DOMAIN results[i].sources :
          (i < merging' \/ (i = merging' /\ k <= taken')) <=> (i < merging \/ (i = merging /\ k <= taken))
    BY <1>1, <1>2, <2>1, <2>2
  <2> QED
    BY <1>1, <2>3 DEF Absorbed
<1>4. CitationTypes'
  <2>1. merging' \in 1 .. Nodes + 1 /\ taken' \in Nat
    BY <1>1, <1>2
  <2> QED
    BY <1>1, <2>1 DEF CitationsIInv, CitationTypes
<1>5. StageInv'
  BY <1>1 DEF CitationsIInv, StageInv, Fanned
<1>6. NodesInv' /\ DraftInv' /\ OutInv'
  BY <1>1 DEF CitationsIInv, NodesInv, DraftInv, OutInv
<1>7. CarryInv'
  BY <1>1, <1>3 DEF CitationsIInv, CarryInv, Merges, Fanned
<1> QED
  BY <1>4, <1>5, <1>6, <1>7 DEF CitationsIInv

LEMMA AnnounceStep == CitationsIInv /\ Announce => CitationsIInv'
<1> SUFFICES ASSUME CitationsIInv, Announce PROVE CitationsIInv'
  OBVIOUS
<1>1. /\ stage = "merge" /\ merging > Nodes
      /\ stage' = IF DOMAIN results = {} THEN "store" ELSE "say"
      /\ streamed' = IF DOMAIN results = {} /\ tier = "complex" THEN Text(<<>>, FALSE, {}) ELSE streamed
      /\ UNCHANGED <<tier, gate, results, mergeVars, shown, draft, abstained, flagged, stored>>
  BY DEF Announce
<1>2. Fanned /\ draft = <<>> /\ flagged = {} /\ abstained = FALSE
  BY <1>1 DEF CitationsIInv, StageInv, CitationTypes
<1>3. CitationTypes'
  BY <1>1 DEF CitationsIInv, CitationTypes, mergeVars
<1>4. StageInv'
  <2>1. merging = Nodes + 1
    BY <1>1, CitationsAssumption DEF CitationsIInv, CitationTypes
  <2>2. Fanned' /\ merging' = Nodes + 1 /\ tier' # "none" /\ tier' # "simple"
    BY <1>1, <1>2, <2>1 DEF Fanned, mergeVars
  <2>3. stage' \in {"store", "say"} /\ ~abstained' /\ flagged' = {}
    BY <1>1, <1>2
  <2> QED
    BY <2>2, <2>3 DEF StageInv
<1>5. OutInv'
  <2>1. CASE DOMAIN results # {}
    BY <1>1, <2>1 DEF OutInv
  <2>2. CASE DOMAIN results = {}
    <3>1. stage' = "store" /\ draft' = <<>> /\ DOMAIN results' = {} /\ tier' \in {"complex", "run"}
      BY <1>1, <1>2, <2>2 DEF Fanned
    <3>2. Final' = Text(<<>>, FALSE, {})
      BY <1>1, <1>2 DEF Final
    <3>3. tier' # "run" => streamed' = Final'
      BY <1>1, <2>2, <3>1, <3>2
    <3>4. \A k \in DOMAIN draft' : draft'[k].n \in DOMAIN shown' \cup flagged'
      BY <3>1
    <3> QED
      BY <3>1, <3>3, <3>4 DEF OutInv
  <2> QED
    BY <2>1, <2>2
<1> QED
  BY <1>1, <1>3, <1>4, <1>5, QuietKeeps DEF CitationsIInv

LEMMA SayStep == CitationsIInv /\ Say => CitationsIInv'
<1> SUFFICES ASSUME CitationsIInv, Say PROVE CitationsIInv'
  OBVIOUS
<1>1. /\ stage = "say" /\ Len(draft) < MaxMarkers
      /\ UNCHANGED <<tier, gate, stage, results, mergeVars, shown, abstained, flagged, stored>>
  BY DEF Say
<1>2. PICK m \in
         IF tier \in {"none", "simple"}
         THEN {[n |-> n, means |-> IF n \in DOMAIN shown THEN shown[n].label ELSE Invented]
                 : n \in 1 .. MaxMarker}
         ELSE Findings \cup [n : 1 .. MaxMarker, means : {Invented}] :
         draft' = Append(draft, m)
  BY DEF Say
<1>3. /\ tier \in {"none", "simple", "complex", "run"} /\ shown \in Seq(Source)
      /\ draft \in Seq(Marker) /\ MaxMarker \in Nat /\ MaxMarkers \in Nat
      /\ Fabricated \notin Doc /\ Fabricated # Invented
  BY CitationsAssumption DEF CitationsIInv, CitationTypes
<1>4. /\ m \in Marker /\ m.means # Fabricated
      /\ m.n \in DOMAIN shown /\ m.means # Invented => shown[m.n].label = m.means
  <2>1. CASE tier \in {"none", "simple"}
    <3>1. PICK n \in 1 .. MaxMarker :
            m = [n |-> n, means |-> IF n \in DOMAIN shown THEN shown[n].label ELSE Invented]
      BY <1>2, <2>1
    <3>2. n \in Nat \ {0}
      BY <1>3
    <3>3. CASE n \in DOMAIN shown
      <4>1. m = [n |-> n, means |-> shown[n].label] /\ shown[n].label \in Doc
        BY <1>3, <3>1, <3>3, SourceFields
      <4> QED
        BY <1>3, <3>2, <4>1 DEF Marker
    <3>4. CASE n \notin DOMAIN shown
      <4>1. m = [n |-> n, means |-> Invented]
        BY <3>1, <3>4
      <4> QED
        BY <1>3, <3>2, <4>1 DEF Marker
    <3> QED
      BY <3>3, <3>4
  <2>2. CASE tier \notin {"none", "simple"} /\ m \in Findings
    <3>1. Fanned /\ merging = Nodes + 1 /\ Merges(shown, Absorbed)
      BY <1>1, <1>3, <2>2 DEF CitationsIInv, StageInv, CarryInv, Fanned
    <3> QED
      BY <2>2, <3>1, FindingsMean
  <2>3. CASE tier \notin {"none", "simple"} /\ m \in [n : 1 .. MaxMarker, means : {Invented}]
    <3>1. m.n \in Nat \ {0}
      BY <1>3, <2>3
    <3> QED
      BY <1>3, <2>3, <3>1 DEF Marker
  <2> QED
    BY <1>2, <2>1, <2>2, <2>3
<1>5. /\ draft' \in Seq(Marker) /\ Len(draft') = Len(draft) + 1
      /\ DOMAIN draft' = DOMAIN draft \cup {Len(draft) + 1}
      /\ \A k \in DOMAIN draft : draft'[k] = draft[k]
      /\ draft'[Len(draft) + 1] = m
  BY <1>2, <1>3, <1>4, AppendProperties
<1>6. CitationTypes'
  <2>1. Len(draft') <= MaxMarkers
    BY <1>1, <1>3, <1>5
  <2> QED
    BY <1>1, <1>5, <2>1 DEF CitationsIInv, CitationTypes, mergeVars
<1>7. StageInv'
  BY <1>1 DEF CitationsIInv, StageInv, Fanned, mergeVars
<1>8. NodesInv'
  BY <1>1 DEF CitationsIInv, NodesInv
<1>9. CarryInv'
  <2>1. Absorbed' = Absorbed
    BY <1>1 DEF Absorbed, mergeVars
  <2> QED
    BY <1>1, <2>1 DEF CitationsIInv, CarryInv, Merges, Fanned
<1>10. DraftInv'
  BY <1>1, <1>4, <1>5 DEF CitationsIInv, DraftInv
<1>11. OutInv'
  BY <1>1 DEF OutInv
<1> QED
  BY <1>6, <1>7, <1>8, <1>9, <1>10, <1>11 DEF CitationsIInv

LEMMA SaidStep == CitationsIInv /\ Said => CitationsIInv'
<1> SUFFICES ASSUME CitationsIInv, Said PROVE CitationsIInv'
  OBVIOUS
<1>1. /\ stage = "say" /\ stage' = "check"
      /\ UNCHANGED <<tier, gate, results, mergeVars, shown, draft, abstained, flagged, stored>>
  BY DEF Said
<1>2. CitationTypes' /\ StageInv'
  BY <1>1 DEF CitationsIInv, CitationTypes, StageInv, Fanned, mergeVars
<1>3. OutInv'
  BY <1>1 DEF OutInv
<1> QED
  BY <1>1, <1>2, <1>3, QuietKeeps DEF CitationsIInv

\* The numbers the list does not have are all flagged.
LEMMA InvalidIsRest ==
  ASSUME CitationTypes
  PROVE  /\ Invalid(draft, Len(shown)) \subseteq Nat \ {0}
         /\ \A k \in DOMAIN draft : draft[k].n \in DOMAIN shown \cup Invalid(draft, Len(shown))
<1>1. shown \in Seq(Source) /\ draft \in Seq(Marker)
  BY DEF CitationTypes
<1>2. DOMAIN shown = 1 .. Len(shown)
  BY <1>1
<1>3. \A k \in DOMAIN draft : draft[k] \in Marker
  BY <1>1
<1>4. \A k \in DOMAIN draft : draft[k].n \in Nat \ {0}
  BY <1>3 DEF Marker
<1> QED
  BY <1>2, <1>4 DEF Invalid

LEMMA CheckStreamedStep == CitationsIInv /\ CheckStreamed => CitationsIInv'
<1> SUFFICES ASSUME CitationsIInv, CheckStreamed PROVE CitationsIInv'
  OBVIOUS
<1>1. /\ stage = "check" /\ tier # "run" /\ stage' = "store"
      /\ flagged' = IF gate = "off" \/ (shown = <<>> /\ tier # "complex") THEN {}
                    ELSE Invalid(draft, Len(shown))
      /\ streamed' = Text(draft, FALSE, flagged')
      /\ UNCHANGED <<tier, gate, results, mergeVars, shown, draft, abstained, stored>>
  BY DEF CheckStreamed
<1>2. /\ Invalid(draft, Len(shown)) \subseteq Nat \ {0}
      /\ \A k \in DOMAIN draft : draft[k].n \in DOMAIN shown \cup Invalid(draft, Len(shown))
  BY InvalidIsRest DEF CitationsIInv
<1>3. /\ abstained = FALSE /\ tier \in {"none", "simple", "complex", "run"}
      /\ gate # "off" /\ tier = "simple" => shown # <<>>
  BY <1>1 DEF CitationsIInv, StageInv, CitationTypes
<1>4. CitationTypes'
  BY <1>1, <1>2 DEF CitationsIInv, CitationTypes, mergeVars
<1>5. StageInv'
  BY <1>1 DEF CitationsIInv, StageInv, Fanned, mergeVars
<1>6. OutInv'
  <2>1. Final' = Text(draft', FALSE, flagged')
    BY <1>1, <1>3 DEF Final
  <2>2. gate' # "off" /\ tier' # "none" => \A k \in DOMAIN draft' : draft'[k].n \in DOMAIN shown' \cup flagged'
    BY <1>1, <1>2, <1>3
  <2> QED
    BY <1>1, <1>3, <2>1, <2>2 DEF OutInv
<1> QED
  BY <1>1, <1>4, <1>5, <1>6, QuietKeeps DEF CitationsIInv

LEMMA CheckComposedStep == CitationsIInv /\ CheckComposed => CitationsIInv'
<1> SUFFICES ASSUME CitationsIInv, CheckComposed PROVE CitationsIInv'
  OBVIOUS
<1>1. /\ stage = "check" /\ tier = "run" /\ stage' = "store"
      /\ UNCHANGED <<tier, gate, results, mergeVars, shown, draft, streamed, stored>>
  BY DEF CheckComposed
<1>2. \/ abstained' = TRUE /\ flagged' = flagged
      \/ /\ gate = "off" \/ shown # <<>>
         /\ flagged' = IF gate = "off" THEN {} ELSE Invalid(draft, Len(shown))
         /\ abstained' = abstained
  BY DEF CheckComposed, MustReplace
<1>3. /\ Invalid(draft, Len(shown)) \subseteq Nat \ {0}
      /\ \A k \in DOMAIN draft : draft[k].n \in DOMAIN shown \cup Invalid(draft, Len(shown))
  BY InvalidIsRest DEF CitationsIInv
<1>4. CitationTypes'
  <2>1. abstained' \in BOOLEAN /\ flagged' \subseteq Nat \ {0}
    BY <1>2, <1>3 DEF CitationsIInv, CitationTypes
  <2> QED
    BY <1>1, <2>1 DEF CitationsIInv, CitationTypes, mergeVars
<1>5. StageInv'
  BY <1>1 DEF CitationsIInv, StageInv, Fanned, mergeVars
<1>6. OutInv'
  BY <1>1, <1>2, <1>3 DEF OutInv
<1> QED
  BY <1>1, <1>4, <1>5, <1>6, QuietKeeps DEF CitationsIInv

LEMMA StoreStep == CitationsIInv /\ Store => CitationsIInv'
<1> SUFFICES ASSUME CitationsIInv, Store PROVE CitationsIInv'
  OBVIOUS
<1>1. /\ stage = "store" /\ stage' = "done" /\ stored' = Final
      /\ UNCHANGED <<tier, gate, results, mergeVars, shown, draft, abstained, flagged, streamed>>
  BY DEF Store, Final
<1>2. CitationTypes' /\ StageInv'
  BY <1>1 DEF CitationsIInv, CitationTypes, StageInv, Fanned, mergeVars
<1>3. Final' = Final
  BY <1>1 DEF Final
<1>4. OutInv'
  BY <1>1, <1>3 DEF CitationsIInv, OutInv
<1> QED
  BY <1>1, <1>2, <1>4, QuietKeeps DEF CitationsIInv

LEMMA DisconnectStep == CitationsIInv /\ Disconnect => CitationsIInv'
<1> SUFFICES ASSUME CitationsIInv, Disconnect PROVE CitationsIInv'
  OBVIOUS
<1>1. /\ stage \in {"say", "check", "store"} /\ stage' = "gone"
      /\ UNCHANGED <<tier, gate, results, mergeVars, shown, draft, abstained, flagged, streamed, stored>>
  BY DEF Disconnect
<1>2. CitationTypes' /\ StageInv'
  BY <1>1 DEF CitationsIInv, CitationTypes, StageInv, Fanned, mergeVars
<1>3. OutInv'
  BY <1>1 DEF OutInv
<1> QED
  BY <1>1, <1>2, <1>3, QuietKeeps DEF CitationsIInv

LEMMA CitationsStay == CitationsIInv /\ UNCHANGED citationVars => CitationsIInv'
<1> SUFFICES ASSUME CitationsIInv, UNCHANGED citationVars PROVE CitationsIInv'
  OBVIOUS
<1>1. UNCHANGED <<tier, gate, stage, results, mergeVars, shown, draft, abstained, flagged, streamed, stored>>
  BY DEF citationVars
<1>2. CitationTypes' /\ StageInv'
  BY <1>1 DEF CitationsIInv, CitationTypes, StageInv, Fanned, mergeVars
<1>3. Final' = Final
  BY <1>1 DEF Final
<1>4. OutInv'
  BY <1>1, <1>3 DEF CitationsIInv, OutInv
<1> QED
  BY <1>1, <1>2, <1>4, QuietKeeps DEF CitationsIInv

LEMMA CitationsInductive == CitationsSpec => []CitationsIInv
<1>1. CitationsIInv /\ [CitationsNext]_citationVars => CitationsIInv'
  BY RouteTierStep, GatherStep, NodeAnswersStep, CollectAllStep, TakeSourceStep, NextResultStep,
     AnnounceStep, SayStep, SaidStep, CheckStreamedStep, CheckComposedStep, StoreStep,
     DisconnectStep, CitationsStay DEF CitationsNext, Told
<1> QED
  BY <1>1, CitationsStart, PTL DEF CitationsSpec

-----------------------------------------------------------------------------

\* EveryChunkIsCarried, NothingFromMemory and StoredIsStreamed, with the types: however many
\* nodes answered and whatever they cited, the merged list of a run has each cited document
\* once, with the text of every chunk cited, and nothing else (_dedup_sources); with the gate
\* on nothing is answered without a source; and the turn kept is the one that was streamed.
THEOREM CitationsAreSafe == CitationsSpec => []CitationsInv
<1>1. CitationsIInv => CitationsInv
  <2> SUFFICES ASSUME CitationsIInv PROVE CitationsInv
    OBVIOUS
  <2>1. CitationsTypeOK
    BY DEF CitationsIInv, CitationTypes, CitationsTypeOK, Result
  <2>2. EveryChunkIsCarried
    <3> SUFFICES ASSUME Fanned, stage \in {"say", "check", "done"}
                 PROVE  LET cited == UNION {ToSet(results[i].sources) : i \in DOMAIN results}
                        IN  /\ \A i, j \in DOMAIN shown : shown[i].label = shown[j].label => i = j
                            /\ UNION {shown[i].texts : i \in DOMAIN shown} = cited \ Textless
                            /\ {shown[i].label : i \in DOMAIN shown} = {Label[c] : c \in cited}
      BY DEF EveryChunkIsCarried, Fanned
    <3> DEFINE cited == UNION {ToSet(results[i].sources) : i \in DOMAIN results}
    <3>1. merging = Nodes + 1 /\ Nodes \in Nat /\ DOMAIN results \subseteq 1 .. Nodes
      BY CitationsAssumption DEF CitationsIInv, StageInv, CitationTypes
    <3>2. \A i \in DOMAIN results : i < merging
      BY <3>1
    <3>3. \A i \in DOMAIN results : \A k \in DOMAIN results[i].sources : results[i].sources[k] \in Chunks
      BY RetrievedChunks DEF CitationsIInv, CitationTypes, Result
    <3>4. Absorbed = cited
      BY <3>2, <3>3 DEF Absorbed, ToSet
    <3>5. Merges(shown, cited)
      BY <3>4 DEF CitationsIInv, CarryInv
    <3> HIDE DEF cited
    <3>6. UNION {shown[i].texts : i \in DOMAIN shown} = cited \ Textless
      <4>1. \A c \in cited \ Textless : \E i \in DOMAIN shown : c \in shown[i].texts
        <5> SUFFICES ASSUME NEW c \in cited \ Textless PROVE \E i \in DOMAIN shown : c \in shown[i].texts
          OBVIOUS
        <5>1. \E i \in DOMAIN shown : shown[i].label = Label[c] /\ (c \in Textless \/ c \in shown[i].texts)
          BY <3>5 DEF Merges
        <5> QED
          BY <5>1
      <4> QED
        BY <3>5, <4>1 DEF Merges
    <3>7. {shown[i].label : i \in DOMAIN shown} = {Label[c] : c \in cited}
      <4>1. \A i \in DOMAIN shown : \E c \in cited : shown[i].label = Label[c]
        BY <3>5 DEF Merges
      <4>2. \A c \in cited : \E i \in DOMAIN shown : shown[i].label = Label[c]
        BY <3>5 DEF Merges
      <4> QED
        BY <4>1, <4>2
    <3>8. \A i, j \in DOMAIN shown : shown[i].label = shown[j].label => i = j
      BY <3>5 DEF Merges
    <3> QED
      BY <3>6, <3>7, <3>8 DEF cited
  <2>3. NothingFromMemory
    <3> SUFFICES ASSUME gate # "off"
                 PROVE  /\ stage = "done" /\ tier \in {"simple", "run"} /\ shown = <<>> =>
                             stored.abstention \/ (DOMAIN results = {} /\ stored.markers = <<>>)
                        /\ \A i \in DOMAIN results :
                             results[i].sources = <<>> => results[i].abstention
      BY DEF NothingFromMemory
    <3>1. \A i \in DOMAIN results : results[i].sources = <<>> => results[i].abstention
      BY DEF CitationsIInv, NodesInv
    <3>2. ASSUME stage = "done", tier \in {"simple", "run"}, shown = <<>>
          PROVE  stored.abstention \/ (DOMAIN results = {} /\ stored.markers = <<>>)
      <4>1. stored = Text(IF abstained THEN <<>> ELSE draft, abstained, flagged)
        BY <3>2 DEF CitationsIInv, OutInv, Final
      <4>2. stored.abstention = abstained /\ stored.markers = IF abstained THEN <<>> ELSE draft
        BY <4>1 DEF Text
      <4>3. abstained \/ (DOMAIN results = {} /\ draft = <<>>)
        BY <3>2 DEF CitationsIInv, OutInv
      <4>4. CASE abstained
        BY <4>2, <4>4
      <4>5. CASE ~abstained
        BY <4>2, <4>3, <4>5
      <4> QED
        BY <4>4, <4>5
    <3> QED
      BY <3>1, <3>2
  <2>4. StoredIsStreamed
    BY DEF CitationsIInv, OutInv, StoredIsStreamed
  <2> QED
    BY <2>1, <2>2, <2>3, <2>4 DEF CitationsInv
<1> QED
  BY <1>1, CitationsInductive, PTL

\* renumber_result and verify_citations: with the gate on, a number in what is kept points at
\* the document its author meant, or is flagged, or was the composing model's own; and none a
\* node made up survives: MarkersMean, for any number of nodes, sources and markers.
THEOREM MarkersKeepMeaning == CitationsSpec => []MarkersMean
<1>1. CitationsIInv => MarkersMean
  <2> SUFFICES ASSUME CitationsIInv, stage = "done", gate # "off", tier # "none",
                      NEW i \in DOMAIN stored.markers
               PROVE  LET m == stored.markers[i]
                      IN  /\ m.means # Fabricated
                          /\ m.n \in DOMAIN shown \/ m.n \in stored.note
                          /\ m.n \in DOMAIN shown /\ m.means # Invented => shown[m.n].label = m.means
    BY DEF MarkersMean
  <2>1. stored = Text(IF abstained THEN <<>> ELSE draft, abstained, flagged)
    BY DEF CitationsIInv, OutInv, Final
  <2>2. stored.note = flagged /\ stored.markers = IF abstained THEN <<>> ELSE draft
    BY <2>1 DEF Text
  <2>3. ~abstained /\ stored.markers = draft
    <3>1. CASE abstained
      BY <2>2, <3>1
    <3>2. CASE ~abstained
      BY <2>2, <3>2
    <3> QED
      BY <3>1, <3>2
  <2> QED
    BY <2>2, <2>3 DEF CitationsIInv, DraftInv, OutInv
<1> QED
  BY <1>1, CitationsInductive, PTL

-----------------------------------------------------------------------------
(* Search: the chunks of the corpus *)


\* A chunk of the corpus in a revision: as it was found, or as it was replaced.
Of(c, rev) == IF rev = 0 THEN Original(c) ELSE Indexed(c, "shared", rev)
TextOf(c, rev) == <<"shared", c["source"], c["chunk_index"], rev>>

Revisions == 0 .. MaxRevision
Shared == {Of(c, rev) : c \in Corpus, rev \in Revisions}

\* A chunk of the corpus has a source and a position, and no text yet.
LEMMA CorpusShape ==
  ASSUME NEW c \in Corpus
  PROVE  /\ c = [f \in DOMAIN c |-> c[f]]
         /\ "source" \in DOMAIN c /\ "chunk_index" \in DOMAIN c /\ "text" \notin DOMAIN c
         /\ c["chunk_index"] \in Nat
         /\ \A f \in DOMAIN c : c[f] # Empty
         /\ \A rev \in Revisions : TextOf(c, rev) # Empty
         /\ c["source"] \in Sources
BY SearchAssumption DEF TextOf, Revisions, Sources

\* Indexing a chunk adds its text and keeps the rest.
LEMMA IndexedShape ==
  ASSUME NEW c \in Corpus, NEW rev \in Revisions
  PROVE  LET m == Indexed(c, "shared", rev)
         IN  /\ m = [f \in DOMAIN m |-> m[f]]
             /\ DOMAIN m = DOMAIN c \cup {"text"}
             /\ m["source"] = c["source"] /\ m["text"] = TextOf(c, rev)
             /\ m["chunk_index"] = c["chunk_index"]
             /\ \A f \in DOMAIN m : m[f] # Empty
<1> DEFINE t == TextOf(c, rev)
           m == With(c, "text", t)
<1>1. Indexed(c, "shared", rev) = m
  BY DEF Indexed, TextOf
<1>2. /\ DOMAIN m = DOMAIN c \cup {"text"} /\ m = [f \in DOMAIN m |-> m[f]]
      /\ \A f \in DOMAIN c : m[f] = c[f]
      /\ m["text"] = t
  <2>1. "text" \notin DOMAIN c
    BY CorpusShape
  <2> HIDE DEF t
  <2>2. DOMAIN With(c, "text", t) = DOMAIN c \cup {"text"}
    BY DEF With
  <2>3. With(c, "text", t) = [f \in DOMAIN With(c, "text", t) |-> With(c, "text", t)[f]]
    BY DEF With
  <2>4. \A f \in DOMAIN c : With(c, "text", t)[f] = c[f]
    BY DEF With
  <2>5. With(c, "text", t)["text"] = t
    BY <2>1 DEF With
  <2> QED
    BY <2>2, <2>3, <2>4, <2>5
<1>3. t # Empty
  BY CorpusShape
<1> HIDE DEF m, t
<1>4. \A f \in DOMAIN m : m[f] # Empty
  BY <1>2, <1>3, CorpusShape
<1>5. m["source"] = c["source"] /\ m["chunk_index"] = c["chunk_index"]
  BY <1>2, CorpusShape
<1>6. t = TextOf(c, rev)
  BY DEF t
<1> QED
  BY <1>1, <1>2, <1>4, <1>5, <1>6

\* What a row of the corpus is known to be.
LEMMA OfShape ==
  ASSUME NEW c \in Corpus, NEW rev \in Revisions
  PROVE  /\ Of(c, rev) = [f \in DOMAIN Of(c, rev) |-> Of(c, rev)[f]]
         /\ "source" \in DOMAIN Of(c, rev) /\ "text" \in DOMAIN Of(c, rev)
         /\ Of(c, rev)["source"] = c["source"] /\ Of(c, rev)["text"] = TextOf(c, rev)
         /\ \A f \in DOMAIN Of(c, rev) : Of(c, rev)[f] # Empty
         /\ "chunk_index" \in DOMAIN Of(c, rev) => Of(c, rev)["chunk_index"] = c["chunk_index"]
<1>1. 0 \in Revisions
  BY SearchAssumption DEF Revisions
<1>2. CASE rev # 0 \/ c["source"] \notin Legacy
  <2>1. Of(c, rev) = Indexed(c, "shared", rev)
    BY <1>2 DEF Of, Original
  <2> DEFINE m == Indexed(c, "shared", rev)
  <2>2. /\ m = [f \in DOMAIN m |-> m[f]]
        /\ DOMAIN m = DOMAIN c \cup {"text"}
        /\ m["source"] = c["source"] /\ m["text"] = TextOf(c, rev)
        /\ m["chunk_index"] = c["chunk_index"]
        /\ \A f \in DOMAIN m : m[f] # Empty
    BY IndexedShape
  <2>3. "source" \in DOMAIN c
    BY CorpusShape
  <2> HIDE DEF m
  <2> QED
    BY <2>1, <2>2, <2>3 DEF m
<1>3. CASE rev = 0 /\ c["source"] \in Legacy
  <2> DEFINE known == Indexed(c, "shared", 0)
             m == [f \in DOMAIN known \ {"chunk_index"} |-> known[f]]
  <2>1. Of(c, rev) = m
    BY <1>3 DEF Of, Original
  <2>2. /\ DOMAIN known = DOMAIN c \cup {"text"}
        /\ known["source"] = c["source"] /\ known["text"] = TextOf(c, 0)
        /\ \A f \in DOMAIN known : known[f] # Empty
    BY <1>1, IndexedShape
  <2> HIDE DEF known
  <2>3. /\ DOMAIN m = DOMAIN known \ {"chunk_index"} /\ m = [f \in DOMAIN m |-> m[f]]
        /\ \A f \in DOMAIN m : m[f] = known[f]
    OBVIOUS
  <2>4. "source" \in DOMAIN m /\ "text" \in DOMAIN m /\ "chunk_index" \notin DOMAIN m
    BY <2>2, <2>3, CorpusShape
  <2> HIDE DEF m
  <2> QED
    BY <1>3, <2>1, <2>2, <2>3, <2>4
<1> QED
  BY <1>2, <1>3

\* Columns and rest, put together, are the metadata again: an absent key stays absent.
LEMMA MergeSplit ==
  ASSUME NEW m, m = [f \in DOMAIN m |-> m[f]], \A f \in DOMAIN m : m[f] # Empty,
         "chunk_index" \in DOMAIN m => m["chunk_index"] \in Nat
  PROVE  Merge(Split(m)) = m
<1> DEFINE column == [f \in Columns |-> IF f \in DOMAIN m THEN m[f] ELSE Empty]
           index == IF "chunk_index" \in DOMAIN m THEN m["chunk_index"] ELSE -1
           rest == [f \in DOMAIN m \ Promoted |-> m[f]]
           row == Split(m)
           full == DOMAIN rest \cup {g \in Columns : column[g] # Empty}
                     \cup {g \in {"chunk_index"} : index >= 0}
           value(f) == CASE f \in Columns -> column[f]
                         [] f = "chunk_index" -> index
                         [] OTHER -> rest[f]
<1>1. row.column = column /\ row.index = index /\ row.rest = rest
  BY DEF Split
<1>2. Merge(row) = [f \in full |-> value(f)]
  <2> HIDE DEF column, index, rest, row
  <2> QED
    BY <1>1 DEF Merge
<1>3. {g \in Columns : column[g] # Empty} = Columns \cap DOMAIN m
  OBVIOUS
<1>4. {g \in {"chunk_index"} : index >= 0} = {"chunk_index"} \cap DOMAIN m
  OBVIOUS
<1>5. DOMAIN rest = DOMAIN m \ Promoted
  OBVIOUS
<1>6. full = DOMAIN m
  <2> HIDE DEF column, index, rest
  <2> QED
    BY <1>3, <1>4, <1>5 DEF Promoted
<1>7. ASSUME NEW f \in DOMAIN m PROVE value(f) = m[f]
  BY DEF Promoted, Columns
<1> HIDE DEF full, value
<1>8. [f \in full |-> value(f)] = [f \in DOMAIN m |-> m[f]]
  BY <1>6, <1>7
<1> QED
  BY <1>2, <1>8

\* What is written to a store is read as it was.
LEMMA RoundTrip ==
  ASSUME NEW c \in Corpus, NEW rev \in Revisions, NEW kind
  PROVE  Read(kind, Stored(kind, Of(c, rev))) = Of(c, rev)
<1> DEFINE m == Of(c, rev)
<1>1. Merge(Split(m)) = m
  <2>1. /\ m = [f \in DOMAIN m |-> m[f]] /\ \A f \in DOMAIN m : m[f] # Empty
        /\ "chunk_index" \in DOMAIN m => m["chunk_index"] \in Nat
    BY OfShape, CorpusShape
  <2> HIDE DEF m
  <2> QED
    BY <2>1, MergeSplit
<1> HIDE DEF m
<1>2. Read(kind, Stored(kind, m)) = m
  BY <1>1 DEF Read, Stored
<1> QED
  BY <1>2 DEF m

\* The text tells the chunk and the revision.
LEMMA OfInjective ==
  ASSUME NEW c \in Corpus, NEW d \in Corpus, NEW r \in Revisions, NEW q \in Revisions,
         TextOf(c, r) = TextOf(d, q)
  PROVE  c = d /\ r = q
<1>1. c["source"] = d["source"] /\ c["chunk_index"] = d["chunk_index"] /\ r = q
  BY DEF TextOf
<1> QED
  BY <1>1, SearchAssumption

-----------------------------------------------------------------------------
(* What the stores hold                                                        *)

Rewrites == [at : {"idle", "delete", "upsert"}, source : Sources \cup {Whatever},
             store : Nat, revision : Revisions, length : Nat]

WriteType ==
  /\ backend \in Backend
  /\ stores = [i \in DOMAIN backend |-> stores[i]]
  /\ dirty \subseteq Sources
  /\ rewrite \in Rewrites
  /\ rewrite.at # "idle" =>
       rewrite.source \in dirty /\ rewrite.store \in DOMAIN backend /\ rewrite.revision > 0
  /\ \A i \in DOMAIN backend : \A row \in stores[i] :
       \E c \in Corpus, rev \in 0 .. rewrite.revision : row = Stored(backend[i], Of(c, rev))

OwnRows(i, s) == {m \in Items(i) : m["source"] = s}

\* A document is in a store in one revision, and the stores agree on a document that is
\* committed.  Of the one in hand they have nothing or the old before the turn of the
\* store has come, and what it is replaced with afterwards.
StoreInv ==
  /\ \A i \in DOMAIN backend : \A m, n \in Items(i) :
       m["source"] = n["source"] => m["text"][4] = n["text"][4]
  /\ \A i, j \in DOMAIN backend : \A s \in Sources \ dirty : OwnRows(i, s) = OwnRows(j, s)
  /\ rewrite.at = "delete" => \A i \in DOMAIN backend :
       /\ i < rewrite.store => OwnRows(i, rewrite.source) = {}
       /\ \A m \in OwnRows(i, rewrite.source) : m["text"][4] < rewrite.revision
  /\ rewrite.at = "upsert" => \A i \in DOMAIN backend :
       OwnRows(i, rewrite.source) = IF i < rewrite.store THEN Renewed ELSE {}

\* There is at least one store.
LEMMA BackendShape ==
  ASSUME backend \in Backend
  PROVE  /\ backend \in Seq({"pgvector", "milvus"}) /\ Len(backend) \in Nat \ {0}
         /\ DOMAIN backend = 1 .. Len(backend) /\ 1 \in DOMAIN backend
<1>1. backend \in Seq({"pgvector", "milvus"}) /\ backend # <<>>
  BY SearchAssumption
<1>2. Len(backend) \in Nat /\ DOMAIN backend = 1 .. Len(backend) /\ Len(backend) # 0
  BY <1>1, EmptySeq, LenProperties
<1> QED
  BY <1>1, <1>2

\* What a store gives back is a chunk of the corpus, not newer than the last replacement.
LEMMA ItemsAre ==
  ASSUME WriteType, NEW i \in DOMAIN backend, NEW m \in Items(i)
  PROVE  /\ \E c \in Corpus, rev \in 0 .. rewrite.revision : m = Of(c, rev)
         /\ m["source"] \in Sources /\ m["text"][4] \in 0 .. rewrite.revision
         /\ m["text"][2] = m["source"]
         /\ "chunk_index" \in DOMAIN m => m["chunk_index"] \in Nat
<1>1. PICK row \in stores[i] : m = Read(backend[i], row)
  BY DEF Items
<1>2. PICK c \in Corpus, rev \in 0 .. rewrite.revision : row = Stored(backend[i], Of(c, rev))
  BY <1>1 DEF WriteType
<1>3. rev \in Revisions
  <2>1. rewrite.revision \in Revisions
    BY DEF WriteType, Rewrites
  <2>2. MaxRevision \in Nat
    BY SearchAssumption
  <2> QED
    BY <2>1, <2>2 DEF Revisions
<1>4. m = Of(c, rev)
  BY <1>1, <1>2, <1>3, RoundTrip
<1>5. Of(c, rev)["text"] = <<"shared", c["source"], c["chunk_index"], rev>>
  BY <1>3, OfShape DEF TextOf
<1> QED
  BY <1>3, <1>4, <1>5, OfShape, CorpusShape

\* A replacement is of its document and revision.
LEMMA RenewedAre ==
  ASSUME WriteType, rewrite.at # "idle", NEW m \in Renewed
  PROVE  /\ \E c \in Corpus : m = Of(c, rewrite.revision)
         /\ m["source"] = rewrite.source /\ m["text"][4] = rewrite.revision
         /\ m["text"][2] = rewrite.source
<1>1. PICK c \in Corpus : /\ c["source"] = rewrite.source
                         /\ m = Indexed(c, "shared", rewrite.revision)
  BY DEF Renewed
<1>2. rewrite.revision \in Revisions /\ rewrite.revision # 0
  BY DEF WriteType, Revisions, Rewrites
<1>3. m = Of(c, rewrite.revision)
  BY <1>1, <1>2 DEF Of
<1>4. Of(c, rewrite.revision)["text"] = <<"shared", c["source"], c["chunk_index"], rewrite.revision>>
  BY <1>2, OfShape DEF TextOf
<1>5. Of(c, rewrite.revision)["source"] = c["source"]
  BY <1>2, OfShape
<1> QED
  BY <1>1, <1>3, <1>4, <1>5

\* A deletion and an addition, as the reads see them.
LEMMA Deleted ==
  ASSUME WriteType, DeleteBySource
  PROVE  \A i \in DOMAIN backend : Items(i)' =
           IF i = rewrite.store THEN {m \in Items(i) : m["source"] # rewrite.source} ELSE Items(i)
<1> SUFFICES ASSUME NEW i \in DOMAIN backend
             PROVE  Items(i)' = IF i = rewrite.store
                                THEN {m \in Items(i) : m["source"] # rewrite.source} ELSE Items(i)
  OBVIOUS
<1>1. backend' = backend /\ i \in DOMAIN stores
  BY DEF DeleteBySource, turnVars, WriteType
<1>2. stores'[i] = IF i = rewrite.store
                   THEN {row \in stores[i] : Read(backend[i], row)["source"] # rewrite.source}
                   ELSE stores[i]
  BY <1>1 DEF DeleteBySource, WriteType
<1>3. Items(i)' = {Read(backend[i], row) : row \in stores'[i]}
  BY <1>1 DEF Items, Read, Merge
<1> QED
  BY <1>2, <1>3 DEF Items

\* The store written to has the new chunks too, and the others what they had.
LEMMA Upserted ==
  ASSUME WriteType, Upsert
  PROVE  \A i \in DOMAIN backend : Items(i)' =
           IF i = rewrite.store THEN Items(i) \cup Renewed ELSE Items(i)
<1> SUFFICES ASSUME NEW i \in DOMAIN backend
             PROVE  Items(i)' = IF i = rewrite.store THEN Items(i) \cup Renewed ELSE Items(i)
  OBVIOUS
<1>1. backend' = backend /\ i \in DOMAIN stores
  BY DEF Upsert, turnVars, WriteType
<1>2. stores'[i] = IF i = rewrite.store
                   THEN stores[i] \cup {Stored(backend[i], m) : m \in Renewed} ELSE stores[i]
  BY <1>1 DEF Upsert, WriteType
<1>3. Items(i)' = {Read(backend[i], row) : row \in stores'[i]}
  BY <1>1 DEF Items, Read, Merge
<1>4. ASSUME NEW m \in Renewed PROVE Read(backend[i], Stored(backend[i], m)) = m
  <2>1. PICK c \in Corpus : m = Of(c, rewrite.revision)
    BY RenewedAre DEF Upsert
  <2>2. rewrite.revision \in Revisions
    BY DEF WriteType, Rewrites
  <2> QED
    BY <2>1, <2>2, RoundTrip
<1>5. CASE i = rewrite.store
  <2>1. Items(i)' = {Read(backend[i], row) : row \in stores[i]}
                      \cup {Read(backend[i], Stored(backend[i], m)) : m \in Renewed}
    BY <1>2, <1>3, <1>5
  <2>2. {Read(backend[i], Stored(backend[i], m)) : m \in Renewed} = Renewed
    BY <1>4
  <2> QED
    BY <1>5, <2>1, <2>2 DEF Items
<1>6. CASE i # rewrite.store
  BY <1>2, <1>3, <1>6 DEF Items
<1> QED
  BY <1>5, <1>6

\* The next store is one of those configured, or the replacement goes on.
LEMMA OnwardsIs ==
  ASSUME WriteType, rewrite.at # "idle", NEW then \in {"idle", "upsert"}
  PROVE  /\ Onwards(then) \in Rewrites
         /\ Onwards(then).source = rewrite.source /\ Onwards(then).revision = rewrite.revision
         /\ Onwards(then).length = rewrite.length
         /\ Onwards(then).store \in DOMAIN backend
         /\ \/ /\ rewrite.store < Len(backend)
               /\ Onwards(then).at = rewrite.at /\ Onwards(then).store = rewrite.store + 1
            \/ /\ rewrite.store = Len(backend)
               /\ Onwards(then).at = then /\ Onwards(then).store = 1
<1>1. rewrite \in Rewrites /\ rewrite.store \in 1 .. Len(backend) /\ Len(backend) \in Nat
  BY BackendShape DEF WriteType
<1>2. DOMAIN backend = 1 .. Len(backend) /\ 1 \in DOMAIN backend
  BY BackendShape DEF WriteType
<1>3. CASE rewrite.store < Len(backend)
  <2> DEFINE k == rewrite.store + 1
  <2>1. Onwards(then) = [rewrite EXCEPT !.store = k]
    BY <1>3 DEF Onwards
  <2>2. k \in 1 .. Len(backend) /\ k \in Nat
    BY <1>1, <1>3
  <2>3. k = rewrite.store + 1
    OBVIOUS
  <2> HIDE DEF k
  <2>4. /\ Onwards(then) \in Rewrites
        /\ Onwards(then).source = rewrite.source /\ Onwards(then).revision = rewrite.revision
        /\ Onwards(then).length = rewrite.length
        /\ Onwards(then).at = rewrite.at /\ Onwards(then).store = k
    BY <1>1, <2>1, <2>2 DEF Rewrites
  <2>5. k \in DOMAIN backend
    BY <1>2, <2>2
  <2> QED
    BY <1>3, <2>3, <2>4, <2>5
<1>4. CASE rewrite.store = Len(backend)
  <2>1. Onwards(then) = [rewrite EXCEPT !.at = then, !.store = 1]
    BY <1>1, <1>4 DEF Onwards
  <2>2. /\ Onwards(then) \in Rewrites
        /\ Onwards(then).source = rewrite.source /\ Onwards(then).revision = rewrite.revision
        /\ Onwards(then).length = rewrite.length
        /\ Onwards(then).at = then /\ Onwards(then).store = 1
    <3>1. DOMAIN rewrite = {"at", "source", "store", "revision", "length"}
      BY <1>1 DEF Rewrites
    <3>2. Onwards(then).source = rewrite.source /\ Onwards(then).revision = rewrite.revision
          /\ Onwards(then).length = rewrite.length
      BY <2>1, <3>1
    <3>3. Onwards(then).at = then /\ Onwards(then).store = 1
      BY <2>1, <3>1
    <3>4. Onwards(then) \in Rewrites
      <4>1. rewrite \in Rewrites /\ then \in {"idle", "delete", "upsert"} /\ 1 \in Nat
        BY <1>1
      <4>2. [rewrite EXCEPT !.at = then, !.store = 1] \in Rewrites
        BY <4>1 DEF Rewrites
      <4> QED
        BY <2>1, <4>2
    <3> QED
      BY <3>2, <3>3, <3>4
  <2> QED
    BY <1>2, <1>4, <2>2
<1> QED
  BY <1>1, <1>3, <1>4

\* The stores start alike, each document in the revision of the corpus.
LEMMA WriteInit == SearchInit => WriteType /\ StoreInv
<1> SUFFICES ASSUME SearchInit PROVE WriteType /\ StoreInv
  OBVIOUS
<1>1. 0 \in Revisions /\ rewrite = Idle /\ dirty = {} /\ backend \in Backend
  BY SearchAssumption DEF Revisions, SearchInit
<1>2. /\ rewrite \in Rewrites /\ rewrite.at = "idle" /\ rewrite.revision = 0
  BY <1>1 DEF Rewrites, Idle
<1>3. stores = [i \in DOMAIN backend |-> {Stored(backend[i], Original(c)) : c \in Corpus}]
  BY DEF SearchInit
<1>4. \A c \in Corpus : Of(c, 0) = Original(c)
  BY DEF Of
<1>5. WriteType
  <2>1. stores = [i \in DOMAIN backend |-> stores[i]]
    BY <1>3
  <2>2. ASSUME NEW i \in DOMAIN backend, NEW row \in stores[i]
        PROVE  \E c \in Corpus, rev \in 0 .. rewrite.revision : row = Stored(backend[i], Of(c, rev))
    <3>1. PICK c \in Corpus : row = Stored(backend[i], Original(c))
      BY <1>3
    <3>2. 0 \in 0 .. rewrite.revision
      BY <1>2
    <3> QED
      BY <1>4, <3>1, <3>2
  <2> QED
    BY <1>1, <1>2, <2>1, <2>2 DEF WriteType
<1>6. ASSUME NEW i \in DOMAIN backend PROVE Items(i) = {Original(c) : c \in Corpus}
  <2>1. Items(i) = {Read(backend[i], Stored(backend[i], Original(c))) : c \in Corpus}
    BY <1>3 DEF Items
  <2>2. ASSUME NEW c \in Corpus PROVE Read(backend[i], Stored(backend[i], Original(c))) = Original(c)
    BY <1>1, <1>4, RoundTrip
  <2> QED
    BY <2>1, <2>2
<1>7. ASSUME NEW i \in DOMAIN backend, NEW m \in Items(i) PROVE m["text"][4] = 0
  BY <1>2, <1>5, ItemsAre
<1>8. \A i, j \in DOMAIN backend : \A s \in Sources \ dirty : OwnRows(i, s) = OwnRows(j, s)
  BY <1>6 DEF OwnRows
<1> QED
  BY <1>2, <1>5, <1>7, <1>8 DEF StoreInv

Writes == (\E s \in Sources : StartRewrite(s)) \/ DeleteBySource \/ Upsert \/ WriteFails

\* No write puts anything into a store that is not a chunk of the corpus.
LEMMA WriteTypeStep ==
  ASSUME WriteType, Writes
  PROVE  WriteType'
<1>1. backend' = backend /\ backend \in Backend /\ MaxRevision \in Nat
  BY SearchAssumption DEF Writes, StartRewrite, DeleteBySource, Upsert, WriteFails, turnVars, WriteType
<1>2. rewrite \in Rewrites /\ rewrite.revision \in Nat
  BY <1>1 DEF WriteType, Rewrites, Revisions
<1> DEFINE Rows(r, st) == \A i \in DOMAIN backend : \A row \in st[i] :
             \E c \in Corpus, rev \in 0 .. r : row = Stored(backend[i], Of(c, rev))
<1>3. ASSUME NEW s \in Sources, StartRewrite(s) PROVE WriteType'
  <2>1. PICK n \in 1 .. Cardinality({m \in Corpus : m["source"] = s}) :
          rewrite' = [at |-> "delete", source |-> s, store |-> 1,
                      revision |-> rewrite.revision + 1, length |-> n]
    BY <1>3 DEF StartRewrite
  <2>2. n \in Nat /\ rewrite.revision + 1 \in Revisions /\ 1 \in Nat
    BY <1>1, <1>2, <1>3 DEF StartRewrite, Revisions
  <2>3. rewrite' \in Rewrites /\ rewrite'.revision = rewrite.revision + 1
        /\ rewrite'.source = s /\ rewrite'.store = 1
    BY <2>1, <2>2 DEF Rewrites
  <2>4. stores' = stores /\ dirty' = dirty \cup {s}
    BY <1>3 DEF StartRewrite
  <2>5. Rows(rewrite'.revision, stores')
    <3>1. Rows(rewrite.revision, stores)
      BY DEF WriteType
    <3>2. 0 .. rewrite.revision \subseteq 0 .. rewrite'.revision
      BY <1>2, <2>3
    <3> QED
      BY <2>4, <3>1, <3>2
  <2>6. 1 \in DOMAIN backend
    BY <1>1, BackendShape
  <2>7. rewrite'.revision > 0
    BY <1>2, <2>3
  <2>8. stores' = [i \in DOMAIN backend' |-> stores'[i]] /\ dirty' \subseteq Sources
    BY <1>1, <2>4 DEF WriteType
  <2> QED
    BY <1>1, <2>3, <2>4, <2>5, <2>6, <2>7, <2>8 DEF WriteType
<1>4. ASSUME DeleteBySource PROVE WriteType'
  <2>1. rewrite.at # "idle" /\ rewrite' = Onwards("upsert") /\ dirty' = dirty
    BY <1>4 DEF DeleteBySource
  <2>2. /\ rewrite' \in Rewrites /\ rewrite'.source = rewrite.source
        /\ rewrite'.revision = rewrite.revision /\ rewrite'.store \in DOMAIN backend
    BY <2>1, OnwardsIs
  <2>3. stores' = [i \in DOMAIN backend' |-> stores'[i]]
    BY <1>1, <1>4 DEF DeleteBySource, WriteType
  <2>4. \A i \in DOMAIN backend : stores'[i] \subseteq stores[i]
    BY <1>4 DEF DeleteBySource, WriteType
  <2>5. Rows(rewrite'.revision, stores')
    BY <2>2, <2>4 DEF WriteType
  <2> QED
    BY <1>1, <2>1, <2>2, <2>3, <2>5 DEF WriteType
<1>5. ASSUME Upsert PROVE WriteType'
  <2>1. rewrite.at # "idle" /\ rewrite' = Onwards("idle") /\ dirty' \subseteq dirty
    BY <1>5 DEF Upsert
  <2>2. /\ rewrite' \in Rewrites /\ rewrite'.source = rewrite.source
        /\ rewrite'.revision = rewrite.revision /\ rewrite'.store \in DOMAIN backend
    BY <2>1, OnwardsIs
  <2>3. rewrite'.at # "idle" => dirty' = dirty
    BY <1>5 DEF Upsert
  <2>4. stores' = [i \in DOMAIN backend' |-> stores'[i]]
    BY <1>1, <1>5 DEF Upsert, WriteType
  <2>5. ASSUME NEW i \in DOMAIN backend, NEW row \in stores'[i]
        PROVE  \E c \in Corpus, rev \in 0 .. rewrite.revision : row = Stored(backend[i], Of(c, rev))
    <3>1. CASE row \in stores[i]
      BY <3>1 DEF WriteType
    <3>2. CASE row \notin stores[i]
      <4>1. PICK m \in Renewed : row = Stored(backend[i], m)
        BY <1>5, <3>2 DEF Upsert, WriteType
      <4>2. PICK c \in Corpus : m = Of(c, rewrite.revision)
        BY <2>1, RenewedAre
      <4> QED
        BY <1>2, <4>1, <4>2
    <3> QED
      BY <3>1, <3>2
  <2> QED
    BY <1>1, <2>1, <2>2, <2>3, <2>4, <2>5 DEF WriteType
<1>6. ASSUME WriteFails PROVE WriteType'
  <2>1. rewrite' = [rewrite EXCEPT !.at = "idle", !.store = 1] /\ UNCHANGED <<stores, dirty>>
    BY <1>6 DEF WriteFails
  <2>2. rewrite' \in Rewrites /\ rewrite'.at = "idle" /\ rewrite'.revision = rewrite.revision
    BY <1>2, <2>1 DEF Rewrites
  <2> QED
    BY <1>1, <2>1, <2>2 DEF WriteType
<1> QED
  BY <1>3, <1>4, <1>5, <1>6 DEF Writes

\* Nor two revisions of a document, nor what other stores do not get.
LEMMA StoreInvStep ==
  ASSUME WriteType, StoreInv, Writes
  PROVE  StoreInv'
<1>1. backend' = backend /\ DOMAIN backend = 1 .. Len(backend) /\ Len(backend) \in Nat
  BY BackendShape DEF Writes, StartRewrite, DeleteBySource, Upsert, WriteFails, turnVars, WriteType
<1>2. ASSUME stores' = stores PROVE \A i \in DOMAIN backend : Items(i)' = Items(i)
  BY <1>1, <1>2 DEF Items, Read, Merge
<1>3. ASSUME NEW s \in Sources, StartRewrite(s) PROVE StoreInv'
  <2>1. /\ rewrite'.at = "delete" /\ rewrite'.store = 1 /\ rewrite'.revision = rewrite.revision + 1
        /\ stores' = stores /\ dirty' = dirty \cup {s}
    BY <1>3 DEF StartRewrite
  <2>2. \A i \in DOMAIN backend : Items(i)' = Items(i)
    BY <1>2, <2>1
  <2>3. \A i \in DOMAIN backend : \A m, n \in Items(i)' :
          m["source"] = n["source"] => m["text"][4] = n["text"][4]
    BY <2>2 DEF StoreInv
  <2>4. \A i, j \in DOMAIN backend : \A t \in Sources \ dirty' : OwnRows(i, t)' = OwnRows(j, t)'
    BY <2>1, <2>2 DEF StoreInv, OwnRows
  <2>5. ASSUME NEW i \in DOMAIN backend, NEW m \in Items(i) PROVE m["text"][4] < rewrite'.revision
    <3>1. m["text"][4] \in 0 .. rewrite.revision /\ rewrite.revision \in Nat
      BY <2>5, ItemsAre DEF WriteType, Rewrites, Revisions
    <3> QED
      BY <2>1, <3>1
  <2>6. ASSUME NEW i \in DOMAIN backend PROVE ~(i < rewrite'.store)
    BY <1>1, <2>1
  <2> QED
    BY <1>1, <2>1, <2>2, <2>3, <2>4, <2>5, <2>6 DEF StoreInv, OwnRows
<1>4. ASSUME DeleteBySource PROVE StoreInv'
  <2> DEFINE k == rewrite.store
             s == rewrite.source
  <2>1. rewrite.at = "delete" /\ rewrite' = Onwards("upsert") /\ dirty' = dirty
    BY <1>4 DEF DeleteBySource
  <2>2. /\ rewrite'.source = s /\ rewrite'.revision = rewrite.revision
        /\ \/ k < Len(backend) /\ rewrite'.at = "delete" /\ rewrite'.store = k + 1
           \/ k = Len(backend) /\ rewrite'.at = "upsert" /\ rewrite'.store = 1
    BY <2>1, OnwardsIs
  <2>3. k \in DOMAIN backend /\ s \in dirty /\ k \in Nat
    BY <1>1, <2>1 DEF WriteType
  <2>4. \A i \in DOMAIN backend : Items(i)' =
          IF i = k THEN {m \in Items(i) : m["source"] # s} ELSE Items(i)
    BY <1>4, Deleted
  <2>5. \A i \in DOMAIN backend : Items(i)' \subseteq Items(i)
    BY <2>4
  <2>6. \A i \in DOMAIN backend : i <= k => OwnRows(i, s)' = {}
    <3> SUFFICES ASSUME NEW i \in DOMAIN backend, i <= k PROVE OwnRows(i, s)' = {}
      OBVIOUS
    <3>1. OwnRows(i, s)' = {m \in Items(i)' : m["source"] = s}
      BY <2>2 DEF OwnRows
    <3>2. CASE i = k
      BY <2>4, <3>1, <3>2
    <3>3. CASE i < k
      BY <2>1, <2>5, <3>1, <3>3 DEF StoreInv, OwnRows
    <3> QED
      BY <1>1, <2>3, <3>2, <3>3
  <2>7. \A i \in DOMAIN backend : \A m, n \in Items(i)' :
          m["source"] = n["source"] => m["text"][4] = n["text"][4]
    BY <2>5 DEF StoreInv
  <2>8. ASSUME NEW i \in DOMAIN backend, NEW t \in Sources \ dirty PROVE OwnRows(i, t)' = OwnRows(i, t)
    BY <2>3, <2>4, <2>8 DEF OwnRows
  <2>9. \A i, j \in DOMAIN backend : \A t \in Sources \ dirty' : OwnRows(i, t)' = OwnRows(j, t)'
    <3>1. \A i, j \in DOMAIN backend : \A t \in Sources \ dirty : OwnRows(i, t) = OwnRows(j, t)
      BY DEF StoreInv
    <3> QED
      BY <2>1, <2>8, <3>1
  <2>10. CASE k < Len(backend)
    <3>1. rewrite'.at = "delete" /\ rewrite'.store = k + 1
      BY <2>2, <2>10
    <3>2. \A i \in DOMAIN backend : i < rewrite'.store => OwnRows(i, rewrite.source)' = {}
      BY <1>1, <2>3, <2>6, <2>2, <3>1 DEF OwnRows
    <3>3. \A i \in DOMAIN backend : \A m \in OwnRows(i, rewrite.source)' :
            m["text"][4] < rewrite'.revision
      BY <2>1, <2>2, <2>5 DEF StoreInv, OwnRows
    <3> QED
      BY <1>1, <2>7, <2>9, <3>1, <3>2, <3>3 DEF StoreInv
  <2>12. CASE k = Len(backend)
    <3>1. rewrite'.at = "upsert" /\ rewrite'.store = 1
      BY <2>2, <2>12
    <3>2. \A i \in DOMAIN backend : OwnRows(i, rewrite.source)' = {} /\ ~(i < rewrite'.store)
      BY <1>1, <2>3, <2>6, <2>2, <2>12, <3>1 DEF OwnRows
    <3> QED
      BY <1>1, <2>7, <2>9, <3>1, <3>2 DEF StoreInv
  <2> QED
    BY <2>2, <2>10, <2>12
<1>5. ASSUME Upsert PROVE StoreInv'
  <2> DEFINE k == rewrite.store
             s == rewrite.source
  <2>1. rewrite.at = "upsert" /\ rewrite' = Onwards("idle")
        /\ dirty' = IF rewrite'.at = "idle" THEN dirty \ {s} ELSE dirty
    BY <1>5 DEF Upsert
  <2>2. /\ rewrite'.source = s /\ rewrite'.revision = rewrite.revision
        /\ rewrite'.length = rewrite.length
        /\ \/ k < Len(backend) /\ rewrite'.at = "upsert" /\ rewrite'.store = k + 1
           \/ k = Len(backend) /\ rewrite'.at = "idle" /\ rewrite'.store = 1
    BY <2>1, OnwardsIs
  <2>3. k \in DOMAIN backend /\ k \in Nat /\ Renewed' = Renewed
    <3>1. k \in DOMAIN backend /\ k \in Nat
      BY <1>1, <2>1 DEF WriteType
    <3>2. Renewed' = Renewed
      BY <2>2 DEF Renewed
    <3> QED
      BY <3>1, <3>2
  <2>4. \A i \in DOMAIN backend : Items(i)' = IF i = k THEN Items(i) \cup Renewed ELSE Items(i)
    BY <1>5, Upserted
  <2>5. \A i \in DOMAIN backend : OwnRows(i, s) = IF i < k THEN Renewed ELSE {}
    BY <2>1 DEF StoreInv
  <2>6. \A m \in Renewed : m["source"] = s /\ m["text"][4] = rewrite.revision
    BY <2>1, RenewedAre
  <2>7. \A i \in DOMAIN backend : \A m, n \in Items(i)' :
          m["source"] = n["source"] => m["text"][4] = n["text"][4]
    <3> SUFFICES ASSUME NEW i \in DOMAIN backend, NEW m \in Items(i)', NEW n \in Items(i)',
                        m["source"] = n["source"]
                 PROVE  m["text"][4] = n["text"][4]
      OBVIOUS
    <3>1. CASE m \in Items(i) /\ n \in Items(i)
      BY <3>1 DEF StoreInv
    <3>2. CASE i = k /\ (m \in Renewed \/ n \in Renewed)
      <4>1. m["source"] = s /\ n["source"] = s
        BY <2>6, <3>2
      <4>2. OwnRows(i, s) = {}
        BY <2>3, <2>5, <3>2
      <4>3. m \in Renewed /\ n \in Renewed
        BY <2>4, <4>1, <4>2 DEF OwnRows
      <4> QED
        BY <2>6, <4>3
    <3> QED
      BY <2>4, <3>1, <3>2
  <2>8. ASSUME NEW i \in DOMAIN backend, NEW t, t # s PROVE OwnRows(i, t)' = OwnRows(i, t)
    BY <2>4, <2>6, <2>8 DEF OwnRows
  <2>9. ASSUME NEW i \in DOMAIN backend PROVE OwnRows(i, s)' = IF i < k + 1 THEN Renewed ELSE {}
    <3>1. OwnRows(i, s)' = {m \in Items(i)' : m["source"] = s}
      BY <2>2 DEF OwnRows
    <3>2. OwnRows(i, s)' = OwnRows(i, s) \cup IF i = k THEN Renewed ELSE {}
      BY <2>4, <2>6, <3>1 DEF OwnRows
    <3>3. i \in Nat
      BY <1>1
    <3> QED
      BY <2>3, <2>5, <3>2, <3>3
  <2>10. CASE k < Len(backend)
    <3>1. rewrite'.at = "upsert" /\ rewrite'.store = k + 1 /\ dirty' = dirty
      BY <2>1, <2>2, <2>10
    <3>2. s \in dirty
      BY <2>1 DEF WriteType
    <3>3. \A i, j \in DOMAIN backend : \A t \in Sources \ dirty' : OwnRows(i, t)' = OwnRows(j, t)'
      <4>1. \A i, j \in DOMAIN backend : \A t \in Sources \ dirty : OwnRows(i, t) = OwnRows(j, t)
        BY DEF StoreInv
      <4> QED
        BY <2>8, <3>1, <3>2, <4>1
    <3>4. \A i \in DOMAIN backend :
            OwnRows(i, rewrite.source)' = IF i < rewrite'.store THEN Renewed' ELSE {}
      BY <2>2, <2>3, <2>9, <3>1 DEF OwnRows
    <3> QED
      BY <1>1, <2>7, <3>1, <3>3, <3>4 DEF StoreInv
  <2>11. CASE k = Len(backend)
    <3>1. rewrite'.at = "idle" /\ dirty' = dirty \ {s}
      BY <2>1, <2>2, <2>11
    <3>2. \A i \in DOMAIN backend : OwnRows(i, s)' = Renewed
      BY <1>1, <2>9, <2>11
    <3>3. \A i, j \in DOMAIN backend : \A t \in Sources \ dirty' : OwnRows(i, t)' = OwnRows(j, t)'
      <4>1. \A i, j \in DOMAIN backend : \A t \in Sources \ dirty : OwnRows(i, t) = OwnRows(j, t)
        BY DEF StoreInv
      <4> SUFFICES ASSUME NEW i \in DOMAIN backend, NEW j \in DOMAIN backend, NEW t \in Sources \ dirty'
                   PROVE  OwnRows(i, t)' = OwnRows(j, t)'
        OBVIOUS
      <4>2. CASE t = s
        BY <2>2, <3>2, <4>2 DEF OwnRows
      <4>3. CASE t # s
        BY <2>8, <3>1, <4>1, <4>3
      <4> QED
        BY <4>2, <4>3
    <3> QED
      BY <1>1, <2>7, <3>1, <3>3 DEF StoreInv
  <2> QED
    BY <2>2, <2>10, <2>11
<1>6. ASSUME WriteFails PROVE StoreInv'
  <2>1. rewrite'.at = "idle" /\ stores' = stores /\ dirty' = dirty
    BY <1>6 DEF WriteFails, WriteType, Rewrites
  <2>2. \A i \in DOMAIN backend : Items(i)' = Items(i)
    BY <1>2, <2>1
  <2> QED
    BY <1>1, <2>1, <2>2 DEF StoreInv, OwnRows
<1> QED
  BY <1>3, <1>4, <1>5, <1>6 DEF Writes

-----------------------------------------------------------------------------
(* Lists of hits                                                               *)

Kinds == {"cosine", "bm25", "normalized"}
Hits(M) == {Hit(m, kind) : m \in M, kind \in Kinds}
Apart(hits) == \A i, j \in DOMAIN hits : i # j => hits[i].meta # hits[j].meta

\* Each element of the first is one of the second, and of different ones different.
Chosen(t, s) ==
  \E f \in [DOMAIN t -> DOMAIN s] :
    /\ \A i, j \in DOMAIN t : i # j => f[i] # f[j]
    /\ \A i \in DOMAIN t : t[i] = s[f[i]]

\* The fields of a hit.
LEMMA HitShape ==
  ASSUME NEW M, NEW hit \in Hits(M)
  PROVE  /\ hit.meta \in M /\ hit.kind \in Kinds /\ hit.score = Score(hit.kind, hit.meta)
         /\ hit.texts = <<hit.meta["text"]>> /\ hit = Hit(hit.meta, hit.kind)
<1>1. PICK m \in M, kind \in Kinds : hit = Hit(m, kind)
  BY DEF Hits
<1>2. hit.meta = m /\ hit.kind = kind /\ hit.score = Score(kind, m) /\ hit.texts = <<m["text"]>>
  BY <1>1 DEF Hit
<1> QED
  BY <1>1, <1>2

\* A list of hits of some chunks is one of hits of more.
LEMMA HitsGrow ==
  ASSUME NEW M, NEW N, M \subseteq N, NEW h \in Seq(Hits(M))
  PROVE  h \in Seq(Hits(N))
<1>1. Hits(M) \subseteq Hits(N)
  BY DEF Hits
<1> QED
  BY <1>1, SeqMonotonic

\* What is chosen from different hits is different,
LEMMA ChosenApart ==
  ASSUME NEW t, NEW s, Chosen(t, s), Apart(s)
  PROVE  Apart(t)
BY DEF Chosen, Apart

\* is one of them,
LEMMA ChosenFrom ==
  ASSUME NEW t, NEW s, Chosen(t, s)
  PROVE  \A i \in DOMAIN t : \E j \in DOMAIN s : t[i] = s[j]
BY DEF Chosen

\* and may be chosen from.
LEMMA ChosenTwice ==
  ASSUME NEW t, NEW s, NEW r, Chosen(t, s), Chosen(s, r)
  PROVE  Chosen(t, r)
<1>1. PICK f \in [DOMAIN t -> DOMAIN s] : /\ \A i, j \in DOMAIN t : i # j => f[i] # f[j]
                                        /\ \A i \in DOMAIN t : t[i] = s[f[i]]
  BY DEF Chosen
<1>2. PICK g \in [DOMAIN s -> DOMAIN r] : /\ \A i, j \in DOMAIN s : i # j => g[i] # g[j]
                                        /\ \A i \in DOMAIN s : s[i] = r[g[i]]
  BY DEF Chosen
<1> DEFINE h == [i \in DOMAIN t |-> g[f[i]]]
<1>3. /\ h \in [DOMAIN t -> DOMAIN r]
      /\ \A i, j \in DOMAIN t : i # j => h[i] # h[j]
      /\ \A i \in DOMAIN t : t[i] = r[h[i]]
  BY <1>1, <1>2
<1> HIDE DEF h
<1> QED
  BY <1>3 DEF Chosen

\* The smaller of two numbers is one of them.
LEMMA LeastIs ==
  ASSUME NEW a \in Nat, NEW b \in Nat
  PROVE  Least(a, b) \in Nat /\ Least(a, b) <= a /\ Least(a, b) <= b /\ Least(a, b) \in {a, b}
BY DEF Least

\* The first n of a list.
LEMMA UpToIs ==
  ASSUME NEW X, NEW s \in Seq(X), NEW n \in Nat
  PROVE  /\ UpTo(n, s) \in Seq(X) /\ Len(UpTo(n, s)) = Least(n, Len(s))
         /\ \A i \in 1 .. Least(n, Len(s)) : UpTo(n, s)[i] = s[i]
         /\ Chosen(UpTo(n, s), s)
<1> DEFINE k == Least(n, Len(s))
           t == SubSeq(s, 1, k)
<1>1. Len(s) \in Nat /\ DOMAIN s = 1 .. Len(s) /\ \A i \in 1 .. Len(s) : s[i] \in X
  BY ElementOfSeq, LenProperties
<1>2. k \in Nat /\ k <= Len(s)
  BY <1>1, LeastIs
<1> HIDE DEF k
<1>3. /\ t \in Seq(X) /\ Len(t) = (IF 1 <= k THEN k - 1 + 1 ELSE 0)
      /\ \A i \in 1 .. k - 1 + 1 : t[i] = s[1 + i - 1]
  <2>1. \A i \in 1 .. k : s[i] \in X
    BY <1>1, <1>2
  <2> QED
    BY <1>2, <2>1, SubSeqProperties
<1> HIDE DEF t
<1>4. Len(t) = k /\ \A i \in 1 .. k : t[i] = s[i]
  BY <1>2, <1>3
<1>5. DOMAIN t = 1 .. k
  BY <1>3, <1>4, LenProperties
<1>6. Chosen(t, s)
  <2> DEFINE f == [i \in DOMAIN t |-> i]
  <2>1. f \in [DOMAIN t -> DOMAIN s] /\ \A i \in DOMAIN t : f[i] = i
    BY <1>1, <1>2, <1>5
  <2> HIDE DEF f
  <2> QED
    BY <1>4, <1>5, <2>1 DEF Chosen
<1>7. UpTo(n, s) = t
  BY DEF UpTo, t, k
<1> QED
  BY <1>3, <1>4, <1>6, <1>7 DEF k

\* What the comprehension keeps of a list: those, and each once.
LEMMA PickedIs ==
  ASSUME NEW X, NEW s \in Seq(X), NEW I \in SUBSET DOMAIN s
  PROVE  /\ Picked(s, I) \in Seq(X) /\ Len(Picked(s, I)) <= Len(s)
         /\ Chosen(Picked(s, I), s)
         /\ \A i \in DOMAIN Picked(s, I) : \E j \in I : Picked(s, I)[i] = s[j]
         /\ \A j \in I : \E i \in DOMAIN Picked(s, I) : Picked(s, I)[i] = s[j]
         /\ Len(Picked(s, I)) = Cardinality(I)
         /\ Picked(s, I) = <<>> <=> I = {}
<1> DEFINE p == Picked(s, I)
           n == Cardinality(I)
           f == [i \in 1 .. n |-> Ith(I, i)]
<1>1. /\ IsFiniteSet(I) /\ I \in SUBSET Nat /\ n \in Nat
      /\ p \in Seq(X) /\ Len(p) = n /\ DOMAIN p = 1 .. n
      /\ \A i \in 1 .. n : Ith(I, i) \in I /\ p[i] = s[Ith(I, i)]
  BY PickedIsSeq
<1>2. \A i, j \in 1 .. n : i # j => Ith(I, i) # Ith(I, j)
  <2> SUFFICES ASSUME NEW i \in 1 .. n, NEW j \in 1 .. n, i < j PROVE Ith(I, i) # Ith(I, j)
    BY <1>1
  <2>1. Ith(I, i) < Ith(I, j)
    BY <1>1, IthGrows
  <2>2. Ith(I, i) \in Nat
    BY <1>1
  <2> QED
    BY <2>1, <2>2
<1>3. {p[i] : i \in DOMAIN p} = {s[k] : k \in I}
  BY PickedRange
<1>4. n <= Len(s)
  <2>1. DOMAIN s = 1 .. Len(s) /\ Len(s) \in Nat
    BY LenProperties
  <2>2. IsFiniteSet(1 .. Len(s)) /\ Cardinality(1 .. Len(s)) = Len(s)
    BY <2>1, CardinalityOfInterval
  <2> QED
    BY <2>1, <2>2, FS_Subset
<1>5. n = 0 <=> I = {}
  BY <1>1, FS_EmptySet
<1>6. p = <<>> <=> n = 0
  BY <1>1, EmptySeq
<1> HIDE DEF p, n
<1>7. Chosen(p, s)
  <2>1. f \in [DOMAIN p -> DOMAIN s] /\ \A i \in DOMAIN p : p[i] = s[f[i]]
    BY <1>1
  <2>2. \A i, j \in DOMAIN p : i # j => f[i] # f[j]
    BY <1>1, <1>2
  <2> HIDE DEF f
  <2> QED
    BY <2>1, <2>2 DEF Chosen
<1>8. \A j \in I : \E i \in DOMAIN p : p[i] = s[j]
  BY <1>3
<1>9. \A i \in DOMAIN p : \E j \in I : p[i] = s[j]
  BY <1>3
<1> QED
  BY <1>1, <1>4, <1>5, <1>6, <1>7, <1>8, <1>9 DEF p, n

\* It begins no later than the first it keeps.
LEMMA PickedFirst ==
  ASSUME NEW X, NEW s \in Seq(X), NEW I \in SUBSET DOMAIN s, NEW k \in I
  PROVE  \E j \in I : j <= k /\ Picked(s, I)[1] = s[j]
<1>1. /\ IsFiniteSet(I) /\ I \in SUBSET Nat /\ Cardinality(I) \in Nat
      /\ \A i \in 1 .. Cardinality(I) : Ith(I, i) \in I /\ Picked(s, I)[i] = s[Ith(I, i)]
  BY PickedIsSeq
<1>2. Rank(I, k) \in 1 .. Cardinality(I) /\ Ith(I, Rank(I, k)) = k
  BY <1>1, RankOf, IthRank
<1>3. 1 \in 1 .. Cardinality(I)
  BY <1>1, <1>2
<1>4. CASE Rank(I, k) = 1
  BY <1>1, <1>2, <1>3, <1>4
<1>5. CASE 1 < Rank(I, k)
  <2>1. Ith(I, 1) < Ith(I, Rank(I, k))
    BY <1>1, <1>2, <1>3, <1>5, IthGrows
  <2> QED
    BY <1>1, <1>2, <1>3, <2>1
<1> QED
  BY <1>1, <1>2, <1>4, <1>5

\* The threshold keeps what passes, and only that.
LEMMA KeepIs ==
  ASSUME NEW X, NEW h \in Seq(X)
  PROVE  /\ Keep(h) \in Seq(X) /\ Len(Keep(h)) <= Len(h) /\ Chosen(Keep(h), h)
         /\ \A i \in DOMAIN h : Passes(h[i].kind, h[i].score) => Keep(h) # <<>>
         /\ Len(Keep(h)) = Cardinality({i \in DOMAIN h : Passes(h[i].kind, h[i].score)})
<1> DEFINE I == {i \in DOMAIN h : Passes(h[i].kind, h[i].score)}
<1>1. I \in SUBSET DOMAIN h /\ Keep(h) = Picked(h, I)
  BY DEF Keep
<1>2. \A i \in DOMAIN h : Passes(h[i].kind, h[i].score) => I # {}
  OBVIOUS
<1> HIDE DEF I
<1>3. /\ Picked(h, I) \in Seq(X) /\ Len(Picked(h, I)) <= Len(h) /\ Chosen(Picked(h, I), h)
      /\ Len(Picked(h, I)) = Cardinality(I) /\ (Picked(h, I) = <<>> <=> I = {})
  BY <1>1, PickedIs
<1> QED
  BY <1>1, <1>2, <1>3 DEF I

\* The minimal length keeps at most K, some of them if there were any, and begins with a
\* long one where there is one.
LEMMA TrimIs ==
  ASSUME NEW X, NEW h \in Seq(X)
  PROVE  /\ Trim(h) \in Seq(X) /\ Len(Trim(h)) <= K /\ Chosen(Trim(h), h)
         /\ h # <<>> => Trim(h) # <<>>
         /\ \A k \in DOMAIN h : Substantive(h[k].meta) =>
              \E j \in DOMAIN h : j <= k /\ Trim(h)[1] = h[j]
<1> DEFINE long == {i \in DOMAIN h : Substantive(h[i].meta)}
           t == IF long # {} THEN Picked(h, long) ELSE h
<1>1. long \in SUBSET DOMAIN h /\ Trim(h) = UpTo(K, t) /\ K \in Nat /\ K # 0
  BY SearchAssumption DEF Trim
<1>2. \A k \in DOMAIN h : Substantive(h[k].meta) <=> k \in long
  OBVIOUS
<1> HIDE DEF long
<1>3. t \in Seq(X) /\ Chosen(t, h) /\ (h # <<>> => t # <<>>)
  <2>1. CASE long # {}
    BY <1>1, <2>1, PickedIs
  <2>2. CASE long = {}
    <3>1. Chosen(h, h)
      <4> DEFINE f == [i \in DOMAIN h |-> i]
      <4>1. f \in [DOMAIN h -> DOMAIN h] /\ \A i \in DOMAIN h : f[i] = i
        OBVIOUS
      <4> HIDE DEF f
      <4> QED
        BY <4>1 DEF Chosen
    <3> QED
      BY <2>2, <3>1
  <2> QED
    BY <2>1, <2>2
<1>4. \A k \in long : \E j \in DOMAIN h : j <= k /\ t[1] = h[j]
  <2> SUFFICES ASSUME NEW k \in long PROVE \E j \in DOMAIN h : j <= k /\ t[1] = h[j]
    OBVIOUS
  <2>1. PICK j \in long : j <= k /\ Picked(h, long)[1] = h[j]
    BY <1>1, PickedFirst
  <2> QED
    BY <1>1, <2>1
<1> HIDE DEF t
<1>5. /\ UpTo(K, t) \in Seq(X) /\ Len(UpTo(K, t)) = Least(K, Len(t)) /\ Chosen(UpTo(K, t), t)
      /\ \A i \in 1 .. Least(K, Len(t)) : UpTo(K, t)[i] = t[i]
  BY <1>1, <1>3, UpToIs
<1>6. Len(t) \in Nat /\ (t # <<>> => Len(t) # 0)
  BY <1>3, EmptySeq, LenProperties
<1>7. Least(K, Len(t)) \in Nat /\ Least(K, Len(t)) <= K /\ (t # <<>> => Least(K, Len(t)) # 0)
  BY <1>1, <1>6, LeastIs
<1>8. t # <<>> => UpTo(K, t) # <<>> /\ UpTo(K, t)[1] = t[1]
  <2>1. Len(<<>>) = 0
    BY EmptySeq
  <2> QED
    BY <1>5, <1>7, <2>1
<1>9. Chosen(UpTo(K, t), h)
  BY <1>3, <1>5, ChosenTwice
<1>10. \A k \in DOMAIN h : h # <<>>
  BY EmptySeq
<1> QED
  BY <1>1, <1>2, <1>3, <1>4, <1>5, <1>7, <1>8, <1>9, <1>10

\* What a search by one score returns.
IsRanking(hits, S, kind, n) ==
  /\ hits \in Seq(Hits(S)) /\ Len(hits) <= n /\ Apart(hits)
  /\ \A i \in DOMAIN hits : /\ hits[i].kind = kind /\ hits[i].meta \in S
                           /\ hits[i].score = Score(kind, hits[i].meta)
  /\ \A i, j \in DOMAIN hits : i < j => hits[i].score >= hits[j].score
  /\ \A m \in S : \/ \E i \in DOMAIN hits : hits[i].meta = m
                  \/ Len(hits) = n /\ \A i \in DOMAIN hits : hits[i].score >= Score(kind, m)

\* Any order of ties that the store may choose is a ranking.
LEMMA RankedIs ==
  ASSUME NEW S, NEW kind \in Kinds, NEW n \in Nat, \A m \in S : Score(kind, m) \in Int,
         NEW hits \in Ranked(S, kind, n)
  PROVE  IsRanking(hits, S, kind, n)
<1>1. PICK s \in Leading(S, Higher(S, kind), n) : hits = [i \in DOMAIN s |-> Hit(s[i], kind)]
  BY DEF Ranked
<1>2. /\ s \in BoundedSeq(S, n)
      /\ \A i, j \in DOMAIN s : i < j => s[i] # s[j] /\ <<s[j], s[i]>> \notin Higher(S, kind)
      /\ \A m \in S : \/ \E i \in DOMAIN s : s[i] = m
                      \/ Len(s) = n /\ \A i \in DOMAIN s : <<m, s[i]>> \notin Higher(S, kind)
  BY <1>1 DEF Leading
<1>3. PICK l \in 0 .. n : s \in [1 .. l -> S]
  BY <1>2 DEF BoundedSeq, SeqOf
<1>4. s \in Seq(S) /\ Len(s) = l /\ DOMAIN s = 1 .. l /\ l \in Nat
  BY <1>3, SeqDef
<1>5. \A i \in DOMAIN s : s[i] \in S /\ hits[i] = Hit(s[i], kind) /\ hits[i].meta = s[i]
        /\ hits[i].kind = kind /\ hits[i].score = Score(kind, s[i]) /\ Score(kind, s[i]) \in Int
  BY <1>1, <1>3, <1>4 DEF Hit
<1>6. DOMAIN hits = 1 .. l
  BY <1>1, <1>4
<1>7. hits \in [1 .. l -> Hits(S)]
  BY <1>1, <1>4, <1>5, <1>6 DEF Hits
<1>8. hits \in Seq(Hits(S)) /\ Len(hits) = l
  BY <1>4, <1>7, SeqDef
<1>9. Apart(hits)
  <2>1. ASSUME NEW i \in 1 .. l, NEW j \in 1 .. l, i # j PROVE s[i] # s[j]
    <3>1. i < j \/ j < i
      BY <2>1
    <3> QED
      BY <1>2, <1>4, <3>1
  <2> QED
    BY <1>4, <1>5, <1>6, <2>1 DEF Apart
<1>12. \A a, b \in S : <<a, b>> \in Higher(S, kind) <=> Score(kind, a) > Score(kind, b)
  BY DEF Higher
<1>10. ASSUME NEW i \in DOMAIN hits, NEW j \in DOMAIN hits, i < j
       PROVE  hits[i].score >= hits[j].score
  <2>1. /\ i \in DOMAIN s /\ j \in DOMAIN s /\ s[i] \in S /\ s[j] \in S
        /\ Score(kind, s[i]) \in Int /\ Score(kind, s[j]) \in Int
        /\ hits[i].score = Score(kind, s[i]) /\ hits[j].score = Score(kind, s[j])
    BY <1>4, <1>5, <1>6
  <2>2. ~(Score(kind, s[j]) > Score(kind, s[i]))
    BY <1>2, <1>12, <1>10, <2>1
  <2> QED
    BY <2>1, <2>2
<1>11. ASSUME NEW m \in S, \A i \in DOMAIN hits : hits[i].meta # m
       PROVE  Len(hits) = n /\ \A i \in DOMAIN hits : hits[i].score >= Score(kind, m)
  <2>1. \A i \in DOMAIN s : s[i] # m
    BY <1>4, <1>5, <1>6, <1>11
  <2>2. Len(s) = n /\ \A i \in DOMAIN s : <<m, s[i]>> \notin Higher(S, kind)
    BY <1>2, <2>1
  <2>3. ASSUME NEW i \in DOMAIN hits PROVE hits[i].score >= Score(kind, m)
    <3>1. /\ i \in DOMAIN s /\ s[i] \in S /\ Score(kind, s[i]) \in Int /\ Score(kind, m) \in Int
          /\ hits[i].score = Score(kind, s[i])
      BY <1>4, <1>5, <1>6
    <3>2. ~(Score(kind, m) > Score(kind, s[i]))
      BY <1>12, <2>2, <3>1
    <3> QED
      BY <3>1, <3>2
  <2> QED
    BY <1>4, <1>8, <2>2, <2>3
<1>13. Len(hits) <= n
  BY <1>3, <1>8
<1>14. \A i \in DOMAIN hits : /\ hits[i].kind = kind /\ hits[i].meta \in S
                              /\ hits[i].score = Score(kind, hits[i].meta)
  BY <1>4, <1>5, <1>6
<1>15. \A m \in S : \/ \E i \in DOMAIN hits : hits[i].meta = m
                    \/ Len(hits) = n /\ \A i \in DOMAIN hits : hits[i].score >= Score(kind, m)
  BY <1>11
<1> QED
  BY <1>8, <1>9, <1>10, <1>13, <1>14, <1>15 DEF IsRanking

\* A pass of a lower score is one of a higher.
LEMMA PassesGrow ==
  ASSUME NEW kind, NEW a \in Int, NEW b \in Int, a >= b, Passes(kind, b)
  PROVE  Passes(kind, a)
BY SearchAssumption DEF Passes

\* A search of one score finds something of what is due.
LEMMA DueIsFound ==
  ASSUME NEW S, NEW kind \in Kinds, \A m \in S : Score(kind, m) \in Int,
         NEW n \in Nat \ {0}, NEW hits, IsRanking(hits, S, kind, n), Due(S, kind) # {}
  PROVE  Keep(Trim(hits)) # <<>>
<1> DEFINE t == Trim(hits)
<1>1. n \in Nat /\ n > 0
  OBVIOUS
<1>2. /\ hits \in Seq(Hits(S)) /\ Len(hits) <= n
      /\ \A i \in DOMAIN hits : /\ hits[i].kind = kind /\ hits[i].meta \in S
                               /\ hits[i].score = Score(kind, hits[i].meta)
      /\ \A i, j \in DOMAIN hits : i < j => hits[i].score >= hits[j].score
      /\ \A m \in S : \/ \E i \in DOMAIN hits : hits[i].meta = m
                      \/ Len(hits) = n /\ \A i \in DOMAIN hits : hits[i].score >= Score(kind, m)
  BY DEF IsRanking
<1>3. PICK c \in S : /\ Passes(kind, Score(kind, c))
                     /\ (Substantive(c) \/ \A o \in S : Passes(kind, Score(kind, o)))
  BY DEF Due
<1>4. DOMAIN hits = 1 .. Len(hits) /\ Len(hits) \in Nat
  BY <1>2, LenProperties
<1>5. hits # <<>>
  <2> SUFFICES ASSUME hits = <<>> PROVE FALSE
    OBVIOUS
  <2>1. Len(hits) = 0 /\ DOMAIN hits = {}
    BY <1>4, EmptySeq
  <2> QED
    BY <1>1, <1>2, <1>3, <2>1
<1>6. /\ t \in Seq(Hits(S)) /\ t # <<>> /\ Chosen(t, hits)
      /\ \A k \in DOMAIN hits : Substantive(hits[k].meta) =>
           \E j \in DOMAIN hits : j <= k /\ t[1] = hits[j]
  BY <1>2, <1>5, TrimIs
<1> HIDE DEF t
<1>7. 1 \in DOMAIN t
  <2>1. DOMAIN t = 1 .. Len(t) /\ Len(t) \in Nat /\ Len(t) # 0
    BY <1>6, LenProperties, EmptySeq
  <2> QED
    BY <2>1
<1>8. PICK j \in DOMAIN hits : t[1] = hits[j]
  BY <1>6, <1>7, ChosenFrom
<1>9. Passes(t[1].kind, t[1].score)
  <2>1. CASE \A i \in DOMAIN hits : Passes(kind, hits[i].score)
    BY <1>2, <1>8, <2>1
  <2>2. CASE \E i \in DOMAIN hits : hits[i].meta = c
    <3>1. PICK k \in DOMAIN hits : hits[k].meta = c
      BY <2>2
    <3>2. CASE Substantive(c)
      <4>1. PICK i \in DOMAIN hits : i <= k /\ t[1] = hits[i]
        BY <1>6, <3>1, <3>2
      <4>2. hits[i].score \in Int /\ hits[k].score \in Int /\ hits[i].score >= hits[k].score
        <5>1. hits[i].score \in Int /\ hits[k].score \in Int
          BY <1>2
        <5>2. CASE i = k
          BY <5>1, <5>2
        <5>3. CASE i < k
          BY <1>2, <5>1, <5>3
        <5>4. i \in Nat /\ k \in Nat
          BY <1>4
        <5> QED
          BY <4>1, <5>2, <5>3, <5>4
      <4>3. Passes(kind, hits[k].score)
        BY <1>2, <1>3, <3>1
      <4> QED
        BY <1>2, <4>1, <4>2, <4>3, PassesGrow
    <3>3. CASE \A o \in S : Passes(kind, Score(kind, o))
      BY <1>2, <1>8, <3>3
    <3> QED
      BY <1>3, <3>2, <3>3
  <2>3. CASE \A i \in DOMAIN hits : hits[i].score >= Score(kind, c)
    <3>1. hits[j].score >= Score(kind, c) /\ hits[j].score \in Int /\ Score(kind, c) \in Int
      BY <1>2, <2>3
    <3>2. Passes(kind, hits[j].score)
      BY <1>3, <3>1, PassesGrow
    <3> QED
      BY <1>2, <1>8, <3>2
  <2> QED
    BY <1>2, <2>2, <2>3
<1> QED
  BY <1>6, <1>7, <1>9, KeepIs DEF t

-----------------------------------------------------------------------------
(* The chunks of a conversation                                                *)

\* The fields of an upload.
LEMMA UploadShape ==
  ASSUME NEW m \in Uploaded
  PROVE  \E u \in session :
           /\ m = Indexed([source |-> u[1], chunk_index |-> u[2]], "session", u[3])
           /\ "chunk_index" \in DOMAIN m /\ "text" \in DOMAIN m
           /\ m["source"] = u[1] /\ m["chunk_index"] = u[2]
           /\ m["text"] = <<"session", u[1], u[2], u[3]>>
<1>1. PICK u \in session : m = Indexed([source |-> u[1], chunk_index |-> u[2]], "session", u[3])
  BY DEF Uploaded
<1> DEFINE c == [source |-> u[1], chunk_index |-> u[2]]
<1>2. DOMAIN c = {"source", "chunk_index"} /\ c["source"] = u[1] /\ c["chunk_index"] = u[2]
  OBVIOUS
<1>3. m = With(c, "text", <<"session", c["source"], c["chunk_index"], u[3]>>)
  BY <1>1 DEF Indexed
<1> HIDE DEF c
<1>4. /\ DOMAIN m = DOMAIN c \cup {"text"}
      /\ \A f \in DOMAIN c : m[f] = c[f]
      /\ m["text"] = <<"session", c["source"], c["chunk_index"], u[3]>>
  BY <1>2, <1>3 DEF With
<1> QED
  BY <1>1, <1>2, <1>4

\* A conversation has finitely many uploads.
LEMMA UploadsFinite ==
  ASSUME session \in Sessions
  PROVE  IsFiniteSet(Uploaded)
<1> DEFINE f == [u \in session |->
                   Indexed([source |-> u[1], chunk_index |-> u[2]], "session", u[3])]
<1>1. IsFiniteSet(session)
  BY SearchAssumption
<1>2. f \in Surjection(session, Uploaded)
  BY DEF Surjection, Uploaded
<1> HIDE DEF f
<1> QED
  BY <1>1, <1>2, FS_Surjection

\* An upload has a cosine.
LEMMA UploadScore ==
  ASSUME session \in Sessions, scoring \in Scorings, NEW m \in Uploaded
  PROVE  Score("cosine", m) \in Int /\ Score("cosine", m) = Cosine(m)
<1>1. PICK u \in session : m["text"] = <<"session", u[1], u[2], u[3]>>
  BY UploadShape
<1>2. Place(m["text"]) = <<"session", u[1], u[2]>>
  BY <1>1 DEF Place
<1>3. scoring.cosine[<<"session", u[1], u[2]>>] \in Int
  BY SearchAssumption
<1> QED
  BY <1>2, <1>3 DEF Score, Cosine

\* A chunk of the corpus has a score of each kind.
LEMMA SharedScore ==
  ASSUME scoring \in Scorings, NEW m \in Shared, NEW kind \in Kinds
  PROVE  Score(kind, m) \in Int
<1>1. PICK c \in Corpus, rev \in Revisions : m = Of(c, rev)
  BY DEF Shared
<1>2. m["text"] = <<"shared", c["source"], c["chunk_index"], rev>>
  BY <1>1, OfShape DEF TextOf
<1>3. Place(m["text"]) = <<"shared", c["source"], c["chunk_index"]>>
  BY <1>2 DEF Place
<1>4. /\ scoring.cosine[<<"shared", c["source"], c["chunk_index"]>>] \in Int
      /\ scoring.bm25[<<"shared", c["source"], c["chunk_index"]>>] \in Int
  BY SearchAssumption
<1>5. Cosine(m) \in Int /\ Bm25(m) \in Int
  BY <1>3, <1>4 DEF Cosine, Bm25
<1>6. Blend(m) \in Int
  BY <1>5 DEF Blend
<1> QED
  BY <1>5, <1>6 DEF Kinds, Score

\* Of the uploads above the cutoff only those are left out for which there is no room.
LEMMA KeptUploads ==
  ASSUME session \in Sessions, scoring \in Scorings,
         NEW hits, IsRanking(hits, Uploaded, "cosine", K)
  PROVE  Len(Keep(hits)) = Least(K, Cardinality({m \in Uploaded : Passes("cosine", Cosine(m))}))
<1> DEFINE pass(i) == Passes(hits[i].kind, hits[i].score)
           I == {i \in DOMAIN hits : pass(i)}
           P == {m \in Uploaded : Passes("cosine", Cosine(m))}
           F == {hits[i].meta : i \in I}
           f == [i \in I |-> hits[i].meta]
<1>1. /\ hits \in Seq(Hits(Uploaded)) /\ Len(hits) <= K /\ Apart(hits)
      /\ \A i \in DOMAIN hits : /\ hits[i].kind = "cosine" /\ hits[i].meta \in Uploaded
                               /\ hits[i].score = Cosine(hits[i].meta)
      /\ \A m \in Uploaded :
           \/ \E i \in DOMAIN hits : hits[i].meta = m
           \/ Len(hits) = K /\ \A i \in DOMAIN hits : hits[i].score >= Cosine(m)
  BY UploadScore DEF IsRanking
<1>2. K \in Nat /\ DOMAIN hits = 1 .. Len(hits) /\ Len(hits) \in Nat /\ Len(hits) <= K
  BY <1>1, SearchAssumption, LenProperties
<1>3. IsFiniteSet(DOMAIN hits) /\ Cardinality(DOMAIN hits) = Len(hits)
  BY <1>2, CardinalityOfInterval
<1>4. IsFiniteSet(I) /\ Cardinality(I) <= Len(hits) /\ Cardinality(I) \in Nat
  BY <1>3, FS_Subset, FS_CardinalityType
<1>5. f \in Surjection(I, F) /\ f \in Injection(I, F)
  <2>1. f \in [I -> F] /\ \A i \in I : f[i] = hits[i].meta
    OBVIOUS
  <2>2. \A i, j \in I : f[i] = f[j] => i = j
    BY <1>1, <2>1 DEF Apart
  <2>3. \A m \in F : \E i \in I : f[i] = m
    OBVIOUS
  <2> HIDE DEF f, F, I
  <2> QED
    BY <2>1, <2>2, <2>3 DEF Surjection, Injection, IsInjective
<1>6. Cardinality(F) = Cardinality(I)
  BY <1>4, <1>5, FS_Surjection
<1>7. F \subseteq P
  BY <1>1
<1>8. IsFiniteSet(P)
  <2>1. P \in SUBSET Uploaded
    OBVIOUS
  <2> HIDE DEF P
  <2> QED
    BY <2>1, UploadsFinite, FS_Subset
<1>9. Cardinality(F) <= Cardinality(P) /\ Cardinality(P) \in Nat
  BY <1>7, <1>8, FS_Subset, FS_CardinalityType
<1>10. Len(Keep(hits)) = Cardinality(I)
  BY <1>1, KeepIs
<1>11. CASE F = P
  <2>1. Cardinality(P) = Cardinality(I)
    BY <1>6, <1>11
  <2> DEFINE p == Cardinality(P)
             q == Cardinality(I)
  <2>2. p = q /\ q \in Nat /\ Len(Keep(hits)) = q /\ q <= Len(hits)
    <3> HIDE DEF I, P, F, f
    <3> QED
      BY <1>4, <1>10, <2>1
  <2> HIDE DEF p, q
  <2>3. Least(K, p) = q
    <3>1. q <= K
      BY <1>2, <2>2
    <3> QED
      BY <1>2, <2>2, <3>1 DEF Least
  <2> QED
    BY <2>2, <2>3 DEF p
<1>12. CASE F # P
  <2>1. PICK m \in P : m \notin F
    BY <1>7, <1>12
  <2>2. \A i \in DOMAIN hits : hits[i].meta # m
    BY <1>1, <2>1
  <2>3. Len(hits) = K /\ \A i \in DOMAIN hits : hits[i].score >= Cosine(m)
    BY <1>1, <2>1, <2>2
  <2>4. ASSUME NEW i \in DOMAIN hits PROVE pass(i)
    <3>1. hits[i].score \in Int /\ Cosine(m) \in Int /\ Passes("cosine", Cosine(m))
      BY <1>1, <2>1, UploadScore
    <3>2. Passes("cosine", hits[i].score)
      BY <2>3, <3>1, PassesGrow
    <3> QED
      BY <1>1, <3>2
  <2>5. I = DOMAIN hits
    BY <2>4
  <2>6. Cardinality(I) = K
    BY <1>3, <2>3, <2>5
  <2> QED
    BY <1>2, <1>6, <1>9, <1>10, <2>6 DEF Least
<1> QED
  BY <1>11, <1>12

-----------------------------------------------------------------------------
(* What a search knows of its hits                                             *)

Steps == {"route", "session", "shared", "refetch", "merge", "expand", "gathered", "done", "failed"}
Asked == {Default} \cup Plans \cup {[p EXCEPT !.filter = NoFilter] : p \in Plans}
Wanted == {m \in Uploaded : Passes("cosine", Cosine(m))}
Texts == {m["text"] : m \in Primary}

TurnType == session \in Sessions /\ scoring \in Scorings /\ step \in Steps /\ how \in Asked

HitsType ==
  /\ mine \in Seq(Hits(Uploaded)) /\ Len(mine) <= K /\ Apart(mine)
  /\ theirs \in Seq(Hits(Shared)) /\ Len(theirs) <= K /\ Apart(theirs)
  /\ found \in Seq(Hits(Shared \cup Uploaded)) /\ Len(found) <= K /\ Apart(found)

\* A text was in the primary store: it does not come back once it is gone, nor does an
\* earlier one of its document.
Writing(s) ==
  /\ rewrite.at = "delete" \/ (rewrite.at = "upsert" /\ rewrite.store = 1)
  /\ rewrite.source = s
Behind(t) ==
  /\ t[4] \in Nat /\ t[4] <= rewrite.revision
  /\ Writing(t[2]) => t[4] < rewrite.revision
  /\ \A m \in OwnRows(1, t[2]) : t[4] <= m["text"][4]

Fits(m, f) ==
  /\ f.publisher # Whatever =>
       \/ "publisher" \in DOMAIN m /\ m["publisher"] \in Like[f.publisher]
       \/ Empty \in Like[f.publisher]
  /\ f.from # Whatever /\ "published_date" \in DOMAIN m => m["published_date"] >= f.from

\* A document in one revision.
Instant(M) == \A m, n \in M : m["source"] = n["source"] => m["text"][4] = n["text"][4]

Metas(hits) == {hits[i].meta : i \in DOMAIN hits}

MineInv ==
  /\ \A i \in DOMAIN mine : mine[i].kind = "cosine"
  /\ caller = "chat" /\ step \in {"shared", "refetch", "merge"} =>
       Len(mine) = Least(K, Cardinality(Wanted))

IdsInv ==
  step = "refetch" =>
    /\ fusedIds \in Seq({m["text"] : m \in Shared})
    /\ \A i \in DOMAIN fusedIds : \A m \in Shared : m["text"] = fusedIds[i] => Fits(m, how.filter)
    /\ \A i, j \in DOMAIN fusedIds : i # j => fusedIds[i] # fusedIds[j]
    /\ \A t \in relevant :
         /\ \E i \in DOMAIN fusedIds : fusedIds[i] = t
         /\ \A i \in DOMAIN fusedIds : Passes("cosine", scoring.cosine[Place(fusedIds[i])])

TheirsInv ==
  step = "merge" =>
    /\ Instant(Metas(theirs))
    /\ \A m \in Metas(theirs) : Fits(m, how.filter)

Leads ==
  /\ \A i, j \in DOMAIN found : i < j /\ IsUpload(found[j]) => IsUpload(found[i])
  /\ Cardinality({i \in DOMAIN found : IsUpload(found[i])}) = Least(K, Cardinality(Wanted))

FoundInv ==
  /\ step \in {"expand", "gathered", "done"} =>
       /\ Instant(Metas(found) \ Uploaded)
       /\ \A m \in Metas(found) \ Uploaded : Fits(m, how.filter)
  /\ step \in {"expand", "gathered"} => Leads

\* What was found is not newer than what is stored; a search that found nothing found
\* nothing that is still there.
PastInv ==
  /\ \A t \in relevant : Behind(t)
  /\ step = "merge" => \A m \in Metas(theirs) : Behind(m["text"])
  /\ step \in {"expand", "gathered"} => \A m \in Metas(found) \ Uploaded : Behind(m["text"])
  /\ step = "merge" /\ mine = <<>> /\ theirs = <<>> => relevant \cap Texts = {}
  /\ step \in {"expand", "gathered", "done"} /\ caller = "chat" /\ found = <<>> =>
       relevant \cap Texts = {}

GatherInv == TurnType /\ HitsType /\ MineInv /\ IdsInv /\ TheirsInv /\ FoundInv

\* The turn fixes the uploads and the scores.
LEMMA Unmoved ==
  ASSUME UNCHANGED turnVars
  PROVE  /\ Uploaded' = Uploaded /\ Shared' = Shared /\ Wanted' = Wanted
         /\ Hits(Uploaded)' = Hits(Uploaded) /\ Hits(Shared)' = Hits(Shared)
         /\ Hits(Shared \cup Uploaded)' = Hits(Shared \cup Uploaded)
<1>1. UNCHANGED <<backend, caller, scoring, session>>
  BY DEF turnVars
<1>2. Uploaded' = Uploaded
  BY <1>1 DEF Uploaded
<1>3. Shared' = Shared
  BY DEF Shared
<1>4. \A m : Cosine(m)' = Cosine(m) /\ Bm25(m)' = Bm25(m)
  BY <1>1 DEF Cosine, Bm25
<1>5. \A m, kind : Hit(m, kind)' = Hit(m, kind)
  BY <1>4 DEF Hit, Score, Blend
<1>6. Hits(Uploaded)' = Hits(Uploaded) /\ Hits(Shared)' = Hits(Shared)
      /\ Hits(Shared \cup Uploaded)' = Hits(Shared \cup Uploaded)
  BY <1>2, <1>3, <1>5 DEF Hits
<1>7. Wanted' = Wanted
  BY <1>2, <1>4 DEF Wanted
<1> QED
  BY <1>2, <1>3, <1>6, <1>7

\* What the primary store has is of the corpus, each document in one revision, and as new
\* as can be.
LEMMA PrimaryIs ==
  ASSUME WriteType, StoreInv
  PROVE  /\ Primary \subseteq Shared /\ Instant(Primary)
         /\ \A m \in Primary : Behind(m["text"]) /\ m["text"][2] = m["source"]
<1>1. 1 \in DOMAIN backend /\ DOMAIN backend = 1 .. Len(backend)
  BY BackendShape DEF WriteType
<1>2. rewrite.revision \in Nat /\ rewrite.revision \in Revisions /\ MaxRevision \in Nat
  BY SearchAssumption DEF WriteType, Rewrites, Revisions
<1>3. ASSUME NEW m \in Primary PROVE m \in Shared
  <2>1. PICK c \in Corpus, rev \in 0 .. rewrite.revision : m = Of(c, rev)
    BY <1>1, ItemsAre DEF Primary
  <2>2. rev \in Revisions
    BY <1>2 DEF Revisions
  <2> QED
    BY <2>1, <2>2 DEF Shared
<1>4. Instant(Primary)
  BY <1>1 DEF StoreInv, Instant, Primary
<1>5. ASSUME NEW m \in Primary PROVE Behind(m["text"]) /\ m["text"][2] = m["source"]
  <2>1. m["text"][2] = m["source"] /\ m["text"][4] \in 0 .. rewrite.revision
    BY <1>1, ItemsAre DEF Primary
  <2>2. m["text"][4] \in Nat /\ m["text"][4] <= rewrite.revision
    BY <1>2, <2>1
  <2>3. \A n \in OwnRows(1, m["source"]) : n["text"][4] = m["text"][4]
    BY <1>4 DEF OwnRows, Instant, Primary
  <2>4. ASSUME Writing(m["source"]) PROVE m["text"][4] < rewrite.revision
    <3>1. m \in OwnRows(1, rewrite.source)
      BY <2>4 DEF Writing, OwnRows, Primary
    <3>2. CASE rewrite.at = "delete"
      BY <1>1, <3>1, <3>2 DEF StoreInv
    <3>3. CASE rewrite.at = "upsert" /\ rewrite.store = 1
      BY <1>1, <3>1, <3>3 DEF StoreInv
    <3> QED
      BY <2>4, <3>2, <3>3 DEF Writing
  <2> QED
    BY <2>1, <2>2, <2>3, <2>4 DEF Behind
<1> QED
  BY <1>3, <1>4, <1>5

\* Nothing is found yet.
LEMMA GatherInit == SearchInit => GatherInv /\ PastInv
<1> SUFFICES ASSUME SearchInit PROVE GatherInv /\ PastInv
  OBVIOUS
<1>1. /\ step = "route" /\ how = Default /\ mine = <<>> /\ theirs = <<>> /\ found = <<>>
      /\ relevant = {} /\ session \in Sessions /\ scoring \in Scorings
  BY DEF SearchInit
<1>2. \A X : <<>> \in Seq(X)
  BY EmptySeq
<1>3. Len(<<>>) = 0 /\ DOMAIN <<>> = {} /\ K \in Nat
  BY EmptySeq, SearchAssumption
<1>4. TurnType
  BY <1>1 DEF TurnType, Steps, Asked
<1>5. HitsType
  BY <1>1, <1>2, <1>3 DEF HitsType, Apart
<1> QED
  BY <1>1, <1>4, <1>5 DEF GatherInv, PastInv, MineInv, IdsInv, TheirsInv, FoundInv

\* No write brings an old text back.
LEMMA BehindStays ==
  ASSUME WriteType, StoreInv, Writes, NEW t, Behind(t)
  PROVE  Behind(t)' /\ (t \notin Texts => t \notin Texts')
<1>1. 1 \in DOMAIN backend /\ DOMAIN backend = 1 .. Len(backend) /\ rewrite.revision \in Nat
  BY BackendShape DEF WriteType, Rewrites, Revisions
<1>2. /\ t[4] \in Nat /\ t[4] <= rewrite.revision
      /\ Writing(t[2]) => t[4] < rewrite.revision
      /\ \A m \in OwnRows(1, t[2]) : t[4] <= m["text"][4]
  BY DEF Behind
<1>3. backend' = backend
  BY DEF Writes, StartRewrite, DeleteBySource, Upsert, WriteFails, turnVars
<1>4. ASSUME stores' = stores PROVE Items(1)' = Items(1)
  BY <1>3, <1>4 DEF Items, Read, Merge
<1>5. ASSUME NEW s \in Sources, StartRewrite(s) PROVE Behind(t)' /\ (t \notin Texts => t \notin Texts')
  <2>1. rewrite'.revision = rewrite.revision + 1 /\ stores' = stores
    BY <1>5 DEF StartRewrite
  <2>2. Items(1)' = Items(1)
    BY <1>4, <2>1
  <2>3. t[4] < rewrite'.revision
    BY <1>1, <1>2, <2>1
  <2>4. OwnRows(1, t[2])' = OwnRows(1, t[2]) /\ Texts' = Texts
    BY <2>2 DEF OwnRows, Texts, Primary
  <2> QED
    BY <1>1, <1>2, <2>1, <2>3, <2>4 DEF Behind
<1>6. ASSUME DeleteBySource PROVE Behind(t)' /\ (t \notin Texts => t \notin Texts')
  <2>1. rewrite.at = "delete" /\ rewrite' = Onwards("upsert")
    BY <1>6 DEF DeleteBySource
  <2>2. rewrite'.source = rewrite.source /\ rewrite'.revision = rewrite.revision
    BY <2>1, OnwardsIs
  <2>3. Items(1)' \subseteq Items(1)
    BY <1>1, <1>6, Deleted
  <2>4. OwnRows(1, t[2])' \subseteq OwnRows(1, t[2]) /\ Texts' \subseteq Texts
    BY <2>3 DEF OwnRows, Texts, Primary
  <2>5. Writing(t[2])' => Writing(t[2])
    BY <2>1, <2>2 DEF Writing
  <2> QED
    BY <1>2, <2>2, <2>4, <2>5 DEF Behind
<1>7. ASSUME Upsert PROVE Behind(t)' /\ (t \notin Texts => t \notin Texts')
  <2>1. rewrite.at = "upsert" /\ rewrite' = Onwards("idle")
    BY <1>7 DEF Upsert
  <2>2. /\ rewrite'.source = rewrite.source /\ rewrite'.revision = rewrite.revision
        /\ rewrite.store \in DOMAIN backend
        /\ \/ rewrite'.at = "upsert" /\ rewrite'.store = rewrite.store + 1
           \/ rewrite'.at = "idle"
    BY <2>1, OnwardsIs DEF WriteType
  <2>3. ~Writing(t[2])'
    BY <1>1, <2>2 DEF Writing
  <2>4. CASE rewrite.store = 1
    <3>1. Items(1)' = Items(1) \cup Renewed
      BY <1>1, <1>7, <2>4, Upserted
    <3>2. \A m \in Renewed : /\ m["source"] = rewrite.source /\ m["text"][4] = rewrite.revision
                            /\ m["text"][2] = rewrite.source
      BY <2>1, RenewedAre
    <3>3. ASSUME NEW m \in OwnRows(1, t[2])' PROVE t[4] <= m["text"][4]
      <4>1. m \in Items(1)' /\ m["source"] = t[2]
        BY DEF OwnRows
      <4>2. CASE m \in Items(1)
        BY <1>2, <4>1, <4>2 DEF OwnRows
      <4>3. CASE m \in Renewed
        BY <1>2, <3>2, <4>3
      <4> QED
        BY <3>1, <4>1, <4>2, <4>3
    <3>4. ASSUME t \in Texts' PROVE t \in Texts
      <4>1. PICK m \in Items(1)' : m["text"] = t
        BY <3>4 DEF Texts, Primary
      <4>2. CASE m \in Items(1)
        BY <4>1, <4>2 DEF Texts, Primary
      <4>3. CASE m \in Renewed
        <5>1. t[4] = rewrite.revision /\ Writing(t[2])
          BY <2>1, <2>4, <3>2, <4>1, <4>3 DEF Writing
        <5> QED
          BY <1>1, <1>2, <5>1
      <4> QED
        BY <3>1, <4>1, <4>2, <4>3
    <3> QED
      BY <1>2, <2>2, <2>3, <3>3, <3>4 DEF Behind
  <2>5. CASE rewrite.store # 1
    <3>1. Items(1)' = Items(1)
      BY <1>1, <1>7, <2>5, Upserted
    <3>2. OwnRows(1, t[2])' = OwnRows(1, t[2]) /\ Texts' = Texts
      BY <3>1 DEF OwnRows, Texts, Primary
    <3> QED
      BY <1>2, <2>2, <2>3, <3>2 DEF Behind
  <2> QED
    BY <2>4, <2>5
<1>8. ASSUME WriteFails PROVE Behind(t)' /\ (t \notin Texts => t \notin Texts')
  <2>1. rewrite'.at = "idle" /\ rewrite'.revision = rewrite.revision /\ stores' = stores
    BY <1>8 DEF WriteFails, WriteType, Rewrites
  <2>2. OwnRows(1, t[2])' = OwnRows(1, t[2]) /\ Texts' = Texts
    BY <1>4, <2>1 DEF OwnRows, Texts, Primary
  <2>3. ~Writing(t[2])'
    BY <2>1 DEF Writing
  <2> QED
    BY <1>2, <2>1, <2>2, <2>3 DEF Behind
<1> QED
  BY <1>5, <1>6, <1>7, <1>8 DEF Writes

\* What was found is still known of when the stores change.
LEMMA GatherWrites ==
  ASSUME WriteType, StoreInv, GatherInv, PastInv, Writes
  PROVE  GatherInv' /\ PastInv'
<1>1. UNCHANGED <<turnVars, gatherVars>>
  BY DEF Writes, StartRewrite, DeleteBySource, Upsert, WriteFails
<1>2. UNCHANGED turnVars
  BY <1>1
<1>3. /\ Uploaded' = Uploaded /\ Shared' = Shared /\ Wanted' = Wanted
      /\ Hits(Uploaded)' = Hits(Uploaded) /\ Hits(Shared)' = Hits(Shared)
      /\ Hits(Shared \cup Uploaded)' = Hits(Shared \cup Uploaded)
  BY <1>2, Unmoved
<1>4. UNCHANGED <<caller, scoring, session, step, how, mine, fusedIds, theirs, found, relevant>>
  BY <1>1 DEF turnVars, gatherVars
<1>5. TurnType'
  BY <1>4 DEF GatherInv, TurnType
<1>6. HitsType'
  BY <1>3, <1>4 DEF GatherInv, HitsType, Apart
<1>7. MineInv' /\ IdsInv'
  BY <1>3, <1>4 DEF GatherInv, MineInv, IdsInv, Fits
<1>8. TheirsInv'
  BY <1>4 DEF GatherInv, TheirsInv, Metas, Instant, Fits
<1>9. FoundInv'
  <2>1. Leads' = Leads
    BY <1>3, <1>4 DEF Leads, IsUpload
  <2> QED
    BY <1>3, <1>4, <2>1 DEF GatherInv, FoundInv, Metas, Instant, Fits
<1>10. PastInv'
  <2>1. \A t : Behind(t) => Behind(t)' /\ (t \notin Texts => t \notin Texts')
    BY BehindStays
  <2>2. Metas(theirs)' = Metas(theirs) /\ Metas(found)' = Metas(found)
    BY <1>4 DEF Metas
  <2>3. \A t \in relevant' : Behind(t)'
    BY <1>4, <2>1 DEF PastInv
  <2>4. (step = "merge" => \A m \in Metas(theirs) : Behind(m["text"]))'
    BY <1>4, <2>1, <2>2 DEF PastInv
  <2>5. (step \in {"expand", "gathered"} => \A m \in Metas(found) \ Uploaded : Behind(m["text"]))'
    BY <1>3, <1>4, <2>1, <2>2 DEF PastInv
  <2>6. relevant \cap Texts = {} => relevant' \cap Texts' = {}
    BY <1>4, <2>1 DEF PastInv
  <2> QED
    BY <1>4, <2>3, <2>4, <2>5, <2>6 DEF PastInv
<1> QED
  BY <1>5, <1>6, <1>7, <1>8, <1>9, <1>10 DEF GatherInv

\* What a filter leaves is stored, and as the filter has it.
LEMMA CandidatesAre ==
  ASSUME WriteType, Active(how.filter) => backend[1] = "milvus", NEW m \in Candidates(how)
  PROVE  m \in Primary /\ Fits(m, how.filter)
<1>1. CASE ~Active(how.filter)
  <2>1. how.filter.publisher = Whatever /\ how.filter.from = Whatever
    BY <1>1 DEF Active, NoFilter
  <2> QED
    BY <1>1, <2>1 DEF Candidates, Fits
<1>2. CASE Active(how.filter)
  <2>1. 1 \in DOMAIN backend /\ backend[1] = "milvus"
    BY <1>2, BackendShape DEF WriteType
  <2>2. PICK row \in stores[1] : m = Merge(row) /\ Within(row, how.filter)
    BY <1>2 DEF Candidates
  <2>3. m \in Primary
    BY <2>1, <2>2 DEF Primary, Items, Read
  <2>4. PICK c \in Corpus, rev \in 0 .. rewrite.revision : row = Stored("milvus", Of(c, rev))
    BY <2>1, <2>2 DEF WriteType
  <2>5. rev \in Revisions
    <3>1. rewrite.revision \in Revisions /\ MaxRevision \in Nat
      BY SearchAssumption DEF WriteType, Rewrites
    <3> QED
      BY <3>1 DEF Revisions
  <2>6. m = Of(c, rev)
    <3>1. Read("milvus", row) = Merge(row)
      BY DEF Read
    <3> QED
      BY <2>2, <2>4, <2>5, <3>1, RoundTrip
  <2>7. row.column = [f \in Columns |-> IF f \in DOMAIN m THEN m[f] ELSE Empty]
    BY <2>4, <2>6 DEF Stored, Split
  <2>8. /\ row.column["publisher"] = IF "publisher" \in DOMAIN m THEN m["publisher"] ELSE Empty
        /\ row.column["published_date"]
             = IF "published_date" \in DOMAIN m THEN m["published_date"] ELSE Empty
    BY <2>7 DEF Columns
  <2>9. \A f \in DOMAIN m : m[f] # Empty
    BY <2>5, <2>6, OfShape
  <2> QED
    BY <2>2, <2>3, <2>8, <2>9 DEF Within, Fits
<1> QED
  BY <1>1, <1>2

\* Two chunks of one text are one.
LEMMA SharedIs ==
  ASSUME NEW m \in Shared
  PROVE  /\ \E c \in Corpus, rev \in Revisions : m = Of(c, rev) /\ m["text"] = TextOf(c, rev)
         /\ m["source"] \in Sources /\ m["text"][1] = "shared" /\ m["text"][2] = m["source"]
         /\ m["text"][4] \in Revisions
         /\ "chunk_index" \in DOMAIN m => m["chunk_index"] \in Nat /\ m["text"][3] = m["chunk_index"]
         /\ \A n \in Shared : n["text"] = m["text"] => n = m
         /\ m \notin Uploaded
<1>1. PICK c \in Corpus, rev \in Revisions : m = Of(c, rev)
  BY DEF Shared
<1>2. m["text"] = TextOf(c, rev) /\ m["source"] = c["source"]
      /\ ("chunk_index" \in DOMAIN m => m["chunk_index"] = c["chunk_index"])
  BY <1>1, OfShape
<1>3. c["source"] \in Sources /\ c["chunk_index"] \in Nat
  BY CorpusShape
<1>4. ASSUME NEW n \in Shared, n["text"] = m["text"] PROVE n = m
  <2>1. PICK d \in Corpus, q \in Revisions : n = Of(d, q)
    BY DEF Shared
  <2>2. n["text"] = TextOf(d, q)
    BY <2>1, OfShape
  <2>3. TextOf(c, rev) = TextOf(d, q)
    BY <1>2, <1>4, <2>2
  <2>4. c = d /\ rev = q
    BY <2>3, OfInjective
  <2> QED
    BY <1>1, <2>1, <2>4
<1>5. m["text"][1] = "shared" /\ m["text"][2] = c["source"] /\ m["text"][3] = c["chunk_index"]
      /\ m["text"][4] = rev
  BY <1>2 DEF TextOf
<1>6. m \notin Uploaded
  <2> SUFFICES ASSUME m \in Uploaded PROVE FALSE
    OBVIOUS
  <2>1. PICK u \in session : m["text"] = <<"session", u[1], u[2], u[3]>>
    BY UploadShape
  <2>2. m["text"][1] = "session"
    BY <2>1
  <2> QED
    BY <1>5, <2>2
<1> QED
  BY <1>1, <1>2, <1>3, <1>4, <1>5, <1>6

\* A step of the search leaves the deployment and the stores as they are.
LEMMA Still ==
  ASSUME UNCHANGED <<turnVars, writeVars>>
  PROVE  /\ WriteType => WriteType'
         /\ StoreInv => StoreInv'
         /\ Uploaded' = Uploaded /\ Shared' = Shared /\ Wanted' = Wanted
         /\ Hits(Uploaded)' = Hits(Uploaded) /\ Hits(Shared)' = Hits(Shared)
         /\ Hits(Shared \cup Uploaded)' = Hits(Shared \cup Uploaded)
         /\ Primary' = Primary /\ Texts' = Texts
         /\ \A t : Behind(t)' = Behind(t)
         /\ caller' = caller /\ session' = session /\ scoring' = scoring /\ backend' = backend
<1>1. UNCHANGED <<backend, caller, scoring, session, stores, rewrite, dirty>>
  BY DEF turnVars, writeVars
<1>2. \A i : Items(i)' = Items(i)
  BY <1>1 DEF Items, Read, Merge
<1>3. \A i, s : OwnRows(i, s)' = OwnRows(i, s)
  BY <1>2 DEF OwnRows
<1>4. Primary' = Primary /\ Texts' = Texts /\ \A t : Behind(t)' = Behind(t)
  BY <1>1, <1>2, <1>3 DEF Primary, Texts, Behind, Writing
<1>5. Renewed' = Renewed
  BY <1>1 DEF Renewed
<1>6. WriteType => WriteType'
  BY <1>1 DEF WriteType
<1>7. StoreInv => StoreInv'
  BY <1>1, <1>2, <1>3, <1>5 DEF StoreInv
<1>8. UNCHANGED turnVars
  OBVIOUS
<1> QED
  BY <1>1, <1>4, <1>6, <1>7, <1>8, Unmoved

\* The plan is chosen before anything is looked for.
LEMMA RouteGathers ==
  ASSUME WriteType, StoreInv, GatherInv, PastInv, Route
  PROVE  GatherInv' /\ PastInv'
<1>1. UNCHANGED <<turnVars, writeVars>> /\ UNCHANGED <<mine, theirs, found, fusedIds, relevant>>
  BY DEF Route
<1>2. step = "route" /\ how' \in Plans /\ step' = (IF caller = "chat" THEN "session" ELSE "shared")
  BY DEF Route
<1>3. /\ Hits(Uploaded)' = Hits(Uploaded) /\ Hits(Shared)' = Hits(Shared)
      /\ Hits(Shared \cup Uploaded)' = Hits(Shared \cup Uploaded)
      /\ \A t : Behind(t)' = Behind(t)
      /\ caller' = caller /\ session' = session /\ scoring' = scoring
  BY <1>1, Still
<1>4. TurnType'
  BY <1>2, <1>3 DEF GatherInv, TurnType, Steps, Asked
<1>5. HitsType'
  BY <1>1, <1>3 DEF GatherInv, HitsType, Apart
<1>6. MineInv' /\ IdsInv' /\ TheirsInv' /\ FoundInv'
  BY <1>1, <1>2, <1>3 DEF GatherInv, MineInv, IdsInv, TheirsInv, FoundInv
<1>7. PastInv'
  BY <1>1, <1>2, <1>3 DEF PastInv
<1> QED
  BY <1>4, <1>5, <1>6, <1>7 DEF GatherInv

\* The uploads that pass are kept, as far as there is room.
LEMMA SessionGathers ==
  ASSUME WriteType, StoreInv, GatherInv, PastInv, FromSession
  PROVE  GatherInv' /\ PastInv'
<1>1. /\ UNCHANGED <<turnVars, writeVars>> /\ UNCHANGED <<how, found, relevant>>
      /\ step = "session" /\ theirs' = <<>>
      /\ step' = IF Len(mine') < K THEN "shared" ELSE "merge"
  BY DEF FromSession
<1>2. PICK hits \in Ranked(Uploaded, "cosine", K) : mine' = Keep(hits)
  BY DEF FromSession
<1>3. /\ Uploaded' = Uploaded /\ Wanted' = Wanted
      /\ Hits(Uploaded)' = Hits(Uploaded) /\ Hits(Shared)' = Hits(Shared)
      /\ Hits(Shared \cup Uploaded)' = Hits(Shared \cup Uploaded)
      /\ \A t : Behind(t)' = Behind(t)
      /\ caller' = caller /\ session' = session /\ scoring' = scoring
  BY <1>1, Still
<1>4. session \in Sessions /\ scoring \in Scorings /\ K \in Nat /\ K # 0
  BY SearchAssumption DEF GatherInv, TurnType
<1>5. IsRanking(hits, Uploaded, "cosine", K)
  <2>1. "cosine" \in Kinds
    BY DEF Kinds
  <2>2. \A m \in Uploaded : Score("cosine", m) \in Int
    BY <1>4, UploadScore
  <2> QED
    BY <1>4, <2>1, <2>2, RankedIs
<1>6. hits \in Seq(Hits(Uploaded)) /\ Len(hits) <= K /\ Apart(hits)
  BY <1>5 DEF IsRanking
<1>7. mine' \in Seq(Hits(Uploaded)) /\ Len(mine') <= Len(hits) /\ Chosen(mine', hits)
  BY <1>2, <1>6, KeepIs
<1>8. Len(mine') \in Nat /\ Len(hits) \in Nat
  BY <1>6, <1>7, LenProperties
<1>9. Len(mine') <= K /\ Apart(mine')
  BY <1>4, <1>6, <1>7, <1>8, ChosenApart
<1>10. Len(mine') = Least(K, Cardinality(Wanted))
  BY <1>2, <1>4, <1>5, KeptUploads DEF Wanted
<1>18. \A i \in DOMAIN mine' : mine'[i].kind = "cosine"
  BY <1>5, <1>7, ChosenFrom DEF IsRanking
<1>11. TurnType'
  BY <1>1, <1>3 DEF GatherInv, TurnType, Steps, Asked
<1>12. HitsType'
  <2>1. <<>> \in Seq(Hits(Shared)) /\ Len(<<>>) = 0 /\ DOMAIN <<>> = {}
    BY EmptySeq
  <2>2. theirs' \in Seq(Hits(Shared)) /\ Len(theirs') <= K /\ Apart(theirs')
    BY <1>1, <1>4, <2>1 DEF Apart
  <2>3. found' \in Seq(Hits(Shared \cup Uploaded)) /\ Len(found') <= K /\ Apart(found')
    BY <1>1 DEF GatherInv, HitsType, Apart
  <2>4. Apart(mine)' <=> Apart(mine')
    BY DEF Apart
  <2>5. Apart(theirs)' <=> Apart(theirs')
    BY DEF Apart
  <2>6. Apart(found)' <=> Apart(found')
    BY DEF Apart
  <2> QED
    BY <1>3, <1>7, <1>9, <2>2, <2>3, <2>4, <2>5, <2>6 DEF HitsType
<1>13. MineInv' /\ IdsInv' /\ FoundInv'
  BY <1>1, <1>3, <1>10, <1>18 DEF MineInv, IdsInv, FoundInv
<1>14. Metas(theirs)' = {}
  <2>1. DOMAIN <<>> = {}
    BY EmptySeq
  <2> QED
    BY <1>1, <2>1 DEF Metas
<1>15. TheirsInv'
  BY <1>14 DEF TheirsInv, Instant
<1>16. step' = "merge" => mine' # <<>>
  <2>1. Len(<<>>) = 0
    BY EmptySeq
  <2> QED
    BY <1>1, <1>4, <2>1
<1>17. PastInv'
  BY <1>1, <1>3, <1>14, <1>16 DEF GatherInv, PastInv
<1> QED
  BY <1>11, <1>12, <1>13, <1>15, <1>17 DEF GatherInv

\* The shared hits of a search are brought to what the conversation gets.
LEMMA FetchGathers ==
  ASSUME WriteType, StoreInv, GatherInv, PastInv,
         UNCHANGED <<turnVars, writeVars>>, UNCHANGED <<how, mine, found>>,
         step \in {"shared", "refetch"}, step' = "merge",
         NEW hits \in Seq(Hits(Shared)), Apart(hits), theirs' = Keep(Trim(hits)),
         Instant(Metas(hits)), \A m \in Metas(hits) : Fits(m, how.filter) /\ Behind(m["text"]),
         \A t \in relevant' : Behind(t),
         theirs' = <<>> => relevant' \cap Texts = {}
  PROVE  GatherInv' /\ PastInv'
<1>1. /\ Uploaded' = Uploaded /\ Wanted' = Wanted
      /\ Hits(Uploaded)' = Hits(Uploaded) /\ Hits(Shared)' = Hits(Shared)
      /\ Hits(Shared \cup Uploaded)' = Hits(Shared \cup Uploaded)
      /\ Texts' = Texts /\ \A t : Behind(t)' = Behind(t)
      /\ caller' = caller /\ session' = session /\ scoring' = scoring
  BY Still
<1>2. how' = how /\ mine' = mine /\ found' = found
  OBVIOUS
<1>3. K \in Nat
  BY SearchAssumption
<1>4. Trim(hits) \in Seq(Hits(Shared)) /\ Len(Trim(hits)) <= K /\ Chosen(Trim(hits), hits)
  BY TrimIs
<1>5. /\ theirs' \in Seq(Hits(Shared)) /\ Len(theirs') <= Len(Trim(hits))
      /\ Chosen(theirs', Trim(hits))
  BY <1>4, KeepIs
<1>6. Chosen(theirs', hits)
  BY <1>4, <1>5, ChosenTwice
<1>7. Len(theirs') <= K /\ Apart(theirs')
  <2>1. Len(theirs') \in Nat /\ Len(Trim(hits)) \in Nat
    BY <1>4, <1>5, LenProperties
  <2>2. Len(theirs') <= K
    BY <1>3, <1>4, <1>5, <2>1
  <2> QED
    BY <1>6, <2>2, ChosenApart
<1>8. Metas(theirs') \subseteq Metas(hits)
  BY <1>6, ChosenFrom DEF Metas
<1>9. Metas(theirs)' = Metas(theirs') /\ Metas(found)' = Metas(found)
      /\ Apart(theirs)' = Apart(theirs')
  BY <1>2 DEF Metas, Apart
<1>10. TurnType'
  BY <1>1, <1>2 DEF GatherInv, TurnType, Steps
<1>11. HitsType'
  <2>1. mine' \in Seq(Hits(Uploaded)) /\ Len(mine') <= K /\ Apart(mine)'
    BY <1>2 DEF GatherInv, HitsType, Apart
  <2>2. found' \in Seq(Hits(Shared \cup Uploaded)) /\ Len(found') <= K /\ Apart(found)'
    BY <1>2 DEF GatherInv, HitsType, Apart
  <2> QED
    BY <1>1, <1>5, <1>7, <1>9, <2>1, <2>2 DEF HitsType
<1>12. MineInv' /\ IdsInv' /\ FoundInv'
  BY <1>1, <1>2 DEF GatherInv, MineInv, IdsInv, FoundInv
<1>13. TheirsInv'
  <2>1. Instant(Metas(theirs'))
    BY <1>8 DEF Instant
  <2>2. \A m \in Metas(theirs') : Fits(m, how.filter)
    BY <1>8
  <2> QED
    BY <1>2, <1>9, <2>1, <2>2 DEF TheirsInv, Instant, Fits
<1>14. PastInv'
  BY <1>1, <1>8, <1>9 DEF PastInv
<1> QED
  BY <1>10, <1>11, <1>12, <1>13, <1>14 DEF GatherInv

\* One search of the store finds what is due, fits the filter, and is of one instant.
LEMMA SharedGathers ==
  ASSUME WriteType, StoreInv, GatherInv, PastInv, SearchShared
  PROVE  GatherInv' /\ PastInv'
<1> DEFINE kind == Kind(how)
           S == Searched(Candidates(how), kind)
           n == K * Overfetch
<1>1. /\ UNCHANGED <<turnVars, writeVars>> /\ UNCHANGED <<how, mine, found>>
      /\ step = "shared" /\ OneScore /\ relevant' = Due(S, kind)
  BY DEF SearchShared
<1>2. PICK hits \in Ranked(S, kind, n) : Fetched(hits)
  BY DEF SearchShared
<1>3. n \in Nat \ {0}
  <2>1. K \in Nat \ {0} /\ Overfetch \in Nat \ {0}
    BY SearchAssumption
  <2> QED
    BY <2>1
<1>4. kind \in Kinds
  BY DEF Kind, Kinds
<1>5. Active(how.filter) => backend[1] = "milvus"
  BY <1>1 DEF OneScore, IsDefault, Strategic
<1>6. S \subseteq Primary /\ \A m \in S : Fits(m, how.filter)
  BY <1>5, CandidatesAre DEF Searched
<1> HIDE DEF S, kind, n
<1>7. /\ Primary \subseteq Shared /\ Instant(Primary)
      /\ \A m \in Primary : Behind(m["text"])
  BY PrimaryIs
<1>8. \A m \in S : Score(kind, m) \in Int
  BY <1>4, <1>6, <1>7, SharedScore DEF GatherInv, TurnType
<1>9. IsRanking(hits, S, kind, n)
  BY <1>2, <1>3, <1>4, <1>8, RankedIs
<1>10. hits \in Seq(Hits(S)) /\ Apart(hits) /\ \A i \in DOMAIN hits : hits[i].meta \in S
  BY <1>9 DEF IsRanking
<1>11. hits \in Seq(Hits(Shared))
  BY <1>6, <1>7, <1>10, HitsGrow
<1>12. Metas(hits) \subseteq S
  BY <1>10 DEF Metas
<1>13. Instant(Metas(hits))
  BY <1>6, <1>7, <1>12 DEF Instant
<1>14. \A m \in Metas(hits) : Fits(m, how.filter) /\ Behind(m["text"])
  BY <1>6, <1>7, <1>12
<1>15. \A t \in relevant' : Behind(t)
  BY <1>1, <1>6, <1>7 DEF Due
<1>16. theirs' = Keep(Trim(hits)) /\ step' = "merge"
  BY <1>2 DEF Fetched
<1>17. theirs' = <<>> => relevant' \cap Texts = {}
  BY <1>1, <1>3, <1>4, <1>8, <1>9, <1>16, DueIsFound
<1> QED
  BY <1>1, <1>10, <1>11, <1>13, <1>14, <1>15, <1>16, <1>17, FetchGathers

\* The fusion hands on the ids of stored chunks that fit the filter, each once.
LEMMA FuseGathers ==
  ASSUME WriteType, StoreInv, GatherInv, PastInv, FuseShared
  PROVE  GatherInv' /\ PastInv'
<1> DEFINE S == Candidates(how)
           ahead == Higher(S, "cosine") \cap Higher(S, "bm25")
           n == K * Overfetch
<1>1. /\ UNCHANGED <<turnVars, writeVars>> /\ UNCHANGED <<how, mine, theirs, found>>
      /\ step = "shared" /\ TwoScores /\ step' = "refetch"
  BY DEF FuseShared
<1>2. PICK s \in Fused(S, n) :
        /\ fusedIds' = [i \in DOMAIN s |-> s[i]["text"]]
        /\ relevant' = IF \A i \in DOMAIN s : Passes("cosine", Cosine(s[i]))
                       THEN {s[i]["text"] : i \in DOMAIN s} ELSE {}
  BY DEF FuseShared
<1>3. n \in Nat
  <2>1. K \in Nat \ {0} /\ Overfetch \in Nat \ {0}
    BY SearchAssumption
  <2> QED
    BY <2>1
<1>4. S \subseteq Primary /\ \A m \in S : Fits(m, how.filter)
  BY <1>1, CandidatesAre DEF TwoScores
<1> HIDE DEF S, n
<1>5. /\ Primary \subseteq Shared /\ \A m \in Primary : Behind(m["text"])
  BY PrimaryIs
<1>6. s \in Leading(S, ahead, n)
  BY <1>2 DEF Fused
<1> HIDE DEF ahead
<1>7. s \in BoundedSeq(S, n) /\ \A i, j \in DOMAIN s : i < j => s[i] # s[j]
  BY <1>6 DEF Leading
<1>8. PICK l \in 0 .. n : s \in [1 .. l -> S]
  BY <1>7 DEF BoundedSeq, SeqOf
<1>9. /\ l \in Nat /\ DOMAIN s = 1 .. l /\ DOMAIN fusedIds' = 1 .. l
      /\ \A i \in 1 .. l : s[i] \in S /\ s[i] \in Shared /\ fusedIds'[i] = s[i]["text"]
  BY <1>2, <1>3, <1>4, <1>5, <1>8
<1>10. fusedIds' \in Seq({m["text"] : m \in Shared})
  <2>1. fusedIds' \in [1 .. l -> {m["text"] : m \in Shared}]
    BY <1>2, <1>9
  <2> QED
    BY <1>9, <2>1, SeqDef
<1>11. ASSUME NEW i \in 1 .. l, NEW j \in 1 .. l, i # j PROVE fusedIds'[i] # fusedIds'[j]
  <2>1. s[i] # s[j]
    <3>1. i < j \/ j < i
      BY <1>11
    <3> QED
      BY <1>7, <1>9, <3>1
  <2>2. s[i]["text"] = s[j]["text"] => s[i] = s[j]
    BY <1>9, SharedIs
  <2> QED
    BY <1>9, <2>1, <2>2
<1>12. ASSUME NEW i \in 1 .. l, NEW m \in Shared, m["text"] = fusedIds'[i]
       PROVE  Fits(m, how.filter)
  <2>1. m = s[i]
    BY <1>9, <1>12, SharedIs
  <2> QED
    BY <1>4, <1>9, <2>1
<1>13. ASSUME NEW t \in relevant'
       PROVE  /\ Behind(t) /\ \E i \in 1 .. l : fusedIds'[i] = t
              /\ \A i \in 1 .. l : Passes("cosine", scoring.cosine[Place(fusedIds'[i])])
  <2>1. /\ \A i \in DOMAIN s : Passes("cosine", Cosine(s[i]))
        /\ \E i \in DOMAIN s : s[i]["text"] = t
    BY <1>2
  <2>2. \E i \in 1 .. l : fusedIds'[i] = t
    BY <1>9, <2>1
  <2>3. Behind(t)
    BY <1>4, <1>5, <1>9, <2>1
  <2>4. \A i \in 1 .. l : Passes("cosine", scoring.cosine[Place(fusedIds'[i])])
    BY <1>9, <2>1 DEF Cosine
  <2> QED
    BY <2>2, <2>3, <2>4
<1>14. /\ Uploaded' = Uploaded /\ Wanted' = Wanted
       /\ Hits(Uploaded)' = Hits(Uploaded) /\ Hits(Shared)' = Hits(Shared)
       /\ Hits(Shared \cup Uploaded)' = Hits(Shared \cup Uploaded)
       /\ \A t : Behind(t)' = Behind(t)
       /\ caller' = caller /\ session' = session /\ scoring' = scoring
  BY <1>1, Still
<1>15. TurnType' /\ HitsType'
  BY <1>1, <1>14 DEF GatherInv, TurnType, HitsType, Apart, Steps
<1>16. MineInv' /\ TheirsInv' /\ FoundInv'
  BY <1>1, <1>14 DEF GatherInv, MineInv, TheirsInv, FoundInv
<1>17. IdsInv'
  <2> DEFINE ids == fusedIds'
  <2>1. DOMAIN ids = 1 .. l
    BY <1>9
  <2>2. \A i \in DOMAIN ids : \A m \in Shared : m["text"] = ids[i] => Fits(m, how'.filter)
    BY <1>1, <1>12, <2>1
  <2>3. \A i, j \in DOMAIN ids : i # j => ids[i] # ids[j]
    BY <1>11, <2>1
  <2>4. \A t \in relevant' : /\ \E i \in DOMAIN ids : ids[i] = t
                            /\ \A i \in DOMAIN ids : Passes("cosine", scoring'.cosine[Place(ids[i])])
    BY <1>13, <1>14, <2>1
  <2>5. \A i \in DOMAIN ids : \A m \in Shared : m["text"] = ids[i] => Fits(m, how.filter)'
    BY <2>2 DEF Fits
  <2> QED
    BY <1>10, <2>5, <2>3, <2>4 DEF IdsInv
<1>18. PastInv'
  BY <1>1, <1>13, <1>14 DEF PastInv
<1> QED
  BY <1>15, <1>16, <1>17, <1>18 DEF GatherInv

\* A plan the deployment cannot follow ends the turn.
LEMMA UnsupportedGathers ==
  ASSUME WriteType, StoreInv, GatherInv, PastInv, Unsupported
  PROVE  GatherInv' /\ PastInv'
<1>1. /\ UNCHANGED <<turnVars, writeVars>> /\ UNCHANGED <<how, mine, theirs, found, relevant>>
      /\ step' = "failed"
  BY DEF Unsupported
<1>2. /\ Uploaded' = Uploaded /\ Wanted' = Wanted
      /\ Hits(Uploaded)' = Hits(Uploaded) /\ Hits(Shared)' = Hits(Shared)
      /\ Hits(Shared \cup Uploaded)' = Hits(Shared \cup Uploaded)
      /\ \A t : Behind(t)' = Behind(t)
      /\ caller' = caller /\ session' = session /\ scoring' = scoring
  BY <1>1, Still
<1>3. TurnType' /\ HitsType'
  BY <1>1, <1>2 DEF GatherInv, TurnType, HitsType, Apart, Steps
<1>4. MineInv' /\ IdsInv' /\ TheirsInv' /\ FoundInv' /\ PastInv'
  BY <1>1, <1>2 DEF GatherInv, MineInv, IdsInv, TheirsInv, FoundInv, PastInv
<1> QED
  BY <1>3, <1>4 DEF GatherInv

\* The rows of the ids still there are of the instant of the second call; if none is, all
\* that was to be found is gone.
LEMMA RefetchGathers ==
  ASSUME WriteType, StoreInv, GatherInv, PastInv, Refetch
  PROVE  GatherInv' /\ PastInv'
<1> DEFINE row(id) == CHOOSE m \in Primary : m["text"] = id
           I == {i \in DOMAIN fusedIds : \E m \in Primary : m["text"] = fusedIds[i]}
           there == Picked(fusedIds, I)
           hits == [i \in DOMAIN there |-> Hit(row(there[i]), "cosine")]
           X == {m["text"] : m \in Shared}
<1>1. /\ UNCHANGED <<turnVars, writeVars>> /\ UNCHANGED <<how, mine, found, relevant>>
      /\ step = "refetch" /\ Fetched(hits)
  BY DEF Refetch
<1>2. /\ fusedIds \in Seq(X)
      /\ \A i \in DOMAIN fusedIds : \A m \in Shared : m["text"] = fusedIds[i] => Fits(m, how.filter)
      /\ \A i, j \in DOMAIN fusedIds : i # j => fusedIds[i] # fusedIds[j]
      /\ \A t \in relevant :
           /\ \E i \in DOMAIN fusedIds : fusedIds[i] = t
           /\ \A i \in DOMAIN fusedIds : Passes("cosine", scoring.cosine[Place(fusedIds[i])])
  BY <1>1 DEF GatherInv, IdsInv
<1>3. /\ Primary \subseteq Shared /\ Instant(Primary) /\ \A m \in Primary : Behind(m["text"])
  BY PrimaryIs
<1>4. /\ I \in SUBSET DOMAIN fusedIds
      /\ \A i \in I : \E m \in Primary : m["text"] = fusedIds[i]
      /\ \A i \in DOMAIN fusedIds : fusedIds[i] \in Texts => i \in I
  BY DEF Texts
<1> HIDE DEF I, X
<1>5. /\ there \in Seq(X) /\ Chosen(there, fusedIds) /\ (there = <<>> <=> I = {})
      /\ \A i \in DOMAIN there : \E j \in I : there[i] = fusedIds[j]
  BY <1>2, <1>4, PickedIs
<1>6. \A i, j \in DOMAIN there : i # j => there[i] # there[j]
  BY <1>2, <1>5 DEF Chosen
<1> HIDE DEF there
<1>7. \A i \in DOMAIN there : row(there[i]) \in Primary /\ row(there[i])["text"] = there[i]
  BY <1>4, <1>5
<1> HIDE DEF row
<1>8. /\ DOMAIN hits = DOMAIN there
      /\ \A i \in DOMAIN there : /\ hits[i] = Hit(row(there[i]), "cosine")
                                 /\ hits[i].meta = row(there[i]) /\ hits[i].kind = "cosine"
                                 /\ hits[i].score = Cosine(row(there[i]))
  BY DEF Hit, Score
<1>9. there \in Seq(X) /\ DOMAIN there = 1 .. Len(there) /\ Len(there) \in Nat
  BY <1>5, LenProperties
<1>10. hits \in Seq(Hits(Shared))
  <2>1. \A i \in DOMAIN there : hits[i] \in Hits(Shared)
    BY <1>3, <1>7, <1>8 DEF Hits, Kinds
  <2>2. hits \in [1 .. Len(there) -> Hits(Shared)]
    BY <1>9, <2>1
  <2> QED
    BY <1>9, <2>2, SeqDef
<1>11. Apart(hits)
  BY <1>6, <1>7, <1>8 DEF Apart
<1>12. Metas(hits) \subseteq Primary
  BY <1>7, <1>8 DEF Metas
<1>13. \A m \in Metas(hits) : Fits(m, how.filter) /\ Behind(m["text"])
  <2>1. ASSUME NEW i \in DOMAIN there PROVE Fits(row(there[i]), how.filter)
    <3>1. PICK j \in I : there[i] = fusedIds[j]
      BY <1>5
    <3> QED
      BY <1>2, <1>3, <1>4, <1>7, <3>1
  <2>2. \A m \in Metas(hits) : Fits(m, how.filter)
    BY <1>8, <2>1 DEF Metas
  <2> QED
    BY <1>3, <1>12, <2>2
<1>14. theirs' = Keep(Trim(hits)) /\ step' = "merge"
  BY <1>1 DEF Fetched
<1>15. ASSUME theirs' = <<>>, NEW t \in relevant, t \in Texts PROVE FALSE
  <2>1. PICK i \in DOMAIN fusedIds : fusedIds[i] = t
    BY <1>2, <1>15
  <2>2. there # <<>>
    BY <1>4, <1>5, <1>15, <2>1
  <2>3. Len(there) # 0
    BY <1>9, <2>2, EmptySeq
  <2>4. hits # <<>>
    <3>1. 1 \in DOMAIN hits
      BY <1>8, <1>9, <2>3
    <3> QED
      BY <3>1, EmptySeq
  <2>5. \A k \in DOMAIN hits : Passes(hits[k].kind, hits[k].score)
    <3>1. ASSUME NEW k \in DOMAIN there PROVE Passes("cosine", Cosine(row(there[k])))
      <4>1. Cosine(row(there[k])) = scoring.cosine[Place(there[k])]
        BY <1>7 DEF Cosine
      <4>2. PICK j \in I : there[k] = fusedIds[j]
        BY <1>5
      <4> QED
        BY <1>2, <1>4, <4>1, <4>2
    <3> QED
      BY <1>8, <3>1
  <2>6. Trim(hits) \in Seq(Hits(Shared)) /\ Trim(hits) # <<>> /\ Chosen(Trim(hits), hits)
    BY <1>10, <2>4, TrimIs
  <2>7. 1 \in DOMAIN Trim(hits)
    <3>1. DOMAIN Trim(hits) = 1 .. Len(Trim(hits)) /\ Len(Trim(hits)) \in Nat /\ Len(Trim(hits)) # 0
      BY <2>6, LenProperties, EmptySeq
    <3> QED
      BY <3>1
  <2>8. Passes(Trim(hits)[1].kind, Trim(hits)[1].score)
    BY <2>5, <2>6, <2>7, ChosenFrom
  <2>9. Keep(Trim(hits)) # <<>>
    BY <2>6, <2>7, <2>8, KeepIs
  <2> QED
    BY <1>14, <1>15, <2>9
<1>16. theirs' = <<>> => relevant' \cap Texts = {}
  BY <1>1, <1>15
<1>17. \A t \in relevant' : Behind(t)
  BY <1>1 DEF PastInv
<1>18. Instant(Metas(hits))
  BY <1>3, <1>12 DEF Instant
<1> HIDE DEF hits
<1> QED
  BY <1>1, <1>10, <1>11, <1>13, <1>14, <1>16, <1>17, <1>18, FetchGathers

\* A stable sort keeps each hit, once.
LEMMA SortsAre ==
  ASSUME NEW X, NEW h \in Seq(X), \A i \in DOMAIN h : h[i].score \in Int, NEW t \in Sorts(h)
  PROVE  t \in Seq(X) /\ Len(t) = Len(h) /\ Chosen(t, h)
<1> DEFINE D == DOMAIN h
<1>1. PICK p \in [D -> D] :
        /\ t = [i \in D |-> h[p[i]]]
        /\ \A i, j \in D : i < j =>
             \/ h[p[i]].score > h[p[j]].score
             \/ h[p[i]].score = h[p[j]].score /\ p[i] < p[j]
  BY DEF Sorts
<1>2. D = 1 .. Len(h) /\ Len(h) \in Nat /\ \A i \in D : h[i] \in X
  BY ElementOfSeq, LenProperties
<1>3. DOMAIN t = D /\ \A i \in D : p[i] \in D /\ t[i] = h[p[i]]
  BY <1>1
<1>4. t \in Seq(X) /\ Len(t) = Len(h)
  <2>1. t \in [1 .. Len(h) -> X]
    BY <1>1, <1>2
  <2> QED
    BY <1>2, <2>1, SeqDef
<1>5. ASSUME NEW i \in D, NEW j \in D, i < j PROVE p[i] # p[j]
  <2>1. p[i] \in Int /\ p[j] \in Int /\ h[p[i]].score \in Int /\ h[p[j]].score \in Int
    BY <1>2, <1>3
  <2>2. \/ h[p[i]].score > h[p[j]].score
        \/ h[p[i]].score = h[p[j]].score /\ p[i] < p[j]
    BY <1>1, <1>5
  <2> QED
    BY <2>1, <2>2
<1>6. ASSUME NEW i \in D, NEW j \in D, i # j PROVE p[i] # p[j]
  <2>1. i < j \/ j < i
    BY <1>2, <1>6
  <2> QED
    BY <1>5, <2>1
<1>7. Chosen(t, h)
  BY <1>1, <1>3, <1>6 DEF Chosen
<1> QED
  BY <1>4, <1>7

\* What a conversation is answered from: its uploads, then what of the corpus there is
\* room for.
LEMMA MergedIs ==
  ASSUME TurnType, HitsType, MineInv, NEW uploads \in Sorts(mine), NEW shared \in Sorts(theirs)
  PROVE  LET both == UpTo(K, uploads \o shared)
         IN  /\ both \in Seq(Hits(Shared \cup Uploaded)) /\ Len(both) <= K /\ Apart(both)
             /\ Metas(both) \ Uploaded \subseteq Metas(theirs)
             /\ \A i \in DOMAIN both : IsUpload(both[i]) <=> i <= Len(mine)
             /\ Len(both) >= Len(mine)
             /\ both = <<>> => mine = <<>> /\ theirs = <<>>
<1> DEFINE all == uploads \o shared
           both == UpTo(K, all)
           X == Hits(Shared \cup Uploaded)
<1>1. K \in Nat /\ K # 0 /\ session \in Sessions /\ scoring \in Scorings
  BY SearchAssumption DEF TurnType
<1>2. /\ mine \in Seq(Hits(Uploaded)) /\ Len(mine) <= K /\ Apart(mine)
      /\ theirs \in Seq(Hits(Shared)) /\ Apart(theirs)
      /\ \A i \in DOMAIN mine : mine[i].kind = "cosine"
  BY DEF HitsType, MineInv
<1>3. \A i \in DOMAIN mine : mine[i].score \in Int
  <2>1. ASSUME NEW i \in DOMAIN mine PROVE mine[i].score \in Int
    <3>1. mine[i] \in Hits(Uploaded)
      BY <1>2, ElementOfSeq, LenProperties
    <3>2. mine[i].meta \in Uploaded /\ mine[i].score = Score("cosine", mine[i].meta)
      BY <1>2, <3>1, HitShape
    <3> QED
      BY <1>1, <3>2, UploadScore
  <2> QED
    BY <2>1
<1>4. \A i \in DOMAIN theirs : theirs[i].score \in Int
  <2>1. ASSUME NEW i \in DOMAIN theirs PROVE theirs[i].score \in Int
    <3>1. theirs[i] \in Hits(Shared)
      BY <1>2, ElementOfSeq, LenProperties
    <3>2. theirs[i].meta \in Shared /\ theirs[i].kind \in Kinds
          /\ theirs[i].score = Score(theirs[i].kind, theirs[i].meta)
      BY <3>1, HitShape
    <3> QED
      BY <1>1, <3>2, SharedScore
  <2> QED
    BY <2>1
<1>5. /\ uploads \in Seq(Hits(Uploaded)) /\ Len(uploads) = Len(mine) /\ Chosen(uploads, mine)
      /\ shared \in Seq(Hits(Shared)) /\ Len(shared) = Len(theirs) /\ Chosen(shared, theirs)
  BY <1>2, <1>3, <1>4, SortsAre
<1>20. Chosen(shared, theirs)
  BY <1>5
<1>21. \A i \in DOMAIN shared : \E j \in DOMAIN theirs : shared[i] = theirs[j]
  BY <1>20, ChosenFrom
<1>6. /\ DOMAIN uploads = 1 .. Len(uploads) /\ Len(uploads) \in Nat
      /\ DOMAIN shared = 1 .. Len(shared) /\ Len(shared) \in Nat
      /\ \A i \in 1 .. Len(uploads) : uploads[i] \in Hits(Uploaded)
      /\ \A i \in 1 .. Len(shared) : shared[i] \in Hits(Shared)
  BY <1>5, ElementOfSeq, LenProperties
<1>7. Apart(uploads) /\ Apart(shared)
  BY <1>2, <1>5, ChosenApart
<1>8. uploads \in Seq(X) /\ shared \in Seq(X)
  BY <1>5, HitsGrow
<1> HIDE DEF X
<1>9. /\ all \in Seq(X) /\ Len(all) = Len(uploads) + Len(shared)
      /\ \A i \in 1 .. Len(uploads) : all[i] = uploads[i]
      /\ \A i \in 1 .. Len(uploads) + Len(shared) :
           i > Len(uploads) => all[i] = shared[i - Len(uploads)]
  BY <1>6, <1>8, ConcatProperties
<1> HIDE DEF all
<1> DEFINE U == Len(uploads)
           N == U + Len(shared)
<1>10. ASSUME NEW i \in 1 .. N
       PROVE  \/ i <= U /\ all[i] = uploads[i] /\ all[i].meta \in Uploaded
              \/ /\ i > U /\ all[i] = shared[i - U] /\ i - U \in 1 .. Len(shared)
                 /\ all[i].meta \in Shared
  <2>1. CASE i <= U
    <3>1. i \in 1 .. U
      BY <1>6, <2>1
    <3> QED
      BY <1>6, <1>9, <2>1, <3>1, HitShape
  <2>2. CASE i > U
    <3>1. i - U \in 1 .. Len(shared)
      BY <1>6, <2>2
    <3>2. all[i] = shared[i - U]
      BY <1>9, <2>2
    <3> QED
      BY <1>6, <2>2, <3>1, <3>2, HitShape
  <2>3. i \in Int /\ U \in Int
    BY <1>6
  <2> QED
    BY <2>1, <2>2, <2>3
<1>11. ASSUME NEW i \in 1 .. N, NEW j \in 1 .. N, i # j PROVE all[i].meta # all[j].meta
  <2>1. i \in Int /\ j \in Int /\ U \in Nat
    BY <1>6
  <2>2. CASE i <= U /\ j <= U
    <3>1. all[i] = uploads[i] /\ all[j] = uploads[j] /\ i \in DOMAIN uploads /\ j \in DOMAIN uploads
      BY <1>6, <1>10, <2>1, <2>2
    <3> QED
      BY <1>7, <1>11, <3>1 DEF Apart
  <2>3. CASE i > U /\ j > U
    <3>1. /\ all[i] = shared[i - U] /\ all[j] = shared[j - U]
          /\ i - U \in DOMAIN shared /\ j - U \in DOMAIN shared
      BY <1>6, <1>10, <2>1, <2>3
    <3>2. i - U # j - U
      BY <1>11, <2>1
    <3> QED
      BY <1>7, <3>1, <3>2 DEF Apart
  <2>4. CASE i <= U /\ j > U
    <3>1. all[i].meta \in Uploaded /\ all[j].meta \in Shared
      BY <1>10, <2>1, <2>4
    <3> QED
      BY <3>1, SharedIs
  <2>5. CASE i > U /\ j <= U
    <3>1. all[j].meta \in Uploaded /\ all[i].meta \in Shared
      BY <1>10, <2>1, <2>5
    <3> QED
      BY <3>1, SharedIs
  <2> QED
    BY <2>1, <2>2, <2>3, <2>4, <2>5
<1>12. /\ both \in Seq(X) /\ Len(both) = Least(K, Len(all)) /\ Chosen(both, all)
       /\ \A i \in 1 .. Least(K, Len(all)) : both[i] = all[i]
  BY <1>1, <1>9, UpToIs
<1>13. DOMAIN all = 1 .. N /\ Len(all) = N /\ N \in Nat
  BY <1>6, <1>9, LenProperties
<1>14. Apart(both)
  <2>1. Apart(all)
    BY <1>11, <1>13 DEF Apart
  <2> QED
    BY <1>12, <2>1, ChosenApart
<1> HIDE DEF both
<1>15. /\ DOMAIN both = 1 .. Len(both) /\ Len(both) \in Nat /\ Len(both) <= K /\ Len(both) <= N
       /\ Len(both) \in {K, N} /\ \A i \in DOMAIN both : both[i] = all[i] /\ i \in 1 .. N
  <2>1. Len(both) = Least(K, N) /\ Least(K, N) \in Nat /\ Least(K, N) <= K /\ Least(K, N) <= N
        /\ Least(K, N) \in {K, N}
    BY <1>1, <1>12, <1>13, LeastIs
  <2>2. DOMAIN both = 1 .. Len(both)
    BY <1>12, LenProperties
  <2> HIDE DEF N
  <2>3. \A i \in DOMAIN both : both[i] = all[i] /\ i \in 1 .. N
    BY <1>12, <1>13, <2>1, <2>2
  <2> QED
    BY <2>1, <2>2, <2>3
<1>16. \A i \in DOMAIN both : IsUpload(both[i]) <=> i <= Len(mine)
  <2> SUFFICES ASSUME NEW i \in DOMAIN both PROVE IsUpload(both[i]) <=> i <= Len(mine)
    OBVIOUS
  <2>1. both[i] = all[i] /\ i \in 1 .. N /\ U = Len(mine)
    BY <1>5, <1>15
  <2>2. CASE i <= U
    <3>1. all[i].meta \in Uploaded
      BY <1>6, <1>10, <2>1, <2>2
    <3>2. PICK u \in session : all[i].meta["text"] = <<"session", u[1], u[2], u[3]>>
      BY <3>1, UploadShape
    <3> QED
      BY <2>1, <2>2, <3>2 DEF IsUpload
  <2>3. CASE ~(i <= U)
    <3>1. all[i].meta \in Shared
      BY <1>6, <1>10, <2>1, <2>3
    <3>2. all[i].meta["text"][1] = "shared"
      BY <3>1, SharedIs
    <3> QED
      BY <2>1, <2>3, <3>2 DEF IsUpload
  <2> QED
    BY <2>2, <2>3
<1>17. Metas(both) \ Uploaded \subseteq Metas(theirs)
  <2> SUFFICES ASSUME NEW i \in DOMAIN both, both[i].meta \notin Uploaded
               PROVE  both[i].meta \in Metas(theirs)
    BY DEF Metas
  <2>1. PICK k \in DOMAIN shared : both[i] = shared[k]
    BY <1>6, <1>10, <1>15
  <2>2. PICK j \in DOMAIN theirs : shared[k] = theirs[j]
    BY <1>21
  <2> QED
    BY <2>1, <2>2 DEF Metas
<1>18. Len(both) >= Len(mine)
  <2>1. /\ Len(both) \in {K, N} /\ Len(both) \in Nat /\ Len(mine) = U /\ U \in Nat
        /\ Len(shared) \in Nat /\ Len(mine) <= K /\ K \in Nat
    BY <1>1, <1>2, <1>5, <1>6, <1>15
  <2> QED
    BY <2>1
<1>19. both = <<>> => mine = <<>> /\ theirs = <<>>
  <2> SUFFICES ASSUME both = <<>> PROVE mine = <<>> /\ theirs = <<>>
    OBVIOUS
  <2>1. Len(both) = 0
    BY EmptySeq
  <2>2. N = 0
    BY <1>1, <1>15, <2>1
  <2>3. Len(mine) = 0 /\ Len(theirs) = 0
    BY <1>5, <1>6, <2>2
  <2> QED
    BY <1>2, <2>3, EmptySeq
<1> QED
  BY <1>12, <1>14, <1>15, <1>16, <1>17, <1>18, <1>19 DEF both, all, X

\* The merged hits have all that is known of both lists.
LEMMA MergedGathers ==
  ASSUME WriteType, StoreInv, GatherInv, PastInv, Merged
  PROVE  GatherInv' /\ PastInv'
<1>1. /\ UNCHANGED <<turnVars, writeVars>> /\ UNCHANGED <<how, mine, theirs, relevant>>
      /\ step = "merge"
      /\ step' = IF caller # "chat" THEN "done"
                 ELSE IF expanding /\ Radius > 0 THEN "expand" ELSE "gathered"
  BY DEF Merged
<1>2. /\ Uploaded' = Uploaded /\ Wanted' = Wanted
      /\ Hits(Uploaded)' = Hits(Uploaded) /\ Hits(Shared)' = Hits(Shared)
      /\ Hits(Shared \cup Uploaded)' = Hits(Shared \cup Uploaded)
      /\ Texts' = Texts /\ \A t : Behind(t)' = Behind(t)
      /\ caller' = caller /\ session' = session /\ scoring' = scoring
  BY <1>1, Still
<1>3. /\ Instant(Metas(theirs)) /\ \A m \in Metas(theirs) : Fits(m, how.filter)
      /\ \A m \in Metas(theirs) : Behind(m["text"])
  BY <1>1 DEF GatherInv, TheirsInv, PastInv
<1>4. /\ found' \in Seq(Hits(Shared \cup Uploaded)) /\ Len(found') <= K /\ Apart(found')
      /\ Metas(found') \ Uploaded \subseteq Metas(theirs)
      /\ caller = "chat" =>
           /\ \A i \in DOMAIN found' : IsUpload(found'[i]) <=> i <= Len(mine)
           /\ Len(found') >= Len(mine)
           /\ found' = <<>> => mine = <<>> /\ theirs = <<>>
  <2>1. CASE caller = "chat"
    <3>1. PICK uploads \in Sorts(mine), shared \in Sorts(theirs) : found' = UpTo(K, uploads \o shared)
      BY <2>1 DEF Merged
    <3> DEFINE both == UpTo(K, uploads \o shared)
    <3>2. /\ both \in Seq(Hits(Shared \cup Uploaded)) /\ Len(both) <= K /\ Apart(both)
          /\ Metas(both) \ Uploaded \subseteq Metas(theirs)
          /\ \A i \in DOMAIN both : IsUpload(both[i]) <=> i <= Len(mine)
          /\ Len(both) >= Len(mine)
          /\ both = <<>> => mine = <<>> /\ theirs = <<>>
      BY MergedIs DEF GatherInv
    <3> HIDE DEF both
    <3>3. found' = both
      BY <3>1 DEF both
    <3> QED
      BY <3>2, <3>3
  <2>2. CASE caller # "chat"
    <3>1. found' = theirs
      BY <2>2 DEF Merged
    <3>2. theirs \in Seq(Hits(Shared)) /\ Len(theirs) <= K /\ Apart(theirs)
      BY DEF GatherInv, HitsType
    <3>3. theirs \in Seq(Hits(Shared \cup Uploaded))
      BY <3>2, HitsGrow
    <3> QED
      BY <2>2, <3>1, <3>2, <3>3
  <2> QED
    BY <2>1, <2>2
<1>5. Metas(found)' = Metas(found') /\ Apart(found)' = Apart(found')
  BY DEF Metas, Apart
<1>6. TurnType'
  BY <1>1, <1>2 DEF GatherInv, TurnType, Steps
<1>7. HitsType'
  BY <1>1, <1>2, <1>4, <1>5 DEF GatherInv, HitsType, Apart
<1>8. MineInv' /\ IdsInv' /\ TheirsInv'
  BY <1>1, <1>2 DEF GatherInv, MineInv, IdsInv, TheirsInv
<1>9. caller = "chat" => Leads'
  <2> SUFFICES ASSUME caller = "chat" PROVE Leads'
    OBVIOUS
  <2> DEFINE c == Cardinality(Wanted)
             I == {i \in DOMAIN found' : IsUpload(found'[i])}
  <2>1. Len(mine) = Least(K, c)
    BY <1>1 DEF GatherInv, MineInv
  <2>2. /\ \A i \in DOMAIN found' : IsUpload(found'[i]) <=> i <= Len(mine)
        /\ Len(found') >= Len(mine) /\ Len(found') \in Nat /\ DOMAIN found' = 1 .. Len(found')
    BY <1>4, LenProperties
  <2>3. Len(mine) \in Nat
    BY LenProperties DEF GatherInv, HitsType
  <2>4. I = 1 .. Len(mine)
    BY <2>2, <2>3
  <2>5. Cardinality(I) = Len(mine)
    BY <2>3, <2>4, CardinalityOfInterval
  <2>6. ASSUME NEW i \in DOMAIN found', NEW j \in DOMAIN found', i < j, IsUpload(found'[j])
        PROVE  IsUpload(found'[i])
    BY <2>2, <2>3, <2>6
  <2>7. \A hit : IsUpload(hit)' = IsUpload(hit)
    BY DEF IsUpload
  <2>8. Cardinality(I) = Least(K, Cardinality(Wanted'))
    BY <1>2, <2>1, <2>5
  <2>9. (\A i, j \in DOMAIN found : i < j /\ IsUpload(found[j]) => IsUpload(found[i]))'
    BY <2>6 DEF IsUpload
  <2>10. (Cardinality({i \in DOMAIN found : IsUpload(found[i])}) = Least(K, Cardinality(Wanted)))'
    BY <2>8 DEF IsUpload, Least
  <2> QED
    BY <2>9, <2>10 DEF Leads
<1>10. FoundInv'
  <2>1. Instant(Metas(found') \ Uploaded)
    BY <1>3, <1>4 DEF Instant
  <2>2. \A m \in Metas(found') \ Uploaded : Fits(m, how.filter)
    BY <1>3, <1>4
  <2>3. (Instant(Metas(found) \ Uploaded))'
    BY <1>2, <1>5, <2>1 DEF Instant
  <2>4. (\A m \in Metas(found) \ Uploaded : Fits(m, how.filter))'
    BY <1>1, <1>2, <1>5, <2>2 DEF Fits
  <2>5. step' \in {"expand", "gathered"} => caller = "chat"
    BY <1>1
  <2> QED
    BY <1>9, <2>3, <2>4, <2>5 DEF FoundInv
<1>11. PastInv'
  <2>1. \A m \in Metas(found') \ Uploaded : Behind(m["text"])
    BY <1>3, <1>4
  <2>2. mine = <<>> /\ theirs = <<>> => relevant \cap Texts = {}
    BY <1>1 DEF PastInv
  <2>3. \A t \in relevant : Behind(t)
    BY DEF PastInv
  <2>4. step' # "merge"
    BY <1>1
  <2> QED
    BY <1>1, <1>2, <1>4, <1>5, <2>1, <2>2, <2>3, <2>4 DEF PastInv
<1> QED
  BY <1>6, <1>7, <1>8, <1>10, <1>11 DEF GatherInv

\* The expansion of the hits, and what the turn makes of an empty answer, leave the hits
\* alone.
LEMMA ExpandGathers ==
  ASSUME WriteType, StoreInv, GatherInv, PastInv,
         (\E s \in Centers : FetchNeighbors(s)) \/ ExpandHit \/ Expanded \/ Broaden
  PROVE  GatherInv' /\ PastInv'
<1>1. /\ UNCHANGED <<turnVars, writeVars>>
      /\ UNCHANGED <<mine, theirs, fusedIds, found, relevant>>
      /\ \/ step = "expand" /\ step' \in {"expand", "gathered"} /\ how' = how
         \/ step = "gathered" /\ step' = "done" /\ how' = how
         \/ /\ step = "gathered" /\ step' = "session" /\ Active(how.filter)
            /\ how' = [how EXCEPT !.filter = NoFilter]
  BY DEF FetchNeighbors, ExpandHit, Expanded, Broaden
<1>2. /\ Uploaded' = Uploaded /\ Wanted' = Wanted
      /\ Hits(Uploaded)' = Hits(Uploaded) /\ Hits(Shared)' = Hits(Shared)
      /\ Hits(Shared \cup Uploaded)' = Hits(Shared \cup Uploaded)
      /\ Texts' = Texts /\ \A t : Behind(t)' = Behind(t)
      /\ caller' = caller /\ session' = session /\ scoring' = scoring
  BY <1>1, Still
<1>3. TurnType'
  <2>1. how' \in Asked
    <3>1. CASE how' = how
      BY <3>1 DEF GatherInv, TurnType
    <3>2. CASE Active(how.filter) /\ how' = [how EXCEPT !.filter = NoFilter]
      <4>1. CASE how \in Plans
        BY <3>2, <4>1 DEF Asked
      <4>2. CASE how = Default
        BY <3>2, <4>2 DEF Default, Active
      <4>3. CASE how \in {[p EXCEPT !.filter = NoFilter] : p \in Plans}
        <5>1. PICK p \in Plans : how = [p EXCEPT !.filter = NoFilter]
          BY <4>3
        <5>2. p = [strategy |-> p.strategy, filter |-> p.filter]
          BY SearchAssumption
        <5>3. how.filter = NoFilter
          BY <5>1, <5>2
        <5> QED
          BY <3>2, <5>3 DEF Active
      <4> QED
        BY <4>1, <4>2, <4>3 DEF GatherInv, TurnType, Asked
    <3> QED
      BY <1>1, <3>1, <3>2
  <2> QED
    BY <1>1, <1>2, <2>1 DEF GatherInv, TurnType, Steps, Asked
<1>4. HitsType'
  BY <1>1, <1>2 DEF GatherInv, HitsType, Apart
<1>5. MineInv' /\ IdsInv' /\ TheirsInv'
  BY <1>1, <1>2 DEF GatherInv, MineInv, IdsInv, TheirsInv
<1>6. FoundInv'
  <2>1. Leads => Leads'
    BY <1>1, <1>2 DEF Leads, IsUpload, Least
  <2>2. Metas(found)' = Metas(found)
    BY <1>1 DEF Metas
  <2> QED
    BY <1>1, <1>2, <2>1, <2>2 DEF GatherInv, FoundInv, Instant, Fits
<1>7. PastInv'
  <2>1. Metas(found)' = Metas(found)
    BY <1>1 DEF Metas
  <2> QED
    BY <1>1, <1>2, <2>1 DEF PastInv
<1> QED
  BY <1>3, <1>4, <1>5, <1>6, <1>7 DEF GatherInv

-----------------------------------------------------------------------------
(* The expansion                                                               *)

AllTexts == {m["text"] : m \in Shared \cup Uploaded}
Entries == [meta : Shared \cup Uploaded, kind : Kinds, score : {h.score : h \in Hits(Shared \cup Uploaded)},
            texts : Seq(AllTexts)]

\* What a text is of, whatever its revision.
Key(t) == <<t[2], t[3]>>

\* No hit of the document is newer.
NotOlder(t) ==
  t[1] = "shared" => \A i \in DOMAIN found :
    found[i].meta \notin Uploaded /\ found[i].meta["source"] = t[2] =>
      found[i].meta["text"][4] <= t[4]

Lookup ==
  step = "expand" => \A s \in DOMAIN neighbors : \A i \in DOMAIN neighbors[s] :
    \E m \in Shared : /\ m["source"] = s /\ m["text"][3] = i /\ neighbors[s][i] = m["text"]
                      /\ NotOlder(m["text"])

Shows(c, p) == \E h \in DOMAIN c : \E k \in DOMAIN c[h].texts : Key(c[h].texts[k]) = p

Once(c) ==
  \A h, i \in DOMAIN c : \A k \in DOMAIN c[h].texts, l \in DOMAIN c[i].texts :
    Key(c[h].texts[k]) = Key(c[i].texts[l]) => h = i /\ k = l

ContextType ==
  /\ context \in Seq(Entries) /\ Len(context) <= K
  /\ step = "expand" =>
       /\ widened \in 0 .. Len(found) /\ Len(context) <= widened
       /\ widened = 0 => consumed = {}
       /\ widened > 0 => context # <<>>
  /\ step \in {"gathered", "done"} => (context = <<>> <=> found = <<>>)
  /\ step = "done" /\ caller = "chat" /\ context = <<>> => ~Active(how.filter)

\* A text is in the context for its place in a window, or for a hit that has no place; of
\* what the windows took, and of the hits so far, everything is there.
ShownInv ==
  step = "expand" /\ NamedApart =>
    /\ \A h \in DOMAIN context : \A k \in DOMAIN context[h].texts :
         /\ NotOlder(context[h].texts[k])
         /\ \/ Key(context[h].texts[k]) \in consumed
            \/ \E i \in 1 .. widened : /\ ~Expandable(found[i])
                                       /\ context[h].texts[k] = found[i].meta["text"]
    /\ Once(context)
    /\ \A p \in consumed : p[1] \in Centers /\ Shows(context, p)
    /\ \A i \in 1 .. widened : Shows(context, Key(found[i].meta["text"]))

\* A chunk has no position if it was indexed before chunks had one.
LEMMA PositionIs ==
  ASSUME NEW m \in Shared
  PROVE  "chunk_index" \in DOMAIN m <=> ~(m["text"][4] = 0 /\ m["source"] \in Legacy)
<1>1. PICK c \in Corpus, rev \in Revisions : m = Of(c, rev)
  BY DEF Shared
<1>2. m["text"] = TextOf(c, rev) /\ m["source"] = c["source"]
  BY <1>1, OfShape
<1>3. m["text"][4] = rev
  BY <1>2 DEF TextOf
<1>4. 0 \in Revisions
  BY SearchAssumption DEF Revisions
<1>5. "chunk_index" \in DOMAIN Indexed(c, "shared", rev)
  <2>1. DOMAIN Indexed(c, "shared", rev) = DOMAIN c \cup {"text"}
    BY IndexedShape
  <2>2. "chunk_index" \in DOMAIN c
    BY CorpusShape
  <2> QED
    BY <2>1, <2>2
<1>6. CASE rev # 0
  BY <1>1, <1>3, <1>5, <1>6 DEF Of
<1>7. CASE rev = 0 /\ c["source"] \notin Legacy
  BY <1>1, <1>2, <1>5, <1>7 DEF Of, Original
<1>8. CASE rev = 0 /\ c["source"] \in Legacy
  <2> DEFINE known == Indexed(c, "shared", 0)
  <2>1. m = [f \in DOMAIN known \ {"chunk_index"} |-> known[f]]
    BY <1>1, <1>8 DEF Of, Original
  <2> HIDE DEF known
  <2>2. "chunk_index" \notin DOMAIN m
    BY <2>1
  <2> QED
    BY <1>2, <1>3, <1>8, <2>2
<1> QED
  BY <1>6, <1>7, <1>8

\* What is known of a hit, upload or not.
LEMMA FoundAre ==
  ASSUME TurnType, NEW hits \in Seq(Hits(Shared \cup Uploaded)), NEW i \in DOMAIN hits
  PROVE  /\ hits[i] \in Hits(Shared \cup Uploaded)
         /\ hits[i].meta \in Shared \cup Uploaded
         /\ hits[i].meta \notin Uploaded => hits[i].meta \in Shared
         /\ hits[i].texts = <<hits[i].meta["text"]>>
         /\ hits[i].meta["text"] \in AllTexts
         /\ hits[i].meta["text"][2] = hits[i].meta["source"]
         /\ Expandable(hits[i]) => /\ hits[i].meta["chunk_index"] \in Nat
                                    /\ hits[i].meta["text"][3] = hits[i].meta["chunk_index"]
         /\ ~Expandable(hits[i]) => hits[i].meta \in Shared
         /\ hits[i].meta["text"][4] \in Nat
<1>2. hits[i] \in Hits(Shared \cup Uploaded)
  BY ElementOfSeq, LenProperties
<1>3. hits[i].meta \in Shared \cup Uploaded /\ hits[i].texts = <<hits[i].meta["text"]>>
  BY <1>2, HitShape
<1>4. CASE hits[i].meta \in Shared
  <2>1. hits[i].meta["text"][4] \in Nat
    BY <1>4, SharedIs, SearchAssumption DEF Revisions
  <2> QED
    BY <1>2, <1>3, <1>4, <2>1, SharedIs DEF AllTexts, Expandable
<1>5. CASE hits[i].meta \in Uploaded
  <2>1. PICK u \in session :
          /\ "chunk_index" \in DOMAIN hits[i].meta
          /\ hits[i].meta["source"] = u[1] /\ hits[i].meta["chunk_index"] = u[2]
          /\ hits[i].meta["text"] = <<"session", u[1], u[2], u[3]>>
    BY <1>5, UploadShape
  <2>2. u[2] \in Nat /\ u[3] \in Nat
    BY SearchAssumption DEF TurnType
  <2>3. hits[i].meta["text"][2] = u[1] /\ hits[i].meta["text"][3] = u[2]
        /\ hits[i].meta["text"][4] = u[3]
    BY <2>1
  <2>4. hits[i].meta["text"] \in AllTexts
    BY <1>5 DEF AllTexts
  <2> QED
    BY <1>2, <1>3, <1>5, <2>1, <2>2, <2>3, <2>4 DEF Expandable
<1> QED
  BY <1>3, <1>4, <1>5

\* The text of an upload.
LEMMA UploadText ==
  ASSUME TurnType, NEW m \in Uploaded
  PROVE  \E u \in session :
           /\ m = Indexed([source |-> u[1], chunk_index |-> u[2]], "session", u[3])
           /\ m["text"][1] = "session" /\ m["text"][2] = u[1] /\ m["text"][3] = u[2]
           /\ m["text"][4] = u[3] /\ u[3] \in Nat
<1>1. PICK u \in session :
        /\ m = Indexed([source |-> u[1], chunk_index |-> u[2]], "session", u[3])
        /\ m["text"] = <<"session", u[1], u[2], u[3]>>
  BY UploadShape
<1>2. /\ m["text"][1] = "session" /\ m["text"][2] = u[1] /\ m["text"][3] = u[2]
      /\ m["text"][4] = u[3]
  BY <1>1
<1>3. u[3] \in Nat
  BY SearchAssumption DEF TurnType
<1> QED
  BY <1>1, <1>2, <1>3

\* Where uploads are named apart, two texts of one key are of one place.
LEMMA OneOrigin ==
  ASSUME TurnType, NamedApart, NEW m \in Shared \cup Uploaded, NEW n \in Shared \cup Uploaded,
         Key(m["text"]) = Key(n["text"])
  PROVE  (m \in Shared /\ n \in Shared) \/ m = n
<1>1. m["text"][2] = n["text"][2] /\ m["text"][3] = n["text"][3]
  BY DEF Key
<1>2. ASSUME NEW a \in Uploaded, NEW b \in Shared, a["text"][2] = b["text"][2] PROVE FALSE
  <2>1. b["text"][2] \in Sources
    BY SharedIs
  <2>2. PICK u \in session : a["text"][2] = u[1]
    BY UploadText
  <2> QED
    BY <1>2, <2>1, <2>2 DEF NamedApart
<1>3. ASSUME m \in Uploaded, n \in Uploaded PROVE m = n
  <2>1. PICK u \in session :
          /\ m = Indexed([source |-> u[1], chunk_index |-> u[2]], "session", u[3])
          /\ m["text"][2] = u[1] /\ m["text"][3] = u[2]
    BY <1>3, UploadText
  <2>2. PICK v \in session :
          /\ n = Indexed([source |-> v[1], chunk_index |-> v[2]], "session", v[3])
          /\ n["text"][2] = v[1] /\ n["text"][3] = v[2]
    BY <1>3, UploadText
  <2>3. v[1] = u[1] /\ v[2] = u[2]
    BY <1>1, <2>1, <2>2
  <2>4. v = u
    BY <2>3 DEF NamedApart
  <2> QED
    BY <2>1, <2>2, <2>4
<1> QED
  BY <1>1, <1>2, <1>3

\* A text of the key of a hit, not older than the hits of its document, shows that hit.
LEMMA SameKey ==
  ASSUME TurnType, HitsType, NamedApart, NEW i \in DOMAIN found, NEW t \in AllTexts,
         Key(t) = Key(found[i].meta["text"]), NotOlder(t)
  PROVE  /\ Place(t) = Place(found[i].meta["text"])
         /\ t[4] >= found[i].meta["text"][4]
<1> DEFINE m == found[i].meta
<1>1. PICK n \in Shared \cup Uploaded : t = n["text"]
  BY DEF AllTexts
<1>2. m \in Shared \cup Uploaded /\ m["text"][2] = m["source"]
  BY FoundAre DEF HitsType
<1>3. (n \in Shared /\ m \in Shared) \/ n = m
  BY <1>1, <1>2, OneOrigin
<1>4. t[2] = m["text"][2] /\ t[3] = m["text"][3]
  BY DEF Key
<1>5. CASE n \in Shared /\ m \in Shared
  <2>1. t[1] = "shared" /\ m["text"][1] = "shared" /\ t[4] \in Revisions
        /\ m["text"][4] \in Revisions /\ m \notin Uploaded
    BY <1>1, <1>5, SharedIs
  <2>2. m["text"][4] <= t[4]
    BY <1>2, <1>4, <2>1 DEF NotOlder
  <2>3. t[4] \in Int /\ m["text"][4] \in Int
    BY <2>1, SearchAssumption DEF Revisions
  <2>4. t[4] >= m["text"][4]
    BY <2>2, <2>3
  <2> QED
    BY <1>4, <2>1, <2>4 DEF Place
<1>6. CASE n = m /\ m \in Uploaded
  <2>1. m["text"][4] \in Nat
    BY <1>6, UploadText
  <2>2. m["text"][4] >= m["text"][4]
    BY <2>1
  <2> QED
    BY <1>1, <1>6, <2>2
<1> QED
  BY <1>2, <1>3, <1>5, <1>6

\* No two hits are of one key.
LEMMA FoundOnce ==
  ASSUME TurnType, NamedApart, NEW hits \in Seq(Hits(Shared \cup Uploaded)), Apart(hits),
         Instant(Metas(hits) \ Uploaded), NEW i \in DOMAIN hits, NEW j \in DOMAIN hits,
         Key(hits[i].meta["text"]) = Key(hits[j].meta["text"])
  PROVE  i = j
<1> DEFINE m == hits[i].meta
           n == hits[j].meta
<1>1. m \in Shared \cup Uploaded /\ n \in Shared \cup Uploaded
  BY FoundAre
<1>2. (m \in Shared /\ n \in Shared) \/ m = n
  BY <1>1, OneOrigin
<1>3. ASSUME m \in Shared, n \in Shared PROVE m = n
  <2>1. PICK c \in Corpus, rev \in Revisions : m["text"] = TextOf(c, rev)
    BY <1>3, SharedIs
  <2>2. PICK d \in Corpus, q \in Revisions : n["text"] = TextOf(d, q)
    BY <1>3, SharedIs
  <2>3. m["source"] = m["text"][2] /\ n["source"] = n["text"][2]
        /\ m \notin Uploaded /\ n \notin Uploaded
    BY <1>3, SharedIs
  <2>4. m["text"][2] = n["text"][2] /\ m["text"][3] = n["text"][3]
    BY DEF Key
  <2>5. m["text"][4] = n["text"][4]
    BY <2>3, <2>4 DEF Instant, Metas
  <2>6. m["text"] = <<"shared", c["source"], c["chunk_index"], rev>>
        /\ n["text"] = <<"shared", d["source"], d["chunk_index"], q>>
    BY <2>1, <2>2 DEF TextOf
  <2>7. c["source"] = d["source"] /\ c["chunk_index"] = d["chunk_index"] /\ rev = q
    BY <2>4, <2>5, <2>6
  <2>8. m["text"] = n["text"]
    BY <2>6, <2>7
  <2> QED
    BY <1>3, <2>8, SharedIs
<1>4. m = n
  BY <1>2, <1>3
<1> QED
  BY <1>4 DEF Apart

\* The hits of a document are of one revision.
LEMMA OwnNotOlder ==
  ASSUME TurnType, HitsType, Instant(Metas(found) \ Uploaded), NEW i \in DOMAIN found
  PROVE  NotOlder(found[i].meta["text"])
<1> DEFINE m == found[i].meta
<1>1. m \in Shared \cup Uploaded /\ m["text"][2] = m["source"]
  BY FoundAre DEF HitsType
<1>2. CASE m \in Uploaded
  BY <1>2, UploadText DEF NotOlder
<1>3. CASE m \in Shared
  <2>1. m \notin Uploaded /\ m["text"][4] \in Nat
    BY <1>3, SharedIs, SearchAssumption DEF Revisions
  <2>2. ASSUME NEW j \in DOMAIN found, found[j].meta \notin Uploaded,
               found[j].meta["source"] = m["text"][2]
        PROVE  found[j].meta["text"][4] <= m["text"][4]
    <3>1. found[j].meta["text"][4] = m["text"][4]
      BY <1>1, <2>1, <2>2 DEF Instant, Metas
    <3> QED
      BY <2>1, <3>1
  <2> QED
    BY <2>2 DEF NotOlder
<1> QED
  BY <1>1, <1>2, <1>3

\* A window is around its center, and but for it of texts that were fetched.
LEMMA WindowIs ==
  ASSUME NEW center \in Nat, NEW texts
  PROVE  /\ center \in Window(center, texts)
         /\ Window(center, texts) \subseteq center - Radius .. center + Radius
         /\ \A i \in Window(center, texts) : i = center \/ i \in DOMAIN texts
<1>1. Radius \in Nat
  BY SearchAssumption
<1>2. Window(center, texts) \subseteq center - Radius .. center + Radius
  BY <1>1 DEF Window
<1>3. ASSUME NEW i \in Window(center, texts), i # center PROVE i \in DOMAIN texts
  <2>1. i \in Int
    BY <1>1, <1>2
  <2>2. Between(i, center) \subseteq DOMAIN texts
    BY <1>3 DEF Window
  <2>3. i \in Between(i, center)
    BY <1>3, <2>1 DEF Between
  <2> QED
    BY <2>2, <2>3
<1> QED
  BY <1>2, <1>3 DEF Window

\* What the window of a hit adds: each place of it that is not taken, once.
LEMMA WidenIs ==
  ASSUME TurnType, HitsType, Instant(Metas(found) \ Uploaded), Lookup, step = "expand",
         NEW h \in DOMAIN found, Expandable(found[h]),
         found[h].meta["source"] \in DOMAIN neighbors
  PROVE  LET s == found[h].meta["source"]
             center == found[h].meta["chunk_index"]
             window == Window(center, neighbors[s])
             w == Widen(found[h], s, center)
         IN  /\ w \in Seq(AllTexts)
             /\ \A k \in DOMAIN w :
                  /\ NotOlder(w[k])
                  /\ \E p \in window : <<s, p>> \notin consumed /\ Key(w[k]) = <<s, p>>
             /\ \A k, l \in DOMAIN w : Key(w[k]) = Key(w[l]) => k = l
             /\ \A p \in window : <<s, p>> \notin consumed => \E k \in DOMAIN w : Key(w[k]) = <<s, p>>
<1> DEFINE s == found[h].meta["source"]
           center == found[h].meta["chunk_index"]
           own == found[h].meta["text"]
           window == Window(center, neighbors[s])
           N == 2 * Radius + 1
           position(k) == center - Radius - 1 + k
           text(i) == IF i \in DOMAIN neighbors[s] THEN neighbors[s][i] ELSE found[h].texts[1]
           fresh == {k \in 1 .. N : position(k) \in window /\ <<s, position(k)>> \notin consumed}
           row == [k \in 1 .. N |-> text(position(k))]
           w == Picked(row, fresh)
<1>1. Widen(found[h], s, center) = w
  BY DEF Widen
<1>2. /\ found[h].texts = <<own>> /\ own \in AllTexts /\ own[2] = s
      /\ center \in Nat /\ own[3] = center
  BY FoundAre DEF HitsType
<1>3. Radius \in Nat /\ N \in Nat
  BY SearchAssumption
<1>4. /\ center \in window /\ window \subseteq center - Radius .. center + Radius
      /\ \A i \in window : i = center \/ i \in DOMAIN neighbors[s]
  BY <1>2, WindowIs
<1>5. \A i \in DOMAIN neighbors[s] : \E m \in Shared :
        /\ m["source"] = s /\ m["text"][3] = i /\ neighbors[s][i] = m["text"]
        /\ NotOlder(m["text"])
  BY DEF Lookup
<1>6. NotOlder(own)
  BY OwnNotOlder
<1>7. \A i : text(i) \in AllTexts
  <2> SUFFICES ASSUME NEW i PROVE text(i) \in AllTexts
    OBVIOUS
  <2>1. CASE i \in DOMAIN neighbors[s]
    BY <1>5, <2>1 DEF AllTexts
  <2>2. CASE i \notin DOMAIN neighbors[s]
    <3>1. found[h].texts[1] = own
      BY <1>2
    <3> QED
      BY <1>2, <2>2, <3>1
  <2> QED
    BY <2>1, <2>2
<1>8. \A i \in window : Key(text(i)) = <<s, i>> /\ NotOlder(text(i))
  <2> SUFFICES ASSUME NEW i \in window PROVE Key(text(i)) = <<s, i>> /\ NotOlder(text(i))
    OBVIOUS
  <2>1. CASE i \in DOMAIN neighbors[s]
    <3>1. PICK m \in Shared : /\ m["source"] = s /\ m["text"][3] = i
                              /\ neighbors[s][i] = m["text"] /\ NotOlder(m["text"])
      BY <1>5, <2>1
    <3>2. m["text"][2] = s
      BY <3>1, SharedIs
    <3> QED
      BY <2>1, <3>1, <3>2 DEF Key
  <2>2. CASE i \notin DOMAIN neighbors[s]
    <3>1. i = center /\ found[h].texts[1] = own
      BY <1>2, <1>4, <2>2
    <3>2. text(i) = own
      BY <2>2, <3>1
    <3> QED
      BY <1>2, <1>6, <3>1, <3>2 DEF Key
  <2> QED
    BY <2>1, <2>2
<1> HIDE DEF text, window, center, s, own
<1>9. /\ \A k \in 1 .. N : row[k] = text(position(k)) /\ position(k) \in Int
      /\ \A k, l \in 1 .. N : position(k) = position(l) => k = l
      /\ \A p \in window : \E k \in 1 .. N : position(k) = p
  <2>1. \A k \in 1 .. N : row[k] = text(position(k))
    OBVIOUS
  <2>2. \A k \in 1 .. N : position(k) \in Int
    BY <1>2, <1>3
  <2>3. \A k, l \in 1 .. N : position(k) = position(l) => k = l
    BY <1>2, <1>3
  <2>4. ASSUME NEW p \in window PROVE \E k \in 1 .. N : position(k) = p
    <3>1. p \in center - Radius .. center + Radius
      BY <1>4
    <3> DEFINE k == p - center + Radius + 1
    <3>2. k \in 1 .. N /\ position(k) = p
      BY <1>2, <1>3, <3>1
    <3> QED
      BY <3>2
  <2> QED
    BY <2>1, <2>2, <2>3, <2>4
<1>10. row \in Seq(AllTexts) /\ DOMAIN row = 1 .. N
  <2>1. row \in [1 .. N -> AllTexts]
    BY <1>7
  <2> QED
    BY <1>3, <2>1, SeqDef
<1>11. /\ fresh \in SUBSET DOMAIN row
       /\ \A k \in fresh : k \in 1 .. N /\ position(k) \in window /\ <<s, position(k)>> \notin consumed
       /\ \A k \in 1 .. N : position(k) \in window /\ <<s, position(k)>> \notin consumed => k \in fresh
  BY <1>10
<1> HIDE DEF row, fresh, position, N
<1>12. /\ w \in Seq(AllTexts) /\ DOMAIN w = 1 .. Cardinality(fresh)
       /\ IsFiniteSet(fresh) /\ fresh \in SUBSET Nat /\ Cardinality(fresh) \in Nat
       /\ \A k \in DOMAIN w : Ith(fresh, k) \in fresh /\ w[k] = row[Ith(fresh, k)]
  BY <1>10, <1>11, PickedIsSeq
<1>13. {w[k] : k \in DOMAIN w} = {row[k] : k \in fresh}
  BY <1>10, <1>11, PickedRange
<1> HIDE DEF w
<1>14. \A k \in fresh : Key(row[k]) = <<s, position(k)>> /\ NotOlder(row[k])
  <2> SUFFICES ASSUME NEW k \in fresh
               PROVE  Key(row[k]) = <<s, position(k)>> /\ NotOlder(row[k])
    OBVIOUS
  <2>1. k \in 1 .. N /\ position(k) \in window
    BY <1>11
  <2>2. row[k] = text(position(k))
    BY <1>9, <2>1
  <2> QED
    BY <1>8, <2>1, <2>2
<1>15. ASSUME NEW k \in DOMAIN w
       PROVE  /\ NotOlder(w[k])
              /\ \E p \in window : <<s, p>> \notin consumed /\ Key(w[k]) = <<s, p>>
  <2> DEFINE e == Ith(fresh, k)
  <2>1. e \in fresh /\ w[k] = row[e]
    BY <1>12
  <2> HIDE DEF e
  <2> QED
    BY <1>11, <1>14, <2>1
<1>16. ASSUME NEW k \in DOMAIN w, NEW l \in DOMAIN w, k < l PROVE Key(w[k]) # Key(w[l])
  <2> DEFINE d == Ith(fresh, k)
             e == Ith(fresh, l)
  <2>1. d < e
    BY <1>12, <1>16, IthGrows
  <2>2. d \in fresh /\ e \in fresh /\ w[k] = row[d] /\ w[l] = row[e]
    BY <1>12
  <2> HIDE DEF d, e
  <2>3. d # e
    BY <1>12, <2>1, <2>2
  <2>4. position(d) # position(e)
    BY <1>9, <1>11, <2>2, <2>3
  <2> QED
    BY <1>14, <2>2, <2>4
<1>17. ASSUME NEW k \in DOMAIN w, NEW l \in DOMAIN w, Key(w[k]) = Key(w[l]) PROVE k = l
  <2>1. k \in Nat /\ l \in Nat
    BY <1>12
  <2>2. ~(k < l) /\ ~(l < k)
    BY <1>16, <1>17
  <2> QED
    BY <2>1, <2>2
<1>18. ASSUME NEW p \in window, <<s, p>> \notin consumed
       PROVE  \E k \in DOMAIN w : Key(w[k]) = <<s, p>>
  <2>1. PICK e \in 1 .. N : position(e) = p
    BY <1>9
  <2>2. e \in fresh
    BY <1>11, <1>18, <2>1
  <2>3. PICK k \in DOMAIN w : w[k] = row[e]
    BY <1>13, <2>2
  <2> QED
    BY <1>14, <2>1, <2>2, <2>3
<1> QED
  BY <1>1, <1>12, <1>15, <1>17, <1>18 DEF s, center, window

\* An entry of the context is a hit, with other texts perhaps.
LEMMA EntryIs ==
  ASSUME NEW h \in Hits(Shared \cup Uploaded), NEW t \in Seq(AllTexts)
  PROVE  [h EXCEPT !.texts = t] \in Entries /\ [h EXCEPT !.texts = t].texts = t
<1>1. /\ h.meta \in Shared \cup Uploaded /\ h.kind \in Kinds
      /\ h = [meta |-> h.meta, kind |-> h.kind, score |-> h.score, texts |-> h.texts]
  BY HitShape DEF Hit
<1>2. h.score \in {g.score : g \in Hits(Shared \cup Uploaded)}
  OBVIOUS
<1>3. [h EXCEPT !.texts = t] = [meta |-> h.meta, kind |-> h.kind, score |-> h.score, texts |-> t]
  BY <1>1
<1> QED
  BY <1>1, <1>2, <1>3 DEF Entries

\* A hit passed through is an entry.
LEMMA HitIsEntry ==
  ASSUME NEW h \in Hits(Shared \cup Uploaded)
  PROVE  h \in Entries
<1>1. /\ h.meta \in Shared \cup Uploaded /\ h.kind \in Kinds /\ h.texts = <<h.meta["text"]>>
      /\ h = [meta |-> h.meta, kind |-> h.kind, score |-> h.score, texts |-> h.texts]
  BY HitShape DEF Hit
<1>2. h.score \in {g.score : g \in Hits(Shared \cup Uploaded)}
  OBVIOUS
<1>3. h.texts \in Seq(AllTexts)
  <2>1. h.meta["text"] \in AllTexts
    BY <1>1 DEF AllTexts
  <2> HIDE DEF AllTexts
  <2> QED
    BY <1>1, <2>1
<1> QED
  BY <1>1, <1>2, <1>3 DEF Entries

\* A context that shows nothing twice, and one entry more.
LEMMA OnceMore ==
  ASSUME NEW c \in Seq(Entries), NEW e \in Entries, Once(c),
         \A k, l \in DOMAIN e.texts : Key(e.texts[k]) = Key(e.texts[l]) => k = l,
         \A k \in DOMAIN e.texts : ~Shows(c, Key(e.texts[k]))
  PROVE  LET d == Append(c, e)
         IN  /\ d \in Seq(Entries) /\ Len(d) = Len(c) + 1 /\ d # <<>> /\ Once(d)
             /\ \A h \in DOMAIN d : d[h] = e \/ \E i \in DOMAIN c : d[h] = c[i]
             /\ \A p : Shows(c, p) => Shows(d, p)
             /\ \A k \in DOMAIN e.texts : Shows(d, Key(e.texts[k]))
<1> DEFINE d == Append(c, e)
           n == Len(c)
<1>1. n \in Nat /\ DOMAIN c = 1 .. n
  BY LenProperties
<1>2. /\ d \in Seq(Entries) /\ Len(d) = n + 1
      /\ \A i \in 1 .. n : d[i] = c[i]
      /\ d[n + 1] = e
  BY AppendProperties
<1> HIDE DEF d, n
<1>3. DOMAIN d = 1 .. n + 1
  BY <1>2, LenProperties
<1>4. \A h \in DOMAIN d : (h = n + 1 /\ d[h] = e) \/ (h \in DOMAIN c /\ d[h] = c[h])
  BY <1>1, <1>2, <1>3
<1>5. \A h \in DOMAIN c : h \in DOMAIN d /\ d[h] = c[h]
  BY <1>1, <1>2, <1>3
<1>6. n + 1 \in DOMAIN d /\ d # <<>>
  <2>1. n + 1 \in DOMAIN d
    BY <1>1, <1>3
  <2> QED
    BY <2>1, EmptySeq
<1>7. Once(d)
  <2> SUFFICES ASSUME NEW h \in DOMAIN d, NEW i \in DOMAIN d,
                      NEW k \in DOMAIN d[h].texts, NEW l \in DOMAIN d[i].texts,
                      Key(d[h].texts[k]) = Key(d[i].texts[l])
               PROVE  h = i /\ k = l
    BY DEF Once
  <2>1. CASE d[h] = e /\ h = n + 1 /\ d[i] = e /\ i = n + 1
    BY <2>1
  <2>2. CASE h \in DOMAIN c /\ d[h] = c[h] /\ i \in DOMAIN c /\ d[i] = c[i]
    BY <2>2 DEF Once
  <2>3. CASE d[h] = e /\ i \in DOMAIN c /\ d[i] = c[i]
    BY <2>3 DEF Shows
  <2>4. CASE d[i] = e /\ h \in DOMAIN c /\ d[h] = c[h]
    BY <2>4 DEF Shows
  <2> QED
    BY <1>4, <2>1, <2>2, <2>3, <2>4
<1>8. ASSUME NEW p, Shows(c, p) PROVE Shows(d, p)
  BY <1>5, <1>8 DEF Shows
<1>9. \A k \in DOMAIN e.texts : Shows(d, Key(e.texts[k]))
  BY <1>2, <1>6 DEF Shows
<1> QED
  BY <1>2, <1>4, <1>6, <1>7, <1>8, <1>9 DEF d, n

ExpandInv == ContextType /\ Lookup /\ ShownInv /\ ExpansionIsExact

\* The turn fixes what an entry may be.
LEMMA EntriesStay ==
  ASSUME UNCHANGED turnVars
  PROVE  /\ Entries' = Entries /\ AllTexts' = AllTexts /\ NamedApart' = NamedApart
         /\ Uploaded' = Uploaded /\ Shared' = Shared /\ caller' = caller
<1>1. /\ Uploaded' = Uploaded /\ Shared' = Shared
      /\ Hits(Shared \cup Uploaded)' = Hits(Shared \cup Uploaded)
  BY Unmoved
<1>2. session' = session /\ caller' = caller
  BY DEF turnVars
<1>3. AllTexts' = AllTexts
  BY <1>1 DEF AllTexts
<1>4. Entries' = Entries
  BY <1>1, <1>3 DEF Entries
<1>5. NamedApart' = NamedApart
  BY <1>2 DEF NamedApart
<1> QED
  BY <1>1, <1>2, <1>3, <1>4, <1>5

\* Nothing is expanded yet.
LEMMA ExpandInit == SearchInit => ExpandInv
<1> SUFFICES ASSUME SearchInit PROVE ExpandInv
  OBVIOUS
<1>1. step = "route" /\ context = <<>>
  BY DEF SearchInit
<1>2. <<>> \in Seq(Entries) /\ Len(<<>>) = 0 /\ K \in Nat
  BY EmptySeq, SearchAssumption
<1> QED
  BY <1>1, <1>2 DEF ExpandInv, ContextType, Lookup, ShownInv, ExpansionIsExact, NothingTwice,
    EveryHitIsShown

\* Before the hits are merged nothing is promised of the context.
LEMMA ExpandElsewhere ==
  ASSUME UNCHANGED turnVars, UNCHANGED context, ContextType,
         step' \notin {"expand", "gathered", "done"}
  PROVE  ExpandInv'
<1>1. Entries' = Entries
  BY EntriesStay
<1> QED
  BY <1>1 DEF ExpandInv, ContextType, Lookup, ShownInv, ExpansionIsExact, NothingTwice,
    EveryHitIsShown

\* What the search does not touch stays as it is.
LEMMA ExpandStays ==
  ASSUME UNCHANGED <<turnVars, gatherVars>>, ExpandInv
  PROVE  ExpandInv'
<1>1. UNCHANGED <<step, how, found, neighbors, widened, consumed, context>>
  BY DEF gatherVars, expandVars
<1>2. /\ Entries' = Entries /\ NamedApart' = NamedApart /\ Uploaded' = Uploaded
      /\ Shared' = Shared /\ caller' = caller
  BY EntriesStay
<1>3. ContextType'
  BY <1>1, <1>2 DEF ExpandInv, ContextType, Active, NoFilter
<1>4. \A t : NotOlder(t)' = NotOlder(t)
  BY <1>1, <1>2 DEF NotOlder
<1>5. Lookup'
  BY <1>1, <1>2, <1>4 DEF ExpandInv, Lookup
<1>6. Centers' = Centers
  BY <1>1 DEF Centers, Expandable
<1>7. ShownInv'
  BY <1>1, <1>2, <1>4, <1>6 DEF ExpandInv, ShownInv, Once, Shows, Key, Expandable
<1>8. ExpansionIsExact'
  BY <1>1, <1>2 DEF ExpandInv, ExpansionIsExact, NothingTwice, EveryHitIsShown, Place
<1> QED
  BY <1>3, <1>5, <1>7, <1>8 DEF ExpandInv

\* The neighbors of a document are as new as its hits or newer.
LEMMA FetchExpands ==
  ASSUME WriteType, StoreInv, GatherInv, PastInv, ExpandInv, NEW s, FetchNeighbors(s)
  PROVE  ExpandInv'
<1>1. /\ UNCHANGED <<turnVars, writeVars>>
      /\ UNCHANGED <<step, how, found, widened, consumed, context>>
      /\ step = "expand" /\ s \notin DOMAIN neighbors
      /\ neighbors' = With(neighbors, s, Neighbors(s))
  BY DEF FetchNeighbors
<1>2. /\ Entries' = Entries /\ NamedApart' = NamedApart /\ Uploaded' = Uploaded
      /\ Shared' = Shared /\ caller' = caller
  BY <1>1, EntriesStay
<1>3. ContextType'
  BY <1>1, <1>2 DEF ExpandInv, ContextType
<1>4. \A t : NotOlder(t)' = NotOlder(t)
  BY <1>1, <1>2 DEF NotOlder
<1>5. Lookup'
  <2>1. /\ DOMAIN neighbors' = DOMAIN neighbors \cup {s}
        /\ \A r \in DOMAIN neighbors : neighbors'[r] = neighbors[r]
        /\ neighbors'[s] = Neighbors(s)
    BY <1>1 DEF With
  <2>2. ASSUME NEW i \in DOMAIN Neighbors(s)
        PROVE  \E m \in Shared : /\ m["source"] = s /\ m["text"][3] = i
                                 /\ Neighbors(s)[i] = m["text"] /\ NotOlder(m["text"])
    <3> DEFINE at == {m \in Primary : m["source"] = s /\ "chunk_index" \in DOMAIN m}
               m == CHOOSE n \in at : n["chunk_index"] = i
    <3>1. i \in {n["chunk_index"] : n \in at} /\ Neighbors(s)[i] = m["text"]
      BY <2>2 DEF Neighbors
    <3>2. m \in at /\ m["chunk_index"] = i
      BY <3>1
    <3>3. m \in Primary /\ m["source"] = s /\ "chunk_index" \in DOMAIN m
      BY <3>2
    <3> HIDE DEF m, at
    <3>4. m \in Shared /\ m["text"][2] = s
      BY <3>3, PrimaryIs
    <3>5. m["text"][3] = i
      BY <3>2, <3>3, <3>4, SharedIs
    <3>6. ASSUME NEW j \in DOMAIN found, found[j].meta \notin Uploaded, found[j].meta["source"] = s
          PROVE  found[j].meta["text"][4] <= m["text"][4]
      <4>1. Behind(found[j].meta["text"])
        BY <1>1, <3>6 DEF PastInv, Metas
      <4>2. found[j].meta["text"][2] = s
        BY <3>6, FoundAre DEF GatherInv, HitsType
      <4>3. m \in OwnRows(1, s)
        BY <3>3 DEF OwnRows, Primary
      <4> QED
        BY <4>1, <4>2, <4>3 DEF Behind
    <3>7. NotOlder(m["text"])
      BY <3>4, <3>6 DEF NotOlder
    <3> QED
      BY <3>1, <3>3, <3>4, <3>5, <3>7
  <2>3. ASSUME NEW r \in DOMAIN neighbors', NEW i \in DOMAIN neighbors'[r]
        PROVE  \E m \in Shared : /\ m["source"] = r /\ m["text"][3] = i
                                 /\ neighbors'[r][i] = m["text"] /\ NotOlder(m["text"])
    <3>1. CASE r \in DOMAIN neighbors
      BY <1>1, <2>1, <2>3, <3>1 DEF ExpandInv, Lookup
    <3>2. CASE r = s
      BY <2>1, <2>2, <2>3, <3>2
    <3> QED
      BY <2>1, <3>1, <3>2
  <2> QED
    BY <1>2, <1>4, <2>3 DEF Lookup
<1>6. Centers' = Centers
  BY <1>1 DEF Centers, Expandable
<1>7. ShownInv'
  BY <1>1, <1>2, <1>4, <1>6 DEF ExpandInv, ShownInv, Once, Shows, Key, Expandable
<1>8. ExpansionIsExact'
  BY <1>1 DEF ExpansionIsExact, NothingTwice, EveryHitIsShown
<1> QED
  BY <1>3, <1>5, <1>7, <1>8 DEF ExpandInv

\* The documents of chunks without a position have no center.
LEMMA NoCenter ==
  ASSUME TurnType, HitsType, NamedApart, Instant(Metas(found) \ Uploaded),
         NEW i \in DOMAIN found, ~Expandable(found[i])
  PROVE  found[i].meta["source"] \notin Centers
<1> SUFFICES ASSUME NEW j \in DOMAIN found, Expandable(found[j]),
                    found[j].meta["source"] = found[i].meta["source"]
             PROVE  FALSE
  BY DEF Centers
<1> DEFINE m == found[i].meta
           n == found[j].meta
<1>1. m \in Shared /\ n \in Shared \cup Uploaded /\ n["text"][2] = n["source"]
  BY FoundAre DEF HitsType
<1>2. m["source"] \in Sources /\ m \notin Uploaded
  BY <1>1, SharedIs
<1>3. n \notin Uploaded
  <2> SUFFICES ASSUME n \in Uploaded PROVE FALSE
    OBVIOUS
  <2>1. PICK u \in session : n["text"][2] = u[1]
    BY UploadText
  <2> QED
    BY <1>1, <1>2, <2>1 DEF NamedApart
<1>4. n["text"][4] = m["text"][4] /\ n["source"] = m["source"] /\ n \in Shared
  BY <1>1, <1>2, <1>3 DEF Instant, Metas
<1> QED
  BY <1>1, <1>4, PositionIs DEF Expandable

\* The three ways to go on with a hit: passed through, dropped, widened.
LEMMA HitIs ==
  ASSUME TurnType, HitsType, ContextType, ExpandHit
  PROVE  /\ UNCHANGED <<turnVars, writeVars>> /\ UNCHANGED <<step, how, found, neighbors>>
         /\ step = "expand" /\ Centers \subseteq DOMAIN neighbors
         /\ widened + 1 \in DOMAIN found /\ widened' = widened + 1 /\ widened \in Nat
         /\ widened < Len(found) /\ Len(found) \in Nat
         /\ LET hit == found[widened + 1]
                source == hit.meta["source"]
                center == hit.meta["chunk_index"]
            IN  /\ hit \in Hits(Shared \cup Uploaded)
                /\ \/ ~Expandable(hit) /\ context' = Append(context, hit) /\ consumed' = consumed
                   \/ /\ Expandable(hit) /\ <<source, center>> \in consumed
                      /\ context' = context /\ consumed' = consumed
                   \/ /\ Expandable(hit) /\ <<source, center>> \notin consumed
                      /\ context' = Append(context, [hit EXCEPT !.texts = Widen(hit, source, center)])
                      /\ consumed' = consumed \cup Consume(source, center)
<1>1. /\ UNCHANGED <<turnVars, writeVars>> /\ UNCHANGED <<step, how, found, neighbors>>
      /\ step = "expand" /\ Centers \subseteq DOMAIN neighbors
      /\ widened' = widened + 1 /\ widened < Len(found)
  BY DEF ExpandHit
<1>2. widened \in 0 .. Len(found)
  BY <1>1 DEF ContextType
<1>3. found \in Seq(Hits(Shared \cup Uploaded))
  BY DEF HitsType
<1>4. Len(found) \in Nat /\ DOMAIN found = 1 .. Len(found)
  BY <1>3, LenProperties
<1>5. widened + 1 \in DOMAIN found /\ widened \in Nat
  BY <1>1, <1>2, <1>4
<1>6. found[widened + 1] \in Hits(Shared \cup Uploaded)
  BY <1>3, <1>4, <1>5, ElementOfSeq
<1> QED
  BY <1>1, <1>4, <1>5, <1>6 DEF ExpandHit

\* There are no more entries than hits, and at least one.
LEMMA HitKeepsType ==
  ASSUME TurnType, HitsType, FoundInv, Lookup, ContextType, ExpandHit
  PROVE  ContextType'
<1> DEFINE hit == found[widened + 1]
           source == hit.meta["source"]
           center == hit.meta["chunk_index"]
<1>1. /\ UNCHANGED <<turnVars, writeVars>> /\ UNCHANGED <<step, how, found, neighbors>>
      /\ step = "expand" /\ Centers \subseteq DOMAIN neighbors
      /\ widened + 1 \in DOMAIN found /\ widened' = widened + 1 /\ widened \in Nat
      /\ widened < Len(found) /\ Len(found) \in Nat /\ hit \in Hits(Shared \cup Uploaded)
  BY HitIs
<1>2. /\ context \in Seq(Entries) /\ Len(context) <= widened
      /\ widened = 0 => consumed = {}
      /\ widened > 0 => context # <<>>
  BY <1>1 DEF ContextType
<1>3. /\ Entries' = Entries /\ caller' = caller
  BY <1>1, EntriesStay
<1>4. Len(context) \in Nat /\ Len(found) <= K /\ K \in Nat
  BY <1>2, LenProperties, SearchAssumption DEF HitsType
<1>5. context' \in Seq(Entries) /\ Len(context') <= widened + 1 /\ context' # <<>>
  <2>1. ASSUME NEW e \in Entries, context' = Append(context, e)
        PROVE  context' \in Seq(Entries) /\ Len(context') <= widened + 1 /\ context' # <<>>
    <3>1. context' \in Seq(Entries) /\ Len(context') = Len(context) + 1
      BY <1>2, <2>1, AppendProperties
    <3>2. Len(context') # 0
      BY <1>4, <3>1
    <3> QED
      BY <1>1, <1>2, <1>4, <3>1, <3>2, EmptySeq
  <2>2. CASE ~Expandable(hit) /\ context' = Append(context, hit)
    BY <1>1, <2>1, <2>2, HitIsEntry
  <2>3. CASE <<source, center>> \in consumed /\ context' = context
    <3>1. widened # 0
      BY <1>2, <2>3
    <3> QED
      BY <1>1, <1>2, <1>4, <2>3, <3>1
  <2>4. CASE /\ Expandable(hit)
             /\ context' = Append(context, [hit EXCEPT !.texts = Widen(hit, source, center)])
    <3>1. source \in Centers
      BY <1>1, <2>4 DEF Centers
    <3>2. Widen(hit, source, center) \in Seq(AllTexts)
      BY <1>1, <2>4, <3>1, WidenIs DEF FoundInv
    <3>3. [hit EXCEPT !.texts = Widen(hit, source, center)] \in Entries
      BY <1>1, <3>2, EntryIs
    <3> QED
      BY <2>1, <2>4, <3>3
  <2> QED
    BY <2>2, <2>3, <2>4, HitIs
<1> QED
  BY <1>1, <1>3, <1>4, <1>5 DEF ContextType

\* Whichever way a hit goes, it is shown, and nothing is shown twice.
LEMMA HitKeepsShown ==
  ASSUME TurnType, HitsType, FoundInv, Lookup, ContextType, ShownInv, ExpandHit
  PROVE  ShownInv'
<1> DEFINE H == widened + 1
           hit == found[H]
           own == hit.meta["text"]
           source == hit.meta["source"]
           center == hit.meta["chunk_index"]
           pathless(t, n) == \E i \in 1 .. n : ~Expandable(found[i]) /\ t = found[i].meta["text"]
<1>1. /\ UNCHANGED <<turnVars, writeVars>> /\ UNCHANGED <<step, how, found, neighbors>>
      /\ step = "expand" /\ Centers \subseteq DOMAIN neighbors
      /\ H \in DOMAIN found /\ widened' = H /\ widened \in Nat
      /\ widened < Len(found) /\ Len(found) \in Nat /\ hit \in Hits(Shared \cup Uploaded)
  BY HitIs
<1>2. /\ Uploaded' = Uploaded /\ NamedApart' = NamedApart
  BY <1>1, EntriesStay
<1> SUFFICES ASSUME NamedApart
             PROVE  /\ \A h \in DOMAIN context' : \A k \in DOMAIN context'[h].texts :
                         /\ NotOlder(context'[h].texts[k])
                         /\ Key(context'[h].texts[k]) \in consumed' \/ pathless(context'[h].texts[k], H)
                    /\ Once(context')
                    /\ \A p \in consumed' : p[1] \in Centers /\ Shows(context', p)
                    /\ \A i \in 1 .. H : Shows(context', Key(found[i].meta["text"]))
  <2>1. \A t : NotOlder(t)' = NotOlder(t)
    BY <1>1, <1>2 DEF NotOlder
  <2>2. Centers' = Centers
    BY <1>1 DEF Centers, Expandable
  <2>3. Once(context)' = Once(context')
    BY DEF Once, Key
  <2>4. \A p : Shows(context, p)' = Shows(context', p)
    BY DEF Shows, Key
  <2> QED
    BY <1>1, <1>2, <2>1, <2>2, <2>3, <2>4 DEF ShownInv, Key, Expandable
<1>3. /\ \A h \in DOMAIN context : \A k \in DOMAIN context[h].texts :
           /\ NotOlder(context[h].texts[k])
           /\ Key(context[h].texts[k]) \in consumed \/ pathless(context[h].texts[k], widened)
      /\ Once(context)
      /\ \A p \in consumed : p[1] \in Centers /\ Shows(context, p)
      /\ \A i \in 1 .. widened : Shows(context, Key(found[i].meta["text"]))
  BY <1>1 DEF ShownInv
<1>4. context \in Seq(Entries) /\ Instant(Metas(found) \ Uploaded)
  BY <1>1 DEF ContextType, FoundInv
<1>5. /\ own[2] = source /\ hit.texts = <<own>>
      /\ Expandable(hit) => center \in Nat /\ own[3] = center
  BY <1>1, FoundAre DEF HitsType
<1>6. \A i \in 1 .. H : i \in 1 .. widened \/ i = H
  BY <1>1
<1>7. \A i \in 1 .. widened : i \in DOMAIN found /\ i # H /\ i \in 1 .. H
  <2>1. DOMAIN found = 1 .. Len(found)
    BY LenProperties DEF HitsType
  <2> QED
    BY <1>1, <2>1
<1>8. \A t : pathless(t, widened) => pathless(t, H)
  BY <1>7
<1>9. H \in 1 .. H
  BY <1>1
<1>10. ASSUME NEW t, pathless(t, widened) PROVE t[2] \notin Centers
  <2>1. PICK i \in DOMAIN found : ~Expandable(found[i]) /\ t = found[i].meta["text"]
    BY <1>7, <1>10
  <2>2. t[2] = found[i].meta["source"]
    BY <2>1, FoundAre DEF HitsType
  <2> QED
    BY <1>4, <2>1, <2>2, NoCenter
<1>11. CASE ~Expandable(hit) /\ context' = Append(context, hit) /\ consumed' = consumed
  <2>1. hit \in Entries
    BY <1>1, HitIsEntry
  <2>2. source \notin Centers
    BY <1>1, <1>4, <1>11, NoCenter
  <2>3. DOMAIN hit.texts = {1} /\ hit.texts[1] = own
    BY <1>5
  <2>4. ~Shows(context, Key(own))
    <3> SUFFICES ASSUME NEW h \in DOMAIN context, NEW k \in DOMAIN context[h].texts,
                        Key(context[h].texts[k]) = Key(own)
                 PROVE  FALSE
      BY DEF Shows
    <3>1. CASE Key(context[h].texts[k]) \in consumed
      <4>1. Key(own)[1] \in Centers
        BY <1>3, <3>1
      <4>2. Key(own)[1] = source
        BY <1>5 DEF Key
      <4> QED
        BY <2>2, <4>1, <4>2
    <3>2. CASE pathless(context[h].texts[k], widened)
      <4>1. PICK i \in 1 .. widened : context[h].texts[k] = found[i].meta["text"]
        BY <3>2
      <4>2. i \in DOMAIN found /\ i # H /\ H \in DOMAIN found
        BY <1>1, <1>7
      <4>3. Key(found[i].meta["text"]) = Key(found[H].meta["text"])
        BY <4>1
      <4>4. found \in Seq(Hits(Shared \cup Uploaded)) /\ Apart(found)
        BY DEF HitsType
      <4> QED
        BY <1>4, <4>2, <4>3, <4>4, FoundOnce
    <3> QED
      BY <1>3, <3>1, <3>2
  <2> HIDE DEF hit, own
  <2>5. /\ Once(context')
        /\ \A h \in DOMAIN context' : context'[h] = hit \/ \E i \in DOMAIN context : context'[h] = context[i]
        /\ \A p : Shows(context, p) => Shows(context', p)
        /\ \A k \in DOMAIN hit.texts : Shows(context', Key(hit.texts[k]))
    <3>1. \A k, l \in DOMAIN hit.texts : Key(hit.texts[k]) = Key(hit.texts[l]) => k = l
      BY <2>3
    <3>2. \A k \in DOMAIN hit.texts : ~Shows(context, Key(hit.texts[k]))
      BY <2>3, <2>4
    <3> QED
      BY <1>3, <1>4, <1>11, <2>1, <3>1, <3>2, OnceMore
  <2>6. NotOlder(own)
    BY <1>1, <1>4, OwnNotOlder DEF own, hit
  <2>7. pathless(own, H)
    BY <1>9, <1>11 DEF own, hit
  <2> HIDE DEF pathless
  <2>8. ASSUME NEW h \in DOMAIN context', NEW k \in DOMAIN context'[h].texts
        PROVE  /\ NotOlder(context'[h].texts[k])
               /\ Key(context'[h].texts[k]) \in consumed' \/ pathless(context'[h].texts[k], H)
    <3>1. CASE context'[h] = hit
      BY <2>3, <2>6, <2>7, <2>8, <3>1
    <3>2. CASE \E i \in DOMAIN context : context'[h] = context[i]
      BY <1>3, <1>8, <1>11, <2>8, <3>2
    <3> QED
      BY <2>5, <3>1, <3>2
  <2>9. \A p \in consumed' : p[1] \in Centers /\ Shows(context', p)
    BY <1>3, <1>11, <2>5
  <2>10. \A i \in 1 .. H : Shows(context', Key(found[i].meta["text"]))
    BY <1>3, <1>6, <2>3, <2>5 DEF hit, own
  <2> QED
    BY <2>5, <2>8, <2>9, <2>10
<1>12. CASE /\ Expandable(hit) /\ <<source, center>> \in consumed
            /\ context' = context /\ consumed' = consumed
  <2>1. Key(own) = <<source, center>>
    BY <1>5, <1>12 DEF Key
  <2>2. Shows(context', Key(own))
    BY <1>3, <1>12, <2>1
  <2>3. \A i \in 1 .. H : Shows(context', Key(found[i].meta["text"]))
    BY <1>3, <1>6, <1>12, <2>2
  <2> HIDE DEF pathless, H
  <2> QED
    BY <1>3, <1>8, <1>12, <2>3
<1>13. CASE /\ Expandable(hit) /\ <<source, center>> \notin consumed
            /\ context' = Append(context, [hit EXCEPT !.texts = Widen(hit, source, center)])
            /\ consumed' = consumed \cup Consume(source, center)
  <2> DEFINE w == Widen(hit, source, center)
             e == [hit EXCEPT !.texts = w]
             window == Window(center, neighbors[source])
  <2>1. source \in Centers
    BY <1>1, <1>13 DEF Centers
  <2>2. /\ w \in Seq(AllTexts)
        /\ \A k \in DOMAIN w :
             /\ NotOlder(w[k])
             /\ \E p \in window : <<source, p>> \notin consumed /\ Key(w[k]) = <<source, p>>
        /\ \A k, l \in DOMAIN w : Key(w[k]) = Key(w[l]) => k = l
        /\ \A p \in window : <<source, p>> \notin consumed => \E k \in DOMAIN w : Key(w[k]) = <<source, p>>
    BY <1>1, <1>4, <1>13, <2>1, WidenIs
  <2>3. center \in window
    BY <1>5, <1>13, WindowIs
  <2>4. consumed' = consumed \cup {<<source, i>> : i \in window}
    BY <1>13 DEF Consume
  <2>5. Key(own) = <<source, center>>
    BY <1>5, <1>13 DEF Key
  <2> HIDE DEF w, window
  <2>6. e \in Entries /\ e.texts = w
    BY <1>1, <2>2, EntryIs
  <2>7. context' = Append(context, e)
    BY <1>13 DEF w
  <2> HIDE DEF e, own, source, center, hit
  <2>8. \A k \in DOMAIN w : ~Shows(context, Key(w[k]))
    <3> SUFFICES ASSUME NEW j \in DOMAIN w, NEW h \in DOMAIN context,
                        NEW k \in DOMAIN context[h].texts, Key(context[h].texts[k]) = Key(w[j])
                 PROVE  FALSE
      BY DEF Shows
    <3>1. PICK p \in window : <<source, p>> \notin consumed /\ Key(w[j]) = <<source, p>>
      BY <2>2
    <3>2. CASE Key(context[h].texts[k]) \in consumed
      BY <3>1, <3>2
    <3>3. CASE pathless(context[h].texts[k], widened)
      <4>1. context[h].texts[k][2] \notin Centers
        BY <1>10, <3>3
      <4>2. context[h].texts[k][2] = source
        BY <3>1 DEF Key
      <4> QED
        BY <2>1, <4>1, <4>2
    <3> QED
      BY <1>3, <3>2, <3>3
  <2> HIDE DEF pathless
  <2>9. /\ Once(context')
        /\ \A h \in DOMAIN context' : context'[h] = e \/ \E i \in DOMAIN context : context'[h] = context[i]
        /\ \A p : Shows(context, p) => Shows(context', p)
        /\ \A k \in DOMAIN e.texts : Shows(context', Key(e.texts[k]))
    <3>1. \A k, l \in DOMAIN e.texts : Key(e.texts[k]) = Key(e.texts[l]) => k = l
      BY <2>2, <2>6
    <3>2. \A k \in DOMAIN e.texts : ~Shows(context, Key(e.texts[k]))
      BY <2>6, <2>8
    <3> QED
      BY <1>3, <1>4, <2>6, <2>7, <3>1, <3>2, OnceMore
  <2>10. ASSUME NEW h \in DOMAIN context', NEW k \in DOMAIN context'[h].texts
         PROVE  /\ NotOlder(context'[h].texts[k])
                /\ Key(context'[h].texts[k]) \in consumed' \/ pathless(context'[h].texts[k], H)
    <3>1. CASE context'[h] = e
      BY <2>2, <2>4, <2>6, <2>10, <3>1
    <3>2. CASE \E i \in DOMAIN context : context'[h] = context[i]
      BY <1>3, <1>8, <2>4, <2>10, <3>2
    <3> QED
      BY <2>9, <3>1, <3>2
  <2>11. ASSUME NEW p \in consumed' PROVE p[1] \in Centers /\ Shows(context', p)
    <3>1. CASE p \in consumed
      BY <1>3, <2>9, <3>1
    <3>2. CASE p \notin consumed
      <4>1. PICK i \in window : p = <<source, i>>
        BY <2>4, <2>11, <3>2
      <4>2. PICK k \in DOMAIN w : Key(w[k]) = <<source, i>>
        BY <2>2, <3>2, <4>1
      <4>3. Shows(context', p)
        BY <2>6, <2>9, <4>1, <4>2
      <4>4. p[1] = source
        BY <4>1
      <4> QED
        BY <2>1, <4>3, <4>4
    <3> QED
      BY <3>1, <3>2
  <2>12. Shows(context', Key(own))
    BY <2>3, <2>4, <2>5, <2>11
  <2>13. \A i \in 1 .. H : Shows(context', Key(found[i].meta["text"]))
    <3>1. own = found[H].meta["text"]
      BY DEF own, hit
    <3> HIDE DEF H
    <3> QED
      BY <1>3, <1>6, <2>9, <2>12, <3>1
  <2> QED
    BY <2>9, <2>10, <2>11, <2>13
<1> QED
  BY <1>11, <1>12, <1>13, HitIs

\* All hits are through: each is shown, nothing twice.
LEMMA ExpandedExpands ==
  ASSUME TurnType, HitsType, ExpandInv, Expanded
  PROVE  ExpandInv'
<1>1. /\ UNCHANGED <<turnVars, writeVars>> /\ UNCHANGED <<how, found, context>>
      /\ step = "expand" /\ step' = "gathered" /\ widened = Len(found)
  BY DEF Expanded
<1>2. /\ Entries' = Entries /\ NamedApart' = NamedApart /\ caller' = caller
  BY <1>1, EntriesStay
<1>3. /\ found \in Seq(Hits(Shared \cup Uploaded)) /\ context \in Seq(Entries)
      /\ Len(context) <= K /\ Len(context) <= widened /\ (widened > 0 => context # <<>>)
  BY <1>1 DEF HitsType, ExpandInv, ContextType
<1>4. /\ Len(found) \in Nat /\ DOMAIN found = 1 .. Len(found)
      /\ Len(context) \in Nat /\ DOMAIN context = 1 .. Len(context)
  BY <1>3, LenProperties
<1>5. ContextType'
  <2>1. context = <<>> => found = <<>>
    <3>1. context = <<>> => Len(found) = 0
      BY <1>1, <1>3, <1>4
    <3> QED
      BY <1>3, <3>1, EmptySeq
  <2>2. found = <<>> => context = <<>>
    <3>1. found = <<>> => Len(context) = 0
      BY <1>1, <1>3, <1>4, EmptySeq
    <3> QED
      BY <1>3, <3>1, EmptySeq
  <2> QED
    BY <1>1, <1>2, <1>3, <2>1, <2>2 DEF ContextType
<1>6. ASSUME NamedApart PROVE NothingTwice' /\ EveryHitIsShown'
  <2>1. /\ \A h \in DOMAIN context : \A k \in DOMAIN context[h].texts : NotOlder(context[h].texts[k])
        /\ Once(context)
        /\ \A i \in 1 .. widened : Shows(context, Key(found[i].meta["text"]))
    BY <1>1, <1>6 DEF ExpandInv, ShownInv
  <2>2. ASSUME NEW h \in DOMAIN context, NEW i \in DOMAIN context,
               NEW k \in DOMAIN context[h].texts, NEW l \in DOMAIN context[i].texts,
               Place(context[h].texts[k]) = Place(context[i].texts[l])
        PROVE  h = i /\ k = l
    <3>1. Key(context[h].texts[k]) = Key(context[i].texts[l])
      BY <2>2 DEF Place, Key
    <3> QED
      BY <2>1, <3>1 DEF Once
  <2>3. ASSUME NEW i \in DOMAIN found
        PROVE  \E h \in DOMAIN context : \E k \in DOMAIN context[h].texts :
                 /\ Place(context[h].texts[k]) = Place(found[i].meta["text"])
                 /\ context[h].texts[k][4] >= found[i].meta["text"][4]
    <3>1. Shows(context, Key(found[i].meta["text"]))
      BY <1>1, <1>4, <2>1
    <3>2. PICK h \in DOMAIN context : \E k \in DOMAIN context[h].texts :
            Key(context[h].texts[k]) = Key(found[i].meta["text"])
      BY <3>1 DEF Shows
    <3>3. PICK k \in DOMAIN context[h].texts :
            Key(context[h].texts[k]) = Key(found[i].meta["text"])
      BY <3>2
    <3>4. context[h] \in Entries
      BY <1>3, <1>4, ElementOfSeq
    <3>5. context[h].texts \in Seq(AllTexts)
      BY <3>4 DEF Entries
    <3>6. context[h].texts[k] \in AllTexts
      BY <3>5, ElementOfSeq, LenProperties
    <3>7. NotOlder(context[h].texts[k])
      BY <2>1
    <3>8. /\ Place(context[h].texts[k]) = Place(found[i].meta["text"])
          /\ context[h].texts[k][4] >= found[i].meta["text"][4]
      BY <1>6, <3>3, <3>6, <3>7, SameKey
    <3> QED
      BY <3>8
  <2>4. NothingTwice'
    BY <1>1, <2>2 DEF NothingTwice, Place
  <2>5. EveryHitIsShown'
    BY <1>1, <2>3 DEF EveryHitIsShown, Place
  <2> QED
    BY <2>4, <2>5
<1>7. ExpansionIsExact'
  BY <1>2, <1>6 DEF ExpansionIsExact
<1> QED
  BY <1>1, <1>5, <1>7 DEF ExpandInv, Lookup, ShownInv

\* An empty answer is final only without a filter.
LEMMA BroadenExpands ==
  ASSUME ExpandInv, Broaden
  PROVE  ExpandInv'
<1>1. /\ UNCHANGED turnVars /\ UNCHANGED <<found, context>> /\ step = "gathered"
      /\ \/ step' = "session"
         \/ step' = "done" /\ how' = how /\ ~(context = <<>> /\ Active(how.filter))
  BY DEF Broaden
<1>2. CASE step' = "session"
  BY <1>1, <1>2, ExpandElsewhere DEF ExpandInv
<1>3. CASE step' = "done" /\ how' = how /\ ~(context = <<>> /\ Active(how.filter))
  <2>1. /\ Entries' = Entries /\ NamedApart' = NamedApart /\ caller' = caller
    BY <1>1, EntriesStay
  <2>2. ContextType'
    BY <1>1, <1>3, <2>1 DEF ExpandInv, ContextType, Active, NoFilter
  <2>3. ExpansionIsExact'
    BY <1>1, <1>3, <2>1 DEF ExpandInv, ExpansionIsExact, NothingTwice, EveryHitIsShown, Place
  <2> QED
    BY <1>3, <2>2, <2>3 DEF ExpandInv, Lookup, ShownInv
<1> QED
  BY <1>1, <1>2, <1>3

\* Without expansion the context is the hits; with it, it starts empty.
LEMMA MergedExpands ==
  ASSUME WriteType, StoreInv, GatherInv, PastInv, Merged, ContextType
  PROVE  ExpandInv'
<1>1. /\ UNCHANGED <<turnVars, writeVars>> /\ step' \in {"done", "expand", "gathered"}
      /\ (step' = "done" => caller # "chat")
      /\ neighbors' = <<>> /\ widened' = 0 /\ consumed' = {}
      /\ context' = IF step' = "expand" THEN <<>> ELSE found'
  BY DEF Merged
<1>2. /\ Entries' = Entries /\ NamedApart' = NamedApart /\ caller' = caller
      /\ Uploaded' = Uploaded /\ Shared' = Shared
  BY <1>1, EntriesStay
<1>3. GatherInv'
  BY MergedGathers
<1>4. /\ found' \in Seq(Hits(Shared \cup Uploaded)) /\ Len(found') <= K /\ Apart(found')
      /\ Instant(Metas(found') \ Uploaded)
  <2>1. Hits(Shared \cup Uploaded)' = Hits(Shared \cup Uploaded)
    BY <1>1, Unmoved
  <2>2. found' \in Seq(Hits(Shared \cup Uploaded)) /\ Len(found') <= K /\ Apart(found)'
    BY <1>3, <2>1 DEF GatherInv, HitsType
  <2>3. Instant(Metas(found) \ Uploaded)'
    BY <1>1, <1>3 DEF GatherInv, FoundInv
  <2> QED
    BY <1>2, <2>2, <2>3 DEF Apart, Metas, Instant
<1>5. TurnType
  BY DEF GatherInv
<1>6. Len(found') \in Nat /\ K \in Nat /\ Len(<<>>) = 0 /\ DOMAIN <<>> = {}
      /\ <<>> \in Seq(Entries) /\ <<>> \in Seq(Hits(Shared \cup Uploaded))
  BY <1>4, LenProperties, EmptySeq, SearchAssumption
<1>7. CASE step' = "expand"
  <2>1. ContextType'
    BY <1>1, <1>2, <1>6, <1>7 DEF ContextType
  <2>2. Lookup'
    BY <1>1, <1>6 DEF Lookup
  <2>3. Once(context)'
    BY <1>1, <1>6, <1>7 DEF Once
  <2>4. ShownInv'
    BY <1>1, <1>6, <1>7, <2>3 DEF ShownInv
  <2> QED
    BY <1>7, <2>1, <2>2, <2>4 DEF ExpandInv, ExpansionIsExact, NothingTwice, EveryHitIsShown
<1>8. CASE step' # "expand"
  <2> DEFINE c == found'
  <2>1. context' = c /\ found' = c
    BY <1>1, <1>8
  <2>2. c \in Seq(Hits(Shared \cup Uploaded)) /\ Apart(c) /\ Instant(Metas(c) \ Uploaded)
    BY <1>4
  <2>3. c \in Seq(Entries)
    <3>1. Hits(Shared \cup Uploaded) \subseteq Entries
      BY HitIsEntry
    <3> QED
      BY <2>2, <3>1, SeqMonotonic
  <2>4. ContextType'
    BY <1>1, <1>2, <1>4, <1>8, <2>1, <2>3 DEF ContextType
  <2>5. ASSUME NEW i \in DOMAIN c
        PROVE  /\ c[i].texts = <<c[i].meta["text"]>> /\ DOMAIN c[i].texts = {1}
               /\ c[i].texts[1] = c[i].meta["text"] /\ c[i].meta["text"][4] \in Nat
    <3>1. c[i].texts = <<c[i].meta["text"]>> /\ c[i].meta["text"][4] \in Nat
      BY <1>5, <2>2, FoundAre
    <3> QED
      BY <3>1
  <2>6. ASSUME NamedApart, NEW h \in DOMAIN c, NEW i \in DOMAIN c,
               NEW k \in DOMAIN c[h].texts, NEW l \in DOMAIN c[i].texts,
               Place(c[h].texts[k]) = Place(c[i].texts[l])
        PROVE  h = i /\ k = l
    <3>1. k = 1 /\ l = 1 /\ c[h].texts[k] = c[h].meta["text"] /\ c[i].texts[l] = c[i].meta["text"]
      BY <2>5
    <3>2. Key(c[h].meta["text"]) = Key(c[i].meta["text"])
      BY <2>6, <3>1 DEF Place, Key
    <3>3. h = i
      BY <1>5, <2>2, <2>6, <3>2, FoundOnce
    <3> QED
      BY <3>1, <3>3
  <2>7. ASSUME NEW i \in DOMAIN c
        PROVE  \E h \in DOMAIN c : \E k \in DOMAIN c[h].texts :
                 /\ Place(c[h].texts[k]) = Place(c[i].meta["text"])
                 /\ c[h].texts[k][4] >= c[i].meta["text"][4]
    <3>1. 1 \in DOMAIN c[i].texts /\ c[i].texts[1] = c[i].meta["text"]
          /\ c[i].meta["text"][4] >= c[i].meta["text"][4]
      BY <2>5
    <3> QED
      BY <3>1
  <2> HIDE DEF c
  <2>8. NamedApart => NothingTwice'
    BY <2>1, <2>6 DEF NothingTwice, Place
  <2>9. EveryHitIsShown'
    BY <2>1, <2>7 DEF EveryHitIsShown, Place
  <2>10. ExpansionIsExact'
    BY <1>2, <2>8, <2>9 DEF ExpansionIsExact
  <2> QED
    BY <1>8, <2>4, <2>10 DEF ExpandInv, Lookup, ShownInv
<1> QED
  BY <1>7, <1>8

-----------------------------------------------------------------------------
(* The invariant                                                               *)

SearchIInv == WriteType /\ StoreInv /\ GatherInv /\ PastInv /\ ExpandInv

\* Nothing changes, nothing is broken.
LEMMA GatherStays ==
  ASSUME GatherInv, PastInv, UNCHANGED searchVars
  PROVE  GatherInv' /\ PastInv'
<1>1. UNCHANGED <<turnVars, writeVars>>
  BY DEF searchVars
<1>2. UNCHANGED <<step, how, mine, fusedIds, theirs, found, relevant>>
  BY DEF searchVars, gatherVars
<1>3. /\ Uploaded' = Uploaded /\ Wanted' = Wanted /\ Shared' = Shared
      /\ Hits(Uploaded)' = Hits(Uploaded) /\ Hits(Shared)' = Hits(Shared)
      /\ Hits(Shared \cup Uploaded)' = Hits(Shared \cup Uploaded)
      /\ Texts' = Texts /\ \A t : Behind(t)' = Behind(t)
      /\ caller' = caller /\ session' = session /\ scoring' = scoring
  BY <1>1, Still
<1>4. TurnType' /\ HitsType'
  BY <1>2, <1>3 DEF GatherInv, TurnType, HitsType, Apart
<1>5. MineInv' /\ IdsInv'
  BY <1>2, <1>3 DEF GatherInv, MineInv, IdsInv, Fits
<1>6. Metas(theirs)' = Metas(theirs) /\ Metas(found)' = Metas(found)
  BY <1>2 DEF Metas
<1>7. TheirsInv'
  BY <1>2, <1>3, <1>6 DEF GatherInv, TheirsInv, Instant, Fits
<1>8. FoundInv'
  <2>1. Leads' = Leads
    BY <1>2, <1>3 DEF Leads, IsUpload
  <2> QED
    BY <1>2, <1>3, <1>6, <2>1 DEF GatherInv, FoundInv, Instant, Fits
<1>9. PastInv'
  BY <1>2, <1>3, <1>6 DEF PastInv
<1> QED
  BY <1>4, <1>5, <1>7, <1>8, <1>9 DEF GatherInv

\* Every step keeps the invariant.
LEMMA SearchStep ==
  ASSUME SearchIInv, [SearchNext]_searchVars
  PROVE  SearchIInv'
<1>1. WriteType /\ StoreInv /\ GatherInv /\ PastInv /\ ExpandInv
  BY DEF SearchIInv
<1>2. TurnType /\ HitsType /\ FoundInv /\ ContextType /\ Lookup /\ ShownInv
  BY <1>1 DEF GatherInv, ExpandInv
<1>3. ASSUME UNCHANGED <<turnVars, writeVars>> PROVE WriteType' /\ StoreInv'
  BY <1>1, <1>3, Still
<1>4. CASE Route
  <2>1. UNCHANGED <<turnVars, writeVars>> /\ UNCHANGED context
        /\ step' \notin {"expand", "gathered", "done"}
    BY <1>4 DEF Route
  <2> QED
    BY <1>1, <1>2, <1>3, <1>4, <2>1, RouteGathers, ExpandElsewhere DEF SearchIInv
<1>5. CASE FromSession
  <2>1. UNCHANGED <<turnVars, writeVars>> /\ UNCHANGED context
        /\ step' \notin {"expand", "gathered", "done"}
    BY <1>5 DEF FromSession
  <2> QED
    BY <1>1, <1>2, <1>3, <1>5, <2>1, SessionGathers, ExpandElsewhere DEF SearchIInv
<1>6. CASE SearchShared
  <2>1. UNCHANGED <<turnVars, writeVars>> /\ UNCHANGED context
        /\ step' \notin {"expand", "gathered", "done"}
    BY <1>6 DEF SearchShared, Fetched
  <2> QED
    BY <1>1, <1>2, <1>3, <1>6, <2>1, SharedGathers, ExpandElsewhere DEF SearchIInv
<1>7. CASE FuseShared
  <2>1. UNCHANGED <<turnVars, writeVars>> /\ UNCHANGED context
        /\ step' \notin {"expand", "gathered", "done"}
    BY <1>7 DEF FuseShared
  <2> QED
    BY <1>1, <1>2, <1>3, <1>7, <2>1, FuseGathers, ExpandElsewhere DEF SearchIInv
<1>8. CASE Unsupported
  <2>1. UNCHANGED <<turnVars, writeVars>> /\ UNCHANGED context
        /\ step' \notin {"expand", "gathered", "done"}
    BY <1>8 DEF Unsupported
  <2> QED
    BY <1>1, <1>2, <1>3, <1>8, <2>1, UnsupportedGathers, ExpandElsewhere DEF SearchIInv
<1>9. CASE Refetch
  <2>1. UNCHANGED <<turnVars, writeVars>> /\ UNCHANGED context
        /\ step' \notin {"expand", "gathered", "done"}
    BY <1>9 DEF Refetch, Fetched
  <2> QED
    BY <1>1, <1>2, <1>3, <1>9, <2>1, RefetchGathers, ExpandElsewhere DEF SearchIInv
<1>10. CASE Merged
  <2>1. UNCHANGED <<turnVars, writeVars>>
    BY <1>10 DEF Merged
  <2> QED
    BY <1>1, <1>2, <1>3, <1>10, <2>1, MergedGathers, MergedExpands DEF SearchIInv
<1>11. ASSUME NEW s \in Centers, FetchNeighbors(s) PROVE SearchIInv'
  <2>1. UNCHANGED <<turnVars, writeVars>>
    BY <1>11 DEF FetchNeighbors
  <2> QED
    BY <1>1, <1>3, <1>11, <2>1, ExpandGathers, FetchExpands DEF SearchIInv
<1>12. CASE ExpandHit
  <2>1. UNCHANGED <<turnVars, writeVars>> /\ step' = "expand"
    BY <1>12 DEF ExpandHit
  <2>2. ContextType' /\ ShownInv'
    BY <1>2, <1>12, HitKeepsType, HitKeepsShown
  <2>3. Lookup'
    <3>1. UNCHANGED <<step, found, neighbors>>
      BY <1>12 DEF ExpandHit
    <3>2. Uploaded' = Uploaded /\ Shared' = Shared
      BY <2>1, EntriesStay
    <3> QED
      BY <1>2, <3>1, <3>2 DEF Lookup, NotOlder
  <2>4. ExpansionIsExact'
    BY <2>1 DEF ExpansionIsExact, NothingTwice, EveryHitIsShown
  <2> QED
    BY <1>1, <1>3, <1>12, <2>1, <2>2, <2>3, <2>4, ExpandGathers DEF SearchIInv, ExpandInv
<1>13. CASE Expanded
  <2>1. UNCHANGED <<turnVars, writeVars>>
    BY <1>13 DEF Expanded
  <2> QED
    BY <1>1, <1>2, <1>3, <1>13, <2>1, ExpandGathers, ExpandedExpands DEF SearchIInv
<1>14. CASE Broaden
  <2>1. UNCHANGED <<turnVars, writeVars>>
    BY <1>14 DEF Broaden
  <2> QED
    BY <1>1, <1>3, <1>14, <2>1, ExpandGathers, BroadenExpands DEF SearchIInv
<1>15. CASE Writes
  <2>1. UNCHANGED <<turnVars, gatherVars>>
    BY <1>15 DEF Writes, StartRewrite, DeleteBySource, Upsert, WriteFails
  <2> QED
    BY <1>1, <1>15, <2>1, WriteTypeStep, StoreInvStep, GatherWrites, ExpandStays DEF SearchIInv
<1>16. CASE UNCHANGED searchVars
  <2>1. UNCHANGED <<turnVars, writeVars>> /\ UNCHANGED <<turnVars, gatherVars>>
    BY <1>16 DEF searchVars
  <2> QED
    BY <1>1, <1>3, <1>16, <2>1, GatherStays, ExpandStays DEF SearchIInv
<1> QED
  BY <1>4, <1>5, <1>6, <1>7, <1>8, <1>9, <1>10, <1>11, <1>12, <1>13, <1>14, <1>15, <1>16
  DEF SearchNext, Writes, Answered

\* It implies the safety of the search,
LEMMA SearchInvHolds == ASSUME SearchIInv PROVE SearchInv
<1>1. WriteType /\ StoreInv /\ GatherInv /\ ExpandInv /\ TurnType /\ HitsType
  BY DEF SearchIInv, GatherInv
<1>2. SearchTypeOK
  <2>1. DOMAIN stores = DOMAIN backend /\ dirty \subseteq Sources
    BY <1>1 DEF WriteType
  <2>2. \A hits \in {mine, theirs, found, context} : Len(hits) <= K
    BY <1>1 DEF HitsType, ExpandInv, ContextType
  <2>3. \A i \in DOMAIN stores : \A m \in Items(i) :
          /\ m["source"] \in Sources
          /\ m["text"][4] \in 0 .. rewrite.revision
          /\ "chunk_index" \in DOMAIN m => m["chunk_index"] \in Nat
    BY <1>1, <2>1, ItemsAre
  <2> QED
    BY <1>1, <2>1, <2>2, <2>3 DEF SearchTypeOK, TurnType, Steps, Asked
<1>3. SameInEveryStore
  <2> SUFFICES ASSUME NEW i \in DOMAIN backend, NEW m \in Items(i), m["source"] \notin dirty
               PROVE  /\ \E c \in Corpus : m \in {Original(c), Indexed(c, "shared", m["text"][4])}
                      /\ \A j \in DOMAIN backend : m \in Items(j)
    BY DEF SameInEveryStore
  <2>1. PICK c \in Corpus, rev \in 0 .. rewrite.revision : m = Of(c, rev)
    BY <1>1, ItemsAre
  <2>2. rev \in Revisions
    <3>1. rewrite.revision \in Revisions /\ MaxRevision \in Nat
      BY <1>1, SearchAssumption DEF WriteType, Rewrites
    <3> QED
      BY <3>1 DEF Revisions
  <2>3. m["text"] = TextOf(c, rev)
    BY <2>1, <2>2, OfShape
  <2>4. m["text"][4] = rev
    BY <2>3 DEF TextOf
  <2>5. m \in {Original(c), Indexed(c, "shared", m["text"][4])}
    BY <2>1, <2>4 DEF Of
  <2>6. m["source"] \in Sources
    BY <1>1, ItemsAre
  <2>7. ASSUME NEW j \in DOMAIN backend PROVE m \in Items(j)
    <3>1. OwnRows(i, m["source"]) = OwnRows(j, m["source"])
      BY <1>1, <2>6 DEF StoreInv
    <3> QED
      BY <3>1 DEF OwnRows
  <2> QED
    BY <2>5, <2>7
<1>4. UploadsLead
  BY <1>1 DEF GatherInv, FoundInv, Leads, Wanted, UploadsLead
<1>5. WithinFilter
  <2> SUFFICES ASSUME step \in {"gathered", "done"}, NEW i \in DOMAIN found, ~IsUpload(found[i])
               PROVE  Fits(found[i].meta, how.filter)
    BY DEF WithinFilter, Fits
  <2>1. found[i].meta \notin Uploaded
    BY <1>1, UploadText DEF IsUpload
  <2> QED
    BY <1>1, <2>1 DEF GatherInv, FoundInv, Metas
<1> QED
  BY <1>2, <1>3, <1>4, <1>5 DEF SearchInv

\* and that an empty answer had nothing to give.
LEMMA NothingWithheldHolds == ASSUME SearchIInv PROVE NothingWithheld
<1>1. ContextType /\ PastInv
  BY DEF SearchIInv, ExpandInv
<1> SUFFICES ASSUME caller = "chat", step = "done", context = <<>>
             PROVE  ~Active(how.filter) /\ relevant \cap {m["text"] : m \in Primary} = {}
  BY DEF NothingWithheld
<1>2. ~Active(how.filter) /\ found = <<>>
  BY <1>1 DEF ContextType
<1>3. relevant \cap Texts = {}
  BY <1>1, <1>2 DEF PastInv
<1> QED
  BY <1>2, <1>3 DEF Texts

\* So it always holds.
LEMMA SearchAlways == SearchSpec => []SearchIInv
<1>1. SearchInit => SearchIInv
  BY WriteInit, GatherInit, ExpandInit DEF SearchIInv
<1>2. SearchIInv /\ [SearchNext]_searchVars => SearchIInv'
  BY SearchStep
<1> QED
  BY <1>1, <1>2, PTL DEF SearchSpec

\* The rows of every store are as they were indexed and the stores agree (SearchInv):
\* metadata survives the columns, a committed replacement is in every store, uploads lead
\* the hits, and what a filter excludes is not handed on; whatever the writers do between
\* the calls of a search.
THEOREM SearchIsSafe == SearchSpec => []SearchInv
BY SearchAlways, SearchInvHolds, PTL

\* However the windows overlap, and whatever is replaced between the search and the fetch
\* of the neighbors, each hit is shown and no chunk twice, if uploads are named apart.
THEOREM ExpansionShowsAll == SearchSpec => []ExpansionIsExact
<1>1. SearchIInv => ExpansionIsExact
  BY DEF SearchIInv, ExpandInv
<1> QED
  BY <1>1, SearchAlways, PTL

\* A turn without context had no filter left to drop, and what its last search was due to
\* find is no longer stored: no threshold, minimal length or order of ranks hides it.
THEOREM NothingIsWithheld == SearchSpec => []NothingWithheld
BY SearchAlways, NothingWithheldHolds, PTL
=============================================================================
