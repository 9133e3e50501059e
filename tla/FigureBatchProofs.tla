-------------------------- MODULE FigureBatchProofs --------------------------
(* The safety of the figure job, for any documents, figures, batch capacity    *)
(* and bounds.                                                                 *)
EXTENDS FigureBatch, FiniteSetTheorems, SequenceTheorems, WellFoundedInduction, TLAPS

-----------------------------------------------------------------------------
(* Sets, plans and jobs. *)

\* A finite set of naturals has a first element.
LEMMA FirstElement ==
  ASSUME NEW S \in SUBSET Nat, IsFiniteSet(S), S # {}
  PROVE  First(S) \in S /\ \A e \in S : First(S) <= e
<1> DEFINE Below(m) == {x \in S : x < m}
           T == {Below(m) : m \in S}
<1>1. T \subseteq FiniteSubsetsOf(S)
  BY FS_Subset DEF FiniteSubsetsOf
<1>2. PICK A \in T : \A B \in T : ~ (<<B, A>> \in StrictSubsetOrdering(S))
  <2>1. T # {}
    OBVIOUS
  <2> HIDE DEF T
  <2> QED
    BY <1>1, <2>1, FS_StrictSubsetOrderingWellFounded, WFMin
<1>3. PICK m \in S : A = Below(m)
  BY <1>2
<1>4. ASSUME NEW n \in S, n < m PROVE FALSE
  <2>1. Below(n) \subseteq Below(m) /\ n \in Below(m) /\ n \notin Below(n)
    <3>1. \A x \in S : x \in Nat
      OBVIOUS
    <3>2. \A x \in S : x < n => x < m
      BY <1>4, <3>1
    <3>3. ~ (n < n)
      BY <3>1
    <3> QED
      BY <1>4, <3>2, <3>3, Zenon
  <2>2. <<Below(n), Below(m)>> \in StrictSubsetOrdering(S)
    BY <2>1, <1>3 DEF StrictSubsetOrdering
  <2> QED
    BY <1>2, <1>3, <2>2
<1>5. \A n \in S : m <= n
  BY <1>4
<1> QED
  BY <1>5 DEF First

\* A finite set of naturals has a last element.
LEMMA LastElement ==
  ASSUME NEW S \in SUBSET Nat, IsFiniteSet(S), S # {}
  PROVE  \E m \in S : \A n \in S : n <= m
<1> DEFINE Above(m) == {x \in S : m < x}
           T == {Above(m) : m \in S}
<1>1. T \subseteq FiniteSubsetsOf(S)
  BY FS_Subset DEF FiniteSubsetsOf
<1>2. PICK A \in T : \A B \in T : ~ (<<B, A>> \in StrictSubsetOrdering(S))
  <2>1. T # {}
    OBVIOUS
  <2> HIDE DEF T
  <2> QED
    BY <1>1, <2>1, FS_StrictSubsetOrderingWellFounded, WFMin
<1>3. PICK m \in S : A = Above(m)
  BY <1>2
<1>4. ASSUME NEW n \in S, m < n PROVE FALSE
  <2>1. Above(n) \subseteq Above(m) /\ n \in Above(m) /\ n \notin Above(n)
    <3>1. \A x \in S : x \in Nat
      OBVIOUS
    <3>2. \A x \in S : n < x => m < x
      BY <1>4, <3>1
    <3>3. ~ (n < n)
      BY <3>1
    <3> QED
      BY <1>4, <3>2, <3>3, Zenon
  <2>2. <<Above(n), Above(m)>> \in StrictSubsetOrdering(S)
    BY <2>1, <1>3 DEF StrictSubsetOrdering
  <2> QED
    BY <1>2, <1>3, <2>2
<1> QED
  BY <1>3, <1>4

\* Quotients of consecutive numbers leave no gap.
LEMMA DivStep ==
  ASSUME NEW c \in Nat \ {0}, NEW n \in Nat \ {0}, NEW k \in Nat,
         (n - 1) \div c < k, k <= n \div c
  PROVE  n \div c = k
<1>1. (n - 1) \div c \in Int /\ n \div c \in Int
  OBVIOUS
<1> QED
  BY <1>1, SMTT(30)

LEMMA DivNat ==
  ASSUME NEW c \in Nat \ {0}, NEW n \in Nat
  PROVE  n \div c \in Nat /\ 0 \div c = 0
BY SMTT(30)

\* The figures of S before f.
Before(S, f) == {g \in S : g < f}

\* When no figure of a finite set is in the chunk that starts after k full ones,
\* none is in a later chunk.
LEMMA NoGap ==
  ASSUME NEW S \in SUBSET Nat, IsFiniteSet(S), NEW c \in Nat \ {0}, NEW k \in Nat,
         \A g \in S : Cardinality(Before(S, g)) \div c # k
  PROVE  \A f \in S : Cardinality(Before(S, f)) \div c < k
<1> DEFINE Rank(g) == Cardinality(Before(S, g))
           Late == {g \in S : Rank(g) \div c >= k}
<1>1. \A g \in S : IsFiniteSet(Before(S, g)) /\ Rank(g) \in Nat /\ Rank(g) \div c \in Nat
  <2> SUFFICES ASSUME NEW g \in S
               PROVE  IsFiniteSet(Before(S, g)) /\ Rank(g) \in Nat /\ Rank(g) \div c \in Nat
    OBVIOUS
  <2>1. IsFiniteSet(Before(S, g))
    BY FS_Subset DEF Before
  <2>2. Rank(g) \in Nat
    BY <2>1, FS_CardinalityType
  <2> QED
    BY <2>1, <2>2, DivNat
<1>2. SUFFICES ASSUME Late # {} PROVE FALSE
  BY <1>1
<1>3. PICK f \in Late : \A g \in Late : f <= g
  <2>1. Late \in SUBSET Nat /\ IsFiniteSet(Late)
    BY FS_Subset
  <2> HIDE DEF Late
  <2> QED
    BY <1>2, <2>1, FirstElement
<1>4. f \in S /\ f \in Nat /\ Rank(f) \in Nat /\ Rank(f) \div c > k
  BY <1>1, <1>3
<1>5. Before(S, f) # {}
  <2>1. ASSUME Before(S, f) = {} PROVE FALSE
    BY <1>4, <2>1, FS_EmptySet, DivNat
  <2> QED
    BY <2>1
<1>6. PICK g \in Before(S, f) : \A h \in Before(S, f) : h <= g
  BY <1>1, <1>4, <1>5, LastElement DEF Before
<1>7. g \in S /\ g \in Nat /\ g < f
  BY <1>6 DEF Before
<1>8. Before(S, g) = Before(S, f) \ {g}
  <2>1. \A h \in S : h \in Nat
    OBVIOUS
  <2>2. \A h \in Before(S, f) : h # g => h < g
    BY <1>6, <1>7, <2>1 DEF Before
  <2>3. \A h \in Before(S, g) : h < f /\ h # g
    BY <1>4, <1>7, <2>1 DEF Before
  <2> QED
    BY <2>2, <2>3 DEF Before
<1>9. Rank(g) = Rank(f) - 1 /\ Rank(f) # 0
  <2> DEFINE B == Before(S, f)
  <2>1. Cardinality(B \ {g}) = Cardinality(B) - 1
    <3>1. IsFiniteSet(B) /\ g \in B
      BY <1>1, <1>4, <1>6
    <3> HIDE DEF B
    <3> QED
      BY <3>1, FS_RemoveElement
  <2>2. Rank(g) = Rank(f) - 1
    BY <1>8, <2>1
  <2> QED
    BY <1>1, <1>4, <1>7, <2>2
<1>10. Rank(g) \div c < k
  <2>1. g \notin Late
    BY <1>3, <1>4, <1>7
  <2> QED
    BY <1>1, <1>7, <2>1
<1>11. Rank(f) \div c = k
  <2> DEFINE n == Rank(f)
  <2>1. n \in Nat \ {0} /\ (n - 1) \div c < k /\ k <= n \div c
    BY <1>1, <1>4, <1>9, <1>10
  <2> HIDE DEF n
  <2> QED
    BY <2>1, DivStep DEF n
<1> QED
  BY <1>4, <1>11

LEMMA LastOf == \A m \in Nat : \A i \in 1 .. m + 1 : i \in 1 .. m \/ i = m + 1
OBVIOUS

\* The mark of a plan.
LEMMA PlanWritten ==
  \A p \in Plans, b \in BOOLEAN :
    LET q == [p EXCEPT !.written = b]
    IN  /\ q \in Plans /\ q.written = b
        /\ q.text = p.text /\ q.hash = p.hash /\ q.failed = p.failed
BY Zenon DEF Plans

LEMMA PlansAfter ==
  ASSUME plans \in [Doc -> Plans \cup {None}], NEW d \in Doc, plans[d] # None, NEW b \in BOOLEAN,
         plans' = [plans EXCEPT ![d].written = b]
  PROVE  /\ plans' \in [Doc -> Plans \cup {None}]
         /\ \A e \in Doc : e # d => plans'[e] = plans[e]
         /\ plans'[d] \in Plans /\ plans'[d] # None /\ plans'[d].written = b
         /\ plans'[d].hash = plans[d].hash /\ plans'[d].failed = plans[d].failed
<1>1. plans[d] \in Plans /\ plans'[d] = [plans[d] EXCEPT !.written = b]
  OBVIOUS
<1>2. LET q == [plans[d] EXCEPT !.written = b]
      IN  q \in Plans /\ q.written = b /\ q.hash = plans[d].hash /\ q.failed = plans[d].failed
  BY <1>1, PlanWritten, Zenon
<1>3. plans'[d] \in Plans /\ plans'[d].written = b
      /\ plans'[d].hash = plans[d].hash /\ plans'[d].failed = plans[d].failed
  BY <1>1, <1>2, Zenon
<1> QED
  BY <1>3, NoneAssumption

Jobs == [phase : Phases, ids : Seq(DOMAIN batches)]

\* The job goes to another phase.
LEMMA JobAfter ==
  ASSUME job \in Jobs, NEW p \in Phases, job' = [job EXCEPT !.phase = p], UNCHANGED batches
  PROVE  job' \in Jobs' /\ job'.phase = p /\ job'.ids = job.ids
BY Zenon DEF Jobs

\* A job is not None.
LEMMA JobIsSome ==
  ASSUME NEW B \in Seq(SUBSET AllFigures)
  PROVE  None \notin [phase : Phases, ids : Seq(DOMAIN B)]
<1>1. DOMAIN B \subseteq Nat
  OBVIOUS
<1>2. Seq(DOMAIN B) \subseteq Seq(Nat)
  BY <1>1, SeqMonotonic
<1> QED
  BY <1>2, NoneAssumption

USE FigureAssumption

\* The batches recorded are batches of the API.
LEMMA RecordedExist ==
  ASSUME job \in Jobs PROVE Recorded \subseteq DOMAIN batches
BY ElementOfSeq DEF Jobs, Recorded

-----------------------------------------------------------------------------
(* The inductive invariant. *)

InWriting == {"fetch", "write", "index", "stamp", "mark", "rewind"}

\* Where the process is fits the phase of the job.
PhaseFits ==
  /\ pc # "down" => job # None
  /\ pc \in {"collect", "hash"} => job.phase = "collecting"
  /\ pc \in {"submit", "record"} => job.phase = "submitting"
  /\ pc = "record" => batches # << >>
  /\ pc = "poll" => job.phase = "submitted"
  /\ pc \in InWriting => job.phase = "writing"
  /\ pc = "finished" => job.phase = "done"

\* What comes after the polling reads only batches that have ended.
Ended == job # None /\ job.phase \in {"writing", "done"} => \A b \in Recorded : answers[b] # None

\* What the job promises of a document it has written.
Holds(d) == Len(stored[d]) = 1 /\ stored[d][1].figures = Figures[d] \cap Transcribed

\* The document at hand.
AtHand ==
  /\ pc = "hash" => at \in Doc /\ plans[at] = None
  /\ pc \in {"write", "index", "stamp", "mark"} => texts = Transcribed
  /\ pc \in {"index", "stamp", "mark"} => at \in Doc /\ Owed(at)
  /\ pc = "index" => stored[at] = << >>
  /\ pc \in {"stamp", "mark"} => Holds(at) /\ stored[at][1].chunker = chunker
  /\ pc = "mark" => manifest[at] = plans[at].hash

\* A document whose chunks are gone is owed.
WipedIsOwed ==
  \A d \in Doc : manifest[d] # None /\ stored[d] = << >> =>
    Owed(d) /\ job # None /\ job.phase = "writing"

\* What no plan was carried out for is as it was.
Untouched ==
  \A d \in Doc : (plans[d] = None \/ plans[d].failed) =>
    /\ manifest[d] = None => stored[d] = << >>
    /\ manifest[d] # None => stored[d] = << [text |-> 0, figures |-> {}, chunker |-> 0] >>

\* What is marked as written is written.
WrittenHolds ==
  \A d \in Doc : plans[d] # None /\ ~plans[d].failed /\ plans[d].written =>
    /\ job # None /\ job.phase \in {"writing", "done"}
    /\ manifest[d] = plans[d].hash
    /\ Holds(d)
    /\ spent.crashes = 0 /\ pc # "rewind" => stored[d][1].chunker = chunker

\* A job that is done owes nothing.
DoneOwesNothing == job # None /\ job.phase = "done" => \A d \in Doc : ~Owed(d)

Kept == WipedIsOwed /\ Untouched /\ WrittenHolds /\ DoneOwesNothing

IInv == TypeOK /\ PhaseFits /\ Ended /\ AtHand /\ Kept

-----------------------------------------------------------------------------
(* Types. *)

Whats == {"edits", "faults", "crashes", "stops", "rechunks"}

\* The types of the API's side, of the job and its documents, and of the process.
ServerOK ==
  /\ batches \in Seq(SUBSET AllFigures)
  /\ answers \in [DOMAIN batches -> (SUBSET AllFigures) \cup {None}]

DurableOK ==
  /\ disk \in [Doc -> Nat]
  /\ manifest \in [Doc -> Nat \cup {None}]
  /\ stored \in [Doc -> Seq(Chunks)]
  /\ job \in Jobs \cup {None}
  /\ plans \in [Doc -> Plans \cup {None}]

LocalOK ==
  /\ incremental \in BOOLEAN
  /\ pc \in {"down", "dead", "collect", "hash", "submit", "record", "poll", "fetch",
             "write", "index", "stamp", "mark", "rewind", "finished"}
  /\ left \subseteq Doc
  /\ cursor \in Nat
  /\ at \in Doc \cup {None}
  /\ text \in Nat \cup {None}
  /\ texts \subseteq AllFigures
  /\ target \in Doc \cup {None}
  /\ chunker \in Nat
  /\ spent \in [Whats -> Nat]

LEMMA Types == TypeOK <=> ServerOK /\ DurableOK /\ LocalOK
BY Zenon DEF TypeOK, ServerOK, DurableOK, LocalOK, Jobs, Whats

LEMMA InitEstablishes == Init => IInv
<1> SUFFICES ASSUME Init PROVE IInv
  OBVIOUS
<1>1. TypeOK
  <2>1. batches \in Seq(SUBSET AllFigures) /\ DOMAIN batches = {}
    BY EmptySeq DEF Init
  <2>2. answers \in [DOMAIN batches -> (SUBSET AllFigures) \cup {None}]
    BY <2>1 DEF Init
  <2>3. [text |-> 0, figures |-> {}, chunker |-> 0] \in Chunks
    BY DEF Chunks
  <2>4. stored \in [Doc -> Seq(Chunks)]
    BY <2>3, EmptySeq DEF Init
  <2> QED
    BY <2>1, <2>2, <2>4, Types DEF Init, ServerOK, DurableOK, LocalOK, Whats
<1>2. PhaseFits /\ Ended /\ AtHand
  BY DEF Init, PhaseFits, InWriting, Ended, AtHand
<1>3. Kept
  BY DEF Init, Kept, WipedIsOwed, Untouched, WrittenHolds, DoneOwesNothing
<1> QED
  BY <1>1, <1>2, <1>3 DEF IInv

LEMMA SpendCounts ==
  ASSUME LocalOK, NEW what \in Whats, NEW bound, Spend(what, bound)
  PROVE  /\ spent' \in [Whats -> Nat]
         /\ spent'[what] = spent[what] + 1
         /\ \A other \in Whats : other # what => spent'[other] = spent[other]
BY DEF LocalOK, Spend, Whats

\* The API's side.
LEMMA ServerKeeps ==
  ASSUME TypeOK, [Next]_vars
  PROVE  /\ ServerOK'
         /\ UNCHANGED batches \/ (SubmitChunk /\ batches' = Append(batches, Chunk(cursor)))
         /\ DOMAIN batches \subseteq DOMAIN batches'
<1>1. ServerOK
  BY Types
<1>2. CASE UNCHANGED server
  BY <1>1, <1>2 DEF server, ServerOK
<1>3. CASE SubmitChunk
  <2>1. Chunk(cursor) \in SUBSET AllFigures
    BY DEF Chunk, Selected, AllFigures
  <2>2. batches' = Append(batches, Chunk(cursor)) /\ answers' = Append(answers, None)
    BY <1>3 DEF SubmitChunk
  <2> DEFINE n == Len(batches)
             A == (SUBSET AllFigures) \cup {None}
  <2>3. DOMAIN batches = 1 .. n /\ n \in Nat
    BY <1>1 DEF ServerOK
  <2>4. answers \in Seq(A) /\ Len(answers) = n
    BY <1>1, <2>3 DEF ServerOK
  <2>5. batches' \in Seq(SUBSET AllFigures) /\ DOMAIN batches' = 1 .. n + 1
    BY <1>1, <2>1, <2>2, <2>3, AppendProperties DEF ServerOK
  <2>6. answers' \in Seq(A) /\ Len(answers') = n + 1
    <3>1. None \in A
      OBVIOUS
    <3> HIDE DEF A
    <3> QED
      BY <2>2, <2>4, <3>1, AppendProperties
  <2>7. answers' \in [DOMAIN batches' -> A]
    BY <2>5, <2>6
  <2> QED
    BY <2>2, <2>3, <2>5, <2>7, <1>3 DEF ServerOK
<1>4. ASSUME NEW b \in DOMAIN batches, EndBatch(b) PROVE ServerOK' /\ UNCHANGED batches
  <2>1. PICK S \in SUBSET batches[b] : answers' = [answers EXCEPT ![b] = S]
    BY <1>4 DEF EndBatch
  <2>2. S \in SUBSET AllFigures
    <3>1. batches[b] \in SUBSET AllFigures
      BY <1>1, ElementOfSeq DEF ServerOK
    <3> QED
      BY <2>1, <3>1
  <2> QED
    BY <1>1, <1>4, <2>1, <2>2 DEF ServerOK, EndBatch
<1>5. UNCHANGED server \/ SubmitChunk \/ \E b \in DOMAIN batches : EndBatch(b)
  BY DEF Next, JobStep, DocumentStep, vars, Launch, Supervise, CollectSkip, CollectParse, CollectHash,
    ParserDies, WriteDelete, WriteIndex, WriteStamp, WriteMark, RewindPlan, CollectEnd, SubmitSkip,
    RecordId, SubmitEnd, PollEnd, FetchResults, WriteEnd, RewindEnd, CollectRaise, EditDocument,
    CollectOnly, Rechunk, Crash
<1> QED
  BY <1>2, <1>3, <1>4, <1>5 DEF server

\* A job stays a job when the API accepts more batches.
LEMMA JobsGrow ==
  ASSUME NEW j \in Jobs \cup {None}, DOMAIN batches \subseteq DOMAIN batches'
  PROVE  j \in Jobs' \cup {None}
<1>1. \A ids \in Seq(DOMAIN batches) : ids \in Seq(DOMAIN batches')
  BY SeqMonotonic
<1> QED
  BY <1>1 DEF Jobs

\* The steps that change what is durable, the others, and what they leave alone.
JobSteps == CollectEnd \/ SubmitEnd \/ PollEnd \/ WriteEnd \/ Rechunk

LEMMA JobPhases ==
  ASSUME TypeOK, PhaseFits, JobSteps
  PROVE  /\ job \in Jobs /\ job' \in Jobs' /\ job'.ids = job.ids
         /\ UNCHANGED <<manifest, stored, plans, batches, answers, texts, at>>
         /\ CollectEnd => job.phase = "collecting" /\ job'.phase = "submitting"
         /\ SubmitEnd =>
              /\ job.phase = "submitting" /\ job'.phase \in {"writing", "submitted"}
              /\ job'.phase = "writing" => job.ids = << >>
         /\ PollEnd => job.phase = "submitted" /\ job'.phase = "writing"
         /\ WriteEnd => job.phase = "writing" /\ job'.phase = "done"
         /\ Rechunk => job.phase = "done" /\ job'.phase = "writing"
<1> USE DEF PhaseFits, InWriting, Phases
<1>1. job \in Jobs
  BY Types DEF JobSteps, CollectEnd, SubmitEnd, PollEnd, WriteEnd, Rechunk, DurableOK
<1>2. UNCHANGED <<manifest, stored, plans, batches, answers, texts, at>>
  BY DEF JobSteps, CollectEnd, SubmitEnd, PollEnd, WriteEnd, Rechunk, server, local
<1>3. CASE CollectEnd
  <2>1. "submitting" \in Phases /\ job' = [job EXCEPT !.phase = "submitting"] /\ pc = "collect"
    BY <1>3 DEF CollectEnd
  <2>2. job' \in Jobs' /\ job'.phase = "submitting" /\ job'.ids = job.ids
    BY <1>1, <1>2, <2>1, JobAfter
  <2>3. ~SubmitEnd /\ ~PollEnd /\ ~WriteEnd /\ ~Rechunk
    BY <2>1 DEF SubmitEnd, PollEnd, WriteEnd, Rechunk
  <2> QED
    BY <1>1, <1>2, <2>1, <2>2, <2>3
<1>4. CASE SubmitEnd
  <2>1. PICK phase \in Phases : /\ job' = [job EXCEPT !.phase = phase]
                                /\ phase = IF job.ids = << >> THEN "writing" ELSE "submitted"
    BY <1>4 DEF SubmitEnd
  <2>2. job' \in Jobs' /\ job'.phase = phase /\ job'.ids = job.ids
    BY <1>1, <1>2, <2>1, JobAfter
  <2>3. pc = "submit" /\ ~CollectEnd /\ ~PollEnd /\ ~WriteEnd /\ ~Rechunk
    BY <1>4 DEF CollectEnd, SubmitEnd, PollEnd, WriteEnd, Rechunk
  <2> QED
    BY <1>1, <1>2, <2>1, <2>2, <2>3
<1>5. CASE PollEnd
  <2>1. "writing" \in Phases /\ job' = [job EXCEPT !.phase = "writing"] /\ pc = "poll"
    BY <1>5 DEF PollEnd
  <2>2. job' \in Jobs' /\ job'.phase = "writing" /\ job'.ids = job.ids
    BY <1>1, <1>2, <2>1, JobAfter
  <2>3. ~CollectEnd /\ ~SubmitEnd /\ ~WriteEnd /\ ~Rechunk
    BY <2>1 DEF CollectEnd, SubmitEnd, WriteEnd, Rechunk
  <2> QED
    BY <1>1, <1>2, <2>1, <2>2, <2>3
<1>6. CASE WriteEnd
  <2>1. "done" \in Phases /\ job' = [job EXCEPT !.phase = "done"] /\ pc = "write"
    BY <1>6 DEF WriteEnd
  <2>2. job' \in Jobs' /\ job'.phase = "done" /\ job'.ids = job.ids
    BY <1>1, <1>2, <2>1, JobAfter
  <2>3. ~CollectEnd /\ ~SubmitEnd /\ ~PollEnd /\ ~Rechunk
    BY <2>1 DEF CollectEnd, SubmitEnd, PollEnd, Rechunk
  <2> QED
    BY <1>1, <1>2, <2>1, <2>2, <2>3
<1>7. CASE Rechunk
  <2>1. "writing" \in Phases /\ job' = [job EXCEPT !.phase = "writing"] /\ pc = "finished"
    BY <1>7 DEF Rechunk
  <2>2. job' \in Jobs' /\ job'.phase = "writing" /\ job'.ids = job.ids
    BY <1>1, <1>2, <2>1, JobAfter
  <2>3. ~CollectEnd /\ ~SubmitEnd /\ ~PollEnd /\ ~WriteEnd
    BY <2>1 DEF CollectEnd, SubmitEnd, PollEnd, WriteEnd
  <2> QED
    BY <1>1, <1>2, <2>1, <2>2, <2>3
<1> QED
  BY <1>3, <1>4, <1>5, <1>6, <1>7 DEF JobSteps

\* A batch id is recorded with a batch that exists.
LEMMA RecordKeeps ==
  ASSUME TypeOK, PhaseFits, RecordId
  PROVE  job' \in Jobs' /\ job'.phase = "submitting"
<1>1. job \in Jobs /\ UNCHANGED batches /\ batches # << >>
  BY Types DEF RecordId, PhaseFits, DurableOK, server
<1>2. Len(batches) \in DOMAIN batches
  BY <1>1, Types, EmptySeq, LenProperties DEF ServerOK
<1>3. Append(job.ids, Len(batches)) \in Seq(DOMAIN batches)
  BY <1>1, <1>2, AppendProperties DEF Jobs
<1> QED
  BY <1>1, <1>3 DEF RecordId, Jobs, Phases

\* A job that is started is the one there was, or a new one.
LEMMA LaunchKeeps ==
  ASSUME TypeOK, Launch
  PROVE  /\ job' \in Jobs'
         /\ job # None => job' = job
         /\ job = None => job'.phase = "collecting" /\ job'.ids = << >>
         /\ pc' = Entry(job'.phase)
         /\ target' \in Doc \cup {None}
<1>1. UNCHANGED batches /\ job' = IF job = None THEN [phase |-> "collecting", ids |-> << >>] ELSE job
  BY DEF Launch, server
<1>2. job' \in Jobs'
  BY <1>1, Types, EmptySeq DEF DurableOK, Jobs, Phases
<1>3. pc' = Entry(job'.phase)
  BY DEF Launch
<1>4. target' \in Doc \cup {None}
  <2>1. Unplanned \subseteq Doc /\ IsFiniteSet(Unplanned)
    BY FS_Subset DEF Unplanned
  <2>2. Unplanned # {} => First(Unplanned) \in Doc
    BY <2>1, FirstElement
  <2>3. (target' = First(Unplanned) /\ Unplanned # {}) \/ target' = None
    BY DEF Launch
  <2> QED
    BY <2>2, <2>3
<1> QED
  BY <1>1, <1>2, <1>3, <1>4

\* The steps on a document's plan or chunks, and what they leave alone.
PlanStep(d) == CollectHash(d) \/ WriteMark(d) \/ RewindPlan(d)
StoreStep(d) == WriteDelete(d) \/ WriteIndex(d) \/ WriteStamp(d)

LEMMA PlanSteps ==
  ASSUME TypeOK, AtHand, NEW d \in Doc, PlanStep(d)
  PROVE  /\ plans' \in [Doc -> Plans \cup {None}] /\ plans'[d] # None
         /\ \A e \in Doc : e # d => plans'[e] = plans[e]
         /\ UNCHANGED <<disk, manifest, stored, job, server>>
         /\ CollectHash(d) => ~plans'[d].failed /\ ~plans'[d].written /\ plans[d] = None
         /\ ~CollectHash(d) => plans'[d].hash = plans[d].hash /\ plans'[d].failed = plans[d].failed
         /\ WriteMark(d) => plans'[d].written
         /\ RewindPlan(d) => ~plans'[d].written /\ ~plans[d].failed
         /\ ~CollectHash(d) => plans[d] # None /\ ~plans[d].failed
<1>1. DurableOK /\ LocalOK
  BY Types
<1>2. UNCHANGED <<disk, manifest, stored, job, server>>
  BY DEF PlanStep, CollectHash, WriteMark, RewindPlan
<1>3. CASE CollectHash(d)
  <2> DEFINE plan == [text |-> text, hash |-> disk[d], written |-> FALSE, failed |-> FALSE]
  <2>1. plans' = [plans EXCEPT ![d] = plan] /\ pc = "hash" /\ plans[d] = None
    BY <1>3 DEF CollectHash, AtHand
  <2>2. plan \in Plans
    BY <1>1 DEF Plans, DurableOK, LocalOK
  <2>3. ~WriteMark(d) /\ ~RewindPlan(d) /\ ~plan.failed /\ ~plan.written
    BY <2>1 DEF WriteMark, RewindPlan
  <2> HIDE DEF plan
  <2>4. plans' \in [Doc -> Plans \cup {None}] /\ plans'[d] = plan
        /\ \A e \in Doc : e # d => plans'[e] = plans[e]
    BY <1>1, <2>1, <2>2 DEF DurableOK
  <2> QED
    BY <1>2, <1>3, <2>1, <2>2, <2>3, <2>4, NoneAssumption
<1>4. CASE WriteMark(d)
  <2>1. plans' = [plans EXCEPT ![d].written = TRUE] /\ pc = "mark" /\ Owed(d)
    BY <1>4 DEF WriteMark, AtHand
  <2>2. ~CollectHash(d) /\ ~RewindPlan(d)
    BY <2>1 DEF CollectHash, RewindPlan
  <2> QED
    BY <1>1, <1>2, <1>4, <2>1, <2>2, PlansAfter DEF DurableOK, Owed
<1>5. CASE RewindPlan(d)
  <2>1. plans' = [plans EXCEPT ![d].written = FALSE] /\ pc = "rewind" /\ d \in Rewindable
    BY <1>5 DEF RewindPlan
  <2>2. ~CollectHash(d) /\ ~WriteMark(d)
    BY <2>1 DEF CollectHash, WriteMark
  <2> QED
    BY <1>1, <1>2, <1>5, <2>1, <2>2, PlansAfter DEF DurableOK, Rewindable
<1> QED
  BY <1>3, <1>4, <1>5 DEF PlanStep

\* The set of chunks a document is given.
Spliced(d) == [text |-> plans[d].text, figures |-> Figures[d] \cap texts, chunker |-> chunker]

LEMMA StoreSteps ==
  ASSUME TypeOK, AtHand, NEW d \in Doc, StoreStep(d)
  PROVE  /\ stored' \in [Doc -> Seq(Chunks)]
         /\ manifest' \in [Doc -> Nat \cup {None}]
         /\ \A e \in Doc : e # d => stored'[e] = stored[e] /\ manifest'[e] = manifest[e]
         /\ UNCHANGED <<disk, job, plans, server, chunker, texts, spent>>
         /\ Owed(d)
         /\ WriteDelete(d) => stored'[d] = << >> /\ UNCHANGED manifest
         /\ WriteIndex(d) => stored'[d] = << Spliced(d) >> /\ UNCHANGED manifest
         /\ WriteStamp(d) => UNCHANGED stored /\ manifest'[d] = plans[d].hash
<1>1. DurableOK /\ LocalOK
  BY Types
<1>2. UNCHANGED <<disk, job, plans, server, chunker, texts, spent>>
  BY DEF StoreStep, WriteDelete, WriteIndex, WriteStamp, rest, local
<1>3. Owed(d)
  BY DEF StoreStep, WriteDelete, WriteIndex, WriteStamp, AtHand
<1>4. plans[d] \in Plans
  BY <1>1, <1>3 DEF Owed, DurableOK
<1>5. CASE WriteDelete(d)
  <2>1. stored' = [stored EXCEPT ![d] = << >>] /\ UNCHANGED manifest /\ pc = "write"
    BY <1>5 DEF WriteDelete
  <2>2. ~WriteIndex(d) /\ ~WriteStamp(d)
    BY <2>1 DEF WriteIndex, WriteStamp
  <2> QED
    BY <1>1, <1>2, <1>3, <2>1, <2>2, EmptySeq DEF DurableOK
<1>6. CASE WriteIndex(d)
  <2>1. /\ stored' = [stored EXCEPT ![d] = Append(@, Spliced(d))] /\ UNCHANGED manifest
        /\ pc = "index" /\ stored[d] = << >>
    BY <1>6 DEF WriteIndex, Spliced, AtHand
  <2>2. Spliced(d) \in Chunks
    BY <1>1, <1>4 DEF Chunks, Plans, AllFigures, LocalOK, Spliced
  <2>3. ~WriteDelete(d) /\ ~WriteStamp(d)
    BY <2>1 DEF WriteDelete, WriteStamp
  <2>4. Append(stored[d], Spliced(d)) = << Spliced(d) >> /\ << Spliced(d) >> \in Seq(Chunks)
    BY <2>1, <2>2
  <2> QED
    BY <1>1, <1>2, <1>3, <2>1, <2>3, <2>4 DEF DurableOK
<1>7. CASE WriteStamp(d)
  <2>1. manifest' = [manifest EXCEPT ![d] = plans[d].hash] /\ UNCHANGED stored /\ pc = "stamp"
    BY <1>7 DEF WriteStamp
  <2>2. ~WriteDelete(d) /\ ~WriteIndex(d)
    BY <2>1 DEF WriteDelete, WriteIndex
  <2>3. plans[d].hash \in Nat
    BY <1>4 DEF Plans
  <2> QED
    BY <1>1, <1>2, <1>3, <2>1, <2>2, <2>3 DEF DurableOK
<1> QED
  BY <1>5, <1>6, <1>7 DEF StoreStep

\* The supervisor marks a document that has no plan, or changes nothing.
LEMMA SuperviseSteps ==
  ASSUME TypeOK, Supervise
  PROVE  /\ plans' \in [Doc -> Plans \cup {None}]
         /\ \A d \in Doc :
              \/ plans'[d] = plans[d]
              \/ plans[d] = None /\ plans'[d] # None /\ plans'[d].failed
         /\ UNCHANGED <<disk, manifest, stored, job, server, chunker, spent>>
<1>1. DurableOK /\ LocalOK
  BY Types
<1>2. UNCHANGED <<disk, manifest, stored, job, server, chunker, spent>>
  BY DEF Supervise, rest
<1>3. CASE target # None /\ plans[target] = None
  <2> DEFINE plan == [text |-> None, hash |-> disk[target], written |-> FALSE, failed |-> TRUE]
  <2>1. plans' = [plans EXCEPT ![target] = plan] /\ target \in Doc
    BY <1>1, <1>3 DEF Supervise, LocalOK
  <2>2. plan \in Plans /\ plan.failed
    BY <1>1, <2>1 DEF Plans, DurableOK
  <2> HIDE DEF plan
  <2>3. plan # None /\ plans \in [Doc -> Plans \cup {None}]
    BY <1>1, <2>2, NoneAssumption DEF DurableOK
  <2>4. /\ plans' \in [Doc -> Plans \cup {None}]
        /\ \A d \in Doc : plans'[d] = IF d = target THEN plan ELSE plans[d]
    BY <2>1, <2>2, <2>3
  <2> QED
    BY <1>2, <1>3, <2>2, <2>3, <2>4
<1>4. CASE ~(target # None /\ plans[target] = None)
  <2>1. plans' = plans
    BY <1>4 DEF Supervise
  <2> QED
    BY <1>1, <1>2, <2>1 DEF DurableOK
<1> QED
  BY <1>3, <1>4

\* The steps that change nothing durable but a file.
QuietStep ==
  \/ \E d \in Doc : CollectSkip(d) \/ CollectParse(d) \/ ParserDies(d) \/ CollectRaise(d)
                    \/ EditDocument(d)
  \/ CollectOnly \/ SubmitSkip \/ FetchResults \/ RewindEnd \/ Crash

LEMMA Quiet ==
  ASSUME TypeOK, QuietStep
  PROVE  UNCHANGED <<manifest, stored, job, plans, server, chunker>> /\ disk' \in [Doc -> Nat]
<1>1. DurableOK
  BY Types
<1> QED
  BY <1>1 DEF QuietStep, CollectSkip, CollectParse, ParserDies, CollectRaise, EditDocument,
    CollectOnly, SubmitSkip, FetchResults, RewindEnd, Crash, durable, rest, DurableOK

\* Every step is one of these.
LEMMA StepIs ==
  ASSUME [Next]_vars
  PROVE  \/ Launch \/ Supervise \/ JobSteps \/ SubmitChunk \/ RecordId \/ QuietStep
         \/ \E d \in Doc : PlanStep(d) \/ StoreStep(d)
         \/ \E b \in DOMAIN batches : EndBatch(b)
         \/ UNCHANGED vars
BY DEF Next, JobStep, DocumentStep, JobSteps, QuietStep, PlanStep, StoreStep

LEMMA DurableKeeps ==
  ASSUME TypeOK, PhaseFits, AtHand, [Next]_vars
  PROVE  DurableOK'
<1>1. DurableOK
  BY Types
<1>2. DOMAIN batches \subseteq DOMAIN batches'
  BY ServerKeeps
<1>3. UNCHANGED job => job' \in Jobs' \cup {None}
  BY <1>1, <1>2, JobsGrow DEF DurableOK
<1>4. CASE Launch
  BY <1>1, <1>4, LaunchKeeps DEF DurableOK, Launch
<1>5. CASE Supervise
  BY <1>1, <1>3, <1>5, SuperviseSteps DEF DurableOK
<1>6. CASE JobSteps
  <2>1. UNCHANGED disk
    BY <1>6 DEF JobSteps, CollectEnd, SubmitEnd, PollEnd, WriteEnd, Rechunk
  <2> QED
    BY <1>1, <1>6, <2>1, JobPhases DEF DurableOK
<1>7. CASE SubmitChunk
  BY <1>1, <1>3, <1>7 DEF SubmitChunk, durable, DurableOK
<1>8. CASE RecordId
  BY <1>1, <1>8, RecordKeeps DEF RecordId, DurableOK
<1>9. CASE QuietStep
  BY <1>1, <1>3, <1>9, Quiet DEF DurableOK
<1>10. ASSUME NEW d \in Doc, PlanStep(d) PROVE DurableOK'
  BY <1>1, <1>3, <1>10, PlanSteps DEF DurableOK
<1>11. ASSUME NEW d \in Doc, StoreStep(d) PROVE DurableOK'
  BY <1>1, <1>3, <1>11, StoreSteps DEF DurableOK
<1>12. ASSUME NEW b \in DOMAIN batches, EndBatch(b) PROVE DurableOK'
  BY <1>1, <1>3, <1>12 DEF EndBatch, durable, DurableOK
<1>13. CASE UNCHANGED vars
  BY <1>1, <1>3, <1>13 DEF vars, durable, DurableOK
<1> QED
  BY <1>4, <1>5, <1>6, <1>7, <1>8, <1>9, <1>10, <1>11, <1>12, <1>13, StepIs

-----------------------------------------------------------------------------
(* The batches recorded. *)

LEMMA SameRecorded ==
  ASSUME job' # None, job # None, job'.ids = job.ids
  PROVE  Recorded' = Recorded
BY DEF Recorded

\* Once the figures are transcribed, the answers of the job's batches stay.
LEMMA AnswersStay ==
  ASSUME TypeOK, PhaseFits, Ended, AtHand, [Next]_vars, job # None, job.phase \in {"writing", "done"}
  PROVE  /\ job' # None /\ job'.ids = job.ids /\ job'.phase \in {"writing", "done"}
         /\ Recorded' = Recorded
         /\ \A b \in Recorded : answers'[b] = answers[b]
         /\ Transcribed' = Transcribed
<1>1. ServerOK /\ DurableOK /\ job \in Jobs /\ None \notin Jobs'
  <2>1. ServerOK /\ DurableOK /\ batches' \in Seq(SUBSET AllFigures)
    BY Types, ServerKeeps DEF ServerOK
  <2>2. None \notin Jobs'
    BY <2>1, JobIsSome DEF Jobs
  <2> QED
    BY <2>1, <2>2 DEF DurableOK
<1>2. job' # None /\ job'.ids = job.ids /\ job'.phase \in {"writing", "done"} /\ ~SubmitChunk
  <2>1. CASE UNCHANGED job
    BY <1>1, <2>1 DEF PhaseFits, SubmitChunk
  <2>2. CASE JobSteps
    <3>1. ~SubmitChunk
      BY <2>2 DEF PhaseFits, JobSteps, CollectEnd, SubmitEnd, PollEnd, WriteEnd, Rechunk, SubmitChunk
    <3>2. WriteEnd \/ Rechunk
      BY <2>2, JobPhases DEF JobSteps
    <3> QED
      BY <1>1, <2>2, <3>1, <3>2, JobPhases
  <2>3. CASE Launch
    <3>1. ~SubmitChunk
      BY <2>3 DEF Launch, SubmitChunk
    <3> QED
      BY <1>1, <2>3, <3>1, LaunchKeeps
  <2>4. ~RecordId
    BY DEF PhaseFits, RecordId
  <2>5. UNCHANGED job \/ JobSteps \/ Launch
    BY <2>4, StepIs, SuperviseSteps, Quiet, PlanSteps, StoreSteps DEF SubmitChunk, EndBatch, durable,
       vars
  <2> QED
    BY <2>1, <2>2, <2>3, <2>5
<1>3. Recorded' = Recorded
  BY <1>2, SameRecorded
<1>4. \A b \in Recorded : answers'[b] = answers[b]
  <2>1. CASE UNCHANGED answers
    BY <2>1
  <2>2. ASSUME NEW c \in DOMAIN batches, EndBatch(c) PROVE \A b \in Recorded : answers'[b] = answers[b]
    <3>1. c \notin Recorded
      BY <2>2 DEF Ended, EndBatch
    <3>2. Recorded \subseteq DOMAIN batches
      BY <1>1, RecordedExist
    <3> QED
      BY <1>1, <2>2, <3>1, <3>2 DEF EndBatch, ServerOK
  <2>3. UNCHANGED answers \/ \E b \in DOMAIN batches : EndBatch(b)
    BY <1>2, StepIs, SuperviseSteps, Quiet, PlanSteps, StoreSteps, JobPhases
    DEF Launch, RecordId, server, vars
  <2> QED
    BY <2>1, <2>2, <2>3
<1> QED
  BY <1>2, <1>3, <1>4 DEF Transcribed

\* A figure is only read from a batch that has ended.
LEMMA EndedKeeps ==
  ASSUME TypeOK, PhaseFits, Ended, AtHand, [Next]_vars
  PROVE  Ended'
<1>1. CASE job # None /\ job.phase \in {"writing", "done"}
  BY <1>1, AnswersStay DEF Ended
<1>2. CASE ~(job # None /\ job.phase \in {"writing", "done"})
  <2>1. CASE UNCHANGED job
    BY <1>2, <2>1 DEF Ended
  <2>2. CASE JobSteps
    <3>1. job # None /\ job' # None /\ job'.ids = job.ids /\ UNCHANGED answers
      <4>1. batches \in Seq(SUBSET AllFigures)
        BY Types DEF ServerOK
      <4>2. batches' = batches /\ job \in Jobs /\ job' \in Jobs'
        BY <2>2, JobPhases
      <4>3. None \notin Jobs /\ Jobs' = Jobs
        <5>1. None \notin Jobs
          BY <4>1, JobIsSome DEF Jobs
        <5> QED
          BY <4>2, <5>1 DEF Jobs
      <4> QED
        BY <2>2, <4>2, <4>3, JobPhases
    <3>2. CASE CollectEnd
      BY <2>2, <3>2, JobPhases DEF Ended
    <3>3. CASE SubmitEnd
      <4>1. job.ids = << >> => Recorded' = {}
        BY <3>1 DEF Recorded
      <4> QED
        BY <2>2, <3>3, <4>1, JobPhases DEF Ended
    <3>4. CASE PollEnd
      BY <2>2, <3>1, <3>4, SameRecorded DEF Ended, PollEnd
    <3>5. ~WriteEnd /\ ~Rechunk
      BY <1>2, <2>2, <3>1, JobPhases
    <3> QED
      BY <2>2, <3>2, <3>3, <3>4, <3>5 DEF JobSteps
  <2>3. CASE Launch
    BY <1>2, <2>3, LaunchKeeps DEF Ended
  <2>4. CASE RecordId
    BY <2>4, RecordKeeps DEF Ended
  <2>5. UNCHANGED job \/ JobSteps \/ Launch \/ RecordId
    BY StepIs, SuperviseSteps, Quiet, PlanSteps, StoreSteps DEF SubmitChunk, EndBatch, durable, vars
  <2> QED
    BY <2>1, <2>2, <2>3, <2>4, <2>5
<1> QED
  BY <1>1, <1>2

-----------------------------------------------------------------------------
(* The process, and the document at hand. *)

Process == LocalOK /\ PhaseFits /\ AtHand

LEMMA TranscribedFigures ==
  ASSUME TypeOK, PhaseFits, Ended, pc \in InWriting
  PROVE  Transcribed \subseteq AllFigures
<1>1. job \in Jobs /\ \A b \in Recorded : answers[b] # None
  BY Types DEF PhaseFits, Ended, DurableOK, InWriting
<1>2. \A b \in Recorded : answers[b] \in SUBSET AllFigures
  BY <1>1, RecordedExist, Types DEF ServerOK
<1> QED
  BY <1>2 DEF Transcribed

\* Starting, ending and what lies outside the loops.
LEMMA PhaseStepsProcess ==
  ASSUME TypeOK, PhaseFits, Ended, AtHand, Launch \/ JobSteps \/ RecordId \/ Supervise
  PROVE  Process'
<1>1. LocalOK /\ ServerOK /\ DurableOK /\ None \notin Jobs
  <2>1. LocalOK /\ ServerOK /\ DurableOK
    BY Types
  <2> QED
    BY <2>1, JobIsSome DEF Jobs, ServerOK
<1>2. CASE Launch
  <2>1. /\ job' \in Jobs /\ pc' = Entry(job'.phase) /\ target' \in Doc \cup {None}
        /\ UNCHANGED <<incremental, chunker, spent>>
        /\ left' = Doc /\ cursor' = 1 /\ at' = None /\ text' = None /\ texts' = {}
    BY <1>2, LaunchKeeps DEF Launch, Fresh, server, Jobs
  <2>2. job' # None /\ job'.phase \in Phases
    BY <1>1, <2>1 DEF Jobs
  <2>3. /\ pc' \in {"collect", "submit", "poll", "fetch", "finished"}
        /\ pc' = "collect" => job'.phase = "collecting"
        /\ pc' = "submit" => job'.phase = "submitting"
        /\ pc' = "poll" => job'.phase = "submitted"
        /\ pc' = "fetch" => job'.phase = "writing"
        /\ pc' = "finished" => job'.phase = "done"
    BY <2>1, <2>2 DEF Entry, Phases
  <2> QED
    BY <1>1, <2>1, <2>2, <2>3 DEF Process, LocalOK, PhaseFits, InWriting, AtHand
<1>3. CASE JobSteps
  <2>1. /\ job' \in Jobs /\ job' # None
        /\ UNCHANGED <<manifest, stored, plans, batches, answers, texts, at>>
    BY <1>1, <1>3, JobPhases DEF Jobs
  <2>2. CASE CollectEnd
    BY <1>1, <1>3, <2>1, <2>2, JobPhases
    DEF CollectEnd, Process, LocalOK, PhaseFits, InWriting, AtHand, rest, local
  <2>3. CASE SubmitEnd
    BY <1>1, <1>3, <2>1, <2>3, JobPhases
    DEF SubmitEnd, Process, LocalOK, PhaseFits, InWriting, AtHand, rest, local
  <2>4. CASE PollEnd
    BY <1>1, <1>3, <2>1, <2>4, JobPhases
    DEF PollEnd, Process, LocalOK, PhaseFits, InWriting, AtHand, rest, local
  <2>5. CASE WriteEnd
    BY <1>1, <1>3, <2>1, <2>5, JobPhases
    DEF WriteEnd, Process, LocalOK, PhaseFits, InWriting, AtHand, rest, local
  <2>6. CASE Rechunk
    <3>1. spent' \in [Whats -> Nat]
      BY <1>1, <2>6, SpendCounts DEF Rechunk, Whats
    <3> QED
      BY <1>1, <1>3, <2>1, <2>6, <3>1, JobPhases
      DEF Rechunk, Process, LocalOK, PhaseFits, InWriting, AtHand, local
  <2> QED
    BY <1>3, <2>2, <2>3, <2>4, <2>5, <2>6 DEF JobSteps
<1>4. CASE RecordId
  <2>1. job' # None /\ job'.phase = "submitting"
    <3>1. job' \in Jobs
      BY <1>4, RecordKeeps DEF RecordId, server, Jobs
    <3> QED
      BY <1>1, <1>4, <3>1, RecordKeeps
  <2> QED
    BY <1>1, <1>4, <2>1 DEF RecordId, Process, LocalOK, PhaseFits, InWriting, AtHand, rest
<1>5. CASE Supervise
  BY <1>1, <1>5 DEF Supervise, Process, LocalOK, PhaseFits, InWriting, AtHand, rest, local
<1> QED
  BY <1>2, <1>3, <1>4, <1>5

\* The collect, the submit and the ways out.
LEMMA QuietProcess ==
  ASSUME TypeOK, PhaseFits, Ended, AtHand, QuietStep \/ SubmitChunk
  PROVE  Process'
<1>1. LocalOK
  BY Types
<1> USE DEF Process, LocalOK, PhaseFits, InWriting, AtHand, rest, local, durable
<1>2. ASSUME NEW d \in Doc, CollectSkip(d) PROVE Process'
  BY <1>1, <1>2 DEF CollectSkip, CollectNext
<1>3. ASSUME NEW d \in Doc, CollectParse(d) PROVE Process'
  <2>1. disk[d] \in Nat
    BY Types DEF DurableOK
  <2> QED
    BY <1>1, <1>3, <2>1 DEF CollectParse, CollectNext, Skipped
<1>4. ASSUME NEW d \in Doc, ParserDies(d) PROVE Process'
  BY <1>1, <1>4 DEF ParserDies, CollectNext
<1>5. ASSUME NEW d \in Doc, CollectRaise(d) PROVE Process'
  <2>1. spent' \in [Whats -> Nat]
    BY <1>1, <1>5, SpendCounts DEF CollectRaise, Whats
  <2> QED
    BY <1>1, <1>5, <2>1 DEF CollectRaise
<1>6. ASSUME NEW d \in Doc, EditDocument(d) PROVE Process'
  <2>1. spent' \in [Whats -> Nat]
    BY <1>1, <1>6, SpendCounts DEF EditDocument, Whats
  <2>2. UNCHANGED <<manifest, stored, job, plans, batches, answers>>
    BY <1>6 DEF EditDocument, server
  <2>3. Transcribed' = Transcribed /\ UNCHANGED <<Holds(at), Owed(at)>>
    BY <1>6, <2>2 DEF EditDocument, Transcribed, Recorded, Holds, Owed
  <2> QED
    BY <1>1, <1>6, <2>1, <2>2, <2>3 DEF EditDocument
<1>7. CASE CollectOnly
  <2>1. spent' \in [Whats -> Nat]
    BY <1>1, <1>7, SpendCounts DEF CollectOnly, Whats
  <2> QED
    BY <1>1, <1>7, <2>1 DEF CollectOnly
<1>8. CASE SubmitSkip
  BY <1>1, <1>8 DEF SubmitSkip
<1>9. CASE FetchResults
  <2>1. Transcribed \subseteq AllFigures /\ Transcribed' = Transcribed
    BY <1>9, TranscribedFigures DEF FetchResults, Transcribed, Recorded, server
  <2> QED
    BY <1>1, <1>9, <2>1 DEF FetchResults
<1>10. CASE RewindEnd
  BY <1>1, <1>10 DEF RewindEnd, Fresh
<1>11. CASE Crash
  <2>1. spent' \in [Whats -> Nat]
    BY <1>1, <1>11, SpendCounts DEF Crash, Whats
  <2> QED
    BY <1>1, <1>11, <2>1 DEF Crash
<1>12. CASE SubmitChunk
  <2>1. batches' # << >>
    BY <1>12, Types, ServerKeeps, AppendProperties DEF SubmitChunk, ServerOK
  <2> QED
    BY <1>1, <1>12, <2>1 DEF SubmitChunk
<1> QED
  BY <1>2, <1>3, <1>4, <1>5, <1>6, <1>7, <1>8, <1>9, <1>10, <1>11, <1>12 DEF QuietStep

\* What Transcribed is made of.
LEMMA SameTranscribed ==
  ASSUME UNCHANGED <<job, answers>> PROVE Transcribed' = Transcribed
BY DEF Transcribed, Recorded

\* The write loop, and the marks of the plans.
LEMMA DocumentProcess ==
  ASSUME TypeOK, PhaseFits, Ended, AtHand, NEW d \in Doc, PlanStep(d) \/ StoreStep(d)
  PROVE  Process'
<1>1. LocalOK /\ DurableOK
  BY Types
<1>2. UNCHANGED <<job, answers, batches>>
  BY PlanSteps, StoreSteps DEF server
<1>3. Transcribed' = Transcribed
  BY <1>2, SameTranscribed
<1> USE DEF Process, LocalOK, PhaseFits, InWriting, AtHand, rest
<1>4. CASE PlanStep(d)
  BY <1>1, <1>2, <1>3, <1>4 DEF PlanStep, CollectHash, WriteMark, RewindPlan, local
<1>5. CASE WriteDelete(d)
  <2>1. UNCHANGED plans /\ stored'[d] = << >> /\ Owed(d)
    BY <1>5, StoreSteps DEF StoreStep
  <2> QED
    BY <1>1, <1>2, <1>3, <1>5, <2>1 DEF WriteDelete, Owed
<1>6. CASE WriteIndex(d)
  <2>1. /\ UNCHANGED <<plans, chunker, texts>> /\ Owed(d) /\ stored'[d] = << Spliced(d) >>
        /\ pc = "index" /\ pc' = "stamp" /\ at' = d /\ texts = Transcribed
    BY <1>6, StoreSteps DEF StoreStep, WriteIndex, local
  <2>2. Spliced(d).figures = Figures[d] \cap texts /\ Spliced(d).chunker = chunker
    BY DEF Spliced
  <2>3. Holds(d)' /\ stored'[d][1].chunker = chunker
    BY <1>3, <2>1, <2>2 DEF Holds
  <2> QED
    BY <1>1, <1>2, <1>3, <1>6, <2>1, <2>3 DEF WriteIndex, Owed, local
<1>7. CASE WriteStamp(d)
  <2>1. /\ UNCHANGED <<plans, chunker, texts, stored>> /\ Owed(d) /\ manifest'[d] = plans[d].hash
        /\ pc = "stamp" /\ pc' = "mark" /\ at = d /\ at' = d /\ texts = Transcribed
    BY <1>7, StoreSteps DEF StoreStep, WriteStamp, local
  <2>2. Holds(d)' /\ stored'[d][1].chunker = chunker
    BY <1>3, <2>1 DEF Holds
  <2> QED
    BY <1>1, <1>2, <1>3, <1>7, <2>1, <2>2 DEF WriteStamp, Owed, local
<1> QED
  BY <1>4, <1>5, <1>6, <1>7 DEF StoreStep

LEMMA ProcessKeeps ==
  ASSUME TypeOK, PhaseFits, Ended, AtHand, [Next]_vars
  PROVE  Process'
<1>1. ASSUME NEW b \in DOMAIN batches, EndBatch(b) PROVE Process'
  <2>1. UNCHANGED <<manifest, stored, job, plans, batches, incremental, target, chunker, left, cursor,
                    at, text, texts, pc, spent>>
    BY <1>1 DEF EndBatch, durable, rest, local
  <2>2. job # None /\ job.phase = "writing" => Transcribed' = Transcribed
    BY AnswersStay
  <2>3. pc \in InWriting => Transcribed' = Transcribed /\ \A d \in Doc : UNCHANGED Holds(d)
    BY <2>1, <2>2 DEF PhaseFits, InWriting, Holds
  <2>4. LocalOK /\ \A d \in Doc : UNCHANGED Owed(d)
    BY <2>1, Types DEF Owed
  <2> QED
    BY <2>1, <2>3, <2>4 DEF Process, LocalOK, PhaseFits, InWriting, AtHand
<1>2. CASE UNCHANGED vars
  <2>1. UNCHANGED <<manifest, stored, job, plans, batches, answers, incremental, target, chunker, left,
                    cursor, at, text, texts, pc, spent>>
    BY <1>2 DEF vars, durable, server, local, rest
  <2>2. Transcribed' = Transcribed
    BY <2>1, SameTranscribed
  <2> QED
    BY <2>1, <2>2, Types DEF Process, LocalOK, PhaseFits, InWriting, AtHand, Holds, Owed
<1> QED
  BY <1>1, <1>2, StepIs, PhaseStepsProcess, QuietProcess, DocumentProcess

-----------------------------------------------------------------------------
(* The documents. *)

\* The job and the batches stay as they are, once documents are written.
LEMMA WritingStays ==
  ASSUME IInv, [Next]_vars, job # None, job.phase \in {"writing", "done"}
  PROVE  /\ job' # None /\ job'.phase \in {"writing", "done"}
         /\ \A d \in Doc : Holds(d) /\ stored'[d] = stored[d] => Holds(d)'
<1>1. Transcribed' = Transcribed /\ job' # None /\ job'.phase \in {"writing", "done"}
  BY AnswersStay DEF IInv
<1> QED
  BY <1>1 DEF Holds

\* Steps that write no document.
LEMMA SameDocuments ==
  ASSUME IInv, [Next]_vars, UNCHANGED <<manifest, stored, plans>>,
         pc' = "rewind" \/ UNCHANGED chunker,
         spent'["crashes"] = 0 /\ pc' # "rewind" =>
           spent["crashes"] = 0 /\ (pc = "rewind" => Rewindable = {}),
         job' # None /\ job'.phase = "done" => \A d \in Doc : ~Owed(d)
  PROVE  Kept'
<1>1. \A d \in Doc : Owed(d)' <=> Owed(d)
  BY DEF Owed
<1>2. WipedIsOwed'
  <2> SUFFICES ASSUME NEW d \in Doc, manifest[d] # None, stored[d] = << >>
               PROVE  Owed(d) /\ job' # None /\ job'.phase = "writing"
    BY <1>1 DEF WipedIsOwed
  <2>1. Owed(d) /\ job # None /\ job.phase = "writing"
    BY DEF IInv, Kept, WipedIsOwed
  <2> QED
    BY <2>1, WritingStays
<1>3. Untouched'
  BY DEF IInv, Kept, Untouched
<1>4. WrittenHolds'
  <2> SUFFICES ASSUME NEW d \in Doc, plans[d] # None, ~plans[d].failed, plans[d].written
               PROVE  /\ job' # None /\ job'.phase \in {"writing", "done"}
                      /\ manifest[d] = plans[d].hash
                      /\ Holds(d)'
                      /\ spent'["crashes"] = 0 /\ pc' # "rewind" => stored[d][1].chunker = chunker'
    BY DEF WrittenHolds
  <2>1. /\ job # None /\ job.phase \in {"writing", "done"}
        /\ manifest[d] = plans[d].hash
        /\ Holds(d)
        /\ spent["crashes"] = 0 /\ pc # "rewind" => stored[d][1].chunker = chunker
    BY DEF IInv, Kept, WrittenHolds
  <2>2. d \in Rewindable
    BY DEF Rewindable
  <2> QED
    BY <2>1, <2>2, WritingStays
<1>5. DoneOwesNothing'
  BY <1>1 DEF DoneOwesNothing
<1> QED
  BY <1>2, <1>3, <1>4, <1>5 DEF Kept

\* Steps of the supervisor give up only documents that have no plan.
LEMMA SuperviseDocuments ==
  ASSUME IInv, [Next]_vars, Supervise
  PROVE  Kept'
<1>1. /\ UNCHANGED <<manifest, stored, job, chunker, spent>>
      /\ \A d \in Doc : \/ plans'[d] = plans[d]
                        \/ plans[d] = None /\ plans'[d] # None /\ plans'[d].failed
  BY SuperviseSteps DEF IInv
<1>2. pc = "dead" /\ pc' = "down"
  BY DEF Supervise
<1>3. \A d \in Doc : Owed(d)' <=> Owed(d)
  BY <1>1 DEF Owed
<1>4. WipedIsOwed'
  BY <1>1, <1>3 DEF IInv, Kept, WipedIsOwed
<1>5. Untouched'
  BY <1>1 DEF IInv, Kept, Untouched
<1>6. WrittenHolds'
  <2> SUFFICES ASSUME NEW d \in Doc, plans'[d] # None, ~plans'[d].failed, plans'[d].written
               PROVE  /\ job' # None /\ job'.phase \in {"writing", "done"}
                      /\ manifest'[d] = plans'[d].hash
                      /\ Holds(d)'
                      /\ spent'["crashes"] = 0 /\ pc' # "rewind" => stored'[d][1].chunker = chunker'
    BY DEF WrittenHolds
  <2>1. plans'[d] = plans[d]
    BY <1>1
  <2>2. /\ job # None /\ job.phase \in {"writing", "done"}
        /\ manifest[d] = plans[d].hash
        /\ Holds(d)
        /\ spent["crashes"] = 0 /\ pc # "rewind" => stored[d][1].chunker = chunker
    BY <2>1 DEF IInv, Kept, WrittenHolds
  <2> QED
    BY <1>1, <1>2, <2>1, <2>2, WritingStays
<1>7. DoneOwesNothing'
  BY <1>1, <1>3 DEF IInv, Kept, DoneOwesNothing
<1> QED
  BY <1>4, <1>5, <1>6, <1>7 DEF Kept

\* A document is planned while nothing is written.
LEMMA HashDocuments ==
  ASSUME IInv, [Next]_vars, NEW d \in Doc, CollectHash(d)
  PROVE  Kept'
<1>1. /\ UNCHANGED <<manifest, stored, job>> /\ plans'[d] # None /\ ~plans'[d].failed
      /\ ~plans'[d].written
      /\ \A e \in Doc : e # d => plans'[e] = plans[e]
  BY PlanSteps DEF IInv, PlanStep
<1>2. job # None /\ job.phase = "collecting"
  BY DEF IInv, PhaseFits, CollectHash
<1>3. WipedIsOwed'
  BY <1>1, <1>2 DEF IInv, Kept, WipedIsOwed
<1>4. Untouched'
  BY <1>1 DEF IInv, Kept, Untouched
<1>5. WrittenHolds'
  <2> SUFFICES ASSUME NEW e \in Doc, plans'[e] # None, ~plans'[e].failed, plans'[e].written
               PROVE  FALSE
    BY DEF WrittenHolds
  <2>1. e # d /\ plans'[e] = plans[e]
    BY <1>1
  <2> QED
    BY <1>2, <2>1 DEF IInv, Kept, WrittenHolds
<1>6. DoneOwesNothing'
  BY <1>1, <1>2 DEF DoneOwesNothing
<1> QED
  BY <1>3, <1>4, <1>5, <1>6 DEF Kept

\* A step on a document, while the others are as they were.
LEMMA OneDocument ==
  ASSUME IInv, [Next]_vars, NEW d \in Doc, job # None, job.phase = "writing",
         UNCHANGED <<job, chunker, spent>>,
         \A e \in Doc : e # d =>
           plans'[e] = plans[e] /\ stored'[e] = stored[e] /\ manifest'[e] = manifest[e],
         plans'[d] # None, ~plans'[d].failed,
         manifest'[d] # None /\ stored'[d] = << >> => ~plans'[d].written,
         pc = "rewind" => pc' = "rewind",
         plans'[d].written =>
           manifest'[d] = plans'[d].hash /\ Holds(d)' /\ stored'[d][1].chunker = chunker
  PROVE  Kept'
<1>1. WipedIsOwed'
  BY DEF IInv, Kept, WipedIsOwed, Owed
<1>2. Untouched'
  BY DEF IInv, Kept, Untouched
<1>3. WrittenHolds'
  <2> SUFFICES ASSUME NEW e \in Doc, plans'[e] # None, ~plans'[e].failed, plans'[e].written
               PROVE  /\ job' # None /\ job'.phase \in {"writing", "done"}
                      /\ manifest'[e] = plans'[e].hash
                      /\ Holds(e)'
                      /\ spent'["crashes"] = 0 /\ pc' # "rewind" => stored'[e][1].chunker = chunker'
    BY DEF WrittenHolds
  <2>1. CASE e = d
    BY <2>1
  <2>2. CASE e # d
    <3>1. plans'[e] = plans[e] /\ stored'[e] = stored[e] /\ manifest'[e] = manifest[e]
      BY <2>2
    <3>2. /\ manifest[e] = plans[e].hash /\ Holds(e)
          /\ spent["crashes"] = 0 /\ pc # "rewind" => stored[e][1].chunker = chunker
      BY <3>1 DEF IInv, Kept, WrittenHolds
    <3> QED
      BY <3>1, <3>2, WritingStays
  <2> QED
    BY <2>1, <2>2
<1>4. DoneOwesNothing'
  BY DEF DoneOwesNothing
<1> QED
  BY <1>1, <1>2, <1>3, <1>4 DEF Kept

LEMMA StoreDocuments ==
  ASSUME IInv, [Next]_vars, NEW d \in Doc, StoreStep(d)
  PROVE  Kept'
<1>1. /\ \A e \in Doc : e # d => stored'[e] = stored[e] /\ manifest'[e] = manifest[e]
      /\ UNCHANGED <<job, plans, chunker, spent>>
      /\ plans[d] # None /\ ~plans[d].failed /\ ~plans[d].written
  BY StoreSteps DEF IInv, Owed
<1>2. pc \in {"write", "index", "stamp"}
  BY DEF StoreStep, WriteDelete, WriteIndex, WriteStamp
<1>3. job # None /\ job.phase = "writing"
  BY <1>2 DEF IInv, PhaseFits, InWriting
<1> QED
  BY <1>1, <1>2, <1>3, OneDocument

LEMMA MarkDocuments ==
  ASSUME IInv, [Next]_vars, NEW d \in Doc, WriteMark(d) \/ RewindPlan(d)
  PROVE  Kept'
<1>1. /\ UNCHANGED <<manifest, stored, job, server>> /\ plans'[d] # None
      /\ \A e \in Doc : e # d => plans'[e] = plans[e]
      /\ WriteMark(d) => plans'[d].written /\ plans'[d].hash = plans[d].hash
      /\ RewindPlan(d) => ~plans'[d].written
      /\ ~plans'[d].failed
  <2>1. ~CollectHash(d)
    BY DEF CollectHash, WriteMark, RewindPlan
  <2> QED
    BY <2>1, PlanSteps DEF IInv, PlanStep
<1>2. UNCHANGED <<chunker, spent>> /\ pc \in {"mark", "rewind"}
  BY DEF WriteMark, RewindPlan, rest
<1>3. job # None /\ job.phase = "writing"
  BY <1>2 DEF IInv, PhaseFits, InWriting
<1>4. CASE WriteMark(d)
  <2>1. pc = "mark" /\ at = d
    BY <1>4 DEF WriteMark
  <2>2. manifest[d] = plans[d].hash /\ Holds(d) /\ stored[d][1].chunker = chunker
    BY <2>1 DEF IInv, AtHand
  <2>3. Holds(d)' /\ stored[d] # << >>
    <3>1. Holds(d)'
      BY <1>1, <1>3, <2>2, WritingStays
    <3>2. Len(stored[d]) = 1
      BY <2>2 DEF Holds
    <3> QED
      BY <3>1, <3>2
  <2> QED
    BY <1>1, <1>2, <1>3, <1>4, <2>1, <2>2, <2>3, OneDocument
<1>5. CASE RewindPlan(d)
  <2>1. pc' = "rewind"
    BY <1>5 DEF RewindPlan
  <2> QED
    BY <1>1, <1>2, <1>3, <1>5, <2>1, OneDocument
<1> QED
  BY <1>4, <1>5

\* What a step that writes no document does to the count of crashes.
LEMMA CrashesCount ==
  ASSUME IInv, [Next]_vars, QuietStep
  PROVE  spent'["crashes"] = 0 /\ pc' # "rewind" =>
           spent["crashes"] = 0 /\ (pc = "rewind" => Rewindable = {})
<1>1. LocalOK /\ spent["crashes"] \in Nat
  BY Types DEF IInv, LocalOK, Whats
<1>2. ASSUME NEW d \in Doc, CollectSkip(d) \/ CollectParse(d) \/ ParserDies(d)
      PROVE  UNCHANGED spent /\ pc # "rewind"
  BY <1>2 DEF CollectSkip, CollectParse, ParserDies, CollectNext
<1>3. ASSUME NEW d \in Doc, CollectRaise(d) PROVE spent'["crashes"] = spent["crashes"] /\ pc # "rewind"
  BY <1>1, <1>3, SpendCounts DEF CollectRaise, Whats
<1>4. ASSUME NEW d \in Doc, EditDocument(d) PROVE spent'["crashes"] = spent["crashes"] /\ pc' = pc
  BY <1>1, <1>4, SpendCounts DEF EditDocument, Whats
<1>5. CASE CollectOnly
  BY <1>1, <1>5, SpendCounts DEF CollectOnly, Whats
<1>6. CASE SubmitSkip \/ FetchResults
  BY <1>6 DEF SubmitSkip, FetchResults
<1>7. CASE RewindEnd
  BY <1>7 DEF RewindEnd
<1>8. CASE Crash
  <2>1. spent'["crashes"] = spent["crashes"] + 1
    BY <1>1, <1>8, SpendCounts DEF Crash, Whats
  <2> QED
    BY <1>1, <2>1
<1> QED
  BY <1>2, <1>3, <1>4, <1>5, <1>6, <1>7, <1>8 DEF QuietStep

LEMMA KeptKeeps ==
  ASSUME IInv, [Next]_vars
  PROVE  Kept'
<1>1. job # None /\ job.phase = "done" => \A d \in Doc : ~Owed(d)
  BY DEF IInv, Kept, DoneOwesNothing
<1>2. CASE Launch
  <2>1. UNCHANGED <<manifest, stored, plans, chunker, spent>> /\ pc = "down"
    BY <1>2 DEF Launch
  <2>2. (job # None /\ job' = job) \/ job'.phase = "collecting"
    BY <1>2, LaunchKeeps DEF IInv
  <2> QED
    BY <1>1, <2>1, <2>2, SameDocuments
<1>3. CASE JobSteps
  <2>1. UNCHANGED <<manifest, stored, plans>>
    BY <1>3, JobPhases DEF IInv
  <2>2. CASE Rechunk
    <3>1. pc' = "rewind"
      BY <2>2 DEF Rechunk
    <3>2. job'.phase = "writing"
      BY <1>3, <2>2, JobPhases DEF IInv
    <3> QED
      BY <2>1, <3>1, <3>2, SameDocuments
  <2>3. CASE WriteEnd
    <3>1. UNCHANGED <<chunker, spent>> /\ pc = "write" /\ \A d \in Doc : ~Owed(d)
      BY <2>3 DEF WriteEnd, rest
    <3> QED
      BY <2>1, <3>1, SameDocuments
  <2>4. CASE CollectEnd \/ SubmitEnd \/ PollEnd
    <3>1. UNCHANGED <<chunker, spent>> /\ pc # "rewind"
      BY <2>4 DEF CollectEnd, SubmitEnd, PollEnd, rest
    <3>2. job'.phase # "done"
      BY <1>3, <2>4, JobPhases DEF IInv
    <3> QED
      BY <2>1, <3>1, <3>2, SameDocuments
  <2> QED
    BY <1>3, <2>2, <2>3, <2>4 DEF JobSteps
<1>4. CASE SubmitChunk
  <2>1. UNCHANGED <<manifest, stored, job, plans, chunker, spent>> /\ pc # "rewind"
    BY <1>4 DEF SubmitChunk, durable, rest
  <2> QED
    BY <1>1, <2>1, SameDocuments
<1>5. CASE RecordId
  <2>1. UNCHANGED <<manifest, stored, plans, chunker, spent>> /\ pc # "rewind"
    BY <1>5 DEF RecordId, rest
  <2>2. job'.phase = "submitting"
    BY <1>5, RecordKeeps DEF IInv
  <2> QED
    BY <2>1, <2>2, SameDocuments
<1>6. CASE QuietStep
  <2>1. UNCHANGED <<manifest, stored, job, plans, chunker>>
    BY <1>6, Quiet DEF IInv
  <2> QED
    BY <1>1, <1>6, <2>1, CrashesCount, SameDocuments
<1>7. ASSUME NEW b \in DOMAIN batches, EndBatch(b) PROVE Kept'
  <2>1. UNCHANGED <<manifest, stored, job, plans, chunker, spent, pc>>
    BY <1>7 DEF EndBatch, durable, rest
  <2> QED
    BY <1>1, <2>1, SameDocuments
<1>8. CASE UNCHANGED vars
  <2>1. UNCHANGED <<manifest, stored, job, plans, chunker, spent, pc>>
    BY <1>8 DEF vars, durable, rest
  <2> QED
    BY <1>1, <2>1, SameDocuments
<1>9. ASSUME NEW d \in Doc, PlanStep(d) \/ StoreStep(d) PROVE Kept'
  BY <1>9, HashDocuments, MarkDocuments, StoreDocuments DEF PlanStep
<1> QED
  BY <1>2, <1>3, <1>4, <1>5, <1>6, <1>7, <1>8, <1>9, SuperviseDocuments, StepIs

LEMMA StepKeeps == IInv /\ [Next]_vars => IInv'
<1> SUFFICES ASSUME IInv, [Next]_vars PROVE IInv'
  OBVIOUS
<1>1. ServerOK' /\ DurableOK' /\ Process' /\ Ended' /\ Kept'
  BY ServerKeeps, DurableKeeps, ProcessKeeps, EndedKeeps, KeptKeeps DEF IInv
<1>2. (ServerOK' /\ DurableOK' /\ LocalOK') => TypeOK'
  BY Zenon DEF TypeOK, ServerOK, DurableOK, LocalOK, Jobs, Whats
<1> QED
  BY <1>1, <1>2 DEF IInv, Process

-----------------------------------------------------------------------------
(* The theorems. *)

\* Whatever crashes, edits and restarts the job goes through, its checkpoint is
\* well-formed, a document that the manifest knows is without chunks only while
\* the job owes it its chunks (write_all deletes before it indexes), and a
\* document that was given up keeps what it had: JobInv.
THEOREM JobIsSafe == Spec => []JobInv
<1>1. IInv => JobInv
  <2> SUFFICES ASSUME IInv PROVE JobInv
    OBVIOUS
  <2>1. NotWiped
    BY DEF IInv, Kept, WipedIsOwed, NotWiped
  <2>2. FailedIsKept
    BY DEF IInv, Kept, Untouched, FailedIsKept
  <2> QED
    BY <2>1, <2>2 DEF IInv, JobInv
<1> QED
  BY <1>1, InitEstablishes, StepKeeps, PTL DEF Spec

\* When the job is done, write_all has stored each planned document once, with
\* every figure transcribed for it, and stamped it: DoneIsWritten.
THEOREM DoneStaysWritten == Spec => []DoneIsWritten
<1>1. IInv => DoneIsWritten
  <2> SUFFICES ASSUME IInv, job # None, job.phase = "done",
                      NEW d \in Doc, plans[d] # None, ~plans[d].failed
               PROVE  /\ plans[d].written
                      /\ manifest[d] = plans[d].hash
                      /\ Len(stored[d]) = 1
                      /\ stored[d][1].figures = Figures[d] \cap Transcribed
                      /\ spent.crashes = 0 => stored[d][1].chunker = chunker
    BY DEF DoneIsWritten
  <2>1. plans[d].written
    BY DEF IInv, Kept, DoneOwesNothing, Owed
  <2>2. pc # "rewind"
    BY DEF IInv, PhaseFits, InWriting
  <2> QED
    BY <2>1, <2>2 DEF IInv, Kept, WrittenHolds, Holds
<1> QED
  BY <1>1, InitEstablishes, StepKeeps, PTL DEF Spec
-----------------------------------------------------------------------------
(* The chunks of figures that are submitted. *)

LEMMA SelectedFinite == Selected \in SUBSET Nat /\ IsFiniteSet(Selected)
<1> DEFINE D == {e \in Doc : plans[e] # None /\ ~plans[e].failed}
           F == {Figures[d] : d \in D}
<1>1. IsFiniteSet(D) /\ \A d \in D : Figures[d] \in SUBSET Nat /\ IsFiniteSet(Figures[d])
  BY FS_Subset
<1>2. IsFiniteSet(F)
  <2> DEFINE fig == [d \in D |-> Figures[d]]
  <2>1. fig \in Surjection(D, F)
    BY DEF Surjection
  <2> HIDE DEF F
  <2> QED
    BY <1>1, <2>1, FS_Surjection
<1>3. IsFiniteSet(UNION F)
  BY <1>1, <1>2, FS_UNION
<1>4. UNION F \in SUBSET Nat
  BY <1>1
<1> QED
  BY <1>3, <1>4 DEF Selected

\* Two chunks have no figure in common.
LEMMA ChunksApart ==
  \A i, j \in Int : i # j => Chunk(i) \cap Chunk(j) = {}
BY DEF Chunk

\* When the chunk the submit has come to is empty, all figures are in earlier ones.
LEMMA ChunksCover ==
  ASSUME NEW c \in Nat \ {0}, Chunk(c) = {}, NEW f \in Selected
  PROVE  \E i \in 1 .. c - 1 : f \in Chunk(i)
<1> DEFINE q == Cardinality(Before(Selected, f)) \div Cap
<1>1. Selected \in SUBSET Nat /\ IsFiniteSet(Selected) /\ Cap \in Nat \ {0} /\ c - 1 \in Nat
  BY SelectedFinite
<1>2. \A g \in Selected : Cardinality(Before(Selected, g)) \div Cap # c - 1
  BY DEF Chunk, Before
<1>3. q < c - 1
  BY <1>1, <1>2, NoGap
<1>4. q \in Nat
  <2>1. IsFiniteSet(Before(Selected, f))
    BY <1>1, FS_Subset DEF Before
  <2>2. Cardinality(Before(Selected, f)) \in Nat
    BY <2>1, FS_CardinalityType
  <2> QED
    BY <1>1, <2>2, DivNat
<1>5. q + 1 \in 1 .. c - 1 /\ q = (q + 1) - 1
  BY <1>1, <1>3, <1>4
<1>6. f \in Chunk(q + 1)
  BY <1>5 DEF Chunk, Before
<1> QED
  BY <1>5, <1>6

\* Until the collect is over nothing was sent.
NothingSent ==
  job = None \/ job.phase = "collecting" =>
    batches = << >> /\ (job # None => job.ids = << >>)

\* The submit has come past recorded chunks only.
CursorFits ==
  /\ pc \in {"collect", "hash"} => cursor = 1
  /\ pc \in {"submit", "record"} => cursor \in 1 .. Len(job.ids) + 1
  /\ pc = "record" => cursor = Len(job.ids) + 1

\* The batch that waits for its id to be saved is the chunk at the cursor.
PendingFits ==
  pc = "record" =>
    /\ batches[Len(batches)] = Chunk(cursor)
    /\ Chunk(cursor) # {}
    /\ Len(batches) \notin Recorded

\* The i-th recorded batch is the i-th chunk.
RecordedFits ==
  job # None => \A i \in DOMAIN job.ids : batches[job.ids[i]] = Chunk(i) /\ Chunk(i) # {}

\* Once the submit is over every figure is in a recorded chunk.
AllSent ==
  job # None /\ job.phase \in {"submitted", "writing", "done"} =>
    \A f \in Selected : \E i \in DOMAIN job.ids : f \in Chunk(i)

\* The batches whose ids were never saved, and never will be.
Strays == {b \in DOMAIN batches : b \notin Recorded /\ ~(pc = "record" /\ b = Len(batches))}

StraysWith(f) == {b \in Strays : f \in batches[b]}

\* Each of them was lost to a crash.
FewStrays == \A f \in AllFigures : Cardinality(StraysWith(f)) <= spent["crashes"]

Sent == NothingSent /\ CursorFits /\ PendingFits /\ RecordedFits /\ AllSent /\ FewStrays

SentInv == IInv /\ Sent

\* What the selection is made of does not change any more once the collect is over.
LEMMA SameSelected ==
  ASSUME IInv, [Next]_vars, job # None, job.phase # "collecting"
  PROVE  Selected' = Selected /\ \A i \in Int : Chunk(i)' = Chunk(i)
<1> DEFINE Keeps(d) == (plans'[d] # None /\ ~plans'[d].failed) <=> (plans[d] # None /\ ~plans[d].failed)
<1>1. UNCHANGED plans => \A d \in Doc : Keeps(d)
  OBVIOUS
<1>2. ASSUME NEW e \in Doc, PlanStep(e) PROVE \A d \in Doc : Keeps(d)
  <2>1. ~CollectHash(e)
    BY DEF CollectHash, IInv, PhaseFits
  <2> QED
    BY <1>2, <2>1, PlanSteps DEF IInv
<1>3. Supervise => \A d \in Doc : Keeps(d)
  BY SuperviseSteps DEF IInv
<1>4. ASSUME NEW e \in Doc, StoreStep(e) PROVE UNCHANGED plans
  BY <1>4, StoreSteps DEF IInv
<1>5. Launch \/ JobSteps \/ SubmitChunk \/ RecordId \/ QuietStep => UNCHANGED plans
  BY JobPhases, Quiet DEF IInv, Launch, SubmitChunk, RecordId, durable
<1>6. (\E b \in DOMAIN batches : EndBatch(b)) \/ UNCHANGED vars => UNCHANGED plans
  BY DEF EndBatch, vars, durable
<1>7. \A d \in Doc : Keeps(d)
  BY <1>1, <1>2, <1>3, <1>4, <1>5, <1>6, StepIs
<1>8. Selected' = Selected
  BY <1>7 DEF Selected
<1> QED
  BY <1>8 DEF Chunk

\* The batches, and what the job has recorded of them.
LEMMA BatchFacts ==
  ASSUME IInv
  PROVE  /\ batches \in Seq(SUBSET AllFigures) /\ Len(batches) \in Nat
         /\ DOMAIN batches = 1 .. Len(batches)
         /\ job # None =>
              /\ job.ids \in Seq(DOMAIN batches) /\ Len(job.ids) \in Nat
              /\ DOMAIN job.ids = 1 .. Len(job.ids)
              /\ \A i \in DOMAIN job.ids : i \in Int /\ job.ids[i] \in DOMAIN batches
              /\ Recorded \subseteq DOMAIN batches
         /\ spent["crashes"] \in Nat
         /\ cursor \in Nat
<1>1. ServerOK /\ DurableOK /\ LocalOK
  BY Types DEF IInv
<1>2. batches \in Seq(SUBSET AllFigures) /\ Len(batches) \in Nat /\ DOMAIN batches = 1 .. Len(batches)
  BY <1>1 DEF ServerOK
<1>3. ASSUME job # None
      PROVE  /\ job.ids \in Seq(DOMAIN batches) /\ Len(job.ids) \in Nat
             /\ DOMAIN job.ids = 1 .. Len(job.ids)
             /\ \A i \in DOMAIN job.ids : i \in Int /\ job.ids[i] \in DOMAIN batches
             /\ Recorded \subseteq DOMAIN batches
  <2>1. job \in Jobs /\ job.ids \in Seq(DOMAIN batches)
    BY <1>1, <1>3 DEF DurableOK, Jobs
  <2>2. \A i \in DOMAIN job.ids : job.ids[i] \in DOMAIN batches
    BY <2>1, ElementOfSeq
  <2>3. Len(job.ids) \in Nat /\ DOMAIN job.ids = 1 .. Len(job.ids)
    BY <2>1, LenProperties
  <2> QED
    BY <2>1, <2>2, <2>3, RecordedExist
<1>4. spent["crashes"] \in Nat /\ cursor \in Nat
  BY <1>1 DEF LocalOK, Whats
<1> QED
  BY <1>2, <1>3, <1>4

LEMMA StraysFinite ==
  ASSUME IInv, NEW f
  PROVE  IsFiniteSet(StraysWith(f)) /\ Cardinality(StraysWith(f)) \in Nat
<1>1. IsFiniteSet(DOMAIN batches)
  BY BatchFacts, FS_Interval
<1>2. StraysWith(f) \subseteq DOMAIN batches
  BY DEF StraysWith, Strays
<1> QED
  BY <1>1, <1>2, FS_Subset, FS_CardinalityType

\* A set with at most one element more.
LEMMA OneMore ==
  ASSUME NEW A, NEW B, NEW x, A \subseteq B \cup {x}, IsFiniteSet(B), NEW n \in Nat,
         Cardinality(B) <= n
  PROVE  Cardinality(A) <= n + 1
<1>1. IsFiniteSet(B \cup {x}) /\ Cardinality(B \cup {x}) <= n + 1
  <2>1. Cardinality(B) \in Nat
    BY FS_CardinalityType
  <2>2. /\ IsFiniteSet(B \cup {x})
        /\ Cardinality(B \cup {x}) = Cardinality(B) \/ Cardinality(B \cup {x}) = Cardinality(B) + 1
    BY FS_AddElement, Zenon
  <2> QED
    BY <2>1, <2>2
<1>2. IsFiniteSet(A) /\ Cardinality(A) <= Cardinality(B \cup {x})
  BY <1>1, FS_Subset
<1>3. Cardinality(A) \in Nat /\ Cardinality(B \cup {x}) \in Nat
  BY <1>1, <1>2, FS_CardinalityType
<1> QED
  BY <1>1, <1>2, <1>3

\* A step that neither submits nor records.
LEMMA SentFrame ==
  ASSUME SentInv, [Next]_vars, UNCHANGED <<job, batches>>,
         UNCHANGED <<pc, cursor>> \/ pc' # "record",
         UNCHANGED pc \/ pc # "record" \/ spent'["crashes"] = spent["crashes"] + 1,
         spent'["crashes"] = spent["crashes"] \/ spent'["crashes"] = spent["crashes"] + 1,
         CursorFits'
  PROVE  Sent'
<1>1. NothingSent' /\ Recorded' = Recorded
  BY DEF SentInv, Sent, NothingSent, Recorded
<1>2. job # None /\ job.phase # "collecting" =>
        Selected' = Selected /\ \A i \in Int : Chunk(i)' = Chunk(i)
  BY SameSelected DEF SentInv
<1>3. PendingFits'
  <2> SUFFICES ASSUME pc' = "record"
               PROVE  batches[Len(batches)] = Chunk(cursor)' /\ Chunk(cursor)' # {}
                      /\ Len(batches) \notin Recorded
    BY <1>1 DEF PendingFits
  <2>1. pc = "record" /\ cursor' = cursor /\ cursor \in Int
    BY BatchFacts DEF SentInv
  <2>2. job # None /\ job.phase # "collecting"
    BY <2>1 DEF SentInv, IInv, PhaseFits
  <2>3. Chunk(cursor)' = Chunk(cursor)
    BY <1>2, <2>1, <2>2 DEF Chunk
  <2> QED
    BY <2>1, <2>3 DEF SentInv, Sent, PendingFits
<1>4. RecordedFits'
  <2> SUFFICES ASSUME job # None, NEW i \in DOMAIN job.ids
               PROVE  batches[job.ids[i]] = Chunk(i)' /\ Chunk(i)' # {}
    BY DEF RecordedFits
  <2>1. job.phase # "collecting" /\ i \in Int
    BY BatchFacts DEF SentInv, Sent, NothingSent
  <2> QED
    BY <1>2, <2>1 DEF SentInv, Sent, RecordedFits
<1>5. AllSent'
  <2> SUFFICES ASSUME job # None, job.phase \in {"submitted", "writing", "done"}, NEW f \in Selected'
               PROVE  \E i \in DOMAIN job.ids : f \in Chunk(i)'
    BY DEF AllSent
  <2>1. f \in Selected /\ \A i \in DOMAIN job.ids : Chunk(i)' = Chunk(i)
    BY <1>2, BatchFacts DEF SentInv
  <2> QED
    BY <2>1 DEF SentInv, Sent, AllSent
<1>6. FewStrays'
  <2> SUFFICES ASSUME NEW f \in AllFigures
               PROVE  Cardinality(StraysWith(f)') <= spent'["crashes"]
    BY DEF FewStrays
  <2>1. /\ IsFiniteSet(StraysWith(f)) /\ Cardinality(StraysWith(f)) \in Nat
        /\ Cardinality(StraysWith(f)) <= spent["crashes"] /\ spent["crashes"] \in Nat
    BY StraysFinite, BatchFacts DEF SentInv, Sent, FewStrays
  <2>2. CASE UNCHANGED pc \/ pc # "record"
    <3>1. StraysWith(f)' = StraysWith(f)
      BY <1>1, <2>2 DEF StraysWith, Strays
    <3> QED
      BY <2>1, <3>1
  <2>3. CASE ~UNCHANGED pc /\ pc = "record"
    <3>1. StraysWith(f)' \subseteq StraysWith(f) \cup {Len(batches)}
      BY <1>1, <2>3 DEF StraysWith, Strays
    <3>2. Cardinality(StraysWith(f)') <= spent["crashes"] + 1
      BY <2>1, <3>1, OneMore, Zenon
    <3> QED
      BY <2>3, <3>2
  <2> QED
    BY <2>2, <2>3
<1> QED
  BY <1>1, <1>3, <1>4, <1>5, <1>6 DEF Sent

\* The job goes from one phase to the next.
LEMMA SentJob ==
  ASSUME SentInv, [Next]_vars, JobSteps
  PROVE  Sent'
<1>1. /\ job \in Jobs /\ job # None /\ job' # None /\ job'.ids = job.ids
      /\ UNCHANGED <<plans, batches>>
      /\ job'.phase # "collecting" /\ job.phase \in Phases
  <2>1. batches \in Seq(SUBSET AllFigures) /\ UNCHANGED <<plans, batches>>
        /\ job \in Jobs /\ job' \in Jobs' /\ job'.ids = job.ids /\ job'.phase # "collecting"
    BY JobPhases, BatchFacts DEF SentInv, IInv, JobSteps
  <2> QED
    BY <2>1, JobIsSome DEF Jobs
<1>2. pc # "record" /\ pc' # "record"
  BY DEF JobSteps, CollectEnd, SubmitEnd, PollEnd, WriteEnd, Rechunk
<1>3. Recorded' = Recorded /\ Selected' = Selected /\ \A i \in Int : Chunk(i)' = Chunk(i)
  BY <1>1 DEF Recorded, Selected, Chunk
<1>4. NothingSent' /\ PendingFits'
  BY <1>1, <1>2 DEF NothingSent, PendingFits
<1>5. CursorFits'
  <2>1. CASE CollectEnd
    <3>1. cursor' = 1 /\ pc' = "submit"
      BY <2>1 DEF SentInv, Sent, CursorFits, CollectEnd, local
    <3> QED
      BY <1>1, <3>1, BatchFacts DEF CursorFits, SentInv
  <2>2. CASE SubmitEnd \/ PollEnd \/ WriteEnd \/ Rechunk
    <3>1. pc' \notin {"collect", "hash", "submit", "record"}
      BY <2>2 DEF SubmitEnd, PollEnd, WriteEnd, Rechunk
    <3> QED
      BY <3>1 DEF CursorFits
  <2> QED
    BY <2>1, <2>2 DEF JobSteps
<1>6. RecordedFits'
  <2>1. \A i \in DOMAIN job.ids : Chunk(i)' = Chunk(i)
    BY <1>1, <1>3, BatchFacts DEF SentInv
  <2> QED
    BY <1>1, <2>1 DEF SentInv, Sent, RecordedFits
<1>7. AllSent'
  <2> SUFFICES ASSUME job'.phase \in {"submitted", "writing", "done"}, NEW f \in Selected
               PROVE  \E i \in DOMAIN job.ids : f \in Chunk(i)
    <3>1. \A i \in DOMAIN job.ids : Chunk(i)' = Chunk(i)
      BY <1>1, <1>3, BatchFacts DEF SentInv
    <3> QED
      BY <1>1, <1>3, <3>1 DEF AllSent
  <2>1. CASE job.phase \in {"submitted", "writing", "done"}
    BY <1>1, <2>1 DEF SentInv, Sent, AllSent
  <2>2. CASE job.phase \notin {"submitted", "writing", "done"}
    <3>1. SubmitEnd
      BY <1>1, <2>2, JobPhases DEF JobSteps, SentInv, IInv
    <3>2. Chunk(cursor) = {} /\ cursor \in 1 .. Len(job.ids) + 1
      BY <3>1 DEF SubmitEnd, SentInv, Sent, CursorFits
    <3>3. cursor - 1 <= Len(job.ids) /\ cursor \in Nat \ {0} /\ Len(job.ids) \in Nat
          /\ DOMAIN job.ids = 1 .. Len(job.ids)
      BY <1>1, <3>2, BatchFacts DEF SentInv
    <3>4. PICK i \in 1 .. cursor - 1 : f \in Chunk(i)
      BY <3>2, <3>3, ChunksCover
    <3>5. i \in DOMAIN job.ids
      BY <3>3
    <3> QED
      BY <3>4, <3>5
  <2> QED
    BY <2>1, <2>2
<1>8. FewStrays'
  <2>1. \A f : StraysWith(f)' = StraysWith(f)
    BY <1>1, <1>2, <1>3 DEF StraysWith, Strays
  <2>2. spent'["crashes"] = spent["crashes"]
    <3>1. LocalOK
      BY Types DEF SentInv, IInv
    <3>2. CASE Rechunk
      BY <3>1, <3>2, SpendCounts DEF Rechunk, Whats
    <3>3. CASE CollectEnd \/ SubmitEnd \/ PollEnd \/ WriteEnd
      BY <3>3 DEF CollectEnd, SubmitEnd, PollEnd, WriteEnd
    <3> QED
      BY <3>2, <3>3 DEF JobSteps
  <2> QED
    BY <2>1, <2>2 DEF SentInv, Sent, FewStrays
<1> QED
  BY <1>4, <1>5, <1>6, <1>7, <1>8 DEF Sent

\* The API accepts a chunk.
LEMMA SentChunk ==
  ASSUME SentInv, [Next]_vars, SubmitChunk
  PROVE  Sent'
<1> DEFINE n == Len(batches)
<1>1. /\ UNCHANGED <<job, plans, cursor, spent>> /\ pc = "submit" /\ pc' = "record"
      /\ Chunk(cursor) # {} /\ cursor > Len(job.ids)
      /\ batches' = Append(batches, Chunk(cursor))
  BY DEF SubmitChunk, durable, local
<1>2. job # None /\ job.phase = "submitting"
  BY <1>1 DEF SentInv, IInv, PhaseFits
<1>3. /\ batches \in Seq(SUBSET AllFigures) /\ n \in Nat /\ DOMAIN batches = 1 .. n
      /\ DOMAIN job.ids = 1 .. Len(job.ids) /\ Len(job.ids) \in Nat
      /\ \A i \in DOMAIN job.ids : job.ids[i] \in DOMAIN batches
      /\ Recorded \subseteq DOMAIN batches
  BY <1>2, BatchFacts DEF SentInv
<1>4. /\ Len(batches') = n + 1 /\ DOMAIN batches' = 1 .. n + 1
      /\ \A b \in 1 .. n : batches'[b] = batches[b]
      /\ batches'[n + 1] = Chunk(cursor)
  <2>1. Chunk(cursor) \in SUBSET AllFigures
    BY DEF Chunk, Selected, AllFigures
  <2> QED
    BY <1>1, <1>3, <2>1, AppendProperties
<1>5. Recorded' = Recorded /\ Selected' = Selected /\ \A i : Chunk(i)' = Chunk(i)
  BY <1>1 DEF Recorded, Selected, Chunk
<1>6. cursor = Len(job.ids) + 1
  BY <1>1, <1>3 DEF SentInv, Sent, CursorFits
<1>7. NothingSent' /\ CursorFits' /\ AllSent'
  BY <1>1, <1>2, <1>3, <1>6 DEF NothingSent, CursorFits, AllSent
<1>8. PendingFits'
  <2>1. n + 1 \notin Recorded /\ Chunk(cursor)' = Chunk(cursor)
    BY <1>1, <1>3, <1>5 DEF Chunk
  <2> QED
    BY <1>1, <1>4, <1>5, <2>1 DEF PendingFits
<1>9. RecordedFits'
  BY <1>1, <1>2, <1>3, <1>4, <1>5 DEF SentInv, Sent, RecordedFits
<1>10. FewStrays'
  <2>1. \A f : StraysWith(f)' = StraysWith(f)
    BY <1>1, <1>3, <1>4, <1>5 DEF StraysWith, Strays
  <2> QED
    BY <1>1, <2>1 DEF SentInv, Sent, FewStrays
<1> QED
  BY <1>7, <1>8, <1>9, <1>10 DEF Sent

\* The id of the batch is saved.
LEMMA SentRecord ==
  ASSUME SentInv, [Next]_vars, RecordId
  PROVE  Sent'
<1> DEFINE n == Len(batches)
           m == Len(job.ids)
<1>1. /\ UNCHANGED <<plans, batches, spent>> /\ pc = "record" /\ pc' = "submit"
      /\ job' = [phase |-> "submitting", ids |-> Append(job.ids, n)]
      /\ cursor' = cursor + 1
  BY DEF RecordId, server
<1>2. job # None /\ batches # << >> /\ job' # None /\ job'.phase = "submitting"
  <2>1. job # None /\ batches # << >>
    BY <1>1 DEF SentInv, IInv, PhaseFits
  <2>2. job' \in Jobs' /\ batches' \in Seq(SUBSET AllFigures) /\ job'.phase = "submitting"
    BY <1>1, RecordKeeps, BatchFacts DEF SentInv, IInv
  <2> QED
    BY <2>1, <2>2, JobIsSome DEF Jobs
<1>3. /\ n \in DOMAIN batches /\ m \in Nat
      /\ job.ids \in Seq(DOMAIN batches) /\ DOMAIN job.ids = 1 .. m
  <2>1. /\ batches \in Seq(SUBSET AllFigures) /\ n \in Nat /\ DOMAIN batches = 1 .. n
        /\ job.ids \in Seq(DOMAIN batches) /\ m \in Nat /\ DOMAIN job.ids = 1 .. m
    BY <1>2, BatchFacts DEF SentInv
  <2>2. n # 0
    BY <1>2, <2>1, EmptySeq
  <2> QED
    BY <2>1, <2>2
<1>4. /\ job'.ids = Append(job.ids, n)
      /\ Len(job'.ids) = m + 1 /\ DOMAIN job'.ids = 1 .. m + 1
      /\ \A i \in 1 .. m : job'.ids[i] = job.ids[i]
      /\ job'.ids[m + 1] = n
  BY <1>1, <1>3, AppendProperties
<1>5. Recorded' = Recorded \cup {n} /\ Selected' = Selected /\ \A i : Chunk(i)' = Chunk(i)
  <2>1. Recorded' = Recorded \cup {n}
    <3>1. DOMAIN job'.ids = DOMAIN job.ids \cup {m + 1}
      BY <1>3, <1>4
    <3> QED
      BY <1>3, <1>4, <3>1 DEF Recorded
  <2> QED
    BY <1>1, <2>1 DEF Selected, Chunk
<1>6. cursor = m + 1 /\ batches[n] = Chunk(cursor) /\ Chunk(cursor) # {}
  BY <1>1 DEF SentInv, Sent, CursorFits, PendingFits
<1>7. NothingSent' /\ CursorFits' /\ AllSent' /\ PendingFits'
  BY <1>1, <1>2, <1>3, <1>4, <1>6 DEF NothingSent, CursorFits, AllSent, PendingFits
<1>8. RecordedFits'
  <2> SUFFICES ASSUME NEW i \in 1 .. m + 1
               PROVE  batches[job'.ids[i]] = Chunk(i) /\ Chunk(i) # {}
    BY <1>1, <1>4, <1>5 DEF RecordedFits
  <2>1. CASE i \in 1 .. m
    BY <1>2, <1>3, <1>4, <2>1 DEF SentInv, Sent, RecordedFits
  <2>2. CASE i = m + 1
    BY <1>4, <1>6, <2>2
  <2>3. i \in 1 .. m \/ i = m + 1
    BY <1>3, LastOf
  <2> QED
    BY <2>1, <2>2, <2>3
<1>9. FewStrays'
  <2>1. \A f : StraysWith(f)' = StraysWith(f)
    BY <1>1, <1>5 DEF StraysWith, Strays
  <2> QED
    BY <1>1, <2>1 DEF SentInv, Sent, FewStrays
<1> QED
  BY <1>7, <1>8, <1>9 DEF Sent

\* A process starts, on the job there was or on a new one.
LEMMA SentLaunch ==
  ASSUME SentInv, [Next]_vars, Launch
  PROVE  Sent'
<1>1. /\ UNCHANGED <<plans, batches, spent>> /\ cursor' = 1 /\ pc = "down" /\ pc' # "record"
  <2>1. UNCHANGED <<plans, batches, spent>> /\ cursor' = 1 /\ pc = "down"
    BY DEF Launch, Fresh, server
  <2>2. pc' = Entry(job'.phase) /\ job' \in Jobs'
    BY LaunchKeeps DEF SentInv, IInv
  <2>3. job'.phase \in Phases
    BY <2>2 DEF Jobs
  <2>4. pc' # "record"
    BY <2>2, <2>3 DEF Entry, Phases
  <2> QED
    BY <2>1, <2>4
<1>2. job' \in Jobs' /\ job' # None
  <2>1. job' \in Jobs' /\ batches' \in Seq(SUBSET AllFigures)
    BY <1>1, LaunchKeeps, BatchFacts DEF SentInv, IInv
  <2> QED
    BY <2>1, JobIsSome DEF Jobs
<1>3. CursorFits'
  <2>1. Len(job'.ids) \in Nat
    BY <1>2, LenProperties DEF Jobs
  <2> QED
    BY <1>1, <2>1 DEF CursorFits
<1>4. CASE job # None
  <2>1. job' = job
    BY <1>4, LaunchKeeps DEF SentInv, IInv
  <2> QED
    BY <1>1, <1>3, <2>1, SentFrame
<1>5. CASE job = None
  <2>1. job'.phase = "collecting" /\ job'.ids = << >> /\ batches = << >>
    BY <1>5, LaunchKeeps DEF SentInv, IInv, Sent, NothingSent
  <2>2. NothingSent' /\ PendingFits' /\ AllSent'
    BY <1>1, <2>1 DEF NothingSent, PendingFits, AllSent
  <2>3. RecordedFits'
    BY <2>1 DEF RecordedFits
  <2>4. FewStrays'
    <3>1. \A f : StraysWith(f)' = {} /\ Cardinality({}) = 0
      BY <1>1, <2>1, FS_EmptySet DEF StraysWith, Strays
    <3>2. spent["crashes"] \in Nat /\ spent'["crashes"] = spent["crashes"]
      BY <1>1, BatchFacts DEF SentInv
    <3>3. \A f : Cardinality(StraysWith(f)') <= spent'["crashes"]
      BY <3>1, <3>2
    <3> QED
      BY <3>3 DEF FewStrays
  <2> QED
    BY <1>3, <2>2, <2>3, <2>4 DEF Sent
<1> QED
  BY <1>4, <1>5

\* The other steps leave the job and its batches alone.
LEMMA SentQuiet ==
  ASSUME SentInv, [Next]_vars, QuietStep
  PROVE  Sent'
<1>1. UNCHANGED <<job, batches>>
  BY Quiet DEF SentInv, IInv, server
<1>2. LocalOK /\ spent["crashes"] \in Nat /\ cursor \in Nat
      /\ (job # None => Len(job.ids) \in Nat)
  BY Types, BatchFacts DEF SentInv, IInv
<1>3. ASSUME NEW d \in Doc, CollectSkip(d) \/ CollectParse(d) \/ ParserDies(d) PROVE Sent'
  <2>1. UNCHANGED <<cursor, spent>> /\ pc = "collect" /\ pc' \in {"collect", "hash", "dead"}
    BY <1>3 DEF CollectSkip, CollectParse, ParserDies, CollectNext
  <2>2. CursorFits'
    BY <1>1, <2>1 DEF CursorFits, SentInv, Sent
  <2> QED
    BY <1>1, <2>1, <2>2, SentFrame
<1>4. ASSUME NEW d \in Doc, CollectRaise(d) PROVE Sent'
  <2>1. UNCHANGED cursor /\ pc = "hash" /\ pc' = "collect" /\ spent'["crashes"] = spent["crashes"]
    BY <1>2, <1>4, SpendCounts DEF CollectRaise, Whats
  <2>2. CursorFits'
    BY <1>1, <2>1 DEF CursorFits, SentInv, Sent
  <2> QED
    BY <1>1, <2>1, <2>2, SentFrame
<1>5. ASSUME NEW d \in Doc, EditDocument(d) PROVE Sent'
  <2>1. UNCHANGED <<cursor, pc>> /\ spent'["crashes"] = spent["crashes"]
    BY <1>2, <1>5, SpendCounts DEF EditDocument, Whats, local
  <2>2. CursorFits'
    BY <1>1, <2>1 DEF CursorFits, SentInv, Sent
  <2> QED
    BY <1>1, <2>1, <2>2, SentFrame
<1>6. CASE CollectOnly
  <2>1. pc = "submit" /\ pc' = "down" /\ spent'["crashes"] = spent["crashes"]
    BY <1>2, <1>6, SpendCounts DEF CollectOnly, Whats
  <2>2. CursorFits'
    BY <2>1 DEF CursorFits
  <2> QED
    BY <1>1, <2>1, <2>2, SentFrame
<1>7. CASE SubmitSkip
  <2>1. /\ pc = "submit" /\ UNCHANGED <<pc, spent>> /\ cursor <= Len(job.ids)
        /\ cursor' = cursor + 1
    BY <1>7 DEF SubmitSkip
  <2>2. job # None
    BY <2>1 DEF SentInv, IInv, PhaseFits
  <2>3. CursorFits'
    BY <1>1, <1>2, <2>1, <2>2 DEF CursorFits
  <2> QED
    BY <1>1, <2>1, <2>3, SentFrame
<1>8. CASE FetchResults \/ RewindEnd
  <2>1. pc \in {"fetch", "rewind"} /\ pc' \in {"write", "fetch"} /\ UNCHANGED spent
    BY <1>8 DEF FetchResults, RewindEnd
  <2>2. CursorFits'
    BY <2>1 DEF CursorFits
  <2> QED
    BY <1>1, <2>1, <2>2, SentFrame
<1>9. CASE Crash
  <2>1. pc' = "dead" /\ spent'["crashes"] = spent["crashes"] + 1
    BY <1>2, <1>9, SpendCounts DEF Crash, Whats
  <2>2. CursorFits'
    BY <2>1 DEF CursorFits
  <2> QED
    BY <1>1, <2>1, <2>2, SentFrame
<1> QED
  BY <1>3, <1>4, <1>5, <1>6, <1>7, <1>8, <1>9 DEF QuietStep

LEMMA SentKeeps ==
  ASSUME SentInv, [Next]_vars
  PROVE  Sent'
<1>1. CASE Supervise
  <2>1. UNCHANGED <<job, batches, spent>> /\ pc = "dead" /\ pc' = "down"
    BY <1>1, SuperviseSteps DEF SentInv, IInv, server, Supervise
  <2>2. CursorFits'
    BY <2>1 DEF CursorFits
  <2> QED
    BY <2>1, <2>2, SentFrame
<1>2. ASSUME NEW d \in Doc, PlanStep(d) PROVE Sent'
  <2>1. UNCHANGED <<job, batches>>
    BY <1>2, PlanSteps DEF SentInv, IInv, server
  <2>2. UNCHANGED <<cursor, spent>>
    BY <1>2 DEF PlanStep, CollectHash, WriteMark, RewindPlan, local
  <2>3. /\ pc \in {"hash", "mark", "rewind"}
        /\ pc' = IF pc = "hash" THEN "collect" ELSE IF pc = "mark" THEN "write" ELSE "rewind"
    BY <1>2 DEF PlanStep, CollectHash, WriteMark, RewindPlan
  <2>4. CursorFits'
    BY <2>2, <2>3 DEF CursorFits, SentInv, Sent
  <2> QED
    BY <2>1, <2>2, <2>3, <2>4, SentFrame
<1>3. ASSUME NEW d \in Doc, StoreStep(d) PROVE Sent'
  <2>1. UNCHANGED <<job, batches, spent>>
    BY <1>3, StoreSteps DEF SentInv, IInv, server
  <2>2. pc \in {"write", "index", "stamp"} /\ pc' \in {"index", "stamp", "mark"}
    BY <1>3 DEF StoreStep, WriteDelete, WriteIndex, WriteStamp
  <2>3. CursorFits'
    BY <2>2 DEF CursorFits
  <2> QED
    BY <2>1, <2>2, <2>3, SentFrame
<1>4. ASSUME NEW b \in DOMAIN batches, EndBatch(b) PROVE Sent'
  <2>1. UNCHANGED <<job, batches, pc, cursor, spent>>
    BY <1>4 DEF EndBatch, durable, local
  <2>2. CursorFits'
    BY <2>1 DEF CursorFits, SentInv, Sent
  <2> QED
    BY <2>1, <2>2, SentFrame
<1>5. CASE UNCHANGED vars
  <2>1. UNCHANGED <<job, batches, pc, cursor, spent>>
    BY <1>5 DEF vars, durable, server, local
  <2>2. CursorFits'
    BY <2>1 DEF CursorFits, SentInv, Sent
  <2> QED
    BY <2>1, <2>2, SentFrame
<1> QED
  BY <1>1, <1>2, <1>3, <1>4, <1>5, SentLaunch, SentJob, SentChunk, SentRecord, SentQuiet, StepIs

LEMMA SentStarts == Init => SentInv
<1> SUFFICES ASSUME Init PROVE Sent
  BY InitEstablishes DEF SentInv
<1>1. job = None /\ batches = << >> /\ pc = "down" /\ spent["crashes"] = 0
  BY DEF Init
<1>2. \A f : Cardinality(StraysWith(f)) = 0
  <2>1. \A f : StraysWith(f) = {}
    BY <1>1 DEF StraysWith, Strays
  <2> QED
    BY <2>1, FS_EmptySet
<1>3. FewStrays
  BY <1>1, <1>2 DEF FewStrays
<1> QED
  BY <1>1, <1>3 DEF Sent, NothingSent, CursorFits, PendingFits, RecordedFits, AllSent

LEMMA SentInvCorrect == Spec => []SentInv
<1>1. SentInv /\ [Next]_vars => SentInv'
  BY SentKeeps, StepKeeps DEF SentInv
<1> QED
  BY <1>1, SentStarts, PTL DEF Spec

\* submit_batch pays for each figure once, and at most once more for each crash,
\* which can only lose the id of a batch just accepted; and once the submit is over
\* the recorded batches hold every figure of the plans, each exactly once:
\* SubmittedOnce, for any documents, any batch capacity and any number of crashes.
THEOREM FiguresSubmittedOnce == Spec => []SubmittedOnce
<1>1. SentInv => SubmittedOnce
  <2> SUFFICES ASSUME SentInv PROVE SubmittedOnce
    OBVIOUS
  <2>1. ASSUME NEW f \in AllFigures
        PROVE  Cardinality({b \in DOMAIN batches : f \in batches[b]}) <= 1 + spent["crashes"]
    <3> DEFINE With == {b \in DOMAIN batches : f \in batches[b]}
               Live == With \ StraysWith(f)
    <3>1. /\ IsFiniteSet(StraysWith(f))
          /\ Cardinality(StraysWith(f)) <= spent["crashes"] /\ spent["crashes"] \in Nat
      BY StraysFinite, BatchFacts DEF SentInv, Sent, FewStrays
    <3>2. \A b \in Live :
            \/ job # None /\ \E i \in DOMAIN job.ids : b = job.ids[i] /\ f \in Chunk(i)
            \/ pc = "record" /\ b = Len(batches) /\ f \in Chunk(Len(job.ids) + 1)
      <4> SUFFICES ASSUME NEW b \in Live
                   PROVE  \/ job # None /\ \E i \in DOMAIN job.ids : b = job.ids[i] /\ f \in Chunk(i)
                          \/ pc = "record" /\ b = Len(batches) /\ f \in Chunk(Len(job.ids) + 1)
        OBVIOUS
      <4>1. b \in DOMAIN batches /\ f \in batches[b]
        OBVIOUS
      <4>2. b \in Recorded \/ (pc = "record" /\ b = Len(batches))
        BY DEF StraysWith, Strays
      <4>3. job # None
        BY <4>1 DEF SentInv, Sent, NothingSent
      <4> QED
        BY <4>1, <4>2, <4>3 DEF Recorded, SentInv, Sent, RecordedFits, PendingFits, CursorFits
    <3>3. \A b, c \in Live : b = c
      <4>1. job # None => DOMAIN job.ids = 1 .. Len(job.ids) /\ Len(job.ids) \in Nat
        BY BatchFacts DEF SentInv
      <4>2. pc = "record" => job # None
        BY DEF SentInv, IInv, PhaseFits
      <4> HIDE DEF Live
      <4> QED
        BY <3>2, <4>1, <4>2, ChunksApart
    <3>4. \E x : With \subseteq StraysWith(f) \cup {x}
      BY <3>3
    <3>5. Cardinality(With) <= spent["crashes"] + 1
      BY <3>1, <3>4, OneMore
    <3> QED
      BY <3>1, <3>5
  <2>2. ASSUME job # None, NEW i \in DOMAIN job.ids, NEW j \in DOMAIN job.ids, i # j
        PROVE  batches[job.ids[i]] \cap batches[job.ids[j]] = {}
    <3>1. i \in Int /\ j \in Int
      BY <2>2, BatchFacts DEF SentInv
    <3>2. batches[job.ids[i]] = Chunk(i) /\ batches[job.ids[j]] = Chunk(j)
      BY <2>2 DEF SentInv, Sent, RecordedFits
    <3> QED
      BY <2>2, <3>1, <3>2, ChunksApart
  <2>3. ASSUME job # None, job.phase \in {"submitted", "writing", "done"}
        PROVE  UNION {batches[b] : b \in Recorded} = Selected
    <3>1. \A i \in DOMAIN job.ids : batches[job.ids[i]] = Chunk(i)
      BY <2>3 DEF SentInv, Sent, RecordedFits
    <3>2. \A i : Chunk(i) \subseteq Selected
      BY DEF Chunk
    <3>3. \A f \in Selected : \E i \in DOMAIN job.ids : f \in Chunk(i)
      BY <2>3 DEF SentInv, Sent, AllSent
    <3> QED
      BY <3>1, <3>2, <3>3 DEF Recorded
  <2> QED
    BY <2>1, <2>2, <2>3 DEF SubmittedOnce
<1> QED
  BY <1>1, SentInvCorrect, PTL
=============================================================================
