------------------------------ MODULE ChatProofs ------------------------------
(***************************************************************************)
(* Proofs about the conversations: what was told is known, contexts are of *)
(* the past, and a conversation that was closed stays empty.               *)
(***************************************************************************)
EXTENDS Chat, SubsequenceProofs

Turn == [question : Question, seen : BoundedSeq(Question, HistoryLimit), committed : BOOLEAN]

\* The question has a turn that a reader can see.
HasCommitted(ts, q) == \E i \in DOMAIN ts : ts[i].question = q /\ ts[i].committed

\* No question has two turns.
Single(ts) == \A i, j \in DOMAIN ts : ts[i].question = ts[j].question => i = j

\* The context seen of a turn at position n: it is gone as a whole, or its turns are
\* committed ones before n, in its order, and without a gap if that is asked for.
Present(ts, seen, n) ==
  \A j \in DOMAIN seen : \E p \in DOMAIN ts :
    p < n /\ ts[p].question = seen[j] /\ ts[p].committed

InOrder(ts, gapless, seen) ==
  \A j, k \in DOMAIN seen : \A p, q \in DOMAIN ts :
    j < k /\ ts[p].question = seen[j] /\ ts[q].question = seen[k] =>
      p < q /\ (gapless /\ k = j + 1 => q = p + 1)

Past(ts, gone, gapless, seen, n) ==
  \/ \A j \in DOMAIN seen : seen[j] \in gone
  \/ Present(ts, seen, n) /\ InOrder(ts, gapless, seen)

\* The question is older than the whole context.
Older(ts, q, seen) ==
  /\ HasCommitted(ts, q)
  /\ \A a, b \in DOMAIN ts :
       ts[a].question = q /\ ts[b].question \in ToSet(seen) => a < b

-----------------------------------------------------------------------------
(* Sequences of turns *)

LEMMA TurnFields ==
  ASSUME NEW ts \in Seq(Turn), NEW i \in DOMAIN ts
  PROVE  /\ i \in 1 .. Len(ts) /\ i \in Nat /\ Len(ts) \in Nat
         /\ ts[i] \in Turn /\ ts[i].question \in Question /\ ts[i].committed \in BOOLEAN
         /\ ts[i].seen \in BoundedSeq(Question, HistoryLimit)
<1>1. i \in 1 .. Len(ts) /\ ts[i] \in Turn /\ Len(ts) \in Nat
  OBVIOUS
<1> QED
  BY <1>1 DEF Turn

LEMMA EmptyBounded == <<>> \in BoundedSeq(Question, HistoryLimit)
<1>1. <<>> \in [1 .. 0 -> Question]
  OBVIOUS
<1>2. 0 \in 0 .. HistoryLimit
  BY ChatAssumption
<1> QED
  BY <1>1, <1>2 DEF BoundedSeq, SeqOf

\* A window is the end of the sequence.
LEMMA WindowIsEnd ==
  ASSUME NEW S, NEW s \in Seq(S)
  PROVE  \E d \in Nat :
           /\ Len(Window(s)) = Len(s) - d /\ d <= Len(s)
           /\ Window(s) \in Seq(S) /\ DOMAIN Window(s) = 1 .. Len(s) - d
           /\ \A j \in 1 .. Len(s) - d : Window(s)[j] = s[d + j]
           /\ d # 0 => Len(s) - d = HistoryLimit
           /\ Len(s) - d <= HistoryLimit
<1>1. Len(s) \in Nat /\ HistoryLimit \in Nat /\ HistoryLimit # 0
  BY ChatAssumption
<1> DEFINE d == IF Len(s) > HistoryLimit THEN Len(s) - HistoryLimit ELSE 0
           n == Len(s)
           w == SubSeq(s, d + 1, n)
<1>2. d \in Nat /\ d <= n /\ n - d <= HistoryLimit /\ (d # 0 => n - d = HistoryLimit)
  BY <1>1
<1>3. Window(s) = w
  <2>1. d + 1 = IF Len(s) > HistoryLimit THEN Len(s) - HistoryLimit + 1 ELSE 1
    BY <1>1
  <2> QED
    BY <2>1 DEF Window
<1> HIDE DEF d
<1>4. \A i \in d + 1 .. n : s[i] \in S
  BY <1>1, <1>2
<1>5. /\ w \in Seq(S)
      /\ Len(w) = IF d + 1 <= n THEN n - (d + 1) + 1 ELSE 0
      /\ \A j \in 1 .. n - (d + 1) + 1 : w[j] = s[d + 1 + j - 1]
  <2>1. d + 1 \in Int /\ n \in Int
    BY <1>1, <1>2
  <2> QED
    BY <1>4, <2>1, SubSeqProperties
<1>6. Len(w) = n - d
  BY <1>1, <1>2, <1>5
<1>7. ASSUME NEW j \in 1 .. n - d PROVE w[j] = s[d + j]
  <2>1. j \in 1 .. n - (d + 1) + 1 /\ d + 1 + j - 1 = d + j
    BY <1>1, <1>2
  <2> QED
    BY <1>5, <2>1
<1>8. DOMAIN w = 1 .. n - d
  <2> HIDE DEF w
  <2> QED
    BY <1>5, <1>6
<1> HIDE DEF w
<1> QED
  BY <1>2, <1>3, <1>5, <1>6, <1>7, <1>8

LEMMA WindowBounded ==
  ASSUME NEW s \in Seq(Question)
  PROVE  Window(s) \in BoundedSeq(Question, HistoryLimit)
<1>1. PICK d \in Nat :
        /\ Len(Window(s)) = Len(s) - d /\ d <= Len(s)
        /\ Window(s) \in Seq(Question)
        /\ Len(s) - d <= HistoryLimit
  BY WindowIsEnd
<1> DEFINE w == Window(s)
           m == Len(w)
<1>2. m \in 0 .. HistoryLimit
  BY <1>1, ChatAssumption
<1>3. w \in [1 .. m -> Question]
  BY <1>1, LenProperties
<1> HIDE DEF w, m
<1>4. w \in UNION {[1 .. k -> Question] : k \in 0 .. HistoryLimit}
  BY <1>2, <1>3
<1> QED
  BY <1>4 DEF BoundedSeq, SeqOf, w

LEMMA CommittedTurns ==
  ASSUME NEW ts \in Seq(Turn)
  PROVE  /\ Committed(ts) \in Seq(Turn)
         /\ Questions(Committed(ts)) \in Seq(Question)
         /\ ToSet(Questions(Committed(ts)))
              = {ts[k].question : k \in {i \in DOMAIN ts : ts[i].committed}}
<1> DEFINE K == {i \in DOMAIN ts : ts[i].committed}
           p == Committed(ts)
<1>1. K \in SUBSET DOMAIN ts /\ p = Picked(ts, K)
  BY DEF Committed
<1>2. p \in Seq(Turn) /\ {p[i] : i \in DOMAIN p} = {ts[k] : k \in K}
  <2> HIDE DEF p, K
  <2>1. p \in Seq(Turn)
    BY <1>1, PickedIsSeq
  <2>2. {p[i] : i \in DOMAIN p} = {ts[k] : k \in K}
    BY <1>1, PickedRange
  <2> QED
    BY <2>1, <2>2
<1> HIDE DEF p, K
<1>3. DOMAIN p = 1 .. Len(p) /\ Len(p) \in Nat /\ \A i \in DOMAIN p : p[i].question \in Question
  BY <1>2, TurnFields
<1>4. Questions(p) \in Seq(Question)
  BY <1>3 DEF Questions
<1>5. ToSet(Questions(p)) = {ts[k].question : k \in K}
  <2>1. ToSet(Questions(p)) = {p[i].question : i \in DOMAIN p}
    BY DEF ToSet, Questions
  <2>2. ASSUME NEW i \in DOMAIN p PROVE \E k \in K : p[i] = ts[k]
    BY <1>2
  <2>3. ASSUME NEW k \in K PROVE \E i \in DOMAIN p : p[i] = ts[k]
    BY <1>2
  <2> QED
    BY <2>1, <2>2, <2>3
<1> QED
  BY <1>2, <1>4, <1>5, Zenon DEF p, K

\* What is loaded as the context of a question: of the past, and no committed question
\* is missing from it but for older ones.
LEMMA LoadedIsPast ==
  ASSUME NEW ts \in Seq(Turn), Single(ts), NEW gone, NEW gapless \in BOOLEAN,
         gapless => \A i \in DOMAIN ts : ts[i].committed
  PROVE  Past(ts, gone, gapless, Window(Questions(Committed(ts))), Len(ts) + 1)
<1> DEFINE K == {i \in DOMAIN ts : ts[i].committed}
           n == Cardinality(K)
           w == Window(Questions(Committed(ts)))
<1>1. /\ K \in SUBSET DOMAIN ts /\ IsFiniteSet(K) /\ K \in SUBSET Nat /\ n \in Nat
      /\ DOMAIN Committed(ts) = 1 .. n
      /\ \A i \in 1 .. n : Ith(K, i) \in K /\ Committed(ts)[i] = ts[Ith(K, i)]
  BY PickedIsSeq DEF Committed
<1>2. Questions(Committed(ts)) \in Seq(Question) /\ Len(Questions(Committed(ts))) = n
  <2>1. Questions(Committed(ts)) \in Seq(Question)
    BY CommittedTurns
  <2>2. DOMAIN Questions(Committed(ts)) = 1 .. n
    BY <1>1 DEF Questions
  <2> QED
    BY <1>1, <2>1, <2>2, LenProperties
<1>3. \A i \in 1 .. n : Questions(Committed(ts))[i] = ts[Ith(K, i)].question
  BY <1>1 DEF Questions
<1>4. PICK d \in Nat :
        /\ d <= n /\ DOMAIN w = 1 .. n - d
        /\ \A j \in 1 .. n - d : w[j] = Questions(Committed(ts))[d + j]
  <2> DEFINE z == Questions(Committed(ts))
  <2>1. z \in Seq(Question) /\ Len(z) = n
    BY <1>2
  <2> HIDE DEF z, n
  <2>2. \E d \in Nat :
          /\ d <= Len(z) /\ DOMAIN Window(z) = 1 .. Len(z) - d
          /\ \A j \in 1 .. Len(z) - d : Window(z)[j] = z[d + j]
    <3>1. \E d \in Nat :
            /\ Len(Window(z)) = Len(z) - d /\ d <= Len(z)
            /\ Window(z) \in Seq(Question) /\ DOMAIN Window(z) = 1 .. Len(z) - d
            /\ \A j \in 1 .. Len(z) - d : Window(z)[j] = z[d + j]
            /\ d # 0 => Len(z) - d = HistoryLimit
            /\ Len(z) - d <= HistoryLimit
      BY <2>1, WindowIsEnd, Zenon
    <3> QED
      BY <3>1, Zenon
  <2> QED
    BY <2>1, <2>2 DEF z
<1> HIDE DEF w
<1>5. ASSUME NEW j \in DOMAIN w
      PROVE  /\ d + j \in 1 .. n /\ Ith(K, d + j) \in K
             /\ w[j] = ts[Ith(K, d + j)].question
  BY <1>1, <1>3, <1>4
<1>6. ASSUME NEW j \in DOMAIN w
      PROVE  \E p \in DOMAIN ts : p < Len(ts) + 1 /\ ts[p].question = w[j] /\ ts[p].committed
  <2>1. Ith(K, d + j) \in DOMAIN ts /\ ts[Ith(K, d + j)].committed
    BY <1>5
  <2>2. Ith(K, d + j) < Len(ts) + 1
    BY <2>1, TurnFields
  <2> QED
    BY <1>5, <2>1, <2>2
<1>7. ASSUME NEW j \in DOMAIN w, NEW k \in DOMAIN w, NEW p \in DOMAIN ts, NEW q \in DOMAIN ts,
             j < k, ts[p].question = w[j], ts[q].question = w[k]
      PROVE  p < q /\ (gapless /\ k = j + 1 => q = p + 1)
  <2>1. Ith(K, d + j) \in DOMAIN ts /\ Ith(K, d + k) \in DOMAIN ts
    BY <1>1, <1>5
  <2>2. p = Ith(K, d + j) /\ q = Ith(K, d + k)
    BY <1>5, <1>7, <2>1 DEF Single
  <2>3. j \in Nat /\ k \in Nat
    BY <1>1, <1>4
  <2>4. d + j < d + k /\ d + j \in 1 .. n /\ d + k \in 1 .. n
    BY <1>5, <1>7, <2>3
  <2>5. Ith(K, d + j) < Ith(K, d + k)
    <3> HIDE DEF K
    <3> QED
      BY <1>1, <2>4, IthGrows
  <2>6. ASSUME gapless, k = j + 1 PROVE q = p + 1
    <3>1. K = 1 .. Len(ts) /\ Len(ts) \in Nat
      BY <2>6
    <3>2. \A i \in 1 .. Len(ts) : Ith(1 .. Len(ts), i) = i
      BY <3>1, IthOfInterval
    <3>3. n = Len(ts)
      BY <3>1, CardinalityOfInterval
    <3> HIDE DEF K, n
    <3>4. Ith(K, d + j) = d + j /\ Ith(K, d + k) = d + k
      BY <2>4, <3>1, <3>2, <3>3
    <3> QED
      BY <2>2, <2>3, <2>6, <3>4
  <2> QED
    BY <2>2, <2>5, <2>6
<1> QED
  BY <1>6, <1>7 DEF Past, Present, InOrder, w

LEMMA LoadedIsNewest ==
  ASSUME NEW ts \in Seq(Turn), Single(ts), NEW q, HasCommitted(ts, q)
  PROVE  LET w == Window(Questions(Committed(ts))) IN
         q \in ToSet(w) \/ (Len(w) = HistoryLimit /\ Older(ts, q, w))
<1> DEFINE K == {i \in DOMAIN ts : ts[i].committed}
           n == Cardinality(K)
           w == Window(Questions(Committed(ts)))
<1>1. /\ K \in SUBSET DOMAIN ts /\ IsFiniteSet(K) /\ K \in SUBSET Nat /\ n \in Nat
      /\ DOMAIN Committed(ts) = 1 .. n
      /\ \A i \in 1 .. n : Ith(K, i) \in K /\ Committed(ts)[i] = ts[Ith(K, i)]
  BY PickedIsSeq DEF Committed
<1>2. Questions(Committed(ts)) \in Seq(Question) /\ Len(Questions(Committed(ts))) = n
  <2>1. Questions(Committed(ts)) \in Seq(Question)
    BY CommittedTurns
  <2>2. DOMAIN Questions(Committed(ts)) = 1 .. n
    BY <1>1 DEF Questions
  <2> QED
    BY <1>1, <2>1, <2>2, LenProperties
<1>3. \A i \in 1 .. n : Questions(Committed(ts))[i] = ts[Ith(K, i)].question
  BY <1>1 DEF Questions
<1>4. PICK d \in Nat :
        /\ d <= n /\ DOMAIN w = 1 .. n - d /\ Len(w) = n - d
        /\ \A j \in 1 .. n - d : w[j] = Questions(Committed(ts))[d + j]
        /\ d # 0 => n - d = HistoryLimit
  <2> DEFINE z == Questions(Committed(ts))
  <2>1. z \in Seq(Question) /\ Len(z) = n
    BY <1>2
  <2> HIDE DEF z, n
  <2>2. \E d \in Nat :
          /\ d <= Len(z) /\ DOMAIN Window(z) = 1 .. Len(z) - d /\ Len(Window(z)) = Len(z) - d
          /\ \A j \in 1 .. Len(z) - d : Window(z)[j] = z[d + j]
          /\ d # 0 => Len(z) - d = HistoryLimit
    BY <2>1, WindowIsEnd
  <2> QED
    BY <2>1, <2>2 DEF z
<1>5. PICK p \in K : ts[p].question = q
  BY DEF HasCommitted
<1> HIDE DEF w, K
<1> DEFINE i == Rank(K, p)
<1>6. i \in 1 .. n /\ Ith(K, i) = p
  BY <1>1, RankOf, IthRank
<1> HIDE DEF i
<1>7. CASE i > d
  <2>1. i - d \in 1 .. n - d /\ d + (i - d) = i
    BY <1>1, <1>6, <1>7
  <2>2. w[i - d] = q
    BY <1>3, <1>4, <1>5, <1>6, <2>1
  <2> QED
    BY <1>4, <2>1, <2>2 DEF ToSet, w
<1>8. CASE ~ (i > d)
  <2>1. d # 0 /\ i <= d
    BY <1>1, <1>6, <1>8
  <2>2. ASSUME NEW a \in DOMAIN ts, NEW b \in DOMAIN ts, NEW j \in DOMAIN w,
               ts[a].question = q, ts[b].question = w[j]
        PROVE  a < b
    <3>1. d + j \in 1 .. n /\ i < d + j
      BY <1>1, <1>4, <1>6, <2>1
    <3>2. w[j] = ts[Ith(K, d + j)].question /\ Ith(K, d + j) \in DOMAIN ts /\ p \in DOMAIN ts
      BY <1>1, <1>3, <1>4, <3>1
    <3>3. b = Ith(K, d + j) /\ a = p
      BY <1>5, <2>2, <3>2 DEF Single
    <3>4. Ith(K, i) < Ith(K, d + j)
      BY <1>1, <1>6, <3>1, IthGrows
    <3> QED
      BY <1>6, <3>3, <3>4
  <2>3. Older(ts, q, w)
    BY <2>2 DEF Older, ToSet
  <2> QED
    BY <1>4, <2>1, <2>3 DEF w
<1> QED
  BY <1>7, <1>8

-----------------------------------------------------------------------------
(* What the steps do to sequences of turns *)

\* What is gone stays gone.
LEMMA PastGoneGrows ==
  ASSUME NEW ts, NEW gone, NEW more, gone \subseteq more, NEW gapless \in BOOLEAN, NEW seen, NEW n,
         Past(ts, gone, gapless, seen, n)
  PROVE  Past(ts, more, gapless, seen, n)
BY DEF Past

\* The committed turns are removed.
LEMMA PastAllGone ==
  ASSUME NEW ts, NEW gone, NEW more, gone \subseteq more, NEW gapless \in BOOLEAN, NEW seen, NEW n,
         Past(ts, gone, gapless, seen, n),
         \A i \in DOMAIN ts : ts[i].committed => ts[i].question \in more,
         NEW us, NEW m
  PROVE  Past(us, more, gapless, seen, m)
<1>1. CASE \A j \in DOMAIN seen : seen[j] \in gone
  BY <1>1 DEF Past
<1>2. CASE Present(ts, seen, n)
  <2>1. \A j \in DOMAIN seen : seen[j] \in more
    BY <1>2 DEF Present
  <2> QED
    BY <2>1 DEF Past
<1> QED
  BY <1>1, <1>2 DEF Past

\* A turn is appended.
LEMMA Appended ==
  ASSUME NEW ts \in Seq(Turn), NEW x \in Turn
  PROVE  LET us == Append(ts, x) IN
         /\ us \in Seq(Turn) /\ Len(us) = Len(ts) + 1 /\ DOMAIN us = 1 .. Len(ts) + 1
         /\ \A i \in DOMAIN ts : i \in DOMAIN us /\ us[i] = ts[i]
         /\ us[Len(ts) + 1] = x
         /\ \A i \in DOMAIN us : i \in DOMAIN ts \/ i = Len(ts) + 1
         /\ Len(ts) \in Nat
<1> DEFINE us == Append(ts, x)
<1>1. us \in Seq(Turn) /\ Len(us) = Len(ts) + 1
      /\ (\A i \in 1 .. Len(ts) : us[i] = ts[i]) /\ us[Len(ts) + 1] = x
  BY AppendProperties
<1>2. DOMAIN ts = 1 .. Len(ts) /\ Len(ts) \in Nat
  OBVIOUS
<1> HIDE DEF us
<1>3. DOMAIN us = 1 .. Len(us)
  BY <1>1, LenProperties
<1> QED
  BY <1>1, <1>2, <1>3 DEF us

LEMMA PastAppended ==
  ASSUME NEW ts \in Seq(Turn), NEW x \in Turn, NEW gone, NEW gapless \in BOOLEAN, NEW seen, NEW n,
         Past(ts, gone, gapless, seen, n), \A j \in DOMAIN seen : seen[j] # x.question
  PROVE  Past(Append(ts, x), gone, gapless, seen, n)
<1> DEFINE us == Append(ts, x)
<1>1. /\ \A i \in DOMAIN ts : i \in DOMAIN us /\ us[i] = ts[i]
      /\ us[Len(ts) + 1] = x
      /\ \A i \in DOMAIN us : i \in DOMAIN ts \/ i = Len(ts) + 1
  BY Appended
<1> HIDE DEF us
<1>2. CASE \A j \in DOMAIN seen : seen[j] \in gone
  BY <1>2 DEF Past, us
<1>3. CASE ~ \A j \in DOMAIN seen : seen[j] \in gone
  <2>1. \A j \in DOMAIN seen : \E p \in DOMAIN us :
           p < n /\ us[p].question = seen[j] /\ us[p].committed
    BY <1>1, <1>3 DEF Past, Present
  <2>2. ASSUME NEW j \in DOMAIN seen, NEW k \in DOMAIN seen,
               NEW p \in DOMAIN us, NEW q \in DOMAIN us,
               j < k, us[p].question = seen[j], us[q].question = seen[k]
        PROVE  p < q /\ (gapless /\ k = j + 1 => q = p + 1)
    <3>1. p \in DOMAIN ts /\ q \in DOMAIN ts /\ us[p] = ts[p] /\ us[q] = ts[q]
      BY <1>1, <2>2
    <3>2. InOrder(ts, gapless, seen)
      BY <1>3 DEF Past
    <3>3. ts[p].question = seen[j] /\ ts[q].question = seen[k]
      BY <2>2, <3>1
    <3> QED
      BY <2>2, <3>1, <3>2, <3>3 DEF InOrder
  <2>3. Present(us, seen, n) /\ InOrder(us, gapless, seen)
    BY <2>1, <2>2 DEF Present, InOrder
  <2> QED
    BY <2>3 DEF Past, us
<1> QED
  BY <1>2, <1>3

LEMMA OlderAppended ==
  ASSUME NEW ts \in Seq(Turn), NEW x \in Turn, NEW q, NEW seen,
         Older(ts, q, seen), q # x.question, x.question \notin ToSet(seen)
  PROVE  Older(Append(ts, x), q, seen)
<1> DEFINE us == Append(ts, x)
<1>1. /\ \A i \in DOMAIN ts : i \in DOMAIN us /\ us[i] = ts[i]
      /\ us[Len(ts) + 1] = x
      /\ \A i \in DOMAIN us : i \in DOMAIN ts \/ i = Len(ts) + 1
  BY Appended
<1> HIDE DEF us
<1>2. HasCommitted(us, q)
  BY <1>1 DEF Older, HasCommitted
<1>3. ASSUME NEW a \in DOMAIN us, NEW b \in DOMAIN us,
             us[a].question = q, us[b].question \in ToSet(seen)
      PROVE  a < b
  <2>1. a \in DOMAIN ts /\ b \in DOMAIN ts /\ us[a] = ts[a] /\ us[b] = ts[b]
    BY <1>1, <1>3
  <2> QED
    BY <1>3, <2>1 DEF Older
<1> QED
  BY <1>2, <1>3 DEF Older, us

\* A turn is committed: nothing else of any turn changes.
Marks(ts, us) ==
  /\ DOMAIN us = DOMAIN ts
  /\ \A i \in DOMAIN ts : /\ us[i].question = ts[i].question
                          /\ us[i].seen = ts[i].seen
                          /\ ts[i].committed => us[i].committed

LEMMA HasCommittedMarked ==
  ASSUME NEW ts, NEW us, Marks(ts, us), NEW q, HasCommitted(ts, q)
  PROVE  HasCommitted(us, q)
BY DEF Marks, HasCommitted

LEMMA PastMarked ==
  ASSUME NEW ts, NEW us, Marks(ts, us), NEW gone, NEW gapless \in BOOLEAN, NEW seen, NEW n,
         Past(ts, gone, gapless, seen, n)
  PROVE  Past(us, gone, gapless, seen, n)
BY DEF Marks, Past, Present, InOrder

LEMMA OlderMarked ==
  ASSUME NEW ts, NEW us, Marks(ts, us), NEW q, NEW seen, Older(ts, q, seen)
  PROVE  Older(us, q, seen)
BY DEF Marks, Older, HasCommitted

\* Turns are removed: what is left is in its order, and what has a reader is left.
LEMMA PickedTurns ==
  ASSUME NEW ts \in Seq(Turn), NEW K \in SUBSET DOMAIN ts
  PROVE  LET us == Picked(ts, K) IN
         /\ us \in Seq(Turn)
         /\ \A i \in DOMAIN us : Ith(K, i) \in K /\ Ith(K, i) \in DOMAIN ts /\ us[i] = ts[Ith(K, i)]
         /\ \A i, j \in DOMAIN us : i < j <=> Ith(K, i) < Ith(K, j)
         /\ \A k \in K : \E i \in DOMAIN us : Ith(K, i) = k
<1> DEFINE us == Picked(ts, K)
           n == Cardinality(K)
<1>1. /\ IsFiniteSet(K) /\ K \in SUBSET Nat /\ n \in Nat
      /\ us \in Seq(Turn) /\ DOMAIN us = 1 .. n
      /\ \A i \in 1 .. n : Ith(K, i) \in K /\ us[i] = ts[Ith(K, i)]
  BY PickedIsSeq
<1>2. ASSUME NEW k \in K PROVE \E i \in DOMAIN us : Ith(K, i) = k
  <2>1. Rank(K, k) \in 1 .. n /\ Ith(K, Rank(K, k)) = k
    BY <1>1, RankOf, IthRank
  <2> QED
    BY <1>1, <2>1
<1> HIDE DEF us, n
<1>3. ASSUME NEW i \in 1 .. n, NEW j \in 1 .. n PROVE i < j => Ith(K, i) < Ith(K, j)
  BY <1>1, IthGrows DEF n
<1>4. ASSUME NEW i \in 1 .. n, NEW j \in 1 .. n, Ith(K, i) < Ith(K, j) PROVE i < j
  <2>1. Ith(K, i) \in Nat /\ Ith(K, j) \in Nat /\ i \in Nat /\ j \in Nat
    BY <1>1
  <2>2. ~ (j < i) /\ i # j
    BY <1>3, <1>4, <2>1
  <2> QED
    BY <2>1, <2>2
<1> QED
  BY <1>1, <1>2, <1>3, <1>4 DEF us

LEMMA SinglePicked ==
  ASSUME NEW ts \in Seq(Turn), NEW K \in SUBSET DOMAIN ts, Single(ts)
  PROVE  Single(Picked(ts, K))
<1> DEFINE us == Picked(ts, K)
<1>1. /\ us \in Seq(Turn)
      /\ \A i \in DOMAIN us : Ith(K, i) \in DOMAIN ts /\ us[i] = ts[Ith(K, i)]
      /\ \A i, j \in DOMAIN us : i < j <=> Ith(K, i) < Ith(K, j)
  BY PickedTurns
<1> HIDE DEF us
<1>2. ASSUME NEW i \in DOMAIN us, NEW j \in DOMAIN us, us[i].question = us[j].question
      PROVE  i = j
  <2>1. Ith(K, i) = Ith(K, j)
    BY <1>1, <1>2 DEF Single
  <2>2. Ith(K, j) \in Nat /\ i \in Nat /\ j \in Nat
    BY <1>1, TurnFields
  <2>3. ~ (i < j) /\ ~ (j < i)
    BY <1>1, <2>1, <2>2
  <2> QED
    BY <2>2, <2>3
<1> QED
  BY <1>2 DEF Single, us

LEMMA HasCommittedPicked ==
  ASSUME NEW ts \in Seq(Turn), NEW K \in SUBSET DOMAIN ts,
         \A i \in DOMAIN ts : ts[i].committed => i \in K,
         NEW q, HasCommitted(ts, q)
  PROVE  HasCommitted(Picked(ts, K), q)
<1>1. PICK k \in DOMAIN ts : k \in K /\ ts[k].question = q /\ ts[k].committed
  BY DEF HasCommitted
<1> DEFINE us == Picked(ts, K)
<1>2. /\ \A i \in DOMAIN us : us[i] = ts[Ith(K, i)]
      /\ \A l \in K : \E i \in DOMAIN us : Ith(K, i) = l
  BY PickedTurns
<1> HIDE DEF us
<1>3. PICK i \in DOMAIN us : us[i] = ts[k]
  <2>1. k \in K
    BY <1>1
  <2> QED
    BY <1>2, <2>1
<1> QED
  BY <1>1, <1>3 DEF HasCommitted, us

LEMMA OlderPicked ==
  ASSUME NEW ts \in Seq(Turn), NEW K \in SUBSET DOMAIN ts,
         \A i \in DOMAIN ts : ts[i].committed => i \in K,
         NEW q, NEW seen, Older(ts, q, seen)
  PROVE  Older(Picked(ts, K), q, seen)
<1> DEFINE us == Picked(ts, K)
<1>1. HasCommitted(us, q)
  BY HasCommittedPicked DEF Older
<1>2. /\ \A i \in DOMAIN us : Ith(K, i) \in DOMAIN ts /\ us[i] = ts[Ith(K, i)]
      /\ \A i, j \in DOMAIN us : i < j <=> Ith(K, i) < Ith(K, j)
  BY PickedTurns
<1> HIDE DEF us
<1>3. ASSUME NEW a \in DOMAIN us, NEW b \in DOMAIN us,
             us[a].question = q, us[b].question \in ToSet(seen)
      PROVE  a < b
  BY <1>2, <1>3 DEF Older
<1> QED
  BY <1>1, <1>3 DEF Older, us

\* The place m among those left of what was at n: one of them, or after all.
LEMMA PastPicked ==
  ASSUME NEW ts \in Seq(Turn), NEW K \in SUBSET DOMAIN ts,
         \A i \in DOMAIN ts : ts[i].committed => i \in K,
         NEW gone, NEW seen, NEW n, NEW m,
         Past(ts, gone, FALSE, seen, n),
         \A i \in DOMAIN Picked(ts, K) : Ith(K, i) < n => i < m
  PROVE  Past(Picked(ts, K), gone, FALSE, seen, m)
<1> DEFINE us == Picked(ts, K)
<1>1. /\ \A i \in DOMAIN us : Ith(K, i) \in DOMAIN ts /\ us[i] = ts[Ith(K, i)]
      /\ \A i, j \in DOMAIN us : i < j <=> Ith(K, i) < Ith(K, j)
      /\ \A k \in K : \E i \in DOMAIN us : Ith(K, i) = k
      /\ \A i \in DOMAIN us : Ith(K, i) < n => i < m
  BY PickedTurns
<1> HIDE DEF us
<1>2. CASE \A j \in DOMAIN seen : seen[j] \in gone
  BY <1>2 DEF Past, us
<1>3. CASE ~ \A j \in DOMAIN seen : seen[j] \in gone
  <2>1. ASSUME NEW j \in DOMAIN seen
        PROVE  \E p \in DOMAIN us : p < m /\ us[p].question = seen[j] /\ us[p].committed
    <3>1. PICK k \in DOMAIN ts : k < n /\ ts[k].question = seen[j] /\ ts[k].committed
      BY <1>3 DEF Past, Present
    <3>2. PICK p \in DOMAIN us : Ith(K, p) = k
      BY <1>1, <3>1
    <3> QED
      BY <1>1, <3>1, <3>2
  <2>2. ASSUME NEW j \in DOMAIN seen, NEW k \in DOMAIN seen,
               NEW p \in DOMAIN us, NEW q \in DOMAIN us,
               j < k, us[p].question = seen[j], us[q].question = seen[k]
        PROVE  p < q
    BY <1>1, <1>3, <2>2 DEF Past, InOrder
  <2> QED
    BY <2>1, <2>2 DEF Past, Present, InOrder, us
<1> QED
  BY <1>2, <1>3

-----------------------------------------------------------------------------
(* The types *)

Task == [at : Steps, conv : Conversation \cup {None},
         item : Question \cup File \cup {None}, known : SUBSET (Question \cup File),
         seen : BoundedSeq(Question, HistoryLimit), searched : SUBSET File, fit : BOOLEAN]

Types ==
  /\ postgres \in BOOLEAN /\ redis \in BOOLEAN
  /\ used \subseteq Conversation \cup Question \cup File
  /\ live \subseteq used \cap Conversation
  /\ closed \subseteq Conversation
  /\ docs \in [Conversation -> SUBSET File]
  /\ told \in [Conversation -> SUBSET (Question \cup File)]
  /\ lost \subseteq Question \cup File
  /\ task \in [Request -> Task]
  /\ turns \in [Conversation -> Seq(Turn)]

\* What a thread works on.
Unwritten == {"load", "history", "retrieve", "broaden", "generate", "grounded"}
Informed == {"retrieve", "broaden", "generate", "grounded"}

ShapeInv ==
  \A r \in Request :
    /\ task[r].at = "free" => task[r] = Free
    /\ task[r].at # "free" => task[r].conv \in Conversation \cap used
    /\ task[r].item \in used \cup {None}
    /\ task[r].at \in Unwritten \cup {"commit"} => task[r].item \in Question
    /\ task[r].at \in {"open", "index"} => task[r].item \in File
    /\ task[r].at = "end" => task[r].item \in Question \cup File
    /\ task[r].at # "free" => task[r].known \subseteq told[task[r].conv]

\* What a step does to its thread, and that it does nothing to another.
Others(r) ==
  /\ task' \in [Request -> Task]
  /\ \A s \in Request : s # r => task'[s] = task[s]

SameRequest(r) ==
  /\ task'[r].conv = task[r].conv
  /\ task'[r].item = task[r].item
  /\ task'[r].known = task[r].known

Accepts(r, c, at, item) ==
  /\ Others(r)
  /\ c \in live
  /\ task[r] = Free
  /\ task'[r].at = at /\ task'[r].conv = c /\ task'[r].item = item
  /\ task'[r].known = told[c] /\ task'[r].fit = FALSE

Moves(r, at) ==
  /\ Others(r)
  /\ SameRequest(r)
  /\ task'[r].at = at
  /\ task'[r].seen = task[r].seen
  /\ task'[r].searched = task[r].searched
  /\ task'[r].fit = task[r].fit

Ends(r) ==
  /\ Others(r)
  /\ task'[r] = Free

LEMMA FreeIsTask == Free \in Task
BY EmptyBounded DEF Free, Task, Steps

LEMMA TaskSet ==
  ASSUME Types, NEW r \in Request, NEW t \in Task, task' = [task EXCEPT ![r] = t]
  PROVE  Others(r) /\ task'[r] = t
BY DEF Types, Others

LEMMA AcceptIs ==
  ASSUME Types, NEW r \in Request, NEW c \in Conversation, NEW at \in Steps,
         NEW item \in Question \cup File \cup {None}, Accept(r, c, at, item)
  PROVE  Accepts(r, c, at, item)
<1> DEFINE u1 == [Free EXCEPT !.at = at]
           u2 == [u1 EXCEPT !.conv = c]
           u3 == [u2 EXCEPT !.item = item]
           u4 == [u3 EXCEPT !.known = told[c]]
<1>1. Free \in Task /\ Free.fit = FALSE
  BY FreeIsTask DEF Free
<1>2. u1 \in Task /\ u1.at = at /\ u1.fit = FALSE
  BY <1>1 DEF Task
<1> HIDE DEF u1
<1>3. u2 \in Task /\ u2.at = at /\ u2.fit = FALSE /\ u2.conv = c
  BY <1>2 DEF Task
<1> HIDE DEF u2
<1>4. u3 \in Task /\ u3.at = at /\ u3.fit = FALSE /\ u3.conv = c /\ u3.item = item
  BY <1>3 DEF Task
<1> HIDE DEF u3
<1>5. told[c] \in SUBSET (Question \cup File)
  BY DEF Types
<1>6. /\ u4 \in Task /\ u4.at = at /\ u4.fit = FALSE /\ u4.conv = c /\ u4.item = item
      /\ u4.known = told[c]
  BY <1>4, <1>5 DEF Task
<1> HIDE DEF u4
<1>7. c \in live /\ task[r] = Free /\ task' = [task EXCEPT ![r] = u4]
  BY DEF Accept, RequireOwned, u1, u2, u3, u4
<1>8. Others(r) /\ task'[r] = u4
  BY <1>6, <1>7, TaskSet
<1> QED
  BY <1>6, <1>7, <1>8 DEF Accepts

LEMMA GotoIs ==
  ASSUME Types, NEW r \in Request, NEW at \in Steps, Goto(r, at)
  PROVE  Moves(r, at)
<1>1. task[r] \in Task
  BY DEF Types
<1> DEFINE t == [task[r] EXCEPT !.at = at]
<1>2. t \in Task /\ t.at = at /\ t.conv = task[r].conv /\ t.item = task[r].item
      /\ t.known = task[r].known /\ t.seen = task[r].seen /\ t.searched = task[r].searched
      /\ t.fit = task[r].fit
  BY <1>1 DEF Task
<1>3. task' = [task EXCEPT ![r] = t]
  BY DEF Goto
<1> HIDE DEF t
<1>4. Others(r) /\ task'[r] = t
  BY <1>2, <1>3, TaskSet
<1> QED
  BY <1>2, <1>4 DEF Moves, SameRequest

LEMMA ReturnIs ==
  ASSUME Types, NEW r \in Request, Return(r)
  PROVE  Ends(r)
BY FreeIsTask, TaskSet DEF Return, Ends

\* The context is loaded.
LEMMA LoadHistoryIs ==
  ASSUME Types, ShapeInv, NEW r \in Request, LoadHistory(r)
  PROVE  /\ Others(r) /\ SameRequest(r)
         /\ task[r].at = "history" /\ task'[r].at \in {"retrieve", "generate"}
         /\ task'[r].seen = Window(Questions(Committed(turns[task[r].conv])))
         /\ task'[r].fit = task[r].fit
<1> DEFINE w == Window(Questions(Committed(turns[task[r].conv])))
<1>1. task[r] \in Task /\ task[r].at = "history" /\ task[r].conv \in Conversation
  BY DEF Types, ShapeInv, LoadHistory, At
<1>2. w \in BoundedSeq(Question, HistoryLimit)
  BY <1>1, CommittedTurns, WindowBounded DEF Types
<1> HIDE DEF w
<1>3. PICK at \in {"retrieve", "generate"} :
        task' = [task EXCEPT ![r] = [[task[r] EXCEPT !.at = at] EXCEPT !.seen = w]]
  BY DEF LoadHistory, w
<1> DEFINE u == [task[r] EXCEPT !.at = at]
           t == [u EXCEPT !.seen = w]
<1>4. u \in Task /\ u.conv = task[r].conv /\ u.item = task[r].item /\ u.known = task[r].known
      /\ u.fit = task[r].fit /\ u.at = at
  BY <1>1 DEF Task, Steps
<1> HIDE DEF u
<1>5. t \in Task /\ t.conv = task[r].conv /\ t.item = task[r].item /\ t.known = task[r].known
      /\ t.fit = task[r].fit /\ t.at = at /\ t.seen = w
  BY <1>2, <1>4 DEF Task
<1> HIDE DEF t
<1>6. task' = [task EXCEPT ![r] = t]
  BY <1>3 DEF t, u
<1>7. Others(r) /\ task'[r] = t
  BY <1>5, <1>6, TaskSet
<1> QED
  BY <1>1, <1>5, <1>7 DEF SameRequest, w

LEMMA RetrieveIs ==
  ASSUME Types, ShapeInv, NEW r \in Request, Retrieve(r)
  PROVE  /\ Others(r) /\ SameRequest(r)
         /\ task[r].at \in {"retrieve", "broaden"} /\ task'[r].at \in {"broaden", "grounded"}
         /\ task'[r].seen = task[r].seen
         /\ task'[r].searched = docs[task[r].conv]
         /\ task'[r].fit = task[r].fit
<1>1. task[r] \in Task /\ task[r].at \in {"retrieve", "broaden"} /\ task[r].conv \in Conversation
  BY DEF Types, ShapeInv, Retrieve, At
<1> DEFINE d == docs[task[r].conv]
<1>2. d \in SUBSET File
  BY <1>1 DEF Types
<1> HIDE DEF d
<1>3. PICK at \in {"broaden", "grounded"} :
        task' = [task EXCEPT ![r] = [[task[r] EXCEPT !.at = at] EXCEPT !.searched = d]]
  BY DEF Retrieve, d
<1> DEFINE u == [task[r] EXCEPT !.at = at]
           t == [u EXCEPT !.searched = d]
<1>4. u \in Task /\ u.conv = task[r].conv /\ u.item = task[r].item /\ u.known = task[r].known
      /\ u.fit = task[r].fit /\ u.at = at /\ u.seen = task[r].seen
  BY <1>1 DEF Task, Steps
<1> HIDE DEF u
<1>5. t \in Task /\ t.conv = task[r].conv /\ t.item = task[r].item /\ t.known = task[r].known
      /\ t.fit = task[r].fit /\ t.at = at /\ t.seen = task[r].seen /\ t.searched = d
  BY <1>2, <1>4 DEF Task
<1> HIDE DEF t
<1>6. task' = [task EXCEPT ![r] = t]
  BY <1>3 DEF t, u
<1>7. Others(r) /\ task'[r] = t
  BY <1>5, <1>6, TaskSet
<1> QED
  BY <1>1, <1>5, <1>7 DEF SameRequest, d

\* What a step sets besides the place.
LEMMA FitIs ==
  ASSUME Types, NEW r \in Request, NEW at \in Steps, NEW fit \in BOOLEAN,
         task' = [task EXCEPT ![r].at = at, ![r].fit = fit]
  PROVE  /\ Others(r) /\ SameRequest(r) /\ task'[r].at = at /\ task'[r].fit = fit
<1>1. task[r] \in Task
  BY DEF Types
<1> DEFINE u == [task[r] EXCEPT !.at = at]
           t == [u EXCEPT !.fit = fit]
<1>2. u \in Task /\ u.conv = task[r].conv /\ u.item = task[r].item /\ u.known = task[r].known
      /\ u.at = at
  BY <1>1 DEF Task
<1> HIDE DEF u
<1>3. t \in Task /\ t.conv = task[r].conv /\ t.item = task[r].item /\ t.known = task[r].known
      /\ t.fit = fit /\ t.at = at
  BY <1>2 DEF Task
<1> HIDE DEF t
<1>4. task' = [task EXCEPT ![r] = t]
  BY DEF t, u
<1>5. Others(r) /\ task'[r] = t
  BY <1>3, <1>4, TaskSet
<1> QED
  BY <1>3, <1>5 DEF SameRequest

LEMMA OpenSessionIs ==
  ASSUME Types, NEW r \in Request, OpenSession(r)
  PROVE  /\ Others(r) /\ SameRequest(r)
         /\ task[r].at = "open" /\ task'[r].at = "index" /\ task'[r].fit = TRUE
BY FitIs DEF OpenSession, At, Steps

LEMMA StoreDeleteIs ==
  ASSUME Types, NEW r \in Request, StoreDelete(r)
  PROVE  /\ Others(r) /\ SameRequest(r)
         /\ task[r].at = "delete" /\ task'[r].at = "clear"
         /\ task'[r].fit = (WillWrite(task[r].conv) = {})
<1> DEFINE fit == WillWrite(task[r].conv) = {}
<1>1. fit \in BOOLEAN /\ task' = [task EXCEPT ![r].at = "clear", ![r].fit = fit]
      /\ task[r].at = "delete"
  BY DEF StoreDelete, At
<1> HIDE DEF fit
<1>2. Others(r) /\ SameRequest(r) /\ task'[r].at = "clear" /\ task'[r].fit = fit
  BY <1>1, FitIs DEF Steps
<1> QED
  BY <1>1, <1>2 DEF fit

LEMMA ClearIs ==
  ASSUME Types, NEW r \in Request, Clear(r)
  PROVE  /\ task' \in [Request -> Task]
         /\ task[r].at = "clear"
         /\ task'[r] = Free
         /\ \A s \in Request \ {r} :
              /\ task'[s].at = task[s].at /\ task'[s].conv = task[s].conv
              /\ task'[s].item = task[s].item /\ task'[s].known = task[s].known
              /\ task'[s].seen = task[s].seen /\ task'[s].searched = task[s].searched
              /\ task'[s].fit = IF task[s].conv = task[r].conv /\ task[s].at = "index"
                                THEN redis ELSE task[s].fit
<1>1. /\ task[r].at = "clear"
      /\ task' = [s \in Request |->
                    IF s = r THEN Free
                    ELSE IF task[s].conv = task[r].conv /\ task[s].at = "index"
                    THEN [task[s] EXCEPT !.fit = redis] ELSE task[s]]
  BY DEF Clear, At
<1>2. ASSUME NEW s \in Request
      PROVE  LET t == [task[s] EXCEPT !.fit = redis] IN
             /\ t \in Task /\ t.at = task[s].at /\ t.conv = task[s].conv /\ t.item = task[s].item
             /\ t.known = task[s].known /\ t.seen = task[s].seen /\ t.searched = task[s].searched
             /\ t.fit = redis
  BY DEF Types, Task
<1>3. ASSUME NEW s \in Request PROVE task'[s] \in Task
  BY <1>1, <1>2, FreeIsTask DEF Types
<1> QED
  BY <1>1, <1>2, <1>3
\* What a step does to the turns of a conversation, and that it does nothing to another.
OtherTurns(c) ==
  /\ turns' \in [Conversation -> Seq(Turn)]
  /\ \A d \in Conversation : d # c => turns'[d] = turns[d]

LEMMA TurnsSet ==
  ASSUME Types, NEW c \in Conversation, NEW ts \in Seq(Turn), turns' = [turns EXCEPT ![c] = ts]
  PROVE  OtherTurns(c) /\ turns'[c] = ts
BY DEF Types, OtherTurns

LEMMA TurnsOf ==
  ASSUME Types, ShapeInv, NEW r \in Request, task[r].at # "free"
  PROVE  task[r].conv \in Conversation /\ turns[task[r].conv] \in Seq(Turn)
BY DEF Types, ShapeInv

LEMMA StoreDeleteTurns ==
  ASSUME Types, ShapeInv, NEW r \in Request, StoreDelete(r)
  PROVE  LET c == task[r].conv
             K == {i \in DOMAIN turns[c] : ~turns[c][i].committed} IN
         /\ c \in Conversation /\ turns[c] \in Seq(Turn) /\ OtherTurns(c)
         /\ turns'[c] = Picked(turns[c], K)
         /\ lost' = lost \cup {turns[c][k].question :
                                 k \in {i \in DOMAIN turns[c] : turns[c][i].committed}}
<1> DEFINE c == task[r].conv
           ts == turns[c]
           us == Picked(ts, {i \in DOMAIN ts : ~ts[i].committed})
<1>1. c \in Conversation /\ ts \in Seq(Turn)
  BY TurnsOf DEF StoreDelete, At
<1>2. turns' = [turns EXCEPT ![c] = us] /\ lost' = lost \cup ToSet(Questions(Committed(ts)))
  BY DEF StoreDelete
<1> HIDE DEF c
<1>3. us \in Seq(Turn)
  BY <1>1, PickedIsSeq
<1>4. OtherTurns(c) /\ turns'[c] = us
  <2> HIDE DEF us
  <2> QED
    BY <1>1, <1>2, <1>3, TurnsSet
<1>5. ToSet(Questions(Committed(ts))) = {ts[k].question : k \in {i \in DOMAIN ts : ts[i].committed}}
  BY <1>1, CommittedTurns
<1> QED
  BY <1>1, <1>2, <1>4, <1>5 DEF c

LEMMA PersistTurns ==
  ASSUME Types, ShapeInv, NEW r \in Request, Persist(r)
  PROVE  LET c == task[r].conv
             x == [question |-> task[r].item, seen |-> task[r].seen, committed |-> ~postgres] IN
         /\ c \in Conversation /\ turns[c] \in Seq(Turn) /\ OtherTurns(c)
         /\ x \in Turn
         /\ turns'[c] = Append(turns[c], x)
         /\ task[r].at \in {"generate", "grounded"}
         /\ Moves(r, IF postgres THEN "commit" ELSE "end")
<1> DEFINE c == task[r].conv
           x == [question |-> task[r].item, seen |-> task[r].seen, committed |-> ~postgres]
<1>1. task[r].at \in {"generate", "grounded"}
  BY DEF Persist
<1>2. c \in Conversation /\ turns[c] \in Seq(Turn)
  BY <1>1, TurnsOf
<1>3. x \in Turn
  BY <1>1 DEF Types, Task, Turn, ShapeInv, Unwritten
<1>4. turns' = [turns EXCEPT ![c] = Append(turns[c], x)]
      /\ Goto(r, IF postgres THEN "commit" ELSE "end")
  BY DEF Persist
<1>5. Moves(r, IF postgres THEN "commit" ELSE "end")
  BY <1>4, GotoIs DEF Steps
<1> HIDE DEF x, c
<1>6. Append(turns[c], x) \in Seq(Turn)
  BY <1>2, <1>3, Appended
<1>7. OtherTurns(c) /\ turns'[c] = Append(turns[c], x)
  BY <1>2, <1>4, <1>6, TurnsSet
<1> QED
  BY <1>1, <1>2, <1>3, <1>5, <1>7 DEF x, c

LEMMA CommitTurns ==
  ASSUME Types, ShapeInv, NEW r \in Request, Commit(r)
  PROVE  LET c == task[r].conv IN
         /\ c \in Conversation /\ turns[c] \in Seq(Turn) /\ OtherTurns(c)
         /\ Marks(turns[c], turns'[c])
         /\ \A i \in DOMAIN turns[c] : turns'[c][i].committed <=>
              turns[c][i].committed \/ turns[c][i].question = task[r].item
         /\ task[r].at = "commit"
         /\ Moves(r, "end")
<1> DEFINE c == task[r].conv
           ts == turns[c]
           q == task[r].item
           mark(i) == [ts[i] EXCEPT !.committed = ts[i].committed \/ ts[i].question = q]
           us == [i \in DOMAIN ts |-> mark(i)]
<1>1. task[r].at = "commit"
  BY DEF Commit, At
<1>2. c \in Conversation /\ ts \in Seq(Turn)
  BY <1>1, TurnsOf
<1>3. turns' = [turns EXCEPT ![c] = us] /\ Goto(r, "end")
  BY DEF Commit
<1>4. Moves(r, "end")
  BY <1>3, GotoIs DEF Steps
<1> HIDE DEF c, q
<1>5. ASSUME NEW i \in DOMAIN ts
      PROVE  /\ mark(i) \in Turn /\ mark(i).question = ts[i].question /\ mark(i).seen = ts[i].seen
             /\ mark(i).committed <=> ts[i].committed \/ ts[i].question = q
  <2>1. ts[i] \in Turn
    BY <1>2
  <2> QED
    BY <2>1 DEF Turn
<1>6. us \in Seq(Turn)
  <2> HIDE DEF mark
  <2>1. DOMAIN ts = 1 .. Len(ts) /\ Len(ts) \in Nat
    BY <1>2
  <2> QED
    BY <1>5, <2>1
<1>7. Marks(ts, us) /\ \A i \in DOMAIN ts : us[i].committed <=>
         ts[i].committed \/ ts[i].question = q
  BY <1>5 DEF Marks
<1> HIDE DEF us
<1>8. OtherTurns(c) /\ turns'[c] = us
  BY <1>2, <1>3, <1>6, TurnsSet
<1> QED
  BY <1>1, <1>2, <1>4, <1>7, <1>8 DEF c, q

\* A request ends before it is done; an insert without its commit is undone.
LEMMA AbortTurns ==
  ASSUME Types, ShapeInv, NEW r \in Request, Abort(r)
  PROVE  /\ Ends(r)
         /\ task[r].at # "free"
         /\ task[r].at # "commit" => turns' = turns
         /\ task[r].at = "commit" =>
              LET c == task[r].conv
                  K == {i \in DOMAIN turns[c] :
                          turns[c][i].committed \/ turns[c][i].question # task[r].item} IN
              /\ c \in Conversation /\ turns[c] \in Seq(Turn) /\ OtherTurns(c)
              /\ turns'[c] = Picked(turns[c], K)
<1>1. task[r] # Free /\ Return(r)
  BY DEF Abort
<1>2. Ends(r) /\ task[r].at # "free"
  BY <1>1, ReturnIs DEF ShapeInv
<1>3. task[r].at # "commit" => turns' = turns
  BY DEF Abort, At
<1>4. ASSUME task[r].at = "commit"
      PROVE  LET c == task[r].conv
                 K == {i \in DOMAIN turns[c] :
                         turns[c][i].committed \/ turns[c][i].question # task[r].item} IN
             /\ c \in Conversation /\ turns[c] \in Seq(Turn) /\ OtherTurns(c)
             /\ turns'[c] = Picked(turns[c], K)
  <2> DEFINE c == task[r].conv
             ts == turns[c]
             us == Picked(ts, {i \in DOMAIN ts : ts[i].committed \/ ts[i].question # task[r].item})
  <2>1. c \in Conversation /\ ts \in Seq(Turn)
    BY <1>2, TurnsOf
  <2>2. turns' = [turns EXCEPT ![c] = us]
    BY <1>4 DEF Abort, At, RolledBack
  <2> HIDE DEF c
  <2>3. us \in Seq(Turn)
    BY <2>1, PickedIsSeq
  <2>4. OtherTurns(c) /\ turns'[c] = us
    <3> HIDE DEF us
    <3> QED
      BY <2>1, <2>2, <2>3, TurnsSet
  <2> QED
    BY <2>1, <2>4 DEF c
<1> QED
  BY <1>2, <1>3, <1>4

\* The process is started again.
LEMMA RestartTurns ==
  ASSUME Types, Restart
  PROVE  /\ task' \in [Request -> Task] /\ \A r \in Request : task'[r] = Free
         /\ turns' \in [Conversation -> Seq(Turn)]
         /\ postgres => \A c \in Conversation :
              turns'[c] = Picked(turns[c], {i \in DOMAIN turns[c] : turns[c][i].committed})
         /\ ~postgres => \A c \in Conversation :
              turns'[c] = <<>> /\ \A i \in DOMAIN turns[c] : turns[c][i].question \in lost'
         /\ redis => docs' = docs
         /\ ~redis => \A c \in Conversation : docs'[c] = {} /\ docs[c] \subseteq lost'
         /\ lost \subseteq lost'
         /\ \A e \in lost' : \/ e \in lost
                             \/ ~postgres /\ \E c \in Conversation : \E i \in DOMAIN turns[c] :
                                  e = turns[c][i].question
                             \/ \E c \in Conversation : e \in docs[c]
<1> DEFINE goneTurns == UNION {ToSet(Questions(turns[c])) : c \in Conversation}
           goneDocs == UNION {docs[c] : c \in Conversation}
<1>1. /\ task' = [r \in Request |-> Free]
      /\ turns' = [c \in Conversation |-> IF postgres THEN Committed(turns[c]) ELSE <<>>]
      /\ docs' = [c \in Conversation |-> docs[c] \ (IF redis THEN {} ELSE goneDocs)]
      /\ lost' = lost \cup (IF postgres THEN {} ELSE goneTurns) \cup (IF redis THEN {} ELSE goneDocs)
  BY DEF Restart
<1>2. ASSUME NEW c \in Conversation
      PROVE  /\ turns[c] \in Seq(Turn) /\ Committed(turns[c]) \in Seq(Turn)
             /\ ToSet(Questions(turns[c])) = {turns[c][i].question : i \in DOMAIN turns[c]}
  <2>1. turns[c] \in Seq(Turn)
    BY DEF Types
  <2>2. Committed(turns[c]) \in Seq(Turn)
    BY <2>1, CommittedTurns
  <2>3. ToSet(Questions(turns[c])) = {turns[c][i].question : i \in DOMAIN turns[c]}
    BY DEF ToSet, Questions
  <2> QED
    BY <2>1, <2>2, <2>3
<1>3. turns' \in [Conversation -> Seq(Turn)]
  <2>1. ASSUME NEW c \in Conversation
        PROVE  (IF postgres THEN Committed(turns[c]) ELSE <<>>) \in Seq(Turn)
    BY <1>2
  <2> QED
    BY <1>1, <2>1
<1>4. postgres => \A c \in Conversation :
        turns'[c] = Picked(turns[c], {i \in DOMAIN turns[c] : turns[c][i].committed})
  BY <1>1 DEF Committed
<1>5. ASSUME NEW c \in Conversation, NEW i \in DOMAIN turns[c] PROVE turns[c][i].question \in goneTurns
  BY <1>2
<1>6. ~postgres => \A c \in Conversation :
        turns'[c] = <<>> /\ \A i \in DOMAIN turns[c] : turns[c][i].question \in lost'
  <2> HIDE DEF goneTurns, goneDocs
  <2> QED
    BY <1>1, <1>5
<1>7. \A e \in goneTurns : \E c \in Conversation : \E i \in DOMAIN turns[c] :
        e = turns[c][i].question
  BY <1>2
<1>8. docs \in [Conversation -> SUBSET File]
  BY DEF Types
<1>9. task' \in [Request -> Task] /\ \A r \in Request : task'[r] = Free
  BY <1>1, FreeIsTask
<1>10. redis => docs' = docs
  BY <1>1, <1>8
<1>11. ~redis => \A c \in Conversation : docs'[c] = {} /\ docs[c] \subseteq lost'
  <2>1. \A c \in Conversation : docs[c] \subseteq goneDocs
    OBVIOUS
  <2> HIDE DEF goneTurns, goneDocs
  <2> QED
    BY <1>1, <2>1
<1>12. \A e \in goneDocs : \E c \in Conversation : e \in docs[c]
  OBVIOUS
<1> HIDE DEF goneTurns, goneDocs
<1>13. lost \subseteq lost'
  BY <1>1
<1>14. \A e \in lost' : e \in lost \/ (~postgres /\ e \in goneTurns) \/ e \in goneDocs
  BY <1>1
<1>15. ASSUME NEW e \in lost'
       PROVE  \/ e \in lost
              \/ ~postgres /\ \E c \in Conversation : \E i \in DOMAIN turns[c] :
                   e = turns[c][i].question
              \/ \E c \in Conversation : e \in docs[c]
  BY <1>7, <1>12, <1>14
<1> QED
  BY <1>3, <1>4, <1>6, <1>9, <1>10, <1>11, <1>13, <1>15


-----------------------------------------------------------------------------
(* Steps that do the same to what most parts of the invariant are about *)

\* A request is accepted, with a question or a file of its own if it needs one.
Enters(r, c, at, item) ==
  /\ Accepts(r, c, at, item)
  /\ at \in {"rename", "delete", "load", "open"}
  /\ at \in {"rename", "delete"} => item = None
  /\ at = "load" => item \in Question \ used
  /\ at = "open" => item \in File \ used
  /\ used' = used \cup ({item} \ {None})
  /\ UNCHANGED <<wiring, live, turns, docs, told, lost, closed>>

LEMMA EntersIs ==
  ASSUME Types, NEW r \in Request, NEW c \in Conversation,
         Rename(r, c) \/ Delete(r, c) \/ Ask(r, c) \/ Upload(r, c)
  PROVE  \E at \in Steps, item \in Question \cup File \cup {None} : Enters(r, c, at, item)
<1>1. {"rename", "delete", "load", "open"} \subseteq Steps
  BY DEF Steps
<1>2. CASE Rename(r, c)
  <2>1. Accepts(r, c, "rename", None)
    BY <1>1, <1>2, AcceptIs DEF Rename
  <2>2. Enters(r, c, "rename", None)
    BY <1>2, <2>1 DEF Rename, Enters
  <2> QED
    BY <1>1, <2>2
<1>3. CASE Delete(r, c)
  <2>1. Accepts(r, c, "delete", None)
    BY <1>1, <1>3, AcceptIs DEF Delete
  <2>2. Enters(r, c, "delete", None)
    BY <1>3, <2>1 DEF Delete, Enters
  <2> QED
    BY <1>1, <2>2
<1>4. CASE Ask(r, c)
  <2>1. PICK q \in Question \ used :
          /\ Accept(r, c, "load", q) /\ used' = used \cup {q}
          /\ UNCHANGED <<wiring, live, turns, docs, told, lost, closed>>
    BY <1>4 DEF Ask
  <2>2. Accepts(r, c, "load", q)
    BY <1>1, <2>1, AcceptIs
  <2>3. Enters(r, c, "load", q)
    BY <2>1, <2>2, ChatAssumption DEF Enters
  <2> QED
    BY <1>1, <2>3
<1>5. CASE Upload(r, c)
  <2>1. PICK f \in File \ used :
          /\ Accept(r, c, "open", f) /\ used' = used \cup {f}
          /\ UNCHANGED <<wiring, live, turns, docs, told, lost, closed>>
    BY <1>5 DEF Upload
  <2>2. Accepts(r, c, "open", f)
    BY <1>1, <2>1, AcceptIs
  <2>3. Enters(r, c, "open", f)
    BY <2>1, <2>2, ChatAssumption DEF Enters
  <2> QED
    BY <1>1, <2>3
<1> QED
  BY <1>2, <1>3, <1>4, <1>5

\* A step of a request that stores nothing: from a place to the next, or the end.
Walks(r) ==
  /\ Others(r)
  /\ UNCHANGED <<wiring, used, turns, docs, told, lost, closed>>
  /\ task[r].at \in {"rename", "retitle", "load", "history", "retrieve", "broaden", "open"}
  /\ \/ Ends(r)
     \/ /\ SameRequest(r)
        /\ \/ task[r].at = "rename" /\ task'[r].at = "retitle"
           \/ task[r].at = "load" /\ task'[r].at = "history"
           \/ task[r].at = "history" /\ task'[r].at \in {"retrieve", "generate"}
           \/ task[r].at \in {"retrieve", "broaden"} /\ task'[r].at \in {"broaden", "grounded"}
           \/ task[r].at = "open" /\ task'[r].at = "index"

LEMMA WalksIs ==
  ASSUME Types, ShapeInv, NEW r \in Request,
         \/ RenameStore(r) \/ Retitle(r) \/ LoadConversation(r)
         \/ LoadHistory(r) \/ Retrieve(r) \/ OpenSession(r)
  PROVE  Walks(r) /\ (live' = live \/ Retitle(r))
<1>1. CASE RenameStore(r)
  <2>1. task[r].at = "rename" /\ (Goto(r, "retitle") \/ Return(r))
    BY <1>1 DEF RenameStore, At
  <2>2. Moves(r, "retitle") \/ Ends(r)
    BY <2>1, GotoIs, ReturnIs DEF Steps
  <2> QED
    BY <1>1, <2>1, <2>2 DEF RenameStore, Walks, Moves, Ends
<1>2. CASE Retitle(r)
  <2>1. task[r].at = "retitle" /\ Ends(r)
    BY <1>2, ReturnIs DEF Retitle, At
  <2> QED
    BY <1>2, <2>1 DEF Retitle, Walks, Ends
<1>3. CASE LoadConversation(r)
  <2>1. task[r].at = "load" /\ (Goto(r, "history") \/ Return(r))
    BY <1>3 DEF LoadConversation, At
  <2>2. Moves(r, "history") \/ Ends(r)
    BY <2>1, GotoIs, ReturnIs DEF Steps
  <2> QED
    BY <1>3, <2>1, <2>2 DEF LoadConversation, Walks, Moves, Ends
<1>4. CASE LoadHistory(r)
  <2>1. UNCHANGED <<wiring, used, live, turns, docs, told, lost, closed>>
    BY <1>4 DEF LoadHistory
  <2>2. /\ Others(r) /\ SameRequest(r) /\ task[r].at = "history"
        /\ task'[r].at \in {"retrieve", "generate"}
    BY <1>4, LoadHistoryIs
  <2> QED
    BY <2>1, <2>2 DEF Walks
<1>5. CASE Retrieve(r)
  <2>1. UNCHANGED <<wiring, used, live, turns, docs, told, lost, closed>>
    BY <1>5 DEF Retrieve
  <2>2. /\ Others(r) /\ SameRequest(r) /\ task[r].at \in {"retrieve", "broaden"}
        /\ task'[r].at \in {"broaden", "grounded"}
    BY <1>5, RetrieveIs
  <2> QED
    BY <2>1, <2>2 DEF Walks
<1>6. CASE OpenSession(r)
  <2>1. UNCHANGED <<wiring, used, live, turns, docs, told, lost, closed>>
    BY <1>6 DEF OpenSession
  <2>2. Others(r) /\ SameRequest(r) /\ task[r].at = "open" /\ task'[r].at = "index"
    BY <1>6, OpenSessionIs
  <2> QED
    BY <2>1, <2>2 DEF Walks
<1> QED
  BY <1>1, <1>2, <1>3, <1>4, <1>5, <1>6

\* The last event, and a stored file.
LEMMA EndIs ==
  ASSUME Types, ShapeInv, NEW r \in Request, End(r)
  PROVE  /\ Ends(r) /\ task[r].at = "end"
         /\ task[r].conv \in Conversation /\ task[r].item \in Question \cup File
         /\ told' \in [Conversation -> SUBSET (Question \cup File)]
         /\ told'[task[r].conv] = told[task[r].conv] \cup {task[r].item}
         /\ \A c \in Conversation \ {task[r].conv} : told'[c] = told[c]
         /\ UNCHANGED <<wiring, used, live, turns, docs, lost, closed>>
<1>1. task[r].at = "end" /\ Return(r)
      /\ told' = [told EXCEPT ![task[r].conv] = told[task[r].conv] \cup {task[r].item}]
      /\ UNCHANGED <<wiring, used, live, turns, docs, lost, closed>>
  BY DEF End, At
<1>2. Ends(r)
  BY <1>1, ReturnIs
<1>3. task[r].conv \in Conversation /\ task[r].item \in Question \cup File
  BY <1>1 DEF ShapeInv
<1>4. told \in [Conversation -> SUBSET (Question \cup File)]
  BY DEF Types
<1> QED
  BY <1>1, <1>2, <1>3, <1>4

LEMMA IndexIs ==
  ASSUME Types, ShapeInv, NEW r \in Request, Index(r)
  PROVE  /\ Moves(r, "end") /\ task[r].at = "index"
         /\ task[r].conv \in Conversation /\ task[r].item \in File
         /\ docs' \in [Conversation -> SUBSET File]
         /\ \A c \in Conversation \ {task[r].conv} : docs'[c] = docs[c]
         /\ task[r].fit => lost' = lost /\ docs'[task[r].conv] = docs[task[r].conv] \cup {task[r].item}
         /\ ~task[r].fit => docs' = docs /\ lost' = lost \cup {task[r].item}
         /\ UNCHANGED <<wiring, used, live, turns, told, closed>>
<1>1. task[r].at = "index" /\ Goto(r, "end")
      /\ UNCHANGED <<wiring, used, live, turns, told, closed>>
  BY DEF Index, At
<1>2. Moves(r, "end")
  BY <1>1, GotoIs DEF Steps
<1>3. task[r].conv \in Conversation /\ task[r].item \in File
  BY <1>1 DEF ShapeInv
<1>4. docs \in [Conversation -> SUBSET File] /\ task[r].fit \in BOOLEAN
  BY DEF Types, Task
<1>5. CASE task[r].fit
  <2>1. docs' = [docs EXCEPT ![task[r].conv] = docs[task[r].conv] \cup {task[r].item}] /\ lost' = lost
    BY <1>5 DEF Index
  <2> QED
    BY <1>1, <1>2, <1>3, <1>4, <1>5, <2>1
<1>6. CASE ~task[r].fit
  <2>1. docs' = docs /\ lost' = lost \cup {task[r].item}
    BY <1>6 DEF Index
  <2> QED
    BY <1>1, <1>2, <1>3, <1>4, <1>6, <2>1
<1> QED
  BY <1>4, <1>5, <1>6


LEMMA TypesInit == Init => Types /\ ShapeInv
<1> SUFFICES ASSUME Init PROVE Types /\ ShapeInv
  OBVIOUS
<1>1. \A r \in Request : task[r] = Free
  BY DEF Init
<1>2. task \in [Request -> Task]
  BY FreeIsTask DEF Init
<1>3. Free.at = "free" /\ Free.item = None
  BY DEF Free
<1>4. Types
  <2>1. turns \in [Conversation -> Seq(Turn)]
    BY DEF Init
  <2> QED
    BY <1>2, <2>1 DEF Init, Types
<1>5. ShapeInv
  BY <1>1, <1>3 DEF ShapeInv, Unwritten
<1> QED
  BY <1>4, <1>5

LEMMA TypesStep ==
  ASSUME Types, ShapeInv, [Next]_vars
  PROVE  Types'
<1> USE DEF Others
<1>1. CASE UNCHANGED vars
  BY <1>1 DEF vars, wiring, Types
<1>2. CASE Create
  BY <1>2 DEF Create, wiring, Types
<1>3. CASE Restart
  <2>1. /\ task' \in [Request -> Task] /\ turns' \in [Conversation -> Seq(Turn)]
        /\ \A e \in lost' : \/ e \in lost
                            \/ \E c \in Conversation : \E i \in DOMAIN turns[c] :
                                 e = turns[c][i].question
                            \/ \E c \in Conversation : e \in docs[c]
    BY <1>3, RestartTurns
  <2>2. \A c \in Conversation : turns[c] \in Seq(Turn)
    BY DEF Types
  <2>3. \A c \in Conversation : \A i \in DOMAIN turns[c] : turns[c][i].question \in Question
    BY <2>2, TurnFields
  <2>4. ASSUME NEW e \in lost' PROVE e \in Question \cup File
    <3>1. lost \subseteq Question \cup File /\ \A c \in Conversation : docs[c] \subseteq File
      BY DEF Types
    <3> QED
      BY <2>1, <2>3, <3>1
  <2>5. docs' \in [Conversation -> SUBSET File]
    BY <1>3 DEF Restart, Types
  <2> QED
    BY <1>3, <2>1, <2>4, <2>5 DEF Restart, wiring, Types
<1>4. ASSUME NEW c \in Conversation, Expire(c) PROVE Types'
  BY <1>4 DEF Expire, wiring, Types
<1>5. ASSUME NEW r \in Request, NEW c \in Conversation,
             Rename(r, c) \/ Delete(r, c) \/ Ask(r, c) \/ Upload(r, c)
      PROVE  Types'
  <2>1. PICK at \in Steps, item \in Question \cup File \cup {None} : Enters(r, c, at, item)
    BY <1>5, EntersIs
  <2> QED
    BY <2>1 DEF Enters, Accepts, wiring, Types
<1>6. ASSUME NEW r \in Request,
             \/ RenameStore(r) \/ Retitle(r) \/ LoadConversation(r)
             \/ LoadHistory(r) \/ Retrieve(r) \/ OpenSession(r)
      PROVE  Types'
  <2>1. Walks(r) /\ (live' = live \/ Retitle(r))
    BY <1>6, WalksIs
  <2>2. live' \subseteq used \cap Conversation
    BY <2>1 DEF Retitle, At, Types, ShapeInv
  <2> QED
    BY <2>1, <2>2 DEF Walks, wiring, Types
<1>7. ASSUME NEW r \in Request, StoreDelete(r) PROVE Types'
  <2>1. /\ Others(r) /\ OtherTurns(task[r].conv) /\ turns[task[r].conv] \in Seq(Turn)
        /\ lost' = lost \cup {turns[task[r].conv][k].question :
                     k \in {i \in DOMAIN turns[task[r].conv] : turns[task[r].conv][i].committed}}
    BY <1>7, StoreDeleteIs, StoreDeleteTurns
  <2>2. \A i \in DOMAIN turns[task[r].conv] : turns[task[r].conv][i].question \in Question
    BY <2>1, TurnFields
  <2>3. lost' \subseteq Question \cup File
    BY <2>1, <2>2 DEF Types
  <2> QED
    BY <1>7, <2>1, <2>3 DEF StoreDelete, OtherTurns, wiring, Types
<1>8. ASSUME NEW r \in Request, Clear(r) PROVE Types'
  <2>1. task' \in [Request -> Task] /\ task[r].at = "clear" /\ task[r].conv \in Conversation
    BY <1>8, ClearIs DEF ShapeInv
  <2>2. docs' \in [Conversation -> SUBSET File] /\ lost' \subseteq Question \cup File
        /\ closed' \subseteq Conversation
    BY <1>8, <2>1 DEF Clear, Types
  <2> QED
    BY <1>8, <2>1, <2>2 DEF Clear, wiring, Types
<1>9. ASSUME NEW r \in Request, Persist(r) PROVE Types'
  <2>1. Others(r) /\ OtherTurns(task[r].conv)
    BY <1>9, PersistTurns DEF Moves
  <2> QED
    BY <1>9, <2>1 DEF Persist, OtherTurns, wiring, Types
<1>10. ASSUME NEW r \in Request, Commit(r) PROVE Types'
  <2>1. Others(r) /\ OtherTurns(task[r].conv)
    BY <1>10, CommitTurns DEF Moves
  <2> QED
    BY <1>10, <2>1 DEF Commit, OtherTurns, wiring, Types
<1>11. ASSUME NEW r \in Request, End(r) PROVE Types'
  <2>1. Others(r) /\ told' \in [Conversation -> SUBSET (Question \cup File)]
        /\ UNCHANGED <<wiring, used, live, turns, docs, lost, closed>>
    BY <1>11, EndIs DEF Ends
  <2> QED
    BY <2>1 DEF wiring, Types
<1>12. ASSUME NEW r \in Request, Index(r) PROVE Types'
  <2>1. Others(r) /\ docs' \in [Conversation -> SUBSET File]
        /\ lost' \subseteq Question \cup File
        /\ UNCHANGED <<wiring, used, live, turns, told, closed>>
    BY <1>12, IndexIs DEF Moves, Types
  <2> QED
    BY <2>1 DEF wiring, Types
<1>13. ASSUME NEW r \in Request, Abort(r) PROVE Types'
  <2>1. Others(r) /\ turns' \in [Conversation -> Seq(Turn)]
    BY <1>13, AbortTurns DEF Ends, OtherTurns, Types
  <2> QED
    BY <1>13, <2>1 DEF Abort, wiring, Types
<1> QED
  BY <1>1, <1>2, <1>3, <1>4, <1>5, <1>6, <1>7, <1>8, <1>9, <1>10, <1>11, <1>12, <1>13 DEF Next

LEMMA ShapeStep ==
  ASSUME Types, ShapeInv, [Next]_vars
  PROVE  ShapeInv'
<1> DEFINE Good(t) ==
      /\ t.at = "free" => t = Free
      /\ t.at # "free" => t.conv \in Conversation \cap used'
      /\ t.item \in used' \cup {None}
      /\ t.at \in Unwritten \cup {"commit"} => t.item \in Question
      /\ t.at \in {"open", "index"} => t.item \in File
      /\ t.at = "end" => t.item \in Question \cup File
      /\ t.at # "free" => t.known \subseteq told'[t.conv]
<1>1. SUFFICES ASSUME NEW r \in Request PROVE Good(task'[r])
  BY DEF ShapeInv
<1>2. Good(Free)
  BY DEF Free, Unwritten
<1>3. used \subseteq used' /\ \A c \in Conversation : told[c] \subseteq told'[c]
  <2>1. CASE UNCHANGED vars
    BY <2>1 DEF vars
  <2>2. ASSUME NEW s \in Request, NEW c \in Conversation,
               Rename(s, c) \/ Delete(s, c) \/ Ask(s, c) \/ Upload(s, c)
        PROVE  used \subseteq used' /\ told' = told
    BY <2>2 DEF Rename, Delete, Ask, Upload
  <2>3. ASSUME NEW s \in Request, End(s)
        PROVE  used' = used /\ \A c \in Conversation : told[c] \subseteq told'[c]
    BY <2>3, EndIs
  <2>4. ASSUME NEW s \in Request,
               \/ RenameStore(s) \/ Retitle(s) \/ StoreDelete(s) \/ Clear(s)
               \/ LoadConversation(s) \/ LoadHistory(s) \/ Retrieve(s)
               \/ Persist(s) \/ Commit(s) \/ OpenSession(s) \/ Index(s) \/ Abort(s)
        PROVE  used' = used /\ told' = told
    <3>1. CASE RenameStore(s) \/ Retitle(s) \/ LoadConversation(s) \/ LoadHistory(s)
               \/ Retrieve(s) \/ OpenSession(s)
      BY <3>1, WalksIs DEF Walks
    <3>2. CASE StoreDelete(s) \/ Clear(s)
      BY <3>2 DEF StoreDelete, Clear
    <3>3. CASE Persist(s) \/ Commit(s)
      BY <3>3 DEF Persist, Commit
    <3>4. CASE Index(s) \/ Abort(s)
      BY <3>4 DEF Index, Abort
    <3> QED
      BY <2>4, <3>1, <3>2, <3>3, <3>4
  <2>5. CASE Create \/ Restart \/ \E c \in Conversation : Expire(c)
    BY <2>5 DEF Create, Restart, Expire
  <2> QED
    BY <2>1, <2>2, <2>3, <2>4, <2>5 DEF Next
<1>4. Good(task[r])
  BY <1>3 DEF ShapeInv
<1>5. ASSUME NEW s \in Request, Others(s), Good(task'[s]) PROVE Good(task'[r])
  BY <1>4, <1>5 DEF Others
<1>6. ASSUME NEW s \in Request, Ends(s) PROVE Good(task'[r])
  BY <1>2, <1>5, <1>6 DEF Ends
<1>7. ASSUME NEW s \in Request, Others(s), SameRequest(s), task'[s].at # "free", task[s].at # "free",
             task'[s].at \in Unwritten \cup {"commit"} => task[s].at \in Unwritten \cup {"commit"},
             task'[s].at \in {"open", "index"} => task[s].at \in {"open", "index"},
             task'[s].at = "end" => task[s].at \in Unwritten \cup {"commit", "index"}
      PROVE  Good(task'[r])
  <2>1. Good(task'[s])
    BY <1>3, <1>7 DEF ShapeInv, SameRequest
  <2> QED
    BY <1>5, <1>7, <2>1
<1> HIDE DEF Good
<1>8. CASE UNCHANGED vars
  BY <1>4, <1>8 DEF vars
<1>9. CASE Create \/ \E c \in Conversation : Expire(c)
  BY <1>4, <1>9 DEF Create, Expire
<1>10. CASE Restart
  BY <1>2, <1>10, RestartTurns
<1>11. ASSUME NEW s \in Request, NEW c \in Conversation,
             Rename(s, c) \/ Delete(s, c) \/ Ask(s, c) \/ Upload(s, c)
      PROVE  Good(task'[r])
  <2>1. PICK at \in Steps, item \in Question \cup File \cup {None} : Enters(s, c, at, item)
    BY <1>11, EntersIs
  <2>2. Good(task'[s])
    BY <1>3, <2>1 DEF Good, Enters, Accepts, Unwritten, Types
  <2> QED
    BY <1>5, <2>1, <2>2 DEF Enters, Accepts
<1>12. ASSUME NEW s \in Request,
             \/ RenameStore(s) \/ Retitle(s) \/ LoadConversation(s)
             \/ LoadHistory(s) \/ Retrieve(s) \/ OpenSession(s)
      PROVE  Good(task'[r])
  <2>1. Walks(s)
    BY <1>12, WalksIs
  <2>2. CASE Ends(s)
    BY <1>6, <2>2
  <2>3. CASE ~Ends(s)
    BY <1>7, <2>1, <2>3 DEF Walks, Unwritten
  <2> QED
    BY <2>2, <2>3
<1>13. ASSUME NEW s \in Request, StoreDelete(s) PROVE Good(task'[r])
  BY <1>7, <1>13, StoreDeleteIs DEF Unwritten
<1>14. ASSUME NEW s \in Request, Clear(s) PROVE Good(task'[r])
  <2>1. CASE r = s
    BY <1>2, <1>14, <2>1, ClearIs
  <2>2. CASE r # s
    <3>1. /\ task'[r].at = task[r].at /\ task'[r].conv = task[r].conv
          /\ task'[r].item = task[r].item /\ task'[r].known = task[r].known
          /\ task[r].at # "index" => task'[r] = task[r]
      BY <1>14, <2>2, ClearIs DEF Clear
    <3> QED
      BY <1>4, <3>1 DEF Good
  <2> QED
    BY <2>1, <2>2
<1>15. ASSUME NEW s \in Request, Persist(s) PROVE Good(task'[r])
  BY <1>7, <1>15, PersistTurns DEF Moves, Unwritten
<1>16. ASSUME NEW s \in Request, Commit(s) PROVE Good(task'[r])
  BY <1>7, <1>16, CommitTurns DEF Moves
<1>17. ASSUME NEW s \in Request, Index(s) PROVE Good(task'[r])
  BY <1>7, <1>17, IndexIs DEF Moves, Unwritten
<1>18. ASSUME NEW s \in Request, End(s) \/ Abort(s) PROVE Good(task'[r])
  BY <1>6, <1>18, EndIs, AbortTurns
<1> QED
  BY <1>8, <1>9, <1>10, <1>11, <1>12, <1>13, <1>14, <1>15, <1>16, <1>17, <1>18 DEF Next


-----------------------------------------------------------------------------
(* No identity is used twice *)

Asked(ts) == {ts[i].question : i \in DOMAIN ts}

\* A question has at most one turn, in one conversation, and is not lost while it has
\* it; no two threads work on the same; and a question whose answer is not written has
\* no turn.
OnceInv ==
  /\ lost \subseteq used /\ \A c \in Conversation : docs[c] \subseteq used
  /\ \A c \in Conversation : Single(turns[c]) /\ Asked(turns[c]) \subseteq used \ lost
  /\ \A c, d \in Conversation : c # d => Asked(turns[c]) \cap Asked(turns[d]) = {}
  /\ \A r, s \in Request : r # s /\ task[r].item # None => task[r].item # task[s].item
  /\ \A r \in Request : task[r].at \in Unwritten =>
       /\ task[r].item \notin lost
       /\ \A c \in Conversation : task[r].item \notin Asked(turns[c])

\* A thread keeps what it works on, or drops it.
SameItem(r) ==
  \/ task'[r] = Free
  \/ /\ task'[r].item = task[r].item
     /\ task'[r].at \in Unwritten => task[r].at \in Unwritten

\* A step that accepts nothing and writes no turn.
LEMMA OnceKept ==
  ASSUME OnceInv,
         \A r \in Request : SameItem(r),
         \A c \in Conversation : Single(turns'[c]) /\ Asked(turns'[c]) \subseteq Asked(turns[c]),
         used \subseteq used', lost' \subseteq used',
         \A c \in Conversation : docs'[c] \subseteq used',
         \A e \in lost' : \/ e \in lost \/ e \notin Question
                          \/ \E c \in Conversation : e \in Asked(turns[c]) \ Asked(turns'[c]),
         \A c \in Conversation : Asked(turns[c]) \subseteq Question,
         \A r \in Request : task[r].at \in Unwritten => task[r].item \in Question
  PROVE  OnceInv'
<1>1. Free.item = None /\ Free.at \notin Unwritten
  BY DEF Free, Unwritten
<1>2. ASSUME NEW c \in Conversation, NEW q \in Asked(turns'[c]) PROVE q \in used' \ lost'
  <2>1. q \in Question /\ q \in Asked(turns[c]) /\ q \in used \ lost
    BY <1>2 DEF OnceInv
  <2>2. ASSUME q \in lost' PROVE FALSE
    <3>1. PICK d \in Conversation : q \in Asked(turns[d]) \ Asked(turns'[d])
      BY <2>1, <2>2
    <3>2. d = c
      BY <2>1, <3>1 DEF OnceInv
    <3> QED
      BY <1>2, <3>1, <3>2
  <2> QED
    BY <2>1, <2>2
<1>3. \A c, d \in Conversation : c # d => Asked(turns'[c]) \cap Asked(turns'[d]) = {}
  BY DEF OnceInv
<1>4. \A r, s \in Request : r # s /\ task'[r].item # None => task'[r].item # task'[s].item
  BY <1>1 DEF OnceInv, SameItem
<1>5. ASSUME NEW r \in Request, task'[r].at \in Unwritten
      PROVE  /\ task'[r].item \notin lost'
             /\ \A c \in Conversation : task'[r].item \notin Asked(turns'[c])
  <2>1. task[r].at \in Unwritten /\ task'[r].item = task[r].item
    BY <1>1, <1>5 DEF SameItem
  <2> QED
    BY <2>1 DEF OnceInv
<1>6. \A c \in Conversation : Single(turns'[c])
  OBVIOUS
<1> QED
  BY <1>2, <1>3, <1>4, <1>5, <1>6 DEF OnceInv

LEMMA AskedPicked ==
  ASSUME NEW ts \in Seq(Turn), NEW K \in SUBSET DOMAIN ts
  PROVE  /\ Asked(Picked(ts, K)) = {ts[k].question : k \in K}
         /\ Asked(Picked(ts, K)) \subseteq Asked(ts)
<1>1. Asked(Picked(ts, K)) = {ts[k].question : k \in K}
  BY PickedTurns DEF Asked
<1> QED
  BY <1>1 DEF Asked

LEMMA OnceInit == Init => OnceInv
<1> SUFFICES ASSUME Init PROVE OnceInv
  OBVIOUS
<1>1. \A r \in Request : task[r].item = None /\ task[r].at = "free"
  BY DEF Init, Free
<1>2. \A c \in Conversation : turns[c] = <<>> /\ docs[c] = {}
  BY DEF Init
<1>3. lost = {} /\ used = {}
  BY DEF Init
<1> QED
  BY <1>1, <1>2, <1>3 DEF OnceInv, Single, Asked, Unwritten


LEMMA OnceStep ==
  ASSUME Types, ShapeInv, OnceInv, [Next]_vars
  PROVE  OnceInv'
<1> DEFINE Quiet == /\ \A r \in Request : SameItem(r)
                    /\ used \subseteq used'
                    /\ \A c \in Conversation :
                         turns'[c] = turns[c] /\ docs'[c] \subseteq docs[c]
                    /\ \A e \in lost' : e \in lost \/ \E c \in Conversation : e \in docs[c]
<1>1. ASSUME NEW c \in Conversation
      PROVE  turns[c] \in Seq(Turn) /\ Asked(turns[c]) \subseteq Question /\ Single(turns[c])
  <2>1. turns[c] \in Seq(Turn)
    BY DEF Types
  <2>2. \A i \in DOMAIN turns[c] : turns[c][i].question \in Question
    BY <2>1, TurnFields
  <2> QED
    BY <2>1, <2>2 DEF Asked, OnceInv
<1>2. \A r \in Request : task[r].at \in Unwritten => task[r].item \in Question
  BY DEF ShapeInv
<1>3. \A c \in Conversation : docs[c] \subseteq File /\ docs[c] \subseteq used
  BY DEF Types, OnceInv
<1>4. \A e \in File : e \notin Question
  BY ChatAssumption
<1>5. ASSUME Quiet PROVE OnceInv'
  <2>1. \A c \in Conversation : Single(turns'[c]) /\ Asked(turns'[c]) \subseteq Asked(turns[c])
    BY <1>1, <1>5
  <2>2. lost' \subseteq used' /\ \A c \in Conversation : docs'[c] \subseteq used'
    BY <1>3, <1>5 DEF OnceInv
  <2>3. \A e \in lost' : e \in lost \/ e \notin Question
    BY <1>3, <1>4, <1>5
  <2> QED
    BY <1>1, <1>2, <1>5, <2>1, <2>2, <2>3, OnceKept
<1>6. ASSUME NEW r \in Request, Others(r), SameItem(r) PROVE \A s \in Request : SameItem(s)
  BY <1>6 DEF Others, SameItem
<1>7. (\A r \in Request : task'[r] = task[r]) => \A r \in Request : SameItem(r)
  BY DEF SameItem
<1>8. CASE UNCHANGED vars \/ Create \/ \E c \in Conversation : Expire(c)
  <2>1. \A r \in Request : task'[r] = task[r]
    BY <1>8 DEF vars, Create, Expire
  <2>2. CASE UNCHANGED vars \/ Create
    BY <1>5, <1>7, <2>1, <2>2 DEF vars, Create
  <2>3. ASSUME NEW c \in Conversation, Expire(c) PROVE OnceInv'
    <3>1. \A d \in Conversation : docs'[d] \subseteq docs[d]
      BY <2>3 DEF Expire, Types
    <3> QED
      BY <1>5, <1>7, <2>1, <2>3, <3>1 DEF Expire
  <2> QED
    BY <1>8, <2>2, <2>3
<1>9. CASE Restart
  <2>1. \A r \in Request : SameItem(r)
    BY <1>9, RestartTurns DEF SameItem
  <2>2. ASSUME NEW c \in Conversation
        PROVE  /\ Single(turns'[c]) /\ Asked(turns'[c]) \subseteq Asked(turns[c])
               /\ ~postgres => turns'[c] = <<>>
    <3>1. CASE postgres
      <4> DEFINE K == {i \in DOMAIN turns[c] : turns[c][i].committed}
      <4>1. turns'[c] = Picked(turns[c], K)
        BY <1>9, <3>1, RestartTurns
      <4>2. K \in SUBSET DOMAIN turns[c]
        OBVIOUS
      <4> HIDE DEF K
      <4>3. Single(turns'[c])
        BY <1>1, <4>1, <4>2, SinglePicked
      <4>4. Asked(turns'[c]) \subseteq Asked(turns[c])
        BY <1>1, <4>1, <4>2, AskedPicked
      <4> QED
        BY <3>1, <4>3, <4>4
    <3>2. CASE ~postgres
      BY <1>9, <3>2, RestartTurns DEF Single, Asked
    <3> QED
      BY <3>1, <3>2
  <2>3. used' = used /\ \A c \in Conversation : docs'[c] \subseteq docs[c]
    BY <1>9 DEF Restart
  <2>4. ASSUME NEW e \in lost'
        PROVE  \/ e \in lost \/ (e \in used /\ e \notin Question)
               \/ e \in used /\ \E c \in Conversation : e \in Asked(turns[c]) \ Asked(turns'[c])
    <3>1. \/ e \in lost
          \/ ~postgres /\ \E c \in Conversation : e \in Asked(turns[c])
          \/ \E c \in Conversation : e \in docs[c]
      BY <1>9, RestartTurns DEF Asked
    <3>2. CASE ~postgres /\ \E c \in Conversation : e \in Asked(turns[c])
      <4>1. PICK c \in Conversation : e \in Asked(turns[c])
        BY <3>2
      <4>2. e \notin Asked(turns'[c])
        BY <2>2, <3>2 DEF Asked
      <4> QED
        BY <4>1, <4>2 DEF OnceInv
    <3> QED
      BY <1>3, <1>4, <3>1, <3>2
  <2>5. lost' \subseteq used' /\ \A c \in Conversation : docs'[c] \subseteq used'
    BY <1>3, <2>3, <2>4 DEF OnceInv
  <2> QED
    BY <1>1, <1>2, <2>1, <2>2, <2>3, <2>4, <2>5, OnceKept
<1>10. ASSUME NEW r \in Request, NEW c \in Conversation,
              Rename(r, c) \/ Delete(r, c) \/ Ask(r, c) \/ Upload(r, c)
       PROVE  OnceInv'
  <2>1. PICK at \in Steps, item \in Question \cup File \cup {None} : Enters(r, c, at, item)
    BY <1>10, EntersIs
  <2>2. /\ task'[r].at = at /\ task'[r].item = item
        /\ \A s \in Request : s # r => task'[s] = task[s]
        /\ item # None => item \notin used
        /\ at \in Unwritten => item # None
        /\ used' = used \cup ({item} \ {None})
        /\ turns' = turns /\ docs' = docs /\ lost' = lost
    BY <2>1, ChatAssumption DEF Enters, Accepts, Others, Unwritten
  <2>3. \A s \in Request : task[s].item \in used \cup {None}
    BY DEF ShapeInv
  <2>4. \A s, t \in Request : s # t /\ task'[s].item # None => task'[s].item # task'[t].item
    BY <2>2, <2>3 DEF OnceInv
  <2>5. \A s \in Request : task'[s].at \in Unwritten =>
          /\ task'[s].item \notin lost
          /\ \A d \in Conversation : task'[s].item \notin Asked(turns[d])
    BY <2>2 DEF OnceInv
  <2>6. /\ lost \subseteq used' /\ \A d \in Conversation : docs[d] \subseteq used'
        /\ \A d \in Conversation : Single(turns[d]) /\ Asked(turns[d]) \subseteq used' \ lost
        /\ \A d, e \in Conversation : d # e => Asked(turns[d]) \cap Asked(turns[e]) = {}
    BY <2>2 DEF OnceInv
  <2> QED
    BY <2>2, <2>4, <2>5, <2>6 DEF OnceInv
<1>11. ASSUME NEW r \in Request,
              \/ RenameStore(r) \/ Retitle(r) \/ LoadConversation(r)
              \/ LoadHistory(r) \/ Retrieve(r) \/ OpenSession(r)
       PROVE  OnceInv'
  <2>1. Walks(r)
    BY <1>11, WalksIs
  <2>2. SameItem(r)
    BY <2>1 DEF Walks, Ends, SameRequest, SameItem, Unwritten
  <2>3. \A s \in Request : SameItem(s)
    BY <1>6, <2>1, <2>2 DEF Walks
  <2> QED
    BY <1>5, <2>1, <2>3 DEF Walks
<1>12. ASSUME NEW r \in Request, StoreDelete(r) PROVE OnceInv'
  <2> DEFINE c == task[r].conv
             K == {i \in DOMAIN turns[c] : ~turns[c][i].committed}
             G == {i \in DOMAIN turns[c] : turns[c][i].committed}
  <2>1. /\ c \in Conversation /\ turns[c] \in Seq(Turn) /\ OtherTurns(c)
        /\ turns'[c] = Picked(turns[c], K)
        /\ lost' = lost \cup {turns[c][k].question : k \in G}
    BY <1>12, StoreDeleteTurns
  <2>2. \A s \in Request : SameItem(s)
    <3>1. Others(r) /\ SameItem(r)
      BY <1>12, StoreDeleteIs DEF SameItem, SameRequest, Unwritten
    <3> QED
      BY <1>6, <3>1
  <2>3. K \in SUBSET DOMAIN turns[c] /\ \A k \in K, g \in G : k # g
    OBVIOUS
  <2>4. UNCHANGED <<used, docs>>
    BY <1>12 DEF StoreDelete
  <2>5. G \subseteq DOMAIN turns[c]
    OBVIOUS
  <2> HIDE DEF c, K, G
  <2>6. /\ Asked(turns'[c]) = {turns[c][k].question : k \in K} /\ Single(turns'[c])
        /\ Asked(turns'[c]) \subseteq Asked(turns[c])
    BY <1>1, <2>1, <2>3, AskedPicked, SinglePicked
  <2>7. ASSUME NEW d \in Conversation
        PROVE  Single(turns'[d]) /\ Asked(turns'[d]) \subseteq Asked(turns[d])
    <3>1. CASE d = c
      BY <2>6, <3>1
    <3>2. CASE d # c
      BY <1>1, <2>1, <3>2 DEF OtherTurns
    <3> QED
      BY <3>1, <3>2
  <2>8. ASSUME NEW e \in lost', e \notin lost PROVE e \in Asked(turns[c]) \ Asked(turns'[c])
    <3>1. PICK g \in G : e = turns[c][g].question
      BY <2>1, <2>8
    <3>2. ASSUME NEW k \in K, e = turns[c][k].question PROVE FALSE
      <4>1. k = g
        BY <1>1, <2>1, <2>3, <2>5, <3>1, <3>2 DEF Single
      <4> QED
        BY <2>3, <4>1
    <3> QED
      BY <2>5, <2>6, <3>1, <3>2 DEF Asked
  <2>9. lost' \subseteq used' /\ \A d \in Conversation : docs'[d] \subseteq used'
    BY <1>3, <2>1, <2>4, <2>8 DEF OnceInv
  <2> QED
    BY <1>1, <1>2, <2>1, <2>2, <2>4, <2>7, <2>8, <2>9, OnceKept
<1>13. ASSUME NEW r \in Request, Clear(r) PROVE OnceInv'
  <2>1. \A s \in Request : SameItem(s)
    BY <1>13, ClearIs DEF SameItem
  <2>2. task[r].conv \in Conversation
    BY <1>13, ClearIs DEF ShapeInv
  <2>3. docs' = [docs EXCEPT ![task[r].conv] = {}] /\ lost' = lost \cup docs[task[r].conv]
        /\ UNCHANGED <<used, turns>>
    BY <1>13 DEF Clear
  <2>4. \A d \in Conversation : docs'[d] \subseteq docs[d]
    BY <2>2, <2>3 DEF Types
  <2> QED
    BY <1>5, <2>1, <2>2, <2>3, <2>4
<1>14. ASSUME NEW r \in Request, Persist(r) PROVE OnceInv'
  <2> DEFINE c == task[r].conv
             q == task[r].item
             x == [question |-> q, seen |-> task[r].seen, committed |-> ~postgres]
  <2>1. /\ c \in Conversation /\ turns[c] \in Seq(Turn) /\ OtherTurns(c)
        /\ x \in Turn /\ turns'[c] = Append(turns[c], x)
        /\ task[r].at \in {"generate", "grounded"}
        /\ Moves(r, IF postgres THEN "commit" ELSE "end")
    BY <1>14, PersistTurns
  <2>2. x.question = q
    OBVIOUS
  <2>3. UNCHANGED <<used, docs, lost>>
    BY <1>14 DEF Persist
  <2>4. q \notin lost /\ \A d \in Conversation : q \notin Asked(turns[d])
    BY <2>1 DEF OnceInv, Unwritten
  <2>5. q \in used /\ q # None
    BY <1>2, <2>1, ChatAssumption DEF ShapeInv, Unwritten
  <2> HIDE DEF x
  <2>6. \A s \in Request : SameItem(s) /\ (task'[s].at \in Unwritten => s # r)
    <3>1. Others(r) /\ SameItem(r) /\ task'[r].at \notin Unwritten
      BY <2>1 DEF Moves, SameRequest, SameItem, Unwritten
    <3> QED
      BY <1>6, <3>1
  <2>7. /\ DOMAIN Append(turns[c], x) = 1 .. Len(turns[c]) + 1 /\ DOMAIN turns[c] = 1 .. Len(turns[c])
        /\ Len(turns[c]) \in Nat
        /\ \A i \in 1 .. Len(turns[c]) : Append(turns[c], x)[i] = turns[c][i]
        /\ Append(turns[c], x)[Len(turns[c]) + 1] = x
    <3> HIDE DEF c
    <3>1. DOMAIN turns[c] = 1 .. Len(turns[c])
      BY <2>1
    <3> QED
      BY <2>1, <3>1, Appended
  <2> HIDE DEF c, q
  <2>8. Asked(turns'[c]) = Asked(turns[c]) \cup {q}
    BY <2>1, <2>2, <2>7 DEF Asked
  <2>9. Single(turns'[c])
    <3>1. Single(turns[c]) /\ \A i \in 1 .. Len(turns[c]) : turns[c][i].question # q
      BY <1>1, <2>1, <2>4, <2>7 DEF Asked
    <3> QED
      BY <2>1, <2>2, <2>7, <3>1 DEF Single
  <2>10. \A d \in Conversation : d # c => turns'[d] = turns[d]
    BY <2>1 DEF OtherTurns
  <2>11. \A d \in Conversation : Single(turns'[d]) /\ Asked(turns'[d]) \subseteq used \ lost
    BY <2>4, <2>5, <2>8, <2>9, <2>10 DEF OnceInv
  <2>12. \A d, e \in Conversation : d # e => Asked(turns'[d]) \cap Asked(turns'[e]) = {}
    BY <2>4, <2>8, <2>10 DEF OnceInv
  <2>13. \A s, t \in Request : s # t /\ task'[s].item # None => task'[s].item # task'[t].item
    BY <2>1, <2>6 DEF OnceInv, Moves, SameRequest, Others
  <2>14. ASSUME NEW s \in Request, task'[s].at \in Unwritten
         PROVE  /\ task'[s].item \notin lost
                /\ \A d \in Conversation : task'[s].item \notin Asked(turns'[d])
    <3>1. s # r /\ task'[s] = task[s]
      BY <2>1, <2>6, <2>14 DEF Moves, Others
    <3>2. task[s].item # q
      BY <2>5, <3>1 DEF OnceInv, q
    <3>3. task[s].item \notin lost /\ \A d \in Conversation : task[s].item \notin Asked(turns[d])
      BY <2>14, <3>1 DEF OnceInv
    <3> QED
      BY <2>8, <2>10, <3>1, <3>2, <3>3
  <2>15. lost \subseteq used /\ \A d \in Conversation : docs[d] \subseteq used
    BY DEF OnceInv
  <2> QED
    BY <2>3, <2>11, <2>12, <2>13, <2>14, <2>15 DEF OnceInv
<1>15. ASSUME NEW r \in Request, Commit(r) PROVE OnceInv'
  <2> DEFINE c == task[r].conv
  <2>1. /\ c \in Conversation /\ turns[c] \in Seq(Turn) /\ OtherTurns(c)
        /\ Marks(turns[c], turns'[c]) /\ Moves(r, "end")
    BY <1>15, CommitTurns
  <2>2. UNCHANGED <<used, docs, lost>>
    BY <1>15 DEF Commit
  <2>3. \A s \in Request : SameItem(s)
    BY <1>6, <2>1 DEF Moves, SameRequest, SameItem, Unwritten
  <2> HIDE DEF c
  <2>4. \A d \in Conversation : Single(turns'[d]) /\ Asked(turns'[d]) = Asked(turns[d])
    <3>1. Single(turns'[c]) /\ Asked(turns'[c]) = Asked(turns[c])
      BY <1>1, <2>1 DEF Marks, Single, Asked
    <3> QED
      BY <1>1, <2>1, <3>1 DEF OtherTurns
  <2>5. lost \subseteq used /\ \A d \in Conversation : docs[d] \subseteq used
    BY DEF OnceInv
  <2> QED
    BY <1>1, <1>2, <2>2, <2>3, <2>4, <2>5, OnceKept
<1>16. ASSUME NEW r \in Request, End(r) PROVE OnceInv'
  <2>1. Ends(r) /\ UNCHANGED <<used, turns, docs, lost>>
    BY <1>16, EndIs
  <2>2. \A s \in Request : SameItem(s)
    BY <1>6, <2>1 DEF Ends, SameItem
  <2> QED
    BY <1>5, <2>1, <2>2
<1>17. ASSUME NEW r \in Request, Index(r) PROVE OnceInv'
  <2> DEFINE c == task[r].conv
             f == task[r].item
  <2>1. /\ Moves(r, "end") /\ c \in Conversation /\ f \in File
        /\ \A d \in Conversation \ {c} : docs'[d] = docs[d]
        /\ docs'[c] \subseteq docs[c] \cup {f}
        /\ lost' \subseteq lost \cup {f}
        /\ UNCHANGED <<used, turns>>
    <3>1. task[r].fit \in BOOLEAN
      BY DEF Types, Task
    <3> QED
      BY <1>17, <3>1, IndexIs
  <2>2. \A s \in Request : SameItem(s)
    BY <1>6, <2>1 DEF Moves, SameRequest, SameItem, Unwritten
  <2>3. f \in used
    BY <2>1, ChatAssumption DEF ShapeInv
  <2> HIDE DEF c, f
  <2>4. lost' \subseteq used' /\ \A d \in Conversation : docs'[d] \subseteq used'
    BY <1>3, <2>1, <2>3 DEF OnceInv
  <2>5. \A e \in lost' : e \in lost \/ e \notin Question
    BY <1>4, <2>1
  <2> QED
    BY <1>1, <1>2, <2>1, <2>2, <2>4, <2>5, OnceKept
<1>18. ASSUME NEW r \in Request, Abort(r) PROVE OnceInv'
  <2> DEFINE c == task[r].conv
             K == {i \in DOMAIN turns[c] :
                     turns[c][i].committed \/ turns[c][i].question # task[r].item}
  <2>1. Ends(r) /\ UNCHANGED <<used, docs, lost>>
    BY <1>18, AbortTurns DEF Abort
  <2>2. \A s \in Request : SameItem(s)
    BY <1>6, <2>1 DEF Ends, SameItem
  <2>3. CASE task[r].at # "commit"
    BY <1>5, <1>18, <2>1, <2>2, <2>3, AbortTurns
  <2>4. CASE task[r].at = "commit"
    <3>1. c \in Conversation /\ turns[c] \in Seq(Turn) /\ OtherTurns(c)
          /\ turns'[c] = Picked(turns[c], K)
      BY <1>18, <2>4, AbortTurns
    <3>2. K \in SUBSET DOMAIN turns[c]
      OBVIOUS
    <3> HIDE DEF c, K
    <3>3. Single(turns'[c]) /\ Asked(turns'[c]) \subseteq Asked(turns[c])
      BY <1>1, <3>1, <3>2, SinglePicked, AskedPicked
    <3>4. \A d \in Conversation : Single(turns'[d]) /\ Asked(turns'[d]) \subseteq Asked(turns[d])
      BY <1>1, <3>1, <3>3 DEF OtherTurns
    <3>5. lost \subseteq used /\ \A d \in Conversation : docs[d] \subseteq used
      BY DEF OnceInv
    <3> QED
      BY <1>1, <1>2, <2>1, <2>2, <3>4, <3>5, OnceKept
  <2> QED
    BY <2>3, <2>4
<1> QED
  BY <1>8, <1>9, <1>10, <1>11, <1>12, <1>13, <1>14, <1>15, <1>16, <1>17, <1>18 DEF Next


-----------------------------------------------------------------------------
(* A row without a commit belongs to a request that is about to commit it *)

RowInv ==
  /\ \A c \in Conversation : \A i \in DOMAIN turns[c] :
       \/ turns[c][i].committed
       \/ \E r \in Request : /\ task[r].at = "commit" /\ task[r].conv = c
                             /\ task[r].item = turns[c][i].question
  /\ \A r \in Request : task[r].at = "commit" =>
       /\ postgres
       /\ \E i \in DOMAIN turns[task[r].conv] :
            turns[task[r].conv][i].question = task[r].item /\ ~turns[task[r].conv][i].committed

\* A thread that is about to commit, before and after the step, or neither.
SameCommit(r) ==
  IF task[r].at = "commit" THEN task'[r] = task[r] ELSE task'[r].at # "commit"

LEMMA RowKept ==
  ASSUME RowInv, \A r \in Request : SameCommit(r), turns' = turns, postgres' = postgres
  PROVE  RowInv'
BY DEF RowInv, SameCommit

LEMMA RowInit == Init => RowInv
<1> SUFFICES ASSUME Init PROVE RowInv
  OBVIOUS
<1>1. \A r \in Request : task[r].at # "commit"
  BY DEF Init, Free
<1>2. \A c \in Conversation : DOMAIN turns[c] = {}
  BY DEF Init
<1> QED
  BY <1>1, <1>2 DEF RowInv

LEMMA RowStep ==
  ASSUME Types, ShapeInv, OnceInv, RowInv, [Next]_vars
  PROVE  RowInv'
<1>1. \A c \in Conversation : turns[c] \in Seq(Turn)
  BY DEF Types
<1>2. Free.at = "free"
  BY DEF Free
<1>3. ASSUME NEW r \in Request, Others(r), SameCommit(r) PROVE \A s \in Request : SameCommit(s)
  BY <1>3 DEF Others, SameCommit
<1>4. CASE UNCHANGED vars \/ Create \/ \E c \in Conversation : Expire(c)
  BY <1>4, RowKept DEF vars, wiring, Create, Expire, SameCommit
<1>5. CASE Restart
  <2>1. (\A r \in Request : task'[r].at = "free") /\ postgres' = postgres /\ postgres \in BOOLEAN
    BY <1>2, <1>5, RestartTurns DEF Restart, wiring, Types
  <2>2. ASSUME NEW c \in Conversation, NEW i \in DOMAIN turns'[c] PROVE turns'[c][i].committed
    <3>1. CASE postgres
      <4> DEFINE K == {k \in DOMAIN turns[c] : turns[c][k].committed}
      <4>1. turns'[c] = Picked(turns[c], K)
        BY <1>5, <3>1, RestartTurns
      <4>2. K \in SUBSET DOMAIN turns[c] /\ \A k \in K : turns[c][k].committed
        OBVIOUS
      <4> HIDE DEF K
      <4> QED
        BY <1>1, <2>2, <4>1, <4>2, PickedTurns
    <3>2. CASE ~postgres
      BY <1>5, <2>2, <3>2, RestartTurns
    <3> QED
      BY <2>1, <3>1, <3>2
  <2> QED
    BY <2>1, <2>2 DEF RowInv
<1>6. ASSUME NEW r \in Request, NEW c \in Conversation,
             Rename(r, c) \/ Delete(r, c) \/ Ask(r, c) \/ Upload(r, c)
      PROVE  RowInv'
  <2>1. PICK at \in Steps, item \in Question \cup File \cup {None} : Enters(r, c, at, item)
    BY <1>6, EntersIs
  <2>2. Others(r) /\ SameCommit(r) /\ turns' = turns /\ postgres' = postgres
    BY <1>2, <2>1 DEF Enters, Accepts, SameCommit, wiring
  <2> QED
    BY <1>3, <2>2, RowKept
<1>7. ASSUME NEW r \in Request,
             \/ RenameStore(r) \/ Retitle(r) \/ LoadConversation(r)
             \/ LoadHistory(r) \/ Retrieve(r) \/ OpenSession(r)
      PROVE  RowInv'
  <2>1. Walks(r)
    BY <1>7, WalksIs
  <2>2. Others(r) /\ SameCommit(r) /\ turns' = turns /\ postgres' = postgres
    BY <1>2, <2>1 DEF Walks, Ends, SameCommit, wiring
  <2> QED
    BY <1>3, <2>2, RowKept
<1>8. ASSUME NEW r \in Request, StoreDelete(r) PROVE RowInv'
  <2> DEFINE c == task[r].conv
             K == {i \in DOMAIN turns[c] : ~turns[c][i].committed}
  <2>1. /\ c \in Conversation /\ turns[c] \in Seq(Turn) /\ OtherTurns(c)
        /\ turns'[c] = Picked(turns[c], K)
    BY <1>8, StoreDeleteTurns
  <2>2. \A s \in Request : SameCommit(s)
    BY <1>3, <1>8, StoreDeleteIs DEF SameCommit
  <2>3. postgres' = postgres
    BY <1>8 DEF StoreDelete, wiring
  <2>4. K \in SUBSET DOMAIN turns[c]
        /\ \A i \in DOMAIN turns[c] : i \in K <=> ~turns[c][i].committed
    OBVIOUS
  <2> HIDE DEF c, K
  <2>5. /\ \A i \in DOMAIN turns'[c] : \E k \in DOMAIN turns[c] : turns'[c][i] = turns[c][k]
        /\ \A k \in K : \E i \in DOMAIN turns'[c] : turns'[c][i] = turns[c][k]
    BY <2>1, <2>4, PickedTurns
  <2>6. ASSUME NEW d \in Conversation, NEW i \in DOMAIN turns'[d]
        PROVE  \/ turns'[d][i].committed
               \/ \E s \in Request : /\ task'[s].at = "commit" /\ task'[s].conv = d
                                     /\ task'[s].item = turns'[d][i].question
    <3>1. PICK k \in DOMAIN turns[d] : turns'[d][i] = turns[d][k]
      BY <2>1, <2>5, <2>6 DEF OtherTurns
    <3> QED
      BY <2>2, <3>1 DEF RowInv, SameCommit
  <2>7. ASSUME NEW s \in Request, task'[s].at = "commit"
        PROVE  /\ postgres
               /\ \E i \in DOMAIN turns'[task'[s].conv] :
                    /\ turns'[task'[s].conv][i].question = task'[s].item
                    /\ ~turns'[task'[s].conv][i].committed
    <3>1. task[s].at = "commit" /\ task'[s] = task[s] /\ postgres /\ task[s].conv \in Conversation
      BY <2>2, <2>7 DEF SameCommit, RowInv, ShapeInv
    <3>2. PICK k \in DOMAIN turns[task[s].conv] :
            /\ turns[task[s].conv][k].question = task[s].item
            /\ ~turns[task[s].conv][k].committed
      BY <3>1 DEF RowInv
    <3>3. CASE task[s].conv = c
      BY <2>4, <2>5, <3>1, <3>2, <3>3
    <3>4. CASE task[s].conv # c
      BY <2>1, <3>1, <3>2, <3>4 DEF OtherTurns
    <3> QED
      BY <3>3, <3>4
  <2> QED
    BY <2>3, <2>6, <2>7 DEF RowInv
<1>9. ASSUME NEW r \in Request, Clear(r) PROVE RowInv'
  <2>1. \A s \in Request : SameCommit(s)
    <3>1. ASSUME NEW s \in Request, s # r, task[s].at # "index" PROVE task'[s] = task[s]
      BY <1>9, <3>1 DEF Clear
    <3> QED
      BY <1>2, <1>9, <3>1, ClearIs DEF SameCommit
  <2> QED
    BY <1>9, <2>1, RowKept DEF Clear, wiring
<1>10. ASSUME NEW r \in Request, Persist(r) PROVE RowInv'
  <2> DEFINE c == task[r].conv
             q == task[r].item
             n == Len(turns[c]) + 1
             x == [question |-> q, seen |-> task[r].seen, committed |-> ~postgres]
  <2>1. /\ c \in Conversation /\ turns[c] \in Seq(Turn) /\ OtherTurns(c)
        /\ x \in Turn /\ turns'[c] = Append(turns[c], x)
        /\ task[r].at \in {"generate", "grounded"}
        /\ Moves(r, IF postgres THEN "commit" ELSE "end")
    BY <1>10, PersistTurns
  <2>2. x.question = q /\ x.committed = ~postgres
    OBVIOUS
  <2>3. postgres' = postgres /\ postgres \in BOOLEAN
    BY <1>10 DEF Persist, wiring, Types
  <2> HIDE DEF x
  <2>4. /\ \A i \in DOMAIN turns[c] : i \in DOMAIN turns'[c] /\ turns'[c][i] = turns[c][i]
        /\ \A i \in DOMAIN turns'[c] : i \in DOMAIN turns[c] \/ i = n
        /\ n \in DOMAIN turns'[c] /\ turns'[c][n] = x
    <3> HIDE DEF c
    <3> QED
      BY <2>1, Appended
  <2>5. /\ task'[r].conv = c /\ task'[r].item = q
        /\ task'[r].at = IF postgres THEN "commit" ELSE "end"
        /\ \A s \in Request : s # r => task'[s] = task[s]
    BY <2>1 DEF Moves, SameRequest, Others
  <2> HIDE DEF c, q, n
  <2>6. ASSUME NEW d \in Conversation, NEW i \in DOMAIN turns'[d]
        PROVE  \/ turns'[d][i].committed
               \/ \E s \in Request : /\ task'[s].at = "commit" /\ task'[s].conv = d
                                     /\ task'[s].item = turns'[d][i].question
    <3>1. CASE d = c /\ i = n
      BY <2>2, <2>3, <2>4, <2>5, <3>1
    <3>2. CASE ~(d = c /\ i = n)
      <4>1. i \in DOMAIN turns[d] /\ turns'[d][i] = turns[d][i]
        BY <2>1, <2>4, <2>6, <3>2 DEF OtherTurns
      <4>2. \A s \in Request : task[s].at = "commit" => s # r
        BY <2>1
      <4> QED
        BY <2>5, <4>1, <4>2 DEF RowInv
    <3> QED
      BY <3>1, <3>2
  <2>7. ASSUME NEW s \in Request, task'[s].at = "commit"
        PROVE  /\ postgres
               /\ \E i \in DOMAIN turns'[task'[s].conv] :
                    /\ turns'[task'[s].conv][i].question = task'[s].item
                    /\ ~turns'[task'[s].conv][i].committed
    <3>1. CASE s = r
      BY <2>2, <2>3, <2>4, <2>5, <2>7, <3>1
    <3>2. CASE s # r
      <4>1. task'[s] = task[s] /\ task[s].at = "commit" /\ task[s].conv \in Conversation
        BY <2>5, <2>7, <3>2 DEF ShapeInv
      <4>2. postgres /\ \E i \in DOMAIN turns[task[s].conv] :
              turns[task[s].conv][i].question = task[s].item /\ ~turns[task[s].conv][i].committed
        BY <4>1 DEF RowInv
      <4>3. \A i \in DOMAIN turns[task[s].conv] :
              i \in DOMAIN turns'[task[s].conv] /\ turns'[task[s].conv][i] = turns[task[s].conv][i]
        BY <2>1, <2>4, <4>1 DEF OtherTurns
      <4> QED
        BY <4>1, <4>2, <4>3
    <3> QED
      BY <3>1, <3>2
  <2> QED
    BY <2>3, <2>6, <2>7 DEF RowInv
<1>11. ASSUME NEW r \in Request, Commit(r) PROVE RowInv'
  <2> DEFINE c == task[r].conv
             q == task[r].item
  <2>1. /\ c \in Conversation /\ turns[c] \in Seq(Turn) /\ OtherTurns(c)
        /\ Marks(turns[c], turns'[c])
        /\ \A i \in DOMAIN turns[c] : turns'[c][i].committed <=>
             turns[c][i].committed \/ turns[c][i].question = q
        /\ task[r].at = "commit" /\ Moves(r, "end")
    BY <1>11, CommitTurns
  <2>2. postgres' = postgres
    BY <1>11 DEF Commit, wiring
  <2>3. q # None
    BY <2>1, ChatAssumption DEF ShapeInv
  <2>4. /\ task'[r].at = "end" /\ \A s \in Request : s # r => task'[s] = task[s]
        /\ \A s \in Request : s # r => task[s].item # q
    BY <2>1, <2>3 DEF Moves, Others, OnceInv
  <2> HIDE DEF c, q
  <2>5. ASSUME NEW d \in Conversation, NEW i \in DOMAIN turns'[d]
        PROVE  \/ turns'[d][i].committed
               \/ \E s \in Request : /\ task'[s].at = "commit" /\ task'[s].conv = d
                                     /\ task'[s].item = turns'[d][i].question
    <3>1. /\ i \in DOMAIN turns[d] /\ turns'[d][i].question = turns[d][i].question
          /\ turns[d][i].committed => turns'[d][i].committed
          /\ (d = c /\ turns[d][i].question = q) => turns'[d][i].committed
      BY <2>1, <2>5 DEF Marks, OtherTurns
    <3>2. turns[d][i].committed \/
          \E s \in Request : /\ task[s].at = "commit" /\ task[s].conv = d
                             /\ task[s].item = turns[d][i].question
      BY <3>1 DEF RowInv
    <3>3. CASE ~turns[d][i].committed
      <4>1. PICK s \in Request : /\ task[s].at = "commit" /\ task[s].conv = d
                                 /\ task[s].item = turns[d][i].question
        BY <3>2, <3>3
      <4>2. CASE s = r
        BY <3>1, <4>1, <4>2 DEF c, q
      <4>3. CASE s # r
        BY <2>4, <3>1, <4>1, <4>3
      <4> QED
        BY <4>2, <4>3
    <3> QED
      BY <3>1, <3>3
  <2>6. ASSUME NEW s \in Request, task'[s].at = "commit"
        PROVE  /\ postgres
               /\ \E i \in DOMAIN turns'[task'[s].conv] :
                    /\ turns'[task'[s].conv][i].question = task'[s].item
                    /\ ~turns'[task'[s].conv][i].committed
    <3>1. s # r /\ task'[s] = task[s] /\ task[s].at = "commit" /\ task[s].conv \in Conversation
          /\ task[s].item # q
      BY <2>4, <2>6 DEF ShapeInv
    <3>2. PICK i \in DOMAIN turns[task[s].conv] :
            /\ turns[task[s].conv][i].question = task[s].item
            /\ ~turns[task[s].conv][i].committed
      BY <3>1 DEF RowInv
    <3>3. /\ i \in DOMAIN turns'[task[s].conv]
          /\ turns'[task[s].conv][i].question = turns[task[s].conv][i].question
          /\ ~turns'[task[s].conv][i].committed
      BY <2>1, <3>1, <3>2 DEF Marks, OtherTurns
    <3> QED
      BY <3>1, <3>2, <3>3 DEF RowInv
  <2> QED
    BY <2>2, <2>5, <2>6 DEF RowInv
<1>12. ASSUME NEW r \in Request, End(r) PROVE RowInv'
  BY <1>2, <1>3, <1>12, EndIs, RowKept DEF Ends, SameCommit, wiring
<1>13. ASSUME NEW r \in Request, Index(r) PROVE RowInv'
  BY <1>3, <1>13, IndexIs, RowKept DEF Moves, SameCommit, wiring
<1>14. ASSUME NEW r \in Request, Abort(r) PROVE RowInv'
  <2> DEFINE c == task[r].conv
             q == task[r].item
             K == {i \in DOMAIN turns[c] : turns[c][i].committed \/ turns[c][i].question # q}
  <2>1. Ends(r) /\ task[r].at # "free" /\ postgres' = postgres
    BY <1>14, AbortTurns DEF Abort, wiring
  <2>2. CASE task[r].at # "commit"
    BY <1>2, <1>3, <1>14, <2>1, <2>2, AbortTurns, RowKept DEF Ends, SameCommit
  <2>3. CASE task[r].at = "commit"
    <3>1. /\ c \in Conversation /\ turns[c] \in Seq(Turn) /\ OtherTurns(c)
          /\ turns'[c] = Picked(turns[c], K)
      BY <1>14, <2>3, AbortTurns
    <3>2. K \in SUBSET DOMAIN turns[c] /\ \A i \in DOMAIN turns[c] :
            i \in K <=> turns[c][i].committed \/ turns[c][i].question # q
      OBVIOUS
    <3>3. q # None
      BY <2>3, ChatAssumption DEF ShapeInv
    <3>4. /\ task'[r].at = "free" /\ \A s \in Request : s # r => task'[s] = task[s]
          /\ \A s \in Request : s # r => task[s].item # q
      BY <1>2, <2>1, <3>3 DEF Ends, Others, OnceInv
    <3> HIDE DEF c, q, K
    <3>5. /\ \A i \in DOMAIN turns'[c] : \E k \in K : turns'[c][i] = turns[c][k]
          /\ \A k \in K : \E i \in DOMAIN turns'[c] : turns'[c][i] = turns[c][k]
      BY <3>1, <3>2, PickedTurns
    <3>6. ASSUME NEW d \in Conversation, NEW i \in DOMAIN turns'[d]
          PROVE  \/ turns'[d][i].committed
                 \/ \E s \in Request : /\ task'[s].at = "commit" /\ task'[s].conv = d
                                       /\ task'[s].item = turns'[d][i].question
      <4>1. PICK k \in DOMAIN turns[d] : turns'[d][i] = turns[d][k] /\ (d = c => k \in K)
        BY <3>1, <3>2, <3>5, <3>6 DEF OtherTurns
      <4>2. CASE ~turns[d][k].committed
        <5>1. PICK s \in Request : /\ task[s].at = "commit" /\ task[s].conv = d
                                   /\ task[s].item = turns[d][k].question
          BY <4>2 DEF RowInv
        <5>2. s # r
          BY <3>2, <4>1, <4>2, <5>1 DEF c, q
        <5> QED
          BY <3>4, <4>1, <5>1, <5>2
      <4> QED
        BY <4>1, <4>2
    <3>7. ASSUME NEW s \in Request, task'[s].at = "commit"
          PROVE  /\ postgres
                 /\ \E i \in DOMAIN turns'[task'[s].conv] :
                      /\ turns'[task'[s].conv][i].question = task'[s].item
                      /\ ~turns'[task'[s].conv][i].committed
      <4>1. s # r /\ task'[s] = task[s] /\ task[s].at = "commit" /\ task[s].conv \in Conversation
            /\ task[s].item # q
        BY <3>4, <3>7 DEF ShapeInv
      <4>2. PICK k \in DOMAIN turns[task[s].conv] :
              /\ turns[task[s].conv][k].question = task[s].item
              /\ ~turns[task[s].conv][k].committed
        BY <4>1 DEF RowInv
      <4>3. postgres
        BY <4>1 DEF RowInv
      <4>4. \E i \in DOMAIN turns'[task[s].conv] :
              turns'[task[s].conv][i] = turns[task[s].conv][k]
        <5>1. CASE task[s].conv = c
          <6>1. k \in DOMAIN turns[c] /\ turns[c][k].question # q
            BY <4>1, <4>2, <5>1
          <6>2. k \in K
            BY <3>2, <6>1
          <6> QED
            BY <3>5, <5>1, <6>2
        <5>2. CASE task[s].conv # c
          BY <3>1, <4>1, <4>2, <5>2 DEF OtherTurns
        <5> QED
          BY <5>1, <5>2
      <4> QED
        BY <4>1, <4>2, <4>3, <4>4
    <3> QED
      BY <2>1, <3>6, <3>7 DEF RowInv
  <2> QED
    BY <2>2, <2>3
<1> QED
  BY <1>4, <1>5, <1>6, <1>7, <1>8, <1>9, <1>10, <1>11, <1>12, <1>13, <1>14 DEF Next


-----------------------------------------------------------------------------
(* What a step makes of stored turns, except for the one that appends *)

\* The turns are kept, or one is marked, or in Postgres rows without a commit go, or
\* all that a reader could see is lost.
Kept(ts, us, more) ==
  \/ us = ts
  \/ Marks(ts, us)
  \/ /\ postgres
     /\ \E K \in SUBSET DOMAIN ts :
          us = Picked(ts, K) /\ \A i \in DOMAIN ts : ts[i].committed => i \in K
  \/ /\ \A i \in DOMAIN ts : ts[i].committed => ts[i].question \in more
     /\ us \in Seq(Turn) /\ \A i \in DOMAIN us : \E k \in DOMAIN ts : us[i] = ts[k]

LEMMA TurnsStep ==
  ASSUME Types, ShapeInv, RowInv, [Next]_vars
  PROVE  /\ lost \subseteq lost' /\ postgres' = postgres
         /\ (\A c \in Conversation : Kept(turns[c], turns'[c], lost')) \/ \E r \in Request : Persist(r)
<1> DEFINE Goal == /\ lost \subseteq lost' /\ postgres' = postgres
                   /\ \A c \in Conversation : Kept(turns[c], turns'[c], lost')
<1>1. ASSUME lost \subseteq lost', postgres' = postgres, turns' = turns PROVE Goal
  BY <1>1 DEF Kept
<1>2. ASSUME NEW c \in Conversation, OtherTurns(c), lost \subseteq lost', postgres' = postgres,
             Kept(turns[c], turns'[c], lost')
      PROVE  Goal
  BY <1>2 DEF OtherTurns, Kept
<1> HIDE DEF Goal
<1>3. ASSUME UNCHANGED vars \/ Create \/ \E c \in Conversation : Expire(c) PROVE Goal
  <2>1. CASE UNCHANGED vars \/ Create
    BY <1>1, <2>1 DEF vars, wiring, Create
  <2>2. ASSUME NEW c \in Conversation, Expire(c) PROVE Goal
    BY <1>1, <2>2 DEF wiring, Expire
  <2> QED
    BY <1>3, <2>1, <2>2
<1>4. CASE Restart
  <2>1. lost \subseteq lost' /\ postgres' = postgres /\ postgres \in BOOLEAN
    BY <1>4, RestartTurns DEF Restart, wiring, Types
  <2>2. ASSUME NEW c \in Conversation PROVE Kept(turns[c], turns'[c], lost')
    <3>1. CASE postgres
      <4> DEFINE K == {i \in DOMAIN turns[c] : turns[c][i].committed}
      <4>1. turns'[c] = Picked(turns[c], K)
        BY <1>4, <3>1, RestartTurns
      <4>2. K \in SUBSET DOMAIN turns[c] /\ \A i \in DOMAIN turns[c] : turns[c][i].committed => i \in K
        OBVIOUS
      <4> HIDE DEF K
      <4> QED
        BY <3>1, <4>1, <4>2 DEF Kept
    <3>2. CASE ~postgres
      <4>1. turns'[c] = <<>> /\ \A i \in DOMAIN turns[c] : turns[c][i].question \in lost'
        BY <1>4, <3>2, RestartTurns
      <4> QED
        BY <4>1 DEF Kept
    <3> QED
      BY <2>1, <3>1, <3>2
  <2> QED
    BY <2>1, <2>2 DEF Goal
<1>5. ASSUME NEW r \in Request, NEW c \in Conversation,
             Rename(r, c) \/ Delete(r, c) \/ Ask(r, c) \/ Upload(r, c)
      PROVE  Goal
  <2>1. PICK at \in Steps, item \in Question \cup File \cup {None} : Enters(r, c, at, item)
    BY <1>5, EntersIs
  <2> QED
    BY <1>1, <2>1 DEF Enters, wiring
<1>6. ASSUME NEW r \in Request,
             \/ RenameStore(r) \/ Retitle(r) \/ LoadConversation(r)
             \/ LoadHistory(r) \/ Retrieve(r) \/ OpenSession(r)
      PROVE  Goal
  BY <1>1, <1>6, WalksIs DEF Walks, wiring
<1>7. ASSUME NEW r \in Request, StoreDelete(r) PROVE Goal
  <2> DEFINE c == task[r].conv
             K == {i \in DOMAIN turns[c] : ~turns[c][i].committed}
             G == {i \in DOMAIN turns[c] : turns[c][i].committed}
  <2>1. /\ c \in Conversation /\ turns[c] \in Seq(Turn) /\ OtherTurns(c)
        /\ turns'[c] = Picked(turns[c], K)
        /\ lost' = lost \cup {turns[c][k].question : k \in G}
    BY <1>7, StoreDeleteTurns
  <2>2. postgres' = postgres
    BY <1>7 DEF StoreDelete, wiring
  <2>3. K \in SUBSET DOMAIN turns[c] /\ \A i \in DOMAIN turns[c] : turns[c][i].committed => i \in G
    OBVIOUS
  <2> HIDE DEF c, K, G
  <2>4. \A i \in DOMAIN turns[c] : turns[c][i].committed => turns[c][i].question \in lost'
    BY <2>1, <2>3
  <2>5. turns'[c] \in Seq(Turn) /\ \A i \in DOMAIN turns'[c] : \E k \in DOMAIN turns[c] :
          turns'[c][i] = turns[c][k]
    BY <2>1, <2>3, PickedTurns
  <2>6. Kept(turns[c], turns'[c], lost')
    BY <2>4, <2>5 DEF Kept
  <2> QED
    BY <1>2, <2>1, <2>2, <2>6
<1>8. ASSUME NEW r \in Request, Clear(r) PROVE Goal
  BY <1>1, <1>8 DEF Clear, wiring
<1>9. ASSUME NEW r \in Request, Persist(r) PROVE lost \subseteq lost' /\ postgres' = postgres
  BY <1>9 DEF Persist, wiring
<1>10. ASSUME NEW r \in Request, Commit(r) PROVE Goal
  <2>1. lost \subseteq lost' /\ postgres' = postgres
    BY <1>10 DEF Commit, wiring
  <2>2. task[r].conv \in Conversation /\ OtherTurns(task[r].conv)
        /\ Marks(turns[task[r].conv], turns'[task[r].conv])
    BY <1>10, CommitTurns
  <2> QED
    BY <1>2, <2>1, <2>2 DEF Kept
<1>11. ASSUME NEW r \in Request, End(r) PROVE Goal
  BY <1>1, <1>11 DEF End, wiring
<1>12. ASSUME NEW r \in Request, Index(r) PROVE Goal
  BY <1>1, <1>12 DEF Index, wiring
<1>13. ASSUME NEW r \in Request, Abort(r) PROVE Goal
  <2>1. lost \subseteq lost' /\ postgres' = postgres
    BY <1>13 DEF Abort, wiring
  <2>2. CASE task[r].at # "commit"
    BY <1>1, <1>13, <2>1, <2>2, AbortTurns
  <2>3. CASE task[r].at = "commit"
    <3> DEFINE c == task[r].conv
               K == {i \in DOMAIN turns[c] :
                       turns[c][i].committed \/ turns[c][i].question # task[r].item}
    <3>1. c \in Conversation /\ OtherTurns(c) /\ turns'[c] = Picked(turns[c], K)
      BY <1>13, <2>3, AbortTurns
    <3>2. postgres
      BY <2>3 DEF RowInv
    <3>3. K \in SUBSET DOMAIN turns[c] /\ \A i \in DOMAIN turns[c] : turns[c][i].committed => i \in K
      OBVIOUS
    <3> HIDE DEF c, K
    <3>4. Kept(turns[c], turns'[c], lost')
      BY <3>1, <3>2, <3>3 DEF Kept
    <3> QED
      BY <1>2, <2>1, <3>1, <3>4
  <2> QED
    BY <2>2, <2>3
<1> QED
  BY <1>3, <1>4, <1>5, <1>6, <1>7, <1>8, <1>9, <1>10, <1>11, <1>12, <1>13 DEF Next, Goal

LEMMA KeptCommitted ==
  ASSUME NEW ts \in Seq(Turn), NEW us, NEW more, Kept(ts, us, more), NEW q, HasCommitted(ts, q)
  PROVE  q \in more \/ HasCommitted(us, q)
<1>1. CASE us = ts
  BY <1>1
<1>2. CASE Marks(ts, us)
  BY <1>2, HasCommittedMarked
<1>3. ASSUME NEW K \in SUBSET DOMAIN ts, us = Picked(ts, K),
             \A i \in DOMAIN ts : ts[i].committed => i \in K
      PROVE  HasCommitted(us, q)
  BY <1>3, HasCommittedPicked
<1>4. CASE \A i \in DOMAIN ts : ts[i].committed => ts[i].question \in more
  BY <1>4 DEF HasCommitted
<1> QED
  BY <1>1, <1>2, <1>3, <1>4 DEF Kept

LEMMA KeptOlder ==
  ASSUME NEW ts \in Seq(Turn), NEW us, NEW more, Kept(ts, us, more), NEW q, NEW seen,
         Older(ts, q, seen)
  PROVE  q \in more \/ Older(us, q, seen)
<1>1. CASE us = ts
  BY <1>1
<1>2. CASE Marks(ts, us)
  BY <1>2, OlderMarked
<1>3. ASSUME NEW K \in SUBSET DOMAIN ts, us = Picked(ts, K),
             \A i \in DOMAIN ts : ts[i].committed => i \in K
      PROVE  Older(us, q, seen)
  BY <1>3, OlderPicked
<1>4. CASE \A i \in DOMAIN ts : ts[i].committed => ts[i].question \in more
  BY <1>4 DEF HasCommitted, Older
<1> QED
  BY <1>1, <1>2, <1>3, <1>4 DEF Kept

\* Contexts stay past: those of the stored turns, and one that is not yet stored.
LEMMA KeptPast ==
  ASSUME postgres \in BOOLEAN,
         NEW ts \in Seq(Turn), NEW us \in Seq(Turn), NEW gone, NEW more, gone \subseteq more,
         Kept(ts, us, more)
  PROVE  /\ (\A i \in DOMAIN ts : Past(ts, gone, ~postgres, ts[i].seen, i)) =>
               \A i \in DOMAIN us : Past(us, more, ~postgres, us[i].seen, i)
         /\ \A seen : Past(ts, gone, ~postgres, seen, Len(ts) + 1) =>
                        Past(us, more, ~postgres, seen, Len(us) + 1)
<1> DEFINE gapless == ~postgres
           Goal == /\ (\A i \in DOMAIN ts : Past(ts, gone, gapless, ts[i].seen, i)) =>
                        \A i \in DOMAIN us : Past(us, more, gapless, us[i].seen, i)
                   /\ \A seen : Past(ts, gone, gapless, seen, Len(ts) + 1) =>
                                Past(us, more, gapless, seen, Len(us) + 1)
<1>1. gapless \in BOOLEAN /\ (postgres => gapless = FALSE)
  OBVIOUS
<1> HIDE DEF gapless
<1>2. ASSUME us = ts PROVE Goal
  BY <1>1, <1>2, PastGoneGrows
<1>3. ASSUME Marks(ts, us) PROVE Goal
  <2>1. DOMAIN us = DOMAIN ts /\ Len(us) = Len(ts) /\ \A i \in DOMAIN ts : us[i].seen = ts[i].seen
    BY <1>3 DEF Marks
  <2>2. ASSUME NEW seen, NEW n, Past(ts, gone, gapless, seen, n) PROVE Past(us, more, gapless, seen, n)
    <3>1. Past(ts, more, gapless, seen, n)
      BY <1>1, <2>2, PastGoneGrows
    <3> QED
      BY <1>1, <1>3, <3>1, PastMarked
  <2>3. ASSUME NEW i \in DOMAIN us, Past(ts, gone, gapless, ts[i].seen, i)
        PROVE  Past(us, more, gapless, us[i].seen, i)
    <3>1. us[i].seen = ts[i].seen
      BY <2>1
    <3> QED
      BY <2>2, <2>3, <3>1
  <2>4. ASSUME NEW seen, Past(ts, gone, gapless, seen, Len(ts) + 1)
        PROVE  Past(us, more, gapless, seen, Len(us) + 1)
    <3>1. Past(us, more, gapless, seen, Len(ts) + 1)
      BY <2>2, <2>4
    <3> QED
      BY <2>1, <3>1
  <2> QED
    BY <2>1, <2>3, <2>4
<1>4. ASSUME postgres, NEW K \in SUBSET DOMAIN ts, us = Picked(ts, K),
             \A i \in DOMAIN ts : ts[i].committed => i \in K
      PROVE  Goal
  <2>1. /\ \A i \in DOMAIN us : Ith(K, i) \in DOMAIN ts /\ us[i] = ts[Ith(K, i)]
        /\ \A i, j \in DOMAIN us : i < j <=> Ith(K, i) < Ith(K, j)
    BY <1>4, PickedTurns
  <2>2. \A i \in DOMAIN us : i \in Nat /\ i < Len(us) + 1
    BY TurnFields
  <2>3. ASSUME NEW i \in DOMAIN us, Past(ts, gone, gapless, ts[Ith(K, i)].seen, Ith(K, i))
        PROVE  Past(us, more, gapless, us[i].seen, i)
    <3> DEFINE n == Ith(K, i)
               seen == us[i].seen
    <3>1. Past(ts, gone, FALSE, seen, n)
      BY <1>1, <1>4, <2>1, <2>3
    <3>2. Past(ts, more, FALSE, seen, n)
      <4> HIDE DEF n, seen
      <4> QED
        BY <3>1, PastGoneGrows
    <3>3. \A j \in DOMAIN us : Ith(K, j) < n => j < i
      BY <2>1
    <3> HIDE DEF n, seen
    <3>4. Past(us, more, FALSE, seen, i)
      BY <1>4, <3>2, <3>3, PastPicked
    <3> QED
      BY <1>1, <1>4, <3>4 DEF seen
  <2>4. ASSUME NEW seen, Past(ts, gone, gapless, seen, Len(ts) + 1)
        PROVE  Past(us, more, gapless, seen, Len(us) + 1)
    <3> DEFINE n == Len(ts) + 1
               m == Len(us) + 1
    <3>1. Past(ts, gone, FALSE, seen, n)
      BY <1>1, <1>4, <2>4
    <3>2. \A j \in DOMAIN us : Ith(K, j) < n => j < m
      BY <2>2
    <3> HIDE DEF n, m
    <3>3. Past(ts, more, FALSE, seen, n)
      BY <3>1, PastGoneGrows
    <3>4. Past(us, more, FALSE, seen, m)
      BY <1>4, <3>2, <3>3, PastPicked
    <3> QED
      BY <1>1, <1>4, <3>4 DEF m
  <2> QED
    BY <2>1, <2>3, <2>4
<1>5. ASSUME \A i \in DOMAIN ts : ts[i].committed => ts[i].question \in more,
             \A i \in DOMAIN us : \E k \in DOMAIN ts : us[i] = ts[k]
      PROVE  Goal
  <2>1. ASSUME NEW seen, NEW n, Past(ts, gone, gapless, seen, n), NEW m
        PROVE  Past(us, more, gapless, seen, m)
    BY <1>1, <1>5, <2>1, PastAllGone
  <2> QED
    BY <1>5, <2>1
<1> QED
  BY <1>2, <1>3, <1>4, <1>5 DEF Kept, gapless


LEMMA CommittedStays ==
  ASSUME Types, ShapeInv, RowInv, [Next]_vars, NEW c \in Conversation, NEW q, HasCommitted(turns[c], q)
  PROVE  q \in lost' \/ HasCommitted(turns'[c], q)
<1>1. turns[c] \in Seq(Turn)
  BY DEF Types
<1>2. CASE Kept(turns[c], turns'[c], lost')
  BY <1>1, <1>2, KeptCommitted
<1>3. ASSUME NEW r \in Request, Persist(r) PROVE HasCommitted(turns'[c], q)
  <2> DEFINE d == task[r].conv
             x == [question |-> task[r].item, seen |-> task[r].seen, committed |-> ~postgres]
  <2>1. /\ d \in Conversation /\ turns[d] \in Seq(Turn) /\ OtherTurns(d)
        /\ x \in Turn /\ turns'[d] = Append(turns[d], x)
    BY <1>3, PersistTurns
  <2> HIDE DEF d, x
  <2>2. \A i \in DOMAIN turns[d] : i \in DOMAIN turns'[d] /\ turns'[d][i] = turns[d][i]
    BY <2>1, Appended
  <2> QED
    BY <2>1, <2>2 DEF OtherTurns, HasCommitted
<1> QED
  BY <1>2, <1>3, TurnsStep

LEMMA DocsStay ==
  ASSUME Types, ShapeInv, [Next]_vars
  PROVE  \A c \in Conversation : docs[c] \subseteq docs'[c] \cup lost'
<1>1. CASE UNCHANGED vars \/ Create
  BY <1>1 DEF vars, Create
<1>2. ASSUME NEW c \in Conversation, Expire(c) PROVE \A d \in Conversation : docs[d] \subseteq docs'[d] \cup lost'
  BY <1>2 DEF Expire, Types
<1>3. CASE Restart
  <2>1. redis \in BOOLEAN
    BY DEF Types
  <2> QED
    BY <1>3, <2>1, RestartTurns
<1>4. ASSUME NEW r \in Request, NEW c \in Conversation,
             Rename(r, c) \/ Delete(r, c) \/ Ask(r, c) \/ Upload(r, c)
      PROVE  docs' = docs
  BY <1>4 DEF Rename, Delete, Ask, Upload
<1>5. ASSUME NEW r \in Request,
             \/ RenameStore(r) \/ Retitle(r) \/ LoadConversation(r)
             \/ LoadHistory(r) \/ Retrieve(r) \/ OpenSession(r)
      PROVE  docs' = docs
  <2>1. Walks(r)
    BY <1>5, WalksIs
  <2> QED
    BY <2>1 DEF Walks
<1>6. ASSUME NEW r \in Request, StoreDelete(r) \/ Persist(r) \/ Commit(r) \/ End(r) \/ Abort(r)
      PROVE  docs' = docs
  BY <1>6 DEF StoreDelete, Persist, Commit, End, Abort
<1>7. ASSUME NEW r \in Request, Clear(r) PROVE \A c \in Conversation : docs[c] \subseteq docs'[c] \cup lost'
  BY <1>7 DEF Clear, Types
<1>8. ASSUME NEW r \in Request, Index(r) PROVE \A c \in Conversation : docs[c] \subseteq docs'[c] \cup lost'
  <2>1. task[r].fit \in BOOLEAN
    BY DEF Types, Task
  <2> QED
    BY <1>8, <2>1, IndexIs
<1> QED
  BY <1>1, <1>2, <1>3, <1>4, <1>5, <1>6, <1>7, <1>8 DEF Next

-----------------------------------------------------------------------------
(* What a client was told is stored, unless it was removed *)

Answered(c, q, ts, gone) == q \in Question /\ q \notin gone => HasCommitted(ts[c], q)

Uploaded(c, f, ds, gone) == f \in File => f \in ds[c] \cup gone

ToldInv ==
  /\ \A c \in Conversation : \A e \in told[c] :
       Answered(c, e, turns, lost) /\ Uploaded(c, e, docs, lost)
  /\ \A r \in Request : task[r].at = "end" =>
       /\ Answered(task[r].conv, task[r].item, turns, lost)
       /\ Uploaded(task[r].conv, task[r].item, docs, lost)

LEMMA ToldInit == Init => ToldInv
<1> SUFFICES ASSUME Init PROVE ToldInv
  OBVIOUS
<1>1. \A r \in Request : task[r].at # "end"
  BY DEF Init, Free
<1>2. \A c \in Conversation : told[c] = {}
  BY DEF Init
<1> QED
  BY <1>1, <1>2 DEF ToldInv

\* A thread at its end was there before.
SameEnd(r) == task'[r].at = "end" => task'[r] = task[r]

LEMMA ToldKept ==
  ASSUME Types, ShapeInv, RowInv, ToldInv, [Next]_vars,
         \A c \in Conversation : \A e \in told'[c] :
           e \in told[c] \/ \E r \in Request : /\ task[r].at = "end" /\ task[r].conv = c
                                               /\ task[r].item = e,
         \A r \in Request : \/ SameEnd(r)
                            \/ /\ Answered(task'[r].conv, task'[r].item, turns', lost')
                               /\ Uploaded(task'[r].conv, task'[r].item, docs', lost')
  PROVE  ToldInv'
<1>1. lost \subseteq lost'
  BY TurnsStep
<1>2. ASSUME NEW c \in Conversation, NEW q, Answered(c, q, turns, lost)
      PROVE  Answered(c, q, turns', lost')
  BY <1>1, <1>2, CommittedStays DEF Answered
<1>3. ASSUME NEW c \in Conversation, NEW f, Uploaded(c, f, docs, lost)
      PROVE  Uploaded(c, f, docs', lost')
  BY <1>1, <1>3, DocsStay DEF Uploaded
<1>4. ASSUME NEW c \in Conversation, NEW e \in told'[c]
      PROVE  Answered(c, e, turns', lost') /\ Uploaded(c, e, docs', lost')
  <2>1. Answered(c, e, turns, lost) /\ Uploaded(c, e, docs, lost)
    BY <1>4 DEF ToldInv
  <2> QED
    BY <1>2, <1>3, <2>1
<1>5. ASSUME NEW r \in Request, task'[r].at = "end"
      PROVE  /\ Answered(task'[r].conv, task'[r].item, turns', lost')
             /\ Uploaded(task'[r].conv, task'[r].item, docs', lost')
  <2>1. CASE SameEnd(r)
    <3>1. task'[r] = task[r] /\ task[r].at = "end" /\ task[r].conv \in Conversation
      BY <1>5, <2>1 DEF SameEnd, ShapeInv
    <3>2. /\ Answered(task[r].conv, task[r].item, turns, lost)
          /\ Uploaded(task[r].conv, task[r].item, docs, lost)
      BY <3>1 DEF ToldInv
    <3> QED
      BY <1>2, <1>3, <3>1, <3>2
  <2> QED
    BY <2>1
<1> QED
  BY <1>4, <1>5 DEF ToldInv

LEMMA ToldStep ==
  ASSUME Types, ShapeInv, OnceInv, RowInv, ToldInv, [Next]_vars
  PROVE  ToldInv'
<1>1. Free.at = "free"
  BY DEF Free
<1>2. ASSUME \A r \in Request : SameEnd(r), told' = told PROVE ToldInv'
  BY <1>2, ToldKept
<1>3. ASSUME NEW r \in Request, Others(r), SameEnd(r) PROVE \A s \in Request : SameEnd(s)
  BY <1>3 DEF Others, SameEnd
<1>4. ASSUME NEW r \in Request, Others(r), told' = told,
             Answered(task'[r].conv, task'[r].item, turns', lost'),
             Uploaded(task'[r].conv, task'[r].item, docs', lost')
      PROVE  ToldInv'
  <2>1. \A s \in Request : \/ SameEnd(s)
                           \/ /\ Answered(task'[s].conv, task'[s].item, turns', lost')
                              /\ Uploaded(task'[s].conv, task'[s].item, docs', lost')
    BY <1>4 DEF Others, SameEnd
  <2> QED
    BY <1>4, <2>1, ToldKept
<1>5. CASE UNCHANGED vars \/ Create
  BY <1>2, <1>5 DEF vars, Create, SameEnd
<1>6. ASSUME NEW c \in Conversation, Expire(c) PROVE ToldInv'
  BY <1>2, <1>6 DEF Expire, SameEnd
<1>7. CASE Restart
  BY <1>1, <1>2, <1>7, RestartTurns DEF Restart, SameEnd
<1>8. ASSUME NEW r \in Request, NEW c \in Conversation,
             Rename(r, c) \/ Delete(r, c) \/ Ask(r, c) \/ Upload(r, c)
      PROVE  ToldInv'
  <2>1. PICK at \in Steps, item \in Question \cup File \cup {None} : Enters(r, c, at, item)
    BY <1>8, EntersIs
  <2>2. Others(r) /\ SameEnd(r) /\ told' = told
    BY <2>1 DEF Enters, Accepts, SameEnd
  <2> QED
    BY <1>2, <1>3, <2>2
<1>9. ASSUME NEW r \in Request,
             \/ RenameStore(r) \/ Retitle(r) \/ LoadConversation(r)
             \/ LoadHistory(r) \/ Retrieve(r) \/ OpenSession(r)
      PROVE  ToldInv'
  <2>1. Walks(r)
    BY <1>9, WalksIs
  <2>2. Others(r) /\ SameEnd(r) /\ told' = told
    BY <1>1, <2>1 DEF Walks, Ends, SameEnd
  <2> QED
    BY <1>2, <1>3, <2>2
<1>10. ASSUME NEW r \in Request, StoreDelete(r) PROVE ToldInv'
  <2>1. Others(r) /\ SameEnd(r) /\ told' = told
    BY <1>10, StoreDeleteIs DEF StoreDelete, SameEnd
  <2> QED
    BY <1>2, <1>3, <2>1
<1>11. ASSUME NEW r \in Request, Clear(r) PROVE ToldInv'
  <2>1. told' = told /\ \A s \in Request : s # r /\ task[s].at # "index" => task'[s] = task[s]
    BY <1>11 DEF Clear
  <2>2. \A s \in Request : SameEnd(s)
    BY <1>1, <1>11, <2>1, ClearIs DEF SameEnd
  <2> QED
    BY <1>2, <2>1, <2>2
<1>12. ASSUME NEW r \in Request, Persist(r) PROVE ToldInv'
  <2> DEFINE c == task[r].conv
             q == task[r].item
             x == [question |-> q, seen |-> task[r].seen, committed |-> ~postgres]
  <2>1. /\ c \in Conversation /\ turns[c] \in Seq(Turn)
        /\ x \in Turn /\ turns'[c] = Append(turns[c], x)
        /\ Moves(r, IF postgres THEN "commit" ELSE "end")
        /\ task[r].at \in {"generate", "grounded"}
    BY <1>12, PersistTurns
  <2>2. x.question = q /\ x.committed = ~postgres /\ postgres \in BOOLEAN
    BY DEF Types
  <2>3. told' = told /\ q \in Question
    BY <1>12, <2>1 DEF Persist, ShapeInv, Unwritten
  <2>4. /\ Others(r) /\ task'[r].conv = c /\ task'[r].item = q
        /\ task'[r].at = IF postgres THEN "commit" ELSE "end"
    BY <2>1 DEF Moves, SameRequest
  <2> HIDE DEF c, q, x
  <2>5. Len(turns[c]) + 1 \in DOMAIN turns'[c] /\ turns'[c][Len(turns[c]) + 1] = x
    BY <2>1, Appended
  <2>6. CASE postgres
    <3>1. SameEnd(r)
      BY <2>4, <2>6 DEF SameEnd
    <3> QED
      BY <1>2, <1>3, <2>3, <2>4, <3>1
  <2>7. CASE ~postgres
    <3>1. Answered(c, q, turns', lost')
      BY <2>2, <2>5, <2>7 DEF Answered, HasCommitted
    <3>2. Uploaded(c, q, docs', lost')
      BY <2>3, ChatAssumption DEF Uploaded
    <3> QED
      BY <1>4, <2>3, <2>4, <3>1, <3>2
  <2> QED
    BY <2>6, <2>7
<1>13. ASSUME NEW r \in Request, Commit(r) PROVE ToldInv'
  <2> DEFINE c == task[r].conv
             q == task[r].item
  <2>1. /\ c \in Conversation /\ Marks(turns[c], turns'[c])
        /\ \A i \in DOMAIN turns[c] : turns'[c][i].committed <=>
             turns[c][i].committed \/ turns[c][i].question = q
        /\ task[r].at = "commit" /\ Moves(r, "end")
    BY <1>13, CommitTurns, SMTT(20)
  <2>2. told' = told /\ q \in Question
    BY <1>13, <2>1 DEF Commit, ShapeInv
  <2>3. Others(r) /\ task'[r].conv = c /\ task'[r].item = q
    BY <2>1 DEF Moves, SameRequest
  <2>4. PICK i \in DOMAIN turns[c] : turns[c][i].question = q
    BY <2>1 DEF RowInv
  <2> HIDE DEF c, q
  <2>5. HasCommitted(turns'[c], q)
    BY <2>1, <2>4 DEF Marks, HasCommitted
  <2>6. Answered(c, q, turns', lost') /\ Uploaded(c, q, docs', lost')
    BY <2>2, <2>5, ChatAssumption DEF Answered, Uploaded
  <2> QED
    BY <1>4, <2>2, <2>3, <2>6
<1>14. ASSUME NEW r \in Request, End(r) PROVE ToldInv'
  <2>1. Others(r) /\ SameEnd(r)
    BY <1>1, <1>14, EndIs DEF Ends, SameEnd
  <2>2. \A s \in Request : SameEnd(s)
    BY <1>3, <2>1
  <2>3. \A c \in Conversation : \A e \in told'[c] :
          e \in told[c] \/ \E s \in Request : /\ task[s].at = "end" /\ task[s].conv = c
                                              /\ task[s].item = e
    BY <1>14, EndIs
  <2> QED
    BY <2>2, <2>3, ToldKept
<1>15. ASSUME NEW r \in Request, Index(r) PROVE ToldInv'
  <2> DEFINE c == task[r].conv
             f == task[r].item
  <2>1. /\ Moves(r, "end") /\ f \in File /\ told' = told
        /\ f \in docs'[c] \cup lost'
    <3>1. task[r].fit \in BOOLEAN
      BY DEF Types, Task
    <3> QED
      BY <1>15, <3>1, IndexIs
  <2>2. Others(r) /\ task'[r].conv = c /\ task'[r].item = f
    BY <2>1 DEF Moves, SameRequest
  <2> HIDE DEF c, f
  <2>3. Answered(c, f, turns', lost') /\ Uploaded(c, f, docs', lost')
    BY <2>1, ChatAssumption DEF Answered, Uploaded
  <2> QED
    BY <1>4, <2>1, <2>2, <2>3
<1>16. ASSUME NEW r \in Request, Abort(r) PROVE ToldInv'
  <2>1. Others(r) /\ SameEnd(r) /\ told' = told
    BY <1>1, <1>16, AbortTurns DEF Abort, Ends, SameEnd
  <2> QED
    BY <1>2, <1>3, <2>1
<1> QED
  BY <1>5, <1>6, <1>7, <1>8, <1>9, <1>10, <1>11, <1>12, <1>13, <1>14, <1>15, <1>16 DEF Next


-----------------------------------------------------------------------------
(* Contexts are of the past, and know of what the client was told *)

PastInv ==
  /\ \A c \in Conversation : \A i \in DOMAIN turns[c] :
       Past(turns[c], lost, ~postgres, turns[c][i].seen, i)
  /\ \A r \in Request : task[r].at \in Informed =>
       Past(turns[task[r].conv], lost, ~postgres, task[r].seen, Len(turns[task[r].conv]) + 1)

Knows(t, ts, gone) ==
  \A q \in t.known \cap Question :
    \/ q \in gone \cup ToSet(t.seen)
    \/ Len(t.seen) = HistoryLimit /\ Older(ts[t.conv], q, t.seen)

KnownInv ==
  \A r \in Request :
    /\ task[r].at \in Informed => Knows(task[r], turns, lost)
    /\ task[r].at \in {"broaden", "grounded"} =>
         task[r].known \cap File \subseteq task[r].searched \cup lost

LEMMA PastInit == Init => PastInv /\ KnownInv
<1> SUFFICES ASSUME Init PROVE PastInv /\ KnownInv
  OBVIOUS
<1>1. \A r \in Request : task[r].at = "free"
  BY DEF Init, Free
<1>2. \A c \in Conversation : DOMAIN turns[c] = {}
  BY DEF Init
<1> QED
  BY <1>1, <1>2 DEF PastInv, KnownInv, Informed

\* How a thread comes by a context, and by what its search found.
SameContext(r) ==
  /\ task[r].at \in Informed
  /\ task'[r].conv = task[r].conv /\ task'[r].seen = task[r].seen
  /\ task'[r].known = task[r].known

SameSearch(r) ==
  task'[r].at \in {"broaden", "grounded"} =>
    task[r].at \in {"broaden", "grounded"} /\ task'[r].searched = task[r].searched

LEMMA InformedStep ==
  ASSUME Types, ShapeInv, [Next]_vars, NEW r \in Request, task'[r].at \in Informed
  PROVE  \/ LoadHistory(r)
         \/ SameContext(r) /\ (SameSearch(r) \/ Retrieve(r))
<1> DEFINE Goal == \/ LoadHistory(r)
                   \/ SameContext(r) /\ (SameSearch(r) \/ Retrieve(r))
<1>1. Free.at \notin Informed
  BY DEF Free, Informed
<1>2. ASSUME task'[r] = task[r] PROVE Goal
  BY <1>2 DEF SameContext, SameSearch
<1>3. ASSUME NEW s \in Request, Others(s), task'[s].at \notin Informed PROVE Goal
  BY <1>2, <1>3 DEF Others
<1> HIDE DEF Goal
<1>4. ASSUME UNCHANGED vars \/ Create PROVE Goal
  BY <1>2, <1>4 DEF vars, Create
<1>5. ASSUME NEW c \in Conversation, Expire(c) PROVE Goal
  BY <1>2, <1>5 DEF Expire
<1>6. ASSUME Restart PROVE Goal
  BY <1>1, <1>6, RestartTurns
<1>7. ASSUME NEW s \in Request, NEW c \in Conversation,
             Rename(s, c) \/ Delete(s, c) \/ Ask(s, c) \/ Upload(s, c)
      PROVE  Goal
  <2>1. PICK at \in Steps, item \in Question \cup File \cup {None} : Enters(s, c, at, item)
    BY <1>7, EntersIs
  <2>2. Others(s) /\ task'[s].at \notin Informed
    BY <2>1 DEF Enters, Accepts, Informed
  <2> QED
    BY <1>3, <2>2
<1>8. ASSUME NEW s \in Request, LoadHistory(s) \/ Retrieve(s) PROVE Goal
  <2>1. Others(s)
    BY <1>8, LoadHistoryIs, RetrieveIs
  <2>2. CASE s = r /\ LoadHistory(s)
    BY <2>2 DEF Goal
  <2>3. CASE s = r /\ Retrieve(s)
    <3>1. SameContext(r)
      BY <2>3, RetrieveIs DEF SameContext, SameRequest, Informed
    <3> QED
      BY <2>3, <3>1 DEF Goal
  <2>4. CASE s # r
    BY <1>2, <2>1, <2>4 DEF Others
  <2> QED
    BY <1>8, <2>2, <2>3, <2>4
<1>9. ASSUME NEW s \in Request, RenameStore(s) \/ Retitle(s) \/ LoadConversation(s) \/ OpenSession(s)
      PROVE  Goal
  <2>1. Walks(s) /\ task[s].at \in {"rename", "retitle", "load", "open"}
    BY <1>9, WalksIs DEF RenameStore, Retitle, LoadConversation, OpenSession, At
  <2>2. Others(s) /\ task'[s].at \notin Informed
    BY <1>1, <2>1 DEF Walks, Ends, Informed
  <2> QED
    BY <1>3, <2>2
<1>10. ASSUME NEW s \in Request, Clear(s) PROVE Goal
  <2>1. \A t \in Request : t # s /\ task[t].at # "index" => task'[t] = task[t]
    BY <1>10 DEF Clear
  <2>2. r # s /\ task[r].at # "index"
    BY <1>1, <1>10, ClearIs DEF Informed
  <2> QED
    BY <1>2, <2>1, <2>2
<1>11. ASSUME NEW s \in Request, StoreDelete(s) PROVE Goal
  BY <1>3, <1>11, StoreDeleteIs DEF Informed
<1>12. ASSUME NEW s \in Request, Persist(s) PROVE Goal
  BY <1>3, <1>12, PersistTurns DEF Moves, Informed
<1>13. ASSUME NEW s \in Request, Commit(s) PROVE Goal
  BY <1>3, <1>13, CommitTurns DEF Moves, Informed
<1>14. ASSUME NEW s \in Request, End(s) \/ Abort(s) PROVE Goal
  BY <1>1, <1>3, <1>14, EndIs, AbortTurns DEF Ends
<1>15. ASSUME NEW s \in Request, Index(s) PROVE Goal
  BY <1>3, <1>15, IndexIs DEF Moves, Informed
<1> QED
  BY <1>4, <1>5, <1>6, <1>7, <1>8, <1>9, <1>10, <1>11, <1>12, <1>13, <1>14, <1>15 DEF Next, Goal

\* A context does not hold a question that has no turn yet.
LEMMA NotYetSeen ==
  ASSUME NEW ts, NEW gone, NEW gapless \in BOOLEAN, NEW seen, NEW n, Past(ts, gone, gapless, seen, n),
         NEW q, q \notin gone, q \notin Asked(ts)
  PROVE  \A j \in DOMAIN seen : seen[j] # q
BY DEF Past, Present, Asked

LEMMA PastLater ==
  ASSUME NEW ts \in Seq(Turn), NEW gone, NEW gapless \in BOOLEAN, NEW seen, NEW n \in Nat,
         Past(ts, gone, gapless, seen, n)
  PROVE  Past(ts, gone, gapless, seen, n + 1)
<1>1. \A p \in DOMAIN ts : p \in Nat
  BY TurnFields
<1>2. Present(ts, seen, n) => Present(ts, seen, n + 1)
  BY <1>1 DEF Present
<1> QED
  BY <1>2 DEF Past

\* What Persist does to the turns, with what it must not disturb.
LEMMA PersistIs ==
  ASSUME Types, ShapeInv, OnceInv, PastInv, NEW r \in Request, Persist(r)
  PROVE  \E x \in Turn :
           /\ x.question = task[r].item /\ x.seen = task[r].seen
           /\ task[r].conv \in Conversation /\ turns[task[r].conv] \in Seq(Turn)
           /\ turns'[task[r].conv] = Append(turns[task[r].conv], x)
           /\ \A c \in Conversation \ {task[r].conv} : turns'[c] = turns[c]
           /\ x.question \notin lost /\ x.question \notin Asked(turns[task[r].conv])
           /\ task[r].at \in Informed
           /\ lost' = lost /\ postgres' = postgres
<1> DEFINE x == [question |-> task[r].item, seen |-> task[r].seen, committed |-> ~postgres]
<1>1. /\ task[r].conv \in Conversation /\ turns[task[r].conv] \in Seq(Turn)
      /\ OtherTurns(task[r].conv)
      /\ x \in Turn /\ turns'[task[r].conv] = Append(turns[task[r].conv], x)
      /\ task[r].at \in {"generate", "grounded"}
  BY PersistTurns
<1>2. x.question = task[r].item /\ x.seen = task[r].seen
  OBVIOUS
<1>3. lost' = lost /\ postgres' = postgres
  BY DEF Persist, wiring
<1> HIDE DEF x
<1>4. task[r].item \notin lost /\ task[r].item \notin Asked(turns[task[r].conv])
  BY <1>1 DEF OnceInv, Unwritten
<1> QED
  BY <1>1, <1>2, <1>3, <1>4 DEF OtherTurns, Informed

LEMMA PastStep ==
  ASSUME Types, Types', ShapeInv, OnceInv, RowInv, PastInv, [Next]_vars
  PROVE  PastInv'
<1> DEFINE gapless == ~postgres
           Stays(c) ==
             /\ \A i \in DOMAIN turns'[c] : Past(turns'[c], lost', gapless, turns'[c][i].seen, i)
             /\ \A s \in Request : task[s].at \in Informed /\ task[s].conv = c =>
                  Past(turns'[c], lost', gapless, task[s].seen, Len(turns'[c]) + 1)
<1>1. /\ postgres' = postgres /\ lost \subseteq lost'
      /\ (\A c \in Conversation : Kept(turns[c], turns'[c], lost')) \/ \E r \in Request : Persist(r)
  BY TurnsStep
<1>2. postgres \in BOOLEAN /\ gapless \in BOOLEAN
  BY DEF Types
<1>3. \A c \in Conversation : turns[c] \in Seq(Turn) /\ turns'[c] \in Seq(Turn)
  BY DEF Types
<1>4. ASSUME NEW c \in Conversation, Kept(turns[c], turns'[c], lost') PROVE Stays(c)
  <2>1. /\ \A i \in DOMAIN turns[c] : Past(turns[c], lost, ~postgres, turns[c][i].seen, i)
        /\ \A s \in Request : task[s].at \in Informed /\ task[s].conv = c =>
             Past(turns[c], lost, ~postgres, task[s].seen, Len(turns[c]) + 1)
    BY DEF PastInv
  <2>2. /\ (\A i \in DOMAIN turns[c] : Past(turns[c], lost, ~postgres, turns[c][i].seen, i)) =>
             \A i \in DOMAIN turns'[c] : Past(turns'[c], lost', ~postgres, turns'[c][i].seen, i)
        /\ \A seen : Past(turns[c], lost, ~postgres, seen, Len(turns[c]) + 1) =>
                       Past(turns'[c], lost', ~postgres, seen, Len(turns'[c]) + 1)
    BY <1>1, <1>2, <1>3, <1>4, KeptPast
  <2> QED
    BY <2>1, <2>2
<1>5. ASSUME NEW r \in Request, Persist(r), NEW c \in Conversation PROVE Stays(c)
  <2> DEFINE d == task[r].conv
  <2>1. PICK x \in Turn :
          /\ x.question = task[r].item /\ x.seen = task[r].seen
          /\ d \in Conversation /\ turns[d] \in Seq(Turn)
          /\ turns'[d] = Append(turns[d], x)
          /\ \A e \in Conversation \ {d} : turns'[e] = turns[e]
          /\ x.question \notin lost /\ x.question \notin Asked(turns[d])
          /\ task[r].at \in Informed
          /\ lost' = lost /\ postgres' = postgres
    BY <1>5, PersistIs
  <2>2. CASE c # d
    BY <2>1, <2>2 DEF PastInv
  <2>3. CASE c = d
    <3>1. ASSUME NEW seen, NEW n, Past(turns[d], lost, gapless, seen, n)
          PROVE  Past(turns'[d], lost, gapless, seen, n)
      <4> HIDE DEF gapless, d
      <4>1. \A j \in DOMAIN seen : seen[j] # x.question
        BY <1>2, <2>1, <3>1, NotYetSeen
      <4> QED
        BY <1>2, <2>1, <3>1, <4>1, PastAppended
    <3>2. /\ Len(turns'[d]) = Len(turns[d]) + 1 /\ turns'[d] \in Seq(Turn)
          /\ \A i \in DOMAIN turns'[d] : i \in DOMAIN turns[d] \/ i = Len(turns[d]) + 1
          /\ \A i \in DOMAIN turns[d] : turns'[d][i] = turns[d][i]
          /\ turns'[d][Len(turns[d]) + 1] = x /\ Len(turns[d]) + 1 \in Nat
      <4> HIDE DEF d
      <4>1. Len(turns[d]) \in Nat
        BY <2>1
      <4> QED
        BY <2>1, <4>1, Appended
    <3>3. ASSUME NEW s \in Request, task[s].at \in Informed, task[s].conv = d
          PROVE  Past(turns'[d], lost, gapless, task[s].seen, Len(turns[d]) + 1)
      BY <3>1, <3>3 DEF PastInv
    <3>4. ASSUME NEW i \in DOMAIN turns'[d]
          PROVE  Past(turns'[d], lost, gapless, turns'[d][i].seen, i)
      <4>1. CASE i \in DOMAIN turns[d]
        <5>1. Past(turns[d], lost, gapless, turns[d][i].seen, i)
          BY <2>1, <4>1 DEF PastInv
        <5> QED
          BY <3>1, <3>2, <4>1, <5>1
      <4>2. CASE i = Len(turns[d]) + 1
        BY <2>1, <3>2, <3>3, <4>2
      <4> QED
        BY <3>2, <4>1, <4>2
    <3>5. ASSUME NEW s \in Request, task[s].at \in Informed, task[s].conv = d
          PROVE  Past(turns'[d], lost, gapless, task[s].seen, Len(turns'[d]) + 1)
      <4>1. Past(turns'[d], lost, gapless, task[s].seen, Len(turns[d]) + 1)
        BY <3>3, <3>5
      <4> HIDE DEF gapless, d
      <4>2. Past(turns'[d], lost, gapless, task[s].seen, (Len(turns[d]) + 1) + 1)
        BY <1>2, <3>2, <4>1, PastLater
      <4> QED
        BY <3>2, <4>2
    <3> QED
      BY <2>1, <2>3, <3>4, <3>5
  <2> QED
    BY <2>2, <2>3
<1>6. \A c \in Conversation : Stays(c)
  BY <1>1, <1>4, <1>5
<1>7. ASSUME NEW r \in Request, task'[r].at \in Informed
      PROVE  Past(turns'[task'[r].conv], lost', gapless, task'[r].seen, Len(turns'[task'[r].conv]) + 1)
  <2>1. CASE SameContext(r)
    <3>1. task[r].conv \in Conversation
      BY <2>1 DEF SameContext, ShapeInv, Informed
    <3> QED
      BY <1>6, <2>1, <3>1 DEF SameContext
  <2>2. CASE LoadHistory(r)
    <3> DEFINE c == task[r].conv
    <3>1. /\ task'[r].conv = c /\ task'[r].seen = Window(Questions(Committed(turns[c])))
          /\ task[r].at = "history"
      BY <2>2, LoadHistoryIs DEF SameRequest
    <3>2. turns' = turns /\ lost' = lost
      BY <2>2 DEF LoadHistory
    <3>3. c \in Conversation
      BY <3>1 DEF ShapeInv
    <3>4. gapless => \A i \in DOMAIN turns[c] : turns[c][i].committed
      BY <3>3 DEF RowInv
    <3>5. turns[c] \in Seq(Turn) /\ Single(turns[c])
      BY <1>3, <3>3 DEF OnceInv
    <3> HIDE DEF c, gapless
    <3>6. Past(turns[c], lost, gapless, Window(Questions(Committed(turns[c]))), Len(turns[c]) + 1)
      BY <1>2, <3>4, <3>5, LoadedIsPast
    <3> QED
      BY <3>1, <3>2, <3>6
  <2> QED
    BY <1>7, <2>1, <2>2, InformedStep
<1> QED
  BY <1>1, <1>6, <1>7 DEF PastInv

LEMMA KnownStep ==
  ASSUME Types, ShapeInv, OnceInv, RowInv, ToldInv, PastInv, KnownInv, [Next]_vars
  PROVE  KnownInv'
<1>1. \A c \in Conversation : turns[c] \in Seq(Turn)
  BY DEF Types
<1>2. /\ lost \subseteq lost'
      /\ (\A c \in Conversation : Kept(turns[c], turns'[c], lost')) \/ \E r \in Request : Persist(r)
  BY TurnsStep
<1>3. ASSUME NEW r \in Request, task'[r].at \in Informed PROVE Knows(task'[r], turns', lost')
  <2>1. CASE SameContext(r)
    <3> DEFINE c == task[r].conv
               seen == task[r].seen
    <3>1. c \in Conversation /\ turns[c] \in Seq(Turn) /\ task[r].at \in Informed
      BY <1>1, <2>1 DEF SameContext, ShapeInv, Informed
    <3>2. ASSUME NEW q, Older(turns[c], q, seen) PROVE q \in lost' \/ Older(turns'[c], q, seen)
      <4>1. CASE Kept(turns[c], turns'[c], lost')
        <5> HIDE DEF c, seen
        <5> QED
          BY <3>1, <3>2, <4>1, KeptOlder
      <4>2. ASSUME NEW s \in Request, Persist(s) PROVE Older(turns'[c], q, seen)
        <5>1. PICK x \in Turn :
                /\ task[s].conv \in Conversation
                /\ turns'[task[s].conv] = Append(turns[task[s].conv], x)
                /\ \A e \in Conversation \ {task[s].conv} : turns'[e] = turns[e]
                /\ x.question \notin lost /\ x.question \notin Asked(turns[task[s].conv])
          BY <4>2, PersistIs
        <5>2. CASE task[s].conv # c
          BY <3>1, <3>2, <5>1, <5>2
        <5>3. CASE task[s].conv = c
          <6> DEFINE gapless == ~postgres
          <6>1. Past(turns[c], lost, gapless, seen, Len(turns[c]) + 1)
            BY <3>1 DEF PastInv
          <6>2. x.question \notin lost /\ x.question \notin Asked(turns[c])
                /\ turns'[c] = Append(turns[c], x)
            BY <5>1, <5>3
          <6>3. gapless \in BOOLEAN
            BY DEF Types
          <6> HIDE DEF c, seen, gapless
          <6>4. \A j \in DOMAIN seen : seen[j] # x.question
            BY <6>1, <6>2, <6>3, NotYetSeen
          <6>5. x.question \notin ToSet(seen)
            BY <6>4 DEF ToSet
          <6>6. q # x.question
            BY <3>2, <6>2 DEF Older, HasCommitted, Asked
          <6> QED
            BY <3>1, <3>2, <6>2, <6>5, <6>6, OlderAppended
        <5> QED
          BY <5>2, <5>3
      <4> QED
        BY <1>2, <3>1, <4>1, <4>2
    <3>3. Knows(task[r], turns, lost)
      BY <3>1 DEF KnownInv
    <3> QED
      BY <1>2, <2>1, <3>2, <3>3 DEF Knows, SameContext
  <2>2. CASE LoadHistory(r)
    <3> DEFINE c == task[r].conv
    <3>1. /\ task'[r].conv = c /\ task'[r].seen = Window(Questions(Committed(turns[c])))
          /\ task'[r].known = task[r].known
          /\ task[r].at = "history"
      BY <2>2, LoadHistoryIs DEF SameRequest
    <3>2. turns' = turns /\ lost' = lost
      BY <2>2 DEF LoadHistory
    <3>3. c \in Conversation /\ task[r].known \subseteq told[c]
      BY <3>1 DEF ShapeInv
    <3>4. turns[c] \in Seq(Turn) /\ Single(turns[c])
      BY <1>1, <3>3 DEF OnceInv
    <3>5. ASSUME NEW q \in task[r].known \cap Question PROVE q \in lost \/ HasCommitted(turns[c], q)
      BY <3>3 DEF ToldInv, Answered
    <3> HIDE DEF c
    <3>6. ASSUME NEW q, HasCommitted(turns[c], q)
          PROVE  LET w == Window(Questions(Committed(turns[c]))) IN
                 q \in ToSet(w) \/ (Len(w) = HistoryLimit /\ Older(turns[c], q, w))
      BY <3>4, <3>6, LoadedIsNewest
    <3> QED
      BY <3>1, <3>2, <3>5, <3>6 DEF Knows
  <2> QED
    BY <1>3, <2>1, <2>2, InformedStep
<1>4. ASSUME NEW r \in Request, task'[r].at \in {"broaden", "grounded"}
      PROVE  task'[r].known \cap File \subseteq task'[r].searched \cup lost'
  <2>1. task'[r].at \in Informed
    BY <1>4 DEF Informed
  <2>2. CASE LoadHistory(r)
    BY <1>4, <2>2, LoadHistoryIs
  <2>3. CASE SameContext(r) /\ SameSearch(r)
    BY <1>2, <1>4, <2>3 DEF SameContext, SameSearch, KnownInv
  <2>4. CASE Retrieve(r)
    <3>1. /\ task'[r].known = task[r].known /\ task'[r].searched = docs[task[r].conv]
          /\ task[r].at \in {"retrieve", "broaden"}
      BY <2>4, RetrieveIs DEF SameRequest
    <3>2. task[r].conv \in Conversation /\ task[r].known \subseteq told[task[r].conv]
      BY <3>1 DEF ShapeInv
    <3> QED
      BY <1>2, <3>1, <3>2 DEF ToldInv, Uploaded
  <2> QED
    BY <2>1, <2>2, <2>3, <2>4, InformedStep
<1> QED
  BY <1>3, <1>4 DEF KnownInv


-----------------------------------------------------------------------------
(* What was deleted while nobody wrote to it stays empty *)

\* A thread that writes to c without asking again whether it exists.
Writes(t, c) ==
  /\ t.conv = c
  /\ t.at \in {"history", "retrieve", "broaden", "generate", "grounded", "commit", "open", "retitle"}
              \cup (IF redis THEN {"index"} ELSE {})

Dead(c) ==
  /\ c \in used /\ c \notin live /\ turns[c] = <<>>
  /\ \A r \in Request : ~Writes(task[r], c)

LEMMA NobodyWrites == \A c : WillWrite(c) = {} <=> \A r \in Request : ~Writes(task[r], c)
BY DEF WillWrite, Writes

ClosedInv ==
  /\ \A c \in closed :
       /\ Dead(c) /\ docs[c] = {}
       /\ \A r \in Request : task[r].conv = c /\ task[r].at = "index" => ~task[r].fit
  /\ \A r \in Request : task[r].at = "clear" /\ task[r].fit => Dead(task[r].conv)

LEMMA ClosedInit == Init => ClosedInv
<1> SUFFICES ASSUME Init PROVE ClosedInv
  OBVIOUS
<1>1. \A r \in Request : task[r].at = "free"
  BY DEF Init, Free
<1>2. closed = {}
  BY DEF Init
<1> QED
  BY <1>1, <1>2 DEF ClosedInv

\* No thread starts to write to it, and what the others do leaves it as it is.
LEMMA DeadStays ==
  ASSUME Types, ShapeInv, [Next]_vars, NEW c \in Conversation, Dead(c)
  PROVE  Dead(c)'
<1> USE DEF Dead
<1> DEFINE NoWriter == \A r \in Request : ~Writes(task'[r], c)
<1>1. ASSUME redis' = redis, used \subseteq used', c \notin live', turns'[c] = <<>>, NoWriter
      PROVE  Dead(c)'
  BY <1>1 DEF Writes
<1>2. Free.conv = None /\ c # None
  BY ChatAssumption DEF Free
<1>3. ASSUME NEW r \in Request, Others(r), ~Writes(task'[r], c) PROVE NoWriter
  BY <1>3 DEF Others
<1>4. ASSUME NEW r \in Request, Ends(r) PROVE NoWriter
  BY <1>2, <1>3, <1>4 DEF Ends, Writes
<1>5. ASSUME task' = task PROVE NoWriter
  BY <1>5
<1> HIDE DEF NoWriter
<1>6. CASE UNCHANGED vars
  BY <1>1, <1>5, <1>6 DEF vars, wiring
<1>7. CASE Create
  BY <1>1, <1>5, <1>7 DEF Create, wiring
<1>8. ASSUME NEW d \in Conversation, Expire(d) PROVE Dead(c)'
  BY <1>1, <1>5, <1>8 DEF Expire, wiring
<1>9. CASE Restart
  <2>1. /\ \A r \in Request : task'[r] = Free
        /\ postgres => turns'[c] = Picked(turns[c], {i \in DOMAIN turns[c] : turns[c][i].committed})
        /\ ~postgres => turns'[c] = <<>>
    BY <1>9, RestartTurns
  <2>2. NoWriter
    BY <1>2, <2>1 DEF NoWriter, Writes
  <2>3. {i \in DOMAIN turns[c] : turns[c][i].committed} = {}
    OBVIOUS
  <2>4. turns'[c] = <<>>
    BY <2>1, <2>3, PickedNone DEF Types
  <2>5. c \notin live' /\ used' = used /\ redis' = redis
    BY <1>9 DEF Restart, wiring
  <2> QED
    BY <1>1, <2>2, <2>4, <2>5
<1>10. ASSUME NEW r \in Request, NEW d \in Conversation,
             Rename(r, d) \/ Delete(r, d) \/ Ask(r, d) \/ Upload(r, d)
       PROVE  Dead(c)'
  <2>1. PICK at \in Steps, item \in Question \cup File \cup {None} : Enters(r, d, at, item)
    BY <1>10, EntersIs
  <2>2. Others(r) /\ d \in live /\ task'[r].conv = d
        /\ UNCHANGED <<wiring, live, turns>> /\ used \subseteq used'
    BY <2>1 DEF Enters, Accepts
  <2>3. NoWriter
    BY <1>3, <2>2 DEF Writes
  <2> QED
    BY <1>1, <2>2, <2>3 DEF wiring
<1>11. ASSUME NEW r \in Request,
             \/ RenameStore(r) \/ Retitle(r) \/ LoadConversation(r)
             \/ LoadHistory(r) \/ Retrieve(r) \/ OpenSession(r)
       PROVE  Dead(c)'
  <2>1. Walks(r) /\ ~Writes(task[r], c) /\ redis \in BOOLEAN
    BY <1>11, WalksIs DEF Types
  <2>2. CASE task[r].conv # c \/ Ends(r)
    <3>1. NoWriter
      BY <1>3, <1>4, <2>1, <2>2 DEF Walks, SameRequest, Writes
    <3>2. c \notin live'
      <4>1. CASE live' = live
        BY <4>1
      <4>2. CASE Retitle(r)
        <5>1. task[r].conv # c
          BY <2>1, <4>2 DEF Retitle, At, Writes
        <5> QED
          BY <4>2, <5>1 DEF Retitle
      <4> QED
        BY <1>11, <4>1, <4>2, WalksIs
    <3> QED
      BY <1>1, <2>1, <3>1, <3>2 DEF Walks, wiring
  <2>3. CASE task[r].conv = c /\ ~Ends(r)
    <3>1. task[r].at \in {"rename", "load"}
      BY <2>1, <2>3 DEF Walks, Writes
    <3>2. RenameStore(r) \/ LoadConversation(r)
      BY <1>11, <3>1 DEF Retitle, LoadHistory, Retrieve, OpenSession, At
    <3>3. Return(r)
      BY <2>3, <3>2 DEF RenameStore, LoadConversation
    <3> QED
      BY <2>3, <3>3, ReturnIs
  <2> QED
    BY <2>2, <2>3
<1>12. ASSUME NEW r \in Request, StoreDelete(r) PROVE Dead(c)'
  <2>1. /\ Others(r) /\ task'[r].at = "clear"
        /\ task[r].conv \in Conversation /\ OtherTurns(task[r].conv)
        /\ turns'[task[r].conv] = Picked(turns[task[r].conv],
             {i \in DOMAIN turns[task[r].conv] : ~turns[task[r].conv][i].committed})
    BY <1>12, StoreDeleteIs, StoreDeleteTurns
  <2>2. NoWriter
    BY <1>3, <2>1 DEF Writes
  <2>3. {i \in DOMAIN turns[c] : ~turns[c][i].committed} = {}
    OBVIOUS
  <2>4. turns'[c] = <<>>
    BY <2>1, <2>3, PickedNone DEF Types, OtherTurns
  <2>5. c \notin live' /\ used' = used /\ redis' = redis
    BY <1>12 DEF StoreDelete, wiring
  <2> QED
    BY <1>1, <2>2, <2>4, <2>5
<1>13. ASSUME NEW r \in Request, Clear(r) PROVE Dead(c)'
  <2>1. NoWriter
    BY <1>2, <1>13, ClearIs DEF NoWriter, Writes
  <2> QED
    BY <1>1, <1>13, <2>1 DEF Clear, wiring
<1>14. ASSUME NEW r \in Request, Persist(r) PROVE Dead(c)'
  <2>1. /\ task[r].conv \in Conversation /\ OtherTurns(task[r].conv)
        /\ task[r].at \in {"generate", "grounded"}
        /\ Others(r) /\ task'[r].conv = task[r].conv
    BY <1>14, PersistTurns DEF Moves, SameRequest
  <2>2. task[r].conv # c
    BY <2>1 DEF Writes
  <2>3. NoWriter
    BY <1>3, <2>1, <2>2 DEF Writes
  <2> QED
    BY <1>1, <1>14, <2>1, <2>2, <2>3 DEF Persist, OtherTurns, wiring
<1>15. ASSUME NEW r \in Request, Commit(r) PROVE Dead(c)'
  <2>1. /\ task[r].conv \in Conversation /\ OtherTurns(task[r].conv)
        /\ task[r].at = "commit"
        /\ Others(r) /\ task'[r].conv = task[r].conv
    BY <1>15, CommitTurns DEF Moves, SameRequest
  <2>2. task[r].conv # c
    BY <2>1 DEF Writes
  <2>3. NoWriter
    BY <1>3, <2>1, <2>2 DEF Writes
  <2> QED
    BY <1>1, <1>15, <2>1, <2>2, <2>3 DEF Commit, OtherTurns, wiring
<1>16. ASSUME NEW r \in Request, End(r) PROVE Dead(c)'
  BY <1>1, <1>4, <1>16, EndIs DEF wiring
<1>17. ASSUME NEW r \in Request, Index(r) PROVE Dead(c)'
  <2>1. Others(r) /\ task'[r].at = "end" /\ UNCHANGED <<wiring, used, live, turns>>
    BY <1>17, IndexIs DEF Moves
  <2>2. NoWriter
    BY <1>3, <2>1 DEF Writes
  <2> QED
    BY <1>1, <2>1, <2>2 DEF wiring
<1>18. ASSUME NEW r \in Request, Abort(r) PROVE Dead(c)'
  <2>1. NoWriter
    BY <1>4, <1>18, AbortTurns
  <2>2. turns'[c] = <<>>
    <3>1. CASE task[r].at # "commit"
      BY <1>18, <3>1, AbortTurns
    <3>2. CASE task[r].at = "commit"
      <4>1. task[r].conv # c
        BY <3>2 DEF Writes
      <4> QED
        BY <1>18, <3>2, <4>1, AbortTurns DEF OtherTurns
    <3> QED
      BY <3>1, <3>2
  <2> QED
    BY <1>1, <1>18, <2>1, <2>2 DEF Abort, wiring
<1> QED
  BY <1>6, <1>7, <1>8, <1>9, <1>10, <1>11, <1>12, <1>13, <1>14, <1>15, <1>16, <1>17, <1>18 DEF Next


\* Nothing is searchable in it, and no upload can store anything that is.
Sealed(c) ==
  /\ docs[c] = {}
  /\ \A r \in Request : task[r].conv = c /\ task[r].at = "index" => ~task[r].fit

LEMMA SealedStays ==
  ASSUME Types, ShapeInv, [Next]_vars, NEW c \in Conversation, Dead(c), Sealed(c)
  PROVE  Sealed(c)'
<1> DEFINE NoUpload == \A r \in Request : task'[r].conv = c /\ task'[r].at = "index" => ~task'[r].fit
<1> USE DEF Sealed
<1>1. ASSUME docs'[c] = {}, NoUpload PROVE Sealed(c)'
  BY <1>1
<1>2. Free.at = "free"
  BY DEF Free
<1>3. ASSUME NEW r \in Request, Others(r), task'[r].at # "index" \/ task'[r].conv # c PROVE NoUpload
  BY <1>3 DEF Others
<1>4. ASSUME task' = task PROVE NoUpload
  BY <1>4
<1> HIDE DEF NoUpload
<1>5. CASE UNCHANGED vars
  BY <1>1, <1>4, <1>5 DEF vars
<1>6. CASE Create
  BY <1>1, <1>4, <1>6 DEF Create
<1>7. ASSUME NEW d \in Conversation, Expire(d) PROVE Sealed(c)'
  BY <1>1, <1>4, <1>7 DEF Expire, Types
<1>8. CASE Restart
  <2>1. NoUpload
    BY <1>2, <1>8, RestartTurns DEF NoUpload
  <2>2. docs'[c] = {}
    BY <1>8 DEF Restart
  <2> QED
    BY <1>1, <2>1, <2>2
<1>9. ASSUME NEW r \in Request, NEW d \in Conversation,
             Rename(r, d) \/ Delete(r, d) \/ Ask(r, d) \/ Upload(r, d)
      PROVE  Sealed(c)'
  <2>1. PICK at \in Steps, item \in Question \cup File \cup {None} : Enters(r, d, at, item)
    BY <1>9, EntersIs
  <2> QED
    BY <1>1, <1>3, <2>1 DEF Enters, Accepts
<1>10. ASSUME NEW r \in Request,
             \/ RenameStore(r) \/ Retitle(r) \/ LoadConversation(r)
             \/ LoadHistory(r) \/ Retrieve(r) \/ OpenSession(r)
       PROVE  Sealed(c)'
  <2>1. Walks(r) /\ ~Writes(task[r], c)
    BY <1>10, WalksIs DEF Dead
  <2>2. task'[r].at # "index" \/ task'[r].conv # c
    BY <1>2, <2>1 DEF Walks, Ends, SameRequest, Writes
  <2> QED
    BY <1>1, <1>3, <2>1, <2>2 DEF Walks
<1>11. ASSUME NEW r \in Request, StoreDelete(r) PROVE Sealed(c)'
  BY <1>1, <1>3, <1>11, StoreDeleteIs DEF StoreDelete
<1>12. ASSUME NEW r \in Request, Clear(r) PROVE Sealed(c)'
  <2>1. docs'[c] = {}
    BY <1>12 DEF Clear, Types
  <2>2. ASSUME NEW s \in Request, task'[s].conv = c, task'[s].at = "index" PROVE ~task'[s].fit
    <3>1. s # r
      BY <1>2, <1>12, <2>2, ClearIs
    <3>2. /\ task[s].at = "index" /\ task[s].conv = c
          /\ task'[s].fit = IF task[s].conv = task[r].conv THEN redis ELSE task[s].fit
      BY <1>12, <2>2, <3>1, ClearIs
    <3>3. ~redis /\ ~task[s].fit
      BY <3>2 DEF Dead, Writes
    <3> QED
      BY <3>2, <3>3
  <2> QED
    BY <1>1, <2>1, <2>2 DEF NoUpload
<1>13. ASSUME NEW r \in Request, Persist(r) PROVE Sealed(c)'
  <2>1. Others(r) /\ task'[r].at # "index"
    BY <1>13, PersistTurns DEF Moves
  <2> QED
    BY <1>1, <1>3, <1>13, <2>1 DEF Persist
<1>14. ASSUME NEW r \in Request, Commit(r) PROVE Sealed(c)'
  <2>1. Others(r) /\ task'[r].at # "index"
    BY <1>14, CommitTurns DEF Moves
  <2> QED
    BY <1>1, <1>3, <1>14, <2>1 DEF Commit
<1>15. ASSUME NEW r \in Request, End(r) PROVE Sealed(c)'
  BY <1>1, <1>2, <1>3, <1>15, EndIs DEF Ends
<1>16. ASSUME NEW r \in Request, Index(r) PROVE Sealed(c)'
  <2>1. /\ Others(r) /\ task'[r].at = "end" /\ task[r].at = "index"
        /\ task[r].conv # c => docs'[c] = docs[c]
        /\ ~task[r].fit => docs' = docs
    BY <1>16, IndexIs DEF Moves
  <2>2. docs'[c] = {}
    BY <2>1
  <2> QED
    BY <1>1, <1>3, <2>1, <2>2
<1>17. ASSUME NEW r \in Request, Abort(r) PROVE Sealed(c)'
  BY <1>1, <1>2, <1>3, <1>17, AbortTurns DEF Abort, Ends
<1> QED
  BY <1>5, <1>6, <1>7, <1>8, <1>9, <1>10, <1>11, <1>12, <1>13, <1>14, <1>15, <1>16, <1>17 DEF Next

\* A thread is about to clear because its delete is done.
LEMMA ClearStep ==
  ASSUME Types, ShapeInv, [Next]_vars, NEW r \in Request, task'[r].at = "clear"
  PROVE  task'[r] = task[r] \/ StoreDelete(r)
<1> DEFINE Goal == task'[r] = task[r] \/ StoreDelete(r)
<1>1. Free.at = "free"
  BY DEF Free
<1>2. ASSUME NEW s \in Request, Others(s), task'[s].at # "clear" PROVE Goal
  BY <1>2 DEF Others
<1>3. ASSUME UNCHANGED vars \/ Create PROVE Goal
  BY <1>3 DEF vars, Create
<1>4. ASSUME NEW c \in Conversation, Expire(c) PROVE Goal
  BY <1>4 DEF Expire
<1>5. ASSUME Restart PROVE Goal
  BY <1>1, <1>5, RestartTurns
<1> HIDE DEF Goal
<1>6. ASSUME NEW s \in Request, NEW c \in Conversation,
             Rename(s, c) \/ Delete(s, c) \/ Ask(s, c) \/ Upload(s, c)
      PROVE  Goal
  <2>1. PICK at \in Steps, item \in Question \cup File \cup {None} : Enters(s, c, at, item)
    BY <1>6, EntersIs
  <2> QED
    BY <1>2, <2>1 DEF Enters, Accepts
<1>7. ASSUME NEW s \in Request,
             \/ RenameStore(s) \/ Retitle(s) \/ LoadConversation(s)
             \/ LoadHistory(s) \/ Retrieve(s) \/ OpenSession(s)
      PROVE  Goal
  <2>1. Walks(s)
    BY <1>7, WalksIs
  <2> QED
    BY <1>1, <1>2, <2>1 DEF Walks, Ends
<1>8. ASSUME NEW s \in Request, StoreDelete(s) PROVE Goal
  BY <1>8, StoreDeleteIs DEF Others, Goal
<1>9. ASSUME NEW s \in Request, Clear(s) PROVE Goal
  <2>1. s # r /\ task[r].at = "clear"
    BY <1>1, <1>9, ClearIs
  <2> QED
    BY <1>9, <2>1 DEF Clear, Goal
<1>10. ASSUME NEW s \in Request, Persist(s) \/ Commit(s) \/ End(s) \/ Index(s) \/ Abort(s) PROVE Goal
  <2>1. CASE Persist(s)
    BY <1>2, <2>1, PersistTurns DEF Moves
  <2>2. CASE Commit(s)
    BY <1>2, <2>2, CommitTurns DEF Moves
  <2>3. CASE End(s)
    BY <1>1, <1>2, <2>3, EndIs DEF Ends
  <2>4. CASE Index(s)
    BY <1>2, <2>4, IndexIs DEF Moves
  <2>5. CASE Abort(s)
    BY <1>1, <1>2, <2>5, AbortTurns DEF Ends
  <2> QED
    BY <1>10, <2>1, <2>2, <2>3, <2>4, <2>5
<1> QED
  BY <1>3, <1>4, <1>5, <1>6, <1>7, <1>8, <1>9, <1>10 DEF Next, Goal

LEMMA ClosedStep ==
  ASSUME Types, ShapeInv, RowInv, ClosedInv, [Next]_vars
  PROVE  ClosedInv'
<1>1. ASSUME NEW r \in Request, Clear(r), task[r].fit, NEW c \in Conversation, c = task[r].conv
      PROVE  Dead(c) /\ Sealed(c)'
  <2>1. task[r].at = "clear"
    BY <1>1, ClearIs
  <2>2. Dead(c)
    BY <1>1, <2>1 DEF ClosedInv
  <2>3. docs'[c] = {}
    BY <1>1, <2>1 DEF Clear, Types
  <2>4. ASSUME NEW s \in Request, task'[s].conv = c, task'[s].at = "index" PROVE ~task'[s].fit
    <3>1. s # r
      BY <1>1, <2>4, ClearIs DEF Free
    <3>2. task[s].at = "index" /\ task[s].conv = c /\ task'[s].fit = redis
      BY <1>1, <2>4, <3>1, ClearIs
    <3> QED
      BY <2>2, <3>2 DEF Dead, Writes
  <2> QED
    BY <2>2, <2>3, <2>4 DEF Sealed
<1>2. ASSUME NEW r \in Request, StoreDelete(r), task'[r].fit, NEW c \in Conversation, c = task[r].conv
      PROVE  Dead(c)'
  <2>1. /\ task[r].at = "delete" /\ task'[r].at = "clear" /\ Others(r)
        /\ \A s \in Request : ~Writes(task[s], c)
    BY <1>2, StoreDeleteIs, NobodyWrites
  <2>2. /\ OtherTurns(c)
        /\ turns'[c] = Picked(turns[c], {i \in DOMAIN turns[c] : ~turns[c][i].committed})
    BY <1>2, StoreDeleteTurns
  <2>3. {i \in DOMAIN turns[c] : ~turns[c][i].committed} = {}
    BY <2>1 DEF RowInv, Writes
  <2>4. turns'[c] = <<>>
    BY <2>2, <2>3, PickedNone
  <2>5. /\ c \notin live' /\ used' = used /\ redis' = redis /\ c \in used
    BY <1>2, <2>1 DEF StoreDelete, wiring, ShapeInv
  <2>6. \A s \in Request : ~Writes(task'[s], c)
    BY <2>1 DEF Others, Writes
  <2> QED
    BY <2>4, <2>5, <2>6 DEF Dead, Writes
<1>3. closed' \subseteq closed \cup {c \in Conversation :
                               \E r \in Request : Clear(r) /\ task[r].fit /\ c = task[r].conv}
  <2>1. CASE closed' = closed
    BY <2>1
  <2>2. ASSUME NEW r \in Request, Clear(r), closed' # closed
        PROVE  task[r].fit /\ closed' = closed \cup {task[r].conv} /\ task[r].conv \in Conversation
    <3>1. task[r].conv \in Conversation
      BY <2>2, ClearIs DEF ShapeInv
    <3> QED
      BY <2>2, <3>1 DEF Clear
  <2>3. (\E r \in Request : Clear(r)) \/ closed' = closed
    <3>1. ASSUME NEW r \in Request, NEW c \in Conversation,
                 Rename(r, c) \/ Delete(r, c) \/ Ask(r, c) \/ Upload(r, c)
          PROVE  closed' = closed
      BY <3>1 DEF Rename, Delete, Ask, Upload
    <3>2. ASSUME NEW r \in Request,
                 \/ RenameStore(r) \/ Retitle(r) \/ LoadConversation(r)
                 \/ LoadHistory(r) \/ Retrieve(r) \/ OpenSession(r)
          PROVE  closed' = closed
      <4>1. Walks(r)
        BY <3>2, WalksIs
      <4> QED
        BY <4>1 DEF Walks
    <3>3. ASSUME NEW r \in Request, StoreDelete(r) \/ Persist(r) \/ Commit(r)
          PROVE  closed' = closed
      BY <3>3 DEF StoreDelete, Persist, Commit
    <3>4. ASSUME NEW r \in Request, End(r) \/ Index(r) \/ Abort(r) PROVE closed' = closed
      BY <3>4 DEF End, Index, Abort
    <3>5. ASSUME UNCHANGED vars \/ Create \/ Restart PROVE closed' = closed
      BY <3>5 DEF vars, Create, Restart
    <3>6. ASSUME NEW c \in Conversation, Expire(c) PROVE closed' = closed
      BY <3>6 DEF Expire
    <3> QED
      BY <3>1, <3>2, <3>3, <3>4, <3>5, <3>6 DEF Next
  <2> QED
    BY <2>1, <2>2, <2>3
<1>4. ASSUME NEW c \in closed' PROVE Dead(c)' /\ Sealed(c)'
  <2>1. CASE c \in closed
    <3>1. c \in Conversation /\ Dead(c) /\ Sealed(c)
      BY <2>1 DEF Types, ClosedInv, Sealed
    <3>2. Dead(c)'
      BY <3>1, DeadStays
    <3>3. Sealed(c)'
      BY <3>1, SealedStays
    <3> QED
      BY <3>2, <3>3
  <2>2. CASE c \notin closed
    <3>1. PICK r \in Request : Clear(r) /\ task[r].fit /\ c = task[r].conv
      BY <1>3, <1>4, <2>2
    <3>2. c \in Conversation
      BY <1>3, <1>4, <2>2
    <3>3. Dead(c) /\ Sealed(c)'
      BY <1>1, <3>1, <3>2
    <3>4. Dead(c)'
      BY <3>2, <3>3, DeadStays
    <3> QED
      BY <3>3, <3>4
  <2> QED
    BY <2>1, <2>2
<1>5. ASSUME NEW r \in Request, task'[r].at = "clear", task'[r].fit,
             NEW c, c = task'[r].conv
      PROVE  Dead(c)'
  <2>1. CASE StoreDelete(r)
    <3>1. c = task[r].conv /\ c \in Conversation
      BY <1>5, <2>1, StoreDeleteIs, StoreDeleteTurns DEF SameRequest
    <3> QED
      BY <1>2, <1>5, <2>1, <3>1
  <2>2. CASE task'[r] = task[r]
    <3>1. c \in Conversation /\ Dead(c)
      BY <1>5, <2>2 DEF ClosedInv, ShapeInv
    <3> QED
      BY <3>1, DeadStays
  <2> QED
    BY <1>5, <2>1, <2>2, ClearStep
<1> QED
  BY <1>4, <1>5 DEF ClosedInv, Sealed, Dead, Writes


-----------------------------------------------------------------------------
(* The theorems *)

IInv ==
  /\ Types /\ ShapeInv /\ OnceInv /\ RowInv /\ ToldInv
  /\ PastInv /\ KnownInv /\ ClosedInv

LEMMA ChatInductive == Spec => []IInv
<1>1. Init => IInv
  BY TypesInit, OnceInit, RowInit, ToldInit, PastInit, ClosedInit DEF IInv
<1>2. IInv /\ [Next]_vars => IInv'
  <2> SUFFICES ASSUME IInv, [Next]_vars PROVE IInv'
    OBVIOUS
  <2>1. Types'
    BY TypesStep DEF IInv
  <2>2. ShapeInv' /\ OnceInv'
    BY ShapeStep, OnceStep DEF IInv
  <2>3. RowInv' /\ ToldInv'
    BY RowStep, ToldStep DEF IInv
  <2>4. PastInv'
    BY <2>1, PastStep DEF IInv
  <2>5. KnownInv'
    BY KnownStep DEF IInv
  <2>6. ClosedInv'
    BY ClosedStep DEF IInv
  <2> QED
    BY <2>1, <2>2, <2>3, <2>4, <2>5, <2>6 DEF IInv
<1> QED
  BY <1>1, <1>2, PTL DEF Spec

LEMMA PlaceIs ==
  ASSUME NEW c, NEW q, NEW p \in DOMAIN turns[c], turns[c][p].question = q
  PROVE  Place(c, q) \in DOMAIN turns[c] /\ turns[c][Place(c, q)].question = q
BY DEF Place

\* A conversation deleted while no request was past its last check of it stays
\* deleted, without turns and without uploads: delete_conversation and clear_session.
THEOREM ClosedStaysEmpty == Spec => []ClosedIsEmpty
<1>1. IInv => ClosedIsEmpty
  BY DEF IInv, ClosedInv, Dead, ClosedIsEmpty
<1> QED
  BY <1>1, ChatInductive, PTL

\* Who was told that a question is answered, or a file uploaded, is answered with
\* knowledge of it: append before the final event, history, and the session documents.
THEOREM WritesAreRead == Spec => []ReadYourWrites
<1>1. ASSUME IInv PROVE ReadYourWrites
  <2>1. ASSUME NEW r \in Request, task[r].at \in Informed,
               NEW q \in (task[r].known \cap Question) \ lost, q \notin ToSet(task[r].seen)
        PROVE  /\ Len(task[r].seen) = HistoryLimit
               /\ q \in Stored(task[r].conv)
               /\ \A p \in ToSet(task[r].seen) \ lost : Place(task[r].conv, q) < Place(task[r].conv, p)
    <3> DEFINE c == task[r].conv
               seen == task[r].seen
    <3>1. Len(seen) = HistoryLimit /\ Older(turns[c], q, seen)
      BY <1>1, <2>1 DEF IInv, KnownInv, Knows
    <3>2. Past(turns[c], lost, ~postgres, seen, Len(turns[c]) + 1)
      BY <1>1, <2>1 DEF IInv, PastInv
    <3> HIDE DEF c, seen
    <3>3. PICK a \in DOMAIN turns[c] : turns[c][a].question = q
      BY <3>1 DEF Older, HasCommitted
    <3>4. q \in Stored(c)
      BY <3>3 DEF Stored, Questions, ToSet
    <3>5. ASSUME NEW p \in ToSet(seen) \ lost PROVE Place(c, q) < Place(c, p)
      <4>1. PICK j \in DOMAIN seen : seen[j] = p
        BY <3>5 DEF ToSet
      <4>2. PICK b \in DOMAIN turns[c] : turns[c][b].question = p
        BY <3>2, <3>5, <4>1 DEF Past, Present
      <4>3. /\ Place(c, q) \in DOMAIN turns[c] /\ turns[c][Place(c, q)].question = q
            /\ Place(c, p) \in DOMAIN turns[c] /\ turns[c][Place(c, p)].question = p
        BY <3>3, <4>2, PlaceIs
      <4> QED
        BY <3>1, <3>5, <4>3 DEF Older
    <3> QED
      BY <3>1, <3>4, <3>5 DEF c, seen
  <2>2. ASSUME NEW r \in Request, task[r].at \in {"broaden", "grounded"}
        PROVE  task[r].known \cap File \subseteq task[r].searched \cup lost
    BY <1>1, <2>2 DEF IInv, KnownInv
  <2> QED
    BY <2>1, <2>2 DEF ReadYourWrites, Informed
<1> QED
  BY <1>1, ChatInductive, PTL

\* Turns, rows and requests are well-formed, and the turns a question was answered from
\* are ones before its own, oldest first, in memory without a gap: append and history.
THEOREM ContextsArePast == Spec => []ChatInv
<1>1. ASSUME IInv PROVE TypeOK
  <2>1. ASSUME NEW c \in Conversation
        PROVE  /\ turns[c] \in Seq(Turn)
               /\ IsInjective(Questions(turns[c]))
               /\ \A i \in DOMAIN turns[c] :
                    turns[c][i].committed \/ \E r \in Request :
                        At(r, "commit") /\ task[r].item = turns[c][i].question
    <3>1. turns[c] \in Seq(Turn)
      BY <1>1 DEF IInv, Types
    <3>2. Single(turns[c])
      BY <1>1 DEF IInv, OnceInv
    <3>3. IsInjective(Questions(turns[c]))
      BY <3>2 DEF Single, Questions, IsInjective
    <3> QED
      BY <1>1, <3>1, <3>3 DEF IInv, RowInv, At
  <2>2. lost \subseteq used
    BY <1>1 DEF IInv, OnceInv
  <2> QED
    BY <1>1, <2>1, <2>2 DEF IInv, Types, Task, Turn, TypeOK
<1>2. ASSUME IInv PROVE HistoryIsPast
  <2>1. SUFFICES ASSUME NEW c \in Conversation, NEW i \in DOMAIN turns[c]
                 PROVE  LET all  == turns[c][i].seen
                            seen == Picked(all, {j \in DOMAIN all : all[j] \notin lost}) IN
                        /\ \A j \in DOMAIN seen : seen[j] \in Stored(c) /\ Place(c, seen[j]) < i
                        /\ \A j \in 1 .. Len(seen) - 1 :
                             /\ Place(c, seen[j]) < Place(c, seen[j + 1])
                             /\ ~postgres => Place(c, seen[j + 1]) = Place(c, seen[j]) + 1
    BY DEF HistoryIsPast
  <2> DEFINE all == turns[c][i].seen
             K == {j \in DOMAIN all : all[j] \notin lost}
             seen == Picked(all, K)
  <2>2. turns[c] \in Seq(Turn) /\ Single(turns[c]) /\ Asked(turns[c]) \cap lost = {}
    BY <1>2 DEF IInv, Types, OnceInv
  <2>3. Past(turns[c], lost, ~postgres, all, i)
    BY <1>2 DEF IInv, PastInv
  <2>4. all \in Seq(Question)
    <3>1. all \in BoundedSeq(Question, HistoryLimit)
      BY <2>2, TurnFields
    <3> HIDE DEF all
    <3> QED
      BY <3>1, ChatAssumption DEF BoundedSeq, SeqOf
  <2>5. CASE \A j \in DOMAIN all : all[j] \in lost
    <3>1. K = {}
      BY <2>5
    <3>2. seen = <<>>
      BY <3>1, PickedNone
    <3>3. DOMAIN seen = {} /\ 1 .. Len(seen) - 1 = {}
      <4> HIDE DEF seen
      <4>1. DOMAIN seen = {} /\ Len(seen) = 0
        BY <3>2
      <4> QED
        BY <4>1
    <3> QED
      BY <3>3
  <2>6. CASE Present(turns[c], all, i) /\ InOrder(turns[c], ~postgres, all)
    <3>1. K = DOMAIN all
      BY <2>2, <2>6 DEF Present, Asked
    <3>2. seen = all
      <4> HIDE DEF all
      <4> QED
        BY <2>4, <3>1, PickedAll
    <3>3. DOMAIN all = 1 .. Len(all) /\ Len(all) \in Nat
      BY <2>4
    <3> HIDE DEF all, seen
    <3>4. ASSUME NEW j \in DOMAIN all
          PROVE  /\ all[j] \in Stored(c) /\ Place(c, all[j]) < i
                 /\ Place(c, all[j]) \in DOMAIN turns[c]
                 /\ turns[c][Place(c, all[j])].question = all[j]
      <4>1. PICK p \in DOMAIN turns[c] : p < i /\ turns[c][p].question = all[j]
        BY <2>6, <3>4 DEF Present
      <4>2. Place(c, all[j]) \in DOMAIN turns[c] /\ turns[c][Place(c, all[j])].question = all[j]
        BY <4>1, PlaceIs
      <4>3. Place(c, all[j]) = p
        BY <2>2, <4>1, <4>2 DEF Single
      <4>4. all[j] \in Stored(c)
        BY <4>1 DEF Stored, Questions, ToSet
      <4> QED
        BY <4>1, <4>2, <4>3, <4>4
    <3>5. ASSUME NEW j \in 1 .. Len(all) - 1
          PROVE  /\ Place(c, all[j]) < Place(c, all[j + 1])
                 /\ ~postgres => Place(c, all[j + 1]) = Place(c, all[j]) + 1
      <4>1. j \in DOMAIN all /\ j + 1 \in DOMAIN all /\ j < j + 1
        BY <3>3
      <4> DEFINE k == j + 1
      <4>2. k \in DOMAIN all /\ j < k /\ k = j + 1
        BY <4>1
      <4> HIDE DEF k
      <4>3. /\ Place(c, all[j]) < Place(c, all[k])
            /\ ~postgres => Place(c, all[k]) = Place(c, all[j]) + 1
        BY <2>6, <3>4, <4>1, <4>2 DEF InOrder
      <4> QED
        BY <4>3 DEF k
    <3> QED
      BY <3>2, <3>4, <3>5 DEF all, seen
  <2> QED
    BY <2>3, <2>5, <2>6 DEF Past
<1> QED
  BY <1>1, <1>2, ChatInductive, PTL DEF ChatInv

=============================================================================
