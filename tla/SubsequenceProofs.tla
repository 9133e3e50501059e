--------------------------- MODULE SubsequenceProofs ---------------------------
(***************************************************************************)
(* What Picked keeps of a sequence: some of its elements, each once, in    *)
(* their order; what is in flattened sequences; and induction, in the form *)
(* in which the provers can use it.                                        *)
(***************************************************************************)
EXTENDS Subsequences, SequencesExt, FiniteSetTheorems, FunctionTheorems, SequenceTheorems,
        WellFoundedInduction, TLAPS

\* The rank of a member is between one and the size of the set, and of two members the
\* smaller has the smaller rank.
LEMMA RankOf ==
  ASSUME NEW K \in SUBSET Nat, IsFiniteSet(K), NEW k \in K
  PROVE  Rank(K, k) \in 1 .. Cardinality(K)
<1> DEFINE L == {j \in K : j <= k}
<1>1. IsFiniteSet(L) /\ Cardinality(L) <= Cardinality(K)
  BY FS_Subset
<1>2. k \in L
  OBVIOUS
<1>3. Cardinality(L) \in Nat /\ Cardinality(L) # 0 /\ Cardinality(K) \in Nat
  <2> HIDE DEF L
  <2> QED
    BY <1>1, <1>2, FS_EmptySet, FS_CardinalityType
<1> HIDE DEF L
<1>4. Cardinality(L) \in 1 .. Cardinality(K)
  BY <1>1, <1>3
<1> QED
  BY <1>4 DEF Rank, L

LEMMA RankGrows ==
  ASSUME NEW K \in SUBSET Nat, IsFiniteSet(K), NEW k \in K, NEW l \in K, k < l
  PROVE  Rank(K, k) < Rank(K, l)
<1> DEFINE A == {j \in K : j <= k}
           B == {j \in K : j <= l}
<1>1. A \subseteq B /\ l \in B /\ l \notin A
  <2>1. \A j \in K : j \in Nat
    OBVIOUS
  <2>2. \A j \in K : j <= k => j <= l
    BY <2>1
  <2>3. l <= l /\ ~ (l <= k)
    BY <2>1
  <2> QED
    BY <2>2, <2>3, Zenon
<1>2. IsFiniteSet(A) /\ IsFiniteSet(B)
  BY FS_Subset
<1> HIDE DEF A, B
<1>3. Cardinality(A) \in Nat /\ Cardinality(B) \in Nat /\ Cardinality(A) <= Cardinality(B)
      /\ Cardinality(A) # Cardinality(B)
  BY <1>1, <1>2, FS_Subset, FS_CardinalityType
<1>4. Cardinality(A) < Cardinality(B)
  BY <1>3
<1> QED
  BY <1>4 DEF A, B, Rank

\* Every number up to the size is the rank of one member.
LEMMA RankIsOnto ==
  ASSUME NEW K \in SUBSET Nat, IsFiniteSet(K), NEW i \in 1 .. Cardinality(K)
  PROVE  \E k \in K : Rank(K, k) = i
<1> DEFINE n == Cardinality(K)
           r == [k \in K |-> Rank(K, k)]
<1>1. n \in Nat /\ IsFiniteSet(1 .. n) /\ Cardinality(1 .. n) = n
  BY FS_CardinalityType, FS_Interval
<1>2. r \in [K -> 1 .. n]
  BY RankOf
<1>3. ASSUME NEW k \in K, NEW l \in K, r[k] = r[l] PROVE k = l
  <2>1. Rank(K, k) = Rank(K, l) /\ Rank(K, k) \in Nat /\ k \in Nat /\ l \in Nat
    BY <1>3, RankOf
  <2>2. ~ (k < l) /\ ~ (l < k)
    <3>1. ASSUME k < l PROVE FALSE
      BY <2>1, <3>1, RankGrows
    <3>2. ASSUME l < k PROVE FALSE
      BY <2>1, <3>2, RankGrows
    <3> QED
      BY <3>1, <3>2
  <2> QED
    BY <2>1, <2>2
<1>4. r \in Injection(K, 1 .. n)
  BY <1>2, <1>3 DEF Injection, IsInjective
<1> HIDE DEF r, n
<1>5. r \in Surjection(K, 1 .. n)
  BY <1>1, <1>4, FS_Injection DEF n
<1>6. PICK k \in K : r[k] = i
  BY <1>5 DEF Surjection, n
<1> QED
  BY <1>6 DEF r

\* The i-th member is one, has rank i, and the order of members is that of their ranks.
LEMMA IthOf ==
  ASSUME NEW K \in SUBSET Nat, IsFiniteSet(K), NEW i \in 1 .. Cardinality(K)
  PROVE  Ith(K, i) \in K /\ Rank(K, Ith(K, i)) = i
BY RankIsOnto DEF Ith

LEMMA IthGrows ==
  ASSUME NEW K \in SUBSET Nat, IsFiniteSet(K),
         NEW i \in 1 .. Cardinality(K), NEW j \in 1 .. Cardinality(K), i < j
  PROVE  Ith(K, i) < Ith(K, j)
<1> DEFINE a == Ith(K, i)
           b == Ith(K, j)
<1>1. a \in K /\ b \in K /\ a \in Nat /\ b \in Nat /\ Rank(K, a) = i /\ Rank(K, b) = j
  BY IthOf
<1> HIDE DEF a, b
<1>2. Cardinality(K) \in Nat
  BY FS_CardinalityType
<1>3. ASSUME b < a PROVE FALSE
  <2>1. j < i
    BY <1>1, <1>3, RankGrows
  <2> QED
    BY <2>1, <1>2
<1>4. a # b
  BY <1>1, <1>2
<1> QED
  BY <1>1, <1>3, <1>4 DEF a, b

LEMMA IthRank ==
  ASSUME NEW K \in SUBSET Nat, IsFiniteSet(K), NEW k \in K
  PROVE  Ith(K, Rank(K, k)) = k
<1> DEFINE i == Rank(K, k)
           l == Ith(K, i)
<1>1. i \in 1 .. Cardinality(K)
  BY RankOf
<1>2. l \in K /\ Rank(K, l) = i
  BY <1>1, IthOf
<1>3. k \in Nat /\ l \in Nat /\ i \in Nat
  <2>1. Cardinality(K) \in Nat
    BY FS_CardinalityType
  <2>2. \A x \in K : x \in Nat
    OBVIOUS
  <2> HIDE DEF i, l
  <2>3. i \in Nat
    BY <1>1, <2>1
  <2> QED
    BY <1>2, <2>2, <2>3
<1>4. ~ (k < l) /\ ~ (l < k)
  <2>1. ASSUME k < l PROVE FALSE
    BY <1>2, <1>3, <2>1, RankGrows
  <2>2. ASSUME l < k PROVE FALSE
    BY <1>2, <1>3, <2>2, RankGrows
  <2> QED
    BY <2>1, <2>2
<1> QED
  BY <1>3, <1>4

\* What is picked is a sequence of the elements at the positions, each once, in order:
\* Ith numbers the positions from one to the length.
LEMMA PickedIsSeq ==
  ASSUME NEW S, NEW s \in Seq(S), NEW K \in SUBSET DOMAIN s
  PROVE  /\ IsFiniteSet(K) /\ K \in SUBSET Nat /\ Cardinality(K) \in Nat
         /\ Picked(s, K) \in Seq(S)
         /\ Len(Picked(s, K)) = Cardinality(K)
         /\ DOMAIN Picked(s, K) = 1 .. Cardinality(K)
         /\ \A i \in 1 .. Cardinality(K) :
              Ith(K, i) \in K /\ Picked(s, K)[i] = s[Ith(K, i)]
<1>1. DOMAIN s = 1 .. Len(s) /\ Len(s) \in Nat
  OBVIOUS
<1>2. IsFiniteSet(K) /\ K \in SUBSET Nat
  <2>1. IsFiniteSet(1 .. Len(s)) /\ K \in SUBSET (1 .. Len(s))
    BY <1>1, FS_Interval
  <2>2. \A k \in 1 .. Len(s) : k \in Nat
    BY <1>1
  <2> QED
    BY <2>1, <2>2, FS_Subset
<1>3. Cardinality(K) \in Nat
  BY <1>2, FS_CardinalityType
<1>4. \A i \in 1 .. Cardinality(K) : Ith(K, i) \in K
  BY <1>2, IthOf
<1>5. \A i \in 1 .. Cardinality(K) : s[Ith(K, i)] \in S
  BY <1>1, <1>4
<1> DEFINE p == Picked(s, K)
<1>6. p = [i \in 1 .. Cardinality(K) |-> s[Ith(K, i)]]
  BY DEF Picked
<1>7. p \in [1 .. Cardinality(K) -> S]
  BY <1>5, <1>6
<1>8. p \in Seq(S) /\ Len(p) = Cardinality(K) /\ DOMAIN p = 1 .. Cardinality(K)
  <2> HIDE DEF p
  <2> QED
    BY <1>3, <1>7
<1> QED
  BY <1>2, <1>3, <1>4, <1>6, <1>8

\* Its elements are those at the positions.
LEMMA PickedRange ==
  ASSUME NEW S, NEW s \in Seq(S), NEW K \in SUBSET DOMAIN s
  PROVE  {Picked(s, K)[i] : i \in DOMAIN Picked(s, K)} = {s[k] : k \in K}
<1> DEFINE p == Picked(s, K)
<1>1. ASSUME NEW i \in DOMAIN p PROVE \E k \in K : p[i] = s[k]
  BY PickedIsSeq
<1>2. ASSUME NEW k \in K PROVE \E i \in DOMAIN p : p[i] = s[k]
  <2>1. Rank(K, k) \in 1 .. Cardinality(K) /\ Ith(K, Rank(K, k)) = k
    BY PickedIsSeq, RankOf, IthRank
  <2> QED
    BY <2>1, PickedIsSeq
<1> HIDE DEF p
<1>3. {p[i] : i \in DOMAIN p} = {s[k] : k \in K}
  BY <1>1, <1>2
<1> QED
  BY <1>3 DEF p

LEMMA PickedNone ==
  ASSUME NEW s
  PROVE  Picked(s, {}) = <<>>
<1>1. Cardinality({}) = 0
  BY FS_EmptySet
<1> DEFINE f == [i \in {} |-> s[Ith({}, i)]]
<1>2. 1 .. 0 = {}
  OBVIOUS
<1>3. Picked(s, {}) = f
  BY <1>1, <1>2 DEF Picked
<1>4. f = <<>>
  OBVIOUS
<1> QED
  BY <1>3, <1>4

\* The positions of a whole sequence number themselves.
LEMMA CardinalityOfInterval ==
  ASSUME NEW n \in Nat
  PROVE  IsFiniteSet(1 .. n) /\ Cardinality(1 .. n) = n
<1>1. IsFiniteSet(1 .. n) /\ Cardinality(1 .. n) = IF 1 > n THEN 0 ELSE n - 1 + 1
  BY FS_Interval
<1> QED
  BY <1>1

LEMMA IthOfInterval ==
  ASSUME NEW n \in Nat, NEW k \in 1 .. n
  PROVE  Ith(1 .. n, k) = k
<1>1. {j \in 1 .. n : j <= k} = 1 .. k /\ k \in Nat
  OBVIOUS
<1>2. Rank(1 .. n, k) = k
  BY <1>1, CardinalityOfInterval DEF Rank
<1>3. IsFiniteSet(1 .. n) /\ 1 .. n \in SUBSET Nat
  BY CardinalityOfInterval
<1>4. Ith(1 .. n, Rank(1 .. n, k)) = k
  BY <1>3, IthRank
<1> QED
  BY <1>2, <1>4

LEMMA PickedAll ==
  ASSUME NEW S, NEW s \in Seq(S)
  PROVE  Picked(s, DOMAIN s) = s
<1> DEFINE n == Len(s)
<1>1. n \in Nat /\ DOMAIN s = 1 .. n
  OBVIOUS
<1> HIDE DEF n
<1>2. Cardinality(1 .. n) = n
  BY <1>1, CardinalityOfInterval
<1>3. \A i \in 1 .. n : Ith(1 .. n, i) = i
  BY <1>1, IthOfInterval
<1>4. Picked(s, 1 .. n) = [i \in 1 .. n |-> s[i]]
  BY <1>2, <1>3 DEF Picked
<1>5. s = [i \in 1 .. n |-> s[i]]
  BY <1>1
<1> QED
  BY <1>1, <1>4, <1>5

-----------------------------------------------------------------------------
(* Induction, and sequences flattened *)

\* A set of numbers has a least one.
LEMMA LeastOf ==
  ASSUME NEW T \in SUBSET Nat, T # {}
  PROVE  \E m \in T : \A n \in T : m <= n
<1> DEFINE R == OpToRel(<, Nat)
<1>1. IsWellFoundedOn(R, Nat)
  BY NatLessThanWellFounded
<1>2. \A x, y \in Nat : x < y => <<x, y>> \in R
  BY DEF OpToRel
<1> HIDE DEF R
<1>3. PICK m \in T : \A n \in T : ~(<<n, m>> \in R)
  BY <1>1, WFMin
<1>4. ASSUME NEW n \in T PROVE m <= n
  <2>1. m \in Nat /\ n \in Nat
    OBVIOUS
  <2>2. ~(n < m)
    BY <1>2, <1>3, <2>1
  <2> QED
    BY <2>1, <2>2
<1> QED
  BY <1>4

\* Induction, over a set instead of a predicate.
LEMMA SetInduction ==
  ASSUME NEW S, 0 \in S, \A n \in Nat : n \in S => n + 1 \in S
  PROVE  Nat \subseteq S
<1> DEFINE T == Nat \ S
<1>1. SUFFICES ASSUME T # {} PROVE FALSE
  OBVIOUS
<1>2. PICK m \in T : \A n \in T : m <= n
  BY <1>1, LeastOf
<1>3. m # 0 /\ m - 1 \in Nat /\ m - 1 \notin T
  BY <1>2
<1> QED
  BY <1>3

\* h is what n steps make of b.
Folds(g, S, n, base, f) ==
  /\ g \in [0 .. n -> S]
  /\ g[0] = base
  /\ \A i \in 1 .. n : g[i] = f[i][g[i - 1]]

\* A function by recursion over the first n numbers, from a table of its steps.
LEMMA Folding ==
  ASSUME NEW S, NEW n \in Nat, NEW base \in S, NEW f \in [1 .. n -> [S -> S]]
  PROVE  \E g : Folds(g, S, n, base, f)
<1> DEFINE Good(m, g) == /\ g[0] = base
                         /\ \A i \in 1 .. m : g[i] = f[i][g[i - 1]]
           P == {m \in Nat : m <= n => \E g \in [0 .. m -> S] : Good(m, g)}
<1>1. 0 \in P
  <2>1. [i \in 0 .. 0 |-> base] \in [0 .. 0 -> S] /\ Good(0, [i \in 0 .. 0 |-> base])
    OBVIOUS
  <2> QED
    BY <2>1
<1>2. ASSUME NEW m \in Nat, m \in P PROVE m + 1 \in P
  <2> SUFFICES ASSUME m + 1 <= n PROVE \E g \in [0 .. m + 1 -> S] : Good(m + 1, g)
    OBVIOUS
  <2>1. PICK g \in [0 .. m -> S] : Good(m, g)
    BY <1>2
  <2> DEFINE h == [i \in 0 .. m + 1 |-> IF i = m + 1 THEN f[m + 1][g[m]] ELSE g[i]]
  <2>2. g[m] \in S /\ m + 1 \in 1 .. n
    OBVIOUS
  <2>3. f[m + 1][g[m]] \in S
    BY <2>2
  <2>4. h \in [0 .. m + 1 -> S]
    BY <2>3
  <2>5. h[0] = base
    BY <2>1
  <2>6. ASSUME NEW i \in 1 .. m + 1 PROVE h[i] = f[i][h[i - 1]]
    <3>1. CASE i = m + 1
      <4>1. h[i - 1] = g[m] /\ h[i] = f[m + 1][g[m]]
        BY <3>1
      <4> QED
        BY <3>1, <4>1
    <3>2. CASE i # m + 1
      <4>1. i \in 1 .. m /\ h[i] = g[i] /\ h[i - 1] = g[i - 1]
        BY <3>2
      <4> QED
        BY <2>1, <4>1
    <3> QED
      BY <3>1, <3>2
  <2> QED
    BY <2>4, <2>5, <2>6
<1>3. n \in P
  BY <1>1, <1>2, SetInduction
<1>4. PICK g \in [0 .. n -> S] : Good(n, g)
  BY <1>3
<1>5. Folds(g, S, n, base, f)
  BY <1>4 DEF Folds
<1> QED
  BY <1>5

\* What FlattenSeq does with one sequence more.
LEMMA FlattenUnfolds ==
  ASSUME NEW T, NEW s \in Seq(Seq(T)), s # <<>>
  PROVE  \E g \in [1 .. Len(s) -> Seq(T)] :
           /\ FlattenSeq(s) = g[Len(s)]
           /\ g[1] = s[1]
           /\ \A i \in 2 .. Len(s) : g[i] = g[i - 1] \o s[i]
<1> DEFINE n == Len(s)
<1>1. n \in Nat /\ n # 0 /\ DOMAIN s = 1 .. n /\ \A i \in 1 .. n : s[i] \in Seq(T)
  BY EmptySeq
<1>2. \E g \in [1 .. n -> Seq(T)] : g = [i \in 1 .. n |-> IF i = 1 THEN s[i] ELSE g[i - 1] \o s[i]]
  <2> HIDE DEF n
  <2> DEFINE f == [i \in 1 .. n |-> [t \in Seq(T) |-> t \o s[i]]]
  <2>1. f \in [1 .. n -> [Seq(T) -> Seq(T)]]
    BY <1>1, ConcatProperties
  <2>2. <<>> \in Seq(T)
    OBVIOUS
  <2> DEFINE S == Seq(T)
           none == <<>>
  <2> HIDE DEF f
  <2>a. f \in [1 .. n -> [S -> S]] /\ none \in S
    BY <2>1, <2>2
  <2> HIDE DEF S, none
  <2>b. \E h : Folds(h, S, n, none, f)
    <3>1. n \in Nat /\ none \in S /\ f \in [1 .. n -> [S -> S]]
      BY <1>1, <2>a
    <3> QED
      BY <3>1, Folding
  <2> USE DEF S, none
  <2>3. PICK h \in [0 .. n -> Seq(T)] :
          h[0] = <<>> /\ \A i \in 1 .. n : h[i] = f[i][h[i - 1]]
    BY <2>b DEF Folds
  <2>4. \A i \in 1 .. n : h[i - 1] \in Seq(T)
    BY <1>1
  <2>5. ASSUME NEW i \in 1 .. n PROVE h[i] = h[i - 1] \o s[i]
    <3>1. h[i - 1] \in Seq(T)
      BY <2>4
    <3>2. f[i][h[i - 1]] = h[i - 1] \o s[i]
      BY <3>1 DEF f
    <3> QED
      BY <2>3, <3>2
  <2>6. h[1] = s[1]
    <3>1. s[1] \in Seq(T) /\ 1 \in 1 .. n
      BY <1>1
    <3>2. h[1] = <<>> \o s[1]
      <4>1. h[1] = h[1 - 1] \o s[1]
        BY <2>5, <3>1
      <4>2. h[1 - 1] = <<>>
        BY <2>3
      <4> QED
        BY <4>1, <4>2
    <3> QED
      BY <3>1, <3>2, ConcatEmptySeq
  <2> DEFINE g == [i \in 1 .. n |-> h[i]]
  <2>7. g \in [1 .. n -> Seq(T)]
    BY <1>1
  <2>8. ASSUME NEW i \in 1 .. n PROVE g[i] = IF i = 1 THEN s[i] ELSE g[i - 1] \o s[i]
    <3>1. CASE i = 1
      BY <2>6, <3>1
    <3>2. CASE i # 1
      <4>1. g[i] = h[i] /\ g[i - 1] = h[i - 1]
        BY <1>1, <3>2
      <4> QED
        BY <2>5, <3>2, <4>1
    <3> QED
      BY <3>1, <3>2
  <2>9. g = [i \in 1 .. n |-> IF i = 1 THEN s[i] ELSE g[i - 1] \o s[i]]
    <3> HIDE DEF g
    <3> QED
      BY <2>7, <2>8
  <2> QED
    BY <2>7, <2>9
<1> DEFINE Sums(g) == g = [i \in 1 .. n |-> IF i = 1 THEN s[i] ELSE g[i - 1] \o s[i]]
<1>3. FlattenSeq(s) = (CHOOSE g : Sums(g))[n]
  BY <1>1 DEF FlattenSeq
<1>4. Sums(CHOOSE g : Sums(g))
  <2>1. \E g : Sums(g)
    BY <1>2
  <2> HIDE DEF Sums
  <2> QED
    BY <2>1
<1> DEFINE g == CHOOSE g : Sums(g)
<1> HIDE DEF g
<1>5. g = [i \in 1 .. n |-> IF i = 1 THEN s[i] ELSE g[i - 1] \o s[i]] /\ FlattenSeq(s) = g[n]
  BY <1>3, <1>4 DEF g
<1>6. \A i \in 1 .. n : g[i] = IF i = 1 THEN s[i] ELSE g[i - 1] \o s[i]
  BY <1>5
<1>7. g[1] = s[1]
  <2>1. 1 \in 1 .. n
    BY <1>1
  <2> QED
    BY <1>6, <2>1
<1>8. ASSUME NEW i \in 2 .. n PROVE g[i] = g[i - 1] \o s[i]
  <2>1. i \in 1 .. n /\ i # 1
    BY <1>1
  <2> QED
    BY <1>6, <2>1
<1>9. \A i \in 1 .. n : g[i] \in Seq(T)
  <2> DEFINE P == {m \in Nat : m + 1 \in 1 .. n => g[m + 1] \in Seq(T)}
  <2>1. 0 \in P
    BY <1>1, <1>7
  <2>2. ASSUME NEW m \in Nat, m \in P, m + 2 \in 1 .. n PROVE g[m + 2] \in Seq(T)
    <3>1. m + 2 \in 2 .. n /\ m + 1 \in 1 .. n /\ (m + 2) - 1 = m + 1
      BY <1>1, <2>2
    <3>2. g[m + 1] \in Seq(T) /\ s[m + 2] \in Seq(T)
      BY <1>1, <2>2, <3>1
    <3>3. g[m + 2] = g[m + 1] \o s[m + 2]
      BY <1>8, <3>1
    <3> QED
      BY <3>2, <3>3, ConcatProperties
  <2>3. \A m \in Nat : m \in P => m + 1 \in P
    BY <2>2
  <2> HIDE DEF P
  <2>4. Nat \subseteq P
    BY <2>1, <2>3, SetInduction
  <2> SUFFICES ASSUME NEW i \in 1 .. n PROVE g[i] \in Seq(T)
    OBVIOUS
  <2>5. i - 1 \in Nat /\ (i - 1) + 1 = i
    BY <1>1
  <2>6. i - 1 \in P
    BY <2>4, <2>5
  <2> QED
    BY <1>1, <2>5, <2>6 DEF P
<1>10. g \in [1 .. n -> Seq(T)]
  <2>1. DOMAIN g = 1 .. n /\ g = [i \in 1 .. n |-> g[i]]
    BY <1>5
  <2> QED
    BY <1>9, <2>1
<1> QED
  BY <1>5, <1>7, <1>8, <1>10

\* A place in what is flattened, from the place in the sequence it comes from.
Offsets(off, s) ==
  /\ off \in [1 .. Len(s) + 1 -> Nat]
  /\ off[1] = 0 /\ off[Len(s) + 1] = Len(FlattenSeq(s))
  /\ \A i \in 1 .. Len(s) :
       /\ off[i + 1] = off[i] + Len(s[i])
       /\ \A l \in 1 .. Len(s[i]) : FlattenSeq(s)[off[i] + l] = s[i][l]
  /\ \A k \in 1 .. Len(FlattenSeq(s)) : \E i \in 1 .. Len(s) : \E l \in 1 .. Len(s[i]) : k = off[i] + l

\* Each place of what is flattened comes from one place of one of the sequences.
LEMMA FlattenPlaces ==
  ASSUME NEW T, NEW s \in Seq(Seq(T))
  PROVE  FlattenSeq(s) \in Seq(T) /\ \E off : Offsets(off, s)
<1> DEFINE n == Len(s)
           flat == FlattenSeq(s)
<1>1. n \in Nat /\ DOMAIN s = 1 .. n
  OBVIOUS
<1>2. ASSUME NEW i \in 1 .. n PROVE s[i] \in Seq(T) /\ Len(s[i]) \in Nat
  OBVIOUS
<1>3. CASE s = <<>>
  <2>1. flat = <<>> /\ n = 0 /\ Len(flat) = 0 /\ flat \in Seq(T)
    BY <1>3 DEF FlattenSeq
  <2> DEFINE off == [i \in 1 .. 1 |-> 0]
  <2> HIDE DEF n, flat
  <2>2. off \in [1 .. n + 1 -> Nat] /\ off[1] = 0 /\ off[n + 1] = Len(flat)
    BY <2>1
  <2>3. Offsets(off, s)
    BY <2>1, <2>2 DEF Offsets, n, flat
  <2> QED
    BY <2>1, <2>3 DEF flat
<1>4. CASE s # <<>>
  <2>1. n # 0
    BY <1>4, EmptySeq
  <2>2. PICK g \in [1 .. n -> Seq(T)] :
          /\ flat = g[n]
          /\ g[1] = s[1]
          /\ \A i \in 2 .. n : g[i] = g[i - 1] \o s[i]
    BY <1>4, FlattenUnfolds
  <2> HIDE DEF n, flat
  <2> DEFINE off == [i \in 1 .. n + 1 |-> IF i = 1 THEN 0 ELSE Len(g[i - 1])]
  <2>3. ASSUME NEW i \in 1 .. n PROVE g[i] \in Seq(T) /\ Len(g[i]) \in Nat
    BY LenProperties
  <2>4. off \in [1 .. n + 1 -> Nat] /\ off[1] = 0 /\ off[n + 1] = Len(flat)
    <3>1. ASSUME NEW i \in 1 .. n + 1 PROVE off[i] \in Nat
      <4>1. CASE i = 1
        BY <4>1
      <4>2. CASE i # 1
        <5>1. i - 1 \in 1 .. n
          BY <1>1, <4>2
        <5> QED
          BY <2>3, <4>2, <5>1
      <4> QED
        BY <4>1, <4>2
    <3>2. off[n + 1] = Len(g[n])
      BY <1>1, <2>1
    <3>3. off \in [1 .. n + 1 -> Nat]
      BY <3>1
    <3> QED
      BY <1>1, <2>2, <3>2, <3>3
  <2>5. ASSUME NEW i \in 1 .. n
        PROVE  /\ off[i + 1] = Len(g[i])
               /\ off[i + 1] = off[i] + Len(s[i])
               /\ \A l \in 1 .. Len(s[i]) : off[i] + l \in 1 .. Len(g[i]) /\ g[i][off[i] + l] = s[i][l]
    <3>1. i + 1 \in 1 .. n + 1 /\ i + 1 # 1 /\ (i + 1) - 1 = i
      BY <1>1
    <3>2. off[i + 1] = Len(g[i])
      BY <3>1
    <3>3. CASE i = 1
      <4>1. g[i] = s[i] /\ off[i] = 0 /\ Len(s[i]) \in Nat
        BY <1>2, <2>2, <2>4, <3>3
      <4>2. \A l \in 1 .. Len(s[i]) : 0 + l = l /\ l \in 1 .. Len(s[i])
        BY <4>1
      <4>3. Len(s[i]) = 0 + Len(s[i])
        BY <4>1
      <4> HIDE DEF off
      <4> QED
        BY <3>2, <4>1, <4>2, <4>3
    <3>4. CASE i # 1
      <4>1. i - 1 \in 1 .. n /\ i \in 2 .. n /\ i \in 1 .. n + 1
        BY <1>1, <3>4
      <4>2. off[i] = Len(g[i - 1])
        BY <3>4, <4>1
      <4>3. g[i] = g[i - 1] \o s[i]
        BY <2>2, <4>1
      <4>4. g[i - 1] \in Seq(T) /\ Len(g[i - 1]) \in Nat /\ s[i] \in Seq(T) /\ Len(s[i]) \in Nat
        BY <1>2, <2>3, <4>1
      <4> DEFINE a == g[i - 1]
                 b == s[i]
      <4>5. /\ Len(a \o b) = Len(a) + Len(b)
            /\ \A k \in 1 .. Len(a) + Len(b) : (a \o b)[k] = IF k <= Len(a) THEN a[k] ELSE b[k - Len(a)]
        BY <4>4, ConcatProperties
      <4>7. Len(a) \in Nat /\ Len(b) \in Nat
        BY <4>4
      <4> HIDE DEF a, b
      <4>6. ASSUME NEW l \in 1 .. Len(b)
            PROVE  Len(a) + l \in 1 .. Len(a \o b) /\ (a \o b)[Len(a) + l] = b[l]
        <5>1. Len(a) + l \in 1 .. Len(a) + Len(b) /\ ~(Len(a) + l <= Len(a)) /\ (Len(a) + l) - Len(a) = l
          BY <4>7
        <5> QED
          BY <4>5, <5>1
      <4> QED
        BY <3>2, <4>2, <4>3, <4>5, <4>6 DEF a, b
    <3> QED
      BY <3>3, <3>4
  <2> HIDE DEF off
  \* What was flattened so far is the beginning of the rest.
  <2>6. ASSUME NEW i \in 1 .. n, NEW j \in i .. n, NEW k \in 1 .. Len(g[i])
        PROVE  k \in 1 .. Len(g[j]) /\ g[j][k] = g[i][k]
    <3> DEFINE P == {m \in Nat : i + m <= n => k \in 1 .. Len(g[i + m]) /\ g[i + m][k] = g[i][k]}
    <3>1. 0 \in P
      OBVIOUS
    <3>2. ASSUME NEW m \in Nat, m \in P, i + (m + 1) <= n
          PROVE  k \in 1 .. Len(g[i + (m + 1)]) /\ g[i + (m + 1)][k] = g[i][k]
      <4>1. i + m \in 1 .. n /\ i + (m + 1) \in 2 .. n /\ i + (m + 1) \in 1 .. n /\ (i + (m + 1)) - 1 = i + m
        BY <1>1, <3>2
      <4> DEFINE a == g[i + m]
                 b == s[i + (m + 1)]
      <4>2. g[i + (m + 1)] = a \o b
        BY <2>2, <4>1
      <4>3. a \in Seq(T) /\ b \in Seq(T) /\ Len(a) \in Nat /\ Len(b) \in Nat
        BY <1>2, <2>3, <4>1
      <4>4. k \in 1 .. Len(a) /\ a[k] = g[i][k]
        BY <3>2, <4>1
      <4>5. /\ Len(a \o b) = Len(a) + Len(b)
            /\ \A p \in 1 .. Len(a) + Len(b) : (a \o b)[p] = IF p <= Len(a) THEN a[p] ELSE b[p - Len(a)]
        BY <4>3, ConcatProperties
      <4> HIDE DEF a, b
      <4> QED
        BY <4>2, <4>3, <4>4, <4>5
    <3>3. \A m \in Nat : m \in P => m + 1 \in P
      BY <3>2
    <3> HIDE DEF P
    <3>4. j - i \in P
      <4>1. j - i \in Nat
        BY <1>1
      <4> QED
        BY <3>1, <3>3, <4>1, SetInduction
    <3> QED
      BY <1>1, <3>4 DEF P
  <2>7. ASSUME NEW i \in 1 .. n, NEW l \in 1 .. Len(s[i]) PROVE flat[off[i] + l] = s[i][l]
    <3>1. off[i] + l \in 1 .. Len(g[i]) /\ g[i][off[i] + l] = s[i][l] /\ n \in i .. n
      BY <1>1, <2>5
    <3> QED
      BY <2>2, <2>6, <3>1
  <2>8. ASSUME NEW k \in 1 .. Len(flat)
        PROVE  \E i \in 1 .. n : \E l \in 1 .. Len(s[i]) : k = off[i] + l
    <3> DEFINE R == {i \in 1 .. n : k <= Len(g[i])}
    <3>1. R \in SUBSET Nat /\ n \in R
      BY <1>1, <2>1, <2>2, <2>3
    <3>2. PICK i \in R : \A j \in R : i <= j
      BY <3>1, LeastOf
    <3>3. off[i] \in Nat /\ off[i] < k
      <4>1. CASE i = 1
        BY <2>4, <4>1
      <4>2. CASE i # 1
        <5>1. i - 1 \in 1 .. n /\ i - 1 \notin R
          BY <1>1, <3>2, <4>2
        <5>2. off[(i - 1) + 1] = Len(g[i - 1]) /\ Len(g[i - 1]) \in Nat /\ (i - 1) + 1 = i
          BY <2>3, <2>5, <5>1
        <5> QED
          BY <5>1, <5>2
      <4> QED
        BY <4>1, <4>2
    <3>4. i \in 1 .. n /\ k <= Len(g[i]) /\ Len(g[i]) = off[i] + Len(s[i]) /\ Len(s[i]) \in Nat
      BY <1>2, <2>5, <3>2
    <3>5. k - off[i] \in 1 .. Len(s[i]) /\ k = off[i] + (k - off[i])
      BY <3>3, <3>4
    <3> QED
      BY <3>4, <3>5
  <2>9. Offsets(off, s)
    BY <2>4, <2>5, <2>7, <2>8 DEF Offsets, n, flat
  <2>10. flat \in Seq(T)
    BY <1>1, <2>1, <2>2
  <2> QED
    BY <2>9, <2>10 DEF flat
<1> QED
  BY <1>3, <1>4

\* What is flattened has the elements of each of the sequences, and only these.
LEMMA FlattenIs ==
  ASSUME NEW T, NEW s \in Seq(Seq(T))
  PROVE  LET flat == FlattenSeq(s)
         IN  /\ flat \in Seq(T)
             /\ \A k \in DOMAIN flat : \E i \in DOMAIN s : \E l \in DOMAIN s[i] : flat[k] = s[i][l]
             /\ \A i \in DOMAIN s : \A l \in DOMAIN s[i] : \E k \in DOMAIN flat : flat[k] = s[i][l]
<1> DEFINE flat == FlattenSeq(s)
<1>1. flat \in Seq(T) /\ \E off : Offsets(off, s)
  BY FlattenPlaces
<1>2. PICK off : Offsets(off, s)
  BY <1>1
<1> HIDE DEF flat
<1>3. DOMAIN s = 1 .. Len(s) /\ DOMAIN flat = 1 .. Len(flat) /\ Len(s) \in Nat /\ Len(flat) \in Nat
  BY <1>1
<1>4. ASSUME NEW i \in DOMAIN s PROVE DOMAIN s[i] = 1 .. Len(s[i]) /\ Len(s[i]) \in Nat
  OBVIOUS
<1>5. ASSUME NEW k \in DOMAIN flat PROVE \E i \in DOMAIN s : \E l \in DOMAIN s[i] : flat[k] = s[i][l]
  <2>1. PICK i \in 1 .. Len(s) : \E l \in 1 .. Len(s[i]) : k = off[i] + l
    BY <1>2, <1>3 DEF Offsets, flat
  <2>2. PICK l \in 1 .. Len(s[i]) : k = off[i] + l
    BY <2>1
  <2>3. flat[k] = s[i][l]
    BY <1>2, <2>2 DEF Offsets, flat
  <2> QED
    BY <1>3, <1>4, <2>3
<1>6. ASSUME NEW i \in DOMAIN s, NEW l \in DOMAIN s[i] PROVE \E k \in DOMAIN flat : flat[k] = s[i][l]
  <2>1. i \in 1 .. Len(s) /\ l \in 1 .. Len(s[i])
    BY <1>3, <1>4
  <2>2. flat[off[i] + l] = s[i][l] /\ off[i + 1] = off[i] + Len(s[i]) /\ off[i] \in Nat
    <3>1. i \in 1 .. Len(s) + 1
      BY <1>3, <2>1
    <3> QED
      BY <1>2, <2>1, <3>1 DEF Offsets, flat
  <2>3. off[i + 1] <= Len(flat)
    <3> DEFINE P == {m \in Nat : m <= Len(s) => off[(Len(s) + 1) - m] <= Len(flat)}
    <3>1. 0 \in P
      BY <1>2, <1>3 DEF Offsets, flat
    <3>2. ASSUME NEW m \in Nat, m \in P, m + 1 <= Len(s) PROVE off[(Len(s) + 1) - (m + 1)] <= Len(flat)
      <4> DEFINE j == (Len(s) + 1) - (m + 1)
      <4>1. j \in 1 .. Len(s) /\ j + 1 = (Len(s) + 1) - m /\ j \in 1 .. Len(s) + 1 /\ j + 1 \in 1 .. Len(s) + 1
        BY <1>3, <3>2
      <4>2. off[j + 1] <= Len(flat)
        BY <1>3, <3>2, <4>1
      <4> HIDE DEF j
      <4>3. off[j + 1] = off[j] + Len(s[j]) /\ off[j] \in Nat /\ off[j + 1] \in Nat /\ Len(s[j]) \in Nat
        BY <1>2, <1>3, <1>4, <4>1 DEF Offsets
      <4>4. off[j] <= Len(flat)
        BY <1>3, <4>2, <4>3
      <4> QED
        BY <4>4 DEF j
    <3>3. ASSUME NEW m \in Nat, m \in P PROVE m + 1 \in P
      <4>1. m + 1 <= Len(s) => off[(Len(s) + 1) - (m + 1)] <= Len(flat)
        BY <3>2, <3>3
      <4>2. m + 1 \in Nat
        OBVIOUS
      <4> QED
        BY <4>1, <4>2
    <3> HIDE DEF P
    <3>4. Len(s) - i \in P
      <4>1. Len(s) - i \in Nat
        BY <1>3, <2>1
      <4> QED
        BY <3>1, <3>3, <4>1, SetInduction
    <3>5. Len(s) - i <= Len(s) /\ (Len(s) + 1) - (Len(s) - i) = i + 1
      BY <1>3, <2>1
    <3> QED
      BY <3>4, <3>5 DEF P
  <2>4. off[i] + l \in DOMAIN flat
    BY <1>3, <1>4, <2>1, <2>2, <2>3
  <2> QED
    BY <2>2, <2>4
<1> QED
  BY <1>1, <1>5, <1>6 DEF flat

\* FlattenSeq, as what its sequences make one after the other.
LEMMA FlattenFolds ==
  ASSUME NEW T, NEW s \in Seq(Seq(T))
  PROVE  \E h \in [0 .. Len(s) -> Seq(T)] :
           /\ h[0] = <<>> /\ h[Len(s)] = FlattenSeq(s)
           /\ \A i \in 1 .. Len(s) : h[i] = h[i - 1] \o s[i]
<1> DEFINE N == Len(s)
<1>1. N \in Nat /\ DOMAIN s = 1 .. N /\ \A i \in 1 .. N : s[i] \in Seq(T)
  OBVIOUS
<1>2. <<>> \in Seq(T)
  OBVIOUS
<1>3. CASE s = <<>>
  <2>1. PICK off : Offsets(off, s)
    BY FlattenPlaces
  <2>2. FlattenSeq(s) \in Seq(T)
    BY FlattenPlaces
  <2>3. N = 0
    BY <1>3
  <2>4. Len(FlattenSeq(s)) = 0
    <3>1. 0 + 1 = 1
      OBVIOUS
    <3> QED
      BY <2>1, <2>3, <3>1 DEF Offsets
  <2>5. FlattenSeq(s) = <<>>
    BY <2>2, <2>4, EmptySeq
  <2> DEFINE h == [i \in 0 .. N |-> <<>>]
  <2>6. h \in [0 .. N -> Seq(T)] /\ h[0] = <<>> /\ h[N] = FlattenSeq(s) /\ 1 .. N = {}
    BY <1>1, <1>2, <2>3, <2>5
  <2> QED
    BY <2>6
<1>4. CASE s # <<>>
  <2>1. PICK g \in [1 .. N -> Seq(T)] :
          /\ FlattenSeq(s) = g[N] /\ g[1] = s[1]
          /\ \A i \in 2 .. N : g[i] = g[i - 1] \o s[i]
    BY <1>4, FlattenUnfolds
  <2>2. N # 0
    BY <1>4, EmptySeq
  <2> HIDE DEF N
  <2> DEFINE h == [i \in 0 .. N |-> IF i = 0 THEN <<>> ELSE g[i]]
  <2>3. h \in [0 .. N -> Seq(T)]
    <3>1. ASSUME NEW i \in 0 .. N PROVE (IF i = 0 THEN <<>> ELSE g[i]) \in Seq(T)
      <4>1. CASE i = 0
        BY <1>2, <4>1
      <4>2. CASE i # 0
        <5>1. i \in 1 .. N
          BY <1>1, <4>2
        <5> QED
          BY <4>2, <5>1
      <4> QED
        BY <4>1, <4>2
    <3> QED
      BY <3>1
  <2>4. h[0] = <<>> /\ h[N] = FlattenSeq(s)
    BY <1>1, <2>1, <2>2
  <2>5. ASSUME NEW i \in 1 .. N PROVE h[i] = h[i - 1] \o s[i]
    <3>1. i \in 0 .. N /\ i - 1 \in 0 .. N /\ h[i] = g[i]
      BY <1>1
    <3>2. CASE i = 1
      <4>1. h[i - 1] = <<>> /\ h[i] = s[1]
        BY <1>1, <2>1, <3>1, <3>2
      <4>2. s[1] \in Seq(T)
        BY <1>1, <3>2
      <4>3. <<>> \o s[1] = s[1]
        BY <4>2
      <4> QED
        BY <3>2, <4>1, <4>3
    <3>3. CASE i # 1
      <4>1. i \in 2 .. N /\ i - 1 # 0
        BY <1>1, <3>3
      <4> QED
        BY <2>1, <3>1, <4>1
    <3> QED
      BY <3>2, <3>3
  <2> QED
    BY <2>3, <2>4, <2>5 DEF N
<1> QED
  BY <1>3, <1>4

\* Sequences of which each goes on where the one before ends.
GoesOn(h, s, T, N) ==
  /\ N \in Nat /\ h \in [0 .. N -> Seq(T)]
  /\ \A i \in 1 .. N : s[i] \in Seq(T) /\ h[i] = h[i - 1] \o s[i]

\* One sequence begins with the other.
Continues(v, u) == Len(u) <= Len(v) /\ \A x \in 1 .. Len(u) : v[x] = u[x]

\* What is flattened so far stays.
LEMMA FlattenGrows ==
  ASSUME NEW T, NEW N, NEW h, NEW s, GoesOn(h, s, T, N), NEW p \in 0 .. N, NEW m \in 0 .. N - p
  PROVE  Continues(h[p + m], h[p])
<1> DEFINE cat == h[p]
           P == {j \in Nat : p + j <= N => /\ Len(cat) <= Len(h[p + j])
                                           /\ \A x \in 1 .. Len(cat) : h[p + j][x] = cat[x]}
<1>0. /\ N \in Nat /\ h \in [0 .. N -> Seq(T)]
      /\ \A i \in 1 .. N : s[i] \in Seq(T) /\ h[i] = h[i - 1] \o s[i]
  BY DEF GoesOn
<1>1. cat \in Seq(T) /\ Len(cat) \in Nat /\ p \in Nat
  <2>1. cat \in Seq(T)
    BY <1>0
  <2> HIDE DEF cat
  <2> QED
    BY <1>0, <2>1
<1>2. 0 \in P
  <2>1. p + 0 = p
    BY <1>1
  <2> QED
    BY <1>1, <2>1
<1> HIDE DEF cat
<1>3. ASSUME NEW j \in Nat, j \in P PROVE j + 1 \in P
  <2> DEFINE d == p + j
             e == d + 1
  <2>1. d \in Nat /\ p + (j + 1) = e /\ N \in Nat
    BY <1>0, <1>1
  <2> HIDE DEF d
  <2>2. CASE ~(e <= N)
    <3>1. ~(p + (j + 1) <= N)
      BY <2>1, <2>2
    <3> QED
      BY <3>1
  <2>3. CASE e <= N
    <3>1. d <= N /\ d \in 0 .. N /\ e \in 1 .. N /\ e - 1 = d
      BY <2>1, <2>3
    <3> DEFINE a == h[d]
               b == s[e]
               c == a \o b
    <3>2. a \in Seq(T) /\ b \in Seq(T) /\ h[e] = c
      BY <1>0, <3>1
    <3>3. Len(cat) <= Len(a) /\ \A x \in 1 .. Len(cat) : a[x] = cat[x]
      BY <1>3, <3>1 DEF d
    <3> HIDE DEF a, b, P, e
    <3>4. /\ Len(c) = Len(a) + Len(b) /\ Len(a) \in Nat /\ Len(b) \in Nat
          /\ \A x \in 1 .. Len(a) + Len(b) : c[x] = IF x <= Len(a) THEN a[x] ELSE b[x - Len(a)]
      BY <3>2, ConcatProperties
    <3> HIDE DEF c
    <3>5. Len(cat) <= Len(c)
      BY <1>1, <3>3, <3>4
    <3>6. ASSUME NEW x \in 1 .. Len(cat) PROVE c[x] = cat[x]
      <4>1. x \in 1 .. Len(a) + Len(b) /\ x <= Len(a)
        BY <1>1, <3>3, <3>4
      <4> QED
        BY <3>3, <3>4, <4>1
    <3> QED
      BY <2>1, <3>2, <3>5, <3>6 DEF P
  <2> QED
    BY <2>2, <2>3
<1> HIDE DEF P
<1>4. m \in P
  <2>1. m \in Nat
    BY <1>0, <1>1
  <2>2. \A j \in Nat : j \in P => j + 1 \in P
    BY <1>3
  <2> QED
    BY <1>2, <2>1, <2>2, SetInduction
<1>5. p + m <= N
  BY <1>0, <1>1
<1> QED
  BY <1>4, <1>5 DEF P, cat, Continues

\* The start of what is flattened.
LEMMA FlattenPrefix ==
  ASSUME NEW T, NEW s \in Seq(Seq(T)), NEW p \in DOMAIN s, NEW k \in DOMAIN s[p]
  PROVE  LET above == FlattenSeq(SubSeq(s, 1, p - 1))
             all == FlattenSeq(s)
         IN  /\ above \in Seq(T) /\ all \in Seq(T)
             /\ Len(above) + k \in DOMAIN all /\ all[Len(above) + k] = s[p][k]
             /\ SubSeq(all, 1, Len(above) + k) = above \o SubSeq(s[p], 1, k)
<1> DEFINE N == Len(s)
           start == SubSeq(s, 1, p - 1)
           above == FlattenSeq(start)
           all == FlattenSeq(s)
<1>1. N \in Nat /\ DOMAIN s = 1 .. N /\ p \in 1 .. N /\ p - 1 \in 0 .. N /\ \A i \in 1 .. N : s[i] \in Seq(T)
  OBVIOUS
<1>2. PICK h \in [0 .. N -> Seq(T)] :
        /\ h[0] = <<>> /\ h[N] = all
        /\ \A i \in 1 .. N : h[i] = h[i - 1] \o s[i]
  BY FlattenFolds
<1>3. /\ start \in Seq(Seq(T)) /\ Len(start) = p - 1
      /\ \A i \in 1 .. p - 1 : start[i] = s[i]
  <2>1. 1 \in Int /\ p - 1 \in Int /\ \A i \in 1 .. p - 1 : s[i] \in Seq(T)
    BY <1>1
  <2>2. /\ start \in Seq(Seq(T))
        /\ Len(start) = IF 1 <= p - 1 THEN (p - 1) - 1 + 1 ELSE 0
        /\ \A i \in 1 .. (p - 1) - 1 + 1 : start[i] = s[1 + i - 1]
    BY <2>1, SubSeqProperties
  <2>3. (p - 1) - 1 + 1 = p - 1 /\ (~(1 <= p - 1) => p - 1 = 0) /\ \A i \in 1 .. p - 1 : 1 + i - 1 = i
    BY <1>1
  <2> HIDE DEF start
  <2> QED
    BY <2>2, <2>3
<1> HIDE DEF start
<1>4. PICK g \in [0 .. p - 1 -> Seq(T)] :
        /\ g[0] = <<>> /\ g[p - 1] = above
        /\ \A i \in 1 .. p - 1 : g[i] = g[i - 1] \o start[i]
  <2>1. \E g \in [0 .. Len(start) -> Seq(T)] :
           /\ g[0] = <<>> /\ g[Len(start)] = FlattenSeq(start)
           /\ \A i \in 1 .. Len(start) : g[i] = g[i - 1] \o start[i]
    BY <1>3, FlattenFolds
  <2> QED
    BY <1>3, <2>1
<1> HIDE DEF above, all, N
<1>5. h[p - 1] = above
  <2> DEFINE P == {m \in Nat : m <= p - 1 => g[m] = h[m]}
  <2>1. 0 \in P
    BY <1>2, <1>4
  <2>2. ASSUME NEW m \in Nat, m \in P, m + 1 <= p - 1 PROVE g[m + 1] = h[m + 1]
    <3>1. m <= p - 1 /\ m + 1 \in 1 .. p - 1 /\ m + 1 \in 1 .. N /\ (m + 1) - 1 = m
      BY <1>1, <2>2
    <3>2. g[m] = h[m]
      BY <2>2, <3>1
    <3>3. g[m + 1] = g[m] \o start[m + 1]
      BY <1>4, <3>1
    <3>4. h[m + 1] = h[m] \o s[m + 1]
      BY <1>2, <3>1
    <3>5. start[m + 1] = s[m + 1]
      BY <1>3, <3>1
    <3> QED
      BY <3>2, <3>3, <3>4, <3>5
  <2>3. \A m \in Nat : m \in P => m + 1 \in P
    BY <2>2
  <2> HIDE DEF P
  <2>4. p - 1 \in P
    <3>1. p - 1 \in Nat
      BY <1>1
    <3> QED
      BY <2>1, <2>3, <3>1, SetInduction
  <2> QED
    BY <1>1, <1>4, <2>4 DEF P
<1> DEFINE q == s[p]
           f == Len(above)
           cat == above \o q
<1>6. above \in Seq(T) /\ q \in Seq(T) /\ f \in Nat /\ Len(q) \in Nat /\ k \in 1 .. Len(q)
  BY <1>1, <1>4
<1>7. h[p] = cat
  BY <1>1, <1>2, <1>5
<1>8. /\ cat \in Seq(T) /\ Len(cat) = f + Len(q)
      /\ \A x \in 1 .. f + Len(q) : cat[x] = IF x <= f THEN above[x] ELSE q[x - f]
  BY <1>6, ConcatProperties
<1>9. /\ Len(cat) <= Len(all)
      /\ \A x \in 1 .. Len(cat) : all[x] = cat[x]
  <2> DEFINE m == N - p
  <2>1. m \in 0 .. N - p /\ p \in 0 .. N /\ p + m = N /\ N \in Nat
    BY <1>1
  <2> HIDE DEF m, cat
  <2>2. \A i \in 1 .. N : s[i] \in Seq(T)
    BY <1>1
  <2>3. Continues(h[p + m], h[p])
    <3>1. GoesOn(h, s, T, N)
      BY <1>2, <2>1, <2>2 DEF GoesOn
    <3> QED
      BY <2>1, <3>1, FlattenGrows
  <2> QED
    BY <1>2, <1>7, <2>1, <2>3 DEF Continues
<1>10. /\ Len(cat) <= Len(all) /\ all \in Seq(T) /\ Len(all) \in Nat
       /\ \A x \in 1 .. Len(cat) : all[x] = cat[x]
  <2>1. all \in Seq(T)
    BY <1>1, <1>2
  <2> QED
    BY <1>9, <2>1
<1> DEFINE j == f + k
           sub == SubSeq(all, 1, j)
           part == SubSeq(q, 1, k)
           other == above \o part
<1>11. j \in Nat /\ j \in 1 .. Len(cat) /\ j \in 1 .. Len(all) /\ j > f /\ j - f = k /\ j \in 1 .. f + Len(q)
  BY <1>6, <1>8, <1>10
<1>12. all[j] = q[k] /\ DOMAIN all = 1 .. Len(all)
  <2>1. all[j] = cat[j]
    BY <1>10, <1>11
  <2>2. cat[j] = q[j - f]
    BY <1>6, <1>8, <1>11
  <2>3. DOMAIN all = 1 .. Len(all)
    BY <1>10
  <2> QED
    BY <1>11, <2>1, <2>2, <2>3
<1>13. /\ part \in Seq(T) /\ Len(part) = k
       /\ \A x \in 1 .. k : part[x] = q[x]
  <2>1. 1 \in Int /\ k \in Int /\ \A x \in 1 .. k : q[x] \in T
    BY <1>6
  <2>2. /\ part \in Seq(T)
        /\ Len(part) = IF 1 <= k THEN k - 1 + 1 ELSE 0
        /\ \A x \in 1 .. k - 1 + 1 : part[x] = q[1 + x - 1]
    BY <2>1, SubSeqProperties
  <2>3. k - 1 + 1 = k /\ 1 <= k /\ \A x \in 1 .. k : 1 + x - 1 = x
    BY <1>6
  <2> HIDE DEF part
  <2> QED
    BY <2>2, <2>3
<1>14. /\ sub \in Seq(T) /\ Len(sub) = j
       /\ \A x \in 1 .. j : sub[x] = all[x]
  <2> HIDE DEF j
  <2>1. 1 \in Int /\ j \in Int /\ \A x \in 1 .. j : all[x] \in T
    BY <1>10, <1>11
  <2>2. /\ sub \in Seq(T)
        /\ Len(sub) = IF 1 <= j THEN j - 1 + 1 ELSE 0
        /\ \A x \in 1 .. j - 1 + 1 : sub[x] = all[1 + x - 1]
    BY <2>1, SubSeqProperties
  <2>3. j - 1 + 1 = j /\ 1 <= j /\ \A x \in 1 .. j : 1 + x - 1 = x
    BY <1>11
  <2> HIDE DEF sub
  <2> QED
    BY <2>2, <2>3
<1> HIDE DEF q, f, sub, part
<1>15. /\ other \in Seq(T) /\ Len(other) = f + k
       /\ \A x \in 1 .. f + k : other[x] = IF x <= f THEN above[x] ELSE part[x - f]
  BY <1>6, <1>13, ConcatProperties DEF f
<1> HIDE DEF cat, other
<1>16. ASSUME NEW x \in 1 .. j PROVE sub[x] = other[x]
  <2>1. x \in 1 .. Len(cat) /\ x \in 1 .. f + Len(q) /\ x \in 1 .. f + k
    BY <1>6, <1>8, <1>11
  <2>2. sub[x] = cat[x]
    BY <1>10, <1>14, <2>1
  <2>3. CASE x <= f
    BY <1>8, <1>15, <2>1, <2>2, <2>3
  <2>4. CASE ~(x <= f)
    <3>1. x - f \in 1 .. k
      BY <1>6, <2>1, <2>4
    <3> QED
      BY <1>8, <1>13, <1>15, <2>1, <2>2, <2>4, <3>1
  <2> QED
    BY <2>3, <2>4
<1>17. sub = other
  BY <1>14, <1>15, <1>16, SeqEqual
<1> QED
  BY <1>4, <1>6, <1>10, <1>11, <1>12, <1>17 DEF sub, other, part, f, q, all, above, start

\* Of two places of what is flattened, the first comes from an earlier place.
LEMMA FlattenOrder ==
  ASSUME NEW T, NEW s \in Seq(Seq(T))
  PROVE  LET flat == FlattenSeq(s)
         IN  \A k, l \in DOMAIN flat : k < l =>
               \E i, j \in DOMAIN s : \E x \in DOMAIN s[i] : \E y \in DOMAIN s[j] :
                 /\ flat[k] = s[i][x] /\ flat[l] = s[j][y]
                 /\ i < j \/ (i = j /\ x < y)
<1> DEFINE N == Len(s)
           flat == FlattenSeq(s)
<1>1. N \in Nat /\ DOMAIN s = 1 .. N
  OBVIOUS
<1>2. \A i \in 1 .. N : Len(s[i]) \in Nat /\ DOMAIN s[i] = 1 .. Len(s[i])
  <2> DEFINE S == Seq(T)
  <2>1. \A i \in 1 .. N : s[i] \in S
    BY <1>1
  <2> QED
    BY <2>1
<1>3. flat \in Seq(T) /\ DOMAIN flat = 1 .. Len(flat) /\ \E off : Offsets(off, s)
  BY FlattenPlaces
<1>4. PICK off : Offsets(off, s)
  BY <1>3
<1>5. /\ off \in [1 .. N + 1 -> Nat]
      /\ \A i \in 1 .. N : off[i + 1] = off[i] + Len(s[i])
      /\ \A i \in 1 .. N : \A x \in 1 .. Len(s[i]) : flat[off[i] + x] = s[i][x]
      /\ \A k \in DOMAIN flat : \E i \in 1 .. N : \E x \in 1 .. Len(s[i]) : k = off[i] + x
  BY <1>3, <1>4 DEF Offsets
<1> HIDE DEF N, flat
<1>6. ASSUME NEW i \in 1 .. N, NEW j \in 1 .. N, i < j PROVE off[i + 1] <= off[j]
  <2> DEFINE P == {m \in Nat : i + 1 + m <= j => off[i + 1] <= off[i + 1 + m]}
  <2>1. 0 \in P
    <3>1. i + 1 + 0 = i + 1 /\ i + 1 \in 1 .. N + 1
      BY <1>1
    <3>2. off[i + 1] \in Nat
      BY <1>5, <3>1
    <3> QED
      BY <3>1, <3>2
  <2>2. ASSUME NEW m \in Nat, m \in P, i + 1 + (m + 1) <= j PROVE off[i + 1] <= off[i + 1 + (m + 1)]
    <3> DEFINE c == i + 1 + m
    <3>1. c \in 1 .. N /\ c <= j /\ i + 1 + (m + 1) = c + 1 /\ i + 1 \in 1 .. N + 1 /\ c \in 1 .. N + 1
      BY <1>1, <2>2
    <3>2. off[i + 1] <= off[c]
      BY <2>2, <3>1
    <3> HIDE DEF c, P
    <3>3. off[c + 1] = off[c] + Len(s[c]) /\ off[c] \in Nat /\ off[i + 1] \in Nat /\ Len(s[c]) \in Nat
      BY <1>2, <1>5, <3>1
    <3>4. off[i + 1] <= off[c + 1]
      BY <3>2, <3>3
    <3> QED
      BY <3>1, <3>4
  <2>3. \A m \in Nat : m \in P => m + 1 \in P
    BY <2>2
  <2> HIDE DEF P
  <2>4. j - (i + 1) \in P
    <3>1. j - (i + 1) \in Nat
      BY <1>1, <1>6
    <3> QED
      BY <2>1, <2>3, <3>1, SetInduction
  <2>5. i + 1 + (j - (i + 1)) = j
    BY <1>1
  <2> QED
    BY <1>1, <2>4, <2>5 DEF P
<1>7. ASSUME NEW k \in DOMAIN flat, NEW l \in DOMAIN flat, k < l
      PROVE  \E i, j \in DOMAIN s : \E x \in DOMAIN s[i] : \E y \in DOMAIN s[j] :
               /\ flat[k] = s[i][x] /\ flat[l] = s[j][y]
               /\ i < j \/ (i = j /\ x < y)
  <2>1. PICK i \in 1 .. N : \E x \in 1 .. Len(s[i]) : k = off[i] + x
    BY <1>5
  <2>2. PICK x \in 1 .. Len(s[i]) : k = off[i] + x
    BY <2>1
  <2>3. PICK j \in 1 .. N : \E y \in 1 .. Len(s[j]) : l = off[j] + y
    BY <1>5
  <2>4. PICK y \in 1 .. Len(s[j]) : l = off[j] + y
    BY <2>3
  <2>5. flat[k] = s[i][x] /\ flat[l] = s[j][y]
    BY <1>5, <2>2, <2>4
  <2>6. i \in Nat /\ j \in Nat /\ x \in Nat /\ y \in Nat /\ i + 1 \in 1 .. N + 1 /\ j + 1 \in 1 .. N + 1
        /\ i \in 1 .. N + 1 /\ j \in 1 .. N + 1
    BY <1>1, <1>2
  <2>7. off[i] \in Nat /\ off[j] \in Nat /\ off[i + 1] \in Nat /\ off[j + 1] \in Nat
        /\ Len(s[i]) \in Nat /\ Len(s[j]) \in Nat
    BY <1>2, <1>5, <2>6
  <2>8. ~(j < i)
    <3> SUFFICES ASSUME j < i PROVE FALSE
      OBVIOUS
    <3>1. off[j + 1] <= off[i] /\ off[j + 1] = off[j] + Len(s[j])
      BY <1>5, <1>6
    <3> QED
      BY SMTT(20), <1>7, <2>2, <2>4, <2>7, <3>1
  <2>9. i = j => x < y
    BY <1>7, <2>2, <2>4, <2>6, <2>7
  <2>10. i < j \/ (i = j /\ x < y)
    BY <2>6, <2>8, <2>9
  <2> QED
    BY <1>1, <1>2, <2>5, <2>10
<1> QED
  BY <1>7 DEF flat

\* A bounded set of numbers has a greatest one.
LEMMA GreatestOf ==
  ASSUME NEW T \in SUBSET Nat, T # {}, NEW b \in Nat, \A t \in T : t <= b
  PROVE  \E m \in T : \A n \in T : n <= m
<1> DEFINE R == {b - t : t \in T}
<1>1. R \in SUBSET Nat /\ R # {}
  <2>1. \A t \in T : b - t \in Nat
    OBVIOUS
  <2> QED
    BY <2>1
<1>2. PICK r \in R : \A q \in R : r <= q
  BY <1>1, LeastOf
<1>3. PICK m \in T : r = b - m
  OBVIOUS
<1>4. ASSUME NEW n \in T PROVE n <= m
  <2>1. b - m <= b - n
    BY <1>2, <1>3
  <2> QED
    BY <2>1
<1> QED
  BY <1>4

\* The elements of a sequence, and those of the sequences in one.
Elements(s) == {s[i] : i \in DOMAIN s}
AllOf(seqs) == UNION {Elements(seqs[i]) : i \in DOMAIN seqs}

\* A function on the first n numbers is a sequence.
LEMMA TableIsSeq ==
  ASSUME NEW T, NEW n \in Nat, NEW s \in [1 .. n -> T]
  PROVE  s \in Seq(T) /\ DOMAIN s = 1 .. n /\ Len(s) = n
OBVIOUS

\* A sequence over a set is one over a larger set.
LEMMA SeqOfMore ==
  ASSUME NEW S, NEW T, S \subseteq T, NEW s \in Seq(S)
  PROVE  s \in Seq(T)
<1>1. Len(s) \in Nat /\ s \in [1 .. Len(s) -> S]
  OBVIOUS
<1>2. s \in [1 .. Len(s) -> T]
  BY <1>1
<1> QED
  BY <1>1, <1>2, TableIsSeq

\* No place of a sequence is zero.
LEMMA PlacesArePositive ==
  ASSUME NEW T, NEW s \in Seq(T), NEW i \in DOMAIN s
  PROVE  i # 0
OBVIOUS

\* What is flattened has the elements of its sequences.
LEMMA ElementsOfFlat ==
  ASSUME NEW T, NEW s \in Seq(Seq(T))
  PROVE  FlattenSeq(s) \in Seq(T) /\ Elements(FlattenSeq(s)) = AllOf(s)
<1> DEFINE flat == FlattenSeq(s)
<1>1. /\ flat \in Seq(T)
      /\ \A k \in DOMAIN flat : \E i \in DOMAIN s : \E l \in DOMAIN s[i] : flat[k] = s[i][l]
      /\ \A i \in DOMAIN s : \A l \in DOMAIN s[i] : \E k \in DOMAIN flat : flat[k] = s[i][l]
  BY FlattenIs
<1> HIDE DEF flat
<1>2. Elements(flat) = AllOf(s)
  BY <1>1 DEF Elements, AllOf
<1> QED
  BY <1>1, <1>2 DEF flat

\* Of two sequences one after the other, the elements of both.
LEMMA ElementsOfConcat ==
  ASSUME NEW T, NEW s \in Seq(T), NEW t \in Seq(T)
  PROVE  s \o t \in Seq(T) /\ Elements(s \o t) = Elements(s) \cup Elements(t)
<1> DEFINE c == s \o t
           m == Len(s)
           n == Len(t)
<1>1. c \in Seq(T) /\ Len(c) = m + n /\ m \in Nat /\ n \in Nat
      /\ \A i \in 1 .. m + n : c[i] = IF i <= m THEN s[i] ELSE t[i - m]
  BY ConcatProperties
<1>2. DOMAIN c = 1 .. m + n /\ DOMAIN s = 1 .. m /\ DOMAIN t = 1 .. n
  BY <1>1
<1> HIDE DEF c, m, n
<1>3. ASSUME NEW i \in DOMAIN c PROVE c[i] \in Elements(s) \cup Elements(t)
  <2>1. CASE i <= m
    <3>1. i \in DOMAIN s /\ c[i] = s[i]
      BY <1>1, <1>2, <2>1
    <3> QED
      BY <3>1 DEF Elements
  <2>2. CASE ~(i <= m)
    <3>1. i - m \in DOMAIN t /\ c[i] = t[i - m]
      BY <1>1, <1>2, <2>2
    <3> QED
      BY <3>1 DEF Elements
  <2> QED
    BY <2>1, <2>2
<1>4. ASSUME NEW i \in DOMAIN s PROVE s[i] \in Elements(c)
  <2>1. i \in DOMAIN c /\ c[i] = s[i]
    BY <1>1, <1>2
  <2> QED
    BY <2>1 DEF Elements
<1>5. ASSUME NEW i \in DOMAIN t PROVE t[i] \in Elements(c)
  <2>1. i + m \in DOMAIN c /\ ~(i + m <= m) /\ (i + m) - m = i
    BY <1>1, <1>2
  <2>2. c[i + m] = t[i]
    BY <1>1, <1>2, <2>1
  <2> QED
    BY <2>1, <2>2 DEF Elements
<1>6. Elements(c) = Elements(s) \cup Elements(t)
  BY <1>3, <1>4, <1>5 DEF Elements
<1> QED
  BY <1>1, <1>6 DEF c

\* One element more.
LEMMA ElementsOfAppend ==
  ASSUME NEW T, NEW s \in Seq(T), NEW x \in T
  PROVE  Append(s, x) \in Seq(T) /\ Elements(Append(s, x)) = Elements(s) \cup {x}
<1> DEFINE t == <<x>>
<1>1. Append(s, x) = s \o t /\ t \in Seq(T) /\ Elements(t) = {x}
  BY AppendIsConcat DEF Elements
<1> HIDE DEF t
<1>2. s \o t \in Seq(T) /\ Elements(s \o t) = Elements(s) \cup Elements(t)
  BY <1>1, ElementsOfConcat
<1> QED
  BY <1>1, <1>2

\* What is picked are the elements at its places.
LEMMA ElementsOfPicked ==
  ASSUME NEW T, NEW s \in Seq(T), NEW I \in SUBSET DOMAIN s
  PROVE  Picked(s, I) \in Seq(T) /\ Elements(Picked(s, I)) = {s[i] : i \in I}
<1>1. Picked(s, I) \in Seq(T)
  BY PickedIsSeq
<1>2. {Picked(s, I)[i] : i \in DOMAIN Picked(s, I)} = {s[i] : i \in I}
  BY PickedRange
<1> QED
  BY <1>1, <1>2 DEF Elements

\* The elements of a sequence over a set are in it.
LEMMA ElementsAreIn ==
  ASSUME NEW T, NEW s \in Seq(T)
  PROVE  Elements(s) \subseteq T
BY DEF Elements

\* One sequence more.
LEMMA AllOfAppend ==
  ASSUME NEW T, NEW s \in Seq(T), NEW x \in T
  PROVE  Append(s, x) \in Seq(T) /\ AllOf(Append(s, x)) = AllOf(s) \cup Elements(x)
<1>1. Append(s, x) \in Seq(T) /\ Elements(Append(s, x)) = Elements(s) \cup {x}
  BY ElementsOfAppend
<1> DEFINE a == Append(s, x)
<1> HIDE DEF a
<1>2. \A seqs : \A e : e \in AllOf(seqs) <=> \E t \in Elements(seqs) : e \in Elements(t)
  <2> TAKE seqs
  <2> TAKE e
  <2>1. e \in AllOf(seqs) <=> \E i \in DOMAIN seqs : e \in Elements(seqs[i])
    BY Zenon DEF AllOf
  <2>2. \A t : t \in Elements(seqs) <=> \E i \in DOMAIN seqs : t = seqs[i]
    BY Zenon DEF Elements
  <2> QED
    BY <2>1, <2>2, Zenon
<1>3. \A e : e \in AllOf(a) <=> e \in AllOf(s) \cup Elements(x)
  BY <1>1, <1>2 DEF a
<1>4. AllOf(a) = AllOf(s) \cup Elements(x)
  BY <1>3
<1> QED
  BY <1>1, <1>4 DEF a

\* The elements of one of the sequences are among those of all.
LEMMA InAllOf ==
  ASSUME NEW seqs, NEW e
  PROVE  e \in AllOf(seqs) <=> \E t \in Elements(seqs) : e \in Elements(t)
<1>1. e \in AllOf(seqs) <=> \E i \in DOMAIN seqs : e \in Elements(seqs[i])
  BY Zenon DEF AllOf
<1>2. \A t : t \in Elements(seqs) <=> \E i \in DOMAIN seqs : t = seqs[i]
  BY Zenon DEF Elements
<1> QED
  BY <1>1, <1>2, Zenon

\* An element of one of the sequences is at a place of it.
LEMMA PlaceOf ==
  ASSUME NEW seqs, NEW e \in AllOf(seqs)
  PROVE  \E p \in DOMAIN seqs : \E i \in DOMAIN seqs[p] : e = seqs[p][i]
<1>1. PICK p \in DOMAIN seqs : e \in Elements(seqs[p])
  BY Zenon DEF AllOf
<1>2. PICK i \in DOMAIN seqs[p] : e = seqs[p][i]
  BY <1>1, Zenon DEF Elements
<1> QED
  BY <1>2

\* Flattening sequences of sequences keeps all elements.
LEMMA AllOfFlat ==
  ASSUME NEW T, NEW m \in Seq(Seq(Seq(T))), NEW i \in DOMAIN m, NEW e \in AllOf(m[i])
  PROVE  e \in AllOf(FlattenSeq(m))
<1>1. PICK t \in Elements(m[i]) : e \in Elements(t)
  BY InAllOf
<1>2. t \in AllOf(m)
  BY DEF AllOf
<1>3. Elements(FlattenSeq(m)) = AllOf(m)
  BY ElementsOfFlat
<1> QED
  BY <1>1, <1>2, <1>3, InAllOf

\* What is between two positions of a sequence.
LEMMA Stretch ==
  ASSUME NEW T, NEW s \in Seq(T), NEW m \in 1 .. Len(s), NEW n \in m .. Len(s)
  PROVE  /\ SubSeq(s, m, n) \in Seq(T)
         /\ Elements(SubSeq(s, m, n)) = {s[i] : i \in m .. n}
<1> DEFINE sub == SubSeq(s, m, n)
<1>1. m \in Int /\ n \in Int /\ m <= n /\ Len(s) \in Nat /\ DOMAIN s = 1 .. Len(s)
  OBVIOUS
<1>2. \A i \in m .. n : s[i] \in T
  BY <1>1
<1>3. /\ sub \in Seq(T) /\ Len(sub) = n - m + 1
      /\ \A i \in 1 .. n - m + 1 : sub[i] = s[m + i - 1]
  BY <1>1, <1>2, SubSeqProperties
<1> HIDE DEF sub
<1>4. DOMAIN sub = 1 .. n - m + 1
  BY <1>3
<1>5. ASSUME NEW i \in m .. n PROVE \E k \in DOMAIN sub : sub[k] = s[i]
  <2>1. i - m + 1 \in 1 .. n - m + 1 /\ m + (i - m + 1) - 1 = i
    OBVIOUS
  <2> QED
    BY <1>3, <1>4, <2>1
<1>6. ASSUME NEW k \in DOMAIN sub PROVE \E i \in m .. n : sub[k] = s[i]
  <2>1. k \in 1 .. n - m + 1 /\ m + k - 1 \in m .. n
    BY <1>1, <1>4
  <2> QED
    BY <1>3, <2>1
<1>7. Elements(sub) = {s[i] : i \in m .. n}
  BY <1>5, <1>6 DEF Elements
<1> QED
  BY <1>3, <1>7 DEF sub

Mapped(elements, f) == FlattenSeq([i \in DOMAIN elements |-> f[elements[i]]])

\* A sequence of sequences, one for each element.
LEMMA EachIs ==
  ASSUME NEW S, NEW T, NEW elements \in Seq(S), NEW f \in [S -> Seq(T)]
  PROVE  /\ Mapped(elements, f) \in Seq(T)
         /\ \A l \in Elements(Mapped(elements, f)) : \E e \in Elements(elements) : l \in Elements(f[e])
         /\ \A e \in Elements(elements) : \A l \in Elements(f[e]) : l \in Elements(Mapped(elements, f))
<1> DEFINE m == [i \in DOMAIN elements |-> f[elements[i]]]
           flat == FlattenSeq(m)
<1>1. DOMAIN elements = 1 .. Len(elements) /\ Len(elements) \in Nat /\ \A i \in DOMAIN elements : elements[i] \in S
  OBVIOUS
<1>2. m \in [1 .. Len(elements) -> Seq(T)]
  BY <1>1
<1>3. \A i \in DOMAIN elements : m[i] = f[elements[i]]
  OBVIOUS
<1> HIDE DEF m
<1>4. m \in Seq(Seq(T)) /\ DOMAIN m = DOMAIN elements
  BY <1>1, <1>2, TableIsSeq
<1>5. flat \in Seq(T) /\ Elements(flat) = AllOf(m)
  BY <1>4, ElementsOfFlat
<1> HIDE DEF flat
<1>6. ASSUME NEW l \in Elements(flat) PROVE \E e \in Elements(elements) : l \in Elements(f[e])
  <2>1. PICK i \in DOMAIN m : l \in Elements(m[i])
    BY <1>5, Zenon DEF AllOf
  <2>2. elements[i] \in Elements(elements)
    BY <1>4, <2>1 DEF Elements
  <2> QED
    BY <1>3, <1>4, <2>1, <2>2
<1>7. ASSUME NEW e \in Elements(elements), NEW l \in Elements(f[e]) PROVE l \in Elements(flat)
  <2>1. PICK i \in DOMAIN elements : e = elements[i]
    BY DEF Elements
  <2>2. l \in Elements(m[i])
    BY <1>3, <2>1
  <2> QED
    BY <1>4, <1>5, <2>2 DEF AllOf
<1> QED
  BY <1>5, <1>6, <1>7 DEF flat, m, Mapped

\* What is at a place of one of the sequences is among all.
LEMMA OfAll ==
  ASSUME NEW seqs, NEW i \in DOMAIN seqs, NEW x \in DOMAIN seqs[i]
  PROVE  seqs[i][x] \in AllOf(seqs)
BY DEF AllOf, Elements

\* A text is a sequence over its own elements.
LEMMA OverOwn ==
  ASSUME NEW T, NEW s \in Seq(T)
  PROVE  s \in Seq(Elements(s))
<1>1. Len(s) \in Nat /\ DOMAIN s = 1 .. Len(s) /\ s = [i \in 1 .. Len(s) |-> s[i]]
  OBVIOUS
<1>2. s \in [1 .. Len(s) -> Elements(s)]
  BY <1>1 DEF Elements
<1> QED
  BY <1>1, <1>2, TableIsSeq

\* Sequences of one element each, one after another.
LEMMA FlatSingles ==
  ASSUME NEW T, NEW s \in Seq(Seq(T)), \A i \in DOMAIN s : Len(s[i]) = 1
  PROVE  LET flat == FlattenSeq(s)
         IN  flat \in Seq(T) /\ DOMAIN flat = DOMAIN s /\ \A i \in DOMAIN s : flat[i] = s[i][1]
<1> DEFINE N == Len(s)
           flat == FlattenSeq(s)
<1>1. N \in Nat /\ DOMAIN s = 1 .. N
  OBVIOUS
<1>2. flat \in Seq(T) /\ DOMAIN flat = 1 .. Len(flat) /\ \E off : Offsets(off, s)
  BY FlattenPlaces
<1>3. PICK off : Offsets(off, s)
  BY <1>2
<1>4. /\ off \in [1 .. N + 1 -> Nat] /\ off[1] = 0
      /\ \A i \in 1 .. N : off[i + 1] = off[i] + 1
      /\ \A i \in 1 .. N : flat[off[i] + 1] = s[i][1]
      /\ Len(flat) = off[N + 1]
  <2>1. /\ off \in [1 .. N + 1 -> Nat] /\ off[1] = 0 /\ off[N + 1] = Len(flat)
        /\ \A i \in 1 .. N :
             /\ off[i + 1] = off[i] + Len(s[i])
             /\ \A l \in 1 .. Len(s[i]) : flat[off[i] + l] = s[i][l]
    BY <1>3, Zenon DEF Offsets
  <2>2. \A i \in 1 .. N : Len(s[i]) = 1
    BY <1>1
  <2> HIDE DEF N, flat
  <2>3. \A i \in 1 .. N : 1 \in 1 .. Len(s[i])
    BY <2>2
  <2>4. \A i \in 1 .. N : off[i + 1] = off[i] + 1
    BY <2>1, <2>2
  <2>5. \A i \in 1 .. N : flat[off[i] + 1] = s[i][1]
    BY <2>1, <2>3
  <2> QED
    BY <2>1, <2>4, <2>5
<1> HIDE DEF N, flat
<1>5. \A i \in 1 .. N + 1 : off[i] = i - 1
  <2> DEFINE P == {m \in Nat : m <= N => off[m + 1] = m}
  <2>1. 0 \in P
    BY <1>1, <1>4
  <2>2. ASSUME NEW m \in Nat, m \in P PROVE m + 1 \in P
    <3>1. CASE m + 1 <= N
      <4>1. off[m + 1] = m /\ m + 1 \in 1 .. N
        BY <1>1, <2>2, <3>1
      <4>2. off[m + 1 + 1] = m + 1
        BY <1>4, <4>1
      <4> QED
        BY <4>2
    <3>2. CASE ~(m + 1 <= N)
      BY <3>2
    <3> QED
      BY <3>1, <3>2
  <2>3. ASSUME NEW i \in 1 .. N + 1 PROVE off[i] = i - 1
    <3>1. i - 1 \in Nat /\ i - 1 <= N /\ i - 1 + 1 = i
      BY <1>1
    <3>2. \A m \in Nat : m \in P => m + 1 \in P
      BY <2>2
    <3> HIDE DEF P
    <3>3. i - 1 \in P
      BY <2>1, <3>1, <3>2, SetInduction
    <3> QED
      BY <3>1, <3>3 DEF P
  <2> QED
    BY <2>3
<1>6. N + 1 \in 1 .. N + 1 /\ \A i \in 1 .. N : i \in 1 .. N + 1 /\ i - 1 + 1 = i
  BY <1>1
<1>7. Len(flat) = N
  BY <1>1, <1>4, <1>5, <1>6
<1>8. \A i \in 1 .. N : flat[i] = s[i][1]
  BY <1>4, <1>5, <1>6
<1> QED
  BY <1>1, <1>2, <1>7, <1>8 DEF flat

\* Two finite sets of numbers in step.
LEMMA RankKept ==
  ASSUME NEW A \in SUBSET Nat, NEW B \in SUBSET Nat, IsFiniteSet(A), NEW f \in [A -> B],
         \A a, b \in A : a < b => f[a] < f[b],
         \A b \in B : \E a \in A : f[a] = b
  PROVE  /\ IsFiniteSet(B) /\ Cardinality(B) = Cardinality(A)
         /\ \A a \in A : Rank(B, f[a]) = Rank(A, a)
<1>1. \A a, b \in A : f[a] <= f[b] <=> a <= b
  <2> SUFFICES ASSUME NEW a \in A, NEW b \in A PROVE f[a] <= f[b] <=> a <= b
    OBVIOUS
  <2>1. f[a] \in Nat /\ f[b] \in Nat /\ a \in Nat /\ b \in Nat
    OBVIOUS
  <2>2. (a < b => f[a] < f[b]) /\ (b < a => f[b] < f[a])
    OBVIOUS
  <2> QED
    BY <2>1, <2>2
<1>2. \A a, b \in A : f[a] = f[b] => a = b
  <2> SUFFICES ASSUME NEW a \in A, NEW b \in A, f[a] = f[b] PROVE a = b
    OBVIOUS
  <2>1. f[a] \in Nat /\ f[b] \in Nat /\ a \in Nat /\ b \in Nat
    OBVIOUS
  <2>2. (a < b => f[a] < f[b]) /\ (b < a => f[b] < f[a])
    OBVIOUS
  <2> DEFINE u == f[a]
             v == f[b]
  <2>3. u \in Nat /\ v \in Nat /\ u = v /\ (a < b => u < v) /\ (b < a => v < u)
    BY <2>1, <2>2
  <2> HIDE DEF u, v
  <2> QED
    BY <2>1, <2>3
<1>3. ASSUME NEW S \in SUBSET A, NEW V \in SUBSET B,
             \A a \in S : f[a] \in V, \A b \in V : \E a \in S : f[a] = b
      PROVE  IsFiniteSet(V) /\ Cardinality(V) = Cardinality(S)
  <2> DEFINE g == [a \in S |-> f[a]]
  <2>1. g \in Bijection(S, V)
    <3>1. g \in [S -> V] /\ \A a \in S : g[a] = f[a]
      BY <1>3
    <3> HIDE DEF g
    <3>2. \A a, b \in S : g[a] = g[b] => a = b
      BY <1>2, <3>1
    <3>3. \A b \in V : \E a \in S : g[a] = b
      BY <1>3, <3>1
    <3> QED
      BY <3>1, <3>2, <3>3 DEF Bijection, Injection, Surjection, IsInjective
  <2>2. IsFiniteSet(S)
    BY FS_Subset
  <2>3. ExistsBijection(S, V)
    BY <2>1 DEF ExistsBijection
  <2> QED
    BY <2>2, <2>3, FS_Bijection
<1>4. IsFiniteSet(B) /\ Cardinality(B) = Cardinality(A)
  BY <1>3
<1>5. ASSUME NEW a \in A PROVE Rank(B, f[a]) = Rank(A, a)
  <2> DEFINE S == {b \in A : b <= a}
             V == {b \in B : b <= f[a]}
  <2>1. S \in SUBSET A /\ V \in SUBSET B
    OBVIOUS
  <2>2. \A b \in S : f[b] \in V
    BY <1>1
  <2>3. \A b \in V : \E c \in S : f[c] = b
    BY <1>1
  <2> HIDE DEF S, V
  <2>4. Cardinality(V) = Cardinality(S)
    BY <1>3, <2>1, <2>2, <2>3
  <2> QED
    BY <2>4 DEF Rank, S, V
<1> QED
  BY <1>4, <1>5

=============================================================================
