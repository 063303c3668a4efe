------------------------ MODULE ArtifactDownload_proofs ------------------------
(***************************************************************************)
(* The safety of artifact downloads for any peers, artifacts and blocks.   *)
(* The helpers of the event loop call one another and loop over requests,  *)
(* blocks and downloads; the loops are folds. So the invariant is a set of *)
(* tables, Good, each helper is shown to lead from it back into it, and a  *)
(* fold of steps that stay in a set stays in it.                           *)
(***************************************************************************)
EXTENDS ArtifactDownload, FiniteSetTheorems, SequenceTheorems, WellFoundedInduction, TLAPS

---------------------------------------------------------------------------
\* Sets as sequences.

\* SetToSeq lists a finite set.
LEMMA SequenceOfSet ==
  ASSUME NEW S, IsFiniteSet(S)
  PROVE  SetToSeq(S) \in Seq(S) /\ Range(SetToSeq(S)) = S
<1> DEFINE n == Cardinality(S)
<1>1. n \in Nat /\ IsFiniteSet(1..n) /\ Cardinality(1..n) = n
  BY FS_CardinalityType, FS_Interval
<1>2. PICK f \in [1..n -> S] : IsInjective(f)
  <2>1. ExistsBijection(1..n, S)
    BY FS_CardinalityType
  <2>2. QED
    BY <2>1 DEF ExistsBijection, Bijection, Injection, IsInjective
<1>3. SetToSeq(S) \in [1..n -> S] /\ IsInjective(SetToSeq(S))
  BY <1>2 DEF SetToSeq
<1>4. SetToSeq(S) \in Injection(1..n, S)
  BY <1>3 DEF Injection
<1>5. SetToSeq(S) \in Surjection(1..n, S)
  BY <1>1, <1>4, FS_Injection
<1> DEFINE q == SetToSeq(S)
<1> HIDE DEF q
<1>6. q \in [1..n -> S] /\ \A x \in S : \E i \in 1..n : q[i] = x
  BY <1>3, <1>5 DEF Surjection, q
<1>7. q \in Seq(S)
  BY <1>1, <1>6
<1>8. Range(q) = S
  BY <1>6 DEF Range
<1>9. QED
  BY <1>7, <1>8 DEF q

---------------------------------------------------------------------------
\* Folds.

\* A set of numbers that is not empty has a least one.
LEMMA LeastNumber ==
  ASSUME NEW S, S \subseteq Nat, S # {}
  PROVE  \E m \in S : \A n \in S : m <= n
<1>1. PICK m \in S : \A n \in S : ~ (<<n, m>> \in OpToRel(<, Nat))
  BY NatLessThanWellFounded, WFMin
<1>2. \A n \in S : ~ (n < m)
  BY <1>1 DEF OpToRel
<1>3. QED
  BY <1>2

\* Induction, stated for a set of numbers.
LEMMA Induction ==
  ASSUME NEW S, 0 \in S, \A n \in Nat : n \in S => n + 1 \in S
  PROVE  Nat \subseteq S
<1> DEFINE T == Nat \ S
<1>1. SUFFICES ASSUME T # {} PROVE FALSE
  OBVIOUS
<1>2. PICK m \in T : \A n \in T : m <= n
  BY <1>1, LeastNumber
<1>3. m \in Nat /\ m \notin S /\ m # 0
  BY <1>2
<1>4. m - 1 \in Nat /\ m - 1 \notin T
  BY <1>2, <1>3
<1>5. QED
  BY <1>3, <1>4

\* Max of some of the first n numbers is one of them.
LEMMA MaxOfSet ==
  ASSUME NEW n \in Nat, NEW x \in SUBSET (1..n), x # {}
  PROVE  Max(x) \in x
<1>1. \E m \in x : \A y \in x : m >= y
  <2> DEFINE Rest == {n - y : y \in x}
  <2> DEFINE k == CHOOSE y \in x : TRUE
  <2>1. x \subseteq 1..n /\ k \in x
    OBVIOUS
  <2>2. \A y \in x : n - y \in Nat
    BY <2>1
  <2>3. n - k \in Rest
    BY <2>1
  <2>4. Rest \subseteq Nat /\ Rest # {}
    BY <2>2, <2>3
  <2>5. PICK r \in Rest : \A q \in Rest : r <= q
    BY <2>4, LeastNumber
  <2>6. PICK m \in x : r = n - m
    BY <2>5
  <2>7. ASSUME NEW y \in x PROVE m >= y
    <3>1. m \in Nat /\ y \in Nat
      BY <2>1
    <3>2. n - y \in Rest
      OBVIOUS
    <3>3. n - m <= n - y
      BY <2>5, <2>6, <3>2
    <3>4. QED
      BY <3>1, <3>3
  <2>8. QED
    BY <2>7
<1>2. QED
  BY <1>1 DEF Max

\* The first n numbers end in n.
LEMMA MaxOfInterval == ASSUME NEW n \in Nat \ {0} PROVE Max(1..n) = n /\ (1..n) \ {n} = 1..(n - 1)
BY DEF Max

\* The value that each set of the first n numbers has in a fold of step from base.
FoldValues(g, n, base, step) ==
  \A x \in SUBSET (1..n) :
    g[x] = IF x = {} THEN base ELSE step[<<g[x \ {Max(x)}], Max(x)>>]

\* A step function on U gives each set such a value.
LEMMA FoldExists ==
  ASSUME NEW n \in Nat, NEW U, NEW base \in U, NEW step \in [U \X (1..n) -> U]
  PROVE  \E g \in [SUBSET (1..n) -> U] : FoldValues(g, n, base, step)
<1> DEFINE D == SUBSET (1..n)
           Upto(k) == {x \in D : Cardinality(x) <= k}
           Value(g, x) == IF x = {} THEN base ELSE step[<<g[x \ {Max(x)}], Max(x)>>]
           Found(k) == \E g \in [Upto(k) -> U] : \A x \in Upto(k) : g[x] = Value(g, x)
           K == {k \in Nat : Found(k)}
<1>1. \A x \in D : IsFiniteSet(x) /\ Cardinality(x) \in Nat /\ Cardinality(x) <= n
  <2>1. IsFiniteSet(1..n) /\ Cardinality(1..n) = n
    BY FS_Interval
  <2>2. TAKE x \in D
  <2>3. IsFiniteSet(x) /\ Cardinality(x) <= Cardinality(1..n)
    BY <2>1, FS_Subset
  <2>4. QED
    BY <2>1, <2>3, FS_CardinalityType
<1>2. ASSUME NEW x \in D, x # {}
      PROVE  /\ Max(x) \in x
             /\ x \ {Max(x)} \in D /\ Cardinality(x \ {Max(x)}) = Cardinality(x) - 1
  <2>1. Max(x) \in x
    BY <1>2, MaxOfSet
  <2>2. QED
    BY <1>1, <2>1, FS_RemoveElement
<1> HIDE DEF D
<1>3. 0 \in K
  <2> DEFINE g == [x \in Upto(0) |-> base]
  <2>1. \A x \in Upto(0) : x = {}
    BY <1>1, FS_EmptySet
  <2>2. g \in [Upto(0) -> U] /\ \A x \in Upto(0) : g[x] = Value(g, x)
    BY <2>1
  <2>3. QED
    BY <2>2
<1>4. ASSUME NEW k \in Nat, k \in K PROVE k + 1 \in K
  <2>1. PICK g \in [Upto(k) -> U] : \A x \in Upto(k) : g[x] = Value(g, x)
    BY <1>4
  <2> DEFINE h == [x \in Upto(k + 1) |-> Value(g, x)]
  <2>2. ASSUME NEW x \in Upto(k + 1), x # {}
        PROVE  x \ {Max(x)} \in Upto(k) /\ Max(x) \in 1..n
    <3>1. x \in D /\ Cardinality(x) <= k + 1 /\ Cardinality(x) \in Nat
      BY <1>1
    <3>2. /\ Max(x) \in x /\ x \ {Max(x)} \in D
          /\ Cardinality(x \ {Max(x)}) = Cardinality(x) - 1
      BY <1>2, <2>2, <3>1
    <3>3. Max(x) \in 1..n
      BY <3>1, <3>2 DEF D
    <3>4. Cardinality(x \ {Max(x)}) <= k
      BY <3>1, <3>2
    <3>5. QED
      BY <3>2, <3>3, <3>4
  <2>3. ASSUME NEW x \in Upto(k + 1) PROVE Value(g, x) \in U
    <3>1. CASE x = {}
      BY <3>1
    <3>2. CASE x # {}
      <4>1. g[x \ {Max(x)}] \in U /\ Max(x) \in 1..n
        BY <2>1, <2>2, <3>2
      <4>2. step[<<g[x \ {Max(x)}], Max(x)>>] \in U
        BY <4>1
      <4>3. QED
        BY <3>2, <4>2
    <3>3. QED
      BY <3>1, <3>2
  <2>4. \A x \in Upto(k) : x \in Upto(k + 1) /\ h[x] = g[x]
    <3>1. TAKE x \in Upto(k)
    <3>2. x \in D /\ Cardinality(x) \in Nat /\ Cardinality(x) <= k
      BY <1>1
    <3>3. x \in Upto(k + 1)
      BY <3>2
    <3>4. g[x] = Value(g, x)
      BY <2>1
    <3> HIDE DEF Upto, Value
    <3>5. QED
      BY <3>3, <3>4
  <2>5. h \in [Upto(k + 1) -> U]
    BY <2>3
  <2>6. ASSUME NEW x \in Upto(k + 1) PROVE h[x] = Value(h, x)
    <3>1. h[x] = Value(g, x)
      OBVIOUS
    <3>2. x # {} => h[x \ {Max(x)}] = g[x \ {Max(x)}]
      BY <2>2, <2>4
    <3>3. QED
      BY <3>1, <3>2
  <2>7. Found(k + 1)
    BY <2>5, <2>6
  <2> HIDE DEF Found
  <2>8. QED
    BY <2>7
<1>5. n \in K
  <2> HIDE DEF K
  <2>1. Nat \subseteq K
    BY <1>3, <1>4, Induction
  <2>2. QED
    BY <2>1
<1>6. Upto(n) = D
  BY <1>1
<1>7. QED
  BY <1>5, <1>6 DEF D, FoldValues

\* What a fold whose steps stay in U goes through stays in U.
LEMMA FoldStays ==
  ASSUME NEW n \in Nat, NEW U, NEW it, it[{}] \in U,
         \A x \in SUBSET (1..n) : x # {} /\ it[x \ {Max(x)}] \in U => it[x] \in U
  PROVE  \A i \in 0..n : it[1..i] \in U
<1> DEFINE K == {i \in Nat : i <= n => it[1..i] \in U}
<1>1. 0 \in K
  <2>1. 1..0 = {}
    OBVIOUS
  <2>2. QED
    BY <2>1
<1>2. ASSUME NEW i \in Nat, i \in K PROVE i + 1 \in K
  <2>1. CASE i + 1 <= n
    <3>1. it[1..i] \in U
      BY <1>2, <2>1
    <3>2. 1..(i + 1) \in SUBSET (1..n) /\ 1..(i + 1) # {} /\ i + 1 \in Nat \ {0}
      BY <2>1
    <3>3. (1..(i + 1)) \ {Max(1..(i + 1))} = 1..i
      BY <3>2, MaxOfInterval
    <3>4. QED
      BY <3>1, <3>2, <3>3
  <2>2. CASE ~ (i + 1 <= n)
    BY <2>2
  <2>3. QED
    BY <2>1, <2>2
<1> HIDE DEF K
<1>3. Nat \subseteq K
  BY <1>1, <1>2, Induction
<1>4. QED
  BY <1>3 DEF K

\* The three loops. Each gives the step function to FoldExists and unfolds the fold.
LEMMA RequestBlocksLoop ==
  ASSUME NEW U, NEW a, NEW T \in U, \A t \in U : RequestBlock(t, a) \in U
  PROVE  \E t \in U : RequestBlocks(T, a) = RequestBlock(t, a)
<1> DEFINE n  == MaxParallel
           s  == [i \in 1..n |-> i]
           it == CHOOSE g : g = [x \in SUBSET (1..n) |->
                                   IF x = {} THEN T ELSE RequestBlock(g[x \ {Max(x)}], a)]
           step == [y \in U \X (1..n) |-> RequestBlock(y[1], a)]
<1>1. n \in Nat \ {0} /\ DOMAIN s = 1..n
  BY DownloadAssumptions
<1>2. RequestBlocks(T, a) = it[1..n]
  BY <1>1 DEF RequestBlocks, FoldLeft, MapThenFoldSet
<1>3. step \in [U \X (1..n) -> U]
  OBVIOUS
<1>4. PICK g \in [SUBSET (1..n) -> U] : FoldValues(g, n, T, step)
  <2> HIDE DEF step, n, s, it
  <2>1. n \in Nat /\ T \in U
    BY <1>1
  <2>2. QED
    BY <1>3, <2>1, FoldExists
<1>5. ASSUME NEW x \in SUBSET (1..n), x # {}
      PROVE  Max(x) \in 1..n
  BY <1>1, <1>5, MaxOfSet
<1>6. g = [x \in SUBSET (1..n) |-> IF x = {} THEN T ELSE RequestBlock(g[x \ {Max(x)}], a)]
  <2>1. ASSUME NEW x \in SUBSET (1..n), x # {}
        PROVE  g[x] = RequestBlock(g[x \ {Max(x)}], a)
    <3>1. g[x \ {Max(x)}] \in U /\ Max(x) \in 1..n
      BY <1>4, <1>5, <2>1
    <3>2. step[<<g[x \ {Max(x)}], Max(x)>>] = RequestBlock(g[x \ {Max(x)}], a)
      BY <3>1
    <3>3. QED
      BY <1>4, <2>1, <3>2 DEF FoldValues
  <2>2. g[{}] = T
    BY <1>4 DEF FoldValues
  <2>3. QED
    BY <1>4, <2>1, <2>2
<1>7. it = [x \in SUBSET (1..n) |-> IF x = {} THEN T ELSE RequestBlock(it[x \ {Max(x)}], a)]
  BY <1>6
<1>8. it[{}] = T /\ \A i \in 1..n : it[1..i] = RequestBlock(it[1..(i - 1)], a)
  <2> HIDE DEF it, n
  <2>1. ASSUME NEW i \in 1..n PROVE it[1..i] = RequestBlock(it[1..(i - 1)], a)
    <3>1. 1..i \in SUBSET (1..n) /\ 1..i # {} /\ i \in Nat \ {0}
      BY <1>1
    <3>2. Max(1..i) = i /\ (1..i) \ {i} = 1..(i - 1)
      BY <3>1, MaxOfInterval
    <3>3. QED
      BY <1>7, <3>1, <3>2
  <2>2. QED
    BY <1>7, <2>1
<1>9. \A i \in 0..n : it[1..i] \in U
  <2> HIDE DEF it, n
  <2>1. \A x \in SUBSET (1..n) : x # {} /\ it[x \ {Max(x)}] \in U => it[x] \in U
    BY <1>5, <1>7
  <2>2. QED
    BY <1>1, <1>8, <2>1, FoldStays
<1>10. QED
  <2> HIDE DEF it, n
  <2>1. n - 1 \in 0..n /\ n \in 1..n
    BY <1>1
  <2>2. QED
    BY <1>2, <1>8, <1>9, <2>1

\* The tables after each of the requests in order has failed.
OneByOne(U, T, order) ==
  {f \in [0..Len(order) -> U] :
     /\ f[0] = T /\ f[Len(order)] = RequestsFailed(T, order)
     /\ \A i \in 1..Len(order) :
          f[i] = RequestFailed(Answered(f[i - 1], order[i]), order[i])}

\* The requests of a provider that fail one after another: the tables in between.
LEMMA RequestsFailedSteps ==
  ASSUME NEW U, NEW T \in U, NEW R, NEW order \in Seq(R),
         \A t \in U, r \in R : RequestFailed(Answered(t, r), r) \in U
  PROVE  OneByOne(U, T, order) # {}
<1> DEFINE n  == Len(order)
           G(t, i) == RequestFailed(Answered(t, order[i]), order[i])
           it == CHOOSE g : g = [x \in SUBSET (1..n) |->
                                   IF x = {} THEN T ELSE G(g[x \ {Max(x)}], Max(x))]
           step == [y \in U \X (1..n) |-> G(y[1], y[2])]
<1>1. n \in Nat /\ DOMAIN order = 1..n /\ \A i \in 1..n : order[i] \in R
  OBVIOUS
<1>2. RequestsFailed(T, order) = it[1..n]
  BY <1>1 DEF RequestsFailed, FoldLeft, MapThenFoldSet
<1>3. \A t \in U, i \in 1..n : G(t, i) \in U
  BY <1>1
<1> HIDE DEF G
<1>4. step \in [U \X (1..n) -> U]
  BY <1>3
<1>5. PICK g \in [SUBSET (1..n) -> U] : FoldValues(g, n, T, step)
  <2> HIDE DEF step, n, it
  <2>1. n \in Nat /\ T \in U
    BY <1>1
  <2>2. QED
    BY <1>4, <2>1, FoldExists
<1>6. ASSUME NEW x \in SUBSET (1..n), x # {}
      PROVE  Max(x) \in 1..n
  BY <1>1, <1>6, MaxOfSet
<1>7. g = [x \in SUBSET (1..n) |-> IF x = {} THEN T ELSE G(g[x \ {Max(x)}], Max(x))]
  <2>1. ASSUME NEW x \in SUBSET (1..n), x # {}
        PROVE  g[x] = G(g[x \ {Max(x)}], Max(x))
    <3>1. g[x \ {Max(x)}] \in U /\ Max(x) \in 1..n
      BY <1>5, <1>6, <2>1
    <3>2. step[<<g[x \ {Max(x)}], Max(x)>>] = G(g[x \ {Max(x)}], Max(x))
      BY <3>1
    <3>3. QED
      BY <1>5, <2>1, <3>2 DEF FoldValues
  <2>2. g[{}] = T
    BY <1>5 DEF FoldValues
  <2>3. QED
    BY <1>5, <2>1, <2>2
<1>8. it = [x \in SUBSET (1..n) |-> IF x = {} THEN T ELSE G(it[x \ {Max(x)}], Max(x))]
  BY <1>7
<1> HIDE DEF it, n
<1>9. it[{}] = T
  BY <1>8
<1>10. \A x \in SUBSET (1..n) : x # {} /\ it[x \ {Max(x)}] \in U => it[x] \in U
  BY <1>3, <1>6, <1>8
<1>11. n \in 0..n /\ it[{}] \in U
  BY <1>1, <1>9
<1>12. \A i \in 0..n : it[1..i] \in U
  BY <1>1, <1>10, <1>11, FoldStays
<1>13. \A i \in 1..n : it[1..i] = G(it[1..(i - 1)], i)
  <2>1. ASSUME NEW i \in 1..n PROVE it[1..i] = G(it[1..(i - 1)], i)
    <3>1. 1..i \in SUBSET (1..n) /\ 1..i # {} /\ i \in Nat \ {0}
      <4>1. n \in Nat
        BY <1>1
      <4>2. i \in Nat \ {0} /\ i <= n
        BY <4>1
      <4>3. 1..i \subseteq 1..n /\ 1 \in 1..i
        BY <4>1, <4>2
      <4>4. QED
        BY <4>2, <4>3
    <3>2. Max(1..i) = i /\ (1..i) \ {i} = 1..(i - 1)
      BY <3>1, MaxOfInterval
    <3>3. QED
      BY <1>8, <3>1, <3>2
  <2>2. QED
    BY <2>1
<1>14. \E f \in [0..n -> U] :
         f[0] = T /\ f[n] = it[1..n] /\ \A i \in 1..n : f[i] = G(f[i - 1], i)
  <2> DEFINE f == [i \in 0..n |-> it[1..i]]
  <2>1. f \in [0..n -> U] /\ 1..0 = {}
    BY <1>12
  <2>2. f[0] = T /\ f[n] = it[1..n]
    BY <1>1, <1>9, <2>1
  <2>3. \A i \in 1..n : i - 1 \in 0..n /\ i \in 0..n
    BY <1>1
  <2>4. \A i \in 1..n : f[i] = G(f[i - 1], i)
    BY <1>13, <2>3
  <2>5. QED
    BY <2>1, <2>2, <2>4
<1>15. QED
  BY <1>2, <1>14 DEF G, n, OneByOne

\* What they go through they end in.
LEMMA RequestsFailedLoop ==
  ASSUME NEW U, NEW T \in U, NEW R, NEW order \in Seq(R),
         \A t \in U, r \in R : RequestFailed(Answered(t, r), r) \in U
  PROVE  RequestsFailed(T, order) \in U
<1>1. PICK f \in OneByOne(U, T, order) : TRUE
  BY RequestsFailedSteps
<1>2. Len(order) \in 0..Len(order)
  OBVIOUS
<1>3. QED
  BY <1>1, <1>2 DEF OneByOne

\* The downloads that give a provider up one after another.
LEMMA DroppedEverywhereLoop ==
  ASSUME NEW U, NEW T \in U, NEW p, \A t \in U, a \in Artifacts : DroppedFrom(t, a, p) \in U
  PROVE  DroppedEverywhere(T, p) \in U
<1> DEFINE s  == SetToSeq(Artifacts)
           n  == Len(s)
           G(t, i) == DroppedFrom(t, s[i], p)
           it == CHOOSE g : g = [x \in SUBSET (1..n) |->
                                   IF x = {} THEN T ELSE G(g[x \ {Max(x)}], Max(x))]
           step == [y \in U \X (1..n) |-> G(y[1], y[2])]
<1>1. s \in Seq(Artifacts)
  BY DownloadAssumptions, SequenceOfSet
<1> HIDE DEF s
<1>2. n \in Nat /\ DOMAIN s = 1..n /\ \A i \in 1..n : s[i] \in Artifacts
  BY <1>1
<1>3. DroppedEverywhere(T, p) = it[1..n]
  BY <1>2 DEF DroppedEverywhere, FoldLeft, MapThenFoldSet, s
<1>4. \A t \in U, i \in 1..n : G(t, i) \in U
  BY <1>2
<1> HIDE DEF G
<1>5. step \in [U \X (1..n) -> U]
  BY <1>4
<1>6. PICK g \in [SUBSET (1..n) -> U] : FoldValues(g, n, T, step)
  <2> HIDE DEF step, n, it
  <2>1. n \in Nat /\ T \in U
    BY <1>2
  <2>2. QED
    BY <1>5, <2>1, FoldExists
<1>7. ASSUME NEW x \in SUBSET (1..n), x # {}
      PROVE  Max(x) \in 1..n
  BY <1>2, <1>7, MaxOfSet
<1>8. g = [x \in SUBSET (1..n) |-> IF x = {} THEN T ELSE G(g[x \ {Max(x)}], Max(x))]
  <2>1. ASSUME NEW x \in SUBSET (1..n), x # {}
        PROVE  g[x] = G(g[x \ {Max(x)}], Max(x))
    <3>1. g[x \ {Max(x)}] \in U /\ Max(x) \in 1..n
      BY <1>6, <1>7, <2>1
    <3>2. step[<<g[x \ {Max(x)}], Max(x)>>] = G(g[x \ {Max(x)}], Max(x))
      BY <3>1
    <3>3. QED
      BY <1>6, <2>1, <3>2 DEF FoldValues
  <2>2. g[{}] = T
    BY <1>6 DEF FoldValues
  <2>3. QED
    BY <1>6, <2>1, <2>2
<1>9. it = [x \in SUBSET (1..n) |-> IF x = {} THEN T ELSE G(it[x \ {Max(x)}], Max(x))]
  BY <1>8
<1> HIDE DEF it, n
<1>10. it[{}] = T
  BY <1>9
<1>11. \A x \in SUBSET (1..n) : x # {} /\ it[x \ {Max(x)}] \in U => it[x] \in U
  BY <1>4, <1>7, <1>9
<1>12. n \in 0..n /\ it[{}] \in U
  BY <1>2, <1>10
<1>13. \A i \in 0..n : it[1..i] \in U
  BY <1>2, <1>11, <1>12, FoldStays
<1>14. QED
  BY <1>3, <1>12, <1>13

---------------------------------------------------------------------------
\* Providers in turn, and the request table.

\* Turning once round a list, by arithmetic.
LEMMA SmallRemainder ==
  ASSUME NEW n \in Nat \ {0}, NEW i \in 0..(n - 1)
  PROVE  i % n = i /\ (i + n) % n = i
OBVIOUS

\* A place in the list is always one of its places.
LEMMA RemainderRange ==
  ASSUME NEW n \in Nat \ {0}, NEW i \in Nat
  PROVE  i % n \in 0..(n - 1)
OBVIOUS

\* What is known of the providers of a download.
LEMMA ProvidersOf ==
  ASSUME NEW d \in Download
  PROVE  /\ Len(d.providers) \in Nat \ {0}
         /\ DOMAIN d.providers = 1..Len(d.providers)
         /\ \A i \in 1..Len(d.providers) : d.providers[i] \in Peers
<1>1. d.providers \in ProviderLists
  BY DEF Download
<1>2. PICK n \in 1..MaxProviders : d.providers \in [1..n -> Peers]
  BY <1>1 DEF ProviderLists
<1>3. n \in Nat \ {0}
  BY DownloadAssumptions
<1>4. QED
  BY <1>2, <1>3

\* The search for the next provider finds one that has not failed, if there is one.
LEMMA TurnFound ==
  ASSUME NEW d \in Download, d.next < Len(d.providers), Active(d) # {}
  PROVE  /\ Chosen(d) \in Peers
         /\ Chosen(d) \notin d.failed
         /\ Chosen(d) \in Active(d)
         /\ (d.next + Looks(d)) % Len(d.providers) \in 0..(Len(d.providers) - 1)
<1> DEFINE n == Len(d.providers)
           Good == {k \in 1..n : Looked(d, k) \notin d.failed}
<1>1. /\ n \in Nat \ {0} /\ d.next \in 0..(n - 1)
      /\ DOMAIN d.providers = 1..n /\ \A i \in 1..n : d.providers[i] \in Peers
  BY ProvidersOf DEF Download
<1>2. PICK i \in 1..n : d.providers[i] \notin d.failed
  BY <1>1 DEF Active, Range
<1>3. \A k : Looked(d, k) = d.providers[((d.next + k - 1) % n) + 1]
  BY DEF Looked
<1> HIDE DEF n, Good
<1>4. Good # {}
  <2> DEFINE k == IF i - 1 >= d.next THEN i - d.next ELSE i - d.next + n
  <2>1. k \in 1..n /\ (d.next + k - 1 = i - 1 \/ d.next + k - 1 = (i - 1) + n)
    BY <1>1
  <2>2. i - 1 \in 0..(n - 1)
    BY <1>1
  <2> HIDE DEF k
  <2>3. (d.next + k - 1) % n = i - 1
    BY <1>1, <2>1, <2>2, SmallRemainder
  <2>4. Looked(d, k) = d.providers[(i - 1) + 1]
    BY <1>3, <2>3
  <2>5. (i - 1) + 1 = i
    BY <1>1
  <2>6. QED
    BY <1>2, <2>1, <2>4, <2>5 DEF Good
<1>5. PICK k \in Good : \A m \in Good : k <= m
  <2>1. Good \subseteq Nat
    BY <1>1 DEF Good
  <2>2. QED
    BY <1>4, <2>1, LeastNumber
<1>6. k \in 1..n /\ Looked(d, k) \notin d.failed /\ \A m \in 1..(k - 1) : Looked(d, m) \in d.failed
  <2>1. k \in 1..n /\ Looked(d, k) \notin d.failed
    BY <1>5 DEF Good
  <2>2. ASSUME NEW m \in 1..(k - 1) PROVE Looked(d, m) \in d.failed
    <3>1. m \in 1..n /\ ~ (k <= m)
      BY <1>1, <2>1
    <3>2. m \notin Good
      BY <1>5, <3>1
    <3>3. QED
      BY <3>1, <3>2 DEF Good
  <2>3. QED
    BY <2>1, <2>2
<1>7. Looks(d) \in 1..n /\ Looked(d, Looks(d)) \notin d.failed
  BY <1>6 DEF Looks, n
<1>8. d.next + Looks(d) \in Nat /\ d.next + Looks(d) - 1 \in Nat
  BY <1>1, <1>7
<1>9. (d.next + Looks(d)) % n \in 0..(n - 1) /\ (d.next + Looks(d) - 1) % n \in 0..(n - 1)
  BY <1>1, <1>8, RemainderRange
<1>10. ((d.next + Looks(d) - 1) % n) + 1 \in 1..n
  BY <1>1, <1>9
<1>11. Looked(d, Looks(d)) \in Peers /\ Looked(d, Looks(d)) \in Range(d.providers)
  BY <1>1, <1>10 DEF Looked, n, Range
<1>12. QED
  BY <1>7, <1>9, <1>11 DEF Chosen, Active, n

\* send_request adds one request that was not out, asking what it was told to ask.
LEMMA SendAdds ==
  ASSUME NEW o \in SUBSET Requests, IsFiniteSet(o), NEW request \in Requests
  PROVE  \E s \in Requests :
           /\ s \notin o /\ Send(o, request) = o \cup {s}
           /\ s.kind = request.kind /\ s.peer = request.peer
           /\ s.artifact = request.artifact /\ s.block = request.block
<1> DEFINE N == 1..(Cardinality(o) + 1)
           Copy(k) == [request EXCEPT !.copy = k]
           f == [k \in N |-> Copy(k)]
<1>1. Cardinality(o) \in Nat
  BY FS_CardinalityType
<1>2. request = [kind |-> request.kind, peer |-> request.peer, artifact |-> request.artifact,
                 block |-> request.block, copy |-> request.copy]
  BY DEF Requests
<1>3. \A k \in Nat : /\ Copy(k).kind = request.kind /\ Copy(k).peer = request.peer
                     /\ Copy(k).artifact = request.artifact /\ Copy(k).block = request.block
                     /\ Copy(k).copy = k
  BY <1>2
<1>4. \A k \in Nat : Copy(k) \in Requests
  BY DEF Requests
<1>5. \E k \in N : Copy(k) \notin o
  <2>1. SUFFICES ASSUME \A k \in N : Copy(k) \in o PROVE FALSE
    OBVIOUS
  <2>2. f \in [N -> o]
    BY <2>1
  <2>3. IsFiniteSet(N) /\ Cardinality(N) = Cardinality(o) + 1
    BY <1>1, FS_Interval
  <2>4. PICK x, y \in N : x # y /\ f[x] = f[y]
    <3> HIDE DEF f, N
    <3>1. Cardinality(o) < Cardinality(N)
      BY <1>1, <2>3
    <3>2. QED
      BY <2>2, <2>3, <3>1, FS_PigeonHole
  <2>5. Copy(x) = Copy(y) /\ x \in Nat /\ y \in Nat
    BY <1>1, <2>4
  <2>6. QED
    <3> HIDE DEF Copy
    <3>1. QED
      BY <1>3, <2>4, <2>5
<1> DEFINE k == CHOOSE k \in N : Copy(k) \notin o
<1>6. k \in N /\ Copy(k) \notin o
  BY <1>5
<1>7. Send(o, request) = o \cup {Copy(k)}
  BY DEF Send
<1> HIDE DEF k, Copy
<1>8. k \in Nat
  BY <1>1, <1>6
<1>9. QED
  BY <1>3, <1>4, <1>6, <1>7, <1>8

---------------------------------------------------------------------------
(***************************************************************************)
(* The invariant, as sets of tables. st is the stored blocks, o the        *)
(* requests out before the handler, Q the peers it gives up. Good is what  *)
(* a handler starts from and leaves. In between, Loose excuses the         *)
(* artifact a at work from having a request out, and Owing does so only    *)
(* while it has a block to ask for.                                        *)
(***************************************************************************)
TableSet ==
  {T \in [out : SUBSET Requests, dl : [Artifacts -> Download \cup {NoDownload}]] :
     /\ IsFiniteSet(T.out)
     /\ \A a \in Artifacts : T.dl[a] # NoDownload => T.dl[a].next < Len(T.dl[a].providers)}

AskedFor(T, a, kind) == {r \in T.out : r.artifact = a /\ r.kind = kind}

SoundAt(T, st, a) ==
  LET d == T.dl[a]
  IN  d # NoDownload =>
        /\ d.known =>
             d.manifest \subseteq
               st \cup Range(d.pending) \cup {r.block : r \in AskedFor(T, a, "block")}
        /\ d.inFlight <= Cardinality(AskedFor(T, a, "block"))

BusyAt(T, a) ==
  T.dl[a] # NoDownload => AskedFor(T, a, "manifest") \cup AskedFor(T, a, "block") # {}

Avoids(T, o, Q) ==
  \A r \in T.out \ o :
    r.kind # "inventory" =>
      /\ r.peer \notin Q
      /\ T.dl[r.artifact] # NoDownload => r.peer \notin T.dl[r.artifact].failed

Good(st, o, Q) ==
  {T \in TableSet : /\ \A a \in Artifacts : SoundAt(T, st, a) /\ BusyAt(T, a)
                    /\ Avoids(T, o, Q)}

Loose(st, o, Q, a) ==
  {T \in TableSet : /\ \A b \in Artifacts : SoundAt(T, st, b)
                    /\ \A b \in Artifacts \ {a} : BusyAt(T, b)
                    /\ Avoids(T, o, Q)
                    /\ T.dl[a] # NoDownload => Q \subseteq T.dl[a].failed}

Owing(st, o, Q, a) ==
  {T \in Loose(st, o, Q, a) : T.dl[a] # NoDownload => BusyAt(T, a) \/ T.dl[a].pending # <<>>}

\* What an artifact has depends only on its own download and requests.
LEMMA Elsewhere ==
  ASSUME NEW T, NEW V, NEW b, NEW st, V.dl[b] = T.dl[b],
         \A kind : AskedFor(V, b, kind) = AskedFor(T, b, kind)
  PROVE  /\ SoundAt(V, st, b) <=> SoundAt(T, st, b)
         /\ BusyAt(V, b) <=> BusyAt(T, b)
BY DEF SoundAt, BusyAt

\* A download of the tables.
LEMMA DownloadOf ==
  ASSUME NEW T \in TableSet, NEW a \in Artifacts, T.dl[a] # NoDownload
  PROVE  T.dl[a] \in Download /\ T.dl[a].next < Len(T.dl[a].providers)
BY DEF TableSet

\* Replacing the download and the requests of one artifact.
LEMMA TablesWith ==
  ASSUME NEW T \in TableSet, NEW a \in Artifacts, NEW o \in SUBSET Requests, IsFiniteSet(o),
         NEW d \in Download \cup {NoDownload},
         d # NoDownload => d.next < Len(d.providers)
  PROVE  [out |-> o, dl |-> [T.dl EXCEPT ![a] = d]] \in TableSet
<1> DEFINE V == [out |-> o, dl |-> [T.dl EXCEPT ![a] = d]]
<1>1. T.dl \in [Artifacts -> Download \cup {NoDownload}]
  BY DEF TableSet
<1>2. [T.dl EXCEPT ![a] = d] \in [Artifacts -> Download \cup {NoDownload}]
  BY <1>1
<1>3. V \in [out : SUBSET Requests, dl : [Artifacts -> Download \cup {NoDownload}]]
  BY <1>2
<1>4. ASSUME NEW b \in Artifacts, V.dl[b] # NoDownload
      PROVE  V.dl[b].next < Len(V.dl[b].providers)
  <2>1. CASE b = a
    BY <1>1, <1>4, <2>1
  <2>2. CASE b # a
    <3>1. V.dl[b] = T.dl[b]
      BY <1>1, <2>2
    <3>2. QED
      BY <1>4, <3>1 DEF TableSet
  <2>3. QED
    BY <2>1, <2>2
<1>5. QED
  BY <1>3, <1>4 DEF TableSet

\* Giving a download up leaves good tables.
LEMMA WithoutGood ==
  ASSUME NEW st, NEW o, NEW Q, NEW a \in Artifacts, NEW T \in Loose(st, o, Q, a)
  PROVE  Without(T, a) \in Good(st, o, Q)
<1> DEFINE V == Without(T, a)
<1>1. T \in TableSet /\ T.dl \in [Artifacts -> Download \cup {NoDownload}]
      /\ T = [out |-> T.out, dl |-> T.dl] /\ T.out \in SUBSET Requests /\ IsFiniteSet(T.out)
  BY DEF Loose, TableSet
<1>2. V = [out |-> T.out, dl |-> [T.dl EXCEPT ![a] = NoDownload]]
  BY <1>1 DEF Without
<1>3. V \in TableSet
  BY <1>1, <1>2, TablesWith
<1>4. V.out = T.out /\ V.dl[a] = NoDownload /\ \A b \in Artifacts \ {a} : V.dl[b] = T.dl[b]
  BY <1>1, <1>2
<1> HIDE DEF V
<1>5. \A b, kind : AskedFor(V, b, kind) = AskedFor(T, b, kind)
  BY <1>4 DEF AskedFor
<1>6. ASSUME NEW b \in Artifacts PROVE SoundAt(V, st, b) /\ BusyAt(V, b)
  <2>1. CASE b = a
    BY <1>4, <2>1 DEF SoundAt, BusyAt
  <2>2. CASE b # a
    <3>1. SoundAt(T, st, b) /\ BusyAt(T, b)
      BY <2>2 DEF Loose
    <3>2. QED
      BY <1>4, <1>5, <2>2, <3>1, Elsewhere
  <2>3. QED
    BY <2>1, <2>2
<1>7. Avoids(V, o, Q)
  <2>1. Avoids(T, o, Q)
    BY DEF Loose
  <2>2. ASSUME NEW r \in V.out \ o, r.kind # "inventory"
        PROVE  r.peer \notin Q /\ (V.dl[r.artifact] # NoDownload => r.peer \notin V.dl[r.artifact].failed)
    <3>1. r \in T.out \ o /\ r.artifact \in Artifacts
      BY <1>1, <1>4, <2>2 DEF Requests
    <3>2. r.peer \notin Q /\ (T.dl[r.artifact] # NoDownload => r.peer \notin T.dl[r.artifact].failed)
      BY <2>1, <2>2, <3>1 DEF Avoids
    <3>3. V.dl[r.artifact] # NoDownload => V.dl[r.artifact] = T.dl[r.artifact]
      BY <1>4, <3>1
    <3>4. QED
      BY <3>2, <3>3
  <2>3. QED
    BY <2>2 DEF Avoids
<1>8. QED
  BY <1>3, <1>6, <1>7 DEF Good, V

\* Asking one more provider for an artifact leaves good tables, if its download is sound.
LEMMA AskGood ==
  ASSUME NEW st, NEW o, NEW Q, NEW a \in Artifacts, NEW T \in Loose(st, o, Q, a),
         T.dl[a] # NoDownload,
         NEW e \in Download, e.next < Len(e.providers), e.failed = T.dl[a].failed,
         NEW s \in Requests, s \notin T.out, s.artifact = a, s.kind \in {"manifest", "block"},
         s.peer \notin e.failed,
         NEW V, V = [out |-> T.out \cup {s}, dl |-> [T.dl EXCEPT ![a] = e]],
         SoundAt(V, st, a)
  PROVE  V \in Good(st, o, Q) /\ V \in Loose(st, o, Q, a) /\ BusyAt(V, a)
<1>1. T \in TableSet /\ T.dl \in [Artifacts -> Download \cup {NoDownload}]
      /\ T.out \in SUBSET Requests /\ IsFiniteSet(T.out)
  BY DEF Loose, TableSet
<1>2. T.out \cup {s} \in SUBSET Requests /\ IsFiniteSet(T.out \cup {s})
  BY <1>1, FS_AddElement
<1>3. V \in TableSet
  BY <1>1, <1>2, TablesWith
<1>4. /\ V.out = T.out \cup {s} /\ V.dl[a] = e
      /\ \A b \in Artifacts \ {a} : V.dl[b] = T.dl[b]
  BY <1>1
<1>5. ASSUME NEW b \in Artifacts \ {a}, NEW kind
      PROVE  AskedFor(V, b, kind) = AskedFor(T, b, kind)
  BY <1>4 DEF AskedFor
<1>6. BusyAt(V, a)
  <2>1. s \in AskedFor(V, a, "manifest") \cup AskedFor(V, a, "block")
    BY <1>4 DEF AskedFor
  <2>2. QED
    BY <2>1 DEF BusyAt
<1>7. ASSUME NEW b \in Artifacts PROVE SoundAt(V, st, b) /\ BusyAt(V, b)
  <2>1. CASE b = a
    BY <1>6, <2>1
  <2>2. CASE b # a
    <3>1. SoundAt(T, st, b) /\ BusyAt(T, b)
      BY <2>2 DEF Loose
    <3>2. V.dl[b] = T.dl[b] /\ \A kind : AskedFor(V, b, kind) = AskedFor(T, b, kind)
      BY <1>4, <1>5, <2>2
    <3>3. QED
      BY <3>1, <3>2, Elsewhere
  <2>3. QED
    BY <2>1, <2>2
<1>8. Q \subseteq V.dl[a].failed
  BY <1>4 DEF Loose
<1>9. Avoids(V, o, Q)
  <2>1. Avoids(T, o, Q)
    BY DEF Loose
  <2>2. ASSUME NEW r \in V.out \ o, r.kind # "inventory"
        PROVE  r.peer \notin Q /\ (V.dl[r.artifact] # NoDownload => r.peer \notin V.dl[r.artifact].failed)
    <3>1. CASE r = s
      BY <1>4, <1>8, <3>1
    <3>2. CASE r # s
      <4>1. r \in T.out \ o /\ r.artifact \in Artifacts
        BY <1>1, <1>4, <2>2, <3>2 DEF Requests
      <4>2. r.peer \notin Q /\ (T.dl[r.artifact] # NoDownload => r.peer \notin T.dl[r.artifact].failed)
        BY <2>1, <2>2, <4>1 DEF Avoids
      <4>3. CASE r.artifact = a
        BY <1>4, <4>2, <4>3
      <4>4. CASE r.artifact # a
        BY <1>4, <4>1, <4>2, <4>4
      <4>5. QED
        BY <4>3, <4>4
    <3>3. QED
      BY <3>1, <3>2
  <2>3. QED
    BY <2>2 DEF Avoids
<1>10. QED
  BY <1>3, <1>6, <1>7, <1>8, <1>9 DEF Good, Loose

\* The download after its turn has moved on.
LEMMA MovedFields ==
  ASSUME NEW d \in Download, d.next < Len(d.providers), Active(d) # {}
  PROVE  /\ Moved(d) \in Download /\ Moved(d).next < Len(Moved(d).providers)
         /\ Moved(d).failed = d.failed /\ Moved(d).known = d.known
         /\ Moved(d).manifest = d.manifest /\ Moved(d).pending = d.pending
         /\ Moved(d).inFlight = d.inFlight /\ Moved(d).providers = d.providers
<1> DEFINE k == (d.next + Looks(d)) % Len(d.providers)
<1>1. k \in 0..(Len(d.providers) - 1) /\ Len(d.providers) \in Nat
  BY TurnFound, ProvidersOf
<1>2. Moved(d) = [d EXCEPT !.next = k]
  BY DEF Moved
<1> HIDE DEF k
<1>3. k \in Nat /\ k < Len(d.providers)
  BY <1>1
<1>4. Moved(d) \in Download
  BY <1>2, <1>3 DEF Download
<1>5. Moved(d).next = k
  BY <1>2 DEF Download
<1>6. QED
  BY <1>2, <1>3, <1>4, <1>5 DEF Download

\* request_artifact_manifest, when a provider is left to ask.
LEMMA RequestManifestAsks ==
  ASSUME NEW a \in Artifacts, NEW T \in TableSet, T.dl[a] # NoDownload, Active(T.dl[a]) # {}
  PROVE  \E s \in Requests :
           /\ s \notin T.out /\ s.kind = "manifest" /\ s.peer = Chosen(T.dl[a]) /\ s.artifact = a
           /\ RequestManifest(T, a) =
                [out |-> T.out \cup {s}, dl |-> [T.dl EXCEPT ![a] = Moved(T.dl[a])]]
<1> DEFINE d == T.dl[a]
<1>1. T.out \in SUBSET Requests /\ IsFiniteSet(T.out)
  BY DEF TableSet
<1>2. Chosen(d) \in Peers
  BY DownloadOf, TurnFound
<1>3. ManifestRequest(Chosen(d), a) \in Requests
  <2>1. a # Nothing
    BY DownloadAssumptions
  <2>2. QED
    BY <1>2, <2>1 DEF ManifestRequest, Requests
<1>4. PICK s \in Requests :
        /\ s \notin T.out /\ Send(T.out, ManifestRequest(Chosen(d), a)) = T.out \cup {s}
        /\ s.kind = "manifest" /\ s.peer = Chosen(d) /\ s.artifact = a
  <2>1. /\ ManifestRequest(Chosen(d), a).kind = "manifest"
        /\ ManifestRequest(Chosen(d), a).peer = Chosen(d)
        /\ ManifestRequest(Chosen(d), a).artifact = a
    BY DEF ManifestRequest
  <2>2. QED
    BY <1>1, <1>3, <2>1, SendAdds
<1>5. QED
  BY <1>4 DEF RequestManifest

\* request_artifact_manifest.
LEMMA RequestManifestGood ==
  ASSUME NEW st, NEW o, NEW Q, NEW a \in Artifacts, NEW T \in Loose(st, o, Q, a)
  PROVE  RequestManifest(T, a) \in Good(st, o, Q)
<1> DEFINE d == T.dl[a]
           V == RequestManifest(T, a)
<1>1. T \in TableSet /\ T.out \in SUBSET Requests /\ IsFiniteSet(T.out)
      /\ T.dl \in [Artifacts -> Download \cup {NoDownload}]
  BY DEF Loose, TableSet
<1>2. CASE d = NoDownload \/ Active(d) = {}
  BY <1>2, WithoutGood DEF RequestManifest
<1>3. CASE d # NoDownload /\ Active(d) # {}
  <2>1. d \in Download /\ d.next < Len(d.providers)
    BY <1>1, <1>3, DownloadOf
  <2>2. Chosen(d) \in Peers /\ Chosen(d) \notin d.failed
    BY <1>3, <2>1, TurnFound
  <2>3. PICK s \in Requests :
          /\ s \notin T.out /\ s.kind = "manifest" /\ s.peer = Chosen(d) /\ s.artifact = a
          /\ V = [out |-> T.out \cup {s}, dl |-> [T.dl EXCEPT ![a] = Moved(d)]]
    BY <1>1, <1>3, RequestManifestAsks
  <2> HIDE DEF V
  <2>4. V.out = T.out \cup {s} /\ V.dl[a] = Moved(d)
    BY <1>1, <2>3
  <2>5. AskedFor(V, a, "block") = AskedFor(T, a, "block")
    BY <2>3, <2>4 DEF AskedFor
  <2>6. SoundAt(V, st, a)
    <3>1. SoundAt(T, st, a)
      BY DEF Loose
    <3>2. /\ V.dl[a].known = d.known /\ V.dl[a].manifest = d.manifest
          /\ V.dl[a].pending = d.pending /\ V.dl[a].inFlight = d.inFlight
      BY <1>3, <2>1, <2>4, MovedFields
    <3>3. QED
      BY <1>3, <2>5, <3>1, <3>2 DEF SoundAt
  <2>7. QED
    BY <1>3, <2>1, <2>2, <2>3, <2>6, MovedFields, AskGood DEF V
<1>4. QED
  BY <1>2, <1>3

\* The first element and the rest of a sequence make up all of it.
LEMMA RangeOfTail ==
  ASSUME NEW S, NEW q \in Seq(S), q # <<>>
  PROVE  /\ Head(q) \in S /\ Tail(q) \in Seq(S)
         /\ Range(q) \subseteq {Head(q)} \cup Range(Tail(q))
<1>1. Len(q) \in Nat \ {0} /\ DOMAIN q = 1..Len(q) /\ Head(q) = q[1]
  BY EmptySeq, HeadTailProperties
<1>2. /\ Head(q) \in S /\ Tail(q) \in Seq(S) /\ Len(Tail(q)) = Len(q) - 1
      /\ \A i \in 1..Len(Tail(q)) : Tail(q)[i] = q[i + 1]
  BY HeadTailProperties
<1>3. ASSUME NEW i \in 1..Len(q), i # 1 PROVE q[i] \in Range(Tail(q))
  <2>1. i - 1 \in 1..Len(Tail(q)) /\ (i - 1) + 1 = i
    BY <1>1, <1>2, <1>3
  <2>2. Tail(q)[i - 1] = q[i]
    BY <1>2, <2>1
  <2>3. DOMAIN Tail(q) = 1..Len(Tail(q))
    BY <1>2
  <2>4. QED
    BY <2>1, <2>2, <2>3 DEF Range
<1>4. QED
  BY <1>1, <1>2, <1>3 DEF Range

\* An appended element is the only new one.
LEMMA RangeOfAppend ==
  ASSUME NEW S, NEW q \in Seq(S), NEW x \in S
  PROVE  Range(Append(q, x)) = Range(q) \cup {x}
<1>1. /\ Len(q) \in Nat /\ DOMAIN q = 1..Len(q)
      /\ DOMAIN Append(q, x) = 1..(Len(q) + 1)
      /\ Append(q, x)[Len(q) + 1] = x
      /\ \A i \in 1..Len(q) : Append(q, x)[i] = q[i]
  OBVIOUS
<1>2. Len(q) + 1 \in 1..(Len(q) + 1)
  BY <1>1
<1>3. \A i \in 1..(Len(q) + 1) : i = Len(q) + 1 \/ i \in 1..Len(q)
  BY <1>1
<1>4. \A i \in 1..Len(q) : i \in 1..(Len(q) + 1)
  BY <1>1
<1> DEFINE n == Len(q)
           z == Append(q, x)
<1> HIDE DEF n, z
<1>5. QED
  BY <1>1, <1>2, <1>3, <1>4 DEF Range, n, z

\* A turn of the loop of request_artifact_blocks sends request s, and leaves download e.
BlockAsked(T, a, s, e) ==
  LET d == T.dl[a]
  IN  /\ s \notin T.out /\ s.kind = "block" /\ s.peer = Chosen(d) /\ s.artifact = a
      /\ s.block = Head(d.pending)
      /\ e.next < Len(e.providers) /\ e.providers = d.providers /\ e.failed = d.failed
      /\ e.known = d.known /\ e.manifest = d.manifest
      /\ e.pending = Tail(d.pending) /\ e.inFlight = d.inFlight + 1
      /\ RequestBlock(T, a) = [out |-> T.out \cup {s}, dl |-> [T.dl EXCEPT ![a] = e]]

\* It does while a block waits, a slot is free and a provider is left.
LEMMA RequestBlockAsks ==
  ASSUME NEW a \in Artifacts, NEW T \in TableSet, NEW d, d = T.dl[a], d # NoDownload,
         ~ (d.inFlight >= MaxParallel), d.pending # <<>>, Active(d) # {}
  PROVE  \E s \in Requests, e \in Download : BlockAsked(T, a, s, e)
<1>1. T.out \in SUBSET Requests /\ IsFiniteSet(T.out)
  BY DEF TableSet
<1>2. d \in Download /\ d.next < Len(d.providers)
  BY DownloadOf
<1>3. d.pending \in Seq(Blocks) /\ d.inFlight \in Nat
  BY <1>2 DEF Download
<1>4. Head(d.pending) \in Blocks /\ Tail(d.pending) \in Seq(Blocks)
  BY <1>3, RangeOfTail
<1> DEFINE b == Head(d.pending)
           e == [Moved(d) EXCEPT !.pending = Tail(@), !.inFlight = @ + 1]
<1>5. Chosen(d) \in Peers
  BY <1>2, TurnFound
<1>6. /\ Moved(d) \in Download /\ Moved(d).next < Len(Moved(d).providers)
      /\ Moved(d).failed = d.failed /\ Moved(d).known = d.known
      /\ Moved(d).manifest = d.manifest /\ Moved(d).pending = d.pending
      /\ Moved(d).inFlight = d.inFlight /\ Moved(d).providers = d.providers
  BY <1>2, MovedFields
<1>7. e \in Download
  <2> DEFINE m == Moved(d)
  <2>1. m \in Download /\ Tail(m.pending) \in Seq(Blocks) /\ m.inFlight + 1 \in Nat
    BY <1>3, <1>4, <1>6
  <2> HIDE DEF m
  <2>2. [m EXCEPT !.pending = Tail(@), !.inFlight = @ + 1] \in Download
    BY <2>1 DEF Download
  <2>3. QED
    BY <2>2 DEF m
<1>8. /\ e.next = Moved(d).next /\ e.providers = Moved(d).providers /\ e.failed = d.failed
      /\ e.known = d.known /\ e.manifest = d.manifest
      /\ e.pending = Tail(d.pending) /\ e.inFlight = d.inFlight + 1
  BY <1>6 DEF Download
<1>9. BlockRequest(Chosen(d), a, b) \in Requests
  <2>1. a # Nothing /\ b # Nothing
    BY <1>4, DownloadAssumptions
  <2>2. QED
    BY <1>4, <1>5, <2>1 DEF BlockRequest, Requests
<1>10. PICK s \in Requests :
         /\ s \notin T.out /\ Send(T.out, BlockRequest(Chosen(d), a, b)) = T.out \cup {s}
         /\ s.kind = "block" /\ s.peer = Chosen(d) /\ s.artifact = a /\ s.block = b
  <2>1. /\ BlockRequest(Chosen(d), a, b).kind = "block"
        /\ BlockRequest(Chosen(d), a, b).peer = Chosen(d)
        /\ BlockRequest(Chosen(d), a, b).artifact = a
        /\ BlockRequest(Chosen(d), a, b).block = b
    BY DEF BlockRequest
  <2>2. QED
    BY <1>1, <1>9, <2>1, SendAdds
<1>11. RequestBlock(T, a) = [out |-> T.out \cup {s}, dl |-> [T.dl EXCEPT ![a] = e]]
  BY <1>10 DEF RequestBlock
<1> HIDE DEF e
<1>12. BlockAsked(T, a, s, e)
  BY <1>6, <1>8, <1>10, <1>11 DEF BlockAsked
<1>13. QED
  BY <1>7, <1>12

\* A turn of the loop of request_artifact_blocks asks for a block, or finds a request out,
\* or gives the download up.
LEMMA RequestBlockStep ==
  ASSUME NEW st, NEW o, NEW Q, NEW a \in Artifacts, NEW T \in Owing(st, o, Q, a)
  PROVE  RequestBlock(T, a) \in Owing(st, o, Q, a) /\ BusyAt(RequestBlock(T, a), a)
<1> DEFINE d == T.dl[a]
           V == RequestBlock(T, a)
<1>1. /\ T \in TableSet /\ T.out \in SUBSET Requests /\ IsFiniteSet(T.out)
      /\ T.dl \in [Artifacts -> Download \cup {NoDownload}]
      /\ T \in Loose(st, o, Q, a) /\ SoundAt(T, st, a)
  BY DEF Owing, Loose, TableSet
<1>2. CASE d = NoDownload
  <2>1. V = T
    BY <1>2 DEF RequestBlock
  <2>2. QED
    BY <1>2, <2>1 DEF BusyAt
<1>3. CASE d # NoDownload /\ d.inFlight >= MaxParallel
  <2>1. V = T
    BY <1>3 DEF RequestBlock
  <2>2. d \in Download
    BY <1>1, <1>3, DownloadOf
  <2>3. d.inFlight \in Nat /\ d.inFlight <= Cardinality(AskedFor(T, a, "block"))
    BY <1>1, <1>3, <2>2 DEF SoundAt, Download
  <2>4. AskedFor(T, a, "block") # {}
    <3>1. SUFFICES ASSUME AskedFor(T, a, "block") = {} PROVE FALSE
      OBVIOUS
    <3>2. d.inFlight <= 0
      BY <2>3, <3>1, FS_EmptySet
    <3>3. QED
      BY <1>3, <2>3, <3>2, DownloadAssumptions
  <2>5. QED
    BY <2>1, <2>4 DEF BusyAt
<1>4. CASE d # NoDownload /\ ~ (d.inFlight >= MaxParallel) /\ d.pending = <<>>
  <2>1. V = T
    BY <1>4 DEF RequestBlock
  <2>2. QED
    BY <1>4, <2>1 DEF Owing
<1>5. CASE d # NoDownload /\ ~ (d.inFlight >= MaxParallel) /\ d.pending # <<>> /\ Active(d) = {}
  <2>1. V = Without(T, a)
    BY <1>5 DEF RequestBlock
  <2> HIDE DEF V
  <2>2. V \in Good(st, o, Q)
    BY <1>1, <2>1, WithoutGood
  <2>3. V.dl[a] = NoDownload
    BY <1>1, <2>1 DEF Without, TableSet
  <2>4. QED
    BY <2>2, <2>3 DEF Good, Loose, Owing, BusyAt, V
<1>6. CASE d # NoDownload /\ ~ (d.inFlight >= MaxParallel) /\ d.pending # <<>> /\ Active(d) # {}
  <2>1. d \in Download /\ d.next < Len(d.providers)
    BY <1>1, <1>6, DownloadOf
  <2>2. d.pending \in Seq(Blocks) /\ d.inFlight \in Nat
    BY <2>1 DEF Download
  <2> DEFINE b == Head(d.pending)
  <2>3. Range(d.pending) \subseteq {b} \cup Range(Tail(d.pending))
    BY <1>6, <2>2, RangeOfTail
  <2>4. Chosen(d) \notin d.failed
    BY <1>6, <2>1, TurnFound
  <2>5. PICK s \in Requests, e \in Download : BlockAsked(T, a, s, e)
    BY <1>1, <1>6, RequestBlockAsks
  <2>6. /\ s \notin T.out /\ s.kind = "block" /\ s.peer = Chosen(d) /\ s.artifact = a
        /\ s.block = b
        /\ e.next < Len(e.providers) /\ e.failed = d.failed
        /\ e.known = d.known /\ e.manifest = d.manifest
        /\ e.pending = Tail(d.pending) /\ e.inFlight = d.inFlight + 1
        /\ V = [out |-> T.out \cup {s}, dl |-> [T.dl EXCEPT ![a] = e]]
    BY <2>5 DEF BlockAsked
  <2> HIDE DEF V, b
  <2>7. V.out = T.out \cup {s} /\ V.dl[a] = e
    BY <1>1, <2>6
  <2>8. AskedFor(V, a, "block") = AskedFor(T, a, "block") \cup {s} /\ s \notin AskedFor(T, a, "block")
    BY <2>6, <2>7 DEF AskedFor
  <2>9. SoundAt(V, st, a)
    <3>1. d.known => d.manifest \subseteq
            st \cup Range(d.pending) \cup {r.block : r \in AskedFor(T, a, "block")}
      BY <1>1, <1>6 DEF SoundAt
    <3>2. e.known => e.manifest \subseteq
            st \cup Range(e.pending) \cup {r.block : r \in AskedFor(V, a, "block")}
      <4>1. {r.block : r \in AskedFor(T, a, "block")} \cup {b}
              \subseteq {r.block : r \in AskedFor(V, a, "block")}
        BY <2>6, <2>8
      <4>2. Range(d.pending) \subseteq {b} \cup Range(e.pending)
        BY <2>3, <2>6
      <4>3. QED
        BY <2>6, <3>1, <4>1, <4>2
    <3>3. IsFiniteSet(AskedFor(T, a, "block"))
      BY <1>1, FS_Subset DEF AskedFor
    <3>4. /\ Cardinality(AskedFor(V, a, "block")) = Cardinality(AskedFor(T, a, "block")) + 1
          /\ Cardinality(AskedFor(T, a, "block")) \in Nat
      BY <2>8, <3>3, FS_AddElement, FS_CardinalityType
    <3>5. d.inFlight <= Cardinality(AskedFor(T, a, "block"))
      BY <1>1, <1>6 DEF SoundAt
    <3>6. e.inFlight <= Cardinality(AskedFor(V, a, "block"))
      BY <2>2, <2>6, <3>4, <3>5
    <3>7. QED
      BY <2>7, <3>2, <3>6 DEF SoundAt
  <2>10. V \in Loose(st, o, Q, a) /\ BusyAt(V, a)
    <3>1. s.peer \notin e.failed /\ e.next < Len(e.providers) /\ s.kind \in {"manifest", "block"}
      BY <2>4, <2>6
    <3>2. QED
      BY <1>1, <1>6, <2>6, <2>9, <3>1, AskGood
  <2>11. QED
    BY <2>10 DEF Owing, V
<1>7. QED
  BY <1>2, <1>3, <1>4, <1>5, <1>6

\* request_artifact_blocks.
LEMMA RequestBlocksGood ==
  ASSUME NEW st, NEW o, NEW Q, NEW a \in Artifacts, NEW T \in Owing(st, o, Q, a)
  PROVE  RequestBlocks(T, a) \in Good(st, o, Q)
<1>1. PICK t \in Owing(st, o, Q, a) : RequestBlocks(T, a) = RequestBlock(t, a)
  <2> DEFINE U == Owing(st, o, Q, a)
  <2>1. T \in U /\ \A t \in U : RequestBlock(t, a) \in U
    BY RequestBlockStep
  <2> HIDE DEF U
  <2>2. \E t \in U : RequestBlocks(T, a) = RequestBlock(t, a)
    BY <2>1, RequestBlocksLoop
  <2>3. QED
    BY <2>2 DEF U
<1>2. RequestBlocks(T, a) \in Owing(st, o, Q, a) /\ BusyAt(RequestBlocks(T, a), a)
  BY <1>1, RequestBlockStep
<1>3. QED
  BY <1>2 DEF Owing, Loose, Good

---------------------------------------------------------------------------
\* The handlers' helpers.

\* Taking requests of one artifact out of the table and changing its download.
LEMMA ChangeLoose ==
  ASSUME NEW st, NEW o, NEW Q, NEW a \in Artifacts, NEW T \in Good(st, o, Q),
         T.dl[a] # NoDownload,
         NEW R, \A r \in R : r.artifact = a,
         NEW e \in Download, e.next < Len(e.providers), e.failed = T.dl[a].failed \cup Q,
         NEW V, V = [out |-> T.out \ R, dl |-> [T.dl EXCEPT ![a] = e]],
         SoundAt(V, st, a)
  PROVE  V \in Loose(st, o, Q, a)
<1>1. T \in TableSet /\ T.dl \in [Artifacts -> Download \cup {NoDownload}]
      /\ T.out \in SUBSET Requests /\ IsFiniteSet(T.out)
  BY DEF Good, TableSet
<1>2. T.out \ R \in SUBSET Requests /\ IsFiniteSet(T.out \ R)
  BY <1>1, FS_Subset
<1>3. V \in TableSet
  BY <1>1, <1>2, TablesWith
<1>4. /\ V.out = T.out \ R /\ V.dl[a] = e
      /\ \A b \in Artifacts \ {a} : V.dl[b] = T.dl[b]
  BY <1>1
<1>5. ASSUME NEW b \in Artifacts \ {a}, NEW kind
      PROVE  AskedFor(V, b, kind) = AskedFor(T, b, kind)
  BY <1>4 DEF AskedFor
<1>6. ASSUME NEW b \in Artifacts \ {a} PROVE SoundAt(V, st, b) /\ BusyAt(V, b)
  <2>1. SoundAt(T, st, b) /\ BusyAt(T, b)
    BY DEF Good
  <2>2. QED
    BY <1>4, <1>5, <2>1, Elsewhere
<1>7. Avoids(V, o, Q)
  <2>1. Avoids(T, o, Q)
    BY DEF Good
  <2>2. ASSUME NEW r \in V.out \ o, r.kind # "inventory"
        PROVE  r.peer \notin Q /\ (V.dl[r.artifact] # NoDownload => r.peer \notin V.dl[r.artifact].failed)
    <3>1. r \in T.out \ o /\ r.artifact \in Artifacts
      BY <1>1, <1>4, <2>2 DEF Requests
    <3>2. r.peer \notin Q /\ (T.dl[r.artifact] # NoDownload => r.peer \notin T.dl[r.artifact].failed)
      BY <2>1, <2>2, <3>1 DEF Avoids
    <3>3. CASE r.artifact = a
      BY <1>4, <3>2, <3>3
    <3>4. CASE r.artifact # a
      BY <1>4, <3>1, <3>2, <3>4
    <3>5. QED
      BY <3>3, <3>4
  <2>3. QED
    BY <2>2 DEF Avoids
<1>8. QED
  BY <1>3, <1>4, <1>6, <1>7 DEF Loose

\* A request leaves the table: good tables stay good if nothing waits for its artifact.
LEMMA AnsweredGood ==
  ASSUME NEW st, NEW o, NEW Q, NEW T \in Good(st, o, Q), NEW r \in Requests,
         r.kind = "inventory" \/ T.dl[r.artifact] = NoDownload
  PROVE  Answered(T, r) \in Good(st, o, Q)
<1> DEFINE V == Answered(T, r)
<1>1. T \in TableSet /\ T.dl \in [Artifacts -> Download \cup {NoDownload}]
      /\ T.out \in SUBSET Requests /\ IsFiniteSet(T.out) /\ T = [out |-> T.out, dl |-> T.dl]
  BY DEF Good, TableSet
<1>2. V = [out |-> T.out \ {r}, dl |-> T.dl]
  <2> DEFINE O == T.out
             L == T.dl
  <2>1. T = [out |-> O, dl |-> L]
    BY <1>1
  <2>2. V = [T EXCEPT !.out = O \ {r}]
    BY DEF Answered
  <2> HIDE DEF O, L, V
  <2>3. V = [out |-> O \ {r}, dl |-> L]
    BY <2>1, <2>2
  <2> QED
    BY <2>3 DEF O, L
<1>3. T.out \ {r} \in SUBSET Requests /\ IsFiniteSet(T.out \ {r})
  BY <1>1, FS_Subset
<1>4. V \in TableSet
  <2>1. V \in [out : SUBSET Requests, dl : [Artifacts -> Download \cup {NoDownload}]]
    BY <1>1, <1>2, <1>3
  <2>2. V.out = T.out \ {r} /\ V.dl = T.dl
    BY <1>2
  <2> HIDE DEF V
  <2>3. QED
    BY <1>1, <1>3, <2>1, <2>2 DEF TableSet
<1>5. V.out = T.out \ {r} /\ V.dl = T.dl
  BY <1>2
<1> HIDE DEF V
<1>6. ASSUME NEW b \in Artifacts PROVE SoundAt(V, st, b) /\ BusyAt(V, b)
  <2>1. SoundAt(T, st, b) /\ BusyAt(T, b)
    BY DEF Good
  <2>2. CASE T.dl[b] = NoDownload
    BY <1>5, <2>2 DEF SoundAt, BusyAt
  <2>3. CASE T.dl[b] # NoDownload
    <3>1. r.artifact # b
      <4>1. r.kind = "inventory" => r.artifact = Nothing
        BY DEF Requests
      <4>2. QED
        BY <2>3, <4>1, DownloadAssumptions
    <3>2. \A kind : AskedFor(V, b, kind) = AskedFor(T, b, kind)
      BY <1>5, <3>1 DEF AskedFor
    <3>3. QED
      BY <1>5, <2>1, <3>2, Elsewhere
  <2>4. QED
    BY <2>2, <2>3
<1>7. Avoids(V, o, Q)
  <2>1. Avoids(T, o, Q)
    BY DEF Good
  <2>2. QED
    BY <1>5, <2>1 DEF Avoids
<1>8. QED
  BY <1>4, <1>6, <1>7 DEF Good, V

\* The tables a failed request leaves before others are asked: it is gone, and its download is e.
Fallen(T, r, e) == [out |-> T.out \ {r}, dl |-> [T.dl EXCEPT ![r.artifact] = e]]

\* handle_artifact_request_failure: e has given the provider up, and a block waits again.
FailsInto(T, r, e) ==
  LET a == r.artifact
      d == T.dl[a]
      V == RequestFailed(Answered(T, r), r)
  IN  /\ e.failed = d.failed \cup {r.peer} /\ e.providers = d.providers /\ e.next = d.next
      /\ e.known = d.known /\ e.manifest = d.manifest
      /\ \/ /\ r.kind = "manifest" /\ e.pending = d.pending /\ e.inFlight = d.inFlight
            /\ V = RequestManifest(Fallen(T, r, e), a)
         \/ /\ r.kind = "block" /\ e.pending = Append(d.pending, r.block)
            /\ e.inFlight = SaturatingDecrement(d.inFlight)
            /\ V = IF Active(e) = {} THEN Without(Fallen(T, r, e), a)
                   ELSE RequestBlocks(Fallen(T, r, e), a)

\* It does for every request of a running download.
LEMMA RequestFails ==
  ASSUME NEW T \in TableSet, NEW r \in Requests, r.kind # "inventory",
         T.dl[r.artifact] # NoDownload
  PROVE  /\ r.artifact \in Artifacts /\ r.peer \in Peers /\ (r.kind = "block" => r.block \in Blocks)
         /\ \E e \in Download : FailsInto(T, r, e)
<1> DEFINE a == r.artifact
           d == T.dl[a]
           V == Answered(T, r)
           M == ProviderOut(V, r)
           B == BlockBack(M, r)
<1>1. /\ T.dl \in [Artifacts -> Download \cup {NoDownload}] /\ T = [out |-> T.out, dl |-> T.dl]
  BY DEF TableSet
<1>2. V = [out |-> T.out \ {r}, dl |-> T.dl]
  BY <1>1 DEF Answered
<1>3. /\ a \in Artifacts /\ r.kind \in {"manifest", "block"} /\ r.peer \in Peers
      /\ (r.kind = "block" => r.block \in Blocks)
  BY DownloadAssumptions DEF Requests
<1>4. d \in Download
  BY <1>3, DownloadOf
<1> DEFINE m == [d EXCEPT !.failed = @ \cup {r.peer}]
<1>5. m \in Download
  BY <1>3, <1>4 DEF Download
<1>6. /\ m.failed = d.failed \cup {r.peer} /\ m.providers = d.providers /\ m.next = d.next
      /\ m.known = d.known /\ m.manifest = d.manifest
      /\ m.pending = d.pending /\ m.inFlight = d.inFlight
  BY <1>4 DEF Download
<1>7. M = [out |-> T.out \ {r}, dl |-> [T.dl EXCEPT ![a] = m]]
  <2>1. V.out = T.out \ {r} /\ V.dl = T.dl /\ V = [out |-> V.out, dl |-> V.dl]
    BY <1>2
  <2> DEFINE f == [V.dl EXCEPT ![a] = [V.dl[a] EXCEPT !.failed = @ \cup {r.peer}]]
  <2> HIDE DEF V
  <2>2. M = [V EXCEPT !.dl = f]
    BY DEF ProviderOut
  <2>3. f = [T.dl EXCEPT ![a] = m]
    BY <2>1
  <2> HIDE DEF f
  <2>4. M = [out |-> V.out, dl |-> f]
    BY <2>1, <2>2
  <2>5. QED
    BY <2>1, <2>3, <2>4
<1>8. M.dl[a] = m /\ M.out = T.out \ {r} /\ M.dl \in [Artifacts -> Download \cup {NoDownload}]
  BY <1>1, <1>3, <1>5, <1>7
<1>9. V.dl[a] # NoDownload
  BY <1>2
<1>10. CASE r.kind = "manifest"
  <2>1. RequestFailed(V, r) = RequestManifest(M, a)
    BY <1>9, <1>10 DEF RequestFailed, Retry
  <2>2. M = Fallen(T, r, m)
    BY <1>7 DEF Fallen
  <2> HIDE DEF M, m
  <2>3. FailsInto(T, r, m)
    BY <1>6, <1>10, <2>1, <2>2 DEF FailsInto
  <2>4. QED
    BY <1>3, <1>5, <2>3
<1>11. CASE r.kind = "block"
  <2> DEFINE e == [m EXCEPT !.inFlight = SaturatingDecrement(@), !.pending = Append(@, r.block)]
  <2>1. e \in Download
    <3>1. /\ SaturatingDecrement(m.inFlight) \in Nat
          /\ Append(m.pending, r.block) \in Seq(Blocks)
      BY <1>3, <1>5, <1>11 DEF SaturatingDecrement, Download
    <3> HIDE DEF m
    <3>2. QED
      BY <1>5, <3>1 DEF Download
  <2>2. /\ e.failed = d.failed \cup {r.peer} /\ e.providers = d.providers /\ e.next = d.next
        /\ e.known = d.known /\ e.manifest = d.manifest
        /\ e.pending = Append(d.pending, r.block) /\ e.inFlight = SaturatingDecrement(d.inFlight)
    <3>1. /\ e.failed = m.failed /\ e.providers = m.providers /\ e.next = m.next
          /\ e.known = m.known /\ e.manifest = m.manifest
          /\ e.pending = Append(m.pending, r.block) /\ e.inFlight = SaturatingDecrement(m.inFlight)
      <4> HIDE DEF m
      <4>1. QED
        BY <1>5 DEF Download
    <3>2. QED
      BY <1>6, <3>1
  <2>3. B = [out |-> T.out \ {r}, dl |-> [T.dl EXCEPT ![a] = e]]
    <3>1. M.dl = [T.dl EXCEPT ![a] = m] /\ M.out = T.out \ {r} /\ M = [out |-> M.out, dl |-> M.dl]
      BY <1>7
    <3> HIDE DEF M, m
    <3>2. B = [out |-> M.out, dl |-> [M.dl EXCEPT ![a] =
                 [M.dl[a] EXCEPT !.inFlight = SaturatingDecrement(@), !.pending = Append(@, r.block)]]]
      BY <1>1, <1>3, <1>8, <3>1 DEF BlockBack
    <3>3. B = [out |-> T.out \ {r}, dl |-> [M.dl EXCEPT ![a] = e]]
      BY <1>8, <3>1, <3>2
    <3>4. [M.dl EXCEPT ![a] = e] = [T.dl EXCEPT ![a] = e]
      <4> HIDE DEF e
      <4>1. QED
        BY <1>1, <1>3, <3>1
    <3>5. QED
      BY <3>3, <3>4
  <2>4. RequestFailed(V, r) = IF Active(B.dl[a]) = {} THEN Without(V, a) ELSE RequestBlocks(B, a)
    BY <1>9, <1>11 DEF RequestFailed, Retry
  <2> HIDE DEF M, B, m, e
  <2>5. B.dl[a] = e /\ B = Fallen(T, r, e)
    BY <1>1, <1>3, <2>3 DEF Fallen
  <2>6. Without(V, a) = Without(B, a)
    BY <1>1, <1>2, <1>3, <2>3 DEF Without
  <2>7. FailsInto(T, r, e)
    BY <1>11, <2>2, <2>4, <2>5, <2>6 DEF FailsInto
  <2>8. QED
    BY <1>3, <2>1, <2>7
<1>12. QED
  BY <1>3, <1>10, <1>11

\* A failed request leaves good tables.
LEMMA RequestFailedGood ==
  ASSUME NEW st, NEW o, NEW r \in Requests, NEW T \in Good(st, o, {r.peer})
  PROVE  RequestFailed(Answered(T, r), r) \in Good(st, o, {r.peer})
<1> DEFINE a == r.artifact
           d == T.dl[a]
           V == RequestFailed(Answered(T, r), r)
           L == AskedFor(T, a, "block")
<1>1. /\ T \in TableSet /\ T.dl \in [Artifacts -> Download \cup {NoDownload}]
      /\ T.out \in SUBSET Requests /\ IsFiniteSet(T.out) /\ T = [out |-> T.out, dl |-> T.dl]
  BY DEF Good, TableSet
<1>2. CASE r.kind = "inventory" \/ d = NoDownload
  <2>1. Answered(T, r) = [out |-> T.out \ {r}, dl |-> T.dl]
    BY <1>1 DEF Answered
  <2>2. V = Answered(T, r)
    BY <1>2, <2>1 DEF RequestFailed, Retry
  <2>3. QED
    BY <1>2, <2>2, AnsweredGood
<1>3. CASE r.kind # "inventory" /\ d # NoDownload
  <2>1. a \in Artifacts /\ r.peer \in Peers /\ (r.kind = "block" => r.block \in Blocks)
    BY <1>1, <1>3, RequestFails
  <2>2. d \in Download /\ d.next < Len(d.providers) /\ SoundAt(T, st, a)
    BY <1>1, <1>3, <2>1, DownloadOf DEF Good
  <2>3. PICK e \in Download : FailsInto(T, r, e)
    BY <1>1, <1>3, RequestFails
  <2> DEFINE B == Fallen(T, r, e)
  <2>4. /\ e.failed = d.failed \cup {r.peer} /\ e.providers = d.providers /\ e.next = d.next
        /\ e.known = d.known /\ e.manifest = d.manifest
    BY <2>3 DEF FailsInto
  <2>5. B = [out |-> T.out \ {r}, dl |-> [T.dl EXCEPT ![a] = e]]
    BY DEF Fallen
  <2> HIDE DEF B
  <2>6. B.dl[a] = e /\ B.out = T.out \ {r}
    BY <1>1, <2>1, <2>5
  <2>7. AskedFor(B, a, "block") = L \ {r}
    BY <2>6 DEF AskedFor
  <2>8. IsFiniteSet(L) /\ Cardinality(L) \in Nat
    BY <1>1, FS_Subset, FS_CardinalityType DEF AskedFor
  <2>9. d.inFlight <= Cardinality(L) /\ d.inFlight \in Nat
    BY <1>3, <2>2 DEF SoundAt, Download
  <2>10. d.known => d.manifest \subseteq st \cup Range(d.pending) \cup {q.block : q \in L}
    BY <1>3, <2>2 DEF SoundAt
  <2>11. ASSUME SoundAt(B, st, a) PROVE B \in Loose(st, o, {r.peer}, a)
    <3>1. e.next < Len(e.providers) /\ \A s \in {r} : s.artifact = a
      BY <2>2, <2>4
    <3>2. QED
      BY <1>3, <2>1, <2>4, <2>5, <2>11, <3>1, ChangeLoose
  <2>12. CASE r.kind = "manifest"
    <3>1. V = RequestManifest(B, a) /\ e.pending = d.pending /\ e.inFlight = d.inFlight
      BY <2>3, <2>12 DEF FailsInto, B
    <3>2. AskedFor(B, a, "block") = L
      BY <2>7, <2>12 DEF AskedFor
    <3>3. SoundAt(B, st, a)
      BY <2>4, <2>6, <2>9, <2>10, <3>1, <3>2 DEF SoundAt
    <3>4. QED
      BY <2>1, <2>11, <3>1, <3>3, RequestManifestGood
  <2>13. CASE r.kind = "block"
    <3>1. /\ e.pending = Append(d.pending, r.block) /\ e.inFlight = SaturatingDecrement(d.inFlight)
          /\ V = IF Active(e) = {} THEN Without(B, a) ELSE RequestBlocks(B, a)
      BY <2>3, <2>13 DEF FailsInto, B
    <3>2. d.pending \in Seq(Blocks) /\ r.block \in Blocks
      BY <2>1, <2>2, <2>13 DEF Download
    <3>3. Range(e.pending) = Range(d.pending) \cup {r.block} /\ e.pending # <<>>
      BY <3>1, <3>2, RangeOfAppend, AppendProperties
    <3>4. SoundAt(B, st, a)
      <4>1. e.known => e.manifest \subseteq
              st \cup Range(e.pending) \cup {q.block : q \in AskedFor(B, a, "block")}
        BY <2>4, <2>7, <2>10, <3>3
      <4>2. Cardinality(L \ {r}) \in Nat /\ Cardinality(L \ {r}) >= Cardinality(L) - 1
        <5> HIDE DEF L
        <5>1. IsFiniteSet(L \ {r})
              /\ Cardinality(L \ {r}) = IF r \in L THEN Cardinality(L) - 1 ELSE Cardinality(L)
          BY <2>8, FS_RemoveElement
        <5>2. Cardinality(L \ {r}) \in Nat
          BY <5>1, FS_CardinalityType
        <5>3. QED
          BY <2>8, <5>1, <5>2
      <4>3. e.inFlight <= Cardinality(AskedFor(B, a, "block"))
        <5> DEFINE n == d.inFlight
                   k == Cardinality(L)
                   j == Cardinality(L \ {r})
        <5>1. n \in Nat /\ k \in Nat /\ j \in Nat /\ n <= k /\ j >= k - 1
          BY <2>8, <2>9, <4>2
        <5> HIDE DEF n, k, j
        <5>2. SaturatingDecrement(n) <= j
          BY <5>1 DEF SaturatingDecrement
        <5>3. QED
          BY <2>7, <3>1, <5>2 DEF n, j
      <4>4. QED
        BY <2>6, <4>1, <4>3 DEF SoundAt
    <3>5. B \in Loose(st, o, {r.peer}, a) /\ B \in Owing(st, o, {r.peer}, a)
      BY <2>6, <2>11, <3>3, <3>4 DEF Owing
    <3>6. QED
      BY <2>1, <3>1, <3>5, WithoutGood, RequestBlocksGood
  <2>14. QED
    BY <2>3, <2>12, <2>13 DEF FailsInto
<1>4. QED
  BY <1>2, <1>3

\* The second half of fail_artifact_provider, for one download: it becomes e.
DropsInto(T, a, p, e) ==
  LET d == T.dl[a]
      M == [out |-> T.out, dl |-> [T.dl EXCEPT ![a] = e]]
  IN  /\ e = [d EXCEPT !.failed = @ \cup {p}]
      /\ e.failed = d.failed \cup {p} /\ e.providers = d.providers /\ e.next = d.next
      /\ e.known = d.known /\ e.manifest = d.manifest
      /\ e.pending = d.pending /\ e.inFlight = d.inFlight
      /\ DroppedFrom(T, a, p) = IF Active(e) = {} THEN Without(M, a)
                                ELSE IF e.known THEN RequestBlocks(M, a) ELSE M

\* It does when it has the provider.
LEMMA ProviderDropped ==
  ASSUME NEW T \in TableSet, NEW a \in Artifacts, NEW p \in Peers,
         T.dl[a] # NoDownload, p \in Range(T.dl[a].providers)
  PROVE  \E e \in Download : DropsInto(T, a, p, e)
<1> DEFINE d == T.dl[a]
           M == [T EXCEPT !.dl[a].failed = @ \cup {p}]
           e == [d EXCEPT !.failed = @ \cup {p}]
<1>1. T.dl \in [Artifacts -> Download \cup {NoDownload}] /\ T = [out |-> T.out, dl |-> T.dl]
  BY DEF TableSet
<1>2. d \in Download
  BY DownloadOf
<1>3. e \in Download
  BY <1>2 DEF Download
<1>4. /\ e.failed = d.failed \cup {p} /\ e.providers = d.providers /\ e.next = d.next
      /\ e.known = d.known /\ e.manifest = d.manifest
      /\ e.pending = d.pending /\ e.inFlight = d.inFlight
  BY <1>2 DEF Download
<1>5. M = [out |-> T.out, dl |-> [T.dl EXCEPT ![a] = e]]
  BY <1>1
<1>6. DroppedFrom(T, a, p) = IF Active(M.dl[a]) = {} THEN Without(T, a)
                             ELSE IF d.known THEN RequestBlocks(M, a) ELSE M
  BY DEF DroppedFrom
<1>7. e = [T.dl[a] EXCEPT !.failed = @ \cup {p}]
  OBVIOUS
<1> HIDE DEF M, e
<1>8. M.dl[a] = e /\ Without(T, a) = Without(M, a)
  BY <1>1, <1>5 DEF Without
<1>9. DroppedFrom(T, a, p) = IF Active(e) = {} THEN Without(M, a)
                             ELSE IF e.known THEN RequestBlocks(M, a) ELSE M
  BY <1>4, <1>6, <1>8
<1>10. DropsInto(T, a, p, e)
  BY <1>4, <1>5, <1>7, <1>9 DEF DropsInto
<1>11. QED
  BY <1>3, <1>10

\* Giving a provider up leaves good tables.
LEMMA DroppedFromGood ==
  ASSUME NEW st, NEW o, NEW p \in Peers, NEW T \in Good(st, o, {p}), NEW a \in Artifacts
  PROVE  DroppedFrom(T, a, p) \in Good(st, o, {p})
<1> DEFINE d == T.dl[a]
<1>1. /\ T \in TableSet /\ T.dl \in [Artifacts -> Download \cup {NoDownload}]
      /\ T.out \in SUBSET Requests /\ IsFiniteSet(T.out) /\ T = [out |-> T.out, dl |-> T.dl]
      /\ SoundAt(T, st, a) /\ BusyAt(T, a)
  BY DEF Good, TableSet
<1>2. CASE d = NoDownload \/ p \notin Range(d.providers)
  BY <1>2 DEF DroppedFrom
<1>3. CASE d # NoDownload /\ p \in Range(d.providers)
  <2>1. d \in Download /\ d.next < Len(d.providers)
    BY <1>1, <1>3, DownloadOf
  <2>2. PICK e \in Download : DropsInto(T, a, p, e)
    BY <1>1, <1>3, ProviderDropped
  <2> DEFINE M == [out |-> T.out, dl |-> [T.dl EXCEPT ![a] = e]]
  <2>3. M = [out |-> T.out \ {}, dl |-> [T.dl EXCEPT ![a] = e]]
    OBVIOUS
  <2>4. /\ e.failed = d.failed \cup {p} /\ e.providers = d.providers
        /\ e.next = d.next /\ e.known = d.known /\ e.manifest = d.manifest
        /\ e.pending = d.pending /\ e.inFlight = d.inFlight
        /\ DroppedFrom(T, a, p) = IF Active(e) = {} THEN Without(M, a)
                                  ELSE IF e.known THEN RequestBlocks(M, a) ELSE M
    BY <2>2 DEF DropsInto
  <2> HIDE DEF M
  <2>5. M.out = T.out /\ M.dl[a] = e
    BY <1>1, <2>3
  <2>6. \A kind : AskedFor(M, a, kind) = AskedFor(T, a, kind)
    BY <2>5 DEF AskedFor
  <2>7. SoundAt(M, st, a)
    BY <1>1, <1>3, <2>4, <2>5, <2>6 DEF SoundAt
  <2>8. BusyAt(M, a)
    BY <1>1, <1>3, <2>6 DEF BusyAt
  <2>9. M \in Loose(st, o, {p}, a)
    <3>1. e.next < Len(e.providers) /\ \A s \in {} : s.artifact = a
      BY <2>1, <2>4
    <3>2. QED
      BY <1>3, <2>3, <2>4, <2>7, <3>1, ChangeLoose
  <2>10. M \in Owing(st, o, {p}, a) /\ M \in Good(st, o, {p})
    BY <2>8, <2>9 DEF Owing, Loose, Good
  <2>11. QED
    BY <2>4, <2>9, <2>10, WithoutGood, RequestBlocksGood
<1>4. QED
  BY <1>2, <1>3

\* fail_artifact_provider.
LEMMA ProviderFailedGood ==
  ASSUME NEW st, NEW o, NEW p \in Peers, NEW T \in Good(st, o, {p}), NEW order \in Orders(T, p)
  PROVE  ProviderFailed(T, p, order) \in Good(st, o, {p})
<1> DEFINE U == Good(st, o, {p})
           R == {r \in Requests : r.peer = p}
<1>1. order \in Seq(R)
  <2>1. RequestsTo(T, p) \subseteq R
    BY DEF RequestsTo, Good, TableSet
  <2>2. IsFiniteSet(RequestsTo(T, p))
    BY FS_Subset DEF RequestsTo, Good, TableSet
  <2>3. Cardinality(RequestsTo(T, p)) \in Nat
    BY <2>2, FS_CardinalityType
  <2>4. order \in [1..Cardinality(RequestsTo(T, p)) -> RequestsTo(T, p)]
    BY DEF Orders, SetToSeqs
  <2> HIDE DEF R
  <2>5. QED
    BY <2>1, <2>3, <2>4
<1>2. \A t \in U, r \in R : RequestFailed(Answered(t, r), r) \in U
  BY RequestFailedGood
<1>3. \A t \in U, a \in Artifacts : DroppedFrom(t, a, p) \in U
  BY DroppedFromGood
<1>4. T \in U
  OBVIOUS
<1> HIDE DEF U, R
<1>5. RequestsFailed(T, order) \in U
  BY <1>1, <1>2, <1>4, RequestsFailedLoop
<1>6. DroppedEverywhere(RequestsFailed(T, order), p) \in U
  BY <1>3, <1>5, DroppedEverywhereLoop
<1>7. QED
  BY <1>6 DEF ProviderFailed, U

\* A block more in the store harms no download.
LEMMA GoodGrows ==
  ASSUME NEW st, NEW o, NEW Q, NEW T \in Good(st, o, Q), NEW b
  PROVE  T \in Good(st \cup {b}, o, Q)
<1>1. \A a \in Artifacts : SoundAt(T, st, a) => SoundAt(T, st \cup {b}, a)
  BY DEF SoundAt
<1>2. QED
  BY <1>1 DEF Good

\* An answer that ends the download.
LEMMA AnsweredWithout ==
  ASSUME NEW st, NEW o, NEW T \in Good(st, o, {}), NEW r \in Requests, r.kind # "inventory"
  PROVE  Without(Answered(T, r), r.artifact) \in Good(st, o, {})
<1> DEFINE a == r.artifact
           d == T.dl[a]
           V == Answered(T, r)
<1>1. /\ T \in TableSet /\ T.dl \in [Artifacts -> Download \cup {NoDownload}]
      /\ T.out \in SUBSET Requests /\ IsFiniteSet(T.out) /\ T = [out |-> T.out, dl |-> T.dl]
      /\ a \in Artifacts
  BY DownloadAssumptions DEF Good, TableSet, Requests
<1>2. V = [out |-> T.out \ {r}, dl |-> T.dl]
  BY <1>1 DEF Answered
<1>3. CASE d = NoDownload
  <2>1. Without(V, a) = V
    <3>1. [T.dl EXCEPT ![a] = NoDownload] = T.dl
      BY <1>1, <1>3
    <3>2. Without(V, a) = [out |-> T.out \ {r}, dl |-> [T.dl EXCEPT ![a] = NoDownload]]
      BY <1>1, <1>2 DEF Without
    <3>3. QED
      BY <1>2, <3>1, <3>2
  <2>2. QED
    BY <1>3, <2>1, AnsweredGood
<1>4. CASE d # NoDownload
  <2> DEFINE e == [d EXCEPT !.known = FALSE, !.inFlight = 0]
             W == [out |-> T.out \ {r}, dl |-> [T.dl EXCEPT ![a] = e]]
  <2>1. d \in Download /\ d.next < Len(d.providers)
    BY <1>1, <1>4, DownloadOf
  <2>2. e \in Download
    BY <2>1 DEF Download
  <2>3. /\ e.known = FALSE /\ e.inFlight = 0 /\ e.failed = d.failed
        /\ e.next = d.next /\ e.providers = d.providers
    BY <2>1 DEF Download
  <2> HIDE DEF e
  <2>4. W.dl[a] = e /\ W.out = T.out \ {r}
    BY <1>1
  <2>5. SoundAt(W, st, a)
    <3>1. IsFiniteSet(AskedFor(W, a, "block"))
      BY <1>1, <2>4, FS_Subset DEF AskedFor
    <3>2. 0 <= Cardinality(AskedFor(W, a, "block"))
      BY <3>1, FS_CardinalityType
    <3>3. QED
      BY <2>3, <2>4, <3>2 DEF SoundAt
  <2>6. W \in Loose(st, o, {}, a)
    <3>1. e.next < Len(e.providers) /\ e.failed = d.failed \cup {} /\ \A s \in {r} : s.artifact = a
      BY <2>1, <2>3
    <3>2. QED
      BY <1>1, <1>4, <2>2, <2>5, <3>1, ChangeLoose
  <2>7. Without(V, a) = Without(W, a)
    BY <1>1, <1>2 DEF Without
  <2>8. QED
    BY <1>1, <2>6, <2>7, WithoutGood
<1>5. QED
  BY <1>3, <1>4

---------------------------------------------------------------------------
(***************************************************************************)
(* How far a download is from its end. Onward holds the tables in which    *)
(* artifact a is where T has it, or nearer to its end, or no longer runs,  *)
(* and in which every request of T is still out. Each helper that asks     *)
(* leads there; a request that fails does so, but for its own place.       *)
(***************************************************************************)
DistanceAt(T, a) == Distance(T.out, T.dl[a], a)

Toward(T, V, a) ==
  V.dl[a] # NoDownload =>
    /\ T.dl[a] # NoDownload
    /\ \/ Nearer(DistanceAt(V, a), DistanceAt(T, a))
       \/ V.dl[a] = T.dl[a] /\ Asked(V.out, a) = Asked(T.out, a)

Onward(T, a) == {V \in TableSet : T.out \subseteq V.out /\ Toward(T, V, a)}

\* The kinds of requests that Distance counts.
OfKind(out, a, kind) == {r \in Asked(out, a) : r.kind = kind}
Wasted(out, d, a)    == {r \in Asked(out, a) : r.peer \notin Active(d)}

\* The order of distances, place by place.
LEMMA NearerMeans ==
  ASSUME NEW s, NEW t
  PROVE  Nearer(s, t) <=>
           \/ s[1] < t[1]
           \/ s[1] = t[1] /\ s[2] < t[2]
           \/ s[1] = t[1] /\ s[2] = t[2] /\ s[3] < t[3]
           \/ s[1] = t[1] /\ s[2] = t[2] /\ s[3] = t[3] /\ s[4] < t[4]
<1>1. 1..4 = {1, 2, 3, 4} /\ 1..0 = {} /\ 1..1 = {1} /\ 1..2 = {1, 2} /\ 1..3 = {1, 2, 3}
  OBVIOUS
<1>2. Nearer(s, t) <=> \E i \in {1, 2, 3, 4} : s[i] < t[i] /\ \A j \in 1..(i - 1) : s[j] = t[j]
  BY <1>1 DEF Nearer
<1>3. 1 - 1 = 0 /\ 2 - 1 = 1 /\ 3 - 1 = 2 /\ 4 - 1 = 3
  OBVIOUS
<1>4. QED
  BY <1>1, <1>2, <1>3

\* What Distance counts is finite.
LEMMA DistanceParts ==
  ASSUME NEW out, IsFiniteSet(out), NEW d \in Download, NEW a
  PROVE  /\ IsFiniteSet(Active(d)) /\ Cardinality(Active(d)) \in Nat
         /\ IsFiniteSet(Wasted(out, d, a)) /\ Cardinality(Wasted(out, d, a)) \in Nat
         /\ \A kind : /\ IsFiniteSet(OfKind(out, a, kind))
                      /\ Cardinality(OfKind(out, a, kind)) \in Nat
         /\ Len(d.pending) \in Nat
         /\ Distance(out, d, a)[1] = Cardinality(Active(d))
         /\ Distance(out, d, a)[2] = Cardinality(OfKind(out, a, "manifest"))
         /\ Distance(out, d, a)[3] = Cardinality(Wasted(out, d, a))
         /\ Distance(out, d, a)[4] = 2 * Len(d.pending) + Cardinality(OfKind(out, a, "block"))
<1>1. IsFiniteSet(Active(d))
  <2> DEFINE n == Len(d.providers)
  <2>1. n \in Nat /\ DOMAIN d.providers = 1..n
    BY ProvidersOf
  <2>2. d.providers \in [1..n -> Range(d.providers)]
    <3>1. \A i \in 1..n : d.providers[i] \in Range(d.providers)
      BY <2>1 DEF Range
    <3>2. d.providers \in ProviderLists
      BY DEF Download
    <3>3. QED
      BY <2>1, <3>1, <3>2 DEF ProviderLists
  <2>3. \A p \in Range(d.providers) : \E i \in 1..n : d.providers[i] = p
    BY <2>1 DEF Range
  <2> HIDE DEF n
  <2>4. d.providers \in Surjection(1..n, Range(d.providers))
    BY <2>2, <2>3 DEF Surjection
  <2>5. IsFiniteSet(1..n)
    BY <2>1, FS_Interval
  <2>6. IsFiniteSet(Range(d.providers))
    BY <2>4, <2>5, FS_Surjection
  <2>7. QED
    BY <2>6, FS_Subset DEF Active
<1>2. \A kind : OfKind(out, a, kind) \in SUBSET out
  BY DEF OfKind, Asked
<1>3. Wasted(out, d, a) \in SUBSET out
  BY DEF Wasted, Asked
<1>4. \A S \in SUBSET out : IsFiniteSet(S) /\ Cardinality(S) \in Nat
  BY FS_Subset, FS_CardinalityType
<1>5. Cardinality(Active(d)) \in Nat
  BY <1>1, FS_CardinalityType
<1>6. Len(d.pending) \in Nat
  BY DEF Download
<1>7. QED
  BY <1>1, <1>2, <1>3, <1>4, <1>5, <1>6 DEF Distance, OfKind, Wasted

\* The places of a distance, and that they are numbers.
Measured(out, d, a) ==
  /\ Cardinality(Active(d)) \in Nat
  /\ Cardinality(OfKind(out, a, "manifest")) \in Nat
  /\ Cardinality(Wasted(out, d, a)) \in Nat
  /\ Cardinality(OfKind(out, a, "block")) \in Nat
  /\ Len(d.pending) \in Nat
  /\ Distance(out, d, a)[1] = Cardinality(Active(d))
  /\ Distance(out, d, a)[2] = Cardinality(OfKind(out, a, "manifest"))
  /\ Distance(out, d, a)[3] = Cardinality(Wasted(out, d, a))
  /\ Distance(out, d, a)[4] = 2 * Len(d.pending) + Cardinality(OfKind(out, a, "block"))

\* Each place of a distance is what it counts.
LEMMA DistanceMeasured ==
  ASSUME NEW out, IsFiniteSet(out), NEW d \in Download, NEW a
  PROVE  Measured(out, d, a)
BY DistanceParts DEF Measured

\* Distances are made of numbers, so nearer and nearer is nearer.
LEMMA NearerTransitive ==
  ASSUME NEW s, NEW t, NEW u, \A i \in 1..4 : s[i] \in Nat /\ t[i] \in Nat /\ u[i] \in Nat,
         Nearer(s, t), Nearer(t, u)
  PROVE  Nearer(s, u)
<1>1. \A i \in {1, 2, 3, 4} : s[i] \in Nat /\ t[i] \in Nat /\ u[i] \in Nat
  OBVIOUS
<1>2. QED
  BY <1>1, NearerMeans

\* A distance is four numbers.
LEMMA DistanceNumbers ==
  ASSUME NEW T \in TableSet, NEW a \in Artifacts, T.dl[a] # NoDownload
  PROVE  \A i \in 1..4 : DistanceAt(T, a)[i] \in Nat
<1>1. T.dl[a] \in Download /\ IsFiniteSet(T.out)
  BY DownloadOf DEF TableSet
<1> DEFINE d == T.dl[a]
           D == Distance(T.out, d, a)
<1>2. D[1] \in Nat /\ D[2] \in Nat /\ D[3] \in Nat /\ D[4] \in Nat
  <2>1. Measured(T.out, d, a)
    BY <1>1, DistanceMeasured
  <2> DEFINE j == Len(d.pending)
             k == Cardinality(OfKind(T.out, a, "block"))
  <2>2. j \in Nat /\ k \in Nat /\ D[4] = 2 * j + k
    BY <2>1 DEF Measured
  <2> HIDE DEF D, d, j, k
  <2>3. D[4] \in Nat
    BY <2>2
  <2>4. QED
    BY <2>1, <2>3 DEF Measured, D
<1> HIDE DEF D
<1>3. \A i \in 1..4 : D[i] \in Nat
  BY <1>2
<1>4. QED
  BY <1>3 DEF D, d, DistanceAt

\* Steps toward the end make one.
LEMMA TowardTransitive ==
  ASSUME NEW a \in Artifacts, NEW T \in TableSet, NEW V \in TableSet, NEW W \in TableSet,
         Toward(T, V, a), Toward(V, W, a)
  PROVE  Toward(T, W, a)
<1> SUFFICES ASSUME W.dl[a] # NoDownload
             PROVE  /\ T.dl[a] # NoDownload
                    /\ \/ Nearer(DistanceAt(W, a), DistanceAt(T, a))
                       \/ W.dl[a] = T.dl[a] /\ Asked(W.out, a) = Asked(T.out, a)
  BY DEF Toward
<1>1. V.dl[a] # NoDownload /\ T.dl[a] # NoDownload
  BY DEF Toward
<1>2. ASSUME NEW X, NEW Y, X.dl[a] = Y.dl[a], Asked(X.out, a) = Asked(Y.out, a)
      PROVE  DistanceAt(X, a) = DistanceAt(Y, a)
  BY <1>2 DEF DistanceAt, Distance
<1>3. CASE V.dl[a] = T.dl[a] /\ Asked(V.out, a) = Asked(T.out, a)
  BY <1>1, <1>2, <1>3 DEF Toward
<1>4. CASE W.dl[a] = V.dl[a] /\ Asked(W.out, a) = Asked(V.out, a)
  BY <1>1, <1>2, <1>4 DEF Toward
<1>5. CASE Nearer(DistanceAt(V, a), DistanceAt(T, a)) /\ Nearer(DistanceAt(W, a), DistanceAt(V, a))
  <2>1. \A i \in 1..4 : /\ DistanceAt(W, a)[i] \in Nat /\ DistanceAt(V, a)[i] \in Nat
                        /\ DistanceAt(T, a)[i] \in Nat
    BY <1>1, DistanceNumbers
  <2>2. QED
    BY <1>1, <1>5, <2>1, NearerTransitive
<1>6. QED
  BY <1>1, <1>3, <1>4, <1>5 DEF Toward

\* Onward leads on.
LEMMA OnwardTransitive ==
  ASSUME NEW a \in Artifacts, NEW T \in TableSet, NEW V \in Onward(T, a), NEW W \in Onward(V, a)
  PROVE  W \in Onward(T, a)
<1>1. V \in TableSet /\ W \in TableSet /\ Toward(T, V, a) /\ Toward(V, W, a)
      /\ T.out \subseteq V.out /\ V.out \subseteq W.out
  BY DEF Onward
<1>2. QED
  BY <1>1, TowardTransitive DEF Onward

\* Tables in which another artifact's download and requests changed lead onward.
LEMMA OthersChanged ==
  ASSUME NEW a \in Artifacts, NEW b \in Artifacts \ {a}, NEW T \in TableSet,
         NEW o, NEW e, NEW V, V = [out |-> o, dl |-> [T.dl EXCEPT ![b] = e]],
         Asked(o, a) = Asked(T.out, a)
  PROVE  Toward(T, V, a)
<1>1. T.dl \in [Artifacts -> Download \cup {NoDownload}]
  BY DEF TableSet
<1>2. V.out = o /\ V.dl[a] = T.dl[a]
  BY <1>1
<1>3. QED
  BY <1>2 DEF Toward

\* A request of another artifact is none of this one's.
LEMMA OthersAsked ==
  ASSUME NEW o, NEW s, NEW a, s.artifact # a
  PROVE  Asked(o \cup {s}, a) = Asked(o, a) /\ Asked(o \ {s}, a) = Asked(o, a)
BY DEF Asked

\* Giving a download up ends it and moves no other.
LEMMA WithoutOnward ==
  ASSUME NEW a \in Artifacts, NEW b \in Artifacts, NEW T \in TableSet
  PROVE  Without(T, b) \in Onward(T, a)
<1> DEFINE V == Without(T, b)
<1>1. T.dl \in [Artifacts -> Download \cup {NoDownload}] /\ T = [out |-> T.out, dl |-> T.dl]
      /\ T.out \in SUBSET Requests /\ IsFiniteSet(T.out)
  BY DEF TableSet
<1>2. V = [out |-> T.out, dl |-> [T.dl EXCEPT ![b] = NoDownload]]
  BY <1>1 DEF Without
<1> HIDE DEF V
<1>3. V \in TableSet
  BY <1>1, <1>2, TablesWith
<1>4. V.out = T.out /\ V.dl[b] = NoDownload
  BY <1>1, <1>2
<1>5. Toward(T, V, a)
  <2>1. CASE a = b
    BY <1>4, <2>1 DEF Toward
  <2>2. CASE a # b
    BY <1>2, <2>2, OthersChanged
  <2>3. QED
    BY <2>1, <2>2
<1>6. QED
  BY <1>3, <1>4, <1>5 DEF Onward, V

\* Asking for a block at the front takes it from those that wait: they weigh twice.
LEMMA RequestBlockOnward ==
  ASSUME NEW a \in Artifacts, NEW b \in Artifacts, NEW T \in TableSet
  PROVE  RequestBlock(T, b) \in Onward(T, a)
<1> DEFINE d == T.dl[b]
           V == RequestBlock(T, b)
<1>1. T.dl \in [Artifacts -> Download \cup {NoDownload}]
      /\ T.out \in SUBSET Requests /\ IsFiniteSet(T.out)
  BY DEF TableSet
<1>2. CASE d = NoDownload \/ d.inFlight >= MaxParallel \/ d.pending = <<>>
  <2>1. V = T
    BY <1>2 DEF RequestBlock
  <2>2. QED
    BY <2>1 DEF Onward, Toward
<1>3. CASE d # NoDownload /\ ~ (d.inFlight >= MaxParallel) /\ d.pending # <<>> /\ Active(d) = {}
  <2>1. V = Without(T, b)
    BY <1>3 DEF RequestBlock
  <2>2. QED
    BY <2>1, WithoutOnward
<1>4. CASE d # NoDownload /\ ~ (d.inFlight >= MaxParallel) /\ d.pending # <<>> /\ Active(d) # {}
  <2>1. d \in Download /\ d.next < Len(d.providers)
    BY <1>4, DownloadOf
  <2>2. PICK s \in Requests, e \in Download : BlockAsked(T, b, s, e)
    BY <1>4, RequestBlockAsks
  <2>3. /\ s \notin T.out /\ s.kind = "block" /\ s.peer = Chosen(d) /\ s.artifact = b
        /\ e.next < Len(e.providers) /\ e.providers = d.providers /\ e.failed = d.failed
        /\ e.pending = Tail(d.pending)
        /\ V = [out |-> T.out \cup {s}, dl |-> [T.dl EXCEPT ![b] = e]]
    BY <2>2 DEF BlockAsked
  <2> HIDE DEF V
  <2>4. T.out \cup {s} \in SUBSET Requests /\ IsFiniteSet(T.out \cup {s})
    BY <1>1, FS_AddElement
  <2>5. V \in TableSet
    BY <2>3, <2>4, TablesWith
  <2>6. V.out = T.out \cup {s} /\ V.dl[b] = e
    BY <1>1, <2>3
  <2>7. CASE a # b
    <3>1. Asked(T.out \cup {s}, a) = Asked(T.out, a)
      BY <2>3, <2>7, OthersAsked
    <3>2. Toward(T, V, a)
      BY <2>3, <2>7, <3>1, OthersChanged
    <3>3. T.out \subseteq V.out
      BY <2>6
    <3>4. QED
      BY <2>5, <3>2, <3>3 DEF Onward, V
  <2>8. CASE a = b
    <3>1. Active(e) = Active(d) /\ s.peer \in Active(d)
      BY <1>4, <2>1, <2>3, TurnFound DEF Active
    <3>2. /\ OfKind(V.out, b, "manifest") = OfKind(T.out, b, "manifest")
          /\ OfKind(V.out, b, "block") = OfKind(T.out, b, "block") \cup {s}
          /\ s \notin OfKind(T.out, b, "block")
          /\ Wasted(V.out, e, b) = Wasted(T.out, d, b)
      BY <2>3, <2>6, <3>1 DEF OfKind, Wasted, Asked
    <3>3. Len(e.pending) = Len(d.pending) - 1 /\ Len(d.pending) \in Nat
      <4>1. d.pending \in Seq(Blocks)
        BY <2>1 DEF Download
      <4>2. QED
        BY <1>4, <2>3, <4>1
    <3>4. /\ Cardinality(OfKind(V.out, b, "block")) = Cardinality(OfKind(T.out, b, "block")) + 1
          /\ Cardinality(OfKind(T.out, b, "block")) \in Nat
      <4>1. IsFiniteSet(OfKind(T.out, b, "block")) /\ Cardinality(OfKind(T.out, b, "block")) \in Nat
        BY <1>1, <2>1, DistanceParts
      <4>2. QED
        BY <3>2, <4>1, FS_AddElement
    <3> DEFINE x == Distance(V.out, e, b)
               y == Distance(T.out, d, b)
    <3>5. Measured(V.out, e, b) /\ Measured(T.out, d, b)
      <4>1. IsFiniteSet(V.out) /\ IsFiniteSet(T.out) /\ d \in Download
        BY <1>1, <2>1, <2>4, <2>6
      <4>2. QED
        BY <4>1, DistanceMeasured
    <3>6. /\ x[1] = y[1] /\ x[2] = y[2] /\ x[3] = y[3]
          /\ x[4] = 2 * Len(e.pending) + Cardinality(OfKind(V.out, b, "block"))
          /\ y[4] = 2 * Len(d.pending) + Cardinality(OfKind(T.out, b, "block"))
      <4>1. /\ x[1] = Cardinality(Active(e)) /\ x[3] = Cardinality(Wasted(V.out, e, b))
            /\ x[2] = Cardinality(OfKind(V.out, b, "manifest"))
            /\ x[4] = 2 * Len(e.pending) + Cardinality(OfKind(V.out, b, "block"))
        BY <3>5 DEF Measured
      <4>2. /\ y[1] = Cardinality(Active(d)) /\ y[3] = Cardinality(Wasted(T.out, d, b))
            /\ y[2] = Cardinality(OfKind(T.out, b, "manifest"))
            /\ y[4] = 2 * Len(d.pending) + Cardinality(OfKind(T.out, b, "block"))
        BY <3>5 DEF Measured
      <4> HIDE DEF x, y, d
      <4>3. QED
        BY <3>1, <3>2, <4>1, <4>2
    <3> HIDE DEF x, y
    <3>7. x[4] < y[4]
      <4>1. PICK p \in Nat, k \in Nat :
              p = Len(d.pending) /\ k = Cardinality(OfKind(T.out, b, "block"))
        BY <3>3, <3>4
      <4>2. x[4] = 2 * (p - 1) + (k + 1) /\ y[4] = 2 * p + k
        BY <3>3, <3>4, <3>6, <4>1
      <4>3. 2 * (p - 1) + (k + 1) < 2 * p + k
        OBVIOUS
      <4>4. QED
        BY <4>2, <4>3
    <3>8. Nearer(x, y)
      BY <3>6, <3>7, NearerMeans
    <3>9. Toward(T, V, b)
      BY <1>4, <2>6, <3>8 DEF Toward, DistanceAt, x, y
    <3>10. QED
      BY <2>5, <2>6, <2>8, <3>9 DEF Onward, V
  <2>9. QED
    BY <2>7, <2>8
<1>5. QED
  BY <1>2, <1>3, <1>4

\* request_artifact_blocks.
LEMMA RequestBlocksOnward ==
  ASSUME NEW a \in Artifacts, NEW b \in Artifacts, NEW T \in TableSet
  PROVE  RequestBlocks(T, b) \in Onward(T, a)
<1> DEFINE U == Onward(T, a)
<1>1. T \in U
  BY DEF Onward, Toward
<1>2. ASSUME NEW t \in U PROVE RequestBlock(t, b) \in U
  <2>1. t \in TableSet
    BY DEF Onward
  <2>2. QED
    BY <2>1, RequestBlockOnward, OnwardTransitive
<1> HIDE DEF U
<1>3. PICK t \in U : RequestBlocks(T, b) = RequestBlock(t, b)
  BY <1>1, <1>2, RequestBlocksLoop
<1>4. QED
  BY <1>2, <1>3 DEF U

\* request_artifact_manifest sends one request more, of its own artifact.
LEMMA RequestManifestOthers ==
  ASSUME NEW a \in Artifacts, NEW b \in Artifacts, NEW T \in TableSet
  PROVE  /\ RequestManifest(T, b) \in TableSet /\ T.out \subseteq RequestManifest(T, b).out
         /\ a # b => Toward(T, RequestManifest(T, b), a)
<1> DEFINE d == T.dl[b]
           V == RequestManifest(T, b)
<1>1. T.dl \in [Artifacts -> Download \cup {NoDownload}]
      /\ T.out \in SUBSET Requests /\ IsFiniteSet(T.out)
  BY DEF TableSet
<1>2. CASE d = NoDownload \/ Active(d) = {}
  <2>1. V = Without(T, b)
    BY <1>2 DEF RequestManifest
  <2>2. V \in Onward(T, a)
    BY <2>1, WithoutOnward
  <2>3. QED
    BY <2>2 DEF Onward
<1>3. CASE d # NoDownload /\ Active(d) # {}
  <2>1. PICK s \in Requests :
          /\ s \notin T.out /\ s.kind = "manifest" /\ s.peer = Chosen(d) /\ s.artifact = b
          /\ V = [out |-> T.out \cup {s}, dl |-> [T.dl EXCEPT ![b] = Moved(d)]]
    BY <1>3, RequestManifestAsks
  <2>2. Moved(d) \in Download /\ Moved(d).next < Len(Moved(d).providers)
    BY <1>3, DownloadOf, MovedFields
  <2>3. T.out \cup {s} \in SUBSET Requests /\ IsFiniteSet(T.out \cup {s})
    BY <1>1, FS_AddElement
  <2> HIDE DEF V
  <2>4. V \in TableSet
    BY <2>1, <2>2, <2>3, TablesWith
  <2>5. T.out \subseteq V.out
    BY <2>1
  <2>6. ASSUME a # b PROVE Toward(T, V, a)
    <3>1. Asked(T.out \cup {s}, a) = Asked(T.out, a)
      BY <2>1, <2>6, OthersAsked
    <3>2. QED
      BY <2>1, <2>6, <3>1, OthersChanged
  <2>7. QED
    BY <2>4, <2>5, <2>6 DEF V
<1>4. QED
  BY <1>2, <1>3

\* One element less, and one for another.
LEMMA OneLess ==
  ASSUME NEW S, IsFiniteSet(S), NEW r \in S
  PROVE  /\ Cardinality(S \ {r}) < Cardinality(S)
         /\ \A s : s \notin S \ {r} => Cardinality((S \ {r}) \cup {s}) = Cardinality(S)
<1>1. Cardinality(S) \in Nat
  BY FS_CardinalityType
<1>2. IsFiniteSet(S \ {r}) /\ Cardinality(S \ {r}) = Cardinality(S) - 1
  BY FS_RemoveElement
<1>3. ASSUME NEW s, s \notin S \ {r} PROVE Cardinality((S \ {r}) \cup {s}) = Cardinality(S)
  <2>1. Cardinality((S \ {r}) \cup {s}) = Cardinality(S \ {r}) + 1
    BY <1>2, <1>3, FS_AddElement
  <2>2. QED
    BY <1>1, <1>2, <2>1
<1>4. QED
  BY <1>1, <1>2, <1>3

\* A download that gives a provider up has one less to turn to, unless it had already.
LEMMA GivenUp ==
  ASSUME NEW d \in Download, NEW e \in Download, NEW p,
         e.failed = d.failed \cup {p}, e.providers = d.providers
  PROVE  /\ p \notin Active(e)
         /\ p \in Active(d) => Cardinality(Active(e)) < Cardinality(Active(d))
         /\ p \notin Active(d) => Active(e) = Active(d)
<1>1. Active(e) = Active(d) \ {p}
  BY DEF Active
<1>2. IsFiniteSet(Active(d)) /\ Cardinality(Active(d)) \in Nat
  BY FS_EmptySet, DistanceParts
<1>3. p \in Active(d) => Cardinality(Active(e)) = Cardinality(Active(d)) - 1
  BY <1>1, <1>2, FS_RemoveElement
<1>4. QED
  BY <1>1, <1>2, <1>3

\* A failed request is gone and its download has given its provider up: another artifact is
\* where it was, its own has a provider less, or a request less to one given up before.
LEMMA FallenToward ==
  ASSUME NEW a \in Artifacts, NEW T \in TableSet, NEW r \in Requests,
         NEW e \in Download, FailsInto(T, r, e), r.artifact \in Artifacts,
         T.dl[r.artifact] # NoDownload
  PROVE  /\ Fallen(T, r, e) \in TableSet /\ T.out \ {r} \subseteq Fallen(T, r, e).out
         /\ a # r.artifact => Toward(T, Fallen(T, r, e), a)
         /\ a = r.artifact /\ r \in T.out /\ r.kind = "block" => Toward(T, Fallen(T, r, e), a)
<1> DEFINE b == r.artifact
           d == T.dl[b]
           B == Fallen(T, r, e)
<1>1. T.dl \in [Artifacts -> Download \cup {NoDownload}]
      /\ T.out \in SUBSET Requests /\ IsFiniteSet(T.out)
  BY DEF TableSet
<1>2. d \in Download /\ d.next < Len(d.providers)
  BY DownloadOf
<1>3. e.failed = d.failed \cup {r.peer} /\ e.providers = d.providers /\ e.next = d.next
  BY DEF FailsInto
<1>4. B = [out |-> T.out \ {r}, dl |-> [T.dl EXCEPT ![b] = e]]
  BY DEF Fallen
<1> HIDE DEF B
<1>5. B.out = T.out \ {r} /\ B.dl[b] = e
  BY <1>1, <1>4
<1>6. T.out \ {r} \in SUBSET Requests /\ IsFiniteSet(T.out \ {r}) /\ e.next < Len(e.providers)
  BY <1>1, <1>2, <1>3, FS_Subset
<1>7. B \in TableSet
  BY <1>4, <1>6, TablesWith
<1>8. ASSUME a # b PROVE Toward(T, B, a)
  <2>1. Asked(T.out \ {r}, a) = Asked(T.out, a)
    BY <1>8, OthersAsked
  <2>2. QED
    BY <1>4, <1>8, <2>1, OthersChanged
<1>9. ASSUME a = b, r \in T.out, r.kind = "block" PROVE Toward(T, B, a)
  <2> DEFINE x == Distance(B.out, e, b)
             y == Distance(T.out, d, b)
  <2>1. CASE r.peer \in Active(d)
    <3>1. Cardinality(Active(e)) < Cardinality(Active(d))
      BY <1>2, <1>3, <2>1, GivenUp
    <3>2. x[1] = Cardinality(Active(e)) /\ y[1] = Cardinality(Active(d))
      BY <1>1, <1>2, <1>5, <1>6, DistanceParts
    <3> HIDE DEF x, y
    <3>3. Nearer(x, y)
      BY <3>1, <3>2, NearerMeans
    <3>4. QED
      BY <1>5, <1>9, <3>3 DEF Toward, DistanceAt, x, y
  <2>2. CASE r.peer \notin Active(d)
    <3>1. Active(e) = Active(d)
      BY <1>2, <1>3, <2>2, GivenUp
    <3>2. /\ OfKind(B.out, b, "manifest") = OfKind(T.out, b, "manifest")
          /\ Wasted(B.out, e, b) = Wasted(T.out, d, b) \ {r} /\ r \in Wasted(T.out, d, b)
      BY <1>5, <1>9, <2>2, <3>1 DEF OfKind, Wasted, Asked
    <3>3. IsFiniteSet(Wasted(T.out, d, b)) /\ Cardinality(Wasted(T.out, d, b)) \in Nat
      BY <1>1, <1>2, DistanceParts
    <3>4. Cardinality(Wasted(B.out, e, b)) < Cardinality(Wasted(T.out, d, b))
      BY <3>2, <3>3, OneLess
    <3>5. x[1] = y[1] /\ x[2] = y[2]
      BY <1>1, <1>2, <1>5, <1>6, <3>1, <3>2, DistanceParts
    <3>6. x[3] = Cardinality(Wasted(B.out, e, b)) /\ y[3] = Cardinality(Wasted(T.out, d, b))
      BY <1>1, <1>2, <1>5, <1>6, DistanceParts
    <3> HIDE DEF x, y
    <3>7. Nearer(x, y)
      BY <3>4, <3>5, <3>6, NearerMeans
    <3>8. QED
      BY <1>5, <1>9, <3>7 DEF Toward, DistanceAt, x, y
  <2>3. QED
    BY <2>1, <2>2
<1>10. QED
  BY <1>5, <1>7, <1>8, <1>9 DEF B

\* A manifest asked for again takes the place of the one that failed, but its provider is
\* one that has not been given up.
LEMMA SwappedToward ==
  ASSUME NEW T \in TableSet, NEW a \in Artifacts, NEW d, d = T.dl[a], d # NoDownload,
         NEW r \in T.out, r.kind = "manifest", r.artifact = a,
         NEW f \in Download, f.failed = d.failed \cup {r.peer}, f.providers = d.providers,
         NEW s, s \notin T.out \ {r}, s.kind = "manifest", s.artifact = a, s.peer \in Active(f),
         NEW V, V.out = (T.out \ {r}) \cup {s}, V.dl[a] = f
  PROVE  Toward(T, V, a)
<1>1. d \in Download /\ IsFiniteSet(T.out)
  BY DownloadOf DEF TableSet
<1>2. IsFiniteSet(V.out)
  <2>1. IsFiniteSet(T.out \ {r})
    BY <1>1, FS_Difference
  <2> DEFINE O == T.out \ {r}
  <2>2. V.out = O \cup {s}
    OBVIOUS
  <2>3. IsFiniteSet(O)
    BY <2>1
  <2> HIDE DEF O
  <2>4. QED
    BY <2>2, <2>3, FS_AddElement
<1> DEFINE x == Distance(V.out, f, a)
           y == Distance(T.out, d, a)
<1>3. /\ x[1] = Cardinality(Active(f)) /\ y[1] = Cardinality(Active(d))
      /\ x[2] = Cardinality(OfKind(V.out, a, "manifest"))
      /\ y[2] = Cardinality(OfKind(T.out, a, "manifest"))
      /\ x[3] = Cardinality(Wasted(V.out, f, a)) /\ y[3] = Cardinality(Wasted(T.out, d, a))
  BY <1>1, <1>2, DistanceParts
<1> SUFFICES Nearer(x, y)
  BY DEF Toward, DistanceAt
<1> HIDE DEF x, y
<1>4. CASE r.peer \in Active(d)
  <2>1. Cardinality(Active(f)) < Cardinality(Active(d))
    BY <1>1, <1>4, GivenUp
  <2>2. QED
    BY <1>3, <2>1, NearerMeans
<1>5. CASE r.peer \notin Active(d)
  <2>1. Active(f) = Active(d)
    BY <1>1, <1>5, GivenUp
  <2>2. /\ OfKind(V.out, a, "manifest") = (OfKind(T.out, a, "manifest") \ {r}) \cup {s}
        /\ r \in OfKind(T.out, a, "manifest")
        /\ s \notin OfKind(T.out, a, "manifest") \ {r}
    BY DEF OfKind, Asked
  <2>3. Wasted(V.out, f, a) = Wasted(T.out, d, a) \ {r} /\ r \in Wasted(T.out, d, a)
    BY <1>5, <2>1 DEF Wasted, Asked
  <2>4. IsFiniteSet(OfKind(T.out, a, "manifest")) /\ IsFiniteSet(Wasted(T.out, d, a))
    BY <1>1, DistanceParts
  <2>5. Cardinality(OfKind(V.out, a, "manifest")) = Cardinality(OfKind(T.out, a, "manifest"))
    <3> DEFINE S == OfKind(T.out, a, "manifest")
    <3>1. \A q : q \notin S \ {r} => Cardinality((S \ {r}) \cup {q}) = Cardinality(S)
      BY <2>2, <2>4, OneLess
    <3> HIDE DEF S
    <3>2. Cardinality((S \ {r}) \cup {s}) = Cardinality(S)
      BY <2>2, <3>1 DEF S
    <3>3. QED
      BY <2>2, <3>2 DEF S
  <2>6. Cardinality(Wasted(V.out, f, a)) < Cardinality(Wasted(T.out, d, a))
    BY <2>3, <2>4, OneLess
  <2>7. QED
    BY <1>3, <2>1, <2>5, <2>6, NearerMeans
<1>6. QED
  BY <1>4, <1>5

\* The manifest of a failed request is asked for again, or the download ends.
LEMMA ManifestAskedAgain ==
  ASSUME NEW T \in TableSet, NEW r \in T.out, NEW e \in Download, FailsInto(T, r, e),
         r.kind = "manifest", NEW a \in Artifacts, a = r.artifact, T.dl[a] # NoDownload,
         NEW B, B = Fallen(T, r, e), NEW V, V = RequestManifest(B, a)
  PROVE  Toward(T, V, a)
<1>1. T.dl \in [Artifacts -> Download \cup {NoDownload}] /\ r \in Requests
  BY DEF TableSet
<1>2. e.failed = T.dl[a].failed \cup {r.peer} /\ e.providers = T.dl[a].providers
  BY DEF FailsInto
<1>3. B \in TableSet
  BY <1>1, FallenToward
<1>4. B.out = T.out \ {r} /\ B.dl[a] = e /\ B.dl \in [Artifacts -> Download \cup {NoDownload}]
      /\ B = [out |-> B.out, dl |-> B.dl]
  BY <1>1 DEF Fallen
<1>5. CASE e = NoDownload \/ Active(e) = {}
  <2>1. V = Without(B, a)
    BY <1>4, <1>5 DEF RequestManifest
  <2>2. V = [out |-> B.out, dl |-> [B.dl EXCEPT ![a] = NoDownload]]
    BY <1>4, <2>1 DEF Without
  <2>3. V.dl[a] = NoDownload
    BY <1>4, <2>2
  <2>4. QED
    BY <2>3 DEF Toward
<1>6. CASE e # NoDownload /\ Active(e) # {}
  <2>1. B.dl[a] # NoDownload /\ Active(B.dl[a]) # {}
    BY <1>4, <1>6
  <2>2. PICK s \in Requests :
          /\ s \notin B.out /\ s.kind = "manifest" /\ s.peer = Chosen(B.dl[a]) /\ s.artifact = a
          /\ RequestManifest(B, a) =
               [out |-> B.out \cup {s}, dl |-> [B.dl EXCEPT ![a] = Moved(B.dl[a])]]
    BY <1>3, <2>1, RequestManifestAsks
  <2> DEFINE f == Moved(e)
  <2>3. e.next < Len(e.providers)
    BY <1>3, <1>4, <2>1, DownloadOf
  <2>4. f \in Download /\ f.failed = e.failed /\ f.providers = e.providers /\ s.peer \in Active(e)
    BY <1>4, <1>6, <2>2, <2>3, MovedFields, TurnFound
  <2>5. V = [out |-> (T.out \ {r}) \cup {s}, dl |-> [B.dl EXCEPT ![a] = f]]
    BY <1>4, <2>2
  <2> HIDE DEF f
  <2>6. V.out = (T.out \ {r}) \cup {s} /\ V.dl[a] = f
    BY <1>4, <2>5
  <2>7. s.peer \in Active(f)
    BY <2>4 DEF Active
  <2>8. f.failed = T.dl[a].failed \cup {r.peer} /\ f.providers = T.dl[a].providers
    BY <1>2, <2>4
  <2>9. s \notin T.out \ {r} /\ s.kind = "manifest" /\ s.artifact = a /\ r.artifact = a
    BY <1>4, <2>2
  <2>10. QED
    BY <2>4, <2>6, <2>7, <2>8, <2>9, SwappedToward
<1>7. QED
  BY <1>5, <1>6

\* handle_artifact_request_failure, for a request that was out.
LEMMA RequestFailedOnward ==
  ASSUME NEW a \in Artifacts, NEW T \in TableSet, NEW r \in Requests,
         NEW V, V = RequestFailed(Answered(T, r), r)
  PROVE  V \in TableSet /\ T.out \ {r} \subseteq V.out /\ (r \in T.out => Toward(T, V, a))
<1>1. /\ T.dl \in [Artifacts -> Download \cup {NoDownload}] /\ T = [out |-> T.out, dl |-> T.dl]
      /\ T.out \in SUBSET Requests /\ IsFiniteSet(T.out)
  BY DEF TableSet
<1>2. CASE r.kind = "inventory" \/ T.dl[r.artifact] = NoDownload
  <2>1. Answered(T, r) = [out |-> T.out \ {r}, dl |-> T.dl]
    BY <1>1 DEF Answered
  <2>2. V = [out |-> T.out \ {r}, dl |-> T.dl]
    BY <1>2, <2>1 DEF RequestFailed, Retry
  <2>3. T.out \ {r} \in SUBSET Requests /\ IsFiniteSet(T.out \ {r})
    BY <1>1, FS_Subset
  <2>4. V.out = T.out \ {r} /\ V.dl = T.dl
        /\ V \in [out : SUBSET Requests, dl : [Artifacts -> Download \cup {NoDownload}]]
    BY <1>1, <2>2, <2>3
  <2>5. V \in TableSet
    BY <2>3, <2>4 DEF TableSet
  <2>6. Toward(T, V, a)
    <3>1. CASE T.dl[a] = NoDownload
      BY <2>4, <3>1 DEF Toward
    <3>2. CASE T.dl[a] # NoDownload
      <4>1. r.artifact # a
        BY <1>2, <3>2, DownloadAssumptions DEF Requests
      <4>2. Asked(T.out \ {r}, a) = Asked(T.out, a)
        BY <4>1, OthersAsked
      <4>3. QED
        BY <2>4, <4>2 DEF Toward
    <3>3. QED
      BY <3>1, <3>2
  <2>7. QED
    BY <2>4, <2>5, <2>6
<1>3. CASE r.kind # "inventory" /\ T.dl[r.artifact] # NoDownload
  <2> DEFINE b == r.artifact
  <2>1. b \in Artifacts
    BY <1>3, RequestFails
  <2>2. PICK e \in Download : FailsInto(T, r, e)
    BY <1>3, RequestFails
  <2> DEFINE B == Fallen(T, r, e)
  <2>3. \/ r.kind = "manifest" /\ V = RequestManifest(B, b)
        \/ /\ r.kind = "block"
           /\ V = IF Active(e) = {} THEN Without(B, b) ELSE RequestBlocks(B, b)
    BY <2>2 DEF FailsInto
  <2>4. /\ B \in TableSet /\ T.out \ {r} \subseteq B.out
        /\ a # b => Toward(T, B, a)
        /\ a = b /\ r \in T.out /\ r.kind = "block" => Toward(T, B, a)
    BY <1>3, <2>1, <2>2, FallenToward
  <2>5. CASE r.kind = "manifest"
    <3>1. V = RequestManifest(B, b)
      BY <2>3, <2>5
    <3>2. V \in TableSet /\ B.out \subseteq V.out /\ (a # b => Toward(B, V, a))
      BY <2>1, <2>4, <3>1, RequestManifestOthers
    <3>3. a # b => Toward(T, V, a)
      BY <2>4, <3>2, TowardTransitive
    <3>4. ASSUME a = b, r \in T.out PROVE Toward(T, V, a)
      BY <1>3, <2>2, <2>5, <3>1, <3>4, ManifestAskedAgain
    <3>5. QED
      BY <2>4, <3>2, <3>3, <3>4
  <2>6. CASE r.kind = "block"
    <3>1. V \in Onward(B, a)
      BY <2>1, <2>3, <2>4, <2>6, WithoutOnward, RequestBlocksOnward
    <3>2. V \in TableSet /\ B.out \subseteq V.out /\ Toward(B, V, a)
      BY <3>1 DEF Onward
    <3>3. r \in T.out => Toward(T, B, a)
      BY <2>4, <2>6
    <3>4. r \in T.out => Toward(T, V, a)
      BY <2>4, <3>2, <3>3, TowardTransitive
    <3>5. QED
      BY <2>4, <3>2, <3>4
  <2>7. QED
    BY <2>3, <2>5, <2>6
<1>4. QED
  BY <1>2, <1>3

\* The second half of fail_artifact_provider, for one download.
LEMMA DroppedFromOnward ==
  ASSUME NEW a \in Artifacts, NEW b \in Artifacts, NEW p \in Peers, NEW T \in TableSet
  PROVE  DroppedFrom(T, b, p) \in Onward(T, a)
<1> DEFINE d == T.dl[b]
<1>1. T.dl \in [Artifacts -> Download \cup {NoDownload}]
      /\ T.out \in SUBSET Requests /\ IsFiniteSet(T.out)
  BY DEF TableSet
<1>2. CASE d = NoDownload \/ p \notin Range(d.providers)
  <2>1. DroppedFrom(T, b, p) = T
    BY <1>2 DEF DroppedFrom
  <2>2. QED
    BY <2>1 DEF Onward, Toward
<1>3. CASE d # NoDownload /\ p \in Range(d.providers)
  <2>1. d \in Download /\ d.next < Len(d.providers)
    BY <1>3, DownloadOf
  <2>2. PICK e \in Download : DropsInto(T, b, p, e)
    BY <1>3, ProviderDropped
  <2> DEFINE M == [out |-> T.out, dl |-> [T.dl EXCEPT ![b] = e]]
  <2>3. /\ e = [d EXCEPT !.failed = @ \cup {p}]
        /\ e.failed = d.failed \cup {p} /\ e.providers = d.providers /\ e.next = d.next
        /\ DroppedFrom(T, b, p) = IF Active(e) = {} THEN Without(M, b)
                                  ELSE IF e.known THEN RequestBlocks(M, b) ELSE M
    BY <2>2 DEF DropsInto
  <2>4. M \in TableSet
    BY <1>1, <2>1, <2>3, TablesWith
  <2>5. M.out = T.out /\ M.dl[b] = e
    BY <1>1
  <2>6. M = [out |-> T.out, dl |-> [T.dl EXCEPT ![b] = e]]
    OBVIOUS
  <2> HIDE DEF M
  <2>7. Toward(T, M, a)
    <3>1. CASE a # b
      BY <2>6, <3>1, OthersChanged
    <3>2. CASE a = b /\ p \in Active(d)
      <4> DEFINE x == Distance(M.out, e, b)
                 y == Distance(T.out, d, b)
      <4>1. Cardinality(Active(e)) < Cardinality(Active(d))
        <5>1. d \in Download /\ e.failed = d.failed \cup {p} /\ e.providers = d.providers
              /\ p \in Active(d)
          BY <2>1, <2>3, <3>2
        <5> HIDE DEF d
        <5>2. QED
          BY <5>1, GivenUp
      <4>2. x[1] = Cardinality(Active(e)) /\ y[1] = Cardinality(Active(d))
        BY <1>1, <2>1, <2>5, DistanceParts
      <4> HIDE DEF x, y
      <4>3. Nearer(x, y)
        BY <4>1, <4>2, NearerMeans
      <4>4. QED
        BY <1>3, <2>5, <3>2, <4>3 DEF Toward, DistanceAt, x, y
    <3>3. CASE a = b /\ p \notin Active(d)
      <4>1. p \in d.failed
        BY <1>3, <3>3 DEF Active
      <4>2. e = d
        BY <2>1, <2>3, <4>1 DEF Download
      <4>3. QED
        BY <1>3, <2>5, <3>3, <4>2 DEF Toward
    <3>4. QED
      BY <3>1, <3>2, <3>3
  <2>8. M \in Onward(T, a)
    BY <2>4, <2>5, <2>7 DEF Onward
  <2>9. M \in Onward(M, a)
    BY <2>4 DEF Onward, Toward
  <2>10. DroppedFrom(T, b, p) \in Onward(M, a)
    BY <2>3, <2>4, <2>9, WithoutOnward, RequestBlocksOnward
  <2>11. QED
    BY <2>8, <2>10, OnwardTransitive
<1>4. QED
  BY <1>2, <1>3

\* fail_artifact_provider: a request that fails is still out when its turn comes.
LEMMA ProviderFailedToward ==
  ASSUME NEW a \in Artifacts, NEW p \in Peers, NEW T \in TableSet, NEW order \in Orders(T, p)
  PROVE  ProviderFailed(T, p, order) \in TableSet /\ Toward(T, ProviderFailed(T, p, order), a)
<1> DEFINE R == RequestsTo(T, p)
           n == Len(order)
<1>1. IsFiniteSet(R) /\ R \subseteq Requests /\ R \subseteq T.out
  BY FS_Subset DEF RequestsTo, TableSet
<1>2. /\ order \in [1..Cardinality(R) -> R]
      /\ \A i, j \in 1..Cardinality(R) : i # j => order[i] # order[j]
  BY DEF Orders, SetToSeqs
<1>3. Cardinality(R) \in Nat
  BY <1>1, FS_CardinalityType
<1> HIDE DEF R
<1>4. /\ n = Cardinality(R) /\ n \in Nat /\ order \in Seq(Requests)
      /\ \A i \in 1..n : order[i] \in Requests /\ order[i] \in T.out
      /\ \A i \in 1..n, j \in 1..n : order[i] = order[j] => i = j
  BY <1>1, <1>2, <1>3
<1>5. \A t \in TableSet, r \in Requests : RequestFailed(Answered(t, r), r) \in TableSet
  BY RequestFailedOnward
<1>6. PICK f \in [0..n -> TableSet] :
        /\ f[0] = T /\ f[n] = RequestsFailed(T, order)
        /\ \A i \in 1..n : f[i] = RequestFailed(Answered(f[i - 1], order[i]), order[i])
  <2>1. OneByOne(TableSet, T, order) # {}
    BY <1>4, <1>5, RequestsFailedSteps
  <2>2. QED
    BY <2>1 DEF OneByOne
<1> HIDE DEF n
<1> DEFINE K == {i \in Nat : i <= n => /\ Toward(T, f[i], a)
                                       /\ \A j \in (i + 1)..n : order[j] \in f[i].out}
<1>7. 0 \in K
  <2>1. Toward(T, f[0], a)
    BY <1>6 DEF Toward
  <2>2. QED
    BY <1>4, <1>6, <2>1
<1>8. ASSUME NEW i \in Nat, i \in K PROVE i + 1 \in K
  <2> SUFFICES ASSUME i + 1 <= n
               PROVE  /\ Toward(T, f[i + 1], a)
                      /\ \A j \in (i + 2)..n : order[j] \in f[i + 1].out
    <3>1. (i + 1) + 1 = i + 2
      OBVIOUS
    <3>2. QED
      BY <3>1
  <2> DEFINE r == order[i + 1]
  <2>1. i \in 0..n /\ i + 1 \in 0..n /\ i + 1 \in 1..n /\ i + 1 \in (i + 1)..n /\ (i + 1) - 1 = i
    BY <1>4
  <2>2. Toward(T, f[i], a) /\ \A j \in (i + 1)..n : order[j] \in f[i].out
    BY <1>4, <1>8, <2>1
  <2>3. f[i + 1] = RequestFailed(Answered(f[i], r), r) /\ f[i] \in TableSet /\ r \in Requests
    BY <1>4, <1>6, <2>1
  <2>4. r \in f[i].out
    BY <2>1, <2>2
  <2> HIDE DEF r
  <2>5. f[i + 1] \in TableSet /\ f[i].out \ {r} \subseteq f[i + 1].out /\ Toward(f[i], f[i + 1], a)
    BY <2>3, <2>4, RequestFailedOnward
  <2>6. Toward(T, f[i + 1], a)
    BY <2>2, <2>3, <2>5, TowardTransitive
  <2>7. ASSUME NEW j \in (i + 2)..n PROVE order[j] \in f[i + 1].out
    <3>1. j \in (i + 1)..n /\ j \in 1..n /\ j # i + 1
      BY <1>4
    <3>2. order[j] # r /\ order[j] \in f[i].out
      BY <1>4, <2>1, <2>2, <3>1 DEF r
    <3>3. QED
      BY <2>5, <3>2
  <2>8. QED
    BY <2>6, <2>7
<1>9. Toward(T, f[n], a) /\ f[n] \in TableSet
  <2> HIDE DEF K
  <2>1. Nat \subseteq K
    BY <1>7, <1>8, Induction
  <2>2. n \in K /\ n \in 0..n
    BY <1>4, <2>1
  <2>3. QED
    BY <1>4, <1>6, <2>2 DEF K
<1>10. DroppedEverywhere(f[n], p) \in Onward(f[n], a)
  <2> DEFINE U == Onward(f[n], a)
  <2>1. f[n] \in U
    BY <1>9 DEF Onward, Toward
  <2>2. ASSUME NEW t \in U, NEW b \in Artifacts PROVE DroppedFrom(t, b, p) \in U
    <3>1. t \in TableSet
      BY DEF Onward
    <3>2. QED
      BY <1>9, <3>1, DroppedFromOnward, OnwardTransitive
  <2> HIDE DEF U
  <2>3. DroppedEverywhere(f[n], p) \in U
    BY <2>1, <2>2, DroppedEverywhereLoop
  <2>4. QED
    BY <2>3 DEF U
<1>11. QED
  <2>1. ProviderFailed(T, p, order) = DroppedEverywhere(f[n], p)
    BY <1>6 DEF ProviderFailed
  <2>2. ProviderFailed(T, p, order) \in TableSet /\ Toward(f[n], ProviderFailed(T, p, order), a)
    BY <1>10, <2>1 DEF Onward
  <2>3. QED
    BY <1>9, <2>2, TowardTransitive

\* An answer to a request that concerns no download moves none.
LEMMA AnsweredElsewhere ==
  ASSUME NEW a \in Artifacts, NEW T \in TableSet, NEW r \in T.out,
         r.kind = "inventory" \/ T.dl[r.artifact] = NoDownload
  PROVE  Answered(T, r) \in TableSet /\ Toward(T, Answered(T, r), a)
<1>1. r \in Requests /\ Answered(T, r).dl = T.dl
  BY DEF TableSet, Answered
<1>2. RequestFailed(Answered(T, r), r) = Answered(T, r)
  BY <1>1 DEF RequestFailed, Retry
<1>3. QED
  BY <1>1, <1>2, RequestFailedOnward

\* An answer that ends its download moves no other.
LEMMA AnsweredEnds ==
  ASSUME NEW a \in Artifacts, NEW T \in TableSet, NEW r \in T.out, r.kind # "inventory",
         NEW V, V = Without(Answered(T, r), r.artifact)
  PROVE  V \in TableSet /\ Toward(T, V, a)
<1> DEFINE b == r.artifact
<1>1. /\ T.dl \in [Artifacts -> Download \cup {NoDownload}] /\ T = [out |-> T.out, dl |-> T.dl]
      /\ T.out \in SUBSET Requests /\ IsFiniteSet(T.out) /\ b \in Artifacts
  BY DownloadAssumptions DEF TableSet, Requests
<1>2. T.out \ {r} \in SUBSET Requests /\ IsFiniteSet(T.out \ {r})
  BY <1>1, FS_Subset
<1>3. V = [out |-> T.out \ {r}, dl |-> [T.dl EXCEPT ![b] = NoDownload]]
  BY <1>1 DEF Answered, Without
<1> HIDE DEF b
<1>4. V \in TableSet
  <2> DEFINE o == T.out \ {r}
  <2>1. o \in SUBSET Requests /\ IsFiniteSet(o) /\ b \in Artifacts
        /\ V = [out |-> o, dl |-> [T.dl EXCEPT ![b] = NoDownload]]
    BY <1>1, <1>2, <1>3
  <2> HIDE DEF o
  <2>2. QED
    BY <2>1, TablesWith
<1>5. CASE a = b
  <2>1. V.dl[b] = NoDownload
    BY <1>1, <1>3
  <2>2. QED
    BY <1>4, <1>5, <2>1 DEF Toward
<1>6. CASE a # b
  <2>1. Asked(T.out \ {r}, a) = Asked(T.out, a)
    BY <1>6, OthersAsked DEF b
  <2>2. QED
    BY <1>1, <1>3, <1>4, <1>6, <2>1, OthersChanged
<1>7. QED
  BY <1>5, <1>6

\* A manifest that is taken, whatever it makes wait, and a block that is taken, bring their
\* download nearer.
LEMMA AnsweredTaken ==
  ASSUME NEW a \in Artifacts, NEW T \in TableSet, NEW r \in T.out, NEW b \in Artifacts,
         b = r.artifact, NEW d, d = T.dl[b], d # NoDownload,
         NEW e \in Download, e.providers = d.providers, e.failed = d.failed, e.next = d.next,
         r.kind = "manifest" \/ (r.kind = "block" /\ e.pending = d.pending),
         NEW V, V = [out |-> T.out \ {r}, dl |-> [T.dl EXCEPT ![b] = e]]
  PROVE  V \in TableSet /\ Toward(T, V, a)
<1>1. /\ T.dl \in [Artifacts -> Download \cup {NoDownload}]
      /\ T.out \in SUBSET Requests /\ IsFiniteSet(T.out)
  BY DEF TableSet
<1>2. d \in Download /\ d.next < Len(d.providers)
  BY DownloadOf
<1>3. T.out \ {r} \in SUBSET Requests /\ IsFiniteSet(T.out \ {r})
  BY <1>1, FS_Subset
<1>4. V \in TableSet
  BY <1>2, <1>3, TablesWith
<1>5. V.out = T.out \ {r} /\ V.dl[b] = e
  BY <1>1
<1>6. CASE a # b
  <2>1. Asked(T.out \ {r}, a) = Asked(T.out, a)
    BY <1>6, OthersAsked
  <2>2. QED
    BY <1>4, <1>6, <2>1, OthersChanged
<1>7. CASE a = b
  <2> DEFINE x == Distance(V.out, e, b)
             y == Distance(T.out, d, b)
             MV == OfKind(V.out, b, "manifest")
             MT == OfKind(T.out, b, "manifest")
             WV == Wasted(V.out, e, b)
             WT == Wasted(T.out, d, b)
             BV == OfKind(V.out, b, "block")
             BT == OfKind(T.out, b, "block")
  <2>1. Active(e) = Active(d)
    BY DEF Active
  <2>2. /\ x[1] = Cardinality(Active(e)) /\ y[1] = Cardinality(Active(d))
        /\ x[2] = Cardinality(MV) /\ y[2] = Cardinality(MT)
        /\ x[3] = Cardinality(WV) /\ y[3] = Cardinality(WT)
        /\ x[4] = 2 * Len(e.pending) + Cardinality(BV)
        /\ y[4] = 2 * Len(d.pending) + Cardinality(BT)
    <3>1. IsFiniteSet(V.out)
      BY <1>3, <1>5
    <3>2. x[1] = Cardinality(Active(e)) /\ x[2] = Cardinality(MV) /\ x[3] = Cardinality(WV)
          /\ x[4] = 2 * Len(e.pending) + Cardinality(BV)
      BY <3>1, DistanceParts
    <3>3. y[1] = Cardinality(Active(d)) /\ y[2] = Cardinality(MT) /\ y[3] = Cardinality(WT)
          /\ y[4] = 2 * Len(d.pending) + Cardinality(BT)
      <4>1. IsFiniteSet(T.out) /\ d \in Download
        BY <1>1, <1>2
      <4>2. Measured(T.out, d, b)
        BY <4>1, DistanceMeasured
      <4>3. QED
        BY <4>2 DEF Measured
    <3> HIDE DEF x, y, MV, MT, WV, WT, BV, BT
    <3>4. QED
      BY <3>2, <3>3
  <2>3. /\ IsFiniteSet(MT) /\ IsFiniteSet(WT) /\ IsFiniteSet(BT)
        /\ Cardinality(BT) \in Nat /\ Cardinality(BV) \in Nat
        /\ Len(d.pending) \in Nat
    BY <1>1, <1>2, <1>3, <1>5, DistanceParts
  <2> HIDE DEF x, y
  <2>4. Nearer(x, y)
    <3>1. CASE r.kind = "manifest"
      <4>1. MV = MT \ {r} /\ r \in MT
        BY <1>5, <3>1 DEF OfKind, Asked
      <4>2. Cardinality(MV) < Cardinality(MT)
        BY <2>3, <4>1, OneLess
      <4>3. QED
        BY <2>1, <2>2, <4>2, NearerMeans
    <3>2. CASE r.kind = "block" /\ r.peer \notin Active(d)
      <4>1. MV = MT
        BY <1>5, <3>2 DEF OfKind, Asked
      <4>2. WV = WT \ {r} /\ r \in WT
        BY <1>5, <2>1, <3>2 DEF Wasted, Asked
      <4>3. Cardinality(WV) < Cardinality(WT)
        BY <2>3, <4>2, OneLess
      <4>4. QED
        BY <2>1, <2>2, <4>1, <4>3, NearerMeans
    <3>3. CASE r.kind = "block" /\ r.peer \in Active(d)
      <4>1. MV = MT /\ WV = WT
        BY <1>5, <2>1, <3>3 DEF OfKind, Wasted, Asked
      <4>2. BV = BT \ {r} /\ r \in BT
        BY <1>5, <3>3 DEF OfKind, Asked
      <4>3. Cardinality(BV) < Cardinality(BT) /\ e.pending = d.pending
        BY <2>3, <3>3, <4>2, OneLess
      <4> DEFINE k == Cardinality(BV)
                 j == Cardinality(BT)
                 n == Len(d.pending)
      <4>4. k \in Nat /\ j \in Nat /\ n \in Nat /\ k < j /\ x[4] = 2 * n + k /\ y[4] = 2 * n + j
        BY <2>2, <2>3, <4>3
      <4>5. x[1] = y[1] /\ x[2] = y[2] /\ x[3] = y[3]
        BY <2>1, <2>2, <4>1
      <4> HIDE DEF k, j, n
      <4>6. x[4] < y[4]
        BY <4>4
      <4>7. QED
        BY <4>5, <4>6, NearerMeans
    <3>4. QED
      BY <3>1, <3>2, <3>3
  <2>5. T.dl[b] # NoDownload /\ DistanceAt(V, b) = x /\ DistanceAt(T, b) = y
    BY <1>5 DEF DistanceAt, x, y
  <2>6. QED
    BY <1>4, <1>7, <2>4, <2>5 DEF Toward
<1>8. QED
  BY <1>6, <1>7

---------------------------------------------------------------------------
\* The inductive invariant.

IInv ==
  /\ trusted \subseteq Peers /\ stored \subseteq Blocks /\ published \subseteq Artifacts
  /\ commands \in 0..MaxCommands
  /\ Tables \in Good(stored, outbound, {})

\* What a handler must leave: tables that are good beside the requests out before it.
Leaves(Q) == Tables' \in Good(stored', outbound, Q)

\* No request of this step asks a provider that its download has given up.
FailedAvoided ==
  \A r \in outbound' \ outbound :
    r.kind # "inventory" =>
      \/ downloads'[r.artifact] = NoDownload
      \/ r.peer \notin downloads'[r.artifact].failed

\* Before a handler no request is new, so every provider is avoided.
LEMMA TablesGood ==
  ASSUME IInv, NEW Q PROVE Tables \in Good(stored, outbound, Q)
<1>1. Tables \in Good(stored, outbound, {})
  BY DEF IInv
<1>2. Avoids(Tables, outbound, Q)
  BY DEF Avoids, Tables
<1>3. QED
  BY <1>1, <1>2 DEF Good

\* The tables a handler leaves are the next state's.
LEMMA BecomesTables ==
  ASSUME NEW T \in TableSet, Becomes(T) PROVE Tables' = T
BY DEF Becomes, Tables, TableSet

\* Tables that are good beside the old requests are good beside their own, and show
\* that no provider given up was asked.
LEMMA LeavesGood ==
  ASSUME NEW Q, Leaves(Q) PROVE (Tables \in Good(stored, outbound, {}))' /\ FailedAvoided
<1>1. Tables'.out = outbound' /\ Tables'.dl = downloads'
  BY DEF Tables
<1>2. Tables' \in TableSet /\ Avoids(Tables', outbound, Q)
      /\ \A a \in Artifacts : SoundAt(Tables', stored', a) /\ BusyAt(Tables', a)
  BY DEF Leaves, Good
<1>3. Avoids(Tables', outbound', {})
  BY <1>1 DEF Avoids
<1>4. FailedAvoided
  BY <1>1, <1>2 DEF Avoids, FailedAvoided
<1>5. QED
  BY <1>2, <1>3, <1>4 DEF Good

\* Tables of a request on its own: what an answer starts from.
LEMMA TablesFacts ==
  ASSUME IInv
  PROVE  /\ Tables \in TableSet /\ Tables.out = outbound /\ Tables.dl = downloads
         /\ outbound \in SUBSET Requests /\ IsFiniteSet(outbound)
         /\ downloads \in [Artifacts -> Download \cup {NoDownload}]
         /\ \A a \in Artifacts : SoundAt(Tables, stored, a) /\ BusyAt(Tables, a)
<1>1. Tables \in Good(stored, outbound, {})
  BY DEF IInv
<1>2. Tables.out = outbound /\ Tables.dl = downloads
  BY DEF Tables
<1>3. QED
  BY <1>1, <1>2 DEF Good, TableSet

\* Listing a peer adds a request that concerns no download.
LEMMA ListPeerLeaves ==
  ASSUME IInv, NEW p \in Peers, ListPeer(p) PROVE Leaves({})
<1> DEFINE V == Tables'
<1>1. InventoryRequest(p) \in Requests
  BY DEF InventoryRequest, Requests
<1>2. PICK s \in Requests :
        /\ s \notin outbound /\ Send(outbound, InventoryRequest(p)) = outbound \cup {s}
        /\ s.kind = "inventory" /\ s.artifact = Nothing
  <2>1. InventoryRequest(p).kind = "inventory" /\ InventoryRequest(p).artifact = Nothing
    BY DEF InventoryRequest
  <2>2. QED
    BY <1>1, <2>1, SendAdds, TablesFacts
<1>3. outbound' = outbound \cup {s} /\ downloads' = downloads /\ stored' = stored
  BY <1>2 DEF ListPeer
<1>4. V.out = outbound \cup {s} /\ V.dl = downloads
      /\ V = [out |-> outbound \cup {s}, dl |-> downloads]
  BY <1>3 DEF Tables
<1> HIDE DEF V
<1>5. V \in TableSet
  <2>1. outbound \cup {s} \in SUBSET Requests /\ IsFiniteSet(outbound \cup {s})
    BY TablesFacts, FS_AddElement
  <2>2. V \in [out : SUBSET Requests, dl : [Artifacts -> Download \cup {NoDownload}]]
    BY <1>4, <2>1, TablesFacts
  <2>3. QED
    BY <1>4, <2>1, <2>2, TablesFacts DEF TableSet
<1>6. ASSUME NEW b \in Artifacts PROVE SoundAt(V, stored, b) /\ BusyAt(V, b)
  <2>1. b # Nothing
    BY DownloadAssumptions
  <2>2. \A kind : AskedFor(V, b, kind) = AskedFor(Tables, b, kind)
    BY <1>2, <1>4, <2>1, TablesFacts DEF AskedFor
  <2>3. V.dl[b] = Tables.dl[b] /\ SoundAt(Tables, stored, b) /\ BusyAt(Tables, b)
    BY <1>4, TablesFacts
  <2>4. QED
    BY <2>2, <2>3, Elsewhere
<1>7. Avoids(V, outbound, {})
  BY <1>2, <1>4 DEF Avoids
<1>8. QED
  BY <1>3, <1>5, <1>6, <1>7 DEF Leaves, Good, V

\* A new download has nothing yet, and asks for its manifest or is given up.
LEMMA FetchLeaves ==
  ASSUME IInv, NEW a \in Artifacts, NEW ps \in ProviderLists, Fetch(a, ps) PROVE Leaves({})
<1> DEFINE e == NewDownload(ps)
           V == [Tables EXCEPT !.dl[a] = e]
<1>1. ps # <<>> /\ Len(ps) \in Nat \ {0}
  <2>1. PICK n \in 1..MaxProviders : ps \in [1..n -> Peers]
    BY DEF ProviderLists
  <2>2. n \in Nat \ {0}
    BY DownloadAssumptions
  <2>3. Len(ps) = n
    BY <2>1, <2>2
  <2>4. QED
    BY <2>1, <2>2, <2>3
<1>2. e \in Download /\ e.next < Len(e.providers) /\ e.known = FALSE /\ e.inFlight = 0
  BY <1>1 DEF NewDownload, Download
<1>3. V = [out |-> outbound, dl |-> [downloads EXCEPT ![a] = e]]
  BY DEF Tables
<1> HIDE DEF V, e
<1>4. V.out = outbound /\ V.dl[a] = e /\ \A b \in Artifacts \ {a} : V.dl[b] = downloads[b]
  BY <1>3, TablesFacts
<1>5. V \in TableSet
  BY <1>2, <1>3, TablesFacts, TablesWith
<1>6. ASSUME NEW b \in Artifacts PROVE SoundAt(V, stored, b) /\ (b # a => BusyAt(V, b))
  <2>1. \A kind : AskedFor(V, b, kind) = AskedFor(Tables, b, kind)
    BY <1>4, TablesFacts DEF AskedFor
  <2>2. CASE b = a
    <3>1. IsFiniteSet(AskedFor(V, a, "block"))
      BY <1>4, TablesFacts, FS_Subset DEF AskedFor
    <3>2. 0 <= Cardinality(AskedFor(V, a, "block"))
      BY <3>1, FS_CardinalityType
    <3>3. QED
      BY <1>2, <1>4, <2>2, <3>2 DEF SoundAt
  <2>3. CASE b # a
    <3>1. V.dl[b] = Tables.dl[b] /\ SoundAt(Tables, stored, b) /\ BusyAt(Tables, b)
      BY <1>4, <2>3, TablesFacts
    <3>2. QED
      BY <2>1, <3>1, Elsewhere
  <2>4. QED
    BY <2>2, <2>3
<1>7. Avoids(V, outbound, {})
  BY <1>4 DEF Avoids
<1>8. V \in Loose(stored, outbound, {}, a)
  BY <1>5, <1>6, <1>7 DEF Loose
<1>9. RequestManifest(V, a) \in Good(stored, outbound, {})
  BY <1>8, RequestManifestGood
<1>10. Becomes(RequestManifest(V, a)) /\ stored' = stored
  BY DEF Fetch, V, e
<1>11. Tables' = RequestManifest(V, a)
  BY <1>9, <1>10, BecomesTables DEF Good
<1>12. QED
  BY <1>9, <1>10, <1>11 DEF Leaves

\* What is published, or not, is an artifact.
LEMMA PublishedTyped ==
  ASSUME NEW a \in Artifacts, NEW known, NEW manifest, NEW blocks, published \subseteq Artifacts,
         published' \in Published(a, known, manifest, blocks)
  PROVE  published' \subseteq Artifacts
BY DEF Published

\* A manifest makes its missing blocks wait, or ends the download.
LEMMA ManifestAnsweredLeaves ==
  ASSUME IInv, NEW r \in outbound, NEW m \in Manifests, ManifestAnswered(r, m)
  PROVE  Leaves({}) /\ stored' = stored /\ published' \subseteq Artifacts
<1> DEFINE a == r.artifact
           d == downloads[a]
           T == Answered(Tables, r)
           missing == m \ stored
           e == [d EXCEPT !.known = TRUE, !.manifest = m, !.pending = SetToSeq(missing)]
           D == [T EXCEPT !.dl[a] = [@ EXCEPT !.known = TRUE, !.manifest = m,
                                              !.pending = SetToSeq(missing)]]
<1>1. /\ r \in Requests /\ r.kind = "manifest" /\ a \in Artifacts
      /\ stored' = stored /\ published \subseteq Artifacts
  BY TablesFacts, DownloadAssumptions DEF ManifestAnswered, Requests, IInv
<1>2. Tables \in Good(stored, outbound, {})
  BY TablesGood
<1>3. T = [out |-> outbound \ {r}, dl |-> downloads]
  BY DEF Answered, Tables
<1>4. CASE d = NoDownload
  <2>1. Becomes(T) /\ published' = published
    BY <1>4 DEF ManifestAnswered
  <2>2. T \in Good(stored, outbound, {})
    BY <1>1, <1>2, <1>4, AnsweredGood, TablesFacts
  <2> HIDE DEF T
  <2>3. Tables' = T
    BY <2>1, <2>2, BecomesTables DEF Good
  <2>4. QED
    BY <1>1, <2>1, <2>2, <2>3 DEF Leaves
<1>5. CASE d # NoDownload /\ missing = {}
  <2>1. Becomes(Without(T, a)) /\ published' \in Published(a, TRUE, m, stored)
    BY <1>5 DEF ManifestAnswered
  <2>2. Without(T, a) \in Good(stored, outbound, {})
    BY <1>1, <1>2, AnsweredWithout
  <2> HIDE DEF T
  <2>3. Tables' = Without(T, a)
    BY <2>1, <2>2, BecomesTables DEF Good
  <2>4. published' \subseteq Artifacts
    BY <1>1, <2>1, PublishedTyped
  <2>5. QED
    BY <1>1, <2>2, <2>3, <2>4 DEF Leaves
<1>6. CASE d # NoDownload /\ missing # {}
  <2>1. Becomes(RequestBlocks(D, a)) /\ published' = published
    BY <1>6 DEF ManifestAnswered
  <2>2. d \in Download /\ d.next < Len(d.providers) /\ SoundAt(Tables, stored, a)
    BY <1>1, <1>6, TablesFacts, DownloadOf
  <2>3. m \subseteq Blocks /\ missing \subseteq Blocks /\ IsFiniteSet(missing)
    BY DownloadAssumptions, FS_Subset
  <2>4. SetToSeq(missing) \in Seq(Blocks) /\ Range(SetToSeq(missing)) = missing
    <3> HIDE DEF missing
    <3>1. SetToSeq(missing) \in Seq(missing) /\ Range(SetToSeq(missing)) = missing
      BY <2>3, SequenceOfSet
    <3>2. QED
      BY <2>3, <3>1
  <2> DEFINE q == SetToSeq(missing)
  <2> HIDE DEF q
  <2>5. [d EXCEPT !.known = TRUE, !.manifest = m, !.pending = q] \in Download
    BY <2>2, <2>3, <2>4 DEF Download, q
  <2>6. e = [d EXCEPT !.known = TRUE, !.manifest = m, !.pending = q]
    BY DEF q
  <2>7. /\ e.failed = d.failed /\ e.providers = d.providers /\ e.next = d.next
        /\ e.known = TRUE /\ e.manifest = m /\ e.pending = q /\ e.inFlight = d.inFlight
    BY <2>2, <2>6 DEF Download
  <2>8. D = [out |-> outbound \ {r}, dl |-> [downloads EXCEPT ![a] = e]]
    BY <1>1, <1>3, TablesFacts
  <2>9. e \in Download
    BY <2>5, <2>6
  <2> HIDE DEF D, e
  <2>10. D.out = outbound \ {r} /\ D.dl[a] = e
    BY <1>1, <2>8, TablesFacts
  <2>11. AskedFor(D, a, "block") = AskedFor(Tables, a, "block")
    BY <1>1, <2>10, TablesFacts DEF AskedFor
  <2>12. SoundAt(D, stored, a)
    <3>1. e.manifest \subseteq stored \cup Range(e.pending)
      BY <2>4, <2>7 DEF q
    <3>2. e.inFlight <= Cardinality(AskedFor(D, a, "block"))
      BY <1>6, <2>2, <2>7, <2>11, TablesFacts DEF SoundAt
    <3>3. QED
      BY <2>10, <3>1, <3>2 DEF SoundAt
  <2>13. D \in Loose(stored, outbound, {}, a)
    <3>1. e.next < Len(e.providers) /\ e.failed = d.failed \cup {} /\ \A s \in {r} : s.artifact = a
      BY <2>2, <2>7
    <3>2. QED
      BY <1>1, <1>2, <1>6, <2>8, <2>9, <2>12, <3>1, ChangeLoose, TablesFacts
  <2>14. e.pending # <<>>
    <3>1. Range(e.pending) # {}
      BY <1>6, <2>4, <2>7 DEF q
    <3>2. QED
      BY <3>1 DEF Range
  <2>15. RequestBlocks(D, a) \in Good(stored, outbound, {})
    <3>1. D \in Owing(stored, outbound, {}, a)
      BY <2>10, <2>13, <2>14 DEF Owing
    <3>2. QED
      BY <1>1, <3>1, RequestBlocksGood
  <2>16. Tables' = RequestBlocks(D, a)
    BY <2>1, <2>15, BecomesTables DEF Good
  <2>17. QED
    BY <1>1, <2>1, <2>15, <2>16 DEF Leaves
<1>7. QED
  BY <1>4, <1>5, <1>6

\* A stored block leaves what waits, and its slot goes to another block, or the download
\* ends.
LEMMA BlockStoredLeaves ==
  ASSUME IInv, NEW r \in outbound, BlockStored(r)
  PROVE  Leaves({}) /\ stored' \subseteq Blocks /\ published' \subseteq Artifacts
<1> DEFINE a == r.artifact
           d == downloads[a]
           T == Answered(Tables, r)
           blocks == stored \cup {r.block}
           e == [d EXCEPT !.inFlight = SaturatingDecrement(@)]
           D == [T EXCEPT !.dl[a].inFlight = SaturatingDecrement(@)]
           L == AskedFor(Tables, a, "block")
<1>1. /\ r \in Requests /\ r.kind = "block" /\ a \in Artifacts /\ r.block \in Blocks
      /\ stored' = blocks /\ blocks \subseteq Blocks
      /\ published \subseteq Artifacts
  BY TablesFacts, DownloadAssumptions DEF BlockStored, Requests, IInv
<1>2. Tables \in Good(blocks, outbound, {})
  BY TablesGood, GoodGrows
<1>3. T = [out |-> outbound \ {r}, dl |-> downloads]
  BY DEF Answered, Tables
<1> HIDE DEF blocks
<1>4. CASE d = NoDownload
  <2>1. Becomes(T) /\ published' = published
    BY <1>4 DEF BlockStored
  <2>2. T \in Good(blocks, outbound, {})
    BY <1>1, <1>2, <1>4, AnsweredGood, TablesFacts
  <2> HIDE DEF T
  <2>3. Tables' = T
    BY <2>1, <2>2, BecomesTables DEF Good
  <2>4. QED
    BY <1>1, <2>1, <2>2, <2>3 DEF Leaves
<1>5. CASE d # NoDownload
  <2>1. d \in Download /\ d.next < Len(d.providers) /\ SoundAt(Tables, stored, a)
    BY <1>1, <1>5, TablesFacts, DownloadOf
  <2>2. SaturatingDecrement(d.inFlight) \in Nat
    BY <2>1 DEF SaturatingDecrement, Download
  <2>3. e \in Download
    BY <2>1, <2>2 DEF Download
  <2>4. /\ e.failed = d.failed /\ e.providers = d.providers /\ e.next = d.next
        /\ e.known = d.known /\ e.manifest = d.manifest /\ e.pending = d.pending
        /\ e.inFlight = SaturatingDecrement(d.inFlight)
    BY <2>1 DEF Download
  <2>5. D = [out |-> outbound \ {r}, dl |-> [downloads EXCEPT ![a] = e]]
    <3>1. T.out = outbound \ {r} /\ T.dl = downloads
      BY <1>3
    <3>2. D = [out |-> T.out, dl |-> [T.dl EXCEPT ![a] = [T.dl[a] EXCEPT !.inFlight = SaturatingDecrement(@)]]]
      BY <1>3
    <3> HIDE DEF T, D
    <3>3. QED
      BY <3>1, <3>2
  <2> HIDE DEF e
  <2>6. D.out = outbound \ {r} /\ D.dl[a] = e
    BY <1>1, <2>5, TablesFacts
  <2>7. CASE D.dl[a].pending = <<>> /\ D.dl[a].inFlight = 0
    <3>1. Becomes(Without(T, a)) /\ published' \in Published(a, D.dl[a].known, D.dl[a].manifest, blocks)
      BY <1>5, <2>7 DEF BlockStored, blocks
    <3>2. Without(T, a) \in Good(blocks, outbound, {})
      BY <1>1, <1>2, AnsweredWithout
    <3> HIDE DEF T, D
    <3>3. Tables' = Without(T, a)
      BY <3>1, <3>2, BecomesTables DEF Good
    <3>4. published' \subseteq Artifacts
      BY <1>1, <3>1, PublishedTyped
    <3>5. QED
      BY <1>1, <3>2, <3>3, <3>4 DEF Leaves
  <2>8. CASE ~ (D.dl[a].pending = <<>> /\ D.dl[a].inFlight = 0)
    <3>1. Becomes(RequestBlocks(D, a)) /\ published' = published
      BY <1>5, <2>8 DEF BlockStored
    <3> HIDE DEF D, T
    <3>2. AskedFor(D, a, "block") = L \ {r}
      BY <2>6, TablesFacts DEF AskedFor
    <3>3. IsFiniteSet(L) /\ Cardinality(L) \in Nat
      BY TablesFacts, FS_Subset, FS_CardinalityType DEF AskedFor
    <3>4. Cardinality(L \ {r}) \in Nat /\ Cardinality(L \ {r}) >= Cardinality(L) - 1
      <4> HIDE DEF L
      <4>1. IsFiniteSet(L \ {r})
            /\ Cardinality(L \ {r}) = IF r \in L THEN Cardinality(L) - 1 ELSE Cardinality(L)
        BY <3>3, FS_RemoveElement
      <4>2. Cardinality(L \ {r}) \in Nat
        BY <4>1, FS_CardinalityType
      <4>3. QED
        BY <3>3, <4>1, <4>2
    <3>5. d.inFlight <= Cardinality(L) /\ d.inFlight \in Nat
      BY <1>5, <2>1, TablesFacts DEF SoundAt, Download
    <3>6. e.inFlight <= Cardinality(AskedFor(D, a, "block"))
      <4> DEFINE n == d.inFlight
                 k == Cardinality(L)
                 j == Cardinality(L \ {r})
      <4>1. n \in Nat /\ k \in Nat /\ j \in Nat /\ n <= k /\ j >= k - 1
        BY <3>3, <3>4, <3>5
      <4> HIDE DEF n, k, j
      <4>2. SaturatingDecrement(n) <= j
        BY <4>1 DEF SaturatingDecrement
      <4>3. QED
        BY <2>4, <3>2, <4>2 DEF n, j
    <3>7. SoundAt(D, blocks, a)
      <4>1. d.known => d.manifest \subseteq stored \cup Range(d.pending) \cup {s.block : s \in L}
        BY <1>5, <2>1, TablesFacts DEF SoundAt
      <4>2. e.known => e.manifest \subseteq
              blocks \cup Range(e.pending) \cup {s.block : s \in AskedFor(D, a, "block")}
        BY <2>4, <3>2, <4>1 DEF blocks
      <4>3. QED
        BY <2>6, <3>6, <4>2 DEF SoundAt
    <3>8. D \in Loose(blocks, outbound, {}, a)
      <4>1. e.next < Len(e.providers) /\ e.failed = d.failed \cup {} /\ \A s \in {r} : s.artifact = a
        BY <2>1, <2>4
      <4>2. D = [out |-> Tables.out \ {r}, dl |-> [Tables.dl EXCEPT ![a] = e]]
        BY <2>5, TablesFacts DEF D
      <4>3. Tables.dl[a] # NoDownload /\ e.failed = Tables.dl[a].failed \cup {}
        BY <1>5, <4>1, TablesFacts
      <4>4. QED
        BY <1>1, <1>2, <2>3, <3>7, <4>1, <4>2, <4>3, ChangeLoose
    <3>9. BusyAt(D, a) \/ e.pending # <<>>
      <4>1. CASE e.pending # <<>>
        BY <4>1
      <4>2. CASE e.pending = <<>>
        <5>1. e.inFlight # 0 /\ e.inFlight \in Nat
          BY <2>2, <2>4, <2>6, <2>8, <4>2
        <5>2. Cardinality(AskedFor(D, a, "block")) # 0
          BY <3>2, <3>4, <3>6, <5>1
        <5>3. AskedFor(D, a, "block") # {}
          BY <5>2, FS_EmptySet
        <5>4. QED
          BY <5>3 DEF BusyAt
      <4>3. QED
        BY <4>1, <4>2
    <3>10. RequestBlocks(D, a) \in Good(blocks, outbound, {})
      <4>1. D \in Owing(blocks, outbound, {}, a)
        BY <2>6, <3>8, <3>9 DEF Owing
      <4>2. QED
        BY <1>1, <4>1, RequestBlocksGood
    <3>11. Tables' = RequestBlocks(D, a)
      BY <3>1, <3>10, BecomesTables DEF Good
    <3>12. QED
      BY <1>1, <3>1, <3>10, <3>11 DEF Leaves
  <2>9. QED
    BY <2>7, <2>8
<1>6. QED
  BY <1>4, <1>5

\* The other answers and the closed connection.
LEMMA InventoryAnsweredLeaves ==
  ASSUME IInv, NEW r \in outbound, InventoryAnswered(r) PROVE Leaves({})
<1>1. r \in Requests /\ r.kind = "inventory" /\ stored' = stored /\ Becomes(Answered(Tables, r))
  BY TablesFacts DEF InventoryAnswered
<1>2. Answered(Tables, r) \in Good(stored, outbound, {})
  BY <1>1, TablesGood, AnsweredGood
<1>3. Tables' = Answered(Tables, r)
  BY <1>1, <1>2, BecomesTables DEF Good
<1>4. QED
  BY <1>1, <1>2, <1>3 DEF Leaves

\* A malformed manifest fails its request alone.
LEMMA ManifestInvalidLeaves ==
  ASSUME IInv, NEW r \in outbound, ManifestInvalid(r) PROVE Leaves({r.peer})
<1> DEFINE V == RequestFailed(Answered(Tables, r), r)
<1>1. r \in Requests /\ stored' = stored /\ Becomes(V)
  BY TablesFacts DEF ManifestInvalid
<1>2. V \in Good(stored, outbound, {r.peer})
  BY <1>1, TablesGood, RequestFailedGood
<1> HIDE DEF V
<1>3. Tables' = V
  BY <1>1, <1>2, BecomesTables DEF Good
<1>4. QED
  BY <1>1, <1>2, <1>3 DEF Leaves

\* A rejected block ends its download.
LEMMA BlockRejectedLeaves ==
  ASSUME IInv, NEW r \in outbound, BlockRejected(r) PROVE Leaves({})
<1> DEFINE V == Without(Answered(Tables, r), r.artifact)
<1>1. r \in Requests /\ r.kind # "inventory" /\ stored' = stored /\ Becomes(V)
  BY TablesFacts DEF BlockRejected
<1>2. V \in Good(stored, outbound, {})
  BY <1>1, TablesGood, AnsweredWithout
<1> HIDE DEF V
<1>3. Tables' = V
  BY <1>1, <1>2, BecomesTables DEF Good
<1>4. QED
  BY <1>1, <1>2, <1>3 DEF Leaves

\* An unanswered request fails, then its provider fails everywhere.
LEMMA RequestUnansweredLeaves ==
  ASSUME IInv, NEW r \in outbound, RequestUnanswered(r) PROVE Leaves({r.peer})
<1> DEFINE T == RequestFailed(Answered(Tables, r), r)
<1>1. r \in Requests /\ r.peer \in Peers /\ stored' = stored
  BY TablesFacts DEF RequestUnanswered, Requests
<1>2. PICK order \in Orders(T, r.peer) : Becomes(ProviderFailed(T, r.peer, order))
  BY DEF RequestUnanswered
<1>3. T \in Good(stored, outbound, {r.peer})
  BY <1>1, TablesGood, RequestFailedGood
<1> HIDE DEF T
<1>4. ProviderFailed(T, r.peer, order) \in Good(stored, outbound, {r.peer})
  BY <1>1, <1>3, ProviderFailedGood
<1>5. Tables' = ProviderFailed(T, r.peer, order)
  BY <1>2, <1>4, BecomesTables DEF Good
<1>6. QED
  BY <1>1, <1>4, <1>5 DEF Leaves

\* A closed connection fails its provider everywhere.
LEMMA ConnectionClosedLeaves ==
  ASSUME IInv, NEW p \in Peers, ConnectionClosed(p) PROVE Leaves({p})
<1>1. PICK order \in Orders(Tables, p) : Becomes(ProviderFailed(Tables, p, order))
  BY DEF ConnectionClosed
<1>2. ProviderFailed(Tables, p, order) \in Good(stored, outbound, {p})
  BY TablesGood, ProviderFailedGood
<1>3. Tables' = ProviderFailed(Tables, p, order) /\ stored' = stored
  BY <1>1, <1>2, BecomesTables DEF Good, ConnectionClosed
<1>4. QED
  BY <1>2, <1>3 DEF Leaves

\* Nothing sent, nothing changed.
LEMMA SameTablesLeave ==
  ASSUME IInv, outbound' = outbound, downloads' = downloads, stored' = stored
  PROVE  Leaves({})
<1>1. Tables' = Tables
  BY DEF Tables
<1>2. QED
  BY <1>1, TablesGood DEF Leaves

\* No request, no download.
LEMMA InitInv == Init => IInv
<1> SUFFICES ASSUME Init PROVE IInv
  OBVIOUS
<1>1. Tables = [out |-> {}, dl |-> [a \in Artifacts |-> NoDownload]]
  BY DEF Init, Tables
<1>2. Tables \in TableSet
  BY <1>1, FS_EmptySet DEF TableSet
<1>3. Tables \in Good(stored, outbound, {})
  BY <1>1, <1>2 DEF Good, SoundAt, BusyAt, Avoids
<1>4. QED
  BY <1>3, DownloadAssumptions DEF Init, IInv

\* A step that keeps the simple state and leaves good tables.
LEMMA LeavesInv ==
  ASSUME NEW Q, Leaves(Q), trusted' \subseteq Peers, stored' \subseteq Blocks,
         published' \subseteq Artifacts, commands' \in 0..MaxCommands
  PROVE  IInv' /\ FailedAvoided
BY LeavesGood DEF IInv

\* Every step keeps the invariant and asks no provider given up.
LEMMA StepInv ==
  ASSUME IInv, [Next]_vars PROVE IInv' /\ FailedAvoided
<1>1. /\ trusted \subseteq Peers /\ stored \subseteq Blocks /\ published \subseteq Artifacts
      /\ commands \in 0..MaxCommands /\ MaxCommands \in Nat
  BY DownloadAssumptions DEF IInv
<1>2. ASSUME NEW p \in Peers, Trust(p) \/ Untrust(p) PROVE IInv' /\ FailedAvoided
  <2>1. Leaves({})
    BY <1>2, SameTablesLeave DEF Trust, Untrust
  <2>2. QED
    BY <1>1, <1>2, <2>1, LeavesInv DEF Trust, Untrust
<1>3. ASSUME NEW p \in Peers, ListPeer(p) PROVE IInv' /\ FailedAvoided
  <2>1. Leaves({})
    BY <1>3, ListPeerLeaves
  <2>2. commands' \in 0..MaxCommands
    BY <1>1, <1>3 DEF ListPeer
  <2>3. QED
    BY <1>1, <1>3, <2>1, <2>2, LeavesInv DEF ListPeer
<1>4. ASSUME NEW p \in Peers, ConnectionClosed(p) PROVE IInv' /\ FailedAvoided
  <2>1. Leaves({p})
    BY <1>4, ConnectionClosedLeaves
  <2>2. QED
    BY <1>1, <1>4, <2>1, LeavesInv DEF ConnectionClosed
<1>5. ASSUME NEW a \in Artifacts, NEW ps \in ProviderLists, Fetch(a, ps)
      PROVE  IInv' /\ FailedAvoided
  <2>1. Leaves({})
    BY <1>5, FetchLeaves
  <2>2. commands' \in 0..MaxCommands
    BY <1>1, <1>5 DEF Fetch
  <2>3. QED
    BY <1>1, <1>5, <2>1, <2>2, LeavesInv DEF Fetch
<1>6. ASSUME NEW r \in outbound, Answer(r) PROVE IInv' /\ FailedAvoided
  <2>1. CASE InventoryAnswered(r)
    <3>1. Leaves({})
      BY <2>1, InventoryAnsweredLeaves
    <3>2. QED
      BY <1>1, <2>1, <3>1, LeavesInv DEF InventoryAnswered
  <2>2. ASSUME NEW m \in Manifests, ManifestAnswered(r, m) PROVE IInv' /\ FailedAvoided
    <3>1. Leaves({}) /\ stored' = stored /\ published' \subseteq Artifacts
      BY <2>2, ManifestAnsweredLeaves
    <3>2. trusted' = trusted /\ commands' = commands
      BY <2>2 DEF ManifestAnswered
    <3>3. QED
      BY <1>1, <3>1, <3>2, LeavesInv
  <2>3. CASE ManifestInvalid(r)
    <3>1. Leaves({r.peer})
      BY <2>3, ManifestInvalidLeaves
    <3>2. QED
      BY <1>1, <2>3, <3>1, LeavesInv DEF ManifestInvalid
  <2>4. CASE BlockStored(r)
    <3>1. Leaves({}) /\ stored' \subseteq Blocks /\ published' \subseteq Artifacts
      BY <2>4, BlockStoredLeaves
    <3>2. trusted' = trusted /\ commands' = commands
      BY <2>4 DEF BlockStored
    <3>3. QED
      BY <1>1, <3>1, <3>2, LeavesInv
  <2>5. CASE BlockRejected(r)
    <3>1. Leaves({})
      BY <2>5, BlockRejectedLeaves
    <3>2. QED
      BY <1>1, <2>5, <3>1, LeavesInv DEF BlockRejected
  <2>6. CASE RequestUnanswered(r)
    <3>1. Leaves({r.peer})
      BY <2>6, RequestUnansweredLeaves
    <3>2. QED
      BY <1>1, <2>6, <3>1, LeavesInv DEF RequestUnanswered
  <2>7. QED
    BY <1>6, <2>1, <2>2, <2>3, <2>4, <2>5, <2>6 DEF Answer
<1>7. CASE UNCHANGED vars
  <2>1. Leaves({})
    BY <1>7, SameTablesLeave DEF vars
  <2>2. QED
    BY <1>1, <1>7, <2>1, LeavesInv DEF vars
<1>8. QED
  BY <1>2, <1>3, <1>4, <1>5, <1>6, <1>7 DEF Next

\* The inductive invariant holds in every reachable state.
THEOREM Invariance == Spec => []IInv
<1>1. IInv /\ [Next]_vars => IInv'
  BY StepInv
<1>2. QED
  BY InitInv, <1>1, PTL DEF Spec

---------------------------------------------------------------------------
\* What follows.

\* The invariant implies the properties.
LEMMA InvMeans ==
  ASSUME IInv PROVE TypeOK /\ NoBlockForgotten /\ NeverIdle /\ InFlightIsOut
<1>1. \A a, kind : Requested(a, kind) = AskedFor(Tables, a, kind)
  BY TablesFacts DEF Requested, AskedFor
<1>2. TypeOK
  BY TablesFacts DEF IInv, TypeOK
<1>3. ASSUME NEW a \in Artifacts PROVE SoundAt(Tables, stored, a) /\ BusyAt(Tables, a)
  BY TablesFacts
<1>4. Tables.dl = downloads
  BY TablesFacts
<1>5. NoBlockForgotten
  BY <1>1, <1>3, <1>4 DEF SoundAt, NoBlockForgotten
<1>6. NeverIdle
  BY <1>1, <1>3, <1>4 DEF BusyAt, NeverIdle
<1>7. InFlightIsOut
  BY <1>1, <1>3, <1>4 DEF SoundAt, InFlightIsOut
<1>8. QED
  BY <1>2, <1>5, <1>6, <1>7 DEF IInv

\* The state keeps its type, however many peers, artifacts and blocks there are.
THEOREM TypeCorrect == Spec => []TypeOK
<1>1. IInv => TypeOK
  BY InvMeans
<1>2. QED
  BY Invariance, <1>1, PTL

\* No sequence of failovers, disconnects and late answers makes a download forget a block.
THEOREM BlocksKept == Spec => []NoBlockForgotten
<1>1. IInv => NoBlockForgotten
  BY InvMeans
<1>2. QED
  BY Invariance, <1>1, PTL

\* A running download always waits for some answer.
THEOREM AlwaysAsking == Spec => []NeverIdle
<1>1. IInv => NeverIdle
  BY InvMeans
<1>2. QED
  BY Invariance, <1>1, PTL

\* in_flight never counts more than the block requests that are out.
THEOREM SlotsAreOut == Spec => []InFlightIsOut
<1>1. IInv => InFlightIsOut
  BY InvMeans
<1>2. QED
  BY Invariance, <1>1, PTL

\* No step asks a provider that its download has given up.
THEOREM FailedLeftAlone == Spec => FailedNotAskedAgain
<1>1. IInv /\ [Next]_vars =>
        [\A r \in outbound' \ outbound :
           r.kind # "inventory" =>
             \/ downloads'[r.artifact] = NoDownload
             \/ r.peer \notin downloads'[r.artifact].failed]_vars
  BY StepInv DEF FailedAvoided
<1>2. QED
  BY Invariance, <1>1, PTL DEF Spec, FailedNotAskedAgain

---------------------------------------------------------------------------
(***************************************************************************)
(* Every step that changes a running download brings it nearer to its end. *)
(***************************************************************************)
Advanced(a) ==
  downloads[a] # NoDownload /\ downloads'[a] # NoDownload =>
    \/ Nearer(Distance(outbound', downloads'[a], a), Distance(outbound, downloads[a], a))
    \/ downloads'[a] = downloads[a] /\ Asked(outbound', a) = Asked(outbound, a)

\* A handler whose tables lie toward the end of a download advances it.
LEMMA TowardAdvances ==
  ASSUME NEW a \in Artifacts, NEW V, Becomes(V), Toward(Tables, V, a)
  PROVE  Advanced(a)
<1>1. Tables.out = outbound /\ Tables.dl = downloads /\ V.out = outbound' /\ V.dl = downloads'
  BY DEF Tables, Becomes
<1>2. QED
  BY <1>1 DEF Toward, Advanced, DistanceAt

\* A step that touches nothing of a download.
LEMMA SameAdvances ==
  ASSUME NEW a \in Artifacts, downloads' = downloads, Asked(outbound', a) = Asked(outbound, a)
  PROVE  Advanced(a)
BY DEF Advanced

\* The commands of the owner touch no running download.
LEMMA ListPeerAdvances ==
  ASSUME IInv, NEW a \in Artifacts, NEW p \in Peers, ListPeer(p) PROVE Advanced(a)
<1>1. InventoryRequest(p) \in Requests /\ InventoryRequest(p).artifact = Nothing
  BY DEF InventoryRequest, Requests
<1>2. PICK s \in Requests :
        Send(outbound, InventoryRequest(p)) = outbound \cup {s} /\ s.artifact = Nothing
  BY <1>1, SendAdds, TablesFacts
<1>3. outbound' = outbound \cup {s} /\ downloads' = downloads
  BY <1>2 DEF ListPeer
<1>4. s.artifact # a
  BY <1>2, DownloadAssumptions
<1>5. QED
  BY <1>3, <1>4, OthersAsked, SameAdvances

\* A new download asks for its own manifest only.
LEMMA FetchAdvances ==
  ASSUME IInv, NEW a \in Artifacts, NEW b \in Artifacts, NEW ps \in ProviderLists, Fetch(b, ps)
  PROVE  Advanced(a)
<1> DEFINE e == NewDownload(ps)
           V == [Tables EXCEPT !.dl[b] = e]
<1>1. Becomes(RequestManifest(V, b)) /\ downloads[b] = NoDownload
  BY DEF Fetch
<1>2. CASE a = b
  BY <1>1, <1>2 DEF Advanced
<1>3. CASE a # b
  <2>1. Len(ps) \in Nat \ {0}
    <3>1. PICK n \in 1..MaxProviders : ps \in [1..n -> Peers]
      BY DEF ProviderLists
    <3>2. n \in Nat \ {0}
      BY DownloadAssumptions
    <3>3. Len(ps) = n
      BY <3>1, <3>2
    <3>4. QED
      BY <3>2, <3>3
  <2>2. e \in Download /\ e.next < Len(e.providers)
    BY <2>1 DEF NewDownload, Download
  <2>3. V = [out |-> outbound, dl |-> [downloads EXCEPT ![b] = e]]
    BY DEF Tables
  <2> HIDE DEF V, e
  <2>4. V \in TableSet /\ Toward(Tables, V, a)
    <3>1. V = [out |-> outbound, dl |-> [Tables.dl EXCEPT ![b] = e]]
          /\ Asked(outbound, a) = Asked(Tables.out, a) /\ Tables \in TableSet
      BY <2>3, TablesFacts
    <3>2. V \in TableSet
      BY <2>2, <2>3, <3>1, TablesFacts, TablesWith
    <3>3. Toward(Tables, V, a)
      BY <1>3, <3>1, OthersChanged
    <3>4. QED
      BY <3>2, <3>3
  <2>5. RequestManifest(V, b) \in TableSet /\ Toward(V, RequestManifest(V, b), a)
    BY <1>3, <2>4, RequestManifestOthers
  <2>6. Toward(Tables, RequestManifest(V, b), a)
    BY <2>4, <2>5, TablesFacts, TowardTransitive
  <2>7. QED
    BY <1>1, <2>6, TowardAdvances
<1>4. QED
  BY <1>2, <1>3

\* A manifest that is not the last brings its download nearer, by being no longer to come.
LEMMA ManifestAnsweredAdvances ==
  ASSUME IInv, NEW a \in Artifacts, NEW r \in outbound, NEW m \in Manifests,
         ManifestAnswered(r, m)
  PROVE  Advanced(a)
<1> DEFINE b == r.artifact
           d == downloads[b]
           T == Answered(Tables, r)
           missing == m \ stored
           e == [d EXCEPT !.known = TRUE, !.manifest = m, !.pending = SetToSeq(missing)]
           D == [T EXCEPT !.dl[b] = [@ EXCEPT !.known = TRUE, !.manifest = m,
                                              !.pending = SetToSeq(missing)]]
<1>1. r \in Requests /\ r.kind = "manifest" /\ b \in Artifacts /\ r \in Tables.out
      /\ Tables \in TableSet /\ Tables.dl = downloads
  BY TablesFacts, DownloadAssumptions DEF ManifestAnswered, Requests
<1>2. T = [out |-> outbound \ {r}, dl |-> downloads]
  BY DEF Answered, Tables
<1>3. CASE d = NoDownload
  <2>1. Becomes(T)
    BY <1>3 DEF ManifestAnswered
  <2>2. QED
    BY <1>1, <1>3, <2>1, AnsweredElsewhere, TowardAdvances
<1>4. CASE d # NoDownload /\ missing = {}
  <2>1. Becomes(Without(T, b))
    BY <1>4 DEF ManifestAnswered
  <2>2. Toward(Tables, Without(T, b), a)
    BY <1>1, AnsweredEnds
  <2>3. QED
    BY <2>1, <2>2, TowardAdvances
<1>5. CASE d # NoDownload /\ missing # {}
  <2>1. Becomes(RequestBlocks(D, b))
    BY <1>5 DEF ManifestAnswered
  <2>2. d \in Download
    BY <1>1, <1>5, DownloadOf
  <2>3. m \subseteq Blocks /\ missing \subseteq Blocks /\ IsFiniteSet(missing)
    BY DownloadAssumptions, FS_Subset
  <2>4. SetToSeq(missing) \in Seq(Blocks)
    <3> HIDE DEF missing
    <3>1. SetToSeq(missing) \in Seq(missing)
      BY <2>3, SequenceOfSet
    <3>2. QED
      BY <2>3, <3>1
  <2> DEFINE q == SetToSeq(missing)
  <2> HIDE DEF q
  <2>5. [d EXCEPT !.known = TRUE, !.manifest = m, !.pending = q] \in Download
    BY <2>2, <2>3, <2>4 DEF Download, q
  <2>6. e = [d EXCEPT !.known = TRUE, !.manifest = m, !.pending = q]
    BY DEF q
  <2>7. e \in Download /\ e.failed = d.failed /\ e.providers = d.providers /\ e.next = d.next
    BY <2>2, <2>5, <2>6 DEF Download
  <2>8. D = [out |-> outbound \ {r}, dl |-> [downloads EXCEPT ![b] = e]]
    BY <1>1, <1>2, TablesFacts
  <2> HIDE DEF D, e
  <2>9. D = [out |-> Tables.out \ {r}, dl |-> [Tables.dl EXCEPT ![b] = e]]
    BY <2>8, TablesFacts
  <2>10. D \in TableSet /\ Toward(Tables, D, a)
    BY <1>1, <1>5, <2>7, <2>9, AnsweredTaken
  <2>11. RequestBlocks(D, b) \in TableSet /\ Toward(D, RequestBlocks(D, b), a)
    BY <1>1, <2>10, RequestBlocksOnward DEF Onward
  <2>12. Toward(Tables, RequestBlocks(D, b), a)
    BY <1>1, <2>10, <2>11, TowardTransitive
  <2>13. QED
    BY <2>1, <2>12, TowardAdvances
<1>6. QED
  BY <1>3, <1>4, <1>5

\* A stored block is a request less; those that take its slot weigh less than they did.
LEMMA BlockStoredAdvances ==
  ASSUME IInv, NEW a \in Artifacts, NEW r \in outbound, BlockStored(r) PROVE Advanced(a)
<1> DEFINE b == r.artifact
           d == downloads[b]
           T == Answered(Tables, r)
           e == [d EXCEPT !.inFlight = SaturatingDecrement(@)]
           D == [T EXCEPT !.dl[b].inFlight = SaturatingDecrement(@)]
<1>1. r \in Requests /\ r.kind = "block" /\ b \in Artifacts /\ r \in Tables.out
      /\ Tables \in TableSet /\ Tables.dl = downloads
  BY TablesFacts, DownloadAssumptions DEF BlockStored, Requests
<1>2. T = [out |-> outbound \ {r}, dl |-> downloads]
  BY DEF Answered, Tables
<1>3. CASE d = NoDownload
  <2>1. Becomes(T)
    BY <1>3 DEF BlockStored
  <2>2. QED
    BY <1>1, <1>3, <2>1, AnsweredElsewhere, TowardAdvances
<1>4. CASE d # NoDownload /\ D.dl[b].pending = <<>> /\ D.dl[b].inFlight = 0
  <2>1. Becomes(Without(T, b))
    BY <1>4 DEF BlockStored
  <2>2. Toward(Tables, Without(T, b), a)
    BY <1>1, AnsweredEnds
  <2>3. QED
    BY <2>1, <2>2, TowardAdvances
<1>5. CASE d # NoDownload /\ ~ (D.dl[b].pending = <<>> /\ D.dl[b].inFlight = 0)
  <2>1. Becomes(RequestBlocks(D, b))
    BY <1>5 DEF BlockStored
  <2>2. d \in Download
    BY <1>1, <1>5, DownloadOf
  <2>3. SaturatingDecrement(d.inFlight) \in Nat
    BY <2>2 DEF SaturatingDecrement, Download
  <2>4. e \in Download
    BY <2>2, <2>3 DEF Download
  <2>5. /\ e.failed = d.failed /\ e.providers = d.providers /\ e.next = d.next
        /\ e.pending = d.pending
    BY <2>2 DEF Download
  <2>6. D = [out |-> outbound \ {r}, dl |-> [downloads EXCEPT ![b] = e]]
    BY <1>1, <1>2, TablesFacts
  <2> HIDE DEF D, e
  <2>7. D = [out |-> Tables.out \ {r}, dl |-> [Tables.dl EXCEPT ![b] = e]]
    BY <2>6, TablesFacts
  <2>8. D \in TableSet /\ Toward(Tables, D, a)
    BY <1>1, <1>5, <2>4, <2>5, <2>7, AnsweredTaken
  <2>9. RequestBlocks(D, b) \in TableSet /\ Toward(D, RequestBlocks(D, b), a)
    BY <1>1, <2>8, RequestBlocksOnward DEF Onward
  <2>10. Toward(Tables, RequestBlocks(D, b), a)
    BY <1>1, <2>8, <2>9, TowardTransitive
  <2>11. QED
    BY <2>1, <2>10, TowardAdvances
<1>6. QED
  BY <1>3, <1>4, <1>5

\* The other answers.
LEMMA OtherAnswersAdvance ==
  ASSUME IInv, NEW a \in Artifacts, NEW r \in outbound,
         \/ InventoryAnswered(r)
         \/ ManifestInvalid(r)
         \/ BlockRejected(r)
         \/ RequestUnanswered(r)
  PROVE  Advanced(a)
<1>1. r \in Requests /\ r \in Tables.out /\ Tables \in TableSet /\ r.peer \in Peers
  BY TablesFacts DEF Requests
<1> DEFINE T == RequestFailed(Answered(Tables, r), r)
<1>2. T \in TableSet /\ Toward(Tables, T, a)
  BY <1>1, RequestFailedOnward
<1>3. CASE InventoryAnswered(r)
  <2>1. Becomes(Answered(Tables, r)) /\ r.kind = "inventory"
    BY <1>3 DEF InventoryAnswered
  <2>2. QED
    BY <1>1, <2>1, AnsweredElsewhere, TowardAdvances
<1>4. CASE ManifestInvalid(r)
  <2>1. Becomes(T)
    BY <1>4 DEF ManifestInvalid
  <2>2. QED
    BY <1>2, <2>1, TowardAdvances
<1>5. CASE BlockRejected(r)
  <2>1. Becomes(Without(Answered(Tables, r), r.artifact)) /\ r.kind # "inventory"
    BY <1>5 DEF BlockRejected
  <2>2. Toward(Tables, Without(Answered(Tables, r), r.artifact), a)
    BY <1>1, <2>1, AnsweredEnds
  <2>3. QED
    BY <2>1, <2>2, TowardAdvances
<1>6. CASE RequestUnanswered(r)
  <2>1. PICK order \in Orders(T, r.peer) : Becomes(ProviderFailed(T, r.peer, order))
    BY <1>6 DEF RequestUnanswered
  <2> HIDE DEF T
  <2> DEFINE V == ProviderFailed(T, r.peer, order)
  <2>2. V \in TableSet /\ Toward(T, V, a)
    BY <1>1, <1>2, ProviderFailedToward
  <2> HIDE DEF V
  <2>3. Toward(Tables, V, a)
    BY <1>1, <1>2, <2>2, TowardTransitive
  <2>4. QED
    BY <2>1, <2>3, TowardAdvances DEF V
<1>7. QED
  BY <1>3, <1>4, <1>5, <1>6

\* Each step of the system advances each download.
LEMMA StepAdvances ==
  ASSUME IInv, [Next]_vars, NEW a \in Artifacts PROVE Advanced(a)
<1>1. ASSUME NEW p \in Peers, Trust(p) \/ Untrust(p) PROVE Advanced(a)
  BY <1>1, SameAdvances DEF Trust, Untrust
<1>2. ASSUME NEW p \in Peers, ConnectionClosed(p) PROVE Advanced(a)
  <2>1. PICK order \in Orders(Tables, p) : Becomes(ProviderFailed(Tables, p, order))
    BY <1>2 DEF ConnectionClosed
  <2>2. Toward(Tables, ProviderFailed(Tables, p, order), a)
    BY TablesFacts, ProviderFailedToward
  <2>3. QED
    BY <2>1, <2>2, TowardAdvances
<1>3. ASSUME NEW r \in outbound, Answer(r) PROVE Advanced(a)
  BY <1>3, OtherAnswersAdvance, ManifestAnsweredAdvances, BlockStoredAdvances DEF Answer
<1>4. CASE UNCHANGED vars
  BY <1>4, SameAdvances DEF vars
<1>5. QED
  BY <1>1, <1>2, <1>3, <1>4, ListPeerAdvances, FetchAdvances DEF Next

\* However many peers, artifacts and blocks there are, an answer, a failure or a closed
\* connection never takes a running download back. Distance is four numbers that no step
\* raises in their lexicographic order, so a download takes part in finitely many steps.
THEOREM AlwaysAdvances == Spec => DownloadAdvances
<1>1. IInv /\ [Next]_vars =>
        [\A a \in Artifacts :
           downloads[a] # NoDownload /\ downloads'[a] # NoDownload =>
             \/ Nearer(Distance(outbound', downloads'[a], a),
                       Distance(outbound, downloads[a], a))
             \/ downloads'[a] = downloads[a] /\ Asked(outbound', a) = Asked(outbound, a)]_vars
  BY StepAdvances DEF Advanced
<1>2. QED
  BY Invariance, <1>1, PTL DEF Spec, DownloadAdvances

=============================================================================
