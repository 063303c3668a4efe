------------------------- MODULE MatrixScheduler_proofs -------------------------
(***************************************************************************)
(* The safety of the matrix scheduler for any number of jobs, workers and  *)
(* chunks. The inductive invariant is a property of one job and its        *)
(* assignments, Sound: each handler keeps it for the job it touches, and   *)
(* dispatch keeps it for every job.                                        *)
(***************************************************************************)
EXTENDS MatrixScheduler, FiniteSetTheorems, SequenceTheorems, TLAPS

---------------------------------------------------------------------------
\* Ranking: the places of the candidates are exactly 1..Cardinality(candidates).

\* The workers are finitely many.
LEMMA WorkersFinite == IsFiniteSet(Workers)
BY SchedulerAssumptions, FS_AddElement DEF Workers

\* The place of a candidate in the ranking lies within it.
LEMMA RankRange ==
  ASSUME NEW S \in SUBSET Workers, NEW off \in [Workers -> Offers], NEW tie \in Ties,
         NEW w \in S
  PROVE  RankIn(S, off, tie, w) \in 1..Cardinality(S)
<1> DEFINE Ahead == {v \in S : Before(off, tie, v, w)}
<1>1. IsFiniteSet(S) /\ Cardinality(S) \in Nat
  BY WorkersFinite, FS_Subset, FS_CardinalityType
<1>2. off[w] \in Int /\ tie[w] \in Int
  BY DEF Ties, Offers
<1>3. w \notin Ahead
  BY <1>2 DEF Before
<1>4. IsFiniteSet(S \ {w}) /\ Cardinality(S \ {w}) = Cardinality(S) - 1
  BY <1>1, FS_RemoveElement
<1>5. Ahead \in SUBSET (S \ {w})
  BY <1>3
<1>6. Cardinality(Ahead) \in Nat /\ Cardinality(Ahead) <= Cardinality(S) - 1
  BY <1>4, <1>5, FS_Subset, FS_CardinalityType
<1>7. QED
  BY <1>1, <1>6 DEF RankIn

\* A candidate ranked before another one has a smaller place.
LEMMA RankMonotone ==
  ASSUME NEW S \in SUBSET Workers, NEW off \in [Workers -> Offers], NEW tie \in Ties,
         NEW v \in S, NEW w \in S, Before(off, tie, v, w)
  PROVE  RankIn(S, off, tie, v) < RankIn(S, off, tie, w)
<1> DEFINE A(x) == {u \in S : Before(off, tie, u, x)}
<1>1. \A x \in S : off[x] \in Int /\ tie[x] \in Int
  BY DEF Ties, Offers
<1>2. v \in A(w) /\ v \notin A(v)
  BY <1>1 DEF Before
<1>3. A(v) \in SUBSET A(w)
  BY <1>1 DEF Before
<1>4. IsFiniteSet(A(w)) /\ IsFiniteSet(A(v))
  BY WorkersFinite, FS_Subset
<1>5. Cardinality(A(v)) \in Nat /\ Cardinality(A(w)) \in Nat
  BY <1>4, FS_CardinalityType
<1>6. Cardinality(A(v)) <= Cardinality(A(w)) /\ Cardinality(A(v)) # Cardinality(A(w))
  BY <1>2, <1>3, <1>4, FS_Subset
<1>7. QED
  BY <1>5, <1>6 DEF RankIn

\* Two candidates never share a place.
LEMMA RankInjective ==
  ASSUME NEW S \in SUBSET Workers, NEW off \in [Workers -> Offers], NEW tie \in Ties,
         NEW v \in S, NEW w \in S, RankIn(S, off, tie, v) = RankIn(S, off, tie, w)
  PROVE  v = w
<1>1. SUFFICES ASSUME v # w PROVE FALSE
  OBVIOUS
<1>2. off[v] \in Int /\ off[w] \in Int /\ tie[v] \in Int /\ tie[w] \in Int
  BY DEF Ties, Offers
<1>3. tie[v] # tie[w]
  BY <1>1 DEF Ties, IsInjective
<1>4. Before(off, tie, v, w) \/ Before(off, tie, w, v)
  BY <1>2, <1>3 DEF Before
<1>5. RankIn(S, off, tie, v) \in Int /\ RankIn(S, off, tie, w) \in Int
  <2>1. RankIn(S, off, tie, v) \in 1..Cardinality(S) /\ RankIn(S, off, tie, w) \in 1..Cardinality(S)
    BY RankRange
  <2>2. \A x : x \in 1..Cardinality(S) => x \in Int
    OBVIOUS
  <2>3. QED
    BY <2>1, <2>2
<1>6. QED
  BY <1>4, <1>5, RankMonotone

\* Every place is taken.
LEMMA RankOnto ==
  ASSUME NEW S \in SUBSET Workers, NEW off \in [Workers -> Offers], NEW tie \in Ties,
         NEW i \in 1..Cardinality(S)
  PROVE  \E w \in S : RankIn(S, off, tie, w) = i
<1> DEFINE f == [w \in S |-> RankIn(S, off, tie, w)]
           T == 1..Cardinality(S)
<1>1. IsFiniteSet(S) /\ Cardinality(S) \in Nat
  BY WorkersFinite, FS_Subset, FS_CardinalityType
<1>2. IsFiniteSet(T) /\ Cardinality(T) = Cardinality(S)
  BY <1>1, FS_Interval
<1>3. f \in [S -> T]
  BY RankRange
<1>4. \A v, w \in S : f[v] = f[w] => v = w
  BY RankInjective
<1>5. f \in Injection(S, T)
  BY <1>3, <1>4 DEF Injection, IsInjective
<1>6. f \in Surjection(S, T)
  BY <1>2, <1>5, FS_Injection
<1>7. QED
  BY <1>6 DEF Surjection

---------------------------------------------------------------------------
\* What holds of one job and its assignments, and is kept by every handler.

Sound(J, F) ==
  /\ J \in JobRecord
  /\ F \subseteq Assignment /\ IsFiniteSet(F)
  /\ Exclusive(J, F)
  /\ J.phase = "running" =>
       /\ Accounted(J, F)
       /\ Tallied(J, F)
       /\ J.completed < J.total
  /\ J.phase # "running" => J.available = {} /\ J.pending = <<>>
  /\ J.phase = "absent" => J = Absent /\ F = {}
  /\ J.phase = "done" => J.checksum = 1..J.total

\* A job that was never submitted has nothing.
LEMMA AbsentFacts ==
  /\ Absent \in JobRecord
  /\ Absent.phase = "absent" /\ Absent.available = {} /\ Absent.pending = <<>>
  /\ Absent.total = 0 /\ Absent.completed = 0 /\ Absent.checksum = {} /\ Absent.inFlight = 0
BY SchedulerAssumptions DEF Absent, JobRecord, Phases

\* Giving a job up keeps it sound, whatever is still outstanding.
LEMMA FailedSound ==
  ASSUME NEW J, NEW F, F \subseteq Assignment, IsFiniteSet(F),
         \A t, u \in F : t.worker = u.worker => t = u
  PROVE  Sound(Failed(J), F) /\ Failed(J).phase = "failed"
<1>1. /\ Failed(J) \in JobRecord /\ Failed(J).phase = "failed"
      /\ Failed(J).available = {} /\ Failed(J).pending = <<>>
  BY AbsentFacts DEF Failed, JobRecord, Phases
<1>2. QED
  BY <1>1 DEF Sound, Exclusive

\* A completed job keeps the aggregate it reports.
LEMMA FinishedFields ==
  ASSUME NEW K \in JobRecord
  PROVE  /\ Finished(K) \in JobRecord /\ Finished(K).phase = "done"
         /\ Finished(K).available = {} /\ Finished(K).pending = <<>>
         /\ Finished(K).checksum = K.checksum /\ Finished(K).total = K.total
<1>1. <<>> \in Seq(Chunk) /\ {} \in SUBSET Workers /\ 0 \in Nat /\ "done" \in Phases
  BY DEF Phases
<1>2. QED
  BY <1>1 DEF Finished, JobRecord

\* What take_matrix_dispatches hands out: as many new assignments as it pops chunks,
\* to different workers, none of them busy with the job.
LEMMA SentFacts ==
  ASSUME NEW j \in Jobs, NEW J \in JobRecord, J.phase = "running",
         NEW off \in [Workers -> Offers], NEW tie \in Ties
  PROVE  LET G == Sent(j, J, off, tie)
             k == TakeCount(J, off)
         IN  /\ k \in 0..Len(J.pending)
             /\ G \subseteq Assignment /\ IsFiniteSet(G) /\ Cardinality(G) = k
             /\ \A t \in G : t.job = j /\ t.worker \in J.available
                             /\ t.worker \in Takers(J, off, tie)
             /\ \A t, u \in G : t.worker = u.worker => t = u
             /\ \A t \in G : \E i \in 1..k : t.index = J.pending[i].index
             /\ \A i \in 1..k : \E t \in G : t.index = J.pending[i].index
             /\ \A t, u \in G : t # u =>
                  \E a, b \in 1..k : a # b /\ t.index = J.pending[a].index
                                           /\ u.index = J.pending[b].index
<1> DEFINE C == Candidates(J, off)
           k == TakeCount(J, off)
           T == Takers(J, off, tie)
           G == Sent(j, J, off, tie)
           R(w) == RankIn(C, off, tie, w)
           A(w) == [job |-> j, worker |-> w, index |-> J.pending[R(w)].index,
                    attempts |-> J.pending[R(w)].attempts + 1]
<1>1. C \in SUBSET Workers /\ C \subseteq J.available /\ T \subseteq C
  BY DEF Candidates, Takers, JobRecord
<1>2. IsFiniteSet(C) /\ Cardinality(C) \in Nat /\ IsFiniteSet(T)
  BY <1>1, WorkersFinite, FS_Subset, FS_CardinalityType
<1>3. J.pending \in Seq(Chunk) /\ Len(J.pending) \in Nat
  BY DEF JobRecord
<1>4. k \in 0..Len(J.pending) /\ k <= Cardinality(C) /\ k \in Nat
  BY <1>2, <1>3 DEF TakeCount, Lower
<1>5. \A w \in T : R(w) \in 1..k
  BY <1>1, <1>2, <1>4, RankRange DEF Takers
<1>6. \A v, w \in T : R(v) = R(w) => v = w
  BY <1>1, RankInjective
<1>7. \A i \in 1..k : \E w \in T : R(w) = i
  <2> TAKE i \in 1..k
  <2>1. i \in 1..Cardinality(C)
    BY <1>2, <1>4
  <2>2. PICK w \in C : R(w) = i
    BY <1>1, <2>1, RankOnto
  <2>3. w \in T
    BY <2>2, <1>4 DEF Takers
  <2>4. QED
    BY <2>2, <2>3
<1>8. G = {A(w) : w \in T}
  BY DEF Sent
<1>9. \A w \in T : A(w) \in Assignment
  <2> TAKE w \in T
  <2>1. J.pending[R(w)] \in Chunk
    BY <1>3, <1>4, <1>5
  <2>2. w \in Workers
    BY <1>1
  <2>3. QED
    BY <2>1, <2>2, SchedulerAssumptions DEF Chunk, Assignment
<1>10. IsFiniteSet(G) /\ Cardinality(G) = k
  <2> DEFINE f == [w \in T |-> A(w)]
             g == [w \in T |-> R(w)]
  <2>1. f \in Bijection(T, G)
    <3>1. f \in [T -> G]
      BY <1>8
    <3>2. \A v, w \in T : f[v] = f[w] => v = w
      OBVIOUS
    <3>3. \A t \in G : \E w \in T : f[w] = t
      BY <1>8
    <3>4. QED
      BY <3>1, <3>2, <3>3 DEF Bijection, Injection, Surjection, IsInjective
  <2>2. g \in Bijection(T, 1..k)
    <3>1. g \in [T -> 1..k]
      BY <1>5
    <3>2. \A v, w \in T : g[v] = g[w] => v = w
      BY <1>6
    <3>3. \A i \in 1..k : \E w \in T : g[w] = i
      BY <1>7
    <3>4. QED
      BY <3>1, <3>2, <3>3 DEF Bijection, Injection, Surjection, IsInjective
  <2>3. ExistsBijection(T, G) /\ ExistsBijection(T, 1..k)
    BY <2>1, <2>2 DEF ExistsBijection
  <2>4. Cardinality(1..k) = k
    BY <1>4, FS_Interval
  <2>5. QED
    BY <1>2, <2>3, <2>4, FS_Bijection
<1>11. \A t \in G : t.job = j /\ t.worker \in J.available /\ t.worker \in T
  BY <1>1, <1>8
<1>12. \A t, u \in G : t.worker = u.worker => t = u
  BY <1>8
<1>13. \A t \in G : \E i \in 1..k : t.index = J.pending[i].index
  BY <1>5, <1>8
<1>14. \A i \in 1..k : \E t \in G : t.index = J.pending[i].index
  <2> TAKE i \in 1..k
  <2>1. PICK w \in T : R(w) = i
    BY <1>7
  <2>2. A(w) \in G /\ A(w).index = J.pending[i].index
    BY <1>8, <2>1
  <2>3. QED
    BY <2>2
<1>15. \A t, u \in G : t # u =>
         \E a, b \in 1..k : a # b /\ t.index = J.pending[a].index
                                  /\ u.index = J.pending[b].index
  <2> SUFFICES ASSUME NEW v \in T, NEW w \in T, A(v) # A(w)
               PROVE  \E a, b \in 1..k : a # b /\ A(v).index = J.pending[a].index
                                              /\ A(w).index = J.pending[b].index
    BY <1>8
  <2>1. v # w
    OBVIOUS
  <2>2. R(v) # R(w)
    BY <1>6, <2>1
  <2>3. R(v) \in 1..k /\ R(w) \in 1..k
    BY <1>5
  <2>4. QED
    BY <2>2, <2>3
<1>16. QED
  BY <1>4, <1>8, <1>9, <1>10, <1>11, <1>12, <1>13, <1>14, <1>15


\* The job after take_matrix_dispatches, field by field.
LEMMA TakenFields ==
  ASSUME NEW J \in JobRecord, NEW off \in [Workers -> Offers], NEW tie \in Ties,
         NEW k, k = TakeCount(J, off), k \in 0..Len(J.pending)
  PROVE  LET K == Taken(J, off, tie)
         IN  /\ K \in JobRecord
             /\ K.phase = J.phase /\ K.total = J.total
             /\ K.completed = J.completed /\ K.checksum = J.checksum
             /\ K.available = J.available \ Takers(J, off, tie)
             /\ K.inFlight = J.inFlight + k
             /\ Len(K.pending) = Len(J.pending) - k
             /\ \A i \in 1..Len(K.pending) : K.pending[i] = J.pending[i + k]
<1> DEFINE K == Taken(J, off, tie)
           q == SubSeq(J.pending, k + 1, Len(J.pending))
<1>1. J.pending \in Seq(Chunk) /\ Len(J.pending) \in Nat /\ k \in Nat
      /\ J.inFlight \in Nat /\ J.available \in SUBSET Workers
  BY DEF JobRecord
<1>2. /\ q \in Seq(Chunk)
      /\ Len(q) = Len(J.pending) - k
      /\ \A i \in 1..Len(q) : q[i] = J.pending[i + k]
  <2>1. k + 1 \in 1..(Len(J.pending) + 1) /\ Len(J.pending) \in (k + 1) - 1..Len(J.pending)
    BY <1>1
  <2>2. /\ q \in Seq(Chunk)
        /\ Len(q) = Len(J.pending) - (k + 1) + 1
        /\ \A i \in 1..(Len(J.pending) - (k + 1) + 1) : q[i] = J.pending[(k + 1) + i - 1]
    BY <1>1, <2>1, SubSeqProperties
  <2>3. Len(q) = Len(J.pending) - k
    BY <1>1, <2>2
  <2>4. ASSUME NEW i \in 1..Len(q) PROVE q[i] = J.pending[i + k]
    <3>1. (k + 1) + i - 1 = i + k /\ i \in 1..(Len(J.pending) - (k + 1) + 1)
      BY <1>1, <2>2
    <3>2. QED
      BY <2>2, <3>1
  <2>5. QED
    BY <2>2, <2>3, <2>4
<1>3. /\ K.phase = J.phase /\ K.total = J.total
      /\ K.completed = J.completed /\ K.checksum = J.checksum
      /\ K.available = J.available \ Takers(J, off, tie)
      /\ K.inFlight = J.inFlight + k
      /\ K.pending = q
  BY DEF Taken, JobRecord
<1>4. K \in JobRecord
  <2>1. J.inFlight + k \in Nat
    BY <1>1
  <2>2. J.available \ Takers(J, off, tie) \in SUBSET Workers
    BY <1>1
  <2>3. QED
    BY <1>2, <2>1, <2>2 DEF Taken, JobRecord
<1>5. QED
  BY <1>2, <1>3, <1>4

\* A sequence without its first k elements, place by place.
LEMMA Shifted ==
  ASSUME NEW p, NEW q, NEW n \in Nat, NEW m \in Nat, NEW k \in Nat, m = n - k,
         \A i \in 1..m : q[i] = p[i + k]
  PROVE  /\ \A i \in 1..m : i + k \in (k + 1)..n /\ i + k \in 1..n /\ q[i] = p[i + k]
         /\ \A i \in (k + 1)..n : i - k \in 1..m /\ q[i - k] = p[i]
<1>1. ASSUME NEW i \in 1..m PROVE i + k \in (k + 1)..n /\ i + k \in 1..n
  OBVIOUS
<1>2. ASSUME NEW i \in (k + 1)..n PROVE i - k \in 1..m /\ q[i - k] = p[i]
  <2>1. i - k \in 1..m /\ (i - k) + k = i
    OBVIOUS
  <2>2. QED
    BY <2>1
<1>3. QED
  BY <1>1, <1>2

\* Dispatch keeps a job sound, and a job still running afterwards waits for an answer.
LEMMA DispatchedSound ==
  ASSUME NEW j \in Jobs, NEW J, NEW F, Sound(J, F),
         NEW off \in [Workers -> Offers], NEW tie \in Ties
  PROVE  LET K == Dispatched(J, off, tie)
             H == F \cup Sent(j, J, off, tie)
         IN  /\ Sound(K, H)
             /\ K.phase = "running" => H # {}
<1> DEFINE K == Dispatched(J, off, tie)
           G == Sent(j, J, off, tie)
           H == F \cup G
           k == TakeCount(J, off)
           M == Taken(J, off, tie)
<1>1. CASE J.phase # "running"
  <2>1. K = J /\ G = {}
    BY <1>1 DEF Dispatched, Sent
  <2>2. H = F
    BY <2>1
  <2>3. QED
    BY <1>1, <2>1, <2>2
<1>2. CASE J.phase = "running"
  <2>1. /\ J \in JobRecord /\ F \subseteq Assignment /\ IsFiniteSet(F)
        /\ Exclusive(J, F) /\ Accounted(J, F) /\ Tallied(J, F) /\ J.completed < J.total
    BY <1>2 DEF Sound
  <2>2. /\ k \in 0..Len(J.pending)
        /\ G \subseteq Assignment /\ IsFiniteSet(G) /\ Cardinality(G) = k
        /\ \A t \in G : t.worker \in J.available /\ t.worker \in Takers(J, off, tie)
        /\ \A t, u \in G : t.worker = u.worker => t = u
        /\ \A t \in G : \E i \in 1..k : t.index = J.pending[i].index
        /\ \A i \in 1..k : \E t \in G : t.index = J.pending[i].index
        /\ \A t, u \in G : t # u =>
             \E a, b \in 1..k : a # b /\ t.index = J.pending[a].index
                                      /\ u.index = J.pending[b].index
    BY <1>2, <2>1, SentFacts
  <2>3. /\ M \in JobRecord
        /\ M.phase = J.phase /\ M.total = J.total
        /\ M.completed = J.completed /\ M.checksum = J.checksum
        /\ M.available = J.available \ Takers(J, off, tie)
        /\ M.inFlight = J.inFlight + k
        /\ Len(M.pending) = Len(J.pending) - k
        /\ \A i \in 1..Len(M.pending) : M.pending[i] = J.pending[i + k]
    BY <2>1, <2>2, TakenFields
  <2>4. F \cap G = {}
    BY <2>1, <2>2 DEF Exclusive
  <2>5. H \subseteq Assignment /\ IsFiniteSet(H)
    BY <2>1, <2>2, FS_Union
  <2>6. \A t, u \in H : t.worker = u.worker => t = u
    BY <2>1, <2>2 DEF Exclusive
  <2>7. CASE Unavailable(M, off)
    <3>1. K = Failed(J)
      BY <1>2, <2>7 DEF Dispatched
    <3>2. QED
      BY <2>5, <2>6, <3>1, FailedSound
  <2>8. CASE ~ Unavailable(M, off)
    <3>1. K = M
      BY <1>2, <2>8 DEF Dispatched
    <3>2. Exclusive(M, H)
      BY <2>1, <2>2, <2>3, <2>6 DEF Exclusive
    <3>3. Len(J.pending) \in Nat /\ Len(M.pending) \in Nat
          /\ DOMAIN J.pending = 1..Len(J.pending) /\ DOMAIN M.pending = 1..Len(M.pending)
          /\ k \in Nat /\ k <= Len(J.pending) /\ Len(M.pending) = Len(J.pending) - k
          /\ \A i \in 1..Len(M.pending) : M.pending[i] = J.pending[i + k]
      <4>1. J.pending \in Seq(Chunk) /\ M.pending \in Seq(Chunk)
        BY <2>1, <2>3 DEF JobRecord
      <4>2. /\ Len(J.pending) \in Nat /\ Len(M.pending) \in Nat
            /\ DOMAIN J.pending = 1..Len(J.pending) /\ DOMAIN M.pending = 1..Len(M.pending)
        BY <4>1
      <4>3. k \in Nat /\ k <= Len(J.pending)
        BY <2>2, <4>2
      <4>4. QED
        BY <2>3, <4>2, <4>3
    <3>9. /\ \A i \in DOMAIN M.pending : /\ i + k \in (k + 1)..Len(J.pending)
                                         /\ i + k \in DOMAIN J.pending
                                         /\ M.pending[i] = J.pending[i + k]
          /\ \A i \in (k + 1)..Len(J.pending) : /\ i - k \in DOMAIN M.pending
                                                /\ M.pending[i - k] = J.pending[i]
      <4> DEFINE p == J.pending
                 q == M.pending
                 n == Len(p)
                 m == Len(q)
      <4>1. /\ n \in Nat /\ m \in Nat /\ k \in Nat /\ m = n - k
            /\ \A i \in 1..m : q[i] = p[i + k]
        BY <3>3
      <4>2. DOMAIN p = 1..n /\ DOMAIN q = 1..m
        BY <3>3
      <4> HIDE DEF p, q, n, m, k, M
      <4>3. /\ \A i \in 1..m : i + k \in (k + 1)..n /\ i + k \in 1..n /\ q[i] = p[i + k]
            /\ \A i \in (k + 1)..n : i - k \in 1..m /\ q[i - k] = p[i]
        BY <4>1, Shifted
      <4>4. QED
        BY <4>2, <4>3 DEF p, q, n, m
    <3>4. Accounted(M, H)
      <4> DEFINE qJ == {J.pending[i].index : i \in DOMAIN J.pending}
                 qM == {M.pending[i].index : i \in DOMAIN M.pending}
                 oF == {t.index : t \in F}
                 oG == {t.index : t \in G}
                 oH == {t.index : t \in H}
      <4>1. /\ qJ \cup oF \cup J.checksum = 1..J.total
            /\ qJ \cap oF = {} /\ qJ \cap J.checksum = {} /\ oF \cap J.checksum = {}
            /\ \A a, b \in DOMAIN J.pending :
                 J.pending[a].index = J.pending[b].index => a = b
            /\ \A t, u \in F : t.index = u.index => t = u
        <5>1. Accounted(J, F)
          BY <2>1
        <5>2. QED
          BY <5>1 DEF Accounted
      <4>2. oH = oF \cup oG
        <5>1. \A t : t \in H <=> t \in F \/ t \in G
          OBVIOUS
        <5> HIDE DEF G, H
        <5>2. QED
          BY <5>1
      <4>3. qM = {J.pending[i].index : i \in (k + 1)..Len(J.pending)}
        <5>1. \A i \in DOMAIN M.pending :
                i + k \in (k + 1)..Len(J.pending) /\ M.pending[i] = J.pending[i + k]
          BY <3>9
        <5>2. \A i \in (k + 1)..Len(J.pending) :
                i - k \in DOMAIN M.pending /\ M.pending[i - k] = J.pending[i]
          BY <3>9
        <5>3. qM \subseteq {J.pending[i].index : i \in (k + 1)..Len(J.pending)}
          BY <5>1
        <5>4. {J.pending[i].index : i \in (k + 1)..Len(J.pending)} \subseteq qM
          BY <5>2
        <5>5. QED
          BY <5>3, <5>4
      <4>4. oG = {J.pending[i].index : i \in 1..k}
        <5>1. oG \subseteq {J.pending[i].index : i \in 1..k}
          <6> SUFFICES ASSUME NEW t \in G
                       PROVE  t.index \in {J.pending[i].index : i \in 1..k}
            OBVIOUS
          <6>1. PICK i \in 1..k : t.index = J.pending[i].index
            BY <2>2
          <6>2. QED
            BY <6>1
        <5>2. {J.pending[i].index : i \in 1..k} \subseteq oG
          <6>1. \A i \in 1..k : \E t \in G : t.index = J.pending[i].index
            BY <2>2
          <6> HIDE DEF G, k
          <6>2. QED
            BY <6>1
        <5>3. QED
          BY <5>1, <5>2
      <4>5. (1..k) \cup ((k + 1)..Len(J.pending)) = DOMAIN J.pending
        BY <2>2, <3>3
      <4>6. qJ = qM \cup oG
        BY <4>3, <4>4, <4>5
      <4>7. qM \cap oG = {}
        <5>1. \A a \in 1..k, b \in (k + 1)..Len(J.pending) :
                J.pending[a].index # J.pending[b].index
          <6> TAKE a \in 1..k, b \in (k + 1)..Len(J.pending)
          <6>1. a # b
            BY <2>2, <3>3
          <6>2. a \in DOMAIN J.pending /\ b \in DOMAIN J.pending
            BY <4>5
          <6>3. QED
            BY <4>1, <6>1, <6>2
        <5>2. QED
          BY <4>3, <4>4, <5>1
      <4>8. /\ qM \cup oH \cup M.checksum = 1..M.total
            /\ qM \cap oH = {} /\ qM \cap M.checksum = {} /\ oH \cap M.checksum = {}
        <5>1. M.checksum = J.checksum /\ M.total = J.total
          BY <2>3
        <5> HIDE DEF qJ, qM, oF, oG, oH, M
        <5>2. QED
          BY <4>1, <4>2, <4>6, <4>7, <5>1
      <4>9. \A a, b \in DOMAIN M.pending : M.pending[a].index = M.pending[b].index => a = b
        <5> SUFFICES ASSUME NEW a \in DOMAIN M.pending, NEW b \in DOMAIN M.pending,
                            M.pending[a].index = M.pending[b].index
                     PROVE  a = b
          OBVIOUS
        <5>1. a + k \in DOMAIN J.pending /\ b + k \in DOMAIN J.pending
          BY <3>9
        <5>2. J.pending[a + k].index = J.pending[b + k].index
          BY <2>3, <3>3
        <5>3. a + k = b + k
          BY <4>1, <5>1, <5>2
        <5>4. QED
          BY <5>3, <2>2, <3>3
      <4>10. \A t, u \in H : t.index = u.index => t = u
        <5>1. \A t, u \in G : t.index = u.index => t = u
          <6> SUFFICES ASSUME NEW t \in G, NEW u \in G, t.index = u.index, t # u
                       PROVE  FALSE
            OBVIOUS
          <6>1. PICK a \in 1..k, b \in 1..k :
                  a # b /\ t.index = J.pending[a].index /\ u.index = J.pending[b].index
            BY <2>2
          <6>2. a \in DOMAIN J.pending /\ b \in DOMAIN J.pending
            BY <4>5
          <6>3. QED
            BY <4>1, <6>1, <6>2
        <5>2. \A t \in F, u \in G : t.index # u.index
          BY <4>1, <4>6
        <5>3. QED
          BY <4>1, <5>1, <5>2
      <4>11. QED
        BY <4>8, <4>9, <4>10 DEF Accounted
    <3>5. Tallied(M, H)
      <4>1. Cardinality(H) = Cardinality(F) + Cardinality(G) - Cardinality(F \cap G)
        BY <2>1, <2>2, FS_Union
      <4>2. Cardinality(F \cap G) = 0
        BY <2>4, FS_EmptySet
      <4>3. Cardinality(F) \in Nat /\ k \in Nat
        BY <2>1, <2>2, FS_CardinalityType
      <4>4. QED
        BY <2>1, <2>2, <2>3, <4>1, <4>2, <4>3 DEF Tallied
    <3>6. Sound(M, H)
      <4>1. M.completed < M.total
        BY <2>1, <2>3
      <4>2. QED
        BY <1>2, <2>3, <2>5, <3>2, <3>4, <3>5, <4>1 DEF Sound
    <3>7. H # {}
      <4> SUFFICES ASSUME H = {} PROVE FALSE
        OBVIOUS
      <4>1. F = {} /\ G = {} /\ k = 0 /\ J.inFlight = 0
        BY <2>1, <2>2, FS_EmptySet DEF Tallied
      <4>2. M.inFlight = 0 /\ Takers(J, off, tie) \subseteq Candidates(J, off)
        BY <4>1, <2>3 DEF Takers
      <4>3. CASE M.pending = <<>>
        <5>1. DOMAIN J.pending = {}
          BY <2>3, <3>3, <4>1, <4>3
        <5>2. J.checksum = 1..J.total
          <6>1. {J.pending[i].index : i \in DOMAIN J.pending} = {} /\ {t.index : t \in F} = {}
            BY <4>1, <5>1
          <6>2. Accounted(J, F)
            BY <2>1
          <6>3. QED
            BY <6>1, <6>2 DEF Accounted
        <5>3. Cardinality(1..J.total) = J.total
          BY <2>1, FS_Interval DEF JobRecord
        <5>4. QED
          BY <2>1, <5>2, <5>3 DEF Tallied, JobRecord
      <4>4. CASE M.pending # <<>>
        <5>1. Candidates(M, off) # {}
          BY <2>8, <4>2, <4>4 DEF Unavailable
        <5>2. Candidates(J, off) # {}
          BY <5>1, <2>3 DEF Candidates
        <5>3. IsFiniteSet(Candidates(J, off))
          BY <2>1, WorkersFinite, FS_Subset DEF Candidates, JobRecord
        <5>4. Cardinality(Candidates(J, off)) \in Nat \ {0}
          BY <5>2, <5>3, FS_CardinalityType, FS_EmptySet
        <5>5. Len(J.pending) # 0
          BY <2>3, <3>3, <4>1, <4>4
        <5>6. QED
          BY <3>3, <4>1, <5>4, <5>5 DEF TakeCount, Lower
      <4>5. QED
        BY <4>3, <4>4
    <3>8. QED
      BY <3>1, <3>6, <3>7
  <2>9. QED
    BY <2>7, <2>8
<1>3. QED
  BY <1>1, <1>2

---------------------------------------------------------------------------
\* The handlers.

\* A failed chunk goes back to the front of the queue, or the job is given up.
LEMMA RetriedSound ==
  ASSUME NEW J, NEW F, Sound(J, F), NEW t \in F
  PROVE  Sound(Retried(J, t), F \ {t})
<1> DEFINE E == F \ {t}
           c == [index |-> t.index, attempts |-> t.attempts]
           K == Requeued(J, t)
<1>1. /\ J \in JobRecord /\ F \subseteq Assignment /\ IsFiniteSet(F) /\ Exclusive(J, F)
  BY DEF Sound
<1>2. /\ E \subseteq Assignment /\ IsFiniteSet(E)
      /\ \A u, v \in E : u.worker = v.worker => u = v
  BY <1>1, FS_RemoveElement DEF Exclusive
<1>3. CASE J.phase # "running"
  <2>1. Retried(J, t) = J
    BY <1>3 DEF Retried, Settled
  <2>2. J.phase # "absent"
    BY DEF Sound
  <2>3. Exclusive(J, E)
    BY <1>1 DEF Exclusive
  <2>4. QED
    BY <1>1, <1>2, <1>3, <2>1, <2>2, <2>3 DEF Sound
<1>4. CASE J.phase = "running" /\ Hopeless(K, t)
  <2>1. Retried(J, t) = Failed(J)
    BY <1>4 DEF Retried, Settled
  <2>2. QED
    BY <1>2, <2>1, FailedSound
<1>5. CASE J.phase = "running" /\ ~ Hopeless(K, t)
  <2>1. Retried(J, t) = K
    BY <1>5 DEF Retried, Settled
  <2>2. Accounted(J, F) /\ Tallied(J, F) /\ J.completed < J.total
    BY <1>5 DEF Sound
  <2>3. t \in Assignment /\ ~ (t.attempts >= MaxAttempts)
    BY <1>1, <1>5 DEF Hopeless
  <2>4. c \in Chunk
    BY <2>3, SchedulerAssumptions DEF Assignment, Chunk
  <2>5. /\ J.pending \in Seq(Chunk) /\ Len(J.pending) \in Nat
        /\ J.inFlight \in Nat /\ J.available \in SUBSET Workers
    BY <1>1 DEF JobRecord
  <2>6. /\ <<c>> \o J.pending \in Seq(Chunk)
        /\ Len(<<c>> \o J.pending) = Len(J.pending) + 1
        /\ \A i \in 1..(Len(J.pending) + 1) :
             (<<c>> \o J.pending)[i] = IF i = 1 THEN c ELSE J.pending[i - 1]
    <3>1. <<c>> \in Seq(Chunk) /\ Len(<<c>>) = 1 /\ <<c>>[1] = c
      BY <2>4
    <3>2. /\ <<c>> \o J.pending \in Seq(Chunk)
          /\ Len(<<c>> \o J.pending) = 1 + Len(J.pending)
          /\ \A i \in 1..(1 + Len(J.pending)) :
               (<<c>> \o J.pending)[i] = IF i <= 1 THEN <<c>>[i] ELSE J.pending[i - 1]
      BY <2>5, <3>1, ConcatProperties
    <3>3. QED
      BY <2>5, <3>1, <3>2
  <2>7. /\ K.phase = J.phase /\ K.total = J.total
        /\ K.completed = J.completed /\ K.checksum = J.checksum
        /\ K.available = J.available \ {t.worker}
        /\ K.inFlight = SaturatingDecrement(J.inFlight)
        /\ K.pending = <<c>> \o J.pending
    BY <1>1 DEF Requeued, JobRecord
  <2>8. Cardinality(E) = Cardinality(F) - 1 /\ Cardinality(F) \in Nat \ {0}
    BY <1>1, FS_RemoveElement, FS_CardinalityType, FS_EmptySet
  <2>9. K.inFlight = Cardinality(E) /\ K.inFlight \in Nat
    BY <2>2, <2>7, <2>8 DEF Tallied, SaturatingDecrement
  <2>10. K \in JobRecord
    <3>1. SaturatingDecrement(J.inFlight) \in Nat
      BY <2>7, <2>9
    <3>2. J.available \ {t.worker} \in SUBSET Workers
      BY <2>5
    <3>3. QED
      BY <1>1, <2>6, <3>1, <3>2 DEF Requeued, JobRecord
  <2> HIDE DEF K, c
  <2>11. Exclusive(K, E)
    BY <1>1, <1>2, <2>7 DEF Exclusive
  <2>12. Tallied(K, E)
    BY <2>2, <2>7, <2>9 DEF Tallied
  <2>13. Accounted(K, E)
    <3> DEFINE qJ == {J.pending[i].index : i \in DOMAIN J.pending}
               qK == {K.pending[i].index : i \in DOMAIN K.pending}
               oF == {u.index : u \in F}
               oE == {u.index : u \in E}
    <3>1. /\ qJ \cup oF \cup J.checksum = 1..J.total
          /\ qJ \cap oF = {} /\ qJ \cap J.checksum = {} /\ oF \cap J.checksum = {}
          /\ \A a, b \in DOMAIN J.pending :
               J.pending[a].index = J.pending[b].index => a = b
          /\ \A u, v \in F : u.index = v.index => u = v
      BY <2>2 DEF Accounted
    <3>2. DOMAIN J.pending = 1..Len(J.pending) /\ DOMAIN K.pending = 1..(Len(J.pending) + 1)
      BY <2>5, <2>6, <2>7
    <3>3. /\ K.pending[1].index = t.index /\ 1 \in DOMAIN K.pending
          /\ \A i \in DOMAIN J.pending :
               i + 1 \in DOMAIN K.pending /\ K.pending[i + 1] = J.pending[i]
          /\ \A i \in DOMAIN K.pending : i # 1 =>
               i - 1 \in DOMAIN J.pending /\ K.pending[i] = J.pending[i - 1]
      <4>1. 1 \in DOMAIN K.pending /\ K.pending[1] = c /\ c.index = t.index
        BY <2>5, <2>6, <2>7, <3>2 DEF c
      <4>2. /\ Len(J.pending) \in Nat
            /\ \A i \in 1..Len(J.pending) : K.pending[i + 1] = J.pending[i]
        BY <2>5, <2>6, <2>7
      <4> DEFINE n == Len(J.pending)
      <4>3. n \in Nat /\ DOMAIN J.pending = 1..n /\ DOMAIN K.pending = 1..(n + 1)
            /\ \A i \in 1..n : K.pending[i + 1] = J.pending[i]
        BY <3>2, <4>2
      <4> HIDE DEF n
      <4>4. \A i \in DOMAIN J.pending : i + 1 \in DOMAIN K.pending /\ K.pending[i + 1] = J.pending[i]
        BY <4>3
      <4>5. ASSUME NEW i \in DOMAIN K.pending, i # 1
            PROVE  i - 1 \in DOMAIN J.pending /\ K.pending[i] = J.pending[i - 1]
        <5>1. i - 1 \in 1..n /\ (i - 1) + 1 = i
          BY <4>3, <4>5
        <5>2. QED
          BY <4>3, <5>1
      <4>6. QED
        BY <4>1, <4>4, <4>5
    <3>4. qK = qJ \cup {t.index}
      <4>1. qK \subseteq qJ \cup {t.index}
        BY <3>3
      <4>2. qJ \cup {t.index} \subseteq qK
        <5>1. t.index \in qK
          BY <3>3
        <5>2. ASSUME NEW i \in DOMAIN J.pending PROVE J.pending[i].index \in qK
          <6>1. i + 1 \in DOMAIN K.pending /\ K.pending[i + 1].index = J.pending[i].index
            BY <3>3
          <6>2. QED
            BY <6>1
        <5>3. QED
          BY <5>1, <5>2
      <4>3. QED
        BY <4>1, <4>2
    <3>5. oF = oE \cup {t.index} /\ t.index \notin oE
      BY <3>1
    <3> HIDE DEF qJ, qK, oF, oE
    <3>6. /\ qK \cup oE \cup K.checksum = 1..K.total
          /\ qK \cap oE = {} /\ qK \cap K.checksum = {} /\ oE \cap K.checksum = {}
      BY <2>7, <3>1, <3>4, <3>5
    <3>7. ASSUME NEW a \in DOMAIN K.pending, NEW b \in DOMAIN K.pending,
                 K.pending[a].index = K.pending[b].index
          PROVE  a = b
      <4>1. t.index \notin qJ
        BY <3>1, <3>5
      <4>2. \A i \in DOMAIN K.pending : i # 1 => K.pending[i].index # t.index
        BY <3>3, <4>1 DEF qJ
      <4>3. CASE a = 1 \/ b = 1
        BY <3>3, <3>7, <4>2, <4>3
      <4>4. CASE a # 1 /\ b # 1
        <5>1. a - 1 = b - 1
          BY <3>1, <3>3, <3>7, <4>4
        <5>2. QED
          BY <3>2, <5>1, <2>5
      <4>5. QED
        BY <4>3, <4>4
    <3>8. \A u, v \in E : u.index = v.index => u = v
      BY <3>1
    <3>9. QED
      BY <3>6, <3>7, <3>8 DEF Accounted, qK, oE
  <2>14. K.completed < K.total
    BY <2>2, <2>7
  <2>15. QED
    BY <1>2, <1>5, <2>1, <2>7, <2>10, <2>11, <2>12, <2>13, <2>14 DEF Sound
<1>6. QED
  BY <1>3, <1>4, <1>5

\* A counted chunk leaves its place among the assignments for one in the checksum; the
\* last one makes the checksum that of all rows.
LEMMA CountedSound ==
  ASSUME NEW J, NEW F, Sound(J, F), NEW t \in F
  PROVE  Sound(Counted(J, t), F \ {t})
<1> DEFINE E == F \ {t}
           K == Added(J, t)
<1>1. /\ J \in JobRecord /\ F \subseteq Assignment /\ IsFiniteSet(F) /\ Exclusive(J, F)
  BY DEF Sound
<1>2. /\ E \subseteq Assignment /\ IsFiniteSet(E)
      /\ \A u, v \in E : u.worker = v.worker => u = v
  BY <1>1, FS_RemoveElement DEF Exclusive
<1>3. CASE J.phase # "running"
  <2>1. Counted(J, t) = J
    BY <1>3 DEF Counted
  <2>2. J.phase # "absent"
    BY DEF Sound
  <2>3. Exclusive(J, E)
    BY <1>1 DEF Exclusive
  <2>4. QED
    BY <1>1, <1>2, <1>3, <2>1, <2>2, <2>3 DEF Sound
<1>4. CASE J.phase = "running"
  <2>1. Accounted(J, F) /\ Tallied(J, F) /\ J.completed < J.total
    BY <1>4 DEF Sound
  <2>2. /\ J.inFlight \in Nat /\ J.available \in SUBSET Workers /\ J.total \in 0..MaxChunks
        /\ J.checksum \in SUBSET ChunkIds /\ J.completed \in Nat
        /\ t.worker \in Workers /\ t.index \in ChunkIds
    BY <1>1 DEF JobRecord, Assignment
  <2>3. t.index \notin J.checksum
    BY <2>1 DEF Accounted
  <2>4. SymmetricDifference(J.checksum, {t.index}) = J.checksum \cup {t.index}
    BY <2>3 DEF SymmetricDifference
  <2>5. /\ K.phase = J.phase /\ K.total = J.total /\ K.pending = J.pending
        /\ K.completed = J.completed + 1
        /\ K.checksum = J.checksum \cup {t.index}
        /\ K.available = J.available \cup {t.worker}
        /\ K.inFlight = SaturatingDecrement(J.inFlight)
    BY <1>1, <2>4 DEF Added, JobRecord
  <2>6. Cardinality(E) = Cardinality(F) - 1 /\ Cardinality(F) \in Nat \ {0}
    BY <1>1, FS_RemoveElement, FS_CardinalityType, FS_EmptySet
  <2>7. K.inFlight = Cardinality(E) /\ K.inFlight \in Nat
    BY <2>1, <2>5, <2>6 DEF Tallied, SaturatingDecrement
  <2>8. K \in JobRecord
    <3> HIDE DEF K
    <3>1. SaturatingDecrement(J.inFlight) \in Nat
      BY <2>5, <2>7
    <3>2. /\ J.available \cup {t.worker} \in SUBSET Workers
          /\ J.completed + 1 \in Nat
      BY <2>2
    <3>3. SymmetricDifference(J.checksum, {t.index}) \in SUBSET ChunkIds
      BY <2>2, <2>4
    <3>4. QED
      BY <1>1, <3>1, <3>2, <3>3 DEF K, Added, JobRecord
  <2>9. IsFiniteSet(J.checksum)
    <3>1. IsFiniteSet(ChunkIds)
      BY SchedulerAssumptions, FS_Interval DEF ChunkIds
    <3>2. QED
      BY <2>2, <3>1, FS_Subset
  <2> HIDE DEF K
  <2>10. IsFiniteSet(K.checksum) /\ K.completed = Cardinality(K.checksum)
    <3>1. /\ IsFiniteSet(J.checksum \cup {t.index})
          /\ Cardinality(J.checksum \cup {t.index}) = Cardinality(J.checksum) + 1
      BY <2>3, <2>9, FS_AddElement
    <3>2. J.completed = Cardinality(J.checksum)
      BY <2>1 DEF Tallied
    <3>3. QED
      BY <2>5, <3>1, <3>2
  <2>11. Accounted(K, E)
    <3> DEFINE q == {J.pending[i].index : i \in DOMAIN J.pending}
               oF == {u.index : u \in F}
               oE == {u.index : u \in E}
    <3>1. /\ q \cup oF \cup J.checksum = 1..J.total
          /\ q \cap oF = {} /\ q \cap J.checksum = {} /\ oF \cap J.checksum = {}
          /\ \A a, b \in DOMAIN J.pending :
               J.pending[a].index = J.pending[b].index => a = b
          /\ \A u, v \in F : u.index = v.index => u = v
      BY <2>1 DEF Accounted
    <3>2. oF = oE \cup {t.index} /\ t.index \notin oE
      BY <3>1
    <3> HIDE DEF q, oF, oE
    <3>3. /\ q \cup oE \cup K.checksum = 1..K.total
          /\ q \cap oE = {} /\ q \cap K.checksum = {} /\ oE \cap K.checksum = {}
      BY <2>5, <3>1, <3>2
    <3>4. QED
      BY <2>5, <3>1, <3>3 DEF Accounted, q, oE
  <2>12. Exclusive(K, E)
    BY <1>1, <1>2, <2>5 DEF Exclusive
  <2>13. CASE J.completed + 1 = J.total
    <3>1. Counted(J, t) = Finished(K)
      BY <1>4, <2>13 DEF Counted, K
    <3>2. K.checksum \in SUBSET (1..J.total)
      BY <2>5, <2>11 DEF Accounted
    <3>3. IsFiniteSet(1..J.total) /\ Cardinality(1..J.total) = J.total
      <4>1. J.total \in Nat
        BY <2>2
      <4>2. \A n \in Nat : IsFiniteSet(1..n) /\ Cardinality(1..n) = n
        BY FS_Interval
      <4>3. QED
        BY <4>1, <4>2
    <3>4. K.checksum = 1..K.total
      <4>1. Cardinality(1..J.total) = Cardinality(K.checksum)
        BY <2>5, <2>10, <2>13, <3>3
      <4>2. 1..J.total = K.checksum
        BY <3>2, <3>3, <4>1, FS_Subset
      <4>3. QED
        BY <2>5, <4>2
    <3>5. /\ Finished(K) \in JobRecord /\ Finished(K).phase = "done"
          /\ Finished(K).available = {} /\ Finished(K).pending = <<>>
          /\ Finished(K).checksum = K.checksum /\ Finished(K).total = K.total
      BY <2>8, FinishedFields
    <3>6. QED
      BY <1>2, <3>1, <3>4, <3>5 DEF Sound, Exclusive
  <2>14. CASE J.completed + 1 # J.total
    <3>1. Counted(J, t) = K
      BY <1>4, <2>14 DEF Counted, K
    <3>2. K.completed < K.total
      BY <2>1, <2>2, <2>5, <2>14
    <3>3. Tallied(K, E)
      BY <2>7, <2>10 DEF Tallied
    <3>4. QED
      BY <1>2, <1>4, <2>5, <2>8, <2>11, <2>12, <3>1, <3>2, <3>3 DEF Sound
  <2>15. QED
    BY <2>13, <2>14
<1>5. QED
  BY <1>3, <1>4

\* A new job queues every chunk once, or is rejected for want of workers.
LEMMA PlannedSound ==
  ASSUME NEW n \in ChunkIds, NEW off \in [Workers -> Offers]
  PROVE  LET K == Planned(n, off)
         IN  /\ Sound(K, {})
             /\ K.phase = "running" => K.total = n /\ K.checksum = {}
             /\ K.phase # "running" => K = Failed(Absent)
<1> DEFINE K == Planned(n, off)
           q == [i \in 1..n |-> [index |-> i, attempts |-> 0]]
<1>1. IsFiniteSet({}) /\ Cardinality({}) = 0
  BY FS_EmptySet
<1>2. CASE EligibleNow(off) = {}
  <2>1. K = Failed(Absent)
    BY <1>2 DEF Planned
  <2>2. QED
    BY <1>1, <2>1, FailedSound
<1>3. CASE EligibleNow(off) # {}
  <2>1. n \in 1..MaxChunks /\ n \in Nat /\ MaxAttempts - 1 \in Nat
    BY SchedulerAssumptions DEF ChunkIds
  <2>2. q \in [1..n -> Chunk]
    BY <2>1, SchedulerAssumptions DEF Chunk, ChunkIds
  <2>3. q \in Seq(Chunk) /\ DOMAIN q = 1..n
    BY <2>1, <2>2
  <2>4. EligibleNow(off) \in SUBSET Workers
    BY DEF EligibleNow
  <2>5. /\ K.phase = "running" /\ K.total = n /\ K.completed = 0 /\ K.checksum = {}
        /\ K.pending = q /\ K.available = EligibleNow(off) /\ K.inFlight = 0
    BY <1>3, AbsentFacts DEF Planned, JobRecord
  <2>6. K \in JobRecord
    <3>1. n \in 0..MaxChunks /\ "running" \in Phases
      BY <2>1 DEF Phases
    <3> HIDE DEF q
    <3>2. QED
      BY <1>3, <2>3, <2>4, <3>1, AbsentFacts DEF Planned, JobRecord, q
  <2> HIDE DEF K
  <2>7. Accounted(K, {})
    <3> DEFINE qK == {K.pending[i].index : i \in DOMAIN K.pending}
    <3>1. qK = 1..n
      BY <2>3, <2>5
    <3>2. \A i, k \in DOMAIN K.pending : K.pending[i].index = K.pending[k].index => i = k
      BY <2>3, <2>5
    <3>3. QED
      BY <2>5, <3>1, <3>2 DEF Accounted
  <2>8. Tallied(K, {}) /\ Exclusive(K, {}) /\ K.completed < K.total
    BY <1>1, <2>1, <2>5 DEF Tallied, Exclusive
  <2>9. Sound(K, {})
    BY <1>1, <2>5, <2>6, <2>7, <2>8 DEF Sound
  <2>10. QED
    BY <2>5, <2>9 DEF K
<1>4. QED
  BY <1>2, <1>3

---------------------------------------------------------------------------
\* The invariant.

IInv ==
  /\ job \in [Jobs -> JobRecord]
  /\ flight \subseteq Assignment
  /\ offer \in [Workers -> Offers]
  /\ \A j \in Jobs : Sound(job[j], Flights(j))
  /\ \A j \in Jobs : Running(j) => Flights(j) # {}

\* Handle dispatches with one of the orders that break ties.
LEMMA TiesOnTies ==
  ASSUME NEW off PROVE TiesOn[EligibleNow(off)] \subseteq Ties
<1>1. EligibleNow(off) \in SUBSET Workers
  BY DEF EligibleNow
<1> QED BY <1>1 DEF TiesOn

\* Whatever a handler leaves sound, dispatch turns into a state of the invariant.
LEMMA HandleInv ==
  ASSUME NEW J, NEW F, NEW off \in [Workers -> Offers],
         F \subseteq Assignment,
         \A j \in Jobs : Sound(J[j], {t \in F : t.job = j}),
         Handle(J, F, off)
  PROVE  IInv'
<1> DEFINE At(j) == {t \in F : t.job = j}
<1>1. PICK tie \in Ties :
        /\ job' = [j \in Jobs |-> Dispatched(J[j], off, tie)]
        /\ flight' = F \cup UNION {Sent(j, J[j], off, tie) : j \in Jobs}
        /\ offer' = off
  BY TiesOnTies DEF Handle
<1>2. ASSUME NEW j \in Jobs
      PROVE  /\ Sent(j, J[j], off, tie) \subseteq Assignment
             /\ \A t \in Sent(j, J[j], off, tie) : t.job = j
  <2>1. CASE J[j].phase # "running"
    BY <2>1 DEF Sent
  <2>2. CASE J[j].phase = "running"
    <3>1. J[j] \in JobRecord
      BY DEF Sound
    <3>2. QED
      BY <2>2, <3>1, SentFacts
  <2>3. QED
    BY <2>1, <2>2
<1>3. flight' \subseteq Assignment
  BY <1>1, <1>2
<1>4. ASSUME NEW j \in Jobs
      PROVE  Flights(j)' = At(j) \cup Sent(j, J[j], off, tie)
  BY <1>1, <1>2 DEF Flights
<1>5. ASSUME NEW j \in Jobs
      PROVE  /\ Sound(job'[j], Flights(j)')
             /\ job'[j].phase = "running" => Flights(j)' # {}
  <2>1. job'[j] = Dispatched(J[j], off, tie)
    BY <1>1
  <2>2. Sound(J[j], At(j))
    OBVIOUS
  <2>3. QED
    BY <1>4, <2>1, <2>2, DispatchedSound
<1>6. job' \in [Jobs -> JobRecord]
  BY <1>1, <1>5 DEF Sound
<1>7. QED
  BY <1>1, <1>3, <1>5, <1>6 DEF IInv, Running

\* No job, nothing outstanding.
LEMMA InitInv == Init => IInv
<1> SUFFICES ASSUME Init PROVE IInv
  OBVIOUS
<1>1. job = [j \in Jobs |-> Absent] /\ flight = {} /\ offer \in [Workers -> Offers]
  BY DEF Init
<1>2. ASSUME NEW j \in Jobs PROVE Sound(job[j], Flights(j)) /\ ~ Running(j)
  <2>1. job[j] = Absent /\ Flights(j) = {} /\ IsFiniteSet({})
    BY <1>1, FS_EmptySet DEF Flights
  <2>2. QED
    BY <2>1, AbsentFacts DEF Sound, Exclusive, Running
<1>3. QED
  BY <1>1, <1>2, AbsentFacts DEF IInv

\* An answered assignment leaves the set; only its job changes.
LEMMA AnsweredInv ==
  ASSUME IInv, NEW t \in flight, NEW K, Sound(K, Flights(t.job) \ {t}),
         Handle([job EXCEPT ![t.job] = K], flight \ {t}, offer)
  PROVE  IInv'
<1> DEFINE J == [job EXCEPT ![t.job] = K]
           F == flight \ {t}
<1>1. t.job \in Jobs /\ job \in [Jobs -> JobRecord]
  BY DEF IInv, Assignment
<1>2. ASSUME NEW j \in Jobs PROVE Sound(J[j], {u \in F : u.job = j})
  <2>1. CASE j = t.job
    <3>1. J[j] = K /\ {u \in F : u.job = j} = Flights(t.job) \ {t}
      BY <1>1, <2>1 DEF Flights
    <3>2. QED
      BY <3>1
  <2>2. CASE j # t.job
    <3>1. J[j] = job[j] /\ {u \in F : u.job = j} = Flights(j)
      BY <1>1, <2>2 DEF Flights
    <3>2. QED
      BY <3>1 DEF IInv
  <2>3. QED
    BY <2>1, <2>2
<1>3. F \subseteq Assignment /\ offer \in [Workers -> Offers]
  BY DEF IInv
<1> HIDE DEF J, F
<1>4. Handle(J, F, offer)
  BY DEF J, F
<1>5. QED
  BY <1>2, <1>3, <1>4, HandleInv

\* Every step keeps the invariant.
LEMMA NextInv == IInv /\ [Next]_vars => IInv'
<1> SUFFICES ASSUME IInv, [Next]_vars PROVE IInv'
  OBVIOUS
<1>1. /\ job \in [Jobs -> JobRecord] /\ flight \subseteq Assignment
      /\ offer \in [Workers -> Offers]
      /\ \A j \in Jobs : Sound(job[j], Flights(j))
      /\ \A j \in Jobs : Flights(j) = {t \in flight : t.job = j}
  BY DEF IInv, Flights
<1>2. ASSUME NEW j \in Jobs, NEW n \in ChunkIds, StartMatrix(j, n) PROVE IInv'
  <2> DEFINE J == [job EXCEPT ![j] = Planned(n, offer)]
  <2>1. Flights(j) = {}
    BY <1>1, <1>2 DEF StartMatrix, Sound
  <2>2. \A i \in Jobs : Sound(J[i], {t \in flight : t.job = i})
    BY <1>1, <2>1, PlannedSound
  <2>3. Handle(J, flight, offer)
    BY <1>2 DEF StartMatrix
  <2> HIDE DEF J
  <2>4. QED
    BY <1>1, <2>2, <2>3, HandleInv
<1>3. ASSUME NEW t \in flight, ChunkResult(t) PROVE IInv'
  <2>1. t.job \in Jobs /\ t \in Flights(t.job)
    BY <1>1 DEF Assignment
  <2>2. Sound(Counted(job[t.job], t), Flights(t.job) \ {t})
    BY <1>1, <2>1, CountedSound
  <2>3. QED
    BY <1>3, <2>2, AnsweredInv DEF ChunkResult
<1>4. ASSUME NEW t \in flight, ChunkRefused(t) \/ OutboundFailure(t) PROVE IInv'
  <2>1. t.job \in Jobs /\ t \in Flights(t.job)
    BY <1>1 DEF Assignment
  <2>2. Sound(Retried(job[t.job], t), Flights(t.job) \ {t})
    BY <1>1, <2>1, RetriedSound
  <2>3. QED
    BY <1>4, <2>2, AnsweredInv DEF ChunkRefused, OutboundFailure
<1>5. ASSUME NEW w \in Workers, NEW s \in Offers,
             Handle(job, flight, [offer EXCEPT ![w] = s])
      PROVE  IInv'
  <2> DEFINE off == [offer EXCEPT ![w] = s]
  <2>1. off \in [Workers -> Offers] /\ Handle(job, flight, off)
    BY <1>1, <1>5
  <2>2. \A j \in Jobs : Sound(job[j], {t \in flight : t.job = j})
    BY DEF IInv, Flights
  <2> HIDE DEF off
  <2>3. QED
    BY <1>1, <2>1, <2>2, HandleInv
<1>6. ASSUME NEW r \in Remotes, ObservationExpires(r) PROVE IInv'
  <2>1. offer' \in [Workers -> Offers] /\ UNCHANGED <<job, flight>>
    BY <1>1, <1>6, SchedulerAssumptions DEF ObservationExpires, Offers, Workers
  <2>2. QED
    BY <2>1 DEF IInv, Flights, Running
<1>7. CASE UNCHANGED vars
  BY <1>7 DEF vars, IInv, Flights, Running
<1>8. QED
  BY <1>2, <1>3, <1>4, <1>5, <1>6, <1>7
     DEF Next, PeerResources, LocalResources, Workers

\* The inductive invariant holds in every reachable state.
THEOREM Invariance == Spec => []IInv
BY InitInv, NextInv, PTL DEF Spec

---------------------------------------------------------------------------
\* What the invariant gives.

\* The state keeps its type, for any number of jobs, workers and chunks.
THEOREM TypeCorrect == Spec => []TypeOK
<1>1. IInv => TypeOK
  BY DEF IInv, TypeOK
<1>2. QED
  BY <1>1, Invariance, PTL

\* No chunk is lost, queued twice, or counted twice, by any interleaving of answers,
\* failures and dispatches.
THEOREM NoChunkLost == Spec => []ChunksAccountedFor
<1>1. IInv => ChunksAccountedFor
  BY DEF IInv, ChunksAccountedFor, Sound, Running
<1>2. QED
  BY <1>1, Invariance, PTL

\* The saturating counters are exact.
THEOREM CountersExact == Spec => []CountersAgree
<1>1. IInv => CountersAgree
  BY DEF IInv, CountersAgree, Sound, Running
<1>2. QED
  BY <1>1, Invariance, PTL

\* A worker never holds two chunks of one job.
THEOREM OneChunkEach == Spec => []OneChunkPerWorker
<1>1. IInv => OneChunkPerWorker
  BY DEF IInv, OneChunkPerWorker, Sound
<1>2. QED
  BY <1>1, Invariance, PTL

\* A running job always waits for an answer: the loop never strands it.
THEOREM NeverStalled == Spec => []NoStalledJob
<1>1. IInv => NoStalledJob
  BY DEF IInv, NoStalledJob
<1>2. QED
  BY <1>1, Invariance, PTL

---------------------------------------------------------------------------
\* What a step does to one job: its handler, if it has one, and dispatch.

\* Job j, left by its handler as J with the assignments F, is dispatched.
Dispatches(j, J, F) ==
  \E tie \in Ties : /\ job'[j] = Dispatched(J, offer', tie)
                    /\ Flights(j)' = F \cup Sent(j, J, offer', tie)

StepOf(j) ==
  \/ job'[j] = job[j] /\ Flights(j)' = Flights(j)
  \/ Dispatches(j, job[j], Flights(j))
  \/ \E n \in ChunkIds : ~Running(j) /\ Dispatches(j, Planned(n, offer), {})
  \/ \E t \in Flights(j) : \/ Dispatches(j, Counted(job[j], t), Flights(j) \ {t})
                           \/ Dispatches(j, Retried(job[j], t), Flights(j) \ {t})

\* Handle dispatches every job.
LEMMA HandleOne ==
  ASSUME NEW J, NEW F, NEW off \in [Workers -> Offers],
         \A j \in Jobs : Sound(J[j], {t \in F : t.job = j}),
         Handle(J, F, off)
  PROVE  \A j \in Jobs : Dispatches(j, J[j], {t \in F : t.job = j})
<1>1. PICK tie \in Ties :
        /\ job' = [j \in Jobs |-> Dispatched(J[j], off, tie)]
        /\ flight' = F \cup UNION {Sent(j, J[j], off, tie) : j \in Jobs}
        /\ offer' = off
  BY TiesOnTies DEF Handle
<1>2. ASSUME NEW j \in Jobs
      PROVE  \A t \in Sent(j, J[j], off, tie) : t.job = j
  BY DEF Sent
<1>3. ASSUME NEW j \in Jobs
      PROVE  Flights(j)' = {t \in F : t.job = j} \cup Sent(j, J[j], off, tie)
  BY <1>1, <1>2 DEF Flights
<1>4. QED
  BY <1>1, <1>3 DEF Dispatches

\* An answered assignment leaves the set; the other jobs are only dispatched.
LEMMA AnsweredStep ==
  ASSUME IInv, NEW t \in flight, NEW K, Sound(K, Flights(t.job) \ {t}),
         Handle([job EXCEPT ![t.job] = K], flight \ {t}, offer)
  PROVE  /\ Dispatches(t.job, K, Flights(t.job) \ {t})
         /\ \A j \in Jobs \ {t.job} : Dispatches(j, job[j], Flights(j))
<1> DEFINE J == [job EXCEPT ![t.job] = K]
           F == flight \ {t}
<1>1. t.job \in Jobs /\ job \in [Jobs -> JobRecord] /\ offer \in [Workers -> Offers]
  BY DEF IInv, Assignment
<1>2. J[t.job] = K /\ {u \in F : u.job = t.job} = Flights(t.job) \ {t}
  BY <1>1 DEF Flights
<1>3. ASSUME NEW j \in Jobs \ {t.job}
      PROVE  J[j] = job[j] /\ {u \in F : u.job = j} = Flights(j)
  BY <1>1 DEF Flights
<1>4. ASSUME NEW j \in Jobs PROVE Sound(J[j], {u \in F : u.job = j})
  <2>1. CASE j = t.job
    BY <1>2, <2>1
  <2>2. CASE j # t.job
    <3>1. J[j] = job[j] /\ {u \in F : u.job = j} = Flights(j)
      BY <1>3, <2>2
    <3>2. QED
      BY <3>1 DEF IInv
  <2>3. QED
    BY <2>1, <2>2
<1> HIDE DEF J, F
<1>5. Handle(J, F, offer)
  BY DEF J, F
<1>6. \A j \in Jobs : Dispatches(j, J[j], {u \in F : u.job = j})
  BY <1>1, <1>4, <1>5, HandleOne
<1>7. QED
  BY <1>1, <1>2, <1>3, <1>6

\* Every step is, for each job, a step of StepOf.
LEMMA StepOfJob ==
  ASSUME IInv, [Next]_vars
  PROVE  \A j \in Jobs : StepOf(j)
<1>1. /\ job \in [Jobs -> JobRecord] /\ flight \subseteq Assignment
      /\ offer \in [Workers -> Offers]
      /\ \A j \in Jobs : Sound(job[j], Flights(j))
      /\ \A j \in Jobs : Flights(j) = {t \in flight : t.job = j}
  BY DEF IInv, Flights
<1>2. ASSUME NEW i \in Jobs, NEW n \in ChunkIds, StartMatrix(i, n)
      PROVE  \A j \in Jobs : StepOf(j)
  <2> DEFINE J == [job EXCEPT ![i] = Planned(n, offer)]
  <2>1. Flights(i) = {} /\ ~Running(i)
    BY <1>1, <1>2 DEF StartMatrix, Sound, Running
  <2>2. \A j \in Jobs : Sound(J[j], {t \in flight : t.job = j})
    BY <1>1, <2>1, PlannedSound
  <2>3. Handle(J, flight, offer)
    BY <1>2 DEF StartMatrix
  <2>4. J[i] = Planned(n, offer) /\ \A j \in Jobs \ {i} : J[j] = job[j]
    BY <1>1
  <2> HIDE DEF J
  <2>5. \A j \in Jobs : Dispatches(j, J[j], Flights(j))
    BY <1>1, <2>2, <2>3, HandleOne
  <2>6. QED
    BY <2>1, <2>4, <2>5 DEF StepOf
<1>3. ASSUME NEW t \in flight, ChunkResult(t) PROVE \A j \in Jobs : StepOf(j)
  <2>1. t.job \in Jobs /\ t \in Flights(t.job)
    BY <1>1 DEF Assignment
  <2>2. Sound(Counted(job[t.job], t), Flights(t.job) \ {t})
    BY <1>1, <2>1, CountedSound
  <2>3. /\ Dispatches(t.job, Counted(job[t.job], t), Flights(t.job) \ {t})
        /\ \A j \in Jobs \ {t.job} : Dispatches(j, job[j], Flights(j))
    BY <1>3, <2>2, AnsweredStep DEF ChunkResult
  <2>4. QED
    BY <2>1, <2>3 DEF StepOf
<1>4. ASSUME NEW t \in flight, ChunkRefused(t) \/ OutboundFailure(t)
      PROVE  \A j \in Jobs : StepOf(j)
  <2>1. t.job \in Jobs /\ t \in Flights(t.job)
    BY <1>1 DEF Assignment
  <2>2. Sound(Retried(job[t.job], t), Flights(t.job) \ {t})
    BY <1>1, <2>1, RetriedSound
  <2>3. /\ Dispatches(t.job, Retried(job[t.job], t), Flights(t.job) \ {t})
        /\ \A j \in Jobs \ {t.job} : Dispatches(j, job[j], Flights(j))
    BY <1>4, <2>2, AnsweredStep DEF ChunkRefused, OutboundFailure
  <2>4. QED
    BY <2>1, <2>3 DEF StepOf
<1>5. ASSUME NEW w \in Workers, NEW s \in Offers,
             Handle(job, flight, [offer EXCEPT ![w] = s])
      PROVE  \A j \in Jobs : StepOf(j)
  <2> DEFINE off == [offer EXCEPT ![w] = s]
  <2>1. off \in [Workers -> Offers] /\ Handle(job, flight, off)
    BY <1>1, <1>5
  <2> HIDE DEF off
  <2>2. \A j \in Jobs : Sound(job[j], {t \in flight : t.job = j})
    BY DEF IInv, Flights
  <2>3. \A j \in Jobs : Dispatches(j, job[j], {t \in flight : t.job = j})
    BY <2>1, <2>2, HandleOne
  <2>4. \A j \in Jobs : Dispatches(j, job[j], Flights(j))
    BY <1>1, <2>3
  <2>5. QED
    BY <2>4 DEF StepOf
<1>6. ASSUME UNCHANGED <<job, flight>> PROVE \A j \in Jobs : StepOf(j)
  BY <1>6 DEF StepOf, Flights
<1>7. QED
  BY <1>2, <1>3, <1>4, <1>5, <1>6
     DEF Next, PeerResources, LocalResources, ObservationExpires, Workers, vars

---------------------------------------------------------------------------
\* Failed chunks go first.

\* In the queue q, the chunks that were tried stand before those that were not.
RetriedFirst(q) ==
  \A i, k \in DOMAIN q : i < k /\ q[k].attempts > 0 => q[i].attempts > 0

\* Dispatch takes chunks from the front.
LEMMA DispatchedQueue ==
  ASSUME NEW J \in JobRecord, RetriedFirst(J.pending),
         NEW off \in [Workers -> Offers], NEW tie \in Ties
  PROVE  RetriedFirst(Dispatched(J, off, tie).pending)
<1> DEFINE K == Dispatched(J, off, tie)
           M == Taken(J, off, tie)
           k == TakeCount(J, off)
<1>1. CASE J.phase # "running"
  BY <1>1 DEF Dispatched
<1>2. CASE Unavailable(M, off) /\ J.phase = "running"
  <2>1. K.pending = <<>>
    BY <1>2, AbsentFacts DEF Dispatched, Failed, Absent
  <2>2. QED
    BY <2>1 DEF RetriedFirst
<1>3. CASE ~Unavailable(M, off) /\ J.phase = "running"
  <2>1. K = M
    BY <1>3 DEF Dispatched
  <2>2. J.pending \in Seq(Chunk) /\ Len(J.pending) \in Nat
        /\ IsFiniteSet(Candidates(J, off))
    BY WorkersFinite, FS_Subset DEF JobRecord, Candidates
  <2>3. k \in 0..Len(J.pending)
    BY <2>2, FS_CardinalityType DEF TakeCount, Lower
  <2>4. /\ M \in JobRecord
        /\ Len(M.pending) = Len(J.pending) - k
        /\ \A i \in 1..Len(M.pending) : M.pending[i] = J.pending[i + k]
    BY <2>3, TakenFields
  <2>5. DOMAIN M.pending = 1..(Len(J.pending) - k)
    BY <2>4 DEF JobRecord
  <2> HIDE DEF M, k
  <2>6. ASSUME NEW a \in DOMAIN M.pending, NEW b \in DOMAIN M.pending,
               a < b, M.pending[b].attempts > 0
        PROVE  M.pending[a].attempts > 0
    <3>1. DOMAIN J.pending = 1..Len(J.pending) /\ DOMAIN M.pending = 1..Len(M.pending)
      BY <2>2, <2>4, <2>5
    <3>2. a \in Int /\ b \in Int /\ k \in Int /\ a + k < b + k
      BY <2>2, <2>3, <2>5, <2>6
    <3>3. a + k \in DOMAIN J.pending /\ b + k \in DOMAIN J.pending
      BY <2>2, <2>3, <2>5, <3>1
    <3>4. M.pending[a] = J.pending[a + k] /\ M.pending[b] = J.pending[b + k]
      BY <2>4, <3>1
    <3>5. QED
      BY <2>6, <3>2, <3>3, <3>4 DEF RetriedFirst
  <2>7. QED
    BY <2>1, <2>6 DEF RetriedFirst
<1>4. QED
  BY <1>1, <1>2, <1>3

\* A chunk put back has been tried, and goes before all others.
LEMMA RetriedQueue ==
  ASSUME NEW J \in JobRecord, RetriedFirst(J.pending), NEW t \in Assignment
  PROVE  RetriedFirst(Retried(J, t).pending)
<1> DEFINE K == Requeued(J, t)
           c == [index |-> t.index, attempts |-> t.attempts]
<1>1. CASE Retried(J, t) = J
  BY <1>1
<1>2. CASE Retried(J, t) = Failed(J)
  <2>1. Retried(J, t).pending = <<>>
    BY <1>2 DEF Failed, Absent
  <2>2. QED
    BY <2>1 DEF RetriedFirst
<1>3. CASE Retried(J, t) = K
  <2>1. K.pending = <<c>> \o J.pending
    BY DEF Requeued, JobRecord
  <2>2. J.pending \in Seq(Chunk) /\ Len(J.pending) \in Nat /\ DOMAIN J.pending = 1..Len(J.pending)
    BY DEF JobRecord
  <2>3. /\ DOMAIN K.pending = 1..(Len(J.pending) + 1)
        /\ K.pending[1] = c
        /\ \A i \in 2..(Len(J.pending) + 1) : K.pending[i] = J.pending[i - 1]
    BY <2>1, <2>2
  <2>4. c.attempts > 0
    BY DEF Assignment
  <2> HIDE DEF K, c
  <2>5. ASSUME NEW a \in DOMAIN K.pending, NEW b \in DOMAIN K.pending,
               a < b, K.pending[b].attempts > 0
        PROVE  K.pending[a].attempts > 0
    <3>1. CASE a = 1
      BY <2>3, <2>4, <3>1
    <3>2. CASE a # 1
      <4>1. a \in 2..(Len(J.pending) + 1) /\ b \in 2..(Len(J.pending) + 1)
        BY <2>2, <2>3, <2>5, <3>2
      <4>2. a - 1 \in DOMAIN J.pending /\ b - 1 \in DOMAIN J.pending /\ a - 1 < b - 1
        BY <2>2, <2>5, <4>1
      <4>3. K.pending[a] = J.pending[a - 1] /\ K.pending[b] = J.pending[b - 1]
        BY <2>3, <4>1
      <4>4. QED
        BY <2>5, <4>2, <4>3 DEF RetriedFirst
    <3>3. QED
      BY <3>1, <3>2
  <2>6. QED
    BY <1>3, <2>5 DEF RetriedFirst
<1>4. QED
  BY <1>1, <1>2, <1>3 DEF Retried, Settled

\* A counted chunk leaves the queue as it is.
LEMMA CountedQueue ==
  ASSUME NEW J \in JobRecord, RetriedFirst(J.pending), NEW t \in Assignment
  PROVE  RetriedFirst(Counted(J, t).pending)
<1>1. Added(J, t).pending = J.pending
  BY DEF Added, JobRecord
<1>2. Finished(Added(J, t)).pending = <<>>
  BY DEF Finished, Added, JobRecord
<1>3. Counted(J, t).pending \in {J.pending, <<>>}
  BY <1>1, <1>2 DEF Counted
<1>4. QED
  BY <1>3 DEF RetriedFirst

\* A new job has no retried chunk.
LEMMA PlannedQueue ==
  ASSUME NEW n \in ChunkIds, NEW off
  PROVE  RetriedFirst(Planned(n, off).pending)
<1>1. CASE Planned(n, off).pending = <<>>
  BY <1>1 DEF RetriedFirst
<1>2. CASE Planned(n, off).pending = [i \in 1..n |-> [index |-> i, attempts |-> 0]]
  BY <1>2 DEF RetriedFirst
<1>3. QED
  BY <1>1, <1>2, AbsentFacts DEF Planned, Failed, Absent

\* A chunk that retry_matrix_chunk puts back is tried before every untried one, through
\* any mix of failures, dispatches and results.
THEOREM RetriesFirst == Spec => []RetriesGoFirst
<1> DEFINE Good == \A j \in Jobs : RetriedFirst(job[j].pending)
<1>1. Init => Good
  BY AbsentFacts DEF Init, RetriedFirst
<1>2. ASSUME IInv, IInv', Good, [Next]_vars PROVE Good'
  <2> SUFFICES ASSUME NEW j \in Jobs PROVE RetriedFirst(job'[j].pending)
    OBVIOUS
  <2>1. /\ job[j] \in JobRecord /\ RetriedFirst(job[j].pending)
        /\ Flights(j) \subseteq Assignment /\ Sound(job[j], Flights(j))
    BY <1>2 DEF IInv, Flights
  <2>2. offer \in [Workers -> Offers] /\ offer' \in [Workers -> Offers]
    BY <1>2 DEF IInv
  <2>3. ASSUME NEW J, NEW F, J \in JobRecord, RetriedFirst(J.pending), Dispatches(j, J, F)
        PROVE  RetriedFirst(job'[j].pending)
    BY <2>2, <2>3, DispatchedQueue DEF Dispatches
  <2>4. ASSUME NEW n \in ChunkIds, Dispatches(j, Planned(n, offer), {})
        PROVE  RetriedFirst(job'[j].pending)
    <3>1. Planned(n, offer) \in JobRecord
      BY <2>2, PlannedSound DEF Sound
    <3>2. QED
      BY <2>3, <2>4, <3>1, PlannedQueue
  <2>5. ASSUME NEW t \in Flights(j),
               \/ Dispatches(j, Counted(job[j], t), Flights(j) \ {t})
               \/ Dispatches(j, Retried(job[j], t), Flights(j) \ {t})
        PROVE  RetriedFirst(job'[j].pending)
    <3>1. Counted(job[j], t) \in JobRecord
      BY <2>1, CountedSound DEF Sound
    <3>2. Retried(job[j], t) \in JobRecord
      BY <2>1, RetriedSound DEF Sound
    <3>3. QED
      BY <2>1, <2>3, <2>5, <3>1, <3>2, CountedQueue, RetriedQueue
  <2>6. StepOf(j)
    BY <1>2, StepOfJob
  <2>7. QED
    BY <2>1, <2>3, <2>4, <2>5, <2>6 DEF StepOf
<1>3. Good => RetriesGoFirst
  BY DEF RetriedFirst, RetriesGoFirst
<1>4. QED
  BY <1>1, <1>2, <1>3, Invariance, PTL DEF Spec

---------------------------------------------------------------------------
\* Workers leave, and jobs are given up.

\* The workers of a job J with the assignments F.
Party(J, F) == J.available \cup {t.worker : t \in F}

IsFailed(K) == K.phase = "failed" /\ K.total = 0 /\ K.checksum = {}

\* Giving a job up leaves it as IsFailed says.
LEMMA FailedIsFailed == \A J : IsFailed(Failed(J))
BY AbsentFacts DEF Failed, Absent, IsFailed

\* Dispatch moves workers from available to busy, and gives up only a job that nobody
\* works for and nobody is free and eligible for.
LEMMA DispatchedParty ==
  ASSUME NEW j \in Jobs, NEW J, NEW F, Sound(J, F),
         NEW off \in [Workers -> Offers], NEW tie \in Ties
  PROVE  LET K == Dispatched(J, off, tie)
             G == Sent(j, J, off, tie)
         IN  /\ K.phase = "running" =>
                  /\ J.phase = "running" /\ K.checksum = J.checksum /\ K.total = J.total
                  /\ Party(K, F \cup G) \subseteq Party(J, F)
             /\ K.phase = "failed" /\ J.phase = "running" =>
                  F = {} /\ G = {} /\ \A w \in J.available : off[w] = 0
             /\ J.phase # "running" => G = {}
<1> DEFINE K == Dispatched(J, off, tie)
           G == Sent(j, J, off, tie)
           M == Taken(J, off, tie)
           k == TakeCount(J, off)
<1>1. CASE J.phase # "running"
  <2>1. K = J /\ G = {}
    BY <1>1 DEF Dispatched, Sent
  <2>2. QED
    BY <1>1, <2>1
<1>2. CASE J.phase = "running"
  <2>1. J \in JobRecord /\ Tallied(J, F) /\ IsFiniteSet(F)
    BY <1>2 DEF Sound
  <2>2. /\ k \in 0..Len(J.pending)
        /\ IsFiniteSet(G) /\ Cardinality(G) = k
        /\ \A t \in G : t.worker \in J.available
    BY <1>2, <2>1, SentFacts
  <2>3. /\ M.phase = J.phase /\ M.checksum = J.checksum /\ M.total = J.total
        /\ M.available = J.available \ Takers(J, off, tie)
        /\ M.inFlight = J.inFlight + k
    BY <2>1, <2>2, TakenFields
  <2>4. CASE Unavailable(M, off)
    <3>1. K = Failed(J)
      BY <1>2, <2>4 DEF Dispatched
    <3>2. J.inFlight \in Nat /\ k \in Nat
      BY <2>1, <2>2 DEF JobRecord
    <3>3. J.inFlight = 0 /\ k = 0
      BY <2>3, <2>4, <3>2 DEF Unavailable
    <3>4. F = {} /\ G = {}
      BY <2>1, <2>2, <3>3, FS_EmptySet DEF Tallied
    <3>5. Takers(J, off, tie) = {}
      <4>1. Takers(J, off, tie) # {} => G # {}
        BY <1>2 DEF Sent
      <4>2. QED
        BY <3>4, <4>1
    <3>6. J.available \cap EligibleNow(off) = {}
      BY <2>3, <2>4, <3>5 DEF Unavailable, Candidates
    <3>7. ASSUME NEW w \in J.available PROVE off[w] = 0
      <4>1. w \in Workers
        BY <2>1 DEF JobRecord
      <4>2. off[w] \in Nat
        BY <4>1, SchedulerAssumptions DEF Offers
      <4>3. ~(off[w] > 0)
        BY <3>6, <4>1 DEF EligibleNow
      <4>4. QED
        BY <4>2, <4>3
    <3>8. K.phase = "failed"
      BY <3>1, FailedIsFailed DEF IsFailed
    <3>9. QED
      BY <1>2, <3>4, <3>7, <3>8
  <2>5. CASE ~ Unavailable(M, off)
    <3>1. K = M
      BY <1>2, <2>5 DEF Dispatched
    <3>2. Party(M, F \cup G) \subseteq Party(J, F)
      BY <2>2, <2>3 DEF Party
    <3>3. QED
      BY <1>2, <2>3, <3>1, <3>2
  <2>6. QED
    BY <2>4, <2>5
<1>3. QED
  BY <1>1, <1>2

\* The same, for the order of candidates that dispatch draws.
LEMMA DispatchesParty ==
  ASSUME NEW j \in Jobs, NEW J, NEW F, Sound(J, F), offer' \in [Workers -> Offers],
         Dispatches(j, J, F)
  PROVE  /\ job'[j].phase = "running" =>
              /\ J.phase = "running" /\ job'[j].checksum = J.checksum
              /\ job'[j].total = J.total
              /\ Party(job'[j], Flights(j)') \subseteq Party(J, F)
         /\ job'[j].phase = "failed" /\ J.phase = "running" =>
              F = {} /\ Flights(j)' = {} /\ \A w \in J.available : offer'[w] = 0
         /\ J.phase # "running" => job'[j] = J /\ Flights(j)' = F
         /\ F \subseteq Flights(j)'
<1>1. PICK tie \in Ties : /\ job'[j] = Dispatched(J, offer', tie)
                          /\ Flights(j)' = F \cup Sent(j, J, offer', tie)
  BY DEF Dispatches
<1> DEFINE K == Dispatched(J, offer', tie)
           G == Sent(j, J, offer', tie)
<1>2. /\ K.phase = "running" =>
           /\ J.phase = "running" /\ K.checksum = J.checksum /\ K.total = J.total
           /\ Party(K, F \cup G) \subseteq Party(J, F)
      /\ K.phase = "failed" /\ J.phase = "running" =>
           F = {} /\ G = {} /\ \A w \in J.available : offer'[w] = 0
      /\ J.phase # "running" => G = {}
  BY DispatchedParty
<1>3. J.phase # "running" => K = J
  BY DEF Dispatched
<1> DEFINE L == job'[j]
           H == Flights(j)'
<1>4. L = K /\ H = F \cup G
  BY <1>1
<1> HIDE DEF K, G, L, H
<1>5. /\ L.phase = "running" =>
           /\ J.phase = "running" /\ L.checksum = J.checksum /\ L.total = J.total
           /\ Party(L, H) \subseteq Party(J, F)
      /\ L.phase = "failed" /\ J.phase = "running" =>
           F = {} /\ H = {} /\ \A w \in J.available : offer'[w] = 0
      /\ J.phase # "running" => L = J /\ H = F
      /\ F \subseteq H
  BY <1>2, <1>3, <1>4
<1>6. QED
  BY <1>5 DEF L, H

\* What a job that counted the chunk of t owes those who were at work.
CountOwes(C, J, F, E, t) ==
  /\ C.phase = "running" => /\ Party(C, E) \subseteq Party(J, F)
                            /\ t.index \in C.checksum
                            /\ J.available \subseteq C.available
  /\ C.phase # "failed"

\* What a job that put the chunk of t back, or gave up on it, owes them.
RetryOwes(R, J, F, E, t) ==
  /\ R.phase = "running" => /\ Party(R, E) \subseteq Party(J, F) \ {t.worker}
                            /\ J.available \subseteq R.available
  /\ R.phase = "failed" => t.attempts = MaxAttempts \/ (E = {} /\ J.available = {})

\* What an answer does to the workers of a running job, and when it ends the job.
LEMMA AnsweredParty ==
  ASSUME NEW J, NEW F, Sound(J, F), J.phase = "running", NEW t \in F
  PROVE  /\ CountOwes(Counted(J, t), J, F, F \ {t}, t)
         /\ RetryOwes(Retried(J, t), J, F, F \ {t}, t)
<1> DEFINE E == F \ {t}
           A == Added(J, t)
           K == Requeued(J, t)
<1>1. /\ J \in JobRecord /\ F \subseteq Assignment /\ IsFiniteSet(F)
      /\ Exclusive(J, F) /\ Accounted(J, F) /\ Tallied(J, F)
  BY DEF Sound
<1>2. t.worker \notin J.available /\ \A u \in E : u.worker # t.worker
  BY <1>1 DEF Exclusive
<1>3. t.index \notin J.checksum
  BY <1>1 DEF Accounted
<1>4. /\ A.phase = "running" /\ A.available = J.available \cup {t.worker}
      /\ A.checksum = J.checksum \cup {t.index}
  BY <1>1, <1>3 DEF Added, JobRecord, SymmetricDifference
<1>5. /\ K.phase = "running" /\ K.available = J.available \ {t.worker}
      /\ K.inFlight = SaturatingDecrement(J.inFlight)
  BY <1>1 DEF Requeued, JobRecord
<1>6. Cardinality(E) = Cardinality(F) - 1 /\ Cardinality(F) \in Nat \ {0} /\ IsFiniteSet(E)
  BY <1>1, FS_RemoveElement, FS_CardinalityType, FS_EmptySet
<1>7. K.inFlight = 0 => E = {}
  <2>1. K.inFlight = Cardinality(E)
    BY <1>1, <1>5, <1>6 DEF Tallied, SaturatingDecrement
  <2>2. QED
    BY <1>6, <2>1, FS_EmptySet
<1>8. Finished(A).phase = "done"
  BY <1>1 DEF Finished, Added, JobRecord
<1> HIDE DEF A, K
<1>9. /\ Counted(J, t) = A \/ Counted(J, t) = Finished(A)
      /\ Counted(J, t).phase = "running" => Counted(J, t) = A
      /\ Counted(J, t).phase # "failed"
  BY <1>4, <1>8 DEF Counted, A
<1>10. Party(A, E) \subseteq Party(J, F)
  BY <1>4 DEF Party
<1>11. Party(K, E) \subseteq Party(J, F) \ {t.worker}
  BY <1>2, <1>5 DEF Party
<1>12. Retried(J, t) = IF Hopeless(K, t) THEN Failed(J) ELSE K
  BY DEF Retried, Settled, K
<1>13. Failed(J).phase = "failed"
  BY FailedIsFailed DEF IsFailed
<1>14. Hopeless(K, t) => t.attempts = MaxAttempts \/ (E = {} /\ J.available = {})
  <2>1. t.attempts \in 1..MaxAttempts
    BY <1>1 DEF Assignment
  <2>2. t.attempts >= MaxAttempts => t.attempts = MaxAttempts
    BY <2>1, SchedulerAssumptions
  <2>3. K.available = {} => J.available = {}
    BY <1>2, <1>5
  <2>4. CASE t.attempts >= MaxAttempts
    BY <2>2, <2>4
  <2>5. CASE K.available = {} /\ K.inFlight = 0
    BY <1>7, <2>3, <2>5
  <2>6. QED
    BY <2>4, <2>5 DEF Hopeless
<1>15. J.available \subseteq A.available /\ J.available \subseteq K.available
  BY <1>2, <1>4, <1>5
<1>16. t.index \in A.checksum
  BY <1>4
<1>17. QED
  BY <1>5, <1>9, <1>10, <1>11, <1>12, <1>13, <1>14, <1>15, <1>16 DEF CountOwes, RetryOwes

\* The facts of a step about a job that runs before it.
LEMMA RunningStep ==
  ASSUME IInv, IInv', [Next]_vars, NEW j \in Jobs, Running(j)
  PROVE  /\ Running(j)' =>
              /\ Members(j)' \subseteq Members(j)
              /\ \A t \in Flights(j) \ flight' :
                   t.index \notin job'[j].checksum => t.worker \notin Members(j)'
         /\ job'[j].phase = "failed" =>
              \E t \in Flights(j) \ flight' :
                \/ t.attempts = MaxAttempts
                \/ Flights(j) = {t} /\ \A w \in job[j].available : offer'[w] = 0
<1> DEFINE J == job[j]
           F == Flights(j)
<1>1. Sound(J, F) /\ F # {} /\ J.phase = "running"
  BY DEF IInv, Running
<1>2. offer' \in [Workers -> Offers]
  BY DEF IInv
<1>3. Members(j) = Party(J, F) /\ Members(j)' = Party(job'[j], Flights(j)')
  BY DEF Members, Party
<1>4. \A t \in F : t \in flight' <=> t \in Flights(j)'
  BY DEF Flights
<1>5. CASE job'[j] = J /\ Flights(j)' = F
  BY <1>1, <1>3, <1>4, <1>5
<1>6. CASE Dispatches(j, J, F)
  <2> HIDE DEF J, F
  <2>1. /\ job'[j].phase = "running" => Party(job'[j], Flights(j)') \subseteq Party(J, F)
        /\ job'[j].phase # "failed"
        /\ F \subseteq Flights(j)'
    BY <1>1, <1>2, <1>6, DispatchesParty
  <2>2. QED
    BY <1>3, <1>4, <2>1 DEF Running, F
<1>7. ASSUME NEW t \in F, NEW K, K = Counted(J, t) \/ K = Retried(J, t),
             Dispatches(j, K, F \ {t})
      PROVE  /\ Running(j)' =>
                  /\ Members(j)' \subseteq Members(j)
                  /\ \A u \in Flights(j) \ flight' :
                       u.index \notin job'[j].checksum => u.worker \notin Members(j)'
             /\ job'[j].phase = "failed" =>
                  \E u \in Flights(j) \ flight' :
                    \/ u.attempts = MaxAttempts
                    \/ Flights(j) = {u} /\ \A w \in job[j].available : offer'[w] = 0
  <2> DEFINE E == F \ {t}
             H == Flights(j)'
             L == job'[j]
  <2>1. Sound(K, E)
    BY <1>1, <1>7, CountedSound, RetriedSound
  <2> HIDE DEF E, J, F
  <2>3. /\ L.phase = "running" => /\ K.phase = "running" /\ L.checksum = K.checksum
                                  /\ Party(L, H) \subseteq Party(K, E)
        /\ L.phase = "failed" /\ K.phase = "running" =>
             E = {} /\ H = {} /\ \A w \in K.available : offer'[w] = 0
        /\ K.phase # "running" => H = E /\ L = K
        /\ E \subseteq H
    BY <1>2, <1>7, <2>1, DispatchesParty DEF E
  <2>4. /\ K.phase = "running" => /\ Party(K, E) \subseteq Party(J, F)
                                  /\ t.index \in K.checksum \/ t.worker \notin Party(K, E)
                                  /\ J.available \subseteq K.available
        /\ K.phase = "failed" => t.attempts = MaxAttempts \/ (E = {} /\ J.available = {})
    <3>1. CASE K = Counted(J, t)
      <4> DEFINE C == Counted(J, t)
      <4>1. /\ C.phase = "running" => /\ Party(C, E) \subseteq Party(J, F)
                                      /\ t.index \in C.checksum
                                      /\ J.available \subseteq C.available
            /\ C.phase # "failed"
        <5>1. CountOwes(Counted(J, t), J, F, E, t)
          BY <1>1, AnsweredParty DEF E
        <5> HIDE DEF E, J, F
        <5>2. QED
          BY <5>1 DEF CountOwes
      <4> HIDE DEF C
      <4>2. K = C
        BY <3>1 DEF C
      <4>3. QED
        BY <4>1, <4>2
    <3>2. CASE K = Retried(J, t)
      <4> DEFINE R == Retried(J, t)
      <4>1. /\ R.phase = "running" => /\ Party(R, E) \subseteq Party(J, F) \ {t.worker}
                                      /\ J.available \subseteq R.available
            /\ R.phase = "failed" => t.attempts = MaxAttempts \/ (E = {} /\ J.available = {})
        <5>1. RetryOwes(Retried(J, t), J, F, E, t)
          BY <1>1, AnsweredParty DEF E
        <5> HIDE DEF E, J, F
        <5>2. QED
          BY <5>1 DEF RetryOwes
      <4> HIDE DEF R
      <4>2. K = R
        BY <3>2 DEF R
      <4>3. QED
        BY <4>1, <4>2
    <3>3. QED
      BY <1>7, <3>1, <3>2
  <2> HIDE DEF L, H
  <2>5. ASSUME L.phase = "running"
        PROVE  /\ Party(L, H) \subseteq Party(J, F)
               /\ t.index \notin L.checksum => t.worker \notin Party(L, H)
    BY <2>3, <2>4, <2>5
  <2>6. \A u \in F \ flight' : u = t
    BY <1>4, <2>3 DEF E, H
  <2>7. Running(j)' <=> L.phase = "running"
    BY DEF Running, L
  <2>8. ASSUME L.phase = "failed"
        PROVE  /\ t \in F \ flight'
               /\ \/ t.attempts = MaxAttempts
                  \/ F = {t} /\ \A w \in J.available : offer'[w] = 0
    <3>1. t \notin H
      <4>1. H = E \/ H = {}
        BY <2>3, <2>8
      <4>2. QED
        BY <4>1 DEF E
    <3>2. t \in F \ flight'
      BY <1>4, <3>1 DEF H
    <3>3. E = {} => F = {t}
      BY DEF E
    <3>4. CASE K.phase = "running"
      <4>1. E = {} /\ \A w \in K.available : offer'[w] = 0
        BY <2>3, <2>8, <3>4
      <4>2. J.available \subseteq K.available
        BY <2>4, <3>4
      <4>3. \A w \in J.available : offer'[w] = 0
        BY <4>1, <4>2
      <4>4. QED
        BY <3>2, <3>3, <4>1, <4>3
    <3>5. CASE K.phase # "running"
      <4>1. K.phase = "failed"
        BY <2>3, <2>8, <3>5
      <4>2. CASE t.attempts = MaxAttempts
        BY <3>2, <4>2
      <4>3. CASE E = {} /\ J.available = {}
        BY <3>2, <3>3, <4>3
      <4>4. QED
        BY <2>4, <4>1, <4>2, <4>3
    <3>6. QED
      BY <3>4, <3>5
  <2>9. ASSUME Running(j)'
        PROVE  /\ Members(j)' \subseteq Members(j)
               /\ \A u \in Flights(j) \ flight' :
                    u.index \notin job'[j].checksum => u.worker \notin Members(j)'
    <3>1. /\ Party(L, H) \subseteq Party(J, F)
          /\ t.index \notin L.checksum => t.worker \notin Party(L, H)
      BY <2>5, <2>7, <2>9
    <3>2. Members(j) = Party(J, F) /\ Members(j)' = Party(L, H)
      BY <1>3 DEF L, H
    <3>3. \A u \in F \ flight' : u.index \notin L.checksum => u.worker \notin Party(L, H)
      BY <2>6, <3>1
    <3>4. QED
      BY <3>1, <3>2, <3>3 DEF F, L
  <2>10. ASSUME job'[j].phase = "failed"
         PROVE  \E u \in Flights(j) \ flight' :
                  \/ u.attempts = MaxAttempts
                  \/ Flights(j) = {u} /\ \A w \in job[j].available : offer'[w] = 0
    BY <2>8, <2>10 DEF F, J, L
  <2>11. QED
    BY <2>9, <2>10
<1>8. StepOf(j)
  BY StepOfJob
<1>9. QED
  BY <1>5, <1>6, <1>7, <1>8 DEF StepOf

\* In every step the workers of a running job only get fewer, and one whose chunk came
\* back uncounted leaves for good.
THEOREM WorkersLeave == Spec => WorkersOnlyLeave
<1>1. IInv /\ IInv' /\ [Next]_vars =>
        [\A j \in Jobs : Running(j) /\ Running(j)' =>
           /\ Members(j)' \subseteq Members(j)
           /\ \A t \in Flights(j) \ flight' :
                t.index \notin job'[j].checksum => t.worker \notin Members(j)']_vars
  BY RunningStep
<1>2. QED
  BY <1>1, Invariance, PTL DEF Spec, WorkersOnlyLeave

\* No step gives a job up that could go on: a chunk has failed for the last time, or the
\* only chunk out came back and nobody free offers anything.
THEOREM GivenUpWhenStuck == Spec => GivesUpOnlyWhenStuck
<1>1. IInv /\ IInv' /\ [Next]_vars =>
        [\A j \in Jobs : Running(j) /\ job'[j].phase = "failed" =>
           \E t \in Flights(j) \ flight' :
             \/ t.attempts = MaxAttempts
             \/ Flights(j) = {t} /\ \A w \in job[j].available : offer'[w] = 0]_vars
  BY RunningStep
<1>2. QED
  BY <1>1, Invariance, PTL DEF Spec, GivesUpOnlyWhenStuck

---------------------------------------------------------------------------
\* What a job has left.

\* Left, for a job record with its assignments.
Burden(J, F) == (J.total - Cardinality(J.checksum)) + Cardinality(Party(J, F))

\* The numbers of a sound job are counts of finite sets.
LEMMA BurdenCounts ==
  ASSUME NEW J, NEW F, Sound(J, F)
  PROVE  /\ IsFiniteSet(J.checksum) /\ Cardinality(J.checksum) \in Nat /\ J.total \in Nat
         /\ IsFiniteSet(Party(J, F)) /\ Cardinality(Party(J, F)) \in Nat
<1>1. J \in JobRecord /\ F \subseteq Assignment
  BY DEF Sound
<1>2. J.checksum \subseteq ChunkIds /\ J.available \subseteq Workers /\ J.total \in Nat
  BY <1>1, SchedulerAssumptions DEF JobRecord
<1>3. IsFiniteSet(ChunkIds)
  BY FS_Interval, SchedulerAssumptions DEF ChunkIds
<1>4. IsFiniteSet(J.checksum)
  BY <1>2, <1>3, FS_Subset
<1>5. Party(J, F) \subseteq Workers
  BY <1>1, <1>2 DEF Party, Assignment
<1>6. IsFiniteSet(Party(J, F))
  BY <1>5, WorkersFinite, FS_Subset
<1> QED
  BY <1>2, <1>4, <1>6, FS_CardinalityType

\* A set without one of its members is smaller by one at least.
LEMMA OneLess ==
  ASSUME NEW S, NEW T, IsFiniteSet(S), NEW x \in S, T \subseteq S \ {x}
  PROVE  Cardinality(T) + 1 <= Cardinality(S)
<1>1. IsFiniteSet(S \ {x}) /\ Cardinality(S \ {x}) = Cardinality(S) - 1
  BY FS_RemoveElement
<1>2. Cardinality(T) <= Cardinality(S \ {x})
  BY <1>1, FS_Subset
<1>3. Cardinality(T) \in Nat /\ Cardinality(S) \in Nat
  BY <1>1, FS_Subset, FS_CardinalityType
<1> QED
  BY <1>1, <1>2, <1>3

\* Workers leave and chunks are counted; each of them is one less.
LEMMA BurdenFalls ==
  ASSUME NEW J, NEW F, Sound(J, F), NEW K, NEW E, Sound(K, E), K.total = J.total,
         Party(K, E) \subseteq Party(J, F)
  PROVE  /\ K.checksum = J.checksum => Burden(K, E) <= Burden(J, F)
         /\ \A i : i \notin J.checksum /\ K.checksum = J.checksum \cup {i} =>
              Burden(K, E) + 1 <= Burden(J, F)
         /\ \A w \in Party(J, F) : w \notin Party(K, E) /\ K.checksum = J.checksum =>
              Burden(K, E) + 1 <= Burden(J, F)
<1>1. /\ IsFiniteSet(J.checksum) /\ Cardinality(J.checksum) \in Nat /\ J.total \in Nat
      /\ IsFiniteSet(Party(J, F)) /\ Cardinality(Party(J, F)) \in Nat
      /\ Cardinality(K.checksum) \in Nat /\ Cardinality(Party(K, E)) \in Nat
  BY BurdenCounts
<1>2. Cardinality(Party(K, E)) <= Cardinality(Party(J, F))
  BY <1>1, FS_Subset
<1>3. ASSUME NEW i, i \notin J.checksum, K.checksum = J.checksum \cup {i}
      PROVE  Burden(K, E) + 1 <= Burden(J, F)
  <2>1. Cardinality(K.checksum) = Cardinality(J.checksum) + 1
    BY <1>1, <1>3, FS_AddElement
  <2> QED
    BY <1>1, <1>2, <2>1 DEF Burden
<1>4. ASSUME NEW w \in Party(J, F), w \notin Party(K, E), K.checksum = J.checksum
      PROVE  Burden(K, E) + 1 <= Burden(J, F)
  <2>1. Cardinality(Party(K, E)) + 1 <= Cardinality(Party(J, F))
    BY <1>1, <1>4, OneLess
  <2> QED
    BY <1>1, <1>4, <2>1 DEF Burden
<1>5. K.checksum = J.checksum => Burden(K, E) <= Burden(J, F)
  BY <1>1, <1>2 DEF Burden
<1> QED
  BY <1>3, <1>4, <1>5

\* An answer counts a chunk or loses a worker.
LEMMA AnsweredBurden ==
  ASSUME NEW J, NEW F, Sound(J, F), J.phase = "running", NEW t \in F, NEW K,
         K = Counted(J, t) \/ K = Retried(J, t), K.phase = "running"
  PROVE  Burden(K, F \ {t}) + 1 <= Burden(J, F)
<1> DEFINE E == F \ {t}
<1>1. Sound(K, E)
  BY CountedSound, RetriedSound
<1>2. J \in JobRecord /\ t \in Assignment /\ t.worker \in Party(J, F)
  BY DEF Sound, Party
<1>3. CASE K = Counted(J, t)
  <2>1. Party(K, E) \subseteq Party(J, F)
    BY <1>3, AnsweredParty DEF CountOwes
  <2>2. t.index \notin J.checksum
    BY DEF Sound, Accounted
  <2>3. /\ Added(J, t).checksum = J.checksum \cup {t.index} /\ Added(J, t).total = J.total
    BY <1>2, <2>2 DEF Added, JobRecord, SymmetricDifference
  <2>4. Finished(Added(J, t)).phase = "done"
    BY <1>2 DEF Finished, Added, JobRecord
  <2>5. K = Added(J, t)
    BY <1>3, <2>4 DEF Counted
  <2> QED
    BY <1>1, <2>1, <2>2, <2>3, <2>5, BurdenFalls
<1>4. CASE K = Retried(J, t)
  <2>1. Party(K, E) \subseteq Party(J, F) \ {t.worker}
    BY <1>4, AnsweredParty DEF RetryOwes
  <2>2. Requeued(J, t).checksum = J.checksum /\ Requeued(J, t).total = J.total
    BY <1>2 DEF Requeued, JobRecord
  <2>3. K = Requeued(J, t)
    BY <1>4, FailedIsFailed DEF Retried, Settled, IsFailed
  <2>4. K.checksum = J.checksum /\ K.total = J.total
    BY <2>2, <2>3
  <2> HIDE DEF E
  <2>5. Party(K, E) \subseteq Party(J, F) /\ t.worker \notin Party(K, E)
    BY <2>1
  <2> QED
    BY <1>1, <1>2, <2>4, <2>5, BurdenFalls DEF E
<1> QED
  BY <1>3, <1>4

\* The facts of a step about a job that runs before and after it.
LEMMA LeftFalls ==
  ASSUME IInv, IInv', [Next]_vars, NEW j \in Jobs, Running(j), Running(j)'
  PROVE  Left(j)' + Cardinality(Flights(j) \ flight') <= Left(j)
<1> DEFINE J == job[j]
           F == Flights(j)
           L == job'[j]
           H == Flights(j)'
<1>1. Sound(J, F) /\ Sound(L, H) /\ J.phase = "running" /\ L.phase = "running"
  BY DEF IInv, Running
<1>2. offer' \in [Workers -> Offers]
  BY DEF IInv
<1>3. Left(j) = Burden(J, F) /\ Left(j)' = Burden(L, H)
  BY DEF Left, Burden, Members, Party
<1>4. F \ flight' = F \ H
  BY DEF Flights
<1>5. StepOf(j)
  BY StepOfJob
<1>6. Cardinality({}) = 0 /\ \A t : Cardinality({t}) = 1
  BY FS_EmptySet, FS_Singleton
<1>7. Burden(J, F) \in Int /\ Burden(L, H) \in Int
  BY <1>1, BurdenCounts DEF Burden
<1>8. CASE L = J /\ H = F
  BY <1>3, <1>4, <1>6, <1>7, <1>8
<1>9. CASE Dispatches(j, J, F)
  <2>1. /\ L.checksum = J.checksum /\ L.total = J.total /\ F \subseteq H
        /\ Party(L, H) \subseteq Party(J, F)
    BY <1>1, <1>2, <1>9, DispatchesParty
  <2> HIDE DEF J, F, L, H
  <2>2. Burden(L, H) <= Burden(J, F)
    BY <1>1, <2>1, BurdenFalls
  <2>3. F \ H = {}
    BY <2>1
  <2> QED
    BY <1>3, <1>4, <1>6, <1>7, <2>2, <2>3 DEF F
<1>10. ASSUME NEW t \in F, NEW K, K = Counted(J, t) \/ K = Retried(J, t),
              Dispatches(j, K, F \ {t})
       PROVE  Left(j)' + Cardinality(F \ flight') <= Left(j)
  <2> DEFINE E == F \ {t}
  <2>1. Sound(K, E)
    BY <1>1, <1>10, CountedSound, RetriedSound
  <2>2. /\ K.phase = "running" /\ L.checksum = K.checksum /\ L.total = K.total
        /\ Party(L, H) \subseteq Party(K, E) /\ E \subseteq H
    BY <1>1, <1>2, <1>10, <2>1, DispatchesParty
  <2> HIDE DEF J, F, L, H
  <2>3. Burden(K, E) + 1 <= Burden(J, F)
    BY <1>1, <1>10, <2>2, AnsweredBurden
  <2> HIDE DEF E
  <2>4. Burden(L, H) <= Burden(K, E)
    BY <1>1, <2>1, <2>2, BurdenFalls
  <2>5. F \ H = {} \/ F \ H = {t}
    BY <2>2 DEF E
  <2>6. Cardinality(F \ H) \in 0..1
    <3>1. CASE F \ H = {}
      BY <1>6, <3>1
    <3>2. CASE F \ H = {t}
      <4>1. Cardinality(F \ H) = 1
        BY <1>6, <3>2
      <4> QED
        BY <4>1
    <3> QED
      BY <2>5, <3>1, <3>2
  <2>7. Burden(K, E) \in Int
    BY <2>1, BurdenCounts DEF Burden
  <2> QED
    BY <1>3, <1>4, <1>7, <2>3, <2>4, <2>6, <2>7
<1> QED
  BY <1>5, <1>8, <1>9, <1>10 DEF StepOf

\* A job's chunks and workers are used up by the answers it gets, one at a time: no failure,
\* retry, pause or other job gives it back an attempt. Since a running job always waits for
\* an answer (NeverStalled), and every request is answered or fails, it comes to its end.
THEOREM AnswersCount == Spec => AnswersUseUp
<1>1. IInv /\ IInv' /\ [Next]_vars =>
        [\A j \in Jobs : Running(j) /\ Running(j)' =>
           Left(j)' + Cardinality(Flights(j) \ flight') <= Left(j)]_vars
  BY LeftFalls
<1>2. QED
  BY <1>1, Invariance, PTL DEF Spec, AnswersUseUp

---------------------------------------------------------------------------
\* The scheduler implements MatrixJobs.

\* What the owner sees of two job records is the same.
SameToOwner(J, K) ==
  J.phase = K.phase /\ J.total = K.total /\ J.checksum = K.checksum

\* Dispatch shows nothing to the owner but, for a job with no answer to wait for, that
\* it failed.
LEMMA DispatchedVisible ==
  ASSUME NEW J \in JobRecord, NEW off \in [Workers -> Offers], NEW tie \in Ties
  PROVE  LET K == Dispatched(J, off, tie)
         IN  \/ SameToOwner(J, K)
             \/ J.phase = "running" /\ J.inFlight = 0 /\ IsFailed(K)
<1> DEFINE K == Dispatched(J, off, tie)
           M == Taken(J, off, tie)
           k == TakeCount(J, off)
<1>1. CASE J.phase # "running"
  BY <1>1 DEF Dispatched, SameToOwner
<1>2. CASE J.phase = "running"
  <2>1. /\ Len(J.pending) \in Nat /\ J.inFlight \in Nat
        /\ IsFiniteSet(Candidates(J, off))
    BY WorkersFinite, FS_Subset DEF JobRecord, Candidates
  <2>2. k \in 0..Len(J.pending)
    BY <2>1, FS_CardinalityType DEF TakeCount, Lower
  <2>3. /\ M.phase = J.phase /\ M.total = J.total /\ M.checksum = J.checksum
        /\ M.inFlight = J.inFlight + k
    BY <2>2, TakenFields
  <2>4. CASE Unavailable(M, off)
    <3>1. K = Failed(J)
      BY <1>2, <2>4 DEF Dispatched
    <3>2. J.inFlight = 0
      BY <2>1, <2>2, <2>3, <2>4 DEF Unavailable
    <3>3. QED
      BY <1>2, <3>1, <3>2, FailedIsFailed
  <2>5. CASE ~ Unavailable(M, off)
    <3>1. K = M
      BY <1>2, <2>5 DEF Dispatched
    <3>2. QED
      BY <2>3, <3>1 DEF SameToOwner
  <2>6. QED
    BY <2>4, <2>5
<1>3. QED
  BY <1>1, <1>2

\* A step that handles one job leaves every other job as the owner saw it.
LEMMA HandleVisible ==
  ASSUME IInv, NEW j \in Jobs, NEW K \in JobRecord, NEW F,
         NEW off \in [Workers -> Offers], Handle([job EXCEPT ![j] = K], F, off)
  PROVE  /\ \A i \in Jobs \ {j} : SameToOwner(job[i], job'[i])
         /\ \/ SameToOwner(K, job'[j])
            \/ K.phase = "running" /\ K.inFlight = 0 /\ IsFailed(job'[j])
<1> DEFINE J == [job EXCEPT ![j] = K]
<1>1. PICK tie \in Ties : job' = [i \in Jobs |-> Dispatched(J[i], off, tie)]
  BY TiesOnTies DEF Handle
<1>2. job \in [Jobs -> JobRecord]
  BY DEF IInv
<1>3. ASSUME NEW i \in Jobs \ {j} PROVE SameToOwner(job[i], job'[i])
  <2>1. job'[i] = Dispatched(job[i], off, tie) /\ job[i] \in JobRecord
    BY <1>1, <1>2
  <2>2. ~ (job[i].phase = "running" /\ job[i].inFlight = 0)
    <3>1. SUFFICES ASSUME job[i].phase = "running" PROVE job[i].inFlight # 0
      OBVIOUS
    <3>2. /\ job[i].inFlight = Cardinality(Flights(i)) /\ Flights(i) # {}
          /\ IsFiniteSet(Flights(i))
      BY <3>1 DEF IInv, Sound, Tallied, Running
    <3>3. QED
      BY <3>2, FS_EmptySet
  <2>3. QED
    BY <2>1, <2>2, DispatchedVisible
<1>4. job'[j] = Dispatched(K, off, tie)
  BY <1>1, <1>2
<1>5. \/ SameToOwner(K, job'[j])
      \/ K.phase = "running" /\ K.inFlight = 0 /\ IsFailed(job'[j])
  BY <1>4, DispatchedVisible
<1>6. QED
  BY <1>3, <1>5

\* The state of MatrixJobs that a scheduler state stands for.
LEMMA OwnerView ==
  ASSUME NEW j \in Jobs, NEW ph, NEW n, NEW c,
         job'[j].phase = ph, job'[j].total = n, job'[j].checksum = c,
         \A i \in Jobs \ {j} : SameToOwner(job[i], job'[i])
  PROVE  /\ [i \in Jobs |-> job'[i].phase] = [[i \in Jobs |-> job[i].phase] EXCEPT ![j] = ph]
         /\ [i \in Jobs |-> job'[i].total] = [[i \in Jobs |-> job[i].total] EXCEPT ![j] = n]
         /\ [i \in Jobs |-> job'[i].checksum]
              = [[i \in Jobs |-> job[i].checksum] EXCEPT ![j] = c]
BY DEF SameToOwner

\* A chunk that is accepted while the other jobs stay is counted.
LEMMA CountStep ==
  ASSUME NEW j \in Jobs, NEW i, job[j].phase = "running",
         i \in 1..job[j].total, i \notin job[j].checksum,
         job'[j].total = job[j].total, job'[j].checksum = job[j].checksum \cup {i},
         job'[j].phase = IF job[j].checksum \cup {i} = 1..job[j].total THEN "done" ELSE "running",
         \A o \in Jobs \ {j} : SameToOwner(job[o], job'[o])
  PROVE  Promise!Count(j, i)
<1> DEFINE c == job[j].checksum \cup {i}
           ph == IF c = 1..job[j].total THEN "done" ELSE "running"
<1>1. [o \in Jobs |-> job'[o].total] = [o \in Jobs |-> job[o].total]
  BY DEF SameToOwner
<1>2. job'[j].phase = ph /\ job'[j].checksum = c
  OBVIOUS
<1> HIDE DEF c, ph
<1>3. /\ [o \in Jobs |-> job'[o].phase] = [[o \in Jobs |-> job[o].phase] EXCEPT ![j] = ph]
      /\ [o \in Jobs |-> job'[o].checksum] = [[o \in Jobs |-> job[o].checksum] EXCEPT ![j] = c]
  BY <1>2, OwnerView
<1>4. QED
  BY <1>1, <1>3 DEF Promise!Count, c, ph

\* A job that fails while the others stay is given up.
LEMMA GiveUpStep ==
  ASSUME NEW j \in Jobs, job[j].phase \in {"absent", "running"}, IsFailed(job'[j]),
         \A i \in Jobs \ {j} : SameToOwner(job[i], job'[i])
  PROVE  Promise!GiveUp(j)
<1>1. job'[j].phase = "failed" /\ job'[j].total = 0 /\ job'[j].checksum = {}
  BY DEF IsFailed
<1>2. /\ [i \in Jobs |-> job'[i].phase] = [[i \in Jobs |-> job[i].phase] EXCEPT ![j] = "failed"]
      /\ [i \in Jobs |-> job'[i].total] = [[i \in Jobs |-> job[i].total] EXCEPT ![j] = 0]
      /\ [i \in Jobs |-> job'[i].checksum] = [[i \in Jobs |-> job[i].checksum] EXCEPT ![j] = {}]
  BY <1>1 DEF SameToOwner
<1>3. QED
  BY <1>2 DEF Promise!GiveUp

\* A job that is planned while the others stay is submitted.
LEMMA SubmitStep ==
  ASSUME NEW j \in Jobs, NEW n, job[j].phase = "absent", job[j].checksum = {},
         job'[j].phase = "running", job'[j].total = n, job'[j].checksum = {},
         \A i \in Jobs \ {j} : SameToOwner(job[i], job'[i])
  PROVE  Promise!Submit(j, n)
<1>1. /\ [i \in Jobs |-> job'[i].phase] = [[i \in Jobs |-> job[i].phase] EXCEPT ![j] = "running"]
      /\ [i \in Jobs |-> job'[i].total] = [[i \in Jobs |-> job[i].total] EXCEPT ![j] = n]
  BY DEF SameToOwner
<1>2. [i \in Jobs |-> job'[i].checksum] = [i \in Jobs |-> job[i].checksum]
  BY DEF SameToOwner
<1>3. QED
  BY <1>1, <1>2 DEF Promise!Submit

\* Nothing the owner sees changes.
LEMMA NoVisibleStep ==
  ASSUME \A i \in Jobs : SameToOwner(job[i], job'[i])
  PROVE  UNCHANGED Promise!vars
BY DEF SameToOwner, Promise!vars

\* Every step is a step of MatrixJobs or one the owner does not see.
LEMMA StepRefines ==
  ASSUME IInv, [Next]_vars
  PROVE  [Promise!Next]_(Promise!vars)
<1>1. /\ job \in [Jobs -> JobRecord] /\ flight \subseteq Assignment
      /\ offer \in [Workers -> Offers]
      /\ \A j \in Jobs : Sound(job[j], Flights(j))
  BY DEF IInv
<1>2. ASSUME NEW j \in Jobs, Promise!GiveUp(j) PROVE [Promise!Next]_(Promise!vars)
  BY <1>2 DEF Promise!Next
<1>3. ASSUME NEW j \in Jobs, NEW n \in ChunkIds, StartMatrix(j, n)
      PROVE  [Promise!Next]_(Promise!vars)
  <2> DEFINE K == Planned(n, offer)
  <2>1. /\ Sound(K, {})
        /\ K.phase = "running" => K.total = n /\ K.checksum = {}
        /\ K.phase # "running" => K = Failed(Absent)
    BY <1>1, PlannedSound
  <2>2. K \in JobRecord /\ Handle([job EXCEPT ![j] = K], flight, offer)
    BY <1>3, <2>1 DEF StartMatrix, Sound
  <2>3. job[j].phase = "absent" /\ job[j] = Absent
    BY <1>1, <1>3 DEF StartMatrix, Sound
  <2> HIDE DEF K
  <2>4. /\ \A i \in Jobs \ {j} : SameToOwner(job[i], job'[i])
        /\ SameToOwner(K, job'[j]) \/ IsFailed(job'[j])
    BY <1>1, <2>2, HandleVisible
  <2>5. CASE IsFailed(job'[j])
    BY <1>2, <2>3, <2>4, <2>5, GiveUpStep
  <2>6. CASE ~ IsFailed(job'[j])
    <3>1. SameToOwner(K, job'[j])
      BY <2>4, <2>6
    <3>2. K.phase = "running"
      BY <2>1, <2>6, <3>1, FailedIsFailed DEF IsFailed, SameToOwner
    <3>3. job'[j].phase = "running" /\ job'[j].total = n /\ job'[j].checksum = {}
      BY <2>1, <3>1, <3>2 DEF SameToOwner
    <3>4. Promise!Submit(j, n)
      <4>1. job[j].checksum = {}
        BY <2>3, AbsentFacts
      <4>2. QED
        BY <2>3, <2>4, <3>3, <4>1, SubmitStep
    <3>5. QED
      BY <3>4 DEF Promise!Next, ChunkIds
  <2>7. QED
    BY <2>5, <2>6
<1>4. ASSUME NEW t \in flight, NEW K \in JobRecord, job[t.job].phase = "running",
             Handle([job EXCEPT ![t.job] = K], flight \ {t}, offer),
             IsFailed(K) \/ SameToOwner(job[t.job], K)
      PROVE  [Promise!Next]_(Promise!vars)
  <2>1. t.job \in Jobs
    BY <1>1 DEF Assignment
  <2>2. /\ \A i \in Jobs \ {t.job} : SameToOwner(job[i], job'[i])
        /\ SameToOwner(K, job'[t.job]) \/ IsFailed(job'[t.job])
    BY <1>1, <1>4, <2>1, HandleVisible
  <2>3. CASE IsFailed(job'[t.job])
    BY <1>2, <1>4, <2>1, <2>2, <2>3, GiveUpStep
  <2>4. CASE ~ IsFailed(job'[t.job])
    <3>1. \A i \in Jobs : SameToOwner(job[i], job'[i])
      BY <1>4, <2>2, <2>4 DEF SameToOwner, IsFailed
    <3>2. QED
      BY <3>1, NoVisibleStep
  <2>5. QED
    BY <2>3, <2>4
<1>5. ASSUME NEW t \in flight, NEW K, K = job[t.job], job[t.job].phase # "running",
             Handle([job EXCEPT ![t.job] = K], flight \ {t}, offer)
      PROVE  [Promise!Next]_(Promise!vars)
  <2>1. t.job \in Jobs /\ K \in JobRecord
    BY <1>1, <1>5 DEF Assignment
  <2>2. /\ \A i \in Jobs \ {t.job} : SameToOwner(job[i], job'[i])
        /\ SameToOwner(K, job'[t.job])
    BY <1>1, <1>5, <2>1, HandleVisible
  <2>3. QED
    BY <1>5, <2>2, NoVisibleStep
<1>6. ASSUME NEW t \in flight, ChunkResult(t) PROVE [Promise!Next]_(Promise!vars)
  <2> DEFINE J == job[t.job]
             K == Counted(J, t)
             A == Added(J, t)
  <2>1. t.job \in Jobs /\ t \in Flights(t.job) /\ Sound(J, Flights(t.job))
    BY <1>1 DEF Flights, Assignment
  <2>2. Handle([job EXCEPT ![t.job] = K], flight \ {t}, offer)
    BY <1>6 DEF ChunkResult
  <2>3. CASE J.phase # "running"
    <3>1. K = J
      BY <2>3 DEF Counted
    <3>2. QED
      BY <1>5, <2>2, <2>3, <3>1
  <2>4. CASE J.phase = "running"
    <3>1. J \in JobRecord /\ Accounted(J, Flights(t.job))
      BY <2>1, <2>4 DEF Sound
    <3>2. t.index \in 1..J.total /\ t.index \notin J.checksum
      BY <2>1, <3>1 DEF Accounted
    <3>3. /\ A.total = J.total /\ A.phase = "running"
          /\ A.checksum = J.checksum \cup {t.index}
      BY <2>4, <3>1, <3>2 DEF Added, SymmetricDifference, JobRecord
    <3>4. Sound(K, Flights(t.job) \ {t}) /\ K \in JobRecord
      <4>1. Sound(Counted(job[t.job], t), Flights(t.job) \ {t})
        BY <2>1, CountedSound
      <4> HIDE DEF A
      <4>2. QED
        BY <4>1 DEF Sound
    <3>5. /\ K.total = J.total /\ K.checksum = J.checksum \cup {t.index}
          /\ K.phase = IF J.checksum \cup {t.index} = 1..J.total THEN "done" ELSE "running"
      <4>1. CASE J.completed + 1 = J.total
        <5>1. K = Finished(A)
          BY <2>4, <4>1 DEF Counted
        <5>2. K.phase = "done" /\ K.total = A.total /\ K.checksum = A.checksum
          BY <5>1 DEF Finished, Added, JobRecord
        <5>3. K.checksum = 1..K.total
          BY <3>4, <5>2 DEF Sound
        <5>4. QED
          BY <3>3, <5>2, <5>3
      <4>2. CASE J.completed + 1 # J.total
        <5>1. K = A
          BY <2>4, <4>2 DEF Counted
        <5>2. K.completed = Cardinality(K.checksum) /\ K.completed < K.total
          BY <3>3, <3>4, <5>1 DEF Sound, Tallied
        <5>3. K.total \in Nat
          BY <3>4 DEF JobRecord
        <5>4. K.checksum # 1..K.total
          <6> HIDE DEF K
          <6>1. Cardinality(1..K.total) = K.total
            <7>1. \A n \in Nat : Cardinality(1..n) = n
              BY FS_Interval
            <7>2. QED
              BY <5>3, <7>1
          <6>2. QED
            BY <5>2, <5>3, <6>1
        <5>5. QED
          BY <3>3, <5>1, <5>4
      <4>3. QED
        BY <4>1, <4>2
    <3>6. t.index \in ChunkIds
      BY <1>1 DEF Assignment
    <3> HIDE DEF K, A, J
    <3>7. /\ \A i \in Jobs \ {t.job} : SameToOwner(job[i], job'[i])
          /\ SameToOwner(K, job'[t.job]) \/ IsFailed(job'[t.job])
      BY <1>1, <2>1, <2>2, <3>4, HandleVisible
    <3>8. CASE IsFailed(job'[t.job])
      BY <1>2, <2>1, <2>4, <3>7, <3>8, GiveUpStep DEF J
    <3>9. CASE SameToOwner(K, job'[t.job])
      <4>1. /\ job'[t.job].phase = K.phase /\ job'[t.job].total = J.total
            /\ job'[t.job].checksum = J.checksum \cup {t.index}
        BY <3>5, <3>9 DEF SameToOwner
      <4>2. Promise!Count(t.job, t.index)
        BY <2>1, <2>4, <3>2, <3>5, <3>7, <4>1, CountStep DEF J
      <4>3. QED
        BY <2>1, <3>6, <4>2 DEF Promise!Next, ChunkIds
    <3>10. QED
      BY <3>7, <3>8, <3>9
  <2>5. QED
    BY <2>3, <2>4
<1>7. ASSUME NEW t \in flight, ChunkRefused(t) \/ OutboundFailure(t)
      PROVE  [Promise!Next]_(Promise!vars)
  <2> DEFINE J == job[t.job]
             K == Retried(J, t)
  <2>1. t.job \in Jobs /\ t \in Flights(t.job) /\ Sound(J, Flights(t.job))
    BY <1>1 DEF Flights, Assignment
  <2>2. Handle([job EXCEPT ![t.job] = K], flight \ {t}, offer)
    BY <1>7 DEF ChunkRefused, OutboundFailure
  <2>3. CASE J.phase # "running"
    <3>1. K = J
      BY <2>3 DEF Retried, Settled
    <3>2. QED
      BY <1>5, <2>2, <2>3, <3>1
  <2>4. CASE J.phase = "running"
    <3>1. K \in JobRecord
      BY <2>1, RetriedSound DEF Sound
    <3>2. J \in JobRecord
      BY <1>1, <2>1
    <3>3. IsFailed(K) \/ SameToOwner(J, K)
      <4>1. K = Failed(J) \/ K = Requeued(J, t)
        BY <2>4 DEF Retried, Settled
      <4>2. SameToOwner(J, Requeued(J, t))
        BY <3>2 DEF Requeued, SameToOwner, JobRecord
      <4>3. QED
        BY <4>1, <4>2, FailedIsFailed
    <3>4. QED
      BY <1>4, <2>2, <2>4, <3>1, <3>3
  <2>5. QED
    BY <2>3, <2>4
<1>8. ASSUME NEW w \in Workers, NEW s \in Offers,
             Handle(job, flight, [offer EXCEPT ![w] = s])
      PROVE  [Promise!Next]_(Promise!vars)
  <2> DEFINE off == [offer EXCEPT ![w] = s]
  <2>1. off \in [Workers -> Offers] /\ Handle(job, flight, off)
    BY <1>1, <1>8
  <2> HIDE DEF off
  <2>2. ASSUME NEW j \in Jobs PROVE SameToOwner(job[j], job'[j])
    <3>1. [job EXCEPT ![j] = job[j]] = job
      BY <1>1
    <3>2. \/ SameToOwner(job[j], job'[j])
          \/ job[j].phase = "running" /\ job[j].inFlight = 0
      BY <1>1, <2>1, <3>1, HandleVisible
    <3>3. job[j].phase = "running" => job[j].inFlight # 0
      BY FS_EmptySet DEF IInv, Sound, Tallied, Running
    <3>4. QED
      BY <3>2, <3>3
  <2>3. QED
    BY <2>2, NoVisibleStep
<1>9. ASSUME UNCHANGED job PROVE [Promise!Next]_(Promise!vars)
  BY <1>9, NoVisibleStep DEF SameToOwner
<1>10. QED
  BY <1>3, <1>6, <1>7, <1>8, <1>9
     DEF Next, PeerResources, LocalResources, ObservationExpires, Workers, vars

\* The initial states map to initial states.
LEMMA InitRefines == Init => Promise!Init
<1> SUFFICES ASSUME Init PROVE Promise!Init
  OBVIOUS
<1>1. \A j \in Jobs : job[j] = Absent
  BY DEF Init
<1>2. [j \in Jobs |-> job[j].phase] = [j \in Jobs |-> "absent"]
  BY <1>1, AbsentFacts
<1>3. [j \in Jobs |-> job[j].total] = [j \in Jobs |-> 0]
  BY <1>1, AbsentFacts
<1>4. [j \in Jobs |-> job[j].checksum] = [j \in Jobs |-> {}]
  BY <1>1, AbsentFacts
<1>5. QED
  BY <1>2, <1>3, <1>4 DEF Promise!Init

\* The scheduler keeps the promise of MatrixJobs: each job is reported once, and a
\* reported result covers each of its rows exactly once.
THEOREM Refinement == Spec => KeepsPromise
<1>1. IInv /\ [Next]_vars => [Promise!Next]_(Promise!vars)
  BY StepRefines
<1>2. QED
  BY <1>1, InitRefines, Invariance, PTL DEF Spec, KeepsPromise, Promise!Spec

=============================================================================
