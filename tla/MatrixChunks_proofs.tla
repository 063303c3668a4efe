-------------------------- MODULE MatrixChunks_proofs --------------------------
(***************************************************************************)
(* For every size and row count the owner may type: the cut covers every   *)
(* row exactly once, and every chunk passes the check of a worker.         *)
(***************************************************************************)
EXTENDS MatrixChunks, FiniteSetTheorems, TLAPS

\* Division rounds down.
LEMMA DivisionBounds ==
  ASSUME NEW n \in Nat, NEW r \in Nat, r > 0
  PROVE  /\ n \div r \in Nat
         /\ (n \div r) * r <= n
         /\ n < (n \div r) * r + r
OBVIOUS

\* The products below stay in order.
LEMMA Monotone ==
  ASSUME NEW a \in Nat, NEW b \in Nat, NEW r \in Nat, a <= b
  PROVE  a * r \in Nat /\ b * r \in Nat /\ a * r <= b * r
OBVIOUS

LEMMA Successor ==
  ASSUME NEW a \in Nat, NEW r \in Nat
  PROVE  (a + 1) * r = a * r + r
OBVIOUS

\* The number of chunks is the least that covers the rows.
LEMMA TotalBounds ==
  ASSUME NEW s, NEW r, InBounds(s, r)
  PROVE  /\ s \in Nat /\ r \in Nat /\ r > 0 /\ r <= MaxChunkRows /\ s > 0
         /\ TotalChunks(s, r) \in Nat /\ TotalChunks(s, r) > 0
         /\ s <= TotalChunks(s, r) * r
         /\ (TotalChunks(s, r) - 1) * r < s
<1> DEFINE T == TotalChunks(s, r)
<1>1. s \in Nat /\ s > 0 /\ r \in Nat /\ r > 0 /\ r <= MaxChunkRows
  BY ChunkAssumptions DEF InBounds
<1>2. s + r - 1 \in Nat
  BY <1>1
<1>3. T = (s + r - 1) \div r
  BY DEF TotalChunks, DivCeil
<1>4. T \in Nat /\ T * r <= s + r - 1 /\ s + r - 1 < T * r + r
  BY <1>1, <1>2, <1>3, DivisionBounds
<1> HIDE DEF T
<1>5. s <= T * r
  <2>1. T * r \in Nat
    BY <1>1, <1>4
  <2>2. QED
    BY <1>1, <1>4, <2>1
<1>6. T > 0
  <2>1. CASE T = 0
    BY <1>1, <1>5, <2>1
  <2>2. QED
    BY <1>4, <2>1
<1>7. (T - 1) * r < s
  <2>1. T - 1 \in Nat /\ (T - 1) + 1 = T
    BY <1>4, <1>6
  <2>2. T * r = (T - 1) * r + r
    BY <1>1, <2>1, Successor
  <2>3. (T - 1) * r \in Nat
    BY <1>1, <2>1, Monotone
  <2>4. QED
    BY <1>1, <1>4, <2>2, <2>3
<1>8. QED
  BY <1>1, <1>4, <1>5, <1>6, <1>7 DEF T

\* No sum or product of an accepted plan leaves 16 bits, so the modulus is idle.
LEMMA ChunkBounds ==
  ASSUME NEW s, NEW r, InBounds(s, r), NEW i \in 0..(TotalChunks(s, r) - 1)
  PROVE  /\ RowStart(r, i) = i * r /\ i * r \in Nat /\ i * r < s
         /\ RowEnd(s, r, i) = (IF i * r + r < s THEN i * r + r ELSE s)
         /\ s + r < U16
<1> DEFINE T == TotalChunks(s, r)
<1>1. /\ s \in Nat /\ r \in Nat /\ r > 0 /\ r <= MaxChunkRows /\ T \in Nat /\ T > 0
      /\ (T - 1) * r < s
  BY TotalBounds
<1> HIDE DEF T
<1>2. s + r < U16
  <2>1. MaxSize \in Nat /\ MaxChunkRows \in Nat /\ MaxSize + MaxChunkRows < U16
    BY ChunkAssumptions
  <2>2. MinSize \in Nat /\ s <= MaxSize
    BY <1>1, <2>1, ChunkAssumptions DEF InBounds
  <2>3. QED
    BY <1>1, <2>1, <2>2 DEF U16
<1>3. i \in Nat /\ T - 1 \in Nat /\ i <= T - 1
  BY <1>1 DEF T
<1>4. i * r \in Nat /\ i * r <= (T - 1) * r /\ (T - 1) * r \in Nat
  BY <1>1, <1>3, Monotone
<1>5. i * r < s
  BY <1>1, <1>4
<1>6. RowStart(r, i) = i * r
  <2>1. \A n \in Nat : n < U16 => n % U16 = n
    BY DEF U16
  <2>2. i * r < U16
    BY <1>1, <1>2, <1>4, <1>5 DEF U16
  <2>3. QED
    BY <1>4, <2>1, <2>2 DEF RowStart
<1>7. (i * r + r) % U16 = i * r + r
  <2>1. \A n \in Nat : n < U16 => n % U16 = n
    BY DEF U16
  <2>2. i * r + r \in Nat /\ i * r + r < U16
    BY <1>1, <1>2, <1>4, <1>5 DEF U16
  <2>3. QED
    BY <2>1, <2>2
<1>8. QED
  BY <1>2, <1>4, <1>5, <1>6, <1>7 DEF RowEnd, Smaller

\* Every row of the matrix belongs to one chunk of the cut.
LEMMA CutPartitions ==
  ASSUME NEW s, NEW r, InBounds(s, r), NEW row \in 0..(s - 1)
  PROVE  \E p \in DOMAIN Chunks(s, r) :
           {i \in DOMAIN Chunks(s, r) :
              Chunks(s, r)[i].start <= row /\ row < Chunks(s, r)[i].end} = {p}
<1> DEFINE T == TotalChunks(s, r)
           p == row \div r
<1>1. /\ s \in Nat /\ r \in Nat /\ r > 0 /\ T \in Nat /\ T > 0 /\ s <= T * r
  BY TotalBounds
<1>2. row \in Nat /\ row < s
  BY <1>1
<1>3. p \in Nat /\ p * r <= row /\ row < p * r + r
  BY <1>1, <1>2, DivisionBounds
<1> HIDE DEF p
<1>4. p \in 0..(T - 1)
  <2>1. CASE p >= T
    <3>1. T * r <= p * r /\ T * r \in Nat /\ p * r \in Nat
      BY <1>1, <1>3, <2>1, Monotone
    <3>2. QED
      BY <1>1, <1>2, <1>3, <3>1
  <2>2. QED
    BY <1>1, <1>3, <2>1
<1>5. DOMAIN Chunks(s, r) = 0..(T - 1)
  BY DEF Chunks
<1>6. ASSUME NEW i \in 0..(T - 1)
      PROVE  (Chunks(s, r)[i].start <= row /\ row < Chunks(s, r)[i].end) <=> i = p
  <2>1. Chunks(s, r)[i].start = RowStart(r, i) /\ Chunks(s, r)[i].end = RowEnd(s, r, i)
    BY <1>6 DEF Chunks
  <2>2. /\ Chunks(s, r)[i].start = i * r /\ i * r \in Nat
        /\ Chunks(s, r)[i].end = (IF i * r + r < s THEN i * r + r ELSE s)
    BY <1>6, <2>1, ChunkBounds
  <2>3. i \in Nat /\ p * r \in Nat
    BY <1>1, <1>3, <1>6, Monotone
  <2>4. CASE i = p
    BY <1>1, <1>2, <1>3, <2>2, <2>3, <2>4
  <2>5. CASE i < p
    <3>1. (i + 1) * r <= p * r /\ (i + 1) * r = i * r + r
      <4>1. i + 1 \in Nat /\ i + 1 <= p
        BY <1>3, <2>3, <2>5
      <4>2. QED
        BY <1>1, <1>3, <2>3, <4>1, Monotone, Successor
    <3>2. i * r + r <= row
      BY <1>1, <1>2, <1>3, <2>2, <2>3, <3>1
    <3>3. QED
      BY <1>1, <1>2, <2>2, <2>5, <1>3, <2>3, <3>2
  <2>6. CASE i > p
    <3>1. (p + 1) * r <= i * r /\ (p + 1) * r = p * r + r
      <4>1. p + 1 \in Nat /\ p + 1 <= i
        BY <1>3, <2>3, <2>6
      <4>2. QED
        BY <1>1, <1>3, <2>3, <4>1, Monotone, Successor
    <3>2. row < i * r
      BY <1>1, <1>2, <1>3, <2>2, <2>3, <3>1
    <3>3. QED
      BY <1>2, <2>2, <2>3, <2>6, <1>3, <3>2
  <2>7. QED
    BY <1>3, <2>3, <2>4, <2>5, <2>6
<1>7. QED
  BY <1>4, <1>5, <1>6

\* Every chunk of the cut is one a worker accepts.
LEMMA CutValidates ==
  ASSUME NEW s, NEW r, InBounds(s, r), NEW i \in DOMAIN Chunks(s, r)
  PROVE  Validates(s, Chunks(s, r)[i])
<1>1. i \in 0..(TotalChunks(s, r) - 1)
  BY DEF Chunks
<1>2. /\ Chunks(s, r)[i].start = RowStart(r, i) /\ Chunks(s, r)[i].end = RowEnd(s, r, i)
  BY <1>1 DEF Chunks
<1>3. /\ RowStart(r, i) = i * r /\ i * r \in Nat /\ i * r < s
      /\ RowEnd(s, r, i) = (IF i * r + r < s THEN i * r + r ELSE s)
  BY <1>1, ChunkBounds
<1>4. s \in Nat /\ r \in Nat /\ r > 0 /\ r <= MaxChunkRows
  BY TotalBounds
<1>5. MaxChunkRows \in Nat
  BY ChunkAssumptions
<1> DEFINE a == i * r
<1> HIDE DEF a
<1>6. QED
  BY <1>2, <1>3, <1>4, <1>5 DEF Validates, InBounds, a

---------------------------------------------------------------------------
\* A planned matrix was within bounds, and its plan is the cut.
PlanIsCut ==
  /\ size \in Sizes /\ rows \in RowCounts
  /\ status \in {"typed", "refused", "planned"}
  /\ status = "planned" => InBounds(size, rows) /\ plan = Chunks(size, rows)

\* Planning is the only step that makes a plan, and it checks the bounds.
THEOREM PlanInvariant == Spec => []PlanIsCut
<1>1. Init => PlanIsCut
  BY DEF Init, PlanIsCut
<1>2. PlanIsCut /\ [Next]_vars => PlanIsCut'
  <2> SUFFICES ASSUME PlanIsCut, [Next]_vars PROVE PlanIsCut'
    OBVIOUS
  <2>1. CASE PlanMatrix
    BY <2>1 DEF PlanMatrix, PlanIsCut, InBounds
  <2>2. CASE RefuseMatrix
    BY <2>2 DEF RefuseMatrix, PlanIsCut
  <2>3. CASE UNCHANGED vars
    BY <2>3 DEF vars, PlanIsCut
  <2>4. QED
    BY <2>1, <2>2, <2>3 DEF Next
<1>3. QED
  BY <1>1, <1>2, PTL DEF Spec

\* A plan has TotalChunks chunks of 16-bit row numbers, for every size and row count
\* start_distributed_matrix lets through.
THEOREM TypeCorrect == Spec => []TypeOK
<1>1. PlanIsCut => TypeOK
  <2> SUFFICES ASSUME PlanIsCut, status = "planned"
               PROVE  plan \in [0..(TotalChunks(size, rows) - 1) ->
                                  [start : 0..(U16 - 1), end : 0..(U16 - 1)]]
    BY DEF PlanIsCut, TypeOK
  <2> DEFINE T == TotalChunks(size, rows)
  <2>1. InBounds(size, rows) /\ plan = Chunks(size, rows)
    BY DEF PlanIsCut
  <2>2. size \in 0..(U16 - 1) /\ U16 \in Nat
    <3>1. size \in 0..(U16 - 1)
      BY ChunkAssumptions DEF PlanIsCut
    <3>2. U16 \in Nat
      BY DEF U16
    <3>3. QED
      BY <3>1, <3>2
  <2>3. ASSUME NEW i \in 0..(T - 1)
        PROVE  RowStart(rows, i) \in 0..(U16 - 1) /\ RowEnd(size, rows, i) \in 0..(U16 - 1)
    <3>1. /\ RowStart(rows, i) = i * rows /\ i * rows \in Nat /\ i * rows < size
          /\ RowEnd(size, rows, i) = (IF i * rows + rows < size THEN i * rows + rows ELSE size)
          /\ rows \in Nat
      BY <2>1, ChunkBounds, TotalBounds
    <3>2. PICK a \in Nat : /\ RowStart(rows, i) = a /\ a < size /\ rows \in Nat
                           /\ RowEnd(size, rows, i) = (IF a + rows < size THEN a + rows ELSE size)
      BY <3>1
    <3>3. QED
      BY <2>2, <3>2
  <2>4. QED
    BY <2>1, <2>3 DEF Chunks
<1>2. QED
  BY <1>1, PlanInvariant, PTL

\* Every row of a planned matrix is computed by exactly one chunk, for every size and
\* row count start_distributed_matrix lets through.
THEOREM EveryRowOnce == Spec => []RowsPartitioned
<1>1. PlanIsCut => RowsPartitioned
  <2> SUFFICES ASSUME PlanIsCut, status = "planned"
               PROVE  /\ \A i \in DOMAIN plan : plan[i].end <= size
                      /\ \A row \in 0..(size - 1) :
                           Cardinality({i \in DOMAIN plan :
                             plan[i].start <= row /\ row < plan[i].end}) = 1
    BY DEF RowsPartitioned
  <2>1. InBounds(size, rows) /\ plan = Chunks(size, rows)
    BY DEF PlanIsCut
  <2>2. \A i \in DOMAIN plan : plan[i].end <= size
    BY <2>1, CutValidates DEF Validates
  <2>3. ASSUME NEW row \in 0..(size - 1)
        PROVE  Cardinality({i \in DOMAIN plan :
                 plan[i].start <= row /\ row < plan[i].end}) = 1
    <3>1. PICK p \in DOMAIN plan :
            {i \in DOMAIN plan : plan[i].start <= row /\ row < plan[i].end} = {p}
      BY <2>1, <2>3, CutPartitions
    <3>2. QED
      BY <3>1, FS_Singleton
  <2>4. QED
    BY <2>2, <2>3
<1>2. QED
  BY <1>1, PlanInvariant, PTL

\* No worker refuses a planned chunk, for every size and row count let through.
THEOREM EveryChunkValidates == Spec => []NoChunkRefused
<1>1. PlanIsCut => NoChunkRefused
  BY CutValidates DEF PlanIsCut, NoChunkRefused
<1>2. QED
  BY <1>1, PlanInvariant, PTL

=============================================================================
