------------------------------ MODULE MatrixChunks ------------------------------
(***************************************************************************)
(* How a distributed matrix is cut into row chunks, in the 16-bit          *)
(* arithmetic of the code, and what a worker checks of a chunk before it   *)
(* computes it. MatrixScheduler takes the cut for granted: it knows a      *)
(* chunk by its index. This module says that the indices stand for all     *)
(* rows, each once, and that no worker refuses a planned chunk.            *)
(***************************************************************************)
EXTENDS Integers, FiniteSets

CONSTANTS
  MinSize,        \* MIN_MATRIX_SIZE
  MaxSize,        \* MAX_DISTRIBUTED_MATRIX_SIZE
  MaxChunkRows,   \* MAX_MATRIX_CHUNK_ROWS
  Sizes,          \* the sizes the owner may type
  RowCounts       \* the rows per chunk the owner may type

U16 == 65536

\* No sum or product of the plan leaves u16: the largest is a row start, or a row
\* start and one more chunk.
ASSUME ChunkAssumptions ==
  /\ MinSize \in Nat \ {0}
  /\ MaxSize \in Nat
  /\ MaxChunkRows \in Nat
  /\ MaxSize + MaxChunkRows < U16
  /\ Sizes \subseteq 0..(U16 - 1)
  /\ RowCounts \subseteq 0..(U16 - 1)

VARIABLES
  size,     \* side of the matrix, as typed
  rows,     \* rows per chunk, as typed
  status,   \* typed, refused or planned
  plan      \* the chunks of a planned matrix, by index

vars == <<size, rows, status, plan>>

\* u16::div_ceil.
DivCeil(a, b) == (a + b - 1) \div b

Smaller(a, b) == IF a < b THEN a ELSE b

\* Mutant: no upper bound on the rows of a chunk. (The mutants in this module are no
\* part of the model; each stands in for the definition after it.)
InBoundsAnyRows(s, r) == s \in MinSize..MaxSize /\ r # 0

\* What start_distributed_matrix lets through.
InBounds(s, r) == s \in MinSize..MaxSize /\ r \in 1..MaxChunkRows

\* Mutant: the rows that do not fill a chunk are dropped.
TotalRoundedDown(s, r) == s \div r

TotalChunks(s, r) == DivCeil(s, r)

RowStart(r, i) == (i * r) % U16

\* Mutant: the last chunk is not cut off at the end of the matrix.
RowEndUncut(s, r, i) == (RowStart(r, i) + r) % U16

RowEnd(s, r, i) == Smaller((RowStart(r, i) + r) % U16, s)

\* Mutant: one chunk too many, 0..=total_chunks.
ChunksInclusive(s, r) ==
  [i \in 0..TotalChunks(s, r) |-> [start |-> RowStart(r, i), end |-> RowEnd(s, r, i)]]

\* The row chunks of an accepted matrix: rows start to end - 1.
Chunks(s, r) ==
  [i \in 0..(TotalChunks(s, r) - 1) |->
     [start |-> RowStart(r, i), end |-> RowEnd(s, r, i)]]

Init ==
  /\ size \in Sizes
  /\ rows \in RowCounts
  /\ status = "typed"
  /\ plan = <<>>

PlanMatrix ==
  /\ status = "typed"
  /\ InBounds(size, rows)
  /\ status' = "planned"
  /\ plan' = Chunks(size, rows)
  /\ UNCHANGED <<size, rows>>

RefuseMatrix ==
  /\ status = "typed"
  /\ ~ InBounds(size, rows)
  /\ status' = "refused"
  /\ UNCHANGED <<size, rows, plan>>

Next == PlanMatrix \/ RefuseMatrix

Spec == Init /\ [][Next]_vars

---------------------------------------------------------------------------
\* What a worker checks of a chunk of a matrix of side s (Task::validate).
Validates(s, c) ==
  /\ s \in MinSize..MaxSize
  /\ c.start < c.end
  /\ c.end <= s
  /\ c.end - c.start <= MaxChunkRows

\* The values the state takes.
TypeOK ==
  /\ size \in Sizes /\ rows \in RowCounts
  /\ status \in {"typed", "refused", "planned"}
  /\ status = "planned" =>
       plan \in [0..(TotalChunks(size, rows) - 1) -> [start : 0..(U16 - 1), end : 0..(U16 - 1)]]

\* Every row of a planned matrix is computed by exactly one chunk, and no chunk
\* computes a row there is not: the XOR of the chunk checksums is then the checksum
\* of the whole product. It fails if the last chunk is cut wrong or a sum wraps.
RowsPartitioned ==
  status = "planned" =>
    /\ \A i \in DOMAIN plan : plan[i].end <= size
    /\ \A row \in 0..(size - 1) :
         Cardinality({i \in DOMAIN plan : plan[i].start <= row /\ row < plan[i].end}) = 1

\* No worker refuses a planned chunk. The scheduler counts on it: a chunk that fails
\* locally fails the whole job, and one that fails remotely costs a worker.
NoChunkRefused ==
  status = "planned" => \A i \in DOMAIN plan : Validates(size, plan[i])

=============================================================================
