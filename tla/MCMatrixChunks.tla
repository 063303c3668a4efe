----------------------------- MODULE MCMatrixChunks -----------------------------
(***************************************************************************)
(* The sizes and row counts at the bounds of the code, and some between.   *)
(***************************************************************************)
EXTENDS MatrixChunks

MCSizes     == {0, 15, 16, 17, 63, 64, 65, 127, 128, 129, 255, 500, 767, 768, 769, 65535}
MCRowCounts == {0, 1, 2, 3, 7, 16, 17, 96, 127, 128, 129, 768, 65535}

=============================================================================
