--------------------------- MODULE MCMatrixScheduler ---------------------------
EXTENDS MatrixScheduler
=============================================================================
