-------------------------- MODULE MCMatrixBuilder ---------------------------
EXTENDS MatrixBuilder
=============================================================================
