------------------------------ MODULE MCClient ------------------------------
\* An instance of Client for TLC.
EXTENDS Client, TLC

CONSTANTS n1, n2, all

Symmetry == Permutations(Name)
=============================================================================
