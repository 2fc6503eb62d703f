------------------------------ MODULE MCLimits ------------------------------
\* An instance of Limits for TLC.
EXTENDS Limits, TLC

CONSTANTS n1, n2, o1, o2, p1, p2, p3

\* Virtual memory alone; memory below the smallest, and a difference of more than 32 bits.
MCLimit == {[mem |-> 0, virt |-> 64], [mem |-> 2, virt |-> 4098]}

Symmetry == Permutations(Name) \union Permutations(Obj) \union Permutations(Proc)
=============================================================================
