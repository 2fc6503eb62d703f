------------------------------ MODULE MCLocks ------------------------------
\* An instance of Locks for TLC.
EXTENDS Locks, TLC

CONSTANTS r1, r2, main, conf, res, n1, o1, o2, x1, x2

MCAsk == (r1 :> {"view", "resources", "test", "put", "start"})
      @@ (r2 :> {"resources", "output", "delete"})

\* Objects are interchangeable, and so are tests.
Symmetry == Permutations(Obj) \union Permutations(Test)
=============================================================================
