-------------------------- MODULE MCConfiguration --------------------------
\* Instances of Configuration for TLC.
EXTENDS Configuration, TLC

CONSTANTS thread1, thread2, name1, name2, obj1, obj2, obj3

\* Threads, names and objects are interchangeable.  Only the safety runs use this.
Symmetry == Permutations(Thread) \union Permutations(Name) \union Permutations(Obj)
=============================================================================
