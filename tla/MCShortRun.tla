----------------------------- MODULE MCShortRun -----------------------------
\* Instances of ShortRun for TLC.
EXTENDS ShortRun, TLC

CONSTANTS p1, p2, p3, t1, t2, t3

Plain == [buffered |-> FALSE, period |-> FALSE]
PlainPeriod == [buffered |-> FALSE, period |-> TRUE]
Buffered == [buffered |-> TRUE, period |-> FALSE]
BufferedPeriod == [buffered |-> TRUE, period |-> TRUE]

EveryKind == {Plain, PlainPeriod, Buffered, BufferedPeriod}
Unbuffered == {Plain, PlainPeriod}

\* Pids are interchangeable, and so are TimerAction objects.  Only the safety
\* runs use this.
Symmetry == Permutations(Pid) \union Permutations(Timer)
=============================================================================
