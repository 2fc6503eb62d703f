------------------------------ MODULE MCStartup ------------------------------
\* Instances of Startup for TLC.
EXTENDS Startup, TLC

CONSTANTS app1, app2, p1, p2, p3, c1, c2

\* The command line of app2, but not that of app1, is met elsewhere too.
Commands == app1 :> c1 @@ app2 :> c2

\* Pids are interchangeable.
Symmetry == Permutations(Pid)
=============================================================================
