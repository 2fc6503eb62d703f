--------------------------- MODULE MCApplication ---------------------------
\* Instances of Application for TLC: two applications, three pids.
EXTENDS Application

CONSTANTS app1, app2, p1, p2, p3
=============================================================================
