------------------------------- MODULE MCDaily -------------------------------
\* Instances of Daily for TLC: a day of six moments.
EXTENDS Daily

\* The zones of applications are at most two moments away from the host's.
Zones == -2 .. 2
=============================================================================
