------------------------------ MODULE MCTestRun ------------------------------
\* Instances of TestRun for TLC.
EXTENDS TestRun

CONSTANTS t1, o1, o2
=============================================================================
