------------------------------ MODULE MCBuild ------------------------------
EXTENDS Build

CONSTANTS p1, p2

OneProcess == {p1}
TwoProcesses == {p1, p2}
=============================================================================
