----------------------------- MODULE MCClusterOps -----------------------------
EXTENDS ClusterOps

CONSTANTS p1, p2
TwoProcesses == {p1, p2}
=============================================================================
