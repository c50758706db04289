------------------------------ MODULE MCConfig ------------------------------
EXTENDS Config, TLC
CONSTANTS h1, h2, s1, g1
TwoHandlers == {h1, h2}
OneSet == {s1}
OneGroup == {g1}
Symmetry == Permutations(TwoHandlers)
=============================================================================
