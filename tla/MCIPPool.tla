------------------------------ MODULE MCIPPool ------------------------------
EXTENDS IPPool

CONSTANTS g1, g2, c1, k1

OneGroup == {g1}
TwoGroups == {g1, g2}
OneCaller == {c1}
OnePod == {k1}

\* Two pools of one cluster whose ranges overlap in address 2.
Overlapping == <<{1, 2}, {2, 3}>>
BothPools == [g \in Group |-> <<1, 2>>]

\* One pool of two addresses.
TwoAddresses == <<{1, 2}>>
OnlyPool == [g \in Group |-> <<1>>]
=============================================================================
