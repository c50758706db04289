---------------------------- MODULE IPOwnership ----------------------------
(***************************************************************************)
(* What the IP pools promise, as vo_cluster_ip_pool_entries shows it: a    *)
(* group takes only entries nobody has, and only the group that has an     *)
(* entry gives it back.  An entry never passes from one group to another.  *)
(***************************************************************************)
CONSTANTS Entry, Group, Nobody
VARIABLE owner

Init == owner = [e \in Entry |-> Nobody]

Assign(S, g) == owner' = [e \in Entry |-> IF e \in S THEN g ELSE owner[e]]

Take(g, S) == (\A e \in S : owner[e] = Nobody) /\ Assign(S, g)

Give(g, S) == (\A e \in S : owner[e] = g) /\ Assign(S, Nobody)

Next == \E g \in Group, S \in SUBSET Entry : Take(g, S) \/ Give(g, S)

Spec == Init /\ [][Next]_owner
=============================================================================
