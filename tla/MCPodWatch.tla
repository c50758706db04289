----------------------------- MODULE MCPodWatch -----------------------------
EXTENDS PodWatch

CONSTANT web
OnePod == {web}
InDefault == [p \in OnePod |-> "default"]
NamedWeb == [p \in OnePod |-> "web-0"]
=============================================================================
