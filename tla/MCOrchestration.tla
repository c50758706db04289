--------------------------- MODULE MCOrchestration ---------------------------
(* Every strategy in one instance. *)
EXTENDS Orchestration

AllStrategies == Strategy
=============================================================================
