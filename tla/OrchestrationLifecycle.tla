----------------------- MODULE OrchestrationLifecycle -----------------------
(***************************************************************************)
(* What an orchestration promises, as a client reading the status columns  *)
(* of its row and of its targets sees it: targets are taken in order where *)
(* order was asked for, the outcome agrees with the targets' rows, and an  *)
(* outcome is final for both.  An abort is not: it stops no target, and    *)
(* the orchestration may come back.  Versions, the releases, waits,        *)
(* batches and the process that may die are left out.                      *)
(***************************************************************************)
EXTENDS Naturals

CONSTANT Target     \* numbers, in the order of the rows

VARIABLES status,   \* of the orchestration
          target,   \* target[t]: of target t
          inOrder,  \* the sequential strategy was asked for
          batched   \* targets that may be left running when batches break off

Open == {"pending", "running"}
Decided == {"succeeded", "failed"}

Init ==
    /\ status = "none"
    /\ target = [t \in Target |-> "pending"]
    /\ inOrder \in BOOLEAN
    /\ batched \in SUBSET Target

Submit == status = "none" /\ status' = "pending" /\ target' = target

Proceed == status \in Open /\ status' = "running" /\ target' = target

Begin(t) ==
    /\ status \notin {"none"} \cup Decided
    /\ target[t] = "pending"
    /\ inOrder => \A u \in Target : u < t => target[u] = "succeeded"
    /\ target' = [target EXCEPT ![t] = "running"]
    /\ status' = status

End(t) ==
    /\ status \notin {"none"} \cup Decided
    /\ target[t] = "running"
    /\ \E s \in Decided : target' = [target EXCEPT ![t] = s]
    /\ status' = status

\* The outcome, over an open row or, as in Revive, over an aborted one.  Every
\* target was taken, but for those in order behind a failed one.
Decide ==
    /\ status \in Open \cup {"aborted"}
    /\ \A t \in Target :
          /\ target[t] = "running" => t \in batched
          /\ target[t] = "pending" =>
                inOrder /\ \E u \in Target : u < t /\ target[u] = "failed"
    /\ status' = IF \A t \in Target : target[t] = "succeeded"
                 THEN "succeeded" ELSE "failed"
    /\ target' = target

Abort == status \in Open /\ status' = "aborted" /\ target' = target

\* Progress reported with the version of the aborted row.
Revive == status = "aborted" /\ status' = "running" /\ target' = target

Next ==
    /\ \/ Submit \/ Proceed \/ Decide \/ Abort \/ Revive
       \/ \E t \in Target : Begin(t) \/ End(t)
    /\ UNCHANGED <<inOrder, batched>>

Spec == Init /\ [][Next]_<<status, target, inOrder, batched>>
=============================================================================
