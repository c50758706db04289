-------------------------- MODULE ReleaseLifecycle --------------------------
(***************************************************************************)
(* What the release service promises of the releases of a group that needs *)
(* no approval, as a client reading vo_releases.status sees them: a release*)
(* is submitted, is in progress for a while (running, perhaps paused), and *)
(* then settles for good, except that a newer release may still mark it    *)
(* interrupted.  How rows are locked, scanned and retried is left out.     *)
(***************************************************************************)
CONSTANT Release
VARIABLE status

InProgress == {"running", "paused"}
Over == {"succeeded", "failed", "aborted", "interrupted"}

Init == status = [r \in Release |-> "none"]

Becomes(r, s) == status' = [status EXCEPT ![r] = s]

Submit(r) == status[r] = "none" /\ Becomes(r, "running")

\* Progress reports, pauses and resumptions.
Progress(r) ==
    /\ status[r] \in InProgress
    /\ \E s \in InProgress : Becomes(r, s)

Settle(r) ==
    /\ status[r] \in InProgress
    /\ \E s \in Over : Becomes(r, s)

Supersede(r) == status[r] \in Over /\ Becomes(r, "interrupted")

Next == \E r \in Release : Submit(r) \/ Progress(r) \/ Settle(r)
                                     \/ Supersede(r)

Spec == Init /\ [][Next]_status
=============================================================================
