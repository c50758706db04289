------------------------- MODULE ApprovalLifecycle -------------------------
(***************************************************************************)
(* What the release service promises of the releases of any group.  A      *)
(* release that needs approval is proposed first and runs once approved;   *)
(* everything else is as in ReleaseLifecycle, with one exception.  Between *)
(* the approval and the first progress report of its goroutine, a release  *)
(* that was aborted or interrupted may come back to life, once.            *)
(***************************************************************************)
CONSTANT Release
VARIABLES status,
          gated,    \* releases that need approval
          begun     \* releases whose goroutine has made its first report,
                    \* or is past it

Plain == INSTANCE ReleaseLifecycle

Init == Plain!Init /\ gated = {} /\ begun = {}

Propose(r) ==
    /\ status[r] = "none" /\ Plain!Becomes(r, "pending_approval")
    /\ gated' = gated \cup {r}
    /\ begun' = begun

Approve(r) ==
    /\ r \in gated
    /\ status[r] = "pending_approval" /\ Plain!Becomes(r, "running")
    /\ UNCHANGED <<gated, begun>>

\* The life cycle of a release that needs none; any step may be the first report.
Proceed(r) ==
    /\ Plain!Submit(r) \/ Plain!Progress(r) \/ Plain!Settle(r)
                       \/ Plain!Supersede(r)
    /\ gated' = gated
    /\ begun' \in {begun, begun \cup {r}}

\* The first report of an approved release, with the version of a row that
\* was aborted or interrupted meanwhile.
Revive(r) ==
    /\ r \in gated \ begun
    /\ status[r] \in {"aborted", "interrupted"}
    /\ \E s \in {"running", "succeeded"} : Plain!Becomes(r, s)
    /\ gated' = gated
    /\ begun' = begun \cup {r}

\* A first report that fails, or a crash.
Begin == begun \subseteq begun' /\ UNCHANGED <<status, gated>>

Next == \/ \E r \in Release : Propose(r) \/ Approve(r) \/ Proceed(r) \/ Revive(r)
        \/ Begin

Spec == Init /\ [][Next]_<<status, gated, begun>>
=============================================================================
