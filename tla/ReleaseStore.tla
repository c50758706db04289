---------------------------- MODULE ReleaseStore ----------------------------
(***************************************************************************)
(* The durable state one application group's releases share: the rows of   *)
(* vo_releases, the release columns of the group's vo_groups row, and the  *)
(* two Deployments the releases write in Kubernetes.  Every other module   *)
(* of the release component changes this state through the operators       *)
(* below, each of them one SQL statement or one Kubernetes call.           *)
(***************************************************************************)
EXTENDS Naturals, FiniteSets

CONSTANTS MaxRelease,   \* bound: rows of vo_releases in the group
          Batches       \* batches of a percentage / machine_count release

ASSUME StoreAssumption ==
    /\ MaxRelease \in Nat \ {0}
    /\ Batches \in Nat \ {0}

Release  == 1..MaxRelease      \* release_number; unique in the group
NoRelease == 0
ReleaseOrNone == Release \cup {NoRelease}

Strategy == {"rolling", "candidate", "external"}

Live  == {"running", "paused"}
Final == {"succeeded", "failed", "aborted", "interrupted"}
Status == {"none", "pending_approval"} \cup Live \cup Final

VARIABLES
    status,     \* status[r]: vo_releases.status, "none" before the INSERT
    version,    \* version[r]: the optimistic lock of the row
    plan,       \* plan[r]: the columns that no statement changes later
    current,    \* vo_groups.current_release_id
    candidate,  \* vo_groups.candidate_release_id
    primary,    \* release the primary Deployment was last applied from
    up,         \* FALSE while the primary Deployment is scaled to zero
    canary,     \* release the -candidate Deployment was created by, if any
    canarySize  \* its replicas, counted in batches

rows    == <<status, version, plan>>
group   == <<current, candidate>>
cluster == <<primary, up, canary, canarySize>>

Plan == [strategy : Strategy,
         auto     : BOOLEAN,        \* AutoRollbackOnFailure
         gated    : BOOLEAN,        \* created as pending_approval
         prev     : ReleaseOrNone]  \* PreviousReleaseID

NoPlan == [strategy |-> "rolling", auto |-> FALSE, gated |-> FALSE,
           prev |-> NoRelease]

StoreTypeOK ==
    /\ status \in [Release -> Status]
    /\ version \in [Release -> Nat]
    /\ plan \in [Release -> Plan]
    /\ current \in ReleaseOrNone
    /\ candidate \in ReleaseOrNone
    /\ primary \in ReleaseOrNone
    /\ up \in BOOLEAN
    /\ canary \in ReleaseOrNone
    /\ canarySize \in 0..Batches

StoreInit ==
    /\ status = [r \in Release |-> "none"]
    /\ version = [r \in Release |-> 0]
    /\ plan = [r \in Release |-> NoPlan]
    /\ current = NoRelease
    /\ candidate = NoRelease
    /\ primary = NoRelease
    /\ up = TRUE
    /\ canary = NoRelease
    /\ canarySize = 0

-----------------------------------------------------------------------------
(* Rows of vo_releases.                                                    *)

\* Mutant: the WHERE clause without the version.
CasUnlocked(r, v, s) ==
    /\ status' = [status EXCEPT ![r] = s]
    /\ version' = [version EXCEPT ![r] = @ + 1]
    /\ plan' = plan

\* Mutant: the SET clause without version = version + 1.
CasUncounted(r, v, s) ==
    /\ version[r] = v
    /\ status' = [status EXCEPT ![r] = s]
    /\ UNCHANGED <<version, plan>>

\* UPDATE ... SET status = s, version = version + 1 WHERE version = v
\* (UpdateReleaseStatus and CompleteRelease; neither looks at the status).
Cas(r, v, s) ==
    /\ version[r] = v
    /\ status' = [status EXCEPT ![r] = s]
    /\ version' = [version EXCEPT ![r] = @ + 1]
    /\ plan' = plan

Conflict(r, v) == version[r] # v     \* RowsAffected() = 0

\* INSERT, refused by uk_rel_number when the number is taken.
Insert(r, s, p) ==
    /\ status[r] = "none"
    /\ status' = [status EXCEPT ![r] = s]
    /\ plan' = [plan EXCEPT ![r] = p]
    /\ version' = version

Existing == {r \in Release : status[r] # "none"}
InStatus(s) == {r \in Release : status[r] = s}

\* ORDER BY release_number DESC LIMIT 1; 0 when there is no row.
Newest(S) == IF \E r \in S : \A q \in S : q <= r
             THEN CHOOSE r \in S : \A q \in S : q <= r
             ELSE NoRelease

NextNumber == Newest(Existing) + 1
LastSucceeded == Newest(InStatus("succeeded"))

-----------------------------------------------------------------------------
(* Columns of vo_groups: unconditional updates.                            *)

SetCurrent(r)   == current' = r /\ candidate' = candidate
SetCandidate(r) == candidate' = r /\ current' = current

-----------------------------------------------------------------------------
(* Kubernetes.                                                             *)

\* Apply renders the full replica count, so a workload paused at zero comes
\* back; c is the release of the -candidate Deployment applied with it.
ApplyPrimary(r) ==
    /\ primary' = r
    /\ up' = TRUE
    /\ UNCHANGED <<canary, canarySize>>

ApplyWithCandidate(p, c) ==
    /\ primary' = p
    /\ up' = TRUE
    /\ canary' = c
    /\ canarySize' = 0

ScaleCandidate(n) ==
    /\ canary # NoRelease
    /\ canarySize' = n
    /\ UNCHANGED <<primary, up, canary>>

DeleteCandidate ==
    /\ canary' = NoRelease
    /\ canarySize' = 0
    /\ UNCHANGED <<primary, up>>

ScalePrimary(b) ==
    /\ up' = b
    /\ UNCHANGED <<primary, canary, canarySize>>
=============================================================================
