-------------------------- MODULE ReleaseExecutor --------------------------
(***************************************************************************)
(* The goroutine that carries a release out: executeRelease and what it    *)
(* calls.  One action per database statement or Kubernetes call, so that   *)
(* request handlers and the goroutines of other releases interleave        *)
(* between any two of them.                                                *)
(***************************************************************************)
EXTENDS ReleaseStore

CONSTANTS
    RolloutWatched  \* TRUE for Deployment and StatefulSet groups

MaxTries == 3       \* completeReleaseWithRetry

PC == {"idle", "prepare", "bump", "bumpread", "bumpretry", "reread", "check",
       "write", "mark", "wait", "recheck", "drop", "publish", "clear",
       "faildrop", "failclear", "read", "complete", "external", "rollback",
       "exit"}

\* Which of the pod-changing phases the goroutine is in: before the first
\* apply, following a rollout, or promoting the candidate.
Stage == {"render", "rollout", "promote"}

VARIABLES
    task,       \* task[r]: the goroutine of release r and its locals
    published,  \* history: releases ever written to current_release_id
    late        \* history: late[r] counts the applies and scales r made
                \* while its row was not running or paused

Task == [pc    : PC,
         stage : Stage,
         held  : Nat,                      \* the version of the next CAS
         base  : ReleaseOrNone,            \* current_release_id as first read
         goal  : {"succeeded", "failed"},  \* status to complete with
         tries : 0..MaxTries,
         batch : 0..Batches,
         back  : BOOLEAN]                  \* autoRollback after failing

NoTask == [pc |-> "idle", stage |-> "render", held |-> 0,
           base |-> NoRelease, goal |-> "failed", tries |-> 0,
           batch |-> 0, back |-> FALSE]

executor == <<task, published, late>>
store    == <<rows, group, cluster>>

ExecutorTypeOK ==
    /\ task \in [Release -> Task]
    /\ published \subseteq Release
    /\ late \in [Release -> Nat]

ExecutorInit ==
    /\ task = [r \in Release |-> NoTask]
    /\ published = {}
    /\ late = [r \in Release |-> 0]

At(r, pc)    == task[r].pc = pc
Become(r, t) == task' = [task EXCEPT ![r] = t]
Goto(r, pc)  == Become(r, [task[r] EXCEPT !.pc = pc])
Candidate(r) == plan[r].strategy = "candidate"
IsLive(r)    == status[r] \in Live      \* ~isInterrupted

\* `go s.executeRelease(...)' with strategy s, rel.Version = v, and a copy
\* of the group row in which b is current.
Launch(r, s, v, b) ==
    Become(r, [NoTask EXCEPT
                  !.pc = IF s = "external" THEN "external" ELSE "prepare",
                  !.held = v, !.base = b])

\* completeReleaseWithRetry(goal), entered from elsewhere.
Finish(r, goal) ==
    Become(r, [task[r] EXCEPT !.pc = "read", !.goal = goal])

\* An apply or a scale by r, noted when its row has already left Live.
Note(r) == late' = [late EXCEPT ![r] = IF IsLive(r) THEN @ ELSE @ + 1]

-----------------------------------------------------------------------------
\* Stable IPs, configuration and rendering; each of them may fail.
Prepare(r) ==
    /\ At(r, "prepare")
    /\ \/ Goto(r, "bump")
       \/ Finish(r, "failed")
    /\ UNCHANGED <<store, published, late>>

\* Where bumpRunningProgress returns to.
AfterBump(r) ==
    CASE task[r].stage = "promote" -> "write"
      [] task[r].stage = "rollout" /\ ~Candidate(r) ->
            IF RolloutWatched THEN "wait" ELSE "publish"
      [] OTHER -> "check"

\* bumpRunningProgress: CAS with the version in hand ...
Bump(r) ==
    /\ At(r, "bump")
    /\ \/ Cas(r, task[r].held, "running") /\ Goto(r, "reread")
       \/ Conflict(r, task[r].held) /\ Goto(r, "bumpread") /\ UNCHANGED rows
    /\ UNCHANGED <<group, cluster, published, late>>

\* Mutant: the retry is made whatever the row says.
BumpReadBlindly(r) ==
    /\ At(r, "bumpread")
    /\ Become(r, [task[r] EXCEPT !.pc = "bumpretry", !.held = version[r]])
    /\ UNCHANGED <<store, published, late>>

\* ... on a conflict read the row again, giving up when it is not live ...
BumpRead(r) ==
    /\ At(r, "bumpread")
    /\ \/ /\ IsLive(r)
          /\ Become(r, [task[r] EXCEPT !.pc = "bumpretry", !.held = version[r]])
       \/ ~IsLive(r) /\ Goto(r, AfterBump(r))
    /\ UNCHANGED <<store, published, late>>

\* ... and write `running' once more, whatever live status was read.
BumpRetry(r) ==
    /\ At(r, "bumpretry")
    /\ \/ Cas(r, task[r].held, "running") /\ Goto(r, "reread")
       \/ /\ Conflict(r, task[r].held)
          /\ Goto(r, AfterBump(r))
          /\ UNCHANGED rows
    /\ UNCHANGED <<group, cluster, published, late>>

\* UpdateReleaseStatus ends with a second SELECT: rel.Version becomes the
\* version of the row by then, which others may have moved on.
Reread(r) ==
    /\ At(r, "reread")
    /\ Become(r, [task[r] EXCEPT !.pc = AfterBump(r), !.held = version[r]])
    /\ UNCHANGED <<store, published, late>>

\* Mutant: the next phase starts without asking isInterrupted.
CheckNothing(r) ==
    /\ At(r, "check")
    /\ IF task[r].stage = "rollout" /\ task[r].batch = Batches
       THEN Become(r, [task[r] EXCEPT !.pc = "bump", !.stage = "promote"])
       ELSE Goto(r, "write")
    /\ UNCHANGED <<store, published, late>>

\* `if s.isInterrupted(...) { return }' before the next phase.
Check(r) ==
    /\ At(r, "check")
    /\ \/ ~IsLive(r) /\ Goto(r, "exit")
       \/ /\ IsLive(r)
          /\ IF task[r].stage = "rollout" /\ task[r].batch = Batches
             THEN Become(r, [task[r] EXCEPT !.pc = "bump", !.stage = "promote"])
             ELSE Goto(r, "write")
    /\ UNCHANGED <<store, published, late>>

-----------------------------------------------------------------------------
(* Writing the workload.                                                   *)

\* Mutant: rolls back before the failed release is completed.
RollBackFirst(r) ==
    Become(r, [task[r] EXCEPT
                  !.pc = IF plan[r].auto /\ plan[r].prev # NoRelease
                         THEN "rollback" ELSE "read",
                  !.goal = "failed"])

\* Apply failed, before or after the workload itself was written; with
\* AutoRollbackOnFailure the goroutine goes on to autoRollback.
ApplyFailed(r) ==
    Become(r, [task[r] EXCEPT
                  !.pc = "read", !.goal = "failed",
                  !.back = plan[r].auto /\ plan[r].prev # NoRelease])

\* GetClient failed: the release fails, and is never rolled back by itself.
NoClient(r) ==
    /\ At(r, "write") /\ task[r].stage = "render"
    /\ Finish(r, "failed")
    /\ UNCHANGED <<store, published, late>>

ApplyRolling(r) ==
    /\ At(r, "write") /\ task[r].stage = "render" /\ ~Candidate(r)
    /\ \/ /\ ApplyPrimary(r)
          /\ Become(r, [task[r] EXCEPT !.pc = "bump", !.stage = "rollout"])
       \/ (ApplyPrimary(r) \/ UNCHANGED cluster) /\ ApplyFailed(r)
    /\ Note(r)
    /\ UNCHANGED <<rows, group, published>>

\* The primary keeps the image that was current when the group was read
\* (the release's own on the first release), the candidate starts at zero.
ApplyCandidate(r) ==
    LET old == IF task[r].base = NoRelease THEN r ELSE task[r].base IN
    /\ At(r, "write") /\ task[r].stage = "render" /\ Candidate(r)
    /\ \/ /\ ApplyWithCandidate(old, r)
          /\ Become(r, [task[r] EXCEPT !.pc = "mark", !.stage = "rollout"])
       \/ /\ ApplyWithCandidate(old, r) \/ ApplyPrimary(old)
             \/ UNCHANGED cluster
          /\ ApplyFailed(r)
    /\ Note(r)
    /\ UNCHANGED <<rows, group, published>>

\* The next batch; the scale subresource of a deleted Deployment is an error.
ScaleBatch(r) ==
    /\ At(r, "write") /\ task[r].stage = "rollout" /\ task[r].batch < Batches
    /\ \/ /\ ScaleCandidate(task[r].batch + 1)
          /\ Become(r, [task[r] EXCEPT !.pc = "mark", !.batch = @ + 1])
          /\ Note(r)
       \/ Goto(r, "faildrop") /\ UNCHANGED <<cluster, late>>
    /\ UNCHANGED <<rows, group, published>>

\* UpdateGroupCandidate, after the first apply and after every batch.
MarkCandidate(r) ==
    /\ At(r, "mark")
    /\ SetCandidate(r)
    /\ Goto(r, IF task[r].batch = 0 THEN "check" ELSE "wait")
    /\ UNCHANGED <<rows, cluster, published, late>>

\* The candidate's image applied as the full primary.
Promote(r) ==
    /\ At(r, "write") /\ task[r].stage = "promote"
    /\ \/ ApplyPrimary(r) /\ Goto(r, "wait")
       \/ (ApplyPrimary(r) \/ UNCHANGED cluster) /\ Goto(r, "faildrop")
    /\ Note(r)
    /\ UNCHANGED <<rows, group, published>>

-----------------------------------------------------------------------------
(* Waiting for the rollout.                                                *)

\* Ready replicas only: whose template they run is not looked at.
RolledOut(r) ==
    IF Candidate(r) /\ task[r].stage = "rollout"
    THEN canary # NoRelease /\ canarySize >= task[r].batch
    ELSE up

AfterWait(r) ==
    CASE ~Candidate(r) -> "publish"
      [] Candidate(r) /\ task[r].stage # "promote" -> "bump"
      [] Candidate(r) /\ task[r].stage = "promote" -> "drop"

\* Mutant: the wait has no deadline and ignores errors.
WaitForever(r) ==
    /\ At(r, "wait")
    /\ \/ ~IsLive(r) /\ Goto(r, "exit")
       \/ IsLive(r) /\ RolledOut(r) /\ Goto(r, AfterWait(r))
    /\ UNCHANGED <<store, published, late>>

\* waitForRollout and waitForDeploymentRollout: a tick that settles the wait,
\* on interruption, readiness, or an error or the ten-minute deadline.
Wait(r) ==
    /\ At(r, "wait")
    /\ \/ ~IsLive(r) /\ Goto(r, "exit")
       \/ IsLive(r) /\ RolledOut(r) /\ Goto(r, AfterWait(r))
       \/ IsLive(r) /\ Goto(r, "recheck")
    /\ UNCHANGED <<store, published, late>>

\* A failed wait asks isInterrupted once more before it blames the release.
Recheck(r) ==
    /\ At(r, "recheck")
    /\ \/ ~IsLive(r) /\ Goto(r, "exit")
       \/ IsLive(r) /\ (IF Candidate(r) THEN Goto(r, "faildrop")
                                        ELSE Finish(r, "failed"))
    /\ UNCHANGED <<store, published, late>>

-----------------------------------------------------------------------------
(* Completion.                                                             *)

\* Deleting the promoted candidate; an error is only logged.
DropCandidate(r) ==
    /\ At(r, "drop")
    /\ DeleteCandidate \/ UNCHANGED cluster
    /\ Goto(r, "publish")
    /\ UNCHANGED <<rows, group, published, late>>

\* Mutant: completes the release and leaves the group row alone.
PublishNothing(r) ==
    /\ At(r, "publish")
    /\ IF plan[r].strategy = "external" THEN Goto(r, "exit")
                                        ELSE Finish(r, "succeeded")
    /\ UNCHANGED <<store, published, late>>

\* UpdateGroupCurrentRelease, without looking at the row again.
Publish(r) ==
    /\ At(r, "publish")
    /\ SetCurrent(r)
    /\ published' = published \cup {r}
    /\ CASE plan[r].strategy = "rolling"   -> Finish(r, "succeeded")
         [] plan[r].strategy = "candidate" -> Goto(r, "clear")
         [] plan[r].strategy = "external"  -> Goto(r, "exit")
    /\ UNCHANGED <<rows, cluster, late>>

ClearCandidate(r) ==
    /\ At(r, "clear")
    /\ SetCandidate(NoRelease)
    /\ Finish(r, "succeeded")
    /\ UNCHANGED <<rows, cluster, published, late>>

\* failCandidateRelease: delete the candidate Deployment, whoever owns it ...
FailDrop(r) ==
    /\ At(r, "faildrop")
    /\ DeleteCandidate \/ UNCHANGED cluster
    /\ Goto(r, "failclear")
    /\ UNCHANGED <<rows, group, published, late>>

\* ... clear the group's candidate columns, and fail the release.
FailClear(r) ==
    /\ At(r, "failclear")
    /\ SetCandidate(NoRelease)
    /\ Finish(r, "failed")
    /\ UNCHANGED <<rows, cluster, published, late>>

\* Where the goroutine goes when its release is completed or given up.
AfterComplete(r) == IF task[r].back THEN "rollback" ELSE "exit"

\* One try of completeReleaseWithRetry: a read that stops at a settled row ...
CompleteRead(r) ==
    /\ At(r, "read")
    /\ \/ ~IsLive(r) /\ Goto(r, AfterComplete(r))
       \/ /\ IsLive(r)
          /\ Become(r, [task[r] EXCEPT !.pc = "complete", !.held = version[r]])
    /\ UNCHANGED <<store, published, late>>

\* ... and the CAS; a third conflict leaves the row as it is.
Complete(r) ==
    /\ At(r, "complete")
    /\ \/ /\ Cas(r, task[r].held, task[r].goal)
          /\ Goto(r, AfterComplete(r))
       \/ /\ Conflict(r, task[r].held)
          /\ \/ /\ task[r].tries + 1 < MaxTries
                /\ Become(r, [task[r] EXCEPT !.pc = "read", !.tries = @ + 1])
             \/ /\ task[r].tries + 1 >= MaxTries
                /\ Goto(r, AfterComplete(r))
          /\ UNCHANGED rows
    /\ UNCHANGED <<group, cluster, published, late>>

\* completeExternalRelease: inference is deployed elsewhere, so the row is
\* marked succeeded at once; a conflict is ignored.
CompleteExternal(r) ==
    /\ At(r, "external")
    /\ \/ Cas(r, task[r].held, "succeeded")
       \/ Conflict(r, task[r].held) /\ UNCHANGED rows
    /\ Goto(r, "publish")
    /\ UNCHANGED <<group, cluster, published, late>>

Execute(r) ==
    \/ Prepare(r) \/ Bump(r) \/ BumpRead(r) \/ BumpRetry(r) \/ Reread(r)
    \/ Check(r) \/ NoClient(r)
    \/ ApplyRolling(r) \/ ApplyCandidate(r) \/ ScaleBatch(r)
    \/ MarkCandidate(r) \/ Promote(r)
    \/ Wait(r) \/ Recheck(r)
    \/ DropCandidate(r) \/ Publish(r) \/ ClearCandidate(r)
    \/ FailDrop(r) \/ FailClear(r)
    \/ CompleteRead(r) \/ Complete(r) \/ CompleteExternal(r)
=============================================================================
