---------------------------- MODULE Orchestration ----------------------------
(***************************************************************************)
(* A release orchestration: one request releases an application to several *)
(* groups, the targets, one after the other or all at once.  A goroutine   *)
(* triggers a release for each target, polls it until it is over, and      *)
(* keeps the orchestration's row and the targets' rows up to date; a       *)
(* request may abort the orchestration meanwhile.                          *)
(*                                                                         *)
(* The releases are those of the release service, and behave as            *)
(* ReleaseLifecycle says (Release implements it): others may pause them,   *)
(* abort them, and interrupt them by newer ones.                           *)
(***************************************************************************)
EXTENDS Naturals, FiniteSets

CONSTANTS MaxTarget,    \* targets of the orchestration
          Batches,      \* batches of a target released in batches
          Strategies,   \* strategies of this instance
          MaxAbort      \* bound: abort requests

ASSUME OrchestrationAssumption ==
    /\ MaxTarget \in Nat \ {0}
    /\ Batches \in Nat \ {0, 1}
    /\ Strategies \subseteq {"sequential", "parallel", "canary"}
    /\ Strategies # {}
    /\ MaxAbort \in Nat

Target == 1..MaxTarget

VARIABLES
    orch,      \* status and version of the vo_release_orchestrations row
    plan,      \* its strategy, and the targets that are released in batches
    target,    \* target[t]: status of the vo_release_orchestration_targets row
    release,   \* release[t]: vo_releases.status of the release of t
    exec,      \* the goroutine executeOrchestration
    work,      \* work[t]: where executeOrchestrationTarget is
    size,      \* size[t]: batches of t whose rollout was started
    aborts,    \* versions read by abort requests that have yet to write
    asked      \* abort requests so far

vars == <<orch, plan, target, release, exec, work, size, aborts, asked>>

Releases == INSTANCE ReleaseLifecycle WITH Release <- Target, status <- release

Open == {"pending", "running"}
Closed == {"succeeded", "failed", "aborted"}
Strategy == {"sequential", "parallel", "canary"}
WorkStep == {"idle", "trigger", "wait", "scale", "roll", "end"}
ExecStep == {"none", "mark", "reread", "run", "complete", "gone", "lost"}

TypeOK ==
    /\ orch \in [status : {"none"} \cup Open \cup Closed, version : Nat]
    /\ plan \in [strategy : Strategy, batched : SUBSET Target]
    /\ target \in [Target -> {"pending", "running", "succeeded", "failed"}]
    /\ release \in [Target -> {"none"} \cup Releases!InProgress \cup Releases!Over]
    /\ exec \in [step : ExecStep, held : Nat, next : Nat, ok : SUBSET Target,
                 saw : {"none"} \cup Open \cup Closed]
    /\ work \in [Target -> WorkStep]
    /\ size \in [Target -> 0..Batches]
    /\ aborts \in SUBSET Nat
    /\ asked \in 0..MaxAbort

Init ==
    /\ orch = [status |-> "none", version |-> 0]
    /\ plan \in [strategy : Strategies, batched : SUBSET Target]
    /\ plan.strategy # "canary" => plan.batched = {}
    /\ target = [t \in Target |-> "pending"]
    /\ Releases!Init
    /\ exec = [step |-> "none", held |-> 0, next |-> 1, ok |-> {},
               saw |-> "none"]
    /\ work = [t \in Target |-> "idle"]
    /\ size = [t \in Target |-> 0]
    /\ aborts = {}
    /\ asked = 0

targets == <<target, release, work, size>>
requests == <<aborts, asked>>

-----------------------------------------------------------------------------
(* The row of the orchestration.                                           *)

\* Mutant: the WHERE clause without the version.
WriteAnyVersion(v, s) == orch' = [status |-> s, version |-> orch.version + 1]

\* UpdateOrchestrationStatus and CompleteOrchestration: WHERE version = v.
Write(v, s) ==
    orch' = IF orch.version = v
            THEN [status |-> s, version |-> orch.version + 1] ELSE orch

\* TriggerOrchestration: the rows, then "go executeOrchestration".
Create ==
    /\ orch.status = "none"
    /\ orch' = [status |-> "pending", version |-> 1]
    /\ exec' = [exec EXCEPT !.step = "mark", !.held = 1]
    /\ UNCHANGED <<plan, targets, requests>>

-----------------------------------------------------------------------------
(* executeOrchestration.                                                   *)

\* status running, at the start and as progress after a target; on a conflict
\* the goroutine goes on with the version it has.
Mark ==
    /\ exec.step = "mark"
    /\ Write(exec.held, "running")
    /\ exec' = [exec EXCEPT !.step = IF orch.version = exec.held
                                     THEN "reread" ELSE "run"]
    /\ UNCHANGED <<plan, targets, requests>>

\* The SELECT behind the UPDATE; the status it returns is not looked at.
Reread ==
    /\ exec.step = "reread"
    /\ exec' = [exec EXCEPT !.step = "run", !.held = orch.version,
                            !.saw = orch.status]
    /\ UNCHANGED <<orch, plan, targets, requests>>

Parallel == plan.strategy = "parallel"

\* Mutant: the loop goes on after a failed target.
GoesOnAlways(t) == TRUE

\* Only the sequential strategy breaks off after a failed target.
GoesOn(t) == t \in exec.ok \/ plan.strategy # "sequential"

Advance ==
    /\ exec.step = "run" /\ ~Parallel
    /\ exec.next \in Target /\ work[exec.next] = "end"
    /\ exec' = IF GoesOn(exec.next)
               THEN [exec EXCEPT !.step = "mark", !.next = @ + 1]
               ELSE [exec EXCEPT !.step = "complete"]
    /\ UNCHANGED <<orch, plan, targets, requests>>

AllOver ==
    /\ exec.step = "run"
    /\ IF Parallel THEN \A t \in Target : work[t] = "end"
                   ELSE exec.next > MaxTarget
    /\ exec' = [exec EXCEPT !.step = "complete"]
    /\ UNCHANGED <<orch, plan, targets, requests>>

\* Mutant: one succeeded target is enough.
OutcomeOfAny == IF exec.ok = {} THEN "failed" ELSE "succeeded"

Outcome == IF exec.ok = Target THEN "succeeded" ELSE "failed"

Complete ==
    /\ exec.step = "complete"
    /\ Write(exec.held, Outcome)
    /\ exec' = [exec EXCEPT !.step = "gone"]
    /\ UNCHANGED <<plan, targets, requests>>

-----------------------------------------------------------------------------
(* executeOrchestrationTarget and executeCanaryTarget for target t.        *)

\* The row of t has no other writer.
Reach(t, step) == work' = [work EXCEPT ![t] = step]
Report(t, s) == target' = [target EXCEPT ![t] = s]

Fail(t) ==
    /\ Report(t, "failed") /\ Reach(t, "end")
    /\ UNCHANGED exec

Succeed(t) ==
    /\ Report(t, "succeeded") /\ Reach(t, "end")
    /\ exec' = [exec EXCEPT !.ok = @ \cup {t}]

\* A return without UpdateTargetStatus.
Drop(t) ==
    /\ Reach(t, "end")
    /\ UNCHANGED <<target, exec>>

Begin(t) ==
    /\ exec.step = "run"
    /\ Parallel \/ exec.next = t
    /\ work[t] = "idle"
    /\ Report(t, "running") /\ Reach(t, "trigger")
    /\ UNCHANGED <<orch, plan, release, exec, size, requests>>

Trigger(t) ==
    /\ work[t] = "trigger"
    /\ Releases!Submit(t)
    /\ Reach(t, "wait")
    /\ size' = [size EXCEPT ![t] = 1]
    /\ UNCHANGED <<orch, plan, target, exec, requests>>

\* Mutant: no update of the row when the release is refused.
RefusedSilently(t) == Drop(t)

\* TriggerRelease, or a read before it, fails.
Refused(t) == IF t \in plan.batched THEN Drop(t) ELSE Fail(t)

TriggerFails(t) ==
    /\ work[t] = "trigger"
    /\ Refused(t)
    /\ UNCHANGED <<orch, plan, release, size, requests>>

\* What follows when the poll saw the release over; the batched path does
\* not look at how it ended.
Ended(t, seen) ==
    IF t \in plan.batched THEN Reach(t, "scale") /\ UNCHANGED <<target, exec>>
    ELSE IF seen = "succeeded" THEN Succeed(t) ELSE Fail(t)

IsTerminalStatus(s) == s \in {"succeeded", "failed", "aborted"}

WaitEnds(t) ==
    /\ work[t] = "wait"
    /\ IsTerminalStatus(release[t])
    /\ Ended(t, release[t])
    /\ UNCHANGED <<orch, plan, release, size, requests>>

\* Mutant: the poll has no deadline.
NoDeadline(t) == FALSE

\* After 15 minutes, which an interrupted or a paused release may take.
Deadline(t) == work[t] = "wait"

WaitFails(t) ==
    /\ Deadline(t)
    /\ Fail(t)
    /\ UNCHANGED <<orch, plan, release, size, requests>>

Scale(t) ==
    /\ work[t] = "scale"
    /\ size' = [size EXCEPT ![t] = @ + 1]
    /\ Reach(t, "roll")
    /\ UNCHANGED <<orch, plan, target, release, exec, requests>>

Rolled(t) ==
    /\ work[t] = "roll"
    /\ IF size[t] < Batches
       THEN Reach(t, "scale") /\ UNCHANGED <<target, exec>>
       ELSE Succeed(t)
    /\ UNCHANGED <<orch, plan, release, size, requests>>

\* The client, scaleWorkload or waitForRollout returns an error.
BatchFails(t) ==
    /\ work[t] \in {"scale", "roll"}
    /\ Drop(t)
    /\ UNCHANGED <<orch, plan, release, size, requests>>

-----------------------------------------------------------------------------
(* Others.                                                                 *)

\* AbortOrchestration reads the row ...
AbortRead ==
    /\ asked < MaxAbort
    /\ orch.status \in Open
    /\ aborts' = aborts \cup {orch.version}
    /\ asked' = asked + 1
    /\ UNCHANGED <<orch, plan, targets, exec>>

\* ... and completes it.
AbortWrite(v) ==
    /\ v \in aborts
    /\ Write(v, "aborted")
    /\ aborts' = aborts \ {v}
    /\ UNCHANGED <<plan, targets, exec, asked>>

\* The releases go on, and others act on them.
ReleaseStep(t) ==
    /\ Releases!Progress(t) \/ Releases!Settle(t) \/ Releases!Supersede(t)
    /\ UNCHANGED <<orch, plan, target, exec, work, size, requests>>

\* The API process dies; nothing resumes an orchestration.
Crash ==
    /\ exec.step \notin {"none", "gone", "lost"}
    /\ exec' = [exec EXCEPT !.step = "lost"]
    /\ aborts' = {}
    /\ UNCHANGED <<orch, plan, targets, asked>>

-----------------------------------------------------------------------------
Execute == Mark \/ Reread \/ Advance \/ AllOver \/ Complete

Work(t) ==
    /\ exec.step # "lost"
    /\ \/ Begin(t)
       \/ Trigger(t)
       \/ TriggerFails(t)
       \/ WaitEnds(t)
       \/ WaitFails(t)
       \/ Scale(t)
       \/ Rolled(t)
       \/ BatchFails(t)

Next ==
    \/ Create
    \/ Execute
    \/ \E t \in Target : Work(t) \/ ReleaseStep(t)
    \/ AbortRead
    \/ \E v \in aborts : AbortWrite(v)
    \/ Crash

\* The goroutines of a living process run on and their polls have deadlines.
\* Releases need not settle, and nobody has to create or abort anything.
Fairness == WF_vars(Execute) /\ \A t \in Target : WF_vars(Work(t))

Spec == Init /\ [][Next]_vars
FairSpec == Spec /\ Fairness

-----------------------------------------------------------------------------
(* Properties.                                                             *)

Done(t) == release[t] \in {"succeeded", "interrupted"}

\* A sequential orchestration reaches a target only after the release of the
\* one before has succeeded (a newer release may have superseded it since),
\* whatever was paused, aborted, interrupted or timed out.
OneByOne == plan.strategy = "sequential" =>
    \A t \in Target : work[t] # "idle" =>
        \A u \in 1..(t - 1) : u \in exec.ok /\ Done(u)

\* An orchestration that succeeded has released every target: its release
\* succeeded, or, in batches, all of them were rolled out; and no target row
\* says otherwise.
SucceededEverywhere == TypeOK /\ (orch.status = "succeeded" =>
    \A t \in Target :
        /\ target[t] = "succeeded"
        /\ IF t \in plan.batched THEN size[t] = Batches ELSE Done(t))

\* What a client reads follows the life cycle: targets in order, an outcome
\* that agrees with their rows, and nothing that changes after it - neither an
\* abort that read the row before it was completed, nor a late target.
Lifecycle == INSTANCE OrchestrationLifecycle
                 WITH status <- orch.status,
                      inOrder <- plan.strategy = "sequential",
                      batched <- plan.batched
ImplementsLifecycle == Lifecycle!Spec

\* When the goroutine is through, the rows of the targets tell what became of
\* them: those it never reached are pending, the others succeeded or failed.
\* Only batches that broke off leave a target running.
RowsTell == exec.step = "gone" => \A t \in Target :
    /\ target[t] = "succeeded" <=> t \in exec.ok
    /\ target[t] = "pending" <=> work[t] = "idle"
    /\ target[t] = "running" => t \in plan.batched

\* An aborted orchestration stays aborted although the goroutine goes on and
\* reports progress, except when the SELECT behind its last UPDATE came after
\* the abort: then it carries on with the version of the aborted row.
AbortHolds == [][orch.status = "aborted" /\ orch'.status # "aborted" =>
                     exec.saw = "aborted"]_vars

\* Unless its process dies, an orchestration ends, even if its releases never
\* do.
Ends == orch.status \in Open ~> orch.status \in Closed \/ exec.step = "lost"
=============================================================================
