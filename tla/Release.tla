------------------------------ MODULE Release ------------------------------
(***************************************************************************)
(* The release service of one application group: the API handlers that     *)
(* trigger, approve, pause, resume, abort and roll back releases, running  *)
(* concurrently with each other and with the goroutines of ReleaseExecutor.*)
(* A handler is a thread of control; a goroutine that rolls back on its    *)
(* own runs TriggerRelease in one of them.                                 *)
(***************************************************************************)
EXTENDS ReleaseExecutor

CONSTANTS
    Handlers,     \* bound: requests served at the same time
    MaxRequests,  \* bound: requests made in a behaviour
    Ops,          \* the operations clients use
    Plans,        \* strategies clients ask for
    Autos,        \* values of AutoRollbackOnFailure clients send
    Gates,        \* answers RequireApproval may give for the group
    MayCrash      \* TRUE: the API process may be killed and restarted

ASSUME ReleaseAssumption ==
    /\ Plans \subseteq Strategy
    /\ Autos \subseteq BOOLEAN
    /\ Gates \subseteq BOOLEAN
    /\ MaxRequests \in Nat

HandlerPC == {"idle", "sweep", "unmark", "list", "iread", "icas", "number",
              "insert", "approval",
              "acas", "pscale", "pcas", "rscale", "rcas",
              "xread", "xcas", "xreread"}

VARIABLES
    api,       \* api[h]: what handler h is doing, and its locals
    approval,  \* approval[r]: the vo_approvals row of release r
    requests   \* requests made so far

Api == [pc    : HandlerPC,
        rel   : ReleaseOrNone,         \* the release at hand
        held  : Nat,                   \* the version read with it
        scan  : Live,                  \* which status is being interrupted
        todo  : SUBSET Release,        \* still to interrupt in this scan
        tries : 0..MaxTries,
        want  : Plan,                  \* the release being created
        base  : ReleaseOrNone]         \* current_release_id as first read

NoCall == [pc |-> "idle", rel |-> NoRelease, held |-> 0, scan |-> "running",
           todo |-> {}, tries |-> 0, want |-> NoPlan, base |-> NoRelease]

vars == <<rows, group, cluster, executor, api, approval, requests>>

TypeOK ==
    /\ StoreTypeOK
    /\ ExecutorTypeOK
    /\ api \in [Handlers -> Api]
    /\ approval \in [Release -> {"none", "pending", "approved", "rejected"}]
    /\ requests \in 0..MaxRequests

Init ==
    /\ StoreInit
    /\ ExecutorInit
    /\ api = [h \in Handlers |-> NoCall]
    /\ approval = [r \in Release |-> "none"]
    /\ requests = 0

In(h, pc)  == api[h].pc = pc
Put(h, c)   == api' = [api EXCEPT ![h] = c]
Step(h, pc) == Put(h, [api[h] EXCEPT !.pc = pc])
Return(h)   == Put(h, NoCall)

\* A client's request reaches an idle handler, which calls with locals c.
Request(h, op, c) ==
    /\ op \in Ops
    /\ In(h, "idle")
    /\ requests < MaxRequests
    /\ requests' = requests + 1
    /\ Put(h, c)

-----------------------------------------------------------------------------
(* TriggerRelease.                                                         *)

\* The group is read first: base is the current release at that moment.
TriggerCall(s, auto) ==
    [NoCall EXCEPT !.pc = "sweep", !.base = current,
                   !.want = [NoPlan EXCEPT !.strategy = s, !.auto = auto]]

Trigger(h) ==
    /\ \E s \in Plans, auto \in Autos :
          Request(h, "trigger", TriggerCall(s, auto))
    /\ UNCHANGED <<store, executor, approval>>

\* Rollback repeats the last successful release.
Rollback(h) ==
    /\ LastSucceeded # NoRelease
    /\ Request(h, "rollback",
               TriggerCall(plan[LastSucceeded].strategy, FALSE))
    /\ UNCHANGED <<store, executor, approval>>

\* autoRollback, called by the goroutine of the failed release r.
AutoRollback(r, h) ==
    /\ At(r, "rollback")
    /\ In(h, "idle")
    /\ IF LastSucceeded = NoRelease
       THEN api' = api
       ELSE Put(h, TriggerCall(plan[LastSucceeded].strategy, FALSE))
    /\ Goto(r, "exit")
    /\ UNCHANGED <<store, published, late, approval, requests>>

\* interruptInProgressReleases: scale the candidate Deployment to zero and
\* delete it (errors ignored), clear the group's candidate columns ...
Sweep(h) ==
    /\ In(h, "sweep")
    /\ DeleteCandidate \/ UNCHANGED cluster
    /\ Step(h, "unmark")
    /\ UNCHANGED <<rows, group, executor, approval, requests>>

Unmark(h) ==
    /\ In(h, "unmark")
    /\ SetCandidate(NoRelease)
    /\ Step(h, "list")
    /\ UNCHANGED <<rows, cluster, executor, approval, requests>>

\* ... list the running releases, then in a second query the paused ones ...
List(h) ==
    /\ In(h, "list")
    /\ Put(h, [api[h] EXCEPT !.pc = "iread", !.tries = 0,
                             !.todo = InStatus(api[h].scan)])
    /\ UNCHANGED <<store, executor, approval, requests>>

\* Mutant: the paused releases are not listed.
OnlyRunning(h) ==
    LET c == api[h] IN
    /\ In(h, "iread")
    /\ \/ \E r \in c.todo :
             /\ r = Newest(c.todo)
             /\ Put(h, [c EXCEPT !.pc = "icas", !.rel = r,
                                 !.held = version[r]])
       \/ /\ c.todo = {}
          /\ Step(h, "number")
    /\ UNCHANGED <<store, executor, approval, requests>>

\* ... and complete each as interrupted, highest number first.  The tries
\* look at no status: a row that settled in between is overwritten.
NextInterrupt(h) ==
    LET c == api[h] IN
    /\ In(h, "iread")
    /\ \/ \E r \in c.todo :
             /\ r = Newest(c.todo)
             /\ Put(h, [c EXCEPT !.pc = "icas", !.rel = r,
                                 !.held = version[r]])
       \/ /\ c.todo = {} /\ c.scan = "running"
          /\ Put(h, [c EXCEPT !.pc = "list", !.scan = "paused"])
       \/ /\ c.todo = {} /\ c.scan = "paused"
          /\ Step(h, "number")
    /\ UNCHANGED <<store, executor, approval, requests>>

Interrupt(h) ==
    LET c == api[h]
        done == [c EXCEPT !.pc = "iread", !.todo = @ \ {c.rel}, !.tries = 0]
    IN
    /\ In(h, "icas")
    /\ \/ /\ Cas(c.rel, c.held, "interrupted")
          /\ Put(h, done)
       \/ /\ Conflict(c.rel, c.held)
          /\ Put(h, IF c.tries + 1 < MaxTries
                    THEN [c EXCEPT !.pc = "iread", !.tries = @ + 1]
                    ELSE done)
          /\ UNCHANGED rows
    /\ UNCHANGED <<group, cluster, executor, approval, requests>>

\* The image, the capacity and the approval policy are looked up only now;
\* a request refused here has already interrupted its predecessors.
Number(h) ==
    /\ In(h, "number")
    /\ \/ /\ NextNumber \in Release
          /\ \E gate \in Gates :
               Put(h, [api[h] EXCEPT
                          !.pc = "insert", !.rel = NextNumber,
                          !.want = [@ EXCEPT !.prev = LastSucceeded,
                                             !.gated = gate]])
       \/ Return(h)
    /\ UNCHANGED <<store, executor, approval, requests>>

Create(h) ==
    LET r == api[h].rel
        p == api[h].want
    IN
    /\ In(h, "insert")
    /\ \/ /\ p.gated
          /\ Insert(r, "pending_approval", p)
          /\ Step(h, "approval")
          /\ UNCHANGED task
       \/ /\ ~p.gated
          /\ Insert(r, "running", p)
          /\ Launch(r, p.strategy, 0, api[h].base)
          /\ Return(h)
       \/ /\ status[r] # "none"      \* number taken meanwhile: 409
          /\ Return(h)
          /\ UNCHANGED <<rows, task>>
    /\ UNCHANGED <<group, cluster, published, late, approval, requests>>

\* CreateForRelease; a failure is only logged on the release.
CreateApproval(h) ==
    /\ In(h, "approval")
    /\ \/ approval' = [approval EXCEPT ![api[h].rel] = "pending"]
       \/ approval' = approval
    /\ Return(h)
    /\ UNCHANGED <<store, executor, requests>>

-----------------------------------------------------------------------------
(* Approvals.  Both decisions read a pending row and CAS it; every write   *)
(* of the row leaves pending for good, so the two are one step here.       *)

Approve(h, r) ==
    /\ approval[r] = "pending"
    /\ approval' = [approval EXCEPT ![r] = "approved"]
    /\ Request(h, "approve", [NoCall EXCEPT !.pc = "xread", !.rel = r])
    /\ UNCHANGED <<store, executor>>

\* Mutant: a rejection runs the approval's callback as well.
RejectRuns(h, r) ==
    /\ approval[r] = "pending"
    /\ approval' = [approval EXCEPT ![r] = "rejected"]
    /\ Request(h, "reject", [NoCall EXCEPT !.pc = "xread", !.rel = r])
    /\ UNCHANGED <<store, executor>>

Reject(h, r) ==
    /\ approval[r] = "pending"
    /\ approval' = [approval EXCEPT ![r] = "rejected"]
    /\ Request(h, "reject", NoCall)
    /\ UNCHANGED <<store, executor>>

\* ExecutePendingRelease, the approval's callback: its errors are dropped.
PendingRead(h) ==
    /\ In(h, "xread")
    /\ \/ /\ status[api[h].rel] = "pending_approval"
          /\ Put(h, [api[h] EXCEPT !.pc = "xcas", !.base = current,
                                   !.held = version[api[h].rel]])
       \/ Return(h)
    /\ UNCHANGED <<store, executor, approval, requests>>

PendingRun(h) ==
    /\ In(h, "xcas")
    /\ \/ Cas(api[h].rel, api[h].held, "running") /\ Step(h, "xreread")
       \/ /\ Conflict(api[h].rel, api[h].held)
          /\ Return(h)
          /\ UNCHANGED rows
    /\ UNCHANGED <<group, cluster, executor, approval, requests>>

\* The second SELECT of UpdateReleaseStatus gives the goroutine its version.
PendingLaunch(h) ==
    LET r == api[h].rel IN
    /\ In(h, "xreread")
    /\ Launch(r, plan[r].strategy, version[r], api[h].base)
    /\ Return(h)
    /\ UNCHANGED <<store, published, late, approval, requests>>
-----------------------------------------------------------------------------
(* Abort, pause and resume: read the row, act on the workload, CAS.        *)

\* The row as read by a handler that will CAS it in step pc.
Reading(pc, r) == [NoCall EXCEPT !.pc = pc, !.rel = r, !.held = version[r]]

Abort(h, r) ==
    /\ IsLive(r)
    /\ Request(h, "abort", Reading("acas", r))
    /\ UNCHANGED <<store, executor, approval>>

Pause(h, r) ==
    /\ status[r] = "running"
    /\ Request(h, "pause", Reading("pscale", r))
    /\ UNCHANGED <<store, executor, approval>>

Resume(h, r) ==
    /\ status[r] = "paused"
    /\ Request(h, "resume", Reading("rscale", r))
    /\ UNCHANGED <<store, executor, approval>>

\* scaleWorkload to zero or back; a failure stops neither request.
Scale(h) ==
    /\ \/ In(h, "pscale") /\ ScalePrimary(FALSE) /\ Step(h, "pcas")
       \/ In(h, "rscale") /\ ScalePrimary(TRUE) /\ Step(h, "rcas")
       \/ In(h, "pscale") /\ Step(h, "pcas") /\ UNCHANGED cluster
       \/ In(h, "rscale") /\ Step(h, "rcas") /\ UNCHANGED cluster
    /\ UNCHANGED <<rows, group, executor, approval, requests>>

\* The status a handler writes in its CAS step.
Verdict(pc) == CASE pc = "acas" -> "aborted"
                 [] pc = "pcas" -> "paused"
                 [] pc = "rcas" -> "running"

Decide(h) ==
    LET c == api[h] IN
    /\ c.pc \in {"acas", "pcas", "rcas"}
    /\ \/ Cas(c.rel, c.held, Verdict(c.pc))
       \/ Conflict(c.rel, c.held) /\ UNCHANGED rows
    /\ Return(h)
    /\ UNCHANGED <<group, cluster, executor, approval, requests>>

-----------------------------------------------------------------------------
Handle(h) ==
    \/ Trigger(h) \/ Rollback(h)
    \/ \E r \in Release : \/ AutoRollback(r, h)
                          \/ Approve(h, r) \/ Reject(h, r)
                          \/ Abort(h, r) \/ Pause(h, r) \/ Resume(h, r)

\* The steps of a request under way.
Serve(h) ==
    \/ Sweep(h) \/ Unmark(h) \/ List(h) \/ NextInterrupt(h) \/ Interrupt(h)
    \/ Number(h) \/ Create(h) \/ CreateApproval(h)
    \/ PendingRead(h) \/ PendingRun(h) \/ PendingLaunch(h)
    \/ Scale(h) \/ Decide(h)

\* A step of the goroutine of release r.
Run(r) == Execute(r) /\ UNCHANGED <<api, approval, requests>>

\* The API process dies: goroutines and requests are gone, rows stay, and
\* nothing in the service picks a running release up again.
Crash ==
    /\ MayCrash
    /\ api' = [h \in Handlers |-> NoCall]
    /\ task' = [r \in Release |->
                   IF At(r, "idle") THEN task[r]
                                    ELSE [task[r] EXCEPT !.pc = "exit"]]
    /\ UNCHANGED <<store, published, late, approval, requests>>

\* Nothing is running; the system waits for the next request.
Quiet ==
    /\ \A h \in Handlers : In(h, "idle")
    /\ \A r \in Release : At(r, "idle") \/ At(r, "exit")

Next ==
    \/ \E h \in Handlers : Handle(h) \/ Serve(h)
    \/ \E r \in Release : Run(r)
    \/ Crash
    \/ Quiet /\ UNCHANGED vars

Spec == Init /\ [][Next]_vars

\* Go schedules every goroutine, and every wait in them has a deadline.
Fairness ==
    /\ \A r \in Release : WF_vars(Run(r))
    /\ \A h \in Handlers : WF_vars(Serve(h))
    /\ \A r \in Release : WF_vars(\E h \in Handlers : AutoRollback(r, h))

FairSpec == Spec /\ Fairness

-----------------------------------------------------------------------------
(* Properties.                                                             *)

\* The goroutine is past the first statement it makes with the version it was
\* started with.
Begun(r) == ~ \/ task[r].pc \in {"idle", "prepare", "external"}
              \/ At(r, "bump") /\ task[r].stage = "render"

\* The lock covers every write of r: the version its goroutine was started
\* with is the one its row was inserted with, or has been used.
Covered(r) == ~plan[r].gated \/ Begun(r)

\* A release that has settled.  A gated one that was aborted or interrupted
\* before it began is left out: its goroutine may have been started with a
\* version re-read after the abort.
Settled(r) ==
    \/ status[r] \in {"succeeded", "failed"}
    \/ status[r] \in {"aborted", "interrupted"} /\ Covered(r)

\* The optimistic lock protects settled rows: although no UPDATE looks at the
\* status, the only change a settled release can see is being marked
\* interrupted by a newer one (completeReleaseWithRetry skips its guard then).
SettledStays ==
    [][\A r \in Release :
          Settled(r) => status'[r] \in {status[r], "interrupted"}]_vars

\* In a group that needs no approval every release follows the life cycle.
Lifecycle == INSTANCE ReleaseLifecycle
ImplementsLifecycle == Lifecycle!Spec

\* In every group the releases follow the life cycle with approvals, whatever
\* is approved, rejected, aborted, interrupted or lost in a crash: a release
\* settled before its first progress report may come back only if it needed
\* approval, and once it has begun it never does.
WithApprovals == INSTANCE ApprovalLifecycle
                     WITH gated <- {r \in Release : plan[r].gated},
                          begun <- {r \in Release : Begun(r)}
ImplementsApprovals == WithApprovals!Spec

\* isInterrupted is read, not locked, so a goroutine may still apply
\* or scale after its release was interrupted or aborted - but only once: an
\* isInterrupted stands between any two of its applies and scales.
OneLateWrite == \A r \in Release : late[r] <= 1

\* A deployed release counts as succeeded only after the group row was made
\* to point at it; rollback and previous-release lookups rely on that order.
SucceededWasPublished ==
    \A r \in Release :
        status[r] = "succeeded" /\ plan[r].strategy # "external"
            => r \in published

\* A release that needs approval neither runs nor leaves pending_approval
\* before its approval is approved, whatever else happens to the group.
UnapprovedNeverRuns ==
    \A r \in Release :
        plan[r].gated /\ approval[r] # "approved"
            => status[r] = "pending_approval" /\ At(r, "idle")

\* The goroutine starts an automatic rollback only when its own release is
\* settled, so the rollback does not find it in progress and interrupt it;
\* unless it lost the race for the row three times and gave up.
RollsBackSettled ==
    \A r \in Release :
        At(r, "rollback") /\ task[r].tries + 1 < MaxTries => ~IsLive(r)

\* At most one release of the group is in progress (docs: "concurrency lock:
\* only one release of a group at a time").
OneActiveRelease ==
    \A r, q \in Release : IsLive(r) /\ IsLive(q) => r = q

\* A release in progress is eventually settled (or paused).
RunningSettles ==
    \A r \in Release : status[r] = "running" ~> status[r] # "running"

-----------------------------------------------------------------------------
(* Why settled rows are safe: the inductive invariant behind SettledStays. *)

\* Version v of r was read when r had a status in S: either the row has
\* moved on, and a CAS with v will fail, or it is still in S.
Guards(r, v, S) == v <= version[r] /\ (v = version[r] => status[r] \in S)

\* Where the goroutine of r will CAS with the version it holds, without an
\* isInterrupted check before that.
WillCas(r) ==
    \/ task[r].pc \in {"prepare", "bump", "bumpretry", "complete", "external",
                       "mark"}
    \/ At(r, "write") /\ task[r].stage # "promote"
    \/ At(r, "wait") /\ task[r].stage # "promote" /\ Candidate(r)

\* Goroutines: one per row, started after approval, done once they settle it.
TaskInv(r) ==
    /\ status[r] = "none" => version[r] = 0 /\ ~plan[r].gated
    /\ status[r] = "pending_approval" => plan[r].gated
    /\ status[r] \in {"none", "pending_approval"} => At(r, "idle")
    /\ status[r] \in {"succeeded", "failed"} =>
          \/ task[r].pc \in {"rollback", "exit"}
          \/ At(r, "publish") /\ plan[r].strategy = "external"
    /\ At(r, "external") => plan[r].strategy = "external"
    /\ task[r].held <= version[r]
    /\ At(r, "prepare") => task[r].stage = "render"
    /\ WillCas(r) /\ Covered(r) => Guards(r, task[r].held, Live)

\* What a handler read before each of its CAS statements.
ReadBefore(pc) == CASE pc = "acas" -> Live
                    [] pc \in {"pscale", "pcas"} -> {"running"}
                    [] pc \in {"rscale", "rcas"} -> {"paused"}
                    [] pc = "xcas" -> {"pending_approval"}

Started(r) == status[r] \notin {"none", "pending_approval"}

HandlerInv(h) ==
    LET c == api[h] IN
    /\ \A r \in c.todo : Started(r)
    /\ c.pc = "icas" => c.rel # NoRelease /\ Started(c.rel)
    /\ c.pc \in {"insert", "xread"} => c.rel # NoRelease
    /\ c.pc \in {"acas", "pscale", "pcas", "rscale", "rcas", "xcas"}
          => c.rel # NoRelease /\ Guards(c.rel, c.held, ReadBefore(c.pc))
    /\ c.pc \in {"xcas", "xreread"} => c.rel # NoRelease /\ plan[c.rel].gated
    /\ c.pc = "xreread" => Started(c.rel) /\ At(c.rel, "idle")

\* No two requests are about to start the goroutine of the same release.
LaunchInv ==
    \A h, k \in Handlers :
        In(h, "xreread") /\ In(k, "xreread") /\ api[h].rel = api[k].rel
            => h = k

LockInv ==
    /\ TypeOK
    /\ \A r \in Release : TaskInv(r)
    /\ \A h \in Handlers : HandlerInv(h)
    /\ LaunchInv
=============================================================================
