------------------------- MODULE OrchestrationProofs -------------------------
(***************************************************************************)
(* Proofs for Orchestration, for any number of targets, batches and abort  *)
(* requests and any set of strategies.                                     *)
(***************************************************************************)
EXTENDS Orchestration, TLAPS

USE OrchestrationAssumption DEF Target

\* How far the goroutine of a target is, what it has started, and what its row
\* says.
TargetOK(t) ==
    /\ work[t] = "idle" => target[t] = "pending"
    /\ work[t] \in {"trigger", "wait", "scale", "roll"} => target[t] = "running"
    /\ work[t] = "end" => /\ target[t] # "pending"
                          /\ target[t] = "running" => t \in plan.batched
    /\ work[t] = "wait" => size[t] = 1
    /\ work[t] = "scale" => size[t] < Batches
    /\ work[t] \in {"scale", "roll"} => t \in plan.batched
    /\ target[t] = "succeeded" <=> t \in exec.ok
    /\ t \in exec.ok =>
          /\ work[t] = "end"
          /\ IF t \in plan.batched THEN size[t] = Batches ELSE Done(t)

TargetInv == \A t \in Target : TargetOK(t)

\* Where the loop of executeOrchestration is, and what it left behind.
LoopInv ==
    /\ plan.strategy # "canary" => plan.batched = {}
    /\ ~Parallel => \A t \in Target :
           t # exec.next => work[t] \in {"idle", "end"}
    /\ plan.strategy = "sequential" =>
           /\ \A t \in Target : t < exec.next => t \in exec.ok
           /\ \A t \in Target : work[t] # "idle" => t <= exec.next
    /\ exec.step \in {"complete", "gone"} =>
           \A t \in Target : work[t] \in {"idle", "end"}

\* The version the goroutine holds: that of an aborted row only if it read
\* the row aborted.
RowInv ==
    /\ orch.status = "succeeded" => exec.ok = Target
    /\ exec.held <= orch.version
    /\ orch.status = "aborted" /\ exec.held = orch.version =>
           exec.saw = "aborted"

OrchInv == TypeOK /\ TargetInv /\ LoopInv /\ RowInv

-----------------------------------------------------------------------------
(* Steps.                                                                  *)

\* The steps on the row and of the loop,
Loop == \/ Create \/ Mark \/ Reread \/ Advance \/ AllOver \/ Complete
        \/ AbortRead \/ (\E v \in aborts : AbortWrite(v)) \/ Crash

\* and those of the goroutine of target t.
Goes(t) == \/ Begin(t) \/ Trigger(t) \/ TriggerFails(t) \/ WaitEnds(t)
           \/ WaitFails(t) \/ Scale(t) \/ Rolled(t) \/ BatchFails(t)

LEMMA Cases ==
    ASSUME Next PROVE Loop \/ \E t \in Target : Goes(t) \/ ReleaseStep(t)
BY DEF Next, Execute, Work, Loop, Goes

\* The row after a write.
LEMMA WriteType ==
    ASSUME TypeOK, NEW v, NEW s \in Open \cup Closed, Write(v, s)
    PROVE  /\ orch' \in [status : {"none"} \cup Open \cup Closed, version : Nat]
           /\ orch.version # v => orch' = orch
           /\ orch.version = v => /\ orch'.status = s
                                  /\ orch'.version = orch.version + 1
BY DEF TypeOK, Write

LEMMA InitInv == ASSUME Init PROVE OrchInv
<1> USE DEF Init, Releases!Init
<1>1. TypeOK
  <2>1. plan \in [strategy : Strategy, batched : SUBSET Target]
    BY DEF Strategy
  <2>2. /\ release \in [Target -> {"none"} \cup Releases!InProgress
                                           \cup Releases!Over]
        /\ work \in [Target -> WorkStep]
        /\ size \in [Target -> 0..Batches]
        /\ asked \in 0..MaxAbort
    BY DEF WorkStep
  <2>3. exec \in [step : ExecStep, held : Nat, next : Nat, ok : SUBSET Target,
                  saw : {"none"} \cup Open \cup Closed]
    BY DEF ExecStep
  <2> QED BY <2>1, <2>2, <2>3 DEF TypeOK
<1>2. TargetInv BY DEF TargetInv, TargetOK
<1>3. LoopInv BY DEF LoopInv
<1>4. RowInv BY DEF RowInv
<1> QED BY <1>1, <1>2, <1>3, <1>4 DEF OrchInv

\* A step of the loop leaves the targets alone.
LEMMA LoopTargets ==
    ASSUME OrchInv, Loop \/ UNCHANGED vars
    PROVE  /\ UNCHANGED <<plan, target, release, work, size>>
           /\ exec'.ok = exec.ok
<1> USE DEF OrchInv, TypeOK, targets
<1>1. CASE Create BY <1>1 DEF Create
<1>2. CASE Mark BY <1>2 DEF Mark
<1>3. CASE Reread BY <1>3 DEF Reread
<1>4. CASE Advance BY <1>4 DEF Advance
<1>5. CASE AllOver BY <1>5 DEF AllOver
<1>6. CASE Complete BY <1>6 DEF Complete
<1>7. CASE AbortRead BY <1>7 DEF AbortRead
<1>8. CASE \E v \in aborts : AbortWrite(v) BY <1>8 DEF AbortWrite
<1>9. CASE Crash BY <1>9 DEF Crash
<1>10. CASE UNCHANGED vars BY <1>10 DEF vars
<1> QED BY <1>1, <1>2, <1>3, <1>4, <1>5, <1>6, <1>7, <1>8, <1>9, <1>10 DEF Loop

LEMMA LoopType == ASSUME OrchInv, Loop PROVE TypeOK'
<1> USE DEF OrchInv
<1>1. /\ plan' = plan /\ target' = target /\ release' = release
      /\ work' = work /\ size' = size
  BY LoopTargets
<1>2. ASSUME /\ orch' \in [status : {"none"} \cup Open \cup Closed,
                           version : Nat]
             /\ exec' \in [step : ExecStep, held : Nat, next : Nat,
                           ok : SUBSET Target,
                           saw : {"none"} \cup Open \cup Closed]
             /\ aborts' \in SUBSET Nat /\ asked' \in 0..MaxAbort
      PROVE  TypeOK'
  BY <1>1, <1>2 DEF TypeOK
<1>3. CASE Create BY <1>2, <1>3 DEF Create, TypeOK, ExecStep, Open, requests
<1>4. CASE Mark
  <2>1. "running" \in Open \cup Closed BY DEF Open
  <2> QED BY <1>2, <1>4, <2>1, WriteType DEF Mark, TypeOK, ExecStep, requests
<1>5. CASE Reread BY <1>2, <1>5 DEF Reread, TypeOK, ExecStep, requests
<1>6. CASE Advance
  <2>1. CASE GoesOn(exec.next)
    <3>1. exec' = [exec EXCEPT !.step = "mark", !.next = @ + 1]
      BY <1>6, <2>1 DEF Advance
    <3>2. exec.next \in Nat /\ exec.next + 1 \in Nat BY DEF TypeOK
    <3>3. exec' \in [step : ExecStep, held : Nat, next : Nat,
                     ok : SUBSET Target,
                     saw : {"none"} \cup Open \cup Closed]
      BY <3>1, <3>2 DEF TypeOK, ExecStep
    <3>4. orch' = orch /\ aborts' = aborts /\ asked' = asked
      BY <1>6 DEF Advance, requests
    <3> QED BY <1>2, <3>3, <3>4 DEF TypeOK
  <2>2. CASE ~GoesOn(exec.next)
    <3>1. exec' = [exec EXCEPT !.step = "complete"]
      BY <1>6, <2>2 DEF Advance
    <3> QED BY <1>2, <1>6, <3>1 DEF Advance, TypeOK, ExecStep, requests
  <2> QED BY <2>1, <2>2
<1>7. CASE AllOver BY <1>2, <1>7 DEF AllOver, TypeOK, ExecStep, requests
<1>8. CASE Complete
  <2>1. Outcome \in Open \cup Closed BY DEF Outcome, Closed
  <2> QED BY <1>2, <1>8, <2>1, WriteType
          DEF Complete, TypeOK, ExecStep, requests
<1>9. CASE AbortRead
  <2>1. orch.version \in Nat /\ asked \in Nat BY DEF TypeOK
  <2>2. aborts' \in SUBSET Nat BY <1>9, <2>1 DEF AbortRead, TypeOK
  <2>3. asked' \in 0..MaxAbort BY <1>9, <2>1 DEF AbortRead, TypeOK
  <2>4. orch' = orch /\ exec' = exec BY <1>9 DEF AbortRead
  <2> QED BY <1>2, <2>2, <2>3, <2>4 DEF TypeOK
<1>10. ASSUME NEW v \in aborts, AbortWrite(v) PROVE TypeOK'
  <2>1. "aborted" \in Open \cup Closed BY DEF Closed
  <2> QED BY <1>2, <1>10, <2>1, WriteType DEF AbortWrite, TypeOK
<1>11. CASE Crash
  <2>1. exec' \in [step : ExecStep, held : Nat, next : Nat, ok : SUBSET Target,
                   saw : {"none"} \cup Open \cup Closed]
    BY <1>11 DEF Crash, TypeOK, ExecStep
  <2>2. aborts' \in SUBSET Nat BY <1>11 DEF Crash
  <2> QED BY <1>2, <1>11, <2>1, <2>2 DEF Crash, TypeOK
<1> QED BY <1>3, <1>4, <1>5, <1>6, <1>7, <1>8, <1>9, <1>10, <1>11 DEF Loop

LEMMA LoopLoop == ASSUME OrchInv, Loop PROVE LoopInv'
<1> USE DEF OrchInv
<1>1. /\ plan' = plan /\ work' = work /\ exec'.ok = exec.ok
      /\ Parallel' = Parallel
  BY LoopTargets DEF Parallel
<1>2. ASSUME exec'.next = exec.next, exec'.step \notin {"complete", "gone"}
      PROVE  LoopInv'
  BY <1>1, <1>2 DEF LoopInv
<1>3. ASSUME exec'.next = exec.next,
             \A t \in Target : work[t] \in {"idle", "end"}
      PROVE  LoopInv'
  BY <1>1, <1>3 DEF LoopInv
<1>4. CASE Create BY <1>2, <1>4 DEF Create, TypeOK
<1>5. CASE Mark BY <1>2, <1>5 DEF Mark, TypeOK
<1>6. CASE Reread BY <1>2, <1>6 DEF Reread, TypeOK
<1>7. CASE Advance
  <2>1. CASE GoesOn(exec.next)
    <3>1. /\ exec'.next = exec.next + 1 /\ exec'.step = "mark"
          /\ ~Parallel /\ work[exec.next] = "end" /\ exec.next \in Nat
      BY <1>7, <2>1 DEF Advance, TypeOK
    <3>2. plan.strategy = "sequential" => exec.next \in exec.ok
      BY <2>1 DEF GoesOn
    <3>3. \A t \in Target : work[t] \in {"idle", "end"}
      BY <3>1 DEF LoopInv
    <3>4. plan.strategy = "sequential" =>
             /\ \A t \in Target : t < exec.next + 1 => t \in exec.ok
             /\ \A t \in Target : work[t] # "idle" => t <= exec.next + 1
      BY <3>1, <3>2 DEF LoopInv
    <3> QED BY <1>1, <3>1, <3>3, <3>4 DEF LoopInv
  <2>2. CASE ~GoesOn(exec.next)
    <3>1. /\ exec'.next = exec.next
          /\ ~Parallel /\ work[exec.next] = "end"
      BY <1>7, <2>2 DEF Advance, TypeOK
    <3> QED BY <1>3, <3>1 DEF LoopInv
  <2> QED BY <2>1, <2>2
<1>8. CASE AllOver
  <2>1. exec'.next = exec.next BY <1>8 DEF AllOver, TypeOK
  <2>2. \A t \in Target : work[t] \in {"idle", "end"}
    BY <1>8 DEF AllOver, TypeOK, LoopInv
  <2> QED BY <1>3, <2>1, <2>2
<1>9. CASE Complete
  <2>1. exec'.next = exec.next /\ exec.step = "complete"
    BY <1>9 DEF Complete, TypeOK
  <2> QED BY <1>3, <2>1 DEF LoopInv
<1>10. CASE AbortRead BY <1>1, <1>10 DEF AbortRead, LoopInv
<1>11. ASSUME NEW v \in aborts, AbortWrite(v) PROVE LoopInv'
  BY <1>1, <1>11 DEF AbortWrite, LoopInv
<1>12. CASE Crash BY <1>2, <1>12 DEF Crash, TypeOK
<1> QED BY <1>4, <1>5, <1>6, <1>7, <1>8, <1>9, <1>10, <1>11, <1>12 DEF Loop

LEMMA LoopRow == ASSUME OrchInv, Loop PROVE RowInv'
<1> USE DEF OrchInv
<1>1. exec'.ok = exec.ok BY LoopTargets
<1>2. /\ orch.version \in Nat /\ exec.held \in Nat /\ exec.held <= orch.version
  BY DEF TypeOK, RowInv
<1>3. CASE Create BY <1>1, <1>3 DEF Create, RowInv, TypeOK
<1>4. CASE Mark
  <2>1. "running" \in Open \cup Closed BY DEF Open
  <2>2. exec'.held = exec.held /\ exec'.saw = exec.saw
    BY <1>4 DEF Mark, TypeOK
  <2> QED BY <1>1, <1>2, <1>4, <2>1, <2>2, WriteType DEF Mark, RowInv
<1>5. CASE Reread BY <1>1, <1>2, <1>5 DEF Reread, RowInv, TypeOK
<1>6. CASE Advance BY <1>1, <1>2, <1>6 DEF Advance, RowInv, TypeOK
<1>7. CASE AllOver BY <1>1, <1>2, <1>7 DEF AllOver, RowInv, TypeOK
<1>8. CASE Complete
  <2>1. /\ Outcome \in {"succeeded", "failed"} \cap (Open \cup Closed)
        /\ Outcome = "succeeded" => exec.ok = Target
    BY DEF Outcome, Closed
  <2>2. exec'.held = exec.held /\ exec'.saw = exec.saw
    BY <1>8 DEF Complete, TypeOK
  <2> QED BY <1>1, <1>2, <1>8, <2>1, <2>2, WriteType DEF Complete, RowInv
<1>9. CASE AbortRead BY <1>9 DEF AbortRead, RowInv
<1>10. ASSUME NEW v \in aborts, AbortWrite(v) PROVE RowInv'
  <2>1. "aborted" \in Open \cup Closed BY DEF Closed
  <2> QED BY <1>1, <1>2, <1>10, <2>1, WriteType DEF AbortWrite, RowInv
<1>11. CASE Crash BY <1>1, <1>2, <1>11 DEF Crash, RowInv, TypeOK
<1> QED BY <1>3, <1>4, <1>5, <1>6, <1>7, <1>8, <1>9, <1>10, <1>11 DEF Loop

LEMMA LoopStep == ASSUME OrchInv, Loop PROVE OrchInv'
<1>1. TargetInv'
  BY LoopTargets DEF OrchInv, TargetInv, TargetOK, Done
<1> QED BY <1>1, LoopType, LoopLoop, LoopRow DEF OrchInv

\* A step of target t leaves the row, the loop and the other targets alone.
LEMMA GoesAside ==
    ASSUME OrchInv, NEW t \in Target, Goes(t) \/ ReleaseStep(t)
    PROVE  /\ UNCHANGED <<orch, plan, requests>>
           /\ \E k \in SUBSET {t} : exec' = [exec EXCEPT !.ok = @ \cup k]
           /\ \A u \in Target \ {t} :
                  /\ work'[u] = work[u] /\ target'[u] = target[u]
                  /\ size'[u] = size[u] /\ release'[u] = release[u]
<1> USE DEF OrchInv, TypeOK, Reach, Report
<1>1. CASE UNCHANGED exec
  <2>1. exec' = [exec EXCEPT !.ok = @ \cup {}] BY <1>1
  <2>2. CASE Begin(t) BY <2>1, <2>2 DEF Begin
  <2>3. CASE Trigger(t)
    BY <2>1, <2>3 DEF Trigger, Releases!Submit, Releases!Becomes
  <2>4. CASE TriggerFails(t)
    BY <2>1, <2>4 DEF TriggerFails, Refused, Drop, Fail
  <2>5. CASE WaitEnds(t)
    BY <2>1, <2>5 DEF WaitEnds, Ended, Fail, Succeed
  <2>6. CASE WaitFails(t) BY <2>1, <2>6 DEF WaitFails, Fail
  <2>7. CASE Scale(t) BY <2>1, <2>7 DEF Scale
  <2>8. CASE Rolled(t) BY <2>1, <2>8 DEF Rolled, Succeed
  <2>9. CASE BatchFails(t) BY <2>1, <2>9 DEF BatchFails, Drop
  <2>10. CASE ReleaseStep(t)
    BY <2>1, <2>10 DEF ReleaseStep, Releases!Progress, Releases!Settle,
       Releases!Supersede, Releases!Becomes
  <2> QED BY <2>2, <2>3, <2>4, <2>5, <2>6, <2>7, <2>8, <2>9, <2>10 DEF Goes
<1>2. CASE exec' = [exec EXCEPT !.ok = @ \cup {t}] /\ ~UNCHANGED exec
  <2>1. CASE WaitEnds(t) BY <1>2, <2>1 DEF WaitEnds, Ended, Fail, Succeed
  <2>2. CASE Rolled(t) BY <1>2, <2>2 DEF Rolled, Succeed
  <2>3. WaitEnds(t) \/ Rolled(t)
    BY <1>2 DEF Goes, Begin, Trigger, TriggerFails, WaitFails, Scale,
       BatchFails, ReleaseStep, Refused, Drop, Fail
  <2> QED BY <2>1, <2>2, <2>3
<1>3. UNCHANGED exec \/ exec' = [exec EXCEPT !.ok = @ \cup {t}]
  <2>1. CASE WaitEnds(t) BY <2>1 DEF WaitEnds, Ended, Fail, Succeed
  <2>2. CASE Rolled(t) BY <2>2 DEF Rolled, Succeed
  <2>3. CASE ~WaitEnds(t) /\ ~Rolled(t)
    BY <2>3 DEF Goes, Begin, Trigger, TriggerFails, WaitFails, Scale,
       BatchFails, ReleaseStep, Refused, Drop, Fail
  <2> QED BY <2>1, <2>2, <2>3
<1> QED BY <1>1, <1>2, <1>3

LEMMA GoesType ==
    ASSUME OrchInv, NEW t \in Target, Goes(t) \/ ReleaseStep(t) PROVE TypeOK'
<1> USE DEF OrchInv
<1>1. ASSUME target' \in [Target -> {"pending", "running", "succeeded",
                                     "failed"}],
             release' \in [Target -> {"none"} \cup Releases!InProgress
                                              \cup Releases!Over],
             work' \in [Target -> WorkStep],
             size' \in [Target -> 0..Batches]
      PROVE  TypeOK'
  <2>1. PICK k \in SUBSET {t} : exec' = [exec EXCEPT !.ok = @ \cup k]
    BY GoesAside
  <2>2. exec' \in [step : ExecStep, held : Nat, next : Nat, ok : SUBSET Target,
                   saw : {"none"} \cup Open \cup Closed]
    BY <2>1 DEF TypeOK
  <2> QED BY <1>1, <2>2, GoesAside DEF TypeOK, requests
<1> USE DEF Reach, Report, WorkStep, TypeOK
<1>2. CASE Begin(t) BY <1>1, <1>2 DEF Begin
<1>3. CASE Trigger(t)
  <2>1. 1 \in 0..Batches OBVIOUS
  <2>2. "running" \in Releases!InProgress BY DEF Releases!InProgress
  <2>3. release' \in [Target -> {"none"} \cup Releases!InProgress
                                         \cup Releases!Over]
    BY <1>3, <2>2 DEF Trigger, Releases!Submit, Releases!Becomes
  <2>4. size' \in [Target -> 0..Batches] BY <1>3, <2>1 DEF Trigger
  <2> QED BY <1>1, <1>3, <2>3, <2>4 DEF Trigger
<1>4. CASE TriggerFails(t)
  BY <1>1, <1>4 DEF TriggerFails, Refused, Drop, Fail
<1>5. CASE WaitEnds(t)
  <2>1. /\ release' = release /\ size' = size
        /\ target' \in [Target -> {"pending", "running", "succeeded", "failed"}]
        /\ work' \in [Target -> WorkStep]
    BY <1>5 DEF WaitEnds, Ended, Fail, Succeed
  <2> QED BY <1>1, <2>1
<1>6. CASE WaitFails(t) BY <1>1, <1>6 DEF WaitFails, Fail
<1>7. CASE Scale(t)
  <2>1. size[t] \in 0..Batches /\ size[t] + 1 \in 0..Batches
    BY <1>7 DEF Scale, TargetInv, TargetOK
  <2>2. size' \in [Target -> 0..Batches] BY <1>7, <2>1 DEF Scale
  <2> QED BY <1>1, <1>7, <2>2 DEF Scale
<1>8. CASE Rolled(t)
  <2>1. /\ release' = release /\ size' = size
        /\ target' \in [Target -> {"pending", "running", "succeeded", "failed"}]
        /\ work' \in [Target -> WorkStep]
    BY <1>8 DEF Rolled, Succeed
  <2> QED BY <1>1, <2>1
<1>9. CASE BatchFails(t) BY <1>1, <1>9 DEF BatchFails, Drop
<1>10. CASE ReleaseStep(t)
  <2>1. release' \in [Target -> {"none"} \cup Releases!InProgress
                                         \cup Releases!Over]
    BY <1>10 DEF ReleaseStep, Releases!Progress, Releases!Settle,
       Releases!Supersede, Releases!Becomes, Releases!InProgress, Releases!Over
  <2> QED BY <1>1, <1>10, <2>1 DEF ReleaseStep
<1> QED BY <1>2, <1>3, <1>4, <1>5, <1>6, <1>7, <1>8, <1>9, <1>10 DEF Goes

\* The target the step is about.
LEMMA GoesTarget ==
    ASSUME OrchInv, NEW t \in Target, Goes(t) \/ ReleaseStep(t) PROVE TargetInv'
<1> USE DEF OrchInv
<1>1. ASSUME NEW u \in Target \ {t} PROVE TargetOK(u)'
  <2>1. PICK k \in SUBSET {t} : exec' = [exec EXCEPT !.ok = @ \cup k]
    BY GoesAside
  <2>2. u \in exec'.ok <=> u \in exec.ok BY <2>1 DEF TypeOK
  <2>3. TargetOK(u) /\ plan' = plan BY GoesAside DEF TargetInv
  <2> QED BY <2>2, <2>3, GoesAside DEF TargetOK, Done
<1>2. TargetOK(t)'
  <2>1. TargetOK(t) /\ plan' = plan BY GoesAside DEF TargetInv
  <2> USE DEF TargetOK, TypeOK, Reach, Report
  <2>2. CASE Begin(t) BY <2>1, <2>2 DEF Begin
  <2>3. CASE Trigger(t) BY <2>1, <2>3 DEF Trigger
  <2>4. CASE TriggerFails(t)
    <3>1. CASE t \in plan.batched
      BY <2>1, <2>4, <3>1 DEF TriggerFails, Refused, Drop
    <3>2. CASE t \notin plan.batched
      BY <2>1, <2>4, <3>2 DEF TriggerFails, Refused, Fail
    <3> QED BY <3>1, <3>2
  <2>5. CASE WaitEnds(t)
    <3>1. CASE t \in plan.batched
      BY <2>1, <2>5, <3>1 DEF WaitEnds, Ended
    <3>2. CASE t \notin plan.batched /\ release[t] = "succeeded"
      BY <2>1, <2>5, <3>2 DEF WaitEnds, Ended, Succeed, Done
    <3>3. CASE t \notin plan.batched /\ release[t] # "succeeded"
      BY <2>1, <2>5, <3>3 DEF WaitEnds, Ended, Fail
    <3> QED BY <3>1, <3>2, <3>3
  <2>6. CASE WaitFails(t) BY <2>1, <2>6 DEF WaitFails, Deadline, Fail
  <2>7. CASE Scale(t) BY <2>1, <2>7 DEF Scale
  <2>8. CASE Rolled(t)
    <3>1. CASE size[t] < Batches BY <2>1, <2>8, <3>1 DEF Rolled
    <3>2. CASE ~(size[t] < Batches)
      <4>1. size[t] = Batches BY <3>2
      <4> QED BY <2>1, <2>8, <3>2, <4>1 DEF Rolled, Succeed
    <3> QED BY <3>1, <3>2
  <2>9. CASE BatchFails(t) BY <2>1, <2>9 DEF BatchFails, Drop
  <2>10. CASE ReleaseStep(t)
    <3>1. Done(t) => Done(t)'
      BY <2>10 DEF ReleaseStep, Releases!Progress, Releases!Settle, Done,
         Releases!Supersede, Releases!Becomes, Releases!InProgress
    <3> QED BY <2>1, <2>10, <3>1 DEF ReleaseStep
  <2> QED BY <2>2, <2>3, <2>4, <2>5, <2>6, <2>7, <2>8, <2>9, <2>10 DEF Goes
<1> QED BY <1>1, <1>2 DEF TargetInv

LEMMA GoesLoop ==
    ASSUME OrchInv, NEW t \in Target, Goes(t) \/ ReleaseStep(t)
    PROVE  LoopInv' /\ RowInv'
<1> USE DEF OrchInv
<1>1. PICK k \in SUBSET {t} : exec' = [exec EXCEPT !.ok = @ \cup k]
  BY GoesAside
<1>2. /\ exec'.step = exec.step /\ exec'.next = exec.next
      /\ exec'.held = exec.held /\ exec'.saw = exec.saw
      /\ exec'.ok = exec.ok \cup k
      /\ orch' = orch /\ plan' = plan
  BY <1>1, GoesAside DEF TypeOK
<1> HIDE DEF Target
<1>3. RowInv'
  <2>1. exec.ok = Target => exec'.ok = Target BY <1>2
  <2> QED BY <1>2, <2>1 DEF RowInv
<1>4. ASSUME work[t] \notin {"idle", "end"} PROVE LoopInv'
  <2>1. ~Parallel => t = exec.next BY <1>4 DEF LoopInv
  <2>2. exec.step \notin {"complete", "gone"} BY <1>4 DEF LoopInv
  <2>3. \A u \in Target : u # t => work'[u] = work[u] BY GoesAside
  <2>4. plan.strategy = "sequential" => ~Parallel BY DEF Parallel
  <2>5. plan.strategy = "sequential" => exec.next \in Nat BY DEF TypeOK
  <2> QED BY <1>2, <2>1, <2>2, <2>3, <2>4, <2>5 DEF LoopInv, Parallel
<1>5. CASE Begin(t)
  <2>1. exec.step = "run" /\ (Parallel \/ exec.next = t) BY <1>5 DEF Begin
  <2>2. \A u \in Target : u # t => work'[u] = work[u] BY GoesAside
  <2>3. plan.strategy = "sequential" => ~Parallel BY DEF Parallel
  <2>4. ~Parallel' => \A u \in Target :
            u # exec'.next => work'[u] \in {"idle", "end"}
    BY <1>2, <2>1, <2>2 DEF LoopInv, Parallel
  <2>5. plan'.strategy = "sequential" =>
            /\ \A u \in Target : u < exec'.next => u \in exec'.ok
            /\ \A u \in Target : work'[u] # "idle" => u <= exec'.next
    <3> SUFFICES ASSUME plan.strategy = "sequential"
                 PROVE  /\ \A u \in Target : u < exec.next => u \in exec'.ok
                        /\ \A u \in Target : work'[u] # "idle" => u <= exec.next
      BY <1>2
    <3>1. \A u \in Target : u < exec.next => u \in exec'.ok
      BY <1>2 DEF LoopInv
    <3>2. t = exec.next /\ t <= t BY <2>1, <2>3 DEF Target
    <3>3. \A u \in Target : work'[u] # "idle" => u <= exec.next
      BY <2>2, <3>2 DEF LoopInv
    <3> QED BY <3>1, <3>3
  <2>6. exec'.step \notin {"complete", "gone"} BY <1>2, <2>1
  <2>7. plan'.strategy # "canary" => plan'.batched = {} BY <1>2 DEF LoopInv
  <2> QED BY <1>3, <2>4, <2>5, <2>6, <2>7 DEF LoopInv
<1>6. CASE ReleaseStep(t)
  <2>1. work' = work BY <1>6 DEF ReleaseStep
  <2> QED BY <1>2, <1>3, <2>1 DEF LoopInv, Parallel
<1>7. ASSUME ~Begin(t), Goes(t) PROVE work[t] \notin {"idle", "end"}
  BY <1>7 DEF Goes, Trigger, TriggerFails, WaitEnds, WaitFails, Deadline,
     Scale, Rolled, BatchFails
<1> QED BY <1>3, <1>4, <1>5, <1>6, <1>7

LEMMA StepInv == ASSUME OrchInv, [Next]_vars PROVE OrchInv'
<1>1. CASE Loop BY <1>1, LoopStep
<1>2. ASSUME NEW t \in Target, Goes(t) \/ ReleaseStep(t) PROVE OrchInv'
  BY <1>2, GoesType, GoesTarget, GoesLoop DEF OrchInv
<1>3. CASE UNCHANGED vars
  BY <1>3 DEF vars, OrchInv, TypeOK, TargetInv, TargetOK, Done, LoopInv,
     Parallel, RowInv
<1> QED BY <1>1, <1>2, <1>3, Cases

\* OrchInv is an inductive invariant of an orchestration with any number of
\* targets, whatever happens to their releases and to the process.
THEOREM Invariant == Spec => []OrchInv
<1>1. Init => OrchInv BY InitInv
<1>2. OrchInv /\ [Next]_vars => OrchInv' BY StepInv
<1> QED BY <1>1, <1>2, PTL DEF Spec

-----------------------------------------------------------------------------
(* The properties.                                                         *)

\* A sequential orchestration starts no target before the ones in front of it
\* have succeeded.
THEOREM TargetsOneByOne == Spec => []OneByOne
<1>1. OrchInv => OneByOne
  <2> SUFFICES ASSUME OrchInv, plan.strategy = "sequential",
                      NEW t \in Target, work[t] # "idle",
                      NEW u \in 1..(t - 1)
               PROVE  u \in exec.ok /\ Done(u)
    BY DEF OneByOne
  <2>1. u \in Target /\ u < t /\ u \in Nat /\ t \in Nat OBVIOUS
  <2>2. t <= exec.next /\ exec.next \in Nat BY DEF OrchInv, LoopInv, TypeOK
  <2>3. u < exec.next BY <2>1, <2>2
  <2>5. u \in exec.ok BY <2>1, <2>3 DEF OrchInv, LoopInv
  <2>4. u \notin plan.batched BY DEF OrchInv, LoopInv
  <2> QED BY <2>1, <2>4, <2>5 DEF OrchInv, TargetInv, TargetOK
<1> QED BY <1>1, Invariant, PTL

\* An orchestration that reports success has released every target.
THEOREM SuccessIsEverywhere == Spec => []SucceededEverywhere
<1>1. OrchInv => SucceededEverywhere
  <2> SUFFICES ASSUME OrchInv, orch.status = "succeeded", NEW t \in Target
               PROVE  /\ target[t] = "succeeded"
                      /\ IF t \in plan.batched THEN size[t] = Batches
                                                ELSE Done(t)
    BY DEF SucceededEverywhere, OrchInv
  <2>1. t \in exec.ok BY DEF OrchInv, RowInv
  <2> QED BY <2>1 DEF OrchInv, TargetInv, TargetOK
<1> QED BY <1>1, Invariant, PTL

\* When the goroutine is through, the targets' rows tell what became of them.
THEOREM RowsTellOutcome == Spec => []RowsTell
<1>1. OrchInv => RowsTell
  <2> SUFFICES ASSUME OrchInv, exec.step = "gone", NEW t \in Target
               PROVE  /\ target[t] = "succeeded" <=> t \in exec.ok
                      /\ target[t] = "pending" <=> work[t] = "idle"
                      /\ target[t] = "running" => t \in plan.batched
    BY DEF RowsTell
  <2>1. work[t] \in {"idle", "end"} BY DEF OrchInv, LoopInv
  <2> QED BY <2>1 DEF OrchInv, TargetInv, TargetOK
<1> QED BY <1>1, Invariant, PTL

\* Only a goroutine that read the row aborted writes over an abort.
THEOREM AbortIsKept == Spec => AbortHolds
<1>1. ASSUME OrchInv, [Next]_vars, orch.status = "aborted",
             orch'.status # "aborted"
      PROVE  exec.saw = "aborted"
  <2>1. CASE Create BY <1>1, <2>1 DEF Create
  <2>2. CASE Mark BY <1>1, <2>2 DEF Mark, Write, OrchInv, RowInv
  <2>3. CASE Complete BY <1>1, <2>3 DEF Complete, Write, OrchInv, RowInv
  <2>4. CASE \E v \in aborts : AbortWrite(v)
    BY <1>1, <2>4 DEF AbortWrite, Write
  <2>5. ASSUME NEW t \in Target, Goes(t) \/ ReleaseStep(t) PROVE FALSE
    BY <1>1, <2>5, GoesAside
  <2>6. Create \/ Mark \/ Complete \/ (\E v \in aborts : AbortWrite(v))
        \/ UNCHANGED orch \/ \E t \in Target : Goes(t) \/ ReleaseStep(t)
    BY <1>1, Cases DEF Loop, Reread, Advance, AllOver, AbortRead, Crash, vars
  <2> QED BY <1>1, <2>1, <2>2, <2>3, <2>4, <2>5, <2>6
<1>2. OrchInv /\ [Next]_vars =>
          [orch.status = "aborted" /\ orch'.status # "aborted" =>
               exec.saw = "aborted"]_vars
  BY <1>1
<1> QED BY <1>2, Invariant, PTL DEF Spec, AbortHolds

-----------------------------------------------------------------------------
(* What a client reads.                                                    *)

\* The row, the goroutine and the requests that want to abort, as far as an
\* outcome depends on them: only the goroutine's last write decides, an abort
\* at the row's version finds it open, and a target that was not taken when
\* the loop is over lies behind a failed one.
LifeInv ==
    /\ orch.status = "none" <=> exec.step = "none"
    /\ exec.step = "none" =>
          aborts = {} /\ \A t \in Target : work[t] = "idle"
    /\ orch.status \in {"succeeded", "failed"} => exec.step = "gone"
    /\ \A v \in aborts : /\ v <= orch.version
                         /\ v = orch.version => orch.status \in Open
    /\ ~Parallel => \A t \in Target : t < exec.next => work[t] = "end"
    /\ exec.step = "complete" => \A t \in Target : work[t] = "idle" =>
          /\ plan.strategy = "sequential"
          /\ \E u \in Target : u < t /\ target[u] = "failed"

\* The variables of OrchestrationLifecycle.
Seen == <<orch.status, target, plan.strategy = "sequential", plan.batched>>

LEMMA LifeInit == ASSUME Init PROVE LifeInv /\ Lifecycle!Init
<1>1. LifeInv BY DEF Init, LifeInv
<1>2. plan.batched \in SUBSET Target BY DEF Init
<1> QED BY <1>1, <1>2 DEF Init, Lifecycle!Init

\* A target that is neither idle nor through is looked after by somebody, and
\* its orchestration is under way.
LEMMA UnderWay ==
    ASSUME OrchInv, LifeInv,
           \/ exec.step = "run"
           \/ \E t \in Target : work[t] \notin {"idle", "end"}
    PROVE  /\ exec.step \notin {"none", "complete", "gone"}
           /\ orch.status \notin {"none", "succeeded", "failed"}
BY DEF OrchInv, LoopInv, LifeInv

\* The goroutine's write: the row was open, or aborted with its version read.
LEMMA WriteLife ==
    ASSUME OrchInv, LifeInv, exec.step \notin {"none", "gone"},
           NEW s \in {"running", "succeeded", "failed"}, Write(exec.held, s),
           aborts' = aborts
    PROVE  /\ orch.status \in Open \cup {"aborted"}
           /\ orch'.status # "none"
           /\ orch'.status = orch.status \/ orch'.status = s
           /\ \A v \in aborts : /\ v <= orch'.version
                                /\ v = orch'.version => orch'.status \in Open
<1>1. orch.version \in Nat /\ aborts \in SUBSET Nat BY DEF OrchInv, TypeOK
<1>2. orch.status \in Open \cup {"aborted"}
  BY DEF OrchInv, TypeOK, LifeInv, Closed
<1>3. CASE orch.version = exec.held
  <2>1. orch'.status = s /\ orch'.version = orch.version + 1
    BY <1>3 DEF Write
  <2> QED BY <1>1, <1>2, <2>1 DEF LifeInv
<1>4. CASE orch.version # exec.held
  BY <1>2, <1>4 DEF Write, LifeInv, Open
<1> QED BY <1>3, <1>4

LEMMA LoopLife ==
    ASSUME OrchInv, LifeInv, Loop
    PROVE  LifeInv' /\ [Lifecycle!Next]_Seen
<1>1. /\ plan' = plan /\ target' = target /\ work' = work
      /\ Parallel' = Parallel /\ exec'.ok = exec.ok
  BY LoopTargets DEF Parallel
<1>2. /\ orch.version \in Nat /\ aborts \in SUBSET Nat /\ exec.next \in Nat
      /\ orch.status \in {"none", "pending", "running", "succeeded", "failed",
                          "aborted"}
  BY DEF OrchInv, TypeOK, Open, Closed
<1> USE DEF Lifecycle!Next, Lifecycle!Open, Lifecycle!Decided
\* Steps that write no row.
<1>3. ASSUME orch' = orch PROVE [Lifecycle!Next]_Seen
  BY <1>1, <1>3 DEF Seen
<1>4. CASE Create
  <2>1. /\ orch.status = "none" /\ orch'.status = "pending"
        /\ exec'.step = "mark" /\ exec'.next = exec.next /\ aborts' = aborts
    BY <1>4 DEF Create, requests, OrchInv, TypeOK
  <2>2. aborts = {} BY <2>1 DEF LifeInv
  <2>3. LifeInv' BY <1>1, <2>1, <2>2 DEF LifeInv
  <2> QED BY <1>1, <2>1, <2>3 DEF Lifecycle!Submit
<1>5. CASE Mark
  <2>1. /\ exec.step = "mark" /\ exec'.step \in {"reread", "run"}
        /\ exec'.next = exec.next /\ aborts' = aborts
        /\ Write(exec.held, "running")
    BY <1>5 DEF Mark, requests, OrchInv, TypeOK
  <2>2. /\ orch.status \in Open \cup {"aborted"}
        /\ orch'.status # "none"
        /\ orch'.status = orch.status \/ orch'.status = "running"
        /\ \A v \in aborts : /\ v <= orch'.version
                             /\ v = orch'.version => orch'.status \in Open
    BY <2>1, WriteLife
  <2>3. LifeInv' BY <1>1, <2>1, <2>2 DEF LifeInv, Open
  <2>4. [Lifecycle!Next]_Seen
    BY <1>1, <2>2 DEF Lifecycle!Proceed, Lifecycle!Revive, Seen, Open
  <2> QED BY <2>3, <2>4
<1>6. CASE Reread
  <2>1. /\ exec.step = "reread" /\ exec'.step = "run"
        /\ exec'.next = exec.next /\ aborts' = aborts /\ orch' = orch
    BY <1>6 DEF Reread, requests, OrchInv, TypeOK
  <2> QED BY <1>1, <1>3, <2>1 DEF LifeInv
<1>7. CASE Advance
  <2>1. /\ exec.step = "run" /\ ~Parallel /\ exec.next \in Target
        /\ work[exec.next] = "end" /\ aborts' = aborts /\ orch' = orch
    BY <1>7 DEF Advance, requests
  <2>2. CASE GoesOn(exec.next)
    <3>1. exec'.step = "mark" /\ exec'.next = exec.next + 1
      BY <1>7, <2>2 DEF Advance, OrchInv, TypeOK
    <3>2. \A t \in Target : t < exec.next + 1 => work[t] = "end"
      BY <1>2, <2>1 DEF LifeInv
    <3> QED BY <1>1, <1>3, <2>1, <3>1, <3>2 DEF LifeInv
  <2>3. CASE ~GoesOn(exec.next)
    <3>1. exec'.step = "complete" /\ exec'.next = exec.next
      BY <1>7, <2>3 DEF Advance, OrchInv, TypeOK
    <3>2. plan.strategy = "sequential" /\ exec.next \notin exec.ok
      BY <2>3 DEF GoesOn
    <3>3. target[exec.next] = "failed"
      <4>1. TargetOK(exec.next) /\ plan.batched = {}
        BY <2>1, <3>2 DEF OrchInv, TargetInv, LoopInv
      <4>2. target[exec.next] \in {"pending", "running", "succeeded", "failed"}
        BY <2>1 DEF OrchInv, TypeOK
      <4> QED BY <2>1, <3>2, <4>1, <4>2 DEF TargetOK
    <3>4. \A t \in Target : work[t] = "idle" => exec.next < t
      BY <1>2, <2>1 DEF LifeInv
    <3> QED BY <1>1, <1>3, <2>1, <3>1, <3>2, <3>3, <3>4 DEF LifeInv
  <2> QED BY <2>2, <2>3
<1>8. CASE AllOver
  <2>1. /\ exec.step = "run" /\ exec'.step = "complete"
        /\ exec'.next = exec.next /\ aborts' = aborts /\ orch' = orch
    BY <1>8 DEF AllOver, requests, OrchInv, TypeOK
  <2>2. \A t \in Target : work[t] = "end"
    BY <1>2, <1>8 DEF AllOver, LifeInv
  <2> QED BY <1>1, <1>3, <2>1, <2>2 DEF LifeInv
<1>9. CASE Complete
  <2>1. /\ exec.step = "complete" /\ exec'.step = "gone"
        /\ exec'.next = exec.next /\ aborts' = aborts
        /\ Write(exec.held, Outcome)
    BY <1>9 DEF Complete, requests, OrchInv, TypeOK
  <2>2. Outcome \in {"succeeded", "failed"} BY DEF Outcome
  <2>3. /\ orch.status \in Open \cup {"aborted"}
        /\ orch'.status # "none"
        /\ orch'.status = orch.status \/ orch'.status = Outcome
        /\ \A v \in aborts : /\ v <= orch'.version
                             /\ v = orch'.version => orch'.status \in Open
    BY <2>1, <2>2, WriteLife
  <2>4. LifeInv' BY <1>1, <2>1, <2>3 DEF LifeInv
  <2>5. \A t \in Target :
           /\ target[t] = "running" => t \in plan.batched
           /\ target[t] = "pending" => work[t] = "idle"
           /\ target[t] = "succeeded" <=> t \in exec.ok
    <3>1. \A t \in Target : work[t] \in {"idle", "end"}
      BY <2>1 DEF OrchInv, LoopInv
    <3> QED BY <3>1 DEF OrchInv, TargetInv, TargetOK
  <2>6. \A t \in Target : target[t] = "pending" =>
           /\ plan.strategy = "sequential"
           /\ \E u \in Target : u < t /\ target[u] = "failed"
    BY <2>1, <2>5 DEF LifeInv
  <2>7. Outcome = IF \A t \in Target : target[t] = "succeeded"
                  THEN "succeeded" ELSE "failed"
    <3>1. exec.ok \in SUBSET Target BY DEF OrchInv, TypeOK
    <3> QED BY <2>5, <3>1 DEF Outcome
  <2>8. [Lifecycle!Next]_Seen
    <3>1. CASE orch'.status = orch.status BY <1>1, <3>1 DEF Seen
    <3>2. CASE orch'.status = Outcome
      <4>1. Lifecycle!Decide
        BY <1>1, <2>3, <2>5, <2>6, <2>7, <3>2 DEF Lifecycle!Decide, Open
      <4> QED BY <1>1, <4>1
    <3> QED BY <2>3, <3>1, <3>2
  <2> QED BY <2>4, <2>8
<1>10. CASE AbortRead
  <2>1. /\ orch.status \in Open /\ aborts' = aborts \cup {orch.version}
        /\ orch' = orch /\ exec' = exec
    BY <1>10 DEF AbortRead
  <2>2. exec.step # "none" BY <2>1 DEF LifeInv, Open
  <2> QED BY <1>1, <1>2, <1>3, <2>1, <2>2 DEF LifeInv
<1>11. ASSUME NEW v \in aborts, AbortWrite(v)
       PROVE  LifeInv' /\ [Lifecycle!Next]_Seen
  <2>1. aborts' = aborts \ {v} /\ exec' = exec /\ Write(v, "aborted")
    BY <1>11 DEF AbortWrite
  <2>2. CASE orch.version = v
    <3>1. orch'.status = "aborted" /\ orch'.version = orch.version + 1
      BY <2>1, <2>2 DEF Write
    <3>2. orch.status \in Open /\ exec.step # "none"
      BY <2>2, <1>11 DEF LifeInv
    <3>3. \A w \in aborts : w < orch'.version
      BY <1>2, <3>1 DEF LifeInv
    <3>4. \A w \in aborts' : /\ w <= orch'.version
                             /\ w = orch'.version => orch'.status \in Open
      BY <1>2, <2>1, <3>1, <3>3
    <3>5. LifeInv' BY <1>1, <2>1, <3>1, <3>2, <3>4 DEF LifeInv
    <3> QED BY <1>1, <3>1, <3>2, <3>5 DEF Lifecycle!Abort, Open
  <2>3. CASE orch.version # v
    BY <1>1, <1>3, <2>1, <2>3 DEF Write, LifeInv
  <2> QED BY <2>2, <2>3
<1>12. CASE Crash
  <2>1. /\ exec.step \notin {"none", "gone"} /\ exec'.step = "lost"
        /\ exec'.next = exec.next /\ aborts' = {} /\ orch' = orch
    BY <1>12 DEF Crash, OrchInv, TypeOK
  <2> QED BY <1>1, <1>3, <2>1 DEF LifeInv
<1> QED BY <1>4, <1>5, <1>6, <1>7, <1>8, <1>9, <1>10, <1>11, <1>12 DEF Loop

\* The row of a target after a step of its goroutine, or of its release.
LEMMA GoesRow ==
    ASSUME OrchInv, NEW t \in Target, Goes(t) \/ ReleaseStep(t)
    PROVE  \/ target' = target /\ work' = work
           \/ Begin(t)
           \/ /\ work[t] \notin {"idle", "end"}
              /\ \/ target' = target
                 \/ \E s \in {"succeeded", "failed"} :
                       target' = [target EXCEPT ![t] = s]
<1> USE DEF Reach, Report
<1>1. CASE Trigger(t) BY <1>1 DEF Trigger
<1>2. CASE TriggerFails(t) BY <1>2 DEF TriggerFails, Refused, Drop, Fail
<1>3. CASE WaitEnds(t) BY <1>3 DEF WaitEnds, Ended, Fail, Succeed
<1>4. CASE WaitFails(t) BY <1>4 DEF WaitFails, Deadline, Fail
<1>5. CASE Scale(t) BY <1>5 DEF Scale
<1>6. CASE Rolled(t) BY <1>6 DEF Rolled, Succeed
<1>7. CASE BatchFails(t) BY <1>7 DEF BatchFails, Drop
<1>8. CASE ReleaseStep(t) BY <1>8 DEF ReleaseStep
<1> QED BY <1>1, <1>2, <1>3, <1>4, <1>5, <1>6, <1>7, <1>8 DEF Goes

LEMMA GoesLife ==
    ASSUME OrchInv, LifeInv, NEW t \in Target, Goes(t) \/ ReleaseStep(t)
    PROVE  LifeInv' /\ [Lifecycle!Next]_Seen
<1>1. /\ orch' = orch /\ plan' = plan /\ aborts' = aborts
      /\ Parallel' = Parallel
      /\ exec'.step = exec.step /\ exec'.next = exec.next
      /\ \A u \in Target \ {t} : work'[u] = work[u]
  BY GoesAside DEF Parallel, requests, OrchInv, TypeOK
<1> USE DEF Lifecycle!Next, Lifecycle!Decided
<1>2. CASE target' = target /\ work' = work
  BY <1>1, <1>2 DEF LifeInv, Seen
<1>3. ASSUME exec.step = "run" \/ work[t] \notin {"idle", "end"},
             work[t] # "end"
      PROVE  LifeInv'
  <2>1. /\ exec.step \notin {"none", "complete", "gone"}
        /\ orch.status \notin {"none", "succeeded", "failed"}
    BY <1>3, UnderWay
  <2>2. ~Parallel => \A u \in Target : u < exec.next => work'[u] = "end"
    BY <1>1, <1>3 DEF LifeInv
  <2> QED BY <1>1, <2>1, <2>2 DEF LifeInv
<1>4. CASE Begin(t)
  <2>1. /\ exec.step = "run" /\ work[t] = "idle"
        /\ Parallel \/ exec.next = t
        /\ target' = [target EXCEPT ![t] = "running"]
    BY <1>4 DEF Begin, Report
  <2>2. orch.status \notin {"none", "succeeded", "failed"}
    BY <2>1, UnderWay
  <2>3. target[t] = "pending" BY <2>1 DEF OrchInv, TargetInv, TargetOK
  <2>4. ASSUME plan.strategy = "sequential", NEW u \in Target, u < t
        PROVE  target[u] = "succeeded"
    <3>1. exec.next = t BY <2>1, <2>4 DEF Parallel
    <3>2. u \in exec.ok BY <2>4, <3>1 DEF OrchInv, LoopInv
    <3> QED BY <3>2 DEF OrchInv, TargetInv, TargetOK
  <2>5. Lifecycle!Begin(t)
    BY <1>1, <2>1, <2>2, <2>3, <2>4 DEF Lifecycle!Begin
  <2> QED BY <1>1, <1>3, <2>1, <2>5
<1>5. CASE work[t] \notin {"idle", "end"} /\ target' = target
  BY <1>1, <1>3, <1>5 DEF Seen
<1>6. ASSUME work[t] \notin {"idle", "end"},
             NEW s \in {"succeeded", "failed"},
             target' = [target EXCEPT ![t] = s]
      PROVE  LifeInv' /\ [Lifecycle!Next]_Seen
  <2>1. orch.status \notin {"none", "succeeded", "failed"}
    BY <1>6, UnderWay
  <2>2. target[t] = "running"
    <3>1. work[t] \in {"trigger", "wait", "scale", "roll"}
      BY <1>6 DEF OrchInv, TypeOK, WorkStep
    <3> QED BY <3>1 DEF OrchInv, TargetInv, TargetOK
  <2>3. Lifecycle!End(t) BY <1>1, <1>6, <2>1, <2>2 DEF Lifecycle!End
  <2> QED BY <1>1, <1>3, <1>6, <2>3
<1> QED BY <1>2, <1>4, <1>5, <1>6, GoesRow

LEMMA LifeStep ==
    ASSUME OrchInv, LifeInv, [Next]_vars
    PROVE  LifeInv' /\ [Lifecycle!Next]_Seen
<1>1. CASE UNCHANGED vars BY <1>1 DEF vars, LifeInv, Parallel, Seen
<1> QED BY <1>1, LoopLife, GoesLife, Cases

\* A client sees targets taken in order, an outcome that agrees with their
\* rows, and nothing that changes after it, with any number of targets and
\* aborts, whatever becomes of the releases and of the process: the
\* orchestration implements OrchestrationLifecycle.
THEOREM LifecycleImplemented == Spec => ImplementsLifecycle
<1>1. Init => LifeInv /\ Lifecycle!Init BY LifeInit
<1>2. OrchInv /\ LifeInv /\ [Next]_vars => LifeInv' /\ [Lifecycle!Next]_Seen
  BY LifeStep
<1> QED BY <1>1, <1>2, Invariant, PTL
        DEF Spec, Seen, ImplementsLifecycle, Lifecycle!Spec
=============================================================================
