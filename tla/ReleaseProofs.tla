--------------------------- MODULE ReleaseProofs ---------------------------
(***************************************************************************)
(* Theorems about Release, for any number of releases, batches, handlers   *)
(* and requests: every step keeps the variables typed, LockInv is          *)
(* inductive, and what follows from it.                                    *)
(***************************************************************************)
EXTENDS ReleaseExclusion, TLAPS

USE StoreAssumption, ReleaseAssumption

-----------------------------------------------------------------------------
(* Types.                                                                  *)

LEMMA NewestType ==
    ASSUME NEW S \in SUBSET Release
    PROVE  Newest(S) \in ReleaseOrNone
  BY DEF Newest, ReleaseOrNone, NoRelease

LEMMA LastSucceededType == LastSucceeded \in ReleaseOrNone
  BY NewestType DEF LastSucceeded, InStatus

LEMMA BecomeType ==
    ASSUME task \in [Release -> Task],
           NEW r \in Release, NEW t \in Task, Become(r, t)
    PROVE  task' \in [Release -> Task]
  BY DEF Become

LEMMA GotoType ==
    ASSUME task \in [Release -> Task],
           NEW r \in Release, NEW pc \in PC, Goto(r, pc)
    PROVE  task' \in [Release -> Task]
  <1>1. [task[r] EXCEPT !.pc = pc] \in Task
    <2>1. task[r] \in Task
      OBVIOUS
    <2>2. QED
      BY <2>1 DEF Task
  <1>2. QED
    BY <1>1, BecomeType DEF Goto

LEMMA FinishType ==
    ASSUME task \in [Release -> Task],
           NEW r \in Release, NEW goal \in {"succeeded", "failed"},
           Finish(r, goal)
    PROVE  task' \in [Release -> Task]
  <1>1. [task[r] EXCEPT !.pc = "read", !.goal = goal] \in Task
    <2>1. task[r] \in Task /\ "read" \in PC
      BY DEF PC
    <2>2. QED
      BY <2>1 DEF Task
  <1>2. QED
    BY <1>1, BecomeType DEF Finish

LEMMA ApplyFailedType ==
    ASSUME task \in [Release -> Task], NEW r \in Release, ApplyFailed(r)
    PROVE  task' \in [Release -> Task]
  <1> DEFINE back == plan[r].auto /\ plan[r].prev # NoRelease
  <1>1. [task[r] EXCEPT !.pc = "read", !.goal = "failed", !.back = back]
           \in Task
    <2>1. task[r] \in Task /\ "read" \in PC /\ back \in BOOLEAN
      BY DEF PC
    <2> HIDE DEF back
    <2>2. QED
      BY <2>1 DEF Task
  <1>2. QED
    BY <1>1, BecomeType DEF ApplyFailed

LEMMA CasType ==
    ASSUME status \in [Release -> Status], version \in [Release -> Nat],
           plan \in [Release -> Plan],
           NEW r \in Release, NEW v, NEW s \in Status, Cas(r, v, s)
    PROVE  /\ status' \in [Release -> Status]
           /\ version' \in [Release -> Nat]
           /\ plan' \in [Release -> Plan]
  BY DEF Cas

\* The other ways an action assigns the locals of a goroutine.
LEMMA HeldType ==
    ASSUME task \in [Release -> Task], NEW r \in Release,
           NEW pc \in PC, NEW v \in Nat,
           Become(r, [task[r] EXCEPT !.pc = pc, !.held = v])
    PROVE  task' \in [Release -> Task]
  <1>1. [task[r] EXCEPT !.pc = pc, !.held = v] \in Task
    <2>1. task[r] \in Task
      OBVIOUS
    <2>2. QED
      BY <2>1 DEF Task
  <1>2. QED
    BY <1>1, BecomeType

LEMMA StageType ==
    ASSUME task \in [Release -> Task], NEW r \in Release,
           NEW pc \in PC, NEW stage \in Stage,
           Become(r, [task[r] EXCEPT !.pc = pc, !.stage = stage])
    PROVE  task' \in [Release -> Task]
  <1>1. [task[r] EXCEPT !.pc = pc, !.stage = stage] \in Task
    <2>1. task[r] \in Task
      OBVIOUS
    <2>2. QED
      BY <2>1 DEF Task
  <1>2. QED
    BY <1>1, BecomeType

LEMMA AfterType ==
    ASSUME NEW r \in Release
    PROVE  /\ AfterBump(r) \in PC
           /\ AfterWait(r) \in PC
           /\ AfterComplete(r) \in PC
  BY DEF AfterBump, AfterWait, AfterComplete, PC

\* A step of a goroutine keeps the locals of all goroutines typed.
LEMMA RunTask ==
    ASSUME TypeOK, NEW r \in Release, Run(r)
    PROVE  task' \in [Release -> Task]
  <1>1. task \in [Release -> Task] /\ version[r] \in Nat
    BY DEF TypeOK, StoreTypeOK, ExecutorTypeOK
  <1>2. CASE Prepare(r) \/ NoClient(r)
    BY <1>1, <1>2, GotoType, FinishType DEF Prepare, NoClient, PC
  <1>3. CASE Bump(r)
    BY <1>1, <1>3, GotoType DEF Bump, PC
  <1>4. CASE BumpRead(r)
    <2>1. "bumpretry" \in PC
      BY DEF PC
    <2>2. QED
      BY <1>1, <1>4, <2>1, GotoType, HeldType, AfterType DEF BumpRead
  <1>5. CASE BumpRetry(r)
    <2>1. "reread" \in PC
      BY DEF PC
    <2>2. QED
      BY <1>1, <1>5, <2>1, GotoType, AfterType DEF BumpRetry
  <1>6. CASE Reread(r)
    BY <1>1, <1>6, HeldType, AfterType DEF Reread
  <1>7. CASE Check(r)
    BY <1>1, <1>7, GotoType, StageType DEF Check, PC, Stage
  <1>8. CASE ApplyRolling(r)
    BY <1>1, <1>8, StageType, ApplyFailedType DEF ApplyRolling, PC, Stage
  <1>9. CASE ApplyCandidate(r)
    BY <1>1, <1>9, StageType, ApplyFailedType DEF ApplyCandidate, PC, Stage
  <1>10. CASE ScaleBatch(r)
    <2>1. CASE Goto(r, "faildrop")
      BY <1>1, <2>1, GotoType DEF PC
    <2>2. CASE Become(r, [task[r] EXCEPT !.pc = "mark", !.batch = @ + 1])
      <3>1. task[r] \in Task /\ "mark" \in PC
        BY <1>1 DEF PC
      <3>2. [task[r] EXCEPT !.pc = "mark", !.batch = @ + 1] \in Task
        <4>1. task[r].batch + 1 \in 0..Batches
          BY <1>10, <3>1 DEF ScaleBatch, Task, StoreAssumption
        <4>2. QED
          BY <3>1, <4>1 DEF Task
      <3>3. QED
        BY <1>1, <2>2, <3>2, BecomeType
    <2>3. QED
      BY <1>10, <2>1, <2>2 DEF ScaleBatch
  <1>11. CASE MarkCandidate(r)
    BY <1>1, <1>11, GotoType DEF MarkCandidate, PC
  <1>12. CASE Promote(r)
    BY <1>1, <1>12, GotoType DEF Promote, PC
  <1>13. CASE Wait(r)
    <2>1. "exit" \in PC /\ "recheck" \in PC
      BY DEF PC
    <2>2. QED
      BY <1>1, <1>13, <2>1, GotoType, AfterType DEF Wait
  <1>14. CASE Recheck(r)
    BY <1>1, <1>14, GotoType, FinishType DEF Recheck, PC
  <1>15. CASE DropCandidate(r)
    BY <1>1, <1>15, GotoType DEF DropCandidate, PC
  <1>16. CASE Publish(r)
    <2>1. plan[r].strategy \in {"rolling", "candidate", "external"}
      BY DEF TypeOK, StoreTypeOK, Plan, Strategy
    <2>2. QED
      BY <1>1, <1>16, <2>1, GotoType, FinishType DEF Publish, PC
  <1>17. CASE ClearCandidate(r)
    BY <1>1, <1>17, FinishType DEF ClearCandidate
  <1>18. CASE FailDrop(r)
    BY <1>1, <1>18, GotoType DEF FailDrop, PC
  <1>19. CASE FailClear(r)
    BY <1>1, <1>19, FinishType DEF FailClear
  <1>20. CASE CompleteRead(r)
    <2>1. "complete" \in PC
      BY DEF PC
    <2>2. QED
      BY <1>1, <1>20, <2>1, GotoType, HeldType, AfterType DEF CompleteRead
  <1>21. CASE Complete(r)
    <2>1. CASE Goto(r, AfterComplete(r))
      BY <1>1, <2>1, GotoType, AfterType
    <2>2. CASE /\ task[r].tries + 1 < MaxTries
               /\ Become(r, [task[r] EXCEPT !.pc = "read", !.tries = @ + 1])
      <3>1. task[r] \in Task /\ "read" \in PC
        BY <1>1 DEF PC
      <3>2. [task[r] EXCEPT !.pc = "read", !.tries = @ + 1] \in Task
        <4>1. task[r].tries + 1 \in 0..MaxTries
          BY <2>2, <3>1 DEF Task, MaxTries
        <4>2. QED
          BY <3>1, <4>1 DEF Task
      <3>3. QED
        BY <1>1, <2>2, <3>2, BecomeType
    <2>3. QED
      BY <1>21, <2>1, <2>2 DEF Complete
  <1>22. CASE CompleteExternal(r)
    BY <1>1, <1>22, GotoType DEF CompleteExternal, PC
  <1>23. QED
    BY <1>2, <1>3, <1>4, <1>5, <1>6, <1>7, <1>8, <1>9, <1>10, <1>11, <1>12,
       <1>13, <1>14, <1>15, <1>16, <1>17, <1>18, <1>19, <1>20, <1>21, <1>22
       DEF Run, Execute

\* It writes no row but its own, and that one only under the lock.
LEMMA RunRows ==
    ASSUME TypeOK, NEW r \in Release, Run(r)
    PROVE  \/ UNCHANGED rows
           \/ \E s \in {"running", "succeeded", "failed"} :
                 Cas(r, task[r].held, s)
  <1>1. task[r].goal \in {"succeeded", "failed"}
    BY DEF TypeOK, ExecutorTypeOK, Task
  <1>2. CASE Bump(r) \/ BumpRetry(r)
    BY <1>2 DEF Bump, BumpRetry
  <1>3. CASE Complete(r) \/ CompleteExternal(r)
    BY <1>1, <1>3 DEF Complete, CompleteExternal
  <1>4. CASE \/ Prepare(r) \/ BumpRead(r) \/ Reread(r) \/ Check(r)
             \/ NoClient(r)
    BY <1>4 DEF Prepare, BumpRead, Reread, Check, NoClient, store
  <1>5. CASE ApplyRolling(r) \/ ApplyCandidate(r) \/ ScaleBatch(r)
    BY <1>5 DEF ApplyRolling, ApplyCandidate, ScaleBatch
  <1>6. CASE MarkCandidate(r) \/ Promote(r) \/ Wait(r) \/ Recheck(r)
    BY <1>6 DEF MarkCandidate, Promote, Wait, Recheck, store
  <1>7. CASE DropCandidate(r) \/ Publish(r) \/ ClearCandidate(r)
    BY <1>7 DEF DropCandidate, Publish, ClearCandidate
  <1>8. CASE FailDrop(r) \/ FailClear(r) \/ CompleteRead(r)
    BY <1>8 DEF FailDrop, FailClear, CompleteRead, store
  <1>9. QED
    BY <1>2, <1>3, <1>4, <1>5, <1>6, <1>7, <1>8 DEF Run, Execute

\* The rest of its step is typed too.
LEMMA RunGroup ==
    ASSUME TypeOK, NEW r \in Release, Run(r)
    PROVE  /\ current' \in ReleaseOrNone
           /\ candidate' \in ReleaseOrNone
           /\ published' \subseteq Release
  <1> USE DEF group, store
  <1>1. /\ current \in ReleaseOrNone /\ candidate \in ReleaseOrNone
        /\ r \in ReleaseOrNone /\ NoRelease \in ReleaseOrNone
        /\ published \subseteq Release
    BY DEF TypeOK, StoreTypeOK, ExecutorTypeOK, ReleaseOrNone
  <1>2. CASE Bump(r) \/ BumpRetry(r) \/ Complete(r) \/ CompleteExternal(r)
    BY <1>1, <1>2 DEF Bump, BumpRetry, Complete, CompleteExternal
  <1>3. CASE \/ Prepare(r) \/ BumpRead(r) \/ Reread(r) \/ Check(r)
             \/ NoClient(r)
    BY <1>1, <1>3 DEF Prepare, BumpRead, Reread, Check, NoClient
  <1>4. CASE ApplyRolling(r) \/ ApplyCandidate(r) \/ ScaleBatch(r)
    BY <1>1, <1>4 DEF ApplyRolling, ApplyCandidate, ScaleBatch
  <1>5. CASE MarkCandidate(r) \/ Promote(r) \/ Wait(r) \/ Recheck(r)
    BY <1>1, <1>5 DEF MarkCandidate, SetCandidate, Promote, Wait, Recheck
  <1>6. CASE DropCandidate(r) \/ Publish(r) \/ ClearCandidate(r)
    BY <1>1, <1>6 DEF DropCandidate, Publish, ClearCandidate,
                      SetCurrent, SetCandidate
  <1>7. CASE FailDrop(r) \/ FailClear(r) \/ CompleteRead(r)
    BY <1>1, <1>7 DEF FailDrop, FailClear, CompleteRead, SetCandidate
  <1>8. QED
    BY <1>2, <1>3, <1>4, <1>5, <1>6, <1>7 DEF Run, Execute

ClusterTypeOK ==
    /\ primary \in ReleaseOrNone
    /\ up \in BOOLEAN
    /\ canary \in ReleaseOrNone
    /\ canarySize \in 0..Batches

LEMMA ClusterType ==
    ASSUME ClusterTypeOK,
           \/ \E p \in Release : ApplyPrimary(p)
           \/ \E p, c \in Release : ApplyWithCandidate(p, c)
           \/ \E n \in 0..Batches : ScaleCandidate(n)
           \/ DeleteCandidate
           \/ ScalePrimary(TRUE) \/ ScalePrimary(FALSE)
           \/ UNCHANGED cluster
    PROVE  ClusterTypeOK'
  <1> USE StoreAssumption DEF ClusterTypeOK, ReleaseOrNone
  <1>1. CASE \E p \in Release : ApplyPrimary(p)
    BY <1>1 DEF ApplyPrimary
  <1>2. CASE \E p, c \in Release : ApplyWithCandidate(p, c)
    BY <1>2 DEF ApplyWithCandidate
  <1>3. CASE \E n \in 0..Batches : ScaleCandidate(n)
    BY <1>3 DEF ScaleCandidate
  <1>4. CASE DeleteCandidate
    BY <1>4 DEF DeleteCandidate
  <1>5. CASE ScalePrimary(TRUE) \/ ScalePrimary(FALSE)
    BY <1>5 DEF ScalePrimary
  <1>6. CASE UNCHANGED cluster
    BY <1>6 DEF cluster
  <1>7. QED
    BY <1>1, <1>2, <1>3, <1>4, <1>5, <1>6

LEMMA RunCluster ==
    ASSUME TypeOK, NEW r \in Release, Run(r)
    PROVE  ClusterTypeOK'
  <1> USE DEF cluster, store
  <1>1. ClusterTypeOK
    BY DEF TypeOK, StoreTypeOK, ClusterTypeOK
  <1>2. CASE Bump(r) \/ BumpRetry(r) \/ Complete(r) \/ CompleteExternal(r)
    BY <1>1, <1>2, ClusterType DEF Bump, BumpRetry, Complete, CompleteExternal
  <1>3. CASE \/ Prepare(r) \/ BumpRead(r) \/ Reread(r) \/ Check(r)
             \/ NoClient(r)
    BY <1>1, <1>3, ClusterType DEF Prepare, BumpRead, Reread, Check, NoClient
  <1>4. CASE ApplyRolling(r)
    BY <1>1, <1>4, ClusterType DEF ApplyRolling
  <1>5. CASE ApplyCandidate(r)
    <2>1. task[r].base # NoRelease => task[r].base \in Release
      BY DEF TypeOK, ExecutorTypeOK, Task, ReleaseOrNone
    <2>2. QED
      BY <1>1, <1>5, <2>1, ClusterType DEF ApplyCandidate
  <1>6. CASE ScaleBatch(r)
    <2>1. task[r].batch + 1 \in 0..Batches
      BY <1>6, StoreAssumption DEF ScaleBatch, TypeOK, ExecutorTypeOK, Task
    <2>2. QED
      BY <1>1, <1>6, <2>1, ClusterType DEF ScaleBatch
  <1>7. CASE MarkCandidate(r) \/ Promote(r) \/ Wait(r) \/ Recheck(r)
    BY <1>1, <1>7, ClusterType DEF MarkCandidate, Promote, Wait, Recheck
  <1>8. CASE DropCandidate(r) \/ Publish(r) \/ ClearCandidate(r)
    BY <1>1, <1>8, ClusterType DEF DropCandidate, Publish, ClearCandidate
  <1>9. CASE FailDrop(r) \/ FailClear(r) \/ CompleteRead(r)
    BY <1>1, <1>9, ClusterType DEF FailDrop, FailClear, CompleteRead
  <1>10. QED
    BY <1>2, <1>3, <1>4, <1>5, <1>6, <1>7, <1>8, <1>9 DEF Run, Execute

LEMMA RunLate ==
    ASSUME TypeOK, NEW r \in Release, Run(r)
    PROVE  late' \in [Release -> Nat]
  <1>1. late \in [Release -> Nat]
    BY DEF TypeOK, ExecutorTypeOK
  <1>2. Note(r) => late' \in [Release -> Nat]
    BY <1>1 DEF Note
  <1>3. Note(r) \/ UNCHANGED late
    <2>1. CASE \/ Prepare(r) \/ Bump(r) \/ BumpRead(r) \/ BumpRetry(r)
               \/ Reread(r) \/ Check(r) \/ NoClient(r)
      BY <2>1 DEF Prepare, Bump, BumpRead, BumpRetry, Reread, Check, NoClient
    <2>2. CASE \/ ApplyRolling(r) \/ ApplyCandidate(r) \/ ScaleBatch(r)
               \/ MarkCandidate(r) \/ Promote(r) \/ Wait(r) \/ Recheck(r)
      BY <2>2 DEF ApplyRolling, ApplyCandidate, ScaleBatch, MarkCandidate,
                  Promote, Wait, Recheck
    <2>3. CASE \/ DropCandidate(r) \/ Publish(r) \/ ClearCandidate(r)
               \/ FailDrop(r) \/ FailClear(r)
               \/ CompleteRead(r) \/ Complete(r) \/ CompleteExternal(r)
      BY <2>3 DEF DropCandidate, Publish, ClearCandidate, FailDrop, FailClear,
                  CompleteRead, Complete, CompleteExternal
    <2>4. QED
      BY <2>1, <2>2, <2>3 DEF Run, Execute
  <1>4. QED
    BY <1>1, <1>2, <1>3

LEMMA RunTyped ==
    ASSUME TypeOK, NEW r \in Release, Run(r)
    PROVE  TypeOK'
  <1>1. /\ status' \in [Release -> Status]
        /\ version' \in [Release -> Nat]
        /\ plan' \in [Release -> Plan]
    <2>1. {"running", "succeeded", "failed"} \subseteq Status
      BY DEF Status, Live, Final
    <2>2. QED
      BY <2>1, RunRows, CasType DEF TypeOK, StoreTypeOK, rows
  <1>2. QED
    BY <1>1, RunTask, RunGroup, RunCluster, RunLate
    DEF TypeOK, StoreTypeOK, ExecutorTypeOK, ClusterTypeOK, Run

-----------------------------------------------------------------------------
(* Types of the handlers' steps.                                           *)

LEMMA PutType ==
    ASSUME api \in [Handlers -> Api],
           NEW h \in Handlers, NEW c \in Api, Put(h, c)
    PROVE  api' \in [Handlers -> Api]
  BY DEF Put

LEMMA NoCallType == NoPlan \in Plan /\ NoCall \in Api
  <1>1. NoPlan \in Plan
    BY DEF NoPlan, Plan, Strategy, ReleaseOrNone
  <1>2. "idle" \in HandlerPC /\ "running" \in Live
        /\ NoRelease \in ReleaseOrNone /\ 0 \in 0..MaxTries
    BY DEF HandlerPC, Live, ReleaseOrNone, MaxTries
  <1>3. QED
    BY <1>1, <1>2 DEF NoCall, Api

LEMMA ReturnType ==
    ASSUME api \in [Handlers -> Api], NEW h \in Handlers, Return(h)
    PROVE  api' \in [Handlers -> Api]
  BY PutType, NoCallType DEF Return

LEMMA StepType ==
    ASSUME api \in [Handlers -> Api], NEW h \in Handlers,
           NEW pc \in HandlerPC, Step(h, pc)
    PROVE  api' \in [Handlers -> Api]
  <1>1. [api[h] EXCEPT !.pc = pc] \in Api
    <2>1. api[h] \in Api
      OBVIOUS
    <2>2. QED
      BY <2>1 DEF Api
  <1>2. QED
    BY <1>1, PutType DEF Step

LEMMA TriggerCallType ==
    ASSUME current \in ReleaseOrNone,
           NEW s \in Strategy, NEW auto \in BOOLEAN
    PROVE  TriggerCall(s, auto) \in Api
  <1>1. [NoPlan EXCEPT !.strategy = s, !.auto = auto] \in Plan
    BY NoCallType DEF Plan
  <1>2. "sweep" \in HandlerPC
    BY DEF HandlerPC
  <1>3. QED
    BY <1>1, <1>2, NoCallType DEF TriggerCall, Api

LEMMA ReadingType ==
    ASSUME version \in [Release -> Nat],
           NEW pc \in HandlerPC, NEW r \in Release
    PROVE  Reading(pc, r) \in Api
  <1>1. version[r] \in Nat /\ r \in ReleaseOrNone
    BY DEF ReleaseOrNone
  <1>2. QED
    BY <1>1, NoCallType DEF Reading, Api

LEMMA LaunchType ==
    ASSUME task \in [Release -> Task], NEW r \in Release,
           NEW s, NEW v \in Nat, NEW b \in ReleaseOrNone, Launch(r, s, v, b)
    PROVE  task' \in [Release -> Task]
  <1> DEFINE pc == IF s = "external" THEN "external" ELSE "prepare"
  <1>1. NoTask \in Task
    <2>1. "idle" \in PC /\ "render" \in Stage /\ NoRelease \in ReleaseOrNone
          /\ 0 \in 0..MaxTries /\ 0 \in 0..Batches
      BY StoreAssumption DEF PC, Stage, ReleaseOrNone, MaxTries
    <2>2. QED
      BY <2>1 DEF NoTask, Task
  <1>2. pc \in PC
    BY DEF PC
  <1>3. [NoTask EXCEPT !.pc = pc, !.held = v, !.base = b] \in Task
    <2> HIDE DEF pc
    <2>1. QED
      BY <1>1, <1>2 DEF Task
  <1>4. QED
    BY <1>3, BecomeType DEF Launch

\* The release a handler is about to write exists.
LEMMA HandledRelease ==
    ASSUME LockInv, NEW h \in Handlers,
           api[h].pc \in {"icas", "insert", "xread", "xcas", "xreread",
                          "acas", "pcas", "rcas"}
    PROVE  api[h].rel \in Release
  <1>1. HandlerInv(h) /\ api[h] \in Api
    BY DEF LockInv, TypeOK
  <1>2. api[h].rel # NoRelease
    BY <1>1 DEF HandlerInv
  <1>3. QED
    BY <1>1, <1>2 DEF Api, ReleaseOrNone, NoRelease

LEMMA ServeApi ==
    ASSUME LockInv, NEW h \in Handlers, Serve(h)
    PROVE  api' \in [Handlers -> Api]
  <1>1. api \in [Handlers -> Api] /\ api[h] \in Api
    BY DEF LockInv, TypeOK
  <1>2. CASE Sweep(h)
    BY <1>1, <1>2, StepType DEF Sweep, HandlerPC
  <1>3. CASE Unmark(h)
    BY <1>1, <1>3, StepType DEF Unmark, HandlerPC
  <1>4. CASE List(h)
    <2>1. InStatus(api[h].scan) \in SUBSET Release /\ "iread" \in HandlerPC
          /\ 0 \in 0..MaxTries
      BY DEF InStatus, HandlerPC, MaxTries
    <2>2. [api[h] EXCEPT !.pc = "iread", !.tries = 0,
                         !.todo = InStatus(api[h].scan)] \in Api
      BY <1>1, <2>1 DEF Api
    <2>3. QED
      BY <1>1, <1>4, <2>2, PutType DEF List
  <1>5. CASE NextInterrupt(h)
    <2>1. ASSUME NEW r \in api[h].todo,
                 Put(h, [api[h] EXCEPT !.pc = "icas", !.rel = r,
                                       !.held = version[r]])
          PROVE  api' \in [Handlers -> Api]
      <3>1. r \in ReleaseOrNone /\ version[r] \in Nat /\ "icas" \in HandlerPC
        BY <1>1 DEF Api, ReleaseOrNone, HandlerPC, LockInv, TypeOK, StoreTypeOK
      <3>2. [api[h] EXCEPT !.pc = "icas", !.rel = r, !.held = version[r]]
              \in Api
        BY <1>1, <3>1 DEF Api
      <3>3. QED
        BY <1>1, <2>1, <3>2, PutType
    <2>2. CASE Put(h, [api[h] EXCEPT !.pc = "list", !.scan = "paused"])
      <3>1. "list" \in HandlerPC /\ "paused" \in Live
        BY DEF HandlerPC, Live
      <3>2. [api[h] EXCEPT !.pc = "list", !.scan = "paused"] \in Api
        BY <1>1, <3>1 DEF Api
      <3>3. QED
        BY <1>1, <2>2, <3>2, PutType
    <2>3. CASE Step(h, "number")
      BY <1>1, <2>3, StepType DEF HandlerPC
    <2>4. QED
      BY <1>5, <2>1, <2>2, <2>3 DEF NextInterrupt
  <1>6. CASE Interrupt(h)
    <2> DEFINE done == [api[h] EXCEPT !.pc = "iread",
                                      !.todo = @ \ {api[h].rel}, !.tries = 0]
               again == [api[h] EXCEPT !.pc = "iread", !.tries = @ + 1]
    <2>1. "iread" \in HandlerPC /\ 0 \in 0..MaxTries
      BY DEF HandlerPC, MaxTries
    <2>2. done \in Api
      BY <1>1, <2>1 DEF Api
    <2>3. api[h].tries + 1 < MaxTries => again \in Api
      <3>1. api[h].tries + 1 < MaxTries => api[h].tries + 1 \in 0..MaxTries
        BY <1>1 DEF Api, MaxTries
      <3>2. QED
        BY <1>1, <2>1, <3>1 DEF Api
    <2>4. Put(h, done) \/ (api[h].tries + 1 < MaxTries /\ Put(h, again))
      BY <1>6 DEF Interrupt
    <2> HIDE DEF done, again
    <2>5. QED
      BY <1>1, <2>2, <2>3, <2>4, PutType
  <1>7. CASE Number(h)
    <2>1. ASSUME NEW gate \in Gates, NextNumber \in Release,
                 Put(h, [api[h] EXCEPT
                            !.pc = "insert", !.rel = NextNumber,
                            !.want = [@ EXCEPT !.prev = LastSucceeded,
                                               !.gated = gate]])
          PROVE  api' \in [Handlers -> Api]
      <3> DEFINE want == [api[h].want EXCEPT !.prev = LastSucceeded,
                                             !.gated = gate]
      <3>1. want \in Plan
        <4>1. api[h].want \in Plan
          BY <1>1 DEF Api
        <4>2. gate \in BOOLEAN /\ LastSucceeded \in ReleaseOrNone
          BY <2>1, ReleaseAssumption, LastSucceededType
        <4>3. QED
          BY <4>1, <4>2 DEF Plan
      <3>2. "insert" \in HandlerPC /\ NextNumber \in ReleaseOrNone
        BY <2>1 DEF HandlerPC, ReleaseOrNone
      <3> HIDE DEF want
      <3>3. [api[h] EXCEPT !.pc = "insert", !.rel = NextNumber, !.want = want]
              \in Api
        BY <1>1, <3>1, <3>2 DEF Api
      <3> USE DEF want
      <3>4. QED
        BY <1>1, <2>1, <3>3, PutType
    <2>2. QED
      BY <1>1, <1>7, <2>1, ReturnType DEF Number
  <1>8. CASE Create(h)
    BY <1>1, <1>8, StepType, ReturnType DEF Create, HandlerPC
  <1>9. CASE CreateApproval(h)
    BY <1>1, <1>9, ReturnType DEF CreateApproval
  <1>10. CASE PendingRead(h)
    <2> DEFINE c == [api[h] EXCEPT !.pc = "xcas", !.base = current,
                                   !.held = version[api[h].rel]]
    <2>1. c \in Api
      <3>1. "xcas" \in HandlerPC /\ current \in ReleaseOrNone
            /\ version[api[h].rel] \in Nat
        BY <1>10, HandledRelease DEF PendingRead, In, HandlerPC, LockInv,
                                     TypeOK, StoreTypeOK
      <3>2. QED
        BY <1>1, <3>1 DEF Api
    <2>2. Put(h, c) \/ Return(h)
      BY <1>10 DEF PendingRead
    <2> HIDE DEF c
    <2>3. QED
      BY <1>1, <2>1, <2>2, PutType, ReturnType
  <1>11. CASE PendingRun(h)
    BY <1>1, <1>11, StepType, ReturnType DEF PendingRun, HandlerPC
  <1>12. CASE PendingLaunch(h)
    BY <1>1, <1>12, ReturnType DEF PendingLaunch
  <1>13. CASE Scale(h)
    BY <1>1, <1>13, StepType DEF Scale, HandlerPC
  <1>14. CASE Decide(h)
    BY <1>1, <1>14, ReturnType DEF Decide
  <1>15. QED
    BY <1>2, <1>3, <1>4, <1>5, <1>6, <1>7, <1>8, <1>9, <1>10, <1>11, <1>12,
       <1>13, <1>14 DEF Serve

\* A handler writes a row only under the lock, or inserts a new one.
LEMMA ServeRows ==
    ASSUME NEW h \in Handlers, Serve(h)
    PROVE  \/ UNCHANGED rows
           \/ /\ In(h, "icas")
              /\ Cas(api[h].rel, api[h].held, "interrupted")
           \/ In(h, "xcas") /\ Cas(api[h].rel, api[h].held, "running")
           \/ /\ api[h].pc \in {"acas", "pcas", "rcas"}
              /\ Cas(api[h].rel, api[h].held, Verdict(api[h].pc))
           \/ /\ In(h, "insert") /\ api[h].want.gated
              /\ Insert(api[h].rel, "pending_approval", api[h].want)
           \/ /\ In(h, "insert") /\ ~api[h].want.gated
              /\ Insert(api[h].rel, "running", api[h].want)
  <1>1. CASE Sweep(h) \/ Unmark(h) \/ List(h) \/ NextInterrupt(h) \/ Number(h)
    BY <1>1 DEF Sweep, Unmark, List, NextInterrupt, Number, store
  <1>2. CASE Interrupt(h)
    BY <1>2 DEF Interrupt
  <1>3. CASE Create(h)
    BY <1>3 DEF Create
  <1>4. CASE CreateApproval(h) \/ PendingRead(h) \/ PendingLaunch(h) \/ Scale(h)
    BY <1>4 DEF CreateApproval, PendingRead, PendingLaunch, Scale, store
  <1>5. CASE PendingRun(h)
    BY <1>5 DEF PendingRun
  <1>6. CASE Decide(h)
    BY <1>6 DEF Decide
  <1>7. QED
    BY <1>1, <1>2, <1>3, <1>4, <1>5, <1>6 DEF Serve

\* It starts a goroutine only for a release it just created or approved.
LEMMA ServeTask ==
    ASSUME NEW h \in Handlers, Serve(h)
    PROVE  \/ UNCHANGED task
           \/ /\ In(h, "insert") /\ ~api[h].want.gated
              /\ Insert(api[h].rel, "running", api[h].want)
              /\ Launch(api[h].rel, api[h].want.strategy, 0, api[h].base)
           \/ /\ In(h, "xreread")
              /\ UNCHANGED rows
              /\ Launch(api[h].rel, plan[api[h].rel].strategy,
                        version[api[h].rel], api[h].base)
  <1> USE DEF executor
  <1>1. CASE Sweep(h) \/ Unmark(h) \/ List(h) \/ NextInterrupt(h) \/ Number(h)
    BY <1>1 DEF Sweep, Unmark, List, NextInterrupt, Number
  <1>2. CASE Interrupt(h) \/ PendingRun(h) \/ Decide(h)
    BY <1>2 DEF Interrupt, PendingRun, Decide
  <1>3. CASE Create(h)
    BY <1>3 DEF Create
  <1>4. CASE CreateApproval(h) \/ PendingRead(h) \/ Scale(h)
    BY <1>4 DEF CreateApproval, PendingRead, Scale
  <1>5. CASE PendingLaunch(h)
    BY <1>5 DEF PendingLaunch, store
  <1>6. QED
    BY <1>1, <1>2, <1>3, <1>4, <1>5 DEF Serve

LEMMA ServeTyped ==
    ASSUME LockInv, NEW h \in Handlers, Serve(h)
    PROVE  TypeOK'
  <1> USE DEF LockInv, TypeOK
  <1>1. /\ status' \in [Release -> Status]
        /\ version' \in [Release -> Nat]
        /\ plan' \in [Release -> Plan]
    <2>1. /\ status \in [Release -> Status]
          /\ version \in [Release -> Nat]
          /\ plan \in [Release -> Plan]
      BY DEF StoreTypeOK
    <2>2. {"pending_approval", "running", "paused", "aborted", "interrupted"}
            \subseteq Status
      BY DEF Status, Live, Final
    <2>3. CASE In(h, "insert")
      <3>1. api[h].want \in Plan
        BY DEF Api
      <3>2. CASE UNCHANGED rows
        BY <2>1, <3>2 DEF rows
      <3>3. CASE \/ Insert(api[h].rel, "pending_approval", api[h].want)
                 \/ Insert(api[h].rel, "running", api[h].want)
        BY <2>1, <2>2, <3>1, <3>3 DEF Insert
      <3>4. QED
        BY <2>3, <3>2, <3>3, ServeRows DEF In
    <2>4. CASE ~In(h, "insert")
      <3>1. CASE UNCHANGED rows
        BY <2>1, <3>1 DEF rows
      <3>2. ASSUME NEW s \in {"running", "paused", "aborted", "interrupted"},
                   Cas(api[h].rel, api[h].held, s), api[h].rel \in Release
            PROVE  /\ status' \in [Release -> Status]
                   /\ version' \in [Release -> Nat]
                   /\ plan' \in [Release -> Plan]
        BY <2>1, <2>2, <3>2, CasType
      <3>3. api[h].pc \in {"acas", "pcas", "rcas"} =>
               Verdict(api[h].pc) \in {"running", "paused", "aborted"}
        BY DEF Verdict
      <3>4. QED
        BY <2>4, <3>1, <3>2, <3>3, ServeRows, HandledRelease DEF In
    <2>5. QED
      BY <2>3, <2>4
  <1>2. task' \in [Release -> Task]
    <2>1. task \in [Release -> Task]
      BY DEF ExecutorTypeOK
    <2>2. api[h].base \in ReleaseOrNone
      BY DEF Api
    <2>3. In(h, "insert") \/ In(h, "xreread") => api[h].rel \in Release
      BY HandledRelease DEF In
    <2>4. In(h, "xreread") => version[api[h].rel] \in Nat
      BY <2>3 DEF StoreTypeOK
    <2>5. QED
      BY <2>1, <2>2, <2>3, <2>4, ServeTask, LaunchType
  <1>3. ClusterTypeOK'
    <2> USE DEF store, cluster
    <2>1. ClusterTypeOK
      BY DEF StoreTypeOK, ClusterTypeOK
    <2>2. CASE Sweep(h) \/ Scale(h)
      BY <2>1, <2>2, ClusterType DEF Sweep, Scale
    <2>3. CASE \/ Unmark(h) \/ List(h) \/ NextInterrupt(h) \/ Interrupt(h)
               \/ Number(h) \/ Create(h)
      BY <2>1, <2>3, ClusterType
      DEF Unmark, List, NextInterrupt, Interrupt, Number, Create
    <2>4. CASE \/ CreateApproval(h) \/ PendingRead(h) \/ PendingRun(h)
               \/ PendingLaunch(h) \/ Decide(h)
      BY <2>1, <2>4, ClusterType
      DEF CreateApproval, PendingRead, PendingRun, PendingLaunch, Decide
    <2>5. QED
      BY <2>2, <2>3, <2>4 DEF Serve
  <1>4. /\ current' \in ReleaseOrNone /\ candidate' \in ReleaseOrNone
        /\ published' \subseteq Release /\ late' \in [Release -> Nat]
        /\ approval' \in [Release ->
                            {"none", "pending", "approved", "rejected"}]
        /\ requests' \in 0..MaxRequests
    <2> USE DEF store, group, executor
    <2>1. /\ current \in ReleaseOrNone /\ candidate \in ReleaseOrNone
          /\ published \subseteq Release /\ late \in [Release -> Nat]
          /\ NoRelease \in ReleaseOrNone
      BY DEF StoreTypeOK, ExecutorTypeOK, ReleaseOrNone
    <2>2. CASE \/ Sweep(h) \/ Unmark(h) \/ List(h) \/ NextInterrupt(h)
               \/ Interrupt(h) \/ Number(h) \/ Create(h)
      BY <2>1, <2>2
      DEF Sweep, Unmark, SetCandidate, List, NextInterrupt, Interrupt, Number,
          Create
    <2>3. CASE \/ PendingRead(h) \/ PendingRun(h) \/ PendingLaunch(h)
               \/ Scale(h) \/ Decide(h)
      BY <2>1, <2>3 DEF PendingRead, PendingRun, PendingLaunch, Scale, Decide
    <2>4. CASE CreateApproval(h)
      BY <2>1, <2>4 DEF CreateApproval
    <2>5. QED
      BY <2>2, <2>3, <2>4 DEF Serve
  <1>5. QED
    BY <1>1, <1>2, <1>3, <1>4, ServeApi
    DEF StoreTypeOK, ExecutorTypeOK, ClusterTypeOK

\* A request, or an automatic rollback, reaching a handler.
LEMMA HandleTyped ==
    ASSUME TypeOK, NEW h \in Handlers, Handle(h)
    PROVE  TypeOK'
  <1> USE DEF TypeOK
  <1>1. ASSUME NEW op, NEW c \in Api, Request(h, op, c)
        PROVE  api' \in [Handlers -> Api] /\ requests' \in 0..MaxRequests
    BY <1>1, PutType, ReleaseAssumption DEF Request
  <1>2. current \in ReleaseOrNone /\ version \in [Release -> Nat]
    BY DEF StoreTypeOK
  <1>3. CASE Trigger(h)
    BY <1>1, <1>2, <1>3, TriggerCallType, ReleaseAssumption
    DEF Trigger, store, executor, rows, group, cluster, StoreTypeOK,
        ExecutorTypeOK
  <1>4. LastSucceeded # NoRelease =>
           TriggerCall(plan[LastSucceeded].strategy, FALSE) \in Api
    BY <1>2, LastSucceededType, TriggerCallType
    DEF ReleaseOrNone, StoreTypeOK, Plan
  <1>5. CASE Rollback(h)
    BY <1>1, <1>4, <1>5
    DEF Rollback, store, executor, rows, group, cluster, StoreTypeOK,
        ExecutorTypeOK
  <1>6. ASSUME NEW r \in Release, AutoRollback(r, h)
        PROVE  TypeOK'
    <2>1. api' \in [Handlers -> Api]
      BY <1>4, <1>6, PutType DEF AutoRollback
    <2>2. task' \in [Release -> Task]
      BY <1>6, GotoType DEF AutoRollback, ExecutorTypeOK, PC
    <2>3. QED
      BY <1>6, <2>1, <2>2
      DEF AutoRollback, store, rows, group, cluster, StoreTypeOK,
          ExecutorTypeOK
  <1>7. ASSUME NEW r \in Release, Approve(h, r) \/ Reject(h, r)
        PROVE  TypeOK'
    <2>1. [NoCall EXCEPT !.pc = "xread", !.rel = r] \in Api
      <3>1. "xread" \in HandlerPC /\ r \in ReleaseOrNone
        BY DEF HandlerPC, ReleaseOrNone
      <3>2. QED
        BY <3>1, NoCallType DEF Api
    <2>2. api' \in [Handlers -> Api] /\ requests' \in 0..MaxRequests
      BY <1>1, <1>7, <2>1, NoCallType DEF Approve, Reject
    <2>3. approval' \in [Release ->
                          {"none", "pending", "approved", "rejected"}]
      BY <1>7 DEF Approve, Reject
    <2>4. QED
      BY <1>7, <2>2, <2>3
      DEF Approve, Reject, store, executor, rows, group, cluster, StoreTypeOK,
          ExecutorTypeOK
  <1>8. ASSUME NEW r \in Release, Abort(h, r) \/ Pause(h, r) \/ Resume(h, r)
        PROVE  TypeOK'
    <2>1. ASSUME NEW pc \in {"acas", "pscale", "rscale"}
          PROVE  Reading(pc, r) \in Api
      BY <1>2, <2>1, ReadingType DEF HandlerPC
    <2>2. api' \in [Handlers -> Api] /\ requests' \in 0..MaxRequests
      BY <1>1, <1>8, <2>1 DEF Abort, Pause, Resume
    <2>3. QED
      BY <1>8, <2>2
      DEF Abort, Pause, Resume, store, executor, rows, group, cluster,
          StoreTypeOK, ExecutorTypeOK
  <1>9. QED
    BY <1>3, <1>5, <1>6, <1>7, <1>8 DEF Handle

-----------------------------------------------------------------------------
(* What a step of the goroutine of r does to the state the invariant reads.*)

LEMMA RunBecomes ==
    ASSUME TypeOK, NEW r \in Release, Run(r)
    PROVE  \E t : Become(r, t)
  <1> USE DEF Goto, Finish, ApplyFailed
  <1>1. CASE \/ Prepare(r) \/ Bump(r) \/ BumpRead(r) \/ BumpRetry(r)
             \/ Reread(r) \/ NoClient(r)
    BY <1>1 DEF Prepare, Bump, BumpRead, BumpRetry, Reread, NoClient
  <1>2. CASE Check(r) \/ ApplyRolling(r) \/ ApplyCandidate(r) \/ ScaleBatch(r)
    BY <1>2 DEF Check, ApplyRolling, ApplyCandidate, ScaleBatch
  <1>3. CASE \/ MarkCandidate(r) \/ Promote(r) \/ Wait(r) \/ Recheck(r)
             \/ DropCandidate(r)
    BY <1>3 DEF MarkCandidate, Promote, Wait, Recheck, DropCandidate
  <1>4. CASE Publish(r)
    <2>1. plan[r].strategy \in {"rolling", "candidate", "external"}
      BY DEF TypeOK, StoreTypeOK, Plan, Strategy
    <2>2. QED
      BY <1>4, <2>1 DEF Publish
  <1>5. CASE ClearCandidate(r) \/ FailDrop(r) \/ FailClear(r)
    BY <1>5 DEF ClearCandidate, FailDrop, FailClear
  <1>6. CASE CompleteRead(r) \/ Complete(r) \/ CompleteExternal(r)
    BY <1>6 DEF CompleteRead, Complete, CompleteExternal
  <1>7. QED
    BY <1>1, <1>2, <1>3, <1>4, <1>5, <1>6 DEF Run, Execute

\* The row and the locals of every other release are left alone.
LEMMA RunOther ==
    ASSUME TypeOK, NEW r \in Release, Run(r), NEW q \in Release, q # r
    PROVE  /\ status'[q] = status[q] /\ version'[q] = version[q]
           /\ plan'[q] = plan[q] /\ task'[q] = task[q]
  <1>1. /\ status'[q] = status[q] /\ version'[q] = version[q]
        /\ plan'[q] = plan[q]
    BY RunRows DEF TypeOK, StoreTypeOK, rows, Cas
  <1>2. task'[q] = task[q]
    BY RunBecomes DEF TypeOK, ExecutorTypeOK, Become
  <1>3. QED
    BY <1>1, <1>2

LEMMA RunStarted ==
    ASSUME LockInv, NEW r \in Release, Run(r)
    PROVE  /\ ~At(r, "idle") /\ Started(r)
           /\ status[r] \in {"succeeded", "failed"} =>
                 At(r, "publish") /\ plan[r].strategy = "external"
  <1>1. task[r].pc \notin {"idle", "rollback", "exit"}
    <2>1. CASE \/ Prepare(r) \/ Bump(r) \/ BumpRead(r) \/ BumpRetry(r)
               \/ Reread(r) \/ Check(r) \/ NoClient(r)
      BY <2>1 DEF At, Prepare, Bump, BumpRead, BumpRetry, Reread, Check,
                  NoClient
    <2>2. CASE \/ ApplyRolling(r) \/ ApplyCandidate(r) \/ ScaleBatch(r)
               \/ MarkCandidate(r) \/ Promote(r) \/ Wait(r) \/ Recheck(r)
      BY <2>2 DEF At, ApplyRolling, ApplyCandidate, ScaleBatch, MarkCandidate,
                  Promote, Wait, Recheck
    <2>3. CASE \/ DropCandidate(r) \/ Publish(r) \/ ClearCandidate(r)
               \/ FailDrop(r) \/ FailClear(r)
               \/ CompleteRead(r) \/ Complete(r) \/ CompleteExternal(r)
      BY <2>3 DEF At, DropCandidate, Publish, ClearCandidate, FailDrop,
                  FailClear, CompleteRead, Complete, CompleteExternal
    <2>4. QED
      BY <2>1, <2>2, <2>3 DEF Run, Execute
  <1>2. TaskInv(r)
    BY DEF LockInv
  <1>3. QED
    BY <1>1, <1>2 DEF TaskInv, At, Started

\* What the goroutine's own step leaves of its row and locals.
LEMMA Become1 ==
    ASSUME TypeOK, NEW r \in Release, NEW t, Become(r, t)
    PROVE  task'[r] = t
  BY DEF Become, TypeOK, ExecutorTypeOK

LEMMA Cas1 ==
    ASSUME TypeOK, NEW r \in Release, NEW v, NEW s, Cas(r, v, s)
    PROVE  /\ status'[r] = s /\ version'[r] = version[r] + 1
           /\ plan'[r] = plan[r] /\ version[r] = v
  BY DEF Cas, TypeOK, StoreTypeOK

\* The locals after each kind of assignment.
LEMMA Locals ==
    ASSUME TypeOK, NEW r \in Release, NEW pc
    PROVE  /\ Goto(r, pc) =>
                 /\ task'[r].pc = pc /\ task'[r].held = task[r].held
                 /\ task'[r].stage = task[r].stage
           /\ Finish(r, "failed") \/ Finish(r, "succeeded") \/ ApplyFailed(r)
                 => task'[r].pc = "read" /\ task'[r].held = task[r].held
  <1>1. task[r] \in Task
    BY DEF TypeOK, ExecutorTypeOK
  <1>2. ASSUME Goto(r, pc)
        PROVE  /\ task'[r].pc = pc /\ task'[r].held = task[r].held
               /\ task'[r].stage = task[r].stage
    <2>1. task'[r] = [task[r] EXCEPT !.pc = pc]
      BY <1>2, Become1 DEF Goto
    <2>2. QED
      BY <1>1, <2>1 DEF Task
  <1>3. ASSUME Finish(r, "failed") \/ Finish(r, "succeeded")
        PROVE  task'[r].pc = "read" /\ task'[r].held = task[r].held
    <2>1. PICK g : task'[r] = [task[r] EXCEPT !.pc = "read", !.goal = g]
      BY <1>3, Become1 DEF Finish
    <2>2. QED
      BY <1>1, <2>1 DEF Task
  <1>4. ASSUME ApplyFailed(r)
        PROVE  task'[r].pc = "read" /\ task'[r].held = task[r].held
    <2>1. PICK b : task'[r] = [task[r] EXCEPT !.pc = "read",
                                              !.goal = "failed", !.back = b]
      BY <1>4, Become1 DEF ApplyFailed
    <2>2. QED
      BY <1>1, <2>1 DEF Task
  <1>5. QED
    BY <1>2, <1>3, <1>4

LEMMA LocalsHeld ==
    ASSUME TypeOK, NEW r \in Release, NEW pc, NEW v,
           Become(r, [task[r] EXCEPT !.pc = pc, !.held = v])
    PROVE  /\ task'[r].pc = pc /\ task'[r].held = v
           /\ task'[r].stage = task[r].stage
  <1>1. task[r] \in Task
    BY DEF TypeOK, ExecutorTypeOK
  <1>2. task'[r] = [task[r] EXCEPT !.pc = pc, !.held = v]
    BY Become1
  <1>3. QED
    BY <1>1, <1>2 DEF Task

LEMMA LocalsStage ==
    ASSUME TypeOK, NEW r \in Release, NEW pc, NEW g,
           Become(r, [task[r] EXCEPT !.pc = pc, !.stage = g])
    PROVE  /\ task'[r].pc = pc /\ task'[r].held = task[r].held
           /\ task'[r].stage = g
  <1>1. task[r] \in Task
    BY DEF TypeOK, ExecutorTypeOK
  <1>2. task'[r] = [task[r] EXCEPT !.pc = pc, !.stage = g]
    BY Become1
  <1>3. QED
    BY <1>1, <1>2 DEF Task

-----------------------------------------------------------------------------
(* A goroutine's step keeps TaskInv of its own release ...                 *)

\* ... when it writes no row,
LEMMA RowKept ==
    ASSUME LockInv, NEW r \in Release, Run(r), UNCHANGED rows,
           task'[r].pc \notin {"idle", "prepare", "external"},
           task'[r].held <= version[r],
           status[r] \in {"succeeded", "failed"} => task'[r].pc = "exit",
           WillCas(r)' /\ Covered(r)' => Guards(r, task'[r].held, Live)
    PROVE  TaskInv(r)'
  <1>1. Started(r)
    BY RunStarted
  <1>2. status'[r] = status[r] /\ version'[r] = version[r] /\ plan'[r] = plan[r]
    BY DEF rows
  <1>3. (WillCas(r) /\ Covered(r) => Guards(r, task[r].held, Live))'
    BY <1>2 DEF Guards
  <1>4. QED
    BY <1>1, <1>2, <1>3 DEF TaskInv, Started, At

\* ... and when it writes its own row, under the lock.
LEMMA RowWritten ==
    ASSUME LockInv, NEW r \in Release, Run(r),
           NEW s \in {"running", "succeeded", "failed"},
           Cas(r, task[r].held, s),
           task'[r].pc \notin {"idle", "prepare", "external"},
           task'[r].held = task[r].held,
           s # "running" => \/ task'[r].pc \in {"rollback", "exit"}
                           \/ /\ task'[r].pc = "publish"
                              /\ plan[r].strategy = "external"
    PROVE  TaskInv(r)'
  <1>1. /\ status'[r] = s /\ version'[r] = version[r] + 1
        /\ plan'[r] = plan[r] /\ version[r] = task[r].held
        /\ version[r] \in Nat
    BY Cas1 DEF LockInv, TypeOK, StoreTypeOK
  <1>2. Guards(r, task[r].held, Live)'
    BY <1>1 DEF Guards
  <1>3. QED
    BY <1>1, <1>2 DEF TaskInv, At, Guards

\* After bumpRunningProgress the goroutine always looks before it writes.
LEMMA AfterBumpKept ==
    ASSUME LockInv, NEW r \in Release, Run(r), UNCHANGED rows,
           ~At(r, "publish"),
           \/ Goto(r, AfterBump(r))
           \/ Become(r, [task[r] EXCEPT !.pc = AfterBump(r),
                                        !.held = version[r]])
    PROVE  TaskInv(r)'
  <1>1. /\ TypeOK /\ task[r].held <= version[r] /\ version[r] \in Nat
        /\ status[r] \notin {"succeeded", "failed"}
    BY RunStarted DEF LockInv, TaskInv, TypeOK, StoreTypeOK
  <1>2. /\ task'[r].pc = AfterBump(r) /\ task'[r].stage = task[r].stage
        /\ task'[r].held <= version[r]
    <2>1. CASE Goto(r, AfterBump(r))
      BY <1>1, <2>1, Locals
    <2>2. CASE Become(r, [task[r] EXCEPT !.pc = AfterBump(r),
                                         !.held = version[r]])
      <3>1. /\ task'[r].pc = AfterBump(r) /\ task'[r].held = version[r]
            /\ task'[r].stage = task[r].stage
        BY <1>1, <2>2, LocalsHeld, Zenon
      <3>2. QED
        BY <1>1, <3>1
    <2>3. QED
      BY <2>1, <2>2
  <1>3. task'[r].pc \notin {"idle", "prepare", "external"} /\ ~WillCas(r)'
    BY <1>2 DEF AfterBump, WillCas, At, Candidate, rows
  <1>4. QED
    BY <1>1, <1>2, <1>3, RowKept

LEMMA RunTaskInv ==
    ASSUME LockInv, NEW r \in Release, Run(r)
    PROVE  TaskInv(r)'
  <1>1. /\ TypeOK /\ TaskInv(r) /\ Started(r)
        /\ status[r] \in {"succeeded", "failed"} =>
              At(r, "publish") /\ plan[r].strategy = "external"
        /\ task[r].held <= version[r] /\ version[r] \in Nat
    BY RunStarted DEF LockInv, TaskInv, TypeOK, StoreTypeOK
  <1>2. CASE Prepare(r) \/ NoClient(r)
    <2>1. /\ \/ At(r, "prepare")
             \/ At(r, "write") /\ task[r].stage = "render"
          /\ UNCHANGED rows
          /\ Goto(r, "bump") \/ Finish(r, "failed")
      BY <1>2 DEF Prepare, NoClient, store
    <2>2. /\ task'[r].held = task[r].held
          /\ \/ task'[r].pc = "read"
             \/ task'[r].pc = "bump" /\ task'[r].stage = task[r].stage
      BY <1>1, <2>1, Locals
    <2>3. task[r].stage = "render"
      BY <1>1, <2>1 DEF TaskInv
    <2>4. ASSUME WillCas(r)', Covered(r)'
          PROVE  Guards(r, task'[r].held, Live)
      <3>1. task'[r].pc = "bump" /\ ~Begun(r)'
        BY <2>2, <2>3, <2>4 DEF WillCas, Begun, At
      <3>2. At(r, "prepare")
        BY <1>1, <1>2, <3>1, Locals DEF NoClient, Prepare
      <3>3. ~plan[r].gated
        BY <2>1, <2>4, <3>1 DEF Covered, rows
      <3>4. QED
        BY <1>1, <2>2, <3>2, <3>3 DEF TaskInv, WillCas, Covered, At
    <2>5. QED
      BY <1>1, <2>1, <2>2, <2>4, RowKept DEF At
  <1>3. CASE Bump(r)
    <2>1. CASE Cas(r, task[r].held, "running") /\ Goto(r, "reread")
      <3>1. task'[r].pc = "reread" /\ task'[r].held = task[r].held
        BY <1>1, <2>1, Locals
      <3>2. QED
        BY <2>1, <3>1, RowWritten
    <2>2. CASE UNCHANGED rows /\ Goto(r, "bumpread")
      <3>1. task'[r].pc = "bumpread" /\ task'[r].held = task[r].held
        BY <1>1, <2>2, Locals
      <3>2. QED
        BY <1>1, <1>3, <2>2, <3>1, RowKept DEF WillCas, At, Bump
    <2>3. QED
      BY <1>3, <2>1, <2>2 DEF Bump
  <1>4. CASE BumpRead(r)
    <2>1. At(r, "bumpread") /\ UNCHANGED rows
      BY <1>4 DEF BumpRead, store
    <2>2. CASE IsLive(r) /\ Become(r, [task[r] EXCEPT !.pc = "bumpretry",
                                                     !.held = version[r]])
      <3>1. task'[r].pc = "bumpretry" /\ task'[r].held = version[r]
        BY <1>1, <2>2, LocalsHeld
      <3>2. Guards(r, task'[r].held, Live)
        BY <1>1, <2>2, <3>1 DEF Guards, IsLive
      <3>3. QED
        BY <1>1, <2>1, <3>1, <3>2, RowKept DEF At
    <2>3. CASE Goto(r, AfterBump(r))
      BY <1>1, <2>1, <2>3, AfterBumpKept DEF At
    <2>4. QED
      BY <1>4, <2>2, <2>3 DEF BumpRead
  <1>5. CASE BumpRetry(r)
    <2>1. At(r, "bumpretry")
      BY <1>5 DEF BumpRetry
    <2>2. CASE Cas(r, task[r].held, "running") /\ Goto(r, "reread")
      <3>1. task'[r].pc = "reread" /\ task'[r].held = task[r].held
        BY <1>1, <2>2, Locals
      <3>2. QED
        BY <2>2, <3>1, RowWritten
    <2>3. CASE UNCHANGED rows /\ Goto(r, AfterBump(r))
      BY <1>1, <2>1, <2>3, AfterBumpKept DEF At
    <2>4. QED
      BY <1>5, <2>2, <2>3 DEF BumpRetry
  <1>6. CASE Reread(r)
    <2>1. /\ At(r, "reread") /\ UNCHANGED rows
          /\ Become(r, [task[r] EXCEPT !.pc = AfterBump(r),
                                       !.held = version[r]])
      BY <1>6 DEF Reread, store
    <2>2. QED
      BY <1>1, <2>1, AfterBumpKept DEF At
  <1>7. CASE Check(r)
    <2>1. At(r, "check") /\ UNCHANGED rows
      BY <1>7 DEF Check, store
    <2>2. CASE Goto(r, "exit")
      <3>1. task'[r].pc = "exit" /\ task'[r].held = task[r].held
        BY <1>1, <2>2, Locals
      <3>2. QED
        BY <1>1, <2>1, <3>1, RowKept DEF WillCas, At
    <2>3. CASE /\ IsLive(r)
               /\ \/ Goto(r, "write")
                  \/ Become(r, [task[r] EXCEPT !.pc = "bump",
                                               !.stage = "promote"])
      <3>1. task'[r].pc \in {"write", "bump"} /\ task'[r].held = task[r].held
        BY <1>1, <2>3, Locals, LocalsStage
      <3>2. Guards(r, task[r].held, Live)
        BY <1>1, <2>3 DEF Guards, IsLive
      <3>3. QED
        BY <1>1, <2>1, <3>1, <3>2, RowKept DEF At
    <2>4. QED
      BY <1>7, <2>2, <2>3 DEF Check
  <1>8. CASE ApplyRolling(r) \/ ApplyCandidate(r)
    <2>1. /\ At(r, "write") /\ task[r].stage = "render" /\ UNCHANGED rows
          /\ \/ ApplyFailed(r)
             \/ Become(r, [task[r] EXCEPT !.pc = "bump", !.stage = "rollout"])
             \/ Become(r, [task[r] EXCEPT !.pc = "mark", !.stage = "rollout"])
      BY <1>8 DEF ApplyRolling, ApplyCandidate
    <2>2. /\ task'[r].pc \in {"bump", "mark", "read"}
          /\ task'[r].held = task[r].held
      BY <1>1, <2>1, Locals, LocalsStage
    <2>3. Guards(r, task[r].held, Live)
      BY <1>1, <2>1 DEF TaskInv, WillCas, Covered, Begun, At
    <2>4. QED
      BY <1>1, <2>1, <2>2, <2>3, RowKept DEF At
  <1>9. CASE ScaleBatch(r)
    <2>1. At(r, "write") /\ task[r].stage = "rollout" /\ UNCHANGED rows
      BY <1>9 DEF ScaleBatch
    <2>2. task'[r].pc \in {"mark", "faildrop"} /\ task'[r].held = task[r].held
      <3>1. task[r] \in Task
        BY <1>1 DEF TypeOK, ExecutorTypeOK
      <3>2. CASE Become(r, [task[r] EXCEPT !.pc = "mark", !.batch = @ + 1])
        <4>1. task'[r] = [task[r] EXCEPT !.pc = "mark", !.batch = @ + 1]
          BY <1>1, <3>2, Become1
        <4>2. QED
          BY <3>1, <4>1 DEF Task
      <3>3. CASE Goto(r, "faildrop")
        BY <1>1, <3>3, Locals
      <3>4. QED
        BY <1>9, <3>2, <3>3 DEF ScaleBatch
    <2>3. Guards(r, task[r].held, Live)
      BY <1>1, <2>1 DEF TaskInv, WillCas, Covered, Begun, At
    <2>4. QED
      BY <1>1, <2>1, <2>2, <2>3, RowKept DEF At
  <1>10. CASE MarkCandidate(r)
    <2>1. At(r, "mark") /\ UNCHANGED rows
      BY <1>10 DEF MarkCandidate
    <2>2. task'[r].pc \in {"check", "wait"} /\ task'[r].held = task[r].held
      BY <1>1, <1>10, Locals DEF MarkCandidate
    <2>3. Guards(r, task[r].held, Live)
      BY <1>1, <2>1 DEF TaskInv, WillCas, Covered, Begun, At
    <2>4. QED
      BY <1>1, <2>1, <2>2, <2>3, RowKept DEF At
  <1>11. CASE Promote(r)
    <2>1. /\ At(r, "write") /\ task[r].stage = "promote" /\ UNCHANGED rows
          /\ Goto(r, "wait") \/ Goto(r, "faildrop")
      BY <1>11 DEF Promote
    <2>2. /\ task'[r].pc \in {"wait", "faildrop"}
          /\ task'[r].held = task[r].held /\ task'[r].stage = "promote"
      BY <1>1, <2>1, Locals
    <2>3. QED
      BY <1>1, <2>1, <2>2, RowKept DEF WillCas, At
  <1>12. CASE Wait(r)
    <2>1. At(r, "wait") /\ UNCHANGED rows
      BY <1>12 DEF Wait, store
    <2>2. PICK pc \in {"exit", "recheck", AfterWait(r)} : Goto(r, pc)
      BY <1>12 DEF Wait
    <2>3. /\ task'[r].pc = pc /\ task'[r].held = task[r].held
          /\ task'[r].stage = task[r].stage
      BY <1>1, <2>2, Locals
    <2>4. CASE Candidate(r) /\ task[r].stage # "promote"
      <3>1. Guards(r, task[r].held, Live)
        BY <1>1, <2>1, <2>4 DEF TaskInv, WillCas, Covered, Begun, At
      <3>2. pc \in {"exit", "recheck", "bump"}
        BY <2>2, <2>4 DEF AfterWait
      <3>3. QED
        BY <1>1, <2>1, <2>3, <3>1, <3>2, RowKept DEF At
    <2>5. CASE ~Candidate(r) \/ task[r].stage = "promote"
      <3>1. pc \in {"exit", "recheck", "drop", "publish"}
        BY <2>2, <2>5 DEF AfterWait
      <3>2. ~WillCas(r)'
        BY <2>3, <3>1 DEF WillCas, At
      <3>3. QED
        BY <1>1, <2>1, <2>3, <3>1, <3>2, RowKept DEF At
    <2>6. QED
      BY <2>4, <2>5
  <1>13. CASE \/ Recheck(r) \/ DropCandidate(r) \/ FailDrop(r)
              \/ FailClear(r) \/ ClearCandidate(r)
    <2>1. /\ task[r].pc \in {"recheck", "drop", "faildrop", "failclear",
                              "clear"}
          /\ UNCHANGED rows
          /\ \/ Goto(r, "exit") \/ Goto(r, "faildrop") \/ Goto(r, "publish")
             \/ Goto(r, "failclear")
             \/ Finish(r, "failed") \/ Finish(r, "succeeded")
      BY <1>13 DEF Recheck, DropCandidate, FailDrop, FailClear,
                   ClearCandidate, store, At
    <2>2. /\ task'[r].pc \in {"exit", "faildrop", "publish", "failclear",
                               "read"}
          /\ task'[r].held = task[r].held
      BY <1>1, <2>1, Locals
    <2>3. QED
      BY <1>1, <2>1, <2>2, RowKept DEF WillCas, At
  <1>14. CASE Publish(r)
    <2>1. plan[r].strategy \in {"rolling", "candidate", "external"}
      BY <1>1 DEF TypeOK, StoreTypeOK, Plan, Strategy
    <2>2. /\ UNCHANGED rows
          /\ \/ Goto(r, "exit") /\ plan[r].strategy = "external"
             \/ /\ Finish(r, "succeeded") \/ Goto(r, "clear")
                /\ plan[r].strategy # "external"
      BY <1>14, <2>1 DEF Publish
    <2>3. /\ \/ task'[r].pc = "exit" /\ plan[r].strategy = "external"
             \/ /\ task'[r].pc \in {"read", "clear"}
                /\ plan[r].strategy # "external"
          /\ task'[r].held = task[r].held
      BY <1>1, <2>2, Locals
    <2>4. QED
      BY <1>1, <2>2, <2>3, RowKept DEF WillCas, At
  <1>15. CASE CompleteRead(r)
    <2>1. At(r, "read") /\ UNCHANGED rows
      BY <1>15 DEF CompleteRead, store
    <2>2. CASE Goto(r, AfterComplete(r))
      <3>1. /\ task'[r].pc \in {"rollback", "exit"}
            /\ task'[r].held = task[r].held
        BY <1>1, <2>2, Locals DEF AfterComplete
      <3>2. QED
        BY <1>1, <2>1, <3>1, RowKept DEF WillCas, At
    <2>3. CASE IsLive(r) /\ Become(r, [task[r] EXCEPT !.pc = "complete",
                                                     !.held = version[r]])
      <3>1. task'[r].pc = "complete" /\ task'[r].held = version[r]
        BY <1>1, <2>3, LocalsHeld
      <3>2. Guards(r, task'[r].held, Live)
        BY <1>1, <2>3, <3>1 DEF Guards, IsLive
      <3>3. QED
        BY <1>1, <2>1, <3>1, <3>2, RowKept DEF At
    <2>4. QED
      BY <1>15, <2>2, <2>3 DEF CompleteRead
  <1>16. CASE Complete(r)
    <2>1. At(r, "complete")
      BY <1>16 DEF Complete
    <2>2. CASE Cas(r, task[r].held, task[r].goal) /\ Goto(r, AfterComplete(r))
      <3>1. /\ task'[r].pc \in {"rollback", "exit"}
            /\ task'[r].held = task[r].held
        BY <1>1, <2>2, Locals DEF AfterComplete
      <3>2. task[r].goal \in {"succeeded", "failed"}
        BY <1>1 DEF TypeOK, ExecutorTypeOK, Task
      <3>3. QED
        BY <2>2, <3>1, <3>2, RowWritten
    <2>3. CASE UNCHANGED rows /\ Goto(r, AfterComplete(r))
      <3>1. /\ task'[r].pc \in {"rollback", "exit"}
            /\ task'[r].held = task[r].held
        BY <1>1, <2>3, Locals DEF AfterComplete
      <3>2. QED
        BY <1>1, <2>1, <2>3, <3>1, RowKept DEF WillCas, At
    <2>4. CASE /\ UNCHANGED rows
               /\ Become(r, [task[r] EXCEPT !.pc = "read", !.tries = @ + 1])
      <3>1. task'[r].pc = "read" /\ task'[r].held = task[r].held
        <4>1. task'[r] = [task[r] EXCEPT !.pc = "read", !.tries = @ + 1]
          BY <1>1, <2>4, Become1
        <4>2. task[r] \in Task
          BY <1>1 DEF TypeOK, ExecutorTypeOK
        <4>3. QED
          BY <4>1, <4>2 DEF Task
      <3>2. QED
        BY <1>1, <2>1, <2>4, <3>1, RowKept DEF WillCas, At
    <2>5. QED
      BY <1>16, <2>2, <2>3, <2>4 DEF Complete
  <1>17. CASE CompleteExternal(r)
    <2>1. /\ At(r, "external") /\ Goto(r, "publish")
          /\ Cas(r, task[r].held, "succeeded") \/ UNCHANGED rows
      BY <1>17 DEF CompleteExternal
    <2>2. task'[r].pc = "publish" /\ task'[r].held = task[r].held
      BY <1>1, <2>1, Locals
    <2>3. plan[r].strategy = "external"
      BY <1>1, <2>1 DEF TaskInv
    <2>4. QED
      BY <1>1, <2>1, <2>2, <2>3, RowKept, RowWritten DEF WillCas, At
  <1>18. QED
    BY <1>2, <1>3, <1>4, <1>5, <1>6, <1>7, <1>8, <1>9, <1>10, <1>11, <1>12,
       <1>13, <1>14, <1>15, <1>16, <1>17 DEF Run, Execute

-----------------------------------------------------------------------------
(* What others read of a row stays a fact about it.                        *)

\* The three things a step may do to the row of r.
Kept(r) == status'[r] = status[r] /\ version'[r] = version[r]
                                  /\ plan'[r] = plan[r]
Written(r) == /\ status'[r] \in Live \cup Final
              /\ version'[r] = version[r] + 1
              /\ plan'[r] = plan[r]
Inserted(r) == status[r] = "none" /\ version'[r] = version[r]

LEMMA GuardsStay ==
    ASSUME LockInv, NEW r \in Release, Kept(r) \/ Written(r) \/ Inserted(r),
           NEW v \in Nat, NEW S, "none" \notin S, Guards(r, v, S)
    PROVE  Guards(r, v, S)'
  <1>1. version[r] \in Nat /\ (status[r] = "none" => version[r] = 0)
    BY DEF LockInv, TypeOK, StoreTypeOK, TaskInv
  <1>2. QED
    BY <1>1 DEF Guards, Kept, Written, Inserted

LEMMA StartedStays ==
    ASSUME NEW r \in Release, Kept(r) \/ Written(r) \/ Inserted(r), Started(r)
    PROVE  Started(r)' /\ plan'[r] = plan[r]
  BY DEF Started, Kept, Written, Inserted, Live, Final

\* A handler that makes no move keeps its invariant, whatever rows do and
\* whatever goroutines are started, but for the one it is about to start.
LEMMA HandlerStays ==
    ASSUME LockInv, NEW h \in Handlers, api'[h] = api[h],
           \A r \in Release : Kept(r) \/ Written(r) \/ Inserted(r),
           \A r \in Release : In(h, "xreread") /\ api[h].rel = r /\ At(r, "idle")
                               => At(r, "idle")'
    PROVE  HandlerInv(h)'
  <1> DEFINE c == api[h]
  <1>1. HandlerInv(h) /\ c \in Api
    BY DEF LockInv, TypeOK
  <1>2. c.todo \subseteq Release /\ c.held \in Nat
        /\ (c.rel # NoRelease => c.rel \in Release)
    BY <1>1 DEF Api, ReleaseOrNone, NoRelease
  <1>3. \A r \in c.todo : Started(r)'
    BY <1>1, <1>2, StartedStays DEF HandlerInv
  <1>4. c.pc = "icas" => c.rel # NoRelease /\ Started(c.rel)'
    BY <1>1, <1>2, StartedStays DEF HandlerInv
  <1>5. c.pc \in {"acas", "pscale", "pcas", "rscale", "rcas", "xcas"}
           => c.rel # NoRelease /\ Guards(c.rel, c.held, ReadBefore(c.pc))'
    <2>1. SUFFICES ASSUME c.pc \in {"acas", "pscale", "pcas", "rscale", "rcas",
                                    "xcas"}
                   PROVE  /\ c.rel # NoRelease
                          /\ Guards(c.rel, c.held, ReadBefore(c.pc))'
      OBVIOUS
    <2>2. c.rel # NoRelease /\ Guards(c.rel, c.held, ReadBefore(c.pc))
      BY <1>1, <2>1 DEF HandlerInv
    <2>3. "none" \notin ReadBefore(c.pc)
      BY <2>1 DEF ReadBefore, Live
    <2>4. Guards(c.rel, c.held, ReadBefore(c.pc))'
      <3>1. PICK S : S = ReadBefore(c.pc)
        OBVIOUS
      <3>2. Guards(c.rel, c.held, S)'
        BY <1>2, <2>2, <2>3, <3>1, GuardsStay
      <3>3. QED
        BY <3>1, <3>2 DEF ReadBefore, Guards
    <2>5. QED
      BY <2>2, <2>4
  <1>6. c.pc \in {"xcas", "xreread"} => c.rel # NoRelease /\ plan'[c.rel].gated
    <2>1. CASE c.pc = "xreread"
      BY <1>1, <1>2, <2>1, StartedStays DEF HandlerInv
    <2>2. CASE c.pc = "xcas"
      <3>1. /\ c.rel # NoRelease /\ c.rel \in Release /\ plan[c.rel].gated
            /\ Guards(c.rel, c.held, {"pending_approval"})
        BY <1>1, <1>2, <2>2 DEF HandlerInv, ReadBefore
      <3>2. status[c.rel] # "none"
        <4>1. status[c.rel] = "none" => version[c.rel] = 0
          BY <3>1 DEF LockInv, TaskInv
        <4>2. QED
          BY <1>2, <3>1, <4>1 DEF Guards
      <3>3. QED
        BY <3>1, <3>2 DEF Kept, Written, Inserted
    <2>3. QED
      BY <2>1, <2>2
  <1>7. c.pc = "xreread" => Started(c.rel)' /\ At(c.rel, "idle")'
    BY <1>1, <1>2, StartedStays DEF HandlerInv, In
  <1>8. QED
    BY <1>1, <1>3, <1>4, <1>5, <1>6, <1>7 DEF HandlerInv, ReadBefore

\* A goroutine that makes no move keeps its invariant, too.
LEMMA TaskStays ==
    ASSUME LockInv, NEW r \in Release, task'[r] = task[r],
           \/ Kept(r)
           \/ Written(r) /\ status'[r] \notin {"succeeded", "failed"}
    PROVE  TaskInv(r)'
  <1>1. /\ TaskInv(r) /\ version[r] \in Nat /\ task[r].held \in Nat
        /\ plan'[r] = plan[r]
    BY DEF LockInv, TypeOK, StoreTypeOK, ExecutorTypeOK, Task, Kept, Written
  <1>2. (WillCas(r)' <=> WillCas(r)) /\ (Covered(r)' <=> Covered(r))
    BY <1>1 DEF WillCas, Covered, Begun, At, Candidate
  <1>3. WillCas(r) /\ Covered(r) => Guards(r, task[r].held, Live)'
    <2>1. Live \cap {"none"} = {}
      BY DEF Live
    <2>2. QED
      BY <1>1, <2>1, GuardsStay DEF TaskInv
  <1>4. CASE Kept(r)
    BY <1>1, <1>2, <1>3, <1>4 DEF TaskInv, Kept, At, Guards
  <1>5. CASE Written(r) /\ status'[r] \notin {"succeeded", "failed"}
    BY <1>1, <1>2, <1>3, <1>5 DEF TaskInv, Written, At, Live, Final, Guards
  <1>6. QED
    BY <1>4, <1>5

-----------------------------------------------------------------------------
(* LockInv is inductive: goroutines.                                       *)

LEMMA RunInv ==
    ASSUME LockInv, NEW r \in Release, Run(r)
    PROVE  LockInv'
  <1>1. TypeOK /\ api' = api
    BY DEF LockInv, Run
  <1>2. \A q \in Release : q # r => Kept(q) /\ task'[q] = task[q]
    BY <1>1, RunOther DEF Kept
  <1>3. Kept(r) \/ Written(r)
    <2>1. CASE UNCHANGED rows
      BY <2>1 DEF rows, Kept
    <2>2. ASSUME NEW s \in {"running", "succeeded", "failed"},
                 Cas(r, task[r].held, s)
          PROVE  Written(r)
      BY <1>1, <2>2, Cas1 DEF Written, Live, Final
    <2>3. QED
      BY <1>1, <2>1, <2>2, RunRows
  <1>4. \A q \in Release : TaskInv(q)'
    BY <1>2, TaskStays, RunTaskInv
  <1>5. \A h \in Handlers : HandlerInv(h)'
    <2>1. \A q \in Release : At(q, "idle") => At(q, "idle")'
      BY <1>2, RunStarted DEF At
    <2>2. QED
      BY <1>1, <1>2, <1>3, <2>1, HandlerStays
  <1>6. LaunchInv'
    BY <1>1 DEF LockInv, LaunchInv, In
  <1>7. QED
    BY <1>1, <1>4, <1>5, <1>6, RunTyped DEF LockInv

-----------------------------------------------------------------------------
(* LockInv is inductive: handlers.                                         *)

LEMMA Put1 ==
    ASSUME TypeOK, NEW h \in Handlers, NEW c, Put(h, c)
    PROVE  /\ api'[h] = c
           /\ \A k \in Handlers : k # h => api'[k] = api[k]
  BY DEF Put, TypeOK

LEMMA ServePuts ==
    ASSUME NEW h \in Handlers, Serve(h)
    PROVE  \E c : Put(h, c)
  <1> USE DEF Step, Return
  <1>1. CASE Sweep(h) \/ Unmark(h) \/ List(h) \/ NextInterrupt(h)
    BY <1>1 DEF Sweep, Unmark, List, NextInterrupt
  <1>2. CASE Interrupt(h) \/ Number(h) \/ Create(h) \/ CreateApproval(h)
    BY <1>2 DEF Interrupt, Number, Create, CreateApproval
  <1>3. CASE PendingRead(h) \/ PendingRun(h) \/ PendingLaunch(h)
    BY <1>3 DEF PendingRead, PendingRun, PendingLaunch
  <1>4. CASE Scale(h) \/ Decide(h)
    BY <1>4 DEF Scale, Decide
  <1>5. QED
    BY <1>1, <1>2, <1>3, <1>4 DEF Serve

\* The row of every release after a step of handler h.
LEMMA ServeWrites ==
    ASSUME LockInv, NEW h \in Handlers, Serve(h), NEW r \in Release
    PROVE  \/ Kept(r)
           \/ /\ r = api[h].rel /\ Written(r)
              /\ status'[r] \in {"running", "paused", "aborted", "interrupted"}
           \/ /\ r = api[h].rel /\ Inserted(r) /\ In(h, "insert")
              /\ plan'[r] = api[h].want
              /\ status'[r] = IF api[h].want.gated THEN "pending_approval"
                                                   ELSE "running"
  <1>1. TypeOK
    BY DEF LockInv
  <1>2. CASE UNCHANGED rows
    BY <1>2 DEF rows, Kept
  <1>3. ASSUME NEW s \in {"running", "paused", "aborted", "interrupted"},
               Cas(api[h].rel, api[h].held, s)
        PROVE  \/ Kept(r)
               \/ /\ r = api[h].rel /\ Written(r)
                  /\ status'[r] \in {"running", "paused", "aborted",
                                     "interrupted"}
    <2>1. CASE r = api[h].rel
      BY <1>1, <1>3, <2>1, Cas1 DEF Written, Live, Final
    <2>2. CASE r # api[h].rel
      BY <1>1, <1>3, <2>2 DEF Cas, Kept, TypeOK, StoreTypeOK
    <2>3. QED
      BY <2>1, <2>2
  <1>4. ASSUME NEW s, NEW p, Insert(api[h].rel, s, p)
        PROVE  \/ Kept(r)
               \/ /\ r = api[h].rel /\ Inserted(r)
                  /\ status'[r] = s /\ plan'[r] = p
    BY <1>1, <1>4 DEF Insert, Inserted, Kept, TypeOK, StoreTypeOK
  <1>5. api[h].pc \in {"acas", "pcas", "rcas"} =>
           Verdict(api[h].pc) \in {"running", "paused", "aborted"}
    BY DEF Verdict
  <1>6. QED
    BY <1>2, <1>3, <1>4, <1>5, ServeRows

\* The goroutine of every release after it.
LEMMA ServeStarts ==
    ASSUME LockInv, NEW h \in Handlers, Serve(h), NEW r \in Release
    PROVE  \/ task'[r] = task[r]
           \/ /\ r = api[h].rel /\ api[h].rel \in Release
              /\ task'[r].held = version[r] /\ task'[r].stage = "render"
              /\ \/ /\ In(h, "insert") /\ Inserted(r) /\ ~api[h].want.gated
                    /\ task'[r].pc = IF api[h].want.strategy = "external"
                                     THEN "external" ELSE "prepare"
                 \/ /\ In(h, "xreread") /\ Kept(r)
                    /\ task'[r].pc = IF plan[r].strategy = "external"
                                     THEN "external" ELSE "prepare"
  <1>1. TypeOK /\ (status[r] = "none" => version[r] = 0)
    BY DEF LockInv, TaskInv
  <1>2. ASSUME NEW s, NEW v, NEW b, Launch(api[h].rel, s, v, b),
               api[h].rel \in Release
        PROVE  \/ task'[r] = task[r]
               \/ /\ r = api[h].rel /\ task'[r].held = v
                  /\ task'[r].stage = "render"
                  /\ task'[r].pc = IF s = "external" THEN "external"
                                                    ELSE "prepare"
    BY <1>1, <1>2 DEF Launch, Become, TypeOK, ExecutorTypeOK, NoTask
  <1>3. CASE UNCHANGED task
    BY <1>3
  <1>4. CASE /\ In(h, "insert") /\ ~api[h].want.gated
             /\ Insert(api[h].rel, "running", api[h].want)
             /\ Launch(api[h].rel, api[h].want.strategy, 0, api[h].base)
    <2>1. api[h].rel \in Release
      BY <1>4, HandledRelease DEF In
    <2>2. r = api[h].rel => Inserted(r)
      BY <1>4 DEF Insert, Inserted
    <2>3. QED
      BY <1>1, <1>2, <1>4, <2>1, <2>2 DEF Inserted
  <1>5. CASE /\ In(h, "xreread")
             /\ UNCHANGED rows
             /\ Launch(api[h].rel, plan[api[h].rel].strategy,
                       version[api[h].rel], api[h].base)
    <2>1. api[h].rel \in Release
      BY <1>5, HandledRelease DEF In
    <2>2. Kept(r)
      BY <1>5 DEF rows, Kept
    <2>3. QED
      BY <1>2, <1>5, <2>1, <2>2
  <1>6. QED
    BY <1>3, <1>4, <1>5, ServeTask

LEMMA ServeTaskInv ==
    ASSUME LockInv, NEW h \in Handlers, Serve(h), NEW r \in Release
    PROVE  TaskInv(r)'
  <1>1. /\ TaskInv(r) /\ HandlerInv(h)
        /\ version[r] \in Nat
    BY DEF LockInv, TypeOK, StoreTypeOK
  <1>2. CASE task'[r] = task[r] /\ ~(Inserted(r) /\ In(h, "insert"))
    BY <1>2, ServeWrites, TaskStays
  <1>3. CASE task'[r] = task[r] /\ Inserted(r) /\ In(h, "insert")
    <2>1. CASE Kept(r)
      BY <1>3, <2>1, TaskStays
    <2>2. CASE ~Kept(r)
      <3>1. /\ r = api[h].rel /\ plan'[r] = api[h].want
            /\ status'[r] = IF api[h].want.gated THEN "pending_approval"
                                                 ELSE "running"
        BY <1>1, <1>3, <2>2, ServeWrites DEF Inserted, Written
      <3>2. At(r, "idle") /\ version[r] = 0 /\ version'[r] = 0
        BY <1>1, <1>3 DEF TaskInv, Inserted
      <3>3. QED
        BY <1>1, <1>3, <3>1, <3>2 DEF TaskInv, WillCas, At, Inserted
    <2>3. QED
      BY <2>1, <2>2
  <1>4. CASE task'[r] # task[r] /\ In(h, "insert")
    <2>1. /\ r = api[h].rel /\ Inserted(r) /\ ~api[h].want.gated
          /\ task'[r].held = version[r] /\ task'[r].stage = "render"
          /\ task'[r].pc = IF api[h].want.strategy = "external"
                           THEN "external" ELSE "prepare"
      BY <1>4, ServeStarts DEF In
    <2>2. plan'[r] = api[h].want /\ status'[r] = "running"
      <3>1. CASE Kept(r)
        <4>1. UNCHANGED task \/ Insert(api[h].rel, "running", api[h].want)
          BY <1>4, ServeTask DEF In
        <4>2. Insert(api[h].rel, "running", api[h].want)
          BY <1>4, <4>1
        <4>3. QED
          BY <2>1, <4>2 DEF Insert, LockInv, TypeOK, StoreTypeOK
      <3>2. CASE ~Kept(r)
        BY <1>1, <2>1, <3>2, ServeWrites DEF Inserted, Written
      <3>3. QED
        BY <3>1, <3>2
    <2>3. QED
      BY <1>1, <2>1, <2>2 DEF TaskInv, Inserted, WillCas, At, Guards, Live
  <1>5. CASE task'[r] # task[r] /\ ~In(h, "insert")
    <2>1. /\ r = api[h].rel /\ In(h, "xreread") /\ Kept(r)
          /\ task'[r].held = version[r] /\ task'[r].stage = "render"
          /\ task'[r].pc = IF plan[r].strategy = "external"
                           THEN "external" ELSE "prepare"
      BY <1>5, ServeStarts
    <2>2. Started(r) /\ At(r, "idle") /\ plan[r].gated
      BY <1>1, <2>1 DEF HandlerInv, In
    <2>3. QED
      BY <1>1, <2>1, <2>2 DEF TaskInv, Kept, Started, Covered, Begun, At
  <1>6. QED
    BY <1>2, <1>3, <1>4, <1>5

\* A handler in a step that holds nothing it read but a list of releases.
Easy == {"idle", "sweep", "unmark", "list", "iread", "number", "approval"}

LEMMA EasyInv ==
    ASSUME NEW h \in Handlers, api'[h].pc \in Easy,
           \A r \in api'[h].todo : Started(r)'
    PROVE  HandlerInv(h)'
  BY DEF HandlerInv, Easy

LEMMA EasyStep ==
    ASSUME LockInv, NEW h \in Handlers, NEW pc \in Easy, Step(h, pc) \/ Return(h),
           \A r \in api[h].todo : Started(r)'
    PROVE  HandlerInv(h)'
  <1>1. TypeOK /\ api[h] \in Api
    BY DEF LockInv, TypeOK
  <1>2. CASE Return(h)
    <2>1. api'[h].pc = "idle" /\ api'[h].todo = {}
      BY <1>1, <1>2, Put1 DEF Return, NoCall
    <2>2. QED
      BY <2>1, EasyInv DEF Easy
  <1>3. CASE Step(h, pc)
    <2>1. api'[h] = [api[h] EXCEPT !.pc = pc]
      BY <1>1, <1>3, Put1 DEF Step
    <2>2. api'[h].pc = pc /\ api'[h].todo = api[h].todo
      BY <1>1, <2>1 DEF Api
    <2>3. QED
      BY <2>2, EasyInv
  <1>4. QED
    BY <1>2, <1>3

LEMMA ServeOwn ==
    ASSUME LockInv, NEW h \in Handlers, Serve(h)
    PROVE  HandlerInv(h)'
  <1>1. TypeOK /\ HandlerInv(h) /\ api[h] \in Api
    BY DEF LockInv, TypeOK
  <1>2. \A r \in api[h].todo : Started(r)'
    <2>1. \A r \in api[h].todo : r \in Release /\ Started(r)
      BY <1>1 DEF HandlerInv, Api
    <2>2. \A r \in Release : Kept(r) \/ Written(r) \/ Inserted(r)
      BY ServeWrites
    <2>3. QED
      BY <2>1, <2>2, StartedStays
  <1>3. CASE Sweep(h) \/ Unmark(h) \/ CreateApproval(h) \/ PendingLaunch(h)
             \/ Decide(h) \/ Create(h)
    <2>1. \/ Return(h) \/ Step(h, "unmark") \/ Step(h, "list")
          \/ Step(h, "approval")
      BY <1>3
      DEF Sweep, Unmark, CreateApproval, PendingLaunch, Decide, Create
    <2>2. {"unmark", "list", "approval"} \subseteq Easy
      BY DEF Easy
    <2>3. QED
      BY <1>2, <2>1, <2>2, EasyStep
  <1>4. CASE List(h)
    <2>1. api'[h] = [api[h] EXCEPT !.pc = "iread", !.tries = 0,
                                   !.todo = InStatus(api[h].scan)]
      BY <1>1, <1>4, Put1 DEF List
    <2>2. api'[h].pc = "iread" /\ api'[h].todo = InStatus(api[h].scan)
      BY <1>1, <2>1 DEF Api
    <2>3. \A r \in InStatus(api[h].scan) : Started(r)'
      BY <1>1, <1>4 DEF List, store, rows, InStatus, Started, Api, Live
    <2>4. QED
      BY <2>2, <2>3, EasyInv DEF Easy
  <1>5. CASE NextInterrupt(h)
    <2>1. ASSUME NEW r \in api[h].todo,
                 Put(h, [api[h] EXCEPT !.pc = "icas", !.rel = r,
                                       !.held = version[r]])
          PROVE  HandlerInv(h)'
      <3>1. api'[h] = [api[h] EXCEPT !.pc = "icas", !.rel = r,
                                     !.held = version[r]]
        BY <1>1, <2>1, Put1
      <3>2. /\ api'[h].pc = "icas" /\ api'[h].rel = r
            /\ api'[h].todo = api[h].todo
        BY <1>1, <3>1 DEF Api
      <3>3. r # NoRelease
        BY <1>1 DEF Api, Release, NoRelease
      <3>4. QED
        BY <1>2, <2>1, <3>2, <3>3 DEF HandlerInv
    <2>2. CASE Put(h, [api[h] EXCEPT !.pc = "list", !.scan = "paused"])
      <3>1. api'[h] = [api[h] EXCEPT !.pc = "list", !.scan = "paused"]
        BY <1>1, <2>2, Put1
      <3>2. api'[h].pc = "list" /\ api'[h].todo = api[h].todo
        BY <1>1, <3>1 DEF Api
      <3>3. QED
        BY <1>2, <3>2, EasyInv DEF Easy
    <2>3. CASE Step(h, "number")
      BY <1>2, <2>3, EasyStep DEF Easy
    <2>4. QED
      BY <1>5, <2>1, <2>2, <2>3 DEF NextInterrupt
  <1>6. CASE Interrupt(h)
    <2>1. CASE api'[h] = [api[h] EXCEPT !.pc = "iread",
                                        !.todo = @ \ {api[h].rel}, !.tries = 0]
      <3>1. api'[h].pc = "iread" /\ api'[h].todo \subseteq api[h].todo
        BY <1>1, <2>1 DEF Api
      <3>2. QED
        BY <1>2, <3>1, EasyInv DEF Easy
    <2>2. CASE api'[h] = [api[h] EXCEPT !.pc = "iread", !.tries = @ + 1]
      <3>1. api'[h].pc = "iread" /\ api'[h].todo = api[h].todo
        BY <1>1, <2>2 DEF Api
      <3>2. QED
        BY <1>2, <3>1, EasyInv DEF Easy
    <2>3. QED
      BY <1>1, <1>6, <2>1, <2>2, Put1 DEF Interrupt
  <1>7. CASE Number(h)
    <2>1. CASE Return(h)
      BY <1>2, <2>1, EasyStep DEF Easy
    <2>2. ASSUME NextNumber \in Release, NEW w,
                 Put(h, [api[h] EXCEPT !.pc = "insert", !.rel = NextNumber,
                                       !.want = w])
          PROVE  HandlerInv(h)'
      <3>1. api'[h] = [api[h] EXCEPT !.pc = "insert", !.rel = NextNumber,
                                     !.want = w]
        BY <1>1, <2>2, Put1
      <3>2. /\ api'[h].pc = "insert" /\ api'[h].rel = NextNumber
            /\ api'[h].todo = api[h].todo
        BY <1>1, <3>1 DEF Api
      <3>3. NextNumber # NoRelease
        BY <2>2 DEF Release, NoRelease
      <3>4. QED
        BY <1>2, <3>2, <3>3 DEF HandlerInv
    <2>3. QED
      BY <1>7, <2>1, <2>2 DEF Number
  <1>8. CASE PendingRead(h)
    <2>1. CASE Return(h)
      BY <1>2, <2>1, EasyStep DEF Easy
    <2>2. CASE /\ status[api[h].rel] = "pending_approval"
               /\ Put(h, [api[h] EXCEPT !.pc = "xcas", !.base = current,
                                        !.held = version[api[h].rel]])
      <3>1. /\ api[h].rel \in Release /\ api[h].rel # NoRelease
            /\ UNCHANGED rows
        BY <1>1, <1>8, HandledRelease DEF PendingRead, In, HandlerInv, store
      <3>2. api'[h] = [api[h] EXCEPT !.pc = "xcas", !.base = current,
                                     !.held = version[api[h].rel]]
        BY <1>1, <2>2, Put1
      <3>3. /\ api'[h].pc = "xcas" /\ api'[h].rel = api[h].rel
            /\ api'[h].todo = api[h].todo
            /\ api'[h].held = version[api[h].rel]
        BY <1>1, <3>2 DEF Api
      <3>4. plan[api[h].rel].gated /\ version[api[h].rel] \in Nat
        BY <1>1, <2>2, <3>1 DEF LockInv, TaskInv, TypeOK, StoreTypeOK
      <3>5. Guards(api[h].rel, version[api[h].rel], {"pending_approval"})
        BY <2>2, <3>4 DEF Guards
      <3>6. QED
        BY <1>2, <3>1, <3>3, <3>4, <3>5 DEF HandlerInv, ReadBefore, Guards, rows
    <2>3. QED
      BY <1>8, <2>1, <2>2 DEF PendingRead
  <1>9. CASE PendingRun(h)
    <2>1. CASE Return(h)
      BY <1>2, <2>1, EasyStep DEF Easy
    <2>2. CASE Cas(api[h].rel, api[h].held, "running") /\ Step(h, "xreread")
      <3>1. /\ api[h].rel # NoRelease /\ api[h].rel \in Release
            /\ plan[api[h].rel].gated
            /\ Guards(api[h].rel, api[h].held, {"pending_approval"})
        BY <1>1, <1>9, HandledRelease DEF PendingRun, In, HandlerInv, ReadBefore
      <3>2. /\ status'[api[h].rel] = "running" /\ plan'[api[h].rel].gated
            /\ version[api[h].rel] = api[h].held
        BY <1>1, <2>2, <3>1, Cas1
      <3>3. status[api[h].rel] = "pending_approval"
        BY <3>1, <3>2 DEF Guards
      <3>4. At(api[h].rel, "idle") /\ UNCHANGED task
        BY <1>9, <3>1, <3>3 DEF LockInv, TaskInv, PendingRun, executor
      <3>5. api'[h] = [api[h] EXCEPT !.pc = "xreread"]
        BY <1>1, <2>2, Put1 DEF Step
      <3>6. /\ api'[h].pc = "xreread" /\ api'[h].rel = api[h].rel
            /\ api'[h].todo = api[h].todo
        BY <1>1, <3>5 DEF Api
      <3>7. QED
        BY <1>2, <3>1, <3>2, <3>4, <3>6 DEF HandlerInv, Started, At
    <2>3. QED
      BY <1>9, <2>1, <2>2 DEF PendingRun
  <1>10. CASE Scale(h)
    <2>1. PICK pc \in {"pcas", "rcas"} :
             /\ api[h].pc = IF pc = "pcas" THEN "pscale" ELSE "rscale"
             /\ Step(h, pc) /\ UNCHANGED rows
      BY <1>10 DEF Scale, In
    <2>2. api'[h] = [api[h] EXCEPT !.pc = pc]
      BY <1>1, <2>1, Put1 DEF Step
    <2>3. /\ api'[h].pc = pc /\ api'[h].rel = api[h].rel
          /\ api'[h].todo = api[h].todo /\ api'[h].held = api[h].held
      BY <1>1, <2>2 DEF Api
    <2>4. /\ api[h].rel # NoRelease
          /\ Guards(api[h].rel, api[h].held, ReadBefore(pc))
      BY <1>1, <2>1 DEF HandlerInv, ReadBefore
    <2>5. QED
      BY <1>2, <2>1, <2>3, <2>4 DEF HandlerInv, ReadBefore, Guards, rows
  <1>11. QED
    BY <1>3, <1>4, <1>5, <1>6, <1>7, <1>8, <1>9, <1>10 DEF Serve

\* Two handlers never start the same goroutine: only the one whose CAS took
\* the release out of pending_approval gets there.
LEMMA ServeLaunch ==
    ASSUME LockInv, NEW h \in Handlers, Serve(h)
    PROVE  LaunchInv'
  <1>1. TypeOK /\ LaunchInv /\ \A k \in Handlers : HandlerInv(k)
    BY DEF LockInv
  <1>2. \A k \in Handlers : k # h => api'[k] = api[k]
    BY <1>1, ServePuts, Put1
  <1>3. CASE ~(PendingRun(h) /\ Step(h, "xreread"))
    <2>1. api'[h].pc # "xreread"
      <3>1. api[h] \in Api
        BY <1>1 DEF TypeOK
      <3>2. ASSUME NEW c, Put(h, c), c.pc # "xreread"
            PROVE  api'[h].pc # "xreread"
        BY <1>1, <3>2, Put1
      <3>3. ASSUME NEW pc, pc # "xreread", Step(h, pc) \/ Return(h)
            PROVE  api'[h].pc # "xreread"
        <4>1. CASE Return(h)
          BY <3>2, <4>1 DEF Return, NoCall
        <4>2. CASE Step(h, pc)
          BY <3>1, <3>2, <3>3, <4>2 DEF Step, Api
        <4>3. QED
          BY <3>3, <4>1, <4>2
      <3>4. CASE \/ Sweep(h) \/ Unmark(h) \/ Create(h) \/ CreateApproval(h)
                 \/ PendingRun(h) \/ PendingLaunch(h) \/ Scale(h) \/ Decide(h)
        <4>1. \E pc : pc # "xreread" /\ (Step(h, pc) \/ Return(h))
          <5>1. \/ Return(h) \/ Step(h, "unmark") \/ Step(h, "list")
                \/ Step(h, "approval") \/ Step(h, "pcas") \/ Step(h, "rcas")
            BY <1>3, <3>4 DEF Sweep, Unmark, Create, CreateApproval,
                              PendingRun, PendingLaunch, Scale, Decide
          <5>2. QED
            BY <5>1
        <4>2. QED
          BY <3>3, <4>1
      <3>5. CASE List(h)
        <4>1. [api[h] EXCEPT !.pc = "iread", !.tries = 0,
                             !.todo = InStatus(api[h].scan)].pc # "xreread"
          BY <3>1 DEF Api
        <4>2. QED
          BY <3>2, <3>5, <4>1 DEF List
      <3>6. CASE NextInterrupt(h)
        <4>1. CASE Step(h, "number")
          BY <3>3, <4>1
        <4>2. ASSUME NEW r, Put(h, [api[h] EXCEPT !.pc = "icas", !.rel = r,
                                                  !.held = version[r]])
              PROVE  api'[h].pc # "xreread"
          <5>1. [api[h] EXCEPT !.pc = "icas", !.rel = r,
                               !.held = version[r]].pc # "xreread"
            BY <3>1 DEF Api
          <5>2. QED
            BY <3>2, <4>2, <5>1
        <4>3. CASE Put(h, [api[h] EXCEPT !.pc = "list", !.scan = "paused"])
          <5>1. [api[h] EXCEPT !.pc = "list", !.scan = "paused"].pc # "xreread"
            BY <3>1 DEF Api
          <5>2. QED
            BY <3>2, <4>3, <5>1
        <4>4. QED
          BY <3>6, <4>1, <4>2, <4>3 DEF NextInterrupt
      <3>7. CASE Interrupt(h)
        <4>1. [api[h] EXCEPT !.pc = "iread", !.todo = @ \ {api[h].rel},
                             !.tries = 0].pc # "xreread"
          BY <3>1 DEF Api
        <4>2. [api[h] EXCEPT !.pc = "iread", !.tries = @ + 1].pc # "xreread"
          BY <3>1 DEF Api
        <4>3. QED
          BY <3>2, <3>7, <4>1, <4>2 DEF Interrupt
      <3>8. CASE Number(h)
        <4>1. ASSUME NEW w, Put(h, [api[h] EXCEPT !.pc = "insert",
                                                  !.rel = NextNumber,
                                                  !.want = w])
              PROVE  api'[h].pc # "xreread"
          <5>1. [api[h] EXCEPT !.pc = "insert", !.rel = NextNumber,
                               !.want = w].pc # "xreread"
            BY <3>1 DEF Api
          <5>2. QED
            BY <3>2, <4>1, <5>1
        <4>2. CASE Return(h)
          BY <3>3, <4>2
        <4>3. QED
          BY <3>8, <4>1, <4>2 DEF Number
      <3>9. CASE PendingRead(h)
        <4>1. [api[h] EXCEPT !.pc = "xcas", !.base = current,
                             !.held = version[api[h].rel]].pc # "xreread"
          BY <3>1 DEF Api
        <4>2. QED
          BY <3>2, <3>3, <3>9, <4>1 DEF PendingRead
      <3>10. QED
        BY <3>4, <3>5, <3>6, <3>7, <3>8, <3>9 DEF Serve
    <2>2. QED
      BY <1>1, <1>2, <2>1 DEF LaunchInv, In
  <1>4. CASE PendingRun(h) /\ Step(h, "xreread")
    <2>1. /\ api[h].rel \in Release
          /\ Guards(api[h].rel, api[h].held, {"pending_approval"})
      BY <1>1, <1>4, HandledRelease DEF PendingRun, In, HandlerInv, ReadBefore
    <2>2. api'[h].rel = api[h].rel
      BY <1>1, <1>4, Put1 DEF Step, TypeOK, Api
    <2>3. Cas(api[h].rel, api[h].held, "running")
      <3>1. CASE Return(h)
        <4>1. api'[h].pc = "idle"
          BY <1>1, <3>1, Put1 DEF Return, NoCall
        <4>2. api'[h].pc = "xreread"
          BY <1>1, <1>4, Put1 DEF Step, TypeOK, Api
        <4>3. QED
          BY <4>1, <4>2
      <3>2. QED
        BY <1>4, <3>1 DEF PendingRun
    <2>4. ~Started(api[h].rel)
      BY <2>1, <2>3 DEF Cas, Guards, Started
    <2>5. \A k \in Handlers : In(k, "xreread") => api[k].rel # api[h].rel
      BY <1>1, <2>4 DEF HandlerInv, In
    <2>6. QED
      BY <1>1, <1>2, <2>2, <2>5 DEF LaunchInv, In
  <1>5. QED
    BY <1>3, <1>4

LEMMA ServeInv ==
    ASSUME LockInv, NEW h \in Handlers, Serve(h)
    PROVE  LockInv'
  <1>1. TypeOK /\ LaunchInv /\ \A k \in Handlers : HandlerInv(k)
    BY DEF LockInv
  <1>2. \A k \in Handlers : k # h => api'[k] = api[k]
    BY <1>1, ServePuts, Put1
  <1>3. \A r \in Release : Kept(r) \/ Written(r) \/ Inserted(r)
    BY ServeWrites
  <1>4. ASSUME NEW k \in Handlers, k # h
        PROVE  HandlerInv(k)'
    <2>1. ASSUME NEW r \in Release, In(k, "xreread"), api[k].rel = r,
                 At(r, "idle")
          PROVE  At(r, "idle")'
      <3>1. CASE task'[r] = task[r]
        BY <2>1, <3>1 DEF At
      <3>2. CASE task'[r] # task[r]
        <4>1. r = api[h].rel /\ (Inserted(r) \/ In(h, "xreread"))
          BY <3>2, ServeStarts
        <4>2. Started(r)
          BY <1>1, <2>1 DEF HandlerInv, In
        <4>3. QED
          BY <1>1, <1>4, <2>1, <4>1, <4>2
          DEF Inserted, Started, LaunchInv
      <3>3. QED
        BY <3>1, <3>2
    <2>2. QED
      BY <1>2, <1>3, <1>4, <2>1, HandlerStays
  <1>5. QED
    BY <1>4, ServeOwn, ServeTaskInv, ServeLaunch, ServeTyped DEF LockInv

-----------------------------------------------------------------------------
(* LockInv is inductive: new requests, crashes.                            *)

LEMMA HandleInv ==
    ASSUME LockInv, NEW h \in Handlers, Handle(h)
    PROVE  LockInv'
  <1>1. /\ TypeOK /\ LaunchInv /\ \A k \in Handlers : HandlerInv(k)
        /\ \A r \in Release : TaskInv(r)
    BY DEF LockInv
  <1> DEFINE Fresh(c) ==
        /\ c.todo = {}
        /\ \/ c.pc \in {"idle", "sweep"}
           \/ c.pc = "xread" /\ c.rel # NoRelease
           \/ /\ c.pc \in {"acas", "pscale", "rscale"} /\ c.rel \in Release
              /\ c.held = version[c.rel]
              /\ status[c.rel] \in ReadBefore(c.pc)
  <1>2. /\ UNCHANGED rows
        /\ \/ UNCHANGED task
           \/ \E r \in Release : At(r, "rollback") /\ Goto(r, "exit")
        /\ api' = api \/ \E c : Fresh(c) /\ Put(h, c)
    <2>1. CASE Trigger(h) \/ Rollback(h)
      <3>1. PICK s, auto : Put(h, TriggerCall(s, auto))
        BY <2>1 DEF Trigger, Rollback, Request
      <3>2. Fresh(TriggerCall(s, auto))
        BY DEF TriggerCall, NoCall
      <3> HIDE DEF Fresh
      <3>3. QED
        BY <2>1, <3>1, <3>2 DEF Trigger, Rollback, store, executor
    <2>2. ASSUME NEW r \in Release, AutoRollback(r, h)
          PROVE  /\ UNCHANGED rows
                 /\ At(r, "rollback") /\ Goto(r, "exit")
                 /\ api' = api \/ \E c : Fresh(c) /\ Put(h, c)
      <3>1. \A s, auto : Fresh(TriggerCall(s, auto))
        BY DEF TriggerCall, NoCall
      <3> HIDE DEF Fresh
      <3>2. QED
        BY <2>2, <3>1 DEF AutoRollback, store
    <2>3. ASSUME NEW r \in Release, Approve(h, r) \/ Reject(h, r)
          PROVE  /\ UNCHANGED <<rows, task>>
                 /\ \E c : Fresh(c) /\ Put(h, c)
      <3>1. Fresh(NoCall) /\ Fresh([NoCall EXCEPT !.pc = "xread", !.rel = r])
        BY DEF NoCall, Release, NoRelease
      <3> HIDE DEF Fresh
      <3>2. QED
        BY <2>3, <3>1 DEF Approve, Reject, Request, store, executor
    <2>4. ASSUME NEW r \in Release, Abort(h, r) \/ Pause(h, r) \/ Resume(h, r)
          PROVE  /\ UNCHANGED <<rows, task>>
                 /\ \E c : Fresh(c) /\ Put(h, c)
      <3>1. PICK pc \in {"acas", "pscale", "rscale"} :
               status[r] \in ReadBefore(pc) /\ Put(h, Reading(pc, r))
        BY <2>4 DEF Abort, Pause, Resume, Request, IsLive, ReadBefore
      <3>2. Fresh(Reading(pc, r))
        BY <3>1 DEF Reading, NoCall
      <3> HIDE DEF Fresh
      <3>3. QED
        BY <2>4, <3>1, <3>2 DEF Abort, Pause, Resume, store, executor
    <2> HIDE DEF Fresh
    <2>5. QED
      BY <2>1, <2>2, <2>3, <2>4 DEF Handle, Trigger, Rollback, executor
  <1>3. \A r \in Release : Kept(r)
    BY <1>2 DEF rows, Kept
  <1>4. ASSUME NEW r \in Release
        PROVE  /\ TaskInv(r)' /\ (At(r, "idle") => At(r, "idle")')
    <2>1. CASE task'[r] = task[r]
      BY <1>3, <2>1, TaskStays DEF At
    <2>2. CASE At(r, "rollback") /\ Goto(r, "exit")
      <3>1. task'[r].pc = "exit" /\ task'[r].held = task[r].held
        BY <1>1, <2>2, Locals
      <3>2. QED
        BY <1>1, <1>3, <2>2, <3>1 DEF TaskInv, Kept, WillCas, At
    <2>3. QED
      BY <1>1, <1>2, <2>1, <2>2 DEF Goto, Become, TypeOK, ExecutorTypeOK
  <1>5. ASSUME NEW k \in Handlers, api'[k] = api[k]
        PROVE  HandlerInv(k)'
    BY <1>3, <1>4, <1>5, HandlerStays
  <1>6. ASSUME NEW c, Fresh(c), Put(h, c)
        PROVE  /\ HandlerInv(h)' /\ ~In(h, "xreread")'
               /\ \A k \in Handlers : k # h => api'[k] = api[k]
    <2>1. api'[h] = c /\ \A k \in Handlers : k # h => api'[k] = api[k]
      BY <1>1, <1>6, Put1
    <2>2. c.pc \in {"acas", "pscale", "rscale"} =>
             c.rel # NoRelease /\ Guards(c.rel, c.held, ReadBefore(c.pc))'
      <3>1. SUFFICES ASSUME c.pc \in {"acas", "pscale", "rscale"}
                     PROVE  /\ c.rel # NoRelease
                            /\ Guards(c.rel, c.held, ReadBefore(c.pc))'
        OBVIOUS
      <3>2. /\ c.rel \in Release /\ c.held = version[c.rel]
            /\ status[c.rel] \in ReadBefore(c.pc)
        BY <1>6, <3>1
      <3>3. version[c.rel] \in Nat /\ c.rel # NoRelease
        BY <1>1, <3>2 DEF TypeOK, StoreTypeOK, Release, NoRelease
      <3>4. QED
        BY <1>2, <3>1, <3>2, <3>3 DEF rows, Guards, ReadBefore
    <2>3. HandlerInv(h)'
      BY <1>6, <2>1, <2>2 DEF HandlerInv, ReadBefore
    <2>4. QED
      BY <1>6, <2>1, <2>3 DEF In
  <1> HIDE DEF Fresh
  <1>7. \A k \in Handlers : HandlerInv(k)'
    BY <1>2, <1>5, <1>6
  <1>8. LaunchInv'
    BY <1>1, <1>2, <1>6 DEF LaunchInv, In
  <1>9. QED
    BY <1>1, <1>4, <1>7, <1>8, HandleTyped DEF LockInv

LEMMA CrashInv ==
    ASSUME LockInv, Crash
    PROVE  LockInv'
  <1>1. TypeOK /\ \A r \in Release : TaskInv(r)
    BY DEF LockInv
  <1>2. ASSUME NEW r \in Release
        PROVE  /\ task'[r] \in Task
               /\ \/ task'[r] = task[r]
                  \/ /\ task'[r].pc = "exit" /\ task'[r].held = task[r].held
                     /\ ~At(r, "idle")
    <2>1. task[r] \in Task /\ "exit" \in PC
      BY <1>1 DEF TypeOK, ExecutorTypeOK, PC
    <2>2. task'[r] = IF At(r, "idle") THEN task[r]
                                      ELSE [task[r] EXCEPT !.pc = "exit"]
      BY DEF Crash
    <2>3. [task[r] EXCEPT !.pc = "exit"] \in Task
      BY <2>1 DEF Task
    <2>4. QED
      BY <2>1, <2>2, <2>3 DEF Task
  <1>3. task' \in [Release -> Task]
    BY <1>2 DEF Crash
  <1>4. TypeOK'
    <2>1. api' \in [Handlers -> Api]
      BY NoCallType DEF Crash
    <2>2. QED
      BY <1>1, <1>3, <2>1
      DEF Crash, store, rows, group, cluster, TypeOK, StoreTypeOK,
          ExecutorTypeOK
  <1>5. ASSUME NEW r \in Release
        PROVE  TaskInv(r)'
    <2>1. Kept(r)
      BY DEF Crash, store, rows, Kept
    <2>2. CASE task'[r] = task[r]
      BY <2>1, <2>2, TaskStays
    <2>3. CASE /\ task'[r].pc = "exit" /\ task'[r].held = task[r].held
               /\ ~At(r, "idle")
      BY <1>1, <2>1, <2>3 DEF TaskInv, Kept, WillCas, At
    <2>4. QED
      BY <1>2, <2>2, <2>3
  <1>6. \A h \in Handlers : HandlerInv(h)' /\ ~In(h, "xreread")'
    <2>1. \A h \in Handlers : api'[h] = NoCall
      BY DEF Crash
    <2>2. QED
      BY <2>1 DEF HandlerInv, In, NoCall
  <1>7. QED
    BY <1>4, <1>5, <1>6 DEF LockInv, LaunchInv

LEMMA InitInv ==
    ASSUME Init
    PROVE  LockInv
  <1>1. TypeOK
    <2>1. StoreTypeOK
      BY NoCallType, StoreAssumption
      DEF Init, StoreInit, StoreTypeOK, Status, ReleaseOrNone
    <2>2. ExecutorTypeOK
      <3>1. NoTask \in Task
        <4>1. /\ "idle" \in PC /\ "render" \in Stage
              /\ NoRelease \in ReleaseOrNone
              /\ 0 \in 0..MaxTries /\ 0 \in 0..Batches
          BY StoreAssumption DEF PC, Stage, ReleaseOrNone, MaxTries
        <4>2. QED
          BY <4>1 DEF NoTask, Task
      <3>2. QED
        BY <3>1 DEF Init, ExecutorInit, ExecutorTypeOK
    <2>3. QED
      BY <2>1, <2>2, NoCallType, ReleaseAssumption DEF Init, TypeOK
  <1>2. \A r \in Release : TaskInv(r)
    BY DEF Init, StoreInit, ExecutorInit, TaskInv, NoTask, At, WillCas, NoPlan
  <1>3. \A h \in Handlers : HandlerInv(h) /\ ~In(h, "xreread")
    <2>1. \A h \in Handlers : api[h] = NoCall
      BY DEF Init
    <2>2. QED
      BY <2>1 DEF HandlerInv, In, NoCall
  <1>4. QED
    BY <1>1, <1>2, <1>3 DEF LockInv, LaunchInv

LEMMA NextInv ==
    ASSUME LockInv, [Next]_vars
    PROVE  LockInv'
  <1>1. CASE UNCHANGED vars
    <2>1. /\ \A r \in Release : Kept(r) /\ task'[r] = task[r]
          /\ api' = api
      BY <1>1 DEF vars, rows, executor, Kept
    <2>2. TypeOK'
      BY <1>1 DEF LockInv, TypeOK, vars, rows, group, cluster, executor,
                  StoreTypeOK, ExecutorTypeOK
    <2>3. \A r \in Release : TaskInv(r)'
      BY <2>1, TaskStays
    <2>4. \A h \in Handlers : HandlerInv(h)'
      BY <2>1, HandlerStays DEF At
    <2>5. LaunchInv'
      BY <2>1 DEF LockInv, LaunchInv, In
    <2>6. QED
      BY <2>2, <2>3, <2>4, <2>5 DEF LockInv
  <1>2. CASE \E r \in Release : Run(r)
    BY <1>2, RunInv
  <1>3. CASE \E h \in Handlers : Handle(h) \/ Serve(h)
    BY <1>3, HandleInv, ServeInv
  <1>4. CASE Crash
    BY <1>4, CrashInv
  <1>5. QED
    BY <1>1, <1>2, <1>3, <1>4 DEF Next

-----------------------------------------------------------------------------
(* Theorems.                                                               *)

\* The invariant behind the optimistic lock holds of every execution: what a
\* goroutine or a handler read before a CAS is still true when it succeeds.
THEOREM LockInvariant == Spec => []LockInv
  <1>1. Init => LockInv
    BY InitInv
  <1>2. LockInv /\ [Next]_vars => LockInv'
    BY NextInv
  <1>3. QED
    BY <1>1, <1>2, PTL DEF Spec

\* The release service is typed.
THEOREM TypeCorrect == Spec => []TypeOK
  <1>1. LockInv => TypeOK
    BY DEF LockInv
  <1>2. QED
    BY <1>1, LockInvariant, PTL

\* A goroutine writes its row only where its version guards the write.
LEMMA RunWrites ==
    ASSUME LockInv, NEW r \in Release, Run(r), ~UNCHANGED rows
    PROVE  /\ WillCas(r) /\ ~At(r, "prepare")
           /\ \E s \in {"running", "succeeded", "failed"} :
                 Cas(r, task[r].held, s)
  <1>1. TypeOK
    BY DEF LockInv
  <1>2. task[r].pc \in {"bump", "bumpretry", "complete", "external"}
    <2>1. CASE Bump(r) \/ BumpRetry(r) \/ Complete(r) \/ CompleteExternal(r)
      BY <2>1 DEF Bump, BumpRetry, Complete, CompleteExternal, At
    <2>2. CASE \/ Prepare(r) \/ BumpRead(r) \/ Reread(r) \/ Check(r)
               \/ NoClient(r)
      BY <2>2 DEF Prepare, BumpRead, Reread, Check, NoClient, store
    <2>3. CASE ApplyRolling(r) \/ ApplyCandidate(r) \/ ScaleBatch(r)
      BY <2>3 DEF ApplyRolling, ApplyCandidate, ScaleBatch
    <2>4. CASE MarkCandidate(r) \/ Promote(r) \/ Wait(r) \/ Recheck(r)
      BY <2>4 DEF MarkCandidate, Promote, Wait, Recheck, store
    <2>5. CASE DropCandidate(r) \/ Publish(r) \/ ClearCandidate(r)
      BY <2>5 DEF DropCandidate, Publish, ClearCandidate
    <2>6. CASE FailDrop(r) \/ FailClear(r) \/ CompleteRead(r)
      BY <2>6 DEF FailDrop, FailClear, CompleteRead, store
    <2>7. QED
      BY <2>1, <2>2, <2>3, <2>4, <2>5, <2>6 DEF Run, Execute
  <1>3. QED
    BY <1>1, <1>2, RunRows DEF WillCas, At

\* Whatever step is taken, a settled row keeps its status or is interrupted.
LEMMA NextSettled ==
    ASSUME LockInv, [Next]_vars, NEW r \in Release, Settled(r)
    PROVE  status'[r] \in {status[r], "interrupted"}
  <1>1. TypeOK /\ TaskInv(r) /\ \A h \in Handlers : HandlerInv(h)
    BY DEF LockInv
  <1>2. ASSUME NEW q \in Release, Run(q)
        PROVE  status'[r] = status[r]
    <2>1. CASE q # r
      BY <1>1, <1>2, <2>1, RunOther
    <2>2. CASE UNCHANGED rows
      BY <2>2 DEF rows
    <2>3. CASE q = r /\ ~UNCHANGED rows
      <3>1. WillCas(r) /\ version[r] = task[r].held
        BY <1>2, <2>3, RunWrites DEF Cas
      <3>2. status[r] \notin {"succeeded", "failed"}
        BY <1>1, <3>1 DEF TaskInv, WillCas, At
      <3>3. Covered(r)
        BY <3>2 DEF Settled
      <3>4. status[r] \in Live
        BY <1>1, <3>1, <3>3 DEF TaskInv, Guards
      <3>5. QED
        BY <3>2, <3>4 DEF Settled, Live
    <2>4. QED
      BY <2>1, <2>2, <2>3
  <1>3. ASSUME NEW h \in Handlers, Serve(h)
        PROVE  status'[r] \in {status[r], "interrupted"}
    <2>1. CASE UNCHANGED rows
      BY <2>1 DEF rows
    <2>2. CASE Cas(api[h].rel, api[h].held, "interrupted")
      BY <1>1, <2>2 DEF Cas, TypeOK, StoreTypeOK
    <2>3. ASSUME NEW s, NEW pc \in {"xcas", "acas", "pcas", "rcas"}, In(h, pc),
                 Cas(api[h].rel, api[h].held, s)
          PROVE  status'[r] = status[r]
      <3>1. status[api[h].rel] \in ReadBefore(pc)
        BY <1>1, <2>3 DEF HandlerInv, In, Cas, Guards
      <3>2. ReadBefore(pc) \subseteq {"pending_approval", "running", "paused"}
        BY DEF ReadBefore, Live
      <3>3. r # api[h].rel
        BY <3>1, <3>2 DEF Settled
      <3>4. QED
        BY <1>1, <2>3, <3>3 DEF Cas, TypeOK, StoreTypeOK
    <2>4. ASSUME NEW s, NEW p, Insert(api[h].rel, s, p)
          PROVE  status'[r] = status[r]
      BY <1>1, <2>4 DEF Insert, Settled, TypeOK, StoreTypeOK
    <2>5. QED
      BY <1>3, <2>1, <2>2, <2>3, <2>4, ServeRows DEF In
  <1>4. ASSUME \/ UNCHANGED vars \/ Crash
               \/ \E h \in Handlers : Handle(h)
        PROVE  status'[r] = status[r]
    <2>1. CASE UNCHANGED vars \/ Crash
      BY <2>1 DEF vars, rows, Crash, store
    <2>2. ASSUME NEW h \in Handlers, Handle(h)
          PROVE  UNCHANGED store
      <3>1. CASE Trigger(h) \/ Rollback(h)
        BY <3>1 DEF Trigger, Rollback
      <3>2. ASSUME NEW q \in Release,
                   \/ AutoRollback(q, h) \/ Approve(h, q) \/ Reject(h, q)
                   \/ Abort(h, q) \/ Pause(h, q) \/ Resume(h, q)
            PROVE  UNCHANGED store
        BY <3>2 DEF AutoRollback, Approve, Reject, Abort, Pause, Resume
      <3>3. QED
        BY <2>2, <3>1, <3>2 DEF Handle
    <2>3. QED
      BY <1>4, <2>1, <2>2 DEF store, rows
  <1>5. QED
    BY <1>2, <1>3, <1>4 DEF Next

\* A settled release keeps its status, or is marked interrupted by a newer
\* one: the optimistic lock makes up for the missing status checks.
THEOREM SettledStaysThm == Spec => SettledStays
  <1>1. LockInv /\ [Next]_vars =>
           \A r \in Release :
              Settled(r) => status'[r] \in {status[r], "interrupted"}
    BY NextSettled
  <1>2. QED
    BY <1>1, LockInvariant, PTL DEF Spec, SettledStays

-----------------------------------------------------------------------------
(* Without approvals, Release implements ReleaseLifecycle.                 *)

\* No release of the group waits for an approval.
Ungated ==
    /\ \A r \in Release : ~plan[r].gated /\ status[r] # "pending_approval"
    /\ \A h \in Handlers : ~api[h].want.gated

LEMMA ServeWant ==
    ASSUME LockInv, NEW h \in Handlers, Serve(h), ~api[h].want.gated,
           Gates \subseteq {FALSE}
    PROVE  ~api'[h].want.gated
  <1>1. TypeOK /\ api[h] \in Api /\ api[h].want \in Plan
    BY DEF LockInv, TypeOK, Api
  <1>2. ASSUME Return(h)
        PROVE  ~api'[h].want.gated
    BY <1>1, <1>2, Put1 DEF Return, NoCall, NoPlan
  <1>3. ASSUME NEW c, Put(h, c), c.want = api[h].want
        PROVE  ~api'[h].want.gated
    BY <1>1, <1>3, Put1
  <1>4. ASSUME NEW pc, Step(h, pc)
        PROVE  ~api'[h].want.gated
    <2>1. [api[h] EXCEPT !.pc = pc].want = api[h].want
      BY <1>1 DEF Api
    <2>2. QED
      BY <1>3, <1>4, <2>1 DEF Step
  <1>5. CASE \/ Sweep(h) \/ Unmark(h) \/ Create(h) \/ CreateApproval(h)
             \/ PendingRun(h) \/ PendingLaunch(h) \/ Scale(h) \/ Decide(h)
    <2>1. \/ Return(h) \/ Step(h, "unmark") \/ Step(h, "list")
          \/ Step(h, "approval") \/ Step(h, "xreread")
          \/ Step(h, "pcas") \/ Step(h, "rcas")
      BY <1>5 DEF Sweep, Unmark, Create, CreateApproval, PendingRun,
                  PendingLaunch, Scale, Decide
    <2>2. QED
      BY <1>2, <1>4, <2>1
  <1>6. CASE List(h)
    <2>1. [api[h] EXCEPT !.pc = "iread", !.tries = 0,
                         !.todo = InStatus(api[h].scan)].want = api[h].want
      BY <1>1 DEF Api
    <2>2. QED
      BY <1>3, <1>6, <2>1 DEF List
  <1>7. CASE NextInterrupt(h)
    <2>1. ASSUME NEW r, Put(h, [api[h] EXCEPT !.pc = "icas", !.rel = r,
                                              !.held = version[r]])
          PROVE  ~api'[h].want.gated
      <3>1. [api[h] EXCEPT !.pc = "icas", !.rel = r,
                           !.held = version[r]].want = api[h].want
        BY <1>1 DEF Api
      <3>2. QED
        BY <1>3, <2>1, <3>1
    <2>2. CASE Put(h, [api[h] EXCEPT !.pc = "list", !.scan = "paused"])
      <3>1. [api[h] EXCEPT !.pc = "list", !.scan = "paused"].want = api[h].want
        BY <1>1 DEF Api
      <3>2. QED
        BY <1>3, <2>2, <3>1
    <2>3. CASE Step(h, "number")
      BY <1>4, <2>3
    <2>4. QED
      BY <1>7, <2>1, <2>2, <2>3 DEF NextInterrupt
  <1>8. CASE Interrupt(h)
    <2>1. [api[h] EXCEPT !.pc = "iread", !.todo = @ \ {api[h].rel},
                         !.tries = 0].want = api[h].want
      BY <1>1 DEF Api
    <2>2. [api[h] EXCEPT !.pc = "iread", !.tries = @ + 1].want = api[h].want
      BY <1>1 DEF Api
    <2>3. QED
      BY <1>3, <1>8, <2>1, <2>2 DEF Interrupt
  <1>9. CASE Number(h)
    <2>1. ASSUME NEW gate \in Gates,
                 Put(h, [api[h] EXCEPT
                            !.pc = "insert", !.rel = NextNumber,
                            !.want = [@ EXCEPT !.prev = LastSucceeded,
                                               !.gated = gate]])
          PROVE  ~api'[h].want.gated
      <3> DEFINE want == [api[h].want EXCEPT !.prev = LastSucceeded,
                                             !.gated = gate]
      <3>1. ~want.gated
        BY <1>1, <2>1 DEF Plan
      <3> HIDE DEF want
      <3>2. [api[h] EXCEPT !.pc = "insert", !.rel = NextNumber,
                           !.want = want].want = want
        BY <1>1 DEF Api
      <3>3. api'[h] = [api[h] EXCEPT !.pc = "insert", !.rel = NextNumber,
                                     !.want = want]
        BY <1>1, <2>1, Put1 DEF want
      <3>4. QED
        BY <3>1, <3>2, <3>3
    <2>2. QED
      BY <1>2, <1>9, <2>1 DEF Number
  <1>10. CASE PendingRead(h)
    <2>1. [api[h] EXCEPT !.pc = "xcas", !.base = current,
                         !.held = version[api[h].rel]].want = api[h].want
      BY <1>1 DEF Api
    <2>2. QED
      BY <1>2, <1>3, <1>10, <2>1 DEF PendingRead
  <1>11. QED
    BY <1>5, <1>6, <1>7, <1>8, <1>9, <1>10 DEF Serve

LEMMA HandleWant ==
    ASSUME LockInv, NEW h \in Handlers, Handle(h)
    PROVE  /\ UNCHANGED store
           /\ api' = api \/ \E c : ~c.want.gated /\ Put(h, c)
  <1>1. ~NoCall.want.gated /\ \A s, auto : ~TriggerCall(s, auto).want.gated
    BY DEF NoCall, TriggerCall, NoPlan
  <1>2. CASE Trigger(h) \/ Rollback(h)
    BY <1>1, <1>2 DEF Trigger, Rollback, Request
  <1>3. ASSUME NEW r \in Release, AutoRollback(r, h)
        PROVE  /\ UNCHANGED store
               /\ api' = api \/ \E c : ~c.want.gated /\ Put(h, c)
    BY <1>1, <1>3 DEF AutoRollback
  <1>4. ASSUME NEW r \in Release, Approve(h, r) \/ Reject(h, r)
        PROVE  UNCHANGED store /\ \E c : ~c.want.gated /\ Put(h, c)
    <2>1. ~[NoCall EXCEPT !.pc = "xread", !.rel = r].want.gated
      BY DEF NoCall, NoPlan
    <2>2. QED
      BY <1>1, <1>4, <2>1 DEF Approve, Reject, Request
  <1>5. ASSUME NEW r \in Release, Abort(h, r) \/ Pause(h, r) \/ Resume(h, r)
        PROVE  UNCHANGED store /\ \E c : ~c.want.gated /\ Put(h, c)
    <2>1. \A pc : ~Reading(pc, r).want.gated
      BY DEF Reading, NoCall, NoPlan
    <2>2. QED
      BY <1>5, <2>1 DEF Abort, Pause, Resume, Request
  <1>6. QED
    BY <1>2, <1>3, <1>4, <1>5 DEF Handle

LEMMA UngatedNext ==
    ASSUME LockInv, Ungated, [Next]_vars, Gates \subseteq {FALSE}
    PROVE  Ungated'
  <1>1. TypeOK
    BY DEF LockInv
  <1>2. ASSUME NEW q \in Release, Run(q)
        PROVE  Ungated'
    <2>1. UNCHANGED api
      BY <1>2 DEF Run
    <2>2. UNCHANGED rows \/ \E s \in {"running", "succeeded", "failed"} :
             Cas(q, task[q].held, s)
      BY <1>1, <1>2, RunRows
    <2>3. QED
      BY <1>1, <2>1, <2>2 DEF Ungated, Cas, rows, TypeOK, StoreTypeOK
  <1>3. ASSUME NEW h \in Handlers, Serve(h)
        PROVE  Ungated'
    <2>1. \A k \in Handlers : ~api'[k].want.gated
      BY <1>1, <1>3, ServePuts, Put1, ServeWant DEF Ungated
    <2>2. ASSUME NEW r \in Release
          PROVE  ~plan'[r].gated /\ status'[r] # "pending_approval"
      BY <1>3, ServeWrites DEF Ungated, Kept, Written
    <2>3. QED
      BY <2>1, <2>2 DEF Ungated
  <1>4. ASSUME NEW h \in Handlers, Handle(h)
        PROVE  Ungated'
    BY <1>1, <1>4, HandleWant, Put1 DEF Ungated, store, rows
  <1>5. CASE Crash
    BY <1>5 DEF Crash, Ungated, NoCall, NoPlan, store, rows
  <1>6. CASE UNCHANGED vars
    BY <1>6 DEF Ungated, vars, rows
  <1>7. QED
    BY <1>2, <1>3, <1>4, <1>5, <1>6 DEF Next

LEMMA LifecycleStep ==
    ASSUME LockInv, Ungated, [Next]_vars
    PROVE  [Lifecycle!Next]_status
  <1> USE DEF Lifecycle!Next, Lifecycle!Becomes, Lifecycle!InProgress,
              Lifecycle!Over
  <1>1. /\ TypeOK /\ \A h \in Handlers : HandlerInv(h)
        /\ \A r \in Release : TaskInv(r)
    BY DEF LockInv
  <1>2. ASSUME NEW r \in Release, Run(r), ~UNCHANGED rows
        PROVE  Lifecycle!Next
    <2>1. PICK s \in {"running", "succeeded", "failed"} :
             Cas(r, task[r].held, s)
      BY <1>2, RunWrites
    <2>2. status[r] \in {"running", "paused"}
      BY <1>1, <1>2, <2>1, RunWrites
      DEF TaskInv, Guards, Covered, Ungated, Cas, Live
    <2>3. status' = [status EXCEPT ![r] = s]
      BY <2>1 DEF Cas
    <2>4. Lifecycle!Progress(r) \/ Lifecycle!Settle(r)
      BY <2>2, <2>3 DEF Lifecycle!Progress, Lifecycle!Settle
    <2>5. QED
      BY <2>4
  <1>3. ASSUME NEW h \in Handlers, Serve(h), ~UNCHANGED rows
        PROVE  Lifecycle!Next
    <2> DEFINE r == api[h].rel
    <2>1. CASE In(h, "icas") /\ Cas(r, api[h].held, "interrupted")
      <3>1. r \in Release /\ Started(r)
        BY <1>1, <2>1, HandledRelease DEF HandlerInv, In
      <3>2. status[r] \in Live \cup Final
        BY <1>1, <3>1 DEF Started, TypeOK, StoreTypeOK, Status
      <3>3. status' = [status EXCEPT ![r] = "interrupted"]
        BY <2>1 DEF Cas
      <3>4. Lifecycle!Settle(r) \/ Lifecycle!Supersede(r)
        BY <3>2, <3>3
        DEF Lifecycle!Settle, Lifecycle!Supersede, Live, Final
      <3>5. QED
        BY <3>1, <3>4
    <2>2. CASE In(h, "xcas")
      BY <1>1, <2>2, HandledRelease DEF HandlerInv, In, Ungated
    <2>3. ASSUME NEW pc \in {"acas", "pcas", "rcas"}, api[h].pc = pc,
                 Cas(r, api[h].held, Verdict(pc))
          PROVE  Lifecycle!Next
      <3>1. r \in Release /\ status[r] \in ReadBefore(pc)
        BY <1>1, <2>3, HandledRelease DEF HandlerInv, Guards, Cas
      <3>2. status[r] \in {"running", "paused"}
        BY <3>1 DEF ReadBefore, Live
      <3>3. Verdict(pc) \in {"running", "paused", "aborted"}
        BY DEF Verdict
      <3>4. status' = [status EXCEPT ![r] = Verdict(pc)]
        BY <2>3 DEF Cas
      <3>5. Lifecycle!Progress(r) \/ Lifecycle!Settle(r)
        BY <3>2, <3>3, <3>4 DEF Lifecycle!Progress, Lifecycle!Settle
      <3>6. QED
        BY <3>1, <3>5
    <2>4. CASE In(h, "insert") /\ Insert(r, "running", api[h].want)
      <3>1. r \in Release
        BY <2>4, HandledRelease DEF In
      <3>2. Lifecycle!Submit(r)
        BY <2>4 DEF Insert, Lifecycle!Submit
      <3>3. QED
        BY <3>1, <3>2
    <2>5. QED
      BY <1>3, <2>1, <2>2, <2>3, <2>4, ServeRows DEF Ungated
  <1>4. ASSUME NEW h \in Handlers, Handle(h)
        PROVE  UNCHANGED rows
    BY <1>4, HandleWant DEF store
  <1>5. CASE Crash \/ UNCHANGED vars
    BY <1>5 DEF Crash, vars, store, rows
  <1>6. QED
    BY <1>2, <1>3, <1>4, <1>5 DEF Next, rows

\* In a group that never asks for approvals, every release follows the life
\* cycle that clients are told of, for any number of concurrent requests.
THEOREM LifecycleImplemented ==
    ASSUME Gates \subseteq {FALSE}
    PROVE  Spec => ImplementsLifecycle
  <1>1. Init => Ungated /\ Lifecycle!Init
    BY DEF Init, StoreInit, Ungated, NoPlan, NoCall, Lifecycle!Init
  <1>2. LockInv /\ Ungated /\ [Next]_vars => Ungated' /\ [Lifecycle!Next]_status
    BY UngatedNext, LifecycleStep
  <1>3. QED
    BY <1>1, <1>2, LockInvariant, PTL
    DEF Spec, ImplementsLifecycle, Lifecycle!Spec

-----------------------------------------------------------------------------
(* What the goroutine of a release can count on: SucceededWasPublished,    *)
(* RollsBackSettled and OneLateWrite.                                      *)

\* What a step that is not the goroutine's does to release r.
Outside(r) ==
    /\ Kept(r) \/ Written(r) \/ Inserted(r)
    /\ status'[r] \in Live =>
          status[r] \in Live \cup {"none", "pending_approval"}
    /\ status'[r] = "succeeded" => status[r] = "succeeded"
    /\ published \subseteq published' /\ late'[r] = late[r]
    /\ \/ task'[r] = task[r]
       \/ At(r, "idle") /\ task'[r].pc \in {"prepare", "external"}
       \/ task'[r].pc = "exit"

LEMMA RunNotes ==
    ASSUME TypeOK, NEW r \in Release, Run(r)
    PROVE  /\ published \subseteq published'
           /\ \A q \in Release : q # r => late'[q] = late[q]
  <1>1. Note(r) => \A q \in Release : q # r => late'[q] = late[q]
    BY DEF Note, TypeOK, ExecutorTypeOK
  <1>2. CASE \/ Prepare(r) \/ Bump(r) \/ BumpRead(r) \/ BumpRetry(r)
             \/ Reread(r) \/ Check(r) \/ NoClient(r)
    BY <1>2 DEF Prepare, Bump, BumpRead, BumpRetry, Reread, Check, NoClient
  <1>3. CASE \/ ApplyRolling(r) \/ ApplyCandidate(r) \/ ScaleBatch(r)
             \/ MarkCandidate(r) \/ Promote(r) \/ Wait(r) \/ Recheck(r)
    BY <1>1, <1>3 DEF ApplyRolling, ApplyCandidate, ScaleBatch, MarkCandidate,
                      Promote, Wait, Recheck
  <1>4. CASE \/ DropCandidate(r) \/ Publish(r) \/ ClearCandidate(r)
             \/ FailDrop(r) \/ FailClear(r)
             \/ CompleteRead(r) \/ Complete(r) \/ CompleteExternal(r)
    BY <1>4 DEF DropCandidate, Publish, ClearCandidate, FailDrop, FailClear,
                CompleteRead, Complete, CompleteExternal
  <1>5. QED
    BY <1>2, <1>3, <1>4 DEF Run, Execute

LEMMA HandleKeeps ==
    ASSUME TypeOK, NEW h \in Handlers, Handle(h), NEW r \in Release
    PROVE  /\ UNCHANGED store /\ UNCHANGED <<published, late>>
           /\ \/ task'[r] = task[r]
              \/ task'[r].pc = "exit" /\ ~At(r, "idle")
  <1>1. CASE Trigger(h) \/ Rollback(h)
    BY <1>1 DEF Trigger, Rollback, executor
  <1>2. ASSUME NEW q \in Release,
               \/ Approve(h, q) \/ Reject(h, q)
               \/ Abort(h, q) \/ Pause(h, q) \/ Resume(h, q)
        PROVE  UNCHANGED store /\ UNCHANGED executor
    BY <1>2 DEF Approve, Reject, Abort, Pause, Resume
  <1>3. ASSUME NEW q \in Release, AutoRollback(q, h)
        PROVE  /\ UNCHANGED store /\ UNCHANGED <<published, late>>
               /\ \/ task'[r] = task[r]
                  \/ task'[r].pc = "exit" /\ ~At(r, "idle")
    <2>1. task[q].pc = "rollback" /\ Goto(q, "exit")
      BY <1>3 DEF AutoRollback, At
    <2>2. q = r => task'[r].pc = "exit" /\ ~At(r, "idle")
      BY <2>1, Locals DEF At
    <2>3. q # r => task'[r] = task[r]
      BY <2>1 DEF Goto, Become, TypeOK, ExecutorTypeOK
    <2>4. QED
      BY <1>3, <2>2, <2>3 DEF AutoRollback
  <1>4. QED
    BY <1>1, <1>2, <1>3 DEF Handle, executor

LEMMA ServeNotes ==
    ASSUME NEW h \in Handlers, Serve(h)
    PROVE  UNCHANGED <<published, late>>
  <1> USE DEF executor
  <1>1. CASE Sweep(h) \/ Unmark(h) \/ List(h) \/ NextInterrupt(h)
    BY <1>1 DEF Sweep, Unmark, List, NextInterrupt
  <1>2. CASE Interrupt(h) \/ Number(h) \/ Create(h) \/ CreateApproval(h)
    BY <1>2 DEF Interrupt, Number, Create, CreateApproval
  <1>3. CASE PendingRead(h) \/ PendingRun(h) \/ PendingLaunch(h)
    BY <1>3 DEF PendingRead, PendingRun, PendingLaunch
  <1>4. CASE Scale(h) \/ Decide(h)
    BY <1>4 DEF Scale, Decide
  <1>5. QED
    BY <1>1, <1>2, <1>3, <1>4 DEF Serve

\* A handler makes a release live only if it was, or was not started yet.
LEMMA ServeRevives ==
    ASSUME LockInv, NEW h \in Handlers, Serve(h), NEW r \in Release,
           status'[r] \in Live
    PROVE  status[r] \in Live \cup {"none", "pending_approval"}
  <1>1. TypeOK /\ HandlerInv(h)
    BY DEF LockInv
  <1>2. CASE UNCHANGED rows
    BY <1>2 DEF rows
  <1>3. CASE Cas(api[h].rel, api[h].held, "interrupted")
    BY <1>1, <1>3 DEF Cas, TypeOK, StoreTypeOK, Live
  <1>4. ASSUME NEW s, NEW pc \in {"xcas", "acas", "pcas", "rcas"}, In(h, pc),
               Cas(api[h].rel, api[h].held, s)
        PROVE  status[r] \in Live \cup {"none", "pending_approval"}
    <2>1. status[api[h].rel] \in ReadBefore(pc)
      BY <1>1, <1>4 DEF HandlerInv, In, Cas, Guards
    <2>2. ReadBefore(pc) \subseteq {"pending_approval", "running", "paused"}
      BY DEF ReadBefore, Live
    <2>3. r # api[h].rel => status'[r] = status[r]
      BY <1>1, <1>4 DEF Cas, TypeOK, StoreTypeOK
    <2>4. QED
      BY <2>1, <2>2, <2>3 DEF Live
  <1>5. ASSUME NEW s, NEW p, Insert(api[h].rel, s, p)
        PROVE  status[r] \in Live \cup {"none", "pending_approval"}
    BY <1>1, <1>5 DEF Insert, TypeOK, StoreTypeOK
  <1>6. QED
    BY <1>2, <1>3, <1>4, <1>5, ServeRows DEF In

LEMMA OutsideStep ==
    ASSUME LockInv, [Next]_vars, NEW r \in Release, ~Run(r)
    PROVE  Outside(r)
  <1>1. TypeOK /\ TaskInv(r)
    BY DEF LockInv
  <1>2. CASE UNCHANGED vars
    BY <1>2 DEF vars, rows, executor, Outside, Kept
  <1>3. ASSUME NEW q \in Release, Run(q)
        PROVE  Outside(r)
    <2>1. q # r /\ Kept(r) /\ task'[r] = task[r]
      BY <1>1, <1>3, RunOther DEF Kept
    <2>2. late'[r] = late[r] /\ published \subseteq published'
      BY <1>1, <1>3, <2>1, RunNotes
    <2>3. QED
      BY <2>1, <2>2 DEF Outside, Kept
  <1>4. ASSUME NEW h \in Handlers, Handle(h)
        PROVE  Outside(r)
    BY <1>1, <1>4, HandleKeeps DEF Outside, store, rows, Kept
  <1>5. ASSUME NEW h \in Handlers, Serve(h)
        PROVE  Outside(r)
    <2>1. Kept(r) \/ Written(r) \/ Inserted(r)
      BY <1>5, ServeWrites
    <2>2. status'[r] = "succeeded" => status[r] = "succeeded"
      BY <1>5, ServeWrites DEF Kept
    <2>3. \/ task'[r] = task[r]
          \/ At(r, "idle") /\ task'[r].pc \in {"prepare", "external"}
      <3>1. In(h, "xreread") /\ r = api[h].rel => At(r, "idle")
        BY DEF LockInv, HandlerInv, In
      <3>2. Inserted(r) => At(r, "idle")
        BY <1>1 DEF TaskInv, Inserted
      <3>3. QED
        BY <1>5, <3>1, <3>2, ServeStarts
    <2>4. QED
      BY <1>5, <2>1, <2>2, <2>3, ServeRevives, ServeNotes DEF Outside
  <1>6. CASE Crash
    <2>1. task'[r] = task[r] \/ task'[r].pc = "exit"
      <3>1. task[r] \in Task
        BY <1>1 DEF TypeOK, ExecutorTypeOK
      <3>2. QED
        BY <1>6, <3>1 DEF Crash, Task
    <2>2. Kept(r) /\ UNCHANGED <<published, late>>
      BY <1>6 DEF Crash, store, rows, Kept
    <2>3. QED
      BY <2>1, <2>2 DEF Outside, Kept
  <1>7. QED
    BY <1>2, <1>3, <1>4, <1>5, <1>6 DEF Next

\* A release that is, or is about to be marked, succeeded has been published.
Succeeding(r) ==
    \/ status[r] = "succeeded" /\ plan[r].strategy # "external"
    \/ At(r, "clear")
    \/ task[r].pc \in {"read", "complete"} /\ task[r].goal = "succeeded"

PubInv(r) == Succeeding(r) => r \in published

RollInv(r) ==
    At(r, "rollback") /\ task[r].tries + 1 < MaxTries => ~IsLive(r)

\* Where no late apply or scale can lie behind the goroutine of r.
NotLate(r) ==
    \/ task[r].pc \in {"idle", "prepare", "bumpretry", "reread", "write"}
    \/ task[r].pc \in {"bump", "bumpread", "check"} /\ task[r].stage # "rollout"

\* Where one may, and another apply is still to come.
MayBeLate(r) ==
    /\ task[r].pc \in {"bump", "bumpread", "check", "mark", "wait"}
    /\ task[r].stage = "rollout"

\* Nobody sets r running again, the goroutine included.
Over(r) == ~IsLive(r) /\ task[r].held < version[r]

LateInv(r) ==
    /\ late[r] <= 1
    /\ NotLate(r) => late[r] = 0
    /\ MayBeLate(r) /\ late[r] # 0 => Over(r)
    /\ At(r, "mark") => task[r].stage = "rollout"
    /\ At(r, "wait") => task[r].stage # "render"
    /\ At(r, "write") /\ task[r].stage # "promote"
          => Guards(r, task[r].held, Live)

OwnInv(r) == PubInv(r) /\ RollInv(r) /\ LateInv(r)

LEMMA OutsideOwn ==
    ASSUME LockInv, NEW r \in Release, Outside(r), OwnInv(r)
    PROVE  OwnInv(r)'
  <1>1. /\ TypeOK /\ TaskInv(r) /\ version[r] \in Nat
        /\ late[r] \in Nat /\ task[r].held \in Nat
    BY DEF LockInv, TypeOK, StoreTypeOK, ExecutorTypeOK, Task
  <1>2. At(r, "idle") => NotLate(r) /\ late[r] = 0
    BY DEF NotLate, MayBeLate, At, OwnInv, LateInv
  <1>3. ~At(r, "idle") => /\ plan'[r] = plan[r] /\ version[r] <= version'[r]
                          /\ IsLive(r)' => IsLive(r)
    <2>1. ~At(r, "idle") => status[r] \notin {"none", "pending_approval"}
      BY <1>1 DEF TaskInv
    <2>2. QED
      BY <1>1, <2>1 DEF Outside, Kept, Written, Inserted, IsLive
  <1>4. PubInv(r)'
    <2>1. status'[r] = "succeeded" => plan'[r] = plan[r]
      BY DEF Outside, Kept, Written, Inserted
    <2>2. CASE task'[r] = task[r]
      BY <2>1, <2>2 DEF OwnInv, PubInv, Succeeding, Outside, At
    <2>3. CASE task'[r].pc \in {"prepare", "external", "exit"}
      BY <2>1, <2>3 DEF OwnInv, PubInv, Succeeding, Outside, At
    <2>4. QED
      BY <2>2, <2>3 DEF Outside
  <1>5. RollInv(r)'
    <2>1. CASE task'[r] = task[r]
      BY <1>3, <2>1 DEF OwnInv, RollInv, At
    <2>2. CASE task'[r].pc \in {"prepare", "external", "exit"}
      BY <2>2 DEF RollInv, At
    <2>3. QED
      BY <2>1, <2>2 DEF Outside
  <1>6. LateInv(r)'
    <2>1. CASE task'[r].pc \in {"prepare", "external", "exit"}
      <3>1. task'[r].pc = "prepare" => late[r] = 0 \/ task'[r] = task[r]
        BY <1>2 DEF Outside
      <3>2. task'[r].pc = "prepare" => late[r] = 0
        BY <3>1 DEF OwnInv, LateInv, NotLate
      <3>3. QED
        BY <2>1, <3>2 DEF OwnInv, LateInv, NotLate, MayBeLate, At, Outside
    <2>2. CASE task'[r] = task[r]
      <3>1. At(r, "write") /\ task[r].stage # "promote"
               => Guards(r, task[r].held, Live)'
        <4>1. "none" \notin Live
          BY DEF Live
        <4>2. QED
          BY <1>1, <2>2, <4>1, GuardsStay DEF OwnInv, LateInv, Outside
      <3>2. ~At(r, "idle") /\ Over(r) => Over(r)'
        BY <1>1, <1>3, <2>2 DEF Over, Outside, Kept, Written, Inserted
      <3>3. late'[r] = late[r] /\ (NotLate(r)' <=> NotLate(r))
        BY <2>2 DEF Outside, NotLate
      <3>4. (At(r, "write") /\ task[r].stage # "promote"
               => Guards(r, task[r].held, Live))'
        BY <2>2, <3>1 DEF At, Guards
      <3>5. QED
        BY <2>2, <3>2, <3>3, <3>4 DEF OwnInv, LateInv, MayBeLate, At
    <2>3. QED
      BY <2>1, <2>2 DEF Outside
  <1>7. QED
    BY <1>4, <1>5, <1>6 DEF OwnInv

\* The locals these invariants read, after each kind of assignment.
LEMMA Goals ==
    ASSUME TypeOK, NEW r \in Release
    PROVE  /\ \A g : Finish(r, g) => /\ task'[r].pc = "read"
                                    /\ task'[r].goal = g
           /\ ApplyFailed(r) => /\ task'[r].pc = "read"
                               /\ task'[r].goal = "failed"
           /\ \A pc : Goto(r, pc) => /\ task'[r].goal = task[r].goal
                                    /\ task'[r].tries = task[r].tries
  <1>1. task[r] \in Task
    BY DEF TypeOK, ExecutorTypeOK
  <1>2. ASSUME NEW g, Finish(r, g)
        PROVE  task'[r].pc = "read" /\ task'[r].goal = g
    <2>1. task'[r] = [task[r] EXCEPT !.pc = "read", !.goal = g]
      BY <1>2, Become1 DEF Finish
    <2>2. QED
      BY <1>1, <2>1 DEF Task
  <1>3. ASSUME ApplyFailed(r)
        PROVE  task'[r].pc = "read" /\ task'[r].goal = "failed"
    <2>1. PICK b : task'[r] = [task[r] EXCEPT !.pc = "read",
                                              !.goal = "failed", !.back = b]
      BY <1>3, Become1 DEF ApplyFailed
    <2>2. QED
      BY <1>1, <2>1 DEF Task
  <1>4. ASSUME NEW pc, Goto(r, pc)
        PROVE  /\ task'[r].goal = task[r].goal
               /\ task'[r].tries = task[r].tries
    <2>1. task'[r] = [task[r] EXCEPT !.pc = pc]
      BY <1>4, Become1 DEF Goto
    <2>2. QED
      BY <1>1, <2>1 DEF Task
  <1>5. QED
    BY <1>2, <1>3, <1>4

\* A step that writes no row, to where no apply can follow ...
LEMMA OwnEnds ==
    ASSUME LockInv, NEW r \in Release, Run(r), OwnInv(r), UNCHANGED rows,
           late'[r] <= 1,
           \/ task'[r].pc \in {"exit", "recheck", "drop", "publish", "faildrop",
                               "failclear"}
           \/ task'[r].pc = "read" /\ task'[r].goal = "failed"
    PROVE  OwnInv(r)'
  <1>1. published \subseteq published' /\ status' = status /\ plan' = plan
    BY RunNotes DEF LockInv, rows
  <1>2. PubInv(r)'
    BY <1>1 DEF OwnInv, PubInv, Succeeding, At
  <1>3. RollInv(r)' /\ LateInv(r)'
    BY DEF RollInv, LateInv, NotLate, MayBeLate, At
  <1>4. QED
    BY <1>2, <1>3 DEF OwnInv

\* ... and one that stays where applies are made.
LEMMA OwnGoes ==
    ASSUME LockInv, NEW r \in Release, Run(r), OwnInv(r), UNCHANGED rows,
           task'[r].pc \in {"bump", "bumpread", "bumpretry", "check", "write",
                            "mark", "wait"},
           LateInv(r)'
    PROVE  OwnInv(r)'
  <1>1. published \subseteq published' /\ status' = status /\ plan' = plan
    BY RunNotes DEF LockInv, rows
  <1>2. PubInv(r)'
    BY <1>1 DEF OwnInv, PubInv, Succeeding, At
  <1>3. RollInv(r)'
    BY DEF RollInv, At
  <1>4. QED
    BY <1>2, <1>3 DEF OwnInv

LEMMA Noted ==
    ASSUME TypeOK, NEW r \in Release, Note(r)
    PROVE  late'[r] = IF IsLive(r) THEN late[r] ELSE late[r] + 1
  BY DEF Note, TypeOK, ExecutorTypeOK

\* Back from bumpRunningProgress, with no late apply unless the release is over.
LEMMA OwnAfterBump ==
    ASSUME LockInv, NEW r \in Release, Run(r), OwnInv(r),
           UNCHANGED rows, UNCHANGED late,
           \/ Goto(r, AfterBump(r))
           \/ /\ Become(r, [task[r] EXCEPT !.pc = AfterBump(r),
                                           !.held = version[r]])
              /\ late[r] = 0,
           \/ late[r] = 0
           \/ task[r].stage = "rollout" /\ Over(r)
    PROVE  OwnInv(r)'
  <1>1. TypeOK /\ task[r].stage \in {"render", "rollout", "promote"}
    BY DEF LockInv, TypeOK, ExecutorTypeOK, Task, Stage
  <1>2. /\ task'[r].pc = AfterBump(r) /\ task'[r].stage = task[r].stage
        /\ late[r] # 0 => task'[r].held = task[r].held
    <2>1. CASE Goto(r, AfterBump(r))
      BY <1>1, <2>1, Locals
    <2>2. CASE Become(r, [task[r] EXCEPT !.pc = AfterBump(r),
                                         !.held = version[r]]) /\ late[r] = 0
      BY <1>1, <2>2, LocalsHeld, Zenon
    <2>3. QED
      BY <2>1, <2>2
  <1>3. /\ late'[r] = late[r] /\ late[r] <= 1
        /\ late[r] # 0 /\ Over(r) => Over(r)'
    BY <1>2 DEF OwnInv, LateInv, MayBeLate, Over, IsLive, rows
  <1>4. CASE AfterBump(r) = "publish"
    BY <1>2, <1>3, <1>4, OwnEnds
  <1>5. CASE AfterBump(r) = "wait" /\ task[r].stage = "rollout"
    <2>1. LateInv(r)'
      BY <1>2, <1>3, <1>5 DEF LateInv, NotLate, MayBeLate, At
    <2>2. QED
      BY <1>2, <1>5, <2>1, OwnGoes
  <1>6. CASE \/ AfterBump(r) = "check"
             \/ AfterBump(r) = "write" /\ task[r].stage = "promote"
    <2>1. LateInv(r)'
      BY <1>2, <1>3, <1>6 DEF LateInv, NotLate, MayBeLate, At
    <2>2. QED
      BY <1>2, <1>6, <2>1, OwnGoes
  <1>7. QED
    BY <1>1, <1>4, <1>5, <1>6 DEF AfterBump

LEMMA RunOwn ==
    ASSUME LockInv, NEW r \in Release, Run(r), OwnInv(r)
    PROVE  OwnInv(r)'
  <1>1. /\ TypeOK /\ TaskInv(r) /\ version[r] \in Nat
        /\ late[r] \in Nat /\ late[r] <= 1 /\ task[r].held \in Nat
        /\ task[r].held <= version[r] /\ task[r] \in Task
    BY DEF LockInv, TypeOK, StoreTypeOK, ExecutorTypeOK, Task, TaskInv,
           OwnInv, LateInv
  <1>2. UNCHANGED late => late'[r] = late[r] /\ late'[r] <= 1
    BY <1>1
  <1>3. CASE Prepare(r) \/ NoClient(r)
    <2>1. CASE At(r, "prepare") /\ Goto(r, "bump") /\ UNCHANGED <<rows, late>>
      <3>1. task'[r].pc = "bump" /\ late[r] = 0
        BY <1>1, <2>1, Locals DEF OwnInv, LateInv, NotLate, MayBeLate, At
      <3>2. LateInv(r)'
        BY <1>2, <2>1, <3>1 DEF LateInv, NotLate, MayBeLate, At
      <3>3. QED
        BY <2>1, <3>1, <3>2, OwnGoes
    <2>2. CASE Finish(r, "failed") /\ UNCHANGED <<rows, late>>
      BY <1>1, <1>2, <2>2, Goals, OwnEnds
    <2>3. QED
      BY <1>3, <2>1, <2>2 DEF Prepare, NoClient, store
  <1>4. CASE Bump(r) \/ BumpRetry(r)
    <2>1. /\ task[r].pc \in {"bump", "bumpretry"}
          /\ UNCHANGED late
          /\ \/ /\ At(r, "bump") /\ Conflict(r, task[r].held)
                /\ Goto(r, "bumpread") /\ UNCHANGED rows
             \/ Cas(r, task[r].held, "running") /\ Goto(r, "reread")
             \/ /\ At(r, "bumpretry") /\ Goto(r, AfterBump(r))
                /\ UNCHANGED rows
      BY <1>4 DEF Bump, BumpRetry, At
    <2>2. CASE Cas(r, task[r].held, "running") /\ Goto(r, "reread")
      <3>1. /\ task'[r].pc = "reread" /\ status'[r] = "running"
            /\ version[r] = task[r].held /\ plan'[r] = plan[r]
        BY <1>1, <2>2, Locals, Cas1
      <3>2. late[r] = 0
        BY <1>1, <2>1, <3>1 DEF OwnInv, LateInv, NotLate, MayBeLate, Over, At
      <3>3. PubInv(r)' /\ RollInv(r)'
        BY <3>1 DEF PubInv, Succeeding, RollInv, At
      <3>4. LateInv(r)'
        BY <1>2, <2>1, <3>1, <3>2 DEF LateInv, NotLate, MayBeLate, At
      <3>5. QED
        BY <3>3, <3>4 DEF OwnInv
    <2>3. CASE At(r, "bump") /\ Goto(r, "bumpread") /\ UNCHANGED rows
      <3>1. /\ task'[r].pc = "bumpread" /\ task'[r].held = task[r].held
            /\ task'[r].stage = task[r].stage
        BY <1>1, <2>3, Locals
      <3>2. Over(r) => Over(r)'
        BY <2>3, <3>1 DEF Over, IsLive, rows
      <3>3. LateInv(r)'
        BY <1>2, <2>1, <2>3, <3>1, <3>2 DEF OwnInv, LateInv, NotLate, MayBeLate, At
      <3>4. QED
        BY <2>3, <3>1, <3>3, OwnGoes
    <2>4. CASE At(r, "bumpretry") /\ Goto(r, AfterBump(r)) /\ UNCHANGED rows
      <3>1. late[r] = 0
        BY <2>4 DEF OwnInv, LateInv, NotLate, MayBeLate, At
      <3>2. QED
        BY <2>1, <2>4, <3>1, OwnAfterBump
    <2>5. QED
      BY <2>1, <2>2, <2>3, <2>4
  <1>5. CASE BumpRead(r)
    <2>1. At(r, "bumpread") /\ UNCHANGED rows /\ UNCHANGED late
      BY <1>5 DEF BumpRead, store
    <2>2. \/ late[r] = 0
          \/ task[r].stage = "rollout" /\ Over(r)
      BY <2>1 DEF OwnInv, LateInv, NotLate, MayBeLate, At
    <2>3. CASE IsLive(r) /\ Become(r, [task[r] EXCEPT !.pc = "bumpretry",
                                                     !.held = version[r]])
      <3>1. task'[r].pc = "bumpretry" /\ late[r] = 0
        BY <1>1, <2>2, <2>3, LocalsHeld DEF Over
      <3>2. LateInv(r)'
        BY <1>2, <2>1, <3>1 DEF LateInv, NotLate, MayBeLate, At
      <3>3. QED
        BY <2>1, <3>1, <3>2, OwnGoes
    <2>4. CASE Goto(r, AfterBump(r))
      BY <2>1, <2>2, <2>4, OwnAfterBump
    <2>5. QED
      BY <1>5, <2>3, <2>4 DEF BumpRead
  <1>6. CASE Reread(r)
    <2>1. /\ UNCHANGED rows /\ UNCHANGED late /\ late[r] = 0
          /\ Become(r, [task[r] EXCEPT !.pc = AfterBump(r),
                                       !.held = version[r]])
      BY <1>6 DEF Reread, store, OwnInv, LateInv, NotLate, MayBeLate, At
    <2>2. QED
      BY <2>1, OwnAfterBump, Zenon
  <1>7. CASE Check(r)
    <2>1. At(r, "check") /\ UNCHANGED rows /\ UNCHANGED late
      BY <1>7 DEF Check, store
    <2>2. CASE Goto(r, "exit")
      BY <1>1, <1>2, <2>1, <2>2, Locals, OwnEnds
    <2>3. CASE /\ IsLive(r)
               /\ \/ Become(r, [task[r] EXCEPT !.pc = "bump",
                                               !.stage = "promote"])
                  \/ Goto(r, "write")
      <3>1. late[r] = 0
        BY <2>1, <2>3 DEF OwnInv, LateInv, NotLate, MayBeLate, Over, At
      <3>2. \/ task'[r].pc = "bump" /\ task'[r].stage = "promote"
            \/ task'[r].pc = "write" /\ task'[r].held = task[r].held
        <4>1. CASE Goto(r, "write")
          BY <1>1, <4>1, Locals
        <4>2. CASE Become(r, [task[r] EXCEPT !.pc = "bump", !.stage = "promote"])
          BY <1>1, <4>2, LocalsStage
        <4>3. QED
          BY <2>3, <4>1, <4>2
      <3>3. task'[r].pc = "write" => Guards(r, task[r].held, Live)'
        BY <1>1, <2>1, <2>3, <3>2 DEF Guards, IsLive, rows
      <3>4. LateInv(r)'
        BY <1>2, <2>1, <3>1, <3>2, <3>3 DEF LateInv, NotLate, MayBeLate, At
      <3>5. QED
        BY <2>1, <3>2, <3>4, OwnGoes
    <2>4. QED
      BY <1>7, <2>2, <2>3 DEF Check
  <1>8. CASE ApplyRolling(r) \/ ApplyCandidate(r) \/ ScaleBatch(r)
    <2>1. At(r, "write") /\ task[r].stage # "promote" /\ UNCHANGED rows
      BY <1>8 DEF ApplyRolling, ApplyCandidate, ScaleBatch
    <2>2. late[r] = 0 /\ Guards(r, task[r].held, Live)
      BY <2>1 DEF OwnInv, LateInv, NotLate, MayBeLate, At
    <2>3. \/ Note(r) \/ UNCHANGED late
      BY <1>8 DEF ApplyRolling, ApplyCandidate, ScaleBatch
    <2>4. late'[r] <= 1 /\ (late'[r] # 0 => ~IsLive(r))
      BY <1>1, <2>2, <2>3, Noted
    <2>5. CASE ApplyFailed(r)
      BY <1>1, <2>1, <2>4, <2>5, Goals, OwnEnds
    <2>6. CASE Goto(r, "faildrop")
      BY <1>1, <2>1, <2>4, <2>6, Locals, OwnEnds
    <2>7. CASE \/ Become(r, [task[r] EXCEPT !.pc = "bump", !.stage = "rollout"])
               \/ Become(r, [task[r] EXCEPT !.pc = "mark", !.stage = "rollout"])
               \/ /\ task[r].stage = "rollout"
                  /\ Become(r, [task[r] EXCEPT !.pc = "mark", !.batch = @ + 1])
      <3>1. /\ task'[r].pc \in {"bump", "mark"} /\ task'[r].stage = "rollout"
            /\ task'[r].held = task[r].held
        <4>1. CASE \/ Become(r, [task[r] EXCEPT !.pc = "bump", !.stage = "rollout"])
                   \/ Become(r, [task[r] EXCEPT !.pc = "mark", !.stage = "rollout"])
          BY <1>1, <4>1, LocalsStage
        <4>2. CASE /\ task[r].stage = "rollout"
                   /\ Become(r, [task[r] EXCEPT !.pc = "mark", !.batch = @ + 1])
          <5>1. task'[r] = [task[r] EXCEPT !.pc = "mark", !.batch = @ + 1]
            BY <1>1, <4>2, Become1
          <5>2. QED
            BY <1>1, <4>2, <5>1 DEF Task
        <4>3. QED
          BY <2>7, <4>1, <4>2
      <3>2. late'[r] # 0 => Over(r)'
        BY <1>1, <2>1, <2>2, <2>4, <3>1 DEF Guards, Over, IsLive, rows
      <3>3. LateInv(r)'
        BY <2>4, <3>1, <3>2 DEF LateInv, NotLate, MayBeLate, At
      <3>4. QED
        BY <2>1, <3>1, <3>3, OwnGoes
    <2>8. QED
      BY <1>8, <2>5, <2>6, <2>7 DEF ApplyRolling, ApplyCandidate, ScaleBatch
  <1>9. CASE MarkCandidate(r)
    <2>1. /\ At(r, "mark") /\ UNCHANGED rows /\ UNCHANGED late
          /\ Goto(r, "check") \/ Goto(r, "wait")
      BY <1>9 DEF MarkCandidate
    <2>2. /\ task'[r].pc \in {"check", "wait"} /\ task'[r].held = task[r].held
          /\ task'[r].stage = task[r].stage /\ task[r].stage = "rollout"
      BY <1>1, <2>1, Locals DEF OwnInv, LateInv, At
    <2>3. Over(r) => Over(r)'
      BY <2>1, <2>2 DEF Over, IsLive, rows
    <2>4. LateInv(r)'
      BY <1>2, <2>1, <2>2, <2>3 DEF OwnInv, LateInv, NotLate, MayBeLate, At
    <2>5. QED
      BY <2>1, <2>2, <2>4, OwnGoes
  <1>10. CASE Promote(r)
    <2>1. /\ At(r, "write") /\ task[r].stage = "promote" /\ UNCHANGED rows
          /\ Note(r)
          /\ Goto(r, "wait") \/ Goto(r, "faildrop")
      BY <1>10 DEF Promote
    <2>2. late'[r] <= 1
      BY <1>1, <2>1, Noted DEF OwnInv, LateInv, NotLate, MayBeLate, At
    <2>3. CASE Goto(r, "faildrop")
      BY <1>1, <2>1, <2>2, <2>3, Locals, OwnEnds
    <2>4. CASE Goto(r, "wait")
      <3>1. task'[r].pc = "wait" /\ task'[r].stage = "promote"
        BY <1>1, <2>1, <2>4, Locals
      <3>2. LateInv(r)'
        BY <2>2, <3>1 DEF LateInv, NotLate, MayBeLate, At
      <3>3. QED
        BY <2>1, <3>1, <3>2, OwnGoes
    <2>5. QED
      BY <2>1, <2>3, <2>4
  <1>11. CASE Wait(r)
    <2>1. At(r, "wait") /\ UNCHANGED rows /\ UNCHANGED late
      BY <1>11 DEF Wait, store
    <2>2. CASE \/ Goto(r, "exit") \/ Goto(r, "recheck")
               \/ Goto(r, "publish") \/ Goto(r, "drop")
      BY <1>1, <1>2, <2>1, <2>2, Locals, OwnEnds
    <2>3. CASE IsLive(r) /\ task[r].stage # "promote" /\ Goto(r, "bump")
      <3>1. late[r] = 0
        <4>1. task[r].stage = "rollout"
          BY <1>1, <2>1, <2>3 DEF OwnInv, LateInv, Task, Stage
        <4>2. QED
          BY <2>1, <2>3, <4>1 DEF OwnInv, LateInv, MayBeLate, Over, At
      <3>2. task'[r].pc = "bump"
        BY <1>1, <2>3, Locals
      <3>3. LateInv(r)'
        BY <1>2, <2>1, <3>1, <3>2 DEF LateInv, NotLate, MayBeLate, At
      <3>4. QED
        BY <2>1, <3>2, <3>3, OwnGoes
    <2>4. QED
      BY <1>11, <2>2, <2>3 DEF Wait, AfterWait
  <1>12. CASE Recheck(r) \/ DropCandidate(r) \/ FailDrop(r) \/ FailClear(r)
    <2>1. /\ UNCHANGED rows /\ UNCHANGED late
          /\ \/ Goto(r, "exit") \/ Goto(r, "faildrop") \/ Goto(r, "publish")
             \/ Goto(r, "failclear") \/ Finish(r, "failed")
      BY <1>12 DEF Recheck, DropCandidate, FailDrop, FailClear, store
    <2>2. QED
      BY <1>1, <1>2, <2>1, Locals, Goals, OwnEnds
  <1>13. CASE Publish(r) \/ ClearCandidate(r)
    <2>1. /\ UNCHANGED rows /\ UNCHANGED late
          /\ \/ Goto(r, "clear") \/ Goto(r, "exit") \/ Finish(r, "succeeded")
          /\ r \in published'
      <3>1. plan[r].strategy \in {"rolling", "candidate", "external"}
        BY <1>1 DEF TypeOK, StoreTypeOK, Plan, Strategy
      <3>2. CASE Publish(r)
        BY <3>1, <3>2 DEF Publish
      <3>3. CASE ClearCandidate(r)
        BY <3>3 DEF ClearCandidate, OwnInv, PubInv, Succeeding, At
      <3>4. QED
        BY <1>13, <3>2, <3>3
    <2>2. task'[r].pc \in {"clear", "exit", "read"}
      BY <1>1, <2>1, Locals, Goals
    <2>3. QED
      BY <1>2, <2>1, <2>2
      DEF OwnInv, PubInv, Succeeding, RollInv, LateInv, NotLate, MayBeLate, At
  <1>14. CASE CompleteRead(r)
    <2>1. /\ At(r, "read") /\ UNCHANGED rows /\ UNCHANGED late
          /\ UNCHANGED published
      BY <1>14 DEF CompleteRead, store
    <2>2. CASE ~IsLive(r) /\ Goto(r, AfterComplete(r))
      <3>1. task'[r].pc \in {"rollback", "exit"}
        BY <1>1, <2>2, Locals DEF AfterComplete
      <3>2. PubInv(r)' /\ LateInv(r)'
        BY <1>2, <2>1, <3>1
        DEF OwnInv, PubInv, Succeeding, LateInv, NotLate, MayBeLate, At, rows
      <3>3. RollInv(r)'
        BY <2>1, <2>2 DEF RollInv, IsLive, rows
      <3>4. QED
        BY <3>2, <3>3 DEF OwnInv
    <2>3. CASE Become(r, [task[r] EXCEPT !.pc = "complete", !.held = version[r]])
      <3>1. task'[r].pc = "complete" /\ task'[r].goal = task[r].goal
        <4>1. task'[r] = [task[r] EXCEPT !.pc = "complete", !.held = version[r]]
          BY <1>1, <2>3, Become1
        <4>2. QED
          BY <1>1, <4>1 DEF Task
      <3>2. QED
        BY <1>2, <2>1, <3>1
        DEF OwnInv, PubInv, Succeeding, RollInv, LateInv, NotLate, MayBeLate, At, rows
    <2>4. QED
      BY <1>14, <2>2, <2>3 DEF CompleteRead
  <1>15. CASE Complete(r)
    <2>1. At(r, "complete") /\ UNCHANGED late /\ UNCHANGED published
      BY <1>15 DEF Complete
    <2>2. CASE Cas(r, task[r].held, task[r].goal) /\ Goto(r, AfterComplete(r))
      <3>1. /\ task'[r].pc \in {"rollback", "exit"}
            /\ status'[r] = task[r].goal /\ plan'[r] = plan[r]
            /\ task[r].goal \in {"succeeded", "failed"}
        BY <1>1, <2>2, Locals, Cas1 DEF AfterComplete, Task
      <3>2. PubInv(r)'
        BY <2>1, <3>1 DEF OwnInv, PubInv, Succeeding, At
      <3>3. RollInv(r)' /\ LateInv(r)'
        BY <1>2, <2>1, <3>1 DEF RollInv, LateInv, NotLate, MayBeLate, At, IsLive, Live
      <3>4. QED
        BY <3>2, <3>3 DEF OwnInv
    <2>3. CASE /\ UNCHANGED rows
               /\ Become(r, [task[r] EXCEPT !.pc = "read", !.tries = @ + 1])
      <3>1. task'[r].pc = "read" /\ task'[r].goal = task[r].goal
        <4>1. task'[r] = [task[r] EXCEPT !.pc = "read", !.tries = @ + 1]
          BY <1>1, <2>3, Become1
        <4>2. QED
          BY <1>1, <4>1 DEF Task
      <3>2. QED
        BY <1>2, <2>1, <2>3, <3>1
        DEF OwnInv, PubInv, Succeeding, RollInv, LateInv, NotLate, MayBeLate, At, rows
    <2>4. CASE /\ UNCHANGED rows /\ task[r].tries + 1 >= MaxTries
               /\ Goto(r, AfterComplete(r))
      <3>1. /\ task'[r].pc \in {"rollback", "exit"}
            /\ task'[r].tries = task[r].tries /\ task[r].tries \in 0..MaxTries
        BY <1>1, <2>4, Locals, Goals DEF AfterComplete, Task
      <3>2. PubInv(r)' /\ LateInv(r)'
        BY <1>2, <2>1, <2>4, <3>1
        DEF OwnInv, PubInv, Succeeding, LateInv, NotLate, MayBeLate, At, rows
      <3>3. RollInv(r)'
        BY <2>4, <3>1 DEF RollInv, MaxTries
      <3>4. QED
        BY <3>2, <3>3 DEF OwnInv
    <2>5. QED
      BY <1>15, <2>2, <2>3, <2>4 DEF Complete
  <1>16. CASE CompleteExternal(r)
    <2>1. /\ UNCHANGED late /\ UNCHANGED published /\ Goto(r, "publish")
          /\ plan[r].strategy = "external"
          /\ Cas(r, task[r].held, "succeeded") \/ UNCHANGED rows
      BY <1>1, <1>16 DEF CompleteExternal, TaskInv
    <2>2. task'[r].pc = "publish" /\ plan'[r] = plan[r]
      BY <1>1, <2>1, Locals, Cas1 DEF rows
    <2>3. QED
      BY <1>2, <2>1, <2>2
      DEF OwnInv, PubInv, Succeeding, RollInv, LateInv, NotLate, MayBeLate, At
  <1>17. QED
    BY <1>3, <1>4, <1>5, <1>6, <1>7, <1>8, <1>9, <1>10, <1>11, <1>12, <1>13,
       <1>14, <1>15, <1>16 DEF Run, Execute

LEMMA OwnInit == ASSUME Init, NEW r \in Release PROVE OwnInv(r)
  <1>1. status[r] = "none" /\ task[r] = NoTask /\ late[r] = 0
    BY DEF Init, StoreInit, ExecutorInit
  <1>2. QED
    BY <1>1
    DEF OwnInv, PubInv, Succeeding, RollInv, LateInv, NotLate, MayBeLate, At, NoTask

LEMMA OwnNext ==
    ASSUME LockInv, [Next]_vars, NEW r \in Release, OwnInv(r)
    PROVE  OwnInv(r)'
  BY RunOwn, OutsideStep, OutsideOwn

\* The invariant of every goroutine, for itself.
OwnInvs == \A r \in Release : OwnInv(r)

\* Whatever handlers, other releases and crashes do, a goroutine keeps what it
\* knows of its own release: published before succeeded, settled before it
\* rolls back, and one late write behind it at most.
THEOREM OwnInvariant == Spec => []OwnInvs
  <1>1. Init => OwnInvs
    BY OwnInit DEF OwnInvs
  <1>2. LockInv /\ OwnInvs /\ [Next]_vars => OwnInvs'
    BY OwnNext DEF OwnInvs
  <1>3. QED
    BY <1>1, <1>2, LockInvariant, PTL DEF Spec

\* A succeeded release was made current before it was marked succeeded.
THEOREM SucceededWasPublishedThm == Spec => []SucceededWasPublished
  <1>1. OwnInvs => SucceededWasPublished
    BY DEF OwnInvs, OwnInv, PubInv, Succeeding, SucceededWasPublished
  <1>2. QED
    BY <1>1, OwnInvariant, PTL

\* A release that was interrupted or aborted applies or scales once more at
\* most.
THEOREM OneLateWriteThm == Spec => []OneLateWrite
  <1>1. OwnInvs => OneLateWrite
    BY DEF OwnInvs, OwnInv, LateInv, OneLateWrite
  <1>2. QED
    BY <1>1, OwnInvariant, PTL

\* The release that rolls back by itself has settled.
THEOREM RollsBackSettledThm == Spec => []RollsBackSettled
  <1>1. OwnInvs => RollsBackSettled
    BY DEF OwnInvs, OwnInv, RollInv, RollsBackSettled
  <1>2. QED
    BY <1>1, OwnInvariant, PTL

-----------------------------------------------------------------------------
(* With approvals, Release implements ApprovalLifecycle.                   *)

\* A goroutine never goes back before its first report, and a report is made.
LEMMA RunBegins ==
    ASSUME LockInv, NEW r \in Release, Run(r), OwnInv(r)
    PROVE  /\ Begun(r) => Begun(r)'
           /\ UNCHANGED rows \/ Begun(r)'
  <1>1. TypeOK /\ task[r] \in Task
    BY DEF LockInv, TypeOK, ExecutorTypeOK
  <1> USE DEF Begun, At
  <1>2. CASE Prepare(r)
    BY <1>2 DEF Prepare, store
  <1>3. CASE Bump(r) \/ BumpRead(r) \/ BumpRetry(r) \/ Reread(r)
    <2>1. AfterBump(r) \in {"write", "wait", "publish", "check"}
      BY DEF AfterBump
    <2>2. task'[r].pc \in {"reread", "bumpread", "bumpretry", AfterBump(r)}
      <3>1. PICK pc \in {"reread", "bumpread", "bumpretry", AfterBump(r)} :
               \/ Goto(r, pc)
               \/ Become(r, [task[r] EXCEPT !.pc = pc, !.held = version[r]])
        BY <1>3 DEF Bump, BumpRead, BumpRetry, Reread
      <3>2. QED
        BY <1>1, <3>1, Locals, LocalsHeld
    <2>3. QED
      BY <2>1, <2>2
  <1>4. CASE Check(r) \/ NoClient(r)
    <2>1. \/ Become(r, [task[r] EXCEPT !.pc = "bump", !.stage = "promote"])
          \/ Goto(r, "exit") \/ Goto(r, "write") \/ Finish(r, "failed")
      BY <1>4 DEF Check, NoClient
    <2>2. ASSUME Become(r, [task[r] EXCEPT !.pc = "bump", !.stage = "promote"])
          PROVE  task'[r].pc = "bump" /\ task'[r].stage = "promote"
      BY <1>1, <2>2, LocalsStage
    <2>3. Goto(r, "exit") \/ Goto(r, "write") \/ Finish(r, "failed")
             => task'[r].pc \in {"exit", "write", "read"}
      BY <1>1, Locals
    <2>4. QED
      BY <2>1, <2>2, <2>3
  <1>5. CASE ApplyRolling(r) \/ ApplyCandidate(r)
    <2>1. \/ Become(r, [task[r] EXCEPT !.pc = "bump", !.stage = "rollout"])
          \/ Become(r, [task[r] EXCEPT !.pc = "mark", !.stage = "rollout"])
          \/ ApplyFailed(r)
      BY <1>5 DEF ApplyRolling, ApplyCandidate
    <2>2. ASSUME NEW pc,
                 Become(r, [task[r] EXCEPT !.pc = pc, !.stage = "rollout"])
          PROVE  task'[r].pc = pc /\ task'[r].stage = "rollout"
      BY <1>1, <2>2, LocalsStage
    <2>3. ApplyFailed(r) => task'[r].pc = "read"
      BY <1>1, Locals
    <2>4. QED
      BY <2>1, <2>2, <2>3
  <1>6. CASE ScaleBatch(r)
    <2>1. ASSUME Become(r, [task[r] EXCEPT !.pc = "mark", !.batch = @ + 1])
          PROVE  task'[r].pc = "mark"
      <3>1. task'[r] = [task[r] EXCEPT !.pc = "mark", !.batch = @ + 1]
        BY <1>1, <2>1, Become1
      <3>2. QED
        BY <1>1, <3>1 DEF Task
    <2>2. task'[r].pc \in {"mark", "faildrop"}
      BY <1>1, <1>6, <2>1, Locals DEF ScaleBatch
    <2>3. QED
      BY <2>2
  <1>7. CASE MarkCandidate(r) \/ Promote(r) \/ Recheck(r)
    <2>1. task'[r].pc \in {"check", "wait", "faildrop", "exit", "read"}
      BY <1>1, <1>7, Locals DEF MarkCandidate, Promote, Recheck
    <2>2. QED
      BY <2>1
  <1>8. CASE Wait(r)
    <2>1. task[r].stage # "render"
      BY <1>8 DEF Wait, OwnInv, LateInv
    <2>2. PICK pc \in {"exit", "recheck", AfterWait(r)} : Goto(r, pc)
      BY <1>8 DEF Wait
    <2>3. pc \in {"exit", "recheck", "publish", "bump", "drop"}
      BY DEF AfterWait
    <2>4. QED
      BY <1>1, <2>1, <2>2, <2>3, Locals
  <1>9. CASE \/ DropCandidate(r) \/ ClearCandidate(r) \/ FailDrop(r)
             \/ FailClear(r) \/ CompleteExternal(r)
    <2>1. task'[r].pc \in {"publish", "read", "failclear"}
      BY <1>1, <1>9, Locals
      DEF DropCandidate, ClearCandidate, FailDrop, FailClear, CompleteExternal
    <2>2. QED
      BY <2>1
  <1>10. CASE Publish(r)
    <2>1. plan[r].strategy \in {"rolling", "candidate", "external"}
      BY <1>1 DEF TypeOK, StoreTypeOK, Plan, Strategy
    <2>2. task'[r].pc \in {"read", "clear", "exit"}
      BY <1>1, <1>10, <2>1, Locals DEF Publish
    <2>3. QED
      BY <2>2
  <1>11. CASE CompleteRead(r) \/ Complete(r)
    <2>1. ASSUME Become(r, [task[r] EXCEPT !.pc = "read", !.tries = @ + 1])
          PROVE  task'[r].pc = "read"
      <3>1. task'[r] = [task[r] EXCEPT !.pc = "read", !.tries = @ + 1]
        BY <1>1, <2>1, Become1
      <3>2. QED
        BY <1>1, <3>1 DEF Task
    <2>2. task'[r].pc \in {"complete", "read", "rollback", "exit"}
      BY <1>1, <1>11, <2>1, Locals, LocalsHeld
      DEF CompleteRead, Complete, AfterComplete
    <2>3. QED
      BY <2>2
  <1>12. QED
    BY <1>2, <1>3, <1>4, <1>5, <1>6, <1>7, <1>8, <1>9, <1>10, <1>11
    DEF Run, Execute

\* What it reports first: that it is running, or that inference was deployed.
LEMMA FirstReport ==
    ASSUME NEW r \in Release, Run(r), task[r].pc \in {"bump", "external"}
    PROVE  Bump(r) \/ CompleteExternal(r)
  <1>1. CASE \/ Prepare(r) \/ BumpRead(r) \/ BumpRetry(r) \/ Reread(r)
             \/ Check(r) \/ NoClient(r)
    BY <1>1 DEF At, Prepare, BumpRead, BumpRetry, Reread, Check, NoClient
  <1>2. CASE \/ ApplyRolling(r) \/ ApplyCandidate(r) \/ ScaleBatch(r)
             \/ MarkCandidate(r) \/ Promote(r) \/ Wait(r) \/ Recheck(r)
    BY <1>2 DEF At, ApplyRolling, ApplyCandidate, ScaleBatch, MarkCandidate,
                Promote, Wait, Recheck
  <1>3. CASE \/ DropCandidate(r) \/ Publish(r) \/ ClearCandidate(r)
             \/ FailDrop(r) \/ FailClear(r) \/ CompleteRead(r) \/ Complete(r)
    BY <1>3 DEF At, DropCandidate, Publish, ClearCandidate, FailDrop,
                FailClear, CompleteRead, Complete
  <1>4. QED
    BY <1>1, <1>2, <1>3 DEF Run, Execute

\* Neither does a step of anything else take a goroutine back.
LEMMA BegunStays ==
    ASSUME LockInv, [Next]_vars, NEW r \in Release, OwnInv(r), Begun(r)
    PROVE  Begun(r)'
  <1>1. CASE Run(r)
    BY <1>1, RunBegins
  <1>2. CASE Outside(r)
    BY <1>2 DEF Outside, Begun, At
  <1>3. QED
    BY <1>1, <1>2, OutsideStep

\* A request starts goroutines, but makes no report for one.
LEMMA ServeBegun ==
    ASSUME LockInv, NEW h \in Handlers, Serve(h), NEW r \in Release
    PROVE  Begun(r)' <=> Begun(r)
  <1>1. CASE task'[r] = task[r]
    BY <1>1 DEF Begun, At
  <1>2. CASE task'[r] # task[r]
    <2>1. task'[r].pc \in {"prepare", "external"}
      BY <1>2, ServeStarts
    <2>2. At(r, "idle")
      <3>1. In(h, "xreread") /\ r = api[h].rel => At(r, "idle")
        BY DEF LockInv, HandlerInv, In
      <3>2. Inserted(r) => At(r, "idle")
        BY DEF LockInv, TaskInv, Inserted
      <3>3. QED
        BY <1>2, <3>1, <3>2, ServeStarts
    <2>3. QED
      BY <2>1, <2>2 DEF Begun, At
  <1>3. QED
    BY <1>1, <1>2

\* Every step is one of ApprovalLifecycle's, or none.
LEMMA ApprovalsStep ==
    ASSUME LockInv, OwnInvs, [Next]_vars
    PROVE  \/ WithApprovals!Next
           \/ /\ UNCHANGED status
              /\ UNCHANGED {r \in Release : plan[r].gated}
              /\ UNCHANGED {r \in Release : Begun(r)}
  <1> DEFINE gated == {r \in Release : plan[r].gated}
             begun == {r \in Release : Begun(r)}
  <1> USE DEF WithApprovals!Next
  <1>1. /\ TypeOK /\ \A h \in Handlers : HandlerInv(h)
        /\ \A r \in Release : TaskInv(r) /\ OwnInv(r)
    BY DEF LockInv, OwnInvs
  <1>2. begun \subseteq begun'
    BY <1>1, BegunStays
  <1>3. UNCHANGED rows => UNCHANGED <<status, gated>>
    BY DEF rows
  <1>4. ASSUME NEW r \in Release, NEW v, NEW s, Cas(r, v, s)
        PROVE  WithApprovals!Plain!Becomes(r, s) /\ UNCHANGED gated
    BY <1>4 DEF Cas, WithApprovals!Plain!Becomes
  <1>5. ASSUME NEW r \in Release, Run(r), ~UNCHANGED rows
        PROVE  WithApprovals!Next
    <2>1. PICK s \in {"running", "succeeded", "failed"} :
             Cas(r, task[r].held, s)
      BY <1>5, RunWrites
    <2>2. begun' = begun \cup {r}
      <3>1. \A q \in Release : q # r => (Begun(q)' <=> Begun(q))
        BY <1>1, <1>5, RunOther DEF Begun, At
      <3>2. Begun(r)'
        BY <1>1, <1>5, RunBegins
      <3>3. QED
        BY <3>1, <3>2
    <2>3. WithApprovals!Plain!Becomes(r, s) /\ UNCHANGED gated
      BY <1>4, <2>1
    <2>4. CASE status[r] \in Live
      <3>1. \/ WithApprovals!Plain!Progress(r) \/ WithApprovals!Plain!Settle(r)
        BY <2>3, <2>4
        DEF Live, WithApprovals!Plain!Progress, WithApprovals!Plain!Settle,
            WithApprovals!Plain!InProgress, WithApprovals!Plain!Over
      <3>2. WithApprovals!Proceed(r)
        BY <2>2, <2>3, <3>1 DEF WithApprovals!Proceed
      <3>3. QED
        BY <3>2
    <2>5. CASE status[r] \notin Live
      <3>1. WillCas(r) /\ version[r] = task[r].held
        BY <1>5, <2>1, RunWrites DEF Cas
      <3>2. ~Covered(r)
        BY <1>1, <2>5, <3>1 DEF TaskInv, Guards
      <3>3. task[r].pc \in {"prepare", "bump", "external"}
        BY <3>1, <3>2 DEF Covered, Begun, WillCas, At
      <3>4. status[r] \in {"aborted", "interrupted"}
        BY <1>1, <2>5, <3>3
        DEF TaskInv, At, Live, Final, TypeOK, StoreTypeOK, Status
      <3>5. s \in {"running", "succeeded"}
        <4>1. task[r].pc # "prepare"
          BY <1>5, RunWrites DEF At
        <4>2. Bump(r) \/ CompleteExternal(r)
          BY <1>5, <3>3, <4>1, FirstReport
        <4>3. status'[r] \in {"running", "succeeded"}
          BY <1>1, <1>5, <4>2, Cas1 DEF Bump, CompleteExternal
        <4>4. QED
          BY <1>1, <2>1, <4>3, Cas1
      <3>6. WithApprovals!Revive(r)
        BY <2>2, <2>3, <3>2, <3>4, <3>5 DEF Covered, WithApprovals!Revive
      <3>7. QED
        BY <3>6
    <2>6. QED
      BY <2>4, <2>5
  <1>6. ASSUME NEW h \in Handlers, Serve(h), ~UNCHANGED rows
        PROVE  WithApprovals!Next
    <2>1. PICK r \in Release : r = api[h].rel
      BY <1>1, <1>6, HandledRelease, ServeRows DEF In
    <2>2. UNCHANGED begun
      BY <1>6, ServeBegun
    <2> USE DEF WithApprovals!Plain!Submit, WithApprovals!Plain!Progress,
                WithApprovals!Plain!Settle, WithApprovals!Plain!Supersede,
                WithApprovals!Plain!InProgress, WithApprovals!Plain!Over
    <2>3. CASE In(h, "icas") /\ Cas(r, api[h].held, "interrupted")
      <3>1. status[r] \in Live \cup Final
        BY <1>1, <2>1, <2>3
        DEF HandlerInv, In, Started, TypeOK, StoreTypeOK, Status
      <3>2. \/ WithApprovals!Plain!Settle(r)
            \/ WithApprovals!Plain!Supersede(r)
        BY <1>4, <2>1, <2>3, <3>1 DEF Live, Final
      <3>3. WithApprovals!Proceed(r)
        BY <1>4, <2>1, <2>2, <2>3, <3>2 DEF WithApprovals!Proceed
      <3>4. QED
        BY <2>1, <3>3
    <2>4. CASE In(h, "xcas") /\ Cas(r, api[h].held, "running")
      <3>1. plan[r].gated /\ status[r] = "pending_approval"
        BY <1>1, <2>1, <2>4 DEF HandlerInv, In, ReadBefore, Guards, Cas
      <3>2. WithApprovals!Approve(r)
        BY <1>4, <2>1, <2>2, <2>4, <3>1 DEF WithApprovals!Approve
      <3>3. QED
        BY <2>1, <3>2
    <2>5. CASE /\ api[h].pc \in {"acas", "pcas", "rcas"}
               /\ Cas(r, api[h].held, Verdict(api[h].pc))
      <3>1. status[r] \in ReadBefore(api[h].pc)
        BY <1>1, <2>1, <2>5 DEF HandlerInv, Guards, Cas
      <3>2. status[r] \in {"running", "paused"}
        BY <2>5, <3>1 DEF ReadBefore, Live
      <3>3. Verdict(api[h].pc) \in {"running", "paused", "aborted"}
        BY <2>5 DEF Verdict
      <3>4. /\ WithApprovals!Plain!Becomes(r, Verdict(api[h].pc))
            /\ UNCHANGED gated
        BY <1>4, <2>1, <2>5
      <3>5. WithApprovals!Plain!Progress(r) \/ WithApprovals!Plain!Settle(r)
        BY <3>2, <3>3, <3>4
      <3>6. WithApprovals!Proceed(r)
        BY <2>2, <3>4, <3>5 DEF WithApprovals!Proceed
      <3>7. QED
        BY <2>1, <3>6
    <2>6. CASE In(h, "insert") /\ api[h].want.gated
               /\ Insert(r, "pending_approval", api[h].want)
      <3>1. gated' = gated \cup {r}
        BY <1>1, <2>1, <2>6 DEF Insert, TypeOK, StoreTypeOK
      <3>2. WithApprovals!Propose(r)
        BY <2>2, <2>6, <3>1
        DEF Insert, WithApprovals!Propose, WithApprovals!Plain!Becomes
      <3>3. QED
        BY <2>1, <3>2
    <2>7. CASE In(h, "insert") /\ ~api[h].want.gated
               /\ Insert(r, "running", api[h].want)
      <3>1. ~plan[r].gated
        BY <1>1, <2>1, <2>7 DEF Insert, TaskInv
      <3>2. UNCHANGED gated
        BY <1>1, <2>1, <2>7, <3>1 DEF Insert, TypeOK, StoreTypeOK
      <3>3. WithApprovals!Proceed(r)
        BY <2>2, <2>7, <3>2
        DEF Insert, WithApprovals!Proceed, WithApprovals!Plain!Becomes
      <3>4. QED
        BY <2>1, <3>3
    <2>8. QED
      BY <1>6, <2>1, <2>3, <2>4, <2>5, <2>6, <2>7, ServeRows
  <1>7. CASE \/ UNCHANGED rows
    <2>1. WithApprovals!Begin
      BY <1>2, <1>3, <1>7 DEF WithApprovals!Begin
    <2>2. QED
      BY <2>1
  <1>8. QED
    BY <1>5, <1>6, <1>7, HandleWant DEF Next, Crash, vars, store, rows

\* Whatever is approved, rejected, aborted, interrupted or lost in a crash, the
\* releases of every group follow the life cycle with approvals.
THEOREM ApprovalsImplemented == Spec => ImplementsApprovals
  <1>1. Init => WithApprovals!Init
    BY DEF Init, StoreInit, ExecutorInit, NoPlan, NoTask, Begun,
           WithApprovals!Init, WithApprovals!Plain!Init
  <1>2. LockInv /\ OwnInvs /\ [Next]_vars =>
           [WithApprovals!Next]_<<status, {r \in Release : plan[r].gated},
                                  {r \in Release : Begun(r)}>>
    BY ApprovalsStep
  <1>3. QED
    BY <1>1, <1>2, LockInvariant, OwnInvariant, PTL
    DEF Spec, ImplementsApprovals, WithApprovals!Spec

-----------------------------------------------------------------------------
(* What approvals guard.                                                   *)

\* A request that runs a pending release follows its approval; one that is to
\* create an approval is alone with it.
HandlerApproval(h) ==
    LET r == api[h].rel IN
    /\ In(h, "approval") =>
          r \in Release /\ status[r] # "none" /\ approval[r] = "none"
    /\ api[h].pc \in {"xread", "xcas", "xreread"} =>
          r \in Release /\ approval[r] = "approved"

CreatorInv ==
    \A h, k \in Handlers :
        In(h, "approval") /\ In(k, "approval") /\ api[h].rel = api[k].rel
            => h = k

ApprovalInv ==
    /\ UnapprovedNeverRuns
    /\ \A r \in Release : status[r] = "none" => approval[r] = "none"
    /\ \A h \in Handlers : HandlerApproval(h)
    /\ CreatorInv

LEMMA ApprovalRun ==
    ASSUME LockInv, ApprovalInv, NEW r \in Release, Run(r)
    PROVE  ApprovalInv'
  <1>1. /\ TypeOK /\ api' = api /\ approval' = approval
        /\ ~At(r, "idle") /\ Started(r)
    BY RunStarted DEF LockInv, Run
  <1>2. \A q \in Release : q # r => /\ status'[q] = status[q]
                                   /\ plan'[q] = plan[q] /\ task'[q] = task[q]
    BY <1>1, RunOther
  <1>3. status'[r] # "none" /\ plan'[r] = plan[r]
    <2>1. CASE UNCHANGED rows
      BY <1>1, <2>1 DEF rows, Started
    <2>2. ASSUME NEW s \in {"running", "succeeded", "failed"},
                 Cas(r, task[r].held, s)
          PROVE  status'[r] # "none" /\ plan'[r] = plan[r]
      BY <1>1, <2>2, Cas1
    <2>3. QED
      BY <1>1, <2>1, <2>2, RunRows
  <1>4. plan[r].gated => approval[r] = "approved"
    BY <1>1 DEF ApprovalInv, UnapprovedNeverRuns
  <1>5. UnapprovedNeverRuns'
    BY <1>1, <1>2, <1>3, <1>4 DEF ApprovalInv, UnapprovedNeverRuns, At
  <1>6. \A q \in Release : status'[q] = "none" <=> status[q] = "none"
    BY <1>1, <1>2, <1>3 DEF Started
  <1>7. \A h \in Handlers : HandlerApproval(h)'
    BY <1>1, <1>6 DEF ApprovalInv, HandlerApproval, In
  <1>8. CreatorInv'
    BY <1>1 DEF ApprovalInv, CreatorInv, In
  <1>9. QED
    BY <1>1, <1>5, <1>6, <1>7, <1>8 DEF ApprovalInv

\* What a request does about approvals.
LEMMA ServeApprovals ==
    ASSUME LockInv, NEW h \in Handlers, Serve(h)
    PROVE  \/ CreateApproval(h)
           \/ /\ approval' = approval
              /\ api'[h].pc \notin {"approval", "xread", "xcas", "xreread"}
           \/ /\ approval' = approval
              /\ api[h].pc \in {"xread", "xcas"}
              /\ api'[h].pc \in {"xcas", "xreread"}
              /\ api'[h].rel = api[h].rel
           \/ /\ approval' = approval
              /\ In(h, "insert")
              /\ Insert(api[h].rel, "pending_approval", api[h].want)
              /\ api'[h].pc = "approval"
              /\ api'[h].rel = api[h].rel
  <1>1. TypeOK /\ api[h] \in Api
    BY DEF LockInv, TypeOK
  <1>2. ASSUME NEW pc, Step(h, pc)
        PROVE  api'[h].pc = pc /\ api'[h].rel = api[h].rel
    <2>1. api'[h] = [api[h] EXCEPT !.pc = pc]
      BY <1>1, <1>2, Put1 DEF Step
    <2>2. QED
      BY <1>1, <2>1 DEF Api
  <1>3. Return(h) => api'[h].pc = "idle"
    BY <1>1, Put1 DEF Return, NoCall
  <1>4. CASE Sweep(h) \/ Unmark(h) \/ Scale(h)
    BY <1>2, <1>4 DEF Sweep, Unmark, Scale
  <1>5. CASE List(h)
    <2>1. api'[h].pc = "iread"
      <3>1. api'[h] = [api[h] EXCEPT !.pc = "iread", !.tries = 0,
                                     !.todo = InStatus(api[h].scan)]
        BY <1>1, <1>5, Put1 DEF List
      <3>2. QED
        BY <1>1, <3>1 DEF Api
    <2>2. QED
      BY <1>5, <2>1 DEF List
  <1>6. CASE NextInterrupt(h)
    <2>1. api'[h].pc \in {"icas", "list", "number"}
      <3>1. CASE Step(h, "number")
        BY <1>2, <3>1
      <3>2. ASSUME NEW r \in Release,
                   Put(h, [api[h] EXCEPT !.pc = "icas", !.rel = r,
                                         !.held = version[r]])
            PROVE  api'[h].pc = "icas"
        <4>1. api'[h] = [api[h] EXCEPT !.pc = "icas", !.rel = r,
                                       !.held = version[r]]
          BY <1>1, <3>2, Put1
        <4>2. QED
          BY <1>1, <4>1 DEF Api
      <3>3. CASE Put(h, [api[h] EXCEPT !.pc = "list", !.scan = "paused"])
        <4>1. api'[h] = [api[h] EXCEPT !.pc = "list", !.scan = "paused"]
          BY <1>1, <3>3, Put1
        <4>2. QED
          BY <1>1, <4>1 DEF Api
      <3>4. api[h].todo \subseteq Release
        BY <1>1 DEF Api
      <3>5. QED
        BY <1>6, <3>1, <3>2, <3>3, <3>4 DEF NextInterrupt
    <2>2. QED
      BY <1>6, <2>1 DEF NextInterrupt
  <1>7. CASE Interrupt(h)
    <2>1. api'[h].pc = "iread"
      <3>1. \/ Put(h, [api[h] EXCEPT !.pc = "iread", !.todo = @ \ {api[h].rel},
                                     !.tries = 0])
            \/ Put(h, [api[h] EXCEPT !.pc = "iread", !.tries = @ + 1])
        BY <1>7 DEF Interrupt
      <3>2. \/ api'[h] = [api[h] EXCEPT !.pc = "iread", !.todo = @ \ {api[h].rel},
                                        !.tries = 0]
            \/ api'[h] = [api[h] EXCEPT !.pc = "iread", !.tries = @ + 1]
        BY <1>1, <3>1, Put1
      <3>3. QED
        BY <1>1, <3>2 DEF Api
    <2>2. QED
      BY <1>7, <2>1 DEF Interrupt
  <1>8. CASE Number(h)
    <2>1. api'[h].pc \in {"insert", "idle"}
      <3>1. CASE Return(h)
        BY <1>3, <3>1
      <3>2. ASSUME NEW w, Put(h, [api[h] EXCEPT !.pc = "insert",
                                                !.rel = NextNumber, !.want = w])
            PROVE  api'[h].pc = "insert"
        <4>1. api'[h] = [api[h] EXCEPT !.pc = "insert",
                                       !.rel = NextNumber, !.want = w]
          BY <1>1, <3>2, Put1
        <4>2. QED
          BY <1>1, <4>1 DEF Api
      <3>3. QED
        BY <1>8, <3>1, <3>2 DEF Number
    <2>2. QED
      BY <1>8, <2>1 DEF Number
  <1>9. CASE Create(h)
    BY <1>2, <1>3, <1>9 DEF Create
  <1>10. CASE PendingRead(h)
    <2>1. CASE Put(h, [api[h] EXCEPT !.pc = "xcas", !.base = current,
                                     !.held = version[api[h].rel]])
      <3>1. api'[h] = [api[h] EXCEPT !.pc = "xcas", !.base = current,
                                     !.held = version[api[h].rel]]
        BY <1>1, <2>1, Put1
      <3>2. api'[h].pc = "xcas" /\ api'[h].rel = api[h].rel
        BY <1>1, <3>1 DEF Api
      <3>3. QED
        BY <1>10, <3>2 DEF PendingRead, In
    <2>2. QED
      BY <1>3, <1>10, <2>1 DEF PendingRead
  <1>11. CASE PendingRun(h) \/ PendingLaunch(h)
    BY <1>2, <1>3, <1>11 DEF PendingRun, PendingLaunch, In
  <1>12. CASE Decide(h)
    BY <1>3, <1>12 DEF Decide
  <1>13. QED
    BY <1>4, <1>5, <1>6, <1>7, <1>8, <1>9, <1>10, <1>11, <1>12 DEF Serve

\* A request starts or settles a gated release only after its approval.
LEMMA ServeUnapproved ==
    ASSUME LockInv, ApprovalInv, NEW h \in Handlers, Serve(h),
           NEW r \in Release, plan'[r].gated, approval[r] # "approved"
    PROVE  status'[r] = "pending_approval" /\ At(r, "idle")'
  <1>1. /\ TypeOK /\ TaskInv(r) /\ HandlerInv(h) /\ HandlerApproval(h)
        /\ plan[r].gated => status[r] = "pending_approval" /\ At(r, "idle")
    BY DEF LockInv, ApprovalInv, UnapprovedNeverRuns
  <1>2. CASE Kept(r)
    <2>1. status[r] = "pending_approval" /\ At(r, "idle")
      BY <1>1, <1>2 DEF Kept
    <2>2. ~(In(h, "xreread") /\ r = api[h].rel)
      BY <1>1 DEF HandlerApproval, In
    <2>3. task'[r] = task[r]
      BY <2>1, <2>2, ServeStarts DEF Inserted
    <2>4. QED
      BY <1>2, <2>1, <2>3 DEF Kept, At
  <1>3. CASE r = api[h].rel /\ Written(r)
    <2>1. status[r] = "pending_approval"
      BY <1>1, <1>3 DEF Written
    <2>2. version'[r] = version[r] + 1 /\ version[r] \in Nat
      BY <1>1, <1>3 DEF Written, TypeOK, StoreTypeOK
    <2>3. ~UNCHANGED rows
      BY <2>2 DEF rows
    <2>4. ~In(h, "icas")
      BY <1>1, <1>3, <2>1 DEF HandlerInv, In, Started
    <2>5. ~In(h, "xcas")
      BY <1>1, <1>3 DEF HandlerApproval, In
    <2>6. ~(/\ api[h].pc \in {"acas", "pcas", "rcas"}
            /\ Cas(api[h].rel, api[h].held, Verdict(api[h].pc)))
      BY <1>1, <1>3, <2>1 DEF HandlerInv, ReadBefore, Guards, Cas, Live
    <2>7. ~\E s, p : Insert(api[h].rel, s, p)
      BY <1>3, <2>1 DEF Insert
    <2>8. QED
      BY <2>3, <2>4, <2>5, <2>6, <2>7, ServeRows
  <1>4. CASE /\ r = api[h].rel /\ Inserted(r) /\ In(h, "insert")
             /\ plan'[r] = api[h].want
             /\ status'[r] = IF api[h].want.gated THEN "pending_approval"
                                                  ELSE "running"
    <2>1. At(r, "idle") /\ status'[r] = "pending_approval"
      BY <1>1, <1>4 DEF TaskInv, Inserted
    <2>2. task'[r] = task[r]
      BY <1>4, ServeStarts DEF In
    <2>3. QED
      BY <2>1, <2>2 DEF At
  <1>5. QED
    BY <1>2, <1>3, <1>4, ServeWrites

LEMMA ApprovalServe ==
    ASSUME LockInv, ApprovalInv, NEW h \in Handlers, Serve(h)
    PROVE  ApprovalInv'
  <1>1. /\ TypeOK /\ HandlerApproval(h)
        /\ approval \in [Release -> {"none", "pending", "approved", "rejected"}]
    BY DEF LockInv, TypeOK, ApprovalInv
  <1>2. \A k \in Handlers : k # h => api'[k] = api[k]
    BY <1>1, ServePuts, Put1
  <1>3. CreateApproval(h) =>
           /\ In(h, "approval") /\ api'[h].pc = "idle" /\ UNCHANGED rows
           /\ \/ approval' = [approval EXCEPT ![api[h].rel] = "pending"]
              \/ approval' = approval
    BY <1>1, Put1 DEF CreateApproval, Return, NoCall, store
  <1>4. \A r \in Release :
           /\ status[r] # "none" => status'[r] # "none"
           /\ approval'[r] = "approved" <=> approval[r] = "approved"
    <2>1. \A r \in Release : status[r] # "none" => status'[r] # "none"
      BY ServeWrites DEF Kept, Written, Inserted, Live, Final
    <2>2. \A r \in Release : approval'[r] = "approved" <=> approval[r] = "approved"
      BY <1>1, <1>3, ServeApprovals DEF HandlerApproval
    <2>3. QED
      BY <2>1, <2>2
  <1>5. UnapprovedNeverRuns'
    BY <1>4, ServeUnapproved DEF UnapprovedNeverRuns
  <1>6. ASSUME NEW r \in Release, status'[r] = "none"
        PROVE  approval'[r] = "none"
    <2>1. approval[r] = "none" /\ status[r] = "none"
      BY <1>4, <1>6 DEF ApprovalInv
    <2>2. CreateApproval(h) => r # api[h].rel
      BY <1>1, <1>3, <2>1 DEF HandlerApproval
    <2>3. QED
      BY <1>1, <1>3, <2>1, <2>2, ServeApprovals
  <1>7. ASSUME NEW k \in Handlers
        PROVE  HandlerApproval(k)'
    <2>1. HandlerApproval(k)
      BY DEF ApprovalInv
    <2>2. CASE k # h
      <3>1. api'[k] = api[k]
        BY <1>2, <2>2
      <3>2. In(k, "approval") /\ CreateApproval(h) => api[k].rel # api[h].rel
        BY <1>3, <2>2 DEF ApprovalInv, CreatorInv
      <3>3. In(k, "approval") => approval'[api[k].rel] = "none"
        BY <1>1, <1>3, <2>1, <3>2, ServeApprovals DEF HandlerApproval
      <3>4. QED
        BY <1>4, <2>1, <3>1, <3>3 DEF HandlerApproval, In
    <2>3. CASE k = h
      <3>1. CASE CreateApproval(h)
        BY <1>3, <2>3, <3>1 DEF HandlerApproval, In
      <3>2. CASE api'[h].pc \notin {"approval", "xread", "xcas", "xreread"}
        BY <2>3, <3>2 DEF HandlerApproval, In
      <3>3. CASE /\ api[h].pc \in {"xread", "xcas"}
                 /\ api'[h].pc \in {"xcas", "xreread"}
                 /\ api'[h].rel = api[h].rel
        BY <1>1, <1>4, <2>3, <3>3 DEF HandlerApproval, In
      <3>4. CASE /\ approval' = approval
                 /\ In(h, "insert")
                 /\ Insert(api[h].rel, "pending_approval", api[h].want)
                 /\ api'[h].pc = "approval"
                 /\ api'[h].rel = api[h].rel
        <4>1. api[h].rel \in Release
          BY <3>4, HandledRelease DEF LockInv, In
        <4>2. status[api[h].rel] = "none" /\ status'[api[h].rel] = "pending_approval"
          BY <1>1, <3>4, <4>1 DEF Insert, TypeOK, StoreTypeOK
        <4>3. approval[api[h].rel] = "none"
          BY <4>1, <4>2 DEF ApprovalInv
        <4>4. QED
          BY <2>3, <3>4, <4>1, <4>2, <4>3 DEF HandlerApproval, In
      <3>5. QED
        BY <3>1, <3>2, <3>3, <3>4, ServeApprovals
    <2>4. QED
      BY <2>2, <2>3
  <1>8. CreatorInv'
    <2>1. ASSUME NEW k \in Handlers, k # h, In(k, "approval")', In(h, "approval")'
          PROVE  api'[k].rel # api'[h].rel
      <3>1. /\ status[api[k].rel] # "none" /\ api'[k].rel = api[k].rel
        BY <1>2, <2>1 DEF ApprovalInv, HandlerApproval, In
      <3>2. status[api'[h].rel] = "none"
        BY <1>3, <2>1, ServeApprovals DEF In, Insert
      <3>3. QED
        BY <3>1, <3>2
    <2>2. QED
      BY <1>2, <2>1 DEF ApprovalInv, CreatorInv, In
  <1>9. QED
    BY <1>5, <1>6, <1>7, <1>8 DEF ApprovalInv

LEMMA ApprovalHandle ==
    ASSUME LockInv, ApprovalInv, NEW h \in Handlers, Handle(h)
    PROVE  ApprovalInv'
  <1>1. /\ TypeOK
        /\ approval \in [Release -> {"none", "pending", "approved", "rejected"}]
    BY DEF LockInv, TypeOK
  <1>2. \/ api' = api /\ approval' = approval
        \/ \E c : /\ Put(h, c) /\ approval' = approval
                  /\ c.pc \notin {"approval", "xread", "xcas", "xreread"}
        \/ \E q \in Release : /\ approval[q] = "pending"
                              /\ approval' = [approval EXCEPT ![q] = "rejected"]
                              /\ Put(h, NoCall)
        \/ \E q \in Release :
              /\ approval[q] = "pending"
              /\ approval' = [approval EXCEPT ![q] = "approved"]
              /\ Put(h, [NoCall EXCEPT !.pc = "xread", !.rel = q])
    <2>1. CASE Trigger(h) \/ Rollback(h)
      <3>1. PICK s, a : /\ Put(h, TriggerCall(s, a)) /\ approval' = approval
        BY <2>1 DEF Trigger, Rollback, Request
      <3>2. TriggerCall(s, a).pc = "sweep"
        BY DEF TriggerCall, NoCall
      <3>3. QED
        BY <3>1, <3>2
    <2>2. ASSUME NEW q \in Release, AutoRollback(q, h)
          PROVE  \/ api' = api /\ approval' = approval
                 \/ \E c : /\ Put(h, c) /\ approval' = approval
                           /\ c.pc \notin {"approval", "xread", "xcas", "xreread"}
      <3>1. \/ api' = api /\ approval' = approval
            \/ \E s : /\ Put(h, TriggerCall(s, FALSE))
                     /\ approval' = approval
        BY <2>2 DEF AutoRollback
      <3>2. \A s : TriggerCall(s, FALSE).pc = "sweep"
        BY DEF TriggerCall, NoCall
      <3>3. QED
        BY <3>1, <3>2
    <2>3. ASSUME NEW q \in Release, Approve(h, q)
          PROVE  /\ approval[q] = "pending"
                 /\ approval' = [approval EXCEPT ![q] = "approved"]
                 /\ Put(h, [NoCall EXCEPT !.pc = "xread", !.rel = q])
      BY <2>3 DEF Approve, Request
    <2>4. ASSUME NEW q \in Release, Reject(h, q)
          PROVE  /\ approval[q] = "pending"
                 /\ approval' = [approval EXCEPT ![q] = "rejected"]
                 /\ Put(h, NoCall)
      BY <2>4 DEF Reject, Request
    <2>5. ASSUME NEW q \in Release, Abort(h, q) \/ Pause(h, q) \/ Resume(h, q)
          PROVE  \E c : /\ Put(h, c) /\ approval' = approval
                        /\ c.pc \notin {"approval", "xread", "xcas", "xreread"}
      <3>1. PICK pc \in {"acas", "pscale", "rscale"} :
               Put(h, Reading(pc, q)) /\ approval' = approval
        BY <2>5 DEF Abort, Pause, Resume, Request
      <3>2. Reading(pc, q).pc = pc
        BY DEF Reading, NoCall
      <3>3. QED
        BY <3>1, <3>2
    <2>6. QED
      BY <2>1, <2>2, <2>3, <2>4, <2>5 DEF Handle
  <1>3. /\ status' = status /\ plan' = plan
        /\ \A r \in Release : At(r, "idle") => At(r, "idle")'
    <2>1. UNCHANGED store
      <3>1. 1 \in Release
        BY StoreAssumption DEF Release
      <3>2. QED
        BY <1>1, <3>1, HandleKeeps
    <2>2. ASSUME NEW r \in Release, At(r, "idle")
          PROVE  At(r, "idle")'
      BY <1>1, <2>2, HandleKeeps DEF At
    <2>3. QED
      BY <2>1, <2>2 DEF store, rows
  <1>4. \A r \in Release :
           /\ approval[r] = "none" => approval'[r] = "none"
           /\ approval[r] = "approved" => approval'[r] = "approved"
    BY <1>1, <1>2
  <1>5. UnapprovedNeverRuns'
    BY <1>3, <1>4 DEF ApprovalInv, UnapprovedNeverRuns
  <1>6. \A r \in Release : status'[r] = "none" => approval'[r] = "none"
    BY <1>3, <1>4 DEF ApprovalInv
  <1>7. \A k \in Handlers : k # h => api'[k] = api[k]
    BY <1>1, <1>2, Put1
  <1>8. \/ api'[h] = api[h]
        \/ api'[h].pc \notin {"approval", "xread", "xcas", "xreread"}
        \/ /\ api'[h].pc = "xread" /\ api'[h].rel \in Release
           /\ approval'[api'[h].rel] = "approved"
    <2>1. ASSUME NEW q \in Release
          PROVE  LET c == [NoCall EXCEPT !.pc = "xread", !.rel = q]
                 IN c.pc = "xread" /\ c.rel = q
      BY DEF NoCall
    <2>2. NoCall.pc = "idle"
      BY DEF NoCall
    <2>3. CASE \E c : /\ Put(h, c)
                      /\ c.pc \notin {"approval", "xread", "xcas", "xreread"}
      BY <1>1, <2>3, Put1
    <2>4. CASE Put(h, NoCall)
      BY <1>1, <2>2, <2>4, Put1
    <2>5. ASSUME NEW q \in Release,
                 approval' = [approval EXCEPT ![q] = "approved"],
                 Put(h, [NoCall EXCEPT !.pc = "xread", !.rel = q])
          PROVE  /\ api'[h].pc = "xread" /\ api'[h].rel \in Release
                 /\ approval'[api'[h].rel] = "approved"
      <3>1. api'[h] = [NoCall EXCEPT !.pc = "xread", !.rel = q]
        BY <1>1, <2>5, Put1
      <3>2. api'[h].pc = "xread" /\ api'[h].rel = q
        BY <2>1, <3>1
      <3>3. QED
        BY <1>1, <2>5, <3>2
    <2>6. QED
      BY <1>2, <2>3, <2>4, <2>5
  <1>9. \A k \in Handlers : HandlerApproval(k)'
    BY <1>3, <1>4, <1>7, <1>8 DEF ApprovalInv, HandlerApproval, In
  <1>10. CreatorInv'
    BY <1>7, <1>8 DEF ApprovalInv, CreatorInv, In
  <1>11. QED
    BY <1>5, <1>6, <1>9, <1>10 DEF ApprovalInv

LEMMA ApprovalNext ==
    ASSUME LockInv, ApprovalInv, [Next]_vars
    PROVE  ApprovalInv'
  <1>1. CASE UNCHANGED vars
    BY <1>1 DEF vars, rows, executor, ApprovalInv, UnapprovedNeverRuns, At,
                HandlerApproval, CreatorInv, In
  <1>2. CASE Crash
    <2>1. /\ \A r \in Release : At(r, "idle") => At(r, "idle")'
          /\ status' = status /\ plan' = plan /\ approval' = approval
          /\ \A h \in Handlers : api'[h].pc = "idle"
      BY <1>2 DEF Crash, store, rows, At, NoCall
    <2>2. QED
      BY <2>1 DEF ApprovalInv, UnapprovedNeverRuns, HandlerApproval,
                  CreatorInv, In
  <1>3. QED
    BY <1>1, <1>2, ApprovalRun, ApprovalServe, ApprovalHandle DEF Next

LEMMA ApprovalInit == ASSUME Init PROVE ApprovalInv
  <1>1. /\ \A r \in Release : ~plan[r].gated /\ approval[r] = "none"
        /\ \A h \in Handlers : api[h].pc = "idle"
    BY DEF Init, StoreInit, NoPlan, NoCall
  <1>2. QED
    BY <1>1 DEF ApprovalInv, UnapprovedNeverRuns, HandlerApproval, CreatorInv,
                In

\* A release that needs an approval stays pending and has no goroutine until
\* the approval is given.
THEOREM UnapprovedNeverRunsThm == Spec => []UnapprovedNeverRuns
  <1>1. Init => ApprovalInv
    BY ApprovalInit
  <1>2. LockInv /\ ApprovalInv /\ [Next]_vars => ApprovalInv'
    BY ApprovalNext
  <1>3. ApprovalInv => UnapprovedNeverRuns
    BY DEF ApprovalInv
  <1>4. QED
    BY <1>1, <1>2, <1>3, LockInvariant, PTL DEF Spec

-----------------------------------------------------------------------------
(* One release at a time, unless a second one slipped in.                  *)

\* What one step may do to the status of a release.
RowMove(r) ==
    \/ status'[r] = status[r]
    \/ status'[r] \notin Live
    \/ status'[r] = "running" /\ status[r] \notin {"none", "running"}
    \/ status'[r] = "paused" /\ status[r] = "running"
    \/ \E h \in Handlers : In(h, "insert") /\ ~In(h, "insert")'

LEMMA ServeRowMove ==
    ASSUME LockInv, NEW h \in Handlers, Serve(h), NEW r \in Release
    PROVE  RowMove(r)
  <1>1. TypeOK /\ HandlerInv(h)
    BY DEF LockInv
  <1>2. CASE UNCHANGED rows
    BY <1>2 DEF rows, RowMove
  <1>3. ASSUME NEW s, Cas(api[h].rel, api[h].held, s)
        PROVE  \/ status'[r] = status[r]
               \/ status'[r] = s /\ r = api[h].rel
    BY <1>1, <1>3 DEF Cas, TypeOK, StoreTypeOK
  <1>4. CASE In(h, "icas") /\ Cas(api[h].rel, api[h].held, "interrupted")
    BY <1>3, <1>4 DEF RowMove, Live
  <1>5. CASE In(h, "xcas") /\ Cas(api[h].rel, api[h].held, "running")
    <2>1. status[api[h].rel] = "pending_approval"
      BY <1>1, <1>5 DEF HandlerInv, In, Cas, Guards, ReadBefore
    <2>2. QED
      BY <1>3, <1>5, <2>1 DEF RowMove
  <1>6. CASE /\ api[h].pc \in {"acas", "pcas", "rcas"}
             /\ Cas(api[h].rel, api[h].held, Verdict(api[h].pc))
    <2>1. status[api[h].rel] \in ReadBefore(api[h].pc)
      BY <1>1, <1>6 DEF HandlerInv, Cas, Guards
    <2>2. CASE api[h].pc = "acas"
      BY <1>3, <1>6, <2>2 DEF Verdict, RowMove, Live
    <2>3. CASE api[h].pc = "pcas"
      BY <1>3, <1>6, <2>1, <2>3 DEF Verdict, ReadBefore, RowMove
    <2>4. CASE api[h].pc = "rcas"
      BY <1>3, <1>6, <2>1, <2>4 DEF Verdict, ReadBefore, RowMove
    <2>5. QED
      BY <1>6, <2>2, <2>3, <2>4
  <1>7. CASE In(h, "insert")
    <2>1. Create(h)
      BY <1>7 DEF In, Serve, Sweep, Unmark, List, NextInterrupt, Interrupt,
                  Number, CreateApproval, PendingRead, PendingRun,
                  PendingLaunch, Scale, Decide
    <2>2. api'[h].pc \in {"approval", "idle"}
      <3>1. api[h] \in Api
        BY <1>1 DEF TypeOK
      <3>2. \/ Put(h, [api[h] EXCEPT !.pc = "approval"])
            \/ Put(h, NoCall)
        BY <2>1 DEF Create, Step, Return
      <3>3. \/ api'[h] = [api[h] EXCEPT !.pc = "approval"]
            \/ api'[h] = NoCall
        BY <1>1, <3>2, Put1
      <3>4. QED
        BY <3>1, <3>3 DEF Api, NoCall
    <2>3. ~In(h, "insert")'
      BY <2>2 DEF In
    <2>4. QED
      BY <1>7, <2>3 DEF RowMove
  <1>8. QED
    BY <1>2, <1>4, <1>5, <1>6, <1>7, ServeRows

LEMMA HandleRows ==
    ASSUME LockInv, \/ UNCHANGED vars \/ Crash
                    \/ \E h \in Handlers : Handle(h)
    PROVE  \A r \in Release : status'[r] = status[r]
  <1>1. CASE UNCHANGED vars \/ Crash
    BY <1>1 DEF vars, rows, Crash, store
  <1>2. ASSUME NEW h \in Handlers, Handle(h), NEW r \in Release
        PROVE  status'[r] = status[r]
    BY <1>2, HandleKeeps DEF LockInv, store, rows
  <1>3. QED
    BY <1>1, <1>2

LEMMA NextRowMove ==
    ASSUME LockInv, [Next]_vars, NEW r \in Release
    PROVE  RowMove(r)
  <1>1. ASSUME NEW q \in Release, Run(q)
        PROVE  RowMove(r)
    <2>1. TypeOK
      BY DEF LockInv
    <2>2. CASE q # r
      BY <1>1, <2>1, <2>2, RunOther DEF RowMove
    <2>3. CASE q = r /\ UNCHANGED rows
      BY <2>3 DEF rows, RowMove
    <2>4. CASE q = r /\ ~UNCHANGED rows
      <3>1. PICK s \in {"running", "succeeded", "failed"} :
               Cas(r, task[r].held, s)
        BY <1>1, <2>4, RunWrites
      <3>2. status'[r] = s
        BY <2>1, <3>1, Cas1
      <3>3. status[r] # "none"
        BY <1>1, <2>4, RunStarted DEF Started
      <3>4. QED
        BY <3>2, <3>3 DEF RowMove, Live
    <2>5. QED
      BY <2>2, <2>3, <2>4
  <1>2. CASE UNCHANGED vars \/ Crash \/ \E h \in Handlers : Handle(h)
    BY <1>2, HandleRows DEF RowMove
  <1>3. QED
    BY <1>1, <1>2, ServeRowMove DEF Next

\* No step changes the status of two releases.
LEMMA OneRow ==
    ASSUME LockInv, [Next]_vars, NEW r \in Release, NEW q \in Release, r # q
    PROVE  status'[r] = status[r] \/ status'[q] = status[q]
  <1>1. ASSUME NEW p \in Release, Run(p)
        PROVE  status'[r] = status[r] \/ status'[q] = status[q]
    BY <1>1, RunOther DEF LockInv
  <1>2. ASSUME NEW h \in Handlers, Serve(h)
        PROVE  status'[r] = status[r] \/ status'[q] = status[q]
    <2>1. Kept(r) \/ r = api[h].rel
      BY <1>2, ServeWrites
    <2>2. Kept(q) \/ q = api[h].rel
      BY <1>2, ServeWrites
    <2>3. QED
      BY <2>1, <2>2 DEF Kept
  <1>3. CASE UNCHANGED vars \/ Crash \/ \E h \in Handlers : Handle(h)
    BY <1>3, HandleRows
  <1>4. QED
    BY <1>1, <1>2, <1>3 DEF Next

\* A request that arrives, or is lost in a crash, does not sweep.
Arrives(c) == /\ c.pc \in {"idle", "sweep", "xread", "acas", "pscale", "rscale"}
              /\ c.scan = "running"

LEMMA HandleArrives ==
    ASSUME LockInv, NEW h \in Handlers, Handle(h)
    PROVE  api' = api \/ \E c : Arrives(c) /\ Put(h, c)
  <1>1. CASE Trigger(h) \/ Rollback(h)
    <2>1. PICK s, auto : Put(h, TriggerCall(s, auto))
      BY <1>1 DEF Trigger, Rollback, Request
    <2>2. Arrives(TriggerCall(s, auto))
      BY DEF TriggerCall, NoCall, Arrives
    <2>3. QED
      BY <2>1, <2>2
  <1>2. ASSUME NEW r \in Release, AutoRollback(r, h)
        PROVE  api' = api \/ \E c : Arrives(c) /\ Put(h, c)
    <2>1. \A s, auto : Arrives(TriggerCall(s, auto))
      BY DEF TriggerCall, NoCall, Arrives
    <2>2. QED
      BY <1>2, <2>1 DEF AutoRollback
  <1>3. ASSUME NEW r \in Release, Approve(h, r) \/ Reject(h, r)
        PROVE  \E c : Arrives(c) /\ Put(h, c)
    <2>1. Arrives(NoCall) /\ Arrives([NoCall EXCEPT !.pc = "xread", !.rel = r])
      BY DEF NoCall, Arrives
    <2>2. QED
      BY <1>3, <2>1 DEF Approve, Reject, Request
  <1>4. ASSUME NEW r \in Release, Abort(h, r) \/ Pause(h, r) \/ Resume(h, r)
        PROVE  \E c : Arrives(c) /\ Put(h, c)
    <2>1. PICK pc \in {"acas", "pscale", "rscale"} : Put(h, Reading(pc, r))
      BY <1>4 DEF Abort, Pause, Resume, Request
    <2>2. Arrives(Reading(pc, r))
      BY DEF Reading, NoCall, Arrives
    <2>3. QED
      BY <2>1, <2>2
  <1>5. QED
    BY <1>1, <1>2, <1>3, <1>4 DEF Handle

LEMMA HandlerMoves ==
    ASSUME LockInv, [Next]_vars, NEW h \in Handlers
    PROVE  api'[h] = api[h] \/ Serve(h) \/ Arrives(api'[h])
  <1>1. TypeOK
    BY DEF LockInv
  <1>2. ASSUME NEW k \in Handlers, Handle(k)
        PROVE  api'[h] = api[h] \/ Arrives(api'[h])
    BY <1>1, <1>2, HandleArrives, Put1
  <1>3. ASSUME NEW k \in Handlers, Serve(k)
        PROVE  api'[h] = api[h] \/ Serve(h)
    BY <1>1, <1>3, ServePuts, Put1
  <1>4. CASE Crash
    BY <1>4 DEF Crash, NoCall, Arrives
  <1>5. CASE UNCHANGED vars \/ \E r \in Release : Run(r)
    BY <1>5 DEF vars, Run
  <1>6. QED
    BY <1>2, <1>3, <1>4, <1>5 DEF Next

\* A sweep whose handler makes no move.
LEMMA SweepStays ==
    ASSUME LockInv, OneActiveRelease, ~Overlap, NEW h \in Handlers, SweepSound(h),
           [Next]_vars, \A r \in Release : ~Wakes(r), api'[h] = api[h]
    PROVE  SweepSound(h)'
  <1>1. ASSUME NEW r \in Release, Sweeping(h)
        PROVE  \/ status'[r] = status[r]
               \/ status'[r] \notin Live
               \/ r \in api[h].todo
               \/ status'[r] = "paused" /\ status[r] = "running"
    <2>1. CASE \E k \in Handlers : In(k, "insert") /\ ~In(k, "insert")'
      BY <1>1, <2>1 DEF Overlap, Sweeping, In
    <2>2. CASE status'[r] = "running" /\ status[r] \notin {"none", "running"}
      BY <1>1, <2>2 DEF Wakes
    <2>3. QED
      BY <2>1, <2>2, NextRowMove DEF RowMove
  <1>2. CASE ~Sweeping(h)
    BY <1>2 DEF SweepSound, Sweeping, In
  <1>3. CASE Sweeping(h)
    BY <1>1, <1>3 DEF SweepSound, In, IsLive, Live
  <1>4. QED
    BY <1>2, <1>3

\* A step of the sweep itself.
LEMMA SweepOwn ==
    ASSUME LockInv, NEW h \in Handlers, SweepSound(h), Serve(h), ~GivesUp(h)
    PROVE  SweepSound(h)'
  <1>1. TypeOK /\ api[h] \in Api
    BY DEF LockInv, TypeOK
  <1>2. ASSUME NEW pc, Step(h, pc)
        PROVE  /\ api'[h].pc = pc /\ api'[h].scan = api[h].scan
               /\ api'[h].todo = api[h].todo /\ api'[h].rel = api[h].rel
    <2>1. api'[h] = [api[h] EXCEPT !.pc = pc]
      BY <1>1, <1>2, Put1 DEF Step
    <2>2. QED
      BY <1>1, <2>1 DEF Api
  <1>3. ASSUME Return(h)
        PROVE  SweepSound(h)'
    <2>1. api'[h] = NoCall
      BY <1>1, <1>3, Put1 DEF Return
    <2>2. QED
      BY <2>1 DEF SweepSound, NoCall, In
  <1>4. CASE Sweep(h) \/ Unmark(h)
    <2>1. api'[h].pc \in {"unmark", "list"} /\ api'[h].scan = "running"
      BY <1>2, <1>4 DEF Sweep, Unmark, SweepSound, In
    <2>2. QED
      BY <2>1 DEF SweepSound, In
  <1>5. CASE List(h)
    <2>1. api'[h] = [api[h] EXCEPT !.pc = "iread", !.tries = 0,
                                   !.todo = InStatus(api[h].scan)]
      BY <1>1, <1>5, Put1 DEF List
    <2>2. /\ api'[h].pc = "iread" /\ api'[h].scan = api[h].scan
          /\ api'[h].todo = InStatus(api[h].scan)
      BY <1>1, <2>1 DEF Api
    <2>3. UNCHANGED status /\ api[h].scan \in {"running", "paused"}
      BY <1>1, <1>5 DEF List, store, rows, Api, Live
    <2>4. \A r \in Release : IsLive(r)' =>
             \/ r \in api'[h].todo
             \/ api'[h].scan = "running" /\ status'[r] = "paused"
      BY <1>5, <2>2, <2>3 DEF List, SweepSound, IsLive, Live, InStatus
    <2>5. QED
      BY <2>2, <2>4 DEF SweepSound, In
  <1>6. CASE NextInterrupt(h)
    <2>1. UNCHANGED status /\ api[h].scan \in {"running", "paused"}
      BY <1>1, <1>6 DEF NextInterrupt, store, rows, Api, Live
    <2>2. ASSUME NEW r \in api[h].todo,
                 Put(h, [api[h] EXCEPT !.pc = "icas", !.rel = r,
                                       !.held = version[r]])
          PROVE  SweepSound(h)'
      <3>1. api'[h] = [api[h] EXCEPT !.pc = "icas", !.rel = r,
                                     !.held = version[r]]
        BY <1>1, <2>2, Put1
      <3>2. /\ api'[h].pc = "icas" /\ api'[h].rel = r
            /\ api'[h].scan = api[h].scan /\ api'[h].todo = api[h].todo
        BY <1>1, <3>1 DEF Api
      <3>3. QED
        BY <1>6, <2>1, <3>2 DEF NextInterrupt, SweepSound, In, IsLive
    <2>3. CASE /\ api[h].todo = {} /\ api[h].scan = "running"
               /\ Put(h, [api[h] EXCEPT !.pc = "list", !.scan = "paused"])
      <3>1. api'[h] = [api[h] EXCEPT !.pc = "list", !.scan = "paused"]
        BY <1>1, <2>3, Put1
      <3>2. /\ api'[h].pc = "list" /\ api'[h].scan = "paused"
            /\ api'[h].todo = {}
        BY <1>1, <2>3, <3>1 DEF Api
      <3>3. \A r \in Release : status[r] # "running"
        BY <1>6, <2>3 DEF NextInterrupt, SweepSound, In, IsLive, Live
      <3>4. QED
        BY <2>1, <3>2, <3>3 DEF SweepSound, In
    <2>4. CASE /\ api[h].todo = {} /\ api[h].scan = "paused"
               /\ Step(h, "number")
      <3>1. api'[h].pc = "number" /\ api'[h].todo = {}
        BY <1>2, <2>4
      <3>2. \A r \in Release : ~IsLive(r)
        BY <1>6, <2>4 DEF NextInterrupt, SweepSound, In
      <3>3. QED
        BY <2>1, <3>1, <3>2 DEF SweepSound, In, IsLive
    <2>5. QED
      BY <1>6, <2>2, <2>3, <2>4 DEF NextInterrupt
  <1>7. CASE Interrupt(h)
    <2> DEFINE done == [api[h] EXCEPT !.pc = "iread",
                                      !.todo = @ \ {api[h].rel}, !.tries = 0]
    <2>1. CASE /\ Cas(api[h].rel, api[h].held, "interrupted")
               /\ Put(h, done)
      <3>1. api'[h] = done
        BY <1>1, <2>1, Put1
      <3>2. /\ api'[h].pc = "iread" /\ api'[h].scan = api[h].scan
            /\ api'[h].todo = api[h].todo \ {api[h].rel}
        BY <1>1, <3>1 DEF Api
      <3>3. \A r \in Release :
               \/ r = api[h].rel /\ ~IsLive(r)'
               \/ r # api[h].rel /\ status'[r] = status[r]
        BY <1>1, <2>1 DEF Cas, TypeOK, StoreTypeOK, IsLive, Live
      <3>4. QED
        BY <1>7, <3>2, <3>3 DEF Interrupt, SweepSound, In, IsLive
    <2>2. CASE /\ Put(h, [api[h] EXCEPT !.pc = "iread", !.tries = @ + 1])
               /\ UNCHANGED rows
      <3>1. api'[h] = [api[h] EXCEPT !.pc = "iread", !.tries = @ + 1]
        BY <1>1, <2>2, Put1
      <3>2. /\ api'[h].pc = "iread" /\ api'[h].scan = api[h].scan
            /\ api'[h].todo = api[h].todo
        BY <1>1, <3>1 DEF Api
      <3>3. QED
        BY <1>7, <2>2, <3>2 DEF Interrupt, SweepSound, In, IsLive, rows
    <2>3. CASE Put(h, done) /\ UNCHANGED rows
      <3>1. api'[h] = done
        BY <1>1, <2>3, Put1
      <3>2. /\ api'[h].pc = "iread"
            /\ api'[h].todo = api[h].todo \ {api[h].rel}
        BY <1>1, <3>1 DEF Api
      <3>3. GivesUp(h)
        BY <1>7, <2>3, <3>2 DEF Interrupt, GivesUp, rows
      <3>4. QED
        BY <3>3
    <2> HIDE DEF done
    <2>4. QED
      BY <1>7, <2>1, <2>2, <2>3 DEF Interrupt, done
  <1>8. CASE Number(h)
    <2>1. CASE Return(h)
      BY <1>3, <2>1
    <2>2. ASSUME NEW gate \in Gates,
                 Put(h, [api[h] EXCEPT
                            !.pc = "insert", !.rel = NextNumber,
                            !.want = [@ EXCEPT !.prev = LastSucceeded,
                                               !.gated = gate]])
          PROVE  SweepSound(h)'
      <3>1. PICK w : api'[h] = [api[h] EXCEPT !.pc = "insert",
                                              !.rel = NextNumber, !.want = w]
        BY <1>1, <2>2, Put1
      <3>2. api'[h].pc = "insert" /\ api'[h].todo = api[h].todo
        BY <1>1, <3>1 DEF Api
      <3>3. QED
        BY <1>8, <3>2 DEF Number, SweepSound, In, IsLive, store, rows
    <2>3. QED
      BY <1>8, <2>1, <2>2 DEF Number
  <1>9. ASSUME NEW pc \in {"approval", "xreread", "pcas", "rcas"}, Step(h, pc)
        PROVE  SweepSound(h)'
    BY <1>2, <1>9 DEF SweepSound, In
  <1>10. CASE \/ Create(h) \/ CreateApproval(h) \/ PendingRun(h)
              \/ PendingLaunch(h) \/ Scale(h) \/ Decide(h)
    BY <1>3, <1>9, <1>10 DEF Create, CreateApproval, PendingRun,
                             PendingLaunch, Scale, Decide
  <1>11. CASE PendingRead(h)
    <2>1. CASE Return(h)
      BY <1>3, <2>1
    <2>2. CASE Put(h, [api[h] EXCEPT !.pc = "xcas", !.base = current,
                                     !.held = version[api[h].rel]])
      <3>1. api'[h] = [api[h] EXCEPT !.pc = "xcas", !.base = current,
                                     !.held = version[api[h].rel]]
        BY <1>1, <2>2, Put1
      <3>2. api'[h].pc = "xcas"
        BY <1>1, <3>1 DEF Api
      <3>3. QED
        BY <3>2 DEF SweepSound, In
    <2>3. QED
      BY <1>11, <2>1, <2>2 DEF PendingRead
  <1>12. QED
    BY <1>4, <1>5, <1>6, <1>7, <1>8, <1>10, <1>11 DEF Serve

LEMMA ExclusiveNext ==
    ASSUME LockInv, InOrder, ~Slips, [Next]_vars
    PROVE  InOrder'
  <1>1. CASE UNCHANGED vars
    BY <1>1 DEF vars, rows, InOrder, OneActiveRelease, Overlap, Sweeping,
                SweepSound, IsLive, In
  <1>2. CASE Next
    <2>2. /\ ~Overlap' /\ [Next]_vars
          /\ \A r \in Release : ~Wakes(r)
          /\ \A h \in Handlers : ~GivesUp(h)
      BY DEF Slips
    <2>3. /\ OneActiveRelease /\ ~Overlap
          /\ \A h \in Handlers : SweepSound(h)
      BY DEF InOrder
    <2>4. \A h \in Handlers : SweepSound(h)'
      <3>1. SUFFICES ASSUME NEW h \in Handlers
                     PROVE  SweepSound(h)'
        OBVIOUS
      <3>2. CASE Arrives(api'[h])
        BY <3>2 DEF Arrives, SweepSound, In
      <3>3. QED
        BY <2>2, <2>3, <3>2, HandlerMoves, SweepStays, SweepOwn
    <2>5. ASSUME NEW r \in Release, NEW q \in Release, r # q,
                 status'[q] = status[q], IsLive(r)', IsLive(q)'
          PROVE  FALSE
      <3>1. IsLive(q) /\ ~IsLive(r)
        BY <2>3, <2>5 DEF OneActiveRelease, IsLive
      <3>2. CASE \E h \in Handlers : In(h, "insert")
        BY <2>3, <3>1, <3>2 DEF SweepSound, In
      <3>3. CASE status'[r] = "running" /\ status[r] \notin {"none", "running"}
        BY <2>2, <2>5, <3>1, <3>3 DEF Wakes
      <3>4. QED
        BY <2>2, <2>5, <3>1, <3>2, <3>3, NextRowMove
        DEF RowMove, IsLive, Live
    <2>6. OneActiveRelease'
      BY <2>2, <2>5, OneRow DEF OneActiveRelease
    <2>7. QED
      BY <2>2, <2>4, <2>6 DEF InOrder
  <1>3. QED
    BY <1>1, <1>2

LEMMA ExclusiveInit == ASSUME Init PROVE InOrder
  <1>1. \A h \in Handlers : api[h].pc = "idle"
    BY DEF Init, NoCall
  <1>2. \A r \in Release : ~IsLive(r)
    BY DEF Init, StoreInit, IsLive, Live
  <1>3. QED
    BY <1>1, <1>2 DEF InOrder, OneActiveRelease, Overlap, Sweeping,
                      SweepSound, In

\* A group in order leaves it only by two triggers at a time, by a release
\* woken beside another or behind a sweep, or by a row that moved in each of
\* the three tries to interrupt it.
THEOREM ExclusiveStep == Spec => StaysExclusive
  <1>1. LockInv /\ [Next]_vars => [InOrder /\ ~Slips => InOrder']_vars
    BY ExclusiveNext
  <1>2. QED
    BY <1>1, LockInvariant, PTL DEF Spec, StaysExclusive

\* One release of a group at a time, as long as nothing slips in: nothing
\* else the service does, and no crash, breaks the exclusion.
THEOREM OneActiveUnlessSlipped == Spec /\ [][~Slips]_vars => []OneActiveRelease
  <1>1. Init => InOrder
    BY ExclusiveInit
  <1>2. LockInv /\ InOrder /\ [Next]_vars /\ [~Slips]_vars => InOrder'
    <2>1. SUFFICES ASSUME LockInv, InOrder, [Next]_vars, [~Slips]_vars
                   PROVE  InOrder'
      OBVIOUS
    <2>2. CASE UNCHANGED vars
      BY <2>1, <2>2 DEF vars, rows, InOrder, OneActiveRelease, Overlap,
                        Sweeping, SweepSound, IsLive, In
    <2>3. QED
      BY <2>1, <2>2, ExclusiveNext
  <1>3. InOrder => OneActiveRelease
    BY DEF InOrder
  <1>4. QED
    BY <1>1, <1>2, <1>3, LockInvariant, PTL DEF Spec
=============================================================================
