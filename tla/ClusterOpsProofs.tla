--------------------------- MODULE ClusterOpsProofs ---------------------------
(***************************************************************************)
(* Proofs for ClusterOps, for any number of processes, operations, cancel  *)
(* requests and crashes.                                                   *)
(***************************************************************************)
EXTENDS ClusterOps, TLAPS

USE ClusterOpsAssumption

\* What a step of Next may be.
LEMMA Cases ==
    ASSUME Next
    PROVE  \/ \E o \in Op : Create(o) \/ Time(o) \/ CancelRead(o)
                            \/ CancelWrite(o)
           \/ \E p \in Process : List(p) \/ Crash(p)
           \/ \E w \in Worker : Read(w) \/ Mark(w) \/ Act(w) \/ Report(w)
BY DEF Next, Execute

LEMMA TypeInit == ASSUME Init PROVE TypeOK
<1>1. 1 \in Op BY DEF Op
<1>2. at \in [Worker -> [step : Step, op : Op]] BY <1>1 DEF Init, Step, Idle
<1>3. ran \in [Worker -> [Op -> Nat]] BY DEF Init
<1> QED BY <1>2, <1>3 DEF Init, TypeOK, Status

\* Every step keeps the types.
LEMMA TypeStep == ASSUME TypeOK, [Next]_vars PROVE TypeOK'
<1> USE DEF TypeOK, Status, Step
<1>1. ASSUME NEW o \in Op, Create(o) PROVE TypeOK'
  <2>1. o \in Worker /\ {o} \in SUBSET Op BY DEF Worker
  <2>2. todo' \in [Worker -> SUBSET Op] BY <1>1, <2>1 DEF Create
  <2>3. row' \in [Op -> Status] /\ due' \in SUBSET Op BY <1>1 DEF Create
  <2> QED BY <1>1, <2>2, <2>3 DEF Create, requests
<1>2. ASSUME NEW o \in Op, Time(o) PROVE TypeOK'
  BY <1>2 DEF Time, requests
<1>3. ASSUME NEW o \in Op, CancelRead(o) PROVE TypeOK'
  BY <1>3 DEF CancelRead
<1>4. ASSUME NEW o \in Op, CancelWrite(o) PROVE TypeOK'
  BY <1>4 DEF CancelWrite, UpdateOperation
<1>5. ASSUME NEW p \in Process, List(p) PROVE TypeOK'
  <2>1. p \in Worker /\ {o \in Op : Due(o)} \in SUBSET Op BY DEF Worker
  <2>2. todo' \in [Worker -> SUBSET Op] BY <1>5, <2>1 DEF List
  <2> QED BY <1>5, <2>2 DEF List, requests
<1>6. ASSUME NEW p \in Process, Crash(p) PROVE TypeOK'
  <2>1. 1 \in Op BY DEF Op
  <2>2. crashes' \in 0..MaxCrash BY <1>6 DEF Crash
  <2>3. todo' \in [Worker -> SUBSET Op] BY <1>6 DEF Crash
  <2>4. at' \in [Worker -> [step : Step, op : Op]]
    BY <1>6, <2>1 DEF Crash, Idle
  <2> QED BY <1>6, <2>2, <2>3, <2>4 DEF Crash, requests
<1>7. ASSUME NEW w \in Worker, Read(w) PROVE TypeOK'
  BY <1>7 DEF Read, requests
<1>8. ASSUME NEW w \in Worker, Mark(w) PROVE TypeOK'
  BY <1>8 DEF Mark, Move, UpdateOperation, requests
<1>9. ASSUME NEW w \in Worker, Act(w) PROVE TypeOK'
  BY <1>9 DEF Act, Move, requests
<1>10. ASSUME NEW w \in Worker, Report(w) PROVE TypeOK'
  <2>1. Idle \in [step : Step, op : Op] BY DEF Idle, Op
  <2>2. at' \in [Worker -> [step : Step, op : Op]] BY <1>10, <2>1 DEF Report
  <2>3. row' \in [Op -> Status] BY <1>10 DEF Report, Outcome, UpdateOperation
  <2> QED BY <1>10, <2>2, <2>3 DEF Report, requests
<1>11. CASE UNCHANGED vars BY <1>11 DEF vars, requests
<1> QED BY <1>1, <1>2, <1>3, <1>4, <1>5, <1>6, <1>7, <1>8, <1>9, <1>10, <1>11,
           Cases

\* Statuses, steps, counters and sets of operations are what TypeOK says, in
\* every interleaving of schedulers, goroutines, requests and crashes.
THEOREM TypeCorrect == Spec => []TypeOK
<1>1. Init => TypeOK BY TypeInit
<1>2. TypeOK /\ [Next]_vars => TypeOK' BY TypeStep
<1> QED BY <1>1, <1>2, PTL DEF Spec

-----------------------------------------------------------------------------
(* OncePerWorker.                                                          *)

\* A row that can still be taken has not been executed by anybody,
Untaken == \A o \in Op : row[o] \in {"none", "pending"} =>
    \A w \in Worker : ran[w][o] = 0

\* who is about to execute an operation has not done so before,
Fresh == \A w \in Worker, o \in Op : At(w, o, {"mark", "act"}) => ran[w][o] = 0

\* and the row of an operation under execution cannot be taken again.
Taken == \A w \in Worker, o \in Op :
    At(w, o, {"act", "completed", "failed"}) => row[o] \notin {"none", "pending"}

OnceInv == TypeOK /\ Untaken /\ Fresh /\ Taken /\ OncePerWorker

LEMMA OnceInit == ASSUME Init PROVE OnceInv
<1>1. TypeOK BY TypeInit
<1>2. \A w \in Worker : at[w].step = "idle" BY DEF Init, Idle
<1>3. \A w \in Worker, o \in Op : ran[w][o] = 0 BY DEF Init
<1> QED BY <1>1, <1>2, <1>3
        DEF OnceInv, Untaken, Fresh, Taken, OncePerWorker, At

\* A step that executes nothing, hands nobody an operation that was taken and
\* lets no taken row go back keeps the invariant.
LEMMA OnceKept ==
    ASSUME OnceInv, TypeOK', ran' = ran,
           \A o \in Op : row'[o] \in {"none", "pending"}
                             => row[o] \in {"none", "pending"},
           \A w \in Worker : \/ at'[w] = at[w]
                             \/ at'[w].step = "idle"
                             \/ /\ at'[w].step = "mark"
                                /\ row[at'[w].op] = "pending"
                             \/ /\ at'[w].step = "act"
                                /\ at[w].step = "mark" /\ at'[w].op = at[w].op
                                /\ row'[at[w].op] = "running"
    PROVE  OnceInv'
<1>1. Untaken' BY DEF OnceInv, Untaken
<1>2. Fresh'
  <2> SUFFICES ASSUME NEW w \in Worker, NEW o \in Op,
                      At(w, o, {"mark", "act"})'
               PROVE  ran[w][o] = 0
    BY DEF Fresh
  <2> QED BY DEF OnceInv, Untaken, Fresh, At
<1>3. Taken'
  <2> SUFFICES ASSUME NEW w \in Worker, NEW o \in Op,
                      At(w, o, {"act", "completed", "failed"})'
               PROVE  row'[o] \notin {"none", "pending"}
    BY DEF Taken
  <2> QED BY DEF OnceInv, Taken, At
<1>4. OncePerWorker' BY DEF OnceInv, OncePerWorker
<1> QED BY <1>1, <1>2, <1>3, <1>4 DEF OnceInv

LEMMA OnceStep == ASSUME OnceInv, [Next]_vars PROVE OnceInv'
<1> TypeOK BY DEF OnceInv
<1> TypeOK' BY TypeStep
<1> USE DEF TypeOK, Status, Step
<1>1. ASSUME NEW o \in Op, Create(o) PROVE OnceInv'
  BY <1>1, OnceKept DEF Create
<1>2. ASSUME NEW o \in Op, Time(o) PROVE OnceInv'
  BY <1>2, OnceKept DEF Time
<1>3. ASSUME NEW o \in Op, CancelRead(o) PROVE OnceInv'
  BY <1>3, OnceKept DEF CancelRead
<1>4. ASSUME NEW o \in Op, CancelWrite(o) PROVE OnceInv'
  BY <1>4, OnceKept DEF CancelWrite, UpdateOperation
<1>5. ASSUME NEW p \in Process, List(p) PROVE OnceInv'
  BY <1>5, OnceKept DEF List
<1>6. ASSUME NEW p \in Process, Crash(p) PROVE OnceInv'
  BY <1>6, OnceKept DEF Crash, Idle
<1>7. ASSUME NEW w \in Worker, Read(w) PROVE OnceInv'
  <2>1. ran' = ran /\ row' = row BY <1>7 DEF Read
  <2>2. ASSUME NEW v \in Worker
        PROVE  \/ at'[v] = at[v]
               \/ at'[v].step = "mark" /\ row[at'[v].op] = "pending"
    BY <1>7 DEF Read, Pending
  <2> QED BY <2>1, <2>2, OnceKept
<1>8. ASSUME NEW w \in Worker, Mark(w) PROVE OnceInv'
  <2>1. ran' = ran BY <1>8 DEF Mark
  <2>2. ASSUME NEW v \in Worker
        PROVE  \/ at'[v] = at[v]
               \/ /\ at'[v].step = "act"
                  /\ at[v].step = "mark" /\ at'[v].op = at[v].op
                  /\ row'[at[v].op] = "running"
    BY <1>8 DEF Mark, Move, UpdateOperation
  <2>3. \A o \in Op : row'[o] \in {"none", "pending"}
                          => row[o] \in {"none", "pending"}
    BY <1>8 DEF Mark, UpdateOperation
  <2> QED BY <2>1, <2>2, <2>3, OnceKept
<1>9. ASSUME NEW w \in Worker, Act(w) PROVE OnceInv'
  <2>1. /\ row' = row
        /\ at[w].step = "act" /\ At(w, at[w].op, {"act"})
        /\ at[w].op \in Op
    BY <1>9 DEF Act, At
  <2>2. ran[w][at[w].op] = 0 BY <2>1 DEF OnceInv, Fresh, At
  <2>3. row[at[w].op] \notin {"none", "pending"}
    BY <2>1 DEF OnceInv, Taken, At
  <2>4. /\ ran'[w][at[w].op] = 1
        /\ \A v \in Worker, o \in Op :
               v # w \/ o # at[w].op => ran'[v][o] = ran[v][o]
    BY <1>9, <2>1, <2>2 DEF Act
  <2>5. \A v \in Worker : \/ v # w /\ at'[v] = at[v]
                          \/ /\ v = w /\ at'[v].op = at[v].op
                             /\ at'[v].step \in {"completed", "failed"}
    BY <1>9 DEF Act, Move
  <2>6. Untaken' BY <2>1, <2>3, <2>4 DEF OnceInv, Untaken
  <2>7. Fresh'
    <3> SUFFICES ASSUME NEW v \in Worker, NEW o \in Op,
                        At(v, o, {"mark", "act"})'
                 PROVE  ran'[v][o] = 0
      BY DEF Fresh
    <3>1. v # w /\ at'[v] = at[v] BY <2>5 DEF At
    <3>2. ran'[v][o] = ran[v][o] BY <3>1, <2>4
    <3>3. At(v, o, {"mark", "act"}) BY <3>1 DEF At
    <3> QED BY <3>2, <3>3 DEF OnceInv, Fresh
  <2>8. Taken'
    <3> SUFFICES ASSUME NEW v \in Worker, NEW o \in Op,
                        At(v, o, {"act", "completed", "failed"})'
                 PROVE  row'[o] \notin {"none", "pending"}
      BY DEF Taken
    <3> QED BY <2>1, <2>3, <2>5 DEF OnceInv, Taken, At
  <2>9. OncePerWorker'
    <3> SUFFICES ASSUME NEW v \in Worker, NEW o \in Op PROVE ran'[v][o] <= 1
      BY DEF OncePerWorker
    <3>1. CASE v = w /\ o = at[w].op BY <3>1, <2>4
    <3>2. CASE ~(v = w /\ o = at[w].op)
      BY <3>2, <2>4 DEF OnceInv, OncePerWorker
    <3> QED BY <3>1, <3>2
  <2> QED BY <2>6, <2>7, <2>8, <2>9 DEF OnceInv
<1>10. ASSUME NEW w \in Worker, Report(w) PROVE OnceInv'
  <2>1. at[w].step \in {"completed", "failed"} /\ ran' = ran
    BY <1>10 DEF Report
  <2>2. \A v \in Worker : at'[v] = at[v] \/ at'[v].step = "idle"
    BY <1>10 DEF Report, Idle
  <2>3. \A o \in Op : row'[o] \in {"none", "pending"}
                          => row[o] \in {"none", "pending"}
    BY <1>10, <2>1 DEF Report, Outcome, UpdateOperation
  <2> QED BY <2>1, <2>2, <2>3, OnceKept
<1>11. CASE UNCHANGED vars BY <1>11, OnceKept DEF vars
<1> QED BY <1>1, <1>2, <1>3, <1>4, <1>5, <1>6, <1>7, <1>8, <1>9, <1>10, <1>11,
           Cases

\* However many workers find an operation pending and execute it, and whatever
\* cancels and crashes come in between, each of them executes it once at most.
THEOREM EachWorkerOnce == Spec => []OncePerWorker
<1>1. Init => OnceInv BY OnceInit
<1>2. OnceInv /\ [Next]_vars => OnceInv' BY OnceStep
<1>3. OnceInv => OncePerWorker BY DEF OnceInv
<1> QED BY <1>1, <1>2, <1>3, PTL DEF Spec

-----------------------------------------------------------------------------
(* RunningIsRun, which is inductive.                                       *)

LEMMA RunningInit == ASSUME Init PROVE RunningIsRun
<1>1. TypeOK BY TypeInit
<1>2. \A o \in Op : row[o] # "running" BY DEF Init
<1> QED BY <1>1, <1>2 DEF RunningIsRun

\* Who executes an operation goes on doing so, unless the row is written.
LEMMA RunningKept ==
    ASSUME RunningIsRun, TypeOK', crashes' = crashes,
           \A o \in Op : row'[o] = "running" =>
               \/ \E w \in Worker : At(w, o, {"act"})'
               \/ /\ row[o] = "running"
                  /\ \A w \in Worker :
                         At(w, o, {"act", "completed", "failed"}) =>
                             At(w, o, {"act", "completed", "failed"})'
    PROVE  RunningIsRun'
<1> SUFFICES ASSUME crashes = 0, NEW o \in Op, row'[o] = "running"
             PROVE  \E w \in Worker : At(w, o, {"act", "completed", "failed"})'
  BY DEF RunningIsRun
<1>1. CASE \E w \in Worker : At(w, o, {"act"})'
  BY <1>1 DEF At
<1>2. CASE /\ row[o] = "running"
           /\ \A w \in Worker :
                  At(w, o, {"act", "completed", "failed"}) =>
                      At(w, o, {"act", "completed", "failed"})'
  BY <1>2 DEF RunningIsRun
<1> QED BY <1>1, <1>2

LEMMA RunningStep == ASSUME RunningIsRun, [Next]_vars PROVE RunningIsRun'
<1> TypeOK BY DEF RunningIsRun
<1> TypeOK' BY TypeStep
<1> USE DEF TypeOK, Status, Step
<1>1. ASSUME NEW o \in Op, Create(o) PROVE RunningIsRun'
  BY <1>1, RunningKept DEF Create, At
<1>2. ASSUME NEW o \in Op, Time(o) PROVE RunningIsRun'
  BY <1>2, RunningKept DEF Time, At
<1>3. ASSUME NEW o \in Op, CancelRead(o) PROVE RunningIsRun'
  BY <1>3, RunningKept DEF CancelRead, At
<1>4. ASSUME NEW o \in Op, CancelWrite(o) PROVE RunningIsRun'
  BY <1>4, RunningKept DEF CancelWrite, UpdateOperation, At
<1>5. ASSUME NEW p \in Process, List(p) PROVE RunningIsRun'
  BY <1>5, RunningKept DEF List, At
<1>6. ASSUME NEW p \in Process, Crash(p) PROVE RunningIsRun'
  <2>1. crashes' # 0 BY <1>6 DEF Crash
  <2> QED BY <2>1 DEF RunningIsRun
<1>7. ASSUME NEW w \in Worker, Read(w) PROVE RunningIsRun'
  <2>1. row' = row /\ crashes' = crashes /\ at[w].step = "idle"
    BY <1>7 DEF Read
  <2>2. \A v \in Worker : v # w => at'[v] = at[v] BY <1>7 DEF Read
  <2> QED BY <2>1, <2>2, RunningKept DEF At
<1>8. ASSUME NEW w \in Worker, Mark(w) PROVE RunningIsRun'
  <2>1. /\ crashes' = crashes /\ at[w].step = "mark"
        /\ at'[w].step = "act" /\ at'[w].op = at[w].op
        /\ \A v \in Worker : v # w => at'[v] = at[v]
        /\ \A o \in Op : o # at[w].op => row'[o] = row[o]
    BY <1>8 DEF Mark, Move, UpdateOperation
  <2> QED BY <2>1, RunningKept DEF At
<1>9. ASSUME NEW w \in Worker, Act(w) PROVE RunningIsRun'
  <2>1. /\ row' = row /\ crashes' = crashes /\ at'[w].op = at[w].op
        /\ at'[w].step \in {"completed", "failed"}
        /\ \A v \in Worker : v # w => at'[v] = at[v]
    BY <1>9 DEF Act, Move
  <2> QED BY <2>1, RunningKept DEF At
<1>10. ASSUME NEW w \in Worker, Report(w) PROVE RunningIsRun'
  <2>1. /\ crashes' = crashes /\ row'[at[w].op] # "running"
        /\ \A v \in Worker : v # w => at'[v] = at[v]
        /\ \A o \in Op : o # at[w].op => row'[o] = row[o]
    BY <1>10 DEF Report, Outcome, UpdateOperation
  <2> QED BY <2>1, RunningKept DEF At
<1>11. CASE UNCHANGED vars BY <1>11, RunningKept DEF vars, At
<1> QED BY <1>1, <1>2, <1>3, <1>4, <1>5, <1>6, <1>7, <1>8, <1>9, <1>10, <1>11,
           Cases

\* As long as no process dies, a row that says running has somebody who
\* executes the operation and will write its outcome.
THEOREM RunningHasWorker == Spec => []RunningIsRun
<1>1. Init => RunningIsRun BY RunningInit
<1>2. RunningIsRun /\ [Next]_vars => RunningIsRun' BY RunningStep
<1> QED BY <1>1, <1>2, PTL DEF Spec
=============================================================================
