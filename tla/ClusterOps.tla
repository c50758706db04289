------------------------------ MODULE ClusterOps ------------------------------
(***************************************************************************)
(* Planned operations on cluster nodes (cordon, uncordon, drain, restart,  *)
(* status synchronisation): the rows of vo_cluster_operations, the         *)
(* scheduler each API process runs over the due ones, the goroutine that   *)
(* executes an operation at once when it is due at its creation, and the   *)
(* requests that cancel operations.                                        *)
(*                                                                         *)
(* UpdateOperation writes whole rows and compares no version.              *)
(***************************************************************************)
EXTENDS Naturals, FiniteSets

CONSTANTS Process,    \* API processes
          MaxOp,      \* bound: operations
          MaxCancel,  \* bound: cancel requests
          MaxCrash    \* bound: crashes of a process

Op == 1..MaxOp

\* Whoever calls ExecuteOperation: the scheduler of a process, and the
\* goroutine CreateOperation starts for an operation.
Worker == Process \cup Op

ASSUME ClusterOpsAssumption ==
    /\ MaxOp \in Nat \ {0}
    /\ MaxCancel \in Nat /\ MaxCrash \in Nat
    /\ Process \cap Op = {}

VARIABLES
    row,       \* row[o]: the status column; "none" before the INSERT
    due,       \* operations whose scheduled_at has come
    home,      \* home[o]: the process that created o and runs its goroutine
    todo,      \* todo[w]: what worker w has listed and not yet executed
    at,        \* at[w]: its step, and the operation it executes
    ran,       \* ran[w]: how often w has executed each operation
    cancels,   \* cancel requests that have read a pending row
    asked,     \* cancel requests so far
    crashes    \* crashes so far

vars == <<row, due, home, todo, at, ran, cancels, asked, crashes>>
requests == <<cancels, asked>>

Status == {"none", "pending", "running", "completed", "failed", "cancelled"}
Step == {"idle", "mark", "act", "completed", "failed"}
Idle == [step |-> "idle", op |-> 1]

TypeOK ==
    /\ row \in [Op -> Status]
    /\ due \in SUBSET Op
    /\ home \in [Op -> Process]
    /\ todo \in [Worker -> SUBSET Op]
    /\ at \in [Worker -> [step : Step, op : Op]]
    /\ ran \in [Worker -> [Op -> Nat]]
    /\ cancels \in SUBSET Op
    /\ asked \in 0..MaxCancel
    /\ crashes \in 0..MaxCrash

Init ==
    /\ row = [o \in Op |-> "none"]
    /\ due = {}
    /\ home \in [Op -> Process]
    /\ todo = [w \in Worker |-> {}]
    /\ at = [w \in Worker |-> Idle]
    /\ ran = [w \in Worker |-> [o \in Op |-> 0]]
    /\ cancels = {}
    /\ asked = 0
    /\ crashes = 0

\* UpdateOperation: WHERE id, and nothing else.
UpdateOperation(o, s) == row' = [row EXCEPT ![o] = s]

-----------------------------------------------------------------------------
\* CreateOperation; one that is due at once gets a goroutine.
Create(o) ==
    /\ row[o] = "none"
    /\ \A q \in Op : q < o => row[q] # "none"
    /\ row' = [row EXCEPT ![o] = "pending"]
    /\ \/ due' = due \cup {o} /\ todo' = [todo EXCEPT ![o] = {o}]
       \/ UNCHANGED <<due, todo>>
    /\ UNCHANGED <<home, at, ran, requests, crashes>>

Time(o) ==
    /\ row[o] # "none" /\ o \notin due
    /\ due' = due \cup {o}
    /\ UNCHANGED <<row, home, todo, at, ran, requests, crashes>>

\* Mutant: a row somebody is executing may be taken once more.
TakenAgain(o) == row[o] \in {"pending", "running"}

\* The condition of ListDueOperations, and of ExecuteOperation's own read.
Pending(o) == row[o] = "pending"

\* Mutant: the comparison of scheduled_at with now the wrong way round.
NotYetDue(o) == o \notin due /\ Pending(o)

Due(o) == o \in due /\ Pending(o)

\* runOnceSafe: list, then execute one after the other.
List(p) ==
    /\ p \in Process
    /\ at[p].step = "idle" /\ todo[p] = {}
    /\ \E o \in Op : Due(o)
    /\ todo' = [todo EXCEPT ![p] = {o \in Op : Due(o)}]
    /\ UNCHANGED <<row, due, home, at, ran, requests, crashes>>

\* ExecuteOperation reads the row again,
Read(w) ==
    /\ at[w].step = "idle"
    /\ \E o \in todo[w] :
          /\ todo' = [todo EXCEPT ![w] = @ \ {o}]
          /\ at' = IF Pending(o)
                   THEN [at EXCEPT ![w] = [step |-> "mark", op |-> o]] ELSE at
    /\ UNCHANGED <<row, due, home, ran, requests, crashes>>

Move(w, s) == at' = [at EXCEPT ![w].step = s]

\* marks it running,
Mark(w) ==
    /\ at[w].step = "mark"
    /\ UpdateOperation(at[w].op, "running")
    /\ Move(w, "act")
    /\ UNCHANGED <<due, home, todo, ran, requests, crashes>>

\* acts on the node,
Act(w) ==
    /\ at[w].step = "act"
    /\ ran' = [ran EXCEPT ![w][at[w].op] = @ + 1]
    /\ \E s \in {"completed", "failed"} : Move(w, s)
    /\ UNCHANGED <<row, due, home, todo, requests, crashes>>

\* Mutant: only a failure is written back.
ReportsFailures(w) == IF at[w].step = "failed"
                      THEN UpdateOperation(at[w].op, "failed") ELSE row' = row

Outcome(w) == UpdateOperation(at[w].op, at[w].step)

\* and writes the outcome.
Report(w) ==
    /\ at[w].step \in {"completed", "failed"}
    /\ Outcome(w)
    /\ at' = [at EXCEPT ![w] = Idle]
    /\ UNCHANGED <<due, home, todo, ran, requests, crashes>>

\* CancelOperation reads ...
CancelRead(o) ==
    /\ asked < MaxCancel
    /\ Pending(o) /\ o \notin cancels
    /\ cancels' = cancels \cup {o}
    /\ asked' = asked + 1
    /\ UNCHANGED <<row, due, home, todo, at, ran, crashes>>

\* ... and writes.
CancelWrite(o) ==
    /\ o \in cancels
    /\ UpdateOperation(o, "cancelled")
    /\ cancels' = cancels \ {o}
    /\ UNCHANGED <<due, home, todo, at, ran, asked, crashes>>

\* A process dies and is started again.  Its scheduler's work and its
\* goroutines are lost.
Crash(p) ==
    /\ crashes < MaxCrash
    /\ crashes' = crashes + 1
    /\ LET lost == {p} \cup {o \in Op : home[o] = p} IN
       /\ todo' = [w \in Worker |-> IF w \in lost THEN {} ELSE todo[w]]
       /\ at' = [w \in Worker |-> IF w \in lost THEN Idle ELSE at[w]]
    /\ UNCHANGED <<row, due, home, ran, requests>>

-----------------------------------------------------------------------------
Execute(w) == Read(w) \/ Mark(w) \/ Act(w) \/ Report(w)

Next ==
    \/ \E o \in Op : Create(o) \/ Time(o) \/ CancelRead(o) \/ CancelWrite(o)
    \/ \E p \in Process : List(p) \/ Crash(p)
    \/ \E w \in Worker : Execute(w)

\* Schedulers tick, goroutines run on, Kubernetes answers or fails.
Fairness == /\ \A p \in Process : WF_vars(List(p))
            /\ \A w \in Worker : WF_vars(Execute(w))

Spec == Init /\ [][Next]_vars /\ Fairness

-----------------------------------------------------------------------------
(* Properties.                                                             *)

At(w, o, steps) == at[w].step \in steps /\ at[w].op = o

\* A row says running only while somebody executes the operation, or after a
\* process died: whichever of several writers comes last leaves its outcome.
RunningIsRun == TypeOK /\ (crashes = 0 => \A o \in Op : row[o] = "running" =>
    \E w \in Worker : At(w, o, {"act", "completed", "failed"}))

\* Several workers may find the operation pending and execute it, but each of
\* them once at most, with crashes and cancels in between: no row ever
\* becomes pending again.
OncePerWorker == \A w \in Worker, o \in Op : ran[w][o] <= 1

\* What is due is taken, by the scheduler if the goroutine died with its
\* process, or cancelled.
DueIsTaken == \A o \in Op :
    o \in due /\ row[o] = "pending" ~> row[o] # "pending"
=============================================================================
