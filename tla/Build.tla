------------------------------- MODULE Build -------------------------------
(***************************************************************************)
(* Builds: the rows of vo_builds, the goroutine that hands a build to      *)
(* Jenkins or Tekton, the poller that follows the engine's run, and the    *)
(* requests that create, cancel, rebuild, edit and delete builds.  Several *)
(* API processes run at once, each with a poller of its own.               *)
(*                                                                         *)
(* The builds are those of one application, which share one Jenkins job.   *)
(* A build is known by its build_number.  An attempt is one hand-over to   *)
(* the engine: the first by TriggerBuild, the others by RebuildBuild.  It  *)
(* stands for its goroutine, its image tag, its queue item, and the run    *)
(* and the Jenkins build number it may get.                                *)
(***************************************************************************)
EXTENDS Naturals, Sequences, FiniteSets

CONSTANTS
    Process,       \* API processes
    MaxBuild,      \* bound: builds of the application
    MaxRequest,    \* bound: requests
    MaxAttempt,    \* bound: attempts
    MaxImage,      \* bound: images a request or a poll still creates
    MaxCrash,      \* bound: crashes of a process
    Ops,           \* requests of this instance
    Engines        \* the engines the system setting may name

BuildNr == 1..MaxBuild
Attempt == 1..MaxAttempt

ASSUME BuildAssumption ==
    /\ MaxBuild \in Nat /\ MaxRequest \in Nat /\ MaxAttempt \in Nat
    /\ MaxImage \in Nat /\ MaxCrash \in Nat /\ Process # {}
    /\ Ops \subseteq {"trigger", "cancel", "rebuild", "edit", "delete", "image"}
    /\ Engines \subseteq {"jenkins", "tekton"}

VARIABLES
    row,      \* vo_builds
    images,   \* vo_images in the order of version_number: build and tag
    of,       \* the build of each attempt (0: not made yet)
    go,       \* the goroutine of each attempt
    run,      \* the engine's run of each attempt
    started,  \* attempts in the order Jenkins started them
    req,      \* the request each process is serving
    poll,     \* the poller of each process
    adopted,  \* history: builds for which a poller took the job's last build
    asked,    \* requests so far
    crashes   \* crashes so far

tables == <<row, images>>
engine == <<run, started>>
attempts == <<of, go>>
vars == <<tables, engine, attempts, req, poll, adopted, asked, crashes>>

\* "failed" stands for timeout too, which only Tekton reports.
Terminal == {"success", "failed", "canceled"}
Active == {"pending", "queued", "running"}

Row == [status : {"none"} \cup Active \cup Terminal,
        live : BOOLEAN,                 \* NOT deleted
        version : Nat,
        tag : {0} \cup Attempt,         \* target_tag
        queue : {0} \cup Attempt,       \* jenkins_queue_id
        number : {0} \cup Attempt,      \* jenkins_build_number
        pipe : {0} \cup Attempt,        \* pipeline_run_name
        image : Nat,                    \* output_image_id
        old : BOOLEAN,                  \* created_at is 30 min ago
        late : BOOLEAN]                 \* started_at is 30 s ago

NoRow == [status |-> "none", live |-> FALSE, version |-> 0, tag |-> 0,
          queue |-> 0, number |-> 0, pipe |-> 0, image |-> 0,
          old |-> FALSE, late |-> FALSE]

Exists(b) == row[b].status # "none"
Live(b, status) == row[b].live /\ row[b].status \in status
Goroutine == [step : {"none", "start", "record", "mark", "done"},
              at : Process, version : Nat]
Run == [state : {"none", "waiting", "building", "success", "failed", "aborted", "lost"},
        engine : {"jenkins", "tekton"}]
Image == [build : {0} \cup BuildNr, tag : {0} \cup Attempt]
Idle == [step |-> "idle"]
IdlePoll == [step |-> "idle", todo |-> {}, result |-> "none", next |-> 0]

TypeOK ==
    /\ row \in [BuildNr -> Row]
    /\ images \in Seq(Image)
    /\ of \in [Attempt -> {0} \cup BuildNr]
    /\ go \in [Attempt -> Goroutine]
    /\ run \in [Attempt -> Run]
    /\ started \in Seq(Attempt)
    /\ DOMAIN req = Process
    /\ DOMAIN poll = Process
    /\ adopted \subseteq BuildNr

Init ==
    /\ row = [b \in BuildNr |-> NoRow]
    /\ images = <<>>
    /\ of = [a \in Attempt |-> 0]
    /\ go = [a \in Attempt |-> [step |-> "none", version |-> 0,
                                at |-> CHOOSE p \in Process : TRUE]]
    /\ run = [a \in Attempt |-> [state |-> "none", engine |-> "jenkins"]]
    /\ started = <<>>
    /\ req = [p \in Process |-> Idle]
    /\ poll = [p \in Process |-> IdlePoll]
    /\ adopted = {}
    /\ asked = 0
    /\ crashes = 0

-----------------------------------------------------------------------------
(* Statements on vo_builds and vo_images.                                  *)

\* Every UPDATE raises the version.  The age of a row is forgotten where the
\* poller does not look at it, since time may pass again at once: created_at
\* matters in a pending row, started_at in a running one without a number.
Bumped(r) == [r EXCEPT !.version = @ + 1,
                       !.old = @ /\ r.status = "pending",
                       !.late = @ /\ r.status = "running" /\ r.number = 0]

\* Mutant: the UPDATE without its version condition.
CompleteAnyVersion(b, version, status, image) ==
    row' = IF row[b].live
           THEN [row EXCEPT ![b] = Bumped([@ EXCEPT !.status = status,
                                                    !.image = image])]
           ELSE row

\* CompleteBuild: WHERE id AND version AND NOT deleted.
CompleteBuild(b, version, status, image) ==
    row' = IF row[b].live /\ row[b].version = version
           THEN [row EXCEPT ![b] = Bumped([@ EXCEPT !.status = status,
                                                    !.image = image])]
           ELSE row

\* SetJenkinsInfo and SetPipelineRunName: whatever status the row has by now.
SetEngineInfo(b, a) ==
    row' = IF ~row[b].live THEN row
           ELSE [row EXCEPT ![b] = Bumped(
                    IF run[a].engine = "tekton"
                    THEN [@ EXCEPT !.status = "running", !.pipe = a]
                    ELSE [@ EXCEPT !.status = "running", !.queue = a,
                                   !.number = 0])]

\* SetJenkinsBuildNumber: only while the number is not set.
SetNumber(b, n) ==
    row' = IF row[b].live /\ row[b].number = 0
           THEN [row EXCEPT ![b] = Bumped([@ EXCEPT !.number = n])] ELSE row

\* Mutant: the engine's identifiers survive the reset.
ResetKeepsRun(r) == Bumped([r EXCEPT !.status = "pending", !.image = 0])

\* ResetBuildForRebuild; created_at stays.
Reset(r) == Bumped([r EXCEPT !.status = "pending", !.image = 0, !.queue = 0,
                             !.number = 0, !.pipe = 0])

\* CreateImage of a version read before: uk_img_version refuses a number
\* that another image has taken since.
CreateImage(version, b, tag) ==
    images' = IF version = Len(images) + 1
              THEN Append(images, [build |-> b, tag |-> tag]) ELSE images

-----------------------------------------------------------------------------
(* Requests.  Each reads, checks, and writes in a later step; the refusals *)
(* of the checks change nothing and have no action.                        *)

Reserved == Cardinality({a \in Attempt : of[a] # 0})
            + Cardinality({p \in Process : req[p].step \in {"insert", "rebuild"}})

Ask(p, op) ==
    /\ op \in Ops
    /\ req[p].step = "idle"
    /\ asked < MaxRequest
    /\ op \in {"trigger", "rebuild"} => Reserved < MaxAttempt
    /\ asked' = asked + 1

NextNumber == 1 + Cardinality({b \in BuildNr : Exists(b)})

\* TriggerBuild up to NextBuildNumber.
TriggerRead(p) ==
    /\ Ask(p, "trigger")
    /\ NextNumber \in BuildNr
    /\ req' = [req EXCEPT ![p] = [step |-> "insert", b |-> NextNumber]]
    /\ UNCHANGED <<tables, engine, attempts, poll, crashes, adopted>>

NewAttempt(p, b, a) ==
    /\ of[a] = 0
    /\ \A c \in Attempt : c < a => of[c] # 0
    /\ of' = [of EXCEPT ![a] = b]

StartGoroutine(p, a) ==
    go' = [go EXCEPT ![a] = [step |-> "start", at |-> p, version |-> 0]]

\* CreateBuild, then "go triggerBuildEngineAsync"; uk_build_number refuses a
\* number that another request has inserted since.
TriggerInsert(p) ==
    /\ req[p].step = "insert"
    /\ IF Exists(req[p].b) THEN UNCHANGED <<row, of, go>>
       ELSE \E a \in Attempt :
              /\ NewAttempt(p, req[p].b, a)
              /\ row' = [row EXCEPT ![req[p].b] = [NoRow EXCEPT
                            !.status = "pending", !.live = TRUE, !.tag = a]]
              /\ StartGoroutine(p, a)
    /\ req' = [req EXCEPT ![p] = Idle]
    /\ UNCHANGED <<images, engine, poll, asked, crashes, adopted>>

\* The row as CancelBuild, RebuildBuild, UpdateBuild and DeleteBuild read it.
Read(p, op, statuses, next) ==
    /\ Ask(p, op)
    /\ \E b \in BuildNr :
          /\ Live(b, statuses)
          /\ req' = [req EXCEPT ![p] = [step |-> next, b |-> b,
                        version |-> row[b].version, number |-> row[b].number]]
    /\ UNCHANGED <<tables, engine, attempts, poll, crashes, adopted>>

\* CancelBuild stops the Jenkins build if its number is known ...
CancelStop(p) ==
    /\ req[p].step = "stop"
    /\ run' = [a \in Attempt |->
                  IF a = req[p].number /\ run[a].state = "building"
                  THEN [run[a] EXCEPT !.state = "aborted"] ELSE run[a]]
    /\ req' = [req EXCEPT ![p].step = "cancel"]
    /\ UNCHANGED <<tables, started, attempts, poll, asked, crashes, adopted>>

\* ... and marks the row.
CancelWrite(p) ==
    /\ req[p].step = "cancel"
    /\ CompleteBuild(req[p].b, req[p].version, "canceled", 0)
    /\ req' = [req EXCEPT ![p] = Idle]
    /\ UNCHANGED <<images, engine, attempts, poll, asked, crashes, adopted>>

Unchanged(p) == row[req[p].b].live /\ row[req[p].b].version = req[p].version

RebuildWrite(p) ==
    /\ req[p].step = "rebuild"
    /\ IF Unchanged(p)
       THEN \E a \in Attempt :
              /\ NewAttempt(p, req[p].b, a)
              /\ row' = [row EXCEPT ![req[p].b] = Reset(@)]
              /\ req' = [req EXCEPT ![p] = [step |-> "tag", b |-> req[p].b,
                                            a |-> a]]
       ELSE req' = [req EXCEPT ![p] = Idle] /\ UNCHANGED <<row, of>>
    /\ UNCHANGED <<images, engine, go, poll, asked, crashes, adopted>>

\* SetBuildTargetTag with the new tag, then the goroutine.
RebuildTag(p) ==
    /\ req[p].step = "tag"
    /\ row' = [row EXCEPT ![req[p].b].tag =
                  IF row[req[p].b].live THEN req[p].a ELSE @]
    /\ StartGoroutine(p, req[p].a)
    /\ req' = [req EXCEPT ![p] = Idle]
    /\ UNCHANGED <<images, engine, of, poll, asked, crashes, adopted>>

\* UpdateBuild, with the version the client sends and possibly another tag.
EditWrite(p) ==
    /\ req[p].step = "edit"
    /\ \E tag \in {0, row[req[p].b].tag} :
          row' = IF Unchanged(p)
                 THEN [row EXCEPT ![req[p].b] = Bumped([@ EXCEPT !.tag = tag])]
                 ELSE row
    /\ req' = [req EXCEPT ![p] = Idle]
    /\ UNCHANGED <<images, engine, attempts, poll, asked, crashes, adopted>>

\* DeleteBuild: no version in the statement.
DeleteWrite(p) ==
    /\ req[p].step = "delete"
    /\ row' = [row EXCEPT ![req[p].b] =
                  IF @.live THEN Bumped([@ EXCEPT !.live = FALSE]) ELSE @]
    /\ req' = [req EXCEPT ![p] = Idle]
    /\ UNCHANGED <<images, engine, attempts, poll, asked, crashes, adopted>>

\* RegisterExternalImage: NextImageVersion ...
ImageRead(p) ==
    /\ Ask(p, "image")
    /\ Len(images) < MaxImage
    /\ req' = [req EXCEPT ![p] = [step |-> "image", next |-> Len(images) + 1]]
    /\ UNCHANGED <<tables, engine, attempts, poll, crashes, adopted>>

\* ... and CreateImage.
ImageWrite(p) ==
    /\ req[p].step = "image"
    /\ CreateImage(req[p].next, 0, 0)
    /\ req' = [req EXCEPT ![p] = Idle]
    /\ UNCHANGED <<row, engine, attempts, poll, asked, crashes, adopted>>

-----------------------------------------------------------------------------
(* triggerBuildEngineAsync of attempt a.                                   *)

Step(a, s) == go' = [go EXCEPT ![a].step = s]

\* client.TriggerBuild or the creation of the PipelineRun succeeds,
GoTrigger(a) ==
    /\ go[a].step = "start"
    /\ \E e \in Engines : run' = [run EXCEPT ![a] =
            [state |-> "waiting", engine |-> e]]
    /\ Step(a, "record")
    /\ UNCHANGED <<tables, started, of, req, poll, asked, crashes, adopted>>

\* or something before it fails: markFailed reads the row,
GoRefused(a) ==
    /\ go[a].step = "start"
    /\ go' = [go EXCEPT ![a].step = IF row[of[a]].live THEN "mark" ELSE "done",
                        ![a].version = row[of[a]].version]
    /\ UNCHANGED <<tables, engine, of, req, poll, asked, crashes, adopted>>

\* and completes it, whatever its status is.
GoMark(a) ==
    /\ go[a].step = "mark"
    /\ CompleteBuild(of[a], go[a].version, "failed", 0)
    /\ go' = [go EXCEPT ![a].step = "done", ![a].version = 0]
    /\ UNCHANGED <<images, engine, of, req, poll, asked, crashes, adopted>>

GoRecord(a) ==
    /\ go[a].step = "record"
    /\ SetEngineInfo(of[a], a)
    /\ Step(a, "done")
    /\ UNCHANGED <<images, engine, of, req, poll, asked, crashes, adopted>>

-----------------------------------------------------------------------------
(* The engine and the clock.                                               *)

RunStart(a) ==
    /\ run[a].state = "waiting"
    /\ run' = [run EXCEPT ![a].state = "building"]
    /\ started' = IF run[a].engine = "jenkins" THEN Append(started, a)
                                               ELSE started
    /\ UNCHANGED <<tables, attempts, req, poll, asked, crashes, adopted>>

RunEnd(a, result) ==
    /\ run[a].state = "building"
    /\ result = "lost" => run[a].engine = "jenkins"
    /\ run' = [run EXCEPT ![a].state = result]
    /\ UNCHANGED <<tables, started, attempts, req, poll, asked, crashes, adopted>>

Ages(b) ==
    /\ Live(b, {"pending"}) /\ ~row[b].old
    /\ row' = [row EXCEPT ![b].old = TRUE]
    /\ UNCHANGED <<images, engine, attempts, req, poll, asked, crashes, adopted>>

Waits(b) ==
    /\ Live(b, {"running"}) /\ ~row[b].late /\ row[b].queue # 0 /\ row[b].number = 0
    /\ row' = [row EXCEPT ![b].late = TRUE]
    /\ UNCHANGED <<images, engine, attempts, req, poll, asked, crashes, adopted>>

-----------------------------------------------------------------------------
(* pollOnce.  A snapshot is the row as ListBuilds read it, with its id: the *)
(* columns the poller looks at in a row of that status.                    *)

Columns == [running |-> {"version", "tag", "queue", "number", "pipe", "late"},
            pending |-> {"version", "queue", "old"}]
Snapshot(b, columns) == [b |-> b, r |-> [c \in columns |-> row[b][c]]]
Snapshots(status) == {Snapshot(b, Columns[status]) :
                         b \in {c \in BuildNr : Live(c, {status})}}

\* The snapshot at hand: ORDER BY created_at DESC
First(p) == {s \in poll[p].todo : \A o \in poll[p].todo : o.b <= s.b}

Skip(p, s) == [poll[p] EXCEPT !.step = "run", !.todo = @ \ {s},
                              !.result = "none", !.next = 0]

Update(p, s, t) == (poll[p].todo \ {s}) \cup {t}

ListRunning(p) ==
    /\ poll[p].step = "idle"
    /\ poll' = [poll EXCEPT ![p] = [IdlePoll EXCEPT !.step = "run",
                                        !.todo = Snapshots("running")]]
    /\ UNCHANGED <<tables, engine, attempts, req, asked, crashes, adopted>>

LastBuild == IF started = <<>> THEN 0 ELSE started[Len(started)]

\* GetQueueItemBuildNumber: the number once the item is started, none while
\* it waits or when Jenkins has forgotten it (minutes after the start); after
\* 30 s without a number GetLastBuildNumber.  0: try again at the next poll.
Numbers(r) ==
    IF r.queue = 0 THEN {0}
    ELSE LET waiting == run[r.queue].state = "waiting" IN
         {n \in {r.queue, LastBuild, 0} :
             \/ n = r.queue /\ ~waiting
             \/ n = LastBuild /\ r.late
             \/ n = 0 /\ waiting /\ ~r.late}

\* The snapshot has no number yet: find and store it (the version read
\* again afterwards is read once more by PollStatus).
PollNumber(p) ==
    /\ poll[p].step = "run"
    /\ \E s \in First(p) : \E n \in Numbers(s.r) :
       /\ s.r.pipe = 0 /\ s.r.number = 0
       /\ IF n = 0 THEN poll' = [poll EXCEPT ![p] = Skip(p, s)] /\ row' = row
          ELSE /\ SetNumber(s.b, n)
               /\ poll' = [poll EXCEPT ![p].todo =
                              Update(p, s, [s EXCEPT !.r.number = n])]
       /\ adopted' = IF n \in {0, s.r.queue} THEN adopted ELSE adopted \cup {s.b}
    /\ UNCHANGED <<images, engine, attempts, req, asked, crashes>>

\* Mutant: a result is recorded as success whatever it is.
ResultAlwaysSuccess(a) == IF run[a].state \in {"waiting", "building"}
                          THEN run[a].state ELSE "success"

\* Mutant: whoever has no result yet is taken for lost.
ResultOrLost(a) == IF run[a].state = "waiting" THEN "queued"
                   ELSE IF run[a].state = "aborted" THEN "canceled" ELSE run[a].state

\* GetBuildStatus and GetStatus as the build's status: a build that Jenkins
\* has deleted, or did not build, is "queued" and not building.
Result(a) == CASE run[a].state = "aborted" -> "canceled"
               [] run[a].state = "lost" -> "queued"
               [] OTHER -> run[a].state

\* A run that still works changes nothing: the progress update is refused by
\* the database.  At the end finalizeBuildJenkins reads the version again,
\* finalizeBuildEngine goes on with the snapshot's.
PollStatus(p) ==
    /\ poll[p].step = "run"
    /\ \E s \in First(p) :
       LET a == IF s.r.pipe # 0 THEN s.r.pipe ELSE s.r.number
           v == IF s.r.pipe = 0 /\ row[s.b].live THEN row[s.b].version
                                                 ELSE s.r.version IN
       /\ a # 0
       /\ IF Result(a) \in Terminal \cup {"queued"}
          THEN poll' = [poll EXCEPT ![p].result = Result(a),
                  ![p].step = IF Result(a) = "success" THEN "version" ELSE "end",
                  ![p].todo = Update(p, s, [s EXCEPT !.r.version = v])]
          ELSE poll' = [poll EXCEPT ![p] = Skip(p, s)]
    /\ UNCHANGED <<tables, engine, attempts, req, asked, crashes, adopted>>

\* createImageRecord: NextImageVersion, and CreateImage after the metadata
\* was fetched; a failure leaves the build without an image.
PollVersion(p) ==
    /\ poll[p].step = "version"
    /\ poll' = [poll EXCEPT ![p].step = "image", ![p].next = Len(images) + 1]
    /\ UNCHANGED <<tables, engine, attempts, req, asked, crashes, adopted>>

\* Mutant: the number is kept although the database refused the image.
PollImageAnyhow(p) ==
    /\ poll[p].step = "image"
    /\ \E s \in First(p) : CreateImage(poll[p].next, s.b, s.r.tag)
    /\ poll' = [poll EXCEPT ![p].step = "end"]
    /\ UNCHANGED <<row, engine, attempts, req, asked, crashes, adopted>>

PollImage(p) ==
    /\ poll[p].step = "image"
    /\ \E s \in First(p) : CreateImage(poll[p].next, s.b, s.r.tag)
    /\ poll' = [poll EXCEPT ![p].step = "end",
                            ![p].next = IF images' = images THEN 0 ELSE @]
    /\ UNCHANGED <<row, engine, attempts, req, asked, crashes, adopted>>

PollEnd(p) ==
    /\ poll[p].step = "end"
    /\ \E s \in First(p) :
          /\ CompleteBuild(s.b, s.r.version, poll[p].result, poll[p].next)
          /\ poll' = [poll EXCEPT ![p] = Skip(p, s)]
    /\ UNCHANGED <<images, engine, attempts, req, asked, crashes, adopted>>

ListPending(p) ==
    /\ poll[p].step = "run" /\ poll[p].todo = {}
    /\ poll' = [poll EXCEPT ![p] = IF Snapshots("pending") = {} THEN IdlePoll
                     ELSE [@ EXCEPT !.step = "pend",
                                    !.todo = Snapshots("pending")]]
    /\ UNCHANGED <<tables, engine, attempts, req, asked, crashes, adopted>>

\* Mutant: pending builds are left to their goroutines.
PendingForever(r) == FALSE

\* No queue id (a pending row never has one) and created 30 min ago.
Stuck(r) == r.queue = 0 /\ r.old

PollPending(p) ==
    /\ poll[p].step = "pend"
    /\ \E s \in First(p) :
          /\ IF Stuck(s.r) THEN CompleteBuild(s.b, s.r.version, "failed", 0)
                           ELSE row' = row
          /\ poll' = [poll EXCEPT ![p] =
                         IF poll[p].todo = {s} THEN IdlePoll
                         ELSE [poll[p] EXCEPT !.todo = @ \ {s}]]
    /\ UNCHANGED <<images, engine, attempts, req, asked, crashes, adopted>>

\* The process stops and is restarted: its request, its poll and the
\* goroutines it started are gone.
Crash(p) ==
    /\ crashes < MaxCrash
    /\ crashes' = crashes + 1
    /\ req' = [req EXCEPT ![p] = Idle]
    /\ poll' = [poll EXCEPT ![p] = IdlePoll]
    /\ go' = [a \in Attempt |-> IF go[a].at = p /\ go[a].step # "none"
                                THEN [go[a] EXCEPT !.step = "done", !.version = 0]
                                ELSE go[a]]
    /\ UNCHANGED <<tables, engine, of, asked, adopted>>

-----------------------------------------------------------------------------
Request(p) ==
    \/ TriggerRead(p)
    \/ Read(p, "cancel", Active, "stop")
    \/ Read(p, "rebuild", Terminal, "rebuild")
    \/ Read(p, "edit", Terminal, "edit")
    \/ Read(p, "delete", Terminal, "delete")
    \/ ImageRead(p)

Serve(p) ==
    \/ TriggerInsert(p)
    \/ CancelStop(p)
    \/ CancelWrite(p)
    \/ RebuildWrite(p)
    \/ RebuildTag(p)
    \/ EditWrite(p)
    \/ DeleteWrite(p)
    \/ ImageWrite(p)

Trigger(a) == GoTrigger(a) \/ GoRecord(a) \/ GoRefused(a) \/ GoMark(a)

Poll(p) ==
    \/ ListRunning(p)
    \/ PollNumber(p)
    \/ PollStatus(p)
    \/ PollVersion(p)
    \/ PollImage(p)
    \/ PollEnd(p)
    \/ ListPending(p)
    \/ PollPending(p)

Works(a) == RunStart(a)
            \/ \E result \in {"success", "failed", "lost"} : RunEnd(a, result)

Next == \/ \E p \in Process : Request(p) \/ Serve(p) \/ Poll(p) \/ Crash(p)
        \/ \E a \in Attempt : Trigger(a) \/ Works(a)
        \/ \E b \in BuildNr : Ages(b) \/ Waits(b)

\* Goroutines and handlers run on, the poller ticks, the engine ends its runs
\* and time passes.  Nothing has to be asked and nothing has to crash.
Fairness ==
    /\ \A p \in Process : WF_vars(Serve(p)) /\ WF_vars(Poll(p))
    /\ \A a \in Attempt : WF_vars(Trigger(a)) /\ WF_vars(Works(a))
    /\ \A b \in BuildNr : WF_vars(Ages(b)) /\ WF_vars(Waits(b))

Spec == Init /\ [][Next]_vars /\ Fairness

-----------------------------------------------------------------------------
(* Properties.                                                             *)

\* The poller gives up on a running row without queue item and PipelineRun,
\* and treats a pending row that has one as triggered: so a running row names
\* a run of its own, whichever attempt recorded it last, and a pending row
\* names none, whatever was recorded before the rebuild.
RunTracked == TypeOK /\ \A b \in BuildNr :
    /\ Live(b, {"running"}) => \E a \in {row[b].queue, row[b].pipe} \ {0} :
                                  of[a] = b /\ run[a].state # "none"
    /\ Live(b, {"pending"}) => row[b].queue = 0 /\ row[b].pipe = 0

\* A build is a success only when a run that was made for it succeeded,
\* although rebuilds, cancels, several pollers and other builds of the same
\* Jenkins job overlap; except that a poller which took the job's last build
\* for the build's own goes by that one.
SuccessEarned == \A b \in BuildNr : row[b].status = "success" =>
    \/ b \in adopted
    \/ \E a \in Attempt : of[a] = b /\ run[a].state = "success"

\* "queued" is where no poll looks again.  A build gets there only when Jenkins
\* has lost a run of its own, whatever rebuilds, cancels, crashes and other
\* pollers come between the hand-over and the answer; with the same exception.
QueuedIsLost == \A b \in BuildNr : row[b].status = "queued" =>
    \/ b \in adopted
    \/ \E a \in Attempt : of[a] = b /\ run[a].state = "lost"

\* The image a build points at was recorded for that build, although pollers
\* and requests take version numbers before they record, and only the database
\* decides who gets one.
ImageIsOwn == \A b \in BuildNr : row[b].image # 0 =>
    row[b].image <= Len(images) /\ images[row[b].image].build = b

Overwrites(b) ==
    \/ \E a \in Attempt : of[a] = b /\ go[a].step \in {"record", "mark"}
    \/ \E p \in Process : /\ poll[p].step = "end"
                          /\ \E s \in First(p) : s.b = b /\ s.r.pipe = 0

\* A settled build is changed only by a rebuild and by the three writers that
\* do not look at its status: the goroutine that records the engine's run,
\* the one that marks a failed trigger, and the poll that ends a Jenkins
\* build.  A cancel, the poll of a PipelineRun and the poll that gives up on
\* a pending build change nothing when they lost the race.
SettledStays == [][\A b \in BuildNr :
    Live(b, Terminal) /\ row'[b].status # row[b].status =>
        Overwrites(b) \/ row'[b].status = "pending"]_vars

\* A pending or running build ends, is deleted, or is put back to "queued" by
\* a run that was lost, even when the process that was to trigger it crashes,
\* the trigger fails, or its queue item is gone.
Settles == \A b \in BuildNr :
    Live(b, {"pending", "running"}) ~> ~Live(b, {"pending", "running"})
=============================================================================
