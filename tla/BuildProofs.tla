----------------------------- MODULE BuildProofs -----------------------------
(***************************************************************************)
(* Theorems about Build, for any number of processes, builds, attempts,    *)
(* requests, images and crashes.                                           *)
(***************************************************************************)
EXTENDS Build, TLAPS

USE BuildAssumption

\* A request under way.
Asked == [step : {"stop", "cancel", "rebuild", "edit", "delete"}, b : BuildNr,
          version : Nat, number : {0} \cup Attempt]
ReqType(p) ==
    \/ req[p] = Idle
    \/ req[p] \in [step : {"insert"}, b : BuildNr]
    \/ req[p] \in Asked
    \/ req[p] \in [step : {"tag"}, b : BuildNr, a : Attempt]
    \/ req[p] \in [step : {"image"}, next : Nat]

\* A poll under way: the rows it has listed, as it read them.
Seen == [version : Nat, tag : {0} \cup Attempt, queue : {0} \cup Attempt,
         number : {0} \cup Attempt, pipe : {0} \cup Attempt, late : BOOLEAN]
Waiting == [version : Nat, queue : {0} \cup Attempt, old : BOOLEAN]
Ending == {"version", "image", "end"}
PollType(p) ==
    /\ poll[p] \in [step : {"idle", "run", "pend"} \cup Ending,
                    todo : SUBSET ([b : BuildNr, r : Seen] \cup [b : BuildNr, r : Waiting]),
                    result : {"none", "queued"} \cup Terminal, next : Nat]
    /\ poll[p].step \in {"run"} \cup Ending => poll[p].todo \subseteq [b : BuildNr, r : Seen]
    /\ poll[p].step = "pend" => poll[p].todo \subseteq [b : BuildNr, r : Waiting]
    /\ poll[p].step = "idle" => poll[p].todo = {}
    /\ poll[p].step \in Ending => poll[p].result # "none"

Types == /\ TypeOK
         /\ \A p \in Process : ReqType(p) /\ PollType(p)

\* An attempt is made, gets its goroutine, and has a run only after that; a
\* request that is about to start the goroutine is alone with its attempt.
GoInv(a) ==
    /\ go[a].step # "none" => of[a] \in BuildNr
    /\ go[a].step \in {"none", "start"} => run[a].state = "none"
    /\ go[a].step = "record" => run[a].state # "none"
TagInv(p) == req[p].step = "tag" =>
    /\ of[req[p].a] = req[p].b /\ go[req[p].a].step = "none"
    /\ \A q \in Process : req[q].step = "tag" /\ req[q].a = req[p].a => q = p
AttemptInv == /\ \A a \in Attempt : GoInv(a)
              /\ \A p \in Process : TagInv(p)

\* What a row, or a snapshot of it, refers to was made for the build, or
\* adopted by it.
HasRun(b, state) == \/ b \in adopted
                    \/ \E a \in Attempt : of[a] = b /\ run[a].state = state
Earned(b, status) == /\ status = "success" => HasRun(b, "success")
                     /\ status = "queued" => HasRun(b, "lost")
Refers(b, r) ==
    /\ r.queue # 0 => of[r.queue] = b
    /\ r.pipe # 0 => of[r.pipe] = b
    /\ r.number # 0 => b \in adopted \/ of[r.number] = b
Tracked(b, r) ==
    /\ r.live /\ r.status = "running" => \E a \in {r.queue, r.pipe} \ {0} :
                                            of[a] = b /\ run[a].state # "none"
    /\ r.live /\ r.status = "pending" => r.queue = 0 /\ r.pipe = 0
RowInv(b) ==
    /\ Refers(b, row[b])
    /\ Tracked(b, row[b])
    /\ Earned(b, row[b].status)
    /\ row[b].status = "none" => ~row[b].live /\ row[b].version = 0

\* A version in hand is old, or the row still has the status it was read with.
Guards(b, version, S) ==
    /\ version <= row[b].version
    /\ version = row[b].version => row[b].status \in S
ReqInv(p) == req[p].step \in {"stop", "cancel"} =>
    Guards(req[p].b, req[p].version, Active)
RunInv(p) == \A s \in poll[p].todo : poll[p].step \in {"run"} \cup Ending =>
    /\ Refers(s.b, s.r)
    /\ s.r.pipe # 0 => Guards(s.b, s.r.version, {"running"})
PendInv(p) == \A s \in poll[p].todo : poll[p].step = "pend" =>
    Guards(s.b, s.r.version, {"pending"})
EndInv(p) == poll[p].step \in Ending =>
    \A s \in First(p) : Earned(s.b, poll[p].result)
HandInv == \A p \in Process : ReqInv(p) /\ RunInv(p) /\ PendInv(p) /\ EndInv(p)

BuildInv == Types /\ AttemptInv /\ (\A b \in BuildNr : RowInv(b)) /\ HandInv

-----------------------------------------------------------------------------
(* What the statements do to the row of build b.                           *)

Touched(b) == /\ row' \in [BuildNr -> Row]
              /\ \A c \in BuildNr : c # b => row'[c] = row[c]
NewVersion(b) == row'[b].version = row[b].version + 1
SameRefs(b) == /\ row'[b].queue = row[b].queue /\ row'[b].pipe = row[b].pipe
               /\ row'[b].number = row[b].number

LEMMA BumpedRow ==
    ASSUME NEW r \in Row
    PROVE  /\ Bumped(r) \in Row /\ Bumped(r).version = r.version + 1
           /\ Bumped(r).status = r.status /\ Bumped(r).live = r.live
           /\ Bumped(r).queue = r.queue /\ Bumped(r).pipe = r.pipe
           /\ Bumped(r).number = r.number
  <1> DEFINE old == r.old /\ r.status = "pending"
             late == r.late /\ r.status = "running" /\ r.number = 0
  <1>1. old \in BOOLEAN /\ late \in BOOLEAN
    OBVIOUS
  <1>2. Bumped(r) = [r EXCEPT !.version = r.version + 1, !.old = old, !.late = late]
    BY DEF Bumped
  <1> HIDE DEF old, late
  <1>3. /\ Bumped(r).version = r.version + 1
        /\ Bumped(r).status = r.status /\ Bumped(r).live = r.live
        /\ Bumped(r).queue = r.queue /\ Bumped(r).pipe = r.pipe
        /\ Bumped(r).number = r.number
    BY <1>1, <1>2 DEF Row
  <1>4. Bumped(r) \in Row
    <2>1. Bumped(r) = [status |-> r.status, live |-> r.live,
                       version |-> r.version + 1, tag |-> r.tag,
                       queue |-> r.queue, number |-> r.number,
                       pipe |-> r.pipe, image |-> r.image,
                       old |-> old, late |-> late]
      BY <1>2 DEF Row
    <2>2. QED
      BY <1>1, <2>1 DEF Row
  <1>5. QED
    BY <1>3, <1>4

Completed(b, version, status) ==
    /\ row[b].live /\ row'[b].live /\ row[b].version = version
    /\ NewVersion(b) /\ row'[b].status = status /\ SameRefs(b)

LEMMA CompleteRow ==
    ASSUME TypeOK, NEW b \in BuildNr, NEW version, NEW image \in Nat,
           NEW status \in Terminal \cup {"queued"},
           CompleteBuild(b, version, status, image)
    PROVE  Touched(b) /\ (row' = row \/ Completed(b, version, status))
  <1> DEFINE r == [row[b] EXCEPT !.status = status, !.image = image]
  <1>1. row \in [BuildNr -> Row] /\ row[b] \in Row
    BY DEF TypeOK
  <1>2. /\ r \in Row /\ r.status = status /\ r.version = row[b].version
        /\ r.live = row[b].live /\ r.queue = row[b].queue
        /\ r.pipe = row[b].pipe /\ r.number = row[b].number
    BY <1>1 DEF Row, Active, Terminal
  <1>3. CASE row' = row
    BY <1>1, <1>3 DEF Touched
  <1>4. CASE /\ row[b].live /\ row[b].version = version
             /\ row' = [row EXCEPT ![b] = Bumped(r)]
    <2>1. row'[b] = Bumped(r) /\ Touched(b)
      BY <1>1, <1>2, <1>4, BumpedRow DEF Touched
    <2> HIDE DEF r
    <2>2. /\ row'[b].version = r.version + 1 /\ row'[b].status = r.status
          /\ row'[b].live = r.live /\ row'[b].queue = r.queue
          /\ row'[b].pipe = r.pipe /\ row'[b].number = r.number
      BY <1>2, <2>1, BumpedRow
    <2>3. QED
      BY <1>2, <1>4, <2>1, <2>2 DEF Completed, NewVersion, SameRefs
  <1>5. QED
    BY <1>3, <1>4 DEF CompleteBuild

Recorded(b, a) ==
    /\ row[b].live /\ row'[b].live /\ NewVersion(b) /\ row'[b].status = "running"
    /\ \/ /\ row'[b].pipe = a /\ row'[b].queue = row[b].queue
          /\ row'[b].number = row[b].number
       \/ /\ row'[b].queue = a /\ row'[b].pipe = row[b].pipe
          /\ row'[b].number = 0

LEMMA RecordRow ==
    ASSUME TypeOK, NEW b \in BuildNr, NEW a \in Attempt, SetEngineInfo(b, a)
    PROVE  Touched(b) /\ (row' = row \/ Recorded(b, a))
  <1> DEFINE r == IF run[a].engine = "tekton"
                  THEN [row[b] EXCEPT !.status = "running", !.pipe = a]
                  ELSE [row[b] EXCEPT !.status = "running", !.queue = a,
                                      !.number = 0]
  <1>1. row \in [BuildNr -> Row] /\ row[b] \in Row
    BY DEF TypeOK
  <1>2. /\ r \in Row /\ r.status = "running" /\ r.version = row[b].version
        /\ r.live = row[b].live
        /\ \/ r.pipe = a /\ r.queue = row[b].queue /\ r.number = row[b].number
           \/ r.queue = a /\ r.pipe = row[b].pipe /\ r.number = 0
    BY <1>1 DEF Row, Active, Terminal
  <1>3. CASE row' = row
    BY <1>1, <1>3 DEF Touched
  <1>4. CASE row[b].live /\ row' = [row EXCEPT ![b] = Bumped(r)]
    <2>1. row'[b] = Bumped(r) /\ Touched(b)
      BY <1>1, <1>2, <1>4, BumpedRow DEF Touched
    <2> HIDE DEF r
    <2>2. /\ row'[b].version = r.version + 1 /\ row'[b].status = r.status
          /\ row'[b].live = r.live /\ row'[b].queue = r.queue
          /\ row'[b].pipe = r.pipe /\ row'[b].number = r.number
      BY <1>2, <2>1, BumpedRow
    <2>3. QED
      BY <1>2, <1>4, <2>1, <2>2 DEF Recorded, NewVersion
  <1>5. QED
    BY <1>3, <1>4 DEF SetEngineInfo

Numbered(b, n) ==
    /\ row[b].live /\ row'[b].live /\ NewVersion(b)
    /\ row'[b].status = row[b].status /\ row'[b].number = n
    /\ row'[b].queue = row[b].queue /\ row'[b].pipe = row[b].pipe

LEMMA NumberRow ==
    ASSUME TypeOK, NEW b \in BuildNr, NEW n \in Attempt, SetNumber(b, n)
    PROVE  Touched(b) /\ (row' = row \/ Numbered(b, n))
  <1> DEFINE r == [row[b] EXCEPT !.number = n]
  <1>1. row \in [BuildNr -> Row] /\ row[b] \in Row
    BY DEF TypeOK
  <1>2. /\ r \in Row /\ r.status = row[b].status /\ r.number = n
        /\ r.version = row[b].version /\ r.live = row[b].live
        /\ r.queue = row[b].queue /\ r.pipe = row[b].pipe
    BY <1>1 DEF Row, Active, Terminal
  <1>3. CASE row' = row
    BY <1>1, <1>3 DEF Touched
  <1>4. CASE row[b].live /\ row' = [row EXCEPT ![b] = Bumped(r)]
    <2>1. row'[b] = Bumped(r) /\ Touched(b)
      BY <1>1, <1>2, <1>4, BumpedRow DEF Touched
    <2> HIDE DEF r
    <2>2. /\ row'[b].version = r.version + 1 /\ row'[b].status = r.status
          /\ row'[b].live = r.live /\ row'[b].queue = r.queue
          /\ row'[b].pipe = r.pipe /\ row'[b].number = r.number
      BY <1>2, <2>1, BumpedRow
    <2>3. QED
      BY <1>2, <1>4, <2>1, <2>2 DEF Numbered, NewVersion
  <1>5. QED
    BY <1>3, <1>4 DEF SetNumber

Kept(b) == /\ row'[b].version = row[b].version
           /\ row'[b].status = row[b].status /\ row'[b].live = row[b].live
           /\ SameRefs(b)
Restarted(b) ==
    /\ row[b].live /\ row'[b].live /\ NewVersion(b) /\ row'[b].status = "pending"
    /\ row'[b].queue = 0 /\ row'[b].pipe = 0 /\ row'[b].number = 0
Edited(b) ==
    /\ row[b].live /\ NewVersion(b) /\ row'[b].status = row[b].status /\ SameRefs(b)
Born(b) ==
    /\ row[b].status = "none" /\ row'[b].status = "pending"
    /\ row'[b].live /\ row'[b].version = 0
    /\ row'[b].queue = 0 /\ row'[b].pipe = 0 /\ row'[b].number = 0

LEMMA InsertRow ==
    ASSUME TypeOK, NEW b \in BuildNr, NEW a \in Attempt, ~Exists(b),
           row' = [row EXCEPT ![b] = [NoRow EXCEPT
                      !.status = "pending", !.live = TRUE, !.tag = a]]
    PROVE  Touched(b) /\ Born(b)
  <1> DEFINE r == [NoRow EXCEPT !.status = "pending", !.live = TRUE, !.tag = a]
  <1>1. row \in [BuildNr -> Row]
    BY DEF TypeOK
  <1>2. /\ r \in Row /\ r.status = "pending" /\ r.live /\ r.version = 0
        /\ r.queue = 0 /\ r.pipe = 0 /\ r.number = 0
    BY DEF NoRow, Row, Active, Terminal
  <1>3. row'[b] = r /\ Touched(b)
    BY <1>1, <1>2 DEF Touched
  <1>4. QED
    BY <1>2, <1>3 DEF Born, Exists

LEMMA ResetRow ==
    ASSUME TypeOK, NEW b \in BuildNr, row[b].live,
           row' = [row EXCEPT ![b] = Reset(@)]
    PROVE  Touched(b) /\ Restarted(b)
  <1> DEFINE r == [row[b] EXCEPT !.status = "pending", !.image = 0, !.queue = 0,
                                 !.number = 0, !.pipe = 0]
  <1>1. row \in [BuildNr -> Row] /\ row[b] \in Row
    BY DEF TypeOK
  <1>2. /\ r \in Row /\ r.status = "pending" /\ r.live = row[b].live
        /\ r.version = row[b].version
        /\ r.queue = 0 /\ r.pipe = 0 /\ r.number = 0
    BY <1>1 DEF Row, Active, Terminal
  <1>3. row'[b] = Bumped(r) /\ Touched(b)
    BY <1>1, <1>2, BumpedRow DEF Touched, Reset
  <1> HIDE DEF r
  <1>4. /\ Bumped(r).version = r.version + 1
        /\ Bumped(r).status = r.status /\ Bumped(r).live = r.live
        /\ Bumped(r).queue = r.queue /\ Bumped(r).pipe = r.pipe
        /\ Bumped(r).number = r.number
    BY <1>2, BumpedRow, Zenon
  <1>5. QED
    BY <1>2, <1>3, <1>4, Zenon DEF Restarted, NewVersion

LEMMA TagRow ==
    ASSUME TypeOK, NEW b \in BuildNr, NEW a \in Attempt,
           row' = [row EXCEPT ![b].tag = IF row[b].live THEN a ELSE @]
    PROVE  Touched(b) /\ Kept(b)
  <1>1. row \in [BuildNr -> Row] /\ row[b] \in Row
    BY DEF TypeOK
  <1>2. row'[b] = [row[b] EXCEPT !.tag = IF row[b].live THEN a ELSE @]
    BY <1>1
  <1>3. row'[b] \in Row /\ Kept(b)
    BY <1>1, <1>2 DEF Row, Kept, SameRefs
  <1>4. QED
    BY <1>1, <1>3 DEF Touched

LEMMA EditRow ==
    ASSUME TypeOK, NEW p \in Process, req[p].b \in BuildNr, EditWrite(p)
    PROVE  /\ Touched(req[p].b)
           /\ row' = row \/ Edited(req[p].b)
  <1> DEFINE b == req[p].b
  <1>1. row \in [BuildNr -> Row] /\ row[b] \in Row
    BY DEF TypeOK
  <1>2. CASE row' = row
    BY <1>1, <1>2 DEF Touched
  <1>3. ASSUME NEW tag \in {0, row[b].tag}, row[b].live,
               row' = [row EXCEPT ![b] = Bumped([@ EXCEPT !.tag = tag])]
        PROVE  Touched(b) /\ Edited(b)
    <2> DEFINE r == [row[b] EXCEPT !.tag = tag]
    <2>1. /\ r \in Row /\ r.status = row[b].status /\ r.live = row[b].live
          /\ r.version = row[b].version /\ r.queue = row[b].queue
          /\ r.pipe = row[b].pipe /\ r.number = row[b].number
      BY <1>1 DEF Row
    <2>2. row'[b] = Bumped(r) /\ Touched(b)
      BY <1>1, <1>3, <2>1, BumpedRow DEF Touched
    <2> HIDE DEF r
    <2>3. QED
      BY <1>3, <2>1, <2>2, BumpedRow DEF Edited, NewVersion, SameRefs
  <1>4. QED
    BY <1>2, <1>3 DEF EditWrite, Unchanged

LEMMA DeleteRow ==
    ASSUME TypeOK, NEW b \in BuildNr,
           row' = [row EXCEPT ![b] =
                      IF @.live THEN Bumped([@ EXCEPT !.live = FALSE]) ELSE @]
    PROVE  Touched(b) /\ (row' = row \/ (Edited(b) /\ ~row'[b].live))
  <1> DEFINE r == [row[b] EXCEPT !.live = FALSE]
  <1>1. row \in [BuildNr -> Row] /\ row[b] \in Row
    BY DEF TypeOK
  <1>2. CASE ~row[b].live
    <2>1. row' = row
      BY <1>1, <1>2
    <2>2. QED
      BY <1>1, <2>1 DEF Touched
  <1>3. CASE row[b].live
    <2>1. /\ r \in Row /\ r.status = row[b].status /\ ~r.live
          /\ r.version = row[b].version /\ r.queue = row[b].queue
          /\ r.pipe = row[b].pipe /\ r.number = row[b].number
      BY <1>1 DEF Row
    <2>2. row'[b] = Bumped(r) /\ Touched(b)
      BY <1>1, <1>3, <2>1, BumpedRow DEF Touched
    <2> HIDE DEF r
    <2>3. QED
      BY <1>3, <2>1, <2>2, BumpedRow DEF Edited, NewVersion, SameRefs
  <1>4. QED
    BY <1>2, <1>3

LEMMA TimeRow ==
    ASSUME TypeOK, NEW b \in BuildNr, Ages(b) \/ Waits(b)
    PROVE  Touched(b) /\ Kept(b)
  <1>1. row \in [BuildNr -> Row] /\ row[b] \in Row
    BY DEF TypeOK
  <1>2. \/ row'[b] = [row[b] EXCEPT !.old = TRUE]
        \/ row'[b] = [row[b] EXCEPT !.late = TRUE]
    BY <1>1 DEF Ages, Waits
  <1>3. row'[b] \in Row /\ Kept(b)
    BY <1>1, <1>2 DEF Row, Kept, SameRefs
  <1>4. QED
    BY <1>1, <1>3 DEF Touched, Ages, Waits

-----------------------------------------------------------------------------
(* Attempts: what is known of one stays true.                              *)

Grows == /\ \A a \in Attempt :
              /\ of[a] # 0 => of'[a] = of[a]
              /\ run[a].state # "none" => run'[a].state # "none"
              /\ run[a].state \in {"success", "lost"} => run'[a].state = run[a].state
         /\ adopted \subseteq adopted'

AttemptFine == /\ of' \in [Attempt -> {0} \cup BuildNr]
               /\ go' \in [Attempt -> Goroutine] /\ run' \in [Attempt -> Run]
               /\ AttemptInv' /\ Grows

LEMMA Fields ==
    ASSUME Types, NEW p \in Process
    PROVE  /\ req[p].step = "insert" => req[p].b \in BuildNr
           /\ req[p].step \in {"stop", "cancel", "rebuild", "edit", "delete"}
                 => req[p] \in Asked
           /\ req[p].step = "tag" => req[p].b \in BuildNr /\ req[p].a \in Attempt
           /\ req[p].step = "image" => req[p].next \in Nat
  BY DEF Types, ReqType, Idle, Asked

\* Only requests under way change, and none is about to start a goroutine.
LEMMA AttemptIdle ==
    ASSUME Types, AttemptInv, UNCHANGED <<of, go, run>>, adopted \subseteq adopted',
           \A q \in Process : req'[q].step = "tag" => req'[q] = req[q]
    PROVE  AttemptFine
  <1>1. \A a \in Attempt : GoInv(a)'
    BY DEF AttemptInv, GoInv
  <1>2. \A q \in Process : TagInv(q)'
    BY DEF AttemptInv, TagInv
  <1>3. Grows
    BY DEF Grows
  <1>4. QED
    BY <1>1, <1>2, <1>3 DEF AttemptFine, AttemptInv, Types, TypeOK

LEMMA AttemptMade ==
    ASSUME Types, AttemptInv, NEW p, NEW b \in BuildNr, NEW a \in Attempt,
           NewAttempt(p, b, a)
    PROVE  /\ of' \in [Attempt -> {0} \cup BuildNr] /\ b # 0
           /\ of[a] = 0 /\ of'[a] = b /\ go[a].step = "none"
           /\ run[a].state = "none"
           /\ \A c \in Attempt : c # a => of'[c] = of[c]
  <1>1. of \in [Attempt -> {0} \cup BuildNr] /\ 0 \notin BuildNr
    BY DEF Types, TypeOK, BuildNr
  <1>2. of[a] = 0 /\ of' = [of EXCEPT ![a] = b]
    BY DEF NewAttempt
  <1>3. go[a].step = "none" /\ run[a].state = "none"
    BY <1>1, <1>2 DEF AttemptInv, GoInv
  <1>4. QED
    BY <1>1, <1>2, <1>3

LEMMA TriggerAttempt ==
    ASSUME Types, AttemptInv, NEW p \in Process, TriggerInsert(p)
    PROVE  AttemptFine
  <1>1. req[p].step = "insert" /\ req[p].b \in BuildNr /\ DOMAIN req = Process
    BY Fields DEF TriggerInsert, Types, TypeOK
  <1>2. req'[p] = Idle /\ \A q \in Process : q # p => req'[q] = req[q]
    BY <1>1 DEF TriggerInsert
  <1>3. CASE UNCHANGED <<of, go>>
    <2>1. run' = run /\ adopted' = adopted
      BY DEF TriggerInsert, engine
    <2>2. \A q \in Process : req'[q].step = "tag" => req'[q] = req[q]
      BY <1>2 DEF Idle
    <2>3. QED
      BY <1>3, <2>1, <2>2, AttemptIdle
  <1>4. ASSUME NEW a \in Attempt, NewAttempt(p, req[p].b, a), StartGoroutine(p, a)
        PROVE  AttemptFine
    <2>1. run' = run /\ adopted' = adopted
      BY DEF TriggerInsert, engine
    <2>2. /\ go' \in [Attempt -> Goroutine] /\ go'[a].step = "start"
          /\ \A c \in Attempt : c # a => go'[c] = go[c]
      BY <1>4 DEF StartGoroutine, Types, TypeOK, Goroutine
    <2>3. \A c \in Attempt : GoInv(c)'
      BY <1>1, <1>4, <2>1, <2>2, AttemptMade DEF GoInv, AttemptInv
    <2>4. \A q \in Process : TagInv(q)'
      <3>1. SUFFICES ASSUME NEW q \in Process, req'[q].step = "tag"
                     PROVE  TagInv(q)'
        BY DEF TagInv
      <3>2. q # p /\ req'[q] = req[q]
        BY <1>2, <3>1 DEF Idle
      <3>3. /\ req[q].step = "tag" /\ TagInv(q)
            /\ req[q].a \in Attempt /\ req[q].b \in BuildNr
        BY <3>1, <3>2, Fields DEF AttemptInv
      <3>4. req[q].a # a
        BY <1>1, <1>4, <3>3, AttemptMade DEF TagInv, BuildNr
      <3>5. of'[req'[q].a] = req'[q].b /\ go'[req'[q].a].step = "none"
        BY <1>1, <1>4, <2>2, <3>2, <3>3, <3>4, AttemptMade DEF TagInv
      <3>6. \A o \in Process : req'[o].step = "tag" /\ req'[o].a = req'[q].a => o = q
        BY <1>2, <3>2, <3>3 DEF TagInv, Idle
      <3>7. QED
        BY <3>5, <3>6 DEF TagInv
    <2>5. Grows
      BY <1>1, <1>4, <2>1, AttemptMade DEF Grows
    <2>6. QED
      BY <1>1, <1>4, <2>1, <2>2, <2>3, <2>4, <2>5, AttemptMade
      DEF AttemptFine, AttemptInv, Types, TypeOK
  <1>5. QED
    BY <1>3, <1>4 DEF TriggerInsert

LEMMA RebuildAttempt ==
    ASSUME Types, AttemptInv, NEW p \in Process, RebuildWrite(p)
    PROVE  AttemptFine
  <1>1. req[p].step = "rebuild" /\ req[p].b \in BuildNr /\ DOMAIN req = Process
    BY Fields DEF RebuildWrite, Types, TypeOK, Asked
  <1>2. UNCHANGED <<go, run, adopted>> /\ \A q \in Process : q # p => req'[q] = req[q]
    BY <1>1 DEF RebuildWrite, engine
  <1>3. CASE req' = [req EXCEPT ![p] = Idle] /\ UNCHANGED of
    <2>1. req'[p] = Idle
      BY <1>1, <1>3
    <2>2. QED
      BY <1>2, <1>3, <2>1, AttemptIdle DEF Idle
  <1>4. ASSUME NEW a \in Attempt, NewAttempt(p, req[p].b, a),
               req' = [req EXCEPT ![p] = [step |-> "tag", b |-> req[p].b, a |-> a]]
        PROVE  AttemptFine
    <2>1. req'[p].step = "tag" /\ req'[p].b = req[p].b /\ req'[p].a = a
      BY <1>1, <1>4
    <2>2. \A c \in Attempt : GoInv(c)'
      BY <1>1, <1>2, <1>4, AttemptMade DEF GoInv, AttemptInv
    <2>3. \A q \in Process : q # p /\ req[q].step = "tag" => req[q].a # a
      BY <1>1, <1>4, Fields, AttemptMade DEF AttemptInv, TagInv, BuildNr
    <2>4. \A q \in Process : TagInv(q)'
      <3>1. TagInv(p)'
        BY <1>1, <1>2, <1>4, <2>1, <2>3, AttemptMade DEF TagInv
      <3>2. ASSUME NEW q \in Process, q # p, req[q].step = "tag"
            PROVE  TagInv(q)'
        <4>1. req'[q] = req[q] /\ TagInv(q) /\ req[q].a \in Attempt
              /\ req[q].b \in BuildNr /\ req[q].a # a
          BY <1>2, <2>3, <3>2, Fields DEF AttemptInv
        <4>2. of'[req[q].a] = req[q].b /\ go'[req[q].a].step = "none"
          BY <1>1, <1>2, <1>4, <3>2, <4>1, AttemptMade DEF TagInv
        <4>3. \A o \in Process : req'[o].step = "tag" /\ req'[o].a = req[q].a => o = q
          BY <1>2, <2>1, <3>2, <4>1 DEF TagInv
        <4>4. QED
          BY <4>1, <4>2, <4>3 DEF TagInv
      <3>3. QED
        BY <1>2, <3>1, <3>2 DEF TagInv
    <2>5. Grows
      BY <1>1, <1>2, <1>4, AttemptMade DEF Grows
    <2>6. QED
      BY <1>1, <1>2, <1>4, <2>2, <2>4, <2>5, AttemptMade
      DEF AttemptFine, AttemptInv, Types, TypeOK
  <1>5. QED
    BY <1>3, <1>4 DEF RebuildWrite

LEMMA TagAttempt ==
    ASSUME Types, AttemptInv, NEW p \in Process, RebuildTag(p)
    PROVE  AttemptFine
  <1> PICK a \in Attempt : a = req[p].a
    BY Fields DEF RebuildTag
  <1>1. /\ req[p].step = "tag" /\ a = req[p].a /\ req[p].b \in BuildNr
        /\ DOMAIN req = Process /\ go \in [Attempt -> Goroutine] /\ TagInv(p)
    BY Fields DEF RebuildTag, Types, TypeOK, AttemptInv
  <1>2. /\ UNCHANGED <<of, run, adopted>> /\ req'[p] = Idle
        /\ \A q \in Process : q # p => req'[q] = req[q]
    BY <1>1 DEF RebuildTag, engine
  <1>3. /\ go' \in [Attempt -> Goroutine] /\ go'[a].step = "start"
        /\ \A c \in Attempt : c # a => go'[c] = go[c]
    BY <1>1 DEF RebuildTag, StartGoroutine, Goroutine
  <1>4. \A c \in Attempt : GoInv(c)'
    <2>1. GoInv(a) /\ of[a] \in BuildNr /\ go[a].step = "none"
      BY <1>1 DEF TagInv, AttemptInv
    <2>2. GoInv(a)'
      BY <1>2, <1>3, <2>1 DEF GoInv
    <2>3. \A c \in Attempt : c # a => GoInv(c)'
      BY <1>2, <1>3 DEF GoInv, AttemptInv
    <2>4. QED
      BY <2>2, <2>3
  <1>5. \A q \in Process : TagInv(q)'
    <2>1. SUFFICES ASSUME NEW q \in Process, req'[q].step = "tag"
                   PROVE  TagInv(q)'
      BY DEF TagInv
    <2>2. q # p /\ req'[q] = req[q] /\ TagInv(q) /\ req[q].a \in Attempt
      BY <1>2, <2>1, Fields DEF AttemptInv, Idle
    <2>3. req[q].a # a
      BY <1>1, <2>1, <2>2 DEF TagInv
    <2>4. of'[req'[q].a] = req'[q].b /\ go'[req'[q].a].step = "none"
      BY <1>2, <1>3, <2>1, <2>2, <2>3 DEF TagInv
    <2>5. \A o \in Process : req'[o].step = "tag" /\ req'[o].a = req'[q].a => o = q
      BY <1>2, <2>1, <2>2 DEF TagInv, Idle
    <2>6. QED
      BY <2>4, <2>5 DEF TagInv
  <1>6. QED
    BY <1>2, <1>3, <1>4, <1>5 DEF AttemptFine, AttemptInv, Grows, Types, TypeOK

LEMMA StopAttempt ==
    ASSUME Types, AttemptInv, NEW p \in Process, CancelStop(p)
    PROVE  AttemptFine
  <1>1. req[p] \in Asked /\ DOMAIN req = Process /\ run \in [Attempt -> Run]
    BY Fields DEF CancelStop, Types, TypeOK
  <1>2. req'[p].step = "cancel" /\ \A q \in Process : q # p => req'[q] = req[q]
    BY <1>1 DEF CancelStop, Asked
  <1>3. \A a \in Attempt :
           \/ run'[a] = run[a]
           \/ run[a].state = "building" /\ run'[a] = [run[a] EXCEPT !.state = "aborted"]
    BY <1>1 DEF CancelStop
  <1>4. /\ run' \in [Attempt -> Run]
        /\ \A a \in Attempt : /\ run'[a].state = "none" <=> run[a].state = "none"
                              /\ run[a].state \in {"success", "lost"} => run'[a].state = run[a].state
    <2>1. DOMAIN run' = Attempt /\ run' = [a \in Attempt |-> run'[a]]
      BY DEF CancelStop
    <2>2. ASSUME NEW a \in Attempt
          PROVE  run'[a] \in Run
      <3>1. run[a] \in Run /\ [run[a] EXCEPT !.state = "aborted"] \in Run
        BY <1>1 DEF Run
      <3>2. QED
        BY <1>3, <3>1
    <2>3. QED
      BY <1>1, <1>3, <2>1, <2>2 DEF Run
  <1>5. UNCHANGED <<of, go, adopted>>
    BY DEF CancelStop, attempts
  <1>6. \A a \in Attempt : GoInv(a)'
    BY <1>4, <1>5 DEF GoInv, AttemptInv
  <1>7. \A q \in Process : TagInv(q)'
    BY <1>2, <1>5 DEF TagInv, AttemptInv
  <1>8. QED
    BY <1>4, <1>5, <1>6, <1>7 DEF AttemptFine, AttemptInv, Grows, Types, TypeOK

\* The goroutine and the engine go on with attempt c.
AttemptMoves(c) ==
    /\ of' = of /\ adopted' = adopted
    /\ \A a \in Attempt : a # c => go'[a] = go[a] /\ run'[a] = run[a]
    /\ go'[c] \in Goroutine /\ run'[c] \in Run
    /\ \/ go'[c] = go[c]
       \/ go[c].step # "none" /\ go'[c].step \notin {"none", "start"}
    /\ go'[c].step = "record" => run'[c].state # "none"
    /\ run[c].state # "none" => run'[c].state # "none"
    /\ run[c].state \in {"success", "lost"} => run'[c].state = run[c].state
    /\ go'[c].step \in {"none", "start"} => run'[c].state = "none"

LEMMA MoveAttempt ==
    ASSUME Types, AttemptInv, NEW c \in Attempt, AttemptMoves(c), req' = req,
           go' \in [Attempt -> Goroutine], run' \in [Attempt -> Run]
    PROVE  AttemptFine
  <1>1. \A a \in Attempt : GoInv(a)'
    <2>1. GoInv(c)'
      BY DEF GoInv, AttemptInv, AttemptMoves
    <2>2. \A a \in Attempt : a # c => GoInv(a)'
      BY DEF GoInv, AttemptInv, AttemptMoves
    <2>3. QED
      BY <2>1, <2>2
  <1>2. \A q \in Process : TagInv(q)'
    <2>1. \A a \in Attempt : go[a].step = "none" => go'[a].step = "none"
      BY DEF AttemptMoves
    <2>2. QED
      BY <2>1, Fields DEF TagInv, AttemptInv, AttemptMoves
  <1>3. Grows
    BY DEF Grows, AttemptMoves
  <1>4. QED
    BY <1>1, <1>2, <1>3 DEF AttemptFine, AttemptInv, AttemptMoves, Types, TypeOK

LEMMA GoAttempt ==
    ASSUME Types, AttemptInv, NEW a \in Attempt, Trigger(a)
    PROVE  AttemptFine
  <1>1. /\ go \in [Attempt -> Goroutine] /\ run \in [Attempt -> Run]
        /\ of \in [Attempt -> {0} \cup BuildNr] /\ row \in [BuildNr -> Row]
        /\ GoInv(a)
    BY DEF Types, TypeOK, AttemptInv
  <1>2. CASE GoTrigger(a)
    <2>1. PICK e \in Engines : run' = [run EXCEPT ![a] =
                                  [state |-> "waiting", engine |-> e]]
      BY <1>2 DEF GoTrigger
    <2>2. /\ run' \in [Attempt -> Run] /\ run'[a].state = "waiting"
          /\ \A c \in Attempt : c # a => run'[c] = run[c]
      BY <1>1, <2>1 DEF Run, BuildAssumption
    <2>3. /\ go' \in [Attempt -> Goroutine] /\ go'[a].step = "record"
          /\ \A c \in Attempt : c # a => go'[c] = go[c]
      BY <1>1, <1>2 DEF GoTrigger, Step, Goroutine
    <2>4. AttemptMoves(a)
      BY <1>1, <1>2, <2>2, <2>3 DEF AttemptMoves, GoTrigger, GoInv
    <2>5. QED
      BY <1>2, <2>2, <2>3, <2>4, MoveAttempt DEF GoTrigger
  <1>3. CASE GoRecord(a) \/ GoMark(a) \/ GoRefused(a)
    <2>1. run' = run /\ of' = of /\ adopted' = adopted /\ req' = req
      BY <1>3 DEF GoRecord, GoMark, GoRefused, engine
    <2>2. /\ go' \in [Attempt -> Goroutine] /\ go'[a].step \in {"mark", "done"}
          /\ go[a].step # "none"
          /\ \A c \in Attempt : c # a => go'[c] = go[c]
      <3>1. CASE GoRecord(a)
        BY <1>1, <3>1 DEF GoRecord, Step, Goroutine
      <3>2. CASE GoMark(a)
        BY <1>1, <3>2 DEF GoMark, Goroutine
      <3>3. CASE GoRefused(a)
        <4>1. of[a] \in BuildNr
          BY <1>1, <3>3 DEF GoRefused, GoInv
        <4>2. row[of[a]].version \in Nat
          BY <1>1, <4>1 DEF Row
        <4>3. QED
          BY <1>1, <3>3, <4>2 DEF GoRefused, Goroutine
      <3>4. QED
        BY <1>3, <3>1, <3>2, <3>3
    <2>3. AttemptMoves(a)
      BY <1>1, <2>1, <2>2 DEF AttemptMoves
    <2>4. QED
      BY <1>1, <2>1, <2>2, <2>3, MoveAttempt
  <1>4. QED
    BY <1>2, <1>3 DEF Trigger

LEMMA WorksAttempt ==
    ASSUME Types, AttemptInv, NEW a \in Attempt, Works(a)
    PROVE  AttemptFine
  <1>1. /\ go \in [Attempt -> Goroutine] /\ run \in [Attempt -> Run] /\ GoInv(a)
    BY DEF Types, TypeOK, AttemptInv
  <1>2. UNCHANGED <<of, go, adopted, req>>
    BY DEF Works, RunStart, RunEnd, attempts
  <1>3. PICK s \in {"building", "success", "failed", "lost"} :
           /\ run' = [run EXCEPT ![a].state = s]
           /\ run[a].state \in {"waiting", "building"}
    BY DEF Works, RunStart, RunEnd
  <1>4. /\ run' \in [Attempt -> Run] /\ run'[a].state = s
        /\ \A c \in Attempt : c # a => run'[c] = run[c]
    BY <1>1, <1>3 DEF Run
  <1>5. AttemptMoves(a)
    BY <1>1, <1>2, <1>3, <1>4 DEF AttemptMoves, GoInv
  <1>6. QED
    BY <1>1, <1>2, <1>4, <1>5, MoveAttempt

LEMMA CrashAttempt ==
    ASSUME Types, AttemptInv, NEW p \in Process, Crash(p)
    PROVE  AttemptFine
  <1>1. /\ go \in [Attempt -> Goroutine] /\ DOMAIN req = Process
    BY DEF Types, TypeOK
  <1>2. /\ UNCHANGED <<of, run, adopted>> /\ req'[p] = Idle
        /\ \A q \in Process : q # p => req'[q] = req[q]
    BY <1>1 DEF Crash, engine
  <1>3. \A a \in Attempt :
           /\ go'[a] \in Goroutine
           /\ \/ go'[a] = go[a]
              \/ go[a].step # "none" /\ go'[a].step = "done"
    <2> TAKE a \in Attempt
    <2> DEFINE d == [go[a] EXCEPT !.step = "done", !.version = 0]
    <2>1. go[a] \in Goroutine /\ d \in Goroutine /\ d.step = "done"
      BY <1>1 DEF Goroutine
    <2>2. go'[a] = go[a] \/ (go[a].step # "none" /\ go'[a] = d)
      BY DEF Crash
    <2> HIDE DEF d
    <2>3. QED
      BY <2>1, <2>2
  <1>4. go' \in [Attempt -> Goroutine]
    <2>1. go' = [a \in Attempt |-> go'[a]]
      BY DEF Crash
    <2>2. QED
      BY <1>3, <2>1
  <1>5. \A a \in Attempt : GoInv(a)'
    BY <1>2, <1>3 DEF GoInv, AttemptInv
  <1>6. \A q \in Process : TagInv(q)'
    <2>1. ASSUME NEW q \in Process, req'[q].step = "tag"
          PROVE  TagInv(q)'
      <3>1. q # p /\ req'[q] = req[q]
        BY <1>2, <2>1 DEF Idle
      <3>2. /\ req[q].step = "tag" /\ TagInv(q) /\ req[q].a \in Attempt
        BY <2>1, <3>1, Fields DEF AttemptInv
      <3>3. of'[req'[q].a] = req'[q].b /\ go'[req'[q].a].step = "none"
        BY <1>2, <1>3, <3>1, <3>2 DEF TagInv
      <3>4. \A o \in Process : req'[o].step = "tag" /\ req'[o].a = req'[q].a => o = q
        BY <1>2, <3>1, <3>2 DEF TagInv, Idle
      <3>5. QED
        BY <3>3, <3>4 DEF TagInv
    <2>2. QED
      BY <2>1 DEF TagInv
  <1>7. QED
    BY <1>2, <1>4, <1>5, <1>6 DEF AttemptFine, AttemptInv, Grows, Types, TypeOK

LEMMA AttemptNext ==
    ASSUME Types, AttemptInv, [Next]_vars
    PROVE  AttemptFine
  <1>1. ASSUME NEW p \in Process, Request(p)
        PROVE  AttemptFine
    <2>1. UNCHANGED <<of, go, run, adopted>> /\ DOMAIN req = Process
      BY <1>1 DEF Request, TriggerRead, Read, ImageRead, engine, attempts,
                  Types, TypeOK
    <2>2. req'[p].step # "tag" /\ \A q \in Process : q # p => req'[q] = req[q]
      <3>1. CASE TriggerRead(p) \/ ImageRead(p)
        BY <2>1, <3>1 DEF TriggerRead, ImageRead
      <3>2. ASSUME NEW op, NEW S,
                   NEW next \in {"stop", "rebuild", "edit", "delete"},
                   Read(p, op, S, next)
            PROVE  /\ req'[p].step # "tag"
                   /\ \A q \in Process : q # p => req'[q] = req[q]
        BY <2>1, <3>2 DEF Read
      <3>3. QED
        BY <1>1, <3>1, <3>2 DEF Request
    <2>3. QED
      BY <2>1, <2>2, AttemptIdle
  <1>2. ASSUME NEW p \in Process,
               \/ CancelWrite(p) \/ EditWrite(p) \/ DeleteWrite(p) \/ ImageWrite(p)
        PROVE  AttemptFine
    <2>1. UNCHANGED <<of, go, run, adopted>> /\ DOMAIN req = Process
      BY <1>2 DEF CancelWrite, EditWrite, DeleteWrite, ImageWrite, engine,
                  attempts, Types, TypeOK
    <2>2. req' = [req EXCEPT ![p] = Idle]
      BY <1>2 DEF CancelWrite, EditWrite, DeleteWrite, ImageWrite
    <2>3. QED
      BY <2>1, <2>2, AttemptIdle DEF Idle
  <1>3. ASSUME NEW p \in Process, Serve(p)
        PROVE  AttemptFine
    BY <1>2, <1>3, TriggerAttempt, RebuildAttempt, TagAttempt, StopAttempt DEF Serve
  <1>4. ASSUME NEW p \in Process, Poll(p)
        PROVE  AttemptFine
    <2>1. UNCHANGED <<of, go, run, req>> /\ adopted \subseteq adopted'
      BY <1>4 DEF Poll, ListRunning, PollNumber, PollStatus, PollVersion,
                  PollImage, PollEnd, ListPending, PollPending, engine, attempts
    <2>2. QED
      BY <2>1, AttemptIdle
  <1>5. ASSUME NEW b \in BuildNr, Ages(b) \/ Waits(b)
        PROVE  AttemptFine
    <2>1. UNCHANGED <<of, go, run, req, adopted>>
      BY <1>5 DEF Ages, Waits, engine, attempts
    <2>2. QED
      BY <2>1, AttemptIdle
  <1>6. CASE UNCHANGED vars
    <2>1. UNCHANGED <<of, go, run, req, adopted>>
      BY <1>6 DEF vars, engine, attempts
    <2>2. QED
      BY <2>1, AttemptIdle
  <1>7. QED
    BY <1>1, <1>3, <1>4, <1>5, <1>6, GoAttempt, WorksAttempt, CrashAttempt DEF Next

-----------------------------------------------------------------------------
(* Rows.                                                                   *)

RowInvs == \A b \in BuildNr : RowInv(b)

\* The status changes with the version, or with the INSERT.
RowStep(b) ==
    \/ row'[b].version = row[b].version /\ row'[b].status = row[b].status
    \/ NewVersion(b)
    \/ row[b].status = "none"
RowsFine == /\ row' \in [BuildNr -> Row]
            /\ \A b \in BuildNr : RowStep(b) /\ RowInv(b)'

LEMMA RowTypes ==
    ASSUME Types, NEW b \in BuildNr
    PROVE  /\ row[b] \in Row /\ b # 0
           /\ row[b].version \in Nat /\ row[b].queue \in {0} \cup Attempt
           /\ row[b].pipe \in {0} \cup Attempt /\ row[b].number \in {0} \cup Attempt
  BY DEF Types, TypeOK, Row, BuildNr

LEMMA EarnedStays ==
    ASSUME Grows, NEW b \in BuildNr, NEW status, Earned(b, status)
    PROVE  /\ status = "success" => HasRun(b, "success")'
           /\ status = "queued" => HasRun(b, "lost")'
  BY DEF Grows, Earned, HasRun, BuildNr

LEMMA RefersStays ==
    ASSUME Grows, NEW b \in BuildNr, NEW r, Refers(b, r),
           r.queue \in {0} \cup Attempt, r.pipe \in {0} \cup Attempt,
           r.number \in {0} \cup Attempt
    PROVE  /\ r.queue # 0 => of'[r.queue] = b
           /\ r.pipe # 0 => of'[r.pipe] = b
           /\ r.number # 0 => b \in adopted' \/ of'[r.number] = b
  BY DEF Grows, Refers, BuildNr

\* The engine's run of a tracked row is still there.
LEMMA TrackedStays ==
    ASSUME Types, Grows, NEW b \in BuildNr, Tracked(b, row[b]),
           row[b].live, row[b].status = "running"
    PROVE  \E a \in {row[b].queue, row[b].pipe} \ {0} :
              of'[a] = b /\ run'[a].state # "none"
  <1>1. PICK a \in {row[b].queue, row[b].pipe} \ {0} :
                of[a] = b /\ run[a].state # "none"
    BY DEF Tracked
  <1>2. a \in Attempt /\ b # 0
    BY RowTypes
  <1>3. QED
    BY <1>1, <1>2 DEF Grows

\* A statement that leaves the references, and ends or keeps the status.
LEMMA RowKeeps ==
    ASSUME Types, Grows, NEW b \in BuildNr, RowInv(b),
           SameRefs(b), RowStep(b), row'[b].live => row[b].live,
           \/ row'[b].status = row[b].status
           \/ row'[b].status \in Terminal \cup {"queued"},
           row'[b].status = "none" => row'[b].version = row[b].version,
           row'[b].status = row[b].status \/ Earned(b, row'[b].status)
    PROVE  RowStep(b) /\ RowInv(b)'
  <1>1. Refers(b, row[b])'
    BY RowTypes, RefersStays DEF Refers, RowInv, SameRefs
  <1>2. Tracked(b, row[b])'
    BY TrackedStays DEF Tracked, RowInv, SameRefs, Terminal
  <1>3. Earned(b, row[b].status)'
    BY EarnedStays DEF Earned, RowInv
  <1>4. row'[b].status = "none" => ~row'[b].live /\ row'[b].version = 0
    BY DEF RowInv, Terminal
  <1>5. QED
    BY <1>1, <1>2, <1>3, <1>4 DEF RowInv

LEMMA RowRests ==
    ASSUME Types, Grows, NEW b \in BuildNr, RowInv(b), row'[b] = row[b] \/ Kept(b)
    PROVE  RowStep(b) /\ RowInv(b)'
  <1>1. Kept(b)
    BY DEF Kept, SameRefs
  <1>2. QED
    BY <1>1, RowKeeps DEF Kept, RowStep

LEMMA RowEdited ==
    ASSUME Types, Grows, NEW b \in BuildNr, RowInv(b), Edited(b)
    PROVE  RowStep(b) /\ RowInv(b)'
  BY RowKeeps DEF Edited, RowStep, RowInv

LEMMA RowCompleted ==
    ASSUME Types, Grows, NEW b \in BuildNr, RowInv(b), NEW version,
           NEW status \in Terminal \cup {"queued"}, Completed(b, version, status),
           Earned(b, status)
    PROVE  RowStep(b) /\ RowInv(b)'
  BY RowKeeps DEF Completed, RowStep, RowInv, Terminal

LEMMA RowRecorded ==
    ASSUME Types, Grows, NEW b \in BuildNr, RowInv(b), NEW a \in Attempt,
           Recorded(b, a), of[a] = b, run[a].state # "none"
    PROVE  RowStep(b) /\ RowInv(b)'
  <1>1. of'[a] = b /\ run'[a].state # "none" /\ a # 0
    BY RowTypes DEF Grows, Attempt
  <1>2. Refers(b, row[b])'
    BY <1>1, RowTypes, RefersStays DEF Refers, RowInv, Recorded
  <1>3. Tracked(b, row[b])'
    BY <1>1 DEF Tracked, Recorded
  <1>4. QED
    BY <1>2, <1>3 DEF RowInv, RowStep, Recorded, Earned

LEMMA RowNumbered ==
    ASSUME Types, Grows, NEW b \in BuildNr, RowInv(b), NEW n \in Attempt,
           Numbered(b, n), b \in adopted' \/ of[n] = b
    PROVE  RowStep(b) /\ RowInv(b)'
  <1>1. Refers(b, row[b])'
    BY RowTypes, RefersStays DEF Refers, RowInv, Numbered, Grows
  <1>2. Tracked(b, row[b])'
    BY TrackedStays DEF Tracked, RowInv, Numbered
  <1>3. Earned(b, row[b].status)'
    BY EarnedStays DEF Earned, RowInv, Numbered
  <1>4. QED
    BY <1>1, <1>2, <1>3 DEF RowInv, RowStep, Numbered

LEMMA RowRestarted ==
    ASSUME NEW b \in BuildNr, Restarted(b) \/ Born(b)
    PROVE  RowStep(b) /\ RowInv(b)'
  BY DEF Restarted, Born, RowStep, RowInv, Refers, Tracked, Earned

LEMMA RowTouched ==
    ASSUME Types, RowInvs, Grows, NEW b \in BuildNr, Touched(b),
           RowStep(b) /\ RowInv(b)'
    PROVE  RowsFine
  <1>1. \A c \in BuildNr : c # b => RowStep(c) /\ RowInv(c)'
    BY RowRests DEF Touched, RowInvs
  <1>2. QED
    BY <1>1 DEF RowsFine, Touched

LEMMA RowsRest ==
    ASSUME Types, RowInvs, Grows, row' = row
    PROVE  RowsFine
  <1>1. \A c \in BuildNr : RowStep(c) /\ RowInv(c)'
    BY RowRests DEF RowInvs
  <1>2. QED
    BY <1>1 DEF RowsFine, Types, TypeOK

\* What a poll holds, typed.
LEMMA Listed ==
    ASSUME Types, NEW p \in Process
    PROVE  /\ poll[p].todo \subseteq ([b : BuildNr, r : Seen] \cup [b : BuildNr, r : Waiting])
           /\ \A s \in poll[p].todo : s.b \in BuildNr
           /\ poll[p].step \in {"run"} \cup Ending =>
                 poll[p].todo \subseteq [b : BuildNr, r : Seen]
           /\ poll[p].step = "pend" => poll[p].todo \subseteq [b : BuildNr, r : Waiting]
           /\ poll[p].next \in Nat
           /\ poll[p].step \in Ending => poll[p].result \in {"queued"} \cup Terminal
           /\ First(p) \subseteq poll[p].todo
  <1>1. PollType(p)
    BY DEF Types
  <1>2. poll[p].todo \subseteq ([b : BuildNr, r : Seen] \cup [b : BuildNr, r : Waiting])
    BY <1>1 DEF PollType
  <1>3. \A s \in poll[p].todo : s.b \in BuildNr
    BY <1>2
  <1>4. QED
    BY <1>1, <1>2, <1>3 DEF PollType, First

LEMMA CompletedRows ==
    ASSUME Types, RowInvs, Grows, NEW b \in BuildNr, NEW version,
           NEW status \in Terminal \cup {"queued"}, NEW image \in Nat,
           CompleteBuild(b, version, status, image), Earned(b, status)
    PROVE  RowsFine
  <1>1. Touched(b) /\ (row' = row \/ Completed(b, version, status))
    BY CompleteRow DEF Types
  <1>2. QED
    BY <1>1, RowCompleted, RowTouched, RowsRest DEF RowInvs

LEMMA ServeRows ==
    ASSUME Types, RowInvs, Grows, NEW p \in Process, Serve(p)
    PROVE  RowsFine
  <1>1. CASE TriggerInsert(p)
    <2>1. req[p].b \in BuildNr
      BY <1>1, Fields DEF TriggerInsert
    <2>2. ASSUME NEW a \in Attempt, ~Exists(req[p].b),
                 row' = [row EXCEPT ![req[p].b] = [NoRow EXCEPT
                            !.status = "pending", !.live = TRUE, !.tag = a]]
          PROVE  RowsFine
      <3>1. Touched(req[p].b) /\ Born(req[p].b)
        BY <2>1, <2>2, InsertRow DEF Types
      <3>2. QED
        BY <2>1, <3>1, RowRestarted, RowTouched
    <2>3. QED
      BY <1>1, <2>2, RowsRest DEF TriggerInsert
  <1>2. CASE CancelStop(p) \/ ImageWrite(p)
    BY <1>2, RowsRest DEF CancelStop, ImageWrite, tables
  <1>3. CASE CancelWrite(p)
    <2>1. req[p].b \in BuildNr
      BY <1>3, Fields DEF CancelWrite, Asked
    <2>2. QED
      BY <1>3, <2>1, CompletedRows DEF CancelWrite, Earned, Terminal
  <1>4. CASE RebuildWrite(p)
    <2>1. req[p].b \in BuildNr
      BY <1>4, Fields DEF RebuildWrite, Asked
    <2>2. ASSUME row[req[p].b].live, row' = [row EXCEPT ![req[p].b] = Reset(@)]
          PROVE  RowsFine
      <3>1. Touched(req[p].b) /\ Restarted(req[p].b)
        BY <2>1, <2>2, ResetRow DEF Types
      <3>2. QED
        BY <2>1, <3>1, RowRestarted, RowTouched
    <2>3. QED
      BY <1>4, <2>2, RowsRest DEF RebuildWrite, Unchanged
  <1>5. CASE RebuildTag(p)
    <2>1. req[p].b \in BuildNr /\ req[p].a \in Attempt
      BY <1>5, Fields DEF RebuildTag
    <2>2. Touched(req[p].b) /\ Kept(req[p].b)
      BY <1>5, <2>1, TagRow DEF RebuildTag, Types
    <2>3. QED
      BY <2>1, <2>2, RowRests, RowTouched DEF RowInvs
  <1>6. CASE EditWrite(p)
    <2>1. req[p].b \in BuildNr
      BY <1>6, Fields DEF EditWrite, Asked
    <2>2. Touched(req[p].b) /\ (row' = row \/ Edited(req[p].b))
      BY <1>6, <2>1, EditRow DEF Types
    <2>3. QED
      BY <2>1, <2>2, RowEdited, RowTouched, RowsRest DEF RowInvs
  <1>7. CASE DeleteWrite(p)
    <2>1. req[p].b \in BuildNr
      BY <1>7, Fields DEF DeleteWrite, Asked
    <2>2. Touched(req[p].b) /\ (row' = row \/ Edited(req[p].b))
      BY <1>7, <2>1, DeleteRow DEF DeleteWrite, Types
    <2>3. QED
      BY <2>1, <2>2, RowEdited, RowTouched, RowsRest DEF RowInvs
  <1>8. QED
    BY <1>1, <1>2, <1>3, <1>4, <1>5, <1>6, <1>7 DEF Serve

LEMMA TriggerRows ==
    ASSUME Types, RowInvs, AttemptInv, Grows, NEW a \in Attempt, Trigger(a)
    PROVE  RowsFine
  <1>1. go[a].step # "none" => of[a] \in BuildNr
    BY DEF AttemptInv, GoInv
  <1>2. CASE GoTrigger(a) \/ GoRefused(a)
    BY <1>2, RowsRest DEF GoTrigger, GoRefused, tables
  <1>3. CASE GoMark(a)
    BY <1>1, <1>3, CompletedRows DEF GoMark, Earned, Terminal
  <1>4. CASE GoRecord(a)
    <2>1. of[a] \in BuildNr /\ run[a].state # "none"
      BY <1>4 DEF GoRecord, AttemptInv, GoInv
    <2>2. Touched(of[a]) /\ (row' = row \/ Recorded(of[a], a))
      BY <1>4, <2>1, RecordRow DEF GoRecord, Types
    <2>3. QED
      BY <2>1, <2>2, RowRecorded, RowTouched, RowsRest DEF RowInvs
  <1>5. QED
    BY <1>2, <1>3, <1>4 DEF Trigger

\* The number a poll stores is its snapshot's queue item, or was adopted.
LEMMA NumberFound ==
    ASSUME Types, RowInvs, HandInv, NEW p \in Process, NEW s \in First(p),
           poll[p].step = "run", NEW n \in Numbers(s.r), n # 0
    PROVE  n \in Attempt /\ (n = s.r.queue => of[n] = s.b)
  <1>1. s \in [b : BuildNr, r : Seen] /\ s \in poll[p].todo
    BY Listed
  <1>2. s.r.queue \in {0} \cup Attempt
    BY <1>1 DEF Seen
  <1>3. LastBuild \in {0} \cup Attempt
    BY DEF LastBuild, Types, TypeOK
  <1>4. n \in {s.r.queue, LastBuild, 0}
    BY DEF Numbers
  <1>5. s.r.queue # 0 => of[s.r.queue] = s.b
    BY <1>1 DEF HandInv, RunInv, Refers
  <1>6. QED
    BY <1>2, <1>3, <1>4, <1>5

LEMMA PollRows ==
    ASSUME Types, RowInvs, HandInv, Grows, NEW p \in Process, Poll(p)
    PROVE  RowsFine
  <1>1. CASE \/ ListRunning(p) \/ PollStatus(p) \/ PollVersion(p)
             \/ PollImage(p) \/ ListPending(p)
    BY <1>1, RowsRest DEF ListRunning, PollStatus, PollVersion, PollImage,
                          ListPending, tables
  <1>2. CASE PollNumber(p)
    <2>1. PICK s \in First(p) : \E n \in Numbers(s.r) :
             /\ IF n = 0 THEN row' = row ELSE SetNumber(s.b, n)
             /\ adopted' = IF n \in {0, s.r.queue} THEN adopted
                                                   ELSE adopted \cup {s.b}
      BY <1>2 DEF PollNumber
    <2>2. PICK n \in Numbers(s.r) :
             /\ IF n = 0 THEN row' = row ELSE SetNumber(s.b, n)
             /\ adopted' = IF n \in {0, s.r.queue} THEN adopted
                                                   ELSE adopted \cup {s.b}
      BY <2>1
    <2>3. CASE n = 0
      BY <2>2, <2>3, RowsRest
    <2>4. CASE n # 0
      <3>1. /\ n \in Attempt /\ s.b \in BuildNr
            /\ s.b \in adopted' \/ of[n] = s.b
        BY <1>2, <2>2, <2>4, NumberFound, Listed DEF PollNumber
      <3>2. Touched(s.b) /\ (row' = row \/ Numbered(s.b, n))
        BY <2>2, <2>4, <3>1, NumberRow DEF Types
      <3>3. QED
        BY <3>1, <3>2, RowNumbered, RowTouched, RowsRest DEF RowInvs
    <2>5. QED
      BY <2>3, <2>4
  <1>3. CASE PollEnd(p)
    <2>1. PICK s \in First(p) :
             CompleteBuild(s.b, s.r.version, poll[p].result, poll[p].next)
      BY <1>3 DEF PollEnd
    <2>2. /\ s.b \in BuildNr /\ poll[p].next \in Nat
          /\ poll[p].result \in Terminal \cup {"queued"}
      BY <1>3, Listed DEF PollEnd, Ending
    <2>3. Earned(s.b, poll[p].result)
      BY <1>3 DEF PollEnd, Ending, HandInv, EndInv
    <2>4. QED
      BY <2>1, <2>2, <2>3, CompletedRows
  <1>4. CASE PollPending(p)
    <2>1. PICK s \in First(p) :
             \/ CompleteBuild(s.b, s.r.version, "failed", 0)
             \/ row' = row
      BY <1>4 DEF PollPending
    <2>2. s.b \in BuildNr
      BY Listed
    <2>3. QED
      BY <2>1, <2>2, CompletedRows, RowsRest DEF Earned, Terminal
  <1>5. QED
    BY <1>1, <1>2, <1>3, <1>4 DEF Poll

LEMMA RowsNext ==
    ASSUME Types, RowInvs, AttemptInv, HandInv, Grows, [Next]_vars
    PROVE  RowsFine
  <1>1. ASSUME NEW p \in Process, Request(p) \/ Crash(p)
        PROVE  RowsFine
    BY <1>1, RowsRest DEF Request, TriggerRead, Read, ImageRead, Crash, tables
  <1>2. ASSUME NEW a \in Attempt, Works(a)
        PROVE  RowsFine
    BY <1>2, RowsRest DEF Works, RunStart, RunEnd, tables
  <1>3. ASSUME NEW b \in BuildNr, Ages(b) \/ Waits(b)
        PROVE  RowsFine
    <2>1. Touched(b) /\ Kept(b)
      BY <1>3, TimeRow DEF Types
    <2>2. QED
      BY <2>1, RowRests, RowTouched DEF RowInvs
  <1>4. CASE UNCHANGED vars
    BY <1>4, RowsRest DEF vars, tables
  <1>5. QED
    BY <1>1, <1>2, <1>3, <1>4, ServeRows, TriggerRows, PollRows DEF Next

-----------------------------------------------------------------------------
(* Versions in hand.                                                       *)

LEMMA GuardsStay ==
    ASSUME Types, RowInvs, RowsFine, NEW b \in BuildNr, NEW v \in Nat, NEW S,
           "none" \notin S, Guards(b, v, S)
    PROVE  /\ v <= row'[b].version
           /\ v = row'[b].version => row'[b].status \in S
  <1>1. row[b].version \in Nat /\ row'[b].version \in Nat
    BY RowTypes DEF RowsFine, Row
  <1>2. RowStep(b) /\ RowInv(b)
    BY DEF RowsFine, RowInvs
  <1>3. QED
    BY <1>1, <1>2 DEF RowStep, NewVersion, RowInv, Guards

LEMMA RequestStays ==
    ASSUME Types, RowInvs, RowsFine, NEW q \in Process, ReqInv(q), req'[q] = req[q]
    PROVE  ReqInv(q)'
  <1>1. SUFFICES ASSUME req[q].step \in {"stop", "cancel"}
                 PROVE  Guards(req[q].b, req[q].version, Active)'
    BY DEF ReqInv
  <1>2. req[q].b \in BuildNr /\ req[q].version \in Nat
    BY <1>1, Fields DEF Asked
  <1>3. Guards(req[q].b, req[q].version, Active)
    BY <1>1 DEF ReqInv
  <1>4. QED
    BY <1>2, <1>3, GuardsStay DEF Guards, Active

\* What a snapshot in hand is worth, after another step.
LEMMA SeenStays ==
    ASSUME Types, RowInvs, RowsFine, Grows, NEW s \in [b : BuildNr, r : Seen],
           Refers(s.b, s.r), s.r.pipe # 0 => Guards(s.b, s.r.version, {"running"})
    PROVE  /\ Refers(s.b, s.r)'
           /\ s.r.pipe # 0 => Guards(s.b, s.r.version, {"running"})'
  <1>1. /\ s.b \in BuildNr /\ s.r.version \in Nat /\ s.r.queue \in {0} \cup Attempt
        /\ s.r.pipe \in {0} \cup Attempt /\ s.r.number \in {0} \cup Attempt
    BY DEF Seen
  <1>2. Refers(s.b, s.r)'
    BY <1>1, RefersStays DEF Refers
  <1>3. ASSUME s.r.pipe # 0
        PROVE  Guards(s.b, s.r.version, {"running"})'
    BY <1>1, <1>3, GuardsStay DEF Guards
  <1>4. QED
    BY <1>2, <1>3

LEMMA WaitingStays ==
    ASSUME Types, RowInvs, RowsFine, NEW s \in [b : BuildNr, r : Waiting],
           Guards(s.b, s.r.version, {"pending"})
    PROVE  Guards(s.b, s.r.version, {"pending"})'
  <1>1. s.b \in BuildNr /\ s.r.version \in Nat
    BY DEF Waiting
  <1>2. QED
    BY <1>1, GuardsStay DEF Guards

PollInv(p) == RunInv(p) /\ PendInv(p) /\ EndInv(p)

\* A poll that goes on with fewer of its snapshots, or with the same.
LEMMA PollStays ==
    ASSUME Types, RowInvs, RowsFine, Grows, NEW q \in Process, PollInv(q),
           poll'[q].todo \subseteq poll[q].todo,
           \/ poll'[q].step = poll[q].step
           \/ poll'[q].step \in {"run"} \cup Ending /\ poll[q].step \in {"run"} \cup Ending,
           poll'[q].step \in Ending =>
              /\ poll[q].step \in Ending
              /\ poll'[q].todo = poll[q].todo /\ poll'[q].result = poll[q].result
    PROVE  PollInv(q)'
  <1>1. RunInv(q)'
    <2>1. SUFFICES ASSUME NEW s \in poll'[q].todo, poll'[q].step \in {"run"} \cup Ending
                   PROVE  /\ Refers(s.b, s.r)'
                          /\ s.r.pipe # 0 => Guards(s.b, s.r.version, {"running"})'
      BY DEF RunInv
    <2>2. s \in poll[q].todo /\ poll[q].step \in {"run"} \cup Ending
      BY <2>1
    <2>3. QED
      BY <2>2, SeenStays, Listed DEF PollInv, RunInv
  <1>2. PendInv(q)'
    <2>1. SUFFICES ASSUME NEW s \in poll'[q].todo, poll'[q].step = "pend"
                   PROVE  Guards(s.b, s.r.version, {"pending"})'
      BY DEF PendInv
    <2>2. s \in poll[q].todo /\ poll[q].step = "pend"
      BY <2>1 DEF Ending
    <2>3. QED
      BY <2>2, WaitingStays, Listed DEF PollInv, PendInv
  <1>3. EndInv(q)'
    <2>1. SUFFICES ASSUME poll'[q].step \in Ending, NEW s \in First(q)'
                   PROVE  Earned(s.b, poll[q].result)'
      BY DEF EndInv
    <2>2. s \in First(q) /\ s.b \in BuildNr
      BY <2>1, Listed DEF First
    <2>3. Earned(s.b, poll'[q].result)
      BY <2>1, <2>2 DEF PollInv, EndInv
    <2>4. QED
      BY <2>2, <2>3, EarnedStays DEF Earned
  <1>4. QED
    BY <1>1, <1>2, <1>3 DEF PollInv

\* The rows as ListBuilds reads them.
LEMMA SnapshotRunning ==
    ASSUME Types, RowInvs, NEW s \in Snapshots("running")
    PROVE  /\ s \in [b : BuildNr, r : Seen] /\ Refers(s.b, s.r)
           /\ Guards(s.b, s.r.version, {"running"})
  <1>1. PICK b \in BuildNr : Live(b, {"running"}) /\ s = Snapshot(b, Columns["running"])
    BY DEF Snapshots
  <1>2. s.b = b /\ s.r = [c \in {"version", "tag", "queue", "number", "pipe", "late"} |-> row[b][c]]
    BY <1>1 DEF Snapshot, Columns
  <1>3. row[b] \in Row
    BY RowTypes
  <1>4. /\ s.r \in Seen /\ s.r.version = row[b].version /\ s.r.queue = row[b].queue
        /\ s.r.pipe = row[b].pipe /\ s.r.number = row[b].number
    BY <1>2, <1>3 DEF Seen, Row
  <1>5. s \in [b : BuildNr, r : Seen]
    BY <1>1, <1>2, <1>4 DEF Snapshot
  <1>6. QED
    BY <1>1, <1>2, <1>3, <1>4, <1>5 DEF RowInvs, RowInv, Refers, Guards, Live, Row

LEMMA SnapshotPending ==
    ASSUME Types, NEW s \in Snapshots("pending")
    PROVE  /\ s \in [b : BuildNr, r : Waiting]
           /\ Guards(s.b, s.r.version, {"pending"})
  <1>1. PICK b \in BuildNr : Live(b, {"pending"}) /\ s = Snapshot(b, Columns["pending"])
    BY DEF Snapshots
  <1>2. s.b = b /\ s.r = [c \in {"version", "queue", "old"} |-> row[b][c]]
    BY <1>1 DEF Snapshot, Columns
  <1>3. row[b] \in Row
    BY RowTypes
  <1>4. s.r \in Waiting /\ s.r.version = row[b].version
    BY <1>2, <1>3 DEF Waiting, Row
  <1>5. s \in [b : BuildNr, r : Waiting]
    BY <1>1, <1>2, <1>4 DEF Snapshot
  <1>6. QED
    BY <1>1, <1>2, <1>3, <1>4, <1>5 DEF Guards, Live, Row

-----------------------------------------------------------------------------
(* Polls.                                                                  *)

PollFine(p) == PollType(p)' /\ PollInv(p)'

LEMMA PollRests ==
    ASSUME Types, RowInvs, HandInv, RowsFine, Grows, NEW q \in Process,
           poll'[q] = poll[q]
    PROVE  PollFine(q)
  <1>1. PollType(q)'
    BY DEF Types, PollType
  <1>2. PollInv(q)'
    BY PollStays DEF HandInv, PollInv
  <1>3. QED
    BY <1>1, <1>2 DEF PollFine

LEMMA PollIdles ==
    ASSUME NEW p \in Process, poll'[p] = IdlePoll
    PROVE  PollFine(p)
  BY DEF PollFine, PollType, PollInv, RunInv, PendInv, EndInv, IdlePoll, Ending

LEMMA PollLists ==
    ASSUME Types, RowInvs, NEW p \in Process, ListRunning(p) \/ ListPending(p)
    PROVE  PollFine(p)
  <1>1. DOMAIN poll = Process /\ row' = row /\ UNCHANGED <<of, adopted>> /\ PollType(p)
    BY DEF Types, TypeOK, ListRunning, ListPending, tables, attempts
  <1>2. CASE ListRunning(p)
    <2>1. /\ poll'[p].step = "run" /\ poll'[p].todo = Snapshots("running")
          /\ poll'[p] = [step |-> "run", todo |-> Snapshots("running"),
                         result |-> "none", next |-> 0]
      BY <1>1, <1>2 DEF ListRunning, IdlePoll
    <2>2. PollType(p)'
      BY <2>1, SnapshotRunning DEF PollType, Ending
    <2>3. PollInv(p)'
      BY <1>1, <2>1, SnapshotRunning
      DEF PollInv, RunInv, PendInv, EndInv, Ending, Refers, Guards
    <2>4. QED
      BY <2>2, <2>3 DEF PollFine
  <1>3. CASE poll' = [poll EXCEPT ![p] = IdlePoll]
    BY <1>1, <1>3, PollIdles
  <1>4. CASE poll' = [poll EXCEPT ![p] = [@ EXCEPT !.step = "pend",
                                               !.todo = Snapshots("pending")]]
    <2>1. /\ poll'[p].step = "pend" /\ poll'[p].todo = Snapshots("pending")
          /\ poll'[p] = [step |-> "pend", todo |-> Snapshots("pending"),
                         result |-> poll[p].result, next |-> poll[p].next]
      BY <1>1, <1>4 DEF PollType
    <2>2. PollType(p)'
      BY <1>1, <2>1, SnapshotPending DEF PollType, Ending
    <2>3. PollInv(p)'
      BY <1>1, <2>1, SnapshotPending DEF PollInv, RunInv, PendInv, EndInv, Ending, Guards
    <2>4. QED
      BY <2>2, <2>3 DEF PollFine
  <1>5. QED
    BY <1>2, <1>3, <1>4 DEF ListPending

LEMMA PollSkips ==
    ASSUME Types, RowInvs, HandInv, RowsFine, Grows, NEW p \in Process,
           NEW s \in poll[p].todo, poll' = [poll EXCEPT ![p] = Skip(p, s)],
           poll[p].step \in {"run"} \cup Ending
    PROVE  PollFine(p)
  <1>1. DOMAIN poll = Process /\ PollType(p)
    BY DEF Types, TypeOK
  <1>2. poll'[p] = [step |-> "run", todo |-> poll[p].todo \ {s},
                    result |-> "none", next |-> 0]
    BY <1>1 DEF Skip, PollType
  <1>3. PollType(p)'
    BY <1>1, <1>2 DEF PollType, Ending
  <1>4. PollInv(p)'
    BY <1>2, PollStays DEF HandInv, PollInv, Ending
  <1>5. QED
    BY <1>3, <1>4 DEF PollFine

\* The number is found: the snapshot has it from now on.
LEMMA PollNumbers ==
    ASSUME Types, RowInvs, HandInv, RowsFine, Grows, NEW p \in Process, PollNumber(p)
    PROVE  PollFine(p)
  <1>1. /\ DOMAIN poll = Process /\ PollType(p) /\ poll[p].step = "run"
        /\ UNCHANGED <<of, run>> /\ RunInv(p)
    BY DEF Types, TypeOK, PollNumber, engine, attempts, HandInv
  <1>0. PICK s \in First(p) : \E n \in Numbers(s.r) :
           /\ s.r.pipe = 0
           /\ IF n = 0 THEN poll' = [poll EXCEPT ![p] = Skip(p, s)]
              ELSE poll' = [poll EXCEPT ![p].todo =
                               Update(p, s, [s EXCEPT !.r.number = n])]
           /\ adopted' = IF n \in {0, s.r.queue} THEN adopted
                                                 ELSE adopted \cup {s.b}
    BY DEF PollNumber
  <1>2. PICK n \in Numbers(s.r) :
           /\ s.r.pipe = 0
           /\ IF n = 0 THEN poll' = [poll EXCEPT ![p] = Skip(p, s)]
              ELSE poll' = [poll EXCEPT ![p].todo =
                               Update(p, s, [s EXCEPT !.r.number = n])]
           /\ adopted' = IF n \in {0, s.r.queue} THEN adopted
                                                 ELSE adopted \cup {s.b}
    BY <1>0
  <1>3. CASE n = 0
    BY <1>1, <1>2, <1>3, PollSkips, Listed
  <1>4. CASE n # 0
    <2> DEFINE t == [s EXCEPT !.r.number = n]
    <2>1. /\ s \in [b : BuildNr, r : Seen] /\ s \in poll[p].todo
          /\ n \in Attempt /\ (n = s.r.queue => of[n] = s.b)
      BY <1>1, <1>4, Listed, NumberFound
    <2>2. /\ t \in [b : BuildNr, r : Seen] /\ t.b = s.b /\ t.r.number = n
          /\ t.r.queue = s.r.queue /\ t.r.pipe = 0
      BY <1>2, <2>1 DEF Seen
    <2> HIDE DEF t
    <2>3. poll'[p] = [step |-> "run", todo |-> (poll[p].todo \ {s}) \cup {t},
                      result |-> poll[p].result, next |-> poll[p].next]
      BY <1>1, <1>2, <1>4 DEF Update, PollType, t
    <2>4. PollType(p)'
      BY <1>1, <2>2, <2>3 DEF PollType, Ending
    <2>5. Refers(t.b, t.r)'
      <3>1. Refers(s.b, s.r)
        BY <1>1, <2>1 DEF RunInv
      <3>2. n # s.r.queue => s.b \in adopted'
        BY <1>2, <1>4
      <3>3. QED
        BY <1>1, <2>1, <2>2, <3>1, <3>2 DEF Refers
    <2>6. ASSUME NEW x \in poll'[p].todo
          PROVE  /\ Refers(x.b, x.r)'
                 /\ x.r.pipe # 0 => Guards(x.b, x.r.version, {"running"})'
      <3>1. CASE x = t
        BY <2>2, <2>5, <3>1
      <3>2. CASE x \in poll[p].todo
        BY <1>1, <3>2, SeenStays, Listed DEF RunInv
      <3>3. QED
        BY <2>3, <2>6, <3>1, <3>2
    <2>7. PollInv(p)'
      BY <2>3, <2>6 DEF PollInv, RunInv, PendInv, EndInv, Ending
    <2>8. QED
      BY <2>4, <2>7 DEF PollFine
  <1>5. QED
    BY <1>3, <1>4

\* The end of a run is read: whatever succeeded was earned.
LEMMA PollEnds ==
    ASSUME Types, RowInvs, HandInv, RowsFine, Grows, NEW p \in Process, PollStatus(p)
    PROVE  PollFine(p)
  <1>1. /\ DOMAIN poll = Process /\ PollType(p) /\ poll[p].step = "run"
        /\ UNCHANGED <<of, run, row, adopted>> /\ RunInv(p)
    BY DEF Types, TypeOK, PollStatus, tables, engine, attempts, HandInv
  <1>2. PICK s \in First(p) :
           LET a == IF s.r.pipe # 0 THEN s.r.pipe ELSE s.r.number
               v == IF s.r.pipe = 0 /\ row[s.b].live THEN row[s.b].version
                                                     ELSE s.r.version IN
           /\ a # 0
           /\ IF Result(a) \in Terminal \cup {"queued"}
              THEN poll' = [poll EXCEPT ![p].result = Result(a),
                      ![p].step = IF Result(a) = "success" THEN "version" ELSE "end",
                      ![p].todo = Update(p, s, [s EXCEPT !.r.version = v])]
              ELSE poll' = [poll EXCEPT ![p] = Skip(p, s)]
    BY DEF PollStatus
  <1> DEFINE a == IF s.r.pipe # 0 THEN s.r.pipe ELSE s.r.number
             v == IF s.r.pipe = 0 /\ row[s.b].live THEN row[s.b].version
                                                   ELSE s.r.version
             t == [s EXCEPT !.r.version = v]
  <1>3. /\ a # 0
        /\ \/ /\ Result(a) \in Terminal \cup {"queued"}
              /\ poll' = [poll EXCEPT ![p].result = Result(a),
                      ![p].step = IF Result(a) = "success" THEN "version" ELSE "end",
                      ![p].todo = Update(p, s, t)]
           \/ poll' = [poll EXCEPT ![p] = Skip(p, s)]
    BY <1>2
  <1>4. /\ s \in [b : BuildNr, r : Seen] /\ s \in poll[p].todo /\ s.b \in BuildNr
        /\ Refers(s.b, s.r)
        /\ s.r.pipe # 0 => Guards(s.b, s.r.version, {"running"})
    BY <1>1, Listed DEF RunInv
  <1>5. v \in Nat /\ (s.r.pipe # 0 => v = s.r.version)
    BY <1>4, RowTypes DEF Seen
  <1>6. a \in Attempt /\ (of[a] = s.b \/ s.b \in adopted)
    BY <1>3, <1>4 DEF Seen, Refers
  <1>7. Earned(s.b, Result(a))
    <2>1. run[a].state # "queued"
      BY <1>6 DEF Types, TypeOK, Run
    <2>2. /\ Result(a) = "success" => run[a].state = "success"
          /\ Result(a) = "queued" => run[a].state = "lost"
      BY <2>1 DEF Result
    <2>3. QED
      BY <1>6, <2>2 DEF Earned, HasRun
  <1>8. CASE poll' = [poll EXCEPT ![p] = Skip(p, s)]
    BY <1>1, <1>4, <1>8, PollSkips
  <1> HIDE DEF a, v
  <1>9. CASE /\ Result(a) \in Terminal \cup {"queued"}
             /\ poll' = [poll EXCEPT ![p].result = Result(a),
                      ![p].step = IF Result(a) = "success" THEN "version" ELSE "end",
                      ![p].todo = Update(p, s, t)]
    <2>1. /\ t \in [b : BuildNr, r : Seen] /\ t.b = s.b /\ t.r.version = v
          /\ t.r.queue = s.r.queue /\ t.r.pipe = s.r.pipe
          /\ t.r.number = s.r.number
      BY <1>4, <1>5 DEF Seen
    <2> HIDE DEF t
    <2>2. /\ poll'[p].step \in Ending /\ poll'[p].result = Result(a)
          /\ poll'[p].todo = (poll[p].todo \ {s}) \cup {t}
          /\ poll'[p] = [step |-> poll'[p].step, todo |-> poll'[p].todo,
                         result |-> Result(a), next |-> poll[p].next]
      BY <1>1, <1>9 DEF Update, PollType, Ending
    <2>3. PollType(p)'
      BY <1>1, <1>9, <2>1, <2>2 DEF PollType, Ending, Terminal
    <2>4. ASSUME NEW x \in poll'[p].todo
          PROVE  /\ Refers(x.b, x.r)'
                 /\ x.r.pipe # 0 => Guards(x.b, x.r.version, {"running"})'
      <3>1. CASE x = t
        BY <1>1, <1>4, <1>5, <2>1, <3>1 DEF Refers, Guards
      <3>2. CASE x \in poll[p].todo
        BY <1>1, <3>2, SeenStays, Listed DEF RunInv
      <3>3. QED
        BY <2>2, <2>4, <3>1, <3>2
    <2>5. ASSUME NEW x \in First(p)'
          PROVE  Earned(x.b, poll[p].result)'
      <3>1. /\ x \in poll'[p].todo /\ t \in poll'[p].todo /\ t.b <= x.b
        BY <2>2 DEF First
      <3>2. x = t \/ x \in poll[p].todo
        BY <2>2, <3>1
      <3>3. x.b <= s.b /\ x.b \in BuildNr
        BY <1>4, <2>1, <3>2, Listed DEF First, BuildNr
      <3>4. x.b = s.b
        BY <1>4, <2>1, <3>1, <3>3 DEF BuildNr
      <3>5. QED
        BY <1>4, <1>7, <2>2, <3>4, EarnedStays DEF Earned
    <2>6. PollInv(p)'
      BY <2>2, <2>4, <2>5 DEF PollInv, RunInv, PendInv, EndInv, Ending
    <2>7. QED
      BY <2>3, <2>6 DEF PollFine
  <1>10. QED
    BY <1>3, <1>8, <1>9

LEMMA PollImages ==
    ASSUME Types, RowInvs, HandInv, RowsFine, Grows, NEW p \in Process,
           PollVersion(p) \/ PollImage(p)
    PROVE  PollFine(p)
  <1>1. DOMAIN poll = Process /\ PollType(p) /\ Len(images) \in Nat
    BY DEF Types, TypeOK
  <1>2. PICK n \in Nat, x \in {"image", "end"} :
           poll' = [poll EXCEPT ![p].step = x, ![p].next = n]
    BY <1>1 DEF PollVersion, PollImage, PollType
  <1>3. poll[p].step \in Ending
    BY DEF PollVersion, PollImage, Ending
  <1>4. poll'[p] = [step |-> x, todo |-> poll[p].todo,
                    result |-> poll[p].result, next |-> n]
    BY <1>1, <1>2 DEF PollType
  <1>5. PollType(p)'
    BY <1>1, <1>3, <1>4 DEF PollType, Ending
  <1>6. PollInv(p)'
    BY <1>3, <1>4, PollStays DEF HandInv, PollInv, Ending
  <1>7. QED
    BY <1>5, <1>6 DEF PollFine

LEMMA PollGivesUp ==
    ASSUME Types, RowInvs, HandInv, RowsFine, Grows, NEW p \in Process, PollPending(p)
    PROVE  PollFine(p)
  <1>1. DOMAIN poll = Process /\ PollType(p) /\ poll[p].step = "pend"
    BY DEF Types, TypeOK, PollPending
  <1>2. PICK s \in First(p) :
           poll' = [poll EXCEPT ![p] =
                       IF poll[p].todo = {s} THEN IdlePoll
                       ELSE [poll[p] EXCEPT !.todo = poll[p].todo \ {s}]]
    BY DEF PollPending
  <1>3. CASE poll'[p] = IdlePoll
    BY <1>3, PollIdles
  <1>4. CASE poll'[p] = [poll[p] EXCEPT !.todo = @ \ {s}]
    <2>1. poll'[p] = [step |-> "pend", todo |-> poll[p].todo \ {s},
                      result |-> poll[p].result, next |-> poll[p].next]
      BY <1>1, <1>4 DEF PollType
    <2>2. PollType(p)'
      BY <1>1, <2>1 DEF PollType, Ending
    <2>3. PollInv(p)'
      BY <1>1, <2>1, PollStays DEF HandInv, PollInv, Ending
    <2>4. QED
      BY <2>2, <2>3 DEF PollFine
  <1>5. \/ poll'[p] = IdlePoll
        \/ poll'[p] = [poll[p] EXCEPT !.todo = @ \ {s}]
    BY <1>1, <1>2
  <1>6. QED
    BY <1>3, <1>4, <1>5

LEMMA PollNext ==
    ASSUME Types, RowInvs, HandInv, RowsFine, Grows, [Next]_vars
    PROVE  \A q \in Process : PollFine(q)
  <1>1. DOMAIN poll = Process
    BY DEF Types, TypeOK
  <1>2. CASE UNCHANGED poll
    BY <1>2, PollRests
  <1>3. ASSUME NEW p \in Process, Poll(p) \/ Crash(p)
        PROVE  \A q \in Process : PollFine(q)
    <2>1. PollFine(p)
      <3>1. CASE Crash(p)
        BY <1>1, <3>1, PollIdles DEF Crash
      <3>2. CASE PollEnd(p)
        BY <3>2, PollSkips, Listed DEF PollEnd, Ending
      <3>3. QED
        BY <1>3, <3>1, <3>2, PollLists, PollNumbers, PollEnds, PollImages,
           PollGivesUp DEF Poll
    <2>2. \A q \in Process : q # p => poll'[q] = poll[q]
      BY <1>1, <1>3 DEF Poll, ListRunning, PollNumber, PollStatus, PollVersion,
                        PollImage, PollEnd, ListPending, PollPending, Crash
    <2>3. QED
      BY <2>1, <2>2, PollRests
  <1>4. ASSUME NEW p \in Process, Request(p) \/ Serve(p)
        PROVE  UNCHANGED poll
    BY <1>4 DEF Request, TriggerRead, Read, ImageRead, Serve, TriggerInsert,
                CancelStop, CancelWrite, RebuildWrite, RebuildTag, EditWrite,
                DeleteWrite, ImageWrite
  <1>5. ASSUME NEW a \in Attempt, Trigger(a) \/ Works(a)
        PROVE  UNCHANGED poll
    BY <1>5 DEF Trigger, GoTrigger, GoRecord, GoRefused, GoMark,
                Works, RunStart, RunEnd
  <1>6. ASSUME NEW b \in BuildNr, Ages(b) \/ Waits(b)
        PROVE  UNCHANGED poll
    BY <1>6 DEF Ages, Waits
  <1>7. QED
    BY <1>2, <1>3, <1>4, <1>5, <1>6 DEF Next, vars

-----------------------------------------------------------------------------
(* Requests, and what is left of the types.                                *)

ReqFine(p) == ReqType(p)' /\ ReqInv(p)'

LEMMA RequestFine ==
    ASSUME Types, NEW p \in Process, Request(p)
    PROVE  /\ ReqFine(p)
           /\ \A q \in Process : q # p => req'[q] = req[q]
  <1>1. DOMAIN req = Process /\ row' = row
    BY DEF Types, TypeOK, Request, TriggerRead, Read, ImageRead, tables
  <1>2. CASE TriggerRead(p)
    <2>1. NextNumber \in BuildNr
      BY <1>2 DEF TriggerRead
    <2>2. /\ req'[p] = [step |-> "insert", b |-> NextNumber]
          /\ \A q \in Process : q # p => req'[q] = req[q]
      BY <1>1, <1>2 DEF TriggerRead
    <2>3. QED
      BY <2>1, <2>2 DEF ReqFine, ReqType, ReqInv
  <1>3. CASE ImageRead(p)
    <2>1. Len(images) + 1 \in Nat
      BY DEF Types, TypeOK
    <2>2. /\ req'[p] = [step |-> "image", next |-> Len(images) + 1]
          /\ \A q \in Process : q # p => req'[q] = req[q]
      BY <1>1, <1>3 DEF ImageRead
    <2>3. QED
      BY <2>1, <2>2 DEF ReqFine, ReqType, ReqInv
  <1>4. ASSUME NEW op, NEW S, NEW next \in {"stop", "rebuild", "edit", "delete"},
               next = "stop" => S = Active, Read(p, op, S, next)
        PROVE  /\ ReqFine(p)
               /\ \A q \in Process : q # p => req'[q] = req[q]
    <2>1. PICK b \in BuildNr :
             /\ Live(b, S)
             /\ req' = [req EXCEPT ![p] = [step |-> next, b |-> b,
                           version |-> row[b].version, number |-> row[b].number]]
      BY <1>4 DEF Read
    <2>2. /\ req'[p] = [step |-> next, b |-> b, version |-> row[b].version,
                        number |-> row[b].number]
          /\ \A q \in Process : q # p => req'[q] = req[q]
      BY <1>1, <2>1
    <2>3. req'[p] \in Asked
      BY <2>2, RowTypes DEF Asked
    <2>4. ReqInv(p)'
      BY <1>1, <1>4, <2>1, <2>2, RowTypes DEF ReqInv, Guards, Live
    <2>5. QED
      BY <2>2, <2>3, <2>4 DEF ReqFine, ReqType
  <1>5. QED
    BY <1>2, <1>3, <1>4 DEF Request

LEMMA ServeFine ==
    ASSUME Types, RowInvs, HandInv, AttemptInv, NEW p \in Process, Serve(p)
    PROVE  /\ ReqFine(p)
           /\ \A q \in Process : q # p => req'[q] = req[q]
  <1>1. DOMAIN req = Process
    BY DEF Types, TypeOK
  <1>2. CASE CancelStop(p)
    <2>1. req[p] \in Asked /\ row' = row /\ req[p].step = "stop"
      BY <1>2, Fields DEF CancelStop, tables
    <2>2. /\ req'[p] = [req[p] EXCEPT !.step = "cancel"]
          /\ \A q \in Process : q # p => req'[q] = req[q]
      BY <1>1, <1>2 DEF CancelStop
    <2>3. /\ req'[p] \in Asked /\ req'[p].b = req[p].b
          /\ req'[p].version = req[p].version
      BY <2>1, <2>2 DEF Asked
    <2>4. QED
      BY <2>1, <2>2, <2>3 DEF ReqFine, ReqType, ReqInv, HandInv, Guards
  <1>3. ASSUME NEW a \in Attempt, RebuildWrite(p),
               req' = [req EXCEPT ![p] = [step |-> "tag", b |-> req[p].b, a |-> a]]
        PROVE  /\ ReqFine(p)
               /\ \A q \in Process : q # p => req'[q] = req[q]
    <2>1. req[p].b \in BuildNr
      BY <1>3, Fields DEF RebuildWrite, Asked
    <2>2. /\ req'[p] = [step |-> "tag", b |-> req[p].b, a |-> a]
          /\ \A q \in Process : q # p => req'[q] = req[q]
      BY <1>1, <1>3
    <2>3. QED
      BY <2>1, <2>2 DEF ReqFine, ReqType, ReqInv
  <1>4. CASE req' = [req EXCEPT ![p] = Idle]
    <2>1. req'[p] = Idle /\ \A q \in Process : q # p => req'[q] = req[q]
      BY <1>1, <1>4
    <2>2. QED
      BY <2>1 DEF ReqFine, ReqType, ReqInv, Idle
  <1>5. CASE RebuildWrite(p)
    BY <1>3, <1>4, <1>5 DEF RebuildWrite
  <1>6. QED
    BY <1>2, <1>4, <1>5 DEF Serve, TriggerInsert, CancelWrite, RebuildTag,
                            EditWrite, DeleteWrite, ImageWrite

LEMMA RequestRests ==
    ASSUME Types, RowInvs, HandInv, RowsFine, NEW q \in Process, req'[q] = req[q]
    PROVE  ReqFine(q)
  <1>1. ReqType(q)'
    BY DEF Types, ReqType
  <1>2. QED
    BY <1>1, RequestStays DEF ReqFine, HandInv

LEMMA RequestNext ==
    ASSUME Types, RowInvs, HandInv, AttemptInv, RowsFine, [Next]_vars
    PROVE  \A q \in Process : ReqFine(q)
  <1>1. CASE UNCHANGED req
    BY <1>1, RequestRests
  <1>2. ASSUME NEW p \in Process, Request(p) \/ Serve(p)
        PROVE  \A q \in Process : ReqFine(q)
    BY <1>2, RequestFine, ServeFine, RequestRests
  <1>3. ASSUME NEW p \in Process, Crash(p)
        PROVE  \A q \in Process : ReqFine(q)
    <2>1. req'[p] = Idle /\ \A q \in Process : q # p => req'[q] = req[q]
      BY <1>3 DEF Crash, Types, TypeOK
    <2>2. ReqFine(p)
      BY <2>1 DEF ReqFine, ReqType, ReqInv, Idle
    <2>3. QED
      BY <2>1, <2>2, RequestRests
  <1>4. ASSUME NEW p \in Process, Poll(p)
        PROVE  UNCHANGED req
    BY <1>4 DEF Poll, ListRunning, PollNumber, PollStatus, PollVersion,
                PollImage, PollEnd, ListPending, PollPending
  <1>5. ASSUME NEW a \in Attempt, Trigger(a) \/ Works(a)
        PROVE  UNCHANGED req
    BY <1>5 DEF Trigger, GoTrigger, GoRecord, GoRefused, GoMark,
                Works, RunStart, RunEnd
  <1>6. ASSUME NEW b \in BuildNr, Ages(b) \/ Waits(b)
        PROVE  UNCHANGED req
    BY <1>6 DEF Ages, Waits
  <1>7. QED
    BY <1>1, <1>2, <1>3, <1>4, <1>5, <1>6 DEF Next, vars

LEMMA ImagesType ==
    ASSUME TypeOK, NEW version, NEW b \in {0} \cup BuildNr,
           NEW tag \in {0} \cup Attempt, CreateImage(version, b, tag)
    PROVE  images' \in Seq(Image)
  <1>1. images \in Seq(Image) /\ [build |-> b, tag |-> tag] \in Image
    BY DEF TypeOK, Image
  <1>2. Append(images, [build |-> b, tag |-> tag]) \in Seq(Image)
    BY <1>1
  <1>3. QED
    BY <1>1, <1>2 DEF CreateImage

LEMMA RestNext ==
    ASSUME Types, [Next]_vars
    PROVE  /\ images' \in Seq(Image) /\ started' \in Seq(Attempt)
           /\ DOMAIN req' = Process /\ DOMAIN poll' = Process
           /\ adopted' \subseteq BuildNr
  <1>1. /\ TypeOK /\ images \in Seq(Image) /\ started \in Seq(Attempt)
        /\ DOMAIN req = Process /\ DOMAIN poll = Process
        /\ adopted \subseteq BuildNr
    BY DEF Types, TypeOK
  <1>2. CASE UNCHANGED vars
    BY <1>1, <1>2 DEF vars, tables, engine
  <1>3. ASSUME NEW p \in Process, Request(p) \/ Crash(p)
        PROVE  /\ UNCHANGED <<images, started, adopted>>
               /\ DOMAIN req' = Process /\ DOMAIN poll' = Process
    BY <1>1, <1>3 DEF Request, TriggerRead, Read, ImageRead, Crash, tables, engine
  <1>4. ASSUME NEW p \in Process, Serve(p)
        PROVE  /\ UNCHANGED <<started, adopted>> /\ images' \in Seq(Image)
               /\ DOMAIN req' = Process /\ DOMAIN poll' = Process
    <2>1. CASE ImageWrite(p)
      BY <1>1, <2>1, ImagesType DEF ImageWrite, engine
    <2>2. CASE TriggerInsert(p) \/ CancelStop(p) \/ CancelWrite(p) \/ RebuildTag(p)
      BY <1>1, <2>2 DEF TriggerInsert, CancelStop, CancelWrite, RebuildTag,
                        tables, engine
    <2>3. CASE RebuildWrite(p) \/ EditWrite(p) \/ DeleteWrite(p)
      BY <1>1, <2>3 DEF RebuildWrite, EditWrite, DeleteWrite, engine
    <2>4. QED
      BY <1>4, <2>1, <2>2, <2>3 DEF Serve
  <1>5. ASSUME NEW p \in Process, Poll(p)
        PROVE  /\ UNCHANGED <<started, req>> /\ images' \in Seq(Image)
               /\ adopted' \subseteq BuildNr /\ DOMAIN poll' = Process
    <2>1. CASE PollImage(p)
      <3>1. PICK s \in First(p) : CreateImage(poll[p].next, s.b, s.r.tag)
        BY <2>1 DEF PollImage
      <3>2. s \in [b : BuildNr, r : Seen]
        BY <2>1, Listed DEF PollImage, Ending
      <3>3. s.b \in BuildNr /\ s.r.tag \in {0} \cup Attempt
        BY <3>2 DEF Seen
      <3>4. images' \in Seq(Image)
        BY <1>1, <3>1, <3>3, ImagesType
      <3>5. QED
        BY <1>1, <2>1, <3>4 DEF PollImage, engine
    <2>2. CASE PollNumber(p)
      <3>1. adopted' \subseteq BuildNr
        BY <1>1, <2>2, Listed DEF PollNumber
      <3>2. QED
        BY <1>1, <2>2, <3>1 DEF PollNumber, engine
    <2>3. CASE \/ ListRunning(p) \/ PollStatus(p) \/ PollVersion(p)
               \/ PollEnd(p) \/ ListPending(p) \/ PollPending(p)
      BY <1>1, <2>3 DEF ListRunning, PollStatus, PollVersion, PollEnd,
                        ListPending, PollPending, tables, engine
    <2>4. QED
      BY <1>5, <2>1, <2>2, <2>3 DEF Poll
  <1>6. ASSUME NEW a \in Attempt, Trigger(a)
        PROVE  UNCHANGED <<images, started, adopted, req, poll>>
    BY <1>6 DEF Trigger, GoTrigger, GoRecord, GoRefused, GoMark, tables, engine
  <1>7. ASSUME NEW a \in Attempt, Works(a)
        PROVE  /\ UNCHANGED <<images, adopted, req, poll>>
               /\ started' \in Seq(Attempt)
    <2>1. UNCHANGED <<images, adopted, req, poll>>
      BY <1>7 DEF Works, RunStart, RunEnd, tables
    <2>2. started' = Append(started, a) \/ started' = started
      BY <1>7 DEF Works, RunStart, RunEnd
    <2>3. Append(started, a) \in Seq(Attempt)
      BY <1>1
    <2>4. QED
      BY <1>1, <2>1, <2>2, <2>3
  <1>8. ASSUME NEW b \in BuildNr, Ages(b) \/ Waits(b)
        PROVE  UNCHANGED <<images, started, adopted, req, poll>>
    BY <1>8 DEF Ages, Waits, engine
  <1>9. QED
    BY <1>1, <1>2, <1>3, <1>4, <1>5, <1>6, <1>7, <1>8 DEF Next

-----------------------------------------------------------------------------
(* Images.                                                                 *)

\* Image n was recorded for build b.
Own(b, n) == n # 0 => n \in DOMAIN images /\ images[n].build = b
OwnInv == \A b \in BuildNr : Own(b, row[b].image)
NextInv(p) ==
    /\ poll[p].step \in {"idle", "run", "pend"} => poll[p].next = 0
    /\ poll[p].step = "end" => \A s \in First(p) : Own(s.b, poll[p].next)
ImageInv == OwnInv /\ \A p \in Process : NextInv(p)

\* Images are only added.
LEMMA ImagesGrow ==
    ASSUME TypeOK, NEW version, NEW b, NEW tag, CreateImage(version, b, tag)
    PROVE  /\ \A n \in DOMAIN images : n \in DOMAIN images' /\ images'[n] = images[n]
           /\ images' # images => Own(b, version)'
  <1>1. images \in Seq(Image) /\ Len(images) \in Nat
    BY DEF TypeOK
  <1>2. CASE images' = images
    BY <1>2
  <1>3. CASE version = Len(images) + 1 /\ images' = Append(images, [build |-> b, tag |-> tag])
    <2>1. /\ DOMAIN images' = 1..(Len(images) + 1) /\ DOMAIN images = 1..Len(images)
          /\ \A n \in 1..Len(images) : images'[n] = images[n]
          /\ images'[Len(images) + 1] = [build |-> b, tag |-> tag]
      BY <1>1, <1>3
    <2>2. version \in DOMAIN images' /\ images'[version] = [build |-> b, tag |-> tag]
      BY <1>1, <1>3, <2>1
    <2>3. Own(b, version)'
      BY <2>2 DEF Own
    <2>4. \A n \in DOMAIN images : n \in DOMAIN images' /\ images'[n] = images[n]
      BY <1>1, <2>1
    <2>5. QED
      BY <2>3, <2>4
  <1>4. QED
    BY <1>2, <1>3 DEF CreateImage

ImagesFine == \A n \in DOMAIN images : n \in DOMAIN images' /\ images'[n] = images[n]

LEMMA OwnStays ==
    ASSUME ImagesFine, NEW b, NEW n, Own(b, n)
    PROVE  n # 0 => n \in DOMAIN images' /\ images'[n].build = b
  BY DEF ImagesFine, Own

LEMMA ImagesNext ==
    ASSUME Types, [Next]_vars
    PROVE  ImagesFine
  <1>1. CASE images' = images
    BY <1>1 DEF ImagesFine
  <1>2. ASSUME NEW p \in Process, ImageWrite(p)
        PROVE  ImagesFine
    BY <1>2, ImagesGrow DEF ImageWrite, ImagesFine, Types
  <1>3. ASSUME NEW p \in Process, PollImage(p)
        PROVE  ImagesFine
    BY <1>3, ImagesGrow DEF PollImage, ImagesFine, Types
  <1>4. \/ images' = images
        \/ \E p \in Process : ImageWrite(p) \/ PollImage(p)
    BY DEF Next, Request, Serve, Poll, Trigger, Works, TriggerRead, Read, ImageRead, Crash,
           TriggerInsert, CancelStop, CancelWrite, RebuildWrite, RebuildTag, EditWrite,
           DeleteWrite, ListRunning, PollNumber, PollStatus, PollVersion, PollEnd,
           ListPending, PollPending, GoTrigger, GoRecord, GoRefused, GoMark, RunStart,
           RunEnd, Ages, Waits, tables, vars
  <1>5. QED
    BY <1>1, <1>2, <1>3, <1>4

LEMMA BumpedImage ==
    ASSUME NEW r \in Row
    PROVE  Bumped(r).image = r.image
  <1> DEFINE old == r.old /\ r.status = "pending"
             late == r.late /\ r.status = "running" /\ r.number = 0
  <1>1. Bumped(r) = [r EXCEPT !.version = r.version + 1, !.old = old, !.late = late]
    BY DEF Bumped
  <1> HIDE DEF old, late
  <1>2. QED
    BY <1>1 DEF Row

\* The statements that take a row's image away or leave it.
SameImages == \A b \in BuildNr : row'[b].image \in {row[b].image, 0}

LEMMA ImageBumped ==
    ASSUME TypeOK, NEW b \in BuildNr, NEW r \in Row, r.image \in {row[b].image, 0},
           row' = [row EXCEPT ![b] = Bumped(r)]
    PROVE  SameImages
  <1>1. row \in [BuildNr -> Row]
    BY DEF TypeOK
  <1>2. row'[b] = Bumped(r) /\ \A c \in BuildNr : c # b => row'[c] = row[c]
    BY <1>1
  <1>3. QED
    BY <1>2, BumpedImage DEF SameImages

LEMMA ImageCompleted ==
    ASSUME TypeOK, NEW b \in BuildNr, NEW version, NEW image \in Nat,
           NEW status \in Terminal \cup {"queued"},
           CompleteBuild(b, version, status, image)
    PROVE  /\ \A c \in BuildNr : c # b => row'[c].image = row[c].image
           /\ row'[b].image \in {row[b].image, image}
  <1> DEFINE r == [row[b] EXCEPT !.status = status, !.image = image]
  <1>1. row \in [BuildNr -> Row] /\ row[b] \in Row
    BY DEF TypeOK
  <1>2. r \in Row /\ r.image = image
    BY <1>1 DEF Row, Active, Terminal
  <1>3. row' = row \/ row' = [row EXCEPT ![b] = Bumped(r)]
    BY DEF CompleteBuild
  <1> HIDE DEF r
  <1>4. CASE row' = [row EXCEPT ![b] = Bumped(r)]
    <2>1. row'[b] = Bumped(r) /\ \A c \in BuildNr : c # b => row'[c] = row[c]
      BY <1>1, <1>4
    <2>2. QED
      BY <1>2, <2>1, BumpedImage
  <1>5. QED
    BY <1>3, <1>4

LEMMA ImageReset ==
    ASSUME TypeOK, NEW b \in BuildNr, row' = [row EXCEPT ![b] = Reset(@)]
    PROVE  SameImages
  <1> DEFINE r == [row[b] EXCEPT !.status = "pending", !.image = 0, !.queue = 0,
                                 !.number = 0, !.pipe = 0]
  <1>1. row \in [BuildNr -> Row] /\ row[b] \in Row
    BY DEF TypeOK
  <1>2. r \in Row /\ r.image = 0
    BY <1>1 DEF Row, Active, Terminal
  <1>3. row' = [row EXCEPT ![b] = Bumped(r)]
    BY <1>1 DEF Reset
  <1> HIDE DEF r
  <1>4. QED
    BY <1>2, <1>3, ImageBumped

LEMMA ImageRecorded ==
    ASSUME TypeOK, NEW b \in BuildNr, NEW a \in Attempt, SetEngineInfo(b, a)
    PROVE  SameImages
  <1> DEFINE r == IF run[a].engine = "tekton"
                  THEN [row[b] EXCEPT !.status = "running", !.pipe = a]
                  ELSE [row[b] EXCEPT !.status = "running", !.queue = a,
                                      !.number = 0]
  <1>1. row \in [BuildNr -> Row] /\ row[b] \in Row
    BY DEF TypeOK
  <1>2. r \in Row /\ r.image = row[b].image
    BY <1>1 DEF Row, Active, Terminal
  <1>3. row' = row \/ row' = [row EXCEPT ![b] = Bumped(r)]
    BY DEF SetEngineInfo
  <1> HIDE DEF r
  <1>4. QED
    BY <1>2, <1>3, ImageBumped DEF SameImages

LEMMA ImageTagged ==
    ASSUME TypeOK, NEW b \in BuildNr, NEW a \in Attempt,
           row' = [row EXCEPT ![b].tag = IF row[b].live THEN a ELSE @]
    PROVE  SameImages
  <1>1. row \in [BuildNr -> Row] /\ row[b] \in Row
    BY DEF TypeOK
  <1>2. row'[b] = [row[b] EXCEPT !.tag = IF row[b].live THEN a ELSE @]
    BY <1>1
  <1>3. row'[b].image = row[b].image /\ \A c \in BuildNr : c # b => row'[c] = row[c]
    BY <1>1, <1>2 DEF Row
  <1>4. QED
    BY <1>3 DEF SameImages

LEMMA ImageServed ==
    ASSUME Types, NEW p \in Process, Serve(p)
    PROVE  SameImages
  <1>0. TypeOK /\ row \in [BuildNr -> Row]
    BY DEF Types, TypeOK
  <1>1. CASE row' = row
    BY <1>1 DEF SameImages
  <1>2. CASE TriggerInsert(p)
    <2>1. req[p].b \in BuildNr
      BY <1>2, Fields DEF TriggerInsert
    <2>2. ASSUME NEW a \in Attempt, row' = [row EXCEPT ![req[p].b] = [NoRow EXCEPT
                            !.status = "pending", !.live = TRUE, !.tag = a]]
          PROVE  SameImages
      <3> DEFINE r == [NoRow EXCEPT !.status = "pending", !.live = TRUE, !.tag = a]
      <3>1. r.image = 0
        BY DEF NoRow
      <3>2. row'[req[p].b] = r /\ \A c \in BuildNr : c # req[p].b => row'[c] = row[c]
        BY <1>0, <2>1, <2>2
      <3> HIDE DEF r
      <3>3. QED
        BY <3>1, <3>2 DEF SameImages
    <2>3. QED
      BY <1>1, <1>2, <2>2 DEF TriggerInsert
  <1>3. CASE CancelWrite(p)
    <2>1. req[p].b \in BuildNr
      BY <1>3, Fields DEF CancelWrite, Asked
    <2>2. QED
      BY <1>0, <1>3, <2>1, ImageCompleted DEF CancelWrite, SameImages, Terminal
  <1>4. CASE RebuildWrite(p)
    <2>1. req[p].b \in BuildNr
      BY <1>4, Fields DEF RebuildWrite, Asked
    <2>2. QED
      BY <1>0, <1>1, <1>4, <2>1, ImageReset DEF RebuildWrite
  <1>5. CASE RebuildTag(p)
    <2>1. req[p].b \in BuildNr /\ req[p].a \in Attempt
      BY <1>5, Fields DEF RebuildTag
    <2>2. QED
      BY <1>0, <1>5, <2>1, ImageTagged DEF RebuildTag
  <1>6. CASE EditWrite(p)
    <2>1. req[p].b \in BuildNr
      BY <1>6, Fields DEF EditWrite, Asked
    <2>2. ASSUME NEW tag \in {0, row[req[p].b].tag},
                 row' = [row EXCEPT ![req[p].b] = Bumped([@ EXCEPT !.tag = tag])]
          PROVE  SameImages
      <3> DEFINE r == [row[req[p].b] EXCEPT !.tag = tag]
      <3>1. r \in Row /\ r.image = row[req[p].b].image
        BY <1>0, <2>1 DEF Row
      <3>2. row' = [row EXCEPT ![req[p].b] = Bumped(r)]
        BY <1>0, <2>1, <2>2
      <3> HIDE DEF r
      <3>3. QED
        BY <1>0, <2>1, <3>1, <3>2, ImageBumped
    <2>3. QED
      BY <1>1, <1>6, <2>2 DEF EditWrite
  <1>7. CASE DeleteWrite(p)
    <2>1. req[p].b \in BuildNr
      BY <1>7, Fields DEF DeleteWrite, Asked
    <2> DEFINE r == [row[req[p].b] EXCEPT !.live = FALSE]
    <2>2. r \in Row /\ r.image = row[req[p].b].image
      BY <1>0, <2>1 DEF Row
    <2>3. row' = row \/ row' = [row EXCEPT ![req[p].b] = Bumped(r)]
      BY <1>0, <1>7, <2>1 DEF DeleteWrite
    <2> HIDE DEF r
    <2>4. QED
      BY <1>0, <1>1, <2>1, <2>2, <2>3, ImageBumped
  <1>8. CASE CancelStop(p) \/ ImageWrite(p)
    BY <1>1, <1>8 DEF CancelStop, ImageWrite, tables
  <1>9. QED
    BY <1>2, <1>3, <1>4, <1>5, <1>6, <1>7, <1>8 DEF Serve

LEMMA ImageTriggered ==
    ASSUME Types, AttemptInv, NEW a \in Attempt, Trigger(a)
    PROVE  SameImages
  <1>0. TypeOK /\ row \in [BuildNr -> Row]
    BY DEF Types, TypeOK
  <1>1. CASE row' = row
    BY <1>1 DEF SameImages
  <1>2. ASSUME go[a].step # "none" PROVE of[a] \in BuildNr
    BY <1>2 DEF AttemptInv, GoInv
  <1>3. CASE GoMark(a)
    BY <1>0, <1>2, <1>3, ImageCompleted DEF GoMark, SameImages, Terminal
  <1>4. CASE GoRecord(a)
    <2>1. of[a] \in BuildNr
      BY <1>2, <1>4 DEF GoRecord
    <2>2. QED
      BY <1>0, <1>4, <2>1, ImageRecorded DEF GoRecord
  <1>5. QED
    BY <1>1, <1>3, <1>4 DEF Trigger, GoTrigger, GoRefused, tables

\* A poll completes a row with the image it recorded for it, or with none.
LEMMA ImagePolled ==
    ASSUME Types, RowInvs, HandInv, ImageInv, NEW p \in Process, Poll(p)
    PROVE  \A b \in BuildNr : \/ row'[b].image \in {row[b].image, 0}
                              \/ Own(b, row'[b].image)
  <1>0. TypeOK /\ row \in [BuildNr -> Row]
    BY DEF Types, TypeOK
  <1>1. CASE row' = row
    BY <1>1
  <1>2. CASE PollNumber(p)
    <2>0. PICK s \in First(p) : \E n \in Numbers(s.r) :
             IF n = 0 THEN row' = row ELSE SetNumber(s.b, n)
      BY <1>2 DEF PollNumber
    <2>1. PICK n \in Numbers(s.r) : IF n = 0 THEN row' = row ELSE SetNumber(s.b, n)
      BY <2>0
    <2>2. CASE n # 0
      <3>1. s.b \in BuildNr /\ n \in Attempt
        BY <1>2, <2>2, NumberFound, Listed DEF PollNumber
      <3> DEFINE r == [row[s.b] EXCEPT !.number = n]
      <3>2. r \in Row /\ r.image = row[s.b].image
        BY <1>0, <3>1 DEF Row
      <3>3. row' = row \/ row' = [row EXCEPT ![s.b] = Bumped(r)]
        BY <1>0, <2>1, <2>2, <3>1 DEF SetNumber
      <3> HIDE DEF r
      <3>4. QED
        BY <1>0, <1>1, <3>1, <3>2, <3>3, ImageBumped DEF SameImages
    <2>3. QED
      BY <1>1, <2>1, <2>2
  <1>3. CASE PollEnd(p)
    <2>1. PICK s \in First(p) :
             CompleteBuild(s.b, s.r.version, poll[p].result, poll[p].next)
      BY <1>3 DEF PollEnd
    <2>2. /\ s.b \in BuildNr /\ poll[p].next \in Nat
          /\ poll[p].result \in Terminal \cup {"queued"}
      BY <1>3, Listed DEF PollEnd, Ending
    <2>3. Own(s.b, poll[p].next)
      BY <1>3, <2>1 DEF PollEnd, ImageInv, NextInv
    <2>4. QED
      BY <1>0, <2>1, <2>2, <2>3, ImageCompleted
  <1>4. CASE PollPending(p)
    <2>1. PICK s \in First(p) :
             \/ CompleteBuild(s.b, s.r.version, "failed", 0)
             \/ row' = row
      BY <1>4 DEF PollPending
    <2>2. s.b \in BuildNr
      BY Listed
    <2>3. QED
      BY <1>0, <1>1, <2>1, <2>2, ImageCompleted DEF Terminal
  <1>5. QED
    BY <1>1, <1>2, <1>3, <1>4 DEF Poll, ListRunning, PollStatus, PollVersion, PollImage,
                                  ListPending, tables

LEMMA OwnNext ==
    ASSUME Types, AttemptInv, RowInvs, HandInv, ImageInv, [Next]_vars
    PROVE  OwnInv'
  <1>1. ImagesFine
    BY ImagesNext
  <1>2. ASSUME \A b \in BuildNr : \/ row'[b].image \in {row[b].image, 0}
                                  \/ Own(b, row'[b].image)
        PROVE  OwnInv'
    <2>1. SUFFICES ASSUME NEW b \in BuildNr PROVE Own(b, row[b].image)'
      BY DEF OwnInv
    <2>2. row'[b].image = 0 \/ Own(b, row'[b].image)
      BY <1>2 DEF ImageInv, OwnInv
    <2>3. QED
      BY <1>1, <2>2, OwnStays DEF Own
  <1>3. CASE row' = row
    BY <1>2, <1>3
  <1>4. CASE SameImages
    BY <1>2, <1>4 DEF SameImages
  <1>5. ASSUME NEW p \in Process, Request(p) \/ Crash(p)
        PROVE  row' = row
    BY <1>5 DEF Request, TriggerRead, Read, ImageRead, Crash, tables
  <1>6. ASSUME NEW a \in Attempt, Works(a)
        PROVE  row' = row
    BY <1>6 DEF Works, RunStart, RunEnd, tables
  <1>7. ASSUME NEW b \in BuildNr, Ages(b) \/ Waits(b)
        PROVE  SameImages
    <2>1. row \in [BuildNr -> Row] /\ row[b] \in Row
      BY DEF Types, TypeOK
    <2>2. /\ \A c \in BuildNr : c # b => row'[c] = row[c]
          /\ \/ row'[b] = [row[b] EXCEPT !.old = TRUE]
             \/ row'[b] = [row[b] EXCEPT !.late = TRUE]
      BY <1>7, <2>1 DEF Ages, Waits
    <2>3. QED
      BY <2>1, <2>2 DEF SameImages, Row
  <1>8. QED
    BY <1>2, <1>3, <1>4, <1>5, <1>6, <1>7, ImageServed, ImageTriggered, ImagePolled
       DEF Next, vars, tables

LEMMA NextOfOthers ==
    ASSUME ImagesFine, NEW q \in Process, NextInv(q), poll'[q] = poll[q]
    PROVE  NextInv(q)'
  <1>1. First(q)' = First(q)
    BY DEF First
  <1>2. QED
    BY <1>1, OwnStays DEF NextInv, Own

LEMMA NextPolled ==
    ASSUME Types, ImagesFine, NEW p \in Process, NextInv(p), Poll(p)
    PROVE  NextInv(p)'
  <1>0. DOMAIN poll = Process /\ PollType(p) /\ TypeOK
    BY DEF Types, TypeOK
  <1>1. CASE poll'[p] = IdlePoll
    BY <1>1 DEF NextInv, IdlePoll
  <1>2. CASE \E s : poll' = [poll EXCEPT ![p] = Skip(p, s)]
    <2>1. poll'[p].step = "run" /\ poll'[p].next = 0
      BY <1>0, <1>2 DEF Skip, PollType
    <2>2. QED
      BY <2>1 DEF NextInv
  <1>3. CASE ListRunning(p)
    <2>1. poll'[p].step = "run" /\ poll'[p].next = 0
      BY <1>0, <1>3 DEF ListRunning, IdlePoll
    <2>2. QED
      BY <2>1 DEF NextInv
  <1>4. CASE PollNumber(p)
    <2>1. CASE \E t : poll' = [poll EXCEPT ![p].todo = t]
      <3>1. poll'[p].step = "run" /\ poll'[p].next = poll[p].next /\ poll[p].next = 0
        BY <1>0, <1>4, <2>1 DEF PollNumber, PollType, NextInv
      <3>2. QED
        BY <3>1 DEF NextInv
    <2>2. QED
      BY <1>2, <1>4, <2>1 DEF PollNumber
  <1>5. CASE PollStatus(p)
    <2>1. PICK s \in First(p) :
           LET a == IF s.r.pipe # 0 THEN s.r.pipe ELSE s.r.number
               v == IF s.r.pipe = 0 /\ row[s.b].live THEN row[s.b].version
                                                     ELSE s.r.version IN
           /\ a # 0
           /\ IF Result(a) \in Terminal \cup {"queued"}
              THEN poll' = [poll EXCEPT ![p].result = Result(a),
                      ![p].step = IF Result(a) = "success" THEN "version" ELSE "end",
                      ![p].todo = Update(p, s, [s EXCEPT !.r.version = v])]
              ELSE poll' = [poll EXCEPT ![p] = Skip(p, s)]
      BY <1>5 DEF PollStatus
    <2> DEFINE a == IF s.r.pipe # 0 THEN s.r.pipe ELSE s.r.number
               v == IF s.r.pipe = 0 /\ row[s.b].live THEN row[s.b].version
                                                     ELSE s.r.version
               y == IF Result(a) = "success" THEN "version" ELSE "end"
    <2>2. CASE poll' = [poll EXCEPT ![p].result = Result(a), ![p].step = y,
                            ![p].todo = Update(p, s, [s EXCEPT !.r.version = v])]
      <3>1. poll[p].next = 0
        BY <1>5 DEF PollStatus, NextInv
      <3> HIDE DEF a, v, y
      <3>2. poll'[p].next = 0 /\ poll'[p].step = y
        BY <1>0, <2>2, <3>1 DEF PollType
      <3>3. y \in {"version", "end"}
        BY DEF y
      <3>4. QED
        BY <3>2, <3>3 DEF NextInv, Own
    <2>3. QED
      BY <1>2, <2>1, <2>2
  <1>6. CASE PollVersion(p)
    <2>1. poll'[p].step = "image"
      BY <1>0, <1>6 DEF PollVersion, PollType
    <2>2. QED
      BY <2>1 DEF NextInv
  <1>7. CASE PollImage(p)
    <2>1. PICK s \in First(p) : CreateImage(poll[p].next, s.b, s.r.tag)
      BY <1>7 DEF PollImage
    <2>2. /\ poll'[p].step = "end" /\ poll'[p].todo = poll[p].todo
          /\ poll'[p].next = IF images' = images THEN 0 ELSE poll[p].next
      BY <1>0, <1>7 DEF PollImage, PollType
    <2>3. ASSUME NEW x \in First(p)' PROVE x.b = s.b
      <3>1. x \in poll[p].todo /\ s \in poll[p].todo /\ s.b <= x.b /\ x.b <= s.b
        BY <2>2, <2>3 DEF First
      <3>2. QED
        BY <3>1, Listed DEF BuildNr
    <2>4. Own(s.b, poll[p].next)'
      BY <1>0, <2>1, <2>2, ImagesGrow DEF Own
    <2>5. QED
      BY <2>2, <2>3, <2>4 DEF NextInv
  <1>8. CASE PollEnd(p)
    BY <1>2, <1>8 DEF PollEnd
  <1>9. CASE ListPending(p)
    <2>1. CASE poll' = [poll EXCEPT ![p] = [@ EXCEPT !.step = "pend",
                                                !.todo = Snapshots("pending")]]
      <3>1. poll'[p].step = "pend" /\ poll'[p].next = poll[p].next
        BY <1>0, <2>1 DEF PollType
      <3>2. poll[p].next = 0
        BY <1>9 DEF ListPending, NextInv
      <3>3. QED
        BY <3>1, <3>2 DEF NextInv
    <2>2. CASE poll' = [poll EXCEPT ![p] = IdlePoll]
      BY <1>0, <1>1, <2>2
    <2>3. QED
      BY <1>9, <2>1, <2>2 DEF ListPending
  <1>10. CASE PollPending(p)
    <2>1. PICK s \in First(p) : poll' = [poll EXCEPT ![p] =
                         IF poll[p].todo = {s} THEN IdlePoll
                         ELSE [poll[p] EXCEPT !.todo = @ \ {s}]]
      BY <1>10 DEF PollPending
    <2>2. CASE poll[p].todo # {s}
      <3>1. poll'[p].step = "pend" /\ poll'[p].next = poll[p].next /\ poll[p].next = 0
        BY <1>0, <1>10, <2>1, <2>2 DEF PollPending, PollType, NextInv
      <3>2. QED
        BY <3>1 DEF NextInv
    <2>3. QED
      BY <1>0, <1>1, <2>1, <2>2
  <1>11. QED
    BY <1>3, <1>4, <1>5, <1>6, <1>7, <1>8, <1>9, <1>10 DEF Poll

LEMMA ImageNext ==
    ASSUME Types, AttemptInv, RowInvs, HandInv, ImageInv, [Next]_vars
    PROVE  ImageInv'
  <1>0. ImagesFine /\ DOMAIN poll = Process
    BY ImagesNext DEF Types, TypeOK
  <1>1. ASSUME NEW q \in Process PROVE NextInv(q)'
    <2>1. CASE poll'[q] = poll[q]
      BY <1>0, <2>1, NextOfOthers DEF ImageInv
    <2>2. CASE Crash(q)
      <3>1. poll'[q] = IdlePoll
        BY <1>0, <2>2 DEF Crash
      <3>2. QED
        BY <3>1 DEF NextInv, IdlePoll
    <2>3. CASE Poll(q)
      BY <1>0, <2>3, NextPolled DEF ImageInv
    <2>4. ASSUME NEW p \in Process, p # q, Poll(p) \/ Crash(p) PROVE poll'[q] = poll[q]
      BY <1>0, <2>4 DEF Poll, ListRunning, PollNumber, PollStatus, PollVersion,
                        PollImage, PollEnd, ListPending, PollPending, Crash
    <2>5. poll' = poll \/ \E p \in Process : Poll(p) \/ Crash(p)
      BY DEF Next, Request, Serve, Trigger, Works, TriggerRead, Read, ImageRead,
             TriggerInsert, CancelStop, CancelWrite, RebuildWrite, RebuildTag, EditWrite,
             DeleteWrite, ImageWrite, GoTrigger, GoRecord, GoRefused, GoMark, RunStart,
             RunEnd, Ages, Waits, vars
    <2>6. QED
      BY <2>1, <2>2, <2>3, <2>4, <2>5
  <1>2. QED
    BY <1>1, OwnNext DEF ImageInv

-----------------------------------------------------------------------------
(* Theorems.                                                               *)

LEMMA BuildInit == Init => BuildInv
  <1> SUFFICES ASSUME Init PROVE BuildInv
    OBVIOUS
  <1>1. TypeOK
    <2>1. (CHOOSE p \in Process : TRUE) \in Process
      BY DEF BuildAssumption
    <2>2. NoRow \in Row
      BY DEF NoRow, Row
    <2>3. images \in Seq(Image) /\ started \in Seq(Attempt)
      BY DEF Init
    <2>4. go \in [Attempt -> Goroutine]
      BY <2>1 DEF Init, Goroutine
    <2>5. QED
      BY <2>2, <2>3, <2>4 DEF Init, TypeOK, Run
  <1>2. \A p \in Process : ReqType(p) /\ PollType(p)
    BY DEF Init, ReqType, PollType, Idle, IdlePoll, Ending
  <1>3. AttemptInv
    BY DEF Init, AttemptInv, GoInv, TagInv, Idle
  <1>4. \A b \in BuildNr : RowInv(b)
    BY DEF Init, RowInv, NoRow, Refers, Tracked, Earned
  <1>5. HandInv
    BY DEF Init, HandInv, ReqInv, RunInv, PendInv, EndInv, Idle, IdlePoll, Ending
  <1>6. QED
    BY <1>1, <1>2, <1>3, <1>4, <1>5 DEF BuildInv, Types

LEMMA BuildNext ==
    ASSUME BuildInv, [Next]_vars
    PROVE  BuildInv'
  <1>1. Types /\ RowInvs /\ AttemptInv /\ HandInv
    BY DEF BuildInv, RowInvs
  <1>2. AttemptFine
    BY <1>1, AttemptNext
  <1>3. RowsFine
    BY <1>1, <1>2, RowsNext DEF AttemptFine
  <1>4. \A p \in Process : PollFine(p)
    BY <1>1, <1>2, <1>3, PollNext DEF AttemptFine
  <1>5. \A p \in Process : ReqFine(p)
    BY <1>1, <1>3, RequestNext
  <1>6. TypeOK'
    BY <1>1, <1>2, <1>3, RestNext DEF TypeOK, AttemptFine, RowsFine
  <1>7. Types'
    BY <1>4, <1>5, <1>6 DEF Types, PollFine, ReqFine
  <1>8. HandInv'
    BY <1>4, <1>5 DEF HandInv, PollFine, PollInv, ReqFine
  <1>9. QED
    BY <1>2, <1>3, <1>7, <1>8 DEF BuildInv, AttemptFine, RowsFine

\* The inductive invariant: what every row, attempt, request and poll knows.
THEOREM Invariant == Spec => []BuildInv
  <1>1. QED
    BY BuildInit, BuildNext, PTL DEF Spec

\* A running row follows a run that was made for its build, and a pending row
\* none, whatever requests, goroutines and polls overlap.
THEOREM RunsAreTracked == Spec => []RunTracked
  <1>1. BuildInv => RunTracked
    BY DEF BuildInv, Types, RowInv, Tracked, RunTracked, Live
  <1>2. QED
    BY <1>1, Invariant, PTL

\* A build that is a success had a run of its own that succeeded, unless a
\* poller took the job's last build for its own.
THEOREM SuccessIsEarned == Spec => []SuccessEarned
  <1>1. BuildInv => SuccessEarned
    BY DEF BuildInv, RowInv, Earned, HasRun, SuccessEarned
  <1>2. QED
    BY <1>1, Invariant, PTL

\* A build is put back to "queued" only when a run of its own was lost, unless
\* a poller took the job's last build for its own.
THEOREM QueuedWasLost == Spec => []QueuedIsLost
  <1>1. BuildInv => QueuedIsLost
    BY DEF BuildInv, RowInv, Earned, HasRun, QueuedIsLost
  <1>2. QED
    BY <1>1, Invariant, PTL

\* The image a build points at was recorded for it.
THEOREM ImagesAreOwn == Spec => []ImageIsOwn
  <1>1. Init => ImageInv
    BY DEF Init, ImageInv, OwnInv, Own, NextInv, NoRow, IdlePoll
  <1>2. BuildInv /\ ImageInv /\ [Next]_vars => ImageInv'
    BY ImageNext DEF BuildInv, RowInvs
  <1>3. BuildInv /\ ImageInv => ImageIsOwn
    <2>1. ASSUME TypeOK, OwnInv PROVE ImageIsOwn
      <3>1. images \in Seq(Image)
        BY <2>1 DEF TypeOK
      <3>2. QED
        BY <2>1, <3>1 DEF OwnInv, Own, ImageIsOwn
    <2>2. QED
      BY <2>1 DEF BuildInv, Types, ImageInv
  <1>4. QED
    BY <1>1, <1>2, <1>3, Invariant, PTL DEF Spec

\* A statement that completes a build finds it with the version it was given.
LEMMA CompletesOne ==
    ASSUME Types, NEW b \in BuildNr, NEW c \in BuildNr, NEW version,
           NEW status \in Terminal \cup {"queued"}, NEW image \in Nat,
           CompleteBuild(c, version, status, image),
           row'[b].status # row[b].status
    PROVE  b = c /\ row[b].version = version
  <1>1. Touched(c) /\ (row' = row \/ Completed(c, version, status))
    BY CompleteRow DEF Types
  <1>2. QED
    BY <1>1 DEF Touched, Completed

LEMMA SettledServe ==
    ASSUME BuildInv, NEW p \in Process, Serve(p), NEW b \in BuildNr,
           Live(b, Terminal), row'[b].status # row[b].status
    PROVE  row'[b].status = "pending"
  <1>1. Types /\ RowInvs /\ HandInv
    BY DEF BuildInv, RowInvs
  <1>2. CASE TriggerInsert(p)
    <2>1. req[p].b \in BuildNr
      BY <1>1, <1>2, Fields DEF TriggerInsert
    <2>2. PICK a \in Attempt : /\ ~Exists(req[p].b)
                               /\ row' = [row EXCEPT ![req[p].b] = [NoRow EXCEPT
                                     !.status = "pending", !.live = TRUE, !.tag = a]]
      BY <1>2 DEF TriggerInsert
    <2>3. Touched(req[p].b) /\ Born(req[p].b)
      BY <1>1, <2>1, <2>2, InsertRow DEF Types
    <2>4. QED
      BY <2>3 DEF Touched, Born
  <1>3. CASE CancelWrite(p)
    <2>1. req[p].b \in BuildNr
      BY <1>1, <1>3, Fields DEF CancelWrite, Asked
    <2>2. b = req[p].b /\ row[b].version = req[p].version
      BY <1>1, <1>3, <2>1, CompletesOne DEF CancelWrite, Terminal
    <2>3. row[b].status \in Active
      BY <1>1, <1>3, <2>2 DEF CancelWrite, HandInv, ReqInv, Guards
    <2>4. QED
      BY <2>3 DEF Live, Terminal, Active
  <1>4. CASE RebuildWrite(p)
    <2>1. req[p].b \in BuildNr
      BY <1>1, <1>4, Fields DEF RebuildWrite, Asked
    <2>2. row[req[p].b].live /\ row' = [row EXCEPT ![req[p].b] = Reset(@)]
      BY <1>4 DEF RebuildWrite, Unchanged
    <2>3. Touched(req[p].b) /\ Restarted(req[p].b)
      BY <1>1, <2>1, <2>2, ResetRow DEF Types
    <2>4. QED
      BY <2>3 DEF Touched, Restarted
  <1>5. CASE RebuildTag(p)
    <2>1. req[p].b \in BuildNr /\ req[p].a \in Attempt
      BY <1>1, <1>5, Fields DEF RebuildTag
    <2>2. Touched(req[p].b) /\ Kept(req[p].b)
      BY <1>1, <1>5, <2>1, TagRow DEF RebuildTag, Types
    <2>3. QED
      BY <2>2 DEF Touched, Kept
  <1>6. CASE EditWrite(p) \/ DeleteWrite(p)
    <2>1. req[p].b \in BuildNr
      BY <1>1, <1>6, Fields DEF EditWrite, DeleteWrite, Asked
    <2>2. Touched(req[p].b) /\ (row' = row \/ Edited(req[p].b))
      BY <1>1, <1>6, <2>1, EditRow, DeleteRow DEF DeleteWrite, Types
    <2>3. QED
      BY <2>2 DEF Touched, Edited
  <1>7. CASE CancelStop(p) \/ ImageWrite(p)
    BY <1>7 DEF CancelStop, ImageWrite, tables
  <1>8. QED
    BY <1>2, <1>3, <1>4, <1>5, <1>6, <1>7 DEF Serve

LEMMA SettledTrigger ==
    ASSUME BuildInv, NEW a \in Attempt, Trigger(a), NEW b \in BuildNr,
           Live(b, Terminal), row'[b].status # row[b].status
    PROVE  of[a] = b /\ go[a].step \in {"record", "mark"}
  <1>1. Types /\ (go[a].step # "none" => of[a] \in BuildNr)
    BY DEF BuildInv, AttemptInv, GoInv
  <1>2. CASE GoTrigger(a) \/ GoRefused(a)
    BY <1>2 DEF GoTrigger, GoRefused, tables
  <1>3. CASE GoMark(a)
    BY <1>1, <1>3, CompletesOne DEF GoMark, Terminal
  <1>4. CASE GoRecord(a)
    <2>1. Touched(of[a])
      BY <1>1, <1>4, RecordRow DEF GoRecord, Types
    <2>2. QED
      BY <1>4, <2>1 DEF Touched, GoRecord
  <1>5. QED
    BY <1>2, <1>3, <1>4 DEF Trigger

LEMMA SettledPoll ==
    ASSUME BuildInv, NEW p \in Process, Poll(p), NEW b \in BuildNr,
           Live(b, Terminal), row'[b].status # row[b].status
    PROVE  Overwrites(b)
  <1>1. Types /\ RowInvs /\ HandInv
    BY DEF BuildInv, RowInvs
  <1>2. CASE \/ ListRunning(p) \/ PollStatus(p) \/ PollVersion(p)
             \/ PollImage(p) \/ ListPending(p)
    BY <1>2 DEF ListRunning, PollStatus, PollVersion, PollImage, ListPending, tables
  <1>3. CASE PollNumber(p)
    <2>1. PICK s \in First(p) : \E n \in Numbers(s.r) :
             IF n = 0 THEN row' = row ELSE SetNumber(s.b, n)
      BY <1>3 DEF PollNumber
    <2>2. PICK n \in Numbers(s.r) : IF n = 0 THEN row' = row ELSE SetNumber(s.b, n)
      BY <2>1
    <2>3. n # 0 /\ n \in Attempt /\ s.b \in BuildNr
      BY <1>1, <1>3, <2>2, NumberFound, Listed DEF PollNumber
    <2>4. Touched(s.b) /\ (row' = row \/ Numbered(s.b, n))
      BY <1>1, <2>2, <2>3, NumberRow DEF Types
    <2>5. QED
      BY <2>4 DEF Touched, Numbered
  <1>4. CASE PollEnd(p)
    <2>1. PICK s \in First(p) :
             CompleteBuild(s.b, s.r.version, poll[p].result, poll[p].next)
      BY <1>4 DEF PollEnd
    <2>2. /\ s.b \in BuildNr /\ poll[p].next \in Nat /\ s \in poll[p].todo
          /\ poll[p].result \in Terminal \cup {"queued"} /\ poll[p].step = "end"
      BY <1>1, <1>4, Listed DEF PollEnd, Ending
    <2>3. b = s.b /\ row[b].version = s.r.version
      BY <1>1, <2>1, <2>2, CompletesOne
    <2>4. s.r.pipe # 0 => row[b].status = "running"
      BY <1>1, <2>2, <2>3 DEF HandInv, RunInv, Guards, Ending
    <2>5. s.r.pipe = 0
      BY <2>4 DEF Live, Terminal
    <2>6. QED
      BY <2>2, <2>3, <2>5 DEF Overwrites
  <1>5. CASE PollPending(p)
    <2>1. PICK s \in First(p) :
             \/ CompleteBuild(s.b, s.r.version, "failed", 0)
             \/ row' = row
      BY <1>5 DEF PollPending
    <2>2. s.b \in BuildNr /\ s \in poll[p].todo /\ poll[p].step = "pend"
      BY <1>1, <1>5, Listed DEF PollPending
    <2>3. b = s.b /\ row[b].version = s.r.version
      BY <1>1, <2>1, <2>2, CompletesOne DEF Terminal
    <2>4. row[b].status = "pending"
      BY <1>1, <2>2, <2>3 DEF HandInv, PendInv, Guards
    <2>5. QED
      BY <2>4 DEF Live, Terminal
  <1>6. QED
    BY <1>2, <1>3, <1>4, <1>5 DEF Poll

\* A settled build is overwritten only by a rebuild and by the writers that do
\* not look whether somebody else was first.
THEOREM SettledBuildsStay == Spec => SettledStays
  <1>1. ASSUME BuildInv, [Next]_vars, NEW b \in BuildNr,
               Live(b, Terminal), row'[b].status # row[b].status
        PROVE  Overwrites(b) \/ row'[b].status = "pending"
    <2>1. TypeOK
      BY <1>1 DEF BuildInv, Types
    <2>2. ASSUME NEW p \in Process, Request(p) \/ Crash(p)
          PROVE  row' = row
      BY <2>2 DEF Request, TriggerRead, Read, ImageRead, Crash, tables
    <2>3. ASSUME NEW a \in Attempt, Works(a)
          PROVE  row' = row
      BY <2>3 DEF Works, RunStart, RunEnd, tables
    <2>4. ASSUME NEW c \in BuildNr, Ages(c) \/ Waits(c)
          PROVE  row'[b].status = row[b].status
      BY <2>1, <2>4, TimeRow DEF Touched, Kept
    <2>5. ASSUME NEW a \in Attempt, Trigger(a)
          PROVE  Overwrites(b)
      BY <1>1, <2>5, SettledTrigger DEF Overwrites
    <2>6. QED
      BY <1>1, <2>2, <2>3, <2>4, <2>5, SettledServe, SettledPoll DEF Next, vars, tables
  <1>2. BuildInv /\ [Next]_vars =>
           [\A b \in BuildNr :
               Live(b, Terminal) /\ row'[b].status # row[b].status =>
                   Overwrites(b) \/ row'[b].status = "pending"]_vars
    BY <1>1
  <1>3. QED
    BY <1>2, Invariant, PTL DEF Spec, SettledStays
=============================================================================
