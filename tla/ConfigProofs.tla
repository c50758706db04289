----------------------------- MODULE ConfigProofs -----------------------------
(***************************************************************************)
(* Theorems about Config, for any number of handlers, sets, groups,        *)
(* contents and requests.                                                  *)
(***************************************************************************)
EXTENDS Config, TLAPS

USE BoundsAssumption

\* Where a request of each kind can be.
Stage == [create |-> {}, clear |-> {}, remove |-> {"delete"},
          update |-> {"number", "snapshot", "write"},
          bind |-> {"insert", "look", "number", "snapshot"},
          unbind |-> {"effective", "number", "snapshot", "drop", "put", "unlink"},
          upsert |-> {"old", "number", "snapshot", "drop", "put"}]

Req == [op : Op, id : 0..MaxRequest, set : Set \cup {None}, group : Group \cup {None},
        binding : 0..MaxRequest, version : Nat, old : Content \cup {None},
        content : Content \cup {None}, no : Nat]

\* What a request under way has filled in.
Filled(h) == step[h] # "idle" =>
  /\ step[h] \in Stage[req[h].op]
  /\ req[h].op \in {"remove", "update", "bind", "unbind"} => req[h].set \in Set
  /\ req[h].op \in {"bind", "unbind", "upsert"} => req[h].group \in Group
  /\ step[h] \in {"number", "snapshot"} => req[h].old \in Content
  /\ step[h] = "snapshot" => req[h].no # 0
  /\ req[h].op \in {"update", "upsert"} => req[h].content \in Content
  /\ req[h].op = "unbind" /\ step[h] \notin {"effective", "unlink"} => req[h].content \in Content

ReqInv ==
  /\ req \in [Handler -> Req]
  /\ \A h \in Handler : Filled(h)

\* The snapshots of a target are numbered without gaps, and a number read is
\* one of theirs or the next.
Used(t) == {x.no : x \in {y \in snaps : y.target = t}}
NumberInv == \A t \in Target : \E k \in Nat :
  /\ Used(t) = 1..k
  /\ \A h \in Handler : step[h] = "snapshot" /\ SnapshotOf(h) = t => req[h].no <= k + 1

Types == TypeOK /\ ReqInv /\ NumberInv

\* An update that will not be refused knows the content it replaces, and has
\* kept it when it writes.
KeptIn(s, c) == \E x \in snaps : x.target = <<"config_set", s>> /\ x.content = c
UpdateInv == \A h \in Handler : step[h] # "idle" /\ req[h].op = "update" =>
  /\ req[h].version > 0 /\ req[h].version <= sets[req[h].set].version
  /\ req[h].version = sets[req[h].set].version => sets[req[h].set].content = req[h].old
  /\ step[h] = "write" => missed \/ ~Files(req[h].old) \/ req[h].old = req[h].content
                            \/ KeptIn(req[h].set, req[h].old)

\* Bindings are known by their group and by their id, and ids are not used twice.
BindingInv ==
  /\ \A b, c \in bindings : b.group = c.group \/ b.id = c.id => b = c
  /\ \A b \in bindings : b.id <= asked
  /\ \A h \in Handler : step[h] = "insert" =>
       /\ req[h].id \in 1..asked
       /\ \A b \in bindings : b.id # req[h].id
       /\ \A u \in Handler : step[u] = "insert" /\ req[u].id = req[h].id => u = h
  /\ \A h \in Handler : step[h] # "idle" /\ req[h].op = "unbind" =>
       /\ req[h].binding <= asked
       /\ \A b \in bindings : b.id = req[h].binding => b.group = req[h].group /\ b.set = req[h].set
       /\ \A u \in Handler : step[u] = "insert" => req[u].id # req[h].binding

\* An unbind that nobody wrote beside has the content of the set, and puts it
\* where the group will look for it.
Carries(h) == sets[req[h].set].live /\ sets[req[h].set].content = req[h].content
CalmInv == \A h \in calm : req[h].op = "unbind" =>
  /\ step[h] # "idle" => \E b \in bindings : b.id = req[h].binding
  /\ step[h] \in {"number", "snapshot", "drop", "put"} => Carries(h)
  /\ step[h] = "put" => local[req[h].group] = None
  /\ step[h] = "unlink" /\ sets[req[h].set].live
       => local[req[h].group] = sets[req[h].set].content

\* A removal that nobody wrote beside still finds no binding to its set.
RemoveInv == \A h \in calm : step[h] = "delete" =>
  \A b \in bindings : b.set # req[h].set

ConfigInv == Types /\ HistoryKept /\ UpdateInv /\ LocalKept /\ BindingInv /\ CalmInv /\ RemoveInv

-----------------------------------------------------------------------------
(* Requests and types.                                                     *)

\* Where a request is tells what it is.
LEMMA StageIs ==
  ASSUME ReqInv, NEW h \in Handler
  PROVE  /\ step[h] = "write" => /\ req[h].op = "update" /\ req[h].set \in Set
                                 /\ req[h].content \in Content
         /\ step[h] = "delete" => req[h].op = "remove" /\ req[h].set \in Set
         /\ step[h] \in {"insert", "look"} => /\ req[h].op = "bind" /\ req[h].set \in Set
                                              /\ req[h].group \in Group
         /\ step[h] \in {"effective", "unlink"} => /\ req[h].op = "unbind" /\ req[h].set \in Set
                                                   /\ req[h].group \in Group
         /\ step[h] = "old" => /\ req[h].op = "upsert" /\ req[h].group \in Group
                               /\ req[h].content \in Content
         /\ step[h] \in {"drop", "put"} => /\ req[h].op \in {"unbind", "upsert"}
                                           /\ req[h].group \in Group /\ req[h].content \in Content
<1>1. req[h].op \in {"create", "update", "remove", "bind", "unbind", "upsert", "clear"}
  BY DEF ReqInv, Req, Op
<1>. QED BY <1>1 DEF ReqInv, Filled, Stage

LEMMA SnapshotOfIs ==
  ASSUME ReqInv, NEW h \in Handler, step[h] \in {"number", "snapshot"}
  PROVE  /\ SnapshotOf(h) \in Target
         /\ req[h].op = "update" => SnapshotOf(h) = <<"config_set", req[h].set>>
<1>1. req[h].op \in {"update", "bind", "unbind", "upsert"} /\ Filled(h)
  BY DEF ReqInv, Filled, Stage, Req, Op
<1>2. CASE req[h].op = "update"
  BY <1>1, <1>2 DEF SnapshotOf, Target, Filled
<1>3. CASE req[h].op \in {"bind", "unbind"}
  BY <1>1, <1>3 DEF SnapshotOf, Target, Filled
<1>4. CASE req[h].op = "upsert"
  BY <1>1, <1>4 DEF SnapshotOf, Target, Filled
<1>. QED BY <1>1, <1>2, <1>3, <1>4

LEMMA FreshIs ==
  ASSUME TypeOK, NEW op \in Op, NEW h \in Handler, Asks(h, op)
  PROVE  /\ Fresh(op) \in Req /\ asked' \in 1..MaxRequest
         /\ Fresh(op).op = op /\ Fresh(op).id = asked'
<1>1. asked' \in 1..MaxRequest BY DEF TypeOK, Asks
<1>2. NoRequest \in Req BY DEF NoRequest, Req, Op, Content
<1>. HIDE DEF NoRequest
<1>3. \A i \in 0..MaxRequest : LET r == [NoRequest EXCEPT !.op = op, !.id = i]
                              IN r \in Req /\ r.op = op /\ r.id = i
  BY <1>2 DEF Req
<1>4. asked' \in 0..MaxRequest BY <1>1
<1>5. Fresh(op) \in Req /\ Fresh(op).op = op /\ Fresh(op).id = asked' BY <1>3, <1>4 DEF Fresh
<1>. QED BY <1>1, <1>5

\* A request that has read a content and carries it on.
Carrying(r, c) == [r EXCEPT !.old = c, !.content = c]

LEMMA CarryingIs ==
  ASSUME NEW r \in Req, NEW c \in Content
  PROVE  /\ Carrying(r, c) \in Req
         /\ Carrying(r, c).old = c /\ Carrying(r, c).content = c
         /\ Carrying(r, c).op = r.op /\ Carrying(r, c).binding = r.binding
         /\ Carrying(r, c).group = r.group /\ Carrying(r, c).set = r.set
BY DEF Req, Carrying

LEMMA KeepIs ==
  ASSUME req \in [Handler -> Req], NEW h \in Handler, NEW r \in Req, Keep(h, r)
  PROVE  req' \in [Handler -> Req] /\ req'[h] = r
BY DEF Keep

\* A request's step leaves the others where they are.
Alone(h) == \A u \in Handler : u # h => step'[u] = step[u] /\ req'[u] = req[u]

LEMMA EachAlone ==
  ASSUME TypeOK, ReqInv, NEW h \in Handler, Request(h) \/ Serve(h) \/ Stop(h)
  PROVE  Alone(h)
<1> USE DEF TypeOK, ReqInv, Alone, Go, Keep, Quiet, tables, history
<1>1. CASE Request(h)
  BY <1>1 DEF Request, Create, Update, Remove, Bind, Unbind, Upsert, Clear
<1>2. CASE Serve(h)
  BY <1>2 DEF Serve, Number, Snap, WriteSet, DeleteSet, InsertBinding, LookAtSet,
              ReadEffective, Unlink, ReadLocal, DropLocal, PutLocal
<1>3. CASE Stop(h)
  BY <1>3 DEF Stop
<1>. QED BY <1>1, <1>2, <1>3

\* What a step does to the request that takes it.
Moves(h) == /\ step' \in [Handler -> Step]
            /\ req' \in [Handler -> Req]
            /\ Filled(h)'

LEMMA RequestMoves ==
  ASSUME TypeOK, ReqInv, NEW h \in Handler, Request(h)
  PROVE  Moves(h)
<1> USE DEF TypeOK, ReqInv, Go, Keep, Quiet, Moves, Filled, Stage, Step, Op
<1>1. CASE Create(h) \/ Clear(h)
  BY <1>1 DEF Create, Clear, Asks
<1>2. CASE Update(h)
  <2>1. PICK s \in Set, c \in Content : \E v \in 1..sets[s].version :
           Keep(h, [Fresh("update") EXCEPT !.set = s, !.content = c, !.version = v,
                                           !.old = sets[s].content])
    BY <1>2 DEF Update
  <2>2. sets[s].content \in Content /\ sets[s].version \in Nat BY DEF SetRow
  <2>3. PICK v \in 1..sets[s].version :
           Keep(h, [Fresh("update") EXCEPT !.set = s, !.content = c, !.version = v,
                                           !.old = sets[s].content])
    BY <2>1
  <2>4. v \in Nat BY <2>2
  <2>5. Fresh("update") \in Req /\ Fresh("update").op = "update" BY <1>2, FreshIs DEF Update
  <2>. DEFINE q == [Fresh("update") EXCEPT !.set = s, !.content = c, !.version = v,
                                           !.old = sets[s].content]
  <2>6. q \in Req /\ q.op = "update" /\ q.set = s /\ q.content = c /\ q.old = sets[s].content
    BY <2>2, <2>4, <2>5 DEF Req
  <2>. HIDE DEF q
  <2>7. req' \in [Handler -> Req] /\ req'[h] = q BY <2>3, <2>6, KeepIs DEF q
  <2>8. step' \in [Handler -> Step] /\ step'[h] \in {"number", "write"} BY <1>2 DEF Update
  <2>. QED BY <2>2, <2>6, <2>7, <2>8
<1>3. CASE Remove(h)
  <2>1. Fresh("remove") \in Req /\ Fresh("remove").op = "remove" BY <1>3, FreshIs DEF Remove
  <2>. QED BY <1>3, <2>1 DEF Remove, Req
<1>4. CASE Bind(h)
  <2>1. Fresh("bind") \in Req /\ Fresh("bind").op = "bind" BY <1>4, FreshIs DEF Bind
  <2>2. PICK g \in Group, s \in Set : Keep(h, [Fresh("bind") EXCEPT !.group = g, !.set = s])
    BY <1>4 DEF Bind
  <2>. DEFINE q == [Fresh("bind") EXCEPT !.group = g, !.set = s]
  <2>3. q \in Req /\ q.op = "bind" /\ q.group = g /\ q.set = s BY <2>1 DEF Req
  <2>. HIDE DEF q
  <2>4. req' \in [Handler -> Req] /\ req'[h] = q BY <2>2, <2>3, KeepIs DEF q
  <2>6. step' \in [Handler -> Step] /\ step'[h] = "insert" BY <1>4 DEF Bind
  <2>. QED BY <2>3, <2>4, <2>6
<1>5. CASE Unbind(h)
  <2>1. Fresh("unbind") \in Req /\ Fresh("unbind").op = "unbind" BY <1>5, FreshIs DEF Unbind
  <2>2. PICK b \in bindings : Keep(h, [Fresh("unbind") EXCEPT
                                   !.binding = b.id, !.group = b.group, !.set = b.set])
    BY <1>5 DEF Unbind
  <2>3. b.id \in 0..MaxRequest /\ b.group \in Group /\ b.set \in Set BY DEF Binding
  <2>. DEFINE q == [Fresh("unbind") EXCEPT !.binding = b.id, !.group = b.group, !.set = b.set]
  <2>4. q \in Req /\ q.op = "unbind" /\ q.group = b.group /\ q.set = b.set
    BY <2>1, <2>3 DEF Req
  <2>. HIDE DEF q
  <2>5. req' \in [Handler -> Req] /\ req'[h] = q BY <2>2, <2>4, KeepIs DEF q
  <2>6. step' \in [Handler -> Step] /\ step'[h] = "effective" BY <1>5 DEF Unbind
  <2>. QED BY <2>3, <2>4, <2>5, <2>6
<1>6. CASE Upsert(h)
  <2>1. Fresh("upsert") \in Req /\ Fresh("upsert").op = "upsert" BY <1>6, FreshIs DEF Upsert
  <2>2. PICK g \in Group, c \in Content :
           Keep(h, [Fresh("upsert") EXCEPT !.group = g, !.content = c])
    BY <1>6 DEF Upsert
  <2>. DEFINE q == [Fresh("upsert") EXCEPT !.group = g, !.content = c]
  <2>3. q \in Req /\ q.op = "upsert" /\ q.group = g /\ q.content = c BY <2>1 DEF Req
  <2>. HIDE DEF q
  <2>4. req' \in [Handler -> Req] /\ req'[h] = q BY <2>2, <2>3, KeepIs DEF q
  <2>6. step' \in [Handler -> Step] /\ step'[h] = "old" BY <1>6 DEF Upsert
  <2>. QED BY <2>3, <2>4, <2>6
<1>. QED BY <1>1, <1>2, <1>3, <1>4, <1>5, <1>6 DEF Request

\* A request that begins is what it asks for.
LEMMA BeginsAs ==
  ASSUME TypeOK, ReqInv, NEW h \in Handler, Request(h), step'[h] # "idle"
  PROVE  \/ Update(h) /\ req'[h].op = "update"
         \/ Remove(h) /\ req'[h].op = "remove"
         \/ Bind(h) /\ req'[h].op = "bind"
         \/ Unbind(h) /\ req'[h].op = "unbind"
         \/ Upsert(h) /\ req'[h].op = "upsert"
<1>1. ASSUME NEW op \in Op, Asks(h, op) PROVE Fresh(op) \in Req /\ Fresh(op).op = op
  BY <1>1, FreshIs
<1> USE DEF ReqInv, Keep, Req, Op
<1>2. ~Create(h) /\ ~Clear(h) BY DEF Create, Clear, Asks
<1>3. ASSUME Update(h) PROVE req'[h].op = "update"
  <2>1. Fresh("update") \in Req /\ Fresh("update").op = "update" BY <1>1, <1>3 DEF Update
  <2>. QED BY <1>3, <2>1 DEF Update
<1>4. ASSUME Remove(h) PROVE req'[h].op = "remove"
  <2>1. Fresh("remove") \in Req /\ Fresh("remove").op = "remove" BY <1>1, <1>4 DEF Remove
  <2>. QED BY <1>4, <2>1 DEF Remove
<1>5. ASSUME Bind(h) PROVE req'[h].op = "bind"
  <2>1. Fresh("bind") \in Req /\ Fresh("bind").op = "bind" BY <1>1, <1>5 DEF Bind
  <2>. QED BY <1>5, <2>1 DEF Bind
<1>6. ASSUME Unbind(h) PROVE req'[h].op = "unbind"
  <2>1. Fresh("unbind") \in Req /\ Fresh("unbind").op = "unbind" BY <1>1, <1>6 DEF Unbind
  <2>. QED BY <1>6, <2>1 DEF Unbind
<1>7. ASSUME Upsert(h) PROVE req'[h].op = "upsert"
  <2>1. Fresh("upsert") \in Req /\ Fresh("upsert").op = "upsert" BY <1>1, <1>7 DEF Upsert
  <2>. QED BY <1>7, <2>1 DEF Upsert
<1>. QED BY <1>2, <1>3, <1>4, <1>5, <1>6, <1>7 DEF Request

\* The highest number in use exists, as the numbers have no gaps.
LEMMA NextNumber ==
  ASSUME Types, NEW h \in Handler, Number(h)
  PROVE  \E k \in Nat : /\ Used(SnapshotOf(h)) = 1..k
                        /\ req' = [req EXCEPT ![h] = [req[h] EXCEPT !.no = k + 1]]
<1>. DEFINE used == Used(SnapshotOf(h)) \cup {0}
            top == CHOOSE n \in used : \A m \in used : m <= n
<1>1. PICK k \in Nat : Used(SnapshotOf(h)) = 1..k
  BY SnapshotOfIs DEF Types, NumberInv, Number
<1>2. used = 0..k BY <1>1
<1>3. \E n \in used : \A m \in used : m <= n BY <1>2
<1>4. top \in used /\ \A m \in used : m <= top BY <1>3
<1>5. top = k BY <1>2, <1>4
<1>6. req' = [req EXCEPT ![h] = [req[h] EXCEPT !.no = 1 + top]]
  BY DEF Number, Keep, Used
<1>. HIDE DEF top
<1>7. 1 + top = k + 1 BY <1>5
<1>. QED BY <1>1, <1>6, <1>7

\* What an unbind makes of the set it reads.
LEMMA EffectiveIs ==
  ASSUME TypeOK, ReqInv, NEW h \in Handler, ReadEffective(h)
  PROVE  /\ req' \in [Handler -> Req] /\ step' \in [Handler -> Step]
         /\ req'[h].op = "unbind" /\ req'[h].binding = req[h].binding
         /\ req'[h].set = req[h].set /\ req[h].set \in Set
         /\ req'[h].group = req[h].group /\ req[h].group \in Group
         /\ req[h].op = "unbind" /\ step[h] = "effective"
         /\ \/ step'[h] = "unlink" /\ ~sets[req[h].set].live
            \/ /\ step'[h] \in {"number", "drop"} /\ sets[req[h].set].live
               /\ req'[h].content = sets[req[h].set].content
               /\ req'[h].old = sets[req[h].set].content
               /\ sets[req[h].set].content \in Content
<1> USE DEF TypeOK, ReqInv, Go
<1>1. step[h] = "effective" BY DEF ReadEffective
<1>2. req[h].op = "unbind" /\ req[h].set \in Set /\ req[h].group \in Group BY <1>1, StageIs
<1>. DEFINE c == sets[req[h].set].content
            q == Carrying(req[h], c)
<1>3. c \in Content BY <1>2 DEF SetRow
<1>0. req[h] \in Req OBVIOUS
<1>. HIDE DEF c
<1>4. /\ q \in Req /\ q.old = c /\ q.content = c /\ q.op = req[h].op
      /\ q.set = req[h].set /\ q.group = req[h].group /\ q.binding = req[h].binding
  BY <1>0, <1>3, CarryingIs
<1>. USE DEF c
<1>5. step' \in [Handler -> Step] BY DEF ReadEffective, Step
<1>6. CASE sets[req[h].set].live
  <2>1. Keep(h, q) /\ step'[h] \in {"number", "drop"} BY <1>6 DEF ReadEffective, Carrying
  <2>. HIDE DEF q
  <2>2. req' \in [Handler -> Req] /\ req'[h] = q BY <1>4, <2>1, KeepIs
  <2>. QED BY <1>1, <1>2, <1>3, <1>4, <1>5, <1>6, <2>1, <2>2
<1>7. CASE ~sets[req[h].set].live
  <2>1. step'[h] = "unlink" /\ req' = req BY <1>7 DEF ReadEffective
  <2>. QED BY <1>1, <1>2, <1>5, <1>7, <2>1
<1>. QED BY <1>6, <1>7

LEMMA ServeMoves ==
  ASSUME Types, NEW h \in Handler, Serve(h) \/ Stop(h)
  PROVE  Moves(h)
<1> USE DEF Types, TypeOK, ReqInv, Go, Keep, Quiet, Moves, Filled, Stage, Step, Op
<1>1. CASE Number(h)
  <2>1. PICK k \in Nat : req' = [req EXCEPT ![h] = [req[h] EXCEPT !.no = k + 1]]
    BY <1>1, NextNumber
  <2>. QED BY <1>1, <2>1 DEF Number, Req
<1>2. CASE Snap(h)
  BY <1>2 DEF Snap, After
<1>3. CASE WriteSet(h) \/ DeleteSet(h) \/ Unlink(h) \/ Stop(h)
  BY <1>3 DEF WriteSet, DeleteSet, Unlink, Stop
<1>4. CASE InsertBinding(h)
  BY <1>4 DEF InsertBinding
<1>5. CASE LookAtSet(h)
  <2>1. req[h].op = "bind" /\ req[h].set \in Set /\ req[h].group \in Group
    BY <1>5 DEF LookAtSet, Req
  <2>. DEFINE c == sets[req[h].set].content
              q == [req[h] EXCEPT !.old = c]
  <2>2. c \in Content BY <2>1 DEF SetRow
  <2>3. /\ q \in Req /\ q.old = c /\ q.op = "bind"
        /\ q.set = req[h].set /\ q.group = req[h].group
    BY <2>1, <2>2 DEF Req
  <2>4. (step'[h] = "idle" /\ req' = req) \/ (step'[h] = "number" /\ Keep(h, q))
    BY <1>5 DEF LookAtSet
  <2>5. step' \in [Handler -> Step] BY <1>5 DEF LookAtSet
  <2>. HIDE DEF q
  <2>. QED BY <2>1, <2>2, <2>3, <2>4, <2>5, KeepIs
<1>6. CASE ReadEffective(h)
  BY <1>6, EffectiveIs
<1>7. CASE ReadLocal(h)
  <2>1. req[h].op = "upsert" /\ req[h].content \in Content /\ req[h].group \in Group
    BY <1>7, StageIs DEF ReadLocal
  <2>. DEFINE o == local[req[h].group]
              q == [req[h] EXCEPT !.old = o]
  <2>2. o \in Content \cup {None} /\ (Files(o) => o \in Content) BY <2>1 DEF Files
  <2>3. /\ q \in Req /\ q.old = o /\ q.content = req[h].content /\ q.op = "upsert"
        /\ q.group = req[h].group
    BY <2>1, <2>2 DEF Req
  <2>4. Keep(h, q) /\ step'[h] \in {"number", "drop"} /\ (step'[h] = "number" => Files(o))
    BY <1>7 DEF ReadLocal
  <2>5. step' \in [Handler -> Step] BY <1>7 DEF ReadLocal
  <2>. HIDE DEF q, o
  <2>6. req' \in [Handler -> Req] /\ req'[h] = q BY <2>3, <2>4, KeepIs
  <2>. QED BY <2>1, <2>2, <2>3, <2>4, <2>5, <2>6
<1>8. CASE DropLocal(h)
  BY <1>8 DEF DropLocal
<1>9. CASE PutLocal(h)
  BY <1>9 DEF PutLocal
<1>. QED BY <1>1, <1>2, <1>3, <1>4, <1>5, <1>6, <1>7, <1>8, <1>9 DEF Serve

LEMMA ReqStep == ASSUME Types, [Next]_vars PROVE ReqInv' /\ step' \in [Handler -> Step]
<1>1. ASSUME NEW h \in Handler, Request(h) \/ Serve(h) \/ Stop(h)
      PROVE  ReqInv' /\ step' \in [Handler -> Step]
  <2>1. Alone(h) /\ Moves(h) BY <1>1, EachAlone, RequestMoves, ServeMoves DEF Types
  <2>2. \A u \in Handler : u # h => Filled(u)' BY <2>1 DEF Alone, Filled, Types, ReqInv
  <2>. QED BY <2>1, <2>2 DEF Moves, ReqInv
<1>2. CASE UNCHANGED vars
  BY <1>2 DEF Types, TypeOK, ReqInv, Filled, vars
<1>. QED BY <1>1, <1>2 DEF Next

LEMMA NextRow ==
  ASSUME NEW r \in SetRow, NEW c \in Content
  PROVE  /\ [r EXCEPT !.content = c, !.version = r.version + 1] \in SetRow
         /\ [r EXCEPT !.live = FALSE, !.version = r.version + 1] \in SetRow
<1>. DEFINE v == r.version + 1
<1>1. v \in Nat BY DEF SetRow
<1>. HIDE DEF v
<1>2. /\ [r EXCEPT !.content = c, !.version = v] \in SetRow
      /\ [r EXCEPT !.live = FALSE, !.version = v] \in SetRow
  BY <1>1 DEF SetRow
<1>. QED BY <1>2 DEF v

LEMMA WriteType ==
  ASSUME Types, NEW h \in Handler, WriteSet(h)
  PROVE  sets' \in [Set -> SetRow] /\ replaced' \in [Set -> SUBSET Content]
<1> USE DEF Types, TypeOK, ReqInv
<1>. DEFINE s == req[h].set
<1>1. step[h] = "write" BY DEF WriteSet
<1>2. req[h].op = "update" BY <1>1 DEF Filled, Stage, Req, Op
<1>3. s \in Set /\ req[h].content \in Content BY <1>1, <1>2 DEF Filled
<1>4. sets[s] \in SetRow /\ replaced[s] \subseteq Content BY <1>3
<1>5. CASE sets[s].live /\ sets[s].version = req[h].version
  <2>1. [sets[s] EXCEPT !.content = req[h].content, !.version = sets[s].version + 1] \in SetRow
    BY <1>3, <1>4, NextRow
  <2>2. sets' = [sets EXCEPT ![s] = [sets[s] EXCEPT !.content = req[h].content,
                                                   !.version = sets[s].version + 1]]
    BY <1>5, <1>4 DEF WriteSet, SetRow
  <2>3. replaced[s] \cup ({sets[s].content} \ {req[h].content}) \subseteq Content
    BY <1>4 DEF SetRow
  <2>4. replaced' \in [Set -> SUBSET Content] BY <1>5, <2>3 DEF WriteSet
  <2>. QED BY <2>1, <2>2, <2>4
<1>6. CASE ~(sets[s].live /\ sets[s].version = req[h].version)
  BY <1>6 DEF WriteSet
<1>. QED BY <1>5, <1>6

LEMMA TypeStep == ASSUME Types, BindingInv, [Next]_vars PROVE TypeOK'
<1> USE DEF Types, TypeOK, Go, Keep, Quiet, tables, history, Begins, Writes
<1>1. ReqInv' /\ step' \in [Handler -> Step] BY ReqStep
<1>2. \A h \in Handler : req'[h].op \in Op /\ req'[h].id \in 0..MaxRequest
  BY <1>1 DEF ReqInv, Req
<1>3. ASSUME NEW h \in Handler, Create(h) PROVE TypeOK'
  <2>1. sets' \in [Set -> SetRow] BY <1>3 DEF Create, SetRow
  <2>. QED BY <1>1, <1>2, <1>3, <2>1 DEF Create, Asks
<1>4. ASSUME NEW h \in Handler,
             Update(h) \/ Remove(h) \/ Bind(h) \/ Unbind(h) \/ Upsert(h)
      PROVE  TypeOK'
  <2>1. /\ UNCHANGED <<sets, bindings, local, snaps, replaced, missed, had>>
        /\ calm' = calm \cup {h} /\ asked < MaxRequest /\ asked' = asked + 1
    BY <1>4 DEF Update, Remove, Bind, Unbind, Upsert, Asks
  <2>2. asked' \in 0..MaxRequest BY <2>1
  <2>. QED BY <1>1, <1>2, <2>1, <2>2
<1>5. ASSUME NEW h \in Handler, Clear(h) PROVE TypeOK'
  BY <1>1, <1>2, <1>5 DEF Clear, Asks
<1>6. ASSUME NEW h \in Handler, Number(h) \/ LookAtSet(h) \/ ReadEffective(h) \/ ReadLocal(h)
      PROVE  TypeOK'
  BY <1>1, <1>2, <1>6 DEF Number, LookAtSet, ReadEffective, ReadLocal
<1>7. ASSUME NEW h \in Handler, Snap(h) PROVE TypeOK'
  <2>1. SnapshotOf(h) \in Target /\ req[h].no \in Nat \ {0} /\ req[h].old \in Content
    BY <1>7, SnapshotOfIs DEF Snap, ReqInv, Filled, Req
  <2>2. [target |-> SnapshotOf(h), no |-> req[h].no, content |-> req[h].old] \in Snapshot
    BY <2>1 DEF Snapshot
  <2>3. snaps' \subseteq Snapshot /\ missed' \in BOOLEAN BY <1>7, <2>2 DEF Snap
  <2>. QED BY <1>1, <1>2, <1>7, <2>3 DEF Snap
<1>8. ASSUME NEW h \in Handler, WriteSet(h) PROVE TypeOK'
  <2>1. calm' \subseteq Handler BY <1>8 DEF WriteSet
  <2>. QED BY <1>1, <1>2, <1>8, <2>1, WriteType DEF WriteSet
<1>9. ASSUME NEW h \in Handler, DeleteSet(h) PROVE TypeOK'
  <2>1. \A s \in Set : [sets[s] EXCEPT !.live = FALSE, !.version = sets[s].version + 1] \in SetRow
    <3>1. 0 \in Content BY DEF Content
    <3>. QED BY <3>1, NextRow
  <2>2. sets' \in [Set -> SetRow]
    <3>1. CASE sets' = sets BY <3>1
    <3>2. CASE sets' = [sets EXCEPT ![req[h].set] = [sets[req[h].set] EXCEPT
                           !.live = FALSE, !.version = sets[req[h].set].version + 1]]
      BY <2>1, <3>2
    <3>3. sets[req[h].set].live =>
            sets' = [sets EXCEPT ![req[h].set] = [sets[req[h].set] EXCEPT
                           !.live = FALSE, !.version = sets[req[h].set].version + 1]]
      <4>1. req[h].set \in Set
        BY <1>9 DEF DeleteSet, ReqInv, Filled, Stage, Req, Op
      <4>. QED BY <1>9, <4>1 DEF DeleteSet, SetRow
    <3>. QED BY <1>9, <3>1, <3>2, <3>3 DEF DeleteSet
  <2>3. calm' \subseteq Handler BY <1>9 DEF DeleteSet
  <2>. QED BY <1>1, <1>2, <1>9, <2>2, <2>3 DEF DeleteSet
<1>10. ASSUME NEW h \in Handler, InsertBinding(h) PROVE TypeOK'
  <2>1. req[h].id \in 1..MaxRequest BY <1>10 DEF InsertBinding, BindingInv
  <2>2. req[h].group \in Group /\ req[h].set \in Set
    BY <1>10, StageIs DEF InsertBinding
  <2>3. bindings' \subseteq Binding BY <1>10, <2>1, <2>2 DEF InsertBinding, Binding
  <2>. QED BY <1>1, <1>2, <1>10, <2>3 DEF InsertBinding
<1>11. ASSUME NEW h \in Handler, Unlink(h) PROVE TypeOK'
  BY <1>1, <1>2, <1>11 DEF Unlink
<1>12. ASSUME NEW h \in Handler, DropLocal(h) PROVE TypeOK'
  BY <1>1, <1>2, <1>12 DEF DropLocal
<1>13. ASSUME NEW h \in Handler, PutLocal(h) PROVE TypeOK'
  <2>1. req[h].group \in Group /\ req[h].content \in Content
    BY <1>13, StageIs DEF PutLocal
  <2>. QED BY <1>1, <1>2, <1>13, <2>1 DEF PutLocal
<1>14. ASSUME NEW h \in Handler, Stop(h) PROVE TypeOK'
  BY <1>1, <1>2, <1>14 DEF Stop
<1>15. CASE UNCHANGED vars
  BY <1>15 DEF vars
<1>. QED
  BY <1>3, <1>4, <1>5, <1>6, <1>7, <1>8, <1>9, <1>10, <1>11, <1>12, <1>13, <1>14, <1>15
     DEF Next, Request, Serve

-----------------------------------------------------------------------------
(* Numbers.                                                                *)

LEMMA IsNext ==
  ASSUME NEW m \in Nat \ {0}, NEW n \in Nat, m \notin 1..n, m <= n + 1
  PROVE  m = n + 1
OBVIOUS

LEMMA NumberStep == ASSUME Types, [Next]_vars PROVE NumberInv'
<1> USE DEF Types, TypeOK, Go, Keep, Quiet, tables, history
<1>1. ASSUME NEW h \in Handler, Number(h) PROVE NumberInv'
  <2>1. snaps' = snaps /\ Alone(h) BY <1>1, EachAlone DEF Number, Serve
  <2>2. PICK k \in Nat : /\ Used(SnapshotOf(h)) = 1..k
                         /\ req' = [req EXCEPT ![h] = [req[h] EXCEPT !.no = k + 1]]
    BY <1>1, NextNumber
  <2>3. req'[h].no = k + 1 /\ SnapshotOf(h)' = SnapshotOf(h)
    BY <2>2 DEF SnapshotOf, ReqInv, Req
  <2>4. \A t \in Target : Used(t)' = Used(t) BY <2>1 DEF Used
  <2>5. \A u \in Handler : u # h => step'[u] = step[u] /\ SnapshotOf(u)' = SnapshotOf(u)
                                   /\ req'[u].no = req[u].no
    BY <2>1 DEF Alone, SnapshotOf
  <2>6. SUFFICES ASSUME NEW t \in Target
        PROVE  \E n \in Nat : /\ Used(t)' = 1..n
                              /\ \A u \in Handler : step'[u] = "snapshot" /\ SnapshotOf(u)' = t
                                                      => req'[u].no <= n + 1
    BY DEF NumberInv
  <2>7. PICK n \in Nat : /\ Used(t) = 1..n
                         /\ \A u \in Handler : step[u] = "snapshot" /\ SnapshotOf(u) = t
                                                 => req[u].no <= n + 1
    BY DEF NumberInv
  <2>8. SnapshotOf(h) = t => k = n
    <3>1. ASSUME 1..k = 1..n PROVE k = n BY <3>1
    <3>. QED BY <2>2, <2>7, <3>1
  <2>. QED BY <2>3, <2>4, <2>5, <2>7, <2>8
<1>2. ASSUME NEW h \in Handler, Snap(h) PROVE NumberInv'
  <2>1. Alone(h) BY <1>2, EachAlone DEF Serve
  <2>. DEFINE row == [target |-> SnapshotOf(h), no |-> req[h].no, content |-> req[h].old]
  <2>2. req[h].no \in Nat \ {0} /\ step'[h] # "snapshot" /\ step[h] = "snapshot"
    BY <1>2 DEF Snap, After, ReqInv, Filled, Req
  <2>3. \A u \in Handler : u # h => step'[u] = step[u] /\ SnapshotOf(u)' = SnapshotOf(u)
                                   /\ req'[u].no = req[u].no
    BY <2>1 DEF Alone, SnapshotOf
  <2>4. \A u \in Handler : req[u].no \in Nat BY DEF ReqInv, Req
  <2>5. SUFFICES ASSUME NEW t \in Target
        PROVE  \E n \in Nat : /\ Used(t)' = 1..n
                              /\ \A u \in Handler : step'[u] = "snapshot" /\ SnapshotOf(u)' = t
                                                      => req'[u].no <= n + 1
    BY DEF NumberInv
  <2>6. PICK n \in Nat : /\ Used(t) = 1..n
                         /\ \A u \in Handler : step[u] = "snapshot" /\ SnapshotOf(u) = t
                                                 => req[u].no <= n + 1
    BY DEF NumberInv
  <2>7. CASE Used(t)' = Used(t)
    BY <2>2, <2>3, <2>6, <2>7
  <2>8. CASE Used(t)' # Used(t)
    <3>1. snaps' = snaps \cup {row} /\ SnapshotOf(h) = t BY <1>2, <2>8 DEF Snap, Used
    <3>2. \A x \in snaps : ~(x.target = t /\ x.no = req[h].no)
      BY <1>2, <2>8, <3>1 DEF Snap, Used
    <3>3. req[h].no \notin 1..n BY <2>6, <3>2 DEF Used
    <3>4. req[h].no <= n + 1 BY <2>2, <2>6, <3>1
    <3>5. req[h].no = n + 1 BY <2>2, <2>6, <3>3, <3>4, IsNext
    <3>6. row.target = t /\ row.no = req[h].no BY <3>1
    <3>. HIDE DEF row
    <3>7. Used(t)' = Used(t) \cup {req[h].no} BY <3>1, <3>6 DEF Used
    <3>8. Used(t)' = 1..(n + 1) BY <2>6, <3>5, <3>7
    <3>9. \A u \in Handler : step'[u] = "snapshot" /\ SnapshotOf(u)' = t
                             => req'[u].no <= (n + 1) + 1
      BY <2>2, <2>3, <2>4, <2>6
    <3>. QED BY <3>8, <3>9
  <2>. QED BY <2>7, <2>8
<1>3. ASSUME NEW h \in Handler, Request(h) \/ Serve(h) \/ Stop(h), ~Number(h), ~Snap(h)
      PROVE  NumberInv'
  <2>1. Alone(h) BY <1>3, EachAlone
  <2>2. snaps' = snaps /\ step'[h] # "snapshot"
    BY <1>3 DEF Request, Serve, Create, Update, Remove, Bind, Unbind, Upsert, Clear, Stop,
          WriteSet, DeleteSet, InsertBinding, LookAtSet, ReadEffective, Unlink, ReadLocal,
          DropLocal, PutLocal, Asks
  <2>3. \A t \in Target : Used(t)' = Used(t) BY <2>2 DEF Used
  <2>4. \A u \in Handler : u # h => step'[u] = step[u] /\ SnapshotOf(u)' = SnapshotOf(u)
                                   /\ req'[u].no = req[u].no
    BY <2>1 DEF Alone, SnapshotOf
  <2>. QED BY <2>2, <2>3, <2>4 DEF NumberInv
<1>4. CASE UNCHANGED vars
  BY <1>4 DEF vars, NumberInv, SnapshotOf, Used
<1>. QED BY <1>1, <1>2, <1>3, <1>4 DEF Next

-----------------------------------------------------------------------------
(* Updates and the history of a set.                                       *)

LEMMA SetsType ==
  ASSUME Types, BindingInv, [Next]_vars PROVE sets' \in [Set -> SetRow]
BY TypeStep DEF TypeOK

\* A set keeps its content as long as it keeps its version.
LEMMA VersionsGrow ==
  ASSUME Types, BindingInv, [Next]_vars, NEW s \in Set
  PROVE  /\ sets'[s].version >= sets[s].version
         /\ sets'[s].version = sets[s].version => sets'[s] = sets[s]
<1> USE DEF Types, TypeOK
<1>0. sets[s].version \in Nat /\ sets[s] \in SetRow BY DEF SetRow
<1>1. CASE sets' = sets BY <1>0, <1>1
<1>2. ASSUME NEW h \in Handler, Create(h)
      PROVE  sets'[s] = sets[s] \/ sets'[s].version > sets[s].version
  BY <1>2 DEF Create
<1>3. ASSUME NEW h \in Handler, WriteSet(h)
      PROVE  sets'[s] = sets[s] \/ sets'[s].version > sets[s].version
  BY <1>0, <1>3 DEF WriteSet, SetRow
<1>4. ASSUME NEW h \in Handler, DeleteSet(h)
      PROVE  sets'[s] = sets[s] \/ sets'[s].version > sets[s].version
  BY <1>0, <1>4 DEF DeleteSet, SetRow
<1>5. sets' = sets \/ \E h \in Handler : Create(h) \/ WriteSet(h) \/ DeleteSet(h)
  BY DEF Next, Request, Serve, Update, Remove, Bind, Unbind, Upsert, Clear, Stop,
         Number, Snap, InsertBinding, LookAtSet, ReadEffective, Unlink, ReadLocal,
         DropLocal, PutLocal, Quiet, tables, vars
<1>6. sets'[s].version \in Nat BY SetsType DEF SetRow
<1>. QED BY <1>0, <1>1, <1>2, <1>3, <1>4, <1>5, <1>6

LEMMA NothingForgotten ==
  ASSUME Types, [Next]_vars
  PROVE  snaps \subseteq snaps' /\ (missed => missed')
BY DEF Next, Request, Serve, Create, Update, Remove, Bind, Unbind, Upsert, Clear, Stop,
       Number, Snap, WriteSet, DeleteSet, InsertBinding, LookAtSet, ReadEffective, Unlink,
       ReadLocal, DropLocal, PutLocal, Quiet, tables, history, vars, Types, TypeOK

\* What UpdateInv says of one request.
Knows(h) == step[h] # "idle" /\ req[h].op = "update" =>
  /\ req[h].version > 0 /\ req[h].version <= sets[req[h].set].version
  /\ req[h].version = sets[req[h].set].version => sets[req[h].set].content = req[h].old
  /\ step[h] = "write" => missed \/ ~Files(req[h].old) \/ req[h].old = req[h].content
                            \/ KeptIn(req[h].set, req[h].old)

LEMMA KnowsStays ==
  ASSUME Types, BindingInv, [Next]_vars, NEW h \in Handler, Knows(h), req'[h] = req[h],
         step'[h] = step[h] \/ step'[h] \in {"idle", "number", "snapshot"},
         step[h] = "idle" => step'[h] = "idle"
  PROVE  Knows(h)'
<1>1. SUFFICES ASSUME step'[h] # "idle", req[h].op = "update" PROVE Knows(h)'
  BY DEF Knows
<1>2. req[h].set \in Set /\ step[h] # "idle" /\ req[h].version \in Nat
  BY <1>1 DEF Types, ReqInv, Filled, Req
<1>. DEFINE s == req[h].set
<1>3. sets'[s].version >= sets[s].version
      /\ (sets'[s].version = sets[s].version => sets'[s] = sets[s])
  BY <1>2, VersionsGrow
<1>4. sets[s].version \in Nat /\ sets'[s].version \in Nat
  BY <1>2, SetsType DEF Types, TypeOK, SetRow
<1>5. KeptIn(s, req[h].old) => KeptIn(s, req[h].old)'
  BY NothingForgotten DEF KeptIn
<1>. QED BY <1>1, <1>2, <1>3, <1>4, <1>5, NothingForgotten DEF Knows

LEMMA UpdateStep == ASSUME Types, BindingInv, UpdateInv, [Next]_vars PROVE UpdateInv'
<1> USE DEF Types, Go, Keep
<1>0. \A h \in Handler : Knows(h) BY DEF UpdateInv, Knows
<1>1. ASSUME NEW h \in Handler, Update(h) PROVE Knows(h)'
  <2>0. PICK s \in Set, c \in Content : \E v \in 1..sets[s].version :
          /\ req' = [req EXCEPT ![h] = [Fresh("update") EXCEPT !.set = s, !.content = c,
                                        !.version = v, !.old = sets[s].content]]
          /\ step' = [step EXCEPT ![h] = IF c # sets[s].content /\ Files(sets[s].content)
                                         THEN "number" ELSE "write"]
    BY <1>1 DEF Update
  <2>1. PICK v \in 1..sets[s].version :
          /\ req' = [req EXCEPT ![h] = [Fresh("update") EXCEPT !.set = s, !.content = c,
                                        !.version = v, !.old = sets[s].content]]
          /\ step' = [step EXCEPT ![h] = IF c # sets[s].content /\ Files(sets[s].content)
                                         THEN "number" ELSE "write"]
    BY <2>0
  <2>2. Fresh("update") \in Req BY <1>1, FreshIs DEF Update, Op
  <2>3. /\ req'[h].set = s /\ req'[h].content = c /\ req'[h].version = v
        /\ req'[h].old = sets[s].content
    BY <2>1, <2>2 DEF ReqInv, Req
  <2>4. sets' = sets BY <1>1 DEF Update, Quiet, tables
  <2>5. step'[h] = "write" => c = sets[s].content \/ ~Files(sets[s].content)
    BY <2>1 DEF TypeOK
  <2>6. sets[s].version \in Nat BY DEF TypeOK, SetRow
  <2>. QED BY <2>3, <2>4, <2>5, <2>6 DEF Knows
<1>2. ASSUME NEW h \in Handler, Number(h) PROVE Knows(h)'
  <2>1. PICK k \in Nat : req' = [req EXCEPT ![h] = [req[h] EXCEPT !.no = k + 1]]
    BY <1>2, NextNumber
  <2>2. /\ req'[h].op = req[h].op /\ req'[h].set = req[h].set /\ req'[h].version = req[h].version
        /\ req'[h].old = req[h].old /\ req'[h].content = req[h].content
    BY <2>1 DEF ReqInv, Req
  <2>3. sets' = sets /\ step[h] = "number" /\ step'[h] = "snapshot"
    BY <1>2 DEF Number, Quiet, tables, TypeOK
  <2>. QED BY <1>0, <2>2, <2>3 DEF Knows
<1>3. ASSUME NEW h \in Handler, Snap(h) PROVE Knows(h)'
  <2>1. SUFFICES ASSUME req[h].op = "update" PROVE Knows(h)'
    BY <1>3 DEF Knows, Snap
  <2>2. SnapshotOf(h) = <<"config_set", req[h].set>> BY <1>3, <2>1, SnapshotOfIs DEF Snap
  <2>. DEFINE row == [target |-> SnapshotOf(h), no |-> req[h].no, content |-> req[h].old]
  <2>3. missed' \/ row \in snaps' BY <1>3 DEF Snap
  <2>4. missed' \/ KeptIn(req[h].set, req[h].old)' BY <1>3, <2>2, <2>3 DEF KeptIn, Snap
  <2>5. sets' = sets /\ req' = req /\ step[h] = "snapshot" BY <1>3 DEF Snap
  <2>. QED BY <1>0, <2>1, <2>4, <2>5 DEF Knows
<1>4. ASSUME NEW h \in Handler, Request(h) \/ Serve(h) \/ Stop(h),
             ~Update(h), ~Number(h), ~Snap(h)
      PROVE  Knows(h)'
  <2>1. step'[h] = "idle" \/ req'[h].op # "update"
    <3>1. CASE Request(h) BY <1>4, <3>1, BeginsAs
    <3>2. CASE WriteSet(h) \/ DeleteSet(h) \/ Unlink(h) \/ Stop(h)
      BY <3>2 DEF WriteSet, DeleteSet, Unlink, Stop, TypeOK
    <3>3. CASE InsertBinding(h) \/ LookAtSet(h) \/ ReadEffective(h) \/ ReadLocal(h)
               \/ DropLocal(h) \/ PutLocal(h)
      <4>1. req[h].op # "update"
        BY <3>3, StageIs DEF InsertBinding, LookAtSet, ReadEffective, ReadLocal, DropLocal, PutLocal
      <4>2. req'[h].op = req[h].op
        <5>1. CASE InsertBinding(h) \/ DropLocal(h) \/ PutLocal(h)
          BY <5>1 DEF InsertBinding, DropLocal, PutLocal
        <5>2. CASE LookAtSet(h)
          BY <5>2 DEF LookAtSet, ReqInv, Req
        <5>3. CASE ReadEffective(h)
          BY <5>3, EffectiveIs
        <5>4. CASE ReadLocal(h)
          BY <5>4 DEF ReadLocal, ReqInv, Req
        <5>. QED BY <3>3, <5>1, <5>2, <5>3, <5>4
      <4>. QED BY <4>1, <4>2
    <3>. QED BY <1>4, <3>1, <3>2, <3>3 DEF Serve
  <2>. QED BY <2>1 DEF Knows
<1>5. ASSUME NEW h \in Handler, Request(h) \/ Serve(h) \/ Stop(h) PROVE UpdateInv'
  <2>1. \A u \in Handler : u # h => Knows(u)'
    BY <1>0, <1>5, EachAlone, KnowsStays DEF Alone
  <2>2. Knows(h)' BY <1>1, <1>2, <1>3, <1>4, <1>5
  <2>. QED BY <2>1, <2>2 DEF UpdateInv, Knows
<1>6. CASE UNCHANGED vars
  <2>1. \A u \in Handler : Knows(u)' BY <1>0, <1>6, KnowsStays DEF vars
  <2>. QED BY <2>1 DEF UpdateInv, Knows
<1>. QED BY <1>5, <1>6 DEF Next

LEMMA HistoryStep ==
  ASSUME Types, BindingInv, UpdateInv, HistoryKept, [Next]_vars PROVE HistoryKept'
<1>1. TypeOK' BY TypeStep
<1>2. SUFFICES ASSUME ~missed', NEW s \in Set, NEW c \in replaced'[s], Files(c)
               PROVE  KeptIn(s, c)'
  BY <1>1, <1>2 DEF HistoryKept, KeptIn, Files
<1>3. ~missed /\ \A k : KeptIn(s, k) => KeptIn(s, k)' BY <1>2, NothingForgotten DEF KeptIn
<1>4. CASE c \in replaced[s]
  BY <1>2, <1>3, <1>4 DEF HistoryKept, KeptIn
<1>5. ASSUME NEW h \in Handler, WriteSet(h), c \notin replaced[s] PROVE KeptIn(s, c)'
  <2>1. req[h].set = s /\ sets[s].version = req[h].version
        /\ c = sets[s].content /\ c # req[h].content
    BY <1>5 DEF WriteSet, Types, TypeOK
  <2>2. step[h] = "write" /\ req[h].op = "update"
    BY <1>5 DEF WriteSet, Types, ReqInv, Filled, Stage, Req, Op
  <2>3. c = req[h].old /\ KeptIn(s, req[h].old) BY <1>2, <1>3, <2>1, <2>2 DEF UpdateInv
  <2>. QED BY <1>3, <2>3
<1>6. replaced' = replaced \/ \E h \in Handler : WriteSet(h)
  BY DEF Next, Request, Serve, Create, Update, Remove, Bind, Unbind, Upsert, Clear, Stop,
         Number, Snap, DeleteSet, InsertBinding, LookAtSet, ReadEffective, Unlink,
         ReadLocal, DropLocal, PutLocal, Quiet, tables, history, vars
<1>. QED BY <1>2, <1>4, <1>5, <1>6

-----------------------------------------------------------------------------
(* Local configurations.                                                   *)

LEMMA LocalStep == ASSUME Types, LocalKept, [Next]_vars PROVE LocalKept'
<1> USE DEF Types, TypeOK, Go, Keep, Quiet, tables, history
<1>1. ASSUME NEW h \in Handler, Request(h) \/ Serve(h) \/ Stop(h),
             local' = local, had' = had, step[h] # "put"
      PROVE  LocalKept'
  BY <1>1, EachAlone DEF LocalKept, Alone
<1>2. ASSUME NEW h \in Handler, Stop(h) PROVE LocalKept'
  <2>1. Alone(h) /\ req' = req /\ local' = local BY <1>2, EachAlone DEF Stop
  <2>. QED BY <1>2, <2>1 DEF LocalKept, Alone, Stop
<1>3. ASSUME NEW h \in Handler, Clear(h) PROVE LocalKept'
  <2>1. PICK g \in Group : local' = [local EXCEPT ![g] = None] /\ had' = had \ {g}
    BY <1>3 DEF Clear
  <2>. QED BY <1>3, <2>1 DEF LocalKept, Clear
<1>4. ASSUME NEW h \in Handler, DropLocal(h) PROVE LocalKept'
  <2>1. req[h].group \in Group BY <1>4, StageIs DEF DropLocal
  <2>2. step'[h] = "put" /\ req' = req /\ \A u \in Handler : u # h => step'[u] = step[u]
    BY <1>4 DEF DropLocal
  <2>3. \A g \in Group : g # req[h].group => local'[g] = local[g] BY <1>4 DEF DropLocal
  <2>4. had' = had /\ step[h] = "drop" BY <1>4 DEF DropLocal
  <2>. QED BY <2>2, <2>3, <2>4 DEF LocalKept
<1>5. ASSUME NEW h \in Handler, PutLocal(h) PROVE LocalKept'
  <2>1. req[h].group \in Group /\ req[h].content \in Content
    BY <1>5, StageIs DEF PutLocal
  <2>2. req' = req /\ \A u \in Handler : u # h => step'[u] = step[u]
    BY <1>5 DEF PutLocal
  <2>3. local'[req[h].group] # None
    BY <1>5, <2>1 DEF PutLocal
  <2>4. \A g \in Group : g # req[h].group => local'[g] = local[g] BY <1>5 DEF PutLocal
  <2>5. had' \subseteq had \cup {req[h].group} BY <1>5 DEF PutLocal
  <2>. QED BY <2>2, <2>3, <2>4, <2>5 DEF LocalKept
<1>6. ASSUME NEW h \in Handler, Request(h) \/ Serve(h), ~Clear(h), ~DropLocal(h), ~PutLocal(h)
      PROVE  local' = local /\ had' = had /\ step[h] # "put"
  BY <1>6 DEF Request, Serve, Create, Update, Remove, Bind, Unbind, Upsert, Asks, Number, Snap,
        WriteSet, DeleteSet, InsertBinding, LookAtSet, ReadEffective, Unlink, ReadLocal
<1>7. CASE UNCHANGED vars
  BY <1>7 DEF LocalKept, vars
<1>. QED BY <1>1, <1>2, <1>3, <1>4, <1>5, <1>6, <1>7 DEF Next, Request, Serve

-----------------------------------------------------------------------------
(* Bindings.                                                               *)

\* The request of an unbind stays what it is.
SameUnbind(h) == step'[h] # "idle" /\ req'[h].op = "unbind" =>
  /\ step[h] # "idle" /\ req[h].op = "unbind"
  /\ req'[h].binding = req[h].binding /\ req'[h].group = req[h].group
  /\ req'[h].set = req[h].set

LEMMA ServesSame ==
  ASSUME Types, NEW h \in Handler, Serve(h) \/ Stop(h)
  PROVE  SameUnbind(h) /\ step'[h] # "insert" /\ asked' = asked /\ step[h] # "idle"
<1> USE DEF Types, TypeOK, ReqInv, Req, Go, Keep, SameUnbind
<1>1. CASE Number(h)
  BY <1>1, NextNumber DEF Number
<1>2. CASE WriteSet(h) \/ DeleteSet(h) \/ InsertBinding(h) \/ Unlink(h) \/ DropLocal(h)
           \/ PutLocal(h) \/ Stop(h)
  BY <1>2 DEF WriteSet, DeleteSet, InsertBinding, Unlink, DropLocal, PutLocal, Stop
<1>3. CASE Snap(h)
  BY <1>3 DEF Snap, After
<1>4. CASE LookAtSet(h)
  BY <1>4 DEF LookAtSet
<1>5. CASE ReadEffective(h)
  <2>1. asked' = asked BY <1>5 DEF ReadEffective
  <2>. QED BY <1>5, <2>1, EffectiveIs
<1>6. CASE ReadLocal(h)
  BY <1>6 DEF ReadLocal
<1>. QED BY <1>1, <1>2, <1>3, <1>4, <1>5, <1>6 DEF Serve

LEMMA BindingStays ==
  ASSUME Types, BindingInv, NEW h \in Handler, Alone(h), SameUnbind(h), step'[h] # "insert",
         bindings' \subseteq bindings, asked' \in Nat, asked' >= asked
  PROVE  BindingInv'
<1>1. \A u \in Handler : step'[u] = "insert" => step[u] = "insert" /\ req'[u].id = req[u].id
  BY DEF Alone
<1>2. \A u \in Handler : step'[u] # "idle" /\ req'[u].op = "unbind" =>
        /\ step[u] # "idle" /\ req[u].op = "unbind"
        /\ req'[u].binding = req[u].binding /\ req'[u].group = req[u].group
        /\ req'[u].set = req[u].set
  BY DEF Alone, SameUnbind
<1>3. asked \in Nat /\ \A b \in bindings : b.id \in Nat
  BY DEF Types, TypeOK, Binding
<1>4. \A u \in Handler : req[u].id \in Nat /\ req[u].binding \in Nat
  BY DEF Types, ReqInv, Req
<1>5. \A b, c \in bindings' : b.group = c.group \/ b.id = c.id => b = c
  BY DEF BindingInv
<1>6. \A b \in bindings' : b.id <= asked'
  BY <1>3 DEF BindingInv
<1>7. \A u \in Handler : step'[u] = "insert" =>
        /\ req'[u].id \in 1..asked'
        /\ \A b \in bindings' : b.id # req'[u].id
        /\ \A v \in Handler : step'[v] = "insert" /\ req'[v].id = req'[u].id => v = u
  BY <1>1, <1>3, <1>4 DEF BindingInv
<1>8. \A u \in Handler : step'[u] # "idle" /\ req'[u].op = "unbind" =>
        /\ req'[u].binding <= asked'
        /\ \A b \in bindings' : b.id = req'[u].binding
                                => b.group = req'[u].group /\ b.set = req'[u].set
        /\ \A v \in Handler : step'[v] = "insert" => req'[v].id # req'[u].binding
  BY <1>1, <1>2, <1>3, <1>4 DEF BindingInv
<1>. QED BY <1>5, <1>6, <1>7, <1>8 DEF BindingInv

LEMMA BindingStep == ASSUME Types, BindingInv, [Next]_vars PROVE BindingInv'
<1> USE DEF Types, Go, Keep, Quiet, tables
<1>0. asked \in Nat BY DEF TypeOK
<1>1. ASSUME NEW h \in Handler, Bind(h) PROVE BindingInv'
  <2>1. Alone(h) BY <1>1, EachAlone DEF Request
  <2>2. Fresh("bind") \in Req /\ Fresh("bind").op = "bind" /\ Fresh("bind").id = asked'
    BY <1>1, FreshIs DEF Bind, Op
  <2>3. req'[h].op = "bind" /\ req'[h].id = asked'
    BY <1>1, <2>2 DEF Bind, ReqInv, Req
  <2>4. bindings' = bindings /\ asked' = asked + 1 BY <1>1 DEF Bind, Asks
  <2>5. \A u \in Handler : req[u].id \in Nat /\ req[u].binding \in Nat BY DEF ReqInv, Req
  <2>6. \A b \in bindings : b.id \in Nat BY DEF TypeOK, Binding
  <2>7. \A u \in Handler : step'[u] = "insert" =>
          /\ req'[u].id \in 1..asked'
          /\ \A b \in bindings' : b.id # req'[u].id
          /\ \A v \in Handler : step'[v] = "insert" /\ req'[v].id = req'[u].id => v = u
    BY <1>0, <2>1, <2>3, <2>4, <2>5, <2>6 DEF BindingInv, Alone
  <2>8. \A u \in Handler : step'[u] # "idle" /\ req'[u].op = "unbind" =>
          /\ req'[u].binding <= asked'
          /\ \A b \in bindings' : b.id = req'[u].binding
                                  => b.group = req'[u].group /\ b.set = req'[u].set
          /\ \A v \in Handler : step'[v] = "insert" => req'[v].id # req'[u].binding
    BY <1>0, <2>1, <2>3, <2>4, <2>5 DEF BindingInv, Alone
  <2>9. \A b \in bindings' : b.id <= asked' BY <1>0, <2>4, <2>6 DEF BindingInv
  <2>. QED BY <2>4, <2>7, <2>8, <2>9 DEF BindingInv
<1>2. ASSUME NEW h \in Handler, Unbind(h) PROVE BindingInv'
  <2>1. Alone(h) BY <1>2, EachAlone DEF Request
  <2>2. Fresh("unbind") \in Req /\ Fresh("unbind").op = "unbind"
    BY <1>2, FreshIs DEF Unbind, Op
  <2>3. PICK b \in bindings : req' = [req EXCEPT ![h] = [Fresh("unbind") EXCEPT
                                   !.binding = b.id, !.group = b.group, !.set = b.set]]
    BY <1>2 DEF Unbind
  <2>4. req'[h].binding = b.id /\ req'[h].group = b.group /\ req'[h].set = b.set
    BY <2>2, <2>3 DEF ReqInv, Req
  <2>5. bindings' = bindings /\ asked' = asked + 1 /\ step'[h] = "effective"
    BY <1>2 DEF Unbind, Asks, TypeOK
  <2>6. \A u \in Handler : req[u].id \in Nat /\ req[u].binding \in Nat BY DEF ReqInv, Req
  <2>7. \A c \in bindings : c.id \in Nat BY DEF TypeOK, Binding
  <2>8. \A u \in Handler : step'[u] = "insert" => u # h /\ step[u] = "insert" /\ req'[u] = req[u]
    BY <2>1, <2>5 DEF Alone
  <2>9. \A u \in Handler : step'[u] = "insert" =>
          /\ req'[u].id \in 1..asked'
          /\ \A c \in bindings' : c.id # req'[u].id
          /\ \A v \in Handler : step'[v] = "insert" /\ req'[v].id = req'[u].id => v = u
    BY <1>0, <2>5, <2>6, <2>8 DEF BindingInv
  <2>10. ASSUME NEW u \in Handler, step'[u] # "idle", req'[u].op = "unbind"
         PROVE  /\ req'[u].binding <= asked'
                /\ \A c \in bindings' : c.id = req'[u].binding
                                        => c.group = req'[u].group /\ c.set = req'[u].set
                /\ \A v \in Handler : step'[v] = "insert" => req'[v].id # req'[u].binding
    <3>1. CASE u = h
      BY <1>0, <2>4, <2>5, <2>7, <2>8, <3>1 DEF BindingInv
    <3>2. CASE u # h
      BY <1>0, <2>1, <2>5, <2>6, <2>8, <2>10, <3>2 DEF BindingInv, Alone
    <3>. QED BY <3>1, <3>2
  <2>11. \A c \in bindings' : c.id <= asked' BY <1>0, <2>5, <2>7 DEF BindingInv
  <2>. QED BY <2>5, <2>9, <2>10, <2>11 DEF BindingInv
<1>3. ASSUME NEW h \in Handler, InsertBinding(h) PROVE BindingInv'
  <2>1. Alone(h) /\ SameUnbind(h) /\ step'[h] # "insert" /\ asked' = asked
    BY <1>3, EachAlone, ServesSame DEF Serve
  <2>2. CASE bindings' = bindings BY <1>0, <2>1, <2>2, BindingStays
  <2>. DEFINE new == [id |-> req[h].id, group |-> req[h].group, set |-> req[h].set]
  <2>3. CASE bindings' = bindings \cup {new} /\ BoundTo(req[h].group) = {}
    <3>1. step[h] = "insert" BY <1>3 DEF InsertBinding
    <3>2. \A b \in bindings : b.group # new.group /\ b.id # new.id
      BY <2>3, <3>1 DEF BoundTo, BindingInv
    <3>3. \A b, c \in bindings' : b.group = c.group \/ b.id = c.id => b = c
      BY <2>3, <3>2 DEF BindingInv
    <3>4. new.id \in 1..asked BY <3>1 DEF BindingInv
    <3>5. \A b \in bindings' : b.id <= asked' BY <2>1, <2>3, <3>4 DEF BindingInv
    <3>6. \A u \in Handler : step'[u] = "insert" =>
            u # h /\ step[u] = "insert" /\ req'[u] = req[u]
      BY <2>1 DEF Alone
    <3>7. \A u \in Handler : step'[u] = "insert" =>
            /\ req'[u].id \in 1..asked'
            /\ \A b \in bindings' : b.id # req'[u].id
            /\ \A v \in Handler : step'[v] = "insert" /\ req'[v].id = req'[u].id => v = u
      BY <2>1, <2>3, <3>1, <3>6 DEF BindingInv
    <3>8. \A u \in Handler : step'[u] # "idle" /\ req'[u].op = "unbind" =>
            /\ step[u] # "idle" /\ req[u].op = "unbind"
            /\ req'[u].binding = req[u].binding /\ req'[u].group = req[u].group
            /\ req'[u].set = req[u].set
      BY <2>1 DEF Alone, SameUnbind
    <3>9. \A u \in Handler : step'[u] # "idle" /\ req'[u].op = "unbind" =>
            /\ req'[u].binding <= asked'
            /\ \A b \in bindings' : b.id = req'[u].binding
                                    => b.group = req'[u].group /\ b.set = req'[u].set
            /\ \A v \in Handler : step'[v] = "insert" => req'[v].id # req'[u].binding
      BY <2>1, <2>3, <3>1, <3>6, <3>8 DEF BindingInv
    <3>. QED BY <3>3, <3>5, <3>7, <3>9 DEF BindingInv
  <2>. QED BY <1>3, <2>2, <2>3 DEF InsertBinding
<1>4. ASSUME NEW h \in Handler, Serve(h) \/ Stop(h), ~InsertBinding(h) PROVE BindingInv'
  <2>1. Alone(h) /\ SameUnbind(h) /\ step'[h] # "insert" /\ asked' = asked
    BY <1>4, EachAlone, ServesSame
  <2>2. bindings' \subseteq bindings
    BY <1>4 DEF Serve, Stop, Number, Snap, WriteSet, DeleteSet, LookAtSet,
                ReadEffective, Unlink, ReadLocal, DropLocal, PutLocal
  <2>. QED BY <1>0, <2>1, <2>2, BindingStays
<1>5. ASSUME NEW h \in Handler, Request(h), ~Bind(h), ~Unbind(h) PROVE BindingInv'
  <2>1. Alone(h) BY <1>5, EachAlone
  <2>2. bindings' = bindings /\ asked' = asked + 1 /\ step'[h] # "insert"
    BY <1>5 DEF Request, Create, Update, Remove, Upsert, Clear, Asks, TypeOK
  <2>3. step'[h] = "idle" \/ req'[h].op # "unbind" BY <1>5, BeginsAs
  <2>. QED BY <1>0, <2>1, <2>2, <2>3, BindingStays DEF SameUnbind
<1>6. CASE UNCHANGED vars
  BY <1>6 DEF vars, BindingInv
<1>. QED BY <1>1, <1>2, <1>3, <1>4, <1>5, <1>6 DEF Next

-----------------------------------------------------------------------------
(* Unbinding.                                                              *)

\* A step that writes leaves nobody else calm.
LEMMA WritersDisturb ==
  ASSUME Types, NEW h \in Handler, Request(h) \/ Serve(h) \/ Stop(h)
  PROVE  /\ calm' \subseteq calm \cup {h}
         /\ Serve(h) \/ Stop(h) => calm' \subseteq calm
         /\ calm' \subseteq {h} \/ (sets' = sets /\ local' = local /\ bindings' = bindings)
<1> USE DEF Writes, Begins, Quiet, tables, history
<1>1. CASE Request(h)
  <2>1. Serve(h) \/ Stop(h) => calm' \subseteq calm
    BY <1>1 DEF Request, Create, Update, Remove, Bind, Unbind, Upsert, Clear, Asks, Serve, Stop,
          Number, Snap, WriteSet, DeleteSet, InsertBinding, LookAtSet, ReadEffective, Unlink,
          ReadLocal, DropLocal, PutLocal
  <2>. QED
    BY <1>1, <2>1 DEF Request, Create, Update, Remove, Bind, Unbind, Upsert, Clear
<1>2. CASE Serve(h)
  BY <1>2 DEF Serve, Number, Snap, WriteSet, DeleteSet, InsertBinding, LookAtSet,
              ReadEffective, Unlink, ReadLocal, DropLocal, PutLocal
<1>3. CASE Stop(h)
  BY <1>3 DEF Stop
<1>. QED BY <1>1, <1>2, <1>3

\* What CalmInv says of one request.
Calm(h) == h \in calm /\ req[h].op = "unbind" =>
  /\ step[h] # "idle" => \E b \in bindings : b.id = req[h].binding
  /\ step[h] \in {"number", "snapshot", "drop", "put"} => Carries(h)
  /\ step[h] = "put" => local[req[h].group] = None
  /\ step[h] = "unlink" /\ sets[req[h].set].live
       => local[req[h].group] = sets[req[h].set].content

LEMMA CalmRequest == ASSUME Types, NEW h \in Handler, Request(h) PROVE Calm(h)'
<1> USE DEF Types, TypeOK, ReqInv, Req, Go, Keep, Quiet, tables, Calm, Op
<1>1. ASSUME NEW op \in Op, Asks(h, op) PROVE Fresh(op) \in Req /\ Fresh(op).op = op
  BY <1>1, FreshIs
<1>2. CASE Unbind(h)
  <2>1. Fresh("unbind") \in Req BY <1>1, <1>2 DEF Unbind
  <2>2. PICK b \in bindings : req' = [req EXCEPT ![h] = [Fresh("unbind") EXCEPT
                                   !.binding = b.id, !.group = b.group, !.set = b.set]]
    BY <1>2 DEF Unbind
  <2>3. req'[h].binding = b.id BY <2>1, <2>2
  <2>. QED BY <1>2, <2>3 DEF Unbind
<1>3. CASE Request(h) /\ ~Unbind(h)
  <2>1. step'[h] = "idle" \/ req'[h].op # "unbind"
    BY <1>3, BeginsAs
  <2>. QED BY <2>1
<1>. QED BY <1>2, <1>3

LEMMA CalmServe ==
  ASSUME Types, NEW h \in Handler, Calm(h), Serve(h) \/ Stop(h) PROVE Calm(h)'
<1> USE DEF Types, TypeOK, ReqInv, Go, Keep, Quiet, tables, Calm, Carries
<1>0. SUFFICES ASSUME h \in calm', req'[h].op = "unbind", step'[h] # "idle" PROVE Calm(h)'
  OBVIOUS
<1>1. h \in calm /\ SameUnbind(h) /\ step[h] # "idle"
  BY <1>0, WritersDisturb, ServesSame
<1>2. /\ req[h].op = "unbind" /\ req'[h].binding = req[h].binding
      /\ req'[h].group = req[h].group /\ req'[h].set = req[h].set
      /\ req[h].group \in Group /\ req[h].set \in Set
  BY <1>0, <1>1 DEF SameUnbind, Filled
<1>3. PICK b \in bindings : b.id = req[h].binding BY <1>1, <1>2
<1>4. CASE Number(h)
  <2>1. req'[h].content = req[h].content BY <1>4, NextNumber DEF Req
  <2>. QED BY <1>1, <1>2, <1>3, <1>4, <2>1 DEF Number
<1>5. CASE Snap(h)
  BY <1>1, <1>2, <1>3, <1>5 DEF Snap, After
<1>6. CASE ReadEffective(h)
  <2>1. sets' = sets /\ bindings' = bindings BY <1>6 DEF ReadEffective
  <2>. QED BY <1>2, <1>3, <1>6, <2>1, EffectiveIs
<1>7. CASE DropLocal(h)
  BY <1>1, <1>2, <1>3, <1>7 DEF DropLocal
<1>8. CASE PutLocal(h)
  BY <1>1, <1>2, <1>3, <1>8 DEF PutLocal
<1>9. CASE WriteSet(h) \/ DeleteSet(h) \/ Unlink(h) \/ Stop(h)
  BY <1>0, <1>9 DEF WriteSet, DeleteSet, Unlink, Stop
<1>10. CASE InsertBinding(h) \/ LookAtSet(h) \/ ReadLocal(h)
  BY <1>2, <1>10 DEF InsertBinding, LookAtSet, ReadLocal, Filled, Stage
<1>. QED BY <1>4, <1>5, <1>6, <1>7, <1>8, <1>9, <1>10 DEF Serve

LEMMA CalmStep == ASSUME Types, CalmInv, [Next]_vars PROVE CalmInv'
<1>0. \A h \in Handler : Calm(h) BY DEF CalmInv, Calm
<1>1. ASSUME NEW h \in Handler, Request(h) \/ Serve(h) \/ Stop(h), NEW u \in Handler
      PROVE  Calm(u)'
  <2>1. CASE u = h BY <1>0, <1>1, <2>1, CalmRequest, CalmServe
  <2>2. CASE u # h
    <3>1. step'[u] = step[u] /\ req'[u] = req[u]
      BY <1>1, <2>2, EachAlone DEF Types, Alone
    <3>2. CASE calm' \subseteq {h} BY <2>2, <3>2 DEF Calm
    <3>3. CASE u \in calm /\ sets' = sets /\ local' = local /\ bindings' = bindings
      BY <1>0, <3>1, <3>3 DEF Calm, Carries
    <3>4. CASE u \notin calm
      BY <1>1, <2>2, <3>4, WritersDisturb DEF Calm
    <3>. QED BY <1>1, <3>2, <3>3, <3>4, WritersDisturb
  <2>. QED BY <2>1, <2>2
<1>2. ASSUME UNCHANGED vars, NEW u \in Handler PROVE Calm(u)'
  <2>1. Calm(u) BY <1>0
  <2>. QED BY <1>2, <2>1 DEF vars, Calm, Carries
<1>3. \A u \in Handler : Calm(u)' BY <1>1, <1>2 DEF Next
<1>4. calm' \subseteq Handler
  BY WritersDisturb DEF Next, vars, Types, TypeOK
<1>. QED BY <1>3, <1>4 DEF CalmInv, Calm

\* An unbind that nobody wrote beside leaves the group with what it had.
LEMMA UnbindStep ==
  ASSUME ConfigInv, [Next]_vars, NEW h \in calm, step[h] = "unlink",
         bindings' # bindings, Effective(req[h].group) # None
  PROVE  Effective(req[h].group)' = Effective(req[h].group)
<1> USE DEF ConfigInv, Types, TypeOK, ReqInv
<1>. DEFINE g == req[h].group
            s == req[h].set
<1>1. req[h].op = "unbind" /\ g \in Group /\ s \in Set
  BY DEF Filled, Stage, Req, Op
<1>2. PICK b \in bindings : b.id = req[h].binding BY <1>1 DEF CalmInv
<1>3. b.group = g /\ b.set = s BY <1>1, <1>2 DEF BindingInv
<1>4. BoundTo(g) = {b} BY <1>2, <1>3 DEF BindingInv, BoundTo
<1>5. Effective(g) = IF sets[s].live THEN sets[s].content ELSE None
  BY <1>3, <1>4 DEF Effective
<1>6. sets[s].live /\ Effective(g) = sets[s].content /\ local[g] = sets[s].content
  BY <1>1, <1>5 DEF CalmInv
<1>7. PICK o \in Handler : InsertBinding(o) \/ Unlink(o)
  BY DEF Next, Request, Serve, Create, Update, Remove, Bind, Unbind, Upsert, Clear, Stop,
         Number, Snap, WriteSet, DeleteSet, LookAtSet, ReadEffective,
         ReadLocal, DropLocal, PutLocal, Quiet, tables, vars
<1>8. sets' = sets /\ local' = local /\ req' = req
  BY <1>7 DEF InsertBinding, Unlink
<1>9. BoundTo(g)' = {b} \/ BoundTo(g)' = {}
  <2>1. CASE InsertBinding(o)
    <3>1. /\ BoundTo(req[o].group) = {}
          /\ bindings' = bindings \cup {[id |-> req[o].id, group |-> req[o].group, set |-> req[o].set]}
      BY <2>1 DEF InsertBinding
    <3>2. req[o].group # g BY <1>4, <3>1
    <3>. QED BY <1>4, <1>8, <3>1, <3>2 DEF BoundTo
  <2>2. CASE Unlink(o)
    <3>1. bindings' \subseteq bindings BY <2>2 DEF Unlink
    <3>2. BoundTo(g)' \subseteq {b} BY <1>4, <1>8, <3>1 DEF BoundTo
    <3>. QED BY <3>2
  <2>. QED BY <1>7, <2>1, <2>2
<1>10. CASE BoundTo(g)' = {b}
  BY <1>3, <1>6, <1>8, <1>10 DEF Effective
<1>11. CASE BoundTo(g)' = {}
  BY <1>6, <1>8, <1>11 DEF Effective
<1>. QED BY <1>9, <1>10, <1>11

-----------------------------------------------------------------------------
(* Removing a set.                                                         *)

LEMMA RemoveBegins ==
  ASSUME Types, NEW h \in Handler, Request(h), step'[h] = "delete"
  PROVE  \A b \in bindings' : b.set # req'[h].set
<1> USE DEF Types, TypeOK, ReqInv, Req, Go, Keep, Quiet, tables, Op
<1>1. step[h] = "idle"
  BY DEF Request, Create, Update, Remove, Bind, Unbind, Upsert, Clear, Asks
<1>2. Remove(h)
  BY <1>1 DEF Request, Create, Update, Bind, Unbind, Upsert, Clear
<1>3. Fresh("remove") \in Req
  BY <1>2, FreshIs DEF Remove
<1>4. PICK s \in Set : /\ {b \in bindings : b.set = s} = {}
                      /\ req' = [req EXCEPT ![h] = [Fresh("remove") EXCEPT !.set = s]]
  BY <1>2 DEF Remove
<1>5. req'[h].set = s BY <1>3, <1>4
<1>6. bindings' = bindings BY <1>2 DEF Remove
<1>. QED BY <1>4, <1>5, <1>6

LEMMA RemoveStep == ASSUME Types, RemoveInv, [Next]_vars PROVE RemoveInv'
<1>1. ASSUME NEW h \in Handler, Request(h) \/ Serve(h) \/ Stop(h),
             NEW u \in calm', step'[u] = "delete"
      PROVE  \A b \in bindings' : b.set # req'[u].set
  <2>1. CASE u = h
    <3>1. CASE Request(h) BY <1>1, <2>1, <3>1, RemoveBegins
    <3>2. ~(Serve(h) \/ Stop(h))
      BY <1>1, <2>1 DEF Types, TypeOK, Go, Serve, Stop, Number, Snap, After, WriteSet, DeleteSet,
         InsertBinding, LookAtSet, ReadEffective, Unlink, ReadLocal, DropLocal, PutLocal
    <3>. QED BY <1>1, <3>1, <3>2
  <2>2. CASE u # h
    <3>1. u \in calm /\ u \in Handler /\ bindings' = bindings
      BY <1>1, <2>2, WritersDisturb DEF Types, TypeOK
    <3>2. step'[u] = step[u] /\ req'[u] = req[u]
      BY <1>1, <2>2, <3>1, EachAlone DEF Types, Alone
    <3>. QED BY <1>1, <3>1, <3>2 DEF RemoveInv
  <2>. QED BY <2>1, <2>2
<1>2. CASE UNCHANGED vars BY <1>2 DEF vars, RemoveInv
<1>. QED BY <1>1, <1>2 DEF Next, RemoveInv

\* No group is bound to the set that goes, so no group looks at it.
LEMMA RemoveIsUnseen ==
  ASSUME Types, RemoveInv, [Next]_vars, NEW h \in calm,
         step[h] = "delete", step'[h] # "delete", NEW g \in Group
  PROVE  Effective(g)' = Effective(g)
<1> USE DEF Types, TypeOK
<1>1. h \in Handler BY DEF TypeOK
<1>2. PICK o \in Handler : Request(o) \/ Serve(o) \/ Stop(o)
  BY DEF Next, vars
<1>3. o = h BY <1>1, <1>2, EachAlone DEF Alone
<1>4. DeleteSet(h) \/ Stop(h)
  BY <1>2, <1>3 DEF Request, Create, Update, Remove, Bind, Unbind, Upsert, Clear, Asks, Serve,
     Number, Snap, WriteSet, InsertBinding, LookAtSet, ReadEffective, Unlink,
     ReadLocal, DropLocal, PutLocal
<1>5. bindings' = bindings /\ local' = local
  BY <1>4 DEF DeleteSet, Stop, tables
<1>6. \A s \in Set : s # req[h].set => sets'[s] = sets[s]
  BY <1>4 DEF DeleteSet, Stop, tables
<1>7. BoundTo(g)' = BoundTo(g)
  BY <1>5 DEF BoundTo
<1>8. CASE BoundTo(g) = {}
  BY <1>5, <1>7, <1>8 DEF Effective
<1>9. CASE BoundTo(g) # {}
  <2>1. PICK b : b = CHOOSE x \in BoundTo(g) : TRUE
    OBVIOUS
  <2>2. b \in bindings
    BY <1>9, <2>1 DEF BoundTo
  <2>3. b.set \in Set /\ b.set # req[h].set
    BY <2>2 DEF RemoveInv, Binding
  <2>4. sets'[b.set] = sets[b.set]
    BY <1>6, <2>3
  <2>5. Effective(g) = IF sets[b.set].live THEN sets[b.set].content ELSE None
    BY <1>9, <2>1 DEF Effective
  <2>6. Effective(g)' = IF sets'[b.set].live THEN sets'[b.set].content ELSE None
    BY <1>7, <1>9, <2>1 DEF Effective
  <2>. QED BY <2>4, <2>5, <2>6
<1>. QED BY <1>8, <1>9

-----------------------------------------------------------------------------

LEMMA InitInv == ASSUME Init PROVE ConfigInv
<1> USE DEF Init
<1>1. TypeOK
  <2>1. sets \in [Set -> SetRow] BY DEF SetRow, Content
  <2>2. step \in [Handler -> Step] BY DEF Step
  <2>3. \A h \in Handler : req[h].op \in Op /\ req[h].id \in 0..MaxRequest
    BY DEF NoRequest, Op
  <2>4. local \in [Group -> Content \cup {None}] /\ replaced \in [Set -> SUBSET Content]
    OBVIOUS
  <2>5. asked \in 0..MaxRequest BY DEF BoundsAssumption
  <2>6. bindings \subseteq Binding /\ snaps \subseteq Snapshot OBVIOUS
  <2>7. missed \in BOOLEAN /\ had \subseteq Group /\ calm \subseteq Handler OBVIOUS
  <2>. QED BY <2>1, <2>2, <2>3, <2>4, <2>5, <2>6, <2>7 DEF TypeOK
<1>2. ReqInv
  <2>1. NoRequest \in Req BY DEF NoRequest, Req, Op
  <2>. QED BY <2>1 DEF ReqInv, Filled
<1>3. NumberInv
  <2>1. \A t \in Target : Used(t) = 1..0 BY DEF Used
  <2>. QED BY <2>1 DEF NumberInv
<1>4. HistoryKept BY <1>1 DEF HistoryKept
<1>5. UpdateInv /\ BindingInv /\ CalmInv /\ RemoveInv BY DEF UpdateInv, BindingInv, CalmInv, RemoveInv
<1>6. LocalKept BY DEF LocalKept
<1>. QED BY <1>1, <1>2, <1>3, <1>4, <1>5, <1>6 DEF ConfigInv, Types

LEMMA StepInv == ASSUME ConfigInv, [Next]_vars PROVE ConfigInv'
BY TypeStep, ReqStep, NumberStep, UpdateStep, HistoryStep, LocalStep, BindingStep, CalmStep, RemoveStep
   DEF ConfigInv, Types

\* The invariant of the configuration: types, what requests hold, snapshot
\* numbers, bindings, and the four results below.
THEOREM Invariant == Spec => []ConfigInv
<1>1. Init => ConfigInv BY InitInv
<1>2. ConfigInv /\ [Next]_vars => ConfigInv' BY StepInv
<1>. QED BY <1>1, <1>2, PTL DEF Spec

\* No content with files that a set ever had is lost.
THEOREM NoContentLost == Spec => []HistoryKept
<1>1. ConfigInv => HistoryKept BY DEF ConfigInv
<1>. QED BY <1>1, Invariant, PTL

\* A group keeps its local configuration until it is asked to drop it.
THEOREM LocalStays == Spec => []LocalKept
<1>1. ConfigInv => LocalKept BY DEF ConfigInv
<1>. QED BY <1>1, Invariant, PTL

\* Unbinding a group does not change what its next release is rendered with.
THEOREM UnbindIsInvisible == Spec => UnbindKeeps
<1>1. ConfigInv /\ [Next]_vars =>
        [\A h \in calm : step[h] = "unlink" /\ bindings' # bindings /\ Effective(req[h].group) # None
           => Effective(req[h].group)' = Effective(req[h].group)]_vars
  BY UnbindStep
<1>. QED BY <1>1, Invariant, PTL DEF Spec, UnbindKeeps

\* Deleting a set beside which nobody writes changes what no group is rendered with.
THEOREM RemovalIsInvisible == Spec => RemoveKeeps
<1>1. ConfigInv /\ [Next]_vars =>
        [\A h \in calm : step[h] = "delete" /\ step'[h] # "delete"
           => \A g \in Group : Effective(g)' = Effective(g)]_vars
  BY RemoveIsUnseen DEF ConfigInv
<1>. QED BY <1>1, Invariant, PTL DEF Spec, RemoveKeeps
===============================================================================
