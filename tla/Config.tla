------------------------------- MODULE Config -------------------------------
(***************************************************************************)
(* Configuration of groups (configapp, configrepo): the configuration sets *)
(* of vo_config_sets, the bindings of groups to them, the local            *)
(* configuration of an unbound group, and the content snapshots kept of    *)
(* all three.  Several requests are served at once, none holds a lock or a *)
(* transaction, and each statement is a step.                              *)
(*                                                                         *)
(* A content stands for its files; 0 is a content without files.           *)
(***************************************************************************)
EXTENDS Integers, FiniteSets

CONSTANTS
  Handler,     \* requests served at the same time
  Set, Group,
  None,        \* no content: no live row
  MaxContent,  \* bound: contents
  MaxRequest,  \* bound: requests
  Ops          \* the kinds of request the clients send

Content == 0..MaxContent

ASSUME BoundsAssumption ==
  MaxContent \in Nat \ {0} /\ MaxRequest \in Nat /\ None \notin Content

Target == ({"config_set"} \X Set) \cup ({"group_bind", "group_local"} \X Group)
SetRow == [live : BOOLEAN, content : Content, version : Nat]
Binding == [id : 1..MaxRequest, group : Group, set : Set]
Snapshot == [target : Target, no : Nat \ {0}, content : Content]
Op == {"create", "update", "remove", "bind", "unbind", "upsert", "clear"}
Step == {"idle", "number", "snapshot", "write", "delete", "insert", "look", "effective",
         "old", "drop", "put", "unlink"}

VARIABLES
  sets,      \* vo_config_sets; version 0 where no row was ever created
  bindings,  \* live rows of vo_group_config_bindings
  local,     \* the live row of vo_group_local_configs, or None
  snaps,     \* vo_config_content_snapshots
  step,      \* where each request is
  req,       \* what it asked for and has read
  asked,     \* requests so far
  replaced,  \* history: the contents each set has had and lost
  missed,    \* history: a snapshot was refused by the unique index
  had,       \* history: groups given a local configuration and not asked to drop it
  calm       \* history: requests that no other one has written beside

vars == <<sets, bindings, local, snaps, step, req, asked, replaced, missed, had, calm>>
tables == <<sets, bindings, local, snaps>>
history == <<replaced, missed, had>>

NoRequest == [op |-> "create", id |-> 0, set |-> None, group |-> None, binding |-> 0,
              version |-> 0, old |-> None, content |-> None, no |-> 0]

Init ==
  /\ sets = [s \in Set |-> [live |-> FALSE, content |-> 0, version |-> 0]]
  /\ bindings = {}
  /\ local = [g \in Group |-> None]
  /\ snaps = {}
  /\ step = [h \in Handler |-> "idle"]
  /\ req = [h \in Handler |-> NoRequest]
  /\ asked = 0
  /\ replaced = [s \in Set |-> {}]
  /\ missed = FALSE
  /\ had = {}
  /\ calm = {}

BoundTo(g) == {b \in bindings : b.group = g}

\* What a release of the group is rendered with (resolveGroupConfig): the bound
\* set, else the local configuration, else nothing; None where resolving fails.
Effective(g) ==
  IF BoundTo(g) # {}
  THEN LET s == sets[(CHOOSE b \in BoundTo(g) : TRUE).set]
       IN IF s.live THEN s.content ELSE None
  ELSE IF local[g] = None THEN 0 ELSE local[g]

-----------------------------------------------------------------------------
(* Serving a request *)

Asks(h, op) == op \in Ops /\ step[h] = "idle" /\ asked < MaxRequest /\ asked' = asked + 1
Fresh(op) == [NoRequest EXCEPT !.op = op, !.id = asked']
Go(h, s) == step' = [step EXCEPT ![h] = s]
Keep(h, r) == req' = [req EXCEPT ![h] = r]
Begins(h) == calm' = calm \cup {h}
\* A step that writes disturbs every other request under way.
Writes(h) == calm' = calm \cap {h}
Quiet == UNCHANGED <<tables, history>>

\* The request ends where it is: answered, its client gone, or the process restarted.
Stop(h) ==
  /\ step[h] # "idle"
  /\ Go(h, "idle")
  /\ had' = IF step[h] = "put" THEN had \ {req[h].group} ELSE had
  /\ UNCHANGED <<tables, req, asked, replaced, missed, calm>>

\* Whether a content is worth a snapshot: it has files.
Files(c) == c \notin {0, None}

-----------------------------------------------------------------------------
(* Snapshots: the number is read, then used; an error is ignored. *)

SnapshotOf(h) ==
  CASE req[h].op = "update" -> <<"config_set", req[h].set>>
    [] req[h].op \in {"bind", "unbind"} -> <<"group_bind", req[h].group>>
    [] OTHER -> <<"group_local", req[h].group>>

After(h) ==
  CASE req[h].op = "update" -> "write"
    [] req[h].op = "bind" -> "idle"
    [] OTHER -> "drop"

\* NextSnapshotNo
Number(h) ==
  /\ step[h] = "number"
  /\ LET used == {x.no : x \in {y \in snaps : y.target = SnapshotOf(h)}} \cup {0}
     IN Keep(h, [req[h] EXCEPT !.no = 1 + CHOOSE n \in used : \A k \in used : k <= n])
  /\ Go(h, "snapshot")
  /\ Quiet /\ UNCHANGED <<asked, calm>>

\* CreateContentSnapshot under UNIQUE (target_type, target_id, snapshot_no).
Snap(h) ==
  /\ step[h] = "snapshot"
  /\ LET taken == \E x \in snaps : x.target = SnapshotOf(h) /\ x.no = req[h].no
         row == [target |-> SnapshotOf(h), no |-> req[h].no, content |-> req[h].old]
     IN /\ snaps' = IF taken THEN snaps ELSE snaps \cup {row}
        /\ missed' = (missed \/ taken)
  /\ Go(h, After(h))
  /\ UNCHANGED <<sets, bindings, local, req, asked, replaced, had, calm>>

-----------------------------------------------------------------------------
(* Configuration sets *)

Create(h) ==
  /\ Asks(h, "create")
  /\ \E s \in Set, c \in Content :
       /\ sets[s].version = 0
       /\ sets' = [sets EXCEPT ![s] = [live |-> TRUE, content |-> c, version |-> 1]]
  /\ Writes(h)
  /\ UNCHANGED <<bindings, local, snaps, step, req, history>>

\* UpdateConfigSet reads the row for the content it will replace; the version is
\* one the client has seen.
Update(h) ==
  /\ Asks(h, "update")
  /\ \E s \in Set, c \in Content :
       /\ sets[s].live
       /\ \E v \in 1..sets[s].version :
            Keep(h, [Fresh("update") EXCEPT !.set = s, !.content = c, !.version = v,
                                            !.old = sets[s].content])
       /\ Go(h, IF c # sets[s].content /\ Files(sets[s].content) THEN "number" ELSE "write")
  /\ Begins(h)
  /\ Quiet

\* Mutant: the version is not compared.
WriteAnyVersion(h) ==
  /\ step[h] = "write"
  /\ LET s == req[h].set
     IN IF sets[s].live
        THEN /\ sets' = [sets EXCEPT ![s].content = req[h].content, ![s].version = @ + 1]
             /\ replaced' = [replaced EXCEPT ![s] = @ \cup ({sets[s].content} \ {req[h].content})]
             /\ Writes(h)
        ELSE UNCHANGED <<sets, replaced, calm>>
  /\ Go(h, "idle")
  /\ UNCHANGED <<bindings, local, snaps, req, asked, missed, had>>

WriteSet(h) ==
  /\ step[h] = "write"
  /\ LET s == req[h].set
     IN IF sets[s].live /\ sets[s].version = req[h].version
        THEN /\ sets' = [sets EXCEPT ![s].content = req[h].content, ![s].version = @ + 1]
             /\ replaced' = [replaced EXCEPT ![s] = @ \cup ({sets[s].content} \ {req[h].content})]
             /\ Writes(h)
        ELSE UNCHANGED <<sets, replaced, calm>>
  /\ Go(h, "idle")
  /\ UNCHANGED <<bindings, local, snaps, req, asked, missed, had>>

\* Mutant: the bindings are not asked for.
RemoveUnasked(h) ==
  /\ Asks(h, "remove")
  /\ \E s \in Set :
       /\ sets[s].version > 0
       /\ Keep(h, [Fresh("remove") EXCEPT !.set = s])
  /\ Go(h, "delete")
  /\ Begins(h)
  /\ Quiet

\* DeleteConfigSet: refused while bindings are listed.
Remove(h) ==
  /\ Asks(h, "remove")
  /\ \E s \in Set :
       /\ sets[s].version > 0
       /\ {b \in bindings : b.set = s} = {}
       /\ Keep(h, [Fresh("remove") EXCEPT !.set = s])
  /\ Go(h, "delete")
  /\ Begins(h)
  /\ Quiet

DeleteSet(h) ==
  /\ step[h] = "delete"
  /\ LET s == req[h].set
     IN IF sets[s].live
        THEN sets' = [sets EXCEPT ![s].live = FALSE, ![s].version = @ + 1] /\ Writes(h)
        ELSE UNCHANGED <<sets, calm>>
  /\ Go(h, "idle")
  /\ UNCHANGED <<bindings, local, snaps, req, asked, history>>

-----------------------------------------------------------------------------
(* Bindings *)

\* CreateBinding counts the group's bindings.  The set is not looked at: the
\* foreign key is content with a deleted row.
Bind(h) ==
  /\ Asks(h, "bind")
  /\ \E g \in Group, s \in Set :
       /\ BoundTo(g) = {} /\ sets[s].version > 0
       /\ Keep(h, [Fresh("bind") EXCEPT !.group = g, !.set = s])
  /\ Go(h, "insert")
  /\ Begins(h)
  /\ Quiet

\* uk_group_single_binding refuses a second one.
InsertBinding(h) ==
  /\ step[h] = "insert"
  /\ IF BoundTo(req[h].group) = {}
     THEN /\ bindings' = bindings \cup {[id |-> req[h].id, group |-> req[h].group, set |-> req[h].set]}
          /\ Go(h, "look") /\ Writes(h)
     ELSE Go(h, "idle") /\ UNCHANGED <<bindings, calm>>
  /\ UNCHANGED <<sets, local, snaps, req, asked, history>>

\* The set is read for the snapshot of what the group is now bound to.
LookAtSet(h) ==
  /\ step[h] = "look"
  /\ LET s == sets[req[h].set]
     IN IF s.live /\ Files(s.content)
        THEN Go(h, "number") /\ Keep(h, [req[h] EXCEPT !.old = s.content])
        ELSE Go(h, "idle") /\ UNCHANGED req
  /\ Quiet /\ UNCHANGED <<asked, calm>>

\* DeleteBinding reads the binding, then its set, keeps the set's content as the
\* group's local configuration, and deletes the binding last.
Unbind(h) ==
  /\ Asks(h, "unbind")
  /\ \E b \in bindings :
       Keep(h, [Fresh("unbind") EXCEPT !.binding = b.id, !.group = b.group, !.set = b.set])
  /\ Go(h, "effective")
  /\ Begins(h)
  /\ Quiet

\* Mutant: a content without files is not carried over.
CarryFilesOnly(h) ==
  /\ step[h] = "effective"
  /\ LET s == sets[req[h].set]
     IN IF s.live /\ Files(s.content)
        THEN /\ Keep(h, [req[h] EXCEPT !.old = s.content, !.content = s.content])
             /\ Go(h, "number")
        ELSE Go(h, "unlink") /\ UNCHANGED req
  /\ Quiet /\ UNCHANGED <<asked, calm>>

ReadEffective(h) ==
  /\ step[h] = "effective"
  /\ LET s == sets[req[h].set]
     IN IF s.live
        THEN /\ Keep(h, [req[h] EXCEPT !.old = s.content, !.content = s.content])
             /\ Go(h, IF Files(s.content) THEN "number" ELSE "drop")
        ELSE Go(h, "unlink") /\ UNCHANGED req
  /\ Quiet /\ UNCHANGED <<asked, calm>>

Unlink(h) ==
  /\ step[h] = "unlink"
  /\ bindings' = {b \in bindings : b.id # req[h].binding}
  /\ Go(h, "idle")
  /\ IF bindings' # bindings THEN Writes(h) ELSE UNCHANGED calm
  /\ UNCHANGED <<sets, local, snaps, req, asked, history>>

-----------------------------------------------------------------------------
(* Local configuration *)

\* UpsertLocalConfig, and CloneFromGroup that ends in it with a content made of
\* two groups': refused for a bound group, then the old content is read.
Upsert(h) ==
  /\ Asks(h, "upsert")
  /\ \E g \in Group, c \in Content :
       /\ BoundTo(g) = {}
       /\ Keep(h, [Fresh("upsert") EXCEPT !.group = g, !.content = c])
  /\ Go(h, "old")
  /\ Begins(h)
  /\ Quiet

ReadLocal(h) ==
  /\ step[h] = "old"
  /\ LET old == local[req[h].group]
     IN /\ Keep(h, [req[h] EXCEPT !.old = old])
        /\ Go(h, IF Files(old) /\ old # req[h].content THEN "number" ELSE "drop")
  /\ Quiet /\ UNCHANGED <<asked, calm>>

\* The repository replaces the row by two statements: the old one is deleted,
\* the new one inserted under uk_group_local_cfg.

\* Mutant: a content without files ends the request here.
DropForNothing(h) ==
  /\ step[h] = "drop"
  /\ local' = [local EXCEPT ![req[h].group] = None]
  /\ Go(h, IF Files(req[h].content) THEN "put" ELSE "idle")
  /\ Writes(h)
  /\ UNCHANGED <<sets, bindings, snaps, req, asked, history>>

DropLocal(h) ==
  /\ step[h] = "drop"
  /\ local' = [local EXCEPT ![req[h].group] = None]
  /\ Go(h, "put")
  /\ Writes(h)
  /\ UNCHANGED <<sets, bindings, snaps, req, asked, history>>

\* An unbind ignores the outcome and goes on.
PutLocal(h) ==
  /\ step[h] = "put"
  /\ LET g == req[h].group
     IN IF local[g] = None
        THEN local' = [local EXCEPT ![g] = req[h].content] /\ had' = had \cup {g} /\ Writes(h)
        ELSE UNCHANGED <<local, had, calm>>
  /\ Go(h, IF req[h].op = "unbind" THEN "unlink" ELSE "idle")
  /\ UNCHANGED <<sets, bindings, snaps, req, asked, replaced, missed>>

\* DeleteLocalConfig
Clear(h) ==
  /\ Asks(h, "clear")
  /\ \E g \in Group :
       /\ local[g] # None
       /\ local' = [local EXCEPT ![g] = None]
       /\ had' = had \ {g}
  /\ Writes(h)
  /\ UNCHANGED <<sets, bindings, snaps, step, req, replaced, missed>>

-----------------------------------------------------------------------------

Request(h) ==
  Create(h) \/ Update(h) \/ Remove(h) \/ Bind(h) \/ Unbind(h) \/ Upsert(h) \/ Clear(h)
Serve(h) ==
  \/ Number(h) \/ Snap(h) \/ WriteSet(h) \/ DeleteSet(h)
  \/ InsertBinding(h) \/ LookAtSet(h)
  \/ ReadEffective(h) \/ Unlink(h) \/ ReadLocal(h) \/ DropLocal(h) \/ PutLocal(h)

Next == \E h \in Handler : Request(h) \/ Serve(h) \/ Stop(h)
Spec == Init /\ [][Next]_vars

-----------------------------------------------------------------------------
(* Properties *)

TypeOK ==
  /\ sets \in [Set -> SetRow]
  /\ bindings \subseteq Binding
  /\ local \in [Group -> Content \cup {None}]
  /\ snaps \subseteq Snapshot
  /\ step \in [Handler -> Step]
  /\ \A h \in Handler : req[h].op \in Op /\ req[h].id \in 0..MaxRequest
  /\ asked \in 0..MaxRequest
  /\ replaced \in [Set -> SUBSET Content]
  /\ missed \in BOOLEAN /\ had \subseteq Group /\ calm \subseteq Handler

\* Type correctness, and no content with files that a set ever had is lost: it is
\* the set's or in its snapshots, unless two requests took the same number.
HistoryKept ==
  /\ TypeOK
  /\ missed \/ \A s \in Set : \A c \in replaced[s] :
       Files(c) => \E x \in snaps : x.target = <<"config_set", s>> /\ x.content = c

\* A group that was given a local configuration and not asked to drop it has one,
\* except while a request is between the two statements that replace it.
LocalKept ==
  \A g \in had : local[g] # None \/ \E h \in Handler : step[h] = "put" /\ req[h].group = g

\* Unbinding a group that nobody else is working on does not change what its next
\* release is rendered with, provided that could be resolved.
UnbindKeeps ==
  [][\A h \in calm : step[h] = "unlink" /\ bindings' # bindings /\ Effective(req[h].group) # None
       => Effective(req[h].group)' = Effective(req[h].group)]_vars

\* Deleting a set changes what no group is rendered with, provided that nobody wrote
\* between the count of its bindings and the DELETE: who does may leave a group bound
\* to a set that is gone.
RemoveKeeps ==
  [][\A h \in calm : step[h] = "delete" /\ step'[h] # "delete"
       => \A g \in Group : Effective(g)' = Effective(g)]_vars
=============================================================================
