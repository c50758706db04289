--------------------------- MODULE KnowledgeProofs ---------------------------
(***************************************************************************)
(* Theorems about Knowledge, for any number of threads, chunks, texts and  *)
(* restarts.                                                               *)
(***************************************************************************)
EXTENDS Knowledge, TLAPS

USE BoundsAssumption

\* What a thread holds of the document, and when there is one.
CopyInv ==
  /\ doc.live => doc.text \in Text /\ doc.version > 0
  /\ \A t \in Thread :
       /\ step[t] \in Working \cup {"edit"} => copy[t].text \in Text
       /\ step[t] # "free" => doc.version > 0
       /\ step[t] = "unlink" => ~doc.live

\* Chunks come and go by whole texts.
PartsInv == \A c \in chunks : \A i \in 1..Parts : [c EXCEPT !.part = i] \in chunks

\* As long as no run failed or met another one: there is one at most, it works
\* on the current text, and between runs the last one's chunks are there.
Undisturbed == doc.live /\ ~failed /\ ~crossed
RunInv == Undisturbed =>
  /\ \A t, u \in Runs : t = u
  /\ \A t \in Runs : copy[t].text = doc.text
  /\ \A t \in Runs : step[t] = "insert" => chunks = {}
  /\ Runs = {} => \E t \in Thread : /\ step[t] = "done"
                                   /\ copy[t].text = doc.text
                                   /\ chunks = New(t)

\* Failures do not matter to this: who inserts alone inserts into an empty table.
Alone == \A t, u \in Runs : t = u
OneRunInv == ~crossed =>
  /\ Alone
  /\ \A t \in Runs : step[t] = "insert" => chunks = {}
  /\ \A c, d \in chunks : c.run = d.run

KnowledgeInv == TypeOK /\ CopyInv /\ PartsInv /\ RunInv /\ OneRunInv

-----------------------------------------------------------------------------
(* Types.                                                                  *)

LEMMA NewType ==
  ASSUME TypeOK, NEW t \in Thread, copy[t].text \in Text
  PROVE  New(t) \subseteq Chunk
<1>1. \A i \in 1..Parts : [run |-> t, text |-> copy[t].text, part |-> i, gone |-> FALSE] \in Chunk
  BY DEF Chunk
<1>. QED BY <1>1 DEF New

LEMMA EditedType ==
  ASSUME NEW row \in Row, NEW text \in Text, NEW s \in {"active", "archived", "kept"}
  PROVE  Edited(row, text, s) \in Row /\ Edited(row, text, s).text = text
<1>1. text \in 0..MaxText BY DEF Text
<1>2. row.status \in Status /\ "indexing" \in Status BY DEF Row, Status
<1>. DEFINE status == IF s \in Status THEN s
                      ELSE IF text # row.text THEN "indexing" ELSE row.status
<1>3. status \in Status BY <1>2
<1>4. Edited(row, text, s) = [row EXCEPT !.text = text, !.status = status]
  BY DEF Edited
<1>. HIDE DEF status
<1>. QED BY <1>1, <1>3, <1>4 DEF Row

LEMMA TypeStep == ASSUME TypeOK, CopyInv, [Next]_vars PROVE TypeOK'
<1> USE DEF TypeOK, Step, Working, Go, Keep, Start, history
<1>1. ASSUME NEW t \in Thread, Create(t) PROVE TypeOK'
  <2>1. doc' \in Row BY <1>1 DEF Create, Row, Status
  <2>. QED BY <1>1, <2>1 DEF Create
<1>2. ASSUME NEW t \in Thread, EditRead(t) PROVE TypeOK'
  BY <1>2, EditedType DEF EditRead
<1>3. ASSUME NEW t \in Thread, EditWrite(t) PROVE TypeOK'
  <2>1. doc' \in Row BY <1>3 DEF EditWrite, Row
  <2>2. crossed' \in BOOLEAN /\ step' \in [Thread -> Step] BY <1>3 DEF EditWrite
  <2>3. echoed' \in BOOLEAN BY <1>3 DEF EditWrite
  <2>. QED BY <1>3, <2>1, <2>2, <2>3 DEF EditWrite
<1>4. ASSUME NEW t \in Thread, EditConflict(t) PROVE TypeOK'
  BY <1>4 DEF EditConflict
<1>5. ASSUME NEW t \in Thread, Delete(t) PROVE TypeOK'
  <2>1. doc.version + 1 \in Nat BY DEF Row
  <2>2. doc' \in Row BY <1>5, <2>1 DEF Delete, Row
  <2>. QED BY <1>5, <2>2 DEF Delete
<1>6. ASSUME NEW t \in Thread, Unlink(t) PROVE TypeOK'
  <2>1. \A c \in chunks : [c EXCEPT !.gone = TRUE] \in Chunk BY DEF Chunk
  <2>2. chunks' \subseteq Chunk BY <1>6, <2>1 DEF Unlink
  <2>. QED BY <1>6, <2>2 DEF Unlink
<1>7. ASSUME NEW t \in Thread, Reindex(t) PROVE TypeOK'
  BY <1>7 DEF Reindex
<1>8. ASSUME NEW t \in Thread, Fails(t) PROVE TypeOK'
  BY <1>8 DEF Fails
<1>9. ASSUME NEW t \in Thread, Embed(t) PROVE TypeOK'
  BY <1>9 DEF Embed
<1>10. ASSUME NEW t \in Thread, DeleteChunks(t) PROVE TypeOK'
  BY <1>10 DEF DeleteChunks
<1>11. ASSUME NEW t \in Thread, CreateChunks(t) PROVE TypeOK'
  <2>1. chunks' \subseteq Chunk BY <1>11, NewType DEF CreateChunks, CopyInv
  <2>2. doc' \in Row BY <1>11 DEF CreateChunks, Row, Status
  <2>. QED BY <1>11, <2>1, <2>2 DEF CreateChunks
<1>12. CASE Crash
  <2>1. step' \in [Thread -> Step] BY <1>12 DEF Crash
  <2>2. crashes' \in 0..MaxCrash /\ failed' \in BOOLEAN BY <1>12 DEF Crash
  <2>. QED BY <1>12, <2>1, <2>2 DEF Crash
<1>13. CASE UNCHANGED vars
  BY <1>13 DEF vars
<1>. QED
  BY <1>1, <1>2, <1>3, <1>4, <1>5, <1>6, <1>7, <1>8, <1>9, <1>10, <1>11, <1>12, <1>13
     DEF Next, Request, Serve

\* A thread reads a text before it works on it, and a document is never born twice.
LEMMA CopyStep == ASSUME TypeOK, CopyInv, [Next]_vars PROVE CopyInv'
<1> USE DEF TypeOK, CopyInv, Working, Go, Keep, Start, history, Row
<1>1. ASSUME NEW t \in Thread, Create(t) PROVE CopyInv'
  BY <1>1 DEF Create, Text, NoRow
<1>2. ASSUME NEW t \in Thread, EditRead(t) PROVE CopyInv'
  <2>1. PICK text \in Text, s \in {"active", "archived", "kept"} :
           copy' = [copy EXCEPT ![t] = Edited(doc, text, s)]
    BY <1>2 DEF EditRead
  <2>2. Edited(doc, text, s).text = text
    BY <2>1, EditedType
  <2>3. copy'[t].text \in Text /\ \A u \in Thread : u # t => copy'[u] = copy[u]
    BY <2>1, <2>2
  <2>. QED
    BY <1>2, <2>3 DEF EditRead
<1>3. ASSUME NEW t \in Thread, EditWrite(t) PROVE CopyInv'
  BY <1>3 DEF EditWrite
<1>4. ASSUME NEW t \in Thread, EditConflict(t) PROVE CopyInv'
  BY <1>4 DEF EditConflict
<1>5. ASSUME NEW t \in Thread, Delete(t) PROVE CopyInv'
  BY <1>5 DEF Delete
<1>6. ASSUME NEW t \in Thread, Unlink(t) PROVE CopyInv'
  BY <1>6 DEF Unlink
<1>7. ASSUME NEW t \in Thread, Reindex(t) PROVE CopyInv'
  BY <1>7 DEF Reindex
<1>8. ASSUME NEW t \in Thread, Fails(t) PROVE CopyInv'
  BY <1>8 DEF Fails
<1>9. ASSUME NEW t \in Thread, Embed(t) PROVE CopyInv'
  BY <1>9 DEF Embed
<1>10. ASSUME NEW t \in Thread, DeleteChunks(t) PROVE CopyInv'
  BY <1>10 DEF DeleteChunks
<1>11. ASSUME NEW t \in Thread, CreateChunks(t) PROVE CopyInv'
  BY <1>11 DEF CreateChunks
<1>12. CASE Crash
  BY <1>12 DEF Crash
<1>13. CASE UNCHANGED vars
  BY <1>13 DEF vars
<1>. QED
  BY <1>1, <1>2, <1>3, <1>4, <1>5, <1>6, <1>7, <1>8, <1>9, <1>10, <1>11, <1>12, <1>13
     DEF Next, Request, Serve

-----------------------------------------------------------------------------
(* Parts.                                                                  *)

LEMMA OtherPart ==
  ASSUME NEW c \in Chunk, NEW i \in 1..Parts
  PROVE  [c EXCEPT !.part = i]
           = [run |-> c.run, text |-> c.text, part |-> i, gone |-> c.gone]
BY DEF Chunk

\* The chunks of a run are those of its text, whichever part one starts from.
LEMMA NewParts ==
  ASSUME TypeOK, NEW t \in Thread, copy[t].text \in Text, NEW c \in New(t), NEW i \in 1..Parts
  PROVE  [c EXCEPT !.part = i] \in New(t)
<1>1. c \in Chunk BY NewType
<1>2. c.run = t /\ c.text = copy[t].text /\ c.gone = FALSE BY DEF New
<1>3. [c EXCEPT !.part = i] = [run |-> t, text |-> copy[t].text, part |-> i, gone |-> FALSE]
  BY <1>1, <1>2, OtherPart
<1>. QED BY <1>3 DEF New

LEMMA PartsStep == ASSUME TypeOK, CopyInv, PartsInv, [Next]_vars PROVE PartsInv'
<1>1. ASSUME NEW t \in Thread, Unlink(t) PROVE PartsInv'
  <2>1. CASE chunks' = chunks BY <2>1 DEF PartsInv
  <2>2. CASE chunks' = {[c EXCEPT !.gone = TRUE] : c \in chunks}
    <3>1. SUFFICES ASSUME NEW c \in chunks, NEW i \in 1..Parts
                   PROVE  [[c EXCEPT !.gone = TRUE] EXCEPT !.part = i] \in chunks'
      BY <2>2 DEF PartsInv
    <3>2. [c EXCEPT !.part = i] \in chunks BY DEF PartsInv
    <3>3. [[c EXCEPT !.gone = TRUE] EXCEPT !.part = i]
             = [[c EXCEPT !.part = i] EXCEPT !.gone = TRUE]
      BY DEF TypeOK, Chunk
    <3>. QED BY <2>2, <3>2, <3>3
  <2>. QED BY <1>1, <2>1, <2>2 DEF Unlink
<1>2. ASSUME NEW t \in Thread, CreateChunks(t) PROVE PartsInv'
  <2>1. copy[t].text \in Text BY <1>2 DEF CreateChunks, CopyInv, Working
  <2>2. \A c \in New(t), i \in 1..Parts : [c EXCEPT !.part = i] \in New(t)
    BY <2>1, NewParts
  <2>. QED BY <1>2, <2>2 DEF CreateChunks, PartsInv
<1>3. ASSUME NEW t \in Thread, DeleteChunks(t) PROVE PartsInv'
  BY <1>3 DEF DeleteChunks, PartsInv
<1>4. CASE chunks' = chunks
  BY <1>4 DEF PartsInv
<1>5. chunks' = chunks \/ \E t \in Thread : Unlink(t) \/ CreateChunks(t) \/ DeleteChunks(t)
  BY DEF Next, Request, Serve, Create, EditRead, Delete, Reindex, EditWrite,
         EditConflict, Embed, Fails, Crash, vars
<1>. QED
  BY <1>1, <1>2, <1>3, <1>4, <1>5

-----------------------------------------------------------------------------
(* Runs.                                                                   *)

\* A thread begins to work on the current text when nobody else does.
LEMMA RunBegins ==
  ASSUME TypeOK, NEW t \in Thread, Start(t), Undisturbed',
         copy'[t].text = doc'.text
  PROVE  RunInv'
<1>1. Runs = {} /\ step' = [step EXCEPT ![t] = "embed"]
  BY DEF Start, Undisturbed, Go
<1>2. Runs' = {t}
  BY <1>1 DEF Runs, Working, TypeOK
<1>3. step'[t] = "embed"
  BY <1>1 DEF TypeOK
<1>. QED
  BY <1>2, <1>3 DEF RunInv

\* Steps of others that leave the text, the chunks and the runs alone.
LEMMA RunStays ==
  ASSUME TypeOK, RunInv, doc.live \/ ~doc'.live, doc'.text = doc.text,
         chunks' = chunks, failed' = failed, crossed' = crossed,
         \A t \in Thread : step[t] \in Working \/ step'[t] \in Working
                           => step'[t] = step[t] /\ copy'[t] = copy[t],
         \A t \in Thread : step[t] = "done" => step'[t] = "done" /\ copy'[t] = copy[t]
  PROVE  RunInv'
<1>1. SUFFICES ASSUME Undisturbed' PROVE RunInv'
  BY DEF RunInv
<1>2. Undisturbed
  BY <1>1 DEF Undisturbed, TypeOK, Row
<1>3. Runs' = Runs
  BY DEF Runs
<1>4. \A t \in Runs : step'[t] = step[t] /\ copy'[t] = copy[t]
  BY DEF Runs
<1>5. ASSUME Runs = {}
      PROVE  \E t \in Thread : /\ step'[t] = "done"
                               /\ copy'[t].text = doc'.text
                               /\ chunks' = New(t)'
  <2>1. PICK t \in Thread : step[t] = "done" /\ copy[t].text = doc.text /\ chunks = New(t)
    BY <1>2, <1>5 DEF RunInv
  <2>. QED
    BY <2>1 DEF New
<1>. QED
  BY <1>2, <1>3, <1>4, <1>5 DEF RunInv

LEMMA RunStep ==
  ASSUME TypeOK, CopyInv, RunInv, [Next]_vars PROVE RunInv'
<1> USE DEF TypeOK, Go, Keep, history
<1>1. ASSUME NEW t \in Thread, Create(t) PROVE RunInv'
  <2>1. copy'[t].text = doc'.text BY <1>1 DEF Create
  <2>. QED BY <1>1, <2>1, RunBegins DEF Create, RunInv
<1>2. ASSUME NEW t \in Thread, EditRead(t) PROVE RunInv'
  BY <1>2, RunStays DEF EditRead, Working
<1>3. ASSUME NEW t \in Thread, EditWrite(t) PROVE RunInv'
  <2>1. doc'.text = copy[t].text /\ copy' = copy /\ chunks' = chunks
    BY <1>3 DEF EditWrite, Row
  <2>2. CASE copy[t].text # doc.text
    BY <1>3, <2>1, <2>2, RunBegins DEF EditWrite, RunInv
  <2>3. CASE copy[t].text = doc.text
    BY <1>3, <2>1, <2>3, RunStays DEF EditWrite, Working
  <2>. QED BY <2>2, <2>3
<1>4. ASSUME NEW t \in Thread, EditConflict(t) PROVE RunInv'
  BY <1>4, RunStays DEF EditConflict, Working
<1>5. ASSUME NEW t \in Thread, Delete(t) PROVE RunInv'
  BY <1>5 DEF Delete, RunInv, Undisturbed, Row
<1>6. ASSUME NEW t \in Thread, Unlink(t) PROVE RunInv'
  BY <1>6 DEF Unlink, CopyInv, RunInv, Undisturbed
<1>7. ASSUME NEW t \in Thread, Reindex(t) PROVE RunInv'
  BY <1>7, RunBegins DEF Reindex, RunInv
<1>8. ASSUME NEW t \in Thread, Fails(t) PROVE RunInv'
  BY <1>8 DEF Fails, RunInv, Undisturbed
<1>9. ASSUME NEW t \in Thread, Embed(t) PROVE RunInv'
  <2>1. Runs' = Runs /\ t \in Runs
    BY <1>9 DEF Embed, Runs, Working
  <2>2. \A u \in Runs' : step'[u] = "insert" => step[u] = "insert"
    BY <1>9 DEF Embed, Runs
  <2>. QED
    BY <1>9, <2>1, <2>2 DEF Embed, RunInv, Undisturbed
<1>10. ASSUME NEW t \in Thread, DeleteChunks(t) PROVE RunInv'
  <2>1. Runs' = Runs /\ t \in Runs
    BY <1>10 DEF DeleteChunks, Runs, Working
  <2>. QED
    BY <1>10, <2>1 DEF DeleteChunks, RunInv, Undisturbed
<1>11. ASSUME NEW t \in Thread, CreateChunks(t) PROVE RunInv'
  <2>1. SUFFICES ASSUME Undisturbed' PROVE RunInv'
    BY DEF RunInv
  <2>2. doc'.live = doc.live /\ doc'.text = doc.text
    BY <1>11 DEF CreateChunks, Row
  <2>3. Undisturbed
    BY <1>11, <2>1, <2>2 DEF CreateChunks, Undisturbed
  <2>4. t \in Runs /\ Runs' = Runs \ {t}
    BY <1>11 DEF CreateChunks, Runs, Working
  <2>5. Runs' = {}
    BY <2>3, <2>4 DEF RunInv
  <2>6. copy[t].text = doc.text /\ chunks = {}
    BY <1>11, <2>3, <2>4 DEF RunInv, CreateChunks
  <2>7. chunks' = New(t)' /\ step'[t] = "done" /\ copy' = copy
    BY <1>11, <2>6 DEF CreateChunks, New
  <2>. QED
    BY <2>2, <2>5, <2>6, <2>7 DEF RunInv
<1>12. CASE Crash
  <2>1. CASE Runs # {} BY <1>12, <2>1 DEF Crash, RunInv, Undisturbed
  <2>2. CASE Runs = {}
    BY <1>12, <2>2, RunStays DEF Crash, Runs, Working
  <2>. QED BY <2>1, <2>2
<1>13. CASE UNCHANGED vars
  BY <1>13, RunStays DEF vars
<1>. QED
  BY <1>1, <1>2, <1>3, <1>4, <1>5, <1>6, <1>7, <1>8, <1>9, <1>10, <1>11, <1>12, <1>13
     DEF Next, Request, Serve

\* Whoever starts, starts alone or crosses.
LEMMA OneRunBegins ==
  ASSUME TypeOK, OneRunInv, NEW t \in Thread, Start(t), step[t] \notin Working, chunks' = chunks
  PROVE  OneRunInv'
<1>1. SUFFICES ASSUME ~crossed' PROVE OneRunInv'
  BY DEF OneRunInv
<1>2. ~crossed /\ Runs = {}
  BY <1>1 DEF Start
<1>3. Runs' = {t} /\ step'[t] = "embed"
  BY <1>2 DEF Start, Go, Runs, Working, TypeOK
<1>. QED
  BY <1>2, <1>3 DEF OneRunInv, Alone

\* Steps that let runs end or go on and bring no chunks of another run.
LEMMA OneRunStays ==
  ASSUME OneRunInv, crossed' = crossed, Runs' \subseteq Runs,
         \A t \in Runs' : step'[t] = "insert" => step[t] = "insert" \/ chunks' = {},
         chunks = {} => chunks' = {},
         \A c \in chunks' : \E d \in chunks : d.run = c.run
  PROVE  OneRunInv'
BY DEF OneRunInv, Alone

LEMMA OneRunStep ==
  ASSUME TypeOK, CopyInv, OneRunInv, [Next]_vars PROVE OneRunInv'
<1> USE DEF TypeOK, Go, Keep, history
<1>1. ASSUME NEW t \in Thread, Create(t) \/ Reindex(t) PROVE OneRunInv'
  BY <1>1, OneRunBegins DEF Create, Reindex, Working
<1>2. ASSUME NEW t \in Thread, EditRead(t) \/ EditConflict(t) \/ Delete(t) PROVE OneRunInv'
  <2>1. Runs' = Runs /\ \A u \in Runs : step'[u] = step[u]
    BY <1>2 DEF EditRead, EditConflict, Delete, Runs, Working
  <2>2. chunks' = chunks /\ crossed' = crossed
    BY <1>2 DEF EditRead, EditConflict, Delete
  <2>. QED BY <2>1, <2>2, OneRunStays
<1>3. ASSUME NEW t \in Thread, EditWrite(t) PROVE OneRunInv'
  <2>1. CASE Start(t)
    BY <1>3, <2>1, OneRunBegins DEF EditWrite, Working
  <2>2. CASE Go(t, "done") /\ UNCHANGED crossed
    <3>1. Runs' = Runs /\ \A u \in Runs : step'[u] = step[u]
      BY <1>3, <2>2 DEF EditWrite, Runs, Working
    <3>. QED BY <1>3, <2>2, <3>1, OneRunStays DEF EditWrite
  <2>. QED BY <1>3, <2>1, <2>2 DEF EditWrite
<1>4. ASSUME NEW t \in Thread, Unlink(t) PROVE OneRunInv'
  <2>1. Runs' = Runs /\ \A u \in Runs : step'[u] = step[u]
    BY <1>4 DEF Unlink, Runs, Working
  <2>2. \A c \in chunks : [c EXCEPT !.gone = TRUE].run = c.run
    BY DEF Chunk
  <2>3. ASSUME NEW c \in chunks' PROVE \E d \in chunks : d.run = c.run
    <3>1. CASE c \in chunks BY <3>1
    <3>2. CASE c \in {[d EXCEPT !.gone = TRUE] : d \in chunks} BY <2>2, <3>2
    <3>3. chunks' \in {chunks, {[d EXCEPT !.gone = TRUE] : d \in chunks}} BY <1>4 DEF Unlink
    <3>. QED BY <3>1, <3>2, <3>3
  <2>4. chunks = {} => chunks' = {}
    BY <2>3
  <2>5. crossed' = crossed
    BY <1>4 DEF Unlink
  <2>. QED BY <2>1, <2>3, <2>4, <2>5, OneRunStays
<1>5. ASSUME NEW t \in Thread, Fails(t) \/ Embed(t) \/ DeleteChunks(t) PROVE OneRunInv'
  <2>1. Runs' \subseteq Runs
    BY <1>5 DEF Fails, Embed, DeleteChunks, Runs, Working
  <2>2. \A u \in Runs' : step'[u] = "insert" => step[u] = "insert" \/ chunks' = {}
    <3>1. step'[t] \in {"done", "delete"} \/ chunks' = {}
      BY <1>5 DEF Fails, Embed, DeleteChunks, Working
    <3>2. \A u \in Thread \ {t} : step'[u] = step[u]
      BY <1>5 DEF Fails, Embed, DeleteChunks
    <3>. QED BY <3>1, <3>2 DEF Runs
  <2>3. chunks' \subseteq chunks /\ crossed' = crossed
    BY <1>5 DEF Fails, Embed, DeleteChunks
  <2>. QED BY <2>1, <2>2, <2>3, OneRunStays
<1>6. ASSUME NEW t \in Thread, CreateChunks(t) PROVE OneRunInv'
  <2>1. SUFFICES ASSUME ~crossed' PROVE OneRunInv'
    BY DEF OneRunInv
  <2>2. ~crossed /\ t \in Runs /\ Runs' = Runs \ {t}
    BY <1>6, <2>1 DEF CreateChunks, Runs, Working
  <2>3. Runs' = {} /\ chunks = {}
    BY <1>6, <2>2 DEF OneRunInv, Alone, CreateChunks
  <2>4. \A c \in chunks' : c.run = t
    BY <1>6, <2>3 DEF CreateChunks, New
  <2>. QED
    BY <2>3, <2>4 DEF OneRunInv, Alone
<1>7. CASE Crash
  <2>1. Runs' = {} BY <1>7 DEF Crash, Runs, Working
  <2>. QED BY <1>7, <2>1, OneRunStays DEF Crash
<1>8. CASE UNCHANGED vars
  <2>1. Runs' = Runs BY <1>8 DEF vars, Runs
  <2>. QED BY <1>8, <2>1, OneRunStays DEF vars
<1>. QED
  BY <1>1, <1>2, <1>3, <1>4, <1>5, <1>6, <1>7, <1>8 DEF Next, Request, Serve

-----------------------------------------------------------------------------

LEMMA InitInv == ASSUME Init PROVE KnowledgeInv
<1> USE DEF Init, NoRow
<1>1. TypeOK
  <2>1. NoRow \in Row BY DEF Row, Status
  <2>6. chunks \subseteq Chunk OBVIOUS
  <2>2. copy \in [Thread -> Row] BY <2>1
  <2>3. step \in [Thread -> Step] BY DEF Step
  <2>4. crashes \in 0..MaxCrash OBVIOUS
  <2>5. {failed, crossed, echoed} \subseteq BOOLEAN OBVIOUS
  <2>. QED BY <2>1, <2>2, <2>3, <2>4, <2>5, <2>6 DEF TypeOK
<1>2. CopyInv BY DEF CopyInv, Working
<1>3. PartsInv BY DEF PartsInv
<1>4. RunInv BY DEF RunInv, Undisturbed
<1>5. OneRunInv BY DEF OneRunInv, Alone, Runs, Working
<1>. QED BY <1>1, <1>2, <1>3, <1>4, <1>5 DEF KnowledgeInv

LEMMA StepInv == ASSUME KnowledgeInv, [Next]_vars PROVE KnowledgeInv'
BY TypeStep, CopyStep, PartsStep, RunStep, OneRunStep DEF KnowledgeInv

\* The invariant of the knowledge base: types, what threads hold, whole texts,
\* undisturbed runs, and runs that do not overlap.
THEOREM Invariant == Spec => []KnowledgeInv
<1>1. Init => KnowledgeInv BY InitInv
<1>2. KnowledgeInv /\ [Next]_vars => KnowledgeInv' BY StepInv
<1>. QED BY <1>1, <1>2, PTL DEF Spec

\* A search never finds a part of a text, whatever runs, deletions, failures
\* and restarts come together.
THEOREM WholeTexts == Spec => []Whole
<1>1. ASSUME KnowledgeInv PROVE Whole
  <2>1. ASSUME NEW c \in Found, NEW i \in 1..Parts PROVE [c EXCEPT !.part = i] \in Found
    <3>1. c \in chunks /\ [c EXCEPT !.part = i] \in chunks
      BY <1>1 DEF KnowledgeInv, PartsInv, Found
    <3>2. [c EXCEPT !.part = i].gone = c.gone
      BY <1>1, <3>1 DEF KnowledgeInv, TypeOK, Chunk
    <3>. QED BY <3>1, <3>2 DEF Found
  <2>. QED BY <1>1, <2>1 DEF KnowledgeInv, Whole
<1>. QED BY <1>1, Invariant, PTL

\* Runs that never overlap and never fail leave the current text in the index
\* and no other.
THEOREM FreshIndex == Spec => []IndexIsFresh
<1>1. ASSUME KnowledgeInv PROVE IndexIsFresh
  BY <1>1 DEF KnowledgeInv, RunInv, Undisturbed, IndexIsFresh
<1>. QED BY <1>1, Invariant, PTL

\* Unless runs overlapped, a search never mixes the texts of two of them, also
\* after runs that failed or died half-way.
THEOREM TextsNeverMix == Spec => []OneText
<1>1. ASSUME KnowledgeInv PROVE OneText
  BY <1>1 DEF KnowledgeInv, OneRunInv, OneText, Found
<1>. QED BY <1>1, Invariant, PTL
=============================================================================
