----------------------------- MODULE Knowledge -----------------------------
(***************************************************************************)
(* The index of one document of the assistant's knowledge base (kbapp,     *)
(* kbrepo): the row of vo_kb_documents, the rows of vo_kb_chunks that RAG  *)
(* searches, and the requests that create, edit, delete and reindex the    *)
(* document.  A request that changes the content starts a goroutine that   *)
(* cuts the text into chunks, has them embedded and replaces the stored    *)
(* ones; here the request and its goroutine are one thread, which makes    *)
(* one database statement or transaction a step.                           *)
(***************************************************************************)
EXTENDS Naturals

CONSTANTS
  Thread,     \* requests, each with the goroutine it may start
  Parts,      \* chunks a text is cut into
  MaxText,    \* bound: texts the document has had
  MaxCrash    \* bound: restarts of the API process

ASSUME BoundsAssumption == Parts \in Nat \ {0} /\ MaxText \in Nat \ {0} /\ MaxCrash \in Nat

Status == {"indexing", "active", "archived"}
Text == 1..MaxText
Row == [live : BOOLEAN, text : 0..MaxText, status : Status, version : Nat]
Chunk == [run : Thread, text : Text, part : 1..Parts, gone : BOOLEAN]
Working == {"embed", "delete", "insert"}
Step == {"free", "edit", "unlink", "done"} \cup Working

VARIABLES
  doc,      \* the document's row; live FALSE before it is created and once it is deleted
  chunks,   \* its rows of vo_kb_chunks; gone is their deleted column
  step,     \* where each thread is
  copy,     \* the row a thread has read and changed, or the text it indexes
  crashes,  \* restarts so far
  failed,   \* history: a run ended without its index
  crossed,  \* history: two runs were under way at once
  echoed    \* history: an edit wrote back the status a run had just replaced

vars == <<doc, chunks, step, copy, crashes, failed, crossed, echoed>>
history == <<failed, crossed, echoed>>

NoRow == [live |-> FALSE, text |-> 0, status |-> "indexing", version |-> 0]

Init ==
  /\ doc = NoRow
  /\ chunks = {}
  /\ step = [t \in Thread |-> "free"]
  /\ copy = [t \in Thread |-> NoRow]
  /\ crashes = 0
  /\ failed = FALSE /\ crossed = FALSE /\ echoed = FALSE

Go(t, s) == step' = [step EXCEPT ![t] = s]
Keep(t, row) == copy' = [copy EXCEPT ![t] = row]

Runs == {t \in Thread : step[t] \in Working}

\* The goroutine of a create or an edit, or a manual reindex, starts on a text.
Start(t) == Go(t, "embed") /\ crossed' = (crossed \/ Runs # {})

-----------------------------------------------------------------------------
(* The requests *)

\* CreateDocument: the row is inserted as indexing and its goroutine started.
Create(t) ==
  /\ step[t] = "free" /\ doc = NoRow
  /\ doc' = [live |-> TRUE, text |-> 1, status |-> "indexing", version |-> 1]
  /\ Keep(t, doc')
  /\ Start(t)
  /\ UNCHANGED <<chunks, crashes, failed, echoed>>

\* What an edit makes of the row it read: an explicit status wins, a changed
\* text asks for a new index, anything else leaves the status it read.
Edited(row, text, status) ==
  [row EXCEPT !.text = text,
              !.status = IF status \in Status THEN status
                         ELSE IF text # row.text THEN "indexing" ELSE @]

\* UpdateDocument up to its UPDATE: the row is read and the changes are applied
\* to the copy; "kept" is a request without a status.
EditRead(t) ==
  /\ step[t] = "free" /\ doc.live
  /\ \E text \in Text, status \in {"active", "archived", "kept"} :
       Keep(t, Edited(doc, text, status))
  /\ Go(t, "edit")
  /\ UNCHANGED <<doc, chunks, crashes, history>>

\* The UPDATE compares the version, which CreateChunks does not raise.  A
\* changed text starts the goroutine that indexes it.
EditWrite(t) ==
  /\ step[t] = "edit" /\ doc.live /\ doc.version = copy[t].version
  /\ doc' = [copy[t] EXCEPT !.version = @ + 1]
  /\ echoed' = (echoed \/ (copy[t].status = "indexing" /\ copy[t].text = doc.text
                             /\ doc.status # "indexing"))
  /\ IF copy[t].text # doc.text THEN Start(t) ELSE Go(t, "done") /\ UNCHANGED crossed
  /\ UNCHANGED <<chunks, copy, crashes, failed>>

EditConflict(t) ==
  /\ step[t] = "edit" /\ ~(doc.live /\ doc.version = copy[t].version)
  /\ Go(t, "done")
  /\ UNCHANGED <<doc, chunks, copy, crashes, history>>

\* DeleteDocument: the row first, its chunks by a second statement whose error
\* is ignored.
Delete(t) ==
  /\ step[t] = "free" /\ doc.live
  /\ doc' = [doc EXCEPT !.live = FALSE, !.version = @ + 1]
  /\ Go(t, "unlink")
  /\ UNCHANGED <<chunks, copy, crashes, history>>

Unlink(t) ==
  /\ step[t] = "unlink"
  /\ chunks' \in {chunks, {[c EXCEPT !.gone = TRUE] : c \in chunks}}
  /\ Go(t, "done")
  /\ UNCHANGED <<doc, copy, crashes, history>>

\* POST /kb/documents/{id}/reindex: the text is read, then indexed.
Reindex(t) ==
  /\ step[t] = "free" /\ doc.live
  /\ Keep(t, doc)
  /\ Start(t)
  /\ UNCHANGED <<doc, chunks, crashes, failed, echoed>>

-----------------------------------------------------------------------------
(* ReindexDocument *)

\* An error of the embedding service or of a statement ends the run there; so
\* does the end of the request a manual reindex belongs to.
Fails(t) ==
  /\ step[t] \in Working
  /\ Go(t, "done")
  /\ failed' = TRUE
  /\ UNCHANGED <<doc, chunks, copy, crashes, crossed, echoed>>

Embed(t) ==
  /\ step[t] = "embed"
  /\ Go(t, "delete")
  /\ UNCHANGED <<doc, chunks, copy, crashes, history>>

\* Mutant: the old chunks are left where they are.
KeepChunks(t) ==
  /\ step[t] = "delete"
  /\ Go(t, "insert")
  /\ UNCHANGED <<doc, chunks, copy, crashes, history>>

DeleteChunks(t) ==
  /\ step[t] = "delete"
  /\ chunks' = {}
  /\ Go(t, "insert")
  /\ UNCHANGED <<doc, copy, crashes, history>>

\* CreateChunks is one transaction: the chunks and, whatever the row says by
\* now, its status.
New(t) == {[run |-> t, text |-> copy[t].text, part |-> i, gone |-> FALSE] : i \in 1..Parts}

\* Mutant: no transaction, so a failure may leave the first chunks behind.
CreateSomeChunks(t) ==
  /\ step[t] = "insert"
  /\ \E n \in 1..Parts : chunks' = chunks \cup {c \in New(t) : c.part <= n}
  /\ doc' = [doc EXCEPT !.status = "active"]
  /\ Go(t, "done")
  /\ UNCHANGED <<copy, crashes, history>>

\* Mutant: the document's row is not touched.
CreateChunksOnly(t) ==
  /\ step[t] = "insert"
  /\ chunks' = chunks \cup New(t)
  /\ Go(t, "done")
  /\ UNCHANGED <<doc, copy, crashes, history>>

CreateChunks(t) ==
  /\ step[t] = "insert"
  /\ chunks' = chunks \cup New(t)
  /\ doc' = [doc EXCEPT !.status = "active"]
  /\ Go(t, "done")
  /\ UNCHANGED <<copy, crashes, history>>

\* The API process dies with every request and goroutine of it.
Crash ==
  /\ crashes < MaxCrash
  /\ \E t \in Thread : step[t] \notin {"free", "done"}
  /\ crashes' = crashes + 1
  /\ failed' = (failed \/ Runs # {})
  /\ step' = [t \in Thread |-> IF step[t] = "free" THEN "free" ELSE "done"]
  /\ UNCHANGED <<doc, chunks, copy, crossed, echoed>>

Request(t) == Create(t) \/ EditRead(t) \/ Delete(t) \/ Reindex(t)
Serve(t) ==
  EditWrite(t) \/ EditConflict(t) \/ Unlink(t) \/ Embed(t) \/ DeleteChunks(t) \/ CreateChunks(t)

Next == (\E t \in Thread : Request(t) \/ Serve(t) \/ Fails(t)) \/ Crash

\* A thread that can go on does; nobody has to send a request.
Fairness == \A t \in Thread : WF_vars(Serve(t))
Spec == Init /\ [][Next]_vars /\ Fairness

-----------------------------------------------------------------------------
(* Properties *)

TypeOK ==
  /\ doc \in Row
  /\ chunks \subseteq Chunk
  /\ step \in [Thread -> Step]
  /\ copy \in [Thread -> Row]
  /\ crashes \in 0..MaxCrash
  /\ {failed, crossed, echoed} \subseteq BOOLEAN

\* What SearchByVector can return.
Found == IF doc.live /\ doc.status = "active" THEN {c \in chunks : ~c.gone} ELSE {}

\* Type correctness, and a run's chunks are found all or none: no interleaving of
\* runs, deletions, failures and restarts leaves a part of a text to the search.
Whole ==
  /\ TypeOK
  /\ \A c \in Found : \A i \in 1..Parts : [c EXCEPT !.part = i] \in Found

\* Runs that never overlap and never fail leave exactly the current text in the
\* index, whatever edits, archivings and manual reindexes there were.
IndexIsFresh ==
  doc.live /\ ~failed /\ ~crossed /\ Runs = {} =>
    \E t \in Thread : copy[t].text = doc.text /\ chunks = New(t)

\* Texts that are replaced never mix: unless runs overlapped, whatever is found is of
\* one run, also when runs failed or died half-way and others came after them.
OneText == ~crossed => \A c, d \in Found : c.run = d.run

\* A document marked as being indexed is searchable, archived or deleted in the end,
\* unless a run failed or an edit wrote the mark back over a finished one.
Indexed == [](doc.live /\ doc.status = "indexing" => <>(~doc.live \/ doc.status # "indexing" \/ failed \/ echoed))
=============================================================================
