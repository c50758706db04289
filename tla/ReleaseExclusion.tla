-------------------------- MODULE ReleaseExclusion --------------------------
(***************************************************************************)
(* "Only one release of a group at a time": TriggerRelease interrupts what *)
(* is in progress before it inserts its own row, and nothing holds the two *)
(* together.  This module names the steps of Release with which a second   *)
(* release slips in between, and says that no other step lets one in.      *)
(***************************************************************************)
EXTENDS Release

\* h has listed the running releases and has not inserted its own.
Sweeping(h) ==
    \/ In(h, "list") /\ api[h].scan = "paused"
    \/ api[h].pc \in {"iread", "icas", "number", "insert"}

\* Two requests are there at the same time.
Overlap == \E h, k \in Handlers : h # k /\ Sweeping(h) /\ Sweeping(k)

\* A release is resumed, by a request or by a progress report, or is approved,
\* beside another or during a sweep that will not come to it: neither looks
\* at the other releases.
Wakes(r) ==
    /\ status'[r] = "running" /\ status[r] \notin {"none", "running"}
    /\ \/ \E q \in Release \ {r} : IsLive(q)
       \/ \E h \in Handlers : Sweeping(h) /\ r \notin api[h].todo

\* The row changed in each of the tries to interrupt it.
GivesUp(h) ==
    /\ In(h, "icas") /\ api'[h].pc = "iread"
    /\ api[h].rel \notin api'[h].todo
    /\ version' = version

Slips ==
    \/ Overlap'
    \/ \E r \in Release : Wakes(r)
    \/ \E h \in Handlers : GivesUp(h)

\* What a sweep has achieved at each of its steps.
SweepSound(h) ==
    LET c == api[h] IN
    /\ c.pc \in {"sweep", "unmark"} => c.scan = "running"
    /\ In(h, "list") /\ c.scan = "paused" =>
          c.todo = {} /\ \A r \in Release : status[r] # "running"
    /\ c.pc \in {"iread", "icas"} => \A r \in Release :
          IsLive(r) => \/ r \in c.todo
                       \/ c.scan = "running" /\ status[r] = "paused"
    /\ In(h, "icas") => c.rel \in c.todo
    /\ c.pc \in {"number", "insert"} =>
          c.todo = {} /\ \A r \in Release : ~IsLive(r)

\* One release is in progress at most, and one sweep that does what it should.
InOrder ==
    /\ OneActiveRelease
    /\ ~Overlap
    /\ \A h \in Handlers : SweepSound(h)

\* A group in order stays in order, whatever is triggered, interrupted,
\* aborted, rolled back, rejected or lost in a crash, unless a second release
\* slips in as above.  It may be in order again once what slipped in is over,
\* and the same holds from there on.
StaysExclusive == [][InOrder /\ ~Slips => InOrder']_vars
=============================================================================
