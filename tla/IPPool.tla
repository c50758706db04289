------------------------------- MODULE IPPool -------------------------------
(***************************************************************************)
(* Stable IP addresses: the pools' entries, the allocations that record    *)
(* them, and the operations that change both while running concurrently in *)
(* the API and webhook processes: AllocateForGroup (a release),            *)
(* AllocateForPod (the admission of a Pod) and ReleaseForGroup (a group's  *)
(* deletion).                                                              *)
(*                                                                         *)
(* A transaction is two steps under READ COMMITTED.  The first takes its   *)
(* row locks, the second applies its writes and commits: what another      *)
(* transaction commits between the two is seen by the later statements     *)
(* and not by the first.                                                   *)
(***************************************************************************)
EXTENDS Naturals, FiniteSets, Sequences

CONSTANTS
    Group,
    Address,       \* numbers, in the order of ip_address
    Span,          \* Span[p]: the addresses of pool p; pools may overlap
    TakeFrom,      \* TakeFrom[g]: the pools g allocates from, in order
    ReleaseFrom,   \* ReleaseFrom[g]: all the pools of g's cluster, in order
    Replicas,      \* replica counts a group may have
    Caller,        \* requests of the API process
    Pod,           \* Pods; each is the admission that creates it as well
    ListMayFail,   \* TRUE: listing the Pods may fail
    MaxIndex,      \* bound: replica_index an incremental allocation starts at
    Nobody         \* no group

Pool == DOMAIN Span
Entry == {e \in Pool \X Address : e[2] \in Span[e[1]]}
Thread == Caller \cup Pod
Owner == Group \cup {Nobody}

ASSUME IPPoolAssumption ==
    /\ Nobody \notin Group
    /\ Address \subseteq Nat
    /\ \A p \in Pool : Span[p] \subseteq Address
    /\ IsFiniteSet(Entry)
    /\ TakeFrom \in [Group -> Seq(Pool)]
    /\ ReleaseFrom \in [Group -> Seq(Pool)]
    /\ Replicas \subseteq Nat \ {0}
    /\ Caller \cap Pod = {}
    /\ \A g \in Group : \A i \in DOMAIN TakeFrom[g] :
           \E j \in DOMAIN ReleaseFrom[g] : ReleaseFrom[g][j] = TakeFrom[g][i]
    /\ ListMayFail \in BOOLEAN
    /\ MaxIndex \in Nat

VARIABLES
    holder,   \* vo_cluster_ip_pool_entries: the group an entry is allocated to
    lease,    \* vo_cluster_ip_allocations: the group of the 'allocated' row
    slot,     \* ... and its replica_index (0 when no such row: not read)
    count,    \* vo_cluster_ip_pools.allocated_count
    gone,     \* deleted groups
    step,     \* where each thread is
    of,       \* the group it works for
    lock,     \* entries its open transaction has locked
    job,      \* its local variables
    beside    \* history: groups that were allocated for while being deleted

tables == <<holder, lease, slot, count>>
vars == <<holder, lease, slot, count, gone, step, of, lock, job, beside>>

Job == [pools : Seq(Pool),       \* pools still to visit, the current one first
        want : Nat,              \* addresses to take
        first : Nat,             \* replica_index of the first of them
        number : BOOLEAN,        \* the batch is followed by AllocateIP calls
        todo : SUBSET Entry,     \* entries AllocateIP is still to be called for
        next : Nat,              \* replica_index for the next of them
        ips : SUBSET Address,    \* addresses to return
        used : SUBSET Address,   \* InUseIPs
        busy : SUBSET Nat]       \* OccupiedReplicaIndices

NoJob == [pools |-> <<>>, want |-> 0, first |-> 0, number |-> FALSE,
          todo |-> {}, next |-> 0, ips |-> {}, used |-> {}, busy |-> {}]

TypeOK ==
    /\ holder \in [Entry -> Owner]
    /\ lease \in [Entry -> Owner]
    /\ slot \in [Entry -> Nat]
    /\ count \in [Pool -> Nat]
    /\ gone \in SUBSET Group
    /\ step \in [Thread -> {"idle", "asked", "listed", "take", "taking", "undo",
                            "undoing", "number", "release", "releasing",
                            "answered", "pending", "running", "terminating"}]
    /\ of \in [Thread -> Owner]
    /\ lock \in [Thread -> SUBSET Entry]
    /\ job \in [Thread -> Job]
    /\ beside \in SUBSET Group

Init ==
    /\ holder = [e \in Entry |-> Nobody]
    /\ lease = [e \in Entry |-> Nobody]
    /\ slot = [e \in Entry |-> 0]
    /\ count = [p \in Pool |-> 0]
    /\ gone = {}
    /\ step = [t \in Thread |-> "idle"]
    /\ of = [t \in Thread |-> Nobody]
    /\ lock = [t \in Thread |-> {}]
    /\ job = [t \in Thread |-> NoJob]
    /\ beside = {}

-----------------------------------------------------------------------------
EntriesOf(p) == {e \in Entry : e[1] = p}
Addresses(S) == {e[2] : e \in S}
Leased(g) == {e \in Entry : lease[e] = g}

Rank(S, e) == Cardinality({x \in S : x[2] < e[2]})
Lowest(S, n) == {e \in S : Rank(S, e) < n}      \* ORDER BY ip_address LIMIT n

LockedByOther(t, e) == \E o \in Thread \ {t} : e \in lock[o]

\* uq_ip_allocations_ip_active: another allocated row has the address.
Duplicate(S) == \E e \in S, d \in Entry : d # e /\ d[2] = e[2]
                                              /\ lease[d] # Nobody

Goto(t, s) == step' = [step EXCEPT ![t] = s]

\* The operation returns these addresses; local variables are dropped.
Answer(t, S, index) ==
    /\ Goto(t, "answered")
    /\ job' = [job EXCEPT ![t] = [NoJob EXCEPT !.ips = S, !.first = index]]

Assign(S, g, from) ==
    /\ holder' = [e \in Entry |-> IF e \in S THEN g ELSE holder[e]]
    /\ lease' = [e \in Entry |-> IF e \in S THEN g ELSE lease[e]]
    /\ slot' = [e \in Entry |-> IF e \in S THEN from + Rank(S, e) ELSE slot[e]]

-----------------------------------------------------------------------------
(* AllocateIPsBatch(pool, n).                                              *)

\* Mutant: SELECT ... LIMIT n, with no row lock taken into account.
FreeUnlocked(t) == {e \in EntriesOf(Head(job[t].pools)) : holder[e] = Nobody}

\* SELECT ... FOR UPDATE SKIP LOCKED LIMIT n.  With no row the batch fails
\* with ErrIPExhausted and the caller goes on to its next pool.
Free(t) == {e \in EntriesOf(Head(job[t].pools)) :
                holder[e] = Nobody /\ ~LockedByOther(t, e)}

BatchSelect(t) ==
    /\ step[t] = "take"
    /\ job[t].pools # <<>>
    /\ IF Free(t) = {}
       THEN /\ job' = [job EXCEPT ![t].pools = Tail(@)]
            /\ UNCHANGED <<step, lock>>
       ELSE /\ lock' = [lock EXCEPT ![t] = Lowest(Free(t), job[t].want)]
            /\ Goto(t, "taking")
            /\ UNCHANGED job
    /\ UNCHANGED <<tables, gone, of>>

Count(p, n) == count' = [count EXCEPT ![p] = @ + n]

\* Mutant: the counter grows by what was asked for.
BatchCountWanted(t) == Count(Head(job[t].pools), job[t].want)

\* UPDATE vo_cluster_ip_pools SET allocated_count = allocated_count + $2.
BatchCount(t) == Count(Head(job[t].pools), Cardinality(lock[t]))

\* The rest of the transaction: replica_index is 0, 1, ... in every batch.
\* The unique index may refuse an address, which rolls the batch back; a
\* batch that came out short is undone with ReleaseByResource.
BatchCommit(t) ==
    /\ step[t] = "taking"
    /\ ~Duplicate(lock[t])
    /\ Assign(lock[t], of[t], 0)
    /\ BatchCount(t)
    /\ lock' = [lock EXCEPT ![t] = {}]
    /\ LET all == job[t].ips \cup Addresses(lock[t]) IN
       CASE Cardinality(lock[t]) < job[t].want ->
                Goto(t, "undo") /\ UNCHANGED job
         [] Cardinality(lock[t]) >= job[t].want /\ job[t].number ->
                /\ Goto(t, "number")
                /\ job' = [job EXCEPT ![t].todo = lock[t], ![t].ips = all,
                                       ![t].next = job[t].first]
         [] OTHER -> Answer(t, all, 0)
    /\ UNCHANGED <<gone, of>>

BatchRefused(t) ==
    /\ step[t] = "taking"
    /\ Duplicate(lock[t])
    /\ lock' = [lock EXCEPT ![t] = {}]
    /\ Answer(t, job[t].ips, 0)
    /\ UNCHANGED <<tables, gone, of>>

\* No pool was left: AllocateForGroup returns what the group already had,
\* AllocateForPod an error, on which the Pod goes without a stable address.
Exhausted(t) ==
    /\ step[t] = "take"
    /\ job[t].pools = <<>>
    /\ Answer(t, job[t].ips, 0)
    /\ UNCHANGED <<tables, gone, of, lock>>

\* Mutant: the UPDATE of the entry without its status condition.
TakeableAny(e) == TRUE

\* WHERE ... AND status IN ('free', 'reserved')
Takeable(e) == holder[e] = Nobody

\* AllocateIP, called for each entry of the batch to correct replica_index.
\* It updates an entry that is free, so normally none; its error is dropped.
AllocateIP(t) ==
    /\ step[t] = "number"
    /\ job[t].todo # {}
    /\ \E e \in Lowest(job[t].todo, 1) :
          /\ ~LockedByOther(t, e)
          /\ IF Takeable(e) /\ ~Duplicate({e})
             THEN Assign({e}, of[t], job[t].next) /\ Count(e[1], 1)
             ELSE UNCHANGED tables
          /\ job' = [job EXCEPT ![t].todo = @ \ {e}, ![t].next = @ + 1]
    /\ UNCHANGED <<gone, step, of, lock>>

Numbered(t) ==
    /\ step[t] = "number"
    /\ job[t].todo = {}
    /\ Answer(t, job[t].ips, job[t].first)
    /\ UNCHANGED <<tables, gone, of, lock>>

-----------------------------------------------------------------------------
(* ReleaseByResource(pool, g): all the group has in the pool.              *)

\* The UPDATE of the entries waits for rows that others have locked.
ReleaseSelect(t) ==
    /\ step[t] \in {"undo", "release"}
    /\ job[t].pools # <<>>
    /\ LET S == {e \in EntriesOf(Head(job[t].pools)) : holder[e] = of[t]} IN
       /\ \A e \in S : ~LockedByOther(t, e)
       /\ lock' = [lock EXCEPT ![t] = S]
    /\ Goto(t, IF step[t] = "undo" THEN "undoing" ELSE "releasing")
    /\ UNCHANGED <<tables, gone, of, job>>

\* Mutant: the two statements in the other order.
FreeRowsSwapped(t) ==
    /\ lease' = [e \in Entry |-> IF e \in lock[t] THEN Nobody ELSE lease[e]]
    /\ holder' = [e \in Entry |->
                    IF e[1] = Head(job[t].pools) /\ holder[e] = of[t]
                    THEN Nobody ELSE holder[e]]
    /\ slot' = slot

\* The entries of the first statement become free.  The second statement
\* releases the allocations of the group that are committed by now.
FreeRows(t) ==
    /\ holder' = [e \in Entry |-> IF e \in lock[t] THEN Nobody ELSE holder[e]]
    /\ lease' = [e \in Entry |->
                    IF e[1] = Head(job[t].pools) /\ lease[e] = of[t]
                    THEN Nobody ELSE lease[e]]
    /\ slot' = [e \in Entry |-> IF lease'[e] = Nobody THEN 0 ELSE slot[e]]

ReleaseCommit(t) ==
    /\ step[t] \in {"undoing", "releasing"}
    /\ FreeRows(t)
    /\ count' = [count EXCEPT ![Head(job[t].pools)] =
                    IF @ > Cardinality(lock[t]) THEN @ - Cardinality(lock[t])
                                                ELSE 0]
    /\ lock' = [lock EXCEPT ![t] = {}]
    /\ job' = [job EXCEPT ![t].pools = Tail(@)]
    /\ Goto(t, IF step[t] = "undoing" THEN "take" ELSE "release")
    /\ UNCHANGED <<gone, of>>

-----------------------------------------------------------------------------
(* Requests of the API process.                                            *)

\* The group has enough addresses: the n with the lowest replica_index.
Reuse(t, had, n) ==
    /\ Cardinality(had) >= n
    /\ \E S \in SUBSET had :
          /\ Cardinality(S) = n
          /\ \A e \in S, d \in had \ S : slot[e] <= slot[d]
          /\ Answer(t, Addresses(S), 0)

\* It has fewer: allocate the missing ones, numbered after the highest
\* replica_index if it has any (allocateIncremental).
Grow(t, g, had, n) ==
    /\ Cardinality(had) < n
    /\ \E i \in 0..MaxIndex :
          /\ had = {} => i = 0
          /\ had # {} => \E e \in had : /\ \A d \in had : slot[d] <= slot[e]
                                       /\ i = slot[e] + 1
          /\ job' = [job EXCEPT ![t] =
                [NoJob EXCEPT !.pools = TakeFrom[g],
                              !.want = n - Cardinality(had),
                              !.first = i,
                              !.number = (had # {}),
                              !.ips = Addresses(had)]]
    /\ Goto(t, "take")

\* A release reads its group when it is triggered, and not again.
ReadGroup(t, g) ==
    /\ step[t] = "idle"
    /\ g \notin gone
    /\ Goto(t, "asked")
    /\ of' = [of EXCEPT ![t] = g]
    /\ UNCHANGED <<tables, gone, lock, job>>

\* AllocateForGroup(g, n), called by the release's goroutine.
AllocateForGroup(t, g, n) ==
    /\ step[t] = "asked"
    /\ of[t] = g
    /\ \/ Reuse(t, Leased(g), n)
       \/ Grow(t, g, Leased(g), n)
    /\ UNCHANGED <<tables, gone, of, lock>>

Finish(t) ==
    /\ Goto(t, "idle")
    /\ of' = [of EXCEPT ![t] = Nobody]
    /\ job' = [job EXCEPT ![t] = NoJob]
    /\ UNCHANGED <<tables, gone, lock>>

Return(t) == step[t] = "answered" /\ Finish(t)

\* DeleteGroup: ReleaseForGroup over the cluster's pools, then the row.
DeleteGroup(t, g) ==
    /\ step[t] = "idle"
    /\ g \notin gone
    /\ Goto(t, "release")
    /\ of' = [of EXCEPT ![t] = g]
    /\ job' = [job EXCEPT ![t].pools = ReleaseFrom[g]]
    /\ UNCHANGED <<tables, gone, lock>>

\* Mutant: the row goes first.
DeleteRowFirst(t) ==
    /\ step[t] = "release"
    /\ gone' = gone \cup {of[t]}
    /\ IF job[t].pools = <<>>
       THEN Goto(t, "idle") /\ of' = [of EXCEPT ![t] = Nobody]
       ELSE UNCHANGED <<step, of>>
    /\ UNCHANGED <<tables, lock, job>>

DeleteRow(t) ==
    /\ step[t] = "release"
    /\ job[t].pools = <<>>
    /\ gone' = gone \cup {of[t]}
    /\ Goto(t, "idle")
    /\ of' = [of EXCEPT ![t] = Nobody]
    /\ UNCHANGED <<tables, lock, job>>

-----------------------------------------------------------------------------
(* Pods and their admission by the webhook.                                *)

Visible(g) == {k \in Pod : of[k] = g /\ step[k] \in {"pending", "running"}}
Running == {k \in Pod : step[k] = "running"}
Stable == {k \in Pod : job[k].ips # {}}
Wanted(g) == {k \in Pod : of[k] = g /\ step[k] \notin {"idle", "terminating"}}

\* The ReplicaSet creates a Pod while it has fewer than n (maxSurge = 0; one
\* that terminates does not count).  The webhook lists the group's Pods:
\* addresses of the running ones, indices of all; none when listing fails.
Admit(k, g, n) ==
    /\ step[k] = "idle"
    /\ g \notin gone
    /\ Cardinality(Wanted(g)) < n
    /\ Goto(k, "listed")
    /\ of' = [of EXCEPT ![k] = g]
    /\ \E seen \in {Visible(g)} \cup (IF ListMayFail THEN {{}} ELSE {}) :
          job' = [job EXCEPT ![k] = [NoJob EXCEPT
              !.want = n,
              !.used = UNION {job[o].ips : o \in seen \cap Running},
              !.busy = {job[o].first : o \in seen \cap Stable}]]
    /\ UNCHANGED <<tables, gone, lock>>

\* AllocateForPod after ListAllocationsByResource: the first allocation that
\* looks unused, else a new address for the first slot without one.
Reusable(k) == {e \in Leased(of[k]) : /\ slot[e] < job[k].want
                                      /\ slot[e] \notin job[k].busy
                                      /\ e[2] \notin job[k].used}

EmptySlots(k) == {i \in 0..(job[k].want - 1) :
                     /\ i \notin job[k].busy
                     /\ \A e \in Leased(of[k]) : slot[e] # i}

AllocateForPod(k) ==
    /\ step[k] = "listed"
    /\ \/ \E e \in Reusable(k) :
             /\ \A d \in Reusable(k) : slot[e] <= slot[d]
             /\ Answer(k, {e[2]}, slot[e])
       \/ /\ Reusable(k) = {}
          /\ \E i \in EmptySlots(k) :
                /\ \A j \in EmptySlots(k) : i <= j
                /\ Goto(k, "take")
                /\ job' = [job EXCEPT ![k] =
                      [NoJob EXCEPT !.pools = TakeFrom[of[k]], !.want = 1,
                                    !.first = i, !.number = TRUE]]
       \/ /\ Reusable(k) = {}
          /\ EmptySlots(k) = {}
          /\ Answer(k, {}, 0)
    /\ UNCHANGED <<tables, gone, of, lock>>

\* The Pod becomes visible with the annotations it was given, runs, is
\* deleted, and is gone when its containers have stopped.
PodMoves(k, from, to) ==
    /\ step[k] = from
    /\ Goto(k, to)
    /\ UNCHANGED <<tables, gone, of, lock, job>>

Persist(k)   == PodMoves(k, "answered", "pending")
Run(k)       == PodMoves(k, "pending", "running")
Terminate(k) == \E s \in {"pending", "running"} : PodMoves(k, s, "terminating")
Vanish(k)    == step[k] = "terminating" /\ Finish(k)

-----------------------------------------------------------------------------
Transaction(t) ==
    \/ BatchSelect(t)
    \/ BatchCommit(t)
    \/ BatchRefused(t)
    \/ Exhausted(t)
    \/ AllocateIP(t)
    \/ Numbered(t)
    \/ ReleaseSelect(t)
    \/ ReleaseCommit(t)

Request(t) ==
    \/ \E g \in Group : ReadGroup(t, g)
    \/ \E g \in Group, n \in Replicas : AllocateForGroup(t, g, n)
    \/ Return(t)
    \/ \E g \in Group : DeleteGroup(t, g)
    \/ DeleteRow(t)

PodLife(k) ==
    \/ \E g \in Group, n \in Replicas : Admit(k, g, n)
    \/ AllocateForPod(k)
    \/ Persist(k)
    \/ Run(k)
    \/ Terminate(k)
    \/ Vanish(k)

\* t may still take entries for g; it is deleting g.
Allocating(t, g) == of[t] = g /\ step[t] \in {"asked", "listed", "take", "taking",
                                             "undo", "undoing", "number"}
Deleting(t, g) == of[t] = g /\ step[t] \in {"release", "releasing"}
Meeting(g) == (\E t \in Thread : Allocating(t, g)) /\ \E t \in Thread : Deleting(t, g)

Next == /\ \/ \E t \in Thread : Transaction(t)
           \/ \E t \in Caller : Request(t)
           \/ \E k \in Pod : PodLife(k)
        /\ beside' = beside \cup {g \in Group : Meeting(g)'}

Spec == Init /\ [][Next]_vars

-----------------------------------------------------------------------------
(* Properties.                                                             *)

\* What an open transaction may rely on: the entries a batch has selected
\* stay free and those a release has selected stay its group's, because no
\* two transactions lock the same entry (FOR UPDATE SKIP LOCKED in
\* AllocateIPsBatch, row locks of the UPDATE in ReleaseByResource).
LocksHeld(t) ==
    /\ lock[t] # {} => step[t] \in {"taking", "undoing", "releasing"}
    /\ step[t] = "taking" => \A e \in lock[t] : holder[e] = Nobody
    /\ step[t] \in {"undoing", "releasing"} =>
           \A e \in lock[t] : holder[e] = of[t]
    /\ step[t] \in {"taking", "undoing", "releasing"} =>
           lock[t] \subseteq EntriesOf(Head(job[t].pools))
    /\ step[t] # "idle" => of[t] \in Group
    /\ step[t] \in {"taking", "undo", "undoing", "releasing"} =>
           job[t].pools # <<>>

LockInv ==
    /\ TypeOK
    /\ \A t \in Thread : LocksHeld(t)
    /\ \A t, o \in Thread : t # o => lock[t] \cap lock[o] = {}

\* An address passes from group to group only by being given back first,
\* whatever batches, undone batches, renumberings and deletions overlap.
Ownership == INSTANCE IPOwnership WITH owner <- holder
ImplementsOwnership == Ownership!Spec

\* The two tables agree in one direction: an address recorded as allocated
\* to a group is allocated to it.  (The other direction fails: a release
\* between a batch of its own group and the batch's commit leaves an entry
\* allocated whose allocation is released.)
LeaseBacked == \A e \in Entry : lease[e] \in {Nobody, holder[e]}

\* allocated_count counts the allocated entries of the pool, although both
\* ReleaseByResource and the batches change it by what they selected.
CountMatches == \A p \in Pool :
    count[p] = Cardinality({e \in EntriesOf(p) : holder[e] # Nobody})

\* A deleted group holds nothing, whatever pools it allocated from, unless a
\* release or the admission of a Pod was under way beside its deletion: that
\* one's addresses are lost for ever.
DeletedHoldsNothing == \A g \in gone \ beside :
    \A e \in Entry : holder[e] # g /\ lease[e] # g

\* "Scale-out: reuse the existing addresses and allocate the missing ones":
\* the addresses AllocateForGroup returns are allocated to the group.
ReturnedAreKept == \A t \in Caller : step[t] = "answered" =>
    \A a \in job[t].ips : \E e \in Leased(of[t]) : e[2] = a
=============================================================================
