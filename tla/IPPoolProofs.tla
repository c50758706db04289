---------------------------- MODULE IPPoolProofs ----------------------------
(***************************************************************************)
(* LockInv is inductive: no two transactions ever lock the same entry, so  *)
(* what a transaction selected still holds when it commits.  From this     *)
(* follow that entries change hands only by being free in between, and     *)
(* that every recorded allocation is backed by an entry.                   *)
(***************************************************************************)
EXTENDS IPPool, FiniteSetTheorems, TLAPS

-----------------------------------------------------------------------------
(* The operators.                                                          *)

LEMMA CountNat ==
    ASSUME NEW S \in SUBSET Entry
    PROVE  IsFiniteSet(S) /\ Cardinality(S) \in Nat
  BY IPPoolAssumption, FS_Subset, FS_CardinalityType

LEMMA RankNat ==
    ASSUME NEW S \in SUBSET Entry, NEW e
    PROVE  Rank(S, e) \in Nat
  <1>1. {x \in S : x[2] < e[2]} \in SUBSET Entry
    OBVIOUS
  <1>2. QED
    BY <1>1, CountNat DEF Rank

LEMMA AddressesType ==
    ASSUME NEW S \in SUBSET Entry
    PROVE  Addresses(S) \in SUBSET Address
  BY IPPoolAssumption DEF Addresses, Entry, Pool

LEMMA NoJobType == NoJob \in Job
  BY DEF NoJob, Job

LEMMA FreeType ==
    ASSUME NEW t \in Thread
    PROVE  /\ Free(t) \in SUBSET Entry
           /\ \A n : Lowest(Free(t), n) \in SUBSET Free(t)
  BY DEF Free, EntriesOf, Lowest

LEMMA CountType ==
    ASSUME NEW f \in [Pool -> Nat], NEW p, NEW v, p \in Pool => v \in Nat
    PROVE  [f EXCEPT ![p] = v] \in [Pool -> Nat]
  OBVIOUS

LEMMA JobFields ==
    ASSUME TypeOK, NEW t \in Thread
    PROVE  /\ job[t] \in Job
           /\ job[t].pools \in Seq(Pool) /\ job[t].want \in Nat
           /\ job[t].first \in Nat /\ job[t].next \in Nat
           /\ job[t].todo \subseteq Entry /\ job[t].ips \subseteq Address
           /\ job[t].busy \subseteq Nat /\ job[t].used \subseteq Address
  BY DEF TypeOK, Job

LEMMA JobNumber ==
    ASSUME NEW j \in Job, NEW T \in SUBSET Entry, NEW A \in SUBSET Address,
           NEW n \in Nat
    PROVE  /\ [j EXCEPT !.todo = T, !.ips = A, !.next = n] \in Job
           /\ [j EXCEPT !.todo = T, !.next = n] \in Job
  BY DEF Job

\* What Answer leaves behind is a well-typed job.
LEMMA AnswerType ==
    ASSUME TypeOK, NEW t \in Thread, NEW S \in SUBSET Address,
           NEW i \in Nat, Answer(t, S, i)
    PROVE  /\ step' \in [Thread -> {"idle", "asked", "listed", "take",
                            "taking", "undo", "undoing", "number", "release",
                            "releasing", "answered", "pending", "running",
                            "terminating"}]
           /\ job' \in [Thread -> Job]
  <1>1. [NoJob EXCEPT !.ips = S, !.first = i] \in Job
    BY NoJobType DEF Job
  <1>2. QED
    BY <1>1 DEF TypeOK, Answer, Goto

LEMMA AssignType ==
    ASSUME TypeOK, NEW S \in SUBSET Entry, NEW g \in Owner, NEW n \in Nat,
           Assign(S, g, n)
    PROVE  /\ holder' \in [Entry -> Owner]
           /\ lease' \in [Entry -> Owner]
           /\ slot' \in [Entry -> Nat]
  <1>1. \A e \in Entry : n + Rank(S, e) \in Nat
    BY RankNat
  <1>2. QED
    BY <1>1 DEF TypeOK, Assign

-----------------------------------------------------------------------------
(* Types.                                                                  *)

Steps == {"idle", "asked", "listed", "take", "taking", "undo", "undoing", "number",
          "release", "releasing", "answered", "pending", "running",
          "terminating"}

LEMMA GotoType ==
    ASSUME TypeOK, NEW t \in Thread, NEW s \in Steps, Goto(t, s)
    PROVE  step' \in [Thread -> Steps]
  BY DEF TypeOK, Goto, Steps

LEMMA PoolsTail ==
    ASSUME TypeOK, NEW t \in Thread, job[t].pools # <<>>,
           job' = [job EXCEPT ![t].pools = Tail(@)]
    PROVE  job' \in [Thread -> Job]
  <1>1. job[t] \in Job /\ Tail(job[t].pools) \in Seq(Pool)
    BY DEF TypeOK, Job
  <1>2. [job[t] EXCEPT !.pools = Tail(job[t].pools)] \in Job
    BY <1>1 DEF Job
  <1>3. QED
    BY <1>2 DEF TypeOK

LEMMA BatchTypes ==
    ASSUME LockInv, beside' \in SUBSET Group,
           NEW t \in Thread, BatchSelect(t) \/ BatchCommit(t)
    PROVE  TypeOK'
  <1> USE DEF LockInv
  <1>1. CASE BatchSelect(t)
    <2>1. CASE Free(t) = {}
      <3>1. job' \in [Thread -> Job]
        BY <1>1, <2>1, PoolsTail DEF BatchSelect
      <3>2. QED
        BY <1>1, <2>1, <3>1 DEF BatchSelect, TypeOK, tables
    <2>2. CASE Free(t) # {}
      <3>1. lock' \in [Thread -> SUBSET Entry]
        <4>1. Lowest(Free(t), job[t].want) \in SUBSET Entry
          BY FreeType
        <4>2. QED
          BY <1>1, <2>2, <4>1 DEF BatchSelect, TypeOK
      <3>2. step' \in [Thread -> Steps]
        BY <1>1, <2>2, GotoType DEF BatchSelect, Steps
      <3>3. QED
        BY <1>1, <2>2, <3>1, <3>2 DEF BatchSelect, TypeOK, tables, Steps
    <2>3. QED
      BY <2>1, <2>2
  <1>2. CASE BatchCommit(t)
    <2> DEFINE all == job[t].ips \cup Addresses(lock[t])
    <2>1. of[t] \in Owner /\ lock[t] \in SUBSET Entry
      BY DEF TypeOK
    <2>2. /\ holder' \in [Entry -> Owner] /\ lease' \in [Entry -> Owner]
          /\ slot' \in [Entry -> Nat]
      BY <1>2, <2>1, AssignType DEF BatchCommit
    <2>3. count' \in [Pool -> Nat]
      <3> DEFINE p == Head(job[t].pools)
      <3>1. p \in Pool => count[p] + Cardinality(lock[t]) \in Nat
        BY <2>1, CountNat DEF TypeOK
      <3>2. count' = [count EXCEPT ![p] = count[p] + Cardinality(lock[t])]
        BY <1>2 DEF BatchCommit, BatchCount, Count
      <3>3. QED
        BY <3>1, <3>2, CountType DEF TypeOK
    <2>4. all \in SUBSET Address
      BY <2>1, AddressesType DEF TypeOK, Job
    <2>5. step' \in [Thread -> Steps] /\ job' \in [Thread -> Job]
      <3>1. CASE Goto(t, "undo") /\ UNCHANGED job
        BY <3>1, GotoType DEF TypeOK, Steps
      <3>2. CASE /\ Goto(t, "number")
                 /\ job' = [job EXCEPT ![t].todo = lock[t], ![t].ips = all,
                                       ![t].next = job[t].first]
        <4>1. [job[t] EXCEPT !.todo = lock[t], !.ips = all,
                             !.next = job[t].first] \in Job
          BY <2>1, <2>4, JobFields, JobNumber
        <4>2. job' \in [Thread -> Job]
          BY <3>2, <4>1 DEF TypeOK
        <4>3. QED
          BY <3>2, <4>2, GotoType DEF Steps
      <3>3. CASE Answer(t, all, 0)
        BY <2>4, <3>3, AnswerType DEF Steps
      <3>4. QED
        <4>1. Cardinality(lock[t]) \in Nat /\ job[t].want \in Nat
          BY <2>1, CountNat DEF TypeOK, Job
        <4> HIDE DEF all
        <4>2. \/ Cardinality(lock[t]) < job[t].want
              \/ Cardinality(lock[t]) >= job[t].want /\ job[t].number
              \/ /\ ~(Cardinality(lock[t]) < job[t].want)
                 /\ ~(Cardinality(lock[t]) >= job[t].want /\ job[t].number)
          OBVIOUS
        <4>3. QED
          BY <1>2, <3>1, <3>2, <3>3, <4>1, <4>2 DEF BatchCommit, all
    <2>6. lock' \in [Thread -> SUBSET Entry]
      BY <1>2 DEF BatchCommit, TypeOK
    <2>7. gone' = gone /\ of' = of
      BY <1>2 DEF BatchCommit
    <2>8. QED
      BY <2>2, <2>3, <2>5, <2>6, <2>7 DEF TypeOK, Steps
  <1>3. QED
    BY <1>1, <1>2

LEMMA AnswerTypes ==
    ASSUME LockInv, beside' \in SUBSET Group,
           NEW t \in Thread,
           BatchRefused(t) \/ Exhausted(t) \/ Numbered(t)
    PROVE  TypeOK'
  <1> USE DEF LockInv
  <1>1. job[t].ips \in SUBSET Address /\ job[t].first \in Nat
    BY DEF TypeOK, Job
  <1>2. \E i \in Nat : Answer(t, job[t].ips, i)
    BY <1>1 DEF BatchRefused, Exhausted, Numbered
  <1>3. step' \in [Thread -> Steps] /\ job' \in [Thread -> Job]
    BY <1>1, <1>2, AnswerType DEF Steps
  <1>4. lock' \in [Thread -> SUBSET Entry]
    BY DEF BatchRefused, Exhausted, Numbered, TypeOK
  <1>5. UNCHANGED <<tables, gone, of>>
    BY DEF BatchRefused, Exhausted, Numbered
  <1>6. QED
    BY <1>3, <1>4, <1>5 DEF TypeOK, tables, Steps

LEMMA AllocateIPTypes ==
    ASSUME LockInv, beside' \in SUBSET Group,
           NEW t \in Thread, AllocateIP(t)
    PROVE  TypeOK'
  <1> USE DEF LockInv
  <1>1. PICK e \in job[t].todo :
           /\ IF Takeable(e) /\ ~Duplicate({e})
              THEN Assign({e}, of[t], job[t].next) /\ Count(e[1], 1)
              ELSE UNCHANGED tables
           /\ job' = [job EXCEPT ![t].todo = @ \ {e}, ![t].next = @ + 1]
    BY DEF AllocateIP, Lowest
  <1>2. e \in Entry /\ job[t].next \in Nat /\ of[t] \in Owner
    BY JobFields DEF TypeOK
  <1>3. /\ holder' \in [Entry -> Owner] /\ lease' \in [Entry -> Owner]
        /\ slot' \in [Entry -> Nat] /\ count' \in [Pool -> Nat]
    <2>1. CASE Assign({e}, of[t], job[t].next) /\ Count(e[1], 1)
      <3>1. {e} \in SUBSET Entry
        BY <1>2
      <3>2. count' \in [Pool -> Nat]
        <4>1. e[1] \in Pool => count[e[1]] + 1 \in Nat
          BY DEF TypeOK
        <4>2. QED
          BY <2>1, <4>1, CountType DEF Count, TypeOK
      <3>3. QED
        BY <1>2, <2>1, <3>1, <3>2, AssignType
    <2>2. CASE UNCHANGED tables
      BY <2>2 DEF tables, TypeOK
    <2>3. QED
      BY <1>1, <2>1, <2>2
  <1>4. [job[t] EXCEPT !.todo = job[t].todo \ {e}, !.next = job[t].next + 1]
           \in Job
    <2>1. /\ job[t].todo \ {e} \in SUBSET Entry
          /\ job[t].next + 1 \in Nat
      BY <1>2, JobFields
    <2>2. QED
      BY <2>1, JobFields, JobNumber
  <1>5. job' \in [Thread -> Job]
    BY <1>1, <1>4 DEF TypeOK
  <1>6. UNCHANGED <<gone, step, of, lock>>
    BY DEF AllocateIP
  <1>7. QED
    BY <1>3, <1>5, <1>6 DEF TypeOK

LEMMA ReleasingTypes ==
    ASSUME LockInv, beside' \in SUBSET Group,
           NEW t \in Thread, ReleaseSelect(t) \/ ReleaseCommit(t)
    PROVE  TypeOK'
  <1> USE DEF LockInv
  <1>1. CASE ReleaseSelect(t)
    <2>1. \E s \in Steps : Goto(t, s)
      BY <1>1 DEF ReleaseSelect, Steps
    <2>2. step' \in [Thread -> Steps]
      BY <2>1, GotoType
    <2>3. lock' \in [Thread -> SUBSET Entry]
      BY <1>1 DEF ReleaseSelect, TypeOK, EntriesOf
    <2>4. QED
      BY <1>1, <2>2, <2>3 DEF ReleaseSelect, TypeOK, tables, Steps
  <1>2. CASE ReleaseCommit(t)
    <2>1. \E s \in Steps : Goto(t, s)
      BY <1>2 DEF ReleaseCommit, Steps
    <2>2. step' \in [Thread -> Steps]
      BY <2>1, GotoType
    <2>3. job' \in [Thread -> Job]
      <3>1. job[t].pools # <<>>
        BY <1>2 DEF ReleaseCommit, LocksHeld
      <3>2. QED
        BY <1>2, <3>1, PoolsTail DEF ReleaseCommit
    <2>4. /\ holder' \in [Entry -> Owner] /\ lease' \in [Entry -> Owner]
          /\ slot' \in [Entry -> Nat]
      BY <1>2 DEF ReleaseCommit, FreeRows, TypeOK, Owner
    <2>5. count' \in [Pool -> Nat]
      <3>1. Cardinality(lock[t]) \in Nat
        BY CountNat DEF TypeOK
      <3> DEFINE p == Head(job[t].pools)
                 c == IF count[p] > Cardinality(lock[t])
                      THEN count[p] - Cardinality(lock[t]) ELSE 0
      <3>2. p \in Pool => c \in Nat
        BY <3>1 DEF TypeOK
      <3>3. count' = [count EXCEPT ![p] = c]
        BY <1>2 DEF ReleaseCommit
      <3>4. QED
        BY <3>2, <3>3, CountType DEF TypeOK
    <2>6. lock' \in [Thread -> SUBSET Entry] /\ gone' = gone /\ of' = of
      BY <1>2 DEF ReleaseCommit, TypeOK
    <2>7. QED
      BY <2>2, <2>3, <2>4, <2>5, <2>6 DEF TypeOK, Steps
  <1>3. QED
    BY <1>1, <1>2

LEMMA AllocateForGroupTypes ==
    ASSUME LockInv, beside' \in SUBSET Group,
           NEW t \in Thread, NEW g \in Group, NEW n \in Replicas,
           AllocateForGroup(t, g, n)
    PROVE  TypeOK'
  <1> USE DEF LockInv
  <1> DEFINE had == Leased(g)
  <1>1. had \in SUBSET Entry /\ Addresses(had) \in SUBSET Address
    <2>1. had \in SUBSET Entry
      BY DEF Leased
    <2>2. QED
      BY <2>1, AddressesType
  <1>2. Cardinality(had) \in Nat /\ n \in Nat
    BY <1>1, CountNat, IPPoolAssumption
  <1>3. step' \in [Thread -> Steps] /\ job' \in [Thread -> Job]
    <2>1. CASE Reuse(t, had, n)
      <3>1. PICK S \in SUBSET had : Answer(t, Addresses(S), 0)
        BY <2>1 DEF Reuse
      <3>2. Addresses(S) \in SUBSET Address
        BY <1>1, AddressesType
      <3>3. QED
        BY <3>1, <3>2, AnswerType DEF Steps
    <2>2. CASE Grow(t, g, had, n)
      <3> HIDE DEF had
      <3>1. PICK i \in 0..MaxIndex :
               job' = [job EXCEPT ![t] =
                  [NoJob EXCEPT !.pools = TakeFrom[g],
                                !.want = n - Cardinality(had),
                                !.first = i,
                                !.number = (had # {}),
                                !.ips = Addresses(had)]]
        BY <2>2 DEF Grow
      <3>2. /\ TakeFrom[g] \in Seq(Pool) /\ n - Cardinality(had) \in Nat
            /\ i \in Nat /\ (had # {}) \in BOOLEAN
        BY <1>2, <2>2, IPPoolAssumption DEF Grow
      <3>3. [NoJob EXCEPT !.pools = TakeFrom[g],
                          !.want = n - Cardinality(had),
                          !.first = i,
                          !.number = (had # {}),
                          !.ips = Addresses(had)] \in Job
        BY <1>1, <3>2, NoJobType DEF Job
      <3>4. job' \in [Thread -> Job]
        BY <3>1, <3>3 DEF TypeOK
      <3>5. step' \in [Thread -> Steps]
        BY <2>2, GotoType DEF Grow, Steps
      <3>6. QED
        BY <3>4, <3>5
    <2>3. QED
      BY <2>1, <2>2 DEF AllocateForGroup
  <1>4. of' \in [Thread -> Owner] /\ UNCHANGED <<tables, gone, lock>>
    BY DEF AllocateForGroup, TypeOK, Owner
  <1>5. QED
    BY <1>3, <1>4 DEF TypeOK, tables, Steps

LEMMA ReadGroupTypes ==
    ASSUME LockInv, beside' \in SUBSET Group,
           NEW t \in Thread, NEW g \in Group, ReadGroup(t, g)
    PROVE  TypeOK'
  <1>1. step' \in [Thread -> Steps] /\ of' \in [Thread -> Owner]
    BY GotoType DEF ReadGroup, LockInv, Steps, TypeOK, Owner
  <1>2. QED
    BY <1>1 DEF ReadGroup, LockInv, TypeOK, tables, Steps

LEMMA FinishTypes ==
    ASSUME LockInv, beside' \in SUBSET Group,
           NEW t \in Thread, Finish(t)
    PROVE  TypeOK'
  <1>1. step' \in [Thread -> Steps]
    BY GotoType DEF Finish, LockInv, Steps
  <1>2. job' \in [Thread -> Job] /\ of' \in [Thread -> Owner]
    BY NoJobType DEF Finish, LockInv, TypeOK, Owner
  <1>3. QED
    BY <1>1, <1>2 DEF Finish, LockInv, TypeOK, tables, Steps

LEMMA DeleteTypes ==
    ASSUME LockInv, beside' \in SUBSET Group,
           NEW t \in Thread,
           DeleteRow(t) \/ \E g \in Group : DeleteGroup(t, g)
    PROVE  TypeOK'
  <1> USE DEF LockInv
  <1>1. CASE \E g \in Group : DeleteGroup(t, g)
    <2>1. PICK g \in Group : DeleteGroup(t, g)
      BY <1>1
    <2>2. step' \in [Thread -> Steps] /\ of' \in [Thread -> Owner]
      BY <2>1, GotoType DEF DeleteGroup, Steps, TypeOK, Owner
    <2>3. ReleaseFrom[g] \in Seq(Pool)
      BY IPPoolAssumption
    <2>4. [job[t] EXCEPT !.pools = ReleaseFrom[g]] \in Job
      BY <2>3, JobFields DEF Job
    <2>5. job' \in [Thread -> Job]
      BY <2>1, <2>4 DEF DeleteGroup, TypeOK
    <2>6. QED
      BY <2>1, <2>2, <2>5 DEF DeleteGroup, TypeOK, tables, Steps
  <1>2. CASE DeleteRow(t)
    <2>1. of[t] \in Group
      BY <1>2 DEF DeleteRow, LocksHeld
    <2>2. step' \in [Thread -> Steps] /\ of' \in [Thread -> Owner]
      BY <1>2, GotoType DEF DeleteRow, Steps, TypeOK, Owner
    <2>3. QED
      BY <1>2, <2>1, <2>2 DEF DeleteRow, TypeOK, tables, Steps
  <1>3. QED
    BY <1>1, <1>2

LEMMA AdmitTypes ==
    ASSUME LockInv, beside' \in SUBSET Group,
           NEW k \in Pod, NEW g \in Group, NEW n \in Replicas,
           Admit(k, g, n)
    PROVE  TypeOK'
  <1> USE DEF LockInv
  <1>1. k \in Thread /\ n \in Nat
    BY IPPoolAssumption DEF Thread
  <1>2. PICK seen \in {Visible(g), {}} :
           job' = [job EXCEPT ![k] = [NoJob EXCEPT
               !.want = n,
               !.used = UNION {job[o].ips : o \in seen \cap Running},
               !.busy = {job[o].first : o \in seen \cap Stable}]]
    BY DEF Admit
  <1>3. seen \subseteq Thread
    BY <1>2 DEF Visible, Thread
  <1>4. UNION {job[o].ips : o \in seen \cap Running} \in SUBSET Address
    BY <1>3, JobFields
  <1>5. {job[o].first : o \in seen \cap Stable} \in SUBSET Nat
    BY <1>3, JobFields
  <1>6. [NoJob EXCEPT
               !.want = n,
               !.used = UNION {job[o].ips : o \in seen \cap Running},
               !.busy = {job[o].first : o \in seen \cap Stable}] \in Job
    BY <1>1, <1>4, <1>5, NoJobType DEF Job
  <1>7. job' \in [Thread -> Job]
    BY <1>2, <1>6 DEF TypeOK
  <1>8. step' \in [Thread -> Steps] /\ of' \in [Thread -> Owner]
    BY <1>1, GotoType DEF Admit, Steps, TypeOK, Owner
  <1>9. QED
    BY <1>7, <1>8 DEF Admit, TypeOK, tables, Steps

LEMMA AllocateForPodTypes ==
    ASSUME LockInv, beside' \in SUBSET Group,
           NEW k \in Pod, AllocateForPod(k)
    PROVE  TypeOK'
  <1> USE DEF LockInv
  <1>1. k \in Thread /\ of[k] \in Group
    BY DEF Thread, AllocateForPod, LocksHeld
  <1>2. step' \in [Thread -> Steps] /\ job' \in [Thread -> Job]
    <2>1. CASE \E e \in Reusable(k) : Answer(k, {e[2]}, slot[e])
      <3>1. PICK e \in Reusable(k) : Answer(k, {e[2]}, slot[e])
        BY <2>1
      <3>2. e \in Entry /\ slot[e] \in Nat
        BY <3>1 DEF Reusable, Leased, TypeOK
      <3>3. {e[2]} \in SUBSET Address
        BY <3>2, IPPoolAssumption DEF Entry, Pool
      <3>4. QED
        BY <1>1, <3>1, <3>2, <3>3, AnswerType DEF Steps
    <2>2. CASE \E i \in EmptySlots(k) :
                  /\ Goto(k, "take")
                  /\ job' = [job EXCEPT ![k] =
                        [NoJob EXCEPT !.pools = TakeFrom[of[k]], !.want = 1,
                                      !.first = i, !.number = TRUE]]
      <3>1. PICK i \in EmptySlots(k) :
                  /\ Goto(k, "take")
                  /\ job' = [job EXCEPT ![k] =
                        [NoJob EXCEPT !.pools = TakeFrom[of[k]], !.want = 1,
                                      !.first = i, !.number = TRUE]]
        BY <2>2
      <3>2. i \in Nat /\ TakeFrom[of[k]] \in Seq(Pool)
        BY <1>1, JobFields, IPPoolAssumption DEF EmptySlots
      <3>3. [NoJob EXCEPT !.pools = TakeFrom[of[k]], !.want = 1,
                          !.first = i, !.number = TRUE] \in Job
        BY <3>2, NoJobType DEF Job
      <3>4. QED
        BY <1>1, <3>1, <3>3, GotoType DEF TypeOK, Steps
    <2>3. CASE Answer(k, {}, 0)
      BY <1>1, <2>3, AnswerType DEF Steps
    <2>4. QED
      BY <2>1, <2>2, <2>3 DEF AllocateForPod
  <1>3. QED
    BY <1>2 DEF AllocateForPod, TypeOK, tables, Steps

LEMMA PodMovesTypes ==
    ASSUME LockInv, beside' \in SUBSET Group,
           NEW k \in Thread, NEW from \in Steps, NEW to \in Steps,
           PodMoves(k, from, to)
    PROVE  TypeOK'
  <1>1. step' \in [Thread -> Steps]
    BY GotoType DEF PodMoves, LockInv
  <1>2. QED
    BY <1>1 DEF PodMoves, LockInv, TypeOK, tables, Steps

LEMMA NextTypes ==
    ASSUME LockInv, [Next]_vars
    PROVE  TypeOK'
  <1>0. beside' \in SUBSET Group
    BY DEF Next, vars, LockInv, TypeOK
  <1> USE <1>0
  <1>1. ASSUME NEW t \in Thread, Transaction(t) PROVE TypeOK'
    BY <1>1, BatchTypes, AnswerTypes, AllocateIPTypes, ReleasingTypes
       DEF Transaction
  <1>2. ASSUME NEW t \in Caller, Request(t) PROVE TypeOK'
    <2>1. t \in Thread
      BY DEF Thread
    <2>2. QED
      BY <1>2, <2>1, ReadGroupTypes, AllocateForGroupTypes, FinishTypes, DeleteTypes
         DEF Request, Return
  <1>3. ASSUME NEW k \in Pod, PodLife(k) PROVE TypeOK'
    <2>1. k \in Thread
      BY DEF Thread
    <2>2. CASE \E from, to \in Steps : PodMoves(k, from, to)
      BY <2>1, <2>2, PodMovesTypes
    <2>3. Persist(k) \/ Run(k) \/ Terminate(k) =>
             \E from, to \in Steps : PodMoves(k, from, to)
      BY DEF Persist, Run, Terminate, Steps
    <2>4. QED
      BY <1>3, <2>1, <2>2, <2>3, AdmitTypes, AllocateForPodTypes, FinishTypes
         DEF PodLife, Vanish
  <1>4. CASE UNCHANGED vars
    BY <1>4 DEF LockInv, TypeOK, vars, tables
  <1>5. QED
    BY <1>1, <1>2, <1>3, <1>4 DEF Next

-----------------------------------------------------------------------------
(* Locks.                                                                  *)

\* A step of one thread, whatever operation it is in.
Act(t) == Transaction(t) \/ Request(t) \/ PodLife(t)

LEMMA NextActs ==
    ASSUME Next
    PROVE  \E t \in Thread : Act(t)
  BY DEF Next, Act, Thread

\* The locals and the locks of the other threads stay as they are.
LEMMA Others ==
    ASSUME LockInv, NEW t \in Thread, Act(t), NEW o \in Thread, o # t
    PROVE  /\ step'[o] = step[o] /\ of'[o] = of[o]
           /\ lock'[o] = lock[o] /\ job'[o] = job[o]
  <1> USE DEF LockInv, TypeOK, Goto, Answer
  <1>1. CASE BatchSelect(t) \/ BatchCommit(t) \/ BatchRefused(t)
    <2>1. /\ lock'[o] = lock[o] /\ of'[o] = of[o]
      BY <1>1 DEF BatchSelect, BatchCommit, BatchRefused
    <2>2. CASE BatchSelect(t)
      BY <2>1, <2>2 DEF BatchSelect
    <2>3. CASE BatchCommit(t)
      BY <2>1, <2>3 DEF BatchCommit
    <2>4. CASE BatchRefused(t)
      BY <2>1, <2>4 DEF BatchRefused
    <2>5. QED
      BY <1>1, <2>2, <2>3, <2>4
  <1>2. CASE Exhausted(t) \/ AllocateIP(t) \/ Numbered(t)
    BY <1>2 DEF Exhausted, AllocateIP, Numbered
  <1>3. CASE ReleaseSelect(t) \/ ReleaseCommit(t)
    BY <1>3 DEF ReleaseSelect, ReleaseCommit
  <1>4. CASE Request(t)
    <2>1. CASE \E g \in Group, n \in Replicas : AllocateForGroup(t, g, n)
      BY <2>1 DEF AllocateForGroup, Reuse, Grow
    <2>2. CASE Return(t)
      BY <2>2 DEF Return, Finish
    <2>3. CASE \E g \in Group : ReadGroup(t, g) \/ DeleteGroup(t, g)
      BY <2>3 DEF ReadGroup, DeleteGroup
    <2>4. CASE DeleteRow(t)
      BY <2>4 DEF DeleteRow
    <2>5. QED
      BY <1>4, <2>1, <2>2, <2>3, <2>4 DEF Request
  <1>5. CASE PodLife(t)
    <2>1. CASE \E g \in Group, n \in Replicas : Admit(t, g, n)
      BY <2>1 DEF Admit
    <2>2. CASE AllocateForPod(t)
      BY <2>2 DEF AllocateForPod
    <2>3. CASE Persist(t) \/ Run(t) \/ Terminate(t)
      BY <2>3 DEF Persist, Run, Terminate, PodMoves
    <2>4. CASE Vanish(t)
      BY <2>4 DEF Vanish, Finish
    <2>5. QED
      BY <1>5, <2>1, <2>2, <2>3, <2>4 DEF PodLife
  <1>6. QED
    BY <1>1, <1>2, <1>3, <1>4, <1>5 DEF Act, Transaction

\* How the entries change: a thread takes entries that are free or gives
\* back entries of its group, and never touches one another thread locked.
TakesFree(t, S) ==
    /\ \A e \in S : holder[e] = Nobody
    /\ holder' = [e \in Entry |-> IF e \in S THEN of[t] ELSE holder[e]]

GivesBack(t, S) ==
    /\ \A e \in S : holder[e] = of[t]
    /\ holder' = [e \in Entry |-> IF e \in S THEN Nobody ELSE holder[e]]

Untouched(t, S) == \A o \in Thread \ {t} : S \cap lock[o] = {}

LEMMA EntriesChange ==
    ASSUME LockInv, NEW t \in Thread, Act(t)
    PROVE  \/ holder' = holder
           \/ /\ of[t] \in Group
              /\ \E S \in SUBSET Entry :
                    /\ Untouched(t, S)
                    /\ TakesFree(t, S) \/ GivesBack(t, S)
  <1> USE DEF LockInv
  <1>1. CASE BatchCommit(t)
    <2>1. /\ lock[t] \in SUBSET Entry /\ of[t] \in Group
          /\ \A e \in lock[t] : holder[e] = Nobody
      BY <1>1 DEF BatchCommit, TypeOK, LocksHeld
    <2>2. TakesFree(t, lock[t])
      BY <1>1, <2>1 DEF BatchCommit, Assign, TakesFree
    <2>3. Untouched(t, lock[t])
      BY DEF Untouched
    <2>4. QED
      BY <2>1, <2>2, <2>3
  <1>2. CASE AllocateIP(t)
    <2>1. of[t] \in Group
      BY <1>2 DEF AllocateIP, LocksHeld
    <2>2. PICK e \in job[t].todo :
             /\ ~LockedByOther(t, e)
             /\ IF Takeable(e) /\ ~Duplicate({e})
                THEN Assign({e}, of[t], job[t].next) /\ Count(e[1], 1)
                ELSE UNCHANGED tables
      BY <1>2 DEF AllocateIP, Lowest
    <2>3. {e} \in SUBSET Entry
      BY JobFields
    <2>4. Untouched(t, {e})
      BY <2>2 DEF LockedByOther, Untouched
    <2>5. TakesFree(t, {e}) \/ holder' = holder
      BY <2>2 DEF Takeable, Assign, TakesFree, tables
    <2>6. QED
      BY <2>1, <2>3, <2>4, <2>5
  <1>3. CASE ReleaseCommit(t)
    <2>1. /\ lock[t] \in SUBSET Entry /\ of[t] \in Group
          /\ \A e \in lock[t] : holder[e] = of[t]
      BY <1>3 DEF ReleaseCommit, TypeOK, LocksHeld
    <2>2. GivesBack(t, lock[t])
      BY <1>3, <2>1 DEF ReleaseCommit, FreeRows, GivesBack
    <2>3. Untouched(t, lock[t])
      BY DEF Untouched
    <2>4. QED
      BY <2>1, <2>2, <2>3
  <1>4. CASE \/ BatchSelect(t) \/ BatchRefused(t) \/ Exhausted(t)
             \/ Numbered(t) \/ ReleaseSelect(t)
    BY <1>4 DEF BatchSelect, BatchRefused, Exhausted, Numbered, ReleaseSelect,
                tables
  <1>5. CASE Request(t)
    BY <1>5 DEF Request, ReadGroup, AllocateForGroup, Return, Finish, DeleteGroup,
                DeleteRow, tables
  <1>6. CASE PodLife(t)
    BY <1>6 DEF PodLife, Admit, AllocateForPod, Persist, Run, Terminate,
                PodMoves, Vanish, Finish, tables
  <1>7. QED
    BY <1>1, <1>2, <1>3, <1>4, <1>5, <1>6 DEF Act, Transaction

\* What the stepping thread has locked afterwards.
LEMMA OwnLocks ==
    ASSUME LockInv, NEW t \in Thread, Act(t)
    PROVE  /\ LocksHeld(t)'
           /\ \A o \in Thread \ {t} : lock'[t] \cap lock[o] = {}
  <1> USE DEF LockInv, TypeOK, LocksHeld, Goto, Answer
  <1>1. CASE BatchSelect(t)
    <2>1. CASE Free(t) = {}
      BY <1>1, <2>1 DEF BatchSelect, tables
    <2>2. CASE Free(t) # {}
      <3>1. \A e \in Lowest(Free(t), job[t].want) :
               /\ holder[e] = Nobody /\ ~LockedByOther(t, e)
               /\ e \in EntriesOf(Head(job[t].pools))
        BY DEF Lowest, Free
      <3>2. /\ lock'[t] = Lowest(Free(t), job[t].want)
            /\ step'[t] = "taking" /\ UNCHANGED <<holder, of, job>>
        BY <1>1, <2>2 DEF BatchSelect, tables
      <3>3. job[t].pools # <<>> /\ of[t] \in Group
        BY <1>1 DEF BatchSelect
      <3>4. QED
        BY <3>1, <3>2, <3>3 DEF LockedByOther
    <2>3. QED
      BY <2>1, <2>2
  <1>2. CASE BatchCommit(t)
    <2>1. /\ step'[t] \in {"undo", "number", "answered"}
          /\ lock'[t] = {} /\ of'[t] = of[t] /\ of[t] \in Group
      BY <1>2 DEF BatchCommit
    <2>2. step'[t] = "undo" => job' = job
      BY <1>2 DEF BatchCommit
    <2>3. job[t].pools # <<>>
      BY <1>2 DEF BatchCommit
    <2>4. QED
      BY <2>1, <2>2, <2>3
  <1>3. CASE BatchRefused(t)
    BY <1>3 DEF BatchRefused
  <1>4. CASE Exhausted(t) \/ AllocateIP(t) \/ Numbered(t)
    BY <1>4 DEF Exhausted, AllocateIP, Numbered
  <1>5. CASE ReleaseSelect(t)
    <2> DEFINE S == {e \in EntriesOf(Head(job[t].pools)) : holder[e] = of[t]}
    <2>1. /\ \A e \in S : ~LockedByOther(t, e)
          /\ lock'[t] = S /\ step'[t] \in {"undoing", "releasing"}
          /\ UNCHANGED <<holder, of, job>>
      BY <1>5 DEF ReleaseSelect, tables
    <2>2. job[t].pools # <<>> /\ of[t] \in Group
      BY <1>5 DEF ReleaseSelect
    <2>3. QED
      BY <2>1, <2>2 DEF LockedByOther
  <1>6. CASE ReleaseCommit(t)
    BY <1>6 DEF ReleaseCommit
  <1>7. CASE Request(t)
    <2>1. CASE \E g \in Group, n \in Replicas : AllocateForGroup(t, g, n)
      <3>1. /\ step[t] = "asked" /\ of'[t] \in Group /\ lock' = lock
            /\ step'[t] \in {"take", "answered"}
        BY <2>1 DEF AllocateForGroup, Reuse, Grow
      <3>2. QED
        BY <3>1
    <2>2. CASE Return(t)
      BY <2>2 DEF Return, Finish
    <2>3. CASE \E g \in Group : ReadGroup(t, g) \/ DeleteGroup(t, g)
      BY <2>3 DEF ReadGroup, DeleteGroup
    <2>4. CASE DeleteRow(t)
      BY <2>4 DEF DeleteRow
    <2>5. QED
      BY <1>7, <2>1, <2>2, <2>3, <2>4 DEF Request
  <1>8. CASE PodLife(t)
    <2>1. CASE \E g \in Group, n \in Replicas : Admit(t, g, n)
      BY <2>1 DEF Admit
    <2>2. CASE AllocateForPod(t)
      BY <2>2 DEF AllocateForPod
    <2>3. CASE Persist(t) \/ Run(t) \/ Terminate(t)
      BY <2>3 DEF Persist, Run, Terminate, PodMoves
    <2>4. CASE Vanish(t)
      BY <2>4 DEF Vanish, Finish
    <2>5. QED
      BY <1>8, <2>1, <2>2, <2>3, <2>4 DEF PodLife
  <1>9. QED
    BY <1>1, <1>2, <1>3, <1>4, <1>5, <1>6, <1>7, <1>8 DEF Act, Transaction

LEMMA LocksStep ==
    ASSUME LockInv, NEW t \in Thread, Act(t)
    PROVE  /\ \A o \in Thread : LocksHeld(o)'
           /\ \A o, p \in Thread : o # p => lock'[o] \cap lock'[p] = {}
  <1>1. ASSUME NEW o \in Thread, o # t PROVE LocksHeld(o)'
    <2>1. \A e \in lock[o] : holder'[e] = holder[e]
      <3>1. lock[o] \subseteq Entry
        BY DEF LockInv, TypeOK
      <3>2. QED
        BY <1>1, <3>1, EntriesChange DEF Untouched, TakesFree, GivesBack
    <2>2. QED
      BY <1>1, <2>1, Others DEF LockInv, LocksHeld
  <1>2. ASSUME NEW o \in Thread, NEW p \in Thread, o # p
        PROVE  lock'[o] \cap lock'[p] = {}
    <2>1. CASE o # t /\ p # t
      BY <1>2, <2>1, Others DEF LockInv
    <2>2. CASE o = t \/ p = t
      BY <1>2, <2>2, Others, OwnLocks
    <2>3. QED
      BY <2>1, <2>2
  <1>3. QED
    BY <1>1, <1>2, OwnLocks

-----------------------------------------------------------------------------
(* The theorems.                                                           *)

LEMMA InitLocks == Init => LockInv
  <1>1. Init => TypeOK
    BY NoJobType DEF Init, TypeOK, Owner
  <1>2. QED
    BY <1>1 DEF Init, LockInv, LocksHeld

LEMMA NextLocks == LockInv /\ [Next]_vars => LockInv'
  <1> SUFFICES ASSUME LockInv, [Next]_vars PROVE LockInv'
    OBVIOUS
  <1>1. CASE Next
    BY <1>1, NextActs, LocksStep, NextTypes DEF LockInv
  <1>2. CASE UNCHANGED vars
    BY <1>2, NextTypes DEF LockInv, LocksHeld, vars, tables
  <1>3. QED
    BY <1>1, <1>2

\* No two transactions ever lock the same entry, and what a transaction has
\* selected is still so when it commits: AllocateIPsBatch's entries are
\* free, ReleaseByResource's belong to its group.
THEOREM LocksExclusive == Spec => []LockInv
  BY InitLocks, NextLocks, PTL DEF Spec

\* However batches, renumberings and releases of any number of requests and
\* Pods overlap, an entry is taken only when free and given back only by
\* its group: vo_cluster_ip_pool_entries implements IPOwnership.
THEOREM OwnershipImplemented == Spec => ImplementsOwnership
  <1>1. Init => Ownership!Init
    BY DEF Init, Ownership!Init
  <1>2. LockInv /\ [Next]_vars => [Ownership!Next]_holder
    <2> SUFFICES ASSUME LockInv, [Next]_vars, holder' # holder
                 PROVE  Ownership!Next
      OBVIOUS
    <2>1. PICK t \in Thread : Act(t)
      BY NextActs DEF vars, tables
    <2>2. PICK S \in SUBSET Entry :
             of[t] \in Group /\ (TakesFree(t, S) \/ GivesBack(t, S))
      BY <2>1, EntriesChange
    <2>3. CASE TakesFree(t, S)
      <3>1. Ownership!Take(of[t], S)
        BY <2>3 DEF TakesFree, Ownership!Take, Ownership!Assign
      <3>2. QED
        BY <2>2, <3>1 DEF Ownership!Next
    <2>4. CASE GivesBack(t, S)
      <3>1. Ownership!Give(of[t], S)
        BY <2>4 DEF GivesBack, Ownership!Give, Ownership!Assign
      <3>2. QED
        BY <2>2, <3>1 DEF Ownership!Next
    <2>5. QED
      BY <2>2, <2>3, <2>4
  <1>3. QED
    BY <1>1, <1>2, LocksExclusive, PTL
       DEF Spec, ImplementsOwnership, Ownership!Spec

\* How the allocations change with the entries.
LEMMA LeaseStep ==
    ASSUME LockInv, LeaseBacked, NEW t \in Thread, Act(t)
    PROVE  LeaseBacked'
  <1> USE DEF LockInv, LeaseBacked
  <1>1. CASE BatchCommit(t)
    BY <1>1 DEF BatchCommit, Assign
  <1>2. CASE AllocateIP(t)
    <2>1. \/ UNCHANGED tables
          \/ \E S : Assign(S, of[t], job[t].next)
      BY <1>2 DEF AllocateIP
    <2>2. CASE UNCHANGED tables
      BY <2>2 DEF tables
    <2>3. CASE \E S : Assign(S, of[t], job[t].next)
      BY <2>3 DEF Assign
    <2>4. QED
      BY <2>1, <2>2, <2>3
  <1>3. CASE ReleaseCommit(t)
    <2>1. \A e \in lock[t] : holder[e] = of[t]
      BY <1>3 DEF ReleaseCommit, LocksHeld
    <2>2. \A e \in lock[t] : e[1] = Head(job[t].pools)
      BY <1>3 DEF ReleaseCommit, LocksHeld, EntriesOf
    <2>3. QED
      BY <1>3, <2>1, <2>2 DEF ReleaseCommit, FreeRows
  <1>4. CASE \/ BatchSelect(t) \/ BatchRefused(t) \/ Exhausted(t)
             \/ Numbered(t) \/ ReleaseSelect(t)
    BY <1>4 DEF BatchSelect, BatchRefused, Exhausted, Numbered, ReleaseSelect,
                tables
  <1>5. CASE Request(t)
    BY <1>5 DEF Request, ReadGroup, AllocateForGroup, Return, Finish, DeleteGroup,
                DeleteRow, tables
  <1>6. CASE PodLife(t)
    BY <1>6 DEF PodLife, Admit, AllocateForPod, Persist, Run, Terminate,
                PodMoves, Vanish, Finish, tables
  <1>7. QED
    BY <1>1, <1>2, <1>3, <1>4, <1>5, <1>6 DEF Act, Transaction

\* Whatever the tables' statements interleave, an address recorded as
\* allocated to a group is allocated to it.
THEOREM LeaseBackedThm == Spec => []LeaseBacked
  <1>1. Init => LeaseBacked
    BY DEF Init, LeaseBacked
  <1>2. LockInv /\ LeaseBacked /\ [Next]_vars => LeaseBacked'
    <2>1. CASE UNCHANGED vars
      BY <2>1 DEF LeaseBacked, vars, tables
    <2>2. QED
      BY <2>1, NextActs, LeaseStep
  <1>3. QED
    BY <1>1, <1>2, LocksExclusive, PTL DEF Spec

Held(p) == {e \in EntriesOf(p) : holder[e] # Nobody}

LEMMA CardAdd ==
    ASSUME NEW S \in SUBSET Entry, NEW T \in SUBSET Entry, S \cap T = {}
    PROVE  Cardinality(S \cup T) = Cardinality(S) + Cardinality(T)
  <1>1. IsFiniteSet(S) /\ IsFiniteSet(T)
    BY CountNat
  <1>2. Cardinality(S \cup T) =
           Cardinality(S) + Cardinality(T) - Cardinality(S \cap T)
    BY <1>1, FS_Union
  <1>3. Cardinality(S \cap T) = 0
    BY FS_EmptySet
  <1>4. QED
    BY <1>2, <1>3, CountNat

\* The counter of a pool follows the entries a transaction takes in it ...
LEMMA CountTaken ==
    ASSUME LockInv, CountMatches, NEW p, NEW S \in SUBSET Entry,
           S \subseteq EntriesOf(p), \A e \in S : holder[e] = Nobody,
           NEW g \in Group,
           holder' = [e \in Entry |-> IF e \in S THEN g ELSE holder[e]],
           count' = [count EXCEPT ![p] = @ + Cardinality(S)]
    PROVE  CountMatches'
  <1> SUFFICES ASSUME NEW q \in Pool
               PROVE  count'[q] = Cardinality(Held(q)')
    BY DEF CountMatches, Held
  <1>1. count[q] = Cardinality(Held(q)) /\ count \in [Pool -> Nat]
    BY DEF CountMatches, Held, LockInv, TypeOK
  <1>2. g # Nobody
    BY IPPoolAssumption
  <1>3. CASE q = p
    <2>1. Held(q)' = Held(q) \cup S
      BY <1>2, <1>3 DEF Held, EntriesOf
    <2>2. Held(q) \in SUBSET Entry /\ Held(q) \cap S = {}
      BY DEF Held, EntriesOf
    <2>3. QED
      BY <1>1, <1>3, <2>1, <2>2, CardAdd
  <1>4. CASE q # p
    <2>1. Held(q)' = Held(q)
      BY <1>4 DEF Held, EntriesOf
    <2>2. QED
      BY <1>1, <1>4, <2>1
  <1>5. QED
    BY <1>3, <1>4

\* ... and those it gives back; the floor at zero never comes into play.
LEMMA CountGiven ==
    ASSUME LockInv, CountMatches, NEW p, NEW S \in SUBSET Entry,
           S \subseteq EntriesOf(p), \A e \in S : holder[e] # Nobody,
           holder' = [e \in Entry |-> IF e \in S THEN Nobody ELSE holder[e]],
           count' = [count EXCEPT ![p] =
               IF @ > Cardinality(S) THEN @ - Cardinality(S) ELSE 0]
    PROVE  CountMatches'
  <1> SUFFICES ASSUME NEW q \in Pool
               PROVE  count'[q] = Cardinality(Held(q)')
    BY DEF CountMatches, Held
  <1>1. count[q] = Cardinality(Held(q)) /\ count \in [Pool -> Nat]
    BY DEF CountMatches, Held, LockInv, TypeOK
  <1>2. CASE q = p
    <2>1. /\ Held(q)' = Held(q) \ S
          /\ Held(q) = (Held(q) \ S) \cup S
      BY <1>2 DEF Held, EntriesOf
    <2>2. Held(q) \ S \in SUBSET Entry /\ (Held(q) \ S) \cap S = {}
      BY DEF Held, EntriesOf
    <2>3. Cardinality(Held(q)) = Cardinality(Held(q) \ S) + Cardinality(S)
      BY <2>1, <2>2, CardAdd
    <2>4. Cardinality(Held(q) \ S) \in Nat /\ Cardinality(S) \in Nat
      BY <2>2, CountNat
    <2>5. QED
      BY <1>1, <1>2, <2>1, <2>3, <2>4
  <1>3. CASE q # p
    <2>1. Held(q)' = Held(q)
      BY <1>3 DEF Held, EntriesOf
    <2>2. QED
      BY <1>1, <1>3, <2>1
  <1>4. QED
    BY <1>2, <1>3

LEMMA CountStep ==
    ASSUME LockInv, CountMatches, NEW t \in Thread, Act(t)
    PROVE  CountMatches'
  <1> USE DEF LockInv
  <1>1. CASE BatchCommit(t)
    <2>1. /\ lock[t] \in SUBSET Entry /\ of[t] \in Group
          /\ \A e \in lock[t] : holder[e] = Nobody
          /\ lock[t] \subseteq EntriesOf(Head(job[t].pools))
      BY <1>1 DEF BatchCommit, TypeOK, LocksHeld
    <2>2. QED
      BY <1>1, <2>1, CountTaken DEF BatchCommit, Assign, BatchCount, Count
  <1>2. CASE AllocateIP(t)
    <2>1. of[t] \in Group
      BY <1>2 DEF AllocateIP, LocksHeld
    <2>2. PICK e \in job[t].todo :
             IF Takeable(e) /\ ~Duplicate({e})
             THEN Assign({e}, of[t], job[t].next) /\ Count(e[1], 1)
             ELSE UNCHANGED tables
      BY <1>2 DEF AllocateIP, Lowest
    <2>3. {e} \in SUBSET Entry /\ {e} \subseteq EntriesOf(e[1])
      BY JobFields DEF EntriesOf
    <2>4. Cardinality({e}) = 1
      BY FS_Singleton
    <2>5. CASE Takeable(e) /\ ~Duplicate({e})
      <3>1. \A d \in {e} : holder[d] = Nobody
        BY <2>5 DEF Takeable
      <3>2. /\ holder' = [d \in Entry |->
                            IF d \in {e} THEN of[t] ELSE holder[d]]
            /\ count' = [count EXCEPT ![e[1]] = @ + Cardinality({e})]
        BY <2>2, <2>4, <2>5 DEF Assign, Count
      <3>3. QED
        BY <2>1, <2>3, <3>1, <3>2, CountTaken
    <2>6. CASE UNCHANGED tables
      BY <2>6 DEF tables, CountMatches
    <2>7. QED
      BY <2>2, <2>5, <2>6
  <1>3. CASE ReleaseCommit(t)
    <2>1. /\ lock[t] \in SUBSET Entry /\ of[t] \in Group
          /\ \A e \in lock[t] : holder[e] # Nobody
          /\ lock[t] \subseteq EntriesOf(Head(job[t].pools))
      BY <1>3, IPPoolAssumption DEF ReleaseCommit, TypeOK, LocksHeld
    <2>2. QED
      BY <1>3, <2>1, CountGiven DEF ReleaseCommit, FreeRows
  <1>4. CASE \/ BatchSelect(t) \/ BatchRefused(t) \/ Exhausted(t)
             \/ Numbered(t) \/ ReleaseSelect(t)
    BY <1>4 DEF BatchSelect, BatchRefused, Exhausted, Numbered, ReleaseSelect,
                tables, CountMatches
  <1>5. CASE Request(t)
    BY <1>5 DEF Request, ReadGroup, AllocateForGroup, Return, Finish, DeleteGroup,
                DeleteRow, tables, CountMatches
  <1>6. CASE PodLife(t)
    BY <1>6 DEF PodLife, Admit, AllocateForPod, Persist, Run, Terminate,
                PodMoves, Vanish, Finish, tables, CountMatches
  <1>7. QED
    BY <1>1, <1>2, <1>3, <1>4, <1>5, <1>6 DEF Act, Transaction

\* allocated_count is the number of allocated entries of its pool.
THEOREM CountMatchesThm == Spec => []CountMatches
  <1>1. Init => CountMatches
    <2> SUFFICES ASSUME Init, NEW p \in Pool
                 PROVE  count[p] = Cardinality(Held(p))
      BY DEF CountMatches, Held
    <2>1. Held(p) = {} /\ count[p] = 0
      BY DEF Init, Held, EntriesOf
    <2>2. QED
      BY <2>1, FS_EmptySet
  <1>2. LockInv /\ CountMatches /\ [Next]_vars => CountMatches'
    <2>1. CASE UNCHANGED vars
      BY <2>1 DEF CountMatches, vars, tables
    <2>2. QED
      BY <2>1, NextActs, CountStep
  <1>3. QED
    BY <1>1, <1>2, LocksExclusive, PTL DEF Spec

-----------------------------------------------------------------------------
(* What a deleted group holds.                                             *)

\* e is in one of these pools.
In(e, pools) == \E i \in DOMAIN pools : pools[i] = e[1]

\* Whoever takes entries visits pools its group allocates from,
Visits(t) ==
    step[t] \in {"take", "taking", "undo", "undoing", "number"} =>
       /\ \A i \in DOMAIN job[t].pools :
             \E j \in DOMAIN TakeFrom[of[t]] : TakeFrom[of[t]][j] = job[t].pools[i]
       /\ \A e \in job[t].todo : In(e, TakeFrom[of[t]])

\* so a group has entries of these pools only.
HeldInv == \A e \in Entry : holder[e] \in Group => In(e, TakeFrom[holder[e]])

\* A deletion beside which nobody allocates leaves nothing behind in the pools it
\* has visited.
Left(t) ==
    of[t] \notin beside =>
       /\ step[t] = "release" =>
             \A e \in Entry : holder[e] = of[t] => In(e, job[t].pools)
       /\ step[t] = "releasing" =>
             \A e \in Entry : holder[e] = of[t] =>
                e \in lock[t] \/ In(e, Tail(job[t].pools))

GoneInv == \A g \in gone \ beside :
    /\ \A e \in Entry : holder[e] # g
    /\ \A t \in Thread : ~Allocating(t, g)

DeletionInv ==
    /\ \A t \in Thread : Visits(t) /\ Left(t)
    /\ HeldInv
    /\ \A g \in Group : Meeting(g) => g \in beside
    /\ GoneInv

\* The first of the pools, or one of the rest.
LEMMA InPools ==
    ASSUME NEW pools \in Seq(Pool), pools # <<>>, NEW e
    PROVE  /\ In(e, pools) => e[1] = Head(pools) \/ In(e, Tail(pools))
           /\ \A i \in DOMAIN Tail(pools) :
                 \E j \in DOMAIN pools : pools[j] = Tail(pools)[i]
           /\ 1 \in DOMAIN pools /\ Head(pools) = pools[1]
  <1>1. /\ Len(pools) \in Nat /\ Len(pools) # 0
        /\ DOMAIN pools = 1..Len(pools) /\ Head(pools) = pools[1]
    OBVIOUS
  <1>2. /\ Tail(pools) \in Seq(Pool) /\ Len(Tail(pools)) = Len(pools) - 1
        /\ DOMAIN Tail(pools) = 1..(Len(pools) - 1)
        /\ \A i \in 1..(Len(pools) - 1) : Tail(pools)[i] = pools[i + 1]
    BY <1>1
  <1>3. In(e, pools) => e[1] = Head(pools) \/ In(e, Tail(pools))
    <2> SUFFICES ASSUME NEW i \in 1..Len(pools), pools[i] = e[1], i # 1
                 PROVE  In(e, Tail(pools))
      BY <1>1 DEF In
    <2>1. i - 1 \in 1..(Len(pools) - 1) /\ (i - 1) + 1 = i
      BY <1>1
    <2>2. Tail(pools)[i - 1] = e[1]
      BY <1>2, <2>1
    <2>3. QED
      BY <1>2, <2>1, <2>2 DEF In
  <1>4. \A i \in DOMAIN Tail(pools) :
           \E j \in DOMAIN pools : pools[j] = Tail(pools)[i]
    BY <1>1, <1>2
  <1>5. QED
    BY <1>1, <1>3, <1>4

\* An entry keeps its holder, is given back, or goes to the group of a thread
\* that visits its pool.
LEMMA HolderStep ==
    ASSUME LockInv, DeletionInv, NEW t \in Thread, Act(t), NEW e \in Entry,
           holder'[e] # holder[e], holder'[e] # Nobody
    PROVE  /\ of[t] \in Group /\ holder'[e] = of[t] /\ Allocating(t, of[t])
           /\ In(e, TakeFrom[of[t]])
  <1> USE DEF LockInv
  <1>1. CASE BatchCommit(t)
    <2>1. /\ step[t] = "taking" /\ of[t] \in Group /\ job[t].pools # <<>>
          /\ lock[t] \subseteq EntriesOf(Head(job[t].pools))
      BY <1>1 DEF BatchCommit, LocksHeld
    <2>2. e \in lock[t] /\ holder'[e] = of[t]
      BY <1>1 DEF BatchCommit, Assign
    <2>3. e[1] = Head(job[t].pools)
      BY <2>1, <2>2 DEF EntriesOf
    <2>4. 1 \in DOMAIN job[t].pools /\ Head(job[t].pools) = job[t].pools[1]
      BY <2>1, JobFields, InPools
    <2>5. In(e, TakeFrom[of[t]])
      BY <2>1, <2>3, <2>4 DEF DeletionInv, Visits, In
    <2>6. QED
      BY <2>1, <2>2, <2>5 DEF Allocating
  <1>2. CASE AllocateIP(t)
    <2>1. step[t] = "number" /\ of[t] \in Group
      BY <1>2 DEF AllocateIP, LocksHeld
    <2>2. PICK d \in job[t].todo :
             IF Takeable(d) /\ ~Duplicate({d})
             THEN Assign({d}, of[t], job[t].next) /\ Count(d[1], 1)
             ELSE UNCHANGED tables
      BY <1>2 DEF AllocateIP, Lowest
    <2>3. e = d /\ holder'[e] = of[t]
      BY <2>2 DEF Assign, tables
    <2>4. In(e, TakeFrom[of[t]])
      BY <2>1, <2>2, <2>3 DEF DeletionInv, Visits
    <2>5. QED
      BY <2>1, <2>3, <2>4 DEF Allocating
  <1>3. CASE ReleaseCommit(t)
    BY <1>3 DEF ReleaseCommit, FreeRows, TypeOK
  <1>4. CASE \/ BatchSelect(t) \/ BatchRefused(t) \/ Exhausted(t)
             \/ Numbered(t) \/ ReleaseSelect(t)
    BY <1>4 DEF BatchSelect, BatchRefused, Exhausted, Numbered, ReleaseSelect,
                tables
  <1>5. CASE Request(t)
    BY <1>5 DEF Request, ReadGroup, AllocateForGroup, Return, Finish, DeleteGroup,
                DeleteRow, tables
  <1>6. CASE PodLife(t)
    BY <1>6 DEF PodLife, Admit, AllocateForPod, Persist, Run, Terminate,
                PodMoves, Vanish, Finish, tables
  <1>7. QED
    BY <1>1, <1>2, <1>3, <1>4, <1>5, <1>6 DEF Act, Transaction

\* Nobody begins to work for a group that is deleted.
LEMMA WorkBegins ==
    ASSUME LockInv, NEW t \in Thread, Act(t), NEW g \in Group, Allocating(t, g)'
    PROVE  Allocating(t, g) \/ (g \notin gone /\ gone' = gone)
  <1> USE DEF LockInv, TypeOK, Allocating, Goto, Answer
  <1>1. CASE BatchSelect(t)
    BY <1>1 DEF BatchSelect
  <1>2. CASE BatchCommit(t)
    BY <1>2 DEF BatchCommit
  <1>3. CASE BatchRefused(t) \/ Exhausted(t) \/ AllocateIP(t) \/ Numbered(t)
    BY <1>3 DEF BatchRefused, Exhausted, AllocateIP, Numbered
  <1>4. CASE ReleaseSelect(t) \/ ReleaseCommit(t)
    BY <1>4 DEF ReleaseSelect, ReleaseCommit
  <1>5. CASE Request(t)
    <2>1. CASE \E h \in Group : ReadGroup(t, h)
      BY <2>1 DEF ReadGroup
    <2>2. CASE \E h \in Group, n \in Replicas : AllocateForGroup(t, h, n)
      BY <2>2 DEF AllocateForGroup
    <2>3. CASE Return(t)
      BY <2>3 DEF Return, Finish
    <2>4. CASE \E h \in Group : DeleteGroup(t, h)
      BY <2>4 DEF DeleteGroup
    <2>5. CASE DeleteRow(t)
      BY <2>5 DEF DeleteRow
    <2>6. QED
      BY <1>5, <2>1, <2>2, <2>3, <2>4, <2>5 DEF Request
  <1>6. CASE PodLife(t)
    <2>1. CASE \E h \in Group, n \in Replicas : Admit(t, h, n)
      BY <2>1 DEF Admit
    <2>2. CASE AllocateForPod(t)
      BY <2>2 DEF AllocateForPod
    <2>3. CASE Persist(t) \/ Run(t) \/ Terminate(t)
      BY <2>3 DEF Persist, Run, Terminate, PodMoves
    <2>4. CASE Vanish(t)
      BY <2>4 DEF Vanish, Finish
    <2>5. QED
      BY <1>6, <2>1, <2>2, <2>3, <2>4 DEF PodLife
  <1>7. QED
    BY <1>1, <1>2, <1>3, <1>4, <1>5, <1>6 DEF Act, Transaction

\* The pools after the first are still the group's.
LEMMA VisitsRest ==
    ASSUME NEW t \in Thread, Visits(t), job[t].pools \in Seq(Pool), job[t].pools # <<>>,
           step[t] \in {"take", "undoing"}, of'[t] = of[t],
           job'[t].pools = Tail(job[t].pools), job'[t].todo = job[t].todo
    PROVE  Visits(t)'
  <1>1. \A i \in DOMAIN Tail(job[t].pools) :
           \E j \in DOMAIN job[t].pools : job[t].pools[j] = Tail(job[t].pools)[i]
    BY InPools
  <1>2. \A i \in DOMAIN job[t].pools :
           \E j \in DOMAIN TakeFrom[of[t]] : TakeFrom[of[t]][j] = job[t].pools[i]
    BY DEF Visits
  <1>3. ASSUME NEW i \in DOMAIN job'[t].pools
        PROVE  \E j \in DOMAIN TakeFrom[of'[t]] : TakeFrom[of'[t]][j] = job'[t].pools[i]
    <2>1. PICK k \in DOMAIN job[t].pools : job[t].pools[k] = Tail(job[t].pools)[i]
      BY <1>1, <1>3
    <2>2. PICK j \in DOMAIN TakeFrom[of[t]] : TakeFrom[of[t]][j] = job[t].pools[k]
      BY <1>2
    <2>3. QED
      BY <2>1, <2>2
  <1>4. \A e \in job'[t].todo : In(e, TakeFrom[of'[t]])
    BY DEF Visits
  <1>5. QED
    BY <1>3, <1>4 DEF Visits

\* What the stepping thread visits next.
LEMMA VisitsStep ==
    ASSUME LockInv, DeletionInv, NEW t \in Thread, Act(t)
    PROVE  Visits(t)'
  <1> USE DEF LockInv, TypeOK, Visits, Goto, Answer
  <1>0. Visits(t) /\ job[t].pools \in Seq(Pool)
    BY JobFields DEF DeletionInv
  <1>1. CASE BatchSelect(t)
    <2>1. CASE Free(t) = {}
      <3>1. /\ step[t] = "take" /\ job[t].pools # <<>> /\ UNCHANGED <<step, of>>
            /\ job' = [job EXCEPT ![t].pools = Tail(@)]
        BY <1>1, <2>1 DEF BatchSelect
      <3>2. job'[t].pools = Tail(job[t].pools) /\ job'[t].todo = job[t].todo
        BY <3>1 DEF Job
      <3>3. QED
        BY <1>0, <3>1, <3>2, VisitsRest
    <2>2. CASE Free(t) # {}
      BY <1>0, <1>1, <2>2 DEF BatchSelect
    <2>3. QED
      BY <2>1, <2>2
  <1>2. CASE BatchCommit(t)
    <2>1. step[t] = "taking" /\ UNCHANGED of
      BY <1>2 DEF BatchCommit
    <2>2. /\ lock[t] \subseteq EntriesOf(Head(job[t].pools))
          /\ job[t].pools # <<>>
      BY <2>1 DEF LocksHeld
    <2>3. 1 \in DOMAIN job[t].pools /\ Head(job[t].pools) = job[t].pools[1]
      BY <1>0, <2>2, InPools
    <2>4. \A e \in lock[t] : In(e, TakeFrom[of[t]])
      BY <1>0, <2>1, <2>2, <2>3 DEF EntriesOf, In
    <2>5. \/ step'[t] = "undo" /\ job' = job
          \/ /\ step'[t] = "number"
             /\ job'[t].todo = lock[t] /\ job'[t].pools = job[t].pools
          \/ step'[t] = "answered"
      BY <1>2 DEF BatchCommit, Job
    <2>6. QED
      BY <1>0, <2>1, <2>4, <2>5
  <1>3. CASE BatchRefused(t) \/ Exhausted(t) \/ Numbered(t)
    BY <1>3 DEF BatchRefused, Exhausted, Numbered
  <1>4. CASE AllocateIP(t)
    <2>1. PICK e \in job[t].todo :
             job' = [job EXCEPT ![t].todo = @ \ {e}, ![t].next = @ + 1]
      BY <1>4 DEF AllocateIP, Lowest
    <2>2. job'[t].todo \subseteq job[t].todo /\ job'[t].pools = job[t].pools
      BY <2>1 DEF Job
    <2>3. step[t] = "number" /\ UNCHANGED <<step, of>>
      BY <1>4 DEF AllocateIP
    <2>4. QED
      BY <1>0, <2>2, <2>3
  <1>5. CASE ReleaseSelect(t)
    BY <1>0, <1>5 DEF ReleaseSelect
  <1>6. CASE ReleaseCommit(t)
    <2>1. CASE step[t] = "undoing"
      <3>1. job[t].pools # <<>>
        BY <2>1 DEF LocksHeld
      <3>2. job'[t].pools = Tail(job[t].pools) /\ job'[t].todo = job[t].todo
        BY <1>6 DEF ReleaseCommit, Job
      <3>3. UNCHANGED of
        BY <1>6 DEF ReleaseCommit
      <3>4. QED
        BY <1>0, <2>1, <3>1, <3>2, <3>3, VisitsRest
    <2>2. CASE step[t] = "releasing"
      BY <1>6, <2>2 DEF ReleaseCommit
    <2>3. QED
      BY <1>6, <2>1, <2>2 DEF ReleaseCommit
  <1>7. CASE Request(t)
    <2>1. CASE \E g \in Group : ReadGroup(t, g) \/ DeleteGroup(t, g)
      BY <2>1 DEF ReadGroup, DeleteGroup
    <2>2. CASE \E g \in Group, n \in Replicas : AllocateForGroup(t, g, n)
      <3>1. PICK g \in Group, n \in Replicas : AllocateForGroup(t, g, n)
        BY <2>2
      <3>2. CASE Reuse(t, Leased(g), n)
        BY <3>2 DEF Reuse
      <3>3. CASE Grow(t, g, Leased(g), n)
        <4>1. PICK i \in 0..MaxIndex :
                 job' = [job EXCEPT ![t] =
                    [NoJob EXCEPT !.pools = TakeFrom[g],
                                  !.want = n - Cardinality(Leased(g)),
                                  !.first = i,
                                  !.number = (Leased(g) # {}),
                                  !.ips = Addresses(Leased(g))]]
          BY <3>3 DEF Grow
        <4>2. job'[t].pools = TakeFrom[g] /\ job'[t].todo = {}
          BY <4>1 DEF NoJob
        <4>3. of'[t] = g
          BY <3>1 DEF AllocateForGroup
        <4>4. QED
          BY <4>2, <4>3
      <3>4. QED
        BY <3>1, <3>2, <3>3 DEF AllocateForGroup
    <2>3. CASE Return(t) \/ DeleteRow(t)
      BY <2>3 DEF Return, Finish, DeleteRow
    <2>4. QED
      BY <1>7, <2>1, <2>2, <2>3 DEF Request
  <1>8. CASE PodLife(t)
    <2>1. CASE \E g \in Group, n \in Replicas : Admit(t, g, n)
      BY <2>1 DEF Admit
    <2>2. CASE AllocateForPod(t)
      <3>1. CASE \E i \in EmptySlots(t) :
                    job' = [job EXCEPT ![t] =
                       [NoJob EXCEPT !.pools = TakeFrom[of[t]], !.want = 1,
                                     !.first = i, !.number = TRUE]]
        <4>1. job'[t].pools = TakeFrom[of[t]] /\ job'[t].todo = {}
          BY <3>1 DEF NoJob
        <4>2. of' = of
          BY <2>2 DEF AllocateForPod
        <4>3. QED
          BY <4>1, <4>2
      <3>2. CASE step'[t] = "answered"
        BY <3>2
      <3>3. QED
        BY <2>2, <3>1, <3>2 DEF AllocateForPod
    <2>3. CASE Persist(t) \/ Run(t) \/ Terminate(t)
      BY <2>3 DEF Persist, Run, Terminate, PodMoves
    <2>4. CASE Vanish(t)
      BY <2>4 DEF Vanish, Finish
    <2>5. QED
      BY <1>8, <2>1, <2>2, <2>3, <2>4 DEF PodLife
  <1>9. QED
    BY <1>1, <1>2, <1>3, <1>4, <1>5, <1>6, <1>7, <1>8 DEF Act, Transaction

\* What the stepping thread has left.
LEMMA LeftStep ==
    ASSUME LockInv, DeletionInv, NEW t \in Thread, Act(t), beside \subseteq beside'
    PROVE  Left(t)'
  <1> USE DEF LockInv, TypeOK, Goto, Answer
  <1>0. Left(t) /\ job[t].pools \in Seq(Pool)
    BY JobFields DEF DeletionInv
  <1>1. CASE BatchSelect(t) \/ BatchCommit(t) \/ BatchRefused(t)
    BY <1>1 DEF BatchSelect, BatchCommit, BatchRefused, Left
  <1>2. CASE Exhausted(t) \/ AllocateIP(t) \/ Numbered(t)
    BY <1>2 DEF Exhausted, AllocateIP, Numbered, Left
  <1>3. CASE ReleaseSelect(t)
    <2>1. CASE step[t] = "undo"
      BY <1>3, <2>1 DEF ReleaseSelect, Left
    <2>2. CASE step[t] = "release"
      <3>1. /\ job[t].pools # <<>> /\ step'[t] = "releasing"
            /\ lock'[t] = {e \in EntriesOf(Head(job[t].pools)) : holder[e] = of[t]}
            /\ UNCHANGED <<holder, of, job>>
        BY <1>3, <2>2 DEF ReleaseSelect, tables
      <3>2. ASSUME NEW e \in Entry, holder[e] = of[t], In(e, job[t].pools)
            PROVE  e \in lock'[t] \/ In(e, Tail(job[t].pools))
        BY <1>0, <3>1, <3>2, InPools DEF EntriesOf
      <3>3. QED
        BY <1>0, <2>2, <3>1, <3>2 DEF Left
    <2>3. QED
      BY <1>3, <2>1, <2>2 DEF ReleaseSelect
  <1>4. CASE ReleaseCommit(t)
    <2>1. CASE step[t] = "undoing"
      BY <1>4, <2>1 DEF ReleaseCommit, Left
    <2>2. CASE step[t] = "releasing"
      <3>1. /\ step'[t] = "release" /\ of' = of
            /\ holder' = [e \in Entry |-> IF e \in lock[t] THEN Nobody ELSE holder[e]]
            /\ of[t] \in Group
        BY <1>4, <2>2 DEF ReleaseCommit, FreeRows, LocksHeld
      <3>2. job'[t].pools = Tail(job[t].pools)
        BY <1>4 DEF ReleaseCommit, Job
      <3>3. \A e \in Entry : holder'[e] = of[t] => e \notin lock[t] /\ holder[e] = of[t]
        BY <3>1, IPPoolAssumption
      <3>4. QED
        BY <1>0, <2>2, <3>1, <3>2, <3>3 DEF Left
    <2>3. QED
      BY <1>4, <2>1, <2>2 DEF ReleaseCommit
  <1>5. CASE Request(t)
    <2>1. CASE \E g \in Group : DeleteGroup(t, g)
      <3>1. PICK g \in Group : DeleteGroup(t, g)
        BY <2>1
      <3>2. /\ step'[t] = "release" /\ of'[t] = g /\ holder' = holder
        BY <3>1 DEF DeleteGroup, tables
      <3>3. job'[t].pools = ReleaseFrom[g]
        BY <3>1 DEF DeleteGroup, Job
      <3>4. ASSUME NEW e \in Entry, holder[e] = g PROVE In(e, ReleaseFrom[g])
        <4>1. In(e, TakeFrom[g])
          BY <3>4 DEF DeletionInv, HeldInv
        <4>2. QED
          BY <4>1, IPPoolAssumption DEF In
      <3>5. QED
        BY <3>2, <3>3, <3>4 DEF Left
    <2>2. CASE \E g \in Group : ReadGroup(t, g)
      BY <2>2 DEF ReadGroup, Left
    <2>3. CASE \E g \in Group, n \in Replicas : AllocateForGroup(t, g, n)
      BY <2>3 DEF AllocateForGroup, Reuse, Grow, Left
    <2>4. CASE Return(t) \/ DeleteRow(t)
      BY <2>4 DEF Return, Finish, DeleteRow, Left
    <2>5. QED
      BY <1>5, <2>1, <2>2, <2>3, <2>4 DEF Request
  <1>6. CASE PodLife(t)
    <2>1. CASE \E g \in Group, n \in Replicas : Admit(t, g, n)
      BY <2>1 DEF Admit, Left
    <2>2. CASE AllocateForPod(t)
      BY <2>2 DEF AllocateForPod, Left
    <2>3. CASE Persist(t) \/ Run(t) \/ Terminate(t)
      BY <2>3 DEF Persist, Run, Terminate, PodMoves, Left
    <2>4. CASE Vanish(t)
      BY <2>4 DEF Vanish, Finish, Left
    <2>5. QED
      BY <1>6, <2>1, <2>2, <2>3, <2>4 DEF PodLife
  <1>7. QED
    BY <1>1, <1>2, <1>3, <1>4, <1>5, <1>6 DEF Act, Transaction

\* While a group is deleted and has not been worked for beside it, nobody's step
\* gives it an entry.
LEMMA NoneAdded ==
    ASSUME LockInv, DeletionInv, NEW t \in Thread, Act(t), NEW g \in Group,
           ~Allocating(t, g), NEW e \in Entry, holder'[e] = g
    PROVE  holder[e] = g
  <1>1. g # Nobody
    BY IPPoolAssumption
  <1>2. QED
    BY <1>1, HolderStep

\* The step that deletes the row.
LEMMA RowGoes ==
    ASSUME LockInv, DeletionInv, NEW t \in Thread, Act(t), gone' # gone
    PROVE  /\ step[t] = "release" /\ of[t] \in Group /\ job[t].pools = <<>>
           /\ gone' = gone \cup {of[t]} /\ holder' = holder
           /\ step'[t] = "idle"
  <1> USE DEF LockInv, TypeOK
  <1>1. CASE Transaction(t)
    BY <1>1 DEF Transaction, BatchSelect, BatchCommit, BatchRefused, Exhausted,
                AllocateIP, Numbered, ReleaseSelect, ReleaseCommit
  <1>2. CASE Request(t)
    <2>1. DeleteRow(t)
      BY <1>2 DEF Request, ReadGroup, AllocateForGroup, Return, Finish, DeleteGroup
    <2>2. QED
      BY <2>1 DEF DeleteRow, Goto, tables, LocksHeld
  <1>3. CASE PodLife(t)
    BY <1>3 DEF PodLife, Admit, AllocateForPod, Persist, Run, Terminate,
                PodMoves, Vanish, Finish
  <1>4. QED
    BY <1>1, <1>2, <1>3 DEF Act

LEMMA DeletionStep ==
    ASSUME LockInv, DeletionInv, NEW t \in Thread, Act(t),
           beside' = beside \cup {g \in Group : Meeting(g)'}
    PROVE  DeletionInv'
  <1>1. \A g \in Group : Meeting(g)' => g \in beside'
    OBVIOUS
  <1>2. ASSUME NEW o \in Thread PROVE Visits(o)'
    <2>1. CASE o = t
      BY <2>1, VisitsStep
    <2>2. CASE o # t
      <3>1. Visits(o)
        BY DEF DeletionInv
      <3>2. QED
        BY <2>2, <3>1, Others DEF Visits
    <2>3. QED
      BY <2>1, <2>2
  <1>3. ASSUME NEW o \in Thread PROVE Left(o)'
    <2>1. CASE o = t
      BY <2>1, LeftStep
    <2>2. CASE o # t
      <3> SUFFICES ASSUME of'[o] \notin beside', step'[o] \in {"release", "releasing"}
                   PROVE  Left(o)'
        BY DEF Left
      <3>1. /\ step'[o] = step[o] /\ of'[o] = of[o]
            /\ lock'[o] = lock[o] /\ job'[o] = job[o]
        BY <2>2, Others
      <3>2. of[o] \in Group /\ of[o] \notin beside /\ Left(o)
        BY <3>1 DEF LockInv, LocksHeld, DeletionInv
      <3>3. ~Allocating(t, of[o])
        BY <3>1, <3>2 DEF DeletionInv, Meeting, Deleting
      <3>4. \A e \in Entry : holder'[e] = of[o] => holder[e] = of[o]
        BY <3>2, <3>3, NoneAdded
      <3>5. QED
        BY <3>1, <3>2, <3>4 DEF Left
    <2>3. QED
      BY <2>1, <2>2
  <1>4. HeldInv'
    <2> SUFFICES ASSUME NEW e \in Entry, holder'[e] \in Group
                 PROVE  In(e, TakeFrom[holder'[e]])
      BY DEF HeldInv, In
    <2>1. CASE holder'[e] = holder[e]
      BY <2>1 DEF DeletionInv, HeldInv
    <2>2. CASE holder'[e] # holder[e]
      BY <2>2, HolderStep, IPPoolAssumption
    <2>3. QED
      BY <2>1, <2>2
  <1>5. ASSUME NEW g \in gone', g \notin beside'
        PROVE  /\ \A e \in Entry : holder'[e] # g
               /\ \A o \in Thread : ~Allocating(o, g)'
    <2>1. CASE g \in gone
      <3>1. /\ g \in Group /\ \A e \in Entry : holder[e] # g
            /\ \A o \in Thread : ~Allocating(o, g)
        BY <1>5, <2>1 DEF DeletionInv, GoneInv, LockInv, TypeOK
      <3>2. \A e \in Entry : holder'[e] # g
        BY <3>1, NoneAdded
      <3>3. ~Allocating(t, g)'
        BY <2>1, <3>1, WorkBegins
      <3>4. \A o \in Thread \ {t} : ~Allocating(o, g)'
        BY <3>1, Others DEF Allocating
      <3>5. QED
        BY <3>2, <3>3, <3>4
    <2>2. CASE g \notin gone
      <3>1. /\ step[t] = "release" /\ of[t] = g /\ g \in Group
            /\ job[t].pools = <<>> /\ holder' = holder /\ step'[t] = "idle"
        BY <1>5, <2>2, RowGoes
      <3>2. \A e \in Entry : holder[e] # g
        BY <1>5, <3>1 DEF DeletionInv, Left, In
      <3>3. \A o \in Thread : ~Allocating(o, g)
        BY <1>5, <3>1 DEF DeletionInv, Meeting, Deleting
      <3>4. \A o \in Thread \ {t} : ~Allocating(o, g)'
        BY <3>3, Others DEF Allocating
      <3>5. ~Allocating(t, g)'
        BY <3>1 DEF Allocating
      <3>6. QED
        BY <3>1, <3>2, <3>4, <3>5
    <2>3. QED
      BY <2>1, <2>2
  <1>6. GoneInv'
    BY <1>5 DEF GoneInv
  <1>7. QED
    BY <1>1, <1>2, <1>3, <1>4, <1>6 DEF DeletionInv

LEMMA DeletionStays == LockInv /\ DeletionInv /\ [Next]_vars => DeletionInv'
  <1> SUFFICES ASSUME LockInv, DeletionInv, [Next]_vars PROVE DeletionInv'
    OBVIOUS
  <1>1. CASE Next
    BY <1>1, NextActs, DeletionStep DEF Next
  <1>2. CASE UNCHANGED vars
    BY <1>2 DEF DeletionInv, Visits, Left, HeldInv, GoneInv, In, Meeting, Allocating,
                Deleting, vars, tables
  <1>3. QED
    BY <1>1, <1>2

\* However many pools a group allocated from, and whatever batches of it were
\* undone, renumbered or refused, its deletion frees everything it has, unless a
\* release or the admission of a Pod was under way for it meanwhile.
THEOREM DeletedHoldsNothingThm == Spec => []DeletedHoldsNothing
  <1>1. Init => DeletionInv
    BY IPPoolAssumption DEF Init, DeletionInv, Visits, Left, HeldInv, GoneInv, Meeting,
       Allocating, Deleting, Owner
  <1>2. LockInv /\ DeletionInv /\ LeaseBacked => DeletedHoldsNothing
    <2> SUFFICES ASSUME LockInv, DeletionInv, LeaseBacked,
                        NEW g \in gone \ beside, NEW e \in Entry
                 PROVE  holder[e] # g /\ lease[e] # g
      BY DEF DeletedHoldsNothing
    <2>1. holder[e] # g
      BY DEF DeletionInv, GoneInv
    <2>2. g # Nobody
      BY IPPoolAssumption DEF LockInv, TypeOK
    <2>3. QED
      BY <2>1, <2>2 DEF LeaseBacked
  <1>3. QED
    BY <1>1, <1>2, DeletionStays, LocksExclusive, LeaseBackedThm, PTL DEF Spec
=============================================================================
