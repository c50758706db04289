---------------------------- MODULE PodWatchProofs ----------------------------
(***************************************************************************)
(* Theorems about PodWatch, for any Pods, namespaces, names and bounds.    *)
(*                                                                         *)
(* NoStorm is not inductive: the credit of a key must also pay for the     *)
(* notification of the goroutine that holds its permission.  There is one  *)
(* such goroutine at most, since every key belongs to one (ThreadInv).     *)
(***************************************************************************)
EXTENDS PodWatch, TLAPS

\* Pods are handled by the goroutine of their namespace, Events by the other.
ThreadInv == \A t \in Thread :
    /\ ~At(t, "idle") => t[2] = NamespaceOf[hand[t].pod]
    /\ t[1] = "events" => /\ hand[t].step \in {"idle", "acquire", "notify"}
                          /\ ~At(t, "idle") => hand[t].saw = KubernetesEvent
    /\ t[1] = "pods" => /\ At(t, "cache") => hand[t].saw \in State
                        /\ hand[t].step \in {"acquire", "notify"}
                              => hand[t].saw \in Reason

Permitted(k) == \E t \in Thread : At(t, "notify") /\ KeyOf(t) = k
Unit(b) == IF b THEN 1 ELSE 0

\* What the credit of a key has to pay for.
CreditInv == \A k \in Key :
    credit[k] >= Unit(k \notin keys) + Unit(Permitted(k))

\* While nothing failed: a key means that the anomaly is remembered, and what
\* is remembered is not shown as fine.
MemoryInv == crashes = 0 /\ fails = 0 => \A p \in Pod : ~Namesake(p) =>
    /\ \A r \in Reason : <<p, r>> \in keys =>
          NameOf[p] \in last \/ Releasing(p)
    /\ NameOf[p] \in last => cache[p] # "fine"
    /\ hand[Pods(p)].pod = p /\ hand[Pods(p)].step \in {"acquire", "notify"}
          => NameOf[p] \in last

WatchInv == TypeOK /\ ThreadInv /\ CreditInv /\ MemoryInv

LEMMA IdleType == Thread # {} => Idle \in [step : Step, pod : Pod,
                                          saw : State \cup {KubernetesEvent}]
<1>1. SUFFICES ASSUME Thread # {}
               PROVE  SomePod \in Pod
  BY <1>1 DEF Idle, Step, State
<1>2. \E p : p \in Pod
  BY <1>1 DEF Thread
<1>. QED
  BY <1>2 DEF SomePod

LEMMA ThreadOf ==
    ASSUME NEW p \in Pod
    PROVE  Pods(p) \in Thread /\ Events(p) \in Thread
BY DEF Pods, Events, Thread

LEMMA InitInv == Init => WatchInv
<1>1. SUFFICES ASSUME Init PROVE WatchInv
  OBVIOUS
<1>2. \A t \in Thread : hand[t] = Idle
  BY <1>1 DEF Init
<1>3. TypeOK
  BY <1>1, IdleType, PodWatchAssumption
     DEF Init, TypeOK, State, Key, Name
<1>4. ThreadInv
  BY <1>2 DEF ThreadInv, At, Idle
<1>5. CreditInv
  <2>1. \A k \in Key : ~Permitted(k)
    BY <1>2 DEF Permitted, At, Idle
  <2>. QED
    BY <1>1, <2>1 DEF CreditInv, Unit, Init
<1>6. MemoryInv
  <2>1. \A p \in Pod : hand[Pods(p)].step = "idle"
    BY <1>2, ThreadOf DEF Idle
  <2>. QED
    BY <1>1, <2>1 DEF MemoryInv, Init
<1>. QED
  BY <1>3, <1>4, <1>5, <1>6 DEF WatchInv

\* Every action sets types right.
LEMMA TypeStep == TypeOK /\ ThreadInv /\ [Next]_vars => TypeOK'
<1>1. SUFFICES ASSUME TypeOK, ThreadInv, [Next]_vars PROVE TypeOK'
  OBVIOUS
<1>a. \A p \in Pod : Pods(p) \in Thread /\ Events(p) \in Thread
  BY ThreadOf
<1>. USE <1>1 DEF TypeOK
<1>2. ASSUME NEW p \in Pod, Change(p) PROVE TypeOK'
  BY <1>2, PodWatchAssumption DEF Change, process, redis
<1>3. ASSUME NEW p \in Pod, Warn(p) PROVE TypeOK'
  BY <1>3, PodWatchAssumption DEF Warn, process, redis
<1>4. ASSUME NEW p \in Pod, Fade(p) PROVE TypeOK'
  BY <1>4 DEF Fade, process, redis
<1>5. ASSUME NEW p \in Pod, Observe(p) PROVE TypeOK'
  BY <1>5, <1>a DEF Observe, Take, kubernetes, redis, Step
<1>6. ASSUME NEW p \in Pod, Miss(p) PROVE TypeOK'
  <2>1. hand' \in [Thread -> [step : Step, pod : Pod,
                             saw : State \cup {KubernetesEvent}]]
    <3>1. CASE hand' = hand
      BY <3>1
    <3>2. CASE Take(Pods(p), "cache", p, "gone")
      BY <3>2, <1>a DEF Take, Step, State
    <3>. QED
      BY <1>6, <3>1, <3>2 DEF Miss
  <2>. QED
    BY <1>6, <2>1 DEF Miss, kubernetes, redis
<1>7. ASSUME NEW p \in Pod, Witness(p) PROVE TypeOK'
  BY <1>7, <1>a DEF Witness, Take, kubernetes, redis, Step
<1>8. ASSUME NEW p \in Pod, Expire(p) PROVE TypeOK'
  BY <1>8 DEF Expire, kubernetes, process, State
<1>9. CASE Lead
  BY <1>9, PodWatchAssumption DEF Lead, Works, Fails, kubernetes, redis
<1>10. CASE Stop
  BY <1>10, IdleType, PodWatchAssumption DEF Stop, kubernetes, redis
<1>11. ASSUME NEW t \in Thread, Cache(t) PROVE TypeOK'
  <2>1. hand[t].saw \in State /\ hand[t].pod \in Pod
    BY <1>11 DEF ThreadInv, Cache, At, Thread
  <2>2. cache' \in [Pod -> State] /\ fails' \in 0..MaxFail
    BY <1>11, <2>1, PodWatchAssumption DEF Cache, Write, Works, Fails
  <2>3. last' \in SUBSET Name /\ hand' \in [Thread -> [step : Step, pod : Pod,
                             saw : State \cup {KubernetesEvent}]]
    BY <1>11, <2>1 DEF Cache, Ails, Recovers, To, Name, Step
  <2>. QED
    BY <1>11, <2>2, <2>3 DEF Cache, kubernetes
<1>12. ASSUME NEW t \in Thread, Acquire(t) PROVE TypeOK'
  <2>1. KeyOf(t) \in Key
    BY <1>12 DEF ThreadInv, Acquire, At, KeyOf, Key, Thread
  <2>2. hand' \in [Thread -> [step : Step, pod : Pod,
                             saw : State \cup {KubernetesEvent}]]
    BY <1>12 DEF Acquire, To, Step
  <2>3. keys' \in SUBSET Key /\ credit' \in [Key -> Int] /\ fails' \in 0..MaxFail
    BY <1>12, <2>1, PodWatchAssumption
       DEF Acquire, SetNX, Suppressed, Works, Fails
  <2>. QED
    BY <1>12, <2>2, <2>3 DEF Acquire, kubernetes
<1>13. ASSUME NEW t \in Thread, Notify(t) PROVE TypeOK'
  <2>1. KeyOf(t) \in Key /\ hand[t].pod \in Pod
    BY <1>13 DEF ThreadInv, Notify, At, KeyOf, Key, Thread
  <2>2. hand' \in [Thread -> [step : Step, pod : Pod,
                             saw : State \cup {KubernetesEvent}]]
    BY <1>13 DEF Notify, To, Step
  <2>3. told' \in SUBSET Pod /\ credit' \in [Key -> Int] /\ fails' \in 0..MaxFail
    BY <1>13, <2>1, PodWatchAssumption DEF Notify, Works, Fails
  <2>. QED
    BY <1>13, <2>2, <2>3 DEF Notify, kubernetes
<1>14. ASSUME NEW t \in Thread, Release(t) PROVE TypeOK'
  <2>1. hand' \in [Thread -> [step : Step, pod : Pod,
                             saw : State \cup {KubernetesEvent}]]
    BY <1>14 DEF Release, To, Step
  <2>2. keys' \in SUBSET Key /\ credit' \in [Key -> Int] /\ fails' \in 0..MaxFail
    BY <1>14, PodWatchAssumption DEF Release, Removed, Works, Fails
  <2>. QED
    BY <1>14, <2>1, <2>2 DEF Release, kubernetes
<1>15. ASSUME NEW k \in keys, Elapse(k) PROVE TypeOK'
  BY <1>15 DEF Elapse, Removed, kubernetes, process
<1>16. CASE UNCHANGED vars
  BY <1>16 DEF vars, kubernetes, process, redis
<1>. QED
  BY <1>1, <1>2, <1>3, <1>4, <1>5, <1>6, <1>7, <1>8, <1>9, <1>10, <1>11, <1>12,
     <1>13, <1>14, <1>15, <1>16 DEF Next, Handle

-----------------------------------------------------------------------------
(* Goroutines.                                                             *)

\* A step of one of them is a handler's first or a later one.
LEMMA HandsMove ==
    ASSUME TypeOK, ThreadInv, NEW t \in Thread, NEW h,
           hand' = [hand EXCEPT ![t] = h],
           h.step # "idle" => t[2] = NamespaceOf[h.pod],
           t[1] = "events" => /\ h.step \in {"idle", "acquire", "notify"}
                              /\ h.step # "idle" => h.saw = KubernetesEvent,
           t[1] = "pods" => /\ h.step = "cache" => h.saw \in State
                            /\ h.step \in {"acquire", "notify"}
                                  => h.saw \in Reason
    PROVE  ThreadInv'
<1>. SUFFICES ASSUME NEW u \in Thread
     PROVE  (/\ ~At(u, "idle") => u[2] = NamespaceOf[hand[u].pod]
             /\ u[1] = "events" => /\ hand[u].step \in {"idle", "acquire", "notify"}
                                   /\ ~At(u, "idle") => hand[u].saw = KubernetesEvent
             /\ u[1] = "pods" => /\ At(u, "cache") => hand[u].saw \in State
                                 /\ hand[u].step \in {"acquire", "notify"}
                                       => hand[u].saw \in Reason)'
  BY DEF ThreadInv
<1>1. CASE u = t
  <2>1. hand'[u] = h
    BY <1>1 DEF TypeOK
  <2>. QED
    BY <1>1, <2>1 DEF At
<1>2. CASE u # t
  <2>1. hand'[u] = hand[u]
    BY <1>2 DEF TypeOK
  <2>. QED
    BY <2>1 DEF At, ThreadInv
<1>. QED
  BY <1>1, <1>2

\* The same goroutine goes on with the Pod it has.
LEMMA HandGoesOn ==
    ASSUME TypeOK, ThreadInv, NEW t \in Thread, ~At(t, "idle"),
           NEW step, To(t, step),
           step # "idle" => IF t[1] = "events" THEN step = "notify"
                            ELSE step = "release" \/ /\ hand[t].saw \in Reason
                                                     /\ step \in {"acquire", "notify"}
    PROVE  ThreadInv'
<1>. DEFINE h == [hand[t] EXCEPT !.step = step]
<1>1. h.pod = hand[t].pod /\ h.saw = hand[t].saw /\ h.step = step
  BY DEF TypeOK
<1>2. hand' = [hand EXCEPT ![t] = h]
  BY DEF To
<1>3. t[1] = "events" \/ t[1] = "pods"
  BY DEF Thread
<1>4. t[2] = NamespaceOf[hand[t].pod]
  BY DEF ThreadInv
<1>5. t[1] = "events" => hand[t].saw = KubernetesEvent
  BY DEF ThreadInv
<1>. HIDE DEF h
<1>. QED
  BY <1>1, <1>2, <1>3, <1>4, <1>5, HandsMove

LEMMA ThreadStep == TypeOK /\ ThreadInv /\ [Next]_vars => ThreadInv'
<1>1. SUFFICES ASSUME TypeOK, ThreadInv, [Next]_vars PROVE ThreadInv'
  OBVIOUS
<1>2. ASSUME hand' = hand PROVE ThreadInv'
  BY <1>1, <1>2 DEF ThreadInv, At
<1>3. ASSUME NEW p \in Pod, Observe(p) \/ Miss(p) PROVE ThreadInv'
  <2>. DEFINE h == [step |-> "cache", pod |-> p, saw |-> pod[p]]
  <2>1. hand' = hand \/ hand' = [hand EXCEPT ![Pods(p)] = h]
    BY <1>3 DEF Observe, Miss, Take
  <2>2. h.step = "cache" /\ h.pod = p /\ h.saw = pod[p] /\ pod[p] \in State
    BY <1>1 DEF TypeOK
  <2>3. Pods(p)[1] = "pods" /\ Pods(p)[2] = NamespaceOf[p]
    BY DEF Pods
  <2>. HIDE DEF h
  <2>. QED
    BY <1>1, <1>2, <2>1, <2>2, <2>3, ThreadOf, HandsMove
<1>4. ASSUME NEW p \in Pod, Witness(p) PROVE ThreadInv'
  <2>. DEFINE h == [step |-> "acquire", pod |-> p, saw |-> KubernetesEvent]
  <2>1. hand' = [hand EXCEPT ![Events(p)] = h]
    BY <1>4 DEF Witness, Take
  <2>2. h.step = "acquire" /\ h.pod = p /\ h.saw = KubernetesEvent
    OBVIOUS
  <2>3. Events(p)[1] = "events" /\ Events(p)[2] = NamespaceOf[p]
    BY DEF Events
  <2>. HIDE DEF h
  <2>. QED
    BY <1>1, <2>1, <2>2, <2>3, ThreadOf, HandsMove
<1>5. CASE Stop
  <2>1. \A t \in Thread : hand'[t].step = "idle"
    BY <1>5 DEF Stop, Idle
  <2>. QED
    BY <2>1 DEF ThreadInv, At
<1>6. ASSUME NEW t \in Thread, Cache(t) PROVE ThreadInv'
  <2>1. t[1] = "pods" /\ ~At(t, "idle")
    BY <1>1, <1>6 DEF ThreadInv, Cache, At, Thread
  <2>2. \/ To(t, "release") \/ To(t, "idle")
        \/ hand[t].saw \in Reason /\ To(t, "acquire")
    BY <1>6 DEF Cache, Ails, Recovers
  <2>. QED
    BY <1>1, <2>1, <2>2, HandGoesOn
<1>7. ASSUME NEW t \in Thread, Acquire(t) PROVE ThreadInv'
  <2>1. t[1] = "events" \/ hand[t].saw \in Reason
    BY <1>1, <1>7 DEF ThreadInv, Acquire, At, Thread
  <2>2. ~At(t, "idle") /\ (To(t, "notify") \/ To(t, "idle"))
    BY <1>7 DEF Acquire, At
  <2>. QED
    BY <1>1, <2>1, <2>2, HandGoesOn
<1>8. ASSUME NEW t \in Thread, Notify(t) \/ Release(t) PROVE ThreadInv'
  BY <1>1, <1>8, HandGoesOn DEF Notify, Release, At
<1>9. CASE \/ Lead
           \/ UNCHANGED vars
           \/ \E p \in Pod : Change(p) \/ Warn(p) \/ Fade(p) \/ Expire(p)
           \/ \E k \in keys : Elapse(k)
  BY <1>2, <1>9 DEF Change, Warn, Fade, Expire, Elapse, Lead, process, vars
<1>. QED
  BY <1>1, <1>3, <1>4, <1>5, <1>6, <1>7, <1>8, <1>9 DEF Next, Handle

-----------------------------------------------------------------------------
(* Credits.                                                                *)

\* The goroutine that may hold the permission of a key.
LEMMA OneHolder ==
    ASSUME TypeOK, ThreadInv, NEW t \in Thread, NEW u \in Thread,
           hand[t].step \in {"acquire", "notify"},
           hand[u].step \in {"acquire", "notify"}, KeyOf(t) = KeyOf(u)
    PROVE  t = u
<1>1. hand[t].pod = hand[u].pod /\ hand[t].saw = hand[u].saw
  BY DEF KeyOf
<1>2. t[2] = u[2]
  BY <1>1 DEF ThreadInv, At
<1>3. t[1] = u[1]
  BY <1>1, PodWatchAssumption DEF ThreadInv, At, Thread
<1>. QED
  BY <1>2, <1>3 DEF Thread

\* Nobody gets a permission in a step that moves no goroutine to "notify".
LEMMA PermitsFall ==
    ASSUME TypeOK, NEW t \in Thread, NEW h, h.step # "notify",
           hand' = [hand EXCEPT ![t] = h], NEW k, Permitted(k)'
    PROVE  Permitted(k)
<1>1. PICK u \in Thread : (At(u, "notify") /\ KeyOf(u) = k)'
  BY DEF Permitted
<1>2. u # t
  BY <1>1 DEF TypeOK, At
<1>3. hand'[u] = hand[u]
  BY <1>2 DEF TypeOK
<1>. QED
  BY <1>1, <1>3 DEF Permitted, At, KeyOf

\* Permissions fall and the key stays as it is.
LEMMA CreditStays ==
    ASSUME TypeOK, CreditInv, keys' = keys, credit' = credit,
           \A k \in Key : Permitted(k)' => Permitted(k)
    PROVE  CreditInv'
<1>. SUFFICES ASSUME NEW k \in Key
     PROVE  credit'[k] >= Unit(k \notin keys') + Unit(Permitted(k)')
  BY DEF CreditInv
<1>1. Unit(Permitted(k)') <= Unit(Permitted(k))
  BY DEF Unit
<1>2. credit[k] >= Unit(k \notin keys) + Unit(Permitted(k))
  BY DEF CreditInv
<1>3. Unit(k \notin keys) \in Int /\ Unit(Permitted(k)) \in Int
      /\ Unit(Permitted(k)') \in Int /\ credit[k] \in Int
  BY DEF Unit, TypeOK
<1>. QED
  BY <1>1, <1>2, <1>3

LEMMA CreditRemoved ==
    ASSUME TypeOK, CreditInv, NEW K, Removed(K),
           \A k \in Key : Permitted(k)' => Permitted(k)
    PROVE  CreditInv'
<1>. SUFFICES ASSUME NEW k \in Key
     PROVE  credit'[k] >= Unit(k \notin keys') + Unit(Permitted(k)')
  BY DEF CreditInv
<1>1. Unit(Permitted(k)') <= Unit(Permitted(k))
  BY DEF Unit
<1>2. credit[k] >= Unit(k \notin keys) + Unit(Permitted(k))
  BY DEF CreditInv
<1>3. Unit(k \notin keys) \in {0, 1} /\ Unit(Permitted(k)) \in {0, 1}
      /\ Unit(Permitted(k)') \in {0, 1} /\ credit[k] \in Int
      /\ Unit(k \notin keys') \in {0, 1}
  BY DEF Unit, TypeOK
<1>4. CASE k \in K \cap keys
  <2>1. credit'[k] = credit[k] + 1 /\ Unit(k \notin keys) = 0
    BY <1>4 DEF Removed, Unit
  <2>. QED
    BY <1>1, <1>2, <1>3, <2>1
<1>5. CASE k \notin K \cap keys
  <2>1. credit'[k] = credit[k] /\ (k \notin keys' <=> k \notin keys)
    BY <1>5 DEF Removed
  <2>2. Unit(k \notin keys') = Unit(k \notin keys)
    BY <2>1 DEF Unit
  <2>. QED
    BY <1>1, <1>2, <1>3, <2>1, <2>2
<1>. QED
  BY <1>4, <1>5

\* One goroutine gets the permission of its key, for its credit.
LEMMA CreditTaken ==
    ASSUME TypeOK, ThreadInv, CreditInv, NEW t \in Thread, At(t, "acquire"),
           SetNX(KeyOf(t)), To(t, "notify")
    PROVE  CreditInv'
<1>. SUFFICES ASSUME NEW k \in Key
     PROVE  credit'[k] >= Unit(k \notin keys') + Unit(Permitted(k)')
  BY DEF CreditInv
<1>1. credit[k] >= Unit(k \notin keys) + Unit(Permitted(k))
  BY DEF CreditInv
<1>2. Unit(k \notin keys) \in {0, 1} /\ Unit(Permitted(k)) \in {0, 1}
      /\ Unit(Permitted(k)') \in {0, 1} /\ credit[k] \in Int
      /\ Unit(k \notin keys') \in {0, 1}
  BY DEF Unit, TypeOK
<1>3. \A u \in Thread : u # t => hand'[u] = hand[u]
  BY DEF To, TypeOK
<1>4. KeyOf(t)' = KeyOf(t)
  BY DEF To, TypeOK, KeyOf
<1>5. CASE k # KeyOf(t)
  <2>1. Permitted(k)' => Permitted(k)
    BY <1>3, <1>4, <1>5 DEF Permitted, At, KeyOf
  <2>2. credit'[k] = credit[k] /\ (k \notin keys' <=> k \notin keys)
    BY <1>5 DEF SetNX, TypeOK
  <2>3. Unit(Permitted(k)') <= Unit(Permitted(k))
    BY <2>1 DEF Unit
  <2>4. Unit(k \notin keys') = Unit(k \notin keys)
    BY <2>2 DEF Unit
  <2>. QED
    BY <1>1, <1>2, <2>2, <2>3, <2>4
<1>6. CASE k = KeyOf(t)
  <2>1. ~Permitted(k)
    <3>1. SUFFICES ASSUME NEW u \in Thread, At(u, "notify"), KeyOf(u) = k
                   PROVE  FALSE
      BY DEF Permitted
    <3>2. u = t
      BY <1>6, <3>1, OneHolder DEF At
    <3>. QED
      BY <3>1, <3>2 DEF At
  <2>2. Unit(Permitted(k)) = 0
    BY <2>1 DEF Unit
  <2>3. CASE k \notin keys /\ keys' = keys \cup {k} /\ credit' = credit
    <3>1. Unit(k \notin keys) = 1 /\ Unit(k \notin keys') = 0
      BY <2>3 DEF Unit
    <3>. QED
      BY <1>1, <1>2, <2>2, <2>3, <3>1
  <2>4. CASE /\ keys' \in {keys, keys \cup {k}}
             /\ credit' = [credit EXCEPT ![k] = @ + 1]
    <3>1. credit'[k] = credit[k] + 1
      BY <2>4 DEF TypeOK
    <3>2. Unit(k \notin keys') <= Unit(k \notin keys)
      BY <2>4 DEF Unit
    <3>. QED
      BY <1>1, <1>2, <2>2, <3>1, <3>2
  <2>. QED
    BY <1>6, <2>3, <2>4 DEF SetNX
<1>. QED
  BY <1>5, <1>6

\* The notification is paid for by the permission.
LEMMA CreditSpent ==
    ASSUME TypeOK, ThreadInv, CreditInv, NEW t \in Thread, Notify(t)
    PROVE  CreditInv'
<1>. SUFFICES ASSUME NEW k \in Key
     PROVE  credit'[k] >= Unit(k \notin keys') + Unit(Permitted(k)')
  BY DEF CreditInv
<1>. DEFINE h == [hand[t] EXCEPT !.step = "idle"]
<1>a. h.step # "notify" /\ hand' = [hand EXCEPT ![t] = h]
  BY DEF Notify, To, TypeOK
<1>. HIDE DEF h
<1>1. Permitted(k)' => Permitted(k)
  BY <1>a, PermitsFall
<1>2. credit[k] >= Unit(k \notin keys) + Unit(Permitted(k))
  BY DEF CreditInv
<1>3. Unit(k \notin keys) \in {0, 1} /\ Unit(Permitted(k)) \in {0, 1}
      /\ Unit(Permitted(k)') \in {0, 1} /\ credit[k] \in Int
  BY DEF Unit, TypeOK
<1>4. keys' = keys
  BY DEF Notify
<1>5. Unit(Permitted(k)') <= Unit(Permitted(k))
  BY <1>1 DEF Unit
<1>6. CASE credit'[k] = credit[k]
  BY <1>2, <1>3, <1>4, <1>5, <1>6
<1>7. CASE k = KeyOf(t) /\ credit'[k] = credit[k] - 1
  <2>1. Permitted(k)
    BY <1>7 DEF Permitted, Notify
  <2>2. ~Permitted(k)'
    <3>1. SUFFICES ASSUME NEW u \in Thread, (At(u, "notify") /\ KeyOf(u) = k)'
                   PROVE  FALSE
      BY DEF Permitted
    <3>2. u # t
      BY <3>1, <1>a DEF TypeOK, At
    <3>3. hand'[u] = hand[u]
      BY <3>2, <1>a DEF TypeOK
    <3>4. At(u, "notify") /\ KeyOf(u) = KeyOf(t)
      BY <3>1, <3>3, <1>7 DEF At, KeyOf
    <3>. QED
      BY <3>2, <3>4, OneHolder DEF Notify, At
  <2>3. Unit(Permitted(k)) = 1 /\ Unit(Permitted(k)') = 0
    BY <2>1, <2>2 DEF Unit
  <2>. QED
    BY <1>2, <1>3, <1>4, <1>7, <2>3
<1>. QED
  BY <1>6, <1>7 DEF Notify, TypeOK

LEMMA CreditStep == TypeOK /\ ThreadInv /\ CreditInv /\ [Next]_vars => CreditInv'
<1>1. SUFFICES ASSUME TypeOK, ThreadInv, CreditInv, [Next]_vars PROVE CreditInv'
  OBVIOUS
<1>2. ASSUME hand' = hand PROVE \A k : Permitted(k)' => Permitted(k)
  BY <1>2 DEF Permitted, At, KeyOf
<1>3. CASE \/ Lead
           \/ UNCHANGED vars
           \/ \E p \in Pod : Change(p) \/ Warn(p) \/ Fade(p) \/ Expire(p)
  <2>1. hand' = hand /\ keys' = keys /\ credit' = credit
    BY <1>3 DEF Change, Warn, Fade, Expire, Lead, process, redis, vars
  <2>. QED
    BY <1>1, <1>2, <2>1, CreditStays
<1>4. ASSUME NEW k \in keys, Elapse(k) PROVE CreditInv'
  <2>1. hand' = hand /\ Removed({k})
    BY <1>4 DEF Elapse, process
  <2>. QED
    BY <1>1, <1>2, <2>1, CreditRemoved
<1>5. ASSUME NEW p \in Pod, Observe(p) \/ Miss(p) \/ Witness(p)
      PROVE  CreditInv'
  <2>1. keys' = keys /\ credit' = credit
    BY <1>5 DEF Observe, Miss, Witness, redis
  <2>2. \/ hand' = hand
        \/ Take(Pods(p), "cache", p, pod[p])
        \/ Take(Events(p), "acquire", p, KubernetesEvent)
    BY <1>5 DEF Observe, Miss, Witness
  <2>3. ASSUME NEW k, Permitted(k)', NEW t \in Thread, NEW s, NEW step,
               step # "notify", Take(t, step, p, s)
        PROVE  Permitted(k)
    <3>. DEFINE h == [step |-> step, pod |-> p, saw |-> s]
    <3>1. h.step # "notify" /\ hand' = [hand EXCEPT ![t] = h]
      BY <2>3 DEF Take
    <3>. HIDE DEF h
    <3>. QED
      BY <1>1, <2>3, <3>1, PermitsFall
  <2>4. \A k \in Key : Permitted(k)' => Permitted(k)
    BY <1>2, <2>2, <2>3, ThreadOf
  <2>. QED
    BY <1>1, <2>1, <2>4, CreditStays
<1>6. CASE Stop
  <2>1. keys' = keys /\ credit' = credit
    BY <1>6 DEF Stop, redis
  <2>2. \A k \in Key : ~Permitted(k)'
    BY <1>6 DEF Stop, Permitted, At, Idle
  <2>. QED
    BY <1>1, <2>1, <2>2, CreditStays
<1>7. ASSUME NEW t \in Thread, NEW step, step # "notify", To(t, step), NEW k,
             Permitted(k)'
      PROVE  Permitted(k)
  <2>. DEFINE h == [hand[t] EXCEPT !.step = step]
  <2>1. h.step # "notify" /\ hand' = [hand EXCEPT ![t] = h]
    BY <1>1, <1>7 DEF To, TypeOK
  <2>. HIDE DEF h
  <2>. QED
    BY <1>1, <1>7, <2>1, PermitsFall
<1>8. ASSUME NEW t \in Thread, Cache(t) PROVE CreditInv'
  <2>1. keys' = keys /\ credit' = credit
    BY <1>8 DEF Cache
  <2>2. To(t, "release") \/ To(t, "idle") \/ To(t, "acquire")
    BY <1>8 DEF Cache, Ails, Recovers
  <2>. QED
    BY <1>1, <1>7, <2>1, <2>2, CreditStays
<1>9. ASSUME NEW t \in Thread, Acquire(t) PROVE CreditInv'
  <2>1. CASE SetNX(KeyOf(t)) /\ To(t, "notify")
    BY <1>1, <1>9, <2>1, CreditTaken DEF Acquire
  <2>2. CASE Suppressed(KeyOf(t)) /\ To(t, "idle")
    BY <1>1, <1>7, <2>2, CreditStays DEF Suppressed
  <2>. QED
    BY <1>9, <2>1, <2>2 DEF Acquire
<1>10. ASSUME NEW t \in Thread, Notify(t) PROVE CreditInv'
  BY <1>1, <1>10, CreditSpent
<1>11. ASSUME NEW t \in Thread, Release(t) PROVE CreditInv'
  <2>1. \A k \in Key : Permitted(k)' => Permitted(k)
    BY <1>7, <1>11 DEF Release
  <2>2. (\E K : Removed(K)) \/ UNCHANGED <<keys, credit>>
    BY <1>11 DEF Release
  <2>. QED
    BY <1>1, <2>1, <2>2, CreditStays, CreditRemoved
<1>. QED
  BY <1>1, <1>3, <1>4, <1>5, <1>6, <1>8, <1>9, <1>10, <1>11 DEF Next, Handle

-----------------------------------------------------------------------------
(* Memory.                                                                 *)

MemoryOf(p) ==
    /\ \A r \in Reason : <<p, r>> \in keys => NameOf[p] \in last \/ Releasing(p)
    /\ NameOf[p] \in last => cache[p] # "fine"
    /\ hand[Pods(p)].pod = p /\ hand[Pods(p)].step \in {"acquire", "notify"}
          => NameOf[p] \in last

\* A goroutine that works on a Pod of this name works on this Pod.
LEMMA OwnHand ==
    ASSUME TypeOK, ThreadInv, NEW t \in Thread, hand[t].step \in {"cache", "release"}
    PROVE  t = Pods(hand[t].pod) /\ hand[t].pod \in Pod /\ hand[t].saw \in State
                                    \cup {KubernetesEvent}
<1>1. t[1] = "pods" /\ t[2] = NamespaceOf[hand[t].pod]
  BY DEF ThreadInv, Thread, At
<1>. QED
  BY <1>1 DEF Pods, Thread, TypeOK

\* Keys may go; the rest stays, as far as this Pod is concerned.
LEMMA MemoryStays ==
    ASSUME NEW p \in Pod, MemoryOf(p),
           \A r \in Reason : <<p, r>> \in keys' => <<p, r>> \in keys,
           last' = last, cache'[p] = "fine" => cache[p] = "fine",
           Releasing(p) => Releasing(p)',
           (hand[Pods(p)].pod = p /\ hand[Pods(p)].step \in {"acquire", "notify"})'
              => hand[Pods(p)].pod = p /\ hand[Pods(p)].step \in {"acquire", "notify"}
    PROVE  MemoryOf(p)'
BY DEF MemoryOf

LEMMA MemoryStep ==
    TypeOK /\ ThreadInv /\ MemoryInv /\ [Next]_vars => MemoryInv'
<1>1. SUFFICES ASSUME TypeOK, ThreadInv, MemoryInv, [Next]_vars,
                      crashes' = 0, fails' = 0, NEW p \in Pod, ~Namesake(p)
               PROVE  MemoryOf(p)'
  BY DEF MemoryInv, MemoryOf, Namesake
<1>2. crashes = 0 /\ fails = 0 /\ ~Stop /\ ~Fails
  <2>1. ~Stop /\ ~Fails
    BY <1>1 DEF Stop, Fails, TypeOK
  <2>2. fails' = fails
    <3>1. CASE UNCHANGED vars
      BY <3>1 DEF vars
    <3>2. CASE Next
      BY <2>1, <3>2 DEF Next, Handle, Lead, Change, Warn, Fade, Observe, Miss,
         Witness, Expire, Elapse, Cache, Write, Acquire, SetNX, Suppressed,
         Notify, Release, Works
    <3>. QED
      BY <1>1, <3>1, <3>2
  <2>3. crashes' = crashes
    <3>1. CASE UNCHANGED vars
      BY <3>1 DEF vars, process
    <3>2. CASE Next
      BY <2>1, <3>2 DEF Next, Handle, Lead, Change, Warn, Fade, Observe, Miss,
         Witness, Expire, Elapse, Cache, Acquire, Notify, Release, process
    <3>. QED
      BY <1>1, <3>1, <3>2
  <2>. QED
    BY <1>1, <2>1, <2>2, <2>3
<1>3. MemoryOf(p)
  BY <1>1, <1>2 DEF MemoryInv, MemoryOf
<1>4. Pods(p) \in Thread
  BY ThreadOf
<1>5. \A q \in Pod : NameOf[q] = NameOf[p] => q = p
  BY <1>1 DEF Namesake
<1>6. CASE \/ Lead
           \/ UNCHANGED vars
           \/ \E q \in Pod : Change(q) \/ Warn(q) \/ Fade(q) \/ Expire(q)
           \/ \E k \in keys : Elapse(k)
  <2>1. hand' = hand /\ last' = last
    BY <1>6 DEF Change, Warn, Fade, Expire, Elapse, Lead, process, vars
  <2>2. keys' \subseteq keys
    BY <1>6 DEF Change, Warn, Fade, Expire, Elapse, Removed, Lead, redis, vars
  <2>3. cache'[p] = "fine" => cache[p] = "fine"
    BY <1>1, <1>6 DEF Change, Warn, Fade, Expire, Elapse, Lead, redis, vars, TypeOK
  <2>. QED
    BY <1>3, <2>1, <2>2, <2>3, MemoryStays DEF Releasing, At
<1>7. ASSUME NEW q \in Pod, Observe(q) \/ Miss(q) \/ Witness(q)
      PROVE  MemoryOf(p)'
  <2>1. redis' = redis /\ last' = last
    BY <1>7 DEF Observe, Miss, Witness
  <2>2. \/ hand' = hand
        \/ /\ At(Pods(q), "idle")
           /\ \E s : hand' = [hand EXCEPT ![Pods(q)] =
                                [step |-> "cache", pod |-> q, saw |-> s]]
        \/ hand' = [hand EXCEPT ![Events(q)] =
               [step |-> "acquire", pod |-> q, saw |-> KubernetesEvent]]
    BY <1>7 DEF Observe, Miss, Witness, Take
  <2>3. Events(q) # Pods(p)
    BY DEF Events, Pods
  <2>4. \/ hand'[Pods(p)] = hand[Pods(p)]
        \/ hand[Pods(p)].step = "idle" /\ hand'[Pods(p)].step = "cache"
    BY <1>1, <1>4, <2>2, <2>3 DEF TypeOK, At
  <2>. QED
    BY <1>3, <2>1, <2>4, MemoryStays DEF Releasing, At, redis
<1>8. ASSUME NEW t \in Thread, Cache(t) PROVE MemoryOf(p)'
  <2>. DEFINE q == hand[t].pod
  <2>1. t = Pods(q) /\ q \in Pod /\ hand[t].step = "cache"
    BY <1>1, <1>8, OwnHand DEF Cache, At
  <2>2. keys' = keys /\ cache' = [cache EXCEPT ![q] = hand[t].saw]
    BY <1>2, <1>8 DEF Cache, Write
  <2>3. \A u \in Thread : u # t => hand'[u] = hand[u]
    BY <1>1, <1>8 DEF Cache, Ails, Recovers, To, TypeOK
  <2>4. hand'[t].pod = q
    BY <1>1, <1>8 DEF Cache, Ails, Recovers, To, TypeOK
  <2>5. CASE q # p
    <3>1. NameOf[q] # NameOf[p]
      BY <1>5, <2>1, <2>5
    <3>2. NameOf[p] \in last' <=> NameOf[p] \in last
      BY <1>8, <3>1 DEF Cache, Ails, Recovers
    <3>3. cache'[p] = cache[p]
      BY <1>1, <2>2, <2>5 DEF TypeOK
    <3>4. CASE Pods(p) = t
      BY <1>3, <2>2, <2>4, <2>1, <2>5, <3>2, <3>3, <3>4 DEF MemoryOf, Releasing, At
    <3>5. CASE Pods(p) # t
      BY <1>3, <1>4, <2>2, <2>3, <3>2, <3>3, <3>5 DEF MemoryOf, Releasing, At
    <3>. QED
      BY <3>4, <3>5
  <2>6. CASE q = p
    <3>1. t = Pods(p)
      BY <2>1, <2>6
    <3>2. cache'[p] = hand[t].saw
      BY <1>1, <2>2, <2>6 DEF TypeOK
    <3>3. CASE hand[t].saw \in Reason
      <4>1. NameOf[p] \in last'
        BY <1>8, <2>6, <3>3 DEF Cache, Ails
      <4>2. cache'[p] # "fine"
        BY <3>2, <3>3, PodWatchAssumption
      <4>. QED
        BY <4>1, <4>2 DEF MemoryOf
    <3>4. CASE hand[t].saw \notin Reason /\ NameOf[p] \in last
      <4>1. last' = last \ {NameOf[p]} /\ To(t, "release")
        BY <1>8, <2>6, <3>4 DEF Cache, Recovers
      <4>2. hand'[t].step = "release"
        BY <1>1, <4>1 DEF To, TypeOK
      <4>3. Releasing(p)'
        BY <2>4, <2>6, <3>1, <4>2 DEF Releasing, At
      <4>. QED
        BY <2>2, <3>1, <4>1, <4>2, <4>3 DEF MemoryOf
    <3>5. CASE hand[t].saw \notin Reason /\ NameOf[p] \notin last
      <4>1. last' = last /\ To(t, "idle")
        BY <1>8, <2>6, <3>5 DEF Cache, Recovers
      <4>2. hand'[t].step = "idle"
        BY <1>1, <4>1 DEF To, TypeOK
      <4>3. ~Releasing(p)
        BY <2>1, <3>1 DEF Releasing, At
      <4>. QED
        BY <1>3, <2>2, <3>1, <3>5, <4>1, <4>2, <4>3 DEF MemoryOf
    <3>. QED
      BY <3>3, <3>4, <3>5
  <2>. QED
    BY <2>5, <2>6
<1>9. ASSUME NEW t \in Thread, Acquire(t) PROVE MemoryOf(p)'
  <2>1. last' = last /\ cache' = cache
    BY <1>9 DEF Acquire
  <2>2. \A u \in Thread : u # t => hand'[u] = hand[u]
    BY <1>1, <1>9 DEF Acquire, To, TypeOK
  <2>3. hand'[t].pod = hand[t].pod /\ hand'[t].step \in {"idle", "notify"}
        /\ hand[t].step = "acquire"
    BY <1>1, <1>9 DEF Acquire, At, To, TypeOK
  <2>4. Releasing(p) => Releasing(p)'
    BY <1>4, <2>2, <2>3 DEF Releasing, At
  <2>5. (hand[Pods(p)].pod = p /\ hand[Pods(p)].step \in {"acquire", "notify"})'
              => hand[Pods(p)].pod = p /\ hand[Pods(p)].step \in {"acquire", "notify"}
    BY <1>4, <2>2, <2>3
  <2>6. keys' \subseteq keys \cup {KeyOf(t)}
    BY <1>9 DEF Acquire, SetNX, Suppressed
  <2>7. CASE \A r \in Reason : KeyOf(t) # <<p, r>>
    <3>1. \A r \in Reason : <<p, r>> \in keys' => <<p, r>> \in keys
      BY <2>6, <2>7
    <3>. QED
      BY <1>3, <2>1, <2>4, <2>5, <3>1, MemoryStays
  <2>8. ASSUME NEW r \in Reason, KeyOf(t) = <<p, r>> PROVE MemoryOf(p)'
    <3>1. hand[t].pod = p /\ hand[t].saw = r
      BY <2>8 DEF KeyOf
    <3>2. t[1] = "pods" /\ t[2] = NamespaceOf[p]
      BY <1>1, <2>3, <3>1, PodWatchAssumption DEF ThreadInv, At, Thread
    <3>3. t = Pods(p)
      BY <3>2 DEF Pods, Thread
    <3>4. NameOf[p] \in last
      BY <1>3, <2>3, <3>1, <3>3 DEF MemoryOf
    <3>. QED
      BY <1>3, <2>1, <3>4 DEF MemoryOf
  <2>. QED
    BY <2>7, <2>8
<1>10. ASSUME NEW t \in Thread, Notify(t) PROVE MemoryOf(p)'
  <2>1. redis'[1] = redis[1] /\ keys' = keys /\ last' = last /\ cache' = cache
    BY <1>10 DEF Notify, redis
  <2>2. \A u \in Thread : u # t => hand'[u] = hand[u]
    BY <1>1, <1>10 DEF Notify, To, TypeOK
  <2>3. hand'[t].step = "idle" /\ hand[t].step = "notify"
    BY <1>1, <1>10 DEF Notify, At, To, TypeOK
  <2>. QED
    BY <1>3, <1>4, <2>1, <2>2, <2>3, MemoryStays DEF Releasing, At
<1>11. ASSUME NEW t \in Thread, Release(t) PROVE MemoryOf(p)'
  <2>. DEFINE q == hand[t].pod
  <2>1. last' = last /\ cache' = cache
    BY <1>11 DEF Release
  <2>2. Removed({k \in Key : k[1] = q})
    BY <1>2, <1>11 DEF Release
  <2>3. \A u \in Thread : u # t => hand'[u] = hand[u]
    BY <1>1, <1>11 DEF Release, To, TypeOK
  <2>4. hand'[t].step = "idle"
    BY <1>1, <1>11 DEF Release, To, TypeOK
  <2>5. t = Pods(q) /\ q \in Pod
    BY <1>1, <1>11, OwnHand DEF Release, At
  <2>6. keys' \subseteq keys
    BY <2>2 DEF Removed
  <2>7. CASE q = p
    <3>1. \A r \in Reason : <<p, r>> \notin keys'
      BY <2>2, <2>7 DEF Removed, Key
    <3>. QED
      BY <1>3, <2>1, <2>4, <2>5, <2>7, <3>1 DEF MemoryOf
  <2>8. CASE q # p
    <3>1. Releasing(p) => Pods(p) # t
      BY <2>8 DEF Releasing
    <3>2. Pods(p) = t \/ hand'[Pods(p)] = hand[Pods(p)]
      BY <1>4, <2>3
    <3>. QED
      BY <1>3, <2>1, <2>4, <2>6, <3>1, <3>2, MemoryStays DEF Releasing, At
  <2>. QED
    BY <2>7, <2>8
<1>. QED
  BY <1>1, <1>2, <1>6, <1>7, <1>8, <1>9, <1>10, <1>11 DEF Next, Handle

-----------------------------------------------------------------------------
\* The inductive invariant of the syncer's anomaly watch.
THEOREM Invariant == Spec => []WatchInv
<1>1. WatchInv /\ [Next]_vars => WatchInv'
  BY TypeStep, ThreadStep, CreditStep, MemoryStep DEF WatchInv
<1>. QED
  BY InitInv, <1>1, PTL DEF Spec

\* Whatever informers, leaders, failures and crashes there are, an anomaly is
\* announced at most once in a cooldown window (Notify in pod_notifier.go).
THEOREM OncePerWindow == Spec => []NoStorm
<1>1. WatchInv => NoStorm
  <2>1. SUFFICES ASSUME WatchInv, NEW k \in Key PROVE credit[k] >= 0
    BY DEF WatchInv, NoStorm
  <2>2. credit[k] >= Unit(k \notin keys) + Unit(Permitted(k)) /\ credit[k] \in Int
    BY <2>1 DEF WatchInv, CreditInv, TypeOK
  <2>3. Unit(k \notin keys) \in {0, 1} /\ Unit(Permitted(k)) \in {0, 1}
    BY DEF Unit
  <2>. QED
    BY <2>2, <2>3
<1>. QED
  BY Invariant, <1>1, PTL

\* A recovery leaves no key behind (OnPodRecovered), as long as one process
\* leads, its calls work, and the Pod's name is its own.
THEOREM RecoveryEndsCooldown == Spec => []CooldownEnds
<1>1. WatchInv => CooldownEnds
  BY DEF WatchInv, MemoryInv, CooldownEnds, Recovered
<1>. QED
  BY Invariant, <1>1, PTL
=============================================================================
