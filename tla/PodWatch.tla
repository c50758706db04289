------------------------------ MODULE PodWatch ------------------------------
(***************************************************************************)
(* The syncer of one shard: the leader's informers copy Pods of a cluster  *)
(* to the runtime cache in Redis and announce anomalies to the members of  *)
(* the application, at most once per Pod and reason in a cooldown window.  *)
(*                                                                         *)
(* Only the holder of the shard's Lease runs informers; when it stops or   *)
(* loses the Lease its process ends, and everything in memory with it.     *)
(* Each namespace has two goroutines of handlers, one for Pods and one for *)
(* Events.  Both run one handler at a time.                                *)
(***************************************************************************)
EXTENDS Integers, FiniteSets

CONSTANTS
    Pod,           \* Pods, by cluster, namespace and name
    NamespaceOf,   \* NamespaceOf[p], NameOf[p]
    NameOf,
    Reason,        \* the anomalies classifyPodSummary tells apart
    MaxChange,     \* bound: changes of Pods in Kubernetes
    MaxEvent,      \* bound: warning Events in Kubernetes
    MaxFail,       \* bound: calls to Redis or PostgreSQL that fail
    MaxCrash       \* bound: ends of the leading process

KubernetesEvent == "KubernetesEvent"

ASSUME PodWatchAssumption ==
    /\ {"gone", "fine", KubernetesEvent} \cap Reason = {}
    /\ MaxChange \in Nat /\ MaxEvent \in Nat /\ MaxFail \in Nat
    /\ MaxCrash \in Nat

State == {"gone", "fine"} \cup Reason
Key == Pod \X (Reason \cup {KubernetesEvent})
Name == {NameOf[p] : p \in Pod}
Thread == {"pods", "events"} \X {NamespaceOf[p] : p \in Pod}

VARIABLES
    pod,       \* the Pods in Kubernetes
    events,    \* Pods with a warning Event in Kubernetes
    syncer,    \* "down"; "watch"; "idle": it leads and runs no informer
    known,     \* Pods in the informers' stores
    last,      \* lastPodAbnormal
    hand,      \* what each goroutine of handlers is doing
    cache,     \* the rt:pod entries
    keys,      \* the cd:pod keys
    told,      \* Pods whose present anomaly was announced since it began
    credit,    \* 1, plus keys removed or not consulted, minus announcements
    changes, warned, fails, crashes   \* counters of the bounds

kubernetes == <<pod, events, changes, warned>>
process == <<syncer, known, last, hand, crashes>>
redis == <<cache, keys, credit>>
vars == <<kubernetes, process, redis, told, fails>>

Step == {"idle", "cache", "acquire", "notify", "release"}
SomePod == CHOOSE p \in Pod : TRUE
Idle == [step |-> "idle", pod |-> SomePod, saw |-> "gone"]

TypeOK ==
    /\ pod \in [Pod -> State]
    /\ events \in SUBSET Pod
    /\ syncer \in {"down", "watch", "idle"}
    /\ known \in SUBSET Pod
    /\ last \in SUBSET Name
    /\ hand \in [Thread -> [step : Step, pod : Pod,
                             saw : State \cup {KubernetesEvent}]]
    /\ cache \in [Pod -> State]
    /\ keys \in SUBSET Key
    /\ told \in SUBSET Pod
    /\ credit \in [Key -> Int]
    /\ changes \in 0..MaxChange /\ warned \in 0..MaxEvent
    /\ fails \in 0..MaxFail /\ crashes \in 0..MaxCrash

Init ==
    /\ pod = [p \in Pod |-> "gone"]
    /\ events = {}
    /\ syncer = "down"
    /\ known = {}
    /\ last = {}
    /\ hand = [t \in Thread |-> Idle]
    /\ cache = [p \in Pod |-> "gone"]
    /\ keys = {}
    /\ told = {}
    /\ credit = [k \in Key |-> 1]
    /\ changes = 0 /\ warned = 0 /\ fails = 0 /\ crashes = 0

-----------------------------------------------------------------------------
(* Kubernetes.                                                             *)

Change(p) ==
    /\ changes < MaxChange
    /\ \E s \in State \ {pod[p]} : pod' = [pod EXCEPT ![p] = s]
    /\ told' = told \ {p}
    /\ changes' = changes + 1
    /\ UNCHANGED <<events, warned, process, redis, fails>>

Warn(p) ==
    /\ warned < MaxEvent
    /\ pod[p] # "gone" /\ p \notin events
    /\ events' = events \cup {p}
    /\ warned' = warned + 1
    /\ UNCHANGED <<pod, changes, process, redis, told, fails>>

\* Events outlive their Pod, and go an hour later.
Fade(p) ==
    /\ p \in events
    /\ events' = events \ {p}
    /\ UNCHANGED <<pod, changes, warned, process, redis, told, fails>>

-----------------------------------------------------------------------------
(* The process that leads.                                                 *)

Fails == fails < MaxFail /\ fails' = fails + 1
Works == fails' = fails

\* Run starts the informers.  When it cannot load the clusters it returns,
\* and the process keeps the Lease.
Lead ==
    /\ syncer = "down"
    /\ \/ Works /\ syncer' = "watch"
       \/ Fails /\ syncer' = "idle"
    /\ UNCHANGED <<kubernetes, known, last, hand, crashes, redis, told>>

\* It stops, loses the Lease, or dies, also of two goroutines that write the
\* map lastPodAbnormal at once.
Stop ==
    /\ syncer # "down" /\ crashes < MaxCrash
    /\ syncer' = "down"
    /\ known' = {} /\ last' = {}
    /\ hand' = [t \in Thread |-> Idle]
    /\ crashes' = crashes + 1
    /\ UNCHANGED <<kubernetes, redis, told, fails>>

Pods(p) == <<"pods", NamespaceOf[p]>>
Events(p) == <<"events", NamespaceOf[p]>>
At(t, step) == hand[t].step = step
To(t, step) == hand' = [hand EXCEPT ![t].step = step]
Take(t, step, p, s) == hand' = [hand EXCEPT ![t] =
                                    [step |-> step, pod |-> p, saw |-> s]]
KeyOf(t) == <<hand[t].pod, hand[t].saw>>

\* An informer hands a Pod to onPod: as the watch reports it, from the list
\* of a new leader, and again every 30 s.
Observe(p) ==
    /\ syncer = "watch" /\ At(Pods(p), "idle")
    /\ pod[p] # "gone"
    /\ known' = known \cup {p}
    /\ Take(Pods(p), "cache", p, pod[p])
    /\ UNCHANGED <<kubernetes, syncer, last, crashes, redis, told, fails>>

\* A deleted Pod leaves the store.  If the watch had missed the deletion,
\* onPod gets a DeletedFinalStateUnknown, which it does not take for a Pod.
Miss(p) ==
    /\ syncer = "watch" /\ At(Pods(p), "idle")
    /\ pod[p] = "gone" /\ p \in known
    /\ known' = known \ {p}
    /\ Take(Pods(p), "cache", p, "gone") \/ hand' = hand
    /\ UNCHANGED <<kubernetes, syncer, last, crashes, redis, told, fails>>

\* UpsertPod or DeletePod, the error of which is ignored.
Write(t) ==
    \/ Works /\ cache' = [cache EXCEPT ![hand[t].pod] = hand[t].saw]
    \/ Fails /\ cache' = cache

\* Mutant: a Pod that is fine again is only forgotten.
ForgetsOnly(t) == last' = last \ {NameOf[hand[t].pod]} /\ To(t, "idle")

\* detectAndNotifyAnomaly for a Pod that is fine, and onPod for a deleted one.
Recovers(t) ==
    LET name == NameOf[hand[t].pod] IN
    IF name \in last THEN last' = last \ {name} /\ To(t, "release")
                     ELSE last' = last /\ To(t, "idle")

\* Mutant: only the first sight of an anomaly is passed on.
FirstOnly(t) == /\ last' = last \cup {NameOf[hand[t].pod]}
                /\ To(t, IF last' = last THEN "idle" ELSE "acquire")

\* detectAndNotifyAnomaly for a Pod that is not, new anomaly or not.
Ails(t) == last' = last \cup {NameOf[hand[t].pod]} /\ To(t, "acquire")

Cache(t) ==
    /\ At(t, "cache")
    /\ Write(t)
    /\ IF hand[t].saw \in Reason THEN Ails(t) ELSE Recovers(t)
    /\ UNCHANGED <<kubernetes, syncer, known, crashes, keys, credit, told>>

\* onEvent, when the Event appears and again every 30 s.
Witness(p) ==
    /\ syncer = "watch" /\ At(Events(p), "idle")
    /\ p \in events
    /\ Take(Events(p), "acquire", p, KubernetesEvent)
    /\ UNCHANGED <<kubernetes, syncer, known, last, crashes, redis, told, fails>>

\* Mutant: SET without NX.
SetAlways(k) == keys' = keys \cup {k} /\ credit' = credit /\ Works

\* Acquire: SETNX with the TTL; an error counts as permission.
SetNX(k) ==
    \/ /\ k \notin keys
       /\ keys' = keys \cup {k}
       /\ credit' = credit /\ Works
    \/ /\ keys' \in {keys, keys \cup {k}}
       /\ credit' = [credit EXCEPT ![k] = @ + 1] /\ Fails

Suppressed(k) == k \in keys /\ UNCHANGED <<keys, credit>> /\ Works

Acquire(t) ==
    /\ At(t, "acquire")
    /\ \/ SetNX(KeyOf(t)) /\ To(t, "notify")
       \/ Suppressed(KeyOf(t)) /\ To(t, "idle")
    /\ UNCHANGED <<kubernetes, syncer, known, last, crashes, cache, told>>

\* The rest of Notify: the application, its members, a notification to each.
\* If one of the reads fails nobody is told and the key stays.
Notify(t) ==
    /\ At(t, "notify")
    /\ \/ /\ told' = told \cup {p \in {hand[t].pod} : hand[t].saw = pod[p]}
          /\ credit' = [credit EXCEPT ![KeyOf(t)] = @ - 1] /\ Works
       \/ Fails /\ UNCHANGED <<told, credit>>
    /\ To(t, "idle")
    /\ UNCHANGED <<kubernetes, syncer, known, last, crashes, cache, keys>>

Removed(K) ==
    /\ keys' = keys \ K
    /\ credit' = [k \in Key |-> IF k \in K \cap keys THEN credit[k] + 1
                                                     ELSE credit[k]]

\* OnPodRecovered: ReleaseAll, SCAN and DEL of every reason of the Pod.
Release(t) ==
    /\ At(t, "release")
    /\ \/ Removed({k \in Key : k[1] = hand[t].pod}) /\ Works
       \/ Fails /\ UNCHANGED <<keys, credit>>
    /\ To(t, "idle")
    /\ UNCHANGED <<kubernetes, syncer, known, last, crashes, cache, told>>

-----------------------------------------------------------------------------
(* Redis: both kinds of keys live for ten minutes.                         *)

Elapse(k) ==
    /\ k \in keys
    /\ Removed({k})
    /\ UNCHANGED <<kubernetes, process, cache, told, fails>>

\* Mutant: an entry without a TTL.
NoTTL(p) == FALSE

\* An entry runs out when no informer refreshes it any more.
Unrefreshed(p) == p \notin known

Expire(p) ==
    /\ cache[p] # "gone" /\ Unrefreshed(p)
    /\ cache' = [cache EXCEPT ![p] = "gone"]
    /\ UNCHANGED <<kubernetes, process, keys, credit, told, fails>>

-----------------------------------------------------------------------------
Handle(t) == Cache(t) \/ Acquire(t) \/ Notify(t) \/ Release(t)

Next ==
    \/ \E p \in Pod : Change(p) \/ Warn(p) \/ Fade(p) \/ Observe(p)
                      \/ Miss(p) \/ Witness(p) \/ Expire(p)
    \/ Lead \/ Stop
    \/ \E t \in Thread : Handle(t)
    \/ \E k \in keys : Elapse(k)

\* A replica takes over the Lease, handlers return, keys run out, and the
\* queue of an informer is served in order, so that no Pod waits for ever.
Fairness ==
    /\ WF_vars(Lead)
    /\ \A t \in Thread : WF_vars(Handle(t))
    /\ \A p \in Pod : SF_vars(Observe(p)) /\ SF_vars(Miss(p)) /\ WF_vars(Expire(p))
    /\ \A k \in Key : WF_vars(Elapse(k))

Spec == Init /\ [][Next]_vars /\ Fairness

-----------------------------------------------------------------------------
(* Properties.                                                             *)

\* "One notification for a Pod and a reason in a cooldown window" (comment of
\* Notify): between two of them the key ran out, was released on recovery, or
\* could not be consulted, however often informers resynchronise, whichever
\* process leads, and wherever it died between the key and the notification.
NoStorm == TypeOK /\ \A k \in Key : credit[k] >= 0

Releasing(p) == At(Pods(p), "release") /\ hand[Pods(p)].pod = p
Recovered(p) == cache[p] = "fine" /\ ~Releasing(p)
Namesake(p) == \E q \in Pod : q # p /\ NameOf[q] = NameOf[p]

\* A key left from an anomaly of a Pod that is fine again would swallow its
\* next one.  While one process leads and its calls to Redis work, no key is
\* left, except for Pods of one name in two namespaces, which share an entry
\* of lastPodAbnormal.
CooldownEnds == crashes = 0 /\ fails = 0 => \A p \in Pod, r \in Reason :
    Recovered(p) /\ ~Namesake(p) => <<p, r>> \notin keys

\* Although the key is taken before anybody is told, and an error or a crash
\* in between loses the notification, an anomaly that lasts is announced.
Announced == \A p \in Pod, r \in Reason :
    pod[p] = r ~> pod[p] # r \/ p \in told \/ syncer = "idle"

\* Once Kubernetes is quiet the cache shows the Pods there are, although
\* writes failed, deletions were missed and leaders changed.
Converges == <>[](syncer # "idle" => cache = pod)
=============================================================================
