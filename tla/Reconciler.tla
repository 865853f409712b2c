----------------------------- MODULE Reconciler -----------------------------
(***************************************************************************)
(* The manager process: SchedulingDecisionReconciler.Reconcile             *)
(* (controllers/schedulingdecision_controller.go), its work queue, the      *)
(* informer caches it reads through and the API server it writes to.        *)
(*                                                                         *)
(* The reconciler reads Pods, Events and SchedulingDecisions from caches    *)
(* only, so pod and events are the contents of the Pod and Event caches,    *)
(* and the actions of the environment are the changes their watches         *)
(* deliver, in any interleaving of the two streams.  Of a SchedulingDecision *)
(* both sides are kept: log[u] is the sequence of versions the API server   *)
(* gave the object named after UID u (Nil is a deletion; the position is    *)
(* the resourceVersion) and seen[u] the version the cache holds.            *)
(*                                                                         *)
(* There is one worker (MaxConcurrentReconciles is 1 by default); the       *)
(* manager runs under leader election, so a restart stands for a hand-over  *)
(* as well.                                                                 *)
(***************************************************************************)
EXTENDS PodsAndClock, FiniteSets

CONSTANTS
    FailureMessages,          \* what the scheduler says of a failed attempt
    FirstConditions,          \* PodScheduled status of a Pod first seen
    EventReasons,             \* reasons of the Events that arrive
    EventClocks,              \* "second": LastTimestamp; "micro": EventTime
    Lags,                     \* how old the news of a watch can be, in ticks
    EventsExpire,             \* Events are deleted when their TTL is over
    EventsOutrunPods,         \* an Event may come before its Pod does
    RetentionWindow,          \* the flag, in ticks; 0 when left unset
    DefaultRetentionWindow,   \* in ticks
    MaxAttempts,              \* steps of retry.DefaultBackoff
    MaxNews,                  \* bound on what the Pod and Event watches deliver
    MaxDisturbances           \* bound on faults, restarts and resyncs

ASSUME ReconcilerAssumption ==
    /\ FailureMessages \subseteq Text
    /\ {"default-scheduler", "scheduler"} \subseteq Text
    /\ EventReasons \subseteq Text
    /\ FirstConditions \subseteq {"None", "Gated", "Unknown"}
    /\ EventReasons \subseteq Reasons
    /\ EventClocks \subseteq {"second", "micro"}
    /\ Lags \subseteq Nat
    /\ EventsExpire \in BOOLEAN /\ EventsOutrunPods \in BOOLEAN
    /\ RetentionWindow \in Nat /\ DefaultRetentionWindow \in Nat \ {0}
    /\ MaxAttempts \in Nat \ {0}
    /\ MaxNews \in Nat /\ MaxDisturbances \in Nat

VARIABLES
    pod,            \* Pod cache: name -> Pod or Nil
    born,           \* UIDs the Pod cache has shown
    placed,         \* node each UID was bound to in the Pod cache, "" if none
    events,         \* Event cache
    about,          \* UID each Event is about, Nil before the Event exists
    news,           \* changes the Pod and Event watches have delivered so far
    queue,          \* work queue: names to reconcile
    pc,             \* where the worker is
    key,            \* the request it works on
    listed,         \* Events listed for it
    observed,       \* what deriveTransition returned
    draft,          \* the object about to be written
    base,           \* version the draft was read from
    attempt,        \* attempts of appendTransitionWithRetry so far
    log,            \* API server: versions of the decision of each UID
    seen,           \* SchedulingDecision cache: version it holds, 0 if none
    disturbances    \* faults, restarts and resyncs so far

cluster == <<now, pod, born, placed, events, about, news>>
locals == <<key, listed, observed, draft, base, attempt>>
store == <<log, seen>>
vars == <<cluster, queue, pc, locals, store, disturbances>>

-----------------------------------------------------------------------------
(* The objects of the API server and of the cache. *)

\* The decision named decisionName(u) at version n, at the server, in the cache.
Version(u, n) == IF n = 0 THEN Nil ELSE log[u][n]
Current(u) == Version(u, Len(log[u]))
Cached(u) == Version(u, seen[u])

retentionWindow ==
    IF RetentionWindow > 0 THEN RetentionWindow ELSE DefaultRetentionWindow

relevantEventReasons ==
    {"Scheduled", "FailedScheduling", "Preempted", "CandidateNodes"}

listRelevantEvents(k) ==
    {e \in events : e.name = k /\ e.reason \in relevantEventReasons}

Enqueue(k) == queue' = queue \cup {k}

\* A bounded number of disturbances.
Disturb ==
    /\ disturbances < MaxDisturbances
    /\ disturbances' = disturbances + 1

-----------------------------------------------------------------------------
Steps == {"idle", "pod", "ensure", "create", "fetch", "update"}

Locals(k, es, o, d, n, a) ==
    /\ key' = k /\ listed' = es /\ observed' = o
    /\ draft' = d /\ base' = n /\ attempt' = a

\* The manager starts, in a cluster it knows nothing of yet.
Start ==
    /\ now = TicksPerSecond
    /\ pod = [k \in Names |-> Nil]
    /\ born = {}
    /\ placed = [u \in UIDs |-> ""]
    /\ events = {}
    /\ about = [i \in EventIds |-> Nil]
    /\ news = 0
    /\ queue = {}
    /\ pc = "idle"
    /\ key = Nil /\ listed = {} /\ observed = Nil
    /\ draft = Nil /\ base = 0 /\ attempt = 0
    /\ seen = [u \in UIDs |-> 0]
    /\ disturbances = 0

Init ==
    /\ Start
    /\ log = [u \in UIDs |-> <<>>]

-----------------------------------------------------------------------------
(* Reconcile. *)

\* The request is done with, or has failed and is queued again.
Release ==
    /\ pc' = "idle"
    /\ Locals(Nil, {}, Nil, Nil, 0, 0)

\* Mutant: a reconcile asks to be run again whatever it found.
Done_Requeue == Release /\ Enqueue(key)

Done == Release /\ UNCHANGED queue

Requeue == Release /\ Enqueue(key)

\* Reconcile starts: the work queue hands out k, and its Events are listed.
ListEvents(k) ==
    /\ pc = "idle"
    /\ k \in queue
    /\ queue' = queue \ {k}
    /\ pc' = "pod"
    /\ Locals(k, listRelevantEvents(k), Nil, Nil, 0, 0)
    /\ UNCHANGED <<cluster, store, disturbances>>

\* The Pod is read and a transition derived from it and the Events listed.
GetPod ==
    /\ pc = "pod"
    /\ LET derived == deriveTransition(pod[key], listed, now)
       IN  \/ /\ derived = {}
              /\ Done
           \/ \E o \in derived :
                /\ pc' = "ensure"
                /\ Locals(key, {}, o, Nil, 0, 0)
                /\ UNCHANGED queue
    /\ UNCHANGED <<cluster, store, disturbances>>

\* The decision ensureDecisionCreated writes for an observation.
NewDecision(o, volume) ==
    [expiresAt |-> Unix(now + retentionWindow),
     spec |-> [podName |-> o.identity.name, podUID |-> o.identity.uid,
               schedulerName |-> o.identity.schedulerName,
               volumeContext |-> volume],
     status |-> EmptyStatus]

\* resolveVolumeContext is only called with a Pod; when it fails the error is
\* logged and the context left nil.
VolumeContextOf(o) ==
    IF o.podFound THEN VolumeContexts \cup {Nil} ELSE {Nil}

\* ensureDecisionCreated up to its Create.
GetDecision ==
    /\ pc = "ensure"
    /\ \/ /\ Cached(observed.identity.uid) # Nil
          /\ pc' = "fetch"
          /\ Locals(key, {}, observed, Nil, 0, 1)
       \/ /\ Cached(observed.identity.uid) = Nil
          /\ pc' = "create"
          /\ \E v \in VolumeContextOf(observed) :
                Locals(key, {}, observed, NewDecision(observed, v), 0, 0)
    /\ UNCHANGED <<cluster, queue, store, disturbances>>

\* The API server's side of the Create: AlreadyExists changes nothing.
ServerCreate(u) ==
    log' = IF Current(u) = Nil THEN [log EXCEPT ![u] = Append(@, draft)]
           ELSE log

\* Create; AlreadyExists is a success.
CreateDecision ==
    /\ pc = "create"
    /\ ServerCreate(observed.identity.uid)
    /\ pc' = "fetch"
    /\ Locals(key, {}, observed, Nil, 0, 1)
    /\ UNCHANGED <<cluster, queue, seen, disturbances>>

\* Mutant: one attempt too many.
Retry_OneMore ==
    \/ /\ attempt <= MaxAttempts
       /\ pc' = "fetch"
       /\ Locals(key, {}, observed, Nil, 0, attempt + 1)
       /\ UNCHANGED queue
    \/ /\ attempt > MaxAttempts
       /\ Requeue

\* Mutant: the error of the last attempt is dropped.
Retry_DropError ==
    \/ /\ attempt < MaxAttempts
       /\ pc' = "fetch"
       /\ Locals(key, {}, observed, Nil, 0, attempt + 1)
       /\ UNCHANGED queue
    \/ /\ attempt = MaxAttempts
       /\ Done

\* retry.OnError after a Conflict or a NotFound.
Retry ==
    \/ /\ attempt < MaxAttempts
       /\ pc' = "fetch"
       /\ Locals(key, {}, observed, Nil, 0, attempt + 1)
       /\ UNCHANGED queue
    \/ /\ attempt = MaxAttempts
       /\ Requeue

\* One attempt of appendTransitionWithRetry up to its status update.
FetchDecision ==
    /\ pc = "fetch"
    /\ LET u == observed.identity.uid
           decision == Cached(u)
           transition == observed.transition
       IN  \/ /\ decision = Nil
              /\ Retry
           \/ /\ decision # Nil
              /\ AlreadyLast(decision.status, transition)
              /\ Done
           \/ /\ decision # Nil
              /\ ~AlreadyLast(decision.status, transition)
              /\ pc' = "update"
              /\ Locals(key, {}, observed,
                        [decision EXCEPT
                            !.status = applyTransition(@, transition)],
                        seen[u], attempt)
              /\ UNCHANGED queue
    /\ UNCHANGED <<cluster, store, disturbances>>

\* The API server accepts a status update of the version it holds: otherwise
\* the answer is Conflict, or NotFound for a deleted object.
Accepts(u) == base = Len(log[u]) /\ Current(u) # Nil

\* The status subresource takes the status and keeps the rest.
ServerUpdate(u) ==
    log' = [log EXCEPT ![u] =
              Append(@, [Current(u) EXCEPT !.status = Stored(draft.status)])]

\* Mutant: the update is sent without the resourceVersion that was read.
UpdateStatus_Unconditional ==
    /\ pc = "update"
    /\ LET u == observed.identity.uid
       IN  \/ /\ Current(u) # Nil
              /\ ServerUpdate(u)
              /\ Done
           \/ /\ Current(u) = Nil
              /\ Retry
              /\ UNCHANGED log
    /\ UNCHANGED <<cluster, seen, disturbances>>

\* Mutant: a record that is gone is written back as it was read.
UpdateStatus_Upsert ==
    /\ pc = "update"
    /\ LET u == observed.identity.uid
       IN  \/ /\ Accepts(u) \/ Current(u) = Nil
              /\ log' = [log EXCEPT ![u] =
                           Append(@, [draft EXCEPT !.status = Stored(@)])]
              /\ Done
           \/ /\ ~Accepts(u) /\ Current(u) # Nil
              /\ Retry
              /\ UNCHANGED log
    /\ UNCHANGED <<cluster, seen, disturbances>>

UpdateStatus ==
    /\ pc = "update"
    /\ LET u == observed.identity.uid
       IN  \/ /\ Accepts(u)
              /\ ServerUpdate(u)
              /\ Done
           \/ /\ ~Accepts(u)
              /\ Retry
              /\ UNCHANGED log
    /\ UNCHANGED <<cluster, seen, disturbances>>

-----------------------------------------------------------------------------
(* What goes wrong. *)

\* A read fails for another reason than NotFound: the request is queued again.
ReadFails ==
    /\ pc \in {"pod", "ensure", "fetch"}
    /\ Requeue
    /\ Disturb
    /\ UNCHANGED <<cluster, store>>

\* A write does not reach the API server.
WriteFails ==
    /\ pc \in {"create", "update"}
    /\ Requeue
    /\ Disturb
    /\ UNCHANGED <<cluster, store>>

\* A write is done but its answer is lost.
WriteReplyLost ==
    /\ \/ pc = "create" /\ ServerCreate(observed.identity.uid)
       \/ /\ pc = "update" /\ Accepts(observed.identity.uid)
          /\ ServerUpdate(observed.identity.uid)
    /\ Requeue
    /\ Disturb
    /\ UNCHANGED <<cluster, seen>>

\* The manager stops and starts: the queue is filled from the fresh caches.
\* The SchedulingDecision cache may start from an older version than the last
\* one it held.
Restart ==
    /\ Release
    /\ queue' = {k \in Names : pod[k] # Nil \/ listRelevantEvents(k) # {}}
    /\ \E s \in [UIDs -> UNION {0 .. Len(log[u]) : u \in UIDs}] :
          /\ \A u \in UIDs : s[u] <= Len(log[u])
          /\ seen' = s
    /\ Disturb
    /\ UNCHANGED <<cluster, log>>

\* The watch of SchedulingDecisions delivers; a relist skips versions.
CacheAdvance(u) ==
    /\ \E n \in (seen[u] + 1) .. Len(log[u]) :
          seen' = [seen EXCEPT ![u] = n]
    /\ UNCHANGED <<cluster, queue, pc, locals, log, disturbances>>

-----------------------------------------------------------------------------
(* The cluster, as the Pod and Event watches tell it. *)

\* A watch delivers something new; the manager's own state stays.
Deliver ==
    /\ news < MaxNews
    /\ news' = news + 1
    /\ UNCHANGED <<now, pc, locals, store, disturbances>>

Tick ==
    /\ TimePasses
    /\ UNCHANGED <<pod, born, placed, events, about, news>>
    /\ UNCHANGED <<queue, pc, locals, store, disturbances>>

\* A first PodScheduled condition; a gated Pod is not Unschedulable.
FirstCondition(c) ==
    IF c = "None" THEN Nil
    ELSE [status |-> IF c = "Gated" THEN "False" ELSE "Unknown",
          reason |-> IF c = "Gated" THEN "SchedulingGated" ELSE "",
          message |-> "", lastTransitionTime |-> WholeSecond(now)]

PodAdded(u, c) ==
    /\ u \notin born
    /\ pod[NameOf[u]] = Nil
    /\ pod' = [pod EXCEPT ![NameOf[u]] =
                 [uid |-> u, name |-> NameOf[u],
                  schedulerName |-> "default-scheduler",
                  creationTimestamp |-> WholeSecond(now), nodeName |-> "",
                  condition |-> FirstCondition(c)]]
    /\ born' = born \cup {u}
    /\ Enqueue(NameOf[u])
    /\ UNCHANGED <<placed, events, about>>
    /\ Deliver

\* A failed attempt: lastTransitionTime only moves when the status does.
PodUnschedulable(k, m, lag) ==
    /\ pod[k] # Nil
    /\ pod[k].nodeName = ""
    /\ lag + TicksPerSecond <= now
    /\ LET old == pod[k].condition
           since == IF old # Nil /\ old.status = "False"
                    THEN old.lastTransitionTime ELSE StampOf(lag)
           new == [status |-> "False", reason |-> "Unschedulable",
                   message |-> m, lastTransitionTime |-> since]
       IN  /\ new # old
           /\ pod' = [pod EXCEPT ![k].condition = new]
    /\ Enqueue(k)
    /\ UNCHANGED <<born, placed, events, about>>
    /\ Deliver

\* The binding sets the node and the condition together.
PodBound(k, n, lag) ==
    /\ pod[k] # Nil
    /\ pod[k].nodeName = ""
    /\ lag + TicksPerSecond <= now
    /\ pod' = [pod EXCEPT ![k].nodeName = n,
                          ![k].condition =
                            [status |-> "True", reason |-> "", message |-> "",
                             lastTransitionTime |-> StampOf(lag)]]
    /\ placed' = [placed EXCEPT ![pod[k].uid] = n]
    /\ Enqueue(k)
    /\ UNCHANGED <<born, events, about>>
    /\ Deliver

PodDeleted(k) ==
    /\ pod[k] # Nil
    /\ pod' = [pod EXCEPT ![k] = Nil]
    /\ Enqueue(k)
    /\ UNCHANGED <<born, placed, events, about>>
    /\ Deliver

\* Mutant: the predicate lets only the two placement outcomes through.
EnqueueFor_PlacementOnly(e) ==
    queue' = IF e.reason \in {"Scheduled", "FailedScheduling"}
             THEN queue \cup {e.name} ELSE queue

\* relevantEventPredicate and mapEventToPodRequest, for Events added, changed
\* or deleted.  All Events here are about Pods: those about other kinds, which
\* both functions turn away, are left out.
EnqueueFor(e) ==
    queue' = IF e.reason \in relevantEventReasons
             THEN queue \cup {e.name} ELSE queue

MessagesFor(reason) ==
    IF reason = "FailedScheduling" THEN FailureMessages
    ELSE IF reason = "CandidateNodes" THEN {""} ELSE {reason}

\* An Event of a recorder with second or microsecond clock; the extender's
\* Events name the candidate nodes.  Events and Pods come through two watches:
\* the Event may be about a Pod the other watch has not shown yet.
EventAdded(i, u, reason, m, clock, lag) ==
    /\ about[i] = Nil
    /\ u \in born \/ EventsOutrunPods
    /\ lag + TicksPerSecond <= now
    /\ m \in MessagesFor(reason)
    /\ LET e == [id |-> i, uid |-> u, name |-> NameOf[u], reason |-> reason,
                 message |-> m,
                 names |-> IF reason = "CandidateNodes" THEN Nodes ELSE {},
                 lastTimestamp |-> IF clock = "second" THEN StampOf(lag) ELSE 0,
                 eventTime |-> IF clock = "micro" THEN now - lag ELSE 0,
                 creationTimestamp |-> StampOf(lag),
                 reportingController |->
                    IF clock = "micro" THEN "default-scheduler" ELSE "",
                 component |-> "scheduler"]
       IN  /\ events' = events \cup {e}
           /\ EnqueueFor(e)
    /\ about' = [about EXCEPT ![i] = u]
    /\ UNCHANGED <<pod, born, placed>>
    /\ Deliver

\* The recorder counts the same Event once more and moves its LastTimestamp.
EventRepeated(e) ==
    /\ e.lastTimestamp # 0
    /\ e.lastTimestamp < WholeSecond(now)
    /\ events' = (events \ {e})
                    \cup {[e EXCEPT !.lastTimestamp = WholeSecond(now)]}
    /\ EnqueueFor(e)
    /\ UNCHANGED <<pod, born, placed, about>>
    /\ Deliver

EventExpired(e) ==
    /\ EventsExpire
    /\ events' = events \ {e}
    /\ EnqueueFor(e)
    /\ UNCHANGED <<pod, born, placed, about>>
    /\ Deliver

\* An update of the Pod that says nothing of scheduling, or a resync.
PodTouched(k) ==
    /\ pod[k] # Nil
    /\ k \notin queue
    /\ Enqueue(k)
    /\ Disturb
    /\ UNCHANGED <<cluster, pc, locals, store>>

-----------------------------------------------------------------------------
Work == GetPod \/ GetDecision \/ CreateDecision \/ FetchDecision \/ UpdateStatus

Faults == ReadFails \/ WriteFails \/ WriteReplyLost \/ Restart

Environment ==
    \/ Tick
    \/ \E u \in UIDs, c \in FirstConditions : PodAdded(u, c)
    \/ \E k \in Names :
         \/ \E m \in FailureMessages, lag \in Lags : PodUnschedulable(k, m, lag)
         \/ \E n \in Nodes, lag \in Lags : PodBound(k, n, lag)
         \/ PodDeleted(k)
         \/ PodTouched(k)
    \/ \E i \in EventIds, u \in UIDs, reason \in EventReasons,
          clock \in EventClocks, lag \in Lags :
         \E m \in MessagesFor(reason) : EventAdded(i, u, reason, m, clock, lag)
    \/ \E e \in events : EventRepeated(e) \/ EventExpired(e)

Next ==
    \/ \E k \in Names : ListEvents(k)
    \/ Work
    \/ Faults
    \/ \E u \in UIDs : CacheAdvance(u)
    \/ Environment

Spec == Init /\ [][Next]_vars

\* The worker goes on, a queued request is eventually taken up and the watch
\* of SchedulingDecisions delivers.  Nothing is assumed of the cluster, and
\* faults, restarts and resyncs need not happen.
Fairness ==
    /\ WF_vars(Work)
    /\ \A k \in Names : WF_vars(ListEvents(k))
    /\ \A u \in UIDs : WF_vars(CacheAdvance(u))

FairSpec == Spec /\ Fairness

-----------------------------------------------------------------------------
(* Properties. *)

ClusterTypeOK ==
    /\ now \in Nat \ {0}
    /\ pod \in [Names -> Pod \cup {Nil}]
    /\ born \subseteq UIDs
    /\ placed \in [UIDs -> Text]
    /\ events \subseteq Event
    /\ about \in [EventIds -> UIDs \cup {Nil}]
    /\ news \in 0 .. MaxNews

WorkerTypeOK ==
    /\ queue \subseteq Names
    /\ pc \in Steps
    /\ key \in Names \cup {Nil}
    /\ pc # "idle" => key \in Names
    /\ listed \subseteq Event
    /\ observed \in Observation \cup {Nil}
    /\ pc \in {"ensure", "create", "fetch", "update"} => observed \in Observation
    /\ draft \in SchedulingDecision \cup {Nil}
    /\ pc \in {"create", "update"} => draft \in SchedulingDecision
    /\ base \in Nat
    /\ attempt \in 0 .. MaxAttempts

\* The cache never holds a version the API server has not given out.
StoreTypeOK ==
    /\ log \in [UIDs -> Seq(SchedulingDecision \cup {Nil})]
    /\ seen \in [UIDs -> Nat]
    /\ \A u \in UIDs : seen[u] <= Len(log[u])

\* Types, and which locals are set at which step of a reconcile.
TypeOK ==
    /\ ClusterTypeOK
    /\ WorkerTypeOK
    /\ StoreTypeOK
    /\ disturbances \in 0 .. MaxDisturbances

History(u) == Current(u).status.transitions

\* What the worker is about to write.  A new decision is empty and belongs to
\* the Pod observed; a status update is the version it was read from with the
\* observed transition, which was not its last one, applied.
DraftFollowsBase ==
    LET u == observed.identity.uid
    IN  /\ pc = "create" =>
              /\ draft.spec.podUID = u
              /\ draft.expiresAt # Nil
              /\ draft.status = EmptyStatus
        /\ pc = "update" =>
              /\ base \in 1 .. Len(log[u])
              /\ log[u][base] # Nil
              /\ ~AlreadyLast(log[u][base].status, observed.transition)
              /\ draft = [log[u][base] EXCEPT
                            !.status = applyTransition(@, observed.transition)]

\* The API server holds whole seconds.
StoredInSeconds ==
    \A u \in UIDs : Current(u) # Nil =>
        \A i \in 1 .. Len(History(u)) :
            StoredTransition(History(u)[i]) = History(u)[i]

\* With Events in whole seconds, what is derived from them is so as well.
InSeconds(t) == t = WholeSecond(t)

ObservedInSeconds ==
    /\ now >= TicksPerSecond
    /\ \A k \in Names : pod[k] # Nil =>
          LET cond == pod[k].condition
          IN  cond # Nil => /\ cond.lastTransitionTime # 0
                            /\ InSeconds(cond.lastTransitionTime)
    /\ \A e \in events \cup listed : InSeconds(eventTimestamp(e))
    /\ observed # Nil => InSeconds(observed.transition.decisionTimestamp)

\* No recorded history repeats its last transition: reconciling again what is
\* already recorded, after a lost answer, a conflict, a restart or a stale
\* read, adds nothing (transitionsEqual, appendTransitionWithRetry).  It needs
\* Events whose timestamps are whole seconds.
NoAdjacentDuplicates ==
    \A u \in UIDs : Current(u) # Nil =>
        \A i \in 1 .. Len(History(u)) - 1 :
            ~transitionsEqual(History(u)[i], History(u)[i + 1])

\* A record never names a node its own Pod was not bound to, also when a Pod
\* of the same name has come and gone (identityFromPod takes the identity
\* from the Pod the node is read from).
ChosenNodeIsPlacement ==
    \A u \in UIDs : Current(u) # Nil =>
        \A i \in 1 .. Len(History(u)) :
            History(u)[i].chosenNode \in {"", placed[u]}

\* The history of a Pod is made from the Events of that Pod.  (The code lists
\* Events by namespace and name and never looks at involvedObject.uid, so the
\* Events of an earlier Pod of the same name count as well.)
EventsAreOfThePod ==
    \A u \in UIDs : Current(u) # Nil =>
        \A i \in 1 .. Len(History(u)) :
            History(u)[i].eventUID # Nil => about[History(u)[i].eventUID] = u

\* The transition is in the record of u, in its stored form.
InHistory(u, transition) ==
    /\ Current(u) # Nil
    /\ \E i \in 1 .. Len(History(u)) :
         transitionsEqual(History(u)[i], StoredTransition(transition))

\* A reconcile that ends without an error and without a requeue leaves what it
\* observed in the record at the API server: as its new last transition, or
\* from before (appendTransitionWithRetry never swallows a Conflict, NotFound
\* or exhausted retry).
SuccessMeansRecorded ==
    [][ (FetchDecision \/ UpdateStatus) /\ pc' = "idle" /\ key \notin queue'
          => \A o \in {observed} :
                InHistory(o.identity.uid, o.transition)' ]_vars

\* While a record exists its spec and its expiry stay as they were created and
\* no recorded transition is lost or altered, whatever stale copy a status
\* update was computed from (the resourceVersion check of Status().Update).
HistoryAppendOnly ==
    [][ \A u \in UIDs : Current(u) # Nil /\ Current(u)' # Nil =>
            /\ Current(u)'.spec = Current(u).spec
            /\ Current(u)'.expiresAt = Current(u).expiresAt
            /\ Len(History(u)) <= Len(History(u)')
            /\ \A i \in 1 .. Len(History(u)) :
                  History(u)'[i] = History(u)[i] ]_vars

\* The records at the API server behave as AuditLog says: each is opened once
\* and for the Pod it is about, only ever extended by one new transition and
\* mirrored in the status, although the reads that decide about a write come
\* from a stale cache (ensureDecisionCreated, appendTransitionWithRetry).
Audit == INSTANCE AuditLog WITH rec <- [u \in UIDs |-> Current(u)],
                                opened <- {u \in UIDs : log[u] # <<>>},
                                clock <- now
ImplementsAuditLog == Audit!AuditSpec

\* Retries, requeues and resyncs come to an end: once nothing new happens the
\* worker finds everything recorded and rests (Reconcile returns no error and
\* no Result that asks for another run).
EventuallyQuiet == <>[](queue = {} /\ pc = "idle")

\* The last recorded transition is one the Pod and its Events imply.
UpToDate(k) ==
    \A o \in deriveTransition(pod[k], listRelevantEvents(k), now) :
        /\ Current(o.identity.uid) # Nil
        /\ AlreadyLast(Current(o.identity.uid).status,
                       StoredTransition(o.transition))

\* Whatever happened on the way, in the end every record says what the Pod and
\* its Events say.  It fails when an earlier transition can be observed again,
\* as it was, before the cache has seen the one between: appendTransitionWithRetry
\* then compares with the cached copy and takes the news for recorded, and the
\* record stays behind until something else queues the Pod again.
Converges == <>[](\A k \in Names : UpToDate(k))

=============================================================================
