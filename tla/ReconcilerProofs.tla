-------------------------- MODULE ReconcilerProofs --------------------------
(***************************************************************************)
(* Theorems about Reconciler, for every value of its constants: types, what  *)
(* happens to the recorded histories, which node they name, and what a       *)
(* reconcile that succeeds has recorded.                                     *)
(*                                                                         *)
(* The inductive invariant is Inv: the types, that a draft in the worker's   *)
(* hands is the version it was read from plus the observed transition, and   *)
(* that the API server holds whole seconds only.  The second part is what    *)
(* makes optimistic concurrency work: an update is accepted only when that   *)
(* version is still the current one, so the history it writes extends the    *)
(* current history and not an older one.                                     *)
(***************************************************************************)
EXTENDS Reconciler, DecisionProofs

-----------------------------------------------------------------------------
(* Typing of what the actions build. *)

LEMMA VersionType ==
    ASSUME StoreTypeOK, NEW u \in UIDs, NEW n \in 0 .. Len(log[u])
    PROVE  Version(u, n) \in SchedulingDecision \cup {Nil}
  BY ElementOfSeq DEF StoreTypeOK, Version

LEMMA CachedType ==
    ASSUME StoreTypeOK, NEW u \in UIDs
    PROVE  /\ Cached(u) \in SchedulingDecision \cup {Nil}
           /\ Current(u) \in SchedulingDecision \cup {Nil}
           /\ Len(log[u]) \in Nat
           /\ seen[u] \in 0 .. Len(log[u])
  <1>1. seen[u] \in 0 .. Len(log[u]) /\ Len(log[u]) \in Nat
    BY DEF StoreTypeOK
  <1> QED
    BY <1>1, VersionType DEF Cached, Current

-----------------------------------------------------------------------------
(* Type correctness. *)

LEMMA RetentionWindowType == retentionWindow \in Nat
  BY ReconcilerAssumption DEF retentionWindow

LEMMA NewDecisionType ==
    ASSUME now \in Nat, NEW o \in Observation, NEW v \in VolumeContexts \cup {Nil}
    PROVE  NewDecision(o, v) \in SchedulingDecision
  <1>1. Unix(now + retentionWindow) \in Nat
    BY RetentionWindowType, UnixType
  <1>2. o.identity \in podIdentity
    BY DEF Observation
  <1>3. /\ o.identity.name \in Names /\ o.identity.uid \in UIDs
        /\ o.identity.schedulerName \in Text
    BY <1>2 DEF podIdentity
  <1> QED
    BY <1>1, <1>3, EmptyStatusType
       DEF NewDecision, SchedulingDecision, SchedulingDecisionSpec

\* The parts of an observation.
LEMMA ObservationParts ==
    ASSUME NEW o \in Observation
    PROVE  /\ o.identity.uid \in UIDs
           /\ o.transition \in SchedulingTransition
  <1>1. o.identity \in podIdentity /\ o.transition \in SchedulingTransition
    BY DEF Observation
  <1> QED
    BY <1>1 DEF podIdentity

\* Writing a decision, or the end of one, keeps a log well typed.
LEMMA LogType ==
    ASSUME StoreTypeOK, NEW u \in UIDs, NEW d \in SchedulingDecision \cup {Nil},
           log' = [log EXCEPT ![u] = Append(@, d)], seen' = seen
    PROVE  StoreTypeOK'
  <1>1. \A v \in UIDs : log[v] \in Seq(SchedulingDecision \cup {Nil})
    BY DEF StoreTypeOK
  <1>2. /\ Append(log[u], d) \in Seq(SchedulingDecision \cup {Nil})
        /\ Len(Append(log[u], d)) = Len(log[u]) + 1
    BY <1>1, AppendProperties
  <1>3. \A v \in UIDs : Len(log[v]) \in Nat
    BY <1>1, LenProperties
  <1> QED
    BY <1>1, <1>2, <1>3 DEF StoreTypeOK

LEMMA ServerCreateType ==
    ASSUME StoreTypeOK, NEW u \in UIDs, draft \in SchedulingDecision, ServerCreate(u),
           seen' = seen
    PROVE  StoreTypeOK'
  <1>1. \A v \in UIDs : Len(log[v]) \in Nat
    BY LenProperties DEF StoreTypeOK
  <1>2. CASE log' = log
    BY <1>1, <1>2 DEF StoreTypeOK
  <1>3. CASE log' = [log EXCEPT ![u] = Append(@, draft)]
    BY <1>3, LogType
  <1> QED
    BY <1>2, <1>3 DEF ServerCreate

LEMMA ServerUpdateType ==
    ASSUME StoreTypeOK, NEW u \in UIDs, draft \in SchedulingDecision, Accepts(u),
           ServerUpdate(u), seen' = seen
    PROVE  StoreTypeOK'
  <1>1. Current(u) \in SchedulingDecision
    BY CachedType DEF Accepts
  <1>2. Stored(draft.status) \in SchedulingDecisionStatus
    BY StoredType DEF SchedulingDecision
  <1>3. [Current(u) EXCEPT !.status = Stored(draft.status)] \in SchedulingDecision
    BY <1>1, <1>2 DEF SchedulingDecision
  <1> QED
    BY <1>3, LogType DEF ServerUpdate

\* What stays the same keeps its type, and a released worker has its type.
LEMMA Unchanged ==
    ASSUME TypeOK
    PROVE  /\ UNCHANGED cluster => ClusterTypeOK'
           /\ UNCHANGED store => StoreTypeOK'
           /\ UNCHANGED <<queue, pc, locals>> => WorkerTypeOK'
           /\ UNCHANGED disturbances => (disturbances \in 0 .. MaxDisturbances)'
           /\ Disturb => (disturbances \in 0 .. MaxDisturbances)'
  <1>1. UNCHANGED cluster => ClusterTypeOK'
    BY DEF TypeOK, ClusterTypeOK, cluster
  <1>2. UNCHANGED store => StoreTypeOK'
    BY DEF TypeOK, StoreTypeOK, store
  <1>3. UNCHANGED <<queue, pc, locals>> => WorkerTypeOK'
    BY DEF TypeOK, WorkerTypeOK, locals
  <1>4. Disturb => (disturbances \in 0 .. MaxDisturbances)'
    BY ReconcilerAssumption DEF TypeOK, Disturb
  <1> QED
    BY <1>1, <1>2, <1>3, <1>4 DEF TypeOK

LEMMA ReleaseType ==
    ASSUME Release, queue' \subseteq Names
    PROVE  WorkerTypeOK'
  BY ReconcilerAssumption DEF Release, Locals, WorkerTypeOK, Steps

LEMMA DoneType == TypeOK /\ Done => WorkerTypeOK'
  BY ReleaseType DEF TypeOK, WorkerTypeOK, Done

LEMMA RequeueType == TypeOK /\ pc # "idle" /\ Requeue => WorkerTypeOK'
  BY ReleaseType DEF TypeOK, WorkerTypeOK, Requeue, Enqueue

LEMMA RetryType == TypeOK /\ pc \in {"fetch", "update"} /\ Retry => WorkerTypeOK'
  <1> SUFFICES ASSUME TypeOK, pc \in {"fetch", "update"}, Retry
               PROVE  WorkerTypeOK'
    OBVIOUS
  <1>1. CASE Requeue
    BY <1>1, RequeueType
  <1>2. CASE /\ attempt < MaxAttempts
             /\ pc' = "fetch"
             /\ Locals(key, {}, observed, Nil, 0, attempt + 1)
             /\ UNCHANGED queue
    BY <1>2, ReconcilerAssumption DEF TypeOK, WorkerTypeOK, Steps, Locals
  <1> QED
    BY <1>1, <1>2 DEF Retry

LEMMA StartType ==
    ASSUME Start, StoreTypeOK
    PROVE  TypeOK
  <1>1. /\ now = TicksPerSecond /\ born = {} /\ events = {} /\ news = 0
        /\ queue = {} /\ pc = "idle" /\ key = Nil /\ listed = {}
        /\ observed = Nil /\ draft = Nil /\ base = 0 /\ attempt = 0
        /\ disturbances = 0
    BY Zenon DEF Start
  <1>2. /\ pod \in [Names -> Pod \cup {Nil}]
        /\ placed \in [UIDs -> Text]
        /\ about \in [EventIds -> UIDs \cup {Nil}]
    BY TextAssumption, Zenon DEF Start
  <1>3. ClusterTypeOK
    BY <1>1, <1>2, TicksAssumption, ReconcilerAssumption, ClusterAssumption
       DEF ClusterTypeOK
  <1>4. WorkerTypeOK
    BY <1>1, ReconcilerAssumption DEF WorkerTypeOK, Steps
  <1>5. disturbances \in 0 .. MaxDisturbances
    BY <1>1, ReconcilerAssumption
  <1> QED
    BY <1>3, <1>4, <1>5 DEF TypeOK

LEMMA TypeInit == Init => TypeOK
  <1> SUFFICES ASSUME Init
               PROVE  StoreTypeOK
    BY StartType DEF Init
  <1>1. <<>> \in Seq(SchedulingDecision \cup {Nil}) /\ Len(<<>>) = 0
    BY EmptySeq
  <1>2. /\ log \in [UIDs -> Seq(SchedulingDecision \cup {Nil})]
        /\ \A u \in UIDs : log[u] = <<>>
    BY <1>1, Zenon DEF Init, Start
  <1>3. 0 \in Nat
    OBVIOUS
  <1>4. seen \in [UIDs -> Nat] /\ \A u \in UIDs : seen[u] = 0
    BY <1>3, Zenon DEF Init, Start
  <1>5. \A u \in UIDs : seen[u] <= Len(log[u])
    BY <1>1, <1>2, <1>4
  <1> QED
    BY <1>2, <1>4, <1>5 DEF StoreTypeOK

LEMMA TypeWork == TypeOK /\ Work => TypeOK'
  <1> SUFFICES ASSUME TypeOK, Work
               PROVE  TypeOK'
    OBVIOUS
  <1>0. /\ ClusterTypeOK' /\ (disturbances \in 0 .. MaxDisturbances)'
    BY Unchanged
       DEF Work, GetPod, GetDecision, CreateDecision, FetchDecision, UpdateStatus
  <1>1. CASE GetPod
    <2>1. StoreTypeOK'
      BY <1>1, Unchanged DEF GetPod
    <2>2. CASE \E o \in deriveTransition(pod[key], listed, now) :
                 /\ pc' = "ensure"
                 /\ Locals(key, {}, o, Nil, 0, 0)
                 /\ UNCHANGED queue
      <3>1. deriveTransition(pod[key], listed, now) \subseteq Observation
        <4>1. /\ pod[key] \in Pod \cup {Nil} /\ listed \in SUBSET Event
              /\ now \in Nat
          BY <1>1 DEF GetPod, TypeOK, WorkerTypeOK, ClusterTypeOK
        <4> QED
          BY <4>1, DeriveType
      <3>2. WorkerTypeOK'
        BY <1>1, <2>2, <3>1, ReconcilerAssumption
           DEF GetPod, TypeOK, WorkerTypeOK, Steps, Locals
      <3> QED
        BY <1>0, <2>1, <3>2 DEF TypeOK
    <2> QED
      BY <1>0, <1>1, <2>1, <2>2, DoneType DEF GetPod, TypeOK
  <1>2. CASE GetDecision
    <2>1. \A v \in VolumeContextOf(observed) :
              NewDecision(observed, v) \in SchedulingDecision
      BY <1>2, NewDecisionType
         DEF GetDecision, VolumeContextOf, TypeOK, WorkerTypeOK, ClusterTypeOK
    <2>2. WorkerTypeOK'
      BY <1>2, <2>1, ReconcilerAssumption
         DEF GetDecision, TypeOK, WorkerTypeOK, Steps, Locals
    <2> QED
      BY <1>0, <1>2, <2>2, Unchanged DEF GetDecision, TypeOK
  <1>3. CASE CreateDecision
    <2>1. observed \in Observation /\ draft \in SchedulingDecision
      BY <1>3 DEF CreateDecision, TypeOK, WorkerTypeOK
    <2>2. StoreTypeOK'
      BY <1>3, <2>1, ServerCreateType, ObservationParts DEF CreateDecision, TypeOK
    <2>3. WorkerTypeOK'
      BY <1>3, <2>1, ReconcilerAssumption
         DEF CreateDecision, TypeOK, WorkerTypeOK, Steps, Locals
    <2> QED
      BY <1>0, <2>2, <2>3 DEF TypeOK
  <1>4. CASE FetchDecision
    <2> DEFINE u == observed.identity.uid
               new == [Cached(u) EXCEPT
                         !.status = applyTransition(@, observed.transition)]
    <2>1. /\ observed \in Observation /\ u \in UIDs
          /\ observed.transition \in SchedulingTransition
      BY <1>4, ObservationParts DEF FetchDecision, TypeOK, WorkerTypeOK
    <2>2. StoreTypeOK'
      BY <1>4, Unchanged DEF FetchDecision
    <2>3. CASE Retry \/ Done
      BY <1>0, <1>4, <2>2, <2>3, RetryType, DoneType DEF FetchDecision, TypeOK
    <2>4. CASE /\ Cached(u) # Nil
               /\ pc' = "update"
               /\ Locals(key, {}, observed, new, seen[u], attempt)
               /\ UNCHANGED queue
      <3>1. Cached(u) \in SchedulingDecision /\ seen[u] \in Nat
        BY <2>1, <2>4, CachedType DEF TypeOK, StoreTypeOK
      <3>2. new \in SchedulingDecision
        <4>1. Cached(u).status \in SchedulingDecisionStatus
          BY <3>1 DEF SchedulingDecision
        <4>2. applyTransition(Cached(u).status, observed.transition)
                \in SchedulingDecisionStatus
          BY <2>1, <4>1, ApplyType
        <4> QED
          BY <3>1, <4>2 DEF SchedulingDecision
      <3> HIDE DEF new
      <3>3. WorkerTypeOK'
        BY <1>4, <2>1, <2>4, <3>1, <3>2
           DEF FetchDecision, TypeOK, WorkerTypeOK, Steps, Locals
      <3> QED
        BY <1>0, <2>2, <3>3 DEF TypeOK
    <2> QED
      BY <1>4, <2>3, <2>4 DEF FetchDecision
  <1>5. CASE UpdateStatus
    <2> DEFINE u == observed.identity.uid
    <2>1. u \in UIDs /\ draft \in SchedulingDecision
      BY <1>5, ObservationParts DEF UpdateStatus, TypeOK, WorkerTypeOK
    <2>2. CASE Accepts(u) /\ ServerUpdate(u) /\ Done
      <3>1. StoreTypeOK'
        BY <1>5, <2>1, <2>2, ServerUpdateType DEF UpdateStatus, TypeOK
      <3> QED
        BY <1>0, <2>2, <3>1, DoneType DEF TypeOK
    <2>3. CASE Retry /\ UNCHANGED log
      BY <1>0, <1>5, <2>3, RetryType, Unchanged DEF UpdateStatus, TypeOK, store
    <2> QED
      BY <1>5, <2>2, <2>3 DEF UpdateStatus
  <1> QED
    BY <1>1, <1>2, <1>3, <1>4, <1>5 DEF Work

LEMMA TypeListEvents ==
    ASSUME TypeOK, NEW k \in Names, ListEvents(k)
    PROVE  TypeOK'
  <1>1. listRelevantEvents(k) \subseteq Event
    BY DEF listRelevantEvents, TypeOK, ClusterTypeOK
  <1>2. WorkerTypeOK'
    BY <1>1, ReconcilerAssumption
       DEF ListEvents, TypeOK, WorkerTypeOK, Steps, Locals
  <1> QED
    BY <1>2, Unchanged DEF ListEvents, TypeOK

LEMMA TypeFaults == TypeOK /\ Faults => TypeOK'
  <1> SUFFICES ASSUME TypeOK, Faults
               PROVE  TypeOK'
    OBVIOUS
  <1>0. ClusterTypeOK' /\ (disturbances \in 0 .. MaxDisturbances)'
    BY Unchanged DEF Faults, ReadFails, WriteFails, WriteReplyLost, Restart
  <1>1. CASE ReadFails \/ WriteFails
    <2>1. WorkerTypeOK'
      BY <1>1, RequeueType DEF ReadFails, WriteFails
    <2> QED
      BY <1>0, <1>1, <2>1, Unchanged DEF ReadFails, WriteFails, TypeOK
  <1>2. CASE WriteReplyLost
    <2>1. WorkerTypeOK'
      BY <1>2, RequeueType DEF WriteReplyLost
    <2>2. observed.identity.uid \in UIDs /\ draft \in SchedulingDecision
      BY <1>2, ObservationParts DEF WriteReplyLost, TypeOK, WorkerTypeOK
    <2>3. StoreTypeOK'
      BY <1>2, <2>2, ServerCreateType, ServerUpdateType
         DEF WriteReplyLost, TypeOK
    <2> QED
      BY <1>0, <2>1, <2>3 DEF TypeOK
  <1>3. CASE Restart
    <2>1. WorkerTypeOK'
      BY <1>3, ReleaseType DEF Restart
    <2>2. StoreTypeOK'
      BY <1>3 DEF Restart, TypeOK, StoreTypeOK
    <2> QED
      BY <1>0, <2>1, <2>2 DEF TypeOK
  <1> QED
    BY <1>1, <1>2, <1>3 DEF Faults

LEMMA TypeCacheAdvance ==
    ASSUME TypeOK, NEW u \in UIDs, CacheAdvance(u)
    PROVE  TypeOK'
  <1>1. StoreTypeOK'
    BY DEF CacheAdvance, TypeOK, StoreTypeOK
  <1> QED
    BY <1>1, Unchanged DEF CacheAdvance, TypeOK

\* Whatever the watches deliver is an object of its type.
LEMMA StampType ==
    ASSUME now \in Nat, NEW lag \in Nat, lag + TicksPerSecond <= now
    PROVE  StampOf(lag) \in Nat /\ now - lag \in Nat
  <1>1. now - lag \in Nat
    BY TicksAssumption
  <1> QED
    BY <1>1, WholeSecondFacts DEF StampOf

LEMMA TypeEnvironment == TypeOK /\ Environment => TypeOK'
  <1> SUFFICES ASSUME TypeOK, Environment
               PROVE  TypeOK'
    OBVIOUS
  <1>a. ClusterTypeOK /\ now \in Nat /\ WholeSecond(now) \in Nat
    BY WholeSecondFacts DEF TypeOK, ClusterTypeOK
  <1>b. ASSUME Deliver, queue' \subseteq Names
        PROVE  /\ WorkerTypeOK' /\ StoreTypeOK' /\ now' = now
               /\ (disturbances \in 0 .. MaxDisturbances)'
               /\ (news \in 0 .. MaxNews)'
    <2>1. WorkerTypeOK'
      BY <1>b DEF Deliver, TypeOK, WorkerTypeOK, locals
    <2> QED
      BY <1>b, <2>1, Unchanged, ReconcilerAssumption
         DEF Deliver, TypeOK, ClusterTypeOK
  <1>c. queue \subseteq Names
    BY DEF TypeOK, WorkerTypeOK
  <1>1. CASE Tick
    <2>1. ClusterTypeOK'
      BY <1>1, <1>a DEF Tick, TimePasses, ClusterTypeOK
    <2> QED
      BY <1>1, <2>1, Unchanged DEF Tick, TypeOK
  <1>2. ASSUME NEW u \in UIDs, NEW c \in FirstConditions, PodAdded(u, c)
        PROVE  TypeOK'
    <2>1. FirstCondition(c) \in Condition \cup {Nil}
      BY <1>a, TextAssumption, ReconcilerAssumption DEF FirstCondition, Condition
    <2>2. [uid |-> u, name |-> NameOf[u], schedulerName |-> "default-scheduler",
           creationTimestamp |-> WholeSecond(now), nodeName |-> "",
           condition |-> FirstCondition(c)] \in Pod
      BY <1>a, <2>1, TextAssumption, ReconcilerAssumption, ClusterAssumption
         DEF Pod
    <2>3. pod' \in [Names -> Pod \cup {Nil}]
      BY <1>2, <1>a, <2>2 DEF PodAdded, ClusterTypeOK
    <2>4. queue' \subseteq Names
      BY <1>2, <1>c, ClusterAssumption DEF PodAdded, Enqueue
    <2>5. ClusterTypeOK'
      BY <1>2, <1>a, <1>b, <2>3, <2>4 DEF PodAdded, ClusterTypeOK
    <2> QED
      BY <1>2, <1>b, <2>4, <2>5 DEF PodAdded, TypeOK
  <1>3. ASSUME NEW k \in Names, NEW m \in FailureMessages, NEW lag \in Lags,
               PodUnschedulable(k, m, lag)
        PROVE  TypeOK'
    <2>1. pod[k] \in Pod /\ pod[k].condition \in Condition \cup {Nil}
      BY <1>3, <1>a DEF PodUnschedulable, ClusterTypeOK, Pod
    <2>2. StampOf(lag) \in Nat
      BY <1>3, <1>a, StampType, ReconcilerAssumption DEF PodUnschedulable
    <2>3. PICK since \in Nat : pod' = [pod EXCEPT ![k].condition =
                  [status |-> "False", reason |-> "Unschedulable",
                   message |-> m, lastTransitionTime |-> since]]
      BY <1>3, <2>1, <2>2 DEF PodUnschedulable, Condition
    <2>4. [status |-> "False", reason |-> "Unschedulable", message |-> m,
           lastTransitionTime |-> since] \in Condition
      BY ReconcilerAssumption DEF Condition
    <2>5. pod' \in [Names -> Pod \cup {Nil}]
      BY <1>a, <2>1, <2>3, <2>4 DEF ClusterTypeOK, Pod
    <2>6. queue' \subseteq Names
      BY <1>3, <1>c DEF PodUnschedulable, Enqueue
    <2>7. ClusterTypeOK'
      BY <1>3, <1>a, <1>b, <2>5, <2>6 DEF PodUnschedulable, ClusterTypeOK
    <2> QED
      BY <1>3, <1>b, <2>6, <2>7 DEF PodUnschedulable, TypeOK
  <1>4. ASSUME NEW k \in Names, NEW n \in Nodes, NEW lag \in Lags,
               PodBound(k, n, lag)
        PROVE  TypeOK'
    <2> DEFINE c == [status |-> "True", reason |-> "", message |-> "",
                     lastTransitionTime |-> StampOf(lag)]
    <2>1. pod[k] \in Pod /\ pod[k].uid \in UIDs /\ n \in Text
      BY <1>4, <1>a, ReconcilerAssumption, ClusterAssumption
         DEF PodBound, ClusterTypeOK, Pod
    <2>2. c \in Condition
      BY <1>4, <1>a, StampType, TextAssumption, ReconcilerAssumption
         DEF PodBound, Condition
    <2>3. pod' = [pod EXCEPT ![k] = [pod[k] EXCEPT !.nodeName = n,
                                                   !.condition = c]]
      BY <1>4, <1>a DEF PodBound, ClusterTypeOK
    <2> HIDE DEF c
    <2>4. [pod[k] EXCEPT !.nodeName = n, !.condition = c] \in Pod
      BY <2>1, <2>2 DEF Pod
    <2>5. pod' \in [Names -> Pod \cup {Nil}] /\ placed' \in [UIDs -> Text]
      BY <1>4, <1>a, <2>1, <2>3, <2>4 DEF PodBound, ClusterTypeOK
    <2>6. queue' \subseteq Names
      BY <1>4, <1>c DEF PodBound, Enqueue
    <2>7. ClusterTypeOK'
      BY <1>4, <1>a, <1>b, <2>5, <2>6 DEF PodBound, ClusterTypeOK
    <2> QED
      BY <1>4, <1>b, <2>6, <2>7 DEF PodBound, TypeOK
  <1>5. ASSUME NEW k \in Names, PodDeleted(k)
        PROVE  TypeOK'
    <2>1. pod' \in [Names -> Pod \cup {Nil}]
      BY <1>5, <1>a DEF PodDeleted, ClusterTypeOK
    <2>2. queue' \subseteq Names
      BY <1>5, <1>c DEF PodDeleted, Enqueue
    <2>3. ClusterTypeOK'
      BY <1>5, <1>a, <1>b, <2>1, <2>2 DEF PodDeleted, ClusterTypeOK
    <2> QED
      BY <1>5, <1>b, <2>2, <2>3 DEF PodDeleted, TypeOK
  <1>6. ASSUME NEW k \in Names, PodTouched(k)
        PROVE  TypeOK'
    <2>1. WorkerTypeOK'
      BY <1>6 DEF PodTouched, Enqueue, TypeOK, WorkerTypeOK, locals
    <2> QED
      BY <1>6, <2>1, Unchanged DEF PodTouched, TypeOK
  <1>7. ASSUME NEW i \in EventIds, NEW u \in UIDs, NEW reason \in EventReasons,
               NEW m \in MessagesFor(reason), NEW clock \in EventClocks,
               NEW lag \in Lags, EventAdded(i, u, reason, m, clock, lag)
        PROVE  TypeOK'
    <2> DEFINE e == [id |-> i, uid |-> u, name |-> NameOf[u], reason |-> reason,
                 message |-> m,
                 names |-> IF reason = "CandidateNodes" THEN Nodes ELSE {},
                 lastTimestamp |-> IF clock = "second" THEN StampOf(lag) ELSE 0,
                 eventTime |-> IF clock = "micro" THEN now - lag ELSE 0,
                 creationTimestamp |-> StampOf(lag),
                 reportingController |->
                    IF clock = "micro" THEN "default-scheduler" ELSE "",
                 component |-> "scheduler"]
    <2>1. m \in Text
      BY TextAssumption, ReconcilerAssumption DEF MessagesFor
    <2>2. StampOf(lag) \in Nat /\ now - lag \in Nat
      BY <1>7, <1>a, StampType, ReconcilerAssumption DEF EventAdded
    <2>3. e \in Event
      BY <2>1, <2>2, TextAssumption, ReconcilerAssumption, ClusterAssumption
         DEF Event
    <2>4. e.name \in Names
      BY ClusterAssumption
    <2>5. events' = events \cup {e} /\ EnqueueFor(e)
      BY <1>7 DEF EventAdded
    <2> HIDE DEF e
    <2>6. queue' \subseteq Names
      BY <1>c, <2>4, <2>5 DEF EnqueueFor
    <2>7. ClusterTypeOK'
      BY <1>7, <1>a, <1>b, <2>3, <2>5, <2>6 DEF EventAdded, ClusterTypeOK
    <2> QED
      BY <1>7, <1>b, <2>6, <2>7 DEF EventAdded, TypeOK
  <1>8. ASSUME NEW e \in events, EventRepeated(e) \/ EventExpired(e)
        PROVE  TypeOK'
    <2>1. e \in Event /\ e.name \in Names
      BY <1>a DEF ClusterTypeOK, Event
    <2>2. [e EXCEPT !.lastTimestamp = WholeSecond(now)] \in Event
      BY <1>a, <2>1 DEF Event
    <2>3. queue' \subseteq Names
      BY <1>8, <1>c, <2>1 DEF EventRepeated, EventExpired, EnqueueFor
    <2>4. events' \subseteq Event
      BY <1>8, <1>a, <2>2 DEF EventRepeated, EventExpired, ClusterTypeOK
    <2>5. ClusterTypeOK'
      BY <1>8, <1>a, <1>b, <2>3, <2>4
         DEF EventRepeated, EventExpired, ClusterTypeOK
    <2> QED
      BY <1>8, <1>b, <2>3, <2>5 DEF EventRepeated, EventExpired, TypeOK
  <1> QED
    BY <1>1, <1>2, <1>3, <1>4, <1>5, <1>6, <1>7, <1>8 DEF Environment

LEMMA TypeStep == TypeOK /\ [Next]_vars => TypeOK'
  <1> SUFFICES ASSUME TypeOK, [Next]_vars
               PROVE  TypeOK'
    OBVIOUS
  <1>1. CASE UNCHANGED vars
    BY <1>1, Unchanged DEF vars, TypeOK
  <1> QED
    BY <1>1, TypeListEvents, TypeWork, TypeFaults, TypeCacheAdvance,
       TypeEnvironment DEF Next

\* Every variable keeps its type, the worker has what its step needs, and the
\* cache never runs ahead of the API server.
THEOREM TypeCorrect == Spec => []TypeOK
  BY TypeInit, TypeStep, PTL DEF Spec

-----------------------------------------------------------------------------
(* The inductive invariant. *)

Inv == TypeOK /\ DraftFollowsBase /\ StoredInSeconds

-----------------------------------------------------------------------------
(* What a step does to the API server. *)

\* A new version is the current one; nothing else changes.
LEMMA AfterAppend ==
    ASSUME StoreTypeOK, NEW u \in UIDs, NEW d \in SchedulingDecision \cup {Nil},
           log' = [log EXCEPT ![u] = Append(@, d)]
    PROVE  /\ Current(u)' = d
           /\ \A v \in UIDs \ {u} : Current(v)' = Current(v)
           /\ Len(log[u]) \in Nat
           /\ \A n \in 1 .. Len(log[u]) : log'[u][n] = log[u][n]
  <1>1. log[u] \in Seq(SchedulingDecision \cup {Nil}) /\ Len(log[u]) \in Nat
    BY LenProperties DEF StoreTypeOK
  <1>2. log'[u] = Append(log[u], d) /\ \A v \in UIDs \ {u} : log'[v] = log[v]
    BY DEF StoreTypeOK
  <1>3. /\ Len(log'[u]) = Len(log[u]) + 1
        /\ log'[u][Len(log[u]) + 1] = d
        /\ \A n \in 1 .. Len(log[u]) : log'[u][n] = log[u][n]
    BY <1>1, <1>2, AppendProperties
  <1> QED
    BY <1>1, <1>2, <1>3 DEF Current, Version

\* The cluster changes nothing of the manager but its queue.
LEMMA OutsideOfManager == Environment => UNCHANGED <<pc, locals, store>>
  <1> SUFFICES ASSUME Environment
               PROVE  UNCHANGED <<pc, locals, store>>
    OBVIOUS
  <1>1. ASSUME Deliver PROVE UNCHANGED <<pc, locals, store>>
    BY <1>1 DEF Deliver
  <1>2. CASE Tick
    BY <1>2 DEF Tick
  <1>3. CASE \E u \in UIDs, c \in FirstConditions : PodAdded(u, c)
    BY <1>1, <1>3 DEF PodAdded
  <1>4. ASSUME NEW k, NEW m, NEW n, NEW lag,
               \/ PodUnschedulable(k, m, lag) \/ PodBound(k, n, lag)
               \/ PodDeleted(k) \/ PodTouched(k)
        PROVE  UNCHANGED <<pc, locals, store>>
    BY <1>1, <1>4, Zenon
       DEF PodUnschedulable, PodBound, PodDeleted, PodTouched
  <1>5. ASSUME NEW i, NEW u, NEW reason, NEW m, NEW clock, NEW lag,
               EventAdded(i, u, reason, m, clock, lag)
        PROVE  UNCHANGED <<pc, locals, store>>
    BY <1>1, <1>5, Zenon DEF EventAdded
  <1>6. CASE \E e \in events : EventRepeated(e) \/ EventExpired(e)
    BY <1>1, <1>6 DEF EventRepeated, EventExpired
  <1> QED
    BY <1>2, <1>3, <1>4, <1>5, <1>6 DEF Environment

\* Only a Create of a missing decision and an accepted status update change
\* what the API server holds.
LEMMA LogStep ==
    ASSUME TypeOK, [Next]_vars
    PROVE  \/ log' = log
           \/ /\ pc = "create" /\ Current(observed.identity.uid) = Nil
              /\ log' = [log EXCEPT ![observed.identity.uid] = Append(@, draft)]
           \/ /\ pc = "update" /\ Accepts(observed.identity.uid)
              /\ ServerUpdate(observed.identity.uid)
  <1>1. CASE UNCHANGED vars
    BY <1>1 DEF vars, store
  <1>2. CASE \E k \in Names : ListEvents(k)
    BY <1>2 DEF ListEvents, store
  <1>3. CASE Work
    BY <1>3 DEF Work, GetPod, GetDecision, CreateDecision, FetchDecision,
                UpdateStatus, ServerCreate, store
  <1>4. CASE Faults
    BY <1>4 DEF Faults, ReadFails, WriteFails, WriteReplyLost, Restart,
                ServerCreate, store
  <1>5. CASE \E u \in UIDs : CacheAdvance(u)
    BY <1>5 DEF CacheAdvance
  <1>6. CASE Environment
    BY <1>6, OutsideOfManager DEF store
  <1> QED
    BY <1>1, <1>2, <1>3, <1>4, <1>5, <1>6 DEF Next

\* An accepted update appends the observed transition, in whole seconds, to the
\* current history.
LEMMA AcceptedUpdate ==
    ASSUME Inv, pc = "update", NEW u, u = observed.identity.uid,
           NEW t, t = StoredTransition(observed.transition),
           Accepts(u), ServerUpdate(u)
    PROVE  /\ u \in UIDs /\ Current(u) \in SchedulingDecision
           /\ t \in SchedulingTransition
           /\ Current(u)' = [Current(u) EXCEPT !.status = applyTransition(@, t)]
           /\ \A v \in UIDs \ {u} : Current(v)' = Current(v)
  <1> DEFINE old == Current(u)
  <1>1. /\ u \in UIDs /\ observed.transition \in SchedulingTransition
        /\ draft \in SchedulingDecision
    BY ObservationParts DEF Inv, TypeOK, WorkerTypeOK
  <1>2. old \in SchedulingDecision /\ t \in SchedulingTransition
    BY <1>1, CachedType, StoredTransitionType DEF Inv, TypeOK, Accepts
  <1>3. old = log[u][base]
    BY <1>1, CachedType DEF Accepts, Current, Version, Inv, TypeOK, DraftFollowsBase
  <1>4. draft = [old EXCEPT !.status = applyTransition(old.status, observed.transition)]
    BY <1>3, Zenon DEF Inv, DraftFollowsBase
  <1>5. draft.status = applyTransition(old.status, observed.transition)
    BY <1>2, <1>4 DEF SchedulingDecision
  <1>6. old.status \in SchedulingDecisionStatus
    BY <1>2 DEF SchedulingDecision
  <1>7. \A i \in 1 .. Len(old.status.transitions) :
            StoredTransition(old.status.transitions[i]) = old.status.transitions[i]
    BY <1>1, <1>2, NilAssumption DEF Inv, StoredInSeconds, History
  <1>8. Stored(draft.status) = applyTransition(old.status, t)
    BY <1>1, <1>5, <1>6, <1>7, StoredApply
  <1>9. log' = [log EXCEPT ![u] = Append(@, [old EXCEPT !.status =
                                                applyTransition(old.status, t)])]
    BY <1>8, Zenon DEF ServerUpdate
  <1>10. [old EXCEPT !.status = applyTransition(old.status, t)] \in SchedulingDecision
    BY <1>2, <1>6, ApplyType DEF SchedulingDecision
  <1>11. /\ Current(u)' = [old EXCEPT !.status = applyTransition(old.status, t)]
         /\ \A v \in UIDs \ {u} : Current(v)' = Current(v)
    <2> HIDE DEF old
    <2> QED
      BY <1>1, <1>9, <1>10, AfterAppend DEF Inv, TypeOK
  <1> QED
    BY <1>1, <1>2, <1>11, Zenon

-----------------------------------------------------------------------------
(* The inductive invariant. *)

LEMMA InvInit == Init => Inv
  <1> SUFFICES ASSUME Init
               PROVE  Inv
    OBVIOUS
  <1>1. TypeOK
    BY TypeInit
  <1>2. pc = "idle" /\ \A u \in UIDs : log[u] = <<>>
    BY Zenon DEF Init, Start
  <1>3. \A u \in UIDs : Current(u) = Nil
    BY <1>2, EmptySeq DEF Current, Version
  <1> QED
    BY <1>1, <1>2, <1>3 DEF Inv, DraftFollowsBase, StoredInSeconds

LEMMA DraftStep ==
    ASSUME Inv, [Next]_vars
    PROVE  DraftFollowsBase'
  <1>0. TypeOK /\ WorkerTypeOK /\ StoreTypeOK /\ now \in Nat
    BY DEF Inv, TypeOK, ClusterTypeOK
  <1>1. ASSUME UNCHANGED <<pc, observed, draft, base, log>>
        PROVE  DraftFollowsBase'
    BY <1>1 DEF Inv, DraftFollowsBase
  <1>2. ASSUME pc' \notin {"create", "update"}
        PROVE  DraftFollowsBase'
    BY <1>2 DEF DraftFollowsBase
  <1>3. CASE UNCHANGED vars
    BY <1>1, <1>3 DEF vars, locals, store
  <1>4. CASE \E k \in Names : ListEvents(k)
    BY <1>2, <1>4 DEF ListEvents
  <1>5. CASE Work
    <2>1. CASE GetPod
      BY <1>2, <2>1 DEF GetPod, Done, Release
    <2>2. CASE GetDecision
      <3>1. CASE pc' = "fetch"
        BY <1>2, <3>1
      <3>2. CASE pc' = "create"
        <4>1. PICK v \in VolumeContexts \cup {Nil} :
                /\ draft' = NewDecision(observed, v) /\ observed' = observed
          BY <2>2, <3>2 DEF GetDecision, Locals, VolumeContextOf
        <4>2. Unix(now + retentionWindow) \in Nat
          BY <1>0, RetentionWindowType, UnixType
        <4>3. /\ draft'.spec.podUID = observed.identity.uid
              /\ draft'.expiresAt = Unix(now + retentionWindow)
              /\ draft'.status = EmptyStatus
          BY <4>1 DEF NewDecision
        <4> QED
          BY <3>2, <4>1, <4>2, <4>3, NilAssumption DEF DraftFollowsBase
      <3> QED
        BY <2>2, <3>1, <3>2 DEF GetDecision
    <2>3. CASE CreateDecision
      BY <1>2, <2>3 DEF CreateDecision
    <2>4. CASE FetchDecision
      <3>1. CASE pc' # "update"
        BY <1>2, <2>4, <3>1 DEF FetchDecision, Retry, Requeue, Done, Release
      <3>2. CASE pc' = "update"
        <4> DEFINE decision == Cached(observed.identity.uid)
        <4>1. observed.identity.uid \in UIDs
          BY <1>0, <2>4, ObservationParts DEF FetchDecision, WorkerTypeOK
        <4>2. /\ decision # Nil
              /\ ~AlreadyLast(decision.status, observed.transition)
              /\ draft' = [decision EXCEPT
                             !.status = applyTransition(@, observed.transition)]
              /\ base' = seen[observed.identity.uid]
              /\ observed' = observed /\ log' = log
          BY <2>4, <3>2
             DEF FetchDecision, Retry, Requeue, Done, Release, Locals, store
        <4>3. /\ seen[observed.identity.uid]
                    \in 1 .. Len(log[observed.identity.uid])
              /\ decision = log[observed.identity.uid][seen[observed.identity.uid]]
          BY <1>0, <4>1, <4>2, CachedType DEF Cached, Version
        <4> QED
          BY <3>2, <4>2, <4>3, Zenon DEF DraftFollowsBase
      <3> QED
        BY <3>1, <3>2
    <2>5. CASE UpdateStatus
      BY <1>2, <2>5 DEF UpdateStatus, Retry, Requeue, Done, Release
    <2> QED
      BY <1>5, <2>1, <2>2, <2>3, <2>4, <2>5 DEF Work
  <1>6. CASE Faults
    BY <1>2, <1>6
       DEF Faults, ReadFails, WriteFails, WriteReplyLost, Restart, Requeue, Release
  <1>7. CASE \E u \in UIDs : CacheAdvance(u)
    BY <1>1, <1>7 DEF CacheAdvance, locals
  <1>8. CASE Environment
    BY <1>1, <1>8, OutsideOfManager DEF locals, store
  <1> QED
    BY <1>3, <1>4, <1>5, <1>6, <1>7, <1>8 DEF Next

\* The history after a transition is applied.
LEMMA AppliedHistory ==
    ASSUME NEW d \in SchedulingDecision, NEW t \in SchedulingTransition,
           NEW e, e = [d EXCEPT !.status = applyTransition(@, t)]
    PROVE  /\ e \in SchedulingDecision
           /\ e.spec = d.spec /\ e.expiresAt = d.expiresAt
           /\ Len(d.status.transitions) \in Nat
           /\ Len(e.status.transitions) = Len(d.status.transitions) + 1
           /\ \A i \in 1 .. Len(d.status.transitions) :
                 e.status.transitions[i] = d.status.transitions[i]
           /\ e.status.transitions[Len(d.status.transitions) + 1] = t
  <1>1. d.status \in SchedulingDecisionStatus
    BY DEF SchedulingDecision
  <1>2. applyTransition(d.status, t) \in SchedulingDecisionStatus
    BY <1>1, ApplyType
  <1>3. /\ e.status = applyTransition(d.status, t)
        /\ e.spec = d.spec /\ e.expiresAt = d.expiresAt
        /\ e \in SchedulingDecision
    BY <1>2 DEF SchedulingDecision
  <1>4. /\ d.status.transitions \in Seq(SchedulingTransition)
        /\ Len(d.status.transitions) \in Nat
    BY <1>1, LenProperties DEF SchedulingDecisionStatus
  <1>5. e.status.transitions = Append(d.status.transitions, t)
    BY <1>3 DEF applyTransition
  <1> QED
    BY <1>3, <1>4, <1>5, AppendProperties

\* A new decision has no history.
LEMMA NewHasNoHistory ==
    ASSUME DraftFollowsBase, pc = "create"
    PROVE  Len(draft.status.transitions) = 0
  <1>1. draft.status = EmptyStatus
    BY DEF DraftFollowsBase
  <1>2. EmptyStatus.transitions = <<>>
    BY Zenon DEF EmptyStatus
  <1>3. draft.status.transitions = <<>>
    BY <1>1, <1>2
  <1> QED
    BY <1>3

LEMMA StoredTwice ==
    ASSUME NEW t \in SchedulingTransition
    PROVE  StoredTransition(StoredTransition(t)) = StoredTransition(t)
  BY WholeSecondFacts DEF StoredTransition, SchedulingTransition

LEMMA StoredInSecondsStep ==
    ASSUME Inv, [Next]_vars
    PROVE  StoredInSeconds'
  <1>0. TypeOK /\ StoreTypeOK /\ WorkerTypeOK
    BY DEF Inv, TypeOK
  <1>1. CASE log' = log
    BY <1>1 DEF Inv, StoredInSeconds, Current, Version, History
  <1>2. ASSUME pc = "create", NEW u, u = observed.identity.uid,
               log' = [log EXCEPT ![u] = Append(@, draft)]
        PROVE  StoredInSeconds'
    <2>1. u \in UIDs /\ draft \in SchedulingDecision
      BY <1>0, <1>2, ObservationParts DEF WorkerTypeOK
    <2>2. /\ Current(u)' = draft
          /\ \A v \in UIDs \ {u} : Current(v)' = Current(v)
      BY <1>0, <1>2, <2>1, AfterAppend
    <2>3. Len(draft.status.transitions) = 0
      BY <1>2, NewHasNoHistory DEF Inv
    <2> QED
      BY <2>1, <2>2, <2>3 DEF Inv, StoredInSeconds, History
  <1>3. ASSUME pc = "update", NEW u, u = observed.identity.uid,
               Accepts(u), ServerUpdate(u)
        PROVE  StoredInSeconds'
    <2> DEFINE t == StoredTransition(observed.transition)
    <2>1. PICK s : s = t
      OBVIOUS
    <2>2. /\ u \in UIDs /\ Current(u) \in SchedulingDecision
          /\ s \in SchedulingTransition
          /\ Current(u)' = [Current(u) EXCEPT !.status = applyTransition(@, s)]
          /\ \A v \in UIDs \ {u} : Current(v)' = Current(v)
      BY <1>3, <2>1, AcceptedUpdate
    <2>3. PICK e : e = [Current(u) EXCEPT !.status = applyTransition(@, s)]
      OBVIOUS
    <2>4. PICK d \in SchedulingDecision : d = Current(u)
      BY <2>2
    <2>5. /\ Len(d.status.transitions) \in Nat
          /\ Len(e.status.transitions) = Len(d.status.transitions) + 1
          /\ \A i \in 1 .. Len(d.status.transitions) :
                e.status.transitions[i] = d.status.transitions[i]
          /\ e.status.transitions[Len(d.status.transitions) + 1] = s
      BY <2>2, <2>3, <2>4, AppliedHistory
    <2>6. StoredTransition(s) = s
      <3>1. observed.transition \in SchedulingTransition
        BY <1>0, <1>3, ObservationParts DEF WorkerTypeOK
      <3> QED
        BY <2>1, <3>1, StoredTwice
    <2>7. \A i \in 1 .. Len(d.status.transitions) :
             StoredTransition(d.status.transitions[i]) = d.status.transitions[i]
      BY <2>2, <2>4, NilAssumption DEF Inv, StoredInSeconds, History
    <2>8. \A i \in 1 .. Len(e.status.transitions) :
             StoredTransition(e.status.transitions[i]) = e.status.transitions[i]
      BY <2>5, <2>6, <2>7
    <2>9. Current(u)' = e
      BY <2>2, <2>3
    <2> QED
      BY <2>2, <2>8, <2>9 DEF Inv, StoredInSeconds, History
  <1> QED
    BY <1>0, <1>1, <1>2, <1>3, LogStep

LEMMA InvStep == Inv /\ [Next]_vars => Inv'
  BY TypeStep, DraftStep, StoredInSecondsStep DEF Inv

\* Inv holds in every reachable state.
THEOREM Invariance == Spec => []Inv
  BY InvInit, InvStep, PTL DEF Spec

-----------------------------------------------------------------------------
(* Histories only grow. *)

\* What HistoryAppendOnly says of one step and one UID.
Extends(u) ==
    /\ Current(u)'.spec = Current(u).spec
    /\ Current(u)'.expiresAt = Current(u).expiresAt
    /\ Len(History(u)) <= Len(History(u)')
    /\ \A i \in 1 .. Len(History(u)) : History(u)'[i] = History(u)[i]

LEMMA AppendOnlyStep ==
    ASSUME Inv, [Next]_vars, NEW v \in UIDs, Current(v) # Nil, Current(v)' # Nil
    PROVE  Extends(v)
  <1>0. TypeOK /\ StoreTypeOK /\ WorkerTypeOK
    BY DEF Inv, TypeOK
  <1>a. /\ Current(v) \in SchedulingDecision
        /\ Len(History(v)) \in Nat
    <2>1. Current(v) \in SchedulingDecision
      BY <1>0, CachedType
    <2>2. Current(v).status.transitions \in Seq(SchedulingTransition)
      BY <2>1 DEF SchedulingDecision, SchedulingDecisionStatus
    <2> QED
      BY <2>1, <2>2, LenProperties DEF History
  <1>b. ASSUME Current(v)' = Current(v)
        PROVE  Extends(v)
    BY <1>a, <1>b DEF Extends, History
  <1>1. CASE log' = log
    BY <1>1, <1>b DEF Current, Version
  <1>2. ASSUME pc = "create", NEW u, u = observed.identity.uid,
               Current(u) = Nil, log' = [log EXCEPT ![u] = Append(@, draft)]
        PROVE  Extends(v)
    <2>1. u \in UIDs /\ draft \in SchedulingDecision
      BY <1>0, <1>2, ObservationParts DEF WorkerTypeOK
    <2>2. \A w \in UIDs \ {u} : Current(w)' = Current(w)
      BY <1>0, <1>2, <2>1, AfterAppend
    <2> QED
      BY <1>2, <1>b, <2>2
  <1>3. ASSUME pc = "update", NEW u, u = observed.identity.uid,
               Accepts(u), ServerUpdate(u)
        PROVE  Extends(v)
    <2>1. PICK t : t = StoredTransition(observed.transition)
      OBVIOUS
    <2>2. /\ u \in UIDs /\ Current(u) \in SchedulingDecision
          /\ t \in SchedulingTransition
          /\ Current(u)' = [Current(u) EXCEPT !.status = applyTransition(@, t)]
          /\ \A w \in UIDs \ {u} : Current(w)' = Current(w)
      BY <1>3, <2>1, AcceptedUpdate
    <2>3. PICK d \in SchedulingDecision : d = Current(u)
      BY <2>2
    <2>4. PICK e : e = [d EXCEPT !.status = applyTransition(@, t)]
      OBVIOUS
    <2>5. /\ e.spec = d.spec /\ e.expiresAt = d.expiresAt
          /\ Len(d.status.transitions) \in Nat
          /\ Len(e.status.transitions) = Len(d.status.transitions) + 1
          /\ \A i \in 1 .. Len(d.status.transitions) :
                e.status.transitions[i] = d.status.transitions[i]
      BY <2>2, <2>4, AppliedHistory
    <2>6. Current(u)' = e
      BY <2>2, <2>3, <2>4
    <2>7. CASE v = u
      BY <2>3, <2>5, <2>6, <2>7 DEF Extends, History
    <2> QED
      BY <1>b, <2>2, <2>7
  <1> QED
    BY <1>0, <1>1, <1>2, <1>3, LogStep

\* A record keeps its spec, its expiry and every transition it has, for as
\* long as it exists: no interleaving of stale reads, conflicts, lost answers
\* and restarts overwrites a history with an older one.
THEOREM AppendOnly == Spec => HistoryAppendOnly
  <1>1. Inv /\ [Next]_vars =>
          [\A u \in UIDs : Current(u) # Nil /\ Current(u)' # Nil => Extends(u)]_vars
    BY AppendOnlyStep
  <1>2. Spec => [][\A u \in UIDs :
                     Current(u) # Nil /\ Current(u)' # Nil => Extends(u)]_vars
    BY <1>1, Invariance, PTL DEF Spec
  <1> QED
    BY <1>2, PTL DEF HistoryAppendOnly, Extends

-----------------------------------------------------------------------------
(* Records name the node their own Pod went to. *)

\* A Pod in the cache goes by its own name and its node is the one its UID was
\* bound to; a UID not yet seen was bound to none; what the worker holds names
\* no node, or the one the UID it goes to was bound to.
NodesKnown ==
    /\ \A k \in Names : pod[k] # Nil =>
          /\ pod[k].uid \in born
          /\ NameOf[pod[k].uid] = k
          /\ pod[k].nodeName = placed[pod[k].uid]
    /\ \A u \in UIDs \ born : placed[u] = ""
    /\ observed # Nil =>
          observed.transition.chosenNode \in {"", placed[observed.identity.uid]}

PlacementInv == Inv /\ NodesKnown /\ ChosenNodeIsPlacement

\* A UID is bound at most once.
LEMMA BoundOnce ==
    ASSUME TypeOK, NodesKnown, Environment
    PROVE  \A u \in UIDs : placed'[u] = placed[u] \/ placed[u] = ""
  <1>1. CASE UNCHANGED placed
    BY <1>1
  <1>2. ASSUME NEW k \in Names, NEW n, NEW lag, PodBound(k, n, lag)
        PROVE  \A u \in UIDs : placed'[u] = placed[u] \/ placed[u] = ""
    <2>1. placed \in [UIDs -> Text] /\ pod[k].nodeName = placed[pod[k].uid]
      BY <1>2 DEF TypeOK, ClusterTypeOK, NodesKnown, PodBound
    <2> QED
      BY <1>2, <2>1 DEF PodBound
  <1>3. ASSUME ~UNCHANGED placed
        PROVE  \E k \in Names, n \in Nodes, lag \in Lags : PodBound(k, n, lag)
    <2>1. ASSUME NEW k, NEW m, NEW lag, NEW u, NEW c,
                 \/ PodAdded(u, c) \/ PodUnschedulable(k, m, lag)
                 \/ PodDeleted(k) \/ PodTouched(k) \/ Tick
          PROVE  UNCHANGED placed
      BY <2>1, Zenon
         DEF PodAdded, PodUnschedulable, PodDeleted, PodTouched, Tick, cluster
    <2>2. ASSUME NEW i, NEW u, NEW reason, NEW m, NEW clock, NEW lag, NEW e,
                 \/ EventAdded(i, u, reason, m, clock, lag)
                 \/ EventRepeated(e) \/ EventExpired(e)
          PROVE  UNCHANGED placed
      BY <2>2, Zenon DEF EventAdded, EventRepeated, EventExpired
    <2> QED
      BY <1>3, <2>1, <2>2, Zenon DEF Environment
  <1> QED
    BY <1>1, <1>2, <1>3

\* The manager's own steps leave Pods and bindings alone.
LEMMA ClusterKept ==
    ASSUME [Next]_vars, ~Environment
    PROVE  UNCHANGED cluster
  BY DEF vars, Next, ListEvents, Work, GetPod, GetDecision, CreateDecision,
         FetchDecision, UpdateStatus, Faults, ReadFails, WriteFails,
         WriteReplyLost, Restart, CacheAdvance

LEMMA NodesManager ==
    ASSUME Inv, NodesKnown, [Next]_vars, ~Environment
    PROVE  NodesKnown'
  <1>0. /\ TypeOK /\ ClusterTypeOK /\ WorkerTypeOK /\ now \in Nat
        /\ UNCHANGED <<pod, born, placed>>
    BY ClusterKept DEF Inv, TypeOK, ClusterTypeOK, cluster
  <1>1. ASSUME \/ observed' \in {Nil, observed}
               \/ observed'.transition.chosenNode
                    \in {"", placed[observed'.identity.uid]}
        PROVE  NodesKnown'
    BY <1>0, <1>1 DEF NodesKnown
  <1>2. CASE GetPod
    <2>1. CASE Done
      BY <1>1, <2>1 DEF Done, Release, Locals
    <2>2. ASSUME NEW o \in deriveTransition(pod[key], listed, now),
                 Locals(key, {}, o, Nil, 0, 0)
          PROVE  NodesKnown'
      <3>1. /\ pod[key] \in Pod \cup {Nil} /\ listed \in SUBSET Event
            /\ key \in Names
        BY <1>0, <1>2 DEF GetPod, WorkerTypeOK, ClusterTypeOK
      <3>2. \/ o.transition.chosenNode = ""
            \/ /\ pod[key] \in Pod
               /\ o.identity.uid = pod[key].uid
               /\ o.transition.chosenNode = pod[key].nodeName
        BY <1>0, <3>1, DerivedNode
      <3>3. o.transition.chosenNode \in {"", placed[o.identity.uid]}
        BY <3>1, <3>2, NilAssumption DEF NodesKnown
      <3> QED
        BY <1>1, <2>2, <3>3 DEF Locals
    <2> QED
      BY <1>2, <2>1, <2>2 DEF GetPod
  <1>3. CASE ~GetPod
    <2>1. observed' \in {Nil, observed}
      BY <1>3 DEF vars, locals, Next, ListEvents, Work, GetDecision,
                  CreateDecision, FetchDecision, UpdateStatus, Retry, Faults,
                  ReadFails, WriteFails, WriteReplyLost, Restart, CacheAdvance,
                  Requeue, Done, Release, Locals
    <2> QED
      BY <1>1, <2>1
  <1> QED
    BY <1>2, <1>3

LEMMA NodesEnvironment ==
    ASSUME Inv, NodesKnown, Environment
    PROVE  NodesKnown'
  <1>0. /\ ClusterTypeOK /\ pod \in [Names -> Pod \cup {Nil}]
        /\ placed \in [UIDs -> Text] /\ born \subseteq UIDs
    BY DEF Inv, TypeOK, ClusterTypeOK
  <1>1. observed' = observed
    BY OutsideOfManager DEF locals
  <1>2. observed # Nil =>
          observed.transition.chosenNode \in {"", placed'[observed.identity.uid]}
    <2>1. observed # Nil => observed.identity.uid \in UIDs
      BY ObservationParts DEF Inv, TypeOK, WorkerTypeOK
    <2> QED
      BY <2>1, BoundOnce DEF Inv, NodesKnown
  <1>3. ASSUME UNCHANGED <<born, placed>>,
               \A k \in Names : \/ pod'[k] \in {pod[k], Nil}
                                \/ /\ pod[k] # Nil
                                   /\ pod'[k].uid = pod[k].uid
                                   /\ pod'[k].nodeName = pod[k].nodeName
        PROVE  NodesKnown'
    BY <1>1, <1>3 DEF NodesKnown
  <1>4. CASE UNCHANGED <<pod, born, placed>>
    BY <1>3, <1>4
  <1>5. ASSUME NEW u \in UIDs, NEW c, PodAdded(u, c)
        PROVE  NodesKnown'
    <2>1. NameOf[u] \in Names /\ UNCHANGED placed /\ born' = born \cup {u}
      BY <1>5, ClusterAssumption DEF PodAdded
    <2>2. PICK p : /\ pod' = [pod EXCEPT ![NameOf[u]] = p]
                   /\ p.uid = u /\ p.nodeName = ""
      <3> DEFINE p == [uid |-> u, name |-> NameOf[u],
                       schedulerName |-> "default-scheduler",
                       creationTimestamp |-> WholeSecond(now), nodeName |-> "",
                       condition |-> FirstCondition(c)]
      <3>1. pod' = [pod EXCEPT ![NameOf[u]] = p]
        BY <1>5, Zenon DEF PodAdded
      <3>2. p.uid = u /\ p.nodeName = ""
        OBVIOUS
      <3> QED
        BY <3>1, <3>2, Zenon
    <2>3. placed[u] = ""
      BY <1>5 DEF PodAdded, NodesKnown
    <2> QED
      BY <1>0, <1>1, <1>2, <2>1, <2>2, <2>3 DEF NodesKnown
  <1>6. ASSUME NEW k \in Names, NEW m, NEW lag, PodUnschedulable(k, m, lag)
        PROVE  NodesKnown'
    <2>1. PICK c : pod' = [pod EXCEPT ![k].condition = c]
      BY <1>6 DEF PodUnschedulable
    <2>2. pod[k] \in Pod
      BY <1>0, <1>6 DEF PodUnschedulable
    <2>3. /\ pod'[k].uid = pod[k].uid /\ pod'[k].nodeName = pod[k].nodeName
          /\ \A j \in Names \ {k} : pod'[j] = pod[j]
      BY <1>0, <2>1, <2>2 DEF Pod
    <2> QED
      BY <1>3, <1>6, <2>3 DEF PodUnschedulable
  <1>7. ASSUME NEW k \in Names, NEW n, NEW lag, PodBound(k, n, lag)
        PROVE  NodesKnown'
    <2>1. pod[k] \in Pod /\ pod[k].uid \in UIDs
      BY <1>0, <1>7 DEF PodBound, Pod
    <2>2. PICK c : pod' = [pod EXCEPT ![k] = [pod[k] EXCEPT !.nodeName = n,
                                                            !.condition = c]]
      BY <1>0, <1>7 DEF PodBound
    <2>3. /\ pod'[k].uid = pod[k].uid /\ pod'[k].nodeName = n
          /\ \A j \in Names \ {k} : pod'[j] = pod[j]
      BY <1>0, <2>1, <2>2 DEF Pod
    <2>4. /\ placed'[pod[k].uid] = n /\ born' = born
          /\ \A u \in UIDs \ {pod[k].uid} : placed'[u] = placed[u]
      BY <1>0, <1>7, <2>1 DEF PodBound
    <2>5. \A j \in Names \ {k} : pod[j] # Nil =>
             pod[j].uid \in UIDs \ {pod[k].uid}
      BY <1>0, <1>7 DEF PodBound, NodesKnown
    <2>6. pod[k].uid \in born
      BY <1>7 DEF PodBound, NodesKnown
    <2>7. \A j \in Names : pod'[j] # Nil =>
             /\ pod'[j].uid \in born' /\ NameOf[pod'[j].uid] = j
             /\ pod'[j].nodeName = placed'[pod'[j].uid]
      <3> SUFFICES ASSUME NEW j \in Names, pod'[j] # Nil
                   PROVE  /\ pod'[j].uid \in born' /\ NameOf[pod'[j].uid] = j
                          /\ pod'[j].nodeName = placed'[pod'[j].uid]
        OBVIOUS
      <3>1. CASE j = k
        BY <1>7, <2>3, <2>4, <2>6, <3>1 DEF PodBound, NodesKnown
      <3>2. CASE j # k
        <4>1. pod'[j] = pod[j] /\ pod[j].uid \in UIDs \ {pod[k].uid}
          BY <2>3, <2>5, <3>2
        <4>2. /\ pod[j].uid \in born /\ NameOf[pod[j].uid] = j
              /\ pod[j].nodeName = placed[pod[j].uid]
          BY <4>1 DEF NodesKnown
        <4> QED
          BY <2>4, <4>1, <4>2
      <3> QED
        BY <3>1, <3>2
    <2>8. \A u \in UIDs \ born' : placed'[u] = ""
      BY <2>4, <2>6 DEF NodesKnown
    <2> QED
      BY <1>1, <1>2, <2>7, <2>8 DEF NodesKnown
  <1>8. ASSUME NEW k \in Names, PodDeleted(k)
        PROVE  NodesKnown'
    BY <1>0, <1>3, <1>8 DEF PodDeleted
  <1>9. ASSUME NEW k, PodTouched(k) \/ Tick
        PROVE  UNCHANGED <<pod, born, placed>>
    BY <1>9 DEF PodTouched, Tick, cluster
  <1>10. ASSUME NEW i, NEW u, NEW reason, NEW m, NEW clock, NEW lag, NEW e,
                \/ EventAdded(i, u, reason, m, clock, lag)
                \/ EventRepeated(e) \/ EventExpired(e)
         PROVE  UNCHANGED <<pod, born, placed>>
    BY <1>10, Zenon DEF EventAdded, EventRepeated, EventExpired
  <1> QED
    BY <1>4, <1>5, <1>6, <1>7, <1>8, <1>9, <1>10, Zenon DEF Environment

LEMMA PlacementStep ==
    ASSUME PlacementInv, [Next]_vars
    PROVE  ChosenNodeIsPlacement'
  <1>0. Inv /\ TypeOK /\ StoreTypeOK /\ WorkerTypeOK /\ NodesKnown
    BY DEF PlacementInv, Inv, TypeOK
  <1>1. \A u \in UIDs : placed'[u] = placed[u] \/ placed[u] = ""
    BY <1>0, BoundOnce, ClusterKept DEF cluster
  <1>2. ASSUME NEW v \in UIDs, Current(v) # Nil,
               NEW i \in 1 .. Len(Current(v).status.transitions)
        PROVE  Current(v).status.transitions[i].chosenNode \in {"", placed'[v]}
    <2>1. Current(v).status.transitions[i].chosenNode \in {"", placed[v]}
      BY <1>2 DEF PlacementInv, ChosenNodeIsPlacement, History
    <2> QED
      BY <1>1, <2>1
  <1>3. CASE log' = log
    <2>1. \A v \in UIDs : Current(v)' = Current(v)
      BY <1>3 DEF Current, Version
    <2> QED
      BY <1>2, <2>1 DEF ChosenNodeIsPlacement, History
  <1>4. ASSUME pc = "create", NEW u, u = observed.identity.uid,
               log' = [log EXCEPT ![u] = Append(@, draft)]
        PROVE  ChosenNodeIsPlacement'
    <2>1. u \in UIDs /\ draft \in SchedulingDecision
      BY <1>0, <1>4, ObservationParts DEF WorkerTypeOK
    <2>2. /\ Current(u)' = draft
          /\ \A v \in UIDs \ {u} : Current(v)' = Current(v)
      BY <1>0, <1>4, <2>1, AfterAppend
    <2>3. Len(draft.status.transitions) = 0
      BY <1>0, <1>4, NewHasNoHistory DEF Inv
    <2> SUFFICES ASSUME NEW v \in UIDs, Current(v)' # Nil,
                        NEW i \in 1 .. Len(Current(v)'.status.transitions)
                 PROVE  Current(v)'.status.transitions[i].chosenNode
                          \in {"", placed'[v]}
      BY DEF ChosenNodeIsPlacement, History
    <2>4. v # u
      BY <2>2, <2>3
    <2>5. Current(v)' = Current(v)
      BY <2>2, <2>4
    <2> QED
      BY <1>2, <2>5, Zenon
  <1>5. ASSUME pc = "update", NEW u, u = observed.identity.uid,
               Accepts(u), ServerUpdate(u)
        PROVE  ChosenNodeIsPlacement'
    <2>1. PICK t : t = StoredTransition(observed.transition)
      OBVIOUS
    <2>2. /\ u \in UIDs /\ Current(u) \in SchedulingDecision
          /\ t \in SchedulingTransition
          /\ Current(u)' = [Current(u) EXCEPT !.status = applyTransition(@, t)]
          /\ \A v \in UIDs \ {u} : Current(v)' = Current(v)
      BY <1>0, <1>5, <2>1, AcceptedUpdate
    <2>3. PICK d \in SchedulingDecision : d = Current(u)
      BY <2>2
    <2>4. PICK e : e = [d EXCEPT !.status = applyTransition(@, t)]
      OBVIOUS
    <2>5. /\ Len(d.status.transitions) \in Nat
          /\ Len(e.status.transitions) = Len(d.status.transitions) + 1
          /\ \A i \in 1 .. Len(d.status.transitions) :
                e.status.transitions[i] = d.status.transitions[i]
          /\ e.status.transitions[Len(d.status.transitions) + 1] = t
      BY <2>2, <2>4, AppliedHistory
    <2>6. t.chosenNode \in {"", placed'[u]}
      <3>1. observed \in Observation /\ observed.transition \in SchedulingTransition
        BY <1>0, <1>5, ObservationParts DEF WorkerTypeOK
      <3>2. t.chosenNode = observed.transition.chosenNode
        BY <2>1, <3>1 DEF StoredTransition, SchedulingTransition
      <3>3. observed.transition.chosenNode \in {"", placed[u]}
        BY <1>0, <1>5, <3>1, NilAssumption DEF NodesKnown
      <3> QED
        BY <1>1, <2>2, <3>2, <3>3
    <2>7. \A i \in 1 .. Len(d.status.transitions) :
             d.status.transitions[i].chosenNode \in {"", placed'[u]}
      BY <1>2, <2>2, <2>3, NilAssumption
    <2>8. \A i \in 1 .. Len(e.status.transitions) :
             e.status.transitions[i].chosenNode \in {"", placed'[u]}
      <3> SUFFICES ASSUME NEW i \in 1 .. Len(e.status.transitions)
                   PROVE  e.status.transitions[i].chosenNode \in {"", placed'[u]}
        OBVIOUS
      <3>1. CASE i = Len(d.status.transitions) + 1
        BY <2>5, <2>6, <3>1
      <3>2. CASE i \in 1 .. Len(d.status.transitions)
        BY <2>5, <2>7, <3>2
      <3>3. PICK n \in Nat : n = Len(d.status.transitions)
        BY <2>5
      <3>4. i = n + 1 \/ i \in 1 .. n
        BY <2>5, <3>3
      <3> QED
        BY <3>1, <3>2, <3>3, <3>4, Zenon
    <2>9. Current(u)' = e
      BY <2>2, <2>3, <2>4
    <2> SUFFICES ASSUME NEW v \in UIDs, Current(v)' # Nil,
                        NEW i \in 1 .. Len(Current(v)'.status.transitions)
                 PROVE  Current(v)'.status.transitions[i].chosenNode
                          \in {"", placed'[v]}
      BY DEF ChosenNodeIsPlacement, History
    <2>10. CASE v = u
      BY <2>8, <2>9, <2>10
    <2>11. CASE v # u
      BY <1>2, <2>2, <2>11
    <2> QED
      BY <2>10, <2>11
  <1> QED
    BY <1>0, <1>3, <1>4, <1>5, LogStep

LEMMA PlacementInit == Init => PlacementInv
  <1> SUFFICES ASSUME Init
               PROVE  PlacementInv
    OBVIOUS
  <1>1. /\ observed = Nil /\ \A k \in Names : pod[k] = Nil
        /\ \A u \in UIDs : placed[u] = ""
    BY Zenon DEF Init, Start
  <1>2. \A u \in UIDs : Current(u) = Nil
    BY DEF Init, Current, Version
  <1> QED
    BY <1>1, <1>2, InvInit DEF PlacementInv, NodesKnown, ChosenNodeIsPlacement

\* A record never names a node its own Pod was not bound to, whatever Pods of
\* the same name come and go, in whatever order the Pod and Event watches and
\* the worker move (identityFromPod, transitionFromScheduled).
THEOREM Placement == Spec => []ChosenNodeIsPlacement
  <1>1. PlacementInv /\ [Next]_vars => PlacementInv'
    BY InvStep, NodesManager, NodesEnvironment, PlacementStep DEF PlacementInv
  <1>2. PlacementInv => ChosenNodeIsPlacement
    BY DEF PlacementInv
  <1> QED
    BY <1>1, <1>2, PlacementInit, PTL DEF Spec

-----------------------------------------------------------------------------
(* A reconcile that succeeds has recorded what it observed. *)

\* Every version of a record, and so any the cache can hold, has a beginning of
\* the current history.
Begins(d, u) ==
    /\ d # Nil
    /\ Len(d.status.transitions) <= Len(History(u))
    /\ \A i \in 1 .. Len(d.status.transitions) :
          History(u)[i] = d.status.transitions[i]

VersionsArePrefixes ==
    \A u \in UIDs : \A n \in 1 .. Len(log[u]) : Begins(log[u][n], u)

LEMMA PrefixesInit == Init => VersionsArePrefixes
  <1> SUFFICES ASSUME Init
               PROVE  VersionsArePrefixes
    OBVIOUS
  <1>1. \A u \in UIDs : log[u] = <<>>
    BY Zenon DEF Init
  <1>2. \A u \in UIDs : Len(log[u]) = 0
    BY <1>1
  <1> QED
    BY <1>2 DEF VersionsArePrefixes

\* A history and its length, as numbers can be reasoned about.
LEMMA HistoryLength ==
    ASSUME NEW d \in SchedulingDecision
    PROVE  Len(d.status.transitions) \in Nat
  BY LenProperties DEF SchedulingDecision, SchedulingDecisionStatus

LEMMA LastVersion ==
    ASSUME StoreTypeOK, VersionsArePrefixes, NEW u \in UIDs,
           NEW n \in 1 .. Len(log[u])
    PROVE  Current(u) # Nil
  <1>1. Len(log[u]) \in 1 .. Len(log[u])
    BY CachedType
  <1>2. Begins(log[u][Len(log[u])], u)
    BY <1>1 DEF VersionsArePrefixes
  <1> QED
    BY <1>1, <1>2 DEF Begins, Current, Version

LEMMA PrefixesStep ==
    ASSUME Inv, VersionsArePrefixes, [Next]_vars
    PROVE  VersionsArePrefixes'
  <1>0. TypeOK /\ StoreTypeOK /\ WorkerTypeOK
    BY DEF Inv, TypeOK
  <1>1. CASE log' = log
    BY <1>1 DEF VersionsArePrefixes, Begins, History, Current, Version
  <1>2. ASSUME NEW u \in UIDs, NEW d \in SchedulingDecision,
               log' = [log EXCEPT ![u] = Append(@, d)],
               Current(u) = Nil \/ Extends(u)
        PROVE  VersionsArePrefixes'
    <2>1. /\ Current(u)' = d /\ d # Nil
          /\ \A v \in UIDs \ {u} : Current(v)' = Current(v) /\ log'[v] = log[v]
          /\ Len(log[u]) \in Nat /\ Len(log'[u]) = Len(log[u]) + 1
          /\ \A n \in 1 .. Len(log[u]) : log'[u][n] = log[u][n]
          /\ log'[u][Len(log[u]) + 1] = d
      <3>1. log[u] \in Seq(SchedulingDecision \cup {Nil})
        BY <1>0 DEF StoreTypeOK
      <3>2. log'[u] = Append(log[u], d) /\ \A v \in UIDs \ {u} : log'[v] = log[v]
        BY <1>0, <1>2 DEF StoreTypeOK
      <3>3. /\ Current(u)' = d
            /\ \A v \in UIDs \ {u} : Current(v)' = Current(v)
            /\ Len(log[u]) \in Nat
            /\ \A n \in 1 .. Len(log[u]) : log'[u][n] = log[u][n]
        BY <1>0, <1>2, AfterAppend
      <3>4. Len(log'[u]) = Len(log[u]) + 1 /\ log'[u][Len(log[u]) + 1] = d
        BY <3>1, <3>2, AppendProperties
      <3> QED
        BY <3>2, <3>3, <3>4, NilAssumption
    <2>2. ASSUME NEW v \in UIDs \ {u}, NEW n \in 1 .. Len(log'[v])
          PROVE  Begins(log[v][n], v)'
      <3>1. Begins(log[v][n], v)
        BY <2>1, <2>2 DEF VersionsArePrefixes
      <3> QED
        BY <2>1, <3>1 DEF Begins, History
    <2>3. ASSUME NEW n \in 1 .. Len(log[u])
          PROVE  Begins(log[u][n], u)'
      <3>1. Current(u) # Nil
        BY <1>0, <2>3, LastVersion
      <3>2. PICK x : x = log[u][n]
        OBVIOUS
      <3>3. /\ x # Nil /\ Len(x.status.transitions) <= Len(History(u))
            /\ \A i \in 1 .. Len(x.status.transitions) :
                  History(u)[i] = x.status.transitions[i]
        <4>1. Begins(x, u)
          BY <2>3, <3>2 DEF VersionsArePrefixes
        <4> QED
          BY <4>1 DEF Begins
      <3>4. /\ Len(History(u)) <= Len(History(u)')
            /\ \A i \in 1 .. Len(History(u)) : History(u)'[i] = History(u)[i]
        BY <1>2, <3>1 DEF Extends
      <3>5. /\ Len(x.status.transitions) \in Nat /\ Len(History(u)) \in Nat
            /\ Len(History(u)') \in Nat
        <4>1. x \in SchedulingDecision
          BY <1>0, <3>2, <3>3, ElementOfSeq DEF StoreTypeOK
        <4>2. Current(u) \in SchedulingDecision
          BY <1>0, <3>1, CachedType
        <4> QED
          BY <2>1, <4>1, <4>2, HistoryLength DEF History
      <3>6. \A i \in 1 .. Len(x.status.transitions) :
               History(u)'[i] = x.status.transitions[i]
        <4> SUFFICES ASSUME NEW i \in 1 .. Len(x.status.transitions)
                     PROVE  History(u)'[i] = x.status.transitions[i]
          OBVIOUS
        <4>1. PICK m \in Nat, n2 \in Nat :
                 m = Len(x.status.transitions) /\ n2 = Len(History(u))
          BY <3>5
        <4>2. i \in 1 .. n2
          BY <3>3, <4>1
        <4> QED
          BY <3>3, <3>4, <4>1, <4>2, Zenon
      <3>7. Len(x.status.transitions) <= Len(History(u)')
        <4>1. \A a, b, c \in Nat : a <= b /\ b <= c => a <= c
          OBVIOUS
        <4> QED
          BY <3>3, <3>4, <3>5, <4>1, Zenon
      <3>8. log'[u][n] = x
        BY <2>1, <2>3, <3>2, Zenon
      <3> QED
        BY <3>3, <3>6, <3>7, <3>8, Zenon DEF Begins
    <2>4. History(u)' = d.status.transitions /\ Len(d.status.transitions) \in Nat
      BY <2>1, HistoryLength DEF History
    <2> SUFFICES ASSUME NEW v \in UIDs, NEW n \in 1 .. Len(log'[v])
                 PROVE  Begins(log[v][n], v)'
      BY DEF VersionsArePrefixes
    <2>5. CASE v = u /\ n = Len(log[u]) + 1
      BY <2>1, <2>4, <2>5 DEF Begins
    <2>6. CASE v = u /\ n \in 1 .. Len(log[u])
      BY <2>3, <2>6, Zenon
    <2>7. CASE v # u
      BY <2>2, <2>7
    <2>8. v = u => n = Len(log[u]) + 1 \/ n \in 1 .. Len(log[u])
      BY <2>1
    <2> QED
      BY <2>5, <2>6, <2>7, <2>8, Zenon
  <1>3. ASSUME pc = "create", NEW u, u = observed.identity.uid,
               Current(u) = Nil, log' = [log EXCEPT ![u] = Append(@, draft)]
        PROVE  VersionsArePrefixes'
    BY <1>0, <1>2, <1>3, ObservationParts DEF WorkerTypeOK
  <1>4. ASSUME pc = "update", NEW u, u = observed.identity.uid,
               Accepts(u), ServerUpdate(u)
        PROVE  VersionsArePrefixes'
    <2>1. PICK t : t = StoredTransition(observed.transition)
      OBVIOUS
    <2>2. /\ u \in UIDs /\ Current(u) \in SchedulingDecision
          /\ t \in SchedulingTransition
          /\ Current(u)' = [Current(u) EXCEPT !.status = applyTransition(@, t)]
      BY <1>4, <2>1, AcceptedUpdate
    <2>3. Current(u)' \in SchedulingDecision
      BY <2>2, AppliedHistory
    <2>4. PICK d : log' = [log EXCEPT ![u] = Append(@, d)]
      BY <1>4 DEF ServerUpdate
    <2>5. Current(u)' = d
      <3>1. log[u] \in Seq(SchedulingDecision \cup {Nil}) /\ Len(log[u]) \in Nat
        BY <1>0, <2>2, LenProperties DEF StoreTypeOK
      <3>2. log'[u] = Append(log[u], d)
        BY <1>0, <2>2, <2>4 DEF StoreTypeOK
      <3>3. Len(log'[u]) = Len(log[u]) + 1 /\ log'[u][Len(log[u]) + 1] = d
        BY <3>1, <3>2
      <3> QED
        BY <3>1, <3>3 DEF Current, Version
    <2>6. Extends(u)
      BY <2>2, <2>3, AppendOnlyStep, NilAssumption
    <2> QED
      BY <1>2, <2>2, <2>3, <2>4, <2>5, <2>6
  <1> QED
    BY <1>0, <1>1, <1>3, <1>4, LogStep

\* A transition equal to a stored one is stored as that one.
LEMMA EqualToStored ==
    ASSUME NEW s \in SchedulingTransition, NEW t \in SchedulingTransition,
           StoredTransition(s) = s, transitionsEqual(s, t)
    PROVE  transitionsEqual(s, StoredTransition(t))
  <1>1. s.decisionTimestamp = WholeSecond(s.decisionTimestamp)
    BY DEF StoredTransition, SchedulingTransition
  <1>2. /\ StoredTransition(t).outcome = t.outcome
        /\ StoredTransition(t).chosenNode = t.chosenNode
        /\ StoredTransition(t).reasonSummary = t.reasonSummary
        /\ StoredTransition(t).decisionTimestamp = WholeSecond(t.decisionTimestamp)
    BY DEF StoredTransition, SchedulingTransition
  <1> QED
    BY <1>1, <1>2 DEF transitionsEqual

LEMMA SuccessStep ==
    ASSUME Inv, VersionsArePrefixes, FetchDecision \/ UpdateStatus,
           pc' = "idle", key \notin queue', NEW o, o = observed
    PROVE  InHistory(o.identity.uid, o.transition)'
  <1> DEFINE u == o.identity.uid
             t == o.transition
  <1>0. /\ TypeOK /\ StoreTypeOK
        /\ u \in UIDs /\ t \in SchedulingTransition
    BY ObservationParts
       DEF Inv, TypeOK, WorkerTypeOK, FetchDecision, UpdateStatus
  <1>1. ~Retry
    BY DEF Retry, Requeue, Enqueue
  <1>2. CASE FetchDecision
    <2>1. /\ Cached(u) # Nil /\ AlreadyLast(Cached(u).status, t)
          /\ log' = log
      BY <1>1, <1>2 DEF FetchDecision, store
    <2>2. PICK n \in 1 .. Len(log[u]) : n = seen[u] /\ Cached(u) = log[u][n]
      BY <1>0, <2>1, CachedType DEF Cached, Version
    <2>3. PICK d \in SchedulingDecision : d = Cached(u)
      BY <1>0, <2>1, CachedType
    <2>4. PICK m : m = Len(d.status.transitions)
      OBVIOUS
    <2>5. m \in Nat /\ m > 0 /\ transitionsEqual(d.status.transitions[m], t)
      BY <2>1, <2>3, <2>4, HistoryLength DEF AlreadyLast
    <2>6. /\ m <= Len(History(u))
          /\ History(u)[m] = d.status.transitions[m]
      <3>1. Begins(d, u)
        BY <1>0, <2>2, <2>3 DEF VersionsArePrefixes
      <3> QED
        BY <2>4, <2>5, <3>1 DEF Begins
    <2>7. Current(u) \in SchedulingDecision
      BY <1>0, <2>2, CachedType, LastVersion
    <2>8. m \in 1 .. Len(History(u)) /\ Len(History(u)) \in Nat
      BY <2>5, <2>6, <2>7, HistoryLength DEF History
    <2>9. PICK s : s = History(u)[m]
      OBVIOUS
    <2>10. s \in SchedulingTransition /\ StoredTransition(s) = s
      <3>1. History(u) \in Seq(SchedulingTransition)
        BY <2>7 DEF History, SchedulingDecision, SchedulingDecisionStatus
      <3> QED
        BY <1>0, <2>7, <2>8, <2>9, <3>1, NilAssumption, ElementOfSeq
           DEF Inv, StoredInSeconds
    <2>11. transitionsEqual(s, StoredTransition(t))
      BY <1>0, <2>5, <2>6, <2>9, <2>10, EqualToStored
    <2>12. Current(u)' = Current(u) /\ History(u)' = History(u)
      BY <2>1 DEF Current, Version, History
    <2> QED
      BY <2>7, <2>8, <2>9, <2>11, <2>12, NilAssumption DEF InHistory
  <1>3. CASE UpdateStatus
    <2>1. pc = "update" /\ Accepts(u) /\ ServerUpdate(u)
      BY <1>1, <1>3 DEF UpdateStatus
    <2>2. PICK s : s = StoredTransition(t)
      OBVIOUS
    <2>3. /\ Current(u) \in SchedulingDecision /\ s \in SchedulingTransition
          /\ Current(u)' = [Current(u) EXCEPT !.status = applyTransition(@, s)]
      BY <2>1, <2>2, AcceptedUpdate
    <2>4. PICK d \in SchedulingDecision : d = Current(u)
      BY <2>3
    <2>5. PICK e : e = [d EXCEPT !.status = applyTransition(@, s)]
      OBVIOUS
    <2>6. /\ e \in SchedulingDecision
          /\ Len(d.status.transitions) \in Nat
          /\ Len(e.status.transitions) = Len(d.status.transitions) + 1
          /\ e.status.transitions[Len(d.status.transitions) + 1] = s
      BY <2>3, <2>5, AppliedHistory
    <2>7. Current(u)' = e /\ e # Nil
      BY <2>3, <2>4, <2>5, <2>6, NilAssumption
    <2>8. Len(d.status.transitions) + 1 \in 1 .. Len(e.status.transitions)
      BY <2>6
    <2>9. transitionsEqual(s, StoredTransition(t))
      BY <2>2 DEF transitionsEqual
    <2> QED
      BY <2>6, <2>7, <2>8, <2>9 DEF InHistory, History
  <1> QED
    BY <1>2, <1>3

\* A reconcile that ends without an error and is not to be run again has its
\* observation in the record at the API server, also when it was decided from
\* a stale copy that nothing had to be written: what a copy has, the record has
\* (ensureDecisionCreated, appendTransitionWithRetry).
THEOREM Success == Spec => SuccessMeansRecorded
  <1>1. Init => Inv /\ VersionsArePrefixes
    BY InvInit, PrefixesInit
  <1>2. Inv /\ VersionsArePrefixes /\ [Next]_vars => (Inv /\ VersionsArePrefixes)'
    BY InvStep, PrefixesStep
  <1>3. Inv /\ VersionsArePrefixes /\ [Next]_vars =>
          [ (FetchDecision \/ UpdateStatus) /\ pc' = "idle" /\ key \notin queue'
              => \A o \in {observed} :
                    InHistory(o.identity.uid, o.transition)' ]_vars
    BY SuccessStep
  <1> QED
    BY <1>1, <1>2, <1>3, PTL DEF Spec, SuccessMeansRecorded

-----------------------------------------------------------------------------
(* Where every Event carries its time in whole seconds, no history repeats   *)
(* its last transition and the records behave as AuditLog says.  The         *)
(* assumption is needed: an update is decided by comparing the observed      *)
(* transition with the stored one, and only a timestamp in whole seconds is  *)
(* stored as it was observed.  ObservedInSeconds carries it from the caches  *)
(* to the worker.                                                            *)

SecondsInv == Inv /\ ObservedInSeconds

-----------------------------------------------------------------------------
LEMMA LaterThanFirstSecond ==
    \A t \in Nat : t >= TicksPerSecond => WholeSecond(t) # 0
  <1>1. \A t \in Nat : t % TicksPerSecond \in 0 .. TicksPerSecond - 1
    BY TicksAssumption, SMT
  <1> QED
    BY <1>1, TicksAssumption DEF WholeSecond

\* Times the watches deliver are whole seconds, and not Go's zero time.
LEMMA StampInSeconds ==
    ASSUME now \in Nat, NEW lag \in Nat, lag + TicksPerSecond <= now
    PROVE  StampOf(lag) # 0 /\ InSeconds(StampOf(lag))
  <1>1. now - lag \in Nat /\ now - lag >= TicksPerSecond
    BY TicksAssumption
  <1> QED
    BY <1>1, LaterThanFirstSecond, WholeSecondFacts DEF StampOf, InSeconds

\* What ObservedInSeconds asks of a Pod.
PodInSeconds(p) ==
    p # Nil => LET cond == p.condition
               IN  cond # Nil => /\ cond.lastTransitionTime # 0
                                 /\ InSeconds(cond.lastTransitionTime)

LEMMA ObservedInit == Start => ObservedInSeconds
  <1> SUFFICES ASSUME Start
               PROVE  ObservedInSeconds
    OBVIOUS
  <1>1. /\ now = TicksPerSecond /\ events = {} /\ listed = {} /\ observed = Nil
        /\ \A k \in Names : pod[k] = Nil
    BY Zenon DEF Start
  <1> QED
    BY <1>1, TicksAssumption DEF ObservedInSeconds

\* The manager's own steps.
LEMMA ObservedManager ==
    ASSUME SecondsInv,
           \/ \E k \in Names : ListEvents(k)
           \/ Work \/ Faults
           \/ \E u \in UIDs : CacheAdvance(u)
           \/ UNCHANGED vars
    PROVE  ObservedInSeconds'
  <1>0. /\ TypeOK /\ ClusterTypeOK /\ WorkerTypeOK /\ now \in Nat
        /\ ObservedInSeconds
    BY DEF SecondsInv, Inv, TypeOK, ClusterTypeOK
  <1>1. UNCHANGED <<now, pod, events>>
    BY DEF ListEvents, Work, GetPod, GetDecision, CreateDecision, FetchDecision,
           UpdateStatus, Faults, ReadFails, WriteFails, WriteReplyLost, Restart,
           CacheAdvance, vars, cluster
  <1>2. ASSUME listed' \subseteq events \cup listed,
               \/ observed' \in {Nil, observed}
               \/ InSeconds(observed'.transition.decisionTimestamp)
        PROVE  ObservedInSeconds'
    BY <1>0, <1>1, <1>2 DEF ObservedInSeconds
  <1>3. CASE \E k \in Names : ListEvents(k)
    BY <1>2, <1>3 DEF ListEvents, Locals, listRelevantEvents
  <1>4. CASE Work
    <2>1. CASE GetPod
      <3>1. CASE Done
        BY <1>2, <3>1 DEF Done, Release, Locals
      <3>2. CASE \E o \in deriveTransition(pod[key], listed, now) :
                    Locals(key, {}, o, Nil, 0, 0)
        <4>1. pod[key] \in Pod \cup {Nil} /\ listed \in SUBSET Event /\ key \in Names
          BY <1>0, <2>1 DEF GetPod, WorkerTypeOK, ClusterTypeOK
        <4>2. /\ pod[key] # Nil /\ pod[key].condition # Nil =>
                   /\ pod[key].condition.lastTransitionTime # 0
                   /\ pod[key].condition.lastTransitionTime
                        = WholeSecond(pod[key].condition.lastTransitionTime)
              /\ \A e \in listed : eventTimestamp(e) = WholeSecond(eventTimestamp(e))
          BY <1>0, <4>1 DEF ObservedInSeconds, InSeconds
        <4>3. \A o \in deriveTransition(pod[key], listed, now) :
                 InSeconds(o.transition.decisionTimestamp)
          BY <1>0, <4>1, <4>2, DeriveInSeconds DEF InSeconds
        <4> QED
          BY <1>2, <3>2, <4>3 DEF Locals
      <3> QED
        BY <2>1, <3>1, <3>2 DEF GetPod
    <2>2. CASE GetDecision \/ CreateDecision \/ FetchDecision \/ UpdateStatus
      <3>1. listed' = {} /\ observed' \in {Nil, observed}
        BY <2>2 DEF GetDecision, CreateDecision, FetchDecision, UpdateStatus,
                    Retry, Requeue, Done, Release, Locals
      <3> QED
        BY <1>2, <3>1
    <2> QED
      BY <1>4, <2>1, <2>2 DEF Work
  <1>5. CASE Faults
    BY <1>2, <1>5 DEF Faults, ReadFails, WriteFails, WriteReplyLost, Restart,
                      Requeue, Release, Locals
  <1>6. CASE \E u \in UIDs : CacheAdvance(u)
    BY <1>2, <1>6 DEF CacheAdvance, locals
  <1>7. CASE UNCHANGED vars
    BY <1>2, <1>7 DEF vars, locals
  <1> QED
    BY <1>3, <1>4, <1>5, <1>6, <1>7

\* The cluster's steps.
LEMMA ObservedEnvironment ==
    ASSUME SecondsInv, Environment, EventClocks \subseteq {"second"}
    PROVE  ObservedInSeconds'
  <1>0. /\ ClusterTypeOK /\ now \in Nat /\ ObservedInSeconds
        /\ now >= TicksPerSecond
        /\ WholeSecond(now) # 0 /\ InSeconds(WholeSecond(now))
    <2>1. ClusterTypeOK /\ now \in Nat /\ ObservedInSeconds /\ now >= TicksPerSecond
      BY DEF SecondsInv, Inv, TypeOK, ClusterTypeOK, ObservedInSeconds
    <2> QED
      BY <2>1, LaterThanFirstSecond, WholeSecondFacts DEF InSeconds
  <1>1. listed' = listed /\ observed' = observed
    BY OutsideOfManager DEF locals
  <1>2. ASSUME now' >= TicksPerSecond,
               \A k \in Names : pod'[k] = pod[k] \/ PodInSeconds(pod'[k]),
               \A e \in events' : e \in events \/ InSeconds(eventTimestamp(e))
        PROVE  ObservedInSeconds'
    BY <1>0, <1>1, <1>2 DEF ObservedInSeconds, PodInSeconds
  <1>3. CASE Tick
    BY <1>0, <1>2, <1>3, TicksAssumption DEF Tick, TimePasses
  <1>4. ASSUME NEW u \in UIDs, NEW c \in FirstConditions, PodAdded(u, c)
        PROVE  ObservedInSeconds'
    <2>1. FirstCondition(c) # Nil =>
            FirstCondition(c).lastTransitionTime = WholeSecond(now)
      BY DEF FirstCondition
    <2>2. \A k \in Names : pod'[k] = pod[k] \/ pod'[k].condition = FirstCondition(c)
      BY <1>0, <1>4 DEF PodAdded, ClusterTypeOK
    <2> QED
      BY <1>0, <1>2, <1>4, <2>1, <2>2 DEF PodAdded, Deliver, PodInSeconds
  <1>5. ASSUME NEW k \in Names, NEW m \in FailureMessages, NEW lag \in Lags,
               PodUnschedulable(k, m, lag)
        PROVE  ObservedInSeconds'
    <2>1. PICK since : /\ since # 0 /\ InSeconds(since)
                       /\ pod' = [pod EXCEPT ![k].condition =
                             [status |-> "False", reason |-> "Unschedulable",
                              message |-> m, lastTransitionTime |-> since]]
      <3>1. StampOf(lag) # 0 /\ InSeconds(StampOf(lag))
        BY <1>0, <1>5, StampInSeconds, ReconcilerAssumption DEF PodUnschedulable
      <3>2. pod[k].condition # Nil =>
              /\ pod[k].condition.lastTransitionTime # 0
              /\ InSeconds(pod[k].condition.lastTransitionTime)
        BY <1>0, <1>5 DEF PodUnschedulable, ObservedInSeconds
      <3> QED
        BY <1>5, <3>1, <3>2 DEF PodUnschedulable
    <2>2. \A j \in Names : j # k => pod'[j] = pod[j]
      BY <1>0, <2>1 DEF ClusterTypeOK
    <2>3. pod'[k].condition.lastTransitionTime = since
      <3>1. pod[k] \in Pod /\ pod \in [Names -> Pod \cup {Nil}]
        BY <1>0, <1>5 DEF PodUnschedulable, ClusterTypeOK
      <3> DEFINE c == [status |-> "False", reason |-> "Unschedulable",
                       message |-> m, lastTransitionTime |-> since]
      <3>2. c.lastTransitionTime = since
        OBVIOUS
      <3> HIDE DEF c
      <3>3. pod'[k] = [pod[k] EXCEPT !.condition = c]
        BY <2>1, <3>1 DEF c
      <3>4. [pod[k] EXCEPT !.condition = c].condition = c
        BY <3>1 DEF Pod
      <3> QED
        BY <3>2, <3>3, <3>4
    <2>4. PodInSeconds(pod'[k])
      BY <2>1, <2>3 DEF PodInSeconds
    <2> QED
      BY <1>0, <1>2, <1>5, <2>2, <2>4 DEF PodUnschedulable, Deliver
  <1>6. ASSUME NEW k \in Names, NEW n \in Nodes, NEW lag \in Lags,
               PodBound(k, n, lag)
        PROVE  ObservedInSeconds'
    <2>1. StampOf(lag) # 0 /\ InSeconds(StampOf(lag))
      BY <1>0, <1>6, StampInSeconds, ReconcilerAssumption DEF PodBound
    <2>2. \A j \in Names : j # k => pod'[j] = pod[j]
      BY <1>0, <1>6 DEF PodBound, ClusterTypeOK
    <2>3. pod'[k].condition.lastTransitionTime = StampOf(lag)
      BY <1>0, <1>6 DEF PodBound, ClusterTypeOK, Pod
    <2>4. PodInSeconds(pod'[k])
      BY <2>1, <2>3 DEF PodInSeconds
    <2> QED
      BY <1>0, <1>2, <1>6, <2>2, <2>4 DEF PodBound, Deliver
  <1>7. ASSUME NEW k \in Names, PodDeleted(k)
        PROVE  ObservedInSeconds'
    <2>1. \A j \in Names : pod'[j] = pod[j] \/ pod'[j] = Nil
      BY <1>0, <1>7 DEF PodDeleted, ClusterTypeOK
    <2> QED
      BY <1>0, <1>2, <1>7, <2>1 DEF PodDeleted, Deliver, PodInSeconds
  <1>8. ASSUME NEW k \in Names, PodTouched(k)
        PROVE  ObservedInSeconds'
    BY <1>0, <1>2, <1>8 DEF PodTouched, cluster
  <1>9. ASSUME NEW i \in EventIds, NEW u \in UIDs, NEW reason \in EventReasons,
               NEW m \in MessagesFor(reason), NEW clock \in EventClocks,
               NEW lag \in Lags, EventAdded(i, u, reason, m, clock, lag)
        PROVE  ObservedInSeconds'
    <2>1. StampOf(lag) # 0 /\ InSeconds(StampOf(lag))
      BY <1>0, <1>9, StampInSeconds, ReconcilerAssumption DEF EventAdded
    <2>2. PICK e : events' = events \cup {e} /\ e.lastTimestamp = StampOf(lag)
      <3> DEFINE e == [id |-> i, uid |-> u, name |-> NameOf[u], reason |-> reason,
                       message |-> m,
                       names |-> IF reason = "CandidateNodes" THEN Nodes ELSE {},
                       lastTimestamp |->
                          IF clock = "second" THEN StampOf(lag) ELSE 0,
                       eventTime |-> IF clock = "micro" THEN now - lag ELSE 0,
                       creationTimestamp |-> StampOf(lag),
                       reportingController |->
                          IF clock = "micro" THEN "default-scheduler" ELSE "",
                       component |-> "scheduler"]
      <3>1. events' = events \cup {e}
        BY <1>9, Zenon DEF EventAdded
      <3>2. clock = "second"
        OBVIOUS
      <3>3. e.lastTimestamp = StampOf(lag)
        BY <3>2
      <3> QED
        BY <3>1, <3>3, Zenon
    <2>3. eventTimestamp(e) = StampOf(lag)
      BY <2>1, <2>2 DEF eventTimestamp
    <2> QED
      BY <1>0, <1>2, <1>9, <2>1, <2>2, <2>3 DEF EventAdded, Deliver
  <1>10. ASSUME NEW e \in events, EventRepeated(e) \/ EventExpired(e)
         PROVE  ObservedInSeconds'
    <2>1. eventTimestamp([e EXCEPT !.lastTimestamp = WholeSecond(now)])
            = WholeSecond(now)
      BY <1>0 DEF eventTimestamp, ClusterTypeOK, Event
    <2> QED
      BY <1>0, <1>2, <1>10, <2>1 DEF EventRepeated, EventExpired, Deliver
  <1> QED
    BY <1>3, <1>4, <1>5, <1>6, <1>7, <1>8, <1>9, <1>10 DEF Environment

LEMMA SecondsStep ==
    ASSUME EventClocks \subseteq {"second"}
    PROVE  SecondsInv /\ [Next]_vars => SecondsInv'
  BY InvStep, ObservedManager, ObservedEnvironment DEF SecondsInv, Next

-----------------------------------------------------------------------------
(* No duplicates. *)

\* An observation in whole seconds is stored as it is.
LEMMA ObservedIsStored ==
    ASSUME NEW t \in SchedulingTransition, InSeconds(t.decisionTimestamp)
    PROVE  StoredTransition(t) = t
  BY DEF StoredTransition, SchedulingTransition, InSeconds

LEMMA NoDuplicatesStep ==
    ASSUME SecondsInv, NoAdjacentDuplicates, [Next]_vars
    PROVE  NoAdjacentDuplicates'
  <1>0. Inv /\ TypeOK /\ StoreTypeOK /\ WorkerTypeOK /\ ObservedInSeconds
    BY DEF SecondsInv, Inv, TypeOK
  <1>1. CASE log' = log
    BY <1>1 DEF NoAdjacentDuplicates, Current, Version, History
  <1>2. ASSUME pc = "create", NEW u, u = observed.identity.uid,
               log' = [log EXCEPT ![u] = Append(@, draft)]
        PROVE  NoAdjacentDuplicates'
    <2>1. u \in UIDs /\ draft \in SchedulingDecision
      BY <1>0, <1>2, ObservationParts DEF WorkerTypeOK
    <2>2. /\ Current(u)' = draft
          /\ \A v \in UIDs \ {u} : Current(v)' = Current(v)
      BY <1>0, <1>2, <2>1, AfterAppend
    <2>3. Len(draft.status.transitions) = 0
      BY <1>0, <1>2, NewHasNoHistory DEF Inv
    <2> QED
      BY <2>1, <2>2, <2>3 DEF NoAdjacentDuplicates, History
  <1>3. ASSUME pc = "update", NEW u, u = observed.identity.uid,
               Accepts(u), ServerUpdate(u)
        PROVE  NoAdjacentDuplicates'
    <2>1. PICK t : t = StoredTransition(observed.transition)
      OBVIOUS
    <2>2. /\ u \in UIDs /\ Current(u) \in SchedulingDecision
          /\ t \in SchedulingTransition
          /\ Current(u)' = [Current(u) EXCEPT !.status = applyTransition(@, t)]
          /\ \A v \in UIDs \ {u} : Current(v)' = Current(v)
      BY <1>0, <1>3, <2>1, AcceptedUpdate
    <2>3. PICK d \in SchedulingDecision : d = Current(u)
      BY <2>2
    <2>4. PICK e : e = [d EXCEPT !.status = applyTransition(@, t)]
      OBVIOUS
    <2> DEFINE old == d.status.transitions
               new == e.status.transitions
    <2>5. /\ Len(old) \in Nat /\ Len(new) = Len(old) + 1
          /\ \A i \in 1 .. Len(old) : new[i] = old[i]
          /\ new[Len(old) + 1] = t
      BY <2>2, <2>4, AppliedHistory
    <2>6. t = observed.transition
      <3>1. observed \in Observation /\ observed.transition \in SchedulingTransition
        BY <1>0, <1>3, ObservationParts DEF WorkerTypeOK
      <3>2. InSeconds(observed.transition.decisionTimestamp)
        BY <1>0, <3>1, NilAssumption DEF ObservedInSeconds
      <3> QED
        BY <2>1, <3>1, <3>2, ObservedIsStored
    <2>7. Len(old) > 0 => ~transitionsEqual(old[Len(old)], t)
      <3>1. d = log[u][base]
        BY <1>0, <1>3, <2>2, <2>3, CachedType
           DEF Accepts, Current, Version, Inv, DraftFollowsBase
      <3> QED
        BY <1>0, <1>3, <2>6, <3>1 DEF Inv, DraftFollowsBase, AlreadyLast
    <2>8. \A i \in 1 .. Len(old) - 1 : ~transitionsEqual(old[i], old[i + 1])
      BY <2>2, <2>3, NilAssumption DEF NoAdjacentDuplicates, History
    <2>9. \A i \in 1 .. Len(new) - 1 : ~transitionsEqual(new[i], new[i + 1])
      <3> SUFFICES ASSUME NEW i \in 1 .. Len(new) - 1
                   PROVE  ~transitionsEqual(new[i], new[i + 1])
        OBVIOUS
      <3> HIDE DEF old, new
      <3>1. CASE i = Len(old)
        BY <2>5, <2>7, <3>1
      <3>2. CASE i \in 1 .. Len(old) - 1
        <4>1. new[i] = old[i] /\ new[i + 1] = old[i + 1]
          BY <2>5, <3>2
        <4> QED
          BY <2>8, <3>2, <4>1
      <3> QED
        BY <2>5, <3>1, <3>2
    <2>10. Current(u)' = e
      BY <2>2, <2>3, <2>4
    <2> QED
      BY <2>2, <2>9, <2>10 DEF NoAdjacentDuplicates, History
  <1> QED
    BY <1>0, <1>1, <1>2, <1>3, LogStep

\* No recorded history ever repeats its last transition when every Event
\* carries its time in whole seconds: a lost answer, a conflict, a restart, a
\* stale read or a resync makes no duplicate (transitionsEqual and the
\* resourceVersion check of appendTransitionWithRetry).
THEOREM NoDuplicates ==
    ASSUME EventClocks \subseteq {"second"}
    PROVE  Spec => []NoAdjacentDuplicates
  <1>1. Init => SecondsInv /\ NoAdjacentDuplicates
    <2> SUFFICES ASSUME Init
                 PROVE  SecondsInv /\ NoAdjacentDuplicates
      OBVIOUS
    <2>1. SecondsInv
      BY InvInit, ObservedInit DEF SecondsInv, Init
    <2>2. \A u \in UIDs : Current(u) = Nil
      BY DEF Init, Current, Version
    <2> QED
      BY <2>1, <2>2 DEF NoAdjacentDuplicates
  <1>2. SecondsInv /\ NoAdjacentDuplicates /\ [Next]_vars
          => SecondsInv' /\ NoAdjacentDuplicates'
    BY SecondsStep, NoDuplicatesStep
  <1> QED
    BY <1>1, <1>2, PTL DEF Spec

-----------------------------------------------------------------------------
(* Refinement. *)

\* The clock never goes back, and stands still while the records change.
LEMMA ClockStep ==
    ASSUME TypeOK, [Next]_vars
    PROVE  now' >= now /\ (log' = log \/ now' = now)
  <1>0. now \in Nat
    BY DEF TypeOK, ClusterTypeOK
  <1>1. CASE UNCHANGED cluster
    BY <1>0, <1>1 DEF cluster
  <1>2. CASE Environment
    <2>1. CASE Tick
      BY <1>0, <2>1 DEF Tick, TimePasses, store
    <2>2. ASSUME Deliver \/ UNCHANGED cluster
          PROVE  now' = now
      BY <2>2 DEF Deliver, cluster
    <2>3. ASSUME NEW k, NEW m, NEW n, NEW lag, NEW u, NEW c,
                 \/ PodAdded(u, c)
                 \/ PodUnschedulable(k, m, lag) \/ PodBound(k, n, lag)
                 \/ PodDeleted(k) \/ PodTouched(k)
          PROVE  now' = now
      BY <2>2, <2>3, Zenon
         DEF PodAdded, PodUnschedulable, PodBound, PodDeleted, PodTouched
    <2>4. ASSUME NEW i, NEW u, NEW reason, NEW m, NEW clock, NEW lag, NEW e,
                 \/ EventAdded(i, u, reason, m, clock, lag)
                 \/ EventRepeated(e) \/ EventExpired(e)
          PROVE  now' = now
      BY <2>2, <2>4, Zenon DEF EventAdded, EventRepeated, EventExpired
    <2>5. Tick \/ now' = now
      BY <1>2, <2>3, <2>4, Zenon DEF Environment
    <2> QED
      BY <1>0, <2>1, <2>5
  <1>3. UNCHANGED cluster \/ Environment
    BY DEF vars, Next, ListEvents, Work, GetPod, GetDecision, CreateDecision,
           FetchDecision, UpdateStatus, Faults, ReadFails, WriteFails,
           WriteReplyLost, Restart, CacheAdvance
  <1> QED
    BY <1>1, <1>2, <1>3

\* The records, as AuditLog sees them, and the UIDs that have had one.
Records == [u \in UIDs |-> Current(u)]
Opened == {u \in UIDs : log[u] # <<>>}

\* A new version of u's record leaves it, if anything, one more opened.
LEMMA OpenedStep ==
    ASSUME StoreTypeOK, NEW u \in UIDs, NEW d \in SchedulingDecision \cup {Nil},
           log' = [log EXCEPT ![u] = Append(@, d)]
    PROVE  Opened' = Opened \cup {u}
  <1>1. log[u] \in Seq(SchedulingDecision \cup {Nil}) /\ Len(log[u]) \in Nat
    BY LenProperties DEF StoreTypeOK
  <1>2. log'[u] = Append(log[u], d) /\ \A v \in UIDs \ {u} : log'[v] = log[v]
    BY DEF StoreTypeOK
  <1>3. Len(log'[u]) = Len(log[u]) + 1
    BY <1>1, <1>2, AppendProperties
  <1>4. Len(<<>>) = 0
    OBVIOUS
  <1>5. log'[u] # <<>>
    BY <1>1, <1>3, <1>4
  <1> QED
    BY <1>2, <1>5 DEF Opened

\* There is a record only where one was opened.
LEMMA RecordIsOpened ==
    ASSUME NEW u \in UIDs, Current(u) # Nil
    PROVE  u \in Opened
  <1>1. Len(<<>>) = 0
    OBVIOUS
  <1> QED
    BY <1>1 DEF Opened, Current, Version

\* Without sweeps, there is none only where none was opened.
LEMMA NeverGone ==
    ASSUME StoreTypeOK, VersionsArePrefixes, NEW u \in UIDs, Current(u) = Nil
    PROVE  u \notin Opened
  <1>1. log[u] \in Seq(SchedulingDecision \cup {Nil}) /\ Len(log[u]) \in Nat
    BY LenProperties DEF StoreTypeOK
  <1>2. Len(log[u]) = 0
    BY <1>1, LastVersion
  <1>3. log[u] = <<>>
    BY <1>1, <1>2, EmptySeq
  <1> QED
    BY <1>3 DEF Opened

\* AuditLog, instantiated, has its own copy of the operators of Decision.
LEMMA SameOperators ==
    /\ Audit!EmptyStatus = EmptyStatus
    /\ \A old, t : /\ Audit!applyTransition(old, t) = applyTransition(old, t)
                   /\ Audit!StoredTransition(t) = StoredTransition(t)
                   /\ Audit!AlreadyLast(old, t) <=> AlreadyLast(old, t)
  <1>1. Audit!EmptyStatus = EmptyStatus
    BY Zenon DEF Audit!EmptyStatus, EmptyStatus
  <1>2. ASSUME NEW old, NEW t
        PROVE  Audit!applyTransition(old, t) = applyTransition(old, t)
    BY Zenon DEF Audit!applyTransition, applyTransition
  <1>3. ASSUME NEW old, NEW t
        PROVE  Audit!StoredTransition(t) = StoredTransition(t)
    BY Zenon DEF Audit!StoredTransition, StoredTransition, Audit!WholeSecond,
                 WholeSecond
  <1>4. ASSUME NEW old, NEW t
        PROVE  Audit!AlreadyLast(old, t) <=> AlreadyLast(old, t)
    BY Zenon DEF Audit!AlreadyLast, AlreadyLast, Audit!transitionsEqual,
                 transitionsEqual
  <1> QED
    BY <1>1, <1>2, <1>3, <1>4, Zenon

LEMMA AuditInitially == Init => Audit!AuditInit
  <1> SUFFICES ASSUME Init
               PROVE  Audit!AuditInit
    OBVIOUS
  <1>1. \A u \in UIDs : Current(u) = Nil /\ log[u] = <<>>
    BY DEF Init, Current, Version
  <1>2. now \in Nat
    BY TicksAssumption DEF Init, Start
  <1>3. Opened = {u \in UIDs : Records[u] # Nil}
    BY <1>1 DEF Opened, Records
  <1> QED
    BY <1>1, <1>2, <1>3 DEF Audit!AuditInit, Opened, Records

\* Every step of the manager and the cluster is a step of AuditLog, but for a
\* record that has been swept and is opened anew.
LEMMA AuditStep ==
    ASSUME SecondsInv, [Next]_vars
    PROVE  Audit!SweptNext /\ (VersionsArePrefixes => Audit!AuditNext)
  <1>0. Inv /\ TypeOK /\ StoreTypeOK /\ WorkerTypeOK /\ ObservedInSeconds
    BY DEF SecondsInv, Inv, TypeOK
  <1> DEFINE Goal == Audit!SweptNext /\ (VersionsArePrefixes => Audit!AuditNext)
  <1>1. CASE log' = log
    <2>1. Records' = Records /\ Opened' = Opened
      BY <1>1 DEF Records, Opened, Current, Version
    <2> QED
      BY <1>0, <2>1, ClockStep
         DEF Records, Opened, Audit!Wait, Audit!AuditNext, Audit!SweptNext
  <1>2. ASSUME NEW u \in UIDs, now' = now,
               \A v \in UIDs \ {u} : Current(v)' = Current(v)
        PROVE  Audit!OneRecord(u)
    BY <1>2 DEF Audit!OneRecord
  <1>3. ASSUME pc = "create", NEW u, u = observed.identity.uid, now' = now,
               Current(u) = Nil, log' = [log EXCEPT ![u] = Append(@, draft)]
        PROVE  Goal
    <2>1. u \in UIDs /\ draft \in SchedulingDecision
      BY <1>0, <1>3, ObservationParts DEF WorkerTypeOK
    <2>2. /\ Current(u)' = draft
          /\ \A v \in UIDs \ {u} : Current(v)' = Current(v)
      BY <1>0, <1>3, <2>1, AfterAppend
    <2>3. /\ draft.spec.podUID = u /\ draft.expiresAt # Nil
          /\ draft.status = EmptyStatus
      BY <1>0, <1>3 DEF Inv, DraftFollowsBase
    <2>4. Audit!Fresh(u)
      <3>1. Records[u] = Nil /\ Records'[u] = draft /\ draft # Nil
        BY <1>3, <2>1, <2>2, NilAssumption DEF Records
      <3> QED
        BY <2>3, <3>1, SameOperators, Zenon DEF Records, Audit!Fresh
    <2>5. Audit!OneRecord(u)
      BY <1>2, <1>3, <2>1, <2>2
    <2>6. Opened' = Opened \cup {u}
      BY <1>0, <1>3, <2>1, OpenedStep
    <2>7. CASE u \notin Opened
      <3>1. Audit!Open(u)
        BY <2>4, <2>6, <2>7, Zenon DEF Opened, Audit!Open
      <3> QED
        BY <2>1, <2>5, <3>1, Zenon DEF Audit!AuditNext, Audit!SweptNext
    <2>8. CASE u \in Opened
      <3>1. Opened' = Opened
        BY <2>6, <2>8
      <3>2. Audit!Reopen(u)
        BY <2>4, <2>8, <3>1, Zenon DEF Opened, Audit!Reopen
      <3>3. ~VersionsArePrefixes
        BY <1>0, <1>3, <2>1, <2>8, NeverGone
      <3> QED
        BY <2>1, <2>5, <3>2, <3>3, Zenon DEF Audit!SweptNext
    <2> QED
      BY <2>7, <2>8
  <1>4. ASSUME pc = "update", NEW u, u = observed.identity.uid, now' = now,
               Accepts(u), ServerUpdate(u)
        PROVE  Goal
    <2>1. PICK t : t = StoredTransition(observed.transition)
      OBVIOUS
    <2>2. /\ u \in UIDs /\ Current(u) \in SchedulingDecision
          /\ t \in SchedulingTransition
          /\ Current(u)' = [Current(u) EXCEPT !.status = applyTransition(@, t)]
          /\ \A v \in UIDs \ {u} : Current(v)' = Current(v)
      BY <1>0, <1>4, <2>1, AcceptedUpdate
    <2>3. PICK d \in SchedulingDecision : d = Current(u)
      BY <2>2
    <2>4. PICK e : e = [d EXCEPT !.status = applyTransition(@, t)]
      OBVIOUS
    <2>5. Current(u)' = e
      BY <2>2, <2>3, <2>4
    <2>6. /\ e \in SchedulingDecision
          /\ e.status.transitions # <<>>
          /\ e.status.transitions[Len(e.status.transitions)] = t
      <3>1. /\ e \in SchedulingDecision
            /\ Len(d.status.transitions) \in Nat
            /\ Len(e.status.transitions) = Len(d.status.transitions) + 1
            /\ e.status.transitions[Len(d.status.transitions) + 1] = t
        BY <2>2, <2>4, AppliedHistory
      <3>2. Len(<<>>) = 0
        OBVIOUS
      <3> QED
        BY <3>1, <3>2
    <2>7. t = observed.transition /\ StoredTransition(t) = t
      <3>1. observed \in Observation /\ observed.transition \in SchedulingTransition
        BY <1>0, <1>4, ObservationParts DEF WorkerTypeOK
      <3>2. InSeconds(observed.transition.decisionTimestamp)
        BY <1>0, <3>1, NilAssumption DEF ObservedInSeconds
      <3> QED
        BY <2>1, <3>1, <3>2, ObservedIsStored
    <2>8. ~AlreadyLast(d.status, t)
      <3>1. d = log[u][base]
        BY <1>0, <1>4, <2>2, <2>3, CachedType
           DEF Accepts, Current, Version, Inv, DraftFollowsBase
      <3> QED
        BY <1>0, <1>4, <2>7, <3>1 DEF Inv, DraftFollowsBase
    <2>9. Records[u] = d /\ Records'[u] = e
      BY <2>2, <2>3, <2>5 DEF Records
    <2>10. Opened' = Opened
      <3>1. u \in Opened
        BY <2>2, NilAssumption, RecordIsOpened
      <3>2. [d EXCEPT !.status = Stored(draft.status)] \in SchedulingDecision
        BY <1>0, <1>4, <2>3, StoredType DEF WorkerTypeOK, SchedulingDecision
      <3>3. log' = [log EXCEPT ![u] =
                       Append(@, [d EXCEPT !.status = Stored(draft.status)])]
        BY <1>4, <2>3, Zenon DEF ServerUpdate
      <3>4. Opened' = Opened \cup {u}
        BY <1>0, <2>2, <3>2, <3>3, OpenedStep
      <3> QED
        BY <3>1, <3>4
    <2>11. Audit!Extend(u)
      <3>1. d # Nil /\ e # Nil
        BY <2>6, NilAssumption
      <3> QED
        BY <2>4, <2>6, <2>7, <2>8, <2>9, <2>10, <3>1, SameOperators, Zenon
           DEF Records, Opened, Audit!Extend
    <2> QED
      BY <1>2, <1>4, <2>2, <2>11, Zenon DEF Audit!AuditNext, Audit!SweptNext
  <1> QED
    BY <1>0, <1>1, <1>3, <1>4, LogStep, ClockStep

\* The reconciler implements AuditLog when every Event carries its time in
\* whole seconds: the records at the API server are opened once, keep spec and
\* expiry, grow by one new transition at a time and mirror the last one.
THEOREM Refinement ==
    ASSUME EventClocks \subseteq {"second"}
    PROVE  Spec => ImplementsAuditLog
  <1> DEFINE I == SecondsInv /\ VersionsArePrefixes
  <1>1. Init => I /\ Audit!AuditInit
    BY InvInit, ObservedInit, PrefixesInit, AuditInitially DEF SecondsInv, Init
  <1>2. I /\ [Next]_vars => I' /\ Audit!AuditNext
    BY SecondsStep, PrefixesStep, AuditStep DEF SecondsInv
  <1> QED
    BY <1>1, <1>2, PTL DEF Spec, ImplementsAuditLog, Audit!AuditSpec

=============================================================================
