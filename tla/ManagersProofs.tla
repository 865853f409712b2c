--------------------------- MODULE ManagersProofs ---------------------------
(***************************************************************************)
(* Theorems about any number of managers at work on one cluster, for every   *)
(* value of the constants.                                                   *)
(*                                                                         *)
(* A step of the manager whose turn it is, and a step of the cluster, is a   *)
(* step of Reconciler, so that the lemmas of ReconcilerProofs hold for it.   *)
(* What is new is the managers that wait.  Of each the invariants say what   *)
(* those of Reconciler say of a worker: it holds what it held when its turn  *)
(* ended, and the API server only ever adds versions, so that what it holds  *)
(* is still true when its turn comes again.                                  *)
(***************************************************************************)
EXTENDS Managers, ReconcilerProofs

-----------------------------------------------------------------------------
(* What is known of a manager that waits, w being what it has. *)

\* Types, which locals are set at which step, and a cache that is not ahead.
ManagerState ==
    [queue : SUBSET Names, pc : Steps, key : Names \cup {Nil},
     listed : SUBSET Event, observed : Observation \cup {Nil},
     draft : SchedulingDecision \cup {Nil}, base : Nat,
     attempt : 0 .. MaxAttempts, seen : [UIDs -> Nat]]

Typed(w) ==
    /\ w \in ManagerState
    /\ w.pc # "idle" => w.key \in Names
    /\ w.pc \in {"ensure", "create", "fetch", "update"} => w.observed \in Observation
    /\ w.pc \in {"create", "update"} => w.draft \in SchedulingDecision
    /\ \A u \in UIDs : w.seen[u] <= Len(log[u])

\* What it is about to write (DraftFollowsBase).
Drafted(w) ==
    LET u == w.observed.identity.uid
    IN  /\ w.pc = "create" =>
              /\ w.draft.spec.podUID = u
              /\ w.draft.expiresAt # Nil
              /\ w.draft.status = EmptyStatus
        /\ w.pc = "update" =>
              /\ w.base \in 1 .. Len(log[u])
              /\ log[u][w.base] # Nil
              /\ ~AlreadyLast(log[u][w.base].status, w.observed.transition)
              /\ w.draft = [log[u][w.base] EXCEPT
                              !.status = applyTransition(@, w.observed.transition)]

\* The node it is about to record (NodesKnown).
NodeKnown(w) ==
    w.observed # Nil =>
        w.observed.transition.chosenNode \in {"", placed[w.observed.identity.uid]}

\* The times it has read are whole seconds (ObservedInSeconds).
ReadInSeconds(w) ==
    /\ \A e \in w.listed : InSeconds(eventTimestamp(e))
    /\ w.observed # Nil => InSeconds(w.observed.transition.decisionTimestamp)

OthersInv ==
    /\ other \in [Others -> ManagerState]
    /\ \A m \in Others : Typed(other[m]) /\ Drafted(other[m])

ManagersInv == Inv /\ OthersInv

-----------------------------------------------------------------------------
(* Taking turns. *)

\* What holds of the manager whose turn it is holds of it when it waits.
LEMMA OwnState ==
    ASSUME Inv
    PROVE  Typed(Own) /\ Drafted(Own)
  <1>1. Typed(Own)
    BY DEF Inv, TypeOK, WorkerTypeOK, StoreTypeOK, Typed, ManagerState, Own
  <1>2. Drafted(Own)
    BY DEF Inv, DraftFollowsBase, Drafted, Own
  <1> QED
    BY <1>1, <1>2

\* And the other way round.
LEMMA Resumed ==
    ASSUME Inv, NEW w, Typed(w), Drafted(w), Resume(w),
           UNCHANGED <<cluster, log, disturbances>>
    PROVE  Inv'
  <1>1. /\ queue' = w.queue /\ pc' = w.pc /\ key' = w.key /\ listed' = w.listed
        /\ observed' = w.observed /\ draft' = w.draft /\ base' = w.base
        /\ attempt' = w.attempt /\ seen' = w.seen /\ log' = log
    BY DEF Resume, Locals
  <1>2. WorkerTypeOK'
    BY <1>1 DEF WorkerTypeOK, Typed, ManagerState
  <1>3. StoreTypeOK'
    BY <1>1 DEF Inv, TypeOK, StoreTypeOK, Typed, ManagerState
  <1>4. TypeOK'
    BY <1>2, <1>3, Unchanged DEF Inv, TypeOK
  <1>5. DraftFollowsBase'
    BY <1>1 DEF DraftFollowsBase, Drafted
  <1>6. StoredInSeconds'
    BY <1>1 DEF Inv, StoredInSeconds, Current, Version, History
  <1> QED
    BY <1>4, <1>5, <1>6 DEF Inv

-----------------------------------------------------------------------------
(* Waiting. *)

\* Versions are added and none is taken away or altered.
LogGrows ==
    \A u \in UIDs : /\ Len(log[u]) \in Nat /\ Len(log'[u]) \in Nat
                    /\ Len(log[u]) <= Len(log'[u])
                    /\ \A n \in 1 .. Len(log[u]) : log'[u][n] = log[u][n]

LEMMA LogGrowsStep ==
    ASSUME Inv, [Next]_vars
    PROVE  LogGrows
  <1>0. TypeOK /\ StoreTypeOK /\ WorkerTypeOK /\ StoreTypeOK'
    BY InvStep DEF Inv, TypeOK
  <1>1. \A u \in UIDs : Len(log[u]) \in Nat /\ Len(log'[u]) \in Nat
    BY <1>0, LenProperties DEF StoreTypeOK
  <1>2. CASE log' = log
    BY <1>1, <1>2 DEF LogGrows
  <1>3. ASSUME NEW u \in UIDs, NEW d, log' = [log EXCEPT ![u] = Append(@, d)]
        PROVE  LogGrows
    <2>1. log[u] \in Seq(SchedulingDecision \cup {Nil})
      BY <1>0 DEF StoreTypeOK
    <2>2. log'[u] = Append(log[u], d) /\ \A v \in UIDs \ {u} : log'[v] = log[v]
      BY <1>0, <1>3 DEF StoreTypeOK
    <2>3. /\ Len(log'[u]) = Len(log[u]) + 1
          /\ \A n \in 1 .. Len(log[u]) : log'[u][n] = log[u][n]
      BY <2>1, <2>2
    <2> QED
      BY <1>1, <2>2, <2>3 DEF LogGrows
  <1>4. pc \in {"create", "update"} => observed.identity.uid \in UIDs
    BY <1>0, ObservationParts DEF WorkerTypeOK
  <1> QED
    BY <1>0, <1>2, <1>3, <1>4, LogStep DEF ServerUpdate

\* What a manager that waits has stays true while the API server goes on, and
\* while its queue fills.
LEMMA Waits ==
    ASSUME LogGrows, NEW w, Typed(w), Drafted(w), NEW q \in SUBSET Names,
           NEW v, v = [w EXCEPT !.queue = q]
    PROVE  Typed(v)' /\ Drafted(v)'
  <1>1. /\ v \in ManagerState /\ v.pc = w.pc /\ v.key = w.key
        /\ v.observed = w.observed /\ v.draft = w.draft /\ v.base = w.base
        /\ v.seen = w.seen
    BY DEF Typed, ManagerState
  <1>2. \A u \in UIDs : w.seen[u] <= Len(log'[u])
    BY DEF Typed, ManagerState, LogGrows
  <1>3. Typed(v)'
    BY <1>1, <1>2 DEF Typed
  <1>4. ASSUME w.pc = "update"
        PROVE  /\ w.base \in 1 .. Len(log'[w.observed.identity.uid])
               /\ log'[w.observed.identity.uid][w.base]
                    = log[w.observed.identity.uid][w.base]
    <2>1. w.observed.identity.uid \in UIDs
      BY <1>4, ObservationParts DEF Typed
    <2> QED
      BY <1>4, <2>1 DEF Drafted, LogGrows
  <1>5. Drafted(v)'
    BY <1>1, <1>4 DEF Drafted
  <1> QED
    BY <1>3, <1>5

-----------------------------------------------------------------------------
(* The inductive invariant. *)

\* A step of one manager or of the cluster is a step of Reconciler.
LEMMA TurnOrStep ==
    ASSUME [ManagersNext]_managersVars
    PROVE  \/ [Next]_vars /\ UNCHANGED other
           \/ WatchesDeliver /\ Next
           \/ \E m \in Others : Switch(m)
  BY Zenon DEF ManagersNext, OwnStep, WatchesDeliver, Next, managersVars

\* Watches tell of names only.
LEMMA ToldNames ==
    ASSUME TypeOK, TypeOK'
    PROVE  Told \subseteq Names
  <1>1. /\ queue' \subseteq Names /\ events \subseteq Event /\ events' \subseteq Event
    BY DEF TypeOK, ClusterTypeOK, WorkerTypeOK
  <1>2. \A e \in Event : e.name \in Names
    BY DEF Event
  <1> QED
    BY <1>1, <1>2 DEF Told

\* A manager that waits has what it had, but for its queue.
LEMMA OthersStep ==
    ASSUME ManagersInv, NEW m \in Others,
           \/ [Next]_vars /\ UNCHANGED other
           \/ WatchesDeliver /\ Next
    PROVE  \E q \in SUBSET Names : other'[m] = [other[m] EXCEPT !.queue = q]
  <1>1. other[m] \in ManagerState
    BY DEF ManagersInv, OthersInv
  <1>2. CASE other' = other
    <2>1. other'[m] = [other[m] EXCEPT !.queue = other[m].queue]
      BY <1>1, <1>2 DEF ManagerState
    <2> QED
      BY <1>1, <2>1 DEF ManagerState
  <1>3. CASE WatchesDeliver /\ Next
    <2>1. Told \subseteq Names
      BY <1>3, ToldNames, TypeStep DEF ManagersInv, Inv
    <2>2. other'[m] = [other[m] EXCEPT !.queue = @ \cup Told]
      BY <1>3 DEF WatchesDeliver
    <2>3. other[m].queue \cup Told \in SUBSET Names
      BY <1>1, <2>1 DEF ManagerState
    <2> QED
      BY <2>2, <2>3
  <1> QED
    BY <1>2, <1>3

LEMMA OthersDomain ==
    ASSUME ManagersInv, [ManagersNext]_managersVars
    PROVE  other' = [m \in Others |-> other'[m]]
  <1>1. other = [m \in Others |-> other[m]]
    BY DEF ManagersInv, OthersInv
  <1> QED
    BY <1>1, TurnOrStep DEF WatchesDeliver, Switch

LEMMA ManagersInvStep ==
    ManagersInv /\ [ManagersNext]_managersVars => ManagersInv'
  <1> SUFFICES ASSUME ManagersInv, [ManagersNext]_managersVars
               PROVE  ManagersInv'
    OBVIOUS
  <1>0. Inv /\ OthersInv
    BY DEF ManagersInv
  <1>1. SUFFICES ASSUME TRUE
                 PROVE  Inv' /\ \A m \in Others : Typed(other[m])' /\ Drafted(other[m])'
    BY OthersDomain DEF ManagersInv, OthersInv, Typed
  <1>2. ASSUME \/ [Next]_vars /\ UNCHANGED other
               \/ WatchesDeliver /\ Next
        PROVE  Inv' /\ \A m \in Others : Typed(other[m])' /\ Drafted(other[m])'
    <2>1. Inv' /\ LogGrows
      BY <1>0, <1>2, InvStep, LogGrowsStep
    <2>2. ASSUME NEW m \in Others
          PROVE  Typed(other[m])' /\ Drafted(other[m])'
      <3>1. PICK q \in SUBSET Names : other'[m] = [other[m] EXCEPT !.queue = q]
        BY <1>2, OthersStep
      <3>2. PICK w, v : w = other[m] /\ v = other'[m]
        OBVIOUS
      <3>3. Typed(w) /\ Drafted(w)
        BY <1>0, <3>2 DEF OthersInv
      <3>4. Typed(v)' /\ Drafted(v)'
        BY <2>1, <3>1, <3>2, <3>3, Waits
      <3> QED
        BY <3>2, <3>4
    <2> QED
      BY <2>1, <2>2
  <1>3. ASSUME NEW m \in Others, Switch(m)
        PROVE  Inv' /\ \A n \in Others : Typed(other[n])' /\ Drafted(other[n])'
    <2>1. /\ other' = [other EXCEPT ![m] = Own] /\ Resume(other[m])
          /\ UNCHANGED <<cluster, log, disturbances>>
      BY <1>3 DEF Switch
    <2>2. Inv'
      BY <1>0, <2>1, Resumed DEF OthersInv
    <2>3. ASSUME NEW n \in Others
          PROVE  Typed(other'[n]) /\ Drafted(other'[n])
      BY <1>0, <2>1, OwnState DEF OthersInv
    <2>4. ASSUME NEW n \in Others
          PROVE  Typed(other[n])' /\ Drafted(other[n])'
      BY <2>1, <2>3 DEF Typed, Drafted
    <2> QED
      BY <2>2, <2>4
  <1> QED
    BY <1>2, <1>3, TurnOrStep

LEMMA ManagersInvInit == ManagersInit => ManagersInv
  <1> SUFFICES ASSUME ManagersInit
               PROVE  ManagersInv
    OBVIOUS
  <1>1. Inv /\ other = [m \in Others |-> Own]
    BY InvInit DEF ManagersInit
  <1>2. Typed(Own) /\ Drafted(Own)
    BY <1>1, OwnState
  <1>3. Own \in ManagerState
    BY <1>2 DEF Typed
  <1> QED
    BY <1>1, <1>2, <1>3 DEF ManagersInv, OthersInv

\* However many managers work at once, each keeps the invariant of Reconciler
\* at its turn and while it waits: a draft is still the version it was read
\* from with one more transition, whatever the others have written since.
THEOREM ManagersInvariance == ManagersSpec => []ManagersInv
  BY ManagersInvInit, ManagersInvStep, PTL DEF ManagersSpec

-----------------------------------------------------------------------------
(* What several managers do to the records. *)

\* A change of turn leaves the API server and the cluster as they are.
LEMMA SwitchKeeps ==
    ASSUME NEW m \in Others, Switch(m)
    PROVE  /\ UNCHANGED <<cluster, log>>
           /\ \A u : Current(u)' = Current(u) /\ History(u)' = History(u)
  BY DEF Switch, Current, Version, History

LEMMA StepOfOne ==
    ASSUME [ManagersNext]_managersVars
    PROVE  [Next]_vars \/ \E m \in Others : Switch(m)
  BY TurnOrStep

\* However many managers update a record, each from its own stale copy, no
\* recorded transition is lost or altered, nor the spec or the expiry: the
\* resourceVersion check refuses every update but those of the current version
\* (appendTransitionWithRetry).
THEOREM ManagersAppendOnly == ManagersSpec => HistoryAppendOnly
  <1>1. ManagersInv /\ [ManagersNext]_managersVars =>
          [\A u \in UIDs : Current(u) # Nil /\ Current(u)' # Nil => Extends(u)]_vars
    <2> SUFFICES ASSUME ManagersInv, [ManagersNext]_managersVars, NEW u \in UIDs,
                        Current(u) # Nil, Current(u)' # Nil
                 PROVE  Extends(u)
      OBVIOUS
    <2>1. CASE [Next]_vars
      BY <2>1, AppendOnlyStep DEF ManagersInv
    <2>2. ASSUME NEW m \in Others, Switch(m)
          PROVE  Extends(u)
      <3>1. Current(u) \in SchedulingDecision
        BY CachedType DEF ManagersInv, Inv, TypeOK
      <3>2. Len(History(u)) \in Nat
        BY <3>1, HistoryLength DEF History
      <3> QED
        BY <2>2, <3>2, SwitchKeeps DEF Extends
    <2> QED
      BY <2>1, <2>2, StepOfOne
  <1>2. ManagersSpec => [][\A u \in UIDs :
                     Current(u) # Nil /\ Current(u)' # Nil => Extends(u)]_vars
    BY <1>1, ManagersInvariance, PTL DEF ManagersSpec
  <1> QED
    BY <1>2, PTL DEF HistoryAppendOnly, Extends

\* Whoever writes, every version a record has had begins its history.
LEMMA ManagersPrefixes ==
    ASSUME ManagersInv, VersionsArePrefixes, [ManagersNext]_managersVars
    PROVE  VersionsArePrefixes'
  <1>1. CASE [Next]_vars
    BY <1>1, PrefixesStep DEF ManagersInv
  <1>2. ASSUME NEW m \in Others, Switch(m)
        PROVE  VersionsArePrefixes'
    BY <1>2, SwitchKeeps DEF VersionsArePrefixes, Begins
  <1> QED
    BY <1>1, <1>2, StepOfOne

\* A reconcile of any manager that ends without an error and without a requeue
\* has its observation in the record, be it that another manager wrote it
\* (ensureDecisionCreated takes AlreadyExists for a success, and
\* appendTransitionWithRetry an equal last transition).
THEOREM ManagersSuccess == ManagersSpec => SuccessMeansRecorded
  <1>1. ManagersInit => ManagersInv /\ VersionsArePrefixes
    BY ManagersInvInit, PrefixesInit DEF ManagersInit
  <1>2. ManagersInv /\ VersionsArePrefixes /\ [ManagersNext]_managersVars
          => (ManagersInv /\ VersionsArePrefixes)'
    BY ManagersInvStep, ManagersPrefixes
  <1>3. ManagersInv /\ VersionsArePrefixes =>
          [ (FetchDecision \/ UpdateStatus) /\ pc' = "idle" /\ key \notin queue'
              => \A o \in {observed} :
                    InHistory(o.identity.uid, o.transition)' ]_vars
    BY SuccessStep DEF ManagersInv
  <1> QED
    BY <1>1, <1>2, <1>3, PTL DEF ManagersSpec, SuccessMeansRecorded

-----------------------------------------------------------------------------
(* Records name the node their own Pod went to. *)

OthersPlaced == \A m \in Others : NodeKnown(other[m])

LEMMA OthersPlacedStep ==
    ASSUME ManagersInv, PlacementInv, OthersPlaced, [ManagersNext]_managersVars
    PROVE  PlacementInv' /\ OthersPlaced'
  <1>0. /\ Inv /\ TypeOK /\ NodesKnown /\ Inv'
        /\ \A m \in Others : Typed(other[m])
    BY ManagersInvStep DEF ManagersInv, OthersInv, Inv, PlacementInv
  <1>1. ASSUME NEW m \in Others, NEW w, w = other'[m],
               w.observed = other[m].observed,
               \A u \in UIDs : placed'[u] = placed[u] \/ placed[u] = ""
        PROVE  w.observed # Nil => w.observed.transition.chosenNode
                                      \in {"", placed'[w.observed.identity.uid]}
    <2>1. w.observed # Nil => w.observed.identity.uid \in UIDs
      BY <1>0, <1>1, ObservationParts DEF Typed, ManagerState
    <2> QED
      BY <1>1, <2>1 DEF OthersPlaced, NodeKnown
  <1>2. ASSUME \/ [Next]_vars /\ UNCHANGED other
               \/ WatchesDeliver /\ Next
        PROVE  PlacementInv' /\ OthersPlaced'
    <2>1. PlacementInv'
      BY <1>2, InvStep, NodesManager, NodesEnvironment, PlacementStep
         DEF PlacementInv
    <2>2. \A u \in UIDs : placed'[u] = placed[u] \/ placed[u] = ""
      BY <1>0, <1>2, BoundOnce, ClusterKept DEF cluster
    <2>3. ASSUME NEW m \in Others
          PROVE  other'[m].observed = other[m].observed
      <3>1. PICK q \in SUBSET Names : other'[m] = [other[m] EXCEPT !.queue = q]
        BY <1>2, OthersStep
      <3> QED
        BY <1>0, <3>1 DEF Typed, ManagerState
    <2> QED
      BY <1>1, <2>1, <2>2, <2>3 DEF OthersPlaced, NodeKnown
  <1>3. ASSUME NEW m \in Others, Switch(m)
        PROVE  PlacementInv' /\ OthersPlaced'
    <2>1. /\ UNCHANGED <<pod, born, placed, log>> /\ observed' = other[m].observed
          /\ other' = [other EXCEPT ![m] = Own]
      BY <1>3 DEF Switch, Resume, Locals, cluster
    <2>2. NodesKnown'
      BY <1>0, <2>1 DEF NodesKnown, OthersPlaced, NodeKnown
    <2>3. ChosenNodeIsPlacement'
      BY <2>1 DEF PlacementInv, ChosenNodeIsPlacement, History, Current, Version
    <2>4. ASSUME NEW n \in Others
          PROVE  other'[n].observed \in {other[n].observed, observed}
      BY <2>1 DEF ManagersInv, OthersInv, Own
    <2>5. OthersPlaced'
      BY <1>0, <2>1, <2>4 DEF NodesKnown, OthersPlaced, NodeKnown
    <2> QED
      BY <1>0, <2>2, <2>3, <2>5 DEF PlacementInv
  <1> QED
    BY <1>2, <1>3, TurnOrStep

\* A record never names a node its own Pod was not bound to, also when a
\* manager records an observation it made before Pods came and went and others
\* recorded theirs (identityFromPod, transitionFromScheduled).
THEOREM ManagersPlacement == ManagersSpec => []ChosenNodeIsPlacement
  <1>1. ManagersInit => PlacementInv /\ OthersPlaced
    <2> SUFFICES ASSUME ManagersInit
                 PROVE  PlacementInv /\ OthersPlaced
      OBVIOUS
    <2>1. PlacementInv /\ observed = Nil /\ other = [m \in Others |-> Own]
      BY PlacementInit DEF ManagersInit, Init, Start
    <2> QED
      BY <2>1 DEF OthersPlaced, NodeKnown, Own
  <1>2. ManagersInv /\ PlacementInv /\ OthersPlaced /\ [ManagersNext]_managersVars
          => PlacementInv' /\ OthersPlaced'
    BY OthersPlacedStep
  <1>3. PlacementInv => ChosenNodeIsPlacement
    BY DEF PlacementInv
  <1> QED
    BY <1>1, <1>2, <1>3, ManagersInvariance, PTL DEF ManagersSpec

-----------------------------------------------------------------------------
(* Where every Event carries its time in whole seconds. *)

OthersInSeconds == \A m \in Others : ReadInSeconds(other[m])

ManagersSecondsInv == ManagersInv /\ SecondsInv /\ OthersInSeconds

LEMMA ManagersSecondsStep ==
    ASSUME EventClocks \subseteq {"second"}, ManagersSecondsInv,
           [ManagersNext]_managersVars
    PROVE  ManagersSecondsInv'
  <1>0. /\ ManagersInv' /\ Inv' /\ ObservedInSeconds
        /\ \A m \in Others : Typed(other[m])
    BY ManagersInvStep DEF ManagersSecondsInv, ManagersInv, OthersInv, SecondsInv
  <1>1. ASSUME \/ [Next]_vars /\ UNCHANGED other
               \/ WatchesDeliver /\ Next
        PROVE  SecondsInv' /\ OthersInSeconds'
    <2>1. SecondsInv'
      BY <1>1, SecondsStep DEF ManagersSecondsInv
    <2>2. ASSUME NEW m \in Others
          PROVE  /\ other'[m].observed = other[m].observed
                 /\ other'[m].listed = other[m].listed
      <3>1. PICK q \in SUBSET Names : other'[m] = [other[m] EXCEPT !.queue = q]
        BY <1>1, OthersStep DEF ManagersSecondsInv
      <3> QED
        BY <1>0, <3>1 DEF Typed, ManagerState
    <2> QED
      BY <2>1, <2>2 DEF ManagersSecondsInv, OthersInSeconds, ReadInSeconds
  <1>2. ASSUME NEW m \in Others, Switch(m)
        PROVE  SecondsInv' /\ OthersInSeconds'
    <2>1. /\ UNCHANGED <<now, pod, events>> /\ observed' = other[m].observed
          /\ listed' = other[m].listed /\ other' = [other EXCEPT ![m] = Own]
      BY <1>2 DEF Switch, Resume, Locals, cluster
    <2>2. ReadInSeconds(other[m])
      BY DEF ManagersSecondsInv, OthersInSeconds
    <2>3. ObservedInSeconds'
      BY <1>0, <2>1, <2>2 DEF ObservedInSeconds, ReadInSeconds
    <2>4. ReadInSeconds(Own)
      BY <1>0 DEF ObservedInSeconds, ReadInSeconds, Own
    <2>5. \A n \in Others : other'[n] \in {other[n], Own}
      BY <2>1 DEF ManagersSecondsInv, ManagersInv, OthersInv
    <2>6. OthersInSeconds'
      BY <2>4, <2>5 DEF ManagersSecondsInv, OthersInSeconds, ReadInSeconds
    <2> QED
      BY <1>0, <2>3, <2>6 DEF SecondsInv
  <1> QED
    BY <1>0, <1>1, <1>2, TurnOrStep DEF ManagersSecondsInv

LEMMA ManagersSecondsInit == ManagersInit => ManagersSecondsInv
  <1> SUFFICES ASSUME ManagersInit
               PROVE  ManagersSecondsInv
    OBVIOUS
  <1>1. ManagersInv /\ SecondsInv
    BY ManagersInvInit, ObservedInit
       DEF ManagersInit, Init, SecondsInv, ManagersInv
  <1>2. observed = Nil /\ listed = {} /\ other = [m \in Others |-> Own]
    BY DEF ManagersInit, Init, Start
  <1>3. OthersInSeconds
    BY <1>2 DEF OthersInSeconds, ReadInSeconds, Own
  <1> QED
    BY <1>1, <1>3 DEF ManagersSecondsInv

\* What one manager has recorded no other records again (transitionsEqual and
\* the resourceVersion check of appendTransitionWithRetry).
THEOREM ManagersNoDuplicates ==
    ASSUME EventClocks \subseteq {"second"}
    PROVE  ManagersSpec => []NoAdjacentDuplicates
  <1>1. ManagersInit => NoAdjacentDuplicates
    <2> SUFFICES ASSUME ManagersInit
                 PROVE  NoAdjacentDuplicates
      OBVIOUS
    <2>1. \A u \in UIDs : Current(u) = Nil
      BY DEF ManagersInit, Init, Current, Version
    <2> QED
      BY <2>1 DEF NoAdjacentDuplicates
  <1>2. ManagersSecondsInv /\ NoAdjacentDuplicates /\ [ManagersNext]_managersVars
          => NoAdjacentDuplicates'
    <2> SUFFICES ASSUME ManagersSecondsInv, NoAdjacentDuplicates,
                        [ManagersNext]_managersVars
                 PROVE  NoAdjacentDuplicates'
      OBVIOUS
    <2>1. CASE [Next]_vars
      BY <2>1, NoDuplicatesStep DEF ManagersSecondsInv
    <2>2. ASSUME NEW m \in Others, Switch(m)
          PROVE  NoAdjacentDuplicates'
      BY <2>2, SwitchKeeps DEF NoAdjacentDuplicates
    <2> QED
      BY <2>1, <2>2, StepOfOne
  <1>3. ManagersSecondsInv /\ [ManagersNext]_managersVars => ManagersSecondsInv'
    BY ManagersSecondsStep
  <1> QED
    BY <1>1, <1>2, <1>3, ManagersSecondsInit, PTL DEF ManagersSpec

\* Any number of managers together implement AuditLog when every Event carries
\* its time in whole seconds: they open one record per Pod, and it grows by one
\* new transition at a time, whichever of them writes (ensureDecisionCreated,
\* appendTransitionWithRetry).
THEOREM ManagersRefinement ==
    ASSUME EventClocks \subseteq {"second"}
    PROVE  ManagersSpec => ImplementsAuditLog
  <1> DEFINE I == ManagersSecondsInv /\ VersionsArePrefixes
  <1>1. ManagersInit => I /\ Audit!AuditInit
    BY ManagersSecondsInit, PrefixesInit, AuditInitially DEF ManagersInit
  <1>2. I /\ [ManagersNext]_managersVars
          => I' /\ [Audit!AuditNext]_<<Records, Opened, now>>
    <2> SUFFICES ASSUME ManagersSecondsInv, VersionsArePrefixes,
                        [ManagersNext]_managersVars
                 PROVE  [Audit!AuditNext]_<<Records, Opened, now>>
      BY ManagersSecondsStep, ManagersPrefixes DEF ManagersSecondsInv
    <2>1. CASE [Next]_vars
      BY <2>1, AuditStep DEF ManagersSecondsInv
    <2>2. ASSUME NEW m \in Others, Switch(m)
          PROVE  UNCHANGED <<Records, Opened, now>>
      BY <2>2, SwitchKeeps DEF Records, Opened, cluster
    <2> QED
      BY <2>1, <2>2, StepOfOne
  <1> QED
    BY <1>1, <1>2, PTL
       DEF ManagersSpec, ImplementsAuditLog, Audit!AuditSpec, Records, Opened

=============================================================================
