# TLA+ specifications of sch-audit

sch-audit keeps an audit trail of what the Kubernetes schedulers do: for every
Pod a cluster-scoped `SchedulingDecision`, whose status holds the history of
scheduling outcomes observed for that Pod. This directory models the program,
checks the models with TLC and proves theorems about them with TLAPS.

## The system

| Part | State it keeps | Operations | What makes it correct |
|---|---|---|---|
| Derivation, `controllers/decision.go` | none | `deriveTransition` and its helpers: Pod and Events to an identity and a transition; `transitionsEqual`, `applyTransition` | the outcome goes to the record of the Pod it is about; what is already recorded is recognised |
| Reconciler, `controllers/schedulingdecision_controller.go` | work queue, informer caches, the locals of the one `Reconcile` under way | list Events, get Pod, derive, get or create the decision, get it again, append and update its status with retries | histories only grow, nothing is recorded twice, nothing observed is lost, the work ends and the record is up to date |
| Resource, `api/v1alpha1` | the records at the API server, with labels `pod-uid` and `expires-at` | create, status update, delete | spec set once, one record per UID, status mirrors the last transition |
| Sweep, `cmd/sweep` | its list and the time it started | list, delete the expired ones one by one | only expired records go, and all of them eventually |
| Volume context, `controllers/volumecontext.go` | the volume it has come to | volumes to PVC to StorageClass to driver label | the context recorded is that of a claim of the Pod that is there; no failing read keeps the record from being created |
| Extender, `cmd/extender` | the calls under way | record candidate nodes as an Event, answer the scheduler with the nodes it sent | no answer drops a node, also when the Event could not be written; the newest Event is of the newest call |
| Dashboard, `cmd/dashboard` and its page | the server's cache; the last list, filters, open rows and what is shown | list the records, poll, filter, toggle rows | what is shown is what the state says, the panels agree, the page catches up |
| Manager, `cmd/manager` | lease, if `leader-elect` is set | wiring, flags, start and stop | the records are right also when several managers are active |

The parts only meet at the API server. The reconciler reads Pods, Events and
SchedulingDecisions through informer caches, each behind the server by its own
delay, and writes to the server. The extender writes Events, which reach the
reconciler through its Event watch. The sweep reads and deletes records without
a cache. Nothing watches SchedulingDecisions: only a change of a Pod or of a
relevant Event starts a reconcile.

The hard behaviours are these: a read from a stale cache decides a write; a
write is done and its answer lost; the manager stops between the Create and the
status update; retries run out; a Pod is replaced by another of the same name;
Events come late, twice, or are deleted when their TTL is over; the API server
keeps `metav1.Time` in whole seconds; a sweep works from an old list; two managers
are active; a filter call is given up while its Event is still being written, and
its retry overtakes it; claims appear after the first outcome; answers to the
page's polls overtake each other.
`PROJECT.json` lists each at its line.

## Modules

| Module | Models |
|---|---|
| `Decision` | the objects read and written, and `decision.go` as operators, name by name |
| `PodsAndClock` | EXTENDS `Decision`: Pods, nodes and the clock, which the processes share |
| `AuditLog` | abstract specification of the records: what the comments in `schedulingdecision_types.go` and on the controller promise (`AuditSpec`), and what is left of it beside sweeps (`SweptSpec`) |
| `Reconciler` | EXTENDS `PodsAndClock`: `Reconcile` and all it calls, the work queue, the caches, the API server, faults, and the cluster as the watches tell it |
| `Retention` | EXTENDS `Reconciler` with any number of sweeps |
| `EventScan` | the loop of `latestEventWithReason` over a list, which `Decision` replaces by the set of its results |
| `Managers` | EXTENDS `Reconciler` with any number of other managers, each with a worker, a queue and a cache of its own |
| `Extender` | EXTENDS `PodsAndClock`: the filter handler, its calls and their clients |
| `Candidates` | EXTENDS `Reconciler` and `Extender`: the Event from the extender to the record |
| `VolumeContext` | `resolveVolumeContext` and `volumeContextFromPVC`, read by read, inside `ensureDecisionCreated` |
| `Dashboard` | the server's list handler and the script of the page |
| `MCx` | constants for TLC, for the modules x that have a run |
| `DecisionProofs` | lemmas about the operators of `Decision` |
| `ReconcilerProofs` | type correctness, the inductive invariant, append-only histories, chosen nodes, what success means, no duplicates, refinement of `AuditLog` |
| `ManagersProofs` | the same for any number of managers |
| `RetentionProofs` | invariant and refinement with sweeps beside the reconciler; only expired records go |
| `EventScanProofs` | the loop agrees with the definition in `Decision`, for every list |
| `ExtenderProofs` | the extender's invariant, pass-through, order of its Events; with the reconciler: the chosen node is among the recorded candidates |
| `VolumeContextProofs` | the walk records only claims that are there, and the first one if it is |
| `DashboardProofs` | the page shows what its state says |

Names that end in `_Something` next to a definition of the same stem are mutants:
plausible mistakes in that piece of code, each of which breaks a property.

### How state and actions correspond to the code

One action is what `Reconcile` does up to its next call to a cache or to the API
server, `pc` says which call comes next:

| `pc` | action | code |
|---|---|---|
| `idle` | `ListEvents` | the queue hands out a request; `listRelevantEvents` |
| `pod` | `GetPod` | `Get` of the Pod, `deriveTransition` |
| `ensure` | `GetDecision` | `ensureDecisionCreated` up to the Create |
| `create` | `CreateDecision` | the Create |
| `fetch` | `FetchDecision` | one attempt of `appendTransitionWithRetry` up to its update |
| `update` | `UpdateStatus` | `Status().Update`, and what `retry.OnError` makes of the answer |

`ReadFails`, `WriteFails` and `WriteReplyLost` are the error returns, all of which
queue the request again. `Restart` is a restart or a hand-over of the lease: the
locals are gone, the queue is filled from the caches, and the SchedulingDecision
cache may begin at an older version than the last one held.

`log[u]` is the sequence of versions the server gave the decision of UID `u`; a
version number stands for the resourceVersion, `Nil` for a deletion. `seen[u]` is
the version in the cache. `CacheAdvance` moves it, by one or several versions.

`pod` and `events` are the Pod and Event caches themselves, since the reconciler
sees nothing else: the actions of the environment are what the two watches
deliver, in any interleaving. `placed` and `about` are history variables for the
properties. `latestEventWithReason` yields a set: of several Events with the
latest time the code keeps the first in an order the informer does not define.
`EventAdded` may bring an Event before its Pod, unless `EventsOutrunPods` is FALSE.
Events about objects other than Pods, which the predicate and `mapEventToPodRequest`
drop, are left out, so an Event has no kind.

Time is counted in ticks, `TicksPerSecond` to the second. `WholeSecond` is what a
`metav1.Time` keeps when it is stored; `Stored` applies it to a status. A
`metav1.MicroTime` (`eventTime`) keeps its fraction. Init begins one second after
zero because 0 stands for Go's zero time.

Abstractions: namespace and name are one value; a message is an opaque string;
`candidateNodes` is a set of names; the volume context is any value or none; the
label `pod-uid`, which no code reads, is left out. Transitions keep of their
`sourceRef` the `eventUID`.

The other parts, in the same way:

* `EventScan`: one `Scan` is one round of the loop; `latest` is the code's variable.
* `Managers`: the variables of `Reconciler` (`queue`, `pc`, the locals, `seen`) are
  those of the manager whose turn it is, `other[m]` keeps them for each that waits.
  `Switch` changes the turn; as it may happen before every step, the steps of the
  managers come in every order. A delivery of the Pod or Event watch
  (`WatchesDeliver`) also queues the names it is about (`Told`) for those that wait;
  the SchedulingDecision caches move apart. All managers share one Pod and one Event
  cache, where in the code each has its own; what differs is how late a manager acts
  on what it has read, and that is arbitrary here.
* `Extender`: `calls[c]` is one run of the handler, `pc` says whether it is before
  `Decode`, at the Create (`CreateEvent`, `CreateFails`) or at `Respond`. `gone` is
  set when the client gives up after `HTTPTimeout`; the handler goes on. Only a
  Create takes time. `since` is the time of the request and of the Event's stamp: the
  code takes it after decoding, a delay the model has as zero.
  Lists of nodes are sets, nil is told apart from empty. Clients other than a
  scheduler send what has no Pod or no nodes, or does not decode. Node names hold
  no comma, so joining and splitting them in an Event's message loses nothing.
* `Candidates`: the scheduler binds a Pod to a node of its last answer;
  `CandidatesDelivered` is the Event watch.
* `VolumeContext`: `at` is the loop's position, `wanted` the class to be read.
  `Change` changes the caches between two reads. `steady` is a history variable.
* `Dashboard`: `page` holds the script's variables (`decisions`, `expanded`), the
  inputs, and the parts shown as last rendered (`Nil` before that). Each request
  has a slot; answers arrive in any order. A decision is what the page reads of it,
  and `words` are the search words that occur in its text. Sorting is of decisions
  with different times; how the script orders equal ones is left out, as are
  escaping, ages and layout.

## Runs

| Run | Checks | Instance |
|---|---|---|
| `successor` | `ChosenNodeIsPlacement`, `ImplementsAuditLog` | two Pods of one name, two nodes, one Event, five deliveries, no faults |
| `faults` | `TypeOK`, `NoAdjacentDuplicates`, `SuccessMeansRecorded`, `HistoryAppendOnly`, `EventuallyQuiet`, `Converges` | one Pod that may be gated, one failure message, two Events (Preempted, Scheduled) up to one tick old, two ticks to the second, four deliveries, one fault |
| `retention` | `SweptOnlyWhenExpired`, `ImplementsSweptLog`, `ExpiredIsSwept` | two Pods, one with a record that has no label; one sweep at a time; two deliveries, one fault in reconciler or sweep |
| `two_managers` | `ImplementsAuditLog`, `SuccessMeansRecorded` | two managers, one Pod, one failure message, three deliveries, one fault |
| `candidates` | `NeverFiltersOut`, `NewestEventIsOfNewestCall`, `ChosenNodeWasConsidered` | extender and reconciler; two calls for one Pod, two nodes, both forms of the request, odd requests; timeout half a second, a second between attempts; three deliveries |
| `volume_walk` | `WalkFindsContext`, `DecisionIsCreated` | up to three volumes, two claims, two classes, two changes, failing reads |
| `dashboard` | `PageShowsItsState`, `PanelsAgree`, `PageCatchesUp` | two lists of decisions, two requests at a time, all inputs, one failure or restart |

`ChosenNodeIsPlacement`: whatever mixture of old and new Pod a reconcile sees, a
record never names a node its own Pod was not bound to.
`ImplementsAuditLog`: refinement of `AuditLog` with the current version of each
record as the abstract record: every UID's record is opened once, empty, and only
extended by new transitions.
`NoAdjacentDuplicates`: recording again what is already recorded adds nothing.
`SuccessMeansRecorded`: a reconcile that ends without error and without requeue
leaves what it observed in the record.
`HistoryAppendOnly`: no update, from whatever stale copy, loses or alters a
recorded transition, the spec or the expiry.
`EventuallyQuiet`: retries and requeues end.
`Converges`: in the end the last transition of each record is the one Pod and
Events imply.
`SweptOnlyWhenExpired`: a record is deleted only past its own expiry.
`ImplementsSweptLog`: the same beside sweeps, except that a Pod which outlives its
record gets another; no update computed before a deletion brings the old one back.
`ExpiredIsSwept`: every expired record goes.
`NeverFiltersOut`: an answer to a scheduler keeps all its nodes in the form it
reads, also when the Event could not be written.
`NewestEventIsOfNewestCall`: although Creates end in any order, the Event the
derivation takes for newest is of the newest call.
`ChosenNodeWasConsidered`: candidates recorded beside a node contain it, as long as
no name is scheduled for twice.
`WalkFindsContext`: a walk under which nothing changes records no context but that of
a volume whose claim is there, and that of the first PVC-backed volume if its claim is
there. `DecisionIsCreated`: failing reads do not keep the record away.
`PageShowsItsState`: after any handler, also those that render only the table, the
page shows what list, filters and open rows imply. `PanelsAgree`: heatmap, cards
and chart tell the same. `PageCatchesUp`: in the end the page has the current list.

Five more runs show where the code does less than its comments say; the
counterexamples are the findings in `PROJECT.json`:

* `misattributed`: Events are looked up by name, so an Event of a deleted Pod
  enters the history of the next Pod of that name. Here Events are only of Pods that
  have been seen (`EventsOutrunPods` FALSE), so that the trace has both Pods.
* `microtime`: with `EventTime` instead of `LastTimestamp`, the fraction of a
  second is lost in the store and each reconcile appends the same transition again.
* `stale_noop`: the no-op test reads the cache. A failure message that changes and
  changes back, before the cache has seen the first change, leaves the status at
  the message in between, until something else queues the Pod again (an unrelated
  update or a periodic resync, which this run does not have). This bounds `Converges`
  in the run `faults`: there is one failure message and Events do not expire, so
  that no earlier observation returns as it was.
* `reopened`: the controller's comments have one decision per Pod UID, created "once
  per pod, ever". The expiry counts from the first observation, so a Pod that
  outlives the retention window loses its record to the sweep and gets a second one
  at its next reconcile.
* `first_claim`: the comment on `resolveVolumeContext` says that only the first
  PVC-backed volume counts and that a claim which is not found gives no context. The
  loop goes on to the next volume, whose context is recorded.

### Known limits

These follow from the same models; they bound the instances above, and the
properties say only what holds within them.

* A sweep deletes by name without a precondition. With two `Sweepers` (the
  CronJob's Job and one by hand) `SweptOnlyWhenExpired` fails: the second deletes
  the fresh record that replaced the one it had listed. With one at a time, which
  `concurrencyPolicy: Forbid` gives the CronJob, it holds.
* In the run `retention` one record expires, beside one that never does. A failed
  Delete between two that succeed is therefore not exercised: an instance with two
  expiring records is beyond TLC here.
* With `Backoff` below `TicksPerSecond`, `NewestEventIsOfNewestCall` fails: stored
  timestamps of two attempts within a second tie.
* The handler answers only after the Create. An API server slower than the
  scheduler's timeout makes it give up (`GiveUp`), and as the sample registration
  in `config/manager/extender.yaml` is not `ignorable` (the one in
  `docs/tier2-investigation.md` is) the attempt fails, although the handler's comment
  says an observability write never fails it. `NeverFiltersOut` is about the answers
  that are sent and does not exclude this.
* `ChosenNodeWasConsidered` speaks of names scheduled for once (`FirstAttempts`). The
  outcome of a second attempt may be recorded with the candidates of the first, as
  nothing ties an Event to an attempt: with `MaxCalls` 2 and without that premise
  it fails. And a list that arrives after its outcome was recorded is
  never attached, because `transitionsEqual` does not compare `candidateNodes`.
* A record made before the claim was in the cache never gets its context.
* `PageCatchesUp` is about the end: when an older answer overtakes a newer one, the
  page shows the older list until the next poll.
* `Converges` is checked without Events that expire and without two Events of one
  reason and one time that say different things; of those, only what the theorems say is known
  (`NoDuplicates`, `ScanSound`, `ScanComplete`).

### Bounds

`MaxNews` bounds what the watches deliver, `MaxDisturbances` faults, restarts and
resyncs, `MaxTime` the clock, `MaxAttempts` the attempts of a status update (four in
the code; two in most runs, which already has a retry and a give-up). A duplicate
takes one delivery to record and one fault or resync to record again; a lost update
takes two deliveries and a cache that lags; a wrong node takes a Pod, its Event, its
deletion and a bound successor, which is five deliveries. A record can expire, be
swept, created again and expire again within `MaxTime` 3 with a window of one
second; two deliveries make a Pod and its outcome, and a sweep can fall between any
two steps of recording it. Deadlock is not checked: a cluster in which nothing more
happens leaves a manager that rests, and `EventuallyQuiet` says that it rests and
does not hang.

For several managers: a lost update or a double record takes two of them on one Pod,
two observations and a cache that lags; the theorems cover any number.

For the extender: two calls let the Event of an abandoned call be created after that
of the next one, and the theorems cover any number of calls and Pods; the two nodes are
symmetric; the reconciler beside it has no faults, which would make the instance too
large and which the theorem `Considered` includes; `HTTPTimeout` and `Backoff` are
in ticks, and only their order and `TicksPerSecond` matter. `MaxVolumes` 3 has every
order of a volume without a claim, with a missing and with a present one;
`MaxChanges` 2 lets claim and class change within one walk. `Slots` 2 is the least
with which answers overtake; `MaxFailures` bounds failed requests and restarts of the
dashboard's server; its two lists take away a record, its scheduler and an open row.

### Fairness

`Work` is weakly fair: a started reconcile goes on. Each queued name is taken up
eventually, as the work queue is first in first out. The watch of
SchedulingDecisions delivers eventually. Nothing is assumed of the cluster and
faults need not end by fairness, only by their bound. For the sweep: one that has
started goes on, and the CronJob starts another each hour. For `VolumeContext`: a Pod that has an
outcome is observed and the walk goes on. For the dashboard: the interval timer
fires, a request ends, its answer is handled, the informer follows; nothing is
assumed of the user.

## Proofs

For every value of the constants that satisfies the named assumptions
(`TicksAssumption`, `TextAssumption`, `NilAssumption`, `ClusterAssumption`,
`ReconcilerAssumption` and, in their modules, `RetentionAssumption`,
`ExtenderAssumption`, `OtherAssumption`, `VolumeAssumption`: types of the parameters,
at least one tick to the second, `Nil` distinct from objects, only a scheduler sends
a Pod with nodes). The inductive invariants also hold in TLC on the instances of the
runs; `EventScan`, whose lists are unbounded, has no run and is only proved about.

Reconciler:

* `TypeCorrect`: `Spec => []TypeOK`.
* `Invariance`: `Spec => []Inv`, with `Inv == TypeOK /\ DraftFollowsBase /\
  StoredInSeconds`. Append-only is not inductive by itself: between the read and
  the update the worker holds a draft, and only if the draft is known to be the
  version `base` plus one transition does acceptance of the update, which needs
  `base` to be current, give an extension of the current history. And only if the
  stored history is in whole seconds does storing it again leave it as it is.
* `AppendOnly`: `Spec => HistoryAppendOnly`, from `Invariance` and `LogStep`: only a
  Create of a missing record and an accepted update change the server.
* `Placement`: `Spec => []ChosenNodeIsPlacement`. The added invariant `NodesKnown`
  follows a node from the Pod in the cache through the worker's observation to its
  draft: wherever one is named beside a UID, `placed` has it for that UID. The record
  alone does not say this of what a worker is about to write after its Pod is gone.
* `Success`: `Spec => SuccessMeansRecorded`. A reconcile may end at a no-op test made
  on a cached copy. The added invariant `VersionsArePrefixes` says that every version
  a record has had begins its current history, so what the copy holds is recorded.
  A lost answer is no success and is not claimed to be one.
* `NoDuplicates`: `Spec => []NoAdjacentDuplicates`, if `EventClocks` is
  `{"second"}`. The added invariant `ObservedInSeconds` carries whole seconds from
  the caches through `deriveTransition` to the draft, so that the transition
  compared is the transition stored. Without the assumption the theorem is false
  (run `microtime`).
* `Refinement`: `Spec => ImplementsAuditLog`, under the same assumption. That a record
  is opened once is `VersionsArePrefixes` again: without sweeps no version is a
  deletion, so a UID that has had a record has one.

Several managers (`ManagersProofs`), for any set `Others`:

* `ManagersInvariance`: `ManagersSpec => []ManagersInv`, which is `Inv` for the manager
  whose turn it is and the same of what each waiting one holds (`OthersInv`: its types,
  and that its draft is the version it read plus one transition). A step of the manager
  whose turn it is, or of the watches, is a step of `Reconciler`, so the lemmas of
  `ReconcilerProofs` apply. What is new is that others write while a draft waits. The
  server's log only grows (`LogGrowsStep`), so the version a draft was read from stays
  what it was and the draft stays true (`Waits`); it is just no longer the last version
  and its update will be refused. A switch exchanges two states of which both are known
  good (`Resumed`).
* `ManagersAppendOnly`, `ManagersSuccess`, `ManagersPlacement`: `HistoryAppendOnly`,
  `SuccessMeansRecorded` and `ChosenNodeIsPlacement` as above. For the last the waiting
  managers' observations name no node but the one their Pod was bound to
  (`OthersPlaced`), which time does not change, as a UID is bound once.
* `ManagersNoDuplicates`, `ManagersRefinement`: `NoAdjacentDuplicates` and
  `ImplementsAuditLog`, if `EventClocks` is contained in `{"second"}`, with waiting
  observations in whole seconds as the added invariant, and `VersionsArePrefixes`. Two managers that observe the same
  outcome may both be about to record it; the one that comes second has a draft of an
  older version.

Reconciler and sweep:

* `RetentionInvariance`: `RetentionSpec => [](Inv /\ RetentionTypeOK)`, for any number
  of sweeps. A deletion is one more version, so a draft stays tied to the version it
  was read from, which then no longer is the last.
* `SweptExpired`: `RetentionSpec => SweptOnlyWhenExpired` for one sweep at a time,
  which `concurrencyPolicy: Forbid` gives. A Delete gives a name only, so the proof
  needs `ListIsCurrent`: what is on the list and not yet handled is still the record
  of that name, with the expiry it was listed with. Its reason is that nobody else
  deletes; with two sweeps it is false (see Known limits).
* `RetentionRefinement`: `RetentionSpec => ImplementsSweptLog`, for one sweep and
  Events in whole seconds. A swept record may be opened anew, so `AuditSpec` itself
  does not hold (run `reopened`). The new case is an update based on a version that was
  deleted since: it is not the last version, so the update is refused.

Derivation, extender, volumes, dashboard:

* `ScanSound`, `ScanComplete`: `ScanSpec => []ScanIsSound` and `[]ScanIsComplete`,
  for lists of any length. What the loop computes needs no induction over lists:
  the loop is a state machine and `ScanInv` its invariant, stated for the part of
  the list looked at; for completeness it adds that the first Event stays as long
  as none is later.
* `ExtenderInvariant`: `ExtenderSpec => []ExtenderInv`, for any number of calls and
  any timeout. Each step of a handler replaces one call by another with the same
  arguments and time (`CallStep`), so each Event stays tied to its call
  (`OfItsCall`) and attempts stay `Backoff` apart (`Spaced`).
* `ExtenderNeverFiltersOut`: `ExtenderSpec => []NeverFiltersOut`.
* `NewestEventOfSpacedCalls`: if `TicksPerSecond <= Backoff`, `ExtenderSpec =>
  []NewestEventIsOfNewestCall`: times a second apart stay apart when cut to whole
  seconds (`SecondsApart`). Without the assumption it is false (see Known limits).
* `Considered`: `CandidatesSpec => []ChosenNodeWasConsidered`, if the rest of the
  cluster writes no `CandidateNodes` Events. The nodes of a call reach the record on
  two ways that do not meet before it: answer, binding and Pod watch; Event, Event
  watch and `candidateNodesFrom`. `CandidateInv` follows both to the worker's
  observation and draft, and says of each what call it is from; when a name has one
  call, they are of the same. It rests on `PlacementInv` and `ExtenderInv`.
* `WalkFinds`: `Spec => WalkFindsContext` in `VolumeContext`, for any number of
  volumes, claims and classes. `WalkInv` says that, as long as nothing has changed,
  what the walk has passed over is not there and what it has read still holds; so the
  claim it stops at is there, and is the first PVC-backed volume's if that is there.
* `PageIsCurrent`: `Spec => []PageShowsItsState` in `Dashboard`, for any lists, choices
  and requests. It needs that the page keeps its fields (`IsPage`) and which of them
  the table reads (`TableReads`): renderers that leave the rest alone then leave what
  it shows right.

The operators' facts they rest on are in `DecisionProofs` (what `deriveTransition`
can return, whose node and whose candidates, what `Stored` does to an applied
transition).

Only model-checked:

* the liveness properties (out of the prover's reach, like ENABLED);
* `PanelsAgree`: it compares sums and counts over sets, which would need induction
  over them.

What recursive definitions compute is not proved by induction; the modules have
none.

## Not modelled

Flags, TLS, metrics, the webhook server and probes of the manager; generated code
and scheme registration; RBAC and manifests, of which only what they say of
concurrency and timeouts is used; `auditRequestID`, `filterResult` and `score`,
which no code sets; log messages; the page's markup, escaping and ages. The
scheduler, the API server, informers and watches are external: they are modelled
from how the code uses them.

## Plan

1. Done: `Decision`, `Reconciler`, `AuditLog`, `Retention`, their runs, type
   correctness, append-only, no duplicates, refinement.
2. Done: `EventScan`, `Managers`, `Extender`, `Candidates`, `VolumeContext`,
   `Dashboard`, their runs; proofs of `EventScan` and `Extender`.
3. Done: proofs of `ChosenNodeIsPlacement`, `SuccessMeansRecorded`, `Retention`
   (invariant, `SweptOnlyWhenExpired`, refinement), `ChosenNodeWasConsidered`,
   `WalkFindsContext`, `PageShowsItsState`.
4. Done: `Managers` for any number of managers, with turns instead of an INSTANCE of
   `Reconciler` (whose theorems the prover could not cite), its invariant, safety
   properties and refinement.
5. Left: sweeps beside several managers in one module, which `Retention` and `Managers`
   cover one at a time.
