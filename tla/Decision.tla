------------------------------ MODULE Decision ------------------------------
(***************************************************************************)
(* What the reconciler reads and writes, and the pure functions of         *)
(* controllers/decision.go that turn the Pod and its Events into a          *)
(* scheduling transition.                                                   *)
(*                                                                         *)
(* Times are counted in ticks, TicksPerSecond of them to the second; 0 is   *)
(* Go's zero time.  metav1.Time is written to the API server with whole     *)
(* seconds only, metav1.MicroTime with the full precision.                  *)
(*                                                                         *)
(* A namespaced name is one element of Names.  Nil is Go's nil.             *)
(***************************************************************************)
EXTENDS Integers, Sequences

CONSTANTS
    Nil,              \* a nil pointer, or an object that is not there
    UIDs,             \* UIDs of Pods
    Names,            \* namespace/name of Pods
    EventIds,         \* UIDs of Events
    Text,             \* messages, node names and scheduler names
    VolumeContexts,   \* what resolveVolumeContext can find
    TicksPerSecond    \* resolution of the clock

ASSUME TicksAssumption == TicksPerSecond \in Nat \ {0}

ASSUME TextAssumption == "" \in Text

-----------------------------------------------------------------------------
(* The objects of the Kubernetes API the controller reads. *)

Reasons == {"Scheduled", "FailedScheduling", "Preempted", "CandidateNodes",
            "Pulled"}

\* The PodScheduled entry of a Pod's status.conditions.
Condition == [status : {"True", "False", "Unknown"}, message : Text,
              reason : {"", "Unschedulable", "SchedulingGated"},
              lastTransitionTime : Nat]

Pod == [uid : UIDs, name : Names, schedulerName : Text,
        creationTimestamp : Nat, nodeName : Text,
        condition : Condition \cup {Nil}]

\* names stands for the message of a CandidateNodes Event: the pieces between
\* its commas, with blanks trimmed.
Event == [id : EventIds, uid : UIDs, name : Names, reason : Reasons,
          message : Text, names : SUBSET Text, lastTimestamp : Nat,
          eventTime : Nat, creationTimestamp : Nat,
          reportingController : Text, component : Text]

-----------------------------------------------------------------------------
(* The SchedulingDecision resource. *)

Outcomes == {"Scheduled", "FailedScheduling", "Preempted"}

SchedulingTransition ==
    [outcome : Outcomes, chosenNode : Text, reasonSummary : Text,
     decisionTimestamp : Nat, schedulingLatencyMs : Nat,
     candidateNodes : SUBSET Text, eventUID : EventIds \cup {Nil}]

\* The first five fields mirror the last transition; they are empty before it.
SchedulingDecisionStatus ==
    [outcome : Outcomes \cup {""}, chosenNode : Text,
     reasonSummary : Text, decisionTimestamp : Nat,
     schedulingLatencyMs : Nat, transitions : Seq(SchedulingTransition)]

SchedulingDecisionSpec ==
    [podName : Names, podUID : UIDs, schedulerName : Text,
     volumeContext : VolumeContexts \cup {Nil}]

\* expiresAt is the value of the expires-at label, in seconds; Nil is a label
\* that is missing or not a number.
SchedulingDecision ==
    [expiresAt : Nat \cup {Nil}, spec : SchedulingDecisionSpec,
     status : SchedulingDecisionStatus]

EmptyStatus ==
    [outcome |-> "", chosenNode |-> "", reasonSummary |-> "",
     decisionTimestamp |-> 0, schedulingLatencyMs |-> 0, transitions |-> <<>>]

podIdentity == [uid : UIDs, name : Names, schedulerName : Text]

\* What one derivation yields: whose decision it goes to, and the transition.
Observation == [identity : podIdentity, transition : SchedulingTransition,
                podFound : BOOLEAN]

\* Nil is told apart from every object.
ASSUME NilAssumption ==
    /\ Nil \notin Nat
    /\ Nil \notin UIDs \cup Names \cup EventIds \cup VolumeContexts
    /\ Nil \notin Pod
    /\ Nil \notin Condition
    /\ Nil \notin Event
    /\ Nil \notin SchedulingDecision
    /\ Nil \notin Observation

-----------------------------------------------------------------------------
(* Time. *)

\* A metav1.Time as the API server stores it: the part below a second is lost.
WholeSecond(t) == t - (t % TicksPerSecond)

\* time.Time.Unix()
Unix(t) == t \div TicksPerSecond

latencyMs(start, end) ==
    IF end < start THEN 0 ELSE ((end - start) * 1000) \div TicksPerSecond

eventTimestamp(e) ==
    IF e.lastTimestamp # 0 THEN e.lastTimestamp
    ELSE IF e.eventTime # 0 THEN e.eventTime
    ELSE e.creationTimestamp

\* event is an Event or Nil, cond a Condition or Nil; now stands for the call
\* of metav1.Now().
decisionTimestamp(cond, event, now) ==
    IF cond # Nil /\ cond.lastTransitionTime # 0 THEN cond.lastTransitionTime
    ELSE IF event # Nil THEN eventTimestamp(event)
    ELSE now

-----------------------------------------------------------------------------
(* Choosing among the Events of a Pod. *)

\* latestEventWithReason scans the list for a strictly later timestamp, so it
\* keeps the first of several Events with the latest one.  The list comes out
\* of an informer's index in no particular order: the result is any of them.
\* This is the set of possible results, {Nil} when no Event has the reason.
latestEventWithReason(events, reason) ==
    LET having == {e \in events : e.reason = reason}
    IN  IF having = {} THEN {Nil}
        ELSE {e \in having :
                \A f \in having : eventTimestamp(f) <= eventTimestamp(e)}

\* The candidate nodes named by a CandidateNodes Event; blank pieces are
\* dropped, no Event and no names are both nil in the code and {} here.
candidateNodesOf(event) == IF event = Nil THEN {} ELSE event.names \ {""}

\* The possible results of candidateNodesFrom.
candidateNodesFrom(events) ==
    {candidateNodesOf(e) : e \in latestEventWithReason(events, "CandidateNodes")}

-----------------------------------------------------------------------------
(* From Pod and Event to a transition. *)

firstNonEmpty(a, b) == IF a # "" THEN a ELSE b

conditionMessage(cond) == IF cond = Nil THEN "" ELSE cond.message

eventMessage(event) == IF event = Nil THEN "" ELSE event.message

eventUIDOf(event) == IF event = Nil THEN Nil ELSE event.id

\* pod is Nil when the Pod was not found.
schedulerNameFor(event, pod) ==
    LET requested == IF pod = Nil THEN "" ELSE pod.schedulerName
    IN  IF event = Nil THEN requested
        ELSE firstNonEmpty(event.reportingController,
                           firstNonEmpty(event.component, requested))

\* Mutant: the identity is taken from the Event.
identityFromPod_Event(pod, event) ==
    [uid |-> IF event = Nil THEN pod.uid ELSE event.uid, name |-> pod.name,
     schedulerName |-> schedulerNameFor(event, pod)]

identityFromPod(pod, event) ==
    [uid |-> pod.uid, name |-> pod.name,
     schedulerName |-> schedulerNameFor(event, pod)]

transitionFromScheduled(pod, cond, event, now) ==
    LET ts == decisionTimestamp(cond, event, now)
    IN  [outcome |-> "Scheduled", chosenNode |-> pod.nodeName,
         reasonSummary |-> firstNonEmpty(conditionMessage(cond),
                                         eventMessage(event)),
         decisionTimestamp |-> ts,
         schedulingLatencyMs |-> latencyMs(pod.creationTimestamp, ts),
         candidateNodes |-> {}, eventUID |-> eventUIDOf(event)]

transitionFromFailedScheduling(pod, cond, event, now) ==
    LET ts == decisionTimestamp(cond, event, now)
    IN  [outcome |-> "FailedScheduling", chosenNode |-> "",
         reasonSummary |-> firstNonEmpty(conditionMessage(cond),
                                         eventMessage(event)),
         decisionTimestamp |-> ts,
         schedulingLatencyMs |-> latencyMs(pod.creationTimestamp, ts),
         candidateNodes |-> {}, eventUID |-> eventUIDOf(event)]

identityAndTransitionFromPreemption(pod, event) ==
    LET ts == eventTimestamp(event)
    IN  [identity |->
            [uid |-> IF pod # Nil THEN pod.uid ELSE event.uid,
             name |-> IF pod # Nil THEN pod.name ELSE event.name,
             schedulerName |-> schedulerNameFor(event, pod)],
         transition |->
            [outcome |-> "Preempted", chosenNode |-> "",
             reasonSummary |-> event.message, decisionTimestamp |-> ts,
             schedulingLatencyMs |->
                IF pod # Nil THEN latencyMs(pod.creationTimestamp, ts) ELSE 0,
             candidateNodes |-> {}, eventUID |-> event.id],
         podFound |-> pod # Nil]

\* The observations of a Pod that was found: one for each Event that may be
\* the latest with the outcome's reason, and each candidate list.
observationsOfScheduled(pod, cond, events, now) ==
    {[identity |-> identityFromPod(pod, e),
      transition |-> [transitionFromScheduled(pod, cond, e, now)
                        EXCEPT !.candidateNodes = c],
      podFound |-> TRUE] :
        e \in latestEventWithReason(events, "Scheduled"),
        c \in candidateNodesFrom(events)}

observationsOfFailedScheduling(pod, cond, events, now) ==
    {[identity |-> identityFromPod(pod, e),
      transition |-> [transitionFromFailedScheduling(pod, cond, e, now)
                        EXCEPT !.candidateNodes = c],
      podFound |-> TRUE] :
        e \in latestEventWithReason(events, "FailedScheduling"),
        c \in candidateNodesFrom(events)}

\* The possible observations; {} is the code's ok = false.  A Preempted Event
\* wins whether or not the Pod is there; then the PodScheduled condition, when
\* it is conclusive; then the Events alone.
deriveTransition(pod, events, now) ==
    LET has(reason) == latestEventWithReason(events, reason) # {Nil}
        cond == pod.condition
    IN  IF has("Preempted")
          THEN {identityAndTransitionFromPreemption(pod, e) :
                    e \in latestEventWithReason(events, "Preempted")}
        ELSE IF pod = Nil THEN {}
        ELSE IF cond # Nil /\ cond.status = "True"
          THEN observationsOfScheduled(pod, cond, events, now)
        ELSE IF cond # Nil /\ cond.status = "False"
                           /\ cond.reason = "Unschedulable"
          THEN observationsOfFailedScheduling(pod, cond, events, now)
        ELSE IF has("Scheduled")
          THEN observationsOfScheduled(pod, Nil, events, now)
        ELSE IF has("FailedScheduling")
          THEN observationsOfFailedScheduling(pod, Nil, events, now)
        ELSE {}

-----------------------------------------------------------------------------
(* Recording a transition. *)

transitionsEqual(a, b) ==
    /\ a.outcome = b.outcome
    /\ a.chosenNode = b.chosenNode
    /\ a.reasonSummary = b.reasonSummary
    /\ a.decisionTimestamp = b.decisionTimestamp

\* Mutant: off by one, a history of one transition is taken for an empty one.
AlreadyLast_Two(status, transition) ==
    LET n == Len(status.transitions)
    IN  n > 1 /\ transitionsEqual(status.transitions[n], transition)

\* The transition is already the last one of the history.
AlreadyLast(status, transition) ==
    LET n == Len(status.transitions)
    IN  n > 0 /\ transitionsEqual(status.transitions[n], transition)

applyTransition(status, transition) ==
    [outcome |-> transition.outcome,
     chosenNode |-> transition.chosenNode,
     reasonSummary |-> transition.reasonSummary,
     decisionTimestamp |-> transition.decisionTimestamp,
     schedulingLatencyMs |-> transition.schedulingLatencyMs,
     transitions |-> Append(status.transitions, transition)]

\* A transition, and a status, as the API server stores them: every metav1.Time
\* in whole seconds.
StoredTransition(t) == [t EXCEPT !.decisionTimestamp = WholeSecond(@)]

Stored(status) ==
    [status EXCEPT
        !.decisionTimestamp = WholeSecond(@),
        !.transitions = [i \in 1 .. Len(@) |-> StoredTransition(@[i])]]

=============================================================================
