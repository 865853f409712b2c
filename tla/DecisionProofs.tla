--------------------------- MODULE DecisionProofs ---------------------------
(* Facts about the operators of Decision, for every value of the constants. *)
EXTENDS Decision, SequenceTheorems, TLAPS

-----------------------------------------------------------------------------
(* Time. *)

\* Writing a metav1.Time to the API server keeps it a time, never moves it
\* forward, and doing so once more changes nothing.
LEMMA WholeSecondFacts ==
    \A t \in Nat : /\ WholeSecond(t) \in Nat
                   /\ WholeSecond(t) <= t
                   /\ WholeSecond(WholeSecond(t)) = WholeSecond(t)
  <1>1. \A t \in Nat : WholeSecond(t) \in Nat /\ WholeSecond(t) <= t
    BY TicksAssumption, SMT DEF WholeSecond
  <1>2. \A t \in Nat : WholeSecond(WholeSecond(t)) = WholeSecond(t)
    BY TicksAssumption, SMT DEF WholeSecond
  <1> QED
    BY <1>1, <1>2

\* Unix() of a time is a natural number.
LEMMA UnixType == \A t \in Nat : Unix(t) \in Nat
  BY TicksAssumption, SMT DEF Unix

\* A latency is a natural number, also when the clocks disagree.
LEMMA LatencyType == \A a, b \in Nat : latencyMs(a, b) \in Nat
  <1> SUFFICES ASSUME NEW a \in Nat, NEW b \in Nat, ~(b < a)
               PROVE  ((b - a) * 1000) \div TicksPerSecond \in Nat
    BY DEF latencyMs
  <1>1. (b - a) * 1000 \in Nat
    BY SMT
  <1> QED
    BY <1>1, UnixType DEF Unix

LEMMA EventTimestampType == \A e \in Event : eventTimestamp(e) \in Nat
  BY DEF Event, eventTimestamp

LEMMA DecisionTimestampType ==
    ASSUME NEW cond \in Condition \cup {Nil}, NEW event \in Event \cup {Nil},
           NEW now \in Nat
    PROVE  decisionTimestamp(cond, event, now) \in Nat
  BY EventTimestampType DEF decisionTimestamp, Condition

-----------------------------------------------------------------------------
(* The Events of a Pod. *)

\* latestEventWithReason returns an Event of the list with that reason, none
\* of the others being later, or nil.
LEMMA LatestEvent ==
    ASSUME NEW es, NEW reason, NEW e \in latestEventWithReason(es, reason)
    PROVE  \/ e = Nil
           \/ /\ e \in es
              /\ e.reason = reason
              /\ \A f \in es : f.reason = reason =>
                    eventTimestamp(f) <= eventTimestamp(e)
  BY Zenon DEF latestEventWithReason

LEMMA CandidateNodesType ==
    ASSUME NEW es \in SUBSET Event
    PROVE  candidateNodesFrom(es) \subseteq SUBSET Text
  <1> SUFFICES ASSUME NEW e \in latestEventWithReason(es, "CandidateNodes")
               PROVE  candidateNodesOf(e) \in SUBSET Text
    BY DEF candidateNodesFrom
  <1>1. e = Nil \/ e \in Event
    BY LatestEvent
  <1> QED
    BY <1>1 DEF candidateNodesOf, Event

LEMMA SchedulerNameType ==
    ASSUME NEW event \in Event \cup {Nil}, NEW pod \in Pod \cup {Nil}
    PROVE  schedulerNameFor(event, pod) \in Text
  BY TextAssumption DEF schedulerNameFor, firstNonEmpty, Event, Pod

LEMMA ReasonSummaryType ==
    ASSUME NEW event \in Event \cup {Nil}, NEW cond \in Condition \cup {Nil}
    PROVE  firstNonEmpty(conditionMessage(cond), eventMessage(event)) \in Text
  BY TextAssumption
     DEF firstNonEmpty, conditionMessage, eventMessage, Event, Condition

-----------------------------------------------------------------------------
(* Deriving a transition. *)

LEMMA ScheduledType ==
    ASSUME NEW pod \in Pod, NEW cond \in Condition \cup {Nil},
           NEW event \in Event \cup {Nil}, NEW now \in Nat
    PROVE  transitionFromScheduled(pod, cond, event, now) \in SchedulingTransition
  <1> DEFINE ts == decisionTimestamp(cond, event, now)
             reason == firstNonEmpty(conditionMessage(cond), eventMessage(event))
  <1>1. ts \in Nat
    BY DecisionTimestampType
  <1>2. pod.nodeName \in Text /\ pod.creationTimestamp \in Nat
    BY DEF Pod
  <1>3. latencyMs(pod.creationTimestamp, ts) \in Nat
    BY <1>1, <1>2, LatencyType
  <1>4. reason \in Text
    BY ReasonSummaryType
  <1>5. eventUIDOf(event) \in EventIds \cup {Nil}
    BY DEF eventUIDOf, Event
  <1> HIDE DEF ts, reason
  <1> QED
    BY <1>1, <1>2, <1>3, <1>4, <1>5
       DEF transitionFromScheduled, SchedulingTransition, Outcomes, ts, reason

LEMMA FailedSchedulingType ==
    ASSUME NEW pod \in Pod, NEW cond \in Condition \cup {Nil},
           NEW event \in Event \cup {Nil}, NEW now \in Nat
    PROVE  transitionFromFailedScheduling(pod, cond, event, now)
                \in SchedulingTransition
  <1> DEFINE ts == decisionTimestamp(cond, event, now)
             reason == firstNonEmpty(conditionMessage(cond), eventMessage(event))
  <1>1. ts \in Nat
    BY DecisionTimestampType
  <1>2. pod.creationTimestamp \in Nat
    BY DEF Pod
  <1>3. latencyMs(pod.creationTimestamp, ts) \in Nat
    BY <1>1, <1>2, LatencyType
  <1>4. reason \in Text
    BY ReasonSummaryType
  <1>5. eventUIDOf(event) \in EventIds \cup {Nil}
    BY DEF eventUIDOf, Event
  <1> HIDE DEF ts, reason
  <1> QED
    BY <1>1, <1>3, <1>4, <1>5, TextAssumption
       DEF transitionFromFailedScheduling, SchedulingTransition, Outcomes,
           ts, reason

\* What makes an observation.
LEMMA ObservationType ==
    ASSUME NEW i \in podIdentity, NEW t \in SchedulingTransition,
           NEW b \in BOOLEAN
    PROVE  [identity |-> i, transition |-> t, podFound |-> b] \in Observation
  BY DEF Observation

LEMMA PreemptionType ==
    ASSUME NEW pod \in Pod \cup {Nil}, NEW event \in Event
    PROVE  identityAndTransitionFromPreemption(pod, event) \in Observation
  <1> DEFINE ts == eventTimestamp(event)
             latency == IF pod # Nil THEN latencyMs(pod.creationTimestamp, ts)
                        ELSE 0
             uid == IF pod # Nil THEN pod.uid ELSE event.uid
             name == IF pod # Nil THEN pod.name ELSE event.name
             scheduler == schedulerNameFor(event, pod)
  <1>1. ts \in Nat
    BY EventTimestampType
  <1>2. latency \in Nat
    BY <1>1, LatencyType DEF Pod
  <1>3. uid \in UIDs /\ name \in Names
    BY DEF Pod, Event
  <1>4. scheduler \in Text
    BY SchedulerNameType
  <1>5. event.message \in Text /\ event.id \in EventIds
    BY DEF Event
  <1>6. (pod # Nil) \in BOOLEAN
    OBVIOUS
  <1>7. identityAndTransitionFromPreemption(pod, event) =
            [identity |-> [uid |-> uid, name |-> name, schedulerName |-> scheduler],
             transition |-> [outcome |-> "Preempted", chosenNode |-> "",
                             reasonSummary |-> event.message,
                             decisionTimestamp |-> ts,
                             schedulingLatencyMs |-> latency,
                             candidateNodes |-> {}, eventUID |-> event.id],
             podFound |-> pod # Nil]
    BY DEF identityAndTransitionFromPreemption
  <1> HIDE DEF ts, latency, uid, name, scheduler
  <1>8. [uid |-> uid, name |-> name, schedulerName |-> scheduler] \in podIdentity
    BY <1>3, <1>4 DEF podIdentity
  <1>9. [outcome |-> "Preempted", chosenNode |-> "",
         reasonSummary |-> event.message, decisionTimestamp |-> ts,
         schedulingLatencyMs |-> latency, candidateNodes |-> {},
         eventUID |-> event.id] \in SchedulingTransition
    BY <1>1, <1>2, <1>5, TextAssumption DEF SchedulingTransition, Outcomes
  <1> QED
    BY <1>6, <1>7, <1>8, <1>9, ObservationType, Zenon

LEMMA ScheduledObservations ==
    ASSUME NEW pod \in Pod, NEW cond \in Condition \cup {Nil},
           NEW es \in SUBSET Event, NEW now \in Nat,
           NEW o \in observationsOfScheduled(pod, cond, es, now)
    PROVE  o \in Observation
  <1> PICK e \in latestEventWithReason(es, "Scheduled"),
           c \in candidateNodesFrom(es) :
             o = [identity |-> identityFromPod(pod, e),
                  transition |-> [transitionFromScheduled(pod, cond, e, now)
                                    EXCEPT !.candidateNodes = c],
                  podFound |-> TRUE]
    BY DEF observationsOfScheduled
  <1>1. e \in Event \cup {Nil}
    BY LatestEvent
  <1>2. c \in SUBSET Text
    BY CandidateNodesType
  <1>3. identityFromPod(pod, e) \in podIdentity
    BY <1>1, SchedulerNameType DEF identityFromPod, podIdentity, Pod
  <1>4. [transitionFromScheduled(pod, cond, e, now) EXCEPT !.candidateNodes = c]
            \in SchedulingTransition
    BY <1>1, <1>2, ScheduledType DEF SchedulingTransition
  <1> QED
    BY <1>3, <1>4, ObservationType, Zenon

LEMMA FailedSchedulingObservations ==
    ASSUME NEW pod \in Pod, NEW cond \in Condition \cup {Nil},
           NEW es \in SUBSET Event, NEW now \in Nat,
           NEW o \in observationsOfFailedScheduling(pod, cond, es, now)
    PROVE  o \in Observation
  <1> PICK e \in latestEventWithReason(es, "FailedScheduling"),
           c \in candidateNodesFrom(es) :
             o = [identity |-> identityFromPod(pod, e),
                  transition |->
                     [transitionFromFailedScheduling(pod, cond, e, now)
                        EXCEPT !.candidateNodes = c],
                  podFound |-> TRUE]
    BY DEF observationsOfFailedScheduling
  <1>1. e \in Event \cup {Nil}
    BY LatestEvent
  <1>2. c \in SUBSET Text
    BY CandidateNodesType
  <1>3. identityFromPod(pod, e) \in podIdentity
    BY <1>1, SchedulerNameType DEF identityFromPod, podIdentity, Pod
  <1>4. [transitionFromFailedScheduling(pod, cond, e, now)
            EXCEPT !.candidateNodes = c] \in SchedulingTransition
    BY <1>1, <1>2, FailedSchedulingType DEF SchedulingTransition
  <1> QED
    BY <1>3, <1>4, ObservationType, Zenon

\* deriveTransition goes one of three ways: a Preempted Event, a Scheduled or a
\* FailedScheduling outcome; in the last two the Pod was found, and the
\* condition it uses is the Pod's own, or nil when an Event alone decides.
LEMMA DeriveCases ==
    ASSUME NEW pod \in Pod \cup {Nil}, NEW es \in SUBSET Event, NEW now \in Nat,
           NEW o \in deriveTransition(pod, es, now)
    PROVE  \/ \E e \in es : o = identityAndTransitionFromPreemption(pod, e)
           \/ /\ pod \in Pod
              /\ \E cond \in {pod.condition, Nil} :
                   /\ o \in observationsOfScheduled(pod, cond, es, now)
                   /\ cond = Nil => Nil \notin latestEventWithReason(es, "Scheduled")
           \/ /\ pod \in Pod
              /\ \E cond \in {pod.condition, Nil} :
                   /\ o \in observationsOfFailedScheduling(pod, cond, es, now)
                   /\ cond = Nil =>
                        Nil \notin latestEventWithReason(es, "FailedScheduling")
  <1>1. \A r : latestEventWithReason(es, r) # {Nil} =>
            /\ Nil \notin latestEventWithReason(es, r)
            /\ latestEventWithReason(es, r) \subseteq es
    BY NilAssumption, Zenon DEF latestEventWithReason
  <1> QED
    BY <1>1, Zenon DEF deriveTransition

\* Every result of deriveTransition is an identity and a transition.
THEOREM DeriveType ==
    ASSUME NEW pod \in Pod \cup {Nil}, NEW es \in SUBSET Event, NEW now \in Nat
    PROVE  deriveTransition(pod, es, now) \subseteq Observation
  <1> SUFFICES ASSUME NEW o \in deriveTransition(pod, es, now)
               PROVE  o \in Observation
    OBVIOUS
  <1>1. pod \in Pod => pod.condition \in Condition \cup {Nil}
    BY DEF Pod
  <1>2. CASE \E e \in es : o = identityAndTransitionFromPreemption(pod, e)
    BY <1>2, PreemptionType
  <1>3. CASE pod \in Pod /\ \E cond \in {pod.condition, Nil} :
                o \in observationsOfScheduled(pod, cond, es, now)
    BY <1>1, <1>3, ScheduledObservations
  <1>4. CASE pod \in Pod /\ \E cond \in {pod.condition, Nil} :
                o \in observationsOfFailedScheduling(pod, cond, es, now)
    BY <1>1, <1>4, FailedSchedulingObservations
  <1> QED
    BY <1>2, <1>3, <1>4, DeriveCases

\* When the condition's and the Events' times are whole seconds, so is the
\* decision timestamp; metav1.Now() is never used.
THEOREM DeriveInSeconds ==
    ASSUME NEW pod \in Pod \cup {Nil}, NEW es \in SUBSET Event, NEW now \in Nat,
           pod # Nil /\ pod.condition # Nil =>
              /\ pod.condition.lastTransitionTime # 0
              /\ pod.condition.lastTransitionTime
                   = WholeSecond(pod.condition.lastTransitionTime),
           \A e \in es : eventTimestamp(e) = WholeSecond(eventTimestamp(e)),
           NEW o \in deriveTransition(pod, es, now)
    PROVE  o.transition.decisionTimestamp
             = WholeSecond(o.transition.decisionTimestamp)
  <1>0. pod \in Pod => pod # Nil
    BY NilAssumption
  <1>1. ASSUME NEW e \in es, o = identityAndTransitionFromPreemption(pod, e)
        PROVE  o.transition.decisionTimestamp = eventTimestamp(e)
    BY <1>1 DEF identityAndTransitionFromPreemption
  <1>2. ASSUME pod \in Pod, NEW cond \in {pod.condition, Nil}, NEW r,
               NEW e \in latestEventWithReason(es, r), cond = Nil => e # Nil
        PROVE  decisionTimestamp(cond, e, now)
                 = WholeSecond(decisionTimestamp(cond, e, now))
    <2>1. e # Nil => e \in es
      BY LatestEvent
    <2> QED
      BY <1>0, <1>2, <2>1 DEF decisionTimestamp
  <1>3. ASSUME pod \in Pod, NEW cond \in {pod.condition, Nil},
               o \in observationsOfScheduled(pod, cond, es, now),
               cond = Nil => Nil \notin latestEventWithReason(es, "Scheduled")
        PROVE  o.transition.decisionTimestamp
                 = WholeSecond(o.transition.decisionTimestamp)
    <2>1. PICK e \in latestEventWithReason(es, "Scheduled"),
               c \in candidateNodesFrom(es) :
             o.transition = [transitionFromScheduled(pod, cond, e, now)
                               EXCEPT !.candidateNodes = c]
      BY <1>3 DEF observationsOfScheduled
    <2>2. o.transition.decisionTimestamp = decisionTimestamp(cond, e, now)
      BY <2>1 DEF transitionFromScheduled
    <2> QED
      BY <1>2, <1>3, <2>2
  <1>4. ASSUME pod \in Pod, NEW cond \in {pod.condition, Nil},
               o \in observationsOfFailedScheduling(pod, cond, es, now),
               cond = Nil =>
                  Nil \notin latestEventWithReason(es, "FailedScheduling")
        PROVE  o.transition.decisionTimestamp
                 = WholeSecond(o.transition.decisionTimestamp)
    <2>1. PICK e \in latestEventWithReason(es, "FailedScheduling"),
               c \in candidateNodesFrom(es) :
             o.transition = [transitionFromFailedScheduling(pod, cond, e, now)
                               EXCEPT !.candidateNodes = c]
      BY <1>4 DEF observationsOfFailedScheduling
    <2>2. o.transition.decisionTimestamp = decisionTimestamp(cond, e, now)
      BY <2>1 DEF transitionFromFailedScheduling
    <2> QED
      BY <1>2, <1>4, <2>2
  <1> QED
    BY <1>1, <1>3, <1>4, DeriveCases

\* A derived outcome names no node, or the node of the Pod it is about.
LEMMA DerivedNode ==
    ASSUME NEW pod \in Pod \cup {Nil}, NEW es \in SUBSET Event, NEW now \in Nat,
           NEW o \in deriveTransition(pod, es, now)
    PROVE  \/ o.transition.chosenNode = ""
           \/ /\ pod \in Pod
              /\ o.identity.uid = pod.uid
              /\ o.transition.chosenNode = pod.nodeName
  <1>1. ASSUME NEW e \in es, o = identityAndTransitionFromPreemption(pod, e)
        PROVE  o.transition.chosenNode = ""
    BY <1>1 DEF identityAndTransitionFromPreemption
  <1>2. ASSUME NEW cond, o \in observationsOfScheduled(pod, cond, es, now)
        PROVE  /\ o.identity.uid = pod.uid
               /\ o.transition.chosenNode = pod.nodeName
    <2>1. PICK e \in latestEventWithReason(es, "Scheduled"),
               c \in candidateNodesFrom(es) :
             /\ o.identity = identityFromPod(pod, e)
             /\ o.transition = [transitionFromScheduled(pod, cond, e, now)
                                  EXCEPT !.candidateNodes = c]
      BY <1>2 DEF observationsOfScheduled
    <2> QED
      BY <2>1 DEF identityFromPod, transitionFromScheduled
  <1>3. ASSUME NEW cond, o \in observationsOfFailedScheduling(pod, cond, es, now)
        PROVE  o.transition.chosenNode = ""
    <2>1. PICK e \in latestEventWithReason(es, "FailedScheduling"),
               c \in candidateNodesFrom(es) :
             o.transition = [transitionFromFailedScheduling(pod, cond, e, now)
                               EXCEPT !.candidateNodes = c]
      BY <1>3 DEF observationsOfFailedScheduling
    <2> QED
      BY <2>1 DEF transitionFromFailedScheduling
  <1> QED
    BY <1>1, <1>2, <1>3, DeriveCases

\* The candidates of an observation are those of a CandidateNodes Event in the
\* list, and only a Pod that was found gets any.
CandidatesListed(o, pod, es) ==
    \/ o.transition.candidateNodes = {}
    \/ /\ pod \in Pod
       /\ o.identity.uid = pod.uid
       /\ \E e \in es : /\ e.reason = "CandidateNodes"
                        /\ o.transition.candidateNodes = e.names \ {""}

LEMMA DerivedCandidates ==
    ASSUME NEW pod \in Pod \cup {Nil}, NEW es \in SUBSET Event, NEW now \in Nat,
           NEW o \in deriveTransition(pod, es, now)
    PROVE  CandidatesListed(o, pod, es)
  <1>1. ASSUME NEW e \in es, o = identityAndTransitionFromPreemption(pod, e)
        PROVE  o.transition.candidateNodes = {}
    BY <1>1 DEF identityAndTransitionFromPreemption
  <1>2. ASSUME NEW c \in candidateNodesFrom(es), c # {}
        PROVE  \E e \in es : e.reason = "CandidateNodes" /\ c = e.names \ {""}
    <2>1. PICK e \in latestEventWithReason(es, "CandidateNodes") :
             c = candidateNodesOf(e)
      BY DEF candidateNodesFrom
    <2>2. e # Nil /\ c = e.names \ {""}
      BY <1>2, <2>1 DEF candidateNodesOf
    <2>3. e \in es /\ e.reason = "CandidateNodes"
      BY <2>1, <2>2, LatestEvent
    <2> QED
      BY <2>2, <2>3
  <1>3. ASSUME NEW cond, o \in observationsOfScheduled(pod, cond, es, now)
        PROVE  /\ o.identity.uid = pod.uid
               /\ o.transition.candidateNodes \in candidateNodesFrom(es)
    <2>1. PICK e \in latestEventWithReason(es, "Scheduled"),
               c \in candidateNodesFrom(es) :
             /\ o.identity = identityFromPod(pod, e)
             /\ o.transition = [transitionFromScheduled(pod, cond, e, now)
                                  EXCEPT !.candidateNodes = c]
      BY <1>3 DEF observationsOfScheduled
    <2> QED
      BY <2>1 DEF identityFromPod, transitionFromScheduled
  <1>4. ASSUME NEW cond, o \in observationsOfFailedScheduling(pod, cond, es, now)
        PROVE  /\ o.identity.uid = pod.uid
               /\ o.transition.candidateNodes \in candidateNodesFrom(es)
    <2>1. PICK e \in latestEventWithReason(es, "FailedScheduling"),
               c \in candidateNodesFrom(es) :
             /\ o.identity = identityFromPod(pod, e)
             /\ o.transition = [transitionFromFailedScheduling(pod, cond, e, now)
                                  EXCEPT !.candidateNodes = c]
      BY <1>4 DEF observationsOfFailedScheduling
    <2>2. \E u, v, w, x, y, z :
             transitionFromFailedScheduling(pod, cond, e, now)
               = [outcome |-> u, chosenNode |-> v, reasonSummary |-> w,
                  decisionTimestamp |-> x, schedulingLatencyMs |-> y,
                  candidateNodes |-> {}, eventUID |-> z]
      BY Zenon DEF transitionFromFailedScheduling
    <2>3. o.transition.candidateNodes = c
      BY <2>1, <2>2
    <2> QED
      BY <2>1, <2>3 DEF identityFromPod
  <1> QED
    BY <1>1, <1>2, <1>3, <1>4, DeriveCases DEF CandidatesListed

-----------------------------------------------------------------------------
(* The status. *)

LEMMA EmptyStatusType == EmptyStatus \in SchedulingDecisionStatus
  <1>1. <<>> \in Seq(SchedulingTransition)
    OBVIOUS
  <1> QED
    BY <1>1, TextAssumption DEF EmptyStatus, SchedulingDecisionStatus

LEMMA ApplyType ==
    ASSUME NEW s \in SchedulingDecisionStatus, NEW t \in SchedulingTransition
    PROVE  applyTransition(s, t) \in SchedulingDecisionStatus
  <1>1. /\ t.outcome \in Outcomes /\ t.chosenNode \in Text
        /\ t.reasonSummary \in Text /\ t.decisionTimestamp \in Nat
        /\ t.schedulingLatencyMs \in Nat
    BY DEF SchedulingTransition
  <1>2. Append(s.transitions, t) \in Seq(SchedulingTransition)
    BY AppendProperties DEF SchedulingDecisionStatus
  <1> QED
    BY <1>1, <1>2 DEF applyTransition, SchedulingDecisionStatus

LEMMA StoredTransitionType ==
    ASSUME NEW t \in SchedulingTransition
    PROVE  StoredTransition(t) \in SchedulingTransition
  BY WholeSecondFacts DEF StoredTransition, SchedulingTransition

LEMMA StoredType ==
    ASSUME NEW s \in SchedulingDecisionStatus
    PROVE  Stored(s) \in SchedulingDecisionStatus
  <1>1. s.transitions \in Seq(SchedulingTransition)
    BY DEF SchedulingDecisionStatus
  <1>2. [i \in 1 .. Len(s.transitions) |-> StoredTransition(s.transitions[i])]
            \in Seq(SchedulingTransition)
    <2>1. \A i \in 1 .. Len(s.transitions) :
              StoredTransition(s.transitions[i]) \in SchedulingTransition
      BY <1>1, ElementOfSeq, StoredTransitionType
    <2> QED
      BY <1>1, <2>1
  <1>3. WholeSecond(s.decisionTimestamp) \in Nat
    BY WholeSecondFacts DEF SchedulingDecisionStatus
  <1> QED
    BY <1>2, <1>3 DEF Stored, SchedulingDecisionStatus

\* Storing a status to which a transition was applied is storing the transition
\* and applying it to the stored status: what was stored before stays as it is.
LEMMA StoredApply ==
    ASSUME NEW s \in SchedulingDecisionStatus, NEW t \in SchedulingTransition,
           \A i \in 1 .. Len(s.transitions) :
              StoredTransition(s.transitions[i]) = s.transitions[i]
    PROVE  Stored(applyTransition(s, t)) = applyTransition(s, StoredTransition(t))
  <1> DEFINE old == s.transitions
             new == Append(old, t)
  <1>1. old \in Seq(SchedulingTransition) /\ Len(old) \in Nat
    BY LenProperties DEF SchedulingDecisionStatus
  <1>2. /\ new \in Seq(SchedulingTransition) /\ Len(new) = Len(old) + 1
        /\ \A i \in 1 .. Len(old) : new[i] = old[i]
        /\ new[Len(old) + 1] = t
    BY <1>1, AppendProperties
  <1>3. [i \in 1 .. Len(new) |-> StoredTransition(new[i])]
            = Append(old, StoredTransition(t))
    <2> DEFINE f == [i \in 1 .. Len(new) |-> StoredTransition(new[i])]
               g == Append(old, StoredTransition(t))
    <2>1. f \in Seq(SchedulingTransition) /\ Len(f) = Len(old) + 1
      <3>1. \A i \in 1 .. Len(new) : StoredTransition(new[i]) \in SchedulingTransition
        BY <1>2, ElementOfSeq, StoredTransitionType
      <3> QED
        BY <1>1, <1>2, <3>1
    <2>2. /\ g \in Seq(SchedulingTransition) /\ Len(g) = Len(old) + 1
          /\ \A i \in 1 .. Len(old) : g[i] = old[i]
          /\ g[Len(old) + 1] = StoredTransition(t)
      BY <1>1, StoredTransitionType, AppendProperties
    <2>3. \A i \in 1 .. Len(old) + 1 : f[i] = g[i]
      BY <1>1, <1>2, <2>2
    <2> QED
      BY <2>1, <2>2, <2>3, SeqEqual
  <1>4. StoredTransition(t) = [t EXCEPT !.decisionTimestamp =
                                          WholeSecond(t.decisionTimestamp)]
    BY DEF StoredTransition
  <1>5. /\ StoredTransition(t).outcome = t.outcome
        /\ StoredTransition(t).chosenNode = t.chosenNode
        /\ StoredTransition(t).reasonSummary = t.reasonSummary
        /\ StoredTransition(t).decisionTimestamp = WholeSecond(t.decisionTimestamp)
        /\ StoredTransition(t).schedulingLatencyMs = t.schedulingLatencyMs
    BY <1>4 DEF SchedulingTransition
  <1> HIDE DEF new, old
  <1>6. applyTransition(s, t) =
            [outcome |-> t.outcome, chosenNode |-> t.chosenNode,
             reasonSummary |-> t.reasonSummary,
             decisionTimestamp |-> t.decisionTimestamp,
             schedulingLatencyMs |-> t.schedulingLatencyMs, transitions |-> new]
    BY DEF applyTransition, new, old
  <1>7. Stored(applyTransition(s, t)) =
            [outcome |-> t.outcome, chosenNode |-> t.chosenNode,
             reasonSummary |-> t.reasonSummary,
             decisionTimestamp |-> WholeSecond(t.decisionTimestamp),
             schedulingLatencyMs |-> t.schedulingLatencyMs,
             transitions |-> [i \in 1 .. Len(new) |-> StoredTransition(new[i])]]
    <2> DEFINE a == applyTransition(s, t)
               f == [i \in 1 .. Len(new) |-> StoredTransition(new[i])]
    <2>1. a.transitions = new /\ a.decisionTimestamp = t.decisionTimestamp
      BY <1>6
    <2>2. Stored(a) = [a EXCEPT
                         !.decisionTimestamp = WholeSecond(a.decisionTimestamp),
                         !.transitions = [i \in 1 .. Len(a.transitions) |->
                                            StoredTransition(a.transitions[i])]]
      BY Zenon DEF Stored
    <2>3. Stored(a) = [a EXCEPT
                         !.decisionTimestamp = WholeSecond(t.decisionTimestamp),
                         !.transitions = f]
      BY <2>1, <2>2, Zenon
    <2> HIDE DEF f, a
    <2>4. a = [outcome |-> t.outcome, chosenNode |-> t.chosenNode,
               reasonSummary |-> t.reasonSummary,
               decisionTimestamp |-> t.decisionTimestamp,
               schedulingLatencyMs |-> t.schedulingLatencyMs,
               transitions |-> new]
      BY <1>6 DEF a
    <2>5. Stored(a) = [outcome |-> t.outcome, chosenNode |-> t.chosenNode,
                       reasonSummary |-> t.reasonSummary,
                       decisionTimestamp |-> WholeSecond(t.decisionTimestamp),
                       schedulingLatencyMs |-> t.schedulingLatencyMs,
                       transitions |-> f]
      BY <2>3, <2>4
    <2> QED
      BY <2>5, Zenon DEF a, f
  <1>8. applyTransition(s, StoredTransition(t)) =
            [outcome |-> t.outcome, chosenNode |-> t.chosenNode,
             reasonSummary |-> t.reasonSummary,
             decisionTimestamp |-> WholeSecond(t.decisionTimestamp),
             schedulingLatencyMs |-> t.schedulingLatencyMs,
             transitions |-> Append(old, StoredTransition(t))]
    BY <1>5, Zenon DEF applyTransition, old
  <1> QED
    BY <1>3, <1>7, <1>8, Zenon

=============================================================================
