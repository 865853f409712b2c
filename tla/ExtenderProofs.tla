--------------------------- MODULE ExtenderProofs ---------------------------
(***************************************************************************)
(* Theorems about the extender alone and beside the reconciler (Candidates), *)
(* for every value of their constants.                                       *)
(***************************************************************************)
EXTENDS Candidates, ReconcilerProofs, SequenceTheorems

-----------------------------------------------------------------------------
(* Requests and answers. *)

\* What a scheduler sends is not nil, has a Pod, and the passthrough answer
\* keeps all of its nodes.
LEMMA SchedulerArgsFacts ==
    ASSUME NEW a \in SchedulerArgs
    PROVE  /\ a \in ExtenderArgs /\ a # Nil
           /\ a.pod \in UIDs
           /\ Kept(a, passthroughResult(a)) = candidateNodeNames(a)
  <1>1. a \in ExtenderArgs /\ a.pod # Nil /\ (a.nodes = Nil) # (a.nodeNames = Nil)
    BY DEF SchedulerArgs
  <1>2. a # Nil
    BY <1>1, ArgsAssumption
  <1>3. a.pod \in UIDs
    BY <1>1 DEF ExtenderArgs
  <1>4. Kept(a, passthroughResult(a)) = candidateNodeNames(a)
    BY <1>1 DEF Kept, passthroughResult, candidateNodeNames
  <1> QED
    BY <1>1, <1>2, <1>3, <1>4

\* An answer has the form of the protocol, and names are among Nodes.
LEMMA AnswerType ==
    ASSUME NEW a \in ExtenderArgs
    PROVE  /\ passthroughResult(a) \in ExtenderFilterResult
           /\ candidateNodeNames(a) \in SUBSET Text
  <1>1. a.nodes \in NodeList /\ a.nodeNames \in NodeList
    BY DEF ExtenderArgs
  <1>2. passthroughResult(a) \in ExtenderFilterResult
    BY <1>1 DEF passthroughResult, ExtenderFilterResult
  <1>3. candidateNodeNames(a) \in SUBSET Nodes
    BY <1>1 DEF candidateNodeNames, NodeList
  <1> QED
    BY <1>2, <1>3, ClusterAssumption

\* Times a second apart differ also when they are cut to whole seconds.
LEMMA SecondsApart ==
    ASSUME NEW a \in Nat, NEW b \in Nat, a + TicksPerSecond <= b
    PROVE  WholeSecond(a) < WholeSecond(b)
  <1>1. a % TicksPerSecond \in Nat /\ b % TicksPerSecond \in 0 .. TicksPerSecond - 1
    BY TicksAssumption
  <1> QED
    BY <1>1, TicksAssumption DEF WholeSecond

\* A time of at least a second is not cut to Go's zero time.
LEMMA NotZeroTime ==
    ASSUME NEW a \in Nat, TicksPerSecond <= a
    PROVE  WholeSecond(a) \in Nat \ {0}
  <1>1. a % TicksPerSecond \in 0 .. TicksPerSecond - 1
    BY TicksAssumption
  <1> QED
    BY <1>1, TicksAssumption DEF WholeSecond

-----------------------------------------------------------------------------
(* The inductive invariant. *)

\* The server starts without calls.
LEMMA ExtenderInitInv == ExtenderInit => ExtenderInv
  <1> SUFFICES ASSUME ExtenderInit PROVE ExtenderInv
    OBVIOUS
  <1>1. now = TicksPerSecond /\ calls = <<>> /\ reported = {}
    BY DEF ExtenderInit
  <1>2. Len(calls) = 0 /\ calls \in Seq(Call)
    BY <1>1
  <1>3. Started = {}
    BY <1>2 DEF Started
  <1>4. ExtenderTypeOK
    BY <1>1, <1>2, TicksAssumption, ExtenderAssumption DEF ExtenderTypeOK
  <1> QED
    BY <1>1, <1>3, <1>4, TicksAssumption DEF ExtenderInv, Spaced, Asked

\* The Event of a call that is at its Create is of the kind Decision reads.
LEMMA RecordedEvent ==
    ASSUME ExtenderInv, NEW c \in Started, calls[c].args \in SchedulerArgs
    PROVE  /\ recordCandidateNodes(c) \in Event
           /\ OfItsCall(recordCandidateNodes(c))
  <1> DEFINE e == recordCandidateNodes(c)
             args == calls[c].args
  <1>1. /\ calls \in Seq(Call) /\ Len(calls) \in Nat /\ Len(calls) <= MaxCalls
        /\ now \in Nat
    BY DEF ExtenderInv, ExtenderTypeOK
  <1>2. c \in EventIds
    BY <1>1, ExtenderAssumption DEF Started
  <1>3. calls[c] \in Call
    BY <1>1 DEF Started
  <1>4. calls[c].since \in Nat
    BY <1>3 DEF Call
  <1>5. WholeSecond(calls[c].since) \in Nat /\ WholeSecond(now) \in Nat
    BY <1>1, <1>4, WholeSecondFacts
  <1>6. args \in ExtenderArgs /\ args.pod \in UIDs
    BY SchedulerArgsFacts
  <1>7. NameOf[args.pod] \in Names
    BY <1>6, ClusterAssumption
  <1>8. candidateNodeNames(args) \in SUBSET Text
    BY <1>6, AnswerType
  <1>9. /\ e.id = c /\ e.uid = args.pod /\ e.reason = "CandidateNodes"
        /\ e.name = NameOf[args.pod] /\ e.names = candidateNodeNames(args)
        /\ e.lastTimestamp = WholeSecond(calls[c].since)
    BY DEF recordCandidateNodes
  <1>10. "CandidateNodes" \in Reasons
    BY DEF Reasons
  <1>11. "sch-audit-extender" \in Text /\ "" \in Text
    BY ExtenderAssumption, TextAssumption
  <1>12. e \in Event
    <2> HIDE DEF args
    <2>1. e = [id |-> c, uid |-> args.pod, name |-> NameOf[args.pod],
               reason |-> "CandidateNodes", message |-> "",
               names |-> candidateNodeNames(args),
               lastTimestamp |-> WholeSecond(calls[c].since), eventTime |-> 0,
               creationTimestamp |-> WholeSecond(now),
               reportingController |-> "sch-audit-extender", component |-> ""]
      BY DEF recordCandidateNodes, args
    <2>2. 0 \in Nat
      OBVIOUS
    <2> HIDE DEF e
    <2> QED
      BY <2>1, <2>2, <1>2, <1>5, <1>6, <1>7, <1>8, <1>10, <1>11 DEF Event
  <1>13. OfItsCall(e)
    <2> HIDE DEF e
    <2> QED
      BY <1>9 DEF OfItsCall, args
  <1> QED
    BY <1>12, <1>13

\* A step in which one call changes, and neither what was asked nor when.
LEMMA CallStep ==
    ASSUME ExtenderInv, NEW c \in Started, NEW r \in Call,
           calls' = [calls EXCEPT ![c] = r],
           r.args = calls[c].args, r.since = calls[c].since,
           GoodCall(r, now), now' = now,
           reported' \subseteq reported \cup {recordCandidateNodes(c)},
           reported' # reported => calls[c].args \in SchedulerArgs
    PROVE  ExtenderInv'
  <1>1. /\ calls \in Seq(Call) /\ Len(calls) \in Nat /\ Len(calls) <= MaxCalls
        /\ now \in Nat /\ reported \subseteq Event /\ TicksPerSecond <= now
        /\ \A d \in Started : GoodCall(calls[d], now)
        /\ \A e \in reported : OfItsCall(e)
        /\ Spaced
    BY DEF ExtenderInv, ExtenderTypeOK
  <1>2. /\ calls' \in Seq(Call) /\ Len(calls') = Len(calls)
        /\ \A d \in Started : calls'[d] = IF d = c THEN r ELSE calls[d]
    BY <1>1, ExceptSeq DEF Started
  <1>3. Started' = Started
    BY <1>2 DEF Started
  <1>4. \A d \in Started : /\ calls'[d].args = calls[d].args
                           /\ calls'[d].since = calls[d].since
    BY <1>2
  <1>5. \A e \in reported' : e \in Event /\ OfItsCall(e)
    BY <1>1, RecordedEvent
  <1>6. ExtenderTypeOK'
    BY <1>1, <1>2, <1>5 DEF ExtenderTypeOK
  <1>7. \A d \in Started' : GoodCall(calls'[d], now')
    BY <1>1, <1>2, <1>3
  <1>8. \A e \in reported' : OfItsCall(e)'
    BY <1>3, <1>4, <1>5 DEF OfItsCall
  <1>9. Spaced'
    BY <1>1, <1>3, <1>4 DEF Spaced
  <1>10. Asked'
    BY <1>3, <1>4 DEF ExtenderInv, Asked
  <1> QED
    BY <1>1, <1>6, <1>7, <1>8, <1>9, <1>10 DEF ExtenderInv

\* The handler of a call, and its client, keep the invariant.
LEMMA AnswerStep ==
    ASSUME ExtenderInv, NEW c \in Started, NEW status \in {200, 400},
           NEW result \in ExtenderFilterResult \cup {Nil},
           Answer(c, status, result), UNCHANGED <<now, reported>>,
           status = 200 => /\ calls[c].args # Nil
                           /\ result = passthroughResult(calls[c].args),
           status = 400 => calls[c].args = Nil
    PROVE  ExtenderInv'
  <1> DEFINE st == IF calls[c].gone THEN 0 ELSE status
             re == IF calls[c].gone THEN Nil ELSE result
             r == [calls[c] EXCEPT !.pc = "done", !.status = st, !.result = re]
  <1>1. calls[c] \in Call /\ GoodCall(calls[c], now)
    BY DEF ExtenderInv, ExtenderTypeOK, Started
  <1>2. r.args = calls[c].args /\ r.since = calls[c].since
    BY <1>1 DEF Call
  <1>3. r \in Call
    <2>1. st \in {0, 200, 400} /\ re \in ExtenderFilterResult \cup {Nil}
      OBVIOUS
    <2> DEFINE r1 == [calls[c] EXCEPT !.pc = "done"]
               r2 == [r1 EXCEPT !.status = st]
    <2>2. r = [r2 EXCEPT !.result = re]
      OBVIOUS
    <2> HIDE DEF r, st, re
    <2>3. r1 \in Call
      BY <1>1 DEF Call
    <2> HIDE DEF r1
    <2>4. r2 \in Call
      BY <2>1, <2>3 DEF Call
    <2> HIDE DEF r2
    <2> QED
      BY <2>1, <2>2, <2>4 DEF Call
  <1>4. GoodCall(r, now)
    BY <1>1 DEF GoodCall, Call
  <1>5. calls' = [calls EXCEPT ![c] = r]
    BY Zenon DEF Answer
  <1>6. /\ now' = now /\ reported' = reported
        /\ reported' \subseteq reported \cup {recordCandidateNodes(c)}
    OBVIOUS
  <1>7. reported' # reported => calls[c].args \in SchedulerArgs
    BY <1>6
  <1> HIDE DEF r, st, re
  <1> QED
    BY ONLY ExtenderInv, c \in Started, <1>2, <1>3, <1>4, <1>5, <1>6, <1>7, CallStep

LEMMA GotoStep ==
    ASSUME ExtenderInv, NEW c \in Started, NEW step \in {"create", "answer"},
           Goto(c, step), UNCHANGED now,
           reported' \subseteq reported \cup {recordCandidateNodes(c)},
           reported' # reported => calls[c].args \in SchedulerArgs,
           step = "create" => calls[c].args \in SchedulerArgs,
           step = "answer" => calls[c].args # Nil
    PROVE  ExtenderInv'
  <1> DEFINE r == [calls[c] EXCEPT !.pc = step]
  <1>1. calls[c] \in Call /\ GoodCall(calls[c], now)
    BY DEF ExtenderInv, ExtenderTypeOK, Started
  <1>2. r \in Call /\ r.args = calls[c].args /\ r.since = calls[c].since
    BY <1>1 DEF Call
  <1>3. GoodCall(r, now)
    BY <1>1 DEF GoodCall, Call
  <1>4. calls' = [calls EXCEPT ![c] = r]
    BY DEF Goto
  <1> HIDE DEF r
  <1> QED
    BY <1>2, <1>3, <1>4, CallStep

\* Only a scheduler's request is for a Pod and has nodes; every other one is
\* excluded by OtherAssumption.
LEMMA RecordedArgs ==
    ASSUME ExtenderInv, NEW c \in Started, calls[c].args # Nil,
           calls[c].args.pod # Nil, candidateNodeNames(calls[c].args) # {}
    PROVE  calls[c].args \in SchedulerArgs
  BY OtherAssumption DEF ExtenderInv, Asked

LEMMA HandlerInv ==
    ASSUME ExtenderInv, NEW c \in Started, Handler(c)
    PROVE  ExtenderInv'
  <1>0. GoodCall(calls[c], now) /\ calls[c] \in Call
    BY DEF ExtenderInv, ExtenderTypeOK, Started
  <1>1. CASE Decode(c)
    <2>1. CASE calls[c].args = Nil /\ Answer(c, 400, Nil)
      BY <1>1, <2>1, AnswerStep DEF Decode
    <2>2. CASE /\ calls[c].args # Nil
               /\ Goto(c, IF calls[c].args.pod # Nil
                             /\ candidateNodeNames(calls[c].args) # {}
                          THEN "create" ELSE "answer")
      <3>1. CASE calls[c].args.pod # Nil /\ candidateNodeNames(calls[c].args) # {}
        <4>1. Goto(c, "create") /\ UNCHANGED <<now, reported>>
          BY <1>1, <2>2, <3>1 DEF Decode
        <4>2. calls[c].args \in SchedulerArgs
          BY <2>2, <3>1, RecordedArgs
        <4> QED
          BY <4>1, <4>2, GotoStep
      <3>2. CASE ~(calls[c].args.pod # Nil /\ candidateNodeNames(calls[c].args) # {})
        <4>1. Goto(c, "answer") /\ UNCHANGED <<now, reported>>
          BY <1>1, <2>2, <3>2 DEF Decode
        <4> QED
          BY <2>2, <4>1, GotoStep
      <3> QED
        BY <3>1, <3>2
    <2> QED
      BY <1>1, <2>1, <2>2 DEF Decode
  <1>2. CASE CreateEvent(c) \/ CreateFails(c)
    <2>1. /\ calls[c].pc = "create" /\ Goto(c, "answer") /\ UNCHANGED now
          /\ reported' \subseteq reported \cup {recordCandidateNodes(c)}
      BY <1>2 DEF CreateEvent, CreateFails
    <2>2. calls[c].args \in SchedulerArgs
      BY <1>0, <2>1 DEF GoodCall
    <2>3. calls[c].args # Nil
      BY <2>2, SchedulerArgsFacts
    <2> QED
      BY <2>1, <2>2, <2>3, GotoStep
  <1>3. CASE Respond(c)
    <2>1. /\ calls[c].pc = "answer" /\ UNCHANGED <<now, reported>>
          /\ Answer(c, 200, passthroughResult(calls[c].args))
      BY <1>3 DEF Respond
    <2>2. calls[c].args \in ExtenderArgs
      BY <1>0, <2>1 DEF GoodCall, Call
    <2>3. passthroughResult(calls[c].args) \in ExtenderFilterResult
      BY <2>2, AnswerType
    <2>4. calls[c].args # Nil
      BY <1>0, <2>1 DEF GoodCall
    <2> QED
      BY <2>1, <2>3, <2>4, AnswerStep
  <1> QED
    BY <1>1, <1>2, <1>3 DEF Handler

LEMMA GiveUpInv ==
    ASSUME ExtenderInv, NEW c \in Started, GiveUp(c)
    PROVE  ExtenderInv'
  <1> DEFINE r == [calls[c] EXCEPT !.gone = TRUE]
  <1>1. calls[c] \in Call /\ GoodCall(calls[c], now)
    BY DEF ExtenderInv, ExtenderTypeOK, Started
  <1>2. r \in Call /\ r.args = calls[c].args /\ r.since = calls[c].since
    BY <1>1 DEF Call
  <1>3. GoodCall(r, now)
    BY <1>1 DEF GoodCall, Call
  <1>4. calls' = [calls EXCEPT ![c] = r] /\ UNCHANGED <<now, reported>>
    BY DEF GiveUp
  <1> HIDE DEF r
  <1> QED
    BY <1>2, <1>3, <1>4, CallStep

\* The clock.
LEMMA PassInv == ExtenderInv /\ Pass => ExtenderInv'
  <1> SUFFICES ASSUME ExtenderInv, Pass PROVE ExtenderInv'
    OBVIOUS
  <1>1. /\ now \in Nat /\ now' = now + 1 /\ calls' = calls /\ reported' = reported
        /\ calls \in Seq(Call) /\ Len(calls) <= MaxCalls
        /\ reported \subseteq Event /\ TicksPerSecond <= now
    BY DEF Pass, TimePasses, ExtenderInv, ExtenderTypeOK
  <1>2. Started' = Started
    BY <1>1 DEF Started
  <1>3. \A d \in Started : calls[d] \in Call
    BY <1>1 DEF Started
  <1>4. \A d \in Started : GoodCall(calls[d], now')
    <2> TAKE d \in Started
    <2>1. GoodCall(calls[d], now) /\ calls[d].since \in Nat
      BY <1>3 DEF ExtenderInv, Call
    <2> QED
      BY <1>1, <2>1, TicksAssumption DEF GoodCall
  <1>5. ExtenderTypeOK'
    BY <1>1 DEF ExtenderTypeOK
  <1>6. TicksPerSecond <= now'
    BY <1>1, TicksAssumption
  <1>7. (\A e \in reported : OfItsCall(e))' /\ Spaced' /\ Asked'
    BY <1>1, <1>2 DEF ExtenderInv, OfItsCall, Spaced, Asked
  <1> QED
    BY <1>1, <1>2, <1>4, <1>5, <1>6, <1>7 DEF ExtenderInv

\* A new call comes after all others, and for a Pod Backoff after them.
LEMMA RequestInv ==
    ASSUME ExtenderInv, NEW a \in SchedulerArgs \cup OtherArgs, Request(a)
    PROVE  ExtenderInv'
  <1> DEFINE r == [args |-> a, pc |-> "decode", since |-> now,
                   gone |-> FALSE, status |-> 0, result |-> Nil]
             n == Len(calls) + 1
  <1>1. /\ calls \in Seq(Call) /\ Len(calls) \in Nat /\ Len(calls) < MaxCalls
        /\ now \in Nat /\ reported \subseteq Event /\ TicksPerSecond <= now
        /\ calls' = Append(calls, r) /\ now' = now /\ reported' = reported
        /\ MaxCalls \in Nat
    BY ExtenderAssumption DEF ExtenderInv, ExtenderTypeOK, Request
  <1>2. a \in ExtenderArgs \cup {Nil}
    BY SchedulerArgsFacts, OtherAssumption
  <1>3. r \in Call
    BY <1>1, <1>2 DEF Call
  <1>4. GoodCall(r, now)
    BY <1>1, TicksAssumption DEF GoodCall
  <1>5. r.args = a /\ r.since = now
    OBVIOUS
  <1> HIDE DEF r
  <1>6. /\ calls' \in Seq(Call) /\ Len(calls') = n
        /\ \A d \in Started : calls'[d] = calls[d]
        /\ calls'[n] = r
    BY <1>1, <1>3, AppendProperties DEF Started
  <1>7. Started' = Started \cup {n} /\ n \notin Started
    BY <1>1, <1>6 DEF Started
  <1>8. ExtenderTypeOK'
    BY <1>1, <1>6 DEF ExtenderTypeOK
  <1>9. \A d \in Started' : GoodCall(calls'[d], now')
    BY <1>1, <1>4, <1>6, <1>7 DEF ExtenderInv
  <1>10. \A e \in reported' : OfItsCall(e)'
    BY <1>1, <1>6, <1>7 DEF ExtenderInv, OfItsCall
  <1>11. Spaced'
    <2> SUFFICES ASSUME NEW c \in Started', NEW d \in Started', c < d,
                        {calls'[c].args, calls'[d].args} \subseteq SchedulerArgs,
                        calls'[c].args.pod = calls'[d].args.pod
                 PROVE  calls'[c].since + Backoff <= calls'[d].since
      BY DEF Spaced
    <2>1. CASE c \in Started /\ d \in Started
      BY <1>6, <2>1 DEF ExtenderInv, Spaced
    <2>2. CASE c \in Started /\ d = n
      <3>1. calls'[c] = calls[c] /\ calls'[d] = r
        BY <1>6, <2>2
      <3>2. now >= calls[c].since + Backoff
        BY <1>5, <2>2, <3>1 DEF Request
      <3>3. calls[c] \in Call
        BY <1>1, <2>2 DEF Started
      <3>4. calls[c].since \in Nat
        BY <3>3 DEF Call
      <3> QED
        BY <1>1, <1>5, <3>1, <3>2, <3>4, ExtenderAssumption
    <2>3. CASE c = n
      BY <1>1, <1>7, <2>3 DEF Started
    <2> QED
      BY <1>7, <2>1, <2>2, <2>3
  <1>12. Asked'
    BY <1>5, <1>6, <1>7 DEF ExtenderInv, Asked
  <1> QED
    BY <1>1, <1>8, <1>9, <1>10, <1>11, <1>12 DEF ExtenderInv

\* Every step of the extender, of its clients and of the clock.
LEMMA ExtenderNextInv == ExtenderInv /\ [ExtenderNext]_extenderVars => ExtenderInv'
  <1> SUFFICES ASSUME ExtenderInv, [ExtenderNext]_extenderVars
               PROVE  ExtenderInv'
    OBVIOUS
  <1>1. CASE \E a \in SchedulerArgs \cup OtherArgs : Request(a)
    BY <1>1, RequestInv
  <1>2. CASE \E c \in Started : Handler(c) \/ GiveUp(c)
    BY <1>2, HandlerInv, GiveUpInv
  <1>3. CASE Pass
    BY <1>3, PassInv
  <1>4. CASE UNCHANGED extenderVars
    BY <1>4 DEF extenderVars, ExtenderInv, ExtenderTypeOK, Started, GoodCall,
                OfItsCall, Spaced, Asked
  <1> QED
    BY <1>1, <1>2, <1>3, <1>4 DEF ExtenderNext, ExtenderStep

\* The extender keeps its invariant: its types, and with them that every Event
\* it writes is one Decision reads, is of a scheduler's call and carries the
\* second that call was made in (filterHandler, recordCandidateNodes).
THEOREM ExtenderInvariant == ExtenderSpec => []ExtenderInv
  <1> QED
    BY ExtenderInitInv, ExtenderNextInv, PTL DEF ExtenderSpec

-----------------------------------------------------------------------------
(* What the scheduler and the reconciler may rely on. *)

\* However many calls overlap and however their Creates end, an answer to a
\* scheduler keeps all of its nodes (filterHandler, passthroughResult).
THEOREM ExtenderNeverFiltersOut == ExtenderSpec => []NeverFiltersOut
  <1>1. ExtenderInv => NeverFiltersOut
    <2> SUFFICES ASSUME ExtenderInv, NEW c \in Started,
                        calls[c].args \in SchedulerArgs, calls[c].status # 0
                 PROVE  /\ calls[c].status = 200
                        /\ Kept(calls[c].args, calls[c].result)
                             = Sent(calls[c].args)
      BY DEF NeverFiltersOut
    <2>1. calls[c] \in Call /\ GoodCall(calls[c], now)
      BY DEF ExtenderInv, ExtenderTypeOK, Started
    <2>2. calls[c].status \in {200, 400}
      BY <2>1 DEF Call
    <2>3. calls[c].args # Nil
      BY SchedulerArgsFacts
    <2>4. calls[c].status = 200 /\ calls[c].result = passthroughResult(calls[c].args)
      BY <2>1, <2>2, <2>3 DEF GoodCall
    <2>5. Sent(calls[c].args) = candidateNodeNames(calls[c].args)
      BY DEF Sent, candidateNodeNames, SchedulerArgs
    <2> QED
      BY <2>4, <2>5, SchedulerArgsFacts
  <1> QED
    BY <1>1, ExtenderInvariant, PTL

\* If a Pod's attempts are at least a second apart, the CandidateNodes Event
\* with the latest timestamp is that of its newest call, in whatever order the
\* Events were created (recordCandidateNodes, latestEventWithReason).
THEOREM NewestEventOfSpacedCalls ==
    ASSUME TicksPerSecond <= Backoff
    PROVE  ExtenderSpec => []NewestEventIsOfNewestCall
  <1>1. ExtenderInv => NewestEventIsOfNewestCall
    <2> SUFFICES ASSUME ExtenderInv, NEW u \in UIDs,
                        NEW e \in latestEventWithReason(
                                    {g \in reported : g.uid = u}, "CandidateNodes"),
                        NEW f \in {g \in reported : g.uid = u}
                 PROVE  f.id <= e.id
      BY DEF NewestEventIsOfNewestCall
    <2> DEFINE mine == {g \in reported : g.uid = u}
    <2>1. \A g \in mine :
             /\ g \in Event /\ g.reason = "CandidateNodes" /\ g.uid = u
             /\ g.id \in Started /\ calls[g.id].args \in SchedulerArgs
             /\ calls[g.id].args.pod = u
             /\ g.lastTimestamp = WholeSecond(calls[g.id].since)
      BY DEF ExtenderInv, ExtenderTypeOK, OfItsCall
    <2>2. \A c \in Started : /\ c \in Nat /\ calls[c].since \in Nat
                             /\ TicksPerSecond <= calls[c].since
      <3> TAKE c \in Started
      <3>1. calls[c] \in Call /\ GoodCall(calls[c], now) /\ c \in Nat
        BY DEF ExtenderInv, ExtenderTypeOK, Started
      <3> QED
        BY <3>1 DEF Call, GoodCall
    <2>3. \A g \in mine : eventTimestamp(g) = WholeSecond(calls[g.id].since)
      BY <2>1, <2>2, NotZeroTime DEF eventTimestamp
    <2>4. e \in mine /\ eventTimestamp(f) <= eventTimestamp(e)
      <3>1. \E g \in mine : g.reason = "CandidateNodes"
        BY <2>1
      <3> QED
        BY <2>1, <3>1 DEF latestEventWithReason
    <2>5. SUFFICES ASSUME e.id < f.id PROVE FALSE
      BY <2>1, <2>2, <2>4
    <2>6. calls[e.id].since + Backoff <= calls[f.id].since
      BY <2>1, <2>4, <2>5 DEF ExtenderInv, Spaced
    <2>7. calls[e.id].since + TicksPerSecond <= calls[f.id].since
      BY <2>1, <2>2, <2>4, <2>6, TicksAssumption, ExtenderAssumption
    <2>8. WholeSecond(calls[e.id].since) < WholeSecond(calls[f.id].since)
      BY <2>1, <2>2, <2>4, <2>7, SecondsApart
    <2>9. /\ WholeSecond(calls[e.id].since) \in Nat
          /\ WholeSecond(calls[f.id].since) \in Nat
      BY <2>1, <2>2, <2>4, WholeSecondFacts
    <2> QED
      BY <2>3, <2>4, <2>8, <2>9
  <1> QED
    BY <1>1, ExtenderInvariant, PTL

-----------------------------------------------------------------------------
(* Candidates: the node a Pod went to is among the candidates recorded with  *)
(* it when its name has been scheduled for once, for any number of Pods,     *)
(* nodes and calls.  The argument follows the nodes of a call on two ways:   *)
(* to the scheduler, which binds the Pod to one of them, and through the     *)
(* Event, the cache and the worker to the record.  CandidateInv says of each *)
(* place on the second way that the candidates there are those of a call for *)
(* a Pod of the name.                                                        *)

\* The candidate nodes of the scheduler's calls for Pods of name k.
CallsFor(k) ==
    {c \in Started : /\ calls[c].args \in SchedulerArgs
                     /\ NameOf[calls[c].args.pod] = k}
Offers(k) == {candidateNodeNames(calls[c].args) : c \in CallsFor(k)}

FromOffer(e) == e.reason = "CandidateNodes" => e.names \in Offers(e.name)

\* The candidates a transition of Pod u carries.
Sourced(t, u) ==
    t.candidateNodes # {} =>
        \E ns \in Offers(NameOf[u]) : t.candidateNodes = ns \ {""}

EventsFromCalls ==
    /\ \A e \in events \cup listed : FromOffer(e)
    /\ \A e \in listed : e.name = key

PlacedFromCalls ==
    \A u \in UIDs : placed[u] # "" =>
        \E ns \in Offers(NameOf[u]) : placed[u] \in ns

ObservedFromCalls ==
    observed # Nil => Sourced(observed.transition, observed.identity.uid)

RecordedFromCalls ==
    \A u \in UIDs : Current(u) # Nil =>
        \A i \in 1 .. Len(History(u)) : Sourced(History(u)[i], u)

CandidateInv ==
    /\ PlacementInv /\ ExtenderInv
    /\ EventsFromCalls /\ PlacedFromCalls /\ ObservedFromCalls
    /\ RecordedFromCalls

-----------------------------------------------------------------------------
(* Calls. *)

\* What has been asked stays asked.
LEMMA OffersGrow ==
    ASSUME ExtenderInv, [ExtenderNext]_extenderVars
    PROVE  \A k : Offers(k) \subseteq Offers(k)'
  <1>0. calls \in Seq(Call) /\ Len(calls) \in Nat
    BY DEF ExtenderInv, ExtenderTypeOK
  <1>1. ASSUME \A c \in Started : c \in Started' /\ calls'[c].args = calls[c].args
        PROVE  \A k : Offers(k) \subseteq Offers(k)'
    BY <1>1 DEF Offers, CallsFor
  <1>2. CASE UNCHANGED calls
    BY <1>1, <1>2 DEF Started
  <1>3. ASSUME NEW r, calls' = Append(calls, r)
        PROVE  \A c \in Started : c \in Started' /\ calls'[c] = calls[c]
    BY <1>0, <1>3 DEF Started
  <1>4. ASSUME NEW a, Request(a)
        PROVE  \A c \in Started : c \in Started' /\ calls'[c] = calls[c]
    BY <1>3, <1>4 DEF Request
  <1>5. ASSUME NEW c \in Started, NEW r, calls' = [calls EXCEPT ![c] = r],
               r.args = calls[c].args
        PROVE  \A d \in Started : d \in Started' /\ calls'[d].args = calls[d].args
    BY <1>0, <1>5 DEF Started
  <1>6. ASSUME NEW c \in Started, Handler(c) \/ GiveUp(c)
        PROVE  \A d \in Started : d \in Started' /\ calls'[d].args = calls[d].args
    <2>1. calls[c] \in Call
      BY <1>0 DEF Started
    <2>2. ASSUME NEW status, NEW result, Answer(c, status, result)
          PROVE  \A d \in Started : d \in Started' /\ calls'[d].args = calls[d].args
      <3>1. PICK s, r : calls' = [calls EXCEPT ![c] =
                          [@ EXCEPT !.pc = "done", !.status = s, !.result = r]]
        BY <2>2 DEF Answer
      <3>2. calls' = [calls EXCEPT ![c] =
               [calls[c] EXCEPT !.pc = "done", !.status = s, !.result = r]]
        BY <1>0, <3>1 DEF Started
      <3>3. [calls[c] EXCEPT !.pc = "done", !.status = s, !.result = r].args
              = calls[c].args
        BY <2>1 DEF Call
      <3> QED
        BY <1>5, <3>2, <3>3
    <2>3. ASSUME NEW step, Goto(c, step)
          PROVE  \A d \in Started : d \in Started' /\ calls'[d].args = calls[d].args
      <3>1. calls' = [calls EXCEPT ![c] = [calls[c] EXCEPT !.pc = step]]
        BY <1>0, <2>3 DEF Goto, Started
      <3>2. [calls[c] EXCEPT !.pc = step].args = calls[c].args
        BY <2>1 DEF Call
      <3> QED
        BY <1>5, <3>1, <3>2
    <2>4. CASE GiveUp(c)
      <3>1. calls' = [calls EXCEPT ![c] = [calls[c] EXCEPT !.gone = TRUE]]
        BY <1>0, <2>4 DEF GiveUp, Started
      <3>2. [calls[c] EXCEPT !.gone = TRUE].args = calls[c].args
        BY <2>1 DEF Call
      <3> QED
        BY <1>5, <3>1, <3>2
    <2>5. CASE Decode(c)
      BY <2>2, <2>3, <2>5, Zenon DEF Decode
    <2>6. CASE CreateEvent(c) \/ CreateFails(c)
      BY <2>3, <2>6, Zenon DEF CreateEvent, CreateFails
    <2>7. CASE Respond(c)
      BY <2>2, <2>7, Zenon DEF Respond
    <2> QED
      BY <1>6, <2>4, <2>5, <2>6, <2>7 DEF Handler
  <1>7. CASE Pass
    BY <1>2, <1>7 DEF Pass
  <1>8. CASE UNCHANGED extenderVars
    BY <1>2, <1>8 DEF extenderVars
  <1> QED
    BY <1>1, <1>4, <1>6, <1>7, <1>8 DEF ExtenderNext, ExtenderStep

\* A Pod is bound to a node of a scheduler's call for it.
LEMMA AnsweredNode ==
    ASSUME ExtenderInv, NEW u \in UIDs, BoundAsAnswered(u)
    PROVE  \E ns \in Offers(NameOf[u]) : placed'[u] \in ns
  <1>1. PICK c \in Started :
           /\ calls[c].args \in SchedulerArgs /\ calls[c].args.pod = u
           /\ calls[c].status = 200
           /\ placed'[u] \in Kept(calls[c].args, calls[c].result)
    BY DEF BoundAsAnswered, CallFor
  <1>2. PICK a : a = calls[c].args
    OBVIOUS
  <1>3. a # Nil /\ calls[c].result = passthroughResult(a)
    BY <1>1, <1>2 DEF ExtenderInv, GoodCall
  <1>4. placed'[u] \in candidateNodeNames(a)
    BY <1>1, <1>2, <1>3 DEF Kept, passthroughResult, candidateNodeNames
  <1> QED
    BY <1>1, <1>2, <1>4 DEF Offers, CallsFor

-----------------------------------------------------------------------------
(* Steps of the manager and of the cluster. *)

\* The environment's own Events are not the extender's.
LEMMA EventsStep ==
    ASSUME "CandidateNodes" \notin EventReasons, TypeOK, EventsFromCalls,
           [Next]_vars
    PROVE  \A e \in events' : FromOffer(e)
  <1>0. /\ events \subseteq Event
        /\ \A e \in events : FromOffer(e)
    BY DEF TypeOK, ClusterTypeOK, EventsFromCalls
  <1>1. CASE UNCHANGED events
    BY <1>0, <1>1
  <1>2. ASSUME NEW i, NEW u, NEW reason \in EventReasons, NEW m, NEW clock, NEW lag,
               EventAdded(i, u, reason, m, clock, lag)
        PROVE  \A e \in events' : FromOffer(e)
    <2>1. PICK e : events' = events \cup {e} /\ e.reason = reason
      <3> DEFINE e == [id |-> i, uid |-> u, name |-> NameOf[u], reason |-> reason,
                       message |-> m,
                       names |-> IF reason = "CandidateNodes" THEN Nodes ELSE {},
                       lastTimestamp |->
                          IF clock = "second" THEN StampOf(lag) ELSE 0,
                       eventTime |-> IF clock = "micro" THEN now - lag ELSE 0,
                       creationTimestamp |-> StampOf(lag),
                       reportingController |->
                          IF clock = "micro" THEN "default-scheduler" ELSE "",
                       component |-> "scheduler"]
      <3>1. events' = events \cup {e}
        BY <1>2, Zenon DEF EventAdded
      <3>2. e.reason = reason
        OBVIOUS
      <3> QED
        BY <3>1, <3>2, Zenon
    <2>2. FromOffer(e)
      BY <2>1 DEF FromOffer
    <2> QED
      BY <1>0, <2>1, <2>2
  <1>3. ASSUME NEW e \in events, EventRepeated(e) \/ EventExpired(e)
        PROVE  \A f \in events' : FromOffer(f)
    <2>1. PICK f : /\ f = [e EXCEPT !.lastTimestamp = WholeSecond(now)]
                   /\ events' \subseteq events \cup {f}
      BY <1>3 DEF EventRepeated, EventExpired
    <2>2. f.reason = e.reason /\ f.name = e.name /\ f.names = e.names
      BY <1>0, <2>1 DEF Event
    <2>3. FromOffer(f)
      BY <1>0, <2>2 DEF FromOffer
    <2> QED
      BY <1>0, <2>1, <2>3
  <1>4. CASE ~Environment
    BY <1>1, <1>4, ClusterKept DEF cluster
  <1>5. CASE Environment
    <2>1. ASSUME NEW k, NEW m, NEW n, NEW lag, NEW u, NEW c,
                 \/ PodAdded(u, c) \/ PodUnschedulable(k, m, lag)
                 \/ PodBound(k, n, lag) \/ PodDeleted(k) \/ PodTouched(k) \/ Tick
          PROVE  UNCHANGED events
      BY <2>1, Zenon DEF PodAdded, PodUnschedulable, PodBound, PodDeleted,
                         PodTouched, Tick, cluster
    <2> QED
      BY <1>1, <1>2, <1>3, <1>5, <2>1, Zenon DEF Environment
  <1> QED
    BY <1>4, <1>5

\* The worker lists Events of the name it works on, and keeps the list no
\* longer than that name.
LEMMA ListedStep ==
    ASSUME [Next]_vars
    PROVE  \/ listed' \subseteq events /\ \A e \in listed' : e.name = key'
           \/ listed' = listed /\ key' = key
  <1>1. CASE Environment
    BY <1>1, OutsideOfManager DEF locals
  <1>2. CASE \E k \in Names : ListEvents(k)
    BY <1>2 DEF ListEvents, Locals, listRelevantEvents
  <1>3. CASE Work
    <2>1. listed' = {}
      BY <1>3 DEF Work, GetPod, GetDecision, CreateDecision, FetchDecision,
                  UpdateStatus, Retry, Requeue, Done, Release, Locals
    <2> QED
      BY <2>1
  <1>4. CASE Faults
    <2>1. listed' = {}
      BY <1>4 DEF Faults, ReadFails, WriteFails, WriteReplyLost, Restart,
                  Requeue, Release, Locals
    <2> QED
      BY <2>1
  <1>5. CASE (\E u \in UIDs : CacheAdvance(u)) \/ UNCHANGED vars
    BY <1>5 DEF CacheAdvance, vars, locals
  <1> QED
    BY <1>1, <1>2, <1>3, <1>4, <1>5 DEF Next

\* What the worker observes is derived from the Pod and the Events listed.
LEMMA ObservedStep ==
    ASSUME [Next]_vars
    PROVE  \/ observed' \in {Nil, observed}
           \/ /\ pc = "pod"
              /\ observed' \in deriveTransition(pod[key], listed, now)
  <1>1. CASE Environment
    BY <1>1, OutsideOfManager DEF locals
  <1>2. CASE GetPod
    BY <1>2 DEF GetPod, Done, Release, Locals
  <1>3. CASE ~Environment /\ ~GetPod
    BY <1>3 DEF vars, locals, Next, ListEvents, Work, GetDecision,
                CreateDecision, FetchDecision, UpdateStatus, Retry, Faults,
                ReadFails, WriteFails, WriteReplyLost, Restart, CacheAdvance,
                Requeue, Done, Release, Locals
  <1> QED
    BY <1>1, <1>2, <1>3

\* The candidates of an observation are those of a call for the name.
LEMMA ObservedSourced ==
    ASSUME CandidateInv, pc = "pod",
           NEW o \in deriveTransition(pod[key], listed, now)
    PROVE  Sourced(o.transition, o.identity.uid)
  <1>1. /\ key \in Names /\ pod[key] \in Pod \cup {Nil}
        /\ listed \in SUBSET Event /\ now \in Nat
    BY DEF CandidateInv, PlacementInv, Inv, TypeOK, ClusterTypeOK, WorkerTypeOK
  <1>2. CandidatesListed(o, pod[key], listed)
    BY <1>1, DerivedCandidates
  <1>3. CASE o.transition.candidateNodes = {}
    BY <1>3 DEF Sourced
  <1>4. CASE o.transition.candidateNodes # {}
    <2>1. PICK e \in listed : /\ e.reason = "CandidateNodes"
                              /\ o.transition.candidateNodes = e.names \ {""}
      BY <1>2, <1>4, Zenon DEF CandidatesListed
    <2>2. NameOf[o.identity.uid] = key
      <3>1. pod[key] \in Pod /\ o.identity.uid = pod[key].uid
        BY <1>2, <1>4, Zenon DEF CandidatesListed
      <3> QED
        BY <1>1, <3>1, NilAssumption DEF CandidateInv, PlacementInv, NodesKnown
    <2>3. e.name = key /\ e.names \in Offers(e.name)
      BY <2>1 DEF CandidateInv, EventsFromCalls, FromOffer
    <2> QED
      BY <2>1, <2>2, <2>3, Zenon DEF Sourced
  <1> QED
    BY <1>3, <1>4

\* What is recorded was observed.  The steps are those of PlacementStep.
LEMMA RecordedStep ==
    ASSUME CandidateInv, [Next]_vars, UNCHANGED calls
    PROVE  RecordedFromCalls'
  <1>0. /\ Inv /\ TypeOK /\ StoreTypeOK /\ WorkerTypeOK
        /\ ObservedFromCalls /\ RecordedFromCalls
    BY DEF CandidateInv, PlacementInv, Inv, TypeOK
  <1>1. ASSUME \A u \in UIDs : Current(u)' # Nil =>
                  \A i \in 1 .. Len(Current(u)'.status.transitions) :
                     Sourced(Current(u)'.status.transitions[i], u)
        PROVE  RecordedFromCalls'
    <2>1. \A k : Offers(k)' = Offers(k)
      BY Zenon DEF Offers, CallsFor, Started
    <2> QED
      BY <1>1, <2>1, Zenon DEF RecordedFromCalls, Sourced, History
  <1>2. ASSUME NEW u \in UIDs, NEW d, Current(u)' = d,
               \A v \in UIDs \ {u} : Current(v)' = Current(v),
               \A i \in 1 .. Len(d.status.transitions) :
                  Sourced(d.status.transitions[i], u)
        PROVE  RecordedFromCalls'
    <2> SUFFICES ASSUME NEW v \in UIDs, Current(v)' # Nil,
                        NEW i \in 1 .. Len(Current(v)'.status.transitions)
                 PROVE  Sourced(Current(v)'.status.transitions[i], v)
      BY <1>1, Zenon
    <2>1. CASE v = u
      BY <1>2, <2>1, Zenon
    <2>2. CASE v # u
      <3>1. Current(v)' = Current(v)
        BY <1>2, <2>2
      <3>2. Sourced(Current(v).status.transitions[i], v)
        BY <1>0, <3>1, Zenon DEF RecordedFromCalls, History
      <3> QED
        BY <3>1, <3>2, Zenon
    <2> QED
      BY <2>1, <2>2
  <1>3. CASE log' = log
    <2>1. \A v \in UIDs : Current(v)' = Current(v)
      BY <1>3 DEF Current, Version
    <2> SUFFICES ASSUME NEW v \in UIDs, Current(v)' # Nil,
                        NEW i \in 1 .. Len(Current(v)'.status.transitions)
                 PROVE  Sourced(Current(v)'.status.transitions[i], v)
      BY <1>1, Zenon
    <2>2. Sourced(Current(v).status.transitions[i], v)
      BY <1>0, <2>1, Zenon DEF RecordedFromCalls, History
    <2> QED
      BY <2>1, <2>2, Zenon
  <1>4. ASSUME pc = "create", NEW u, u = observed.identity.uid,
               log' = [log EXCEPT ![u] = Append(@, draft)]
        PROVE  RecordedFromCalls'
    <2>1. u \in UIDs /\ draft \in SchedulingDecision
      BY <1>0, <1>4, ObservationParts DEF WorkerTypeOK
    <2>2. /\ Current(u)' = draft
          /\ \A v \in UIDs \ {u} : Current(v)' = Current(v)
      BY <1>0, <1>4, <2>1, AfterAppend
    <2>3. Len(draft.status.transitions) = 0
      BY <1>0, <1>4, NewHasNoHistory DEF Inv
    <2>4. 1 .. Len(draft.status.transitions) = {}
      BY <2>3
    <2> QED
      BY <1>2, <2>1, <2>2, <2>4, Zenon
  <1>5. ASSUME pc = "update", NEW u, u = observed.identity.uid,
               Accepts(u), ServerUpdate(u)
        PROVE  RecordedFromCalls'
    <2>1. PICK t : t = StoredTransition(observed.transition)
      OBVIOUS
    <2>2. /\ u \in UIDs /\ Current(u) \in SchedulingDecision
          /\ t \in SchedulingTransition
          /\ Current(u)' = [Current(u) EXCEPT !.status = applyTransition(@, t)]
          /\ \A v \in UIDs \ {u} : Current(v)' = Current(v)
      BY <1>0, <1>5, <2>1, AcceptedUpdate
    <2>3. PICK d \in SchedulingDecision : d = Current(u)
      BY <2>2
    <2>4. PICK e : e = [d EXCEPT !.status = applyTransition(@, t)]
      OBVIOUS
    <2>5. /\ Len(d.status.transitions) \in Nat
          /\ Len(e.status.transitions) = Len(d.status.transitions) + 1
          /\ \A i \in 1 .. Len(d.status.transitions) :
                e.status.transitions[i] = d.status.transitions[i]
          /\ e.status.transitions[Len(d.status.transitions) + 1] = t
      BY <2>2, <2>4, AppliedHistory
    <2>6. Sourced(t, u)
      <3>1. observed \in Observation /\ observed.transition \in SchedulingTransition
        BY <1>0, <1>5, ObservationParts DEF WorkerTypeOK
      <3>2. t.candidateNodes = observed.transition.candidateNodes
        BY <2>1, <3>1 DEF StoredTransition, SchedulingTransition
      <3>3. Sourced(observed.transition, u)
        BY <1>0, <1>5, <3>1, NilAssumption DEF ObservedFromCalls
      <3> QED
        BY <3>2, <3>3, Zenon DEF Sourced
    <2>7. \A i \in 1 .. Len(d.status.transitions) :
             Sourced(d.status.transitions[i], u)
      <3>1. Current(u) # Nil
        BY <2>2, NilAssumption
      <3> QED
        BY <1>0, <2>2, <2>3, <3>1, Zenon DEF RecordedFromCalls, History
    <2>8. \A i \in 1 .. Len(e.status.transitions) :
             Sourced(e.status.transitions[i], u)
      <3> SUFFICES ASSUME NEW i \in 1 .. Len(e.status.transitions)
                   PROVE  Sourced(e.status.transitions[i], u)
        OBVIOUS
      <3>1. PICK n \in Nat : n = Len(d.status.transitions)
        BY <2>5
      <3>2. i = n + 1 \/ i \in 1 .. n
        BY <2>5, <3>1
      <3>3. CASE i = n + 1
        BY <2>5, <2>6, <3>1, <3>3, Zenon
      <3>4. CASE i \in 1 .. n
        BY <2>5, <2>7, <3>1, <3>4, Zenon
      <3> QED
        BY <3>2, <3>3, <3>4
    <2>9. Current(u)' = e
      BY <2>2, <2>3, <2>4
    <2> QED
      BY <1>2, <2>2, <2>8, <2>9, Zenon
  <1> QED
    BY <1>0, <1>3, <1>4, <1>5, LogStep

LEMMA ManagerKeeps ==
    ASSUME "CandidateNodes" \notin EventReasons, CandidateInv, ManagerStep
    PROVE  CandidateInv'
  <1>0. /\ PlacementInv /\ Inv /\ TypeOK /\ NodesKnown /\ ExtenderInv
        /\ EventsFromCalls /\ PlacedFromCalls /\ ObservedFromCalls
        /\ [Next]_vars /\ UNCHANGED calls
    BY DEF CandidateInv, PlacementInv, Inv, ManagerStep
  <1>1. \A k : Offers(k)' = Offers(k)
    BY <1>0, Zenon DEF Offers, CallsFor, Started
  <1>2. PlacementInv'
    BY <1>0, InvStep, NodesManager, NodesEnvironment, PlacementStep DEF PlacementInv
  <1>3. ExtenderInv'
    <2>1. [ExtenderNext]_extenderVars
      BY DEF ManagerStep, ExtenderNext, extenderVars
    <2> QED
      BY <1>0, <2>1, ExtenderNextInv
  <1>4. EventsFromCalls'
    <2>1. \A e \in events' \cup listed' : FromOffer(e)
      BY <1>0, EventsStep, ListedStep DEF EventsFromCalls
    <2>2. \A e \in listed' : e.name = key'
      BY <1>0, ListedStep DEF EventsFromCalls
    <2>3. \A e : FromOffer(e)' <=> FromOffer(e)
      BY <1>1, Zenon DEF FromOffer
    <2> QED
      BY <2>1, <2>2, <2>3 DEF EventsFromCalls
  <1>5. PlacedFromCalls'
    <2> SUFFICES ASSUME NEW u \in UIDs, placed'[u] # ""
                 PROVE  \E ns \in Offers(NameOf[u]) : placed'[u] \in ns
      BY <1>1, Zenon DEF PlacedFromCalls
    <2>1. CASE placed'[u] = placed[u]
      BY <1>0, <2>1, Zenon DEF PlacedFromCalls
    <2>2. CASE placed'[u] # placed[u]
      BY <1>0, <2>2, AnsweredNode DEF ManagerStep
    <2> QED
      BY <2>1, <2>2
  <1>6. ObservedFromCalls'
    <2>1. \A t, u : Sourced(t, u)' <=> Sourced(t, u)
      BY <1>1, Zenon DEF Sourced
    <2>2. observed' # Nil => Sourced(observed'.transition, observed'.identity.uid)
      BY <1>0, ObservedStep, ObservedSourced DEF ObservedFromCalls
    <2> QED
      BY <2>1, <2>2 DEF ObservedFromCalls
  <1> QED
    BY <1>0, <1>2, <1>3, <1>4, <1>5, <1>6, RecordedStep DEF CandidateInv

-----------------------------------------------------------------------------
(* Steps of the extender and of its Events. *)

LEMMA ObserverKeeps ==
    ASSUME CandidateInv, ObserverStep
    PROVE  CandidateInv'
  <1>0. /\ PlacementInv /\ Inv /\ TypeOK /\ NodesKnown /\ ExtenderInv
        /\ EventsFromCalls /\ PlacedFromCalls /\ ObservedFromCalls
        /\ RecordedFromCalls /\ UNCHANGED vars
    BY DEF CandidateInv, PlacementInv, Inv, ObserverStep
  <1>1. [Next]_vars
    BY <1>0
  <1>2. PlacementInv'
    BY <1>0, <1>1, InvStep, NodesManager, NodesEnvironment, PlacementStep
       DEF PlacementInv
  <1>3. ExtenderInv' /\ \A k : Offers(k) \subseteq Offers(k)'
    BY <1>0, ExtenderNextInv, OffersGrow DEF ObserverStep, ExtenderNext
  <1>4. /\ UNCHANGED <<events, listed, key, placed, observed, log>>
        /\ \A u \in UIDs : Current(u)' = Current(u)
    BY <1>0, Zenon DEF vars, cluster, locals, store, Current, Version
  <1>5. EventsFromCalls'
    BY <1>0, <1>3, <1>4, Zenon DEF EventsFromCalls, FromOffer
  <1>6. PlacedFromCalls'
    BY <1>0, <1>3, <1>4, Zenon DEF PlacedFromCalls
  <1>7. \A t, u : Sourced(t, u) => Sourced(t, u)'
    BY <1>3, Zenon DEF Sourced
  <1>8. ObservedFromCalls'
    BY <1>0, <1>4, <1>7, Zenon DEF ObservedFromCalls
  <1>9. RecordedFromCalls'
    BY <1>0, <1>4, <1>7, Zenon DEF RecordedFromCalls, History
  <1> QED
    BY <1>2, <1>3, <1>5, <1>6, <1>8, <1>9 DEF CandidateInv

\* An Event that arrives is of a call for its Pod.
LEMMA DeliveredKeeps ==
    ASSUME CandidateInv, NEW e \in reported, CandidatesDelivered(e)
    PROVE  CandidateInv'
  <1>0. /\ PlacementInv /\ Inv /\ TypeOK /\ NodesKnown /\ ExtenderInv
        /\ EventsFromCalls /\ PlacedFromCalls /\ ObservedFromCalls
        /\ RecordedFromCalls /\ ClusterTypeOK /\ WorkerTypeOK
        /\ e \in Event /\ OfItsCall(e)
    BY DEF CandidateInv, PlacementInv, Inv, TypeOK, ExtenderInv, ExtenderTypeOK
  <1>1. /\ UNCHANGED <<now, pc, locals, store, disturbances, pod, born, placed,
                      calls, reported>>
        /\ events' = events \cup {e}
        /\ about' = [about EXCEPT ![e.id] = e.uid]
        /\ news' \in 0 .. MaxNews
        /\ queue' \subseteq queue \cup {e.name}
    <2>1. news' = news + 1 /\ news < MaxNews /\ news \in 0 .. MaxNews
      BY <1>0 DEF CandidatesDelivered, Deliver, ClusterTypeOK
    <2>2. news' \in 0 .. MaxNews
      BY <2>1, ReconcilerAssumption
    <2> QED
      BY <2>2, Zenon DEF CandidatesDelivered, Deliver, EnqueueFor
  <1>2. Inv'
    <2>1. ClusterTypeOK'
      BY <1>0, <1>1 DEF ClusterTypeOK, Event
    <2>2. WorkerTypeOK'
      BY <1>0, <1>1 DEF WorkerTypeOK, locals, Event
    <2>3. StoreTypeOK' /\ (disturbances \in 0 .. MaxDisturbances)'
      BY <1>0, <1>1 DEF TypeOK, StoreTypeOK, store
    <2>4. DraftFollowsBase'
      BY <1>0, <1>1 DEF Inv, DraftFollowsBase, locals, store
    <2>5. StoredInSeconds'
      BY <1>0, <1>1 DEF Inv, StoredInSeconds, Current, Version, History, store
    <2> QED
      BY <2>1, <2>2, <2>3, <2>4, <2>5 DEF Inv, TypeOK
  <1>3. /\ UNCHANGED <<listed, key, observed>>
        /\ \A u \in UIDs : Current(u)' = Current(u)
        /\ \A k : Offers(k)' = Offers(k)
    BY <1>1, Zenon DEF locals, store, Current, Version, Offers, CallsFor, Started
  <1>4. PlacementInv'
    <2>1. NodesKnown'
      BY <1>0, <1>1, <1>3, Zenon DEF NodesKnown
    <2>2. ChosenNodeIsPlacement'
      BY <1>0, <1>1, <1>3, Zenon DEF PlacementInv, ChosenNodeIsPlacement, History
    <2> QED
      BY <1>2, <2>1, <2>2 DEF PlacementInv
  <1>5. ExtenderInv'
    BY <1>0, <1>1, ExtenderNextInv DEF extenderVars
  <1>6. EventsFromCalls'
    <2>1. e.names \in Offers(e.name)
      BY <1>0 DEF OfItsCall, Offers, CallsFor
    <2> QED
      BY <1>0, <1>1, <1>3, <2>1, Zenon DEF EventsFromCalls, FromOffer
  <1>7. PlacedFromCalls'
    BY <1>0, <1>1, <1>3, Zenon DEF PlacedFromCalls
  <1>8. \A t, u : Sourced(t, u)' <=> Sourced(t, u)
    BY <1>3, Zenon DEF Sourced
  <1>9. ObservedFromCalls'
    BY <1>0, <1>3, <1>8, Zenon DEF ObservedFromCalls
  <1>10. RecordedFromCalls'
    BY <1>0, <1>3, <1>8, Zenon DEF RecordedFromCalls, History
  <1> QED
    BY <1>4, <1>5, <1>6, <1>7, <1>9, <1>10 DEF CandidateInv

LEMMA CandidateStep ==
    ASSUME "CandidateNodes" \notin EventReasons, CandidateInv,
           [CandidatesNext]_candidateVars
    PROVE  CandidateInv'
  <1>1. CASE UNCHANGED candidateVars
    <2>1. UNCHANGED <<vars, calls, reported>>
      BY <1>1 DEF candidateVars
    <2>2. PlacementInv'
      BY <2>1, InvStep, NodesManager, NodesEnvironment, PlacementStep
         DEF CandidateInv, PlacementInv
    <2>3. now' = now
      BY <2>1 DEF vars, cluster
    <2>4. ExtenderInv'
      BY <2>1, <2>3, ExtenderNextInv DEF CandidateInv, extenderVars
    <2>5. /\ UNCHANGED <<events, listed, key, placed, observed>>
          /\ \A u \in UIDs : Current(u)' = Current(u)
          /\ \A k : Offers(k)' = Offers(k)
      BY <2>1, Zenon DEF vars, cluster, locals, store, Current, Version, Offers,
                         CallsFor, Started
    <2> QED
      BY <2>2, <2>4, <2>5, Zenon
         DEF CandidateInv, EventsFromCalls, FromOffer, PlacedFromCalls,
             ObservedFromCalls, RecordedFromCalls, Sourced, History
  <1> QED
    BY <1>1, ManagerKeeps, ObserverKeeps, DeliveredKeeps DEF CandidatesNext

LEMMA CandidateInit == CandidatesInit => CandidateInv
  <1> SUFFICES ASSUME CandidatesInit
               PROVE  CandidateInv
    OBVIOUS
  <1>1. /\ events = {} /\ listed = {} /\ observed = Nil
        /\ \A u \in UIDs : placed[u] = ""
    BY Zenon DEF CandidatesInit, Init, Start
  <1>2. \A u \in UIDs : Current(u) = Nil
    BY DEF CandidatesInit, Init, Current, Version
  <1>3. EventsFromCalls /\ PlacedFromCalls /\ ObservedFromCalls /\ RecordedFromCalls
    BY <1>1, <1>2, Zenon
       DEF EventsFromCalls, PlacedFromCalls, ObservedFromCalls, RecordedFromCalls
  <1> QED
    BY <1>3, PlacementInit, ExtenderInitInv DEF CandidatesInit, CandidateInv

-----------------------------------------------------------------------------
\* Where the two ways meet: the node and the candidates are of the one call
\* there is for the name.
LEMMA OneOffer ==
    ASSUME FirstAttempts, NEW k, NEW a \in Offers(k), NEW b \in Offers(k)
    PROVE  a = b
  <1>1. PICK c \in CallsFor(k) : a = candidateNodeNames(calls[c].args)
    BY DEF Offers
  <1>2. PICK d \in CallsFor(k) : b = candidateNodeNames(calls[d].args)
    BY DEF Offers
  <1>3. c = d
    BY DEF CallsFor, FirstAttempts
  <1> QED
    BY <1>1, <1>2, <1>3

\* The node a Pod went to is among the candidates recorded with it, for any
\* number of calls: Events that are late, repeated, expired or never written,
\* answers that are lost and restarts of the manager do not mix the calls up as
\* long as no name is scheduled for a second time (candidateNodesFrom,
\* recordCandidateNodes).  The Events of the extender are those of Extender.
THEOREM Considered ==
    ASSUME "CandidateNodes" \notin EventReasons
    PROVE  CandidatesSpec => []ChosenNodeWasConsidered
  <1>1. CandidateInv => ChosenNodeWasConsidered
    <2> SUFFICES ASSUME CandidateInv, FirstAttempts, NEW u \in UIDs,
                        Current(u) # Nil, NEW i \in 1 .. Len(History(u)),
                        History(u)[i].chosenNode # "",
                        History(u)[i].candidateNodes # {}
                 PROVE  History(u)[i].chosenNode \in History(u)[i].candidateNodes
      BY Zenon DEF ChosenNodeWasConsidered
    <2>1. History(u)[i].chosenNode = placed[u]
      BY Zenon DEF CandidateInv, PlacementInv, ChosenNodeIsPlacement
    <2>2. PICK a \in Offers(NameOf[u]) : History(u)[i].candidateNodes = a \ {""}
      BY Zenon DEF CandidateInv, RecordedFromCalls, Sourced
    <2>3. PICK b \in Offers(NameOf[u]) : placed[u] \in b
      BY <2>1, Zenon DEF CandidateInv, PlacedFromCalls
    <2>4. a = b
      BY OneOffer
    <2> QED
      BY <2>1, <2>2, <2>3, <2>4, Zenon
  <1>2. CandidateInv /\ [CandidatesNext]_candidateVars => CandidateInv'
    BY CandidateStep
  <1> QED
    BY <1>1, <1>2, CandidateInit, PTL DEF CandidatesSpec

=============================================================================
