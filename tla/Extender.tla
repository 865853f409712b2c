------------------------------ MODULE Extender ------------------------------
(***************************************************************************)
(* The scheduler extender (cmd/extender/main.go): a server for the Filter   *)
(* verb that writes the candidate nodes of every call to the API server, as  *)
(* an Event, and answers with the nodes it was given.                        *)
(*                                                                         *)
(* Every call runs in a goroutine of its own.  The scheduler makes one call  *)
(* per attempt for a Pod and gives up on it after its HTTP timeout; the      *)
(* handler goes on and its Event may be created after that of a later call.  *)
(* Decoding and answering take no time here: only a Create does.             *)
(***************************************************************************)
EXTENDS PodsAndClock

CONSTANTS
    OtherArgs,      \* what clients that are no scheduler send
    HTTPTimeout,    \* httpTimeout of the registration, in ticks
    Backoff,        \* least time between two attempts for a Pod, in ticks
    MaxCalls        \* bound on the calls

ASSUME ExtenderAssumption ==
    /\ {"sch-audit-extender"} \subseteq Text
    /\ MaxCalls \in Nat
    /\ HTTPTimeout \in Nat \ {0} /\ Backoff \in Nat
    /\ 1 .. MaxCalls \subseteq EventIds
    /\ \A ns \in SUBSET Text : ns # Nil

VARIABLES
    calls,      \* the calls made so far, in order
    reported    \* CandidateNodes Events at the API server

extenderVars == <<now, calls, reported>>

-----------------------------------------------------------------------------
(* Requests and answers. *)

\* ExtenderArgs: the nodes as objects or as names.  An empty list is not Nil.
NodeList == (SUBSET Nodes) \cup {Nil}
ExtenderArgs == [pod : UIDs \cup {Nil}, nodes : NodeList, nodeNames : NodeList]

ASSUME ArgsAssumption == Nil \notin ExtenderArgs

\* What a scheduler sends: never an empty list, as names when it is registered
\* with nodeCacheCapable.
SchedulerArgs ==
    {a \in ExtenderArgs :
        /\ a.pod # Nil
        /\ {a.nodes, a.nodeNames} \cap {{}} = {}
        /\ (a.nodes = Nil) # (a.nodeNames = Nil)}

\* Mutant: the loop over the node objects or names ends one too early.
candidateNodeNames_DropLast(args) ==
    LET all == IF args.nodeNames # Nil THEN args.nodeNames
               ELSE IF args.nodes # Nil THEN args.nodes ELSE {}
    IN  all \ {CHOOSE n \in Nodes : all # {} => n \in all}

candidateNodeNames(args) ==
    IF args.nodeNames # Nil THEN args.nodeNames
    ELSE IF args.nodes # Nil THEN args.nodes
    ELSE {}

\* What no scheduler sends has nothing to record; Nil is a body that does not
\* decode.
ASSUME OtherAssumption ==
    \A a \in OtherArgs : a # Nil =>
        a \in ExtenderArgs /\ (a.pod = Nil \/ candidateNodeNames(a) = {})

\* Mutant: the answer gives names whatever the request gave.
passthroughResult_Names(args) ==
    [nodes |-> Nil, nodeNames |-> candidateNodeNames(args)]

passthroughResult(args) == [nodes |-> args.nodes, nodeNames |-> args.nodeNames]

\* The scheduler takes the names if it is registered for names, or the nodes.
Kept(args, result) ==
    IF args.nodeNames # Nil /\ result.nodeNames # Nil THEN result.nodeNames
    ELSE IF result.nodes # Nil THEN result.nodes
    ELSE {}

-----------------------------------------------------------------------------
\* A call: where its handler is, when the request came, whether the client has
\* given up, and the HTTP status (0 before it came) and result it got.
ExtenderFilterResult == [nodes : NodeList, nodeNames : NodeList]
Call == [args : ExtenderArgs \cup {Nil},
         pc : {"decode", "create", "answer", "done"},
         since : Nat, gone : BOOLEAN, status : {0, 200, 400},
         result : ExtenderFilterResult \cup {Nil}]

Started == 1 .. Len(calls)
Waiting(c) == ~calls[c].gone /\ calls[c].status = 0

\* The handler of call c goes on at step.
Goto(c, step) == calls' = [calls EXCEPT ![c].pc = step]

\* The handler of c writes an answer and returns; nobody reads it if the
\* client has given up.
Answer(c, status, result) ==
    calls' = [calls EXCEPT ![c] =
                [@ EXCEPT !.pc = "done",
                          !.status = IF calls[c].gone THEN 0 ELSE status,
                          !.result = IF calls[c].gone THEN Nil ELSE result]]

ExtenderInit ==
    /\ now = TicksPerSecond
    /\ calls = <<>>
    /\ reported = {}

\* A request arrives.  The scheduler has one attempt for a Pod under way at a
\* time, and waits before the next.
Request(args) ==
    /\ Len(calls) < MaxCalls
    /\ args \in SchedulerArgs =>
          \A c \in Started :
             /\ calls[c].args \in SchedulerArgs
             /\ calls[c].args.pod = args.pod
             => ~Waiting(c) /\ now >= calls[c].since + Backoff
    /\ calls' = Append(calls, [args |-> args, pc |-> "decode", since |-> now,
                               gone |-> FALSE, status |-> 0,
                               result |-> Nil])
    /\ UNCHANGED <<now, reported>>

\* filterHandler up to the Create of the Event, or to the answer.
Decode(c) ==
    /\ calls[c].pc = "decode"
    /\ LET args == calls[c].args
       IN  \/ /\ args = Nil
              /\ Answer(c, 400, Nil)
           \/ /\ args # Nil
              /\ Goto(c, IF args.pod # Nil /\ candidateNodeNames(args) # {}
                         THEN "create" ELSE "answer")
    /\ UNCHANGED <<now, reported>>

\* Mutant: the Event is stamped by the API server, when it arrives there.
recordCandidateNodes_Late(c) ==
    LET args == calls[c].args
    IN  [id |-> c, uid |-> args.pod, name |-> NameOf[args.pod],
         reason |-> "CandidateNodes", message |-> "",
         names |-> candidateNodeNames(args),
         lastTimestamp |-> WholeSecond(now), eventTime |-> 0,
         creationTimestamp |-> WholeSecond(now),
         reportingController |-> "sch-audit-extender", component |-> ""]

\* The Event recordCandidateNodes makes of call c, stamped when it was called.
recordCandidateNodes(c) ==
    LET args == calls[c].args
    IN  [id |-> c, uid |-> args.pod, name |-> NameOf[args.pod],
         reason |-> "CandidateNodes", message |-> "",
         names |-> candidateNodeNames(args),
         lastTimestamp |-> WholeSecond(calls[c].since), eventTime |-> 0,
         creationTimestamp |-> WholeSecond(now),
         reportingController |-> "sch-audit-extender", component |-> ""]

CreateEvent(c) ==
    /\ calls[c].pc = "create"
    /\ reported' = reported \cup {recordCandidateNodes(c)}
    /\ Goto(c, "answer")
    /\ UNCHANGED now

\* The Create fails, or is done and its answer is lost: the error is logged.
\* The request's context ends with its client, so a Create may fail for that.
CreateFails(c) ==
    /\ calls[c].pc = "create"
    /\ \/ UNCHANGED reported
       \/ reported' = reported \cup {recordCandidateNodes(c)}
    /\ Goto(c, "answer")
    /\ UNCHANGED now

Respond(c) ==
    /\ calls[c].pc = "answer"
    /\ Answer(c, 200, passthroughResult(calls[c].args))
    /\ UNCHANGED <<now, reported>>

\* The client gives up: without `ignorable` the attempt has failed.
GiveUp(c) ==
    /\ Waiting(c)
    /\ now >= calls[c].since + HTTPTimeout
    /\ calls' = [calls EXCEPT ![c].gone = TRUE]
    /\ UNCHANGED <<now, reported>>

\* Only a Create takes time, and the client does not wait past its timeout.
Pass ==
    /\ TimePasses
    /\ \A c \in Started :
          /\ calls[c].pc \in {"create", "done"}
          /\ Waiting(c) => now < calls[c].since + HTTPTimeout
    /\ UNCHANGED <<calls, reported>>

Handler(c) == Decode(c) \/ CreateEvent(c) \/ CreateFails(c) \/ Respond(c)

\* A step of the extender or of its clients, at one time.
ExtenderStep ==
    \/ \E args \in SchedulerArgs \cup OtherArgs : Request(args)
    \/ \E c \in Started : Handler(c) \/ GiveUp(c)

ExtenderNext == ExtenderStep \/ Pass

ExtenderSpec == ExtenderInit /\ [][ExtenderNext]_extenderVars

-----------------------------------------------------------------------------
(* Properties. *)

\* Types; the Events are of the kind Decision reads.
ExtenderTypeOK ==
    /\ now \in Nat
    /\ calls \in Seq(Call) /\ Len(calls) <= MaxCalls
    /\ reported \subseteq Event

\* A call, at time t: only a scheduler's call writes an Event, and an answer
\* is made of the call's own arguments.
GoodCall(call, t) ==
    /\ TicksPerSecond <= call.since /\ call.since <= t
    /\ call.pc = "create" => call.args \in SchedulerArgs
    /\ call.pc = "answer" => call.args # Nil
    /\ call.status = 200 => /\ call.args # Nil
                            /\ call.result = passthroughResult(call.args)
    /\ call.status = 400 => call.args = Nil

\* An Event at the API server, and the call it is of.
OfItsCall(e) ==
    /\ e.id \in Started
    /\ calls[e.id].args \in SchedulerArgs
    /\ e.uid = calls[e.id].args.pod /\ e.name = NameOf[e.uid]
    /\ e.names = candidateNodeNames(calls[e.id].args)
    /\ e.reason = "CandidateNodes"
    /\ e.lastTimestamp = WholeSecond(calls[e.id].since)

\* Two attempts for a Pod are Backoff apart.
Spaced ==
    \A c, d \in Started :
        /\ c < d
        /\ {calls[c].args, calls[d].args} \subseteq SchedulerArgs
        /\ calls[c].args.pod = calls[d].args.pod
        => calls[c].since + Backoff <= calls[d].since

\* Nothing was asked but by a scheduler or by one of the others.
Asked == \A c \in Started : calls[c].args \in SchedulerArgs \cup OtherArgs

\* The inductive invariant.
ExtenderInv ==
    /\ ExtenderTypeOK
    /\ TicksPerSecond <= now
    /\ \A c \in Started : GoodCall(calls[c], now)
    /\ \A e \in reported : OfItsCall(e)
    /\ Spaced /\ Asked

\* The nodes a scheduler sent.
Sent(args) == IF args.nodeNames # Nil THEN args.nodeNames ELSE args.nodes

\* A scheduler that gets an answer keeps every node it sent, in whichever form
\* it is registered for, and also when the Event could not be written
\* (filterHandler, passthroughResult).
NeverFiltersOut ==
    \A c \in Started :
        calls[c].args \in SchedulerArgs /\ calls[c].status # 0 =>
            /\ calls[c].status = 200
            /\ Kept(calls[c].args, calls[c].result) = Sent(calls[c].args)

\* The Event the derivation takes for the newest is that of the newest call
\* about the Pod that has one, although the Event of an earlier call may be
\* created later (recordCandidateNodes, latestEventWithReason).  It needs at
\* least a second between two attempts.
NewestEventIsOfNewestCall ==
    \A u \in UIDs :
        LET mine == {e \in reported : e.uid = u}
        IN  \A e \in latestEventWithReason(mine, "CandidateNodes") :
                \A f \in mine : f.id <= e.id

=============================================================================
