----------------------------- MODULE Candidates -----------------------------
(***************************************************************************)
(* The extender beside the reconciler: the scheduler calls the extender in   *)
(* each attempt and binds the Pod to a node of the answer; the Event the     *)
(* extender wrote reaches the reconciler through its Event watch, which runs *)
(* apart from the Pod watch that tells of the binding.                       *)
(***************************************************************************)
EXTENDS Reconciler, Extender

candidateVars == <<vars, calls, reported>>

CandidatesInit == Init /\ ExtenderInit

\* Call c is one of the scheduler's for u.
CallFor(c, u) == calls[c].args \in SchedulerArgs /\ calls[c].args.pod = u

\* The scheduler binds u to a node its last call has left it.
BoundAsAnswered(u) ==
    \E c \in Started :
        /\ CallFor(c, u)
        /\ \A d \in Started : CallFor(d, u) => d <= c
        /\ calls[c].status = 200
        /\ placed'[u] \in Kept(calls[c].args, calls[c].result)

\* What the reconciler, the watches and the rest of the cluster do.
ManagerStep ==
    /\ Next
    /\ now' # now => Pass
    /\ \A u \in UIDs : placed'[u] # placed[u] => BoundAsAnswered(u)
    /\ UNCHANGED <<calls, reported>>

\* The scheduler makes no further attempt for a Pod that is bound.
ObserverStep ==
    /\ ExtenderStep
    /\ \A u \in UIDs :
          placed[u] # "" => \A c \in Started' \ Started : ~CallFor(c, u)'
    /\ UNCHANGED vars

\* The Event watch delivers an Event of the extender.
CandidatesDelivered(e) ==
    /\ about[e.id] = Nil
    /\ events' = events \cup {e}
    /\ EnqueueFor(e)
    /\ about' = [about EXCEPT ![e.id] = e.uid]
    /\ UNCHANGED <<pod, born, placed, calls, reported>>
    /\ Deliver

CandidatesNext ==
    \/ ManagerStep
    \/ ObserverStep
    \/ \E e \in reported : CandidatesDelivered(e)

CandidatesSpec == CandidatesInit /\ [][CandidatesNext]_candidateVars

-----------------------------------------------------------------------------
(* Properties. *)

\* No name has been scheduled for more than once.
FirstAttempts ==
    \A c, d \in Started :
        /\ {calls[c].args, calls[d].args} \subseteq SchedulerArgs
        /\ NameOf[calls[c].args.pod] = NameOf[calls[d].args.pod]
        => c = d

\* The node a Pod went to is among the candidates recorded with it, if any
\* are, for a Pod scheduled at the first attempt, whatever fails or comes late
\* (candidateNodesFrom, recordCandidateNodes).  (After another attempt, or one
\* for an earlier Pod of the name, the candidates may be those of the earlier
\* one: candidateNodesFrom takes the newest Event that has arrived.)
ChosenNodeWasConsidered ==
    FirstAttempts =>
        \A u \in UIDs : Current(u) # Nil =>
            \A i \in 1 .. Len(History(u)) :
                LET t == History(u)[i]
                IN  t.chosenNode # "" /\ t.candidateNodes # {}
                        => t.chosenNode \in t.candidateNodes

=============================================================================
