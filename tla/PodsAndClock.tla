---------------------------- MODULE PodsAndClock ----------------------------
(***************************************************************************)
(* What the reconciler and the extender have in common when they work for    *)
(* one cluster: the Pods by UID, the nodes they may go to, and the time,     *)
(* which metav1.Now() reads in both.                                         *)
(***************************************************************************)
EXTENDS Decision

CONSTANTS
    NameOf,     \* the name each Pod UID has
    Nodes,      \* the nodes a Pod may be bound to
    MaxTime     \* bound on the clock

ASSUME ClusterAssumption ==
    /\ NameOf \in [UIDs -> Names]
    /\ Nodes \subseteq Text
    /\ MaxTime \in Nat

VARIABLE now    \* the clock

\* A tick goes by.
TimePasses ==
    /\ now < MaxTime
    /\ now' = now + 1

\* The time, in whole seconds, of news that is lag ticks old.
StampOf(lag) == WholeSecond(now - lag)

=============================================================================
