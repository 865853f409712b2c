---------------------------- MODULE MCReconciler ----------------------------
(* Instances of Reconciler for TLC. *)
EXTENDS Reconciler

CONSTANTS u1, u2, k1, e1, e2, v1

\* Every UID has the same name: a Pod, and its successor of the same name.
OneName == [u \in UIDs |-> k1]

Strings == {"", "default-scheduler", "scheduler"}
             \cup Nodes \cup FailureMessages \cup EventReasons

=============================================================================
