----------------------------- MODULE MCManagers -----------------------------
(* Instances of Managers for TLC. *)
EXTENDS Managers

CONSTANTS u1, k1, e1, m2

OneName == [u \in UIDs |-> k1]

Strings == {"", "default-scheduler", "scheduler"}
             \cup Nodes \cup FailureMessages \cup EventReasons

=============================================================================
