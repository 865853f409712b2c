---------------------------- MODULE MCRetention -----------------------------
(* Instances of Retention for TLC. *)
EXTENDS Retention

CONSTANTS u1, u2, k1, k2, s1

OwnNames == [u \in UIDs |-> IF u = u1 THEN k1 ELSE k2]

Strings == {"", "default-scheduler", "scheduler"}
             \cup Nodes \cup FailureMessages \cup EventReasons

=============================================================================
