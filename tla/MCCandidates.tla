---------------------------- MODULE MCCandidates ----------------------------
(* Instances of Candidates for TLC. *)
EXTENDS Candidates, TLC

CONSTANTS u1, k1, n1, n2

OneName == [u \in UIDs |-> k1]

\* A body that does not decode, no Pod, no nodes.
OddRequests ==
    {Nil, [pod |-> Nil, nodes |-> Nil, nodeNames |-> Nodes],
     [pod |-> u1, nodes |-> {}, nodeNames |-> Nil]}

Strings == {"", "default-scheduler", "scheduler", "sch-audit-extender"}
             \cup Nodes \cup FailureMessages \cup EventReasons

\* The nodes are alike.
AnyNode == Permutations(Nodes)

=============================================================================
