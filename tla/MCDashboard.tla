---------------------------- MODULE MCDashboard -----------------------------
(* Instances of Dashboard for TLC. *)
EXTENDS Dashboard

Decision(name, scheduler, outcome, node, latency, transitions, time) ==
    [name |-> name, words |-> {name, "ns", node} \ {""},
     schedulerName |-> scheduler, outcome |-> outcome, node |-> node,
     latency |-> latency, transitions |-> transitions,
     decisionTimestamp |-> time, creationTimestamp |-> 1]

\* Three records: one before its first status update, one scheduled, and one
\* scheduled before its node was seen; then the first two are swept.
History ==
    << {Decision("a", "stork", "Scheduled", "n1", 3, 2, 3),
        Decision("b", "", "Scheduled", "", 0, 2, 4),
        Decision("c", "stork", "", "", 0, 0, 0)},
       {Decision("b", "", "Preempted", "n1", 0, 3, 5)} >>

=============================================================================
