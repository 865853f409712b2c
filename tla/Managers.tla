------------------------------ MODULE Managers ------------------------------
(***************************************************************************)
(* Several managers at work on one cluster (cmd/manager/main.go): the flag   *)
(* leader-elect is off unless it is set, and when the lease changes hands    *)
(* the writes of the manager that lost it may still be under way.            *)
(*                                                                         *)
(* Each manager has a worker, a queue and a SchedulingDecision cache of its  *)
(* own.  The variables of Reconciler are those of the manager whose turn it  *)
(* is, and other[m] keeps those of each that waits; as the turn may change   *)
(* after any step, their steps come in every order.  The Pod and Event       *)
(* watches of all managers deliver together.                                 *)
(***************************************************************************)
EXTENDS Reconciler

CONSTANT Others     \* the managers besides the one whose turn it is

VARIABLE other      \* what each of them has in its process

managersVars == <<vars, other>>

\* What the manager whose turn it is has in its process.
Own == [queue |-> queue, pc |-> pc, key |-> key, listed |-> listed,
        observed |-> observed, draft |-> draft, base |-> base,
        attempt |-> attempt, seen |-> seen]

Resume(w) ==
    /\ queue' = w.queue /\ pc' = w.pc /\ seen' = w.seen
    /\ Locals(w.key, w.listed, w.observed, w.draft, w.base, w.attempt)

-----------------------------------------------------------------------------
\* Nothing keeps a second manager from starting.
ManagersInit == Init /\ other = [m \in Others |-> Own]

OwnStep ==
    /\ \/ \E k \in Names : ListEvents(k)
       \/ Work
       \/ Faults
       \/ \E u \in UIDs : CacheAdvance(u)
    /\ UNCHANGED other

\* The names a delivery is about: of a Pod that has changed, of a relevant
\* Event that came, changed or went, and of a Pod that was only touched.
Told ==
    {k \in Names : pod'[k] # pod[k]}
      \cup {e.name : e \in {f \in (events' \ events) \cup (events \ events') :
                                f.reason \in relevantEventReasons}}
      \cup (queue' \ queue)

\* The watches deliver, and each manager queues what it is told of.
WatchesDeliver ==
    /\ Environment
    /\ other' = [m \in Others |-> [other[m] EXCEPT !.queue = @ \cup Told]]

\* It is another manager's turn.
Switch(m) ==
    /\ Resume(other[m])
    /\ other' = [other EXCEPT ![m] = Own]
    /\ UNCHANGED <<cluster, log, disturbances>>

ManagersNext == OwnStep \/ WatchesDeliver \/ \E m \in Others : Switch(m)

ManagersSpec == ManagersInit /\ [][ManagersNext]_managersVars

=============================================================================
