----------------------------- MODULE EventScan ------------------------------
(***************************************************************************)
(* The loop of latestEventWithReason (controllers/decision.go) over a list   *)
(* of Events in the order the informer gives it.  Decision replaces it by    *)
(* the set of its results over all orders.                                   *)
(***************************************************************************)
EXTENDS Decision

VARIABLES
    list,       \* the list of Events
    reason,     \* the reason asked for
    at,         \* the Event looked at
    latest      \* the one kept so far, or Nil

scanVars == <<list, reason, at, latest>>

\* The Events of the first n places of the list.
First(n) == {list[i] : i \in 1 .. n}

-----------------------------------------------------------------------------
ScanInit ==
    /\ list \in Seq(Event)
    /\ \A i, j \in DOMAIN list : i # j => list[i].id # list[j].id
    /\ reason \in Reasons \ {"Pulled"}
    /\ at = 1
    /\ latest = Nil

Replaces(e) == latest = Nil \/ eventTimestamp(e) > eventTimestamp(latest)

\* One round of the loop.
Scan ==
    /\ at <= Len(list)
    /\ latest' = IF list[at].reason = reason /\ Replaces(list[at])
                 THEN list[at] ELSE latest
    /\ at' = at + 1
    /\ UNCHANGED <<list, reason>>

ScanSpec == ScanInit /\ [][Scan]_scanVars

-----------------------------------------------------------------------------
(* Properties. *)

\* The Event kept is at all times a possible result for the part of the list
\* that was looked at: in the end one for the whole list, in every order and
\* with whichever of the three timestamps set (latestEventWithReason,
\* eventTimestamp).
ScanIsSound == latest \in latestEventWithReason(First(at - 1), reason)

\* The definition allows no more than the loop: a possible result that comes
\* first in the list is the one the loop ends with (latestEventWithReason).
ScanIsComplete ==
    at = Len(list) + 1 /\ list # <<>> =>
        (list[1] \in latestEventWithReason(First(Len(list)), reason)
           => latest = list[1])

\* The inductive invariant.  The first Event stays as long as none is later.
ScanInv ==
    /\ list \in Seq(Event)
    /\ at \in 1 .. Len(list) + 1
    /\ ScanIsSound
    /\ at > 1 /\ list[1].reason = reason
       /\ (\A e \in First(at - 1) : e.reason = reason =>
              eventTimestamp(e) <= eventTimestamp(list[1]))
       => latest = list[1]

=============================================================================
