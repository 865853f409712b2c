-------------------------- MODULE EventScanProofs ---------------------------
(* The loop of latestEventWithReason yields what Decision says, for lists of *)
(* any length.                                                              *)
EXTENDS EventScan, DecisionProofs

-----------------------------------------------------------------------------
LEMMA ScanInitInv == ScanInit => ScanInv
  <1> SUFFICES ASSUME ScanInit PROVE ScanInv
    OBVIOUS
  <1>1. at = 1 /\ latest = Nil
    BY DEF ScanInit
  <1>2. list \in Seq(Event)
    BY DEF ScanInit
  <1>3. Len(list) \in Nat
    BY <1>2
  <1>4. First(at - 1) = {}
    BY <1>1 DEF First
  <1>5. ScanIsSound
    BY <1>1, <1>4 DEF ScanIsSound, latestEventWithReason
  <1> QED
    BY <1>1, <1>2, <1>3, <1>5 DEF ScanInv

LEMMA ScanNextInv == ScanInv /\ [Scan]_scanVars => ScanInv'
  <1> SUFFICES ASSUME ScanInv, [Scan]_scanVars PROVE ScanInv'
    OBVIOUS
  <1> USE DEF ScanInv
  <1>1. CASE UNCHANGED scanVars
    BY <1>1 DEF scanVars, ScanIsSound, First
  <1>2. CASE Scan
    <2> DEFINE e == list[at]
               before == First(at - 1)
    <2>1. /\ at \in 1 .. Len(list) /\ Len(list) \in Nat
          /\ at' = at + 1 /\ list' = list /\ reason' = reason
      BY <1>2 DEF Scan
    <2>2. e \in Event
      BY <2>1
    <2>3. First(at - 1)' = before \cup {e}
      <3>1. at' - 1 = at /\ 1 .. at = (1 .. at - 1) \cup {at}
        BY <2>1
      <3>2. First(at - 1)' = {list[i] : i \in 1 .. at}
        BY <2>1, <3>1 DEF First
      <3>3. {list[i] : i \in (1 .. at - 1) \cup {at}} = before \cup {e}
        BY DEF First
      <3> QED
        BY <3>1, <3>2, <3>3
    <2>4. before \subseteq Event
      BY <2>1 DEF First
    <2>5. latest' = IF e.reason = reason /\ Replaces(e) THEN e ELSE latest
      BY <1>2 DEF Scan
    <2>6. /\ \A f \in Event : eventTimestamp(f) \in Nat
          /\ Nil \notin Event
      BY EventTimestampType, NilAssumption
    <2>7. latest \in latestEventWithReason(before, reason)
      BY DEF ScanIsSound
    <2>8. (at > 1 => list[1] \in before) /\ (at = 1 => before = {})
      BY <2>1 DEF First
    <2> HIDE DEF e, before, ScanInv
    <2>9. latest' \in latestEventWithReason(before \cup {e}, reason)
      <3>1. CASE e.reason # reason
        BY <2>5, <2>7, <3>1 DEF latestEventWithReason
      <3>2. CASE e.reason = reason /\ latest = Nil
        <4>1. \A f \in before : f.reason # reason
          BY <2>4, <2>6, <2>7, <3>2 DEF latestEventWithReason
        <4>2. latest' = e
          BY <2>5, <3>2 DEF Replaces
        <4> QED
          BY <2>2, <2>6, <3>2, <4>1, <4>2 DEF latestEventWithReason
      <3>3. CASE e.reason = reason /\ latest # Nil
        <4>1. /\ latest \in before /\ latest.reason = reason
              /\ \A f \in before : f.reason = reason =>
                    eventTimestamp(f) <= eventTimestamp(latest)
          BY <2>7, <3>3 DEF latestEventWithReason
        <4>2. CASE eventTimestamp(e) > eventTimestamp(latest)
          <5>1. latest' = e
            BY <2>5, <3>3, <4>2 DEF Replaces
          <5> QED
            BY <2>2, <2>4, <2>6, <3>3, <4>1, <4>2, <5>1 DEF latestEventWithReason
        <4>3. CASE ~(eventTimestamp(e) > eventTimestamp(latest))
          <5>1. latest' = latest
            BY <2>5, <3>3, <4>3 DEF Replaces
          <5> QED
            BY <2>2, <2>4, <2>6, <3>3, <4>1, <4>3, <5>1 DEF latestEventWithReason
        <4> QED
          BY <4>2, <4>3
      <3> QED
        BY <3>1, <3>2, <3>3
    <2>10. ScanIsSound'
      BY <2>1, <2>3, <2>9 DEF ScanIsSound
    <2>11. ASSUME list[1].reason = reason,
                  \A f \in before \cup {e} : f.reason = reason =>
                      eventTimestamp(f) <= eventTimestamp(list[1])
           PROVE  latest' = list[1]
      <3>1. CASE at = 1
        <4>1. e = list[1] /\ before = {}
          BY <2>8, <3>1 DEF e
        <4>2. latest = Nil
          BY <2>7, <4>1 DEF latestEventWithReason
        <4> QED
          BY <2>5, <2>11, <4>1, <4>2 DEF Replaces
      <3>2. CASE at > 1
        <4>1. latest = list[1]
          BY <2>11, <3>2 DEF ScanInv, before
        <4>2. list[1] \in Event /\ list[1] # Nil
          BY <2>4, <2>6, <2>8, <3>2
        <4>3. e.reason = reason => ~(eventTimestamp(e) > eventTimestamp(list[1]))
          BY <2>2, <2>6, <2>11, <4>2
        <4> QED
          BY <2>5, <4>1, <4>2, <4>3 DEF Replaces
      <3> QED
        BY <2>1, <3>1, <3>2
    <2>12. list' \in Seq(Event) /\ at' \in 1 .. Len(list') + 1
      BY <2>1 DEF ScanInv
    <2> QED
      BY <2>1, <2>3, <2>10, <2>11, <2>12 DEF ScanInv
  <1> QED
    BY <1>1, <1>2

LEMMA ScanInvariant == ScanSpec => []ScanInv
  <1> QED
    BY ScanInitInv, ScanNextInv, PTL DEF ScanSpec

\* Whatever the length and the order of the list, the loop keeps an Event that
\* the set-valued definition allows (latestEventWithReason).
THEOREM ScanSound == ScanSpec => []ScanIsSound
  <1>1. ScanInv => ScanIsSound
    BY DEF ScanInv
  <1> QED
    BY <1>1, ScanInvariant, PTL

\* And that definition allows no Event the loop could not end with.
THEOREM ScanComplete == ScanSpec => []ScanIsComplete
  <1>1. ScanInv => ScanIsComplete
    <2> SUFFICES ASSUME ScanInv, at = Len(list) + 1, list # <<>>,
                        list[1] \in latestEventWithReason(First(Len(list)), reason)
                 PROVE  latest = list[1]
      BY DEF ScanIsComplete
    <2>1. list \in Seq(Event) /\ Len(list) \in Nat \ {0}
      BY EmptySeq DEF ScanInv
    <2>2. list[1] \in Event /\ list[1] # Nil
      BY <2>1, NilAssumption
    <2>3. /\ list[1].reason = reason
          /\ \A e \in First(Len(list)) : e.reason = reason =>
                eventTimestamp(e) <= eventTimestamp(list[1])
      BY <2>2, LatestEvent
    <2>4. at > 1 /\ at - 1 = Len(list)
      BY <2>1
    <2> QED
      BY <2>3, <2>4 DEF ScanInv
  <1> QED
    BY <1>1, ScanInvariant, PTL

=============================================================================
