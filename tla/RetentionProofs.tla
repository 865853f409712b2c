-------------------------- MODULE RetentionProofs ---------------------------
(***************************************************************************)
(* The reconciler beside any number of sweeps, for every value of the       *)
(* constants of Retention; and what holds beyond that when one sweep runs at *)
(* a time.                                                                   *)
(*                                                                         *)
(* Inv of ReconcilerProofs stays invariant although records are deleted: a   *)
(* deletion is one more version, so the version a draft was read from stays  *)
(* where it was, and an update of it is no longer accepted.                  *)
(***************************************************************************)
EXTENDS Retention, ReconcilerProofs

-----------------------------------------------------------------------------
(* The initial state. *)

LEMMA LegacyType ==
    ASSUME NEW u \in UIDs
    PROVE  LegacyDecision(u) \in SchedulingDecision
  BY EmptyStatusType, TextAssumption, ClusterAssumption
     DEF LegacyDecision, SchedulingDecision, SchedulingDecisionSpec

\* A record that is there at the start has no label and no history.
LEMMA InitialRecords ==
    ASSUME RetentionInit
    PROVE  /\ StoreTypeOK
           /\ \A u \in UIDs : Current(u) # Nil =>
                 /\ Current(u).expiresAt = Nil
                 /\ Len(Current(u).status.transitions) = 0
           /\ \A u \in UIDs : Current(u) = Nil => log[u] = <<>>
  <1>1. ASSUME NEW u \in UIDs
        PROVE  /\ <<LegacyDecision(u)>> \in Seq(SchedulingDecision \cup {Nil})
               /\ Len(<<LegacyDecision(u)>>) = 1
               /\ <<LegacyDecision(u)>>[1] = LegacyDecision(u)
    BY LegacyType
  <1>2. <<>> \in Seq(SchedulingDecision \cup {Nil}) /\ Len(<<>>) = 0
    BY EmptySeq
  <1>3. \A u \in UIDs : log[u] \in {<<LegacyDecision(u)>>, <<>>}
    BY Zenon DEF RetentionInit
  <1>4. log = [u \in UIDs |-> log[u]]
    BY Zenon DEF RetentionInit
  <1>5. log \in [UIDs -> Seq(SchedulingDecision \cup {Nil})]
    BY <1>1, <1>2, <1>3, <1>4
  <1>6. StoreTypeOK
    <2>1. seen = [u \in UIDs |-> 0]
      BY DEF RetentionInit, Start
    <2>2. \A u \in UIDs : Len(log[u]) \in Nat
      BY <1>5, LenProperties
    <2> QED
      BY <1>5, <2>1, <2>2 DEF StoreTypeOK
  <1>7. \A u \in UIDs : Current(u) \in {LegacyDecision(u), Nil}
    BY <1>1, <1>2, <1>3 DEF Current, Version
  <1>8. ASSUME NEW u
        PROVE  /\ LegacyDecision(u).expiresAt = Nil
               /\ Len(LegacyDecision(u).status.transitions) = 0
    <2>1. LegacyDecision(u).expiresAt = Nil /\ LegacyDecision(u).status = EmptyStatus
      BY DEF LegacyDecision
    <2>2. EmptyStatus.transitions = <<>>
      BY Zenon DEF EmptyStatus
    <2> QED
      BY <1>2, <2>1, <2>2
  <1>9. ASSUME NEW u \in UIDs, log[u] # <<>>
        PROVE  Current(u) # Nil
    BY <1>1, <1>3, <1>9, LegacyType, NilAssumption DEF Current, Version
  <1> QED
    BY <1>6, <1>7, <1>8, <1>9

LEMMA RetentionInvInit == RetentionInit => Inv /\ RetentionTypeOK
  <1> SUFFICES ASSUME RetentionInit
               PROVE  Inv /\ RetentionTypeOK
    OBVIOUS
  <1>1. TypeOK
    BY InitialRecords, StartType DEF RetentionInit
  <1>2. pc = "idle"
    BY Zenon DEF RetentionInit, Start
  <1>3. StoredInSeconds
    BY InitialRecords DEF StoredInSeconds, History
  <1>4. sweeper \in [Sweepers -> [pc : {"off", "list", "delete"}, now : Nat,
                                  items : SUBSET Item]]
    BY DEF RetentionInit, Off
  <1> QED
    BY <1>1, <1>2, <1>3, <1>4 DEF Inv, DraftFollowsBase, RetentionTypeOK

-----------------------------------------------------------------------------
(* The steps of a sweep. *)

\* What a sweep does to the API server: nothing, or it deletes the record of an
\* expired item.
LEMMA SweepSteps ==
    ASSUME NEW s \in Sweepers,
           SweepStep(s) \/ SweepFails(s)
             \/ \E i \in sweeper[s].items : SweepDeleteFails(s, i)
    PROVE  /\ UNCHANGED <<cluster, queue, pc, locals, seen>>
           /\ UNCHANGED disturbances \/ Disturb
           /\ \/ log' = log
              \/ \E i \in sweeper[s].items :
                    /\ isExpired(i.expiresAt, sweeper[s].now)
                    /\ Current(i.uid) # Nil
                    /\ log' = [log EXCEPT ![i.uid] = Append(@, Nil)]
                    /\ sweeper' = [sweeper EXCEPT ![s].items = @ \ {i}]
  <1>1. CASE \E i \in sweeper[s].items : SweepDelete(s, i) \/ SweepDeleteFails(s, i)
    BY <1>1 DEF SweepDelete, SweepDeleteFails, ServerDelete
  <1>2. CASE \/ SweepStart(s) \/ SweepList(s) \/ SweepEnd(s)
             \/ \E i \in sweeper[s].items : SweepKeep(s, i)
    BY <1>2 DEF SweepStart, SweepList, SweepEnd, SweepKeep, vars, store
  <1>3. CASE SweepFails(s)
    BY <1>3 DEF SweepFails, store
  <1> QED
    BY <1>1, <1>2, <1>3 DEF SweepStep

\* A deletion keeps Inv.
LEMMA DeletionInv ==
    ASSUME Inv, NEW u \in UIDs, log' = [log EXCEPT ![u] = Append(@, Nil)],
           UNCHANGED <<cluster, queue, pc, locals, seen>>,
           UNCHANGED disturbances \/ Disturb
    PROVE  Inv'
  <1>0. TypeOK /\ StoreTypeOK /\ WorkerTypeOK
    BY DEF Inv, TypeOK
  <1>1. TypeOK'
    <2>1. StoreTypeOK'
      BY <1>0, LogType
    <2> QED
      BY <1>0, <2>1, Unchanged DEF TypeOK
  <1>2. /\ Current(u)' = Nil
        /\ \A v \in UIDs \ {u} : Current(v)' = Current(v)
        /\ Len(log[u]) \in Nat
        /\ \A n \in 1 .. Len(log[u]) : log'[u][n] = log[u][n]
    BY <1>0, AfterAppend
  <1>3. StoredInSeconds'
    BY <1>2 DEF Inv, StoredInSeconds, History
  <1>4. /\ \A v \in UIDs \ {u} : log'[v] = log[v]
        /\ Len(log'[u]) = Len(log[u]) + 1
    BY <1>0 DEF StoreTypeOK
  <1>5. DraftFollowsBase'
    <2>1. UNCHANGED <<pc, observed, draft, base>>
      BY DEF locals
    <2>2. CASE pc = "update"
      <3>1. PICK w \in UIDs : w = observed.identity.uid
        BY <1>0, <2>2, ObservationParts DEF WorkerTypeOK
      <3>2. base \in 1 .. Len(log[w])
        BY <2>2, <3>1 DEF Inv, DraftFollowsBase
      <3>3. base \in 1 .. Len(log'[w]) /\ log'[w][base] = log[w][base]
        BY <1>2, <1>4, <3>2
      <3> QED
        BY <2>1, <2>2, <3>1, <3>3 DEF Inv, DraftFollowsBase
    <2>3. CASE pc # "update"
      BY <2>1, <2>3 DEF Inv, DraftFollowsBase
    <2> QED
      BY <2>2, <2>3
  <1> QED
    BY <1>1, <1>3, <1>5 DEF Inv

LEMMA RetentionInvStep ==
    ASSUME Inv, RetentionTypeOK, [RetentionNext]_retentionVars
    PROVE  Inv'
  <1>1. CASE [Next]_vars
    BY <1>1, InvStep
  <1>2. ASSUME NEW s \in Sweepers,
               SweepStep(s) \/ SweepFails(s)
                 \/ \E i \in sweeper[s].items : SweepDeleteFails(s, i)
        PROVE  Inv'
    <2>1. /\ UNCHANGED <<cluster, queue, pc, locals, seen>>
          /\ UNCHANGED disturbances \/ Disturb
      BY <1>2, SweepSteps
    <2>2. CASE log' = log
      <3>1. TypeOK'
        BY <2>1, <2>2, Unchanged DEF Inv, TypeOK, store
      <3> QED
        BY <2>1, <2>2, <3>1
           DEF Inv, DraftFollowsBase, StoredInSeconds, History, Current, Version,
               locals
    <2>3. CASE log' # log
      <3>1. PICK i \in sweeper[s].items : log' = [log EXCEPT ![i.uid] = Append(@, Nil)]
        BY <1>2, <2>3, SweepSteps
      <3>2. i.uid \in UIDs
        BY <3>1 DEF RetentionTypeOK, Item
      <3> QED
        BY <2>1, <3>1, <3>2, DeletionInv
    <2> QED
      BY <2>2, <2>3
  <1>3. CASE UNCHANGED retentionVars
    BY <1>1, <1>3 DEF retentionVars
  <1> QED
    BY <1>1, <1>2, <1>3 DEF RetentionNext

LEMMA SweeperTypeStep ==
    ASSUME RetentionTypeOK, [RetentionNext]_retentionVars
    PROVE  (sweeper \in [Sweepers -> [pc : {"off", "list", "delete"}, now : Nat,
                                      items : SUBSET Item]])'
  <1> DEFINE Sweep == [pc : {"off", "list", "delete"}, now : Nat,
                       items : SUBSET Item]
  <1>0. /\ sweeper \in [Sweepers -> Sweep] /\ now \in Nat /\ StoreTypeOK
        /\ Off \in Sweep
    BY DEF RetentionTypeOK, TypeOK, ClusterTypeOK, Off
  <1>1. CASE UNCHANGED sweeper
    BY <1>0, <1>1
  <1>2. ASSUME NEW s \in Sweepers, SweepStart(s) \/ SweepEnd(s) \/ SweepFails(s)
        PROVE  sweeper' \in [Sweepers -> Sweep]
    <2>1. [Off EXCEPT !.pc = "list", !.now = now] \in Sweep
      BY <1>0 DEF Off
    <2>2. PICK x \in Sweep : sweeper' = [sweeper EXCEPT ![s] = x]
      BY <1>0, <1>2, <2>1, Zenon DEF SweepStart, SweepEnd, SweepFails
    <2> HIDE DEF Sweep
    <2> QED
      BY <1>0, <2>2
  <1>3. ASSUME NEW s \in Sweepers, SweepList(s)
        PROVE  sweeper' \in [Sweepers -> Sweep]
    <2>1. \A u \in UIDs : Current(u) # Nil =>
             [uid |-> u, expiresAt |-> Current(u).expiresAt] \in Item
      BY <1>0, CachedType DEF SchedulingDecision, Item
    <2>2. {[uid |-> u, expiresAt |-> Current(u).expiresAt] :
              u \in {v \in UIDs : Current(v) # Nil}} \in SUBSET Item
      BY <2>1
    <2> QED
      BY <1>0, <1>3, <2>2 DEF SweepList
  <1>4. ASSUME NEW s \in Sweepers, NEW i \in sweeper[s].items,
               SweepKeep(s, i) \/ SweepDelete(s, i) \/ SweepDeleteFails(s, i)
        PROVE  sweeper' \in [Sweepers -> Sweep]
    BY <1>0, <1>4 DEF SweepKeep, SweepDelete, SweepDeleteFails
  <1> QED
    BY <1>1, <1>2, <1>3, <1>4 DEF RetentionNext, SweepStep, retentionVars

\* With any number of sweeps at work every variable keeps its type, and a draft
\* in the worker's hands is still the version it was read from and one more
\* transition, also when that version is no longer the last.
THEOREM RetentionInvariance == RetentionSpec => [](Inv /\ RetentionTypeOK)
  <1>1. Inv /\ RetentionTypeOK /\ [RetentionNext]_retentionVars
          => (Inv /\ RetentionTypeOK)'
    BY RetentionInvStep, SweeperTypeStep DEF RetentionTypeOK, Inv
  <1> QED
    BY <1>1, RetentionInvInit, PTL DEF RetentionSpec

-----------------------------------------------------------------------------
(* One sweep at a time. *)

\* What a sweep has listed and not yet dealt with is there as it was listed,
\* and its clock is not ahead.  It needs that no other sweep deletes.
ListIsCurrent ==
    \A s \in Sweepers :
        /\ sweeper[s].now <= now
        /\ \A i \in sweeper[s].items :
              Current(i.uid) # Nil /\ Current(i.uid).expiresAt = i.expiresAt

\* The reconciler never takes a record away, nor changes its label.
LEMMA ReconcilerKeeps ==
    ASSUME Inv, [Next]_vars, NEW v \in UIDs, Current(v) # Nil
    PROVE  Current(v)' # Nil /\ Current(v)'.expiresAt = Current(v).expiresAt
  <1>0. TypeOK /\ StoreTypeOK /\ WorkerTypeOK
    BY DEF Inv, TypeOK
  <1>1. CASE log' = log
    BY <1>1 DEF Current, Version
  <1>2. ASSUME pc = "create", NEW u, u = observed.identity.uid,
               Current(u) = Nil, log' = [log EXCEPT ![u] = Append(@, draft)]
        PROVE  Current(v)' = Current(v)
    <2>1. u \in UIDs /\ draft \in SchedulingDecision
      BY <1>0, <1>2, ObservationParts DEF WorkerTypeOK
    <2> QED
      BY <1>0, <1>2, <2>1, AfterAppend
  <1>3. ASSUME pc = "update", NEW u, u = observed.identity.uid,
               Accepts(u), ServerUpdate(u)
        PROVE  Current(v)' # Nil
    <2>1. PICK t : t = StoredTransition(observed.transition)
      OBVIOUS
    <2>2. /\ u \in UIDs /\ Current(u) \in SchedulingDecision
          /\ t \in SchedulingTransition
          /\ Current(u)' = [Current(u) EXCEPT !.status = applyTransition(@, t)]
          /\ \A w \in UIDs \ {u} : Current(w)' = Current(w)
      BY <1>3, <2>1, AcceptedUpdate
    <2>3. Current(u)' \in SchedulingDecision
      BY <2>2, AppliedHistory
    <2> QED
      BY <2>2, <2>3, NilAssumption
  <1>4. Current(v)' # Nil
    BY <1>0, <1>1, <1>2, <1>3, LogStep
  <1> QED
    BY <1>4, AppendOnlyStep DEF Extends

\* A listed item that is expired by the sweep's clock is so by the present one.
LEMMA ExpiredByNow ==
    ASSUME NEW e \in Nat \cup {Nil}, NEW at \in Nat, NEW t \in Nat, at <= t,
           isExpired(e, at)
    PROVE  e \in Nat /\ e * TicksPerSecond <= t /\ e <= Unix(t)
  <1>1. e \in Nat /\ e * TicksPerSecond <= at /\ e * TicksPerSecond \in Nat
    BY TicksAssumption DEF isExpired
  <1>2. e * TicksPerSecond <= t
    BY <1>1
  <1>3. e <= t \div TicksPerSecond
    BY <1>1, <1>2, TicksAssumption, SMT
  <1> QED
    BY <1>1, <1>2, <1>3 DEF Unix

\* The list and the clock of a sweep that has just listed are current.
LEMMA ListStep ==
    ASSUME \A s, t \in Sweepers : s = t,
           Inv, RetentionTypeOK, ListIsCurrent, [RetentionNext]_retentionVars
    PROVE  ListIsCurrent'
  <1>0. /\ TypeOK /\ StoreTypeOK /\ now \in Nat
        /\ sweeper \in [Sweepers -> [pc : {"off", "list", "delete"}, now : Nat,
                                     items : SUBSET Item]]
    BY DEF RetentionTypeOK, TypeOK, ClusterTypeOK
  <1>1. CASE [Next]_vars /\ UNCHANGED sweeper
    <2>1. now' >= now /\ now' \in Nat
      BY <1>0, <1>1, ClockStep, TypeStep DEF TypeOK, ClusterTypeOK
    <2>2. ASSUME NEW s \in Sweepers
          PROVE  sweeper'[s].now <= now'
      BY <1>0, <1>1, <2>1 DEF ListIsCurrent
    <2>3. ASSUME NEW s \in Sweepers, NEW i \in sweeper'[s].items
          PROVE  Current(i.uid)' # Nil /\ Current(i.uid)'.expiresAt = i.expiresAt
      <3>1. /\ i \in sweeper[s].items /\ i.uid \in UIDs
            /\ Current(i.uid) # Nil /\ Current(i.uid).expiresAt = i.expiresAt
        BY <1>0, <1>1, <2>3 DEF Item, ListIsCurrent
      <3> QED
        BY <1>1, <3>1, ReconcilerKeeps
    <2> QED
      BY <2>2, <2>3 DEF ListIsCurrent
  <1>2. ASSUME NEW s \in Sweepers, sweeper'[s].items = {},
               sweeper'[s].now <= now', \A t \in Sweepers : t = s
        PROVE  ListIsCurrent'
    BY <1>2 DEF ListIsCurrent
  <1>3. ASSUME NEW s \in Sweepers, SweepStart(s) \/ SweepEnd(s) \/ SweepFails(s)
        PROVE  ListIsCurrent'
    <2>1. sweeper'[s].items = {} /\ sweeper'[s].now \in {0, now} /\ now' = now
      <3>1. CASE SweepStart(s)
        BY <1>0, <3>1 DEF SweepStart, Off, vars, cluster
      <3>2. CASE SweepEnd(s)
        BY <1>0, <3>2 DEF SweepEnd, Off, vars, cluster
      <3>3. CASE SweepFails(s)
        BY <1>0, <3>3 DEF SweepFails, Off, cluster
      <3> QED
        BY <1>3, <3>1, <3>2, <3>3
    <2>2. sweeper'[s].now <= now'
      BY <1>0, <2>1
    <2>3. \A t \in Sweepers : t = s
      OBVIOUS
    <2> QED
      BY <1>2, <2>1, <2>2, <2>3
  <1>4. ASSUME NEW s \in Sweepers, SweepList(s)
        PROVE  ListIsCurrent'
    <2>1. /\ sweeper'[s].now = sweeper[s].now
          /\ sweeper'[s].items = {[uid |-> u, expiresAt |-> Current(u).expiresAt] :
                                     u \in {v \in UIDs : Current(v) # Nil}}
      BY <1>0, <1>4 DEF SweepList
    <2>2. now' = now /\ log' = log
      BY <1>4 DEF SweepList, vars, cluster, store
    <2>3. \A v \in UIDs : Current(v)' = Current(v)
      BY <2>2 DEF Current, Version
    <2>4. \A i \in sweeper'[s].items :
             Current(i.uid)' # Nil /\ Current(i.uid)'.expiresAt = i.expiresAt
      BY <2>1, <2>3
    <2> QED
      BY <1>4, <2>1, <2>2, <2>4 DEF ListIsCurrent
  <1>5. ASSUME NEW s \in Sweepers, NEW i \in sweeper[s].items,
               SweepKeep(s, i) \/ SweepDelete(s, i) \/ SweepDeleteFails(s, i)
        PROVE  ListIsCurrent'
    <2>1. /\ sweeper'[s].now = sweeper[s].now
          /\ sweeper'[s].items = sweeper[s].items \ {i}
          /\ now' = now
      BY <1>0, <1>5 DEF SweepKeep, SweepDelete, SweepDeleteFails, vars, cluster
    <2>2. log' = log \/ log' = [log EXCEPT ![i.uid] = Append(@, Nil)]
      BY <1>5 DEF SweepKeep, SweepDelete, SweepDeleteFails, ServerDelete, vars, store
    <2>3. i.uid \in UIDs /\ i \in Item
      BY <1>0 DEF Item
    <2>4. \A v \in UIDs \ {i.uid} : Current(v)' = Current(v)
      <3>1. CASE log' = log
        BY <3>1 DEF Current, Version
      <3>2. CASE log' = [log EXCEPT ![i.uid] = Append(@, Nil)]
        BY <1>0, <2>3, <3>2, AfterAppend
      <3> QED
        BY <2>2, <3>1, <3>2
    <2>5. ASSUME NEW j \in sweeper'[s].items
          PROVE  Current(j.uid)' # Nil /\ Current(j.uid)'.expiresAt = j.expiresAt
      <3>1. j \in sweeper[s].items /\ j # i /\ j \in Item
        BY <1>0, <2>1
      <3>2. /\ Current(j.uid) # Nil /\ Current(j.uid).expiresAt = j.expiresAt
            /\ Current(i.uid).expiresAt = i.expiresAt
        BY <3>1 DEF ListIsCurrent
      <3>3. j.uid \in UIDs \ {i.uid}
        BY <2>3, <3>1, <3>2 DEF Item
      <3> QED
        BY <2>4, <3>2, <3>3
    <2> QED
      BY <2>1, <2>5 DEF ListIsCurrent
  <1>6. CASE UNCHANGED retentionVars
    BY <1>1, <1>6 DEF retentionVars
  <1> QED
    BY <1>1, <1>3, <1>4, <1>5, <1>6 DEF RetentionNext, SweepStep

LEMMA ListInit ==
    ASSUME RetentionInit
    PROVE  ListIsCurrent
  <1>1. /\ now = TicksPerSecond
        /\ \A s \in Sweepers : sweeper[s] = Off
    BY DEF RetentionInit, Start
  <1>2. Off.items = {} /\ Off.now = 0
    BY DEF Off
  <1>3. ASSUME NEW s \in Sweepers
        PROVE  sweeper[s].items = {} /\ sweeper[s].now <= now
    BY <1>1, <1>2, TicksAssumption
  <1> QED
    BY <1>3 DEF ListIsCurrent

\* A step that takes a record away deletes it past its expiry.
LEMMA DeletedWhenExpired ==
    ASSUME Inv, RetentionTypeOK, ListIsCurrent, [RetentionNext]_retentionVars,
           NEW u \in UIDs, Current(u) # Nil, Current(u)' = Nil
    PROVE  /\ Overdue(u) /\ Current(u).expiresAt * TicksPerSecond <= now
           /\ now' = now
           /\ \A v \in UIDs \ {u} : Current(v)' = Current(v)
  <1>0. StoreTypeOK /\ now \in Nat
    BY DEF RetentionTypeOK, TypeOK, ClusterTypeOK
  <1>1. ~[Next]_vars
    BY ReconcilerKeeps
  <1>2. PICK s \in Sweepers :
           SweepStep(s) \/ SweepFails(s)
             \/ \E i \in sweeper[s].items : SweepDeleteFails(s, i)
    BY <1>1 DEF RetentionNext, retentionVars
  <1>3. log' # log
    BY DEF Current, Version
  <1>4. now' = now
    BY <1>2, SweepSteps DEF cluster
  <1>5. PICK i \in sweeper[s].items :
           /\ isExpired(i.expiresAt, sweeper[s].now)
           /\ log' = [log EXCEPT ![i.uid] = Append(@, Nil)]
    BY <1>2, <1>3, SweepSteps
  <1>6. /\ i.uid \in UIDs /\ i.expiresAt \in Nat \cup {Nil}
        /\ sweeper[s].now \in Nat /\ sweeper[s].now <= now
        /\ Current(i.uid).expiresAt = i.expiresAt
    BY DEF RetentionTypeOK, Item, ListIsCurrent
  <1>7. \A v \in UIDs \ {i.uid} : Current(v)' = Current(v)
    BY <1>0, <1>5, <1>6, AfterAppend
  <1>8. u = i.uid
    BY <1>7
  <1>9. /\ i.expiresAt \in Nat /\ i.expiresAt * TicksPerSecond <= now
        /\ i.expiresAt <= Unix(now)
    BY <1>0, <1>5, <1>6, ExpiredByNow
  <1> QED
    BY <1>4, <1>6, <1>7, <1>8, <1>9, NilAssumption DEF Overdue

\* A record is only deleted past its own expiry, if one sweep runs at a time
\* (concurrencyPolicy Forbid of the CronJob): whatever the reconciler creates
\* and updates between the list and a Delete, the Delete, which gives only a
\* name, meets the record that was listed (sweep, isExpired).
THEOREM SweptExpired ==
    ASSUME \A s, t \in Sweepers : s = t
    PROVE  RetentionSpec => SweptOnlyWhenExpired
  <1>1. RetentionInit => Inv /\ RetentionTypeOK /\ ListIsCurrent
    BY RetentionInvInit, ListInit
  <1>2. Inv /\ RetentionTypeOK /\ ListIsCurrent /\ [RetentionNext]_retentionVars
          => (Inv /\ RetentionTypeOK /\ ListIsCurrent)'
    BY RetentionInvStep, SweeperTypeStep, ListStep DEF RetentionTypeOK, Inv
  <1>3. Inv /\ RetentionTypeOK /\ ListIsCurrent /\ [RetentionNext]_retentionVars
          => [\A u \in UIDs : Current(u) # Nil /\ Current(u)' = Nil => Overdue(u)]_retentionVars
    BY DeletedWhenExpired
  <1> QED
    BY <1>1, <1>2, <1>3, PTL DEF RetentionSpec, SweptOnlyWhenExpired

-----------------------------------------------------------------------------
(* Refinement. *)

LEMMA ObservedRetention ==
    ASSUME EventClocks \subseteq {"second"},
           SecondsInv, RetentionTypeOK, [RetentionNext]_retentionVars
    PROVE  SecondsInv'
  <1>1. CASE [Next]_vars
    BY <1>1, SecondsStep
  <1>2. CASE ~[Next]_vars
    <2>1. PICK s \in Sweepers :
             SweepStep(s) \/ SweepFails(s)
               \/ \E i \in sweeper[s].items : SweepDeleteFails(s, i)
      BY <1>2 DEF RetentionNext, retentionVars
    <2>2. UNCHANGED <<now, pod, events, listed, observed>>
      BY <2>1, SweepSteps DEF cluster, locals
    <2>3. ObservedInSeconds'
      BY <2>2 DEF SecondsInv, ObservedInSeconds
    <2> QED
      BY <2>3, RetentionInvStep DEF SecondsInv
  <1> QED
    BY <1>1, <1>2

LEMMA AuditRetentionStep ==
    ASSUME SecondsInv, RetentionTypeOK, ListIsCurrent,
           [RetentionNext]_retentionVars
    PROVE  [Audit!SweptNext]_<<Records, Opened, now>>
  <1>1. CASE [Next]_vars
    BY <1>1, AuditStep
  <1>2. CASE ~[Next]_vars
    <2>1. PICK s \in Sweepers :
             SweepStep(s) \/ SweepFails(s)
               \/ \E i \in sweeper[s].items : SweepDeleteFails(s, i)
      BY <1>2 DEF RetentionNext, retentionVars
    <2>2. now' = now
      BY <2>1, SweepSteps DEF cluster
    <2>3. CASE log' = log
      <3>1. Records' = Records /\ Opened' = Opened
        BY <2>3 DEF Records, Opened, Current, Version
      <3> QED
        BY <2>2, <3>1
    <2>4. CASE log' # log
      <3>1. PICK i \in sweeper[s].items :
               /\ Current(i.uid) # Nil
               /\ log' = [log EXCEPT ![i.uid] = Append(@, Nil)]
        BY <2>1, <2>4, SweepSteps
      <3>2. PICK u \in UIDs : u = i.uid
        BY DEF RetentionTypeOK, Item
      <3>3. Current(u)' = Nil
        BY <3>1, <3>2, AfterAppend DEF RetentionTypeOK, TypeOK
      <3>4. /\ Overdue(u) /\ Current(u).expiresAt * TicksPerSecond <= now
            /\ \A v \in UIDs \ {u} : Current(v)' = Current(v)
        BY <3>1, <3>2, <3>3, DeletedWhenExpired DEF SecondsInv
      <3>5. /\ Records' = [Records EXCEPT ![u] = Records'[u]]
            /\ Records[u] = Current(u) /\ Records'[u] = Nil
        BY <3>3, <3>4 DEF Records
      <3>6. Opened' = Opened
        <4>1. Opened' = Opened \cup {u}
          BY <3>1, <3>2, OpenedStep DEF RetentionTypeOK, TypeOK
        <4> QED
          BY <3>1, <3>2, <4>1, RecordIsOpened
      <3>7. Audit!Expire(u)
        BY <3>4, <3>5, <3>6, Zenon DEF Audit!Expire, Records, Opened, Overdue
      <3>8. Audit!OneRecord(u)
        BY <2>2, <3>5, Zenon DEF Audit!OneRecord, Records
      <3> QED
        BY <3>7, <3>8, Zenon DEF Audit!AuditNext, Audit!SweptNext
    <2> QED
      BY <2>3, <2>4
  <1> QED
    BY <1>1, <1>2

\* Reconciler and sweep together follow AuditLog but for opening a swept record
\* anew, if one sweep runs at a time and Events carry whole seconds: records
\* grow and expire as a whole, and a status update computed before a deletion
\* brings no old record back (appendTransitionWithRetry, sweep).
THEOREM RetentionRefinement ==
    ASSUME \A s, t \in Sweepers : s = t, EventClocks \subseteq {"second"}
    PROVE  RetentionSpec => ImplementsSweptLog
  <1> DEFINE I == SecondsInv /\ RetentionTypeOK /\ ListIsCurrent
  <1>1. RetentionInit => I /\ Audit!AuditInit
    <2> SUFFICES ASSUME RetentionInit
                 PROVE  I /\ Audit!AuditInit
      OBVIOUS
    <2>1. I
      BY RetentionInvInit, ListInit, ObservedInit DEF SecondsInv, RetentionInit
    <2>2. now \in Nat
      BY <2>1 DEF RetentionTypeOK, TypeOK, ClusterTypeOK
    <2>3. \A u \in UIDs : Current(u) # Nil => Current(u).expiresAt = Nil
      BY InitialRecords
    <2>4. Opened = {u \in UIDs : Records[u] # Nil}
      BY InitialRecords, RecordIsOpened DEF Opened, Records
    <2>5. Audit!AuditInit
      BY <2>2, <2>3, <2>4 DEF Audit!AuditInit, Opened, Records
    <2> QED
      BY <2>1, <2>5
  <1>2. I /\ [RetentionNext]_retentionVars
          => I' /\ [Audit!SweptNext]_<<Records, Opened, now>>
    BY ObservedRetention, SweeperTypeStep, ListStep, AuditRetentionStep
       DEF SecondsInv, Inv, RetentionTypeOK
  <1> QED
    BY <1>1, <1>2, PTL
       DEF RetentionSpec, ImplementsSweptLog, Audit!SweptSpec, Records, Opened

=============================================================================
