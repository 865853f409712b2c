----------------------------- MODULE Retention ------------------------------
(***************************************************************************)
(* The retention sweep (cmd/sweep/main.go) beside the reconciler.            *)
(*                                                                         *)
(* A sweep is one run of the command: a Job of the hourly CronJob, or one    *)
(* started by hand (docs/local-testing.md).  It reads the clock once, lists  *)
(* the SchedulingDecisions from the API server without a cache, and deletes  *)
(* the expired ones one by one, by name.                                     *)
(***************************************************************************)
EXTENDS Reconciler

CONSTANTS
    Sweepers,   \* sweeps that can run at the same time
    Legacy      \* UIDs whose record predates the expires-at label

ASSUME RetentionAssumption == Legacy \subseteq UIDs

VARIABLE sweeper    \* [pc, now, items] of each sweep

retentionVars == <<vars, sweeper>>

\* What the sweep keeps of a listed decision: its name and its label.
Item == [uid : UIDs, expiresAt : Nat \cup {Nil}]

Off == [pc |-> "off", now |-> 0, items |-> {}]

LegacyDecision(u) ==
    [expiresAt |-> Nil,
     spec |-> [podName |-> NameOf[u], podUID |-> u, schedulerName |-> "",
               volumeContext |-> Nil],
     status |-> EmptyStatus]

RetentionInit ==
    /\ Start
    /\ log = [u \in UIDs |-> IF u \in Legacy THEN <<LegacyDecision(u)>> ELSE <<>>]
    /\ sweeper = [s \in Sweepers |-> Off]

\* Mutant: a label that is missing or cannot be parsed counts as 0.
isExpired_NoError(expiresAt, at) ==
    expiresAt = Nil \/ at >= expiresAt * TicksPerSecond

\* Mutant: the label is taken for milliseconds on one side.
isExpired_Millis(expiresAt, at) ==
    expiresAt # Nil /\ at >= expiresAt * 1000 * TicksPerSecond

\* A record without a label that can be parsed is skipped, not swept.
isExpired(expiresAt, at) ==
    expiresAt # Nil /\ at >= expiresAt * TicksPerSecond

-----------------------------------------------------------------------------
(* main and sweep. *)

\* The clock is read before anything else.
SweepStart(s) ==
    /\ sweeper[s].pc = "off"
    /\ sweeper' = [sweeper EXCEPT ![s] = [Off EXCEPT !.pc = "list", !.now = now]]
    /\ UNCHANGED vars

SweepList(s) ==
    /\ sweeper[s].pc = "list"
    /\ sweeper' = [sweeper EXCEPT
          ![s].pc = "delete",
          ![s].items = {[uid |-> u, expiresAt |-> Current(u).expiresAt] :
                            u \in {v \in UIDs : Current(v) # Nil}}]
    /\ UNCHANGED vars

\* The next listed decision is not expired, or has no usable label.
SweepKeep(s, i) ==
    /\ sweeper[s].pc = "delete"
    /\ i \in sweeper[s].items
    /\ ~isExpired(i.expiresAt, sweeper[s].now)
    /\ sweeper' = [sweeper EXCEPT ![s].items = @ \ {i}]
    /\ UNCHANGED vars

\* The API server's side of the Delete, which gives the name only.
ServerDelete(u) ==
    log' = IF Current(u) = Nil THEN log ELSE [log EXCEPT ![u] = Append(@, Nil)]

\* The next one is expired and deleted; NotFound is a success.
SweepDelete(s, i) ==
    /\ sweeper[s].pc = "delete"
    /\ i \in sweeper[s].items
    /\ isExpired(i.expiresAt, sweeper[s].now)
    /\ ServerDelete(i.uid)
    /\ sweeper' = [sweeper EXCEPT ![s].items = @ \ {i}]
    /\ UNCHANGED <<cluster, queue, pc, locals, seen, disturbances>>

\* The Delete fails, or its answer is lost: the sweep goes on with the rest.
SweepDeleteFails(s, i) ==
    /\ sweeper[s].pc = "delete"
    /\ i \in sweeper[s].items
    /\ isExpired(i.expiresAt, sweeper[s].now)
    /\ ServerDelete(i.uid) \/ UNCHANGED log
    /\ sweeper' = [sweeper EXCEPT ![s].items = @ \ {i}]
    /\ Disturb
    /\ UNCHANGED <<cluster, queue, pc, locals, seen>>

\* The sweep exits.  Its exit status, 1 if a Delete failed, only tells whether
\* the Job starts it again.
SweepEnd(s) ==
    /\ sweeper[s].pc = "delete"
    /\ sweeper[s].items = {}
    /\ sweeper' = [sweeper EXCEPT ![s] = Off]
    /\ UNCHANGED vars

\* The list fails, or the sweep is killed.
SweepFails(s) ==
    /\ sweeper[s].pc # "off"
    /\ sweeper' = [sweeper EXCEPT ![s] = Off]
    /\ Disturb
    /\ UNCHANGED <<cluster, queue, pc, locals, store>>

SweepStep(s) ==
    \/ SweepStart(s)
    \/ SweepList(s)
    \/ \E i \in sweeper[s].items : SweepKeep(s, i) \/ SweepDelete(s, i)
    \/ SweepEnd(s)

RetentionNext ==
    \/ Next /\ UNCHANGED sweeper
    \/ \E s \in Sweepers : SweepStep(s)
    \/ \E s \in Sweepers :
          \/ SweepFails(s)
          \/ \E i \in sweeper[s].items : SweepDeleteFails(s, i)

RetentionSpec == RetentionInit /\ [][RetentionNext]_retentionVars

\* A sweep that has started goes on, and the CronJob starts the next one.
FairRetentionSpec ==
    RetentionSpec /\ \A s \in Sweepers : WF_retentionVars(SweepStep(s))

-----------------------------------------------------------------------------
(* Properties. *)

RetentionTypeOK ==
    /\ TypeOK
    /\ sweeper \in [Sweepers -> [pc : {"off", "list", "delete"}, now : Nat,
                                 items : SUBSET Item]]

\* Expired at the present time.
Overdue(u) ==
    /\ Current(u) # Nil
    /\ Current(u).expiresAt # Nil
    /\ Current(u).expiresAt <= Unix(now)

\* A decision is only ever deleted when it is itself past its expiry, also
\* when the sweep decided so from an older list and an older clock; a decision
\* without a label stays (sweep, isExpired).
SweptOnlyWhenExpired ==
    [][\A u \in UIDs : Current(u) # Nil /\ Current(u)' = Nil => Overdue(u)]_retentionVars

\* Beside sweeps the records still behave as AuditLog says, but for a swept one
\* that is opened anew: a status update computed before a deletion never brings
\* the old record back, and the new one begins with an empty history
\* (ensureDecisionCreated, appendTransitionWithRetry, sweep).
ImplementsSweptLog == Audit!SweptSpec

\* A decision is created at most once per Pod UID, however often the Pod is
\* reconciled.  (A Pod that is observed again after its record was swept gets
\* a second one: the existence check of ensureDecisionCreated knows nothing of
\* records that are gone.)
CreatedOncePerPod ==
    \A u \in UIDs :
        \A i, j \in 1 .. Len(log[u]) :
            i < j /\ log[u][i] = Nil => log[u][j] = Nil

\* Every expired record is gone eventually, although some Deletes fail and
\* some sweeps do (sweep and its CronJob).
ExpiredIsSwept == \A u \in UIDs : Overdue(u) ~> ~Overdue(u)

=============================================================================
