------------------------------ MODULE AuditLog ------------------------------
(***************************************************************************)
(* What the project promises of its records, without saying how they come   *)
(* about: every Pod UID gets a SchedulingDecision at most once; it starts    *)
(* with an empty history; its spec and its expiry never change; its history  *)
(* only grows, by one transition at a time, each different from the one      *)
(* before; its status mirrors the last transition; and it disappears as a    *)
(* whole, when its retention window is over.                                 *)
(* (api/v1alpha1/schedulingdecision_types.go, the comments on                *)
(* SchedulingDecisionSpec, SchedulingTransition and                          *)
(* SchedulingDecisionStatus; controllers/schedulingdecision_controller.go,   *)
(* the comments on SchedulingDecisionReconciler and ensureDecisionCreated.)  *)
(***************************************************************************)
EXTENDS Decision

VARIABLES rec,     \* the decision of each UID, Nil when there is none
          opened,  \* UIDs that have, or have had, one
          clock    \* the time

\* Only records from before there was a retention may be there at the start.
AuditInit ==
    /\ clock \in Nat
    /\ rec = [u \in UIDs |-> rec[u]]
    /\ opened = {u \in UIDs : rec[u] # Nil}
    /\ \A u \in UIDs : rec[u] # Nil => rec[u].expiresAt = Nil

\* There is a record where there was none, of this Pod and with nothing in it.
Fresh(u) ==
    /\ rec[u] = Nil
    /\ rec'[u] # Nil
    /\ rec'[u].spec.podUID = u
    /\ rec'[u].expiresAt # Nil
    /\ rec'[u].status = EmptyStatus

\* The first observation of a Pod opens its record.
Open(u) ==
    /\ u \notin opened
    /\ opened' = opened \cup {u}
    /\ Fresh(u)

\* Only with sweeps: a Pod that has outlived its record is observed once more.
Reopen(u) ==
    /\ u \in opened
    /\ opened' = opened
    /\ Fresh(u)

\* One more transition is appended and mirrored, and nothing else changes.
Extend(u) ==
    /\ rec[u] # Nil
    /\ opened' = opened
    /\ rec'[u] # Nil
    /\ rec'[u].status.transitions # <<>>
    /\ LET old == rec[u].status
           t == rec'[u].status.transitions[Len(rec'[u].status.transitions)]
       IN  /\ rec'[u] = [rec[u] EXCEPT !.status = applyTransition(old, t)]
           /\ t = StoredTransition(t)
           /\ ~AlreadyLast(old, t)

\* The record is past its expiry and goes.
Expire(u) ==
    /\ rec[u] # Nil
    /\ opened' = opened
    /\ rec[u].expiresAt # Nil
    /\ rec[u].expiresAt * TicksPerSecond <= clock
    /\ rec'[u] = Nil

\* Time passes and nothing happens to the records.
Wait == rec' = rec /\ opened' = opened /\ clock' >= clock

\* One record changes, at one time.
OneRecord(u) == clock' = clock /\ rec' = [rec EXCEPT ![u] = rec'[u]]

AuditNext ==
    \/ Wait
    \/ \E u \in UIDs : OneRecord(u) /\ (Open(u) \/ Extend(u) \/ Expire(u))

AuditSpec == AuditInit /\ [][AuditNext]_<<rec, opened, clock>>

\* The weaker promise that is left once records are swept while their Pods live.
SweptNext ==
    \/ AuditNext
    \/ \E u \in UIDs : OneRecord(u) /\ Reopen(u)

SweptSpec == AuditInit /\ [][SweptNext]_<<rec, opened, clock>>

=============================================================================
