--------------------------- MODULE VolumeContext ----------------------------
(***************************************************************************)
(* How a SchedulingDecision gets its volume context                         *)
(* (controllers/volumecontext.go, called once by ensureDecisionCreated): a   *)
(* walk over the volumes of the Pod to a claim and on to its StorageClass,   *)
(* with a read of a cache at each stop.  Claims and classes come, change and *)
(* go between the reads, and a read may fail.                                *)
(*                                                                         *)
(* The rest of the reconciler is left out: an observation of the Pod starts  *)
(* ensureDecisionCreated, which does nothing once the decision exists.       *)
(***************************************************************************)
EXTENDS Integers, Sequences, SequencesExt

CONSTANTS
    Nil,
    Claims,          \* names of PersistentVolumeClaims
    Classes,         \* names of StorageClasses
    StorageClasses,  \* what a StorageClass can be
    MaxVolumes,      \* bound on the volumes of the Pod
    MaxChanges       \* bound on changes of claims and classes

\* The storageClassName of a claim that names none.
NoClass == ""

ASSUME VolumeAssumption ==
    /\ Nil \notin Claims /\ Nil \notin StorageClasses
    /\ {Nil, NoClass} \cap Classes = {} /\ Nil # NoClass
    /\ MaxVolumes \in Nat /\ MaxChanges \in Nat

VARIABLES
    volumes,    \* spec.volumes of the Pod: the claim of each, Nil if it has none
    claim,      \* PVC cache: the claim's class ("" for none), Nil if not there
    class,      \* StorageClass cache, Nil if not there
    pc,         \* where ensureDecisionCreated is
    at,         \* the volume it looks at
    wanted,     \* the class of the claim found
    decision,   \* [volumeContext], Nil while there is none
    changes,    \* changes of claims and classes so far
    steady      \* no change and no failure since the walk began

vars == <<volumes, claim, class, pc, at, wanted, decision, changes,
          steady>>

-----------------------------------------------------------------------------
provisionerDriverLabels ==
    [p \in {"csi.purestorage.com", "pxd.portworx.com", "csi.vsphere.vmware.com",
            "kubernetes.io/aws-ebs", "ebs.csi.aws.com", "disk.csi.azure.com",
            "pd.csi.storage.gke.io"} |->
        CASE p = "csi.purestorage.com"    -> "FADA"
          [] p = "pxd.portworx.com"       -> "PX-CSI"
          [] p = "csi.vsphere.vmware.com" -> "vsphere-csi"
          [] p = "kubernetes.io/aws-ebs"  -> "aws-ebs"
          [] p = "ebs.csi.aws.com"        -> "aws-ebs-csi"
          [] p = "disk.csi.azure.com"     -> "azure-disk-csi"
          [] p = "pd.csi.storage.gke.io"  -> "gce-pd-csi"]

driverLabelForProvisioner(provisioner) ==
    IF provisioner \in DOMAIN provisionerDriverLabels
    THEN provisionerDriverLabels[provisioner] ELSE provisioner

\* The expressions of all terms in one list; which term one is from is lost.
summarizeTopology(terms) == FlattenSeq(terms)

\* A VolumeContext; "" and <<>> are fields left empty.
BareContext(c) ==
    [pvcName |-> c, storageClass |-> "", driverType |-> "", bindingMode |-> "",
     topologyConstraint |-> <<>>]

WithClass(c, name, sc) ==
    [pvcName |-> c, storageClass |-> name,
     driverType |-> driverLabelForProvisioner(sc.provisioner),
     bindingMode |-> IF sc.volumeBindingMode = Nil THEN ""
                     ELSE sc.volumeBindingMode,
     topologyConstraint |-> summarizeTopology(sc.allowedTopologies)]

-----------------------------------------------------------------------------
Init ==
    /\ volumes \in BoundedSeq(Claims \cup {Nil}, MaxVolumes)
    /\ claim \in [Claims -> Classes \cup {NoClass, Nil}]
    /\ class \in [Classes -> StorageClasses \cup {Nil}]
    /\ pc = "idle" /\ at = 0 /\ wanted = NoClass
    /\ decision = Nil
    /\ changes = 0 /\ steady = FALSE

\* The decision is created with the context, Nil if there is none; the Create
\* itself is Reconciler's.
Finish(context) ==
    /\ decision' = [volumeContext |-> context]
    /\ pc' = "idle" /\ at' = 0 /\ wanted' = NoClass
    /\ UNCHANGED <<volumes, claim, class, changes>>

Go(step, i, name) ==
    /\ pc' = step /\ at' = i /\ wanted' = name
    /\ UNCHANGED <<volumes, claim, class, decision, changes, steady>>

\* A reconcile gets to ensureDecisionCreated.
Observe ==
    /\ pc = "idle"
    /\ decision = Nil
    /\ pc' = "claim" /\ at' = 1
    /\ steady' = TRUE
    /\ UNCHANGED <<volumes, claim, class, wanted, decision, changes>>

\* The loop is over: no volume has a claim that is there.
NoClaim ==
    /\ pc = "claim"
    /\ at > Len(volumes)
    /\ Finish(Nil)
    /\ UNCHANGED steady

\* One round of the loop.  A volume without a claim, and one whose claim is not
\* found, is passed over; a claim without a class needs no further read.
GetClaim ==
    /\ pc = "claim"
    /\ at <= Len(volumes)
    /\ LET c == volumes[at]
       IN  \/ c = Nil /\ Go("claim", at + 1, NoClass)
           \/ c # Nil /\ claim[c] = Nil /\ Go("claim", at + 1, NoClass)
           \/ /\ c # Nil /\ claim[c] = NoClass
              /\ Finish(BareContext(c)) /\ UNCHANGED steady
           \/ c # Nil /\ claim[c] \in Classes /\ Go("class", at, claim[c])

\* Mutant: a class that is not found is treated like a claim that is not.
GetClass_Nil ==
    /\ pc = "class"
    /\ IF class[wanted] = Nil
       THEN Finish(Nil)
       ELSE Finish(WithClass(volumes[at], wanted, class[wanted]))
    /\ UNCHANGED steady

\* The claim's class is read; one that is not found leaves its name only.
GetClass ==
    /\ pc = "class"
    /\ LET c == volumes[at]
       IN  IF class[wanted] = Nil
           THEN Finish([BareContext(c) EXCEPT !.storageClass = wanted])
           ELSE Finish(WithClass(c, wanted, class[wanted]))
    /\ UNCHANGED steady

\* The next step reads a claim or a class.
Reading ==
    pc = "class" \/ (pc = "claim" /\ at <= Len(volumes) /\ volumes[at] # Nil)

\* Mutant: the error is returned, and the request queued again.
GetFails_Return ==
    /\ Reading
    /\ Go("idle", 0, NoClass)

\* A read fails for another reason than NotFound: the error is logged and the
\* decision created without a context.
GetFails ==
    /\ Reading
    /\ Finish(Nil)
    /\ steady' = FALSE

Walk == NoClaim \/ GetClaim \/ GetClass \/ GetFails

\* The caches change: claims are created, given a class and deleted; classes
\* are replaced.
Change ==
    /\ changes < MaxChanges
    /\ changes' = changes + 1
    /\ \/ /\ \E c \in Claims, to \in Classes \cup {NoClass, Nil} :
                claim[c] # to /\ claim' = [claim EXCEPT ![c] = to]
          /\ UNCHANGED class
       \/ /\ \E n \in Classes, to \in StorageClasses \cup {Nil} :
                class[n] # to /\ class' = [class EXCEPT ![n] = to]
          /\ UNCHANGED claim
    /\ steady' = FALSE
    /\ UNCHANGED <<volumes, pc, at, wanted, decision>>

Next == Observe \/ Walk \/ Change

Spec == Init /\ [][Next]_vars

\* A Pod with an outcome is observed, and a started reconcile goes on (see
\* Fairness in Reconciler).
FairSpec == Spec /\ WF_vars(Observe) /\ WF_vars(Walk)

-----------------------------------------------------------------------------
(* Properties. *)

\* Volume i has a claim that is there.
There(i) == volumes[i] # Nil /\ claim[volumes[i]] # Nil

\* The context that claim c, which is there, gives.
ContextOf(c) ==
    LET name == claim[c]
    IN  IF name = NoClass THEN BareContext(c)
        ELSE IF class[name] = Nil
          THEN [BareContext(c) EXCEPT !.storageClass = name]
        ELSE WithClass(c, name, class[name])

\* The first volume that has a claim.
FirstBacked(i) == volumes[i] # Nil /\ \A j \in 1 .. i - 1 : volumes[j] = Nil

FirstIsThere == \E i \in DOMAIN volumes : FirstBacked(i) /\ There(i)

\* Types, and where the walk can be.
VolumeTypeOK ==
    /\ volumes \in Seq(Claims \cup {Nil})
    /\ claim \in [Claims -> Classes \cup {NoClass, Nil}]
    /\ class \in [Classes -> StorageClasses \cup {Nil}]
    /\ pc \in {"idle", "claim", "class"}
    /\ pc = "claim" => at \in 1 .. Len(volumes) + 1
    /\ pc = "class" => /\ at \in 1 .. Len(volumes) /\ volumes[at] \in Claims
                       /\ wanted \in Classes
    /\ steady \in BOOLEAN

\* The inductive invariant: as long as nothing has changed, what the walk has
\* passed over it would pass over again, and what it has read still holds.
WalkInv ==
    /\ VolumeTypeOK
    /\ steady /\ pc # "idle" => \A i \in 1 .. at - 1 : ~There(i)
    /\ steady /\ pc = "class" => claim[volumes[at]] = wanted

\* A walk has ended during which nothing changed and no read failed.
SteadyEnd == decision' # decision /\ steady /\ steady'

\* A steady walk records no context but that of a volume of the Pod whose claim
\* is there, with its class as it is, and that of the first volume that has a
\* claim if that one is there (resolveVolumeContext, volumeContextFromPVC).
WalkFindsContext ==
    [][SteadyEnd =>
         LET context == decision'.volumeContext
         IN  /\ context # Nil =>
                   \E i \in DOMAIN volumes :
                       There(i) /\ context = ContextOf(volumes[i])
             /\ \A i \in DOMAIN volumes :
                   FirstBacked(i) /\ There(i)
                     => context = ContextOf(volumes[i])]_vars

\* Only the first volume that has a claim counts: if that claim is not there, a
\* steady walk records no context.  (The code goes on to the next volume.)
FirstClaimDecides ==
    [][SteadyEnd /\ ~FirstIsThere => decision'.volumeContext = Nil]_vars

\* The decision is created whatever the reads of claims and classes answer
\* (ensureDecisionCreated logs the error and goes on).
DecisionIsCreated == pc # "idle" ~> decision # Nil

=============================================================================
