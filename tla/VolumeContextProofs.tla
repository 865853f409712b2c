------------------------ MODULE VolumeContextProofs -------------------------
(***************************************************************************)
(* The walk of resolveVolumeContext finds what it is meant to find, for any  *)
(* number of volumes, claims and classes and any number of changes.          *)
(***************************************************************************)
EXTENDS VolumeContext, TLAPS

-----------------------------------------------------------------------------
(* The inductive invariant. *)

\* The volumes of a Pod are a list.
LEMMA VolumesAreList ==
    BoundedSeq(Claims \cup {Nil}, MaxVolumes) \subseteq Seq(Claims \cup {Nil})
  BY VolumeAssumption DEF BoundedSeq, SeqOf

LEMMA WalkInit ==
    ASSUME Init
    PROVE  WalkInv
  BY VolumesAreList DEF Init, WalkInv, VolumeTypeOK

\* Where the walk ends there is nothing left to keep.
LEMMA FinishInv ==
    ASSUME WalkInv, NEW context, Finish(context), steady' \in BOOLEAN
    PROVE  WalkInv'
  BY DEF WalkInv, VolumeTypeOK, Finish

\* A volume without a claim that is there is passed over.
LEMMA PassInv ==
    ASSUME WalkInv, pc = "claim", at <= Len(volumes), ~There(at),
           Go("claim", at + 1, NoClass)
    PROVE  WalkInv'
  <1>1. at \in 1 .. Len(volumes) /\ Len(volumes) \in Nat
    BY DEF WalkInv, VolumeTypeOK
  <1>2. /\ at' = at + 1 /\ pc' = "claim"
        /\ UNCHANGED <<volumes, claim, class, steady>>
    BY DEF Go
  <1>3. \A i : There(i)' <=> There(i)
    BY <1>2 DEF There
  <1>4. steady => \A i \in 1 .. at : ~There(i)
    BY <1>1 DEF WalkInv
  <1> QED
    BY <1>1, <1>2, <1>3, <1>4 DEF WalkInv, VolumeTypeOK

LEMMA GetClaimInv ==
    ASSUME WalkInv, GetClaim
    PROVE  WalkInv'
  <1>0. /\ pc = "claim" /\ at <= Len(volumes) /\ at \in 1 .. Len(volumes)
        /\ volumes[at] \in Claims \cup {Nil} /\ steady \in BOOLEAN
    BY DEF GetClaim, WalkInv, VolumeTypeOK
  <1>1. CASE ~There(at) /\ Go("claim", at + 1, NoClass)
    BY <1>0, <1>1, PassInv
  <1>2. CASE Finish(BareContext(volumes[at])) /\ UNCHANGED steady
    BY <1>0, <1>2, FinishInv
  <1>3. CASE /\ volumes[at] # Nil /\ claim[volumes[at]] \in Classes
             /\ Go("class", at, claim[volumes[at]])
    <2>1. /\ at' = at /\ pc' = "class" /\ wanted' = claim[volumes[at]]
          /\ UNCHANGED <<volumes, claim, class, steady>>
      BY <1>3 DEF Go
    <2>2. \A i : There(i)' <=> There(i)
      BY <2>1 DEF There
    <2> QED
      BY <1>0, <1>3, <2>1, <2>2 DEF WalkInv, VolumeTypeOK
  <1> QED
    BY <1>1, <1>2, <1>3 DEF GetClaim, There

LEMMA WalkStep ==
    ASSUME WalkInv, [Next]_vars
    PROVE  WalkInv'
  <1>0. VolumeTypeOK /\ steady \in BOOLEAN
    BY DEF WalkInv, VolumeTypeOK
  <1>1. CASE Observe
    <2>1. Len(volumes) \in Nat
      BY <1>0 DEF VolumeTypeOK
    <2> QED
      BY <1>0, <1>1, <2>1 DEF Observe, WalkInv, VolumeTypeOK
  <1>2. CASE NoClaim
    BY <1>0, <1>2, FinishInv DEF NoClaim
  <1>3. CASE GetClaim
    BY <1>3, GetClaimInv
  <1>4. CASE GetClass
    BY <1>0, <1>4, FinishInv DEF GetClass
  <1>5. CASE GetFails
    BY <1>5, FinishInv DEF GetFails
  <1>6. CASE Change
    <2>1. /\ claim' \in [Claims -> Classes \cup {NoClass, Nil}]
          /\ class' \in [Classes -> StorageClasses \cup {Nil}]
      BY <1>0, <1>6 DEF Change, VolumeTypeOK
    <2> QED
      BY <1>0, <1>6, <2>1 DEF Change, WalkInv, VolumeTypeOK
  <1>7. CASE UNCHANGED vars
    BY <1>7 DEF vars, WalkInv, VolumeTypeOK, There
  <1> QED
    BY <1>1, <1>2, <1>3, <1>4, <1>5, <1>6, <1>7 DEF Next, Walk

-----------------------------------------------------------------------------
(* What the walk finds. *)

\* What a steady walk records, as WalkFindsContext says it.
Found(context) ==
    /\ context # Nil => \E i \in DOMAIN volumes :
                           There(i) /\ context = ContextOf(volumes[i])
    /\ \A i \in DOMAIN volumes :
          FirstBacked(i) /\ There(i) => context = ContextOf(volumes[i])

\* The context of the first claim that is there is what is to be found.
LEMMA FirstThere ==
    ASSUME WalkInv, NEW i \in 1 .. Len(volumes), There(i),
           \A j \in 1 .. i - 1 : ~There(j)
    PROVE  Found(ContextOf(volumes[i]))
  <1>1. DOMAIN volumes = 1 .. Len(volumes) /\ Len(volumes) \in Nat
    BY DEF WalkInv, VolumeTypeOK
  <1>2. ASSUME NEW j \in 1 .. Len(volumes), FirstBacked(j), There(j)
        PROVE  j = i
    <2>1. ~(j \in 1 .. i - 1)
      BY <1>2
    <2>2. ~(i \in 1 .. j - 1)
      BY <1>2 DEF FirstBacked, There
    <2> QED
      BY <1>1, <2>1, <2>2
  <1> QED
    BY <1>1, <1>2 DEF Found

\* A step that ends a steady walk ends it with what was to be found.
LEMMA StepFinds ==
    ASSUME WalkInv, [Next]_vars, SteadyEnd
    PROVE  Found(decision'.volumeContext)
  <1>0. /\ VolumeTypeOK /\ Len(volumes) \in Nat
        /\ DOMAIN volumes = 1 .. Len(volumes)
    BY DEF WalkInv, VolumeTypeOK
  <1>1. CASE NoClaim
    <2>1. \A i \in 1 .. Len(volumes) : ~There(i)
      BY <1>0, <1>1 DEF NoClaim, WalkInv, VolumeTypeOK, SteadyEnd
    <2>2. Found(Nil)
      BY <1>0, <2>1 DEF Found
    <2> QED
      BY <1>1, <2>2 DEF NoClaim, Finish
  <1>2. CASE GetClaim
    <2>1. /\ at \in 1 .. Len(volumes) /\ There(at)
          /\ claim[volumes[at]] = NoClass
          /\ decision' = [volumeContext |-> BareContext(volumes[at])]
          /\ \A j \in 1 .. at - 1 : ~There(j)
      BY <1>0, <1>2, VolumeAssumption
         DEF GetClaim, Go, Finish, There, WalkInv, VolumeTypeOK, SteadyEnd
    <2>2. ContextOf(volumes[at]) = BareContext(volumes[at])
      BY <2>1 DEF ContextOf
    <2> QED
      BY <2>1, <2>2, FirstThere
  <1>3. CASE GetClass
    <2>1. /\ at \in 1 .. Len(volumes) /\ There(at)
          /\ claim[volumes[at]] = wanted /\ wanted \in Classes /\ wanted # NoClass
          /\ \A j \in 1 .. at - 1 : ~There(j)
      BY <1>0, <1>3, VolumeAssumption
         DEF GetClass, There, WalkInv, VolumeTypeOK, SteadyEnd
    <2>2. ContextOf(volumes[at])
            = IF class[wanted] = Nil
              THEN [BareContext(volumes[at]) EXCEPT !.storageClass = wanted]
              ELSE WithClass(volumes[at], wanted, class[wanted])
      BY <2>1 DEF ContextOf
    <2>3. decision'.volumeContext = ContextOf(volumes[at])
      BY <1>3, <2>2 DEF GetClass, Finish
    <2> QED
      BY <2>1, <2>3, FirstThere
  <1>4. ~GetFails
    BY DEF GetFails, SteadyEnd
  <1>5. decision' = decision \/ NoClaim \/ GetClaim \/ GetClass \/ GetFails
    BY DEF Next, Observe, Walk, Change, vars
  <1> QED
    BY <1>1, <1>2, <1>3, <1>4, <1>5 DEF SteadyEnd

\* Whatever changes between the walks and whichever reads fail, a walk during
\* which neither happens records no context but that of a claim that is there,
\* and that of the first volume with a claim if it is there
\* (resolveVolumeContext, volumeContextFromPVC).
THEOREM WalkFinds == Spec => WalkFindsContext
  <1>1. Init => WalkInv
    BY WalkInit
  <1>2. WalkInv /\ [Next]_vars => WalkInv'
    BY WalkStep
  <1>3. WalkInv /\ [Next]_vars
          => [SteadyEnd => Found(decision'.volumeContext)]_vars
    BY StepFinds
  <1>4. Spec => [][SteadyEnd => Found(decision'.volumeContext)]_vars
    BY <1>1, <1>2, <1>3, PTL DEF Spec
  <1> QED
    BY <1>4 DEF WalkFindsContext, Found

=============================================================================
