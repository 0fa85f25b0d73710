--------------------- MODULE CompositionDefinitionsProofs ---------------------
(***************************************************************************)
(* The reconciler keeps the CRD well-formed, for every number of           *)
(* definitions, versions, compositions, faults, restarts and edits.        *)
(***************************************************************************)
EXTENDS ReconcileProperties, CrdVersionsProofs, FiniteSetTheorems

\* A definition that exists has a version, and a reconcile works on one.
Named == /\ \A d \in Defs : Present(d) => cd[d].spec \in Versions
         /\ \A d \in Defs : pc[d] # "idle" => loc[d].spec \in Versions

\* Everyone who holds a copy of the CRD holds a well-formed one.
SoundCRDs == /\ Sound(crd) /\ Sound(cache) /\ Sound(sync)
             /\ \A d \in Defs : Sound(loc[d].seen)

\* Between reading the CRD and writing it the reason for writing it remains.
Pending == \A d \in Defs : pc[d] = "applyCRD"
             => NeedsApply(loc[d].seen, loc[d].spec, release)

\* The version that stores objects is in status.storedVersions.
StorageRemembered == crd.storage \subseteq crd.stored

IInv == TypeOK /\ Named /\ SoundCRDs /\ Pending /\ StorageRemembered

-----------------------------------------------------------------------------
(* Types of the expressions that the actions assign *)

LEMMA NoLocalsType == NoLocals \in Locals /\ NoStatus \in Status
  BY NoCRDType
  DEF NoLocals, NoStatus, Locals, Status, Ops, AllVersions

LEMMA RefreshedType ==
  ASSUME NEW st \in Status, NEW c \in CRD, NEW v \in Versions
  PROVE  Refreshed(st, c, v) \in Status
<1>1. c.versions \in SUBSET AllVersions
  BY DEF CRD
<1>2. st.known \cup c.versions \in SUBSET AllVersions
  BY <1>1 DEF Status
<1>3. (IF v \in c.versions \ st.known THEN st.charts \cup {v} ELSE st.charts)
        \in SUBSET AllVersions
  BY <1>1 DEF Status, AllVersions
<1> QED  BY <1>2, <1>3 DEF Refreshed, Status

LEMMA HalfwayType ==
  ASSUME TypeOK, NEW D, NEW K
  PROVE  Halfway(D, K) \in [Namespaces -> [Versions -> BundleStates]]
  BY DEF Halfway, TypeOK, BundleStates

LEMMA UndeployedToRightsType ==
  ASSUME TypeOK, NEW d \in Defs, NEW v
  PROVE  UndeployedToRights(d, v) \in BundleStates
  BY NsOfAssumption, SecuredAssumption
  DEF UndeployedToRights, TypeOK, BundleStates

LEMMA DeletedType ==
  ASSUME TypeOK, NEW C
  PROVE  Deleted(C) \in [Comps -> Composition]
  BY DEF Deleted, TypeOK, Composition, CompStates

LEMMA SetBundleType ==
  ASSUME TypeOK, NEW d \in Defs, NEW v, NEW b \in BundleStates, SetBundle(d, v, b)
  PROVE  bundle' \in [Namespaces -> [Versions -> BundleStates]]
  BY NsOfAssumption DEF SetBundle, TypeOK

LEMMA SpendType ==
  ASSUME TypeOK,
         NEW kind \in {"edits", "faults", "restarts", "drifts", "syncs"},
         Spend(kind)
  PROVE  budget' \in Budget
  BY BoundsAssumption DEF Spend, TypeOK, Budget

\* Writing a well-formed CRD leaves a well-formed one.
LEMMA WriteSound ==
  ASSUME TypeOK, NEW obj \in CRD, WellFormed(obj), WriteCRD(obj)
  PROVE  /\ crd' \in CRD /\ uid' \in Uids
         /\ WellFormed(crd')
         /\ crd'.storage \subseteq crd'.stored
         /\ crd'.versions = obj.versions
         /\ Exists(crd) => crd.stored \subseteq crd'.versions
<1>1. crd \in CRD /\ uid \in Uids /\ NextUid(uid) \in Uids
  BY NextUidType DEF TypeOK
<1>2. crd' = ServerApply(crd, obj, NextUid(uid))
  BY DEF WriteCRD
<1>3. /\ crd' \in CRD /\ WellFormed(crd')
      /\ crd'.storage \subseteq crd'.stored /\ crd'.versions = obj.versions
  BY <1>1, <1>2, ServerApplySound
<1>4. uid' \in Uids
  BY <1>1 DEF WriteCRD
<1>5. Exists(crd) => crd.stored \subseteq obj.versions
  BY DEF WriteCRD, ServerAccepts
<1> QED  BY <1>3, <1>4, <1>5

-----------------------------------------------------------------------------
(* The invariant, divided by who changes it: what all reconciles share, and what *)
(* each holds for itself.                                                        *)

Shared == /\ cd \in [Defs -> Definition]
          /\ crd \in CRD /\ uid \in Uids
          /\ bundle \in [Namespaces -> [Versions -> BundleStates]]
          /\ comp \in [Comps -> Composition]
          /\ budget \in Budget
          /\ \A d \in Defs : Present(d) => cd[d].spec \in Versions
          /\ Sound(crd)
          /\ StorageRemembered

Held(l, s, r) == /\ l \in Locals /\ s \in Stages
                 /\ s # "idle" => l.spec \in Versions
                 /\ Sound(l.seen)
                 /\ s = "applyCRD" => NeedsApply(l.seen, l.spec, r)

Private == /\ pc \in [Defs -> Stages] /\ loc \in [Defs -> Locals]
           /\ \A d \in Defs : Held(loc[d], pc[d], release)
           /\ cache \in CRD /\ Sound(cache)
           /\ sync \in CRD /\ Sound(sync)
           /\ release \in Releases

LEMMA InvariantParts ==
  /\ IInv <=> Shared /\ Private
  /\ IInv' <=> Shared' /\ Private'
<1> USE DEF IInv, Shared, Private, Held, TypeOK, Named, SoundCRDs, Pending,
            StorageRemembered
<1>1. IInv <=> Shared /\ Private
  OBVIOUS
<1>2. IInv' <=> Shared' /\ Private'
  OBVIOUS
<1> QED  BY <1>1, <1>2

\* A step of one reconcile.
LEMMA PrivateStep ==
  ASSUME Private, NEW d \in Defs, NEW l, NEW s, Held(l, s, release),
         loc' = [loc EXCEPT ![d] = l], pc' = [pc EXCEPT ![d] = s],
         UNCHANGED <<cache, sync, release>>
  PROVE  Private'
<1>1. pc' \in [Defs -> Stages] /\ loc' \in [Defs -> Locals]
  BY DEF Private, Held
<1>2. \A e \in Defs : Held(loc'[e], pc'[e], release)
  BY DEF Private
<1> QED  BY <1>1, <1>2 DEF Private

LEMMA InitInvariant == Init => IInv
<1> SUFFICES ASSUME Init PROVE Shared /\ Private
  BY InvariantParts
<1>1. Shared
  <2>1. cd \in [Defs -> Definition]
    BY NoLocalsType DEF Init, Definition, Phases
  <2>2. comp \in [Comps -> Composition]
    BY DEF Init, Composition, CompStates
  <2>3. crd \in CRD /\ uid \in Uids /\ Sound(crd) /\ StorageRemembered
    BY NoCRDType, UidAssumption DEF Init, Uids, NoUid, Sound, StorageRemembered, NoCRD
  <2> QED  BY <2>1, <2>2, <2>3, BoundsAssumption
           DEF Init, Shared, BundleStates, Budget, Present
<1>2. Private
  <2>1. Held(NoLocals, "idle", 0)
    BY NoLocalsType, NoCRDType DEF Held, Stages, Sound, NoLocals
  <2> QED  BY <2>1, NoLocalsType, NoCRDType, ReleaseAssumption
           DEF Init, Private, Stages, Sound, Releases
<1> QED  BY <1>1, <1>2

-----------------------------------------------------------------------------
(* Observe *)

\* The handlers' first step copies the definition.
LEMMA BeginHeld ==
  ASSUME IInv, NEW d \in Defs, NEW op \in Ops,
         NEW s \in Stages \ {"applyCRD"},
         Begin(d, op, s), Present(d), UNCHANGED <<cache, sync, release>>
  PROVE  Private'
<1> DEFINE l == [NoLocals EXCEPT !.op = op, !.spec = cd[d].spec,
                                !.deleted = (cd[d].phase = "terminating"),
                                !.status = cd[d].status,
                                !.seen = IF op = "none" THEN cache ELSE NoCRD]
<1>1. cd[d].spec \in Versions /\ cd[d].status \in Status
  BY DEF IInv, Named, TypeOK, Definition
<1>2. /\ (IF op = "none" THEN cache ELSE NoCRD) \in CRD
      /\ Sound(IF op = "none" THEN cache ELSE NoCRD)
  BY NoCRDType DEF IInv, TypeOK, SoundCRDs, Sound
<1>3. Held(l, s, release)
  BY <1>1, <1>2, NoLocalsType DEF Held, Locals
<1>4. loc' = [loc EXCEPT ![d] = l] /\ pc' = [pc EXCEPT ![d] = s]
  BY DEF Begin, Goto
<1> HIDE DEF l
<1> QED  BY <1>3, <1>4, PrivateStep, InvariantParts

\* The end of a reconcile.
LEMMA IdleHeld == Held(NoLocals, "idle", release)
  BY NoLocalsType, NoCRDType DEF Held, Stages, Sound, NoLocals

LEMMA SharedUnchanged ==
  ASSUME IInv, UNCHANGED <<cd, crd, uid, bundle, comp, budget>>
  PROVE  Shared'
  BY InvariantParts DEF Shared, Present, StorageRemembered

LEMMA PrivateUnchanged ==
  ASSUME IInv, UNCHANGED <<pc, loc, cache, sync, release>>
  PROVE  Private'
  BY InvariantParts DEF Private

\* The definition goes away; nothing else changes but the number of faults.
LEMMA FinalizeInvariant ==
  ASSUME IInv, NEW d \in Defs, Finalize(d), budget' \in Budget
  PROVE  IInv'
<1>1. Shared'
  <2>1. cd' \in [Defs -> Definition]
    BY DEF Finalize, IInv, TypeOK, Definition, Phases
  <2>2. \A e \in Defs : Present(e)' => Present(e) /\ cd'[e].spec = cd[e].spec
    BY DEF Finalize, IInv, TypeOK, Definition, Present
  <2> QED  BY <2>1, <2>2, InvariantParts
           DEF Finalize, Shared, StorageRemembered
<1>2. Private'
  BY PrivateUnchanged DEF Finalize
<1> QED  BY <1>1, <1>2, InvariantParts

LEMMA ObserveInvariant ==
  ASSUME IInv, NEW d \in Defs, Observe(d)
  PROVE  IInv'
<1>1. CASE ObserveGone(d)
  <2>1. Finalize(d) /\ budget' \in Budget
    BY <1>1 DEF ObserveGone, IInv, TypeOK
  <2> QED  BY <2>1, FinalizeInvariant
<1>2. CASE ObserveMissing(d)
  <2>1. /\ Present(d) /\ Begin(d, "create", "readCRD")
        /\ UNCHANGED <<cd, crd, uid, cache, bundle, comp, sync, release, budget>>
    BY <1>2 DEF ObserveMissing, Present
  <2>2. "create" \in Ops /\ "readCRD" \in Stages \ {"applyCRD"}
    BY DEF Ops, Stages
  <2> QED  BY <2>1, <2>2, BeginHeld, SharedUnchanged, InvariantParts
<1>3. CASE ObserveOutdated(d)
  <2>1. /\ Present(d)
        /\ Begin(d, "delete", "listVersion") \/ Begin(d, "update", "readCRD")
        /\ UNCHANGED <<cd, crd, uid, cache, bundle, comp, sync, release, budget>>
    BY <1>3 DEF ObserveOutdated, BeginRepair
  <2>2. /\ {"delete", "update"} \subseteq Ops
        /\ {"listVersion", "readCRD"} \subseteq Stages \ {"applyCRD"}
    BY DEF Ops, Stages
  <2>3. Private'
    <3>1. CASE Begin(d, "delete", "listVersion")
      BY <3>1, <2>1, <2>2, BeginHeld
    <3>2. CASE Begin(d, "update", "readCRD")
      BY <3>2, <2>1, <2>2, BeginHeld
    <3> QED  BY <2>1, <3>1, <3>2
  <2> QED  BY <2>1, <2>3, SharedUnchanged, InvariantParts
<1>4. CASE ObserveCurrent(d)
  <2>1. /\ Present(d) /\ Begin(d, "none", "observeBundle")
        /\ UNCHANGED <<cd, crd, uid, cache, bundle, comp, sync, release, budget>>
    BY <1>4 DEF ObserveCurrent
  <2>2. "none" \in Ops /\ "observeBundle" \in Stages \ {"applyCRD"}
    BY DEF Ops, Stages
  <2> QED  BY <2>1, <2>2, BeginHeld, SharedUnchanged, InvariantParts
<1>5. CASE ObserveBundle(d)
  <2>1. loc[d] \in Locals /\ loc[d].spec \in Versions
    BY <1>5 DEF ObserveBundle, IInv, TypeOK, Named
  <2>2. Refreshed(loc[d].status, loc[d].seen, Target(d)) \in Status
    BY <2>1, RefreshedType DEF Locals, Target
  <2>3. PICK st \in Status, op \in {"none", "update", "delete"} :
          \/ loc' = [loc EXCEPT ![d] = NoLocals] /\ pc' = [pc EXCEPT ![d] = "idle"]
          \/ /\ loc' = [loc EXCEPT ![d].status = st, ![d].op = op,
                                   ![d].seen = NoCRD]
             /\ \E s \in {"listVersion", "readCRD", "persist"} :
                  pc' = [pc EXCEPT ![d] = s]
    BY <1>5, <2>1, <2>2 DEF ObserveBundle, Goto, Locals
  <2> DEFINE l == [loc[d] EXCEPT !.status = st, !.op = op, !.seen = NoCRD]
  <2>4. \A s \in {"listVersion", "readCRD", "persist"} : Held(l, s, release)
    BY <2>1, NoCRDType DEF Held, Locals, Ops, Stages, Sound
  <2>5. Private'
    <3>1. CASE loc' = [loc EXCEPT ![d] = NoLocals] /\ pc' = [pc EXCEPT ![d] = "idle"]
      BY <1>5, <3>1, IdleHeld, PrivateStep, InvariantParts DEF ObserveBundle
    <3>2. ASSUME NEW s \in {"listVersion", "readCRD", "persist"},
                 loc' = [loc EXCEPT ![d].status = st, ![d].op = op,
                                    ![d].seen = NoCRD],
                 pc' = [pc EXCEPT ![d] = s]
          PROVE  Private'
      <4>1. loc' = [loc EXCEPT ![d] = l]
        BY <3>2, <2>1 DEF IInv, TypeOK
      <4> HIDE DEF l
      <4> QED  BY <1>5, <3>2, <4>1, <2>4, PrivateStep, InvariantParts DEF ObserveBundle
    <3> QED  BY <2>3, <3>1, <3>2
  <2> QED  BY <1>5, <2>5, SharedUnchanged, InvariantParts DEF ObserveBundle
<1>6. CASE LookupFails(d)
  <2>1. /\ loc' = [loc EXCEPT ![d] = NoLocals] /\ pc' = [pc EXCEPT ![d] = "idle"]
        /\ UNCHANGED <<cd, crd, uid, cache, bundle, comp, sync, release, budget>>
    BY <1>6 DEF LookupFails, Goto
  <2>2. Private'
    BY <2>1, IdleHeld, PrivateStep, InvariantParts
  <2> QED  BY <2>1, <2>2, SharedUnchanged, InvariantParts
<1> QED  BY <1>1, <1>2, <1>3, <1>4, <1>5, <1>6 DEF Observe

-----------------------------------------------------------------------------
(* Create and Update *)

\* A step of a reconcile after Observe that leaves the CRD alone: it moves to
\* stage s, holds no CRD any more, and may record another status.
LEMMA PlainStep ==
  ASSUME IInv, NEW d \in Defs, pc[d] # "idle",
         NEW l, NEW s \in Stages \ {"applyCRD"},
         l \in Locals, l.spec = loc[d].spec, Sound(l.seen),
         loc' = [loc EXCEPT ![d] = l], pc' = [pc EXCEPT ![d] = s],
         UNCHANGED <<cache, sync, release>>
  PROVE  Private'
<1>1. Held(l, s, release)
  BY InvariantParts DEF Held, Private
<1> QED  BY <1>1, PrivateStep, InvariantParts

\* The locals of a reconcile that is under way.
LEMMA LocalsOf ==
  ASSUME IInv, NEW d \in Defs, pc[d] # "idle"
  PROVE  /\ loc[d] \in Locals /\ loc[d].spec \in Versions
         /\ Sound(loc[d].seen) /\ loc[d].seen \in CRD
         /\ loc[d].status \in Status
         /\ loc = [loc EXCEPT ![d] = loc[d]]
         /\ Target(d) = loc[d].spec
  BY InvariantParts DEF Private, Held, Locals, Target

\* A copy of several versions is a CRD that exists.
LEMMA SeenSound ==
  ASSUME IInv, NEW d \in Defs, pc[d] # "idle",
         Cardinality(loc[d].seen.versions) > 1
  PROVE  loc[d].seen \in CRD /\ WellFormed(loc[d].seen)
<1>1. Cardinality(loc[d].seen.versions) # 0
  OBVIOUS
<1>2. loc[d].seen.versions # {}
  BY <1>1, FS_EmptySet
<1> QED  BY <1>2, LocalsOf DEF Sound, Exists

\* Writing a CRD and dropping the copy that was read.
LEMMA SharedWrite ==
  ASSUME IInv, NEW obj \in CRD, WellFormed(obj), WriteCRD(obj),
         UNCHANGED <<cd, bundle, comp>>, budget' \in Budget
  PROVE  Shared'
<1>1. TypeOK
  BY DEF IInv
<1>2. crd' \in CRD /\ uid' \in Uids /\ WellFormed(crd')
        /\ crd'.storage \subseteq crd'.stored
  BY <1>1, WriteSound
<1> QED  BY <1>2, InvariantParts DEF Shared, Sound, Present, StorageRemembered

LEMMA DropSeen ==
  ASSUME IInv, NEW d \in Defs, pc[d] # "idle", NEW s \in Stages \ {"applyCRD"},
         loc' = [loc EXCEPT ![d].seen = NoCRD], pc' = [pc EXCEPT ![d] = s],
         UNCHANGED <<cache, sync, release>>
  PROVE  Private'
<1> DEFINE l == [loc[d] EXCEPT !.seen = NoCRD]
<1>1. l \in Locals /\ l.spec = loc[d].spec /\ Sound(l.seen)
  BY LocalsOf, NoCRDType DEF Locals, Sound
<1>2. loc' = [loc EXCEPT ![d] = l]
  BY LocalsOf DEF IInv, TypeOK
<1> HIDE DEF l
<1> QED  BY <1>1, <1>2, PlainStep

LEMMA ReadCRDInvariant ==
  ASSUME IInv, NEW d \in Defs, ReadCRD(d)
  PROVE  IInv'
<1> DEFINE l == [loc[d] EXCEPT !.seen = cache]
           s == IF NeedsApply(cache, Target(d), release) THEN "applyCRD"
                                                         ELSE "readForCA"
<1>1. pc[d] # "idle"
  BY DEF ReadCRD
<1>2. l \in Locals /\ l.spec = loc[d].spec /\ l.seen = cache
  BY <1>1, LocalsOf, InvariantParts DEF Locals, Private
<1>3. Held(l, s, release)
  BY <1>1, <1>2, LocalsOf, InvariantParts DEF Held, Private, Stages
<1>4. loc' = [loc EXCEPT ![d] = l] /\ pc' = [pc EXCEPT ![d] = s]
  BY <1>1, LocalsOf DEF ReadCRD, Goto, IInv, TypeOK
<1> HIDE DEF l, s
<1> QED  BY <1>3, <1>4, PrivateStep, SharedUnchanged, InvariantParts DEF ReadCRD

LEMMA ApplyCRDInvariant ==
  ASSUME IInv, NEW d \in Defs, ApplyCRD(d)
  PROVE  IInv'
<1> DEFINE obj == ToApply(loc[d].seen, Target(d), release)
<1>1. pc[d] # "idle" /\ NeedsApply(loc[d].seen, Target(d), release)
  BY DEF ApplyCRD, IInv, Pending, Target
<1>2. release \in Releases
  BY DEF IInv, TypeOK
<1>3. obj \in CRD /\ WellFormed(obj)
  BY <1>1, <1>2, LocalsOf, ToApplySound
<1>4. budget' \in Budget
  BY SpendType DEF ApplyCRD, IInv, TypeOK
<1>5. WriteCRD(obj) /\ UNCHANGED <<cd, bundle, comp>>
  BY DEF ApplyCRD
<1> HIDE DEF obj
<1>6. Shared'
  BY <1>3, <1>4, <1>5, SharedWrite
<1>7. \E s \in {"readForCA", "persist"} : pc' = [pc EXCEPT ![d] = s]
  BY DEF ApplyCRD, Goto
<1>8. {"readForCA", "persist"} \subseteq Stages \ {"applyCRD"}
  BY DEF Stages
<1>9. Private'
  BY <1>1, <1>7, <1>8, DropSeen DEF ApplyCRD
<1> QED  BY <1>6, <1>9, InvariantParts

LEMMA ApplyCAInvariant ==
  ASSUME IInv, NEW d \in Defs, ApplyCA(d)
  PROVE  IInv'
<1>1. pc[d] # "idle"
  BY DEF ApplyCA
<1>2. {"deploy", "readForCA"} \subseteq Stages \ {"applyCRD"}
  BY DEF Stages
<1>3. /\ UNCHANGED <<cd, cache, bundle, comp, sync, release, budget>>
      /\ loc' = [loc EXCEPT ![d].seen = NoCRD]
      /\ \E s \in {"deploy", "readForCA"} : pc' = [pc EXCEPT ![d] = s]
      /\ \/ UNCHANGED <<crd, uid>>
         \/ Cardinality(loc[d].seen.versions) > 1 /\ WriteCRD(loc[d].seen)
  BY DEF ApplyCA, Goto
<1>4. Private'
  BY <1>1, <1>2, <1>3, DropSeen
<1>5. Shared'
  <2>1. CASE UNCHANGED <<crd, uid>>
    BY <1>3, <2>1, SharedUnchanged
  <2>2. CASE Cardinality(loc[d].seen.versions) > 1 /\ WriteCRD(loc[d].seen)
    <3>1. loc[d].seen \in CRD /\ WellFormed(loc[d].seen)
      BY <1>1, <2>2, SeenSound
    <3>2. budget' \in Budget
      BY <1>3 DEF IInv, TypeOK
    <3> QED  BY <1>3, <2>2, <3>1, <3>2, SharedWrite
  <2> QED  BY <1>3, <2>1, <2>2
<1> QED  BY <1>4, <1>5, InvariantParts

\* A step that leaves the definitions and the CRD alone.
LEMMA SharedStep ==
  ASSUME IInv, UNCHANGED <<cd, crd, uid>>, budget' \in Budget,
         bundle' \in [Namespaces -> [Versions -> BundleStates]],
         comp' \in [Comps -> Composition]
  PROVE  Shared'
  BY InvariantParts DEF Shared, Present, StorageRemembered

LEMMA ReadForCAInvariant ==
  ASSUME IInv, NEW d \in Defs, ReadForCA(d)
  PROVE  IInv'
<1> DEFINE l == [loc[d] EXCEPT !.seen = crd]
<1>1. pc[d] # "idle" /\ {"applyCA", "persist"} \subseteq Stages \ {"applyCRD"}
  BY DEF ReadForCA, Stages
<1>2. l \in Locals /\ l.spec = loc[d].spec /\ Sound(l.seen)
  BY <1>1, LocalsOf, InvariantParts DEF Locals, Shared
<1>3. loc' = [loc EXCEPT ![d] = l]
        /\ \E s \in {"applyCA", "persist"} : pc' = [pc EXCEPT ![d] = s]
  BY <1>1, LocalsOf DEF ReadForCA, Goto, IInv, TypeOK
<1> HIDE DEF l
<1>4. Private'
  BY <1>1, <1>2, <1>3, PlainStep DEF ReadForCA
<1> QED  BY <1>4, SharedUnchanged, InvariantParts DEF ReadForCA

\* What Deploy records is a status.
LEMMA DeployedHeld ==
  ASSUME IInv, NEW d \in Defs, pc[d] # "idle", Deployed(d)
  PROVE  Private'
<1> DEFINE done == [loc[d].status EXCEPT !.digest = loc[d].spec]
<1>1. GenerateCRD(loc[d].spec, release) \in CRD
  BY LocalsOf, GenerateSound DEF IInv, TypeOK
<1>2. done \in Status
  BY LocalsOf DEF Status
<1>3. Refreshed(done, GenerateCRD(loc[d].spec, release), loc[d].spec) \in Status
  BY <1>1, <1>2, LocalsOf, RefreshedType
<1>4. PICK st \in Status : loc' = [loc EXCEPT ![d].status = st]
  BY <1>2, <1>3 DEF Deployed
<1>5. \E s \in {"persist", "undeployOld", "listOld"} : pc' = [pc EXCEPT ![d] = s]
  BY DEF Deployed, Goto
<1>6. {"persist", "undeployOld", "listOld"} \subseteq Stages \ {"applyCRD"}
  BY DEF Stages
<1> DEFINE l == [loc[d] EXCEPT !.status = st]
<1>7. l \in Locals /\ l.spec = loc[d].spec /\ Sound(l.seen)
  BY LocalsOf DEF Locals
<1>8. loc' = [loc EXCEPT ![d] = l]
  BY <1>4, LocalsOf DEF IInv, TypeOK
<1> HIDE DEF l
<1> QED  BY <1>5, <1>6, <1>7, <1>8, PlainStep DEF Deployed

LEMMA DeployInvariant ==
  ASSUME IInv, NEW d \in Defs, Deploy(d)
  PROVE  IInv'
<1>1. Private'
  BY DeployedHeld DEF Deploy
<1>2. bundle' \in [Namespaces -> [Versions -> BundleStates]]
  BY SetBundleType DEF Deploy, IInv, BundleStates
<1>3. Shared'
  BY <1>2, SharedStep DEF Deploy, Deployed, IInv, TypeOK
<1> QED  BY <1>1, <1>3, InvariantParts

LEMMA UndeployOldInvariant ==
  ASSUME IInv, NEW d \in Defs, UndeployOld(d)
  PROVE  IInv'
<1>1. pc[d] # "idle" /\ "listOld" \in Stages \ {"applyCRD"}
  BY DEF UndeployOld, Stages
<1>2. \/ loc' = loc /\ pc' = [pc EXCEPT ![d] = "listOld"]
      \/ loc' = [loc EXCEPT ![d] = NoLocals] /\ pc' = [pc EXCEPT ![d] = "idle"]
  BY DEF UndeployOld, Goto
<1>3. UNCHANGED <<cd, crd, uid, cache, comp, sync, release, budget>>
  BY DEF UndeployOld
<1>4. Private'
  <2>1. CASE loc' = loc /\ pc' = [pc EXCEPT ![d] = "listOld"]
    BY <1>1, <1>3, <2>1, LocalsOf, PlainStep
  <2>2. CASE loc' = [loc EXCEPT ![d] = NoLocals] /\ pc' = [pc EXCEPT ![d] = "idle"]
    BY <1>3, <2>2, IdleHeld, PrivateStep, InvariantParts
  <2> QED  BY <1>2, <2>1, <2>2
<1>5. bundle' \in [Namespaces -> [Versions -> BundleStates]]
  BY SetBundleType, UndeployedToRightsType DEF UndeployOld, IInv, BundleStates
<1>6. Shared'
  BY <1>3, <1>5, SharedStep DEF IInv, TypeOK
<1> QED  BY <1>4, <1>6, InvariantParts

LEMMA ListOldInvariant ==
  ASSUME IInv, NEW d \in Defs, ListOld(d)
  PROVE  IInv'
<1> DEFINE l == [loc[d] EXCEPT !.todo = OldCompositions(d)]
<1>1. pc[d] # "idle" /\ {"relabel", "persist"} \subseteq Stages \ {"applyCRD"}
  BY DEF ListOld, Stages
<1>2. l \in Locals /\ l.spec = loc[d].spec /\ Sound(l.seen)
  BY <1>1, LocalsOf DEF Locals, OldCompositions, Labelled
<1>3. /\ loc' = [loc EXCEPT ![d] = l] \/ loc' = loc
      /\ \E s \in {"relabel", "persist"} : pc' = [pc EXCEPT ![d] = s]
  BY <1>1, LocalsOf DEF ListOld, Goto, IInv, TypeOK
<1> HIDE DEF l
<1>4. UNCHANGED <<cd, crd, uid, cache, bundle, comp, sync, release, budget>>
  BY DEF ListOld
<1>5. Private'
  BY <1>1, <1>2, <1>3, <1>4, LocalsOf, PlainStep
<1> QED  BY <1>4, <1>5, SharedUnchanged, InvariantParts

LEMMA RelabelInvariant ==
  ASSUME IInv, NEW d \in Defs, NEW c \in Comps, Relabel(d, c)
  PROVE  IInv'
<1> DEFINE l == [loc[d] EXCEPT !.todo = loc[d].todo \ {c}]
<1>1. pc[d] # "idle" /\ pc[d] \in Stages \ {"applyCRD"}
  BY DEF Relabel, Stages
<1>2. l \in Locals /\ l.spec = loc[d].spec /\ Sound(l.seen)
  BY <1>1, LocalsOf DEF Locals
<1>3. loc' = [loc EXCEPT ![d] = l] /\ pc' = [pc EXCEPT ![d] = pc[d]]
  BY <1>1, LocalsOf DEF Relabel, IInv, TypeOK
<1>4. UNCHANGED <<cd, crd, uid, cache, bundle, sync, release, budget>>
  BY DEF Relabel
<1> HIDE DEF l
<1>5. Private'
  BY <1>1, <1>2, <1>3, <1>4, PlainStep
<1>6. comp' \in [Comps -> Composition]
  BY <1>1, LocalsOf DEF Relabel, IInv, TypeOK, Composition
<1>7. Shared'
  BY <1>4, <1>6, SharedStep DEF IInv, TypeOK
<1> QED  BY <1>5, <1>7, InvariantParts

LEMMA FinishUpdateInvariant ==
  ASSUME IInv, NEW d \in Defs, FinishUpdate(d)
  PROVE  IInv'
<1> DEFINE st == Refreshed(loc[d].status, GenerateCRD(Target(d), release), Target(d))
           l == [loc[d] EXCEPT !.status = st]
<1>1. pc[d] # "idle" /\ "persist" \in Stages \ {"applyCRD"}
  BY DEF FinishUpdate, Stages
<1>2. GenerateCRD(Target(d), release) \in CRD
  BY <1>1, LocalsOf, GenerateSound DEF IInv, TypeOK
<1>3. st \in Status
  BY <1>1, <1>2, LocalsOf, RefreshedType
<1>4. loc' = [loc EXCEPT ![d].status = st] /\ pc' = [pc EXCEPT ![d] = "persist"]
  BY <1>1, LocalsOf DEF FinishUpdate, Goto, IInv, TypeOK
<1> HIDE DEF st
<1>5. l \in Locals /\ l.spec = loc[d].spec /\ Sound(l.seen)
  BY <1>1, <1>3, LocalsOf DEF Locals
<1>6. loc' = [loc EXCEPT ![d] = l]
  BY <1>1, <1>4, LocalsOf DEF IInv, TypeOK
<1> HIDE DEF l
<1>7. Private'
  BY <1>1, <1>4, <1>5, <1>6, PlainStep DEF FinishUpdate
<1> QED  BY <1>7, SharedUnchanged, InvariantParts DEF FinishUpdate

LEMMA CreateOrUpdateInvariant ==
  ASSUME IInv, NEW d \in Defs, CreateOrUpdate(d)
  PROVE  IInv'
<1>1. CASE ApplyCRDRefused(d)
  <2>1. pc[d] # "idle" /\ "persist" \in Stages \ {"applyCRD"}
    BY <1>1 DEF ApplyCRDRefused, Stages
  <2>2. Private'
    BY <1>1, <2>1, DropSeen DEF ApplyCRDRefused, Goto
  <2> QED  BY <1>1, <2>2, SharedUnchanged, InvariantParts DEF ApplyCRDRefused
<1> QED  BY <1>1, ReadCRDInvariant, ApplyCRDInvariant, ReadForCAInvariant,
            ApplyCAInvariant, DeployInvariant, UndeployOldInvariant,
            ListOldInvariant, RelabelInvariant, FinishUpdateInvariant
         DEF CreateOrUpdate

-----------------------------------------------------------------------------
(* Delete, and the end of a reconcile *)

\* A stage of Delete sets at most the flags of its locals.
LEMMA FlagStep ==
  ASSUME IInv, NEW d \in Defs, pc[d] # "idle", NEW s \in Stages \ {"applyCRD"},
         NEW b \in BOOLEAN,
         \/ loc' = loc
         \/ loc' = [loc EXCEPT ![d].torn = b]
         \/ loc' = [loc EXCEPT ![d].skipCRD = b],
         pc' = [pc EXCEPT ![d] = s], UNCHANGED <<cache, sync, release>>
  PROVE  Private'
<1>1. PICK l \in {loc[d], [loc[d] EXCEPT !.torn = b], [loc[d] EXCEPT !.skipCRD = b]} :
        loc' = [loc EXCEPT ![d] = l]
  BY LocalsOf DEF IInv, TypeOK
<1>2. l \in Locals /\ l.spec = loc[d].spec /\ Sound(l.seen)
  BY LocalsOf DEF Locals
<1> QED  BY <1>1, <1>2, PlainStep

LEMMA DeleteInvariant ==
  ASSUME IInv, NEW d \in Defs, Delete(d)
  PROVE  IInv'
<1> DEFINE Next2 == {"listKind", "waitGone", "undeploy", "uninstallCRD", "persist"}
<1>1. Next2 \subseteq Stages \ {"applyCRD"}
  BY DEF Stages
<1>2. /\ pc[d] # "idle" /\ UNCHANGED <<cd, uid, cache, sync, release, budget>>
      /\ \E s \in Next2 : pc' = [pc EXCEPT ![d] = s]
  BY DEF Delete, ListVersion, WaitGone, ListKind, Undeploy, Undeployed,
         UninstallCRD, Goto
<1>3. \E b \in BOOLEAN : \/ loc' = loc
                        \/ loc' = [loc EXCEPT ![d].torn = b]
                        \/ loc' = [loc EXCEPT ![d].skipCRD = b]
  <2>1. loc[d].skipCRD \in BOOLEAN
    BY <1>2, LocalsOf DEF Locals
  <2>2. Siblings(d) \in BOOLEAN
    BY DEF Siblings
  <2> QED  BY <2>1, <2>2
           DEF Delete, ListVersion, WaitGone, ListKind, Undeploy, Undeployed,
               UninstallCRD
<1> HIDE DEF Next2
<1>4. Private'
  BY <1>1, <1>2, <1>3, FlagStep
<1>5. comp' \in [Comps -> Composition]
  <2>1. comp' = comp \/ \E C : comp' = Deleted(C)
    BY DEF Delete, ListVersion, WaitGone, ListKind, Undeploy, Undeployed, UninstallCRD
  <2> QED  BY <2>1, DeletedType DEF IInv, TypeOK
<1>6. bundle' \in [Namespaces -> [Versions -> BundleStates]]
  <2>1. UNCHANGED bundle \/ SetBundle(d, Target(d), "absent")
    BY DEF Delete, ListVersion, WaitGone, ListKind, Undeploy, Undeployed, UninstallCRD
  <2> QED  BY <2>1, SetBundleType DEF IInv, TypeOK, BundleStates
<1>7. CASE UNCHANGED crd
  <2>1. Shared'
    BY <1>2, <1>5, <1>6, <1>7, SharedStep DEF IInv, TypeOK
  <2> QED  BY <1>4, <2>1, InvariantParts
<1>8. CASE UninstallCRD(d) /\ crd' # crd
  <2>1. crd' = [crd EXCEPT !.terminating = TRUE]
    BY <1>8 DEF UninstallCRD
  <2>2. /\ crd' \in CRD
        /\ crd'.versions = crd.versions /\ crd'.served = crd.served
        /\ crd'.storage = crd.storage /\ crd'.conversion = crd.conversion
        /\ crd'.stored = crd.stored
    BY <2>1, InvariantParts DEF Shared, CRD, Exists
  <2>3. Sound(crd') /\ crd'.storage \subseteq crd'.stored
    BY <2>2, InvariantParts DEF Shared, Sound, Exists, WellFormed, StorageRemembered
  <2>4. Shared'
    BY <1>2, <1>5, <1>6, <2>2, <2>3, InvariantParts DEF Shared, Present, StorageRemembered
  <2> QED  BY <1>4, <2>4, InvariantParts
<1> QED  BY <1>7, <1>8
         DEF Delete, ListVersion, WaitGone, ListKind, Undeploy, Undeployed

LEMMA PersistInvariant ==
  ASSUME IInv, NEW d \in Defs, Persist(d)
  PROVE  IInv'
<1>1. loc' = [loc EXCEPT ![d] = NoLocals] /\ pc' = [pc EXCEPT ![d] = "idle"]
        /\ UNCHANGED <<crd, uid, cache, bundle, comp, sync, release, budget>>
  BY DEF Persist, Goto
<1>2. Private'
  BY <1>1, IdleHeld, PrivateStep, InvariantParts
<1>3. loc[d].status \in Status
  BY LocalsOf DEF Persist
<1>4. cd' \in [Defs -> Definition]
  <2>1. PICK p \in Phases : cd' = [cd EXCEPT ![d].status = loc[d].status,
                                            ![d].phase = p]
    <3>1. cd[d].phase \in Phases
      BY DEF IInv, TypeOK, Definition
    <3> QED  BY <3>1 DEF Persist, Phases
  <2>2. cd \in [Defs -> Definition]
    BY DEF IInv, TypeOK
  <2>3. [cd[d] EXCEPT !.status = loc[d].status, !.phase = p] \in Definition
    BY <1>3, <2>2 DEF Definition
  <2>4. cd' = [cd EXCEPT ![d] = [cd[d] EXCEPT !.status = loc[d].status, !.phase = p]]
    BY <2>1, <2>2
  <2> QED  BY <2>2, <2>3, <2>4
<1>5. \A e \in Defs : Present(e)' => Present(e) /\ cd'[e].spec = cd[e].spec
  BY DEF Persist, IInv, TypeOK, Definition, Present
<1>6. Shared'
  BY <1>1, <1>4, <1>5, InvariantParts DEF Shared, StorageRemembered
<1> QED  BY <1>2, <1>6, InvariantParts

-----------------------------------------------------------------------------
(* Failures *)

LEMMA FailInvariant ==
  ASSUME IInv, NEW d \in Defs, Fail(d)
  PROVE  IInv'
<1> DEFINE l == [loc[d] EXCEPT !.seen = NoCRD, !.todo = {}]
<1>1. pc[d] # "idle"
  <2>1. "idle" \in Stages
    BY DEF Stages
  <2>2. FaultOf["idle"] = "none"
    BY <2>1 DEF FaultOf
  <2>3. "none" \notin Faulty
    BY FaultyAssumption DEF FaultKinds
  <2> QED  BY <2>2, <2>3 DEF Fail
<1>2. "persist" \in Stages \ {"applyCRD"}
  BY DEF Stages
<1>3. l \in Locals /\ l.spec = loc[d].spec /\ Sound(l.seen)
  BY <1>1, LocalsOf, NoCRDType DEF Locals, Sound
<1>4. loc' = [loc EXCEPT ![d] = l] /\ pc' = [pc EXCEPT ![d] = "persist"]
  BY <1>1, LocalsOf DEF Fail, Goto, IInv, TypeOK
<1> HIDE DEF l
<1>5. Private'
  BY <1>1, <1>2, <1>3, <1>4, PlainStep DEF Fail
<1>6. bundle' \in [Namespaces -> [Versions -> BundleStates]] /\ budget' \in Budget
  BY HalfwayType, SpendType DEF Fail, IInv
<1>7. Shared'
  BY <1>6, SharedStep DEF Fail, IInv, TypeOK
<1> QED  BY <1>5, <1>7, InvariantParts

LEMMA FailureInvariant ==
  ASSUME IInv, NEW d \in Defs, Failure(d)
  PROVE  IInv'
<1>1. CASE FailRollout(d)
  <2>1. /\ pc[d] # "idle" /\ "persist" \in Stages \ {"applyCRD"}
        /\ loc' = loc /\ pc' = [pc EXCEPT ![d] = "persist"]
        /\ UNCHANGED <<cd, crd, uid, cache, comp, sync, release>>
    BY <1>1 DEF FailRollout, Goto, Stages
  <2>2. Private'
    BY <2>1, LocalsOf, PlainStep
  <2>3. bundle' \in [Namespaces -> [Versions -> BundleStates]] /\ budget' \in Budget
    BY <1>1, SetBundleType, SpendType DEF FailRollout, IInv, BundleStates
  <2>4. Shared'
    BY <2>1, <2>3, SharedStep DEF IInv, TypeOK
  <2> QED  BY <2>2, <2>4, InvariantParts
<1>2. CASE FailPersist(d)
  <2>1. /\ loc' = [loc EXCEPT ![d] = NoLocals] /\ pc' = [pc EXCEPT ![d] = "idle"]
        /\ UNCHANGED <<cd, crd, uid, cache, bundle, comp, sync, release>>
    BY <1>2 DEF FailPersist, Goto
  <2>2. Private'
    BY <2>1, IdleHeld, PrivateStep, InvariantParts
  <2>3. budget' \in Budget
    BY <1>2, SpendType DEF FailPersist, IInv
  <2>4. Shared'
    BY <2>1, <2>3, SharedStep DEF IInv, TypeOK
  <2> QED  BY <2>2, <2>4, InvariantParts
<1>3. CASE ObserveUnresolved(d)
  <2>1. Finalize(d) /\ budget' \in Budget
    BY <1>3, SpendType DEF ObserveUnresolved, IInv
  <2> QED  BY <2>1, FinalizeInvariant
<1> QED  BY <1>1, <1>2, <1>3, FailInvariant DEF Failure

-----------------------------------------------------------------------------
(* The certificate refresher, users, the cluster and restarts *)

LEMMA SyncInvariant ==
  ASSUME IInv, SyncRead \/ SyncApply
  PROVE  IInv'
<1>1. UNCHANGED <<cd, cache, bundle, comp, pc, loc, release>>
  BY DEF SyncRead, SyncApply
<1>2. CASE SyncRead
  <2>1. sync' = crd /\ UNCHANGED <<crd, uid>> /\ budget' \in Budget
    BY <1>2, SpendType DEF SyncRead, IInv
  <2>2. Private'
    BY <1>1, <2>1, InvariantParts DEF Private, Shared
  <2>3. Shared'
    BY <1>1, <2>1, SharedStep DEF IInv, TypeOK
  <2> QED  BY <2>2, <2>3, InvariantParts
<1>3. CASE SyncApply
  <2>1. sync' = NoCRD /\ Exists(sync) /\ UNCHANGED budget
          /\ (WriteCRD(sync) \/ UNCHANGED <<crd, uid>>)
    BY <1>3 DEF SyncApply
  <2>2. Private'
    BY <1>1, <2>1, NoCRDType, InvariantParts DEF Private, Sound
  <2>3. Shared'
    <3>1. CASE WriteCRD(sync)
      <4>1. sync \in CRD /\ WellFormed(sync) /\ budget' \in Budget
        BY <2>1 DEF IInv, TypeOK, SoundCRDs, Sound
      <4> QED  BY <1>1, <3>1, <4>1, SharedWrite
    <3>2. CASE UNCHANGED <<crd, uid>>
      BY <1>1, <2>1, <3>2, SharedUnchanged
    <3> QED  BY <2>1, <3>1, <3>2
  <2> QED  BY <2>2, <2>3, InvariantParts
<1> QED  BY <1>2, <1>3

LEMMA UserInvariant ==
  ASSUME IInv, User
  PROVE  IInv'
<1>1. UNCHANGED <<crd, uid, cache, bundle, pc, loc, sync, release>>
  BY DEF User, CreateDefinition, EditDefinition, DeleteDefinition, CreateComposition
<1>2. Private'
  BY <1>1, PrivateUnchanged
<1>3. ASSUME NEW d \in Defs, NEW v \in Versions,
             CreateDefinition(d, v) \/ EditDefinition(d, v)
      PROVE  Shared'
  <2>1. cd' \in [Defs -> Definition] /\ comp' = comp
    BY <1>3 DEF CreateDefinition, EditDefinition, IInv, TypeOK, Definition, Phases
  <2>2. budget' \in Budget
    BY <1>3, SpendType DEF CreateDefinition, EditDefinition, IInv, TypeOK
  <2>3. \A e \in Defs : Present(e)' => cd'[e].spec \in Versions
    <3>1. cd \in [Defs -> Definition]
      BY DEF IInv, TypeOK
    <3>2. /\ \A e \in Defs : Present(e) => cd[e].spec \in Versions
          /\ cd[d].phase = "live" => Present(d)
      BY InvariantParts DEF Shared, Named, Present
    <3>3. /\ \A e \in Defs \ {d} : cd'[e] = cd[e]
          /\ cd'[d].spec = v
      BY <1>3, <3>1 DEF CreateDefinition, EditDefinition, Definition
    <3> QED  BY <3>2, <3>3 DEF Present
  <2> QED  BY <1>1, <2>1, <2>2, <2>3, InvariantParts DEF Shared, StorageRemembered
<1>4. ASSUME NEW d \in Defs, DeleteDefinition(d)
      PROVE  Shared'
  <2>1. cd' \in [Defs -> Definition] /\ UNCHANGED <<comp, budget>>
    BY <1>4 DEF DeleteDefinition, IInv, TypeOK, Definition, Phases
  <2>2. \A e \in Defs : Present(e)' => Present(e) /\ cd'[e].spec = cd[e].spec
    BY <1>4 DEF DeleteDefinition, IInv, TypeOK, Definition, Present
  <2> QED  BY <1>1, <2>1, <2>2, InvariantParts DEF Shared, StorageRemembered
<1>5. ASSUME NEW c \in Comps, NEW v \in Versions, CreateComposition(c, v)
      PROVE  Shared'
  <2>1. comp' \in [Comps -> Composition] /\ UNCHANGED <<cd, budget>>
    BY <1>5 DEF CreateComposition, IInv, TypeOK, Composition, CompStates
  <2> QED  BY <1>1, <2>1, SharedStep DEF IInv, TypeOK
<1>6. Shared'
  BY <1>3, <1>4, <1>5 DEF User
<1> QED  BY <1>2, <1>6, InvariantParts

LEMMA ClusterInvariant ==
  ASSUME IInv, Cluster
  PROVE  IInv'
<1>1. CASE \E c \in Comps : Adopt(c) \/ Release(c)
  <2>1. comp' \in [Comps -> Composition]
    BY <1>1 DEF Adopt, Release, IInv, TypeOK, Composition, CompStates
  <2>2. UNCHANGED <<cd, crd, uid, cache, bundle, pc, loc, sync, release, budget>>
    BY <1>1 DEF Adopt, Release
  <2>3. Shared'
    BY <2>1, <2>2, SharedStep DEF IInv, TypeOK
  <2> QED  BY <2>2, <2>3, PrivateUnchanged, InvariantParts
<1>2. CASE CRDCollected
  <2>1. crd' = NoCRD
          /\ UNCHANGED <<cd, uid, cache, bundle, comp, pc, loc, sync, release, budget>>
    BY <1>2 DEF CRDCollected
  <2>2. NoCRD.storage = {}
    BY DEF NoCRD
  <2>3. Shared'
    BY <2>1, <2>2, NoCRDType, InvariantParts DEF Shared, Sound, Present, StorageRemembered
  <2> QED  BY <2>1, <2>3, PrivateUnchanged, InvariantParts
<1>3. CASE CacheSync
  <2>1. cache' = crd
          /\ UNCHANGED <<cd, crd, uid, bundle, comp, pc, loc, sync, release, budget>>
    BY <1>3 DEF CacheSync
  <2>2. Private'
    BY <2>1, InvariantParts DEF Private, Shared
  <2> QED  BY <2>1, <2>2, SharedUnchanged, InvariantParts
<1>4. CASE \E n \in Namespaces, v \in Versions : Drift(n, v)
  <2>1. bundle' \in [Namespaces -> [Versions -> BundleStates]] /\ budget' \in Budget
    BY <1>4, SpendType DEF Drift, IInv, TypeOK, BundleStates
  <2>2. UNCHANGED <<cd, crd, uid, cache, comp, pc, loc, sync, release>>
    BY <1>4 DEF Drift
  <2>3. Shared'
    BY <2>1, <2>2, SharedStep DEF IInv, TypeOK
  <2> QED  BY <2>2, <2>3, PrivateUnchanged, InvariantParts
<1> QED  BY <1>1, <1>2, <1>3, <1>4 DEF Cluster

LEMMA RestartInvariant ==
  ASSUME IInv, Restart
  PROVE  IInv'
<1>1. /\ pc' = [d \in Defs |-> "idle"] /\ loc' = [d \in Defs |-> NoLocals]
      /\ sync' = NoCRD /\ cache' = crd /\ release' \in Releases
      /\ UNCHANGED <<cd, crd, uid, comp>>
  BY DEF Restart
<1>2. \A r : Held(NoLocals, "idle", r)
  BY NoLocalsType, NoCRDType DEF Held, Stages, Sound, NoLocals
<1>3. Private'
  BY <1>1, <1>2, NoLocalsType, NoCRDType, InvariantParts
  DEF Private, Shared, Stages, Sound
<1>4. bundle' \in [Namespaces -> [Versions -> BundleStates]] /\ budget' \in Budget
  BY HalfwayType, SpendType DEF Restart, IInv
<1>5. Shared'
  BY <1>1, <1>4, SharedStep DEF IInv, TypeOK
<1> QED  BY <1>3, <1>5, InvariantParts

-----------------------------------------------------------------------------
(* The theorems *)

LEMMA StepInvariant ==
  ASSUME IInv, [Next]_vars
  PROVE  IInv'
<1>1. CASE UNCHANGED vars
  BY <1>1, SharedUnchanged, PrivateUnchanged, InvariantParts DEF vars
<1>2. ASSUME NEW d \in Defs, Reconcile(d) \/ Failure(d)
      PROVE  IInv'
  BY <1>2, ObserveInvariant, CreateOrUpdateInvariant, DeleteInvariant,
     PersistInvariant, FailureInvariant
  DEF Reconcile
<1> QED  BY <1>1, <1>2, SyncInvariant, UserInvariant, ClusterInvariant,
            RestartInvariant
         DEF Next

\* The strengthened invariant is one: it holds at first and every step of the
\* reconciles, the refresher, the users, the cluster and restarts keeps it.
THEOREM InductiveInvariant == Spec => []IInv
<1>1. IInv /\ [Next]_vars => IInv'
  BY StepInvariant
<1> QED  BY InitInvariant, <1>1, PTL DEF Spec

\* Every variable has its type, whatever the constants.
THEOREM TypeCorrectness == Spec => []TypeOK
<1>1. IInv => TypeOK
  BY DEF IInv
<1> QED  BY <1>1, InductiveInvariant, PTL

\* The CRD in the API server is well-formed in every reachable state.
THEOREM CRDAlwaysWellFormed == Spec => []CRDWellFormed
<1>1. IInv => CRDWellFormed
  BY DEF IInv, SoundCRDs, Sound, CRDWellFormed
<1> QED  BY <1>1, InductiveInvariant, PTL

\* Who changes the CRD, and how: a write of a well-formed copy, the mark of a
\* deletion, or its end.
LEMMA CRDSteps ==
  ASSUME IInv, [Next]_vars
  PROVE  \/ crd' = crd
         \/ \E obj \in CRD : WellFormed(obj) /\ WriteCRD(obj)
         \/ crd' = [crd EXCEPT !.terminating = TRUE]
         \/ crd' = NoCRD
<1>1. ASSUME NEW d \in Defs, ApplyCRD(d)
      PROVE  \E obj \in CRD : WellFormed(obj) /\ WriteCRD(obj)
  <2>1. pc[d] # "idle" /\ NeedsApply(loc[d].seen, Target(d), release)
          /\ release \in Releases
    BY <1>1 DEF ApplyCRD, IInv, Pending, Target, TypeOK
  <2> QED  BY <1>1, <2>1, LocalsOf, ToApplySound DEF ApplyCRD
<1>2. ASSUME NEW d \in Defs, ApplyCA(d)
      PROVE  crd' = crd \/ \E obj \in CRD : WellFormed(obj) /\ WriteCRD(obj)
  <2>1. pc[d] # "idle"
    BY <1>2 DEF ApplyCA
  <2>2. crd' = crd \/ (Cardinality(loc[d].seen.versions) > 1 /\ WriteCRD(loc[d].seen))
    BY <1>2 DEF ApplyCA
  <2> QED  BY <2>1, <2>2, SeenSound
<1>3. ASSUME SyncApply
      PROVE  crd' = crd \/ \E obj \in CRD : WellFormed(obj) /\ WriteCRD(obj)
  <2>1. sync \in CRD /\ WellFormed(sync)
    BY <1>3 DEF SyncApply, IInv, TypeOK, SoundCRDs, Sound
  <2> QED  BY <1>3, <2>1 DEF SyncApply
<1>4. ASSUME NEW d \in Defs, Observe(d) \/ Persist(d) \/ Failure(d)
      PROVE  crd' = crd
  BY <1>4
  DEF Observe, ObserveGone, ObserveMissing, ObserveOutdated, ObserveCurrent,
      LookupFails, ObserveBundle, Finalize, Persist, Failure, Fail, FailRollout, FailPersist,
      ObserveUnresolved
<1>5. ASSUME NEW d \in Defs, CreateOrUpdate(d), ~ApplyCRD(d), ~ApplyCA(d)
      PROVE  crd' = crd
  BY <1>5
  DEF CreateOrUpdate, ReadCRD, ApplyCRDRefused, ReadForCA, Deploy, Deployed,
      UndeployOld, ListOld, FinishUpdate, Relabel
<1>6. ASSUME NEW d \in Defs, Delete(d)
      PROVE  crd' = crd \/ crd' = [crd EXCEPT !.terminating = TRUE]
  BY <1>6
  DEF Delete, ListVersion, WaitGone, ListKind, Undeploy, Undeployed, UninstallCRD
<1>7. ASSUME SyncRead \/ User \/ Restart
      PROVE  crd' = crd
  BY <1>7
  DEF SyncRead, User, CreateDefinition, EditDefinition, DeleteDefinition,
      CreateComposition, Restart
<1>8. ASSUME Cluster
      PROVE  crd' = crd \/ crd' = NoCRD
  BY <1>8 DEF Cluster, Adopt, Release, CRDCollected, CacheSync, Drift
<1>9. CASE UNCHANGED vars
  BY <1>9 DEF vars
<1>10. ASSUME NEW d \in Defs, Reconcile(d) \/ Failure(d)
       PROVE  \/ crd' = crd
              \/ \E obj \in CRD : WellFormed(obj) /\ WriteCRD(obj)
              \/ crd' = [crd EXCEPT !.terminating = TRUE]
  BY <1>10, <1>1, <1>2, <1>4, <1>5, <1>6 DEF Reconcile
<1> QED  BY <1>3, <1>7, <1>8, <1>9, <1>10 DEF Next

\* No write removes the vacuum version: the API server refuses one that would,
\* because a CRD that has the version stores in it and so remembers it.
THEOREM VacuumNeverDropped == Spec => VacuumStays
<1>1. ASSUME IInv, [Next]_vars, Vacuum \in crd.versions, Exists(crd')
      PROVE  Vacuum \in crd'.versions
  <2>1. TypeOK /\ Exists(crd) /\ crd \in CRD /\ WellFormed(crd) /\ StorageRemembered
    BY <1>1 DEF IInv, TypeOK, SoundCRDs, Sound, Exists
  <2>2. Vacuum \in crd.stored
    BY <1>1, <2>1, VersionsAssumption DEF WellFormed, StorageRemembered
  <2>3. ASSUME NEW obj \in CRD, WellFormed(obj), WriteCRD(obj)
        PROVE  Vacuum \in crd'.versions
    BY <2>1, <2>2, <2>3, WriteSound
  <2>4. CASE crd' = [crd EXCEPT !.terminating = TRUE]
    BY <1>1, <2>1, <2>4 DEF CRD
  <2>5. CASE crd' = NoCRD
    BY <1>1, <2>5, NoCRDType
  <2> QED  BY <1>1, <2>3, <2>4, <2>5, CRDSteps
<1>2. IInv /\ [Next]_vars =>
        [(Vacuum \in crd.versions /\ Exists(crd')) => Vacuum \in crd'.versions]_vars
  BY <1>1
<1> QED  BY <1>2, InductiveInvariant, PTL DEF Spec, VacuumStays
=============================================================================
