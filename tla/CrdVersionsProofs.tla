-------------------------- MODULE CrdVersionsProofs --------------------------
(***************************************************************************)
(* What the operators on CRDs preserve, for every set of versions: the     *)
(* facts the proofs about the reconciler cite.                             *)
(***************************************************************************)
EXTENDS CrdVersions, TLAPS

\* A CRD that does not exist, or is well-formed.
Sound(c) == Exists(c) => WellFormed(c)

LEMMA NoCRDType == NoCRD \in CRD /\ ~Exists(NoCRD)
  BY ReleaseAssumption, UidAssumption
  DEF NoCRD, CRD, Exists, Uids, NoUid, Releases

\* What generation.GenerateCRD returns is a well-formed CRD of one version.
LEMMA GenerateSound ==
  ASSUME NEW v \in Versions, NEW r \in Releases
  PROVE  /\ GenerateCRD(v, r) \in CRD
         /\ Exists(GenerateCRD(v, r))
         /\ WellFormed(GenerateCRD(v, r))
  BY NoCRDType, VersionsAssumption
  DEF GenerateCRD, NoCRD, CRD, Exists, WellFormed, AllVersions

\* Appending a version keeps a CRD well-formed, up to the conversion webhook
\* that injectConversionConfToCRD adds next.
LEMMA AppendSound ==
  ASSUME NEW c \in CRD, NEW v \in Versions, WellFormed(c), v \notin c.versions
  PROVE  /\ InjectConversion(AppendVersion(c, v)) \in CRD
         /\ v \in InjectConversion(AppendVersion(c, v)).versions
         /\ WellFormed(InjectConversion(AppendVersion(c, v)))
<1> DEFINE a == InjectConversion(AppendVersion(c, v))
<1>1. a = [c EXCEPT
            !.versions = c.versions \cup {v, Vacuum},
            !.served = ((c.versions \cup {v}) \ {Vacuum}) \cup (c.served \cap {Vacuum}),
            !.storage = IF Vacuum \in c.versions THEN c.storage \cap {Vacuum}
                                                 ELSE {Vacuum},
            !.conversion = TRUE]
  BY DEF AppendVersion, InjectConversion, CRD
<1>2. a \in CRD
  <2> DEFINE served == ((c.versions \cup {v}) \ {Vacuum}) \cup (c.served \cap {Vacuum})
             storage == IF Vacuum \in c.versions THEN c.storage \cap {Vacuum}
                                                 ELSE {Vacuum}
  <2>1. c.versions \cup {v, Vacuum} \in SUBSET AllVersions
    BY DEF CRD, AllVersions
  <2>2. served \in SUBSET AllVersions
    BY DEF CRD, AllVersions
  <2>3. storage \in SUBSET AllVersions
    BY DEF CRD, AllVersions
  <2> HIDE DEF served, storage
  <2>4. a = [c EXCEPT !.versions = c.versions \cup {v, Vacuum}, !.served = served,
                      !.storage = storage, !.conversion = TRUE]
    BY <1>1 DEF served, storage
  <2> HIDE DEF a
  <2> QED  BY <2>1, <2>2, <2>3, <2>4 DEF CRD
<1>3. a.versions = c.versions \cup {v, Vacuum} /\ a.conversion
  BY <1>1 DEF CRD
<1>4. a.served = (c.versions \cup {v}) \ {Vacuum}
  BY <1>1, VersionsAssumption DEF CRD, WellFormed
<1>5. a.storage = {Vacuum}
  BY <1>1, VersionsAssumption DEF CRD, WellFormed
<1>6. \E w \in Versions : w # v /\ w \in c.versions
  BY VersionsAssumption DEF WellFormed
<1>7. WellFormed(a)
  BY <1>3, <1>4, <1>5, <1>6, VersionsAssumption DEF WellFormed
<1> QED  BY <1>2, <1>3, <1>7

\* Whatever was read, ApplyOrUpdateCRD hands kube.Apply a well-formed CRD.
LEMMA ToApplySound ==
  ASSUME NEW c \in CRD, NEW v \in Versions, NEW r \in Releases,
         Sound(c), NeedsApply(c, v, r)
  PROVE  /\ ToApply(c, v, r) \in CRD
         /\ WellFormed(ToApply(c, v, r))
<1>1. CASE ~Exists(c)
  BY <1>1, GenerateSound DEF ToApply
<1>2. CASE Exists(c) /\ ~StatusEqual(c, GenerateCRD(v, r))
  <2>1. ToApply(c, v, r) = [c EXCEPT !.status = r]
    BY <1>2 DEF ToApply, UpdateStatus
  <2> QED  BY <2>1, <1>2 DEF Sound, CRD, WellFormed
<1>3. CASE Exists(c) /\ StatusEqual(c, GenerateCRD(v, r))
  <2> DEFINE a == InjectConversion(AppendVersion(c, v))
  <2>1. v \notin c.versions /\ WellFormed(c)
    BY <1>3 DEF NeedsApply, GVKExists, Sound
  <2>2. a \in CRD /\ v \in a.versions /\ WellFormed(a)
    BY <2>1, AppendSound
  <2> HIDE DEF a
  <2>3. SetServedStorage(a, v, TRUE, FALSE)
          = [a EXCEPT !.served = a.served \cup {v}, !.storage = a.storage \ {v}]
    BY <2>2 DEF SetServedStorage
  <2>4. v \in a.served
    BY <2>2, VersionsAssumption DEF WellFormed
  <2>5. v \notin a.storage
    <3>1. \E w \in Versions : w # v /\ w \in a.versions
      BY <2>1, VersionsAssumption DEF a, AppendVersion, InjectConversion, WellFormed, CRD
    <3> QED  BY <2>2, <3>1, VersionsAssumption DEF WellFormed
  <2>6. a.served \cup {v} = a.served /\ a.storage \ {v} = a.storage
    BY <2>4, <2>5
  <2>7. [a EXCEPT !.served = a.served, !.storage = a.storage] = a
    BY <2>2 DEF CRD
  <2>8. ToApply(c, v, r) = SetServedStorage(a, v, TRUE, FALSE)
    BY <1>3 DEF ToApply, a
  <2> QED  BY <2>2, <2>3, <2>6, <2>7, <2>8
<1> QED  BY <1>1, <1>2, <1>3

LEMMA NextUidType ==
  ASSUME NEW u \in Uids
  PROVE  NextUid(u) \in Uids
  BY UidAssumption DEF NextUid, Uids

\* The API server keeps a well-formed CRD well-formed, and remembers the version
\* it stores in.
LEMMA ServerApplySound ==
  ASSUME NEW cur \in CRD, NEW obj \in CRD, NEW u \in Uids, WellFormed(obj)
  PROVE  /\ ServerApply(cur, obj, u) \in CRD
         /\ WellFormed(ServerApply(cur, obj, u))
         /\ ServerApply(cur, obj, u).storage \subseteq ServerApply(cur, obj, u).stored
         /\ ServerApply(cur, obj, u).versions = obj.versions
<1> DEFINE s == ServerApply(cur, obj, u)
<1>1. CASE Exists(cur)
  <2>1. s = [obj EXCEPT !.uid = cur.uid, !.stored = cur.stored \cup obj.storage,
                        !.terminating = cur.terminating]
    BY <1>1 DEF ServerApply
  <2>2. cur.stored \cup obj.storage \in SUBSET AllVersions
    BY DEF CRD
  <2> HIDE DEF s
  <2>3. /\ s \in CRD
        /\ s.versions = obj.versions /\ s.served = obj.served
        /\ s.storage = obj.storage /\ s.conversion = obj.conversion
        /\ s.stored = cur.stored \cup obj.storage
    BY <2>1, <2>2 DEF CRD
  <2>4. WellFormed(s)
    BY <2>3 DEF WellFormed
  <2> QED  BY <2>3, <2>4 DEF s
<1>2. CASE ~Exists(cur)
  <2>1. s = [obj EXCEPT !.uid = u, !.stored = obj.storage, !.terminating = FALSE]
    BY <1>2 DEF ServerApply
  <2> HIDE DEF s
  <2>2. /\ s \in CRD
        /\ s.versions = obj.versions /\ s.served = obj.served
        /\ s.storage = obj.storage /\ s.conversion = obj.conversion
        /\ s.stored = obj.storage
    BY <2>1 DEF CRD
  <2>3. WellFormed(s)
    BY <2>2 DEF WellFormed
  <2> QED  BY <2>2, <2>3 DEF s
<1> QED  BY <1>1, <1>2
=============================================================================
