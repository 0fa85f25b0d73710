----------------------------- MODULE CrdVersions -----------------------------
(***************************************************************************)
(* The generated CustomResourceDefinition of one kind, as the functions of *)
(* internal/tools/crd and internal/tools/crd/generation build it, and the  *)
(* part of the API server's behaviour those functions meet.                *)
(*                                                                         *)
(* A CRD is a record.  Schemas are reduced to what the code compares: the  *)
(* status schema is the release of core-provider that supplied it (it is   *)
(* static, not derived from the chart), the spec schema is not compared.   *)
(* The order of .spec.versions is not observable through these functions:  *)
(* StatusEqual looks at the first version that has a status schema, and    *)
(* UpdateStatus writes the same one into every version.                    *)
(***************************************************************************)
EXTENDS Integers, FiniteSets

CONSTANTS Versions,    \* versions charts can have (chart version, normalised)
          Vacuum,      \* the hidden storage version
          MaxRelease,  \* releases of core-provider: 0 .. MaxRelease
          UidBound     \* incarnations of the CRD that are told apart

ASSUME VersionsAssumption == Vacuum \notin Versions
ASSUME ReleaseAssumption == MaxRelease \in Nat
ASSUME UidAssumption == UidBound \in Nat \ {0}

AllVersions == Versions \cup {Vacuum}
Releases == 0 .. MaxRelease
NoUid == 0
Uids == 0 .. UidBound

\* uid, stored and terminating belong to the API server (metadata.uid,
\* status.storedVersions, metadata.deletionTimestamp); the rest is .spec.
CRD == [uid : Uids,
        versions : SUBSET AllVersions,
        served : SUBSET AllVersions,
        storage : SUBSET AllVersions,
        status : Releases,
        conversion : BOOLEAN,
        stored : SUBSET AllVersions,
        terminating : BOOLEAN]

\* Get returns (nil, nil) for a CRD that does not exist.
NoCRD == [uid |-> NoUid, versions |-> {}, served |-> {}, storage |-> {},
          status |-> 0, conversion |-> FALSE, stored |-> {},
          terminating |-> FALSE]

Exists(c) == c.versions # {}
Lookup(c, v) == v \in c.versions

-----------------------------------------------------------------------------
(* internal/tools/crd/generation *)

\* One version, served and stored, no conversion.
GenerateCRD(v, r) ==
  [NoCRD EXCEPT !.versions = {v}, !.served = {v}, !.storage = {v},
                !.status = r]

StatusEqual(c, g) == c.status = g.status

GVKExists(c, v) == v \in c.versions

\* (mutant) The version that held storage keeps it.
AppendVersionOnly(c, v) ==
  IF v \in c.versions THEN c
  ELSE [c EXCEPT
          !.versions = @ \cup {v, Vacuum},
          !.served = ((c.versions \cup {v}) \ {Vacuum}) \cup (@ \cap {Vacuum})]

\* Adds v, adds the vacuum version that holds storage if it is not there, and
\* makes every version but vacuum served and not stored.
AppendVersion(c, v) ==
  IF v \in c.versions THEN c
  ELSE [c EXCEPT
          !.versions = @ \cup {v, Vacuum},
          !.served = ((c.versions \cup {v}) \ {Vacuum}) \cup (@ \cap {Vacuum}),
          !.storage = IF Vacuum \in c.versions THEN @ \cap {Vacuum}
                                               ELSE {Vacuum}]

SetServedStorage(c, v, served, storage) ==
  IF v \notin c.versions THEN c
  ELSE [c EXCEPT !.served = IF served THEN @ \cup {v} ELSE @ \ {v},
                 !.storage = IF storage THEN @ \cup {v} ELSE @ \ {v}]

UpdateStatus(c, r) == [c EXCEPT !.status = r]

-----------------------------------------------------------------------------
(* internal/tools/crd: ApplyOrUpdateCRD, up to its call of kube.Apply *)

InjectConversion(c) == [c EXCEPT !.conversion = TRUE]

\* (mutant) The status schema is not compared.
NeedsVersion(c, v, r) == ~(Exists(c) /\ GVKExists(c, v))

\* An equal CRD that already has the version is left alone.
NeedsApply(c, v, r) ==
  ~ /\ Exists(c)
    /\ StatusEqual(c, GenerateCRD(v, r))
    /\ GVKExists(c, v)

\* What is handed to kube.Apply when the CRD was read as c.  A CRD whose status
\* schema is outdated only has its status schema replaced: v is not appended.
ToApply(c, v, r) ==
  LET g == GenerateCRD(v, r)
  IN IF ~Exists(c) THEN g
     ELSE IF ~StatusEqual(c, g) THEN UpdateStatus(c, r)
     ELSE SetServedStorage(InjectConversion(AppendVersion(c, v)), v, TRUE, FALSE)

-----------------------------------------------------------------------------
(* The API server (external), as kube.Apply and crd.Uninstall meet it.     *)
(*                                                                         *)
(* kube.Apply copies the live resourceVersion onto the caller's object, so *)
(* a write is never refused for being based on an old read.  What remains  *)
(* is the uid of the object that was read, which is immutable, and the     *)
(* rule that a version in status.storedVersions stays in .spec.versions.   *)
(* The other validations of the server (one storage version, a conversion  *)
(* webhook that is complete) are left out on purpose: that the code never  *)
(* submits a CRD that breaks them is a property, not an assumption.        *)

ServerAccepts(cur, obj) ==
  IF Exists(cur) THEN /\ obj.uid \in {NoUid, cur.uid}
                      /\ cur.stored \subseteq obj.versions
                 ELSE obj.uid = NoUid

ServerApply(cur, obj, newUid) ==
  IF Exists(cur)
    THEN [obj EXCEPT !.uid = cur.uid,
                     !.stored = cur.stored \cup obj.storage,
                     !.terminating = cur.terminating]
    ELSE [obj EXCEPT !.uid = newUid,
                     !.stored = obj.storage,
                     !.terminating = FALSE]

NextUid(u) == (u % UidBound) + 1

-----------------------------------------------------------------------------
(* Well-formedness *)

\* One version holds storage; every version but vacuum is served and vacuum is
\* not; a CRD of several versions has the vacuum version, stores in it and has
\* a conversion webhook; a CRD of one version has neither.
WellFormed(c) ==
  /\ c.served = c.versions \ {Vacuum}
  /\ \/ \E v \in Versions : /\ c.versions = {v}
                            /\ c.storage = {v}
                            /\ ~c.conversion
     \/ /\ Vacuum \in c.versions
        /\ \E v, w \in Versions : v # w /\ {v, w} \subseteq c.versions
        /\ c.storage = {Vacuum}
        /\ c.conversion
=============================================================================
