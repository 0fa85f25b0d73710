------------------------ MODULE CompositionDefinitions ------------------------
(***************************************************************************)
(* The CompositionDefinition reconciler of core-provider                   *)
(* (internal/controllers/compositiondefinitions) at work on definitions of *)
(* one kind: Observe, Create, Update and Delete, the CRD they share, the   *)
(* controller bundle each of them deploys, the Composition instances, and  *)
(* the other writer of the CRD, the periodic certificate refresher.        *)
(*                                                                         *)
(* Reconciles of different definitions interleave (MaxConcurrentReconciles *)
(* is 5 by default); the work queue never runs two for the same one.  A    *)
(* handler is cut where it calls the API server: each action below is the  *)
(* stretch from one such call to the next.                                 *)
(***************************************************************************)
EXTENDS CrdVersions

CONSTANTS Defs,         \* CompositionDefinitions whose charts have this kind
          Namespaces,
          NsOf,         \* the namespace of each definition
          Secured,      \* versions whose chart is read with credentials
          Comps,        \* Composition instances users may create
          NoVersion,    \* an empty status.apiVersion or status.digest
          Faulty,       \* the kinds of call that may fail
          MaxEdits, MaxFaults, MaxRestarts, MaxDrifts, MaxSyncs,
          Discipline,   \* what users refrain from (see README)
          RequeueAfterDelete  \* the runtime observes again after a Delete

FaultKinds == {"discovery", "crd", "established", "certs", "deploy", "rollout",
               "undeployOld", "relabel", "compositions", "undeploy",
               "uninstall", "persist"}
Disciplines == {"editSettled", "deleteSettled", "quietDelete", "currentVersion"}

ASSUME NsOfAssumption == NsOf \in [Defs -> Namespaces]
ASSUME SecuredAssumption == Secured \subseteq Versions
ASSUME NoVersionAssumption == NoVersion \notin AllVersions
ASSUME FaultyAssumption == Faulty \subseteq FaultKinds
ASSUME BoundsAssumption ==
  /\ MaxEdits \in Nat /\ MaxFaults \in Nat /\ MaxRestarts \in Nat
  /\ MaxDrifts \in Nat /\ MaxSyncs \in Nat
ASSUME DisciplineAssumption == Discipline \subseteq Disciplines
ASSUME RequeueAssumption == RequeueAfterDelete \in BOOLEAN

VARIABLES cd,       \* the CompositionDefinition objects
          crd,      \* the CRD in the API server
          uid,      \* the uid given to the last CRD created
          cache,    \* the CRD as the manager's informer cache has it
          bundle,   \* the controller bundle of each namespace and version
          comp,     \* the Composition instances
          pc, loc,  \* the reconcile in progress for each definition
          sync,     \* the certificate refresher's read of the CRD
          release,  \* the release of core-provider that runs
          budget    \* how often the environment may still interfere

vars == <<cd, crd, uid, cache, bundle, comp, pc, loc, sync, release, budget>>

\* status.apiVersion, status.digest, and the versions status.managed.versionInfo
\* has an entry for (known), respectively an entry with its chart (charts).
Status == [ver : Versions \cup {NoVersion}, digest : Versions \cup {NoVersion},
           known : SUBSET AllVersions, charts : SUBSET AllVersions]
NoStatus == [ver |-> NoVersion, digest |-> NoVersion, known |-> {}, charts |-> {}]

Phases == {"new", "live", "terminating", "gone"}
Definition == [phase : Phases, spec : Versions \cup {NoVersion}, status : Status]

\* broken: some object is missing or wrong.  keyless: of a secured chart's bundle
\* the rights to the secret with the credentials are among the missing.
BundleStates == {"absent", "keyless", "broken", "full"}
Rightless == {"absent", "keyless"}
\* pending: not yet adopted by a controller, so without its finalizer.
CompStates == {"new", "pending", "live", "deleting", "gone"}
Composition == [state : CompStates, label : Versions \cup {NoVersion}]

Stages == {"idle", "observeBundle", "readCRD", "applyCRD", "readForCA",
           "applyCA", "deploy", "undeployOld", "listOld", "relabel",
           "listVersion", "waitGone", "listKind", "undeploy", "uninstallCRD",
           "persist"}
Ops == {"none", "create", "update", "delete"}
\* spec, deleted and status are the reconciler's copy of the definition; seen
\* is the CRD it read last, todo the compositions it has listed to relabel.
Locals == [op : Ops, spec : Versions \cup {NoVersion}, deleted : BOOLEAN, status : Status,
           seen : CRD, todo : SUBSET Comps, skipCRD : BOOLEAN, torn : BOOLEAN]

NoLocals == [op |-> "none", spec |-> NoVersion, deleted |-> FALSE,
             status |-> NoStatus, seen |-> NoCRD, todo |-> {},
             skipCRD |-> FALSE, torn |-> FALSE]

Budget == [edits : 0 .. MaxEdits, faults : 0 .. MaxFaults,
           restarts : 0 .. MaxRestarts, drifts : 0 .. MaxDrifts,
           syncs : 0 .. MaxSyncs]

TypeOK ==
  /\ cd \in [Defs -> Definition]
  /\ crd \in CRD
  /\ uid \in Uids
  /\ cache \in CRD
  /\ bundle \in [Namespaces -> [Versions -> BundleStates]]
  /\ comp \in [Comps -> Composition]
  /\ pc \in [Defs -> Stages]
  /\ loc \in [Defs -> Locals]
  /\ sync \in CRD
  /\ release \in Releases
  /\ budget \in Budget

Init ==
  /\ cd = [d \in Defs |-> [phase |-> "new", spec |-> NoVersion,
                           status |-> NoStatus]]
  /\ crd = NoCRD
  /\ uid = NoUid
  /\ cache = NoCRD
  /\ bundle = [n \in Namespaces |-> [v \in Versions |-> "absent"]]
  /\ comp = [c \in Comps |-> [state |-> "new", label |-> NoVersion]]
  /\ pc = [d \in Defs |-> "idle"]
  /\ loc = [d \in Defs |-> NoLocals]
  /\ sync = NoCRD
  /\ release = 0
  /\ budget = [edits |-> MaxEdits, faults |-> MaxFaults,
               restarts |-> MaxRestarts, drifts |-> MaxDrifts,
               syncs |-> MaxSyncs]

-----------------------------------------------------------------------------
(* Views of the state *)

Present(d) == cd[d].phase \in {"live", "terminating"}
Existing(c) == comp[c].state \in {"pending", "live", "deleting"}
\* GetCompositions: by the composition-version label, in every namespace.
Labelled(v) == {c \in Comps : Existing(c) /\ comp[c].label = v}
\* pluralizer.GVKtoGVR asks the discovery endpoint, which is not cached.
Resolves(v) == v \in crd.served
\* GetCompositionDefinitions and ...WithVersion go by the persisted status; a
\* definition that is being deleted is still listed.
Recorded == {d \in Defs : Present(d) /\ cd[d].status.ver # NoVersion}
RecordedAt(v) == {d \in Recorded : cd[d].status.ver = v}
\* A controller of this version runs in some namespace.
Served(v) == \E n \in Namespaces : bundle[n][v] = "full"
Target(d) == loc[d].spec
\* The reconciler has nothing left to do for d.
Settled(d) == cd[d].status.ver = cd[d].spec /\ cd[d].status.digest = cd[d].spec

\* (mutant) The version recorded is the one the CRD stores in.
RefreshedFromStorage(st, c, v) ==
  [st EXCEPT !.ver = CHOOSE w \in c.storage : TRUE,
             !.known = @ \cup c.versions,
             !.charts = IF v \in c.versions \ st.known THEN @ \cup {v} ELSE @]

\* (mutant) The entries are made before it is known which of them is new.
RefreshedAtOnce(st, c, v) ==
  LET known == st.known \cup c.versions
  IN [st EXCEPT !.ver = v, !.known = known,
                !.charts = IF v \in c.versions \ known THEN @ \cup {v} ELSE @]

\* RefreshCompositionDefinitionStatus and UpdateVersionInfo: a chart is recorded
\* only with a new entry.
Refreshed(st, c, v) ==
  [st EXCEPT !.ver = v,
             !.known = @ \cup c.versions,
             !.charts = IF v \in c.versions \ st.known THEN @ \cup {v} ELSE @]

\* The version whose bundle d is about to deploy or undeploy.
Subject(d) == IF pc[d] = "undeployOld" THEN loc[d].status.ver ELSE Target(d)

\* (mutant) Deploy replaces the objects, where it would update them.
HalfwayReplacing(D, K) ==
  [n \in Namespaces |-> [v \in Versions |->
     IF /\ bundle[n][v] # "broken"
        /\ \E d \in D : /\ NsOf[d] = n /\ Subject(d) = v
                        /\ pc[d] \in {"deploy", "undeploy", "undeployOld"}
       THEN "broken" ELSE bundle[n][v]]]

\* The bundles when the definitions in D stop halfway through that, those in K
\* while rights to a secret are missing: Deploy writes them first, Undeploy
\* removes them last.
Halfway(D, K) ==
  [n \in Namespaces |-> [v \in Versions |->
     LET At(C, stages) == \E d \in C : /\ NsOf[d] = n
                                       /\ pc[d] \in stages
                                       /\ Subject(d) = v
         left == IF v \in Secured /\ At(K, {"deploy", "undeploy", "undeployOld"})
                   THEN "keyless" ELSE "broken"
     IN IF \/ bundle[n][v] \in Rightless /\ At(D, {"deploy"})
           \/ bundle[n][v] \notin Rightless /\ At(D, {"undeploy", "undeployOld"})
          THEN left ELSE bundle[n][v]]]

Goto(d, stage) == pc' = [pc EXCEPT ![d] = stage]
SetBundle(d, v, b) == bundle' = [bundle EXCEPT ![NsOf[d]][v] = b]
Spend(kind) == /\ budget[kind] > 0
               /\ budget' = [budget EXCEPT ![kind] = @ - 1]
\* Compositions C are deleted: those a controller has adopted wait for it.
Deleted(C) == [c \in Comps |->
                 IF c \notin C THEN comp[c]
                 ELSE IF comp[c].state = "pending"
                   THEN [comp[c] EXCEPT !.state = "gone"]
                   ELSE [comp[c] EXCEPT !.state = "deleting"]]

-----------------------------------------------------------------------------
(* Observe *)

\* The reconciler's copy of the definition, at the stage s of operation op.
Begin(d, op, s) ==
  /\ loc' = [loc EXCEPT ![d] =
               [NoLocals EXCEPT !.op = op, !.spec = cd[d].spec,
                                !.deleted = (cd[d].phase = "terminating"),
                                !.status = cd[d].status,
                                !.seen = IF op = "none" THEN cache ELSE NoCRD]]
  /\ Goto(d, s)

\* What the runtime calls for a resource that exists and is not up to date.
BeginRepair(d) == IF cd[d].phase = "terminating"
                    THEN Begin(d, "delete", "listVersion")
                    ELSE Begin(d, "update", "readCRD")

\* Reported as not existing while being deleted: the runtime removes its
\* finalizer and the object goes away.
Finalize(d) ==
  /\ cd' = [cd EXCEPT ![d].phase = "gone"]
  /\ UNCHANGED <<crd, uid, cache, bundle, comp, pc, loc, sync, release>>

ObserveGone(d) ==
  /\ pc[d] = "idle"
  /\ cd[d].phase = "terminating"
  /\ ~Resolves(cd[d].spec) \/ ~Exists(cache)
  /\ Finalize(d)
  /\ UNCHANGED budget

\* Any discovery error counts as "gone" for a definition being deleted.
ObserveUnresolved(d) ==
  /\ pc[d] = "idle"
  /\ cd[d].phase = "terminating"
  /\ "discovery" \in Faulty
  /\ Spend("faults")
  /\ Finalize(d)

ObserveMissing(d) ==
  /\ pc[d] = "idle"
  /\ cd[d].phase = "live"
  /\ ~Exists(cache)
  /\ Begin(d, "create", "readCRD")
  /\ UNCHANGED <<cd, crd, uid, cache, bundle, comp, sync, release, budget>>

ObserveOutdated(d) ==
  /\ pc[d] = "idle"
  /\ Present(d)
  /\ cd[d].phase = "terminating" => Resolves(cd[d].spec)
  /\ Exists(cache)
  /\ ~Lookup(cache, cd[d].spec)
       \/ ~StatusEqual(cache, GenerateCRD(cd[d].spec, release))
  /\ BeginRepair(d)
  /\ UNCHANGED <<cd, crd, uid, cache, bundle, comp, sync, release, budget>>

\* The CRD is current.  (GetCompositions needs the version to be served.)
ObserveCurrent(d) ==
  /\ pc[d] = "idle"
  /\ Present(d)
  /\ Resolves(cd[d].spec)
  /\ Lookup(cache, cd[d].spec)
  /\ StatusEqual(cache, GenerateCRD(cd[d].spec, release))
  /\ Begin(d, "none", "observeBundle")
  /\ UNCHANGED <<cd, crd, uid, cache, bundle, comp, sync, release, budget>>

\* (mutant) Only the rendered bundle is compared.
UpToDateRendered(d) == loc[d].status.digest = Target(d)

\* The recorded digest equals the one of the rendered bundle and the one of
\* the bundle read back.
UpToDate(d) ==
  /\ loc[d].status.digest = Target(d)
  /\ bundle[NsOf[d]][Target(d)] = "full"

\* Lookup, called when the rendered digest is as recorded, does not get past a
\* missing role or binding for the credentials' secret.
Unreadable(d) == /\ Target(d) \in Secured
                 /\ loc[d].status.digest = Target(d)
                 /\ bundle[NsOf[d]][Target(d)] \in Rightless

\* Observe returns that error: nothing is called, whether d lives or is deleted.
LookupFails(d) ==
  /\ pc[d] = "observeBundle"
  /\ Unreadable(d)
  /\ loc' = [loc EXCEPT ![d] = NoLocals]
  /\ Goto(d, "idle")
  /\ UNCHANGED <<cd, crd, uid, cache, bundle, comp, sync, release, budget>>

\* (Writing back a status that did not change is left out: it is no step.)
ObserveBundle(d) ==
  /\ pc[d] = "observeBundle"
  /\ ~Unreadable(d)
  /\ LET st == IF UpToDate(d)
                 THEN Refreshed(loc[d].status, loc[d].seen, Target(d))
                 ELSE loc[d].status
         op == IF loc[d].deleted THEN "delete"
               ELSE IF UpToDate(d) THEN "none" ELSE "update"
         changed == st # cd[d].status
     IN /\ loc' = IF op = "none" /\ ~changed
                    THEN [loc EXCEPT ![d] = NoLocals]
                    ELSE [loc EXCEPT ![d].status = st, ![d].op = op,
                                     ![d].seen = NoCRD]
        /\ Goto(d, CASE op = "delete"              -> "listVersion"
                     [] op = "update"              -> "readCRD"
                     [] op = "none" /\ changed  -> "persist"
                     [] op = "none" /\ ~changed -> "idle")
  /\ UNCHANGED <<cd, crd, uid, cache, bundle, comp, sync, release, budget>>

-----------------------------------------------------------------------------
(* Create and Update: ApplyOrUpdateCRD, ManageCertificates, Deploy *)

ReadCRD(d) ==
  /\ pc[d] = "readCRD"
  /\ loc' = [loc EXCEPT ![d].seen = cache]
  /\ Goto(d, IF NeedsApply(cache, Target(d), release) THEN "applyCRD"
                                                    ELSE "readForCA")
  /\ UNCHANGED <<cd, crd, uid, cache, bundle, comp, sync, release, budget>>

\* kube.Apply of obj: whatever was written since it was read is overwritten.
WriteCRD(obj) ==
  /\ ServerAccepts(crd, obj)
  /\ crd' = ServerApply(crd, obj, NextUid(uid))
  /\ uid' = IF Exists(crd) THEN uid ELSE NextUid(uid)

ApplyCRD(d) ==
  /\ pc[d] = "applyCRD"
  /\ WriteCRD(ToApply(loc[d].seen, Target(d), release))
  /\ loc' = [loc EXCEPT ![d].seen = NoCRD]
  /\ \/ Goto(d, "readForCA") /\ UNCHANGED budget
     \/ /\ "established" \in Faulty /\ Spend("faults")
        /\ Goto(d, "persist")
  /\ UNCHANGED <<cd, cache, bundle, comp, sync, release>>

ApplyCRDRefused(d) ==
  /\ pc[d] = "applyCRD"
  /\ ~ServerAccepts(crd, ToApply(loc[d].seen, Target(d), release))
  /\ loc' = [loc EXCEPT ![d].seen = NoCRD]
  /\ Goto(d, "persist")
  /\ UNCHANGED <<cd, crd, uid, cache, bundle, comp, sync, release, budget>>

\* propagateCABundle, with the certificate manager's own uncached client.
ReadForCA(d) ==
  /\ pc[d] = "readForCA"
  /\ loc' = [loc EXCEPT ![d].seen = crd]
  /\ Goto(d, IF Exists(crd) THEN "applyCA" ELSE "persist")
  /\ UNCHANGED <<cd, crd, uid, cache, bundle, comp, sync, release, budget>>

\* UpdateCABundle fails without a conversion webhook, and is skipped for a CRD
\* of one version.
ApplyCA(d) ==
  /\ pc[d] = "applyCA"
  /\ LET c == loc[d].seen
         many == Cardinality(c.versions) > 1
     IN \/ /\ ~many
           /\ Goto(d, "deploy")
           /\ UNCHANGED <<crd, uid>>
        \/ /\ many /\ c.conversion
           /\ WriteCRD(c)
           /\ Goto(d, "deploy")
        \/ /\ many /\ ~(c.conversion /\ ServerAccepts(crd, c))
           /\ Goto(d, "readForCA")      \* retried from the read
           /\ UNCHANGED <<crd, uid>>
  /\ loc' = [loc EXCEPT ![d].seen = NoCRD]
  /\ UNCHANGED <<cd, cache, bundle, comp, sync, release, budget>>

\* The digest is recorded at once; what is left of Update depends on the
\* version that status.apiVersion still names.
Deployed(d) ==
  LET l == loc[d]
      old == l.status.ver
      done == [l.status EXCEPT !.digest = l.spec]
      moved == l.op = "update" /\ old \notin {NoVersion, l.spec}
  IN /\ loc' = [loc EXCEPT ![d].status =
                  IF l.op = "update" /\ ~moved
                    THEN Refreshed(done, GenerateCRD(l.spec, release), l.spec)
                    ELSE done]
     /\ Goto(d, CASE ~moved -> "persist"
                  [] moved /\ old \in l.status.known -> "undeployOld"
                  [] moved /\ old \notin l.status.known -> "listOld")
     /\ UNCHANGED <<cd, crd, uid, cache, comp, sync, release, budget>>

\* (mutant) Observe's DryRunServer option is left on.
DeployDryRun(d) ==
  /\ pc[d] = "deploy"
  /\ UNCHANGED bundle
  /\ Deployed(d)

Deploy(d) ==
  /\ pc[d] = "deploy"
  /\ SetBundle(d, Target(d), "full")
  /\ Deployed(d)

\* What Undeploy leaves that stops before it removes the rights to a secret.
UndeployedToRights(d, v) ==
  LET b == bundle[NsOf[d]][v]
  IN IF v \notin Secured THEN "absent" ELSE IF b = "full" THEN "broken" ELSE b

\* Undeploy of the old version's bundle.  It reads the credentials of the chart
\* in versionInfo after removing the rest of the bundle: an entry without a
\* chart is a nil dereference, recovered by the controller runtime, and the
\* status of this reconcile is lost.
UndeployOld(d) ==
  /\ pc[d] = "undeployOld"
  /\ \/ /\ loc[d].status.ver \in loc[d].status.charts
        /\ SetBundle(d, loc[d].status.ver, "absent")
        /\ Goto(d, "listOld")
        /\ UNCHANGED loc
     \/ /\ loc[d].status.ver \notin loc[d].status.charts
        /\ SetBundle(d, loc[d].status.ver,
                     UndeployedToRights(d, loc[d].status.ver))
        /\ Goto(d, "idle")
        /\ loc' = [loc EXCEPT ![d] = NoLocals]
  /\ UNCHANGED <<cd, crd, uid, cache, comp, sync, release, budget>>

\* (mutant) Lists by the new version.
NewCompositions(d) == Labelled(Target(d))

OldCompositions(d) == Labelled(loc[d].status.ver)

\* UpdateCompositionsVersion; listing a version that is not served is an error.
ListOld(d) ==
  /\ pc[d] = "listOld"
  /\ \/ /\ Resolves(loc[d].status.ver)
        /\ loc' = [loc EXCEPT ![d].todo = OldCompositions(d)]
        /\ Goto(d, "relabel")
     \/ /\ ~Resolves(loc[d].status.ver)
        /\ Goto(d, "persist")
        /\ UNCHANGED loc
  /\ UNCHANGED <<cd, crd, uid, cache, bundle, comp, sync, release, budget>>

\* One composition at a time; one that is gone by now is skipped.
Relabel(d, c) ==
  /\ pc[d] = "relabel"
  /\ c \in loc[d].todo
  /\ loc' = [loc EXCEPT ![d].todo = @ \ {c}]
  /\ comp' = IF Existing(c) THEN [comp EXCEPT ![c].label = Target(d)] ELSE comp
  /\ UNCHANGED <<cd, crd, uid, cache, bundle, pc, sync, release, budget>>

FinishUpdate(d) ==
  /\ pc[d] = "relabel"
  /\ loc[d].todo = {}
  /\ loc' = [loc EXCEPT ![d].status =
               Refreshed(@, GenerateCRD(Target(d), release), Target(d))]
  /\ Goto(d, "persist")
  /\ UNCHANGED <<cd, crd, uid, cache, bundle, comp, sync, release, budget>>

-----------------------------------------------------------------------------
(* Delete *)

\* If one definition is recorded at this version, whichever it is, all
\* compositions of the version are deleted.
ListVersion(d) ==
  /\ pc[d] = "listVersion"
  /\ \/ /\ ~Resolves(Target(d))
        /\ Goto(d, "persist")
        /\ loc' = [loc EXCEPT ![d].torn = TRUE]
        /\ UNCHANGED comp
     \/ /\ Resolves(Target(d))
        /\ Cardinality(RecordedAt(Target(d))) = 1
        /\ comp' = Deleted(Labelled(Target(d)))
        /\ Goto(d, "waitGone")
        /\ UNCHANGED loc
     \/ /\ Resolves(Target(d))
        /\ Cardinality(RecordedAt(Target(d))) # 1
        /\ Goto(d, "listKind")
        /\ UNCHANGED <<comp, loc>>
  /\ UNCHANGED <<cd, crd, uid, cache, bundle, sync, release, budget>>

\* (mutant) Does not look whether they are gone.
NoWait(d) ==
  /\ pc[d] = "waitGone"
  /\ Goto(d, "listKind")
  /\ UNCHANGED <<cd, crd, uid, cache, bundle, comp, loc, sync, release, budget>>

\* Compositions that remain are an error: the Delete is tried again later.
WaitGone(d) ==
  /\ pc[d] = "waitGone"
  /\ Goto(d, IF Resolves(Target(d)) /\ Labelled(Target(d)) = {}
               THEN "listKind" ELSE "persist")
  /\ UNCHANGED <<cd, crd, uid, cache, bundle, comp, loc, sync, release, budget>>

\* (mutant) The definition that is being deleted counts as another one.
SiblingsOrSelf(d) == Cardinality(Recorded) >= 1

Siblings(d) == Cardinality(Recorded) > 1

ListKind(d) ==
  /\ pc[d] = "listKind"
  /\ loc' = [loc EXCEPT ![d].skipCRD = Siblings(d)]
  /\ Goto(d, "undeploy")
  /\ UNCHANGED <<cd, crd, uid, cache, bundle, comp, sync, release, budget>>

Undeployed(d) ==
  /\ loc' = [loc EXCEPT ![d].torn = loc[d].skipCRD]
  /\ Goto(d, IF loc[d].skipCRD THEN "persist" ELSE "uninstallCRD")
  /\ UNCHANGED <<cd, crd, uid, cache, comp, sync, release, budget>>

\* (mutant) An error while removing the bundle is logged and ignored.
UndeployIgnoringErrors(d) ==
  /\ pc[d] = "undeploy"
  /\ \/ \E K \in SUBSET {d} : bundle' = Halfway({d}, K)
     \/ SetBundle(d, Target(d), "absent")
  /\ Undeployed(d)

Undeploy(d) ==
  /\ pc[d] = "undeploy"
  /\ SetBundle(d, Target(d), "absent")
  /\ Undeployed(d)

\* A CRD the cache does not have is not deleted.  Deleting a CRD deletes its
\* instances; the CRD goes when they are gone.
UninstallCRD(d) ==
  /\ pc[d] = "uninstallCRD"
  /\ \/ /\ Exists(cache) /\ Exists(crd)
        /\ crd' = [crd EXCEPT !.terminating = TRUE]
        /\ comp' = Deleted({c \in Comps : Existing(c)})
     \/ /\ ~(Exists(cache) /\ Exists(crd))
        /\ UNCHANGED <<crd, comp>>
  /\ loc' = [loc EXCEPT ![d].torn = TRUE]
  /\ Goto(d, "persist")
  /\ UNCHANGED <<cd, uid, cache, bundle, sync, release, budget>>

-----------------------------------------------------------------------------
(* The end of a reconcile, and errors *)

\* The runtime (external) writes the status back, on error paths too.
Persist(d) ==
  /\ pc[d] = "persist"
  /\ cd' = [cd EXCEPT ![d].status = loc[d].status,
                      ![d].phase = IF loc[d].torn /\ ~RequeueAfterDelete
                                     THEN "gone" ELSE @]
  /\ loc' = [loc EXCEPT ![d] = NoLocals]
  /\ Goto(d, "idle")
  /\ UNCHANGED <<crd, uid, cache, bundle, comp, sync, release, budget>>

FaultOf == [s \in Stages |->
  CASE s \in {"readCRD", "applyCRD"} -> "crd"
    [] s \in {"readForCA", "applyCA"} -> "certs"
    [] s = "deploy" -> "deploy"
    [] s = "undeployOld" -> "undeployOld"
    [] s \in {"listOld", "relabel"} -> "relabel"
    [] s \in {"listVersion", "waitGone", "listKind"} -> "compositions"
    [] s = "undeploy" -> "undeploy"
    [] s = "uninstallCRD" -> "uninstall"
    [] OTHER -> "none"]

\* A call fails beyond its retries: the handler returns the error.
Fail(d) ==
  /\ FaultOf[pc[d]] \in Faulty
  /\ Spend("faults")
  /\ \E K \in SUBSET {d} : bundle' = Halfway({d}, K)
  /\ loc' = [loc EXCEPT ![d].seen = NoCRD, ![d].todo = {}]
  /\ Goto(d, "persist")
  /\ UNCHANGED <<cd, crd, uid, cache, comp, sync, release>>

\* Everything is applied but the rollout is not ready in time.
FailRollout(d) ==
  /\ pc[d] = "deploy"
  /\ "rollout" \in Faulty
  /\ Spend("faults")
  /\ SetBundle(d, Target(d), "full")
  /\ Goto(d, "persist")
  /\ UNCHANGED <<cd, crd, uid, cache, comp, loc, sync, release>>

\* The status write is refused or lost.
FailPersist(d) ==
  /\ pc[d] = "persist"
  /\ "persist" \in Faulty
  /\ Spend("faults")
  /\ loc' = [loc EXCEPT ![d] = NoLocals]
  /\ Goto(d, "idle")
  /\ UNCHANGED <<cd, crd, uid, cache, bundle, comp, sync, release>>

-----------------------------------------------------------------------------
(* The certificate refresher's UpdateExistingResources, as a writer of CRDs *)

SyncRead ==
  /\ ~Exists(sync)
  /\ \E d \in Recorded : Resolves(cd[d].status.ver)
  /\ Spend("syncs")
  /\ sync' = crd
  /\ UNCHANGED <<cd, crd, uid, cache, bundle, comp, pc, loc, release>>

\* A refused write is given up or tried again from a new read.
SyncApply ==
  /\ Exists(sync)
  /\ sync' = NoCRD
  /\ \/ /\ Cardinality(sync.versions) > 1 /\ sync.conversion
        /\ WriteCRD(sync)
     \/ /\ ~(Cardinality(sync.versions) > 1 /\ sync.conversion
             /\ ServerAccepts(crd, sync))
        /\ UNCHANGED <<crd, uid>>
  /\ UNCHANGED <<cd, cache, bundle, comp, pc, loc, release, budget>>

-----------------------------------------------------------------------------
(* Users, the cluster and the process *)

CreateDefinition(d, v) ==
  /\ cd[d].phase = "new"
  /\ cd' = [cd EXCEPT ![d].phase = "live", ![d].spec = v]
  /\ UNCHANGED <<crd, uid, cache, bundle, comp, pc, loc, sync, release, budget>>

\* The chart version is edited.
EditDefinition(d, v) ==
  /\ cd[d].phase = "live"
  /\ cd[d].spec # v
  /\ "editSettled" \in Discipline => Settled(d)
  /\ Spend("edits")
  /\ cd' = [cd EXCEPT ![d].spec = v]
  /\ UNCHANGED <<crd, uid, cache, bundle, comp, pc, loc, sync, release>>

DeleteDefinition(d) ==
  /\ cd[d].phase = "live"
  /\ "deleteSettled" \in Discipline => Settled(d)
  /\ cd' = [cd EXCEPT ![d].phase = "terminating"]
  /\ UNCHANGED <<crd, uid, cache, bundle, comp, pc, loc, sync, release, budget>>

\* The mutating webhook labels a new composition with its version.
CreateComposition(c, v) ==
  /\ comp[c].state = "new"
  /\ v \in crd.served /\ ~crd.terminating
  /\ "quietDelete" \in Discipline =>
       \A d \in Defs : cd[d].spec = v => cd[d].phase # "terminating"
  /\ "currentVersion" \in Discipline =>
       \E d \in Defs : cd[d].phase = "live" /\ cd[d].spec = v
  /\ comp' = [comp EXCEPT ![c] = [state |-> "pending", label |-> v]]
  /\ UNCHANGED <<cd, crd, uid, cache, bundle, pc, loc, sync, release, budget>>

\* composition-dynamic-controller (external): a controller adopts the
\* compositions with its version's label, and lets go of the deleted ones.
Adopt(c) ==
  /\ comp[c].state = "pending"
  /\ Served(comp[c].label)
  /\ comp' = [comp EXCEPT ![c].state = "live"]
  /\ UNCHANGED <<cd, crd, uid, cache, bundle, pc, loc, sync, release, budget>>

Release(c) ==
  /\ comp[c].state = "deleting"
  /\ Served(comp[c].label)
  /\ comp' = [comp EXCEPT ![c].state = "gone"]
  /\ UNCHANGED <<cd, crd, uid, cache, bundle, pc, loc, sync, release, budget>>

CRDCollected ==
  /\ crd.terminating
  /\ \A c \in Comps : ~Existing(c)
  /\ crd' = NoCRD
  /\ UNCHANGED <<cd, uid, cache, bundle, comp, pc, loc, sync, release, budget>>

CacheSync ==
  /\ cache # crd
  /\ cache' = crd
  /\ UNCHANGED <<cd, crd, uid, bundle, comp, pc, loc, sync, release, budget>>

\* An object of a bundle is changed or removed by someone else.
Drift(n, v) ==
  /\ Spend("drifts")
  /\ \/ /\ bundle[n][v] = "full"
        /\ bundle' = [bundle EXCEPT ![n][v] = "broken"]
     \/ /\ bundle[n][v] \notin Rightless
        /\ v \in Secured
        /\ bundle' = [bundle EXCEPT ![n][v] = "keyless"]
  /\ UNCHANGED <<cd, crd, uid, cache, comp, pc, loc, sync, release>>

\* The process ends at any point and starts again, possibly as a new release;
\* the informer cache is filled before reconciling begins.  A Deploy or Undeploy
\* under way may stop halfway.
Restart ==
  /\ Spend("restarts")
  /\ pc' = [d \in Defs |-> "idle"]
  /\ loc' = [d \in Defs |-> NoLocals]
  /\ sync' = NoCRD
  /\ cache' = crd
  /\ release' \in {release, release + 1} \cap Releases
  /\ \E D \in SUBSET Defs : \E K \in SUBSET D : bundle' = Halfway(D, K)
  /\ UNCHANGED <<cd, crd, uid, comp>>

-----------------------------------------------------------------------------

Observe(d) == \/ ObserveGone(d) \/ ObserveMissing(d) \/ ObserveOutdated(d)
              \/ ObserveCurrent(d) \/ LookupFails(d) \/ ObserveBundle(d)
CreateOrUpdate(d) == \/ ReadCRD(d) \/ ApplyCRD(d) \/ ApplyCRDRefused(d)
                     \/ ReadForCA(d) \/ ApplyCA(d) \/ Deploy(d)
                     \/ UndeployOld(d) \/ ListOld(d) \/ FinishUpdate(d)
                     \/ \E c \in Comps : Relabel(d, c)
Delete(d) == \/ ListVersion(d) \/ WaitGone(d) \/ ListKind(d)
             \/ Undeploy(d) \/ UninstallCRD(d)
Reconcile(d) == Observe(d) \/ CreateOrUpdate(d) \/ Delete(d) \/ Persist(d)

Failure(d) == Fail(d) \/ FailRollout(d) \/ FailPersist(d) \/ ObserveUnresolved(d)

User == \/ \E d \in Defs, v \in Versions : CreateDefinition(d, v)
        \/ \E d \in Defs, v \in Versions : EditDefinition(d, v)
        \/ \E d \in Defs : DeleteDefinition(d)
        \/ \E c \in Comps, v \in Versions : CreateComposition(c, v)

Cluster == \/ \E c \in Comps : Adopt(c) \/ Release(c)
           \/ CRDCollected \/ CacheSync
           \/ \E n \in Namespaces, v \in Versions : Drift(n, v)

Next == \/ \E d \in Defs : Reconcile(d) \/ Failure(d)
        \/ SyncRead \/ SyncApply \/ User \/ Cluster \/ Restart

Spec == Init /\ [][Next]_vars

\* The work queue comes back to every definition (requeue after an error, poll
\* interval otherwise), the cache catches up, controllers and the API server
\* make progress.  Nothing is assumed of users, faults or the refresher.
Fairness ==
  /\ \A d \in Defs : WF_vars(Reconcile(d))
  /\ \A c \in Comps : WF_vars(Adopt(c)) /\ WF_vars(Release(c))
  /\ WF_vars(CRDCollected)
  /\ WF_vars(CacheSync)

FairSpec == Spec /\ Fairness
=============================================================================
