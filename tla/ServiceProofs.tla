----------------------------- MODULE ServiceProofs -----------------------------
(***************************************************************************)
(* What a definition means to its compositions, for any number of          *)
(* versions, compositions, failures and restarts.  In a namespace of its   *)
(* own, with bundles nobody tampers with, it is never without a controller *)
(* once it has been deployed.  If it is alone in its kind and its users    *)
(* wait for it, it leaves nothing behind when it goes, takes the           *)
(* controllers down after the compositions, and keeps what it has          *)
(* converged to.  Alone in its kind, it has the chart of every version it  *)
(* records.                                                                *)
(***************************************************************************)
EXTENDS ReconcilerContractProofs

Deleting == {"listVersion", "waitGone", "listKind", "undeploy", "uninstallCRD"}
Migrating == {"undeployOld", "listOld", "relabel"}

\* Some version of d runs.
Running(d) == \E v \in Versions : bundle[NsOf[d]][v] = "full"

\* Delete is not called for a live definition.  Update has a version to come
\* from, and takes its bundle down only when the other one is up.  A status, also
\* one that is not written yet, names a version only when one runs.
Steady(d) ==
  /\ cd[d].phase = "new" => /\ cd[d].status.ver = NoVersion
                            /\ loc[d].status.ver = NoVersion /\ pc[d] = "idle"
  /\ loc[d].deleted \/ pc[d] \in Deleting => cd[d].phase \in {"terminating", "gone"}
  /\ pc[d] \in Migrating => loc[d].status.ver # NoVersion
  /\ pc[d] = "undeployOld" => /\ bundle[NsOf[d]][loc[d].spec] = "full"
                              /\ loc[d].spec # loc[d].status.ver
  /\ cd[d].phase = "live" /\ cd[d].status.ver # NoVersion => Running(d)
  /\ cd[d].phase = "live" /\ loc[d].status.ver # NoVersion => Running(d)
AllSteady == \A d \in Defs : Steady(d)

\* The assumptions of the theorem.
Apart == \A d, e \in Defs : NsOf[d] = NsOf[e] => d = e
Untouched == MaxDrifts = 0

-----------------------------------------------------------------------------
(* Bundles under the steps of their own definitions and of others *)

LEMMA OthersSteady ==
  ASSUME Apart, AllSteady, NEW d \in Defs, Moved(d),
         \A e \in Defs \ {d} : cd'[e] = cd[e] /\ bundle'[NsOf[e]] = bundle[NsOf[e]],
         Steady(d)'
  PROVE  AllSteady'
<1>1. ASSUME NEW e \in Defs \ {d}
      PROVE  Steady(e)'
  BY DEF Moved, AllSteady, Steady, Running
<1> QED  BY <1>1 DEF AllSteady

\* Stopping halfway takes nothing from a live definition that runs.
LEMMA HalfwayRuns ==
  ASSUME Apart, IInv, NEW d \in Defs, Steady(d), cd[d].phase = "live", Running(d),
         NEW D \in SUBSET Defs, NEW K, bundle' = Halfway(D, K)
  PROVE  Running(d)'
<1>1. \A v \in Versions :
        bundle'[NsOf[d]][v] # "full" /\ bundle[NsOf[d]][v] = "full"
          => pc[d] \in {"undeploy", "undeployOld"} /\ Subject(d) = v
  BY NsOfAssumption DEF Halfway, Apart, Rightless
<1>2. CASE pc[d] = "undeployOld"
  <2>1. loc[d].spec \in Versions
    BY <1>2 DEF IInv, Named
  <2> QED  BY <1>1, <1>2, <2>1 DEF Steady, Subject, Running
<1>3. CASE pc[d] # "undeployOld"
  <2>1. pc[d] # "undeploy"
    BY DEF Steady, Deleting
  <2> QED  BY <1>1, <1>3, <2>1 DEF Running
<1> QED  BY <1>2, <1>3

LEMMA OwnBundles ==
  ASSUME Apart, IInv, NEW d \in Defs, Reconcile(d) \/ Failure(d)
  PROVE  \A e \in Defs \ {d} : bundle'[NsOf[e]] = bundle[NsOf[e]]
<1> SUFFICES ASSUME NEW e \in Defs \ {d}
             PROVE  bundle'[NsOf[e]] = bundle[NsOf[e]]
  OBVIOUS
<1>1. NsOf[e] # NsOf[d] /\ NsOf[e] \in Namespaces
  BY NsOfAssumption DEF Apart
<1>2. bundle \in [Namespaces -> [Versions -> BundleStates]]
  BY DEF IInv, TypeOK
<1>3. CASE Deploy(d) \/ UndeployOld(d) \/ Undeploy(d) \/ FailRollout(d)
  BY <1>1, <1>2, <1>3 DEF Deploy, UndeployOld, Undeploy, FailRollout, SetBundle
<1>4. CASE Fail(d)
  <2>0. PICK K \in SUBSET {d} : bundle' = Halfway({d}, K)
    BY <1>4 DEF Fail
  <2> DEFINE own == Halfway({d}, K)[NsOf[e]]
  <2>1. \A v \in Versions : own[v] = bundle[NsOf[e]][v]
    BY <1>1, <2>0 DEF Halfway
  <2>2. own \in [Versions -> BundleStates]
    BY <1>1, HalfwayType DEF IInv
  <2>3. bundle[NsOf[e]] \in [Versions -> BundleStates]
    BY <1>1, <1>2
  <2>4. bundle'[NsOf[e]] = own
    BY <2>0, Zenon
  <2> HIDE DEF own
  <2> QED  BY <2>1, <2>2, <2>3, <2>4
<1>5. CASE ~(Deploy(d) \/ UndeployOld(d) \/ Undeploy(d) \/ Fail(d) \/ FailRollout(d))
  BY <1>5, QuietSteps
<1> QED  BY <1>3, <1>4, <1>5

LEMMA OwnDefinition ==
  ASSUME IInv, NEW d \in Defs, Reconcile(d) \/ Failure(d)
  PROVE  \A e \in Defs \ {d} : cd'[e] = cd[e]
<1> USE DEF IInv, TypeOK
<1>1. CASE Observe(d)
  BY <1>1 DEF Observe, ObserveGone, ObserveMissing, ObserveOutdated,
              ObserveCurrent, LookupFails, ObserveBundle, Finalize
<1>2. CASE CreateOrUpdate(d)
  BY <1>2 DEF CreateOrUpdate, ReadCRD, ApplyCRD, ApplyCRDRefused, ReadForCA,
              ApplyCA, Deploy, Deployed, UndeployOld, ListOld, FinishUpdate, Relabel
<1>3. CASE Delete(d)
  BY <1>3 DEF Delete, ListVersion, WaitGone, ListKind, Undeploy, Undeployed,
              UninstallCRD
<1>4. CASE Persist(d) \/ Failure(d)
  BY <1>4 DEF Persist, Failure, Fail, FailRollout, FailPersist,
              ObserveUnresolved, Finalize
<1> QED  BY <1>1, <1>2, <1>3, <1>4 DEF Reconcile

-----------------------------------------------------------------------------
(* The steps of a definition itself *)

LEMMA CopyTypes ==
  ASSUME IInv, NEW d \in Defs
  PROVE  /\ loc[d].status \in Status
         /\ pc[d] # "idle" => loc[d].spec \in Versions
<1>1. loc[d] \in Locals
  BY DEF IInv, TypeOK
<1>2. loc[d].status \in Status
  BY <1>1 DEF Locals
<1>3. pc[d] # "idle" => loc[d].spec \in Versions
  BY DEF IInv, Named
<1>4. QED
  BY <1>2, <1>3

LEMMA NothingHeld == NoLocals.status.ver = NoVersion /\ ~NoLocals.deleted
  BY DEF NoLocals, NoStatus

LEMMA ObserveSteady ==
  ASSUME IInv, NEW d \in Defs, Steady(d), Observe(d)
  PROVE  Steady(d)'
<1> USE NothingHeld DEF Running, Deleting, Migrating, Goto
<1>0. pc \in [Defs -> Stages] /\ loc \in [Defs -> Locals] /\ cd \in [Defs -> Definition]
  BY DEF IInv, TypeOK
<1>1. CASE ObserveGone(d)
  <2>1. /\ cd'[d].phase = "gone" /\ cd'[d].status = cd[d].status
        /\ UNCHANGED <<pc, loc, bundle>>
    BY <1>0, <1>1 DEF ObserveGone, Finalize, Definition
  <2> QED  BY <2>1 DEF Steady
<1>2. CASE ObserveMissing(d) \/ ObserveOutdated(d) \/ ObserveCurrent(d)
  <2>1. /\ cd' = cd /\ bundle' = bundle /\ cd[d].phase # "new"
        /\ loc'[d].status = cd[d].status
        /\ loc'[d].deleted => cd[d].phase = "terminating"
        /\ pc'[d] \in {"readCRD", "listVersion", "observeBundle"}
        /\ pc'[d] = "listVersion" => cd[d].phase = "terminating"
    <3>1. PICK op, s :
            /\ Begin(d, op, s) /\ cd' = cd /\ bundle' = bundle /\ cd[d].phase # "new"
            /\ s \in {"readCRD", "listVersion", "observeBundle"}
            /\ s = "listVersion" => cd[d].phase = "terminating"
      BY <1>2 DEF ObserveMissing, ObserveOutdated, ObserveCurrent, BeginRepair, Present
    <3>2. pc'[d] = s
      BY <1>0, <3>1 DEF Begin
    <3>3. /\ loc'[d].status = cd[d].status
          /\ loc'[d].deleted <=> cd[d].phase = "terminating"
      BY <1>0, <3>1 DEF Begin, NoLocals
    <3> QED  BY <3>1, <3>2, <3>3
  <2> QED  BY <2>1 DEF Steady
<1>3. CASE ObserveBundle(d)
  <2> DEFINE st == IF UpToDate(d)
                     THEN Refreshed(loc[d].status, loc[d].seen, Target(d))
                     ELSE loc[d].status
  <2>1. /\ cd' = cd /\ bundle' = bundle /\ cd[d].phase # "new"
        /\ pc[d] = "observeBundle"
    BY <1>3 DEF ObserveBundle, Steady
  <2>2. /\ pc'[d] \in {"listVersion", "readCRD", "persist", "idle"}
        /\ pc'[d] = "listVersion" => loc[d].deleted
    BY <1>0, <1>3 DEF ObserveBundle
  <2>3. \/ loc'[d] = NoLocals
        \/ loc'[d].status = st /\ (loc'[d].deleted => loc[d].deleted)
    BY <1>0, <1>3 DEF ObserveBundle, Locals
  <2>4. UpToDate(d) => Running(d)
    BY <2>1, CopyTypes DEF UpToDate, Target
  <2>5. ~UpToDate(d) => st = loc[d].status
    OBVIOUS
  <2>6. cd[d].phase = "live" /\ loc'[d].status.ver # NoVersion => Running(d)
    <3>1. CASE UpToDate(d)
      BY <2>4, <3>1
    <3>2. CASE ~UpToDate(d)
      BY <2>3, <2>5, <3>2 DEF Steady
    <3> QED  BY <3>1, <3>2
  <2>7. loc'[d].deleted => loc[d].deleted
    BY <2>3
  <2> HIDE DEF st
  <2> QED  BY <2>1, <2>2, <2>6, <2>7 DEF Steady
<1>4. CASE LookupFails(d)
  <2>1. /\ cd' = cd /\ bundle' = bundle /\ cd[d].phase # "new"
        /\ loc'[d] = NoLocals /\ pc'[d] = "idle"
    BY <1>0, <1>4 DEF LookupFails, Steady
  <2> QED  BY <2>1 DEF Steady
<1> QED  BY <1>1, <1>2, <1>3, <1>4 DEF Observe

\* Before and beside the bundle; what is read of the CRD is no part of Steady.
LEMMA PlainSteady ==
  ASSUME IInv, NEW d \in Defs, Steady(d),
         \/ ReadCRD(d) \/ ApplyCRD(d) \/ ApplyCRDRefused(d) \/ ReadForCA(d)
         \/ ApplyCA(d) \/ ListOld(d) \/ (\E c \in Comps : Relabel(d, c))
         \/ ListVersion(d) \/ WaitGone(d) \/ ListKind(d) \/ UninstallCRD(d)
  PROVE  Steady(d)'
<1>1. pc \in [Defs -> Stages] /\ loc \in [Defs -> Locals] /\ loc[d] \in Locals
  BY DEF IInv, TypeOK
<1>2. /\ cd' = cd /\ bundle' = bundle /\ pc[d] # "idle"
      /\ loc'[d].status = loc[d].status /\ (loc'[d].deleted => loc[d].deleted)
  BY <1>1 DEF ReadCRD, ApplyCRD, ApplyCRDRefused, ReadForCA, ApplyCA, ListOld,
              Relabel, ListVersion, WaitGone, ListKind, UninstallCRD, Locals
<1>3. CASE ListOld(d) \/ \E c \in Comps : Relabel(d, c)
  <2>1. pc'[d] \in {"relabel", "persist"} /\ pc[d] \in Migrating
    BY <1>1, <1>3 DEF ListOld, Relabel, Goto, Migrating
  <2> QED  BY <1>2, <2>1 DEF Steady, Running, Deleting, Migrating
<1>4. CASE ListVersion(d) \/ WaitGone(d) \/ ListKind(d) \/ UninstallCRD(d)
  <2>1. pc'[d] \in Deleting \cup {"persist"} /\ pc[d] \in Deleting
    BY <1>1, <1>4 DEF ListVersion, WaitGone, ListKind, UninstallCRD, Goto, Deleting
  <2> QED  BY <1>2, <2>1 DEF Steady, Running, Deleting, Migrating
<1>5. CASE ReadCRD(d) \/ ApplyCRD(d) \/ ApplyCRDRefused(d) \/ ReadForCA(d) \/ ApplyCA(d)
  <2>1. pc'[d] \in {"applyCRD", "readForCA", "applyCA", "deploy", "persist"}
    BY <1>1, <1>5 DEF ReadCRD, ApplyCRD, ApplyCRDRefused, ReadForCA, ApplyCA, Goto
  <2> QED  BY <1>2, <2>1 DEF Steady, Running, Deleting, Migrating
<1> QED  BY <1>3, <1>4, <1>5

\* Deploy, and what follows it in Update and Delete.
LEMMA BundleSteady ==
  ASSUME IInv, NEW d \in Defs, Steady(d),
         Deploy(d) \/ UndeployOld(d) \/ FinishUpdate(d) \/ Undeploy(d) \/ FailRollout(d)
  PROVE  Steady(d)'
<1>1. /\ pc \in [Defs -> Stages] /\ loc \in [Defs -> Locals] /\ loc[d] \in Locals
      /\ bundle \in [Namespaces -> [Versions -> BundleStates]]
      /\ NsOf[d] \in Namespaces /\ loc[d].status \in Status
      /\ cd' = cd /\ pc[d] # "idle" /\ loc[d].spec \in Versions
  BY NsOfAssumption, CopyTypes
  DEF IInv, TypeOK, Deploy, Deployed, UndeployOld, FinishUpdate, Undeploy,
      Undeployed, FailRollout
<1>2. CASE Deploy(d)
  <2>1. bundle'[NsOf[d]][loc[d].spec] = "full"
    BY <1>1, <1>2 DEF Deploy, SetBundle, Target
  <2>2. pc'[d] \in {"persist", "undeployOld", "listOld"}
    BY <1>1, <1>2 DEF Deploy, Deployed, Goto
  <2>3. /\ loc'[d].spec = loc[d].spec /\ (loc'[d].deleted => loc[d].deleted)
    BY <1>1, <1>2 DEF Deploy, Deployed, Locals
  <2>4. pc'[d] # "persist"
          => /\ loc[d].status.ver \notin {NoVersion, loc[d].spec}
             /\ loc'[d].status.ver = loc[d].status.ver
    BY <1>1, <1>2 DEF Deploy, Deployed, Goto, Locals, Status
  <2>5. Running(d)'
    BY <1>1, <2>1 DEF Running
  <2> QED  BY <1>1, <2>1, <2>2, <2>3, <2>4, <2>5 DEF Steady, Deleting, Migrating
<1>3. CASE UndeployOld(d)
  <2>1. /\ pc[d] = "undeployOld" /\ pc'[d] \in {"listOld", "idle"}
        /\ \/ pc'[d] = "listOld" /\ loc' = loc
           \/ pc'[d] = "idle" /\ loc'[d] = NoLocals
    BY <1>1, <1>3 DEF UndeployOld, Goto
  <2>2. bundle'[NsOf[d]][loc[d].spec] = "full"
    <3>1. PICK b : SetBundle(d, loc[d].status.ver, b)
      BY <1>3 DEF UndeployOld
    <3> QED  BY <1>1, <2>1, <3>1 DEF SetBundle, Steady
  <2>3. Running(d)'
    BY <1>1, <2>2 DEF Running
  <2> QED  BY <1>1, <2>1, <2>3, NothingHeld DEF Steady, Deleting, Migrating
<1>4. CASE FinishUpdate(d)
  <2>1. /\ pc[d] = "relabel" /\ pc'[d] = "persist" /\ bundle' = bundle
        /\ (loc'[d].deleted => loc[d].deleted)
    BY <1>1, <1>4 DEF FinishUpdate, Goto, Locals
  <2> QED  BY <1>1, <2>1 DEF Steady, Running, Deleting, Migrating
<1>5. CASE Undeploy(d)
  <2>1. /\ pc[d] = "undeploy" /\ pc'[d] \in {"persist", "uninstallCRD"}
        /\ loc'[d].status = loc[d].status
    BY <1>1, <1>5 DEF Undeploy, Undeployed, Goto, Locals
  <2> QED  BY <1>1, <2>1 DEF Steady, Deleting, Migrating
<1>6. CASE FailRollout(d)
  <2>1. bundle'[NsOf[d]][loc[d].spec] = "full" /\ pc'[d] = "persist" /\ loc' = loc
    BY <1>1, <1>6 DEF FailRollout, SetBundle, Target, Goto
  <2> QED  BY <1>1, <2>1 DEF Steady, Running, Deleting, Migrating
<1> QED  BY <1>2, <1>3, <1>4, <1>5, <1>6

LEMMA EndSteady ==
  ASSUME Apart, IInv, NEW d \in Defs, Steady(d),
         Persist(d) \/ Fail(d) \/ FailPersist(d) \/ ObserveUnresolved(d)
  PROVE  Steady(d)'
<1>1. /\ pc \in [Defs -> Stages] /\ loc \in [Defs -> Locals] /\ cd \in [Defs -> Definition]
      /\ loc[d] \in Locals /\ cd[d] \in Definition
  BY DEF IInv, TypeOK
<1>2. CASE Persist(d)
  <2>1. /\ pc[d] = "persist" /\ pc'[d] = "idle" /\ loc'[d] = NoLocals
        /\ bundle' = bundle /\ cd'[d].status = loc[d].status
        /\ cd'[d].phase \in {cd[d].phase, "gone"}
    BY <1>1, <1>2 DEF Persist, Goto, Definition
  <2> QED  BY <2>1, NothingHeld DEF Steady, Running, Deleting, Migrating
<1>3. CASE Fail(d)
  <2>1. /\ cd' = cd /\ pc'[d] = "persist" /\ loc'[d].status = loc[d].status
        /\ (loc'[d].deleted => loc[d].deleted)
    BY <1>1, <1>3 DEF Fail, Goto, Locals
  <2>2. pc[d] # "idle"
    BY <1>3, FaultyAssumption DEF Fail, FaultOf, FaultKinds, Stages
  <2>3. cd[d].phase = "live" /\ Running(d) => Running(d)'
    <3>1. PICK D \in SUBSET Defs : \E K : bundle' = Halfway(D, K)
      BY <1>3 DEF Fail
    <3> QED  BY <3>1, HalfwayRuns
  <2> QED  BY <2>1, <2>2, <2>3 DEF Steady, Deleting, Migrating
<1>4. CASE FailPersist(d)
  <2>1. /\ cd' = cd /\ pc[d] = "persist" /\ pc'[d] = "idle" /\ loc'[d] = NoLocals
        /\ bundle' = bundle
    BY <1>1, <1>4 DEF FailPersist, Goto
  <2> QED  BY <2>1, NothingHeld DEF Steady, Running, Deleting, Migrating
<1>5. CASE ObserveUnresolved(d)
  <2>1. /\ cd'[d].phase = "gone" /\ cd'[d].status = cd[d].status
        /\ UNCHANGED <<pc, loc, bundle>>
    BY <1>1, <1>5 DEF ObserveUnresolved, Finalize, Definition
  <2> QED  BY <2>1 DEF Steady
<1> QED  BY <1>2, <1>3, <1>4, <1>5

-----------------------------------------------------------------------------
(* All steps *)

LEMMA InitiallySteady == Init => AllSteady
  BY DEF Init, AllSteady, Steady, NoStatus, NoLocals, Deleting, Migrating

LEMMA UserSteady ==
  ASSUME IInv, AllSteady, User
  PROVE  AllSteady'
<1>1. UNCHANGED <<bundle, pc, loc>> /\ cd \in [Defs -> Definition]
  BY DEF User, CreateDefinition, EditDefinition, DeleteDefinition,
         CreateComposition, IInv, TypeOK
<1>2. ASSUME NEW d \in Defs
      PROVE  /\ cd'[d].status = cd[d].status
             /\ \/ cd'[d].phase = cd[d].phase
                \/ cd[d].phase = "new" /\ cd'[d].phase = "live"
                \/ cd[d].phase = "live" /\ cd'[d].phase = "terminating"
  <2>1. CASE \E c \in Comps, v \in Versions : CreateComposition(c, v)
    BY <2>1 DEF CreateComposition
  <2>2. ASSUME NEW e \in Defs, NEW v \in Versions, CreateDefinition(e, v)
        PROVE  /\ cd'[d].status = cd[d].status
               /\ \/ cd'[d].phase = cd[d].phase
                  \/ cd[d].phase = "new" /\ cd'[d].phase = "live"
    BY <1>1, <2>2 DEF CreateDefinition, Definition
  <2>3. ASSUME NEW e \in Defs, NEW v \in Versions, EditDefinition(e, v)
        PROVE  cd'[d].status = cd[d].status /\ cd'[d].phase = cd[d].phase
    BY <1>1, <2>3 DEF EditDefinition, Definition
  <2>4. ASSUME NEW e \in Defs, DeleteDefinition(e)
        PROVE  /\ cd'[d].status = cd[d].status
               /\ \/ cd'[d].phase = cd[d].phase
                  \/ cd[d].phase = "live" /\ cd'[d].phase = "terminating"
    BY <1>1, <2>4 DEF DeleteDefinition, Definition
  <2> QED  BY <2>1, <2>2, <2>3, <2>4 DEF User
<1> QED  BY <1>1, <1>2 DEF AllSteady, Steady, Running

LEMMA RestartSteady ==
  ASSUME Apart, IInv, AllSteady, Restart
  PROVE  AllSteady'
<1> SUFFICES ASSUME NEW d \in Defs
             PROVE  Steady(d)'
  BY DEF AllSteady
<1>1. cd' = cd /\ pc'[d] = "idle" /\ loc'[d] = NoLocals
  BY DEF Restart
<1>2. cd[d].phase = "live" /\ Running(d) => Running(d)'
  BY HalfwayRuns DEF Restart, AllSteady
<1> QED  BY <1>1, <1>2, NothingHeld DEF AllSteady, Steady, Deleting, Migrating

LEMMA StepSteady ==
  ASSUME Apart, Untouched, IInv, AllSteady, [Next]_vars
  PROVE  AllSteady'
<1>1. ASSUME NEW d \in Defs, Reconcile(d) \/ Failure(d)
      PROVE  AllSteady'
  <2>1. Moved(d)
    BY <1>1, OnlyOneMoves DEF IInv
  <2>2. Steady(d)'
    BY <1>1, ObserveSteady, PlainSteady, BundleSteady, EndSteady
    DEF Reconcile, CreateOrUpdate, Delete, Failure, AllSteady
  <2> QED  BY <1>1, <2>1, <2>2, OwnBundles, OwnDefinition, OthersSteady
<1>2. ASSUME UNCHANGED <<cd, bundle, pc, loc>>
      PROVE  AllSteady'
  BY <1>2 DEF AllSteady, Steady, Running
<1>3. CASE SyncRead \/ SyncApply
  BY <1>2, <1>3 DEF SyncRead, SyncApply
<1>4. CASE User
  BY <1>4, UserSteady
<1>5. CASE Cluster
  <2>1. ~\E n \in Namespaces, v \in Versions : Drift(n, v)
    BY DEF Drift, Spend, IInv, TypeOK, Budget, Untouched
  <2> QED  BY <1>2, <1>5, <2>1 DEF Cluster, Adopt, Release, CRDCollected, CacheSync
<1>6. CASE Restart
  BY <1>6, RestartSteady
<1>7. CASE UNCHANGED vars
  BY <1>2, <1>7 DEF vars
<1> QED  BY <1>1, <1>3, <1>4, <1>5, <1>6, <1>7 DEF Next

\* A definition that was deployed once has a controller of some version at every
\* moment until it is deleted, in whatever order Update, failures, restarts and
\* the reconciles of other definitions come (Update deploys, then undeploys).
THEOREM ServiceWithoutGap ==
  ASSUME Apart, Untouched
  PROVE  Spec => []NoServiceGap
<1>1. Init => AllSteady
  BY InitiallySteady
<1>2. IInv /\ AllSteady /\ [Next]_vars => AllSteady'
  BY StepSteady
<1>3. AllSteady => NoServiceGap
  BY DEF AllSteady, Steady, Running, NoServiceGap
<1> QED  BY <1>1, <1>2, <1>3, InductiveInvariant, PTL DEF Spec

-----------------------------------------------------------------------------
(* A definition that is alone in its kind, from its creation to its end *)

Building == {"readCRD", "applyCRD", "readForCA", "applyCA", "deploy"}
Ending == {"terminating", "gone"}
Bare(d, v) == bundle[NsOf[d]][v] = "absent"

\* What the definition records.  While it is moved from one version to another
\* it has the bundles of these two at most, and the new digest is recorded
\* before the new version only when the old bundle is down.
Documented(d) ==
  LET st == cd[d].status
  IN /\ cd[d].phase = "new" => cd[d].spec = NoVersion /\ st = NoStatus
     /\ cd[d].phase \in Ending => cd[d].spec \in Versions /\ Settled(d)
     /\ st.ver # NoVersion => st.ver \in st.known
     /\ st.ver \notin {NoVersion, st.digest} => st.digest = cd[d].spec /\ Bare(d, st.ver)
     /\ \A v \in Versions \ {cd[d].spec, st.ver} : Bare(d, v)

\* What there is of it in the cluster.  A deployed version is one of the CRD, and
\* the cache has some CRD since the definition recorded a version; the CRD goes
\* after the bundle and the compositions.
Installed(d) ==
  LET st == cd[d].status
  IN /\ cd[d].phase \in {"new", "live"} => ~crd.terminating /\ (Exists(cache) => Exists(crd))
     /\ cd[d].phase = "terminating" /\ Exists(crd) => Exists(cache)
     /\ cd[d].phase = "gone" => ~Exists(crd)
     /\ cd[d].phase = "live" \/ (cd[d].phase = "terminating" /\ Exists(crd))
          => (st.digest = cd[d].spec => cd[d].spec \in crd.versions)
     /\ cd[d].phase = "live" /\ st.ver # NoVersion => Exists(cache)
     /\ cd[d].phase \in Ending /\ ~Exists(crd) => \A c \in Comps : ~Existing(c)
     /\ cd[d].phase \in Ending /\ (crd.terminating \/ ~Exists(crd)) => Bare(d, cd[d].spec)

\* A reconcile with locals l at stage s against the definition.  Its version is
\* the definition's unless that was settled and has been edited since.
Copied(d, l, s) ==
  LET st == cd[d].status
  IN /\ cd[d].phase \in {"new", "gone"} => s = "idle"
     /\ s \in Deleting => l.deleted
     /\ l.deleted => /\ cd[d].phase = "terminating"
                     /\ s \in Deleting \cup {"observeBundle", "persist"}
     /\ s # "idle" =>
          /\ l.spec # cd[d].spec
               => cd[d].phase = "live" /\ st.ver = l.spec /\ st.digest = l.spec
          /\ st.ver = l.spec /\ st.digest = l.spec
               => l.status.ver = l.spec /\ l.status.digest = l.spec
          /\ l.status.ver \in {st.ver, l.spec}
          /\ l.status.ver \notin {st.ver, NoVersion} /\ st.ver # NoVersion => Bare(d, st.ver)
          /\ l.status.ver # NoVersion => l.status.ver \in l.status.known
          /\ l.status.ver \notin {NoVersion, l.status.digest}
               => /\ l.status.digest = l.spec
                  /\ s # "undeployOld" => Bare(d, l.status.ver)
          /\ l.op = "create" => l.status.ver = NoVersion
     /\ s \in Building => l.op \in {"create", "update"}
     /\ s = "observeBundle" => l.op = "none"
     /\ s \in Building \cup {"observeBundle"} => l.status = st
     /\ s \in Migrating => /\ l.op = "update" /\ l.status.digest = l.spec
                           /\ l.status.ver = st.ver
                           /\ st.ver \notin {NoVersion, l.spec}
     /\ s = "uninstallCRD" => Bare(d, l.spec)

\* The same against the CRD, which is there and stays as long as the reconcile
\* is not one of a Delete, and has the version once it was read or written.
Grounded(d, l, s) ==
  /\ s # "idle" /\ ~l.deleted =>
       /\ ~crd.terminating
       /\ cd[d].phase = "terminating" => Exists(crd)
       /\ l.status.digest = l.spec => l.spec \in crd.versions
       /\ l.op # "create" \/ l.status.ver # NoVersion => Exists(cache)
       /\ s \in {"observeBundle", "readForCA", "applyCA", "deploy"} => l.spec \in crd.versions
  /\ s \in {"observeBundle", "applyCA"} => l.spec \in l.seen.versions
  /\ s = "readCRD" /\ l.spec \in cache.versions => l.spec \in crd.versions

\* No refresher holds a copy of the CRD, and one that is gone leaves nothing.
Clean == ~Exists(sync) /\ (~Exists(crd) => crd = NoCRD)

Alive(d) == /\ Documented(d) /\ Installed(d)
            /\ Copied(d, loc[d], pc[d]) /\ Grounded(d, loc[d], pc[d])
LifeInv == IInv /\ Clean /\ \A d \in Defs : Alive(d)

\* The assumptions.  Nobody else has a definition of the kind; users wait until
\* a version is deployed before they edit or delete; what fails is not one of
\* the calls after which the code goes on regardless; and the CRD is written by
\* reconciles of one release only.
Sole == \A d, e \in Defs : d = e
Deliberate == {"editSettled", "deleteSettled"} \subseteq Discipline
Noticed == /\ Faulty \cap {"discovery", "undeployOld", "relabel"} = {}
           /\ RequeueAfterDelete
OneWriter == MaxSyncs = 0 /\ MaxRelease = 0
Assumptions == Sole /\ Deliberate /\ Noticed /\ OneWriter

-----------------------------------------------------------------------------
(* The CRD as reconciles of one release see it *)

LEMMA LifeTypes ==
  ASSUME IInv, NEW d \in Defs
  PROVE  /\ pc \in [Defs -> Stages] /\ loc \in [Defs -> Locals] /\ cd \in [Defs -> Definition]
         /\ loc[d] \in Locals /\ cd[d] \in Definition /\ loc[d].status \in Status
         /\ cd[d].status \in Status /\ crd \in CRD /\ cache \in CRD
         /\ bundle \in [Namespaces -> [Versions -> BundleStates]]
         /\ comp \in [Comps -> Composition] /\ NsOf[d] \in Namespaces
         /\ pc[d] # "idle" => loc[d].spec \in Versions
         /\ Present(d) => cd[d].spec \in Versions
<1>1. TypeOK /\ Named
  BY DEF IInv
<1>2. loc[d] \in Locals /\ cd[d] \in Definition
  BY <1>1 DEF TypeOK
<1>3. loc[d].status \in Status
  BY <1>2 DEF Locals
<1>4. cd[d].status \in Status
  BY <1>2 DEF Definition
<1> QED  BY <1>1, <1>2, <1>3, <1>4, NsOfAssumption DEF TypeOK, Named

LEMMA ResolvesIff ==
  ASSUME IInv, Clean, NEW v \in Versions
  PROVE  Resolves(v) <=> v \in crd.versions
<1>1. CASE Exists(crd)
  BY <1>1, VersionsAssumption DEF IInv, SoundCRDs, Sound, WellFormed, Resolves
<1>2. CASE ~Exists(crd)
  BY <1>2 DEF Clean, NoCRD, Resolves
<1> QED  BY <1>1, <1>2

LEMMA OneStatus ==
  ASSUME OneWriter, NEW c \in CRD, NEW v, release \in Releases
  PROVE  StatusEqual(c, GenerateCRD(v, release))
<1>1. Releases = {0}
  BY DEF OneWriter, Releases
<1>2. c.status \in Releases
  BY DEF CRD
<1>3. GenerateCRD(v, release).status = release
  BY DEF GenerateCRD, NoCRD
<1> QED  BY <1>1, <1>2, <1>3 DEF StatusEqual

\* What is applied has the version it is applied for.
LEMMA AppliedVersion ==
  ASSUME OneWriter, IInv, NEW c \in CRD, NEW v \in Versions, Sound(c),
         NeedsApply(c, v, release)
  PROVE  /\ v \in ToApply(c, v, release).versions
         /\ ToApply(c, v, release) \in CRD
         /\ WellFormed(ToApply(c, v, release))
<1>1. release \in Releases
  BY DEF IInv, TypeOK
<1>2. ToApply(c, v, release) \in CRD /\ WellFormed(ToApply(c, v, release))
  BY <1>1, ToApplySound
<1>3. StatusEqual(c, GenerateCRD(v, release))
  BY <1>1, OneStatus
<1>4. CASE ~Exists(c)
  BY <1>2, <1>4 DEF ToApply, GenerateCRD, NoCRD
<1>5. CASE Exists(c)
  <2>1. v \notin c.versions
    BY <1>3, <1>5 DEF NeedsApply, GVKExists
  <2>2. WellFormed(c)
    BY <1>5 DEF Sound
  <2> DEFINE a == InjectConversion(AppendVersion(c, v))
  <2>3. a \in CRD /\ v \in a.versions
    BY <2>1, <2>2, AppendSound
  <2>4. ToApply(c, v, release) = SetServedStorage(a, v, TRUE, FALSE)
    BY <1>3, <1>5 DEF ToApply
  <2>5. SetServedStorage(a, v, TRUE, FALSE).versions = a.versions
    BY <2>3 DEF SetServedStorage, CRD
  <2> QED  BY <1>2, <2>3, <2>4, <2>5
<1> QED  BY <1>4, <1>5

LEMMA Written ==
  ASSUME IInv, NEW obj \in CRD, WellFormed(obj), WriteCRD(obj)
  PROVE  /\ crd'.versions = obj.versions
         /\ crd'.terminating => Exists(crd) /\ crd.terminating
<1>1. TypeOK /\ crd \in CRD
  BY DEF IInv, TypeOK
<1>2. crd'.versions = obj.versions
  BY <1>1, WriteSound
<1>3. crd'.terminating => Exists(crd) /\ crd.terminating
  BY DEF WriteCRD, ServerApply, CRD
<1> QED  BY <1>2, <1>3

-----------------------------------------------------------------------------
(* One reconcile *)

\* l differs from k in what it has read, listed and found at most.
Same(l, k) == l.op = k.op /\ l.spec = k.spec /\ l.deleted = k.deleted /\ l.status = k.status

LEMMA CopiedStays ==
  ASSUME NEW d, NEW l, NEW s, Copied(d, l, s), loc'[d] = l, pc'[d] = s, UNCHANGED <<cd, bundle>>
  PROVE  Copied(d, loc[d], pc[d])'
  BY DEF Copied, Bare

LEMMA NothingCopied ==
  ASSUME NEW d \in Defs
  PROVE  Copied(d, NoLocals, "idle") /\ Grounded(d, NoLocals, "idle")
  BY DEF Copied, Grounded, NoLocals, Deleting, Building, Migrating

\* A reconcile goes on to the next of its stages, or ends early.
LEMMA GoesOn ==
  ASSUME NEW d \in Defs, NEW l, NEW k, NEW s, NEW t, Same(l, k), Copied(d, k, s),
         \/ s \in Building /\ t \in Building \cup {"persist"}
         \/ s \in Deleting /\ t \in (Deleting \ {"uninstallCRD"}) \cup {"persist"}
         \/ s \in {"listOld", "relabel"} /\ t \in {"listOld", "relabel", "persist"}
  PROVE  Copied(d, l, t)
<1> USE DEF Same, Copied, Building, Deleting, Migrating
<1>1. CASE s \in Building
  BY <1>1
<1>2. CASE s \in Deleting
  BY <1>2
<1>3. CASE s \in {"listOld", "relabel"}
  BY <1>3
<1> QED  BY <1>1, <1>2, <1>3

\* Steps of a reconcile that change nothing but its own state.
LEMMA OwnStep ==
  ASSUME Sole, LifeInv, NEW d \in Defs, NEW l, NEW s,
         loc' = [loc EXCEPT ![d] = l], pc' = [pc EXCEPT ![d] = s],
         UNCHANGED <<cd, crd, cache, bundle, comp, sync>>,
         Copied(d, l, s), Grounded(d, l, s)
  PROVE  Clean' /\ \A e \in Defs : Alive(e)'
<1>1. pc'[d] = s /\ loc'[d] = l
  BY LifeTypes DEF LifeInv
<1>2. Clean'
  BY DEF LifeInv, Clean, Exists
<1>3. Documented(d)' /\ Installed(d)'
  BY DEF LifeInv, Alive, Documented, Installed, Settled, Bare, Existing, Exists
<1>4. Copied(d, loc[d], pc[d])'
  BY <1>1 DEF Copied, Bare
<1>5. Grounded(d, loc[d], pc[d])'
  BY <1>1 DEF Grounded, Exists
<1> QED  BY <1>2, <1>3, <1>4, <1>5 DEF Sole, Alive

LEMMA BeginAlive ==
  ASSUME Sole, LifeInv, NEW d \in Defs,
         ObserveMissing(d) \/ ObserveOutdated(d) \/ ObserveCurrent(d), OneWriter
  PROVE  Clean' /\ \A e \in Defs : Alive(e)'
<1>1. IInv /\ Clean /\ Documented(d) /\ Installed(d)
  BY DEF LifeInv, Alive
<1>2. cd[d].spec \in Versions /\ Present(d) /\ cd[d].phase \in {"live", "terminating"}
  BY <1>1, LifeTypes DEF ObserveMissing, ObserveOutdated, ObserveCurrent, Present
<1>3. PICK op, s :
        /\ Begin(d, op, s)
        /\ UNCHANGED <<cd, crd, cache, bundle, comp, sync>>
        /\ \/ op = "create" /\ s = "readCRD" /\ cd[d].phase = "live" /\ ~Exists(cache)
           \/ op = "update" /\ s = "readCRD" /\ cd[d].phase = "live" /\ Exists(cache)
                /\ cd[d].spec \notin cache.versions
           \/ op = "delete" /\ s = "listVersion" /\ cd[d].phase = "terminating"
           \/ /\ op = "none" /\ s = "observeBundle" /\ cd[d].spec \in cache.versions
              /\ cd[d].spec \in crd.versions
  <2>1. CASE ObserveMissing(d)
    BY <2>1 DEF ObserveMissing
  <2>2. CASE ObserveOutdated(d)
    <3>1. cd[d].spec \notin cache.versions
      BY <1>1, <2>2, OneStatus, LifeTypes DEF ObserveOutdated, Lookup, IInv, TypeOK
    <3> QED  BY <1>2, <2>2, <3>1 DEF ObserveOutdated, BeginRepair
  <2>3. CASE ObserveCurrent(d)
    BY <1>1, <1>2, <2>3, ResolvesIff DEF ObserveCurrent, Lookup
  <2> QED  BY <2>1, <2>2, <2>3
<1> DEFINE l == [NoLocals EXCEPT !.op = op, !.spec = cd[d].spec,
                                 !.deleted = (cd[d].phase = "terminating"),
                                 !.status = cd[d].status,
                                 !.seen = IF op = "none" THEN cache ELSE NoCRD]
<1>4. loc' = [loc EXCEPT ![d] = l] /\ pc' = [pc EXCEPT ![d] = s]
  BY <1>3 DEF Begin, Goto
<1>5. /\ l.op = op /\ l.spec = cd[d].spec /\ l.status = cd[d].status
      /\ (l.deleted <=> cd[d].phase = "terminating")
      /\ op = "none" => l.seen = cache
  BY DEF NoLocals
<1> HIDE DEF l
<1>6. cd[d].status.ver # NoVersion => Exists(cache) \/ cd[d].phase = "terminating"
  BY <1>1, <1>2 DEF Installed
<1>7. Copied(d, l, s)
  BY <1>1, <1>2, <1>3, <1>5, <1>6
  DEF Copied, Documented, Deleting, Building, Migrating
<1>8. Grounded(d, l, s)
  BY <1>1, <1>2, <1>3, <1>5, <1>6 DEF Grounded, Installed, Exists
<1> QED  BY <1>3, <1>4, <1>7, <1>8, OwnStep

LEMMA LookupFailsAlive ==
  ASSUME Sole, LifeInv, NEW d \in Defs, LookupFails(d)
  PROVE  Clean' /\ \A e \in Defs : Alive(e)'
<1>1. /\ loc' = [loc EXCEPT ![d] = NoLocals] /\ pc' = [pc EXCEPT ![d] = "idle"]
      /\ UNCHANGED <<cd, crd, cache, bundle, comp, sync>>
  BY DEF LookupFails, Goto
<1> QED  BY <1>1, NothingCopied, OwnStep

LEMMA ObserveBundleAlive ==
  ASSUME Sole, LifeInv, NEW d \in Defs, ObserveBundle(d)
  PROVE  Clean' /\ \A e \in Defs : Alive(e)'
<1>1. /\ IInv /\ Clean /\ Documented(d) /\ Installed(d) /\ pc[d] = "observeBundle"
      /\ Copied(d, loc[d], "observeBundle") /\ Grounded(d, loc[d], "observeBundle")
      /\ UNCHANGED <<cd, crd, cache, bundle, comp, sync>>
  BY DEF LifeInv, Alive, ObserveBundle
<1> DEFINE k == loc[d]
           st == IF UpToDate(d) THEN Refreshed(k.status, k.seen, Target(d)) ELSE k.status
           op == IF k.deleted THEN "delete" ELSE IF UpToDate(d) THEN "none" ELSE "update"
           ends == op = "none" /\ st = cd[d].status
           l == IF ends THEN NoLocals
                ELSE [k EXCEPT !.status = st, !.op = op, !.seen = NoCRD]
           s == IF op = "delete" THEN "listVersion" ELSE IF op = "update" THEN "readCRD"
                ELSE IF ends THEN "idle" ELSE "persist"
<1>2. loc' = [loc EXCEPT ![d] = l] /\ pc' = [pc EXCEPT ![d] = s]
  BY <1>1, LifeTypes DEF ObserveBundle, Goto
<1>3. k \in Locals /\ k.status \in Status /\ k.spec \in Versions /\ k.status = cd[d].status
  BY <1>1, LifeTypes DEF Copied
<1>4. /\ st.digest = k.status.digest
      /\ UpToDate(d) => st.ver = k.spec /\ st.digest = k.spec /\ k.spec \in st.known
      /\ ~UpToDate(d) => st = k.status
  BY <1>1, <1>3 DEF Refreshed, Status, UpToDate, Target, Grounded
<1>5. CASE ends
  <2>1. l = NoLocals /\ s = "idle"
    BY <1>5
  <2> HIDE DEF l, s
  <2> QED  BY <1>1, <1>2, <2>1, NothingCopied, OwnStep
<1>6. CASE ~ends
  <2>1. l.spec = k.spec /\ l.deleted = k.deleted /\ l.op = op /\ l.status = st
    BY <1>3, <1>6 DEF Locals
  <2>2. \/ s = "listVersion" /\ k.deleted /\ op = "delete"
        \/ s = "readCRD" /\ ~k.deleted /\ op = "update" /\ ~UpToDate(d)
        \/ s = "persist" /\ ~k.deleted /\ op = "none" /\ UpToDate(d)
    BY <1>6
  <2> HIDE DEF l, s, op, st
  <2>3. Copied(d, l, s)
    <3>1. k.status.ver \notin {NoVersion, k.status.digest} => Bare(d, k.status.ver)
      BY <1>1, <1>3 DEF Documented
    <3> QED  BY <1>1, <1>3, <1>4, <2>1, <2>2, <3>1 DEF Copied, Deleting, Building, Migrating
  <2>4. Grounded(d, l, s)
    BY <1>1, <1>3, <1>4, <2>1, <2>2 DEF Grounded, Copied
  <2> QED  BY <1>1, <1>2, <2>3, <2>4, OwnStep
<1> QED  BY <1>5, <1>6

\* Reading and listing.
LEMMA ReadingAlive ==
  ASSUME Sole, LifeInv, NEW d \in Defs, OneWriter,
         \/ ReadCRD(d) \/ ApplyCRDRefused(d) \/ ReadForCA(d) \/ ListOld(d)
         \/ WaitGone(d) \/ ListKind(d)
  PROVE  Clean' /\ \A e \in Defs : Alive(e)'
<1> USE DEF Goto
<1>1. /\ IInv /\ Clean /\ Documented(d) /\ Installed(d)
      /\ Copied(d, loc[d], pc[d]) /\ Grounded(d, loc[d], pc[d])
      /\ UNCHANGED <<cd, crd, cache, bundle, comp, sync>>
  BY DEF LifeInv, Alive, ReadCRD, ApplyCRDRefused, ReadForCA, ListOld, WaitGone, ListKind
<1>2. /\ loc \in [Defs -> Locals] /\ loc[d] \in Locals /\ cache \in CRD
      /\ pc[d] # "idle" => loc[d].spec \in Versions
  BY <1>1, LifeTypes
<1>3. ASSUME NEW l, NEW s, loc' = [loc EXCEPT ![d] = l], pc' = [pc EXCEPT ![d] = s],
             Same(l, loc[d]), Grounded(d, l, s),
             \/ pc[d] \in Building /\ s \in Building \cup {"persist"}
             \/ pc[d] \in Deleting /\ s \in (Deleting \ {"uninstallCRD"}) \cup {"persist"}
             \/ pc[d] = "listOld" /\ s \in {"relabel", "persist"}
      PROVE  Clean' /\ \A e \in Defs : Alive(e)'
  <2>1. Copied(d, l, s)
    BY <1>1, <1>3, GoesOn
  <2> QED  BY <1>1, <1>3, <2>1, OwnStep
<1>4. CASE ReadCRD(d)
  <2> DEFINE l == [loc[d] EXCEPT !.seen = cache]
             s == IF NeedsApply(cache, Target(d), release) THEN "applyCRD" ELSE "readForCA"
  <2>1. loc' = [loc EXCEPT ![d] = l] /\ pc' = [pc EXCEPT ![d] = s] /\ pc[d] = "readCRD"
    BY <1>2, <1>4 DEF ReadCRD
  <2>2. Same(l, loc[d])
    BY <1>2 DEF Same, Locals
  <2>3. s \in {"applyCRD", "readForCA"} /\ (s = "readForCA" => loc[d].spec \in cache.versions)
    BY DEF NeedsApply, GVKExists, Target
  <2> HIDE DEF l, s
  <2>4. Grounded(d, l, s)
    BY <1>1, <2>1, <2>2, <2>3 DEF Grounded, Same
  <2> QED  BY <1>3, <2>1, <2>2, <2>3, <2>4 DEF Building
<1>5. CASE ApplyCRDRefused(d)
  <2> DEFINE l == [loc[d] EXCEPT !.seen = NoCRD]
  <2>1. loc' = [loc EXCEPT ![d] = l] /\ pc' = [pc EXCEPT ![d] = "persist"] /\ pc[d] = "applyCRD"
    BY <1>2, <1>5 DEF ApplyCRDRefused
  <2>2. Same(l, loc[d])
    BY <1>2 DEF Same, Locals
  <2> HIDE DEF l
  <2>3. Grounded(d, l, "persist")
    BY <1>1, <2>1, <2>2 DEF Grounded, Same
  <2> QED  BY <1>3, <2>1, <2>2, <2>3 DEF Building
<1>6. CASE ReadForCA(d)
  <2> DEFINE l == [loc[d] EXCEPT !.seen = crd]
             s == IF Exists(crd) THEN "applyCA" ELSE "persist"
  <2>1. loc' = [loc EXCEPT ![d] = l] /\ pc' = [pc EXCEPT ![d] = s] /\ pc[d] = "readForCA"
    BY <1>2, <1>6 DEF ReadForCA
  <2>2. Same(l, loc[d]) /\ l.seen = crd
    BY <1>2 DEF Same, Locals
  <2>3. s \in {"applyCA", "persist"}
    OBVIOUS
  <2> HIDE DEF l, s
  <2>4. Grounded(d, l, s)
    BY <1>1, <2>1, <2>2, <2>3 DEF Grounded, Same, Copied, Building, Deleting
  <2> QED  BY <1>3, <2>1, <2>2, <2>3, <2>4 DEF Building
<1>7. CASE ListOld(d)
  <2>1. PICK s, l :
          /\ s \in {"relabel", "persist"}
          /\ pc[d] = "listOld" /\ pc' = [pc EXCEPT ![d] = s]
          /\ loc' = [loc EXCEPT ![d] = l] /\ Same(l, loc[d])
    <3>1. loc = [loc EXCEPT ![d] = loc[d]] /\ Same(loc[d], loc[d])
      BY <1>2 DEF Same
    <3>2. Same([loc[d] EXCEPT !.todo = OldCompositions(d)], loc[d])
      BY <1>2 DEF Same, Locals
    <3> QED  BY <1>2, <1>7, <3>1, <3>2 DEF ListOld
  <2>2. Grounded(d, l, s)
    BY <1>1, <2>1 DEF Grounded, Same
  <2> QED  BY <1>3, <2>1, <2>2
<1>8. CASE WaitGone(d)
  <2>1. PICK l : l = loc[d]
    OBVIOUS
  <2>2. PICK s \in {"listKind", "persist"} : pc' = [pc EXCEPT ![d] = s]
    BY <1>8 DEF WaitGone
  <2>3. loc' = [loc EXCEPT ![d] = l] /\ Same(l, loc[d]) /\ pc[d] \in Deleting
    BY <1>2, <1>8, <2>1 DEF WaitGone, Same, Deleting
  <2>4. Grounded(d, l, s)
    BY <1>1, <2>2, <2>3 DEF Grounded, Same, Deleting
  <2> QED  BY <1>3, <2>2, <2>3, <2>4 DEF Deleting
<1>9. CASE ListKind(d)
  <2> DEFINE l == [loc[d] EXCEPT !.skipCRD = Siblings(d)]
  <2>1. /\ pc[d] = "listKind" /\ pc' = [pc EXCEPT ![d] = "undeploy"]
        /\ loc' = [loc EXCEPT ![d] = l]
    BY <1>2, <1>9 DEF ListKind
  <2>2. Same(l, loc[d])
    BY <1>2 DEF Same, Locals
  <2> HIDE DEF l
  <2>3. Grounded(d, l, "undeploy")
    BY <1>1, <2>1, <2>2 DEF Grounded, Same
  <2> QED  BY <1>3, <2>1, <2>2, <2>3 DEF Deleting
<1> QED  BY <1>4, <1>5, <1>6, <1>7, <1>8, <1>9

\* A write of the CRD that has the reconcile's version.
LEMMA WriteAlive ==
  ASSUME Sole, LifeInv, NEW d \in Defs, NEW obj \in CRD, WellFormed(obj), WriteCRD(obj),
         loc[d].spec \in obj.versions, pc[d] \in {"applyCRD", "applyCA"},
         NEW l, NEW s \in {"readForCA", "deploy", "persist"}, Same(l, loc[d]),
         loc' = [loc EXCEPT ![d] = l], pc' = [pc EXCEPT ![d] = s],
         UNCHANGED <<cd, cache, bundle, comp, sync>>
  PROVE  Clean' /\ \A e \in Defs : Alive(e)'
<1>1. /\ IInv /\ Clean /\ Documented(d) /\ Installed(d)
      /\ Copied(d, loc[d], pc[d]) /\ Grounded(d, loc[d], pc[d])
      /\ pc'[d] = s /\ loc'[d] = l /\ cd[d].phase \in Phases
  BY LifeTypes DEF LifeInv, Alive, Definition
<1>2. /\ crd'.versions = obj.versions
      /\ crd'.terminating => crd.terminating
  BY <1>1, Written
<1>3. ~loc[d].deleted /\ cd[d].phase \in {"live", "terminating"}
  BY <1>1 DEF Copied, Deleting, Phases
<1>4. ~crd'.terminating /\ Exists(crd') /\ loc[d].spec \in crd'.versions
      /\ (cd[d].phase = "terminating" => Exists(crd))
  BY <1>1, <1>2, <1>3 DEF Grounded, Exists
<1>5. Clean'
  BY <1>1, <1>4 DEF Clean, Exists
<1>6. Documented(d)'
  BY <1>1 DEF Documented, Settled, Bare
<1>7. Installed(d)'
  <2>1. cd[d].status.digest = cd[d].spec => cd[d].spec \in crd'.versions
    BY <1>1, <1>2, <1>4 DEF Copied
  <2>2. UNCHANGED <<cd, cache>> /\ cd[d].phase # "gone"
    BY <1>3
  <2>3. cd[d].phase = "terminating" => Exists(cache)
    BY <1>1, <1>4 DEF Installed
  <2> QED  BY <1>1, <1>3, <1>4, <2>1, <2>2, <2>3 DEF Installed, Exists, Ending
<1>8. Copied(d, loc[d], pc[d])'
  <2>1. Copied(d, l, s)
    BY <1>1, GoesOn DEF Building
  <2> QED  BY <1>1, <2>1, CopiedStays
<1>9. Grounded(d, loc[d], pc[d])'
  BY <1>1, <1>3, <1>4 DEF Grounded, Same, Exists
<1> QED  BY <1>5, <1>6, <1>7, <1>8, <1>9 DEF Sole, Alive

LEMMA ApplyAlive ==
  ASSUME Sole, OneWriter, LifeInv, NEW d \in Defs, ApplyCRD(d) \/ ApplyCA(d)
  PROVE  Clean' /\ \A e \in Defs : Alive(e)'
<1> USE DEF Goto
<1> DEFINE k == loc[d]
           l == [k EXCEPT !.seen = NoCRD]
<1>1. /\ IInv /\ Clean /\ Copied(d, k, pc[d]) /\ Grounded(d, k, pc[d])
      /\ UNCHANGED <<cd, cache, bundle, comp, sync>> /\ pc[d] \in {"applyCRD", "applyCA"}
  BY DEF LifeInv, Alive, ApplyCRD, ApplyCA
<1>2. /\ loc \in [Defs -> Locals] /\ k \in Locals /\ k.spec \in Versions
      /\ Sound(k.seen) /\ k.seen \in CRD /\ Target(d) = k.spec
  BY <1>1, LocalsOf, LifeTypes
<1>3. Same(l, k) /\ loc' = [loc EXCEPT ![d] = l]
  <2>1. Same(l, k)
    BY <1>2 DEF Same, Locals
  <2> QED  BY <1>2, <2>1 DEF ApplyCRD, ApplyCA
<1> HIDE DEF l
<1>4. CASE ApplyCRD(d)
  <2> DEFINE obj == ToApply(k.seen, k.spec, release)
  <2>1. NeedsApply(k.seen, k.spec, release)
    BY <1>1, <1>4 DEF IInv, Pending, ApplyCRD
  <2>2. obj \in CRD /\ WellFormed(obj) /\ k.spec \in obj.versions
    BY <1>1, <1>2, <2>1, AppliedVersion
  <2>3. WriteCRD(obj) /\ \E s \in {"readForCA", "persist"} : pc' = [pc EXCEPT ![d] = s]
    BY <1>2, <1>4 DEF ApplyCRD
  <2> HIDE DEF obj
  <2> QED  BY <1>1, <1>3, <2>2, <2>3, WriteAlive
<1>5. CASE ApplyCA(d)
  <2>1. PICK s \in {"deploy", "readForCA"} : pc' = [pc EXCEPT ![d] = s]
    BY <1>5 DEF ApplyCA
  <2>2. pc[d] = "applyCA" /\ k.spec \in k.seen.versions
    BY <1>1, <1>5 DEF ApplyCA, Grounded
  <2>3. CASE crd' = crd
    <3>1. Copied(d, l, s)
      BY <1>1, <1>3, <2>1, <2>2, GoesOn DEF Building
    <3>2. Grounded(d, l, s)
      BY <1>1, <1>3, <2>2 DEF Grounded, Same
    <3> QED  BY <1>1, <1>3, <2>1, <2>3, <3>1, <3>2, OwnStep
  <2>4. CASE crd' # crd
    <3>1. WriteCRD(k.seen)
      BY <1>5, <2>4 DEF ApplyCA
    <3>2. WellFormed(k.seen)
      BY <1>2, <2>2 DEF Sound, Exists
    <3> QED  BY <1>1, <1>2, <1>3, <2>1, <2>2, <3>1, <3>2, WriteAlive
  <2> QED  BY <2>3, <2>4
<1> QED  BY <1>4, <1>5

\* The bundle of the reconcile's version is written, in whole or in part.
LEMMA DeployAlive ==
  ASSUME Sole, LifeInv, NEW d \in Defs, pc[d] = "deploy",
         \A v \in Versions \ {loc[d].spec} : bundle'[NsOf[d]][v] = bundle[NsOf[d]][v],
         UNCHANGED <<cd, crd, cache, comp, sync>>,
         NEW l, NEW s, pc' = [pc EXCEPT ![d] = s], loc' = [loc EXCEPT ![d] = l],
         Copied(d, l, s)', Grounded(d, l, s)
  PROVE  Clean' /\ \A e \in Defs : Alive(e)'
<1>1. /\ IInv /\ Clean /\ Documented(d) /\ Installed(d)
      /\ Copied(d, loc[d], "deploy") /\ Grounded(d, loc[d], "deploy")
      /\ pc'[d] = s /\ loc'[d] = l
  BY LifeTypes DEF LifeInv, Alive
<1>2. Clean'
  BY <1>1 DEF Clean, Exists
<1>3. ~loc[d].deleted
  BY <1>1 DEF Copied, Deleting
<1>4. Documented(d)'
  <2>1. cd[d].status \in Status
    BY <1>1, LifeTypes
  <2>2. cd[d].status.ver \notin {NoVersion, cd[d].status.digest}
          => cd[d].status.ver \in Versions \ {loc[d].spec}
    BY <1>1, <2>1 DEF Documented, Copied, Status
  <2> QED  BY <1>1, <2>2 DEF Documented, Copied, Settled, Bare
<1>5. Installed(d)'
  <2>1. ~(cd[d].phase \in Ending /\ (crd.terminating \/ ~Exists(crd)))
    BY <1>1, <1>3 DEF Grounded, Copied, Ending
  <2> QED  BY <1>1, <2>1 DEF Installed, Exists, Existing
<1>6. Copied(d, loc[d], pc[d])'
  BY <1>1 DEF Copied, Bare
<1>7. Grounded(d, loc[d], pc[d])'
  BY <1>1 DEF Grounded, Exists
<1> QED  BY <1>2, <1>4, <1>5, <1>6, <1>7 DEF Sole, Alive

\* Steps that leave every bundle absent that was, and change the reconcile.
LEMMA LessStep ==
  ASSUME Sole, LifeInv, NEW d \in Defs, pc[d] # "idle", NEW l, NEW s,
         loc' = [loc EXCEPT ![d] = l], pc' = [pc EXCEPT ![d] = s],
         UNCHANGED <<cd, crd, cache, sync>>,
         \A c \in Comps : Existing(c)' => Existing(c),
         \A v \in Versions : Bare(d, v) => Bare(d, v)',
         Copied(d, l, s)', Grounded(d, l, s)
  PROVE  Clean' /\ \A e \in Defs : Alive(e)'
<1>1. /\ pc'[d] = s /\ loc'[d] = l /\ cd[d].status \in Status
      /\ cd[d].phase \in Ending => cd[d].spec \in Versions
  BY LifeTypes DEF LifeInv, Alive, Copied, Present, Ending
<1>2. Documented(d) /\ Installed(d) /\ Clean
  BY DEF LifeInv, Alive
<1>3. Clean'
  BY <1>2 DEF Clean, Exists
<1>4. Documented(d)'
  <2>1. cd[d].status.ver # NoVersion => cd[d].status.ver \in Versions
    BY <1>1 DEF Status
  <2> QED  BY <1>2, <2>1 DEF Documented, Settled, Bare
<1>5. Installed(d)'
  BY <1>1, <1>2 DEF Installed, Exists, Ending
<1>6. Copied(d, loc[d], pc[d])'
  BY <1>1 DEF Copied, Bare
<1>7. Grounded(d, loc[d], pc[d])'
  BY <1>1 DEF Grounded, Exists
<1> QED  BY <1>3, <1>4, <1>5, <1>6, <1>7 DEF Sole, Alive

LEMMA DeployedAlive ==
  ASSUME Sole, LifeInv, NEW d \in Defs, Deploy(d)
  PROVE  Clean' /\ \A e \in Defs : Alive(e)'
<1> DEFINE k == loc[d]
           old == k.status.ver
           moved == k.op = "update" /\ old \notin {NoVersion, k.spec}
<1>1. /\ IInv /\ Documented(d) /\ Copied(d, k, "deploy") /\ Grounded(d, k, "deploy")
      /\ UNCHANGED <<cd, crd, cache, comp, sync>> /\ pc[d] = "deploy"
  BY DEF LifeInv, Alive, Deploy, Deployed
<1>2. /\ loc \in [Defs -> Locals] /\ k \in Locals /\ k.status \in Status /\ k.spec \in Versions
      /\ bundle \in [Namespaces -> [Versions -> BundleStates]] /\ NsOf[d] \in Namespaces
      /\ k.spec # NoVersion
  BY <1>1, LifeTypes, NoVersionAssumption DEF AllVersions
<1>3. \A v \in Versions \ {k.spec} : bundle'[NsOf[d]][v] = bundle[NsOf[d]][v]
  BY <1>2 DEF Deploy, SetBundle, Target
<1>4. ~k.deleted /\ k.op \in {"create", "update"} /\ k.status = cd[d].status
      /\ (k.op = "create" => old = NoVersion)
  BY <1>1 DEF Copied, Building, Deleting
<1>5. PICK l, s :
        /\ loc' = [loc EXCEPT ![d] = l] /\ pc' = [pc EXCEPT ![d] = s]
        /\ l.op = k.op /\ l.spec = k.spec /\ l.deleted = k.deleted /\ l.status.digest = k.spec
        /\ s = IF moved THEN "undeployOld" ELSE "persist"
        /\ moved \/ k.op # "update" => l.status.ver = old /\ l.status.known = k.status.known
        /\ k.op = "update" /\ ~moved => l.status.ver = k.spec /\ k.spec \in l.status.known
  <2> DEFINE done == [k.status EXCEPT !.digest = k.spec]
             st == IF k.op = "update" /\ ~moved
                     THEN Refreshed(done, GenerateCRD(k.spec, release), k.spec) ELSE done
             l == [k EXCEPT !.status = st]
             s == IF ~moved THEN "persist"
                  ELSE IF old \in k.status.known THEN "undeployOld" ELSE "listOld"
  <2>1. loc' = [loc EXCEPT ![d] = l] /\ pc' = [pc EXCEPT ![d] = s]
    BY <1>2 DEF Deploy, Deployed, Goto
  <2>2. l.op = k.op /\ l.spec = k.spec /\ l.deleted = k.deleted /\ l.status = st
    BY <1>2 DEF Locals
  <2>3. /\ st.digest = k.spec
        /\ moved \/ k.op # "update" => st.ver = old /\ st.known = k.status.known
        /\ k.op = "update" /\ ~moved => st.ver = k.spec /\ k.spec \in st.known
    BY <1>2 DEF Refreshed, GenerateCRD, NoCRD, Status
  <2>4. s = IF moved THEN "undeployOld" ELSE "persist"
    BY <1>1 DEF Copied
  <2> HIDE DEF l, s, st
  <2> QED  BY <2>1, <2>2, <2>3, <2>4
<1>6. Copied(d, l, s)'
  BY <1>1, <1>2, <1>4, <1>5 DEF Copied, Bare, Deleting, Building, Migrating
<1>7. Grounded(d, l, s)
  BY <1>1, <1>4, <1>5 DEF Grounded
<1> QED  BY <1>1, <1>3, <1>5, <1>6, <1>7, DeployAlive

\* The CRD and the compositions stay while a reconcile fails or goes on.
LEMMA FailAlive ==
  ASSUME Sole, Noticed, LifeInv, NEW d \in Defs, Fail(d) \/ FailRollout(d) \/ FailPersist(d)
  PROVE  Clean' /\ \A e \in Defs : Alive(e)'
<1> USE DEF Goto
<1>1. /\ IInv /\ Clean /\ Documented(d) /\ Copied(d, loc[d], pc[d]) /\ Grounded(d, loc[d], pc[d])
      /\ UNCHANGED <<cd, crd, cache, comp, sync>>
  BY DEF LifeInv, Alive, Fail, FailRollout, FailPersist
<1>2. /\ loc \in [Defs -> Locals] /\ loc[d] \in Locals /\ pc[d] \in Stages
      /\ bundle \in [Namespaces -> [Versions -> BundleStates]] /\ NsOf[d] \in Namespaces
  BY <1>1, LifeTypes
<1>3. CASE FailPersist(d)
  BY <1>1, <1>3, NothingCopied, OwnStep DEF FailPersist
<1>4. ASSUME Fail(d) \/ FailRollout(d)
      PROVE  \E l : loc' = [loc EXCEPT ![d] = l] /\ Same(l, loc[d])
  <2>1. Same([loc[d] EXCEPT !.seen = NoCRD, !.todo = {}], loc[d])
        /\ Same(loc[d], loc[d]) /\ loc = [loc EXCEPT ![d] = loc[d]]
    BY <1>2 DEF Same, Locals
  <2>2. CASE FailRollout(d)
    BY <2>1, <2>2 DEF FailRollout
  <2>3. CASE Fail(d)
    <3>1. loc' = [loc EXCEPT ![d] = [loc[d] EXCEPT !.seen = NoCRD, !.todo = {}]]
      BY <1>2, <2>3 DEF Fail
    <3> QED  BY <2>1, <3>1
  <2> QED  BY <1>4, <2>2, <2>3
<1>5. CASE Fail(d) \/ FailRollout(d)
  <2>1. PICK l : loc' = [loc EXCEPT ![d] = l] /\ Same(l, loc[d])
    BY <1>4, <1>5
  <2>2. pc' = [pc EXCEPT ![d] = "persist"]
    BY <1>5 DEF Fail, FailRollout
  <2>3. pc[d] \in Building \cup Deleting
    BY <1>2, <1>5, FaultyAssumption
    DEF Fail, FailRollout, FaultOf, FaultKinds, Stages, Building, Deleting, Noticed
  <2>4. Copied(d, l, "persist")
    BY <1>1, <2>1, <2>3, GoesOn
  <2>5. Grounded(d, l, "persist")
    BY <1>1, <2>1, <2>3 DEF Grounded, Same, Building, Deleting, Copied
  <2>6. CASE pc[d] = "deploy"
    <3>1. \A v \in Versions \ {loc[d].spec} : bundle'[NsOf[d]][v] = bundle[NsOf[d]][v]
      <4>1. CASE FailRollout(d)
        BY <1>2, <4>1 DEF FailRollout, SetBundle, Target
      <4>2. CASE Fail(d)
        <5>1. PICK K \in SUBSET {d} : bundle' = Halfway({d}, K)
          BY <4>2 DEF Fail
        <5> QED  BY <1>2, <2>6, <5>1 DEF Halfway, Subject, Target
      <4> QED  BY <1>5, <4>1, <4>2
    <3>2. Copied(d, l, "persist")'
      <4>1. ~loc[d].deleted
        BY <1>1, <2>6 DEF Copied, Deleting
      <4>2. loc[d].status \in Status /\ loc[d].status = cd[d].status
        BY <1>1, <1>2, <2>6 DEF Copied, Building, Locals
      <4>3. l.status.ver \notin {NoVersion, l.status.digest}
              => l.status.ver \in Versions \ {loc[d].spec}
        BY <1>1, <2>1, <2>6, <4>2 DEF Copied, Documented, Same, Status
      <4> QED  BY <1>1, <2>1, <2>4, <3>1, <4>1, <4>2, <4>3 DEF Copied, Bare, Same, Deleting
    <3> QED  BY <1>1, <2>1, <2>2, <2>5, <2>6, <3>1, <3>2, DeployAlive
  <2>7. CASE pc[d] # "deploy"
    <3>1. Fail(d) /\ pc[d] # "undeployOld"
      BY <1>5, <2>3, <2>7 DEF FailRollout, Building, Deleting
    <3>2. \A v \in Versions : Bare(d, v) => Bare(d, v)'
      <4>1. PICK K \in SUBSET {d} : bundle' = Halfway({d}, K)
        BY <3>1 DEF Fail
      <4> QED  BY <1>2, <2>7, <4>1 DEF Halfway, Bare, Rightless
    <3>3. Copied(d, l, "persist")'
      <4>1. loc[d].status \in Status /\ cd[d].status \in Status /\ loc[d].spec \in Versions
        BY <1>1, <2>3, LifeTypes DEF Building, Deleting
      <4>2. l.status.ver \in Versions \cup {NoVersion} /\ cd[d].status.ver \in Versions \cup {NoVersion}
        BY <2>1, <4>1 DEF Same, Status
      <4> QED  BY <1>1, <2>4, <3>2, <4>2 DEF Copied
    <3>4. pc[d] # "idle" /\ \A c \in Comps : Existing(c)' => Existing(c)
      BY <1>1, <2>3 DEF Building, Deleting, Existing
    <3> QED  BY <1>1, <2>1, <2>2, <2>5, <3>2, <3>3, <3>4, LessStep
  <2> QED  BY <2>6, <2>7
<1> QED  BY <1>3, <1>5

\* Update after Deploy, and Delete up to the CRD.
LEMMA MigrateAlive ==
  ASSUME Sole, LifeInv, NEW d \in Defs,
         UndeployOld(d) \/ FinishUpdate(d) \/ \E c \in Comps : Relabel(d, c)
  PROVE  Clean' /\ \A e \in Defs : Alive(e)'
<1> USE DEF Goto
<1>1. /\ IInv /\ Copied(d, loc[d], pc[d]) /\ Grounded(d, loc[d], pc[d])
      /\ UNCHANGED <<cd, crd, cache, sync>> /\ pc[d] \in Migrating /\ pc[d] # "idle"
  BY DEF LifeInv, Alive, UndeployOld, FinishUpdate, Relabel, Migrating
<1>2. /\ loc \in [Defs -> Locals] /\ loc[d] \in Locals /\ loc[d].status \in Status
      /\ bundle \in [Namespaces -> [Versions -> BundleStates]] /\ NsOf[d] \in Namespaces
      /\ comp \in [Comps -> Composition] /\ loc[d].spec \in Versions
  BY <1>1, LifeTypes
<1>3. /\ ~loc[d].deleted /\ loc[d].op = "update" /\ loc[d].status.digest = loc[d].spec
      /\ loc[d].status.ver = cd[d].status.ver
      /\ loc[d].status.ver \in Versions /\ loc[d].status.ver # loc[d].spec
  BY <1>1, <1>2 DEF Copied, Migrating, Deleting, Status
<1>4. CASE UndeployOld(d)
  <2>1. /\ pc[d] = "undeployOld" /\ (\A c \in Comps : Existing(c)' => Existing(c))
        /\ \A v \in Versions : Bare(d, v) => Bare(d, v)'
        /\ loc[d].status.ver \in loc[d].status.charts
             => \A v \in Versions : v = loc[d].status.ver => Bare(d, v)'
    <3>1. PICK b : /\ SetBundle(d, loc[d].status.ver, b)
                   /\ bundle[NsOf[d]][loc[d].status.ver] = "absent" => b = "absent"
                   /\ loc[d].status.ver \in loc[d].status.charts => b = "absent"
      BY <1>4 DEF UndeployOld, UndeployedToRights
    <3>2. \A v \in Versions :
            bundle'[NsOf[d]][v] = IF v = loc[d].status.ver THEN b ELSE bundle[NsOf[d]][v]
      BY <1>2, <3>1 DEF SetBundle
    <3>3. pc[d] = "undeployOld" /\ comp' = comp
      BY <1>4 DEF UndeployOld
    <3> QED  BY <3>1, <3>2, <3>3 DEF Bare, Existing
  <2>2. CASE loc[d].status.ver \in loc[d].status.charts
    <3>1. PICK l : l = loc[d]
      OBVIOUS
    <3>2. loc' = [loc EXCEPT ![d] = l] /\ pc' = [pc EXCEPT ![d] = "listOld"]
      BY <1>2, <1>4, <2>2, <3>1 DEF UndeployOld
    <3>3. Copied(d, l, "listOld")'
      BY <1>1, <1>3, <2>1, <2>2, <3>1 DEF Copied, Building, Deleting, Migrating
    <3>4. Grounded(d, l, "listOld")
      BY <1>1, <2>1, <3>1 DEF Grounded
    <3> QED  BY <1>1, <2>1, <3>2, <3>3, <3>4, LessStep
  <2>3. CASE loc[d].status.ver \notin loc[d].status.charts
    <3>1. loc' = [loc EXCEPT ![d] = NoLocals] /\ pc' = [pc EXCEPT ![d] = "idle"]
      BY <1>4, <2>3 DEF UndeployOld
    <3>2. Copied(d, NoLocals, "idle")' /\ Grounded(d, NoLocals, "idle")
      BY NothingCopied DEF Copied, NoLocals, Building, Deleting, Migrating
    <3> QED  BY <1>1, <2>1, <3>1, <3>2, LessStep
  <2> QED  BY <2>2, <2>3
<1>5. CASE FinishUpdate(d)
  <2> DEFINE st == Refreshed(loc[d].status, GenerateCRD(loc[d].spec, release), loc[d].spec)
             l == [loc[d] EXCEPT !.status = st]
  <2>1. loc' = [loc EXCEPT ![d] = l] /\ pc' = [pc EXCEPT ![d] = "persist"]
        /\ UNCHANGED <<bundle, comp>> /\ pc[d] = "relabel"
    BY <1>2, <1>5 DEF FinishUpdate, Target
  <2>2. /\ l.op = loc[d].op /\ l.spec = loc[d].spec /\ l.deleted = loc[d].deleted
        /\ l.status.ver = l.spec /\ l.status.digest = l.spec /\ l.spec \in l.status.known
    <3>1. l.op = loc[d].op /\ l.spec = loc[d].spec /\ l.deleted = loc[d].deleted /\ l.status = st
      BY <1>2 DEF Locals
    <3>2. st.ver = loc[d].spec /\ st.digest = loc[d].spec /\ loc[d].spec \in st.known
      BY <1>2, <1>3 DEF Refreshed, GenerateCRD, NoCRD, Status
    <3> HIDE DEF st, l
    <3> QED  BY <3>1, <3>2
  <2> HIDE DEF l
  <2>3. Copied(d, l, "persist")
    BY <1>1, <1>3, <2>1, <2>2 DEF Copied, Building, Deleting, Migrating
  <2>4. Grounded(d, l, "persist")
    BY <1>1, <1>3, <2>1, <2>2 DEF Grounded
  <2> QED  BY <1>1, <2>1, <2>3, <2>4, OwnStep
<1>6. CASE \E c \in Comps : Relabel(d, c)
  <2>1. PICK c \in Comps : Relabel(d, c)
    BY <1>6
  <2>2. PICK l : l = [loc[d] EXCEPT !.todo = @ \ {c}]
    OBVIOUS
  <2>3. Same(l, loc[d]) /\ loc' = [loc EXCEPT ![d] = l] /\ pc[d] = "relabel"
        /\ bundle' = bundle /\ pc' = [pc EXCEPT ![d] = "relabel"]
    <3>1. Same(l, loc[d])
      BY <1>2, <2>2 DEF Same, Locals
    <3>2. pc' = pc /\ pc \in [Defs -> Stages]
      BY <1>1, <2>1, LifeTypes DEF Relabel
    <3> QED  BY <1>2, <2>1, <2>2, <3>1, <3>2 DEF Relabel
  <2>4. \A x \in Comps : Existing(x)' => Existing(x)
    BY <1>2, <2>1 DEF Relabel, Existing, Composition
  <2>5. Copied(d, l, "relabel") /\ Grounded(d, l, "relabel")
    BY <1>1, <2>3, GoesOn DEF Grounded, Same
  <2>6. Copied(d, l, "relabel")' /\ \A v \in Versions : Bare(d, v) => Bare(d, v)'
    BY <1>1, <2>3, <2>5 DEF Copied, Bare
  <2> QED  BY <1>1, <2>3, <2>4, <2>5, <2>6, LessStep
<1> QED  BY <1>4, <1>5, <1>6

LEMMA DeletedExist ==
  ASSUME NEW C, \A c \in C : Existing(c), comp' = Deleted(C)
  PROVE  \A c \in Comps : Existing(c)' => Existing(c)
  BY DEF Deleted, Existing

LEMMA DeleteAlive ==
  ASSUME Sole, LifeInv, NEW d \in Defs, ListVersion(d) \/ Undeploy(d)
  PROVE  Clean' /\ \A e \in Defs : Alive(e)'
<1> USE DEF Goto
<1>1. /\ IInv /\ Copied(d, loc[d], pc[d]) /\ Grounded(d, loc[d], pc[d])
      /\ UNCHANGED <<cd, crd, cache, sync>> /\ pc[d] \in Deleting /\ pc[d] # "idle"
      /\ loc[d].deleted
  BY DEF LifeInv, Alive, ListVersion, Undeploy, Undeployed, Deleting, Copied
<1>2. /\ loc \in [Defs -> Locals] /\ loc[d] \in Locals /\ loc[d].spec \in Versions
      /\ bundle \in [Namespaces -> [Versions -> BundleStates]] /\ NsOf[d] \in Namespaces
  BY <1>1, LifeTypes
<1>3. Same([loc[d] EXCEPT !.torn = TRUE], loc[d]) /\ Same(loc[d], loc[d])
      /\ Same([loc[d] EXCEPT !.torn = loc[d].skipCRD], loc[d])
      /\ loc = [loc EXCEPT ![d] = loc[d]]
  BY <1>2 DEF Same, Locals
<1>4. CASE ListVersion(d)
  <2>1. PICK l, s : s \in {"persist", "waitGone", "listKind"} /\
          loc' = [loc EXCEPT ![d] = l] /\ pc' = [pc EXCEPT ![d] = s] /\ Same(l, loc[d])
    <3>1. CASE ~Resolves(Target(d))
      <4> DEFINE k == [loc[d] EXCEPT !.torn = TRUE]
      <4>1. loc' = [loc EXCEPT ![d] = k] /\ pc' = [pc EXCEPT ![d] = "persist"]
        BY <1>2, <1>4, <3>1 DEF ListVersion
      <4>2. Same(k, loc[d])
        BY <1>3
      <4> HIDE DEF k
      <4> QED  BY <4>1, <4>2
    <3>2. CASE Resolves(Target(d))
      <4>1. loc' = loc
        BY <1>4, <3>2 DEF ListVersion
      <4>2. PICK s \in {"waitGone", "listKind"} : pc' = [pc EXCEPT ![d] = s]
        BY <1>4, <3>2 DEF ListVersion
      <4>3. PICK k : k = loc[d] /\ loc' = [loc EXCEPT ![d] = k] /\ Same(k, loc[d])
        BY <1>3, <4>1
      <4> QED  BY <4>2, <4>3
    <3> QED  BY <3>1, <3>2
  <2>2. bundle' = bundle /\ \A c \in Comps : Existing(c)' => Existing(c)
    <3>1. bundle' = bundle /\ (comp' = comp \/ comp' = Deleted(Labelled(Target(d))))
      BY <1>4 DEF ListVersion
    <3>2. \A c \in Labelled(Target(d)) : Existing(c)
      BY DEF Labelled
    <3> QED  BY <3>1, <3>2, DeletedExist DEF Existing
  <2>3. Copied(d, l, s)
    BY <1>1, <2>1, GoesOn DEF Deleting
  <2>4. Copied(d, l, s)' /\ \A v \in Versions : Bare(d, v) => Bare(d, v)'
    BY <1>1, <2>2, <2>3 DEF Copied, Bare
  <2>5. Grounded(d, l, s)
    BY <1>1, <2>1 DEF Grounded, Same
  <2> QED  BY <1>1, <2>1, <2>2, <2>4, <2>5, LessStep
<1>5. CASE Undeploy(d)
  <2>1. PICK l, s : s \in {"persist", "uninstallCRD"} /\
          loc' = [loc EXCEPT ![d] = l] /\ pc' = [pc EXCEPT ![d] = s] /\ Same(l, loc[d])
    <3> DEFINE k == [loc[d] EXCEPT !.torn = loc[d].skipCRD]
    <3>1. loc' = [loc EXCEPT ![d] = k]
      BY <1>2, <1>5 DEF Undeploy, Undeployed
    <3>2. PICK s \in {"persist", "uninstallCRD"} : pc' = [pc EXCEPT ![d] = s]
      BY <1>5 DEF Undeploy, Undeployed
    <3>3. Same(k, loc[d])
      BY <1>3
    <3> HIDE DEF k
    <3> QED  BY <3>1, <3>2, <3>3
  <2>2. /\ \A c \in Comps : Existing(c)' => Existing(c)
        /\ \A v \in Versions : Bare(d, v) => Bare(d, v)'
        /\ \A v \in Versions : v = loc[d].spec => Bare(d, v)'
    <3>1. bundle'[NsOf[d]] = [bundle[NsOf[d]] EXCEPT ![loc[d].spec] = "absent"]
      BY <1>2, <1>5 DEF Undeploy, SetBundle, Target
    <3>2. \A v \in Versions :
            bundle'[NsOf[d]][v] = IF v = loc[d].spec THEN "absent" ELSE bundle[NsOf[d]][v]
      BY <1>2, <3>1
    <3>3. comp' = comp
      BY <1>5 DEF Undeploy, Undeployed
    <3> QED  BY <3>2, <3>3 DEF Bare, Existing
  <2>3. l.spec = loc[d].spec /\ Bare(d, l.spec)'
    BY <1>2, <2>1, <2>2 DEF Same
  <2>4. Copied(d, l, "persist")
    BY <1>1, <2>1, GoesOn
  <2>5. Copied(d, l, s)'
    <3>1. loc[d].status \in Status /\ cd[d].status \in Status
      BY <1>1, LifeTypes
    <3>2. l.status.ver \in Versions \cup {NoVersion} /\ cd[d].status.ver \in Versions \cup {NoVersion}
      BY <2>1, <3>1 DEF Same, Status
    <3>3. l.deleted
      BY <1>1, <2>1 DEF Same
    <3>4. s \notin Building \cup Migrating \cup {"idle", "observeBundle"}
      BY <2>1 DEF Building, Migrating
    <3>5. s = "uninstallCRD" => s \in Deleting
      BY DEF Deleting
    <3>6. l.status.ver # NoVersion => (Bare(d, l.status.ver) => Bare(d, l.status.ver)')
      BY <2>2, <3>2
    <3>7. cd[d].status.ver # NoVersion => (Bare(d, cd[d].status.ver) => Bare(d, cd[d].status.ver)')
      BY <1>1, <2>2, <3>2
    <3> HIDE DEF Bare, Building, Migrating, Deleting
    <3> QED  BY <1>1, <2>1, <2>3, <2>4, <3>3, <3>4, <3>5, <3>6, <3>7 DEF Copied
  <2>6. Grounded(d, l, s)
    BY <1>1, <2>1 DEF Grounded, Same
  <2> QED  BY <1>1, <2>1, <2>2, <2>5, <2>6, LessStep
<1> QED  BY <1>4, <1>5

\* The CRD is marked, after the bundle, and the compositions with it.
LEMMA UninstallAlive ==
  ASSUME Sole, LifeInv, NEW d \in Defs, UninstallCRD(d)
  PROVE  Clean' /\ \A e \in Defs : Alive(e)'
<1>1. /\ IInv /\ Clean /\ Documented(d) /\ Installed(d) /\ pc[d] = "uninstallCRD"
      /\ Copied(d, loc[d], "uninstallCRD") /\ Grounded(d, loc[d], "uninstallCRD")
      /\ UNCHANGED <<cd, cache, bundle, sync>>
  BY DEF LifeInv, Alive, UninstallCRD
<1>2. PICK l : /\ loc' = [loc EXCEPT ![d] = l] /\ pc' = [pc EXCEPT ![d] = "persist"]
               /\ Same(l, loc[d])
  <2> DEFINE k == [loc[d] EXCEPT !.torn = TRUE]
  <2>1. Same(k, loc[d]) /\ loc' = [loc EXCEPT ![d] = k]
    BY <1>1, LifeTypes DEF UninstallCRD, Same, Locals
  <2> HIDE DEF k
  <2> QED  BY <2>1 DEF UninstallCRD, Goto
<1>3. loc'[d] = l /\ pc'[d] = "persist" /\ crd \in CRD
  BY <1>1, <1>2, LifeTypes
<1>4. cd[d].phase = "terminating" /\ loc[d].deleted /\ Bare(d, cd[d].spec)
  BY <1>1 DEF Copied, Deleting
<1>5. /\ crd'.versions = crd.versions /\ (crd' = crd \/ Exists(crd))
      /\ \A c \in Comps : Existing(c)' => Existing(c)
  <2>1. \A c \in {x \in Comps : Existing(x)} : Existing(c)
    OBVIOUS
  <2>2. comp' = comp \/ comp' = Deleted({x \in Comps : Existing(x)})
    BY DEF UninstallCRD
  <2> QED  BY <1>3, <2>1, <2>2, DeletedExist DEF UninstallCRD, CRD, Existing
<1>6. Clean'
  BY <1>1, <1>5 DEF Clean, Exists
<1>7. Documented(d)'
  BY <1>1 DEF Documented, Settled, Bare
<1>8. Installed(d)'
  BY <1>1, <1>4, <1>5 DEF Installed, Exists, Bare
<1>9. Copied(d, l, "persist")'
  BY <1>1, <1>2 DEF Copied, Same, Deleting, Building, Migrating, Bare
<1>10. Grounded(d, l, "persist")'
  BY <1>2, <1>4 DEF Grounded, Same
<1>11. Copied(d, loc[d], pc[d])' /\ Grounded(d, loc[d], pc[d])'
  BY <1>3, <1>9, <1>10
<1> QED  BY <1>6, <1>7, <1>8, <1>11 DEF Sole, Alive

\* What the reconcile records, the definition has.
LEMMA PersistAlive ==
  ASSUME Sole, Noticed, LifeInv, NEW d \in Defs, Persist(d)
  PROVE  Clean' /\ \A e \in Defs : Alive(e)'
<1> DEFINE l == loc[d]
           st == cd[d].status
<1>1. /\ IInv /\ Clean /\ Documented(d) /\ Installed(d) /\ pc[d] = "persist"
      /\ Copied(d, l, "persist") /\ Grounded(d, l, "persist")
      /\ UNCHANGED <<crd, cache, bundle, comp, sync>>
  BY DEF LifeInv, Alive, Persist
<1>2. /\ loc \in [Defs -> Locals] /\ pc \in [Defs -> Stages] /\ cd \in [Defs -> Definition]
      /\ cd[d] \in Definition /\ l.status \in Status /\ st \in Status /\ l.spec \in Versions
  BY <1>1, LifeTypes
<1>3. loc'[d] = NoLocals /\ pc'[d] = "idle"
  BY <1>2 DEF Persist, Goto
<1>4. /\ cd'[d].status = l.status /\ cd'[d].phase = cd[d].phase
      /\ cd'[d].spec = cd[d].spec
  BY <1>2 DEF Persist, Noticed, Definition
<1>5. cd[d].phase \in {"live", "terminating"}
  BY <1>1, <1>2 DEF Copied, Definition, Phases
<1>6. Clean'
  BY <1>1 DEF Clean, Exists
<1>7. cd[d].phase = "terminating" => l.status.ver = cd[d].spec /\ l.status.digest = cd[d].spec
  BY <1>1 DEF Documented, Settled, Copied, Ending
<1>8. Documented(d)'
  <2>1. \A v \in Versions \ {cd[d].spec, l.status.ver} : Bare(d, v)
    BY <1>1, <1>2, NoVersionAssumption DEF Documented, Copied, AllVersions, Status
  <2>2. l.status.ver \notin {NoVersion, l.status.digest}
          => l.status.digest = cd[d].spec /\ Bare(d, l.status.ver)
    BY <1>1 DEF Copied
  <2>3. l.status.ver # NoVersion => l.status.ver \in l.status.known
    BY <1>1 DEF Copied
  <2> QED  BY <1>1, <1>4, <1>5, <1>7, <2>1, <2>2, <2>3 DEF Documented, Settled, Ending, Bare
<1>9. Installed(d)'
  <2>1. l.status.digest = cd[d].spec /\ Exists(crd) => cd[d].spec \in crd.versions
    <3>1. CASE l.deleted
      BY <1>1, <3>1 DEF Copied, Documented, Settled, Installed, Ending
    <3>2. CASE ~l.deleted
      BY <1>1, <3>2 DEF Copied, Grounded
    <3> QED  BY <3>1, <3>2
  <2>2. cd[d].phase = "live" => (l.status.digest = cd[d].spec => cd[d].spec \in crd.versions)
    BY <1>1 DEF Copied, Grounded
  <2>3. cd[d].phase = "live" /\ l.status.ver # NoVersion => Exists(cache)
    BY <1>1 DEF Copied, Grounded
  <2> QED  BY <1>1, <1>4, <1>5, <2>1, <2>2, <2>3
           DEF Installed, Exists, Existing, Ending, Bare
<1>10. Copied(d, loc[d], pc[d])' /\ Grounded(d, loc[d], pc[d])'
  BY <1>3 DEF Copied, Grounded, NoLocals, Deleting, Building, Migrating
<1> QED  BY <1>6, <1>8, <1>9, <1>10 DEF Sole, Alive

\* What a deleted definition has to find before it goes.
LEMMA GoneAlive ==
  ASSUME Sole, LifeInv, NEW d \in Defs, ObserveGone(d)
  PROVE  Clean' /\ \A e \in Defs : Alive(e)'
<1>1. /\ IInv /\ Clean /\ Documented(d) /\ Installed(d)
      /\ cd[d].phase = "terminating" /\ pc[d] = "idle"
      /\ UNCHANGED <<crd, cache, bundle, comp, pc, loc, sync>>
  BY DEF LifeInv, Alive, ObserveGone, Finalize
<1>2. cd[d].spec \in Versions /\ cd \in [Defs -> Definition] /\ cd[d] \in Definition
  BY <1>1, LifeTypes DEF Present
<1>3. ~Exists(crd)
  BY <1>1, <1>2, ResolvesIff DEF ObserveGone, Installed, Documented, Settled, Ending
<1>4. /\ cd'[d].phase = "gone" /\ cd'[d].spec = cd[d].spec
      /\ cd'[d].status = cd[d].status
  BY <1>2 DEF ObserveGone, Finalize, Definition
<1>5. Clean'
  BY <1>1 DEF Clean, Exists
<1>6. Documented(d)'
  BY <1>1, <1>4 DEF Documented, Settled, Bare, Ending
<1>7. Installed(d)'
  BY <1>1, <1>3, <1>4 DEF Installed, Exists, Existing, Ending, Bare
<1>8. Copied(d, loc[d], pc[d])' /\ Grounded(d, loc[d], pc[d])'
  BY <1>1 DEF LifeInv, Alive, Copied, Grounded, Deleting, Building, Migrating
<1> QED  BY <1>5, <1>6, <1>7, <1>8 DEF Sole, Alive

-----------------------------------------------------------------------------
(* Users, the cluster and the process *)

LEMMA UserAlive ==
  ASSUME Sole, Deliberate, LifeInv, User
  PROVE  Clean' /\ \A e \in Defs : Alive(e)'
<1>1. IInv /\ Clean /\ UNCHANGED <<crd, cache, bundle, pc, loc, sync>>
  BY DEF LifeInv, User, CreateDefinition, EditDefinition, DeleteDefinition, CreateComposition
<1>2. Clean'
  BY <1>1 DEF Clean, Exists
<1>3. SUFFICES ASSUME NEW d \in Defs PROVE Alive(d)'
  BY <1>2
<1>4. /\ Documented(d) /\ Installed(d) /\ Copied(d, loc[d], pc[d])
      /\ Grounded(d, loc[d], pc[d]) /\ cd[d].status \in Status /\ cd[d] \in Definition
      /\ cd \in [Defs -> Definition] /\ NoVersion \notin Versions
      /\ Present(d) => cd[d].spec \in Versions
  BY <1>1, LifeTypes, NoVersionAssumption DEF LifeInv, Alive, AllVersions
<1>5. CASE \E v \in Versions : CreateDefinition(d, v)
  <2>1. PICK v \in Versions : CreateDefinition(d, v)
    BY <1>5
  <2>2. /\ cd[d].phase = "new" /\ cd'[d].phase = "live" /\ cd'[d].spec = v
        /\ cd'[d].status = cd[d].status /\ comp' = comp
    BY <1>4, <2>1 DEF CreateDefinition, Definition
  <2>3. cd[d].status.ver = NoVersion /\ cd[d].status.digest = NoVersion /\ pc[d] = "idle"
    BY <1>4, <2>2 DEF Documented, Copied, NoStatus
  <2>4. Documented(d)'
    BY <1>1, <1>4, <2>2, <2>3 DEF Documented, Bare, Ending
  <2>5. Installed(d)'
    BY <1>1, <1>4, <2>2, <2>3 DEF Installed, Exists, Existing, Ending, Bare
  <2>6. Copied(d, loc[d], pc[d])' /\ Grounded(d, loc[d], pc[d])'
    BY <1>1, <1>4, <2>2, <2>3 DEF Copied, Grounded, Deleting, Building, Migrating
  <2> QED  BY <2>4, <2>5, <2>6 DEF Alive
<1>6. CASE \E v \in Versions : EditDefinition(d, v)
  <2>1. PICK v \in Versions : EditDefinition(d, v)
    BY <1>6
  <2>2. /\ cd[d].phase = "live" /\ cd'[d].phase = "live" /\ cd'[d].spec = v
        /\ cd'[d].status = cd[d].status /\ comp' = comp /\ cd[d].spec # v
    BY <1>4, <2>1 DEF EditDefinition, Definition
  <2>3. Settled(d) /\ cd[d].spec \in Versions
    BY <1>4, <2>1, <2>2 DEF EditDefinition, Deliberate, Present
  <2>4. Documented(d)'
    BY <1>1, <1>4, <2>2, <2>3 DEF Documented, Bare, Ending, Settled
  <2>5. Installed(d)'
    BY <1>1, <1>4, <2>2, <2>3 DEF Installed, Exists, Existing, Ending, Bare, Settled
  <2>6. Copied(d, loc[d], pc[d])'
    BY <1>1, <1>4, <2>2, <2>3 DEF Copied, Bare, Settled
  <2>7. Grounded(d, loc[d], pc[d])'
    BY <1>1, <1>4, <2>2 DEF Grounded, Exists
  <2> QED  BY <2>4, <2>5, <2>6, <2>7 DEF Alive
<1>7. CASE DeleteDefinition(d)
  <2>1. /\ cd[d].phase = "live" /\ cd'[d].phase = "terminating"
        /\ cd'[d].spec = cd[d].spec /\ cd'[d].status = cd[d].status /\ comp' = comp
    BY <1>4, <1>7 DEF DeleteDefinition, Definition
  <2>2. Settled(d) /\ cd[d].spec \in Versions
    BY <1>4, <1>7, <2>1 DEF DeleteDefinition, Deliberate, Present
  <2>3. Exists(crd) /\ ~crd.terminating /\ cd[d].spec \in crd.versions /\ Exists(cache)
    BY <1>4, <2>1, <2>2 DEF Installed, Exists, Settled
  <2>4. Documented(d)'
    BY <1>1, <1>4, <2>1, <2>2 DEF Documented, Bare, Ending, Settled
  <2>5. Installed(d)'
    BY <1>1, <2>1, <2>3 DEF Installed, Exists, Ending
  <2>6. Copied(d, loc[d], pc[d])'
    <3>1. pc[d] # "idle" => loc[d].spec = cd[d].spec
      BY <1>4, <2>1, <2>2 DEF Copied, Settled
    <3> QED  BY <1>1, <1>4, <2>1, <3>1 DEF Copied, Bare
  <2>7. Grounded(d, loc[d], pc[d])'
    BY <1>1, <1>4, <2>1, <2>3 DEF Grounded, Exists
  <2> QED  BY <2>4, <2>5, <2>6, <2>7 DEF Alive
<1>8. CASE \E c \in Comps, v \in Versions : CreateComposition(c, v)
  <2>1. PICK c \in Comps, v \in Versions : CreateComposition(c, v)
    BY <1>8
  <2>2. cd' = cd
    BY <2>1 DEF CreateComposition
  <2>3. Exists(crd)
    <3>1. v \in crd.versions
      BY <1>1, <2>1, ResolvesIff DEF CreateComposition, Resolves
    <3> QED  BY <3>1 DEF Exists
  <2>4. Installed(d)'
    BY <1>1, <1>4, <2>1, <2>2, <2>3 DEF CreateComposition, Installed, Exists, Ending, Bare
  <2> QED  BY <1>1, <1>4, <2>2, <2>4 DEF Documented, Settled, Copied, Grounded, Bare, Exists, Alive
<1> QED  BY <1>3, <1>5, <1>6, <1>7, <1>8 DEF User, Sole

LEMMA RecordsStay ==
  ASSUME NEW d, Documented(d), Copied(d, loc[d], pc[d]), UNCHANGED <<cd, loc, pc, bundle>>
  PROVE  Documented(d)' /\ Copied(d, loc[d], pc[d])'
<1>1. Documented(d)'
  BY DEF Documented, Settled, Bare
<1> QED  BY <1>1, CopiedStays

LEMMA ClusterAlive ==
  ASSUME Sole, LifeInv, Cluster
  PROVE  Clean' /\ \A e \in Defs : Alive(e)'
<1>1. IInv /\ Clean /\ UNCHANGED <<cd, pc, loc, sync>>
  BY DEF LifeInv, Cluster, Adopt, Release, CRDCollected, CacheSync, Drift
<1>2. Clean'
  <2>1. CASE CRDCollected
    BY <1>1, <2>1 DEF CRDCollected, Clean, Exists
  <2>2. CASE ~CRDCollected
    BY <1>1, <2>2 DEF Clean, Exists, Cluster, Adopt, Release, CacheSync, Drift
  <2> QED  BY <2>1, <2>2
<1>8. SUFFICES ASSUME NEW d \in Defs PROVE Alive(d)'
  BY <1>2
<1>3. /\ Documented(d) /\ Installed(d) /\ Copied(d, loc[d], pc[d])
      /\ Grounded(d, loc[d], pc[d]) /\ cd[d] \in Definition /\ cd[d].status \in Status
      /\ comp \in [Comps -> Composition] /\ loc[d].status \in Status
      /\ bundle \in [Namespaces -> [Versions -> BundleStates]]
      /\ pc[d] # "idle" => loc[d].spec \in Versions
      /\ NsOf[d] \in Namespaces /\ cd[d].phase \in Phases
  BY <1>1, LifeTypes DEF LifeInv, Alive, Definition
<1>4. CASE \E c \in Comps : Adopt(c) \/ Release(c)
  <2>1. /\ UNCHANGED <<crd, cache, bundle>>
        /\ \A x \in Comps : Existing(x)' => Existing(x)
    BY <1>3, <1>4 DEF Adopt, Release, Existing, Composition
  <2>2. Documented(d)' /\ Copied(d, loc[d], pc[d])'
    BY <1>1, <1>3, <2>1, RecordsStay
  <2>3. Installed(d)'
    BY <1>1, <1>3, <2>1 DEF Installed, Bare, Exists
  <2>4. Grounded(d, loc[d], pc[d])'
    BY <1>1, <1>3, <2>1 DEF Grounded, Exists
  <2> QED  BY <2>2, <2>3, <2>4 DEF Alive
<1>5. CASE CRDCollected
  <2>1. /\ UNCHANGED <<cache, bundle, comp>> /\ crd' = NoCRD /\ crd.terminating
        /\ \A c \in Comps : ~Existing(c)
    BY <1>5 DEF CRDCollected
  <2>2. crd'.versions = {} /\ ~crd'.terminating
    BY <2>1 DEF NoCRD
  <2>3. cd[d].phase \in Ending
    BY <1>3, <2>1 DEF Installed, Ending, Phases
  <2>5. Documented(d)' /\ Copied(d, loc[d], pc[d])'
    BY <1>1, <1>3, <2>1, RecordsStay
  <2>6. Installed(d)'
    <3>1. UNCHANGED cd /\ cd'[d].phase \in Ending
      BY <1>1, <2>3
    <3> QED  BY <1>3, <2>1, <2>2, <3>1 DEF Installed, Ending, Exists, Existing, Bare
  <2>7. Grounded(d, loc[d], pc[d])'
    <3>1. pc[d] = "idle" \/ loc[d].deleted
      BY <1>3, <2>1 DEF Grounded
    <3>2. pc[d] # "readCRD"
      BY <1>3, <3>1 DEF Copied, Deleting
    <3> QED  BY <1>1, <1>3, <3>1, <3>2 DEF Grounded
  <2> QED  BY <2>5, <2>6, <2>7 DEF Alive
<1>6. CASE CacheSync
  <2>1. UNCHANGED <<crd, bundle, comp>> /\ cache' = crd
    BY <1>6 DEF CacheSync
  <2>2. Documented(d)' /\ Copied(d, loc[d], pc[d])'
    BY <1>1, <1>3, <2>1, RecordsStay
  <2>3. Installed(d)'
    <3>1. UNCHANGED <<cd, crd, comp>> /\ (Exists(cache') <=> Exists(crd))
      BY <1>1, <2>1 DEF Exists
    <3>2. Bare(d, cd[d].spec)' <=> Bare(d, cd[d].spec)
      BY <1>1, <2>1 DEF Bare
    <3> QED  BY <1>3, <3>1, <3>2 DEF Installed, Exists, Existing
  <2>4. Grounded(d, loc[d], pc[d])'
    BY <1>1, <1>3, <2>1 DEF Grounded, Installed, Copied, Exists, Phases
  <2> QED  BY <2>2, <2>3, <2>4 DEF Alive
<1>7. CASE \E n \in Namespaces, v \in Versions : Drift(n, v)
  <2>1. UNCHANGED <<crd, cache, comp>> /\ \A v \in Versions : Bare(d, v)' <=> Bare(d, v)
    BY <1>3, <1>7 DEF Drift, Bare, Rightless
  <2>2. /\ cd[d].status.ver # NoVersion => cd[d].status.ver \in Versions
        /\ loc[d].status.ver # NoVersion => loc[d].status.ver \in Versions
        /\ cd[d].phase \in Ending => cd[d].spec \in Versions
    BY <1>1, <1>3, LifeTypes DEF Status, Documented, Settled, Ending, Present
  <2>3. Documented(d)'
    BY <1>1, <1>3, <2>1, <2>2 DEF Documented, Settled
  <2>4. Installed(d)' /\ Grounded(d, loc[d], pc[d])'
    BY <1>1, <1>3, <2>1, <2>2 DEF Installed, Grounded, Exists, Existing
  <2>5. Copied(d, loc[d], pc[d])'
    BY <1>1, <1>3, <2>1, <2>2 DEF Copied
  <2> QED  BY <2>3, <2>4, <2>5 DEF Alive
<1> QED  BY <1>4, <1>5, <1>6, <1>7 DEF Cluster

LEMMA RestartAlive ==
  ASSUME Sole, LifeInv, Restart
  PROVE  Clean' /\ \A e \in Defs : Alive(e)'
<1>1. /\ IInv /\ Clean /\ UNCHANGED <<cd, crd, comp>> /\ cache' = crd /\ sync' = NoCRD
      /\ pc' = [d \in Defs |-> "idle"] /\ loc' = [d \in Defs |-> NoLocals]
  BY DEF LifeInv, Restart
<1>2. Clean'
  BY <1>1 DEF Clean, Exists, NoCRD
<1>3. SUFFICES ASSUME NEW d \in Defs PROVE Alive(d)'
  BY <1>2
<1>4. /\ Documented(d) /\ Installed(d) /\ Copied(d, loc[d], pc[d])
      /\ Grounded(d, loc[d], pc[d]) /\ cd[d].status \in Status /\ NsOf[d] \in Namespaces
      /\ pc[d] # "idle" => loc[d].spec \in Versions
  BY <1>1, LifeTypes DEF LifeInv, Alive
<1>5. \A v \in Versions : Bare(d, v) =>
        Bare(d, v)' \/ (pc[d] = "deploy" /\ v = loc[d].spec)
  <2>1. PICK D, K : D \subseteq Defs /\ bundle' = Halfway(D, K)
    BY DEF Restart
  <2>2. SUFFICES ASSUME NEW v \in Versions, bundle[NsOf[d]][v] = "absent",
                        bundle'[NsOf[d]][v] # "absent"
                 PROVE  pc[d] = "deploy" /\ v = loc[d].spec
    BY DEF Bare
  <2>3. PICK e : e \in D /\ pc[e] = "deploy" /\ Subject(e) = v
    BY <1>4, <2>1, <2>2 DEF Halfway, Rightless
  <2>4. e = d
    BY <2>1, <2>3 DEF Sole
  <2> QED  BY <2>3, <2>4 DEF Subject, Target
<1>6. pc[d] = "deploy" =>
        /\ ~(cd[d].phase \in Ending /\ (crd.terminating \/ ~Exists(crd)))
        /\ loc[d].spec \in {cd[d].spec, cd[d].status.ver}
        /\ cd[d].status.ver \notin {NoVersion, cd[d].status.digest}
             => cd[d].status.ver # loc[d].spec
  BY <1>4 DEF Copied, Grounded, Documented, Deleting, Building, Ending
<1>7. Documented(d)'
  <2>1. cd[d].status.ver # NoVersion => cd[d].status.ver \in Versions
    BY <1>4 DEF Status
  <2> QED  BY <1>1, <1>4, <1>5, <1>6, <2>1 DEF Documented, Settled
<1>8. Installed(d)'
  <2>1. cd[d].phase \in Ending => cd[d].spec \in Versions
    BY <1>4 DEF Documented
  <2>2. cd[d].phase \in Ending /\ (crd.terminating \/ ~Exists(crd)) => Bare(d, cd[d].spec)'
    BY <1>1, <1>4, <1>5, <1>6, <2>1 DEF Installed, Bare
  <2> QED  BY <1>1, <1>4, <2>2 DEF Installed, Exists, Existing
<1>9. pc'[d] = "idle" /\ loc'[d] = NoLocals
  BY <1>1
<1>10. Copied(d, loc[d], pc[d])' /\ Grounded(d, loc[d], pc[d])'
  BY <1>9 DEF Copied, Grounded, NoLocals, Deleting, Building, Migrating
<1> QED  BY <1>7, <1>8, <1>10 DEF Alive

LEMMA InitiallyAlive == Init => LifeInv
<1> SUFFICES ASSUME Init PROVE LifeInv
  OBVIOUS
<1>1. IInv
  BY InitInvariant
<1>2. Clean /\ crd = NoCRD /\ cache = NoCRD /\ NoCRD.versions = {} /\ ~NoCRD.terminating
  BY DEF Init, Clean, Exists, NoCRD
<1>3. ASSUME NEW d \in Defs PROVE Alive(d)
  <2>1. /\ cd[d].phase = "new" /\ cd[d].spec = NoVersion /\ cd[d].status = NoStatus
        /\ pc[d] = "idle" /\ loc[d] = NoLocals /\ \A v \in Versions : Bare(d, v)
    BY NsOfAssumption DEF Init, Bare
  <2>2. Documented(d) /\ Installed(d)
    BY <1>2, <2>1 DEF Documented, Installed, NoStatus, Ending, Exists
  <2> QED  BY <2>1, <2>2, NothingCopied DEF Alive
<1> QED  BY <1>1, <1>2, <1>3 DEF LifeInv

LEMMA StepAlive == ASSUME Assumptions, LifeInv, [Next]_vars PROVE LifeInv'
<1> USE DEF Assumptions
<1>1. IInv'
  BY StepInvariant DEF LifeInv
<1>2. SUFFICES Clean' /\ \A e \in Defs : Alive(e)'
  BY <1>1 DEF LifeInv
<1>3. CASE UNCHANGED vars
  <2>1. Clean'
    BY <1>3 DEF vars, LifeInv, Clean, Exists
  <2>2. ASSUME NEW d \in Defs PROVE Alive(d)'
    <3>1. /\ Documented(d) /\ Installed(d)
          /\ Copied(d, loc[d], pc[d]) /\ Grounded(d, loc[d], pc[d])
      BY DEF LifeInv, Alive
    <3>2. Documented(d)' /\ Installed(d)'
      BY <1>3, <3>1 DEF vars, Documented, Installed, Settled, Bare, Exists, Existing
    <3>3. Copied(d, loc[d], pc[d])' /\ Grounded(d, loc[d], pc[d])'
      BY <1>3, <3>1 DEF vars, Copied, Grounded, Settled, Bare, Exists, Existing
    <3> QED  BY <3>2, <3>3 DEF Alive
  <2> QED  BY <2>1, <2>2
<1>4. CASE \E d \in Defs : Reconcile(d)
  BY <1>4, GoneAlive, BeginAlive, LookupFailsAlive, ObserveBundleAlive, ReadingAlive, ApplyAlive, DeployedAlive,
     MigrateAlive, DeleteAlive, UninstallAlive, PersistAlive
  DEF Reconcile, Observe, CreateOrUpdate, Delete
<1>5. CASE \E d \in Defs : Failure(d)
  BY <1>5, FailAlive DEF Failure, ObserveUnresolved, Noticed
<1>6. ~SyncRead /\ ~SyncApply
  BY DEF OneWriter, LifeInv, Clean, IInv, TypeOK, Budget, SyncRead, SyncApply, Spend
<1> QED  BY <1>3, <1>4, <1>5, <1>6, UserAlive, ClusterAlive, RestartAlive DEF Next

\* The finalizer of a definition that is alone in its kind goes only when what it
\* owned is gone: its controllers of every version, the compositions and the CRD,
\* whatever edits, failures and restarts came before.
THEOREM NothingOutlives == ASSUME Assumptions PROVE Spec => []GoneLeavesNothing
<1>1. LifeInv => GoneLeavesNothing
  BY DEF LifeInv, Alive, Documented, Installed, Settled, Bare, Ending, GoneLeavesNothing
<1> QED  BY <1>1, InitiallyAlive, StepAlive, PTL DEF Spec

-----------------------------------------------------------------------------
(* A bundle goes after the compositions *)

\* Delete is past its wait for the compositions of its version.
Emptied(d) == pc[d] \in {"listKind", "undeploy"} => Labelled(loc[d].spec) = {}
AllEmptied == \A d \in Defs : Emptied(d)

\* Nobody creates a composition of a definition that is being deleted.
Quiet == "quietDelete" \in Discipline

LEMMA EmptiedStep ==
  ASSUME Assumptions, Quiet, LifeInv, AllEmptied, [Next]_vars
  PROVE  AllEmptied'
<1> SUFFICES ASSUME NEW d \in Defs, pc'[d] \in {"listKind", "undeploy"}
             PROVE  Labelled(loc[d].spec)' = {}
  BY DEF AllEmptied, Emptied
<1>1. /\ IInv /\ Documented(d) /\ Copied(d, loc[d], pc[d])
      /\ (pc[d] \in {"listKind", "undeploy"} => Labelled(loc[d].spec) = {})
  BY DEF LifeInv, Alive, AllEmptied, Emptied
<1>2. /\ pc \in [Defs -> Stages] /\ loc \in [Defs -> Locals] /\ loc[d] \in Locals
      /\ comp \in [Comps -> Composition]
  BY <1>1, LifeTypes
<1>3. ASSUME UNCHANGED <<pc, loc>>,
             \A c \in Comps : Existing(c)' /\ comp'[c].label = loc[d].spec
                                => Existing(c) /\ comp[c].label = loc[d].spec
      PROVE  Labelled(loc[d].spec)' = {}
  BY <1>1, <1>3 DEF Labelled
<1>4. CASE UNCHANGED <<pc, loc, comp>>
  BY <1>3, <1>4 DEF Existing
<1>5. CASE User
  <2>1. CASE \E c \in Comps, v \in Versions : CreateComposition(c, v)
    <3>1. PICK c \in Comps, v \in Versions : CreateComposition(c, v)
      BY <2>1
    <3>2. UNCHANGED <<pc, loc>> /\ comp' = [comp EXCEPT ![c] = [state |-> "pending", label |-> v]]
      BY <3>1 DEF CreateComposition
    <3>3. v # loc[d].spec
      <4>1. loc[d].spec = cd[d].spec /\ cd[d].phase = "terminating"
        BY <1>1, <3>2 DEF Copied, Deleting
      <4> QED  BY <3>1, <4>1 DEF CreateComposition, Quiet
    <3> QED  BY <1>2, <1>3, <3>2, <3>3 DEF Existing
  <2> QED  BY <1>4, <1>5, <2>1 DEF User, CreateDefinition, EditDefinition, DeleteDefinition
<1>6. CASE Cluster
  <2>1. CASE \E c \in Comps : Adopt(c) \/ Release(c)
    <3>1. /\ UNCHANGED <<pc, loc>>
          /\ \A c \in Comps : (Existing(c)' => Existing(c)) /\ comp'[c].label = comp[c].label
      BY <1>2, <2>1 DEF Adopt, Release, Existing, Composition
    <3> QED  BY <1>3, <3>1
  <2> QED  BY <1>4, <1>6, <2>1 DEF Cluster, CRDCollected, CacheSync, Drift
<1>7. ASSUME NEW e \in Defs, Reconcile(e) \/ Failure(e)
      PROVE  Labelled(loc[d].spec)' = {}
  <2>1. e = d
    BY DEF Assumptions, Sole
  <2>2. CASE ListVersion(d)
    <3>1. CASE Resolves(Target(d)) /\ Cardinality(RecordedAt(Target(d))) # 1
      <4>1. loc[d].spec = cd[d].spec /\ Settled(d) /\ cd[d].phase = "terminating"
            /\ cd[d].spec \in Versions
        BY <1>1, <2>2 DEF ListVersion, Copied, Documented, Deleting, Ending
      <4>2. RecordedAt(Target(d)) = {d}
        BY <4>1, NoVersionAssumption
        DEF RecordedAt, Recorded, Present, Settled, Target, Assumptions, Sole, AllVersions
      <4> QED  BY <3>1, <4>2, FS_Singleton
    <3>2. pc'[d] = "listKind" => Resolves(Target(d)) /\ Cardinality(RecordedAt(Target(d))) # 1
      BY <1>2, <2>2 DEF ListVersion, Goto
    <3>3. pc'[d] # "undeploy"
      BY <1>2, <2>2 DEF ListVersion, Goto
    <3> QED  BY <3>1, <3>2, <3>3
  <2>3. CASE WaitGone(d)
    <3>1. UNCHANGED <<comp, loc>> /\ Labelled(Target(d)) = {}
      BY <1>2, <2>3 DEF WaitGone, Goto
    <3> QED  BY <3>1 DEF Labelled, Existing, Target
  <2>4. CASE ListKind(d)
    <3>1. comp' = comp /\ loc'[d].spec = loc[d].spec /\ pc[d] = "listKind"
      BY <1>2, <2>4 DEF ListKind, Locals
    <3> QED  BY <1>1, <3>1 DEF Labelled, Existing
  <2>5. CASE ObserveGone(d) \/ ObserveUnresolved(d)
    BY <1>4, <2>5 DEF ObserveGone, ObserveUnresolved, Finalize
  <2>6. CASE \/ ObserveMissing(d) \/ ObserveOutdated(d) \/ ObserveCurrent(d)
             \/ LookupFails(d) \/ ObserveBundle(d)
    BY <1>2, <2>6 DEF ObserveMissing, ObserveOutdated, ObserveCurrent, LookupFails,
                      ObserveBundle, BeginRepair, Begin, Goto
  <2>7. CASE CreateOrUpdate(d)
    BY <1>2, <2>7 DEF CreateOrUpdate, ReadCRD, ApplyCRD, ApplyCRDRefused, ReadForCA, ApplyCA,
                      Deploy, Deployed, UndeployOld, ListOld, FinishUpdate, Relabel, Goto
  <2>8. CASE Undeploy(d) \/ UninstallCRD(d) \/ Persist(d)
    BY <1>2, <2>8 DEF Undeploy, Undeployed, UninstallCRD, Persist, Goto
  <2>9. CASE Fail(d) \/ FailRollout(d) \/ FailPersist(d)
    BY <1>2, <2>9 DEF Fail, FailRollout, FailPersist, Goto
  <2> QED  BY <1>7, <2>1, <2>2, <2>3, <2>4, <2>5, <2>6, <2>7, <2>8, <2>9
           DEF Reconcile, Observe, Delete, Failure
<1>8. CASE SyncRead \/ SyncApply
  BY <1>4, <1>8 DEF SyncRead, SyncApply
<1>9. CASE Restart
  BY <1>9 DEF Restart
<1>10. CASE UNCHANGED vars
  BY <1>4, <1>10 DEF vars
<1> QED  BY <1>5, <1>6, <1>7, <1>8, <1>9, <1>10 DEF Next

\* A bundle that stops running was on its way down, for a Delete past its wait.
LEMMA TakenDown ==
  ASSUME Assumptions, Untouched, LifeInv, AllEmptied, [Next]_vars,
         \A d \in Defs : loc[d].op # "update",
         NEW n \in Namespaces, NEW v \in Versions,
         bundle[n][v] = "full", bundle'[n][v] # "full"
  PROVE  Labelled(v) = {}
<1>1. /\ IInv /\ bundle \in [Namespaces -> [Versions -> BundleStates]]
      /\ \A d \in Defs : NsOf[d] \in Namespaces
      /\ \A d \in Defs : pc[d] # "undeployOld"
  BY NsOfAssumption DEF LifeInv, Alive, Copied, Migrating, IInv, TypeOK
<1>2. \A d \in Defs : pc[d] = "undeploy" => Labelled(loc[d].spec) = {}
  BY DEF AllEmptied, Emptied
<1>3. ASSUME NEW D, NEW K, D \subseteq Defs, bundle' = Halfway(D, K)
      PROVE  Labelled(v) = {}
  <2>1. PICK d : d \in D /\ pc[d] \in {"undeploy", "undeployOld"} /\ Subject(d) = v
    BY <1>3 DEF Halfway, Rightless
  <2>2. d \in Defs /\ pc[d] = "undeploy"
    BY <1>1, <1>3, <2>1
  <2> QED  BY <1>2, <2>1, <2>2 DEF Subject, Target
<1>4. ASSUME NEW d \in Defs, NEW w, NEW b \in {"full", "absent"}, SetBundle(d, w, b)
      PROVE  w = v /\ b = "absent"
  BY <1>1, <1>4 DEF SetBundle
<1>5. CASE \E d \in Defs : Reconcile(d) \/ Failure(d)
  <2>1. PICK d \in Defs : Reconcile(d) \/ Failure(d)
    BY <1>5
  <2>2. CASE Undeploy(d)
    BY <1>2, <1>4, <2>2 DEF Undeploy, Target
  <2>3. CASE Fail(d)
    <3>1. PICK D, K : D \subseteq Defs /\ bundle' = Halfway(D, K)
      BY <2>3 DEF Fail
    <3> QED  BY <1>3, <3>1, Zenon
  <2>4. CASE Deploy(d) \/ FailRollout(d)
    BY <1>4, <2>4 DEF Deploy, FailRollout
  <2>5. CASE UndeployOld(d)
    BY <1>1, <2>5 DEF UndeployOld
  <2>6. CASE CreateOrUpdate(d) /\ ~Deploy(d) /\ ~UndeployOld(d)
    BY <2>6 DEF CreateOrUpdate, ReadCRD, ApplyCRD, ApplyCRDRefused, ReadForCA, ApplyCA,
                ListOld, FinishUpdate, Relabel
  <2>7. CASE Delete(d) /\ ~Undeploy(d)
    BY <2>7 DEF Delete, ListVersion, WaitGone, ListKind, UninstallCRD
  <2>8. CASE Observe(d) \/ Persist(d) \/ FailPersist(d) \/ ObserveUnresolved(d)
    BY <2>8 DEF Observe, ObserveGone, ObserveMissing, ObserveOutdated, ObserveCurrent,
                LookupFails, ObserveBundle, Finalize, Persist, FailPersist, ObserveUnresolved
  <2> QED  BY <2>1, <2>2, <2>3, <2>4, <2>5, <2>6, <2>7, <2>8 DEF Reconcile, Failure
<1>6. ~User /\ ~SyncRead /\ ~SyncApply /\ ~UNCHANGED vars
  BY DEF User, CreateDefinition, EditDefinition, DeleteDefinition, CreateComposition,
         SyncRead, SyncApply, vars
<1>7. ~Cluster
  BY <1>1 DEF Cluster, Adopt, Release, CRDCollected, CacheSync, Drift, Spend, IInv, TypeOK,
              Budget, Untouched
<1>8. CASE Restart
  BY <1>3, <1>8 DEF Restart
<1> QED  BY <1>5, <1>6, <1>7, <1>8 DEF Next

\* Delete of a definition alone in its kind takes no controller down that a
\* composition still waits for: it found them gone, and none came since.
THEOREM LastOutTheController ==
  ASSUME Assumptions, Quiet, Untouched
  PROVE  Spec => BundleOutlivesCompositions
<1>1. Init => LifeInv /\ AllEmptied
  BY InitiallyAlive DEF Init, AllEmptied, Emptied
<1>2. LifeInv /\ AllEmptied /\ [Next]_vars => LifeInv' /\ AllEmptied'
  BY StepAlive, EmptiedStep
<1>3. ASSUME LifeInv, AllEmptied, [Next]_vars
      PROVE  [\A n \in Namespaces, v \in Versions :
                (\A d \in Defs : loc[d].op # "update")
                   /\ bundle[n][v] = "full" /\ bundle'[n][v] # "full"
                => Labelled(v) = {}]_vars
  BY <1>3, TakenDown
<1> QED  BY <1>1, <1>2, <1>3, PTL DEF Spec, BundleOutlivesCompositions

-----------------------------------------------------------------------------
(* What has converged stays *)

LEMMA HalfwayStaysFull ==
  ASSUME LifeInv, NEW d \in Defs, cd[d].status.ver = cd[d].spec,
         cd[d].phase = "live", bundle[NsOf[d]][cd[d].spec] = "full", Sole,
         NEW D, NEW K, D \subseteq Defs, bundle' = Halfway(D, K)
  PROVE  bundle'[NsOf[d]][cd[d].spec] = "full"
<1>1. Copied(d, loc[d], pc[d]) /\ cd[d].spec \in Versions /\ NsOf[d] \in Namespaces
  BY LifeTypes DEF LifeInv, Alive, Present
<1>2. pc[d] # "undeploy" /\ (pc[d] = "undeployOld" => loc[d].status.ver # cd[d].spec)
  BY <1>1 DEF Copied, Deleting, Migrating
<1>3. ~\E e \in D : pc[e] \in {"undeploy", "undeployOld"} /\ Subject(e) = cd[d].spec
  BY <1>2 DEF Sole, Subject
<1> QED  BY <1>1, <1>3 DEF Halfway, Rightless

LEMMA StepStaysFull ==
  ASSUME Assumptions, Untouched, LifeInv, [Next]_vars, NEW d \in Defs,
         cd[d].status.ver = cd[d].spec, cd[d].status.digest = cd[d].spec,
         cd[d].phase = "live", bundle[NsOf[d]][cd[d].spec] = "full"
  PROVE  bundle'[NsOf[d]][cd[d].spec] = "full"
<1>1. /\ Copied(d, loc[d], pc[d]) /\ cd[d].spec \in Versions /\ NsOf[d] \in Namespaces
      /\ bundle \in [Namespaces -> [Versions -> BundleStates]]
  BY LifeTypes DEF LifeInv, Alive, Present
<1>2. /\ pc[d] # "undeploy"
      /\ pc[d] = "undeployOld" => loc[d].status.ver # cd[d].spec
  BY <1>1 DEF Copied, Deleting, Migrating
<1>3. CASE UNCHANGED bundle
  BY <1>3
<1>4. ASSUME NEW e \in Defs, Reconcile(e) \/ Failure(e)
      PROVE  bundle'[NsOf[d]][cd[d].spec] = "full"
  <2>1. e = d
    BY DEF Assumptions, Sole
  <2>2. CASE Deploy(d) \/ FailRollout(d)
    BY <1>1, <2>2 DEF Deploy, FailRollout, SetBundle
  <2>3. CASE UndeployOld(d)
    <3>1. PICK b : SetBundle(d, loc[d].status.ver, b) /\ pc[d] = "undeployOld"
      BY <2>3 DEF UndeployOld
    <3> QED  BY <1>1, <1>2, <3>1 DEF SetBundle
  <2>4. CASE Fail(d)
    <3>1. {d} \subseteq Defs /\ \E K : bundle' = Halfway({d}, K)
      BY <2>4 DEF Fail
    <3>2. PICK D, K : D \subseteq Defs /\ bundle' = Halfway(D, K)
      BY <3>1, Zenon
    <3>3. Sole
      BY DEF Assumptions
    <3> QED  BY <3>2, <3>3, HalfwayStaysFull, Zenon
  <2>5. CASE CreateOrUpdate(d) /\ ~Deploy(d) /\ ~UndeployOld(d)
    <3>1. CASE ReadCRD(d) \/ ApplyCRD(d) \/ ApplyCRDRefused(d)
      BY <1>3, <3>1 DEF ReadCRD, ApplyCRD, ApplyCRDRefused
    <3>2. CASE ReadForCA(d) \/ ApplyCA(d)
      BY <1>3, <3>2 DEF ReadForCA, ApplyCA
    <3>3. CASE ListOld(d) \/ FinishUpdate(d)
      BY <1>3, <3>3 DEF ListOld, FinishUpdate
    <3>4. CASE \E c \in Comps : Relabel(d, c)
      BY <1>3, <3>4 DEF Relabel
    <3> QED  BY <2>5, <3>1, <3>2, <3>3, <3>4 DEF CreateOrUpdate
  <2>6. CASE Delete(d)
    BY <1>2, <1>3, <2>6 DEF Delete, ListVersion, WaitGone, ListKind, Undeploy, UninstallCRD
  <2>7. CASE Observe(d) \/ Persist(d) \/ FailPersist(d) \/ ObserveUnresolved(d)
    BY <1>3, <2>7 DEF Observe, ObserveGone, ObserveMissing, ObserveOutdated, ObserveCurrent,
                      LookupFails, ObserveBundle, Finalize, Persist, FailPersist,
                      ObserveUnresolved
  <2> QED  BY <1>4, <2>1, <2>2, <2>3, <2>4, <2>5, <2>6, <2>7 DEF Reconcile, Failure
<1>5. CASE SyncRead \/ SyncApply
  BY <1>3, <1>5 DEF SyncRead, SyncApply
<1>6. CASE User
  BY <1>3, <1>6 DEF User, CreateDefinition, EditDefinition, DeleteDefinition, CreateComposition
<1>7. CASE Cluster
  <2>1. ~\E n \in Namespaces, v \in Versions : Drift(n, v)
    BY DEF Drift, Spend, LifeInv, IInv, TypeOK, Budget, Untouched
  <2> QED  BY <1>3, <1>7, <2>1 DEF Cluster, Adopt, Release, CRDCollected, CacheSync
<1>8. CASE Restart
  BY <1>8, HalfwayStaysFull DEF Restart, Assumptions
<1>9. CASE UNCHANGED vars
  BY <1>3, <1>9 DEF vars
<1> QED  BY <1>4, <1>5, <1>6, <1>7, <1>8, <1>9 DEF Next

\* The recorded status changes with Persist only, and a reconcile of a definition
\* that has converged writes back what it has read of it.
LEMMA StatusStays ==
  ASSUME Assumptions, LifeInv, [Next]_vars, NEW d \in Defs,
         cd[d].status.ver = cd[d].spec, cd[d].status.digest = cd[d].spec, cd[d].phase = "live"
  PROVE  cd'[d].status.ver = cd[d].spec /\ cd'[d].status.digest = cd[d].spec
<1>1. Copied(d, loc[d], pc[d]) /\ cd \in [Defs -> Definition]
  BY LifeTypes DEF LifeInv, Alive
<1>2. CASE UNCHANGED cd
  BY <1>2
<1>3. ASSUME NEW e \in Defs, Reconcile(e) \/ Failure(e)
      PROVE  cd'[d].status.ver = cd[d].spec /\ cd'[d].status.digest = cd[d].spec
  <2>1. e = d
    BY DEF Assumptions, Sole
  <2>2. CASE Persist(d)
    <3>1. cd'[d].status = loc[d].status /\ pc[d] = "persist"
      BY <1>1, <2>2 DEF Persist, Definition
    <3>2. loc[d].spec = cd[d].spec
      BY <1>1, <3>1 DEF Copied, Settled
    <3> QED  BY <1>1, <3>1, <3>2 DEF Copied
  <2>3. CASE Observe(d) \/ ObserveUnresolved(d)
    <3>1. UNCHANGED cd \/ Finalize(d)
      BY <2>3 DEF Observe, ObserveGone, ObserveMissing, ObserveOutdated, ObserveCurrent,
                  LookupFails, ObserveBundle, ObserveUnresolved
    <3> QED  BY <1>1, <1>2, <3>1 DEF Finalize, Definition
  <2>4. CASE CreateOrUpdate(d)
    BY <1>2, <2>4 DEF CreateOrUpdate, ReadCRD, ApplyCRD, ApplyCRDRefused, ReadForCA, ApplyCA,
                      Deploy, Deployed, UndeployOld, ListOld, FinishUpdate, Relabel
  <2>5. CASE Delete(d)
    BY <1>2, <2>5 DEF Delete, ListVersion, WaitGone, ListKind, Undeploy, Undeployed, UninstallCRD
  <2>6. CASE Fail(d) \/ FailRollout(d) \/ FailPersist(d)
    BY <1>2, <2>6 DEF Fail, FailRollout, FailPersist
  <2> QED  BY <1>3, <2>1, <2>2, <2>3, <2>4, <2>5, <2>6 DEF Reconcile, Failure
<1>4. CASE SyncRead \/ SyncApply \/ Cluster \/ Restart \/ UNCHANGED vars
  BY <1>2, <1>4 DEF SyncRead, SyncApply, Cluster, Adopt, Release, CRDCollected, CacheSync,
                    Drift, Restart, vars
<1>5. CASE User
  <2>1. CASE \E e \in Defs, v \in Versions : CreateDefinition(e, v)
    BY <1>1, <2>1 DEF CreateDefinition, Assumptions, Sole
  <2>2. CASE \E e \in Defs, v \in Versions : EditDefinition(e, v)
    <3>1. PICK e \in Defs, v \in Versions : cd' = [cd EXCEPT ![e].spec = v]
      BY <2>2 DEF EditDefinition
    <3>2. cd'[d].status = cd[d].status
      BY <1>1, <3>1 DEF Definition
    <3> QED  BY <3>2
  <2>3. CASE \E e \in Defs : DeleteDefinition(e)
    <3>1. PICK e \in Defs : cd' = [cd EXCEPT ![e].phase = "terminating"]
      BY <2>3 DEF DeleteDefinition
    <3>2. cd'[d].status = cd[d].status
      BY <1>1, <3>1 DEF Definition
    <3> QED  BY <3>2
  <2>4. CASE \E c \in Comps, v \in Versions : CreateComposition(c, v)
    BY <1>2, <2>4 DEF CreateComposition
  <2> QED  BY <1>5, <2>1, <2>2, <2>3, <2>4 DEF User
<1> QED  BY <1>3, <1>4, <1>5 DEF Next

LEMMA ConvergedStep ==
  ASSUME Assumptions, Untouched, LifeInv, [Next]_vars, NEW d \in Defs,
         cd[d].phase = "live", Converged(d), cd'[d].phase = "live", cd'[d].spec = cd[d].spec
  PROVE  Converged(d)'
<1>1. cd'[d].status.ver = cd'[d].spec /\ cd'[d].status.digest = cd'[d].spec
  BY StatusStays DEF Converged
<1>2. bundle'[NsOf[d]][cd'[d].spec] = "full"
  BY StepStaysFull DEF Converged
<1>3. LifeInv'
  BY StepAlive
<1>4. Lookup(crd, cd[d].spec)'
  BY <1>1, <1>3 DEF LifeInv, Alive, Installed, Lookup
<1>5. crd' \in CRD /\ release' \in Releases
  BY <1>3 DEF LifeInv, IInv, TypeOK
<1>6. StatusEqual(crd, GenerateCRD(cd[d].spec, release))'
  <2>1. Releases = {0}
    BY DEF Assumptions, OneWriter, Releases
  <2>2. crd'.status = 0 /\ release' = 0
    BY <1>5, <2>1 DEF CRD
  <2> QED  BY <2>2 DEF StatusEqual, GenerateCRD, NoCRD
<1> QED  BY <1>1, <1>2, <1>4, <1>6 DEF Converged, Current

\* A definition that is alone in its kind, and that users do not edit before it is
\* deployed, does not lose what it has converged to (the part of Convergence that
\* is not about progress).
THEOREM ConvergedForGood ==
  ASSUME Assumptions, Untouched
  PROVE  Spec => StaysConverged
<1>1. ASSUME LifeInv, [Next]_vars
      PROVE  [\A d \in Defs :
                /\ cd[d].phase = "live" /\ Converged(d)
                /\ cd'[d].phase = "live" /\ cd'[d].spec = cd[d].spec
                => Converged(d)']_vars
  BY <1>1, ConvergedStep
<1> QED  BY <1>1, InitiallyAlive, StepAlive, PTL DEF Spec, StaysConverged

-----------------------------------------------------------------------------
(* The charts of the versions a definition has *)

\* The versions a definition has recorded, and the one it is about to.
Own(d) == cd[d].status.known \cup {Vacuum, cd[d].spec}

\* Every version of a status has an entry, and every entry its chart.
Charted(st) == /\ st.ver # NoVersion => st.ver \in st.known
               /\ st.known \subseteq st.charts \cup {Vacuum}

\* No copy of the CRD, wherever it is held, has a version of anybody else's.
InPlace(d) == crd.versions \cup cache.versions \cup sync.versions \subseteq Own(d)

\* A reconcile with locals l at stage s forgets nothing that the definition has
\* recorded; what it is about to record from the CRD is its own version only.
Tracked(d, l, s) ==
  /\ l.seen.versions \subseteq Own(d)
  /\ s # "idle" => /\ Charted(l.status)
                   /\ cd[d].status.known \subseteq l.status.known
                   /\ l.spec \in Own(d)
  /\ s = "observeBundle" => /\ l.seen.versions \subseteq l.status.known \cup {Vacuum, l.spec}
                            /\ l.spec \in l.seen.versions
  /\ s \in Migrating => l.status.ver # NoVersion

\* All of it: what is recorded, the copies of the CRD, and the reconcile.
Traced(d) == /\ cd[d].phase = "new" => cd[d].spec = NoVersion
             /\ Charted(cd[d].status) /\ InPlace(d) /\ Tracked(d, loc[d], pc[d])
TraceInv == IInv /\ \A d \in Defs : Traced(d)

\* What is assumed here: the definition is alone in its kind, and its version is
\* not edited before the last one is deployed.
Patient == Sole /\ "editSettled" \in Discipline

LEMMA RefreshedCharted ==
  ASSUME NEW st \in Status, NEW c \in CRD, NEW v \in Versions, Charted(st),
         v \in c.versions, c.versions \subseteq st.known \cup {Vacuum, v}
  PROVE  LET r == Refreshed(st, c, v)
         IN Charted(r) /\ st.known \subseteq r.known
<1> DEFINE r == Refreshed(st, c, v)
<1>1. /\ r.ver = v /\ r.known = st.known \cup c.versions
      /\ r.charts = IF v \in c.versions \ st.known THEN st.charts \cup {v} ELSE st.charts
  BY DEF Refreshed, Status
<1>2. r.known \subseteq r.charts \cup {Vacuum}
  BY <1>1 DEF Charted
<1> QED  BY <1>1, <1>2 DEF Charted

LEMMA AppliedVersions ==
  ASSUME NEW c \in CRD, NEW v \in Versions, NEW r \in Releases
  PROVE  ToApply(c, v, r).versions \subseteq c.versions \cup {v, Vacuum}
<1>1. CASE ~Exists(c)
  BY <1>1 DEF ToApply, GenerateCRD, NoCRD
<1>2. CASE Exists(c) /\ ~StatusEqual(c, GenerateCRD(v, r))
  BY <1>2 DEF ToApply, UpdateStatus, CRD
<1>3. CASE Exists(c) /\ StatusEqual(c, GenerateCRD(v, r))
  <2> DEFINE a == AppendVersion(c, v)
             s == SetServedStorage(InjectConversion(a), v, TRUE, FALSE)
  <2>1. ToApply(c, v, r) = s
    BY <1>3 DEF ToApply
  <2>2. a.versions \subseteq c.versions \cup {v, Vacuum} /\ InjectConversion(a).versions = a.versions
    BY DEF AppendVersion, InjectConversion, CRD
  <2>3. s.versions = InjectConversion(a).versions
    BY DEF SetServedStorage, InjectConversion, AppendVersion, CRD
  <2> QED  BY <2>1, <2>2, <2>3
<1> QED  BY <1>1, <1>2, <1>3

\* A step of the reconciler keeps the invariant if it keeps the part of d.
LEMMA TraceStep ==
  ASSUME Sole, NEW d \in Defs, TraceInv, UNCHANGED cd,
         (crd.versions \cup cache.versions \cup sync.versions)' \subseteq Own(d),
         Tracked(d, loc'[d], pc'[d])
  PROVE  \A e \in Defs : Traced(e)'
<1>1. /\ Charted(cd[d].status)' /\ InPlace(d)'
      /\ (cd[d].phase = "new" => cd[d].spec = NoVersion)'
  BY DEF TraceInv, Traced, Charted, InPlace, Own
<1>2. Tracked(d, loc[d], pc[d])'
  BY DEF Tracked, Own, Charted
<1> QED  BY <1>1, <1>2 DEF Sole, Traced

\* A reconcile that goes on with the status and the version it has.
LEMMA TraceOn ==
  ASSUME NEW d \in Defs, NEW k, NEW s, NEW l, NEW t, Tracked(d, k, s), s # "idle",
         l.spec = k.spec, l.status = k.status, l.seen.versions \subseteq Own(d),
         t # "observeBundle", t \in Migrating => s \in Migrating
  PROVE  Tracked(d, l, t)
BY DEF Tracked

LEMMA IdleTracked == ASSUME NEW d \in Defs PROVE Tracked(d, NoLocals, "idle")
BY DEF Tracked, NoLocals, NoCRD, Migrating

LEMMA TraceTypes ==
  ASSUME TraceInv, NEW d \in Defs
  PROVE  /\ crd.versions \subseteq Own(d) /\ cache.versions \subseteq Own(d)
         /\ sync.versions \subseteq Own(d) /\ loc[d].seen.versions \subseteq Own(d)
         /\ loc[d].seen \in CRD /\ NoCRD.versions = {}
         /\ Tracked(d, loc[d], pc[d]) /\ Charted(cd[d].status)
<1>1. loc[d].seen \in CRD
  BY LifeTypes DEF TraceInv, Locals
<1> QED  BY <1>1 DEF TraceInv, Traced, InPlace, Tracked, NoCRD

LEMMA BeginTraced ==
  ASSUME TraceInv, NEW d \in Defs, Present(d), NEW op, NEW s, Begin(d, op, s),
         s \in {"observeBundle", "readCRD", "listVersion"},
         s = "observeBundle" => op = "none" /\ Lookup(cache, cd[d].spec)
  PROVE  Tracked(d, loc'[d], pc'[d])
<1>1. loc \in [Defs -> Locals] /\ pc \in [Defs -> Stages]
  BY LifeTypes DEF TraceInv
<1>2. /\ pc'[d] = s /\ loc'[d].spec = cd[d].spec /\ loc'[d].status = cd[d].status
      /\ loc'[d].seen = IF op = "none" THEN cache ELSE NoCRD
  BY <1>1 DEF Begin, Goto, NoLocals
<1>3. loc'[d].seen.versions \subseteq Own(d)
  BY <1>2, TraceTypes
<1>4. s = "observeBundle" => /\ loc'[d].seen = cache
                             /\ cd[d].spec \in loc'[d].seen.versions
  BY <1>2 DEF Lookup
<1> QED  BY <1>2, <1>3, <1>4, TraceTypes DEF Tracked, Own, Migrating

LEMMA ObserveTraced ==
  ASSUME Sole, TraceInv, NEW d \in Defs, Observe(d) \/ ObserveUnresolved(d)
  PROVE  \A e \in Defs : Traced(e)'
<1>0. loc \in [Defs -> Locals] /\ pc \in [Defs -> Stages] /\ cd \in [Defs -> Definition]
  BY LifeTypes DEF TraceInv
<1>1. CASE ObserveGone(d) \/ ObserveUnresolved(d)
  <2>1. Finalize(d)
    BY <1>1 DEF ObserveGone, ObserveUnresolved
  <2>2. /\ cd'[d].status = cd[d].status /\ cd'[d].spec = cd[d].spec /\ cd'[d].phase = "gone"
        /\ UNCHANGED <<loc, pc, crd, cache, sync>>
    BY <1>0, <2>1 DEF Finalize, Definition
  <2>3. Traced(d)'
    BY <2>2 DEF TraceInv, Traced, Charted, InPlace, Tracked, Own
  <2> QED  BY <2>3 DEF Sole
<1>2. CASE ObserveMissing(d) \/ ObserveOutdated(d) \/ ObserveCurrent(d)
  <2>1. Present(d) /\ UNCHANGED <<cd, crd, cache, sync>>
    BY <1>2 DEF ObserveMissing, ObserveOutdated, ObserveCurrent, Present
  <2>2. Tracked(d, loc'[d], pc'[d])
    BY <1>2, <2>1, BeginTraced DEF ObserveMissing, ObserveOutdated, ObserveCurrent, BeginRepair
  <2> QED  BY <2>1, <2>2, TraceTypes, TraceStep
<1>4. CASE LookupFails(d)
  <2>1. /\ UNCHANGED <<cd, crd, cache, sync>> /\ loc'[d] = NoLocals /\ pc'[d] = "idle"
    BY <1>0, <1>4 DEF LookupFails, Goto
  <2> QED  BY <2>1, IdleTracked, TraceTypes, TraceStep
<1>3. CASE ObserveBundle(d)
  <2> DEFINE l == loc[d]
             st == IF UpToDate(d) THEN Refreshed(l.status, l.seen, l.spec) ELSE l.status
  <2>1. /\ Tracked(d, l, "observeBundle") /\ pc[d] = "observeBundle"
        /\ UNCHANGED <<cd, crd, cache, sync>> /\ l.status \in Status
        /\ l.spec \in Versions /\ l.seen \in CRD
    BY <1>3, TraceTypes, LifeTypes DEF ObserveBundle, TraceInv
  <2>2. Charted(st) /\ cd[d].status.known \subseteq st.known
    <3>1. CASE UpToDate(d)
      <4>1. Charted(st) /\ l.status.known \subseteq st.known
        BY <2>1, <3>1, RefreshedCharted DEF Tracked
      <4> QED  BY <2>1, <4>1 DEF Tracked
    <3>2. CASE ~UpToDate(d)
      BY <2>1, <3>2 DEF Tracked
    <3> QED  BY <3>1, <3>2
  <2>3. CASE loc'[d] = NoLocals /\ pc'[d] = "idle"
    BY <2>1, <2>3, IdleTracked, TraceTypes, TraceStep
  <2>4. CASE /\ loc'[d].status = st /\ loc'[d].spec = l.spec /\ loc'[d].seen = NoCRD
             /\ pc'[d] \in {"listVersion", "readCRD", "persist"}
    <3>1. Tracked(d, loc'[d], pc'[d])
      BY <2>1, <2>2, <2>4, TraceTypes DEF Tracked, Migrating
    <3> QED  BY <2>1, <3>1, TraceTypes, TraceStep
  <2>5. \/ loc'[d] = NoLocals /\ pc'[d] = "idle"
        \/ /\ loc'[d].status = st /\ loc'[d].spec = l.spec /\ loc'[d].seen = NoCRD
           /\ pc'[d] \in {"listVersion", "readCRD", "persist"}
    BY <1>0, <1>3 DEF ObserveBundle, Goto, Target, Locals
  <2> QED  BY <2>3, <2>4, <2>5
<1> QED  BY <1>1, <1>2, <1>3, <1>4 DEF Observe

\* Steps that leave the CRD and what is recorded alone.
LEMMA PlainTraced ==
  ASSUME Sole, TraceInv, NEW d \in Defs,
         \/ ReadCRD(d) \/ ReadForCA(d) \/ ApplyCRDRefused(d) \/ ListOld(d)
         \/ (\E c \in Comps : Relabel(d, c)) \/ ListVersion(d) \/ WaitGone(d) \/ ListKind(d)
         \/ Undeploy(d) \/ Fail(d) \/ FailRollout(d)
  PROVE  \A e \in Defs : Traced(e)'
<1>0. loc \in [Defs -> Locals] /\ pc \in [Defs -> Stages]
  BY LifeTypes DEF TraceInv
<1>1. UNCHANGED <<cd, crd, cache, sync>>
  BY DEF ReadCRD, ReadForCA, ApplyCRDRefused, ListOld, Relabel, ListVersion, WaitGone,
         ListKind, Undeploy, Undeployed, Fail, FailRollout
<1>2. /\ pc[d] # "idle" /\ pc'[d] # "observeBundle"
      /\ pc'[d] \in Migrating => pc[d] \in Migrating
  <2>1. CASE ReadCRD(d) \/ ReadForCA(d) \/ ApplyCRDRefused(d) \/ FailRollout(d)
    BY <1>0, <2>1 DEF ReadCRD, ReadForCA, ApplyCRDRefused, FailRollout, Goto, Migrating
  <2>2. CASE ListOld(d) \/ (\E c \in Comps : Relabel(d, c)) \/ ListVersion(d)
    BY <1>0, <2>2 DEF ListOld, Relabel, ListVersion, Goto, Migrating
  <2>3. CASE WaitGone(d) \/ ListKind(d) \/ Undeploy(d)
    BY <1>0, <2>3 DEF WaitGone, ListKind, Undeploy, Undeployed, Goto, Migrating
  <2>4. CASE Fail(d)
    <3>1. FaultOf[pc[d]] # "none" /\ pc'[d] = "persist"
      BY <1>0, <2>4, FaultyAssumption DEF Fail, FaultKinds, Goto
    <3>2. FaultOf["idle"] = "none"
      BY DEF FaultOf, Stages
    <3> QED  BY <3>1, <3>2 DEF Migrating
  <2> QED  BY <2>1, <2>2, <2>3, <2>4
<1>3. /\ loc'[d].spec = loc[d].spec /\ loc'[d].status = loc[d].status
      /\ loc'[d].seen \in {loc[d].seen, NoCRD, cache, crd}
  <2>1. CASE ReadCRD(d) \/ ReadForCA(d) \/ ApplyCRDRefused(d) \/ FailRollout(d)
    BY <1>0, <2>1 DEF ReadCRD, ReadForCA, ApplyCRDRefused, FailRollout, Locals
  <2>2. CASE ListOld(d) \/ (\E c \in Comps : Relabel(d, c)) \/ ListVersion(d)
    BY <1>0, <2>2 DEF ListOld, Relabel, ListVersion, Locals
  <2>3. CASE WaitGone(d) \/ ListKind(d) \/ Undeploy(d)
    BY <1>0, <2>3 DEF WaitGone, ListKind, Undeploy, Undeployed, Locals
  <2>4. CASE Fail(d)
    BY <1>0, <2>4 DEF Fail, Locals
  <2> QED  BY <2>1, <2>2, <2>3, <2>4
<1>4. loc'[d].seen.versions \subseteq Own(d)
  BY <1>3, TraceTypes
<1>5. Tracked(d, loc'[d], pc'[d])
  BY <1>2, <1>3, <1>4, TraceTypes, TraceOn
<1> QED  BY <1>1, <1>5, TraceTypes, TraceStep

\* The writes of the CRD, from the copy that was read.
LEMMA WriteTraced ==
  ASSUME Sole, TraceInv, NEW d \in Defs, ApplyCRD(d) \/ ApplyCA(d)
  PROVE  \A e \in Defs : Traced(e)'
<1> DEFINE a == ToApply(loc[d].seen, Target(d), release)
<1>0. /\ loc \in [Defs -> Locals] /\ pc \in [Defs -> Stages]
      /\ release \in Releases /\ IInv /\ loc[d].seen \in CRD
  BY LifeTypes, TraceTypes DEF TraceInv, IInv, TypeOK
<1>1. /\ UNCHANGED <<cd, cache, sync>> /\ pc[d] # "idle"
      /\ pc'[d] \notin Migrating \cup {"observeBundle", "idle"}
      /\ loc'[d] = [loc[d] EXCEPT !.seen = NoCRD]
  BY <1>0 DEF ApplyCRD, ApplyCA, Goto, Migrating
<1>2. Tracked(d, loc'[d], pc'[d])
  <2>1. loc'[d].spec = loc[d].spec /\ loc'[d].status = loc[d].status /\ loc'[d].seen = NoCRD
    BY <1>0, <1>1 DEF Locals
  <2> QED  BY <1>1, <2>1, TraceTypes, TraceOn
<1>3. CASE UNCHANGED crd
  BY <1>1, <1>2, <1>3, TraceTypes, TraceStep
<1>4. CASE ApplyCRD(d)
  <2>1. WriteCRD(a) /\ pc[d] = "applyCRD" /\ loc[d].spec \in Versions
    BY <1>0, <1>4, LifeTypes DEF ApplyCRD
  <2>2. a \in CRD /\ WellFormed(a)
    BY <1>0, <2>1, ToApplySound DEF IInv, Pending, SoundCRDs, Target
  <2>3. a.versions \subseteq loc[d].seen.versions \cup {loc[d].spec, Vacuum}
    BY <1>0, <2>1, AppliedVersions DEF Target
  <2>4. crd'.versions \subseteq Own(d)
    BY <1>0, <2>1, <2>2, <2>3, Written, TraceTypes DEF Tracked, Own
  <2> QED  BY <1>1, <1>2, <2>4, TraceTypes, TraceStep
<1>5. CASE WriteCRD(loc[d].seen) /\ Cardinality(loc[d].seen.versions) > 1
  <2>1. WellFormed(loc[d].seen)
    BY <1>0, <1>1, <1>5, SeenSound
  <2>2. crd'.versions \subseteq Own(d)
    BY <1>0, <1>5, <2>1, Written, TraceTypes
  <2> QED  BY <1>1, <1>2, <2>2, TraceTypes, TraceStep
<1> QED  BY <1>3, <1>4, <1>5 DEF ApplyCA

\* The bundle is deployed, and the version recorded once the old one is down.
LEMMA RecordTraced ==
  ASSUME Sole, TraceInv, NEW d \in Defs, Deploy(d) \/ FinishUpdate(d)
  PROVE  \A e \in Defs : Traced(e)'
<1> DEFINE l == loc[d]
           done == [l.status EXCEPT !.digest = l.spec]
           g == GenerateCRD(l.spec, release)
<1>0. /\ loc \in [Defs -> Locals] /\ pc \in [Defs -> Stages] /\ l.status \in Status
      /\ Tracked(d, l, pc[d]) /\ pc[d] # "idle" /\ l.spec \in Versions /\ release \in Releases
  BY LifeTypes, TraceTypes DEF TraceInv, IInv, TypeOK, Deploy, FinishUpdate
<1>1. UNCHANGED <<cd, crd, cache, sync>>
  BY DEF Deploy, Deployed, FinishUpdate
<1>2. /\ done \in Status /\ done.ver = l.status.ver /\ done.known = l.status.known
      /\ Charted(done) /\ Charted(l.status)
  <2>1. /\ done \in Status /\ done.ver = l.status.ver /\ done.known = l.status.known
        /\ done.charts = l.status.charts
    BY <1>0 DEF Status
  <2> QED  BY <1>0, <2>1 DEF Tracked, Charted
<1>3. g \in CRD /\ g.versions = {l.spec}
  <2>1. g \in CRD
    BY <1>0, GenerateSound
  <2>2. g.versions = {l.spec}
    BY DEF GenerateCRD, NoCRD
  <2> QED  BY <2>1, <2>2
<1> DEFINE r(st) == Refreshed(st, g, l.spec)
<1>4. \A st \in {done, l.status} : Charted(r(st)) /\ cd[d].status.known \subseteq r(st).known
  <2>1. \A st \in {done, l.status} : Charted(r(st)) /\ st.known \subseteq r(st).known
    BY <1>0, <1>2, <1>3, RefreshedCharted
  <2> QED  BY <1>0, <1>2, <2>1 DEF Tracked
<1>5. /\ loc'[d].spec = l.spec /\ loc'[d].seen = l.seen
      /\ loc'[d].status \in {done, r(done), r(l.status)}
      /\ pc'[d] \in {"persist", "undeployOld", "listOld"}
      /\ pc'[d] # "persist" => loc'[d].status = done /\ l.status.ver # NoVersion
  <2>1. CASE FinishUpdate(d)
    BY <1>0, <2>1 DEF FinishUpdate, Goto, Target, Locals
  <2>2. CASE Deploy(d)
    BY <1>0, <2>2 DEF Deploy, Deployed, Goto, Locals
  <2> QED  BY <2>1, <2>2
<1>6. Charted(loc'[d].status) /\ cd[d].status.known \subseteq loc'[d].status.known
  BY <1>0, <1>2, <1>4, <1>5 DEF Tracked
<1>7. Tracked(d, loc'[d], pc'[d])
  BY <1>0, <1>2, <1>5, <1>6 DEF Tracked, Migrating
<1> QED  BY <1>1, <1>7, TraceTypes, TraceStep

LEMMA UndeployOldTraced ==
  ASSUME Sole, TraceInv, NEW d \in Defs, UndeployOld(d) \/ UninstallCRD(d)
  PROVE  \A e \in Defs : Traced(e)'
<1>0. /\ loc \in [Defs -> Locals] /\ pc \in [Defs -> Stages] /\ crd \in CRD
  BY LifeTypes DEF TraceInv
<1>1. UNCHANGED <<cd, cache, sync>> /\ crd'.versions = crd.versions
  BY <1>0 DEF UndeployOld, UninstallCRD, CRD
<1>2. CASE loc'[d] = NoLocals /\ pc'[d] = "idle"
  BY <1>1, <1>2, IdleTracked, TraceTypes, TraceStep
<1>3. CASE /\ loc'[d].spec = loc[d].spec /\ loc'[d].status = loc[d].status
           /\ loc'[d].seen = loc[d].seen /\ pc[d] # "idle" /\ pc'[d] # "observeBundle"
           /\ pc'[d] \in Migrating => pc[d] \in Migrating
  <2>1. Tracked(d, loc'[d], pc'[d])
    BY <1>3, TraceTypes, TraceOn
  <2> QED  BY <1>1, <2>1, TraceTypes, TraceStep
<1>4. CASE UndeployOld(d)
  BY <1>0, <1>2, <1>3, <1>4 DEF UndeployOld, Goto, Migrating
<1>5. CASE UninstallCRD(d)
  BY <1>0, <1>3, <1>5 DEF UninstallCRD, Goto, Migrating, Locals
<1> QED  BY <1>4, <1>5

\* The status is written back, or the write is lost.
LEMMA PersistTraced ==
  ASSUME Sole, TraceInv, NEW d \in Defs, Persist(d) \/ FailPersist(d)
  PROVE  \A e \in Defs : Traced(e)'
<1>0. loc \in [Defs -> Locals] /\ pc \in [Defs -> Stages] /\ cd \in [Defs -> Definition]
  BY LifeTypes DEF TraceInv
<1>1. /\ UNCHANGED <<crd, cache, sync>> /\ loc'[d] = NoLocals /\ pc'[d] = "idle"
      /\ pc[d] = "persist"
  BY <1>0 DEF Persist, FailPersist, Goto
<1>2. CASE FailPersist(d)
  BY <1>1, <1>2, IdleTracked, TraceTypes, TraceStep DEF FailPersist
<1>3. CASE Persist(d)
  <2>1. /\ cd'[d].status = loc[d].status /\ cd'[d].spec = cd[d].spec
        /\ cd'[d].phase \in {"gone", cd[d].phase}
    BY <1>0, <1>3 DEF Persist, Definition
  <2>2. Charted(loc[d].status) /\ cd[d].status.known \subseteq loc[d].status.known
    BY <1>1, TraceTypes DEF Tracked
  <2>3. Charted(cd[d].status)'
    BY <2>1, <2>2 DEF Charted
  <2>4. Own(d) \subseteq Own(d)'
    BY <2>1, <2>2 DEF Own
  <2>5. InPlace(d)'
    BY <1>1, <2>4, TraceTypes DEF InPlace
  <2>6. Tracked(d, loc[d], pc[d])'
    BY <1>1 DEF Tracked, NoLocals, NoCRD, Migrating
  <2> QED  BY <2>1, <2>3, <2>5, <2>6 DEF TraceInv, Traced, Sole
<1> QED  BY <1>2, <1>3

LEMMA UserTraced ==
  ASSUME Patient, TraceInv, User
  PROVE  \A e \in Defs : Traced(e)'
<1> SUFFICES ASSUME NEW d \in Defs PROVE Traced(d)'
  OBVIOUS
<1>0. cd \in [Defs -> Definition] /\ IInv /\ Traced(d)
  BY LifeTypes DEF TraceInv
<1>1. UNCHANGED <<crd, cache, sync, loc, pc>>
  BY DEF User, CreateDefinition, EditDefinition, DeleteDefinition, CreateComposition
<1>2. CASE cd'[d].spec = cd[d].spec /\ cd'[d].status = cd[d].status
           /\ (cd'[d].phase = "new" => cd[d].phase = "new")
  BY <1>0, <1>1, <1>2 DEF Traced, Charted, InPlace, Tracked, Own
<1>3. CASE /\ cd'[d].status = cd[d].status /\ cd'[d].phase = "live"
           /\ cd[d].spec = NoVersion \/ cd[d].spec = cd[d].status.ver
  <2>1. \A v \in AllVersions : v \in Own(d) => v \in Own(d)'
    BY <1>0, <1>3, NoVersionAssumption DEF Own, Traced, Charted
  <2>2. \A c \in CRD : c.versions \subseteq AllVersions
    BY DEF CRD
  <2>3. /\ crd \in CRD /\ cache \in CRD /\ sync \in CRD /\ loc[d].seen \in CRD
        /\ pc[d] # "idle" => loc[d].spec \in AllVersions
    BY <1>0, LifeTypes, TraceTypes DEF IInv, TypeOK, AllVersions
  <2>4. InPlace(d)'
    BY <1>0, <1>1, <2>1, <2>2, <2>3 DEF Traced, InPlace
  <2>5. Tracked(d, loc[d], pc[d])'
    <3>1. loc[d].seen.versions \subseteq Own(d)'
      BY <1>0, <2>1, <2>2, <2>3 DEF Traced, Tracked
    <3>2. pc[d] # "idle" => loc[d].spec \in Own(d)'
      BY <1>0, <2>1, <2>3 DEF Traced, Tracked
    <3> QED  BY <1>0, <1>1, <1>3, <3>1, <3>2 DEF Traced, Tracked, Charted
  <2> QED  BY <1>0, <1>3, <2>4, <2>5 DEF Traced, Charted
<1>4. CASE \E e \in Defs, v \in Versions : CreateDefinition(e, v)
  <2>1. PICK e \in Defs, v \in Versions : CreateDefinition(e, v)
    BY <1>4
  <2>2. e = d
    BY DEF Patient, Sole
  <2>3. /\ cd[d].phase = "new" /\ cd'[d].status = cd[d].status /\ cd'[d].phase = "live"
    BY <1>0, <2>1, <2>2 DEF CreateDefinition, Definition
  <2> QED  BY <1>0, <1>3, <2>3 DEF Traced
<1>5. CASE \E e \in Defs, v \in Versions : EditDefinition(e, v)
  <2>1. PICK e \in Defs, v \in Versions : EditDefinition(e, v)
    BY <1>5
  <2>2. e = d
    BY DEF Patient, Sole
  <2>3. /\ cd'[d].status = cd[d].status /\ cd'[d].phase = "live"
        /\ cd[d].spec = cd[d].status.ver
    BY <1>0, <2>1, <2>2 DEF EditDefinition, Definition, Settled, Patient
  <2> QED  BY <1>3, <2>3
<1>6. CASE \E e \in Defs : DeleteDefinition(e)
  <2>1. PICK e \in Defs : DeleteDefinition(e)
    BY <1>6
  <2>2. e = d
    BY DEF Patient, Sole
  <2>3. /\ cd'[d].spec = cd[d].spec /\ cd'[d].status = cd[d].status
        /\ cd'[d].phase = "terminating"
    BY <1>0, <2>1, <2>2 DEF DeleteDefinition, Definition
  <2> QED  BY <1>2, <2>3
<1>7. CASE \E c \in Comps, v \in Versions : CreateComposition(c, v)
  BY <1>2, <1>7 DEF CreateComposition
<1> QED  BY <1>4, <1>5, <1>6, <1>7 DEF User

\* The refresher writes back a copy of the CRD; the cache, the API server and a
\* restart copy it or drop it.
LEMMA CopiesTraced ==
  ASSUME Sole, TraceInv, SyncRead \/ SyncApply \/ Cluster \/ Restart
  PROVE  \A e \in Defs : Traced(e)'
<1> SUFFICES ASSUME NEW d \in Defs PROVE Traced(d)'
  OBVIOUS
<1>0. IInv /\ UNCHANGED cd /\ NoCRD.versions = {}
  BY TraceTypes DEF TraceInv, SyncRead, SyncApply, Cluster, Adopt, Release, CRDCollected, CacheSync,
         Drift, Restart
<1>1. (crd.versions \cup cache.versions \cup sync.versions)' \subseteq Own(d)
  <2>1. CASE SyncApply /\ WriteCRD(sync)
    <3>1. WellFormed(sync) /\ sync \in CRD
      BY <1>0, <2>1 DEF SyncApply, IInv, SoundCRDs, Sound, TypeOK
    <3>2. crd'.versions = sync.versions
      BY <1>0, <2>1, <3>1, Written
    <3> QED  BY <1>0, <2>1, <3>2, TraceTypes DEF SyncApply
  <2>2. CASE SyncApply /\ UNCHANGED crd
    BY <1>0, <2>2, TraceTypes DEF SyncApply
  <2>3. CASE SyncRead
    BY <2>3, TraceTypes DEF SyncRead
  <2>4. CASE Cluster
    BY <1>0, <2>4, TraceTypes DEF Cluster, Adopt, Release, CRDCollected, CacheSync, Drift
  <2>5. CASE Restart
    BY <1>0, <2>5, TraceTypes DEF Restart
  <2> QED  BY <2>1, <2>2, <2>3, <2>4, <2>5 DEF SyncApply
<1>2. Tracked(d, loc'[d], pc'[d])
  <2>1. CASE UNCHANGED <<loc, pc>>
    BY <2>1, TraceTypes
  <2>2. CASE Restart
    BY <2>2, IdleTracked DEF Restart
  <2> QED  BY <2>1, <2>2 DEF SyncRead, SyncApply, Cluster, Adopt, Release, CRDCollected,
                             CacheSync, Drift
<1> QED  BY <1>0, <1>1, <1>2, TraceStep

LEMMA InitiallyTraced == Init => TraceInv
<1> SUFFICES ASSUME Init PROVE TraceInv
  OBVIOUS
<1>1. ASSUME NEW d \in Defs PROVE Traced(d)
  <2>1. /\ cd[d].spec = NoVersion /\ cd[d].status = NoStatus /\ loc[d] = NoLocals
        /\ pc[d] = "idle" /\ crd = NoCRD /\ cache = NoCRD /\ sync = NoCRD
    BY DEF Init
  <2>2. InPlace(d)
    BY <2>1 DEF InPlace, NoCRD
  <2>3. Charted(NoStatus)
    BY DEF Charted, NoStatus
  <2> QED  BY <2>1, <2>2, <2>3, IdleTracked DEF Traced
<1> QED  BY <1>1, InitInvariant DEF TraceInv

LEMMA StepTraced == ASSUME Patient, TraceInv, [Next]_vars PROVE TraceInv'
<1> SUFFICES \A e \in Defs : Traced(e)'
  BY StepInvariant DEF TraceInv
<1>2. ASSUME NEW d \in Defs, Reconcile(d) \/ Failure(d)
      PROVE  \A e \in Defs : Traced(e)'
  <2>1. Sole
    BY DEF Patient
  <2>2. CASE Observe(d) \/ ObserveUnresolved(d)
    BY <2>1, <2>2, ObserveTraced
  <2>3. CASE CreateOrUpdate(d)
    <3>1. CASE ApplyCRD(d) \/ ApplyCA(d)
      BY <2>1, <3>1, WriteTraced
    <3>2. CASE Deploy(d) \/ FinishUpdate(d)
      BY <2>1, <3>2, RecordTraced
    <3>3. CASE UndeployOld(d)
      BY <2>1, <3>3, UndeployOldTraced
    <3>4. CASE \/ ReadCRD(d) \/ ReadForCA(d) \/ ApplyCRDRefused(d) \/ ListOld(d)
               \/ \E c \in Comps : Relabel(d, c)
      BY <2>1, <3>4, PlainTraced
    <3> QED  BY <2>3, <3>1, <3>2, <3>3, <3>4 DEF CreateOrUpdate
  <2>4. CASE Delete(d)
    BY <2>1, <2>4, PlainTraced, UndeployOldTraced DEF Delete
  <2>5. CASE Persist(d) \/ FailPersist(d)
    BY <2>1, <2>5, PersistTraced
  <2>6. CASE Fail(d) \/ FailRollout(d)
    BY <2>1, <2>6, PlainTraced
  <2> QED  BY <1>2, <2>2, <2>3, <2>4, <2>5, <2>6 DEF Reconcile, Failure
<1>3. CASE User
  BY <1>3, UserTraced
<1>4. CASE SyncRead \/ SyncApply \/ Cluster \/ Restart
  BY <1>4, CopiesTraced DEF Patient
<1>5. CASE UNCHANGED vars
  BY <1>5 DEF vars, TraceInv, Traced, Charted, InPlace, Tracked, Own
<1> QED  BY <1>2, <1>3, <1>4, <1>5 DEF Next

LEMMA ChartOfVersion ==
  ASSUME NEW st \in Status, Charted(st), st.ver # NoVersion
  PROVE  st.ver \in st.charts
BY VersionsAssumption DEF Charted, Status

\* A definition alone in its kind, whose version is edited only when the last one
\* is deployed, has the chart of the version it records, whichever faults,
\* restarts, stale copies of the CRD and releases of core-provider it goes
\* through: status.go:15-16 is then true.
THEOREM OwnChartsRecorded == ASSUME Patient PROVE Spec => []ChartRecorded
<1>1. TraceInv => ChartRecorded
  <2> SUFFICES ASSUME TraceInv, NEW d \in Defs, cd[d].status.ver # NoVersion
               PROVE  cd[d].status.ver \in cd[d].status.charts
    BY DEF ChartRecorded
  <2> QED  BY LifeTypes, TraceTypes, ChartOfVersion DEF TraceInv
<1> QED  BY <1>1, InitiallyTraced, StepTraced, PTL DEF Spec

\* Nor does its Update, then, ever dereference a chart that is not there when it
\* takes the old bundle down (deploy.go:572).
THEOREM UndeployNeverPanics == ASSUME Patient PROVE Spec => []UndeployFindsChart
<1>1. TraceInv => UndeployFindsChart
  <2> SUFFICES ASSUME TraceInv, NEW d \in Defs, pc[d] = "undeployOld"
               PROVE  loc[d].status.ver \in loc[d].status.charts
    BY DEF UndeployFindsChart
  <2>1. Charted(loc[d].status) /\ loc[d].status.ver # NoVersion /\ loc[d].status \in Status
    BY TraceTypes, LifeTypes DEF Tracked, Migrating, TraceInv
  <2> QED  BY <2>1, ChartOfVersion
<1> QED  BY <1>1, InitiallyTraced, StepTraced, PTL DEF Spec
=============================================================================
