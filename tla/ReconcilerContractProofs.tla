------------------------ MODULE ReconcilerContractProofs ------------------------
(***************************************************************************)
(* The reconciler uses the controller bundles as BundleContract has it,    *)
(* for any number of definitions, namespaces and versions.  (That Deploy   *)
(* and Undeploy keep the contract, object by object, is shown in           *)
(* ControllerBundleProofs.)                                                *)
(***************************************************************************)
EXTENDS CompositionDefinitionsProofs

Removing == {"undeploy", "undeployOld"}
Busy == {"deploy"} \cup Removing
Deployers(n, v) == AtBundle(n, v, {"deploy"})
Removers(n, v) == AtBundle(n, v, {"undeploy", "undeployOld"})

\* d is the only definition whose reconcile moves.
Moved(d) == \A e \in Defs \ {d} : pc'[e] = pc[e] /\ loc'[e] = loc[e]

\* What a step of the reconciler does to the bundle of n and v.
Simulated(n, v) == Contract(n, v)!Next \/ UNCHANGED Contract(n, v)!vars

LEMMA OthersStay ==
  ASSUME NEW d \in Defs, Moved(d), NEW n \in Namespaces, NEW v \in Versions
  PROVE  /\ Deployers(n, v)' \ {d} = Deployers(n, v) \ {d}
         /\ Removers(n, v)' \ {d} = Removers(n, v) \ {d}
  BY DEF Moved, Deployers, Removers, AtBundle, Subject, Target

\* A reconcile comes to a bundle, or goes on to something else than a bundle.
LEMMA Arrives ==
  ASSUME NEW d \in Defs, Moved(d), NEW n \in Namespaces, NEW v \in Versions,
         d \notin Deployers(n, v) \cup Removers(n, v),
         BundleState(n, v)' = BundleState(n, v)
  PROVE  Simulated(n, v)
<1> USE DEF Deployers, Removers
<1>1. /\ Deployers(n, v)' \ {d} = Deployers(n, v)
      /\ Removers(n, v)' \ {d} = Removers(n, v)
  BY OthersStay
<1>2. d \notin Deployers(n, v)' \/ d \notin Removers(n, v)'
  BY DEF AtBundle
<1>3. CASE d \in Deployers(n, v)' \cup Removers(n, v)'
  <2>1. Contract(n, v)!Begin(d)
    BY <1>1, <1>2, <1>3 DEF Contract!Begin
  <2> QED  BY <2>1 DEF Simulated, Contract!Next
<1>4. CASE d \notin Deployers(n, v)' \cup Removers(n, v)'
  BY <1>1, <1>4 DEF Simulated, Contract!vars
<1> QED  BY <1>3, <1>4

\* A reconcile is done with a bundle, or gives it up.
LEMMA LeavesDeployed ==
  ASSUME NEW d \in Defs, Moved(d), NEW n \in Namespaces, NEW v \in Versions,
         d \in Deployers(n, v), d \notin Deployers(n, v)' \cup Removers(n, v)',
         BundleState(n, v)' \in {BundleState(n, v), "full"}
           \cup (IF BundleState(n, v) = "absent" THEN {"broken"} ELSE {})
  PROVE  Simulated(n, v)
<1> USE DEF Deployers, Removers
<1>1. d \notin Removers(n, v)
  BY DEF AtBundle
<1>2. /\ Deployers(n, v)' = Deployers(n, v) \ {d}
      /\ Removers(n, v)' = Removers(n, v)
  BY <1>1, OthersStay
<1>3. Contract(n, v)!Write(d)
  BY <1>2 DEF Contract!Write
<1> QED  BY <1>3 DEF Simulated, Contract!Next

LEMMA LeavesRemoved ==
  ASSUME NEW d \in Defs, Moved(d), NEW n \in Namespaces, NEW v \in Versions,
         d \in Removers(n, v), d \notin Deployers(n, v)' \cup Removers(n, v)',
         BundleState(n, v)' \in {BundleState(n, v), "absent"}
           \cup (IF BundleState(n, v) = "full" THEN {"broken"} ELSE {})
  PROVE  Simulated(n, v)
<1> USE DEF Deployers, Removers
<1>1. d \notin Deployers(n, v)
  BY DEF AtBundle
<1>2. /\ Deployers(n, v)' = Deployers(n, v)
      /\ Removers(n, v)' = Removers(n, v) \ {d}
  BY <1>1, OthersStay
<1>3. Contract(n, v)!Remove(d)
  BY <1>2 DEF Contract!Remove
<1> QED  BY <1>3 DEF Simulated, Contract!Next

-----------------------------------------------------------------------------
(* The actions *)

LEMMA OnlyOneMoves ==
  ASSUME TypeOK, NEW d \in Defs, Reconcile(d) \/ Failure(d)
  PROVE  Moved(d)
<1> USE DEF Moved, TypeOK, Goto
<1>1. CASE Observe(d)
  BY <1>1 DEF Observe, ObserveGone, ObserveMissing, ObserveOutdated,
              ObserveCurrent, LookupFails, ObserveBundle, Finalize, BeginRepair, Begin
<1>2. CASE CreateOrUpdate(d)
  BY <1>2 DEF CreateOrUpdate, ReadCRD, ApplyCRD, ApplyCRDRefused, ReadForCA,
              ApplyCA, Deploy, Deployed, UndeployOld, ListOld, FinishUpdate, Relabel
<1>3. CASE Delete(d)
  BY <1>3 DEF Delete, ListVersion, WaitGone, ListKind, Undeploy, Undeployed,
              UninstallCRD
<1>4. CASE Persist(d) \/ Failure(d)
  BY <1>4 DEF Persist, Failure, Fail, FailRollout, FailPersist,
              ObserveUnresolved, Finalize
<1> QED  BY <1>1, <1>2, <1>3, <1>4 DEF Reconcile

LEMMA QuietSteps ==
  ASSUME NEW d \in Defs, Reconcile(d) \/ Failure(d),
         ~(Deploy(d) \/ UndeployOld(d) \/ Undeploy(d) \/ Fail(d) \/ FailRollout(d))
  PROVE  pc[d] \notin Busy /\ bundle' = bundle
<1> USE DEF Busy, Removing
<1>1. CASE Observe(d)
  BY <1>1 DEF Observe, ObserveGone, ObserveMissing, ObserveOutdated,
              ObserveCurrent, LookupFails, ObserveBundle, Finalize
<1>2. CASE CreateOrUpdate(d)
  BY <1>2 DEF CreateOrUpdate, ReadCRD, ApplyCRD, ApplyCRDRefused, ReadForCA,
              ApplyCA, ListOld, FinishUpdate, Relabel
<1>3. CASE Delete(d)
  BY <1>3 DEF Delete, ListVersion, WaitGone, ListKind, UninstallCRD
<1>4. CASE Persist(d) \/ Failure(d)
  BY <1>4 DEF Persist, Failure, FailPersist, ObserveUnresolved, Finalize
<1> QED  BY <1>1, <1>2, <1>3, <1>4 DEF Reconcile

\* Deploy and Undeploy change one bundle.
LEMMA BundleSet ==
  ASSUME TypeOK, NEW d \in Defs, NEW w, NEW b, SetBundle(d, w, b),
         NEW n \in Namespaces, NEW v \in Versions
  PROVE  bundle'[n][v] = IF n = NsOf[d] /\ v = w THEN b ELSE bundle[n][v]
  BY NsOfAssumption DEF TypeOK, SetBundle

LEMMA SameState ==
  ASSUME NEW n \in Namespaces, NEW v \in Versions, bundle'[n][v] = bundle[n][v]
  PROVE  BundleState(n, v)' = BundleState(n, v)
  BY DEF BundleState

\* Where they stop, they have not gone through the states of others.
LEMMA HalfwayState ==
  ASSUME TypeOK, NEW D, NEW K, bundle' = Halfway(D, K),
         NEW n \in Namespaces, NEW v \in Versions
  PROVE  \/ BundleState(n, v)' = BundleState(n, v)
         \/ /\ bundle[n][v] \in Rightless /\ BundleState(n, v)' = "broken"
            /\ \E d \in D : NsOf[d] = n /\ pc[d] \in {"deploy"} /\ Subject(d) = v
         \/ /\ bundle[n][v] \notin Rightless /\ BundleState(n, v)' = "broken"
            /\ \E d \in D : /\ NsOf[d] = n /\ Subject(d) = v
                            /\ pc[d] \in {"undeploy", "undeployOld"}
<1> DEFINE DeploysAt == \E d \in D : /\ NsOf[d] = n /\ pc[d] \in {"deploy"}
                                     /\ Subject(d) = v
           UndeploysAt == \E d \in D : /\ NsOf[d] = n /\ Subject(d) = v
                                       /\ pc[d] \in {"undeploy", "undeployOld"}
<1>1. PICK left \in {"keyless", "broken"} :
        bundle'[n][v] = IF \/ bundle[n][v] \in Rightless /\ DeploysAt
                           \/ bundle[n][v] \notin Rightless /\ UndeploysAt
                          THEN left ELSE bundle[n][v]
  BY DEF Halfway
<1> HIDE DEF DeploysAt, UndeploysAt
<1>2. \/ bundle'[n][v] = bundle[n][v]
      \/ bundle[n][v] \in Rightless /\ DeploysAt /\ bundle'[n][v] = left
      \/ bundle[n][v] \notin Rightless /\ UndeploysAt /\ bundle'[n][v] = left
  BY <1>1
<1>3. bundle'[n][v] = left => BundleState(n, v)' = "broken"
  BY DEF BundleState
<1>4. \/ BundleState(n, v)' = BundleState(n, v)
      \/ bundle[n][v] \in Rightless /\ DeploysAt /\ BundleState(n, v)' = "broken"
      \/ bundle[n][v] \notin Rightless /\ UndeploysAt /\ BundleState(n, v)' = "broken"
  BY <1>2, <1>3, SameState
<1> QED  BY <1>4 DEF DeploysAt, UndeploysAt

LEMMA DeploySimulates ==
  ASSUME TypeOK, NEW d \in Defs, Moved(d), Deploy(d),
         NEW n \in Namespaces, NEW v \in Versions
  PROVE  Simulated(n, v)
<1> DEFINE l == loc[d]
           moved == l.op = "update" /\ l.status.ver \notin {NoVersion, l.spec}
<1>1. /\ pc[d] = "deploy" /\ Target(d) = l.spec /\ Subject(d) = l.spec
      /\ l \in Locals
  BY DEF Deploy, Subject, Target, TypeOK
<1>2. bundle'[n][v] = IF n = NsOf[d] /\ v = l.spec THEN "full" ELSE bundle[n][v]
  BY <1>1, BundleSet DEF Deploy
<1>3. pc'[d] # "undeployOld" => pc'[d] \in {"persist", "listOld"}
  BY DEF Deploy, Deployed, Goto, TypeOK
<1>4. ASSUME pc'[d] = "undeployOld"
      PROVE  Subject(d)' # l.spec
  <2>1. moved
    BY <1>4 DEF Deploy, Deployed, Goto, TypeOK
  <2>2. loc'[d].status.ver = l.status.ver
    BY <1>1, <2>1 DEF Deploy, Deployed, TypeOK, Locals, Status
  <2> QED  BY <1>4, <2>1, <2>2 DEF Subject
<1>5. ~(n = NsOf[d] /\ v = l.spec) => d \notin Deployers(n, v) \cup Removers(n, v)
  BY <1>1 DEF Deployers, Removers, AtBundle
<1>6. n = NsOf[d] /\ v = l.spec
        => /\ d \in Deployers(n, v)
           /\ d \notin Deployers(n, v)' \cup Removers(n, v)'
  BY <1>1, <1>3, <1>4 DEF Deployers, Removers, AtBundle
<1>7. CASE n = NsOf[d] /\ v = l.spec
  <2>1. BundleState(n, v)' = "full"
    BY <1>2, <1>7 DEF BundleState
  <2> QED  BY <1>6, <1>7, <2>1, LeavesDeployed
<1>8. CASE ~(n = NsOf[d] /\ v = l.spec)
  BY <1>2, <1>5, <1>8, SameState, Arrives
<1> QED  BY <1>7, <1>8

LEMMA UndeploySimulates ==
  ASSUME TypeOK, NEW d \in Defs, Moved(d), Undeploy(d) \/ UndeployOld(d),
         NEW n \in Namespaces, NEW v \in Versions
  PROVE  Simulated(n, v)
<1>1. pc[d] \in Removing /\ pc'[d] \notin Busy
  BY DEF Undeploy, Undeployed, UndeployOld, Goto, TypeOK, Removing, Busy
<1>2. /\ n = NsOf[d] /\ v = Subject(d)
           => bundle'[n][v] \in {"absent", UndeployedToRights(d, v)}
      /\ ~(n = NsOf[d] /\ v = Subject(d)) => bundle'[n][v] = bundle[n][v]
  <2>1. PICK b \in {"absent", UndeployedToRights(d, Subject(d))} :
           SetBundle(d, Subject(d), b)
    BY DEF Undeploy, UndeployOld, Subject
  <2> QED  BY <2>1, BundleSet
<1>3. d \notin Deployers(n, v)' \cup Removers(n, v)'
  BY <1>1 DEF Deployers, Removers, AtBundle, Busy, Removing
<1>4. CASE n = NsOf[d] /\ v = Subject(d)
  <2>1. d \in Removers(n, v)
    BY <1>1, <1>4 DEF Removers, AtBundle, Removing
  <2>2. bundle'[n][v] \in {"absent", bundle[n][v]}
           \cup (IF bundle[n][v] = "full" THEN {"broken"} ELSE {})
    BY <1>2, <1>4 DEF UndeployedToRights
  <2>3. BundleState(n, v)' \in {BundleState(n, v), "absent"}
           \cup (IF BundleState(n, v) = "full" THEN {"broken"} ELSE {})
    BY <2>2 DEF BundleState
  <2> QED  BY <1>3, <2>1, <2>3, LeavesRemoved
<1>5. CASE ~(n = NsOf[d] /\ v = Subject(d))
  <2>1. d \notin Deployers(n, v) \cup Removers(n, v)
    BY <1>5 DEF Deployers, Removers, AtBundle
  <2> QED  BY <1>2, <1>5, <2>1, SameState, Arrives
<1> QED  BY <1>4, <1>5

LEMMA FailureSimulates ==
  ASSUME TypeOK, NEW d \in Defs, Moved(d), Fail(d) \/ FailRollout(d),
         NEW n \in Namespaces, NEW v \in Versions
  PROVE  Simulated(n, v)
<1>1. pc'[d] = "persist" /\ d \notin Deployers(n, v)' \cup Removers(n, v)'
  BY DEF Fail, FailRollout, Goto, TypeOK, Deployers, Removers, AtBundle
<1>2. CASE FailRollout(d)
  <2>1. pc[d] = "deploy" /\ Subject(d) = Target(d)
    BY <1>2 DEF FailRollout, Subject
  <2>2. bundle'[n][v] = IF n = NsOf[d] /\ v = Subject(d) THEN "full"
                                                         ELSE bundle[n][v]
    BY <1>2, <2>1, BundleSet DEF FailRollout
  <2>3. CASE n = NsOf[d] /\ v = Subject(d)
    <3>1. d \in Deployers(n, v)
      BY <2>1, <2>3 DEF Deployers, AtBundle
    <3>2. BundleState(n, v)' = "full"
      BY <2>2, <2>3 DEF BundleState
    <3> QED  BY <1>1, <3>1, <3>2, LeavesDeployed
  <2>4. CASE ~(n = NsOf[d] /\ v = Subject(d))
    <3>1. d \notin Deployers(n, v) \cup Removers(n, v)
      BY <2>4 DEF Deployers, Removers, AtBundle
    <3> QED  BY <2>2, <2>4, <3>1, SameState, Arrives
  <2> QED  BY <2>3, <2>4
<1>3. CASE Fail(d)
  <2>1. PICK K \in SUBSET {d} : bundle' = Halfway({d}, K)
    BY <1>3 DEF Fail
  <2>2. \/ BundleState(n, v)' = BundleState(n, v)
        \/ /\ bundle[n][v] \in Rightless /\ BundleState(n, v)' = "broken"
           /\ d \in Deployers(n, v)
        \/ /\ bundle[n][v] \notin Rightless /\ BundleState(n, v)' = "broken"
           /\ d \in Removers(n, v)
    BY <2>1, HalfwayState DEF Deployers, Removers, AtBundle
  <2>3. /\ bundle[n][v] \in BundleStates
        /\ ~(d \in Deployers(n, v) /\ d \in Removers(n, v))
    BY DEF TypeOK, Deployers, Removers, AtBundle
  <2>4. CASE d \in Deployers(n, v)
    <3>1. BundleState(n, v)' \in {BundleState(n, v), "full"}
             \cup (IF BundleState(n, v) = "absent" THEN {"broken"} ELSE {})
      BY <2>2, <2>3, <2>4 DEF BundleState, Rightless
    <3> QED  BY <1>1, <2>4, <3>1, LeavesDeployed
  <2>5. CASE d \in Removers(n, v)
    <3>1. BundleState(n, v)' \in {BundleState(n, v), "absent"}
             \cup (IF BundleState(n, v) = "full" THEN {"broken"} ELSE {})
      BY <2>2, <2>3, <2>5 DEF BundleState, BundleStates, Rightless
    <3> QED  BY <1>1, <2>5, <3>1, LeavesRemoved
  <2>6. CASE d \notin Deployers(n, v) \cup Removers(n, v)
    BY <2>2, <2>6, Arrives
  <2> QED  BY <2>4, <2>5, <2>6
<1> QED  BY <1>2, <1>3

\* A restart may stop any Deploy or Undeploy halfway.
LEMMA RestartSimulates ==
  ASSUME TypeOK, Restart, NEW n \in Namespaces, NEW v \in Versions
  PROVE  Simulated(n, v)
<1> USE DEF Deployers, Removers
<1>1. Deployers(n, v)' = {} /\ Removers(n, v)' = {}
  BY DEF Restart, AtBundle
<1>2. PICK D \in SUBSET Defs, K \in SUBSET Defs : bundle' = Halfway(D, K)
  BY DEF Restart
<1>3. bundle[n][v] \in BundleStates
  BY DEF TypeOK
<1>4. \/ BundleState(n, v)' = BundleState(n, v)
      \/ bundle[n][v] # "absent" /\ BundleState(n, v)' = "broken"
      \/ Deployers(n, v) # {} /\ BundleState(n, v)' = "broken"
  BY <1>2, HalfwayState DEF AtBundle, Rightless
<1>5. /\ bundle[n][v] # "absent" => BundleState(n, v) # "absent"
      /\ bundle[n][v] = "absent" => BundleState(n, v) = "absent"
  BY DEF BundleState
<1>6. budget'.restarts # budget.restarts
  BY DEF Restart, Spend, TypeOK, Budget
<1>7. <<budget.drifts, budget.restarts>>' # <<budget.drifts, budget.restarts>>
  BY <1>6
<1>8. Contract(n, v)!Restart
  BY <1>1, <1>3, <1>4, <1>5, <1>7 DEF Contract!Restart
<1> QED  BY <1>8 DEF Simulated, Contract!Next

LEMMA StepSimulates ==
  ASSUME TypeOK, [Next]_vars, NEW n \in Namespaces, NEW v \in Versions
  PROVE  Simulated(n, v)
<1>1. ASSUME NEW d \in Defs, Reconcile(d) \/ Failure(d)
      PROVE  Simulated(n, v)
  <2>1. Moved(d)
    BY <1>1, OnlyOneMoves
  <2>2. CASE Deploy(d) \/ UndeployOld(d) \/ Undeploy(d) \/ Fail(d) \/ FailRollout(d)
    BY <2>1, <2>2, DeploySimulates, UndeploySimulates, FailureSimulates
  <2>3. CASE ~(Deploy(d) \/ UndeployOld(d) \/ Undeploy(d) \/ Fail(d) \/ FailRollout(d))
    <3>1. d \notin Deployers(n, v) \cup Removers(n, v) /\ bundle' = bundle
      BY <1>1, <2>3, QuietSteps DEF Busy, Removing, Deployers, Removers, AtBundle
    <3> QED  BY <2>1, <3>1, SameState, Arrives
  <2> QED  BY <2>2, <2>3
<1>2. ASSUME UNCHANGED <<bundle, pc, loc>>
      PROVE  Simulated(n, v)
  BY <1>2 DEF Simulated, Contract!vars, BundleState, AtBundle, Subject, Target
<1>3. CASE SyncRead \/ SyncApply \/ User
  BY <1>2, <1>3 DEF SyncRead, SyncApply, User, CreateDefinition, EditDefinition,
                    DeleteDefinition, CreateComposition
<1>4. CASE CRDCollected \/ CacheSync \/ \E c \in Comps : Adopt(c) \/ Release(c)
  BY <1>2, <1>4 DEF CRDCollected, CacheSync, Adopt, Release
<1>5. ASSUME NEW m \in Namespaces, NEW w \in Versions, Drift(m, w)
      PROVE  Simulated(n, v)
  <2>1. PICK b \in {"broken", "keyless"} :
           /\ bundle'[n][v] = IF n = m /\ v = w THEN b ELSE bundle[n][v]
           /\ bundle[m][w] \notin Rightless /\ pc' = pc /\ loc' = loc
    BY <1>5 DEF Drift, TypeOK, Rightless
  <2>2. UNCHANGED <<AtBundle(n, v, {"deploy"}),
                    AtBundle(n, v, {"undeploy", "undeployOld"})>>
    BY <2>1 DEF AtBundle, Subject, Target
  <2>3. budget'.drifts # budget.drifts
    BY <1>5 DEF Drift, Spend, TypeOK, Budget
  <2>4. <<budget.drifts, budget.restarts>>' # <<budget.drifts, budget.restarts>>
    BY <2>3
  <2>5. Contract(n, v)!Disturb \/ UNCHANGED Contract(n, v)!vars
    BY <2>1, <2>2, <2>4 DEF Contract!Disturb, Contract!vars, BundleState, Rightless
  <2> QED  BY <2>5 DEF Simulated, Contract!Next
<1>6. CASE Restart
  BY <1>6, RestartSimulates
<1>7. CASE UNCHANGED vars
  BY <1>2, <1>7 DEF vars
<1> QED  BY <1>1, <1>3, <1>4, <1>5, <1>6, <1>7 DEF Next, Cluster

LEMMA InitialContract ==
  ASSUME Init, NEW n \in Namespaces, NEW v \in Versions
  PROVE  Contract(n, v)!Init
  BY DEF Init, Contract!Init, BundleState, AtBundle

\* Every bundle of every namespace behaves by the contract that Deploy and
\* Undeploy keep, whichever definitions reconcile, fail, drift or restart.
THEOREM ReconcilerKeepsContract == Spec => BundlesKeepContract
<1>1. Init => \A n \in Namespaces, v \in Versions : Contract(n, v)!Init
  BY InitialContract
<1>2. TypeOK /\ [Next]_vars
        => [\A n \in Namespaces, v \in Versions :
              Contract(n, v)!Next \/ UNCHANGED Contract(n, v)!vars]_vars
  BY StepSimulates DEF Simulated
<1> QED  BY <1>1, <1>2, TypeCorrectness, PTL DEF Spec, BundlesKeepContract
=============================================================================
