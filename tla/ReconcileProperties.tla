------------------------- MODULE ReconcileProperties -------------------------
(***************************************************************************)
(* What the CompositionDefinition reconciler promises.  The first section  *)
(* is checked under Spec, the others under FairSpec.                       *)
(***************************************************************************)
EXTENDS CompositionDefinitions

(* Safety *)

\* Whatever the CRD's writers had read when they wrote, and whenever they or the
\* process stopped, the CRD the API server holds stores in exactly one version,
\* serves every version but vacuum, and has the conversion webhook as soon as it
\* has two versions (ApplyOrUpdateCRD, AppendVersion, propagateCABundle).
CRDWellFormed == Exists(crd) => WellFormed(crd)

\* Once objects are stored in the vacuum version no write takes it away, short
\* of deleting the CRD: a stale copy from before the first append, written by
\* another reconcile or by the certificate refresher, does not get through.
VacuumStays ==
  [][(Vacuum \in crd.versions /\ Exists(crd')) => Vacuum \in crd'.versions]_vars

\* A definition that was deployed once, and that nobody tampers with or deletes,
\* has a complete bundle of some version in its namespace at every moment: Update
\* takes the old bundle down only after the new one is up.
NoServiceGap ==
  \A d \in Defs : cd[d].phase = "live" /\ cd[d].status.ver # NoVersion
     => \E v \in Versions : bundle[NsOf[d]][v] = "full"

\* Update finds the chart of the version it takes down, whose credentials Undeploy
\* dereferences (deploy.go:572): it was recorded when the version was, whichever
\* faults came in between.
UndeployFindsChart ==
  \A d \in Defs : pc[d] = "undeployOld" => loc[d].status.ver \in loc[d].status.charts

-----------------------------------------------------------------------------
(* Convergence *)

Current(d) == /\ Lookup(crd, cd[d].spec)
              /\ StatusEqual(crd, GenerateCRD(cd[d].spec, release))

Converged(d) == /\ cd[d].status.ver = cd[d].spec
                /\ cd[d].status.digest = cd[d].spec
                /\ bundle[NsOf[d]][cd[d].spec] = "full"
                /\ Current(d)

\* The rights to the secret with the credentials of d's chart are gone, when the
\* CRD and the recorded digest are as they should be: every Observe fails in
\* Lookup (deploy.go:640-662), so that nothing is repaired and nothing deleted.
Blocked(d) == /\ cd[d].spec \in Secured
              /\ cd[d].status.digest = cd[d].spec
              /\ bundle[NsOf[d]][cd[d].spec] \in Rightless
              /\ Current(d)

\* Level-triggered reconciling: when users and faults come to rest, every live
\* definition ends with its CRD version, the CRD's status schema, its bundle and
\* its status in agreement, for good, whatever siblings that share the CRD, the
\* namespace or the bundle have done in between; unless that, or drift, has taken
\* the rights to the secret of a chart that is read with credentials (Blocked).
Convergence ==
  \A d \in Defs : <>[](cd[d].phase = "live" => Converged(d) \/ Blocked(d))

\* What has converged stays so until it is edited or deleted, whatever reconcile,
\* fault or restart comes: an Update that a stale cache calls for, or that stops
\* halfway, takes nothing back.
StaysConverged ==
  [][\A d \in Defs :
       /\ cd[d].phase = "live" /\ Converged(d)
       /\ cd'[d].phase = "live" /\ cd'[d].spec = cd[d].spec
       => Converged(d)']_vars

-----------------------------------------------------------------------------
(* Deletion *)

\* A deleted definition goes away in the end, however often a step of Delete
\* fails: Delete can be repeated from any point it stopped at, unless the chart is
\* read with credentials and Undeploy got as far as the rights to their secret
\* without Delete having completed (Blocked: Delete is then never called again).
DeletionCompletes ==
  \A d \in Defs : <>[](cd[d].phase = "terminating" => Blocked(d))

\* The finalizer goes only when everything the definition owned is gone: no
\* bundle in its namespace, no composition, and the CRD at most on its way out.
GoneLeavesNothing ==
  \A d \in Defs : cd[d].phase = "gone" =>
     /\ \A v \in Versions : bundle[NsOf[d]][v] = "absent"
     /\ crd.terminating \/ ~Exists(crd)
     /\ \A c \in Comps : ~Existing(c)

\* Delete takes a version's controller down only when no composition needs it to
\* release its finalizer.
BundleOutlivesCompositions ==
  [][\A n \in Namespaces, v \in Versions :
       (\A d \in Defs : loc[d].op # "update")
          /\ bundle[n][v] = "full" /\ bundle'[n][v] # "full"
       => Labelled(v) = {}]_vars

-----------------------------------------------------------------------------
(* The controller bundle *)

AtBundle(n, v, stages) ==
  {d \in Defs : NsOf[d] = n /\ pc[d] \in stages /\ Subject(d) = v}

\* The contract does not tell which objects are missing.
BundleState(n, v) == IF bundle[n][v] = "keyless" THEN "broken" ELSE bundle[n][v]

Contract(n, v) == INSTANCE BundleContract WITH
  Users <- Defs, state <- BundleState(n, v),
  deploying <- AtBundle(n, v, {"deploy"}),
  undeploying <- AtBundle(n, v, {"undeploy", "undeployOld"}),
  outside <- <<budget.drifts, budget.restarts>>

\* The bundles this model works with, one state for all of their objects, keep
\* the same contract as ControllerBundle, which has the objects one by one: an
\* interrupted Deploy or Undeploy leaves what it may leave there.
BundlesKeepContract ==
  /\ \A n \in Namespaces, v \in Versions : Contract(n, v)!Init
  /\ [][\A n \in Namespaces, v \in Versions :
           Contract(n, v)!Next \/ UNCHANGED Contract(n, v)!vars]_vars

-----------------------------------------------------------------------------
(* Migration *)

\* A composition created at a version a definition asks for is not left behind by
\* later edits of that definition: it ends up, for good, with the label of a
\* version whose controller runs.
CompositionsServed ==
  \A c \in Comps :
     <>[](comp[c].state \in {"pending", "live"} => Served(comp[c].label))

-----------------------------------------------------------------------------
(* What the documentation or a comment says, and the code does not do *)

\* docs/developer-guide/02-reconcile-lifecycle.md:43: Delete is careful not to
\* delete the CRD if other versions of it are still in use.  In use: a live
\* definition was deployed for a version the CRD has.
CRDKeptForSiblings ==
  [][(~crd.terminating /\ crd'.terminating) =>
       \A d \in Defs : ~ /\ cd[d].phase = "live"
                         /\ cd[d].status.digest = cd[d].spec
                         /\ Lookup(crd, cd[d].spec)]_vars

\* helpers/status/status.go:15-16: if the version is the definition's own, its
\* entry in versionInfo is given the chart.
ChartRecorded ==
  \A d \in Defs : cd[d].status.ver # NoVersion
     => cd[d].status.ver \in cd[d].status.charts
=============================================================================
