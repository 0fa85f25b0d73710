# A verification project for core-provider

core-provider is the Kubernetes operator that turns a Helm chart into an API: for
every `CompositionDefinition` it generates a CRD from the chart's values schema,
deploys a composition-dynamic-controller (CDC) that serves the instances
(`Composition`s) of one version of it, and keeps a webhook, with its certificate,
that defaults, labels and converts them. This directory holds TLA+ models of the
parts of it whose correctness depends on order, interleaving and failure, the TLC
configurations that check them on small instances, and proofs checked by TLAPS.
Paths below are relative to the repository.

## 1. Inventory

| Component | State it keeps | Operations | Hard behaviour | What makes it correct |
|---|---|---|---|---|
| **CompositionDefinition reconciler** `internal/controllers/compositiondefinitions/compositiondefinitions.go`, `helpers/getters`, `helpers/status` | `status.apiVersion`, `status.digest`, `status.managed.versionInfo` of each definition | `Observe`, `Create`, `Update`, `Delete`; `RefreshCompositionDefinitionStatus`; `UpdateCompositionsVersion` | several reconciles at once on one CRD; a status that is written at the end only; multi-step operations that fail in the middle; a cached view of the CRD | it converges; an update never leaves a gap in service; compositions migrate with their definition; deletion completes and leaves nothing behind, and takes nothing from siblings |
| **Generated CRD** `internal/tools/crd`, `internal/tools/crd/generation` | `.spec.versions` (served, storage, status schema), conversion webhook | `GenerateCRD`, `AppendVersion`, `UpdateStatus`, `SetServedStorage`, `ApplyOrUpdateCRD`, `UpdateCABundle`, `Uninstall` | read-modify-write over a stale copy, with a second writer | exactly one storage version, the vacuum version never lost, every chart version served, conversion configured when there are several |
| **Kubernetes object writer** `internal/tools/kube/client.go` | none | `Apply`, `Uninstall` | takes the live resourceVersion, so writes are last-writer-wins | a lost update is repaired |
| **Controller bundle** `internal/tools/deploy`, `deployment`, `hash`, `objects`, `rbactools` | about ten objects per (namespace, resource, version) and the digest over them | `Deploy` (also dry run), `Lookup`, `Undeploy` | stops halfway; shared by definitions of one namespace; restart and roll-out | what is rendered, recorded and deployed agree; `Undeploy` is repeatable |
| **Certificate manager** `internal/controllers/certificates` | the CA bundle in memory, two mutexes; `tls.crt`/`tls.key` on disk | `RefreshCertificates` (boot), `ManageCertificates` (every Create/Update and every sync), `UpdateExistingResources` | concurrent callers; a bundle read under no lock and written later; partial installation; time | the bundle in memory is servable; the certificate never ends; all CRDs come to trust it |
| **Certificate signing** `internal/tools/certs` | the `CertificateSigningRequest` object | `GenerateClientCertAndKey`, `CheckOrRegenerateClientCertAndKey`, `Expired`, `UpdateCerts` | failure after the request exists; two renames | renewed in time |
| **Mutating webhook** `webhooks/mutation` | none | labels a new composition with its version, fills defaults | – | every composition has the label of its version |
| **Conversion webhook** `webhooks/conversion`, `webhooks/utils/defaults` | none | rewrites `apiVersion`, fills defaults | recursive defaulting | idempotent; never overwrites |
| **Retry helper** `internal/tools/retry` | none | `Do`, `Delay`, `Wait` | cancellation, limits | bounded attempts, bounded delay |
| **Watcher** `internal/tools/kube/watcher` | none | `WatchResource` | event, end of watch and timeout race | returns, with the right verdict |
| **Pluralizer** `internal/tools/pluralizer` | none | discovery look-up of a GVK | not found vs other error | – |
| **Chart access** `internal/tools/chart`, `chartfs`, `tgzfs` | none | download, unpack, read `Chart.yaml` and schema | order of archive entries | the tree equals the archive |
| **Process** `main.go` | – | boot: certificate, manager, refresher, controllers | restart at any point | – |

How they interact. The controller runtime calls `Observe` and then at most one of
`Create`, `Update`, `Delete` per definition, for up to five definitions at a time.
All definitions of one kind share a CRD and each namespace shares bundles by
version. `Create` and `Update` call `ApplyOrUpdateCRD`, then `ManageCertificates`
for that CRD, then `Deploy`; `Update` then calls `Undeploy` for the version it
comes from and relabels that version's compositions. The certificate refresher
runs beside them, syncs every five minutes, and writes the same CRDs. The
reconciler reads CRDs through the manager's informer cache, the certificate manager
through a client without cache. The CDC (another program) adopts compositions by
label and holds their finalizer.

The hazards these give rise to are listed, each at its line, in `PROJECT.json`.

## 2. Modules

Four models, of which the second uses an abstraction of the third, and the fourth
composes its two parts:

| Module | Models |
|---|---|
| `CrdVersions` | pure operators: the functions of `crd/generation` and the decision of `ApplyOrUpdateCRD`, over a CRD reduced to versions, flags, status-schema release and conversion; what the API server accepts |
| `CompositionDefinitions` | the reconciler over it: one action per stretch of a handler between two API calls, for any number of definitions of one kind; the refresher as second writer; users, the CDC, cache, drift, faults and restarts. A bundle is absent, keyless, broken or full |
| `BundleContract` | the abstract specification of that bundle: who may complete it, who may take from it, and what only an interference from outside may do |
| `ControllerBundle` | the bundle object by object: `Deploy` with dry run, `Lookup`, `Undeploy`, the digests, the roll-out and the restart, for definitions that share it |
| `Certificates` | signing request, files, memory, server, bundles in CRDs and webhook; the refresher and reconciles as actors; time; faults and restarts; with its properties |
| `ChartAccess` | how a reconcile comes by its chart: retries, unpacking, what is read of it |
| `Admission` | the mutating and the conversion webhook, over a Composition's fields |
| `ChartsAndCompositions` | the two composed: the schemas that are read are those Compositions are defaulted with; with the properties of both |
| `AppliedDefaults` | the recursion of `applyDefaultsToMap` as the code has it, to compare with `Populated` |
| `ReconcileProperties`, `BundleProperties` | the properties of `CompositionDefinitions` and of `ControllerBundle` |
| `MCReconcile`, `MCBundle`, `MCCharts` | definitions and symmetry for the runs |
| `CrdVersionsProofs`, `CompositionDefinitionsProofs`, `ReconcilerContractProofs`, `ServiceProofs` | lemmas about the CRD operators; the reconciler's inductive invariant; that it keeps `BundleContract`; that it leaves no gap in service, and nothing behind when a definition is deleted |
| `ControllerBundleProofs` | the bundle's inductive invariant, that it implements `BundleContract`, and the order of its objects |
| `ChartsProofs` | retries, unpacking, versions and defaults, for all archives and schemas |
| `CertificatesProofs`, `CertificateLifetimeProofs` | the certificate manager's inductive invariant; the bound on the age of what is served |

### CompositionDefinitions and the code

| Variable | Code |
|---|---|
| `cd[d]` | the CompositionDefinition in the API server: `spec` is the chart's version, `status.ver` is `status.apiVersion`, `status.digest` the version whose bundle the digest was of, `known`/`charts` the entries of `versionInfo` and those with a chart |
| `crd`, `uid`, `cache` | the CRD, its incarnation, the informer's copy |
| `bundle[n][v]` | the objects `Deploy` makes for namespace n and version v: none (`absent`), all (`full`), or some missing or wrong: without the rights to the secret with the chart's credentials (`keyless`) or with them (`broken`) |
| `Secured` (a constant) | the versions whose chart is read with credentials |
| `comp[c]` | a Composition: life cycle and `krateo.io/composition-version` label |
| `pc[d]`, `loc[d]` | where the reconcile of d is, and its local copies: the definition as fetched, the CRD as read, the compositions listed |
| `sync` | the CRD the refresher has read and will write |
| `release` | the release of core-provider; the status schema is compiled into it |

`Observe*` are the outcomes of `Observe` up to the dry run; `ObserveBundle` the
rest of it, or `LookupFails`: when the rendered digest is the recorded one and the
role or binding for the credentials' secret is missing, `Lookup` fails, `Observe`
returns its error (compositiondefinitions.go:370-373) and neither `Update` nor
`Delete` is called, now or at any later time. `Deploy` writes those rights first and
`Undeploy` removes them last, so a stop halfway leaves `keyless` or `broken`
(`Halfway`). Of `Create` and `Update`: `ReadCRD`, `ApplyCRD`, `ApplyCRDRefused`
(`ApplyOrUpdateCRD`), `ReadForCA`, `ApplyCA` (`propagateCABundle`), `Deploy`,
`UndeployOld`, `ListOld`, `Relabel`, `FinishUpdate`. Of `Delete`: `ListVersion`,
`WaitGone`, `ListKind`, `Undeploy`, `UninstallCRD`. `Persist` is the runtime's
status write. `Fail`, `FailRollout`, `FailPersist` and `ObserveUnresolved` are
their error paths: they leave what was done and persist the status as it stands,
which is how the code's `return err` behaves with a runtime that updates status
after an error.

`kube.Apply` copies the live resourceVersion, so `WriteCRD` overwrites whatever
was written since the read. What the API server still refuses is modelled
(`ServerAccepts`): another uid, and a version list without a stored version. Its
validation of storage flags and conversion is left out on purpose: that the code
never submits a CRD that breaks them is the property `CRDWellFormed`.

### Certificates and the code

A certificate is a number; `csr` names the certificate the signing request is of,
`crt` and `key` what the two files hold, `ca` is `CertManager.caBundle`, `served`
what the webhook server has loaded, `bundles`/`hook` what CRDs and the mutating
webhook configuration trust. `Check` and `Issue` are
`CheckOrRegenerateClientCertAndKey`, `InstallCert`/`InstallKey` the two renames of
`UpdateCerts` with what `ManageCertificates` does next, `ReadCA` the read of the
bundle after the lock is released, `WriteCRD`/`WriteHook` the two writes of
`propagateCABundle`, `Sync`/`NextCRD` the refresher. `BeginApply`/`Apply` is
`ApplyOrUpdateCRD` as a writer of bundles: with the bundle it was called with, or
with the one in the CRD it read. `lock` is `certGenMu`. At boot the refresher's
actor stands for `main`, which issues a certificate before anything else runs.

### ControllerBundle and the code

| Variable | Code |
|---|---|
| `phase[d]`, `cred[d]`, `digest[d]` | the definition's life, `spec.chart.credentials` (one value per secret, `NoCred` without), `status.digest` |
| `content[o]` | the live object o: absent, altered by someone else, or as the templates of a release render it. Objects are a kind and the namespace or secret they are for |
| `stamp` | the restart annotation in the deployment's pod template |
| `pods` | what the running pods were started with: template, annotation, configuration |
| `release` | the release of core-provider, that is, its templates |
| `pc[d]`, `loc[d]` | the reconcile of d: its copy of the definition, the objects still to do, the hash so far |
| `left`, `past`, `outside` | how often the environment may still interfere, in which ways it has, and how often as a drift or a restart |

`Observe` is the dry run and the comparison with `status.digest`, `LookupObject`
the read of one object, `Compare` the second comparison. `ApplyObject`, `Watch`,
`RestartDeployment`, `Watch` again and `Record` are `Deploy` and what the handlers
do with its digest; `WatchTimeout` is the other end of a watch. `RemoveObject` and
`Uninstall` are `Undeploy`. `InstallOrder` and `RemoveOrder` are the orders of the
calls in the code, `BundleOf` the objects a definition has, `Visible` what of an
object is hashed: of service account and schema ConfigMap the name only. `Rollout`
is the deployment controller, `Drift` any other writer.

A missing object is hashed as an empty one, except that a missing secret role or
binding is an error of `Lookup` (deploy.go:640), which ends the reconcile.

### BundleContract, twice

`ControllerBundle` implements it with `BundleState`: absent without any object,
full with all of them as rendered; the rights to secrets, which a definition may or
may not have, do not count. `CompositionDefinitions` implements it for each
namespace and version with its variable `bundle`, whose `keyless` is a broken bundle
to the contract. Outsiders (drift, restarts, new releases) are an input of the
contract: in a step in which it does not change, only somebody who deploys
completes, and only somebody who undeploys takes away. So the
coarse `Deploy` and `Undeploy` of the reconciler's model, and what an interrupted
one leaves there, are backed by the detailed one. A new release has new templates in
`ControllerBundle`, where it turns a full bundle into a broken one; in
`CompositionDefinitions` it has a new status schema only.

### ChartAccess, Admission and the code

`op` is the handler, `stage` where its chart is, `calls` and `delay` those of
`retry.Do`, `tar` the part of the stream not yet read, `tree` the file system of
`tgzfs` (entries by path, and the list of its root), `source` the archives
downloaded, `chart` what was read. `Fetch`, `Retry`, `Wait` and `Abort` are
`chartBytesFromSpecWithRetry`; `Appended` is `append` in `tgzfs/fs.go`;
`ReadChart` is the first use of the chart, `FetchAgain` and `ReadAgain` that of
`chartfs.ForSpec`, which takes another root. `Generate` hands version and schema to
`AppendVersion`. `Delete` reads its chart as `Create` does.

`obj` is a Composition with its spec as a function from paths to values, `asked`
what users have written into it and not taken back, `crd` the schema of each
version. `Due` are the fields that `applyDefaultsToMap` gives a default: those that
are missing and that it gets to, through objects that are there or that it makes;
`Populated` is the spec it leaves. `Applied`, in `AppliedDefaults`, is the same as a
recursion over fields and objects, like the code's, as a set of fields with their
values: a recursive function on the paths of a schema, which returns for a path what a
visit of that field puts in. `Create`, `Touch`, `Set`, `Unset` and
`Relabel` are the requests that pass through the mutating webhook, and through the
conversion webhook when they are in another version than the stored one.

## 3. What is checked

| Run | Instance | Question |
|---|---|---|
| `reconcile_safety` | 2 definitions in 2 namespaces, 2 versions, 2 edits, 1 refresher write, lagging cache, deletions | is the shared CRD well-formed at all times, the vacuum version kept, no live definition without controller? |
| `convergence_siblings` | 2 definitions in 1 namespace, one version read with credentials, 1 edit | do definitions that share CRD and bundles converge? |
| `convergence_faults` | 1 definition, one version read with credentials, 2 faults of any kind, restart into a new release, drift, 2 edits | does it converge from wherever a failure leaves it, and do its bundles behave as `BundleContract` says? |
| `lifecycle` | 1 definition, one version read with credentials, 2 compositions, 2 edits, 2 faults, a restart, deletion | are compositions migrated and released, does deletion complete, is nothing left, does what has converged stay? |
| `controller_bundle` | 2 definitions of one bundle with a secret; a secret role, an object hashed by name, the configuration, the deployment; 2 interferences: drift, failure, restart or new release, edit of credentials, deletion | does the bundle heal, does reconciling come to rest, do the pods follow, is it taken down completely, and does it implement `BundleContract`? |
| `charts` | 5 archives, 2 versions, 2 schemas, 3 attempts, 1 composition | is a chart read as tar would extract it, do version and schema belong together, do retries end, do defaults and conversion keep what users wrote? |
| `migration_failure` | 1 definition, 1 composition, 1 failing relabel | **violated**: the composition is left behind |
| `sibling_deletion` | 2 definitions, a deletion | **violated**: the CRD goes although a sibling is deployed |
| `missing_chart` | 2 definitions, 1 edit | **violated**: a version without chart in `versionInfo` |
| `certificates_safety` | 1 CRD, a reconcile worker, the refresher, 2 faults, a restart, a collected request; certificates of 6 ticks, margin 1, interval 1 | is the bundle in memory servable, and does no served certificate end? |
| `certificates_trust` | 2 CRDs, a worker, the refresher, 1 fault of any kind | do all CRDs and the webhook come to trust the served certificate again and again? |
| `stale_bundle` | 1 CRD, no faults | **violated**: a slow reconcile writes an old bundle over a new one |

Properties, with the way each could go wrong:

- `CRDWellFormed`, `VacuumStays`: a writer holds a copy from before another's
  append, from before the CRD was deleted and made again, or from the cache; its
  write goes through. What saves the CRD is that `AppendVersion` recomputes all
  flags and that the server refuses a write without the stored vacuum version.
- `NoServiceGap`: `Update` deploys before it undeploys. It holds for definitions
  in namespaces of their own; two definitions in one namespace do take each
  other's bundle down, and the digest comparison repairs it (`Convergence`).
- `Convergence`: whatever happened, once users and faults rest, spec, status, CRD
  and bundle of each live definition agree for good. A lost version, a status
  schema that pre-empts an append, a bundle torn down by a sibling or left half
  deployed all have to be noticed by `Observe`. One case is not repaired and excepted
  (`Blocked`, section 5): the rights to the secret of a chart with credentials are
  gone, by drift or by a sibling's `Undeploy`, and every `Observe` fails. The runs
  reach it: without the exception the property is violated in each of them.
- `StaysConverged`: a definition that has converged is reconciled again and again, from
  stale copies of the CRD, through failures and restarts; no repetition may take back
  its status, digest or bundle. An interrupted `Deploy` overwrites objects with what
  they are, and an interrupted `Undeploy` of the old version has to spare the new one.
- `UndeployFindsChart`: `Undeploy` of the old version dereferences the chart in its
  `versionInfo` entry, which is only made with the entry, at the end of another
  reconcile. Definitions that share a CRD do lose it (`missing_chart`); one alone
  must not, whatever fails.
- `CompositionsServed`: compositions end with a label whose controller runs.
- `DeletionCompletes`, `GoneLeavesNothing`, `BundleOutlivesCompositions`: the
  finalizer of a composition can only be released by its controller, so a teardown
  in the wrong order or a repeated one that skips a part hangs or leaks. `Delete`
  can be repeated from wherever it stopped, with the exception of `Blocked` again:
  an `Undeploy` that got as far as the rights to the secret, in a `Delete` that did
  not complete, is not followed by another `Delete`.
- `BundleServable`: the one bundle in memory is of a pair the server serves or
  is about to load, whichever step of a renewal up to the second rename failed. It
  does not hold when `tls.crt` cannot be read back after that (certificates.go:144):
  the server loads the new pair, memory keeps the old bundle until the next renewal.
  The property leaves that failure out (`"read"`, which `certificates_trust` has).
- `NeverExpired`: renewal is decided by the age of the signing request, and a
  failure after the request exists resets that age. The certificate must outlive
  *(failures + 1) * (margin + interval)*: the run has the smallest such duration, the
  theorem `ServedNeverExpires` proves it for all, and a tick less already violates it.
  The margin is compared with the age, although the flag (main.go:63) is described
  as time *before expiry*; with the defaults of 24 h, 16 h and 5 min no failed renewal
  is covered. (Outside of the model the cluster removes requests about an hour after
  they were approved, which shortens the wait; `Collect` may do so, but nothing
  relies on it.)
- `TrustRecurs`: a slow reconcile can put back an old bundle at any time, so trust
  cannot be permanent; each sync restores it.

- `SupportOrder`: the deployment is written after its configuration and its rights and
  removed before them, also by a `Deploy` that completes an interrupted `Undeploy`. It
  says nothing of the ConfigMap with the JSON schema, which `Undeploy` removes before
  the deployment.
- `Cleared`, `DeletionEnds`: an `Undeploy` that was interrupted, or that ran against a
  sibling's `Deploy`, is completed by the next one; one that is confused by what is
  gone never is.
- `BundleHeals`, `Quiescence`: three digests (rendered, recorded, live) have to be
  over the same things. Missing one, drift is not repaired; one too many, as the
  restart annotation would be, and every repair causes the next.
- `ControllerCurrent`: nothing tells running pods of a new ConfigMap but the restart,
  and the watch after it looks at replicas only.
- `KeepsContract`, `BundlesKeepContract`: the refinements. They fix which step may do
  what to a bundle that others use too: only a `Deploy` completes it, a `Deploy` that
  fails does not roll back, an `Undeploy` that stops leaves what it has not come to,
  and nothing else changes a bundle unless outsiders interfere in that step. In which
  order a reconcile deploys and undeploys is not up to the contract (`NoServiceGap`).
- `ReadAsExtracted`: a directory may follow its files in the archive, and files may be
  repeated; such a chart is read right or refused.
- `VersionsMatchCharts`: the repository publishes another chart between the two
  downloads of an `Update`; version and schema come from the first one.
- `Backoff`, `FetchEnds`: attempts counted and delays shifted by one, so that the first
  wait is not the initial delay; a wait that does not double, or grows beyond the
  maximum; a wait that does not end.
- `UserValuesKept`: what users wrote survives defaulting, conversion, pruning and
  relabelling in any order, in fields all versions have.
- `DefaultsSettle`: a write completes the defaults of the write before. One write is not
  enough: the default of an object is put in as it is, without those of its fields.
  Two are enough for schemas in which a field is an object everywhere or nowhere
  (`SchemasAgree`) and of three nested fields one has no default (`NestedTwice`), such
  as those of the run.
- `DefaultsAsApplied`: the recursion makes an object before it knows whether anything
  goes into it, and takes the order of a Go map; neither shows in what it returns.

### Bounds

Two versions are enough for old/new and make every CRD either plain or with
vacuum; the proofs hold for any number. Two definitions give every pair of
interleaved handlers. Faults and edits are bounded by two because a fault needs a
second one to break the repair of the first. `UidBound` 2 distinguishes the present
CRD from the one before. Serial numbers nothing refers to are reused; six (seven
with two CRDs) never run out. Ages stop at `Duration + 1`. Symmetry is used in
`reconcile_safety` only, where there is no liveness property. Deadlock is not
checked in the runs of the reconciler and the bundle, since the system rests when
users are done or all definitions are gone; it is checked in those of
`Certificates`, where time always goes on, and of the charts.

In `controller_bundle` there is one kind of object of each sort the code tells
apart: optional and an error when missing, hashed by name, needed by the
deployment, the deployment. The proofs are for all of them. `MaxEvents` 2 gives
every pair of interferences at any two points, such as an interrupted `Deploy`
after a deletion, or a drift during a repair. The archives of `charts` are the ways a
chart's entries may be ordered: files only, directory first, directory late, a file
twice, a file beside the directory. Five attempts, as in the code, with an initial
delay of 1 and a maximum of 3, make the waits 1, 2, 3 and 3: the delay doubles, is cut
off at the maximum in the middle of a doubling, and stays there.

### Fairness

The work queue returns to every definition (requeue after an error, poll interval
otherwise), the informer catches up, the CDC and the API server make progress, the
refresher's loop runs, time passes, the deployment controller rolls out, a download
gets an answer or an error: weak fairness of exactly those actions.
Nothing is assumed of users, faults, drifts, restarts, or of how often a reconcile
manages certificates. Weak fairness of a whole reconcile is enough, because each of
its steps stays enabled until it is taken.

### Assumptions about users and environment

Some promises hold only for users who behave; `Discipline` names what
they refrain from, and is empty in the runs that do not need it:

- `editSettled`: edit the chart version when the previous one is settled. `Create`
  records a digest but no `status.apiVersion`, so an edit before the next `Observe`
  leaks the bundle and compositions of the first version.
- `deleteSettled`: delete a settled definition. `Delete` tears down the bundle of
  the spec, not the one deployed.
- `quietDelete`: create no composition at a version whose definition is being
  deleted (one created between the list and the teardown is stranded).
- `currentVersion`: create compositions at a version a definition asks for (one
  created at the old version after the relabelling's list is missed).

The lifecycle runs also leave out discovery errors and failures of
`undeployOld`/`relabel`: with them the properties fail (`migration_failure`, and the
hazard at compositiondefinitions.go:259).

provider-runtime is external: it is taken to write status after `Create`,
`Update` and `Delete`, failed ones included, and to remove the finalizer when
`Observe` reports a deleted resource as missing. Whether it observes again after a
`Delete` that succeeded is not visible in this repository; `RequeueAfterDelete`
stands for both answers. With TRUE a deleted definition that has siblings stays
terminating as long as they live, so `DeletionCompletes` is checked without siblings.

In `Certificates` a tick is long compared with one API call, one sync, and the
certificate watcher's poll (ten seconds): `Tick` waits for a sync that is due or
under way and for the server to load a matching pair. A reconcile may take any
number of ticks.

## 4. What is proved

All theorems are for every number of definitions, namespaces, versions, releases,
compositions, CRDs and workers, and every bound on edits, faults and restarts. They
rest on the named assumptions of the modules (the vacuum version is no chart
version; a namespace per definition; bounds and times are naturals; identifiers do
not clash; what is published can be extracted, that is, nothing lies below a file; the
schemas are finite trees, and every schema file is one of them), and on those named with
each theorem.

- `CompositionDefinitionsProofs`: `TypeCorrectness`, `CRDAlwaysWellFormed`,
  `VacuumNeverDropped`. `WellFormed(crd)` is not inductive: a write may be of any
  copy anyone holds. `IInv` says that every copy (server, cache, the `seen` of
  each reconcile, the refresher's `sync`) is well-formed, that a copy handed to
  `applyCRD` is of a version that `NeedsApply`, that a server CRD with vacuum has
  it in `stored`, and that a reconcile under way has a version. One lemma per group
  of actions, each with one step per conjunct it can disturb; `CrdVersionsProofs`
  shows that generating, appending, status updates and server writes preserve
  well-formedness.
- `CertificatesProofs`: `CertificateTypes` and `BundleAlwaysServable`, the latter
  where `tls.crt` can be read back after it was installed (the property has that
  condition). `BundleServable` is not inductive: a key installed while the server lags
  behind could strand it. `IInv` adds mutual exclusion (`Locked`), that nothing runs
  before boot is over (`Booting`), that what is being installed is the certificate
  of a request made just now and the key on disk is another (`Installing`), that a matching pair
  on disk is the bundle in memory (`Matching`), and that memory is ahead of the
  server only while the request is new, so that no renewal can start (`Ahead`).

- `CertificateLifetimeProofs`: `ServedNeverExpires`, if *(MaxFaults + 1) * (Margin +
  Interval) <= Duration* (`Affordable`), whatever kinds of call fail. The invariant
  holds one period (margin and interval) in reserve for each failure that may
  still come: the age of the served certificate plus the reserve is at most the
  duration, less a period if the request the next look will judge is new
  (`BehindRequest`), less what is left of the interval (`BehindSync`); and a pair that
  waits to be loaded is of a request made just now (`PendingFresh`). A failure
  releases the period it costs.
- `ServiceProofs`: `ServiceWithoutGap`, for definitions in namespaces of their own
  (`Apart`) whose bundles nobody else changes (`Untouched`). `Steady` adds that a
  status names a version only when some version runs, also the copy of it a reconcile
  has not written yet, and that a bundle is torn down by `Update` only while the
  other one is full.
- `ServiceProofs`: `NothingOutlives` and `LastOutTheController` (for
  `GoneLeavesNothing` and `BundleOutlivesCompositions`), for a definition with any
  number of versions, compositions, edits, faults, drifts and restarts, under
  hypotheses that the `lifecycle` run satisfies. That the finalizer goes last depends
  on what the definition records about bundles in three places: the object, the copy
  of a reconcile that has not written it, and what a failed one writes. `LifeInv` says
  of the object that only the bundles of the recorded version and of the spec may be
  there, and of a recorded version that the digest disagrees with, that its bundle is
  down (`Documented`); that a version deployed is one of the CRD, that the cache
  knows of the CRD as long as anything depends on it, and that the CRD goes after the
  bundle and the compositions (`Installed`); and of a reconcile at each of its stages
  which of these its copy already or still satisfies (`Copied`, `Grounded`). For
  `BundleOutlivesCompositions`, `Emptied` adds that a Delete that is past its wait has
  no compositions of its version, also those created since.
  The hypotheses exclude cases in which the code does leave something behind:
  another definition of the kind (`Sole`; the CRD then has to stay, and `Delete` may
  remove the other's, section 5); an edit or deletion before the last one has settled
  (`Deliberate`); a discovery error, or an `Update` that fails after `Deploy`
  (`Noticed`); and writers of the CRD other than reconciles of one release
  (`OneWriter`). For the last, TLC finds with three versions that a refresher holding
  a copy from before the last version was appended writes it over the CRD after the
  definition has settled; and with a second release that `ApplyOrUpdateCRD` replaces
  the status schema without appending the version, which `Update` still records. In
  both cases the version of a settled definition is not served; deleted at that
  moment, it counts as gone, and bundle and CRD stay.
- `ServiceProofs`: `ConvergedForGood`, for `StaysConverged`, from `LifeInv` under the
  assumptions of `NothingOutlives` and with bundles nobody tampers with (`Untouched`).
  A definition that has converged is in no stage of a teardown of its own version, and
  the status its reconcile works on names that version (both in `Copied`); what
  an interrupted `Deploy` leaves of a full bundle is full; and the CRD keeps the version as
  long as a status names it (`Installed`).
- `ServiceProofs`: `OwnChartsRecorded` (for `ChartRecorded`, which definitions that share
  a kind violate, section 5) and `UndeployNeverPanics` (for `UndeployFindsChart`), for a
  definition alone in its kind that is edited only when settled (`Patient`), with any
  faults, drifts, restarts, releases and writes of the refresher. `ChartRecorded` is not
  inductive: an entry is made for every version of the CRD in one go, without chart for
  all but one, so it matters which versions the CRD may have when. `TraceInv` says that
  every entry but that of vacuum has its chart (`Charted`); that every copy of the CRD
  (server, cache, refresher, reconcile) has no versions but recorded ones, vacuum and
  the spec's (`InPlace`), so that the only entry the next refresh can make without
  chart is vacuum's; and that the copy of the status a reconcile works on has lost
  nothing of the recorded one (`Tracked`).
- `ReconcilerContractProofs`: `ReconcilerKeepsContract`, the step simulation of
  `BundleContract` by the reconciler. It needs type correctness only.
- `ControllerBundleProofs`: `BundleTypes`, `NothingLeft`, `ObjectsKeepContract`. The
  invariant says what a reconcile under way works on (`Working`), that every object
  that is there has a definition that will still remove it, unless it is a right to
  a secret edited away (`Owned`), and that nothing was rendered by a later release
  (`Rendered`). `SupportInOrder`, for `SupportOrder`, adds that what a `Deploy` has
  passed is there (`Placed`) while no definition is deleted and nothing drifts, and
  that only definitions being deleted undeploy (`Going`); and it needs that the
  deployment comes last in `InstallOrder` and first in `RemoveOrder`.
- `ChartsProofs`: `ChartTypes`, `BackoffHolds`, `ChartsReadAsExtracted`,
  `VersionsMatch`, `UserValuesAreKept`, `DefaultsSettled` and
  `DefaultsAppliedAsStated`, of the composition of charts and Compositions. `ReadAsExtracted` is about the end of unpacking; its invariant,
  `Reading`, keeps of the tree at each entry (`Unpacked`) that what is at a path is
  the last entry of that path so far or a directory made up above one, and that the
  list of the root has the top of every path. The values of users stay because
  `Populated` never replaces a field that is there,
  and because what is there is closed under the objects around it, so that pruning
  by a version that has the field does not drop it (`ObjectInv`). `DefaultsSettled`
  has `SchemasAgree` and `NestedTwice` as hypotheses, which TLC evaluates for the
  schemas of the run (`SettlingAssumption`). The first write leaves a default undone
  only in an object whose own default it has just put in (`LeftForNextWrite`); a third
  default inside that one would need a third write. `DefaultsAppliedAsStated`, for
  `DefaultsAsApplied`, relates the recursion of the code to the set `Due`, for schemas
  of any depth: what a visit of a field puts in are the defaults due at or below it
  that are reached from it, and the missing objects on the way to one (`Gains`;
  `Within` for what is inside an object). The recursive function (`visit` in
  `Applied`) is shown to have these values by well-founded induction on the number of
  fields below one. No two defaults give a value to one field (`DueApart`), so the
  order of visits does not show. The delays are those of a recursive function
  (`Shifted`), shown to have the values of its definition by well-founded induction
  over a set of numbers.

Only model-checked: liveness (`Convergence`, `DeletionCompletes`,
`CompositionsServed`, `TrustRecurs`, `BundleHeals`, `Quiescence`, `ControllerCurrent`,
`DeletionEnds`, `FetchEnds`), which is out of the prover's reach, as is ENABLED. Every
safety and action property of a passing run is the statement of a theorem.

## 5. Disagreements between documentation and code

1. *Migration* (`migration_failure`): `Update` records the new digest before it
   undeploys and relabels; after a failure there `Observe` sees nothing to do.
2. *Deletion* (`sibling_deletion`): the CRD is deleted though a sibling whose
   status is not filled yet is deployed on it.
3. *Chart in versionInfo* (`missing_chart`): not recorded when the entry came from
   a sibling's version; a later `Undeploy` dereferences it (deploy.go:572).
4. *Concurrent propagation* (`stale_bundle`): generation is serialised, propagation
   is not; an old bundle can overwrite a new one until the next sync.

Four disagreements met in the other models are kept visible as exceptions of a
property that holds otherwise:

5. *Self-healing* (`Blocked` in `Convergence`, `DeletionCompletes`, `BundleHeals` and
   `DeletionEnds`): when the secret role or its binding is missing, be it by drift, a
   sibling's `Undeploy` or a `Delete` that did not complete, `Lookup` fails
   (deploy.go:640) and every reconcile
   with it, so the definition is neither repaired nor, once deleted, torn down. The
   lifecycle guide (docs/developer-guide/02-reconcile-lifecycle.md:47) says that
   out-of-band changes heal.
6. *Everything is hashed* (`Healthy`): of the schema ConfigMap the name only enters
   the digest (deploy.go:389); a change of its content is not noticed, where the guide
   (line 69) says everything in the bundle is hashed.
7. *Rights to secrets* (`Cleared`): those for credentials that were edited away are
   left behind.
8. *Configuration* (`ControllerCurrent`): after a `Deploy` that stopped between the
   ConfigMap and the deployment, the digest is as recorded and the pods keep running
   with the old configuration.

## 6. Not modelled

- *Everywhere*: telemetry, logging, flags, server and manager set-up; formatting of
  objects and names; conditions; the label clean-up in `Setup`; kinds other than the
  one shared (they have other CRDs; a chart that changes its kind or schema under one
  version is left out).
- *Reconciler and CRD*: the content of schemas (a status schema is a release number,
  the code never compares spec schemas; the vacuum version preserves unknown fields);
  attempts and back-off of its retries (one call that succeeds or fails);
  staleness of the cached list of definitions. The functions of
  `compositiondefinitions/retry.go` are called by their tests only.
- *Bundle*: hash collisions; cluster roles whose names two namespaces share; the
  rewriting of the schema ConfigMap when the CRD has changed, which is a drift nobody
  notices; a roll-out that replaces pods one by one; the CRD, which is current. In
  `ControllerBundle` a definition is gone after its first complete `Undeploy`
  (`RequeueAfterDelete` FALSE). The role and binding for a secret are named after
  resource and version and live in the secret's namespace: definitions of two
  namespaces whose charts have their secrets in one namespace share them. Models with
  credentials have one namespace.
- *Charts*: the directory listings of `tgzfs` below the root and its other file
  operations, which nothing uses; the decoding of `Chart.yaml` and the schema;
  mangled names; which status codes count as permanent (any error may be either).
- *Webhooks*: malformed requests, which are refused; the API server's own defaults;
  its pruning is modelled as external. One Composition is enough: a request
  concerns one object.
- *Certificates*: keys and encodings; the attempts within one propagation, and the two
  minutes a sync has for all CRDs; that `UpdateExistingResources` skips a kind that
  discovery does not find (certificates.go:179-181: there is no CRD to write then);
  and the propagation `Setup` makes before the manager starts
  (compositiondefinitions.go:124-131). The first sync is due at once and writes the
  same; when the one in `Setup` fails the process ends, which is a `Restart` here.

Of the hazards, eleven have no property. Four of them the code does run into, and the
runs exclude them by `Discipline` or by their fault kinds; four are the exceptions
that properties name (5 to 8 above); two need more definitions than the runs have, and
one more CRDs. `PROJECT.json` says which.

## 7. Plan

Done: **CrdVersions**, **CompositionDefinitions**, **Certificates**; then
**ControllerBundle** with **BundleContract** and both refinements, **ChartAccess** (with
retry and unpacking), **Admission** (defaults and conversion); and the proofs of all
safety and action properties.

Left, in this order:

1. **An abstract life cycle** of a definition (requested, served at a version,
   migrating, gone) that `CompositionDefinitions` implements under the assumptions of
   `NothingOutlives`; a refinement proof on top of `LifeInv`.
2. **Several definitions of a kind** in `NothingOutlives`: nothing of a definition
   outlives it but what siblings use, when their status is filled.
3. **Bounds on what users see** from the certificate proofs: the bundle a CRD trusts
   is at most one renewal old.
4. **Owners of compositions**, with two definitions that migrate apart, for the
   hazard at getters.go:72; **time in propagation**, a sync with a limited time for
   several CRDs.
