----------------------------- MODULE Certificates -----------------------------
(***************************************************************************)
(* The webhook certificate of core-provider: how it is issued, installed,  *)
(* served and propagated as CA bundle (internal/controllers/certificates,  *)
(* internal/tools/certs).                                                  *)
(*                                                                         *)
(* Two kinds of actors share one CertManager.  The refresher syncs at every *)
(* interval: it manages the certificate and then propagates the bundle to  *)
(* every CRD.  Workers are reconciles in Create or Update: they write their *)
(* CRD with a bundle they read before, and then manage the certificate for *)
(* that CRD.  certGenMu is held from the look at the signing request until *)
(* the new bundle is in memory; reading the bundle and propagating it is   *)
(* outside of it.                                                          *)
(*                                                                         *)
(* Time is counted in ticks no longer than a sync interval.  A certificate *)
(* is a serial number; numbers that nothing refers to any more are reused. *)
(***************************************************************************)
EXTENDS Integers, FiniteSets

CONSTANTS Workers, Refresher,
          CRDs,          \* the generated CRDs
          Anchor,        \* the CRD of CompositionDefinition, of one version
          Serials, NoSerial,
          Duration,      \* --tls-certificate-duration
          Margin,        \* --tls-certificate-lease-expiration-margin
          Interval,      \* --certificate-sync-interval
          Faulty,        \* the kinds of call that may fail
          MaxFaults, MaxRestarts, MaxCollections

Actors == Workers \cup {Refresher}
FaultKinds == {"csr", "sign", "rename", "read", "propagate"}

ASSUME ActorsAssumption == Refresher \notin Workers /\ "none" \notin Actors
ASSUME AnchorAssumption == Anchor \notin CRDs
ASSUME SerialsAssumption == NoSerial \notin Serials
ASSUME TimesAssumption ==
  Duration \in Nat /\ Margin \in Nat /\ Interval \in Nat \ {0}
ASSUME CertFaultsAssumption == Faulty \subseteq FaultKinds
ASSUME CertBoundsAssumption ==
  MaxFaults \in Nat /\ MaxRestarts \in Nat /\ MaxCollections \in Nat

VARIABLES csr,     \* the CertificateSigningRequest object
          age,     \* ticks since each certificate was requested
          crt, key,\* the files tls.crt and tls.key
          ca,      \* CertManager.caBundle
          served,  \* the pair the webhook server has loaded
          hook,    \* the bundle in the MutatingWebhookConfiguration
          bundles, \* the bundle in each CRD, NoSerial if it has one version
          lock,    \* who holds certGenMu
          since,   \* ticks since the last sync
          up,      \* the process has booted
          pc, loc, \* what each actor is at, and has read
          budget

vars == <<csr, age, crt, key, ca, served, hook, bundles, lock, since, up, pc,
          loc, budget>>
files == <<crt, key>>
published == <<hook, bundles>>

Serial == Serials \cup {NoSerial}
Stages == {"idle", "apply", "manage", "issue", "installCert", "installKey",
           "readCA", "writeCRD", "writeHook", "next"}
Locals == [target : CRDs \cup {Anchor}, ca : Serial, new : Serial, todo : SUBSET CRDs]
NoLocals == [target |-> Anchor, ca |-> NoSerial, new |-> NoSerial, todo |-> {}]
\* An age beyond this is as good as any.
OldAge == Duration + 1
Older(n) == IF n >= OldAge THEN OldAge ELSE n + 1

TypeOK ==
  /\ csr \in Serial /\ crt \in Serial /\ key \in Serial
  /\ ca \in Serial /\ served \in Serial /\ hook \in Serial
  /\ up => /\ crt \in Serials /\ key \in Serials
           /\ ca \in Serials /\ served \in Serials
  /\ age \in [Serials -> 0 .. OldAge]
  /\ bundles \in [CRDs -> Serial]
  /\ lock \in Actors \cup {"none"}
  /\ since \in 0 .. Interval
  /\ up \in BOOLEAN
  /\ pc \in [Actors -> Stages]
  /\ loc \in [Actors -> Locals]
  /\ budget \in [faults : 0 .. MaxFaults, restarts : 0 .. MaxRestarts,
                 collections : 0 .. MaxCollections]

\* main issues a certificate before it starts anything else.
Init ==
  /\ csr = NoSerial /\ crt = NoSerial /\ key = NoSerial
  /\ ca = NoSerial /\ served = NoSerial /\ hook = NoSerial
  /\ age = [s \in Serials |-> 0]
  /\ bundles = [c \in CRDs |-> NoSerial]
  /\ lock = Refresher
  /\ since = 0
  /\ up = FALSE
  /\ pc = [[a \in Actors |-> "idle"] EXCEPT ![Refresher] = "issue"]
  /\ loc = [a \in Actors |-> NoLocals]
  /\ budget = [faults |-> MaxFaults, restarts |-> MaxRestarts,
               collections |-> MaxCollections]

-----------------------------------------------------------------------------

Goto(a, stage) == pc' = [pc EXCEPT ![a] = stage]
Spend(kind) == budget[kind] > 0 /\ budget' = [budget EXCEPT ![kind] = @ - 1]
Unused == Serials \ ({csr, crt, key, ca, served, hook}
                       \cup {bundles[c] : c \in CRDs}
                       \cup {loc[a].ca : a \in Actors}
                       \cup {loc[a].new : a \in Actors})
NewSerials == {s \in Unused : \A t \in Unused : s <= t}

\* (mutant) It is renewed when the certificate ends.
ExpiredHard(s) == age[s] > Duration

\* certs.Expired: by the age of the signing request.
Expired(s) == age[s] > Margin
Renewable == IF csr = NoSerial THEN TRUE ELSE Expired(csr)

\* (mutant) An error during boot is ignored, as in NewCertManager.
AbortTolerant(a) ==
  /\ lock' = IF lock = a THEN "none" ELSE lock
  /\ Goto(a, "idle")
  /\ loc' = [loc EXCEPT ![a] = NoLocals]
  /\ since' = IF up THEN since ELSE Interval
  /\ up' = TRUE

\* An error: the call returns, with the lock released.  During boot the process
\* exits and is started again.
Abort(a) ==
  /\ IF up THEN lock' = (IF lock = a THEN "none" ELSE lock) /\ Goto(a, "idle")
           ELSE lock' = lock /\ Goto(a, "issue")
  /\ loc' = [loc EXCEPT ![a] = NoLocals]
  /\ UNCHANGED <<since, up>>

-----------------------------------------------------------------------------
(* A reconcile: ApplyOrUpdateCRD, then ManageCertificates for the CRD *)

\* A version is appended with the manager's bundle, a status schema is replaced
\* in the CRD as it was read, or there is nothing to write.
BeginApply(w, c) ==
  /\ up /\ pc[w] = "idle"
  /\ \/ /\ \E b \in {ca, bundles[c]} :
             loc' = [loc EXCEPT ![w].target = c, ![w].ca = b]
        /\ Goto(w, "apply")
     \/ /\ loc' = [loc EXCEPT ![w].target = c]
        /\ Goto(w, "manage")
  /\ UNCHANGED <<csr, age, files, ca, served, published, lock, since, up, budget>>

Apply(w) ==
  /\ pc[w] = "apply"
  /\ bundles' = IF loc[w].ca = NoSerial THEN bundles
                ELSE [bundles EXCEPT ![loc[w].target] = loc[w].ca]
  /\ loc' = [loc EXCEPT ![w].ca = NoSerial]
  /\ Goto(w, "manage")
  /\ UNCHANGED <<csr, age, files, ca, served, hook, lock, since, up, budget>>

-----------------------------------------------------------------------------
(* ManageCertificates *)

Check(a) ==
  /\ pc[a] = "manage"
  /\ lock = "none"
  /\ \/ /\ ~Renewable
        /\ Goto(a, "readCA")
        /\ UNCHANGED lock
     \/ /\ Renewable
        /\ Goto(a, "issue")
        /\ lock' = a
  /\ UNCHANGED <<csr, age, files, ca, served, published, since, up, loc, budget>>

\* A new signing request replaces the old one, is approved and signed.
Issue(a) ==
  /\ pc[a] = "issue"
  /\ \E s \in NewSerials :
       /\ csr' = s
       /\ age' = [age EXCEPT ![s] = 0]
       /\ loc' = [loc EXCEPT ![a].new = s]
  /\ Goto(a, "installCert")
  /\ UNCHANGED <<files, ca, served, published, lock, since, up, budget>>

\* It fails before there is a new request, or once there is one.
IssueFails(a) ==
  /\ pc[a] = "issue"
  /\ \/ /\ "csr" \in Faulty
        /\ csr' \in {csr, NoSerial}
        /\ UNCHANGED age
     \/ /\ "sign" \in Faulty
        /\ \E s \in NewSerials : csr' = s /\ age' = [age EXCEPT ![s] = 0]
  /\ Spend("faults")
  /\ Abort(a)
  /\ UNCHANGED <<files, ca, served, published>>

\* UpdateCerts: two renames, the certificate first.
InstallCert(a) ==
  /\ pc[a] = "installCert"
  /\ crt' = loc[a].new
  /\ Goto(a, "installKey")
  /\ UNCHANGED <<csr, age, key, ca, served, published, lock, since, up, loc, budget>>

\* What follows the installation: at boot the webhook server starts with the
\* pair, and the refresher with a sync.
Installed(a) ==
  /\ ca' = crt
  /\ lock' = "none"
  /\ loc' = [loc EXCEPT ![a].new = NoSerial]
  /\ IF up THEN Goto(a, "readCA") /\ UNCHANGED <<served, since>>
           ELSE Goto(a, "idle") /\ served' = crt /\ since' = Interval
  /\ up' = TRUE
  /\ UNCHANGED <<csr, age, crt, published, budget>>

\* (mutant) A key that cannot be renamed into place is logged and ignored.
InstallKeyLoosely(a) ==
  /\ pc[a] = "installKey"
  /\ key' \in {key, loc[a].new}
  /\ Installed(a)

InstallKey(a) ==
  /\ pc[a] = "installKey"
  /\ key' = loc[a].new
  /\ Installed(a)

\* A rename fails, or tls.crt cannot be read back.
InstallFails(a) ==
  /\ \/ /\ pc[a] \in {"installCert", "installKey"}
        /\ "rename" \in Faulty
        /\ UNCHANGED key
     \/ /\ pc[a] = "installKey"
        /\ "read" \in Faulty
        /\ key' = loc[a].new
  /\ Spend("faults")
  /\ Abort(a)
  /\ UNCHANGED <<csr, age, crt, ca, served, published>>

\* GetCABundle, after certGenMu is released.
ReadCA(a) ==
  /\ pc[a] = "readCA"
  /\ loc' = [loc EXCEPT ![a].ca = ca]
  /\ Goto(a, IF loc[a].target = Anchor THEN "writeHook" ELSE "writeCRD")
  /\ UNCHANGED <<csr, age, files, ca, served, published, lock, since, up, budget>>

\* propagateCABundle leaves a CRD of one version alone.
WriteCRD(a) ==
  /\ pc[a] = "writeCRD"
  /\ bundles' = IF bundles[loc[a].target] = NoSerial THEN bundles
                ELSE [bundles EXCEPT ![loc[a].target] = loc[a].ca]
  /\ Goto(a, "writeHook")
  /\ UNCHANGED <<csr, age, files, ca, served, hook, lock, since, up, loc, budget>>

WriteHook(a) ==
  /\ pc[a] = "writeHook"
  /\ hook' = loc[a].ca
  /\ loc' = [loc EXCEPT ![a].target = Anchor, ![a].ca = NoSerial]
  /\ Goto(a, IF loc[a].todo = {} THEN "idle" ELSE "next")
  /\ UNCHANGED <<csr, age, files, ca, served, bundles, lock, since, up, budget>>

\* A call to the API server fails beyond its retries, or the sync times out.
CallFails(a) ==
  /\ \/ pc[a] = "manage" /\ "csr" \in Faulty
     \/ pc[a] \in {"apply", "readCA", "writeCRD", "writeHook", "next"}
          /\ "propagate" \in Faulty
  /\ Spend("faults")
  /\ Abort(a)
  /\ UNCHANGED <<csr, age, files, ca, served, published>>

-----------------------------------------------------------------------------
(* The refresher *)

\* (mutant) A sync leaves the CRDs to their reconciles.
SyncAnchor ==
  /\ up /\ pc[Refresher] = "idle"
  /\ since = Interval
  /\ since' = 0
  /\ Goto(Refresher, "manage")
  /\ UNCHANGED <<csr, age, files, ca, served, published, lock, up, loc, budget>>

\* syncCertificates: ManageCertificates with the anchor, then
\* UpdateExistingResources.
Sync ==
  /\ up /\ pc[Refresher] = "idle"
  /\ since = Interval
  /\ since' = 0
  /\ loc' = [loc EXCEPT ![Refresher].todo = CRDs]
  /\ Goto(Refresher, "manage")
  /\ UNCHANGED <<csr, age, files, ca, served, published, lock, up, budget>>

\* The CRD of the next definition in the list.
NextCRD(c) ==
  /\ pc[Refresher] = "next"
  /\ c \in loc[Refresher].todo
  /\ loc' = [loc EXCEPT ![Refresher].todo = @ \ {c}, ![Refresher].target = c]
  /\ Goto(Refresher, "readCA")
  /\ UNCHANGED <<csr, age, files, ca, served, published, lock, since, up, budget>>

-----------------------------------------------------------------------------
(* The environment *)

\* The webhook server's certificate watcher (external) loads a matching pair.
Reload ==
  /\ up
  /\ crt = key /\ served # crt
  /\ served' = crt
  /\ UNCHANGED <<csr, age, files, ca, published, lock, since, up, pc, loc, budget>>

\* The cluster removes signing requests after a while (an hour once approved).
Collect ==
  /\ csr # NoSerial /\ age[csr] > 0
  /\ lock = "none"
  /\ Spend("collections")
  /\ csr' = NoSerial
  /\ UNCHANGED <<age, files, ca, served, published, lock, since, up, pc, loc>>

\* A tick is long for one call, for a sync that is under way or due, and for the
\* watcher; a reconcile may take any number of ticks.
Tick ==
  /\ up /\ lock = "none"
  /\ pc[Refresher] = "idle" /\ since < Interval
  /\ crt = key => served = crt
  /\ since' = since + 1
  /\ age' = [s \in Serials |->
               IF s \in {csr, crt, key, served} THEN Older(age[s]) ELSE 0]
  /\ UNCHANGED <<csr, files, ca, served, published, lock, up, pc, loc, budget>>

\* The process ends at any point; the files, if they are kept at all, are
\* replaced before they are served again.
Restart ==
  /\ up
  /\ Spend("restarts")
  /\ up' = FALSE
  /\ lock' = Refresher
  /\ pc' = [[a \in Actors |-> "idle"] EXCEPT ![Refresher] = "issue"]
  /\ loc' = [a \in Actors |-> NoLocals]
  /\ ca' = crt
  /\ since' = 0
  /\ UNCHANGED <<csr, age, files, served, published>>

-----------------------------------------------------------------------------

Manage(a) == Check(a) \/ Issue(a) \/ InstallCert(a) \/ InstallKey(a)
               \/ ReadCA(a) \/ WriteCRD(a) \/ WriteHook(a)
Refresh == Sync \/ \E c \in CRDs : NextCRD(c)
Failure(a) == IssueFails(a) \/ InstallFails(a) \/ CallFails(a)

Next == \/ \E a \in Actors : Manage(a) \/ Failure(a)
        \/ \E w \in Workers, c \in CRDs : BeginApply(w, c)
        \/ \E w \in Workers : Apply(w)
        \/ Refresh
        \/ Reload \/ Collect \/ Tick \/ Restart

Spec == Init /\ [][Next]_vars

\* Time goes on, goroutines and the watcher run.  Nothing is assumed of how often
\* definitions are reconciled.
Fairness ==
  /\ \A a \in Actors : WF_vars(Manage(a))
  /\ \A w \in Workers : WF_vars(Apply(w))
  /\ WF_vars(Refresh) /\ WF_vars(Reload) /\ WF_vars(Tick)

FairSpec == Spec /\ Fairness

-----------------------------------------------------------------------------
(* Properties *)

\* Outside of the critical section the bundle in memory is one the API server can
\* be told to trust: of the pair that is served, or of the pair on disk that the
\* server is about to load.  A failure up to the second rename must not leave the
\* bundle of a certificate without key (ManageCertificates, UpdateCerts).  One
\* failure does break it and is left out: if tls.crt cannot be read back once both
\* files are in place (certificates.go:144), the server loads the new pair and
\* memory keeps the old bundle until the next renewal.
BundleServable ==
  "read" \notin Faulty /\ lock = "none" => ca = served \/ (ca = crt /\ crt = key)

\* The certificate that is served has not ended.
NeverExpired == up => age[served] <= Duration

\* Again and again each CRD and the mutating webhook trust the certificate that
\* is served: a bundle a slow reconcile has put back is replaced by a later sync.
TrustRecurs ==
  /\ []<>(up /\ hook = served)
  /\ \A c \in CRDs : []<>(up /\ bundles[c] \in {NoSerial, served})

\* docs/developer-guide/03-crd-webhook-cert-lifecycle.md:50: generation is
\* serialized and the bundle in memory guarded, so concurrent reconciles do not
\* race: a CRD that has the current bundle keeps it until there is a new one.
BundleNotRolledBack ==
  [][\A c \in CRDs : bundles[c] = ca /\ ca = served /\ ca' = ca /\ up'
       => bundles'[c] = ca]_vars
=============================================================================
