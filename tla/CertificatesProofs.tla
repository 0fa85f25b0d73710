-------------------------- MODULE CertificatesProofs --------------------------
(***************************************************************************)
(* Proofs about the certificate manager: its state is type-correct, and    *)
(* the CA bundle it would publish always belongs to a certificate that the *)
(* webhook server serves or is about to load.                              *)
(***************************************************************************)
EXTENDS Certificates, TLAPS

Critical == {"issue", "installCert", "installKey"}

\* certGenMu: whoever is in the critical section holds the lock, and nobody else.
Locked == \A a \in Actors : pc[a] \in Critical <=> lock = a

\* Until main has its first certificate nothing else runs.
Booting == ~up => /\ lock = Refresher
                  /\ \A w \in Workers : pc[w] = "idle"

\* What is being installed is the certificate of the signing request that was
\* just made, and the key on disk is still another one.
Fresh(a) == /\ loc[a].new \in Serials /\ csr = loc[a].new /\ age[csr] = 0
            /\ key # csr
Installing == \A a \in Actors :
  /\ pc[a] \in {"installCert", "installKey"} => Fresh(a)
  /\ pc[a] = "installKey" => crt = loc[a].new

\* A pair on disk that matches is the one whose bundle is in memory.
Matching == up /\ crt = key => ca = crt

\* The bundle in memory is ahead of the served certificate only right after the
\* pair was installed, so that no renewal can start before the server loads it.
Ahead == up /\ ca # served =>
           lock = "none" /\ ca = crt /\ crt = key /\ csr = ca /\ age[csr] = 0

IInv == /\ TypeOK /\ Locked /\ Booting /\ Installing
        /\ "read" \notin Faulty => Matching /\ Ahead

USE DEF Critical

LEMMA InitInvariant == Init => IInv
<1> SUFFICES ASSUME Init PROVE IInv
  OBVIOUS
<1> USE DEF Init
<1>1. csr \in Serial /\ crt \in Serial /\ key \in Serial
        /\ ca \in Serial /\ served \in Serial /\ hook \in Serial
  BY DEF Serial
<1>2. age \in [Serials -> 0 .. OldAge]
  BY TimesAssumption DEF OldAge
<1>3. bundles \in [CRDs -> Serial]
  BY DEF Serial
<1>4. pc \in [Actors -> Stages]
  BY DEF Stages
<1>5. loc \in [Actors -> Locals]
  BY DEF NoLocals, Locals, Serial
<1>6. budget \in [faults : 0 .. MaxFaults, restarts : 0 .. MaxRestarts,
                  collections : 0 .. MaxCollections]
  BY CertBoundsAssumption
<1>7. lock \in Actors \cup {"none"}
  BY DEF Actors
<1>8. since \in 0 .. Interval
  BY TimesAssumption
<1>9. Locked /\ Booting /\ Installing
  BY ActorsAssumption DEF Locked, Booting, Installing, Actors
<1>10. Matching /\ Ahead
  BY DEF Matching, Ahead
<1> QED  BY <1>1, <1>2, <1>3, <1>4, <1>5, <1>6, <1>7, <1>8, <1>9, <1>10
         DEF IInv, TypeOK

\* What an actor has read keeps its type when one of its fields is assigned.
LEMMA CertificateAssigned ==
  ASSUME NEW f \in [Actors -> Locals], NEW a \in Actors, NEW s \in Serial
  PROVE  /\ [f EXCEPT ![a].ca = s] \in [Actors -> Locals]
         /\ [f EXCEPT ![a].new = s] \in [Actors -> Locals]
<1>1. [f EXCEPT ![a].ca = s] \in [Actors -> Locals]
  BY DEF Locals
<1>2. [f EXCEPT ![a].new = s] \in [Actors -> Locals]
  BY DEF Locals
<1> QED  BY <1>1, <1>2

LEMMA TargetAssigned ==
  ASSUME NEW f \in [Actors -> Locals], NEW a \in Actors,
         NEW t \in CRDs \cup {Anchor}
  PROVE  [f EXCEPT ![a].target = t] \in [Actors -> Locals]
BY DEF Locals

\* A reconcile writes its CRD: only bundles change.
LEMMA ReconcileInvariant ==
  ASSUME IInv, NEW w \in Workers, NEW c,
         (c \in CRDs /\ BeginApply(w, c)) \/ Apply(w)
  PROVE  IInv'
<1> USE DEF BeginApply, Apply, Goto, files, published
<1>1. TypeOK'
  <2>1. loc' \in [Actors -> Locals]
    BY DEF IInv, TypeOK, Serial, Locals, Actors
  <2>2. pc' \in [Actors -> Stages]
    BY DEF IInv, TypeOK, Stages, Actors
  <2>3. bundles' \in [CRDs -> Serial]
    BY DEF IInv, TypeOK, Locals, Actors
  <2> QED  BY <2>1, <2>2, <2>3 DEF IInv, TypeOK
<1>2. Locked' /\ Booting'
  BY ActorsAssumption DEF IInv, TypeOK, Locked, Booting, Actors
<1>3. Installing'
  BY DEF IInv, TypeOK, Installing, Fresh, Locals, Actors
<1>4. "read" \notin Faulty => Matching' /\ Ahead'
  BY DEF IInv, Matching, Ahead
<1> QED  BY <1>1, <1>2, <1>3, <1>4 DEF IInv

\* The refresher begins a sync, and goes on to the next CRD.
LEMMA RefreshInvariant ==
  ASSUME IInv, NEW c, Sync \/ (c \in CRDs /\ NextCRD(c))
  PROVE  IInv'
<1> USE DEF Sync, NextCRD, Goto, files, published
<1>1. TypeOK'
  <2>1. loc' \in [Actors -> Locals]
    BY DEF IInv, TypeOK, Locals, Actors
  <2>2. pc' \in [Actors -> Stages]
    BY DEF IInv, TypeOK, Stages, Actors
  <2>3. since' \in 0 .. Interval
    BY TimesAssumption DEF IInv, TypeOK
  <2> QED  BY <2>1, <2>2, <2>3 DEF IInv, TypeOK
<1>2. Locked' /\ Booting'
  BY ActorsAssumption DEF IInv, TypeOK, Locked, Booting, Actors
<1>3. Installing'
  BY DEF IInv, TypeOK, Installing, Fresh, Locals, Actors
<1>4. "read" \notin Faulty => Matching' /\ Ahead'
  BY DEF IInv, Matching, Ahead
<1> QED  BY <1>1, <1>2, <1>3, <1>4 DEF IInv

\* Outside of the lock the bundle is read and published: each of these steps
\* moves its actor on, keeps the types of what the actor has read, and writes at
\* most one bundle.
LEMMA PropagationTypes ==
  ASSUME IInv, NEW a \in Actors, ReadCA(a) \/ WriteCRD(a) \/ WriteHook(a)
  PROVE  /\ loc' \in [Actors -> Locals] /\ pc' \in [Actors -> Stages]
         /\ bundles' \in [CRDs -> Serial] /\ hook' \in Serial
<1>1. /\ loc \in [Actors -> Locals] /\ pc \in [Actors -> Stages]
      /\ bundles \in [CRDs -> Serial] /\ hook \in Serial /\ ca \in Serial
  BY DEF IInv, TypeOK
<1>2. loc[a].ca \in Serial
  BY <1>1 DEF Locals
<1>3. pc' \in [Actors -> Stages]
  <2>1. \A s \in Stages : [pc EXCEPT ![a] = s] \in [Actors -> Stages]
    BY <1>1
  <2>2. \E s \in Stages : pc' = [pc EXCEPT ![a] = s]
    BY DEF ReadCA, WriteCRD, WriteHook, Goto, Stages
  <2> QED  BY <2>1, <2>2
<1>4. CASE ReadCA(a)
  <2>1. loc' = [loc EXCEPT ![a].ca = ca] /\ UNCHANGED <<hook, bundles>>
    BY <1>4 DEF ReadCA, published
  <2>2. loc' \in [Actors -> Locals]
    BY <1>1, <2>1, CertificateAssigned
  <2> QED  BY <1>1, <1>3, <2>1, <2>2
<1>5. CASE WriteCRD(a)
  <2>1. /\ bundles' = bundles
           \/ bundles' = [bundles EXCEPT ![loc[a].target] = loc[a].ca]
        /\ UNCHANGED <<loc, hook>>
    BY <1>5 DEF WriteCRD
  <2>2. bundles' \in [CRDs -> Serial]
    BY <1>1, <1>2, <2>1
  <2> QED  BY <1>1, <1>3, <2>1, <2>2
<1>6. CASE WriteHook(a)
  <2>1. /\ loc' = [loc EXCEPT ![a].target = Anchor, ![a].ca = NoSerial]
        /\ hook' = loc[a].ca /\ UNCHANGED bundles
    BY <1>6 DEF WriteHook
  <2>2. NoSerial \in Serial /\ Anchor \in CRDs \cup {Anchor}
    BY DEF Serial
  <2>3. loc' = [[loc EXCEPT ![a].target = Anchor] EXCEPT ![a].ca = NoSerial]
    BY <1>1, <2>1 DEF Locals
  <2>4. [loc EXCEPT ![a].target = Anchor] \in [Actors -> Locals]
    BY <1>1, <2>2, TargetAssigned
  <2>5. loc' \in [Actors -> Locals]
    BY <2>2, <2>3, <2>4, CertificateAssigned
  <2> QED  BY <1>1, <1>2, <1>3, <2>1, <2>5
<1> QED  BY <1>4, <1>5, <1>6

\* Its lock, the files and the certificate stay as they were.
LEMMA PropagationInvariant ==
  ASSUME IInv, NEW a \in Actors, ReadCA(a) \/ WriteCRD(a) \/ WriteHook(a)
  PROVE  IInv'
<1> USE DEF ReadCA, WriteCRD, WriteHook, Goto, files, published
<1>1. TypeOK'
  <2>1. UNCHANGED <<csr, age, crt, key, ca, served, lock, since, up, budget>>
    OBVIOUS
  <2> HIDE DEF ReadCA, WriteCRD, WriteHook
  <2> QED  BY <2>1, PropagationTypes DEF IInv, TypeOK
<1>2. Locked' /\ Booting'
  BY ActorsAssumption DEF IInv, TypeOK, Locked, Booting, Actors
<1>3. Installing'
  BY DEF IInv, TypeOK, Installing, Fresh, Locals
<1>4. "read" \notin Faulty => Matching' /\ Ahead'
  BY DEF IInv, Matching, Ahead
<1> QED  BY <1>1, <1>2, <1>3, <1>4 DEF IInv

\* The lock is taken only when the signing request is renewable, hence not while
\* the server still has to load the last pair.
LEMMA CheckInvariant ==
  ASSUME IInv, NEW a \in Actors, Check(a)
  PROVE  IInv'
<1> USE DEF Check, Goto, files, published
<1>1. TypeOK'
  BY DEF IInv, TypeOK, Stages
<1>2. Locked' /\ Booting'
  BY ActorsAssumption DEF IInv, TypeOK, Locked, Booting, Actors
<1>3. Installing'
  BY DEF IInv, TypeOK, Installing, Fresh
<1>4. "read" \notin Faulty => Matching' /\ Ahead'
  BY TimesAssumption, SerialsAssumption
  DEF IInv, TypeOK, Matching, Ahead, Renewable, Expired
<1> QED  BY <1>1, <1>2, <1>3, <1>4 DEF IInv

\* A new signing request is one that nothing refers to, the key included.
LEMMA IssueInvariant ==
  ASSUME IInv, NEW a \in Actors, Issue(a)
  PROVE  IInv'
<1>1. PICK s \in NewSerials : /\ csr' = s
                              /\ age' = [age EXCEPT ![s] = 0]
                              /\ loc' = [loc EXCEPT ![a].new = s]
  BY DEF Issue
<1>2. s \in Serials /\ s # key
  BY <1>1 DEF NewSerials, Unused
<1> USE DEF Issue, Goto, files, published
<1>3. lock = a /\ pc[a] = "issue"
  BY DEF IInv, Locked
<1>4. TypeOK'
  <2>1. loc' \in [Actors -> Locals]
    <3>1. loc \in [Actors -> Locals] /\ s \in Serial
      BY <1>2 DEF IInv, TypeOK, Serial
    <3> QED  BY <1>1, <3>1, CertificateAssigned
  <2>2. pc' \in [Actors -> Stages]
    BY DEF IInv, TypeOK, Stages
  <2>3. csr' \in Serial /\ age' \in [Serials -> 0 .. OldAge]
    BY <1>1, <1>2, TimesAssumption DEF IInv, TypeOK, Serial, OldAge
  <2> QED  BY <2>1, <2>2, <2>3 DEF IInv, TypeOK
<1>5. Locked' /\ Booting'
  BY ActorsAssumption DEF IInv, TypeOK, Locked, Booting, Actors
<1>6. Installing'
  BY <1>1, <1>2, <1>3 DEF IInv, TypeOK, Locked, Installing, Fresh, Locals
<1>7. "read" \notin Faulty => Matching' /\ Ahead'
  BY <1>3, ActorsAssumption DEF IInv, Matching, Ahead
<1> QED  BY <1>4, <1>5, <1>6, <1>7 DEF IInv

\* The certificate is replaced first, so the pair does not match until the key is
\* too.
LEMMA InstallCertInvariant ==
  ASSUME IInv, NEW a \in Actors, InstallCert(a)
  PROVE  IInv'
<1> USE DEF InstallCert, Goto, files, published
<1>1. lock = a /\ Fresh(a)
  BY DEF IInv, Locked, Installing
<1>2. TypeOK'
  BY <1>1 DEF IInv, TypeOK, Stages, Fresh, Serial
<1>3. Locked' /\ Booting'
  BY ActorsAssumption DEF IInv, TypeOK, Locked, Booting, Actors
<1>4. Installing'
  BY <1>1 DEF IInv, TypeOK, Locked, Installing, Fresh
<1>5. "read" \notin Faulty => Matching' /\ Ahead'
  BY <1>1, ActorsAssumption DEF IInv, Matching, Ahead, Fresh
<1> QED  BY <1>2, <1>3, <1>4, <1>5 DEF IInv

\* With the key the pair matches, and its bundle is in memory.
LEMMA InstallKeyInvariant ==
  ASSUME IInv, NEW a \in Actors, InstallKey(a)
  PROVE  IInv'
<1> USE DEF InstallKey, Installed, Goto, files, published
<1>1. lock = a /\ Fresh(a) /\ crt = loc[a].new
  BY DEF IInv, Locked, Installing
<1>2. TypeOK'
  <2>1. loc' \in [Actors -> Locals]
    <3>1. loc \in [Actors -> Locals] /\ NoSerial \in Serial
      BY DEF IInv, TypeOK, Serial
    <3>2. loc' = [loc EXCEPT ![a].new = NoSerial]
      BY DEF Installed
    <3> HIDE DEF InstallKey, Installed
    <3> QED  BY <3>1, <3>2, CertificateAssigned
  <2>2. pc' \in [Actors -> Stages]
    BY DEF IInv, TypeOK, Stages
  <2>3. crt' \in Serials /\ key' \in Serials /\ ca' \in Serials
    BY <1>1 DEF Fresh
  <2>4. served' \in Serials
    BY <1>1 DEF IInv, TypeOK, Fresh
  <2>5. since' \in 0 .. Interval
    BY TimesAssumption DEF IInv, TypeOK
  <2> QED  BY <2>1, <2>2, <2>3, <2>4, <2>5 DEF IInv, TypeOK, Serial
<1>3. Locked' /\ Booting'
  BY <1>1, ActorsAssumption DEF IInv, TypeOK, Locked, Booting, Actors
<1>4. Installing'
  BY <1>1 DEF IInv, TypeOK, Locked, Installing, Fresh
<1>5. Matching' /\ Ahead'
  BY <1>1 DEF Matching, Ahead, Fresh
<1> QED  BY <1>2, <1>3, <1>4, <1>5 DEF IInv

\* An error leaves the bundle in memory as it was.
LEMMA AbortInvariant ==
  ASSUME IInv, NEW a \in Actors, pc[a] # "idle", Abort(a), Spend("faults")
  PROVE  /\ loc' \in [Actors -> Locals] /\ pc' \in [Actors -> Stages]
         /\ lock' \in Actors \cup {"none"} /\ up' = up /\ since' = since
         /\ budget' \in [faults : 0 .. MaxFaults, restarts : 0 .. MaxRestarts,
                         collections : 0 .. MaxCollections]
         /\ Locked' /\ Booting'
         /\ \A b \in Actors : pc'[b] \in {"installCert", "installKey"} =>
                                b # a /\ pc'[b] = pc[b] /\ loc'[b] = loc[b]
<1> USE DEF Abort, Goto
<1>1. loc' \in [Actors -> Locals]
  BY DEF IInv, TypeOK, Locals, NoLocals, Serial
<1>2. pc' \in [Actors -> Stages] /\ lock' \in Actors \cup {"none"}
  BY DEF IInv, TypeOK, Stages
<1>3. budget' \in [faults : 0 .. MaxFaults, restarts : 0 .. MaxRestarts,
                   collections : 0 .. MaxCollections]
  BY CertBoundsAssumption DEF IInv, TypeOK, Spend
<1>4. ~up => a = Refresher
  BY DEF IInv, Booting, Actors
<1>5. Locked' /\ Booting'
  BY <1>4, ActorsAssumption DEF IInv, TypeOK, Locked, Booting, Actors
<1>6. ASSUME NEW b \in Actors, pc'[b] \in {"installCert", "installKey"}
      PROVE  b # a /\ pc'[b] = pc[b] /\ loc'[b] = loc[b]
  BY <1>6 DEF IInv, TypeOK
<1> QED  BY <1>1, <1>2, <1>3, <1>5, <1>6

LEMMA FailureInvariant ==
  ASSUME IInv, NEW a \in Actors, IssueFails(a) \/ InstallFails(a) \/ CallFails(a)
  PROVE  IInv'
<1> USE DEF IssueFails, InstallFails, CallFails, files, published
<1>1. /\ loc' \in [Actors -> Locals] /\ pc' \in [Actors -> Stages]
      /\ lock' \in Actors \cup {"none"} /\ up' = up /\ since' = since
      /\ budget' \in [faults : 0 .. MaxFaults, restarts : 0 .. MaxRestarts,
                      collections : 0 .. MaxCollections]
      /\ Locked' /\ Booting'
      /\ \A b \in Actors : pc'[b] \in {"installCert", "installKey"} =>
                             b # a /\ pc'[b] = pc[b] /\ loc'[b] = loc[b]
  BY AbortInvariant
<1>2. csr' \in Serial /\ age' \in [Serials -> 0 .. OldAge]
  BY TimesAssumption DEF IInv, TypeOK, NewSerials, Unused, Serial, OldAge
<1>3. key' \in Serial /\ (key' # key => key' \in Serials)
  BY DEF IInv, TypeOK, Locals, Installing, Fresh, Serial
<1>4. TypeOK'
  BY <1>1, <1>2, <1>3 DEF IInv, TypeOK
<1>5. Installing'
  \* Whoever is installing holds the lock, and it is not a.
  <2>1. SUFFICES ASSUME NEW b \in Actors, pc'[b] \in {"installCert", "installKey"}
                 PROVE  /\ Fresh(b)'
                        /\ pc'[b] = "installKey" => crt' = loc'[b].new
    BY DEF Installing
  <2>2. b # a /\ pc'[b] = pc[b] /\ loc'[b] = loc[b]
    BY <1>1, <2>1
  <2>3. lock = b /\ Fresh(b) /\ (pc[b] = "installKey" => crt = loc[b].new)
    BY <2>1, <2>2 DEF IInv, Locked, Installing
  <2>4. pc[a] \notin Critical
    BY <2>2, <2>3 DEF IInv, Locked
  <2>5. CallFails(a)
    BY <2>4
  <2> QED  BY <2>2, <2>3, <2>5 DEF Fresh
<1>6. ASSUME "read" \notin Faulty PROVE Matching' /\ Ahead'
  <2>1. CASE CallFails(a)
    <3>1. lock # a
      BY <2>1 DEF IInv, Locked
    <3> QED
      BY <1>6, <2>1, <3>1, ActorsAssumption DEF IInv, Abort, Matching, Ahead, Actors
  <2>2. CASE IssueFails(a) \/ InstallFails(a)
    <3>1. lock = a
      BY <2>2 DEF IInv, Locked
    <3>2. up => ca = served
      BY <1>6, <3>1, ActorsAssumption DEF IInv, Ahead
    <3> QED  BY <1>1, <1>6, <2>2, <3>2 DEF IInv, Matching, Ahead
  <2> QED  BY <2>1, <2>2
<1> QED  BY <1>1, <1>4, <1>5, <1>6 DEF IInv

\* Time does not pass before the server has loaded a matching pair.
LEMMA TimeInvariant ==
  ASSUME IInv, Reload \/ Collect \/ Tick
  PROVE  IInv'
<1> USE DEF Reload, Collect, Tick, files, published
<1>1. TypeOK'
  <2>1. age' \in [Serials -> 0 .. OldAge] /\ since' \in 0 .. Interval
    BY TimesAssumption DEF IInv, TypeOK, Older, OldAge
  <2>2. budget' \in [faults : 0 .. MaxFaults, restarts : 0 .. MaxRestarts,
                     collections : 0 .. MaxCollections]
    BY CertBoundsAssumption DEF IInv, TypeOK, Spend
  <2> QED  BY <2>1, <2>2 DEF IInv, TypeOK, Serial
<1>2. Locked' /\ Booting'
  BY DEF IInv, Locked, Booting
<1>3. Installing'
  \* With the lock free nobody is installing; a Reload waits for the pair.
  BY ActorsAssumption DEF IInv, Locked, Installing, Fresh, Actors
<1>4. "read" \notin Faulty => Matching' /\ Ahead'
  BY TimesAssumption DEF IInv, TypeOK, Matching, Ahead
<1> QED  BY <1>1, <1>2, <1>3, <1>4 DEF IInv

LEMMA RestartInvariant ==
  ASSUME IInv, Restart
  PROVE  IInv'
<1> USE DEF Restart, files, published
<1>1. TypeOK'
  <2>1. loc' \in [Actors -> Locals]
    BY DEF Locals, NoLocals, Serial
  <2>2. pc' \in [Actors -> Stages] /\ lock' \in Actors
    BY DEF Stages, Actors
  <2>3. since' \in 0 .. Interval
    BY TimesAssumption
  <2>4. budget' \in [faults : 0 .. MaxFaults, restarts : 0 .. MaxRestarts,
                     collections : 0 .. MaxCollections]
    BY CertBoundsAssumption DEF IInv, TypeOK, Spend
  <2> QED  BY <2>1, <2>2, <2>3, <2>4 DEF IInv, TypeOK
<1>2. Locked' /\ Booting' /\ Installing'
  BY ActorsAssumption DEF Locked, Booting, Installing, Actors
<1>3. Matching' /\ Ahead'
  BY DEF Matching, Ahead
<1> QED  BY <1>1, <1>2, <1>3 DEF IInv

\* Every step preserves the invariant.
LEMMA NextInvariant == IInv /\ [Next]_vars => IInv'
<1> SUFFICES ASSUME IInv, [Next]_vars PROVE IInv'
  OBVIOUS
<1>1. CASE UNCHANGED vars
  BY <1>1 DEF vars, files, published, IInv, TypeOK, Locked, Booting, Installing,
              Fresh, Matching, Ahead
<1>2. ASSUME NEW a \in Actors, Manage(a) \/ Failure(a)
      PROVE  IInv'
  <2>1. CASE Check(a) \/ Issue(a)
    BY <2>1, CheckInvariant, IssueInvariant
  <2>2. CASE InstallCert(a) \/ InstallKey(a)
    BY <2>2, InstallCertInvariant, InstallKeyInvariant
  <2>3. CASE ReadCA(a) \/ WriteCRD(a) \/ WriteHook(a)
    BY <2>3, PropagationInvariant
  <2>4. CASE Failure(a)
    BY <2>4, FailureInvariant DEF Failure
  <2> QED  BY <1>2, <2>1, <2>2, <2>3, <2>4 DEF Manage
<1>3. ASSUME NEW w \in Workers, NEW c \in CRDs, BeginApply(w, c)
      PROVE  IInv'
  BY <1>3, ReconcileInvariant
<1>4. ASSUME NEW w \in Workers, Apply(w)
      PROVE  IInv'
  BY <1>4, ReconcileInvariant
<1>5. CASE Refresh
  BY <1>5, RefreshInvariant DEF Refresh
<1>6. CASE Reload \/ Collect \/ Tick \/ Restart
  BY <1>6, TimeInvariant, RestartInvariant
<1> QED  BY <1>1, <1>2, <1>3, <1>4, <1>5, <1>6 DEF Next

THEOREM CertificateInvariant == Spec => []IInv
BY InitInvariant, NextInvariant, PTL DEF Spec

\* The certificate manager's state is type-correct: once the process has booted
\* there is a certificate on disk, in memory and in the webhook server.
THEOREM CertificateTypes == Spec => []TypeOK
<1>1. IInv => TypeOK
  BY DEF IInv
<1> QED  BY <1>1, CertificateInvariant, PTL

\* Whatever fails up to the second rename, the bundle ManageCertificates leaves in
\* memory is that of the served pair or of the matching pair about to be loaded. The
\* property leaves out the failure to read tls.crt back once it is in place.
THEOREM BundleAlwaysServable == Spec => []BundleServable
<1>1. IInv => BundleServable
  BY ActorsAssumption DEF IInv, Booting, Ahead, BundleServable, Actors
<1> QED  BY <1>1, CertificateInvariant, PTL
=============================================================================
