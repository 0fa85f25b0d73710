----------------------- MODULE CertificateLifetimeProofs -----------------------
(***************************************************************************)
(* Proof that the served certificate never ends, if its duration leaves    *)
(* room for one renewal period (a margin and an interval) more than there  *)
(* are failures.                                                           *)
(*                                                                         *)
(* Renewal looks at the age of the signing request, not of the certificate *)
(* that is served: each failure that leaves a fresh request behind costs a *)
(* whole period.  The invariant keeps one period in reserve for every      *)
(* failure that may still come.                                            *)
(***************************************************************************)
EXTENDS CertificatesProofs

Period == Margin + Interval
Reserve == budget.faults * Period

\* A pair on disk matches, and the server still has to load it.
Pending == up /\ crt = key /\ served # crt

\* The signing request in the cluster is the one the next look will judge.
Judged == /\ csr # NoSerial
          /\ lock = "none" \/ \E a \in Actors : lock = a /\ pc[a] = "issue"

\* Ticks the refresher has left passing since its last look: a sync that has not
\* decided yet counts as a whole interval.
Elapsed == IF pc[Refresher] \in {"manage"} \cup Critical THEN Interval ELSE since

PendingFresh == Pending => lock = "none" /\ csr = crt /\ age[csr] = 0
Alive == up => age[served] + Reserve <= Duration
BehindRequest == up /\ ~Pending /\ Judged =>
                   age[served] + Reserve <= Duration - Period + age[csr]
BehindSync == up /\ ~Pending => age[served] + Reserve <= Duration - Interval + Elapsed

LInv == PendingFresh /\ Alive /\ BehindRequest /\ BehindSync
LifetimeIInv == IInv /\ LInv

\* The duration pays a period for each failure, and one for the renewal.
Affordable == (MaxFaults + 1) * Period <= Duration

LEMMA ReserveBounds ==
  ASSUME TypeOK, Affordable
  PROVE  /\ Period \in Nat /\ Reserve \in Nat /\ Interval <= Period
         /\ Reserve + Period <= Duration
<1>1. /\ Margin \in Nat /\ Interval \in Nat /\ MaxFaults \in Nat
      /\ Duration \in Nat
  BY TimesAssumption, CertBoundsAssumption
<1>2. budget.faults \in Nat /\ budget.faults <= MaxFaults
  BY <1>1 DEF TypeOK
<1>3. Period \in Nat /\ Interval <= Period
  BY <1>1 DEF Period
<1>4. ASSUME NEW n \in Nat, NEW m \in Nat, NEW p \in Nat, n <= m
      PROVE  n * p \in Nat /\ n * p + p <= (m + 1) * p
  BY <1>4, SMT
<1>5. Reserve \in Nat /\ Reserve + Period <= (MaxFaults + 1) * Period
  BY <1>1, <1>2, <1>3, <1>4 DEF Reserve
<1>6. (MaxFaults + 1) * Period \in Nat
  BY <1>1, <1>3
<1> QED  BY <1>1, <1>3, <1>5, <1>6 DEF Affordable

\* A failure releases the period that was held back for it.
LEMMA ReserveSpent ==
  ASSUME TypeOK, Spend("faults")
  PROVE  Reserve' = Reserve - Period
<1>1. Period \in Nat /\ Period' = Period
  BY TimesAssumption DEF Period
<1>2. budget.faults \in Nat /\ budget'.faults = budget.faults - 1
  BY CertBoundsAssumption DEF TypeOK, Spend
<1>3. \A n \in Nat, p \in Nat : (n - 1) * p = n * p - p
  BY SMT
<1> QED  BY <1>1, <1>2, <1>3 DEF Reserve

LEMMA LifetimeTypes ==
  ASSUME TypeOK, up
  PROVE  /\ age[served] \in Nat /\ age[served] <= OldAge
         /\ csr # NoSerial => age[csr] \in Nat /\ age[csr] <= OldAge
BY TimesAssumption DEF TypeOK, Serial, OldAge

\* Publishing the bundle, and beginning a sync or a reconcile, touch nothing the
\* invariant speaks of.
LEMMA PublishingLifetime ==
  ASSUME LInv, UNCHANGED <<csr, age, crt, key, served, lock, up, budget>>,
         Elapsed' = Elapsed,
         \A a \in Actors : pc'[a] = "issue" => pc[a] = "issue"
  PROVE  LInv'
BY DEF LInv, Pending, PendingFresh, Alive, BehindRequest, BehindSync, Judged,
       Reserve, Period

LEMMA WorkerLifetime ==
  ASSUME LifetimeIInv, NEW w \in Workers, NEW c,
         (c \in CRDs /\ BeginApply(w, c)) \/ Apply(w)
  PROVE  LInv'
<1>1. UNCHANGED <<csr, age, crt, key, served, lock, up, budget, since>>
  BY DEF BeginApply, Apply, files, published
<1>2. \E s \in {"apply", "manage"} : pc' = [pc EXCEPT ![w] = s]
  BY DEF BeginApply, Apply, Goto
<1>3. pc \in [Actors -> Stages] /\ w # Refresher /\ w \in Actors
  BY ActorsAssumption DEF LifetimeIInv, IInv, TypeOK, Actors
<1>4. Elapsed' = Elapsed /\ \A a \in Actors : pc'[a] = "issue" => pc[a] = "issue"
  BY <1>1, <1>2, <1>3 DEF Elapsed, Critical, Actors
<1> QED  BY <1>1, <1>4, PublishingLifetime DEF LifetimeIInv

LEMMA PropagationLifetime ==
  ASSUME LifetimeIInv, NEW a \in Actors, ReadCA(a) \/ WriteCRD(a) \/ WriteHook(a)
  PROVE  LInv'
<1>1. UNCHANGED <<csr, age, crt, key, served, lock, up, budget, since>>
  BY DEF ReadCA, WriteCRD, WriteHook, files, published
<1>2. pc[a] \in {"readCA", "writeCRD", "writeHook"}
  BY DEF ReadCA, WriteCRD, WriteHook
<1>3. \E s \in {"writeCRD", "writeHook", "idle", "next"} :
        pc' = [pc EXCEPT ![a] = s]
  BY DEF ReadCA, WriteCRD, WriteHook, Goto
<1>4. pc \in [Actors -> Stages]
  BY DEF LifetimeIInv, IInv, TypeOK
<1>5. Elapsed' = Elapsed /\ \A b \in Actors : pc'[b] = "issue" => pc[b] = "issue"
  BY <1>1, <1>2, <1>3, <1>4 DEF Elapsed, Critical, Actors
<1> QED  BY <1>1, <1>5, PublishingLifetime DEF LifetimeIInv

LEMMA RefreshLifetime ==
  ASSUME LifetimeIInv, NEW c, Sync \/ (c \in CRDs /\ NextCRD(c))
  PROVE  LInv'
<1>1. UNCHANGED <<csr, age, crt, key, served, lock, up, budget>>
  BY DEF Sync, NextCRD, files, published
<1>2. pc \in [Actors -> Stages] /\ Refresher \in Actors
  BY DEF LifetimeIInv, IInv, TypeOK, Actors
<1>3. Elapsed' = Elapsed
  BY <1>2 DEF Elapsed, Critical, Sync, NextCRD, Goto
<1>4. \A b \in Actors : pc'[b] = "issue" => pc[b] = "issue"
  BY <1>2 DEF Sync, NextCRD, Goto
<1> QED  BY <1>1, <1>3, <1>4, PublishingLifetime DEF LifetimeIInv

\* A look that finds the request young enough has a margin of room; one that does
\* not begins a renewal within the interval it was given.
LEMMA CheckLifetime ==
  ASSUME LifetimeIInv, Affordable, NEW a \in Actors, Check(a)
  PROVE  LInv'
<1>1. /\ UNCHANGED <<csr, age, crt, key, served, up, budget, since>>
      /\ lock = "none" /\ pc[a] = "manage"
  BY DEF Check, files, published
<1>2. TypeOK /\ pc \in [Actors -> Stages]
  BY DEF LifetimeIInv, IInv, TypeOK
<1>3. Reserve' = Reserve /\ Period' = Period
  BY <1>1 DEF Reserve, Period
<1>4. Alive'
  BY <1>1, <1>3 DEF LifetimeIInv, LInv, Alive
<1>5. BehindRequest'
  <2>1. Judged' => Judged
    BY <1>1 DEF Judged
  <2> QED  BY <1>1, <1>3, <2>1 DEF LifetimeIInv, LInv, BehindRequest, Pending
<1>6. PendingFresh'
  \* What is still to be loaded was requested in this tick.
  BY <1>1, TimesAssumption, SerialsAssumption
  DEF LifetimeIInv, LInv, IInv, TypeOK, PendingFresh, Pending, Check, Renewable,
      Expired
<1>7. BehindSync'
  <2>1. SUFFICES ASSUME up', ~Pending'
                 PROVE  age[served] + Reserve <= Duration - Interval + Elapsed'
    BY <1>1, <1>3 DEF BehindSync
  <2>2. up /\ ~Pending
    BY <1>1, <2>1 DEF Pending
  <2>3. CASE Renewable
    <3>1. pc' = [pc EXCEPT ![a] = "issue"]
      BY <2>3 DEF Check, Goto
    <3>2. Elapsed' = Elapsed
      BY <1>1, <1>2, <3>1 DEF Elapsed, Critical, Actors
    <3> QED  BY <2>2, <3>2 DEF LifetimeIInv, LInv, BehindSync
  <2>4. CASE ~Renewable
    <3>1. csr # NoSerial /\ ~(age[csr] > Margin)
      BY <2>4 DEF Renewable, Expired
    <3>2. age[served] + Reserve <= Duration - Period + age[csr]
      BY <1>1, <2>2, <3>1 DEF LifetimeIInv, LInv, BehindRequest, Judged
    <3>3. since \in Nat
      BY TimesAssumption, <1>2 DEF TypeOK
    <3>4. Elapsed' \in Nat
      BY <1>1, <3>3, TimesAssumption DEF Elapsed, Critical
    <3> QED  BY <1>2, <2>2, <3>1, <3>2, <3>4, ReserveBounds, LifetimeTypes,
                TimesAssumption DEF Period
  <2> QED  BY <2>3, <2>4
<1> QED  BY <1>4, <1>5, <1>6, <1>7 DEF LInv

\* While a pair is being made the lock is held, by somebody past the look.
LEMMA IssueLifetime ==
  ASSUME LifetimeIInv, NEW a \in Actors, Issue(a)
  PROVE  LInv'
<1>1. PICK s \in NewSerials : /\ csr' = s
                              /\ age' = [age EXCEPT ![s] = 0]
  BY DEF Issue
<1>2. /\ UNCHANGED <<crt, key, served, lock, up, budget, since>>
      /\ pc' = [pc EXCEPT ![a] = "installCert"] /\ pc[a] = "issue"
  BY DEF Issue, Goto, files
<1>3. s \in Serials /\ s # served /\ pc \in [Actors -> Stages]
      /\ age \in [Serials -> 0 .. OldAge]
  BY <1>1 DEF NewSerials, Unused, LifetimeIInv, IInv, TypeOK
<1>4. lock = a /\ a # "none"
  BY <1>2, ActorsAssumption DEF LifetimeIInv, IInv, Locked, Critical
<1>5. up => age'[served] = age[served]
  BY <1>1, <1>3 DEF LifetimeIInv, IInv, TypeOK
<1>6. Reserve' = Reserve /\ Period' = Period
  BY <1>2 DEF Reserve, Period
<1>7. ~Judged'
  BY <1>2, <1>3, <1>4 DEF Judged
<1>8. ~Pending'
  BY <1>2, <1>4 DEF LifetimeIInv, LInv, PendingFresh, Pending
<1>9. Elapsed' = Elapsed
  BY <1>2, <1>3 DEF Elapsed, Critical
<1>10. ~Pending
  BY <1>4 DEF LifetimeIInv, LInv, PendingFresh
<1> QED  BY <1>2, <1>5, <1>6, <1>7, <1>8, <1>9, <1>10
         DEF LifetimeIInv, LInv, PendingFresh, Alive, BehindRequest, BehindSync

LEMMA InstallCertLifetime ==
  ASSUME LifetimeIInv, NEW a \in Actors, InstallCert(a)
  PROVE  LInv'
<1>1. /\ UNCHANGED <<csr, age, key, served, lock, up, budget, since>>
      /\ pc' = [pc EXCEPT ![a] = "installKey"] /\ pc[a] = "installCert"
      /\ crt' = loc[a].new
  BY DEF InstallCert, Goto
<1>2. pc \in [Actors -> Stages]
  BY DEF LifetimeIInv, IInv, TypeOK
<1>3. lock = a /\ a # "none" /\ Fresh(a)
  BY <1>1, ActorsAssumption DEF LifetimeIInv, IInv, Locked, Critical, Installing
<1>4. Reserve' = Reserve /\ Period' = Period
  BY <1>1 DEF Reserve, Period
<1>5. ~Judged'
  BY <1>1, <1>2, <1>3 DEF Judged
<1>6. ~Pending /\ ~Pending'
  BY <1>1, <1>3 DEF LifetimeIInv, LInv, PendingFresh, Pending, Fresh
<1>7. Elapsed' = Elapsed
  BY <1>1, <1>2 DEF Elapsed, Critical
<1> QED  BY <1>1, <1>4, <1>5, <1>6, <1>7
         DEF LifetimeIInv, LInv, PendingFresh, Alive, BehindRequest, BehindSync

\* At boot the server starts with the new pair; later it has to load it.
LEMMA InstallKeyLifetime ==
  ASSUME LifetimeIInv, Affordable, NEW a \in Actors, InstallKey(a)
  PROVE  LInv'
<1>1. /\ UNCHANGED <<csr, age, crt, budget>>
      /\ key' = loc[a].new /\ lock' = "none" /\ up' /\ pc[a] = "installKey"
  BY DEF InstallKey, Installed
<1>2. Fresh(a) /\ crt = loc[a].new /\ lock = a /\ a # "none"
  BY <1>1, ActorsAssumption
  DEF LifetimeIInv, IInv, Locked, Critical, Installing
<1>3. Reserve' = Reserve /\ Period' = Period
  BY <1>1 DEF Reserve, Period
<1>4. TypeOK
  BY DEF LifetimeIInv, IInv
<1>5. crt' = key' /\ csr' = crt' /\ age'[csr'] = 0
  BY <1>1, <1>2 DEF Fresh
<1>6. CASE up
  <2>1. served' = served
    BY <1>6 DEF InstallKey, Installed
  <2>2. PendingFresh' /\ Alive'
    BY <1>1, <1>3, <1>5, <1>6, <2>1
    DEF LifetimeIInv, LInv, PendingFresh, Alive
  <2>3. CASE served = crt
    <3>1. age'[served'] = 0 /\ since' = since
      BY <1>1, <1>5, <1>6, <2>1, <2>3 DEF InstallKey, Installed
    <3>2. Elapsed' \in Nat
      BY <1>4, <3>1, TimesAssumption DEF TypeOK, Elapsed
    <3> QED
      BY <1>1, <1>3, <1>4, <1>5, <2>2, <3>1, <3>2, ReserveBounds, TimesAssumption
      DEF LInv, BehindRequest, BehindSync
  <2>4. CASE served # crt
    BY <1>1, <1>5, <2>1, <2>2, <2>4 DEF LInv, Pending, BehindRequest, BehindSync
  <2> QED  BY <2>3, <2>4
<1>7. CASE ~up
  <2>1. served' = crt /\ since' = Interval /\ pc' = [pc EXCEPT ![a] = "idle"]
    BY <1>7 DEF InstallKey, Installed, Goto
  <2>2. a = Refresher
    BY <1>2, <1>7 DEF LifetimeIInv, IInv, Booting
  <2>3. Elapsed' = Interval
    BY <1>4, <2>1, <2>2 DEF Elapsed, Critical, TypeOK
  <2>4. age'[served'] = 0 /\ ~Pending'
    BY <1>1, <1>5, <2>1 DEF Pending
  <2> QED
    BY <1>1, <1>3, <1>4, <1>5, <2>1, <2>3, <2>4, ReserveBounds, TimesAssumption
    DEF LInv, PendingFresh, Alive, BehindRequest, BehindSync
<1> QED  BY <1>6, <1>7

\* The server loads the pair that was requested last: it has a whole life ahead.
LEMMA ReloadLifetime ==
  ASSUME LifetimeIInv, Affordable, Reload
  PROVE  LInv'
<1>1. /\ UNCHANGED <<csr, age, crt, key, lock, since, pc, budget>>
      /\ up /\ up' /\ served' = crt /\ Pending
  BY DEF Reload, Pending, files
<1>2. csr = crt /\ age[csr] = 0
  BY <1>1 DEF LifetimeIInv, LInv, PendingFresh
<1>3. age'[served'] = 0 /\ age'[csr'] = 0 /\ ~Pending'
  BY <1>1, <1>2 DEF Pending
<1>4. TypeOK /\ Reserve' = Reserve /\ Period' = Period
  BY <1>1 DEF LifetimeIInv, IInv, Reserve, Period
<1>5. Elapsed' \in Nat
  BY <1>1, <1>4, TimesAssumption DEF TypeOK, Elapsed
<1> QED
  BY <1>3, <1>4, <1>5, ReserveBounds, TimesAssumption
  DEF LInv, PendingFresh, Alive, BehindRequest, BehindSync

\* A request that was collected no longer holds a renewal back.
LEMMA CollectLifetime ==
  ASSUME LifetimeIInv, Collect
  PROVE  LInv'
<1>1. /\ UNCHANGED <<age, crt, key, served, lock, since, up, pc>>
      /\ csr' = NoSerial /\ age[csr] > 0
  BY DEF Collect, files
<1>2. budget'.faults = budget.faults
  BY DEF Collect, Spend, LifetimeIInv, IInv, TypeOK
<1>3. Reserve' = Reserve /\ Elapsed' = Elapsed /\ (Pending' <=> Pending)
  BY <1>1, <1>2 DEF Reserve, Period, Elapsed, Pending
<1>4. ~Pending
  BY <1>1 DEF LifetimeIInv, LInv, PendingFresh
<1> QED
  BY <1>1, <1>3, <1>4
  DEF LifetimeIInv, LInv, PendingFresh, Alive, BehindRequest, BehindSync, Judged

\* A tick brings the next sync as much nearer as it brings the end.
LEMMA TickLifetime ==
  ASSUME LifetimeIInv, Affordable, Tick
  PROVE  LInv'
<1>1. /\ UNCHANGED <<csr, crt, key, served, lock, up, pc, budget>>
      /\ up /\ lock = "none" /\ pc[Refresher] = "idle"
      /\ since < Interval /\ since' = since + 1 /\ ~Pending
  BY DEF Tick, Pending, files
<1>2. TypeOK /\ Reserve' = Reserve /\ Period' = Period
  BY <1>1 DEF LifetimeIInv, IInv, Reserve, Period
<1>3. Elapsed = since /\ Elapsed' = since + 1 /\ ~Pending'
  BY <1>1 DEF Elapsed, Critical, Pending
<1>4. age[served] + Reserve <= Duration - Interval + since
  BY <1>1, <1>3 DEF LifetimeIInv, LInv, BehindSync
<1>5. age[served] \in Nat /\ since \in Nat /\ Interval \in Nat /\ Duration \in Nat
  BY <1>1, <1>2, LifetimeTypes, TimesAssumption DEF TypeOK
<1>6. served \in Serials /\ age[served] < OldAge
  BY <1>1, <1>2, <1>4, <1>5, ReserveBounds DEF TypeOK, OldAge
<1>7. age' = [s \in Serials |->
                IF s \in {csr, crt, key, served} THEN Older(age[s]) ELSE 0]
  BY DEF Tick
<1>8. age'[served'] = age[served] + 1
  BY <1>1, <1>5, <1>6, <1>7 DEF Older, OldAge
<1>9. Alive' /\ BehindSync'
  BY <1>1, <1>2, <1>3, <1>4, <1>5, <1>8, ReserveBounds DEF Alive, BehindSync
<1>10. PendingFresh'
  BY <1>3 DEF PendingFresh
<1>11. BehindRequest'
  <2>1. SUFFICES ASSUME Judged'
                 PROVE  age'[served'] + Reserve <= Duration - Period + age'[csr']
    BY <1>2 DEF BehindRequest
  <2>2. csr # NoSerial /\ Judged /\ csr \in Serials
    BY <1>1, <1>2, <2>1 DEF Judged, TypeOK, Serial
  <2>3. age'[csr'] = Older(age[csr])
    BY <1>1, <1>7, <2>2
  <2>4. age[served] + Reserve <= Duration - Period + age[csr]
    BY <1>1, <2>2 DEF LifetimeIInv, LInv, BehindRequest
  <2>5. age[csr] \in Nat /\ age[csr] <= OldAge
    BY <1>1, <1>2, <2>2, LifetimeTypes
  <2>6. CASE age[csr] < OldAge
    <3>1. age'[csr'] = age[csr] + 1
      BY <1>5, <2>3, <2>5, <2>6 DEF Older, OldAge
    <3> QED  BY <1>2, <1>5, <1>8, <2>4, <2>5, <3>1, ReserveBounds
  <2>7. CASE age[csr] = OldAge
    <3>1. age'[csr'] = OldAge
      BY <1>5, <2>3, <2>7 DEF Older, OldAge
    <3> QED  BY <1>2, <1>4, <1>5, <1>1, <1>8, <3>1, ReserveBounds DEF OldAge
  <2> QED  BY <1>5, <2>5, <2>6, <2>7 DEF OldAge
<1> QED  BY <1>9, <1>10, <1>11 DEF LInv

\* Whatever fails, the next look may be a whole period away, and that is paid for.
LEMMA FailureLifetime ==
  ASSUME LifetimeIInv, Affordable, NEW a \in Actors,
         IssueFails(a) \/ InstallFails(a) \/ CallFails(a)
  PROVE  LInv'
<1>1. UNCHANGED served /\ Spend("faults") /\ Abort(a)
  BY DEF IssueFails, InstallFails, CallFails, files
<1>2. UNCHANGED <<since, up>>
  BY <1>1 DEF Abort
<1>3. TypeOK /\ Reserve' = Reserve - Period /\ Period' = Period
  BY <1>1, ReserveSpent DEF LifetimeIInv, IInv, Period
<1>4. CASE ~up
  BY <1>2, <1>4
  DEF LInv, PendingFresh, Pending, Alive, BehindRequest, BehindSync
<1>5. CASE up
  <2>1. lock' = IF lock = a THEN "none" ELSE lock
    BY <1>1, <1>5 DEF Abort
  <2>2. pc' = [pc EXCEPT ![a] = "idle"] /\ pc \in [Actors -> Stages]
    BY <1>1, <1>3, <1>5 DEF Abort, Goto, TypeOK
  <2>3. served \in Serials /\ age[served] \in Nat
    BY <1>3, <1>5, LifetimeTypes DEF TypeOK
  <2>4. age'[served'] <= age[served] /\ age'[served'] \in Nat
    BY <1>1, <1>3, <2>3
    DEF IssueFails, InstallFails, CallFails, NewSerials, Unused, TypeOK
  <2>5. age[served] + Reserve <= Duration
    BY <1>5 DEF LifetimeIInv, LInv, Alive
  <2>6. Alive'
    BY <1>2, <1>3, <2>3, <2>4, <2>5, ReserveBounds, TimesAssumption DEF Alive
  <2>7. since' \in Nat /\ Elapsed' \in Nat /\ Interval \in Nat
    BY <1>2, <1>3, TimesAssumption DEF TypeOK, Elapsed
  <2>8. BehindSync'
    BY <1>2, <1>3, <2>3, <2>4, <2>5, <2>7, ReserveBounds, TimesAssumption
    DEF BehindSync
  <2>9. csr' # NoSerial => age'[csr'] \in Nat
    BY <1>3, TimesAssumption
    DEF IssueFails, InstallFails, CallFails, TypeOK, Serial, NewSerials, Unused,
        OldAge
  <2>10. BehindRequest'
    BY <1>2, <1>3, <2>3, <2>4, <2>5, <2>9, ReserveBounds, TimesAssumption
    DEF BehindRequest, Judged
  <2>11. PendingFresh'
    <3>1. CASE CallFails(a)
      <4>1. UNCHANGED <<csr, age, crt, key>> /\ pc[a] \notin Critical
        BY <3>1 DEF CallFails, files, Critical
      <4>2. lock # a
        BY <4>1 DEF LifetimeIInv, IInv, Locked
      <4> QED
        BY <1>1, <1>2, <2>1, <4>1, <4>2
        DEF LifetimeIInv, LInv, PendingFresh, Pending
    <3>2. CASE IssueFails(a)
      <4>1. UNCHANGED <<crt, key>> /\ pc[a] \in Critical
        BY <3>2 DEF IssueFails, files, Critical
      <4>2. lock = a /\ ~Pending
        BY <4>1, ActorsAssumption DEF LifetimeIInv, IInv, Locked, LInv, PendingFresh
      <4> QED  BY <1>1, <1>2, <4>1, <4>2 DEF PendingFresh, Pending
    <3>3. CASE InstallFails(a)
      <4>1. /\ UNCHANGED <<csr, age, crt>> /\ pc[a] \in {"installCert", "installKey"}
            /\ key' = key \/ (key' = loc[a].new /\ pc[a] = "installKey")
        BY <3>3 DEF InstallFails
      <4>2. lock = a /\ Fresh(a) /\ (pc[a] = "installKey" => crt = loc[a].new)
        BY <4>1 DEF LifetimeIInv, IInv, Locked, Installing, Critical
      <4>3. ~Pending
        BY <4>2, ActorsAssumption DEF LifetimeIInv, LInv, PendingFresh
      <4> QED
        BY <1>1, <1>2, <2>1, <4>1, <4>2, <4>3 DEF PendingFresh, Pending, Fresh
    <3> QED  BY <3>1, <3>2, <3>3
  <2> QED  BY <2>6, <2>8, <2>10, <2>11 DEF LInv
<1> QED  BY <1>4, <1>5

LEMMA NextLifetime ==
  ASSUME Affordable, LifetimeIInv, [Next]_vars
  PROVE  LInv'
<1>1. CASE UNCHANGED vars
  BY <1>1 DEF vars, files, published, LifetimeIInv, LInv, PendingFresh, Pending,
              Alive, BehindRequest, BehindSync, Judged, Elapsed, Reserve, Period
<1>2. ASSUME NEW a \in Actors, Manage(a) \/ Failure(a)
      PROVE  LInv'
  <2>1. CASE Check(a) \/ Issue(a)
    BY <2>1, CheckLifetime, IssueLifetime
  <2>2. CASE InstallCert(a) \/ InstallKey(a)
    BY <2>2, InstallCertLifetime, InstallKeyLifetime
  <2>3. CASE ReadCA(a) \/ WriteCRD(a) \/ WriteHook(a)
    BY <2>3, PropagationLifetime
  <2>4. CASE Failure(a)
    BY <2>4, FailureLifetime DEF Failure
  <2> QED  BY <1>2, <2>1, <2>2, <2>3, <2>4 DEF Manage
<1>3. ASSUME NEW w \in Workers, NEW c \in CRDs, BeginApply(w, c)
      PROVE  LInv'
  BY <1>3, WorkerLifetime
<1>4. ASSUME NEW w \in Workers, Apply(w)
      PROVE  LInv'
  BY <1>4, WorkerLifetime
<1>5. CASE Refresh
  BY <1>5, RefreshLifetime DEF Refresh
<1>6. CASE Reload \/ Collect \/ Tick
  BY <1>6, ReloadLifetime, CollectLifetime, TickLifetime
<1>7. CASE Restart
  BY <1>7 DEF Restart, LInv, PendingFresh, Pending, Alive, BehindRequest, BehindSync
<1> QED  BY <1>1, <1>2, <1>3, <1>4, <1>5, <1>6, <1>7 DEF Next

\* If the duration has room for a margin and an interval more often than calls
\* fail, the served certificate never ends: however often the process restarts,
\* signing requests are collected and reconciles come and go
\* (CheckOrRegenerateClientCertAndKey, CertificateReconciler.Start).
THEOREM ServedNeverExpires ==
  ASSUME Affordable
  PROVE  Spec => []NeverExpired
<1>1. Init => LInv
  BY DEF Init, LInv, PendingFresh, Pending, Alive, BehindRequest, BehindSync
<1>2. IInv /\ LInv /\ [Next]_vars => LInv'
  BY NextLifetime DEF LifetimeIInv
<1>3. IInv /\ LInv => NeverExpired
  BY LifetimeTypes, ReserveBounds, TimesAssumption
  DEF IInv, LInv, Alive, NeverExpired
<1> QED  BY <1>1, <1>2, <1>3, CertificateInvariant, PTL DEF Spec
=============================================================================
