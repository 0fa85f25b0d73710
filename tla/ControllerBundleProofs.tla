------------------------- MODULE ControllerBundleProofs -------------------------
(***************************************************************************)
(* Proofs about the controller bundle: its state is type-correct, nothing  *)
(* of it outlives its definitions, its objects come and go in order, and   *)
(* they together behave as the bundle of BundleContract, for any number of *)
(* definitions, credentials, kinds, releases and events.                   *)
(***************************************************************************)
EXTENDS BundleProperties, TLAPS

Leaving == {"undeploy", "uninstall"}

\* A reconcile is of a definition that is there, and works on the objects for
\* the credentials it began with, which are still those of the definition
\* unless somebody has edited it; Undeploy has removed all when it comes to the
\* CRD.
Working ==
  \A d \in Defs :
    /\ loc[d].todo \subseteq BundleOf(loc[d].cred)
    /\ pc[d] = "uninstall" => loc[d].todo = {}
    /\ pc[d] # "idle" => /\ phase[d] # "gone"
                         /\ "edit" \notin past => loc[d].cred = cred[d]

\* Somebody is going to remove o, or has not begun to.
Kept(o, d) == /\ phase[d] # "gone"
              /\ o \in BundleOf(cred[d])
              /\ pc[d] \in Leaving => o \in loc[d].todo

\* Every object has a definition that will still remove it.
Owned == \A o \in Objects :
           Present(o) /\ (o \in Plain \/ "edit" \notin past)
             => \E d \in Defs : Kept(o, d)

\* Nothing was rendered by a later release.
Rendered == \A o \in Objects : content[o] \in (0 .. release) \cup {Absent, Altered}

IInv == TypeOK /\ Working /\ Owned /\ Rendered

-----------------------------------------------------------------------------
(* Bundles and hashes *)

LEMMA BundleShape ==
  /\ \A o \in Objects : o \in Plain \/ (o[1] \in SecretKinds /\ o \notin Plain)
  /\ Plain \subseteq Objects
  /\ \A c : Plain \subseteq BundleOf(c) /\ BundleOf(c) \subseteq Objects
  /\ TheDeployment \in Plain /\ TheConfig \in Plain
<1>1. \A o \in Objects : o \in Plain \/ (o[1] \in SecretKinds /\ o \notin Plain)
  BY DEF Objects, Plain, SecretKinds, PlainKinds, Rights
<1>2. Plain \subseteq Objects /\ \A c : Plain \subseteq BundleOf(c) /\ BundleOf(c) \subseteq Objects
  BY DEF Objects, BundleOf
<1>3. TheDeployment \in Plain /\ TheConfig \in Plain
  BY KindsAssumption DEF Plain, PlainKinds, TheDeployment, TheConfig
<1> QED  BY <1>1, <1>2, <1>3

LEMMA HashedType ==
  ASSUME NEW o \in Objects, NEW c \in Contents
  PROVE  Hashed(o, c) \in Objects \X Contents
  BY ContentAssumption DEF Hashed, Visible, Contents

LEMMA NoLocalsType == NoLocals \in Locals
  BY DEF NoLocals, Locals, Digests, NoDigest

-----------------------------------------------------------------------------
(* The steps of one reconcile that write no object *)

\* d may be at stage s with locals l.
Fits(d, s, l) ==
  /\ s \in Stages /\ l \in Locals
  /\ l.todo \subseteq BundleOf(l.cred)
  /\ s = "uninstall" => l.todo = {}
  /\ s # "idle" => phase[d] # "gone" /\ ("edit" \notin past => l.cred = cred[d])
  /\ s \in Leaving => \A o \in Objects :
       Kept(o, d) /\ (o \in Plain \/ "edit" \notin past) => o \in l.todo

LEMMA Moves ==
  ASSUME IInv, NEW d \in Defs, NEW s, NEW l, Fits(d, s, l),
         pc' = [pc EXCEPT ![d] = s], loc' = [loc EXCEPT ![d] = l],
         UNCHANGED <<phase, cred, content, release>>,
         digest' \in [Defs -> Digests],
         stamp' \in {"none", "latest"}, pods' \in Pods \cup {NoPods},
         left' \in 0 .. MaxEvents, past' \subseteq Events /\ outside' \in Nat,
         "edit" \in past' <=> "edit" \in past
  PROVE  IInv'
<1> USE DEF IInv
<1>1. TypeOK'
  BY DEF TypeOK, Fits
<1>2. Working'
  BY DEF Working, TypeOK, Fits
<1>3. Owned'
  <2> SUFFICES ASSUME NEW o \in Objects, Present(o)',
                      o \in Plain \/ "edit" \notin past
               PROVE  \E e \in Defs : Kept(o, e)'
    BY DEF Owned
  <2>1. PICK e \in Defs : Kept(o, e)
    BY DEF Owned, Present
  <2>2. pc'[e] \in Leaving => o \in loc'[e].todo
    BY <2>1 DEF Kept, Fits, TypeOK
  <2> QED  BY <2>1, <2>2 DEF Kept
<1>4. Rendered'
  BY DEF Rendered
<1> QED  BY <1>1, <1>2, <1>3, <1>4

LEMMA EndFits ==
  ASSUME NEW d \in Defs
  PROVE  Fits(d, "idle", NoLocals)
  BY NoLocalsType DEF Fits, NoLocals, Stages, Leaving

\* A handler begins at the objects of its credentials.
LEMMA TurnFits ==
  ASSUME NEW d \in Defs, phase[d] # "gone",
         NEW l \in Locals, "edit" \notin past => l.cred = cred[d],
         NEW s \in {"lookup", "deploy", "undeploy"}, NEW l2,
         l2 = [l EXCEPT !.todo = BundleOf(l.cred), !.sum = NoDigest]
  PROVE  Fits(d, s, l2)
<1>1. /\ l2 \in Locals /\ l2.todo = BundleOf(l.cred) /\ l2.cred = l.cred
  BY BundleShape DEF Locals, Digests, NoDigest
<1>2. \A o \in Objects : Kept(o, d) /\ (o \in Plain \/ "edit" \notin past) => o \in l2.todo
  BY <1>1, BundleShape DEF Kept
<1> QED  BY <1>1, <1>2 DEF Fits, Stages, Leaving

\* A handler goes on with what it has not done, outside of Undeploy.
LEMMA GoesOn ==
  ASSUME IInv, NEW d \in Defs, pc[d] # "idle",
         NEW s \in Stages \ Leaving,
         NEW t \in SUBSET loc[d].todo, NEW h \in Digests, NEW l,
         l = [loc[d] EXCEPT !.todo = t, !.sum = h]
  PROVE  Fits(d, s, l)
<1>1. loc[d] \in Locals
  BY DEF IInv, TypeOK
<1>2. l \in Locals /\ l.todo = t /\ l.cred = loc[d].cred
  BY <1>1 DEF Locals
<1> QED  BY <1>2 DEF Fits, IInv, Working, Leaving

LEMMA AnnotateType ==
  ASSUME TypeOK, NEW s \in {"none", "latest"}, Annotate(s)
  PROVE  stamp' \in {"none", "latest"} /\ pods' \in Pods \cup {NoPods}
<1>1. CASE Ready /\ pods.stamp = "latest"
  <2>1. pods \in Pods /\ pods' = [pods EXCEPT !.stamp = "earlier"]
    BY <1>1 DEF Annotate, Ready, TypeOK
  <2> QED  BY <2>1 DEF Annotate, Pods, Annotations
<1>2. CASE ~(Ready /\ pods.stamp = "latest")
  BY <1>2 DEF Annotate, TypeOK
<1> QED  BY <1>1, <1>2

LEMMA LookupStep ==
  ASSUME IInv, NEW d \in Defs, Lookup(d)
  PROVE  IInv'
<1> USE DEF environment, cluster
<1>1. loc[d] \in Locals /\ "idle" \in Stages \ Leaving /\ "lookup" \in Stages \ Leaving
  BY DEF IInv, TypeOK, Stages, Leaving
<1>2. ASSUME NEW o \in loc[d].todo, LookupObject(d, o)
      PROVE  IInv'
  <2>1. CASE End(d)
    BY <1>2, <2>1, EndFits, Moves DEF LookupObject, End, Goto, IInv, TypeOK
  <2>2. CASE ~End(d)
    <3> DEFINE t == loc[d].todo \ {o}
               h == loc[d].sum \cup {Hashed(o, content[o])}
               l == [loc[d] EXCEPT !.todo = t, !.sum = h]
    <3>1. o \in Objects /\ content[o] \in Contents
      BY <1>1 DEF Locals, IInv, TypeOK
    <3>2. h \in Digests
      BY <1>1, <3>1, HashedType DEF Locals, Digests
    <3>3. Fits(d, "lookup", l)
      BY <1>1, <1>2, <3>2, GoesOn DEF LookupObject
    <3>4. pc' = [pc EXCEPT ![d] = "lookup"] /\ loc' = [loc EXCEPT ![d] = l]
      BY <1>2, <2>2 DEF LookupObject, IInv, TypeOK
    <3> QED  BY <1>2, <3>3, <3>4, Moves DEF LookupObject, IInv, TypeOK
  <2> QED  BY <2>1, <2>2
<1>3. CASE Compare(d)
  <2>1. CASE End(d)
    BY <1>3, <2>1, EndFits, Moves DEF Compare, End, Goto, IInv, TypeOK
  <2>2. CASE ~End(d)
    <3> DEFINE s == IF loc[d].deleted THEN "undeploy" ELSE "deploy"
               l == [loc[d] EXCEPT !.todo = BundleOf(loc[d].cred), !.sum = NoDigest]
    <3>1. Fits(d, s, l)
      BY <1>1, <1>3, TurnFits DEF Compare, IInv, Working
    <3>2. pc' = [pc EXCEPT ![d] = s] /\ loc' = [loc EXCEPT ![d] = l]
      BY <1>3, <2>2 DEF Compare, Repair, Turn, Goto
    <3> QED  BY <1>3, <3>1, <3>2, Moves DEF Compare, IInv, TypeOK
  <2> QED  BY <2>1, <2>2
<1>4. CASE Observe(d)
  <2> DEFINE l0 == [NoLocals EXCEPT !.cred = cred[d],
                                    !.deleted = (phase[d] = "terminating")]
             s == IF digest[d] = Expected(cred[d], release) THEN "lookup"
                  ELSE IF l0.deleted THEN "undeploy" ELSE "deploy"
             l == [l0 EXCEPT !.todo = BundleOf(l0.cred), !.sum = NoDigest]
  <2>1. l0 \in Locals /\ l0.cred = cred[d]
    BY NoLocalsType DEF NoLocals, Locals, IInv, TypeOK
  <2>2. Fits(d, s, l)
    BY <1>4, <2>1, TurnFits DEF Observe
  <2>3. pc' = [pc EXCEPT ![d] = s] /\ loc' = [loc EXCEPT ![d] = l]
    BY <1>4 DEF Observe, Repair, Turn, Goto
  <2> QED  BY <1>4, <2>2, <2>3, Moves DEF Observe, IInv, TypeOK
<1> QED  BY <1>2, <1>3, <1>4 DEF Lookup

\* The stages after the deployment is written, and the ends of reconciles that
\* fail.
LEMMA OtherSteps ==
  ASSUME IInv, NEW d \in Defs,
         Watch(d) \/ RestartDeployment(d) \/ Record(d) \/ WatchTimeout(d) \/ Fail(d)
  PROVE  IInv'
<1> USE DEF environment, cluster
<1>1. /\ loc[d] \in Locals
      /\ {"idle", "restart", "watchAgain", "record"} \subseteq Stages \ Leaving
      /\ loc[d].todo \in SUBSET loc[d].todo /\ loc[d].sum \in Digests
      /\ loc[d] = [loc[d] EXCEPT !.todo = loc[d].todo, !.sum = loc[d].sum]
  BY DEF IInv, TypeOK, Stages, Leaving, Locals
<1>2. ASSUME NEW s \in {"restart", "watchAgain", "record"}, pc[d] # "idle"
      PROVE  Fits(d, s, loc[d])
  BY <1>1, <1>2, GoesOn
<1>3. loc = [loc EXCEPT ![d] = loc[d]]
  BY DEF IInv, TypeOK
<1>4. CASE Watch(d)
  BY <1>2, <1>3, <1>4, Moves DEF Watch, Goto, IInv, TypeOK
<1>5. CASE RestartDeployment(d)
  <2>1. CASE End(d)
    BY <1>5, <2>1, EndFits, Moves DEF RestartDeployment, End, Goto, IInv, TypeOK
  <2>2. CASE ~End(d)
    <3>1. Annotate("latest") /\ pc' = [pc EXCEPT ![d] = "watchAgain"] /\ loc' = loc
      BY <1>5, <2>2 DEF RestartDeployment, Goto
    <3>2. stamp' \in {"none", "latest"} /\ pods' \in Pods \cup {NoPods}
      BY <3>1, AnnotateType DEF IInv
    <3> QED  BY <1>2, <1>3, <1>5, <3>1, <3>2, Moves DEF RestartDeployment, IInv, TypeOK
  <2> QED  BY <2>1, <2>2
<1>6. CASE Record(d)
  <2>1. digest' \in [Defs -> Digests]
    BY <1>1, <1>6 DEF Record, IInv, TypeOK
  <2> QED  BY <1>6, <2>1, EndFits, Moves DEF Record, End, Goto, IInv, TypeOK
<1>7. CASE WatchTimeout(d)
  BY <1>7, EndFits, Moves DEF WatchTimeout, End, Goto, IInv, TypeOK
<1>8. CASE Fail(d)
  <2>1. left' \in 0 .. MaxEvents /\ past' \subseteq Events /\ outside' \in Nat /\ ("edit" \in past' <=> "edit" \in past)
    BY <1>8, EventsAssumption DEF Fail, Spend, IInv, TypeOK, Events
  <2> QED  BY <1>8, <2>1, EndFits, Moves DEF Fail, End, Goto, IInv, TypeOK
<1> QED  BY <1>4, <1>5, <1>6, <1>7, <1>8

-----------------------------------------------------------------------------
(* The steps that write objects *)

\* Who deploys an object has not begun to remove it.
LEMMA ApplyStep ==
  ASSUME IInv, NEW d \in Defs, NEW o \in loc[d].todo, ApplyObject(d, o)
  PROVE  IInv'
<1> USE DEF IInv
<1> DEFINE s == IF loc[d].todo = {o} THEN "watch" ELSE "deploy"
           l == [loc[d] EXCEPT !.todo = loc[d].todo \ {o},
                               !.sum = loc[d].sum \cup {Hashed(o, release)}]
<1>1. /\ loc[d] \in Locals /\ o \in Objects /\ release \in Contents
      /\ pc[d] = "deploy" /\ o \in BundleOf(loc[d].cred)
  BY DEF TypeOK, Locals, Contents, ApplyObject, Working
<1>2. /\ l \in Locals /\ l.todo = loc[d].todo \ {o} /\ l.cred = loc[d].cred
  BY <1>1, HashedType DEF Locals, Digests
<1>3. /\ pc' = [pc EXCEPT ![d] = s] /\ loc' = [loc EXCEPT ![d] = l]
      /\ content' = [content EXCEPT ![o] = release]
      /\ UNCHANGED <<phase, cred, digest, release, left, past, outside>>
  BY DEF ApplyObject, Goto, TypeOK, environment
<1>4. TypeOK'
  <2>1. stamp' \in {"none", "latest"} /\ pods' \in Pods \cup {NoPods}
    BY AnnotateType DEF ApplyObject, TypeOK
  <2>2. content' \in [Objects -> Contents]
    BY <1>1, <1>3 DEF TypeOK
  <2> QED  BY <1>2, <1>3, <2>1, <2>2 DEF TypeOK, Stages
<1>5. Working'
  BY <1>1, <1>2, <1>3 DEF Working, TypeOK
<1>6. Owned'
  <2> SUFFICES ASSUME NEW p \in Objects, Present(p)',
                      p \in Plain \/ "edit" \notin past
               PROVE  \E e \in Defs : Kept(p, e)'
    BY <1>3 DEF Owned
  <2>1. CASE p = o
    <3>1. o \in BundleOf(cred[d])
      BY <1>1, <2>1, BundleShape DEF Working
    <3>2. phase'[d] # "gone" /\ pc'[d] \notin Leaving
      BY <1>1, <1>3 DEF Working, TypeOK, Leaving
    <3> QED  BY <1>3, <2>1, <3>1, <3>2 DEF Kept
  <2>2. CASE p # o
    <3>1. PICK e \in Defs : Kept(p, e)
      BY <1>3, <2>2 DEF Owned, Present, TypeOK
    <3>2. pc'[e] \in Leaving => p \in loc'[e].todo
      BY <1>3, <3>1 DEF Kept, TypeOK, Leaving
    <3> QED  BY <1>3, <3>1, <3>2 DEF Kept
  <2> QED  BY <2>1, <2>2
<1>7. Rendered'
  BY <1>3 DEF Rendered, TypeOK
<1> QED  BY <1>4, <1>5, <1>6, <1>7

LEMMA RemovedTypes ==
  ASSUME TypeOK, NEW o \in Objects, Removed(o)
  PROVE  /\ content' = [content EXCEPT ![o] = Absent]
         /\ content' \in [Objects -> Contents]
         /\ stamp' \in {"none", "latest"} /\ pods' \in Pods \cup {NoPods}
  BY DEF Removed, TypeOK, Contents

LEMMA UndeployStep ==
  ASSUME IInv, NEW d \in Defs, Undeploy(d)
  PROVE  IInv'
<1> USE DEF IInv
<1>1. ASSUME NEW o \in loc[d].todo, RemoveObject(d, o)
      PROVE  IInv'
  <2> DEFINE s == IF loc[d].todo = {o} THEN "uninstall" ELSE "undeploy"
             l == [loc[d] EXCEPT !.todo = loc[d].todo \ {o}]
  <2>1. /\ loc[d] \in Locals /\ o \in Objects /\ pc[d] = "undeploy"
    BY <1>1 DEF TypeOK, Locals, RemoveObject
  <2>2. /\ l \in Locals /\ l.todo = loc[d].todo \ {o} /\ l.cred = loc[d].cred
    BY <2>1 DEF Locals
  <2>3. /\ pc' = [pc EXCEPT ![d] = s] /\ loc' = [loc EXCEPT ![d] = l]
        /\ UNCHANGED <<phase, cred, digest, release, left, past, outside>>
    BY <1>1 DEF RemoveObject, Goto, TypeOK, environment
  <2>4. /\ content' = [content EXCEPT ![o] = Absent]
        /\ content' \in [Objects -> Contents]
        /\ stamp' \in {"none", "latest"} /\ pods' \in Pods \cup {NoPods}
    BY <1>1, <2>1, RemovedTypes DEF RemoveObject
  <2>5. TypeOK'
    BY <2>2, <2>3, <2>4 DEF TypeOK, Stages
  <2>6. Working'
    BY <2>1, <2>2, <2>3 DEF Working, TypeOK
  <2>7. Owned'
    <3> SUFFICES ASSUME NEW p \in Objects, Present(p)',
                        p \in Plain \/ "edit" \notin past
                 PROVE  \E e \in Defs : Kept(p, e)'
      BY <2>3 DEF Owned
    <3>1. p # o /\ Present(p)
      BY <2>1, <2>4 DEF Present, TypeOK
    <3>2. PICK e \in Defs : Kept(p, e)
      BY <3>1 DEF Owned
    <3>3. pc'[e] \in Leaving => p \in loc'[e].todo
      BY <2>1, <2>2, <2>3, <3>1, <3>2 DEF Kept, TypeOK, Leaving
    <3> QED  BY <2>3, <3>2, <3>3 DEF Kept
  <2>8. Rendered'
    BY <2>1, <2>3, <2>4 DEF Rendered, TypeOK
  <2> QED  BY <2>5, <2>6, <2>7, <2>8
<1>2. ASSUME Uninstall(d)
      PROVE  IInv'
  <2>1. /\ pc[d] = "uninstall" /\ phase' = [phase EXCEPT ![d] = "gone"]
        /\ pc' = [pc EXCEPT ![d] = "idle"] /\ loc' = [loc EXCEPT ![d] = NoLocals]
        /\ UNCHANGED <<cred, digest, content, stamp, pods, release, left, past, outside>>
    BY <1>2 DEF Uninstall, End, Goto, cluster, environment
  <2>2. TypeOK'
    BY <2>1, NoLocalsType DEF TypeOK, Phases, Stages
  <2>3. Working'
    BY <2>1 DEF Working, TypeOK, NoLocals
  <2>4. Owned'
    <3> SUFFICES ASSUME NEW p \in Objects, Present(p)',
                        p \in Plain \/ "edit" \notin past
                 PROVE  \E e \in Defs : Kept(p, e)'
      BY <2>1 DEF Owned
    <3>1. PICK e \in Defs : Kept(p, e)
      BY <2>1 DEF Owned, Present
    <3>2. e # d
      BY <2>1, <3>1 DEF Kept, Leaving, Working
    <3> QED  BY <2>1, <3>1, <3>2 DEF Kept, TypeOK
  <2>5. Rendered'
    BY <2>1 DEF Rendered
  <2> QED  BY <2>2, <2>3, <2>4, <2>5
<1> QED  BY <1>1, <1>2 DEF Undeploy

-----------------------------------------------------------------------------
(* Users, the cluster and the process *)

LEMMA SpendTypes ==
  ASSUME TypeOK, NEW event \in Events, Spend(event)
  PROVE  left' \in 0 .. MaxEvents /\ past' \subseteq Events /\ outside' \in Nat /\ past \subseteq past'
         /\ (event # "edit" => ("edit" \in past' <=> "edit" \in past))
  BY EventsAssumption DEF Spend, TypeOK

LEMMA EditStep ==
  ASSUME IInv, NEW d \in Defs, NEW c \in Creds \cup {NoCred}, EditCredentials(d, c)
  PROVE  IInv'
<1> USE DEF IInv, cluster
<1>1. /\ cred' = [cred EXCEPT ![d] = c] /\ cred' \in [Defs -> Creds \cup {NoCred}]
      /\ left' \in 0 .. MaxEvents /\ past' \subseteq Events /\ outside' \in Nat /\ "edit" \in past'
      /\ UNCHANGED <<phase, digest, content, stamp, pods, release, pc, loc>>
  BY SpendTypes DEF EditCredentials, Spend, Events, TypeOK
<1>2. TypeOK' /\ Working' /\ Rendered'
  BY <1>1 DEF TypeOK, Working, Rendered
<1>3. Owned'
  <2> SUFFICES ASSUME NEW o \in Plain, Present(o)'
               PROVE  \E e \in Defs : Kept(o, e)'
    BY <1>1, BundleShape DEF Owned
  <2>1. PICK e \in Defs : Kept(o, e)
    BY <1>1, BundleShape DEF Owned, Present
  <2> QED  BY <1>1, <2>1, BundleShape DEF Kept
<1> QED  BY <1>2, <1>3

LEMMA DeleteStep ==
  ASSUME IInv, NEW d \in Defs, Delete(d)
  PROVE  IInv'
<1> USE DEF IInv, cluster
<1>1. /\ phase' = [phase EXCEPT ![d] = "terminating"]
      /\ left' \in 0 .. MaxEvents /\ past' \subseteq Events /\ outside' \in Nat
      /\ "edit" \in past' <=> "edit" \in past
      /\ UNCHANGED <<cred, digest, content, stamp, pods, release, pc, loc>>
  BY SpendTypes DEF Delete, Events
<1>2. TypeOK' /\ Working' /\ Rendered'
  BY <1>1 DEF TypeOK, Working, Rendered, Phases
<1>3. \A o \in Objects, e \in Defs : Kept(o, e) => Kept(o, e)'
  BY <1>1 DEF Kept, TypeOK
<1>4. Owned'
  BY <1>1, <1>3 DEF Owned, Present
<1> QED  BY <1>2, <1>4

LEMMA DriftStep ==
  ASSUME IInv, NEW o \in Objects, Drift(o)
  PROVE  IInv'
<1> USE DEF IInv
<1>1. /\ left' \in 0 .. MaxEvents /\ past' \subseteq Events /\ outside' \in Nat
      /\ "edit" \in past' <=> "edit" \in past
      /\ UNCHANGED <<phase, cred, digest, release, pc, loc>>
  BY SpendTypes DEF Drift, Events
<1>2. /\ content' \in [Objects -> Contents]
      /\ content' = [content EXCEPT ![o] = Absent] \/ content' = [content EXCEPT ![o] = Altered]
      /\ stamp' \in {"none", "latest"} /\ pods' \in Pods \cup {NoPods}
  BY RemovedTypes DEF Drift, TypeOK, Contents
<1>3. TypeOK' /\ Working' /\ Rendered'
  BY <1>1, <1>2 DEF TypeOK, Working, Rendered
<1>4. \A p \in Objects : Present(p)' => Present(p)
  BY <1>2 DEF Drift, Present, TypeOK
<1>5. Owned'
  BY <1>1, <1>4 DEF Owned, Kept
<1> QED  BY <1>3, <1>5

LEMMA RolloutStep ==
  ASSUME IInv, Rollout
  PROVE  IInv'
<1> USE DEF IInv, environment
<1>1. pods' \in Pods
  BY BundleShape DEF Rollout, Wanted, Pods, TypeOK, Annotations
<1>2. UNCHANGED <<phase, cred, digest, content, stamp, release, pc, loc, left, past, outside>>
  BY DEF Rollout
<1> QED  BY <1>1, <1>2 DEF TypeOK, Working, Owned, Rendered, Kept, Present

\* Whatever Undeploys were under way, their definitions are still there.
LEMMA RestartStep ==
  ASSUME IInv, Restart
  PROVE  IInv'
<1> USE DEF IInv, cluster
<1>1. /\ pc' = [d \in Defs |-> "idle"] /\ loc' = [d \in Defs |-> NoLocals]
      /\ release' \in 0 .. MaxRelease /\ release <= release'
      /\ left' \in 0 .. MaxEvents /\ past' \subseteq Events /\ outside' \in Nat
      /\ "edit" \in past' <=> "edit" \in past
      /\ UNCHANGED <<phase, cred, digest, content, stamp, pods>>
  BY SpendTypes, ContentAssumption DEF Restart, Events, TypeOK
<1>2. TypeOK'
  BY <1>1, NoLocalsType DEF TypeOK, Stages
<1>3. Working'
  BY <1>1 DEF Working, NoLocals
<1>4. Owned'
  BY <1>1 DEF Owned, Kept, Present, Leaving
<1>5. Rendered'
  BY <1>1, ContentAssumption DEF Rendered, TypeOK
<1> QED  BY <1>2, <1>3, <1>4, <1>5

-----------------------------------------------------------------------------
(* The invariant *)

LEMMA Initially == Init => IInv
<1> SUFFICES ASSUME Init PROVE IInv
  OBVIOUS
<1>1. TypeOK
  BY NoLocalsType, CredsAssumption, ContentAssumption, EventsAssumption
  DEF Init, TypeOK, Phases, Stages, Contents, Digests, NoDigest, Events
<1>2. Working
  BY DEF Init, Working, NoLocals
<1>3. Owned /\ Rendered
  BY DEF Init, Owned, Rendered, Present
<1> QED  BY <1>1, <1>2, <1>3 DEF IInv

LEMMA Inductive == IInv /\ [Next]_vars => IInv'
<1> SUFFICES ASSUME IInv, [Next]_vars PROVE IInv'
  OBVIOUS
<1>1. ASSUME NEW d \in Defs, Reconcile(d)
      PROVE  IInv'
  <2>1. CASE Lookup(d)
    BY <2>1, LookupStep
  <2>2. CASE Deploy(d)
    BY <2>2, ApplyStep, OtherSteps DEF Deploy
  <2>3. CASE Undeploy(d)
    BY <2>3, UndeployStep
  <2>4. CASE WatchTimeout(d)
    BY <2>4, OtherSteps
  <2> QED  BY <1>1, <2>1, <2>2, <2>3, <2>4 DEF Reconcile
<1>2. ASSUME NEW d \in Defs, Fail(d)
      PROVE  IInv'
  BY <1>2, OtherSteps
<1>3. ASSUME NEW d \in Defs, Delete(d)
      PROVE  IInv'
  BY <1>3, DeleteStep
<1>4. ASSUME NEW d \in Defs, NEW c \in Creds \cup {NoCred}, EditCredentials(d, c)
      PROVE  IInv'
  BY <1>4, EditStep
<1>5. ASSUME NEW o \in Objects, Drift(o)
      PROVE  IInv'
  BY <1>5, DriftStep
<1>6. CASE Rollout
  BY <1>6, RolloutStep
<1>7. CASE Restart
  BY <1>7, RestartStep
<1>8. CASE UNCHANGED vars
  BY <1>8 DEF vars, IInv, TypeOK, Working, Owned, Rendered, Kept, Present
<1> QED  BY <1>1, <1>2, <1>3, <1>4, <1>5, <1>6, <1>7, <1>8 DEF Next

\* The objects, the reconciles that write them and the definitions they are for
\* fit together in every reachable state.
THEOREM BundleInvariant == Spec => []IInv
  BY Initially, Inductive, PTL DEF Spec

\* The state of Deploy, Lookup and Undeploy is type-correct.
THEOREM BundleTypes == Spec => []TypeOK
<1>1. IInv => TypeOK
  BY DEF IInv
<1> QED  BY <1>1, BundleInvariant, PTL

\* When all definitions are gone nothing of the bundle is left, but for rights on
\* secrets that were edited away (deploy.Undeploy).
THEOREM NothingLeft == Spec => []Cleared
<1>1. IInv => Cleared
  <2> SUFFICES ASSUME IInv, \A d \in Defs : phase[d] = "gone",
                      NEW o \in Objects, Present(o)
               PROVE  o[1] \in SecretKinds /\ "edit" \in past
    BY DEF Cleared
  <2>1. ~(o \in Plain \/ "edit" \notin past)
    BY DEF IInv, Owned, Kept
  <2> QED  BY <2>1, BundleShape
<1> QED  BY <1>1, BundleInvariant, PTL

-----------------------------------------------------------------------------
(* The objects together are the bundle of the contract *)

LEMMA SameState ==
  ASSUME UNCHANGED <<content, release>>
  PROVE  BundleState' = BundleState
  BY DEF BundleState, AsRendered, Present

\* A reconcile that goes to its next stage begins, ends or goes on.
LEMMA Passes ==
  ASSUME IInv, NEW d \in Defs, NEW s, pc' = [pc EXCEPT ![d] = s],
         UNCHANGED <<content, release>>,
         s \in {"deploy", "undeploy"}
           => pc[d] = s \/ pc[d] \notin {"deploy", "undeploy"}
  PROVE  Contract!Next \/ UNCHANGED Contract!vars
<1>1. BundleState' = BundleState
  BY SameState
<1>2. \A e \in Defs : pc'[e] = IF e = d THEN s ELSE pc[e]
  BY DEF IInv, TypeOK
<1>3. CASE pc[d] = s
  BY <1>1, <1>2, <1>3 DEF Contract!vars, At
<1>4. CASE s = "deploy" /\ pc[d] # s
  <2>1. /\ d \notin At("deploy") \cup At("undeploy")
        /\ At("deploy")' = At("deploy") \cup {d} /\ At("undeploy")' = At("undeploy")
    BY <1>2, <1>4 DEF At
  <2>2. Contract!Begin(d)
    BY <1>1, <2>1 DEF Contract!Begin
  <2> QED  BY <2>2 DEF Contract!Next
<1>5. CASE s = "undeploy" /\ pc[d] # s
  <2>1. /\ d \notin At("deploy") \cup At("undeploy")
        /\ At("undeploy")' = At("undeploy") \cup {d} /\ At("deploy")' = At("deploy")
    BY <1>2, <1>5 DEF At
  <2>2. Contract!Begin(d)
    BY <1>1, <2>1 DEF Contract!Begin
  <2> QED  BY <2>2 DEF Contract!Next
<1>6. CASE s \notin {"deploy", "undeploy"} /\ pc[d] = "deploy"
  <2>1. /\ d \in At("deploy") /\ At("deploy")' = At("deploy") \ {d}
        /\ At("undeploy")' = At("undeploy")
    BY <1>2, <1>6 DEF At
  <2>2. Contract!Write(d)
    BY <1>1, <2>1 DEF Contract!Write
  <2> QED  BY <2>2 DEF Contract!Next
<1>7. CASE s \notin {"deploy", "undeploy"} /\ pc[d] = "undeploy"
  <2>1. /\ d \in At("undeploy") /\ At("undeploy")' = At("undeploy") \ {d}
        /\ At("deploy")' = At("deploy")
    BY <1>2, <1>7 DEF At
  <2>2. Contract!Remove(d)
    BY <1>1, <2>1 DEF Contract!Remove
  <2> QED  BY <2>2 DEF Contract!Next
<1>8. CASE {s, pc[d]} \cap {"deploy", "undeploy"} = {}
  BY <1>1, <1>2, <1>8 DEF Contract!vars, At
<1> QED  BY <1>3, <1>4, <1>5, <1>6, <1>7, <1>8

LEMMA PassingSteps ==
  ASSUME IInv, NEW d \in Defs,
         \/ Lookup(d) \/ Watch(d) \/ RestartDeployment(d) \/ Record(d)
         \/ Uninstall(d) \/ WatchTimeout(d) \/ Fail(d)
  PROVE  Contract!Next \/ UNCHANGED Contract!vars
<1> USE DEF End, Goto, cluster
<1>1. CASE Observe(d)
  BY <1>1, Passes DEF Observe, Repair, Turn
<1>2. CASE \E o \in loc[d].todo : LookupObject(d, o)
  <2>1. CASE pc' = pc
    <3>1. pc' = [pc EXCEPT ![d] = pc[d]]
      BY <2>1 DEF IInv, TypeOK
    <3> QED  BY <1>2, <3>1, Passes DEF LookupObject
  <2>2. CASE pc' # pc
    BY <1>2, <2>2, Passes DEF LookupObject
  <2> QED  BY <2>1, <2>2
<1>3. CASE Compare(d)
  BY <1>3, Passes DEF Compare, Repair, Turn
<1>4. CASE Watch(d)
  BY <1>4, Passes DEF Watch
<1>5. CASE RestartDeployment(d)
  BY <1>5, Passes DEF RestartDeployment
<1>6. CASE Record(d) \/ Uninstall(d) \/ WatchTimeout(d) \/ Fail(d)
  BY <1>6, Passes DEF Record, Uninstall, WatchTimeout, Fail
<1> QED  BY <1>1, <1>2, <1>3, <1>4, <1>5, <1>6 DEF Lookup

\* A Deploy writes what it renders: it never takes a complete bundle apart.
LEMMA ApplySimulates ==
  ASSUME IInv, NEW d \in Defs, NEW o \in loc[d].todo, ApplyObject(d, o)
  PROVE  Contract!Write(d)
<1>1. /\ o \in Objects /\ pc \in [Defs -> Stages] /\ content \in [Objects -> Contents]
      /\ content' = [content EXCEPT ![o] = release] /\ release' = release
      /\ release # Absent /\ pc[d] = "deploy"
      /\ pc' = [pc EXCEPT ![d] = IF loc[d].todo = {o} THEN "watch" ELSE "deploy"]
  BY ContentAssumption DEF IInv, TypeOK, Locals, ApplyObject, Goto
<1>2. /\ d \in At("deploy") /\ At("undeploy")' = At("undeploy")
      /\ At("deploy")' \in {At("deploy"), At("deploy") \ {d}}
  BY <1>1 DEF At
<1>3. \A p \in Objects : /\ AsRendered(p) => AsRendered(p)'
                         /\ Present(p) => Present(p)'
  BY <1>1 DEF AsRendered, Present
<1>4. BundleState' \in {BundleState, "full"}
                        \cup (IF BundleState = "absent" THEN {"broken"} ELSE {})
  BY <1>3, BundleShape DEF BundleState
<1> QED  BY <1>2, <1>4 DEF Contract!Write

LEMMA RemoveSimulates ==
  ASSUME IInv, NEW d \in Defs, NEW o \in loc[d].todo, RemoveObject(d, o)
  PROVE  Contract!Remove(d)
<1>1. /\ o \in Objects /\ pc \in [Defs -> Stages] /\ content \in [Objects -> Contents]
      /\ content' = [content EXCEPT ![o] = Absent] /\ release' = release
      /\ release # Absent /\ pc[d] = "undeploy"
      /\ pc' = [pc EXCEPT ![d] = IF loc[d].todo = {o} THEN "uninstall" ELSE "undeploy"]
  BY ContentAssumption DEF IInv, TypeOK, Locals, RemoveObject, Removed, Goto
<1>2. /\ d \in At("undeploy") /\ At("deploy")' = At("deploy")
      /\ At("undeploy")' \in {At("undeploy"), At("undeploy") \ {d}}
  BY <1>1 DEF At
<1>3. /\ \A p \in Objects \ {o} : content'[p] = content[p]
      /\ ~AsRendered(o)' /\ ~Present(o)'
  BY <1>1 DEF AsRendered, Present
<1>4. BundleState' \in {BundleState, "absent"}
                        \cup (IF BundleState = "full" THEN {"broken"} ELSE {})
  BY <1>1, <1>3, BundleShape DEF BundleState, AsRendered, Present
<1> QED  BY <1>2, <1>4 DEF Contract!Remove

LEMMA DriftSimulates ==
  ASSUME IInv, NEW o \in Objects, Drift(o)
  PROVE  Contract!Disturb \/ UNCHANGED Contract!vars
<1>1. /\ content \in [Objects -> Contents] /\ pc' = pc /\ release' = release
      /\ \/ content' = [content EXCEPT ![o] = Absent]
         \/ content' = [content EXCEPT ![o] = Altered]
      /\ release \notin {Absent, Altered} /\ Present(o) /\ Absent # Altered
      /\ outside' # outside
  BY ContentAssumption, EventsAssumption DEF IInv, TypeOK, Drift, Removed, Spend
<1>2. At("deploy")' = At("deploy") /\ At("undeploy")' = At("undeploy")
  BY <1>1 DEF At
<1>3. /\ \A p \in Objects \ {o} : content'[p] = content[p]
      /\ AsRendered(o)' => AsRendered(o)
  BY <1>1 DEF AsRendered, Present
<1>4. BundleState' = BundleState
        \/ (BundleState # "absent" /\ BundleState' \in {"broken", "absent"})
  <2>1. CASE o \in Plain
    BY <1>1, <1>3, <2>1, BundleShape DEF BundleState, AsRendered, Present
  <2>2. CASE o \notin Plain
    BY <1>1, <1>3, <2>2, BundleShape DEF BundleState, AsRendered, Present
  <2> QED  BY <2>1, <2>2
<1> QED  BY <1>1, <1>2, <1>4 DEF Contract!Disturb, Contract!vars

\* A new release has rendered nothing yet: no bundle is complete for it.
LEMMA RestartSimulates ==
  ASSUME IInv, Restart
  PROVE  Contract!Restart
<1>1. /\ pc' = [d \in Defs |-> "idle"] /\ content' = content
      /\ release \in Nat /\ release' \in {release, release + 1}
      /\ release' \in 0 .. MaxRelease /\ outside' # outside
  BY ContentAssumption, EventsAssumption DEF IInv, TypeOK, Restart, cluster, Spend
<1>2. At("deploy")' = {} /\ At("undeploy")' = {}
  BY <1>1 DEF At
<1>3. CASE release' = release
  BY <1>1, <1>2, <1>3, SameState DEF Contract!Restart
<1>4. CASE release' = release + 1
  <2>1. content'[TheDeployment] # release'
    BY <1>1, <1>4, BundleShape, ContentAssumption DEF IInv, Rendered
  <2>2. ~AsRendered(TheDeployment)'
    BY <2>1 DEF AsRendered, TheDeployment
  <2>3. \/ BundleState = "absent" /\ BundleState' = "absent"
        \/ BundleState # "absent" /\ BundleState' = "broken"
    BY <1>1, <2>2, BundleShape DEF BundleState, Present
  <2> QED  BY <1>1, <1>2, <2>3 DEF Contract!Restart
<1> QED  BY <1>1, <1>3, <1>4

LEMMA InitialContract == Init => Contract!Init
  BY BundleShape DEF Init, Contract!Init, BundleState, At, Present

LEMMA StepContract == IInv /\ [Next]_vars => [Contract!Next]_(Contract!vars)
<1> SUFFICES ASSUME IInv, [Next]_vars
             PROVE  Contract!Next \/ UNCHANGED Contract!vars
  OBVIOUS
<1>1. ASSUME NEW d \in Defs, Reconcile(d) \/ Fail(d)
      PROVE  Contract!Next \/ UNCHANGED Contract!vars
  <2>1. ASSUME NEW o \in loc[d].todo, ApplyObject(d, o) \/ RemoveObject(d, o)
        PROVE  Contract!Next
    BY <2>1, ApplySimulates, RemoveSimulates DEF Contract!Next
  <2> QED  BY <1>1, <2>1, PassingSteps DEF Reconcile, Deploy, Undeploy
<1>2. ASSUME UNCHANGED <<content, release, pc>>
      PROVE  UNCHANGED Contract!vars
  BY <1>2, SameState DEF Contract!vars, At
<1>3. ASSUME NEW d \in Defs, Delete(d) \/ \E c \in Creds \cup {NoCred} : EditCredentials(d, c)
      PROVE  UNCHANGED Contract!vars
  BY <1>2, <1>3 DEF Delete, EditCredentials, cluster
<1>4. ASSUME NEW o \in Objects, Drift(o)
      PROVE  Contract!Next \/ UNCHANGED Contract!vars
  BY <1>4, DriftSimulates DEF Contract!Next
<1>5. CASE Rollout
  BY <1>2, <1>5 DEF Rollout
<1>6. CASE Restart
  BY <1>6, RestartSimulates DEF Contract!Next
<1>7. CASE UNCHANGED vars
  BY <1>2, <1>7 DEF vars
<1> QED  BY <1>1, <1>3, <1>4, <1>5, <1>6, <1>7 DEF Next

\* Deploy and Undeploy, call by call and however they interleave, stop or fail,
\* implement the bundle that definitions rely on.
THEOREM ObjectsKeepContract == Spec => KeepsContract
<1>1. Init => Contract!Init
  BY InitialContract
<1>2. IInv /\ [Next]_vars => [Contract!Next]_(Contract!vars)
  BY StepContract
<1> QED  BY <1>1, <1>2, BundleInvariant, PTL DEF Spec, KeepsContract, Contract!Spec

-----------------------------------------------------------------------------
(* The deployment comes after what it needs, and goes before it *)

\* The place of a kind that is listed once.
LEMMA RankOf ==
  ASSUME NEW order, NEW k \in 1 .. Len(order), order[k] \in SecretKinds \cup PlainKinds,
         \A i \in 1 .. Len(order) : order[i] = order[k] => i = k
  PROVE  Ranks(order)[order[k]] = k
  BY DEF Ranks

LEMMA DeploymentLast ==
  \A kind \in Rights \cup {"config"} :
    ~ InstallOrder["deployment"] <= InstallOrder[kind]
<1> DEFINE order == <<"secretRole", "secretRoleBinding", "clusterRole",
                      "clusterRoleBinding", "role", "roleBinding",
                      "serviceAccount", "jsonSchema", "config", "deployment",
                      "service">>
<1>1. Len(order) = 11 /\ InstallOrder = Ranks(order)
  BY DEF InstallOrder
<1>2. \A i \in 1 .. 11 :
       \/ i = 1 /\ order[i] = "secretRole"
       \/ i = 2 /\ order[i] = "secretRoleBinding"
       \/ i = 3 /\ order[i] = "clusterRole"
       \/ i = 4 /\ order[i] = "clusterRoleBinding"
       \/ i = 5 /\ order[i] = "role"
       \/ i = 6 /\ order[i] = "roleBinding"
       \/ i = 7 /\ order[i] = "serviceAccount"
       \/ i = 8 /\ order[i] = "jsonSchema"
       \/ i = 9 /\ order[i] = "config"
       \/ i = 10 /\ order[i] = "deployment"
       \/ i = 11 /\ order[i] = "service"
  OBVIOUS
<1> HIDE DEF order
<1>3. \A i, j \in 1 .. 11 : order[i] = order[j] => i = j
  BY <1>2
<1>4. \A i \in 1 .. 11 : order[i] \in SecretKinds \cup PlainKinds
  BY <1>2 DEF SecretKinds, PlainKinds, Rights
<1>5. \A i \in 1 .. 11 : Ranks(order)[order[i]] = i
  BY <1>1, <1>3, <1>4, RankOf
<1>6. /\ order[10] = "deployment"
      /\ order[9] = "config"
      /\ order[3] = "clusterRole"
      /\ order[4] = "clusterRoleBinding"
      /\ order[5] = "role"
      /\ order[6] = "roleBinding"
      /\ order[7] = "serviceAccount"
  BY <1>2
<1> QED  BY <1>1, <1>5, <1>6 DEF Rights

LEMMA DeploymentFirstToGo ==
  \A kind \in Rights \cup {"config"} :
    ~ RemoveOrder[kind] <= RemoveOrder["deployment"]
<1> DEFINE order == <<"jsonSchema", "deployment", "config", "clusterRole",
                      "clusterRoleBinding", "role", "roleBinding",
                      "serviceAccount", "service", "secretRole",
                      "secretRoleBinding">>
<1>1. Len(order) = 11 /\ RemoveOrder = Ranks(order)
  BY DEF RemoveOrder
<1>2. \A i \in 1 .. 11 :
       \/ i = 1 /\ order[i] = "jsonSchema"
       \/ i = 2 /\ order[i] = "deployment"
       \/ i = 3 /\ order[i] = "config"
       \/ i = 4 /\ order[i] = "clusterRole"
       \/ i = 5 /\ order[i] = "clusterRoleBinding"
       \/ i = 6 /\ order[i] = "role"
       \/ i = 7 /\ order[i] = "roleBinding"
       \/ i = 8 /\ order[i] = "serviceAccount"
       \/ i = 9 /\ order[i] = "service"
       \/ i = 10 /\ order[i] = "secretRole"
       \/ i = 11 /\ order[i] = "secretRoleBinding"
  OBVIOUS
<1> HIDE DEF order
<1>3. \A i, j \in 1 .. 11 : order[i] = order[j] => i = j
  BY <1>2
<1>4. \A i \in 1 .. 11 : order[i] \in SecretKinds \cup PlainKinds
  BY <1>2 DEF SecretKinds, PlainKinds, Rights
<1>5. \A i \in 1 .. 11 : Ranks(order)[order[i]] = i
  BY <1>1, <1>3, <1>4, RankOf
<1>6. /\ order[2] = "deployment"
      /\ order[3] = "config"
      /\ order[4] = "clusterRole"
      /\ order[5] = "clusterRoleBinding"
      /\ order[6] = "role"
      /\ order[7] = "roleBinding"
      /\ order[8] = "serviceAccount"
  BY <1>2
<1> QED  BY <1>1, <1>5, <1>6 DEF Rights

\* Only definitions that are being deleted take the bundle down.
Going ==
  \A d \in Defs : /\ pc[d] \in Leaving => phase[d] # "live"
                  /\ loc[d].deleted => phase[d] # "live"

\* While nobody takes anything away, what a Deploy has written is there.
Placed ==
  (\A d \in Defs : phase[d] = "live") /\ "drift" \notin past =>
    \A d \in Defs : pc[d] = "deploy" =>
      \A o \in Plain : o \notin loc[d].todo => Present(o)

OrderInv == IInv /\ Going /\ Placed

LEMMA OrderMoves ==
  ASSUME OrderInv, NEW d \in Defs, NEW s, NEW l,
         pc' = [pc EXCEPT ![d] = s], loc' = [loc EXCEPT ![d] = l],
         UNCHANGED <<phase, content>>, past \subseteq past',
         s = "deploy" => Plain \subseteq l.todo,
         s \in Leaving => phase[d] # "live", l.deleted => phase[d] # "live"
  PROVE  Going' /\ Placed'
<1>1. \A e \in Defs : /\ pc'[e] = IF e = d THEN s ELSE pc[e]
                      /\ loc'[e] = IF e = d THEN l ELSE loc[e]
  BY DEF OrderInv, IInv, TypeOK
<1>2. Going'
  BY <1>1 DEF Going, OrderInv
<1>3. Placed'
  BY <1>1 DEF Placed, OrderInv, Present
<1> QED  BY <1>2, <1>3

LEMMA OrderSteps ==
  ASSUME OrderInv, NEW d \in Defs,
         \/ Lookup(d) \/ Watch(d) \/ RestartDeployment(d) \/ Record(d)
         \/ WatchTimeout(d) \/ Fail(d)
  PROVE  Going' /\ Placed'
<1> USE DEF cluster, environment, Goto
<1>1. /\ loc[d] \in Locals /\ pc \in [Defs -> Stages] /\ loc \in [Defs -> Locals]
      /\ loc[d].deleted => phase[d] # "live"
  BY DEF OrderInv, IInv, TypeOK, Going
<1>2. ASSUME End(d), UNCHANGED <<phase, content>>, past \subseteq past'
      PROVE  Going' /\ Placed'
  BY <1>2, OrderMoves DEF End, Leaving, NoLocals
<1>3. ASSUME NEW o \in loc[d].todo, LookupObject(d, o)
      PROVE  Going' /\ Placed'
  <2>1. CASE End(d)
    BY <1>2, <1>3, <2>1 DEF LookupObject
  <2>2. CASE ~End(d)
    <3> DEFINE l == [loc[d] EXCEPT !.todo = loc[d].todo \ {o},
                                   !.sum = loc[d].sum \cup {Hashed(o, content[o])}]
    <3>1. pc' = [pc EXCEPT ![d] = "lookup"] /\ loc' = [loc EXCEPT ![d] = l]
      BY <1>1, <1>3, <2>2 DEF LookupObject
    <3>2. l.deleted = loc[d].deleted
      BY <1>1 DEF Locals
    <3> HIDE DEF l
    <3> QED  BY <1>1, <1>3, <3>1, <3>2, OrderMoves DEF LookupObject, Leaving
  <2> QED  BY <2>1, <2>2
<1>4. CASE Compare(d)
  <2>1. CASE End(d)
    BY <1>2, <1>4, <2>1 DEF Compare
  <2>2. CASE ~End(d)
    <3> DEFINE s == IF loc[d].deleted THEN "undeploy" ELSE "deploy"
               l == [loc[d] EXCEPT !.todo = BundleOf(loc[d].cred), !.sum = NoDigest]
    <3>1. pc' = [pc EXCEPT ![d] = s] /\ loc' = [loc EXCEPT ![d] = l]
      BY <1>4, <2>2 DEF Compare, Repair, Turn
    <3>2. l.deleted = loc[d].deleted /\ l.todo = BundleOf(loc[d].cred)
      BY <1>1 DEF Locals
    <3>3. Plain \subseteq l.todo
      BY <3>2, BundleShape
    <3>4. s \in Leaving => loc[d].deleted
      BY DEF Leaving
    <3> HIDE DEF l, s
    <3> QED  BY <1>1, <1>4, <3>1, <3>2, <3>3, <3>4, OrderMoves DEF Compare
  <2> QED  BY <2>1, <2>2
<1>5. CASE Observe(d)
  <2> DEFINE l0 == [NoLocals EXCEPT !.cred = cred[d],
                                    !.deleted = (phase[d] = "terminating")]
             s == IF digest[d] = Expected(cred[d], release) THEN "lookup"
                  ELSE IF l0.deleted THEN "undeploy" ELSE "deploy"
             l == [l0 EXCEPT !.todo = BundleOf(l0.cred), !.sum = NoDigest]
  <2>1. pc' = [pc EXCEPT ![d] = s] /\ loc' = [loc EXCEPT ![d] = l]
    BY <1>5 DEF Observe, Repair, Turn
  <2>2. l.todo = BundleOf(cred[d]) /\ (l.deleted <=> phase[d] = "terminating")
        /\ (l0.deleted <=> phase[d] = "terminating")
    BY DEF NoLocals
  <2>3. Plain \subseteq l.todo
    BY <2>2, BundleShape
  <2>4. s \in Leaving => phase[d] # "live"
    BY <2>2 DEF Leaving
  <2> HIDE DEF l, s
  <2> QED  BY <1>5, <2>1, <2>2, <2>3, <2>4, OrderMoves DEF Observe
<1>6. CASE Record(d) \/ WatchTimeout(d) \/ Fail(d)
  BY <1>2, <1>6 DEF Record, WatchTimeout, Fail, Spend
<1>7. CASE Watch(d) \/ RestartDeployment(d)
  <2>1. CASE End(d)
    BY <1>2, <1>7, <2>1 DEF Watch, RestartDeployment
  <2>2. CASE ~End(d)
    <3>1. PICK s \in {"restart", "record", "watchAgain"} : pc' = [pc EXCEPT ![d] = s]
      BY <1>7, <2>2 DEF Watch, RestartDeployment
    <3>2. loc' = [loc EXCEPT ![d] = loc[d]]
      BY <1>1, <1>7, <2>2 DEF Watch, RestartDeployment
    <3> QED  BY <1>1, <1>7, <3>1, <3>2, OrderMoves DEF Watch, RestartDeployment, Leaving
  <2> QED  BY <2>1, <2>2
<1> QED  BY <1>3, <1>4, <1>5, <1>6, <1>7 DEF Lookup

\* What a Deploy writes is there after it.
LEMMA OrderApply ==
  ASSUME OrderInv, NEW d \in Defs, NEW o \in loc[d].todo, ApplyObject(d, o)
  PROVE  Going' /\ Placed'
<1> DEFINE s == IF loc[d].todo = {o} THEN "watch" ELSE "deploy"
           l == [loc[d] EXCEPT !.todo = loc[d].todo \ {o},
                               !.sum = loc[d].sum \cup {Hashed(o, release)}]
<1>1. /\ loc[d] \in Locals /\ o \in Objects /\ release # Absent
      /\ pc \in [Defs -> Stages] /\ loc \in [Defs -> Locals]
      /\ content \in [Objects -> Contents] /\ pc[d] = "deploy"
  BY ContentAssumption DEF OrderInv, IInv, TypeOK, Locals, ApplyObject
<1>2. l.todo = loc[d].todo \ {o} /\ l.deleted = loc[d].deleted
  BY <1>1 DEF Locals
<1>3. /\ pc' = [pc EXCEPT ![d] = s] /\ loc' = [loc EXCEPT ![d] = l]
      /\ content' = [content EXCEPT ![o] = release]
      /\ UNCHANGED <<phase, past>> /\ s \notin Leaving
  BY <1>1 DEF ApplyObject, Goto, environment, Leaving
<1> HIDE DEF s, l
<1>4. Going'
  BY <1>1, <1>2, <1>3 DEF Going, OrderInv
<1>5. Placed'
  <2> SUFFICES ASSUME \A e \in Defs : phase[e] = "live", "drift" \notin past,
                      NEW e \in Defs, pc'[e] = "deploy",
                      NEW p \in Plain, p \notin loc'[e].todo
               PROVE  content'[p] # Absent
    BY <1>3 DEF Placed, Present
  <2>1. p = o \/ Present(p)
    BY <1>1, <1>2, <1>3 DEF Placed, OrderInv
  <2> QED  BY <1>1, <1>3, <2>1, BundleShape DEF Present
<1> QED  BY <1>4, <1>5

\* A definition in Undeploy is not live: nothing is promised then.
LEMMA OrderUndeploy ==
  ASSUME OrderInv, NEW d \in Defs, Undeploy(d)
  PROVE  Going' /\ Placed'
<1>1. /\ loc[d] \in Locals /\ pc \in [Defs -> Stages] /\ loc \in [Defs -> Locals]
      /\ phase \in [Defs -> Phases]
  BY DEF OrderInv, IInv, TypeOK
<1>2. ASSUME NEW o \in loc[d].todo, RemoveObject(d, o)
      PROVE  Going' /\ Placed'
  <2> DEFINE s == IF loc[d].todo = {o} THEN "uninstall" ELSE "undeploy"
             l == [loc[d] EXCEPT !.todo = loc[d].todo \ {o}]
  <2>1. l.deleted = loc[d].deleted
    BY <1>1 DEF Locals
  <2>2. /\ pc[d] = "undeploy" /\ pc' = [pc EXCEPT ![d] = s]
        /\ loc' = [loc EXCEPT ![d] = l] /\ phase' = phase
    BY <1>1, <1>2 DEF RemoveObject, Goto
  <2>3. phase[d] # "live"
    BY <2>2 DEF OrderInv, Going, Leaving
  <2> HIDE DEF s, l
  <2> QED  BY <1>1, <2>1, <2>2, <2>3 DEF Going, Placed, OrderInv
<1>3. CASE Uninstall(d)
  BY <1>1, <1>3 DEF Uninstall, End, Goto, Going, Placed, OrderInv, NoLocals, Leaving
<1> QED  BY <1>2, <1>3 DEF Undeploy

LEMMA OrderInductive == OrderInv /\ [Next]_vars => OrderInv'
<1> SUFFICES ASSUME OrderInv, [Next]_vars PROVE Going' /\ Placed'
  BY Inductive DEF OrderInv
<1> USE DEF cluster, environment
<1>1. ASSUME NEW d \in Defs, Reconcile(d) \/ Fail(d)
      PROVE  Going' /\ Placed'
  <2>1. CASE \E o \in loc[d].todo : ApplyObject(d, o)
    BY <2>1, OrderApply
  <2>2. CASE Undeploy(d)
    BY <2>2, OrderUndeploy
  <2> QED  BY <1>1, <2>1, <2>2, OrderSteps DEF Reconcile, Deploy
<1>2. ASSUME NEW d \in Defs, Delete(d)
      PROVE  Going' /\ Placed'
  <2>1. /\ phase' = [phase EXCEPT ![d] = "terminating"] /\ phase \in [Defs -> Phases]
        /\ UNCHANGED <<pc, loc>>
    BY <1>2 DEF Delete, OrderInv, IInv, TypeOK
  <2> QED  BY <2>1 DEF Going, Placed, OrderInv
<1>3. ASSUME NEW d \in Defs, NEW c \in Creds \cup {NoCred}, EditCredentials(d, c)
      PROVE  Going' /\ Placed'
  <2>1. UNCHANGED <<phase, pc, loc, content>> /\ past \subseteq past'
    BY <1>3 DEF EditCredentials, Spend
  <2> QED  BY <2>1 DEF Going, Placed, OrderInv, Present
<1>4. ASSUME NEW o \in Objects, Drift(o)
      PROVE  Going' /\ Placed'
  <2>1. UNCHANGED <<phase, pc, loc>> /\ "drift" \in past'
    BY <1>4 DEF Drift, Spend
  <2> QED  BY <2>1 DEF Going, Placed, OrderInv
<1>5. CASE Restart
  <2>1. \A d \in Defs : pc'[d] = "idle" /\ ~loc'[d].deleted
    BY <1>5 DEF Restart, NoLocals
  <2> QED  BY <2>1 DEF Going, Placed, Leaving
<1>6. CASE Rollout \/ UNCHANGED vars
  BY <1>6 DEF Rollout, vars, Going, Placed, OrderInv, Present
<1> QED  BY <1>1, <1>2, <1>3, <1>4, <1>5, <1>6 DEF Next

\* Two of the conditions under which the order is promised.
Undisturbed(d) == pc[d] = "undeploy" /\ \A e \in Defs \ {d} : phase[e] = "gone"

LEMMA ApplyInOrder ==
  ASSUME OrderInv, NEW d \in Defs, NEW o \in loc[d].todo, ApplyObject(d, o),
         ~Orphaned, Orphaned', "drift" \notin past
  PROVE  /\ ~\A e \in Defs : phase[e] = "live"
         /\ ~\E e \in Defs : Undisturbed(e)
<1>1. /\ content \in [Objects -> Contents] /\ content' = [content EXCEPT ![o] = release]
      /\ pc[d] = "deploy" /\ phase[d] # "gone" /\ release # Absent
      /\ o \in NextOf(InstallOrder, loc[d].todo) /\ o \in Objects
  BY ContentAssumption DEF OrderInv, IInv, TypeOK, Working, ApplyObject, Locals
<1>2. ~\E e \in Defs : Undisturbed(e)
  BY <1>1 DEF Undisturbed
<1>3. PICK p \in Plain : p[1] \in Rights \cup {"config"} /\ content'[p] = Absent
  BY DEF Orphaned, Present
<1>4. p # o /\ ~Present(p)
  BY <1>1, <1>3, BundleShape DEF Present
<1>5. o = TheDeployment
  BY <1>1, <1>3, <1>4, BundleShape DEF Orphaned, Present
<1>6. p \notin loc[d].todo
  <2> SUFFICES ASSUME p \in loc[d].todo PROVE FALSE
    OBVIOUS
  <2>1. InstallOrder["deployment"] <= InstallOrder[p[1]]
    BY <1>1, <1>5 DEF NextOf, TheDeployment
  <2> QED  BY <1>3, <2>1, DeploymentLast
<1> QED  BY <1>1, <1>2, <1>4, <1>6 DEF Placed, OrderInv

LEMMA RemoveInOrder ==
  ASSUME OrderInv, NEW d \in Defs, NEW o \in loc[d].todo, RemoveObject(d, o),
         ~Orphaned, Orphaned'
  PROVE  /\ ~\A e \in Defs : phase[e] = "live"
         /\ ~\E e \in Defs : Undisturbed(e)
<1>1. /\ content \in [Objects -> Contents] /\ content' = [content EXCEPT ![o] = Absent]
      /\ pc[d] = "undeploy" /\ phase[d] \notin {"live", "gone"}
      /\ o \in NextOf(RemoveOrder, loc[d].todo) /\ o \in Objects
  BY DEF OrderInv, IInv, TypeOK, Working, Going, Leaving, RemoveObject, Removed, Locals
<1>2. SUFFICES ASSUME NEW e \in Defs, Undisturbed(e) PROVE FALSE
  BY <1>1
<1>3. e = d /\ \A e2 \in Defs \ {d} : phase[e2] = "gone"
  BY <1>1, <1>2 DEF Undisturbed
<1>4. PICK p \in Plain : p[1] \in Rights \cup {"config"} /\ content'[p] = Absent
  BY DEF Orphaned, Present
<1>5. Present(TheDeployment) /\ o # TheDeployment
  BY <1>1, BundleShape DEF Orphaned, Present
<1>6. p = o
  BY <1>1, <1>4, <1>5, BundleShape DEF Orphaned, Present
<1>7. TheDeployment \in loc[d].todo
  <2>1. PICK e2 \in Defs : Kept(TheDeployment, e2)
    BY <1>5, BundleShape DEF OrderInv, IInv, Owned
  <2> QED  BY <1>1, <1>3, <2>1 DEF Kept, Leaving
<1>8. RemoveOrder[p[1]] <= RemoveOrder["deployment"]
  BY <1>1, <1>6, <1>7 DEF NextOf, TheDeployment
<1> QED  BY <1>4, <1>8, DeploymentFirstToGo

LEMMA OrderKept ==
  ASSUME OrderInv, [Next]_vars, ~Orphaned, Orphaned', "drift" \notin past'
  PROVE  /\ ~\A e \in Defs : phase[e] = "live"
         /\ ~\E e \in Defs : Undisturbed(e)
<1> USE DEF cluster, environment
<1>1. content' # content
  BY DEF Orphaned, Present
<1>2. \E d \in Defs, o \in Objects :
         o \in loc[d].todo /\ (ApplyObject(d, o) \/ RemoveObject(d, o))
  <2>1. ~\E o \in Objects : Drift(o)
    BY DEF Drift, Spend
  <2>2. \A d \in Defs : loc[d].todo \subseteq Objects
    BY DEF OrderInv, IInv, TypeOK, Locals
  <2>3. \A d \in Defs : ~(\/ Lookup(d) \/ Watch(d) \/ RestartDeployment(d) \/ Record(d)
                          \/ Uninstall(d) \/ WatchTimeout(d) \/ Fail(d) \/ Delete(d))
    BY <1>1 DEF Lookup, Observe, Compare, LookupObject, Watch, RestartDeployment, Record,
                Uninstall, WatchTimeout, Fail, Delete
  <2>4. ~(Rollout \/ Restart \/ UNCHANGED vars)
        /\ \A d \in Defs, c \in Creds \cup {NoCred} : ~EditCredentials(d, c)
    BY <1>1 DEF Rollout, Restart, vars, EditCredentials
  <2> QED  BY <2>1, <2>2, <2>3, <2>4 DEF Next, Reconcile, Deploy, Undeploy
<1>3. PICK d \in Defs, o \in Objects :
         o \in loc[d].todo /\ (ApplyObject(d, o) \/ RemoveObject(d, o))
  BY <1>2
<1> QED  BY <1>3, ApplyInOrder, RemoveInOrder DEF ApplyObject

\* Neither a Deploy nor the Undeploy of the last definition leaves a deployment
\* without its configuration or its rights, from whatever state an earlier one
\* that failed or was killed has left (the calls of deploy.Deploy and deploy.Undeploy
\* in their order).
THEOREM SupportInOrder == Spec => SupportOrder
<1>1. Init => OrderInv
  <2>1. Init => Going /\ Placed
    BY DEF Init, Going, Placed, NoLocals, Leaving
  <2> QED  BY <2>1, Initially DEF OrderInv
<1>2. OrderInv /\ [Next]_vars
        => [(~Orphaned /\ Orphaned' /\ "drift" \notin past')
              => ~ \/ \A d \in Defs : phase[d] = "live"
                   \/ \E d \in Defs : /\ pc[d] = "undeploy"
                                      /\ \A e \in Defs \ {d} : phase[e] = "gone"]_vars
  BY OrderKept DEF Undisturbed
<1> QED  BY <1>1, <1>2, OrderInductive, PTL DEF Spec, SupportOrder
=============================================================================
