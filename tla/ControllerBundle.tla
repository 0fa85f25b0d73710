--------------------------- MODULE ControllerBundle ---------------------------
(***************************************************************************)
(* The controller bundle object by object (internal/tools/deploy,          *)
(* deployment, hash, kube/watcher): what Deploy, Lookup and Undeploy do    *)
(* to the objects of one namespace and one chart version, for the          *)
(* definitions that share them, and what Observe makes of the digests.     *)
(*                                                                         *)
(* An action is the stretch of a reconcile from one call of the API server *)
(* to the next; reconciles of different definitions interleave.  The CRD   *)
(* is taken to be current (CompositionDefinitions is about it).            *)
(***************************************************************************)
EXTENDS Naturals, Sequences

CONSTANTS Defs,         \* definitions of one chart version in one namespace
          Creds, NoCred,\* the credentials (secrets) a chart may be read with
          FirstCred,    \* what each definition is created with
          Home,         \* the definitions' namespace
          Kinds,        \* the kinds of object there are templates for
          MaxRelease,
          Absent,       \* there is no such object
          Altered,      \* an object changed by someone else
          NoPods,
          MaxEvents     \* how often the environment interferes in all

SecretKinds == {"secretRole", "secretRoleBinding"}
Rights == {"clusterRole", "clusterRoleBinding", "role", "roleBinding",
           "serviceAccount"}
PlainKinds == Rights \cup {"jsonSchema", "config", "deployment", "service"}

ASSUME KindsAssumption ==
  /\ Kinds \subseteq SecretKinds \cup PlainKinds
  /\ {"config", "deployment"} \subseteq Kinds
ASSUME CredsAssumption ==
  /\ NoCred \notin Creds /\ Home \notin Creds
  /\ FirstCred \in [Defs -> Creds \cup {NoCred}]
ASSUME ContentAssumption ==
  /\ MaxRelease \in Nat
  /\ Absent \notin 0 .. MaxRelease /\ Altered \notin 0 .. MaxRelease
  /\ Absent # Altered
ASSUME EventsAssumption == MaxEvents \in Nat

VARIABLES phase,   \* of each definition: live, terminating or gone
          cred,    \* spec.chart.credentials of each definition
          digest,  \* status.digest of each definition
          content, \* what each object holds: the release that rendered it
          stamp,   \* the restart annotation in the deployment's template
          pods,    \* what the controller's pods run with
          release, \* the release of core-provider, with its templates
          pc, loc, \* the reconcile in progress for each definition
          left,    \* how often the environment may still interfere
          past,    \* how it has,
          outside  \* and how often as a drift or a restart

vars == <<phase, cred, digest, content, stamp, pods, release, pc, loc, left,
          past, outside>>
environment == <<left, past, outside>>
cluster == <<content, stamp, pods>>

-----------------------------------------------------------------------------
(* Objects and digests *)

Plain == (Kinds \cap PlainKinds) \X {Home}
Objects == Plain \cup ((Kinds \cap SecretKinds) \X Creds)
TheDeployment == <<"deployment", Home>>
TheConfig == <<"config", Home>>

\* (mutant) Charts without credentials are not told apart.
BundleWithSecret(c) == Plain \cup ((Kinds \cap SecretKinds) \X {c})

\* The objects for a chart that is read with credentials c.
BundleOf(c) == Plain \cup {o \in Objects : o[2] = c}

Ranks(order) == [kind \in SecretKinds \cup PlainKinds |->
                   CHOOSE i \in 1 .. Len(order) : order[i] = kind]
\* (mutant) The configuration follows the deployment.
DeploymentFirst == Ranks(<<"secretRole", "secretRoleBinding", "clusterRole",
                           "clusterRoleBinding", "role", "roleBinding",
                           "serviceAccount", "jsonSchema", "deployment",
                           "config", "service">>)

InstallOrder == Ranks(<<"secretRole", "secretRoleBinding", "clusterRole",
                        "clusterRoleBinding", "role", "roleBinding",
                        "serviceAccount", "jsonSchema", "config", "deployment",
                        "service">>)
RemoveOrder == Ranks(<<"jsonSchema", "deployment", "config", "clusterRole",
                       "clusterRoleBinding", "role", "roleBinding",
                       "serviceAccount", "service", "secretRole",
                       "secretRoleBinding">>)
\* The next one of the objects that are left to do.
NextOf(order, todo) ==
  {o \in todo : \A p \in todo : order[o[1]] <= order[p[1]]}

Contents == (0 .. MaxRelease) \cup {Absent, Altered}

\* What of an object's content goes into the hash: of two kinds the name only.
Visible(o, c) ==
  IF c # Absent /\ o[1] \in {"serviceAccount", "jsonSchema"} THEN 0 ELSE c

\* ObjectHash as the set of what was hashed (collisions are left out); the dry
\* run and a Deploy hash what they render, Lookup what it reads.
Digests == SUBSET (Objects \X Contents)
NoDigest == {}
Hashed(o, c) == <<o, Visible(o, c)>>
Expected(c, r) == {Hashed(o, r) : o \in BundleOf(c)}

-----------------------------------------------------------------------------

Phases == {"live", "terminating", "gone"}
Stages == {"idle", "lookup", "deploy", "watch", "restart", "watchAgain",
           "record", "undeploy", "uninstall"}
\* A restart annotation is none, the latest or an earlier one.
Annotations == {"none", "latest", "earlier"}
Pods == [spec : Contents, stamp : Annotations, config : Contents]
Locals == [cred : Creds \cup {NoCred}, deleted : BOOLEAN,
           todo : SUBSET Objects, sum : Digests]
NoLocals == [cred |-> NoCred, deleted |-> FALSE, todo |-> {}, sum |-> NoDigest]
Events == {"edit", "delete", "fault", "restart", "drift"}

TypeOK ==
  /\ phase \in [Defs -> Phases]
  /\ cred \in [Defs -> Creds \cup {NoCred}]
  /\ digest \in [Defs -> Digests]
  /\ content \in [Objects -> Contents]
  /\ stamp \in {"none", "latest"}
  /\ pods \in Pods \cup {NoPods}
  /\ release \in 0 .. MaxRelease
  /\ pc \in [Defs -> Stages]
  /\ loc \in [Defs -> Locals]
  /\ left \in 0 .. MaxEvents
  /\ past \subseteq Events
  /\ outside \in Nat

Init ==
  /\ phase = [d \in Defs |-> "live"]
  /\ cred = FirstCred
  /\ digest = [d \in Defs |-> NoDigest]
  /\ content = [o \in Objects |-> Absent]
  /\ stamp = "none"
  /\ pods = NoPods
  /\ release = 0
  /\ pc = [d \in Defs |-> "idle"]
  /\ loc = [d \in Defs |-> NoLocals]
  /\ left = MaxEvents
  /\ past = {} /\ outside = 0

Goto(d, stage) == pc' = [pc EXCEPT ![d] = stage]
End(d) == Goto(d, "idle") /\ loc' = [loc EXCEPT ![d] = NoLocals]
Spend(event) ==
  /\ left > 0 /\ left' = left - 1
  /\ past' = past \cup {event}
  /\ outside' = IF event \in {"drift", "restart"} THEN outside + 1 ELSE outside
Present(o) == content[o] # Absent
\* WatchResource: the first event shows the deployment as it is.  IsReady counts
\* replicas; pods of an earlier template are as good as any.
Ready == pods # NoPods

\* The template's annotation becomes s; no pod can have a new one.
Annotate(s) ==
  /\ stamp' = s
  /\ pods' = IF Ready /\ pods.stamp = "latest"
               THEN [pods EXCEPT !.stamp = "earlier"] ELSE pods

-----------------------------------------------------------------------------
(* Observe *)

\* (mutant) Undeploy was not told of the rights to read secrets.
TurnPlain(d, l, stage) ==
  /\ Goto(d, stage)
  /\ loc' = [loc EXCEPT ![d] = [l EXCEPT
       !.todo = IF stage = "undeploy" THEN Plain ELSE BundleOf(l.cred),
       !.sum = NoDigest]]

\* l is the reconciler's copy of the definition: it begins at its objects.
Turn(d, l, stage) ==
  /\ Goto(d, stage)
  /\ loc' = [loc EXCEPT ![d] = [l EXCEPT !.todo = BundleOf(l.cred),
                                         !.sum = NoDigest]]

\* The runtime updates a bundle that is not up to date; of a definition that is
\* being deleted it calls Delete either way.
Repair(d, l) == Turn(d, l, IF l.deleted THEN "undeploy" ELSE "deploy")

\* The dry run renders the bundle (and does not change anything).
Observe(d) ==
  /\ pc[d] = "idle" /\ phase[d] # "gone"
  /\ LET l == [NoLocals EXCEPT !.cred = cred[d],
                               !.deleted = (phase[d] = "terminating")]
     IN IF digest[d] = Expected(cred[d], release) THEN Turn(d, l, "lookup")
                                                  ELSE Repair(d, l)
  /\ UNCHANGED <<phase, cred, digest, cluster, release, environment>>

\* (mutant) Objects that are missing are passed over.
LookupPresent(d, o) ==
  /\ pc[d] = "lookup"
  /\ o \in NextOf(InstallOrder, loc[d].todo)
  /\ loc' = [loc EXCEPT ![d].todo = @ \ {o},
               ![d].sum = @ \cup {Hashed(o, IF Present(o) THEN content[o] ELSE release)}]
  /\ UNCHANGED <<phase, cred, digest, cluster, release, pc, environment>>

\* (mutant) The restart annotation is part of the template that is hashed.
LookupAnnotated(d, o) ==
  /\ pc[d] = "lookup"
  /\ o \in NextOf(InstallOrder, loc[d].todo)
  /\ loc' = [loc EXCEPT ![d].todo = @ \ {o},
               ![d].sum = @ \cup {Hashed(o, IF o = TheDeployment /\ stamp # "none"
                                            THEN Altered ELSE content[o])}]
  /\ UNCHANGED <<phase, cred, digest, cluster, release, pc, environment>>

\* Lookup: a missing object is hashed as an empty one, but a missing secret role
\* or its binding is an error.
LookupObject(d, o) ==
  /\ pc[d] = "lookup"
  /\ o \in NextOf(InstallOrder, loc[d].todo)
  /\ \/ /\ o[1] \notin SecretKinds \/ Present(o)
        /\ loc' = [loc EXCEPT ![d].todo = @ \ {o},
                              ![d].sum = @ \cup {Hashed(o, content[o])}]
        /\ UNCHANGED pc
     \/ o[1] \in SecretKinds /\ ~Present(o) /\ End(d)
  /\ UNCHANGED <<phase, cred, digest, cluster, release, environment>>

Compare(d) ==
  /\ pc[d] = "lookup" /\ loc[d].todo = {}
  /\ IF loc[d].sum = digest[d] /\ ~loc[d].deleted THEN End(d)
                                                   ELSE Repair(d, loc[d])
  /\ UNCHANGED <<phase, cred, digest, cluster, release, environment>>

-----------------------------------------------------------------------------
(* Deploy *)

\* kube.Apply; the template of a deployment has no restart annotation.
ApplyObject(d, o) ==
  /\ pc[d] = "deploy"
  /\ o \in NextOf(InstallOrder, loc[d].todo)
  /\ content' = [content EXCEPT ![o] = release]
  /\ IF o = TheDeployment THEN Annotate("none") ELSE UNCHANGED <<stamp, pods>>
  /\ loc' = [loc EXCEPT ![d].todo = @ \ {o},
                        ![d].sum = @ \cup {Hashed(o, release)}]
  /\ Goto(d, IF loc[d].todo = {o} THEN "watch" ELSE "deploy")
  /\ UNCHANGED <<phase, cred, digest, release, environment>>

Watch(d) ==
  /\ pc[d] \in {"watch", "watchAgain"}
  /\ Ready
  /\ Goto(d, IF pc[d] = "watch" THEN "restart" ELSE "record")
  /\ UNCHANGED <<phase, cred, digest, cluster, release, loc, environment>>

\* (mutant) The ConfigMap is left to the deployment controller to notice.
RestartSkipped(d) ==
  /\ pc[d] = "restart"
  /\ IF Present(TheDeployment) THEN Goto(d, "watchAgain") /\ UNCHANGED loc
                               ELSE End(d)
  /\ UNCHANGED <<phase, cred, digest, cluster, release, environment>>

\* RestartDeployment patches the template with the time, which no pod has.
RestartDeployment(d) ==
  /\ pc[d] = "restart"
  /\ \/ /\ Present(TheDeployment)
        /\ Annotate("latest")
        /\ Goto(d, "watchAgain")
        /\ UNCHANGED loc
     \/ ~Present(TheDeployment) /\ End(d) /\ UNCHANGED <<stamp, pods>>
  /\ UNCHANGED <<phase, cred, digest, content, release, environment>>

\* Create and Update record the digest Deploy returns; the runtime persists it.
Record(d) ==
  /\ pc[d] = "record"
  /\ digest' = [digest EXCEPT ![d] = loc[d].sum]
  /\ End(d)
  /\ UNCHANGED <<phase, cred, cluster, release, environment>>

-----------------------------------------------------------------------------
(* Undeploy *)

\* An object that is not there is no error.  The pods go with the deployment.
Removed(o) ==
  /\ content' = [content EXCEPT ![o] = Absent]
  /\ IF o = TheDeployment THEN pods' = NoPods /\ stamp' = "none"
                          ELSE UNCHANGED <<pods, stamp>>

\* (mutant) An object that is not there is an error.
RemovePresent(d, o) ==
  /\ pc[d] = "undeploy"
  /\ o \in NextOf(RemoveOrder, loc[d].todo)
  /\ \/ /\ Present(o)
        /\ Removed(o)
        /\ loc' = [loc EXCEPT ![d].todo = @ \ {o}]
        /\ Goto(d, IF loc[d].todo = {o} THEN "uninstall" ELSE "undeploy")
     \/ ~Present(o) /\ End(d) /\ UNCHANGED cluster
  /\ UNCHANGED <<phase, cred, digest, release, environment>>

RemoveObject(d, o) ==
  /\ pc[d] = "undeploy"
  /\ o \in NextOf(RemoveOrder, loc[d].todo)
  /\ Removed(o)
  /\ loc' = [loc EXCEPT ![d].todo = @ \ {o}]
  /\ Goto(d, IF loc[d].todo = {o} THEN "uninstall" ELSE "undeploy")
  /\ UNCHANGED <<phase, cred, digest, release, environment>>

\* The CRD goes, or stays for the siblings; then the finalizer goes.
Uninstall(d) ==
  /\ pc[d] = "uninstall"
  /\ phase' = [phase EXCEPT ![d] = "gone"]
  /\ End(d)
  /\ UNCHANGED <<cred, digest, cluster, release, environment>>

-----------------------------------------------------------------------------
(* Failures *)

\* (mutant) A Deploy that fails removes what it has written.
FailAndRollBack(d) ==
  /\ pc[d] # "idle"
  /\ Spend("fault")
  /\ End(d)
  /\ content' = [o \in Objects |-> IF pc[d] = "deploy" /\ o \in BundleOf(loc[d].cred) \ loc[d].todo
                                    THEN Absent ELSE content[o]]
  /\ UNCHANGED <<phase, cred, digest, stamp, pods, release>>

\* A call fails beyond its retries: the reconcile ends with what it has done.
Fail(d) ==
  /\ pc[d] # "idle"
  /\ Spend("fault")
  /\ End(d)
  /\ UNCHANGED <<phase, cred, digest, cluster, release>>

\* There is no deployment to watch, or its pods cannot start: the watch ends at
\* its timeout.
CanStart ==
  \A o \in Plain : o[1] \in {"deployment", "config", "serviceAccount"} => Present(o)
WatchTimeout(d) ==
  /\ pc[d] \in {"watch", "watchAgain"}
  /\ ~Ready /\ ~CanStart
  /\ End(d)
  /\ UNCHANGED <<phase, cred, digest, cluster, release, environment>>

-----------------------------------------------------------------------------
(* Users, the cluster and the process *)

EditCredentials(d, c) ==
  /\ phase[d] = "live" /\ cred[d] # c
  /\ Spend("edit")
  /\ cred' = [cred EXCEPT ![d] = c]
  /\ UNCHANGED <<phase, digest, cluster, release, pc, loc>>

Delete(d) ==
  /\ phase[d] = "live"
  /\ Spend("delete")
  /\ phase' = [phase EXCEPT ![d] = "terminating"]
  /\ UNCHANGED <<cred, digest, cluster, release, pc, loc>>

\* The deployment controller (external) replaces the pods when the template has
\* changed; they read their environment as they start.
Wanted == [spec |-> content[TheDeployment], stamp |-> stamp,
           config |-> content[TheConfig]]
Stale == Ready => pods.spec # Wanted.spec \/ pods.stamp # Wanted.stamp
Rollout ==
  /\ CanStart /\ Stale
  /\ pods' = Wanted
  /\ UNCHANGED <<phase, cred, digest, content, stamp, release, pc, loc, environment>>

\* Someone else changes or removes an object.
Drift(o) ==
  /\ Present(o)
  /\ Spend("drift")
  /\ \/ content[o] # Altered /\ content' = [content EXCEPT ![o] = Altered]
          /\ UNCHANGED <<pods, stamp>>
     \/ Removed(o)
  /\ UNCHANGED <<phase, cred, digest, release, pc, loc>>

\* The process ends at any point and starts again, possibly as a new release.
Restart ==
  /\ Spend("restart")
  /\ pc' = [d \in Defs |-> "idle"]
  /\ loc' = [d \in Defs |-> NoLocals]
  /\ release' \in {release, release + 1} \cap (0 .. MaxRelease)
  /\ UNCHANGED <<phase, cred, digest, cluster>>

-----------------------------------------------------------------------------

Deploy(d) == \/ \E o \in loc[d].todo : ApplyObject(d, o)
             \/ Watch(d) \/ RestartDeployment(d) \/ Record(d)
Undeploy(d) == Uninstall(d) \/ \E o \in loc[d].todo : RemoveObject(d, o)
Lookup(d) == Observe(d) \/ Compare(d) \/ \E o \in loc[d].todo : LookupObject(d, o)
Reconcile(d) == Lookup(d) \/ Deploy(d) \/ Undeploy(d) \/ WatchTimeout(d)

Next == \/ \E d \in Defs : \/ Reconcile(d) \/ Fail(d) \/ Delete(d)
                           \/ \E c \in Creds \cup {NoCred} : EditCredentials(d, c)
        \/ \E o \in Objects : Drift(o)
        \/ Rollout \/ Restart

Spec == Init /\ [][Next]_vars

\* The work queue comes back to every definition, and the deployment controller
\* works.
Fairness == WF_vars(Rollout) /\ \A d \in Defs : WF_vars(Reconcile(d))

FairSpec == Spec /\ Fairness
=============================================================================
