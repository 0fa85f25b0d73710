--------------------------- MODULE BundleProperties ---------------------------
(***************************************************************************)
(* What Deploy, Lookup and Undeploy promise together, object by object,    *)
(* for definitions that share a bundle and may delete it under each other. *)
(***************************************************************************)
EXTENDS ControllerBundle

Uninterrupted == past \cap {"fault", "restart"} = {}

(* Order *)

\* A deployment that is there without its configuration or its rights.
Orphaned == /\ Present(TheDeployment)
            /\ \E o \in Plain : o[1] \in Rights \cup {"config"} /\ ~Present(o)

\* Deploy writes the deployment after all it needs and Undeploy removes it
\* before, from whatever state an interrupted one has left: only a drift leaves
\* pods without their configuration or rights, while no definition is deleted
\* next to another one that uses the bundle.
SupportOrder ==
  [][(~Orphaned /\ Orphaned' /\ "drift" \notin past')
       => ~ \/ \A d \in Defs : phase[d] = "live"
            \/ \E d \in Defs : /\ pc[d] = "undeploy"
                               /\ \A e \in Defs \ {d} : phase[e] = "gone"]_vars

\* When all definitions are gone nothing of the bundle is left, in whatever order
\* their Deploys and Undeploys ran and stopped; except for rights to read the
\* secrets of credentials that were edited away, which Undeploy does not know.
Cleared ==
  (\A d \in Defs : phase[d] = "gone") =>
     \A o \in Objects : Present(o) => o[1] \in SecretKinds /\ "edit" \in past

-----------------------------------------------------------------------------
(* Healing *)

AsRendered(o) == IF o[1] \in {"serviceAccount", "jsonSchema"}
                   THEN Present(o) ELSE content[o] = release
Healthy(d) == \A o \in BundleOf(cred[d]) : AsRendered(o)

\* Observe cannot get past Lookup: the rendered digest is the recorded one, so
\* it looks, and finds no secret role.
Blocked(d) == /\ digest[d] = Expected(cred[d], release)
              /\ \E o \in BundleOf(cred[d]) : o[1] \in SecretKinds /\ ~Present(o)

\* Out-of-band changes, deletions by siblings, interrupted Deploys and new
\* releases are all repaired in the end, unless the definition is blocked.
BundleHeals == \A d \in Defs : <>[](phase[d] = "live" => Healthy(d) \/ Blocked(d))

\* Reconciling comes to rest: the restart that every Deploy makes is not seen as
\* a change by the next Observe, nor one definition's Deploy by the others.
Quiescence ==
  <>[](\A d \in Defs : pc[d] \in {"idle", "lookup"})

\* The pods run in the end with the template and the configuration that the
\* bundle holds, although nothing but the restart tells them of a new
\* configuration.  A Deploy that stops between writing the configuration and
\* the deployment leaves no trace for the next Observe: so not after faults.
ControllerCurrent ==
  <>[]((\E d \in Defs : phase[d] = "live" /\ Healthy(d)) /\ Uninterrupted
         => pods # NoPods /\ pods.spec = content[TheDeployment]
                          /\ pods.config = content[TheConfig])

\* A definition being deleted goes in the end, unless it is blocked.
DeletionEnds == \A d \in Defs : <>[](phase[d] = "terminating" => Blocked(d))

-----------------------------------------------------------------------------
(* The abstract bundle *)

BundleState == IF \A o \in Plain : ~Present(o) THEN "absent"
               ELSE IF \A o \in Plain : AsRendered(o) THEN "full" ELSE "broken"
At(stage) == {d \in Defs : pc[d] = stage}

Contract == INSTANCE BundleContract WITH
  Users <- Defs, state <- BundleState,
  deploying <- At("deploy"), undeploying <- At("undeploy"), outside <- outside

\* The objects together behave as the bundle that the definitions rely on: a
\* Deploy never takes away, not even when it fails, and nothing but a Deploy
\* completes the bundle.
KeepsContract == Contract!Spec
=============================================================================
