---------------------------- MODULE BundleContract ----------------------------
(***************************************************************************)
(* What definitions may rely on of the controller bundle of one namespace  *)
(* and version: is it there, in part, or complete as rendered?  Several    *)
(* definitions may be deploying and undeploying it at once.                *)
(*                                                                         *)
(* Only somebody who deploys completes it, and nobody who deploys takes    *)
(* away from a complete one; only somebody who undeploys takes objects     *)
(* away, except for outsiders and new releases of core-provider, who       *)
(* count as the input `outside': it changes when they interfere.           *)
(***************************************************************************)
CONSTANT Users

VARIABLES state, deploying, undeploying, outside

vars == <<state, deploying, undeploying>>

States == {"absent", "broken", "full"}

TypeOK == /\ state \in States
          /\ deploying \subseteq Users /\ undeploying \subseteq Users

Init == state = "absent" /\ deploying = {} /\ undeploying = {}

Begin(d) ==
  /\ d \notin deploying \cup undeploying
  /\ \/ deploying' = deploying \cup {d} /\ UNCHANGED undeploying
     \/ undeploying' = undeploying \cup {d} /\ UNCHANGED deploying
  /\ UNCHANGED state

\* An object is written; d may be done with it, or give up.
Write(d) ==
  /\ d \in deploying
  /\ deploying' \in {deploying, deploying \ {d}}
  /\ state' \in {state, "full"} \cup (IF state = "absent" THEN {"broken"} ELSE {})
  /\ UNCHANGED undeploying

Remove(d) ==
  /\ d \in undeploying
  /\ undeploying' \in {undeploying, undeploying \ {d}}
  /\ state' \in {state, "absent"} \cup (IF state = "full" THEN {"broken"} ELSE {})
  /\ UNCHANGED deploying

\* Somebody else changes or removes an object.
Disturb ==
  /\ outside' # outside
  /\ state # "absent"
  /\ state' \in {"broken", "absent"}
  /\ UNCHANGED <<deploying, undeploying>>

\* The process ends, with whatever its users had done by then, and the next
\* release may render another bundle.
Restart ==
  /\ outside' # outside
  /\ deploying' = {} /\ undeploying' = {}
  /\ \/ UNCHANGED state
     \/ state # "absent" /\ state' = "broken"
     \/ state = "absent" /\ deploying # {} /\ state' = "broken"

Next == (\E d \in Users : Begin(d) \/ Write(d) \/ Remove(d)) \/ Disturb \/ Restart

Spec == Init /\ [][Next]_vars
=============================================================================
