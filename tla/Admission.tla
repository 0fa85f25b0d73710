------------------------------- MODULE Admission -------------------------------
(***************************************************************************)
(* What core-provider's webhooks do to a Composition on its way to the     *)
(* API server and back: the mutating webhook fills in the defaults of the  *)
(* version's schema and labels new objects with their version; the         *)
(* conversion webhook copies an object from one version to another.        *)
(*                                                                         *)
(* A spec is a function from the paths of its fields to their values, and  *)
(* to Map for the objects among them.  The defaults the API server itself  *)
(* applies are left out.                                                   *)
(***************************************************************************)
EXTENDS Naturals, Sequences

CONSTANTS Schemas,  \* values schemas: their fields, with their defaults
          Values,   \* what users write into fields
          Map,      \* the value of a field that is an object
          NoDefault,
          NoObject

VARIABLES obj,    \* the Composition in the API server
          asked,  \* what users have written into its spec and not taken back
          crd     \* the values schema of each version of the CRD

vars == <<obj, asked, crd>>

-----------------------------------------------------------------------------
(* Defaults *)

\* A field of a schema is [object, default]; the default of an object lists the
\* fields in it by path, the one of an array has its items in it already.
Served == DOMAIN crd
Fields(v) == DOMAIN Schemas[crd[v]]
Field(v, f) == Schemas[crd[v]][f]
\* The objects a field is in.
Around(f) == {SubSeq(f, 1, n) : n \in 1 .. Len(f) - 1}
Parent(f) == SubSeq(f, 1, Len(f) - 1)
HasDefault(v, f) == Field(v, f).default # NoDefault
\* The field with the default of it.
Defaulted(v, f) ==
  IF Field(v, f).object
    THEN [g \in DOMAIN Field(v, f).default \cup {f} |->
            IF g = f THEN Map ELSE Field(v, f).default[g]]
    ELSE [g \in {f} |-> Field(v, f).default]
With(new, spec) == [f \in DOMAIN spec \cup DOMAIN new |->
                      IF f \in DOMAIN new THEN new[f] ELSE spec[f]]

\* (mutant) A default goes over a value of the user's.
DueAnyway(v, spec) ==
  {f \in Fields(v) : /\ HasDefault(v, f)
                     /\ f \in DOMAIN spec => ~Field(v, f).object
                     /\ \A g \in Around(f) : IF g \in DOMAIN spec THEN spec[g] = Map
                                             ELSE ~HasDefault(v, g)}

\* (mutant) Objects that are there are left as they are.
DueAtTop(v, spec) ==
  {f \in Fields(v) : /\ HasDefault(v, f) /\ f \notin DOMAIN spec
                     /\ \A g \in Around(f) : g \notin DOMAIN spec /\ ~HasDefault(v, g)}

\* applyDefaultsToMap descends into objects that are there, and into missing
\* ones that have no default of their own: the fields it gives their default.
Due(v, spec) ==
  {f \in Fields(v) : /\ HasDefault(v, f) /\ f \notin DOMAIN spec
                     /\ \A g \in Around(f) : IF g \in DOMAIN spec THEN spec[g] = Map
                                             ELSE ~HasDefault(v, g)}

\* PopulateDefaultsFromCRD: defaults as they are, and the objects around them.
Populated(v, spec) ==
  LET due == Due(v, spec)
      made == (UNION {Around(f) : f \in due}) \ DOMAIN spec
      given == UNION {DOMAIN Defaulted(v, f) : f \in due}
      Giver(g) == CHOOSE f \in due : g \in DOMAIN Defaulted(v, f)
  IN [g \in DOMAIN spec \cup made \cup given |->
        IF g \in given THEN Defaulted(v, Giver(g))[g]
        ELSE IF g \in made THEN Map ELSE spec[g]]

-----------------------------------------------------------------------------
(* Requests *)

\* The conversion webhook: metadata, spec and status as they are, whatever
\* fields the other version has.
Converted(spec, v) == spec

\* (external) The API server drops what the version's schema does not have.
Pruned(v, spec) == [f \in DOMAIN spec \cap Fields(v) |-> spec[f]]

Specs(v) == {spec \in UNION {[F -> Values \cup {Map}] : F \in SUBSET Fields(v)} :
               \A f \in DOMAIN spec : /\ spec[f] = Map <=> Field(v, f).object
                                      /\ Around(f) \subseteq DOMAIN spec}

Init == obj = NoObject /\ asked = <<>> /\ crd = <<>>

\* Any label of the request is overwritten.
Create(v, spec) ==
  /\ obj' = [spec |-> Populated(v, spec), label |-> v]
  /\ asked' = spec
  /\ UNCHANGED crd

\* Users and controllers read and write the whole object, in any version.
Sent(v, spec) ==
  /\ obj' = [obj EXCEPT !.spec = Populated(v, Pruned(v, spec))]
  /\ UNCHANGED crd
InVersion(v) == Converted(obj.spec, v)

Touch(v) == Sent(v, InVersion(v)) /\ UNCHANGED asked

Set(v, f, x) ==
  /\ ~Field(v, f).object /\ Parent(f) \in DOMAIN obj.spec \cup {<<>>}
  /\ Sent(v, With([g \in {f} |-> x], InVersion(v)))
  /\ asked' = With([g \in {f} |-> x], asked)

\* A field goes with all that is in it.
Without(f, spec) ==
  [g \in {h \in DOMAIN spec : f \notin Around(h) \cup {h}} |-> spec[g]]
Unset(v, f) ==
  /\ f \in DOMAIN obj.spec
  /\ Sent(v, Without(f, InVersion(v)))
  /\ asked' = Without(f, asked)

\* AppendVersion: a version that is there keeps its schema.
Offer(v, s) ==
  /\ crd' = IF v \in Served THEN crd ELSE [w \in Served \cup {v} |-> IF w = v THEN s ELSE crd[w]]
  /\ UNCHANGED <<obj, asked>>

\* UpdateCompositionsVersion writes through the old version.
Relabel(v, w) ==
  /\ obj.label = v
  /\ obj' = [spec |-> Populated(v, Pruned(v, InVersion(v))), label |-> w]
  /\ UNCHANGED <<asked, crd>>

Write ==
  \E v \in Served :
    \/ obj = NoObject /\ \E spec \in Specs(v) : Create(v, spec)
    \/ obj # NoObject /\ \/ Touch(v)
                         \/ \E f \in Fields(v) : Unset(v, f) \/ \E x \in Values : Set(v, f, x)
                         \/ \E w \in Served \ {v} : Relabel(v, w)
=============================================================================
