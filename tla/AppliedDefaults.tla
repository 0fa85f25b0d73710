---------------------------- MODULE AppliedDefaults ----------------------------
(***************************************************************************)
(* applyDefaultsToMap as the code has it, object by object, against the    *)
(* set of fields that Admission says get a default.  What it puts into an  *)
(* object is a set of fields with their values: a visit of one field       *)
(* leaves the others alone, so they may come in any order.                 *)
(***************************************************************************)
EXTENDS ChartsAndCompositions, FiniteSets

\* A schema is a file.
ASSUME FiniteAssumption ==
  \A s \in DOMAIN Schemas : IsFiniteSet(DOMAIN Schemas[s])

Pairs(new) == {<<f, new[f]>> : f \in DOMAIN new}
Inside(v, f) == {g \in Objects!Fields(v) : Objects!Parent(g) = f}

\* (mutant) No object is made for the defaults in it.
NeverKept(f, filled) == {}

\* A missing object is put in only if something is in it.
KeptIfFilled(f, filled) == IF filled = {} THEN {} ELSE filled \cup {<<f, Map>>}

\* What becomes of a field when what would be put into it, or into the object
\* made for it, is filled.
Visited(v, spec, f, filled) ==
  IF f \in DOMAIN spec THEN IF spec[f] = Map THEN filled ELSE {}
  ELSE IF Objects!HasDefault(v, f) THEN Pairs(Objects!Defaulted(v, f))
  ELSE IF Objects!Field(v, f).object THEN KeptIfFilled(f, filled) ELSE {}

\* What is put into a spec.
Applied(v, spec) ==
  LET visit[f \in Objects!Fields(v)] ==
        Visited(v, spec, f, UNION {visit[g] : g \in Inside(v, f)})
  IN UNION {visit[f] : f \in Inside(v, <<>>)}

\* The code descends into objects, and makes the missing ones before it is known
\* whether anything goes into them; the defaults that come of it are the ones
\* that are due, in the objects that are around them, and nothing else changes.
DefaultsAsApplied ==
  \A v \in Objects!Served :
    \A spec \in IF obj = NoObject THEN Objects!Specs(v) ELSE {obj.spec} :
      Pairs(Objects!Populated(v, spec)) = Pairs(spec) \cup Applied(v, spec)
=============================================================================
