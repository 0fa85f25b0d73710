----------------------------- MODULE MCReconcile -----------------------------
EXTENDS ReconcileProperties, TLC
CONSTANTS d1, d2, n1, n2
ApartNs == (d1 :> n1) @@ (d2 :> n2)
\* Versions are interchangeable, and so are the two definitions with their
\* namespaces.
CONSTANTS v1, v2
Keep == [x \in {d1, d2, n1, n2} |-> x]
Swap == (d1 :> d2) @@ (d2 :> d1) @@ (n1 :> n2) @@ (n2 :> n1)
ApartSymmetry == {p @@ q : p \in Permutations({v1, v2}), q \in {Keep, Swap}}
TogetherNs == (d1 :> n1) @@ (d2 :> n1)
AloneNs == d1 :> n1
=============================================================================
