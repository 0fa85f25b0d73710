------------------------------- MODULE MCBundle -------------------------------
EXTENDS BundleProperties, TLC
CONSTANTS d1, d2, s1
SameCred == d1 :> s1 @@ d2 :> s1
=============================================================================
