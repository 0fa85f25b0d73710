SPECIFICATION FairSpec
CONSTANTS
  d1 = d1
  d2 = d2
  s1 = s1
  Defs = {d1, d2}
  Creds = {s1}
  NoCred = none
  FirstCred <- SameCred
  Home = home
  Kinds = {"secretRole", "serviceAccount", "config", "deployment"}
  MaxRelease = 1
  Absent = absent
  Altered = altered
  NoPods = nopods
  MaxEvents = 2
INVARIANTS TypeOK Cleared
PROPERTIES SupportOrder KeepsContract BundleHeals Quiescence ControllerCurrent DeletionEnds
\* It rests when every definition is gone.
CHECK_DEADLOCK FALSE
