SPECIFICATION FairSpec
CONSTANTS
  d1 = d1
  d2 = d2
  n1 = n1
  n2 = n2
  v1 = v1
  v2 = v2
  Defs = {d1}
  Namespaces = {n1}
  NsOf <- AloneNs
  Versions = {v1, v2}
  Secured = {}
  Vacuum = vacuum
  NoVersion = none
  Comps = {c1}
  MaxRelease = 0
  UidBound = 2
  Faulty = {"relabel"}
  MaxEdits = 1
  MaxFaults = 1
  MaxRestarts = 0
  MaxDrifts = 0
  MaxSyncs = 0
  Discipline = {"editSettled", "deleteSettled", "quietDelete", "currentVersion"}
  RequeueAfterDelete = TRUE
PROPERTIES CompositionsServed
\* The system rests when users are done with it.
CHECK_DEADLOCK FALSE
