SPECIFICATION FairSpec
CONSTANTS
  d1 = d1
  d2 = d2
  n1 = n1
  n2 = n2
  v1 = v1
  v2 = v2
  Defs = {d1, d2}
  Namespaces = {n1}
  NsOf <- TogetherNs
  Versions = {v1, v2}
  Secured = {v2}
  Vacuum = vacuum
  NoVersion = none
  Comps = {}
  MaxRelease = 0
  UidBound = 2
  Faulty = {}
  MaxEdits = 1
  MaxFaults = 0
  MaxRestarts = 0
  MaxDrifts = 0
  MaxSyncs = 0
  Discipline = {}
  RequeueAfterDelete = FALSE
PROPERTIES Convergence
\* The system rests when users are done with it.
CHECK_DEADLOCK FALSE
