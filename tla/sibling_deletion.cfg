SPECIFICATION Spec
CONSTANTS
  d1 = d1
  d2 = d2
  n1 = n1
  n2 = n2
  v1 = v1
  v2 = v2
  Defs = {d1, d2}
  Namespaces = {n1, n2}
  NsOf <- ApartNs
  Versions = {v1, v2}
  Secured = {}
  Vacuum = vacuum
  NoVersion = none
  Comps = {}
  MaxRelease = 0
  UidBound = 2
  Faulty = {}
  MaxEdits = 0
  MaxFaults = 0
  MaxRestarts = 0
  MaxDrifts = 0
  MaxSyncs = 0
  Discipline = {"editSettled", "deleteSettled"}
  RequeueAfterDelete = FALSE
PROPERTIES CRDKeptForSiblings
\* The system rests when users are done with it.
CHECK_DEADLOCK FALSE
