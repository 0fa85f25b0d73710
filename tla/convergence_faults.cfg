SPECIFICATION FairSpec
CONSTANTS
  d1 = d1
  d2 = d2
  n1 = n1
  n2 = n2
  v1 = v1
  v2 = v2
  Defs = {d1}
  Namespaces = {n1}
  NsOf <- AloneNs
  Versions = {v1, v2}
  Secured = {v2}
  Vacuum = vacuum
  NoVersion = none
  Comps = {}
  MaxRelease = 1
  UidBound = 2
  Faulty = {"discovery", "crd", "established", "certs", "deploy", "rollout",
            "undeployOld", "relabel", "compositions", "undeploy", "uninstall",
            "persist"}
  MaxEdits = 2
  MaxFaults = 2
  MaxRestarts = 1
  MaxDrifts = 1
  MaxSyncs = 0
  Discipline = {}
  RequeueAfterDelete = FALSE
PROPERTIES BundlesKeepContract Convergence
\* The system rests when users are done with it.
CHECK_DEADLOCK FALSE
