SPECIFICATION Spec
CONSTANTS
  Workers = {w1}
  Refresher = refresher
  CRDs = {c1}
  Anchor = anchor
  Serials = {1, 2, 3, 4, 5, 6}
  NoSerial = 0
  Duration = 6
  Margin = 1
  Interval = 1
  Faulty = {"csr", "sign", "rename", "propagate"}
  MaxFaults = 2
  MaxRestarts = 1
  MaxCollections = 1
INVARIANTS TypeOK BundleServable NeverExpired
