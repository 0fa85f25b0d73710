SPECIFICATION Spec
CONSTANTS
  Workers = {w1}
  Refresher = refresher
  CRDs = {c1}
  Anchor = anchor
  Serials = {1, 2, 3, 4, 5, 6}
  NoSerial = 0
  Duration = 3
  Margin = 1
  Interval = 1
  Faulty = {}
  MaxFaults = 0
  MaxRestarts = 0
  MaxCollections = 0
PROPERTIES BundleNotRolledBack
