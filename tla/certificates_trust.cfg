SPECIFICATION FairSpec
CONSTANTS
  Workers = {w1}
  Refresher = refresher
  CRDs = {c1, c2}
  Anchor = anchor
  Serials = {1, 2, 3, 4, 5, 6, 7}
  NoSerial = 0
  Duration = 4
  Margin = 1
  Interval = 1
  Faulty = {"csr", "sign", "rename", "propagate", "read"}
  MaxFaults = 1
  MaxRestarts = 0
  MaxCollections = 0
PROPERTIES TrustRecurs
