SPECIFICATION FairAll
CONSTANTS
  v1 = v1
  v2 = v2
  s1 = s1
  s2 = s2
  none = none
  one = one
  NoData = nodata
  NoDefault = none
  NoObject = noobject
  Map = map
  Values = {zero}
  Schemas <- SomeSchemas
  Archives <- SomeArchives
  Attempts = 5
  InitialDelay = 1
  MaximumDelay = 3
INVARIANTS TypeOK ReadAsExtracted VersionsMatchCharts UserValuesKept DefaultsSettle DefaultsAsApplied
PROPERTIES Backoff FetchEnds
