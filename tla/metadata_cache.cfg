SPECIFICATION Spec
CONSTANTS
  Threads = {t1, t2, t3}
  Clients = 2
  Ids = {i, missing}
  Images = {i}
  Null = Null
  Absent = Absent
  Empty = Empty
  MaxRequests = 4
  MaxFaults = 1
  MaxCrashes = 1
INVARIANTS
  InfoIsRight
  AloneFindsImage
PROPERTIES
  MetadataStays
  EveryInfoAnswered
CHECK_DEADLOCK FALSE
