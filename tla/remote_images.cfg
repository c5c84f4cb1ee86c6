SPECIFICATION Spec
CONSTANTS
  Threads = {t1, t2}
  Ids = {i}
  Absent = Absent
  Null = Null
  Hosts = 2
  Size = 2
  MaxPolls = 2
  Faults = {"connect", "empty", "broken", "pairtree"}
  MaxRequests = 3
  MaxCrashes = 1
  MaxFaults = 2
INVARIANTS
  ListMatchesDownloads
  QuietFilesAreComplete
PROPERTIES
  StoredForGood
  EveryRequestReturns
CHECK_DEADLOCK FALSE
