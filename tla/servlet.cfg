SPECIFICATION ServletSpec
CONSTANTS
  Keys <- MCKeys
  Paths <- MCPaths
  Null = Null
  Absent = Absent
  Empty = Empty
  max_cache = 1
  Threads = {t1, t2}
  Regions = {r1}
  Whole = {}
  Dims = {d}
  Factors = {half}
  Ones = {}
  ExceptionFactors = {}
  Full = full
  Faults = {"decode"}
  MaxRequests = 3
  Sessions = {s1, s2}
  Debug = FALSE
INVARIANTS
  StoredTilesAreRight
  SentTileIsRequested
  AnsweredTilesAreStored
  NothingRefusedOrForgotten
SYMMETRY UserSymmetry
CHECK_DEADLOCK FALSE
