SPECIFICATION ServiceSpec
CONSTANTS
  Keys <- MCKeys
  Paths <- MCPaths
  Null = Null
  Absent = Absent
  Empty = Empty
  max_cache = 1
  Threads = {t1, t2}
  Regions = {r1, whole}
  Whole = {whole}
  Dims = {}
  Factors = {half}
  Ones = {one}
  ExceptionFactors = {}
  Full = full
  Faults = {"record", "decode", "exec"}
  MaxRequests = 3
INVARIANTS
  EntriesHoldTheirTile
  ServedTileIsRequested
  SimultaneousBranchIsSafe
PROPERTIES
  EveryRequestAnswered
CHECK_DEADLOCK FALSE
