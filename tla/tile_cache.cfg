SPECIFICATION HistorySpec
CONSTANTS
  Keys = {a, b, c}
  Paths = {f1, f2, f3}
  Null = Null
  Absent = Absent
  Empty = Empty
  max_cache = 2
INVARIANTS
  SizeBounded
  FilesMatchKeys
PROPERTIES
  ImplementsLRU
