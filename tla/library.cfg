SPECIFICATION LibrarySpec
CONSTANTS
  NULL = NULL
  Junk = Junk
  Nodes = {n1, n2, n3, n4}
  MaxMissed = 1
  Lists <- MCBuckets
  Keys <- MCKeys
  Values <- MCValues
  hashsize = 2
  hashfun <- MCHash
  Data <- MCData
  Width = 16
  Counts = {0, 1, 2, 3, 9}
  ItemSizes = {1, 2, 3}
  Strings = {s1, s2}
  Lengths = {1, 2, 3, 5}
  Requests = {1, 2, 3, 4, 7, 12}
  Header = 4
  CSTR_MAX_PREALLOC = 8
SYMMETRY NodeSymmetry
INVARIANTS
  Linked
  
  TextKept
PROPERTIES
  ImplementsMultiMap
CHECK_DEADLOCK FALSE
