SPECIFICATION FairSpec
CONSTANTS
  Leaves = {x}
  Regexps = {}
  Codes = {}
  Refs = {r, s, t}
  Arrays = {v}
  Hashes = {h}
  Cells = {x, r, s, t}
  Implicits = {}
  Binaries = {}
  Blessed = {}
  LongNames = {}
  MaxCells = 2
  MaxDepth = 6
  Json = TRUE
  SortKeys = FALSE
  BINARY = BINARY
  NONE = NONE
INVARIANTS NoCycleWritten
PROPERTIES Termination
CHECK_DEADLOCK FALSE
