SPECIFICATION Spec
CONSTANTS
  Leaves = {}
  Regexps = {}
  Codes = {c}
  Refs = {r, s}
  Arrays = {v}
  Hashes = {}
  Cells = {r, s}
  Implicits = {}
  Binaries = {}
  Blessed = {c, v}
  LongNames = {}
  MaxCells = 2
  MaxDepth = 9
  Json = FALSE
  SortKeys = FALSE
  BINARY = BINARY
  NONE = NONE
INVARIANTS StringsFreedOnCroak
CHECK_DEADLOCK FALSE
