SPECIFICATION Spec
CONSTANTS
  Leaves = {}
  Regexps = {}
  Codes = {}
  Refs = {r, s, t}
  Arrays = {v, w}
  Hashes = {}
  Cells = {r, s, t}
  Implicits = {}
  Binaries = {}
  Blessed = {}
  LongNames = {}
  MaxCells = 2
  MaxDepth = 5
  Json = TRUE
  SortKeys = FALSE
  BINARY = BINARY
  NONE = NONE
INVARIANTS EmitWithinDepth
CHECK_DEADLOCK FALSE
