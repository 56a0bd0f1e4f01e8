SPECIFICATION Spec
CONSTANTS
  Leaves = {x, y, z}
  Regexps = {q}
  Codes = {c}
  Refs = {r, s, t}
  Arrays = {v}
  Hashes = {h}
  Cells = {x, r, s, t}
  Implicits = {y}
  Binaries = {z}
  Blessed = {x, y, z, q, v}
  LongNames = {v}
  MaxCells = 2
  MaxDepth = 6
  Json = FALSE
  SortKeys = TRUE
  BINARY = BINARY
  NONE = NONE
INVARIANTS TypeOK AliasesResolve SharingKept NamesUsed TagsRight ClassNamesFreed EmitWithinDepthUnsorted NotRefused
CHECK_DEADLOCK FALSE
SYMMETRY RefSymmetry
