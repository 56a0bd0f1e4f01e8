SPECIFICATION LoadSpec
CONSTANTS
  Names = {a}
  Nodes = {n1, n2, n3, n4, n5}
  MaxStack = 6
  MaxDocs = 1
  MaxTokens = 7
  Openings = {"IOPEN"}
  NONE = NONE
  DEFINING = DEFINING
INVARIANTS CircularMappings
CHECK_DEADLOCK FALSE
