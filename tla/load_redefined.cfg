SPECIFICATION LoadSpec
CONSTANTS
  Names = {a}
  Nodes = {n1, n2, n3, n4}
  MaxStack = 5
  MaxDocs = 1
  MaxTokens = 6
  Openings = {"LBRACKET"}
  NONE = NONE
  DEFINING = DEFINING
INVARIANTS RedefinedAnchors
CHECK_DEADLOCK FALSE
