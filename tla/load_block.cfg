SPECIFICATION LoadSpec
CONSTANTS
  Names = {a}
  Nodes = {n1, n2, n3, n4, n5}
  MaxStack = 7
  MaxDocs = 2
  MaxTokens = 8
  Openings = {"IOPEN"}
  NONE = NONE
  DEFINING = DEFINING
INVARIANTS LoadsWhatIsMeant
PROPERTIES DocumentsIndependent
CHECK_DEADLOCK FALSE
