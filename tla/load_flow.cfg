SPECIFICATION LoadSpec
CONSTANTS
  Names = {a, b}
  Nodes = {n1, n2, n3, n4}
  MaxStack = 7
  MaxDocs = 1
  MaxTokens = 6
  Openings = {"LBRACKET", "LBRACE"}
  NONE = NONE
  DEFINING = DEFINING
INVARIANTS LoadTypeOK LoadsWhatIsMeant SharedNotCopied PendingExact
SYMMETRY NameSymmetry
CHECK_DEADLOCK FALSE
