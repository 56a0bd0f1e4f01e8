SPECIFICATION Spec
CONSTANTS
  Names = {a}
  Nodes = {n1, n2, n3}
  MaxStack = 6
  MaxDocs = 2
  NONE = NONE
  DEFINING = DEFINING
INVARIANTS TypeOK NoDanglingNode NoDoubleFree EveryNameOwned OwnershipInv NoLostNode ReclaimedAtEnd
PROPERTIES AnchoredNodesSurvive
CHECK_DEADLOCK FALSE
SYMMETRY NodeSymmetry
