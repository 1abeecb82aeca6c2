SPECIFICATION MCSpec
CONSTANTS
  Keys = {"k1", "k2", "k3", "k4", "k5"}
  hashsize = 2
  GetIndex <- MCGetIndex
  Addr = {x1, x2, x3, x4}
  Null = Null
  Unset = Unset
SYMMETRY MCSymmetry
INVARIANTS
  TypeOK
  ChainsComplete
  ListComplete
  CurrentUsable
PROPERTY ImplementsOrderedTable
