SPECIFICATION Spec
CONSTANTS
  Blocks = {b1, b2, b3, b4}
  Null = Null
  Items = {"NOTE"}
  NoteItem = "NOTE"
  MaxItemLength = 2
  Lengths = {0, 2, 3}
  MaxTime = 2
SYMMETRY MCSymmetry
INVARIANTS
  TypeOK
  OneOwner
  ReportsInOrder
CHECK_DEADLOCK FALSE
