SPECIFICATION Spec
CONSTANTS
  ByteRange = 16
  CompoundPackets <- MCCompoundPackets
INVARIANTS
  TypeOK
  ItemIsWhatWasSent
  PRIVSharesOutItem
  ReportsAreWhatWasSent
PROPERTY IteratesOverWhatWasSent
