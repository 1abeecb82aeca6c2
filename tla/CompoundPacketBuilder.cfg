SPECIFICATION Spec
CONSTANTS
  MaxCount = 2
  PacketSizes = {24, 100}
  ItemLengths = {6, 13}
  OtherSizes = {8}
INVARIANTS
  TypeOK
  SizeIsWhatIsWritten
  OvershootIsFirstSource
PROPERTY EstimatesAreExact
\* A packet is built once.
CHECK_DEADLOCK FALSE
