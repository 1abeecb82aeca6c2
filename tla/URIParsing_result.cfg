SPECIFICATION Spec
CONSTANTS
  Uris <- MCUris
  MaxLength = 6
  DotSize = 18
  PortSize = 6
  NoHead = NoHead
  Garbage = Garbage
INVARIANT SuccessReturnsZero
\* The call returns.
CHECK_DEADLOCK FALSE
