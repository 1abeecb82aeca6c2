SPECIFICATION FairSpec
CONSTANTS
  Uris <- MCUris
  MaxLength = 6
  DotSize = 18
  PortSize = 6
  NoHead = NoHead
  Garbage = Garbage
INVARIANTS
  TypeOK
  AddressIsBeforeColon
  PortLiesOverEarlierOnes
PROPERTY Terminates
\* The call returns.
CHECK_DEADLOCK FALSE
