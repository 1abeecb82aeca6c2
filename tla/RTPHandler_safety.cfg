SPECIFICATION Spec
CONSTANTS
  SSRCs = {"a", "b"}
  OwnSSRC = "own"
  a1 = a1
  a2 = a2
  a2dup = a2dup
  a3 = a3
  b1 = b1
  Packets = {a1, a2, a2dup, a3, b1}
  SourceOf <- MCSourceOf
  ExtSeqNr <- MCExtSeqNr
  PayloadLength <- MCPayloadLength
  RTP_PROBATIONCOUNT = 2
  NULL = NULL
SYMMETRY CopiesAlike
INVARIANTS
  TypeOK
  SingleOwner
  DrainedAtEnd
  CursorValid
  BatchInOrder
  OnlyFailedWritesAreMissing
