SPECIFICATION Spec
CONSTANTS
  WordRange = 16
  Million = 5
  NTPOffset = 8
  Threads = {"initializer", "receiver", "poll"}
  Initializer = "initializer"
  Receiver = "receiver"
  Frequency = 7
  MaxCount = 12
  WallTimes = {12, 31}
  LongRange = 1024
INVARIANTS
  TypeOK
  NoDivisionByZero
PROPERTIES
  NeverGoesBack
  ElapsedIsExact
