SPECIFICATION FairSpec
CONSTANTS
  TimerLimit = 20
  RTPAddress = RTPAddress
  NULL = NULL
INVARIANTS
  TypeOK
  ParamsValid
  SocketUsable
  CleanExit
PROPERTIES
  StartedThreadsRun
  HeartBeatDueRecurs
\* The process ends when the server cannot be reached, and main may be left
\* spinning with no other thread.
CHECK_DEADLOCK FALSE
