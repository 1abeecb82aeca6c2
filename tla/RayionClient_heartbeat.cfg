SPECIFICATION FairSpec
CONSTANTS
  TimerLimit = 6
  RTPAddress = RTPAddress
  NULL = NULL
PROPERTY HeartBeatSent
CHECK_DEADLOCK FALSE
