\* The program's times in units of five seconds; a device that answers a ping
\* within fifteen seconds.
SPECIFICATION KALiveSpec
CONSTANTS
  PingInterval = 6
  ReadWait = 12
  WriteWait = 2
  MaxAnswer = 3
INVARIANTS
  AnsweringIsKept
PROPERTIES
  DeadIsCut
\* The handler returns in the end.
CHECK_DEADLOCK FALSE
