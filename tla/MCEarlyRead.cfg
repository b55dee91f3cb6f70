SPECIFICATION SysSpec
CONSTANTS
  MAX_PROS = 5
  NBORN = 4
  Name <- MCName
  Body <- Messages
  NoBody = none
  Preempted <- Everywhere
INVARIANT
  GetsReturnsLine
CHECK_DEADLOCK FALSE
