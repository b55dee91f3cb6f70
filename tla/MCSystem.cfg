SPECIFICATION FairSysSpec
CONSTANTS
  MAX_PROS = 5
  NBORN = 4
  Name <- MCName
  Body <- Messages
  NoBody = none
  Preempted <- OutsideCriticalSections
INVARIANTS
  SysTypeOK
  OnlyCurrentRuns
  NoFault
  SleepingShellIsServed
PROPERTIES
  ImplementsConsole
  TextShown
  GetsAnswered
