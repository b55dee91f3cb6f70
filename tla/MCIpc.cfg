SPECIFICATION FairSpec
CONSTANTS
  MAX_PROS = 2
  NBORN = 2
  Name <- MCName
  Body = {m1}
  NoBody = none
INVARIANTS
  TypeOK
  OnlyCurrentRuns
PROPERTIES
  NoLostWakeup
  ReadyRuns
