SPECIFICATION FairCSSpec
CONSTANTS
  MAX_PROS = 3
  NBORN = 3
  Name <- MCName
  Body = {m1}
  NoBody = none
  Servers = {1}
PROPERTIES
  EveryPlaceServed
