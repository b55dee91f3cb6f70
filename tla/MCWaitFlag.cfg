SPECIFICATION MsgSpec
CONSTANTS
  MAX_PROS = 3
  NBORN = 2
  Name <- MCName
  Body = {m1, m2}
  NoBody = none
INVARIANT
  WaitingSleeps
