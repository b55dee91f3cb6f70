SPECIFICATION BootSpec
CONSTANTS
  WORDS = 8
  KERNBASE = 2
  ETEXT = 4
  END = 6
  PHYSTOP = 62
  PGSIZE = 1
  BLOCK = 4
  DIGITS = 3
  MAX_PROS = 6
  servers <- MCServers
  Starts <- MCStarts
INVARIANTS
  BootTypeOK
  KernelMap
  ProcessMap
  PagesApart
  HandsOver
  FindsFirst
PROPERTY
  SearchEnds
CHECK_DEADLOCK FALSE
