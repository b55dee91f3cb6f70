SPECIFICATION UMSpec
CONSTANTS
  s1 = s1
  s2 = s2
  WORDS = 2
  KERNBASE = 2
  ETEXT = 3
  END = 4
  PHYSTOP = 13
  PGSIZE = 2
  MAXSIZE = 5
  Spaces <- MCSpaces
  Data <- MCData
INVARIANTS
  UMTypeOK
  EachPageOnce
  NoMemoryPanic
PROPERTY
  ImplementsAddressSpaces
VIEW UpToPages
