SPECIFICATION TextSpec
CONSTANTS
  INT = 4
  BUF = 4
  PGSIZE = 4
  Chars <- MCChars
  Pieces <- MCPieces
  PIECES = 2
  Programs <- MCPrograms
  Stores <- MCStores
  Strings <- MCStrings
  Keys <- MCKeys
  Commands <- MCCommands
INVARIANTS
  TextTypeOK
  PrintfRenders
  WritesShow
  LinesArrive
  PagesClean
  ComparesLine
