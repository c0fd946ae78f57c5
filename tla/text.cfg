SPECIFICATION LiveSpec
CONSTANTS
  SizeMod = 64
  MaxSize = 31
  MaxArray = 34
  Chars <- AllChars
  NUL = NUL
  Unwritten = Unwritten
  CharMod = 4
  IntMod = 16
  IntegerBuffer = 8
  PointerDigits = 1
  Characters <- SmallCharacters
  Strings <- SmallStrings
  Calls <- AllCalls
  Statuses <- TwoStatuses
  ColumnCells = 64
  TmpSize = 24
  HalfMod = 4
  MaxVblanks = 6
INVARIANTS WithinSize Terminated Standard StaysInFormat Shown
PROPERTIES WaitsForVblank WaitEnds
