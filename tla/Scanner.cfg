CONSTANTS
  Tree <- MCTree
  Users <- MCUsers
  CharOrder <- MCCharOrder
  Values <- MCValues
  Outputs <- MCOutputs
  Texts <- MCTexts
  YY_BUF_SIZE = 7
  YY_READ_BUF_SIZE = 3
  YYLMAX = 6
CHECK_DEADLOCK FALSE
SPECIFICATION Spec
PROPERTIES
  ImplementsShellWords
  ScanEnds
  LineBeforeRead
