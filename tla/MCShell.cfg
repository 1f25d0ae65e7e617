SPECIFICATION Spec
CONSTANTS
  Proc = {1, 2, 3, 4, 5, 6}
  NFILE = 5
  NOFILE = 5
  NPAGE = 2
  PIPESIZE = 1
  FileSize = 1
  None = None
  MAXARGS = 4
  Lines <- MCLines
  RunLines <- MCRunLines
  MaxTyped = 1
INVARIANTS RefsExact NoNestedOp ParserExact Wired
PROPERTIES CommandsFinish
CHECK_DEADLOCK FALSE
