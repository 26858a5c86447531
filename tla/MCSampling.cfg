CONSTANTS
  SAMPLE_COUNT = 2
  DETECT_STACK_COUNT = 2
  TARGET_COUNT = 2
  REPORT_TIMES = 2
  Families <- AloneAndPairs
  LibraryMayFail = TRUE
SPECIFICATION Spec
INVARIANTS GateMatchesTask LastOneUnloads BudgetKept
PROPERTIES SessionEnds
