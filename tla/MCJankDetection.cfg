CONSTANTS
  SAMPLE_INTERVAL_MIN = 1
  SAMPLE_INTERVAL_MAX = 2
  SAMPLE_COUNT_MIN = 1
  SAMPLE_REPORT_TIMES_MIN = 1
  SAMPLE_REPORT_TIMES_MAX = 2
  IGNORE_STARTUP_TIME_MIN = 1
  SAMPLE_EXTRA_COUNT = 2
  MAX_SAMPLE_STACK_TIMES = 6
  SAMPLE_DEFAULT_INTERVAL = 1
  SAMPLE_DEFAULT_COUNT = 3
  SAMPLE_DEFAULT_REPORT_TIMES = 1
  DEFAULT_IGNORE_STARTUP_TIME = 1
  SAMPLE_STACK_MAP_SIZE = 5
  DETECT_STACK_COUNT = 2
  DUMPTRACE_TIME = 3
  AUTO_STOP_CHECKER_INTERVAL = 3
  ONE_HOUR_LIMIT = 2
  ONE_DAY_LIMIT = 4
  MINUTE = 3
  Main = "main"
  Setups <- MCSetups
  MaxConfigs = 2
  MaxAgain = 1
SPECIFICATION Spec
INVARIANTS SessionFits BudgetPerPeriod
PROPERTY JankHasCause
