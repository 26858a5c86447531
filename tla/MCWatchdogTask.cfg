CONSTANTS
  CheckInterval = 2
  LOW_MEMORY_CHECK_WINDOW = 3
  MAX_LOW_MEMORY_FREEZE_TIME = 4
  SUSPEND_THRESHOLD = 1
  Configs <- AllConfigs
  timeLimit = 2
  countLimit = 2
  MaxTriggers = 6
  MaxTime = 8
  BINDER_SPACE_FULL_MIN_COUNT = 2
  BINDER_SPACE_FULL_MAX_COUNT = 3
  BINDER_SPACE_FULL_WARNING_MULTIPLE = 3
  TotalSize = 10
  XCOLLIE_CALLBACK_HISTORY_MAX = 3
  XCOLLIE_CALLBACK_TIMEWIN_MAX = 5
  LEFT_TIME_EXIT_ALARM_SECONDS = 4
  DelayBeforeExit = 3
  COLLECT_TRACE_MAX = 2
  COLLECT_TRACE_MIN = 1
  ONE_DAY_LIMIT = 2
  OtherTasks = TRUE
  MaxJobs = 2
  MaxSessions = 3
  MaxDay = 4
SPECIFICATION FairSpec
INVARIANTS ReportsExact ReportRate OneDumpPerDay DumpHasOpenTrace
PROPERTIES BlockEarned HangIsFound  CloggedKills RecoveryExits SessionEnds
CHECK_DEADLOCK FALSE
