CONSTANTS
  Word = 16
  TIME_S_TO_MS = 1
  CHECK_INTERVAL_TIME = 2
  MAX_TIMEOUT = 3
  INI_TIMER_FIRST_SECOND = 1
  BACKGROUND_REPORT_COUNT_MAX = 2
  PlainCallers = {c1}
  TimeoutCallers = {c2}
  Seconds = {1, 3, 4}
  MaxLate = 1
SPECIFICATION FairSpec
INVARIANTS BackgroundGrace SixAfterThree TaskMatchesTimeout
PROPERTY StuckKills
CHECK_DEADLOCK FALSE
