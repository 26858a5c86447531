CONSTANTS
  Word = 1024
  TIME_S_TO_MS = 10
  CHECK_INTERVAL_TIME = 30
  MAX_TIMEOUT = 150
  INI_TIMER_FIRST_SECOND = 30
  BACKGROUND_REPORT_COUNT_MAX = 5
  PlainCallers = {}
  TimeoutCallers = {c1}
  Seconds = {2, 3, 15, 16, 107}
  MaxLate = 2
SPECIFICATION Spec
PROPERTY OutOfRangeRefused
CHECK_DEADLOCK FALSE
