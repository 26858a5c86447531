CONSTANTS
  UserNames = {"a"}
  SampleNames = {}
  SamplerNames = {}
  Delays = {2}
  Intervals = {0, 1}
  IpcIntervals = {}
  MAX_WATCH_NUM = 2
  DEFAULT_TIMEOUT = 3
  KICK_INTERVAL = 2
  IPC_INTERVAL = 2
  UINT_MOD = 8
  UINT64_MAX = 1000
  JoinIpcFull = FALSE
  KickWatchdog = FALSE
  MaxTasks = 3
  MaxTime = 3
SPECIFICATION RemovalSpec
INVARIANTS RemovalIsFinal
