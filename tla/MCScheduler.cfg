CONSTANTS
  UserNames = {"a"}
  SampleNames = {"ffrt_sample_stack"}
  SamplerNames = {"STACK_CHECKER"}
  Delays = {1}
  Intervals = {0, 1}
  IpcIntervals = {1}
  MAX_WATCH_NUM = 1
  DEFAULT_TIMEOUT = 3
  KICK_INTERVAL = 2
  IPC_INTERVAL = 2
  UINT_MOD = 8
  UINT64_MAX = 1000
  JoinIpcFull = FALSE
  KickWatchdog = TRUE
  MaxTasks = 2
  MaxTime = 2
SPECIFICATION Spec
INVARIANTS TypeOK NamesOwned CapacityBound SleeperNotified
PROPERTIES TimerContract EveryTickServed StopReturns
