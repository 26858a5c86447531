CONSTANTS
  Threads <- ThreeProcesses
  Untaken = {3}
  Self = 2
  EventTids = {0}
  Waits = {2, 3}
  Spaces = {2, 3}
  Apps = {2, 3}
  MIN_WAIT_NUM = 3
  FREE_ASYNC_MAX = 3
  MaxLines = 4
SPECIFICATION ChainSpec
INVARIANTS SyncPidsExact TerminalIsLast VictimIsAwaited
CHECK_DEADLOCK FALSE
