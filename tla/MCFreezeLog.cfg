CONSTANTS
  Calls = {c1, c2, c3}
  Types = {s3}
  InvalidType = invalid
  Handlers = {h1}
  None = None
  ReportInterval = 2
  CALLBACK_WAIT_TIME = 1
  BootAges = {1, 3}
SPECIFICATION FairSpec
INVARIANTS AskedOnce ReportsRare
PROPERTY CallReturns
CHECK_DEADLOCK FALSE
