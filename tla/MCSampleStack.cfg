CONSTANTS
  FfrtKeys = {f1, f2}
  HandlerKeys = {h1}
  LongKeys = {f2}
  SAMPLE_STACK_MAP_MAX_SIZE = 2
  EXPIRE_MS = 0
  VALUE_MAX_SIZE = 2
  SAMPLE_STACK_MAX_COUNT = 2
  MaxSamples = 3
  MaxWarnings = 2
  MaxTime = 1
SPECIFICATION FairSpec
INVARIANTS SampleOnce NameHasTask
PROPERTIES SamplingEnds
CHECK_DEADLOCK FALSE
