CONSTANTS
  SAMPLER_MAX_BUFFER_SZ = 2
  MaxSnapshots = 6
  MaxSignals = 3
SPECIFICATION Spec
INVARIANTS ReaderOwnsSlot
PROPERTIES LogSpec
