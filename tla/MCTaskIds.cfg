CONSTANTS
  Users = {u1, u2}
  Samplers = {s}
  NoOne = NoOne
  MaxId = 4
SPECIFICATION Spec
PROPERTY CancelHitsOwn
CHECK_DEADLOCK FALSE
