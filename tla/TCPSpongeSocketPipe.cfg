SPECIFICATION Spec
CONSTANTS
  Capacity = 1
  InCapacity = 2
  PipeCapacity = 2
  PartialWrites = FALSE
  LossyAdapter = TRUE
  MaxIn = 2
  MaxOut = 2
  MaxQueue = 2
  MaxSignals = 1
CHECK_DEADLOCK FALSE
INVARIANT NoBrokenPipe
