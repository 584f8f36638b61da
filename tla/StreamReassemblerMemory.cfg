SPECIFICATION Spec
CONSTANTS
  Byte = {1, 2, 3, 4, 5, 6, 7}
  Stream <- MCStream
  Capacity = 3
  Segment = 2
INVARIANTS WithinCapacity
