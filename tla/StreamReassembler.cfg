SPECIFICATION LiveSpec
CONSTANTS
  Byte = {1, 2, 3, 4, 5, 6, 7}
  Stream <- MCStream
  Capacity = 3
  Segment = 4
INVARIANTS TypeOK Delivered HeldRight HeldNear PoliteMemory PoliteEnd
PROPERTIES NothingLeftBehind AllDelivered
