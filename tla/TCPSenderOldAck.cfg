SPECIFICATION Spec
CONSTANTS
  Mod = 32
  Wide = 128
  MAX_PAYLOAD_SIZE = 2
  Byte = {1, 2, 3}
  Stream <- MCStream
  Capacity = 3
  RetxTimeout = 2
  Isn = 5
  MaxWindow = 3
  MaxRetx = 1
  MaxQueue = 2
  MaxOld = 1
  MaxEmpty = 0
INVARIANTS WithinWindow
