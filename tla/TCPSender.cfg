SPECIFICATION LiveSpec
CONSTANTS
  Mod = 32
  Wide = 128
  MAX_PAYLOAD_SIZE = 2
  Byte = {1, 2, 3}
  Stream <- MCStream
  Capacity = 3
  RetxTimeout = 2
  Isn = 5
  MaxWindow = 4
  MaxRetx = 1
  MaxQueue = 1
  MaxOld = 1
  MaxEmpty = 1
INVARIANTS InFlightExact SegmentsRight TimerArmed NumbersUsedOnce WindowRespected
PROPERTIES Retransmits AllAcknowledged
