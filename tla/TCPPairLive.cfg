SPECIFICATION LiveSpec
CONSTANTS
  Mod = 16
  Wide = 64
  WinMod = 3
  MAX_PAYLOAD_SIZE = 1
  MAX_RETX_ATTEMPTS = 2
  LINGER = 4
  RecvCapacity = 3
  SendCapacity = 2
  RtTimeout = 1
  Isn <- MCIsn
  Stream <- MCOneWay
  Opener = {"A", "B"}
  MayAbort = {}
  FinOvertakes = FALSE
  MaxNet = 6
  MaxFaults = 1
CHECK_DEADLOCK FALSE
PROPERTIES ClosesCleanly
