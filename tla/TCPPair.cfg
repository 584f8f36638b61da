SPECIFICATION Spec
CONSTANTS
  Mod = 16
  Wide = 64
  WinMod = 4
  MAX_PAYLOAD_SIZE = 1
  MAX_RETX_ATTEMPTS = 1
  LINGER = 2
  RecvCapacity = 2
  SendCapacity = 2
  RtTimeout = 1
  Isn <- MCIsn
  Stream <- MCTwoByte
  Opener = {"A", "B"}
  MayAbort = {"A"}
  FinOvertakes = FALSE
  MaxNet = 3
  MaxFaults = 1
CHECK_DEADLOCK FALSE
INVARIANTS CloseIsComplete AckedIsHeld
PROPERTIES IsReliable FollowsDiagram
