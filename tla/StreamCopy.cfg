SPECIFICATION LiveSpec
CONSTANTS
  BufferSize = 3
  MaxCopyLength = 2
  KernelRoom = 1
  Input <- MCInput
  Remote <- MCRemote
  Faults = {"no reader", "no remote"}
CHECK_DEADLOCK FALSE
INVARIANTS NothingLost NothingLeft
PROPERTIES Returns
