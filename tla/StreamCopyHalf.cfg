SPECIFICATION Spec
CONSTANTS
  BufferSize = 3
  MaxCopyLength = 2
  KernelRoom = 1
  Input <- MCInput
  Remote <- MCRemote
  Faults = {}
CHECK_DEADLOCK FALSE
INVARIANT UntilFinished
