SPECIFICATION Spec
CONSTANTS
  Byte = {0, 1}
  Capacity = 2
  MaxChunk = 3
  MaxTotal = 5
INVARIANTS TypeOK InOrder CountsExact
