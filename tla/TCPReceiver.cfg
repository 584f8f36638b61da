SPECIFICATION Spec
CONSTANTS
  Mod = 16
  Wide = 64
  Byte = {1, 2, 3, 4, 5, 6, 7, 8, 9}
  Stream <- MCStream
  Isn = 11
  Capacity = 3
INVARIANTS BytesInPlace WindowIsAccepted
PROPERTIES WindowNeverShrinks
