SPECIFICATION Spec
CONSTANTS
  Mod = 8
  Wide = 64
INVARIANTS UnwrapClosest
