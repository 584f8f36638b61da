--------------------------- MODULE WrappingIntegers ---------------------------
(***************************************************************************)
(* Sequence numbers (libsponge/wrapping_integers.hh, .cc).  A WrappingInt32 *)
(* is its raw value, a number below Mod (2^32 in the code); an absolute     *)
(* sequence number is a uint64_t, a number below Wide (2^64).  Arithmetic   *)
(* wraps at the width the C++ expression has.                              *)
(***************************************************************************)
EXTENDS Integers

CONSTANTS Mod, Wide

\* Wide is a whole number of turns of the wrapping counter.
ASSUME WrapAssumption ==
  /\ Mod \in Nat /\ Mod > 1 /\ Mod % 2 = 0
  /\ Wide \in Nat /\ Wide >= 4 * Mod /\ Wide % Mod = 0 /\ Wide % 2 = 0

Word     == 0 .. (Mod - 1)
LongWord == 0 .. (Wide - 1)

\* operator+(WrappingInt32, uint32_t)
plus(a, b) == (a + b) % Mod

wrap(n, isn) == ((n % Mod) + isn) % Mod

\* abs(int64_t(x)) of an unsigned 64-bit x.
AbsSigned(x) == LET u == x % Wide IN IF u >= Wide \div 2 THEN Wide - u ELSE u

\* The first of the three candidates: checkpoint's high half, n - isn below it.
SameTurn(n, isn, checkpoint) ==
  (checkpoint - (checkpoint % Mod)) + ((n - isn) % Mod)

\* Mutant: looks one turn back from the first turn.
unwrap_negative(n, isn, checkpoint) ==
  LET ans == SameTurn(n, isn, checkpoint)
  IN  CASE AbsSigned(ans + Mod - checkpoint) < AbsSigned(ans - checkpoint)
             -> (ans + Mod) % Wide
        [] AbsSigned(ans - Mod - checkpoint) < AbsSigned(ans - checkpoint)
             -> (ans - Mod) % Wide
        [] OTHER -> ans

unwrap(n, isn, checkpoint) ==
  LET ans  == SameTurn(n, isn, checkpoint)
      here == AbsSigned(ans - checkpoint)
  IN  IF AbsSigned(ans + Mod - checkpoint) < here
      THEN (ans + Mod) % Wide
      ELSE IF ans >= Mod /\ AbsSigned(ans - Mod - checkpoint) < here
      THEN ans - Mod
      ELSE ans

===============================================================================
