------------------------ MODULE WrappingIntegersProofs ------------------------
(***************************************************************************)
(* unwrap finds the closest number, for every width of the wrapping        *)
(* counter and of the absolute one.                                        *)
(***************************************************************************)
EXTENDS WrappingIntegersSpec, ClassLemmas

\* Numbers that are whole turns apart: how near to c another one can be.
LEMMA OtherTurns ==
  ASSUME NEW m \in Nat, m > 0, NEW x \in Int, -m < x, x < m, NEW k \in Int
  PROVE  /\ k >= 1 => x + m * k >= x + m
         /\ k <= -1 => x + m * k <= x - m
         /\ k = 0 => x + m * k = x
<1>1. k >= 1 => m * k >= m
  OBVIOUS
<1>2. k <= -1 => m * k <= -m
  OBVIOUS
<1>3. m * k \in Int
  OBVIOUS
<1> QED  BY <1>1, <1>2, <1>3

\* unwrap returns a number that wraps to w, and the closest to c.
LEMMA UnwrapFacts ==
  ASSUME NEW w \in Word, NEW start \in Word, NEW c \in LongWord, c < Wide - Mod
  PROVE  LET u == unwrap(w, start, c)
         IN  /\ u \in LongWord /\ wrap(u, start) = w
             /\ \A a \in Nat : wrap(a, start) = w => Distance(u, c) <= Distance(a, c)
<1> DEFINE ans == SameTurn(w, start, c)
           x   == ans - c
           u   == unwrap(w, start, c)
<1>1. /\ Mod \in Nat /\ Mod > 0 /\ Wide \in Nat /\ Wide >= 4 * Mod /\ c \in Nat
  BY Widths DEF LongWord
<1>2. /\ ans \in Nat /\ x \in Int /\ -Mod < x /\ x < Mod
      /\ ans % Mod = (w - start) % Mod
      /\ u = IF 2 * x < -Mod THEN ans + Mod
             ELSE IF 2 * x > Mod /\ ans >= Mod THEN ans - Mod ELSE ans
  BY UnwrapCases
<1>3. ans = c + x
  BY <1>1, <1>2
<1> HIDE DEF ans, x, u
<1>4. u \in LongWord /\ u \in Int
  BY <1>1, <1>2, <1>3 DEF LongWord
<1>5. u % Mod = ans % Mod
  <2>1. \E k \in Int : u = ans + Mod * k
    <3>1. /\ ans + Mod = ans + Mod * 1 /\ ans - Mod = ans + Mod * (-1)
          /\ ans = ans + Mod * 0 /\ 1 \in Int /\ -1 \in Int /\ 0 \in Int
      BY <1>1, <1>2
    <3>2. u = ans + Mod \/ u = ans - Mod \/ u = ans
      BY <1>2
    <3> QED  BY <3>1, <3>2
  <2>2. ans \in Int
    BY <1>2
  <2> QED  BY <1>1, <1>4, <2>1, <2>2, SameRemainder
<1>6. wrap(u, start) = w
  BY <1>2, <1>4, <1>5, WrapFacts
<1>7. ASSUME NEW a \in Nat, wrap(a, start) = w PROVE Distance(u, c) <= Distance(a, c)
  <2>1. a % Mod = ans % Mod
    <3>1. a \in Int
      OBVIOUS
    <3> QED  BY <1>2, <1>7, <3>1, WrapFacts
  <2>2. PICK k \in Int : a = ans + Mod * k
    <3>1. a \in Int /\ ans \in Int
      BY <1>2
    <3> QED  BY <1>1, <2>1, <3>1, SameRemainder
  <2> DEFINE y == x + Mod * k
  <2>3. /\ k >= 1 => y >= x + Mod
        /\ k <= -1 => y <= x - Mod
        /\ k = 0 => y = x
        /\ y \in Int
    BY <1>1, <1>2, OtherTurns
  <2>4. a = c + y
    BY <1>1, <1>2, <1>3, <2>2
  <2> HIDE DEF y
  <2>5. k >= 1 \/ k <= -1 \/ k = 0
    OBVIOUS
  <2>6. Distance(a, c) = IF y < 0 THEN -y ELSE y
    BY <1>1, <2>3, <2>4 DEF Distance
  <2>7. CASE 2 * x < -Mod
    <3>1. Distance(u, c) = x + Mod
      BY <1>1, <1>2, <1>3, <2>7 DEF Distance
    <3> QED  BY <1>1, <1>2, <2>3, <2>5, <2>6, <2>7, <3>1
  <2>8. CASE 2 * x > Mod /\ ans >= Mod
    <3>1. Distance(u, c) = Mod - x
      BY <1>1, <1>2, <1>3, <2>8 DEF Distance
    <3> QED  BY <1>1, <1>2, <2>3, <2>5, <2>6, <2>8, <3>1
  <2>9. CASE ~(2 * x < -Mod) /\ ~(2 * x > Mod /\ ans >= Mod)
    <3>1. Distance(u, c) = IF x < 0 THEN -x ELSE x
      BY <1>1, <1>2, <1>3, <2>9 DEF Distance
    <3>2. k <= -1 /\ ans < Mod => FALSE
      BY <1>1, <1>2, <1>3, <2>3, <2>4
    <3> QED  BY <1>1, <1>2, <2>3, <2>5, <2>6, <2>9, <3>1, <3>2
  <2> QED  BY <2>7, <2>8, <2>9
<1> QED  BY <1>4, <1>6, <1>7 DEF u

-------------------------------------------------------------------------------

\* Types: words on the wire, a checkpoint that fits 64 bits.
Types == n \in Word /\ isn \in Word /\ checkpoint \in LongWord

\* unwrap (wrapping_integers.cc) returns the closest number that wraps to n,
\* for every pair of widths, initial number and checkpoint.
THEOREM UnwrapCorrect == Spec => []UnwrapClosest
<1>1. Init => Types
  BY Widths DEF Init, Types, LongWord
<1>2. Types /\ [Advance]_vars => Types'
  <2> SUFFICES ASSUME Types, [Advance]_vars PROVE Types'
    OBVIOUS
  <2>1. CASE Advance
    <3>1. checkpoint + 1 \in Int /\ Wide \in Nat /\ Wide > 0
      BY Widths DEF Types, LongWord
    <3>2. (checkpoint + 1) % Wide \in 0..(Wide - 1)
      BY <3>1, ModFacts
    <3> QED  BY <2>1, <3>2 DEF Advance, Types, LongWord
  <2>2. CASE UNCHANGED vars
    BY <2>2 DEF Types, vars
  <2> QED  BY <2>1, <2>2
<1>3. Types => UnwrapClosest
  <2> SUFFICES ASSUME Types, checkpoint < Wide - Mod
               PROVE  LET u == unwrap(n, isn, checkpoint)
                      IN  /\ u \in LongWord /\ wrap(u, isn) = n
                          /\ \A a \in LongWord : wrap(a, isn) = n =>
                               Distance(u, checkpoint) <= Distance(a, checkpoint)
    BY DEF UnwrapClosest
  <2>1. n \in Word /\ isn \in Word /\ checkpoint \in LongWord
    BY DEF Types
  <2>2. \A a \in LongWord : a \in Nat
    BY Widths DEF LongWord
  <2> QED  BY <2>1, <2>2, UnwrapFacts
<1> QED  BY <1>1, <1>2, <1>3, PTL DEF Spec

===============================================================================
