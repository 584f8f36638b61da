------------------------- MODULE WrappingIntegersSpec -------------------------
(***************************************************************************)
(* Every call of unwrap: a number n seen on the wire, an initial sequence  *)
(* number, and a checkpoint that moves on as the stream does.              *)
(***************************************************************************)
EXTENDS WrappingIntegers

VARIABLES n, isn, checkpoint

vars == <<n, isn, checkpoint>>

Init == n \in Word /\ isn \in Word /\ checkpoint = 0

\* The stream moves on by one sequence number.
Advance ==
  /\ checkpoint' = (checkpoint + 1) % Wide
  /\ UNCHANGED <<n, isn>>

Spec == Init /\ [][Advance]_vars

-------------------------------------------------------------------------------
(* Properties *)

Distance(a, b) == IF a <= b THEN b - a ELSE a - b

\* unwrap (wrapping_integers.hh:30) returns "the absolute sequence number that
\* wraps to `n` and is closest to `checkpoint`", also in the first turn, where
\* no number one turn back exists.  The last turn before 2^64 is left out: the
\* code's sum wraps there, and no stream gets that far.
UnwrapClosest ==
  checkpoint < Wide - Mod =>
    LET u == unwrap(n, isn, checkpoint)
    IN  /\ u \in LongWord /\ wrap(u, isn) = n
        /\ \A a \in LongWord :
             wrap(a, isn) = n => Distance(u, checkpoint) <= Distance(a, checkpoint)

===============================================================================
