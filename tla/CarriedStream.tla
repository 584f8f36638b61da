----------------------------- MODULE CarriedStream -----------------------------
(***************************************************************************)
(* What one direction of a connection carries: the stream that the sending *)
(* application writes.  The classes on either side have room for a byte.   *)
(***************************************************************************)
EXTENDS Integers, Sequences, Bytes

CONSTANT Stream    \* what the application on the sending side writes

ASSUME StreamAssumption ==
  /\ Stream \in Seq(Byte)
  /\ Capacity \in Nat \ {0}

===============================================================================
