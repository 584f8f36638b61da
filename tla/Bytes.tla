--------------------------------- MODULE Bytes ---------------------------------
(***************************************************************************)
(* What every specification of a stream is about: its byte values, and the *)
(* capacity that the object is constructed with.                           *)
(***************************************************************************)

CONSTANTS Byte, Capacity

================================================================================
