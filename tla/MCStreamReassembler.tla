-------------------------- MODULE MCStreamReassembler --------------------------
(* A stream of seven different bytes. *)
EXTENDS StreamReassemblerSpec

MCStream == <<1, 2, 3, 4, 5, 6, 7>>

================================================================================
