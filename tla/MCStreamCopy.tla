------------------------------ MODULE MCStreamCopy -----------------------------
(***************************************************************************)
(* Constants for StreamCopy.                                               *)
(***************************************************************************)
EXTENDS StreamCopy

MCInput  == <<1, 2>>
MCRemote == <<3, 4>>

================================================================================
