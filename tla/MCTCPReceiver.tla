----------------------------- MODULE MCTCPReceiver -----------------------------
(* A stream of nine different bytes. *)
EXTENDS TCPReceiverSpec

MCStream == <<1, 2, 3, 4, 5, 6, 7, 8, 9>>

===============================================================================
