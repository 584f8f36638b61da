------------------------------- MODULE MCTCPPair -------------------------------
(***************************************************************************)
(* Constants for TCPPairSpec.                                              *)
(***************************************************************************)
EXTENDS TCPPairSpec

MCIsn     == [A |-> 2, B |-> 9]
MCStream  == [A |-> <<1>>, B |-> <<2>>]
MCOneWay  == [A |-> <<1>>, B |-> <<>>]
MCTwoByte == [A |-> <<1, 2>>, B |-> <<>>]

================================================================================
