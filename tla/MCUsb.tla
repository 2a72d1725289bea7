-------------------------------- MODULE MCUsb --------------------------------
(* A small instance of UsbSim for TLC. *)
EXTENDS UsbProperties, TLC

CONSTANTS A, B, x

HomeAB == [m \in Msgs |-> IF m = x THEN A ELSE B]
TwoEach == [b \in Bridges |-> 2]
Magical ==
  [m \in Msgs \cup {Probe, Stray} |->
     IF m = x THEN <<"lo", "hi", "other">> ELSE <<"other">>]
=============================================================================
