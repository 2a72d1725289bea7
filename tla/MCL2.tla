-------------------------------- MODULE MCL2 --------------------------------
(* Small instances of L2Bridge for TLC. *)
EXTENDS L2Properties, TLC

CONSTANTS A, B, C, x, y, z

TwoWays   == (x :> A) @@ (y :> B)
AllAtA    == (x :> A) @@ (y :> A) @@ (z :> A)

LongShort == (x :> 2) @@ (y :> 1)
Long      == (x :> 2) @@ (y :> 2)
Mixture   == (x :> 4) @@ (y :> 3) @@ (z :> 2)
=============================================================================
