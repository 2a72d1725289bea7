------------------------------- MODULE MCBus -------------------------------
(* Small instances of Bus for TLC. *)
EXTENDS BusInvariant, TLC

CONSTANTS p1, p2, s1, s2, a, b

Msgs1    == {a}
Msgs2    == {a, b}
LenA     == a :> 1
LenOne   == (a :> 1) @@ (b :> 1)
LenTwo   == (a :> 1) @@ (b :> 2)

Solo     == p1 :> {a}
BothA    == (p1 :> {a}) @@ (p2 :> {a})
OneEach  == (p1 :> {a}) @@ (p2 :> {b})

BufOne   == s1 :> 1
BufBoth  == (s1 :> 1) @@ (s2 :> 1)

SwapSubs == Permutations({s1, s2})
=============================================================================
