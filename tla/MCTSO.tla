------------------------------- MODULE MCTSO -------------------------------
(* A small instance of BusTSO for TLC. *)
EXTENDS BusTSO

CONSTANTS p1, p2, s1, a, b

LenTwo  == a :> 1 @@ b :> 2
Mixed   == p1 :> {a} @@ p2 :> {a, b}
Buf1    == s1 :> 1

LenA    == a :> 1
BothA   == p1 :> {a} @@ p2 :> {a}
NoBuf   == <<>>
=============================================================================
