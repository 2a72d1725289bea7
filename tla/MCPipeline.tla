----------------------------- MODULE MCPipeline -----------------------------
(* A small instance of Pipeline for TLC. *)
EXTENDS PipelineProperties, TLC

CONSTANTS p1, p2, s1, s2, a, b, c

Mixed   == (p1 :> {a, c}) @@ (p2 :> {b})
TwoOne  == (p1 :> 2) @@ (p2 :> 1)
LongC   == (a :> 1) @@ (b :> 1) @@ (c :> 2)
Places  == [r \in Readers |-> IF r = s1 THEN "dst" ELSE "src"]
Slots   == [x \in Buses |-> IF x = "src" THEN 2 ELSE 1]
Caps    == [x \in Buses |-> IF x = "src" THEN 2 ELSE 1]
=============================================================================
