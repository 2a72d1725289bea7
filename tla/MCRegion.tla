------------------------------ MODULE MCRegion ------------------------------
(* A small instance of BusRegion for TLC. *)
EXTENDS RegionProperties, TLC

CONSTANTS c1, c2, o1

\* Two creators of different shapes, and one who opens what c1 makes.
Shapes ==
  [p \in Processes |-> [desc |-> IF p = c2 THEN 1 ELSE 2,
                        slot |-> IF p = c2 THEN 2 ELSE 1]]
=============================================================================
