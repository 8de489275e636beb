----------------------------- MODULE MCF2Shell -----------------------------
(* F2Shell with every kind of AXI-Lite master.                             *)
EXTENDS F2Shell

AllHabits   == [splits : BOOLEAN, overlaps : BOOLEAN]
Splitting   == {[splits |-> TRUE, overlaps |-> FALSE]}
Overlapping == {[splits |-> FALSE, overlaps |-> TRUE]}
=============================================================================
