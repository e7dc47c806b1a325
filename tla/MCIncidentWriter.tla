-------------------------- MODULE MCIncidentWriter --------------------------
(* Values of IncidentWriter's constants for TLC.                           *)
EXTENDS IncidentWriter

CONSTANTS r1, r2, r3

TwoRegions == {r1, r2}
ThreeRegions == {r1, r2, r3}
Majority == {[kind |-> "majority", n |-> 0]}
AnyOrCount == {[kind |-> "any", n |-> 0], [kind |-> "count", n |-> 3]}
=============================================================================
