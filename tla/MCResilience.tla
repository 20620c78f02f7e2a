----------------------------- MODULE MCResilience -----------------------------
(* Instances of Resilience: overlapping calls are model values.                *)
EXTENDS Resilience, TLC

CONSTANTS c1, c2, c3

ASSUME CircuitAssumption
===============================================================================
