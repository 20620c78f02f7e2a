------------------------------ MODULE MCAuditBus ------------------------------
(* Instances of AuditBus: listeners and details are model values.              *)
EXTENDS AuditBus, TLC

CONSTANTS l1, l2, l3, d1, d2

BusSymmetry == Permutations(Listeners) \cup Permutations(Details)
===============================================================================
