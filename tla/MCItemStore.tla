----------------------------- MODULE MCItemStore ------------------------------
(* Instances of ItemStore: threads are model values.                           *)
EXTENDS ItemStore, TLC

CONSTANTS p, q
===============================================================================
