------------------------------ MODULE MCService -------------------------------
(* Instances of Service: ids are model values.                                 *)
EXTENDS Service, TLC

CONSTANTS u1, u2, n1

UserSymmetry == Permutations(Users)
===============================================================================
