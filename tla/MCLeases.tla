------------------------------ MODULE MCLeases ------------------------------
(* Instances of Leases: holders and resources are model values.              *)
EXTENDS Leases, TLC

CONSTANTS r1, r2, h1, h2

\* Below the floor and above the ceiling of the clamp.
MCRequests == {-1, 9}

HolderSymmetry == Permutations(Holders)
ResourceSymmetry == Permutations(Resources)
=============================================================================
