----------------------------- MODULE MCContracts ------------------------------
(* Instances of Contracts: ids, names and versions are model values.           *)
EXTENDS Contracts, TLC

CONSTANTS s1, s2, s3, s4, n1, n2, v1, v2

RegistrySymmetry == Permutations(Ids) \cup Permutations(Names) \cup Permutations(Versions)
===============================================================================
