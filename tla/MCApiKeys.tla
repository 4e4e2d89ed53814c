------------------------------ MODULE MCApiKeys ------------------------------
(* Small instances of ApiKeys.                                             *)
EXTENDS ApiKeys, TLC

MCSymmetry == Permutations(Users) \cup Permutations(KeyIds) \cup Permutations(Requests)
=============================================================================
