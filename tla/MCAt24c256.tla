------------------------------ MODULE MCAt24c256 ------------------------------
(* Small instances of At24c256.                                              *)
EXTENDS At24c256, TLC

Symmetry == Permutations(Users)
=============================================================================
