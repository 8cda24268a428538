------------------------- MODULE MCResaleAdmission -------------------------
(* A ticket, its owners, buyers and codes; the ids of pools and            *)
(* codes are interchangeable.                                              *)
EXTENDS ResaleAdmission, TLC

Ids == Permutations(Pool) \union Permutations(Code) \union Permutations(Verified)
=============================================================================
