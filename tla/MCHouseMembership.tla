------------------------- MODULE MCHouseMembership -------------------------
(* Instances of HouseMembership for TLC.                                   *)
EXTENDS HouseMembership, TLC

Symmetric == Permutations(Tx) \cup Permutations(User)
=============================================================================
