---------------------------- MODULE MCLockOrder ----------------------------
(* Instances of LockOrder for TLC.                                         *)
EXTENDS LockOrder, TLC

Symmetric == Permutations(Tx) \cup Permutations(User) \cup Permutations(House)
=============================================================================
