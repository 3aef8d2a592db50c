----------------------------- MODULE MCWithdraw -----------------------------
(***************************************************************************)
(* Model checking of Withdraw: two devices that race for one balance, two  *)
(* administrators with lists of different age.                             *)
(***************************************************************************)
EXTENDS Withdraw, TLC

Symmetry == Permutations(Devices) \cup Permutations(Admins)
=============================================================================
