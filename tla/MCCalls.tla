------------------------------ MODULE MCCalls -------------------------------
(***************************************************************************)
(* Model checking of Calls: two calls between two or three users, so that  *)
(* calls cross each other, follow each other and share one of their users. *)
(***************************************************************************)
EXTENDS Calls, TLC

Symmetry == Permutations(Users) \cup Permutations(Calls)
=============================================================================
