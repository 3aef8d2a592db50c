------------------------------ MODULE MCWallet ------------------------------
(***************************************************************************)
(* Model checking of Wallet.  MCTransfers: two users, so that transfers    *)
(* and gifts have a peer (or name their own sender), and two handlers that *)
(* race each other on the wallet of one user or of both.  MCSpends: one    *)
(* user who pays for services with two handlers.  A call is paid for as a  *)
(* message is, but without comparing the rendered balance, as a boost is.  *)
(***************************************************************************)
EXTENDS Wallet, TLC

\* Handlers are interchangeable.
Symmetry == Permutations(Handlers)
=============================================================================
