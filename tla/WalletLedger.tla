---------------------------- MODULE WalletLedger ----------------------------
(***************************************************************************)
(* What the wallets promise, without handlers, transactions or snapshots:  *)
(* a set of open wallets and their balances, changed one operation at a    *)
(* time.  A balance may be debited below zero (spends and gifts are not    *)
(* checked where they are applied); a transfer may not overdraw, and it    *)
(* moves exactly what it takes.                                            *)
(***************************************************************************)
EXTENDS Integers

CONSTANT Users
VARIABLES open, balance

vars == <<open, balance>>

Init ==
    /\ open \subseteq Users
    /\ balance \in [Users -> Nat]

\* Only the balances of the users in W may change, all of them open.
Touches(W) ==
    /\ W \subseteq open
    /\ open' = open
    /\ \A u \in Users \ W : balance'[u] = balance[u]

\* A wallet is opened, or opened again: it is empty afterwards.
Open(u) ==
    /\ open' = open \cup {u}
    /\ balance' = [balance EXCEPT ![u] = 0]

Credit(u) == Touches({u}) /\ balance'[u] > balance[u]

Debit(u) == Touches({u}) /\ balance'[u] < balance[u]

Transfer(u, v) ==
    /\ u # v
    /\ Touches({u, v})
    /\ balance'[u] < balance[u]
    /\ balance'[u] >= 0
    /\ balance'[v] - balance[v] = balance[u] - balance'[u]

Next ==
    \/ \E u \in Users : Open(u) \/ Credit(u) \/ Debit(u)
    \/ \E u, v \in Users : Transfer(u, v)

Spec == Init /\ [][Next]_vars
=============================================================================
