------------------------------- MODULE Wallet -------------------------------
(***************************************************************************)
(* The dymond wallets of the app: one Firestore document wallets/{phone}   *)
(* per user (app/lib/providers/wallets_provider.dart) and every handler of *)
(* the app that writes it.                                                 *)
(*                                                                         *)
(* A handler is an asynchronous Dart function: it runs to its next await   *)
(* in one step and other handlers, of the same user (a second tap, a       *)
(* second device) or of another, interleave between two steps.  job[h] is  *)
(* the state of handler h, working for job[h].user.  A client renders the  *)
(* last snapshot it was sent, view[u], which lags the document doc[u].     *)
(*                                                                         *)
(* Amounts are whole dymonds counted from the 0.000001 that a new wallet   *)
(* holds in every field: the code compares whole amounts with value+seed,  *)
(* so `price < balance` reads price <= balance here.                       *)
(***************************************************************************)
EXTENDS Integers, FiniteSets, FiniteSetsExt

CONSTANTS
    Users,         \* phone numbers, the ids of the wallet documents
    Handlers,      \* handlers that may be in flight at once
    Amounts,       \* dymonds moved by one operation
    Services,      \* the kinds of service that are paid from the wallet
    MaxAttempts,   \* attempts Firestore gives an optimistic transaction
    Stored,        \* balances that wallets have when the behaviour begins
    MaxTaps        \* model bound: handlers started in one behaviour

ASSUME WalletAssumption ==
    /\ Users # {} /\ IsFiniteSet(Handlers) /\ Handlers # {}
    /\ Amounts \subseteq Nat \ {0} /\ IsFiniteSet(Amounts) /\ Amounts # {}
    /\ Services \subseteq {"boost", "message", "call", "meetup"}
    /\ MaxAttempts \in Nat \ {0}
    /\ Stored \subseteq Nat
    /\ MaxTaps \in Nat

VARIABLES
    doc,       \* doc[u]: the document wallets/u on the server
    peak,      \* peak[u]: the highest balance it has held
    view,      \* view[u]: the last snapshot walletsStreamProvider gave u
    job,       \* job[h]: the local state of handler h
    granted,   \* granted[u][w]: what u has of the Counted service w
    shown,     \* shown[u]: the highest boostBalance u's profile has held
    spent,     \* history: what u has paid for w, the first boost included
    overdrawn, \* history: dymonds of u that were taken uncovered or again
    taps       \* handlers started so far, to bound the model

vars == <<doc, peak, view, job, granted, shown, spent, overdrawn, taps>>

Totals == {"rewards", "earnings", "gifts"}

\* The services whose handlers act on the answer of minusBalanceProvider.
Counted == Services \cap {"boost", "meetup"}

\* WalletsModel, without the fields that no handler writes.
Wallet == [exists: BOOLEAN, balance: Int, totals: [Totals -> Int]]

Empty      == [k \in Totals |-> 0]
Absent     == [exists |-> FALSE, balance |-> 0, totals |-> Empty]
NewWallet  == [exists |-> TRUE, balance |-> 0, totals |-> Empty]

\* A wallet with b dymonds, bought earlier, when no handler is in flight.
Holding(b) == [exists |-> TRUE, balance |-> b, totals |-> Empty]

Steps ==
    {"idle", "create", "credit", "page", "check", "debit", "paid", "unpaid",
     "profile", "send", "sendCommit", "giftCheck", "gift", "giftCommit",
     "redeem", "redeemCredit", "redeemDebit"}

\* The local state of a handler: what it read (mine, theirs), whether the
\* documents its transaction read are unchanged since (fresh), its attempts.
Job == [step: Steps, what: Services \cup Totals \cup {"none"}, user: Users,
        peer: Users, amt: Nat, mine: Int, theirs: Int, fresh: BOOLEAN,
        tries: Nat]

Free(u) == [step |-> "idle", what |-> "none", user |-> u, peer |-> u,
            amt |-> 0, mine |-> 0, theirs |-> 0, fresh |-> TRUE, tries |-> 0]

\* Between two operations a handler has no local state.
Idle == Free(CHOOSE u \in Users : TRUE)

TypeOK ==
    /\ doc \in [Users -> Wallet]
    /\ peak \in [Users -> Int]
    /\ view \in [Users -> Wallet]
    /\ job \in [Handlers -> Job]
    /\ granted \in [Users -> [Counted -> Int]]
    /\ shown \in [Users -> Int]
    /\ spent \in [Users -> [Counted -> Nat]]
    /\ overdrawn \in [Users -> Nat]
    /\ taps \in Nat

Init ==
    /\ doc \in [Users -> {Absent} \cup {Holding(b) : b \in Stored}]
    /\ peak = [u \in Users |-> doc[u].balance]
    /\ view = doc
    /\ job = [h \in Handlers |-> Idle]
    \* A profile begins with a boost, or none.
    /\ shown \in [Users -> IF "boost" \in Services THEN {0, 1} ELSE {0}]
    /\ granted = [u \in Users |-> [w \in Counted |->
                                     IF w = "boost" THEN shown[u] ELSE 0]]
    /\ spent = granted
    /\ overdrawn = [u \in Users |-> 0]
    /\ taps = 0

-----------------------------------------------------------------------------
(***************************************************************************)
(* Firestore.  A transaction reads documents, and its writes are applied   *)
(* only if none of them has changed since; otherwise its function is run   *)
(* again, MaxAttempts times in all.  It is run again, too, when the writes *)
(* were applied and the answer was lost (see Transactions).                *)
(***************************************************************************)

\* Mutant: the transaction forgets that it read the recipient's wallet.
ReadSetOfSender(h) ==
    CASE job[h].step = "sendCommit" -> {job[h].user}
      [] job[h].step = "giftCommit" -> {job[h].peer}
      [] OTHER -> {}

\* The documents the transaction of handler h has read.
ReadSet(h) ==
    CASE job[h].step = "sendCommit" -> {job[h].user, job[h].peer}
      [] job[h].step = "giftCommit" -> {job[h].peer}
      [] OTHER -> {}

\* Handler h goes on as j without writing a wallet.
Goto(h, j) ==
    /\ job' = [job EXCEPT ![h] = j]
    /\ UNCHANGED <<doc, peak>>

\* The documents after FieldValue.increment(x) on the balance of u, or on one
\* of its totals.
Incremented(u, x) == [doc EXCEPT ![u].balance = @ + x]
IncrementedTotal(d, u, k, x) == [d EXCEPT ![u].totals[k] = @ + x]

\* Handler h writes the documents of the users in W, from d, and goes on as j.
Write(h, W, d, j) ==
    /\ doc' = d
    /\ peak' = [u \in Users |-> IF d[u].balance > peak[u] THEN d[u].balance
                                                         ELSE peak[u]]
    /\ job' = [g \in Handlers |->
                 IF g = h THEN j
                 ELSE IF ReadSet(g) \cap W # {}
                      THEN [job[g] EXCEPT !.fresh = FALSE]
                      ELSE job[g]]

\* What a get() of u's wallet outside a transaction answers: the server's
\* balance or, when that cannot be reached, the one in the client's cache, as
\* it was at any time since the wallet was opened.  It is only compared with
\* amounts, for which the highest and the lowest stand.
Answers(u) == {doc[u].balance, peak[u], 0}

\* Mutant: the retry keeps the conflict of the attempt before it, for ever.
ConflictUncounted(h, first) ==
    /\ ~job[h].fresh
    /\ Goto(h, [job[h] EXCEPT !.step = first])

\* Handler h makes its attempt again from `first`, or gives up after the last
\* one and goes on as j.
Again(h, first, j) ==
    IF job[h].tries + 1 < MaxAttempts
    THEN [job[h] EXCEPT !.step = first, !.fresh = TRUE, !.tries = @ + 1]
    ELSE j

\* The transaction of h found a document it read changed.
Conflict(h, first) == ~job[h].fresh /\ Goto(h, Again(h, first, Idle))

\* walletsStreamProvider delivers the current document to u's client.
Deliver(u) ==
    /\ view[u] # doc[u]
    /\ view' = [view EXCEPT ![u] = doc[u]]
    /\ UNCHANGED <<doc, peak, job, granted, shown, spent, overdrawn, taps>>

\* A handler starts, with the local state j.
Start(h, j) ==
    /\ job[h].step = "idle"
    /\ taps < MaxTaps
    /\ taps' = taps + 1
    /\ Goto(h, j)
    /\ UNCHANGED <<view, granted, shown, spent, overdrawn>>

-----------------------------------------------------------------------------
(***************************************************************************)
(* createNewWalletProvider.  Every wallet screen runs it when it builds on *)
(* an empty snapshot; the `set` replaces whatever the server holds by then.*)
(***************************************************************************)
CreateNewWallet(h, u) ==
    /\ ~view[u].exists
    /\ Start(h, [Free(u) EXCEPT !.step = "create"])

CreateNewWalletSet(h) ==
    LET u == job[h].user IN
    /\ job[h].step = "create"
    /\ \/ Write(h, {u}, [doc EXCEPT ![u] = NewWallet], Idle)
       \/ Goto(h, Idle)                   \* the write fails
    /\ UNCHANGED <<view, granted, shown, spent, overdrawn, taps>>

(***************************************************************************)
(* addBalanceProvider after a successful payment.  Nothing awaits it: if   *)
(* the update fails, or there is no wallet yet, the purchase is lost; if   *)
(* its answer is lost, it may be credited again.                           *)
(***************************************************************************)
Purchase(h, u, a) ==
    Start(h, [Free(u) EXCEPT !.step = "credit", !.amt = a])

AddBalance(h) ==
    LET u == job[h].user IN
    /\ job[h].step = "credit"
    /\ \/ /\ doc[u].exists
          /\ \E j \in {Idle, Again(h, "credit", Idle)} :
                Write(h, {u}, Incremented(u, job[h].amt), j)
       \/ Goto(h, Idle)
    /\ UNCHANGED <<view, granted, shown, spent, overdrawn, taps>>

-----------------------------------------------------------------------------
(***************************************************************************)
(* minusBalanceProvider and its callers.  The balance is read outside the  *)
(* transaction that lowers it.                                             *)
(***************************************************************************)

\* The boost balances that the profile on a page may show: the current one,
\* or an older one, from a page built (or a profile cached) before, with fewer
\* boosts or, if some have been used since, with more.
Shown(u, w) == IF w = "boost" THEN 0 .. shown[u] ELSE {0}

\* The tap that pays for w.  The chat compares the cost with the rendered
\* balance first; a boost remembers the boost balance of the profile on
\* screen; the meetup page has read the balance when it opened (Page).
Spend(h, u, w, a) ==
    /\ w # "meetup"
    /\ w = "message" => view[u].exists /\ a <= view[u].balance
    /\ \E b \in Shown(u, w) :
          Start(h, [Free(u) EXCEPT !.step = "check", !.what = w, !.amt = a,
                                   !.mine = b])

\* CreateMeetupPage.initState: checkBalance, kept while the form is filled.
OpenMeetupPage(h, u, a) ==
    /\ "meetup" \in Services
    /\ doc[u].exists
    /\ \E b \in Answers(u) :
          Start(h, [Free(u) EXCEPT !.step = "page", !.what = "meetup",
                                   !.amt = a, !.mine = b])

\* _onPost: a balance ABOVE the budget is reported as insufficient.
PostMeetup(h) ==
    /\ job[h].step = "page"
    /\ Goto(h, IF job[h].mine > job[h].amt
               THEN Idle
               ELSE [job[h] EXCEPT !.step = "check", !.mine = 0])
    /\ UNCHANGED <<view, granted, shown, spent, overdrawn, taps>>

\* Mutant: the balance is not compared with the amount.
MinusBalanceUnchecked(h) ==
    /\ job[h].step = "check"
    /\ Goto(h, IF ~doc[job[h].user].exists THEN Idle
               ELSE [job[h] EXCEPT !.step = "debit"])
    /\ UNCHANGED <<view, granted, shown, spent, overdrawn, taps>>

\* The dymonds of u that a handler takes, when its turn comes, beyond what the
\* wallet holds.
Overdraw(u, a) ==
    overdrawn' = IF doc[u].balance >= a THEN overdrawn
                 ELSE [overdrawn EXCEPT ![u] = @ + a]

\* minusBalanceProvider up to its check.
MinusBalanceCheck(h) ==
    LET u == job[h].user IN
    /\ job[h].step = "check"
    /\ \/ /\ \E b \in Answers(u) : b >= job[h].amt
          /\ doc[u].exists
          /\ Goto(h, [job[h] EXCEPT !.step = "debit"])
          /\ Overdraw(u, job[h].amt)
       \/ /\ \E b \in Answers(u) : b < job[h].amt
          /\ doc[u].exists
          /\ Goto(h, [job[h] EXCEPT !.step = "unpaid"])
          /\ UNCHANGED overdrawn
       \/ /\ Goto(h, Idle)       \* no such document, or none in the cache
          /\ UNCHANGED overdrawn
    /\ UNCHANGED <<view, granted, shown, spent, taps>>

\* The transaction of minusBalanceProvider: an increment, nothing re-read.  If
\* its answer is lost it is made again, or reported as failed.
MinusBalanceDebit(h) ==
    LET u == job[h].user
        w == job[h].what
    IN
    /\ job[h].step = "debit"
    /\ \/ /\ doc[u].exists
          /\ Write(h, {u}, Incremented(u, -job[h].amt),
                   [job[h] EXCEPT !.step = "paid"])
          /\ spent' = IF w \in Counted
                      THEN [spent EXCEPT ![u][w] = @ + 1] ELSE spent
          /\ UNCHANGED overdrawn
       \/ /\ doc[u].exists
          /\ Write(h, {u}, Incremented(u, -job[h].amt), Again(h, "debit", Idle))
          /\ overdrawn' = [overdrawn EXCEPT ![u] = @ + job[h].amt]
          /\ UNCHANGED spent
       \/ /\ Goto(h, Idle)                   \* the transaction throws
          /\ UNCHANGED <<spent, overdrawn>>
    /\ UNCHANGED <<view, granted, shown, taps>>

\* Mutant: the answer of minusBalanceProvider is ignored for meetups too.
ServeUnpaid(h) ==
    LET u == job[h].user
        w == job[h].what
    IN
    /\ job[h].step \in {"paid", "unpaid"}
    /\ granted' = IF w \in Counted THEN [granted EXCEPT ![u][w] = @ + 1]
                                   ELSE granted
    /\ Goto(h, Idle)
    /\ UNCHANGED <<view, shown, spent, overdrawn, taps>>

\* updateUserProfile overwrites the boostBalance of u's profile with b.
UpdateUserProfile(u, b) ==
    /\ granted' = [granted EXCEPT ![u]["boost"] = b]
    /\ shown' = [shown EXCEPT ![u] = IF b > @ THEN b ELSE @]

\* A boost that was paid for is added to the boosts that the page showed ...
ServeBoost(h) ==
    /\ job[h].what = "boost" /\ job[h].step = "paid"
    /\ UpdateUserProfile(job[h].user, job[h].mine + 1)

\* ... and a meetup that was paid for is stored.
ServeMeetup(h) ==
    /\ job[h].what = "meetup" /\ job[h].step = "paid"
    /\ granted' = [granted EXCEPT ![job[h].user]["meetup"] = @ + 1]
    /\ UNCHANGED shown

\* What the caller does with the answer.  A first message is sent and a call
\* is placed whatever minusBalanceProvider returned.  No failure is refunded.
Serve(h) ==
    /\ job[h].step \in {"paid", "unpaid"}
    /\ \/ ServeBoost(h)
       \/ ServeMeetup(h)
       \/ UNCHANGED <<granted, shown>>   \* not Counted, refused, or it fails
    /\ Goto(h, Idle)
    /\ UNCHANGED <<view, spent, overdrawn, taps>>

\* onTapBoost uses one of the boosts that the page shows, if they are more
\* than the price of one, rounded.  Whether a boost is running is left out.
UseBoost(h, u, a) ==
    /\ "boost" \in Services
    /\ \E b \in Shown(u, "boost") :
          /\ b > a
          /\ Start(h, [Free(u) EXCEPT !.step = "profile", !.what = "boost",
                                      !.mine = b - 1])

\* Any other change of the profile writes back what the page showed.
EditProfile(h, u) ==
    /\ "boost" \in Services
    /\ \E b \in Shown(u, "boost") :
          Start(h, [Free(u) EXCEPT !.step = "profile", !.what = "boost",
                                   !.mine = b])

StoreProfile(h) ==
    /\ job[h].step = "profile"
    /\ \/ UpdateUserProfile(job[h].user, job[h].mine)
       \/ UNCHANGED <<granted, shown>>
    /\ Goto(h, Idle)
    /\ UNCHANGED <<view, spent, overdrawn, taps>>

-----------------------------------------------------------------------------
(***************************************************************************)
(* sendBalanceProvider: the one transfer that checks and moves the money   *)
(* in a single transaction, writing absolute balances computed from what   *)
(* the transaction read.  Nothing stops a user from naming himself.        *)
(***************************************************************************)
SendBalance(h, u, v, a) ==
    /\ Start(h, [Free(u) EXCEPT !.step = "send", !.peer = v, !.amt = a])

SendBalanceRead(h) ==
    /\ job[h].step = "send"
    /\ Goto(h, [job[h] EXCEPT !.step = "sendCommit",
                              !.mine = doc[job[h].user].balance,
                              !.theirs = doc[job[h].peer].balance])
    /\ UNCHANGED <<view, granted, shown, spent, overdrawn, taps>>

\* The documents after the two writes, in the order the code issues them.
Transferred(u, v, j) ==
    [doc EXCEPT ![u].balance = j.mine - j.amt, ![v].balance = j.theirs + j.amt]

\* Mutant: the sender's balance is not compared with the amount.
SendBalanceUnchecked(h) ==
    LET u == job[h].user
        j == job[h]
    IN
    /\ j.step = "sendCommit"
    /\ \/ /\ j.fresh
          /\ doc[u].exists /\ doc[j.peer].exists
          /\ Write(h, {u, j.peer}, Transferred(u, j.peer, j), Idle)
       \/ Goto(h, Idle)
       \/ Conflict(h, "send")
    /\ UNCHANGED <<view, granted, shown, spent, overdrawn, taps>>

SendBalanceCommit(h) ==
    LET u == job[h].user
        j == job[h]
        v == j.peer
    IN
    /\ j.step = "sendCommit"
    /\ \/ /\ j.fresh
          /\ j.mine >= j.amt
          /\ doc[u].exists /\ doc[v].exists
          /\ \E i \in {Idle, Again(h, "send", Idle)} :
                Write(h, {u, v}, Transferred(u, v, j), i)
       \/ Goto(h, Idle)      \* insufficient, no such wallet, or it throws
       \/ Conflict(h, "send")
    /\ UNCHANGED <<view, granted, shown, spent, overdrawn, taps>>

-----------------------------------------------------------------------------
(***************************************************************************)
(* sendGiftProvider behind GiftSheet.  The sheet compares the price with   *)
(* the rendered balance, a live stream also with the answer of a get(),    *)
(* the transaction with nothing.  For a recipient                          *)
(* without a wallet the code only builds the provider that would create    *)
(* one, so the update of the missing document fails and is swallowed.      *)
(***************************************************************************)
SendGift(h, u, v, a) ==
    /\ view[u].exists /\ a <= view[u].balance
    /\ \E s \in {"gift", "giftCheck"} :
          Start(h, [Free(u) EXCEPT !.step = s, !.peer = v, !.amt = a])

\* onGiftSend of a live stream.
GiftCheck(h) ==
    /\ job[h].step = "giftCheck"
    /\ \/ /\ \E b \in Answers(job[h].user) : b >= job[h].amt
          /\ Goto(h, [job[h] EXCEPT !.step = "gift"])
       \/ Goto(h, Idle)
    /\ UNCHANGED <<view, granted, shown, spent, overdrawn, taps>>

SendGiftRead(h) ==
    /\ job[h].step = "gift"
    /\ Goto(h, [job[h] EXCEPT !.step = "giftCommit"])
    /\ UNCHANGED <<view, granted, shown, spent, overdrawn, taps>>

SendGiftCommit(h) ==
    LET u == job[h].user
        j == job[h]
        v == j.peer
    IN
    /\ j.step = "giftCommit"
    /\ \/ /\ j.fresh
          /\ doc[u].exists /\ doc[v].exists
          /\ \E i \in {Idle, Again(h, "gift", Idle)} :
                Write(h, {u, v}, IncrementedTotal(Incremented(u, -j.amt),
                                                  v, "gifts", j.amt), i)
          /\ Overdraw(u, j.amt)
       \/ Goto(h, Idle) /\ UNCHANGED overdrawn
       \/ Conflict(h, "gift") /\ UNCHANGED overdrawn
    /\ UNCHANGED <<view, granted, shown, spent, taps>>

-----------------------------------------------------------------------------
(***************************************************************************)
(* The Redeem buttons of LiveRewardsPage: two updates, not awaited, that   *)
(* move the rendered total to the balance.  Redeeming gifts lowers the     *)
(* earnings.  The first is a transaction, the second a plain write, which  *)
(* is sent again when its answer is lost (see Writes; here, MaxAttempts    *)
(* times at most).                                                         *)
(***************************************************************************)
RedeemedFrom(k) == IF k = "rewards" THEN "rewards" ELSE "earnings"

\* Mutant: the rendered total is not compared with the empty one.
RedeemAnything(h, u, k) ==
    /\ view[u].exists
    /\ Start(h, [Free(u) EXCEPT !.step = "redeem", !.what = k,
                                !.amt = view[u].totals[k]])

Redeem(h, u, k) ==
    /\ view[u].exists /\ view[u].totals[k] > 0
    /\ Start(h, [Free(u) EXCEPT !.step = "redeem", !.what = k,
                                !.amt = view[u].totals[k]])

RedeemCredit(h) ==
    LET u == job[h].user
        j == IF job[h].step = "redeem"
             THEN [job[h] EXCEPT !.step = "redeemDebit", !.tries = 0] ELSE Idle
    IN
    /\ job[h].step \in {"redeem", "redeemCredit"}
    /\ \/ /\ doc[u].exists
          /\ \E i \in {j, Again(h, job[h].step, j)} :
                Write(h, {u}, Incremented(u, job[h].amt), i)
       \/ Goto(h, j)
    /\ UNCHANGED <<view, granted, shown, spent, overdrawn, taps>>

RedeemDebit(h) ==
    LET u == job[h].user
        k == RedeemedFrom(job[h].what)
        j == IF job[h].step = "redeem"
             THEN [job[h] EXCEPT !.step = "redeemCredit", !.tries = 0] ELSE Idle
    IN
    /\ job[h].step \in {"redeem", "redeemDebit"}
    /\ \/ /\ doc[u].exists
          /\ \E i \in {j, Again(h, job[h].step, j)} :
                Write(h, {u}, IncrementedTotal(doc, u, k, -job[h].amt), i)
       \/ Goto(h, j)
    /\ UNCHANGED <<view, granted, shown, spent, overdrawn, taps>>

-----------------------------------------------------------------------------
\* The taps of user u that start a handler.
Tap(h, u) ==
    \/ CreateNewWallet(h, u)
    \/ EditProfile(h, u)
    \/ \E a \in Amounts :
          \/ Purchase(h, u, a)
          \/ \E w \in Services : Spend(h, u, w, a)
          \/ OpenMeetupPage(h, u, a)
          \/ UseBoost(h, u, a)
          \/ \E v \in Users : SendBalance(h, u, v, a) \/ SendGift(h, u, v, a)
    \/ \E k \in Totals : Redeem(h, u, k)

\* The next step of a handler whose request has been answered.
Continue(h) ==
    \/ CreateNewWalletSet(h)
    \/ AddBalance(h)
    \/ MinusBalanceCheck(h)
    \/ MinusBalanceDebit(h)
    \/ Serve(h)
    \/ StoreProfile(h)
    \/ SendBalanceRead(h)
    \/ SendBalanceCommit(h)
    \/ GiftCheck(h)
    \/ SendGiftRead(h)
    \/ SendGiftCommit(h)
    \/ RedeemCredit(h)
    \/ RedeemDebit(h)

Next ==
    \/ \E h \in Handlers : \E u \in Users : Tap(h, u)
    \/ \E h \in Handlers : PostMeetup(h) \/ Continue(h)
    \/ \E u \in Users : Deliver(u)

Spec == Init /\ [][Next]_vars

\* A request in flight is answered, if only by an error, and the listener of
\* a connected client is told of a change; a user need not tap anything.
Fairness ==
    /\ \A h \in Handlers : WF_vars(Continue(h))
    /\ \A u \in Users : WF_vars(Deliver(u))

FairSpec == Spec /\ Fairness
-----------------------------------------------------------------------------
(***************************************************************************)
(* Properties.                                                             *)
(***************************************************************************)

\* A transfer that is about to commit, and whose documents are unchanged
\* since it read them, computed its absolute balances from the balances the
\* server holds now (sendBalanceProvider).
ReadsCurrent ==
    \A h \in Handlers :
        (job[h].step = "sendCommit" /\ job[h].fresh) =>
            /\ job[h].mine = doc[job[h].user].balance
            /\ job[h].theirs = doc[job[h].peer].balance

\* The wallets implement WalletLedger: whatever the interleaving, each step
\* of the app opens a wallet, credits or debits one wallet, or moves an
\* amount its owner has between two wallets.  No update is lost.
Ledger == INSTANCE WalletLedger WITH
              open <- {u \in Users : doc[u].exists},
              balance <- [u \in Users |-> doc[u].balance]
LedgerSpec == Ledger!Spec

\* The dymonds that handlers past their check are about to take from u.
Pending(u) ==
    SumFunctionOnSet(
        [h \in Handlers |-> IF job[h].user = u /\ job[h].step = "debit"
                            THEN job[h].amt ELSE 0], Handlers)

\* minusBalanceProvider checks before its transaction, so concurrent spends
\* can overdraw a wallet, but only as deep as the other handlers in flight
\* can take it.  Any deeper debt was made by gifts that the balance did not
\* cover, checks that passed on a cached balance only, and debits that were
\* made again because the answer to the first was lost.
DebtBounded ==
    \A u \in Users :
        doc[u].balance - Pending(u) >=
            -((Cardinality(Handlers) - 1) * Max(Amounts)) - overdrawn[u]

\* Nobody has more boosts, or more meetups, than were paid for and confirmed
\* by minusBalanceProvider, although every page writes back the boost balance
\* of the profile it showed, stale by any number of purchases and uses.  (A
\* boost that was used may come back that way, one never paid for may not.)
PaidFor ==
    \A u \in Users : \A w \in Counted : granted[u][w] <= spent[u][w]

\* A handler that waits for Firestore, and not for its user on the meetup
\* page, ends, although a transaction may be run again after a conflict.
HandlersFinish ==
    \A h \in Handlers :
        job[h].step \notin {"idle", "page"} ~> job[h].step = "idle"

\* Redeeming is refused when there is nothing left to redeem: no total of a
\* wallet is ever below what a new wallet holds.
TotalsNonNegative == \A u \in Users : \A k \in Totals : doc[u].totals[k] >= 0
=============================================================================
