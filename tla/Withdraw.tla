------------------------------ MODULE Withdraw ------------------------------
(***************************************************************************)
(* Cashing out: LiveRewardsPage.onWithdraw and addWithdrawal of the app,   *)
(* and the withdrawals tab of the admin panel.  One user works on several  *)
(* devices, each with its own SharedPreferences; several administrators    *)
(* decide the requests from lists they loaded earlier.                     *)
(*                                                                         *)
(* Amounts are in dymonds (coinValue is a constant factor).  A request id  *)
(* is the phone number and the millisecond of the tap, taken as unique.    *)
(***************************************************************************)
EXTENDS Integers, FiniteSets, Functions

CONSTANTS
    Devices,     \* the user's devices
    Admins,      \* administrators
    Ids,         \* request ids, each used once
    Amounts,     \* amounts the user asks for
    Limit,       \* appSettings.dailyWithdrawalLimit
    Day,         \* the length of a day on the model's clock (86400000 ms)
    Funds,       \* the balance at the beginning
    MaxAttempts, \* attempts Firestore gives a transaction (see Transactions)
    MaxNow,      \* model bound: the clock
    MaxCredit    \* model bound: dymonds credited to the balance

ASSUME WithdrawAssumption ==
    /\ IsFiniteSet(Devices) /\ Devices # {} /\ IsFiniteSet(Ids)
    /\ Amounts \subseteq Nat \ {0}
    /\ Limit \in Nat /\ Day \in Nat \ {0} /\ Funds \in Nat
    /\ MaxAttempts \in Nat \ {0}
    /\ MaxNow \in Nat /\ MaxCredit \in Nat

VARIABLES
    balance,    \* wallets/{phone}.balance
    peak,       \* the highest it has been, as a device's cache may hold it
    request,    \* request[i]: the document withdrawals/i, or NoRequest
    job,        \* job[i]: the onWithdraw handler that makes request i
    today,      \* today[d]: prefs.todayWithdrawal
    last,       \* last[d]: prefs.lastWithdrawal, or Never
    now,        \* the clock
    list,       \* list[a]: the requests as administrator a loaded them
    credits,    \* history: dymonds credited to the balance
    lost,       \* history: dymonds taken and not for a request that is stored
    drawn       \* drawn[d]: history: dymonds requested from d this day

vars == <<balance, peak, request, job, today, last, now, list, credits, lost,
          drawn>>

Never     == -1
NoRequest == [status |-> "none", amount |-> 0, bank |-> FALSE]
Status    == {"none", "pending", "approved", "rejected"}

\* WithrawalModel: the bank details are one field, present or null.
Request == [status: Status, amount: Nat, bank: BOOLEAN]

Steps == {"new", "check", "debit", "store", "log", "prefs", "done"}
Job   == [step: Steps, dev: Devices, amt: Nat, tries: Nat]
New   == [step |-> "new", dev |-> CHOOSE d \in Devices : TRUE, amt |-> 0,
          tries |-> 0]

TypeOK ==
    /\ balance \in Int
    /\ peak \in Int
    /\ request \in [Ids -> Request]
    /\ job \in [Ids -> Job]
    /\ today \in [Devices -> Nat]
    /\ last \in [Devices -> Nat \cup {Never}]
    /\ now \in Nat
    /\ list \in [Admins -> [Ids -> Request]]
    /\ credits \in Nat
    /\ lost \in Nat
    /\ drawn \in [Devices -> Nat]

Init ==
    /\ balance = Funds
    /\ peak = Funds
    /\ request = [i \in Ids |-> NoRequest]
    /\ job = [i \in Ids |-> New]
    /\ today = [d \in Devices |-> 0]
    /\ last = [d \in Devices |-> Never]
    /\ now = 0
    /\ list = [a \in Admins |-> [i \in Ids |-> NoRequest]]
    /\ credits = 0
    /\ lost = 0
    /\ drawn = [d \in Devices |-> 0]

prefsVars   == <<today, last>>
adminVars   == <<list>>
clockVars   == <<now, credits>>
historyVars == <<lost, drawn>>
-----------------------------------------------------------------------------
(***************************************************************************)
(* The handler of the Confirm button.                                      *)
(***************************************************************************)

\* Has a day passed since the last withdrawal, as onWithdraw computes it?
DayPassed(d) == last[d] # Never /\ last[d] - now > Day

\* onWithdraw up to its first await.  Nothing stops a second tap while the
\* first is in flight.
OnWithdraw(d, i, a) ==
    LET spent == IF DayPassed(d) THEN 0 ELSE today[d] IN
    /\ job[i].step = "new"
    /\ today' = [today EXCEPT ![d] = spent]
    /\ job' = [job EXCEPT ![i] =
                 [step |-> IF a <= Limit - spent THEN "check" ELSE "done",
                  dev |-> d, amt |-> a, tries |-> 0]]
    /\ UNCHANGED <<balance, peak, request, last, list, clockVars, historyVars>>

\* minusBalanceProvider, its check.  get() is answered by the server or, when
\* that cannot be reached, from the cache of the device, as it was at any time
\* before; it throws if there is neither.
MinusBalanceCheck(i) ==
    /\ job[i].step = "check"
    /\ \/ /\ \E b \in {balance, peak} : job[i].amt <= b
          /\ job' = [job EXCEPT ![i].step = "debit"]
       \/ job' = [job EXCEPT ![i].step = "done"]
    /\ UNCHANGED <<balance, peak, request, prefsVars, adminVars, clockVars,
                   historyVars>>

\* The debit of handler i took effect and its answer was lost: it is made
\* again, or after the last attempt reported as failed.
AnswerLost(i) ==
    IF job[i].tries + 1 < MaxAttempts
    THEN [job[i] EXCEPT !.tries = @ + 1] ELSE [job[i] EXCEPT !.step = "done"]

\* The transaction of minusBalanceProvider, which may throw: nothing catches
\* it.
MinusBalanceDebit(i) ==
    /\ job[i].step = "debit"
    /\ \/ /\ balance' = balance - job[i].amt
          /\ job' = [job EXCEPT ![i].step = "store"]
          /\ UNCHANGED lost
       \/ /\ balance' = balance - job[i].amt
          /\ job' = [job EXCEPT ![i] = AnswerLost(i)]
          /\ lost' = lost + job[i].amt
       \/ /\ job' = [job EXCEPT ![i].step = "done"]
          /\ UNCHANGED <<balance, lost>>
    /\ UNCHANGED <<peak, request, prefsVars, adminVars, clockVars, drawn>>

\* addWithdrawal: the request is stored.  When that fails onWithdraw names
\* addBalanceProvider without reading it, so the debit is not given back.
AddWithdrawalStore(i) ==
    LET j == job[i] IN
    /\ j.step = "store"
    /\ \/ /\ request' = [request EXCEPT ![i] =
                [status |-> "pending", amount |-> j.amt, bank |-> TRUE]]
          /\ job' = [job EXCEPT ![i].step = "log"]
          /\ drawn' = [drawn EXCEPT ![j.dev] = @ + j.amt]
          /\ UNCHANGED lost
       \/ /\ lost' = lost + j.amt
          /\ job' = [job EXCEPT ![i].step = "done"]
          /\ UNCHANGED <<request, drawn>>
    /\ UNCHANGED <<balance, peak, prefsVars, adminVars, clockVars>>

\* Mutant: the failure of the second write gives the dymonds back.
AddWithdrawalLogRefunds(i) ==
    /\ job[i].step = "log"
    /\ \/ /\ job' = [job EXCEPT ![i].step = "prefs"]
          /\ UNCHANGED balance
       \/ /\ job' = [job EXCEPT ![i].step = "done"]
          /\ balance' = balance + job[i].amt
    /\ UNCHANGED <<peak, request, prefsVars, adminVars, clockVars, historyVars>>

\* addWithdrawal: the transaction is noted in the wallet; a failure is
\* reported as that of the whole withdrawal, although the request is stored.
AddWithdrawalLog(i) ==
    /\ job[i].step = "log"
    /\ \/ job' = [job EXCEPT ![i].step = "prefs"]
       \/ job' = [job EXCEPT ![i].step = "done"]
    /\ UNCHANGED <<balance, peak, request, prefsVars, adminVars, clockVars,
                   historyVars>>

\* Mutant: the stored total of the day counts down.
StorePrefsDown(i, a) ==
    /\ job[i].step = "prefs"
    /\ today' = [today EXCEPT ![job[i].dev] = @ - a]
    /\ last' = [last EXCEPT ![job[i].dev] = now]
    /\ job' = [job EXCEPT ![i].step = "done"]
    /\ UNCHANGED <<balance, peak, request, adminVars, clockVars, historyVars>>

\* The last continuation: the amount a the text field shows by now replaces
\* what was withdrawn today.
StorePrefs(i, a) ==
    /\ job[i].step = "prefs"
    /\ today' = [today EXCEPT ![job[i].dev] = a]
    /\ last' = [last EXCEPT ![job[i].dev] = now]
    /\ job' = [job EXCEPT ![i].step = "done"]
    /\ UNCHANGED <<balance, peak, request, adminVars, clockVars, historyVars>>

-----------------------------------------------------------------------------
(***************************************************************************)
(* The admin panel.  getWithdrawalsProvider reads all requests once, and   *)
(* WithrawalModel.fromMap throws on one whose bank details are null.       *)
(***************************************************************************)
Parses(q) == q.status # "none" => q.bank

GetWithdrawals(a) ==
    /\ \A i \in Ids : Parses(request[i])
    /\ list' = [list EXCEPT ![a] = request]
    /\ UNCHANGED <<balance, peak, request, job, prefsVars, clockVars, historyVars>>

\* APPROVE and REJECT, offered while the loaded request is pending.  The
\* model they send has no bank details, and update() writes them as null.
UpdateStatus(a, i, s) ==
    /\ list[a][i].status = "pending"
    /\ request' = [request EXCEPT ![i] =
          [status |-> s, amount |-> list[a][i].amount, bank |-> FALSE]]
    /\ UNCHANGED <<balance, peak, job, prefsVars, adminVars, clockVars, historyVars>>

-----------------------------------------------------------------------------
\* Dymonds reach the wallet in other ways (see Wallet).
Credit ==
    /\ credits < MaxCredit
    /\ credits' = credits + 1
    /\ balance' = balance + 1
    /\ peak' = IF balance' > peak THEN balance' ELSE peak
    /\ UNCHANGED <<request, job, prefsVars, adminVars, now, historyVars>>

\* Time passes; a new day begins at every multiple of Day.
Tick ==
    /\ now < MaxNow
    /\ now' = now + 1
    /\ drawn' = IF now' % Day = 0 THEN [d \in Devices |-> 0] ELSE drawn
    /\ UNCHANGED <<balance, peak, request, job, prefsVars, adminVars, credits,
                   lost>>

Continue(i) ==
    \/ MinusBalanceCheck(i)
    \/ MinusBalanceDebit(i)
    \/ AddWithdrawalStore(i)
    \/ AddWithdrawalLog(i)
    \/ \E a \in Amounts : StorePrefs(i, a)

Next ==
    \/ \E i \in Ids :
          \/ \E d \in Devices, a \in Amounts : OnWithdraw(d, i, a)
          \/ Continue(i)
    \/ \E a \in Admins :
          \/ GetWithdrawals(a)
          \/ \E i \in Ids : \E s \in {"approved", "rejected"} : UpdateStatus(a, i, s)
    \/ Credit
    \/ Tick

Spec == Init /\ [][Next]_vars
-----------------------------------------------------------------------------
(***************************************************************************)
(* Properties.                                                             *)
(***************************************************************************)

Requested == SumFunctionOnSet([i \in Ids |-> request[i].amount], Ids)

\* Dymonds taken by handlers that have not stored their request yet.
Taken ==
    SumFunctionOnSet(
        [i \in Ids |-> IF job[i].step = "store" THEN job[i].amt ELSE 0], Ids)

\* The wallet is short of exactly what was requested, is about to be
\* requested, or was lost because a request could not be stored or the answer
\* to a debit did not arrive: no request is stored without its debit, and no
\* failure or decision of an administrator, however stale the list, pays a
\* request twice.
Accounted == balance = Funds + credits - Requested - Taken - lost

\* "You have reached your daily withdrawal limit": what one device requests
\* in a day stays within the limit.
DailyLimitKept == \A d \in Devices : drawn[d] <= Limit

\* Every stored request can be read back by the admin panel, whose
\* WithrawalModel.fromMap asserts `map['accountNumber'] as int`.
RequestsParse == \A i \in Ids : Parses(request[i])
=============================================================================
