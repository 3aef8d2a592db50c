--------------------------- MODULE WithdrawProofs ---------------------------
(***************************************************************************)
(* Proofs about Withdraw, for any number of devices, administrators and    *)
(* requests: its types, and that every dymond the wallet is short of is    *)
(* accounted for.                                                          *)
(***************************************************************************)
EXTENDS Withdraw, SumTheorems


USE DEF prefsVars, adminVars, clockVars, historyVars

\* The records that handlers and requests begin as have their types.
LEMMA RecordTypes == New \in Job /\ NoRequest \in Request
<1>1. (CHOOSE d \in Devices : TRUE) \in Devices
  BY WithdrawAssumption
<1> QED BY <1>1 DEF New, Job, Steps, NoRequest, Request, Status

\* A handler that goes on to another step keeps its type.
LEMMA JobEdits ==
    ASSUME TypeOK, NEW i \in Ids, NEW s \in Steps
    PROVE  /\ job[i] \in Job /\ job[i].dev \in Devices /\ job[i].amt \in Nat
           /\ [job EXCEPT ![i].step = s] \in [Ids -> Job]
           /\ [job EXCEPT ![i] = AnswerLost(i)] \in [Ids -> Job]
<1>1. job \in [Ids -> Job] /\ job[i] \in Job
  BY DEF TypeOK
<1>2. [job[i] EXCEPT !.step = s] \in Job
  BY <1>1 DEF Job
<1>3. job[i].dev \in Devices /\ job[i].amt \in Nat
  BY <1>1 DEF Job
<1>4. AnswerLost(i) \in Job
  <2>1. [job[i] EXCEPT !.tries = @ + 1] \in Job
    BY <1>1 DEF Job
  <2>2. [job[i] EXCEPT !.step = "done"] \in Job
    BY <1>1 DEF Job, Steps
  <2> QED BY <2>1, <2>2 DEF AnswerLost
<1> QED BY <1>1, <1>2, <1>3, <1>4

\* Every step of a handler keeps the types.
LEMMA HandlerType ==
    ASSUME TypeOK, NEW i \in Ids,
           \/ \E d \in Devices, a \in Amounts : OnWithdraw(d, i, a)
           \/ Continue(i)
    PROVE  TypeOK'
<1> USE WithdrawAssumption
<1>1. ASSUME NEW d \in Devices, NEW a \in Amounts, OnWithdraw(d, i, a)
      PROVE  TypeOK'
  <2> DEFINE spent == IF DayPassed(d) THEN 0 ELSE today[d]
             step == IF a <= Limit - spent THEN "check" ELSE "done"
  <2>1. spent \in Nat /\ a \in Nat /\ step \in Steps
    BY DEF TypeOK, Steps
  <2>2. /\ today' = [today EXCEPT ![d] = spent]
        /\ job' = [job EXCEPT ![i] = [step |-> step, dev |-> d, amt |-> a,
                                         tries |-> 0]]
        /\ UNCHANGED <<balance, peak, request, last, list, now, credits, lost, drawn>>
    BY <1>1 DEF OnWithdraw
  <2> HIDE DEF spent, step
  <2>3. [step |-> step, dev |-> d, amt |-> a, tries |-> 0] \in Job
    BY <2>1 DEF Job
  <2> QED BY <2>1, <2>2, <2>3 DEF TypeOK
<1>2. CASE MinusBalanceCheck(i)
  <2>1. "done" \in Steps /\ "debit" \in Steps
    BY DEF Steps
  <2>2. job' \in [Ids -> Job]
    <3>1. /\ [job EXCEPT ![i].step = "debit"] \in [Ids -> Job]
          /\ [job EXCEPT ![i].step = "done"] \in [Ids -> Job]
      BY <2>1, JobEdits
    <3> QED BY <1>2, <3>1 DEF MinusBalanceCheck
  <2> QED BY <1>2, <2>2 DEF MinusBalanceCheck, TypeOK
<1>3. CASE MinusBalanceDebit(i)
  <2>1. "done" \in Steps /\ "store" \in Steps
    BY DEF Steps
  <2>2. job' \in [Ids -> Job]
    <3>1. /\ [job EXCEPT ![i].step = "store"] \in [Ids -> Job]
          /\ [job EXCEPT ![i].step = "done"] \in [Ids -> Job]
          /\ [job EXCEPT ![i] = AnswerLost(i)] \in [Ids -> Job]
      BY <2>1, JobEdits
    <3> QED BY <1>3, <3>1 DEF MinusBalanceDebit
  <2>3. balance' \in Int /\ lost' \in Nat
    <3>1. job[i].amt \in Nat /\ balance \in Int /\ lost \in Nat
      BY <2>1, JobEdits DEF TypeOK
    <3> QED BY <1>3, <3>1 DEF MinusBalanceDebit
  <2> QED BY <1>3, <2>2, <2>3 DEF MinusBalanceDebit, TypeOK
<1>4. CASE AddWithdrawalStore(i)
  <2>1. "done" \in Steps /\ "log" \in Steps
    BY DEF Steps
  <2>2. job' \in [Ids -> Job]
    <3>1. /\ [job EXCEPT ![i].step = "log"] \in [Ids -> Job]
          /\ [job EXCEPT ![i].step = "done"] \in [Ids -> Job]
      BY <2>1, JobEdits
    <3> QED BY <1>4, <3>1 DEF AddWithdrawalStore
  <2>3. lost' \in Nat
    BY <1>4, <2>1, JobEdits DEF AddWithdrawalStore, TypeOK
  <2>4. drawn' \in [Devices -> Nat]
    BY <1>4, <2>1, JobEdits DEF AddWithdrawalStore, TypeOK
  <2>5. request' \in [Ids -> Request]
    <3>1. [status |-> "pending", amount |-> job[i].amt, bank |-> TRUE] \in Request
      BY <2>1, JobEdits DEF Request, Status
    <3> QED BY <1>4, <3>1 DEF AddWithdrawalStore, TypeOK
  <2> QED BY <1>4, <2>2, <2>3, <2>4, <2>5 DEF AddWithdrawalStore, TypeOK
<1>5. CASE AddWithdrawalLog(i)
  <2>1. "done" \in Steps /\ "prefs" \in Steps
    BY DEF Steps
  <2>2. job' \in [Ids -> Job]
    <3>1. /\ [job EXCEPT ![i].step = "prefs"] \in [Ids -> Job]
          /\ [job EXCEPT ![i].step = "done"] \in [Ids -> Job]
      BY <2>1, JobEdits
    <3> QED BY <1>5, <3>1 DEF AddWithdrawalLog
  <2> QED BY <1>5, <2>2 DEF AddWithdrawalLog, TypeOK
<1>6. ASSUME NEW a \in Amounts, StorePrefs(i, a) PROVE TypeOK'
  <2>1. "done" \in Steps /\ a \in Nat
    BY DEF Steps
  <2>2. job' \in [Ids -> Job] /\ job[i].dev \in Devices
    BY <1>6, <2>1, JobEdits DEF StorePrefs
  <2>3. today' \in [Devices -> Nat] /\ last' \in [Devices -> Nat \cup {Never}]
    BY <1>6, <2>1, <2>2 DEF StorePrefs, TypeOK
  <2> QED BY <1>6, <2>2, <2>3 DEF StorePrefs, TypeOK
<1> QED BY <1>1, <1>2, <1>3, <1>4, <1>5, <1>6 DEF Continue

\* So do the administrators, credits and the clock.
LEMMA OthersType ==
    ASSUME TypeOK,
           \/ \E a \in Admins :
                 \/ GetWithdrawals(a)
                 \/ \E i \in Ids : \E s \in {"approved", "rejected"} :
                       UpdateStatus(a, i, s)
           \/ Credit
           \/ Tick
    PROVE  TypeOK'
<1>1. ASSUME NEW a \in Admins, GetWithdrawals(a) PROVE TypeOK'
  BY <1>1 DEF GetWithdrawals, TypeOK
<1>2. ASSUME NEW a \in Admins, NEW i \in Ids,
             NEW s \in {"approved", "rejected"}, UpdateStatus(a, i, s)
      PROVE  TypeOK'
  <2>1. list[a][i] \in Request
    BY DEF TypeOK
  <2>2. [status |-> s, amount |-> list[a][i].amount, bank |-> FALSE] \in Request
    BY <2>1 DEF Request, Status
  <2> QED BY <1>2, <2>2 DEF UpdateStatus, TypeOK
<1>3. CASE Credit
  BY <1>3 DEF Credit, TypeOK
<1>4. CASE Tick
  BY <1>4 DEF Tick, TypeOK
<1> QED BY <1>1, <1>2, <1>3, <1>4

\* Requests, handlers, preferences and lists keep their types.
THEOREM TypeCorrect == Spec => []TypeOK
<1>1. Init => TypeOK
  <2> SUFFICES ASSUME Init PROVE TypeOK
    OBVIOUS
  <2> QED BY RecordTypes, WithdrawAssumption DEF Init, TypeOK
<1>2. TypeOK /\ [Next]_vars => TypeOK'
  <2> SUFFICES ASSUME TypeOK, [Next]_vars PROVE TypeOK'
    OBVIOUS
  <2>1. CASE Next
    BY <2>1, HandlerType, OthersType DEF Next
  <2>2. CASE UNCHANGED vars
    BY <2>2 DEF vars, TypeOK
  <2> QED BY <2>1, <2>2
<1> QED BY <1>1, <1>2, PTL DEF Spec

-----------------------------------------------------------------------------
(***************************************************************************)
(* The account.  That a decision of an administrator, taken from a list of *)
(* any age, leaves the account as it is rests on two facts: no request is  *)
(* listed before its handler has stored it, and the amount of a request    *)
(* never changes once it is.                                               *)
(***************************************************************************)

\* A handler that has not stored its request is the only one that will: there
\* is no such document, and no administrator has loaded one.
Fresh ==
    \A i \in Ids :
        job[i].step \in {"new", "check", "debit", "store"} =>
            /\ request[i] = NoRequest
            /\ \A a \in Admins : list[a][i].status = "none"

\* A list that an administrator holds is stale, but not in the amounts.
AmountsKnown ==
    \A a \in Admins, i \in Ids :
        list[a][i].status # "none" => list[a][i].amount = request[i].amount

AccountInv == Fresh /\ AmountsKnown /\ Accounted

RequestedOf(i) == request[i].amount
TakenOf(i)     == IF job[i].step = "store" THEN job[i].amt ELSE 0

\* The two sums are integers, and a step that changes the terms of one request
\* changes the sums as much.
LEMMA SumsChange ==
    ASSUME TypeOK, TypeOK', NEW i \in Ids,
           \A k \in Ids \ {i} : RequestedOf(k)' = RequestedOf(k)
                             /\ TakenOf(k)' = TakenOf(k)
    PROVE  /\ Requested \in Int /\ Taken \in Int
           /\ RequestedOf(i) \in Nat /\ TakenOf(i) \in Nat
           /\ RequestedOf(i)' \in Nat /\ TakenOf(i)' \in Nat
           /\ Requested' = Requested - RequestedOf(i) + RequestedOf(i)'
           /\ Taken' = Taken - TakenOf(i) + TakenOf(i)'
<1> DEFINE f == [k \in Ids |-> request[k].amount]
           g == [k \in Ids |-> IF job[k].step = "store" THEN job[k].amt ELSE 0]
<1>1. IsFiniteSet(Ids)
  BY WithdrawAssumption
<1>2. \A k \in Ids : RequestedOf(k) \in Nat /\ TakenOf(k) \in Nat
  BY DEF TypeOK, Request, Job, RequestedOf, TakenOf
<1>3. \A k \in Ids : RequestedOf(k)' \in Nat /\ TakenOf(k)' \in Nat
  BY DEF TypeOK, Request, Job, RequestedOf, TakenOf
<1>4. /\ \A k \in Ids : f[k] = RequestedOf(k) /\ f'[k] = RequestedOf(k)'
      /\ \A k \in Ids : g[k] = TakenOf(k) /\ g'[k] = TakenOf(k)'
  BY DEF RequestedOf, TakenOf
<1>5. /\ Requested = SumFunctionOnSet(f, Ids)
      /\ Requested' = SumFunctionOnSet(f', Ids)
      /\ Taken = SumFunctionOnSet(g, Ids)
      /\ Taken' = SumFunctionOnSet(g', Ids)
  BY DEF Requested, Taken
<1> HIDE DEF f, g
<1>6. /\ \A k \in Ids : f[k] \in Int /\ f'[k] \in Int
      /\ \A k \in Ids : g[k] \in Int /\ g'[k] \in Int
  BY <1>2, <1>3, <1>4
<1>7. /\ \A k \in Ids \ {i} : f[k] = f'[k]
      /\ \A k \in Ids \ {i} : g[k] = g'[k]
  BY <1>4
<1>8. SumFunctionOnSet(f', Ids) = SumFunctionOnSet(f, Ids) - f[i] + f'[i]
  BY <1>1, <1>6, <1>7, SumChange
<1>9. SumFunctionOnSet(g', Ids) = SumFunctionOnSet(g, Ids) - g[i] + g'[i]
  BY <1>1, <1>6, <1>7, SumChange
<1>10. SumFunctionOnSet(f, Ids) \in Int /\ SumFunctionOnSet(g, Ids) \in Int
  BY <1>1, <1>6, SumTake
<1> QED BY <1>2, <1>3, <1>4, <1>5, <1>8, <1>9, <1>10

\* A step that takes no term of the account anywhere leaves it as it is.
LEMMA AccountKept ==
    ASSUME TypeOK, TypeOK', Accounted, UNCHANGED <<balance, credits, lost>>,
           \A k \in Ids : RequestedOf(k)' = RequestedOf(k)
                       /\ TakenOf(k)' = TakenOf(k)
    PROVE  Accounted'
<1>1. CASE Ids = {}
  <2>1. UNCHANGED <<Requested, Taken>>
    BY <1>1, SumEmpty DEF Requested, Taken
  <2> QED BY <2>1 DEF Accounted
<1>2. ASSUME NEW i \in Ids PROVE Accounted'
  <2>1. Requested' = Requested /\ Taken' = Taken
    BY SumsChange
  <2> QED BY <2>1 DEF Accounted
<1> QED BY <1>1, <1>2

\* What the steps of a handler do to its job.
LEMMA JobMoves ==
    ASSUME TypeOK, NEW i \in Ids, Continue(i)
    PROVE  /\ MinusBalanceCheck(i) => job'[i].step \in {"done", "debit"}
           /\ MinusBalanceDebit(i) =>
                 \/ /\ job'[i].step = "store" /\ job'[i].amt = job[i].amt
                    /\ balance' = balance - job[i].amt /\ lost' = lost
                 \/ /\ job'[i].step \in {"debit", "done"}
                    /\ balance' = balance - job[i].amt
                    /\ lost' = lost + job[i].amt
                 \/ /\ job'[i].step = "done"
                    /\ balance' = balance /\ lost' = lost
           /\ AddWithdrawalStore(i) => job'[i].step \in {"log", "done"}
           /\ AddWithdrawalLog(i) => job'[i].step \in {"prefs", "done"}
           /\ \A a \in Amounts : StorePrefs(i, a) => job'[i].step = "done"
<1>1. ASSUME NEW s, job' = [job EXCEPT ![i].step = s]
      PROVE  job'[i].step = s /\ job'[i].amt = job[i].amt
  BY <1>1 DEF TypeOK, Job
<1>2. MinusBalanceCheck(i) => job'[i].step \in {"done", "debit"}
  BY <1>1 DEF MinusBalanceCheck
<1>l. ASSUME MinusBalanceDebit(i), job' = [job EXCEPT ![i] = AnswerLost(i)]
      PROVE  job'[i].step \in {"debit", "done"}
  <2>1. job'[i] = AnswerLost(i) /\ job[i].step = "debit" /\ job[i] \in Job
    BY <1>l DEF TypeOK, MinusBalanceDebit
  <2>2. [job[i] EXCEPT !.tries = @ + 1].step = "debit"
    BY <2>1 DEF Job
  <2>3. [job[i] EXCEPT !.step = "done"].step = "done"
    BY <2>1 DEF Job
  <2> QED BY <2>1, <2>2, <2>3 DEF AnswerLost
<1>3. MinusBalanceDebit(i) =>
         \/ /\ job'[i].step = "store" /\ job'[i].amt = job[i].amt
            /\ balance' = balance - job[i].amt /\ lost' = lost
         \/ /\ job'[i].step \in {"debit", "done"}
            /\ balance' = balance - job[i].amt
            /\ lost' = lost + job[i].amt
         \/ /\ job'[i].step = "done"
            /\ balance' = balance /\ lost' = lost
  BY <1>1, <1>l DEF MinusBalanceDebit
<1>4. AddWithdrawalStore(i) => job'[i].step \in {"log", "done"}
  BY <1>1 DEF AddWithdrawalStore
<1>5. AddWithdrawalLog(i) => job'[i].step \in {"prefs", "done"}
  BY <1>1 DEF AddWithdrawalLog
<1>6. ASSUME NEW a \in Amounts, StorePrefs(i, a) PROVE job'[i].step = "done"
  BY <1>1, <1>6 DEF StorePrefs
<1> QED BY <1>2, <1>3, <1>4, <1>5, <1>6

\* A step of handler i towards storing its request.
LEMMA HandlerAccount ==
    ASSUME TypeOK, TypeOK', AccountInv, NEW i \in Ids, Continue(i)
    PROVE  AccountInv'
<1> USE DEF AccountInv
<1>1. \A k \in Ids \ {i} : job'[k] = job[k] /\ request'[k] = request[k]
  BY DEF TypeOK, Continue, MinusBalanceCheck, MinusBalanceDebit,
         AddWithdrawalStore, AddWithdrawalLog, StorePrefs
<1>2. \A k \in Ids \ {i} : RequestedOf(k)' = RequestedOf(k)
                        /\ TakenOf(k)' = TakenOf(k)
  BY <1>1 DEF RequestedOf, TakenOf
<1>3. list' = list
  BY DEF Continue, MinusBalanceCheck, MinusBalanceDebit,
         AddWithdrawalStore, AddWithdrawalLog, StorePrefs
<1>4. /\ Requested \in Int /\ Taken \in Int
      /\ RequestedOf(i) \in Nat /\ TakenOf(i) \in Nat
      /\ RequestedOf(i)' \in Nat /\ TakenOf(i)' \in Nat
      /\ Requested' = Requested - RequestedOf(i) + RequestedOf(i)'
      /\ Taken' = Taken - TakenOf(i) + TakenOf(i)'
  BY <1>2, SumsChange
<1>5. /\ job[i].step \in Steps /\ job[i].amt \in Nat
      /\ balance \in Int /\ credits \in Nat /\ lost \in Nat /\ Funds \in Nat
  BY WithdrawAssumption DEF TypeOK, Job
<1>6. Fresh'
  <2>1. job'[i].step \in {"new", "check", "debit", "store"} =>
           job[i].step \in {"new", "check", "debit", "store"} /\ request' = request
    BY JobMoves DEF Continue, MinusBalanceCheck, MinusBalanceDebit,
                    AddWithdrawalStore, AddWithdrawalLog, StorePrefs
  <2> QED BY <1>1, <1>3, <2>1 DEF Fresh
<1>7. AmountsKnown'
  <2>1. request'[i] # request[i] => job[i].step = "store"
    BY DEF TypeOK, Continue, MinusBalanceCheck, MinusBalanceDebit,
           AddWithdrawalStore, AddWithdrawalLog, StorePrefs
  <2> QED BY <1>1, <1>3, <2>1 DEF Fresh, AmountsKnown
<1>8. Accounted'
  <2>1. CASE \/ MinusBalanceCheck(i)
             \/ AddWithdrawalLog(i)
             \/ \E a \in Amounts : StorePrefs(i, a)
    <3>1. job'[i].step # "store" /\ job[i].step # "store"
      BY <2>1, JobMoves DEF MinusBalanceCheck, AddWithdrawalLog, StorePrefs
    <3>2. TakenOf(i)' = TakenOf(i)
      BY <3>1 DEF TakenOf
    <3>3. request' = request /\ UNCHANGED <<balance, credits, lost>>
      BY <2>1 DEF MinusBalanceCheck, AddWithdrawalLog, StorePrefs
    <3>4. \A k \in Ids : RequestedOf(k)' = RequestedOf(k)
                      /\ TakenOf(k)' = TakenOf(k)
      BY <1>2, <3>2, <3>3 DEF RequestedOf
    <3> QED BY <3>3, <3>4, AccountKept
  <2>2. CASE MinusBalanceDebit(i)
    <3>1. RequestedOf(i)' = RequestedOf(i) /\ UNCHANGED credits
      BY <2>2 DEF MinusBalanceDebit, RequestedOf
    <3>2. TakenOf(i) = 0
      BY <2>2 DEF MinusBalanceDebit, TakenOf
    <3>3. balance' + TakenOf(i)' + lost' = balance + lost
      BY <2>2, <1>4, <1>5, JobMoves DEF TakenOf
    <3>4. balance' \in Int /\ lost' \in Nat
      BY DEF TypeOK
    <3> QED BY <1>4, <1>5, <3>1, <3>2, <3>3, <3>4 DEF Accounted
  <2>3. CASE AddWithdrawalStore(i)
    <3>1. /\ TakenOf(i) = job[i].amt /\ TakenOf(i)' = 0
          /\ UNCHANGED <<balance, credits>>
      BY <2>3, JobMoves DEF AddWithdrawalStore, TakenOf
    <3>2. RequestedOf(i) = 0
      BY <2>3 DEF AddWithdrawalStore, Fresh, RequestedOf, NoRequest
    <3>3. \/ RequestedOf(i)' = job[i].amt /\ lost' = lost
          \/ RequestedOf(i)' = 0 /\ lost' = lost + job[i].amt
      BY <2>3, <3>2 DEF AddWithdrawalStore, RequestedOf, TypeOK
    <3>4. balance = Funds + credits - Requested - Taken - lost
      BY DEF Accounted
    <3>5. /\ Requested' = Requested + RequestedOf(i)'
          /\ Taken' = Taken - job[i].amt
      BY <1>4, <1>5, <3>1, <3>2
    <3>6. balance' = Funds + credits' - Requested' - Taken' - lost'
      BY <1>4, <1>5, <3>1, <3>3, <3>4, <3>5
    <3> QED BY <3>6 DEF Accounted
  <2>4. \/ \/ MinusBalanceCheck(i)
           \/ AddWithdrawalLog(i)
           \/ \E a \in Amounts : StorePrefs(i, a)
        \/ MinusBalanceDebit(i)
        \/ AddWithdrawalStore(i)
    BY DEF Continue
  <2> QED BY <2>1, <2>2, <2>3, <2>4
<1> QED BY <1>6, <1>7, <1>8

\* The tap that starts a handler takes nothing yet.
LEMMA TapAccount ==
    ASSUME TypeOK, TypeOK', AccountInv, NEW i \in Ids, NEW d \in Devices,
           NEW a \in Amounts, OnWithdraw(d, i, a)
    PROVE  AccountInv'
<1> USE DEF AccountInv
<1>1. \A k \in Ids \ {i} : job'[k] = job[k]
  BY DEF OnWithdraw, TypeOK
<1>2. job[i].step = "new" /\ job'[i].step \in {"check", "done"}
  BY DEF OnWithdraw, TypeOK
<1>3. UNCHANGED <<balance, request, list, credits, lost>>
  BY DEF OnWithdraw
<1>4. Fresh'
  BY <1>1, <1>2, <1>3 DEF Fresh
<1>5. AmountsKnown'
  BY <1>3 DEF AmountsKnown
<1>6. \A k \in Ids : RequestedOf(k)' = RequestedOf(k) /\ TakenOf(k)' = TakenOf(k)
  BY <1>1, <1>2, <1>3 DEF RequestedOf, TakenOf
<1>7. Accounted'
  BY <1>3, <1>6, AccountKept
<1> QED BY <1>4, <1>5, <1>7

\* An administrator who loads the requests or decides one, from whatever list.
LEMMA AdminAccount ==
    ASSUME TypeOK, TypeOK', AccountInv, NEW a \in Admins,
           \/ GetWithdrawals(a)
           \/ \E i \in Ids : \E s \in {"approved", "rejected"} : UpdateStatus(a, i, s)
    PROVE  AccountInv'
<1> USE DEF AccountInv
<1>1. UNCHANGED <<balance, job, credits, lost>>
  BY DEF GetWithdrawals, UpdateStatus
<1>2. \A k \in Ids : TakenOf(k)' = TakenOf(k)
  BY <1>1 DEF TakenOf
<1>3. CASE GetWithdrawals(a)
  <2>1. request' = request /\ list' = [list EXCEPT ![a] = request]
    BY <1>3 DEF GetWithdrawals
  <2>2. \A b \in Admins : list'[b] = list[b] \/ list'[b] = request
    BY <2>1 DEF TypeOK
  <2>3. Fresh'
    BY <1>1, <2>1, <2>2 DEF Fresh, NoRequest
  <2>4. AmountsKnown'
    BY <2>1, <2>2 DEF AmountsKnown
  <2>5. Accounted'
    BY <1>1, <1>2, <2>1, AccountKept DEF RequestedOf
  <2> QED BY <2>3, <2>4, <2>5
<1>4. ASSUME NEW i \in Ids, NEW s \in {"approved", "rejected"},
             UpdateStatus(a, i, s)
      PROVE  AccountInv'
  <2>1. /\ list[a][i].status = "pending" /\ list' = list
        /\ request' = [request EXCEPT ![i] =
             [status |-> s, amount |-> list[a][i].amount, bank |-> FALSE]]
    BY <1>4 DEF UpdateStatus
  <2>2. job[i].step \notin {"new", "check", "debit", "store"}
    BY <2>1 DEF Fresh
  <2>3. \A k \in Ids \ {i} : request'[k] = request[k]
    BY <2>1 DEF TypeOK
  <2>4. request'[i].amount = request[i].amount
    BY <2>1 DEF AmountsKnown, TypeOK
  <2>5. Fresh'
    BY <1>1, <2>1, <2>2, <2>3 DEF Fresh
  <2>6. AmountsKnown'
    BY <2>1, <2>3, <2>4 DEF AmountsKnown
  <2>7. \A k \in Ids : RequestedOf(k)' = RequestedOf(k)
    BY <2>3, <2>4 DEF RequestedOf
  <2>8. Accounted'
    BY <1>1, <1>2, <2>7, AccountKept
  <2> QED BY <2>5, <2>6, <2>8
<1> QED BY <1>3, <1>4

\* Dymonds that arrive, and time.
LEMMA WorldAccount ==
    ASSUME TypeOK, TypeOK', AccountInv, Credit \/ Tick
    PROVE  AccountInv'
<1> USE DEF AccountInv
<1>1. UNCHANGED <<request, job, list, lost>>
  BY DEF Credit, Tick
<1>2. Fresh' /\ AmountsKnown'
  BY <1>1 DEF Fresh, AmountsKnown
<1>3. Requested' = Requested /\ Taken' = Taken
  BY <1>1 DEF Requested, Taken
<1>4. CASE Tick
  BY <1>1, <1>2, <1>3, <1>4 DEF Tick, Accounted
<1>5. CASE Credit
  <2>1. Requested \in Int /\ Taken \in Int
    <3>1. \A k \in Ids : request[k].amount \in Int /\ job[k].amt \in Int
      BY DEF TypeOK, Request, Job
    <3> QED BY <3>1, WithdrawAssumption, SumTake DEF Requested, Taken
  <2>2. credits' = credits + 1 /\ balance' = balance + 1 /\ lost' = lost
    BY <1>5 DEF Credit
  <2>3. balance \in Int /\ credits \in Nat /\ lost \in Nat /\ Funds \in Nat
    BY WithdrawAssumption DEF TypeOK
  <2>4. Accounted'
    BY <1>3, <2>1, <2>2, <2>3 DEF Accounted
  <2> QED BY <1>2, <2>4
<1> QED BY <1>4, <1>5

\* Every dymond the wallet is short of was requested, is about to be, or was
\* lost with a request that could not be stored: for any number of devices
\* tapping at once, and administrators deciding from lists of any age.
THEOREM WithdrawalsAccounted == Spec => []Accounted
<1>1. Init => AccountInv
  <2> SUFFICES ASSUME Init PROVE AccountInv
    OBVIOUS
  <2>1. Fresh /\ AmountsKnown
    BY DEF Init, Fresh, AmountsKnown, NoRequest
  <2> DEFINE f == [i \in Ids |-> 0]
  <2>2. /\ [i \in Ids |-> request[i].amount] = f
        /\ [i \in Ids |-> IF job[i].step = "store" THEN job[i].amt ELSE 0] = f
    BY DEF Init, NoRequest, New
  <2>3. Requested = SumFunctionOnSet(f, Ids) /\ Taken = SumFunctionOnSet(f, Ids)
    BY <2>2 DEF Requested, Taken
  <2>4. SumFunctionOnSet(f, Ids) = 0
    <3>1. \A i \in Ids : f[i] \in Nat /\ f[i] <= 0
      OBVIOUS
    <3> HIDE DEF f
    <3>2. Cardinality(Ids) \in Nat /\ IsFiniteSet(Ids)
      BY WithdrawAssumption, FS_CardinalityType
    <3>3. /\ SumFunctionOnSet(f, Ids) \in Nat
          /\ SumFunctionOnSet(f, Ids) <= Cardinality(Ids) * 0
      BY <3>1, <3>2, SumBound
    <3>4. Cardinality(Ids) * 0 = 0
      BY <3>2
    <3> QED BY <3>3, <3>4
  <2> HIDE DEF f
  <2>5. Accounted
    BY <2>3, <2>4, WithdrawAssumption DEF Init, Accounted
  <2> QED BY <2>1, <2>5 DEF AccountInv
<1>2. TypeOK /\ TypeOK' /\ AccountInv /\ [Next]_vars => AccountInv'
  <2> SUFFICES ASSUME TypeOK, TypeOK', AccountInv, [Next]_vars PROVE AccountInv'
    OBVIOUS
  <2>1. CASE Next
    BY <2>1, HandlerAccount, TapAccount, AdminAccount, WorldAccount DEF Next
  <2>2. CASE UNCHANGED vars
    <3>1. UNCHANGED <<Requested, Taken, balance, credits, lost>>
      BY <2>2 DEF vars, Requested, Taken
    <3>2. Accounted'
      BY <3>1 DEF AccountInv, Accounted
    <3> QED BY <2>2, <3>2 DEF vars, AccountInv, Fresh, AmountsKnown
  <2> QED BY <2>1, <2>2
<1>3. AccountInv => Accounted
  BY DEF AccountInv
<1> QED BY <1>1, <1>2, <1>3, TypeCorrect, PTL DEF Spec
=============================================================================
