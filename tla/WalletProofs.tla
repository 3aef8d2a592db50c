---------------------------- MODULE WalletProofs ----------------------------
(***************************************************************************)
(* What holds of the wallets for every set of users, handlers and amounts: *)
(* the type invariant, the isolation of the transfer transaction, the      *)
(* refinement of WalletLedger, that services are paid for, and how deep    *)
(* concurrent spends can take a wallet into debt.                          *)
(***************************************************************************)
EXTENDS Wallet, SumTheorems

\* The records that handlers are set to, and the wallets that Init and
\* createNewWalletProvider store, have their types.
LEMMA RecordTypes ==
    /\ Absent \in Wallet
    /\ NewWallet \in Wallet
    /\ \A b \in Stored : Holding(b) \in Wallet
    /\ Idle \in Job
    /\ \A u \in Users : Free(u) \in Job
<1> Empty \in [Totals -> Int]
  BY DEF Empty, Totals
<1>1. Absent \in Wallet /\ NewWallet \in Wallet
  BY DEF Absent, NewWallet, Wallet
<1>2. ASSUME NEW b \in Stored PROVE Holding(b) \in Wallet
  BY WalletAssumption DEF Holding, Wallet
<1>3. ASSUME NEW u \in Users PROVE Free(u) \in Job
  BY DEF Free, Job, Steps
<1>4. Idle \in Job
  BY <1>3, WalletAssumption DEF Idle
<1> QED BY <1>1, <1>2, <1>3, <1>4

\* The initial wallets, snapshots and handlers are well typed.
LEMMA TypeInit == Init => TypeOK
<1> SUFFICES ASSUME Init PROVE TypeOK
  OBVIOUS
<1>1. doc \in [Users -> Wallet] /\ view \in [Users -> Wallet]
  BY RecordTypes DEF Init
<1>2. job \in [Handlers -> Job] /\ taps \in Nat
  BY RecordTypes DEF Init
<1>3. peak \in [Users -> Int]
  BY <1>1 DEF Init, Wallet
<1>4. shown \in [Users -> Nat] /\ overdrawn \in [Users -> Nat]
  BY DEF Init
<1>5. granted \in [Users -> [Counted -> Nat]] /\ spent = granted
  BY <1>4 DEF Init
<1> QED BY <1>1, <1>2, <1>3, <1>4, <1>5 DEF TypeOK

\* The two ways a handler proceeds keep the types, whatever it proceeds to.
LEMMA GotoType ==
    ASSUME TypeOK, NEW h \in Handlers, NEW j \in Job, Goto(h, j)
    PROVE  /\ doc' \in [Users -> Wallet] /\ peak' \in [Users -> Int]
           /\ job' \in [Handlers -> Job]
BY DEF TypeOK, Goto

\* A write of wallets keeps the types of documents and handlers.
LEMMA WriteType ==
    ASSUME TypeOK, NEW h \in Handlers, NEW W, NEW j \in Job,
           NEW d \in [Users -> Wallet], Write(h, W, d, j)
    PROVE  /\ doc' \in [Users -> Wallet] /\ peak' \in [Users -> Int]
           /\ job' \in [Handlers -> Job]
<1>1. \A g \in Handlers : [job[g] EXCEPT !.fresh = FALSE] \in Job
  BY DEF TypeOK, Job
<1>2. doc' \in [Users -> Wallet] /\ job' \in [Handlers -> Job]
  BY <1>1 DEF TypeOK, Write
<1>3. peak' \in [Users -> Int]
  BY DEF TypeOK, Write, Wallet
<1> QED BY <1>2, <1>3

\* An attempt that is made again begins as the one before it did, but for
\* the step; after the last one the handler goes on as j.
LEMMA AgainJob ==
    ASSUME TypeOK, NEW h \in Handlers, NEW first \in Steps, NEW j \in Job
    PROVE  /\ Again(h, first, j) \in Job
           /\ \/ Again(h, first, j) = j
              \/ /\ Again(h, first, j).step = first
                 /\ Again(h, first, j).what = job[h].what
                 /\ Again(h, first, j).user = job[h].user
                 /\ Again(h, first, j).mine = job[h].mine
                 /\ Again(h, first, j).amt = job[h].amt
<1> DEFINE i == [job[h] EXCEPT !.step = first, !.fresh = TRUE, !.tries = @ + 1]
<1>1. job[h] \in Job /\ job[h].tries + 1 \in Nat
  BY DEF TypeOK, Job
<1>2. i \in Job
  BY <1>1 DEF Job
<1>3. /\ i.step = first /\ i.what = job[h].what /\ i.user = job[h].user
      /\ i.mine = job[h].mine /\ i.amt = job[h].amt
  BY <1>1 DEF Job
<1>4. Again(h, first, j) = i \/ Again(h, first, j) = j
  BY DEF Again
<1> HIDE DEF i
<1> QED BY <1>2, <1>3, <1>4

\* A transaction that runs again, or gives up, keeps the types.
LEMMA ConflictType ==
    ASSUME TypeOK, NEW h \in Handlers, NEW first \in Steps, Conflict(h, first)
    PROVE  /\ doc' \in [Users -> Wallet] /\ peak' \in [Users -> Int]
           /\ job' \in [Handlers -> Job]
BY AgainJob, RecordTypes, GotoType DEF Conflict

\* What handlers write are wallets.
LEMMA IncrementedType ==
    ASSUME TypeOK, NEW u \in Users, NEW x \in Int
    PROVE  Incremented(u, x) \in [Users -> Wallet]
<1>1. doc[u] \in Wallet /\ doc[u].balance + x \in Int
  BY DEF TypeOK, Wallet
<1>2. [doc[u] EXCEPT !.balance = @ + x] \in Wallet
  BY <1>1 DEF Wallet
<1> QED BY <1>2 DEF TypeOK, Incremented

\* The same for a total: FieldValue.increment on rewards, earnings or gifts.
LEMMA IncrementedTotalType ==
    ASSUME NEW d \in [Users -> Wallet], NEW u \in Users, NEW k \in Totals,
           NEW x \in Int
    PROVE  IncrementedTotal(d, u, k, x) \in [Users -> Wallet]
<1>1. d[u] \in Wallet /\ d[u].totals \in [Totals -> Int]
  BY DEF Wallet
<1>2. [d[u].totals EXCEPT ![k] = @ + x] \in [Totals -> Int]
  BY <1>1
<1> DEFINE t == [d[u].totals EXCEPT ![k] = @ + x]
           w == [d[u] EXCEPT !.totals = t]
<1>3. w \in Wallet
  <2> HIDE DEF t
  <2> QED BY <1>1, <1>2 DEF Wallet, t
<1>4. IncrementedTotal(d, u, k, x) = [d EXCEPT ![u] = w]
  BY DEF IncrementedTotal
<1> HIDE DEF w
<1> QED BY <1>3, <1>4

\* A handler that starts keeps the types.
LEMMA StartType ==
    ASSUME TypeOK, NEW h \in Handlers, NEW j \in Job, Start(h, j)
    PROVE  TypeOK'
<1>1. Goto(h, j)
  BY DEF Start
<1>2. /\ doc' \in [Users -> Wallet] /\ peak' \in [Users -> Int]
      /\ job' \in [Handlers -> Job]
  BY <1>1, GotoType
<1>3. taps' \in Nat
  BY DEF TypeOK, Start
<1> QED BY <1>2, <1>3 DEF TypeOK, Start

\* The local states that taps start from.
LEMMA JobEdits ==
    ASSUME NEW j \in Job, NEW s \in Steps
    PROVE  /\ [j EXCEPT !.step = s] \in Job
           /\ \A a \in Nat : [j EXCEPT !.step = s, !.amt = a] \in Job
           /\ \A a \in Nat : \A v \in Users :
                 [j EXCEPT !.step = s, !.peer = v, !.amt = a] \in Job
           /\ \A a \in Nat : \A w \in Services \cup Totals \cup {"none"} :
                 /\ [j EXCEPT !.step = s, !.what = w, !.amt = a] \in Job
                 /\ \A b \in Int :
                       [j EXCEPT !.step = s, !.what = w, !.amt = a,
                                 !.mine = b] \in Job
           /\ \A b \in Int : \A w \in Services \cup Totals \cup {"none"} :
                 [j EXCEPT !.step = s, !.what = w, !.mine = b] \in Job
<1>1. [j EXCEPT !.step = s] \in Job
  BY DEF Job
<1>2. ASSUME NEW a \in Nat
      PROVE  [j EXCEPT !.step = s, !.amt = a] \in Job
  BY DEF Job
<1>3. ASSUME NEW a \in Nat, NEW v \in Users
      PROVE  [j EXCEPT !.step = s, !.peer = v, !.amt = a] \in Job
  BY DEF Job
<1>4. ASSUME NEW a \in Nat, NEW w \in Services \cup Totals \cup {"none"}
      PROVE  [j EXCEPT !.step = s, !.what = w, !.amt = a] \in Job
  BY DEF Job
<1>5. ASSUME NEW a \in Nat, NEW w \in Services \cup Totals \cup {"none"},
             NEW b \in Int
      PROVE  [j EXCEPT !.step = s, !.what = w, !.amt = a, !.mine = b] \in Job
  BY DEF Job
<1>6. ASSUME NEW b \in Int, NEW w \in Services \cup Totals \cup {"none"}
      PROVE  [j EXCEPT !.step = s, !.what = w, !.mine = b] \in Job
  BY DEF Job
<1> QED BY <1>1, <1>2, <1>3, <1>4, <1>5, <1>6

\* Every tap starts a handler with a well-typed local state.
LEMMA TapType ==
    ASSUME TypeOK, NEW h \in Handlers, NEW u \in Users, Tap(h, u)
    PROVE  TypeOK'
<1>a. Free(u) \in Job /\ Amounts \subseteq Nat
  BY RecordTypes, WalletAssumption
<1>s. {"create", "credit", "check", "page", "profile", "send", "gift",
       "giftCheck", "redeem"} \subseteq Steps
  BY DEF Steps
<1>1. CASE CreateNewWallet(h, u)
  <2>1. [Free(u) EXCEPT !.step = "create"] \in Job
    BY <1>a, <1>s, JobEdits
  <2> QED BY <2>1, <1>1, StartType DEF CreateNewWallet
<1>2. ASSUME NEW a \in Amounts, Purchase(h, u, a) PROVE TypeOK'
  <2>1. [Free(u) EXCEPT !.step = "credit", !.amt = a] \in Job
    BY <1>a, <1>s, JobEdits
  <2> QED BY <2>1, <1>2, StartType DEF Purchase
<1>3. ASSUME NEW a \in Amounts, NEW w \in Services, Spend(h, u, w, a)
      PROVE TypeOK'
  <2>1. PICK b \in Shown(u, w) :
           Start(h, [Free(u) EXCEPT !.step = "check", !.what = w, !.amt = a,
                                    !.mine = b])
    BY <1>3 DEF Spend
  <2>2. b \in Int
    BY <2>1 DEF TypeOK, Shown
  <2>3. [Free(u) EXCEPT !.step = "check", !.what = w, !.amt = a,
                        !.mine = b] \in Job
    BY <1>a, <1>s, <2>2, JobEdits
  <2> QED BY <2>1, <2>3, StartType
<1>4. ASSUME NEW a \in Amounts, OpenMeetupPage(h, u, a) PROVE TypeOK'
  <2>1. Answers(u) \subseteq Int /\ "meetup" \in Services
    BY <1>4 DEF TypeOK, Wallet, OpenMeetupPage, Answers
  <2>2. PICK b \in Answers(u) :
           Start(h, [Free(u) EXCEPT !.step = "page", !.what = "meetup",
                                    !.amt = a, !.mine = b])
    BY <1>4 DEF OpenMeetupPage
  <2>3. [Free(u) EXCEPT !.step = "page", !.what = "meetup", !.amt = a,
                        !.mine = b] \in Job
    BY <1>a, <1>s, <2>1, JobEdits
  <2> QED BY <2>2, <2>3, StartType
<1>5. ASSUME NEW a \in Amounts, NEW v \in Users, SendBalance(h, u, v, a)
      PROVE TypeOK'
  <2>1. [Free(u) EXCEPT !.step = "send", !.peer = v, !.amt = a] \in Job
    BY <1>a, <1>s, JobEdits
  <2> QED BY <2>1, <1>5, StartType DEF SendBalance
<1>6. ASSUME NEW a \in Amounts, NEW v \in Users, SendGift(h, u, v, a)
      PROVE TypeOK'
  <2>1. \A s \in {"gift", "giftCheck"} :
           [Free(u) EXCEPT !.step = s, !.peer = v, !.amt = a] \in Job
    BY <1>a, <1>s, JobEdits
  <2> QED BY <2>1, <1>6, StartType DEF SendGift
<1>7. ASSUME NEW k \in Totals, Redeem(h, u, k) PROVE TypeOK'
  <2>1. view[u].totals[k] \in Nat
    BY <1>7 DEF TypeOK, Wallet, Redeem
  <2>2. [Free(u) EXCEPT !.step = "redeem", !.what = k,
                        !.amt = view[u].totals[k]] \in Job
    BY <1>a, <1>s, <2>1, JobEdits
  <2> QED BY <2>2, <1>7, StartType DEF Redeem
<1>p. ASSUME NEW b \in Int, "boost" \in Services,
             Start(h, [Free(u) EXCEPT !.step = "profile", !.what = "boost",
                                      !.mine = b])
      PROVE  TypeOK'
  <2>1. [Free(u) EXCEPT !.step = "profile", !.what = "boost", !.mine = b] \in Job
    BY <1>a, <1>s, <1>p, JobEdits
  <2> QED BY <2>1, <1>p, StartType
<1>b. \A b \in Shown(u, "boost") : b \in Int /\ b - 1 \in Int
  BY DEF TypeOK, Shown
<1>8. CASE EditProfile(h, u)
  BY <1>8, <1>b, <1>p DEF EditProfile
<1>9. ASSUME NEW a \in Amounts, UseBoost(h, u, a) PROVE TypeOK'
  BY <1>9, <1>b, <1>p DEF UseBoost
<1> QED BY <1>1, <1>2, <1>3, <1>4, <1>5, <1>6, <1>7, <1>8, <1>9 DEF Tap

\* Every continuation of a handler keeps the types.
LEMMA ContinueType ==
    ASSUME TypeOK, NEW h \in Handlers, PostMeetup(h) \/ Continue(h)
    PROVE  TypeOK'
<1> DEFINE u == job[h].user
           v == job[h].peer
           Typed == /\ doc' \in [Users -> Wallet] /\ peak' \in [Users -> Int]
                    /\ job' \in [Handlers -> Job]
<1> HIDE DEF Typed
<1>a. /\ job[h] \in Job
      /\ u \in Users /\ v \in Users /\ job[h].amt \in Nat
      /\ job[h].mine \in Int /\ job[h].theirs \in Int
      /\ -job[h].amt \in Int /\ job[h].mine + 1 \in Int
      /\ doc[u].balance \in Int /\ doc[v].balance \in Int
  BY DEF TypeOK, Job, Wallet
<1>b. Idle \in Job
  BY RecordTypes
<1>s. ASSUME NEW s \in Steps PROVE [job[h] EXCEPT !.step = s] \in Job
  BY <1>a DEF Job
<1>g. ASSUME NEW j \in Job, Goto(h, j) PROVE Typed
  BY <1>g, GotoType DEF Typed
<1>w. ASSUME NEW W, NEW d \in [Users -> Wallet], NEW j \in Job,
             Write(h, W, d, j)
      PROVE  Typed
  BY <1>w, WriteType DEF Typed
<1>r. ASSUME NEW first \in Steps, Conflict(h, first) PROVE Typed
  BY <1>r, ConflictType DEF Typed
<1>t. ASSUME NEW first \in Steps, NEW j \in Job PROVE Again(h, first, j) \in Job
  BY <1>t, AgainJob
<1>o. ASSUME Overdraw(u, job[h].amt) PROVE overdrawn' \in [Users -> Nat]
  BY <1>o, <1>a DEF Overdraw, TypeOK
<1>1. CASE CreateNewWalletSet(h)
  <2>1. [doc EXCEPT ![u] = NewWallet] \in [Users -> Wallet]
    BY <1>a, RecordTypes DEF TypeOK
  <2>2. Typed
    BY <2>1, <1>1, <1>b, <1>g, <1>w DEF CreateNewWalletSet
  <2> QED BY <2>2, <1>1 DEF TypeOK, CreateNewWalletSet, Typed
<1>2. CASE AddBalance(h)
  <2>1. Incremented(u, job[h].amt) \in [Users -> Wallet]
    BY <1>a, IncrementedType
  <2>2. Typed
    BY <2>1, <1>2, <1>b, <1>g, <1>w, <1>t DEF AddBalance, Steps
  <2> QED BY <2>2, <1>2 DEF TypeOK, AddBalance, Typed
<1>3. CASE PostMeetup(h)
  <2>1. "check" \in Steps /\ 0 \in Int
    BY DEF Steps
  <2>2. [job[h] EXCEPT !.step = "check", !.mine = 0] \in Job
    BY <1>a, <2>1 DEF Job
  <2>3. Typed
    BY <2>2, <1>3, <1>b, <1>g DEF PostMeetup
  <2> QED BY <2>3, <1>3 DEF TypeOK, PostMeetup, Typed
<1>4. CASE MinusBalanceCheck(h)
  <2>1. /\ [job[h] EXCEPT !.step = "unpaid"] \in Job
        /\ [job[h] EXCEPT !.step = "debit"] \in Job
    BY <1>s DEF Steps
  <2>2. Typed
    BY <2>1, <1>4, <1>b, <1>g DEF MinusBalanceCheck
  <2>3. overdrawn' \in [Users -> Nat]
    BY <1>4, <1>o DEF MinusBalanceCheck, TypeOK
  <2> QED BY <2>2, <2>3, <1>4 DEF TypeOK, MinusBalanceCheck, Typed
<1>5. CASE MinusBalanceDebit(h)
  <2>1. Incremented(u, -job[h].amt) \in [Users -> Wallet]
    BY <1>a, IncrementedType
  <2>2. [job[h] EXCEPT !.step = "paid"] \in Job
    BY <1>s DEF Steps
  <2>3. Typed
    BY <2>1, <2>2, <1>5, <1>b, <1>g, <1>w, <1>t DEF MinusBalanceDebit, Steps
  <2>5. overdrawn' \in [Users -> Nat]
    <3>1. \/ overdrawn' = overdrawn
          \/ overdrawn' = [overdrawn EXCEPT ![u] = @ + job[h].amt]
      BY <1>5 DEF MinusBalanceDebit
    <3>2. overdrawn \in [Users -> Nat] /\ overdrawn[u] + job[h].amt \in Nat
      BY <1>a DEF TypeOK
    <3> QED BY <3>1, <3>2
  <2>4. spent' \in [Users -> [Counted -> Nat]]
    <3> DEFINE w == job[h].what
    <3>1. CASE /\ w \in Counted
               /\ spent' = [spent EXCEPT ![u][w] = @ + 1]
      <4>1. spent[u] \in [Counted -> Nat] /\ spent[u][w] + 1 \in Nat
        BY <3>1, <1>a DEF TypeOK
      <4>2. [spent[u] EXCEPT ![w] = @ + 1] \in [Counted -> Nat]
        BY <4>1
      <4> QED BY <3>1, <4>2 DEF TypeOK
    <3>2. CASE spent' = spent
      BY <3>2 DEF TypeOK
    <3> QED BY <1>5, <3>1, <3>2 DEF MinusBalanceDebit
  <2> QED BY <2>3, <2>4, <2>5, <1>5 DEF TypeOK, MinusBalanceDebit, Typed
<1>p. ASSUME NEW b \in Int, UpdateUserProfile(u, b)
      PROVE  /\ granted' \in [Users -> [Counted -> Int]]
             /\ shown' \in [Users -> Int]
  BY <1>p, <1>a DEF UpdateUserProfile, TypeOK
<1>6. CASE Serve(h)
  <2>1. Typed
    BY <1>6, <1>b, <1>g DEF Serve
  <2>2. granted' \in [Users -> [Counted -> Int]] /\ shown' \in [Users -> Int]
    <3>1. CASE ServeBoost(h)
      BY <3>1, <1>a, <1>p DEF ServeBoost
    <3>2. CASE ServeMeetup(h)
      <4>1. granted[u]["meetup"] + 1 \in Int
        BY <3>2, <1>a DEF TypeOK, Job, Counted, Totals, ServeMeetup
      <4> QED BY <4>1, <3>2, <1>a DEF TypeOK, ServeMeetup
    <3>3. CASE UNCHANGED <<granted, shown>>
      BY <3>3 DEF TypeOK
    <3> QED BY <1>6, <3>1, <3>2, <3>3 DEF Serve
  <2> QED BY <2>1, <2>2, <1>6 DEF TypeOK, Serve, Typed
<1>7. CASE SendBalanceRead(h)
  <2>1. [job[h] EXCEPT !.step = "sendCommit", !.mine = doc[u].balance,
                       !.theirs = doc[v].balance] \in Job
    BY <1>a DEF Job, Steps
  <2>2. Typed
    BY <2>1, <1>7, <1>g DEF SendBalanceRead
  <2> QED BY <2>2, <1>7 DEF TypeOK, SendBalanceRead, Typed
<1>8. CASE SendBalanceCommit(h)
  <2>1. Transferred(u, v, job[h]) \in [Users -> Wallet]
    <3> DEFINE x == job[h].mine - job[h].amt
               y == job[h].theirs + job[h].amt
    <3>1. x \in Int /\ y \in Int
      BY <1>a
    <3> HIDE DEF x, y
    <3>2. ASSUME NEW z \in Int, NEW d \in Wallet
          PROVE  [d EXCEPT !.balance = z] \in Wallet
      BY DEF Wallet
    <3>3. [doc EXCEPT ![u].balance = x] \in [Users -> Wallet]
      BY <3>1, <3>2, <1>a DEF TypeOK
    <3>4. ASSUME NEW d \in [Users -> Wallet]
          PROVE  [d EXCEPT ![v].balance = y] \in [Users -> Wallet]
      BY <3>1, <3>2, <1>a
    <3> QED BY <3>3, <3>4 DEF Transferred, x, y
  <2>2. Typed
    BY <2>1, <1>8, <1>b, <1>g, <1>w, <1>r, <1>t DEF SendBalanceCommit, Steps
  <2> QED BY <2>2, <1>8 DEF TypeOK, SendBalanceCommit, Typed
<1>9. CASE SendGiftRead(h)
  <2>1. [job[h] EXCEPT !.step = "giftCommit"] \in Job
    BY <1>s DEF Steps
  <2>2. Typed
    BY <2>1, <1>9, <1>g DEF SendGiftRead
  <2> QED BY <2>2, <1>9 DEF TypeOK, SendGiftRead, Typed
<1>10. CASE SendGiftCommit(h)
  <2>1. IncrementedTotal(Incremented(u, -job[h].amt), v, "gifts", job[h].amt)
           \in [Users -> Wallet]
    <3>1. "gifts" \in Totals /\ job[h].amt \in Int
      BY <1>a DEF Totals
    <3>2. Incremented(u, -job[h].amt) \in [Users -> Wallet]
      BY <1>a, IncrementedType
    <3> QED BY <1>a, <3>1, <3>2, IncrementedTotalType
  <2>2. Typed
    BY <2>1, <1>10, <1>b, <1>g, <1>w, <1>r, <1>t DEF SendGiftCommit, Steps
  <2>3. overdrawn' \in [Users -> Nat]
    BY <1>o, <1>10 DEF SendGiftCommit, TypeOK
  <2> QED BY <2>2, <2>3, <1>10 DEF TypeOK, SendGiftCommit, Typed
<1>11. CASE RedeemCredit(h)
  <2> DEFINE j == IF job[h].step = "redeem"
                  THEN [job[h] EXCEPT !.step = "redeemDebit", !.tries = 0]
                  ELSE Idle
  <2>1. Incremented(u, job[h].amt) \in [Users -> Wallet]
    BY <1>a, IncrementedType
  <2>2. j \in Job /\ job[h].step \in Steps
    BY <1>a, <1>b DEF Job, Steps
  <2>3. \/ \E i \in {j, Again(h, job[h].step, j)} :
              Write(h, {u}, Incremented(u, job[h].amt), i)
        \/ Goto(h, j)
    BY <1>11 DEF RedeemCredit
  <2> HIDE DEF j
  <2>4. Typed
    BY <2>1, <2>2, <2>3, <1>g, <1>w, <1>t
  <2> QED BY <2>4, <1>11 DEF TypeOK, RedeemCredit, Typed
<1>12. CASE RedeemDebit(h)
  <2> DEFINE k == RedeemedFrom(job[h].what)
             j == IF job[h].step = "redeem"
                  THEN [job[h] EXCEPT !.step = "redeemCredit", !.tries = 0]
                  ELSE Idle
  <2>1. k \in Totals
    BY DEF RedeemedFrom, Totals
  <2>2. j \in Job /\ job[h].step \in Steps
    BY <1>a, <1>b DEF Job, Steps
  <2>3. \/ \E i \in {j, Again(h, job[h].step, j)} :
              Write(h, {u}, IncrementedTotal(doc, u, k, -job[h].amt), i)
        \/ Goto(h, j)
    BY <1>12 DEF RedeemDebit
  <2> HIDE DEF j, k
  <2>4. IncrementedTotal(doc, u, k, -job[h].amt) \in [Users -> Wallet]
    <3>1. doc \in [Users -> Wallet]
      BY DEF TypeOK
    <3> QED BY <3>1, <1>a, <2>1, IncrementedTotalType
  <2>5. Typed
    BY <2>2, <2>3, <2>4, <1>g, <1>w, <1>t
  <2> QED BY <2>5, <1>12 DEF TypeOK, RedeemDebit, Typed
<1>13. CASE StoreProfile(h)
  <2>1. Typed
    BY <1>13, <1>b, <1>g DEF StoreProfile
  <2>2. granted' \in [Users -> [Counted -> Int]] /\ shown' \in [Users -> Int]
    BY <1>13, <1>a, <1>p DEF StoreProfile, TypeOK
  <2> QED BY <2>1, <2>2, <1>13 DEF TypeOK, StoreProfile, Typed
<1>14. CASE GiftCheck(h)
  <2>1. [job[h] EXCEPT !.step = "gift"] \in Job
    BY <1>s DEF Steps
  <2>2. Typed
    BY <2>1, <1>14, <1>b, <1>g DEF GiftCheck
  <2> QED BY <2>2, <1>14 DEF TypeOK, GiftCheck, Typed
<1> QED BY <1>1, <1>2, <1>3, <1>4, <1>5, <1>6, <1>7, <1>8, <1>9, <1>10,
           <1>11, <1>12, <1>13, <1>14 DEF Continue

\* Whatever handlers do to each other's transactions, wallets, snapshots and
\* handlers keep their types; in particular no amount becomes negative.
THEOREM TypeCorrect == Spec => []TypeOK
<1>1. TypeOK /\ [Next]_vars => TypeOK'
  <2> SUFFICES ASSUME TypeOK, [Next]_vars PROVE TypeOK'
    OBVIOUS
  <2>1. CASE UNCHANGED vars
    BY <2>1 DEF TypeOK, vars
  <2>2. ASSUME NEW u \in Users, Deliver(u) PROVE TypeOK'
    BY <2>2 DEF TypeOK, Deliver
  <2> QED BY <2>1, <2>2, TapType, ContinueType DEF Next
<1> QED BY <1>1, TypeInit, PTL DEF Spec
-----------------------------------------------------------------------------
(***************************************************************************)
(* Isolation of sendBalanceProvider's transaction.                         *)
(***************************************************************************)

\* A write of the documents W makes stale every other transaction that has
\* read one of them.
LEMMA WriteIsolates ==
    ASSUME TypeOK, ReadsCurrent, NEW h \in Handlers, NEW W, NEW d, NEW j,
           Write(h, W, d, j), j.step # "sendCommit",
           \A u \in Users \ W : d[u].balance = doc[u].balance
    PROVE  ReadsCurrent'
<1> SUFFICES ASSUME NEW g \in Handlers, job'[g].step = "sendCommit", job'[g].fresh
             PROVE  /\ job'[g].mine = doc'[job'[g].user].balance
                    /\ job'[g].theirs = doc'[job'[g].peer].balance
  BY DEF ReadsCurrent
<1>1. g # h /\ doc' = d
  BY DEF Write
<1>2. job[g] \in Job /\ job[g].user \in Users /\ job[g].peer \in Users
  BY DEF TypeOK, Job
<1>3. CASE ReadSet(g) \cap W # {}
  <2>1. job'[g] = [job[g] EXCEPT !.fresh = FALSE]
    BY <1>1, <1>3 DEF Write
  <2>2. job'[g].fresh = FALSE
    BY <2>1, <1>2 DEF Job
  <2> QED BY <2>2
<1>4. CASE ReadSet(g) \cap W = {}
  <2>1. job'[g] = job[g]
    BY <1>1, <1>4 DEF Write
  <2>2. ReadSet(g) = {job[g].user, job[g].peer}
    BY <2>1 DEF ReadSet
  <2>3. job[g].user \notin W /\ job[g].peer \notin W
    BY <1>4, <2>2
  <2> QED BY <1>1, <1>2, <2>1, <2>3 DEF ReadsCurrent
<1> QED BY <1>3, <1>4

\* A handler that writes nothing disturbs no transaction.
LEMMA GotoIsolates ==
    ASSUME TypeOK, ReadsCurrent, NEW h \in Handlers, NEW j, Goto(h, j),
           j.step = "sendCommit" =>
               /\ j.mine = doc[j.user].balance
               /\ j.theirs = doc[j.peer].balance
    PROVE  ReadsCurrent'
BY DEF TypeOK, ReadsCurrent, Goto

\* The steps of Free and Idle records, and of records made from job[h].
LEMMA JobSteps ==
    ASSUME TypeOK, NEW h \in Handlers
    PROVE  /\ Idle.step = "idle"
           /\ \A s \in Steps : [job[h] EXCEPT !.step = s].step = s
BY DEF TypeOK, Idle, Free, Job

\* A tap writes no wallet, so transfers in flight stay current.
LEMMA TapIsolates ==
    ASSUME TypeOK, ReadsCurrent, NEW h \in Handlers, NEW u \in Users, Tap(h, u)
    PROVE  ReadsCurrent'
<1>s. ASSUME NEW j, Start(h, j), j.step # "sendCommit" PROVE ReadsCurrent'
  BY <1>s, GotoIsolates DEF Start
<1>1. CASE CreateNewWallet(h, u)
  BY <1>1, <1>s DEF CreateNewWallet, Free
<1>2. ASSUME NEW a \in Amounts, Purchase(h, u, a) PROVE ReadsCurrent'
  BY <1>2, <1>s DEF Purchase, Free
<1>3. ASSUME NEW a \in Amounts, NEW w \in Services, Spend(h, u, w, a)
      PROVE  ReadsCurrent'
  BY <1>3, <1>s DEF Spend, Free
<1>4. ASSUME NEW a \in Amounts, OpenMeetupPage(h, u, a) PROVE ReadsCurrent'
  BY <1>4, <1>s DEF OpenMeetupPage, Free
<1>5. ASSUME NEW a \in Amounts, NEW v \in Users, SendBalance(h, u, v, a)
      PROVE  ReadsCurrent'
  BY <1>5, <1>s DEF SendBalance, Free
<1>6. ASSUME NEW a \in Amounts, NEW v \in Users, SendGift(h, u, v, a)
      PROVE  ReadsCurrent'
  BY <1>6, <1>s DEF SendGift, Free
<1>7. ASSUME NEW k \in Totals, Redeem(h, u, k) PROVE ReadsCurrent'
  BY <1>7, <1>s DEF Redeem, Free
<1>8. CASE EditProfile(h, u)
  BY <1>8, <1>s DEF EditProfile, Free
<1>9. ASSUME NEW a \in Amounts, UseBoost(h, u, a) PROVE ReadsCurrent'
  BY <1>9, <1>s DEF UseBoost, Free
<1> QED BY <1>1, <1>2, <1>3, <1>4, <1>5, <1>6, <1>7, <1>8, <1>9 DEF Tap

\* Each continuation leaves the transfers of other handlers current or stale,
\* and a transfer that has just read is current.
LEMMA ContinueIsolates ==
    ASSUME TypeOK, ReadsCurrent, NEW h \in Handlers,
           PostMeetup(h) \/ Continue(h)
    PROVE  ReadsCurrent'
<1> DEFINE u == job[h].user
           v == job[h].peer
           a == job[h].amt
<1>a. job[h] \in Job /\ u \in Users /\ v \in Users
  BY DEF TypeOK, Job
<1>i. Goto(h, Idle) => ReadsCurrent'
  BY GotoIsolates, JobSteps
<1>g. ASSUME NEW s \in Steps \ {"sendCommit"},
             Goto(h, [job[h] EXCEPT !.step = s])
      PROVE  ReadsCurrent'
  BY <1>g, GotoIsolates, JobSteps
<1>w. ASSUME NEW W, NEW d, NEW j, Write(h, W, d, j), j.step # "sendCommit",
             \A x \in Users \ W : d[x].balance = doc[x].balance
      PROVE  ReadsCurrent'
  BY <1>w, WriteIsolates
<1>t. ASSUME NEW first \in Steps \ {"sendCommit"}, NEW j \in Job,
             j.step # "sendCommit"
      PROVE  Again(h, first, j).step # "sendCommit"
  BY <1>t, AgainJob
<1>b. Idle \in Job /\ Idle.step = "idle"
  BY RecordTypes, JobSteps
<1>r. ASSUME NEW first \in Steps \ {"sendCommit"}, Conflict(h, first)
      PROVE  ReadsCurrent'
  <2>1. Again(h, first, Idle).step # "sendCommit"
    BY <1>b, <1>t
  <2> QED BY <1>r, <2>1, GotoIsolates DEF Conflict
\* The balances of the wallets that a write does not name stay as they are.
<1>f. /\ \A x \in Users \ {u} : [doc EXCEPT ![u] = NewWallet][x] = doc[x]
      /\ \A n : \A x \in Users \ {u} : Incremented(u, n)[x] = doc[x]
      /\ \A k, n : \A x \in Users \ {u} :
            IncrementedTotal(doc, u, k, n)[x] = doc[x]
      /\ \A x \in Users \ {u, v} : Transferred(u, v, job[h])[x] = doc[x]
      /\ \A n, k, m : \A x \in Users \ {u, v} :
            IncrementedTotal(Incremented(u, n), v, k, m)[x] = doc[x]
  BY <1>a DEF TypeOK, Incremented, IncrementedTotal, Transferred
<1>1. CASE CreateNewWalletSet(h)
  <2> DEFINE d == [doc EXCEPT ![u] = NewWallet]
  <2>1. CASE Write(h, {u}, d, Idle)
    <3>1. \A x \in Users \ {u} : d[x].balance = doc[x].balance
      BY <1>f
    <3> HIDE DEF d
    <3> QED BY <2>1, <3>1, <1>w, JobSteps
  <2> QED BY <1>1, <2>1, <1>i DEF CreateNewWalletSet
<1>2. CASE AddBalance(h)
  BY <1>2, <1>i, <1>w, <1>f, <1>b, <1>t DEF AddBalance, Steps
<1>3. CASE PostMeetup(h)
  <2>1. [job[h] EXCEPT !.step = "check", !.mine = 0].step = "check"
    BY <1>a DEF Job
  <2> QED BY <1>3, <1>i, <2>1, GotoIsolates DEF PostMeetup
<1>4. CASE MinusBalanceCheck(h)
  BY <1>4, <1>i, <1>g DEF MinusBalanceCheck, Steps
<1>5. CASE MinusBalanceDebit(h)
  <2>1. [job[h] EXCEPT !.step = "paid"].step = "paid"
    BY JobSteps DEF Steps
  <2> DEFINE d == Incremented(u, -a)
             j == [job[h] EXCEPT !.step = "paid"]
             i == Again(h, "debit", Idle)
  <2>2. CASE Write(h, {u}, d, j) \/ Write(h, {u}, d, i)
    <3>1. \A x \in Users \ {u} : d[x].balance = doc[x].balance
      BY <1>f
    <3>2. j.step # "sendCommit" /\ i.step # "sendCommit"
      BY <2>1, <1>b, <1>t DEF Steps
    <3> HIDE DEF d, j, i
    <3> QED BY <2>2, <3>1, <3>2, <1>w
  <2> QED BY <1>5, <2>2, <1>i DEF MinusBalanceDebit
<1>6. CASE Serve(h)
  BY <1>6, <1>i DEF Serve
<1>7. CASE SendBalanceRead(h)
  <2> DEFINE j == [job[h] EXCEPT !.step = "sendCommit",
                                 !.mine = doc[u].balance,
                                 !.theirs = doc[v].balance]
  <2>1. /\ j.user = u /\ j.peer = v
        /\ j.mine = doc[u].balance /\ j.theirs = doc[v].balance
    BY <1>a DEF Job
  <2>2. Goto(h, j)
    BY <1>7 DEF SendBalanceRead
  <2> HIDE DEF j
  <2> QED BY <2>1, <2>2, GotoIsolates
<1>8. CASE SendBalanceCommit(h)
  BY <1>8, <1>i, <1>w, <1>r, <1>f, <1>b, <1>t DEF SendBalanceCommit, Steps
<1>9. CASE SendGiftRead(h)
  BY <1>9, <1>g DEF SendGiftRead, Steps
<1>10. CASE SendGiftCommit(h)
  BY <1>10, <1>i, <1>w, <1>r, <1>f, <1>b, <1>t DEF SendGiftCommit, Steps
\* The two redeeming writes, from the step s and on as j.
<1>y. ASSUME NEW s \in {"redeem", "redeemCredit", "redeemDebit"},
             NEW j \in Job, j.step # "sendCommit",
             NEW d, \A x \in Users \ {u} : d[x].balance = doc[x].balance,
             \/ \E i \in {j, Again(h, s, j)} : Write(h, {u}, d, i)
             \/ Goto(h, j)
      PROVE  ReadsCurrent'
  <2>1. Again(h, s, j).step # "sendCommit"
    BY <1>y, <1>t DEF Steps
  <2> QED BY <2>1, <1>y, <1>w, GotoIsolates
<1>11. CASE RedeemCredit(h)
  <2> DEFINE j == IF job[h].step = "redeem"
                  THEN [job[h] EXCEPT !.step = "redeemDebit", !.tries = 0]
                  ELSE Idle
             d == Incremented(u, a)
  <2>1. j \in Job /\ j.step # "sendCommit"
    BY <1>a, <1>b DEF Job, Steps
  <2>2. \A x \in Users \ {u} : d[x].balance = doc[x].balance
    BY <1>f
  <2>3. /\ job[h].step \in {"redeem", "redeemCredit", "redeemDebit"}
        /\ \/ \E i \in {j, Again(h, job[h].step, j)} : Write(h, {u}, d, i)
           \/ Goto(h, j)
    BY <1>11 DEF RedeemCredit
  <2> HIDE DEF j, d
  <2> QED BY <2>1, <2>2, <2>3, <1>y
<1>12. CASE RedeemDebit(h)
  <2> DEFINE k == RedeemedFrom(job[h].what)
             j == IF job[h].step = "redeem"
                  THEN [job[h] EXCEPT !.step = "redeemCredit", !.tries = 0]
                  ELSE Idle
             d == IncrementedTotal(doc, u, k, -a)
  <2>1. j \in Job /\ j.step # "sendCommit"
    BY <1>a, <1>b DEF Job, Steps
  <2>2. \A x \in Users \ {u} : d[x].balance = doc[x].balance
    <3>1. \A x \in Users \ {u} : d[x] = doc[x]
      BY <1>f
    <3> QED BY <3>1
  <2>3. /\ job[h].step \in {"redeem", "redeemCredit", "redeemDebit"}
        /\ \/ \E i \in {j, Again(h, job[h].step, j)} : Write(h, {u}, d, i)
           \/ Goto(h, j)
    BY <1>12 DEF RedeemDebit
  <2> HIDE DEF j, d
  <2> QED BY <2>1, <2>2, <2>3, <1>y
<1>13. CASE StoreProfile(h)
  BY <1>13, <1>i DEF StoreProfile
<1>14. CASE GiftCheck(h)
  BY <1>14, <1>i, <1>g DEF GiftCheck, Steps
<1> QED BY <1>1, <1>2, <1>3, <1>4, <1>5, <1>6, <1>7, <1>8, <1>9, <1>10,
           <1>11, <1>12, <1>13, <1>14 DEF Continue

\* The absolute balances that sendBalanceProvider writes are computed from
\* the balances the server holds when they are written: no credit or debit
\* made by another handler between the read and the commit is lost.
THEOREM TransfersReadCurrent == Spec => []ReadsCurrent
<1>1. Init => ReadsCurrent
  <2>1. Idle.step = "idle"
    BY DEF Idle, Free
  <2> QED BY <2>1 DEF Init, ReadsCurrent
<1>2. TypeOK /\ ReadsCurrent /\ [Next]_vars => ReadsCurrent'
  <2> SUFFICES ASSUME TypeOK, ReadsCurrent, [Next]_vars PROVE ReadsCurrent'
    OBVIOUS
  <2>1. CASE UNCHANGED vars
    BY <2>1 DEF ReadsCurrent, vars
  <2>2. ASSUME NEW u \in Users, Deliver(u) PROVE ReadsCurrent'
    BY <2>2 DEF ReadsCurrent, Deliver
  <2> QED BY <2>1, <2>2, TapIsolates, ContinueIsolates DEF Next
<1> QED BY <1>1, <1>2, TypeCorrect, PTL DEF Spec
-----------------------------------------------------------------------------
(***************************************************************************)
(* The wallets implement WalletLedger.  A step that writes documents is an *)
(* Open, a Credit, a Debit or a Transfer of the ledger (or changes no      *)
(* balance); every other step is a stutter.                                *)
(***************************************************************************)
LedgerOpen == {u \in Users : doc[u].exists}
LedgerBalance == [u \in Users |-> doc[u].balance]

\* A step that leaves the documents as they are is a stutter of the ledger.
LEMMA UnwrittenStutters ==
    UNCHANGED doc => UNCHANGED <<LedgerOpen, LedgerBalance>>
BY DEF LedgerOpen, LedgerBalance

\* The refinement mapping has the values that the ledger expects.
LEMMA LedgerValues ==
    ASSUME TypeOK
    PROVE  /\ \A u \in Users : /\ doc[u] \in Wallet
                               /\ doc[u].balance \in Int
                               /\ LedgerBalance[u] = doc[u].balance
                               /\ u \in LedgerOpen <=> doc[u].exists
           /\ \A u \in Users : LedgerBalance'[u] = doc'[u].balance
           /\ LedgerBalance \in [Users -> Int]
BY DEF TypeOK, Wallet, LedgerOpen, LedgerBalance

\* What an increment of a balance changes.
LEMMA IncrementWrites ==
    ASSUME TypeOK, NEW u \in Users, NEW n \in Int, doc' = Incremented(u, n)
    PROVE  /\ \A x \in Users \ {u} : doc'[x] = doc[x]
           /\ doc'[u].balance = doc[u].balance + n
           /\ doc'[u].exists = doc[u].exists
BY LedgerValues DEF TypeOK, Incremented, Wallet

\* An increment of a total changes no balance.
LEMMA TotalWrites ==
    ASSUME NEW d \in [Users -> Wallet], NEW u \in Users, NEW k, NEW n
    PROVE  \A x \in Users :
              /\ IncrementedTotal(d, u, k, n)[x].balance = d[x].balance
              /\ IncrementedTotal(d, u, k, n)[x].exists = d[x].exists
BY DEF IncrementedTotal, Wallet

\* What a gift changes, besides the recipient's gifts.
LEMMA GiftWrites ==
    ASSUME TypeOK, NEW u \in Users, NEW v \in Users, NEW n \in Nat,
           doc' = IncrementedTotal(Incremented(u, -n), v, "gifts", n)
    PROVE  /\ \A x \in Users \ {u} : doc'[x].balance = doc[x].balance
           /\ doc'[u].balance = doc[u].balance - n
           /\ \A x \in Users : doc'[x].exists = doc[x].exists
<1>1. Incremented(u, -n) \in [Users -> Wallet]
  BY IncrementedType
<1> DEFINE d == Incremented(u, -n)
<1>2. \A x \in Users \ {u} : d[x] = doc[x]
  BY DEF TypeOK, Incremented
<1>3. d[u].balance = doc[u].balance - n /\ d[u].exists = doc[u].exists
  BY DEF TypeOK, Incremented, Wallet
<1>4. \A x \in Users : d[x].balance = doc'[x].balance /\ d[x].exists = doc'[x].exists
  <2> HIDE DEF d
  <2>1. doc' = IncrementedTotal(d, v, "gifts", n) /\ d \in [Users -> Wallet]
    BY <1>1 DEF d
  <2> QED BY <2>1, TotalWrites
<1> HIDE DEF d
<1> QED BY <1>2, <1>3, <1>4

\* What sendBalanceProvider changes, for two users and for one.
LEMMA TransferWrites ==
    ASSUME TypeOK, NEW u \in Users, NEW v \in Users, NEW h \in Handlers,
           job[h].mine = doc[u].balance, job[h].theirs = doc[v].balance,
           doc' = Transferred(u, v, job[h])
    PROVE  /\ u = v => doc' = Incremented(u, job[h].amt)
           /\ u # v =>
                 /\ \A x \in Users \ {u, v} : doc'[x] = doc[x]
                 /\ doc'[u].balance = doc[u].balance - job[h].amt
                 /\ doc'[v].balance = doc[v].balance + job[h].amt
                 /\ doc'[u].exists = doc[u].exists
                 /\ doc'[v].exists = doc[v].exists
<1> DEFINE a == job[h].amt
<1>a. a \in Nat
  BY DEF TypeOK, Job
<1>1. CASE u = v
  BY <1>1 DEF Transferred, Incremented, TypeOK
<1>2. CASE u # v
  <2>1. PICK m \in Int : m = doc[u].balance - a
    BY <1>a DEF TypeOK, Wallet
  <2>2. PICK n \in Int : n = doc[v].balance + a
    BY <1>a DEF TypeOK, Wallet
  <2>3. doc' = [doc EXCEPT ![u].balance = m, ![v].balance = n]
    BY <2>1, <2>2 DEF Transferred
  <2>4. doc' = [x \in Users |->
                  IF x = v THEN [doc[v] EXCEPT !.balance = n]
                  ELSE IF x = u THEN [doc[u] EXCEPT !.balance = m] ELSE doc[x]]
    BY <1>2, <2>3 DEF TypeOK
  <2>5. /\ \A x \in Users \ {u, v} : doc'[x] = doc[x]
        /\ doc'[u] = [doc[u] EXCEPT !.balance = m]
        /\ doc'[v] = [doc[v] EXCEPT !.balance = n]
    BY <1>2, <2>4
  <2>6. doc[u] \in Wallet /\ doc[v] \in Wallet
    BY DEF TypeOK
  <2>7. /\ doc'[u].balance = m /\ doc'[u].exists = doc[u].exists
        /\ doc'[v].balance = n /\ doc'[v].exists = doc[v].exists
    BY <2>5, <2>6 DEF Wallet
  <2> QED BY <1>2, <2>1, <2>2, <2>5, <2>7
<1> QED BY <1>1, <1>2

\* An increment of the balance of an existing wallet.
LEMMA IncrementStep ==
    ASSUME TypeOK, NEW u \in Users, NEW n \in Int, doc[u].exists,
           doc' = Incremented(u, n)
    PROVE  Ledger!Next \/ UNCHANGED <<LedgerOpen, LedgerBalance>>
<1>1. /\ \A x \in Users \ {u} : doc'[x] = doc[x]
      /\ doc'[u].balance = doc[u].balance + n
      /\ doc'[u].exists = doc[u].exists
  BY IncrementWrites
<1>2. LedgerOpen' = LedgerOpen
  BY <1>1 DEF LedgerOpen
<1>3. /\ \A x \in Users \ {u} : LedgerBalance'[x] = LedgerBalance[x]
      /\ LedgerBalance'[u] = LedgerBalance[u] + n
      /\ u \in LedgerOpen /\ LedgerBalance[u] \in Int
  BY <1>1, LedgerValues
<1>4. CASE n = 0
  <2>1. LedgerBalance' = LedgerBalance
    BY <1>3, <1>4 DEF LedgerBalance
  <2> QED BY <2>1, <1>2
<1>5. CASE n > 0
  <2>1. Ledger!Credit(u)
    BY <1>2, <1>3, <1>5
       DEF Ledger!Credit, Ledger!Touches, LedgerOpen, LedgerBalance
  <2> QED BY <2>1 DEF Ledger!Next
<1>6. CASE n < 0
  <2>1. Ledger!Debit(u)
    BY <1>2, <1>3, <1>6
       DEF Ledger!Debit, Ledger!Touches, LedgerOpen, LedgerBalance
  <2> QED BY <2>1 DEF Ledger!Next
<1> QED BY <1>4, <1>5, <1>6

\* createNewWalletProvider opens the wallet, or empties it.
LEMMA CreateStep ==
    ASSUME TypeOK, NEW u \in Users, doc' = [doc EXCEPT ![u] = NewWallet]
    PROVE  Ledger!Next
<1>1. /\ \A x \in Users \ {u} : doc'[x] = doc[x]
      /\ doc'[u].balance = 0 /\ doc'[u].exists = TRUE
  BY DEF TypeOK, NewWallet
<1>2. LedgerOpen' = LedgerOpen \cup {u}
  BY <1>1 DEF LedgerOpen
<1>3. LedgerBalance' = [LedgerBalance EXCEPT ![u] = 0]
  <2>1. /\ \A x \in Users \ {u} : LedgerBalance'[x] = LedgerBalance[x]
        /\ LedgerBalance'[u] = 0
    BY <1>1, LedgerValues
  <2>2. /\ LedgerBalance = [x \in Users |-> LedgerBalance[x]]
        /\ LedgerBalance' = [x \in Users |-> LedgerBalance'[x]]
    BY DEF LedgerBalance
  <2> QED BY <2>1, <2>2
<1>4. Ledger!Open(u)
  BY <1>2, <1>3 DEF Ledger!Open, LedgerOpen, LedgerBalance
<1> QED BY <1>4 DEF Ledger!Next

\* sendBalanceProvider between two wallets moves what it takes; a user who
\* sends to himself only receives.
LEMMA TransferStep ==
    ASSUME TypeOK, NEW u \in Users, NEW v \in Users, NEW h \in Handlers,
           job[h].user = u, job[h].peer = v,
           job[h].mine = doc[u].balance, job[h].theirs = doc[v].balance,
           job[h].mine >= job[h].amt, doc[u].exists, doc[v].exists,
           doc' = Transferred(u, v, job[h])
    PROVE  Ledger!Next \/ UNCHANGED <<LedgerOpen, LedgerBalance>>
<1> DEFINE a == job[h].amt
<1>a. a \in Nat
  BY DEF TypeOK, Job
<1>1. CASE u = v
  <2>1. doc' = Incremented(u, a)
    BY <1>1, TransferWrites
  <2> QED BY <2>1, <1>a, IncrementStep
<1>2. CASE u # v
  <2>1. /\ \A x \in Users \ {u, v} : doc'[x] = doc[x]
        /\ doc'[u].balance = doc[u].balance - a
        /\ doc'[v].balance = doc[v].balance + a
        /\ doc'[u].exists = doc[u].exists
        /\ doc'[v].exists = doc[v].exists
    BY <1>2, TransferWrites
  <2>2. LedgerOpen' = LedgerOpen
    BY <2>1 DEF LedgerOpen
  <2>3. /\ \A x \in Users \ {u, v} : LedgerBalance'[x] = LedgerBalance[x]
        /\ LedgerBalance'[u] = LedgerBalance[u] - a
        /\ LedgerBalance'[v] = LedgerBalance[v] + a
        /\ LedgerBalance[u] >= a
        /\ u \in LedgerOpen /\ v \in LedgerOpen
        /\ LedgerBalance[u] \in Int /\ LedgerBalance[v] \in Int
    BY <2>1, LedgerValues
  <2>4. CASE a = 0
    <3>1. LedgerBalance' = LedgerBalance
      BY <2>3, <2>4 DEF LedgerBalance
    <3> QED BY <3>1, <2>2
  <2>5. CASE a > 0
    <3> HIDE DEF a
    <3>1. Ledger!Transfer(u, v)
      BY <1>2, <1>a, <2>2, <2>3, <2>5
         DEF Ledger!Transfer, Ledger!Touches, LedgerOpen, LedgerBalance
    <3> QED BY <3>1 DEF Ledger!Next
  <2> QED BY <2>4, <2>5, <1>a
<1> QED BY <1>1, <1>2

\* A gift debits its sender; the recipient's gifts are not in the ledger.
LEMMA GiftStep ==
    ASSUME TypeOK, NEW u \in Users, NEW v \in Users, NEW n \in Nat,
           doc[u].exists,
           doc' = IncrementedTotal(Incremented(u, -n), v, "gifts", n)
    PROVE  Ledger!Next \/ UNCHANGED <<LedgerOpen, LedgerBalance>>
<1>1. LedgerOpen' = LedgerOpen
  BY GiftWrites DEF LedgerOpen
<1>2. /\ \A x \in Users \ {u} : LedgerBalance'[x] = LedgerBalance[x]
      /\ LedgerBalance'[u] = LedgerBalance[u] - n
      /\ u \in LedgerOpen /\ LedgerBalance[u] \in Int
  BY GiftWrites, LedgerValues
<1>3. CASE n = 0
  <2>1. LedgerBalance' = LedgerBalance
    BY <1>2, <1>3 DEF LedgerBalance
  <2> QED BY <2>1, <1>1
<1>4. CASE n > 0
  <2>1. Ledger!Debit(u)
    BY <1>1, <1>2, <1>4
       DEF Ledger!Debit, Ledger!Touches, LedgerOpen, LedgerBalance
  <2> QED BY <2>1 DEF Ledger!Next
<1> QED BY <1>3, <1>4

\* Each step of the wallets is a step of the ledger, or leaves it unchanged.
LEMMA LedgerStep ==
    ASSUME TypeOK, ReadsCurrent, NEW h \in Handlers,
           PostMeetup(h) \/ Continue(h)
    PROVE  Ledger!Next \/ UNCHANGED <<LedgerOpen, LedgerBalance>>
<1> DEFINE Goal == Ledger!Next \/ UNCHANGED <<LedgerOpen, LedgerBalance>>
<1>a. job[h].user \in Users /\ job[h].peer \in Users /\ job[h].amt \in Nat
  BY DEF TypeOK, Job
<1>b. PICK u \in Users, v \in Users, a \in Nat :
        job[h].user = u /\ job[h].peer = v /\ job[h].amt = a
  BY <1>a
<1>g. ASSUME NEW j, Goto(h, j) PROVE Goal
  BY <1>g, UnwrittenStutters DEF Goto
<1>r. ASSUME NEW s, Conflict(h, s) PROVE Goal
  BY <1>r, <1>g DEF Conflict
<1>w. ASSUME NEW W, NEW d, NEW j, Write(h, W, d, j) PROVE doc' = d
  BY <1>w DEF Write
<1>n. a \in Int /\ -a \in Int
  OBVIOUS
<1> SUFFICES Goal
  OBVIOUS
<1> HIDE DEF Goal
<1>1. CASE CreateNewWalletSet(h)
  BY <1>1, <1>b, <1>g, <1>w, CreateStep DEF CreateNewWalletSet, Goal
<1>2. CASE AddBalance(h)
  BY <1>2, <1>b, <1>g, <1>w, <1>n, IncrementStep DEF AddBalance, Goal
<1>3. CASE PostMeetup(h)
  BY <1>3, <1>g DEF PostMeetup
<1>4. CASE MinusBalanceCheck(h)
  BY <1>4, <1>g DEF MinusBalanceCheck
<1>5. CASE MinusBalanceDebit(h)
  BY <1>5, <1>b, <1>g, <1>w, <1>n, IncrementStep DEF MinusBalanceDebit, Goal
<1>6. CASE Serve(h)
  BY <1>6, <1>g DEF Serve
<1>7. CASE SendBalanceRead(h)
  BY <1>7, <1>g DEF SendBalanceRead
<1>8. CASE SendBalanceCommit(h)
  <2>1. CASE /\ job[h].fresh /\ job[h].mine >= job[h].amt
             /\ doc[u].exists /\ doc[v].exists
             /\ \E j : Write(h, {u, v}, Transferred(u, v, job[h]), j)
    <3>1. job[h].mine = doc[u].balance /\ job[h].theirs = doc[v].balance
      BY <1>8, <1>b, <2>1 DEF ReadsCurrent, SendBalanceCommit
    <3> QED BY <2>1, <3>1, <1>b, <1>w, TransferStep DEF Goal
  <2> QED BY <1>8, <1>b, <2>1, <1>g, <1>r DEF SendBalanceCommit
<1>9. CASE SendGiftRead(h)
  BY <1>9, <1>g DEF SendGiftRead
<1>10. CASE SendGiftCommit(h)
  <2>1. CASE /\ doc[u].exists
             /\ \E j : Write(h, {u, v},
                             IncrementedTotal(Incremented(u, -a), v, "gifts", a),
                             j)
    BY <2>1, <1>w, GiftStep DEF Goal
  <2> QED BY <1>10, <1>b, <2>1, <1>g, <1>r DEF SendGiftCommit
<1>11. CASE RedeemCredit(h)
  BY <1>11, <1>b, <1>g, <1>w, <1>n, IncrementStep DEF RedeemCredit, Goal
<1>12. CASE RedeemDebit(h)
  <2>1. ASSUME NEW k, doc' = IncrementedTotal(doc, u, k, -a) PROVE Goal
    <3>1. \A x \in Users : doc'[x].balance = doc[x].balance
                          /\ doc'[x].exists = doc[x].exists
      BY <2>1, TotalWrites DEF TypeOK
    <3>2. UNCHANGED <<LedgerOpen, LedgerBalance>>
      BY <3>1 DEF LedgerOpen, LedgerBalance
    <3> QED BY <3>2 DEF Goal
  <2> QED BY <1>12, <1>b, <1>g, <1>w, <2>1 DEF RedeemDebit
<1>13. CASE StoreProfile(h)
  BY <1>13, <1>g DEF StoreProfile
<1>14. CASE GiftCheck(h)
  BY <1>14, <1>g DEF GiftCheck
<1> QED BY <1>1, <1>2, <1>3, <1>4, <1>5, <1>6, <1>7, <1>8, <1>9, <1>10,
           <1>11, <1>12, <1>13, <1>14 DEF Continue

\* Every wallet begins with the dymonds bought earlier, or none.
LEMMA InitBalance ==
    ASSUME Init, NEW u \in Users
    PROVE  doc[u].balance \in Nat
<1>1. doc[u] = Absent \/ \E b \in Stored : doc[u] = Holding(b)
  BY DEF Init
<1>2. CASE doc[u] = Absent
  BY <1>2 DEF Absent
<1>3. CASE \E b \in Stored : doc[u] = Holding(b)
  <2>1. PICK b \in Stored : doc[u] = Holding(b)
    BY <1>3
  <2>2. doc[u].balance = b
    BY <2>1 DEF Holding
  <2> QED BY <2>2, WalletAssumption
<1> QED BY <1>1, <1>2, <1>3

\* The app implements WalletLedger: however the handlers interleave, every
\* step opens a wallet, credits or debits one, or transfers between two an
\* amount that its owner has.
THEOREM WalletImplementsLedger == Spec => LedgerSpec
<1>1. Init => Ledger!Init
  <2> SUFFICES ASSUME Init PROVE Ledger!Init
    OBVIOUS
  <2>1. \A u \in Users : doc[u].balance \in Nat
    BY InitBalance
  <2> QED BY <2>1 DEF Ledger!Init
<1>2. TypeOK /\ ReadsCurrent /\ [Next]_vars => [Ledger!Next]_(Ledger!vars)
  <2> SUFFICES ASSUME TypeOK, ReadsCurrent, [Next]_vars
               PROVE  Ledger!Next \/ UNCHANGED <<LedgerOpen, LedgerBalance>>
    BY DEF Ledger!vars, LedgerOpen, LedgerBalance
  <2>1. CASE UNCHANGED vars
    BY <2>1, UnwrittenStutters DEF vars
  <2>2. ASSUME NEW u \in Users, Deliver(u) PROVE UNCHANGED doc
    BY <2>2 DEF Deliver
  <2>3. ASSUME NEW h \in Handlers, NEW u \in Users, Tap(h, u)
        PROVE  UNCHANGED doc
    BY <2>3 DEF Tap, CreateNewWallet, EditProfile, Purchase, Spend, UseBoost,
                OpenMeetupPage, SendBalance, SendGift, Redeem, Start, Goto
  <2> QED BY <2>1, <2>2, <2>3, UnwrittenStutters, LedgerStep DEF Next
<1> QED BY <1>1, <1>2, TypeCorrect, TransfersReadCurrent, PTL
        DEF Spec, LedgerSpec, Ledger!Spec

-----------------------------------------------------------------------------
(***************************************************************************)
(* Services are paid for.  A boost that was bought sets the profile's      *)
(* balance to one more than its page showed, one that was used to one      *)
(* less; a meetup adds one.  No profile ever showed more boosts than had   *)
(* been paid for by then, so no stale one does.                            *)
(***************************************************************************)

\* The handlers of u that have paid for a meetup and not yet stored it.
PaidMeetups(u) ==
    {h \in Handlers : /\ job[h].step = "paid" /\ job[h].what = "meetup"
                      /\ job[h].user = u}

\* The boosts that handler h will store, or has just paid for, were paid for.
BoostHeld(h) ==
    /\ job[h].step = "profile" => job[h].what = "boost"
    /\ job[h].what = "boost" =>
        /\ job[h].step \in {"check", "debit", "profile"} =>
              job[h].mine <= spent[job[h].user]["boost"]
        /\ job[h].step = "paid" =>
              job[h].mine + 1 <= spent[job[h].user]["boost"]

\* Meetups stored or about to be stored were paid for.
MeetupsHeld(u) ==
    "meetup" \in Counted =>
        granted[u]["meetup"] + Cardinality(PaidMeetups(u)) <= spent[u]["meetup"]

\* Every boost that u's profile has ever shown was paid for.
ShownPaid(u) == "boost" \in Counted => shown[u] <= spent[u]["boost"]

PaidInv ==
    /\ PaidFor
    /\ \A u \in Users : ShownPaid(u)
    /\ \A h \in Handlers : BoostHeld(h)
    /\ \A u \in Users : MeetupsHeld(u)

\* The sets that MeetupsHeld counts are finite.
LEMMA PaidFinite ==
    ASSUME NEW u
    PROVE  /\ IsFiniteSet(PaidMeetups(u))
           /\ Cardinality(PaidMeetups(u)) \in Nat
<1>1. PaidMeetups(u) \in SUBSET Handlers
  BY DEF PaidMeetups
<1>2. IsFiniteSet(PaidMeetups(u))
  BY <1>1, FS_Subset, WalletAssumption
<1> QED BY <1>2, FS_CardinalityType

\* What the invariants below read of a handler's record.
SameJob(g) == /\ job'[g].step = job[g].step /\ job'[g].what = job[g].what
              /\ job'[g].user = job[g].user /\ job'[g].mine = job[g].mine
              /\ job'[g].amt = job[g].amt

\* A write changes nothing of it in the records of the other handlers.
LEMMA OthersSame ==
    ASSUME TypeOK, NEW h \in Handlers, NEW j,
           Goto(h, j) \/ \E W, d : Write(h, W, d, j)
    PROVE  job'[h] = j /\ \A g \in Handlers \ {h} : SameJob(g)
<1>1. ASSUME NEW g \in Handlers \ {h}
      PROVE  LET f == [job[g] EXCEPT !.fresh = FALSE]
             IN  /\ f.step = job[g].step /\ f.what = job[g].what
                 /\ f.user = job[g].user /\ f.mine = job[g].mine
                 /\ f.amt = job[g].amt
  BY DEF TypeOK, Job
<1>2. CASE Goto(h, j)
  BY <1>2 DEF TypeOK, Goto, SameJob
<1>3. CASE \E W, d : Write(h, W, d, j)
  <2>1. PICK W, d : Write(h, W, d, j)
    BY <1>3
  <2>2. job'[h] = j
    BY <2>1 DEF Write
  <2>3. ASSUME NEW g \in Handlers \ {h} PROVE SameJob(g)
    BY <2>1, <1>1 DEF Write, SameJob
  <2> QED BY <2>2, <2>3
<1> QED BY <1>2, <1>3

\* A step of handler h that neither pays nor serves keeps the invariant, if
\* what h goes on with was paid for.
LEMMA PaidKept ==
    ASSUME PaidInv, NEW h \in Handlers, UNCHANGED <<granted, shown, spent>>,
           \A g \in Handlers \ {h} : SameJob(g),
           job[h].step # "paid", job'[h].step # "paid", BoostHeld(h)'
    PROVE  PaidInv'
<1>1. \A g \in Handlers : BoostHeld(g)'
  BY DEF PaidInv, BoostHeld, SameJob
<1>2. ASSUME NEW u \in Users PROVE MeetupsHeld(u)'
  <2>1. PaidMeetups(u)' = PaidMeetups(u)
    BY DEF PaidMeetups, SameJob
  <2> QED BY <2>1 DEF PaidInv, MeetupsHeld
<1> QED BY <1>1, <1>2 DEF PaidInv, PaidFor, ShownPaid

\* No handler of minusBalanceProvider or of a profile is concerned.
LEMMA PaidElsewhere ==
    ASSUME PaidInv, NEW h \in Handlers, UNCHANGED <<granted, shown, spent>>,
           \A g \in Handlers \ {h} : SameJob(g), job[h].step # "paid",
           job'[h].step \notin {"check", "debit", "profile", "paid"}
    PROVE  PaidInv'
<1>1. BoostHeld(h)'
  BY DEF BoostHeld
<1> QED BY <1>1, PaidKept

\* A tap: a handler remembers a boost balance that some profile has shown.
LEMMA TapPaid ==
    ASSUME TypeOK, PaidInv, NEW h \in Handlers, NEW u \in Users, Tap(h, u)
    PROVE  PaidInv'
<1>s. ASSUME NEW j, Start(h, j)
      PROVE  /\ UNCHANGED <<granted, shown, spent>> /\ job[h].step # "paid"
             /\ job'[h] = j /\ \A g \in Handlers \ {h} : SameJob(g)
  BY <1>s, OthersSame DEF Start
<1>t. ASSUME NEW j, Start(h, j), j.step \notin {"check", "debit", "profile", "paid"}
      PROVE  PaidInv'
  BY <1>t, <1>s, PaidElsewhere
<1>b. ASSUME "boost" \in Services, NEW b \in Shown(u, "boost")
      PROVE  /\ b \in Int /\ b - 1 \in Int
             /\ b <= spent[u]["boost"] /\ b - 1 <= spent[u]["boost"]
  <2>1. "boost" \in Counted
    BY <1>b DEF Counted
  <2>2. shown[u] \in Int /\ spent[u]["boost"] \in Nat
    BY <2>1 DEF TypeOK
  <2>3. b \in 0 .. shown[u]
    BY <1>b DEF Shown
  <2>4. shown[u] <= spent[u]["boost"]
    BY <2>1 DEF PaidInv, ShownPaid
  <2> QED BY <2>2, <2>3, <2>4
<1>1. CASE CreateNewWallet(h, u)
  BY <1>1, <1>t DEF CreateNewWallet, Free
<1>2. ASSUME NEW a \in Amounts, Purchase(h, u, a) PROVE PaidInv'
  BY <1>2, <1>t DEF Purchase, Free
<1>3. ASSUME NEW a \in Amounts, NEW w \in Services, Spend(h, u, w, a)
      PROVE  PaidInv'
  <2>1. PICK b \in Shown(u, w) :
          Start(h, [Free(u) EXCEPT !.step = "check", !.what = w, !.amt = a,
                                   !.mine = b])
    BY <1>3 DEF Spend
  <2>2. /\ job'[h].step = "check" /\ job'[h].what = w
        /\ job'[h].user = u /\ job'[h].mine = b
    <3> DEFINE j == [Free(u) EXCEPT !.step = "check", !.what = w, !.amt = a,
                                    !.mine = b]
    <3>1. j.step = "check" /\ j.what = w /\ j.user = u /\ j.mine = b
      BY DEF Free
    <3>2. job'[h] = j
      BY <2>1, <1>s
    <3> QED BY <3>1, <3>2
  <2>3. ASSUME w = "boost" PROVE b <= spent'[u]["boost"]
    <3>1. spent' = spent
      BY <2>1, <1>s
    <3> QED BY <1>b, <2>3, <3>1
  <2>4. BoostHeld(h)'
    BY <2>2, <2>3 DEF BoostHeld
  <2> QED BY <2>1, <2>2, <2>4, <1>s, PaidKept
<1>4. ASSUME NEW a \in Amounts, OpenMeetupPage(h, u, a) PROVE PaidInv'
  BY <1>4, <1>t DEF OpenMeetupPage, Free
<1>5. ASSUME NEW a \in Amounts, NEW v \in Users, SendBalance(h, u, v, a)
      PROVE  PaidInv'
  BY <1>5, <1>t DEF SendBalance, Free
<1>6. ASSUME NEW a \in Amounts, NEW v \in Users, SendGift(h, u, v, a)
      PROVE  PaidInv'
  BY <1>6, <1>t DEF SendGift, Free
<1>7. ASSUME NEW k \in Totals, Redeem(h, u, k) PROVE PaidInv'
  BY <1>7, <1>t DEF Redeem, Free
<1>p. ASSUME NEW b \in Int, "boost" \in Services, b <= spent[u]["boost"],
             Start(h, [Free(u) EXCEPT !.step = "profile", !.what = "boost",
                                      !.mine = b])
      PROVE  PaidInv'
  <2> DEFINE j == [Free(u) EXCEPT !.step = "profile", !.what = "boost",
                                  !.mine = b]
  <2>1. j.step = "profile" /\ j.what = "boost" /\ j.user = u /\ j.mine = b
    BY DEF Free
  <2>2. job'[h] = j /\ spent' = spent
    BY <1>p, <1>s
  <2> HIDE DEF j
  <2>3. BoostHeld(h)'
    BY <1>p, <2>1, <2>2 DEF BoostHeld
  <2> QED BY <1>p, <1>s, <2>1, <2>2, <2>3, PaidKept
<1>8. CASE EditProfile(h, u)
  BY <1>8, <1>b, <1>p DEF EditProfile
<1>9. ASSUME NEW a \in Amounts, UseBoost(h, u, a) PROVE PaidInv'
  BY <1>9, <1>b, <1>p DEF UseBoost
<1> QED BY <1>1, <1>2, <1>3, <1>4, <1>5, <1>6, <1>7, <1>8, <1>9 DEF Tap

\* The debit of minusBalanceProvider: one more is paid for, and one more
\* handler may grant it.
LEMMA DebitPaid ==
    ASSUME TypeOK, PaidInv, NEW h \in Handlers, MinusBalanceDebit(h)
    PROVE  PaidInv'
<1> DEFINE u == job[h].user
           w == job[h].what
           p == [job[h] EXCEPT !.step = "paid"]
<1>a. job[h] \in Job /\ u \in Users /\ w \in Services \cup Totals \cup {"none"}
      /\ job[h].step = "debit" /\ job[h].mine \in Int
  BY DEF TypeOK, Job, MinusBalanceDebit
<1>1. CASE Goto(h, Idle) /\ UNCHANGED spent
  <2>1. job'[h] = Idle /\ \A g \in Handlers \ {h} : SameJob(g)
    BY <1>1, OthersSame
  <2> QED BY <2>1, <1>1, <1>a, PaidElsewhere, JobSteps DEF MinusBalanceDebit
<1>2. CASE /\ Write(h, {u}, Incremented(u, -job[h].amt), p)
           /\ spent' = IF w \in Counted
                       THEN [spent EXCEPT ![u][w] = @ + 1] ELSE spent
  <2>1. job'[h] = p /\ \A g \in Handlers \ {h} : SameJob(g)
    BY <1>2, OthersSame
  <2>2. p.step = "paid" /\ p.what = w /\ p.user = u /\ p.mine = job[h].mine
    BY <1>a DEF Job
  <2>3. granted' = granted /\ shown' = shown
    BY DEF MinusBalanceDebit
  <2>4. ASSUME NEW x \in Users, NEW k \in Counted
        PROVE  /\ spent[x][k] \in Nat /\ granted[x][k] \in Int
               /\ spent'[x][k] = spent[x][k] + (IF x = u /\ k = w THEN 1 ELSE 0)
    BY <1>2, <1>a DEF TypeOK
  <2>5. PaidFor'
    BY <2>3, <2>4 DEF PaidInv, PaidFor
  <2>6. ASSUME NEW g \in Handlers PROVE BoostHeld(g)'
    <3>1. CASE g = h
      <4>1. w = "boost" => w \in Counted
        BY <1>a DEF Counted, Totals
      <4>2. w = "boost" => job[h].mine <= spent[u]["boost"]
        BY <1>a DEF PaidInv, BoostHeld
      <4>3. w = "boost" => job[h].mine + 1 <= spent'[u]["boost"]
        BY <4>1, <4>2, <2>4, <1>a
      <4> QED BY <3>1, <4>3, <2>1, <2>2 DEF BoostHeld
    <3>2. CASE g # h
      <4>1. SameJob(g) /\ job[g].user \in Users /\ job[g].mine \in Int
            /\ job[g].what \in Services \cup Totals \cup {"none"}
        BY <3>2, <2>1 DEF TypeOK, Job
      <4>2. job[g].what = "boost" => "boost" \in Counted
        BY <4>1 DEF Counted, Totals
      <4>3. job[g].what = "boost" =>
               /\ spent[job[g].user]["boost"] \in Nat
               /\ spent'[job[g].user]["boost"] \in Nat
               /\ spent'[job[g].user]["boost"] >= spent[job[g].user]["boost"]
        BY <4>1, <4>2, <2>4
      <4>4. BoostHeld(g)
        BY DEF PaidInv
      <4> QED BY <4>1, <4>3, <4>4 DEF BoostHeld, SameJob
    <3> QED BY <3>1, <3>2
  <2>7. ASSUME NEW x \in Users, "meetup" \in Counted PROVE MeetupsHeld(x)'
    <3>1. MeetupsHeld(x) /\ IsFiniteSet(PaidMeetups(x))
          /\ Cardinality(PaidMeetups(x)) \in Nat
      BY PaidFinite DEF PaidInv
    <3>2. CASE x = u /\ w = "meetup"
      <4>1. PaidMeetups(x)' = PaidMeetups(x) \cup {h} /\ h \notin PaidMeetups(x)
        BY <3>2, <2>1, <2>2, <1>a DEF PaidMeetups, SameJob
      <4>2. Cardinality(PaidMeetups(x)') = Cardinality(PaidMeetups(x)) + 1
        BY <4>1, <3>1, FS_AddElement
      <4> QED BY <4>2, <3>1, <3>2, <2>3, <2>4, <2>7 DEF MeetupsHeld
    <3>3. CASE ~(x = u /\ w = "meetup")
      <4>1. h \notin PaidMeetups(x) /\ h \notin PaidMeetups(x)'
        BY <3>3, <2>1, <2>2, <1>a DEF PaidMeetups
      <4>2. \A g \in Handlers \ {h} : g \in PaidMeetups(x)' <=> g \in PaidMeetups(x)
        BY <2>1 DEF PaidMeetups, SameJob
      <4>3. PaidMeetups(x)' = PaidMeetups(x)
        BY <4>1, <4>2 DEF PaidMeetups
      <4> QED BY <4>3, <3>1, <3>3, <2>3, <2>4, <2>7 DEF MeetupsHeld
    <3> QED BY <3>2, <3>3
  <2>8. ASSUME NEW x \in Users PROVE ShownPaid(x)'
    <3> SUFFICES ASSUME "boost" \in Counted PROVE shown[x] <= spent'[x]["boost"]
      BY <2>3 DEF ShownPaid
    <3>1. shown[x] <= spent[x]["boost"] /\ shown[x] \in Int
      BY DEF PaidInv, ShownPaid, TypeOK
    <3> QED BY <3>1, <2>4
  <2> QED BY <2>5, <2>6, <2>7, <2>8 DEF PaidInv, MeetupsHeld
<1>3. CASE /\ Write(h, {u}, Incremented(u, -job[h].amt), Again(h, "debit", Idle))
           /\ UNCHANGED spent
  <2> DEFINE i == Again(h, "debit", Idle)
  <2>1. job'[h] = i /\ \A g \in Handlers \ {h} : SameJob(g)
    BY <1>3, OthersSame
  <2>2. UNCHANGED <<granted, shown, spent>>
    BY <1>3 DEF MinusBalanceDebit
  <2>3. \/ i = Idle
        \/ /\ i.step = "debit" /\ i.what = w /\ i.user = u
           /\ i.mine = job[h].mine
    BY AgainJob, RecordTypes DEF Steps
  <2>4. Idle.step = "idle"
    BY JobSteps
  <2> HIDE DEF i
  <2>5. BoostHeld(h)' /\ job'[h].step # "paid"
    BY <1>a, <2>1, <2>2, <2>3, <2>4 DEF BoostHeld, PaidInv
  <2> QED BY <1>a, <2>1, <2>2, <2>5, PaidKept
<1> QED BY <1>1, <1>2, <1>3 DEF MinusBalanceDebit

\* The caller of minusBalanceProvider grants what was paid for, or nothing.
LEMMA ServePaid ==
    ASSUME TypeOK, PaidInv, NEW h \in Handlers, Serve(h)
    PROVE  PaidInv'
<1> DEFINE u == job[h].user
           w == job[h].what
<1>a. /\ u \in Users /\ w \in Services \cup Totals \cup {"none"}
      /\ job[h].mine \in Int
  BY DEF TypeOK, Job
<1>1. job'[h] = Idle /\ \A g \in Handlers \ {h} : SameJob(g)
  BY OthersSame DEF Serve
<1>2. Idle.step = "idle" /\ spent' = spent
  BY JobSteps DEF Serve
<1>3. ASSUME NEW x \in Users, NEW k \in Counted
      PROVE  /\ spent[x][k] \in Nat /\ granted[x][k] \in Int
             /\ granted[x][k] <= spent[x][k]
  BY DEF TypeOK, PaidInv, PaidFor
<1>4. ASSUME NEW g \in Handlers PROVE BoostHeld(g)'
  <2>1. CASE g = h
    BY <2>1, <1>1, <1>2 DEF BoostHeld
  <2>2. CASE g # h
    BY <2>2, <1>1, <1>2 DEF BoostHeld, SameJob, PaidInv
  <2> QED BY <2>1, <2>2
<1>p. ASSUME NEW x \in Users PROVE ShownPaid(x)'
  <2> SUFFICES ASSUME "boost" \in Counted PROVE shown'[x] <= spent[x]["boost"]
    BY <1>2 DEF ShownPaid
  <2>1. shown[x] <= spent[x]["boost"] /\ shown[x] \in Int
    BY DEF PaidInv, ShownPaid, TypeOK
  <2>2. CASE ServeBoost(h)
    <3>1. job[h].mine + 1 <= spent[u]["boost"]
      BY <2>2 DEF ServeBoost, PaidInv, BoostHeld
    <3>2. shown'[x] = shown[x] \/ (x = u /\ shown'[x] = job[h].mine + 1)
      BY <2>2 DEF ServeBoost, UpdateUserProfile, TypeOK
    <3> QED BY <2>1, <3>1, <3>2
  <2>3. CASE ServeMeetup(h)
    BY <2>1, <2>3 DEF ServeMeetup
  <2> QED BY <2>1, <2>2, <2>3 DEF Serve
<1>5. ASSUME NEW x \in Users
      PROVE  /\ PaidMeetups(x)' = PaidMeetups(x) \ {h}
             /\ IsFiniteSet(PaidMeetups(x))
             /\ Cardinality(PaidMeetups(x)) \in Nat
             /\ Cardinality(PaidMeetups(x)') \in Nat
             /\ Cardinality(PaidMeetups(x)') =
                   IF h \in PaidMeetups(x) THEN Cardinality(PaidMeetups(x)) - 1
                                          ELSE Cardinality(PaidMeetups(x))
  <2>1. h \notin PaidMeetups(x)'
    BY <1>1, <1>2 DEF PaidMeetups
  <2>2. \A g \in Handlers \ {h} : g \in PaidMeetups(x)' <=> g \in PaidMeetups(x)
    BY <1>1 DEF PaidMeetups, SameJob
  <2>3. PaidMeetups(x)' = PaidMeetups(x) \ {h}
    BY <2>1, <2>2 DEF PaidMeetups
  <2>4. IsFiniteSet(PaidMeetups(x)) /\ Cardinality(PaidMeetups(x)) \in Nat
    BY PaidFinite
  <2>5. IsFiniteSet(PaidMeetups(x) \ {h})
    BY <2>4, FS_RemoveElement
  <2>6. Cardinality(PaidMeetups(x) \ {h}) \in Nat
    BY <2>5, FS_CardinalityType
  <2> QED BY <2>3, <2>4, <2>6, FS_RemoveElement
<1>6. ASSUME NEW x \in Users,
             "meetup" \in Counted,
             \/ granted'[x]["meetup"] = granted[x]["meetup"]
             \/ /\ h \in PaidMeetups(x)
                /\ granted'[x]["meetup"] = granted[x]["meetup"] + 1
      PROVE  /\ granted'[x]["meetup"] + Cardinality(PaidMeetups(x)') <= spent[x]["meetup"]
             /\ granted'[x]["meetup"] <= spent[x]["meetup"]
  <2>1. granted[x]["meetup"] + Cardinality(PaidMeetups(x)) <= spent[x]["meetup"]
    BY <1>6 DEF PaidInv, MeetupsHeld
  <2> QED BY <2>1, <1>3, <1>5, <1>6
<1>7. ASSUME NEW x \in Users, NEW k \in Counted
      PROVE  /\ granted'[x][k] <= spent[x][k]
             /\ k = "meetup" =>
                   \/ granted'[x][k] = granted[x][k]
                   \/ /\ h \in PaidMeetups(x)
                      /\ granted'[x][k] = granted[x][k] + 1
  <2>1. CASE ServeBoost(h)
    <3>1. /\ w = "boost" /\ job[h].mine + 1 <= spent[u]["boost"]
      BY <2>1 DEF ServeBoost, PaidInv, BoostHeld
    <3>2. granted'[x][k] = IF x = u /\ k = "boost" THEN job[h].mine + 1
                                                   ELSE granted[x][k]
      BY <2>1, <1>a DEF ServeBoost, UpdateUserProfile, TypeOK
    <3> QED BY <3>1, <3>2, <1>3
  <2>2. CASE ServeMeetup(h)
    <3>1. granted'[x][k] = IF x = u /\ k = "meetup" THEN granted[x][k] + 1
                                                    ELSE granted[x][k]
      BY <2>2, <1>a DEF ServeMeetup, TypeOK
    <3>2. h \in PaidMeetups(u)
      BY <2>2 DEF ServeMeetup, PaidMeetups
    <3>3. CASE k = "meetup"
      BY <3>1, <3>2, <3>3, <1>6
    <3>4. CASE k # "meetup"
      BY <3>1, <3>4, <1>3
    <3> QED BY <3>3, <3>4
  <2>3. CASE UNCHANGED granted
    BY <2>3, <1>3
  <2> QED BY <2>1, <2>2, <2>3 DEF Serve
<1>8. PaidFor'
  BY <1>7, <1>2 DEF PaidFor
<1>9. ASSUME NEW x \in Users PROVE MeetupsHeld(x)'
  BY <1>6, <1>7, <1>2 DEF MeetupsHeld
<1> QED BY <1>4, <1>8, <1>9, <1>p DEF PaidInv

\* A profile that is stored shows what some profile had shown, or less.
LEMMA StorePaid ==
    ASSUME TypeOK, PaidInv, NEW h \in Handlers, StoreProfile(h)
    PROVE  PaidInv'
<1> DEFINE u == job[h].user
           b == job[h].mine
<1>a. /\ u \in Users /\ b \in Int
      /\ job[h].what \in Services \cup Totals \cup {"none"}
  BY DEF TypeOK, Job
<1>1. /\ job'[h] = Idle /\ Idle.step = "idle"
      /\ \A g \in Handlers \ {h} : SameJob(g)
  BY OthersSame, JobSteps DEF StoreProfile
<1>2. spent' = spent /\ job[h].step = "profile"
  BY DEF StoreProfile
<1>3. CASE UNCHANGED <<granted, shown>>
  BY <1>1, <1>2, <1>3, PaidElsewhere
<1>4. CASE UpdateUserProfile(u, b)
  <2>1. ASSUME NEW x \in Users, NEW k \in Counted
        PROVE  granted'[x][k] = IF x = u /\ k = "boost" THEN b ELSE granted[x][k]
    BY <1>a, <1>4 DEF UpdateUserProfile, TypeOK
  <2>2. ASSUME NEW x \in Users
        PROVE  shown'[x] = shown[x] \/ (x = u /\ shown'[x] = b)
    BY <1>4 DEF UpdateUserProfile, TypeOK
  <2>3. "boost" \in Counted => b <= spent[u]["boost"]
    BY <1>2 DEF PaidInv, BoostHeld
  <2>4. PaidFor'
    BY <1>2, <2>1, <2>3 DEF PaidInv, PaidFor
  <2>5. \A x \in Users : ShownPaid(x)'
    BY <1>2, <2>2, <2>3 DEF PaidInv, ShownPaid
  <2>6. \A g \in Handlers : BoostHeld(g)'
    BY <1>1, <1>2 DEF PaidInv, BoostHeld, SameJob
  <2>7. ASSUME NEW x \in Users PROVE MeetupsHeld(x)'
    <3>1. PaidMeetups(x)' = PaidMeetups(x)
      BY <1>1, <1>2 DEF PaidMeetups, SameJob
    <3>2. "meetup" \in Counted => granted'[x]["meetup"] = granted[x]["meetup"]
      BY <2>1
    <3> QED BY <1>2, <3>1, <3>2 DEF PaidInv, MeetupsHeld
  <2> QED BY <2>4, <2>5, <2>6, <2>7 DEF PaidInv
<1> QED BY <1>3, <1>4 DEF StoreProfile

\* The other steps of a handler.
LEMMA ContinuePaid ==
    ASSUME TypeOK, PaidInv, NEW h \in Handlers, PostMeetup(h) \/ Continue(h)
    PROVE  PaidInv'
<1>a. job[h] \in Job
  BY DEF TypeOK
<1>e. ASSUME NEW j, UNCHANGED <<granted, shown, spent>>, job[h].step # "paid",
             j.step \notin {"check", "debit", "profile", "paid"},
             Goto(h, j) \/ \E W, d : Write(h, W, d, j)
      PROVE  PaidInv'
  <2>1. job'[h] = j /\ \A g \in Handlers \ {h} : SameJob(g)
    BY <1>e, OthersSame
  <2> QED BY <2>1, <1>e, PaidElsewhere
<1>i. Idle.step = "idle"
  BY JobSteps
<1>b. Idle \in Job
  BY RecordTypes
<1>t. ASSUME NEW s \in {"send", "gift", "credit", "redeem", "redeemCredit", "redeemDebit"},
             NEW j \in Job, j.step \notin {"check", "debit", "profile", "paid"}
      PROVE  Again(h, s, j).step \notin {"check", "debit", "profile", "paid"}
  BY <1>t, AgainJob DEF Steps
<1>r. ASSUME NEW s \in {"send", "gift"}, Conflict(h, s),
             UNCHANGED <<granted, shown, spent>>, job[h].step # "paid"
      PROVE  PaidInv'
  <2>1. Again(h, s, Idle).step \notin {"check", "debit", "profile", "paid"}
    BY <1>b, <1>i, <1>t
  <2> QED BY <2>1, <1>r, <1>e DEF Conflict
<1>1. CASE PostMeetup(h)
  <2> DEFINE j == [job[h] EXCEPT !.step = "check", !.mine = 0]
  <2>1. CASE Goto(h, Idle)
    BY <2>1, <1>1, <1>e, <1>i DEF PostMeetup
  <2>2. CASE Goto(h, j)
    <3>1. j.step = "check" /\ j.mine = 0 /\ j.what = job[h].what
          /\ j.user = job[h].user /\ j.user \in Users
          /\ job[h].what \in Services \cup Totals \cup {"none"}
      BY <1>a DEF Job
    <3>2. job'[h] = j /\ \A g \in Handlers \ {h} : SameJob(g)
      BY <2>2, OthersSame
    <3>3. j.what = "boost" => "boost" \in Counted
      BY <3>1 DEF Counted, Totals
    <3>4. j.what = "boost" => 0 <= spent[j.user]["boost"]
      BY <3>1, <3>3 DEF TypeOK
    <3>5. UNCHANGED <<granted, shown, spent>> /\ job[h].step # "paid"
      BY <1>1 DEF PostMeetup
    <3>6. BoostHeld(h)'
      BY <3>1, <3>2, <3>4, <3>5 DEF BoostHeld
    <3> QED BY <3>1, <3>2, <3>5, <3>6, PaidKept
  <2> QED BY <1>1, <2>1, <2>2 DEF PostMeetup
<1>2. CASE CreateNewWalletSet(h)
  BY <1>2, <1>e, <1>i DEF CreateNewWalletSet
<1>3. CASE AddBalance(h)
  BY <1>3, <1>e, <1>b, <1>i, <1>t DEF AddBalance
<1>4. CASE MinusBalanceCheck(h)
  <2> DEFINE n == [job[h] EXCEPT !.step = "unpaid"]
             j == [job[h] EXCEPT !.step = "debit"]
  <2>1. UNCHANGED <<granted, shown, spent>> /\ job[h].step = "check"
    BY <1>4 DEF MinusBalanceCheck
  <2>2. CASE Goto(h, Idle)
    BY <2>1, <2>2, <1>e, <1>i
  <2>3. CASE Goto(h, n)
    <3>1. n.step = "unpaid"
      BY <1>a DEF Job
    <3> QED BY <3>1, <2>1, <2>3, <1>e
  <2>4. CASE Goto(h, j)
    <3>1. j.step = "debit" /\ j.mine = job[h].mine /\ j.what = job[h].what
          /\ j.user = job[h].user
      BY <1>a DEF Job
    <3>2. job'[h] = j /\ \A g \in Handlers \ {h} : SameJob(g)
      BY <2>4, OthersSame
    <3>3. BoostHeld(h)'
      BY <2>1, <3>1, <3>2 DEF BoostHeld, PaidInv
    <3> QED BY <2>1, <3>1, <3>2, <3>3, PaidKept
  <2> QED BY <1>4, <2>2, <2>3, <2>4 DEF MinusBalanceCheck
<1>5. CASE SendBalanceRead(h)
  <2>1. [job[h] EXCEPT !.step = "sendCommit", !.mine = doc[job[h].user].balance,
                       !.theirs = doc[job[h].peer].balance].step = "sendCommit"
    BY <1>a DEF Job
  <2> QED BY <2>1, <1>5, <1>e DEF SendBalanceRead
<1>6. CASE SendBalanceCommit(h)
  BY <1>6, <1>e, <1>b, <1>i, <1>r, <1>t DEF SendBalanceCommit
<1>7. CASE SendGiftRead(h)
  <2>1. [job[h] EXCEPT !.step = "giftCommit"].step = "giftCommit"
    BY <1>a DEF Job
  <2> QED BY <2>1, <1>7, <1>e DEF SendGiftRead
<1>8. CASE SendGiftCommit(h)
  BY <1>8, <1>e, <1>b, <1>i, <1>r, <1>t DEF SendGiftCommit
<1>n. \A s \in {"redeemDebit", "redeemCredit"} :
         /\ [job[h] EXCEPT !.step = s, !.tries = 0] \in Job
         /\ [job[h] EXCEPT !.step = s, !.tries = 0].step = s
  BY <1>a DEF Job, Steps
<1>9. CASE RedeemCredit(h)
  BY <1>9, <1>n, <1>e, <1>b, <1>i, <1>t DEF RedeemCredit
<1>10. CASE RedeemDebit(h)
  BY <1>10, <1>n, <1>e, <1>b, <1>i, <1>t DEF RedeemDebit
<1>11. CASE GiftCheck(h)
  <2>1. [job[h] EXCEPT !.step = "gift"].step = "gift"
    BY <1>a DEF Job
  <2> QED BY <2>1, <1>11, <1>e, <1>i DEF GiftCheck
<1> QED BY <1>1, <1>2, <1>3, <1>4, <1>5, <1>6, <1>7, <1>8, <1>9, <1>10,
           <1>11, DebitPaid, ServePaid, StorePaid DEF Continue

\* However the taps of several clients interleave, nobody has more boosts, or
\* more meetups, than minusBalanceProvider took the price of, although every
\* purchase, use or edit writes back a boost balance that it read from a
\* profile stale by any number of purchases and uses.
THEOREM ServicesPaidFor == Spec => []PaidFor
<1>1. Init => PaidInv
  <2> SUFFICES ASSUME Init PROVE PaidInv
    OBVIOUS
  <2>1. PaidFor
    <3>1. TypeOK /\ granted = spent
      BY TypeInit DEF Init
    <3> QED BY <3>1 DEF PaidFor, TypeOK
  <2>5. ASSUME NEW u \in Users PROVE ShownPaid(u)
    <3> SUFFICES ASSUME "boost" \in Counted PROVE shown[u] <= spent[u]["boost"]
      BY DEF ShownPaid
    <3>1. spent[u]["boost"] = shown[u] /\ shown[u] \in Int
      BY DEF Init
    <3> QED BY <3>1
  <2>2. \A h \in Handlers : job[h].step = "idle"
    BY DEF Init, Idle, Free
  <2>3. \A h \in Handlers : BoostHeld(h)
    BY <2>2 DEF BoostHeld
  <2>4. ASSUME NEW u \in Users PROVE MeetupsHeld(u)
    <3>1. PaidMeetups(u) = {}
      BY <2>2 DEF PaidMeetups
    <3>2. Cardinality(PaidMeetups(u)) = 0
      BY <3>1, FS_EmptySet
    <3>3. "meetup" \in Counted =>
             granted[u]["meetup"] = 0 /\ spent[u]["meetup"] = 0
      BY DEF Init
    <3> QED BY <3>2, <3>3 DEF MeetupsHeld
  <2> QED BY <2>1, <2>3, <2>4, <2>5 DEF PaidInv
<1>2. TypeOK /\ PaidInv /\ [Next]_vars => PaidInv'
  <2> SUFFICES ASSUME TypeOK, PaidInv, [Next]_vars PROVE PaidInv'
    OBVIOUS
  <2>1. UNCHANGED <<job, granted, shown, spent>> => PaidInv'
    BY DEF PaidInv, PaidFor, ShownPaid, BoostHeld, MeetupsHeld, PaidMeetups
  <2>2. UNCHANGED vars => PaidInv'
    BY <2>1 DEF vars
  <2>3. ASSUME NEW u \in Users, Deliver(u) PROVE PaidInv'
    BY <2>1, <2>3 DEF Deliver
  <2> QED BY <2>2, <2>3, TapPaid, ContinuePaid DEF Next
<1>3. PaidInv => PaidFor
  BY DEF PaidInv
<1> QED BY <1>1, <1>2, <1>3, TypeCorrect, PTL DEF Spec

-----------------------------------------------------------------------------
(***************************************************************************)
(* Debt.  A step of handler h either takes nothing that was not already    *)
(* pending or is not recorded as overdrawn, or leaves in the wallet what h *)
(* itself is about to take: then only the other handlers in flight can     *)
(* take more.                                                              *)
(***************************************************************************)

\* What handler h is about to take from u.
Due(h, u) ==
    IF job[h].user = u /\ job[h].step = "debit" THEN job[h].amt ELSE 0

Depth == (Cardinality(Handlers) - 1) * Max(Amounts)

\* A handler of minusBalanceProvider was given one of the Amounts.
Priced(h) == job[h].step \in {"page", "check", "debit"} => job[h].amt \in Amounts

DebtInv == (\A h \in Handlers : Priced(h)) /\ DebtBounded

\* Amounts has a largest element.
LEMMA MaxAmount ==
    Max(Amounts) \in Amounts /\ \A a \in Amounts : a <= Max(Amounts)
<1> DEFINE f == [a \in Amounts |-> a]
<1>1. \A a \in Amounts : f[a] = a /\ f[a] \in Int
  BY WalletAssumption
<1> HIDE DEF f
<1>2. PICK m \in Amounts : \A a \in Amounts : f[a] <= f[m]
  BY <1>1, WalletAssumption, MaxExists
<1>3. \E x \in Amounts : \A a \in Amounts : x >= a
  BY <1>1, <1>2
<1>4. Max(Amounts) \in Amounts /\ \A a \in Amounts : Max(Amounts) >= a
  BY <1>3 DEF Max
<1> QED BY <1>4, WalletAssumption

\* What is pending beyond the share of one handler is at most Depth.
LEMMA PendingRest ==
    ASSUME TypeOK, \A g \in Handlers : Priced(g), NEW h \in Handlers, NEW u
    PROVE  /\ Pending(u) \in Int /\ Due(h, u) \in Nat /\ Depth \in Nat
           /\ Pending(u) - Due(h, u) <= Depth
<1> DEFINE f == [g \in Handlers |-> IF job[g].user = u /\ job[g].step = "debit"
                                    THEN job[g].amt ELSE 0]
           R == Handlers \ {h}
           m == Max(Amounts)
<1>1. IsFiniteSet(Handlers) /\ IsFiniteSet(R)
  BY WalletAssumption, FS_RemoveElement
<1>2. Cardinality(R) = Cardinality(Handlers) - 1 /\ Cardinality(R) \in Nat
  BY WalletAssumption, <1>1, FS_RemoveElement, FS_CardinalityType
<1>3. m \in Nat /\ \A a \in Amounts : a <= m
  BY MaxAmount, WalletAssumption
<1>4. ASSUME NEW g \in Handlers
      PROVE  f[g] = Due(g, u) /\ Due(g, u) \in Nat /\ Due(g, u) <= m
  <2>1. job[g].amt \in Nat
    BY DEF TypeOK, Job
  <2>2. job[g].step = "debit" => job[g].amt <= m
    BY <1>3 DEF Priced
  <2> QED BY <1>3, <2>1, <2>2 DEF Due
<1>5. Pending(u) = SumFunctionOnSet(f, Handlers)
  BY DEF Pending
<1> HIDE DEF f, m
<1>6. \A g \in Handlers : f[g] \in Int
  BY <1>4
<1>7. /\ SumFunctionOnSet(f, Handlers) \in Int
      /\ SumFunctionOnSet(f, Handlers) = f[h] + SumFunctionOnSet(f, R)
  BY <1>1, <1>6, SumTake
<1>8. \A g \in R : f[g] \in Nat /\ f[g] <= m
  BY <1>4
<1> HIDE DEF R
<1>9. /\ SumFunctionOnSet(f, R) \in Nat
      /\ SumFunctionOnSet(f, R) <= Cardinality(R) * m
  BY <1>1, <1>3, <1>8, SumBound
<1>10. Depth = Cardinality(R) * m /\ Depth \in Nat
  BY <1>2, <1>3 DEF Depth, m
<1> QED BY <1>4, <1>5, <1>7, <1>9, <1>10

\* A step of h changes what is pending by the share of h.
LEMMA PendingChange ==
    ASSUME TypeOK, TypeOK', NEW h \in Handlers, NEW u,
           \A g \in Handlers \ {h} : SameJob(g)
    PROVE  Pending(u)' = Pending(u) - Due(h, u) + Due(h, u)'
<1> DEFINE f == [g \in Handlers |-> IF job[g].user = u /\ job[g].step = "debit"
                                    THEN job[g].amt ELSE 0]
<1>1. IsFiniteSet(Handlers)
  BY WalletAssumption
<1>2. \A g \in Handlers : f[g] = Due(g, u) /\ f'[g] = Due(g, u)'
  BY DEF Due
<1>3. \A g \in Handlers : Due(g, u) \in Int /\ Due(g, u)' \in Int
  BY DEF TypeOK, Job, Due
<1>4. \A g \in Handlers \ {h} : Due(g, u) = Due(g, u)'
  BY DEF Due, SameJob
<1>5. /\ Pending(u) = SumFunctionOnSet(f, Handlers)
      /\ Pending(u)' = SumFunctionOnSet(f', Handlers)
  BY DEF Pending
<1> HIDE DEF f
<1>6. \A g \in Handlers : f[g] \in Int /\ f'[g] \in Int
  BY <1>2, <1>3
<1>7. \A g \in Handlers \ {h} : f[g] = f'[g]
  BY <1>2, <1>4
<1>8. SumFunctionOnSet(f', Handlers) = SumFunctionOnSet(f, Handlers) - f[h] + f'[h]
  BY <1>1, <1>6, <1>7, SumChange
<1> QED BY <1>2, <1>5, <1>8

\* A step of handler h keeps the bound when, for every user, it takes nothing
\* that was not pending or is not recorded, or leaves what h is due.
LEMMA DebtStep ==
    ASSUME TypeOK, TypeOK', DebtInv, NEW h \in Handlers, Priced(h)',
           \A g \in Handlers \ {h} : SameJob(g),
           \A u \in Users :
              \/ doc'[u].balance - Due(h, u)' + overdrawn'[u] >=
                    doc[u].balance - Due(h, u) + overdrawn[u]
              \/ doc'[u].balance >= Due(h, u)'
    PROVE  DebtInv'
<1>1. \A g \in Handlers : Priced(g)
  BY DEF DebtInv
<1>2. \A g \in Handlers : Priced(g)'
  BY <1>1 DEF Priced, SameJob
<1>3. ASSUME NEW u \in Users
      PROVE  doc'[u].balance - Pending(u)' >= -Depth - overdrawn'[u]
  <2>1. /\ doc[u].balance \in Int /\ doc'[u].balance \in Int
        /\ overdrawn[u] \in Nat /\ overdrawn'[u] \in Nat
    BY DEF TypeOK, Wallet
  <2>2. /\ Pending(u) \in Int /\ Due(h, u) \in Nat /\ Depth \in Nat
        /\ Pending(u) - Due(h, u) <= Depth
    BY <1>1, PendingRest
  <2>3. Due(h, u)' \in Nat
    BY DEF TypeOK, Job, Due
  <2>4. Pending(u)' = Pending(u) - Due(h, u) + Due(h, u)'
    BY PendingChange
  <2>5. doc[u].balance - Pending(u) >= -Depth - overdrawn[u]
    BY DEF DebtInv, DebtBounded, Depth
  <2>6. \/ doc'[u].balance - Due(h, u)' + overdrawn'[u] >=
              doc[u].balance - Due(h, u) + overdrawn[u]
        \/ doc'[u].balance >= Due(h, u)'
    OBVIOUS
  <2> QED BY <2>1, <2>2, <2>3, <2>4, <2>5, <2>6
<1>4. DebtBounded'
  BY <1>3 DEF DebtBounded, Depth
<1> QED BY <1>2, <1>4 DEF DebtInv

\* A handler that goes on to anything but a debit, and lowers no balance
\* unrecorded or leaves nobody in debt.
LEMMA DebtElsewhere ==
    ASSUME TypeOK, TypeOK', DebtInv, NEW h \in Handlers, NEW j,
           Goto(h, j) \/ \E W, d : Write(h, W, d, j),
           j.step # "debit", j.step \in {"page", "check"} => j.amt \in Amounts,
           \A u \in Users :
              \/ doc'[u].balance + overdrawn'[u] >=
                    doc[u].balance + overdrawn[u]
              \/ doc'[u].balance >= 0
    PROVE  DebtInv'
<1>1. job'[h] = j /\ \A g \in Handlers \ {h} : SameJob(g)
  BY OthersSame
<1>2. Priced(h)'
  BY <1>1 DEF Priced
<1>3. ASSUME NEW u \in Users
      PROVE  \/ doc'[u].balance - Due(h, u)' + overdrawn'[u] >=
                   doc[u].balance - Due(h, u) + overdrawn[u]
             \/ doc'[u].balance >= Due(h, u)'
  <2>1. Due(h, u)' = 0
    BY <1>1 DEF Due
  <2>2. Due(h, u) \in Nat
    BY DEF TypeOK, Job, Due
  <2>3. /\ doc[u].balance \in Int /\ doc'[u].balance \in Int
        /\ overdrawn[u] \in Nat /\ overdrawn'[u] \in Nat
    BY DEF TypeOK, Wallet
  <2>4. \/ doc'[u].balance + overdrawn'[u] >= doc[u].balance + overdrawn[u]
        \/ doc'[u].balance >= 0
    OBVIOUS
  <2> QED BY <2>1, <2>2, <2>3, <2>4
<1> QED BY <1>1, <1>2, <1>3, DebtStep

\* A handler that writes nothing.
LEMMA DebtGoto ==
    ASSUME TypeOK, TypeOK', DebtInv, NEW h \in Handlers, NEW j, Goto(h, j),
           j.step # "debit", j.step \in {"page", "check"} => j.amt \in Amounts,
           overdrawn' = overdrawn
    PROVE  DebtInv'
<1>1. \A u \in Users : doc'[u].balance = doc[u].balance /\ doc[u].balance \in Int
  BY DEF Goto, TypeOK, Wallet
<1>2. \A u \in Users : /\ overdrawn'[u] = overdrawn[u]
                       /\ overdrawn[u] \in Int
  BY DEF TypeOK
<1>3. \A u \in Users : doc'[u].balance + overdrawn'[u] >=
                          doc[u].balance + overdrawn[u]
  BY <1>1, <1>2
<1> QED BY <1>3, DebtElsewhere

\* A tap debits nothing yet.
LEMMA TapDebt ==
    ASSUME TypeOK, TypeOK', DebtInv, NEW h \in Handlers, NEW u \in Users, Tap(h, u)
    PROVE  DebtInv'
<1>s. ASSUME NEW j, Start(h, j), j.step # "debit",
             j.step \in {"page", "check"} => j.amt \in Amounts
      PROVE  DebtInv'
  BY <1>s, DebtGoto DEF Start
<1>1. CASE CreateNewWallet(h, u)
  BY <1>1, <1>s DEF CreateNewWallet, Free
<1>2. ASSUME NEW a \in Amounts, Purchase(h, u, a) PROVE DebtInv'
  BY <1>2, <1>s DEF Purchase, Free
<1>3. ASSUME NEW a \in Amounts, NEW w \in Services, Spend(h, u, w, a)
      PROVE  DebtInv'
  BY <1>3, <1>s DEF Spend, Free
<1>4. ASSUME NEW a \in Amounts, OpenMeetupPage(h, u, a) PROVE DebtInv'
  BY <1>4, <1>s DEF OpenMeetupPage, Free
<1>5. ASSUME NEW a \in Amounts, NEW v \in Users, SendBalance(h, u, v, a)
      PROVE  DebtInv'
  BY <1>5, <1>s DEF SendBalance, Free
<1>6. ASSUME NEW a \in Amounts, NEW v \in Users, SendGift(h, u, v, a)
      PROVE  DebtInv'
  BY <1>6, <1>s DEF SendGift, Free
<1>7. ASSUME NEW k \in Totals, Redeem(h, u, k) PROVE DebtInv'
  BY <1>7, <1>s DEF Redeem, Free
<1>8. CASE EditProfile(h, u)
  BY <1>8, <1>s DEF EditProfile, Free
<1>9. ASSUME NEW a \in Amounts, UseBoost(h, u, a) PROVE DebtInv'
  BY <1>9, <1>s DEF UseBoost, Free
<1> QED BY <1>1, <1>2, <1>3, <1>4, <1>5, <1>6, <1>7, <1>8, <1>9 DEF Tap

\* What Overdraw records.
LEMMA OverdrawRecords ==
    ASSUME TypeOK, NEW u \in Users, NEW a \in Nat, Overdraw(u, a)
    PROVE  /\ \A x \in Users \ {u} : overdrawn'[x] = overdrawn[x]
           /\ doc[u].balance >= a => overdrawn'[u] = overdrawn[u]
           /\ ~(doc[u].balance >= a) => overdrawn'[u] = overdrawn[u] + a
           /\ \A x \in Users : overdrawn[x] \in Nat
BY DEF TypeOK, Overdraw

\* minusBalanceProvider.  The check finds the amount in the wallet, or the
\* amount is recorded as overdrawn; the debit takes what was pending, or is
\* recorded and stays pending.
LEMMA MinusDebt ==
    ASSUME TypeOK, TypeOK', DebtInv, NEW h \in Handlers,
           MinusBalanceCheck(h) \/ MinusBalanceDebit(h)
    PROVE  DebtInv'
<1> DEFINE x == job[h].user
           a == job[h].amt
<1>a. job[h] \in Job /\ x \in Users /\ a \in Nat
  BY DEF TypeOK, Job
<1>c. \A u \in Users : /\ doc[u].balance \in Int /\ doc'[u].balance \in Int
                       /\ overdrawn[u] \in Nat
  BY DEF TypeOK, Wallet
<1>i. Idle.step = "idle"
  BY JobSteps
<1>n. Priced(h)
  BY DEF DebtInv
<1>g. ASSUME Goto(h, Idle), overdrawn' = overdrawn PROVE DebtInv'
  BY <1>g, <1>i, DebtGoto
<1>1. CASE MinusBalanceCheck(h)
  <2> DEFINE n == [job[h] EXCEPT !.step = "unpaid"]
             j == [job[h] EXCEPT !.step = "debit"]
  <2>1. CASE Goto(h, n) /\ overdrawn' = overdrawn
    <3>1. n.step = "unpaid"
      BY <1>a DEF Job
    <3> QED BY <2>1, <3>1, DebtGoto
  <2>2. CASE Goto(h, j) /\ Overdraw(x, a)
    <3>1. j.step = "debit" /\ j.amt = a /\ j.user = x
      BY <1>a DEF Job
    <3>2. job'[h] = j /\ \A g \in Handlers \ {h} : SameJob(g)
      BY <2>2, OthersSame
    <3>3. doc' = doc /\ job[h].step = "check"
      BY <1>1, <2>2 DEF Goto, MinusBalanceCheck
    <3>4. Priced(h)'
      BY <1>n, <3>1, <3>2, <3>3 DEF Priced
    <3> HIDE DEF j
    <3>o. /\ \A u \in Users \ {x} : overdrawn'[u] = overdrawn[u]
          /\ doc[x].balance >= a => overdrawn'[x] = overdrawn[x]
          /\ ~(doc[x].balance >= a) => overdrawn'[x] = overdrawn[x] + a
      BY <1>a, <2>2, OverdrawRecords
    <3>5. ASSUME NEW u \in Users
          PROVE  \/ doc'[u].balance - Due(h, u)' + overdrawn'[u] >=
                       doc[u].balance - Due(h, u) + overdrawn[u]
                 \/ doc'[u].balance >= Due(h, u)'
      <4>1. Due(h, u) = 0
        BY <3>3 DEF Due
      <4>2. Due(h, u)' = IF x = u THEN a ELSE 0
        BY <3>1, <3>2 DEF Due
      <4> HIDE DEF x, a
      <4>3. CASE x = u
        BY <1>a, <1>c, <3>3, <3>o, <4>1, <4>2, <4>3
      <4>4. CASE x # u
        BY <1>c, <3>3, <3>o, <4>1, <4>2, <4>4
      <4> QED BY <4>3, <4>4
    <3> QED BY <3>2, <3>4, <3>5, DebtStep
  <2> QED BY <1>1, <1>g, <2>1, <2>2 DEF MinusBalanceCheck
<1>2. CASE MinusBalanceDebit(h)
  <2> DEFINE p == [job[h] EXCEPT !.step = "paid"]
             i == Again(h, "debit", Idle)
             d == Incremented(x, -a)
  <2>d. job[h].step = "debit"
    BY <1>2 DEF MinusBalanceDebit
  <2>w. ASSUME NEW j, Write(h, {x}, d, j), Priced(h)',
               \/ /\ j.step # "debit"
                  /\ \A u \in Users : overdrawn'[u] >= overdrawn[u]
               \/ /\ j.user = x /\ j.amt = a
                  /\ \A u \in Users \ {x} : overdrawn'[u] = overdrawn[u]
                  /\ overdrawn'[x] = overdrawn[x] + a
        PROVE  DebtInv'
    <3>1. job'[h] = j /\ \A g \in Handlers \ {h} : SameJob(g)
      BY <2>w, OthersSame
    <3>2. -a \in Int /\ doc' = Incremented(x, -a)
      BY <1>a, <2>w DEF Write
    <3>3. /\ \A u \in Users \ {x} : doc'[u] = doc[u]
          /\ doc'[x].balance = doc[x].balance + (-a)
      BY <1>a, <3>2, IncrementWrites
    <3>4. ASSUME NEW u \in Users
          PROVE  doc'[u].balance - Due(h, u)' + overdrawn'[u] >=
                    doc[u].balance - Due(h, u) + overdrawn[u]
      <4>1. Due(h, u) = IF x = u THEN a ELSE 0
        BY <2>d DEF Due
      <4>2. Due(h, u)' = IF j.user = u /\ j.step = "debit" THEN j.amt ELSE 0
        BY <3>1 DEF Due
      <4>3. overdrawn'[u] \in Nat
        BY DEF TypeOK
      <4> HIDE DEF x, a, d
      <4>4. CASE x = u
        BY <1>a, <1>c, <2>w, <3>3, <4>1, <4>2, <4>3, <4>4
      <4>5. CASE x # u
        BY <1>a, <1>c, <2>w, <3>3, <4>1, <4>2, <4>3, <4>5
      <4> QED BY <4>4, <4>5
    <3> HIDE DEF x, a, d
    <3> QED BY <2>w, <3>1, <3>4, DebtStep
  <2>1. CASE Write(h, {x}, d, p) /\ overdrawn' = overdrawn
    <3>1. p.step = "paid"
      BY <1>a DEF Job
    <3>2. job'[h] = p
      BY <2>1, OthersSame
    <3>3. Priced(h)'
      BY <3>1, <3>2 DEF Priced
    <3>4. \A u \in Users : overdrawn'[u] >= overdrawn[u]
      BY <1>c, <2>1
    <3> HIDE DEF p, d
    <3> QED BY <2>1, <2>w, <3>1, <3>3, <3>4
  <2>2. CASE /\ Write(h, {x}, d, i)
             /\ overdrawn' = [overdrawn EXCEPT ![x] = @ + a]
    <3>1. job'[h] = i
      BY <2>2, OthersSame
    <3>2. i = Idle \/ (i.step = "debit" /\ i.user = x /\ i.amt = a)
      BY AgainJob, RecordTypes DEF Steps
    <3>3. a \in Amounts
      BY <1>n, <2>d DEF Priced
    <3>4. /\ \A u \in Users \ {x} : overdrawn'[u] = overdrawn[u]
          /\ overdrawn'[x] = overdrawn[x] + a
      BY <1>a, <2>2 DEF TypeOK
    <3>5. \A u \in Users : overdrawn'[u] >= overdrawn[u]
      BY <1>a, <1>c, <3>4
    <3> HIDE DEF i, d, x, a
    <3>6. Priced(h)'
      BY <1>i, <3>1, <3>2, <3>3 DEF Priced
    <3> QED BY <1>i, <2>2, <2>w, <3>2, <3>4, <3>5, <3>6
  <2> QED BY <1>2, <1>g, <2>1, <2>2 DEF MinusBalanceDebit
<1> QED BY <1>1, <1>2

\* The transfer and the gift.  The sender of a transfer keeps what it does not
\* send, however often it is made; a gift that takes more than there is is
\* recorded.
LEMMA SendDebt ==
    ASSUME TypeOK, TypeOK', ReadsCurrent, DebtInv, NEW h \in Handlers,
           SendBalanceCommit(h) \/ SendGiftCommit(h)
    PROVE  DebtInv'
<1>b. PICK u \in Users, v \in Users, a \in Nat :
        job[h].user = u /\ job[h].peer = v /\ job[h].amt = a
  BY DEF TypeOK, Job
<1>c. \A x \in Users : doc[x].balance \in Int /\ doc'[x].balance \in Int
  BY DEF TypeOK, Wallet
<1>i. Idle.step = "idle"
  BY JobSteps
<1>o. \A x \in Users : overdrawn[x] \in Nat
  BY DEF TypeOK
<1>g. ASSUME Goto(h, Idle), overdrawn' = overdrawn PROVE DebtInv'
  BY <1>g, <1>i, DebtGoto
<1>t. ASSUME NEW s \in {"send", "gift"}, NEW i \in {Idle, Again(h, s, Idle)}
      PROVE  i.step \notin {"page", "check", "debit"}
  BY <1>i, <1>t, AgainJob, RecordTypes DEF Steps
<1>r. ASSUME NEW s \in {"send", "gift"}, Conflict(h, s), overdrawn' = overdrawn
      PROVE  DebtInv'
  <2>1. Again(h, s, Idle).step \notin {"page", "check", "debit"}
    BY <1>t
  <2> QED BY <1>r, <2>1, DebtGoto DEF Conflict
<1>1. CASE SendBalanceCommit(h)
  <2>1. ASSUME NEW i \in {Idle, Again(h, "send", Idle)},
               job[h].fresh, job[h].mine >= a,
               Write(h, {u, v}, Transferred(u, v, job[h]), i)
        PROVE  DebtInv'
    <3>1. job[h].mine = doc[u].balance /\ job[h].theirs = doc[v].balance
      BY <1>1, <1>b, <2>1 DEF ReadsCurrent, SendBalanceCommit
    <3>2. doc' = Transferred(u, v, job[h])
      BY <2>1 DEF Write
    <3>3. ASSUME u = v PROVE \A x \in Users : doc'[x].balance >= doc[x].balance
      <4>1. doc' = Incremented(u, a)
        BY <1>b, <3>1, <3>2, <3>3, TransferWrites
      <4>2. /\ \A x \in Users \ {u} : doc'[x] = doc[x]
            /\ doc'[u].balance = doc[u].balance + a
        BY <4>1, IncrementWrites
      <4> QED BY <1>c, <4>2
    <3>4. ASSUME u # v
          PROVE  \A x \in Users : \/ doc'[x].balance >= doc[x].balance
                                 \/ doc'[x].balance >= 0
      <4>1. /\ \A x \in Users \ {u, v} : doc'[x] = doc[x]
            /\ doc'[u].balance = doc[u].balance - a
            /\ doc'[v].balance = doc[v].balance + a
        BY <1>b, <3>1, <3>2, <3>4, TransferWrites
      <4> QED BY <1>c, <2>1, <3>1, <4>1
    <3>5. \A x \in Users : overdrawn'[x] = overdrawn[x]
      BY <1>1 DEF SendBalanceCommit
    <3>6. \A x \in Users : \/ doc'[x].balance + overdrawn'[x] >=
                                 doc[x].balance + overdrawn[x]
                           \/ doc'[x].balance >= 0
      BY <1>c, <1>o, <3>3, <3>4, <3>5
    <3>7. i.step \notin {"page", "check", "debit"}
      BY <1>t
    <3> QED BY <2>1, <3>6, <3>7, DebtElsewhere
  <2>2. overdrawn' = overdrawn
    BY <1>1 DEF SendBalanceCommit
  <2>3. \/ /\ job[h].fresh /\ job[h].mine >= a
           /\ \E i \in {Idle, Again(h, "send", Idle)} :
                 Write(h, {u, v}, Transferred(u, v, job[h]), i)
        \/ Goto(h, Idle)
        \/ Conflict(h, "send")
    BY <1>1, <1>b DEF SendBalanceCommit
  <2> QED BY <1>g, <1>r, <2>1, <2>2, <2>3
<1>2. CASE SendGiftCommit(h)
  <2> DEFINE d == IncrementedTotal(Incremented(u, -a), v, "gifts", a)
  <2>1. ASSUME NEW i \in {Idle, Again(h, "gift", Idle)},
               Write(h, {u, v}, d, i), Overdraw(u, a)
        PROVE  DebtInv'
    <3>1. doc' = d
      BY <2>1 DEF Write
    <3>2. /\ \A x \in Users \ {u} : doc'[x].balance = doc[x].balance
          /\ doc'[u].balance = doc[u].balance - a
      BY <3>1, GiftWrites
    <3> HIDE DEF d
    <3>o. /\ \A x \in Users \ {u} : overdrawn'[x] = overdrawn[x]
          /\ doc[u].balance >= a => overdrawn'[u] = overdrawn[u]
          /\ ~(doc[u].balance >= a) => overdrawn'[u] = overdrawn[u] + a
      BY <2>1, OverdrawRecords
    <3>3. ASSUME NEW x \in Users
          PROVE  \/ doc'[x].balance + overdrawn'[x] >=
                       doc[x].balance + overdrawn[x]
                 \/ doc'[x].balance >= 0
      <4>1. CASE x = u
        BY <1>c, <1>o, <3>2, <3>o, <4>1
      <4>2. CASE x # u
        BY <1>c, <1>o, <3>2, <3>o, <4>2
      <4> QED BY <4>1, <4>2
    <3>4. i.step \notin {"page", "check", "debit"}
      BY <1>t
    <3> QED BY <2>1, <3>3, <3>4, DebtElsewhere
  <2>2. \/ /\ \E i \in {Idle, Again(h, "gift", Idle)} : Write(h, {u, v}, d, i)
           /\ Overdraw(u, a)
        \/ Goto(h, Idle) /\ overdrawn' = overdrawn
        \/ Conflict(h, "gift") /\ overdrawn' = overdrawn
    BY <1>2, <1>b DEF SendGiftCommit
  <2> HIDE DEF d
  <2> QED BY <1>g, <1>r, <2>1, <2>2
<1> QED BY <1>1, <1>2

\* The other steps of a handler raise balances, empty them or leave them.
LEMMA ContinueDebt ==
    ASSUME TypeOK, TypeOK', ReadsCurrent, DebtInv, NEW h \in Handlers,
           PostMeetup(h) \/ Continue(h)
    PROVE  DebtInv'
<1>a. job[h] \in Job /\ job[h].user \in Users /\ job[h].amt \in Nat
  BY DEF TypeOK, Job
<1>c. \A x \in Users : doc[x].balance \in Int /\ doc'[x].balance \in Int
  BY DEF TypeOK, Wallet
<1>i. Idle.step = "idle"
  BY JobSteps
<1>n. Priced(h)
  BY DEF DebtInv
<1>g. ASSUME Goto(h, Idle), overdrawn' = overdrawn PROVE DebtInv'
  BY <1>g, <1>i, DebtGoto
<1>w. ASSUME NEW W, NEW d, NEW j, Write(h, W, d, j), overdrawn' = overdrawn,
             j.step \notin {"page", "check", "debit"},
             \A x \in Users : \/ doc'[x].balance >= doc[x].balance
                              \/ doc'[x].balance >= 0
      PROVE  DebtInv'
  <2>1. \A x \in Users : overdrawn'[x] = overdrawn[x] /\ overdrawn[x] \in Nat
    BY <1>w DEF TypeOK
  <2>2. \A x \in Users : \/ doc'[x].balance + overdrawn'[x] >=
                               doc[x].balance + overdrawn[x]
                         \/ doc'[x].balance >= 0
    BY <1>c, <1>w, <2>1
  <2> QED BY <1>w, <2>2, DebtElsewhere
<1>b. Idle \in Job
  BY RecordTypes
<1>t. ASSUME NEW s \in {"credit", "redeem", "redeemCredit", "redeemDebit"},
             NEW j \in Job, j.step \notin {"page", "check", "debit"},
             NEW i \in {j, Again(h, s, j)}
      PROVE  i.step \notin {"page", "check", "debit"}
  BY <1>t, AgainJob DEF Steps
<1>e. ASSUME NEW j, j.step \notin {"page", "check", "debit"},
             overdrawn' = overdrawn,
             Write(h, {job[h].user}, Incremented(job[h].user, job[h].amt), j)
      PROVE  DebtInv'
  <2>1. doc' = Incremented(job[h].user, job[h].amt) /\ job[h].amt \in Int
    BY <1>a, <1>e DEF Write
  <2>2. /\ \A x \in Users \ {job[h].user} : doc'[x] = doc[x]
        /\ doc'[job[h].user].balance = doc[job[h].user].balance + job[h].amt
    BY <1>a, <2>1, IncrementWrites
  <2>3. \A x \in Users : doc'[x].balance >= doc[x].balance
    BY <1>a, <1>c, <2>2
  <2> QED BY <1>e, <2>3, <1>w
<1>1. CASE PostMeetup(h)
  <2> DEFINE j == [job[h] EXCEPT !.step = "check", !.mine = 0]
  <2>1. j.step = "check" /\ j.amt = job[h].amt
    BY <1>a DEF Job
  <2>2. job[h].amt \in Amounts /\ overdrawn' = overdrawn
    BY <1>1, <1>n DEF PostMeetup, Priced
  <2>3. Goto(h, Idle) \/ Goto(h, j)
    BY <1>1 DEF PostMeetup
  <2> HIDE DEF j
  <2> QED BY <1>g, <2>1, <2>2, <2>3, DebtGoto
<1>2. CASE CreateNewWalletSet(h)
  <2> DEFINE d == [doc EXCEPT ![job[h].user] = NewWallet]
  <2>1. CASE Write(h, {job[h].user}, d, Idle)
    <3>1. /\ \A x \in Users \ {job[h].user} : doc'[x] = doc[x]
          /\ doc'[job[h].user].balance = 0
      BY <1>a, <2>1 DEF Write, TypeOK, NewWallet
    <3>2. \A x \in Users : \/ doc'[x].balance >= doc[x].balance
                           \/ doc'[x].balance >= 0
      BY <1>c, <3>1
    <3> HIDE DEF d
    <3> QED BY <1>2, <1>i, <1>w, <2>1, <3>2 DEF CreateNewWalletSet
  <2> QED BY <1>2, <1>g, <2>1 DEF CreateNewWalletSet
<1>3. CASE AddBalance(h)
  <2>1. \A i \in {Idle, Again(h, "credit", Idle)} :
           i.step \notin {"page", "check", "debit"}
    BY <1>b, <1>i, <1>t
  <2> QED BY <1>3, <1>e, <1>g, <2>1 DEF AddBalance
<1>4. CASE Serve(h)
  BY <1>4, <1>g DEF Serve
<1>5. CASE SendBalanceRead(h)
  <2>1. [job[h] EXCEPT !.step = "sendCommit", !.mine = doc[job[h].user].balance,
                       !.theirs = doc[job[h].peer].balance].step = "sendCommit"
    BY <1>a DEF Job
  <2> QED BY <1>5, <2>1, DebtGoto DEF SendBalanceRead
<1>6. CASE SendGiftRead(h)
  <2>1. [job[h] EXCEPT !.step = "giftCommit"].step = "giftCommit"
    BY <1>a DEF Job
  <2> QED BY <1>6, <2>1, DebtGoto DEF SendGiftRead
<1>s. \A s \in {"redeemDebit", "redeemCredit"} :
         /\ [job[h] EXCEPT !.step = s, !.tries = 0] \in Job
         /\ [job[h] EXCEPT !.step = s, !.tries = 0].step = s
  BY <1>a DEF Job, Steps
<1>7. CASE RedeemCredit(h)
  <2> DEFINE j == IF job[h].step = "redeem"
                  THEN [job[h] EXCEPT !.step = "redeemDebit", !.tries = 0]
                  ELSE Idle
  <2>1. j \in Job /\ j.step \notin {"page", "check", "debit"}
    BY <1>b, <1>i, <1>s
  <2>2. /\ overdrawn' = overdrawn
        /\ job[h].step \in {"redeem", "redeemCredit"}
        /\ \/ \E i \in {j, Again(h, job[h].step, j)} :
                 Write(h, {job[h].user}, Incremented(job[h].user, job[h].amt), i)
           \/ Goto(h, j)
    BY <1>7 DEF RedeemCredit
  <2> HIDE DEF j
  <2>3. \A i \in {j, Again(h, job[h].step, j)} :
           i.step \notin {"page", "check", "debit"}
    BY <1>t, <2>1, <2>2
  <2> QED BY <1>e, <2>1, <2>2, <2>3, DebtGoto
<1>8. CASE RedeemDebit(h)
  <2> DEFINE k == RedeemedFrom(job[h].what)
             j == IF job[h].step = "redeem"
                  THEN [job[h] EXCEPT !.step = "redeemCredit", !.tries = 0]
                  ELSE Idle
             d == IncrementedTotal(doc, job[h].user, k, -job[h].amt)
  <2>1. j \in Job /\ j.step \notin {"page", "check", "debit"}
    BY <1>b, <1>i, <1>s
  <2>2. /\ overdrawn' = overdrawn
        /\ job[h].step \in {"redeem", "redeemDebit"}
        /\ \/ \E i \in {j, Again(h, job[h].step, j)} :
                 Write(h, {job[h].user}, d, i)
           \/ Goto(h, j)
    BY <1>8 DEF RedeemDebit
  <2>3. \A x \in Users : d[x].balance = doc[x].balance
    <3> HIDE DEF k
    <3>1. doc \in [Users -> Wallet]
      BY DEF TypeOK
    <3> QED BY <1>a, <3>1, TotalWrites
  <2> HIDE DEF j, d
  <2>4. ASSUME NEW i \in {j, Again(h, job[h].step, j)},
               Write(h, {job[h].user}, d, i)
        PROVE  DebtInv'
    <3>1. \A x \in Users : doc'[x].balance >= doc[x].balance
      BY <1>c, <2>3, <2>4 DEF Write
    <3>2. i.step \notin {"page", "check", "debit"}
      BY <1>t, <2>1, <2>2
    <3> QED BY <1>w, <2>2, <2>4, <3>1, <3>2
  <2> QED BY <2>1, <2>2, <2>4, DebtGoto
<1>9. CASE StoreProfile(h)
  BY <1>9, <1>g DEF StoreProfile
<1>10. CASE GiftCheck(h)
  <2>1. [job[h] EXCEPT !.step = "gift"].step = "gift"
    BY <1>a DEF Job
  <2> QED BY <1>10, <1>g, <2>1, DebtGoto DEF GiftCheck
<1> QED BY <1>1, <1>2, <1>3, <1>4, <1>5, <1>6, <1>7, <1>8, <1>9, <1>10,
           MinusDebt, SendDebt DEF Continue

\* A wallet goes into debt only as far as the handlers past their check can
\* take it, one fewer than there are handlers, and as far as the dymonds that
\* gifts took uncovered, that a check let pass on a cached balance only, or
\* that a debit took again because its answer was lost.
THEOREM DebtIsBounded == Spec => []DebtBounded
<1>1. Init => DebtInv
  <2> SUFFICES ASSUME Init PROVE DebtInv
    OBVIOUS
  <2>1. TypeOK
    BY TypeInit
  <2>2. \A h \in Handlers : job[h].step = "idle"
    BY DEF Init, Idle, Free
  <2>3. \A h \in Handlers : Priced(h)
    BY <2>2 DEF Priced
  <2>4. ASSUME NEW u \in Users
        PROVE  doc[u].balance - Pending(u) >= -Depth - overdrawn[u]
    <3>1. doc[u].balance \in Nat /\ overdrawn[u] \in Nat
      BY InitBalance DEF Init
    <3>2. PICK h \in Handlers : TRUE
      BY WalletAssumption
    <3>3. Due(h, u) = 0
      BY <2>2 DEF Due
    <3>4. /\ Pending(u) \in Int /\ Depth \in Nat
          /\ Pending(u) - Due(h, u) <= Depth
      BY <2>1, <2>3, PendingRest
    <3> QED BY <3>1, <3>3, <3>4
  <2> QED BY <2>3, <2>4 DEF DebtInv, DebtBounded, Depth
<1>2. TypeOK /\ TypeOK' /\ ReadsCurrent /\ DebtInv /\ [Next]_vars => DebtInv'
  <2> SUFFICES ASSUME TypeOK, TypeOK', ReadsCurrent, DebtInv, [Next]_vars
               PROVE  DebtInv'
    OBVIOUS
  <2>1. UNCHANGED <<doc, job, overdrawn>> => DebtInv'
    BY DEF DebtInv, Priced, DebtBounded, Pending
  <2>2. UNCHANGED vars => DebtInv'
    BY <2>1 DEF vars
  <2>3. ASSUME NEW u \in Users, Deliver(u) PROVE DebtInv'
    BY <2>1, <2>3 DEF Deliver
  <2> QED BY <2>2, <2>3, TapDebt, ContinueDebt DEF Next
<1>3. DebtInv => DebtBounded
  BY DEF DebtInv
<1> QED BY <1>1, <1>2, <1>3, TypeCorrect, TransfersReadCurrent, PTL DEF Spec
=============================================================================
