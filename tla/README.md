# Verification of the Lamat dating app: wallets, withdrawals, calls, matches, and the Firestore client under them

TLA+ models of the parts of this repository in which several clients and a
server change shared state: the Flutter app (`app/lib`), the admin panel
(`admin/lib`) and the Firebase cloud functions (`cloud_functions/functions`).
Two modules go below the app: they model how the Firestore client in
`app/ios/Pods/FirebaseFirestoreInternal`, which the iOS app is built with,
carries out transactions and writes, because everything above rests on it.
Everything else is layout, media, other vendored libraries and forms over
single documents.

## The system

There is no server code of its own besides the cloud functions: clients read
and write Firestore documents directly. A *handler* is an asynchronous Dart
function; it runs to its next `await` without interruption, and between two of
its steps any other handler of the same client (a second tap, a listener), of
another device of the user, or of another user may run. That, failed requests,
snapshots that lag, and apps that are killed are what the models are about.

| Component | State | Operations | Interacts with | What makes it correct |
|---|---|---|---|---|
| Wallets (`wallets_provider.dart`) | `wallets/{phone}`: balance, rewards, earnings and gifts totals; last snapshot per client | create, purchase, spend (boost, message, call, meetup), transfer, gift, redeem | all paid features; withdrawals | no update lost, a transfer moves what it takes and never overdraws, services are paid for, debt is bounded |
| Withdrawals (`live_rewards.dart`, admin `withdrawals.dart`) | `withdrawals/{id}`, SharedPreferences of a device, lists loaded by administrators | request, approve, reject | wallets | every dymond taken is accounted for; the daily limit; requests stay readable |
| Call signalling (`call_methods.dart`, `call_utilities.dart`, `calling/`) | `call/{phone}` (one slot per user), `isOngoingCall`, call screens on nested navigators | dial, ring, accept, reject, end, float | history, notifications | who rings is being called; a hang-up silences; nobody is left deaf |
| Call history (`calling/`, `index.js`) | `callhistory/{timeepoch}` of both users, `recent/callended` | writes from Agora callbacks, buttons and the red button of both clients | call signalling, cloud functions | a call that is over is recorded as over; a rejection is pushed |
| Notifications, tokens, topics (`index.js`) | token lists, topics | send and clean up; (un)subscribe from diffs | users, groups, calls | no live token lost; subscriptions match members |
| Cascading deletes (`index.js`) | sub-collections, media | onDelete triggers | chats | nothing is left behind |
| Matching (`user_details_page.dart`, `match_provider.dart`, `interaction_provider.dart`) | `userInteraction/{a + b}`, match documents, notifications | like, dislike, match, message, unmatch, delete | chats | two likes make a match, one does not; who is liked is told |
| Firestore transactions (`transaction_runner.cc`, `transaction.cc`) | versions read, mutations, attempts left | run, look up, set, update, delete, commit, retry | wallets | reads are current at the commit; the app learns what happened |
| Firestore writes (`remote_store.cc`, `stream.cc`, `write_stream.cc`, `leveldb_mutation_queue.cc`, `sync_engine.cc`) | mutation queues on disk, write pipeline, stream state, callbacks | write, open, shake hands, acknowledge, reject, resend, change user or network | every write of the app | nothing lost, applied in order, each callback told of its own write |
| Live streams | viewer counter, comments | join, leave, gift | wallets | counter equals viewers |
| Chats, groups, broadcasts | messages, last-seen markers | send, see, delete, join, leave | wallets, notifications | order and membership |
| Profiles, feeds, stories, settings, payments, admin forms | single documents | create, update, delete | – | no protocol |

Hard behaviours: check-then-act across awaits (wallet, withdrawal limit),
read-modify-write of stale snapshots (boosts, viewer counter, tokens), several
writes one of which fails (endCall, addWithdrawal, unMatchUser), one slot or
flag shared by several calls, handlers that end after the screen they belong to
is gone, kills of the app between two writes; in the client, answers that are
lost or carry no id, requests sent twice, and timers and credentials that come
too late. `PROJECT.json` lists them as hazards, each at its line.

## Modules

| Module | Models |
|---|---|
| `WalletLedger` | what wallets promise: open, credit, debit, transfer, one at a time |
| `Wallet` | the handlers of the app that write wallets |
| `WalletProofs` | theorems about `Wallet` |
| `Withdraw` | onWithdraw, addWithdrawal, the admin's withdrawals tab |
| `WithdrawProofs` | theorems about `Withdraw` |
| `Calls` | dialling, ringing, ending; screens and navigators; kills |
| `CallsProofs` | theorems about `Calls` |
| `CallHistory` | the history documents of one call and the signals of its end |
| `CallHistoryProofs` | theorems about `CallHistory` |
| `Matching` | likes, matches, conversations, unmatching |
| `MatchingProofs` | theorems about `Matching` |
| `Transactions` | the client's optimistic transactions and the server's commits |
| `TransactionsProofs` | theorems about `Transactions` |
| `Writes` | the client's mutation queue, pipeline and write stream |
| `WritesProofs` | theorems about `Writes` |
| `SumTheorems` | induction over numbers and finite sets, sums and maxima, for the proofs |
| `MCWallet`, `MCWithdraw`, `MCCalls` | instances for TLC; the other runs take their module as it is |

How they fit: `Wallet` implements `WalletLedger`. `Wallet` takes a transaction
for a read step and a commit step that fails if a document it has read was
written since; `Transactions` shows that the client provides this (`ReadsHold`)
and what remains when an answer is lost (`OutcomeKnown`): the function is run
again although its writes took effect, which `Wallet` and `Withdraw` allow of
every transaction. `Withdraw`, `Calls`, `CallHistory` and `Matching` take a
write for something that the server applies once and in the client's order;
`Writes` shows that the order holds and the write is not lost, and that a write
may be applied again, before it is acknowledged, when a stream breaks. To those
modules such a repetition is another set or delete of the same document, a
little later; what it does after a write of another client in between is left
out of them. Since nothing is lost, the writes of an app that is killed are
still on disk: in `Calls`, `CallHistory` and `Matching` a kill leaves those its
handlers awaited, and the client sends them after the restart, at any later
time, before any write of the new app. `CallHistory` begins where `Calls` has
the receiver ringing.

### Wallet

`doc[u]` is the document, `view[u]` the last snapshot `walletsStreamProvider`
delivered, `job[h]` a handler in flight with its local variables. A Firestore
transaction is a read step and a commit step; a write to a document it has read
clears its `fresh`, and a commit that is not fresh runs the function again, up
to `MaxAttempts` times (5 in Firestore). So does a commit that took effect and
whose answer was lost (`Again`); after the last attempt the handler is told of a
failure although there was none. Transactions that only call
`FieldValue.increment` read nothing and are one step. Any request may fail; the
handler then ends where the code's exception or `catch` ends it.

A `get()` outside a transaction (the checks of minusBalanceProvider, of the
meetup page and of a gift in a live stream) is answered by the server or, when it
cannot be reached, by the client's cache, with a balance of any age (`Answers`,
for which the highest balance so far, `peak`, and the lowest stand). `overdrawn`
is a history variable: the dymonds of a user that gifts took uncovered, that were
taken after a check passed on a cached balance only, or by a debit whose answer
was lost.

Every page that changes a profile writes back all of it, with the boost balance
it showed. It may be older than the document, with fewer boosts or with more
(`Shown`, up to the most the profile has ever held, `shown`; the home page reads
it from a local box when it opens). So a purchase may be lost, and a boost that
was used (`UseBoost`) may come back with the next purchase, edit or use
(`EditProfile`, `StoreProfile`). A package of several boosts counts as one. That
a boost is running (`isBoosted`) and the boosts that come with a subscription
bought in the app store are left out.

Amounts are whole dymonds counted from the 0.000001 that a new wallet holds in
every field, so `price < balance` becomes `price <= balance`. Money starts as
`Stored` balances, bought earlier. Amounts are positive: the transfer form does
not enforce it, and what a negative transfer does is not modelled. Providers
nobody calls are left out, and so is the list of past transactions, which nothing
reads back into a balance.

### Withdraw

One user, several devices (each with its own `todayWithdrawal` and
`lastWithdrawal`), several administrators. A job is indexed by the id of its
request, so several taps on one device may be in flight. The amount stored in
the preferences at the end is what the text field shows by then. Bank details
are one field, present or null. The check of the balance may be answered from
the device's cache, and a debit whose answer is lost is made again or reported
as failed (`AnswerLost`): what it took is `lost`. Money other than withdrawals
reaches the balance through `Credit`.

### Calls

`box[u]` is `call/u`, `seen[u]` the snapshot PickupLayout renders; a client sees
its own writes at once. `left[u]` are the writes of makeCall and endCall that a
killed app of u's had issued; they reach the server after the restart
(`Resend`), and no handler of the new app writes before (`Put`). `dial[c]` and
`end[c][u]` are the handlers of `CallUtils.dial`, and of `_onCallEnd` (`hang`)
or the red button. `screens[u]` are the call screens on u's navigators:
`presentBelow` of pip_view (external) puts the app, with a navigator of its own,
below a floating call screen, so screens nest; `Navigator.pop` in `_onCallEnd`
removes the last screen of its own navigator, its own or not. `overlapped`,
`abandoned` and `torn` are history variables that record why a property may
fail: two live calls of one user, a call its caller's app lost, a screen removed
without its `_onCallEnd`. A call of which a killed app's write is still on disk
is alive: it may yet replace the invitation of a later call, which therefore
overlaps with it. Without these exclusions TLC finds counterexamples that are
behaviours of the code.

Abstractions: who calls whom is fixed per call; a screen may float as soon as it
is shown (the code waits for status `pickedup`, which is not modelled); one end
handler per call and user at a time; one screen per call and user; permissions
are granted; the time between resetting `isOngoingCall` and `Navigator.pop` is
always a step of its own (`Close`, `Pop`), although it may be short when the
call had already ended. The media channel and its token are outside the model.

### CallHistory

One call, audio or video. `hist[x]` is STATUS in the history of user x,
`recent[x]` whether `recent/callended` exists, `pushed` what the triggers
`callRejectedFirstTime` (a creation) and `callRejectedNotFirstTime` (a change)
have sent. A client's writes wait in `queue[x]`, reach the server in their order
(`Apply`), and their acknowledgement resumes the handler that awaits them.
`at[x][h]` is where the handlers of onJoinChannelSuccess, onUserJoined,
onUserOffline, `_onCallEnd` and the red button go on. A screen shows its own
pending writes at once and others when a snapshot is delivered; it decides
whether ending the call is recorded (`isalreadyendedcall`). Connections to the
channel drop and are restored, apps are killed; the writes a killed app had
issued still arrive. `late` is a history variable for the cases in which the
code leaves a wrong status: the call was rejected or ended before the caller's
callbacks had written `calling`, `missedcall` or `pickedup`; the receiver's
onUserOffline recorded that the caller had left the channel while the caller's
callbacks were still at it (`Opening`, `Recording`); or the killed app had
writes in flight. Without it TLC shows histories that say `missedcall` or
`pickedup` for good. The case of onUserOffline takes three events (a connection
that drops, and both users ending the call) and came to light in the proof of
`OverIsRecorded`: with two events TLC does not reach it.
Left out: the counters of calls made and received, and a second tap on the end
button while the first is being handled.

### Matching

Each id `a + b` is an ordered pair. A like writes `interaction[<<a, b>>]`,
queries `interaction[<<b, a>>]` and, if there is one (a dislike counts), writes
the match document `<<a, b>>`, its first message and a notification; otherwise
only a notification. A handler runs from one await to the next; any awaited call
may fail, and each function's `catch` decides what follows. A query of a client
that has gone offline is answered from its cache (`GetFromCache`). A kill leaves
the writes its handlers awaited on disk (`left`), from which they are sent
without their handlers (`Resend`). `listed`, `made`, `broken`, `told`, `acted` are
history variables; a like that arrives without its handler counts as `broken`, as
nobody looks for the other's. A page opened from the
list of matches keeps its `matchId`, so unmatching may be tapped after the
document is gone. Left out: the daily limits, the order of the cards, swiping
(its handlers do the same calls), blocking, and messages after the first.

### Transactions

A runner takes a new Transaction per attempt. `read[d]` is `read_versions_`,
`pre[d]` the precondition of the first mutation of d, `effect[d]` what all its
mutations come to. Errors are classes: `unavailable` for the codes that
`IsPermanentError` denies, `aborted` for those that `IsRetryableTransactionError`
adds. The app's block is any sequence of lookups and writes, `MaxOps` long,
which covers the blocks of `wallets_provider.dart`. The server applies a commit
in one step if its preconditions hold. A call that breaks off leaves its request
on the way: the server may still commit it, at any later time.

### Writes

`mutations` are the mutation queues of all users on disk, `c` RemoteStore and
its WriteStream in memory; `c.sent` and `c.answers` are the two directions of
the stream. The states of `Stream` are its enum, with Healthy part of Open (it
only matters to the back-off of credentials). All code of the client runs on one
queue, so each task is one action. A request still on its way when the stream
closes may be handled later (`late`), at the latest before the next handshake is
answered; this is how the server is assumed to order streams of one client.
`Rejecting` allows for GrpcStream giving up on unread answers when a request
cannot be sent any more: the head of the pipeline is then rejected although its
answer was a success, which `lost` records. The kill of the app includes kills
between the two halves of handling an answer (the callback comes first for a
success, the disk first for a rejection). The app never turns the network off by
hand, but both calls are part of the client and are modelled. Left out: a stream
that the server ends with OK, which `OnStreamFinish` (`stream.cc:352`) passes on
to the assertion at `remote_store.cc:481`; answers that cannot be decoded
(`write_stream.cc:133`, `155`); waitForPendingWrites, the stream token (the
client sends none back that changes what the server does), local views, the
memory-only queue, the watch stream.

## Runs

| Run | Instance | Shows |
|---|---|---|
| `wallet_transfers` | 2 users, 2 handlers, 3 taps, 2 attempts | types; a transfer commits on current balances (`ReadsCurrent`); the handlers implement `WalletLedger` (`LedgerSpec`) |
| `wallet_spends` | 1 user, 2 handlers, 3 taps; boosts, messages, meetups | debt is bounded by the other handlers in flight and what gifts, cached checks and repeated debits took (`DebtBounded`); boosts and meetups are paid for (`PaidFor`); handlers end (`HandlersFinish`) |
| `wallet_totals` (violated) | 2 users | redeeming gifts takes from the earnings, which become negative |
| `withdraw` | 2 devices, 2 administrators, 2 requests | `Accounted`: the balance lacks exactly what was requested, is in flight or was lost |
| `withdraw_limit` (violated) | 1 device, 3 requests | the daily limit is exceeded |
| `withdraw_parse` (violated) | as `withdraw` | a decided request can no longer be read by the panel |
| `calls` | 3 users, 2 calls, 6 events | `RingIsLive`, `OngoingIsOnScreen`, `RingsUntilSettled` |
| `calls_live` | 2 users, 2 calls, 5 events | `HangUpSilences` |
| `history` | 1 call, 2 events | types, `OverIsRecorded`, `KilledIsRecorded`, `RejectionIsTold` |
| `matching` | 2 users, 2 handlers, 5 taps, failures or kills | `MutualLikes`, `MatchedOnlyIfBothActed`, `LikeIsTold` |
| `transactions` | 2 documents, 1 runner and other writers, 2 attempts of 2 operations | `OutcomeKnown`, `ReadsHold`, `Terminates` |
| `writes` | 2 users, 4 writes, pipeline of 3, 2 events | `NothingLost`, `OutcomeTold`, `AppliedInOrder`, `Asserts` (the HARD_ASSERTs of the code), `Drains` |

Bounds. Two handlers suffice for every pairwise race and a conflict with retry;
that the bound on debt grows with the handlers in flight is proved for any
number of them. A paid call does nothing to the wallet that a message or a boost
does not do, so `wallet_spends` goes without. Two attempts exercise both a retry
and giving up. Two calls cross, follow and overlap each other; three users let a
third person call into a running call. An event is a tap or a kill; the six of
`calls` allow two calls to be dialled, answered and ended, the five of
`calls_live` one call to be ended in the presence of another. The two events of
`history` are two of: an end, a rejection, a lost connection, a kill; its four
properties also hold with three events, in runs too long to keep, and
`OverIsRecorded` is proved for any number; the five taps of `matching` let two
likes overlap with an unmatch, a deletion and a failure. In `transactions` the
other transactions are the writers of `OtherWrite`; two operations are a read
and a write of the same or of different documents. In `writes` four writes and a
pipeline of three (ten in the code) make the queue longer than the pipeline, and
two events let a stream break while the answers of an earlier one are lost, or
two users take turns. `MaxTaps`, `MaxEvents`, `MaxNow`, `MaxCredit`, `MaxOps`,
`MaxClock` and `MaxWrites` only bound the models. Deadlock is not checked where
a bounded number of taps ends every behaviour. Symmetry is used only in runs
without liveness properties.

Fairness (`Wallet`, `Calls`, `CallHistory`, `Matching`): the next step of a
handler that waits for a request happens (a Firestore future completes, at least
with an error), a listener is told of a change, and a client sends what a killed
app left on disk (`Resend`; `Drains` is this for the client); in `CallHistory`
Agora also calls onUserOffline while the other is gone. In `Transactions` a
back-off ends (a timer), the app's block ends, and a call ends, be it with an
error (gRPC reports a broken connection). In `Writes` timers and credentials
fire, and a server that is connected answers; streams break only `MaxEvents`
times. Taps, kills and filling in a form are not fair: nobody has to do them.

## Findings

- `live_rewards.dart:475`: redeeming gifts calls `minusEarningProvider`, so the
  gifts stay redeemable and the earnings become negative.
- `live_rewards.dart:121-146`: the day's total is overwritten instead of added
  to, and checked before other withdrawals in flight are stored.
- `withdrawal_detail.dart:378`: a decision erases the bank details, and
  `getWithdrawalsProvider` then fails on the whole list.

Behaviours of the code that no run is about, because nothing in the repository
says otherwise:

- `minusBalanceProvider` (`wallets_provider.dart:117-130`) checks the balance
  outside the transaction that lowers it, so concurrent spends overdraw; by how
  much is `DebtBounded`. A check that the cache answers passes on money spent
  elsewhere, and so may each one after it (`overdrawn`).
- A transaction whose answer is lost is run again and may take effect twice
  (`unknown` in `OutcomeKnown`): purchases, spends, gifts, transfers and the debit
  of a withdrawal are then made twice, or reported as failed although they were
  made. A transfer made twice is checked twice, so it does not overdraw.
- A boost that was used comes back when a page that was built before writes its
  profile (`home_page.dart:1672-1687`, `profile_view.dart:1184`).
- A like or a call document that was issued before a kill arrives after the
  restart: the like makes no match, and the call rings for nobody.
- A dislike by the other user counts as an interaction, so a like after it makes
  a match (`interaction_provider.dart:82`).
- Two users who like each other at once may both create a match document, and
  unmatching deletes one of them.
- A status written late by the caller's callbacks replaces `rejected` or `ended`
  (`late` in `CallHistory`).

## Proofs

Every invariant and action property that a passing run checks, and the
refinement of `WalletLedger`, is proved with TLAPS, for every value of the
constants that satisfies the named assumptions (`WalletAssumption`,
`WithdrawAssumption`, `CallsAssumption`, `HistoryAssumption`,
`MatchingAssumption`, `TransactionsAssumption`, `WritesAssumption`). They say
that bounds are natural numbers and limits of retries and of the pipeline
positive, that amounts are positive, and that the handlers, devices, requests
and amounts that are summed or compared are finite sets (not empty where
somebody has to do something). The bounds on taps, events and writes are
arbitrary numbers, so the theorems are about executions of any length.

Wallets:

- `WalletProofs!TypeCorrect`: `Spec => []TypeOK`, one lemma per group of actions.
- `WalletProofs!TransfersReadCurrent`: `Spec => []ReadsCurrent`. With `TypeOK` it
  is inductive: every write clears `fresh` of the transactions that read the
  document, and only a read sets it.
- `WalletProofs!WalletImplementsLedger`: `Spec => LedgerSpec`. Each step maps to
  a step of `WalletLedger` or to a stutter; the commit of a transfer needs
  `ReadsCurrent`, since it writes absolute balances, and `TypeOK`, by which
  amounts are positive. A transfer to oneself is a credit.
- `WalletProofs!ServicesPaidFor`: `Spec => []PaidFor`. The invariant `PaidInv`
  adds that no profile has ever shown more boosts than were paid for by then
  (`ShownPaid`), that the stale boost balance a handler remembers does not
  either, whether it is about to buy, use or write back (`BoostHeld`), and that
  the meetups stored, with those that handlers have paid for and not stored yet,
  do not exceed the meetups paid for (`MeetupsHeld`).
- `WalletProofs!DebtIsBounded`: `Spec => []DebtBounded`. The property counts
  debits that have passed their check as taken, so the debit itself lowers
  nothing. A check does: either the balance on the server covers its own amount,
  and the other handlers hold at most `Max(Amounts)` each (`Priced`), or it
  passed on a cached balance and is recorded in `overdrawn`, as are uncovered
  gifts and debits that will be made again (`OverdrawRecords`). So does a
  transfer, which checks inside its transaction, on a balance that
  `ReadsCurrent` makes the real one.

Withdrawals:

- `WithdrawProofs!TypeCorrect`: `Spec => []TypeOK`.
- `WithdrawProofs!WithdrawalsAccounted`: `Spec => []Accounted`. A decision taken
  from a list of any age leaves the account as it is because of two facts: no
  request is listed before its handler has stored it (`Fresh`), and the amount
  of a request never changes afterwards (`AmountsKnown`). Each debit ends in a
  request or in `lost`, one whose answer was lost in `lost` at once.

Calls:

- `CallsProofs!CallsTypeCorrect`: `Spec => []TypeOK`. It needs that the heights
  of a user's screens are bounded (`Bounded`), so that a screen in front exists.
- `CallsProofs!InvitationsAreLive`: `Spec => []RingIsLive`. The invariant
  `LiveInv` adds that only the receiver is invited (`Addressed`), that the
  caller's screen and end come after the dialling (`DialledFirst`), and that a
  caller whose endCall has returned has silenced the receiver or is recorded as
  having failed (`Silenced`): without it a pop could remove the screen of a call
  that still rings. An invitation left on disk is of a call that the kill has
  recorded as lost (`LeftKnown`).
- `CallsProofs!NobodyIsDeaf`: `Spec => []OngoingIsOnScreen`. A screen whose
  handler has reset the flag and is about to pop does not justify a flag set
  since, so `OngoingHeld` asks for a screen that is not being popped, and
  `HangShown` that the handler of a hang-up still has its screen.
- `CallsProofs!CallersAreHeard`: `Spec => []RingsUntilSettled`. The slot of the
  receiver is only written by calls that are alive and share a user with this
  one, and two such calls are recorded as overlapping (`SharedKnown`), since a
  call comes to life in `Dial` alone. Writes left by a killed app keep their call
  alive, so they are covered by the same fact.

Call history:

- `CallHistoryProofs!TypeCorrect` and `CallHistoryProofs!EndedCallsAreRecorded`:
  `Spec => []TypeOK` and `Spec => []OverIsRecorded`. What the histories say now
  may be replaced by an older write still under way, so the invariant speaks of
  what they will say once all writes have arrived, in whatever order the two
  clients' queues are interleaved (`Due`). `QueueInv` holds of every call: which
  handler has issued what and at which stage it waits for it (`Entries`,
  `HandlersOK`, `OfflineOK`, `JoinsOnce`), that a write the server has applied is
  what the history says (`HeadOK`), and that the caller's screen shows the call
  as settled only if it will be (`SeenOK`), which is what makes it right that
  `isalreadyendedcall` skips the record. `RecordInv` is about calls without the
  exceptions: while the caller's callbacks open the record the receiver's client
  records no end (`Crossing`), the receiver's history is not settled before the
  caller's (`ReceiverRecords`, `Agree`), and each stage of the caller's
  `_onCallEnd` has recorded its part (`Ends`, `Screens`). The invariant was
  checked with TLC at three events before it was proved.

Matches:

- `MatchingProofs!TypeCorrect`: `Spec => []TypeOK`, by the kinds of handlers and
  the steps of each.
- `MatchingProofs!MutualLikesMatch`: `Spec => []MutualLikes`, which is inductive
  given `TypeOK`, since it names the handlers that are between their write and
  their match (`Looking`): a handler that looks and finds nothing proves that the
  other like is not there yet. A like that arrives without a handler is in
  `broken` until the next like of the pair.
- `MatchingProofs!BothActed`: `Spec => []MatchedOnlyIfBothActed`. Needs that a
  handler about to create a match has found the other's interaction (`Backed`),
  and that interactions are there only if they were written (`Evidence`, which
  covers the match documents left on disk as well).

The Firestore client:

- `TransactionsProofs!TypeCorrect`: `Spec => []TypeOK`; `TypeInv` adds that a
  runner that has not begun has all its attempts, so that none becomes negative.
- `TransactionsProofs!OutcomeIsKnown`: `Spec => []OutcomeKnown`. The invariant
  relates requests and replies on their way to the attempt they belong to: a
  request or a success of an older attempt exists only if its call broke off.
- `TransactionsProofs!ReadsAreChecked`: `Spec => ReadsHold`, an action property,
  from the invariant that in every Transaction (`Sound`) and request (`Checked`)
  the precondition of a document that was read is the version that was read.
- `WritesProofs!TypeCorrect`, `!NoWriteIsLost` (`[]NothingLost`),
  `!CallbacksAreTold` (`[]OutcomeTold`), `!AssertionsHold` (`[]Asserts`) and
  `!WritesAreOrdered` (`AppliedInOrder`, an action property), all from one
  invariant, `Inv`. Its core is `ClientOK`: the pipeline is the beginning of the
  user's mutation queue, and on a stream that has shaken hands the unread answers
  followed by the unanswered requests match the pipeline one by one. That is why
  an answer without an id can be taken for the head of the pipeline. `Lates` says
  of the requests of a closed stream that they are handled in order and before
  the next handshake, `Answered` that a pending write that was applied has its
  answer unread or lost, `Fresh` that nothing is known of writes not yet made,
  `Queues` that ids grow with the writes, and `Dead` that no stream outlives the
  app.

`SumTheorems` holds what several proofs need: induction over the natural numbers
and over the subsets of a finite set, stated for a set instead of an operator
(`\A n \in Nat : n \in P`), which the provers can instantiate; from it, that sums
over a finite set change by what one element changes, are bounded by their
largest summand, and that a finite set of numbers has a largest. `WritesProofs`
uses it to show that the sorted queue `BatchesAfter` chooses exists.

Only model-checked: `HandlersFinish`, `HangUpSilences`, `KilledIsRecorded`,
`RejectionIsTold`, `LikeIsTold`, `Terminates` and `Drains`. They are liveness
properties, which the provers do not handle.

## Not modelled

- Device tokens and topics (`index.js`): a user's list holds one token, which a
  login replaces; topics live in the messaging service and are never read.
- Viewer counters of live streams: written from stale snapshots and only shown.
- Chats, groups, broadcasts and their cascading deletes: documents with one
  writer each, or deletes of what nobody writes any more.
- The watch stream of the Firestore client: the other modules assume of it that
  a listener is told of the last state in the end.
- Everything else in `app/ios/Pods`, which holds nearly all lines of C and C++ of
  the repository (gRPC, BoringSSL, abseil, leveldb, generated code, headers):
  third-party libraries with no behaviour of this app's.
- Profiles, feeds, stories, payments, settings, the other tabs of the admin
  panel: forms over single documents and calls of external services.

## Plan

1. Proofs: the safety side of the liveness properties (that a handler that is
   not done always has a step to take, short of ENABLED; that a rejection's
   signal is deleted before it is set), where it says more than the invariants
   proved now.
2. The watch side of the Firestore client: targets, snapshots and limbo
   documents, as far as listeners of the app depend on them.
