---------------------------- MODULE Transactions ----------------------------
(***************************************************************************)
(* Optimistic transactions, as the Firestore client that the app ships for *)
(* iOS runs them: the app's transfers, gifts and withdrawals rest on them. *)
(* A TransactionRunner runs the app's block against a fresh Transaction,   *)
(* which notes the version of every document read, turns those versions    *)
(* into preconditions of the commit, and runs the block again if the       *)
(* commit fails for a reason that may go away.                             *)
(*                                                                         *)
(* The server (not part of this repository) checks the preconditions of a  *)
(* commit and applies it in one step.  An answer may be lost: the call     *)
(* then ends with an error, although the server has committed, or will.    *)
(*                                                                         *)
(* A document is known by its version, 0 when it does not exist.           *)
(***************************************************************************)
EXTENDS Integers

CONSTANTS
    Docs,
    Runners,
    MaxAttempts,   \* kDefaultTransactionMaxAttempts
    MaxOps,        \* model bound: operations of one run of a block
    MaxClock       \* model bound: commits and writes of others

ASSUME TransactionsAssumption ==
    /\ MaxAttempts \in Nat \ {0} /\ MaxOps \in Nat /\ MaxClock \in Nat

VARIABLES
    version,             \* version[d]: the version of document d
    clock,               \* the last version given
    step,                \* step[r]: what runner r is waiting for
    attempts_remaining,  \* of each runner
    attempt,             \* history: how many times runner r has run its block
    tx,                  \* tx[r]: the Transaction of its block
    requests,            \* commits on their way to the server
    replies,             \* answers on their way back
    result,              \* result[r]: the status given to result_callback_
    applied,             \* history: applied[r]: attempts of r that took effect
    unknown              \* history: unknown[r]: attempts that lost their answer

runner  == <<step, attempts_remaining, attempt, tx, result>>
network == <<requests, replies>>
server  == <<version, clock>>
history == <<applied, unknown>>
vars    == <<runner, network, server, history>>

Steps == {"idle", "backoff", "block", "commit", "done", "killed"}

\* Errors, by what the client makes of them; unavailable stands for all the
\* codes that IsPermanentError denies, aborted for the codes of a conflict.
Errors == {"unavailable", "aborted", "notFound", "invalidArgument",
           "permissionDenied"}

None      == 0      \* SnapshotVersion::None(): there is no such document
Unread    == -1     \* no entry in read_versions_, no precondition
MustExist == -2     \* Precondition::Exists(true)

\* read_versions_, the precondition and the effect that mutations_ have on
\* each document, written_docs_ and last_write_error_.
Transaction ==
    [read: [Docs -> Nat \cup {Unread}],
     pre: [Docs -> Nat \cup {Unread, MustExist}],
     effect: [Docs -> {"none", "set", "delete", "fails"}],
     written: SUBSET Docs, error: BOOLEAN, ops: Nat]

NewTransaction ==
    [read |-> [d \in Docs |-> Unread], pre |-> [d \in Docs |-> Unread],
     effect |-> [d \in Docs |-> "none"], written |-> {}, error |-> FALSE,
     ops |-> 0]

TypeOK ==
    /\ version \in [Docs -> Nat] /\ clock \in Nat
    /\ step \in [Runners -> Steps]
    /\ attempts_remaining \in [Runners -> Nat]
    /\ attempt \in [Runners -> Nat]
    /\ tx \in [Runners -> Transaction]
    /\ requests \in SUBSET [by: Runners, attempt: Nat, tx: Transaction]
    /\ replies \in SUBSET [by: Runners, attempt: Nat, status: Errors \cup {"ok"}]
    /\ result \in [Runners -> Errors \cup {"none", "ok"}]
    /\ applied \in [Runners -> SUBSET Nat]
    /\ unknown \in [Runners -> SUBSET Nat]

Init ==
    /\ version \in [Docs -> {0, 1}] /\ clock = 1
    /\ step = [r \in Runners |-> "idle"]
    /\ attempts_remaining = [r \in Runners |-> MaxAttempts]
    /\ attempt = [r \in Runners |-> 0]
    /\ tx = [r \in Runners |-> NewTransaction]
    /\ requests = {} /\ replies = {}
    /\ result = [r \in Runners |-> "none"]
    /\ applied = [r \in Runners |-> {}]
    /\ unknown = [r \in Runners |-> {}]

Goto(r, s) == step' = [step EXCEPT ![r] = s]

-----------------------------------------------------------------------------
(***************************************************************************)
(* TransactionRunner.                                                      *)
(***************************************************************************)

\* Run, up to the end of the back-off.
Run(r) ==
    /\ attempts_remaining' = [attempts_remaining EXCEPT ![r] = @ - 1]
    /\ Goto(r, "backoff")

\* runTransaction
Start(r) ==
    /\ step[r] = "idle"
    /\ Run(r)
    /\ UNCHANGED <<attempt, tx, result, network, server, history>>

\* Run, after the back-off: the block is given a new Transaction (tx[r] is a
\* new one in every step but block).
BackoffAndRun(r) ==
    /\ step[r] = "backoff"
    /\ attempt' = [attempt EXCEPT ![r] = @ + 1]
    /\ Goto(r, "block")
    /\ UNCHANGED <<attempts_remaining, tx, result, network, server, history>>

IsRetryableTransactionError(e) == e \in {"unavailable", "aborted"}

\* Mutant: the attempts are not counted.
HandleTransactionErrorForever(r, e, permanent) ==
    LET again == IsRetryableTransactionError(e) /\ ~permanent
    IN  \/ again /\ Run(r) /\ UNCHANGED result
        \/ /\ ~again
           /\ Goto(r, "done")
           /\ result' = [result EXCEPT ![r] = e]
           /\ UNCHANGED attempts_remaining

\* Mutant: the failure of the last attempt is reported to nobody.
HandleTransactionErrorSilent(r, e, permanent) ==
    \/ /\ attempts_remaining[r] > 0 /\ IsRetryableTransactionError(e)
       /\ ~permanent
       /\ Run(r)
       /\ UNCHANGED result
    \/ /\ ~(IsRetryableTransactionError(e) /\ ~permanent)
       /\ Goto(r, "done")
       /\ result' = [result EXCEPT ![r] = e]
       /\ UNCHANGED attempts_remaining

\* Mutant: the status is reported after it was moved from.
HandleTransactionErrorMoved(r, e, permanent) ==
    LET again == /\ attempts_remaining[r] > 0
                 /\ IsRetryableTransactionError(e) /\ ~permanent
    IN  \/ again /\ Run(r) /\ UNCHANGED result
        \/ /\ ~again
           /\ Goto(r, "done")
           /\ result' = [result EXCEPT ![r] = "ok"]
           /\ UNCHANGED attempts_remaining

HandleTransactionError(r, e, permanent) ==
    LET again == /\ attempts_remaining[r] > 0
                 /\ IsRetryableTransactionError(e) /\ ~permanent
    IN  \/ again /\ Run(r) /\ UNCHANGED result
        \/ /\ ~again
           /\ Goto(r, "done")
           /\ result' = [result EXCEPT ![r] = e]
           /\ UNCHANGED attempts_remaining

-----------------------------------------------------------------------------
(***************************************************************************)
(* The block: the app's function, which calls the Transaction.             *)
(***************************************************************************)

InBlock(r) == step[r] = "block" /\ tx[r].ops < MaxOps

\* The block calls the Transaction, which becomes t.
Call(r, t) ==
    /\ InBlock(r)
    /\ tx' = [tx EXCEPT ![r] = [t EXCEPT !.ops = @ + 1]]
    /\ UNCHANGED <<step, attempts_remaining, attempt, result, network, server,
                   history>>

\* The block ends with error e; its Transaction is of no more use.
Abandon(r, e, permanent) ==
    /\ HandleTransactionError(r, e, permanent)
    /\ tx' = [tx EXCEPT ![r] = NewTransaction]
    /\ UNCHANGED <<attempt, network, server, history>>

NoMutations(t) == \A d \in Docs : t.effect[d] = "none"

\* RecordVersion: the first version read of a document is the one that counts.
RecordVersion(t, d) == [t EXCEPT !.read[d] = version[d]]

Lookup(r, d) ==
    LET t == tx[r] IN
    /\ NoMutations(t) /\ t.read[d] \in {Unread, version[d]}
    /\ Call(r, RecordVersion(t, d))

\* Lookup after a write, or of a document that has changed since it was read.
LookupFails(r, d) ==
    LET t == tx[r] IN
    /\ InBlock(r)
    /\ \/ ~NoMutations(t) /\ Abandon(r, "invalidArgument", FALSE)
       \/ /\ NoMutations(t) /\ t.read[d] \notin {Unread, version[d]}
          /\ Abandon(r, "aborted", FALSE)

\* The call of Lookup ends with an error, of the network or of the server.
LookupError(r) ==
    /\ InBlock(r)
    /\ \E e \in {"unavailable", "permissionDenied"} : Abandon(r, e, FALSE)

\* CreatePrecondition: as the document was when it was read.
CreatePrecondition(t, d) == IF d \in t.written THEN Unread ELSE t.read[d]

\* The mutations of t and one more write of d with precondition p: that of
\* the first write of d is the one the server checks.
Mutated(t, d, p, e) ==
    [t EXCEPT !.pre[d] = IF d \in t.written THEN @ ELSE p,
              !.effect[d] = e, !.written = @ \cup {d}]

\* Set
SetDoc(r, d) ==
    LET t == tx[r] IN
    Call(r, Mutated(t, d, CreatePrecondition(t, d),
                    IF t.effect[d] = "fails" THEN "fails" ELSE "set"))

\* Delete
DeleteDoc(r, d) ==
    LET t == tx[r] IN
    Call(r, Mutated(t, d, CreatePrecondition(t, d),
                    IF t.effect[d] = "fails" THEN "fails" ELSE "delete"))

\* Update, with CreateUpdatePrecondition: a document that was read and does
\* not exist is an error at the end; one that the transaction itself deleted
\* makes the commit fail.
Update(r, d) ==
    LET t == tx[r] IN
    \/ /\ d \notin t.written /\ t.read[d] = None
       /\ Call(r, [t EXCEPT !.error = TRUE, !.written = @ \cup {d}])
    \/ /\ ~(d \notin t.written /\ t.read[d] = None)
       /\ Call(r, Mutated(t, d, IF t.read[d] = Unread THEN MustExist ELSE t.read[d],
                          IF t.effect[d] \in {"delete", "fails"}
                          THEN "fails" ELSE "set"))

\* The block ends with an error of its own: MarkPermanentlyFailed, for the
\* code it is given (unknown) is one that may go away.
BlockError(r) ==
    /\ step[r] = "block"
    /\ Abandon(r, "unavailable", TRUE)

\* Mutant: documents that were only read are not verified.
VerifiedNever(t) == t

\* Commit: a verify mutation for each document that was read and not written.
Verified(t) ==
    [t EXCEPT !.pre = [d \in Docs |-> IF t.effect[d] = "none"
                                      THEN CreatePrecondition(t, d)
                                      ELSE t.pre[d]]]

\* ContinueCommit: the block ends without an error.
ContinueCommit(r) ==
    /\ step[r] = "block"
    /\ \/ tx[r].error /\ Abandon(r, "invalidArgument", FALSE)
       \/ /\ ~tx[r].error
          /\ requests' = requests \cup
                {[by |-> r, attempt |-> attempt[r], tx |-> Verified(tx[r])]}
          /\ tx' = [tx EXCEPT ![r] = NewTransaction]
          /\ Goto(r, "commit")
          /\ UNCHANGED <<attempts_remaining, attempt, result, replies, server,
                         history>>

-----------------------------------------------------------------------------
(***************************************************************************)
(* The commit.                                                             *)
(***************************************************************************)

Holds(p, v) == CASE p = Unread -> TRUE
                 [] p = MustExist -> v # None
                 [] OTHER -> v = p

\* The server answers request q; a call that has broken off has no use for
\* the answer.
Reply(q, s) ==
    /\ requests' = requests \ {q}
    /\ \/ /\ step[q.by] = "commit" /\ attempt[q.by] = q.attempt
          /\ replies' = replies \cup
                {[by |-> q.by, attempt |-> q.attempt, status |-> s]}
       \/ /\ ~(step[q.by] = "commit" /\ attempt[q.by] = q.attempt)
          /\ UNCHANGED replies

\* The call of runner r has ended, without the answer.
Forget(r) == replies' = {m \in replies : m.by # r} /\ UNCHANGED requests

\* It applies the commit if all the preconditions hold.
Accept(q) ==
    /\ \A d \in Docs : Holds(q.tx.pre[d], version[d]) /\ q.tx.effect[d] # "fails"
    /\ clock < MaxClock
    /\ clock' = clock + 1
    /\ version' = [d \in Docs |-> CASE q.tx.effect[d] = "set" -> clock'
                                    [] q.tx.effect[d] = "delete" -> None
                                    [] OTHER -> version[d]]
    /\ applied' = [applied EXCEPT ![q.by] = @ \cup {q.attempt}]
    /\ Reply(q, "ok")
    /\ UNCHANGED <<runner, unknown>>

\* It finds a document that is not there to be updated, or a document that
\* is not as it was when it was read.
Refuse(q) ==
    /\ \/ /\ \E d \in Docs : \/ q.tx.effect[d] = "fails"
                             \/ q.tx.pre[d] = MustExist /\ version[d] = None
          /\ Reply(q, "notFound")
       \/ /\ \E d \in Docs : q.tx.pre[d] >= 0 /\ version[d] # q.tx.pre[d]
          /\ Reply(q, "aborted")
    /\ UNCHANGED <<runner, server, history>>

\* DispatchResult
DispatchResult(r, m) ==
    /\ step[r] = "commit" /\ m.by = r /\ m.attempt = attempt[r]
    /\ replies' = replies \ {m}
    /\ \/ /\ m.status = "ok"
          /\ Goto(r, "done")
          /\ result' = [result EXCEPT ![r] = "ok"]
          /\ UNCHANGED attempts_remaining
       \/ m.status # "ok" /\ HandleTransactionError(r, m.status, FALSE)
    /\ UNCHANGED <<attempt, tx, requests, server, history>>

\* The call breaks off; what the server makes of the request is not known.
Break(r) ==
    /\ step[r] = "commit"
    /\ unknown' = [unknown EXCEPT ![r] = @ \cup {attempt[r]}]
    /\ HandleTransactionError(r, "unavailable", FALSE)
    /\ Forget(r)
    /\ UNCHANGED <<attempt, tx, server, applied>>

\* Somebody else writes or deletes document d.
OtherWrite(d) ==
    /\ clock < MaxClock /\ clock' = clock + 1
    /\ \E v \in {clock', None} : version' = [version EXCEPT ![d] = v]
    /\ UNCHANGED <<runner, network, history>>

\* The app is killed.
Kill(r) ==
    /\ step[r] \in {"backoff", "block", "commit"}
    /\ Goto(r, "killed")
    /\ tx' = [tx EXCEPT ![r] = NewTransaction]
    /\ Forget(r)
    /\ UNCHANGED <<attempts_remaining, attempt, result, server, history>>

Block(r) ==
    \E d \in Docs : \/ Lookup(r, d) \/ LookupFails(r, d)
                    \/ SetDoc(r, d) \/ Update(r, d) \/ DeleteDoc(r, d)

Next ==
    \/ \E r \in Runners :
          \/ Start(r) \/ BackoffAndRun(r) \/ Block(r) \/ LookupError(r)
          \/ BlockError(r) \/ ContinueCommit(r)
          \/ \E m \in replies : DispatchResult(r, m)
          \/ Break(r) \/ Kill(r)
    \/ \E q \in requests : Accept(q) \/ Refuse(q)
    \/ \E d \in Docs : OtherWrite(d)

Spec == Init /\ [][Next]_vars

\* Back-offs end, blocks end, and a call ends, be it with an error.
Fairness ==
    \A r \in Runners :
        /\ WF_vars(BackoffAndRun(r))
        /\ WF_vars(ContinueCommit(r) \/ BlockError(r))
        /\ WF_vars(Break(r) \/ \E m \in replies : DispatchResult(r, m))

FairSpec == Spec /\ Fairness

-----------------------------------------------------------------------------
(***************************************************************************)
(* Properties.                                                             *)
(***************************************************************************)

\* A transaction takes effect only while every document that its block read
\* is as it was when it was read, whether it wrote that document or not, and
\* whoever wrote it in between.
ReadsHold ==
    [][\A q \in requests :
          q.attempt \in applied'[q.by] \ applied[q.by] =>
             \A d \in Docs : q.tx.read[d] \in {Unread, version[d]}]_vars

\* What the app is told is so: after a success its last attempt has taken
\* effect, and any other attempt can have taken effect only if its call broke
\* off, as for all attempts after an error.
OutcomeKnown ==
    \A r \in Runners :
        /\ result[r] = "ok" => attempt[r] \in applied[r]
        /\ step[r] = "done" =>
              applied[r] \subseteq
                 unknown[r] \cup (IF result[r] = "ok" THEN {attempt[r]} ELSE {})

\* A transaction that was started ends: the app is told of a result, after
\* MaxAttempts runs of the block at most, unless it is killed.
Terminates ==
    \A r \in Runners : step[r] = "backoff" ~> step[r] \in {"done", "killed"}
=============================================================================
