------------------------- MODULE TransactionsProofs -------------------------
(***************************************************************************)
(* Transactions: its safety properties hold for any documents, any number  *)
(* of runners at once and of attempts, and blocks of any length.           *)
(***************************************************************************)
EXTENDS Transactions, TLAPS

-----------------------------------------------------------------------------
(***************************************************************************)
(* The operations of a Transaction.                                        *)
(***************************************************************************)

\* Every document that was read and is written carries its version as the
\* precondition, and a document that is not written can still be verified.
Sound(t) ==
    t.error \/ \A d \in Docs :
                  IF t.effect[d] = "none" THEN d \notin t.written
                  ELSE t.read[d] # Unread => t.pre[d] = t.read[d]

\* The commit checks the version of every document that was read.
Checked(t) == \A d \in Docs : t.read[d] # Unread => t.pre[d] = t.read[d]

\* A new Transaction is sound.
LEMMA NewSound == NewTransaction \in Transaction /\ Sound(NewTransaction)
  BY DEF NewTransaction, Transaction, Sound, Unread

\* Counting an operation changes nothing else.
LEMMA Counted ==
    ASSUME NEW t \in Transaction, Sound(t)
    PROVE  [t EXCEPT !.ops = @ + 1] \in Transaction /\ Sound([t EXCEPT !.ops = @ + 1])
  BY DEF Transaction, Sound

\* A lookup before the first write keeps a Transaction sound.
LEMMA RecordSound ==
    ASSUME TypeOK, NEW t \in Transaction, NEW d \in Docs, Sound(t), NoMutations(t)
    PROVE  RecordVersion(t, d) \in Transaction /\ Sound(RecordVersion(t, d))
  <1>1. version[d] \in Nat
    BY DEF TypeOK
  <1>2. RecordVersion(t, d) \in Transaction
    BY <1>1 DEF RecordVersion, Transaction
  <1>3. Sound(RecordVersion(t, d))
    BY DEF RecordVersion, Transaction, Sound, NoMutations
  <1> QED
    BY <1>2, <1>3

\* A write keeps a Transaction sound if its precondition is the version read.
LEMMA MutatedSound ==
    ASSUME NEW t \in Transaction, NEW d \in Docs, Sound(t),
           NEW p \in Nat \cup {Unread, MustExist},
           NEW e \in {"set", "delete", "fails"},
           d \notin t.written /\ t.read[d] # Unread => p = t.read[d]
    PROVE  Mutated(t, d, p, e) \in Transaction /\ Sound(Mutated(t, d, p, e))
  <1> DEFINE m == Mutated(t, d, p, e)
  <1>1. m \in Transaction
    BY DEF Mutated, Transaction
  <1>2. /\ m.error = t.error /\ m.read = t.read
        /\ m.written = t.written \cup {d}
        /\ m.effect = [t.effect EXCEPT ![d] = e]
        /\ m.pre = [t.pre EXCEPT ![d] = IF d \in t.written THEN @ ELSE p]
    BY DEF Mutated, Transaction
  <1>3. t.effect \in [Docs -> {"none", "set", "delete", "fails"}]
        /\ t.pre \in [Docs -> Nat \cup {Unread, MustExist}]
    BY DEF Transaction
  <1> HIDE DEF m
  <1>4. Sound(m)
    BY <1>2, <1>3 DEF Sound
  <1> QED
    BY <1>1, <1>4 DEF m

\* CreatePrecondition gives the version read, or no precondition.
LEMMA PreconditionType ==
    ASSUME NEW t \in Transaction, NEW d \in Docs
    PROVE  /\ CreatePrecondition(t, d) \in Nat \cup {Unread, MustExist}
           /\ d \notin t.written => CreatePrecondition(t, d) = t.read[d]
           /\ t.read[d] \in Nat \cup {Unread}
  BY DEF CreatePrecondition, Transaction, Unread

\* The verify mutations complete the checks.
LEMMA VerifiedChecked ==
    ASSUME NEW t \in Transaction, Sound(t), ~t.error
    PROVE  Verified(t) \in Transaction /\ Checked(Verified(t))
  <1>1. Verified(t) \in Transaction
    BY PreconditionType DEF Verified, Transaction
  <1>2. /\ Verified(t).read = t.read
        /\ Verified(t).pre = [d \in Docs |-> IF t.effect[d] = "none"
                                             THEN CreatePrecondition(t, d)
                                             ELSE t.pre[d]]
    BY DEF Verified, Transaction
  <1>3. Checked(Verified(t))
    BY <1>2, PreconditionType DEF Checked, Sound
  <1> QED
    BY <1>1, <1>3

-----------------------------------------------------------------------------
(***************************************************************************)
(* Types, and what the commits on their way check.                         *)
(***************************************************************************)

TypeInv ==
    /\ TypeOK
    /\ \A r \in Runners : step[r] = "idle" => attempts_remaining[r] = MaxAttempts
    /\ \A r \in Runners : Sound(tx[r])
    /\ \A q \in requests : Checked(q.tx)

\* After an error the runner runs its block again or is done.
LEMMA HandleError ==
    ASSUME TypeOK, NEW r \in Runners, NEW e \in Errors, NEW b \in BOOLEAN,
           HandleTransactionError(r, e, b)
    PROVE  /\ step' \in [Runners -> Steps]
           /\ attempts_remaining' \in [Runners -> Nat]
           /\ result' \in [Runners -> Errors \cup {"none", "ok"}]
           /\ \A x \in Runners \ {r} : step'[x] = step[x] /\ result'[x] = result[x]
                                       /\ attempts_remaining'[x] = attempts_remaining[x]
           /\ \/ step'[r] = "backoff" /\ result'[r] = result[r]
              \/ step'[r] = "done" /\ result'[r] \in Errors
  <1>1. CASE /\ attempts_remaining[r] > 0 /\ Run(r) /\ UNCHANGED result
    BY <1>1 DEF Run, Goto, TypeOK, Steps
  <1>2. CASE /\ Goto(r, "done") /\ result' = [result EXCEPT ![r] = e]
             /\ UNCHANGED attempts_remaining
    BY <1>2 DEF Goto, TypeOK, Steps
  <1> QED
    BY <1>1, <1>2 DEF HandleTransactionError

\* A runner whose block ends with an error keeps the types.
LEMMA AbandonType ==
    ASSUME TypeInv, NEW r \in Runners, NEW e \in Errors, NEW b \in BOOLEAN,
           Abandon(r, e, b)
    PROVE  TypeInv'
  <1>1. HandleTransactionError(r, e, b)
    BY DEF Abandon
  <1>2. TypeOK /\ \A x \in Runners : Sound(tx[x])
    BY DEF TypeInv
  <1>3. tx' \in [Runners -> Transaction] /\ \A x \in Runners : Sound(tx'[x])
    BY <1>2, NewSound DEF Abandon, TypeOK
  <1>4. TypeOK'
    BY <1>1, <1>2, <1>3, HandleError DEF Abandon, TypeOK, network, server, history
  <1>5. \A x \in Runners : step'[x] = "idle"
                             => attempts_remaining'[x] = MaxAttempts
    BY <1>1, <1>2, HandleError DEF TypeInv
  <1>6. \A q \in requests' : Checked(q.tx)
    BY DEF TypeInv, Abandon, network
  <1> QED
    BY <1>3, <1>4, <1>5, <1>6 DEF TypeInv, Sound, Checked

\* A call of the Transaction that leaves it sound keeps the types.
LEMMA CallType ==
    ASSUME TypeInv, NEW r \in Runners, NEW t \in Transaction, Sound(t), Call(r, t)
    PROVE  TypeInv'
  <1> DEFINE u == [t EXCEPT !.ops = @ + 1]
  <1>1. u \in Transaction /\ Sound(u)
    BY Counted
  <1>2. tx' = [tx EXCEPT ![r] = u]
    BY DEF Call
  <1> HIDE DEF u
  <1>3. tx' \in [Runners -> Transaction] /\ \A x \in Runners : Sound(tx'[x])
    BY <1>1, <1>2 DEF TypeInv, TypeOK
  <1>4. TypeOK'
    BY <1>3 DEF TypeInv, TypeOK, Call, network, server, history
  <1>5. /\ \A x \in Runners : step'[x] = "idle"
                                => attempts_remaining'[x] = MaxAttempts
        /\ \A q \in requests' : Checked(q.tx)
    BY DEF TypeInv, Call, network
  <1> QED
    BY <1>3, <1>4, <1>5 DEF TypeInv, Sound, Checked

\* So do the operations of a block.
LEMMA BlockType ==
    ASSUME TypeInv, NEW r \in Runners, Block(r)
    PROVE  TypeInv'
  <1>1. PICK d \in Docs : \/ Lookup(r, d) \/ LookupFails(r, d)
                          \/ SetDoc(r, d) \/ Update(r, d) \/ DeleteDoc(r, d)
    BY DEF Block
  <1> DEFINE t == tx[r]
  <1>2. TypeOK /\ t \in Transaction /\ Sound(t)
    BY DEF TypeInv, TypeOK
  <1>3. t.read[d] \in Nat \cup {Unread}
    BY <1>2, PreconditionType
  <1>4. CASE Lookup(r, d)
    <2>1. RecordVersion(t, d) \in Transaction /\ Sound(RecordVersion(t, d))
      BY <1>2, <1>4, RecordSound DEF Lookup
    <2> QED
      BY <1>4, <2>1, CallType DEF Lookup
  <1>5. CASE LookupFails(r, d)
    <2>1. \E e \in {"invalidArgument", "aborted"} : Abandon(r, e, FALSE)
      BY <1>5 DEF LookupFails
    <2> QED
      BY <2>1, AbandonType DEF Errors
  <1>6. CASE SetDoc(r, d)
    <2> DEFINE e == IF t.effect[d] = "fails" THEN "fails" ELSE "set"
               m == Mutated(t, d, CreatePrecondition(t, d), e)
    <2>1. Call(r, m)
      BY <1>6 DEF SetDoc
    <2>2. m \in Transaction /\ Sound(m)
      BY <1>2, MutatedSound, PreconditionType
    <2> QED
      BY <2>1, <2>2, CallType
  <1>7. CASE DeleteDoc(r, d)
    <2> DEFINE e == IF t.effect[d] = "fails" THEN "fails" ELSE "delete"
               m == Mutated(t, d, CreatePrecondition(t, d), e)
    <2>1. Call(r, m)
      BY <1>7 DEF DeleteDoc
    <2>2. m \in Transaction /\ Sound(m)
      BY <1>2, MutatedSound, PreconditionType
    <2> QED
      BY <2>1, <2>2, CallType
  <1>8. CASE Update(r, d)
    <2>1. CASE d \notin t.written /\ t.read[d] = None
      <3> DEFINE m == [t EXCEPT !.error = TRUE, !.written = @ \cup {d}]
      <3>1. Call(r, m)
        BY <1>8, <2>1 DEF Update
      <3>2. m \in Transaction /\ Sound(m)
        BY <1>2 DEF Transaction, Sound
      <3> QED
        BY <3>1, <3>2, CallType
    <2>2. CASE ~(d \notin t.written /\ t.read[d] = None)
      <3> DEFINE e == IF t.effect[d] \in {"delete", "fails"} THEN "fails" ELSE "set"
                 p == IF t.read[d] = Unread THEN MustExist ELSE t.read[d]
                 m == Mutated(t, d, p, e)
      <3>1. Call(r, m)
        BY <1>8, <2>2 DEF Update
      <3>2. m \in Transaction /\ Sound(m)
        BY <1>2, <1>3, MutatedSound
      <3> QED
        BY <3>1, <3>2, CallType
    <2> QED
      BY <2>1, <2>2
  <1> QED
    BY <1>1, <1>4, <1>5, <1>6, <1>7, <1>8

\* An answer of the server keeps the types.
LEMMA ReplyType ==
    ASSUME TypeInv, NEW q \in requests, NEW st \in Errors \cup {"ok"}, Reply(q, st)
    PROVE  /\ requests' \in SUBSET [by: Runners, attempt: Nat, tx: Transaction]
           /\ replies' \in SUBSET [by: Runners, attempt: Nat,
                                   status: Errors \cup {"ok"}]
           /\ \A x \in requests' : Checked(x.tx)
  BY DEF TypeInv, TypeOK, Reply

\* Every step keeps the types and the checks.
LEMMA NextType ==
    ASSUME TypeInv, [Next]_vars
    PROVE  TypeInv'
  <1> USE TransactionsAssumption
  <1>t. TypeOK
    BY DEF TypeInv
  <1>1. ASSUME NEW r \in Runners, Start(r)
        PROVE  TypeInv'
    <2>1. step' \in [Runners -> Steps] /\ attempts_remaining' \in [Runners -> Nat]
      BY <1>1 DEF Start, Run, Goto, TypeInv, TypeOK, Steps
    <2>2. TypeOK'
      BY <1>1, <1>t, <2>1 DEF Start, TypeOK, network, server, history
    <2>3. \A x \in Runners : step'[x] = "idle"
                               => attempts_remaining'[x] = MaxAttempts
      BY <1>1 DEF Start, Run, Goto, TypeInv, TypeOK
    <2>4. tx' = tx /\ requests' = requests
      BY <1>1 DEF Start, network
    <2> QED
      BY <2>2, <2>3, <2>4 DEF TypeInv, Sound, Checked
  <1>2. ASSUME NEW r \in Runners, BackoffAndRun(r)
        PROVE  TypeInv'
    <2>1. step' \in [Runners -> Steps] /\ attempt' \in [Runners -> Nat]
      BY <1>2 DEF BackoffAndRun, Goto, TypeInv, TypeOK, Steps
    <2>2. TypeOK'
      BY <1>2, <1>t, <2>1 DEF BackoffAndRun, TypeOK, network, server, history
    <2>3. \A x \in Runners : step'[x] = "idle"
                               => attempts_remaining'[x] = MaxAttempts
      BY <1>2 DEF BackoffAndRun, Goto, TypeInv, TypeOK
    <2>4. tx' = tx /\ requests' = requests
      BY <1>2 DEF BackoffAndRun, network
    <2> QED
      BY <2>2, <2>3, <2>4 DEF TypeInv, Sound, Checked
  <1>3. ASSUME NEW r \in Runners, Block(r)
        PROVE  TypeInv'
    BY <1>3, BlockType
  <1>4. ASSUME NEW r \in Runners, LookupError(r) \/ BlockError(r)
        PROVE  TypeInv'
    <2>1. \E e \in {"unavailable", "permissionDenied"}, b \in BOOLEAN : Abandon(r, e, b)
      BY <1>4 DEF LookupError, BlockError
    <2> QED
      BY <2>1, AbandonType DEF Errors
  <1>5. ASSUME NEW r \in Runners, ContinueCommit(r)
        PROVE  TypeInv'
    <2>1. CASE tx[r].error
      <3>1. Abandon(r, "invalidArgument", FALSE)
        BY <1>5, <2>1 DEF ContinueCommit
      <3> QED
        BY <3>1, AbandonType DEF Errors
    <2>2. CASE ~tx[r].error
      <3> DEFINE v == Verified(tx[r])
                 q == [by |-> r, attempt |-> attempt[r], tx |-> v]
      <3>1. tx[r] \in Transaction /\ Sound(tx[r]) /\ attempt[r] \in Nat
        BY DEF TypeInv, TypeOK
      <3>2. v \in Transaction /\ Checked(v)
        BY <2>2, <3>1, VerifiedChecked
      <3>3. /\ requests' = requests \cup {q}
            /\ tx' = [tx EXCEPT ![r] = NewTransaction]
            /\ step' = [step EXCEPT ![r] = "commit"]
            /\ UNCHANGED <<attempts_remaining, attempt, result, replies, server,
                           history>>
        BY <1>5, <2>2 DEF ContinueCommit, Goto
      <3> HIDE DEF v
      <3>4. q \in [by: Runners, attempt: Nat, tx: Transaction] /\ q.tx = v
        BY <3>1, <3>2
      <3> HIDE DEF q
      <3>5. step' \in [Runners -> Steps]
        BY <3>3, <1>t DEF TypeOK, Steps
      <3>6. tx' \in [Runners -> Transaction] /\ \A x \in Runners : Sound(tx'[x])
        BY <3>3, NewSound DEF TypeInv, TypeOK
      <3>7. TypeOK'
        BY <1>t, <3>3, <3>4, <3>5, <3>6 DEF TypeOK, server, history
      <3>8. \A x \in Runners : step'[x] = "idle"
                                 => attempts_remaining'[x] = MaxAttempts
        BY <3>3 DEF TypeInv, TypeOK
      <3>9. \A x \in requests' : Checked(x.tx)
        BY <3>2, <3>3, <3>4 DEF TypeInv
      <3> QED
        BY <3>6, <3>7, <3>8, <3>9 DEF TypeInv, Sound, Checked
    <2> QED
      BY <2>1, <2>2
  <1>6. ASSUME NEW r \in Runners, NEW m \in replies, DispatchResult(r, m)
        PROVE  TypeInv'
    <2>1. m.status \in Errors \cup {"ok"}
      BY <1>t DEF TypeOK
    <2>2. /\ step' \in [Runners -> Steps]
          /\ attempts_remaining' \in [Runners -> Nat]
          /\ result' \in [Runners -> Errors \cup {"none", "ok"}]
          /\ \A x \in Runners : step'[x] = "idle" =>
                step[x] = "idle" /\ attempts_remaining'[x] = attempts_remaining[x]
      <3>1. CASE m.status = "ok"
        BY <1>6, <1>t, <3>1 DEF DispatchResult, Goto, TypeOK, Steps
      <3>2. CASE m.status # "ok"
        BY <1>6, <1>t, <2>1, <3>2, HandleError DEF DispatchResult
      <3> QED
        BY <3>1, <3>2
    <2>3. TypeOK'
      BY <1>6, <1>t, <2>2 DEF DispatchResult, TypeOK, server, history
    <2>4. tx' = tx /\ requests' = requests
      BY <1>6 DEF DispatchResult
    <2> QED
      BY <2>2, <2>3, <2>4 DEF TypeInv, Sound, Checked
  <1>7. ASSUME NEW r \in Runners, Break(r)
        PROVE  TypeInv'
    <2>1. HandleTransactionError(r, "unavailable", FALSE)
      BY <1>7 DEF Break
    <2>2. /\ step' \in [Runners -> Steps]
          /\ attempts_remaining' \in [Runners -> Nat]
          /\ result' \in [Runners -> Errors \cup {"none", "ok"}]
          /\ \A x \in Runners : step'[x] = "idle" =>
                step[x] = "idle" /\ attempts_remaining'[x] = attempts_remaining[x]
      BY <1>t, <2>1, HandleError DEF Errors
    <2>3. unknown' \in [Runners -> SUBSET Nat]
      BY <1>7, <1>t DEF Break, TypeOK
    <2>4. TypeOK'
      BY <1>7, <1>t, <2>2, <2>3 DEF Break, Forget, TypeOK, server
    <2>5. tx' = tx /\ requests' = requests
      BY <1>7 DEF Break, Forget
    <2> QED
      BY <2>2, <2>4, <2>5 DEF TypeInv, Sound, Checked
  <1>8. ASSUME NEW r \in Runners, Kill(r)
        PROVE  TypeInv'
    <2>1. step' \in [Runners -> Steps]
      BY <1>8, <1>t DEF Kill, Goto, TypeOK, Steps
    <2>2. tx' \in [Runners -> Transaction] /\ \A x \in Runners : Sound(tx'[x])
      BY <1>8, NewSound DEF Kill, TypeInv, TypeOK
    <2>3. TypeOK'
      BY <1>8, <1>t, <2>1, <2>2 DEF Kill, Forget, TypeOK, server, history
    <2>4. \A x \in Runners : step'[x] = "idle"
                               => attempts_remaining'[x] = MaxAttempts
      BY <1>8 DEF Kill, Goto, TypeInv, TypeOK
    <2>5. requests' = requests
      BY <1>8 DEF Kill, Forget
    <2> QED
      BY <2>2, <2>3, <2>4, <2>5 DEF TypeInv, Sound, Checked
  <1>9. ASSUME NEW q \in requests, Accept(q)
        PROVE  TypeInv'
    <2>1. Reply(q, "ok")
      BY <1>9 DEF Accept
    <2>2. version' \in [Docs -> Nat] /\ clock' \in Nat
      BY <1>9, <1>t DEF Accept, TypeOK, None
    <2>3. q.by \in Runners /\ q.attempt \in Nat
      BY <1>t DEF TypeOK
    <2>4. applied' \in [Runners -> SUBSET Nat]
      BY <1>9, <1>t, <2>3 DEF Accept, TypeOK
    <2>5. TypeOK'
      BY <1>9, <1>t, <2>1, <2>2, <2>4, ReplyType DEF Accept, TypeOK, runner
    <2>6. \A x \in requests' : Checked(x.tx)
      BY <2>1, ReplyType
    <2> QED
      BY <1>9, <2>5, <2>6 DEF Accept, runner, TypeInv, Sound, Checked
  <1>10. ASSUME NEW q \in requests, Refuse(q)
         PROVE  TypeInv'
    <2>1. \E st \in Errors : Reply(q, st)
      BY <1>10 DEF Refuse, Errors
    <2>2. TypeOK'
      BY <1>10, <1>t, <2>1, ReplyType DEF Refuse, TypeOK, runner, server, history
    <2>3. \A x \in requests' : Checked(x.tx)
      BY <2>1, ReplyType
    <2> QED
      BY <1>10, <2>2, <2>3 DEF Refuse, runner, TypeInv, Sound, Checked
  <1>11. ASSUME NEW d \in Docs, OtherWrite(d)
         PROVE  TypeInv'
    <2>1. version' \in [Docs -> Nat] /\ clock' \in Nat
      BY <1>11, <1>t DEF OtherWrite, TypeOK, None
    <2>2. TypeOK'
      BY <1>11, <1>t, <2>1 DEF OtherWrite, TypeOK, runner, network, history
    <2> QED
      BY <1>11, <2>2 DEF OtherWrite, runner, network, TypeInv, Sound, Checked
  <1>12. CASE UNCHANGED vars
    BY <1>12 DEF vars, runner, network, server, history, TypeInv, TypeOK, Sound,
                 Checked
  <1> QED
    BY <1>1, <1>2, <1>3, <1>4, <1>5, <1>6, <1>7, <1>8, <1>9, <1>10, <1>11, <1>12
       DEF Next

\* TypeInv is an invariant.
LEMMA TypeInvariant == Spec => []TypeInv
  <1>1. Init => TypeInv
    <2> SUFFICES ASSUME Init PROVE TypeInv
      OBVIOUS
    <2>1. TypeOK
      BY NewSound, TransactionsAssumption DEF Init, TypeOK, Steps
    <2> QED
      BY <2>1, NewSound DEF Init, TypeInv
  <1>2. TypeInv /\ [Next]_vars => TypeInv'
    BY NextType
  <1> QED
    BY <1>1, <1>2, PTL DEF Spec

\* Every variable keeps its type; so no runner runs its block more often
\* than MaxAttempts says, for attempts_remaining is never negative.
THEOREM TypeCorrect == Spec => []TypeOK
  <1>1. TypeInv => TypeOK
    BY DEF TypeInv
  <1> QED
    BY <1>1, TypeInvariant, PTL

-----------------------------------------------------------------------------
(***************************************************************************)
(* Which attempts can still take effect.                                   *)
(***************************************************************************)

\* A commit on its way is of the attempt in progress, or its call broke off;
\* it has not taken effect yet.
RequestInv(q) ==
    /\ q.attempt <= attempt[q.by]
    /\ step[q.by] = "block" => q.attempt # attempt[q.by]
    /\ q.attempt \notin applied[q.by]
    /\ \/ q.attempt \in unknown[q.by]
       \/ step[q.by] = "killed"
       \/ step[q.by] = "commit" /\ q.attempt = attempt[q.by]

\* An answer on its way is to the attempt in progress, and true.
ReplyInv(m) ==
    /\ step[m.by] = "commit" /\ m.attempt = attempt[m.by]
    /\ m.status = "ok" <=> m.attempt \in applied[m.by]
    /\ \A q \in requests : ~(q.by = m.by /\ q.attempt = m.attempt)

\* What is known of the attempts of runner r.
RunnerInv(r) ==
    /\ \A a \in applied[r] : a <= attempt[r]
    /\ step[r] = "block" => attempt[r] \notin applied[r]
    /\ step[r] # "killed" =>
          \A a \in applied[r] : \/ a \in unknown[r]
                                \/ a = attempt[r] /\ (step[r] = "commit" \/ result[r] = "ok")
    /\ result[r] # "none" => step[r] = "done"
    /\ result[r] = "ok" => attempt[r] \in applied[r]

AttemptInv ==
    /\ \A q \in requests : RequestInv(q)
    /\ \A q, x \in requests : q.by = x.by /\ q.attempt = x.attempt => q = x
    /\ \A m \in replies : ReplyInv(m)
    /\ \A m, x \in replies : m.by = x.by => m = x
    /\ \A r \in Runners : RunnerInv(r)

\* Nothing of it changes while a block runs.
LEMMA SameAttempts ==
    ASSUME AttemptInv, UNCHANGED <<step, attempt, result, network, history>>
    PROVE  AttemptInv'
  BY DEF AttemptInv, RequestInv, ReplyInv, RunnerInv, network, history

\* A runner leaves idle or its block without a commit.
LEMMA LeaveBlock ==
    ASSUME TypeOK, AttemptInv, NEW r \in Runners, step[r] \in {"idle", "block"},
           UNCHANGED <<attempt, network, history>>,
           step' \in [Runners -> Steps],
           \A x \in Runners \ {r} : step'[x] = step[x] /\ result'[x] = result[x],
           \/ step'[r] = "backoff" /\ result'[r] = result[r]
           \/ step'[r] = "done" /\ result'[r] \in Errors
    PROVE  AttemptInv'
  <1> USE DEF network, history
  <1>1. /\ \A q \in requests : q.by \in Runners
        /\ \A m \in replies : m.by \in Runners /\ m.by # r
    BY DEF TypeOK, AttemptInv, ReplyInv
  <1>2. \A q \in requests : RequestInv(q)'
    BY <1>1 DEF AttemptInv, RequestInv
  <1>3. \A m \in replies : ReplyInv(m)'
    BY <1>1 DEF AttemptInv, ReplyInv
  <1>4. \A x \in Runners \ {r} : RunnerInv(x)'
    BY DEF AttemptInv, RunnerInv
  <1>5. RunnerInv(r)'
    BY DEF AttemptInv, RunnerInv, Errors
  <1> QED
    BY <1>2, <1>3, <1>4, <1>5 DEF AttemptInv

\* A block that ends with an error leaves no commit.
LEMMA AbandonAttempts ==
    ASSUME TypeOK, AttemptInv, NEW r \in Runners, step[r] = "block",
           NEW e \in Errors, NEW b \in BOOLEAN, Abandon(r, e, b)
    PROVE  AttemptInv'
  BY HandleError, LeaveBlock DEF Abandon

\* Runner r waits for no answer any more: its commits that are still on their
\* way were given up, unless it was killed.
LEMMA LeaveCommit ==
    ASSUME TypeOK, AttemptInv, NEW r \in Runners, step[r] = "commit",
           UNCHANGED <<attempt, requests, applied>>,
           step' \in [Runners -> Steps], step'[r] \in {"backoff", "done", "killed"},
           \A x \in Runners \ {r} : /\ step'[x] = step[x] /\ result'[x] = result[x]
                                    /\ unknown'[x] = unknown[x],
           unknown[r] \subseteq unknown'[r],
           replies' = {m \in replies : m.by # r},
           step'[r] # "killed" =>
              \A q \in requests : q.by = r => q.attempt \in unknown'[r],
           RunnerInv(r)'
    PROVE  AttemptInv'
  <1>1. /\ \A q \in requests : q.by \in Runners
        /\ \A m \in replies : m.by \in Runners
    BY DEF TypeOK
  <1>2. ASSUME NEW q \in requests
        PROVE  RequestInv(q)'
    <2>1. RequestInv(q)
      BY DEF AttemptInv
    <2>2. CASE q.by = r
      BY <2>1, <2>2 DEF RequestInv
    <2>3. CASE q.by # r
      BY <1>1, <2>1, <2>3 DEF RequestInv
    <2> QED
      BY <2>2, <2>3
  <1>3. \A m \in replies' : ReplyInv(m)'
    BY <1>1 DEF AttemptInv, ReplyInv
  <1>4. \A x \in Runners \ {r} : RunnerInv(x)'
    BY DEF AttemptInv, RunnerInv
  <1> QED
    BY <1>2, <1>3, <1>4 DEF AttemptInv

\* The server takes request q, and answers it if somebody still waits.
LEMMA ServeAttempts ==
    ASSUME TypeOK, AttemptInv, NEW q \in requests, NEW st \in Errors \cup {"ok"},
           Reply(q, st), UNCHANGED <<runner, unknown>>,
           \/ st = "ok" /\ applied' = [applied EXCEPT ![q.by] = @ \cup {q.attempt}]
           \/ st # "ok" /\ applied' = applied
    PROVE  AttemptInv'
  <1> USE DEF runner
  <1>1. /\ q.by \in Runners /\ applied \in [Runners -> SUBSET Nat]
        /\ \A x \in requests : x.by \in Runners
        /\ \A m \in replies : m.by \in Runners
    BY DEF TypeOK
  <1>2. /\ \A r \in Runners \ {q.by} : applied'[r] = applied[r]
        /\ applied'[q.by] \in {applied[q.by], applied[q.by] \cup {q.attempt}}
        /\ st = "ok" => q.attempt \in applied'[q.by]
        /\ st # "ok" => applied' = applied
    BY <1>1
  <1>3. requests' = requests \ {q}
    BY DEF Reply
  <1>4. RequestInv(q) /\ \A m \in replies : m.by = q.by => m.attempt # q.attempt
    BY DEF AttemptInv, ReplyInv
  <1>5. \A x \in requests' : RequestInv(x)'
    BY <1>1, <1>2, <1>3 DEF AttemptInv, RequestInv
  <1>6. \A m \in replies : ReplyInv(m)'
    BY <1>1, <1>2, <1>3, <1>4 DEF AttemptInv, ReplyInv
  <1>7. \A r \in Runners : RunnerInv(r)'
    <2>1. ASSUME NEW r \in Runners, r # q.by
          PROVE  RunnerInv(r)'
      BY <1>2, <2>1 DEF AttemptInv, RunnerInv
    <2>2. RunnerInv(q.by)'
      BY <1>1, <1>2, <1>4 DEF AttemptInv, RunnerInv, RequestInv
    <2> QED
      BY <2>1, <2>2
  <1>8. CASE step[q.by] = "commit" /\ attempt[q.by] = q.attempt
    <2> DEFINE n == [by |-> q.by, attempt |-> q.attempt, status |-> st]
    <2>1. replies' = replies \cup {n}
      BY <1>8 DEF Reply
    <2>2. n.by = q.by /\ n.attempt = q.attempt /\ n.status = st
      OBVIOUS
    <2> HIDE DEF n
    <2>3. \A m \in replies : m.by # q.by
      BY <1>4, <1>8 DEF AttemptInv, ReplyInv
    <2>4. q.attempt \notin applied[q.by]
      BY <1>4 DEF RequestInv
    <2>5. ReplyInv(n)'
      BY <1>2, <1>3, <1>8, <2>2, <2>4 DEF AttemptInv, ReplyInv
    <2> QED
      BY <1>3, <1>5, <1>6, <1>7, <2>1, <2>2, <2>3, <2>5 DEF AttemptInv
  <1>9. CASE ~(step[q.by] = "commit" /\ attempt[q.by] = q.attempt)
    <2>1. replies' = replies
      BY <1>9 DEF Reply
    <2> QED
      BY <1>3, <1>5, <1>6, <1>7, <2>1 DEF AttemptInv
  <1> QED
    BY <1>8, <1>9

\* Every step keeps AttemptInv.
LEMMA NextAttempts ==
    ASSUME TypeInv, AttemptInv, [Next]_vars
    PROVE  AttemptInv'
  <1>t. TypeOK
    BY DEF TypeInv
  <1>1. ASSUME NEW r \in Runners, Start(r)
        PROVE  AttemptInv'
    BY <1>1, <1>t, LeaveBlock DEF Start, Run, Goto, TypeOK, Steps
  <1>2. ASSUME NEW r \in Runners, BackoffAndRun(r)
        PROVE  AttemptInv'
    <2> USE DEF network, history
    <2>1. /\ \A q \in requests : q.by \in Runners
          /\ \A m \in replies : m.by \in Runners /\ m.by # r
      BY <1>2, <1>t DEF BackoffAndRun, TypeOK, AttemptInv, ReplyInv
    <2>2. /\ \A x \in Runners \ {r} : step'[x] = step[x] /\ attempt'[x] = attempt[x]
          /\ step[r] = "backoff" /\ step'[r] = "block"
          /\ attempt'[r] = attempt[r] + 1 /\ attempt[r] \in Nat
          /\ UNCHANGED <<result, requests, replies, applied, unknown>>
      BY <1>2, <1>t DEF BackoffAndRun, Goto, TypeOK
    <2>3. ASSUME NEW q \in requests
          PROVE  RequestInv(q)'
      <3>1. q.attempt \in Nat /\ RequestInv(q)
        BY <1>t DEF TypeOK, AttemptInv
      <3>2. CASE q.by = r
        BY <2>2, <3>1, <3>2 DEF RequestInv
      <3>3. CASE q.by # r
        BY <2>1, <2>2, <3>1, <3>3 DEF RequestInv
      <3> QED
        BY <3>2, <3>3
    <2>4. \A m \in replies : ReplyInv(m)'
      BY <2>1, <2>2 DEF AttemptInv, ReplyInv
    <2>5. \A x \in Runners \ {r} : RunnerInv(x)'
      BY <2>2 DEF AttemptInv, RunnerInv
    <2>6. RunnerInv(r)'
      <3>1. applied[r] \subseteq Nat /\ RunnerInv(r)
        BY <1>t DEF TypeOK, AttemptInv
      <3> QED
        BY <2>2, <3>1 DEF RunnerInv
    <2> QED
      BY <2>2, <2>3, <2>4, <2>5, <2>6 DEF AttemptInv
  <1>3. ASSUME NEW r \in Runners, Block(r)
        PROVE  AttemptInv'
    <2>1. PICK d \in Docs : \/ Lookup(r, d) \/ LookupFails(r, d)
                            \/ SetDoc(r, d) \/ Update(r, d) \/ DeleteDoc(r, d)
      BY <1>3 DEF Block
    <2>2. CASE LookupFails(r, d)
      <3>1. /\ step[r] = "block"
            /\ \E e \in {"invalidArgument", "aborted"} : Abandon(r, e, FALSE)
        BY <2>2 DEF LookupFails, InBlock
      <3> QED
        BY <1>t, <3>1, AbandonAttempts DEF Errors
    <2>3. CASE \E t : Call(r, t)
      BY <2>3, SameAttempts DEF Call
    <2> QED
      BY <2>1, <2>2, <2>3 DEF Lookup, SetDoc, Update, DeleteDoc
  <1>4. ASSUME NEW r \in Runners, LookupError(r) \/ BlockError(r)
        PROVE  AttemptInv'
    <2>1. /\ step[r] = "block"
          /\ \E e \in {"unavailable", "permissionDenied"}, b \in BOOLEAN : Abandon(r, e, b)
      BY <1>4 DEF LookupError, BlockError, InBlock
    <2> QED
      BY <1>t, <2>1, AbandonAttempts DEF Errors
  <1>5. ASSUME NEW r \in Runners, ContinueCommit(r)
        PROVE  AttemptInv'
    <2>1. CASE tx[r].error
      <3>1. step[r] = "block" /\ Abandon(r, "invalidArgument", FALSE)
        BY <1>5, <2>1 DEF ContinueCommit
      <3> QED
        BY <1>t, <3>1, AbandonAttempts DEF Errors
    <2>2. CASE ~tx[r].error
      <3> USE DEF history
      <3>1. PICK q : /\ requests' = requests \cup {q}
                     /\ q.by = r /\ q.attempt = attempt[r]
        <4> DEFINE w == [by |-> r, attempt |-> attempt[r], tx |-> Verified(tx[r])]
        <4>1. requests' = requests \cup {w}
          BY <1>5, <2>2 DEF ContinueCommit
        <4>2. w.by = r /\ w.attempt = attempt[r]
          OBVIOUS
        <4> HIDE DEF w
        <4> QED
          BY <4>1, <4>2
      <3>2. /\ step[r] = "block" /\ step' = [step EXCEPT ![r] = "commit"]
            /\ UNCHANGED <<attempt, result, replies, applied, unknown>>
        BY <1>5, <2>2 DEF ContinueCommit, Goto
      <3>3. /\ \A x \in requests : x.by \in Runners
            /\ \A m \in replies : m.by \in Runners /\ m.by # r
            /\ attempt[r] \in Nat
        BY <1>t, <3>1, <3>2 DEF TypeOK, AttemptInv, ReplyInv
      <3>4. \A x \in Runners : step'[x] = IF x = r THEN "commit" ELSE step[x]
        BY <1>t, <3>1, <3>2 DEF TypeOK
      <3>5. \A x \in requests : ~(x.by = r /\ x.attempt = attempt[r])
        BY <3>1, <3>2 DEF AttemptInv, RequestInv
      <3>6. \A x \in requests : RequestInv(x)'
        BY <3>1, <3>2, <3>3, <3>4 DEF AttemptInv, RequestInv
      <3>7. RequestInv(q)'
        BY <3>1, <3>2, <3>3, <3>4 DEF AttemptInv, RequestInv, RunnerInv
      <3>8. \A m \in replies : ReplyInv(m)'
        BY <3>1, <3>2, <3>3, <3>4 DEF AttemptInv, ReplyInv
      <3>9. \A x \in Runners : RunnerInv(x)'
        BY <3>1, <3>2, <3>4 DEF AttemptInv, RunnerInv
      <3> QED
        BY <3>1, <3>2, <3>5, <3>6, <3>7, <3>8, <3>9 DEF AttemptInv
    <2> QED
      BY <2>1, <2>2
  <1>6. ASSUME NEW r \in Runners, NEW m \in replies, DispatchResult(r, m)
        PROVE  AttemptInv'
    <2> USE DEF history
    <2>1. /\ step[r] = "commit" /\ m.by = r /\ m.attempt = attempt[r]
          /\ replies' = replies \ {m}
          /\ UNCHANGED <<attempt, requests, applied, unknown>>
          /\ ReplyInv(m) /\ RunnerInv(r)
          /\ m.status \in Errors \cup {"ok"}
      BY <1>6, <1>t DEF DispatchResult, AttemptInv, TypeOK
    <2>2. replies' = {x \in replies : x.by # r}
      BY <2>1 DEF AttemptInv
    <2>3. \A q \in requests : q.by = r => q.attempt \in unknown[r]
      BY <2>1 DEF ReplyInv, AttemptInv, RequestInv
    <2>4. CASE m.status = "ok"
      <3>1. /\ step' = [step EXCEPT ![r] = "done"]
            /\ result' = [result EXCEPT ![r] = "ok"]
        BY <1>6, <2>4 DEF DispatchResult, Goto
      <3>2. /\ step' \in [Runners -> Steps] /\ step'[r] = "done" /\ result'[r] = "ok"
            /\ \A x \in Runners \ {r} : step'[x] = step[x] /\ result'[x] = result[x]
        BY <1>t, <3>1 DEF TypeOK, Steps
      <3>3. RunnerInv(r)'
        BY <2>1, <2>4, <3>2 DEF RunnerInv, ReplyInv
      <3> QED
        BY <1>t, <2>1, <2>2, <2>3, <3>2, <3>3, LeaveCommit
    <2>5. CASE m.status # "ok"
      <3>1. HandleTransactionError(r, m.status, FALSE) /\ m.status \in Errors
        BY <1>6, <2>1, <2>5 DEF DispatchResult
      <3>2. /\ step' \in [Runners -> Steps]
            /\ \A x \in Runners \ {r} : step'[x] = step[x] /\ result'[x] = result[x]
            /\ \/ step'[r] = "backoff" /\ result'[r] = result[r]
               \/ step'[r] = "done" /\ result'[r] \in Errors
        BY <1>t, <3>1, HandleError
      <3>3. RunnerInv(r)'
        BY <2>1, <2>5, <3>2 DEF RunnerInv, ReplyInv, Errors
      <3> QED
        BY <1>t, <2>1, <2>2, <2>3, <3>2, <3>3, LeaveCommit
    <2> QED
      BY <2>4, <2>5
  <1>7. ASSUME NEW r \in Runners, Break(r)
        PROVE  AttemptInv'
    <2>1. /\ step[r] = "commit" /\ RunnerInv(r)
          /\ replies' = {x \in replies : x.by # r}
          /\ UNCHANGED <<attempt, requests, applied>>
          /\ HandleTransactionError(r, "unavailable", FALSE)
      BY <1>7 DEF Break, Forget, AttemptInv
    <2>2. /\ \A x \in Runners \ {r} : unknown'[x] = unknown[x]
          /\ unknown'[r] = unknown[r] \cup {attempt[r]}
      BY <1>7, <1>t DEF Break, TypeOK
    <2>3. \A q \in requests : q.by = r => q.attempt \in unknown'[r]
      BY <2>1, <2>2 DEF AttemptInv, RequestInv
    <2>4. /\ step' \in [Runners -> Steps]
          /\ \A x \in Runners \ {r} : step'[x] = step[x] /\ result'[x] = result[x]
          /\ \/ step'[r] = "backoff" /\ result'[r] = result[r]
             \/ step'[r] = "done" /\ result'[r] \in Errors
      BY <1>t, <2>1, HandleError DEF Errors
    <2>5. RunnerInv(r)'
      BY <2>1, <2>2, <2>4 DEF RunnerInv, Errors
    <2> QED
      BY <1>t, <2>1, <2>2, <2>3, <2>4, <2>5, LeaveCommit
  <1>8. ASSUME NEW r \in Runners, Kill(r)
        PROVE  AttemptInv'
    <2> USE DEF history
    <2>1. /\ step[r] \in {"backoff", "block", "commit"} /\ RunnerInv(r)
          /\ step' = [step EXCEPT ![r] = "killed"]
          /\ replies' = {x \in replies : x.by # r}
          /\ UNCHANGED <<attempt, requests, result, applied, unknown>>
      BY <1>8 DEF Kill, Goto, Forget, AttemptInv
    <2>2. \A x \in Runners : step'[x] = IF x = r THEN "killed" ELSE step[x]
      BY <1>t, <2>1 DEF TypeOK
    <2>3. /\ \A x \in requests : x.by \in Runners
          /\ \A m \in replies : m.by \in Runners
      BY <1>t DEF TypeOK
    <2>4. \A q \in requests : RequestInv(q)'
      BY <2>1, <2>2, <2>3 DEF AttemptInv, RequestInv
    <2>5. \A m \in replies' : ReplyInv(m)'
      BY <2>1, <2>2, <2>3 DEF AttemptInv, ReplyInv
    <2>6. \A x \in Runners : RunnerInv(x)'
      BY <2>1, <2>2 DEF AttemptInv, RunnerInv
    <2> QED
      BY <2>1, <2>4, <2>5, <2>6 DEF AttemptInv
  <1>9. ASSUME NEW q \in requests, Accept(q)
        PROVE  AttemptInv'
    BY <1>9, <1>t, ServeAttempts DEF Accept
  <1>10. ASSUME NEW q \in requests, Refuse(q)
         PROVE  AttemptInv'
    <2>1. \E st \in Errors : st # "ok" /\ Reply(q, st)
      BY <1>10 DEF Refuse, Errors
    <2> QED
      BY <1>10, <1>t, <2>1, ServeAttempts DEF Refuse, history
  <1>11. ASSUME NEW d \in Docs, OtherWrite(d)
         PROVE  AttemptInv'
    BY <1>11, SameAttempts DEF OtherWrite, runner
  <1>12. CASE UNCHANGED vars
    BY <1>12, SameAttempts DEF vars, runner
  <1> QED
    BY <1>1, <1>2, <1>3, <1>4, <1>5, <1>6, <1>7, <1>8, <1>9, <1>10, <1>11, <1>12
       DEF Next

\* AttemptInv is an invariant.
LEMMA AttemptInvariant == Spec => []AttemptInv
  <1>1. Init => AttemptInv
    BY DEF Init, AttemptInv, RunnerInv
  <1>2. TypeInv /\ AttemptInv /\ [Next]_vars => AttemptInv'
    BY NextAttempts
  <1> QED
    BY <1>1, <1>2, TypeInvariant, PTL DEF Spec

\* What the app is told of a transaction is so, and an attempt can have taken
\* effect behind its back only if its call broke off: for any number of
\* runners, attempts and documents, whatever the network loses.
THEOREM OutcomeIsKnown == Spec => []OutcomeKnown
  <1>1. AttemptInv => OutcomeKnown
    BY DEF AttemptInv, RunnerInv, OutcomeKnown
  <1> QED
    BY <1>1, AttemptInvariant, PTL

\* A transaction takes effect only while all that its block read is as it
\* was: the preconditions and the verify mutations that the client derives
\* cover every document read, for any block, however reads and writes mix.
THEOREM ReadsAreChecked == Spec => ReadsHold
  <1>1. ASSUME TypeInv, AttemptInv, [Next]_vars, NEW q \in requests,
               q.attempt \in applied'[q.by] \ applied[q.by], NEW d \in Docs
        PROVE  q.tx.read[d] \in {Unread, version[d]}
    <2>1. TypeOK /\ q.by \in Runners /\ q.tx \in Transaction /\ Checked(q.tx)
      BY <1>1 DEF TypeInv, TypeOK
    <2>2. applied' # applied
      BY <1>1
    <2>3. PICK x \in requests : Accept(x)
      <3>1. ASSUME NEW r \in Runners, Block(r)
            PROVE  applied' = applied
        BY <3>1 DEF Block, Lookup, LookupFails, SetDoc, Update, DeleteDoc, Call,
                    Abandon, history
      <3>2. ASSUME NEW r \in Runners, \/ Start(r) \/ BackoffAndRun(r) \/ LookupError(r)
                                      \/ BlockError(r) \/ ContinueCommit(r)
            PROVE  applied' = applied
        BY <3>2 DEF Start, BackoffAndRun, LookupError, BlockError, ContinueCommit,
                    Abandon, history
      <3>3. ASSUME NEW r \in Runners, \/ \E m \in replies : DispatchResult(r, m)
                                      \/ Break(r) \/ Kill(r)
            PROVE  applied' = applied
        BY <3>3 DEF DispatchResult, Break, Kill, history
      <3>4. ASSUME \/ \E x \in requests : Refuse(x)
                   \/ \E e \in Docs : OtherWrite(e)
                   \/ UNCHANGED vars
            PROVE  applied' = applied
        BY <3>4 DEF Refuse, OtherWrite, vars, history
      <3> QED
        BY <1>1, <2>2, <3>1, <3>2, <3>3, <3>4 DEF Next
    <2>4. applied' = [applied EXCEPT ![x.by] = @ \cup {x.attempt}]
      BY <2>3 DEF Accept
    <2>5. q.by = x.by /\ q.attempt = x.attempt
      BY <1>1, <2>1, <2>4 DEF TypeOK
    <2>6. q = x
      BY <1>1, <2>5 DEF AttemptInv
    <2>7. Holds(q.tx.pre[d], version[d])
      BY <2>3, <2>6 DEF Accept
    <2>8. q.tx.read[d] \in Nat \cup {Unread}
      BY <2>1, PreconditionType
    <2>9. CASE q.tx.read[d] # Unread
      <3>1. q.tx.pre[d] = q.tx.read[d] /\ q.tx.pre[d] \in Nat
        BY <2>1, <2>8, <2>9 DEF Checked
      <3> QED
        BY <2>7, <3>1 DEF Holds, Unread, MustExist
    <2> QED
      BY <2>9
  <1>2. TypeInv /\ AttemptInv /\ [Next]_vars =>
           [\A q \in requests :
               q.attempt \in applied'[q.by] \ applied[q.by] =>
                  \A d \in Docs : q.tx.read[d] \in {Unread, version[d]}]_vars
    BY <1>1
  <1> QED
    BY <1>2, TypeInvariant, AttemptInvariant, PTL DEF Spec, ReadsHold
=============================================================================
