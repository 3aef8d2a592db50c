------------------------------- MODULE Writes -------------------------------
(***************************************************************************)
(* Plain writes (set, update, delete), as the Firestore client that the    *)
(* app ships for iOS carries them out.  Almost everything that the other   *)
(* modules take for one write of a client passes through here.             *)
(*                                                                         *)
(* A write becomes a batch of the mutation queue of its user, which is     *)
(* kept on disk.  RemoteStore takes batches from the queue of the current  *)
(* user into a pipeline and sends them over the write stream, first a      *)
(* handshake, then one request per batch.  Answers carry no id: each is    *)
(* taken for the batch at the head of the pipeline.  When the stream ends  *)
(* with an error, what is in the pipeline is sent again over a new one.    *)
(* All code of the client runs on one queue, one task at a time.           *)
(*                                                                         *)
(* The server is not part of this repository.  It handles the requests of  *)
(* a stream in their order, those of a closed stream at the latest when    *)
(* the client's next stream shakes hands, and ends a stream whose request  *)
(* it refuses.                                                             *)
(***************************************************************************)
EXTENDS Integers, Sequences, FiniteSetsExt, SequencesExt

CONSTANTS
    Users,
    FirstUser,    \* who is signed in at first
    MaxPending,   \* kMaxPendingWrites
    MaxWrites,    \* model bound: writes of the app
    MaxEvents     \* model bound: failures, kills, changes of user or network

ASSUME WritesAssumption ==
    /\ MaxPending \in Nat \ {0} /\ MaxWrites \in Nat /\ MaxEvents \in Nat
    /\ FirstUser \in Users

VARIABLES
    mutations,   \* the batches in the mutation queues on disk
    alive,       \* the app runs
    user,        \* current_user_
    next,        \* next_batch_id_
    callbacks,   \* mutation_callbacks_
    c,           \* RemoteStore and its WriteStream
    late,        \* writes sent over a closed stream, not yet handled
    author,      \* history: author[w]: the user of each write, in their order
    applied,     \* history: applied[w]: how often write w took effect
    refused,     \* history: writes that the server refused
    lost,        \* history: writes an answer to which was lost
    told,        \* history: told[w]: what the app's callback was given
    events

disk    == <<mutations>>
memory  == <<alive, user, next, callbacks, c>>
server  == <<late, applied, refused>>
history == <<author, lost, told, events>>
vars    == <<disk, memory, server, history>>

Writes    == 1..MaxWrites
Handshake == 0          \* among requests and answers, next to the writes
Refusal   == -1         \* a permanent error that ends the stream

Batch    == [user: Users, id: Nat \ {0}, write: Writes]
Callback == Batch

\* closes is close_count_, credentials the calls of RequestCredentials not
\* yet answered, by the close count at that time.
Client ==
    [enabled: BOOLEAN, pipeline: Seq(Batch),
     stream: {"Initial", "Starting", "Open", "Backoff", "Error"},
     shaken: BOOLEAN, idle: BOOLEAN, sent: Seq(Writes \cup {Handshake}),
     answers: Seq(Writes \cup {Handshake, Refusal}),
     closes: Nat, credentials: SUBSET Nat]

NewClient ==
    [enabled |-> FALSE, pipeline |-> <<>>, stream |-> "Initial",
     shaken |-> FALSE, idle |-> FALSE, sent |-> <<>>, answers |-> <<>>,
     closes |-> 0, credentials |-> {}]

TypeOK ==
    /\ mutations \subseteq Batch /\ callbacks \subseteq Callback
    /\ alive \in BOOLEAN /\ user \in Users /\ next \in Nat \ {0}
    /\ c \in Client /\ Len(c.pipeline) <= MaxPending
    /\ late \in Seq(Writes) /\ author \in Seq(Users)
    /\ applied \in [Writes -> Nat] /\ refused \subseteq Writes
    /\ lost \subseteq Writes
    /\ told \in [Writes -> {"nothing", "ok", "failed"}]
    /\ events \in 0..MaxEvents

Init ==
    /\ mutations = {} /\ callbacks = {}
    /\ alive = FALSE /\ user = FirstUser /\ next = 1
    /\ c = NewClient
    /\ late = <<>> /\ author = <<>>
    /\ applied = [w \in Writes |-> 0]
    /\ refused = {} /\ lost = {}
    /\ told = [w \in Writes |-> "nothing"]
    /\ events = 0

Event == events < MaxEvents /\ events' = events + 1

-----------------------------------------------------------------------------
(***************************************************************************)
(* LevelDbMutationQueue.                                                   *)
(***************************************************************************)

\* LoadNextBatchIdFromDb: past the batches of all users.
LoadNextBatchIdFromDb == Max({b.id : b \in mutations} \cup {0}) + 1

\* NextMutationBatchAfterBatchId, again and again: those of m after id.
BatchesAfter(m, u, id) ==
    LET S == {b \in m : b.user = u /\ b.id > id}
    IN  CHOOSE s \in [1..Cardinality(S) -> S] :
           \A i, j \in DOMAIN s : i < j => s[i].id < s[j].id

\* RemoveMutationBatch
Without(m, u, id) == {b \in m : ~(b.user = u /\ b.id = id)}

-----------------------------------------------------------------------------
(***************************************************************************)
(* Stream and WriteStream.                                                 *)
(***************************************************************************)

IsStarted(s) == s.stream \in {"Starting", "Backoff", "Open"}

Start(s) ==
    IF s.stream = "Error"
    THEN [s EXCEPT !.stream = "Backoff"]
    ELSE [s EXCEPT !.stream = "Starting", !.credentials = @ \cup {s.closes}]

\* Close, up to the notification of RemoteStore.
Closed(s, state) ==
    [s EXCEPT !.stream = state, !.idle = FALSE, !.sent = <<>>,
              !.answers = <<>>, !.closes = @ + 1]

\* Close after an intended stop: OnWriteStreamClose finds nothing to do.
Stop(s) ==
    IF IsStarted(s) THEN [Closed(s, "Initial") EXCEPT !.shaken = FALSE] ELSE s

-----------------------------------------------------------------------------
(***************************************************************************)
(* RemoteStore.                                                            *)
(***************************************************************************)

ShouldStartWriteStream(s) ==
    s.enabled /\ ~IsStarted(s) /\ s.pipeline # <<>>

StartWriteStream(s) == IF ShouldStartWriteStream(s) THEN Start(s) ELSE s

WritesOf(p) == [i \in DOMAIN p |-> p[i].write]

\* Mutant: the pipeline takes whatever there is.
FillWritePipelineFull(s, m, u) ==
    LET more  == BatchesAfter(m, u, IF s.pipeline = <<>> THEN 0
                                                         ELSE Last(s.pipeline).id)
        added == IF s.enabled THEN more ELSE <<>>
        idle  == s.enabled /\ s.pipeline \o more = <<>> /\ s.stream = "Open"
        send  == s.stream = "Open" /\ s.shaken
    IN  StartWriteStream(
          [s EXCEPT !.pipeline = @ \o added,
                    !.sent = IF send THEN @ \o WritesOf(added) ELSE @,
                    !.idle = idle \/ (@ /\ ~(send /\ added # <<>>))])

\* FillWritePipeline for the user's queue m, with AddToWritePipeline, and
\* MarkIdle when there is nothing to send.
FillWritePipeline(s, m, u) ==
    LET more  == BatchesAfter(m, u, IF s.pipeline = <<>> THEN 0
                                                         ELSE Last(s.pipeline).id)
        room  == IF s.enabled THEN MaxPending - Len(s.pipeline) ELSE 0
        added == SubSeq(more, 1, IF room < Len(more) THEN room ELSE Len(more))
        idle  == s.enabled /\ s.pipeline \o more = <<>> /\ s.stream = "Open"
        send  == s.stream = "Open" /\ s.shaken
    IN  StartWriteStream(
          [s EXCEPT !.pipeline = @ \o added,
                    !.sent = IF send THEN @ \o WritesOf(added) ELSE @,
                    !.idle = idle \/ (@ /\ ~(send /\ added # <<>>))])

EnableNetworkOf(s, m, u) == FillWritePipeline([s EXCEPT !.enabled = TRUE], m, u)

DisableNetworkInternal(s) ==
    [Stop([s EXCEPT !.enabled = FALSE]) EXCEPT !.pipeline = <<>>]

RestartNetwork(s, m, u) ==
    EnableNetworkOf([DisableNetworkInternal(s) EXCEPT !.stream = "Initial"], m, u)

-----------------------------------------------------------------------------
(***************************************************************************)
(* The app and its environment.                                            *)
(***************************************************************************)

\* The stream, if there is one, ends: answers not yet read are lost, and the
\* server may still handle what it was sent.
Abandon ==
    /\ lost' = lost \cup (ToSet(c.answers) \cap Writes)
    /\ late' = IF ~c.shaken THEN late
               ELSE IF Refusal \in ToSet(c.answers) THEN <<>> ELSE c.sent
    /\ UNCHANGED <<applied, refused>>

\* The app starts, for the user who is signed in.
Launch ==
    /\ ~alive /\ alive' = TRUE
    /\ next' = LoadNextBatchIdFromDb
    /\ c' = EnableNetworkOf(NewClient, mutations, user)
    /\ UNCHANGED <<disk, user, callbacks, server, history>>

\* Mutant: the callback is noted under the id that comes next.
WriteMutationsNext ==
    LET w == Len(author) + 1
        b == [user |-> user, id |-> next, write |-> w]
    IN  /\ alive /\ w \in Writes
        /\ mutations' = Without(mutations, user, next) \cup {b}
        /\ next' = next + 1
        /\ callbacks' = callbacks \cup {[b EXCEPT !.id = @ + 1]}
        /\ c' = FillWritePipeline(c, mutations', user)
        /\ author' = Append(author, user)
        /\ UNCHANGED <<alive, user, server, lost, told, events>>

\* SyncEngine::WriteMutations, with WriteLocally.
WriteMutations ==
    LET w == Len(author) + 1
        b == [user |-> user, id |-> next, write |-> w]
    IN  /\ alive /\ w \in Writes
        /\ mutations' = Without(mutations, user, next) \cup {b}
        /\ next' = next + 1
        /\ callbacks' = callbacks \cup
              {f \in {b} : Without(callbacks, user, next) = callbacks}
        /\ c' = FillWritePipeline(c, mutations', user)
        /\ author' = Append(author, user)
        /\ UNCHANGED <<alive, user, server, lost, told, events>>

\* The network has changed, or the credentials of the user.
ConnectivityChange ==
    /\ alive /\ c.enabled /\ Event
    /\ Abandon
    /\ c' = RestartNetwork(c, mutations, user)
    /\ UNCHANGED <<disk, alive, user, next, callbacks, author, told>>

DisableNetwork ==
    /\ alive /\ Event
    /\ Abandon
    /\ c' = DisableNetworkInternal(c)
    /\ UNCHANGED <<disk, alive, user, next, callbacks, author, told>>

EnableNetwork ==
    /\ alive
    /\ c' = EnableNetworkOf(c, mutations, user)
    /\ c' # c
    /\ UNCHANGED <<disk, alive, user, next, callbacks, server, history>>

\* HandleCredentialChange: another user signs in.
HandleCredentialChange(u) ==
    /\ alive /\ u # user /\ Event
    /\ user' = u
    /\ next' = LoadNextBatchIdFromDb
    /\ \/ /\ c.enabled
          /\ Abandon
          /\ c' = RestartNetwork(c, mutations, u)
       \/ /\ ~c.enabled
          /\ UNCHANGED <<c, server, lost>>
    /\ UNCHANGED <<disk, alive, callbacks, author, told>>

\* The stream ends with a refusal.  It comes after the answers before it, but
\* if a request cannot be sent because the stream is over, GrpcStream does not
\* read them any more.
Rejecting ==
    /\ c.answers # <<>> /\ Last(c.answers) = Refusal
    /\ Len(c.answers) = 1 \/ c.sent # <<>>

\* NotifyUser
NotifyUser(b, s) ==
    LET called == {f \in callbacks : f.user = user /\ f.id = b.id}
    IN  /\ told' = [w \in Writes |-> IF \E f \in called : f.write = w
                                     THEN s ELSE told[w]]
        /\ callbacks' = callbacks \ called

\* The app is killed, perhaps while it handles an answer: it was told of a
\* success that is not yet noted on disk, or not told of a rejection that is.
Kill ==
    /\ alive /\ Event
    /\ alive' = FALSE /\ c' = NewClient /\ callbacks' = {}
    /\ Abandon
    /\ \/ UNCHANGED <<mutations, told>>
       \/ /\ c.answers # <<>> /\ Head(c.answers) \in Writes
          /\ told' = [w \in Writes |->
                        IF Head(c.pipeline) \in callbacks
                           /\ w = Head(c.pipeline).write
                        THEN "ok" ELSE told[w]]
          /\ UNCHANGED mutations
       \/ /\ Rejecting
          /\ mutations' = Without(mutations, user, Head(c.pipeline).id)
          /\ UNCHANGED told
    /\ UNCHANGED <<user, next, author>>

-----------------------------------------------------------------------------
(***************************************************************************)
(* The stream, on the client's side.                                       *)
(***************************************************************************)

Only(s) == /\ alive /\ c' = s
           /\ UNCHANGED <<disk, alive, user, next, callbacks, server, history>>

\* Mutant: the close count is not compared.
ResumeStartUncounted(k) ==
    /\ k \in c.credentials
    /\ Only([c EXCEPT !.credentials = @ \ {k}, !.stream = "Open",
                      !.sent = <<Handshake>>])

\* RequestCredentials is answered: ResumeStartWithCredentials, OnStreamStart
\* and the handshake of OnWriteStreamOpen, unless closed since.
ResumeStartWithCredentials(k) ==
    /\ k \in c.credentials
    /\ Only(IF k # c.closes
            THEN [c EXCEPT !.credentials = @ \ {k}]
            ELSE [c EXCEPT !.credentials = @ \ {k}, !.stream = "Open",
                           !.sent = <<Handshake>>])

\* BackoffAndTryRestarting, after the back-off.
BackoffElapsed ==
    /\ c.stream = "Backoff"
    /\ Only(Start([c EXCEPT !.stream = "Initial"]))

\* The idle timer.
IdleTimeout == c.idle /\ Only(Stop(c))

\* Mutant: what is in the pipeline already is not sent.
OnWriteStreamHandshakeForgets ==
    /\ c.answers # <<>> /\ Head(c.answers) = Handshake
    /\ Only([c EXCEPT !.answers = Tail(@), !.shaken = TRUE])

\* NotifyStreamResponse: the handshake is complete, the pipeline is sent.
OnWriteStreamHandshakeComplete ==
    /\ c.answers # <<>> /\ Head(c.answers) = Handshake
    /\ Only([c EXCEPT !.answers = Tail(@), !.shaken = TRUE,
                      !.sent = @ \o WritesOf(c.pipeline),
                      !.idle = @ /\ c.pipeline = <<>>])

\* OnWriteStreamMutationResult: the answer is for the head of the pipeline.
OnWriteStreamMutationResult ==
    /\ alive /\ c.answers # <<>> /\ Head(c.answers) \in Writes
    /\ LET b == Head(c.pipeline) IN
       /\ NotifyUser(b, "ok")
       /\ mutations' = Without(mutations, user, b.id)
       /\ c' = FillWritePipeline([c EXCEPT !.answers = Tail(@), !.pipeline = Tail(@)],
                                 mutations', user)
    /\ UNCHANGED <<alive, user, next, server, author, lost, events>>

\* Mutant: the stream is not restarted.
CloseTransientForGood(s) == [Closed(s, "Error") EXCEPT !.shaken = FALSE]

\* OnWriteStreamClose after an error that may go away, or before the
\* handshake: the pipeline is kept and the stream restarted.
CloseTransient(s) == [StartWriteStream(Closed(s, "Error")) EXCEPT !.shaken = FALSE]

\* Mutant: every error is taken for a permanent one.
OnStreamFinishRejects ==
    /\ alive /\ Event
    /\ c.stream = "Open" /\ c.shaken /\ c.pipeline # <<>>
    /\ Abandon
    /\ mutations' = Without(mutations, user, Head(c.pipeline).id)
    /\ NotifyUser(Head(c.pipeline), "failed")
    /\ c' = CloseTransient([c EXCEPT !.pipeline = Tail(@)])
    /\ UNCHANGED <<alive, user, next, author>>

\* The stream breaks, or gets no credentials.
OnStreamFinish ==
    /\ alive /\ Event
    /\ c.stream \in {"Starting", "Open"}
    /\ Abandon
    /\ c' = CloseTransient([c EXCEPT !.credentials = @ \ {c.closes}])
    /\ UNCHANGED <<disk, alive, user, next, callbacks, author, told>>

\* OnWriteStreamClose with HandleWriteError: the head of the pipeline is
\* rejected.
HandleWriteError ==
    /\ alive /\ Rejecting
    /\ LET b == Head(c.pipeline) IN
       /\ mutations' = Without(mutations, user, b.id)
       /\ NotifyUser(b, "failed")
       /\ c' = [FillWritePipeline([Closed(c, "Initial") EXCEPT !.pipeline = Tail(@)],
                                  mutations', user) EXCEPT !.shaken = FALSE]
    /\ lost' = lost \cup (ToSet(c.answers) \cap Writes)
    /\ UNCHANGED <<alive, user, next, server, author, events>>

-----------------------------------------------------------------------------
(***************************************************************************)
(* The server.                                                             *)
(***************************************************************************)

Listening == c.sent # <<>> /\ Refusal \notin ToSet(c.answers)

Reply(a) == c' = [c EXCEPT !.sent = Tail(@), !.answers = Append(@, a)]

ShakeHands ==
    /\ Listening /\ Head(c.sent) = Handshake
    /\ Reply(Handshake)
    /\ late' = <<>>
    /\ UNCHANGED <<disk, alive, user, next, callbacks, applied, refused, history>>

Apply ==
    /\ Listening /\ Head(c.sent) \in Writes
    /\ applied' = [applied EXCEPT ![Head(c.sent)] = @ + 1]
    /\ Reply(Head(c.sent))
    /\ UNCHANGED <<disk, alive, user, next, callbacks, late, refused, history>>

Refuse ==
    /\ Listening /\ Head(c.sent) \in Writes
    /\ refused' = refused \cup {Head(c.sent)}
    /\ Reply(Refusal)
    /\ UNCHANGED <<disk, alive, user, next, callbacks, late, applied, history>>

\* A request of a closed stream; nobody hears of the answer, and a refusal
\* ends that stream.
HandleLate ==
    /\ late # <<>>
    /\ \/ /\ applied' = [applied EXCEPT ![Head(late)] = @ + 1]
          /\ lost' = lost \cup {Head(late)}
          /\ late' = Tail(late)
       \/ late' = <<>> /\ UNCHANGED <<applied, lost>>
    /\ UNCHANGED <<disk, memory, refused, author, told, events>>

Next ==
    \/ Launch \/ WriteMutations \/ ConnectivityChange \/ DisableNetwork
    \/ EnableNetwork \/ Kill \/ \E u \in Users : HandleCredentialChange(u)
    \/ \E k \in c.credentials : ResumeStartWithCredentials(k)
    \/ BackoffElapsed \/ IdleTimeout \/ OnWriteStreamHandshakeComplete
    \/ OnWriteStreamMutationResult \/ OnStreamFinish \/ HandleWriteError
    \/ ShakeHands \/ Apply \/ Refuse \/ HandleLate

Spec == Init /\ [][Next]_vars

\* Tasks of the client's queue and timers run, and the server answers.
Fairness ==
    /\ WF_vars(\E k \in c.credentials : ResumeStartWithCredentials(k))
    /\ WF_vars(BackoffElapsed)
    /\ WF_vars(OnWriteStreamHandshakeComplete)
    /\ WF_vars(OnWriteStreamMutationResult \/ HandleWriteError)
    /\ WF_vars(ShakeHands) /\ WF_vars(Apply \/ Refuse)

FairSpec == Spec /\ Fairness

-----------------------------------------------------------------------------
(***************************************************************************)
(* Properties.                                                             *)
(***************************************************************************)

Pending == {b.write : b \in mutations}

\* Whatever breaks, restarts, or signs in: a write that the app has made is
\* in a mutation queue until the server has applied or refused it.
NothingLost ==
    \A w \in 1..Len(author) : w \in Pending \/ applied[w] > 0 \/ w \in refused

\* The callback of a write is told what became of this write: success only if
\* it was applied, a failure only if it was refused and not applied, unless
\* an answer of the server got lost.
OutcomeTold ==
    \A w \in Writes :
        /\ told[w] = "ok" => applied[w] > 0
        /\ told[w] = "failed" /\ w \notin lost =>
              w \in refused /\ applied[w] = 0

\* The server applies the writes of a user in the order in which the app made
\* them, leaving out only refused ones, and no write that is no longer in a
\* mutation queue, although the client sends batches again and again.
AppliedInOrder ==
    [][\A w \in Writes :
          applied'[w] > applied[w] =>
             /\ w \in Pending
             /\ \A v \in 1..(w - 1) :
                   author[v] = author[w] => applied[v] > 0 \/ v \in refused]_vars

\* The assertions of the code hold: an answer finds a batch in the pipeline,
\* and this batch in the queue of the current user; an idle stream that is
\* stopped is not needed; credentials find the stream waiting for them.
Asserts ==
    /\ \A i \in DOMAIN c.answers :
          c.answers[i] # Handshake => i <= Len(c.pipeline)
    /\ \A i \in DOMAIN c.pipeline :
          c.pipeline[i] \in mutations /\ c.pipeline[i].user = user
    /\ c.idle => c.stream = "Open" /\ c.pipeline = <<>>
    /\ c.closes \in c.credentials => c.stream = "Starting"

\* Writes of the user who is signed in reach the server in the end, for the
\* stream is opened again after every error, unless the network is turned
\* off or the app killed.
Drains ==
    \A u \in Users :
        user = u /\ (\E b \in mutations : b.user = u)
        ~> \/ ~\E b \in mutations : b.user = u
           \/ user # u \/ ~c.enabled \/ ~alive
=============================================================================
