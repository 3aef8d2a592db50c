---------------------------- MODULE CallHistory -----------------------------
(***************************************************************************)
(* The history of one call.  Each of its two users has a document          *)
(* users/{phone}/callhistory/{timeepoch} whose STATUS both clients write:  *)
(* the caller from Agora's callbacks (calling, missedcall, pickedup), and  *)
(* whoever ends or rejects the call, or sees the other leave it (ended,    *)
(* rejected).  No write looks at the status it replaces.  Beside it, the   *)
(* document users/{phone}/recent/callended triggers the pushes that tell a *)
(* user of a rejected or missed call.                                      *)
(*                                                                         *)
(* A handler runs from one await to the next in a step, the one in which   *)
(* the client is told that the awaited write is done.  The writes of a     *)
(* client reach the server, and are acknowledged, in the order in which    *)
(* they were issued; those that a killed app had issued are sent later.    *)
(* How the call is announced is the subject of Calls.                      *)
(***************************************************************************)
EXTENDS Naturals, Sequences

CONSTANT MaxEvents     \* model bound: taps that settle the call, drops, kills

ASSUME HistoryAssumption == MaxEvents \in Nat

VARIABLES
    video,      \* call.isvideocall
    hist,       \* hist[x]: STATUS in the history document of user x
    recent,     \* recent[x]: the document recent/callended of user x exists
    pushed,     \* history: the pushes its triggers sent
    queue,      \* queue[x]: the writes client x has issued, oldest first
    applied,    \* applied[x]: the server has the first of them
    at,         \* at[x][h]: where handler h of client x goes on
    seen,       \* seen[x]: x's screen shows the peer's call as settled
    isalreadyendedcall,  \* of x's screen: whether ending leaves no record
    isPickedup, \* of x's screen: the peer joined
    screen,     \* screen[x]: the call screen of x
    channel,    \* channel[x]: x in the Agora channel
    remote,     \* remote[x]: x was told that the peer is in the channel
    rings,      \* PickupScreen is in front of the receiver
    announced,  \* the documents of the module Calls exist
    settling,   \* history: users who tapped to end or to reject the call
    late,       \* history: the call was settled too early
    killed,     \* history: users whose app was killed
    events      \* such events so far, to bound the model

server  == <<hist, recent, pushed>>
writes  == <<queue, applied, seen>>
flags   == <<isalreadyendedcall, isPickedup>>
agora   == <<channel, remote>>
pickup  == <<rings, announced>>
history == <<settling, late, killed>>

vars == <<video, server, writes, at, flags, screen, agora, pickup, history,
          events>>

Users    == {"caller", "receiver"}
Handlers == {"join", "pick", "offline", "end", "reject"}
Terminal == {"ended", "rejected"}
Statuses == {"none", "calling", "missedcall", "pickedup"} \cup Terminal
Stages   == {"none", "record", "receiver", "unsignal", "tell", "pop", "delay",
             "signal"}

Peer(x) == IF x = "caller" THEN "receiver" ELSE "caller"

\* A write: STATUS := s in the history of user x, or recent/callended of x
\* set or deleted, or the deletes of endCall; whether handler h awaits it.
Writes == [do: {"status", "signal", "unsignal", "endCall"}, of: Users, as: Statuses,
           by: Handlers, ack: BOOLEAN]

\* Mutant: a status that no reader knows.
StatusMisspelt(h, x, s) ==
    [do |-> "status", of |-> x, as |-> IF s = "pickedup" THEN "picked" ELSE s,
     by |-> h, ack |-> TRUE]

Status(h, x, s) ==
    [do |-> "status", of |-> x, as |-> s, by |-> h, ack |-> TRUE]
Signal(h, x) ==
    [do |-> "signal", of |-> x, as |-> "none", by |-> h, ack |-> TRUE]
Unsignal(h, x) ==
    [do |-> "unsignal", of |-> x, as |-> "none", by |-> h, ack |-> TRUE]
EndCall(h, x) ==
    [do |-> "endCall", of |-> x, as |-> "none", by |-> h, ack |-> TRUE]
Unawaited(w) == [w EXCEPT !.ack = FALSE]

TypeOK ==
    /\ video \in BOOLEAN
    /\ hist \in [Users -> Statuses]
    /\ recent \in [Users -> BOOLEAN]
    /\ pushed \in SUBSET (Users \X {"first", "again"})
    /\ queue \in [Users -> Seq(Writes)]
    /\ applied \in [Users -> BOOLEAN]
    /\ at \in [Users -> [Handlers -> Stages]]
    /\ seen \in [Users -> BOOLEAN]
    /\ isalreadyendedcall \in [Users -> BOOLEAN]
    /\ isPickedup \in [Users -> BOOLEAN]
    /\ screen \in [Users -> {"none", "open", "closed"}]
    /\ channel \in [Users -> {"out", "in", "dropped"}]
    /\ remote \in [Users -> BOOLEAN]
    /\ rings \in BOOLEAN /\ announced \in BOOLEAN /\ late \in BOOLEAN
    /\ settling \in SUBSET Users /\ killed \in SUBSET Users
    /\ events \in Nat

\* CallUtils.dial is done: the caller's screen is up, the receiver's phone
\* rings; earlier calls have left their callended documents.
Init ==
    /\ video \in BOOLEAN
    /\ hist = [x \in Users |-> "none"]
    /\ recent = [x \in Users |-> TRUE]
    /\ pushed = {}
    /\ queue = [x \in Users |-> <<>>]
    /\ applied = [x \in Users |-> FALSE]
    /\ at = [x \in Users |-> [h \in Handlers |-> "none"]]
    /\ seen = [x \in Users |-> FALSE]
    /\ isalreadyendedcall = [x \in Users |-> FALSE]
    /\ isPickedup = [x \in Users |-> FALSE]
    /\ screen = [x \in Users |-> IF x = "caller" THEN "open" ELSE "none"]
    /\ channel = [x \in Users |-> "out"]
    /\ remote = [x \in Users |-> FALSE]
    /\ rings = TRUE /\ announced = TRUE
    /\ settling = {} /\ late = FALSE /\ killed = {}
    /\ events = 0

Event == events < MaxEvents /\ events' = events + 1

-----------------------------------------------------------------------------
Awaits(x, h) == \E i \in 1..Len(queue[x]) : queue[x][i].by = h /\ queue[x][i].ack
Idle(x, h)   == at[x][h] = "none" /\ ~Awaits(x, h)

Goto(x, h, s) == at' = [at EXCEPT ![x][h] = s]

\* The caller's client has a record of its callbacks to complete.
Opening == \E h \in {"join", "pick"} : ~Idle("caller", h)

\* The receiver's client is recording, in onUserOffline, that the caller left.
Recording ==
    \/ at["receiver"]["offline"] # "none"
    \/ \E i \in 1..Len(queue["receiver"]) : queue["receiver"][i].by = "offline"

\* Whether x's screen shows the peer's call as settled: the writes in q on
\* top of what was there, b.
Shown(q, x, b) ==
    LET own == {i \in 1..Len(q) : q[i].do = "status" /\ q[i].of = Peer(x)}
    IN  IF own = {} THEN b
        ELSE q[CHOOSE i \in own : \A j \in own : j <= i].as \in Terminal

\* Client x issues the writes ws.
Issue(x, ws) ==
    /\ queue' = [queue EXCEPT ![x] = @ \o ws]
    /\ seen' = [seen EXCEPT ![x] = Shown(ws, x, @)]
    /\ UNCHANGED applied

\* The first write of client x is acknowledged to handler h, at stage s,
\* which issues the writes ws in turn.
Resume(x, h, s, ws) ==
    /\ at[x][h] = s
    /\ applied[x] /\ Head(queue[x]).by = h /\ Head(queue[x]).ack
    /\ applied' = [applied EXCEPT ![x] = FALSE]
    /\ queue' = [queue EXCEPT ![x] = Tail(@) \o ws]
    /\ seen' = [seen EXCEPT ![x] = Shown(ws, x, @)]

-----------------------------------------------------------------------------
(***************************************************************************)
(* Agora's callbacks.                                                      *)
(***************************************************************************)

\* onJoinChannelSuccess: the caller opens both histories.
OnJoinChannelSuccess(x) ==
    /\ screen[x] = "open" /\ channel[x] = "out"
    /\ channel' = [channel EXCEPT ![x] = "in"]
    /\ IF x = "caller"
       THEN /\ Issue(x, <<Status("join", "caller", "calling")>>)
            /\ Goto(x, "join", "receiver")
            /\ late' = (late \/ settling # {} \/ Recording)
       ELSE UNCHANGED <<writes, at, late>>
    /\ UNCHANGED <<video, server, flags, screen, remote, pickup, settling,
                   killed, events>>

\* onUserJoined: the caller records that the call was answered.
OnUserJoined(x) ==
    /\ channel[x] = "in" /\ channel[Peer(x)] = "in" /\ ~remote[x]
    /\ remote' = [remote EXCEPT ![x] = TRUE]
    /\ isPickedup' = [isPickedup EXCEPT ![x] = TRUE]
    /\ IF x = "caller"
       THEN /\ Idle(x, "pick")
            /\ Issue(x, <<Status("pick", "caller", "pickedup")>>)
            /\ Goto(x, "pick", "receiver")
            /\ late' = (late \/ settling # {} \/ Recording)
       ELSE UNCHANGED <<writes, at, late>>
    /\ UNCHANGED <<video, server, isalreadyendedcall, screen, channel, pickup,
                   settling, killed, events>>

\* Mutant: whoever stays in the channel leaves the record to the other.
OnUserOfflineSilent(x) ==
    /\ channel[x] = "in" /\ channel[Peer(x)] # "in" /\ remote[x]
    /\ remote' = [remote EXCEPT ![x] = FALSE]
    /\ UNCHANGED <<video, server, writes, at, flags, screen, channel, pickup,
                   history, events>>

\* onUserOffline: whoever stays in the channel records the end.  A video
\* call awaits the first write before the second, an audio call does not.
OnUserOffline(x) ==
    LET first  == Status("offline", "caller", "ended")
        second == Status("offline", "receiver", "ended")
    IN
    /\ channel[x] = "in" /\ channel[Peer(x)] # "in" /\ remote[x]
    /\ remote' = [remote EXCEPT ![x] = FALSE]
    /\ \/ /\ isalreadyendedcall[x]
          /\ UNCHANGED <<writes, at, late>>
       \/ /\ ~isalreadyendedcall[x]
          /\ \/ /\ ~video
                /\ Issue(x, <<Unawaited(first), Unawaited(second)>>)
                /\ UNCHANGED at
             \/ /\ video /\ Idle(x, "offline")
                /\ Issue(x, <<first>>)
                /\ Goto(x, "offline", "receiver")
          /\ late' = (late \/ (x = "receiver" /\ Opening))
    /\ UNCHANGED <<video, server, flags, screen, channel, pickup, settling,
                   killed, events>>

\* The second write of a callback, to the receiver's history.
CallbackReceiver(x) ==
    /\ \E h \in {"join", "pick", "offline"} :
          LET s == CASE h = "join" -> "missedcall"
                     [] h = "pick" -> "pickedup"
                     [] h = "offline" -> "ended"
          IN  /\ Resume(x, h, "receiver", <<Status(h, "receiver", s)>>)
              /\ Goto(x, h, "none")
    /\ UNCHANGED <<video, server, flags, screen, agora, pickup, history,
                   events>>

\* The connection of x to the channel is lost, and restored by the engine.
Drop(x) ==
    /\ channel[x] = "in" /\ channel' = [channel EXCEPT ![x] = "dropped"]
    /\ Event
    /\ UNCHANGED <<video, server, writes, at, flags, screen, remote, pickup,
                   history>>

Rejoin(x) ==
    /\ channel[x] = "dropped" /\ channel' = [channel EXCEPT ![x] = "in"]
    /\ UNCHANGED <<video, server, writes, at, flags, screen, remote, pickup,
                   history, events>>

-----------------------------------------------------------------------------
(***************************************************************************)
(* PickupScreen.                                                           *)
(***************************************************************************)

\* x taps to settle the call.  It is too early if the caller has yet to open
\* or is still to complete a record of its callbacks, except that the
\* caller's own records of the end come after those of its callbacks.
Settle(x) ==
    /\ settling' = settling \cup {x}
    /\ late' = \/ late
               \/ /\ x = "receiver" \/ seen[x]
                  /\ hist["receiver"] = "none" \/ Opening
    /\ UNCHANGED killed
    /\ Event

\* The green button: the call screen, behind which the ring is hidden.
Accept ==
    /\ rings /\ screen["receiver"] = "none"
    /\ screen' = [screen EXCEPT !["receiver"] = "open"]
    /\ rings' = FALSE
    /\ UNCHANGED <<video, server, writes, at, flags, agora, announced, history,
                   events>>

\* The red button; PickupScreen stays until the call's documents are deleted.
Reject ==
    /\ rings /\ Idle("receiver", "reject")
    /\ Issue("receiver", <<EndCall("reject", "receiver")>>)
    /\ Goto("receiver", "reject", "record")
    /\ Settle("receiver")
    /\ UNCHANGED <<video, server, flags, screen, agora, pickup>>

RejectRecord ==
    /\ Resume("receiver", "reject", "record",
              <<Unawaited(Status("reject", "caller", "rejected")),
                Unawaited(Status("reject", "receiver", "rejected")),
                Unsignal("reject", "caller")>>)
    /\ Goto("receiver", "reject", "delay")
    /\ UNCHANGED <<video, server, flags, screen, agora, pickup, history, events>>

RejectDelay ==
    /\ Resume("receiver", "reject", "delay", <<>>)
    /\ Goto("receiver", "reject", "signal")
    /\ UNCHANGED <<video, server, flags, screen, agora, pickup, history, events>>

\* Mutant: recent/callended is deleted and not set again.
RejectSignalLost ==
    /\ at["receiver"]["reject"] = "signal"
    /\ Goto("receiver", "reject", "none")
    /\ UNCHANGED <<video, server, writes, flags, screen, agora, pickup, history,
                   events>>

\* A moment later (Future.delayed) the caller is told.
RejectSignal ==
    /\ at["receiver"]["reject"] = "signal"
    /\ Issue("receiver", <<Signal("reject", "caller")>>)
    /\ Goto("receiver", "reject", "none")
    /\ UNCHANGED <<video, server, flags, screen, agora, pickup, history, events>>

\* The call's documents are gone and the receiver's phone stops ringing.
Silence ==
    /\ rings /\ ~announced /\ rings' = FALSE
    /\ UNCHANGED <<video, server, writes, at, flags, screen, agora, announced,
                   history, events>>

-----------------------------------------------------------------------------
(***************************************************************************)
(* _onCallEnd.                                                             *)
(***************************************************************************)

\* The end button: the status on display decides what isalreadyendedcall is.
OnCallEnd(x) ==
    /\ screen[x] = "open" /\ Idle(x, "end")
    /\ isalreadyendedcall' = [isalreadyendedcall EXCEPT
                                ![x] = seen[x]]
    /\ Issue(x, <<EndCall("end", x)>>)
    /\ Goto(x, "end", "record")
    /\ Settle(x)
    /\ UNCHANGED <<video, server, isPickedup, screen, agora, pickup>>

\* Navigator.pop; dispose leaves the channel.
Pop(x) ==
    /\ screen' = [screen EXCEPT ![x] = "closed"]
    /\ channel' = [channel EXCEPT ![x] = "out"]
    /\ remote' = [remote EXCEPT ![x] = FALSE]

EndRecord(x) ==
    /\ \/ /\ isalreadyendedcall[x]
          /\ Resume(x, "end", "record", <<>>)
          /\ Pop(x) /\ Goto(x, "end", "none")
       \/ /\ ~isalreadyendedcall[x]
          /\ Resume(x, "end", "record", <<Status("end", "caller", "ended")>>)
          /\ Goto(x, "end", "receiver")
          /\ UNCHANGED <<screen, agora>>
    /\ UNCHANGED <<video, server, flags, pickup, history, events>>

\* Mutant: the receiver's history is left to the receiver.
EndReceiverSkipped(x) ==
    /\ Resume(x, "end", "receiver", <<Status("end", "caller", "ended")>>)
    /\ Goto(x, "end", "unsignal")
    /\ UNCHANGED <<video, server, flags, screen, agora, pickup, history, events>>

EndReceiver(x) ==
    /\ Resume(x, "end", "receiver", <<Status("end", "receiver", "ended")>>)
    /\ Goto(x, "end", "unsignal")
    /\ UNCHANGED <<video, server, flags, screen, agora, pickup, history, events>>

EndUnsignal(x) ==
    /\ Resume(x, "end", "unsignal", <<Unsignal("end", x)>>)
    /\ Goto(x, "end", "tell")
    /\ UNCHANGED <<video, server, flags, screen, agora, pickup, history, events>>

\* An unanswered call: the caller signals the receiver; the receiver first
\* removes the caller's document, to signal after the screen is closed.
EndTell(x) ==
    /\ \/ /\ isPickedup[x]
          /\ Resume(x, "end", "tell", <<>>)
          /\ Pop(x) /\ Goto(x, "end", "none")
       \/ /\ ~isPickedup[x]
          /\ Resume(x, "end", "tell",
                    <<IF x = "caller" THEN Signal("end", "receiver")
                      ELSE Unsignal("end", "caller")>>)
          /\ Goto(x, "end", "pop")
          /\ UNCHANGED <<screen, agora>>
    /\ UNCHANGED <<video, server, flags, pickup, history, events>>

EndPop(x) ==
    /\ Resume(x, "end", "pop", <<>>)
    /\ Pop(x)
    /\ Goto(x, "end", IF x = "caller" THEN "none" ELSE "signal")
    /\ UNCHANGED <<video, server, flags, pickup, history, events>>

EndSignal(x) ==
    /\ at[x]["end"] = "signal"
    /\ Issue(x, <<Signal("end", "caller")>>)
    /\ Goto(x, "end", "none")
    /\ UNCHANGED <<video, server, flags, screen, agora, pickup, history, events>>

-----------------------------------------------------------------------------
(***************************************************************************)
(* Firestore and its triggers.                                             *)
(***************************************************************************)

\* The oldest write of client x reaches the server.  callRejectedFirstTime
\* pushes when recent/callended is created, callRejectedNotFirstTime when it
\* is changed.
Apply(x) ==
    LET w == Head(queue[x]) IN
    /\ queue[x] # <<>> /\ ~applied[x]
    /\ applied' = [applied EXCEPT ![x] = TRUE]
    /\ \/ /\ w.do = "status"
          /\ hist' = [hist EXCEPT ![w.of] = w.as]
          /\ UNCHANGED <<recent, pushed, announced>>
       \/ /\ w.do = "signal"
          /\ recent' = [recent EXCEPT ![w.of] = TRUE]
          /\ pushed' = pushed \cup
                          {<<w.of, IF recent[w.of] THEN "again" ELSE "first">>}
          /\ UNCHANGED <<hist, announced>>
       \/ /\ w.do = "unsignal"
          /\ recent' = [recent EXCEPT ![w.of] = FALSE]
          /\ UNCHANGED <<hist, pushed, announced>>
       \/ /\ w.do = "endCall"
          /\ announced' = FALSE
          /\ UNCHANGED server
    /\ UNCHANGED <<video, queue, seen, at, flags, screen, agora, rings, history,
                   events>>

\* A write that no handler waits for is acknowledged.
Acknowledge(x) ==
    LET w == Head(queue[x]) IN
    /\ applied[x] /\ (~w.ack \/ at[x][w.by] = "none")
    /\ applied' = [applied EXCEPT ![x] = FALSE]
    /\ queue' = [queue EXCEPT ![x] = Tail(@)]
    /\ UNCHANGED <<video, server, seen, at, flags, screen, agora, pickup,
                   history, events>>

\* A snapshot of the peer's history reaches x's screen.
Deliver(x) ==
    LET s == Shown(queue[x], x, hist[Peer(x)] \in Terminal) IN
    /\ screen[x] = "open" /\ seen[x] # s
    /\ seen' = [seen EXCEPT ![x] = s]
    /\ UNCHANGED <<video, server, queue, applied, at, flags, screen, agora,
                   pickup, history, events>>

\* The app of x is killed: its handlers are gone, the writes it issued are
\* not, and may yet hide what the other client records.
Kill(x) ==
    /\ x \notin killed /\ killed' = killed \cup {x}
    /\ late' = (late \/ queue[x] # <<>>)
    /\ at' = [at EXCEPT ![x] = [h \in Handlers |-> "none"]]
    /\ Pop(x)
    /\ rings' = (rings /\ x # "receiver")
    /\ Event
    /\ UNCHANGED <<video, server, writes, flags, announced, settling>>

EndStep(x) ==
    EndRecord(x) \/ EndReceiver(x) \/ EndUnsignal(x) \/ EndTell(x) \/ EndPop(x)
    \/ EndSignal(x)
RejectStep == RejectRecord \/ RejectDelay \/ RejectSignal

Next ==
    \/ \E x \in Users :
          \/ OnJoinChannelSuccess(x) \/ OnUserJoined(x) \/ OnUserOffline(x)
          \/ Drop(x) \/ Rejoin(x) \/ CallbackReceiver(x)
          \/ OnCallEnd(x) \/ EndStep(x)
          \/ Apply(x) \/ Acknowledge(x) \/ Deliver(x) \/ Kill(x)
    \/ Accept \/ Reject \/ RejectStep \/ Silence

Spec == Init /\ [][Next]_vars

\* Handlers go on, writes arrive, Agora calls back; nobody taps a button.
Fairness ==
    /\ \A x \in Users :
          /\ WF_vars(OnUserOffline(x)) /\ WF_vars(CallbackReceiver(x))
          /\ WF_vars(EndStep(x))
          /\ WF_vars(Apply(x)) /\ WF_vars(Acknowledge(x))
    /\ WF_vars(RejectStep)

FairSpec == Spec /\ Fairness
-----------------------------------------------------------------------------
(***************************************************************************)
(* Properties.                                                             *)
(***************************************************************************)

Quiet(x) == queue[x] = <<>> /\ \A h \in Handlers : Idle(x, h)

\* A call that is over is recorded as over: when both screens are closed and
\* nothing is in flight, neither history says calling, missedcall or
\* pickedup, although no write looks at what it replaces and an end that the
\* screen already shows is not recorded again.  Excepted are calls of which
\* an app was killed, and calls that were settled too early: before they
\* were opened or, at the caller, answered, or when the receiver recorded
\* that the caller left while the caller was recording one of these.
OverIsRecorded ==
    ( /\ \A x \in Users : Quiet(x) /\ screen[x] # "open"
      /\ ~rings /\ ~late /\ killed = {} )
    => \A x \in Users : hist[x] \in Terminal

\* If one app is killed during an answered call, the other's onUserOffline
\* records the end in both histories, unless writes of the killed app were
\* still in flight.
KilledIsRecorded ==
    \A x \in Users :
        [](killed = {x} /\ remote[Peer(x)] /\ channel[Peer(x)] = "in"
           => <>( \/ \A y \in Users : hist[y] \in Terminal
                  \/ late \/ killed = Users \/ channel[Peer(x)] # "in"))

\* A rejection is pushed to the caller as such (callended is created, never
\* merely changed), unless the app that rejected is killed.
RejectionIsTold ==
    [](at["receiver"]["reject"] = "record" =>
          <>(<<"caller", "first">> \in pushed \/ "receiver" \in killed))
=============================================================================
