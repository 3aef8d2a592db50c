------------------------------- MODULE Calls --------------------------------
(***************************************************************************)
(* Signalling of one-to-one calls.  A call is announced by two documents,  *)
(* call/{caller} with hasDialled = true and call/{receiver} with           *)
(* hasDialled = false; the receiver's PickupLayout listens to its own and  *)
(* rings; either side ends the call by deleting both.  The documents have  *)
(* one slot per user, carry no lock and are deleted without a look at      *)
(* whose call they announce, so calls that share a user interfere.         *)
(*                                                                         *)
(* Every await of a handler ends a step.  Audio and video calls have the   *)
(* same control.  The history of a call (callhistory) is not modelled      *)
(* here, nor its status, which decides when a screen may float.            *)
(***************************************************************************)
EXTENDS Naturals

CONSTANTS
    Users,        \* phone numbers, the ids of the call documents
    Calls,        \* calls, identified by their timeepoch
    NoCall,       \* the call of a document that does not exist
    MaxEvents     \* model bound: taps of users and kills of apps

ASSUME CallsAssumption == NoCall \notin Calls /\ MaxEvents \in Nat

VARIABLES
    info,        \* info[c]: the two parties of call c
    dial,        \* dial[c]: the handler CallUtils.dial of call c
    end,         \* end[c][u]: the handler with which u ends or rejects c
    box,         \* box[u]: the document call/u on the server
    seen,        \* seen[u]: the last snapshot of it at u's client
    screens,     \* screens[u]: the call screens on u's navigators
    ongoing,     \* ongoing[u]: observer.isOngoingCall of u's app
    left,        \* left[u]: writes that killed apps of u's left on disk
    overlapped,  \* history: calls that shared a user with another live call
    abandoned,   \* history: calls whose caller lost them without ending them
    torn,        \* history: users one of whose call screens was torn down
    events       \* taps and kills so far, to bound the model

history == <<overlapped, abandoned, torn>>

vars == <<info, dial, end, box, seen, screens, ongoing, left, overlapped,
          abandoned, torn, events>>

Parties == {p \in [caller: Users, receiver: Users] : p.caller # p.receiver}

\* Call.toMap: its timeepoch names the call; the rest is in info.
Doc  == [call: Calls \cup {NoCall}, hasDialled: BOOLEAN]
None == [call |-> NoCall, hasDialled |-> FALSE]

\* A write of a handler of call `call`: the new document call/to, or None.
DocWrite == [call: Calls, to: Users, doc: Doc]

\* A call screen: the navigator it was pushed on, named by the call screens
\* (PIPView) that this navigator lies inside, and how high it was pushed.
Screen == [call: Calls, nav: SUBSET Calls, at: Nat]

DialSteps == {"new", "token", "setCaller", "setReceiver", "push", "done"}
EndSteps  == {"none", "delCaller", "delReceiver", "close", "pop", "done"}

TypeOK ==
    /\ info \in [Calls -> Parties]
    /\ dial \in [Calls -> [step: DialSteps, page: SUBSET Calls]]
    /\ end \in [Calls -> [Users -> [step: EndSteps, hang: BOOLEAN]]]
    /\ box \in [Users -> Doc]
    /\ seen \in [Users -> Doc]
    /\ screens \in [Users -> SUBSET Screen]
    /\ ongoing \in [Users -> BOOLEAN]
    /\ left \in [Users -> SUBSET DocWrite]
    /\ overlapped \in SUBSET Calls
    /\ abandoned \in SUBSET Calls
    /\ torn \in SUBSET Users
    /\ events \in Nat

Init ==
    /\ info \in [Calls -> Parties]
    /\ dial = [c \in Calls |-> [step |-> "new", page |-> {}]]
    /\ end = [c \in Calls |-> [u \in Users |-> [step |-> "none", hang |-> FALSE]]]
    /\ box = [u \in Users |-> None]
    /\ seen = [u \in Users |-> None]
    /\ screens = [u \in Users |-> {}]
    /\ ongoing = [u \in Users |-> FALSE]
    /\ left = [u \in Users |-> {}]
    /\ overlapped = {}
    /\ abandoned = {}
    /\ torn = {}
    /\ events = 0

\* A user taps a button, or the system kills an app.
Event == events < MaxEvents /\ events' = events + 1

-----------------------------------------------------------------------------
OnScreen(c, u) == \E s \in screens[u] : s.call = c
Ending(c, u)   == end[c][u].step \in {"delCaller", "delReceiver"}
Dialling(c)    == dial[c].step \notin {"new", "done"}

\* The document d makes PickupLayout show the PickupScreen of call c.
Invites(d, c) == d.call = c /\ ~d.hasDialled

\* What is left of call c anywhere.
Alive(c) ==
    \/ Dialling(c)
    \/ \E u \in Users :
          \/ OnScreen(c, u) \/ Ending(c, u)
          \/ Invites(box[u], c) \/ Invites(seen[u], c)
          \/ \E w \in left[u] : w.call = c

Shares(c, k) ==
    {info[c].caller, info[c].receiver} \cap {info[k].caller, info[k].receiver}
        # {}

\* The screen in front of those in S.
Top(S) == CHOOSE s \in S : \A t \in S : t.at <= s.at

\* The navigator of the page in front of u: the app's own, or the one below
\* the topmost call screen, floating as a picture in picture.
Page(u) == IF screens[u] = {} THEN {}
           ELSE Top(screens[u]).nav \cup {Top(screens[u]).call}

\* u shows the screen of call c, whose first frame sets isOngoingCall.
Show(c, u, page) ==
    LET at == IF screens[u] = {} THEN 0 ELSE Top(screens[u]).at + 1 IN
    /\ screens' = [screens EXCEPT
                     ![u] = @ \cup {[call |-> c, nav |-> page, at |-> at]}]
    /\ ongoing' = [ongoing EXCEPT ![u] = TRUE]

\* u's client writes call/v and, with latency compensation, sees its own
\* document change at once.
Apply(u, v, d) ==
    /\ box' = [box EXCEPT ![v] = d]
    /\ seen' = IF u = v THEN [seen EXCEPT ![v] = d] ELSE seen

\* The client sends writes in their order: those of a killed app come first.
Put(u, v, d) == left[u] = {} /\ Apply(u, v, d)

\* The screens in S disappear from u's navigators; those of calls other than
\* `own` are torn down without their _onCallEnd.
Dispose(u, S, own) ==
    LET lost == {s.call : s \in S} \ {own} IN
    /\ screens' = [screens EXCEPT ![u] = @ \ S]
    /\ torn' = IF lost = {} THEN torn ELSE torn \cup {u}
    /\ abandoned' = abandoned \cup {c \in lost : info[c].caller = u}

-----------------------------------------------------------------------------
(***************************************************************************)
(* CallUtils.dial and CallMethods.makeCall.                                *)
(***************************************************************************)
DialGoto(c, s) == dial' = [dial EXCEPT ![c].step = s]
DialDone(c) == dial' = [dial EXCEPT ![c] = [step |-> "done", page |-> {}]]

\* A dial button, hidden while isOngoingCall.
Dial(c) ==
    LET u     == info[c].caller
        rival == {k \in Calls \ {c} : Alive(k) /\ Shares(c, k)}
    IN
    /\ dial[c].step = "new"
    /\ ~ongoing[u]
    /\ dial' = [dial EXCEPT ![c] = [step |-> "token", page |-> Page(u)]]
    /\ overlapped' = IF rival = {} THEN overlapped
                     ELSE overlapped \cup rival \cup {c}
    /\ Event
    /\ UNCHANGED <<info, left, end, box, seen, screens, ongoing, abandoned, torn>>

\* makeCloudCall: a token and a channel, or "Failed to Dial Call".
MakeCloudCall(c) ==
    /\ dial[c].step = "token"
    /\ DialGoto(c, "setCaller") \/ DialDone(c)
    /\ UNCHANGED <<info, left, end, box, seen, screens, ongoing, history, events>>

MakeCallCaller(c) ==
    LET u == info[c].caller IN
    /\ dial[c].step = "setCaller"
    /\ \/ Put(u, u, [call |-> c, hasDialled |-> TRUE]) /\ DialGoto(c, "setReceiver")
       \/ DialDone(c) /\ UNCHANGED <<box, seen>>
    /\ UNCHANGED <<info, left, end, screens, ongoing, history, events>>

\* Mutant: the receiver is sent the caller's map.
MakeCallReceiverDialled(c) ==
    /\ dial[c].step = "setReceiver"
    /\ \/ /\ Put(info[c].caller, info[c].receiver,
                 [call |-> c, hasDialled |-> TRUE])
          /\ DialGoto(c, "push")
       \/ DialDone(c) /\ UNCHANGED <<box, seen>>
    /\ UNCHANGED <<info, left, end, screens, ongoing, history, events>>

\* A failure here leaves the caller's document behind.
MakeCallReceiver(c) ==
    /\ dial[c].step = "setReceiver"
    /\ \/ /\ Put(info[c].caller, info[c].receiver,
                 [call |-> c, hasDialled |-> FALSE])
          /\ DialGoto(c, "push")
       \/ DialDone(c) /\ UNCHANGED <<box, seen>>
    /\ UNCHANGED <<info, left, end, screens, ongoing, history, events>>

\* Navigator.push on the page that dialled; it throws if that page is gone.
PushCallScreen(c) ==
    LET u    == info[c].caller
        page == dial[c].page
    IN
    /\ dial[c].step = "push"
    /\ DialDone(c)
    /\ \/ /\ \A k \in page : OnScreen(k, u)
          /\ Show(c, u, page)
          /\ UNCHANGED abandoned
       \/ /\ abandoned' = abandoned \cup {c}
          /\ UNCHANGED <<screens, ongoing>>
    /\ UNCHANGED <<info, left, end, box, seen, overlapped, torn, events>>

-----------------------------------------------------------------------------
(***************************************************************************)
(* PickupLayout and PickupScreen.                                          *)
(***************************************************************************)

\* Mutant: only snapshots with data are looked at.
DeliverExisting(u) ==
    /\ seen[u] # box[u] /\ box[u] # None
    /\ seen' = [seen EXCEPT ![u] = box[u]]
    /\ UNCHANGED <<info, left, dial, end, box, screens, ongoing, history, events>>

\* callStream delivers the document.
Deliver(u) ==
    /\ seen[u] # box[u]
    /\ seen' = [seen EXCEPT ![u] = box[u]]
    /\ UNCHANGED <<info, left, dial, end, box, screens, ongoing, history, events>>

\* u's PickupLayout shows the PickupScreen of call c.
Rings(u, c) == ~ongoing[u] /\ Invites(seen[u], c)

\* Mutant: a document that was deleted is answered too.
AcceptAnything(u) ==
    /\ ~ongoing[u] /\ ~OnScreen(seen[u].call, u)
    /\ Show(seen[u].call, u, Page(u))
    /\ Event
    /\ UNCHANGED <<info, left, dial, end, box, seen, history>>

\* The green button: the screen of the call, whether or not it still exists.
\* The camera and the microphone are taken as granted to the app before.
Accept(u) ==
    /\ \E c \in Calls :
          /\ Rings(u, c) /\ ~OnScreen(c, u)
          /\ Show(c, u, Page(u))
    /\ Event
    /\ UNCHANGED <<info, left, dial, end, box, seen, history>>

\* The red button: endCall, without a call screen.
Reject(c, u) ==
    /\ Rings(u, c)
    /\ end[c][u].step \in {"none", "done"}
    /\ end' = [end EXCEPT ![c][u] = [step |-> "delCaller", hang |-> FALSE]]
    /\ Event
    /\ UNCHANGED <<info, left, dial, box, seen, screens, ongoing, history>>

-----------------------------------------------------------------------------
(***************************************************************************)
(* _onCallEnd of AudioCall and VideoCall, and CallMethods.endCall.         *)
(***************************************************************************)

\* The end button of the screen in front.
OnCallEnd(c, u) ==
    /\ screens[u] # {} /\ Top(screens[u]).call = c
    /\ end[c][u].step \in {"none", "done"}
    /\ end' = [end EXCEPT ![c][u] = [step |-> "delCaller", hang |-> TRUE]]
    /\ Event
    /\ UNCHANGED <<info, left, dial, box, seen, screens, ongoing, history>>

EndGoto(c, u, s) ==
    end' = [end EXCEPT ![c][u] = [step |-> s, hang |-> @.hang /\ s # "done"]]

\* endCall has returned; PickupScreen has nothing left to do.
AfterEndCall(c, u) == IF end[c][u].hang THEN "close" ELSE "done"

\* An exception in endCall is swallowed, and what was left to do not done.
EndCallFails(c, u) ==
    /\ EndGoto(c, u, AfterEndCall(c, u))
    /\ abandoned' = IF info[c].caller = u THEN abandoned \cup {c} ELSE abandoned
    /\ UNCHANGED <<box, seen>>

EndCallCaller(c, u) ==
    /\ end[c][u].step = "delCaller"
    /\ \/ /\ Put(u, info[c].caller, None)
          /\ EndGoto(c, u, "delReceiver")
          /\ UNCHANGED abandoned
       \/ EndCallFails(c, u)
    /\ UNCHANGED <<info, left, dial, screens, ongoing, overlapped, torn, events>>

\* Mutant: the second delete names the caller again.
EndCallReceiverTwice(c, u) ==
    /\ end[c][u].step = "delReceiver"
    /\ \/ /\ Put(u, info[c].caller, None)
          /\ EndGoto(c, u, AfterEndCall(c, u))
          /\ UNCHANGED abandoned
       \/ EndCallFails(c, u)
    /\ UNCHANGED <<info, left, dial, screens, ongoing, overlapped, torn, events>>

EndCallReceiver(c, u) ==
    /\ end[c][u].step = "delReceiver"
    /\ \/ /\ Put(u, info[c].receiver, None)
          /\ EndGoto(c, u, AfterEndCall(c, u))
          /\ UNCHANGED abandoned
       \/ EndCallFails(c, u)
    /\ UNCHANGED <<info, left, dial, screens, ongoing, overlapped, torn, events>>

\* Mutant: isOngoingCall is not reset.
CloseOngoing(c, u) ==
    /\ end[c][u].step = "close"
    /\ EndGoto(c, u, "pop")
    /\ UNCHANGED <<info, left, dial, box, seen, screens, ongoing, history, events>>

\* isOngoingCall is reset, whatever other call the app is in; then the
\* history is written, which takes until Pop.
Close(c, u) ==
    /\ end[c][u].step = "close"
    /\ ongoing' = [ongoing EXCEPT ![u] = FALSE]
    /\ EndGoto(c, u, "pop")
    /\ UNCHANGED <<info, left, dial, box, seen, screens, history, events>>

\* Navigator.pop, which removes the last screen of the navigator the call
\* screen is on, its own or not; it throws if the screen is gone by now.
Pop(c, u) ==
    LET own == CHOOSE s \in screens[u] : s.call = c
        top == Top({s \in screens[u] : s.nav = own.nav})
    IN
    /\ end[c][u].step = "pop"
    /\ EndGoto(c, u, "done")
    /\ IF OnScreen(c, u)
       THEN Dispose(u, {s \in screens[u] : s = top \/ top.call \in s.nav}, c)
       ELSE UNCHANGED <<screens, abandoned, torn>>
    /\ UNCHANGED <<info, left, dial, box, seen, ongoing, overlapped, events>>

\* A tap on a floating screen: it fills the display again, and the pages
\* below it, with the call screens on them, are disposed (pip_view).
StopFloating(u) ==
    /\ \E c \in Calls :
          LET inner == {s \in screens[u] : c \in s.nav} IN
          /\ inner # {}
          /\ Dispose(u, inner, NoCall)
    /\ Event
    /\ UNCHANGED <<info, left, dial, end, box, seen, ongoing, overlapped>>

-----------------------------------------------------------------------------
\* What u's app holds of call c.
Holds(c, u) ==
    \/ OnScreen(c, u) \/ Ending(c, u)
    \/ info[c].caller = u /\ Dialling(c)

\* The writes that handlers of u's app await.
Pending(u) ==
    {w \in DocWrite :
        LET c == w.call IN
        \/ /\ info[c].caller = u /\ dial[c].step = "setCaller"
           /\ w.to = u /\ w.doc = [call |-> c, hasDialled |-> TRUE]
        \/ /\ info[c].caller = u /\ dial[c].step = "setReceiver"
           /\ w.to = info[c].receiver /\ w.doc = [call |-> c, hasDialled |-> FALSE]
        \/ /\ end[c][u].step = "delCaller"
           /\ w.to = info[c].caller /\ w.doc = None
        \/ /\ end[c][u].step = "delReceiver"
           /\ w.to = info[c].receiver /\ w.doc = None}

\* The app is killed and started again: its handlers and screens are gone.
\* The writes they awaited are on disk (see Writes), if issued by then.
Crash(u) ==
    /\ Event
    /\ \E W \in SUBSET Pending(u) : left' = [left EXCEPT ![u] = @ \cup W]
    /\ dial' = [c \in Calls |-> IF info[c].caller = u /\ Dialling(c)
                                THEN [step |-> "done", page |-> {}] ELSE dial[c]]
    /\ end' = [c \in Calls |-> IF end[c][u].step = "none" THEN end[c]
                               ELSE [end[c] EXCEPT ![u] =
                                        [step |-> "done", hang |-> FALSE]]]
    /\ screens' = [screens EXCEPT ![u] = {}]
    /\ ongoing' = [ongoing EXCEPT ![u] = FALSE]
    /\ abandoned' = abandoned \cup {c \in Calls : info[c].caller = u /\ Holds(c, u)}
    /\ UNCHANGED <<info, box, seen, overlapped, torn>>

\* The client of u's new app sends a write that a killed one left on disk.
Resend(u) ==
    /\ \E w \in left[u] :
          Apply(u, w.to, w.doc) /\ left' = [left EXCEPT ![u] = @ \ {w}]
    /\ UNCHANGED <<info, dial, end, screens, ongoing, history, events>>

\* The next step of a handler of dial ...
DialStep(c) ==
    \/ MakeCloudCall(c)
    \/ MakeCallCaller(c)
    \/ MakeCallReceiver(c)
    \/ PushCallScreen(c)

\* ... and of one that ends a call.
EndStep(c, u) ==
    \/ EndCallCaller(c, u)
    \/ EndCallReceiver(c, u)
    \/ Close(c, u)
    \/ Pop(c, u)

Next ==
    \/ \E c \in Calls : Dial(c) \/ DialStep(c)
    \/ \E c \in Calls : \E u \in Users :
          Reject(c, u) \/ OnCallEnd(c, u) \/ EndStep(c, u)
    \/ \E u \in Users :
          Deliver(u) \/ Accept(u) \/ StopFloating(u) \/ Crash(u) \/ Resend(u)

Spec == Init /\ [][Next]_vars

\* Requests in flight are answered, if only by an error, listeners are told
\* of changes and clients send what is on disk; nobody has to tap a button.
Fairness ==
    /\ \A c \in Calls : WF_vars(DialStep(c))
    /\ \A c \in Calls : \A u \in Users : WF_vars(EndStep(c, u))
    /\ \A u \in Users : WF_vars(Deliver(u)) /\ WF_vars(Resend(u))

FairSpec == Spec /\ Fairness
-----------------------------------------------------------------------------
(***************************************************************************)
(* Properties.                                                             *)
(***************************************************************************)

\* An invitation on the server (the document a receiver rings for) belongs
\* to a caller who is still in the call or is about to delete it, unless the
\* caller's app lost the call: it was killed, a delete of endCall failed, the
\* page that dialled was left, or another call's Navigator.pop or the
\* floating window tore its screen down.
RingIsLive ==
    \A c \in Calls : \A u \in Users :
        Invites(box[u], c) =>
            LET v == info[c].caller IN
            \/ dial[c].step = "push" \/ OnScreen(c, v) \/ Ending(c, v)
            \/ c \in abandoned

\* Nobody is deaf: isOngoingCall, which hides PickupScreen and the dial
\* buttons, is set only while a call screen is there to reset it, unless the
\* screen of another call was torn down without its _onCallEnd.
OngoingIsOnScreen ==
    \A u \in Users :
        ongoing[u] => \/ screens[u] # {}
                      \/ u \in torn

\* While a caller waits and nobody has ended or rejected the call, the
\* receiver's invitation is there, if the call overlapped with no other call
\* of its two users, one that left writes on the disk of a killed app
\* included.  (If it did, the other's endCall or makeCall may have removed it.)
RingsUntilSettled ==
    \A c \in Calls \ overlapped :
        ( /\ dial[c].step = "push" \/ OnScreen(c, info[c].caller)
          /\ \A u \in Users : end[c][u].step = "none" )
        => Invites(box[info[c].receiver], c)

\* A call that its caller ends stops ringing at the receiver, for good,
\* unless the caller's app lost the call.
HangUpSilences ==
    \A c \in Calls :
        [](Ending(c, info[c].caller) =>
              <>[](~Rings(info[c].receiver, c) \/ c \in abandoned))
=============================================================================
