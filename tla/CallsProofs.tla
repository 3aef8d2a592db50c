---------------------------- MODULE CallsProofs -----------------------------
(***************************************************************************)
(* Proofs about Calls, for any number of users and calls: its types; that  *)
(* an invitation on the server is the one of a live call, and is there     *)
(* while its caller waits; that nobody is left deaf to calls.              *)
(***************************************************************************)
EXTENDS Calls, WellFoundedInduction, TLAPS

\* A non-empty set of screens that are pushed at bounded heights has a topmost
\* one, so that the page a user looks at is well defined.
LEMMA TopExists ==
    ASSUME NEW S, S # {}, \A s \in S : s.at \in Nat,
           NEW n \in Nat, \A s \in S : s.at <= n
    PROVE  Top(S) \in S /\ \A t \in S : t.at <= Top(S).at
<1> DEFINE B == {k \in Nat : \A s \in S : s.at <= k}
           R == OpToRel(<, Nat)
<1>1. PICK m \in B : \A k \in B : ~(<<k, m>> \in R)
  <2>1. B \subseteq Nat /\ B # {}
    OBVIOUS
  <2> HIDE DEF B, R
  <2>2. IsWellFoundedOn(R, Nat)
    BY NatLessThanWellFounded DEF R
  <2> QED BY <2>1, <2>2, WFMin
<1>2. \A k \in B : ~(k < m)
  BY <1>1 DEF OpToRel
<1>3. m \in Nat /\ \A s \in S : s.at <= m
  OBVIOUS
<1> HIDE DEF R
<1>5. \E s \in S : s.at = m
  <2> SUFFICES ASSUME \A s \in S : s.at # m PROVE FALSE
    OBVIOUS
  <2>1. \A s \in S : s.at < m
    BY <1>3
  <2>2. m - 1 \in Nat /\ \A s \in S : s.at <= m - 1
    BY <1>3, <2>1
  <2>3. m - 1 \in B /\ m - 1 < m
    BY <1>3, <2>2
  <2> QED BY <1>2, <2>3
<1>4. \E s \in S : \A t \in S : t.at <= s.at
  BY <1>3, <1>5
<1> QED BY <1>4 DEF Top

-----------------------------------------------------------------------------
(***************************************************************************)
(* Types.  The heights of the screens of a user are bounded.               *)
(***************************************************************************)
Bounded == \A u \in Users : \E n \in Nat : \A s \in screens[u] : s.at <= n
Typed   == TypeOK /\ Bounded

\* The page in front of a user lies inside call screens.
LEMMA PageType ==
    ASSUME Typed, NEW u \in Users
    PROVE  /\ Page(u) \in SUBSET Calls
           /\ screens[u] # {} => Top(screens[u]) \in screens[u]
           /\ \A s \in screens[u] : s.at <= Top(screens[u]).at
<1>1. screens[u] \in SUBSET Screen
  BY DEF Typed, TypeOK
<1>2. PICK n \in Nat : \A s \in screens[u] : s.at <= n
  BY DEF Typed, Bounded
<1>3. \A s \in screens[u] : s.at \in Nat
  BY <1>1 DEF Screen
<1>4. CASE screens[u] = {}
  BY <1>4 DEF Page
<1>5. CASE screens[u] # {}
  <2>1. Top(screens[u]) \in screens[u] /\ \A s \in screens[u] : s.at <= Top(screens[u]).at
    BY <1>2, <1>3, <1>5, TopExists
  <2>2. Top(screens[u]) \in Screen
    BY <2>1, <1>1
  <2>3. Page(u) \in SUBSET Calls
    BY <2>2, <1>5 DEF Page, Screen
  <2> QED BY <2>1, <2>3
<1> QED BY <1>4, <1>5

\* Showing a call screen keeps the types of screens and flags.
LEMMA ShowType ==
    ASSUME Typed, NEW c \in Calls, NEW u \in Users, NEW page \in SUBSET Calls,
           Show(c, u, page)
    PROVE  /\ screens' \in [Users -> SUBSET Screen]
           /\ ongoing' \in [Users -> BOOLEAN]
           /\ Bounded'
<1> DEFINE at == IF screens[u] = {} THEN 0 ELSE Top(screens[u]).at + 1
           new == [call |-> c, nav |-> page, at |-> at]
<1>1. at \in Nat /\ \A s \in screens[u] : s.at <= at
  <2>1. screens[u] \in SUBSET Screen
    BY DEF Typed, TypeOK
  <2>2. CASE screens[u] = {}
    BY <2>2
  <2>3. CASE screens[u] # {}
    <3>1. Top(screens[u]) \in screens[u]
      BY <2>3, PageType
    <3>2. Top(screens[u]).at \in Nat
      BY <3>1, <2>1 DEF Screen
    <3>3. \A s \in screens[u] : s.at \in Nat /\ s.at <= Top(screens[u]).at
      BY <2>1, PageType DEF Screen
    <3> QED BY <2>3, <3>2, <3>3
  <2> QED BY <2>2, <2>3
<1>2. new \in Screen /\ new.at = at
  BY <1>1 DEF Screen
<1>3. screens' = [screens EXCEPT ![u] = @ \cup {new}] /\ ongoing' = [ongoing EXCEPT ![u] = TRUE]
  BY DEF Show
<1> HIDE DEF at, new
<1>4. screens' \in [Users -> SUBSET Screen] /\ ongoing' \in [Users -> BOOLEAN]
  BY <1>2, <1>3 DEF Typed, TypeOK
<1>5. ASSUME NEW v \in Users PROVE \E n \in Nat : \A s \in screens'[v] : s.at <= n
  <2>1. CASE v = u
    <3>1. \A s \in screens'[u] : s.at <= at
      BY <1>1, <1>2, <1>3 DEF Typed, TypeOK
    <3> QED BY <3>1, <2>1, <1>1
  <2>2. CASE v # u
    BY <2>2, <1>3 DEF Typed, TypeOK, Bounded
  <2> QED BY <2>1, <2>2
<1> QED BY <1>4, <1>5 DEF Bounded

\* Disposing of call screens keeps the types.
LEMMA DisposeType ==
    ASSUME Typed, NEW u \in Users, NEW S \in SUBSET screens[u], NEW own,
           Dispose(u, S, own)
    PROVE  /\ screens' \in [Users -> SUBSET Screen]
           /\ torn' \in SUBSET Users
           /\ abandoned' \in SUBSET Calls
           /\ Bounded'
<1>1. screens' \in [Users -> SUBSET Screen] /\ \A v \in Users : screens'[v] \subseteq screens[v]
  BY DEF Typed, TypeOK, Dispose
<1>2. torn' \in SUBSET Users
  BY DEF Typed, TypeOK, Dispose
<1>3. {s.call : s \in S} \subseteq Calls
  BY DEF Typed, TypeOK, Screen
<1>4. abandoned' \in SUBSET Calls
  BY <1>3 DEF Typed, TypeOK, Dispose
<1>5. Bounded'
  BY <1>1 DEF Typed, Bounded
<1> QED BY <1>1, <1>2, <1>4, <1>5

\* So does writing a document.
LEMMA PutType ==
    ASSUME Typed, NEW u \in Users, NEW v \in Users, NEW d \in Doc, Put(u, v, d)
    PROVE  box' \in [Users -> Doc] /\ seen' \in [Users -> Doc]
BY DEF Typed, TypeOK, Put, Apply

\* And so do the handlers' own steps.
LEMMA GotoType ==
    ASSUME Typed, NEW c \in Calls, NEW u \in Users
    PROVE  /\ \A s \in DialSteps : DialGoto(c, s) =>
                dial' \in [Calls -> [step: DialSteps, page: SUBSET Calls]]
           /\ DialDone(c) => dial' \in [Calls -> [step: DialSteps, page: SUBSET Calls]]
           /\ \A s \in EndSteps : EndGoto(c, u, s) =>
                end' \in [Calls -> [Users -> [step: EndSteps, hang: BOOLEAN]]]
<1>1. ASSUME NEW s \in DialSteps, DialGoto(c, s)
      PROVE  dial' \in [Calls -> [step: DialSteps, page: SUBSET Calls]]
  <2> DEFINE d == [dial[c] EXCEPT !.step = s]
  <2>1. dial \in [Calls -> [step: DialSteps, page: SUBSET Calls]]
    BY DEF Typed, TypeOK
  <2>2. dial[c] \in [step: DialSteps, page: SUBSET Calls]
    BY <2>1
  <2>3. d \in [step: DialSteps, page: SUBSET Calls]
    BY <2>2
  <2>4. dial' = [dial EXCEPT ![c] = d]
    BY <1>1, <2>1 DEF DialGoto
  <2> HIDE DEF d
  <2> QED BY <2>1, <2>3, <2>4
<1>2. ASSUME DialDone(c)
      PROVE  dial' \in [Calls -> [step: DialSteps, page: SUBSET Calls]]
  BY <1>2 DEF Typed, TypeOK, DialDone, DialSteps
<1>3. ASSUME NEW s \in EndSteps, EndGoto(c, u, s)
      PROVE  end' \in [Calls -> [Users -> [step: EndSteps, hang: BOOLEAN]]]
  <2> DEFINE j == [step |-> s, hang |-> end[c][u].hang /\ s # "done"]
  <2>1. j \in [step: EndSteps, hang: BOOLEAN]
    BY DEF Typed, TypeOK
  <2>2. end' = [end EXCEPT ![c][u] = j]
    BY <1>3 DEF EndGoto
  <2> HIDE DEF j
  <2> QED BY <2>1, <2>2 DEF Typed, TypeOK
<1> QED BY <1>1, <1>2, <1>3

\* The steps of CallUtils.dial keep the types.
LEMMA DialType ==
    ASSUME Typed, NEW c \in Calls, Dial(c) \/ DialStep(c)
    PROVE  Typed'
<1> DEFINE u == info[c].caller
           v == info[c].receiver
<1>1. u \in Users /\ v \in Users
  BY DEF Typed, TypeOK, Parties
<1>2. ASSUME UNCHANGED screens PROVE Bounded'
  BY <1>2 DEF Typed, Bounded
<1>3. \A b \in BOOLEAN : [call |-> c, hasDialled |-> b] \in Doc
  BY DEF Doc
<1>4. /\ \A s \in DialSteps : DialGoto(c, s) =>
            dial' \in [Calls -> [step: DialSteps, page: SUBSET Calls]]
      /\ DialDone(c) => dial' \in [Calls -> [step: DialSteps, page: SUBSET Calls]]
  BY <1>1, GotoType
<1>5. CASE Dial(c)
  <2>1. Page(u) \in SUBSET Calls
    BY <1>1, PageType
  <2>2. dial' \in [Calls -> [step: DialSteps, page: SUBSET Calls]]
    BY <1>5, <2>1 DEF Dial, Typed, TypeOK, DialSteps
  <2>3. overlapped' \in SUBSET Calls /\ events' \in Nat
    BY <1>5, CallsAssumption DEF Dial, Event, Typed, TypeOK
  <2> QED BY <1>2, <1>5, <2>2, <2>3 DEF Dial, Typed, TypeOK
<1>6. CASE MakeCloudCall(c)
  BY <1>2, <1>4, <1>6 DEF MakeCloudCall, history, Typed, TypeOK, DialSteps
<1>7. CASE MakeCallCaller(c)
  <2>1. box' \in [Users -> Doc] /\ seen' \in [Users -> Doc]
    BY <1>1, <1>3, <1>7, PutType DEF MakeCallCaller, Typed, TypeOK
  <2> QED BY <1>2, <1>4, <1>7, <2>1 DEF MakeCallCaller, history, Typed, TypeOK, DialSteps
<1>8. CASE MakeCallReceiver(c)
  <2>1. box' \in [Users -> Doc] /\ seen' \in [Users -> Doc]
    BY <1>1, <1>3, <1>8, PutType DEF MakeCallReceiver, Typed, TypeOK
  <2> QED BY <1>2, <1>4, <1>8, <2>1 DEF MakeCallReceiver, history, Typed, TypeOK, DialSteps
<1>9. CASE PushCallScreen(c)
  <2>1. dial[c].page \in SUBSET Calls
    BY DEF Typed, TypeOK
  <2>2. Show(c, u, dial[c].page) \/ UNCHANGED <<screens, ongoing>>
    BY <1>9 DEF PushCallScreen
  <2>3. screens' \in [Users -> SUBSET Screen] /\ ongoing' \in [Users -> BOOLEAN] /\ Bounded'
    <3>1. CASE Show(c, u, dial[c].page)
      BY <1>1, <2>1, <3>1, ShowType
    <3>2. CASE UNCHANGED <<screens, ongoing>>
      BY <1>2, <3>2 DEF Typed, TypeOK
    <3> QED BY <2>2, <3>1, <3>2
  <2>4. abandoned' \in SUBSET Calls
    BY <1>9 DEF PushCallScreen, Typed, TypeOK
  <2> QED BY <1>4, <1>9, <2>3, <2>4 DEF PushCallScreen, Typed, TypeOK
<1> QED BY <1>5, <1>6, <1>7, <1>8, <1>9 DEF DialStep

\* The steps that end or reject a call keep the types.
LEMMA EndType ==
    ASSUME Typed, NEW c \in Calls, NEW u \in Users,
           Reject(c, u) \/ OnCallEnd(c, u) \/ EndStep(c, u)
    PROVE  Typed'
<1>1. info[c].caller \in Users /\ info[c].receiver \in Users
  BY DEF Typed, TypeOK, Parties
<1>2. ASSUME UNCHANGED screens PROVE Bounded'
  BY <1>2 DEF Typed, Bounded
<1>3. None \in Doc
  BY DEF Doc, None
<1> DEFINE EndT == end' \in [Calls -> [Users -> [step: EndSteps, hang: BOOLEAN]]]
<1>4. \A s \in EndSteps : EndGoto(c, u, s) => EndT
  BY GotoType
<1>5. AfterEndCall(c, u) \in EndSteps
  BY DEF AfterEndCall, EndSteps
<1>6. EndCallFails(c, u) =>
        EndT /\ abandoned' \in SUBSET Calls /\ UNCHANGED <<box, seen>>
  BY <1>4, <1>5 DEF EndCallFails, Typed, TypeOK
<1>7. CASE Reject(c, u)
  <2>1. EndT
    BY <1>7 DEF Reject, Typed, TypeOK, EndSteps
  <2> QED BY <1>2, <1>7, <2>1, CallsAssumption DEF Reject, Event, history, Typed, TypeOK
<1>8. CASE OnCallEnd(c, u)
  <2>1. EndT
    BY <1>8 DEF OnCallEnd, Typed, TypeOK, EndSteps
  <2> QED BY <1>2, <1>8, <2>1, CallsAssumption DEF OnCallEnd, Event, history, Typed, TypeOK
<1>9. CASE EndCallCaller(c, u)
  <2>1. /\ EndT /\ abandoned' \in SUBSET Calls
        /\ box' \in [Users -> Doc] /\ seen' \in [Users -> Doc]
    <3>1. CASE EndCallFails(c, u)
      BY <1>6, <3>1 DEF Typed, TypeOK
    <3>2. CASE Put(u, info[c].caller, None) /\ EndGoto(c, u, "delReceiver") /\ UNCHANGED abandoned
      <4>1. box' \in [Users -> Doc] /\ seen' \in [Users -> Doc]
        BY <1>1, <1>3, <3>2, PutType
      <4> QED BY <1>4, <3>2, <4>1 DEF EndSteps, Typed, TypeOK
    <3> QED BY <1>9, <3>1, <3>2 DEF EndCallCaller
  <2> QED BY <1>2, <1>9, <2>1 DEF EndCallCaller, Typed, TypeOK
<1>10. CASE EndCallReceiver(c, u)
  <2>1. /\ EndT /\ abandoned' \in SUBSET Calls
        /\ box' \in [Users -> Doc] /\ seen' \in [Users -> Doc]
    <3>1. CASE EndCallFails(c, u)
      BY <1>6, <3>1 DEF Typed, TypeOK
    <3>2. CASE /\ Put(u, info[c].receiver, None)
               /\ EndGoto(c, u, AfterEndCall(c, u)) /\ UNCHANGED abandoned
      <4>1. box' \in [Users -> Doc] /\ seen' \in [Users -> Doc]
        BY <1>1, <1>3, <3>2, PutType
      <4> QED BY <1>4, <1>5, <3>2, <4>1 DEF Typed, TypeOK
    <3> QED BY <1>10, <3>1, <3>2 DEF EndCallReceiver
  <2> QED BY <1>2, <1>10, <2>1 DEF EndCallReceiver, Typed, TypeOK
<1>11. CASE Close(c, u)
  BY <1>2, <1>4, <1>11 DEF Close, EndSteps, history, Typed, TypeOK
<1>12. CASE Pop(c, u)
  <2>1. \/ \E S \in SUBSET screens[u] : Dispose(u, S, c)
        \/ UNCHANGED <<screens, abandoned, torn>>
    BY <1>12 DEF Pop
  <2>2. /\ screens' \in [Users -> SUBSET Screen] /\ Bounded'
        /\ torn' \in SUBSET Users /\ abandoned' \in SUBSET Calls
    BY <1>2, <2>1, DisposeType DEF Typed, TypeOK
  <2> QED BY <1>4, <1>12, <2>2 DEF Pop, EndSteps, Typed, TypeOK
<1> QED BY <1>7, <1>8, <1>9, <1>10, <1>11, <1>12 DEF EndStep

\* The steps of a user's app, and its end, keep the types.
LEMMA AppType ==
    ASSUME Typed, NEW u \in Users,
           Deliver(u) \/ Accept(u) \/ StopFloating(u) \/ Crash(u) \/ Resend(u)
    PROVE  Typed'
<1>1. CASE Deliver(u)
  BY <1>1 DEF Deliver, history, Typed, TypeOK, Bounded
<1>2. CASE Accept(u)
  <2>1. PICK c \in Calls : Show(c, u, Page(u))
    BY <1>2 DEF Accept
  <2>2. Page(u) \in SUBSET Calls
    BY PageType
  <2>3. screens' \in [Users -> SUBSET Screen] /\ ongoing' \in [Users -> BOOLEAN] /\ Bounded'
    BY <2>1, <2>2, ShowType
  <2> QED BY <1>2, <2>3, CallsAssumption DEF Accept, Event, history, Typed, TypeOK
<1>3. CASE StopFloating(u)
  <2>1. \E S \in SUBSET screens[u] : Dispose(u, S, NoCall)
    BY <1>3 DEF StopFloating
  <2>2. /\ screens' \in [Users -> SUBSET Screen] /\ Bounded'
        /\ torn' \in SUBSET Users /\ abandoned' \in SUBSET Calls
    BY <2>1, DisposeType
  <2> QED BY <1>3, <2>2, CallsAssumption DEF StopFloating, Event, Typed, TypeOK
<1>4. CASE Crash(u)
  <2>1. dial' \in [Calls -> [step: DialSteps, page: SUBSET Calls]]
    BY <1>4 DEF Crash, Typed, TypeOK, DialSteps
  <2>2. [step |-> "done", hang |-> FALSE] \in [step: EndSteps, hang: BOOLEAN]
    BY DEF EndSteps
  <2>3. end' \in [Calls -> [Users -> [step: EndSteps, hang: BOOLEAN]]]
    BY <1>4, <2>2 DEF Crash, Typed, TypeOK
  <2>4. screens' \in [Users -> SUBSET Screen] /\ ongoing' \in [Users -> BOOLEAN]
    BY <1>4 DEF Crash, Typed, TypeOK
  <2>5. abandoned' \in SUBSET Calls /\ events' \in Nat
    BY <1>4, CallsAssumption DEF Crash, Event, Typed, TypeOK
  <2>6. \A v \in Users : screens'[v] \subseteq screens[v]
    BY <1>4 DEF Crash, Typed, TypeOK
  <2>7. Bounded'
    BY <2>6 DEF Typed, Bounded
  <2>8. left' \in [Users -> SUBSET DocWrite]
    <3>1. PICK W \in SUBSET Pending(u) : left' = [left EXCEPT ![u] = @ \cup W]
      BY <1>4 DEF Crash
    <3>2. W \subseteq DocWrite
      BY DEF Pending
    <3> QED BY <3>1, <3>2 DEF Typed, TypeOK
  <2> QED BY <1>4, <2>1, <2>3, <2>4, <2>5, <2>7, <2>8 DEF Crash, Typed, TypeOK
<1>5. CASE Resend(u)
  <2>1. PICK w \in left[u] : Apply(u, w.to, w.doc) /\ left' = [left EXCEPT ![u] = @ \ {w}]
    BY <1>5 DEF Resend
  <2>2. w.to \in Users /\ w.doc \in Doc
    BY DEF Typed, TypeOK, DocWrite
  <2>3. box' \in [Users -> Doc] /\ seen' \in [Users -> Doc]
    BY <2>1, <2>2 DEF Apply, Typed, TypeOK
  <2>4. left' \in [Users -> SUBSET DocWrite]
    BY <2>1 DEF Typed, TypeOK
  <2> QED BY <1>5, <2>3, <2>4 DEF Resend, history, Typed, TypeOK, Bounded
<1> QED BY <1>1, <1>2, <1>3, <1>4, <1>5

\* Every step keeps the types.
LEMMA TypeStep == Typed /\ [Next]_vars => Typed'
<1> SUFFICES ASSUME Typed, [Next]_vars PROVE Typed'
  OBVIOUS
<1>1. CASE Next
  BY <1>1, DialType, EndType, AppType DEF Next
<1>2. CASE UNCHANGED vars
  BY <1>2 DEF vars, Typed, TypeOK, Bounded
<1> QED BY <1>1, <1>2

\* The initial state is well typed.
LEMMA TypeInit == Init => Typed
<1> SUFFICES ASSUME Init PROVE Typed
  OBVIOUS
<1>1. None \in Doc
  BY DEF None, Doc
<1>2. TypeOK
  BY <1>1 DEF Init, TypeOK, DialSteps, EndSteps
<1>3. \A u \in Users : screens[u] = {}
  BY DEF Init
<1>4. Bounded
  BY <1>3 DEF Bounded
<1> QED BY <1>2, <1>4 DEF Typed

\* In particular no screen is ever shown for a document that is not there,
\* and the navigator of a page lies inside call screens.
THEOREM CallsTypeCorrect == Spec => []TypeOK
<1>1. Init => Typed
  BY TypeInit
<1>2. Typed => TypeOK
  BY DEF Typed
<1> QED BY <1>1, <1>2, TypeStep, PTL DEF Spec

-----------------------------------------------------------------------------
(***************************************************************************)
(* RingIsLive.  It is not inductive: a caller whose endCall has returned   *)
(* must be known to have silenced the receiver, a call that is being       *)
(* dialled to have nothing to end yet, and an invitation that is still on  *)
(* the disk of a killed app to be one of an abandoned call.                *)
(***************************************************************************)

\* Only its receiver is invited to a call.
Addressed ==
    \A c \in Calls : \A u \in Users :
        Invites(box[u], c) \/ Invites(seen[u], c) => u = info[c].receiver

\* The caller's screen, and what ends the call there, come after the dialling.
DialledFirst ==
    \A c \in Calls :
        OnScreen(c, info[c].caller) \/ end[c][info[c].caller].step # "none"
            => dial[c].step = "done"

\* A caller whose endCall has returned has silenced the receiver, or failed.
Silenced ==
    \A c \in Calls :
        end[c][info[c].caller].step \in {"close", "pop", "done"} =>
            c \in abandoned \/ ~Invites(box[info[c].receiver], c)

LiveInv == Addressed /\ DialledFirst /\ Silenced /\ RingIsLive

\* Call c is over for u, who ended it or dialled it in an app that was killed.
Gone(c, u) ==
    \/ end[c][u].step # "none"
    \/ info[c].caller = u /\ dial[c].step = "done" /\ ~OnScreen(c, u)

\* What killed apps left on disk: writes to the documents of the two users of
\* a call that is over for whoever left them, invitations only of abandoned
\* calls, and to their receivers.
LeftKnown ==
    \A u \in Users : \A w \in left[u] :
        /\ w.to \in {info[w.call].caller, info[w.call].receiver}
        /\ \A c \in Calls : Invites(w.doc, c) =>
              c = w.call /\ w.to = info[c].receiver /\ c \in abandoned
        /\ Gone(w.call, u)

\* The parties of a call are two users, and stay the same.
LEMMA PartiesFixed ==
    ASSUME Typed
    PROVE  /\ \A c \in Calls : /\ info[c].caller \in Users
                               /\ info[c].receiver \in Users
                               /\ info[c].caller # info[c].receiver
           /\ \A c \in Calls : c # NoCall
BY CallsAssumption DEF Typed, TypeOK, Parties

\* A step that changes neither documents nor snapshots, the dialling, the
\* endings nor the screens keeps the invariant, if abandoned calls stay so.
LEMMA LiveStutter ==
    ASSUME LiveInv, UNCHANGED <<info, dial, end, box, seen, screens, abandoned>>
    PROVE  LiveInv'
BY DEF LiveInv, Addressed, DialledFirst, Silenced, RingIsLive, Invites,
       OnScreen, Ending

\* The steps of CallUtils.dial keep the invariant.
LEMMA DialLive ==
    ASSUME Typed, LiveInv, NEW c \in Calls, Dial(c) \/ DialStep(c)
    PROVE  LiveInv'
<1> USE DEF LiveInv
<1> DEFINE u == info[c].caller
           v == info[c].receiver
<1>1. u \in Users /\ v \in Users /\ u # v /\ \A k \in Calls : k # NoCall
  BY PartiesFixed
<1>2. dial \in [Calls -> [step: DialSteps, page: SUBSET Calls]]
  BY DEF Typed, TypeOK
<1>3. box \in [Users -> Doc] /\ seen \in [Users -> Doc]
  BY DEF Typed, TypeOK
\* While c is dialled its caller has no screen and nothing to end.
<1>4. dial[c].step # "done" => ~OnScreen(c, u) /\ end[c][u].step = "none"
  BY DEF DialledFirst
\* Steps that only move the dialling on.
<1>5. ASSUME UNCHANGED <<info, end, box, seen, screens, abandoned>>,
             dial[c].step \notin {"push", "done"},
             \A k \in Calls \ {c} : dial'[k] = dial[k]
      PROVE  LiveInv'
  <2>1. Addressed' /\ Silenced'
    BY <1>5 DEF Addressed, Silenced, Invites
  <2>2. DialledFirst'
    BY <1>4, <1>5 DEF DialledFirst, OnScreen
  <2>3. RingIsLive'
    BY <1>5 DEF RingIsLive, Invites, OnScreen, Ending
  <2> QED BY <2>1, <2>2, <2>3
<1>6. CASE Dial(c)
  BY <1>2, <1>5, <1>6 DEF Dial
<1>7. CASE MakeCloudCall(c)
  BY <1>2, <1>5, <1>7 DEF MakeCloudCall, DialGoto, DialDone, history
<1>8. CASE MakeCallCaller(c)
  <2>1. CASE DialDone(c) /\ UNCHANGED <<box, seen>>
    BY <1>2, <1>5, <1>8, <2>1 DEF MakeCallCaller, DialDone, history
  <2>2. CASE Put(u, u, [call |-> c, hasDialled |-> TRUE]) /\ DialGoto(c, "setReceiver")
    <3>1. UNCHANGED <<info, end, screens, abandoned>> /\ dial[c].step = "setCaller"
      BY <1>8 DEF MakeCallCaller, history
    <3>2. \A w \in Users : \A k \in Calls :
             /\ Invites(box'[w], k) => Invites(box[w], k)
             /\ Invites(seen'[w], k) => Invites(seen[w], k)
      BY <1>1, <1>3, <2>2 DEF Put, Apply, Invites
    <3>3. \A k \in Calls \ {c} : dial'[k] = dial[k]
      BY <1>2, <2>2 DEF DialGoto
    <3>4. Addressed'
      BY <3>1, <3>2 DEF Addressed
    <3>5. Silenced'
      BY <3>1, <3>2, PartiesFixed DEF Silenced
    <3>6. DialledFirst'
      BY <1>4, <3>1, <3>3 DEF DialledFirst, OnScreen
    <3>7. RingIsLive'
      BY <3>1, <3>2, <3>3 DEF RingIsLive, OnScreen, Ending
    <3> QED BY <3>4, <3>5, <3>6, <3>7
  <2> QED BY <1>8, <2>1, <2>2 DEF MakeCallCaller
<1>9. CASE MakeCallReceiver(c)
  <2>1. CASE DialDone(c) /\ UNCHANGED <<box, seen>>
    BY <1>2, <1>5, <1>9, <2>1 DEF MakeCallReceiver, DialDone, history
  <2>2. CASE Put(u, v, [call |-> c, hasDialled |-> FALSE]) /\ DialGoto(c, "push")
    <3>1. UNCHANGED <<info, end, screens, abandoned>> /\ dial[c].step = "setReceiver"
      BY <1>9 DEF MakeCallReceiver, history
    <3>2. /\ seen' = seen
          /\ \A w \in Users : \A k \in Calls :
                Invites(box'[w], k) => Invites(box[w], k) \/ (w = v /\ k = c)
      BY <1>1, <1>3, <2>2 DEF Put, Apply, Invites
    <3>3. dial'[c].step = "push" /\ \A k \in Calls \ {c} : dial'[k] = dial[k]
      BY <1>2, <2>2 DEF DialGoto
    <3>4. Addressed'
      BY <3>1, <3>2 DEF Addressed
    <3>5. Silenced'
      BY <1>4, <3>1, <3>2, PartiesFixed DEF Silenced
    <3>6. DialledFirst'
      BY <1>4, <3>1, <3>3 DEF DialledFirst, OnScreen
    <3>7. RingIsLive'
      BY <3>1, <3>2, <3>3 DEF RingIsLive, OnScreen, Ending
    <3> QED BY <3>4, <3>5, <3>6, <3>7
  <2> QED BY <1>9, <2>1, <2>2 DEF MakeCallReceiver
<1>10. CASE PushCallScreen(c)
  <2>1. UNCHANGED <<info, end, box, seen>> /\ abandoned \subseteq abandoned'
    BY <1>10 DEF PushCallScreen
  <2>2. dial'[c].step = "done" /\ \A k \in Calls \ {c} : dial'[k] = dial[k]
    BY <1>2, <1>10 DEF PushCallScreen, DialDone
  <2>a. \/ \E s : s.call = c /\ screens' = [screens EXCEPT ![u] = @ \cup {s}]
        \/ c \in abandoned' /\ screens' = screens
    <3>1. CASE Show(c, u, dial[c].page)
      <4> DEFINE at == IF screens[u] = {} THEN 0 ELSE Top(screens[u]).at + 1
                 s  == [call |-> c, nav |-> dial[c].page, at |-> at]
      <4>1. screens' = [screens EXCEPT ![u] = @ \cup {s}]
        BY <3>1 DEF Show
      <4>2. s.call = c
        OBVIOUS
      <4> HIDE DEF s
      <4> QED BY <4>1, <4>2
    <3>2. CASE abandoned' = abandoned \cup {c} /\ UNCHANGED <<screens, ongoing>>
      BY <3>2
    <3> QED BY <1>10, <3>1, <3>2 DEF PushCallScreen
  <2>b. screens \in [Users -> SUBSET Screen]
    BY DEF Typed, TypeOK
  <2>3. \A w \in Users : \A k \in Calls :
           /\ OnScreen(k, w) => OnScreen(k, w)'
           /\ k # c => (OnScreen(k, w)' => OnScreen(k, w))
    <3> HIDE DEF u
    <3>1. CASE screens' = screens
      BY <3>1 DEF OnScreen
    <3>2. ASSUME NEW s, s.call = c, screens' = [screens EXCEPT ![u] = @ \cup {s}]
          PROVE  \A w \in Users : \A k \in Calls :
                    /\ OnScreen(k, w) => OnScreen(k, w)'
                    /\ k # c => (OnScreen(k, w)' => OnScreen(k, w))
      BY <1>1, <2>b, <3>2 DEF OnScreen
    <3> QED BY <2>a, <3>1, <3>2
  <2>4. OnScreen(c, u)' \/ c \in abandoned'
    <3>1. info' = info
      BY <2>1
    <3>2. ASSUME NEW s, s.call = c, screens' = [screens EXCEPT ![u] = @ \cup {s}]
          PROVE  OnScreen(c, u)'
      <4>1. s \in screens'[u]
        BY <1>1, <2>b, <3>2
      <4> QED BY <3>1, <3>2, <4>1 DEF OnScreen
    <3> QED BY <2>a, <3>2
  <2>5. Addressed' /\ Silenced'
    BY <2>1 DEF Addressed, Silenced, Invites
  <2>6. DialledFirst'
    <3> SUFFICES ASSUME NEW k \in Calls,
                        OnScreen(k, info[k].caller)' \/ end'[k][info'[k].caller].step # "none"
                 PROVE  dial'[k].step = "done"
      BY DEF DialledFirst
    <3>1. CASE k = c
      BY <2>2, <3>1
    <3>2. CASE k # c
      BY <2>1, <2>2, <2>3, <3>2, PartiesFixed DEF DialledFirst, OnScreen
    <3> QED BY <3>1, <3>2
  <2>7. RingIsLive'
    <3> SUFFICES ASSUME NEW k \in Calls, NEW w \in Users, Invites(box'[w], k)
                 PROVE  \/ dial'[k].step = "push" \/ OnScreen(k, info[k].caller)'
                        \/ Ending(k, info[k].caller)' \/ k \in abandoned'
      BY <2>1 DEF RingIsLive, OnScreen, Ending
    <3>1. CASE k = c
      BY <2>1, <2>4, <3>1 DEF OnScreen
    <3>2. CASE k # c
      BY <2>1, <2>2, <2>3, <3>2, PartiesFixed DEF RingIsLive, Ending, OnScreen
    <3> QED BY <3>1, <3>2
  <2> QED BY <2>5, <2>6, <2>7
<1> QED BY <1>6, <1>7, <1>8, <1>9, <1>10 DEF DialStep

\* What a handler with which u ends c may do: nothing but its own progress,
\* and take away invitations, and screens of other calls that it abandons;
\* and when u is the caller it is still at it, has failed, or has silenced
\* the receiver.
LEMMA EndFrame ==
    ASSUME Typed, LiveInv, NEW c \in Calls, NEW u \in Users,
           UNCHANGED <<info, dial>>, abandoned \subseteq abandoned',
           \A k \in Calls : \A w \in Users :
              /\ Invites(box'[w], k) => Invites(box[w], k)
              /\ Invites(seen'[w], k) => Invites(seen[w], k)
              /\ OnScreen(k, w)' => OnScreen(k, w)
              /\ k # c \/ w # u => end'[k][w] = end[k][w],
           \A k \in Calls \ {c} : \A w \in Users :
              OnScreen(k, w) /\ w = info[k].caller
                 => OnScreen(k, w)' \/ k \in abandoned',
           u # info[c].caller => \A w \in Users : w # u =>
              (OnScreen(c, w) => OnScreen(c, w)'),
           u = info[c].caller => dial[c].step = "done",
           u = info[c].caller => \/ Ending(c, u)' \/ c \in abandoned'
                                 \/ ~Invites(box'[info[c].receiver], c)
    PROVE  LiveInv'
<1> USE DEF LiveInv
<1>1. \A k \in Calls : info[k].caller \in Users /\ info[k].receiver \in Users
  BY PartiesFixed
<1>2. Addressed'
  BY DEF Addressed
<1>3. DialledFirst'
  <2> SUFFICES ASSUME NEW k \in Calls, NEW v \in Users, v = info[k].caller,
                      OnScreen(k, v)' \/ end'[k][v].step # "none"
               PROVE  dial[k].step = "done"
    BY <1>1 DEF DialledFirst, OnScreen
  <2>1. CASE k = c /\ v = u
    BY <2>1
  <2>2. CASE k # c \/ v # u
    BY <2>2 DEF DialledFirst
  <2> QED BY <2>1, <2>2
<1>4. Silenced'
  <2> SUFFICES ASSUME NEW k \in Calls, NEW v \in Users, v = info[k].caller,
                      end'[k][v].step \in {"close", "pop", "done"}
               PROVE  k \in abandoned' \/ ~Invites(box'[info[k].receiver], k)
    BY <1>1 DEF Silenced
  <2>1. CASE k = c /\ v = u
    BY <2>1 DEF Ending
  <2>2. CASE k # c \/ v # u
    BY <1>1, <2>2 DEF Silenced
  <2> QED BY <2>1, <2>2
<1>5. RingIsLive'
  <2> SUFFICES ASSUME NEW k \in Calls, NEW w \in Users, NEW v \in Users,
                      v = info[k].caller, Invites(box'[w], k)
               PROVE  \/ dial'[k].step = "push" \/ OnScreen(k, v)'
                      \/ Ending(k, v)' \/ k \in abandoned'
    BY <1>1 DEF RingIsLive, OnScreen, Ending
  <2>1. /\ w = info[k].receiver
        /\ \/ dial[k].step = "push" \/ OnScreen(k, v)
           \/ Ending(k, v) \/ k \in abandoned
    BY DEF Addressed, RingIsLive
  <2>2. CASE k = c /\ v = u
    BY <2>1, <2>2
  <2>3. CASE k # c \/ v # u
    BY <2>1, <2>3 DEF Ending
  <2> QED BY <2>2, <2>3
<1> QED BY <1>2, <1>3, <1>4, <1>5

\* Writing None invites nobody.
LEMMA PutNone ==
    ASSUME Typed, NEW u \in Users, NEW v \in Users, Put(u, v, None)
    PROVE  /\ \A k \in Calls : \A w \in Users :
                 /\ Invites(box'[w], k) => Invites(box[w], k)
                 /\ Invites(seen'[w], k) => Invites(seen[w], k)
           /\ \A k \in Calls : ~Invites(box'[v], k)
<1>1. box \in [Users -> Doc] /\ seen \in [Users -> Doc] /\ \A k \in Calls : k # NoCall
  BY CallsAssumption DEF Typed, TypeOK
<1> QED BY <1>1 DEF Put, Apply, Invites, None

\* EndGoto moves one handler.
LEMMA GotoEnd ==
    ASSUME Typed, NEW c \in Calls, NEW u \in Users, NEW s, EndGoto(c, u, s)
    PROVE  /\ end'[c][u].step = s
           /\ \A k \in Calls : \A w \in Users :
                 k # c \/ w # u => end'[k][w] = end[k][w]
<1>1. end \in [Calls -> [Users -> [step: EndSteps, hang: BOOLEAN]]]
  BY DEF Typed, TypeOK
<1> QED BY <1>1 DEF EndGoto

\* Disposing of screens adds none, and abandons the calls u had placed.
LEMMA DisposeScreens ==
    ASSUME Typed, NEW u \in Users, NEW S \in SUBSET screens[u], NEW own,
           Dispose(u, S, own)
    PROVE  /\ abandoned \subseteq abandoned'
           /\ \A k \in Calls : \A w \in Users :
                 /\ OnScreen(k, w)' => OnScreen(k, w)
                 /\ OnScreen(k, w) /\ w # u => OnScreen(k, w)'
                 /\ OnScreen(k, w) /\ k # own /\ w = info[k].caller
                       => OnScreen(k, w)' \/ k \in abandoned'
<1> DEFINE lost == {s.call : s \in S} \ {own}
<1>1. screens \in [Users -> SUBSET Screen]
  BY DEF Typed, TypeOK
<1>2. /\ screens' = [screens EXCEPT ![u] = @ \ S]
      /\ abandoned' = abandoned \cup {k \in lost : info[k].caller = u}
  BY DEF Dispose
<1>3. \A w \in Users : screens'[w] = IF w = u THEN screens[w] \ S ELSE screens[w]
  BY <1>1, <1>2
<1>4. ASSUME NEW k \in Calls, NEW s \in S, s.call = k, k # own, u = info[k].caller
      PROVE  k \in abandoned'
  BY <1>2, <1>4
<1>5. ASSUME NEW k \in Calls, NEW w \in Users,
             OnScreen(k, w), k # own, w = info[k].caller
      PROVE  OnScreen(k, w)' \/ k \in abandoned'
  <2>1. PICK s \in screens[w] : s.call = k
    BY <1>5 DEF OnScreen
  <2>2. CASE w = u /\ s \in S
    BY <1>4, <1>5, <2>1, <2>2
  <2>3. CASE ~(w = u /\ s \in S)
    BY <1>3, <2>1, <2>3 DEF OnScreen
  <2> QED BY <2>2, <2>3
<1>6. \A k \in Calls : \A w \in Users :
         /\ OnScreen(k, w)' => OnScreen(k, w)
         /\ OnScreen(k, w) /\ w # u => OnScreen(k, w)'
  BY <1>3 DEF OnScreen
<1> QED BY <1>2, <1>5, <1>6

\* Ending and rejecting a call keep the invariant.
LEMMA EndLive ==
    ASSUME Typed, LiveInv, NEW c \in Calls, NEW u \in Users,
           Reject(c, u) \/ OnCallEnd(c, u) \/ EndStep(c, u)
    PROVE  LiveInv'
<1> DEFINE v == info[c].caller
           r == info[c].receiver
<1>1. v \in Users /\ r \in Users /\ v # r
  BY PartiesFixed
<1>2. end \in [Calls -> [Users -> [step: EndSteps, hang: BOOLEAN]]]
  BY DEF Typed, TypeOK
<1>3. end[c][u].step # "none" /\ u = v => dial[c].step = "done"
  BY DEF LiveInv, DialledFirst
<1>4. CASE Reject(c, u)
  \* The caller is not invited to its own call.
  <2>1. u # v
    BY <1>1, <1>4 DEF Reject, Rings, LiveInv, Addressed
  <2>2. UNCHANGED <<info, dial, box, seen, screens, abandoned>>
    BY <1>4 DEF Reject, history
  <2>3. \A k \in Calls : \A w \in Users :
           k # c \/ w # u => end'[k][w] = end[k][w]
    BY <1>2, <1>4 DEF Reject
  <2> HIDE DEF v
  <2> QED BY <2>1, <2>2, <2>3, EndFrame DEF OnScreen, v
<1>5. CASE OnCallEnd(c, u)
  <2>1. screens \in [Users -> SUBSET Screen] /\ Bounded
    BY DEF Typed, TypeOK
  <2>2. OnScreen(c, u)
    <3>1. PICK n \in Nat : \A s \in screens[u] : s.at <= n
      BY <2>1 DEF Bounded
    <3>2. screens[u] # {} /\ \A s \in screens[u] : s.at \in Nat
      BY <1>5, <2>1 DEF OnCallEnd, Screen
    <3>3. Top(screens[u]) \in screens[u]
      BY <3>1, <3>2, TopExists
    <3> QED BY <1>5, <3>3 DEF OnCallEnd, OnScreen
  <2>3. u = v => dial[c].step = "done"
    BY <2>2 DEF LiveInv, DialledFirst
  <2>4. UNCHANGED <<info, dial, box, seen, screens, abandoned>>
    BY <1>5 DEF OnCallEnd, history
  <2>5. /\ end'[c][u].step = "delCaller"
        /\ \A k \in Calls : \A w \in Users :
              k # c \/ w # u => end'[k][w] = end[k][w]
    BY <1>2, <1>5 DEF OnCallEnd
  <2>6. Ending(c, u)'
    BY <2>5 DEF Ending
  <2> QED BY <2>3, <2>4, <2>5, <2>6, EndFrame DEF OnScreen
\* The ways a step of endCall may go.
<1>6. ASSUME EndCallFails(c, u), end[c][u].step # "none",
             UNCHANGED <<info, dial, screens>>
      PROVE  LiveInv'
  <2>1. /\ UNCHANGED <<box, seen>> /\ abandoned \subseteq abandoned'
        /\ u = v => c \in abandoned'
    BY <1>6 DEF EndCallFails
  <2>2. PICK s : EndGoto(c, u, s)
    BY <1>6 DEF EndCallFails
  <2>3. \A k \in Calls : \A w \in Users :
           k # c \/ w # u => end'[k][w] = end[k][w]
    BY <2>2, GotoEnd
  <2> QED BY <1>3, <1>6, <2>1, <2>3, EndFrame DEF OnScreen
<1>7. ASSUME NEW w \in Users, NEW s, Put(u, w, None), EndGoto(c, u, s),
             end[c][u].step # "none",
             UNCHANGED <<info, dial, screens, abandoned>>,
             s = "delReceiver" \/ w = r
      PROVE  LiveInv'
  <2>1. /\ end'[c][u].step = s
        /\ \A k \in Calls : \A x \in Users :
              k # c \/ x # u => end'[k][x] = end[k][x]
    BY <1>7, GotoEnd
  <2>2. Ending(c, u)' \/ ~Invites(box'[r], c)
    BY <1>7, <2>1, PutNone DEF Ending
  <2>3. \A k \in Calls : \A x \in Users :
           /\ Invites(box'[x], k) => Invites(box[x], k)
           /\ Invites(seen'[x], k) => Invites(seen[x], k)
    BY <1>7, PutNone
  <2> QED BY <1>3, <1>7, <2>1, <2>2, <2>3, EndFrame DEF OnScreen
<1>8. CASE EndCallCaller(c, u)
  <2>1. end[c][u].step # "none" /\ UNCHANGED <<info, dial, screens>>
    BY <1>8 DEF EndCallCaller
  <2>2. CASE EndCallFails(c, u)
    BY <1>6, <2>1, <2>2
  <2>3. CASE Put(u, v, None) /\ EndGoto(c, u, "delReceiver") /\ UNCHANGED abandoned
    <3>1. PICK w \in Users : w = v
      BY <1>1
    <3> QED BY <1>7, <2>1, <2>3, <3>1
  <2> QED BY <1>8, <2>2, <2>3 DEF EndCallCaller
<1>9. CASE EndCallReceiver(c, u)
  <2>1. end[c][u].step # "none" /\ UNCHANGED <<info, dial, screens>>
    BY <1>9 DEF EndCallReceiver
  <2>2. CASE EndCallFails(c, u)
    BY <1>6, <2>1, <2>2
  <2>3. CASE Put(u, r, None) /\ EndGoto(c, u, AfterEndCall(c, u)) /\ UNCHANGED abandoned
    <3>1. PICK w \in Users : w = r
      BY <1>1
    <3>2. PICK s : s = AfterEndCall(c, u)
      OBVIOUS
    <3> QED BY <1>7, <2>1, <2>3, <3>1, <3>2
  <2> QED BY <1>9, <2>2, <2>3 DEF EndCallReceiver
\* By now a caller has silenced the receiver, or failed to.
<1>10. end[c][u].step \in {"close", "pop"} /\ u = v =>
          c \in abandoned \/ ~Invites(box[r], c)
  BY DEF LiveInv, Silenced
<1>11. CASE Close(c, u)
  <2>1. UNCHANGED <<info, dial, box, seen, screens, abandoned>>
    BY <1>11 DEF Close, history
  <2>2. EndGoto(c, u, "pop") /\ end[c][u].step = "close"
    BY <1>11 DEF Close
  <2>3. \A k \in Calls : \A w \in Users :
           k # c \/ w # u => end'[k][w] = end[k][w]
    BY <2>2, GotoEnd
  <2> QED BY <1>3, <1>10, <2>1, <2>2, <2>3, EndFrame DEF OnScreen
<1>12. CASE Pop(c, u)
  <2>1. UNCHANGED <<info, dial, box, seen>>
    BY <1>12 DEF Pop
  <2>2. EndGoto(c, u, "done") /\ end[c][u].step = "pop"
    BY <1>12 DEF Pop
  <2>3. \A k \in Calls : \A w \in Users :
           k # c \/ w # u => end'[k][w] = end[k][w]
    BY <2>2, GotoEnd
  <2>4. CASE ~OnScreen(c, u)
    <3>1. UNCHANGED <<screens, abandoned>>
      BY <1>12, <2>4 DEF Pop
    <3> QED BY <1>3, <1>10, <2>1, <2>2, <2>3, <3>1, EndFrame DEF OnScreen
  <2>5. CASE OnScreen(c, u)
    <3>1. PICK S \in SUBSET screens[u] : Dispose(u, S, c)
      BY <1>12, <2>5 DEF Pop
    <3>2. /\ abandoned \subseteq abandoned'
          /\ \A k \in Calls : \A w \in Users :
                /\ OnScreen(k, w)' => OnScreen(k, w)
                /\ OnScreen(k, w) /\ w # u => OnScreen(k, w)'
                /\ OnScreen(k, w) /\ k # c /\ w = info[k].caller
                      => OnScreen(k, w)' \/ k \in abandoned'
      BY <3>1, DisposeScreens
    <3> QED BY <1>3, <1>10, <2>1, <2>2, <2>3, <3>2, EndFrame
  <2> QED BY <2>4, <2>5
<1> QED BY <1>4, <1>5, <1>8, <1>9, <1>11, <1>12 DEF EndStep

\* What a step of an app may do to the calls that its user placed: lose them
\* and abandon them, but not place or end one.
LEMMA AppFrame ==
    ASSUME Typed, LiveInv, UNCHANGED <<info, box>>,
           abandoned \subseteq abandoned',
           \A k \in Calls : \A w \in Users :
              Invites(seen'[w], k) => Invites(seen[w], k) \/ Invites(box[w], k),
           \A k \in Calls : \A v \in Users : v = info[k].caller =>
              /\ OnScreen(k, v)' => OnScreen(k, v)
              /\ dial[k].step = "done" => dial'[k].step = "done"
              /\ \/ end'[k][v] = end[k][v] /\ dial'[k] = dial[k]
                 \/ k \in abandoned'
                 \/ ~OnScreen(k, v) /\ ~Ending(k, v) /\ dial'[k] = dial[k]
              /\ end'[k][v].step \in {"close", "pop", "done"} =>
                    \/ end[k][v].step \in {"close", "pop", "done"}
                    \/ k \in abandoned'
              /\ end'[k][v].step # "none" => end[k][v].step # "none"
              /\ OnScreen(k, v) => OnScreen(k, v)' \/ k \in abandoned'
    PROVE  LiveInv'
<1> USE DEF LiveInv
<1>1. \A k \in Calls : info[k].caller \in Users /\ info[k].receiver \in Users
  BY PartiesFixed
<1>2. Addressed'
  BY DEF Addressed
<1>3. DialledFirst'
  <2> SUFFICES ASSUME NEW k \in Calls, NEW v \in Users, v = info[k].caller,
                      OnScreen(k, v)' \/ end'[k][v].step # "none"
               PROVE  dial'[k].step = "done"
    BY <1>1 DEF DialledFirst, OnScreen
  <2> QED BY DEF DialledFirst
<1>4. Silenced'
  <2> SUFFICES ASSUME NEW k \in Calls, NEW v \in Users, v = info[k].caller,
                      end'[k][v].step \in {"close", "pop", "done"}
               PROVE  k \in abandoned' \/ ~Invites(box[info[k].receiver], k)
    BY <1>1 DEF Silenced
  <2> QED BY DEF Silenced
<1>5. RingIsLive'
  <2> SUFFICES ASSUME NEW k \in Calls, NEW w \in Users, NEW v \in Users,
                      v = info[k].caller, Invites(box[w], k)
               PROVE  \/ dial'[k].step = "push" \/ OnScreen(k, v)'
                      \/ Ending(k, v)' \/ k \in abandoned'
    BY <1>1 DEF RingIsLive, OnScreen, Ending
  <2>1. \/ dial[k].step = "push" \/ OnScreen(k, v)
        \/ Ending(k, v) \/ k \in abandoned
    BY DEF RingIsLive
  <2> QED BY <2>1 DEF Ending
<1> QED BY <1>2, <1>3, <1>4, <1>5

\* Snapshots, answers, floating windows and kills keep the invariant.
LEMMA AppLive ==
    ASSUME Typed, LiveInv, NEW u \in Users,
           Deliver(u) \/ Accept(u) \/ StopFloating(u) \/ Crash(u)
    PROVE  LiveInv'
<1>1. /\ box \in [Users -> Doc] /\ seen \in [Users -> Doc]
      /\ screens \in [Users -> SUBSET Screen]
  BY DEF Typed, TypeOK
<1>2. CASE Deliver(u)
  <2>1. UNCHANGED <<info, dial, end, box, screens, abandoned>>
    BY <1>2 DEF Deliver, history
  <2>2. \A w \in Users : seen'[w] = seen[w] \/ seen'[w] = box[w]
    BY <1>1, <1>2 DEF Deliver
  <2>3. \A k \in Calls : \A w \in Users :
           Invites(seen'[w], k) => Invites(seen[w], k) \/ Invites(box[w], k)
    BY <2>2
  <2> QED BY <2>1, <2>3, AppFrame DEF OnScreen
<1>3. CASE Accept(u)
  <2>1. UNCHANGED <<info, dial, end, box, seen, abandoned>>
    BY <1>3 DEF Accept, history
  <2>2. PICK c \in Calls : Rings(u, c) /\ Show(c, u, Page(u))
    BY <1>3 DEF Accept
  \* Whoever answers a call has not placed it.
  <2>3. u # info[c].caller
    BY <2>2, PartiesFixed DEF Rings, LiveInv, Addressed
  <2>4. \E s : s.call = c /\ screens' = [screens EXCEPT ![u] = @ \cup {s}]
    <3> DEFINE at == IF screens[u] = {} THEN 0 ELSE Top(screens[u]).at + 1
               s  == [call |-> c, nav |-> Page(u), at |-> at]
    <3>1. screens' = [screens EXCEPT ![u] = @ \cup {s}]
      BY <2>2 DEF Show
    <3>2. s.call = c
      OBVIOUS
    <3> HIDE DEF s
    <3> QED BY <3>1, <3>2
  <2>5. PICK s : s.call = c /\ screens' = [screens EXCEPT ![u] = @ \cup {s}]
    BY <2>4
  <2>6. \A w \in Users : screens'[w] = screens[w] \cup (IF w = u THEN {s} ELSE {})
    BY <1>1, <2>5
  <2>7. \A k \in Calls : \A v \in Users : v = info[k].caller =>
           (OnScreen(k, v)' <=> OnScreen(k, v))
    BY <2>3, <2>5, <2>6 DEF OnScreen
  <2> QED BY <2>1, <2>7, AppFrame
<1>4. CASE StopFloating(u)
  <2>1. UNCHANGED <<info, dial, end, box, seen>>
    BY <1>4 DEF StopFloating
  <2>2. PICK S \in SUBSET screens[u] : Dispose(u, S, NoCall)
    BY <1>4 DEF StopFloating
  <2>3. /\ abandoned \subseteq abandoned'
        /\ \A k \in Calls : \A w \in Users :
              /\ OnScreen(k, w)' => OnScreen(k, w)
              /\ OnScreen(k, w) /\ k # NoCall /\ w = info[k].caller
                    => OnScreen(k, w)' \/ k \in abandoned'
    BY <2>2, DisposeScreens
  <2> QED BY <2>1, <2>3, AppFrame, PartiesFixed
<1>5. CASE Crash(u)
  <2>1. UNCHANGED <<info, box, seen>> /\ abandoned \subseteq abandoned'
    BY <1>5 DEF Crash
  <2>2. \A k \in Calls : info[k].caller = u /\ Holds(k, u) => k \in abandoned'
    BY <1>5 DEF Crash
  <2>3. \A w \in Users : screens'[w] = IF w = u THEN {} ELSE screens[w]
    BY <1>1, <1>5 DEF Crash
  <2>4. \A k \in Calls :
           dial'[k] = IF info[k].caller = u /\ Dialling(k)
                      THEN [step |-> "done", page |-> {}] ELSE dial[k]
    BY <1>5 DEF Crash
  <2>5. \A k \in Calls : \A w \in Users :
           end'[k][w] = IF w = u /\ end[k][w].step # "none"
                        THEN [step |-> "done", hang |-> FALSE] ELSE end[k][w]
    BY <1>5 DEF Crash, Typed, TypeOK
  <2>6. ASSUME NEW k \in Calls, NEW v \in Users, v = info[k].caller
        PROVE  /\ OnScreen(k, v)' => OnScreen(k, v)
               /\ OnScreen(k, v) => OnScreen(k, v)' \/ k \in abandoned'
               /\ dial[k].step = "done" => dial'[k].step = "done"
               /\ end'[k][v].step # "none" => end[k][v].step # "none"
    BY <2>2, <2>3, <2>4, <2>5, <2>6 DEF OnScreen, Holds
  <2>7. ASSUME NEW k \in Calls, NEW v \in Users, v = info[k].caller
        PROVE  /\ \/ end'[k][v] = end[k][v] /\ dial'[k] = dial[k]
                  \/ k \in abandoned'
                  \/ ~OnScreen(k, v) /\ ~Ending(k, v) /\ dial'[k] = dial[k]
               /\ end'[k][v].step \in {"close", "pop", "done"} =>
                     \/ end[k][v].step \in {"close", "pop", "done"}
                     \/ k \in abandoned'
    <3>1. end[k][v].step \in EndSteps
      BY DEF Typed, TypeOK
    <3>2. CASE v # u
      BY <2>4, <2>5, <2>7, <3>2
    <3>3. CASE v = u /\ Holds(k, u)
      BY <2>2, <2>7, <3>3
    <3>4. CASE v = u /\ ~Holds(k, u)
      BY <2>4, <2>5, <2>7, <3>1, <3>4 DEF Holds, Ending, EndSteps
    <3> QED BY <3>2, <3>3, <3>4
  <2>8. \A k \in Calls : \A w \in Users :
           Invites(seen'[w], k) => Invites(seen[w], k) \/ Invites(box[w], k)
    BY <2>1
  <2> QED BY <2>1, <2>6, <2>7, <2>8, AppFrame
<1> QED BY <1>2, <1>3, <1>4, <1>5

\* What sending a write from the disk does to documents and snapshots.
LEMMA ResendWrites ==
    ASSUME Typed, LeftKnown, NEW u \in Users, NEW x \in left[u],
           Apply(u, x.to, x.doc)
    PROVE  /\ x.call \in Calls
           /\ x.to \in {info[x.call].caller, info[x.call].receiver}
           /\ \A w \in Users : w # x.to => box'[w] = box[w]
           /\ \A k \in Calls : \A w \in Users :
                 /\ Invites(box'[w], k) => Invites(box[w], k) \/
                       (k = x.call /\ w = info[k].receiver /\ k \in abandoned)
                 /\ Invites(seen'[w], k) => Invites(seen[w], k) \/
                       (k = x.call /\ w = info[k].receiver /\ k \in abandoned)
<1>1. box \in [Users -> Doc] /\ seen \in [Users -> Doc] /\ x \in DocWrite
  BY DEF Typed, TypeOK
<1>2. x.call \in Calls /\ x.to \in Users /\ x.doc \in Doc
  BY <1>1 DEF DocWrite
<1>3. \A w \in Users : /\ box'[w] = IF w = x.to THEN x.doc ELSE box[w]
                       /\ seen'[w] = seen[w] \/ (w = x.to /\ seen'[w] = x.doc)
  BY <1>1, <1>2 DEF Apply
<1>4. /\ x.to \in {info[x.call].caller, info[x.call].receiver}
      /\ \A k \in Calls : Invites(x.doc, k) =>
            k = x.call /\ x.to = info[k].receiver /\ k \in abandoned
  BY DEF LeftKnown
<1> QED BY <1>2, <1>3, <1>4

\* So a write from the disk of a killed app keeps the invariant.
LEMMA ResendLive ==
    ASSUME Typed, LiveInv, LeftKnown, NEW u \in Users, Resend(u)
    PROVE  LiveInv'
<1> USE DEF LiveInv
<1>1. PICK x \in left[u] : Apply(u, x.to, x.doc)
  BY DEF Resend
<1>2. UNCHANGED <<info, dial, end, screens, abandoned>>
  BY DEF Resend, history
<1>3. \A k \in Calls : \A w \in Users :
         /\ Invites(box'[w], k) => Invites(box[w], k) \/
               (w = info[k].receiver /\ k \in abandoned)
         /\ Invites(seen'[w], k) => Invites(seen[w], k) \/
               (w = info[k].receiver /\ k \in abandoned)
  BY <1>1, ResendWrites
<1>4. Addressed'
  BY <1>2, <1>3 DEF Addressed
<1>5. Silenced'
  BY <1>2, <1>3, PartiesFixed DEF Silenced
<1>6. DialledFirst'
  BY <1>2 DEF DialledFirst, OnScreen
<1>7. RingIsLive'
  BY <1>2, <1>3 DEF RingIsLive, OnScreen, Ending
<1> QED BY <1>4, <1>5, <1>6, <1>7

\* Every step keeps the invariant.
LEMMA LiveStep == Typed /\ LiveInv /\ LeftKnown /\ [Next]_vars => LiveInv'
<1> SUFFICES ASSUME Typed, LiveInv, LeftKnown, [Next]_vars PROVE LiveInv'
  OBVIOUS
<1>1. CASE Next
  BY <1>1, DialLive, EndLive, AppLive, ResendLive DEF Next
<1>2. CASE UNCHANGED vars
  BY <1>2, LiveStutter DEF vars
<1> QED BY <1>1, <1>2

\* A step that leaves nothing on disk keeps what is known of it, if no call
\* that is over comes back.
LEMMA LeftFrame ==
    ASSUME Typed, LeftKnown, UNCHANGED info, abandoned \subseteq abandoned',
           \A u \in Users : left'[u] \subseteq left[u],
           \A c \in Calls : \A u \in Users :
              /\ end'[c][u].step = "none" => end[c][u].step = "none"
              /\ u = info[c].caller /\ dial[c].step = "done" =>
                    dial'[c].step = "done" /\ (OnScreen(c, u)' => OnScreen(c, u))
    PROVE  LeftKnown'
<1>1. \A c \in Calls : \A u \in Users : Gone(c, u) => Gone(c, u)'
  BY DEF Gone
<1>2. \A u \in Users : \A w \in left[u] : w.call \in Calls
  BY DEF Typed, TypeOK, DocWrite
<1>3. \A u \in Users : \A w \in left'[u] : Gone(w.call, u)'
  BY <1>1, <1>2 DEF LeftKnown
<1>4. \A u \in Users : \A w \in left'[u] :
         /\ w.to \in {info[w.call].caller, info[w.call].receiver}
         /\ \A c \in Calls : Invites(w.doc, c) =>
               c = w.call /\ w.to = info[c].receiver /\ c \in abandoned'
  BY DEF LeftKnown
<1> QED BY <1>3, <1>4 DEF LeftKnown

\* A kill leaves on disk what the handlers of the app were at.
LEMMA CrashLeft ==
    ASSUME Typed, LiveInv, LeftKnown, NEW u \in Users, Crash(u)
    PROVE  LeftKnown'
<1>1. PICK W \in SUBSET Pending(u) : left' = [left EXCEPT ![u] = @ \cup W]
  BY DEF Crash
<1>2. /\ UNCHANGED info /\ abandoned \subseteq abandoned'
      /\ \A k \in Calls : info[k].caller = u /\ Holds(k, u) => k \in abandoned'
      /\ \A w \in Users : screens'[w] = IF w = u THEN {} ELSE screens[w]
  BY DEF Crash, Typed, TypeOK
<1>3. \A k \in Calls :
         dial'[k] = IF info[k].caller = u /\ Dialling(k)
                    THEN [step |-> "done", page |-> {}] ELSE dial[k]
  BY DEF Crash
<1>4. \A k \in Calls : \A w \in Users :
         end'[k][w] = IF w = u /\ end[k][w].step # "none"
                      THEN [step |-> "done", hang |-> FALSE] ELSE end[k][w]
  BY DEF Crash, Typed, TypeOK
<1>5. ASSUME NEW w \in left[u] \cup Pending(u)
      PROVE  /\ w.call \in Calls
             /\ w.to \in {info[w.call].caller, info[w.call].receiver}
             /\ \A c \in Calls : Invites(w.doc, c) =>
                   c = w.call /\ w.to = info[c].receiver /\ c \in abandoned'
             /\ Gone(w.call, u)'
  <2>1. CASE w \in left[u]
    <3>1. w.call \in Calls
      BY <2>1 DEF Typed, TypeOK, DocWrite
    <3>2. Gone(w.call, u)'
      BY <1>2, <1>3, <1>4, <2>1, <3>1 DEF LeftKnown, Gone, OnScreen, Dialling
    <3> QED BY <1>2, <2>1, <3>1, <3>2 DEF LeftKnown
  <2>2. CASE w \in Pending(u)
    <3>1. w.call \in Calls /\ w.call # NoCall
      BY <2>2, CallsAssumption DEF Pending, DocWrite
    <3>2. CASE /\ info[w.call].caller = u
               /\ \/ /\ dial[w.call].step = "setCaller" /\ w.to = u
                     /\ w.doc = [call |-> w.call, hasDialled |-> TRUE]
                  \/ /\ dial[w.call].step = "setReceiver"
                     /\ w.to = info[w.call].receiver
                     /\ w.doc = [call |-> w.call, hasDialled |-> FALSE]
      <4>1. Dialling(w.call) /\ w.call \in abandoned'
        BY <1>2, <3>1, <3>2 DEF Dialling, Holds
      <4>2. Gone(w.call, u)'
        BY <1>2, <1>3, <3>1, <3>2, <4>1 DEF Gone, OnScreen
      <4> QED BY <3>1, <3>2, <4>1, <4>2 DEF Invites
    <3>3. CASE /\ end[w.call][u].step \in {"delCaller", "delReceiver"}
               /\ w.to \in {info[w.call].caller, info[w.call].receiver}
               /\ w.doc = None
      <4>1. Gone(w.call, u)'
        BY <1>4, <3>1, <3>3 DEF Gone
      <4>2. \A c \in Calls : ~Invites(w.doc, c)
        BY <3>3, CallsAssumption DEF Invites, None
      <4> QED BY <3>1, <3>3, <4>1, <4>2
    <3> QED BY <2>2, <3>2, <3>3 DEF Pending
  <2> QED BY <2>1, <2>2
<1>6. ASSUME NEW v \in Users, v # u
      PROVE  \A w \in left'[v] :
                /\ w.to \in {info[w.call].caller, info[w.call].receiver}
                /\ \A c \in Calls : Invites(w.doc, c) =>
                      c = w.call /\ w.to = info[c].receiver /\ c \in abandoned'
                /\ Gone(w.call, v)'
  <2>1. left'[v] = left[v] /\ left[v] \subseteq DocWrite
    BY <1>1, <1>6 DEF Typed, TypeOK
  <2>2. \A w \in left[v] : w.call \in Calls
    BY <2>1 DEF DocWrite
  <2>3. \A w \in left[v] : Gone(w.call, v)'
    BY <1>2, <1>3, <1>4, <1>6, <2>2 DEF LeftKnown, Gone, OnScreen
  <2> QED BY <1>2, <2>1, <2>3 DEF LeftKnown
<1>7. left'[u] \subseteq left[u] \cup Pending(u)
  BY <1>1 DEF Typed, TypeOK
<1> QED BY <1>2, <1>5, <1>6, <1>7 DEF LeftKnown

\* Every step keeps what is known of the writes on disk.
LEMMA LeftStep == Typed /\ LiveInv /\ LeftKnown /\ [Next]_vars => LeftKnown'
<1> SUFFICES ASSUME Typed, LiveInv, LeftKnown, [Next]_vars PROVE LeftKnown'
  OBVIOUS
<1>0. /\ dial \in [Calls -> [step: DialSteps, page: SUBSET Calls]]
      /\ screens \in [Users -> SUBSET Screen]
      /\ left \in [Users -> SUBSET DocWrite]
      /\ end \in [Calls -> [Users -> [step: EndSteps, hang: BOOLEAN]]]
      /\ \A c \in Calls : info[c].caller \in Users
  BY PartiesFixed DEF Typed, TypeOK
<1>1. ASSUME NEW c \in Calls, Dial(c) \/ DialStep(c)
      PROVE  LeftKnown'
  <2>1. UNCHANGED <<info, left, end>> /\ abandoned \subseteq abandoned'
    BY <1>1 DEF Dial, DialStep, MakeCloudCall, MakeCallCaller, MakeCallReceiver,
                PushCallScreen, history
  <2>2. \A k \in Calls : dial[k].step = "done" => dial'[k] = dial[k] /\ k # c
    BY <1>0, <1>1 DEF Dial, DialStep, MakeCloudCall, MakeCallCaller,
                      MakeCallReceiver, PushCallScreen, DialGoto, DialDone
  <2>3. \A w \in Users : \A s \in screens'[w] : s \in screens[w] \/ s.call = c
    <3>1. CASE PushCallScreen(c)
      BY <1>0, <3>1 DEF PushCallScreen, Show
    <3>2. CASE ~PushCallScreen(c)
      <4>1. screens' = screens
        BY <1>1, <3>2 DEF Dial, DialStep, MakeCloudCall, MakeCallCaller,
                          MakeCallReceiver
      <4> QED BY <4>1
    <3> QED BY <3>1, <3>2
  <2>4. \A k \in Calls \ {c} : \A w \in Users : OnScreen(k, w)' => OnScreen(k, w)
    BY <2>3 DEF OnScreen
  <2> QED BY <2>1, <2>2, <2>4, LeftFrame
<1>2. ASSUME NEW c \in Calls, NEW u \in Users,
             Reject(c, u) \/ OnCallEnd(c, u) \/ EndStep(c, u)
      PROVE  LeftKnown'
  <2>1. UNCHANGED <<info, left, dial>>
    BY <1>2 DEF Reject, OnCallEnd, EndStep, EndCallCaller, EndCallReceiver,
                Close, Pop, history
  <2>2. \A k \in Calls : \A w \in Users :
           end'[k][w].step = "none" => end[k][w].step = "none"
    <3>1. CASE Reject(c, u) \/ OnCallEnd(c, u)
      <4>1. PICK b \in BOOLEAN :
               end' = [end EXCEPT ![c][u] = [step |-> "delCaller", hang |-> b]]
        BY <3>1 DEF Reject, OnCallEnd
      <4> QED BY <1>0, <4>1
    <3>2. CASE EndStep(c, u)
      <4>1. PICK s : EndGoto(c, u, s) /\ s # "none"
        BY <3>2 DEF EndStep, EndCallCaller, EndCallReceiver, Close, Pop,
                    EndCallFails, AfterEndCall
      <4> QED BY <4>1, GotoEnd
    <3> QED BY <1>2, <3>1, <3>2
  <2>3. CASE Pop(c, u)
    <3>1. UNCHANGED <<screens, abandoned>> \/ \E S \in SUBSET screens[u] : Dispose(u, S, c)
      BY <2>3 DEF Pop
    <3>2. /\ abandoned \subseteq abandoned'
          /\ \A k \in Calls : \A w \in Users : OnScreen(k, w)' => OnScreen(k, w)
      BY <3>1, DisposeScreens DEF OnScreen
    <3> QED BY <2>1, <2>2, <3>2, LeftFrame
  <2>4. CASE ~Pop(c, u)
    <3>1. UNCHANGED screens /\ abandoned \subseteq abandoned'
      BY <1>2, <2>4 DEF Reject, OnCallEnd, EndStep, EndCallCaller,
                        EndCallReceiver, EndCallFails, Close, history
    <3> QED BY <2>1, <2>2, <3>1, LeftFrame DEF OnScreen
  <2> QED BY <2>3, <2>4
<1>3. ASSUME NEW u \in Users, Deliver(u) \/ Resend(u)
      PROVE  LeftKnown'
  <2>1. UNCHANGED <<info, dial, end, screens, abandoned>>
    BY <1>3 DEF Deliver, Resend, history
  <2>2. \A w \in Users : left'[w] \subseteq left[w]
    BY <1>0, <1>3 DEF Deliver, Resend
  <2> QED BY <2>1, <2>2, LeftFrame DEF OnScreen
<1>4. ASSUME NEW u \in Users, Accept(u)
      PROVE  LeftKnown'
  <2>1. UNCHANGED <<info, left, dial, end, abandoned>>
    BY <1>4 DEF Accept, history
  <2>2. PICK c \in Calls : Rings(u, c) /\ Show(c, u, Page(u))
    BY <1>4 DEF Accept
  \* Whoever answers a call has not placed it.
  <2>3. u # info[c].caller
    BY <2>2, PartiesFixed DEF Rings, LiveInv, Addressed
  <2>4. \A w \in Users : \A s \in screens'[w] :
           s \in screens[w] \/ (s.call = c /\ w = u)
    BY <1>0, <2>2 DEF Show
  <2>5. \A k \in Calls : \A w \in Users :
           w = info[k].caller /\ OnScreen(k, w)' => OnScreen(k, w)
    BY <2>3, <2>4 DEF OnScreen
  <2> QED BY <2>1, <2>5, LeftFrame
<1>5. ASSUME NEW u \in Users, StopFloating(u)
      PROVE  LeftKnown'
  <2>1. UNCHANGED <<info, left, dial, end>>
    BY <1>5 DEF StopFloating
  <2>2. PICK S \in SUBSET screens[u] : Dispose(u, S, NoCall)
    BY <1>5 DEF StopFloating
  <2>3. /\ abandoned \subseteq abandoned'
        /\ \A k \in Calls : \A w \in Users : OnScreen(k, w)' => OnScreen(k, w)
    BY <2>2, DisposeScreens
  <2> QED BY <2>1, <2>3, LeftFrame
<1>6. CASE UNCHANGED vars
  BY <1>6, LeftFrame DEF vars, OnScreen
<1> QED BY <1>1, <1>2, <1>3, <1>4, <1>5, <1>6, CrashLeft DEF Next

\* Initially nobody is invited, and nothing is on a screen, ending or on disk.
LEMMA LiveInit == Init => LiveInv /\ LeftKnown
<1> SUFFICES ASSUME Init PROVE LiveInv /\ LeftKnown
  OBVIOUS
<1>1. /\ \A u \in Users : box[u] = None /\ seen[u] = None /\ screens[u] = {}
      /\ \A c \in Calls : \A u \in Users : end[c][u].step = "none"
      /\ \A c \in Calls : info[c].caller \in Users /\ c # NoCall
  BY CallsAssumption DEF Init, Parties
<1>2. \A c \in Calls : ~Invites(None, c)
  BY <1>1 DEF Invites, None
<1>3. Addressed /\ RingIsLive
  BY <1>1, <1>2 DEF Addressed, RingIsLive
<1>4. Silenced /\ DialledFirst
  BY <1>1 DEF Silenced, DialledFirst, OnScreen
<1>5. LeftKnown
  BY DEF Init, LeftKnown
<1> QED BY <1>3, <1>4, <1>5 DEF LiveInv

\* For any users and calls, however they overlap: an invitation on the server
\* belongs to a caller who is in the call or about to delete it, unless the
\* caller's app lost the call; writes that arrive from the disk of a killed
\* app included.
THEOREM InvitationsAreLive == Spec => []RingIsLive
<1>1. Init => Typed /\ LiveInv /\ LeftKnown
  BY TypeInit, LiveInit
<1>2. Typed /\ LiveInv /\ LeftKnown /\ [Next]_vars
         => (Typed /\ LiveInv /\ LeftKnown)'
  BY TypeStep, LiveStep, LeftStep
<1>3. LiveInv => RingIsLive
  BY DEF LiveInv
<1> QED BY <1>1, <1>2, <1>3, PTL DEF Spec

-----------------------------------------------------------------------------
(***************************************************************************)
(* OngoingIsOnScreen.  A screen whose _onCallEnd has reset isOngoingCall   *)
(* and is about to pop does not count: if the flag is set again meanwhile, *)
(* the screen of the call that set it is there.                            *)
(***************************************************************************)

\* The handler of a hang-up runs on a call screen, and that screen stays.
HangShown ==
    \A c \in Calls : \A u \in Users :
        end[c][u].hang \/ end[c][u].step \in {"close", "pop"} =>
            OnScreen(c, u) \/ u \in torn

\* A handler that has not begun has nothing to hang up.
NotBegun ==
    \A c \in Calls : \A u \in Users :
        end[c][u].step = "none" => ~end[c][u].hang

\* The flag is held by a screen that will reset it.
Held(u) == \E c \in Calls : OnScreen(c, u) /\ end[c][u].step # "pop"

OngoingHeld == \A u \in Users : ongoing[u] => Held(u) \/ u \in torn

OngoingInv == HangShown /\ NotBegun /\ OngoingHeld

\* A step keeps the invariant if the screens it takes away are torn, or
\* belong to a handler that ends there and no longer hold the flag; if it
\* hangs up only what is on screen; and if it sets the flag only with a
\* screen that holds it.
LEMMA OngoingFrame ==
    ASSUME OngoingInv, torn \subseteq torn',
           \A k \in Calls : \A w \in Users :
              /\ OnScreen(k, w) =>
                    \/ OnScreen(k, w)' \/ w \in torn'
                    \/ /\ ~end'[k][w].hang
                       /\ end'[k][w].step \notin {"close", "pop"}
                       /\ end[k][w].step = "pop" \/ ~ongoing'[w]
              /\ end'[k][w].hang \/ end'[k][w].step \in {"close", "pop"} =>
                    \/ end[k][w].hang \/ end[k][w].step \in {"close", "pop"}
                    \/ OnScreen(k, w)'
              /\ end'[k][w].step = "none" /\ end'[k][w].hang =>
                    end[k][w].step = "none" /\ end[k][w].hang,
           \A w \in Users : ongoing'[w] =>
              \/ /\ ongoing[w]
                 /\ \A k \in Calls :
                       end'[k][w].step = "pop" => end[k][w].step = "pop"
              \/ Held(w)' \/ w \in torn'
    PROVE  OngoingInv'
<1>1. HangShown'
  BY DEF OngoingInv, HangShown
<1>2. NotBegun'
  BY DEF OngoingInv, NotBegun
<1>3. OngoingHeld'
  <2> SUFFICES ASSUME NEW w \in Users, ongoing'[w], w \notin torn',
                      ~(Held(w)')
               PROVE  FALSE
    BY DEF OngoingHeld
  <2>1. ongoing[w] /\ \A k \in Calls :
           end'[k][w].step = "pop" => end[k][w].step = "pop"
    OBVIOUS
  <2>2. PICK k \in Calls : OnScreen(k, w) /\ end[k][w].step # "pop"
    BY <2>1 DEF OngoingInv, OngoingHeld, Held
  <2>3. OnScreen(k, w)' /\ end'[k][w].step # "pop"
    BY <2>1, <2>2
  <2> QED BY <2>3 DEF Held
<1> QED BY <1>1, <1>2, <1>3 DEF OngoingInv

\* Showing a screen that is not being popped keeps the invariant.
LEMMA ShowOngoing ==
    ASSUME Typed, OngoingInv, NEW c \in Calls, NEW u \in Users, NEW page,
           Show(c, u, page), end[c][u].step # "pop", UNCHANGED <<end, torn>>
    PROVE  OngoingInv'
<1> DEFINE at == IF screens[u] = {} THEN 0 ELSE Top(screens[u]).at + 1
           s  == [call |-> c, nav |-> page, at |-> at]
<1>1. screens' = [screens EXCEPT ![u] = @ \cup {s}] /\ s.call = c
  BY DEF Show
<1> HIDE DEF s
<1>2. \A w \in Users : screens'[w] = screens[w] \cup (IF w = u THEN {s} ELSE {})
  BY <1>1 DEF Typed, TypeOK
<1>3. \A k \in Calls : \A w \in Users : OnScreen(k, w) => OnScreen(k, w)'
  BY <1>2 DEF OnScreen
<1>4. Held(u)'
  <2>1. OnScreen(c, u)'
    BY <1>1, <1>2 DEF OnScreen
  <2> QED BY <2>1 DEF Held
<1>5. \A w \in Users : ongoing'[w] => ongoing[w] \/ w = u
  BY DEF Show, Typed, TypeOK
<1>6. \A w \in Users : ongoing'[w] => ongoing[w] \/ Held(w)'
  <2> SUFFICES ASSUME NEW w \in Users, ongoing'[w], ~ongoing[w]
               PROVE  Held(w)'
    OBVIOUS
  <2>1. w = u
    BY <1>5
  <2> QED BY <1>4, <2>1
<1> QED BY <1>3, <1>6, OngoingFrame

\* Screens disposed of are torn, but for those of the call that ends.
LEMMA DisposeTorn ==
    ASSUME Typed, NEW u \in Users, NEW S \in SUBSET screens[u], NEW own,
           Dispose(u, S, own)
    PROVE  /\ torn \subseteq torn'
           /\ \A k \in Calls : \A w \in Users :
                 OnScreen(k, w) =>
                    OnScreen(k, w)' \/ w \in torn' \/ (w = u /\ k = own)
<1> DEFINE lost == {s.call : s \in S} \ {own}
<1>1. screens \in [Users -> SUBSET Screen]
  BY DEF Typed, TypeOK
<1>2. /\ screens' = [screens EXCEPT ![u] = @ \ S]
      /\ torn' = IF lost = {} THEN torn ELSE torn \cup {u}
  BY DEF Dispose
<1>3. \A w \in Users : screens'[w] = IF w = u THEN screens[w] \ S ELSE screens[w]
  BY <1>1, <1>2
<1>4. ASSUME NEW s \in S, s.call # own
      PROVE  u \in torn'
  BY <1>2, <1>4
<1>5. ASSUME NEW k \in Calls, NEW w \in Users, OnScreen(k, w)
      PROVE  OnScreen(k, w)' \/ w \in torn' \/ (w = u /\ k = own)
  <2>1. PICK s \in screens[w] : s.call = k
    BY <1>5 DEF OnScreen
  <2>2. CASE w = u /\ s \in S
    BY <1>4, <2>1, <2>2
  <2>3. CASE ~(w = u /\ s \in S)
    BY <1>3, <2>1, <2>3 DEF OnScreen
  <2> QED BY <2>2, <2>3
<1> QED BY <1>2, <1>5

\* EndGoto hangs up nothing new.
LEMMA GotoHang ==
    ASSUME Typed, NEW c \in Calls, NEW u \in Users, NEW s, EndGoto(c, u, s)
    PROVE  /\ end'[c][u].step = s
           /\ end'[c][u].hang => end[c][u].hang /\ s # "done"
           /\ \A k \in Calls : \A w \in Users :
                 k # c \/ w # u => end'[k][w] = end[k][w]
<1>1. end \in [Calls -> [Users -> [step: EndSteps, hang: BOOLEAN]]]
  BY DEF Typed, TypeOK
<1> QED BY <1>1 DEF EndGoto

\* Dialling keeps the invariant.
LEMMA DialOngoing ==
    ASSUME Typed, LiveInv, OngoingInv, NEW c \in Calls, Dial(c) \/ DialStep(c)
    PROVE  OngoingInv'
<1>1. CASE PushCallScreen(c)
  <2> DEFINE u == info[c].caller
  <2>1. u \in Users /\ UNCHANGED <<end, torn>>
    BY <1>1, PartiesFixed DEF PushCallScreen
  <2>2. end[c][u].step # "pop"
    BY <1>1 DEF PushCallScreen, LiveInv, DialledFirst
  <2>3. CASE UNCHANGED <<screens, ongoing>>
    BY <2>1, <2>3, OngoingFrame DEF OnScreen
  <2>4. CASE Show(c, u, dial[c].page)
    <3>1. PICK v \in Users : v = u
      BY <2>1
    <3>2. PICK page : page = dial[c].page
      OBVIOUS
    <3> QED BY <2>1, <2>2, <2>4, <3>1, <3>2, ShowOngoing
  <2> QED BY <1>1, <2>3, <2>4 DEF PushCallScreen
<1>2. CASE Dial(c) \/ MakeCloudCall(c) \/ MakeCallCaller(c) \/ MakeCallReceiver(c)
  <2>1. UNCHANGED <<end, screens, ongoing, torn>>
    BY <1>2 DEF Dial, MakeCloudCall, MakeCallCaller, MakeCallReceiver, history
  <2> QED BY <2>1, OngoingFrame DEF OnScreen
<1> QED BY <1>1, <1>2 DEF DialStep

\* Ending and rejecting a call keep the invariant.
LEMMA EndOngoing ==
    ASSUME Typed, OngoingInv, NEW c \in Calls, NEW u \in Users,
           Reject(c, u) \/ OnCallEnd(c, u) \/ EndStep(c, u)
    PROVE  OngoingInv'
<1>1. end \in [Calls -> [Users -> [step: EndSteps, hang: BOOLEAN]]]
  BY DEF Typed, TypeOK
<1>2. CASE Reject(c, u)
  <2>1. UNCHANGED <<screens, ongoing, torn>>
    BY <1>2 DEF Reject, history
  <2>2. /\ end'[c][u] = [step |-> "delCaller", hang |-> FALSE]
        /\ \A k \in Calls : \A w \in Users :
              k # c \/ w # u => end'[k][w] = end[k][w]
    BY <1>1, <1>2 DEF Reject
  <2> QED BY <2>1, <2>2, OngoingFrame DEF OnScreen
<1>3. CASE OnCallEnd(c, u)
  <2>1. UNCHANGED <<screens, ongoing, torn>>
    BY <1>3 DEF OnCallEnd, history
  <2>2. /\ end'[c][u] = [step |-> "delCaller", hang |-> TRUE]
        /\ \A k \in Calls : \A w \in Users :
              k # c \/ w # u => end'[k][w] = end[k][w]
    BY <1>1, <1>3 DEF OnCallEnd
  <2>3. OnScreen(c, u)'
    <3>1. PICK n \in Nat : \A s \in screens[u] : s.at <= n
      BY DEF Typed, Bounded
    <3>2. screens[u] # {} /\ \A s \in screens[u] : s.at \in Nat
      BY <1>3 DEF OnCallEnd, Typed, TypeOK, Screen
    <3>3. Top(screens[u]) \in screens[u]
      BY <3>1, <3>2, TopExists
    <3> QED BY <1>3, <2>1, <3>3 DEF OnCallEnd, OnScreen
  <2> QED BY <2>1, <2>2, <2>3, OngoingFrame DEF OnScreen
<1>4. CASE EndCallCaller(c, u) \/ EndCallReceiver(c, u)
  <2>1. UNCHANGED <<screens, ongoing, torn>>
    BY <1>4 DEF EndCallCaller, EndCallReceiver
  <2>2. PICK s \in {"delReceiver", "close", "done"} :
           EndGoto(c, u, s) /\ (s = "close" => end[c][u].hang)
    BY <1>4 DEF EndCallCaller, EndCallReceiver, EndCallFails, AfterEndCall
  <2>3. /\ end'[c][u].step = s
        /\ end'[c][u].hang => end[c][u].hang
        /\ \A k \in Calls : \A w \in Users :
              k # c \/ w # u => end'[k][w] = end[k][w]
    BY <2>2, GotoHang
  <2> QED BY <2>1, <2>2, <2>3, OngoingFrame DEF OnScreen
<1>5. CASE Close(c, u)
  <2>1. UNCHANGED <<screens, torn>> /\ end[c][u].step = "close"
    BY <1>5 DEF Close, history
  <2>2. \A w \in Users : ongoing'[w] => ongoing[w] /\ w # u
    BY <1>5 DEF Close, Typed, TypeOK
  <2>3. /\ end'[c][u].step = "pop"
        /\ end'[c][u].hang => end[c][u].hang
        /\ \A k \in Calls : \A w \in Users :
              k # c \/ w # u => end'[k][w] = end[k][w]
    BY <1>5, GotoHang DEF Close
  <2> QED BY <2>1, <2>2, <2>3, OngoingFrame DEF OnScreen
<1>6. CASE Pop(c, u)
  <2>1. UNCHANGED ongoing /\ end[c][u].step = "pop"
    BY <1>6 DEF Pop
  <2>2. /\ end'[c][u].step = "done" /\ ~end'[c][u].hang
        /\ \A k \in Calls : \A w \in Users :
              k # c \/ w # u => end'[k][w] = end[k][w]
    BY <1>6, GotoHang DEF Pop
  <2>3. CASE ~OnScreen(c, u)
    <3>1. UNCHANGED <<screens, torn>>
      BY <1>6, <2>3 DEF Pop
    <3> QED BY <2>1, <2>2, <3>1, OngoingFrame DEF OnScreen
  <2>4. CASE OnScreen(c, u)
    <3>1. PICK S \in SUBSET screens[u] : Dispose(u, S, c)
      BY <1>6, <2>4 DEF Pop
    <3>2. /\ torn \subseteq torn'
          /\ \A k \in Calls : \A w \in Users :
                OnScreen(k, w) =>
                   OnScreen(k, w)' \/ w \in torn' \/ (w = u /\ k = c)
      BY <3>1, DisposeTorn
    <3> QED BY <2>1, <2>2, <3>2, OngoingFrame
  <2> QED BY <2>3, <2>4
<1> QED BY <1>2, <1>3, <1>4, <1>5, <1>6 DEF EndStep

\* Snapshots, answers, floating windows and kills keep the invariant.
LEMMA AppOngoing ==
    ASSUME Typed, OngoingInv, NEW u \in Users,
           Deliver(u) \/ Accept(u) \/ StopFloating(u) \/ Crash(u) \/ Resend(u)
    PROVE  OngoingInv'
<1>1. CASE Deliver(u) \/ Resend(u)
  <2>1. UNCHANGED <<end, screens, ongoing, torn>>
    BY <1>1 DEF Deliver, Resend, history
  <2> QED BY <2>1, OngoingFrame DEF OnScreen
<1>2. CASE Accept(u)
  <2>1. UNCHANGED <<end, torn>>
    BY <1>2 DEF Accept, history
  <2>2. PICK c \in Calls : ~OnScreen(c, u) /\ Show(c, u, Page(u))
    BY <1>2 DEF Accept
  <2>3. CASE end[c][u].step # "pop"
    <3>1. PICK page : page = Page(u)
      OBVIOUS
    <3> QED BY <2>1, <2>2, <2>3, <3>1, ShowOngoing
  \* The screen of c was torn down before its pop.
  <2>4. CASE end[c][u].step = "pop"
    <3>1. u \in torn
      BY <2>2, <2>4 DEF OngoingInv, HangShown
    <3>2. \A k \in Calls : \A w \in Users : OnScreen(k, w) => OnScreen(k, w)'
      <4> DEFINE at == IF screens[u] = {} THEN 0 ELSE Top(screens[u]).at + 1
                 s  == [call |-> c, nav |-> Page(u), at |-> at]
      <4>1. screens' = [screens EXCEPT ![u] = @ \cup {s}]
        BY <2>2 DEF Show
      <4> HIDE DEF s
      <4>2. \A w \in Users : screens[w] \subseteq screens'[w]
        BY <4>1 DEF Typed, TypeOK
      <4> QED BY <4>2 DEF OnScreen
    <3>3. \A w \in Users : ongoing'[w] => ongoing[w] \/ w = u
      BY <2>2 DEF Show, Typed, TypeOK
    <3> QED BY <2>1, <3>1, <3>2, <3>3, OngoingFrame
  <2> QED BY <2>3, <2>4
<1>3. CASE StopFloating(u)
  <2>1. UNCHANGED <<end, ongoing>>
    BY <1>3 DEF StopFloating
  <2>2. PICK S \in SUBSET screens[u] : Dispose(u, S, NoCall)
    BY <1>3 DEF StopFloating
  <2>3. /\ torn \subseteq torn'
        /\ \A k \in Calls : \A w \in Users :
              OnScreen(k, w) =>
                 OnScreen(k, w)' \/ w \in torn' \/ (w = u /\ k = NoCall)
    BY <2>2, DisposeTorn
  <2> QED BY <2>1, <2>3, OngoingFrame, CallsAssumption
<1>4. CASE Crash(u)
  <2>1. UNCHANGED torn
    BY <1>4 DEF Crash
  <2>2. \A w \in Users : screens'[w] = IF w = u THEN {} ELSE screens[w]
    BY <1>4 DEF Crash, Typed, TypeOK
  <2>3. \A w \in Users : ongoing'[w] => ongoing[w] /\ w # u
    BY <1>4 DEF Crash, Typed, TypeOK
  <2>4. \A k \in Calls : \A w \in Users :
           end'[k][w] = IF w = u /\ end[k][w].step # "none"
                        THEN [step |-> "done", hang |-> FALSE] ELSE end[k][w]
    BY <1>4 DEF Crash, Typed, TypeOK
  <2>5. \A k \in Calls : ~end'[k][u].hang /\ end'[k][u].step \in {"none", "done"}
    BY <2>4 DEF OngoingInv, NotBegun
  <2>6. \A k \in Calls : \A w \in Users : w # u =>
           end'[k][w] = end[k][w] /\ (OnScreen(k, w) => OnScreen(k, w)')
    BY <2>2, <2>4 DEF OnScreen
  <2> QED BY <2>1, <2>3, <2>5, <2>6, OngoingFrame
<1> QED BY <1>1, <1>2, <1>3, <1>4

\* Nobody is deaf, for any users and calls: while isOngoingCall hides the
\* PickupScreen and the dial buttons of a user there is a call screen to
\* reset it, unless the screen of another call was torn down.
THEOREM NobodyIsDeaf == Spec => []OngoingIsOnScreen
<1> DEFINE Inv == Typed /\ LiveInv /\ LeftKnown /\ OngoingInv
<1>1. Init => Inv
  <2>1. Init => OngoingInv
    BY DEF Init, OngoingInv, HangShown, NotBegun, OngoingHeld
  <2> QED BY <2>1, TypeInit, LiveInit
<1>2. Inv /\ [Next]_vars => Inv'
  <2> SUFFICES ASSUME Inv, [Next]_vars PROVE OngoingInv'
    BY TypeStep, LiveStep, LeftStep
  <2>1. CASE Next
    BY <2>1, DialOngoing, EndOngoing, AppOngoing DEF Next
  <2>2. CASE UNCHANGED vars
    BY <2>2, OngoingFrame DEF vars, OnScreen
  <2> QED BY <2>1, <2>2
<1>3. Inv => OngoingIsOnScreen
  BY DEF OngoingInv, OngoingHeld, Held, OnScreen, OngoingIsOnScreen
<1> QED BY <1>1, <1>2, <1>3, PTL DEF Spec

-----------------------------------------------------------------------------
(***************************************************************************)
(* RingsUntilSettled.  Only a call that is alive writes documents, and     *)
(* only those of its two users; and calls that share a user and are alive  *)
(* together are recorded as overlapping, for a call comes to life by Dial  *)
(* alone, which looks for its rivals.  A call is alive as long as a killed *)
(* app of its users has a write of it on disk.                             *)
(***************************************************************************)

SharedKnown ==
    \A c, k \in Calls :
        c # k /\ Alive(c) /\ Alive(k) /\ Shares(c, k)
            => c \in overlapped /\ k \in overlapped

\* The caller waits and nobody has ended or rejected the call.
Waits(c) ==
    /\ dial[c].step = "push" \/ OnScreen(c, info[c].caller)
    /\ \A u \in Users : end[c][u].step = "none"

RingInv == SharedKnown /\ RingsUntilSettled

\* A step of call c, other than its Dial, keeps the invariant: it brings no
\* call to life, writes nothing but the documents of its own users, and does
\* not take away its own invitation while its caller waits.
LEMMA RingFrame ==
    ASSUME Typed, RingInv, NEW c \in Calls, UNCHANGED <<info, overlapped>>,
           \A k \in Calls : Dialling(k)' => Dialling(k),
           \A k \in Calls : \A w \in Users :
              /\ OnScreen(k, w)' => Alive(k)
              /\ Ending(k, w)' => Alive(k)
              /\ Invites(box'[w], k) => Alive(k)
              /\ Invites(seen'[w], k) => Alive(k)
              /\ \A x \in left'[w] : x.call = k => x \in left[w] \/ Alive(k),
           \A w \in Users : box'[w] # box[w] =>
              Alive(c) /\ w \in {info[c].caller, info[c].receiver},
           \A k \in Calls : Waits(k)' =>
              Waits(k) \/ Invites(box'[info[k].receiver], k),
           box' # box /\ Waits(c)' => Invites(box'[info[c].receiver], c)
    PROVE  RingInv'
<1>1. ASSUME NEW k \in Calls, Alive(k)' PROVE Alive(k)
  <2>1. CASE Dialling(k)'
    BY <2>1 DEF Alive
  <2>2. ASSUME NEW w \in Users,
               \/ OnScreen(k, w)' \/ Ending(k, w)'
               \/ Invites(box'[w], k) \/ Invites(seen'[w], k)
               \/ \E x \in left'[w] : x.call = k
        PROVE  Alive(k)
    BY <2>2 DEF Alive
  <2> QED BY <1>1, <2>1, <2>2 DEF Alive
<1>2. SharedKnown'
  BY <1>1 DEF RingInv, SharedKnown, Shares
<1>3. RingsUntilSettled'
  <2> SUFFICES ASSUME NEW k \in Calls, k \notin overlapped, Waits(k)'
               PROVE  Invites(box'[info[k].receiver], k)
    BY DEF RingsUntilSettled, Waits
  <2>1. info[k].receiver \in Users /\ info[k].caller \in Users
    BY PartiesFixed
  <2>2. CASE Waits(k) /\ box'[info[k].receiver] = box[info[k].receiver]
    BY <2>2 DEF RingInv, RingsUntilSettled, Waits
  <2>3. CASE Waits(k) /\ box'[info[k].receiver] # box[info[k].receiver]
    <3>1. Alive(c) /\ info[k].receiver \in {info[c].caller, info[c].receiver}
      BY <2>1, <2>3
    <3>2. Shares(c, k)
      BY <3>1 DEF Shares
    <3>3. Alive(k)
      BY <2>1, <2>3 DEF Alive, Waits, Dialling
    <3>4. k = c
      BY <3>1, <3>2, <3>3 DEF RingInv, SharedKnown
    <3> QED BY <2>3, <3>4
  <2> QED BY <2>2, <2>3
<1> QED BY <1>2, <1>3 DEF RingInv

\* Dial brings its call to life and records the rivals it finds.
LEMMA DialRing ==
    ASSUME Typed, LiveInv, RingInv, NEW c \in Calls, Dial(c)
    PROVE  RingInv'
<1> DEFINE rival == {k \in Calls \ {c} : Alive(k) /\ Shares(c, k)}
<1>1. /\ UNCHANGED <<info, left, end, box, seen, screens>> /\ dial[c].step = "new"
      /\ overlapped' = IF rival = {} THEN overlapped
                       ELSE overlapped \cup rival \cup {c}
  BY DEF Dial
<1>2. dial \in [Calls -> [step: DialSteps, page: SUBSET Calls]]
  BY DEF Typed, TypeOK
<1>3. dial'[c].step = "token" /\ \A k \in Calls \ {c} : dial'[k] = dial[k]
  BY <1>2 DEF Dial
<1>4. \A k \in Calls \ {c} : Alive(k)' => Alive(k)
  BY <1>1, <1>3 DEF Alive, Dialling, OnScreen, Ending
<1>5. SharedKnown'
  <2> SUFFICES ASSUME NEW k \in Calls, NEW l \in Calls, k # l, Alive(k)',
                      Alive(l)', Shares(k, l)
               PROVE  k \in overlapped' /\ l \in overlapped'
    BY <1>1 DEF SharedKnown, Shares
  <2>1. Shares(l, k)
    BY DEF Shares
  <2>2. CASE k = c
    BY <1>1, <1>4, <2>2
  <2>3. CASE l = c
    BY <1>1, <1>4, <2>1, <2>3
  <2>4. CASE k # c /\ l # c
    BY <1>1, <1>4, <2>4 DEF RingInv, SharedKnown
  <2> QED BY <2>2, <2>3, <2>4
<1>6. RingsUntilSettled'
  <2> SUFFICES ASSUME NEW k \in Calls, k \notin overlapped, Waits(k)'
               PROVE  Invites(box[info[k].receiver], k)
    BY <1>1 DEF RingsUntilSettled, Waits
  <2>1. k # c
    BY <1>1, <1>3, PartiesFixed DEF Waits, LiveInv, DialledFirst, OnScreen
  <2> QED BY <1>1, <1>3, <2>1 DEF RingInv, RingsUntilSettled, Waits, OnScreen
<1> QED BY <1>5, <1>6 DEF RingInv

\* The handler of CallUtils.dial keeps the invariant.
LEMMA DialStepRing ==
    ASSUME Typed, LiveInv, RingInv, NEW c \in Calls, DialStep(c)
    PROVE  RingInv'
<1> DEFINE u == info[c].caller
           v == info[c].receiver
<1>1. u \in Users /\ v \in Users /\ u # v
  BY PartiesFixed
<1>2. /\ dial \in [Calls -> [step: DialSteps, page: SUBSET Calls]]
      /\ box \in [Users -> Doc] /\ seen \in [Users -> Doc]
      /\ screens \in [Users -> SUBSET Screen]
  BY DEF Typed, TypeOK
<1>3. /\ UNCHANGED <<info, left, end, overlapped>>
      /\ dial[c].step \in {"token", "setCaller", "setReceiver", "push"}
  BY DEF DialStep, MakeCloudCall, MakeCallCaller, MakeCallReceiver,
         PushCallScreen, history
<1>4. Dialling(c) /\ Alive(c)
  BY <1>1, <1>3 DEF Dialling, Alive
<1>5. ~OnScreen(c, u)
  BY <1>3 DEF LiveInv, DialledFirst
<1>6. \A k \in Calls \ {c} : dial'[k] = dial[k]
  BY <1>2 DEF DialStep, MakeCloudCall, MakeCallCaller, MakeCallReceiver,
              PushCallScreen, DialGoto, DialDone
<1>7. \A k \in Calls : Dialling(k)' => Dialling(k)
  BY <1>4, <1>6 DEF Dialling
<1>8. \A k \in Calls : \A w \in Users : Ending(k, w)' => Alive(k)
  BY <1>3 DEF Ending, Alive
<1>9. \A k \in Calls : \A w \in Users :
         (OnScreen(k, w) \/ Invites(box[w], k) \/ Invites(seen[w], k)) => Alive(k)
  BY DEF Alive
<1>a. ASSUME screens' = screens, dial'[c].step # "push"
      PROVE  \A k \in Calls : Waits(k)' => Waits(k) /\ k # c
  BY <1>1, <1>3, <1>5, <1>6, <1>a DEF Waits, OnScreen
<1>10. CASE MakeCloudCall(c) \/ (DialDone(c) /\ UNCHANGED <<box, seen, screens>>)
  <2>1. UNCHANGED <<box, seen, screens>> /\ dial'[c].step # "push"
    BY <1>2, <1>10 DEF MakeCloudCall, DialGoto, DialDone
  <2> QED BY <1>3, <1>7, <1>8, <1>9, <1>a, <2>1, RingFrame DEF OnScreen
<1>11. CASE /\ Put(u, u, [call |-> c, hasDialled |-> TRUE])
            /\ DialGoto(c, "setReceiver") /\ UNCHANGED screens
  <2>1. \A w \in Users : w # u => box'[w] = box[w] /\ seen'[w] = seen[w]
    BY <1>2, <1>11 DEF Put, Apply
  <2>2. \A k \in Calls : ~Invites(box'[u], k) /\ ~Invites(seen'[u], k)
    BY <1>1, <1>2, <1>11 DEF Put, Apply, Invites
  <2>3. dial'[c].step # "push"
    BY <1>2, <1>11 DEF DialGoto
  <2>4. \A k \in Calls : \A w \in Users :
           /\ Invites(box'[w], k) => Alive(k)
           /\ Invites(seen'[w], k) => Alive(k)
    BY <1>9, <2>1, <2>2
  <2> QED BY <1>3, <1>4, <1>7, <1>8, <1>9, <1>11, <1>a, <2>1, <2>3, <2>4,
             RingFrame DEF OnScreen
<1>12. CASE /\ Put(u, v, [call |-> c, hasDialled |-> FALSE])
            /\ DialGoto(c, "push") /\ UNCHANGED screens
  <2>1. seen' = seen /\ \A w \in Users : w # v => box'[w] = box[w]
    BY <1>1, <1>2, <1>12 DEF Put, Apply
  <2>2. Invites(box'[v], c) /\ \A k \in Calls : Invites(box'[v], k) => k = c
    BY <1>1, <1>2, <1>12 DEF Put, Apply, Invites
  <2>3. \A k \in Calls : \A w \in Users :
           /\ Invites(box'[w], k) => Alive(k)
           /\ Invites(seen'[w], k) => Alive(k)
    BY <1>4, <1>9, <2>1, <2>2
  <2>4. \A k \in Calls : Waits(k)' => Waits(k) \/ Invites(box'[info[k].receiver], k)
    BY <1>3, <1>6, <1>12, <2>2 DEF Waits, OnScreen
  <2> QED BY <1>3, <1>4, <1>7, <1>8, <1>9, <1>12, <2>1, <2>2, <2>3, <2>4,
             RingFrame DEF OnScreen
<1>13. CASE PushCallScreen(c)
  <2>1. UNCHANGED <<box, seen>> /\ dial[c].step = "push" /\ dial'[c].step = "done"
    BY <1>2, <1>13 DEF PushCallScreen, DialDone
  <2>2. \A w \in Users : \A s \in screens'[w] : s \in screens[w] \/ s.call = c
    BY <1>1, <1>2, <1>13 DEF PushCallScreen, Show
  <2>3. \A k \in Calls : \A w \in Users :
           OnScreen(k, w)' => OnScreen(k, w) \/ k = c
    BY <2>2 DEF OnScreen
  <2>4. \A k \in Calls : Waits(k)' => Waits(k)
    BY <1>3, <1>6, <2>1, <2>3, PartiesFixed DEF Waits, OnScreen
  <2> QED BY <1>3, <1>4, <1>7, <1>8, <1>9, <2>1, <2>3, <2>4, RingFrame
<1> QED BY <1>10, <1>11, <1>12, <1>13
        DEF DialStep, MakeCallCaller, MakeCallReceiver

\* What ends a call, or a screen, keeps the invariant: nothing comes to life,
\* and whoever deletes an invitation has ended or rejected the call.
LEMMA EndRing ==
    ASSUME Typed, LiveInv, RingInv, NEW c \in Calls, NEW u \in Users,
           Reject(c, u) \/ OnCallEnd(c, u) \/ EndStep(c, u)
    PROVE  RingInv'
<1> DEFINE v == info[c].caller
           r == info[c].receiver
<1>1. v \in Users /\ r \in Users /\ v # r
  BY PartiesFixed
<1>2. /\ end \in [Calls -> [Users -> [step: EndSteps, hang: BOOLEAN]]]
      /\ box \in [Users -> Doc] /\ seen \in [Users -> Doc]
  BY DEF Typed, TypeOK
<1>3. UNCHANGED <<info, left, dial, overlapped>>
  BY DEF Reject, OnCallEnd, EndStep, EndCallCaller, EndCallReceiver, Close, Pop,
         history
<1>4. /\ \A k \in Calls : \A w \in Users : k # c \/ w # u => end'[k][w] = end[k][w]
      /\ end'[c][u].step # "none"
  <2>1. CASE Reject(c, u) \/ OnCallEnd(c, u)
    BY <1>2, <2>1 DEF Reject, OnCallEnd
  <2>2. CASE EndStep(c, u)
    <3>1. PICK s : EndGoto(c, u, s) /\ s # "none"
      BY <2>2 DEF EndStep, EndCallCaller, EndCallReceiver, Close, Pop,
                  EndCallFails, AfterEndCall
    <3> QED BY <3>1, GotoEnd
  <2> QED BY <2>1, <2>2
<1>5. \A k \in Calls : \A w \in Users :
         ( \/ OnScreen(k, w) \/ Ending(k, w)
           \/ Invites(box[w], k) \/ Invites(seen[w], k) ) => Alive(k)
  BY DEF Alive
<1>6. \A k \in Calls : \A w \in Users : OnScreen(k, w)' => OnScreen(k, w)
  <2>1. CASE UNCHANGED screens
    BY <2>1 DEF OnScreen
  <2>2. ASSUME NEW S \in SUBSET screens[u], Dispose(u, S, c)
        PROVE  \A k \in Calls : \A w \in Users : OnScreen(k, w)' => OnScreen(k, w)
    BY <2>2, DisposeScreens
  <2>3. CASE Pop(c, u)
    <3>1. UNCHANGED screens \/ \E S \in SUBSET screens[u] : Dispose(u, S, c)
      BY <2>3 DEF Pop
    <3> QED BY <2>1, <2>2, <3>1
  <2> QED BY <2>1, <2>3 DEF Reject, OnCallEnd, EndStep, EndCallCaller,
                            EndCallReceiver, Close
<1>7. \A k \in Calls : Waits(k)' => Waits(k) /\ k # c
  BY <1>1, <1>3, <1>4, <1>6, PartiesFixed DEF Waits, OnScreen
<1>8. ASSUME \/ UNCHANGED box
             \/ Ending(c, u) /\ \E w \in {v, r} : Put(u, w, None),
             \A k \in Calls : \A w \in Users : Invites(seen'[w], k) => Invites(seen[w], k),
             Ending(c, u)' => Alive(c)
      PROVE  RingInv'
  <2>1. \A w \in Users : box'[w] # box[w] => Alive(c) /\ w \in {v, r}
    BY <1>1, <1>2, <1>5, <1>8 DEF Put, Apply
  <2>2. \A k \in Calls : \A w \in Users : Invites(box'[w], k) => Invites(box[w], k)
    BY <1>1, <1>8, PutNone
  <2>3. \A k \in Calls : \A w \in Users : Ending(k, w)' => Alive(k)
    BY <1>4, <1>5, <1>8 DEF Ending
  <2>4. \A k \in Calls : Dialling(k)' => Dialling(k)
    BY <1>3 DEF Dialling
  <2> QED BY <1>3, <1>5, <1>6, <1>7, <1>8, <2>1, <2>2, <2>3, <2>4, RingFrame
<1>9. CASE Reject(c, u)
  <2>1. Alive(c)
    BY <1>5, <1>9 DEF Reject, Rings
  <2>2. UNCHANGED <<box, seen>>
    BY <1>9 DEF Reject
  <2> QED BY <1>8, <2>1, <2>2
<1>10. CASE OnCallEnd(c, u)
  <2>1. OnScreen(c, u)
    BY <1>10, PageType DEF OnCallEnd, OnScreen
  <2>2. UNCHANGED <<box, seen>> /\ Alive(c)
    BY <1>5, <1>10, <2>1 DEF OnCallEnd
  <2> QED BY <1>8, <2>2
<1>11. CASE EndCallCaller(c, u) \/ EndCallReceiver(c, u)
  <2>1. Ending(c, u)
    BY <1>11 DEF EndCallCaller, EndCallReceiver, Ending
  <2>2. UNCHANGED <<box, seen>> \/ \E w \in {v, r} : Put(u, w, None)
    BY <1>11 DEF EndCallCaller, EndCallReceiver, EndCallFails
  <2>3. \A k \in Calls : \A w \in Users : Invites(seen'[w], k) => Invites(seen[w], k)
    BY <1>1, <2>2, PutNone
  <2> QED BY <1>5, <1>8, <2>1, <2>2, <2>3
<1>12. CASE Close(c, u) \/ Pop(c, u)
  <2>1. UNCHANGED <<box, seen>>
    BY <1>12 DEF Close, Pop
  <2>2. end'[c][u].step \in {"pop", "done"}
    BY <1>12, GotoEnd DEF Close, Pop
  <2> QED BY <1>8, <2>1, <2>2 DEF Ending
<1> QED BY <1>9, <1>10, <1>11, <1>12 DEF EndStep

\* Snapshots, answers, floating windows and kills keep the invariant.
LEMMA AppRing ==
    ASSUME Typed, LiveInv, RingInv, NEW u \in Users,
           Deliver(u) \/ Accept(u) \/ StopFloating(u) \/ Crash(u)
    PROVE  RingInv'
<1>1. /\ box \in [Users -> Doc] /\ seen \in [Users -> Doc]
      /\ screens \in [Users -> SUBSET Screen]
      /\ \A k \in Calls : info[k].caller \in Users
  BY PartiesFixed DEF Typed, TypeOK
<1>2. UNCHANGED <<info, box, overlapped>>
  BY DEF Deliver, Accept, StopFloating, Crash, history
<1>3. \A k \in Calls : \A w \in Users :
         ( \/ OnScreen(k, w) \/ Ending(k, w)
           \/ Invites(box[w], k) \/ Invites(seen[w], k) ) => Alive(k)
  BY DEF Alive
<1>4. ASSUME \A k \in Calls :
               /\ Dialling(k)' => Dialling(k)
               /\ dial'[k].step = "push" => dial[k].step = "push",
             \A k \in Calls : \A w \in Users :
               /\ OnScreen(k, w)' => Alive(k)
               /\ OnScreen(k, w)' /\ w = info[k].caller => OnScreen(k, w)
               /\ Ending(k, w)' => Alive(k)
               /\ end'[k][w].step = "none" => end[k][w].step = "none"
               /\ Invites(seen'[w], k) => Alive(k)
               /\ \A x \in left'[w] : x.call = k => x \in left[w] \/ Alive(k)
      PROVE  RingInv'
  <2>1. \A k \in Calls : Waits(k)' => Waits(k)
    BY <1>1, <1>2, <1>4 DEF Waits
  <2>2. ASSUME NEW c \in Calls PROVE RingInv'
    BY <1>2, <1>3, <1>4, <2>1, RingFrame
  <2>3. CASE Calls = {}
    BY <2>3 DEF RingInv, SharedKnown, RingsUntilSettled
  <2> QED BY <2>2, <2>3
<1>5. CASE Deliver(u)
  <2>1. UNCHANGED <<dial, left, end, screens>>
    BY <1>5 DEF Deliver
  <2>2. \A w \in Users : seen'[w] = seen[w] \/ seen'[w] = box[w]
    BY <1>1, <1>5 DEF Deliver
  <2> QED BY <1>2, <1>3, <1>4, <2>1, <2>2 DEF Dialling, OnScreen, Ending
<1>6. CASE Accept(u)
  <2>1. UNCHANGED <<dial, left, end, seen>>
    BY <1>6 DEF Accept
  <2>2. PICK c \in Calls : Rings(u, c) /\ Show(c, u, Page(u))
    BY <1>6 DEF Accept
  \* Whoever answers a call has not placed it.
  <2>3. u # info[c].caller /\ Alive(c)
    BY <1>3, <2>2, PartiesFixed DEF Rings, LiveInv, Addressed
  <2>4. \A w \in Users : \A s \in screens'[w] :
           s \in screens[w] \/ (s.call = c /\ w = u)
    BY <1>1, <2>2 DEF Show
  <2>5. \A k \in Calls : \A w \in Users :
           OnScreen(k, w)' => OnScreen(k, w) \/ (k = c /\ w = u)
    BY <2>4 DEF OnScreen
  <2> QED BY <1>2, <1>3, <1>4, <2>1, <2>3, <2>5 DEF Dialling, Ending
<1>7. CASE StopFloating(u)
  <2>1. UNCHANGED <<dial, left, end, seen>>
    BY <1>7 DEF StopFloating
  <2>2. PICK S \in SUBSET screens[u] : Dispose(u, S, NoCall)
    BY <1>7 DEF StopFloating
  <2>3. \A k \in Calls : \A w \in Users : OnScreen(k, w)' => OnScreen(k, w)
    BY <2>2, DisposeScreens
  <2> QED BY <1>2, <1>3, <1>4, <2>1, <2>3 DEF Dialling, Ending
<1>8. CASE Crash(u)
  <2>1. seen' = seen /\ \A w \in Users : screens'[w] \subseteq screens[w]
    BY <1>1, <1>8 DEF Crash
  <2>2. \A k \in Calls : dial'[k] = dial[k] \/ dial'[k].step = "done"
    BY <1>8 DEF Crash
  <2>3. \A k \in Calls : \A w \in Users :
           \/ end'[k][w] = end[k][w]
           \/ end'[k][w].step = "done"
    BY <1>8 DEF Crash, Typed, TypeOK
  <2>4. \A k \in Calls : \A w \in Users : OnScreen(k, w)' => OnScreen(k, w)
    BY <2>1 DEF OnScreen
  <2>5. \A k \in Calls : \A w \in Users : \A x \in left'[w] :
           x.call = k => x \in left[w] \/ Alive(k)
    <3>1. PICK W \in SUBSET Pending(u) : left' = [left EXCEPT ![u] = @ \cup W]
      BY <1>8 DEF Crash
    <3>2. \A w \in Users : \A x \in left'[w] : x \in left[w] \/ (w = u /\ x \in Pending(u))
      BY <3>1 DEF Typed, TypeOK
    <3>3. \A x \in Pending(u) : Dialling(x.call) \/ Ending(x.call, u)
      BY DEF Pending, Dialling, Ending
    <3> QED BY <1>3, <3>2, <3>3 DEF Alive
  <2> QED BY <1>2, <1>3, <1>4, <2>1, <2>2, <2>3, <2>4, <2>5 DEF Dialling, Ending
<1> QED BY <1>5, <1>6, <1>7, <1>8

\* So does a write from the disk of a killed app: its call is alive by it, and
\* no longer one for which its caller waits.
LEMMA ResendRing ==
    ASSUME Typed, LeftKnown, RingInv, NEW u \in Users, Resend(u)
    PROVE  RingInv'
<1>1. PICK x \in left[u] : /\ Apply(u, x.to, x.doc)
                           /\ left' = [left EXCEPT ![u] = @ \ {x}]
  BY DEF Resend
<1>2. UNCHANGED <<info, dial, end, screens, overlapped>>
  BY DEF Resend, history
<1>3. /\ x.call \in Calls
      /\ x.to \in {info[x.call].caller, info[x.call].receiver}
      /\ \A w \in Users : w # x.to => box'[w] = box[w]
      /\ \A k \in Calls : \A w \in Users :
            /\ Invites(box'[w], k) => Invites(box[w], k) \/ k = x.call
            /\ Invites(seen'[w], k) => Invites(seen[w], k) \/ k = x.call
  BY <1>1, ResendWrites
<1>4. Alive(x.call)
  BY DEF Alive
<1>5. ~Waits(x.call)
  BY <1>3, PartiesFixed DEF LeftKnown, Gone, Waits
<1>6. \A k \in Calls : Waits(k)' => Waits(k)
  BY <1>2 DEF Waits, OnScreen
<1>7. \A w \in Users : left'[w] \subseteq left[w]
  BY <1>1 DEF Typed, TypeOK
<1>8. \A k \in Calls : Dialling(k)' => Dialling(k)
  BY <1>2 DEF Dialling
<1>9. \A k \in Calls : \A w \in Users :
         /\ OnScreen(k, w)' => Alive(k)
         /\ Ending(k, w)' => Alive(k)
         /\ Invites(box'[w], k) => Alive(k)
         /\ Invites(seen'[w], k) => Alive(k)
  BY <1>2, <1>3, <1>4 DEF Alive, OnScreen, Ending
<1> QED BY <1>2, <1>3, <1>4, <1>5, <1>6, <1>7, <1>8, <1>9, RingFrame

\* For any users and calls: while a caller waits and nobody has ended or
\* rejected the call, the receiver's invitation is on the server, if the call
\* overlapped with no other call of its two users, one of which a write was
\* still on the disk of a killed app included.
THEOREM CallersAreHeard == Spec => []RingsUntilSettled
<1>1. Init => RingInv
  <2> SUFFICES ASSUME Init PROVE RingInv
    OBVIOUS
  <2>1. /\ \A u \in Users : box[u] = None /\ seen[u] = None /\ screens[u] = {}
        /\ \A c \in Calls : \A u \in Users : end[c][u].step = "none"
        /\ \A c \in Calls : dial[c].step = "new" /\ c # NoCall
        /\ \A u \in Users : left[u] = {}
    BY CallsAssumption DEF Init
  <2>2. \A c \in Calls : ~Alive(c)
    BY <2>1 DEF Alive, Dialling, OnScreen, Ending, Invites, None
  <2>3. \A c \in Calls : info[c].caller \in Users
    BY DEF Init, Parties
  <2> QED BY <2>1, <2>2, <2>3 DEF RingInv, SharedKnown, RingsUntilSettled, OnScreen
<1>2. Typed /\ LiveInv /\ LeftKnown /\ RingInv /\ [Next]_vars => RingInv'
  <2> SUFFICES ASSUME Typed, LiveInv, LeftKnown, RingInv, [Next]_vars
               PROVE  RingInv'
    OBVIOUS
  <2>1. CASE UNCHANGED vars
    BY <2>1 DEF vars, RingInv, SharedKnown, RingsUntilSettled, Alive, Shares,
                Dialling, OnScreen, Ending
  <2> QED BY <2>1, DialRing, DialStepRing, EndRing, AppRing, ResendRing DEF Next
<1>3. Init => Typed /\ LiveInv /\ LeftKnown
  BY TypeInit, LiveInit
<1>4. Typed /\ LiveInv /\ LeftKnown /\ [Next]_vars
         => (Typed /\ LiveInv /\ LeftKnown)'
  BY TypeStep, LiveStep, LeftStep
<1>5. RingInv => RingsUntilSettled
  BY DEF RingInv
<1> QED BY <1>1, <1>2, <1>3, <1>4, <1>5, PTL DEF Spec
=============================================================================
