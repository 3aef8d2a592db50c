--------------------------- MODULE MatchingProofs ---------------------------
(***************************************************************************)
(* Matching: its invariants hold for any users, any number of handlers at  *)
(* once and any number of taps.                                            *)
(***************************************************************************)
EXTENDS Matching, TLAPS

\* What is known of a pair before its match document is written.
Evidence ==
    /\ \A p \in Ids : interaction[p] # "none" => p \in acted
    /\ \A h \in Handlers : Underway(h) => job[h].id \in acted
    /\ \A h \in Handlers :
          Underway(h) /\ job[h].step = "createConversation"
             => Reverse(job[h].id) \in acted
    /\ \A j \in left :
          j.step = "createConversation" /\ j.kind = "like"
             => Pair(j.id) \subseteq acted

\* The order of the names may be changed, and changed back.
LEMMA ReverseId ==
    ASSUME NEW p \in Ids
    PROVE  Reverse(p) \in Ids /\ Reverse(Reverse(p)) = p
  BY DEF Ids, Reverse

\* A pair is the same from both sides.
LEMMA PairSame ==
    ASSUME NEW p \in Ids, NEW q \in Pair(p)
    PROVE  Pair(q) = Pair(p) /\ q \in Ids
  BY ReverseId DEF Pair

\* The record of a handler in progress.
LEMMA JobFields ==
    ASSUME NEW j \in Jobs
    PROVE  /\ j.id \in Ids /\ j.doc \in Ids /\ j.kind \in Kinds
           /\ j.step \in Steps[j.kind]
           /\ j.step # "idle" /\ j # NoJob
  BY DEF Jobs, Kinds, Steps, NoJob

\* Any step of its kind makes a record of a handler.
LEMMA JobIntro ==
    ASSUME NEW k \in Kinds, NEW s \in Steps[k], NEW p \in Ids, NEW d \in Ids
    PROVE  [step |-> s, kind |-> k, id |-> p, doc |-> d] \in Jobs
  BY DEF Jobs

\* A handler in progress stays one when it goes to a step of its kind.
LEMMA JobStep ==
    ASSUME NEW j \in Jobs, NEW s \in Steps[j.kind]
    PROVE  /\ [j EXCEPT !.step = s] \in Jobs
           /\ [j EXCEPT !.step = s].step = s
           /\ [j EXCEPT !.step = s].kind = j.kind
           /\ [j EXCEPT !.step = s].id = j.id
  BY DEF Jobs

\* A handler at a step other than idle is in progress, and its kind is one
\* that has the step.
LEMMA AtJob ==
    ASSUME TypeOK, NEW h \in Handlers, NEW p, NEW s, At(h, s, p), s # "idle"
    PROVE  /\ job[h] \in Jobs /\ job[h] # NoJob
           /\ p \in Ids /\ job[h].id = p /\ job[h].doc \in Ids
           /\ job[h].kind \in Kinds /\ s \in Steps[job[h].kind]
  <1>1. job[h] # NoJob
    BY DEF At, NoJob
  <1>2. job[h] \in Jobs
    BY <1>1 DEF TypeOK
  <1> QED
    BY <1>1, <1>2, JobFields DEF At

\* Which kinds have which steps.
LEMMA StepKinds ==
    ASSUME NEW k \in Kinds
    PROVE  /\ "createInteraction" \in Steps[k] => k \in {"like", "dislike"}
           /\ "getExistingInteraction" \in Steps[k] => k = "like"
           /\ "interactionNotification" \in Steps[k] => k = "like"
           /\ "createConversation" \in Steps[k] => k \in {"like", "chat"}
           /\ "sayHi" \in Steps[k] => k \in {"like", "chat"}
           /\ "matchNotification" \in Steps[k] => k = "like"
           /\ "deleteMatch" \in Steps[k] => k = "unmatch"
           /\ "deleteTheirs" \in Steps[k] => k = "unmatch"
           /\ "deleteMine" \in Steps[k] => k = "unmatch"
  BY DEF Steps, Kinds

\* Handler h goes on: the others stay, and what its record then says.
LEMMA GotoJob ==
    ASSUME TypeOK, NEW h \in Handlers, job[h] \in Jobs,
           NEW s \in Steps[job[h].kind], Goto(h, s)
    PROVE  /\ job' \in [Handlers -> Jobs \cup {NoJob}]
           /\ \A g \in Handlers \ {h} : job'[g] = job[g]
           /\ job'[h] \in Jobs /\ job'[h] # NoJob
           /\ job'[h].step = s /\ job'[h].kind = job[h].kind
           /\ job'[h].id = job[h].id
  <1>1. job \in [Handlers -> Jobs \cup {NoJob}]
    BY DEF TypeOK
  <1>2. job'[h] = [job[h] EXCEPT !.step = s]
    BY <1>1 DEF Goto
  <1>3. \A g \in Handlers \ {h} : job'[g] = job[g]
    BY <1>1 DEF Goto
  <1>4. /\ job'[h] \in Jobs /\ job'[h].step = s /\ job'[h].kind = job[h].kind
        /\ job'[h].id = job[h].id
    BY <1>2, JobStep
  <1>5. job' \in [Handlers -> Jobs \cup {NoJob}]
    <2>1. DOMAIN job' = Handlers /\ job' = [g \in Handlers |-> job'[g]]
      BY <1>1 DEF Goto
    <2> QED
      BY <1>1, <1>3, <1>4, <2>1
  <1> QED
    BY <1>3, <1>4, <1>5, JobFields

\* Handler h is done: the others stay.
LEMMA FinishJob ==
    ASSUME TypeOK, NEW h \in Handlers, Finish(h)
    PROVE  /\ job' \in [Handlers -> Jobs \cup {NoJob}]
           /\ \A g \in Handlers \ {h} : job'[g] = job[g]
           /\ job'[h] = NoJob
  <1>1. job \in [Handlers -> Jobs \cup {NoJob}]
    BY DEF TypeOK
  <1> QED
    BY <1>1 DEF Finish

\* Handler h starts: the others stay, and it has written nothing yet.
LEMMA StartJob ==
    ASSUME TypeOK, NEW h \in Handlers, NEW k \in Kinds, NEW s \in Steps[k],
           NEW p \in Ids, NEW d \in Ids, Start(h, s, k, p, d)
    PROVE  /\ job' \in [Handlers -> Jobs \cup {NoJob}]
           /\ \A g \in Handlers \ {h} : job'[g] = job[g]
           /\ job[h] = NoJob /\ job'[h].step = s /\ job'[h].kind = k
  <1> DEFINE j == [step |-> s, kind |-> k, id |-> p, doc |-> d]
  <1>1. job \in [Handlers -> Jobs \cup {NoJob}]
    BY DEF TypeOK
  <1>2. j \in Jobs /\ j.step = s /\ j.kind = k
    BY JobIntro
  <1>3. job[h] = NoJob /\ job' = [job EXCEPT ![h] = j]
    BY DEF Start
  <1> HIDE DEF j
  <1> QED
    BY <1>1, <1>2, <1>3

-----------------------------------------------------------------------------
(***************************************************************************)
(* Types.                                                                  *)
(***************************************************************************)

\* Every step keeps the types of the variables.
LEMMA NextType ==
    ASSUME TypeOK, [Next]_vars
    PROVE  TypeOK'
  <1> USE DEF documents, history, Tap
  <1>1. ASSUME NEW p \in Ids, DeleteInteraction(p)
        PROVE  TypeOK'
    BY <1>1 DEF DeleteInteraction, TypeOK, Interactions
  <1>2. ASSUME NEW h \in Handlers, NEW p \in Ids, NEW k \in {"like", "dislike"},
               OnTap(h, k, p)
        PROVE  TypeOK'
    <2>1. k \in Kinds /\ "createInteraction" \in Steps[k]
      BY DEF Kinds, Steps
    <2>2. job' \in [Handlers -> Jobs \cup {NoJob}]
      BY <1>2, <2>1, StartJob DEF OnTap
    <2> QED
      BY <1>2, <2>2 DEF OnTap, TypeOK
  <1>3. ASSUME NEW h \in Handlers, NEW p \in Ids, OnTapSendMessage(h, p)
        PROVE  TypeOK'
    <2>1. "chat" \in Kinds /\ "createConversation" \in Steps["chat"]
      BY DEF Kinds, Steps
    <2>2. job' \in [Handlers -> Jobs \cup {NoJob}]
      BY <1>3, <2>1, StartJob DEF OnTapSendMessage
    <2> QED
      BY <1>3, <2>2 DEF OnTapSendMessage, TypeOK
  <1>4. ASSUME NEW h \in Handlers, NEW p \in Ids, NEW d \in Ids,
               OnTapUnmatch(h, p, d)
        PROVE  TypeOK'
    <2>1. "unmatch" \in Kinds /\ "deleteMatch" \in Steps["unmatch"]
      BY DEF Kinds, Steps
    <2>2. job' \in [Handlers -> Jobs \cup {NoJob}]
      BY <1>4, <2>1, StartJob DEF OnTapUnmatch
    <2> QED
      BY <1>4, <2>2 DEF OnTapUnmatch, TypeOK
  <1>5. ASSUME NEW h \in Handlers, NEW p \in Ids, Step(h, p)
        PROVE  TypeOK'
    <2>1. CASE CreateInteraction(h, p)
      <3>1. /\ job[h] \in Jobs /\ job[h].kind \in {"like", "dislike"}
        BY <2>1, AtJob, StepKinds DEF CreateInteraction
      <3>2. "getExistingInteraction" \in Steps["like"]
        BY DEF Steps
      <3>3. job' \in [Handlers -> Jobs \cup {NoJob}]
        BY <2>1, <3>1, <3>2, GotoJob, FinishJob DEF CreateInteraction
      <3>4. interaction' \in [Ids -> Interactions]
        BY <2>1, <3>1 DEF CreateInteraction, TypeOK, Interactions
      <3> QED
        BY <2>1, <3>3, <3>4 DEF CreateInteraction, TypeOK
    <2>2. CASE GetExistingInteraction(h, p)
      <3>1. job[h] \in Jobs /\ job[h].kind = "like"
        BY <2>2, AtJob, StepKinds DEF GetExistingInteraction
      <3>2. {"createConversation", "interactionNotification"} \subseteq Steps["like"]
        BY DEF Steps
      <3>3. job' \in [Handlers -> Jobs \cup {NoJob}]
        BY <2>2, <3>1, <3>2, GotoJob DEF GetExistingInteraction
      <3> QED
        BY <2>2, <3>3 DEF GetExistingInteraction, TypeOK
    <2>3. CASE InteractionNotification(h, p)
      BY <2>3, FinishJob DEF InteractionNotification, TypeOK
    <2>4. CASE CreateConversation(h, p)
      <3>1. job[h] \in Jobs /\ job[h].kind \in {"like", "chat"}
        BY <2>4, AtJob, StepKinds DEF CreateConversation
      <3>2. "sayHi" \in Steps["like"] /\ "sayHi" \in Steps["chat"]
        BY DEF Steps
      <3>3. job' \in [Handlers -> Jobs \cup {NoJob}]
        BY <2>4, <3>1, <3>2, GotoJob DEF CreateConversation
      <3>4. match' \in [Ids -> Matches]
        BY <2>4, <3>1 DEF CreateConversation, TypeOK, Matches
      <3>5. Pair(p) \subseteq Ids
        BY ReverseId DEF Pair
      <3> QED
        BY <2>4, <3>3, <3>4, <3>5 DEF CreateConversation, TypeOK
    <2>5. CASE SayHi(h, p)
      <3>1. job[h] \in Jobs
        BY <2>5, AtJob DEF SayHi
      <3>2. "matchNotification" \in Steps["like"]
        BY DEF Steps
      <3>3. job' \in [Handlers -> Jobs \cup {NoJob}]
        BY <2>5, <3>1, <3>2, GotoJob, FinishJob DEF SayHi
      <3> QED
        BY <2>5, <3>3 DEF SayHi, TypeOK
    <2>6. CASE MatchNotification(h, p)
      BY <2>6, FinishJob DEF MatchNotification, TypeOK
    <2>7. CASE DeleteMatch(h, p)
      <3>1. job[h] \in Jobs /\ job[h].kind = "unmatch"
        BY <2>7, AtJob, StepKinds DEF DeleteMatch
      <3>2. "deleteTheirs" \in Steps["unmatch"]
        BY DEF Steps
      <3>3. job' \in [Handlers -> Jobs \cup {NoJob}]
        BY <2>7, <3>1, <3>2, GotoJob DEF DeleteMatch
      <3> QED
        BY <2>7, <3>3 DEF DeleteMatch, TypeOK, Matches
    <2>8. CASE DeleteTheirs(h, p)
      <3>1. job[h] \in Jobs /\ job[h].kind = "unmatch"
        BY <2>8, AtJob, StepKinds DEF DeleteTheirs
      <3>2. "deleteMine" \in Steps["unmatch"]
        BY DEF Steps
      <3>3. job' \in [Handlers -> Jobs \cup {NoJob}]
        BY <2>8, <3>1, <3>2, GotoJob DEF DeleteTheirs
      <3> QED
        BY <2>8, <3>3 DEF DeleteTheirs, TypeOK, Interactions
    <2>9. CASE DeleteMine(h, p)
      BY <2>9, FinishJob DEF DeleteMine, TypeOK, Interactions
    <2> QED
      BY <1>5, <2>1, <2>2, <2>3, <2>4, <2>5, <2>6, <2>7, <2>8, <2>9 DEF Step
  <1>6. ASSUME NEW h \in Handlers, NEW p \in Ids, GetFromCache(h, p)
        PROVE  TypeOK'
    <2>1. job[h] \in Jobs /\ job[h].kind = "like"
      BY <1>6, AtJob, StepKinds DEF GetFromCache
    <2>2. "interactionNotification" \in Steps["like"]
      BY DEF Steps
    <2>3. job' \in [Handlers -> Jobs \cup {NoJob}]
      BY <1>6, <2>1, <2>2, GotoJob DEF GetFromCache
    <2>4. Pair(p) \subseteq Ids
      BY ReverseId DEF Pair
    <2> QED
      BY <1>6, <2>3, <2>4 DEF GetFromCache, TypeOK
  <1>7. ASSUME NEW h \in Handlers, NEW p \in Ids, Fail(h, p)
        PROVE  TypeOK'
    <2>1. job[h] \in Jobs
      BY <1>7 DEF Fail, TypeOK
    <2>2. job[h].step = "deleteTheirs" => "deleteMine" \in Steps[job[h].kind]
      BY <2>1, JobFields, StepKinds DEF Steps
    <2>3. job' \in [Handlers -> Jobs \cup {NoJob}]
      BY <1>7, <2>1, <2>2, GotoJob, FinishJob DEF Fail
    <2>4. Pair(p) \subseteq Ids
      BY ReverseId DEF Pair
    <2> QED
      BY <1>7, <2>3, <2>4 DEF Fail, TypeOK
  <1>8. ASSUME NEW u \in Users, Kill(u)
        PROVE  TypeOK'
    <2>1. \A h \in Handlers : job[h] # NoJob => job[h] \in Jobs
      BY DEF TypeOK
    <2>2. left' \in SUBSET {j \in Jobs : j.step \in Writing}
      BY <1>8, <2>1 DEF Kill, TypeOK
    <2> QED
      BY <1>8, <2>2 DEF Kill, TypeOK
  <1>10. ASSUME NEW u \in Users, Resend(u)
         PROVE  TypeOK'
    <2>1. PICK j \in left : /\ left' = left \ {j}
                            /\ ResendInteraction(j) \/ ResendMatch(j)
      BY <1>10 DEF Resend
    <2>2. j \in Jobs
      BY DEF TypeOK
    <2>3. j.id \in Ids /\ j.doc \in Ids /\ Pair(j.id) \subseteq Ids
      BY <2>2, JobFields, ReverseId DEF Pair
    <2>4. UNCHANGED <<job, taps>>
      BY <1>10 DEF Resend
    <2>5. CASE ResendInteraction(j)
      BY <2>1, <2>3, <2>4, <2>5 DEF ResendInteraction, TypeOK, Interactions
    <2>6. CASE ResendMatch(j)
      BY <2>1, <2>3, <2>4, <2>6 DEF ResendMatch, TypeOK, Matches
    <2> QED
      BY <2>1, <2>5, <2>6
  <1>9. CASE UNCHANGED vars
    BY <1>9 DEF vars, TypeOK
  <1> QED
    BY <1>1, <1>2, <1>3, <1>4, <1>5, <1>6, <1>7, <1>8, <1>9, <1>10 DEF Next

\* Each document, each handler and each history keeps its type, for any
\* number of users and of handlers in progress; a handler is never at a step
\* that its kind does not have.
THEOREM TypeCorrect == Spec => []TypeOK
  <1>1. Init => TypeOK
    BY DEF Init, TypeOK, Interactions, Matches
  <1>2. TypeOK /\ [Next]_vars => TypeOK'
    BY NextType
  <1> QED
    BY <1>1, <1>2, PTL DEF Spec

-----------------------------------------------------------------------------
(***************************************************************************)
(* Mutual likes.                                                           *)
(***************************************************************************)

\* What a handler looks for depends on its own record alone.
LEMMA SameLooking ==
    ASSUME NEW h, NEW p, job'[h] = job[h], Looking(h, p)
    PROVE  Looking(h, p)'
  BY DEF Looking, Underway

\* A step that writes no like keeps MutualLikes if every handler goes on
\* looking, or what it looked for is made, broken or gone.
LEMMA KeepMutual ==
    ASSUME MutualLikes,
           \A p \in Ids : interaction'[p] = "like" => interaction[p] = "like",
           made \subseteq made', broken \subseteq broken',
           \A p \in Ids, h \in Handlers :
              Looking(h, p) => \/ Looking(h, p)'
                               \/ p \in made' \cup broken'
                               \/ interaction[p] = "none"
                               \/ interaction[Reverse(p)] = "none"
    PROVE  MutualLikes'
  BY ReverseId DEF MutualLikes

\* The same, of a step of one handler that leaves the interactions alone.
LEMMA KeepMutualBut ==
    ASSUME MutualLikes, NEW h \in Handlers,
           UNCHANGED interaction,
           made \subseteq made', broken \subseteq broken',
           \A g \in Handlers \ {h} : job'[g] = job[g],
           \A p \in Ids :
              Looking(h, p) => \/ Looking(h, p)'
                               \/ p \in made' \cup broken'
                               \/ interaction[p] = "none"
                               \/ interaction[Reverse(p)] = "none"
    PROVE  MutualLikes'
  <1>1. ASSUME NEW p \in Ids, NEW g \in Handlers, Looking(g, p)
        PROVE  \/ Looking(g, p)' \/ p \in made' \cup broken'
               \/ interaction[p] = "none" \/ interaction[Reverse(p)] = "none"
    BY <1>1, SameLooking
  <1> QED
    BY <1>1, KeepMutual

\* A handler that is neither looking up nor making a match looks for none.
LEMMA NotLooking ==
    ASSUME NEW h, NEW p,
           \/ job[h] = NoJob
           \/ job[h].step \notin {"getExistingInteraction", "createConversation"}
           \/ job[h].kind # "like"
    PROVE  ~Looking(h, p)
  BY DEF Looking, Underway

\* Every step keeps MutualLikes.
LEMMA NextMutual ==
    ASSUME TypeOK, MutualLikes, [Next]_vars
    PROVE  MutualLikes'
  <1> USE DEF documents, history
  <1>1. ASSUME NEW p \in Ids, DeleteInteraction(p)
        PROVE  MutualLikes'
    <2>1. \A q \in Ids : interaction'[q] = "like" => interaction[q] = "like"
      BY <1>1 DEF DeleteInteraction, TypeOK
    <2>2. \A q \in Ids, h \in Handlers : Looking(h, q) => Looking(h, q)'
      BY <1>1, SameLooking DEF DeleteInteraction
    <2> QED
      BY <1>1, <2>1, <2>2, KeepMutual DEF DeleteInteraction
  <1>2. ASSUME NEW h \in Handlers, NEW p \in Ids, NEW d \in Ids, NEW k \in Kinds,
               NEW s \in Steps[k], Start(h, s, k, p, d),
               UNCHANGED <<documents, history>>
        PROVE  MutualLikes'
    BY <1>2, StartJob, NotLooking, KeepMutualBut
  <1>3. ASSUME NEW h \in Handlers, NEW p \in Ids, Step(h, p)
        PROVE  MutualLikes'
    <2>1. CASE CreateInteraction(h, p) /\ job[h].kind = "like"
      <3>1. /\ At(h, "createInteraction", p) /\ Goto(h, "getExistingInteraction")
            /\ made' = made \ Pair(p) /\ broken' = broken \ Pair(p)
            /\ interaction' = [interaction EXCEPT ![p] = "like"]
        BY <2>1 DEF CreateInteraction
      <3>2. job[h] \in Jobs /\ job[h].id = p
        BY <3>1, AtJob
      <3>3. "getExistingInteraction" \in Steps[job[h].kind]
        BY <2>1 DEF Steps
      <3>4. /\ \A g \in Handlers \ {h} : job'[g] = job[g]
            /\ job'[h] # NoJob /\ job'[h].kind = "like" /\ job'[h].id = p
            /\ job'[h].step = "getExistingInteraction"
        BY <2>1, <3>1, <3>2, <3>3, GotoJob
      <3>5. SUFFICES ASSUME NEW q \in Ids,
                            interaction'[q] = "like", interaction'[Reverse(q)] = "like"
                     PROVE  \/ q \in made' \cup broken'
                            \/ \E g \in Handlers : Looking(g, q)'
        BY DEF MutualLikes, Pair
      <3>6. CASE p \in Pair(q)
        BY <3>4, <3>6 DEF Looking, Underway, Pair
      <3>7. CASE p \notin Pair(q)
        <4>1. q \notin Pair(p) /\ p # q /\ p # Reverse(q)
          BY <3>7, PairSame DEF Pair
        <4>2. interaction[q] = "like" /\ interaction[Reverse(q)] = "like"
          BY <3>1, <3>5, <4>1, ReverseId DEF TypeOK
        <4>3. ~Looking(h, q)
          BY <3>1, NotLooking DEF At
        <4> QED
          BY <3>1, <3>4, <4>1, <4>2, <4>3, SameLooking DEF MutualLikes
      <3> QED
        BY <3>6, <3>7
    <2>2. CASE CreateInteraction(h, p) /\ job[h].kind # "like"
      <3>1. /\ At(h, "createInteraction", p) /\ Finish(h)
            /\ interaction' = [interaction EXCEPT ![p] = "dislike"]
            /\ UNCHANGED <<made, broken>>
        BY <2>2 DEF CreateInteraction
      <3>2. \A q \in Ids : interaction'[q] = "like" => interaction[q] = "like"
        BY <3>1 DEF TypeOK
      <3>3. \A q \in Ids : ~Looking(h, q)
        BY <3>1, NotLooking DEF At
      <3>4. \A g \in Handlers \ {h} : job'[g] = job[g]
        BY <3>1, FinishJob
      <3>5. \A q \in Ids, g \in Handlers : Looking(g, q) => Looking(g, q)'
        BY <3>3, <3>4, SameLooking
      <3> QED
        BY <3>1, <3>2, <3>5, KeepMutual
    <2>3. CASE GetExistingInteraction(h, p)
      <3>1. job[h] \in Jobs /\ job[h].kind = "like" /\ job[h].id = p
        BY <2>3, AtJob, StepKinds DEF GetExistingInteraction
      <3>2. {"createConversation", "interactionNotification"} \subseteq Steps[job[h].kind]
        BY <3>1 DEF Steps
      <3>3. \A g \in Handlers \ {h} : job'[g] = job[g]
        BY <2>3, <3>1, <3>2, GotoJob DEF GetExistingInteraction
      <3>4. CASE interaction[Reverse(p)] # "none"
        <4>1. /\ job'[h] # NoJob /\ job'[h].kind = "like" /\ job'[h].id = p
              /\ job'[h].step = "createConversation"
          BY <2>3, <3>1, <3>2, <3>4, GotoJob DEF GetExistingInteraction
        <4>2. \A q \in Ids : Looking(h, q) => Looking(h, q)'
          BY <3>1, <4>1 DEF Looking, Underway, Pair
        <4> QED
          BY <2>3, <3>3, <4>2, KeepMutualBut DEF GetExistingInteraction
      <3>5. CASE interaction[Reverse(p)] = "none"
        <4>1. ASSUME NEW q \in Ids, Looking(h, q)
              PROVE  interaction[q] = "none" \/ interaction[Reverse(q)] = "none"
          <5>1. p \in Pair(q)
            BY <3>1, <4>1 DEF Looking
          <5> QED
            BY <3>5, <5>1, ReverseId DEF Pair
        <4> QED
          BY <2>3, <3>3, <4>1, KeepMutualBut DEF GetExistingInteraction
      <3> QED
        BY <3>4, <3>5
    <2>4. CASE CreateConversation(h, p)
      <3>1. job[h] \in Jobs /\ job[h].kind \in {"like", "chat"} /\ job[h].id = p
        BY <2>4, AtJob, StepKinds DEF CreateConversation
      <3>2. "sayHi" \in Steps[job[h].kind]
        BY <3>1 DEF Steps
      <3>3. \A g \in Handlers \ {h} : job'[g] = job[g]
        BY <2>4, <3>1, <3>2, GotoJob DEF CreateConversation
      <3>4. ASSUME NEW q \in Ids, Looking(h, q)
            PROVE  q \in made'
        <4>1. p \in Pair(q) /\ job[h].kind = "like"
          BY <3>1, <3>4 DEF Looking, Underway
        <4>2. q \in Pair(p)
          BY <4>1, PairSame DEF Pair
        <4> QED
          BY <2>4, <4>1, <4>2 DEF CreateConversation
      <3> QED
        BY <2>4, <3>3, <3>4, KeepMutualBut DEF CreateConversation
    <2>5. CASE InteractionNotification(h, p) \/ MatchNotification(h, p)
      <3>1. \A q \in Ids : ~Looking(h, q)
        BY <2>5, NotLooking DEF InteractionNotification, MatchNotification, At
      <3>2. \A g \in Handlers \ {h} : job'[g] = job[g]
        BY <2>5, FinishJob DEF InteractionNotification, MatchNotification
      <3> QED
        BY <2>5, <3>1, <3>2, KeepMutualBut
           DEF InteractionNotification, MatchNotification
    <2>6. CASE SayHi(h, p)
      <3>1. \A q \in Ids : ~Looking(h, q)
        BY <2>6, NotLooking DEF SayHi, At
      <3>2. job[h] \in Jobs
        BY <2>6, AtJob DEF SayHi
      <3>3. job[h].kind = "like" => "matchNotification" \in Steps[job[h].kind]
        BY DEF Steps
      <3>4. \A g \in Handlers \ {h} : job'[g] = job[g]
        BY <2>6, <3>2, <3>3, GotoJob, FinishJob DEF SayHi
      <3> QED
        BY <2>6, <3>1, <3>4, KeepMutualBut DEF SayHi
    <2>7. CASE DeleteMatch(h, p) \/ DeleteTheirs(h, p) \/ DeleteMine(h, p)
      <3>1. \A q \in Ids : ~Looking(h, q)
        BY <2>7, NotLooking DEF DeleteMatch, DeleteTheirs, DeleteMine, At
      <3>2. job[h] \in Jobs /\ job[h].kind = "unmatch"
        BY <2>7, AtJob, StepKinds DEF DeleteMatch, DeleteTheirs, DeleteMine
      <3>3. {"deleteTheirs", "deleteMine"} \subseteq Steps[job[h].kind]
        BY <3>2 DEF Steps
      <3>4. \A g \in Handlers \ {h} : job'[g] = job[g]
        BY <2>7, <3>2, <3>3, GotoJob, FinishJob
           DEF DeleteMatch, DeleteTheirs, DeleteMine
      <3>5. \A q \in Ids, g \in Handlers : Looking(g, q) => Looking(g, q)'
        BY <3>1, <3>4, SameLooking
      <3>6. \A q \in Ids : interaction'[q] = "like" => interaction[q] = "like"
        BY <2>7, ReverseId DEF DeleteMatch, DeleteTheirs, DeleteMine, TypeOK
      <3> QED
        BY <2>7, <3>5, <3>6, KeepMutual DEF DeleteMatch, DeleteTheirs, DeleteMine
    <2> QED
      BY <1>3, <2>1, <2>2, <2>3, <2>4, <2>5, <2>6, <2>7 DEF Step
  <1>4. ASSUME NEW h \in Handlers, NEW p \in Ids, GetFromCache(h, p)
        PROVE  MutualLikes'
    <2>1. job[h] \in Jobs /\ job[h].kind = "like" /\ job[h].id = p
      BY <1>4, AtJob, StepKinds DEF GetFromCache
    <2>2. "interactionNotification" \in Steps[job[h].kind]
      BY <2>1 DEF Steps
    <2>3. \A g \in Handlers \ {h} : job'[g] = job[g]
      BY <1>4, <2>1, <2>2, GotoJob DEF GetFromCache
    <2>4. \A q \in Ids : Looking(h, q) => q \in broken'
      BY <1>4, <2>1, PairSame DEF GetFromCache, Looking, Pair
    <2> QED
      BY <1>4, <2>3, <2>4, KeepMutualBut DEF GetFromCache
  <1>5. ASSUME NEW h \in Handlers, NEW p \in Ids, Fail(h, p)
        PROVE  MutualLikes'
    <2>1. job[h] \in Jobs /\ job[h].id = p
      BY <1>5 DEF Fail, TypeOK
    <2>2. job[h].step = "deleteTheirs" => "deleteMine" \in Steps[job[h].kind]
      BY <2>1, JobFields, StepKinds DEF Steps
    <2>3. \A g \in Handlers \ {h} : job'[g] = job[g]
      BY <1>5, <2>1, <2>2, GotoJob, FinishJob DEF Fail
    <2>4. \A q \in Ids : Looking(h, q) => q \in broken'
      BY <1>5, <2>1, PairSame DEF Fail, Looking, Pair
    <2> QED
      BY <1>5, <2>3, <2>4, KeepMutualBut DEF Fail
  <1>6. ASSUME NEW u \in Users, Kill(u)
        PROVE  MutualLikes'
    <2>1. ASSUME NEW q \in Ids, NEW h \in Handlers, Looking(h, q)
          PROVE  Looking(h, q)' \/ q \in broken'
      <3>1. CASE job[h] # NoJob /\ job[h].id[1] = u
        BY <1>6, <2>1, <3>1 DEF Kill, Looking
      <3>2. CASE ~(job[h] # NoJob /\ job[h].id[1] = u)
        <4>1. job'[h] = job[h]
          BY <1>6, <3>2 DEF Kill
        <4> QED
          BY <2>1, <4>1, SameLooking
      <3> QED
        BY <3>1, <3>2
    <2> QED
      BY <1>6, <2>1, KeepMutual DEF Kill
  <1>7. CASE UNCHANGED vars
    <2>1. \A q \in Ids, h \in Handlers : Looking(h, q) => Looking(h, q)'
      BY <1>7, SameLooking DEF vars
    <2> QED
      BY <1>7, <2>1, KeepMutual DEF vars
  <1>9. ASSUME NEW u \in Users, Resend(u)
        PROVE  MutualLikes'
    <2>1. PICK j \in left : ResendInteraction(j) \/ ResendMatch(j)
      BY <1>9 DEF Resend
    <2>2. j.id \in Ids
      BY JobFields DEF TypeOK
    <2>3. \A q \in Ids, h \in Handlers : Looking(h, q) => Looking(h, q)'
      BY <1>9, SameLooking DEF Resend
    <2>4. CASE ResendInteraction(j) /\ j.step = "createInteraction" /\ j.kind = "like"
      <3>1. /\ interaction' = [interaction EXCEPT ![j.id] = "like"]
            /\ made' = made \ Pair(j.id) /\ broken' = broken \cup Pair(j.id)
        BY <2>4 DEF ResendInteraction
      <3>2. SUFFICES ASSUME NEW q \in Ids, interaction'[q] = "like",
                            interaction'[Reverse(q)] = "like",
                            q \notin Pair(j.id)
                     PROVE  q \in made' \cup broken' \/ \E h \in Handlers : Looking(h, q)'
        BY <3>1 DEF MutualLikes
      <3>3. Reverse(q) \in Ids /\ q # j.id /\ Reverse(q) # j.id
        BY <2>2, <3>2, ReverseId DEF Pair
      <3>4. interaction[q] = "like" /\ interaction[Reverse(q)] = "like"
        BY <3>1, <3>2, <3>3 DEF TypeOK
      <3>5. q \in made \cup broken \/ \E h \in Handlers : Looking(h, q)
        BY <3>4 DEF MutualLikes
      <3> QED
        BY <2>3, <3>1, <3>2, <3>5
    <2>5. CASE ~(ResendInteraction(j) /\ j.step = "createInteraction" /\ j.kind = "like")
      <3>1. made \subseteq made' /\ broken \subseteq broken'
        BY <2>1, <2>5 DEF ResendInteraction, ResendMatch
      <3>2. \A q \in Ids : interaction'[q] = "like" => interaction[q] = "like"
        BY <2>1, <2>2, <2>5 DEF ResendInteraction, ResendMatch, TypeOK
      <3> QED
        BY <2>3, <3>1, <3>2, KeepMutual
    <2> QED
      BY <2>4, <2>5
  <1>8. ASSUME NEW h \in Handlers, NEW p \in Ids,
               \/ \E k \in {"like", "dislike"} : OnTap(h, k, p)
               \/ OnTapSendMessage(h, p)
               \/ \E d \in Ids : OnTapUnmatch(h, p, d)
        PROVE  MutualLikes'
    <2>1. /\ \A k \in {"like", "dislike"} :
                k \in Kinds /\ "createInteraction" \in Steps[k]
          /\ "chat" \in Kinds /\ "createConversation" \in Steps["chat"]
          /\ "unmatch" \in Kinds /\ "deleteMatch" \in Steps["unmatch"]
      BY DEF Kinds, Steps
    <2> QED
      BY <1>2, <1>8, <2>1 DEF OnTap, OnTapSendMessage, OnTapUnmatch
  <1> QED
    BY <1>1, <1>3, <1>4, <1>5, <1>6, <1>7, <1>8, <1>9 DEF Next

\* Two users who like each other are matched unless a handler is still at it
\* or broke off, or a like came from the disk of a killed app: for any number
\* of users, and of handlers in progress at once, two of the same user with
\* the same other included, and whatever writes killed apps left on disk.
THEOREM MutualLikesMatch == Spec => []MutualLikes
  <1>1. Init => MutualLikes
    BY ReverseId DEF Init, MutualLikes
  <1>2. TypeOK /\ MutualLikes /\ [Next]_vars => MutualLikes'
    BY NextMutual
  <1> QED
    BY <1>1, <1>2, TypeCorrect, PTL DEF Spec

-----------------------------------------------------------------------------
(***************************************************************************)
(* No match on the strength of one side.                                   *)
(***************************************************************************)

\* What the record of handler h says of those who acted.
Backed(h) ==
    Underway(h) =>
        /\ job[h].id \in acted
        /\ job[h].step = "createConversation" => Reverse(job[h].id) \in acted

\* The records stay backed where they do not change and nobody is forgotten.
LEMMA SameBacked ==
    ASSUME NEW h, job'[h] = job[h], acted \subseteq acted', Backed(h)
    PROVE  Backed(h)'
  BY DEF Backed, Underway

\* A step of one handler that writes no document keeps the evidence.
LEMMA KeepEvidence ==
    ASSUME Evidence, MatchedOnlyIfBothActed, NEW h \in Handlers,
           \A p \in Ids : interaction'[p] # "none" => p \in acted',
           \A p \in Ids : match'[p] = "matched" => Pair(p) \subseteq acted',
           acted \subseteq acted',
           \A g \in Handlers \ {h} : job'[g] = job[g],
           Backed(h)', UNCHANGED left
    PROVE  Evidence' /\ MatchedOnlyIfBothActed'
  <1>1. \A g \in Handlers : Backed(g)
    BY DEF Evidence, Backed
  <1>2. \A g \in Handlers : Backed(g)'
    BY <1>1, SameBacked
  <1>3. Evidence'
    BY <1>2 DEF Evidence, Backed, Pair, Reverse
  <1> QED
    BY <1>3 DEF MatchedOnlyIfBothActed, Pair

\* Every step keeps the evidence, and what follows from it.
LEMMA NextEvidence ==
    ASSUME TypeOK, Evidence, MatchedOnlyIfBothActed, [Next]_vars
    PROVE  Evidence' /\ MatchedOnlyIfBothActed'
  <1> USE DEF documents, history
  <1>a. \A g \in Handlers : Backed(g)
    BY DEF Evidence, Backed
  <1>1. ASSUME NEW p \in Ids, DeleteInteraction(p)
        PROVE  Evidence' /\ MatchedOnlyIfBothActed'
    <2>1. \A q \in Ids : interaction'[q] # "none" => q \in acted
      BY <1>1 DEF DeleteInteraction, TypeOK, Evidence
    <2>2. \A g \in Handlers : Backed(g)'
      BY <1>1, <1>a, SameBacked DEF DeleteInteraction
    <2>3. Evidence'
      BY <1>1, <2>1, <2>2 DEF DeleteInteraction, Evidence, Backed, Pair, Reverse
    <2> QED
      BY <1>1, <2>3 DEF DeleteInteraction, MatchedOnlyIfBothActed, Pair
  <1>2. ASSUME NEW h \in Handlers, UNCHANGED <<documents, left>>,
               acted \subseteq acted',
               \A g \in Handlers \ {h} : job'[g] = job[g], Backed(h)'
        PROVE  Evidence' /\ MatchedOnlyIfBothActed'
    <2>1. \A q \in Ids : interaction'[q] # "none" => q \in acted'
      BY <1>2 DEF Evidence
    <2>2. \A q \in Ids : match'[q] = "matched" => Pair(q) \subseteq acted'
      BY <1>2 DEF MatchedOnlyIfBothActed
    <2> QED
      BY <1>2, <2>1, <2>2, KeepEvidence
  <1>3. ASSUME NEW h \in Handlers, NEW p \in Ids, NEW d \in Ids, NEW k \in Kinds,
               NEW s \in Steps[k], Start(h, s, k, p, d),
               k = "like" => s = "createInteraction",
               UNCHANGED <<documents, left, history>>
        PROVE  Evidence' /\ MatchedOnlyIfBothActed'
    <2>1. Backed(h)'
      BY <1>3, StartJob DEF Backed, Underway
    <2> QED
      BY <1>2, <1>3, <2>1, StartJob
  <1>4. ASSUME NEW h \in Handlers, NEW p \in Ids, Step(h, p)
        PROVE  Evidence' /\ MatchedOnlyIfBothActed'
    <2>1. CASE CreateInteraction(h, p)
      <3>1. /\ job[h] \in Jobs /\ job[h].kind \in {"like", "dislike"}
            /\ job[h].id = p
        BY <2>1, AtJob, StepKinds DEF CreateInteraction
      <3>2. "getExistingInteraction" \in Steps["like"]
        BY DEF Steps
      <3>3. \A g \in Handlers \ {h} : job'[g] = job[g]
        BY <2>1, <3>1, <3>2, GotoJob, FinishJob DEF CreateInteraction
      <3>4. Backed(h)'
        <4>1. CASE job[h].kind = "like"
          <5>1. Goto(h, "getExistingInteraction")
            BY <2>1, <4>1 DEF CreateInteraction
          <5>2. job'[h].id = p /\ job'[h].step = "getExistingInteraction"
            BY <3>1, <3>2, <4>1, <5>1, GotoJob
          <5> QED
            BY <2>1, <5>2 DEF CreateInteraction, Backed
        <4>2. CASE job[h].kind = "dislike"
          <5>1. job'[h] = NoJob
            BY <2>1, <4>2, FinishJob DEF CreateInteraction
          <5> QED
            BY <5>1 DEF Backed, Underway
        <4> QED
          BY <3>1, <4>1, <4>2
      <3>5. acted' = acted \cup {p} /\ match' = match /\ left' = left
        BY <2>1 DEF CreateInteraction
      <3>6. \A q \in Ids : interaction'[q] # "none" => q \in acted'
        BY <2>1, <3>5 DEF CreateInteraction, TypeOK, Evidence
      <3>7. \A q \in Ids : match'[q] = "matched" => Pair(q) \subseteq acted'
        BY <3>5 DEF MatchedOnlyIfBothActed
      <3> QED
        BY <3>3, <3>4, <3>5, <3>6, <3>7, KeepEvidence
    <2>2. CASE GetExistingInteraction(h, p)
      <3>1. job[h] \in Jobs /\ job[h].kind = "like" /\ job[h].id = p
        BY <2>2, AtJob, StepKinds DEF GetExistingInteraction
      <3>2. {"createConversation", "interactionNotification"} \subseteq Steps[job[h].kind]
        BY <3>1 DEF Steps
      <3>3. job[h].id \in acted
        BY <2>2, <3>1, <1>a DEF GetExistingInteraction, Backed, Underway, At, NoJob
      <3>4. /\ \A g \in Handlers \ {h} : job'[g] = job[g]
            /\ job'[h].id = p
            /\ job'[h].step = "createConversation"
                  => interaction[Reverse(p)] # "none"
        BY <2>2, <3>1, <3>2, GotoJob DEF GetExistingInteraction
      <3>5. Backed(h)'
        BY <2>2, <3>1, <3>3, <3>4, ReverseId
           DEF GetExistingInteraction, Backed, Evidence
      <3> QED
        BY <1>2, <2>2, <3>4, <3>5 DEF GetExistingInteraction
    <2>3. CASE InteractionNotification(h, p) \/ MatchNotification(h, p)
      <3>1. job'[h] = NoJob /\ \A g \in Handlers \ {h} : job'[g] = job[g]
        BY <2>3, FinishJob DEF InteractionNotification, MatchNotification
      <3>2. Backed(h)'
        BY <3>1 DEF Backed, Underway
      <3> QED
        BY <1>2, <2>3, <3>1, <3>2 DEF InteractionNotification, MatchNotification
    <2>4. CASE CreateConversation(h, p)
      <3>1. /\ job[h] \in Jobs /\ job[h].kind \in {"like", "chat"}
            /\ job[h].id = p /\ job[h] # NoJob
            /\ job[h].step = "createConversation"
        BY <2>4, AtJob, StepKinds DEF CreateConversation, At
      <3>2. "sayHi" \in Steps[job[h].kind]
        BY <3>1 DEF Steps
      <3>3. /\ \A g \in Handlers \ {h} : job'[g] = job[g]
            /\ job'[h].id = p /\ job'[h].kind = job[h].kind
            /\ job'[h].step = "sayHi"
        BY <2>4, <3>1, <3>2, GotoJob DEF CreateConversation
      <3>4. job[h].kind = "like" => Pair(p) \subseteq acted
        BY <3>1, <1>a DEF Backed, Underway, Pair
      <3>5. interaction' = interaction /\ acted' = acted /\ left' = left
        BY <2>4 DEF CreateConversation
      <3>6. Backed(h)'
        BY <3>3, <3>4, <3>5 DEF Backed, Underway, Pair
      <3>7. \A q \in Ids : match'[q] = "matched" => Pair(q) \subseteq acted'
        <4>1. CASE job[h].kind = "like"
          BY <2>4, <3>4, <3>5, <4>1
             DEF CreateConversation, TypeOK, MatchedOnlyIfBothActed
        <4>2. CASE job[h].kind = "chat"
          BY <2>4, <3>5, <4>2 DEF CreateConversation, TypeOK, MatchedOnlyIfBothActed
        <4> QED
          BY <3>1, <4>1, <4>2
      <3>8. \A q \in Ids : interaction'[q] # "none" => q \in acted'
        BY <3>5 DEF Evidence
      <3> QED
        BY <3>3, <3>5, <3>6, <3>7, <3>8, KeepEvidence
    <2>5. CASE SayHi(h, p)
      <3>1. /\ job[h] \in Jobs /\ job[h].id = p /\ job[h] # NoJob
            /\ job[h].step = "sayHi"
        BY <2>5, AtJob DEF SayHi, At
      <3>2. CASE job[h].kind = "like"
        <4>1. "matchNotification" \in Steps[job[h].kind]
          BY <3>2 DEF Steps
        <4>2. /\ \A g \in Handlers \ {h} : job'[g] = job[g]
              /\ job'[h].id = p /\ job'[h].step = "matchNotification"
          BY <2>5, <3>1, <3>2, <4>1, GotoJob DEF SayHi
        <4>3. p \in acted
          BY <3>1, <3>2, <1>a DEF Backed, Underway
        <4>4. Backed(h)'
          BY <2>5, <4>2, <4>3 DEF SayHi, Backed
        <4> QED
          BY <1>2, <2>5, <4>2, <4>4 DEF SayHi
      <3>3. CASE job[h].kind # "like"
        <4>1. job'[h] = NoJob /\ \A g \in Handlers \ {h} : job'[g] = job[g]
          BY <2>5, <3>3, FinishJob DEF SayHi
        <4>2. Backed(h)'
          BY <4>1 DEF Backed, Underway
        <4> QED
          BY <1>2, <2>5, <4>1, <4>2 DEF SayHi
      <3> QED
        BY <3>2, <3>3
    <2>6. CASE DeleteMatch(h, p) \/ DeleteTheirs(h, p) \/ DeleteMine(h, p)
      <3>1. /\ job[h] \in Jobs /\ job[h].kind = "unmatch" /\ job[h].doc \in Ids
            /\ p \in Ids /\ acted' = acted /\ left' = left
        BY <2>6, AtJob, StepKinds DEF DeleteMatch, DeleteTheirs, DeleteMine
      <3>2. {"deleteTheirs", "deleteMine"} \subseteq Steps[job[h].kind]
        BY <3>1 DEF Steps
      <3>3. /\ \A g \in Handlers \ {h} : job'[g] = job[g]
            /\ job'[h] = NoJob \/ job'[h].kind = "unmatch"
        BY <2>6, <3>1, <3>2, GotoJob, FinishJob
           DEF DeleteMatch, DeleteTheirs, DeleteMine
      <3>4. Backed(h)'
        BY <3>3 DEF Backed, Underway
      <3>5. \A q \in Ids : interaction'[q] # "none" => q \in acted'
        BY <2>6, <3>1, ReverseId
           DEF DeleteMatch, DeleteTheirs, DeleteMine, TypeOK, Evidence
      <3>6. \A q \in Ids : match'[q] = "matched" => match[q] = "matched"
        BY <2>6, <3>1 DEF DeleteMatch, DeleteTheirs, DeleteMine, TypeOK
      <3>7. \A q \in Ids : match'[q] = "matched" => Pair(q) \subseteq acted'
        BY <3>1, <3>6 DEF MatchedOnlyIfBothActed
      <3> QED
        BY <3>1, <3>3, <3>4, <3>5, <3>7, KeepEvidence
    <2> QED
      BY <1>4, <2>1, <2>2, <2>3, <2>4, <2>5, <2>6 DEF Step
  <1>5. ASSUME NEW h \in Handlers, NEW p \in Ids, GetFromCache(h, p)
        PROVE  Evidence' /\ MatchedOnlyIfBothActed'
    <2>1. job[h] \in Jobs /\ job[h].kind = "like" /\ job[h].id = p
      BY <1>5, AtJob, StepKinds DEF GetFromCache
    <2>2. "interactionNotification" \in Steps[job[h].kind]
      BY <2>1 DEF Steps
    <2>3. p \in acted
      BY <1>5, <2>1, <1>a DEF GetFromCache, Backed, Underway, At, NoJob
    <2>4. /\ \A g \in Handlers \ {h} : job'[g] = job[g]
          /\ job'[h].id = p /\ job'[h].step = "interactionNotification"
      BY <1>5, <2>1, <2>2, GotoJob DEF GetFromCache
    <2>5. Backed(h)'
      BY <1>5, <2>3, <2>4 DEF GetFromCache, Backed
    <2> QED
      BY <1>2, <1>5, <2>4, <2>5 DEF GetFromCache
  <1>6. ASSUME NEW h \in Handlers, NEW p \in Ids, Fail(h, p)
        PROVE  Evidence' /\ MatchedOnlyIfBothActed'
    <2>1. job[h] \in Jobs
      BY <1>6 DEF Fail, TypeOK
    <2>2. job[h].step = "deleteTheirs"
             => "deleteMine" \in Steps[job[h].kind] /\ job[h].kind = "unmatch"
      BY <2>1, JobFields, StepKinds DEF Steps
    <2>3. /\ \A g \in Handlers \ {h} : job'[g] = job[g]
          /\ job'[h] = NoJob \/ job'[h].kind = "unmatch"
      BY <1>6, <2>1, <2>2, GotoJob, FinishJob DEF Fail
    <2>4. Backed(h)'
      BY <2>3 DEF Backed, Underway
    <2> QED
      BY <1>2, <1>6, <2>3, <2>4 DEF Fail
  <1>7. ASSUME NEW u \in Users, Kill(u)
        PROVE  Evidence' /\ MatchedOnlyIfBothActed'
    <2>1. ASSUME NEW g \in Handlers
          PROVE  job'[g] = NoJob \/ job'[g] = job[g]
      BY <1>7 DEF Kill
    <2>2. acted' = acted /\ interaction' = interaction /\ match' = match
      BY <1>7 DEF Kill
    <2>3. \A g \in Handlers : Backed(g)'
      BY <1>a, <2>1, <2>2 DEF Backed, Underway
    <2>4. ASSUME NEW j \in left', j.step = "createConversation", j.kind = "like"
          PROVE  Pair(j.id) \subseteq acted
      <3>1. j \in left \/ \E g \in Handlers : job[g] # NoJob /\ j = job[g]
        BY <1>7, <2>4 DEF Kill
      <3>2. CASE j \in left
        BY <2>4, <3>2 DEF Evidence
      <3>3. ASSUME NEW g \in Handlers, job[g] # NoJob, j = job[g]
            PROVE  Pair(j.id) \subseteq acted
        BY <1>a, <2>4, <3>3 DEF Backed, Underway, Pair
      <3> QED
        BY <3>1, <3>2, <3>3
    <2>5. Evidence'
      BY <2>2, <2>3, <2>4 DEF Evidence, Backed, Pair, Reverse
    <2> QED
      BY <2>2, <2>5 DEF MatchedOnlyIfBothActed, Pair
  <1>8. CASE UNCHANGED vars
    BY <1>8 DEF vars, Evidence, MatchedOnlyIfBothActed, Underway, Pair
  <1>10. ASSUME NEW u \in Users, Resend(u)
         PROVE  Evidence' /\ MatchedOnlyIfBothActed'
    <2>1. PICK j \in left : /\ left' = left \ {j}
                            /\ ResendInteraction(j) \/ ResendMatch(j)
      BY <1>10 DEF Resend
    <2>2. j.id \in Ids /\ j.doc \in Ids
      BY JobFields DEF TypeOK
    <2>3. acted \subseteq acted' /\ job' = job
      BY <1>10, <2>1 DEF Resend, ResendInteraction, ResendMatch
    <2>4. \A q \in Ids : interaction'[q] # "none" => q \in acted'
      <3>1. CASE ResendInteraction(j)
        BY <2>2, <3>1, ReverseId DEF ResendInteraction, TypeOK, Evidence
      <3>2. CASE ResendMatch(j)
        BY <3>2 DEF ResendMatch, Evidence
      <3> QED
        BY <2>1, <3>1, <3>2
    <2>5. \A q \in Ids : match'[q] = "matched" => Pair(q) \subseteq acted'
      <3>1. CASE ResendInteraction(j)
        BY <2>3, <3>1 DEF ResendInteraction, MatchedOnlyIfBothActed
      <3>2. CASE ResendMatch(j)
        BY <2>2, <3>2 DEF ResendMatch, TypeOK, Evidence, MatchedOnlyIfBothActed
      <3> QED
        BY <2>1, <3>1, <3>2
    <2>6. \A g \in Handlers : Backed(g)'
      BY <1>a, <2>3, SameBacked
    <2>7. \A i \in left' :
             i.step = "createConversation" /\ i.kind = "like"
                => Pair(i.id) \subseteq acted'
      BY <2>1, <2>3 DEF Evidence
    <2>8. Evidence'
      BY <2>4, <2>6, <2>7 DEF Evidence, Backed, Pair, Reverse
    <2> QED
      BY <2>5, <2>8 DEF MatchedOnlyIfBothActed, Pair
  <1>9. ASSUME NEW h \in Handlers, NEW p \in Ids,
               \/ \E k \in {"like", "dislike"} : OnTap(h, k, p)
               \/ OnTapSendMessage(h, p)
               \/ \E d \in Ids : OnTapUnmatch(h, p, d)
        PROVE  Evidence' /\ MatchedOnlyIfBothActed'
    <2>1. /\ \A k \in {"like", "dislike"} :
                k \in Kinds /\ "createInteraction" \in Steps[k]
          /\ "chat" \in Kinds /\ "createConversation" \in Steps["chat"]
          /\ "unmatch" \in Kinds /\ "deleteMatch" \in Steps["unmatch"]
      BY DEF Kinds, Steps
    <2> QED
      BY <1>3, <1>9, <2>1 DEF OnTap, OnTapSendMessage, OnTapUnmatch
  <1> QED
    BY <1>1, <1>4, <1>5, <1>6, <1>7, <1>8, <1>9, <1>10 DEF Next

\* A document says isMatched only if both users wrote an interaction with the
\* other, for any users, handlers and number of taps.  MatchedOnlyIfBothActed
\* says nothing of a handler that has looked and not yet written the match:
\* Evidence carries what it found to its next step, or to the write that its
\* killed app left on disk.
THEOREM BothActed == Spec => []MatchedOnlyIfBothActed
  <1>1. Init => Evidence /\ MatchedOnlyIfBothActed
    BY DEF Init, Evidence, MatchedOnlyIfBothActed, Underway
  <1>2. TypeOK /\ Evidence /\ MatchedOnlyIfBothActed /\ [Next]_vars
           => Evidence' /\ MatchedOnlyIfBothActed'
    BY NextEvidence
  <1> QED
    BY <1>1, <1>2, TypeCorrect, PTL DEF Spec
=============================================================================
