------------------------------ MODULE Matching ------------------------------
(***************************************************************************)
(* Likes that become a match.  A user who likes another first writes the   *)
(* document userInteraction/{me + other} and then looks for                *)
(* userInteraction/{other + me}: the clients of both users do so at once,  *)
(* without a transaction, and whoever finds the other's interaction        *)
(* creates the match document {me + other}.  Each pair may thus have two   *)
(* match documents, one per order of the names.                            *)
(*                                                                         *)
(* A handler runs from one await to the next in a step.  A superlike goes  *)
(* the way of a like.  The messages of a conversation are left out, the    *)
(* failure of writing its first one is not.                                *)
(***************************************************************************)
EXTENDS Naturals

CONSTANTS
    Users,
    Handlers,   \* handlers that may be in progress at once
    MaxTaps     \* model bound: taps, failures and kills

ASSUME MatchingAssumption == MaxTaps \in Nat

VARIABLES
    interaction,  \* interaction[<<x, y>>]: the document x + y of userInteraction
    match,        \* match[<<x, y>>]: the match document x + y
    job,          \* job[h]: where handler h goes on, and for which id
    left,         \* the writes of killed apps that are on disk, by their jobs
    acted,        \* history: the ids whose interaction was ever written
    listed,       \* history: the match ids that a list of matches ever showed
    made,         \* history: pairs matched since the last like of the pair
    broken,       \* history: pairs of which a handler broke off since then,
                  \* or a like arrived without its handler
    told,         \* history: <<x, y>>: y was notified since x's last like of y
    taps          \* taps, failures and kills so far

documents == <<interaction, match>>
history   == <<acted, listed, made, broken, told>>
vars      == <<documents, job, left, history, taps>>

\* The ids: me + other, for two different users.
Ids == {p \in Users \X Users : p[1] # p[2]}

Reverse(p) == <<p[2], p[1]>>

\* The pair without its order, as the set of its two ids.
Pair(p) == {p, Reverse(p)}

Interactions == {"none", "like", "dislike"}
Matches      == {"none", "chat", "matched"}

\* The awaits of each handler.
Steps == [like    |-> {"createInteraction", "getExistingInteraction",
                       "createConversation", "sayHi", "matchNotification",
                       "interactionNotification"},
          dislike |-> {"createInteraction"},
          chat    |-> {"createConversation", "sayHi"},
          unmatch |-> {"deleteMatch", "deleteTheirs", "deleteMine"}]
Kinds == {"like", "dislike", "chat", "unmatch"}

\* A handler in progress: for the users of id, about the match document doc.
Jobs  == UNION {[step: Steps[k], kind: {k}, id: Ids, doc: Ids] : k \in Kinds}
NoJob == [step |-> "idle"]

\* The awaits that are writes of interactions and match documents.
Writing == {"createInteraction", "createConversation", "deleteMatch",
            "deleteTheirs", "deleteMine"}

TypeOK ==
    /\ interaction \in [Ids -> Interactions]
    /\ match \in [Ids -> Matches]
    /\ job \in [Handlers -> Jobs \cup {NoJob}]
    /\ left \in SUBSET {j \in Jobs : j.step \in Writing}
    /\ acted \in SUBSET Ids
    /\ listed \in SUBSET Ids
    /\ made \in SUBSET Ids
    /\ broken \in SUBSET Ids
    /\ told \in SUBSET Ids
    /\ taps \in Nat

Init ==
    /\ interaction = [p \in Ids |-> "none"]
    /\ match = [p \in Ids |-> "none"]
    /\ job = [h \in Handlers |-> NoJob]
    /\ left = {}
    /\ acted = {} /\ listed = {} /\ made = {} /\ broken = {} /\ told = {}
    /\ taps = 0

Tap == taps < MaxTaps /\ taps' = taps + 1

\* Handler h is at step s, for the users of id p.
At(h, s, p) == job[h].step = s /\ job[h].id = p

\* The client of u has sent what a killed app of u's had written: it sends
\* writes in their order, and keeps them on disk (see Writes).
Sent(u) == \A j \in left : j.id[1] # u

Start(h, s, k, p, d) ==
    /\ job[h] = NoJob
    /\ job' = [job EXCEPT ![h] = [step |-> s, kind |-> k, id |-> p, doc |-> d]]

Goto(h, s) == job' = [job EXCEPT ![h].step = s]
Finish(h)  == job' = [job EXCEPT ![h] = NoJob]

-----------------------------------------------------------------------------
(***************************************************************************)
(* Liking and disliking.                                                   *)
(***************************************************************************)

\* onTapHeart, onTapBolt, onTapCross; the daily limits are left out.
OnTap(h, k, p) ==
    /\ Start(h, "createInteraction", k, p, p)
    /\ Tap
    /\ UNCHANGED <<documents, left, history>>

\* createInteraction succeeds.  After a dislike there is nothing to do.
CreateInteraction(h, p) ==
    /\ At(h, "createInteraction", p)
    /\ interaction' = [interaction EXCEPT ![p] = job[h].kind]
    /\ acted' = acted \cup {p}
    /\ \/ /\ job[h].kind = "like"
          /\ Goto(h, "getExistingInteraction")
          /\ made' = made \ Pair(p)
          /\ broken' = broken \ Pair(p)
          /\ told' = told \ {p}
       \/ /\ job[h].kind = "dislike"
          /\ Finish(h)
          /\ UNCHANGED <<made, broken, told>>
    /\ UNCHANGED <<match, left, listed, taps>>

\* Mutant: the ids are passed in the order in which they are written.
GetExistingInteractionSwapped(h, p) ==
    /\ At(h, "getExistingInteraction", p)
    /\ Goto(h, IF interaction[p] # "none"
               THEN "createConversation" ELSE "interactionNotification")
    /\ UNCHANGED <<documents, left, history, taps>>

\* Mutant: the query asks the cache alone, which has nothing of the other's.
GetExistingInteractionCached(h, p) ==
    /\ At(h, "getExistingInteraction", p)
    /\ Goto(h, "interactionNotification")
    /\ UNCHANGED <<documents, left, history, taps>>

\* getExistingInteraction(other, me): any interaction counts.
GetExistingInteraction(h, p) ==
    /\ At(h, "getExistingInteraction", p)
    /\ Goto(h, IF interaction[Reverse(p)] # "none"
               THEN "createConversation" ELSE "interactionNotification")
    /\ UNCHANGED <<documents, left, history, taps>>

\* The client has gone offline since, and the query finds its cache empty.
GetFromCache(h, p) ==
    /\ At(h, "getExistingInteraction", p)
    /\ Goto(h, "interactionNotification")
    /\ broken' = broken \cup Pair(p)
    /\ Tap
    /\ UNCHANGED <<documents, left, acted, listed, made, told>>

\* createInteractionNotification; addNotification catches its errors.
InteractionNotification(h, p) ==
    /\ At(h, "interactionNotification", p)
    /\ told' = told \cup {p}
    /\ Finish(h)
    /\ UNCHANGED <<documents, left, acted, listed, made, broken, taps>>

-----------------------------------------------------------------------------
(***************************************************************************)
(* Match documents.                                                        *)
(***************************************************************************)

\* _onTapSendMessage: a conversation before the match, under the same id.
OnTapSendMessage(h, p) ==
    /\ Start(h, "createConversation", "chat", p, p)
    /\ Tap
    /\ UNCHANGED <<documents, left, history>>

\* createConversation, the match document: it replaces whatever there was.
CreateConversation(h, p) ==
    /\ At(h, "createConversation", p)
    /\ Goto(h, "sayHi")
    /\ \/ /\ job[h].kind = "like"
          /\ match' = [match EXCEPT ![p] = "matched"]
          /\ listed' = listed \cup {p}
          /\ made' = made \cup Pair(p)
       \/ /\ job[h].kind = "chat"
          /\ match' = [match EXCEPT ![p] = "chat"]
          /\ UNCHANGED <<listed, made>>
    /\ UNCHANGED <<interaction, left, acted, broken, told, taps>>

\* Mutant: a match is announced to nobody but the one who made it.
SayHiSilent(h, p) ==
    /\ At(h, "sayHi", p)
    /\ Finish(h)
    /\ UNCHANGED <<documents, left, history, taps>>

\* Mutant: a conversation before the match is announced as a match, too.
SayHiAnnounced(h, p) ==
    /\ At(h, "sayHi", p)
    /\ Goto(h, "matchNotification")
    /\ UNCHANGED <<documents, left, history, taps>>

\* createConversation, the first message: then a match is announced.
SayHi(h, p) ==
    /\ At(h, "sayHi", p)
    /\ IF job[h].kind = "like" THEN Goto(h, "matchNotification") ELSE Finish(h)
    /\ UNCHANGED <<documents, left, history, taps>>

MatchNotification(h, p) ==
    /\ At(h, "matchNotification", p)
    /\ told' = told \cup {p}
    /\ Finish(h)
    /\ UNCHANGED <<documents, left, acted, listed, made, broken, taps>>

\* _onTapUnmatch on a page that was opened from the list of matches, now or
\* earlier: either user, whatever the order of the names in the document's id.
OnTapUnmatch(h, p, d) ==
    /\ d \in listed \cap Pair(p)
    /\ Start(h, "deleteMatch", "unmatch", p, d)
    /\ Tap
    /\ UNCHANGED <<documents, left, history>>

\* unMatchUser deletes the match document d, then both interactions.
DeleteMatch(h, p) ==
    /\ At(h, "deleteMatch", p)
    /\ match' = [match EXCEPT ![job[h].doc] = "none"]
    /\ Goto(h, "deleteTheirs")
    /\ UNCHANGED <<interaction, left, history, taps>>

DeleteTheirs(h, p) ==
    /\ At(h, "deleteTheirs", p)
    /\ interaction' = [interaction EXCEPT ![Reverse(p)] = "none"]
    /\ Goto(h, "deleteMine")
    /\ UNCHANGED <<match, left, history, taps>>

DeleteMine(h, p) ==
    /\ At(h, "deleteMine", p)
    /\ interaction' = [interaction EXCEPT ![p] = "none"]
    /\ Finish(h)
    /\ UNCHANGED <<match, left, history, taps>>

\* onLongPressUserCard and onTapRewind delete an interaction of one's own.
DeleteInteraction(p) ==
    /\ interaction[p] # "none" /\ Sent(p[1])
    /\ interaction' = [interaction EXCEPT ![p] = "none"]
    /\ Tap
    /\ UNCHANGED <<match, job, left, history>>

-----------------------------------------------------------------------------
\* A like was written, and its handler is not at its end.
Underway(h) ==
    job[h] # NoJob /\ job[h].kind = "like" /\ job[h].step # "createInteraction"

\* An awaited call of handler h fails.  deleteInteraction reports that to
\* nobody; any other failure ends the handler.
Fail(h, p) ==
    /\ job[h] # NoJob /\ job[h].id = p
    /\ IF job[h].step = "deleteTheirs" THEN Goto(h, "deleteMine") ELSE Finish(h)
    /\ broken' = IF Underway(h) THEN broken \cup Pair(p) ELSE broken
    /\ Tap
    /\ UNCHANGED <<documents, left, acted, listed, made, told>>

\* The app of user u is killed.  The writes its handlers were awaiting are on
\* disk, if they were issued by then.
Kill(u) ==
    LET dead == {h \in Handlers : job[h] # NoJob /\ job[h].id[1] = u} IN
    /\ dead # {}
    /\ job' = [h \in Handlers |-> IF h \in dead THEN NoJob ELSE job[h]]
    /\ \E S \in SUBSET {h \in dead : job[h].step \in Writing} :
          left' = left \cup {job[h] : h \in S}
    /\ broken' = broken \cup
                    {p \in Ids : \E h \in dead : Underway(h) /\ job[h].id \in Pair(p)}
    /\ Tap
    /\ UNCHANGED <<documents, acted, listed, made, told>>

\* After the restart an interaction arrives of which no handler knows ...
ResendInteraction(j) ==
    LET p == j.id IN
    /\ \/ /\ j.step = "createInteraction"
          /\ interaction' = [interaction EXCEPT ![p] = j.kind]
          /\ acted' = acted \cup {p}
          /\ \/ /\ j.kind = "like"
                /\ made' = made \ Pair(p)
                /\ broken' = broken \cup Pair(p)
                /\ told' = told \ {p}
             \/ /\ j.kind = "dislike"
                /\ UNCHANGED <<made, broken, told>>
       \/ /\ j.step \in {"deleteTheirs", "deleteMine"}
          /\ interaction' = [interaction EXCEPT
                  ![IF j.step = "deleteTheirs" THEN Reverse(p) ELSE p] = "none"]
          /\ UNCHANGED <<acted, made, broken, told>>
    /\ UNCHANGED <<match, listed>>

\* ... or a match document, or its deletion.
ResendMatch(j) ==
    LET p == j.id IN
    /\ \/ /\ j.step = "createConversation" /\ j.kind = "like"
          /\ match' = [match EXCEPT ![p] = "matched"]
          /\ listed' = listed \cup {p}
          /\ made' = made \cup Pair(p)
       \/ /\ j.step = "createConversation" /\ j.kind = "chat"
          /\ match' = [match EXCEPT ![p] = "chat"]
          /\ UNCHANGED <<listed, made>>
       \/ /\ j.step = "deleteMatch"
          /\ match' = [match EXCEPT ![j.doc] = "none"]
          /\ UNCHANGED <<listed, made>>
    /\ UNCHANGED <<interaction, acted, broken, told>>

\* The client of u sends a write that a killed app left on disk.
Resend(u) ==
    /\ \E j \in left :
          /\ j.id[1] = u /\ left' = left \ {j}
          /\ ResendInteraction(j) \/ ResendMatch(j)
    /\ UNCHANGED <<job, taps>>

\* What handler h does next for the users of id p.
Step(h, p) ==
    /\ Sent(p[1])
    /\ \/ CreateInteraction(h, p) \/ GetExistingInteraction(h, p)
       \/ InteractionNotification(h, p)
       \/ CreateConversation(h, p) \/ SayHi(h, p) \/ MatchNotification(h, p)
       \/ DeleteMatch(h, p) \/ DeleteTheirs(h, p) \/ DeleteMine(h, p)

Next ==
    \/ \E p \in Ids :
          \/ DeleteInteraction(p)
          \/ \E h \in Handlers :
                \/ \E k \in {"like", "dislike"} : OnTap(h, k, p)
                \/ OnTapSendMessage(h, p)
                \/ \E d \in Ids : OnTapUnmatch(h, p, d)
                \/ Step(h, p) \/ GetFromCache(h, p) \/ Fail(h, p)
    \/ \E u \in Users : Kill(u) \/ Resend(u)

Spec == Init /\ [][Next]_vars

\* A handler that is not killed goes on: the calls it awaits return.  A client
\* sends what is on disk.
Fairness ==
    /\ \A h \in Handlers, p \in Ids : WF_vars(Step(h, p))
    /\ \A u \in Users : WF_vars(Resend(u))
FairSpec == Spec /\ Fairness

-----------------------------------------------------------------------------
(***************************************************************************)
(* Properties.                                                             *)
(***************************************************************************)

\* Handler h of one of the two users will still make a match, or look for one.
Looking(h, p) ==
    /\ Underway(h) /\ job[h].id \in Pair(p)
    /\ job[h].step \in {"getExistingInteraction", "createConversation"}

\* Two users who like each other are matched: whoever writes last finds the
\* other's like, as both write before they look.  So if both likes are there,
\* a match was made since the later of them, unless a handler is still at it,
\* or broke off (an error, a kill, a query answered from the cache), or the
\* like arrived when its app had been killed.
MutualLikes ==
    \A p \in Ids :
        interaction[p] = "like" /\ interaction[Reverse(p)] = "like" =>
            p \in made \cup broken \/ \E h \in Handlers : Looking(h, p)

\* Nobody is matched on the strength of one side: the match document says
\* isMatched only if both users wrote an interaction with the other, however
\* likes, unmatching and deletions overlap.
MatchedOnlyIfBothActed ==
    \A p \in Ids : match[p] = "matched" => Pair(p) \subseteq acted

\* Whoever is liked is eventually told, of the like or of the match, unless
\* a handler of the pair breaks off.
LikeIsTold ==
    \A p \in Ids :
        (\E h \in Handlers : At(h, "getExistingInteraction", p))
            ~> (p \in told \cup broken)
=============================================================================
