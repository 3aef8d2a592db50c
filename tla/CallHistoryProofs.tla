-------------------------- MODULE CallHistoryProofs -------------------------
(***************************************************************************)
(* Proofs about CallHistory, for any number of events: its types, and that *)
(* a call that is over is recorded as over.                                *)
(*                                                                         *)
(* The inductive invariant is Inv.  It speaks of what the histories will   *)
(* say once the writes under way have arrived (Due), since what they say   *)
(* now may be replaced by an older write.  QueueInv holds of every call:   *)
(* which handler has issued what, at which stage it waits for it, and that *)
(* the caller's screen shows a call as settled only if it will be.         *)
(* RecordInv is about calls without the exceptions of OverIsRecorded:      *)
(* while the caller's callbacks open a record the receiver's client        *)
(* records no end (Crossing), so that the receiver's history is never      *)
(* settled before the caller's (ReceiverRecords, Agree), and each stage of *)
(* the caller's _onCallEnd has both recorded, or has yet to (Ends).        *)
(***************************************************************************)
EXTENDS CallHistory, SequenceTheorems, SumTheorems

-----------------------------------------------------------------------------
(***************************************************************************)
(* What the histories will say when all writes have arrived.               *)
(***************************************************************************)

\* Write w says of the call of user z that it is not over, that it is.
RawOf(w, z) == w.do = "status" /\ w.of = z /\ w.as \notin Terminal
EndOf(w, z) == w.do = "status" /\ w.of = z /\ w.as \in Terminal

\* When the writes p of the caller and r of the receiver have arrived, the
\* history of z, which says s, says that the call is over.
DueIn(p, r, s, z) ==
    \/ \E i \in 1..Len(p) :
          EndOf(p[i], z) /\ \A j \in 1..Len(p) : j > i => ~RawOf(p[j], z)
    \/ /\ \A j \in 1..Len(p) : ~RawOf(p[j], z)
       /\ s \in Terminal \/ \E i \in 1..Len(r) : EndOf(r[i], z)

\* The writes of two sequences.
LEMMA Joined ==
    ASSUME NEW p \in Seq(Writes), NEW ws \in Seq(Writes)
    PROVE  /\ p \o ws \in Seq(Writes) /\ Len(p) \in Nat /\ Len(ws) \in Nat
           /\ Len(p \o ws) = Len(p) + Len(ws)
           /\ \A i \in 1..Len(p) : i \in 1..Len(p \o ws) /\ (p \o ws)[i] = p[i]
           /\ \A m \in 1..Len(ws) : Len(p) + m \in 1..Len(p \o ws)
                                    /\ Len(p) + m > Len(p)
                                    /\ (p \o ws)[Len(p) + m] = ws[m]
           /\ \A i \in 1..Len(p \o ws) :
                 \/ i \in 1..Len(p) /\ (p \o ws)[i] = p[i]
                 \/ \E m \in 1..Len(ws) : i = Len(p) + m /\ (p \o ws)[i] = ws[m]
<1> DEFINE a == Len(p)
           b == Len(ws)
           q == p \o ws
<1>1. a \in Nat /\ b \in Nat /\ q \in Seq(Writes) /\ Len(q) = a + b
  BY LenProperties, ConcatProperties
<1>2. \A i \in 1..Len(q) : q[i] = IF i <= a THEN p[i] ELSE ws[i - a]
  <2>1. \A i \in 1..(a + b) : q[i] = IF i <= a THEN p[i] ELSE ws[i - a]
    BY ConcatProperties
  <2> QED BY <1>1, <2>1
<1> HIDE DEF a, b, q
<1>3. ASSUME NEW i \in 1..a PROVE i \in 1..Len(q) /\ q[i] = p[i]
  <2>1. i \in 1..Len(q) /\ i <= a
    BY <1>1
  <2> QED BY <1>2, <2>1
<1>4. ASSUME NEW m \in 1..b PROVE a + m \in 1..Len(q) /\ a + m > a /\ q[a + m] = ws[m]
  <2>1. a + m \in 1..Len(q) /\ a + m > a /\ ~(a + m <= a) /\ (a + m) - a = m
    BY <1>1
  <2>2. q[a + m] = ws[(a + m) - a]
    BY <1>2, <2>1
  <2> QED BY <2>1, <2>2
<1>5. ASSUME NEW i \in 1..Len(q)
      PROVE  \/ i \in 1..a /\ q[i] = p[i]
             \/ \E m \in 1..b : i = a + m /\ q[i] = ws[m]
  <2>1. CASE i <= a
    <3>1. i \in 1..a
      BY <1>1, <2>1
    <3> QED BY <1>3, <3>1
  <2>2. CASE ~(i <= a)
    <3>1. i - a \in 1..b /\ i = a + (i - a)
      BY <1>1, <2>2
    <3>2. q[i] = ws[i - a]
      BY <1>2, <2>2
    <3> QED BY <3>1, <3>2
  <2> QED BY <2>1, <2>2
<1> QED BY <1>1, <1>3, <1>4, <1>5 DEF a, b, q

\* The caller issues writes that leave z alone or say that the call is over.
LEMMA DueGrows ==
    ASSUME NEW p \in Seq(Writes), NEW ws \in Seq(Writes), NEW r, NEW s, NEW z,
           DueIn(p, r, s, z), \A m \in 1..Len(ws) : ~RawOf(ws[m], z)
    PROVE  DueIn(p \o ws, r, s, z)
<1> DEFINE q == p \o ws
<1>1. /\ \A i \in 1..Len(p) : i \in 1..Len(q) /\ q[i] = p[i]
      /\ \A i \in 1..Len(q) :
            \/ i \in 1..Len(p) /\ q[i] = p[i]
            \/ \E m \in 1..Len(ws) : q[i] = ws[m]
  BY Joined
<1> HIDE DEF q
<1>2. CASE \E i \in 1..Len(p) :
              EndOf(p[i], z) /\ \A j \in 1..Len(p) : j > i => ~RawOf(p[j], z)
  <2>1. PICK i \in 1..Len(p) :
              EndOf(p[i], z) /\ \A j \in 1..Len(p) : j > i => ~RawOf(p[j], z)
    BY <1>2
  <2>2. i \in 1..Len(q) /\ EndOf(q[i], z)
    BY <1>1, <2>1
  <2>3. \A j \in 1..Len(q) : j > i => ~RawOf(q[j], z)
    BY <1>1, <2>1
  <2> QED BY <2>2, <2>3 DEF DueIn, q
<1>3. CASE /\ \A j \in 1..Len(p) : ~RawOf(p[j], z)
           /\ s \in Terminal \/ \E i \in 1..Len(r) : EndOf(r[i], z)
  <2>1. \A j \in 1..Len(q) : ~RawOf(q[j], z)
    BY <1>1, <1>3
  <2> QED BY <1>3, <2>1 DEF DueIn, q
<1> QED BY <1>2, <1>3 DEF DueIn

\* The caller issues writes that do not say of z that the call is over.
LEMMA DueBefore ==
    ASSUME NEW p \in Seq(Writes), NEW ws \in Seq(Writes), NEW r, NEW s, NEW z,
           DueIn(p \o ws, r, s, z), \A m \in 1..Len(ws) : ~EndOf(ws[m], z)
    PROVE  DueIn(p, r, s, z)
<1> DEFINE q == p \o ws
<1>1. /\ \A i \in 1..Len(p) : i \in 1..Len(q) /\ q[i] = p[i]
      /\ \A i \in 1..Len(q) :
            \/ i \in 1..Len(p) /\ q[i] = p[i]
            \/ \E m \in 1..Len(ws) : q[i] = ws[m]
  BY Joined
<1>2. DueIn(q, r, s, z)
  OBVIOUS
<1> HIDE DEF q
<1>3. CASE \E i \in 1..Len(q) :
              EndOf(q[i], z) /\ \A j \in 1..Len(q) : j > i => ~RawOf(q[j], z)
  <2>1. PICK i \in 1..Len(q) :
              EndOf(q[i], z) /\ \A j \in 1..Len(q) : j > i => ~RawOf(q[j], z)
    BY <1>3
  <2>2. i \in 1..Len(p) /\ EndOf(p[i], z)
    BY <1>1, <2>1
  <2>3. \A j \in 1..Len(p) : j > i => ~RawOf(p[j], z)
    BY <1>1, <2>1
  <2> QED BY <2>2, <2>3 DEF DueIn
<1>4. CASE /\ \A j \in 1..Len(q) : ~RawOf(q[j], z)
           /\ s \in Terminal \/ \E i \in 1..Len(r) : EndOf(r[i], z)
  <2>1. \A j \in 1..Len(p) : ~RawOf(p[j], z)
    BY <1>1, <1>4
  <2> QED BY <1>4, <2>1 DEF DueIn
<1> QED BY <1>2, <1>3, <1>4 DEF DueIn

\* The last that the caller issues says that the call is over.
LEMMA DueIssued ==
    ASSUME NEW p \in Seq(Writes), NEW ws \in Seq(Writes), NEW r, NEW s, NEW z,
           \E m \in 1..Len(ws) :
              EndOf(ws[m], z) /\ \A l \in 1..Len(ws) : l > m => ~RawOf(ws[l], z)
    PROVE  DueIn(p \o ws, r, s, z)
<1> DEFINE q == p \o ws
           a == Len(p)
           b == Len(ws)
<1>1. /\ a \in Nat /\ b \in Nat
      /\ \A m \in 1..b : a + m \in 1..Len(q) /\ q[a + m] = ws[m]
      /\ \A i \in 1..Len(q) :
            i \in 1..a \/ \E m \in 1..b : i = a + m /\ q[i] = ws[m]
  BY Joined
<1>2. PICK m \in 1..b :
         EndOf(ws[m], z) /\ \A l \in 1..b : l > m => ~RawOf(ws[l], z)
  OBVIOUS
<1> HIDE DEF q, a, b
<1>3. a + m \in 1..Len(q) /\ EndOf(q[a + m], z)
  BY <1>1, <1>2
<1>4. ASSUME NEW j \in 1..Len(q), j > a + m PROVE ~RawOf(q[j], z)
  <2>1. j \notin 1..a
    BY <1>1, <1>4
  <2>2. PICK l \in 1..b : j = a + l /\ q[j] = ws[l]
    BY <1>1, <2>1
  <2>3. l > m
    BY <1>1, <1>4, <2>2
  <2> QED BY <1>2, <2>2, <2>3
<1> QED BY <1>3, <1>4 DEF DueIn, q

\* The last that the caller issues says that the call is not over.
LEMMA NotDueIssued ==
    ASSUME NEW p \in Seq(Writes), NEW ws \in Seq(Writes), NEW r, NEW s, NEW z,
           Len(ws) = 1, RawOf(ws[1], z)
    PROVE  ~DueIn(p \o ws, r, s, z)
<1> DEFINE q == p \o ws
           a == Len(p)
<1>1. /\ a \in Nat
      /\ \A m \in 1..Len(ws) : a + m \in 1..Len(q) /\ q[a + m] = ws[m]
      /\ Len(q) = a + Len(ws)
  BY Joined
<1> HIDE DEF q, a
<1>2. a + 1 \in 1..Len(q) /\ RawOf(q[a + 1], z)
  BY <1>1
<1>3. ~EndOf(q[a + 1], z)
  BY <1>2 DEF RawOf, EndOf
<1>4. \A i \in 1..Len(q) : i = a + 1 \/ a + 1 > i
  BY <1>1
<1> QED BY <1>2, <1>3, <1>4 DEF DueIn, q

\* The receiver issues writes.
LEMMA DueFromReceiver ==
    ASSUME NEW p, NEW r \in Seq(Writes), NEW ws \in Seq(Writes), NEW s, NEW z
    PROVE  /\ DueIn(p, r, s, z) => DueIn(p, r \o ws, s, z)
           /\ ( /\ DueIn(p, r \o ws, s, z)
                /\ \A m \in 1..Len(ws) : ~EndOf(ws[m], z) ) => DueIn(p, r, s, z)
           /\ ( /\ \E m \in 1..Len(ws) : EndOf(ws[m], z)
                /\ \A j \in 1..Len(p) : ~RawOf(p[j], z) ) => DueIn(p, r \o ws, s, z)
<1> DEFINE q == r \o ws
           Says(t) == \E i \in 1..Len(t) : EndOf(t[i], z)
<1>1. /\ \A i \in 1..Len(r) : i \in 1..Len(q) /\ q[i] = r[i]
      /\ \A m \in 1..Len(ws) : Len(r) + m \in 1..Len(q) /\ q[Len(r) + m] = ws[m]
      /\ \A i \in 1..Len(q) :
            \/ i \in 1..Len(r) /\ q[i] = r[i]
            \/ \E m \in 1..Len(ws) : q[i] = ws[m]
  BY Joined
<1> HIDE DEF q
<1>2. Says(r) => Says(q)
  BY <1>1
<1>3. Says(q) /\ (\A m \in 1..Len(ws) : ~EndOf(ws[m], z)) => Says(r)
  BY <1>1
<1>4. (\E m \in 1..Len(ws) : EndOf(ws[m], z)) => Says(q)
  BY <1>1
<1>5. DueIn(p, r, s, z) => DueIn(p, q, s, z)
  BY <1>2 DEF DueIn
<1>6. DueIn(p, q, s, z) /\ (\A m \in 1..Len(ws) : ~EndOf(ws[m], z)) => DueIn(p, r, s, z)
  BY <1>3 DEF DueIn
<1>7. (\E m \in 1..Len(ws) : EndOf(ws[m], z)) /\ (\A j \in 1..Len(p) : ~RawOf(p[j], z))
         => DueIn(p, q, s, z)
  BY <1>4 DEF DueIn
<1> QED BY <1>5, <1>6, <1>7 DEF q

\* The status s of user z after write w.
After(s, w, z) == IF w.do = "status" /\ w.of = z THEN w.as ELSE s

\* The head and the rest of a sequence of writes.
LEMMA Split ==
    ASSUME NEW p \in Seq(Writes), p # <<>>
    PROVE  /\ Len(p) \in Nat /\ 1 \in 1..Len(p)
           /\ Head(p) = p[1] /\ Head(p) \in Writes
           /\ Tail(p) \in Seq(Writes) /\ Len(Tail(p)) = Len(p) - 1
           /\ \A i \in 1..Len(Tail(p)) : i + 1 \in 1..Len(p) /\ Tail(p)[i] = p[i + 1]
           /\ \A i \in 1..Len(p) :
                 i # 1 => i - 1 \in 1..Len(Tail(p)) /\ Tail(p)[i - 1] = p[i]
<1> DEFINE n == Len(p)
           t == Tail(p)
<1>1. /\ n \in Nat /\ n # 0 /\ Head(p) = p[1] /\ Head(p) \in Writes
      /\ t \in Seq(Writes) /\ Len(t) = n - 1
      /\ \A i \in 1..(n - 1) : t[i] = p[i + 1]
  BY LenProperties, EmptySeq, HeadTailProperties
<1> HIDE DEF n, t
<1>2. ASSUME NEW i \in 1..Len(t) PROVE i + 1 \in 1..n /\ t[i] = p[i + 1]
  <2>1. i + 1 \in 1..n /\ i \in 1..(n - 1)
    BY <1>1
  <2> QED BY <1>1, <2>1
<1>3. ASSUME NEW i \in 1..n, i # 1 PROVE i - 1 \in 1..Len(t) /\ t[i - 1] = p[i]
  <2>1. i - 1 \in 1..(n - 1) /\ (i - 1) + 1 = i
    BY <1>1, <1>3
  <2>2. t[i - 1] = p[(i - 1) + 1]
    BY <1>1, <2>1
  <2> QED BY <1>1, <2>1, <2>2
<1>4. 1 \in 1..n
  BY <1>1
<1> QED BY <1>1, <1>2, <1>3, <1>4 DEF n, t

\* The first write of the caller arrives.
LEMMA DueApplied ==
    ASSUME NEW p \in Seq(Writes), p # <<>>, NEW r, NEW s, NEW z
    PROVE  /\ DueIn(p, r, s, z) => DueIn(Tail(p), r, After(s, Head(p), z), z)
           /\ ( /\ DueIn(Tail(p), r, After(s, Head(p), z), z)
                /\ ~RawOf(Head(p), z) \/ Len(r) = 0 ) => DueIn(p, r, s, z)
<1> DEFINE t == Tail(p)
           w == Head(p)
           u == After(s, w, z)
           Says == \E i \in 1..Len(r) : EndOf(r[i], z)
<1>1. /\ Len(p) \in Nat /\ 1 \in 1..Len(p) /\ w = p[1]
      /\ \A i \in 1..Len(t) : i + 1 \in 1..Len(p) /\ t[i] = p[i + 1]
      /\ \A i \in 1..Len(p) : i # 1 => i - 1 \in 1..Len(t) /\ t[i - 1] = p[i]
  BY Split
<1> HIDE DEF t, w
<1>2. /\ RawOf(w, z) => u \notin Terminal
      /\ EndOf(w, z) => u \in Terminal
      /\ ~RawOf(w, z) /\ ~EndOf(w, z) => u = s
  BY DEF After, RawOf, EndOf
<1>3. EndOf(w, z) => ~RawOf(w, z)
  BY DEF RawOf, EndOf
<1> HIDE DEF u
<1>4. ASSUME DueIn(p, r, s, z) PROVE DueIn(t, r, u, z)
  <2>1. CASE \E i \in 1..Len(p) :
                EndOf(p[i], z) /\ \A j \in 1..Len(p) : j > i => ~RawOf(p[j], z)
    <3>1. PICK i \in 1..Len(p) :
                EndOf(p[i], z) /\ \A j \in 1..Len(p) : j > i => ~RawOf(p[j], z)
      BY <2>1
    <3>2. CASE i = 1
      <4>1. \A j \in 1..Len(t) : j + 1 > 1
        OBVIOUS
      <4>2. \A j \in 1..Len(t) : ~RawOf(t[j], z)
        BY <1>1, <3>1, <3>2, <4>1
      <4>3. u \in Terminal
        BY <1>1, <1>2, <3>1, <3>2
      <4> QED BY <4>2, <4>3 DEF DueIn
    <3>3. CASE i # 1
      <4>1. i - 1 \in 1..Len(t) /\ EndOf(t[i - 1], z)
        BY <1>1, <3>1, <3>3
      <4>2. \A j \in 1..Len(t) : j > i - 1 => j + 1 > i
        OBVIOUS
      <4>3. \A j \in 1..Len(t) : j > i - 1 => ~RawOf(t[j], z)
        BY <1>1, <3>1, <4>2
      <4> QED BY <4>1, <4>3 DEF DueIn
    <3> QED BY <3>2, <3>3
  <2>2. CASE (\A j \in 1..Len(p) : ~RawOf(p[j], z)) /\ (s \in Terminal \/ Says)
    <3>1. \A j \in 1..Len(t) : ~RawOf(t[j], z)
      BY <1>1, <2>2
    <3>2. u \in Terminal \/ u = s
      BY <1>1, <1>2, <2>2
    <3> QED BY <2>2, <3>1, <3>2 DEF DueIn
  <2> QED BY <1>4, <2>1, <2>2 DEF DueIn
<1>5. ASSUME DueIn(t, r, u, z), ~RawOf(w, z) \/ Len(r) = 0 PROVE DueIn(p, r, s, z)
  <2>1. CASE \E i \in 1..Len(t) :
                EndOf(t[i], z) /\ \A j \in 1..Len(t) : j > i => ~RawOf(t[j], z)
    <3>1. PICK i \in 1..Len(t) :
                EndOf(t[i], z) /\ \A j \in 1..Len(t) : j > i => ~RawOf(t[j], z)
      BY <2>1
    <3>2. i + 1 \in 1..Len(p) /\ EndOf(p[i + 1], z)
      BY <1>1, <3>1
    <3>3. \A j \in 1..Len(p) : j > i + 1 => j # 1 /\ j - 1 > i
      OBVIOUS
    <3>4. \A j \in 1..Len(p) : j > i + 1 => ~RawOf(p[j], z)
      BY <1>1, <3>1, <3>3
    <3> QED BY <3>2, <3>4 DEF DueIn
  <2>2. CASE (\A j \in 1..Len(t) : ~RawOf(t[j], z)) /\ (u \in Terminal \/ Says)
    <3>1. \A j \in 1..Len(p) : j # 1 => ~RawOf(p[j], z)
      BY <1>1, <2>2
    <3>2. ~RawOf(w, z)
      <4>1. CASE Len(r) = 0
        <5>1. ~Says
          BY <4>1
        <5> QED BY <1>2, <2>2, <5>1
      <4> QED BY <1>5, <4>1
    <3>3. CASE EndOf(w, z)
      <4>1. \A j \in 1..Len(p) : j > 1 => j # 1
        OBVIOUS
      <4> QED BY <1>1, <3>1, <3>3, <4>1 DEF DueIn
    <3>4. CASE ~EndOf(w, z)
      <4>1. u = s
        BY <1>2, <3>2, <3>4
      <4>2. \A j \in 1..Len(p) : ~RawOf(p[j], z)
        BY <1>1, <3>1, <3>2
      <4> QED BY <2>2, <4>1, <4>2 DEF DueIn
    <3> QED BY <3>3, <3>4
  <2> QED BY <1>5, <2>1, <2>2 DEF DueIn
<1> QED BY <1>4, <1>5 DEF t, w, u

\* The first write of the receiver arrives.
LEMMA DueReceived ==
    ASSUME NEW p, NEW r \in Seq(Writes), r # <<>>, NEW s, NEW z,
           ~RawOf(Head(r), z)
    PROVE  DueIn(p, r, s, z) <=> DueIn(p, Tail(r), After(s, Head(r), z), z)
<1> DEFINE t == Tail(r)
           w == Head(r)
           u == After(s, w, z)
           Says(q) == \E i \in 1..Len(q) : EndOf(q[i], z)
<1>1. /\ 1 \in 1..Len(r) /\ w = r[1]
      /\ \A i \in 1..Len(t) : i + 1 \in 1..Len(r) /\ t[i] = r[i + 1]
      /\ \A i \in 1..Len(r) : i # 1 => i - 1 \in 1..Len(t) /\ t[i - 1] = r[i]
  BY Split
<1>2. /\ EndOf(w, z) => u \in Terminal
      /\ ~EndOf(w, z) => u = s
  BY DEF After, RawOf, EndOf
<1> HIDE DEF t, w, u
<1>3. Says(r) <=> EndOf(w, z) \/ Says(t)
  BY <1>1
<1>4. (s \in Terminal \/ Says(r)) <=> (u \in Terminal \/ Says(t))
  <2>1. CASE EndOf(w, z)
    BY <1>2, <1>3, <2>1
  <2>2. CASE ~EndOf(w, z)
    BY <1>2, <1>3, <2>2
  <2> QED BY <2>1, <2>2
<1> QED BY <1>4 DEF DueIn, t, w, u

-----------------------------------------------------------------------------
(***************************************************************************)
(* The queues of the clients.                                              *)
(***************************************************************************)

\* What client x has issued and the server does not have yet.
Pending(x) == IF applied[x] THEN Tail(queue[x]) ELSE queue[x]

\* The history of z will say that the call is over, when all has arrived.
Due(z) == DueIn(Pending("caller"), Pending("receiver"), hist[z], z)

\* Handler h awaits write w; it awaits at most one.
Awaited(w, h) == w.by = h /\ w.ack
Alone(x, h) ==
    \A i, j \in 1..Len(queue[x]) :
        Awaited(queue[x][i], h) /\ Awaited(queue[x][j], h) => i = j

\* Client x issues the writes ws, told or not that its first one is done.
Rest(q, k) == IF k = 1 THEN Tail(q) ELSE q
Moves(x, k, ws) ==
    /\ ws \in Seq(Writes) /\ k \in {0, 1}
    /\ queue' = [queue EXCEPT ![x] = Rest(@, k) \o ws]
    /\ IF k = 1 THEN applied[x] /\ applied' = [applied EXCEPT ![x] = FALSE]
                ELSE applied' = applied

\* What follows the head of two sequences.
LEMMA TailOfConcat ==
    ASSUME NEW q \in Seq(Writes), NEW ws \in Seq(Writes), q # <<>>
    PROVE  Tail(q \o ws) = Tail(q) \o ws
BY SMT

\* What such a step makes of the queues and of what is yet to be applied.
LEMMA Moved ==
    ASSUME TypeOK, NEW x \in Users, applied[x] => queue[x] # <<>>,
           NEW k, NEW ws, Moves(x, k, ws)
    PROVE  /\ queue' \in [Users -> Seq(Writes)] /\ applied' \in [Users -> BOOLEAN]
           /\ \A y \in Users : y # x =>
                 /\ queue'[y] = queue[y] /\ applied'[y] = applied[y]
                 /\ Pending(y)' = Pending(y)
           /\ Pending(x) \in Seq(Writes) /\ Pending(x)' = Pending(x) \o ws
           /\ \A i \in 1..Len(queue'[x]) :
                 \/ i + k \in 1..Len(queue[x]) /\ queue'[x][i] = queue[x][i + k]
                 \/ \E m \in 1..Len(ws) :
                       i = (Len(queue[x]) - k) + m /\ queue'[x][i] = ws[m]
           /\ \A j \in 1..Len(queue[x]) :
                 \/ k = 1 /\ j = 1
                 \/ j - k \in 1..Len(queue'[x]) /\ queue'[x][j - k] = queue[x][j]
           /\ \A m \in 1..Len(ws) :
                 /\ (Len(queue[x]) - k) + m \in 1..Len(queue'[x])
                 /\ queue'[x][(Len(queue[x]) - k) + m] = ws[m]
<1> DEFINE q == queue[x]
           b == Rest(q, k)
           n == Len(q)
<1>1. /\ queue \in [Users -> Seq(Writes)] /\ applied \in [Users -> BOOLEAN]
      /\ q \in Seq(Writes) /\ ws \in Seq(Writes) /\ k \in {0, 1}
  BY DEF TypeOK, Moves
<1>2. k = 1 => q # <<>> /\ applied[x] /\ applied'[x] = FALSE
  BY <1>1 DEF Moves
<1>3. b \in Seq(Writes) /\ n \in Nat /\ Len(b) = n - k
      /\ (\A i \in 1..Len(b) : i + k \in 1..n /\ b[i] = q[i + k])
      /\ (\A j \in 1..n : (k = 1 /\ j = 1) \/ (j - k \in 1..Len(b) /\ b[j - k] = q[j]))
  <2>1. CASE k = 1
    <3>1. b = Tail(q)
      BY <2>1 DEF Rest
    <3> HIDE DEF b, q
    <3> QED BY <1>1, <1>2, <2>1, <3>1, Split
  <2>2. CASE k = 0
    <3>1. b = q /\ n \in Nat
      BY <1>1, <2>2, LenProperties DEF Rest
    <3>2. n - k = n /\ \A i \in 1..n : i + k = i /\ i - k = i
      BY <2>2, <3>1
    <3> HIDE DEF b, q
    <3> QED BY <1>1, <3>1, <3>2 DEF n
  <2> QED BY <1>1, <2>1, <2>2
<1>4. queue' = [queue EXCEPT ![x] = b \o ws]
  BY DEF Moves
<1> HIDE DEF b, q, n
<1>5. /\ b \o ws \in Seq(Writes)
      /\ Len(ws) \in Nat
      /\ \A i \in 1..Len(b) : i \in 1..Len(b \o ws) /\ (b \o ws)[i] = b[i]
      /\ \A m \in 1..Len(ws) : Len(b) + m \in 1..Len(b \o ws)
                               /\ (b \o ws)[Len(b) + m] = ws[m]
      /\ \A i \in 1..Len(b \o ws) :
            \/ i \in 1..Len(b) /\ (b \o ws)[i] = b[i]
            \/ \E m \in 1..Len(ws) : i = Len(b) + m /\ (b \o ws)[i] = ws[m]
  BY <1>1, <1>3, Joined
<1> DEFINE c == b \o ws
<1>6. queue' \in [Users -> Seq(Writes)] /\ queue'[x] = c
      /\ \A y \in Users : y # x => queue'[y] = queue[y]
  BY <1>1, <1>4, <1>5
<1>7. applied' \in [Users -> BOOLEAN] /\ \A y \in Users : y # x => applied'[y] = applied[y]
  BY <1>1 DEF Moves
<1>8. \A y \in Users : y # x => Pending(y)' = Pending(y)
  BY <1>6, <1>7 DEF Pending
<1>9. Pending(x) \in Seq(Writes) /\ Pending(x)' = Pending(x) \o ws
  <2>1. CASE k = 1
    <3>1. Pending(x) = Tail(q) /\ b = Tail(q)
      BY <1>2, <2>1 DEF Pending, q, b, Rest
    <3>2. Pending(x)' = c
      BY <1>2, <1>6, <2>1 DEF Pending
    <3> QED BY <1>3, <3>1, <3>2
  <2>2. CASE k = 0 /\ applied[x]
    <3>1. b = q /\ q # <<>> /\ applied'[x] = TRUE
      BY <1>1, <2>2 DEF b, q, Rest, Moves
    <3>2. Pending(x) = Tail(q) /\ Pending(x)' = Tail(q \o ws)
      BY <1>6, <2>2, <3>1 DEF Pending, q
    <3>3. Tail(q) \in Seq(Writes) /\ Tail(q \o ws) = Tail(q) \o ws
      BY <1>1, <3>1, HeadTailProperties, TailOfConcat
    <3> QED BY <3>2, <3>3
  <2>3. CASE k = 0 /\ ~applied[x]
    <3>1. b = q /\ applied'[x] = FALSE
      BY <1>1, <2>3 DEF b, q, Rest, Moves
    <3> QED BY <1>1, <1>6, <2>3, <3>1 DEF Pending, q
  <2> QED BY <1>1, <2>1, <2>2, <2>3
<1> HIDE DEF c
<1>10. ASSUME NEW i \in 1..Len(c)
       PROVE  \/ i + k \in 1..n /\ c[i] = q[i + k]
              \/ \E m \in 1..Len(ws) : i = (n - k) + m /\ c[i] = ws[m]
  BY <1>3, <1>5 DEF c
<1>11. ASSUME NEW j \in 1..n
       PROVE  \/ k = 1 /\ j = 1
              \/ j - k \in 1..Len(c) /\ c[j - k] = q[j]
  BY <1>3, <1>5 DEF c
<1>12. ASSUME NEW m \in 1..Len(ws)
       PROVE  (n - k) + m \in 1..Len(c) /\ c[(n - k) + m] = ws[m]
  BY <1>3, <1>5 DEF c
<1> QED BY <1>6, <1>7, <1>8, <1>9, <1>10, <1>11, <1>12 DEF q, n

\* A handler that is not concerned keeps the write it awaits, unless it is
\* told that this one is done.
LEMMA OtherAwaits ==
    ASSUME TypeOK, NEW x \in Users, applied[x] => queue[x] # <<>>,
           NEW k, NEW ws, Moves(x, k, ws), NEW h,
           \A m \in 1..Len(ws) : ~Awaited(ws[m], h)
    PROVE  /\ Awaits(x, h)' => Awaits(x, h)
           /\ (k = 1 => ~Awaited(Head(queue[x]), h)) /\ Awaits(x, h) => Awaits(x, h)'
           /\ Alone(x, h) => Alone(x, h)'
<1> DEFINE q == queue[x]
           r == queue'[x]
<1>1. /\ \A i \in 1..Len(r) :
            \/ i + k \in 1..Len(q) /\ r[i] = q[i + k]
            \/ \E m \in 1..Len(ws) : r[i] = ws[m]
      /\ \A j \in 1..Len(q) :
            \/ k = 1 /\ j = 1
            \/ j - k \in 1..Len(r) /\ r[j - k] = q[j]
  BY Moved
<1>2. k \in {0, 1} /\ (k = 1 => applied[x])
  BY DEF Moves
<1>3. k = 1 => Head(q) = q[1]
  <2>1. q \in Seq(Writes)
    BY DEF TypeOK
  <2> QED BY <1>2, <2>1, Split
<1>4. /\ Awaits(x, h) <=> \E i \in 1..Len(q) : Awaited(q[i], h)
      /\ Awaits(x, h)' <=> \E i \in 1..Len(r) : Awaited(r[i], h)
      /\ Alone(x, h) <=> \A i, j \in 1..Len(q) : Awaited(q[i], h) /\ Awaited(q[j], h) => i = j
      /\ Alone(x, h)' <=> \A i, j \in 1..Len(r) : Awaited(r[i], h) /\ Awaited(r[j], h) => i = j
  BY DEF Awaits, Awaited, Alone
<1>5. Head(queue[x]) = Head(q)
  OBVIOUS
<1> HIDE DEF q, r
<1>6. \A i \in 1..Len(r) : Awaited(r[i], h) => i + k \in 1..Len(q) /\ Awaited(q[i + k], h)
  BY <1>1
<1>7. Awaits(x, h)' => Awaits(x, h)
  BY <1>4, <1>6
<1>8. ASSUME k = 1 => ~Awaited(Head(queue[x]), h), Awaits(x, h) PROVE Awaits(x, h)'
  <2>1. PICK j \in 1..Len(q) : Awaited(q[j], h)
    BY <1>4, <1>8
  <2>2. ~(k = 1 /\ j = 1)
    BY <1>3, <1>5, <1>8, <2>1
  <2>3. j - k \in 1..Len(r) /\ r[j - k] = q[j]
    BY <1>1, <2>2
  <2> QED BY <1>4, <2>1, <2>3
<1>9. ASSUME Alone(x, h) PROVE Alone(x, h)'
  <2>1. ASSUME NEW i \in 1..Len(r), NEW j \in 1..Len(r), Awaited(r[i], h), Awaited(r[j], h)
        PROVE  i = j
    <3>1. i + k = j + k
      BY <1>4, <1>6, <1>9, <2>1
    <3> QED BY <1>2, <3>1
  <2> QED BY <1>4, <2>1
<1> QED BY <1>7, <1>8, <1>9

\* The handler that issues the writes awaits at most one of them.
LEMMA OwnAwaits ==
    ASSUME TypeOK, NEW x \in Users, applied[x] => queue[x] # <<>>,
           NEW k, NEW ws, Moves(x, k, ws), NEW h, Alone(x, h),
           \A m, l \in 1..Len(ws) : Awaited(ws[m], h) /\ Awaited(ws[l], h) => m = l,
           ~Awaits(x, h) \/ (k = 1 /\ Awaited(Head(queue[x]), h))
    PROVE  /\ Alone(x, h)'
           /\ Awaits(x, h)' <=> \E m \in 1..Len(ws) : Awaited(ws[m], h)
<1> DEFINE q == queue[x]
           r == queue'[x]
           n == Len(q)
<1>1. /\ \A i \in 1..Len(r) :
            \/ i + k \in 1..n /\ r[i] = q[i + k]
            \/ \E m \in 1..Len(ws) : i = (n - k) + m /\ r[i] = ws[m]
      /\ \A m \in 1..Len(ws) : (n - k) + m \in 1..Len(r) /\ r[(n - k) + m] = ws[m]
  BY Moved
<1>2. k \in {0, 1} /\ (k = 1 => applied[x])
  BY DEF Moves
<1>3. q \in Seq(Writes) /\ n \in Nat
  BY LenProperties DEF TypeOK
<1>4. k = 1 => Head(q) = q[1] /\ 1 \in 1..n
  BY <1>2, <1>3, Split
<1>5. /\ Awaits(x, h) <=> \E i \in 1..n : Awaited(q[i], h)
      /\ Awaits(x, h)' <=> \E i \in 1..Len(r) : Awaited(r[i], h)
      /\ \A i, j \in 1..n : Awaited(q[i], h) /\ Awaited(q[j], h) => i = j
      /\ Alone(x, h)' <=> \A i, j \in 1..Len(r) : Awaited(r[i], h) /\ Awaited(r[j], h) => i = j
      /\ Head(queue[x]) = Head(q)
  BY DEF Awaits, Awaited, Alone
<1> HIDE DEF q, r, n
<1>6. ASSUME NEW i \in 1..Len(r), Awaited(r[i], h)
      PROVE  \E m \in 1..Len(ws) : i = (n - k) + m /\ r[i] = ws[m]
  <2>1. SUFFICES ASSUME i + k \in 1..n, r[i] = q[i + k] PROVE FALSE
    BY <1>1
  <2>2. Awaits(x, h) /\ k = 1 /\ Awaited(q[1], h)
    BY <1>4, <1>5, <1>6, <2>1
  <2>3. i + 1 = 1
    BY <1>4, <1>5, <1>6, <2>1, <2>2
  <2> QED BY <2>3
<1>7. ASSUME NEW i \in 1..Len(r), NEW j \in 1..Len(r), Awaited(r[i], h), Awaited(r[j], h)
      PROVE  i = j
  <2>1. PICK m \in 1..Len(ws) : i = (n - k) + m /\ r[i] = ws[m]
    BY <1>6, <1>7
  <2>2. PICK l \in 1..Len(ws) : j = (n - k) + l /\ r[j] = ws[l]
    BY <1>6, <1>7
  <2>3. m = l
    BY <1>7, <2>1, <2>2
  <2> QED BY <2>1, <2>2, <2>3
<1>8. Alone(x, h)'
  BY <1>5, <1>7
<1>9. Awaits(x, h)' <=> \E m \in 1..Len(ws) : Awaited(ws[m], h)
  BY <1>1, <1>5, <1>6
<1> QED BY <1>8, <1>9

\* What the screen of x shows of the peer's call is settled only if the last
\* write of its own that says anything of it says so.
LEMMA ShownSettled ==
    ASSUME NEW q \in Seq(Writes), NEW x \in Users, NEW b \in BOOLEAN, Shown(q, x, b)
    PROVE  \/ b /\ \A i \in 1..Len(q) : ~RawOf(q[i], Peer(x)) /\ ~EndOf(q[i], Peer(x))
           \/ \E i \in 1..Len(q) :
                 /\ EndOf(q[i], Peer(x))
                 /\ \A j \in 1..Len(q) :
                       j > i => ~RawOf(q[j], Peer(x)) /\ ~EndOf(q[j], Peer(x))
<1> DEFINE own == {i \in 1..Len(q) : q[i].do = "status" /\ q[i].of = Peer(x)}
           last == CHOOSE i \in own : \A j \in own : j <= i
<1>1. \A i \in 1..Len(q) : RawOf(q[i], Peer(x)) \/ EndOf(q[i], Peer(x)) => i \in own
  BY DEF RawOf, EndOf
<1>2. CASE own = {}
  BY <1>1, <1>2 DEF Shown
<1>3. CASE own # {}
  <2>1. own \subseteq Nat /\ IsFiniteSet(own)
    <3>1. Len(q) \in Nat
      BY LenProperties
    <3>2. IsFiniteSet(1..Len(q))
      BY <3>1, FS_Interval
    <3> QED BY <3>2, FS_Subset
  <2>2. \E i \in own : \A j \in own : j <= i
    <3> DEFINE f == [i \in own |-> i]
    <3>1. \A i \in own : f[i] \in Int /\ f[i] = i
      BY <2>1
    <3> HIDE DEF f, own
    <3>2. PICK i \in own : \A j \in own : f[j] <= f[i]
      BY <1>3, <2>1, <3>1, MaxExists
    <3> QED BY <3>1, <3>2
  <2>3. last \in own /\ \A j \in own : j <= last
    BY <2>2
  <2>4. q[last].as \in Terminal
    BY <1>3 DEF Shown
  <2>5. last \in 1..Len(q) /\ EndOf(q[last], Peer(x))
    BY <2>3, <2>4 DEF EndOf
  <2> HIDE DEF last
  <2>6. \A j \in 1..Len(q) : j > last => j \notin own
    BY <2>1, <2>3
  <2> QED BY <1>1, <2>5, <2>6
<1> QED BY <1>2, <1>3

-----------------------------------------------------------------------------
(***************************************************************************)
(* The invariant of queues and handlers.                                   *)
(***************************************************************************)

Callbacks == {"join", "pick"}

\* Only the caller's callbacks write that the call is not over, and a write to
\* the caller's own history is the first of the two, so that its handler still
\* waits for it.  The receiver's client writes when the other has left, or
\* after a tap.  (a, gone and taps are at, killed and settling.)
Entry(x, w, a, gone, taps) ==
    IF x = "caller"
    THEN /\ w.do = "status" /\ w.as \notin Terminal => w.ack /\ w.by \in Callbacks
         /\ RawOf(w, "caller") /\ "caller" \notin gone => a["caller"][w.by] = "receiver"
    ELSE /\ w.do = "status" => w.as \in Terminal
         /\ w.by = "offline" \/ (w.by \in {"end", "reject"} /\ "receiver" \in taps)

Entries ==
    \A x \in Users : \A i \in 1..Len(queue[x]) :
        Entry(x, queue[x][i], at, killed, settling)

\* Where the handlers may be, and what they wait for.
StageOK(x, h) ==
    /\ Alone(x, h)
    /\ h \in Callbacks \cup {"offline"} =>
          at[x][h] \in {"none", "receiver"} /\ (at[x][h] = "receiver" => Awaits(x, h))
    /\ h \in {"end", "reject"} /\ at[x][h] # "none" => x \in settling
    /\ x = "receiver" /\ h \in Callbacks => at[x][h] = "none"
    /\ x = "caller" => at[x][h] # "signal" /\ (h = "reject" => at[x][h] = "none")
    /\ at[x][h] = "signal" => ~Awaits(x, h)

HandlersOK == \A x \in Users : \A h \in Handlers : StageOK(x, h)

\* onUserOffline of the caller waits for the first of its two writes.
OfflineOK ==
    at["caller"]["offline"] = "receiver" =>
        \E i \in 1..Len(queue["caller"]) :
            /\ Awaited(queue["caller"][i], "offline")
            /\ EndOf(queue["caller"][i], "caller")

JoinsOnce ==
    screen["caller"] = "open" /\ channel["caller"] = "out" => Idle("caller", "join")

\* What the server has, and the client does not know of, is what it says.
HeadOK ==
    /\ \A x \in Users : applied[x] => queue[x] # <<>>
    /\ applied["caller"] => \A z \in Users :
          EndOf(Head(queue["caller"]), z) => hist[z] \in Terminal

\* The caller's screen shows the call as settled only if it will be.
SeenOK == seen["caller"] => Due("receiver")

QueueInv ==
    TypeOK /\ Entries /\ HandlersOK /\ OfflineOK /\ JoinsOnce /\ HeadOK /\ SeenOK

\* No handler waits for what client x issues or is told, and g stays at s.
Unheard(x, g, k, ws, s) ==
    /\ k = 1 => ~Head(queue[x]).ack
    /\ \A m \in 1..Len(ws) : ~ws[m].ack
    /\ s = at[x][g]

\* Handler g of client x issues the writes ws and goes on at s.
Handles(x, g, k, ws, s) ==
    /\ Moves(x, k, ws)
    /\ at' \in [Users -> [Handlers -> Stages]] /\ at'[x][g] = s
    /\ \A y \in Users : \A h \in Handlers : y # x \/ h # g => at'[y][h] = at[y][h]
    /\ \A m \in 1..Len(ws) : ws[m].by = g
    /\ \A m, l \in 1..Len(ws) : ws[m].ack /\ ws[l].ack => m = l
    /\ \/ k = 1 /\ Awaited(Head(queue[x]), g)
       \/ k = 0 /\ ~Awaits(x, g)
       \/ Unheard(x, g, k, ws, s)
    /\ seen' = [seen EXCEPT ![x] = Shown(ws, x, @)]
    /\ UNCHANGED hist

\* The stage s is one that handler g may go on at.
Legal(x, g, k, ws, s) ==
    \/ Unheard(x, g, k, ws, s)
    \/ /\ g \in Callbacks \cup {"offline"} =>
             s \in {"none", "receiver"}
             /\ (s = "receiver" => \E m \in 1..Len(ws) : Awaited(ws[m], g))
       /\ g \in {"end", "reject"} /\ s # "none" => x \in settling'
       /\ x = "receiver" /\ g \in Callbacks => s = "none"
       /\ x = "caller" => s # "signal" /\ (g = "reject" => s = "none")
       /\ s = "signal" => k = 1 /\ \A m \in 1..Len(ws) : ~ws[m].ack

\* What other handlers wait for is left alone.
LEMMA HandlesAwaits ==
    ASSUME QueueInv, NEW x \in Users, NEW g \in Handlers, NEW k, NEW ws, NEW s,
           Handles(x, g, k, ws, s)
    PROVE  /\ \A y \in Users : \A h \in Handlers : Alone(y, h)'
           /\ \A y \in Users : \A h \in Handlers :
                 y # x \/ h # g => (Awaits(y, h)' <=> Awaits(y, h))
                                   /\ (Idle(y, h)' <=> Idle(y, h))
           /\ \/ Awaits(x, g)' <=> \E m \in 1..Len(ws) : Awaited(ws[m], g)
              \/ (Awaits(x, g)' <=> Awaits(x, g)) /\ Unheard(x, g, k, ws, s)
<1>1. /\ TypeOK /\ Moves(x, k, ws) /\ (applied[x] => queue[x] # <<>>)
      /\ \A y \in Users : \A h \in Handlers : Alone(y, h)
  BY DEF QueueInv, HeadOK, HandlersOK, StageOK, Handles
<1>2. \A y \in Users : y # x => queue'[y] = queue[y]
  BY <1>1, Moved
<1>3. ASSUME NEW y \in Users, y # x, NEW h \in Handlers
      PROVE  Alone(y, h)' /\ (Awaits(y, h)' <=> Awaits(y, h))
  BY <1>1, <1>2, <1>3 DEF Alone, Awaits
<1>4. ASSUME NEW h \in Handlers, h # g
      PROVE  Alone(x, h)' /\ (Awaits(x, h)' <=> Awaits(x, h))
  <2>1. \A m \in 1..Len(ws) : ~Awaited(ws[m], h)
    BY <1>4 DEF Handles, Awaited
  <2>2. k = 1 => ~Awaited(Head(queue[x]), h)
    BY <1>4 DEF Handles, Unheard, Awaited
  <2> QED BY <1>1, <2>1, <2>2, OtherAwaits
<1>5. CASE ~Awaits(x, g) \/ (k = 1 /\ Awaited(Head(queue[x]), g))
  <2>1. \A m, l \in 1..Len(ws) : Awaited(ws[m], g) /\ Awaited(ws[l], g) => m = l
    BY DEF Handles, Awaited
  <2>2. /\ Alone(x, g)'
        /\ Awaits(x, g)' <=> \E m \in 1..Len(ws) : Awaited(ws[m], g)
    BY <1>1, <1>5, <2>1, OwnAwaits
  <2>3. \A y \in Users : \A h \in Handlers :
           y # x \/ h # g => (Awaits(y, h)' <=> Awaits(y, h))
                             /\ (Idle(y, h)' <=> Idle(y, h))
    BY <1>3, <1>4 DEF Idle, Handles
  <2> QED BY <1>3, <1>4, <2>2, <2>3
<1>6. CASE Unheard(x, g, k, ws, s)
  <2>1. /\ \A m \in 1..Len(ws) : ~Awaited(ws[m], g)
        /\ k = 1 => ~Awaited(Head(queue[x]), g)
    BY <1>6 DEF Awaited, Unheard
  <2>2. Alone(x, g)' /\ (Awaits(x, g)' <=> Awaits(x, g))
    BY <1>1, <2>1, OtherAwaits
  <2>3. \A y \in Users : \A h \in Handlers :
           y # x \/ h # g => (Awaits(y, h)' <=> Awaits(y, h))
                             /\ (Idle(y, h)' <=> Idle(y, h))
    BY <1>3, <1>4 DEF Idle, Handles
  <2> QED BY <1>3, <1>4, <1>6, <2>2, <2>3
<1> QED BY <1>5, <1>6 DEF Handles

\* A handler keeps its stages and those of others legal.
LEMMA HandlesStages ==
    ASSUME QueueInv, NEW x \in Users, NEW g \in Handlers, NEW k, NEW ws, NEW s,
           Handles(x, g, k, ws, s), Legal(x, g, k, ws, s), settling \subseteq settling'
    PROVE  HandlersOK'
<1>1. \A y \in Users : \A h \in Handlers : Alone(y, h)' /\ StageOK(y, h)
  BY HandlesAwaits DEF QueueInv, HandlersOK
<1>2. ASSUME NEW y \in Users, NEW h \in Handlers, y # x \/ h # g PROVE StageOK(y, h)'
  <2>1. (Awaits(y, h)' <=> Awaits(y, h)) /\ at'[y][h] = at[y][h]
    BY <1>2, HandlesAwaits DEF Handles
  <2> QED BY <1>1, <2>1 DEF StageOK
<1>3. StageOK(x, g)'
  <2>1. at'[x][g] = s
    BY DEF Handles
  <2>2. CASE Unheard(x, g, k, ws, s)
    <3>1. /\ \A m \in 1..Len(ws) : ~Awaited(ws[m], g)
          /\ k = 1 => ~Awaited(Head(queue[x]), g)
      BY <2>2 DEF Awaited, Unheard
    <3>2. TypeOK /\ Moves(x, k, ws) /\ (applied[x] => queue[x] # <<>>)
      BY DEF QueueInv, HeadOK, Handles
    <3>3. Awaits(x, g)' <=> Awaits(x, g)
      BY <3>1, <3>2, OtherAwaits
    <3>4. at'[x][g] = at[x][g]
      BY <2>1, <2>2 DEF Unheard
    <3> QED BY <1>1, <3>3, <3>4 DEF StageOK
  <2>3. CASE ~Unheard(x, g, k, ws, s)
    <3>1. Awaits(x, g)' <=> \E m \in 1..Len(ws) : Awaited(ws[m], g)
      BY <2>3, HandlesAwaits
    <3>2. (\A m \in 1..Len(ws) : ~ws[m].ack) => ~Awaits(x, g)'
      BY <3>1 DEF Awaited
    <3> QED BY <1>1, <2>1, <2>3, <3>1, <3>2 DEF StageOK, Legal
  <2> QED BY <2>2, <2>3
<1> QED BY <1>2, <1>3 DEF HandlersOK

\* What a handler's queue holds after its step.
LEMMA HandlesQueue ==
    ASSUME QueueInv, NEW x \in Users, NEW g \in Handlers, NEW k, NEW ws, NEW s,
           Handles(x, g, k, ws, s)
    PROVE  /\ TypeOK /\ Moves(x, k, ws) /\ (applied[x] => queue[x] # <<>>)
           /\ ws \in Seq(Writes) /\ k \in {0, 1}
           /\ queue[x] \in Seq(Writes) /\ Len(queue[x]) \in Nat
           /\ k = 1 => /\ applied[x] /\ applied'[x] = FALSE
                       /\ Head(queue[x]) = queue[x][1] /\ 1 \in 1..Len(queue[x])
                       /\ Awaited(queue[x][1], g) \/ Unheard(x, g, k, ws, s)
           /\ k = 0 => applied' = applied
<1>1. /\ TypeOK /\ Moves(x, k, ws) /\ (applied[x] => queue[x] # <<>>)
  BY DEF QueueInv, HeadOK, Handles
<1>2. ws \in Seq(Writes) /\ k \in {0, 1} /\ queue[x] \in Seq(Writes)
      /\ applied \in [Users -> BOOLEAN]
  BY <1>1 DEF Moves, TypeOK
<1>3. Len(queue[x]) \in Nat
  BY <1>2, LenProperties
<1>4. /\ k = 1 => applied[x] /\ applied'[x] = FALSE
      /\ k = 0 => applied' = applied
  BY <1>1, <1>2 DEF Moves
<1>5. k = 1 => Head(queue[x]) = queue[x][1] /\ 1 \in 1..Len(queue[x])
  BY <1>1, <1>2, <1>4, Split
<1>6. k = 1 => Awaited(Head(queue[x]), g) \/ Unheard(x, g, k, ws, s)
  BY DEF Handles
<1> QED BY <1>1, <1>2, <1>3, <1>4, <1>5, <1>6

\* What is in the queues after a handler's step was there or is issued, and
\* all of that but the head is there.
LEMMA HandlesItems ==
    ASSUME QueueInv, NEW x \in Users, NEW g \in Handlers, NEW k, NEW ws, NEW s,
           Handles(x, g, k, ws, s)
    PROVE  /\ \A y \in Users : y # x => queue'[y] = queue[y]
           /\ \A i \in 1..Len(queue'[x]) :
                 \/ i + k \in 1..Len(queue[x]) /\ queue'[x][i] = queue[x][i + k]
                 \/ \E m \in 1..Len(ws) : queue'[x][i] = ws[m]
           /\ \A j \in 1..Len(queue[x]) :
                 \/ k = 1 /\ j = 1
                 \/ j - k \in 1..Len(queue'[x]) /\ queue'[x][j - k] = queue[x][j]
           /\ \A m \in 1..Len(ws) :
                 /\ (Len(queue[x]) - k) + m \in 1..Len(queue'[x])
                 /\ queue'[x][(Len(queue[x]) - k) + m] = ws[m]
<1>1. TypeOK /\ Moves(x, k, ws) /\ (applied[x] => queue[x] # <<>>)
  BY HandlesQueue
<1>2. \A y \in Users : y # x => queue'[y] = queue[y]
  BY <1>1, Moved
<1>3. \A i \in 1..Len(queue'[x]) :
         \/ i + k \in 1..Len(queue[x]) /\ queue'[x][i] = queue[x][i + k]
         \/ \E m \in 1..Len(ws) :
               i = (Len(queue[x]) - k) + m /\ queue'[x][i] = ws[m]
  BY <1>1, Moved
<1>4. \A j \in 1..Len(queue[x]) :
         \/ k = 1 /\ j = 1
         \/ j - k \in 1..Len(queue'[x]) /\ queue'[x][j - k] = queue[x][j]
  BY <1>1, Moved
<1>5. \A m \in 1..Len(ws) :
         /\ (Len(queue[x]) - k) + m \in 1..Len(queue'[x])
         /\ queue'[x][(Len(queue[x]) - k) + m] = ws[m]
  BY <1>1, Moved
<1>6. \A i \in 1..Len(queue'[x]) :
         \/ i + k \in 1..Len(queue[x]) /\ queue'[x][i] = queue[x][i + k]
         \/ \E m \in 1..Len(ws) : queue'[x][i] = ws[m]
  BY <1>3
<1> QED BY <1>2, <1>4, <1>5, <1>6

\* A handler issues only what its client may.
LEMMA HandlesEntries ==
    ASSUME QueueInv, NEW x \in Users, NEW g \in Handlers, NEW k, NEW ws, NEW s,
           Handles(x, g, k, ws, s),
           \A m \in 1..Len(ws) : Entry(x, ws[m], at', killed', settling'),
           killed' = killed, settling \subseteq settling',
           x = "caller" /\ g \in Callbacks => s = "receiver" \/ k = 1 \/ s = at[x][g]
    PROVE  Entries'
<1> DEFINE Old(y, w) == Entry(y, w, at, killed, settling)
           New(y, w) == Entry(y, w, at', killed', settling')
<1>1. /\ TypeOK /\ Moves(x, k, ws) /\ (applied[x] => queue[x] # <<>>)
      /\ k \in {0, 1}
      /\ k = 1 => 1 \in 1..Len(queue[x])
                  /\ (Awaited(queue[x][1], g) \/ s = at[x][g])
  <2>1. Unheard(x, g, k, ws, s) => s = at[x][g]
    BY DEF Unheard
  <2> QED BY <2>1, HandlesQueue
<1>2. /\ \A y \in Users : y # x => queue'[y] = queue[y]
      /\ \A i \in 1..Len(queue'[x]) :
            \/ i + k \in 1..Len(queue[x]) /\ queue'[x][i] = queue[x][i + k]
            \/ \E m \in 1..Len(ws) : queue'[x][i] = ws[m]
  BY HandlesItems
<1>3. /\ at'[x][g] = s
      /\ \A y \in Users : \A h \in Handlers : y # x \/ h # g => at'[y][h] = at[y][h]
  BY DEF Handles
<1>4. \A y \in Users : \A i \in 1..Len(queue[y]) : Old(y, queue[y][i])
  BY DEF QueueInv, Entries
<1>5. Callbacks \subseteq Handlers /\ Users = {"caller", "receiver"}
  BY DEF Callbacks, Handlers, Users
<1>6. \A w : Old("receiver", w) => New("receiver", w)
  BY DEF Entry
<1>7. \A w : /\ Old("caller", w)
             /\ w.ack /\ w.by \in Callbacks /\ at["caller"][w.by] = "receiver"
                => at'["caller"][w.by] = "receiver"
             => New("caller", w)
  BY DEF Entry, RawOf
<1>8. \A m \in 1..Len(ws) : New(x, ws[m])
  OBVIOUS
<1> HIDE DEF Old, New
<1>9. ASSUME NEW y \in Users, y # x, NEW i \in 1..Len(queue'[y])
      PROVE  New(y, queue'[y][i])
  <2>1. queue'[y] = queue[y] /\ Old(y, queue[y][i])
    BY <1>2, <1>4, <1>9
  <2>2. CASE y = "receiver"
    BY <1>6, <2>1, <2>2
  <2>3. CASE y = "caller"
    <3>1. \A h \in Callbacks : at'["caller"][h] = at["caller"][h]
      BY <1>3, <1>5, <1>9, <2>3
    <3> DEFINE w == queue[y][i]
    <3>2. Old("caller", w)
      BY <2>1, <2>3
    <3> HIDE DEF w
    <3>3. New("caller", w)
      BY <1>7, <3>1, <3>2
    <3> QED BY <2>1, <2>3, <3>3 DEF w
  <2> QED BY <1>5, <2>2, <2>3
<1>10. ASSUME NEW i \in 1..Len(queue'[x]) PROVE New(x, queue'[x][i])
  <2>1. CASE i + k \in 1..Len(queue[x]) /\ queue'[x][i] = queue[x][i + k]
    <3> DEFINE w == queue[x][i + k]
    <3>1. Old(x, w)
      BY <1>4, <2>1
    <3>2. CASE x = "receiver"
      BY <1>6, <2>1, <3>1, <3>2
    <3>3. CASE x = "caller"
      <4>1. ASSUME w.ack, w.by \in Callbacks, at["caller"][w.by] = "receiver"
            PROVE  at'["caller"][w.by] = "receiver"
        <5>1. CASE w.by # g
          BY <1>3, <1>5, <4>1, <5>1
        <5>2. CASE w.by = g /\ s = "receiver"
          BY <1>3, <3>3, <5>2
        <5>3. CASE w.by = g /\ s = at[x][g]
          BY <1>3, <3>3, <4>1, <5>3
        <5>4. CASE w.by = g /\ k = 1 /\ s # at[x][g]
          <6>1. Awaited(w, g) /\ Alone(x, g)
            BY <4>1, <5>4 DEF Awaited, QueueInv, HandlersOK, StageOK
          <6>2. i + k = 1
            BY <1>1, <2>1, <5>4, <6>1 DEF Alone
          <6>3. FALSE
            BY <5>4, <6>2
          <6> QED BY <6>3
        <5> QED BY <3>3, <4>1, <5>1, <5>2, <5>4, <5>3
      <4> HIDE DEF w
      <4>2. New("caller", w)
        BY <1>7, <3>1, <3>3, <4>1
      <4> QED BY <2>1, <3>3, <4>2 DEF w
    <3> QED BY <1>5, <3>2, <3>3
  <2>2. CASE \E m \in 1..Len(ws) : queue'[x][i] = ws[m]
    BY <1>8, <2>2
  <2> QED BY <1>2, <2>1, <2>2
<1>11. \A y \in Users : \A i \in 1..Len(queue'[y]) : New(y, queue'[y][i])
  BY <1>9, <1>10
<1> QED BY <1>11 DEF Entries, New

\* onUserOffline of the caller waits for its first write.
LEMMA HandlesOffline ==
    ASSUME QueueInv, NEW x \in Users, NEW g \in Handlers, NEW k, NEW ws, NEW s,
           Handles(x, g, k, ws, s),
           x = "caller" /\ g = "offline" /\ s = "receiver" =>
              \/ \E m \in 1..Len(ws) : Awaited(ws[m], "offline") /\ EndOf(ws[m], "caller")
              \/ k = 0 /\ s = at[x][g]
              \/ Unheard(x, g, k, ws, s)
    PROVE  OfflineOK'
<1>1. /\ TypeOK /\ Moves(x, k, ws) /\ (applied[x] => queue[x] # <<>>)
      /\ k \in {0, 1}
      /\ k = 1 => Awaited(queue[x][1], g) \/ Unheard(x, g, k, ws, s)
      /\ k = 1 => Head(queue[x]) = queue[x][1]
  BY HandlesQueue
<1>2. /\ \A y \in Users : y # x => queue'[y] = queue[y]
      /\ \A j \in 1..Len(queue[x]) :
            \/ k = 1 /\ j = 1
            \/ j - k \in 1..Len(queue'[x]) /\ queue'[x][j - k] = queue[x][j]
      /\ \A m \in 1..Len(ws) :
            /\ (Len(queue[x]) - k) + m \in 1..Len(queue'[x])
            /\ queue'[x][(Len(queue[x]) - k) + m] = ws[m]
  BY HandlesItems
<1>3. /\ at'[x][g] = s
      /\ \A y \in Users : \A h \in Handlers : y # x \/ h # g => at'[y][h] = at[y][h]
      /\ "caller" \in Users /\ "offline" \in Handlers
  BY DEF Handles, Users, Handlers
<1>4. SUFFICES ASSUME at'["caller"]["offline"] = "receiver"
               PROVE  \E i \in 1..Len(queue'["caller"]) :
                         /\ Awaited(queue'["caller"][i], "offline")
                         /\ EndOf(queue'["caller"][i], "caller")
  BY DEF OfflineOK, Awaited, EndOf
<1>5. CASE x = "caller" /\ g = "offline" /\
           \E m \in 1..Len(ws) : Awaited(ws[m], "offline") /\ EndOf(ws[m], "caller")
  BY <1>2, <1>5
<1>6. CASE /\ at["caller"]["offline"] = "receiver"
           /\ x = "caller" => g # "offline" \/ k = 0 \/ Unheard(x, g, k, ws, s)
  <2>1. PICK j \in 1..Len(queue["caller"]) :
           /\ Awaited(queue["caller"][j], "offline")
           /\ EndOf(queue["caller"][j], "caller")
    BY <1>6 DEF QueueInv, OfflineOK
  <2>2. CASE x # "caller"
    BY <1>2, <1>3, <2>1, <2>2
  <2>3. CASE x = "caller"
    <3>1. ~(k = 1 /\ j = 1)
      <4>1. CASE Unheard(x, g, k, ws, s)
        BY <1>1, <2>1, <2>3, <4>1 DEF Awaited, Unheard
      <4>2. CASE ~Unheard(x, g, k, ws, s)
        BY <1>1, <1>6, <2>1, <2>3, <4>2 DEF Awaited
      <4> QED BY <4>1, <4>2
    <3>2. j - k \in 1..Len(queue'[x]) /\ queue'[x][j - k] = queue[x][j]
      BY <1>2, <2>3, <3>1
    <3> QED BY <2>1, <2>3, <3>2
  <2> QED BY <2>2, <2>3
<1>7. CASE x = "caller" /\ g = "offline"
  <2>1. Unheard(x, g, k, ws, s) => s = at[x][g]
    BY DEF Unheard
  <2> QED BY <1>3, <1>4, <1>5, <1>6, <1>7, <2>1
<1>8. CASE ~(x = "caller" /\ g = "offline")
  BY <1>3, <1>4, <1>6, <1>8
<1> QED BY <1>7, <1>8

\* The server's copy of the first write is not touched.
LEMMA HandlesHead ==
    ASSUME QueueInv, NEW x \in Users, NEW g \in Handlers, NEW k, NEW ws, NEW s,
           Handles(x, g, k, ws, s)
    PROVE  HeadOK'
<1>1. hist' = hist
  BY DEF Handles
<1>2. /\ TypeOK /\ Moves(x, k, ws) /\ (applied[x] => queue[x] # <<>>)
      /\ k \in {0, 1} /\ hist' = hist
      /\ k = 1 => applied'[x] = FALSE
      /\ k = 0 => applied' = applied
  BY <1>1, HandlesQueue
<1>3. /\ \A y \in Users : y # x => queue'[y] = queue[y] /\ applied'[y] = applied[y]
      /\ \A j \in 1..Len(queue[x]) :
            \/ k = 1 /\ j = 1
            \/ j - k \in 1..Len(queue'[x]) /\ queue'[x][j - k] = queue[x][j]
      /\ queue' \in [Users -> Seq(Writes)]
  BY <1>2, Moved
<1>4. applied'[x] => applied[x] /\ queue'[x] # <<>> /\ Head(queue'[x]) = Head(queue[x])
  <2>1. SUFFICES ASSUME applied'[x], k = 0, applied[x]
                 PROVE  queue'[x] # <<>> /\ Head(queue'[x]) = Head(queue[x])
    BY <1>2
  <2>2. queue[x] \in Seq(Writes) /\ queue[x] # <<>> /\ queue'[x] \in Seq(Writes)
    BY <1>2, <1>3, <2>1 DEF TypeOK
  <2>3. 1 \in 1..Len(queue[x]) /\ Head(queue[x]) = queue[x][1]
    BY <2>2, Split
  <2>4. 1 - k = 1
    BY <2>1
  <2>5. 1 \in 1..Len(queue'[x]) /\ queue'[x][1] = queue[x][1]
    BY <1>3, <2>1, <2>3, <2>4
  <2>6. queue'[x] # <<>>
    BY <2>5
  <2> QED BY <2>2, <2>3, <2>5, <2>6, Split
<1>5. /\ \A y \in Users : applied[y] => queue[y] # <<>>
      /\ applied["caller"] => \A z \in Users :
            EndOf(Head(queue["caller"]), z) => hist[z] \in Terminal
  BY DEF QueueInv, HeadOK
<1>6. \A y \in Users : applied'[y] =>
         applied[y] /\ queue'[y] # <<>> /\ Head(queue'[y]) = Head(queue[y])
  BY <1>3, <1>4, <1>5
<1>7. "caller" \in Users
  BY DEF Users
<1> QED BY <1>2, <1>5, <1>6, <1>7 DEF HeadOK, EndOf

\* What is still to reach the server after a handler's step.
LEMMA HandlesPending ==
    ASSUME QueueInv, NEW x \in Users, NEW g \in Handlers, NEW k, NEW ws, NEW s,
           Handles(x, g, k, ws, s)
    PROVE  /\ \A y \in Users : Pending(y) \in Seq(Writes)
           /\ ws \in Seq(Writes)
           /\ \A y \in Users : y # x => Pending(y)' = Pending(y)
           /\ Pending(x)' = Pending(x) \o ws
           /\ hist' = hist
<1>1. TypeOK /\ Moves(x, k, ws) /\ (applied[x] => queue[x] # <<>>) /\ ws \in Seq(Writes)
  BY HandlesQueue
<1>2. Pending(x)' = Pending(x) \o ws
  BY <1>1, Moved
<1>3. \A y \in Users : y # x => Pending(y)' = Pending(y)
  BY <1>1, Moved
<1>4. ASSUME NEW y \in Users PROVE Pending(y) \in Seq(Writes)
  <2>1. queue[y] \in Seq(Writes) /\ (applied[y] => queue[y] # <<>>)
    BY <1>1 DEF TypeOK, QueueInv, HeadOK
  <2>2. applied[y] => Tail(queue[y]) \in Seq(Writes)
    BY <2>1, Split
  <2> QED BY <2>1, <2>2 DEF Pending
<1>5. hist' = hist
  BY DEF Handles
<1> QED BY <1>1, <1>2, <1>3, <1>4, <1>5

\* What a step of the caller's client makes of the history of z.
LEMMA CallerDue ==
    ASSUME QueueInv, NEW g \in Handlers, NEW k, NEW ws, NEW s,
           Handles("caller", g, k, ws, s), NEW z \in Users
    PROVE  /\ Due(z) /\ (\A m \in 1..Len(ws) : ~RawOf(ws[m], z)) => Due(z)'
           /\ (\E m \in 1..Len(ws) :
                 EndOf(ws[m], z) /\ \A l \in 1..Len(ws) : l > m => ~RawOf(ws[l], z))
              => Due(z)'
           /\ Due(z)' /\ (\A m \in 1..Len(ws) : ~EndOf(ws[m], z)) => Due(z)
           /\ Len(ws) = 1 /\ RawOf(ws[1], z) => ~Due(z)'
<1> DEFINE p == Pending("caller")
           r == Pending("receiver")
           h == hist[z]
<1>1. /\ p \in Seq(Writes) /\ ws \in Seq(Writes)
      /\ p' = p \o ws /\ r' = r /\ h' = h
  <2>1. "caller" \in Users /\ "receiver" \in Users /\ "receiver" # "caller"
    BY DEF Users
  <2> QED BY <2>1, HandlesPending
<1>2. /\ Due(z) <=> DueIn(p, r, h, z)
      /\ Due(z)' <=> DueIn(p \o ws, r, h, z)
  <2>1. Due(z)' <=> DueIn(p', r', h', z)
    BY DEF Due, DueIn, RawOf, EndOf
  <2> HIDE DEF p, r, h
  <2>2. Due(z)' <=> DueIn(p \o ws, r, h, z)
    BY <1>1, <2>1
  <2> QED BY <2>2 DEF Due, p, r, h
<1> HIDE DEF p, r, h
<1>3. DueIn(p, r, h, z) /\ (\A m \in 1..Len(ws) : ~RawOf(ws[m], z))
      => DueIn(p \o ws, r, h, z)
  BY <1>1, DueGrows
<1>4. (\E m \in 1..Len(ws) :
         EndOf(ws[m], z) /\ \A l \in 1..Len(ws) : l > m => ~RawOf(ws[l], z))
      => DueIn(p \o ws, r, h, z)
  BY <1>1, DueIssued
<1>5. DueIn(p \o ws, r, h, z) /\ (\A m \in 1..Len(ws) : ~EndOf(ws[m], z))
      => DueIn(p, r, h, z)
  BY <1>1, DueBefore
<1>6. Len(ws) = 1 /\ RawOf(ws[1], z) => ~DueIn(p \o ws, r, h, z)
  BY <1>1, NotDueIssued
<1> QED BY <1>2, <1>3, <1>4, <1>5, <1>6

\* What a step of the receiver's client makes of the history of z.
LEMMA ReceiverDue ==
    ASSUME QueueInv, NEW g \in Handlers, NEW k, NEW ws, NEW s,
           Handles("receiver", g, k, ws, s), NEW z \in Users
    PROVE  /\ Due(z) => Due(z)'
           /\ Due(z)' /\ (\A m \in 1..Len(ws) : ~EndOf(ws[m], z)) => Due(z)
           /\ ( /\ \E m \in 1..Len(ws) : EndOf(ws[m], z)
                /\ \A j \in 1..Len(Pending("caller")) : ~RawOf(Pending("caller")[j], z) )
              => Due(z)'
<1> DEFINE p == Pending("caller")
           r == Pending("receiver")
           h == hist[z]
<1>1. /\ r \in Seq(Writes) /\ ws \in Seq(Writes)
      /\ r' = r \o ws /\ p' = p /\ h' = h
  <2>1. "caller" \in Users /\ "receiver" \in Users /\ "receiver" # "caller"
    BY DEF Users
  <2> QED BY <2>1, HandlesPending
<1>2. /\ Due(z) <=> DueIn(p, r, h, z)
      /\ Due(z)' <=> DueIn(p, r \o ws, h, z)
  <2>1. Due(z)' <=> DueIn(p', r', h', z)
    BY DEF Due, DueIn, RawOf, EndOf
  <2> HIDE DEF p, r, h
  <2>2. Due(z)' <=> DueIn(p, r \o ws, h, z)
    BY <1>1, <2>1
  <2> QED BY <2>2 DEF Due, p, r, h
<1>3. /\ DueIn(p, r, h, z) => DueIn(p, r \o ws, h, z)
      /\ DueIn(p, r \o ws, h, z) /\ (\A m \in 1..Len(ws) : ~EndOf(ws[m], z))
         => DueIn(p, r, h, z)
      /\ ( /\ \E m \in 1..Len(ws) : EndOf(ws[m], z)
           /\ \A j \in 1..Len(p) : ~RawOf(p[j], z) ) => DueIn(p, r \o ws, h, z)
  <2> HIDE DEF p, r, h
  <2> QED BY <1>1, DueFromReceiver
<1> QED BY <1>2, <1>3

\* The caller's screen shows no more than it may.
LEMMA HandlesSeen ==
    ASSUME QueueInv, NEW x \in Users, NEW g \in Handlers, NEW k, NEW ws, NEW s,
           Handles(x, g, k, ws, s)
    PROVE  SeenOK'
<1>1. /\ seen \in [Users -> BOOLEAN] /\ ws \in Seq(Writes)
      /\ seen' = [seen EXCEPT ![x] = Shown(ws, x, seen[x])]
      /\ seen["caller"] => Due("receiver")
  <2>1. ws \in Seq(Writes)
    BY HandlesQueue
  <2>2. seen' = [seen EXCEPT ![x] = Shown(ws, x, seen[x])]
    BY DEF Handles
  <2> QED BY <2>1, <2>2 DEF QueueInv, TypeOK, SeenOK
<1>2. "caller" \in Users /\ "receiver" \in Users /\ Peer("caller") = "receiver"
  BY DEF Users, Peer
<1>3. SUFFICES ASSUME seen'["caller"] PROVE Due("receiver")'
  BY DEF SeenOK
<1>4. CASE x = "receiver"
  <2>1. seen["caller"]
    BY <1>1, <1>2, <1>3, <1>4
  <2> QED BY <1>1, <1>2, <1>4, <2>1, ReceiverDue
<1>5. CASE x = "caller"
  <2>1. Shown(ws, "caller", seen["caller"]) /\ seen["caller"] \in BOOLEAN
    BY <1>1, <1>2, <1>3, <1>5
  <2>2. \/ /\ seen["caller"]
           /\ \A i \in 1..Len(ws) : ~RawOf(ws[i], "receiver") /\ ~EndOf(ws[i], "receiver")
        \/ \E i \in 1..Len(ws) :
              /\ EndOf(ws[i], "receiver")
              /\ \A j \in 1..Len(ws) :
                    j > i => ~RawOf(ws[j], "receiver") /\ ~EndOf(ws[j], "receiver")
    BY <1>1, <1>2, <2>1, ShownSettled
  <2>3. CASE /\ seen["caller"]
             /\ \A i \in 1..Len(ws) : ~RawOf(ws[i], "receiver") /\ ~EndOf(ws[i], "receiver")
    BY <1>1, <1>2, <1>5, <2>3, CallerDue
  <2>4. CASE \E i \in 1..Len(ws) :
              /\ EndOf(ws[i], "receiver")
              /\ \A j \in 1..Len(ws) :
                    j > i => ~RawOf(ws[j], "receiver") /\ ~EndOf(ws[j], "receiver")
    BY <1>2, <1>5, <2>4, CallerDue
  <2> QED BY <2>2, <2>3, <2>4
<1> QED BY <1>4, <1>5 DEF Users

-----------------------------------------------------------------------------
(***************************************************************************)
(* Steps of handlers in general.                                           *)
(***************************************************************************)

\* A step in which handler g of client x does what its code does: it goes on
\* at a stage it may be at and issues what it may.
Regular(x, g, k, ws, s) ==
    /\ Handles(x, g, k, ws, s) /\ Legal(x, g, k, ws, s)
    /\ \A m \in 1..Len(ws) : Entry(x, ws[m], at', killed', settling')
    /\ killed' = killed /\ settling \subseteq settling'
    /\ x = "caller" /\ g \in Callbacks => s = "receiver" \/ k = 1 \/ s = at[x][g]
    /\ x = "caller" /\ g = "offline" /\ s = "receiver" =>
          \/ \E m \in 1..Len(ws) : Awaited(ws[m], "offline") /\ EndOf(ws[m], "caller")
          \/ Unheard(x, g, k, ws, s)
    /\ screen'["caller"] = "open" /\ channel'["caller"] = "out" =>
          /\ screen["caller"] = "open" /\ channel["caller"] = "out"
          /\ x = "caller" /\ g = "join" => ws = <<>> /\ s = at[x][g]

\* Such a step keeps the queue's invariant.
LEMMA RegularQueue ==
    ASSUME QueueInv, NEW x \in Users, NEW g \in Handlers, NEW k, NEW ws, NEW s,
           Regular(x, g, k, ws, s), TypeOK'
    PROVE  QueueInv'
<1>1. Handles(x, g, k, ws, s) /\ Legal(x, g, k, ws, s) /\ killed' = killed
      /\ settling \subseteq settling'
  BY DEF Regular
<1>2. HandlersOK'
  BY <1>1, HandlesStages
<1>3. Entries'
  <2>1. /\ \A m \in 1..Len(ws) : Entry(x, ws[m], at', killed', settling')
        /\ x = "caller" /\ g \in Callbacks => s = "receiver" \/ k = 1 \/ s = at[x][g]
    BY DEF Regular
  <2> QED BY <1>1, <2>1, HandlesEntries
<1>4. OfflineOK'
  <2>1. x = "caller" /\ g = "offline" /\ s = "receiver" =>
          \/ \E m \in 1..Len(ws) : Awaited(ws[m], "offline") /\ EndOf(ws[m], "caller")
          \/ Unheard(x, g, k, ws, s)
    BY DEF Regular
  <2> QED BY <1>1, <2>1, HandlesOffline
<1>5. JoinsOnce'
  <2>1. SUFFICES ASSUME screen'["caller"] = "open" /\ channel'["caller"] = "out"
                 PROVE  Idle("caller", "join")'
    BY DEF JoinsOnce
  <2>2. /\ screen["caller"] = "open" /\ channel["caller"] = "out"
        /\ x = "caller" /\ g = "join" => ws = <<>> /\ s = at[x][g]
    BY <2>1 DEF Regular
  <2>3. Idle("caller", "join") /\ "caller" \in Users /\ "join" \in Handlers
    BY <2>2 DEF QueueInv, JoinsOnce, Users, Handlers
  <2>4. CASE ~(x = "caller" /\ g = "join")
    BY <1>1, <2>3, <2>4, HandlesAwaits
  <2>5. CASE x = "caller" /\ g = "join"
    <3>1. at'["caller"]["join"] = at["caller"]["join"] /\ Len(ws) = 0
      BY <1>1, <2>2, <2>5 DEF Handles
    <3>2. Awaits(x, g)' => Awaits(x, g)
      BY <1>1, <3>1, HandlesAwaits
    <3> QED BY <2>3, <2>5, <3>1, <3>2 DEF Idle
  <2> QED BY <2>4, <2>5
<1>6. HeadOK'
  BY <1>1, HandlesHead
<1>7. SeenOK'
  BY <1>1, HandlesSeen
<1> QED BY <1>2, <1>3, <1>4, <1>5, <1>6, <1>7 DEF QueueInv

\* The types of what a handler's step changes.
LEMMA HandlesTypes ==
    ASSUME QueueInv, NEW x \in Users, NEW g \in Handlers, NEW k, NEW ws, NEW s,
           Handles(x, g, k, ws, s)
    PROVE  /\ queue' \in [Users -> Seq(Writes)] /\ applied' \in [Users -> BOOLEAN]
           /\ at' \in [Users -> [Handlers -> Stages]] /\ seen' \in [Users -> BOOLEAN]
           /\ hist' \in [Users -> Statuses]
<1>1. TypeOK /\ Moves(x, k, ws) /\ (applied[x] => queue[x] # <<>>)
  BY HandlesQueue
<1>2. queue' \in [Users -> Seq(Writes)] /\ applied' \in [Users -> BOOLEAN]
  BY <1>1, Moved
<1>3. at' \in [Users -> [Handlers -> Stages]] /\ hist' \in [Users -> Statuses]
  BY <1>1 DEF Handles, TypeOK
<1>4. seen' \in [Users -> BOOLEAN]
  <2>1. seen \in [Users -> BOOLEAN] /\ seen' = [seen EXCEPT ![x] = Shown(ws, x, seen[x])]
    BY <1>1 DEF Handles, TypeOK
  <2> DEFINE own == {i \in 1..Len(ws) : ws[i].do = "status" /\ ws[i].of = Peer(x)}
             top == ws[CHOOSE i \in own : \A j \in own : j <= i].as \in Terminal
  <2>2. Shown(ws, x, seen[x]) = IF own = {} THEN seen[x] ELSE top
    BY DEF Shown
  <2>3. top \in BOOLEAN /\ seen[x] \in BOOLEAN
    BY <2>1
  <2> HIDE DEF own, top
  <2>4. Shown(ws, x, seen[x]) \in BOOLEAN
    BY <2>2, <2>3
  <2> QED BY <2>1, <2>4
<1> QED BY <1>2, <1>3, <1>4

\* A handler that waits for nothing issues writes.
LEMMA IssueHandles ==
    ASSUME QueueInv, NEW x \in Users, NEW g \in Handlers, NEW ws \in Seq(Writes),
           NEW s \in Stages, Issue(x, ws), Goto(x, g, s), ~Awaits(x, g),
           \A m \in 1..Len(ws) : ws[m].by = g,
           \A m, l \in 1..Len(ws) : ws[m].ack /\ ws[l].ack => m = l,
           UNCHANGED hist
    PROVE  Handles(x, g, 0, ws, s)
<1>1. at \in [Users -> [Handlers -> Stages]] /\ queue \in [Users -> Seq(Writes)]
  BY DEF QueueInv, TypeOK
<1>2. Moves(x, 0, ws)
  BY <1>1 DEF Issue, Moves, Rest
<1>3. /\ at' \in [Users -> [Handlers -> Stages]] /\ at'[x][g] = s
      /\ \A y \in Users : \A h \in Handlers : y # x \/ h # g => at'[y][h] = at[y][h]
  BY <1>1 DEF Goto
<1> QED BY <1>2, <1>3 DEF Handles, Issue

\* A handler that is told of its write issues more.
LEMMA ResumeHandles ==
    ASSUME QueueInv, NEW x \in Users, NEW g \in Handlers, NEW ws \in Seq(Writes),
           NEW s \in Stages, NEW t, Resume(x, g, t, ws), Goto(x, g, s),
           \A m \in 1..Len(ws) : ws[m].by = g,
           \A m, l \in 1..Len(ws) : ws[m].ack /\ ws[l].ack => m = l,
           UNCHANGED hist
    PROVE  Handles(x, g, 1, ws, s)
<1>1. at \in [Users -> [Handlers -> Stages]] /\ queue \in [Users -> Seq(Writes)]
  BY DEF QueueInv, TypeOK
<1>2. Moves(x, 1, ws)
  BY <1>1 DEF Resume, Moves, Rest
<1>3. /\ at' \in [Users -> [Handlers -> Stages]] /\ at'[x][g] = s
      /\ \A y \in Users : \A h \in Handlers : y # x \/ h # g => at'[y][h] = at[y][h]
  BY <1>1 DEF Goto
<1>4. Awaited(Head(queue[x]), g)
  BY DEF Resume, Awaited
<1> QED BY <1>2, <1>3, <1>4 DEF Handles, Resume

\* The writes that handlers issue.
LEMMA WriteFacts ==
    ASSUME NEW h \in Handlers, NEW x \in Users, NEW t \in Statuses
    PROVE  /\ Status(h, x, t) \in Writes /\ Status(h, x, t).by = h
           /\ Status(h, x, t).ack /\ Status(h, x, t).do = "status"
           /\ Status(h, x, t).of = x /\ Status(h, x, t).as = t
           /\ Unawaited(Status(h, x, t)) \in Writes /\ Unawaited(Status(h, x, t)).by = h
           /\ ~Unawaited(Status(h, x, t)).ack /\ Unawaited(Status(h, x, t)).do = "status"
           /\ Unawaited(Status(h, x, t)).of = x /\ Unawaited(Status(h, x, t)).as = t
           /\ Signal(h, x) \in Writes /\ Signal(h, x).by = h /\ Signal(h, x).do # "status"
           /\ Signal(h, x).ack
           /\ Unsignal(h, x) \in Writes /\ Unsignal(h, x).by = h
           /\ Unsignal(h, x).do # "status" /\ Unsignal(h, x).ack
           /\ EndCall(h, x) \in Writes /\ EndCall(h, x).by = h
           /\ EndCall(h, x).do # "status" /\ EndCall(h, x).ack
<1>1. "none" \in Statuses
  BY DEF Statuses
<1>2. /\ Status(h, x, t) \in Writes /\ Status(h, x, t).by = h
      /\ Status(h, x, t).ack /\ Status(h, x, t).do = "status"
      /\ Status(h, x, t).of = x /\ Status(h, x, t).as = t
  BY DEF Status, Writes
<1>3. /\ Unawaited(Status(h, x, t)) \in Writes /\ Unawaited(Status(h, x, t)).by = h
      /\ ~Unawaited(Status(h, x, t)).ack /\ Unawaited(Status(h, x, t)).do = "status"
      /\ Unawaited(Status(h, x, t)).of = x /\ Unawaited(Status(h, x, t)).as = t
  BY DEF Status, Unawaited, Writes
<1>4. /\ Signal(h, x) \in Writes /\ Signal(h, x).by = h /\ Signal(h, x).do # "status"
      /\ Signal(h, x).ack
  BY <1>1 DEF Signal, Writes
<1>5. /\ Unsignal(h, x) \in Writes /\ Unsignal(h, x).by = h
      /\ Unsignal(h, x).do # "status" /\ Unsignal(h, x).ack
  BY <1>1 DEF Unsignal, Writes
<1>6. /\ EndCall(h, x) \in Writes /\ EndCall(h, x).by = h
      /\ EndCall(h, x).do # "status" /\ EndCall(h, x).ack
  BY <1>1 DEF EndCall, Writes
<1> QED BY <1>2, <1>3, <1>4, <1>5, <1>6

\* One write, and none.
LEMMA OneWrite ==
    ASSUME NEW w \in Writes
    PROVE  /\ <<w>> \in Seq(Writes) /\ Len(<<w>>) = 1 /\ 1 \in 1..Len(<<w>>)
           /\ <<w>>[1] = w
           /\ \A m \in 1..Len(<<w>>) : m = 1 /\ <<w>>[m] = w
OBVIOUS

\* The empty sequence of writes.
LEMMA NoWrite ==
    /\ <<>> \in Seq(Writes) /\ Len(<<>>) = 0
    /\ \A m \in 1..Len(<<>>) : FALSE
OBVIOUS

-----------------------------------------------------------------------------
(***************************************************************************)
(* The invariant of the records.                                           *)
(***************************************************************************)

\* A call that OverIsRecorded is about, so far.
Plain == ~late /\ killed = {}

\* The receiver's client records no end while the caller's opens the history.
Crossing == Plain /\ Opening => ~Recording /\ "receiver" \notin settling

\* The receiver's client records the end in the caller's history first.
ReceiverRecords ==
    /\ Plain
    /\ at["receiver"]["offline"] = "receiver" \/ at["receiver"]["end"] = "receiver"
    => Due("caller")

\* The receiver's history is not settled before the caller's.
Agree ==
    /\ Plain /\ "caller" \notin settling
    /\ \A h \in Callbacks : at["caller"][h] = "none"
    /\ Due("receiver")
    => Due("caller")

\* The caller's client will hear of a callback's write before endCall's.
Before(h) ==
    \E i, j \in 1..Len(queue["caller"]) :
        i < j /\ Awaited(queue["caller"][i], h) /\ Awaited(queue["caller"][j], "end")

\* What _onCallEnd of the caller has recorded, stage by stage.
Ends ==
    Plain /\ "caller" \in settling =>
        /\ \A h \in Callbacks : at["caller"][h] = "receiver" =>
              at["caller"]["end"] = "record" /\ ~isalreadyendedcall["caller"] /\ Before(h)
        /\ at["caller"]["end"] # "record" \/ isalreadyendedcall["caller"] => Due("caller")
        /\ at["caller"]["end"] \notin {"record", "receiver"} \/ isalreadyendedcall["caller"]
              => Due("receiver")
        /\ at["caller"]["end"] = "none" => screen["caller"] # "open"

\* The caller's screen closes when the caller ends the call.
Screens ==
    killed = {} /\ "caller" \notin settling => screen["caller"] = "open"

RecordInv == Crossing /\ ReceiverRecords /\ Agree /\ Ends /\ Screens

\* Handlers and users.
LEMMA Names ==
    /\ "caller" \in Users /\ "receiver" \in Users /\ "receiver" # "caller"
    /\ Callbacks \subseteq Handlers
    /\ "join" \in Handlers /\ "pick" \in Handlers /\ "offline" \in Handlers
    /\ "end" \in Handlers /\ "reject" \in Handlers
    /\ "offline" \notin Callbacks /\ "end" \notin Callbacks /\ "reject" \notin Callbacks
    /\ Peer("caller") = "receiver" /\ Peer("receiver") = "caller"
BY DEF Users, Callbacks, Handlers, Peer

\* What is to reach the server was issued.
LEMMA PendingIssued ==
    ASSUME QueueInv, NEW y \in Users, NEW j \in 1..Len(Pending(y))
    PROVE  \E i \in 1..Len(queue[y]) : Pending(y)[j] = queue[y][i]
<1>1. queue[y] \in Seq(Writes) /\ (applied[y] => queue[y] # <<>>)
  BY DEF QueueInv, TypeOK, HeadOK
<1>2. CASE applied[y]
  <2>1. j \in 1..Len(Tail(queue[y])) /\ Pending(y) = Tail(queue[y])
    BY <1>2 DEF Pending
  <2>2. j + 1 \in 1..Len(queue[y]) /\ Tail(queue[y])[j] = queue[y][j + 1]
    BY <1>1, <1>2, <2>1, Split
  <2> QED BY <2>1, <2>2
<1>3. CASE ~applied[y]
  BY <1>3 DEF Pending
<1> QED BY <1>2, <1>3

\* While no callback is between its two writes, no write that the caller's
\* client has yet to send says of the caller's call that it is not over.
LEMMA Clear ==
    ASSUME QueueInv, Plain, \A h \in Callbacks : at["caller"][h] = "none"
    PROVE  \A j \in 1..Len(Pending("caller")) : ~RawOf(Pending("caller")[j], "caller")
<1>1. SUFFICES ASSUME NEW j \in 1..Len(Pending("caller")),
                      RawOf(Pending("caller")[j], "caller")
               PROVE  FALSE
  OBVIOUS
<1>2. PICK i \in 1..Len(queue["caller"]) : Pending("caller")[j] = queue["caller"][i]
  BY Names, PendingIssued
<1> DEFINE w == queue["caller"][i]
<1>3. Entry("caller", w, at, killed, settling) /\ RawOf(w, "caller")
  BY <1>1, <1>2, Names DEF QueueInv, Entries
<1> HIDE DEF w
<1>4. w.by \in Callbacks /\ at["caller"][w.by] = "receiver"
  BY <1>3 DEF Entry, RawOf, Plain
<1> QED BY <1>4

\* The handlers of the callbacks when no record is open.
LEMMA NotOpening ==
    ASSUME ~Opening
    PROVE  \A h \in Callbacks : at["caller"][h] = "none" /\ ~Awaits("caller", h)
BY DEF Opening, Idle, Callbacks

\* The receiver's client goes on.
LEMMA ReceiverStep ==
    ASSUME QueueInv, RecordInv, NEW g \in Handlers, NEW k, NEW ws, NEW s,
           Handles("receiver", g, k, ws, s),
           Plain' => Plain /\ ~Opening, killed' = killed,
           "caller" \in settling' <=> "caller" \in settling,
           screen'["caller"] = screen["caller"],
           isalreadyendedcall'["caller"] = isalreadyendedcall["caller"],
           Plain /\ ~Opening /\ g \in {"offline", "end"} /\ s = "receiver" =>
              Due("caller") \/ \E m \in 1..Len(ws) : EndOf(ws[m], "caller"),
           Plain /\ ~Opening /\ (\E m \in 1..Len(ws) : EndOf(ws[m], "receiver")) =>
              Due("caller") \/ \E m \in 1..Len(ws) : EndOf(ws[m], "caller")
    PROVE  RecordInv'
<1>1. \A z \in Users : Due(z) => Due(z)'
  BY ReceiverDue
<1>2. ASSUME Plain, ~Opening, \E m \in 1..Len(ws) : EndOf(ws[m], "caller")
      PROVE  Due("caller")'
  <2>1. \A j \in 1..Len(Pending("caller")) : ~RawOf(Pending("caller")[j], "caller")
    BY <1>2, NotOpening, Clear
  <2> QED BY <1>2, <2>1, Names, ReceiverDue
<1>3. /\ at'["receiver"][g] = s
      /\ \A h \in Handlers : at'["caller"][h] = at["caller"][h]
      /\ \A h \in Handlers : h # g => at'["receiver"][h] = at["receiver"][h]
      /\ queue'["caller"] = queue["caller"]
      /\ \A h \in Handlers : Idle("caller", h)' <=> Idle("caller", h)
  <2>1. /\ at'["receiver"][g] = s
        /\ \A h \in Handlers : at'["caller"][h] = at["caller"][h]
        /\ \A h \in Handlers : h # g => at'["receiver"][h] = at["receiver"][h]
    BY Names DEF Handles
  <2>2. queue'["caller"] = queue["caller"]
    BY Names, HandlesItems
  <2>3. \A h \in Handlers : Idle("caller", h)' <=> Idle("caller", h)
    BY Names, HandlesAwaits
  <2> QED BY <2>1, <2>2, <2>3
<1>4. Opening' => Opening
  BY <1>3, Names DEF Opening, Callbacks
<1>5. Crossing'
  BY <1>4 DEF Crossing
<1>6. ReceiverRecords'
  <2>1. SUFFICES ASSUME Plain',
                        \/ at'["receiver"]["offline"] = "receiver"
                        \/ at'["receiver"]["end"] = "receiver"
                 PROVE  Due("caller")'
    BY DEF ReceiverRecords
  <2>2. Plain /\ ~Opening
    BY <2>1
  <2>3. CASE g \in {"offline", "end"} /\ s = "receiver"
    BY <1>1, <1>2, <2>2, <2>3, Names
  <2>4. CASE ~(g \in {"offline", "end"} /\ s = "receiver")
    <3>1. \/ at["receiver"]["offline"] = "receiver"
          \/ at["receiver"]["end"] = "receiver"
      BY <1>3, <2>1, <2>4, Names
    <3>2. Due("caller")
      BY <2>2, <3>1 DEF RecordInv, ReceiverRecords
    <3> QED BY <1>1, <3>2, Names
  <2> QED BY <2>3, <2>4
<1>7. Agree'
  <2>1. SUFFICES ASSUME Plain', "caller" \notin settling', Due("receiver")'
                 PROVE  Due("caller")'
    BY DEF Agree
  <2>2. Plain /\ ~Opening
    BY <2>1
  <2>3. CASE \E m \in 1..Len(ws) : EndOf(ws[m], "receiver")
    BY <1>1, <1>2, <2>2, <2>3, Names
  <2>4. CASE ~\E m \in 1..Len(ws) : EndOf(ws[m], "receiver")
    <3>1. Due("receiver")
      BY <2>1, <2>4, Names, ReceiverDue
    <3>2. Due("caller")
      BY <2>1, <2>2, <3>1, NotOpening DEF RecordInv, Agree
    <3> QED BY <1>1, <3>2, Names
  <2> QED BY <2>3, <2>4
<1>8. Ends'
  <2>1. SUFFICES ASSUME Plain', "caller" \in settling'
                 PROVE  /\ \A h \in Callbacks : at'["caller"][h] # "receiver"
                        /\ at'["caller"]["end"] # "record" \/ isalreadyendedcall'["caller"]
                           => Due("caller")'
                        /\ \/ at'["caller"]["end"] \notin {"record", "receiver"}
                           \/ isalreadyendedcall'["caller"]
                           => Due("receiver")'
                        /\ at'["caller"]["end"] = "none" => screen'["caller"] # "open"
    BY DEF Ends
  <2>2. Plain /\ ~Opening /\ "caller" \in settling
    BY <2>1
  <2>3. \A h \in Callbacks : at'["caller"][h] = "none"
    BY <1>3, <2>2, NotOpening, Names
  <2>4. at'["caller"]["end"] = at["caller"]["end"]
    BY <1>3, Names
  <2> QED BY <1>1, <2>2, <2>3, <2>4, Names DEF RecordInv, Ends
<1>9. Screens'
  BY DEF RecordInv, Screens
<1> QED BY <1>5, <1>6, <1>7, <1>8, <1>9 DEF RecordInv

\* The order of what the caller's handlers wait for is kept.
LEMMA BeforeKept ==
    ASSUME QueueInv, NEW g \in Handlers, NEW k, NEW ws, NEW s,
           Handles("caller", g, k, ws, s), NEW h, Before(h),
           k = 1 => ~Awaited(Head(queue["caller"]), h)
                    /\ ~Awaited(Head(queue["caller"]), "end")
    PROVE  Before(h)'
<1>1. PICK i, j \in 1..Len(queue["caller"]) :
         i < j /\ Awaited(queue["caller"][i], h) /\ Awaited(queue["caller"][j], "end")
  BY DEF Before
<1>2. /\ k \in {0, 1} /\ (k = 1 => Head(queue["caller"]) = queue["caller"][1])
      /\ Len(queue["caller"]) \in Nat
  BY Names, HandlesQueue
<1>3. \A n \in 1..Len(queue["caller"]) :
         \/ k = 1 /\ n = 1
         \/ /\ n - k \in 1..Len(queue'["caller"])
            /\ queue'["caller"][n - k] = queue["caller"][n]
  BY Names, HandlesItems
<1>4. ~(k = 1 /\ i = 1) /\ ~(k = 1 /\ j = 1)
  BY <1>1, <1>2
<1>5. /\ i - k \in 1..Len(queue'["caller"]) /\ queue'["caller"][i - k] = queue["caller"][i]
      /\ j - k \in 1..Len(queue'["caller"]) /\ queue'["caller"][j - k] = queue["caller"][j]
      /\ i - k < j - k
  <2>1. /\ i - k \in 1..Len(queue'["caller"])
        /\ queue'["caller"][i - k] = queue["caller"][i]
    BY <1>3, <1>4
  <2>2. /\ j - k \in 1..Len(queue'["caller"])
        /\ queue'["caller"][j - k] = queue["caller"][j]
    BY <1>3, <1>4
  <2>3. i - k < j - k
    BY <1>1, <1>2
  <2> QED BY <2>1, <2>2, <2>3
<1>6. \E a, b \in 1..Len(queue'["caller"]) :
         a < b /\ Awaited(queue'["caller"][a], h) /\ Awaited(queue'["caller"][b], "end")
  BY <1>1, <1>5
<1> QED BY <1>6 DEF Before, Awaited

\* The caller's client goes on: the receiver's is not touched.
LEMMA CallerAlone ==
    ASSUME QueueInv, NEW g \in Handlers, NEW k, NEW ws, NEW s,
           Handles("caller", g, k, ws, s)
    PROVE  /\ at'["caller"][g] = s
           /\ \A h \in Handlers : h # g => at'["caller"][h] = at["caller"][h]
           /\ \A h \in Handlers : at'["receiver"][h] = at["receiver"][h]
           /\ Recording' <=> Recording
<1>1. /\ at'["caller"][g] = s
      /\ \A h \in Handlers : h # g => at'["caller"][h] = at["caller"][h]
      /\ \A h \in Handlers : at'["receiver"][h] = at["receiver"][h]
  BY Names DEF Handles
<1>2. queue'["receiver"] = queue["receiver"]
  BY Names, HandlesItems
<1> QED BY <1>1, <1>2, Names DEF Recording

\* A handler that is not a callback's opens no record.
LEMMA OpensNothing ==
    ASSUME QueueInv, NEW g \in Handlers, NEW k, NEW ws, NEW s,
           Handles("caller", g, k, ws, s),
           g \notin Callbacks \/ (s = at["caller"][g] /\ \A m \in 1..Len(ws) : ~ws[m].ack)
    PROVE  Opening' => Opening
<1>1. SUFFICES ASSUME NEW h \in Callbacks, Idle("caller", h) PROVE Idle("caller", h)'
  BY DEF Opening, Callbacks
<1>2. CASE h # g
  BY <1>1, <1>2, Names, HandlesAwaits
<1>3. CASE h = g
  <2>1. s = at["caller"][g] /\ \A m \in 1..Len(ws) : ~Awaited(ws[m], g)
    BY <1>3 DEF Awaited
  <2>2. Awaits("caller", g)' => Awaits("caller", g)
    BY <2>1, Names, HandlesAwaits
  <2> QED BY <1>1, <1>3, <2>1, <2>2, CallerAlone DEF Idle
<1> QED BY <1>2, <1>3

\* onJoinChannelSuccess and onUserJoined of the caller.
LEMMA OpenStep ==
    ASSUME QueueInv, RecordInv, NEW g \in Callbacks, NEW ws,
           Handles("caller", g, 0, ws, "receiver"),
           Plain' => settling = {} /\ ~Recording,
           settling' = settling, killed' = killed, screen' = screen
    PROVE  RecordInv'
<1>1. /\ at'["caller"][g] = "receiver"
      /\ \A h \in Handlers : at'["receiver"][h] = at["receiver"][h]
      /\ Recording' <=> Recording
  BY Names, CallerAlone
<1>2. Crossing'
  BY <1>1 DEF Crossing
<1>3. ReceiverRecords'
  <2>1. SUFFICES ASSUME Plain' PROVE at'["receiver"]["offline"] # "receiver"
                                     /\ at'["receiver"]["end"] # "receiver"
    BY DEF ReceiverRecords
  <2>2. at["receiver"]["offline"] = "none"
    BY <2>1 DEF Recording
  <2>3. at["receiver"]["end"] = "none"
    BY <2>1, Names DEF QueueInv, HandlersOK, StageOK
  <2> QED BY <1>1, <2>2, <2>3, Names
<1>4. Agree'
  BY <1>1 DEF Agree
<1>5. Ends'
  BY DEF Ends
<1>6. Screens'
  BY DEF Screens, RecordInv
<1> QED BY <1>2, <1>3, <1>4, <1>5, <1>6 DEF RecordInv

\* The second write of a callback of the caller, which is not the last word.
LEMMA OpenedStep ==
    ASSUME QueueInv, RecordInv, NEW g \in Callbacks, NEW ws,
           Handles("caller", g, 1, ws, "none"), Awaited(Head(queue["caller"]), g),
           at["caller"][g] = "receiver", Len(ws) = 1, RawOf(ws[1], "receiver"),
           UNCHANGED <<settling, killed, late, screen, isalreadyendedcall>>
    PROVE  RecordInv'
<1>1. /\ at'["caller"][g] = "none"
      /\ \A h \in Handlers : h # g => at'["caller"][h] = at["caller"][h]
      /\ \A h \in Handlers : at'["receiver"][h] = at["receiver"][h]
      /\ Recording' <=> Recording
  BY Names, CallerAlone
<1>2. Opening /\ (Plain' <=> Plain)
  BY DEF Opening, Idle, Callbacks, Plain
<1>3. Plain => ~Recording /\ "receiver" \notin settling
  BY <1>2 DEF RecordInv, Crossing
<1>4. Crossing'
  BY <1>1, <1>2, <1>3 DEF Crossing
<1>5. ReceiverRecords'
  <2>1. SUFFICES ASSUME Plain PROVE at'["receiver"]["offline"] # "receiver"
                                    /\ at'["receiver"]["end"] # "receiver"
    BY <1>2 DEF ReceiverRecords
  <2>2. at["receiver"]["offline"] = "none"
    BY <1>3, <2>1 DEF Recording
  <2>3. at["receiver"]["end"] = "none"
    BY <1>3, <2>1, Names DEF QueueInv, HandlersOK, StageOK
  <2> QED BY <1>1, <2>2, <2>3, Names
<1>6. Agree'
  <2>1. ~Due("receiver")'
    BY Names, CallerDue
  <2> QED BY <2>1 DEF Agree
<1>7. Ends'
  <2>1. SUFFICES ASSUME Plain, "caller" \in settling
                 PROVE  /\ \A h \in Callbacks : at'["caller"][h] = "receiver" => Before(h)'
                        /\ at'["caller"]["end"] = "record"
                        /\ ~isalreadyendedcall'["caller"]
    BY <1>2 DEF Ends
  <2>2. at["caller"]["end"] = "record" /\ ~isalreadyendedcall["caller"]
    BY <2>1 DEF RecordInv, Ends
  <2>3. ASSUME NEW h \in Callbacks, at'["caller"][h] = "receiver" PROVE Before(h)'
    <3>1. h # g /\ at["caller"][h] = "receiver"
      BY <1>1, <2>3, Names
    <3>2. Before(h)
      BY <2>1, <3>1 DEF RecordInv, Ends
    <3>3. ~Awaited(Head(queue["caller"]), h) /\ ~Awaited(Head(queue["caller"]), "end")
      BY <3>1, Names DEF Awaited
    <3> QED BY <3>2, <3>3, Names, BeforeKept
  <2>4. at'["caller"]["end"] = "record"
    BY <1>1, <2>2, Names
  <2> QED BY <2>2, <2>3, <2>4
<1>8. Screens'
  BY DEF Screens, RecordInv
<1> QED BY <1>4, <1>5, <1>6, <1>7, <1>8 DEF RecordInv

\* Any other step of the caller's client, for what it does not record itself.
LEMMA CallerStep ==
    ASSUME QueueInv, RecordInv, NEW g \in Handlers, NEW k, NEW ws, NEW s,
           Handles("caller", g, k, ws, s), Plain' => Plain,
           \A h \in Callbacks : at'["caller"][h] = at["caller"][h],
           Opening' => Opening,
           "receiver" \in settling' <=> "receiver" \in settling,
           settling \subseteq settling',
           \A z \in Users : \A m \in 1..Len(ws) : ~RawOf(ws[m], z),
           /\ Plain /\ "caller" \notin settling'
           /\ \A h \in Callbacks : at["caller"][h] = "none"
           /\ \E m \in 1..Len(ws) : EndOf(ws[m], "receiver")
           => Due("caller")',
           Ends', Screens'
    PROVE  RecordInv'
<1>1. /\ \A h \in Handlers : at'["receiver"][h] = at["receiver"][h]
      /\ Recording' <=> Recording
  BY CallerAlone
<1>2. \A z \in Users : Due(z) => Due(z)'
  BY CallerDue
<1>3. Crossing'
  BY <1>1 DEF RecordInv, Crossing
<1>4. ReceiverRecords'
  BY <1>1, <1>2, Names DEF RecordInv, ReceiverRecords
<1>5. Agree'
  <2>1. SUFFICES ASSUME Plain', "caller" \notin settling',
                        \A h \in Callbacks : at'["caller"][h] = "none",
                        Due("receiver")'
                 PROVE  Due("caller")'
    BY DEF Agree
  <2>2. /\ Plain /\ "caller" \notin settling
        /\ \A h \in Callbacks : at["caller"][h] = "none"
    BY <2>1
  <2>3. CASE \E m \in 1..Len(ws) : EndOf(ws[m], "receiver")
    BY <2>1, <2>2, <2>3
  <2>4. CASE ~\E m \in 1..Len(ws) : EndOf(ws[m], "receiver")
    <3>1. Due("receiver")
      BY <2>1, <2>4, Names, CallerDue
    <3>2. Due("caller")
      BY <2>2, <3>1 DEF RecordInv, Agree
    <3> QED BY <1>2, <3>2, Names
  <2> QED BY <2>3, <2>4
<1> QED BY <1>3, <1>4, <1>5 DEF RecordInv

\* A handler issues one write, or none.
LEMMA IssueOne ==
    ASSUME QueueInv, NEW x \in Users, NEW g \in Handlers, NEW s \in Stages,
           NEW w \in Writes, w.by = g, Issue(x, <<w>>), Goto(x, g, s), ~Awaits(x, g),
           UNCHANGED hist
    PROVE  Handles(x, g, 0, <<w>>, s)
<1> DEFINE ws == <<w>>
<1>1. /\ ws \in Seq(Writes) /\ \A m \in 1..Len(ws) : m = 1 /\ ws[m] = w
      /\ Issue(x, ws)
  BY OneWrite
<1> HIDE DEF ws
<1>2. Handles(x, g, 0, ws, s)
  BY <1>1, IssueHandles
<1> QED BY <1>2 DEF ws

\* A handler that is told of its write issues one more.
LEMMA ResumeOne ==
    ASSUME QueueInv, NEW x \in Users, NEW g \in Handlers, NEW s \in Stages, NEW t,
           NEW w \in Writes, w.by = g, Resume(x, g, t, <<w>>), Goto(x, g, s),
           UNCHANGED hist
    PROVE  Handles(x, g, 1, <<w>>, s)
<1> DEFINE ws == <<w>>
<1>1. /\ ws \in Seq(Writes) /\ \A m \in 1..Len(ws) : m = 1 /\ ws[m] = w
      /\ Resume(x, g, t, ws)
  BY OneWrite
<1> HIDE DEF ws
<1>2. Handles(x, g, 1, ws, s)
  BY <1>1, ResumeHandles
<1> QED BY <1>2 DEF ws

\* A handler that is told of its write issues none.
LEMMA ResumeNone ==
    ASSUME QueueInv, NEW x \in Users, NEW g \in Handlers, NEW s \in Stages, NEW t,
           Resume(x, g, t, <<>>), Goto(x, g, s), UNCHANGED hist
    PROVE  Handles(x, g, 1, <<>>, s)
BY NoWrite, ResumeHandles

\* The stage s is one of those that handler g of client x has in its code.
Next1(x, g, s) ==
    /\ g \in Callbacks \cup {"offline"} => s \in {"none", "receiver"}
    /\ g \in {"end", "reject"} /\ s # "none" => x \in settling'
    /\ x = "receiver" => g \notin Callbacks
    /\ x = "caller" => s # "signal" /\ g # "reject"

\* The rest of what Regular asks for, of any step.
Steady(x, g) ==
    /\ killed' = killed /\ settling \subseteq settling'
    /\ screen'["caller"] = "open" /\ channel'["caller"] = "out" =>
          /\ screen["caller"] = "open" /\ channel["caller"] = "out"
          /\ ~(x = "caller" /\ g = "join")

\* A handler that issues one write, which it awaits, keeps the invariant.
LEMMA RegularOne ==
    ASSUME QueueInv, NEW x \in Users, NEW g \in Handlers, NEW k \in {0, 1}, NEW s,
           NEW w \in Writes, w.by = g, w.ack, Handles(x, g, k, <<w>>, s),
           Next1(x, g, s), s # "signal", Steady(x, g),
           Entry(x, w, at', killed', settling'),
           x = "caller" /\ g \in Callbacks => s = "receiver" \/ k = 1,
           x = "caller" /\ g = "offline" /\ s = "receiver" => EndOf(w, "caller"),
           TypeOK'
    PROVE  QueueInv'
<1> DEFINE ws == <<w>>
<1>1. /\ 1 \in 1..Len(ws) /\ ws[1] = w /\ \A m \in 1..Len(ws) : m = 1 /\ ws[m] = w
      /\ Handles(x, g, k, ws, s)
  BY OneWrite
<1> HIDE DEF ws
<1>2. Awaited(ws[1], g)
  BY <1>1 DEF Awaited
<1>3. Legal(x, g, k, ws, s)
  BY <1>1, <1>2 DEF Legal, Next1
<1>4. \A m \in 1..Len(ws) : Entry(x, ws[m], at', killed', settling')
  BY <1>1
<1>5. x = "caller" /\ g = "offline" /\ s = "receiver" =>
         \E m \in 1..Len(ws) : Awaited(ws[m], "offline") /\ EndOf(ws[m], "caller")
  BY <1>1, <1>2
<1>6. Regular(x, g, k, ws, s)
  BY <1>1, <1>3, <1>4, <1>5 DEF Regular, Steady
<1> QED BY <1>6, RegularQueue

\* So does one that issues none.
LEMMA RegularNone ==
    ASSUME QueueInv, NEW x \in Users, NEW g \in Handlers, NEW s,
           Handles(x, g, 1, <<>>, s), Next1(x, g, s), Steady(x, g),
           g \in {"end", "reject"}, TypeOK'
    PROVE  QueueInv'
<1>1. Legal(x, g, 1, <<>>, s)
  BY NoWrite, Names DEF Legal, Next1
<1>2. \A m \in 1..Len(<<>>) : Entry(x, <<>>[m], at', killed', settling')
  BY NoWrite
<1>3. g \notin Callbacks /\ g # "offline"
  BY Names
<1>4. Regular(x, g, 1, <<>>, s)
  BY <1>1, <1>2, <1>3 DEF Regular, Steady
<1> QED BY <1>4, RegularQueue

\* What _onCallEnd of the caller has recorded stays so when others go on.
LEMMA EndsKept ==
    ASSUME QueueInv, RecordInv, NEW g \in Handlers, NEW k, NEW ws, NEW s,
           Handles("caller", g, k, ws, s), Plain' => Plain,
           at'["caller"]["end"] = at["caller"]["end"],
           \A h \in Callbacks : at'["caller"][h] = at["caller"][h],
           \A z \in Users : \A m \in 1..Len(ws) : ~RawOf(ws[m], z),
           UNCHANGED <<settling, screen, isalreadyendedcall>>,
           k = 1 => \A h \in Callbacks \cup {"end"} :
                       at["caller"][h] # "none" => ~Awaited(Head(queue["caller"]), h)
    PROVE  Ends'
<1>1. SUFFICES ASSUME Plain, "caller" \in settling,
                      NEW h \in Callbacks, at["caller"][h] = "receiver"
               PROVE  Before(h)'
  <2>1. \A z \in Users : Due(z) => Due(z)'
    BY CallerDue
  <2> QED BY <2>1, Names DEF RecordInv, Ends
<1>2. Before(h) /\ at["caller"]["end"] = "record"
  BY <1>1 DEF RecordInv, Ends
<1>3. k = 1 => ~Awaited(Head(queue["caller"]), h) /\ ~Awaited(Head(queue["caller"]), "end")
  BY <1>1, <1>2
<1> QED BY <1>2, <1>3, BeforeKept

-----------------------------------------------------------------------------
(***************************************************************************)
(* Agora's callbacks.                                                      *)
(***************************************************************************)

Inv == QueueInv /\ RecordInv

\* Steps that touch neither histories nor handlers.
LEMMA Frame ==
    ASSUME Inv, TypeOK',
           UNCHANGED <<hist, queue, applied, at, seen, isalreadyendedcall, settling,
                       late, killed>>,
           screen'["caller"] = screen["caller"],
           channel'["caller"] = "out" => channel["caller"] = "out"
    PROVE  Inv'
<1>1. Entries'
  BY DEF Inv, QueueInv, Entries, Entry, RawOf
<1>2. /\ \A x, h : Awaits(x, h)' <=> Awaits(x, h)
      /\ \A x, h : Idle(x, h)' <=> Idle(x, h)
      /\ \A x, h : Alone(x, h)' <=> Alone(x, h)
      /\ \A x : Pending(x)' = Pending(x)
      /\ \A h : Before(h)' <=> Before(h)
  BY DEF Awaits, Idle, Alone, Pending, Before
<1>3. /\ \A z : Due(z)' <=> Due(z)
      /\ Opening' <=> Opening
      /\ Recording' <=> Recording
      /\ Plain' <=> Plain
  BY <1>2 DEF Due, DueIn, EndOf, RawOf, Opening, Recording, Plain
<1>4. HandlersOK'
  BY <1>2 DEF Inv, QueueInv, HandlersOK, StageOK
<1>5. OfflineOK' /\ HeadOK'
  BY DEF Inv, QueueInv, OfflineOK, HeadOK, EndOf, Awaited
<1>6. JoinsOnce'
  BY <1>2 DEF Inv, QueueInv, JoinsOnce
<1>7. SeenOK'
  BY <1>3 DEF Inv, QueueInv, SeenOK
<1>8. QueueInv'
  BY <1>1, <1>4, <1>5, <1>6, <1>7 DEF QueueInv
<1>9. Crossing' /\ ReceiverRecords' /\ Agree' /\ Screens'
  BY <1>3 DEF Inv, RecordInv, Crossing, ReceiverRecords, Agree, Screens
<1>10. Ends'
  BY <1>2, <1>3 DEF Inv, RecordInv, Ends
<1> QED BY <1>8, <1>9, <1>10 DEF Inv, RecordInv

\* Statuses and stages.
LEMMA StatusNames ==
    /\ "calling" \in Statuses \ Terminal /\ "missedcall" \in Statuses \ Terminal
    /\ "pickedup" \in Statuses \ Terminal /\ "none" \in Statuses
    /\ "ended" \in Terminal /\ "rejected" \in Terminal
    /\ "ended" \in Statuses /\ "rejected" \in Statuses
    /\ "none" \in Stages /\ "record" \in Stages /\ "receiver" \in Stages
    /\ "unsignal" \in Stages /\ "tell" \in Stages /\ "pop" \in Stages
    /\ "delay" \in Stages /\ "signal" \in Stages
BY DEF Statuses, Terminal, Stages

\* The first write of a callback that opens a record.
LEMMA CallerOpens ==
    ASSUME Inv, NEW g \in Callbacks, NEW t \in Statuses \ Terminal,
           Idle("caller", g), TypeOK',
           Issue("caller", <<Status(g, "caller", t)>>), Goto("caller", g, "receiver"),
           late' = (late \/ settling # {} \/ Recording),
           UNCHANGED <<hist, settling, killed, screen>>,
           \/ channel'["caller"] = "in"
           \/ channel'["caller"] = channel["caller"] /\ g # "join"
    PROVE  Inv'
<1> DEFINE w == Status(g, "caller", t)
<1>1. g \in Handlers /\ "caller" \in Users
  BY Names
<1>2. /\ w \in Writes /\ w.by = g /\ w.ack /\ w.do = "status" /\ w.of = "caller"
      /\ w.as = t
  BY <1>1, WriteFacts
<1>3. Issue("caller", <<w>>)
  OBVIOUS
<1> HIDE DEF w
<1>4. ~Awaits("caller", g) /\ "receiver" \in Stages
  BY StatusNames DEF Idle
<1>5. Handles("caller", g, 0, <<w>>, "receiver")
  BY <1>1, <1>2, <1>4, <1>3, IssueOne DEF Inv
<1>6. at'["caller"][g] = "receiver"
  BY <1>5 DEF Handles
<1>7. Entry("caller", w, at', killed', settling')
  BY <1>2, <1>6 DEF Entry
<1>8. Next1("caller", g, "receiver") /\ g # "offline"
  BY Names DEF Next1
<1>9. Steady("caller", g)
  BY DEF Steady
<1>10. QueueInv'
  BY <1>1, <1>2, <1>5, <1>7, <1>8, <1>9, RegularOne DEF Inv
<1>11. Plain' => settling = {} /\ ~Recording
  BY DEF Plain
<1>12. RecordInv'
  BY <1>5, <1>11, OpenStep DEF Inv
<1> QED BY <1>10, <1>12 DEF Inv

\* onJoinChannelSuccess.
LEMMA StepJoin ==
    ASSUME Inv, NEW x \in Users, OnJoinChannelSuccess(x)
    PROVE  Inv'
<1>1. CASE x = "caller"
  <2>1. /\ Issue("caller", <<Status("join", "caller", "calling")>>)
        /\ Goto("caller", "join", "receiver")
        /\ late' = (late \/ settling # {} \/ Recording)
        /\ UNCHANGED <<hist, settling, killed, screen>>
        /\ channel' = [channel EXCEPT !["caller"] = "in"]
        /\ screen["caller"] = "open" /\ channel["caller"] = "out"
        /\ UNCHANGED <<video, recent, pushed, flags, remote, pickup, events>>
    BY <1>1 DEF OnJoinChannelSuccess, server
  <2>2. Idle("caller", "join") /\ channel \in [Users -> {"out", "in", "dropped"}]
    BY <2>1 DEF Inv, QueueInv, JoinsOnce, TypeOK
  <2>3. Handles("caller", "join", 0, <<Status("join", "caller", "calling")>>, "receiver")
    <3>1. /\ Status("join", "caller", "calling") \in Writes
          /\ Status("join", "caller", "calling").by = "join"
      BY Names, StatusNames, WriteFacts
    <3>2. ~Awaits("caller", "join")
      BY <2>2 DEF Idle
    <3> QED BY <2>1, <3>1, <3>2, Names, StatusNames, IssueOne DEF Inv
  <2>4. TypeOK'
    <3>1. /\ queue' \in [Users -> Seq(Writes)] /\ applied' \in [Users -> BOOLEAN]
          /\ at' \in [Users -> [Handlers -> Stages]] /\ seen' \in [Users -> BOOLEAN]
          /\ hist' \in [Users -> Statuses]
      BY <2>3, Names, HandlesTypes DEF Inv
    <3>2. late' \in BOOLEAN /\ channel' \in [Users -> {"out", "in", "dropped"}]
      BY <2>1, <2>2
    <3> QED BY <2>1, <3>1, <3>2 DEF Inv, QueueInv, TypeOK, flags, pickup
  <2>5. "join" \in Callbacks /\ channel'["caller"] = "in"
    BY <2>1, <2>2, Names DEF Callbacks
  <2>6. \/ channel'["caller"] = "in"
        \/ channel'["caller"] = channel["caller"] /\ "join" # "join"
    BY <2>5
  <2> QED BY <2>1, <2>2, <2>4, <2>5, <2>6, StatusNames, CallerOpens
<1>2. CASE x = "receiver"
  <2>1. TypeOK'
    BY <1>2 DEF OnJoinChannelSuccess, Inv, QueueInv, TypeOK, server, flags, pickup, writes
  <2>2. /\ UNCHANGED <<hist, queue, applied, at, seen, isalreadyendedcall, settling,
                       late, killed, screen>>
        /\ channel'["caller"] = channel["caller"]
    BY <1>2, Names DEF OnJoinChannelSuccess, server, flags, pickup, writes, Inv, QueueInv,
                       TypeOK
  <2> QED BY <2>1, <2>2, Frame
<1> QED BY <1>1, <1>2 DEF Users

\* onUserJoined.
LEMMA StepUserJoined ==
    ASSUME Inv, NEW x \in Users, OnUserJoined(x)
    PROVE  Inv'
<1>1. CASE x = "caller"
  <2>1. /\ Issue("caller", <<Status("pick", "caller", "pickedup")>>)
        /\ Goto("caller", "pick", "receiver")
        /\ late' = (late \/ settling # {} \/ Recording)
        /\ UNCHANGED <<hist, settling, killed, screen>>
        /\ Idle("caller", "pick") /\ UNCHANGED channel
        /\ remote' = [remote EXCEPT !["caller"] = TRUE]
        /\ isPickedup' = [isPickedup EXCEPT !["caller"] = TRUE]
        /\ UNCHANGED <<video, recent, pushed, isalreadyendedcall, pickup, events>>
    BY <1>1 DEF OnUserJoined, server
  <2>2. Handles("caller", "pick", 0, <<Status("pick", "caller", "pickedup")>>, "receiver")
    <3>1. /\ Status("pick", "caller", "pickedup") \in Writes
          /\ Status("pick", "caller", "pickedup").by = "pick"
      BY Names, StatusNames, WriteFacts
    <3>2. ~Awaits("caller", "pick")
      BY <2>1 DEF Idle
    <3> QED BY <2>1, <3>1, <3>2, Names, StatusNames, IssueOne DEF Inv
  <2>3. TypeOK'
    <3>1. /\ queue' \in [Users -> Seq(Writes)] /\ applied' \in [Users -> BOOLEAN]
          /\ at' \in [Users -> [Handlers -> Stages]] /\ seen' \in [Users -> BOOLEAN]
          /\ hist' \in [Users -> Statuses]
      BY <2>2, Names, HandlesTypes DEF Inv
    <3>2. /\ late' \in BOOLEAN /\ remote' \in [Users -> BOOLEAN]
          /\ isPickedup' \in [Users -> BOOLEAN]
      BY <2>1 DEF Inv, QueueInv, TypeOK
    <3> QED BY <2>1, <3>1, <3>2 DEF Inv, QueueInv, TypeOK, pickup
  <2>4. "pick" \in Callbacks
    BY DEF Callbacks
  <2> QED BY <2>1, <2>3, <2>4, StatusNames, CallerOpens
<1>2. CASE x = "receiver"
  <2>1. TypeOK'
    BY <1>2 DEF OnUserJoined, Inv, QueueInv, TypeOK, server, pickup, writes
  <2>2. UNCHANGED <<hist, queue, applied, at, seen, isalreadyendedcall, settling,
                    late, killed, screen, channel>>
    BY <1>2 DEF OnUserJoined, server, pickup, writes
  <2> QED BY <2>1, <2>2, Frame
<1> QED BY <1>1, <1>2 DEF Users

\* Two writes.
LEMMA TwoWrites ==
    ASSUME NEW v \in Writes, NEW w \in Writes
    PROVE  /\ <<v, w>> \in Seq(Writes) /\ Len(<<v, w>>) = 2
           /\ 1 \in 1..Len(<<v, w>>) /\ <<v, w>>[1] = v
           /\ \A m \in 1..Len(<<v, w>>) :
                 (m = 1 /\ <<v, w>>[m] = v) \/ (m = 2 /\ <<v, w>>[m] = w)
OBVIOUS

\* A status write says that the call is over, or that it is not.
LEMMA EndNotRaw ==
    ASSUME NEW w, NEW z, NEW y, EndOf(w, y)
    PROVE  ~RawOf(w, z)
BY DEF EndOf, RawOf

\* onUserOffline records the end in the caller's history at least.
LEMMA OfflineRecords ==
    ASSUME Inv, NEW x \in Users, NEW ws, NEW s, Handles(x, "offline", 0, ws, s),
           \A m \in 1..Len(ws) : EndOf(ws[m], "caller") \/ EndOf(ws[m], "receiver"),
           \E m \in 1..Len(ws) : EndOf(ws[m], "caller"),
           late' = (late \/ (x = "receiver" /\ Opening)),
           UNCHANGED <<settling, killed, screen, isalreadyendedcall>>
    PROVE  RecordInv'
<1>1. \A z \in Users : \A m \in 1..Len(ws) : ~RawOf(ws[m], z)
  BY EndNotRaw
<1>2. Plain' => Plain /\ (x = "receiver" => ~Opening)
  BY DEF Plain
<1>3. CASE x = "caller"
  <2>1. \A h \in Handlers : h # "offline" => at'["caller"][h] = at["caller"][h]
    BY <1>3, Names, CallerAlone DEF Inv
  <2>2. /\ at'["caller"]["end"] = at["caller"]["end"]
        /\ \A h \in Callbacks : at'["caller"][h] = at["caller"][h]
    BY <2>1, Names
  <2>3. Opening' => Opening
    BY <1>3, Names, OpensNothing DEF Inv
  <2>4. Due("caller")'
    BY <1>1, <1>3, Names, CallerDue DEF Inv
  <2>5. Ends'
    BY <1>1, <1>2, <1>3, <2>2, Names, EndsKept DEF Inv
  <2>6. Screens'
    BY DEF Inv, RecordInv, Screens
  <2> QED BY <1>1, <1>2, <1>3, <2>2, <2>3, <2>4, <2>5, <2>6, Names, CallerStep DEF Inv
<1>4. CASE x = "receiver"
  BY <1>2, <1>4, Names, ReceiverStep DEF Inv
<1> QED BY <1>3, <1>4 DEF Users

\* onUserOffline.
LEMMA StepOffline ==
    ASSUME Inv, NEW x \in Users, OnUserOffline(x)
    PROVE  Inv'
<1> DEFINE first  == Status("offline", "caller", "ended")
           second == Status("offline", "receiver", "ended")
           one    == Unawaited(first)
           two    == Unawaited(second)
<1>1. /\ first \in Writes /\ first.by = "offline" /\ first.ack
      /\ EndOf(first, "caller")
      /\ one \in Writes /\ one.by = "offline" /\ ~one.ack /\ EndOf(one, "caller")
      /\ two \in Writes /\ two.by = "offline" /\ ~two.ack /\ EndOf(two, "receiver")
  <2>1. /\ first \in Writes /\ first.by = "offline" /\ first.ack
        /\ first.do = "status" /\ first.of = "caller" /\ first.as = "ended"
        /\ one \in Writes /\ one.by = "offline" /\ ~one.ack
        /\ one.do = "status" /\ one.of = "caller" /\ one.as = "ended"
    BY Names, StatusNames, WriteFacts
  <2>2. /\ two \in Writes /\ two.by = "offline" /\ ~two.ack
        /\ two.do = "status" /\ two.of = "receiver" /\ two.as = "ended"
    BY Names, StatusNames, WriteFacts
  <2> HIDE DEF first, second, one, two
  <2> QED BY <2>1, <2>2, StatusNames DEF EndOf
<1>2. /\ remote' = [remote EXCEPT ![x] = FALSE]
      /\ UNCHANGED <<video, hist, recent, pushed, isalreadyendedcall, isPickedup, screen,
                     channel, rings, announced, settling, killed, events>>
      /\ \/ UNCHANGED <<queue, applied, seen, at, late>>
         \/ Issue(x, <<one, two>>) /\ UNCHANGED at
            /\ late' = (late \/ (x = "receiver" /\ Opening))
         \/ Idle(x, "offline") /\ Issue(x, <<first>>) /\ Goto(x, "offline", "receiver")
            /\ late' = (late \/ (x = "receiver" /\ Opening))
  BY DEF OnUserOffline, server, flags, pickup, writes
<1> HIDE DEF first, second, one, two
<1>3. remote' \in [Users -> BOOLEAN]
  BY <1>2 DEF Inv, QueueInv, TypeOK
<1>4. CASE UNCHANGED <<queue, applied, seen, at, late>>
  <2>1. TypeOK'
    BY <1>2, <1>3, <1>4 DEF Inv, QueueInv, TypeOK
  <2> QED BY <1>2, <1>4, <2>1, Frame
<1>5. ASSUME NEW ws, NEW s, Handles(x, "offline", 0, ws, s), late' \in BOOLEAN
      PROVE  TypeOK'
  <2>1. /\ queue' \in [Users -> Seq(Writes)] /\ applied' \in [Users -> BOOLEAN]
        /\ at' \in [Users -> [Handlers -> Stages]] /\ seen' \in [Users -> BOOLEAN]
        /\ hist' \in [Users -> Statuses]
    BY <1>5, Names, HandlesTypes DEF Inv
  <2> QED BY <1>2, <1>3, <1>5, <2>1 DEF Inv, QueueInv, TypeOK
<1>6. ASSUME NEW w, EndOf(w, "caller") \/ EndOf(w, "receiver"), w.by = "offline"
      PROVE  Entry(x, w, at', killed', settling')
  BY <1>6 DEF Entry, EndOf, RawOf
<1>7. CASE /\ Issue(x, <<one, two>>) /\ UNCHANGED at
           /\ late' = (late \/ (x = "receiver" /\ Opening))
  <2> DEFINE ws == <<one, two>>
             s == at[x]["offline"]
  <2>1. /\ ws \in Seq(Writes) /\ Len(ws) = 2 /\ 1 \in 1..Len(ws) /\ ws[1] = one
        /\ \A m \in 1..Len(ws) : ws[m] = one \/ ws[m] = two
        /\ Issue(x, ws)
    BY <1>1, <1>7, TwoWrites
  <2> HIDE DEF ws
  <2>2. /\ \A m \in 1..Len(ws) : ws[m].by = "offline" /\ ~ws[m].ack
        /\ \A m \in 1..Len(ws) : EndOf(ws[m], "caller") \/ EndOf(ws[m], "receiver")
        /\ \E m \in 1..Len(ws) : EndOf(ws[m], "caller")
    BY <1>1, <2>1
  <2>3. Unheard(x, "offline", 0, ws, s)
    BY <2>2 DEF Unheard
  <2>4. Moves(x, 0, ws)
    BY <2>1 DEF Issue, Moves, Rest
  <2>5. at' \in [Users -> [Handlers -> Stages]] /\ at' = at
    BY <1>7 DEF Inv, QueueInv, TypeOK
  <2>6. Handles(x, "offline", 0, ws, s)
    BY <1>2, <2>1, <2>2, <2>3, <2>4, <2>5, Names DEF Handles, Issue
  <2>7. TypeOK'
    BY <1>5, <1>7, <2>6
  <2>8. \A m \in 1..Len(ws) : Entry(x, ws[m], at', killed', settling')
    BY <1>6, <2>2
  <2>9. Regular(x, "offline", 0, ws, s)
    BY <1>2, <2>3, <2>6, <2>8, Names DEF Regular, Legal
  <2>10. QueueInv'
    BY <2>7, <2>9, Names, RegularQueue DEF Inv
  <2>11. RecordInv'
    BY <1>2, <1>7, <2>2, <2>6, OfflineRecords
  <2> QED BY <2>10, <2>11 DEF Inv
<1>8. CASE /\ Idle(x, "offline") /\ Issue(x, <<first>>) /\ Goto(x, "offline", "receiver")
           /\ late' = (late \/ (x = "receiver" /\ Opening))
  <2>1. ~Awaits(x, "offline")
    BY <1>8 DEF Idle
  <2>2. Handles(x, "offline", 0, <<first>>, "receiver")
    BY <1>1, <1>2, <1>8, <2>1, Names, StatusNames, IssueOne DEF Inv
  <2>3. TypeOK'
    BY <1>5, <1>8, <2>2
  <2>4. Next1(x, "offline", "receiver") /\ Steady(x, "offline")
    BY <1>2, Names DEF Next1, Steady
  <2>5. Entry(x, first, at', killed', settling')
    BY <1>1, <1>6
  <2>6. QueueInv'
    BY <1>1, <2>2, <2>3, <2>4, <2>5, Names, RegularOne DEF Inv
  <2>7. /\ \A m \in 1..Len(<<first>>) :
              EndOf(<<first>>[m], "caller") \/ EndOf(<<first>>[m], "receiver")
        /\ \E m \in 1..Len(<<first>>) : EndOf(<<first>>[m], "caller")
    BY <1>1, OneWrite
  <2>8. RecordInv'
    BY <1>2, <1>8, <2>2, <2>7, OfflineRecords
  <2> QED BY <2>6, <2>8 DEF Inv
<1> QED BY <1>2, <1>4, <1>7, <1>8

\* When onUserOffline of the caller is told of its first write, the server
\* has the end of the caller's call.
LEMMA ServerKnows ==
    ASSUME Inv, Plain, at["caller"]["offline"] = "receiver", applied["caller"],
           Awaited(Head(queue["caller"]), "offline"),
           \A h \in Callbacks : at["caller"][h] = "none"
    PROVE  Due("caller")
<1>1. /\ queue["caller"] \in Seq(Writes) /\ queue["caller"] # <<>>
      /\ Alone("caller", "offline")
  BY Names DEF Inv, QueueInv, TypeOK, HeadOK, HandlersOK, StageOK
<1>2. Head(queue["caller"]) = queue["caller"][1] /\ 1 \in 1..Len(queue["caller"])
  BY <1>1, Split
<1>3. PICK i \in 1..Len(queue["caller"]) :
         Awaited(queue["caller"][i], "offline") /\ EndOf(queue["caller"][i], "caller")
  BY DEF Inv, QueueInv, OfflineOK
<1>4. i = 1
  BY <1>1, <1>2, <1>3 DEF Alone
<1>5. hist["caller"] \in Terminal
  BY <1>2, <1>3, <1>4, Names DEF Inv, QueueInv, HeadOK
<1>6. \A j \in 1..Len(Pending("caller")) : ~RawOf(Pending("caller")[j], "caller")
  BY Clear DEF Inv
<1> QED BY <1>5, <1>6 DEF Due, DueIn

\* The second write of a callback.
LEMMA StepCallback ==
    ASSUME Inv, NEW x \in Users, CallbackReceiver(x)
    PROVE  Inv'
<1> DEFINE S(h) == CASE h = "join" -> "missedcall"
                     [] h = "pick" -> "pickedup"
                     [] h = "offline" -> "ended"
<1>1. PICK h \in {"join", "pick", "offline"} :
         Resume(x, h, "receiver", <<Status(h, "receiver", S(h))>>) /\ Goto(x, h, "none")
  BY DEF CallbackReceiver
<1>2. UNCHANGED <<video, hist, recent, pushed, isalreadyendedcall, isPickedup, screen,
                  channel, remote, rings, announced, settling, late, killed, events>>
  BY DEF CallbackReceiver, server, flags, agora, pickup, history
<1>3. /\ h \in Handlers /\ S(h) \in Statuses
      /\ h \in Callbacks => S(h) \notin Terminal
      /\ h = "offline" => S(h) \in Terminal
      /\ h \in Callbacks \/ h = "offline"
  BY StatusNames, Names DEF Callbacks
<1> DEFINE w == Status(h, "receiver", S(h))
<1> HIDE DEF S
<1>4. /\ w \in Writes /\ w.by = h /\ w.ack /\ w.do = "status" /\ w.of = "receiver"
      /\ w.as = S(h)
  BY <1>3, Names, WriteFacts
<1> HIDE DEF w
<1>5. Resume(x, h, "receiver", <<w>>) /\ Goto(x, h, "none") /\ UNCHANGED hist
  BY <1>1, <1>2 DEF w
<1>6. Handles(x, h, 1, <<w>>, "none")
  BY <1>3, <1>4, <1>5, StatusNames, ResumeOne DEF Inv
<1>7. at[x][h] = "receiver" /\ applied[x] /\ Awaited(Head(queue[x]), h)
  BY <1>5 DEF Resume, Awaited
<1>8. h \in Callbacks => x = "caller"
  BY <1>3, <1>7, Names DEF Inv, QueueInv, HandlersOK, StageOK, Users
<1>9. TypeOK'
  <2>1. /\ queue' \in [Users -> Seq(Writes)] /\ applied' \in [Users -> BOOLEAN]
        /\ at' \in [Users -> [Handlers -> Stages]] /\ seen' \in [Users -> BOOLEAN]
        /\ hist' \in [Users -> Statuses]
    BY <1>3, <1>6, HandlesTypes DEF Inv
  <2> QED BY <1>2, <2>1 DEF Inv, QueueInv, TypeOK
<1>10. Entry(x, w, at', killed', settling')
  BY <1>3, <1>4, <1>8, Names DEF Entry, RawOf
<1>11. QueueInv'
  <2>1. Next1(x, h, "none")
    BY <1>3, <1>8, Names DEF Next1
  <2>2. Steady(x, h)
    <3>1. ~(x = "caller" /\ h = "join" /\ screen["caller"] = "open"
            /\ channel["caller"] = "out")
      BY <1>7 DEF Inv, QueueInv, JoinsOnce, Idle
    <3> QED BY <1>2, <3>1 DEF Steady
  <2> QED BY <1>3, <1>4, <1>6, <1>9, <1>10, <2>1, <2>2, RegularOne DEF Inv
<1>12. Plain' <=> Plain
  BY <1>2 DEF Plain
<1>13. /\ Len(<<w>>) = 1 /\ <<w>>[1] = w
       /\ \A m \in 1..Len(<<w>>) : <<w>>[m] = w
  BY <1>4, OneWrite
<1>14. CASE h \in Callbacks
  <2>1. RawOf(w, "receiver")
    BY <1>3, <1>4, <1>14 DEF RawOf
  <2>2. RawOf(<<w>>[1], "receiver")
    BY <1>13, <2>1
  <2>3. RecordInv'
    BY <1>2, <1>6, <1>7, <1>8, <1>13, <1>14, <2>2, OpenedStep DEF Inv
  <2> QED BY <1>11, <2>3 DEF Inv
<1>15. CASE h = "offline" /\ x = "caller"
  <2>1. EndOf(w, "receiver")
    BY <1>3, <1>4, <1>15 DEF EndOf
  <2>2. \A z \in Users : \A m \in 1..Len(<<w>>) : ~RawOf(<<w>>[m], z)
    BY <1>13, <2>1, EndNotRaw
  <2>3. \A g \in Handlers : g # "offline" => at'["caller"][g] = at["caller"][g]
    BY <1>3, <1>6, <1>15, CallerAlone DEF Inv
  <2>4. /\ at'["caller"]["end"] = at["caller"]["end"]
        /\ \A g \in Callbacks : at'["caller"][g] = at["caller"][g]
    BY <2>3, Names
  <2>5. Opening' => Opening
    BY <1>3, <1>6, <1>15, Names, OpensNothing DEF Inv
  <2>6. Plain /\ (\A g \in Callbacks : at["caller"][g] = "none") => Due("caller")'
    <3>1. Plain /\ (\A g \in Callbacks : at["caller"][g] = "none") => Due("caller")
      BY <1>7, <1>15, ServerKnows
    <3> QED BY <1>3, <1>6, <1>15, <2>2, <3>1, Names, CallerDue DEF Inv
  <2>7. \A g \in Callbacks \cup {"end"} : ~Awaited(Head(queue["caller"]), g)
    BY <1>7, <1>15, Names DEF Awaited
  <2>8. Ends'
    BY <1>2, <1>3, <1>6, <1>12, <1>15, <2>2, <2>4, <2>7, EndsKept DEF Inv
  <2>9. Screens'
    BY <1>2 DEF Inv, RecordInv, Screens
  <2>10. RecordInv'
    BY <1>2, <1>3, <1>6, <1>12, <1>15, <2>2, <2>4, <2>5, <2>6, <2>8, <2>9, CallerStep
       DEF Inv
  <2> QED BY <1>11, <2>10 DEF Inv
<1>16. CASE h = "offline" /\ x = "receiver"
  <2>1. Plain => ~Opening /\ Due("caller")
    <3>1. Recording
      BY <1>7, <1>16 DEF Recording
    <3> QED BY <1>7, <1>16, <3>1 DEF Inv, RecordInv, Crossing, ReceiverRecords
  <2>2. RecordInv'
    BY <1>2, <1>3, <1>6, <1>12, <1>16, <2>1, ReceiverStep DEF Inv
  <2> QED BY <1>11, <2>2 DEF Inv
<1> QED BY <1>3, <1>14, <1>15, <1>16 DEF Users

-----------------------------------------------------------------------------
(***************************************************************************)
(* PickupScreen.                                                           *)
(***************************************************************************)

\* Once the receiver has tapped to settle a plain call, no record is open.
LEMMA Tapped ==
    ASSUME Inv, NEW g \in {"end", "reject"}, at["receiver"][g] # "none", Plain
    PROVE  ~Opening
<1>1. "receiver" \in settling
  BY Names DEF Inv, QueueInv, HandlersOK, StageOK
<1> QED BY <1>1 DEF Inv, RecordInv, Crossing

\* Three writes.
LEMMA ThreeWrites ==
    ASSUME NEW u \in Writes, NEW v \in Writes, NEW w \in Writes
    PROVE  /\ <<u, v, w>> \in Seq(Writes) /\ 1 \in 1..Len(<<u, v, w>>)
           /\ <<u, v, w>>[1] = u
           /\ \A m \in 1..Len(<<u, v, w>>) :
                 \/ m = 1 /\ <<u, v, w>>[m] = u
                 \/ m = 2 /\ <<u, v, w>>[m] = v
                 \/ m = 3 /\ <<u, v, w>>[m] = w
OBVIOUS

\* The red button.
LEMMA StepReject ==
    ASSUME Inv, Reject
    PROVE  Inv'
<1> DEFINE w == EndCall("reject", "receiver")
<1>1. /\ Issue("receiver", <<w>>) /\ Goto("receiver", "reject", "record")
      /\ ~Awaits("receiver", "reject")
      /\ settling' = settling \cup {"receiver"} /\ killed' = killed
      /\ late' = (late \/ hist["receiver"] = "none" \/ Opening)
      /\ events' = events + 1
      /\ UNCHANGED <<video, hist, recent, pushed, isalreadyendedcall, isPickedup, screen,
                     channel, remote, rings, announced>>
  BY DEF Reject, Settle, Event, Idle, server, flags, agora, pickup
<1>2. w \in Writes /\ w.by = "reject" /\ w.ack /\ w.do # "status"
  BY Names, StatusNames, WriteFacts
<1> HIDE DEF w
<1>3. Handles("receiver", "reject", 0, <<w>>, "record")
  BY <1>1, <1>2, Names, StatusNames, IssueOne DEF Inv
<1>4. TypeOK'
  <2>1. /\ queue' \in [Users -> Seq(Writes)] /\ applied' \in [Users -> BOOLEAN]
        /\ at' \in [Users -> [Handlers -> Stages]] /\ seen' \in [Users -> BOOLEAN]
        /\ hist' \in [Users -> Statuses]
    BY <1>3, Names, HandlesTypes DEF Inv
  <2>2. late' \in BOOLEAN /\ settling' \in SUBSET Users /\ events' \in Nat
    BY <1>1, Names DEF Inv, QueueInv, TypeOK
  <2> QED BY <1>1, <2>1, <2>2 DEF Inv, QueueInv, TypeOK
<1>5. Next1("receiver", "reject", "record") /\ Steady("receiver", "reject")
  BY <1>1, Names DEF Next1, Steady
<1>6. Entry("receiver", w, at', killed', settling')
  BY <1>1, <1>2 DEF Entry
<1>7. QueueInv'
  BY <1>2, <1>3, <1>4, <1>5, <1>6, Names, RegularOne DEF Inv
<1>8. Plain' => Plain /\ ~Opening
  BY <1>1 DEF Plain
<1>9. \A m \in 1..Len(<<w>>) : ~EndOf(<<w>>[m], "receiver")
  BY <1>2, OneWrite DEF EndOf
<1>10. "caller" \in settling' <=> "caller" \in settling
  BY <1>1
<1>11. RecordInv'
  BY <1>1, <1>3, <1>8, <1>9, <1>10, Names, ReceiverStep DEF Inv
<1> QED BY <1>7, <1>11 DEF Inv

\* The rejection is recorded in both histories.
LEMMA StepRejectRecord ==
    ASSUME Inv, RejectRecord
    PROVE  Inv'
<1> DEFINE u == Unawaited(Status("reject", "caller", "rejected"))
           v == Unawaited(Status("reject", "receiver", "rejected"))
           w == Unsignal("reject", "caller")
           ws == <<u, v, w>>
<1>1. /\ Resume("receiver", "reject", "record", ws)
      /\ Goto("receiver", "reject", "delay")
      /\ UNCHANGED <<video, hist, recent, pushed, isalreadyendedcall, isPickedup, screen,
                     channel, remote, rings, announced, settling, late, killed, events>>
  BY DEF RejectRecord, server, flags, agora, pickup, history
<1>2. /\ u \in Writes /\ u.by = "reject" /\ ~u.ack /\ u.do = "status" /\ u.of = "caller"
      /\ u.as = "rejected"
  BY Names, StatusNames, WriteFacts
<1>3. /\ v \in Writes /\ v.by = "reject" /\ ~v.ack /\ v.do = "status"
      /\ v.as = "rejected"
  BY Names, StatusNames, WriteFacts
<1>4. w \in Writes /\ w.by = "reject" /\ w.ack /\ w.do # "status"
  BY Names, StatusNames, WriteFacts
<1> HIDE DEF u, v, w
<1>5. /\ ws \in Seq(Writes) /\ 1 \in 1..Len(ws) /\ ws[1] = u
      /\ \A m \in 1..Len(ws) :
            \/ m = 1 /\ ws[m] = u
            \/ m = 2 /\ ws[m] = v
            \/ m = 3 /\ ws[m] = w
  BY <1>2, <1>3, <1>4, ThreeWrites
<1> HIDE DEF ws
<1>6. /\ \A m \in 1..Len(ws) : ws[m].by = "reject"
      /\ \A m, l \in 1..Len(ws) : ws[m].ack /\ ws[l].ack => m = l
      /\ \A m \in 1..Len(ws) : ws[m].do = "status" => ws[m].as \in Terminal
      /\ EndOf(ws[1], "caller")
  <2>1. \A m \in 1..Len(ws) : ws[m].by = "reject"
    BY <1>2, <1>3, <1>4, <1>5
  <2>2. \A m \in 1..Len(ws) : ws[m].ack => m = 3
    BY <1>2, <1>3, <1>4, <1>5
  <2>3. \A m \in 1..Len(ws) : ws[m].do = "status" => ws[m].as \in Terminal
    BY <1>2, <1>3, <1>4, <1>5, StatusNames
  <2>4. EndOf(ws[1], "caller")
    BY <1>2, <1>5, StatusNames DEF EndOf
  <2> QED BY <2>1, <2>2, <2>3, <2>4
<1>7. at["receiver"]["reject"] = "record"
  BY <1>1 DEF Resume
<1>8. Handles("receiver", "reject", 1, ws, "delay")
  BY <1>1, <1>5, <1>6, Names, StatusNames, ResumeHandles DEF Inv
<1>9. TypeOK'
  <2>1. /\ queue' \in [Users -> Seq(Writes)] /\ applied' \in [Users -> BOOLEAN]
        /\ at' \in [Users -> [Handlers -> Stages]] /\ seen' \in [Users -> BOOLEAN]
        /\ hist' \in [Users -> Statuses]
    BY <1>8, Names, HandlesTypes DEF Inv
  <2> QED BY <1>1, <2>1 DEF Inv, QueueInv, TypeOK
<1>10. "receiver" \in settling
  BY <1>7, Names DEF Inv, QueueInv, HandlersOK, StageOK
<1>11. \A m \in 1..Len(ws) : Entry("receiver", ws[m], at', killed', settling')
  BY <1>1, <1>6, <1>10 DEF Entry
<1>12. Legal("receiver", "reject", 1, ws, "delay")
  BY <1>1, <1>10, Names DEF Legal
<1>13. Regular("receiver", "reject", 1, ws, "delay")
  BY <1>1, <1>8, <1>11, <1>12, Names DEF Regular
<1>14. QueueInv'
  BY <1>9, <1>13, Names, RegularQueue DEF Inv
<1>15. Plain' => Plain /\ ~Opening
  BY <1>1, <1>7, Tapped DEF Plain
<1>16. RecordInv'
  BY <1>1, <1>5, <1>6, <1>8, <1>15, Names, ReceiverStep DEF Inv
<1> QED BY <1>14, <1>16 DEF Inv

\* The document recent/callended of the caller is gone.
LEMMA StepRejectDelay ==
    ASSUME Inv, RejectDelay
    PROVE  Inv'
<1>1. /\ Resume("receiver", "reject", "delay", <<>>)
      /\ Goto("receiver", "reject", "signal")
      /\ UNCHANGED <<video, hist, recent, pushed, isalreadyendedcall, isPickedup, screen,
                     channel, remote, rings, announced, settling, late, killed, events>>
  BY DEF RejectDelay, server, flags, agora, pickup, history
<1>2. at["receiver"]["reject"] = "delay"
  BY <1>1 DEF Resume
<1>3. Handles("receiver", "reject", 1, <<>>, "signal")
  BY <1>1, Names, StatusNames, ResumeNone DEF Inv
<1>4. TypeOK'
  <2>1. /\ queue' \in [Users -> Seq(Writes)] /\ applied' \in [Users -> BOOLEAN]
        /\ at' \in [Users -> [Handlers -> Stages]] /\ seen' \in [Users -> BOOLEAN]
        /\ hist' \in [Users -> Statuses]
    BY <1>3, Names, HandlesTypes DEF Inv
  <2> QED BY <1>1, <2>1 DEF Inv, QueueInv, TypeOK
<1>5. "receiver" \in settling
  BY <1>2, Names DEF Inv, QueueInv, HandlersOK, StageOK
<1>6. Next1("receiver", "reject", "signal") /\ Steady("receiver", "reject")
  BY <1>1, <1>5, Names DEF Next1, Steady
<1>7. QueueInv'
  BY <1>3, <1>4, <1>6, Names, RegularNone DEF Inv
<1>8. Plain' => Plain /\ ~Opening
  BY <1>1, <1>2, Tapped DEF Plain
<1>9. RecordInv'
  BY <1>1, <1>3, <1>8, Names, NoWrite, ReceiverStep DEF Inv
<1> QED BY <1>7, <1>9 DEF Inv

\* The caller is told of the rejection.
LEMMA StepRejectSignal ==
    ASSUME Inv, RejectSignal
    PROVE  Inv'
<1> DEFINE w == Signal("reject", "caller")
<1>1. /\ Issue("receiver", <<w>>) /\ Goto("receiver", "reject", "none")
      /\ at["receiver"]["reject"] = "signal"
      /\ UNCHANGED <<video, hist, recent, pushed, isalreadyendedcall, isPickedup, screen,
                     channel, remote, rings, announced, settling, late, killed, events>>
  BY DEF RejectSignal, server, flags, agora, pickup, history
<1>2. w \in Writes /\ w.by = "reject" /\ w.ack /\ w.do # "status"
  BY Names, StatusNames, WriteFacts
<1> HIDE DEF w
<1>3. ~Awaits("receiver", "reject") /\ "receiver" \in settling
  BY <1>1, Names DEF Inv, QueueInv, HandlersOK, StageOK
<1>4. Handles("receiver", "reject", 0, <<w>>, "none")
  BY <1>1, <1>2, <1>3, Names, StatusNames, IssueOne DEF Inv
<1>5. TypeOK'
  <2>1. /\ queue' \in [Users -> Seq(Writes)] /\ applied' \in [Users -> BOOLEAN]
        /\ at' \in [Users -> [Handlers -> Stages]] /\ seen' \in [Users -> BOOLEAN]
        /\ hist' \in [Users -> Statuses]
    BY <1>4, Names, HandlesTypes DEF Inv
  <2> QED BY <1>1, <2>1 DEF Inv, QueueInv, TypeOK
<1>6. Next1("receiver", "reject", "none") /\ Steady("receiver", "reject")
  BY <1>1, Names DEF Next1, Steady
<1>7. Entry("receiver", w, at', killed', settling')
  BY <1>1, <1>2, <1>3 DEF Entry
<1>8. QueueInv'
  BY <1>2, <1>4, <1>5, <1>6, <1>7, Names, RegularOne DEF Inv
<1>9. Plain' => Plain /\ ~Opening
  BY <1>1, Tapped DEF Plain
<1>10. \A m \in 1..Len(<<w>>) : ~EndOf(<<w>>[m], "receiver")
  BY <1>2, OneWrite DEF EndOf
<1>11. RecordInv'
  BY <1>1, <1>4, <1>9, <1>10, Names, ReceiverStep DEF Inv
<1> QED BY <1>8, <1>11 DEF Inv

-----------------------------------------------------------------------------
(***************************************************************************)
(* _onCallEnd.                                                             *)
(***************************************************************************)

\* A call screen closes or stays.
Closes(x) == Pop(x) \/ UNCHANGED <<screen, agora>>

\* What that makes of screen, channel and remote.
LEMMA ClosesFacts ==
    ASSUME TypeOK, NEW x \in Users, Closes(x)
    PROVE  /\ screen' \in [Users -> {"none", "open", "closed"}]
           /\ channel' \in [Users -> {"out", "in", "dropped"}]
           /\ remote' \in [Users -> BOOLEAN]
           /\ screen'["caller"] = "open" => /\ screen["caller"] = "open"
                                            /\ channel'["caller"] = channel["caller"]
           /\ x = "receiver" => screen'["caller"] = screen["caller"]
           /\ Pop(x) => screen'[x] = "closed"
<1>1. /\ screen \in [Users -> {"none", "open", "closed"}]
      /\ channel \in [Users -> {"out", "in", "dropped"}]
      /\ remote \in [Users -> BOOLEAN]
  BY DEF TypeOK
<1>2. CASE Pop(x)
  <2>1. /\ screen' = [screen EXCEPT ![x] = "closed"]
        /\ channel' = [channel EXCEPT ![x] = "out"]
        /\ remote' = [remote EXCEPT ![x] = FALSE]
    BY <1>2 DEF Pop
  <2>2. /\ screen'[x] = "closed"
        /\ x # "caller" => /\ screen'["caller"] = screen["caller"]
                           /\ channel'["caller"] = channel["caller"]
    BY <1>1, <2>1, Names
  <2> QED BY <1>1, <2>1, <2>2, Names
<1>3. CASE UNCHANGED <<screen, agora>> /\ ~Pop(x)
  BY <1>1, <1>3 DEF agora
<1> QED BY <1>2, <1>3 DEF Closes

\* _onCallEnd of the caller goes on after a write.
LEMMA CallerEnded ==
    ASSUME Inv, NEW ws, NEW s, Handles("caller", "end", 1, ws, s),
           Awaited(Head(queue["caller"]), "end"), at["caller"]["end"] # "none",
           s # "record", s = "none" => screen'["caller"] # "open",
           UNCHANGED <<settling, killed, late, isalreadyendedcall>>,
           \A z \in Users : \A m \in 1..Len(ws) : ~RawOf(ws[m], z),
           at["caller"]["end"] = "record" /\ ~isalreadyendedcall["caller"] =>
              s = "receiver" /\ \E m \in 1..Len(ws) : EndOf(ws[m], "caller"),
           at["caller"]["end"] = "receiver" /\ ~isalreadyendedcall["caller"] =>
              \E m \in 1..Len(ws) : EndOf(ws[m], "receiver")
    PROVE  RecordInv'
<1>1. "caller" \in settling /\ Alone("caller", "end")
  BY Names DEF Inv, QueueInv, HandlersOK, StageOK
<1>2. Plain' <=> Plain
  BY DEF Plain
<1>3. ASSUME Plain, NEW h \in Callbacks PROVE at["caller"][h] # "receiver"
  <2>1. SUFFICES ASSUME at["caller"][h] = "receiver" PROVE FALSE
    OBVIOUS
  <2>2. Before(h)
    BY <1>1, <1>3, <2>1 DEF Inv, RecordInv, Ends
  <2>3. PICK i, j \in 1..Len(queue["caller"]) :
           i < j /\ Awaited(queue["caller"][i], h) /\ Awaited(queue["caller"][j], "end")
    BY <2>2 DEF Before
  <2>4. /\ Head(queue["caller"]) = queue["caller"][1] /\ 1 \in 1..Len(queue["caller"])
        /\ Len(queue["caller"]) \in Nat
    BY Names, HandlesQueue DEF Inv
  <2>5. j = 1
    BY <1>1, <2>3, <2>4 DEF Alone
  <2> QED BY <2>3, <2>4, <2>5
<1>4. /\ at'["caller"]["end"] = s
      /\ \A h \in Callbacks : at'["caller"][h] = at["caller"][h]
  BY Names, CallerAlone DEF Inv
<1>5. \A z \in Users : Due(z) \/ (\E m \in 1..Len(ws) : EndOf(ws[m], z)) => Due(z)'
  BY Names, CallerDue DEF Inv
<1>6. Ends'
  <2>1. SUFFICES ASSUME Plain
                 PROVE  /\ \A h \in Callbacks : at'["caller"][h] # "receiver"
                        /\ Due("caller")'
                        /\ s # "receiver" \/ isalreadyendedcall["caller"]
                           => Due("receiver")'
                        /\ s = "none" => screen'["caller"] # "open"
    BY <1>1, <1>2, <1>4 DEF Ends
  <2>2. \A h \in Callbacks : at'["caller"][h] # "receiver"
    BY <1>3, <1>4, <2>1
  <2>3. Due("caller")'
    BY <1>1, <1>5, <2>1, Names DEF Inv, RecordInv, Ends
  <2>4. s # "receiver" \/ isalreadyendedcall["caller"] => Due("receiver")'
    BY <1>1, <1>5, <2>1, Names DEF Inv, RecordInv, Ends
  <2> QED BY <2>2, <2>3, <2>4
<1>7. Screens'
  BY <1>1 DEF Screens
<1>8. Opening' => Opening
  BY Names, OpensNothing DEF Inv
<1> QED BY <1>1, <1>2, <1>4, <1>6, <1>7, <1>8, Names, CallerStep DEF Inv

\* _onCallEnd of the receiver goes on.
LEMMA ReceiverEnded ==
    ASSUME Inv, NEW k, NEW ws, NEW s, Handles("receiver", "end", k, ws, s),
           at["receiver"]["end"] # "none", screen'["caller"] = screen["caller"],
           UNCHANGED <<settling, killed, late, isalreadyendedcall>>,
           s = "receiver" => \E m \in 1..Len(ws) : EndOf(ws[m], "caller"),
           at["receiver"]["end"] = "receiver" \/ ~\E m \in 1..Len(ws) : EndOf(ws[m], "receiver")
    PROVE  RecordInv'
<1>1. Plain' => Plain /\ ~Opening
  BY Tapped DEF Plain
<1>2. Plain /\ at["receiver"]["end"] = "receiver" => Due("caller")
  BY DEF Inv, RecordInv, ReceiverRecords
<1> QED BY <1>1, <1>2, Names, ReceiverStep DEF Inv

\* _onCallEnd goes on with another write.
LEMMA EndOne ==
    ASSUME Inv, NEW x \in Users, NEW t \in Stages, NEW s \in Stages, NEW w \in Writes,
           w.by = "end", w.ack, Resume(x, "end", t, <<w>>), Goto(x, "end", s),
           UNCHANGED <<video, hist, recent, pushed, isalreadyendedcall, isPickedup, screen,
                       channel, remote, rings, announced, settling, late, killed, events>>,
           t # "none", s \notin {"none", "signal", "record"},
           w.do = "status" => w.as \in Terminal,
           t = "record" => s = "receiver" /\ EndOf(w, "caller"),
           t = "receiver" => EndOf(w, "receiver"),
           s = "receiver" => t = "record",
           EndOf(w, "receiver") => t = "receiver"
    PROVE  Inv'
<1>1. at[x]["end"] = t /\ Awaited(Head(queue[x]), "end")
  BY DEF Resume, Awaited
<1>2. Handles(x, "end", 1, <<w>>, s)
  BY Names, ResumeOne DEF Inv
<1>3. TypeOK'
  <2>1. /\ queue' \in [Users -> Seq(Writes)] /\ applied' \in [Users -> BOOLEAN]
        /\ at' \in [Users -> [Handlers -> Stages]] /\ seen' \in [Users -> BOOLEAN]
        /\ hist' \in [Users -> Statuses]
    BY <1>2, Names, HandlesTypes DEF Inv
  <2> QED BY <2>1 DEF Inv, QueueInv, TypeOK
<1>4. x \in settling
  BY <1>1, Names DEF Inv, QueueInv, HandlersOK, StageOK
<1>5. Next1(x, "end", s) /\ Steady(x, "end")
  BY <1>4, Names DEF Next1, Steady
<1>6. Entry(x, w, at', killed', settling')
  BY <1>4, Names DEF Entry, RawOf, Users
<1>7. QueueInv'
  BY <1>2, <1>3, <1>5, <1>6, Names, RegularOne DEF Inv
<1>8. 1 \in 1..Len(<<w>>) /\ <<w>>[1] = w /\ \A m \in 1..Len(<<w>>) : <<w>>[m] = w
  BY OneWrite
<1>9. \A z \in Users : \A m \in 1..Len(<<w>>) : ~RawOf(<<w>>[m], z)
  BY <1>8 DEF RawOf
<1>10. CASE x = "caller"
  <2>1. /\ t = "record" => \E m \in 1..Len(<<w>>) : EndOf(<<w>>[m], "caller")
        /\ t = "receiver" => \E m \in 1..Len(<<w>>) : EndOf(<<w>>[m], "receiver")
    BY <1>8
  <2>2. RecordInv'
    BY <1>1, <1>2, <1>9, <1>10, <2>1, CallerEnded
  <2> QED BY <1>7, <2>2 DEF Inv
<1>11. CASE x = "receiver"
  <2>1. /\ s = "receiver" => \E m \in 1..Len(<<w>>) : EndOf(<<w>>[m], "caller")
        /\ t = "receiver" \/ ~\E m \in 1..Len(<<w>>) : EndOf(<<w>>[m], "receiver")
    BY <1>8
  <2>2. RecordInv'
    BY <1>1, <1>2, <1>11, <2>1, ReceiverEnded
  <2> QED BY <1>7, <2>2 DEF Inv
<1> QED BY <1>10, <1>11 DEF Users

\* _onCallEnd closes the screen.
LEMMA EndNone ==
    ASSUME Inv, NEW x \in Users, NEW t \in Stages, NEW s \in {"none", "signal"},
           Resume(x, "end", t, <<>>), Goto(x, "end", s), Pop(x),
           UNCHANGED <<video, hist, recent, pushed, isalreadyendedcall, isPickedup,
                       rings, announced, settling, late, killed, events>>,
           t \notin {"none", "receiver"}, t = "record" => isalreadyendedcall[x],
           s = "signal" => x = "receiver"
    PROVE  Inv'
<1>1. at[x]["end"] = t /\ Awaited(Head(queue[x]), "end")
  BY DEF Resume, Awaited
<1>2. Handles(x, "end", 1, <<>>, s)
  BY Names, StatusNames, ResumeNone DEF Inv
<1>3. /\ screen' \in [Users -> {"none", "open", "closed"}]
      /\ channel' \in [Users -> {"out", "in", "dropped"}]
      /\ remote' \in [Users -> BOOLEAN]
      /\ screen'["caller"] = "open" => /\ screen["caller"] = "open"
                                       /\ channel'["caller"] = channel["caller"]
      /\ x = "receiver" => screen'["caller"] = screen["caller"]
      /\ screen'[x] = "closed"
  BY ClosesFacts DEF Closes, Inv, QueueInv
<1>4. TypeOK'
  <2>1. /\ queue' \in [Users -> Seq(Writes)] /\ applied' \in [Users -> BOOLEAN]
        /\ at' \in [Users -> [Handlers -> Stages]] /\ seen' \in [Users -> BOOLEAN]
        /\ hist' \in [Users -> Statuses]
    BY <1>2, Names, HandlesTypes DEF Inv
  <2> QED BY <1>3, <2>1 DEF Inv, QueueInv, TypeOK
<1>5. x \in settling
  BY <1>1, Names DEF Inv, QueueInv, HandlersOK, StageOK
<1>6. Next1(x, "end", s) /\ Steady(x, "end")
  BY <1>3, <1>5, Names DEF Next1, Steady
<1>7. QueueInv'
  BY <1>2, <1>4, <1>6, Names, RegularNone DEF Inv
<1>8. CASE x = "caller"
  <2>1. \A z \in Users : \A m \in 1..Len(<<>>) : ~RawOf(<<>>[m], z)
    BY NoWrite
  <2>2. RecordInv'
    BY <1>1, <1>2, <1>3, <1>8, <2>1, CallerEnded
  <2> QED BY <1>7, <2>2 DEF Inv
<1>9. CASE x = "receiver"
  <2>1. ~\E m \in 1..Len(<<>>) : EndOf(<<>>[m], "receiver")
    BY NoWrite
  <2>2. RecordInv'
    BY <1>1, <1>2, <1>3, <1>9, <2>1, ReceiverEnded
  <2> QED BY <1>7, <2>2 DEF Inv
<1> QED BY <1>8, <1>9 DEF Users

\* The steps of _onCallEnd after the tap.
LEMMA StepEndRecord ==
    ASSUME Inv, NEW x \in Users, EndRecord(x)
    PROVE  Inv'
<1>1. UNCHANGED <<video, hist, recent, pushed, isalreadyendedcall, isPickedup, rings,
                  announced, settling, late, killed, events>>
  BY DEF EndRecord, server, flags, pickup, history
<1>2. CASE /\ isalreadyendedcall[x] /\ Resume(x, "end", "record", <<>>) /\ Pop(x)
           /\ Goto(x, "end", "none")
  BY <1>1, <1>2, StatusNames, EndNone
<1>3. CASE /\ Resume(x, "end", "record", <<Status("end", "caller", "ended")>>)
           /\ Goto(x, "end", "receiver") /\ UNCHANGED <<screen, channel, remote>>
  <2> DEFINE w == Status("end", "caller", "ended")
  <2>1. /\ w \in Writes /\ w.by = "end" /\ w.ack /\ w.do = "status" /\ w.of = "caller"
        /\ w.as = "ended"
    BY Names, StatusNames, WriteFacts
  <2>2. Resume(x, "end", "record", <<w>>)
    BY <1>3
  <2> HIDE DEF w
  <2>3. EndOf(w, "caller") /\ ~EndOf(w, "receiver")
    BY <2>1, StatusNames DEF EndOf
  <2> QED BY <1>1, <1>3, <2>1, <2>2, <2>3, StatusNames, EndOne
<1> QED BY <1>2, <1>3 DEF EndRecord, agora

\* _onCallEnd records the end in the receiver's history.
LEMMA StepEndReceiver ==
    ASSUME Inv, NEW x \in Users, EndReceiver(x)
    PROVE  Inv'
<1> DEFINE w == Status("end", "receiver", "ended")
<1>1. /\ UNCHANGED <<video, hist, recent, pushed, isalreadyendedcall, isPickedup, screen,
                     channel, remote, rings, announced, settling, late, killed, events>>
      /\ Resume(x, "end", "receiver", <<w>>) /\ Goto(x, "end", "unsignal")
  BY DEF EndReceiver, server, flags, agora, pickup, history
<1>2. /\ w \in Writes /\ w.by = "end" /\ w.ack /\ w.do = "status" /\ w.of = "receiver"
      /\ w.as = "ended"
  BY Names, StatusNames, WriteFacts
<1> HIDE DEF w
<1>3. EndOf(w, "receiver")
  BY <1>2, StatusNames DEF EndOf
<1> QED BY <1>1, <1>2, <1>3, StatusNames, EndOne

\* _onCallEnd deletes the user's own recent/callended.
LEMMA StepEndUnsignal ==
    ASSUME Inv, NEW x \in Users, EndUnsignal(x)
    PROVE  Inv'
<1> DEFINE w == Unsignal("end", x)
<1>1. /\ UNCHANGED <<video, hist, recent, pushed, isalreadyendedcall, isPickedup, screen,
                     channel, remote, rings, announced, settling, late, killed, events>>
      /\ Resume(x, "end", "unsignal", <<w>>) /\ Goto(x, "end", "tell")
  BY DEF EndUnsignal, server, flags, agora, pickup, history
<1>2. w \in Writes /\ w.by = "end" /\ w.ack /\ w.do # "status"
  BY Names, StatusNames, WriteFacts
<1> HIDE DEF w
<1>3. ~EndOf(w, "receiver")
  BY <1>2 DEF EndOf
<1> QED BY <1>1, <1>2, <1>3, StatusNames, EndOne

\* _onCallEnd signals an unanswered call, or closes the screen.
LEMMA StepEndTell ==
    ASSUME Inv, NEW x \in Users, EndTell(x)
    PROVE  Inv'
<1> DEFINE w == IF x = "caller" THEN Signal("end", "receiver")
                ELSE Unsignal("end", "caller")
<1>1. UNCHANGED <<video, hist, recent, pushed, isalreadyendedcall, isPickedup, rings,
                  announced, settling, late, killed, events>>
  BY DEF EndTell, server, flags, pickup, history
<1>2. CASE /\ Resume(x, "end", "tell", <<>>) /\ Pop(x) /\ Goto(x, "end", "none")
  BY <1>1, <1>2, StatusNames, EndNone
<1>3. CASE /\ Resume(x, "end", "tell", <<w>>) /\ Goto(x, "end", "pop")
           /\ UNCHANGED <<screen, channel, remote>>
  <2>1. /\ Signal("end", "receiver") \in Writes /\ Signal("end", "receiver").by = "end"
        /\ Signal("end", "receiver").ack /\ Signal("end", "receiver").do # "status"
        /\ Unsignal("end", "caller") \in Writes /\ Unsignal("end", "caller").by = "end"
        /\ Unsignal("end", "caller").ack /\ Unsignal("end", "caller").do # "status"
    BY Names, StatusNames, WriteFacts
  <2>2. w \in Writes /\ w.by = "end" /\ w.ack /\ w.do # "status"
    BY <2>1
  <2> HIDE DEF w
  <2>3. ~EndOf(w, "receiver")
    BY <2>2 DEF EndOf
  <2> QED BY <1>1, <1>3, <2>2, <2>3, StatusNames, EndOne
<1> QED BY <1>2, <1>3 DEF EndTell, agora

\* _onCallEnd closes the screen after the signal.
LEMMA StepEndPop ==
    ASSUME Inv, NEW x \in Users, EndPop(x)
    PROVE  Inv'
<1> DEFINE s == IF x = "caller" THEN "none" ELSE "signal"
<1>1. /\ UNCHANGED <<video, hist, recent, pushed, isalreadyendedcall, isPickedup,
                     rings, announced, settling, late, killed, events>>
      /\ Resume(x, "end", "pop", <<>>) /\ Pop(x) /\ Goto(x, "end", s)
  BY DEF EndPop, server, flags, pickup, history
<1>2. s \in {"none", "signal"} /\ (s = "signal" => x = "receiver")
  BY DEF Users
<1> HIDE DEF s
<1> QED BY <1>1, <1>2, StatusNames, EndNone

\* The receiver's client signals the caller after its screen is closed.
LEMMA StepEndSignal ==
    ASSUME Inv, NEW x \in Users, EndSignal(x)
    PROVE  Inv'
<1> DEFINE w == Signal("end", "caller")
<1>1. /\ UNCHANGED <<video, hist, recent, pushed, isalreadyendedcall, isPickedup, screen,
                     channel, remote, rings, announced, settling, late, killed, events>>
      /\ at[x]["end"] = "signal" /\ Issue(x, <<w>>) /\ Goto(x, "end", "none")
  BY DEF EndSignal, server, flags, agora, pickup, history
<1>2. w \in Writes /\ w.by = "end" /\ w.ack /\ w.do # "status"
  BY Names, StatusNames, WriteFacts
<1> HIDE DEF w
<1>3. x = "receiver" /\ ~Awaits(x, "end") /\ x \in settling
  BY <1>1, Names DEF Inv, QueueInv, HandlersOK, StageOK, Users
<1>4. Handles("receiver", "end", 0, <<w>>, "none")
  BY <1>1, <1>2, <1>3, Names, StatusNames, IssueOne DEF Inv
<1>5. TypeOK'
  <2>1. /\ queue' \in [Users -> Seq(Writes)] /\ applied' \in [Users -> BOOLEAN]
        /\ at' \in [Users -> [Handlers -> Stages]] /\ seen' \in [Users -> BOOLEAN]
        /\ hist' \in [Users -> Statuses]
    BY <1>4, Names, HandlesTypes DEF Inv
  <2> QED BY <1>1, <2>1 DEF Inv, QueueInv, TypeOK
<1>6. Next1("receiver", "end", "none") /\ Steady("receiver", "end")
  BY <1>1, Names DEF Next1, Steady
<1>7. Entry("receiver", w, at', killed', settling')
  BY <1>1, <1>2, <1>3 DEF Entry
<1>8. QueueInv'
  BY <1>2, <1>4, <1>5, <1>6, <1>7, Names, RegularOne DEF Inv
<1>9. ~\E m \in 1..Len(<<w>>) : EndOf(<<w>>[m], "receiver")
  BY <1>2, OneWrite DEF EndOf
<1>10. RecordInv'
  BY <1>1, <1>3, <1>4, <1>9, ReceiverEnded
<1> QED BY <1>8, <1>10 DEF Inv

\* The end button.
LEMMA StepCallEnd ==
    ASSUME Inv, NEW x \in Users, OnCallEnd(x)
    PROVE  Inv'
<1> DEFINE w == EndCall("end", x)
<1>1. /\ Issue(x, <<w>>) /\ Goto(x, "end", "record")
      /\ screen[x] = "open" /\ at[x]["end"] = "none" /\ ~Awaits(x, "end")
      /\ isalreadyendedcall' = [isalreadyendedcall EXCEPT ![x] = seen[x]]
      /\ settling' = settling \cup {x} /\ killed' = killed
      /\ late' = \/ late
                 \/ /\ x = "receiver" \/ seen[x]
                    /\ hist["receiver"] = "none" \/ Opening
      /\ events' = events + 1
      /\ UNCHANGED <<video, hist, recent, pushed, isPickedup, screen,
                     channel, remote, rings, announced>>
  BY DEF OnCallEnd, Settle, Event, Idle, server, agora, pickup
<1>2. w \in Writes /\ w.by = "end" /\ w.ack /\ w.do # "status"
  BY Names, StatusNames, WriteFacts
<1> HIDE DEF w
<1>3. Handles(x, "end", 0, <<w>>, "record")
  BY <1>1, <1>2, Names, StatusNames, IssueOne DEF Inv
<1>4. TypeOK'
  <2>1. /\ queue' \in [Users -> Seq(Writes)] /\ applied' \in [Users -> BOOLEAN]
        /\ at' \in [Users -> [Handlers -> Stages]] /\ seen' \in [Users -> BOOLEAN]
        /\ hist' \in [Users -> Statuses]
    BY <1>3, Names, HandlesTypes DEF Inv
  <2>2. settling' \in SUBSET Users /\ events' \in Nat
    BY <1>1 DEF Inv, QueueInv, TypeOK
  <2>3. isalreadyendedcall' \in [Users -> BOOLEAN]
    BY <1>1 DEF Inv, QueueInv, TypeOK
  <2>4. late' \in BOOLEAN
    BY <1>1
  <2> QED BY <1>1, <2>1, <2>2, <2>3, <2>4 DEF Inv, QueueInv, TypeOK
<1>5. Next1(x, "end", "record") /\ Steady(x, "end")
  BY <1>1, Names DEF Next1, Steady
<1>6. Entry(x, w, at', killed', settling')
  BY <1>1, <1>2 DEF Entry, RawOf, Users
<1>7. QueueInv'
  BY <1>2, <1>3, <1>4, <1>5, <1>6, Names, RegularOne DEF Inv
<1>8. /\ \A m \in 1..Len(<<w>>) : ~EndOf(<<w>>[m], "receiver")
      /\ \A z \in Users : \A m \in 1..Len(<<w>>) : ~RawOf(<<w>>[m], z)
      /\ 1 \in 1..Len(<<w>>) /\ <<w>>[1] = w /\ Len(<<w>>) = 1
  BY <1>2, OneWrite DEF EndOf, RawOf
<1>9. Plain' => Plain /\ (x = "receiver" \/ seen[x] => ~Opening)
  BY <1>1 DEF Plain
<1>10. CASE x = "receiver"
  <2>1. /\ "caller" \in settling' <=> "caller" \in settling
        /\ isalreadyendedcall'["caller"] = isalreadyendedcall["caller"]
    BY <1>1, <1>10, Names DEF Inv, QueueInv, TypeOK
  <2>2. RecordInv'
    BY <1>1, <1>3, <1>8, <1>9, <1>10, <2>1, Names, ReceiverStep DEF Inv
  <2> QED BY <1>7, <2>2 DEF Inv
<1>11. CASE x = "caller"
  <2>1. /\ at'["caller"]["end"] = "record"
        /\ \A h \in Callbacks : at'["caller"][h] = at["caller"][h]
    BY <1>3, <1>11, Names, CallerAlone DEF Inv
  <2>2. /\ "caller" \in settling'
        /\ "receiver" \in settling' <=> "receiver" \in settling
        /\ isalreadyendedcall'["caller"] = seen["caller"]
    BY <1>1, <1>11, Names DEF Inv, QueueInv, TypeOK
  <2>3. Plain => "caller" \notin settling
    BY <1>1, <1>11 DEF Inv, RecordInv, Ends
  <2>4. ASSUME Plain', seen["caller"] PROVE Due("caller")' /\ Due("receiver")'
    <3>1. Due("receiver") /\ Plain /\ ~Opening
      BY <1>9, <1>11, <2>4 DEF Inv, QueueInv, SeenOK
    <3>2. Due("caller")
      BY <2>3, <3>1, NotOpening DEF Inv, RecordInv, Agree
    <3> QED BY <1>3, <1>8, <1>11, <3>1, <3>2, Names, CallerDue DEF Inv
  <2>5. ASSUME Plain', NEW h \in Callbacks, at["caller"][h] = "receiver"
        PROVE  ~seen["caller"] /\ Before(h)'
    <3>1. ~seen["caller"]
      BY <1>9, <1>11, <2>5, NotOpening
    <3>2. Awaits("caller", h)
      BY <2>5, Names DEF Inv, QueueInv, HandlersOK, StageOK
    <3>3. PICK i \in 1..Len(queue["caller"]) : Awaited(queue["caller"][i], h)
      BY <3>2 DEF Awaits, Awaited
    <3>4. /\ i - 0 \in 1..Len(queue'["caller"])
          /\ queue'["caller"][i - 0] = queue["caller"][i]
      <4>1. \A n \in 1..Len(queue["caller"]) :
               \/ 0 = 1 /\ n = 1
               \/ /\ n - 0 \in 1..Len(queue'["caller"])
                  /\ queue'["caller"][n - 0] = queue["caller"][n]
        BY <1>3, <1>11, Names, HandlesItems DEF Inv
      <4> QED BY <4>1
    <3>5. /\ (Len(queue["caller"]) - 0) + 1 \in 1..Len(queue'["caller"])
          /\ queue'["caller"][(Len(queue["caller"]) - 0) + 1] = <<w>>[1]
      <4> DEFINE ws == <<w>>
      <4>1. 1 \in 1..Len(ws) /\ Handles("caller", "end", 0, ws, "record")
        BY <1>3, <1>8, <1>11
      <4> HIDE DEF ws
      <4>2. \A m \in 1..Len(ws) :
               /\ (Len(queue["caller"]) - 0) + m \in 1..Len(queue'["caller"])
               /\ queue'["caller"][(Len(queue["caller"]) - 0) + m] = ws[m]
        BY <4>1, Names, HandlesItems DEF Inv
      <4>3. /\ (Len(queue["caller"]) - 0) + 1 \in 1..Len(queue'["caller"])
            /\ queue'["caller"][(Len(queue["caller"]) - 0) + 1] = ws[1]
        BY <4>1, <4>2
      <4> QED BY <4>3 DEF ws
    <3>6. Len(queue["caller"]) \in Nat
      BY <1>3, <1>11, Names, HandlesQueue DEF Inv
    <3> DEFINE j == (Len(queue["caller"]) - 0) + 1
               a == i - 0
    <3>7. a < j
      BY <3>6
    <3>8. Awaited(queue'["caller"][j], "end")
      BY <1>2, <1>8, <3>5 DEF Awaited
    <3>9. Awaited(queue'["caller"][a], h)
      BY <3>3, <3>4
    <3>10. a \in 1..Len(queue'["caller"]) /\ j \in 1..Len(queue'["caller"])
      BY <3>4, <3>5
    <3> HIDE DEF a, j
    <3>11. \E m, n \in 1..Len(queue'["caller"]) :
              m < n /\ Awaited(queue'["caller"][m], h) /\ Awaited(queue'["caller"][n], "end")
      BY <3>7, <3>8, <3>9, <3>10
    <3> QED BY <3>1, <3>11 DEF Before, Awaited
  <2>6. Ends'
    BY <2>1, <2>2, <2>4, <2>5 DEF Ends
  <2>7. Screens'
    BY <2>2 DEF Screens
  <2>8. Opening' => Opening
    BY <1>3, <1>11, Names, OpensNothing DEF Inv
  <2>9. settling \subseteq settling' /\ (Plain' => Plain)
    BY <1>1, <1>9
  <2>10. RecordInv'
    BY <1>3, <1>8, <1>11, <2>1, <2>2, <2>6, <2>7, <2>8, <2>9, Names, CallerStep DEF Inv
  <2> QED BY <1>7, <2>10 DEF Inv
<1> QED BY <1>10, <1>11 DEF Users

-----------------------------------------------------------------------------
(***************************************************************************)
(* Channel, kills and snapshots.                                           *)
(***************************************************************************)

\* Steps of the channel and of PickupScreen.
LEMMA StepChannel ==
    ASSUME Inv, NEW x \in Users, Drop(x) \/ Rejoin(x)
    PROVE  Inv'
<1>1. /\ UNCHANGED <<video, hist, recent, pushed, queue, applied, seen, at,
                     isalreadyendedcall, isPickedup, screen, remote, rings, announced,
                     settling, late, killed>>
      /\ \/ channel' = [channel EXCEPT ![x] = "dropped"] /\ events' = events + 1
         \/ channel' = [channel EXCEPT ![x] = "in"] /\ events' = events
  BY DEF Drop, Rejoin, Event, server, writes, flags, pickup, history
<1>2. /\ channel' \in [Users -> {"out", "in", "dropped"}] /\ events' \in Nat
      /\ channel'["caller"] = "out" => channel["caller"] = "out"
  <2>1. channel \in [Users -> {"out", "in", "dropped"}] /\ events \in Nat
    BY DEF Inv, QueueInv, TypeOK
  <2>2. events' \in Nat
    BY <1>1, <2>1
  <2>3. CASE channel' = [channel EXCEPT ![x] = "dropped"]
    BY <2>1, <2>2, <2>3, Names
  <2>4. CASE channel' = [channel EXCEPT ![x] = "in"]
    BY <2>1, <2>2, <2>4, Names
  <2> QED BY <1>1, <2>3, <2>4
<1>3. TypeOK'
  BY <1>1, <1>2 DEF Inv, QueueInv, TypeOK
<1> QED BY <1>1, <1>2, <1>3, Frame

\* The green button, and the end of the ring.
LEMMA StepPickup ==
    ASSUME Inv, Accept \/ Silence
    PROVE  Inv'
<1>1. /\ UNCHANGED <<video, hist, recent, pushed, queue, applied, seen, at,
                     isalreadyendedcall, isPickedup, channel, remote, announced,
                     settling, late, killed, events>>
      /\ rings' = FALSE
      /\ screen' = [screen EXCEPT !["receiver"] = "open"] \/ screen' = screen
  BY DEF Accept, Silence, server, writes, flags, agora, history
<1>2. /\ screen' \in [Users -> {"none", "open", "closed"}]
      /\ screen'["caller"] = screen["caller"]
  BY <1>1, Names DEF Inv, QueueInv, TypeOK
<1>3. TypeOK'
  BY <1>1, <1>2 DEF Inv, QueueInv, TypeOK
<1> QED BY <1>1, <1>2, <1>3, Frame

\* The app of x is killed: its handlers are gone, its writes are not.
LEMMA StepKill ==
    ASSUME Inv, NEW x \in Users, Kill(x)
    PROVE  Inv'
<1>1. /\ killed' = killed \cup {x} /\ Pop(x) /\ events' = events + 1
      /\ late' = (late \/ queue[x] # <<>>)
      /\ at' = [at EXCEPT ![x] = [h \in Handlers |-> "none"]]
      /\ rings' = (rings /\ x # "receiver")
      /\ UNCHANGED <<video, hist, recent, pushed, queue, applied, seen,
                     isalreadyendedcall, isPickedup, announced, settling>>
  BY DEF Kill, Event, server, writes, flags
<1>2. /\ screen' \in [Users -> {"none", "open", "closed"}]
      /\ channel' \in [Users -> {"out", "in", "dropped"}]
      /\ remote' \in [Users -> BOOLEAN]
      /\ screen'["caller"] = "open" => /\ screen["caller"] = "open"
                                       /\ channel'["caller"] = channel["caller"]
      /\ screen'[x] = "closed"
  BY <1>1, ClosesFacts DEF Closes, Inv, QueueInv
<1>3. /\ at' \in [Users -> [Handlers -> Stages]]
      /\ \A h \in Handlers : at'[x][h] = "none"
      /\ \A y \in Users : y # x => at'[y] = at[y]
  BY <1>1, StatusNames DEF Inv, QueueInv, TypeOK
<1>4. TypeOK'
  <2>1. late' \in BOOLEAN /\ rings' \in BOOLEAN
    BY <1>1
  <2>2. killed' \in SUBSET Users /\ events' \in Nat
    BY <1>1 DEF Inv, QueueInv, TypeOK
  <2> QED BY <1>1, <1>2, <1>3, <2>1, <2>2 DEF Inv, QueueInv, TypeOK
<1>5. Entries'
  <2>1. ASSUME NEW y \in Users, NEW w, Entry(y, w, at, killed, settling)
        PROVE  Entry(y, w, at', killed', settling')
    <3>1. CASE y = "receiver"
      BY <1>1, <2>1, <3>1 DEF Entry
    <3>2. CASE y = "caller" /\ x = "caller"
      BY <1>1, <2>1, <3>2 DEF Entry
    <3>3. CASE y = "caller" /\ x # "caller"
      BY <1>1, <1>3, <2>1, <3>3 DEF Entry
    <3> QED BY <3>1, <3>2, <3>3 DEF Users
  <2>2. \A y \in Users : \A i \in 1..Len(queue[y]) :
           Entry(y, queue[y][i], at, killed, settling)
    BY DEF Inv, QueueInv, Entries
  <2>3. \A y \in Users : \A i \in 1..Len(queue'[y]) :
           Entry(y, queue'[y][i], at', killed', settling')
    BY <1>1, <2>1, <2>2
  <2> QED BY <2>3 DEF Entries
<1>6. HandlersOK'
  <2>1. \A y \in Users : \A h \in Handlers :
           (Awaits(y, h)' <=> Awaits(y, h)) /\ (Alone(y, h)' <=> Alone(y, h))
    BY <1>1 DEF Awaits, Alone
  <2>2. ASSUME NEW y \in Users, NEW h \in Handlers PROVE StageOK(y, h)'
    <3>1. StageOK(y, h)
      BY DEF Inv, QueueInv, HandlersOK
    <3>2. CASE y = x
      BY <1>3, <2>1, <3>1, <3>2 DEF StageOK
    <3>3. CASE y # x
      BY <1>1, <1>3, <2>1, <3>1, <3>3 DEF StageOK
    <3> QED BY <3>2, <3>3
  <2> QED BY <2>2 DEF HandlersOK
<1>7. OfflineOK'
  <2>1. at'["caller"]["offline"] = "receiver" => at["caller"]["offline"] = "receiver"
    BY <1>3, Names
  <2> QED BY <1>1, <2>1 DEF Inv, QueueInv, OfflineOK, Awaited, EndOf
<1>8. JoinsOnce'
  <2>1. SUFFICES ASSUME screen'["caller"] = "open", channel'["caller"] = "out"
                 PROVE  Idle("caller", "join")'
    BY DEF JoinsOnce
  <2>2. Idle("caller", "join") /\ x # "caller"
    BY <1>2, <2>1 DEF Inv, QueueInv, JoinsOnce
  <2> QED BY <1>1, <1>3, <2>2, Names DEF Idle, Awaits
<1>9. HeadOK'
  BY <1>1 DEF Inv, QueueInv, HeadOK, EndOf
<1>10. SeenOK'
  BY <1>1 DEF Inv, QueueInv, SeenOK, Due, DueIn, Pending, RawOf, EndOf
<1>11. ~Plain' /\ killed' # {}
  BY <1>1 DEF Plain
<1>12. RecordInv'
  BY <1>11 DEF RecordInv, Crossing, ReceiverRecords, Agree, Ends, Screens
<1> QED BY <1>4, <1>5, <1>6, <1>7, <1>8, <1>9, <1>10, <1>12 DEF Inv, QueueInv

\* A snapshot of the receiver's history reaches the caller's screen.
LEMMA Delivered ==
    ASSUME Inv, Shown(queue["caller"], "caller", hist["receiver"] \in Terminal)
    PROVE  Due("receiver")
<1> DEFINE q == queue["caller"]
           p == Pending("caller")
           b == hist["receiver"] \in Terminal
           z == "receiver"
<1>1. q \in Seq(Writes) /\ (applied["caller"] => q # <<>>)
  BY Names DEF Inv, QueueInv, TypeOK, HeadOK
<1>2. p = IF applied["caller"] THEN Tail(q) ELSE q
  BY DEF Pending
<1>3. applied["caller"] /\ EndOf(Head(q), z) => b
  BY Names DEF Inv, QueueInv, HeadOK
<1>4. \/ b /\ \A i \in 1..Len(q) : ~RawOf(q[i], z) /\ ~EndOf(q[i], z)
      \/ \E i \in 1..Len(q) :
            /\ EndOf(q[i], z)
            /\ \A j \in 1..Len(q) : j > i => ~RawOf(q[j], z) /\ ~EndOf(q[j], z)
  <2>1. b \in BOOLEAN /\ Shown(q, "caller", b)
    OBVIOUS
  <2> HIDE DEF q, b
  <2> QED BY <1>1, <2>1, Names, ShownSettled
<1>5. Due(z) <=> DueIn(p, Pending("receiver"), hist[z], z)
  BY DEF Due
<1> HIDE DEF q, p
<1>6. CASE ~applied["caller"]
  BY <1>2, <1>4, <1>5, <1>6 DEF DueIn
<1>7. CASE applied["caller"]
  <2>1. /\ Len(q) \in Nat /\ 1 \in 1..Len(q) /\ Head(q) = q[1]
        /\ Len(p) = Len(q) - 1
        /\ \A i \in 1..Len(p) : i + 1 \in 1..Len(q) /\ p[i] = q[i + 1]
        /\ \A i \in 1..Len(q) : i # 1 => i - 1 \in 1..Len(p) /\ p[i - 1] = q[i]
    BY <1>1, <1>2, <1>7, Split
  <2>2. CASE b /\ \A i \in 1..Len(q) : ~RawOf(q[i], z)
    <3>1. \A j \in 1..Len(p) : ~RawOf(p[j], z)
      BY <2>1, <2>2
    <3> QED BY <1>5, <2>2, <3>1 DEF DueIn
  <2>3. ASSUME NEW i \in 1..Len(q), EndOf(q[i], z),
               \A j \in 1..Len(q) : j > i => ~RawOf(q[j], z)
        PROVE  Due(z)
    <3>1. CASE i = 1
      <4>1. b
        BY <1>3, <1>7, <2>1, <2>3, <3>1
      <4>2. \A j \in 1..Len(p) : ~RawOf(p[j], z)
        BY <2>1, <2>3, <3>1
      <4> QED BY <1>5, <4>1, <4>2 DEF DueIn
    <3>2. CASE i # 1
      <4>1. i - 1 \in 1..Len(p) /\ EndOf(p[i - 1], z)
        BY <2>1, <2>3, <3>2
      <4>2. ASSUME NEW j \in 1..Len(p), j > i - 1 PROVE ~RawOf(p[j], z)
        <5>1. j + 1 \in 1..Len(q) /\ p[j] = q[j + 1]
          BY <2>1
        <5>2. j + 1 > i
          BY <4>2
        <5> QED BY <2>3, <5>1, <5>2
      <4> QED BY <1>5, <4>1, <4>2 DEF DueIn
    <3> QED BY <3>1, <3>2
  <2> QED BY <1>4, <2>2, <2>3
<1> QED BY <1>6, <1>7

\* A snapshot reaches a screen.
LEMMA StepDeliver ==
    ASSUME Inv, NEW x \in Users, Deliver(x)
    PROVE  Inv'
<1> DEFINE s == Shown(queue[x], x, hist[Peer(x)] \in Terminal)
<1>1. /\ seen' = [seen EXCEPT ![x] = s]
      /\ UNCHANGED <<video, hist, recent, pushed, queue, applied, at,
                     isalreadyendedcall, isPickedup, screen, channel, remote, rings,
                     announced, settling, late, killed, events>>
  BY DEF Deliver, server, flags, agora, pickup, history
<1>2. s \in BOOLEAN
  <2> DEFINE q == queue[x]
             own == {i \in 1..Len(q) : q[i].do = "status" /\ q[i].of = Peer(x)}
             top == q[CHOOSE i \in own : \A j \in own : j <= i].as \in Terminal
             b == hist[Peer(x)] \in Terminal
  <2>1. s = IF own = {} THEN b ELSE top
    BY DEF Shown
  <2>2. top \in BOOLEAN /\ b \in BOOLEAN
    OBVIOUS
  <2> HIDE DEF own, top, b, s
  <2> QED BY <2>1, <2>2
<1>3. seen \in [Users -> BOOLEAN]
  BY DEF Inv, QueueInv, TypeOK
<1>4. seen'["caller"] => Due("receiver")
  <2>1. CASE x = "caller"
    <3>1. seen'["caller"] = Shown(queue["caller"], "caller", hist["receiver"] \in Terminal)
      BY <1>1, <1>3, <2>1, Names
    <3> QED BY <3>1, Delivered
  <2>2. CASE x # "caller"
    <3>1. seen'["caller"] = seen["caller"]
      BY <1>1, <1>3, <2>2, Names
    <3> QED BY <3>1 DEF Inv, QueueInv, SeenOK
  <2> QED BY <2>1, <2>2
<1> HIDE DEF s
<1>5. TypeOK'
  BY <1>1, <1>2, <1>3 DEF Inv, QueueInv, TypeOK
<1>6. /\ \A y, h : Awaits(y, h)' <=> Awaits(y, h)
      /\ \A y, h : Idle(y, h)' <=> Idle(y, h)
      /\ \A y, h : Alone(y, h)' <=> Alone(y, h)
      /\ \A y : Pending(y)' = Pending(y)
      /\ \A h : Before(h)' <=> Before(h)
  BY <1>1 DEF Awaits, Idle, Alone, Pending, Before
<1>7. /\ \A z : Due(z)' <=> Due(z)
      /\ Opening' <=> Opening
      /\ Recording' <=> Recording
      /\ Plain' <=> Plain
  BY <1>1, <1>6 DEF Due, DueIn, EndOf, RawOf, Opening, Recording, Plain
<1>8. Entries'
  BY <1>1 DEF Inv, QueueInv, Entries, Entry, RawOf
<1>9. HandlersOK'
  BY <1>1, <1>6 DEF Inv, QueueInv, HandlersOK, StageOK
<1>10. OfflineOK' /\ HeadOK'
  BY <1>1 DEF Inv, QueueInv, OfflineOK, HeadOK, EndOf, Awaited
<1>11. JoinsOnce'
  BY <1>1, <1>6 DEF Inv, QueueInv, JoinsOnce
<1>12. SeenOK'
  BY <1>4, <1>7 DEF SeenOK
<1>13. QueueInv'
  BY <1>5, <1>8, <1>9, <1>10, <1>11, <1>12 DEF QueueInv
<1>14. Crossing' /\ ReceiverRecords' /\ Agree' /\ Screens'
  BY <1>1, <1>7 DEF Inv, RecordInv, Crossing, ReceiverRecords, Agree, Screens
<1>15. Ends'
  BY <1>1, <1>6, <1>7 DEF Inv, RecordInv, Ends
<1> QED BY <1>13, <1>14, <1>15 DEF Inv, RecordInv

-----------------------------------------------------------------------------
(***************************************************************************)
(* Firestore.                                                              *)
(***************************************************************************)

\* A screen shows what it did when nothing is issued.
LEMMA ShownNothing ==
    ASSUME NEW x, NEW b
    PROVE  Shown(<<>>, x, b) = b
<1>1. {i \in 1..Len(<<>>) : <<>>[i].do = "status" /\ <<>>[i].of = Peer(x)} = {}
  BY NoWrite
<1> QED BY <1>1 DEF Shown

\* A write that no handler waits for is acknowledged.
LEMMA StepAcknowledge ==
    ASSUME Inv, NEW x \in Users, Acknowledge(x)
    PROVE  Inv'
<1> DEFINE w == Head(queue[x])
           g == w.by
           s == at[x][g]
<1>1. /\ applied[x] /\ (~w.ack \/ s = "none")
      /\ applied' = [applied EXCEPT ![x] = FALSE]
      /\ queue' = [queue EXCEPT ![x] = Tail(@)]
      /\ UNCHANGED <<video, hist, recent, pushed, seen, at, isalreadyendedcall, isPickedup,
                     screen, channel, remote, rings, announced, settling, late, killed,
                     events>>
  BY DEF Acknowledge, server, flags, agora, pickup, history
<1>2. /\ queue \in [Users -> Seq(Writes)] /\ queue[x] # <<>>
      /\ seen \in [Users -> BOOLEAN] /\ at \in [Users -> [Handlers -> Stages]]
  BY <1>1 DEF Inv, QueueInv, TypeOK, HeadOK
<1>3. /\ w \in Writes /\ w = queue[x][1] /\ 1 \in 1..Len(queue[x])
      /\ Tail(queue[x]) \in Seq(Writes)
  BY <1>2, Split
<1>4. g \in Handlers
  BY <1>3 DEF Writes
<1>5. Tail(queue[x]) \o <<>> = Tail(queue[x])
  BY <1>3
<1>6. Moves(x, 1, <<>>)
  <2>1. queue' = [queue EXCEPT ![x] = Tail(queue[x]) \o <<>>]
    BY <1>1, <1>5
  <2> QED BY <1>1, <2>1, NoWrite DEF Moves, Rest
<1>7. seen' = [seen EXCEPT ![x] = Shown(<<>>, x, seen[x])]
  BY <1>1, <1>2, ShownNothing
<1>8. (w.ack => Awaited(w, g)) /\ (~w.ack => Unheard(x, g, 1, <<>>, s))
  BY NoWrite DEF Awaited, Unheard
<1>9. /\ at' \in [Users -> [Handlers -> Stages]] /\ at'[x][g] = s
      /\ \A y \in Users : \A h \in Handlers : at'[y][h] = at[y][h]
      /\ hist' = hist
  BY <1>1, <1>2
<1>10. \A h \in Handlers : Awaited(w, h) => at[x][h] = "none"
  BY <1>1 DEF Awaited
<1> HIDE DEF g, s
<1>11. Handles(x, g, 1, <<>>, s)
  <2>1. w.ack \/ ~w.ack
    OBVIOUS
  <2>2. Awaited(Head(queue[x]), g) \/ Unheard(x, g, 1, <<>>, s)
    BY <1>8
  <2> QED BY <1>6, <1>7, <1>9, <2>2, NoWrite DEF Handles
<1>12. TypeOK'
  <2>1. /\ queue' \in [Users -> Seq(Writes)] /\ applied' \in [Users -> BOOLEAN]
        /\ at' \in [Users -> [Handlers -> Stages]] /\ seen' \in [Users -> BOOLEAN]
        /\ hist' \in [Users -> Statuses]
    BY <1>4, <1>11, HandlesTypes DEF Inv
  <2> QED BY <1>1, <2>1 DEF Inv, QueueInv, TypeOK
<1>13. s = at[x][g]
  BY DEF s
<1>14. Legal(x, g, 1, <<>>, s)
  BY <1>1, <1>8, NoWrite DEF Legal
<1>15. Regular(x, g, 1, <<>>, s)
  <2>1. \A m \in 1..Len(<<>>) : Entry(x, <<>>[m], at', killed', settling')
    BY NoWrite
  <2>2. s = "receiver" => Unheard(x, g, 1, <<>>, s)
    BY <1>1, <1>8
  <2> QED BY <1>1, <1>11, <1>13, <1>14, <2>1, <2>2 DEF Regular
<1>16. QueueInv'
  BY <1>4, <1>12, <1>15, RegularQueue DEF Inv
<1>17. Plain' <=> Plain
  BY <1>1 DEF Plain
<1>18. CASE x = "caller"
  <2>1. \A z \in Users : \A m \in 1..Len(<<>>) : ~RawOf(<<>>[m], z) /\ ~<<>>[m].ack
    BY NoWrite
  <2>2. Opening' => Opening
    <3>1. \A m \in 1..Len(<<>>) : ~<<>>[m].ack
      BY NoWrite
    <3> QED BY <1>4, <1>11, <1>13, <1>18, <3>1, OpensNothing DEF Inv
  <2>3. \A h \in Callbacks \cup {"end"} :
           at["caller"][h] # "none" => ~Awaited(Head(queue["caller"]), h)
    BY <1>10, <1>18, Names
  <2>4. /\ at'["caller"]["end"] = at["caller"]["end"]
        /\ \A h \in Callbacks : at'["caller"][h] = at["caller"][h]
    BY <1>1
  <2>5. Ends'
    BY <1>1, <1>4, <1>11, <1>17, <1>18, <2>1, <2>3, <2>4, EndsKept DEF Inv
  <2>6. Screens'
    BY <1>1 DEF Inv, RecordInv, Screens
  <2>7. ~\E m \in 1..Len(<<>>) : EndOf(<<>>[m], "receiver")
    BY NoWrite
  <2>8. RecordInv'
    BY <1>1, <1>4, <1>11, <1>17, <1>18, <2>1, <2>2, <2>4, <2>5, <2>6, <2>7, CallerStep
       DEF Inv
  <2> QED BY <1>16, <2>8 DEF Inv
<1>19. CASE x = "receiver"
  <2>1. Plain => ~Opening
    <3>1. Entry("receiver", w, at, killed, settling)
      BY <1>3, <1>19, Names DEF Inv, QueueInv, Entries
    <3>2. w.by = "offline" => Recording
      BY <1>3, <1>19 DEF Recording
    <3>3. Recording \/ "receiver" \in settling
      BY <3>1, <3>2 DEF Entry
    <3> QED BY <3>3 DEF Inv, RecordInv, Crossing
  <2>2. Plain /\ g \in {"offline", "end"} /\ s = "receiver" => Due("caller")
    BY <1>13, <1>19 DEF Inv, RecordInv, ReceiverRecords
  <2>3. ~\E m \in 1..Len(<<>>) : EndOf(<<>>[m], "receiver")
    BY NoWrite
  <2>4. RecordInv'
    BY <1>1, <1>4, <1>11, <1>17, <1>19, <2>1, <2>2, <2>3, ReceiverStep DEF Inv
  <2> QED BY <1>16, <2>4 DEF Inv
<1> QED BY <1>18, <1>19 DEF Users

\* The oldest write of a client reaches the server.
LEMMA Applied ==
    ASSUME Inv, NEW x \in Users, Apply(x)
    PROVE  /\ queue[x] \in Seq(Writes) /\ queue[x] # <<>> /\ ~applied[x]
           /\ Head(queue[x]) \in Writes
           /\ TypeOK'
           /\ applied' = [applied EXCEPT ![x] = TRUE]
           /\ \A z \in Users : hist'[z] = After(hist[z], Head(queue[x]), z)
           /\ UNCHANGED <<queue, seen, at, isalreadyendedcall, screen, channel, settling,
                          late, killed>>
<1> DEFINE w == Head(queue[x])
<1>1. /\ queue[x] # <<>> /\ ~applied[x]
      /\ applied' = [applied EXCEPT ![x] = TRUE]
      /\ UNCHANGED <<video, queue, seen, at, isalreadyendedcall, isPickedup, screen, channel,
                     remote, rings, settling, late, killed, events>>
      /\ \/ /\ w.do = "status"
            /\ hist' = [hist EXCEPT ![w.of] = w.as]
            /\ UNCHANGED <<recent, pushed, announced>>
         \/ /\ w.do = "signal"
            /\ recent' = [recent EXCEPT ![w.of] = TRUE]
            /\ pushed' = pushed \cup
                            {<<w.of, IF recent[w.of] THEN "again" ELSE "first">>}
            /\ UNCHANGED <<hist, announced>>
         \/ /\ w.do = "unsignal"
            /\ recent' = [recent EXCEPT ![w.of] = FALSE]
            /\ UNCHANGED <<hist, pushed, announced>>
         \/ /\ w.do = "endCall"
            /\ announced' = FALSE
            /\ UNCHANGED <<hist, recent, pushed>>
  BY DEF Apply, server, flags, agora, history
<1>2. /\ queue[x] \in Seq(Writes) /\ applied \in [Users -> BOOLEAN]
      /\ hist \in [Users -> Statuses] /\ recent \in [Users -> BOOLEAN]
      /\ pushed \in SUBSET (Users \X {"first", "again"}) /\ announced \in BOOLEAN
  BY DEF Inv, QueueInv, TypeOK
<1>3. w \in Writes
  BY <1>1, <1>2, Split
<1> HIDE DEF w
<1>4. w.of \in Users /\ w.as \in Statuses
  BY <1>3 DEF Writes
<1>5. /\ hist' \in [Users -> Statuses]
      /\ \A z \in Users : hist'[z] = After(hist[z], w, z)
  <2>1. CASE w.do = "status" /\ hist' = [hist EXCEPT ![w.of] = w.as]
    BY <1>2, <1>4, <2>1 DEF After
  <2>2. CASE w.do # "status" /\ hist' = hist
    BY <1>2, <2>2 DEF After
  <2> QED BY <1>1, <2>1, <2>2
<1>6. recent' \in [Users -> BOOLEAN]
  <2>1. CASE recent' = recent
    BY <1>2, <2>1
  <2>2. CASE recent' = [recent EXCEPT ![w.of] = TRUE]
    BY <1>2, <2>2
  <2>3. CASE recent' = [recent EXCEPT ![w.of] = FALSE]
    BY <1>2, <2>3
  <2> QED BY <1>1, <2>1, <2>2, <2>3
<1>7. pushed' \in SUBSET (Users \X {"first", "again"}) /\ announced' \in BOOLEAN
  <2>1. announced' \in BOOLEAN
    BY <1>1, <1>2
  <2>2. ASSUME NEW push, push = IF recent[w.of] THEN "again" ELSE "first",
               pushed' = pushed \cup {<<w.of, push>>}
        PROVE  pushed' \in SUBSET (Users \X {"first", "again"})
    <3>1. push \in {"first", "again"}
      BY <2>2
    <3> QED BY <1>2, <1>4, <2>2, <3>1
  <2>3. CASE pushed' = pushed
    BY <1>2, <2>1, <2>3
  <2> QED BY <1>1, <2>1, <2>2, <2>3
<1>8. applied' \in [Users -> BOOLEAN]
  BY <1>1, <1>2
<1>9. TypeOK'
  BY <1>1, <1>5, <1>6, <1>7, <1>8 DEF Inv, QueueInv, TypeOK
<1> QED BY <1>1, <1>2, <1>3, <1>5, <1>9 DEF w

\* What it makes of the histories when all has arrived.
LEMMA AppliedDue ==
    ASSUME Inv, NEW x \in Users, Apply(x), NEW z \in Users
    PROVE  /\ Due(z) => Due(z)'
           /\ Due(z)' /\ Plain => Due(z) \/ (z = "caller" /\ x = "caller")
<1> DEFINE p == Pending("caller")
           r == Pending("receiver")
           w == Head(queue[x])
           s == hist[z]
<1>1. /\ queue[x] \in Seq(Writes) /\ queue[x] # <<>> /\ ~applied[x] /\ w \in Writes
      /\ applied' = [applied EXCEPT ![x] = TRUE] /\ applied \in [Users -> BOOLEAN]
      /\ hist'[z] = After(s, w, z) /\ queue' = queue
  BY Applied DEF Inv, QueueInv, TypeOK
<1>2. /\ applied'[x] = TRUE
      /\ \A y \in Users : y # x => applied'[y] = applied[y]
  BY <1>1
<1>3. /\ Pending(x) = queue[x] /\ Pending(x)' = Tail(queue[x])
      /\ \A y \in Users : y # x => Pending(y)' = Pending(y)
  BY <1>1, <1>2 DEF Pending
<1>4. Due(z) <=> DueIn(p, r, s, z)
  BY DEF Due
<1>5. Due(z)' <=> DueIn(p', r', After(s, w, z), z)
  <2>1. Due(z)' <=> DueIn(p', r', hist'[z], z)
    BY DEF Due, DueIn, RawOf, EndOf
  <2> HIDE DEF p, r, s, w
  <2> QED BY <1>1, <2>1
<1>6. 1 \in 1..Len(queue[x]) /\ w = queue[x][1]
  BY <1>1, Split
<1>7. Entry(x, w, at, killed, settling)
  BY <1>6 DEF Inv, QueueInv, Entries
<1>8. CASE x = "caller"
  <2>1. p = queue[x] /\ w = Head(p) /\ p' = Tail(p) /\ r' = r /\ p \in Seq(Writes) /\ p # <<>>
    BY <1>1, <1>3, <1>8, Names
  <2>2. Plain /\ RawOf(w, "receiver") => Len(r) = 0
    <3>1. SUFFICES ASSUME Plain, RawOf(w, "receiver") PROVE Len(r) = 0
      OBVIOUS
    <3>2. w.ack /\ w.by \in Callbacks
      BY <1>7, <1>8, <3>1 DEF Entry, RawOf
    <3>3. Awaits("caller", w.by)
      BY <1>6, <1>8, <3>2 DEF Awaits
    <3>4. Opening
      BY <3>2, <3>3 DEF Opening, Idle, Callbacks
    <3>5. ~Recording /\ "receiver" \notin settling
      BY <3>1, <3>4 DEF Inv, RecordInv, Crossing
    <3>6. ASSUME NEW i \in 1..Len(queue["receiver"]) PROVE FALSE
      <4>1. Entry("receiver", queue["receiver"][i], at, killed, settling)
        BY Names DEF Inv, QueueInv, Entries
      <4>2. queue["receiver"][i].by = "offline"
        BY <3>5, <4>1 DEF Entry
      <4> QED BY <3>5, <4>2 DEF Recording
    <3>7. queue["receiver"] \in Seq(Writes) /\ Len(queue["receiver"]) \in Nat
      BY Names DEF Inv, QueueInv, TypeOK
    <3>8. queue["receiver"] = <<>>
      BY <3>6, <3>7, Split
    <3>9. ~applied["receiver"]
      BY <3>8, Names DEF Inv, QueueInv, HeadOK
    <3> QED BY <3>8, <3>9 DEF Pending
  <2> HIDE DEF p, r, s, w
  <2>3. /\ DueIn(p, r, s, z) => DueIn(Tail(p), r, After(s, Head(p), z), z)
        /\ ( /\ DueIn(Tail(p), r, After(s, Head(p), z), z)
             /\ ~RawOf(Head(p), z) \/ Len(r) = 0 ) => DueIn(p, r, s, z)
    BY <2>1, DueApplied
  <2>4. z = "caller" \/ z = "receiver"
    BY DEF Users
  <2> QED BY <1>4, <1>5, <1>8, <2>1, <2>2, <2>3, <2>4
<1>9. CASE x = "receiver"
  <2>1. r = queue[x] /\ w = Head(r) /\ r' = Tail(r) /\ p' = p /\ r \in Seq(Writes) /\ r # <<>>
    BY <1>1, <1>3, <1>9, Names
  <2>2. ~RawOf(w, z)
    BY <1>7, <1>9 DEF Entry, RawOf
  <2> HIDE DEF p, r, s, w
  <2>3. DueIn(p, r, s, z) <=> DueIn(p, Tail(r), After(s, Head(r), z), z)
    BY <2>1, <2>2, DueReceived
  <2> QED BY <1>4, <1>5, <2>1, <2>3
<1> QED BY <1>8, <1>9 DEF Users

\* The oldest write of a client reaches the server.
LEMMA StepApply ==
    ASSUME Inv, NEW x \in Users, Apply(x)
    PROVE  Inv'
<1> DEFINE w == Head(queue[x])
<1>1. /\ queue[x] \in Seq(Writes) /\ queue[x] # <<>> /\ ~applied[x] /\ w \in Writes
      /\ TypeOK' /\ applied' = [applied EXCEPT ![x] = TRUE]
      /\ \A z \in Users : hist'[z] = After(hist[z], w, z)
      /\ UNCHANGED <<queue, seen, at, isalreadyendedcall, screen, channel, settling,
                     late, killed>>
  BY Applied
<1>2. /\ \A y, h : Awaits(y, h)' <=> Awaits(y, h)
      /\ \A y, h : Idle(y, h)' <=> Idle(y, h)
      /\ \A y, h : Alone(y, h)' <=> Alone(y, h)
      /\ \A h : Before(h)' <=> Before(h)
      /\ Opening' <=> Opening
      /\ Recording' <=> Recording
      /\ Plain' <=> Plain
  BY <1>1 DEF Awaits, Idle, Alone, Before, Opening, Recording, Plain
<1>3. \A z \in Users : Due(z) => Due(z)'
  BY AppliedDue
<1>4. Plain /\ Due("receiver")' => Due("receiver")
  BY Names, AppliedDue
<1>5. Entries'
  BY <1>1 DEF Inv, QueueInv, Entries, Entry, RawOf
<1>6. HandlersOK'
  BY <1>1, <1>2 DEF Inv, QueueInv, HandlersOK, StageOK
<1>7. OfflineOK'
  BY <1>1 DEF Inv, QueueInv, OfflineOK, EndOf, Awaited
<1>8. JoinsOnce'
  BY <1>1, <1>2 DEF Inv, QueueInv, JoinsOnce
<1>9. HeadOK'
  <2>1. /\ \A y \in Users : applied[y] => queue[y] # <<>>
        /\ applied["caller"] => \A z \in Users :
              EndOf(Head(queue["caller"]), z) => hist[z] \in Terminal
        /\ applied \in [Users -> BOOLEAN]
    BY DEF Inv, QueueInv, HeadOK, TypeOK
  <2>2. \A y \in Users : applied'[y] => queue'[y] # <<>>
    BY <1>1, <2>1
  <2>3. ASSUME applied'["caller"], NEW z \in Users, EndOf(Head(queue["caller"]), z)
        PROVE  hist'[z] \in Terminal
    <3>1. CASE x = "caller"
      BY <1>1, <2>3, <3>1 DEF After, EndOf
    <3>2. CASE x = "receiver"
      <4>1. hist[z] \in Terminal
        BY <1>1, <2>1, <2>3, <3>2, Names
      <4>2. 1 \in 1..Len(queue[x]) /\ w = queue[x][1]
        BY <1>1, Split
      <4>3. w.do = "status" => w.as \in Terminal
        BY <3>2, <4>2, Names DEF Inv, QueueInv, Entries, Entry
      <4> QED BY <1>1, <4>1, <4>3 DEF After
    <3> QED BY <3>1, <3>2 DEF Users
  <2>4. applied'["caller"] => \A z \in Users :
           EndOf(Head(queue'["caller"]), z) => hist'[z] \in Terminal
    BY <1>1, <2>3
  <2> QED BY <2>2, <2>4 DEF HeadOK, EndOf
<1>10. SeenOK'
  BY <1>1, <1>3, Names DEF Inv, QueueInv, SeenOK
<1>11. QueueInv'
  BY <1>1, <1>5, <1>6, <1>7, <1>8, <1>9, <1>10 DEF QueueInv
<1>12. Crossing' /\ Screens'
  BY <1>1, <1>2 DEF Inv, RecordInv, Crossing, Screens
<1>13. ReceiverRecords'
  BY <1>1, <1>2, <1>3, Names DEF Inv, RecordInv, ReceiverRecords
<1>14. Agree'
  BY <1>1, <1>2, <1>3, <1>4, Names DEF Inv, RecordInv, Agree
<1>15. Ends'
  BY <1>1, <1>2, <1>3, Names DEF Inv, RecordInv, Ends
<1> QED BY <1>11, <1>12, <1>13, <1>14, <1>15 DEF Inv, RecordInv

\* Nothing has been issued when dial is done.
LEMMA InitInv ==
    ASSUME Init
    PROVE  Inv
<1>1. /\ \A x \in Users : queue[x] = <<>> /\ ~applied[x] /\ ~seen[x]
      /\ \A x \in Users : \A h \in Handlers : at[x][h] = "none"
      /\ screen["caller"] = "open" /\ settling = {}
  BY Names DEF Init
<1>2. \A x \in Users : Len(queue[x]) = 0 /\ 1..Len(queue[x]) = {}
  BY <1>1, NoWrite
<1>3. \A x \in Users : \A h \in Handlers : ~Awaits(x, h) /\ Idle(x, h) /\ Alone(x, h)
  BY <1>1, <1>2 DEF Awaits, Idle, Alone
<1>4. TypeOK
  <2>1. <<>> \in Seq(Writes)
    BY NoWrite
  <2> QED BY <2>1, StatusNames, HistoryAssumption DEF Init, TypeOK
<1>5. Entries /\ OfflineOK /\ HeadOK /\ SeenOK /\ JoinsOnce
  BY <1>1, <1>2, <1>3, Names DEF Entries, OfflineOK, HeadOK, SeenOK, JoinsOnce
<1>6. HandlersOK
  BY <1>1, <1>3 DEF HandlersOK, StageOK
<1>7. ~Opening
  BY <1>3, Names DEF Opening, Callbacks
<1>8. ~Due("receiver")
  <2>1. Len(Pending("caller")) = 0 /\ Len(Pending("receiver")) = 0
    BY <1>1, <1>2, Names DEF Pending
  <2>2. hist["receiver"] \notin Terminal
    BY Names DEF Init, Terminal
  <2> QED BY <2>1, <2>2 DEF Due, DueIn
<1>9. Crossing /\ ReceiverRecords /\ Agree /\ Ends /\ Screens
  BY <1>1, <1>7, <1>8, Names DEF Crossing, ReceiverRecords, Agree, Ends, Screens
<1> QED BY <1>4, <1>5, <1>6, <1>9 DEF Inv, QueueInv, RecordInv

\* Every step keeps the invariant.
LEMMA NextInv ==
    ASSUME Inv, [Next]_vars
    PROVE  Inv'
<1>1. CASE UNCHANGED vars
  <2>1. TypeOK'
    BY <1>1 DEF Inv, QueueInv, TypeOK, vars, server, writes, flags, agora, pickup, history
  <2>2. UNCHANGED <<hist, queue, applied, at, seen, isalreadyendedcall, settling,
                    late, killed, screen, channel>>
    BY <1>1 DEF vars, server, writes, flags, agora, pickup, history
  <2> QED BY <2>1, <2>2, Frame
<1>2. ASSUME NEW x \in Users,
             \/ OnJoinChannelSuccess(x) \/ OnUserJoined(x) \/ OnUserOffline(x)
             \/ Drop(x) \/ Rejoin(x) \/ CallbackReceiver(x)
             \/ OnCallEnd(x) \/ EndStep(x)
             \/ Apply(x) \/ Acknowledge(x) \/ Deliver(x) \/ Kill(x)
      PROVE  Inv'
  <2>1. EndStep(x) => Inv'
    BY StepEndRecord, StepEndReceiver, StepEndUnsignal, StepEndTell, StepEndPop,
       StepEndSignal DEF EndStep
  <2> QED BY <1>2, <2>1, StepJoin, StepUserJoined, StepOffline, StepChannel, StepCallback,
             StepCallEnd, StepApply, StepAcknowledge, StepDeliver, StepKill
<1>3. CASE Accept \/ Silence
  BY <1>3, StepPickup
<1>4. CASE Reject \/ RejectStep
  BY <1>4, StepReject, StepRejectRecord, StepRejectDelay, StepRejectSignal DEF RejectStep
<1> QED BY <1>1, <1>2, <1>3, <1>4 DEF Next

\* A call that is over and quiet is one whose records are due.
LEMMA InvOver ==
    ASSUME Inv
    PROVE  OverIsRecorded
<1>1. SUFFICES ASSUME \A x \in Users : Quiet(x) /\ screen[x] # "open",
                      ~late, killed = {}
               PROVE  \A x \in Users : hist[x] \in Terminal
  BY DEF OverIsRecorded
<1>2. /\ \A x \in Users : queue[x] = <<>>
      /\ at["caller"]["end"] = "none"
  BY <1>1, Names DEF Quiet, Idle
<1>3. \A x \in Users : ~applied[x]
  BY <1>2 DEF Inv, QueueInv, HeadOK
<1>4. Len(Pending("caller")) = 0 /\ Len(Pending("receiver")) = 0
  BY <1>2, <1>3, Names, NoWrite DEF Pending
<1>5. \A z \in Users : Due(z) => hist[z] \in Terminal
  BY <1>4 DEF Due, DueIn
<1>6. Plain /\ "caller" \in settling
  BY <1>1, Names DEF Plain, Inv, RecordInv, Screens
<1>7. Due("caller") /\ Due("receiver")
  BY <1>2, <1>6 DEF Inv, RecordInv, Ends
<1> QED BY <1>5, <1>7 DEF Users

\* The invariant holds in every state of every behaviour.
THEOREM Invariance == Spec => []Inv
<1>1. Init => Inv
  BY InitInv
<1>2. Inv /\ [Next]_vars => Inv'
  BY NextInv
<1> QED BY <1>1, <1>2, PTL DEF Spec

\* Every variable of the history of a call keeps its type, however many taps,
\* drops and kills there are.
THEOREM TypeCorrect == Spec => []TypeOK
<1>1. Inv => TypeOK
  BY DEF Inv, QueueInv
<1> QED BY <1>1, Invariance, PTL

\* A call that is over is recorded as over in both histories (OverIsRecorded),
\* however many taps and drops there are: the writes of the two clients, none of
\* which looks at what it replaces, may cross only in the ways that late excepts.
THEOREM EndedCallsAreRecorded == Spec => []OverIsRecorded
<1>1. Inv => OverIsRecorded
  BY InvOver
<1> QED BY <1>1, Invariance, PTL
=============================================================================
