---------------------------- MODULE WritesProofs ----------------------------
(***************************************************************************)
(* Proofs about Writes, for any users and any bounds: its types; that no   *)
(* write is lost; that the callback of a write is told what became of this *)
(* write; that the client's assertions hold; and that the server applies   *)
(* the writes of each user in their order.                                 *)
(*                                                                         *)
(* The inductive invariant is Inv.  Its core is ClientOK: the pipeline is  *)
(* the beginning of the user's queue, and on a stream that has shaken      *)
(* hands the unread answers and then the unanswered requests match the     *)
(* pipeline one by one.  That is why an answer without an id is taken for  *)
(* the right batch.  Lates says the same of the requests of a closed       *)
(* stream, and Answered and Fresh tie the answers to the callbacks.        *)
(***************************************************************************)
EXTENDS Writes, SequenceTheorems, SumTheorems

-----------------------------------------------------------------------------
(***************************************************************************)
(* The mutation queue: BatchesAfter.                                       *)
(***************************************************************************)

\* Ids and writes grow together.
Ordered(m) ==
    /\ IsFiniteSet(m)
    /\ \A a, b \in m :
          /\ a.id = b.id => a = b
          /\ a.write = b.write => a = b
          /\ a.id < b.id => a.write < b.write

Sorted(q) == \A i, j \in DOMAIN q : i < j => q[i].id < q[j].id

\* A finite set of batches can be sorted by its ids.
LEMMA SortExists ==
    ASSUME NEW S \in SUBSET Batch, IsFiniteSet(S),
           \A a, b \in S : a.id = b.id => a = b
    PROVE  \E q \in [1..Cardinality(S) -> S] : Sorted(q)
<1> DEFINE Good(T) == \E q \in [1..Cardinality(T) -> T] : Sorted(q)
           P == {T \in SUBSET S : Good(T)}
<1>0. \A b \in S : b.id \in Nat
  BY DEF Batch
<1>1. {} \in P
  <2>1. Cardinality({}) = 0
    BY FS_EmptySet
  <2>2. [i \in 1..0 |-> 0] \in [1..0 -> {}]
    OBVIOUS
  <2>3. Sorted([i \in 1..0 |-> 0])
    BY DEF Sorted
  <2> QED BY <2>1, <2>2, <2>3
<1>2. ASSUME NEW T \in SUBSET S, T # {}, \A x \in T : T \ {x} \in P
      PROVE  T \in P
  <2> DEFINE f == [b \in T |-> b.id]
  <2>1. IsFiniteSet(T) /\ \A b \in T : f[b] = b.id /\ f[b] \in Int
    BY <1>0, FS_Subset
  <2> HIDE DEF f
  <2>2. PICK z \in T : \A b \in T : f[b] <= f[z]
    BY <1>2, <2>1, MaxExists
  <2>3. \A b \in T \ {z} : b.id < z.id
    BY <1>0, <2>1, <2>2
  <2> DEFINE n == Cardinality(T \ {z})
  <2>4. n \in Nat /\ Cardinality(T) = n + 1
    <3>1. IsFiniteSet(T \ {z}) /\ n = Cardinality(T) - 1
      BY <2>1, FS_RemoveElement
    <3>2. n \in Nat /\ Cardinality(T) \in Nat
      BY <2>1, <3>1, FS_CardinalityType
    <3> HIDE DEF n
    <3> QED BY <3>1, <3>2
  <2> HIDE DEF n
  <2>5. PICK q \in [1..n -> T \ {z}] : Sorted(q)
    BY <1>2 DEF n
  <2> DEFINE r == [i \in 1..(n + 1) |-> IF i = n + 1 THEN z ELSE q[i]]
  <2>6. r \in [1..(n + 1) -> T]
    BY <2>4, <2>5
  <2>7. ASSUME NEW i \in 1..(n + 1), NEW j \in 1..(n + 1), i < j
        PROVE  r[i].id < r[j].id
    <3>1. i \in 1..n /\ r[i] = q[i] /\ q[i] \in T \ {z}
      BY <2>4, <2>5, <2>7
    <3>2. CASE j = n + 1
      BY <2>3, <3>1, <3>2
    <3>3. CASE j # n + 1
      <4>1. j \in 1..n /\ r[j] = q[j]
        BY <2>4, <3>3
      <4> QED BY <2>5, <2>7, <3>1, <4>1 DEF Sorted
    <3> QED BY <3>2, <3>3
  <2>8. Sorted(r)
    BY <2>6, <2>7 DEF Sorted
  <2> HIDE DEF r
  <2> QED BY <2>4, <2>6, <2>8
<1> HIDE DEF P
<1>3. S \in P
  BY <1>1, <1>2, SubsetInduction
<1> QED BY <1>3 DEF P

\* The batches of u after id, in their order and without a gap.
LEMMA BatchesSorted ==
    ASSUME NEW m \in SUBSET Batch, Ordered(m), NEW u, NEW id
    PROVE  LET q == BatchesAfter(m, u, id) IN
           /\ q \in Seq(Batch) /\ Sorted(q)
           /\ \A i \in 1..Len(q) : q[i] \in m /\ q[i].user = u /\ q[i].id > id
           /\ \A b \in m : b.user = u /\ b.id > id => \E i \in 1..Len(q) : q[i] = b
<1> DEFINE S == {b \in m : b.user = u /\ b.id > id}
           q == BatchesAfter(m, u, id)
           n == Cardinality(S)
<1>1. S \in SUBSET Batch /\ \A a, b \in S : a.id = b.id => a = b
  BY DEF Ordered
<1>2. IsFiniteSet(S) /\ n \in Nat
  BY FS_Subset, FS_CardinalityType DEF Ordered
<1>3. q = CHOOSE s \in [1..n -> S] : Sorted(s)
  BY DEF BatchesAfter, Sorted
<1>4. \A b \in m : b \in S <=> b.user = u /\ b.id > id
  OBVIOUS
<1>4a. S \subseteq m
  OBVIOUS
<1> HIDE DEF S, q
<1>5. \E s \in [1..n -> S] : Sorted(s)
  BY <1>1, <1>2, SortExists
<1> HIDE DEF n
<1>6. q \in [1..n -> S] /\ Sorted(q)
  BY <1>3, <1>5
<1>7. q \in Seq(Batch) /\ Len(q) = n
  <2>1. q \in Seq(S) /\ Len(q) = n
    BY <1>2, <1>6
  <2> QED BY <1>1, <2>1, SeqMonotonic
<1>8. q \in Injection(1..n, S)
  <2>1. ASSUME NEW i \in 1..n, NEW j \in 1..n, q[i] = q[j] PROVE i = j
    <3>1. q[i] \in S /\ q[i].id \in Nat
      BY <1>1, <1>6 DEF Batch
    <3>2. ~(i < j) /\ ~(j < i)
      BY <1>6, <2>1, <3>1 DEF Sorted
    <3> QED BY <1>2, <3>2
  <2> QED BY <1>6, <2>1 DEF Injection, IsInjective
<1>9. Cardinality(1..n) = n
  BY <1>2, FS_Interval
<1>10. q \in Surjection(1..n, S)
  BY <1>2, <1>8, <1>9, FS_Injection DEF n
<1>11. \A b \in S : \E i \in 1..n : q[i] = b
  BY <1>10 DEF Surjection
<1>12. \A i \in 1..n : q[i] \in S
  BY <1>6
<1> QED BY <1>4, <1>4a, <1>6, <1>7, <1>11, <1>12 DEF q

-----------------------------------------------------------------------------
(***************************************************************************)
(* Lines of batches, and RemoteStore's filling of its pipeline.            *)
(***************************************************************************)

\* The pipeline p holds the first batches of the queue of u, in their order.
InLine(p, m, u) ==
    /\ \A i \in 1..Len(p) : p[i] \in m /\ p[i].user = u
    /\ \A i, j \in 1..Len(p) : i < j => p[i].id < p[j].id
    /\ \A b \in m : \A i \in 1..Len(p) :
          b.user = u /\ b.id < p[i].id => \E j \in 1..Len(p) : j < i /\ p[j] = b

\* The fields of a client have their types.
LEMMA ClientFields ==
    ASSUME NEW s \in Client
    PROVE  /\ s.enabled \in BOOLEAN /\ s.pipeline \in Seq(Batch)
           /\ s.stream \in {"Initial", "Starting", "Open", "Backoff", "Error"}
           /\ s.shaken \in BOOLEAN /\ s.idle \in BOOLEAN
           /\ s.sent \in Seq(Writes \cup {Handshake})
           /\ s.answers \in Seq(Writes \cup {Handshake, Refusal})
           /\ s.closes \in Nat /\ s.credentials \in SUBSET Nat
BY DEF Client

\* The stream was started for t, or left as it was.
Woken(s, t) ==
    \/ t.stream = s.stream /\ t.credentials = s.credentials
    \/ /\ ~IsStarted(s) /\ t.pipeline # <<>>
       /\ \/ t.stream = "Backoff" /\ t.credentials = s.credentials
          \/ t.stream = "Starting" /\ t.credentials = s.credentials \cup {s.closes}

\* Starting the stream touches nothing else.
LEMMA StartFields ==
    ASSUME NEW s \in Client
    PROVE  LET t == StartWriteStream(s) IN
           /\ t \in Client /\ Woken(s, t)
           /\ t.pipeline = s.pipeline /\ t.sent = s.sent /\ t.answers = s.answers
           /\ t.shaken = s.shaken /\ t.idle = s.idle /\ t.closes = s.closes
           /\ t.enabled = s.enabled
<1> DEFINE t == StartWriteStream(s)
           x == [s EXCEPT !.stream = "Backoff"]
           y == [s EXCEPT !.stream = "Starting", !.credentials = @ \cup {s.closes}]
<1>1. CASE ~ShouldStartWriteStream(s)
  BY <1>1 DEF StartWriteStream, Woken
<1>2. CASE ShouldStartWriteStream(s) /\ s.stream = "Error"
  <2>1. t = x
    BY <1>2 DEF StartWriteStream, Start
  <2>2. x \in Client /\ x.stream = "Backoff" /\ x.credentials = s.credentials
        /\ x.pipeline = s.pipeline /\ x.sent = s.sent /\ x.answers = s.answers
        /\ x.shaken = s.shaken /\ x.idle = s.idle /\ x.closes = s.closes
        /\ x.enabled = s.enabled
    BY DEF Client
  <2> QED BY <1>2, <2>1, <2>2 DEF ShouldStartWriteStream, Woken
<1>3. CASE ShouldStartWriteStream(s) /\ s.stream # "Error"
  <2>1. t = y
    BY <1>3 DEF StartWriteStream, Start
  <2>2. /\ y \in Client /\ y.stream = "Starting"
        /\ y.credentials = s.credentials \cup {s.closes}
        /\ y.pipeline = s.pipeline /\ y.sent = s.sent /\ y.answers = s.answers
        /\ y.shaken = s.shaken /\ y.idle = s.idle /\ y.closes = s.closes
        /\ y.enabled = s.enabled
    BY DEF Client
  <2> QED BY <1>3, <2>1, <2>2 DEF ShouldStartWriteStream, Woken
<1> QED BY <1>1, <1>2, <1>3

\* Where the items of a concatenation are.
LEMMA Concat ==
    ASSUME NEW S, NEW p \in Seq(S), NEW r \in Seq(S)
    PROVE  /\ p \o r \in Seq(S) /\ Len(p) \in Nat /\ Len(r) \in Nat
           /\ Len(p \o r) = Len(p) + Len(r)
           /\ \A i \in 1..Len(p) : (p \o r)[i] = p[i]
           /\ \A i \in (Len(p) + 1)..(Len(p) + Len(r)) :
                 (p \o r)[i] = r[i - Len(p)] /\ i - Len(p) \in 1..Len(r)
           /\ \A i \in 1..Len(r) : (p \o r)[Len(p) + i] = r[i]
<1> DEFINE k == Len(p)
           n == Len(r)
<1>1. k \in Nat /\ n \in Nat
  BY LenProperties
<1>2. /\ p \o r \in Seq(S) /\ Len(p \o r) = k + n
      /\ \A i \in 1..(k + n) :
            (p \o r)[i] = IF i <= k THEN p[i] ELSE r[i - k]
  BY ConcatProperties
<1> HIDE DEF k, n
<1>3. \A i \in 1..k : i \in 1..(k + n) /\ i <= k
  BY <1>1
<1>4. \A i \in (k + 1)..(k + n) : i \in 1..(k + n) /\ ~(i <= k) /\ i - k \in 1..n
  BY <1>1
<1>5. \A i \in 1..n : k + i \in (k + 1)..(k + n) /\ (k + i) - k = i
  BY <1>1
<1>6. \A i \in 1..k : (p \o r)[i] = p[i]
  BY <1>2, <1>3
<1>7. \A i \in (k + 1)..(k + n) : (p \o r)[i] = r[i - k]
  BY <1>2, <1>4
<1>8. \A i \in 1..n : (p \o r)[k + i] = r[i]
  BY <1>5, <1>7
<1> QED BY <1>1, <1>2, <1>4, <1>6, <1>7, <1>8 DEF k, n

\* The requests for batches.
LEMMA WritesOfSeq ==
    ASSUME NEW p \in Seq(Batch)
    PROVE  /\ WritesOf(p) \in Seq(Writes) /\ Len(WritesOf(p)) = Len(p)
           /\ \A i \in 1..Len(p) : WritesOf(p)[i] = p[i].write
<1>1. DOMAIN p = 1..Len(p) /\ Len(p) \in Nat /\ \A i \in 1..Len(p) : p[i] \in Batch
  BY LenProperties
<1>2. \A i \in 1..Len(p) : p[i].write \in Writes
  BY <1>1 DEF Batch
<1>3. WritesOf(p) = [i \in 1..Len(p) |-> p[i].write]
  BY <1>1 DEF WritesOf
<1>4. WritesOf(p) \in [1..Len(p) -> Writes]
  BY <1>2, <1>3
<1> QED BY <1>1, <1>3, <1>4

\* More batches of the queue, after those in the pipeline, keep the line.
LEMMA LineGrows ==
    ASSUME NEW m \in SUBSET Batch, Ordered(m), NEW u, NEW p \in Seq(Batch),
           InLine(p, m, u), NEW q \in Seq(Batch), Sorted(q), NEW n \in 0..Len(q),
           \A i \in 1..Len(q) : q[i] \in m /\ q[i].user = u,
           p # <<>> => \A i \in 1..Len(q) : q[i].id > p[Len(p)].id,
           \A b \in m : b.user = u /\ (p # <<>> => b.id > p[Len(p)].id)
                           => \E i \in 1..Len(q) : q[i] = b
    PROVE  /\ SubSeq(q, 1, n) \in Seq(Batch) /\ Len(SubSeq(q, 1, n)) = n
           /\ InLine(p \o SubSeq(q, 1, n), m, u)
<1> DEFINE r == SubSeq(q, 1, n)
           t == p \o r
           k == Len(p)
<1>1. k \in Nat /\ Len(q) \in Nat /\ n \in Nat /\ n <= Len(q)
  BY LenProperties
<1>1a. k = Len(p)
  OBVIOUS
<1> HIDE DEF k
<1>1b. /\ \A i \in 1..k : p[i] \in m /\ p[i].user = u
       /\ \A i, j \in 1..k : i < j => p[i].id < p[j].id
       /\ \A b \in m : \A i \in 1..k :
             b.user = u /\ b.id < p[i].id => \E j \in 1..k : j < i /\ p[j] = b
  BY <1>1a DEF InLine
<1>2. r \in Seq(Batch) /\ Len(r) = n /\ \A i \in 1..n : r[i] = q[i]
  <2>1. \A i \in 1..n : q[i] \in Batch
    BY <1>1, ElementOfSeq
  <2> QED BY <1>1, <2>1, SubSeqProperties
<1> HIDE DEF r
<1>3. /\ t \in Seq(Batch) /\ Len(t) = k + n
      /\ \A i \in 1..k : t[i] = p[i]
      /\ \A i \in (k + 1)..(k + n) : t[i] = q[i - k] /\ i - k \in 1..Len(q)
  <2>0. r \in Seq(Batch) /\ n = Len(r)
    BY <1>2
  <2>1. /\ t \in Seq(Batch) /\ Len(t) = k + n
        /\ \A i \in 1..k : t[i] = p[i]
        /\ \A i \in (k + 1)..(k + n) : t[i] = r[i - k] /\ i - k \in 1..n
    BY <1>1a, <2>0, Concat
  <2>2. \A i \in 1..n : i \in 1..Len(q)
    BY <1>1
  <2> HIDE DEF t
  <2> QED BY <1>2, <2>1, <2>2
<1> HIDE DEF t
<1>4. \A b \in m : b.id \in Nat
  BY DEF Batch
<1>5. \A i, j \in 1..Len(q) : i < j => q[i].id < q[j].id
  BY LenProperties DEF Sorted
<1>6. p # <<>> => k \in 1..k
  BY <1>1, <1>1a, EmptySeq
<1>6a. p = <<>> => k = 0
  BY <1>1a, EmptySeq
<1>6b. /\ p # <<>> => \A i \in 1..Len(q) : q[i].id > p[k].id
       /\ \A b \in m : b.user = u /\ (p # <<>> => b.id > p[k].id)
                           => \E i \in 1..Len(q) : q[i] = b
  BY <1>1a
<1>7. ASSUME NEW i \in 1..(k + n) PROVE t[i] \in m /\ t[i].user = u
  <2>1. CASE i \in 1..k
    BY <1>1b, <1>3, <2>1
  <2>2. CASE i \in (k + 1)..(k + n)
    BY <1>3, <2>2
  <2> QED BY <1>1, <2>1, <2>2
<1>8. ASSUME NEW i \in 1..k, NEW j \in 1..Len(q) PROVE p[i].id < q[j].id
  <2>0. p # <<>>
    BY <1>1, <1>6a
  <2>1. k \in 1..k /\ q[j].id > p[k].id
    BY <1>6, <1>6b, <2>0
  <2>2. i = k \/ i < k
    BY <1>1
  <2>3. i = k \/ p[i].id < p[k].id
    BY <1>1b, <2>1, <2>2
  <2>4. p[k].id \in Nat /\ p[i].id \in Nat /\ q[j].id \in Nat
    BY <1>1b, <1>4, <2>1
  <2> QED BY <2>1, <2>3, <2>4
<1>9. ASSUME NEW i \in 1..(k + n), NEW j \in 1..(k + n), i < j
      PROVE  t[i].id < t[j].id
  <2>1. CASE j \in 1..k
    <3>1. i \in 1..k
      BY <1>1, <1>9, <2>1
    <3> QED BY <1>1b, <1>3, <1>9, <2>1, <3>1
  <2>2. CASE i \in 1..k /\ j \in (k + 1)..(k + n)
    BY <1>3, <1>8, <2>2
  <2>3. CASE i \in (k + 1)..(k + n) /\ j \in (k + 1)..(k + n)
    <3>1. i - k < j - k
      BY <1>1, <1>9, <2>3
    <3> QED BY <1>3, <1>5, <2>3, <3>1
  <2> QED BY <1>1, <1>9, <2>1, <2>2, <2>3
<1>10. ASSUME NEW b \in m, NEW i \in 1..(k + n), b.user = u, b.id < t[i].id
       PROVE  \E j \in 1..(k + n) : j < i /\ t[j] = b
  <2>1. ASSUME NEW l \in 1..k, b.id < p[l].id
        PROVE  \E j \in 1..k : j < l /\ t[j] = b
    <3>1. PICK j \in 1..k : j < l /\ p[j] = b
      BY <1>1b, <1>10, <2>1
    <3> QED BY <1>3, <3>1
  <2>2. CASE i \in 1..k
    <3>1. PICK j \in 1..k : j < i /\ t[j] = b
      BY <1>3, <1>10, <2>1, <2>2
    <3>2. j \in 1..(k + n)
      BY <1>1
    <3> QED BY <3>1, <3>2
  <2>3. CASE i \in (k + 1)..(k + n)
    <3>1. t[i] = q[i - k] /\ i - k \in 1..Len(q)
      BY <1>3, <2>3
    <3>2. CASE p # <<>> /\ b.id <= p[k].id
      <4>1. k \in 1..k /\ p[k] \in m
        BY <1>1b, <1>6, <3>2
      <4>2. CASE b.id = p[k].id
        <5>1. b = p[k]
          BY <4>1, <4>2 DEF Ordered
        <5>2. k \in 1..(k + n) /\ k < i /\ t[k] = b
          BY <1>1, <1>3, <2>3, <4>1, <5>1
        <5> QED BY <5>2
      <4>3. CASE b.id # p[k].id
        <5>1. b.id < p[k].id
          BY <1>4, <3>2, <4>1, <4>3
        <5>2. PICK j \in 1..k : j < k /\ t[j] = b
          BY <2>1, <4>1, <5>1
        <5>3. j \in 1..(k + n) /\ j < i
          BY <1>1, <2>3, <5>2
        <5> QED BY <5>2, <5>3
      <4> QED BY <4>2, <4>3
    <3>3. CASE ~(p # <<>> /\ b.id <= p[k].id)
      <4>1. p # <<>> => b.id > p[k].id
        <5>1. p # <<>> => p[k] \in m
          BY <1>1b, <1>6
        <5> QED BY <1>4, <3>3, <5>1
      <4>2. PICK l \in 1..Len(q) : q[l] = b
        BY <1>6b, <1>10, <4>1
      <4>3. l < i - k
        <5>1. q[l].id < q[i - k].id /\ q[l].id \in Nat /\ q[i - k].id \in Nat
          BY <1>4, <1>10, <3>1, <4>2
        <5>2. ~(l = i - k) /\ ~(i - k < l)
          BY <1>5, <3>1, <5>1
        <5> QED BY <1>1, <3>1, <5>2
      <4>4. k + l \in (k + 1)..(k + n) /\ k + l < i /\ (k + l) - k = l
        BY <1>1, <2>3, <4>3
      <4>5. t[k + l] = b /\ k + l \in 1..(k + n)
        BY <1>1, <1>3, <4>2, <4>4
      <4> QED BY <4>4, <4>5
    <3> QED BY <3>2, <3>3
  <2> QED BY <1>1, <2>2, <2>3
<1>11. InLine(t, m, u)
  BY <1>3, <1>7, <1>9, <1>10 DEF InLine
<1> QED BY <1>2, <1>11 DEF r, t

-----------------------------------------------------------------------------
(***************************************************************************)
(* What is known of the client; the empty client.                          *)
(***************************************************************************)

\* Over a stream that has shaken hands, the answers and then the requests
\* not yet answered stand for the batches of the pipeline, one by one; R are
\* the refused writes.
Matched(s, R) ==
    s.shaken =>
        /\ Len(s.answers) + Len(s.sent) = Len(s.pipeline)
        /\ \A i \in 1..Len(s.answers) :
              \/ s.answers[i] = s.pipeline[i].write
              \/ /\ i = Len(s.answers) /\ s.answers[i] = Refusal
                 /\ s.pipeline[i].write \in R
        /\ \A i \in 1..Len(s.sent) :
              s.sent[i] = s.pipeline[Len(s.answers) + i].write

\* Before that only the handshake is under way, and nothing on no stream.
Shaking(s) ==
    /\ s.stream = "Open" /\ ~s.shaken =>
          \/ s.sent = <<Handshake>> /\ s.answers = <<>>
          \/ s.sent = <<>> /\ s.answers = <<Handshake>>
    /\ s.stream # "Open" => s.sent = <<>> /\ s.answers = <<>> /\ ~s.shaken

\* A stream is opened for a reason, and is idle without one.
Started(s) ==
    /\ IsStarted(s) /\ ~s.shaken => s.pipeline # <<>>
    /\ s.idle => s.stream = "Open" /\ s.shaken /\ s.pipeline = <<>>
    /\ \A k \in s.credentials : k <= s.closes
    /\ s.closes \in s.credentials => s.stream = "Starting"

\* Nothing is in the pipeline while the network is disabled.
Off(s) == ~s.enabled => s.pipeline = <<>>

\* What holds of the client s with the mutation queues m and user u.
ClientOK(s, m, u, R) ==
    /\ s \in Client /\ Len(s.pipeline) <= MaxPending
    /\ InLine(s.pipeline, m, u)
    /\ Matched(s, R) /\ Shaking(s) /\ Started(s) /\ Off(s)

\* What FillWritePipeline adds, and to what: t is s with the batches added.
Filled(s, t, m, u, added) ==
    LET send == s.stream = "Open" /\ s.shaken IN
    /\ t \in Client /\ Woken(s, t)
    /\ InLine(t.pipeline, m, u) /\ Len(t.pipeline) <= MaxPending
    /\ t.pipeline = s.pipeline \o added
    /\ t.sent = IF send THEN s.sent \o WritesOf(added) ELSE s.sent
    /\ t.idle => \/ s.stream = "Open" /\ t.pipeline = <<>>
                 \/ s.idle /\ ~(send /\ added # <<>>)
    /\ t.answers = s.answers /\ t.shaken = s.shaken
    /\ t.closes = s.closes /\ t.enabled = s.enabled
    /\ ~s.enabled => t.pipeline = s.pipeline

\* FillWritePipeline keeps the pipeline in line and within its bound.
LEMMA FillFields ==
    ASSUME NEW m \in SUBSET Batch, Ordered(m), NEW u, NEW s \in Client,
           InLine(s.pipeline, m, u), Len(s.pipeline) <= MaxPending
    PROVE  \E added \in Seq(Batch) :
              Filled(s, FillWritePipeline(s, m, u), m, u, added)
<1> DEFINE p     == s.pipeline
           from  == IF p = <<>> THEN 0 ELSE Last(p).id
           more  == BatchesAfter(m, u, from)
           room  == IF s.enabled THEN MaxPending - Len(p) ELSE 0
           n     == IF room < Len(more) THEN room ELSE Len(more)
           added == SubSeq(more, 1, n)
           idle  == s.enabled /\ p \o more = <<>> /\ s.stream = "Open"
           send  == s.stream = "Open" /\ s.shaken
           x     == [s EXCEPT !.pipeline = @ \o added,
                              !.sent = IF send THEN @ \o WritesOf(added) ELSE @,
                              !.idle = idle \/ (@ /\ ~(send /\ added # <<>>))]
           t     == FillWritePipeline(s, m, u)
<1>1. t = StartWriteStream(x)
  BY DEF FillWritePipeline
<1>2. p \in Seq(Batch) /\ s.sent \in Seq(Writes \cup {Handshake})
      /\ s.idle \in BOOLEAN /\ s.enabled \in BOOLEAN /\ s.shaken \in BOOLEAN
  BY ClientFields
<1>3. /\ more \in Seq(Batch) /\ Sorted(more)
      /\ \A i \in 1..Len(more) : more[i] \in m /\ more[i].user = u /\ more[i].id > from
      /\ \A b \in m : b.user = u /\ b.id > from => \E i \in 1..Len(more) : more[i] = b
  BY BatchesSorted
<1>4. p # <<>> => from = p[Len(p)].id
  BY DEF Last
<1>5. p = <<>> => from = 0
  OBVIOUS
<1>6. \A b \in m : b.id \in Nat \ {0}
  BY DEF Batch
<1> HIDE DEF from, more
<1>7. /\ n \in 0..Len(more) /\ Len(p) + n <= MaxPending
      /\ ~s.enabled => n = 0
  <2>1. Len(p) \in Nat /\ Len(more) \in Nat /\ MaxPending \in Nat
    BY <1>2, <1>3, LenProperties, WritesAssumption
  <2> DEFINE lp == Len(p)
             lm == Len(more)
  <2>2. lp \in Nat /\ lm \in Nat /\ MaxPending \in Nat
    BY <2>1, Zenon
  <2>2a. lp <= MaxPending
    OBVIOUS
  <2> HIDE DEF lp, lm
  <2>3a. room = IF s.enabled THEN MaxPending - lp ELSE 0
    BY Zenon DEF lp
  <2>4. n = IF room < lm THEN room ELSE lm
    BY DEF lm
  <2> HIDE DEF room, n
  <2>3. room \in Nat /\ lp + room <= MaxPending
    BY <2>2, <2>2a, <2>3a
  <2>5. n \in 0..lm /\ lp + n <= MaxPending /\ (~s.enabled => n = 0)
    BY <2>2, <2>2a, <2>3, <2>3a, <2>4
  <2> QED BY <2>5 DEF lp, lm
<1> HIDE DEF n
<1>8. /\ p # <<>> => \A i \in 1..Len(more) : more[i].id > p[Len(p)].id
      /\ \A b \in m : b.user = u /\ (p # <<>> => b.id > p[Len(p)].id)
                         => \E i \in 1..Len(more) : more[i] = b
  <2>1. \A b \in m : (p # <<>> => b.id > p[Len(p)].id) => b.id > from
    BY <1>4, <1>5, <1>6
  <2> QED BY <1>3, <1>4, <2>1
<1>9. added \in Seq(Batch) /\ Len(added) = n /\ InLine(p \o added, m, u)
  BY <1>2, <1>3, <1>7, <1>8, LineGrows
<1>10. (p \o more = <<>>) => p \o added = <<>>
  <2>1. SUFFICES ASSUME p \o more = <<>> PROVE p \o added = <<>>
    OBVIOUS
  <2>2. p \o more \in Seq(Batch) /\ Len(p \o more) = Len(p) + Len(more)
        /\ Len(p) \in Nat /\ Len(more) \in Nat
    BY <1>2, <1>3, Concat
  <2>3. Len(p) + Len(more) = 0
    BY <2>1, <2>2, EmptySeq
  <2>4. Len(p) = 0 /\ Len(more) = 0
    BY <2>2, <2>3
  <2>5. n = 0
    BY <1>7, <2>4
  <2>6. Len(p \o added) = 0 /\ p \o added \in Seq(Batch)
    BY <1>2, <1>9, <2>4, <2>5, Concat
  <2> QED BY <2>6, EmptySeq
<1> HIDE DEF added
<1>11. /\ p \o added \in Seq(Batch) /\ Len(p \o added) <= MaxPending
  <2>1. /\ p \o added \in Seq(Batch)
        /\ Len(p \o added) = Len(p) + Len(added)
    BY <1>2, <1>9, Concat
  <2> QED BY <1>7, <1>9, <2>1
<1>12. s.sent \o WritesOf(added) \in Seq(Writes \cup {Handshake})
  <2>1. WritesOf(added) \in Seq(Writes \cup {Handshake})
    BY <1>9, WritesOfSeq, SeqMonotonic
  <2> QED BY <1>2, <2>1, Concat
<1>13. idle \in BOOLEAN /\ send \in BOOLEAN
  BY <1>2
<1>13a. idle => s.stream = "Open" /\ p \o added = <<>>
  BY <1>10
<1> HIDE DEF idle
<1>14. /\ x \in Client /\ x.pipeline = p \o added
       /\ x.sent = IF send THEN s.sent \o WritesOf(added) ELSE s.sent
       /\ x.idle = (idle \/ (s.idle /\ ~(send /\ added # <<>>)))
       /\ x.answers = s.answers /\ x.shaken = s.shaken /\ x.closes = s.closes
       /\ x.enabled = s.enabled /\ x.stream = s.stream
       /\ x.credentials = s.credentials
  BY <1>2, <1>11, <1>12, <1>13 DEF Client
<1> HIDE DEF x, t
<1>15. /\ t \in Client /\ Woken(x, t)
       /\ t.pipeline = x.pipeline /\ t.sent = x.sent /\ t.answers = x.answers
       /\ t.shaken = x.shaken /\ t.idle = x.idle /\ t.closes = x.closes
       /\ t.enabled = x.enabled
  BY <1>1, <1>14, StartFields
<1>16. Woken(s, t)
  BY <1>14, <1>15 DEF Woken, IsStarted
<1>17. t.idle => \/ s.stream = "Open" /\ t.pipeline = <<>>
                 \/ s.idle /\ ~(send /\ added # <<>>)
  BY <1>13a, <1>14, <1>15
<1>18. /\ InLine(t.pipeline, m, u) /\ Len(t.pipeline) <= MaxPending
       /\ t.pipeline = s.pipeline \o added
       /\ t.sent = IF send THEN s.sent \o WritesOf(added) ELSE s.sent
  BY <1>9, <1>11, <1>14, <1>15
<1>18a. ~s.enabled => t.pipeline = s.pipeline
  <2>1. SUFFICES ASSUME ~s.enabled PROVE t.pipeline = s.pipeline
    OBVIOUS
  <2>2. added = <<>>
    BY <1>7, <1>9, <2>1, EmptySeq
  <2> QED BY <1>2, <1>18, <2>2, ConcatEmptySeq
<1>19. Filled(s, t, m, u, added)
  BY <1>18a, <1>14, <1>15, <1>16, <1>17, <1>18 DEF Filled
<1> QED BY <1>9, <1>19 DEF t

\* The requests of batches added to the pipeline are where Matched wants them.
LEMMA MatchedGrows ==
    ASSUME NEW p \in Seq(Batch), NEW a \in Seq(Writes \cup {Handshake, Refusal}),
           NEW q \in Seq(Writes \cup {Handshake}), NEW R, NEW d \in Seq(Batch),
           Len(a) + Len(q) = Len(p),
           \A i \in 1..Len(a) :
              a[i] = p[i].write \/ (i = Len(a) /\ a[i] = Refusal /\ p[i].write \in R),
           \A i \in 1..Len(q) : q[i] = p[Len(a) + i].write
    PROVE  LET pd == p \o d
               qd == q \o WritesOf(d) IN
           /\ Len(a) + Len(qd) = Len(pd)
           /\ \A i \in 1..Len(a) :
                 \/ a[i] = pd[i].write
                 \/ i = Len(a) /\ a[i] = Refusal /\ pd[i].write \in R
           /\ \A i \in 1..Len(qd) : qd[i] = pd[Len(a) + i].write
<1> DEFINE pd == p \o d
           w  == WritesOf(d)
           qd == q \o w
           la == Len(a)
           lq == Len(q)
           lp == Len(p)
           ld == Len(d)
<1>1. la \in Nat /\ lq \in Nat /\ lp \in Nat /\ ld \in Nat /\ la + lq = lp
  BY LenProperties
<1>2. w \in Seq(Writes \cup {Handshake}) /\ Len(w) = ld
      /\ \A i \in 1..ld : w[i] = d[i].write
  BY WritesOfSeq, SeqMonotonic
<1> HIDE DEF w
<1>3. /\ Len(pd) = lp + ld
      /\ \A i \in 1..lp : pd[i] = p[i]
      /\ \A i \in 1..ld : pd[lp + i] = d[i]
  BY Concat
<1>4. /\ Len(qd) = lq + ld
      /\ \A i \in 1..lq : qd[i] = q[i]
      /\ \A i \in (lq + 1)..(lq + ld) : qd[i] = w[i - lq] /\ i - lq \in 1..ld
  <2>1. /\ Len(qd) = lq + Len(w)
        /\ \A i \in 1..lq : qd[i] = q[i]
        /\ \A i \in (lq + 1)..(lq + Len(w)) :
              qd[i] = w[i - lq] /\ i - lq \in 1..Len(w)
    <3> DEFINE S == Writes \cup {Handshake}
    <3>1. q \in Seq(S) /\ w \in Seq(S)
      BY <1>2
    <3> HIDE DEF S
    <3> QED BY <3>1, Concat
  <2> QED BY <1>2, <2>1
<1>5. /\ \A i \in 1..la :
              a[i] = p[i].write \/ (i = la /\ a[i] = Refusal /\ p[i].write \in R)
      /\ \A i \in 1..lq : q[i] = p[la + i].write
  OBVIOUS
<1> HIDE DEF pd, qd, la, lq, lp, ld
<1>6. la + Len(qd) = Len(pd)
  BY <1>1, <1>3, <1>4
<1>7. ASSUME NEW i \in 1..la
      PROVE  a[i] = pd[i].write \/ (i = la /\ a[i] = Refusal /\ pd[i].write \in R)
  <2>1. i \in 1..lp
    BY <1>1
  <2>2. pd[i] = p[i]
    BY <1>3, <2>1
  <2> QED BY <1>5, <2>2
<1>8. ASSUME NEW i \in 1..(lq + ld) PROVE qd[i] = pd[la + i].write
  <2>1. CASE i \in 1..lq
    <3>1. la + i \in 1..lp
      BY <1>1, <2>1
    <3> QED BY <1>3, <1>4, <1>5, <2>1, <3>1
  <2>2. CASE i \in (lq + 1)..(lq + ld)
    <3>1. i - lq \in 1..ld /\ lp + (i - lq) = la + i
      BY <1>1, <2>2
    <3>2. pd[lp + (i - lq)] = d[i - lq]
      BY <1>3, <3>1
    <3> QED BY <1>2, <1>4, <2>2, <3>1, <3>2
  <2> QED BY <1>1, <2>1, <2>2
<1> QED BY <1>4, <1>6, <1>7, <1>8 DEF la, pd, qd, w

\* FillWritePipeline keeps what holds of the client.
LEMMA FillKeeps ==
    ASSUME NEW m \in SUBSET Batch, Ordered(m), NEW u, NEW s, NEW R,
           ClientOK(s, m, u, R)
    PROVE  LET t == FillWritePipeline(s, m, u) IN
           /\ ClientOK(t, m, u, R)
           /\ t.answers = s.answers /\ t.shaken = s.shaken
<1> DEFINE t == FillWritePipeline(s, m, u)
           send == s.stream = "Open" /\ s.shaken
<1>1. /\ s \in Client /\ InLine(s.pipeline, m, u) /\ Len(s.pipeline) <= MaxPending
      /\ Matched(s, R) /\ Shaking(s) /\ Started(s) /\ Off(s)
  BY DEF ClientOK
<1>2a. PICK d \in Seq(Batch) : Filled(s, t, m, u, d)
  BY <1>1, FillFields
<1> HIDE DEF t
<1>2. /\ t \in Client /\ Woken(s, t)
      /\ InLine(t.pipeline, m, u) /\ Len(t.pipeline) <= MaxPending
      /\ t.pipeline = s.pipeline \o d
      /\ t.sent = IF send THEN s.sent \o WritesOf(d) ELSE s.sent
      /\ t.idle => \/ s.stream = "Open" /\ t.pipeline = <<>>
                   \/ s.idle /\ ~(send /\ d # <<>>)
      /\ t.answers = s.answers /\ t.shaken = s.shaken
      /\ t.closes = s.closes /\ t.enabled = s.enabled
      /\ ~s.enabled => t.pipeline = s.pipeline
  BY <1>2a DEF Filled
<1>3. /\ s.pipeline \in Seq(Batch) /\ s.sent \in Seq(Writes \cup {Handshake})
      /\ s.answers \in Seq(Writes \cup {Handshake, Refusal})
      /\ s.closes \in Nat /\ s.credentials \in SUBSET Nat
      /\ s.shaken \in BOOLEAN /\ s.idle \in BOOLEAN
  BY <1>1, ClientFields
<1>4. s.pipeline # <<>> => t.pipeline # <<>>
  <2>1. /\ s.pipeline \o d \in Seq(Batch)
        /\ Len(s.pipeline) \in Nat /\ Len(d) \in Nat
        /\ Len(s.pipeline \o d) = Len(s.pipeline) + Len(d)
    BY <1>3, Concat
  <2>2. t.pipeline = <<>> => Len(s.pipeline) + Len(d) = 0
    BY <1>2, <2>1, EmptySeq
  <2>3. t.pipeline = <<>> => Len(s.pipeline) = 0
    BY <2>1, <2>2
  <2> QED BY <1>3, <2>3, EmptySeq
<1>5. d = <<>> => t.pipeline = s.pipeline
  BY <1>2, <1>3, ConcatEmptySeq
<1>6. Matched(t, R)
  <2>1. SUFFICES ASSUME s.shaken
                 PROVE  Matched(t, R)
    BY <1>2 DEF Matched
  <2>2. send
    BY <1>1, <2>1 DEF Shaking
  <2>3. t.sent = s.sent \o WritesOf(d)
    BY <1>2, <2>2
  <2>4. /\ Len(s.answers) + Len(s.sent) = Len(s.pipeline)
        /\ \A i \in 1..Len(s.answers) :
              \/ s.answers[i] = s.pipeline[i].write
              \/ /\ i = Len(s.answers) /\ s.answers[i] = Refusal
                 /\ s.pipeline[i].write \in R
        /\ \A i \in 1..Len(s.sent) :
              s.sent[i] = s.pipeline[Len(s.answers) + i].write
    BY <1>1, <2>1 DEF Matched
  <2>5. LET pd == s.pipeline \o d
            qd == s.sent \o WritesOf(d)
            a  == s.answers IN
        /\ Len(a) + Len(qd) = Len(pd)
        /\ \A i \in 1..Len(a) :
              \/ a[i] = pd[i].write
              \/ i = Len(a) /\ a[i] = Refusal /\ pd[i].write \in R
        /\ \A i \in 1..Len(qd) : qd[i] = pd[Len(a) + i].write
    BY <1>3, <2>4, MatchedGrows
  <2>6. /\ t.pipeline = s.pipeline \o d /\ t.answers = s.answers
        /\ t.sent = s.sent \o WritesOf(d)
    BY <1>2, <2>3
  <2>7. /\ Len(t.answers) + Len(t.sent) = Len(t.pipeline)
        /\ \A i \in 1..Len(t.answers) :
              \/ t.answers[i] = t.pipeline[i].write
              \/ /\ i = Len(t.answers) /\ t.answers[i] = Refusal
                 /\ t.pipeline[i].write \in R
        /\ \A i \in 1..Len(t.sent) :
              t.sent[i] = t.pipeline[Len(t.answers) + i].write
    BY <2>5, <2>6, Zenon
  <2> QED BY <2>7 DEF Matched
<1>7. Shaking(t)
  <2>1. CASE s.stream = "Open"
    <3>1. t.stream = "Open"
      BY <1>2, <2>1 DEF Woken, IsStarted
    <3>2. CASE s.shaken
      BY <1>2, <3>1, <3>2 DEF Shaking
    <3>3. CASE ~s.shaken
      BY <1>1, <1>2, <2>1, <3>1, <3>3 DEF Shaking
    <3> QED BY <3>2, <3>3
  <2>2. CASE s.stream # "Open"
    <3>1. t.stream # "Open"
      BY <1>2, <2>2 DEF Woken
    <3> QED BY <1>1, <1>2, <2>2, <3>1 DEF Shaking
  <2> QED BY <2>1, <2>2
<1>8. Started(t)
  <2>1. IsStarted(t) /\ ~t.shaken => t.pipeline # <<>>
    BY <1>1, <1>2, <1>4 DEF Woken, Started, IsStarted
  <2>2. ASSUME t.idle PROVE t.stream = "Open" /\ t.shaken /\ t.pipeline = <<>>
    <3>1. s.stream = "Open" /\ s.shaken /\ t.pipeline = <<>>
      <4>1. CASE s.stream = "Open" /\ t.pipeline = <<>>
        BY <1>1, <1>4, <4>1 DEF Started, IsStarted
      <4>2. CASE s.idle /\ ~(send /\ d # <<>>)
        BY <1>1, <1>5, <4>2 DEF Started
      <4> QED BY <1>2, <2>2, <4>1, <4>2
    <3> QED BY <1>2, <3>1 DEF Woken, IsStarted
  <2>3. \A k \in t.credentials : k <= t.closes
    BY <1>1, <1>2, <1>3 DEF Woken, Started
  <2>4. t.closes \in t.credentials => t.stream = "Starting"
    BY <1>1, <1>2 DEF Woken, Started, IsStarted
  <2> QED BY <2>1, <2>2, <2>3, <2>4 DEF Started
<1>9. Off(t)
  BY <1>1, <1>2 DEF Off
<1> QED BY <1>2, <1>6, <1>7, <1>8, <1>9 DEF ClientOK, t

\* An empty pipeline is in line with any queue.
LEMMA EmptyLine == \A m, u : InLine(<<>>, m, u)
<1>1. Len(<<>>) = 0
  OBVIOUS
<1>2. 1..0 = {}
  OBVIOUS
<1> QED BY <1>1, <1>2 DEF InLine

\* A client without a stream and with a pipeline in line.
LEMMA Streamless ==
    ASSUME NEW s \in Client, NEW m, NEW u, NEW R,
           Len(s.pipeline) <= MaxPending, InLine(s.pipeline, m, u),
           s.stream \in {"Initial", "Error"}, s.sent = <<>>, s.answers = <<>>,
           s.shaken = FALSE, s.idle = FALSE,
           \A k \in s.credentials : k < s.closes, Off(s)
    PROVE  ClientOK(s, m, u, R)
<1>1. Matched(s, R)
  BY DEF Matched
<1>2. Shaking(s)
  BY DEF Shaking
<1>3. Started(s)
  <2>1. s.closes \in Nat /\ s.credentials \in SUBSET Nat
    BY ClientFields
  <2>2. ~IsStarted(s)
    BY DEF IsStarted
  <2>3. s.closes \notin s.credentials /\ \A k \in s.credentials : k <= s.closes
    BY <2>1
  <2> QED BY <2>2, <2>3 DEF Started
<1> QED BY <1>1, <1>2, <1>3 DEF ClientOK

\* A new client.
LEMMA NewClientOK ==
    ASSUME NEW m, NEW u, NEW R
    PROVE  ClientOK(NewClient, m, u, R)
<1>1. NewClient \in Client
  BY DEF NewClient, Client
<1>2. /\ NewClient.pipeline = <<>> /\ NewClient.stream = "Initial"
      /\ NewClient.sent = <<>> /\ NewClient.answers = <<>>
      /\ NewClient.shaken = FALSE /\ NewClient.idle = FALSE
      /\ NewClient.credentials = {}
  BY DEF NewClient
<1>3. Len(NewClient.pipeline) <= MaxPending
  BY <1>2, WritesAssumption
<1>4. InLine(NewClient.pipeline, m, u)
  BY <1>2, EmptyLine
<1>5. Off(NewClient)
  BY <1>2 DEF Off
<1> QED BY <1>1, <1>2, <1>3, <1>4, <1>5, Streamless

\* The network is enabled.
LEMMA EnableKeeps ==
    ASSUME NEW m \in SUBSET Batch, Ordered(m), NEW u, NEW s, NEW R,
           ClientOK(s, m, u, R)
    PROVE  LET t == EnableNetworkOf(s, m, u) IN
           /\ ClientOK(t, m, u, R)
           /\ t.answers = s.answers /\ t.shaken = s.shaken
<1> DEFINE x == [s EXCEPT !.enabled = TRUE]
<1>1. s \in Client
  BY DEF ClientOK
<1>2. /\ x \in Client /\ x.pipeline = s.pipeline /\ x.stream = s.stream
      /\ x.shaken = s.shaken /\ x.idle = s.idle /\ x.sent = s.sent
      /\ x.answers = s.answers /\ x.closes = s.closes
      /\ x.credentials = s.credentials
  BY <1>1 DEF Client
<1>2a. x.enabled
  BY <1>1 DEF Client
<1>3. EnableNetworkOf(s, m, u) = FillWritePipeline(x, m, u)
  BY DEF EnableNetworkOf
<1> HIDE DEF x
<1>4. /\ InLine(s.pipeline, m, u) /\ Len(s.pipeline) <= MaxPending
      /\ Matched(s, R) /\ Shaking(s) /\ Started(s)
  BY DEF ClientOK
<1>5. Matched(x, R) /\ Shaking(x) /\ Started(x) /\ Off(x)
  <2>1. Matched(x, R) /\ Shaking(x) /\ Started(x)
    BY <1>2, <1>4 DEF Matched, Shaking, Started, IsStarted
  <2>2. Off(x)
    BY <1>2a DEF Off
  <2> QED BY <2>1, <2>2
<1>6. ClientOK(x, m, u, R)
  BY <1>2, <1>4, <1>5 DEF ClientOK
<1> QED BY <1>2, <1>3, <1>6, FillKeeps

\* A stream is closed.
LEMMA ClosedFields ==
    ASSUME NEW s \in Client, NEW state \in {"Initial", "Error"}
    PROVE  LET x == Closed(s, state) IN
           /\ x \in Client /\ x.pipeline = s.pipeline /\ x.stream = state
           /\ x.sent = <<>> /\ x.answers = <<>> /\ x.idle = FALSE
           /\ x.closes = s.closes + 1 /\ x.credentials = s.credentials
           /\ x.shaken = s.shaken /\ x.enabled = s.enabled
<1> DEFINE n == s.closes + 1
           x == [s EXCEPT !.stream = state, !.idle = FALSE, !.sent = <<>>,
                          !.answers = <<>>, !.closes = n]
<1>1. n \in Nat
  <2>1. s.closes \in Nat
    BY ClientFields
  <2> QED BY <2>1
<1>2. Closed(s, state) = x
  BY DEF Closed
<1>3. n = s.closes + 1
  OBVIOUS
<1> HIDE DEF n
<1>4. \A S : <<>> \in Seq(S)
  OBVIOUS
<1>5. state \in {"Initial", "Starting", "Open", "Backoff", "Error"}
  OBVIOUS
<1>6. /\ x \in Client /\ x.pipeline = s.pipeline /\ x.stream = state
      /\ x.sent = <<>> /\ x.answers = <<>> /\ x.idle = FALSE
      /\ x.closes = n /\ x.credentials = s.credentials
      /\ x.shaken = s.shaken /\ x.enabled = s.enabled
  BY <1>1, <1>4, <1>5 DEF Client
<1> QED BY <1>2, <1>3, <1>6

\* The flag shaken is all that changes.
LEMMA UnshakenFields ==
    ASSUME NEW s \in Client
    PROVE  LET x == [s EXCEPT !.shaken = FALSE] IN
           /\ x \in Client /\ x.shaken = FALSE
           /\ x.pipeline = s.pipeline /\ x.stream = s.stream /\ x.sent = s.sent
           /\ x.answers = s.answers /\ x.idle = s.idle /\ x.closes = s.closes
           /\ x.credentials = s.credentials /\ x.enabled = s.enabled
BY DEF Client

\* The stream is closed by intention, the pipeline left as it is.
LEMMA StopFields ==
    ASSUME NEW s \in Client, Shaking(s), Started(s)
    PROVE  LET t == Stop(s) IN
           /\ t \in Client /\ t.pipeline = s.pipeline /\ t.enabled = s.enabled
           /\ t.stream \in {"Initial", "Error"} /\ t.sent = <<>>
           /\ t.answers = <<>> /\ t.shaken = FALSE /\ t.idle = FALSE
           /\ \A k \in t.credentials : k < t.closes
<1> DEFINE x == Closed(s, "Initial")
           y == [x EXCEPT !.shaken = FALSE]
<1>1. /\ s.closes \in Nat /\ s.credentials \in SUBSET Nat
      /\ s.shaken \in BOOLEAN /\ s.idle \in BOOLEAN
      /\ s.stream \in {"Initial", "Starting", "Open", "Backoff", "Error"}
  BY ClientFields
<1>2. CASE IsStarted(s)
  <2>1. Stop(s) = y
    BY <1>2 DEF Stop
  <2>2. /\ y \in Client /\ y.pipeline = s.pipeline /\ y.stream = "Initial"
        /\ y.sent = <<>> /\ y.answers = <<>> /\ y.shaken = FALSE
        /\ y.idle = FALSE /\ y.closes = s.closes + 1
        /\ y.credentials = s.credentials /\ y.enabled = s.enabled
    <3>1. /\ x \in Client /\ x.pipeline = s.pipeline /\ x.stream = "Initial"
          /\ x.sent = <<>> /\ x.answers = <<>> /\ x.idle = FALSE
          /\ x.closes = s.closes + 1 /\ x.credentials = s.credentials
          /\ x.enabled = s.enabled
      BY ClosedFields
    <3> HIDE DEF x
    <3> QED BY <3>1, UnshakenFields
  <2>3. \A k \in s.credentials : k < s.closes + 1
    <3>1. \A k \in s.credentials : k \in Nat /\ k <= s.closes
      BY <1>1 DEF Started
    <3> QED BY <1>1, <3>1
  <2> HIDE DEF y
  <2> QED BY <2>1, <2>2, <2>3
<1>3. CASE ~IsStarted(s)
  <2>1. Stop(s) = s
    BY <1>3 DEF Stop
  <2>2. s.stream \in {"Initial", "Error"}
    BY <1>1, <1>3 DEF IsStarted
  <2>3. s.sent = <<>> /\ s.answers = <<>> /\ s.shaken = FALSE
    BY <1>1, <2>2 DEF Shaking
  <2>4. s.idle = FALSE /\ s.closes \notin s.credentials
    BY <1>1, <2>2 DEF Started
  <2>5. \A k \in s.credentials : k < s.closes
    BY <1>1, <2>4 DEF Started
  <2> QED BY <2>1, <2>2, <2>3, <2>4, <2>5
<1> QED BY <1>2, <1>3

\* The idle timer.
LEMMA StopKeeps ==
    ASSUME NEW m, NEW u, NEW s, NEW R, ClientOK(s, m, u, R)
    PROVE  LET t == Stop(s) IN
           ClientOK(t, m, u, R) /\ t.shaken = FALSE /\ t.answers = <<>>
<1> DEFINE t == Stop(s)
<1>1. /\ s \in Client /\ InLine(s.pipeline, m, u) /\ Len(s.pipeline) <= MaxPending
      /\ Shaking(s) /\ Started(s) /\ Off(s)
  BY DEF ClientOK
<1>2. /\ t \in Client /\ t.pipeline = s.pipeline /\ t.enabled = s.enabled
      /\ t.stream \in {"Initial", "Error"} /\ t.sent = <<>>
      /\ t.answers = <<>> /\ t.shaken = FALSE /\ t.idle = FALSE
      /\ \A k \in t.credentials : k < t.closes
  BY <1>1, StopFields
<1> HIDE DEF t
<1>3. /\ Off(t) /\ InLine(t.pipeline, m, u) /\ Len(t.pipeline) <= MaxPending
  BY <1>1, <1>2 DEF Off
<1>4. ClientOK(t, m, u, R)
  BY <1>2, <1>3, Streamless
<1> QED BY <1>2, <1>4 DEF t

\* The network is disabled: the pipeline is emptied, so that whoever signs in
\* finds it in line.
LEMMA DisableKeeps ==
    ASSUME NEW m, NEW u, NEW s, NEW R, ClientOK(s, m, u, R), NEW n, NEW v
    PROVE  LET t == DisableNetworkInternal(s)
               x == [t EXCEPT !.stream = "Initial"] IN
           /\ ClientOK(t, n, v, R) /\ t.shaken = FALSE /\ t.answers = <<>>
           /\ ClientOK(x, n, v, R) /\ x.shaken = FALSE /\ x.answers = <<>>
<1> DEFINE y == [s EXCEPT !.enabled = FALSE]
           z == Stop(y)
           t == DisableNetworkInternal(s)
           x == [t EXCEPT !.stream = "Initial"]
<1>1. s \in Client /\ Shaking(s) /\ Started(s)
  BY DEF ClientOK
<1>2. /\ y \in Client /\ y.pipeline = s.pipeline /\ y.stream = s.stream
      /\ y.shaken = s.shaken /\ y.idle = s.idle /\ y.sent = s.sent
      /\ y.answers = s.answers /\ y.closes = s.closes
      /\ y.credentials = s.credentials
  BY <1>1 DEF Client
<1>3. t = [z EXCEPT !.pipeline = <<>>]
  BY DEF DisableNetworkInternal
<1> HIDE DEF y
<1>4. Shaking(y) /\ Started(y)
  BY <1>1, <1>2 DEF Shaking, Started, IsStarted
<1>5. /\ z \in Client
      /\ z.stream \in {"Initial", "Error"} /\ z.sent = <<>>
      /\ z.answers = <<>> /\ z.shaken = FALSE /\ z.idle = FALSE
      /\ \A k \in z.credentials : k < z.closes
  BY <1>2, <1>4, StopFields
<1> HIDE DEF z, t
<1>6. /\ t \in Client /\ t.pipeline = <<>>
      /\ t.stream = z.stream /\ t.sent = z.sent
      /\ t.answers = z.answers /\ t.shaken = z.shaken /\ t.idle = z.idle
      /\ t.credentials = z.credentials /\ t.closes = z.closes
  BY <1>3, <1>5 DEF Client
<1>7. /\ x \in Client /\ x.pipeline = <<>>
      /\ x.stream = "Initial" /\ x.sent = z.sent
      /\ x.answers = z.answers /\ x.shaken = z.shaken /\ x.idle = z.idle
      /\ x.credentials = z.credentials /\ x.closes = z.closes
  BY <1>6 DEF Client
<1>8. Len(<<>>) <= MaxPending
  BY WritesAssumption
<1> HIDE DEF x
<1>8a. Off(t) /\ Off(x)
  BY <1>6, <1>7 DEF Off
<1>9. ClientOK(t, n, v, R)
  BY <1>5, <1>6, <1>8, <1>8a, EmptyLine, Streamless
<1>10. ClientOK(x, n, v, R)
  BY <1>5, <1>7, <1>8, <1>8a, EmptyLine, Streamless
<1> QED BY <1>5, <1>6, <1>7, <1>9, <1>10 DEF t, x

\* The network is restarted, perhaps for another user.
LEMMA RestartKeeps ==
    ASSUME NEW m, NEW u, NEW s, NEW R, ClientOK(s, m, u, R),
           NEW n \in SUBSET Batch, Ordered(n), NEW v
    PROVE  LET t == RestartNetwork(s, n, v) IN
           ClientOK(t, n, v, R) /\ t.shaken = FALSE /\ t.answers = <<>>
<1> DEFINE x == [DisableNetworkInternal(s) EXCEPT !.stream = "Initial"]
<1>1. ClientOK(x, n, v, R) /\ x.shaken = FALSE /\ x.answers = <<>>
  BY DisableKeeps
<1>2. RestartNetwork(s, n, v) = EnableNetworkOf(x, n, v)
  BY DEF RestartNetwork
<1> HIDE DEF x
<1> QED BY <1>1, <1>2, EnableKeeps

\* After a stream has ended, another may have been started.
LEMMA Rewoken ==
    ASSUME NEW m, NEW u, NEW R, NEW x \in Client, NEW y \in Client,
           x.stream \in {"Initial", "Error"}, y.sent = <<>>, y.answers = <<>>,
           y.idle = FALSE, \A k \in x.credentials : k < x.closes,
           y.closes = x.closes, Woken(x, y), InLine(y.pipeline, m, u),
           Len(y.pipeline) <= MaxPending, Off(y)
    PROVE  LET t == [y EXCEPT !.shaken = FALSE] IN
           ClientOK(t, m, u, R) /\ t.shaken = FALSE /\ t.answers = <<>>
<1> DEFINE t == [y EXCEPT !.shaken = FALSE]
<1>1. /\ t \in Client /\ t.shaken = FALSE
      /\ t.pipeline = y.pipeline /\ t.stream = y.stream /\ t.sent = y.sent
      /\ t.answers = y.answers /\ t.idle = y.idle /\ t.closes = y.closes
      /\ t.credentials = y.credentials /\ t.enabled = y.enabled
  BY UnshakenFields
<1> HIDE DEF t
<1>2. x.closes \in Nat /\ x.credentials \in SUBSET Nat
  BY ClientFields
<1>3. x.closes \notin x.credentials /\ \A k \in x.credentials : k <= x.closes
  BY <1>2
<1>4. t.stream # "Open"
  BY <1>1 DEF Woken
<1>5. Matched(t, R) /\ Shaking(t)
  BY <1>1, <1>4 DEF Matched, Shaking
<1>6. IsStarted(t) => t.pipeline # <<>>
  BY <1>1 DEF Woken, IsStarted
<1>7. /\ \A k \in t.credentials : k <= t.closes
      /\ t.closes \in t.credentials => t.stream = "Starting"
  BY <1>1, <1>2, <1>3 DEF Woken
<1>8. Started(t)
  BY <1>1, <1>6, <1>7 DEF Started
<1>9. Off(t)
  BY <1>1 DEF Off
<1> QED BY <1>1, <1>5, <1>8, <1>9 DEF ClientOK, t

\* The stream has ended with an error that may go away.
LEMMA CloseTransientKeeps ==
    ASSUME NEW m, NEW u, NEW s, NEW R, ClientOK(s, m, u, R)
    PROVE  LET t == CloseTransient([s EXCEPT !.credentials = @ \ {s.closes}]) IN
           ClientOK(t, m, u, R) /\ t.shaken = FALSE /\ t.answers = <<>>
<1> DEFINE z == [s EXCEPT !.credentials = @ \ {s.closes}]
           x == Closed(z, "Error")
           y == StartWriteStream(x)
<1>1. /\ s \in Client /\ InLine(s.pipeline, m, u) /\ Len(s.pipeline) <= MaxPending
      /\ Started(s) /\ Off(s)
  BY DEF ClientOK
<1>2. s.closes \in Nat /\ s.credentials \in SUBSET Nat
  BY <1>1, ClientFields
<1>3. /\ z \in Client /\ z.pipeline = s.pipeline /\ z.closes = s.closes
      /\ z.credentials = s.credentials \ {s.closes} /\ z.enabled = s.enabled
  <2>1. s.credentials \ {s.closes} \in SUBSET Nat
    BY <1>2
  <2> QED BY <1>1, <2>1 DEF Client
<1> HIDE DEF z
<1>4. /\ x \in Client /\ x.pipeline = z.pipeline /\ x.stream = "Error"
      /\ x.sent = <<>> /\ x.answers = <<>> /\ x.idle = FALSE
      /\ x.closes = z.closes + 1 /\ x.credentials = z.credentials
      /\ x.enabled = z.enabled
  BY <1>3, ClosedFields
<1>5. \A k \in x.credentials : k < x.closes
  <2>1. \A k \in s.credentials : k \in Nat /\ k <= s.closes
    BY <1>1, <1>2 DEF Started
  <2>2. \A k \in s.credentials : k < s.closes + 1
    BY <1>2, <2>1
  <2> QED BY <1>3, <1>4, <2>2
<1> HIDE DEF x
<1>6. /\ y \in Client /\ Woken(x, y) /\ y.pipeline = x.pipeline
      /\ y.sent = x.sent /\ y.answers = x.answers /\ y.idle = x.idle
      /\ y.closes = x.closes /\ y.enabled = x.enabled
  BY <1>4, StartFields
<1> HIDE DEF y
<1>7. LET t == [y EXCEPT !.shaken = FALSE] IN
      ClientOK(t, m, u, R) /\ t.shaken = FALSE /\ t.answers = <<>>
  <2>1. /\ y.sent = <<>> /\ y.answers = <<>> /\ y.idle = FALSE
        /\ y.pipeline = s.pipeline /\ x.stream \in {"Initial", "Error"}
    BY <1>3, <1>4, <1>6
  <2>2. InLine(y.pipeline, m, u) /\ Len(y.pipeline) <= MaxPending /\ Off(y)
    BY <1>1, <1>3, <1>4, <1>6, <2>1 DEF Off
  <2>3. x \in Client /\ y \in Client /\ Woken(x, y) /\ y.closes = x.closes
    BY <1>4, <1>6
  <2> QED BY <1>5, <2>1, <2>2, <2>3, Rewoken
<1>8. CloseTransient(z) = [y EXCEPT !.shaken = FALSE]
  BY DEF CloseTransient, y, x
<1> QED BY <1>7, <1>8 DEF z

\* The head of the pipeline leaves it together with its queue.
LEMMA LineShrinks ==
    ASSUME NEW m \in SUBSET Batch, Ordered(m), NEW u, NEW p \in Seq(Batch),
           p # <<>>, InLine(p, m, u)
    PROVE  /\ Head(p) = p[1] /\ p[1] \in m /\ p[1].user = u
           /\ Tail(p) \in Seq(Batch) /\ Len(Tail(p)) = Len(p) - 1
           /\ \A i \in 1..(Len(p) - 1) : Tail(p)[i] = p[i + 1]
           /\ InLine(Tail(p), Without(m, u, p[1].id), u)
<1> DEFINE r == Tail(p)
           k == Len(p)
           w == Without(m, u, p[1].id)
<1>1. k \in Nat /\ k # 0
  BY LenProperties, EmptySeq
<1>2. Head(p) = p[1]
  BY HeadTailProperties
<1>3. r \in Seq(Batch) /\ Len(r) = k - 1 /\ \A i \in 1..(k - 1) : r[i] = p[i + 1]
  BY HeadTailProperties
<1>4. /\ \A i \in 1..k : p[i] \in m /\ p[i].user = u
      /\ \A i, j \in 1..k : i < j => p[i].id < p[j].id
      /\ \A b \in m : \A i \in 1..k :
            b.user = u /\ b.id < p[i].id => \E j \in 1..k : j < i /\ p[j] = b
  BY DEF InLine
<1> HIDE DEF r, k
<1>5. 1 \in 1..k
  BY <1>1
<1>6. p[1] \in m /\ p[1].user = u
  BY <1>4, <1>5
<1>7. \A b : b \in w <=> b \in m /\ ~(b.user = u /\ b.id = p[1].id)
  BY DEF Without
<1>8. \A i \in 1..(k - 1) : i + 1 \in 1..k /\ 1 < i + 1
  BY <1>1
<1>9. \A b \in m : b.id \in Nat
  BY DEF Batch
<1> HIDE DEF w
<1>10. ASSUME NEW i \in 1..(k - 1) PROVE r[i] \in w /\ r[i].user = u
  <2>1. r[i] = p[i + 1] /\ p[1].id < p[i + 1].id /\ p[i + 1] \in m
        /\ p[i + 1].user = u
    BY <1>3, <1>4, <1>5, <1>8
  <2>2. p[i + 1].id # p[1].id
    BY <1>6, <1>9, <2>1
  <2> QED BY <1>7, <2>1, <2>2
<1>11. ASSUME NEW i \in 1..(k - 1), NEW j \in 1..(k - 1), i < j
       PROVE  r[i].id < r[j].id
  <2>1. i + 1 < j + 1
    BY <1>1, <1>11
  <2> QED BY <1>3, <1>4, <1>8, <2>1
<1>12. ASSUME NEW b \in w, NEW i \in 1..(k - 1), b.user = u, b.id < r[i].id
       PROVE  \E j \in 1..(k - 1) : j < i /\ r[j] = b
  <2>1. b \in m /\ b.id # p[1].id /\ b.id < p[i + 1].id
    BY <1>3, <1>7, <1>12
  <2>2. PICK j \in 1..k : j < i + 1 /\ p[j] = b
    BY <1>4, <1>8, <1>12, <2>1
  <2>3. j # 1
    BY <2>1, <2>2
  <2>4. j - 1 \in 1..(k - 1) /\ j - 1 < i /\ (j - 1) + 1 = j
    BY <1>1, <2>2, <2>3
  <2>5. r[j - 1] = b
    BY <1>3, <2>2, <2>4
  <2> QED BY <2>4, <2>5
<1>13. InLine(r, w, u)
  BY <1>3, <1>10, <1>11, <1>12 DEF InLine
<1> QED BY <1>2, <1>3, <1>6, <1>13 DEF r, k, w

\* The client of HandleWriteError, for what is left of the queues.
Errored(s, n, u) ==
    [FillWritePipeline([Closed(s, "Initial") EXCEPT !.pipeline = Tail(@)], n, u)
        EXCEPT !.shaken = FALSE]

\* The head of the pipeline is rejected, and the stream is over.
LEMMA ErrorKeeps ==
    ASSUME NEW m \in SUBSET Batch, Ordered(m), NEW u, NEW s, NEW R,
           ClientOK(s, m, u, R), s.pipeline # <<>>,
           NEW n \in SUBSET Batch, Ordered(n), n = Without(m, u, s.pipeline[1].id)
    PROVE  LET t == Errored(s, n, u) IN
           ClientOK(t, n, u, R) /\ t.shaken = FALSE /\ t.answers = <<>>
<1> DEFINE z == Closed(s, "Initial")
           x == [z EXCEPT !.pipeline = Tail(@)]
           y == FillWritePipeline(x, n, u)
<1>1. /\ s \in Client /\ InLine(s.pipeline, m, u) /\ Len(s.pipeline) <= MaxPending
      /\ Started(s) /\ Off(s)
  BY DEF ClientOK
<1>2. s.closes \in Nat /\ s.credentials \in SUBSET Nat /\ s.pipeline \in Seq(Batch)
  BY <1>1, ClientFields
<1>3. /\ z \in Client /\ z.pipeline = s.pipeline /\ z.stream = "Initial"
      /\ z.sent = <<>> /\ z.answers = <<>> /\ z.idle = FALSE
      /\ z.closes = s.closes + 1 /\ z.credentials = s.credentials
      /\ z.enabled = s.enabled
  BY <1>1, ClosedFields
<1> HIDE DEF z
<1>4. /\ Tail(s.pipeline) \in Seq(Batch)
      /\ Len(Tail(s.pipeline)) = Len(s.pipeline) - 1
      /\ InLine(Tail(s.pipeline), n, u)
  BY <1>1, <1>2, LineShrinks
<1>5. Len(Tail(s.pipeline)) <= MaxPending
  <2>1. Len(s.pipeline) \in Nat /\ MaxPending \in Nat
    BY <1>2, LenProperties, WritesAssumption
  <2> QED BY <1>1, <1>4, <2>1
<1>6. /\ x \in Client /\ x.pipeline = Tail(s.pipeline) /\ x.stream = "Initial"
      /\ x.sent = <<>> /\ x.answers = <<>> /\ x.idle = FALSE
      /\ x.closes = s.closes + 1 /\ x.credentials = s.credentials
      /\ x.enabled = s.enabled
  BY <1>3, <1>4 DEF Client
<1>7. \A k \in x.credentials : k < x.closes
  <2>1. \A k \in s.credentials : k \in Nat /\ k <= s.closes
    BY <1>1, <1>2 DEF Started
  <2>2. \A k \in s.credentials : k < s.closes + 1
    BY <1>2, <2>1
  <2> QED BY <1>6, <2>2
<1> HIDE DEF x
<1>7a. x \in Client /\ InLine(x.pipeline, n, u) /\ Len(x.pipeline) <= MaxPending
  BY <1>4, <1>5, <1>6
<1>8a. PICK d \in Seq(Batch) : Filled(x, y, n, u, d)
  BY <1>7a, FillFields
<1> HIDE DEF y
<1>8. /\ y \in Client /\ Woken(x, y)
      /\ InLine(y.pipeline, n, u) /\ Len(y.pipeline) <= MaxPending
      /\ y.sent = IF x.stream = "Open" /\ x.shaken
                  THEN x.sent \o WritesOf(d) ELSE x.sent
      /\ y.idle => x.stream = "Open" \/ x.idle
      /\ y.answers = x.answers /\ y.closes = x.closes /\ y.enabled = x.enabled
  BY <1>8a DEF Filled
<1>9. y.sent = <<>> /\ y.answers = <<>> /\ y.idle = FALSE
  <2>1. y.idle \in BOOLEAN
    BY <1>8, ClientFields
  <2> QED BY <1>6, <1>8, <2>1
<1>10. LET t == [y EXCEPT !.shaken = FALSE] IN
       ClientOK(t, n, u, R) /\ t.shaken = FALSE /\ t.answers = <<>>
  <2>1. x.stream \in {"Initial", "Error"} /\ x \in Client
    BY <1>6
  <2>2. /\ y \in Client /\ Woken(x, y) /\ y.closes = x.closes
        /\ InLine(y.pipeline, n, u) /\ Len(y.pipeline) <= MaxPending
    BY <1>8
  <2>3. Off(y)
    BY <1>1, <1>6, <1>8 DEF Off
  <2> QED BY <1>7, <1>9, <2>1, <2>2, <2>3, Rewoken
<1> QED BY <1>10 DEF z, x, y, Errored

\* Requests and answers are told apart.
LEMMA Distinct ==
    Handshake \notin Writes /\ Refusal \notin Writes /\ Refusal # Handshake
BY WritesAssumption DEF Handshake, Refusal, Writes

\* What the first answer is.
LEMMA FirstAnswer ==
    ASSUME NEW m, NEW u, NEW s, NEW R, ClientOK(s, m, u, R), s.answers # <<>>
    PROVE  /\ Len(s.answers) \in Nat /\ 1 \in 1..Len(s.answers)
           /\ Head(s.answers) = s.answers[1]
           /\ s.stream = "Open"
           /\ s.shaken =>
                 /\ s.pipeline # <<>> /\ 1 \in 1..Len(s.pipeline)
                 /\ s.pipeline[1] \in m /\ s.pipeline[1] \in Batch
                 /\ Head(s.pipeline) = s.pipeline[1]
                 /\ \/ s.answers[1] = s.pipeline[1].write
                    \/ /\ Len(s.answers) = 1 /\ s.answers[1] = Refusal
                       /\ s.pipeline[1].write \in R
           /\ ~s.shaken => s.answers = <<Handshake>> /\ s.sent = <<>>
           /\ s.shaken <=> Head(s.answers) # Handshake
<1>1. /\ s \in Client /\ InLine(s.pipeline, m, u)
      /\ Matched(s, R) /\ Shaking(s)
  BY DEF ClientOK
<1>2. /\ s.pipeline \in Seq(Batch) /\ s.sent \in Seq(Writes \cup {Handshake})
      /\ s.answers \in Seq(Writes \cup {Handshake, Refusal})
      /\ s.shaken \in BOOLEAN
  BY <1>1, ClientFields
<1> DEFINE la == Len(s.answers)
           ls == Len(s.sent)
           lp == Len(s.pipeline)
<1>3. la \in Nat /\ ls \in Nat /\ lp \in Nat
  BY <1>2, LenProperties
<1>4. la # 0
  BY <1>2, EmptySeq
<1>4a. lp # 0 => s.pipeline # <<>>
  BY <1>2, EmptySeq
<1>5. s.stream = "Open"
  BY <1>1 DEF Shaking
<1>6. ~s.shaken => s.answers = <<Handshake>> /\ s.sent = <<>>
  BY <1>1, <1>5 DEF Shaking
<1>7. Head(s.answers) = s.answers[1]
  BY <1>2, HeadTailProperties
<1>8. s.shaken => la + ls = lp
  BY <1>1 DEF Matched
<1>9. \A i \in 1..lp : s.pipeline[i] \in m
  BY <1>1 DEF InLine
<1>10. s.shaken => \A i \in 1..la :
              \/ s.answers[i] = s.pipeline[i].write
              \/ /\ i = la /\ s.answers[i] = Refusal
                 /\ s.pipeline[i].write \in R
  BY <1>1 DEF Matched
<1>11. \A i \in 1..lp : s.pipeline[i] \in Batch
  BY <1>2, ElementOfSeq
<1> HIDE DEF la, ls, lp
<1>12. 1 \in 1..la
  BY <1>3, <1>4
<1>13. s.shaken => 1 \in 1..lp /\ lp # 0
  BY <1>3, <1>4, <1>8
<1>14. s.shaken => Head(s.pipeline) = s.pipeline[1]
  BY <1>2, <1>4a, <1>13, HeadTailProperties
<1>15. s.shaken =>
          \/ s.answers[1] = s.pipeline[1].write
          \/ la = 1 /\ s.answers[1] = Refusal /\ s.pipeline[1].write \in R
  BY <1>10, <1>12
<1>16. s.shaken => s.pipeline[1].write \in Writes
  BY <1>11, <1>13 DEF Batch
<1>17. s.shaken => s.answers[1] # Handshake
  BY <1>15, <1>16, Distinct
<1>18. ~s.shaken => s.answers[1] = Handshake
  BY <1>6
<1> QED BY <1>3, <1>4a, <1>5, <1>6, <1>7, <1>9, <1>11, <1>12, <1>13, <1>14, <1>15,
           <1>17, <1>18 DEF la, lp

\* What the first request is.
LEMMA FirstRequest ==
    ASSUME NEW m, NEW u, NEW s, NEW R, ClientOK(s, m, u, R), s.sent # <<>>
    PROVE  /\ s.stream = "Open" /\ Len(s.answers) \in Nat
           /\ s.shaken =>
                 /\ Len(s.answers) + 1 \in 1..Len(s.pipeline)
                 /\ s.pipeline[Len(s.answers) + 1] \in m
                 /\ Head(s.sent) = s.pipeline[Len(s.answers) + 1].write
                 /\ Head(s.sent) \in Writes
           /\ ~s.shaken => s.sent = <<Handshake>> /\ s.answers = <<>>
           /\ s.shaken <=> Head(s.sent) # Handshake
<1>1. /\ s \in Client /\ InLine(s.pipeline, m, u)
      /\ Matched(s, R) /\ Shaking(s)
  BY DEF ClientOK
<1>2. /\ s.pipeline \in Seq(Batch) /\ s.sent \in Seq(Writes \cup {Handshake})
      /\ s.answers \in Seq(Writes \cup {Handshake, Refusal})
      /\ s.shaken \in BOOLEAN
  BY <1>1, ClientFields
<1> DEFINE la == Len(s.answers)
           ls == Len(s.sent)
           lp == Len(s.pipeline)
<1>3. la \in Nat /\ ls \in Nat /\ lp \in Nat
  BY <1>2, LenProperties
<1>4. ls # 0
  BY <1>2, EmptySeq
<1>5. s.stream = "Open"
  BY <1>1 DEF Shaking
<1>6. ~s.shaken => s.sent = <<Handshake>> /\ s.answers = <<>>
  BY <1>1, <1>5 DEF Shaking
<1>7. Head(s.sent) = s.sent[1]
  BY <1>2, HeadTailProperties
<1>8. s.shaken => la + ls = lp
  BY <1>1 DEF Matched
<1>9. \A i \in 1..lp : s.pipeline[i] \in m
  BY <1>1 DEF InLine
<1>10. s.shaken => \A i \in 1..ls : s.sent[i] = s.pipeline[la + i].write
  BY <1>1 DEF Matched
<1>11. \A i \in 1..lp : s.pipeline[i] \in Batch
  BY <1>2, ElementOfSeq
<1> HIDE DEF la, ls, lp
<1>12. 1 \in 1..ls
  BY <1>3, <1>4
<1>13. s.shaken => la + 1 \in 1..lp
  BY <1>3, <1>4, <1>8
<1>14. s.shaken => s.sent[1] = s.pipeline[la + 1].write
  BY <1>10, <1>12
<1>15. s.shaken => s.pipeline[la + 1].write \in Writes
  BY <1>11, <1>13 DEF Batch
<1>16. s.shaken => s.sent[1] # Handshake
  BY <1>14, <1>15, Distinct
<1>17. ~s.shaken => s.sent[1] = Handshake
  BY <1>6
<1> QED BY <1>3, <1>5, <1>6, <1>7, <1>9, <1>13, <1>14, <1>15, <1>16, <1>17
           DEF la, lp

\* The client of ResumeStartWithCredentials.
Resumed(s, k) ==
    IF k # s.closes
    THEN [s EXCEPT !.credentials = @ \ {k}]
    ELSE [s EXCEPT !.credentials = @ \ {k}, !.stream = "Open",
                   !.sent = <<Handshake>>]

\* Credentials arrive.
LEMMA ResumeKeeps ==
    ASSUME NEW m, NEW u, NEW s, NEW R, ClientOK(s, m, u, R),
           NEW k \in s.credentials
    PROVE  LET t == Resumed(s, k) IN
           ClientOK(t, m, u, R) /\ t.shaken = s.shaken /\ t.answers = s.answers
<1> DEFINE x == [s EXCEPT !.credentials = @ \ {k}]
           y == [s EXCEPT !.credentials = @ \ {k}, !.stream = "Open",
                          !.sent = <<Handshake>>]
<1>1. /\ s \in Client /\ InLine(s.pipeline, m, u) /\ Len(s.pipeline) <= MaxPending
      /\ Matched(s, R) /\ Shaking(s) /\ Started(s) /\ Off(s)
  BY DEF ClientOK
<1>2. s.closes \in Nat /\ s.credentials \in SUBSET Nat /\ s.shaken \in BOOLEAN
  BY <1>1, ClientFields
<1>3. s.credentials \ {k} \in SUBSET Nat
  BY <1>2
<1>4. CASE k # s.closes
  <2>1. /\ x \in Client /\ x.pipeline = s.pipeline /\ x.stream = s.stream
        /\ x.shaken = s.shaken /\ x.idle = s.idle /\ x.sent = s.sent
        /\ x.answers = s.answers /\ x.closes = s.closes /\ x.enabled = s.enabled
        /\ x.credentials = s.credentials \ {k}
    BY <1>1, <1>3 DEF Client
  <2> HIDE DEF x
  <2>2. Matched(x, R) /\ Shaking(x) /\ Started(x) /\ Off(x)
    BY <1>1, <2>1 DEF Matched, Shaking, Started, IsStarted, Off
  <2>3. ClientOK(x, m, u, R)
    BY <1>1, <2>1, <2>2 DEF ClientOK
  <2> QED BY <1>4, <2>1, <2>3 DEF x, Resumed
<1>5. CASE k = s.closes
  <2>1. s.stream = "Starting"
    BY <1>1, <1>5 DEF Started
  <2>2. /\ s.sent = <<>> /\ s.answers = <<>> /\ ~s.shaken /\ ~s.idle
        /\ s.pipeline # <<>>
    BY <1>1, <2>1 DEF Shaking, Started, IsStarted
  <2>3. <<Handshake>> \in Seq(Writes \cup {Handshake})
    OBVIOUS
  <2>4. /\ y \in Client /\ y.pipeline = s.pipeline /\ y.stream = "Open"
        /\ y.shaken = s.shaken /\ y.idle = s.idle /\ y.sent = <<Handshake>>
        /\ y.answers = s.answers /\ y.closes = s.closes /\ y.enabled = s.enabled
        /\ y.credentials = s.credentials \ {k}
    BY <1>1, <1>3, <2>3 DEF Client
  <2> HIDE DEF y
  <2>5. Matched(y, R) /\ Shaking(y) /\ Off(y)
    BY <1>1, <2>2, <2>4 DEF Matched, Shaking, Off
  <2>6. Started(y)
    BY <1>1, <1>5, <2>2, <2>4 DEF Started
  <2>7. ClientOK(y, m, u, R)
    BY <1>1, <2>4, <2>5, <2>6 DEF ClientOK
  <2> QED BY <1>5, <2>4, <2>7 DEF y, Resumed
<1> QED BY <1>4, <1>5

\* The back-off is over.
LEMMA BackoffKeeps ==
    ASSUME NEW m, NEW u, NEW s, NEW R, ClientOK(s, m, u, R), s.stream = "Backoff"
    PROVE  LET t == Start([s EXCEPT !.stream = "Initial"]) IN
           ClientOK(t, m, u, R) /\ t.shaken = s.shaken /\ t.answers = s.answers
<1> DEFINE x == [s EXCEPT !.stream = "Initial"]
           y == [x EXCEPT !.stream = "Starting", !.credentials = @ \cup {x.closes}]
<1>1. /\ s \in Client /\ InLine(s.pipeline, m, u) /\ Len(s.pipeline) <= MaxPending
      /\ Matched(s, R) /\ Shaking(s) /\ Started(s) /\ Off(s)
  BY DEF ClientOK
<1>2. s.closes \in Nat /\ s.credentials \in SUBSET Nat /\ s.shaken \in BOOLEAN
  BY <1>1, ClientFields
<1>3. /\ x \in Client /\ x.pipeline = s.pipeline /\ x.stream = "Initial"
      /\ x.shaken = s.shaken /\ x.idle = s.idle /\ x.sent = s.sent
      /\ x.answers = s.answers /\ x.closes = s.closes /\ x.enabled = s.enabled
      /\ x.credentials = s.credentials
  BY <1>1 DEF Client
<1>4. Start(x) = y
  BY <1>3 DEF Start
<1> HIDE DEF x
<1>5. /\ y \in Client /\ y.pipeline = s.pipeline /\ y.stream = "Starting"
      /\ y.shaken = s.shaken /\ y.idle = s.idle /\ y.sent = s.sent
      /\ y.answers = s.answers /\ y.closes = s.closes /\ y.enabled = s.enabled
      /\ y.credentials = s.credentials \cup {s.closes}
  <2>1. x.credentials \cup {x.closes} \in SUBSET Nat
    BY <1>2, <1>3
  <2> QED BY <1>3, <2>1 DEF Client
<1> HIDE DEF y
<1>6. s.sent = <<>> /\ s.answers = <<>> /\ ~s.shaken /\ ~s.idle /\ s.pipeline # <<>>
  BY <1>1 DEF Shaking, Started, IsStarted
<1>7. Matched(y, R) /\ Shaking(y) /\ Off(y)
  BY <1>1, <1>3, <1>5, <1>6 DEF Matched, Shaking, Off
<1>8. Started(y)
  <2>1. \A k \in y.credentials : k <= y.closes
    BY <1>1, <1>2, <1>5 DEF Started
  <2> QED BY <1>5, <1>6, <2>1 DEF Started
<1>9. ClientOK(y, m, u, R)
  BY <1>1, <1>5, <1>7, <1>8 DEF ClientOK
<1> QED BY <1>4, <1>5, <1>9 DEF x

\* The handshake is complete, and the pipeline is sent.
LEMMA HandshakeKeeps ==
    ASSUME NEW m, NEW u, NEW s, NEW R, ClientOK(s, m, u, R),
           s.answers # <<>>, Head(s.answers) = Handshake
    PROVE  LET t == [s EXCEPT !.answers = Tail(@), !.shaken = TRUE,
                              !.sent = @ \o WritesOf(s.pipeline),
                              !.idle = @ /\ s.pipeline = <<>>] IN
           /\ ClientOK(t, m, u, R) /\ t.answers = <<>>
           /\ s.answers = <<Handshake>>
<1> DEFINE t == [s EXCEPT !.answers = Tail(@), !.shaken = TRUE,
                          !.sent = @ \o WritesOf(s.pipeline),
                          !.idle = @ /\ s.pipeline = <<>>]
           w == WritesOf(s.pipeline)
<1>1. /\ s \in Client /\ InLine(s.pipeline, m, u) /\ Len(s.pipeline) <= MaxPending
      /\ Started(s) /\ Off(s)
  BY DEF ClientOK
<1>2. ~s.shaken /\ s.answers = <<Handshake>> /\ s.sent = <<>> /\ s.stream = "Open"
  BY FirstAnswer
<1>3. s.pipeline \in Seq(Batch) /\ s.idle \in BOOLEAN
  BY <1>1, ClientFields
<1>4. /\ w \in Seq(Writes \cup {Handshake}) /\ Len(w) = Len(s.pipeline)
      /\ \A i \in 1..Len(s.pipeline) : w[i] = s.pipeline[i].write
  BY <1>3, WritesOfSeq, SeqMonotonic
<1>5. s.sent \o w = w
  BY <1>2, <1>4, ConcatEmptySeq
<1>6. Tail(s.answers) = <<>>
  BY <1>2
<1>7. ~s.idle
  BY <1>1, <1>2 DEF Started
<1> DEFINE x == [s EXCEPT !.answers = <<>>, !.shaken = TRUE, !.sent = w,
                          !.idle = FALSE]
<1>8. (s.idle /\ s.pipeline = <<>>) = FALSE
  BY <1>7
<1>9. t = x
  BY <1>5, <1>6, <1>8
<1> HIDE DEF w
<1>10. /\ x \in Client /\ x.pipeline = s.pipeline /\ x.stream = s.stream
       /\ x.shaken = TRUE /\ x.idle = FALSE /\ x.sent = w /\ x.answers = <<>>
       /\ x.closes = s.closes /\ x.enabled = s.enabled
       /\ x.credentials = s.credentials
  <2>1. w \in Seq(Writes \cup {Handshake}) /\ \A S : <<>> \in Seq(S)
    BY <1>4
  <2> QED BY <1>1, <2>1 DEF Client
<1> HIDE DEF x
<1>11. Matched(x, R)
  <2>1. Len(s.pipeline) \in Nat
    BY <1>3, LenProperties
  <2>2. Len(x.answers) = 0 /\ Len(x.sent) = Len(x.pipeline)
    BY <1>4, <1>10
  <2>3. Len(x.answers) + Len(x.sent) = Len(x.pipeline)
    BY <1>10, <2>1, <2>2
  <2>4. \A i \in 1..Len(x.sent) : x.sent[i] = x.pipeline[Len(x.answers) + i].write
    <3>1. \A i \in 1..Len(x.sent) : i \in Nat /\ 0 + i = i
      OBVIOUS
    <3>2. \A i \in 1..Len(x.sent) : x.sent[i] = x.pipeline[i].write
      BY <1>4, <1>10
    <3> QED BY <2>2, <3>1, <3>2
  <2>5. 1..Len(x.answers) = {}
    BY <2>2
  <2> QED BY <2>3, <2>4, <2>5 DEF Matched
<1>12. Shaking(x) /\ Off(x)
  BY <1>1, <1>2, <1>10 DEF Shaking, Off
<1>13. Started(x)
  BY <1>1, <1>2, <1>10 DEF Started
<1>14. ClientOK(x, m, u, R)
  BY <1>1, <1>10, <1>11, <1>12, <1>13 DEF ClientOK
<1> QED BY <1>2, <1>9, <1>10, <1>14

\* An answer is taken for the head of the pipeline, as it is.
LEMMA ResultKeeps ==
    ASSUME NEW m \in SUBSET Batch, Ordered(m), NEW u, NEW s, NEW R,
           ClientOK(s, m, u, R), s.answers # <<>>, Head(s.answers) \in Writes
    PROVE  LET t == [s EXCEPT !.answers = Tail(@), !.pipeline = Tail(@)] IN
           /\ ClientOK(t, Without(m, u, s.pipeline[1].id), u, R)
           /\ t.answers = Tail(s.answers) /\ t.shaken = s.shaken
<1> DEFINE t == [s EXCEPT !.answers = Tail(@), !.pipeline = Tail(@)]
           p == s.pipeline
           a == s.answers
           r == s.sent
           la == Len(a)
           lr == Len(r)
           lp == Len(p)
<1>1. /\ s \in Client /\ InLine(p, m, u) /\ Len(p) <= MaxPending
      /\ Started(s) /\ Matched(s, R) /\ Off(s)
  BY DEF ClientOK
<1>2. s.shaken /\ s.stream = "Open" /\ p # <<>>
  BY FirstAnswer, Distinct
<1>3. /\ p \in Seq(Batch) /\ a \in Seq(Writes \cup {Handshake, Refusal})
      /\ r \in Seq(Writes \cup {Handshake})
  BY <1>1, ClientFields
<1>4. /\ Tail(p) \in Seq(Batch) /\ Len(Tail(p)) = lp - 1
      /\ \A i \in 1..(lp - 1) : Tail(p)[i] = p[i + 1]
      /\ InLine(Tail(p), Without(m, u, p[1].id), u)
  BY <1>1, <1>2, <1>3, LineShrinks
<1>5. /\ Tail(a) \in Seq(Writes \cup {Handshake, Refusal}) /\ Len(Tail(a)) = la - 1
      /\ \A i \in 1..(la - 1) : Tail(a)[i] = a[i + 1]
  BY <1>3, HeadTailProperties
<1>6. la \in Nat /\ lr \in Nat /\ lp \in Nat /\ la # 0 /\ MaxPending \in Nat
  BY <1>3, LenProperties, EmptySeq, WritesAssumption
<1>7. /\ la + lr = lp
      /\ \A i \in 1..la :
            a[i] = p[i].write \/ (i = la /\ a[i] = Refusal /\ p[i].write \in R)
      /\ \A i \in 1..lr : r[i] = p[la + i].write
  BY <1>1, <1>2 DEF Matched
<1>8. /\ t \in Client /\ t.pipeline = Tail(p) /\ t.answers = Tail(a)
      /\ t.sent = r /\ t.stream = s.stream /\ t.shaken = s.shaken
      /\ t.idle = s.idle /\ t.closes = s.closes /\ t.enabled = s.enabled
      /\ t.credentials = s.credentials
  BY <1>1, <1>4, <1>5 DEF Client
<1>9. lp <= MaxPending
  BY <1>1
<1>10. ~s.idle
  BY <1>1, <1>2 DEF Started
<1> DEFINE q == Tail(p)
           b == Tail(a)
<1> HIDE DEF t, lp, la, lr
<1>11. /\ Len(b) = la - 1 /\ Len(q) = lp - 1 /\ Len(r) = lr
       /\ Len(b) + Len(r) = Len(q) /\ Len(q) <= MaxPending
  <2>1. Len(b) = la - 1 /\ Len(q) = lp - 1 /\ Len(r) = lr
    BY <1>4, <1>5 DEF lr
  <2> HIDE DEF b, q, r
  <2> QED BY <1>6, <1>7, <1>9, <2>1
<1>12. ASSUME NEW i \in 1..(la - 1)
       PROVE  b[i] = q[i].write \/ (i = la - 1 /\ b[i] = Refusal /\ q[i].write \in R)
  <2>1. i \in 1..(lp - 1) /\ i + 1 \in 1..la
    BY <1>6, <1>7
  <2>2. b[i] = a[i + 1] /\ q[i] = p[i + 1]
    BY <1>4, <1>5, <2>1
  <2>3. i + 1 = la => i = la - 1
    BY <1>6
  <2> QED BY <1>7, <2>1, <2>2, <2>3
<1>13. ASSUME NEW i \in 1..lr PROVE r[i] = q[(la - 1) + i].write
  <2>1. (la - 1) + i \in 1..(lp - 1) /\ ((la - 1) + i) + 1 = la + i
    BY <1>6, <1>7
  <2>2. q[(la - 1) + i] = p[la + i]
    BY <1>4, <2>1
  <2> QED BY <1>7, <2>2
<1>14. Matched(t, R)
  <2>1. /\ Len(b) + Len(r) = Len(q)
        /\ \A i \in 1..Len(b) :
              b[i] = q[i].write \/ (i = Len(b) /\ b[i] = Refusal /\ q[i].write \in R)
        /\ \A i \in 1..Len(r) : r[i] = q[Len(b) + i].write
    BY <1>11, <1>12, <1>13
  <2>2. t.pipeline = q /\ t.answers = b /\ t.sent = r
    BY <1>8
  <2> HIDE DEF b, q, r
  <2> QED BY <2>1, <2>2 DEF Matched
<1>15. Shaking(t) /\ Started(t) /\ Off(t)
  BY <1>1, <1>2, <1>8, <1>10 DEF Shaking, Started, Off
<1>16. ClientOK(t, Without(m, u, p[1].id), u, R)
  <2>1. Len(t.pipeline) <= MaxPending
    BY <1>8, <1>11
  <2> QED BY <1>4, <1>8, <1>14, <1>15, <2>1 DEF ClientOK
<1> QED BY <1>8, <1>16 DEF t

\* Answer v is one to the first request of client s, of a write in Q when it
\* refuses it.
Answers(s, v, Q) ==
    /\ s.sent # <<>> /\ Refusal \notin ToSet(s.answers)
    /\ v = Head(s.sent) \/ (v = Refusal /\ Head(s.sent) \in Q \cap Writes)

\* Client s with answer v to its first request.
Answering(s, v) == [s EXCEPT !.sent = Tail(@), !.answers = Append(@, v)]

\* The server answers the first request.
LEMMA ReplyKeeps ==
    ASSUME NEW m, NEW u, NEW s, NEW R, ClientOK(s, m, u, R),
           NEW Q, R \subseteq Q, NEW v, Answers(s, v, Q)
    PROVE  ClientOK(Answering(s, v), m, u, Q)
<1>0. /\ s.sent # <<>> /\ Refusal \notin ToSet(s.answers)
      /\ v = Head(s.sent) \/ (v = Refusal /\ Head(s.sent) \in Q \cap Writes)
  BY DEF Answers
<1> USE <1>0
<1> DEFINE t == Answering(s, v)
           p == s.pipeline
           a == s.answers
           r == s.sent
           b == Append(a, v)
           q == Tail(r)
           la == Len(a)
           lr == Len(r)
           lp == Len(p)
<1>1. /\ s \in Client /\ InLine(p, m, u) /\ Len(p) <= MaxPending
      /\ Started(s) /\ Matched(s, R) /\ Off(s)
  BY DEF ClientOK
<1>2. /\ s.stream = "Open"
      /\ s.shaken =>
            /\ la + 1 \in 1..lp
            /\ Head(r) = p[la + 1].write /\ Head(r) \in Writes
      /\ ~s.shaken => r = <<Handshake>> /\ a = <<>>
  BY FirstRequest
<1>3. /\ p \in Seq(Batch) /\ a \in Seq(Writes \cup {Handshake, Refusal})
      /\ r \in Seq(Writes \cup {Handshake}) /\ s.shaken \in BOOLEAN
  BY <1>1, ClientFields
<1>4. /\ q \in Seq(Writes \cup {Handshake}) /\ Len(q) = lr - 1
      /\ \A i \in 1..(lr - 1) : q[i] = r[i + 1]
      /\ Head(r) \in Writes \cup {Handshake}
  BY <1>3, HeadTailProperties
<1>5. v \in Writes \cup {Handshake, Refusal}
  BY <1>4
<1>6. /\ b \in Seq(Writes \cup {Handshake, Refusal}) /\ Len(b) = la + 1
      /\ \A i \in 1..la : b[i] = a[i]
      /\ b[la + 1] = v
  BY <1>3, <1>5, AppendProperties
<1>7. la \in Nat /\ lr \in Nat /\ lp \in Nat /\ lr # 0
  BY <1>3, LenProperties, EmptySeq
<1>8. /\ t \in Client /\ t.pipeline = p /\ t.answers = b
      /\ t.sent = q /\ t.stream = s.stream /\ t.shaken = s.shaken
      /\ t.idle = s.idle /\ t.closes = s.closes /\ t.enabled = s.enabled
      /\ t.credentials = s.credentials
  <2> HIDE DEF b, q
  <2>1. t = [s EXCEPT !.sent = q, !.answers = b]
    BY DEF b, q, Answering
  <2> HIDE DEF t
  <2> QED BY <1>1, <1>4, <1>6, <2>1 DEF Client
<1>9. \A i \in 1..la : a[i] # Refusal
  <2>1. \A i \in 1..la : a[i] \in ToSet(a)
    BY <1>3, LenProperties DEF ToSet
  <2> QED BY <2>1
<1>10. s.shaken =>
       /\ la + lr = lp
       /\ \A i \in 1..la :
             a[i] = p[i].write \/ (i = la /\ a[i] = Refusal /\ p[i].write \in R)
       /\ \A i \in 1..lr : r[i] = p[la + i].write
  BY <1>1 DEF Matched
<1> HIDE DEF t, lp, la, lr
<1>11. Matched(t, Q)
  <2>1. SUFFICES ASSUME s.shaken PROVE Matched(t, Q)
    BY <1>8 DEF Matched
  <2>2. Len(b) + Len(q) = lp
    <3>1. Len(b) = la + 1 /\ Len(q) = lr - 1
      BY <1>4, <1>6
    <3> HIDE DEF b, q
    <3> QED BY <1>7, <1>10, <2>1, <3>1
  <2>3. ASSUME NEW i \in 1..(la + 1)
        PROVE  \/ b[i] = p[i].write
               \/ i = la + 1 /\ b[i] = Refusal /\ p[i].write \in Q
    <3>1. CASE i \in 1..la
      BY <1>6, <1>9, <1>10, <2>1, <3>1
    <3>2. CASE i = la + 1
      BY <1>2, <1>6, <2>1, <3>2
    <3>3. i \in 1..la \/ i = la + 1
      BY <1>7
    <3> QED BY <3>1, <3>2, <3>3
  <2>4. ASSUME NEW i \in 1..(lr - 1) PROVE q[i] = p[(la + 1) + i].write
    <3>1. i + 1 \in 1..lr /\ la + (i + 1) = (la + 1) + i
      BY <1>7
    <3>2. r[i + 1] = p[la + (i + 1)].write
      BY <1>10, <2>1, <3>1
    <3>3. q[i] = r[i + 1]
      BY <1>4
    <3>4. p[la + (i + 1)] = p[(la + 1) + i]
      BY <3>1
    <3> HIDE DEF p, q, r
    <3> QED BY <3>2, <3>3, <3>4
  <2>5. /\ Len(b) + Len(q) = Len(p)
        /\ \A i \in 1..Len(b) :
              b[i] = p[i].write \/ (i = Len(b) /\ b[i] = Refusal /\ p[i].write \in Q)
        /\ \A i \in 1..Len(q) : q[i] = p[Len(b) + i].write
    BY <1>4, <1>6, <2>2, <2>3, <2>4 DEF lp
  <2>6. t.pipeline = p /\ t.answers = b /\ t.sent = q
    BY <1>8
  <2> HIDE DEF b, q, p
  <2> QED BY <2>5, <2>6 DEF Matched
<1>12. Shaking(t)
  <2>1. CASE s.shaken
    BY <1>2, <1>8, <2>1 DEF Shaking
  <2>2. CASE ~s.shaken
    <3>1. r = <<Handshake>> /\ a = <<>>
      BY <1>2, <2>2
    <3>2. Head(r) = Handshake /\ q = <<>>
      BY <3>1
    <3>3. v = Handshake
      BY <3>2, Distinct
    <3>4. b = <<Handshake>>
      BY <3>1, <3>3
    <3> HIDE DEF b, q, r, a
    <3> QED BY <1>2, <1>8, <3>2, <3>4 DEF Shaking
  <2> QED BY <1>3, <2>1, <2>2
<1>13. Started(t) /\ Off(t)
  BY <1>1, <1>8 DEF Started, IsStarted, Off
<1>14. ClientOK(t, m, u, Q)
  BY <1>1, <1>8, <1>11, <1>12, <1>13 DEF ClientOK
<1> QED BY <1>14 DEF t

\* A part of an ordered set of batches is ordered.
LEMMA OrderedSubset ==
    ASSUME NEW m, Ordered(m), NEW n \in SUBSET m
    PROVE  Ordered(n)
BY FS_Subset DEF Ordered

\* A batch with a new id for a new write.
LEMMA OrderedAdd ==
    ASSUME NEW m \in SUBSET Batch, Ordered(m), NEW b \in Batch,
           \A a \in m : a.id < b.id /\ a.write < b.write
    PROVE  Ordered(m \cup {b})
<1>1. IsFiniteSet(m \cup {b})
  BY FS_AddElement DEF Ordered
<1>2. \A a \in m \cup {b} : a.id \in Nat /\ a.write \in Nat
  BY WritesAssumption DEF Batch, Writes
<1>3. ASSUME NEW x \in m \cup {b}, NEW y \in m \cup {b}
      PROVE  /\ x.id = y.id => x = y
             /\ x.write = y.write => x = y
             /\ x.id < y.id => x.write < y.write
  <2>1. CASE x \in m /\ y \in m
    BY <2>1 DEF Ordered
  <2>2. CASE x = b /\ y = b
    BY <1>2, <2>2
  <2>3. CASE x = b /\ y \in m
    BY <1>2, <2>3
  <2>4. CASE x \in m /\ y = b
    BY <1>2, <2>4
  <2> QED BY <2>1, <2>2, <2>3, <2>4
<1> QED BY <1>1, <1>3 DEF Ordered

\* In an ordered set, ids are ordered like writes.
LEMMA OrderedBack ==
    ASSUME NEW m \in SUBSET Batch, Ordered(m), NEW a \in m, NEW b \in m,
           a.write < b.write
    PROVE  a.id < b.id
<1>1. /\ a.id \in Nat /\ b.id \in Nat /\ a.write \in Nat /\ b.write \in Nat
  BY WritesAssumption DEF Batch, Writes
<1>2. a.id # b.id
  BY <1>1 DEF Ordered
<1>3. ~(b.id < a.id)
  BY <1>1 DEF Ordered
<1> QED BY <1>1, <1>2, <1>3

\* The next id is past those of all batches.
LEMMA NextFresh ==
    ASSUME mutations \in SUBSET Batch, IsFiniteSet(mutations)
    PROVE  /\ LoadNextBatchIdFromDb \in Nat \ {0}
           /\ \A b \in mutations : b.id < LoadNextBatchIdFromDb
<1> DEFINE S == {b.id : b \in mutations} \cup {0}
           f == [x \in S |-> x]
<1>1. \A b \in mutations : b.id \in Nat
  BY DEF Batch
<1>2. S \subseteq Nat /\ S # {} /\ \A b \in mutations : b.id \in S
  BY <1>1
<1>3. IsFiniteSet(S)
  <2>1. IsFiniteSet({b.id : b \in mutations})
    <3> DEFINE g == [b \in mutations |-> b.id]
               T == {b.id : b \in mutations}
    <3>1. g \in Surjection(mutations, T)
      <4>1. g \in [mutations -> T]
        OBVIOUS
      <4>2. \A t \in T : \E b \in mutations : g[b] = t
        OBVIOUS
      <4> HIDE DEF g, T
      <4> QED BY <4>1, <4>2 DEF Surjection
    <3> HIDE DEF g, T
    <3>2. IsFiniteSet(T)
      BY <3>1, FS_Surjection
    <3> QED BY <3>2 DEF T
  <2> QED BY <2>1, FS_AddElement
<1>4. \A x \in S : f[x] = x /\ f[x] \in Int
  BY <1>2
<1>5. LoadNextBatchIdFromDb = Max(S) + 1
  BY DEF LoadNextBatchIdFromDb
<1> HIDE DEF S, f
<1>6. PICK z \in S : \A x \in S : f[x] <= f[z]
  BY <1>2, <1>3, <1>4, MaxExists
<1>7. \E x \in S : \A y \in S : x >= y
  BY <1>2, <1>4, <1>6
<1>8. Max(S) \in S /\ \A y \in S : Max(S) >= y
  BY <1>7 DEF Max
<1> HIDE DEF Max
<1> DEFINE k == Max(S)
<1>9. k \in Nat /\ \A y \in S : k >= y
  BY <1>2, <1>8
<1> HIDE DEF k
<1>10. k + 1 \in Nat \ {0} /\ \A y \in S : y < k + 1
  BY <1>2, <1>9
<1> QED BY <1>2, <1>5, <1>10 DEF k

-----------------------------------------------------------------------------
(***************************************************************************)
(* The inductive invariant.                                                *)
(***************************************************************************)

\* The server is done with write w.
Settled(w) == applied[w] > 0 \/ w \in refused

\* The answers to writes that the client s has not read.
Unread(s) == ToSet(s.answers) \cap Writes

\* Batches are numbered in the order of their writes.
Queues ==
    /\ Ordered(mutations) /\ Len(author) <= MaxWrites
    /\ \A b \in mutations : b.write \in 1..Len(author) /\ author[b.write] = b.user
    /\ alive => \A b \in mutations : b.id < next
    /\ callbacks \subseteq mutations

\* No stream outlives the app.
Dead == ~alive => c = NewClient

\* The server is done with a closed stream before the next one has shaken
\* hands, and gets the writes of the closed one in their order.
Lates ==
    /\ late # <<>> => c.shaken = FALSE /\ c.answers = <<>>
    /\ \A j \in 1..Len(late) :
          /\ late[j] \in Pending
          /\ \A v \in 1..(late[j] - 1) :
                author[v] = author[late[j]] =>
                    Settled(v) \/ \E i \in 1..(j - 1) : late[i] = v

\* An answer is for a write that was applied; a pending write that was applied
\* has its answer unread or lost.
Answered ==
    /\ \A w \in Unread(c) : applied[w] > 0
    /\ \A b \in mutations : applied[b.write] > 0 => b.write \in lost \cup Unread(c)

\* Of writes not yet made nothing is known, of pending ones no failure.
Fresh ==
    /\ \A w \in Writes : w > Len(author) => applied[w] = 0 /\ told[w] = "nothing"
    /\ \A b \in mutations : told[b.write] # "failed"

Inv ==
    /\ TypeOK /\ Queues /\ ClientOK(c, mutations, user, refused) /\ Dead
    /\ Lates /\ Answered /\ Fresh /\ NothingLost /\ OutcomeTold

\* What is known of the values of the variables.
LEMMA InvTypes ==
    ASSUME Inv
    PROVE  /\ mutations \in SUBSET Batch /\ Ordered(mutations)
           /\ Len(author) \in Nat /\ author \in Seq(Users)
           /\ applied \in [Writes -> Nat] /\ refused \in SUBSET Writes
           /\ late \in Seq(Writes) /\ Len(late) \in Nat
           /\ Writes \subseteq Nat \ {0}
           /\ \A b \in mutations : b.id \in Nat /\ b.write \in Writes
                                   /\ b.write \in Pending
           /\ \A w \in Pending : w \in Writes /\ w \in 1..Len(author)
           /\ \A w \in Pending : \E b \in mutations : b.write = w
<1>1. mutations \in SUBSET Batch /\ Ordered(mutations)
  BY DEF Inv, TypeOK, Queues
<1>2. \A b \in mutations : b.id \in Nat /\ b.write \in Writes
  BY <1>1 DEF Batch
<1>3. author \in Seq(Users) /\ applied \in [Writes -> Nat] /\ refused \in SUBSET Writes
      /\ late \in Seq(Writes)
  BY DEF Inv, TypeOK
<1>4. Len(author) \in Nat /\ Len(late) \in Nat
  BY <1>3, LenProperties
<1>5. Writes \subseteq Nat \ {0}
  BY WritesAssumption DEF Writes
<1>6. \A b \in mutations : b.write \in 1..Len(author)
  BY DEF Inv, Queues
<1> QED BY <1>1, <1>2, <1>3, <1>4, <1>5, <1>6 DEF Pending

\* The requests on the open stream are in order.
LEMMA InOrder ==
    ASSUME Inv, c.shaken, Refusal \notin ToSet(c.answers), NEW j \in 1..Len(c.sent)
    PROVE  /\ c.sent[j] \in Pending
           /\ \A v \in 1..(c.sent[j] - 1) :
                 author[v] = author[c.sent[j]] =>
                    Settled(v) \/ \E i \in 1..(j - 1) : c.sent[i] = v
<1> DEFINE p == c.pipeline
           la == Len(c.answers)
           ls == Len(c.sent)
           lp == Len(p)
           b == p[la + j]
<1>1. ClientOK(c, mutations, user, refused)
  BY DEF Inv
<1>2. c \in Client /\ InLine(p, mutations, user) /\ Matched(c, refused)
  BY <1>1 DEF ClientOK
<1>3. /\ c.pipeline \in Seq(Batch) /\ c.sent \in Seq(Writes \cup {Handshake})
      /\ c.answers \in Seq(Writes \cup {Handshake, Refusal})
  BY <1>2, ClientFields
<1>4. la \in Nat /\ ls \in Nat /\ lp \in Nat
  BY <1>3, LenProperties
<1>5. /\ la + ls = lp
      /\ \A i \in 1..la :
            c.answers[i] = p[i].write \/ c.answers[i] = Refusal
      /\ \A i \in 1..ls : c.sent[i] = p[la + i].write
  BY <1>2 DEF Matched
<1>6. \A i \in 1..la : c.answers[i] \in ToSet(c.answers)
  BY <1>3, LenProperties DEF ToSet
<1>7. \A i \in 1..lp : p[i] \in mutations /\ p[i].user = user
  BY <1>2 DEF InLine
<1>8. \A a \in mutations : \A i \in 1..lp :
         a.user = user /\ a.id < p[i].id => \E k \in 1..lp : k < i /\ p[k] = a
  BY <1>2 DEF InLine
<1>9. j \in 1..ls
  OBVIOUS
<1> HIDE DEF p, la, ls, lp
<1>10. la + j \in 1..lp
  BY <1>4, <1>5, <1>9
<1>11. b \in mutations /\ b.user = user /\ c.sent[j] = b.write
  BY <1>5, <1>7, <1>9, <1>10
<1> HIDE DEF b
<1>12. b.write \in Pending /\ b.write \in 1..Len(author) /\ author[b.write] = user
  BY <1>11 DEF Inv, Queues, Pending
<1>13. ASSUME NEW v \in 1..(b.write - 1), author[v] = user, ~Settled(v)
       PROVE  \E i \in 1..(j - 1) : c.sent[i] = v
  <2>1. v \in 1..Len(author) /\ v < b.write
    BY <1>12, InvTypes
  <2>2. v \in Pending
    BY <1>13, <2>1 DEF Inv, NothingLost, Settled
  <2>3. PICK a \in mutations : a.write = v
    BY <2>2, InvTypes
  <2>4. a.user = user
    BY <1>13, <2>3 DEF Inv, Queues
  <2>5. a.id < b.id
    BY <1>11, <2>1, <2>3, OrderedBack, InvTypes
  <2>6. PICK k \in 1..lp : k < la + j /\ p[k] = a
    <3>1. a.id < p[la + j].id
      BY <2>5 DEF b
    <3> QED BY <1>8, <1>10, <2>4, <3>1
  <2>7. CASE k \in 1..la
    <3>1. c.answers[k] = v /\ v \in Writes
      BY <1>5, <1>6, <2>3, <2>6, <2>7, InvTypes
    <3>2. v \in Unread(c)
      BY <1>6, <2>7, <3>1 DEF Unread
    <3>3. applied[v] > 0
      BY <3>2 DEF Inv, Answered
    <3> QED BY <1>13, <3>3 DEF Settled
  <2>8. CASE k \notin 1..la
    <3>1. k - la \in 1..ls /\ la + (k - la) = k /\ k - la \in 1..(j - 1)
      BY <1>4, <1>5, <1>9, <2>6, <2>8
    <3>2. c.sent[k - la] = p[la + (k - la)].write
      BY <1>5, <3>1
    <3>3. c.sent[k - la] = v
      BY <2>3, <2>6, <3>1, <3>2
    <3> QED BY <3>1, <3>3
  <2> QED BY <2>7, <2>8
<1> QED BY <1>11, <1>12, <1>13

\* A step that changes nothing but the client (and, with it, who is signed in
\* or whether the app runs).
LEMMA ClientStep ==
    ASSUME Inv, UNCHANGED <<mutations, callbacks, late, applied, refused, author,
                            lost, told>>,
           alive' \in BOOLEAN, user' \in Users, next' \in Nat \ {0},
           events' \in 0..MaxEvents,
           alive' => \A b \in mutations : b.id < next',
           alive', ClientOK(c', mutations, user', refused),
           Unread(c') = Unread(c),
           late # <<>> => c'.shaken = FALSE /\ c'.answers = <<>>
    PROVE  Inv'
<1>1. c' \in Client /\ Len(c'.pipeline) <= MaxPending
  BY DEF ClientOK
<1>2. TypeOK'
  BY <1>1 DEF Inv, TypeOK
<1>3. Queues'
  BY DEF Inv, Queues
<1>4. ClientOK(c, mutations, user, refused)'
  OBVIOUS
<1>5. Dead'
  BY DEF Dead
<1>6. Pending' = Pending /\ \A w : Settled(w)' <=> Settled(w)
  BY DEF Pending, Settled
<1>7. Lates'
  BY <1>6 DEF Inv, Lates
<1>8. Answered'
  BY DEF Inv, Answered
<1>9. Fresh'
  BY DEF Inv, Fresh
<1>10. NothingLost' /\ OutcomeTold'
  BY <1>6 DEF Inv, NothingLost, OutcomeTold
<1> QED BY <1>2, <1>3, <1>4, <1>5, <1>7, <1>8, <1>9, <1>10 DEF Inv

\* A step with which the stream ends: what was not read is lost, and what the
\* server has yet to handle is late.  Batches leave the queue only if the
\* server is done with them.
LEMMA StreamEnds ==
    ASSUME Inv, UNCHANGED <<author, applied, refused>>,
           lost' = lost \cup Unread(c),
           mutations' \subseteq mutations,
           \A b \in mutations : b \notin mutations' => Settled(b.write),
           callbacks' \subseteq callbacks, callbacks' \subseteq mutations',
           told' \in [Writes -> {"nothing", "ok", "failed"}],
           \A w \in Writes :
              \/ told'[w] = told[w]
              \/ told'[w] = "ok" /\ applied[w] > 0
              \/ /\ told'[w] = "failed" /\ w \in 1..Len(author)
                 /\ \A b \in mutations' : b.write # w
                 /\ w \in lost' \/ (w \in refused /\ applied[w] = 0),
           \/ late' = <<>>
           \/ late' = late /\ mutations' = mutations
           \/ /\ late' = c.sent /\ mutations' = mutations
              /\ c.shaken /\ Refusal \notin ToSet(c.answers),
           alive' \in BOOLEAN, user' \in Users, next' \in Nat \ {0},
           events' \in 0..MaxEvents,
           alive' => \A b \in mutations : b.id < next',
           ~alive' => c' = NewClient,
           ClientOK(c', mutations', user', refused),
           c'.shaken = FALSE, c'.answers = <<>>
    PROVE  Inv'
<1>1. c' \in Client /\ Len(c'.pipeline) <= MaxPending
  BY DEF ClientOK
<1>2. Unread(c) \subseteq Writes /\ Unread(c') = {}
  BY DEF Unread, ToSet
<1> DEFINE Turns(q) ==
              \A j \in 1..Len(q) :
                 /\ q[j] \in Pending /\ q[j] \in Writes
                 /\ \A v \in 1..(q[j] - 1) :
                       author[v] = author[q[j]] =>
                          Settled(v) \/ \E i \in 1..(j - 1) : q[i] = v
<1>2a. Turns(late')
  <2>0. \A w \in Pending : w \in Writes
    BY InvTypes
  <2>1. Turns(<<>>)
    OBVIOUS
  <2>2. Turns(late)
    BY <2>0 DEF Inv, Lates
  <2>3. ASSUME c.shaken, Refusal \notin ToSet(c.answers) PROVE Turns(c.sent)
    <3>1. ASSUME NEW j \in 1..Len(c.sent)
          PROVE  /\ c.sent[j] \in Pending
                 /\ \A v \in 1..(c.sent[j] - 1) :
                       author[v] = author[c.sent[j]] =>
                          Settled(v) \/ \E i \in 1..(j - 1) : c.sent[i] = v
      BY <2>3, InOrder
    <3> QED BY <2>0, <3>1
  <2> HIDE DEF Turns
  <2> QED BY <2>1, <2>2, <2>3
<1>2b. late' \in Seq(Writes)
  <2>1. CASE late' = <<>>
    BY <2>1
  <2>2. CASE late' = late
    BY <2>2, InvTypes
  <2>3. CASE late' = c.sent
    <3>1. c.sent \in Seq(Writes \cup {Handshake})
      BY ClientFields DEF Inv, ClientOK
    <3> QED BY <1>2a, <2>3, <3>1, LenProperties
  <2> QED BY <2>1, <2>2, <2>3
<1>3. TypeOK'
  BY <1>1, <1>2, <1>2b DEF Inv, TypeOK
<1>4. Ordered(mutations')
  BY InvTypes, OrderedSubset
<1>5. Queues'
  BY <1>4 DEF Inv, Queues
<1>6. ClientOK(c, mutations, user, refused)'
  OBVIOUS
<1>7. Dead'
  BY DEF Dead
<1>8. \A w : Settled(w)' <=> Settled(w)
  BY DEF Settled
<1>9. mutations' = mutations => Pending' = Pending
  BY DEF Pending
<1>10. Lates'
  <2>1. CASE late' = <<>>
    BY <2>1 DEF Lates
  <2>2. CASE late' # <<>>
    BY <1>2a, <1>8, <1>9, <2>2 DEF Lates
  <2> QED BY <2>1, <2>2
<1>11. Answered'
  BY <1>2 DEF Inv, Answered
<1>12. Fresh'
  <2>1. ASSUME NEW w \in Writes, w > Len(author)
        PROVE  applied'[w] = 0 /\ told'[w] = "nothing"
    <3>1. applied[w] = 0 /\ told[w] = "nothing" /\ w \notin 1..Len(author)
      BY <2>1, InvTypes DEF Inv, Fresh
    <3> QED BY <3>1
  <2>2. ASSUME NEW b \in mutations' PROVE told'[b.write] # "failed"
    <3>1. told[b.write] # "failed" /\ b.write \in Writes
      BY InvTypes DEF Inv, Fresh
    <3> QED BY <3>1
  <2> QED BY <2>1, <2>2 DEF Fresh
<1>13. NothingLost'
  <2>1. ASSUME NEW w \in 1..Len(author), ~Settled(w) PROVE w \in Pending'
    <3>1. w \in Pending
      BY <2>1 DEF Inv, NothingLost, Settled
    <3>2. PICK b \in mutations : b.write = w
      BY <3>1, InvTypes
    <3>3. b \in mutations'
      BY <2>1, <3>2
    <3> QED BY <3>2, <3>3 DEF Pending
  <2> QED BY <1>8, <2>1 DEF NothingLost, Settled
<1>14. OutcomeTold'
  <2>1. ASSUME NEW w \in Writes
        PROVE  /\ told'[w] = "ok" => applied'[w] > 0
               /\ told'[w] = "failed" /\ w \notin lost' =>
                     w \in refused' /\ applied'[w] = 0
    <3>1. /\ told[w] = "ok" => applied[w] > 0
          /\ told[w] = "failed" /\ w \notin lost =>
                w \in refused /\ applied[w] = 0
      BY DEF Inv, OutcomeTold
    <3> QED BY <3>1
  <2> QED BY <2>1 DEF OutcomeTold
<1> QED BY <1>3, <1>5, <1>6, <1>7, <1>10, <1>11, <1>12, <1>13, <1>14 DEF Inv

-----------------------------------------------------------------------------
(***************************************************************************)
(* The steps of the client.                                                *)
(***************************************************************************)

\* Launch: the client of an app that was not running.
LEMMA LaunchInv ==
    ASSUME Inv, Launch
    PROVE  Inv'
<1>1. c = NewClient /\ alive'
  BY DEF Inv, Dead, Launch
<1>2. ClientOK(NewClient, mutations, user, refused)
  BY NewClientOK
<1>3. mutations \in SUBSET Batch /\ Ordered(mutations)
  BY InvTypes
<1>4. /\ ClientOK(c', mutations, user, refused)
      /\ c'.answers = NewClient.answers /\ c'.shaken = NewClient.shaken
  BY <1>2, <1>3, EnableKeeps DEF Launch
<1>5. NewClient.answers = <<>> /\ NewClient.shaken = FALSE
  BY DEF NewClient
<1>6. Unread(c') = Unread(c)
  BY <1>1, <1>4 DEF Unread
<1>7. /\ next' \in Nat \ {0} /\ \A b \in mutations : b.id < next'
  BY <1>3, NextFresh DEF Launch, Ordered
<1>8. /\ UNCHANGED <<mutations, callbacks, late, applied, refused, author, lost, told>>
      /\ user' = user /\ events' = events
  BY DEF Launch, disk, server, history
<1>9. user' \in Users /\ events' \in 0..MaxEvents
  BY <1>8 DEF Inv, TypeOK
<1> QED BY <1>1, <1>4, <1>5, <1>6, <1>7, <1>8, <1>9, ClientStep

\* The steps of the client on its stream that nobody else notices.
LEMMA OnlyInv ==
    ASSUME Inv, NEW s, Only(s), ClientOK(s, mutations, user, refused),
           Unread(s) = Unread(c),
           late # <<>> => s.shaken = FALSE /\ s.answers = <<>>
    PROVE  Inv'
<1>1. /\ c' = s /\ alive' /\ user' = user /\ next' = next /\ events' = events
      /\ UNCHANGED <<mutations, callbacks, late, applied, refused, author, lost, told>>
  BY DEF Only, disk, server, history
<1>2. alive
  BY DEF Only
<1>3. /\ user' \in Users /\ events' \in 0..MaxEvents /\ next' \in Nat \ {0}
      /\ alive' \in BOOLEAN
  BY <1>1 DEF Inv, TypeOK
<1>4. \A b \in mutations : b.id < next'
  BY <1>1, <1>2 DEF Inv, Queues
<1> QED BY <1>1, <1>3, <1>4, ClientStep

\* Enabling the network fills the pipeline and may start the stream.
LEMMA EnableNetworkInv ==
    ASSUME Inv, EnableNetwork
    PROVE  Inv'
<1> DEFINE s == EnableNetworkOf(c, mutations, user)
<1>1. Only(s)
  BY DEF EnableNetwork, Only
<1>2. ClientOK(c, mutations, user, refused)
  BY DEF Inv
<1>3. mutations \in SUBSET Batch /\ Ordered(mutations)
  BY InvTypes
<1>4. /\ ClientOK(s, mutations, user, refused)
      /\ s.answers = c.answers /\ s.shaken = c.shaken
  BY <1>2, <1>3, EnableKeeps
<1> HIDE DEF s
<1>5. Unread(s) = Unread(c)
  BY <1>4 DEF Unread
<1>6. late # <<>> => s.shaken = FALSE /\ s.answers = <<>>
  BY <1>4 DEF Inv, Lates
<1> QED BY <1>1, <1>4, <1>5, <1>6, OnlyInv

\* Credentials that arrive open the stream, or change nothing when it was
\* closed since they were asked for.
LEMMA ResumeStartWithCredentialsInv ==
    ASSUME Inv, NEW k \in c.credentials, ResumeStartWithCredentials(k)
    PROVE  Inv'
<1> DEFINE s == Resumed(c, k)
<1>1. Only(s)
  BY DEF ResumeStartWithCredentials, Resumed
<1>2. ClientOK(c, mutations, user, refused)
  BY DEF Inv
<1>3. /\ ClientOK(s, mutations, user, refused)
      /\ s.answers = c.answers /\ s.shaken = c.shaken
  BY <1>2, ResumeKeeps
<1> HIDE DEF s
<1>4. Unread(s) = Unread(c)
  BY <1>3 DEF Unread
<1>5. late # <<>> => s.shaken = FALSE /\ s.answers = <<>>
  BY <1>3 DEF Inv, Lates
<1> QED BY <1>1, <1>3, <1>4, <1>5, OnlyInv

\* The stream starts again after its backoff.
LEMMA BackoffElapsedInv ==
    ASSUME Inv, BackoffElapsed
    PROVE  Inv'
<1> DEFINE s == Start([c EXCEPT !.stream = "Initial"])
<1>1. Only(s) /\ c.stream = "Backoff"
  BY DEF BackoffElapsed
<1>2. ClientOK(c, mutations, user, refused)
  BY DEF Inv
<1>3. /\ ClientOK(s, mutations, user, refused)
      /\ s.answers = c.answers /\ s.shaken = c.shaken
  BY <1>1, <1>2, BackoffKeeps
<1> HIDE DEF s
<1>4. Unread(s) = Unread(c)
  BY <1>3 DEF Unread
<1>5. late # <<>> => s.shaken = FALSE /\ s.answers = <<>>
  BY <1>3 DEF Inv, Lates
<1> QED BY <1>1, <1>3, <1>4, <1>5, OnlyInv

\* An idle stream has no answers to lose.
LEMMA IdleTimeoutInv ==
    ASSUME Inv, IdleTimeout
    PROVE  Inv'
<1> DEFINE s == Stop(c)
<1>1. Only(s) /\ c.idle
  BY DEF IdleTimeout
<1>2. ClientOK(c, mutations, user, refused)
  BY DEF Inv
<1>3. ClientOK(s, mutations, user, refused) /\ s.shaken = FALSE /\ s.answers = <<>>
  BY <1>2, StopKeeps
<1> HIDE DEF s
<1>4. c.answers = <<>>
  <2>1. c.shaken /\ c.pipeline = <<>>
    BY <1>1, <1>2 DEF ClientOK, Started
  <2> QED BY <1>2, <2>1, FirstAnswer
<1>5. Unread(s) = Unread(c)
  BY <1>3, <1>4 DEF Unread
<1> QED BY <1>1, <1>3, <1>5, OnlyInv

\* After the handshake the whole pipeline is sent.
LEMMA OnWriteStreamHandshakeCompleteInv ==
    ASSUME Inv, OnWriteStreamHandshakeComplete
    PROVE  Inv'
<1> DEFINE s == [c EXCEPT !.answers = Tail(@), !.shaken = TRUE,
                          !.sent = @ \o WritesOf(c.pipeline),
                          !.idle = @ /\ c.pipeline = <<>>]
<1>1. Only(s) /\ c.answers # <<>> /\ Head(c.answers) = Handshake
  BY DEF OnWriteStreamHandshakeComplete
<1>2. ClientOK(c, mutations, user, refused)
  BY DEF Inv
<1>3. /\ ClientOK(s, mutations, user, refused) /\ s.answers = <<>>
      /\ c.answers = <<Handshake>>
  BY <1>1, <1>2, HandshakeKeeps
<1> HIDE DEF s
<1>4. ToSet(c.answers) = {Handshake} /\ ToSet(s.answers) = {}
  <2>1. ToSet(<<Handshake>>) = {Handshake} /\ ToSet(<<>>) = {}
    BY DEF ToSet
  <2> QED BY <1>3, <2>1
<1>5. Unread(s) = Unread(c)
  BY <1>4, Distinct DEF Unread
<1>6. late = <<>>
  BY <1>1 DEF Inv, Lates
<1> QED BY <1>1, <1>3, <1>5, <1>6, OnlyInv

\* Abandon, as StreamEnds wants it.
LEMMA Abandoned ==
    ASSUME Inv, Abandon
    PROVE  /\ lost' = lost \cup Unread(c) /\ UNCHANGED <<applied, refused>>
           /\ \/ late' = <<>> \/ late' = late
              \/ late' = c.sent /\ c.shaken /\ Refusal \notin ToSet(c.answers)
           /\ c.shaken /\ Refusal \in ToSet(c.answers) => late' = <<>>
BY DEF Abandon, Unread

\* An event is counted.
LEMMA Counted ==
    ASSUME Inv, Event
    PROVE  events' \in 0..MaxEvents
BY WritesAssumption DEF Inv, TypeOK, Event

\* The stream ends, and the queues are as before.
LEMMA AbandonInv ==
    ASSUME Inv, Abandon, Event, UNCHANGED <<mutations, callbacks, author, told>>,
           alive, alive' = alive, user' \in Users, next' \in Nat \ {0},
           \A b \in mutations : b.id < next',
           ClientOK(c', mutations, user', refused), c'.shaken = FALSE,
           c'.answers = <<>>
    PROVE  Inv'
<1>1. /\ lost' = lost \cup Unread(c) /\ UNCHANGED <<applied, refused>>
      /\ \/ late' = <<>> \/ late' = late
         \/ late' = c.sent /\ c.shaken /\ Refusal \notin ToSet(c.answers)
  BY Abandoned
<1>2. events' \in 0..MaxEvents
  BY Counted
<1>3. /\ callbacks \subseteq mutations
      /\ told' \in [Writes -> {"nothing", "ok", "failed"}]
      /\ alive' \in BOOLEAN
  BY DEF Inv, TypeOK, Queues
<1>4. ~alive' => c' = NewClient
  OBVIOUS
<1> QED BY <1>1, <1>2, <1>3, <1>4, StreamEnds

\* A change of connectivity restarts the network with a pipeline filled anew.
LEMMA ConnectivityChangeInv ==
    ASSUME Inv, ConnectivityChange
    PROVE  Inv'
<1>1. /\ Abandon /\ Event /\ UNCHANGED <<mutations, callbacks, author, told>>
      /\ alive /\ alive' = alive /\ user' = user /\ next' = next
      /\ c' = RestartNetwork(c, mutations, user)
  BY DEF ConnectivityChange, disk
<1>2. /\ user \in Users /\ next \in Nat \ {0} /\ \A b \in mutations : b.id < next
      /\ ClientOK(c, mutations, user, refused)
  BY <1>1 DEF Inv, TypeOK, Queues
<1>3. mutations \in SUBSET Batch /\ Ordered(mutations)
  BY InvTypes
<1>4. /\ ClientOK(c', mutations, user, refused) /\ c'.shaken = FALSE
      /\ c'.answers = <<>>
  BY <1>1, <1>2, <1>3, RestartKeeps
<1> QED BY <1>1, <1>2, <1>4, AbandonInv

\* Disabling the network empties the pipeline and not the queue.
LEMMA DisableNetworkInv ==
    ASSUME Inv, DisableNetwork
    PROVE  Inv'
<1>1. /\ Abandon /\ Event /\ UNCHANGED <<mutations, callbacks, author, told>>
      /\ alive /\ alive' = alive /\ user' = user /\ next' = next
      /\ c' = DisableNetworkInternal(c)
  BY DEF DisableNetwork, disk
<1>2. /\ user \in Users /\ next \in Nat \ {0} /\ \A b \in mutations : b.id < next
      /\ ClientOK(c, mutations, user, refused)
  BY <1>1 DEF Inv, TypeOK, Queues
<1>3. /\ ClientOK(c', mutations, user, refused) /\ c'.shaken = FALSE
      /\ c'.answers = <<>>
  BY <1>1, <1>2, DisableKeeps
<1> QED BY <1>1, <1>2, <1>3, AbandonInv

\* A stream that breaks leaves its requests to the server, and keeps the
\* pipeline for the next stream.
LEMMA OnStreamFinishInv ==
    ASSUME Inv, OnStreamFinish
    PROVE  Inv'
<1>1. /\ Abandon /\ Event /\ UNCHANGED <<mutations, callbacks, author, told>>
      /\ alive /\ alive' = alive /\ user' = user /\ next' = next
      /\ c' = CloseTransient([c EXCEPT !.credentials = @ \ {c.closes}])
  BY DEF OnStreamFinish, disk
<1>2. /\ user \in Users /\ next \in Nat \ {0} /\ \A b \in mutations : b.id < next
      /\ ClientOK(c, mutations, user, refused)
  BY <1>1 DEF Inv, TypeOK, Queues
<1>3. /\ ClientOK(c', mutations, user, refused) /\ c'.shaken = FALSE
      /\ c'.answers = <<>>
  BY <1>1, <1>2, CloseTransientKeeps
<1> QED BY <1>1, <1>2, <1>3, AbandonInv

\* Whoever signs in finds the pipeline empty or filled from their own queue.
LEMMA HandleCredentialChangeInv ==
    ASSUME Inv, NEW u \in Users, HandleCredentialChange(u)
    PROVE  Inv'
<1>1. /\ Event /\ UNCHANGED <<mutations, callbacks, author, told>>
      /\ alive /\ alive' = alive /\ user' = u /\ next' = LoadNextBatchIdFromDb
  BY DEF HandleCredentialChange, disk
<1>2. ClientOK(c, mutations, user, refused)
  BY DEF Inv
<1>3. mutations \in SUBSET Batch /\ Ordered(mutations) /\ IsFiniteSet(mutations)
  BY InvTypes DEF Ordered
<1>4. next' \in Nat \ {0} /\ \A b \in mutations : b.id < next'
  BY <1>1, <1>3, NextFresh
<1>5. CASE c.enabled /\ Abandon /\ c' = RestartNetwork(c, mutations, u)
  <2>1. /\ ClientOK(c', mutations, u, refused) /\ c'.shaken = FALSE
        /\ c'.answers = <<>>
    BY <1>2, <1>3, <1>5, RestartKeeps
  <2> QED BY <1>1, <1>4, <1>5, <2>1, AbandonInv
<1>6. CASE ~c.enabled /\ UNCHANGED <<c, server, lost>>
  <2>1. c.pipeline = <<>> /\ InLine(c.pipeline, mutations, u)
    BY <1>2, <1>6, EmptyLine DEF ClientOK, Off
  <2>2. ClientOK(c', mutations, u, refused)
    BY <1>2, <1>6, <2>1 DEF ClientOK
  <2>3. UNCHANGED <<c, late, applied, refused, lost>>
    BY <1>6 DEF server
  <2>4. events' \in 0..MaxEvents /\ alive' \in BOOLEAN
    BY <1>1, Counted DEF Inv, TypeOK
  <2>5. /\ Unread(c') = Unread(c)
        /\ late # <<>> => c'.shaken = FALSE /\ c'.answers = <<>>
    BY <2>3 DEF Inv, Lates
  <2> QED BY <1>1, <1>4, <2>2, <2>3, <2>4, <2>5, ClientStep
<1> QED BY <1>5, <1>6 DEF HandleCredentialChange

\* RemoveMutationBatch removes one batch.
LEMMA WithoutOne ==
    ASSUME NEW m, Ordered(m), NEW b \in m
    PROVE  Without(m, b.user, b.id) = m \ {b}
BY DEF Without, Ordered

\* NotifyUser tells of the one write of a batch.
LEMMA Notified ==
    ASSUME Inv, NEW b \in mutations, b.user = user, NEW s \in {"ok", "failed"},
           NotifyUser(b, s)
    PROVE  /\ callbacks' \subseteq callbacks /\ b \notin callbacks'
           /\ told' \in [Writes -> {"nothing", "ok", "failed"}]
           /\ \A w \in Writes : told'[w] = told[w] \/ (w = b.write /\ told'[w] = s)
<1> DEFINE called == {f \in callbacks : f.user = user /\ f.id = b.id}
<1>1. called \subseteq {b}
  BY DEF Inv, Queues, Ordered
<1>2. callbacks' = callbacks \ called
  BY DEF NotifyUser
<1>3. b \in callbacks => b \in called
  OBVIOUS
<1>4. told' = [w \in Writes |-> IF \E f \in called : f.write = w THEN s ELSE told[w]]
  BY DEF NotifyUser
<1>5. told \in [Writes -> {"nothing", "ok", "failed"}]
  BY DEF Inv, TypeOK
<1> HIDE DEF called
<1>6. told' \in [Writes -> {"nothing", "ok", "failed"}]
  BY <1>4, <1>5
<1>7. \A w \in Writes : told'[w] = told[w] \/ (w = b.write /\ told'[w] = s)
  BY <1>1, <1>4
<1> QED BY <1>2, <1>3, <1>6, <1>7

\* The batch that is rejected is in the queue, and the server is done with it,
\* although perhaps not because it refused it: the answer is then lost.
LEMMA Rejected ==
    ASSUME Inv, Rejecting
    PROVE  /\ c.shaken /\ Refusal \in ToSet(c.answers) /\ c.pipeline # <<>>
           /\ Head(c.pipeline) = c.pipeline[1]
           /\ c.pipeline[1] \in mutations /\ c.pipeline[1].user = user
           /\ Settled(c.pipeline[1].write)
           /\ \/ c.pipeline[1].write \in lost \cup Unread(c)
              \/ /\ c.pipeline[1].write \in refused
                 /\ applied[c.pipeline[1].write] = 0
<1> DEFINE b == c.pipeline[1]
<1>1. c.answers # <<>> /\ Last(c.answers) = Refusal
  BY DEF Rejecting
<1>2. ClientOK(c, mutations, user, refused)
  BY DEF Inv
<1>3. c.answers \in Seq(Writes \cup {Handshake, Refusal}) /\ c.shaken \in BOOLEAN
  BY <1>2, ClientFields DEF ClientOK
<1>4. \A i \in 1..Len(c.answers) : c.answers[i] \in ToSet(c.answers)
  BY <1>3, LenProperties DEF ToSet
<1>5. Len(c.answers) \in 1..Len(c.answers)
  BY <1>1, <1>3, LenProperties, EmptySeq
<1>6. Refusal \in ToSet(c.answers)
  BY <1>1, <1>4, <1>5 DEF Last
<1>7. c.shaken
  <2>1. ToSet(<<Handshake>>) = {Handshake}
    BY DEF ToSet
  <2>2. ~c.shaken => c.answers = <<Handshake>>
    BY <1>1, <1>2, FirstAnswer
  <2> QED BY <1>6, <2>1, <2>2, Distinct
<1>8. /\ c.pipeline # <<>> /\ b \in mutations /\ Head(c.pipeline) = b
      /\ 1 \in 1..Len(c.answers) /\ 1 \in 1..Len(c.pipeline)
      /\ \/ c.answers[1] = b.write
         \/ Len(c.answers) = 1 /\ c.answers[1] = Refusal /\ b.write \in refused
  BY <1>1, <1>2, <1>7, FirstAnswer
<1>9. b.user = user
  BY <1>2, <1>8 DEF ClientOK, InLine
<1>10. b.write \in Writes /\ applied[b.write] \in Nat
  BY <1>8, InvTypes
<1> HIDE DEF b
<1>11. CASE c.answers[1] = b.write
  <2>1. b.write \in Unread(c)
    BY <1>4, <1>8, <1>10, <1>11 DEF Unread
  <2>2. applied[b.write] > 0
    BY <2>1 DEF Inv, Answered
  <2> QED BY <1>6, <1>7, <1>8, <1>9, <2>1, <2>2 DEF Settled, b
<1>12. CASE b.write \in refused
  <2>1. applied[b.write] = 0 \/ applied[b.write] > 0
    BY <1>10
  <2>2. applied[b.write] > 0 => b.write \in lost \cup Unread(c)
    BY <1>8 DEF Inv, Answered
  <2> QED BY <1>6, <1>7, <1>8, <1>9, <1>12, <2>1, <2>2 DEF Settled, b
<1> QED BY <1>8, <1>11, <1>12

\* A killed app loses all but the queues on disk.
LEMMA KillInv ==
    ASSUME Inv, Kill
    PROVE  Inv'
<1>1. /\ Abandon /\ Event /\ alive' = FALSE /\ c' = NewClient /\ callbacks' = {}
      /\ user' = user /\ next' = next /\ author' = author
  BY DEF Kill
<1>2. /\ lost' = lost \cup Unread(c) /\ UNCHANGED <<applied, refused>>
      /\ \/ late' = <<>> \/ late' = late
         \/ late' = c.sent /\ c.shaken /\ Refusal \notin ToSet(c.answers)
      /\ c.shaken /\ Refusal \in ToSet(c.answers) => late' = <<>>
  BY <1>1, Abandoned
<1>3. events' \in 0..MaxEvents
  BY <1>1, Counted
<1>4. /\ user' \in Users /\ next' \in Nat \ {0}
      /\ told \in [Writes -> {"nothing", "ok", "failed"}]
  BY <1>1 DEF Inv, TypeOK
<1>5. /\ c'.shaken = FALSE /\ c'.answers = <<>>
      /\ \A m : ClientOK(c', m, user', refused)
  BY <1>1, NewClientOK DEF NewClient
<1>6. CASE UNCHANGED <<mutations, told>>
  <2>1. \A w \in Writes : told'[w] = told[w]
    BY <1>6
  <2> QED BY <1>1, <1>2, <1>3, <1>4, <1>5, <1>6, <2>1, StreamEnds
<1>7. CASE /\ c.answers # <<>> /\ Head(c.answers) \in Writes
           /\ told' = [w \in Writes |->
                         IF Head(c.pipeline) \in callbacks
                            /\ w = Head(c.pipeline).write
                         THEN "ok" ELSE told[w]]
           /\ UNCHANGED mutations
  <2>1. ClientOK(c, mutations, user, refused)
    BY DEF Inv
  <2>2. Head(c.answers) = Head(c.pipeline).write /\ Head(c.answers) = c.answers[1]
        /\ 1 \in 1..Len(c.answers)
    BY <1>7, <2>1, FirstAnswer, Distinct
  <2>3. Head(c.pipeline).write \in Unread(c)
    <3>1. c.answers \in Seq(Writes \cup {Handshake, Refusal})
      BY <2>1, ClientFields DEF ClientOK
    <3>2. c.answers[1] \in ToSet(c.answers)
      BY <2>2, <3>1, LenProperties DEF ToSet
    <3> QED BY <1>7, <2>2, <3>2 DEF Unread
  <2>4. applied[Head(c.pipeline).write] > 0
    BY <2>3 DEF Inv, Answered
  <2>5. told' \in [Writes -> {"nothing", "ok", "failed"}]
    BY <1>4, <1>7
  <2>6. \A w \in Writes : told'[w] = told[w] \/ (told'[w] = "ok" /\ applied[w] > 0)
    BY <1>7, <2>4
  <2> QED BY <1>1, <1>2, <1>3, <1>4, <1>5, <1>7, <2>5, <2>6, StreamEnds
<1>8. CASE /\ Rejecting
           /\ mutations' = Without(mutations, user, Head(c.pipeline).id)
           /\ UNCHANGED told
  <2> DEFINE b == c.pipeline[1]
  <2>1. /\ c.shaken /\ Refusal \in ToSet(c.answers) /\ Head(c.pipeline) = b
        /\ b \in mutations /\ b.user = user /\ Settled(b.write)
    BY <1>8, Rejected
  <2>2. late' = <<>>
    BY <1>2, <2>1
  <2>3. mutations' = mutations \ {b}
    BY <1>8, <2>1, WithoutOne, InvTypes
  <2> HIDE DEF b
  <2>4. /\ mutations' \subseteq mutations
        /\ \A a \in mutations : a \notin mutations' => Settled(a.write)
    BY <2>1, <2>3
  <2>5. \A w \in Writes : told'[w] = told[w]
    BY <1>8
  <2> QED BY <1>1, <1>2, <1>3, <1>4, <1>5, <1>8, <2>2, <2>4, <2>5, StreamEnds
<1> QED BY <1>6, <1>7, <1>8 DEF Kill

\* A refused write leaves pipeline and queue, and its callback is told.
LEMMA HandleWriteErrorInv ==
    ASSUME Inv, HandleWriteError
    PROVE  Inv'
<1> DEFINE b == c.pipeline[1]
<1>1. Rejecting /\ alive
  BY DEF HandleWriteError
<1>2. /\ c.shaken /\ c.pipeline # <<>> /\ Head(c.pipeline) = b
      /\ b \in mutations /\ b.user = user /\ Settled(b.write)
      /\ \/ b.write \in lost \cup Unread(c)
         \/ b.write \in refused /\ applied[b.write] = 0
  BY <1>1, Rejected
<1>3. /\ mutations' = Without(mutations, user, b.id) /\ NotifyUser(b, "failed")
      /\ c' = Errored(c, mutations', user)
      /\ lost' = lost \cup Unread(c)
      /\ UNCHANGED <<alive, user, next, author, events, late, applied, refused>>
  BY <1>2 DEF HandleWriteError, Unread, server, Errored
<1>4. mutations \in SUBSET Batch /\ Ordered(mutations)
  BY InvTypes
<1>5. mutations' = mutations \ {b}
  BY <1>2, <1>3, <1>4, WithoutOne
<1>6. mutations' \in SUBSET Batch /\ Ordered(mutations')
  BY <1>4, <1>5, OrderedSubset
<1>7. ClientOK(c, mutations, user, refused)
  BY DEF Inv
<1>8. /\ ClientOK(c', mutations', user, refused) /\ c'.shaken = FALSE
      /\ c'.answers = <<>>
  <2>1. c.pipeline # <<>> /\ mutations' = Without(mutations, user, c.pipeline[1].id)
    BY <1>2, <1>3
  <2> QED BY <1>3, <1>4, <1>6, <1>7, <2>1, ErrorKeeps
<1>9. late' = <<>>
  BY <1>2, <1>3 DEF Inv, Lates
<1>10. /\ callbacks' \subseteq callbacks /\ b \notin callbacks'
       /\ told' \in [Writes -> {"nothing", "ok", "failed"}]
       /\ \A w \in Writes :
             told'[w] = told[w] \/ (w = b.write /\ told'[w] = "failed")
  BY <1>2, <1>3, Notified
<1> HIDE DEF b
<1>11. /\ mutations' \subseteq mutations
       /\ \A a \in mutations : a \notin mutations' => Settled(a.write)
  BY <1>2, <1>5
<1>12. callbacks' \subseteq mutations'
  BY <1>5, <1>10 DEF Inv, Queues
<1>13. /\ \A a \in mutations' : a.write # b.write
       /\ b.write \in 1..Len(author)
       /\ b.write \in lost' \/ (b.write \in refused /\ applied[b.write] = 0)
  BY <1>2, <1>3, <1>4, <1>5 DEF Ordered, Inv, Queues
<1>14. /\ alive' \in BOOLEAN /\ user' \in Users /\ next' \in Nat \ {0}
       /\ events' \in 0..MaxEvents
       /\ \A a \in mutations : a.id < next'
       /\ alive'
  BY <1>1, <1>3 DEF Inv, TypeOK, Queues
<1>15. \A w \in Writes :
              \/ told'[w] = told[w]
              \/ /\ told'[w] = "failed" /\ w \in 1..Len(author)
                 /\ \A a \in mutations' : a.write # w
                 /\ w \in lost' \/ (w \in refused /\ applied[w] = 0)
  BY <1>10, <1>13
<1> QED BY <1>3, <1>8, <1>9, <1>10, <1>11, <1>12, <1>14, <1>15, StreamEnds

\* An answer for the head of the pipeline is for this very write.
LEMMA OnWriteStreamMutationResultInv ==
    ASSUME Inv, OnWriteStreamMutationResult
    PROVE  Inv'
<1> DEFINE b == c.pipeline[1]
           x == [c EXCEPT !.answers = Tail(@), !.pipeline = Tail(@)]
<1>1. alive /\ c.answers # <<>> /\ Head(c.answers) \in Writes
  BY DEF OnWriteStreamMutationResult
<1>2. ClientOK(c, mutations, user, refused)
  BY DEF Inv
<1>3. /\ c.shaken /\ c.pipeline # <<>> /\ Head(c.pipeline) = b
      /\ b \in mutations /\ 1 \in 1..Len(c.pipeline)
      /\ c.answers[1] = b.write /\ 1 \in 1..Len(c.answers)
  BY <1>1, <1>2, FirstAnswer, Distinct
<1>4. b.user = user
  BY <1>2, <1>3 DEF ClientOK, InLine
<1>5. /\ mutations' = Without(mutations, user, b.id) /\ NotifyUser(b, "ok")
      /\ c' = FillWritePipeline(x, mutations', user)
      /\ UNCHANGED <<alive, user, next, author, events, late, applied, refused, lost>>
  BY <1>3 DEF OnWriteStreamMutationResult, server
<1>6. mutations \in SUBSET Batch /\ Ordered(mutations)
  BY InvTypes
<1>7. mutations' = mutations \ {b}
  BY <1>3, <1>4, <1>5, <1>6, WithoutOne
<1>8. mutations' \in SUBSET Batch /\ Ordered(mutations')
  BY <1>6, <1>7, OrderedSubset
<1>9. /\ ClientOK(x, mutations', user, refused) /\ x.answers = Tail(c.answers)
  BY <1>1, <1>2, <1>5, <1>6, ResultKeeps
<1> HIDE DEF x
<1>10. ClientOK(c', mutations', user, refused) /\ c'.answers = Tail(c.answers)
  BY <1>5, <1>8, <1>9, FillKeeps
<1>11. late' = <<>>
  BY <1>3, <1>5 DEF Inv, Lates
<1>12. /\ callbacks' \subseteq callbacks /\ b \notin callbacks'
       /\ told' \in [Writes -> {"nothing", "ok", "failed"}]
       /\ \A w \in Writes : told'[w] = told[w] \/ (w = b.write /\ told'[w] = "ok")
  BY <1>3, <1>4, <1>5, Notified
<1> HIDE DEF b
<1>13. c.answers \in Seq(Writes \cup {Handshake, Refusal})
  BY <1>2, ClientFields DEF ClientOK
<1>14. /\ Unread(c') \subseteq Unread(c)
       /\ \A w \in Unread(c) : w # b.write => w \in Unread(c')
       /\ b.write \in Unread(c)
  <2> DEFINE a == c.answers
             t == Tail(a)
             n == Len(a)
  <2>1. /\ n \in Nat /\ n # 0 /\ t \in Seq(Writes \cup {Handshake, Refusal})
        /\ Len(t) = n - 1 /\ \A i \in 1..(n - 1) : t[i] = a[i + 1]
    BY <1>1, <1>13, LenProperties, EmptySeq, HeadTailProperties
  <2>2. DOMAIN a = 1..n /\ DOMAIN t = 1..(n - 1)
    BY <1>13, <2>1, LenProperties
  <2>3. ToSet(a) = {a[i] : i \in 1..n} /\ ToSet(t) = {t[i] : i \in 1..(n - 1)}
    BY <2>2 DEF ToSet
  <2> HIDE DEF a, t, n
  <2>4. \A i \in 1..(n - 1) : i + 1 \in 1..n
    BY <2>1
  <2>5. ToSet(t) \subseteq ToSet(a)
    BY <2>1, <2>3, <2>4
  <2>6. ASSUME NEW w \in ToSet(a), w # a[1] PROVE w \in ToSet(t)
    <3>1. PICK i \in 1..n : w = a[i]
      BY <2>3
    <3>2. i # 1
      BY <2>6, <3>1
    <3>3. i - 1 \in 1..(n - 1) /\ (i - 1) + 1 = i
      BY <2>1, <3>2
    <3>4. t[i - 1] = w
      BY <2>1, <3>1, <3>3
    <3> QED BY <2>3, <3>3, <3>4
  <2>7. a[1] \in ToSet(a)
    BY <1>3, <2>3 DEF n, a
  <2>8. a[1] = b.write
    BY <1>3 DEF a, b
  <2>9. b.write \in Writes
    BY <1>3, InvTypes
  <2>10. Unread(c) = ToSet(a) \cap Writes /\ Unread(c') = ToSet(t) \cap Writes
    BY <1>10 DEF Unread, a, t
  <2> QED BY <2>5, <2>6, <2>7, <2>8, <2>9, <2>10
<1>15. applied[b.write] > 0
  BY <1>14 DEF Inv, Answered
<1>16. \A a \in mutations' : a \in mutations /\ a.write # b.write
  BY <1>3, <1>6, <1>7 DEF Ordered
<1>17. TypeOK'
  <2>1. c' \in Client /\ Len(c'.pipeline) <= MaxPending
    BY <1>10 DEF ClientOK
  <2> QED BY <1>5, <1>8, <1>12, <2>1 DEF Inv, TypeOK
<1>18. Queues'
  BY <1>5, <1>7, <1>8, <1>12 DEF Inv, Queues
<1>19. ClientOK(c, mutations, user, refused)'
  BY <1>5, <1>10
<1>20. Dead'
  BY <1>1, <1>5 DEF Dead
<1>21. Lates'
  BY <1>11 DEF Lates
<1>22. Answered'
  BY <1>5, <1>14, <1>16 DEF Inv, Answered
<1>23. Fresh'
  <2>1. ASSUME NEW w \in Writes, w > Len(author)
        PROVE  applied'[w] = 0 /\ told'[w] = "nothing"
    <3>1. applied[w] = 0 /\ told[w] = "nothing"
      BY <2>1 DEF Inv, Fresh
    <3>2. w # b.write
      BY <1>15, <3>1
    <3> QED BY <1>5, <1>12, <3>1, <3>2
  <2>2. ASSUME NEW a \in mutations' PROVE told'[a.write] # "failed"
    <3>1. told[a.write] # "failed" /\ a.write \in Writes /\ a.write # b.write
      BY <1>16, InvTypes DEF Inv, Fresh
    <3> QED BY <1>12, <3>1
  <2> QED BY <1>5, <2>1, <2>2 DEF Fresh
<1>24. NothingLost'
  <2>1. ASSUME NEW w \in 1..Len(author), ~Settled(w) PROVE w \in Pending'
    <3>1. w \in Pending
      BY <2>1 DEF Inv, NothingLost, Settled
    <3>2. PICK a \in mutations : a.write = w
      BY <3>1, InvTypes
    <3>3. a # b
      BY <1>15, <2>1, <3>2 DEF Settled
    <3>4. a \in mutations'
      BY <1>7, <3>3
    <3> QED BY <3>2, <3>4 DEF Pending
  <2> QED BY <1>5, <2>1 DEF NothingLost, Settled
<1>25. OutcomeTold'
  <2>1. ASSUME NEW w \in Writes
        PROVE  /\ told'[w] = "ok" => applied[w] > 0
               /\ told'[w] = "failed" /\ w \notin lost =>
                     w \in refused /\ applied[w] = 0
    <3>1. /\ told[w] = "ok" => applied[w] > 0
          /\ told[w] = "failed" /\ w \notin lost =>
                w \in refused /\ applied[w] = 0
      BY DEF Inv, OutcomeTold
    <3> QED BY <1>12, <1>15, <3>1
  <2> QED BY <1>5, <2>1 DEF OutcomeTold
<1> QED BY <1>17, <1>18, <1>19, <1>20, <1>21, <1>22, <1>23, <1>24, <1>25 DEF Inv

\* A write is made: its batch comes last in the queue.
LEMMA WriteMutationsInv ==
    ASSUME Inv, WriteMutations
    PROVE  Inv'
<1> DEFINE w == Len(author) + 1
           b == [user |-> user, id |-> next, write |-> w]
<1>1. /\ alive /\ w \in Writes
      /\ mutations' = Without(mutations, user, next) \cup {b}
      /\ next' = next + 1 /\ callbacks' \subseteq callbacks \cup {b}
      /\ c' = FillWritePipeline(c, mutations', user)
      /\ author' = Append(author, user)
      /\ UNCHANGED <<alive, user, lost, told, events, late, applied, refused>>
  BY DEF WriteMutations, server
<1>2. /\ mutations \in SUBSET Batch /\ Ordered(mutations) /\ Len(author) \in Nat
      /\ author \in Seq(Users)
  BY InvTypes
<1>3. /\ next \in Nat \ {0} /\ user \in Users
      /\ \A a \in mutations : a.id < next /\ a.id \in Nat
      /\ \A a \in mutations : a.write \in 1..Len(author)
  BY <1>1, InvTypes DEF Inv, TypeOK, Queues
<1>4. b \in Batch /\ b.id = next /\ b.write = w /\ b.user = user
  BY <1>1, <1>3 DEF Batch
<1>5. mutations' = mutations \cup {b}
  <2>1. \A a \in mutations : a.id # next
    BY <1>3
  <2>2. Without(mutations, user, next) = mutations
    BY <2>1 DEF Without
  <2> QED BY <1>1, <2>2
<1>6. Len(author) + 1 = w
  OBVIOUS
<1> HIDE DEF w, b
<1>7. mutations' \in SUBSET Batch /\ Ordered(mutations')
  <2>1. \A a \in mutations : a.id < b.id /\ a.write < b.write
    BY <1>2, <1>3, <1>4, <1>6
  <2>2. Ordered(mutations \cup {b})
    BY <1>2, <1>4, <2>1, OrderedAdd
  <2> QED BY <1>2, <1>4, <1>5, <2>2
<1>8. ClientOK(c, mutations', user, refused)
  <2>1. ClientOK(c, mutations, user, refused)
    BY DEF Inv
  <2>2. InLine(c.pipeline, mutations', user)
    <3>1. InLine(c.pipeline, mutations, user)
      BY <2>1 DEF ClientOK
    <3>2. \A i \in 1..Len(c.pipeline) : c.pipeline[i] \in mutations
      BY <3>1 DEF InLine
    <3>3. \A i \in 1..Len(c.pipeline) : ~(b.id < c.pipeline[i].id)
      BY <1>3, <1>4, <3>2
    <3> QED BY <1>5, <3>1, <3>3 DEF InLine
  <2> QED BY <2>1, <2>2 DEF ClientOK
<1>9. /\ ClientOK(c', mutations', user, refused)
      /\ c'.answers = c.answers /\ c'.shaken = c.shaken
  BY <1>1, <1>7, <1>8, FillKeeps
<1>10. /\ author' \in Seq(Users) /\ Len(author') = w
       /\ \A i \in 1..Len(author) : author'[i] = author[i]
       /\ author'[w] = user
  BY <1>1, <1>2, <1>3, <1>6, AppendProperties
<1>11. Unread(c') = Unread(c)
  BY <1>9 DEF Unread
<1>12. /\ Pending' = Pending \cup {w} /\ \A v : Settled(v)' <=> Settled(v)
  BY <1>1, <1>4, <1>5 DEF Pending, Settled
<1>13. applied[w] = 0 /\ told[w] = "nothing"
  <2>1. w > Len(author)
    BY <1>2, <1>6
  <2> QED BY <1>1, <2>1 DEF Inv, Fresh
<1>14. TypeOK'
  <2>1. c' \in Client /\ Len(c'.pipeline) <= MaxPending
    BY <1>9 DEF ClientOK
  <2>2. callbacks' \subseteq Batch
    BY <1>1, <1>4 DEF Inv, TypeOK, Callback
  <2>3. next' \in Nat \ {0}
    BY <1>1, <1>3
  <2> QED BY <1>1, <1>7, <1>10, <2>1, <2>2, <2>3 DEF Inv, TypeOK, Callback
<1>15. Queues'
  <2>1. ASSUME NEW a \in mutations'
        PROVE  /\ a.write \in 1..Len(author') /\ author'[a.write] = a.user
               /\ a.id < next'
    <3>1. CASE a = b
      <4>1. w \in 1..w
        BY <1>2, <1>6
      <4>2. next < next + 1
        BY <1>3
      <4> QED BY <1>1, <1>4, <1>10, <3>1, <4>1, <4>2
    <3>2. CASE a \in mutations
      <4>1. a.write \in 1..Len(author) /\ author[a.write] = a.user
        BY <3>2 DEF Inv, Queues
      <4>2. a.write \in 1..w
        BY <1>2, <1>6, <4>1
      <4>3. a.id < next + 1
        BY <1>3, <3>2
      <4> QED BY <1>1, <1>10, <4>1, <4>2, <4>3
    <3> QED BY <1>5, <3>1, <3>2
  <2>2. callbacks' \subseteq mutations'
    BY <1>1, <1>5 DEF Inv, Queues
  <2>3. Len(author') <= MaxWrites
    BY <1>1, <1>10, WritesAssumption DEF Writes
  <2> QED BY <1>7, <2>1, <2>2, <2>3 DEF Queues
<1>16. ClientOK(c, mutations, user, refused)'
  BY <1>1, <1>9
<1>17. Dead'
  BY <1>1 DEF Dead
<1>18. Lates'
  <2>1. late # <<>> => c'.shaken = FALSE /\ c'.answers = <<>>
    BY <1>9 DEF Inv, Lates
  <2>2. ASSUME NEW j \in 1..Len(late)
        PROVE  /\ late[j] \in Pending'
               /\ \A v \in 1..(late[j] - 1) :
                    author'[v] = author'[late[j]] =>
                        Settled(v) \/ \E i \in 1..(j - 1) : late[i] = v
    <3>1. /\ late[j] \in Pending
          /\ \A v \in 1..(late[j] - 1) :
                author[v] = author[late[j]] =>
                    Settled(v) \/ \E i \in 1..(j - 1) : late[i] = v
      BY DEF Inv, Lates
    <3>2. late[j] \in 1..Len(author)
      BY <3>1, InvTypes
    <3>3. \A v \in 1..(late[j] - 1) : v \in 1..Len(author)
      BY <1>2, <3>2
    <3> QED BY <1>10, <1>12, <3>1, <3>2, <3>3
  <2> QED BY <1>1, <1>12, <2>1, <2>2 DEF Lates
<1>19. Answered'
  <2>1. \A a \in mutations' : a \in mutations \/ a.write = w
    BY <1>4, <1>5
  <2>2. ~(applied[w] > 0)
    BY <1>13
  <2> QED BY <1>1, <1>11, <2>1, <2>2 DEF Inv, Answered
<1>20. Fresh'
  <2>1. \A v \in Writes : v > w => v > Len(author)
    BY <1>2, <1>6, InvTypes
  <2>2. \A a \in mutations' : a \in mutations \/ a.write = w
    BY <1>4, <1>5
  <2> QED BY <1>1, <1>10, <1>13, <2>1, <2>2 DEF Inv, Fresh
<1>21. NothingLost'
  <2>1. ASSUME NEW v \in 1..w PROVE v \in Pending' \/ Settled(v)
    <3>1. v = w \/ v \in 1..Len(author)
      BY <1>2, <1>6
    <3> QED BY <1>12, <3>1 DEF Inv, NothingLost, Settled
  <2> QED BY <1>1, <1>10, <2>1 DEF NothingLost, Settled
<1>22. OutcomeTold'
  BY <1>1 DEF Inv, OutcomeTold
<1> QED BY <1>14, <1>15, <1>16, <1>17, <1>18, <1>19, <1>20, <1>21, <1>22 DEF Inv

\* A step of the server: writes that were pending take effect or are refused.
LEMMA ServerStep ==
    ASSUME Inv, UNCHANGED <<mutations, callbacks, alive, user, next, author, told,
                            events>>,
           applied' \in [Writes -> Nat], refused' \subseteq Writes,
           lost' \subseteq Writes, late' \in Seq(Writes),
           \A w \in Writes :
              \/ applied'[w] = applied[w]
              \/ w \in Pending /\ applied'[w] > 0 /\ w \in lost' \cup Unread(c'),
           refused \subseteq refused', lost \subseteq lost',
           Unread(c) \subseteq Unread(c'),
           \A w \in Unread(c') : w \in Unread(c) \/ applied'[w] > 0,
           ClientOK(c', mutations, user, refused'), ~alive => c' = c, Lates'
    PROVE  Inv'
<1>1. c' \in Client /\ Len(c'.pipeline) <= MaxPending
  BY DEF ClientOK
<1>2. TypeOK'
  BY <1>1 DEF Inv, TypeOK
<1>3. Queues'
  BY DEF Inv, Queues
<1>4. ClientOK(c, mutations, user, refused)'
  OBVIOUS
<1>5. Dead'
  BY DEF Inv, Dead
<1>6. Unread(c) \subseteq Writes /\ Unread(c') \subseteq Writes
  BY DEF Unread
<1>7. \A w \in Writes : applied[w] > 0 => applied'[w] > 0
  OBVIOUS
<1>8. Answered'
  <2>1. \A w \in Unread(c') : applied'[w] > 0
    BY <1>6, <1>7 DEF Inv, Answered
  <2>2. ASSUME NEW b \in mutations, applied'[b.write] > 0
        PROVE  b.write \in lost' \cup Unread(c')
    <3>1. b.write \in Writes
      BY InvTypes
    <3>2. applied[b.write] > 0 => b.write \in lost \cup Unread(c)
      BY DEF Inv, Answered
    <3> QED BY <2>2, <3>1, <3>2
  <2> QED BY <2>1, <2>2 DEF Answered
<1>9. \A w \in Pending : w \in Writes /\ ~(w > Len(author)) /\ told[w] # "failed"
  <2>1. ASSUME NEW w \in Pending PROVE told[w] # "failed"
    <3>1. PICK b \in mutations : b.write = w
      BY InvTypes
    <3> QED BY <3>1 DEF Inv, Fresh
  <2>2. \A w \in Pending : w \in Writes /\ ~(w > Len(author))
    BY InvTypes
  <2> QED BY <2>1, <2>2
<1>10. Fresh'
  BY <1>9 DEF Inv, Fresh
<1>11. NothingLost'
  <2>1. Pending' = Pending
    BY DEF Pending
  <2>2. ASSUME NEW w \in 1..Len(author)
        PROVE  w \in Pending \/ applied'[w] > 0 \/ w \in refused'
    <3>1. w \in Pending \/ applied[w] > 0 \/ w \in refused
      BY DEF Inv, NothingLost
    <3>3. w \in Writes
      BY InvTypes, WritesAssumption DEF Inv, Queues, Writes
    <3> QED BY <1>7, <3>1, <3>3
  <2> QED BY <2>1, <2>2 DEF NothingLost
<1>12. OutcomeTold'
  BY <1>7, <1>9 DEF Inv, OutcomeTold
<1> QED BY <1>2, <1>3, <1>4, <1>5, <1>8, <1>10, <1>11, <1>12 DEF Inv

-----------------------------------------------------------------------------
(***************************************************************************)
(* The steps of the server; the theorems.                                  *)
(***************************************************************************)

\* The items of an extended sequence.
LEMMA ToSetAppend ==
    ASSUME NEW S, NEW a \in Seq(S), NEW v \in S
    PROVE  ToSet(Append(a, v)) = ToSet(a) \cup {v}
<1> DEFINE b == Append(a, v)
           n == Len(a)
<1>1. /\ n \in Nat /\ b \in Seq(S) /\ Len(b) = n + 1
      /\ \A i \in 1..n : b[i] = a[i]
      /\ b[n + 1] = v
  BY LenProperties, AppendProperties
<1>2. DOMAIN a = 1..n /\ DOMAIN b = 1..(n + 1)
  BY <1>1, LenProperties
<1>3. ToSet(a) = {a[i] : i \in 1..n} /\ ToSet(b) = {b[i] : i \in 1..(n + 1)}
  BY <1>2 DEF ToSet
<1> HIDE DEF b, n
<1>4. \A i \in 1..(n + 1) : i \in 1..n \/ i = n + 1
  BY <1>1
<1>5. \A i \in 1..n : i \in 1..(n + 1)
  BY <1>1
<1>6. n + 1 \in 1..(n + 1)
  BY <1>1
<1>7. ToSet(b) \subseteq ToSet(a) \cup {v}
  BY <1>1, <1>3, <1>4
<1>8. ToSet(a) \cup {v} \subseteq ToSet(b)
  BY <1>1, <1>3, <1>5, <1>6
<1> QED BY <1>7, <1>8 DEF b

\* What an answer of the server changes of the client; Q are the refused
\* writes after it.
LEMMA Replied ==
    ASSUME Inv, Listening, NEW v, Reply(v), NEW Q, refused \subseteq Q,
           v = Head(c.sent) \/ (v = Refusal /\ Head(c.sent) \in Q \cap Writes)
    PROVE  /\ ClientOK(c', mutations, user, Q) /\ c'.shaken = c.shaken
           /\ Unread(c') = Unread(c) \cup ({v} \cap Writes) /\ alive
<1>1. ClientOK(c, mutations, user, refused)
  BY DEF Inv
<1>2. c.sent # <<>> /\ Refusal \notin ToSet(c.answers)
  BY DEF Listening
<1>3. c' = Answering(c, v)
  BY DEF Reply, Answering
<1>4. /\ ClientOK(c', mutations, user, Q) /\ c'.shaken = c.shaken
      /\ c'.answers = Append(c.answers, v)
  <2>1. Answers(c, v, Q)
    BY <1>2 DEF Answers
  <2>2. ClientOK(Answering(c, v), mutations, user, Q)
    BY <1>1, <2>1, ReplyKeeps
  <2>3. c \in Client
    BY <1>1 DEF ClientOK
  <2>4. c'.shaken = c.shaken /\ c'.answers = Append(c.answers, v)
    BY <2>3 DEF Reply, Client
  <2> QED BY <1>3, <2>2, <2>4
<1>5. /\ c.answers \in Seq(Writes \cup {Handshake, Refusal})
      /\ c.sent \in Seq(Writes \cup {Handshake})
  BY <1>1, ClientFields DEF ClientOK
<1>6. v \in Writes \cup {Handshake, Refusal}
  <2>1. Head(c.sent) \in Writes \cup {Handshake}
    BY <1>2, <1>5, HeadTailProperties
  <2> QED BY <2>1
<1>7. ToSet(Append(c.answers, v)) = ToSet(c.answers) \cup {v}
  BY <1>5, <1>6, ToSetAppend
<1>8. Unread(c') = Unread(c) \cup ({v} \cap Writes)
  BY <1>4, <1>7 DEF Unread
<1>9. alive
  <2>1. NewClient.sent = <<>>
    BY DEF NewClient
  <2> QED BY <1>2, <2>1 DEF Inv, Dead
<1> QED BY <1>4, <1>8, <1>9

\* The server answers the handshake, done with the closed stream.
LEMMA ShakeHandsInv ==
    ASSUME Inv, ShakeHands
    PROVE  Inv'
<1>1. /\ Listening /\ Head(c.sent) = Handshake /\ Reply(Handshake) /\ late' = <<>>
      /\ UNCHANGED <<mutations, callbacks, alive, user, next, author, told, events,
                     applied, refused, lost>>
  BY DEF ShakeHands, disk, history
<1>2. /\ ClientOK(c', mutations, user, refused)
      /\ Unread(c') = Unread(c) \cup ({Handshake} \cap Writes) /\ alive
  BY <1>1, Replied
<1>3. Unread(c') = Unread(c)
  BY <1>2, Distinct
<1>4. Lates'
  BY <1>1 DEF Lates
<1>5. /\ applied' \in [Writes -> Nat] /\ refused' \subseteq Writes
      /\ lost' \subseteq Writes /\ late' \in Seq(Writes)
  BY <1>1 DEF Inv, TypeOK
<1> QED BY <1>1, <1>2, <1>3, <1>4, <1>5, ServerStep

\* The write that the server handles is the first that it has not answered.
LEMMA FirstPending ==
    ASSUME Inv, Listening, Head(c.sent) \in Writes
    PROVE  /\ c.shaken /\ late = <<>> /\ Head(c.sent) \in Pending
           /\ \A v \in 1..(Head(c.sent) - 1) :
                 author[v] = author[Head(c.sent)] => Settled(v)
<1>1. ClientOK(c, mutations, user, refused)
  BY DEF Inv
<1>2. c.sent # <<>> /\ Refusal \notin ToSet(c.answers)
  BY DEF Listening
<1>3. c.shaken
  BY <1>1, <1>2, FirstRequest, Distinct
<1>4. c.sent \in Seq(Writes \cup {Handshake})
  BY <1>1, ClientFields DEF ClientOK
<1>5. 1 \in 1..Len(c.sent) /\ Head(c.sent) = c.sent[1]
  BY <1>2, <1>4, LenProperties, EmptySeq, HeadTailProperties
<1>6. /\ c.sent[1] \in Pending
      /\ \A v \in 1..(c.sent[1] - 1) :
            author[v] = author[c.sent[1]] =>
               Settled(v) \/ \E i \in 1..(1 - 1) : c.sent[i] = v
  BY <1>2, <1>3, <1>5, InOrder
<1>7. 1..(1 - 1) = {}
  OBVIOUS
<1>8. late = <<>>
  BY <1>3 DEF Inv, Lates
<1> QED BY <1>3, <1>5, <1>6, <1>7, <1>8

\* The server applies the first request.
LEMMA ApplyInv ==
    ASSUME Inv, Apply
    PROVE  Inv'
<1> DEFINE h == Head(c.sent)
<1>1. /\ Listening /\ h \in Writes /\ Reply(h)
      /\ applied' = [applied EXCEPT ![h] = @ + 1]
      /\ UNCHANGED <<mutations, callbacks, alive, user, next, author, told, events,
                     late, refused, lost>>
  BY DEF Apply, disk, history
<1>2. /\ ClientOK(c', mutations, user, refused)
      /\ Unread(c') = Unread(c) \cup ({h} \cap Writes) /\ alive
  BY <1>1, Replied
<1>3. late = <<>> /\ h \in Pending
  BY <1>1, FirstPending
<1> HIDE DEF h
<1>4. Lates'
  BY <1>1, <1>3 DEF Lates
<1>5. /\ refused' \subseteq Writes /\ lost' \subseteq Writes /\ late' \in Seq(Writes)
      /\ applied \in [Writes -> Nat]
  BY <1>1 DEF Inv, TypeOK
<1>6. /\ applied' \in [Writes -> Nat] /\ applied'[h] > 0
      /\ \A w \in Writes : w # h => applied'[w] = applied[w]
  BY <1>1, <1>5
<1>7. h \in Unread(c') /\ Unread(c) \subseteq Unread(c')
  BY <1>1, <1>2
<1>8. \A w \in Writes :
         \/ applied'[w] = applied[w]
         \/ w \in Pending /\ applied'[w] > 0 /\ w \in lost' \cup Unread(c')
  BY <1>3, <1>6, <1>7
<1>9. \A w \in Unread(c') : w \in Unread(c) \/ applied'[w] > 0
  BY <1>2, <1>6
<1> QED BY <1>1, <1>2, <1>4, <1>5, <1>6, <1>7, <1>8, <1>9, ServerStep

\* The server refuses the first request.
LEMMA RefuseInv ==
    ASSUME Inv, Refuse
    PROVE  Inv'
<1> DEFINE h == Head(c.sent)
<1>1. /\ Listening /\ h \in Writes /\ Reply(Refusal)
      /\ refused' = refused \cup {h}
      /\ UNCHANGED <<mutations, callbacks, alive, user, next, author, told, events,
                     late, applied, lost>>
  BY DEF Refuse, disk, history
<1>2. /\ ClientOK(c', mutations, user, refused')
      /\ Unread(c') = Unread(c) \cup ({Refusal} \cap Writes) /\ alive
  BY <1>1, Replied
<1>3. late = <<>>
  BY <1>1, FirstPending
<1> HIDE DEF h
<1>4. Lates'
  BY <1>1, <1>3 DEF Lates
<1>5. /\ refused' \subseteq Writes /\ lost' \subseteq Writes /\ late' \in Seq(Writes)
      /\ applied' \in [Writes -> Nat]
  BY <1>1 DEF Inv, TypeOK
<1>6. Unread(c') = Unread(c)
  BY <1>2, Distinct
<1> QED BY <1>1, <1>2, <1>4, <1>5, <1>6, ServerStep

\* The server handles a request of the closed stream, or drops those left.
LEMMA HandleLateInv ==
    ASSUME Inv, HandleLate
    PROVE  Inv'
<1>1. /\ late # <<>>
      /\ UNCHANGED <<mutations, callbacks, alive, user, next, c, author, told, events,
                     refused>>
  BY DEF HandleLate, disk, memory
<1>2. /\ late \in Seq(Writes) /\ refused' \subseteq Writes /\ lost \subseteq Writes
      /\ applied \in [Writes -> Nat]
  BY <1>1 DEF Inv, TypeOK
<1>3. ClientOK(c', mutations, user, refused')
  BY <1>1 DEF Inv
<1>4. Unread(c') = Unread(c)
  BY <1>1
<1>5. CASE late' = <<>> /\ UNCHANGED <<applied, lost>>
  <2>1. Lates'
    BY <1>5 DEF Lates
  <2>2. /\ applied' \in [Writes -> Nat] /\ lost' \subseteq Writes
        /\ late' \in Seq(Writes)
    BY <1>2, <1>5
  <2> QED BY <1>1, <1>2, <1>3, <1>4, <1>5, <2>1, <2>2, ServerStep
<1>6. CASE /\ applied' = [applied EXCEPT ![Head(late)] = @ + 1]
           /\ lost' = lost \cup {Head(late)}
           /\ late' = Tail(late)
  <2> DEFINE h == Head(late)
             n == Len(late)
             t == Tail(late)
  <2>1. n \in Nat /\ n # 0 /\ h = late[1] /\ h \in Writes
    BY <1>1, <1>2, LenProperties, EmptySeq, HeadTailProperties
  <2>2. /\ t \in Seq(Writes) /\ Len(t) = n - 1
        /\ \A i \in 1..(n - 1) : t[i] = late[i + 1]
    BY <1>1, <1>2, HeadTailProperties
  <2>3. /\ c.shaken = FALSE /\ c.answers = <<>>
        /\ \A j \in 1..n :
              /\ late[j] \in Pending
              /\ \A v \in 1..(late[j] - 1) :
                    author[v] = author[late[j]] =>
                        Settled(v) \/ \E i \in 1..(j - 1) : late[i] = v
    BY <1>1 DEF Inv, Lates
  <2>4. applied' = [applied EXCEPT ![h] = @ + 1] /\ lost' = lost \cup {h} /\ late' = t
    BY <1>6
  <2> HIDE DEF h, n, t
  <2>5. h \in Pending
    BY <2>1, <2>3
  <2>6. /\ applied' \in [Writes -> Nat] /\ applied'[h] > 0
        /\ \A w \in Writes : w # h => applied'[w] = applied[w]
    BY <1>2, <2>1, <2>4
  <2>7. \A w \in Writes : Settled(w) => Settled(w)'
    BY <1>1, <2>6 DEF Settled
  <2>8. ASSUME NEW j \in 1..(n - 1)
        PROVE  /\ t[j] \in Pending
               /\ \A v \in 1..(t[j] - 1) :
                     author[v] = author[t[j]] =>
                         Settled(v)' \/ \E i \in 1..(j - 1) : t[i] = v
    <3>1. j + 1 \in 1..n /\ t[j] = late[j + 1] /\ (j + 1) - 1 = j
      BY <2>1, <2>2
    <3>2. /\ t[j] \in Pending
          /\ \A v \in 1..(t[j] - 1) :
                author[v] = author[t[j]] =>
                    Settled(v) \/ \E i \in 1..j : late[i] = v
      BY <2>3, <3>1
    <3>3. \A v \in 1..(t[j] - 1) : v \in Writes
      <4>1. t[j] \in 1..MaxWrites /\ MaxWrites \in Nat
        BY <3>2, InvTypes, WritesAssumption DEF Writes
      <4> QED BY <4>1 DEF Writes
    <3>4. ASSUME NEW v, NEW i \in 1..j, late[i] = v, v # h
          PROVE  \E k \in 1..(j - 1) : t[k] = v
      <4>1. i # 1
        BY <2>1, <3>4
      <4>2. i - 1 \in 1..(j - 1) /\ i - 1 \in 1..(n - 1) /\ (i - 1) + 1 = i
        BY <2>1, <4>1
      <4>3. t[i - 1] = v
        BY <2>2, <3>4, <4>2
      <4> QED BY <4>2, <4>3
    <3>5. ASSUME NEW v \in 1..(t[j] - 1), author[v] = author[t[j]]
          PROVE  Settled(v)' \/ \E i \in 1..(j - 1) : t[i] = v
      <4>1. CASE v = h
        BY <2>6, <4>1 DEF Settled
      <4>2. CASE Settled(v)
        BY <2>7, <3>3, <4>2
      <4>3. CASE v # h /\ \E i \in 1..j : late[i] = v
        BY <3>4, <4>3
      <4> QED BY <3>2, <3>5, <4>1, <4>2, <4>3
    <3> QED BY <3>2, <3>5
  <2>9. Lates'
    <3>1. Pending' = Pending
      BY <1>1 DEF Pending
    <3> QED BY <1>1, <2>2, <2>3, <2>4, <2>8, <3>1 DEF Lates
  <2>10. /\ lost' \subseteq Writes /\ late' \in Seq(Writes)
    BY <1>2, <2>1, <2>2, <2>4
  <2>11. \A w \in Writes :
            \/ applied'[w] = applied[w]
            \/ w \in Pending /\ applied'[w] > 0 /\ w \in lost' \cup Unread(c')
    BY <2>4, <2>5, <2>6
  <2> QED BY <1>1, <1>2, <1>3, <1>4, <2>4, <2>6, <2>9, <2>10, <2>11, ServerStep
<1> QED BY <1>5, <1>6 DEF HandleLate

\* At first nothing is queued, and nothing known.
LEMMA InvInit == Init => Inv
<1>1. SUFFICES ASSUME Init PROVE Inv
  OBVIOUS
<1>2. /\ mutations = {} /\ callbacks = {} /\ alive = FALSE /\ user = FirstUser
      /\ next = 1 /\ c = NewClient /\ late = <<>> /\ author = <<>>
      /\ applied = [w \in Writes |-> 0] /\ refused = {} /\ lost = {}
      /\ told = [w \in Writes |-> "nothing"] /\ events = 0
  BY <1>1 DEF Init
<1>3. ClientOK(c, mutations, user, refused)
  BY <1>2, NewClientOK
<1>4. Len(author) = 0 /\ author \in Seq(Users) /\ late \in Seq(Writes) /\ Len(late) = 0
  BY <1>2
<1>5. /\ applied \in [Writes -> Nat] /\ \A w \in Writes : applied[w] = 0
      /\ told \in [Writes -> {"nothing", "ok", "failed"}]
      /\ \A w \in Writes : told[w] = "nothing"
  BY <1>2
<1>6. TypeOK
  <2>1. c \in Client /\ Len(c.pipeline) <= MaxPending
    BY <1>3 DEF ClientOK
  <2>2. events \in 0..MaxEvents /\ user \in Users
    BY <1>2, WritesAssumption
  <2>3. /\ mutations \subseteq Batch /\ callbacks \subseteq Callback
        /\ alive \in BOOLEAN /\ refused \subseteq Writes /\ lost \subseteq Writes
    BY <1>2
  <2>4. next \in Nat \ {0}
    BY <1>2
  <2> QED BY <1>4, <1>5, <2>1, <2>2, <2>3, <2>4 DEF TypeOK
<1>7. Queues
  BY <1>2, <1>4, FS_EmptySet, WritesAssumption DEF Queues, Ordered
<1>8. Unread(c) = {}
  BY <1>2 DEF NewClient, Unread, ToSet
<1>9. Dead /\ Lates /\ Answered /\ Fresh
  BY <1>2, <1>4, <1>5, <1>8 DEF Dead, Lates, Answered, Fresh
<1>10. NothingLost /\ OutcomeTold
  BY <1>4, <1>5 DEF NothingLost, OutcomeTold
<1> QED BY <1>3, <1>6, <1>7, <1>9, <1>10 DEF Inv

\* Every step of the app, its client and the server preserves the invariant.
LEMMA InvStep == Inv /\ [Next]_vars => Inv'
<1>1. SUFFICES ASSUME Inv, [Next]_vars PROVE Inv'
  OBVIOUS
<1>2. CASE Launch BY <1>1, <1>2, LaunchInv
<1>3. CASE WriteMutations BY <1>1, <1>3, WriteMutationsInv
<1>4. CASE ConnectivityChange BY <1>1, <1>4, ConnectivityChangeInv
<1>5. CASE DisableNetwork BY <1>1, <1>5, DisableNetworkInv
<1>6. CASE EnableNetwork BY <1>1, <1>6, EnableNetworkInv
<1>7. CASE Kill BY <1>1, <1>7, KillInv
<1>8. CASE \E u \in Users : HandleCredentialChange(u)
  BY <1>1, <1>8, HandleCredentialChangeInv
<1>9. CASE \E k \in c.credentials : ResumeStartWithCredentials(k)
  BY <1>1, <1>9, ResumeStartWithCredentialsInv
<1>10. CASE BackoffElapsed BY <1>1, <1>10, BackoffElapsedInv
<1>11. CASE IdleTimeout BY <1>1, <1>11, IdleTimeoutInv
<1>12. CASE OnWriteStreamHandshakeComplete
  BY <1>1, <1>12, OnWriteStreamHandshakeCompleteInv
<1>13. CASE OnWriteStreamMutationResult
  BY <1>1, <1>13, OnWriteStreamMutationResultInv
<1>14. CASE OnStreamFinish BY <1>1, <1>14, OnStreamFinishInv
<1>15. CASE HandleWriteError BY <1>1, <1>15, HandleWriteErrorInv
<1>16. CASE ShakeHands BY <1>1, <1>16, ShakeHandsInv
<1>17. CASE Apply BY <1>1, <1>17, ApplyInv
<1>18. CASE Refuse BY <1>1, <1>18, RefuseInv
<1>19. CASE HandleLate BY <1>1, <1>19, HandleLateInv
<1>20. CASE UNCHANGED vars
  <2>1. /\ UNCHANGED <<mutations, callbacks, alive, user, next, c, author, told,
                       events, late, applied, refused, lost>>
    BY <1>20 DEF vars, disk, memory, server, history
  <2>2. /\ ClientOK(c', mutations, user, refused') /\ Unread(c') = Unread(c)
        /\ applied' \in [Writes -> Nat] /\ refused' \subseteq Writes
        /\ lost' \subseteq Writes /\ late' \in Seq(Writes)
    BY <1>1, <2>1 DEF Inv, TypeOK
  <2>3. Lates'
    <3>1. Pending' = Pending /\ \A w : Settled(w)' <=> Settled(w)
      BY <2>1 DEF Pending, Settled
    <3> QED BY <1>1, <2>1, <3>1 DEF Inv, Lates
  <2> QED BY <1>1, <2>1, <2>2, <2>3, ServerStep
<1> QED BY <1>1, <1>2, <1>3, <1>4, <1>5, <1>6, <1>7, <1>8, <1>9, <1>10, <1>11,
           <1>12, <1>13, <1>14, <1>15, <1>16, <1>17, <1>18, <1>19, <1>20 DEF Next

\* The invariant holds in every reachable state.
LEMMA Invariance == Spec => []Inv
BY InvInit, InvStep, PTL DEF Spec

\* Every variable keeps its type, and the pipeline its bound.
THEOREM TypeCorrect == Spec => []TypeOK
<1>1. Inv => TypeOK
  BY DEF Inv
<1> QED BY <1>1, Invariance, PTL

\* A write of the app is in a mutation queue until the server has applied or
\* refused it, whatever breaks, restarts or signs in.
THEOREM NoWriteIsLost == Spec => []NothingLost
<1>1. Inv => NothingLost
  BY DEF Inv
<1> QED BY <1>1, Invariance, PTL

\* The callback of a write is told what became of this write.
THEOREM CallbacksAreTold == Spec => []OutcomeTold
<1>1. Inv => OutcomeTold
  BY DEF Inv
<1> QED BY <1>1, Invariance, PTL

\* The assertions of the client hold.
THEOREM AssertionsHold == Spec => []Asserts
<1>1. ASSUME Inv PROVE Asserts
  <2>1. /\ c \in Client /\ InLine(c.pipeline, mutations, user)
        /\ Matched(c, refused) /\ Shaking(c) /\ Started(c)
    BY <1>1 DEF Inv, ClientOK
  <2>2. /\ c.pipeline \in Seq(Batch) /\ c.sent \in Seq(Writes \cup {Handshake})
        /\ c.answers \in Seq(Writes \cup {Handshake, Refusal})
    BY <2>1, ClientFields
  <2>3. /\ DOMAIN c.pipeline = 1..Len(c.pipeline)
        /\ DOMAIN c.answers = 1..Len(c.answers)
        /\ Len(c.pipeline) \in Nat /\ Len(c.answers) \in Nat /\ Len(c.sent) \in Nat
    BY <2>2, LenProperties
  <2>4. ASSUME NEW i \in DOMAIN c.answers, c.answers[i] # Handshake
        PROVE  i <= Len(c.pipeline)
    <3>1. c.shaken
      <4>1. CASE c.stream # "Open"
        <5>1. c.answers = <<>>
          BY <2>1, <4>1 DEF Shaking
        <5> QED BY <2>4, <5>1
      <4>2. CASE c.stream = "Open" /\ ~c.shaken
        <5>1. c.answers = <<>> \/ c.answers = <<Handshake>>
          BY <2>1, <4>2 DEF Shaking
        <5> QED BY <2>4, <5>1
      <4> QED BY <4>1, <4>2
    <3>2. Len(c.answers) + Len(c.sent) = Len(c.pipeline)
      BY <2>1, <3>1 DEF Matched
    <3> DEFINE la == Len(c.answers)
               ls == Len(c.sent)
               lp == Len(c.pipeline)
    <3>3. /\ i \in 1..la /\ la + ls = lp
          /\ la \in Nat /\ ls \in Nat /\ lp \in Nat
      BY <2>3, <3>2
    <3> HIDE DEF la, ls, lp
    <3>4. i <= lp
      BY <3>3
    <3> QED BY <3>4 DEF lp
  <2>5. \A i \in DOMAIN c.pipeline :
           c.pipeline[i] \in mutations /\ c.pipeline[i].user = user
    BY <2>1, <2>3 DEF InLine
  <2> QED BY <2>1, <2>4, <2>5 DEF Asserts, Started
<1> QED BY <1>1, Invariance, PTL

\* The server applies the writes of a user in their order, and none that is no
\* longer in a queue, although batches are sent again and again.
THEOREM WritesAreOrdered == Spec => AppliedInOrder
<1> DEFINE Good == \A w \in Writes :
              applied'[w] > applied[w] =>
                 /\ w \in Pending
                 /\ \A v \in 1..(w - 1) :
                       author[v] = author[w] => applied[v] > 0 \/ v \in refused
<1>1. ASSUME Inv, Next PROVE Good
  <2>1. ASSUME applied' = applied PROVE Good
    BY <2>1, InvTypes, <1>1
  <2>2. CASE Apply
    <3> DEFINE h == Head(c.sent)
    <3>1. Listening /\ h \in Writes /\ applied' = [applied EXCEPT ![h] = @ + 1]
      BY <2>2 DEF Apply
    <3>2. h \in Pending /\ \A v \in 1..(h - 1) : author[v] = author[h] => Settled(v)
      BY <1>1, <3>1, FirstPending
    <3> HIDE DEF h
    <3>3. \A w \in Writes : w # h => ~(applied'[w] > applied[w])
      BY <1>1, <3>1, InvTypes
    <3> QED BY <3>2, <3>3 DEF Settled
  <2>3. CASE HandleLate /\ applied' # applied
    <3> DEFINE h == Head(late)
    <3>1. late # <<>> /\ applied' = [applied EXCEPT ![h] = @ + 1]
      BY <2>3 DEF HandleLate
    <3>2. h = late[1] /\ 1 \in 1..Len(late) /\ 1..(1 - 1) = {}
      BY <1>1, <3>1, InvTypes, EmptySeq, HeadTailProperties
    <3> HIDE DEF h
    <3>3. h \in Pending /\ \A v \in 1..(h - 1) : author[v] = author[h] => Settled(v)
      BY <1>1, <3>2 DEF Inv, Lates
    <3>4. \A w \in Writes : w # h => ~(applied'[w] > applied[w])
      BY <1>1, <3>1, InvTypes
    <3> QED BY <3>3, <3>4 DEF Settled
  <2>4. Apply \/ HandleLate \/ applied' = applied
    BY <1>1 DEF Next, Launch, WriteMutations, ConnectivityChange, DisableNetwork,
                EnableNetwork, Kill, HandleCredentialChange, Abandon, server,
                ResumeStartWithCredentials, BackoffElapsed, IdleTimeout, Only,
                OnWriteStreamHandshakeComplete, OnWriteStreamMutationResult,
                OnStreamFinish, HandleWriteError, ShakeHands, Refuse
  <2> QED BY <2>1, <2>2, <2>3, <2>4
<1>2. Inv /\ [Next]_vars => [Good]_vars
  BY <1>1
<1> QED BY <1>2, Invariance, PTL DEF Spec, AppliedInOrder
=============================================================================
