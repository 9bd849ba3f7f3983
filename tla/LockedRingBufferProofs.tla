----------------------- MODULE LockedRingBufferProofs -----------------------
(* What the proofs about the components use of the queue.                   *)
EXTENDS LockedRingBuffer, SequenceTheorems, TLAPS

(* An element of a queue is at one of its positions.                        *)
LEMMA ElementPosition ==
  ASSUME NEW S, NEW q \in Seq(S)
  PROVE  \A x : x \in Elements(q) <=> \E i \in 1 .. Len(q) : q[i] = x
BY DEF Elements, Range

(* A queue holds messages only.                                             *)
LEMMA ElementsAreMessages ==
  ASSUME NEW S, NEW q \in Seq(S)
  PROVE  Elements(q) \subseteq S
<1>1. \A i \in 1 .. Len(q) : q[i] \in S
  OBVIOUS
<1>2. QED
  BY <1>1, ElementPosition

(* An enqueue adds the new element and nothing else.                        *)
LEMMA ElementsOfAppend ==
  ASSUME NEW S, NEW q \in Seq(S), NEW m \in S
  PROVE  Elements(Append(q, m)) = Elements(q) \cup {m}
<1>1. \A i \in 1 .. Len(q) : Append(q, m)[i] = q[i]
  BY AppendProperties
<1>2. Append(q, m)[Len(q) + 1] = m /\ DOMAIN Append(q, m) = 1 .. Len(q) + 1
  BY AppendProperties
<1>3. DOMAIN q = 1 .. Len(q) /\ Len(q) \in Nat
  OBVIOUS
<1>4. QED
  BY <1>1, <1>2, <1>3 DEF Elements, Range

(* A batch dequeue moves elements: none is invented, none disappears, the   *)
(* batch and what stays are sequences no longer than the buffer and the     *)
(* queue.                                                                   *)
LEMMA TakenAndLeft ==
  ASSUME NEW S, NEW q \in Seq(S), NEW n \in Nat
  PROVE  /\ Taken(q, n) \in Seq(S)
         /\ Left(q, n) \in Seq(S)
         /\ Elements(q) = Elements(Taken(q, n)) \cup Elements(Left(q, n))
         /\ Len(Taken(q, n)) <= n
         /\ Len(Left(q, n)) <= Len(q)
<1> DEFINE k == IF n < Len(q) THEN n ELSE Len(q)
<1>1. k \in 0 .. Len(q) /\ Len(q) \in Nat
  OBVIOUS
<1>2. Taken(q, n) = SubSeq(q, 1, k) /\ Left(q, n) = SubSeq(q, k + 1, Len(q))
  BY DEF Taken, Left
<1> HIDE DEF k
<1> DEFINE a == SubSeq(q, 1, k)
           b == SubSeq(q, k + 1, Len(q))
<1>3. a \in Seq(S) /\ Len(a) = k /\ \A i \in 1 .. k : a[i] = q[i]
  BY <1>1
<1>4. b \in Seq(S) /\ Len(b) = Len(q) - k /\ \A i \in 1 .. Len(q) - k : b[i] = q[k + i]
  BY <1>1
<1> HIDE DEF a, b
<1>5. Elements(q) = Elements(a) \cup Elements(b)
  <2>1. \A x : x \in Elements(a) <=> \E j \in 1 .. Len(a) : a[j] = x
    BY <1>3, ElementPosition
  <2>2. \A x : x \in Elements(b) <=> \E j \in 1 .. Len(b) : b[j] = x
    BY <1>4, ElementPosition
  <2>3. \A x : x \in Elements(q) <=> \E i \in 1 .. Len(q) : q[i] = x
    BY ElementPosition
  <2>4. ASSUME NEW x \in Elements(q)
        PROVE  x \in Elements(a) \cup Elements(b)
    <3>1. PICK i \in 1 .. Len(q) : q[i] = x
      BY <2>3
    <3>2. CASE i <= k
      <4>1. i \in 1 .. Len(a) /\ a[i] = x
        BY <1>1, <1>3, <3>1, <3>2
      <4>2. QED
        BY <2>1, <4>1
    <3>3. CASE i > k
      <4>1. i - k \in 1 .. Len(q) - k /\ k + (i - k) = i
        BY <1>1, <3>3
      <4>2. i - k \in 1 .. Len(b) /\ b[i - k] = x
        BY <1>4, <3>1, <4>1
      <4>3. QED
        BY <2>2, <4>2
    <3>4. QED
      BY <1>1, <3>2, <3>3
  <2>5. ASSUME NEW x \in Elements(a)
        PROVE  x \in Elements(q)
    <3>1. PICK j \in 1 .. k : a[j] = x
      BY <1>3, <2>1
    <3>2. j \in 1 .. Len(q) /\ q[j] = x
      BY <1>1, <1>3, <3>1
    <3>3. QED
      BY <2>3, <3>2
  <2>6. ASSUME NEW x \in Elements(b)
        PROVE  x \in Elements(q)
    <3>1. PICK j \in 1 .. Len(q) - k : b[j] = x
      BY <1>4, <2>2
    <3>2. k + j \in 1 .. Len(q) /\ q[k + j] = x
      BY <1>1, <1>4, <3>1
    <3>3. QED
      BY <2>3, <3>2
  <2>7. QED
    BY <2>4, <2>5, <2>6
<1>6. k <= n
  BY DEF k
<1>7. Taken(q, n) = a /\ Left(q, n) = b
  BY <1>2 DEF a, b
<1>8. QED
  BY <1>1, <1>3, <1>4, <1>5, <1>6, <1>7

(* Messages numbered up to n are messages numbered up to any m above n.     *)
LEMMA WiderSeq ==
  ASSUME NEW S, NEW T, S \subseteq T, NEW q \in Seq(S)
  PROVE  q \in Seq(T)
OBVIOUS

(* A batch dequeue keeps the order: the buffer gets the oldest elements, the *)
(* others move up, and it gets one at least if there is one.                *)
LEMMA TakenThenLeft ==
  ASSUME NEW S, NEW q \in Seq(S), NEW n \in Nat
  PROVE  /\ Len(Taken(q, n)) \in Nat /\ Len(Left(q, n)) \in Nat
         /\ Len(Taken(q, n)) + Len(Left(q, n)) = Len(q)
         /\ \A i \in 1 .. Len(Taken(q, n)) : Taken(q, n)[i] = q[i]
         /\ \A i \in 1 .. Len(Left(q, n)) : Left(q, n)[i] = q[Len(Taken(q, n)) + i]
         /\ q # << >> /\ n # 0 => Taken(q, n) # << >>
<1> DEFINE k == IF n < Len(q) THEN n ELSE Len(q)
<1>1. k \in 0 .. Len(q) /\ Len(q) \in Nat
  OBVIOUS
<1>2. q # << >> /\ n # 0 => k # 0
  BY EmptySeq
<1>3. Taken(q, n) = SubSeq(q, 1, k) /\ Left(q, n) = SubSeq(q, k + 1, Len(q))
  BY DEF Taken, Left
<1> HIDE DEF k
<1> DEFINE a == SubSeq(q, 1, k)
           b == SubSeq(q, k + 1, Len(q))
<1>4. a \in Seq(S) /\ Len(a) = k /\ \A i \in 1 .. k : a[i] = q[i]
  BY <1>1
<1>5. b \in Seq(S) /\ Len(b) = Len(q) - k /\ \A i \in 1 .. Len(q) - k : b[i] = q[k + i]
  BY <1>1
<1> HIDE DEF a, b
<1>6. k # 0 => a # << >>
  BY <1>4
<1>7. Taken(q, n) = a /\ Left(q, n) = b
  BY <1>3 DEF a, b
<1>8. /\ Len(a) \in Nat /\ Len(b) \in Nat /\ Len(a) + Len(b) = Len(q)
      /\ \A i \in 1 .. Len(a) : a[i] = q[i]
  BY <1>1, <1>4, <1>5
<1>9. \A i \in 1 .. Len(b) : b[i] = q[Len(a) + i]
  BY <1>4, <1>5
<1>10. q # << >> /\ n # 0 => a # << >>
  BY <1>2, <1>6
<1>11. QED
  BY <1>7, <1>8, <1>9, <1>10

(* The buffer followed by what stays is the queue: nothing is lost,         *)
(* repeated or reordered.                                                   *)
LEMMA TakenJoinsLeft ==
  ASSUME NEW S, NEW q \in Seq(S), NEW n \in Nat
  PROVE  Taken(q, n) \o Left(q, n) = q
<1> DEFINE a == Taken(q, n)
           b == Left(q, n)
<1>1. /\ a \in Seq(S) /\ b \in Seq(S)
      /\ Len(a) \in Nat /\ Len(b) \in Nat /\ Len(a) + Len(b) = Len(q)
      /\ \A i \in 1 .. Len(a) : a[i] = q[i]
      /\ \A i \in 1 .. Len(b) : b[i] = q[Len(a) + i]
  BY TakenAndLeft, TakenThenLeft
<1> HIDE DEF a, b
<1>2. /\ a \o b \in Seq(S) /\ Len(a \o b) = Len(q)
      /\ \A i \in 1 .. Len(q) : (a \o b)[i] = IF i <= Len(a) THEN a[i] ELSE b[i - Len(a)]
  BY <1>1, ConcatProperties
<1>3. ASSUME NEW i \in 1 .. Len(q)
      PROVE  (a \o b)[i] = q[i]
  <2>1. CASE i <= Len(a)
    <3>1. i \in 1 .. Len(a)
      BY <1>1, <2>1
    <3>2. QED
      BY <1>1, <1>2, <2>1, <3>1
  <2>2. CASE ~ i <= Len(a)
    <3>1. i - Len(a) \in 1 .. Len(b) /\ Len(a) + (i - Len(a)) = i
      BY <1>1, <2>2
    <3>2. b[i - Len(a)] = q[i]
      BY <1>1, <3>1
    <3>3. QED
      BY <1>2, <2>2, <3>2
  <2>3. QED
    BY <2>1, <2>2
<1>4. a \o b = q
  BY <1>2, <1>3, SeqEqual
<1>5. QED
  BY <1>4 DEF a, b

(* Handling the first message of a batch: the batch is that message and the *)
(* rest.                                                                    *)
LEMMA HeadAndTail ==
  ASSUME NEW S, NEW q \in Seq(S), q # << >>
  PROVE  /\ Head(q) \in S
         /\ Tail(q) \in Seq(S)
         /\ Elements(q) = Elements(Tail(q)) \cup {Head(q)}
         /\ Len(Tail(q)) = Len(q) - 1
<1> DEFINE t == Tail(q)
<1>1. /\ Head(q) = q[1] /\ Head(q) \in S
      /\ t \in Seq(S) /\ Len(t) = Len(q) - 1
      /\ \A i \in 1 .. Len(t) : t[i] = q[i + 1]
  BY HeadTailProperties
<1> HIDE DEF t
<1>2. Len(q) \in Nat /\ Len(q) >= 1 /\ Len(t) = Len(q) - 1
  BY <1>1, EmptySeq
<1>3. ASSUME NEW x
      PROVE  x \in Elements(q) <=> x \in Elements(t) \cup {Head(q)}
  <2>1. x \in Elements(q) <=> \E i \in 1 .. Len(q) : q[i] = x
    BY ElementPosition
  <2>2. x \in Elements(t) <=> \E j \in 1 .. Len(q) - 1 : q[j + 1] = x
    <3>1. x \in Elements(t) <=> \E j \in 1 .. Len(t) : t[j] = x
      BY <1>1, ElementPosition
    <3>2. QED
      BY <3>1, <1>1, <1>2
  <2>3. ASSUME x \in Elements(q)
        PROVE  x \in Elements(t) \cup {Head(q)}
    <3>1. PICK i \in 1 .. Len(q) : q[i] = x
      BY <2>1, <2>3
    <3>2. CASE i = 1
      BY <1>1, <3>1, <3>2
    <3>3. CASE i # 1
      <4>1. i - 1 \in 1 .. Len(q) - 1 /\ (i - 1) + 1 = i
        BY <1>2, <3>3
      <4>2. QED
        BY <2>2, <3>1, <4>1
    <3>4. QED
      BY <3>2, <3>3
  <2>4. ASSUME x \in Elements(t)
        PROVE  x \in Elements(q)
    <3>1. PICK j \in 1 .. Len(q) - 1 : q[j + 1] = x
      BY <2>2, <2>4
    <3>2. j + 1 \in 1 .. Len(q)
      BY <1>2
    <3>3. QED
      BY <2>1, <3>1, <3>2
  <2>5. 1 \in 1 .. Len(q)
    BY <1>2
  <2>6. Head(q) \in Elements(q)
    BY <1>1, <2>5, ElementPosition
  <2>7. QED
    BY <2>3, <2>4, <2>6
<1>4. QED
  BY <1>1, <1>3 DEF t

\* q holds the messages n + 1, n + 2, ...
Numbered(q, n) == \A i \in 1 .. Len(q) : q[i] = n + i

(* Enqueueing the next number.                                              *)
LEMMA NumberedAppend ==
  ASSUME NEW S, NEW q \in Seq(S), NEW n \in Nat, NEW m \in S,
         Numbered(q, n), m = n + Len(q) + 1
  PROVE  Append(q, m) \in Seq(S) /\ Len(Append(q, m)) = Len(q) + 1 /\ Numbered(Append(q, m), n)
<1>1. /\ Append(q, m) \in Seq(S) /\ Len(Append(q, m)) = Len(q) + 1
      /\ \A i \in 1 .. Len(q) : Append(q, m)[i] = q[i]
      /\ Append(q, m)[Len(q) + 1] = m
  BY AppendProperties
<1>2. ASSUME NEW i \in 1 .. Len(q) + 1
      PROVE  Append(q, m)[i] = n + i
  <2>1. Len(q) \in Nat
    OBVIOUS
  <2>2. CASE i \in 1 .. Len(q)
    BY <1>1, <2>2 DEF Numbered
  <2>3. CASE i = Len(q) + 1
    BY <1>1, <2>1, <2>3
  <2>4. QED
    BY <2>1, <2>2, <2>3
<1>3. QED
  BY <1>1, <1>2 DEF Numbered

(* Enqueueing the next k numbers.                                           *)
LEMMA NumberedConcat ==
  ASSUME NEW S, NEW q \in Seq(S), NEW r \in Seq(S), NEW n \in Nat,
         Numbered(q, n), Numbered(r, n + Len(q))
  PROVE  q \o r \in Seq(S) /\ Len(q \o r) = Len(q) + Len(r) /\ Numbered(q \o r, n)
<1>1. /\ q \o r \in Seq(S) /\ Len(q \o r) = Len(q) + Len(r)
      /\ \A i \in 1 .. Len(q) + Len(r) :
           (q \o r)[i] = IF i <= Len(q) THEN q[i] ELSE r[i - Len(q)]
  BY ConcatProperties
<1>2. Len(q) \in Nat /\ Len(r) \in Nat
  OBVIOUS
<1>3. ASSUME NEW i \in 1 .. Len(q) + Len(r)
      PROVE  (q \o r)[i] = n + i
  <2>1. CASE i <= Len(q)
    <3>1. i \in 1 .. Len(q) /\ (q \o r)[i] = q[i]
      BY <1>1, <1>2, <2>1
    <3>2. QED
      BY <3>1 DEF Numbered
  <2>2. CASE ~ i <= Len(q)
    <3>1. i - Len(q) \in 1 .. Len(r) /\ (q \o r)[i] = r[i - Len(q)]
      BY <1>1, <1>2, <2>2
    <3>2. r[i - Len(q)] = n + Len(q) + (i - Len(q))
      BY <3>1 DEF Numbered
    <3>3. QED
      BY <1>2, <3>1, <3>2
  <2>3. QED
    BY <2>1, <2>2
<1>4. QED
  BY <1>1, <1>3 DEF Numbered

(* A batch dequeue of numbered messages: the batch goes on where the number *)
(* was, the queue where the batch ends.                                     *)
LEMMA NumberedTaken ==
  ASSUME NEW S, NEW q \in Seq(S), NEW n \in Nat, NEW b \in Nat, Numbered(q, n)
  PROVE  /\ Numbered(Taken(q, b), n)
         /\ Numbered(Left(q, b), n + Len(Taken(q, b)))
<1> DEFINE x == Taken(q, b)
           y == Left(q, b)
<1>1. /\ Len(x) \in Nat /\ Len(y) \in Nat /\ Len(x) + Len(y) = Len(q)
      /\ \A i \in 1 .. Len(x) : x[i] = q[i]
      /\ \A i \in 1 .. Len(y) : y[i] = q[Len(x) + i]
  BY TakenThenLeft
<1> HIDE DEF x, y
<1>2. Numbered(x, n)
  BY <1>1 DEF Numbered
<1>3. ASSUME NEW i \in 1 .. Len(y)
      PROVE  y[i] = n + Len(x) + i
  <2>1. Len(x) + i \in 1 .. Len(q)
    BY <1>1
  <2>2. y[i] = n + (Len(x) + i)
    BY <1>1, <2>1 DEF Numbered
  <2>3. QED
    BY <1>1, <2>2
<1>4. Numbered(y, n + Len(x))
  BY <1>3 DEF Numbered
<1>5. QED
  BY <1>2, <1>4 DEF x, y

(* The head of numbered messages, and what follows it.                      *)
LEMMA NumberedTail ==
  ASSUME NEW S, NEW q \in Seq(S), NEW n \in Nat, Numbered(q, n), q # << >>
  PROVE  /\ Head(q) = n + 1 /\ Head(q) \in S
         /\ Tail(q) \in Seq(S) /\ Len(Tail(q)) = Len(q) - 1 /\ Len(q) >= 1
         /\ Numbered(Tail(q), n + 1)
         /\ Tail(q) = << >> <=> Len(q) = 1
<1> DEFINE t == Tail(q)
<1>1. /\ Head(q) = q[1] /\ Head(q) \in S
      /\ t \in Seq(S) /\ Len(t) = Len(q) - 1
      /\ \A i \in 1 .. Len(t) : t[i] = q[i + 1]
  BY HeadTailProperties
<1> HIDE DEF t
<1>2. Len(q) \in Nat /\ Len(q) >= 1
  BY EmptySeq
<1>3. Head(q) = n + 1
  <2>1. 1 \in 1 .. Len(q)
    BY <1>2
  <2>2. QED
    BY <1>1, <2>1 DEF Numbered
<1>4. ASSUME NEW i \in 1 .. Len(t)
      PROVE  t[i] = n + 1 + i
  <2>1. i + 1 \in 1 .. Len(q)
    BY <1>1, <1>2
  <2>2. t[i] = n + (i + 1)
    BY <1>1, <2>1 DEF Numbered
  <2>3. QED
    BY <2>2
<1>5. Numbered(t, n + 1)
  BY <1>4 DEF Numbered
<1>6. t = << >> <=> Len(q) = 1
  <2>1. t = << >> <=> Len(t) = 0
    BY <1>1, EmptySeq
  <2>2. QED
    BY <1>1, <1>2, <2>1
<1>7. QED
  BY <1>1, <1>2, <1>3, <1>5, <1>6 DEF t

(* The empty batch holds nothing.                                           *)
LEMMA ElementsOfEmpty == Elements(<< >>) = {}
BY DEF Elements, Range

(* What two queues hold one after the other.                                *)
LEMMA ElementsOfConcat ==
  ASSUME NEW S, NEW q \in Seq(S), NEW r \in Seq(S)
  PROVE  q \o r \in Seq(S) /\ Elements(q \o r) = Elements(q) \cup Elements(r)
<1>1. /\ q \o r \in Seq(S) /\ Len(q \o r) = Len(q) + Len(r)
      /\ Len(q) \in Nat /\ Len(r) \in Nat
      /\ \A i \in 1 .. Len(q) + Len(r) :
           (q \o r)[i] = IF i <= Len(q) THEN q[i] ELSE r[i - Len(q)]
  BY ConcatProperties
<1>2. ASSUME NEW x \in Elements(q \o r)
      PROVE  x \in Elements(q) \cup Elements(r)
  <2>1. PICK i \in 1 .. Len(q) + Len(r) : (q \o r)[i] = x
    BY <1>1, ElementPosition
  <2>2. CASE i <= Len(q)
    <3>1. i \in 1 .. Len(q) /\ q[i] = x
      BY <1>1, <2>1, <2>2
    <3>2. QED
      BY <3>1, ElementPosition
  <2>3. CASE ~ i <= Len(q)
    <3>1. i - Len(q) \in 1 .. Len(r) /\ r[i - Len(q)] = x
      BY <1>1, <2>1, <2>3
    <3>2. QED
      BY <3>1, ElementPosition
  <2>4. QED
    BY <2>2, <2>3
<1>3. ASSUME NEW x \in Elements(q)
      PROVE  x \in Elements(q \o r)
  <2>1. PICK i \in 1 .. Len(q) : q[i] = x
    BY ElementPosition
  <2>2. i \in 1 .. Len(q) + Len(r) /\ (q \o r)[i] = x
    BY <1>1, <2>1
  <2>3. QED
    BY <1>1, <2>2, ElementPosition
<1>4. ASSUME NEW x \in Elements(r)
      PROVE  x \in Elements(q \o r)
  <2>1. PICK i \in 1 .. Len(r) : r[i] = x
    BY ElementPosition
  <2>2. /\ Len(q) + i \in 1 .. Len(q) + Len(r) /\ ~ Len(q) + i <= Len(q)
        /\ (Len(q) + i) - Len(q) = i
    BY <1>1
  <2>3. (q \o r)[Len(q) + i] = x
    BY <1>1, <2>1, <2>2
  <2>4. QED
    BY <1>1, <2>2, <2>3, ElementPosition
<1>5. QED
  BY <1>1, <1>2, <1>3, <1>4

(* An enqueue makes the queue one longer.                                   *)
LEMMA QueueAppend ==
  ASSUME NEW S, NEW q \in Seq(S), NEW m \in S
  PROVE  Append(q, m) \in Seq(S) /\ Len(Append(q, m)) = Len(q) + 1
BY AppendProperties
=============================================================================
