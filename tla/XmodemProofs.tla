----------------------------- MODULE XmodemProofs -----------------------------
(***************************************************************************)
(* The safety of Xmodem for every file, every room for it, every number of *)
(* tries, and every depth of the line below half the packet numbers.       *)
(*                                                                         *)
(* r is the number of packets the receiver has accepted.  Numbers go       *)
(* round, so what has to be shown is that no packet under way is Word or   *)
(* more ahead of r.  The transmitter runs ahead because packets it has     *)
(* repeated are acknowledged more than once.  Balance bounds that: the     *)
(* block, the acknowledgements under way and those which the repeated      *)
(* packets under way will bring.                                           *)
(***************************************************************************)
EXTENDS Xmodem, FiniteSetTheorems, SequenceTheorems, WellFoundedInduction, TLAPS

-------------------------------------------------------------------------------
(* Packet numbers.                                                         *)

LEMMA WordIs == /\ Word \in Nat /\ Depth \in Nat /\ Depth >= 1 /\ Word > 2 * Depth
                /\ Word >= 2 /\ Blocks \in Nat /\ DestSize \in Nat /\ Blocks >= 1
BY XmodemAssumption, NumbersAssumption

\* A non-empty set of naturals has a least element.
LEMMA LeastNat ==
  ASSUME NEW T, T \subseteq Nat, T # {}
  PROVE  \E x \in T : \A y \in T : x <= y
<1> DEFINE R == {ss \in Nat \X Nat : ss[1] < ss[2]}
<1>1. IsWellFoundedOn(R, Nat)
  BY NatLessThanWellFounded DEF OpToRel
<1>2. \A x, y \in T : ~ (<<y, x>> \in R) => x <= y
  OBVIOUS
<1> HIDE DEF R
<1>3. PICK x \in T : \A y \in T : ~ (<<y, x>> \in R)
  BY <1>1, WFMin
<1> QED BY <1>2, <1>3

\* Division, and what it leaves.
LEMMA Divided == \A r \in Nat : \E q \in Nat, m \in 0 .. (Word - 1) : r = Word * q + m
<1> DEFINE Bad == {r \in Nat : ~ \E q \in Nat, m \in 0 .. (Word - 1) : r = Word * q + m}
<1> SUFFICES ASSUME Bad # {} PROVE FALSE
  OBVIOUS
<1>1. PICK r \in Bad : \A s \in Bad : r <= s
  BY LeastNat
<1>2. r # 0
  <2>1. 0 = Word * 0 + 0 /\ 0 \in 0 .. (Word - 1)
    BY WordIs
  <2> QED BY <2>1
<1>3. r - 1 \in Nat /\ r - 1 \notin Bad
  BY <1>1, <1>2
<1>4. PICK q \in Nat, m \in 0 .. (Word - 1) : r - 1 = Word * q + m
  BY <1>3
<1>5. Word * q \in Nat /\ Word * (q + 1) = Word * q + Word
  BY WordIs
<1>6. CASE m + 1 < Word
  <2>1. m + 1 \in 0 .. (Word - 1) /\ r = Word * q + (m + 1)
    BY <1>4, <1>5, <1>6, WordIs
  <2> QED BY <2>1
<1>7. CASE m + 1 = Word
  <2>1. 0 \in 0 .. (Word - 1) /\ q + 1 \in Nat /\ r = Word * (q + 1) + 0
    BY <1>4, <1>5, <1>7, WordIs
  <2> QED BY <2>1
<1> QED BY <1>6, <1>7, WordIs

LEMMA Remains ==
  ASSUME NEW q \in Nat, NEW m \in 0 .. (Word - 1)
  PROVE  (Word * q + m) % Word = m
BY WordIs

\* The number of the next block.
LEMMA NumberAfter ==
  ASSUME NEW r \in Nat
  PROVE  /\ r % Word \in Nat /\ r % Word < Word
         /\ (r + 1) % Word = IF (r % Word) + 1 < Word THEN (r % Word) + 1 ELSE 0
         /\ ((r % Word) + 1) % Word = (r + 1) % Word
<1>1. PICK q \in Nat, m \in 0 .. (Word - 1) : r = Word * q + m
  BY Divided
<1>2. r % Word = m
  BY <1>1, Remains
<1>3. Word * q \in Nat /\ Word * (q + 1) = Word * q + Word /\ m \in Nat /\ m < Word
  BY WordIs
<1>4. CASE m + 1 < Word
  <2>1. m + 1 \in 0 .. (Word - 1) /\ r + 1 = Word * q + (m + 1)
    BY <1>1, <1>3, <1>4, WordIs
  <2>2. (r + 1) % Word = m + 1
    BY <2>1, Remains
  <2>3. (m + 1) % Word = m + 1
    BY <1>3, <1>4, WordIs
  <2> QED BY <1>2, <1>3, <1>4, <2>2, <2>3
<1>5. CASE m + 1 = Word
  <2>1. 0 \in 0 .. (Word - 1) /\ q + 1 \in Nat /\ r + 1 = Word * (q + 1) + 0
    BY <1>1, <1>3, <1>5, WordIs
  <2>2. (r + 1) % Word = 0
    BY <2>1, Remains
  <2>3. (m + 1) % Word = 0
    BY <1>5, WordIs
  <2> QED BY <1>2, <1>3, <1>5, <2>2, <2>3
<1> QED BY <1>3, <1>4, <1>5, WordIs

\* Within Word of each other, numbers tell blocks apart.
LEMMA NumbersTell ==
  ASSUME NEW r \in Nat, NEW k \in r .. (r + Word - 1), k % Word = r % Word
  PROVE  k = r
<1>1. Word \in Nat /\ Word >= 2
  BY WordIs
<1> QED BY <1>1

\* What the receiver takes for the packet expected, or for a duplicate, is one.
LEMMA NumberExpected ==
  ASSUME NEW r \in Nat, NEW k \in r .. (r + Word - 1)
  PROVE  /\ k % Word = (r + 1) % Word => k = r + 1
         /\ k % Word = ((r + 1) % Word) - 1 => k = r
<1>0. k \in Nat
  BY WordIs
<1>1. ASSUME k % Word = (r + 1) % Word PROVE k = r + 1
  <2>1. k # r
    <3>1. /\ r % Word \in Nat /\ r % Word < Word
          /\ (r + 1) % Word = IF (r % Word) + 1 < Word THEN (r % Word) + 1 ELSE 0
      BY NumberAfter
    <3>2. \A m \in Nat : m < Word => (IF m + 1 < Word THEN m + 1 ELSE 0) # m
      BY WordIs
    <3>3. (r + 1) % Word # r % Word
      BY <3>1, <3>2
    <3> QED BY <3>3, <1>1
  <2>2. k \in (r + 1) .. ((r + 1) + Word - 1)
    BY <2>1, WordIs
  <2> QED BY <1>1, <2>2, NumbersTell
<1>2. ASSUME k % Word = ((r + 1) % Word) - 1 PROVE k = r
  <2>1. r % Word \in Nat /\ k % Word \in Nat
        /\ (r + 1) % Word = IF (r % Word) + 1 < Word THEN (r % Word) + 1 ELSE 0
    BY <1>0, NumberAfter
  <2>2. k % Word = r % Word
    BY <1>2, <2>1
  <2> QED BY <2>2, NumbersTell
<1> QED BY <1>1, <1>2

-------------------------------------------------------------------------------
(* Counting in a queue.                                                    *)

\* How many of S are in q.
Places(q, S) == {i \in 1 .. Len(q) : q[i] \in S}
Count(q, S) == Cardinality(Places(q, S))

LEMMA CountType ==
  ASSUME NEW X, NEW q \in Seq(X), NEW S
  PROVE  IsFiniteSet(Places(q, S)) /\ Count(q, S) \in Nat /\ Count(q, S) <= Len(q)
<1>1. Len(q) \in Nat /\ IsFiniteSet(1 .. Len(q)) /\ Cardinality(1 .. Len(q)) = Len(q)
  <2>1. Len(q) \in Nat
    OBVIOUS
  <2>2. IsFiniteSet(1 .. Len(q))
        /\ Cardinality(1 .. Len(q)) = IF 1 > Len(q) THEN 0 ELSE Len(q) - 1 + 1
    BY <2>1, FS_Interval
  <2> QED BY <2>1, <2>2
<1>2. Places(q, S) \in SUBSET (1 .. Len(q))
  BY DEF Places
<1>3. IsFiniteSet(Places(q, S)) /\ Cardinality(Places(q, S)) <= Len(q)
  BY <1>1, <1>2, FS_Subset
<1> QED BY <1>3, FS_CardinalityType DEF Count

LEMMA CountEmpty == \A S : Count(<<>>, S) = 0
<1> SUFFICES ASSUME NEW S PROVE Count(<<>>, S) = 0
  OBVIOUS
<1>1. Places(<<>>, S) = {}
  BY DEF Places
<1> QED BY <1>1, FS_EmptySet DEF Count

LEMMA CountAppend ==
  ASSUME NEW X, NEW q \in Seq(X), NEW x \in X, NEW S
  PROVE  Count(Append(q, x), S) = Count(q, S) + (IF x \in S THEN 1 ELSE 0)
<1> DEFINE n == Len(q) + 1
<1>1. n \in Nat /\ n \notin Places(q, S) /\ IsFiniteSet(Places(q, S))
  <2>1. n \in Nat /\ n \notin Places(q, S)
    BY DEF Places
  <2> QED BY <2>1, CountType
<1>2. CASE x \in S
  <2>1. Places(Append(q, x), S) = Places(q, S) \cup {n}
    BY <1>2, AppendProperties DEF Places
  <2> QED BY <1>1, <1>2, <2>1, FS_AddElement DEF Count
<1>3. CASE x \notin S
  <2>1. Places(Append(q, x), S) = Places(q, S)
    BY <1>3, AppendProperties DEF Places
  <2> QED BY <1>1, <1>3, <2>1, CountType DEF Count
<1> QED BY <1>2, <1>3

LEMMA CountTail ==
  ASSUME NEW X, NEW q \in Seq(X), q # <<>>, NEW S
  PROVE  Count(q, S) = Count(Tail(q), S) + (IF Head(q) \in S THEN 1 ELSE 0)
<1> DEFINE T == Places(Tail(q), S)
           I == Places(q, S)
           f == [j \in T |-> j + 1]
<1>1. /\ Len(q) \in Nat /\ Len(q) >= 1 /\ Tail(q) \in Seq(X) /\ Len(Tail(q)) = Len(q) - 1
      /\ \A i \in 1 .. Len(Tail(q)) : Tail(q)[i] = q[i + 1]
      /\ Head(q) = q[1]
  BY HeadTailProperties, EmptySeq
<1>2. IsFiniteSet(T) /\ IsFiniteSet(I) /\ Count(q, S) \in Nat /\ Count(Tail(q), S) \in Nat
  BY <1>1, CountType
<1>3. f \in Bijection(T, I \ {1})
  <2>1. \A j \in T : j \in Nat /\ f[j] \in I \ {1}
    BY <1>1 DEF Places
  <2>2. \A j, k \in T : f[j] = f[k] => j = k
    BY <2>1
  <2>3. \A i \in I \ {1} : \E j \in T : f[j] = i
    <3> SUFFICES ASSUME NEW i \in I \ {1} PROVE i - 1 \in T /\ f[i - 1] = i
      OBVIOUS
    <3>1. i - 1 \in 1 .. Len(Tail(q)) /\ (i - 1) + 1 = i /\ q[i] \in S
      BY <1>1 DEF Places
    <3> QED BY <1>1, <3>1 DEF Places
  <2> HIDE DEF T, I
  <2>4. f \in [T -> I \ {1}]
    BY <2>1
  <2> HIDE DEF f
  <2>5. f \in Injection(T, I \ {1})
    BY <2>2, <2>4 DEF Injection, IsInjective
  <2>6. f \in Surjection(T, I \ {1})
    BY <2>3, <2>4 DEF Surjection
  <2> QED BY <2>5, <2>6 DEF Bijection
<1>4. Cardinality(I \ {1}) = Cardinality(T)
  BY <1>2, <1>3, FS_Bijection DEF ExistsBijection
<1>5. 1 \in I <=> Head(q) \in S
  BY <1>1 DEF Places
<1>6. Cardinality(I \ {1}) = IF 1 \in I THEN Cardinality(I) - 1 ELSE Cardinality(I)
  BY <1>2, FS_RemoveElement
<1> QED BY <1>2, <1>4, <1>5, <1>6 DEF Count

\* A garbled head counts as little as a lost one.
LEMMA CountGarbled ==
  ASSUME NEW X, NEW q \in Seq(X), q # <<>>, NEW x \in X, NEW S, x \notin S
  PROVE  Count([q EXCEPT ![1] = x], S) = Count(Tail(q), S)
<1> DEFINE g == [q EXCEPT ![1] = x]
<1>1. /\ Len(q) \in Nat /\ Len(q) >= 1 /\ Tail(q) \in Seq(X) /\ Len(Tail(q)) = Len(q) - 1
      /\ \A i \in 1 .. Len(Tail(q)) : Tail(q)[i] = q[i + 1]
  BY HeadTailProperties, EmptySeq
<1>2. g \in Seq(X) /\ Len(g) = Len(q) /\ g[1] = x /\ \A i \in 1 .. Len(q) : i # 1 => g[i] = q[i]
  BY <1>1, ExceptSeq
<1> HIDE DEF g
<1>3. g # <<>> /\ Head(g) = x
  BY <1>1, <1>2
<1>4. /\ Tail(g) \in Seq(X) /\ Len(Tail(g)) = Len(q) - 1
      /\ \A i \in 1 .. Len(Tail(g)) : Tail(g)[i] = g[i + 1]
  BY <1>2, <1>3, HeadTailProperties
<1>5. \A i \in 1 .. Len(Tail(g)) : Tail(g)[i] = Tail(q)[i]
  BY <1>1, <1>2, <1>4
<1>6. Tail(g) = Tail(q)
  BY <1>1, <1>4, <1>5, SeqEqual
<1>7. Count(g, S) = Count(Tail(g), S) + (IF Head(g) \in S THEN 1 ELSE 0)
  BY <1>2, <1>3, CountTail
<1>8. Count(Tail(q), S) \in Nat
  BY <1>1, CountType
<1>9. Count(g, S) = Count(Tail(q), S)
  <2>1. Count(Tail(g), S) = Count(Tail(q), S)
    BY <1>6
  <2>2. Count(g, S) = Count(Tail(g), S) + 0
    BY <1>3, <1>7
  <2> QED BY <1>8, <2>1, <2>2
<1> QED BY <1>9 DEF g

-------------------------------------------------------------------------------
(* The packets under way.                                                  *)

Frames == {Packet(k) : k \in 0 .. Blocks} \cup {EOT, CAN, Noise}
Others == {EOT, CAN, Noise}
UpTo(c) == {Packet(k) : k \in 0 .. c}

LEMMA FrameFacts ==
  /\ \A k \in Nat : Packet(k).kind = "packet" /\ Packet(k).no = k % Word /\ Packet(k).block = k
  /\ EOT.kind = "EOT" /\ CAN.kind = "CAN" /\ Noise.kind = "noise"
  /\ \A k \in Nat : Packet(k) \notin Others
  /\ EOT # CAN /\ EOT # Noise /\ CAN # Noise
  /\ \A j, k \in Nat : Packet(j) = Packet(k) => j = k
<1>1. /\ \A k \in Nat : Packet(k).kind = "packet" /\ Packet(k).no = k % Word
                        /\ Packet(k).block = k
      /\ EOT.kind = "EOT" /\ CAN.kind = "CAN" /\ Noise.kind = "noise"
  BY DEF Packet, EOT, CAN, Noise
<1>2. \A k \in Nat : Packet(k) # EOT /\ Packet(k) # CAN /\ Packet(k) # Noise
  BY <1>1
<1>3. EOT # CAN /\ EOT # Noise /\ CAN # Noise
  BY <1>1
<1>4. \A j, k \in Nat : Packet(j) = Packet(k) => j = k
  BY <1>1
<1> QED BY <1>1, <1>2, <1>3, <1>4 DEF Others

\* Packets come in order; none is older than the last accepted one, and none
\* younger than the last one sent.
Ordered(l, b, r) ==
  \A i \in 1 .. Len(l), k \in Nat : l[i] = Packet(k) =>
    /\ r <= k /\ k <= b
    /\ \A j \in i .. Len(l), m \in Nat : l[j] = Packet(m) => k <= m

\* Up to c, which the receiver can still get to, every packet is under way; after
\* c there is a gap, or nothing.  n acknowledgements are under way.
Reaches(l, b, r, c) ==
  /\ \A k \in (r + 1) .. c : \E i \in 1 .. Len(l) : l[i] = Packet(k)
  /\ c < b => \A i \in 1 .. Len(l) : l[i] # Packet(c + 1)
Balance(l, n, b, r) ==
  \E c \in r .. b : Reaches(l, b, r, c) /\ b + n + Count(l, UpTo(c)) - c <= 2 * Depth

\* A packet that is under way has been sent, so there is one of each up to c.
LEMMA OneOfEach ==
  ASSUME NEW l \in Seq(Frames), NEW r \in Nat, NEW b \in Nat, NEW c \in r .. b,
         Reaches(l, b, r, c), NEW e \in 0 .. 1,
         e = 1 => l # <<>> /\ Head(l) = Packet(r)
  PROVE  Count(l, UpTo(c)) \in Nat /\ Count(l, UpTo(c)) >= c - r + e
<1> DEFINE S == (r + 1 - e) .. c
           I == Places(l, UpTo(c))
           f == [k \in S |-> CHOOSE i \in 1 .. Len(l) : l[i] = Packet(k)]
<1>1. \A k \in S : \E i \in 1 .. Len(l) : l[i] = Packet(k)
  <2> SUFFICES ASSUME NEW k \in S PROVE \E i \in 1 .. Len(l) : l[i] = Packet(k)
    OBVIOUS
  <2>1. CASE k \in (r + 1) .. c
    BY <2>1 DEF Reaches
  <2>2. CASE k = r /\ e = 1
    <3>1. Len(l) \in Nat /\ Len(l) >= 1 /\ l[1] = Packet(r)
      BY <2>2, EmptySeq
    <3> QED BY <2>2, <3>1
  <2> QED BY <2>1, <2>2
<1>2. S \subseteq Nat /\ \A k \in S : k <= c /\ k \in 0 .. c
  OBVIOUS
<1>3. \A k \in S : f[k] \in 1 .. Len(l) /\ l[f[k]] = Packet(k)
  BY <1>1
<1> HIDE DEF S, f
<1>4. \A k \in S : f[k] \in I
  BY <1>2, <1>3 DEF UpTo, Places
<1>5. \A j, k \in S : f[j] = f[k] => j = k
  BY <1>2, <1>3, FrameFacts
<1>6. f \in Injection(S, I)
  <2>1. f \in [S -> I]
    BY <1>4 DEF f
  <2> HIDE DEF I
  <2> QED BY <1>5, <2>1 DEF Injection, IsInjective
<1>7. IsFiniteSet(I) /\ Count(l, UpTo(c)) \in Nat
  BY CountType
<1>8. Cardinality(S) <= Cardinality(I)
  <2> HIDE DEF I
  <2> QED BY <1>6, <1>7, FS_Injection
<1>9. Cardinality(S) = c - r + e
  <2>1. r + 1 - e \in Int /\ c \in Int
    OBVIOUS
  <2>2. Cardinality(S) = IF r + 1 - e > c THEN 0 ELSE c - (r + 1 - e) + 1
    BY <2>1, FS_Interval DEF S
  <2> QED BY <2>1, <2>2
<1> QED BY <1>7, <1>8, <1>9 DEF Count

\* So the transmitter is never Word or more ahead.
LEMMA AheadBound ==
  ASSUME NEW l \in Seq(Frames), NEW r \in Nat, NEW b \in Nat, NEW n \in Nat,
         Balance(l, n, b, r)
  PROVE  b + n <= r + 2 * Depth
<1>1. PICK c \in r .. b : Reaches(l, b, r, c) /\ b + n + Count(l, UpTo(c)) - c <= 2 * Depth
  BY DEF Balance
<1>2. Count(l, UpTo(c)) \in Nat /\ Count(l, UpTo(c)) >= c - r + 0
  BY <1>1, OneOfEach
<1> QED BY <1>1, <1>2, WordIs

LEMMA BalanceEmpty ==
  ASSUME NEW r \in Nat, NEW b \in Nat, NEW n \in Nat, r <= b, b + n <= r + 2 * Depth
  PROVE  Balance(<<>>, n, b, r) /\ Ordered(<<>>, b, r)
<1>1. Reaches(<<>>, b, r, r) /\ Count(<<>>, UpTo(r)) = 0
  BY CountEmpty DEF Reaches
<1>2. r \in r .. b /\ b + n + 0 - r <= 2 * Depth
  BY WordIs
<1> QED BY <1>1, <1>2 DEF Balance, Ordered

\* Fewer acknowledgements do no harm.
LEMMA BalanceLess ==
  ASSUME NEW l \in Seq(Frames), NEW r \in Nat, NEW b \in Nat, NEW n \in Nat, NEW m \in Nat,
         m <= n, Balance(l, n, b, r)
  PROVE  Balance(l, m, b, r)
<1>1. PICK c \in r .. b : Reaches(l, b, r, c) /\ b + n + Count(l, UpTo(c)) - c <= 2 * Depth
  BY DEF Balance
<1>2. Count(l, UpTo(c)) \in Nat
  BY CountType
<1>3. b + m + Count(l, UpTo(c)) - c <= 2 * Depth
  BY <1>1, <1>2, WordIs
<1> QED BY <1>1, <1>3 DEF Balance

-------------------------------------------------------------------------------
(* What the steps do to the packets under way.                             *)

LEMMA QueueEnd ==
  ASSUME NEW X, NEW q \in Seq(X), NEW x \in X
  PROVE  /\ Len(q) \in Nat /\ Append(q, x) \in Seq(X) /\ Len(Append(q, x)) = Len(q) + 1
         /\ \A i \in 1 .. Len(Append(q, x)) :
              Append(q, x)[i] = IF i <= Len(q) THEN q[i] ELSE x
BY AppendProperties

LEMMA QueueFront ==
  ASSUME NEW X, NEW q \in Seq(X), q # <<>>
  PROVE  /\ Len(q) \in Nat /\ Len(q) >= 1 /\ Head(q) = q[1] /\ Head(q) \in X
         /\ Tail(q) \in Seq(X) /\ Len(Tail(q)) = Len(q) - 1
         /\ \A i \in 1 .. Len(Tail(q)) : Tail(q)[i] = q[i + 1] /\ i + 1 \in 1 .. Len(q)
         /\ \A i \in 1 .. Len(q) : i # 1 => i - 1 \in 1 .. Len(Tail(q)) /\ Tail(q)[i - 1] = q[i]
<1>1. /\ Len(q) \in Nat /\ Len(q) >= 1 /\ Head(q) = q[1] /\ Head(q) \in X
      /\ Tail(q) \in Seq(X) /\ Len(Tail(q)) = Len(q) - 1
      /\ \A i \in 1 .. Len(Tail(q)) : Tail(q)[i] = q[i + 1]
  BY HeadTailProperties, EmptySeq
<1>2. \A i \in 1 .. Len(Tail(q)) : i + 1 \in 1 .. Len(q)
  BY <1>1
<1>3. ASSUME NEW i \in 1 .. Len(q), i # 1
      PROVE  i - 1 \in 1 .. Len(Tail(q)) /\ Tail(q)[i - 1] = q[i]
  <2>1. i - 1 \in 1 .. Len(Tail(q)) /\ (i - 1) + 1 = i
    BY <1>1, <1>3
  <2> QED BY <1>1, <2>1
<1> QED BY <1>1, <1>2, <1>3

\* Counting does not see what is not there.
LEMMA CountUnseen ==
  ASSUME NEW l \in Seq(Frames), NEW c \in Nat,
         \A i \in 1 .. Len(l) : l[i] # Packet(c + 1)
  PROVE  Count(l, UpTo(c + 1)) = Count(l, UpTo(c))
<1>1. 0 .. (c + 1) = (0 .. c) \cup {c + 1}
  OBVIOUS
<1>2. UpTo(c + 1) = UpTo(c) \cup {Packet(c + 1)}
  BY <1>1 DEF UpTo
<1>3. Places(l, UpTo(c + 1)) = Places(l, UpTo(c))
  BY <1>2 DEF Places
<1> QED BY <1>3 DEF Count

LEMMA UpToFacts ==
  ASSUME NEW c \in Nat, NEW k \in Nat
  PROVE  Packet(k) \in UpTo(c) <=> k <= c
BY FrameFacts DEF UpTo

LEMMA CountFront ==
  ASSUME NEW l \in Seq(Frames), l # <<>>, NEW c \in Nat
  PROVE  /\ Count(l, UpTo(c)) \in Nat /\ Count(Tail(l), UpTo(c)) \in Nat
         /\ Head(l) \in UpTo(c) => Count(l, UpTo(c)) = Count(Tail(l), UpTo(c)) + 1
         /\ Head(l) \notin UpTo(c) => Count(l, UpTo(c)) = Count(Tail(l), UpTo(c))
<1> DEFINE t == Tail(l)
           S == UpTo(c)
<1>1. t \in Seq(Frames)
  BY QueueFront
<1>2. Count(l, S) = Count(t, S) + (IF Head(l) \in S THEN 1 ELSE 0)
  BY CountTail
<1> HIDE DEF t, S
<1>3. Count(l, S) \in Nat /\ Count(t, S) \in Nat
  BY <1>1, CountType
<1> QED BY <1>2, <1>3 DEF t, S

\* The transmitter sends a packet: the next one, or the same again.
LEMMA OrderedSend ==
  ASSUME NEW l \in Seq(Frames), NEW r \in Nat, NEW b \in Nat, NEW k \in {b, b + 1},
         r <= b, k <= Blocks, Ordered(l, b, r)
  PROVE  Ordered(l, k, r) /\ Ordered(Append(l, Packet(k)), k, r)
<1> DEFINE a == Append(l, Packet(k))
<1>1. k \in Nat /\ Packet(k) \in Frames
  BY WordIs DEF Frames
<1>2. /\ Len(l) \in Nat /\ Len(a) = Len(l) + 1
      /\ \A i \in 1 .. Len(a) : a[i] = IF i <= Len(l) THEN l[i] ELSE Packet(k)
  BY <1>1, QueueEnd
<1> HIDE DEF a
<1>3. Ordered(l, k, r)
  BY <1>1 DEF Ordered
<1>4. ASSUME NEW i \in 1 .. Len(a), NEW m \in Nat, a[i] = Packet(m)
      PROVE  /\ r <= m /\ m <= k
             /\ \A j \in i .. Len(a), p \in Nat : a[j] = Packet(p) => m <= p
  <2>1. CASE i <= Len(l)
    <3>1. i \in 1 .. Len(l) /\ l[i] = Packet(m)
      BY <1>2, <1>4, <2>1
    <3>2. r <= m /\ m <= k
      BY <1>3, <3>1 DEF Ordered
    <3>3. ASSUME NEW j \in i .. Len(a), NEW p \in Nat, a[j] = Packet(p) PROVE m <= p
      <4>1. CASE j <= Len(l)
        <5>1. j \in i .. Len(l) /\ l[j] = Packet(p)
          BY <1>2, <3>3, <4>1
        <5> QED BY <1>3, <3>1, <5>1 DEF Ordered
      <4>2. CASE j > Len(l)
        <5>1. Packet(p) = Packet(k)
          BY <1>2, <3>1, <3>3, <4>2
        <5> QED BY <1>1, <3>2, <5>1, FrameFacts
      <4> QED BY <1>2, <3>1, <4>1, <4>2
    <3> QED BY <3>2, <3>3
  <2>2. CASE i > Len(l)
    <3>1. m = k /\ i = Len(a)
      BY <1>1, <1>2, <1>4, <2>2, FrameFacts
    <3>2. \A j \in i .. Len(a) : j = i
      BY <1>2, <3>1
    <3>3. \A j \in i .. Len(a), p \in Nat : a[j] = Packet(p) => p = m
      BY <1>4, <3>2, FrameFacts
    <3> QED BY <1>1, <3>1, <3>3
  <2> QED BY <1>2, <2>1, <2>2
<1> QED BY <1>3, <1>4 DEF Ordered, a

LEMMA BalanceSend ==
  ASSUME NEW l \in Seq(Frames), NEW r \in Nat, NEW b \in Nat, NEW n \in Nat,
         b + 1 <= Blocks, Ordered(l, b, r), Balance(l, n + 1, b, r)
  PROVE  Balance(l, n, b + 1, r) /\ Balance(Append(l, Packet(b + 1)), n, b + 1, r)
<1> DEFINE a == Append(l, Packet(b + 1))
<1>1. PICK c \in r .. b :
        Reaches(l, b, r, c) /\ b + (n + 1) + Count(l, UpTo(c)) - c <= 2 * Depth
  BY DEF Balance
<1>2. Packet(b + 1) \in Frames /\ c \in Nat /\ c <= b /\ c \in r .. (b + 1)
  <2>1. b + 1 \in 0 .. Blocks
    BY WordIs
  <2>2. Packet(b + 1) \in Frames
    BY <2>1 DEF Frames
  <2>3. c \in Nat /\ c <= b /\ c \in r .. (b + 1)
    OBVIOUS
  <2> QED BY <2>2, <2>3
<1>3. /\ Len(l) \in Nat /\ Len(a) = Len(l) + 1 /\ a \in Seq(Frames)
      /\ \A i \in 1 .. Len(a) : a[i] = IF i <= Len(l) THEN l[i] ELSE Packet(b + 1)
  BY <1>2, QueueEnd
<1>4. Count(l, UpTo(c)) \in Nat
  BY CountType
<1>5. \A i \in 1 .. Len(l) : l[i] # Packet(b + 1)
  BY DEF Ordered
<1>6. c <= b => \A i \in 1 .. Len(l) : l[i] # Packet(c + 1)
  BY <1>1, <1>2, <1>5 DEF Reaches
<1>7. Balance(l, n, b + 1, r)
  <2>1. Reaches(l, b + 1, r, c)
    BY <1>1, <1>2, <1>6 DEF Reaches
  <2>2. (b + 1) + n + Count(l, UpTo(c)) - c <= 2 * Depth
    BY <1>1, <1>4, WordIs
  <2> QED BY <1>2, <2>1, <2>2 DEF Balance
<1>8. Balance(a, n, b + 1, r)
  <2>0. \A S : Count(a, S) = Count(l, S) + (IF Packet(b + 1) \in S THEN 1 ELSE 0)
    BY <1>2, CountAppend
  <2> HIDE DEF a
  <2>1. \A k \in (r + 1) .. c : \E i \in 1 .. Len(a) : a[i] = Packet(k)
    <3> SUFFICES ASSUME NEW k \in (r + 1) .. c PROVE \E i \in 1 .. Len(a) : a[i] = Packet(k)
      OBVIOUS
    <3>1. PICK i \in 1 .. Len(l) : l[i] = Packet(k)
      BY <1>1 DEF Reaches
    <3>2. i \in 1 .. Len(a) /\ a[i] = Packet(k)
      BY <1>3, <3>1
    <3> QED BY <3>2
  <2>2. CASE c = b
    <3>1. Len(a) \in 1 .. Len(a) /\ a[Len(a)] = Packet(b + 1)
      BY <1>3
    <3>2. \A k \in (r + 1) .. (b + 1) : k \in (r + 1) .. c \/ k = b + 1
      BY <2>2
    <3>3. \A k \in (r + 1) .. (b + 1) : \E i \in 1 .. Len(a) : a[i] = Packet(k)
      BY <2>1, <3>1, <3>2
    <3>9. Reaches(a, b + 1, r, b + 1)
      BY <3>3 DEF Reaches
    <3>4. Count(l, UpTo(b + 1)) = Count(l, UpTo(b))
      BY <1>5, CountUnseen
    <3>5. Count(a, UpTo(b + 1)) = Count(l, UpTo(b)) + 1
      BY <2>0, <3>4, UpToFacts
    <3>6. (b + 1) + n + Count(a, UpTo(b + 1)) - (b + 1) <= 2 * Depth
      BY <1>1, <1>4, <2>2, <3>5, WordIs
    <3>7. b + 1 \in r .. (b + 1)
      BY <1>2
    <3> QED BY <3>6, <3>7, <3>9 DEF Balance
  <2>3. CASE c < b
    <3>1. \A i \in 1 .. Len(a) : a[i] # Packet(c + 1)
      BY <1>2, <1>3, <1>6, <2>3, FrameFacts
    <3>2. Reaches(a, b + 1, r, c)
      BY <2>1, <3>1 DEF Reaches
    <3>3. Count(a, UpTo(c)) = Count(l, UpTo(c))
      BY <1>2, <1>4, <2>0, <2>3, UpToFacts
    <3>4. (b + 1) + n + Count(a, UpTo(c)) - c <= 2 * Depth
      BY <1>1, <1>4, <3>3, WordIs
    <3> QED BY <1>2, <3>2, <3>4 DEF Balance
  <2> QED BY <1>2, <2>2, <2>3
<1> QED BY <1>7, <1>8

LEMMA BalanceResend ==
  ASSUME NEW l \in Seq(Frames), NEW r \in Nat, NEW b \in Nat, NEW n \in Nat,
         b <= Blocks, n <= Depth, Len(l) < Depth, Balance(l, n, b, r)
  PROVE  Balance(Append(l, Packet(b)), n, b, r)
<1> DEFINE a == Append(l, Packet(b))
<1>1. PICK c \in r .. b : Reaches(l, b, r, c) /\ b + n + Count(l, UpTo(c)) - c <= 2 * Depth
  BY DEF Balance
<1>2. Packet(b) \in Frames /\ c \in Nat /\ c <= b /\ b \in r .. b
  BY WordIs DEF Frames
<1>3. /\ Len(l) \in Nat /\ Len(a) = Len(l) + 1 /\ a \in Seq(Frames)
      /\ \A i \in 1 .. Len(a) : a[i] = IF i <= Len(l) THEN l[i] ELSE Packet(b)
  BY <1>2, QueueEnd
<1>4. /\ Count(l, UpTo(c)) \in Nat
      /\ Count(a, UpTo(b)) \in Nat /\ Count(a, UpTo(b)) <= Len(a)
  BY <1>3, CountType
<1>5. \A S : Count(a, S) = Count(l, S) + (IF Packet(b) \in S THEN 1 ELSE 0)
  BY <1>2, CountAppend
<1> HIDE DEF a
<1>6. \A k \in (r + 1) .. c : \E i \in 1 .. Len(a) : a[i] = Packet(k)
  <2> SUFFICES ASSUME NEW k \in (r + 1) .. c PROVE \E i \in 1 .. Len(a) : a[i] = Packet(k)
    OBVIOUS
  <2>1. PICK i \in 1 .. Len(l) : l[i] = Packet(k)
    BY <1>1 DEF Reaches
  <2>2. i \in 1 .. Len(a) /\ a[i] = Packet(k)
    BY <1>3, <2>1
  <2> QED BY <2>2
<1>7. CASE c = b
  <2>1. Reaches(a, b, r, b)
    BY <1>6, <1>7 DEF Reaches
  <2>2. b + n + Count(a, UpTo(b)) - b <= 2 * Depth
    BY <1>3, <1>4, WordIs
  <2> QED BY <1>2, <2>1, <2>2 DEF Balance, a
<1>8. CASE c = b - 1
  <2>1. Len(a) \in 1 .. Len(a) /\ a[Len(a)] = Packet(b)
    BY <1>3
  <2>2. \A k \in (r + 1) .. b : k \in (r + 1) .. c \/ k = b
    BY <1>8
  <2>3. Reaches(a, b, r, b)
    <3>1. \A k \in (r + 1) .. b : \E i \in 1 .. Len(a) : a[i] = Packet(k)
      BY <1>6, <2>1, <2>2
    <3> QED BY <3>1 DEF Reaches
  <2>4. c + 1 = b /\ \A i \in 1 .. Len(l) : l[i] # Packet(c + 1)
    BY <1>1, <1>8 DEF Reaches
  <2>5. Count(l, UpTo(c + 1)) = Count(l, UpTo(c))
    BY <1>2, <2>4, CountUnseen
  <2>6. Count(a, UpTo(b)) = Count(l, UpTo(c)) + 1
    BY <1>5, <2>4, <2>5, UpToFacts
  <2>7. b + n + Count(a, UpTo(b)) - b <= 2 * Depth
    BY <1>1, <1>4, <1>8, <2>6, WordIs
  <2> QED BY <1>2, <2>3, <2>7 DEF Balance, a
<1>9. CASE c < b - 1
  <2>1. \A i \in 1 .. Len(l) : l[i] # Packet(c + 1)
    BY <1>1, <1>9 DEF Reaches
  <2>2. \A i \in 1 .. Len(a) : a[i] # Packet(c + 1)
    BY <1>2, <1>3, <1>9, <2>1, FrameFacts
  <2>3. Reaches(a, b, r, c)
    BY <1>6, <2>2 DEF Reaches
  <2>4. Count(a, UpTo(c)) = Count(l, UpTo(c))
    BY <1>2, <1>4, <1>5, <1>9, UpToFacts
  <2>5. b + n + Count(a, UpTo(c)) - c <= 2 * Depth
    BY <1>1, <2>4
  <2> QED BY <2>3, <2>5 DEF Balance, a
<1> QED BY <1>2, <1>7, <1>8, <1>9

\* Anything else that is sent changes nothing.
LEMMA BalanceOther ==
  ASSUME NEW l \in Seq(Frames), NEW r \in Nat, NEW b \in Nat, NEW n \in Nat, NEW x \in Others,
         Ordered(l, b, r), Balance(l, n, b, r)
  PROVE  Ordered(Append(l, x), b, r) /\ Balance(Append(l, x), n, b, r)
<1> DEFINE a == Append(l, x)
<1>1. PICK c \in r .. b : Reaches(l, b, r, c) /\ b + n + Count(l, UpTo(c)) - c <= 2 * Depth
  BY DEF Balance
<1>2. x \in Frames /\ c \in Nat /\ \A k \in Nat : x # Packet(k)
  BY FrameFacts DEF Frames, Others
<1>3. /\ Len(l) \in Nat /\ Len(a) = Len(l) + 1
      /\ \A i \in 1 .. Len(a) : a[i] = IF i <= Len(l) THEN l[i] ELSE x
  BY <1>2, QueueEnd
<1>4. Count(a, UpTo(c)) = Count(l, UpTo(c)) + (IF x \in UpTo(c) THEN 1 ELSE 0)
  BY <1>2, CountAppend
<1>5. x \notin UpTo(c) /\ Count(l, UpTo(c)) \in Nat
  BY <1>2, CountType DEF UpTo
<1> HIDE DEF a
<1>6. \A i \in 1 .. Len(a), k \in Nat : a[i] = Packet(k) => i \in 1 .. Len(l) /\ l[i] = Packet(k)
  BY <1>2, <1>3
<1>7. \A i \in 1 .. Len(l) : i \in 1 .. Len(a) /\ a[i] = l[i]
  BY <1>3
<1>8. Ordered(a, b, r)
  <2> SUFFICES ASSUME NEW i \in 1 .. Len(a), NEW k \in Nat, a[i] = Packet(k)
               PROVE  /\ r <= k /\ k <= b
                      /\ \A j \in i .. Len(a), m \in Nat : a[j] = Packet(m) => k <= m
    BY DEF Ordered
  <2>1. i \in 1 .. Len(l) /\ l[i] = Packet(k)
    BY <1>6
  <2>2. \A j \in i .. Len(a), m \in Nat :
          a[j] = Packet(m) => j \in i .. Len(l) /\ l[j] = Packet(m)
    BY <1>3, <1>6, <2>1
  <2> QED BY <2>1, <2>2 DEF Ordered
<1>9. Reaches(a, b, r, c)
  <2>1. \A k \in (r + 1) .. c : \E i \in 1 .. Len(a) : a[i] = Packet(k)
    BY <1>1, <1>7 DEF Reaches
  <2>2. ASSUME c < b, NEW i \in 1 .. Len(a) PROVE a[i] # Packet(c + 1)
    <3>1. c + 1 \in Nat /\ \A j \in 1 .. Len(l) : l[j] # Packet(c + 1)
      BY <1>1, <1>2, <2>2 DEF Reaches
    <3> QED BY <1>6, <3>1
  <2> QED BY <2>1, <2>2 DEF Reaches
<1>10. b + n + Count(a, UpTo(c)) - c <= 2 * Depth
  BY <1>1, <1>4, <1>5
<1> QED BY <1>8, <1>9, <1>10 DEF Balance, a

\* The head of the line is gone.
LEMMA OrderedTail ==
  ASSUME NEW l \in Seq(Frames), l # <<>>, NEW r \in Nat, NEW b \in Nat, Ordered(l, b, r)
  PROVE  /\ Ordered(Tail(l), b, r)
         /\ \A h \in Nat : Head(l) = Packet(h) => r <= h /\ h <= b /\ Ordered(Tail(l), b, h)
<1> DEFINE t == Tail(l)
<1>1. /\ Len(l) \in Nat /\ Len(l) >= 1 /\ Head(l) = l[1] /\ Len(t) = Len(l) - 1
      /\ \A i \in 1 .. Len(t) : t[i] = l[i + 1] /\ i + 1 \in 1 .. Len(l)
  BY QueueFront
<1> HIDE DEF t
<1>2. ASSUME NEW i \in 1 .. Len(t), NEW k \in Nat, t[i] = Packet(k)
      PROVE  /\ r <= k /\ k <= b
             /\ \A j \in i .. Len(t), m \in Nat : t[j] = Packet(m) => k <= m
             /\ \A h \in Nat : Head(l) = Packet(h) => h <= k
  <2>1. i + 1 \in 1 .. Len(l) /\ l[i + 1] = Packet(k)
    BY <1>1, <1>2
  <2>2. ASSUME NEW j \in i .. Len(t), NEW m \in Nat, t[j] = Packet(m) PROVE k <= m
    <3>1. j + 1 \in (i + 1) .. Len(l) /\ l[j + 1] = Packet(m)
      BY <1>1, <2>2
    <3> QED BY <2>1, <3>1 DEF Ordered
  <2>3. 1 \in 1 .. Len(l) /\ i + 1 \in 1 .. Len(l)
    BY <1>1
  <2>4. \A h \in Nat : l[1] = Packet(h) => h <= k
    BY <2>1, <2>3 DEF Ordered
  <2> QED BY <1>1, <2>1, <2>2, <2>4 DEF Ordered
<1>3. \A h \in Nat : Head(l) = Packet(h) => r <= h /\ h <= b
  BY <1>1 DEF Ordered
<1> QED BY <1>2, <1>3 DEF Ordered, t

LEMMA ReachesTail ==
  ASSUME NEW l \in Seq(Frames), l # <<>>, NEW r \in Nat, NEW b \in Nat, NEW c \in r .. b,
         Reaches(l, b, r, c), NEW s \in r .. c,
         \A k \in (s + 1) .. c : Head(l) = Packet(k) =>
           \E i \in 1 .. Len(Tail(l)) : Tail(l)[i] = Packet(k)
  PROVE  Reaches(Tail(l), b, s, c)
<1> DEFINE t == Tail(l)
<1>1. /\ Head(l) = l[1]
      /\ \A i \in 1 .. Len(t) : t[i] = l[i + 1] /\ i + 1 \in 1 .. Len(l)
      /\ \A i \in 1 .. Len(l) : i # 1 => i - 1 \in 1 .. Len(t) /\ t[i - 1] = l[i]
  BY QueueFront
<1> HIDE DEF t
<1>2. ASSUME NEW k \in (s + 1) .. c PROVE \E i \in 1 .. Len(t) : t[i] = Packet(k)
  <2>1. k \in (r + 1) .. c
    OBVIOUS
  <2>2. PICK i \in 1 .. Len(l) : l[i] = Packet(k)
    BY <2>1 DEF Reaches
  <2>3. CASE i = 1
    BY <1>1, <2>2, <2>3 DEF t
  <2>4. CASE i # 1
    BY <1>1, <2>2, <2>4
  <2> QED BY <2>3, <2>4
<1>3. c < b => \A i \in 1 .. Len(t) : t[i] # Packet(c + 1)
  BY <1>1 DEF Reaches
<1> QED BY <1>2, <1>3 DEF Reaches, t

\* It is lost.
LEMMA BalanceLost ==
  ASSUME NEW l \in Seq(Frames), l # <<>>, NEW r \in Nat, NEW b \in Nat, NEW n \in Nat,
         Ordered(l, b, r), Balance(l, n, b, r)
  PROVE  Balance(Tail(l), n, b, r)
<1> DEFINE t == Tail(l)
<1>1. PICK c \in r .. b : Reaches(l, b, r, c) /\ b + n + Count(l, UpTo(c)) - c <= 2 * Depth
  BY DEF Balance
<1>2. /\ c \in Nat /\ r \in r .. c
      /\ Count(t, UpTo(c)) \in Nat /\ Count(l, UpTo(c)) \in Nat
      /\ Head(l) \in UpTo(c) => Count(l, UpTo(c)) = Count(t, UpTo(c)) + 1
      /\ Head(l) \notin UpTo(c) => Count(l, UpTo(c)) = Count(t, UpTo(c))
  <2>1. c \in Nat /\ r \in r .. c
    OBVIOUS
  <2> QED BY <2>1, CountFront
<1>3. b + n + Count(t, UpTo(c)) - c <= 2 * Depth
  <2> HIDE DEF t
  <2> QED BY <1>1, <1>2, WordIs
<1>4. CASE \A k \in (r + 1) .. c : Head(l) = Packet(k) => \E i \in 1 .. Len(t) : t[i] = Packet(k)
  <2>1. Reaches(t, b, r, c)
    BY <1>1, <1>2, <1>4, ReachesTail
  <2> QED BY <1>3, <2>1 DEF Balance
<1>5. ASSUME NEW h \in (r + 1) .. c, Head(l) = Packet(h),
             \A i \in 1 .. Len(t) : t[i] # Packet(h)
      PROVE  Balance(t, n, b, r)
  <2>1. /\ Len(l) \in Nat /\ Len(l) >= 1 /\ Head(l) = l[1]
        /\ \A i \in 1 .. Len(t) : t[i] = l[i + 1] /\ i + 1 \in 1 .. Len(l)
        /\ \A i \in 1 .. Len(l) : i # 1 => i - 1 \in 1 .. Len(t) /\ t[i - 1] = l[i]
    BY QueueFront
  <2>2. Ordered(t, b, h) /\ h \in Nat
    BY <1>5, OrderedTail
  <2> HIDE DEF t
  <2>3. h = r + 1
    <3>1. r + 1 \in (r + 1) .. c
      OBVIOUS
    <3>2. PICK i \in 1 .. Len(l) : l[i] = Packet(r + 1)
      BY <1>1, <3>1 DEF Reaches
    <3>3. CASE i = 1
      BY <1>5, <2>1, <3>2, <3>3, FrameFacts
    <3>4. CASE i # 1
      <4>1. i - 1 \in 1 .. Len(t) /\ t[i - 1] = Packet(r + 1)
        BY <2>1, <3>2, <3>4
      <4>2. h <= r + 1
        BY <2>2, <4>1 DEF Ordered
      <4> QED BY <4>2
    <3> QED BY <3>3, <3>4
  <2>4. Reaches(t, b, r, r)
    BY <1>5, <2>3 DEF Reaches
  <2>5. Places(t, UpTo(r)) = {}
    <3> SUFFICES ASSUME NEW i \in 1 .. Len(t), t[i] \in UpTo(r) PROVE FALSE
      BY DEF Places
    <3>1. PICK k \in 0 .. r : t[i] = Packet(k)
      BY DEF UpTo
    <3>2. h <= k
      BY <2>2, <3>1 DEF Ordered
    <3> QED BY <2>3, <3>2
  <2>6. Count(t, UpTo(r)) = 0
    BY <2>5, FS_EmptySet DEF Count
  <2>7. b + n + Count(t, UpTo(r)) - r <= 2 * Depth
    BY <2>6, AheadBound, WordIs
  <2> QED BY <2>4, <2>7 DEF Balance
<1> QED BY <1>4, <1>5

\* It is garbled.
LEMMA BalanceGarbled ==
  ASSUME NEW l \in Seq(Frames), l # <<>>, NEW r \in Nat, NEW b \in Nat, NEW n \in Nat,
         Ordered(l, b, r), Balance(l, n, b, r)
  PROVE  /\ Ordered([l EXCEPT ![1] = Noise], b, r)
         /\ Balance([l EXCEPT ![1] = Noise], n, b, r)
<1> DEFINE g == [l EXCEPT ![1] = Noise]
           t == Tail(l)
<1>0. Noise \in Frames /\ \A k \in Nat : Noise # Packet(k)
  BY FrameFacts DEF Frames, Others
<1>1. /\ Len(l) \in Nat /\ Len(l) >= 1
      /\ \A i \in 1 .. Len(t) : t[i] = l[i + 1] /\ i + 1 \in 1 .. Len(l)
  BY QueueFront
<1>2. Len(g) = Len(l) /\ \A i \in 1 .. Len(l) : g[i] = IF i = 1 THEN Noise ELSE l[i]
  BY <1>0, <1>1, ExceptSeq
<1>3. Balance(t, n, b, r)
  BY BalanceLost
<1>4. PICK c \in r .. b : Reaches(t, b, r, c) /\ b + n + Count(t, UpTo(c)) - c <= 2 * Depth
  BY <1>3 DEF Balance
<1>5. Count(g, UpTo(c)) = Count(t, UpTo(c))
  <2>1. Noise \notin UpTo(c)
    BY <1>0 DEF UpTo
  <2> QED BY <1>0, <2>1, CountGarbled
<1>6. \A i \in 1 .. Len(l) : i # 1 => i - 1 \in 1 .. Len(t) /\ t[i - 1] = l[i]
  BY QueueFront
<1> HIDE DEF g, t
<1>7. Reaches(g, b, r, c)
  <2>1. ASSUME NEW k \in (r + 1) .. c PROVE \E i \in 1 .. Len(g) : g[i] = Packet(k)
    <3>1. PICK i \in 1 .. Len(t) : t[i] = Packet(k)
      BY <1>4 DEF Reaches
    <3>2. i + 1 \in 1 .. Len(g) /\ i + 1 # 1 /\ g[i + 1] = Packet(k)
      BY <1>1, <1>2, <3>1
    <3> QED BY <3>2
  <2>2. ASSUME c < b, NEW i \in 1 .. Len(g) PROVE g[i] # Packet(c + 1)
    <3>1. CASE i = 1
      BY <1>0, <1>2, <2>2, <3>1
    <3>2. CASE i # 1
      BY <1>2, <1>4, <1>6, <2>2, <3>2 DEF Reaches
    <3> QED BY <3>1, <3>2
  <2> QED BY <2>1, <2>2 DEF Reaches
<1>8. Ordered(g, b, r)
  <2>1. \A i \in 1 .. Len(g), k \in Nat : g[i] = Packet(k) => l[i] = Packet(k) /\ i \in 1 .. Len(l)
    BY <1>0, <1>2
  <2> SUFFICES ASSUME NEW i \in 1 .. Len(g), NEW k \in Nat, g[i] = Packet(k)
               PROVE  /\ r <= k /\ k <= b
                      /\ \A j \in i .. Len(g), m \in Nat : g[j] = Packet(m) => k <= m
    BY DEF Ordered
  <2>2. \A j \in i .. Len(g) : j \in 1 .. Len(g) /\ j \in i .. Len(l)
    BY <1>1, <1>2
  <2> QED BY <2>1, <2>2 DEF Ordered
<1> QED BY <1>4, <1>5, <1>7, <1>8 DEF Balance, g

\* It is the packet expected: it makes room for its acknowledgement.
LEMMA BalanceStore ==
  ASSUME NEW l \in Seq(Frames), l # <<>>, NEW r \in Nat, NEW b \in Nat, NEW n \in Nat,
         Ordered(l, b, r), Balance(l, n, b, r), Head(l) = Packet(r + 1)
  PROVE  r + 1 <= b /\ Ordered(Tail(l), b, r + 1) /\ Balance(Tail(l), n + 1, b, r + 1)
<1> DEFINE t == Tail(l)
<1>1. PICK c \in r .. b : Reaches(l, b, r, c) /\ b + n + Count(l, UpTo(c)) - c <= 2 * Depth
  BY DEF Balance
<1>2. r + 1 <= b /\ Ordered(t, b, r + 1)
  BY OrderedTail
<1>3. r + 1 <= c
  <2>1. 1 \in 1 .. Len(l) /\ l[1] = Packet(r + 1)
    BY QueueFront
  <2>2. CASE c = r
    BY <1>1, <1>2, <2>1, <2>2 DEF Reaches
  <2> QED BY <2>2
<1>4. /\ c \in Nat
      /\ Count(t, UpTo(c)) \in Nat /\ Count(l, UpTo(c)) \in Nat
      /\ Head(l) \in UpTo(c) => Count(l, UpTo(c)) = Count(t, UpTo(c)) + 1
      /\ Head(l) \notin UpTo(c) => Count(l, UpTo(c)) = Count(t, UpTo(c))
  <2>1. c \in Nat
    OBVIOUS
  <2> QED BY <2>1, CountFront
<1>5. Head(l) \in UpTo(c)
  BY <1>3, <1>4, UpToFacts
<1>6. Reaches(t, b, r + 1, c)
  <2>1. r + 1 \in r .. c
    BY <1>3
  <2>2. \A k \in ((r + 1) + 1) .. c : Head(l) # Packet(k)
    BY FrameFacts
  <2> QED BY <1>1, <2>1, <2>2, ReachesTail
<1>7. c \in (r + 1) .. b /\ b + (n + 1) + Count(t, UpTo(c)) - c <= 2 * Depth
  BY <1>1, <1>3, <1>4, <1>5
<1> QED BY <1>2, <1>6, <1>7 DEF Balance

\* It is a duplicate, which is acknowledged again.
LEMMA BalanceRepeated ==
  ASSUME NEW l \in Seq(Frames), l # <<>>, NEW r \in Nat, NEW b \in Nat, NEW n \in Nat,
         Ordered(l, b, r), Balance(l, n, b, r), Head(l) = Packet(r)
  PROVE  Balance(Tail(l), n + 1, b, r)
<1> DEFINE t == Tail(l)
<1>1. PICK c \in r .. b : Reaches(l, b, r, c) /\ b + n + Count(l, UpTo(c)) - c <= 2 * Depth
  BY DEF Balance
<1>2. /\ c \in Nat /\ r \in r .. c
      /\ Count(t, UpTo(c)) \in Nat /\ Count(l, UpTo(c)) \in Nat
      /\ Head(l) \in UpTo(c) => Count(l, UpTo(c)) = Count(t, UpTo(c)) + 1
      /\ Head(l) \notin UpTo(c) => Count(l, UpTo(c)) = Count(t, UpTo(c))
  <2>1. c \in Nat /\ r \in r .. c
    OBVIOUS
  <2> QED BY <2>1, CountFront
<1>3. Head(l) \in UpTo(c)
  BY <1>2, UpToFacts
<1>4. Reaches(t, b, r, c)
  <2>1. \A k \in (r + 1) .. c : Head(l) # Packet(k)
    BY FrameFacts
  <2> QED BY <1>1, <1>2, <2>1, ReachesTail
<1>5. b + (n + 1) + Count(t, UpTo(c)) - c <= 2 * Depth
  BY <1>1, <1>2, <1>3
<1> QED BY <1>4, <1>5 DEF Balance

-------------------------------------------------------------------------------
(* The invariant.                                                          *)

Answers == {"ACK", "NAK", "C", "CAN", "noise"}
Acks == Count(answers, {"ACK"})

TypeOK ==
  /\ line \in Seq(Frames) /\ Len(line) <= Depth
  /\ answers \in Seq(Answers) /\ Len(answers) <= Depth
  /\ sender \in {"sync", "data", "eot", "done", "failed"}
  /\ block \in 0 .. Blocks /\ tries \in Nat
  /\ receiver \in {"wait", "done", "cancelled", "retries"}
  /\ packetno \in 0 .. (Word - 1) /\ trychar \in BOOLEAN /\ retrans \in Int
  /\ dest \in Seq(Nat) /\ astray \in BOOLEAN

\* The receiver has accepted r packets, and stored those there is room for.
Follows(r) ==
  /\ r <= block /\ packetno = (r + 1) % Word
  /\ Len(dest) = (IF r < DestSize THEN r ELSE DestSize)
  /\ \A k \in 1 .. Len(dest) : dest[k] = k

\* While it receives, the packets under way are in order and the transmitter is
\* not too far ahead.
Window(r) == Receiving => Ordered(line, block, r) /\ Balance(line, Acks, block, r)

\* Nothing is sent, and nothing acknowledged, before the receiver has asked.
Sync == sender = "sync" => block = 0 /\ line = <<>> /\ Acks = 0 /\ Receiving

\* As long as nothing goes astray, one thing is under way at a time, and what
\* it is tells where both ends are.
Elems(q) == {q[i] : i \in 1 .. Len(q)}
InStep(r) ==
  /\ Receiving /\ Sending => Len(line) + Len(answers) <= 1
  /\ Receiving /\ sender = "data" => /\ r + 1 >= block
                                     /\ "ACK" \in Elems(answers) => r = block
                                     /\ Elems(line) \subseteq {Packet(block), Noise}
  /\ Receiving /\ sender = "eot" => /\ r = Blocks /\ "ACK" \notin Elems(answers)
                                    /\ Elems(line) \subseteq {EOT, Noise}
  /\ Receiving /\ ~ Sending => sender = "failed" /\ Elems(line) \subseteq {CAN, Noise}
  /\ receiver = "done" => r = Blocks
  /\ receiver = "retries" => sender \in {"data", "failed"} /\ "ACK" \notin Elems(answers)
  /\ receiver = "cancelled" => sender = "failed"

Accepted(r) == Follows(r) /\ Window(r) /\ (~ astray => InStep(r))
IInv == TypeOK /\ Sync /\ \E r \in Nat : Accepted(r)

-------------------------------------------------------------------------------
(* Types.                                                                  *)

LEMMA FramesAre ==
  /\ EOT \in Frames /\ CAN \in Frames /\ Noise \in Frames
  /\ \A k \in 0 .. Blocks : Packet(k) \in Frames
BY DEF Frames

LEMMA PutType ==
  ASSUME NEW X, NEW q \in Seq(X), Len(q) <= Depth, NEW x \in X
  PROVE  Put(q, x) \in Seq(X) /\ Len(Put(q, x)) <= Depth
BY QueueEnd, WordIs DEF Put

LEMMA TailType ==
  ASSUME NEW X, NEW q \in Seq(X), Len(q) <= Depth, q # <<>>
  PROVE  Tail(q) \in Seq(X) /\ Len(Tail(q)) <= Depth
BY QueueFront, WordIs

LEMMA GarbledType ==
  ASSUME NEW X, NEW q \in Seq(X), Len(q) <= Depth, q # <<>>, NEW x \in X
  PROVE  [q EXCEPT ![1] = x] \in Seq(X) /\ Len([q EXCEPT ![1] = x]) <= Depth
<1>1. 1 \in 1 .. Len(q)
  BY QueueFront
<1> QED BY <1>1, ExceptSeq

\* What the transmitter does again.
LEMMA AgainDoes ==
  ASSUME TypeOK, Again
  PROVE  /\ block' = block /\ tries' \in Nat
         /\ \/ sender = "sync" /\ sender' = "sync" /\ line' = line
            \/ sender = "data" /\ sender' = "data" /\ line' = Put(line, Packet(block))
            \/ sender = "eot" /\ sender' = "eot" /\ line' = Put(line, EOT)
            \/ sender \in {"sync", "data"} /\ sender' = "failed" /\ line' = Put(line, CAN)
            \/ sender = "eot" /\ sender' = "failed" /\ line' = line
BY DEF TypeOK, Again, Resend, GiveUp, Leave

LEMMA NextDoes ==
  ASSUME TypeOK, SendNext
  PROVE  /\ tries' = 1
         /\ \/ /\ block < Blocks /\ block' = block + 1 /\ sender' = "data"
               /\ line' = Put(line, Packet(block + 1))
            \/ /\ block = Blocks /\ block' = block /\ sender' = "eot"
               /\ line' = Put(line, EOT)
BY WordIs DEF TypeOK, SendNext, Send

LEMMA AgainTypes ==
  ASSUME TypeOK, Again \/ SendNext
  PROVE  /\ line' \in Seq(Frames) /\ Len(line') <= Depth /\ block' \in 0 .. Blocks
         /\ sender' \in {"sync", "data", "eot", "done", "failed"} /\ tries' \in Nat
<1>1. CASE Again
  BY <1>1, AgainDoes, PutType, FramesAre DEF TypeOK
<1>2. CASE SendNext
  <2>1. block \in Nat /\ block <= Blocks /\ Blocks \in Nat
    BY WordIs DEF TypeOK
  <2>2. block < Blocks => block + 1 \in 0 .. Blocks
    BY <2>1
  <2>3. line \in Seq(Frames) /\ Len(line) <= Depth
    BY DEF TypeOK
  <2>4. CASE /\ block < Blocks /\ block' = block + 1 /\ sender' = "data"
             /\ line' = Put(line, Packet(block + 1))
    <3>1. Packet(block + 1) \in Frames
      BY <2>2, <2>4, FramesAre
    <3>2. line' \in Seq(Frames) /\ Len(line') <= Depth
      BY <2>3, <2>4, <3>1, PutType
    <3> QED BY <1>2, <2>2, <2>4, <3>2, NextDoes
  <2>5. CASE /\ block = Blocks /\ block' = block /\ sender' = "eot"
             /\ line' = Put(line, EOT)
    <3>1. line' \in Seq(Frames) /\ Len(line') <= Depth
      BY <2>3, <2>5, FramesAre, PutType
    <3> QED BY <1>2, <2>1, <2>5, <3>1, NextDoes
  <2> QED BY <1>2, <2>4, <2>5, NextDoes
<1> QED BY <1>1, <1>2

LEMMA TypesStep == TypeOK /\ [Next]_vars => TypeOK'
<1> SUFFICES ASSUME TypeOK, [Next]_vars PROVE TypeOK'
  OBVIOUS
<1> USE DEF receiving, sending
<1>1. ASSUME SenderTimeout PROVE TypeOK'
  BY <1>1, AgainTypes DEF SenderTimeout, TimesOut, TypeOK
<1>2. ASSUME NEW a \in Answers, Answered(a), Again \/ SendNext
      PROVE  TypeOK'
  BY <1>2, AgainTypes, TailType DEF Answered, TypeOK
<1>3. ASSUME NEW a \in Answers, Answered(a), Leave("failed") \/ Leave("done"), UNCHANGED line
      PROVE  TypeOK'
  BY <1>3, TailType DEF Answered, TypeOK, Leave
<1>4. CASE Acknowledged \/ Refused \/ Cancelled \/ Garbled
  BY <1>2, <1>3, <1>4 DEF Acknowledged, Refused, Cancelled, Garbled, Answers
<1>5. \A a \in Answers : /\ Put(answers, a) \in Seq(Answers)
                         /\ Len(Put(answers, a)) <= Depth
  BY PutType DEF TypeOK
<1>6. <<>> \in Seq(Frames) /\ Len(<<>>) <= Depth
  BY WordIs
<1>7. line # <<>> => /\ Tail(line) \in Seq(Frames) /\ Len(Tail(line)) <= Depth
                     /\ [line EXCEPT ![1] = Noise] \in Seq(Frames)
                     /\ Len([line EXCEPT ![1] = Noise]) <= Depth
  BY TailType, GarbledType, FramesAre DEF TypeOK
<1>8. answers # <<>> => /\ Tail(answers) \in Seq(Answers) /\ Len(Tail(answers)) <= Depth
                        /\ [answers EXCEPT ![1] = "noise"] \in Seq(Answers)
                        /\ Len([answers EXCEPT ![1] = "noise"]) <= Depth
  BY TailType, GarbledType DEF TypeOK, Answers
<1>9. CASE ReceiverTimeout
  BY <1>5, <1>9 DEF ReceiverTimeout, TimesOut, Answer, TypeOK, Answers
<1>10. CASE Store
  <2>1. Head(line).block \in Nat
    <3>1. Head(line) \in Frames
      BY <1>10, QueueFront DEF Store, Received, Comes, TypeOK
    <3>2. \A f \in Frames : f.block \in Nat
      BY WordIs DEF Frames, Packet, EOT, CAN, Noise
    <3> QED BY <3>1, <3>2
  <2>2. dest' \in Seq(Nat)
    BY <1>10, <2>1 DEF Store, TypeOK
  <2>3. packetno' \in 0 .. (Word - 1)
    <3>1. packetno + 1 \in Nat /\ Word \in Nat /\ Word >= 2
      BY WordIs DEF TypeOK
    <3>2. (packetno + 1) % Word \in 0 .. (Word - 1)
      BY <3>1
    <3> QED BY <1>10, <3>2 DEF Store
  <2>4. MaxRetrans \in Int
    BY XmodemAssumption
  <2> QED BY <1>5, <1>7, <1>10, <2>2, <2>3, <2>4 DEF Store, Received, Comes, Answer, TypeOK, Answers
<1>11. CASE Repeated
  <2>1. /\ line # <<>> /\ retrans' \in Int /\ trychar' = FALSE
        /\ UNCHANGED <<packetno, dest, sender, block, tries, astray>>
    BY <1>11 DEF Repeated, Received, Comes, TypeOK
  <2>2. \/ line' = Tail(line) /\ answers' = Put(answers, "ACK") /\ receiver' = receiver
        \/ line' = <<>> /\ answers' = Put(answers, "CAN") /\ receiver' = "retries"
    BY <1>11 DEF Repeated, Answer
  <2> QED BY <1>5, <1>6, <1>7, <2>1, <2>2 DEF TypeOK, Answers
<1>12. CASE Unexpected \/ ReceiveNoise
  BY <1>5, <1>6, <1>7, <1>12
     DEF Unexpected, ReceiveNoise, Reject, Received, Comes, Answer, TypeOK, Answers
<1>13. CASE Misread \/ ReceiveEot \/ ReceiveCan
  BY <1>5, <1>6, <1>7, <1>13
     DEF Misread, ReceiveEot, ReceiveCan, Return, Received, Comes, Answer, TypeOK, Answers
<1>14. CASE LoseFrame \/ LoseAnswer \/ GarbleFrame \/ GarbleAnswer
  BY <1>7, <1>8, <1>14 DEF LoseFrame, LoseAnswer, GarbleFrame, GarbleAnswer, TypeOK
<1>15. CASE UNCHANGED vars
  BY <1>15 DEF vars, TypeOK
<1> QED BY <1>1, <1>4, <1>9, <1>10, <1>11, <1>12, <1>13, <1>14, <1>15 DEF Next

-------------------------------------------------------------------------------
(* The window.                                                             *)

LEMMA AcksType ==
  ASSUME NEW q \in Seq(Answers)
  PROVE  /\ Count(q, {"ACK"}) \in Nat /\ Count(q, {"ACK"}) <= Len(q)
         /\ \A a \in Answers : /\ Count(Put(q, a), {"ACK"}) \in Nat
                               /\ Count(Put(q, a), {"ACK"}) <= Count(q, {"ACK"}) + 1
                               /\ a # "ACK" => Count(Put(q, a), {"ACK"}) = Count(q, {"ACK"})
         /\ q # <<>> =>
              /\ Count(Tail(q), {"ACK"}) \in Nat /\ Count(Tail(q), {"ACK"}) <= Count(q, {"ACK"})
              /\ Head(q) = "ACK" => Count(q, {"ACK"}) = Count(Tail(q), {"ACK"}) + 1
              /\ Count([q EXCEPT ![1] = "noise"], {"ACK"}) = Count(Tail(q), {"ACK"})
<1> DEFINE S == {"ACK"}
<1>1. Count(q, S) \in Nat /\ Count(q, S) <= Len(q)
  BY CountType
<1>2. ASSUME NEW a \in Answers
      PROVE  /\ Count(Put(q, a), S) \in Nat /\ Count(Put(q, a), S) <= Count(q, S) + 1
             /\ a # "ACK" => Count(Put(q, a), S) = Count(q, S)
  <2>1. Count(Append(q, a), S) = Count(q, S) + (IF a \in S THEN 1 ELSE 0)
    BY CountAppend
  <2>2. Put(q, a) = q \/ Put(q, a) = Append(q, a)
    BY DEF Put
  <2>3. a \in S <=> a = "ACK"
    OBVIOUS
  <2> HIDE DEF S
  <2>4. CASE Put(q, a) = q
    BY <1>1, <2>4
  <2>5. CASE Put(q, a) = Append(q, a)
    <3>1. Count(Put(q, a), S) = Count(q, S) + (IF a \in S THEN 1 ELSE 0)
      BY <2>1, <2>5
    <3> QED BY <1>1, <2>3, <3>1
  <2> QED BY <2>2, <2>4, <2>5
<1>3. ASSUME q # <<>>
      PROVE  /\ Count(Tail(q), S) \in Nat /\ Count(Tail(q), S) <= Count(q, S)
             /\ Head(q) = "ACK" => Count(q, S) = Count(Tail(q), S) + 1
             /\ Count([q EXCEPT ![1] = "noise"], S) = Count(Tail(q), S)
  <2>1. Tail(q) \in Seq(Answers)
    BY <1>3, QueueFront
  <2>2. Count(q, S) = Count(Tail(q), S) + (IF Head(q) \in S THEN 1 ELSE 0)
    BY <1>3, CountTail
  <2>3. Count([q EXCEPT ![1] = "noise"], S) = Count(Tail(q), S)
    <3>1. "noise" \in Answers /\ "noise" \notin S
      BY DEF Answers
    <3> QED BY <1>3, <3>1, CountGarbled
  <2>4. Head(q) \in S <=> Head(q) = "ACK"
    OBVIOUS
  <2> DEFINE t == Tail(q)
  <2> HIDE DEF S, t
  <2>5. Count(t, S) \in Nat
    BY <2>1, CountType DEF t
  <2> QED BY <1>1, <2>2, <2>3, <2>4, <2>5 DEF t
<1> QED BY <1>1, <1>2, <1>3

\* What is put on the line, when there is room or not.
LEMMA PutWindow ==
  ASSUME NEW l \in Seq(Frames), Len(l) <= Depth, NEW r \in Nat, NEW b \in 0 .. Blocks,
         NEW n \in Nat, n <= Depth, r <= b, Ordered(l, b, r), Balance(l, n, b, r)
  PROVE  /\ \A x \in Others : Ordered(Put(l, x), b, r) /\ Balance(Put(l, x), n, b, r)
         /\ Ordered(Put(l, Packet(b)), b, r) /\ Balance(Put(l, Packet(b)), n, b, r)
         /\ b < Blocks => \A m \in Nat : m + 1 = n =>
              /\ Ordered(Put(l, Packet(b + 1)), b + 1, r)
              /\ Balance(Put(l, Packet(b + 1)), m, b + 1, r)
<1>0. b \in Nat /\ b <= Blocks /\ b + 1 \in Nat /\ Len(l) \in Nat /\ Blocks \in Nat
  BY WordIs
<1>1. ASSUME NEW x \in Others
      PROVE  Ordered(Put(l, x), b, r) /\ Balance(Put(l, x), n, b, r)
  BY <1>0, BalanceOther DEF Put
<1>2. Ordered(Put(l, Packet(b)), b, r)
  BY <1>0, OrderedSend DEF Put
<1>3. Balance(Put(l, Packet(b)), n, b, r)
  BY <1>0, BalanceResend DEF Put
<1>4. ASSUME b < Blocks, NEW m \in Nat, m + 1 = n
      PROVE  /\ Ordered(Put(l, Packet(b + 1)), b + 1, r)
             /\ Balance(Put(l, Packet(b + 1)), m, b + 1, r)
  <2>1. b + 1 <= Blocks
    BY <1>0, <1>4
  <2>2. Ordered(l, b + 1, r) /\ Ordered(Append(l, Packet(b + 1)), b + 1, r)
    BY <1>0, <2>1, OrderedSend
  <2>3. Balance(l, m, b + 1, r) /\ Balance(Append(l, Packet(b + 1)), m, b + 1, r)
    BY <1>0, <1>4, <2>1, BalanceSend
  <2> QED BY <2>2, <2>3 DEF Put
<1> QED BY <1>1, <1>2, <1>3, <1>4

\* What the receiver makes of a packet's number.
LEMMA HeadIs ==
  ASSUME TypeOK, NEW r \in Nat, Follows(r), Window(r), Receiving, line # <<>>,
         Head(line).kind = "packet"
  PROVE  /\ Expected(Head(line)) => Head(line) = Packet(r + 1)
         /\ Duplicate(Head(line)) => Head(line) = Packet(r)
<1>1. Head(line) \in Frames
  BY QueueFront DEF TypeOK
<1>2. PICK k \in 0 .. Blocks : Head(line) = Packet(k)
  BY <1>1, FrameFacts DEF Frames
<1>3. r <= k /\ k <= block
  BY <1>2, OrderedTail, WordIs DEF TypeOK, Window
<1>4. block + Acks <= r + 2 * Depth /\ Acks \in Nat
  <2>1. Acks \in Nat
    BY AcksType DEF TypeOK, Acks
  <2> QED BY <2>1, AheadBound, WordIs DEF TypeOK, Window
<1>5. k \in Nat /\ k \in r .. (r + Word - 1)
  BY <1>3, <1>4, WordIs DEF TypeOK
<1>6. Head(line).no = k % Word
  BY <1>2, <1>5, FrameFacts
<1> QED BY <1>2, <1>5, <1>6, NumberExpected DEF Expected, Duplicate, Follows

\* The transmitter's steps.
LEMMA SenderWindow ==
  ASSUME TypeOK, TypeOK', NEW r \in Nat, Follows(r), Window(r), Sync, UNCHANGED receiving,
         Acks' <= Acks,
         \/ Again
         \/ SendNext /\ (Acks' + 1 = Acks \/ sender = "sync")
         \/ UNCHANGED <<line, block>> /\ sender' # "sync"
  PROVE  Follows(r)' /\ Window(r)' /\ Sync'
<1>0. /\ Acks \in Nat /\ Acks' \in Nat /\ Acks <= Depth /\ block \in Nat /\ block' \in Nat
      /\ line \in Seq(Frames) /\ line' \in Seq(Frames) /\ Len(line) <= Depth
  <2>1. /\ answers \in Seq(Answers) /\ Len(answers) <= Depth /\ answers' \in Seq(Answers)
        /\ line \in Seq(Frames) /\ line' \in Seq(Frames) /\ Len(line) <= Depth
        /\ block \in Nat /\ block' \in Nat
    BY WordIs DEF TypeOK
  <2>2. Acks \in Nat /\ Acks <= Len(answers) /\ Acks' \in Nat
    BY <2>1, AcksType DEF Acks
  <2>3. Len(answers) \in Nat /\ Depth \in Nat
    BY <2>1, WordIs
  <2> QED BY <2>1, <2>2, <2>3
<1>1. block <= block'
  <2>1. block' = block \/ block' = block + 1
    BY AgainDoes, NextDoes
  <2> QED BY <1>0, <2>1
<1>2. Follows(r)'
  BY <1>0, <1>1 DEF Follows, receiving
<1>3. Sync'
  <2> SUFFICES ASSUME sender' = "sync"
               PROVE  block' = 0 /\ line' = <<>> /\ Acks' = 0 /\ Receiving'
    BY DEF Sync
  <2>1. sender = "sync" /\ line' = line /\ block' = block /\ Acks' <= Acks
    BY AgainDoes, NextDoes
  <2> QED BY <1>0, <2>1 DEF Sync, receiving, Receiving
<1>4. ASSUME Receiving' PROVE Ordered(line', block', r) /\ Balance(line', Acks', block', r)
  <2>1. Ordered(line, block, r) /\ Balance(line, Acks, block, r)
    BY <1>4 DEF Window, receiving, Receiving
  <2>2. r <= block /\ block \in 0 .. Blocks
    BY DEF Follows, TypeOK
  <2>3. CASE Again
    <3>1. Ordered(line', block, r) /\ Balance(line', Acks, block, r) /\ block' = block
      <4>1. /\ \A x \in Others : /\ Ordered(Put(line, x), block, r)
                                 /\ Balance(Put(line, x), Acks, block, r)
            /\ Ordered(Put(line, Packet(block)), block, r)
            /\ Balance(Put(line, Packet(block)), Acks, block, r)
        BY <1>0, <2>1, <2>2, PutWindow
      <4> QED BY <2>1, <2>3, <4>1, AgainDoes DEF Others
    <3> QED BY <1>0, <2>3, <3>1, BalanceLess
  <2>4. CASE SendNext /\ Acks' + 1 = Acks
    <3>1. CASE /\ block < Blocks /\ block' = block + 1
               /\ line' = Put(line, Packet(block + 1))
      BY <1>0, <2>1, <2>2, <2>4, <3>1, PutWindow
    <3>2. CASE block' = block /\ line' = Put(line, EOT)
      <4>1. Ordered(line', block, r) /\ Balance(line', Acks, block, r)
        BY <1>0, <2>1, <2>2, <3>2, PutWindow DEF Others
      <4> QED BY <1>0, <3>2, <4>1, BalanceLess
    <3> QED BY <2>4, <3>1, <3>2, NextDoes
  <2>5. CASE SendNext /\ sender = "sync"
    <3>1. block = 0 /\ line = <<>> /\ Acks' = 0 /\ r = 0
      BY <1>0, <2>2, <2>5 DEF Sync
    <3>2. Ordered(line, block, r) /\ Balance(line, 1, block, r)
      <4>1. block + 1 <= r + 2 * Depth
        BY <3>1, WordIs
      <4> QED BY <1>0, <2>2, <3>1, <4>1, BalanceEmpty
    <3>3. block < Blocks /\ 1 <= Depth /\ Acks' + 1 = 1
      BY <3>1, WordIs
    <3>4. /\ Ordered(Put(line, Packet(block + 1)), block + 1, r)
          /\ Balance(Put(line, Packet(block + 1)), Acks', block + 1, r)
      BY <1>0, <2>2, <3>2, <3>3, PutWindow
    <3>5. block' = block + 1 /\ line' = Put(line, Packet(block + 1))
      BY <2>5, <3>3, NextDoes, WordIs
    <3> QED BY <3>4, <3>5
  <2>6. CASE UNCHANGED <<line, block>>
    BY <1>0, <2>1, <2>6, BalanceLess
  <2> QED BY <2>3, <2>4, <2>5, <2>6
<1> QED BY <1>2, <1>3, <1>4 DEF Window

\* The numbers the window is about.
LEMMA WindowTypes ==
  ASSUME TypeOK
  PROVE  /\ Acks \in Nat /\ block \in Nat /\ line \in Seq(Frames) /\ answers \in Seq(Answers)
         /\ Len(line) <= Depth
<1>1. /\ answers \in Seq(Answers) /\ line \in Seq(Frames) /\ Len(line) <= Depth
      /\ block \in Nat
  BY WordIs DEF TypeOK
<1>2. Acks \in Nat
  BY <1>1, AcksType DEF Acks
<1> QED BY <1>1, <1>2

\* The packet expected is accepted.
LEMMA StoreWindow ==
  ASSUME TypeOK, TypeOK', NEW r \in Nat, Follows(r), Window(r), Sync, Store
  PROVE  Follows(r + 1)' /\ Window(r + 1)' /\ Sync'
<1>1. Receiving /\ line # <<>> /\ Head(line).kind = "packet"
  BY DEF Store, Received, Comes
<1>2. Head(line) = Packet(r + 1)
  BY <1>1, HeadIs DEF Store
<1>3. /\ Ordered(line, block, r) /\ Balance(line, Acks, block, r)
      /\ Acks \in Nat /\ block \in Nat /\ line \in Seq(Frames) /\ answers \in Seq(Answers)
  BY <1>1, WindowTypes DEF Window
<1>4. /\ r + 1 <= block /\ Ordered(Tail(line), block, r + 1)
      /\ Balance(Tail(line), Acks + 1, block, r + 1)
  BY <1>1, <1>2, <1>3, BalanceStore
<1>5. line' = Tail(line) /\ block' = block /\ Acks' \in Nat /\ Acks' <= Acks + 1
  <2>1. answers' = Put(answers, "ACK") /\ "ACK" \in Answers
    BY DEF Store, Answer, Answers
  <2> QED BY <1>3, <2>1, AcksType DEF Store, Received, Comes, sending, Acks
<1>6. Balance(line', Acks', block', r + 1) /\ Ordered(line', block', r + 1)
  <2>1. Tail(line) \in Seq(Frames)
    BY <1>1, <1>3, QueueFront
  <2>2. r + 1 \in Nat /\ Acks + 1 \in Nat
    BY <1>3
  <2>3. Balance(Tail(line), Acks', block, r + 1)
    BY <1>3, <1>4, <1>5, <2>1, <2>2, BalanceLess
  <2> QED BY <1>4, <1>5, <2>3
<1>7. Follows(r + 1)'
  <2>1. packetno' = ((r + 1) + 1) % Word
    <3>1. r + 1 \in Nat
      OBVIOUS
    <3>2. (((r + 1) % Word) + 1) % Word = ((r + 1) + 1) % Word
      BY <3>1, NumberAfter
    <3> QED BY <3>2 DEF Store, Follows
  <2>2. dest' = IF Len(dest) < DestSize THEN Append(dest, r + 1) ELSE dest
    BY <1>2, FrameFacts DEF Store
  <2>3. /\ dest \in Seq(Nat) /\ Len(dest) \in Nat /\ DestSize \in Nat
        /\ Len(dest) = (IF r < DestSize THEN r ELSE DestSize)
        /\ \A k \in 1 .. Len(dest) : dest[k] = k
    BY WordIs DEF Follows, TypeOK
  <2>4. CASE Len(dest) < DestSize
    <3>1. Len(dest) = r /\ dest' = Append(dest, r + 1) /\ r < DestSize
      BY <2>2, <2>3, <2>4
    <3>2. Len(dest') = r + 1 /\ \A k \in 1 .. (r + 1) : dest'[k] = IF k <= r THEN dest[k] ELSE r + 1
      BY <2>3, <3>1, QueueEnd
    <3>3. Len(dest') = (IF r + 1 < DestSize THEN r + 1 ELSE DestSize)
      BY <2>3, <3>1, <3>2
    <3>4. \A k \in 1 .. Len(dest') : dest'[k] = k
      BY <2>3, <3>1, <3>2
    <3> QED BY <1>4, <1>5, <2>1, <3>3, <3>4 DEF Follows
  <2>5. CASE ~ (Len(dest) < DestSize)
    <3>1. dest' = dest /\ Len(dest) = (IF r + 1 < DestSize THEN r + 1 ELSE DestSize)
      BY <2>2, <2>3, <2>5
    <3> QED BY <1>4, <1>5, <2>1, <2>3, <3>1 DEF Follows
  <2> QED BY <2>4, <2>5
<1>8. Sync'
  BY <1>1 DEF Store, Received, Comes, sending, Sync
<1> QED BY <1>6, <1>7, <1>8 DEF Window

\* Everything else the receiver does, and what happens to the line.
LEMMA OtherWindow ==
  ASSUME TypeOK, TypeOK', NEW r \in Nat, Follows(r), Window(r), Sync,
         \/ ReceiverTimeout \/ Repeated \/ Unexpected \/ ReceiveNoise
         \/ Misread \/ ReceiveEot \/ ReceiveCan
         \/ LoseFrame \/ LoseAnswer \/ GarbleFrame \/ GarbleAnswer \/ UNCHANGED vars
  PROVE  Follows(r)' /\ Window(r)' /\ Sync'
<1> USE DEF sending, receiving
<1>0. /\ Acks \in Nat /\ Acks' \in Nat /\ block \in Nat /\ r <= block
      /\ line \in Seq(Frames) /\ answers \in Seq(Answers)
      /\ Receiving => Ordered(line, block, r) /\ Balance(line, Acks, block, r)
  BY WindowTypes, AcksType DEF Window, Follows, TypeOK, Acks
<1>1. UNCHANGED <<sender, block, packetno, dest>>
  BY DEF ReceiverTimeout, Repeated, Unexpected, ReceiveNoise, Misread, ReceiveEot, ReceiveCan,
         Received, Comes, Return, Reject, LoseFrame, LoseAnswer, GarbleFrame, GarbleAnswer, vars
<1>2. Follows(r)'
  BY <1>1 DEF Follows
<1>3. ASSUME Receiving, Acks' <= Acks, line' = <<>>
      PROVE  Ordered(line', block', r) /\ Balance(line', Acks', block', r)
  <2>1. block + Acks' <= r + 2 * Depth
    <3>1. block + Acks <= r + 2 * Depth
      BY <1>0, <1>3, AheadBound
    <3> DEFINE n == Acks
               m == Acks'
               b == block
    <3>2. n \in Nat /\ m \in Nat /\ b \in Nat /\ m <= n /\ b + n <= r + 2 * Depth
      BY <1>0, <1>3, <3>1
    <3> HIDE DEF n, m, b
    <3>3. b + m <= r + 2 * Depth
      BY <3>2, WordIs
    <3> QED BY <3>3 DEF n, m, b
  <2>2. Balance(<<>>, Acks', block, r) /\ Ordered(<<>>, block, r)
    BY <1>0, <2>1, BalanceEmpty
  <2> QED BY <1>1, <1>3, <2>2
<1>4. ASSUME Receiving, line # <<>>, Acks' <= Acks,
             line' = line \/ line' = Tail(line) \/ line' = [line EXCEPT ![1] = Noise]
      PROVE  Ordered(line', block', r) /\ Balance(line', Acks', block', r)
  <2>0. /\ Ordered(line, block, r) /\ Balance(line, Acks, block, r)
        /\ Ordered(Tail(line), block, r) /\ Balance(Tail(line), Acks, block, r)
        /\ Ordered([line EXCEPT ![1] = Noise], block, r)
        /\ Balance([line EXCEPT ![1] = Noise], Acks, block, r)
    BY <1>0, <1>4, BalanceLost, OrderedTail, BalanceGarbled
  <2>1. Ordered(line', block, r) /\ Balance(line', Acks, block, r)
    BY <1>4, <2>0
  <2>2. line' \in Seq(Frames)
    BY DEF TypeOK
  <2> QED BY <1>0, <1>1, <1>4, <2>1, <2>2, BalanceLess
<1>5. Acks' <= Acks \/ Repeated \/ ReceiveEot \/ ReceiveCan \/ (Misread /\ ~ Receiving')
  <2>1. ASSUME NEW a \in Answers, a # "ACK", answers' = Put(answers, a) PROVE Acks' <= Acks
    <3>1. Count(Put(answers, a), {"ACK"}) = Count(answers, {"ACK"})
      BY <1>0, <2>1, AcksType
    <3>2. Acks' = Acks
      BY <2>1, <3>1 DEF Acks
    <3> QED BY <1>0, <3>2
  <2>2. answers' = answers => Acks' <= Acks
    BY <1>0 DEF Acks
  <2>3. answers # <<>> /\ (answers' = Tail(answers) \/ answers' = [answers EXCEPT ![1] = "noise"])
        => Acks' <= Acks
    BY <1>0, AcksType DEF Acks
  <2>4. Misread => \/ answers' = Put(answers, "C")
                   \/ ~ Receiving'
    BY DEF Misread, Answer, Return, Receiving
  <2> QED BY <2>1, <2>2, <2>3, <2>4 DEF ReceiverTimeout, Unexpected, ReceiveNoise, Answer, Reject,
             LoseFrame, LoseAnswer, GarbleFrame, GarbleAnswer, vars, Answers
<1>6. Window(r)'
  <2> SUFFICES ASSUME Receiving'
               PROVE  Ordered(line', block', r) /\ Balance(line', Acks', block', r)
    BY DEF Window
  <2>1. CASE ReceiverTimeout \/ Misread \/ LoseAnswer \/ GarbleAnswer \/ UNCHANGED vars
    <3>1. Receiving /\ line' = line /\ Acks' <= Acks
      BY <1>5, <2>1 DEF ReceiverTimeout, Misread, LoseAnswer, GarbleAnswer, vars, Receiving,
           Repeated, ReceiveEot, ReceiveCan, Received, Comes, Return
    <3> QED BY <1>0, <1>1, <3>1, BalanceLess
  <2>2. CASE Unexpected \/ ReceiveNoise
    <3>1. Receiving /\ line # <<>> /\ Acks' <= Acks /\ (line' = <<>> \/ line' = Tail(line))
      BY <1>5, <2>2 DEF Unexpected, ReceiveNoise, Received, Comes, Reject, Repeated, ReceiveEot,
           ReceiveCan, Receiving, Return
    <3> QED BY <1>3, <1>4, <3>1
  <2>3. CASE LoseFrame \/ GarbleFrame
    <3>1. /\ Receiving /\ line # <<>> /\ Acks' <= Acks
          /\ line' = Tail(line) \/ line' = [line EXCEPT ![1] = Noise]
      BY <2>3, <1>0 DEF LoseFrame, GarbleFrame, Receiving, Acks
    <3> QED BY <1>4, <3>1
  <2>4. CASE Repeated
    <3>1. Receiving /\ line # <<>> /\ Head(line) = Packet(r)
      BY <2>4, HeadIs DEF Repeated, Received, Comes
    <3>2. line' = Tail(line) /\ answers' = Put(answers, "ACK")
      BY <2>4 DEF Repeated, Answer, Receiving
    <3>3. Acks' <= Acks + 1
      BY <1>0, <3>2, AcksType DEF Acks, Answers
    <3>4. Ordered(line', block, r) /\ Balance(line', Acks + 1, block, r)
      BY <1>0, <3>1, <3>2, OrderedTail, BalanceRepeated
    <3>5. line' \in Seq(Frames)
      BY DEF TypeOK
    <3> QED BY <1>0, <1>1, <3>3, <3>4, <3>5, BalanceLess
  <2>5. ~ ReceiveEot /\ ~ ReceiveCan
    BY DEF ReceiveEot, ReceiveCan, Return, Receiving
  <2> QED BY <2>1, <2>2, <2>3, <2>4, <2>5
<1>7. Sync'
  <2> SUFFICES ASSUME sender = "sync"
               PROVE  block' = 0 /\ line' = <<>> /\ Acks' = 0 /\ Receiving'
    BY <1>1 DEF Sync
  <2>1. block = 0 /\ line = <<>> /\ Acks = 0 /\ Receiving
    BY DEF Sync
  <2>2. ReceiverTimeout \/ LoseAnswer \/ GarbleAnswer \/ UNCHANGED vars
    BY <2>1 DEF Repeated, Unexpected, ReceiveNoise, Misread, ReceiveEot, ReceiveCan, Received, Comes,
                LoseFrame, GarbleFrame
  <2>3. line' = line /\ Receiving' /\ Acks' <= Acks
    BY <1>5, <2>1, <2>2 DEF ReceiverTimeout, LoseAnswer, GarbleAnswer, vars, Receiving,
         Repeated, ReceiveEot, ReceiveCan, Received, Comes
  <2> QED BY <1>0, <1>1, <2>1, <2>3
<1> QED BY <1>2, <1>6, <1>7
\* The steps, but for the order in which things come.
LEMMA WindowStep ==
  ASSUME TypeOK, TypeOK', NEW r \in Nat, Follows(r), Window(r), Sync, [Next]_vars
  PROVE  /\ Store => Follows(r + 1)' /\ Window(r + 1)' /\ Sync'
         /\ ~ Store => Follows(r)' /\ Window(r)' /\ Sync'
<1>0. Acks \in Nat /\ answers \in Seq(Answers)
  BY WindowTypes
<1>1. ASSUME SenderTimeout PROVE Follows(r)' /\ Window(r)' /\ Sync'
  <2>1. Again /\ UNCHANGED receiving /\ Acks' = Acks
    BY <1>1 DEF SenderTimeout, Acks
  <2>2. Acks' <= Acks
    BY <1>0, <2>1
  <2> QED BY <2>1, <2>2, SenderWindow
<1>2. ASSUME NEW a, Answered(a)
      PROVE  /\ UNCHANGED receiving /\ Acks' <= Acks /\ sender \in {"sync", "data", "eot"}
             /\ a = "ACK" => Acks' + 1 = Acks
  <2>1. /\ answers # <<>> /\ Head(answers) = a /\ answers' = Tail(answers)
        /\ UNCHANGED receiving /\ sender \in {"sync", "data", "eot"}
    BY <1>2 DEF Answered, Sending
  <2>2. /\ Count(Tail(answers), {"ACK"}) \in Nat
        /\ Count(Tail(answers), {"ACK"}) <= Count(answers, {"ACK"})
        /\ Head(answers) = "ACK" => Count(answers, {"ACK"}) = Count(Tail(answers), {"ACK"}) + 1
    BY <1>0, <2>1, AcksType
  <2> QED BY <2>1, <2>2 DEF Acks
<1>3. ASSUME Acknowledged PROVE Follows(r)' /\ Window(r)' /\ Sync'
  <2>1. UNCHANGED receiving /\ Acks' <= Acks /\ Acks' + 1 = Acks
    BY <1>2, <1>3 DEF Acknowledged
  <2>2. SendNext \/ (UNCHANGED line /\ Leave("done"))
    BY <1>3 DEF Acknowledged
  <2>3. SendNext \/ (UNCHANGED <<line, block>> /\ sender' # "sync")
    BY <2>2 DEF Leave
  <2> QED BY <2>1, <2>3, SenderWindow
<1>4. ASSUME Refused \/ Cancelled \/ Garbled PROVE Follows(r)' /\ Window(r)' /\ Sync'
  <2>1. UNCHANGED receiving /\ Acks' <= Acks
    BY <1>2, <1>4 DEF Refused, Cancelled, Garbled
  <2>2. \/ Again
        \/ SendNext /\ sender = "sync"
        \/ UNCHANGED line /\ Leave("failed")
    BY <1>4 DEF Refused, Cancelled, Garbled
  <2>3. \/ Again
        \/ SendNext /\ sender = "sync"
        \/ UNCHANGED <<line, block>> /\ sender' # "sync"
    BY <2>2 DEF Leave
  <2> QED BY <2>1, <2>3, SenderWindow
<1>5. ASSUME Store PROVE Follows(r + 1)' /\ Window(r + 1)' /\ Sync'
  BY <1>5, StoreWindow
<1>6. ASSUME \/ ReceiverTimeout \/ Repeated \/ Unexpected \/ ReceiveNoise
             \/ Misread \/ ReceiveEot \/ ReceiveCan
             \/ LoseFrame \/ LoseAnswer \/ GarbleFrame \/ GarbleAnswer \/ UNCHANGED vars
      PROVE  Follows(r)' /\ Window(r)' /\ Sync'
  BY <1>6, OtherWindow
<1> QED BY <1>1, <1>3, <1>4, <1>5, <1>6 DEF Next

-------------------------------------------------------------------------------
(* One thing at a time, as long as nothing goes astray.                    *)

\* What is under way.
LEMMA ElemsAre ==
  ASSUME NEW X, NEW q \in Seq(X)
  PROVE  /\ Len(q) \in Nat /\ (Len(q) = 0 <=> q = <<>>)
         /\ q = <<>> => Elems(q) = {}
         /\ \A x \in X : /\ Elems(Put(q, x)) \subseteq Elems(q) \cup {x}
                         /\ Len(Put(q, x)) \in Nat /\ Len(Put(q, x)) <= Len(q) + 1
         /\ q # <<>> =>
              /\ Head(q) \in Elems(q) /\ Elems(Tail(q)) \subseteq Elems(q)
              /\ Len(Tail(q)) = Len(q) - 1
              /\ \A x \in X : /\ Elems([q EXCEPT ![1] = x]) \subseteq Elems(q) \cup {x}
                              /\ Len([q EXCEPT ![1] = x]) = Len(q)
<1>1. Len(q) \in Nat /\ (Len(q) = 0 <=> q = <<>>)
  BY EmptySeq
<1>2. q = <<>> => Elems(q) = {}
  BY DEF Elems
<1>3. ASSUME NEW x \in X
      PROVE  /\ Elems(Put(q, x)) \subseteq Elems(q) \cup {x}
             /\ Len(Put(q, x)) \in Nat /\ Len(Put(q, x)) <= Len(q) + 1
  <2>1. CASE Put(q, x) = q
    BY <1>1, <2>1
  <2>2. CASE Put(q, x) = Append(q, x)
    <3> DEFINE a == Append(q, x)
    <3>1. /\ Len(a) = Len(q) + 1
          /\ \A i \in 1 .. Len(a) : a[i] = IF i <= Len(q) THEN q[i] ELSE x
      BY QueueEnd
    <3> HIDE DEF a
    <3>2. \A i \in 1 .. Len(a) : a[i] \in Elems(q) \cup {x}
      BY <1>1, <3>1 DEF Elems
    <3>3. Elems(a) \subseteq Elems(q) \cup {x}
      BY <3>2 DEF Elems
    <3> QED BY <1>1, <2>2, <3>1, <3>3 DEF a
  <2> QED BY <2>1, <2>2 DEF Put
<1>4. ASSUME q # <<>>
      PROVE  /\ Head(q) \in Elems(q) /\ Elems(Tail(q)) \subseteq Elems(q)
             /\ Len(Tail(q)) = Len(q) - 1
  <2> DEFINE t == Tail(q)
  <2>1. /\ Len(q) >= 1 /\ Head(q) = q[1] /\ Len(t) = Len(q) - 1
        /\ \A i \in 1 .. Len(t) : t[i] = q[i + 1] /\ i + 1 \in 1 .. Len(q)
    BY <1>4, QueueFront
  <2> HIDE DEF t
  <2>2. 1 \in 1 .. Len(q)
    BY <1>1, <2>1
  <2>3. Elems(t) \subseteq Elems(q)
    BY <2>1 DEF Elems
  <2> QED BY <2>1, <2>2, <2>3 DEF Elems, t
<1>5. ASSUME q # <<>>, NEW x \in X
      PROVE  /\ Elems([q EXCEPT ![1] = x]) \subseteq Elems(q) \cup {x}
             /\ Len([q EXCEPT ![1] = x]) = Len(q)
  <2> DEFINE g == [q EXCEPT ![1] = x]
  <2>1. 1 \in 1 .. Len(q)
    BY <1>5, QueueFront
  <2>2. Len(g) = Len(q) /\ \A i \in 1 .. Len(q) : g[i] = IF i = 1 THEN x ELSE q[i]
    BY <2>1, ExceptSeq
  <2> HIDE DEF g
  <2>3. Elems(g) \subseteq Elems(q) \cup {x}
    BY <2>2 DEF Elems
  <2> QED BY <2>2, <2>3 DEF g
<1> QED BY <1>1, <1>2, <1>3, <1>4, <1>5

LEMMA PutOnEmpty ==
  ASSUME NEW X, NEW q \in Seq(X), q = <<>>, NEW x \in X
  PROVE  Elems(Put(q, x)) \subseteq {x} /\ Len(Put(q, x)) \in Nat /\ Len(Put(q, x)) <= 1
<1>1. Elems(q) = {} /\ Len(q) = 0
  BY ElemsAre
<1> DEFINE p == Put(q, x)
<1>2. Elems(p) \subseteq Elems(q) \cup {x} /\ Len(p) \in Nat /\ Len(p) <= Len(q) + 1
  BY ElemsAre
<1> HIDE DEF p
<1>3. Elems(p) \subseteq {x} /\ Len(p) \in Nat /\ Len(p) <= 1
  BY <1>1, <1>2
<1> QED BY <1>3 DEF p

\* The transmitter asks or sends again, or gives up.
LEMMA AgainInStep ==
  ASSUME TypeOK, TypeOK', NEW r \in Nat, InStep(r), Sending, Again, UNCHANGED receiving,
         Receiving => line = <<>> /\ answers' = <<>>,
         Elems(answers') \subseteq Elems(answers)
  PROVE  InStep(r)'
<1>1. /\ block' = block /\ receiver' = receiver
      /\ \/ sender = "sync" /\ sender' = "sync" /\ line' = line
         \/ sender = "data" /\ sender' = "data" /\ line' = Put(line, Packet(block))
         \/ sender = "eot" /\ sender' = "eot" /\ line' = Put(line, EOT)
         \/ sender \in {"sync", "data"} /\ sender' = "failed" /\ line' = Put(line, CAN)
         \/ sender = "eot" /\ sender' = "failed" /\ line' = line
  BY AgainDoes DEF receiving
<1>2. CASE ~ Receiving
  BY <1>1, <1>2 DEF InStep, Receiving, Sending
<1>3. CASE Receiving
  <2>1. /\ Elems(line) = {} /\ Len(line) = 0 /\ Elems(answers') = {} /\ Len(answers') = 0
        /\ \A x \in Frames : /\ Elems(Put(line, x)) \subseteq {x}
                             /\ Len(Put(line, x)) \in Nat /\ Len(Put(line, x)) <= 1
    <3>1. line = <<>> /\ answers' = <<>> /\ line \in Seq(Frames) /\ answers' \in Seq(Answers)
      BY <1>3 DEF TypeOK
    <3> QED BY <3>1, PutOnEmpty, ElemsAre
  <2>2. Packet(block) \in Frames /\ EOT \in Frames /\ CAN \in Frames
    BY FramesAre DEF TypeOK
  <2>3. Len(line') + Len(answers') <= 1
    BY <1>1, <2>1, <2>2
  <2>4. CASE sender = "sync" /\ sender' = "sync" /\ line' = line
    BY <1>1, <1>3, <2>1, <2>3, <2>4 DEF InStep, Receiving, Sending
  <2>5. CASE sender = "data" /\ sender' = "data" /\ line' = Put(line, Packet(block))
    <3>1. r + 1 >= block /\ Elems(line') \subseteq {Packet(block')}
      BY <1>1, <1>3, <2>1, <2>2, <2>5 DEF InStep
    <3> QED BY <1>1, <1>3, <2>1, <2>3, <2>5, <3>1 DEF InStep, Receiving, Sending
  <2>6. CASE sender = "eot" /\ sender' = "eot" /\ line' = Put(line, EOT)
    <3>1. r = Blocks /\ Elems(line') \subseteq {EOT}
      BY <1>1, <1>3, <2>1, <2>2, <2>6 DEF InStep
    <3> QED BY <1>1, <1>3, <2>1, <2>3, <2>6, <3>1 DEF InStep, Receiving, Sending
  <2>7. CASE sender' = "failed" /\ (line' = Put(line, CAN) \/ line' = line)
    <3>1. Elems(line') \subseteq {CAN}
      BY <2>1, <2>2, <2>7
    <3> QED BY <1>1, <1>3, <2>7, <3>1 DEF InStep, Receiving, Sending
  <2> QED BY <1>1, <2>4, <2>5, <2>6, <2>7
<1> QED BY <1>2, <1>3

\* It sends the next packet, or the end.
LEMMA NextInStep ==
  ASSUME TypeOK, TypeOK', NEW r \in Nat, InStep(r), Receiving, SendNext, UNCHANGED receiving,
         line = <<>>, answers' = <<>>, r = block
  PROVE  InStep(r)'
<1>1. /\ Elems(line) = {} /\ Len(line) = 0 /\ Elems(answers') = {} /\ Len(answers') = 0
      /\ \A x \in Frames : /\ Elems(Put(line, x)) \subseteq {x}
                           /\ Len(Put(line, x)) \in Nat /\ Len(Put(line, x)) <= 1
  <2>1. line \in Seq(Frames) /\ answers' \in Seq(Answers)
    BY DEF TypeOK
  <2> QED BY <2>1, PutOnEmpty, ElemsAre
<1>2. receiver' = "wait" /\ block \in Nat /\ Blocks \in Nat
  BY WordIs DEF receiving, Receiving, TypeOK
<1>3. CASE /\ block < Blocks /\ block' = block + 1 /\ sender' = "data"
           /\ line' = Put(line, Packet(block + 1))
  <2>1. Packet(block + 1) \in Frames
    <3>1. block + 1 \in 0 .. Blocks
      BY <1>2, <1>3
    <3> QED BY <3>1, FramesAre
  <2>2. Elems(line') \subseteq {Packet(block')} /\ Len(line') + Len(answers') <= 1
    BY <1>1, <1>3, <2>1
  <2>3. r + 1 >= block'
    BY <1>2, <1>3
  <2> QED BY <1>1, <1>2, <1>3, <2>2, <2>3 DEF InStep, Receiving, Sending
<1>4. CASE block = Blocks /\ block' = block /\ sender' = "eot" /\ line' = Put(line, EOT)
  <2>1. Elems(line') \subseteq {EOT} /\ Len(line') + Len(answers') <= 1
    BY <1>1, <1>4, FramesAre
  <2> QED BY <1>1, <1>2, <1>4, <2>1 DEF InStep, Receiving, Sending
<1> QED BY <1>3, <1>4, NextDoes

\* The receiver hears nothing new, and says so.
LEMMA NothingNew ==
  ASSUME TypeOK, TypeOK', NEW r \in Nat, InStep(r), UNCHANGED <<sender, block, receiver>>,
         Elems(line') \subseteq Elems(line) \cup {Noise},
         "ACK" \in Elems(answers') => "ACK" \in Elems(answers),
         Receiving /\ Sending => Len(line') + Len(answers') <= 1
  PROVE  InStep(r)'
BY DEF InStep, Receiving, Sending
\* The transmitter reads an answer; it is the only thing under way.
LEMMA AnsweredAlone ==
  ASSUME TypeOK, NEW r \in Nat, InStep(r), NEW a, Answered(a)
  PROVE  /\ Sending /\ UNCHANGED receiving /\ a \in Elems(answers)
         /\ Elems(answers') \subseteq Elems(answers)
         /\ Receiving => line = <<>> /\ answers' = <<>>
<1>1. /\ Sending /\ UNCHANGED receiving /\ answers # <<>> /\ Head(answers) = a
      /\ answers' = Tail(answers)
  BY DEF Answered
<1>2. line \in Seq(Frames) /\ answers \in Seq(Answers) /\ Tail(answers) \in Seq(Answers)
  BY <1>1, QueueFront DEF TypeOK
<1>3. /\ a \in Elems(answers) /\ Elems(answers') \subseteq Elems(answers)
  BY <1>1, <1>2, ElemsAre
<1>4. ASSUME Receiving PROVE line = <<>> /\ answers' = <<>>
  <2>1. Len(line) + Len(answers) <= 1
    BY <1>1, <1>4 DEF InStep
  <2>2. /\ Len(line) \in Nat /\ (Len(line) = 0 <=> line = <<>>)
        /\ Len(answers) \in Nat /\ (Len(answers) = 0 <=> answers = <<>>)
        /\ Len(Tail(answers)) = Len(answers) - 1
    BY <1>1, <1>2, ElemsAre
  <2> DEFINE u == Tail(answers)
  <2>5. u \in Seq(Answers)
    BY <1>2
  <2> HIDE DEF u
  <2>6. Len(u) = 0 <=> u = <<>>
    BY <2>5, ElemsAre
  <2>4. Len(Tail(answers)) = 0 <=> Tail(answers) = <<>>
    BY <2>6 DEF u
  <2>3. Len(answers) = 1 /\ Len(line) = 0
    BY <1>1, <2>1, <2>2
  <2> QED BY <1>1, <2>2, <2>3, <2>4
<1> QED BY <1>1, <1>3, <1>4

\* The receiver reads a frame; it is the only thing under way.
LEMMA ReceivedAlone ==
  ASSUME TypeOK, NEW r \in Nat, InStep(r), NEW kind, Received(kind)
  PROVE  /\ Receiving /\ UNCHANGED <<sender, block, tries>>
         /\ Head(line) \in Frames /\ Head(line) \in Elems(line) /\ Head(line).kind = kind
         /\ Elems(Tail(line)) \subseteq Elems(line)
         /\ Sending => answers = <<>> /\ Tail(line) = <<>>
<1>1. /\ Receiving /\ UNCHANGED <<sender, block, tries>> /\ line # <<>>
      /\ Head(line).kind = kind
  BY DEF Received, Comes, sending
<1>2. /\ line \in Seq(Frames) /\ answers \in Seq(Answers) /\ Tail(line) \in Seq(Frames)
      /\ Head(line) \in Frames
  BY <1>1, QueueFront DEF TypeOK
<1>3. Head(line) \in Elems(line) /\ Elems(Tail(line)) \subseteq Elems(line)
  BY <1>1, <1>2, ElemsAre
<1>4. ASSUME Sending PROVE answers = <<>> /\ Tail(line) = <<>>
  <2>1. Len(line) + Len(answers) <= 1
    BY <1>1, <1>4 DEF InStep
  <2>2. /\ Len(line) \in Nat /\ (Len(line) = 0 <=> line = <<>>)
        /\ Len(answers) \in Nat /\ (Len(answers) = 0 <=> answers = <<>>)
        /\ Len(Tail(line)) = Len(line) - 1
    BY <1>1, <1>2, ElemsAre
  <2> DEFINE u == Tail(line)
  <2>5. u \in Seq(Frames)
    BY <1>2
  <2> HIDE DEF u
  <2>6. Len(u) = 0 <=> u = <<>>
    BY <2>5, ElemsAre
  <2>4. Len(Tail(line)) = 0 <=> Tail(line) = <<>>
    BY <2>6 DEF u
  <2>3. Len(answers) = 0 /\ Len(line) = 1
    BY <1>1, <2>1, <2>2
  <2> QED BY <2>2, <2>3, <2>4
<1> QED BY <1>1, <1>2, <1>3, <1>4

\* What the only frame under way tells the receiver.
LEMMA HeadTells ==
  ASSUME TypeOK, NEW r \in Nat, InStep(r), Sync, NEW kind, Received(kind)
  PROVE  /\ kind = "packet" => sender = "data" /\ Head(line) = Packet(block)
         /\ kind = "EOT" => sender = "eot" /\ r = Blocks
         /\ kind = "CAN" => sender = "failed"
<1>1. /\ Receiving /\ Head(line) \in Elems(line) /\ Head(line).kind = kind
      /\ line # <<>> /\ block \in Nat
  BY ReceivedAlone, WordIs DEF Received, Comes, TypeOK
<1>2. Packet(block).kind = "packet"
  BY <1>1, FrameFacts
<1>3. CASE sender = "sync"
  BY <1>1, <1>3 DEF Sync
<1>4. CASE sender = "data"
  <2>1. Head(line) \in {Packet(block), Noise}
    BY <1>1, <1>4 DEF InStep
  <2> QED BY <1>1, <1>2, <1>4, <2>1, FrameFacts
<1>5. CASE sender = "eot"
  <2>1. Head(line) \in {EOT, Noise} /\ r = Blocks
    BY <1>1, <1>5 DEF InStep
  <2> QED BY <1>1, <1>5, <2>1, FrameFacts
<1>6. CASE ~ Sending
  <2>1. Head(line) \in {CAN, Noise} /\ sender = "failed"
    BY <1>1, <1>6 DEF InStep
  <2> QED BY <1>1, <2>1, FrameFacts
<1> QED BY <1>3, <1>4, <1>5, <1>6 DEF Sending

\* The steps, when nothing goes astray.
LEMMA SenderInStep ==
  ASSUME TypeOK, TypeOK', NEW r \in Nat, Follows(r), Sync, InStep(r), ~ astray',
         SenderTimeout \/ Acknowledged \/ Refused \/ Cancelled \/ Garbled
  PROVE  InStep(r)'
<1>0. /\ answers \in Seq(Answers) /\ line \in Seq(Frames) /\ block \in Nat /\ r <= block
      /\ sender \in {"sync", "data", "eot", "done", "failed"}
  BY WordIs DEF TypeOK, Follows
<1>1. CASE SenderTimeout
  <2>1. /\ Sending /\ Again /\ UNCHANGED receiving /\ answers' = answers
        /\ Receiving => line = <<>> /\ answers' = <<>>
    BY <1>1 DEF SenderTimeout, TimesOut, Quiet
  <2> QED BY <2>1, AgainInStep
<1>2. ASSUME NEW a, Answered(a), Again PROVE InStep(r)'
  BY <1>2, AnsweredAlone, AgainInStep
<1>3. CASE Acknowledged
  <2>1. /\ Sending /\ UNCHANGED receiving /\ "ACK" \in Elems(answers)
        /\ Receiving => line = <<>> /\ answers' = <<>>
    BY <1>3, AnsweredAlone DEF Acknowledged
  <2>2. CASE sender = "data" /\ SendNext
    <3>1. CASE Receiving
      <4>1. r = block
        BY <2>1, <2>2, <3>1 DEF InStep
      <4> QED BY <2>1, <2>2, <3>1, <4>1, NextInStep
    <3>2. CASE ~ Receiving
      <4>1. receiver' = receiver /\ sender' \in {"data", "eot"}
        BY <2>1, <2>2, NextDoes DEF receiving
      <4>2. receiver # "retries" /\ receiver # "cancelled"
        BY <2>1, <2>2 DEF InStep
      <4> QED BY <3>2, <4>1, <4>2 DEF InStep, Receiving
    <3> QED BY <3>1, <3>2
  <2>3. CASE sender = "eot" /\ Leave("done")
    <3>1. receiver' = receiver
      BY <2>1 DEF receiving
    <3>2. ~ Receiving /\ receiver # "retries" /\ receiver # "cancelled"
      BY <2>1, <2>3 DEF InStep
    <3> QED BY <3>1, <3>2 DEF InStep, Receiving
  <2> QED BY <1>3, <2>2, <2>3 DEF Acknowledged
<1>4. CASE Refused
  <2>1. PICK a \in {"NAK", "C"} : Answered(a) /\ IF sender = "sync" THEN SendNext ELSE Again
    BY <1>4 DEF Refused
  <2>2. CASE sender = "sync"
    <3>1. Receiving /\ block = 0 /\ r = block
      BY <1>0, <2>2 DEF Sync
    <3>2. UNCHANGED receiving /\ line = <<>> /\ answers' = <<>>
      BY <2>1, <3>1, AnsweredAlone
    <3> QED BY <2>1, <2>2, <3>1, <3>2, NextInStep
  <2> QED BY <1>2, <2>1, <2>2
<1>5. CASE Cancelled
  <2>1. CASE sender = "eot"
    BY <1>2, <1>5, <2>1 DEF Cancelled
  <2>2. CASE sender # "eot"
    <3>1. Answered("CAN") /\ sender' = "failed" /\ line' = line
      BY <1>5, <2>2 DEF Cancelled, Leave
    <3>2. /\ UNCHANGED receiving /\ Elems(answers') \subseteq Elems(answers)
          /\ Receiving => line = <<>>
      BY <3>1, AnsweredAlone
    <3>3. Receiving => Elems(line') = {}
      BY <1>0, <3>1, <3>2, ElemsAre
    <3>4. receiver' = receiver
      BY <3>2 DEF receiving
    <3> QED BY <3>1, <3>2, <3>3, <3>4 DEF InStep, Receiving, Sending
  <2> QED BY <2>1, <2>2
<1>6. CASE Garbled
  BY <1>2, <1>6 DEF Garbled
<1> QED BY <1>1, <1>3, <1>4, <1>5, <1>6

LEMMA StoreInStep ==
  ASSUME TypeOK, TypeOK', NEW r \in Nat, Follows(r), Window(r), Sync, InStep(r), Store
  PROVE  InStep(r + 1)'
<1>1. /\ Received("packet") /\ Receiving /\ line # <<>> /\ Expected(Head(line))
      /\ Head(line).kind = "packet" /\ receiver' = receiver
      /\ line' = Tail(line) /\ answers' = Put(answers, "ACK")
  BY DEF Store, Received, Comes, Answer
<1>2. /\ sender' = "data" /\ block' = block /\ sender = "data" /\ Head(line) = Packet(block)
      /\ answers = <<>> /\ Tail(line) = <<>>
  BY <1>1, HeadTells, ReceivedAlone DEF Sending
<1>3. r + 1 = block
  <2>1. Head(line) = Packet(r + 1)
    BY <1>1, HeadIs
  <2> QED BY <1>2, <2>1, FrameFacts, WordIs DEF TypeOK
<1>4. Len(line') + Len(answers') <= 1 /\ Elems(line') = {}
  <2>1. /\ answers \in Seq(Answers) /\ "ACK" \in Answers /\ line' \in Seq(Frames)
        /\ line' = <<>>
    BY <1>1, <1>2 DEF TypeOK, Answers
  <2>2. Len(answers') \in Nat /\ Len(answers') <= 1
    BY <1>1, <1>2, <2>1, PutOnEmpty
  <2>3. Len(line') = 0 /\ Elems(line') = {}
    BY <2>1, ElemsAre
  <2> QED BY <2>2, <2>3
<1> QED BY <1>1, <1>2, <1>3, <1>4 DEF InStep, Receiving, Sending

\* What the receiver says, if anything, when it goes on.
LEMMA AnswerAlone ==
  ASSUME TypeOK, answers = <<>>, line' = <<>>,
         answers' = answers \/ \E a \in Answers : Answer(a)
  PROVE  Len(line') + Len(answers') <= 1
<1>1. answers \in Seq(Answers) /\ Len(answers) = 0 /\ Len(line') = 0
  BY DEF TypeOK
<1>2. Len(answers') \in Nat /\ Len(answers') <= 1
  <2>1. CASE answers' = answers
    BY <1>1, <2>1
  <2>2. CASE \E a \in Answers : Answer(a)
    <3>1. PICK a \in Answers : answers' = Put(answers, a)
      BY <2>2 DEF Answer
    <3> QED BY <1>1, <3>1, PutOnEmpty
  <2> QED BY <2>1, <2>2
<1> QED BY <1>1, <1>2

LEMMA OtherInStep ==
  ASSUME TypeOK, TypeOK', NEW r \in Nat, Follows(r), Window(r), Sync, InStep(r), ~ astray',
         \/ ReceiverTimeout \/ Repeated \/ Unexpected \/ ReceiveNoise
         \/ Misread \/ ReceiveEot \/ ReceiveCan
         \/ LoseFrame \/ LoseAnswer \/ GarbleFrame \/ GarbleAnswer \/ UNCHANGED vars
  PROVE  InStep(r)'
<1> USE DEF sending, receiving
<1>0. /\ line \in Seq(Frames) /\ answers \in Seq(Answers) /\ block \in Nat
      /\ line' \in Seq(Frames) /\ answers' \in Seq(Answers)
      /\ Len(line) \in Nat /\ Len(answers) \in Nat
      /\ \A a \in Answers : a # "ACK" /\ Answer(a) =>
           ("ACK" \in Elems(answers') => "ACK" \in Elems(answers))
  <2>1. /\ line \in Seq(Frames) /\ answers \in Seq(Answers) /\ block \in Nat
        /\ line' \in Seq(Frames) /\ answers' \in Seq(Answers)
    BY WordIs DEF TypeOK
  <2>2. \A a \in Answers : Elems(Put(answers, a)) \subseteq Elems(answers) \cup {a}
    BY <2>1, ElemsAre
  <2>3. Len(line) \in Nat /\ Len(answers) \in Nat
    BY <2>1, ElemsAre
  <2> QED BY <2>1, <2>2, <2>3 DEF Answer
<1>1. CASE ReceiverTimeout
  <2>1. /\ UNCHANGED <<sender, block, receiver>> /\ line' = line /\ Answer("C")
        /\ line = <<>> /\ (Sending => answers = <<>>)
    BY <1>1 DEF ReceiverTimeout, TimesOut, Quiet
  <2>2. Sending => Len(line') + Len(answers') <= 1
    BY <2>1, AnswerAlone DEF Answers
  <2>3. "ACK" \in Elems(answers') => "ACK" \in Elems(answers)
    BY <1>0, <2>1 DEF Answers
  <2>4. Elems(line') \subseteq Elems(line) \cup {Noise}
    BY <2>1
  <2> QED BY <2>1, <2>2, <2>3, <2>4, NothingNew
<1>2. CASE Unexpected \/ ReceiveNoise
  <2>1. PICK kind : Received(kind)
    BY <1>2 DEF Unexpected, ReceiveNoise
  <2>2. /\ UNCHANGED <<sender, block, receiver>> /\ (line' = <<>> \/ line' = Tail(line))
        /\ answers' = answers \/ \E a \in {"NAK", "C"} : Answer(a)
    BY <1>2 DEF Unexpected, ReceiveNoise, Received, Comes, Reject
  <2>3. "ACK" \in Elems(answers') => "ACK" \in Elems(answers)
    BY <1>0, <2>2 DEF Answers
  <2>4. Elems(<<>>) = {} /\ Elems(Tail(line)) \subseteq Elems(line)
    BY <2>1, ReceivedAlone DEF Elems
  <2>5. Sending => Len(line') + Len(answers') <= 1
    BY <2>1, <2>2, ReceivedAlone, AnswerAlone DEF Answers
  <2> QED BY <2>2, <2>3, <2>4, <2>5, NothingNew
<1>3. CASE Repeated
  <2>1. /\ Received("packet") /\ Receiving /\ line # <<>> /\ Duplicate(Head(line))
        /\ Head(line).kind = "packet" /\ UNCHANGED <<sender, block>>
    BY <1>3 DEF Repeated, Received, Comes
  <2>2. /\ sender = "data" /\ Head(line) = Packet(block) /\ answers = <<>> /\ Tail(line) = <<>>
    BY <2>1, HeadTells, ReceivedAlone DEF Sending
  <2>3. r = block
    <3>1. Head(line) = Packet(r)
      BY <2>1, HeadIs
    <3> QED BY <1>0, <2>2, <3>1, FrameFacts
  <2>4. line' = <<>> /\ Elems(line') = {}
    <3>1. line' = Tail(line) \/ line' = <<>>
      BY <1>3 DEF Repeated
    <3>2. line' = <<>>
      BY <2>2, <3>1
    <3> QED BY <1>0, <3>2, ElemsAre
  <2>5. CASE receiver' = receiver /\ answers' = Put(answers, "ACK")
    <3>1. Len(line') + Len(answers') <= 1
      BY <2>2, <2>4, <2>5, AnswerAlone DEF Answers, Answer
    <3> QED BY <1>0, <2>1, <2>2, <2>3, <2>4, <2>5, <3>1 DEF InStep, Receiving, Sending
  <2>6. CASE receiver' = "retries" /\ answers' = Put(answers, "CAN")
    <3>1. Elems(answers') \subseteq {"CAN"}
      <4>1. "CAN" \in Answers
        BY DEF Answers
      <4> QED BY <1>0, <2>2, <2>6, <4>1, PutOnEmpty
    <3> QED BY <2>1, <2>2, <2>6, <3>1 DEF InStep, Receiving
  <2> QED BY <1>3, <2>5, <2>6 DEF Repeated, Answer
<1>4. CASE ReceiveEot
  <2>1. r = Blocks /\ receiver' = "done"
    BY <1>4, HeadTells DEF ReceiveEot, Return
  <2> QED BY <2>1 DEF InStep, Receiving
<1>5. CASE ReceiveCan
  <2>1. sender' = "failed" /\ receiver' = "cancelled"
    BY <1>5, HeadTells DEF ReceiveCan, Received, Comes, Return
  <2> QED BY <2>1 DEF InStep, Receiving
<1>6. CASE LoseFrame \/ GarbleFrame
  <2>1. /\ UNCHANGED <<sender, block, receiver, answers>> /\ line # <<>>
        /\ line' = Tail(line) \/ line' = [line EXCEPT ![1] = Noise]
    BY <1>6 DEF LoseFrame, GarbleFrame
  <2>2. /\ Elems(line') \subseteq Elems(line) \cup {Noise}
        /\ Len(line') = Len(line) - 1 \/ Len(line') = Len(line)
    <3>1. Noise \in Frames
      BY FramesAre
    <3>2. /\ Elems(Tail(line)) \subseteq Elems(line) /\ Len(Tail(line)) = Len(line) - 1
          /\ Elems([line EXCEPT ![1] = Noise]) \subseteq Elems(line) \cup {Noise}
          /\ Len([line EXCEPT ![1] = Noise]) = Len(line)
      <4>1. line \in Seq(Frames) /\ line # <<>>
        BY <1>0, <2>1
      <4> QED BY <3>1, <4>1, ElemsAre
    <3> QED BY <2>1, <3>2
  <2>3. Receiving /\ Sending => Len(line') + Len(answers') <= 1
    BY <1>0, <2>1, <2>2 DEF InStep
  <2> QED BY <2>1, <2>2, <2>3, NothingNew
<1>7. CASE LoseAnswer \/ GarbleAnswer
  <2>1. /\ UNCHANGED <<sender, block, receiver, line>> /\ answers # <<>>
        /\ answers' = Tail(answers) \/ answers' = [answers EXCEPT ![1] = "noise"]
    BY <1>7 DEF LoseAnswer, GarbleAnswer
  <2>2. /\ Elems(answers') \subseteq Elems(answers) \cup {"noise"}
        /\ Len(answers') = Len(answers) - 1 \/ Len(answers') = Len(answers)
    <3>1. "noise" \in Answers
      BY DEF Answers
    <3>2. /\ Elems(Tail(answers)) \subseteq Elems(answers) /\ Len(Tail(answers)) = Len(answers) - 1
          /\ Elems([answers EXCEPT ![1] = "noise"]) \subseteq Elems(answers) \cup {"noise"}
          /\ Len([answers EXCEPT ![1] = "noise"]) = Len(answers)
      BY <1>0, <2>1, <3>1, ElemsAre
    <3> QED BY <2>1, <3>2
  <2>3. Receiving /\ Sending => Len(line') + Len(answers') <= 1
    BY <1>0, <2>1, <2>2 DEF InStep
  <2> QED BY <2>1, <2>2, <2>3, NothingNew
<1>8. CASE UNCHANGED vars
  BY <1>8 DEF vars, InStep, Receiving, Sending
<1>9. ~ Misread
  BY DEF Misread
<1> QED BY <1>1, <1>2, <1>3, <1>4, <1>5, <1>6, <1>7, <1>8, <1>9
-------------------------------------------------------------------------------
(* The theorems.                                                           *)

LEMMA InitHolds == Init => IInv
<1> SUFFICES ASSUME Init PROVE IInv
  OBVIOUS
<1>1. /\ line = <<>> /\ answers = <<>> /\ sender = "sync" /\ block = 0 /\ tries = 1
      /\ receiver = "wait" /\ packetno = 1 /\ trychar = TRUE /\ retrans = MaxRetrans
      /\ dest = <<>> /\ astray = FALSE
  BY DEF Init
<1>2. /\ Len(<<>>) = 0 /\ <<>> \in Seq(Frames) /\ <<>> \in Seq(Answers) /\ <<>> \in Seq(Nat)
  BY EmptySeq
<1>3. /\ 1 \in 0 .. (Word - 1) /\ 0 <= Depth /\ 1 % Word = 1 /\ 0 \in 0 .. Blocks
      /\ MaxRetrans \in Int
  BY WordIs, XmodemAssumption
<1>4. Count(<<>>, {"ACK"}) = 0
  BY CountEmpty
<1>5. TypeOK
  BY <1>1, <1>2, <1>3 DEF TypeOK
<1>6. Sync
  BY <1>1, <1>4 DEF Sync, Receiving, Acks
<1>7. Follows(0)
  <2>1. Len(dest) = IF 0 < DestSize THEN 0 ELSE DestSize
    BY <1>1, <1>2, XmodemAssumption
  <2>2. packetno = (0 + 1) % Word
    BY <1>1, <1>3
  <2> QED BY <1>1, <1>2, <2>1, <2>2 DEF Follows
<1>8. Window(0)
  <2>1. 0 + 0 <= 0 + 2 * Depth
    BY WordIs
  <2>2. Balance(<<>>, 0, 0, 0) /\ Ordered(<<>>, 0, 0)
    BY <2>1, BalanceEmpty
  <2> QED BY <1>1, <1>4, <2>2 DEF Window, Acks
<1>9. InStep(0)
  <2>1. Len(line) + Len(answers) <= 1
    BY <1>1, <1>2
  <2> QED BY <1>1, <2>1 DEF InStep, Receiving, Sending
<1> QED BY <1>5, <1>6, <1>7, <1>8, <1>9 DEF IInv, Accepted

LEMMA StepHolds == IInv /\ [Next]_vars => IInv'
<1> SUFFICES ASSUME IInv, [Next]_vars PROVE IInv'
  OBVIOUS
<1>1. TypeOK /\ Sync /\ TypeOK'
  BY TypesStep DEF IInv
<1>2. PICK r \in Nat : Follows(r) /\ Window(r) /\ (~ astray => InStep(r))
  BY DEF IInv, Accepted
<1>3. ~ astray' => ~ astray
  <2>1. astray' = astray \/ TimesOut \/ Misread
    BY DEF Next, vars, SenderTimeout, Acknowledged, Refused, Cancelled, Garbled, Answered,
           ReceiverTimeout, Store, Repeated, Unexpected, ReceiveNoise, ReceiveEot, ReceiveCan,
           Received, Comes, LoseFrame, LoseAnswer, GarbleFrame, GarbleAnswer
  <2> QED BY <1>1, <2>1 DEF TimesOut, Misread, TypeOK
<1>4. CASE Store
  <2>1. Accepted(r + 1)'
    BY <1>1, <1>2, <1>3, <1>4, WindowStep, StoreInStep DEF Accepted
  <2>2. r + 1 \in Nat
    OBVIOUS
  <2> QED BY <1>1, <1>2, <1>4, <2>1, <2>2, WindowStep DEF IInv
<1>5. CASE ~ Store
  <2>1. Follows(r)' /\ Window(r)' /\ Sync'
    BY <1>1, <1>2, <1>5, WindowStep
  <2>2. ~ astray' => InStep(r)'
    BY <1>1, <1>2, <1>3, <1>5, SenderInStep, OtherInStep DEF Next
  <2> QED BY <1>1, <2>1, <2>2 DEF IInv, Accepted
<1> QED BY <1>4, <1>5

\* However the line behaves, the packets under way are in order, and the
\* transmitter is less than Word packets ahead of the receiver; as long as no
\* timeout comes early, nor a packet is read as other bytes, one thing at a time
\* is under way.
THEOREM XmodemInvariant == Spec => []IInv
<1>1. Init => IInv
  BY InitHolds
<1>2. IInv /\ [Next]_vars => IInv'
  BY StepHolds
<1> QED BY <1>1, <1>2, PTL DEF Spec

\* The image is stored in order, each block once (xmodemReceive), for every
\* length of file, every delay and every number of losses.
THEOREM ImageInOrder == Spec => []StoredInOrder
<1>1. IInv => StoredInOrder
  BY DEF IInv, Accepted, Follows, StoredInOrder
<1> QED BY <1>1, XmodemInvariant, PTL

\* A receiver that returns a length has the file, and a transmitter that reports
\* success can rely on it, as long as no timeout comes early and no packet without
\* its start is read as other bytes.
THEOREM ImageComplete == Spec => []CompleteAtEnd
<1>1. IInv => CompleteAtEnd
  <2> SUFFICES ASSUME IInv, ~ astray
               PROVE  /\ receiver = "done" => WholeFile
                      /\ sender = "done" => receiver = "done"
    BY DEF CompleteAtEnd
  <2>1. PICK r \in Nat : Follows(r) /\ InStep(r)
    BY DEF IInv, Accepted
  <2>2. receiver \in {"wait", "done", "cancelled", "retries"}
    BY DEF IInv, TypeOK
  <2>3. receiver = "done" => WholeFile
    BY <2>1 DEF InStep, Follows, WholeFile
  <2>4. sender = "done" => receiver = "done"
    BY <2>1, <2>2 DEF InStep, Receiving, Sending
  <2> QED BY <2>3, <2>4
<1> QED BY <1>1, XmodemInvariant, PTL
===============================================================================
