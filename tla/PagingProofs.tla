----------------------------- MODULE PagingProofs -----------------------------
(***************************************************************************)
(* Proofs about the page allocator, for every memory size, reserved area,  *)
(* alignment and block size.  Every action moves one block between the     *)
(* list and the callers: Removes and Adds say so about the list, the two   *)
(* lemmas TakeKeeps and GiveKeeps then carry every invariant, and the same *)
(* facts show that each step is a step of the abstract allocator.          *)
(***************************************************************************)
EXTENDS Paging, SequenceTheorems, TLAPS

Elements(s) == {s[i] : i \in DOMAIN s}
Injective(s) == \A i, j \in DOMAIN s : s[i] = s[j] => i = j

\* The conjunction that is inductive: TypeOK needs the counter to be exact
\* (it is decremented), and NoDuplicates needs the held blocks to be off the
\* list (they are pushed back).
IInv == /\ TypeOK
        /\ NoDuplicates
        /\ Exclusive
        /\ Conserved
        /\ CounterExact
        /\ BlocksAligned

\* The list lost exactly the pages of block (p, n) ...
Removes(p, n) ==
  /\ free_list' \in Seq(Pages)
  /\ Injective(free_list')
  /\ Len(free_list') = Len(free_list) - n
  /\ Block(p, n) \subseteq FreeSet
  /\ FreeSet' = FreeSet \ Block(p, n)

\* ... or gained exactly them.
Adds(p, n) ==
  /\ free_list' \in Seq(Pages)
  /\ Injective(free_list')
  /\ Len(free_list') = Len(free_list) + n
  /\ FreeSet' = FreeSet \cup Block(p, n)

-------------------------------------------------------------------------------
\* u is the list s of N integers without repetitions, less the n elements
\* from position k, which ascend one by one.  Lists are functions here.
IsCut(N, s, k, n, u) ==
  /\ N \in Nat /\ DOMAIN s = 1 .. N /\ Injective(s)
  /\ \A i \in 1 .. N : s[i] \in Int
  /\ k \in 1 .. N /\ n \in Nat /\ n >= 1 /\ k + n - 1 <= N
  /\ \A j \in 1 .. (n - 1) : s[k + j] = s[k] + j
  /\ DOMAIN u = 1 .. (N - n)
  /\ \A i \in 1 .. (N - n) : u[i] = IF i < k THEN s[i] ELSE s[i + n]

\* Such a cut removes exactly the block that starts with s[k].
LEMMA CutFunction ==
  ASSUME NEW N, NEW s, NEW k, NEW n, NEW u, IsCut(N, s, k, n, u)
  PROVE  /\ Injective(u)
         /\ Block(s[k], n) \subseteq Elements(s)
         /\ Elements(u) = Elements(s) \ Block(s[k], n)
<1>0. /\ N \in Nat /\ DOMAIN s = 1 .. N /\ Injective(s)
      /\ \A i \in 1 .. N : s[i] \in Int
      /\ k \in 1 .. N /\ n \in Nat /\ n >= 1 /\ k + n - 1 <= N
      /\ \A j \in 1 .. (n - 1) : s[k + j] = s[k] + j
      /\ DOMAIN u = 1 .. (N - n)
      /\ \A i \in 1 .. (N - n) : u[i] = IF i < k THEN s[i] ELSE s[i + n]
  BY DEF IsCut
<1> USE <1>0
<1> DEFINE Src(i) == IF i < k THEN i ELSE i + n
<1>1. \A i \in 1 .. (N - n) : /\ Src(i) \in 1 .. N
                              /\ Src(i) \notin k .. (k + n - 1)
                              /\ u[i] = s[Src(i)]
  OBVIOUS
<1>2. \A i, j \in 1 .. (N - n) : Src(i) = Src(j) => i = j
  OBVIOUS
<1>3. \A x \in 1 .. N : x \notin k .. (k + n - 1) =>
                          \E i \in 1 .. (N - n) : x = Src(i)
  <2> SUFFICES ASSUME NEW x \in 1 .. N, x \notin k .. (k + n - 1)
               PROVE  \E i \in 1 .. (N - n) : x = Src(i)
    OBVIOUS
  <2>1. CASE x < k
    <3>1. x \in 1 .. (N - n) /\ x = Src(x)
      BY <2>1
    <3> QED BY <3>1
  <2>2. CASE ~(x < k)
    <3>1. x - n \in 1 .. (N - n) /\ x = Src(x - n)
      BY <2>2
    <3> QED BY <3>1
  <2> QED BY <2>1, <2>2
<1> HIDE DEF Src
<1>4. Injective(u)
  BY <1>1, <1>2 DEF Injective
<1>5. \A j \in 0 .. (n - 1) : k + j \in 1 .. N /\ s[k + j] = s[k] + j
  <2> SUFFICES ASSUME NEW j \in 0 .. (n - 1)
               PROVE  k + j \in 1 .. N /\ s[k + j] = s[k] + j
    OBVIOUS
  <2>1. CASE j = 0
    BY <2>1
  <2>2. CASE j # 0
    BY <2>2
  <2> QED BY <2>1, <2>2
<1>6. \A m \in Block(s[k], n) : \E x \in k .. (k + n - 1) : m = s[x]
  <2> SUFFICES ASSUME NEW m \in Block(s[k], n)
               PROVE  \E x \in k .. (k + n - 1) : m = s[x]
    OBVIOUS
  <2>1. m - s[k] \in 0 .. (n - 1) /\ m = s[k] + (m - s[k])
    BY DEF Block
  <2>2. m = s[k + (m - s[k])] /\ k + (m - s[k]) \in k .. (k + n - 1)
    BY <2>1, <1>5
  <2> QED BY <2>2
<1>7. \A x \in k .. (k + n - 1) : x \in 1 .. N /\ s[x] \in Block(s[k], n)
  <2> SUFFICES ASSUME NEW x \in k .. (k + n - 1)
               PROVE  x \in 1 .. N /\ s[x] \in Block(s[k], n)
    OBVIOUS
  <2>1. x - k \in 0 .. (n - 1) /\ x = k + (x - k)
    OBVIOUS
  <2>2. s[x] = s[k] + (x - k)
    BY <2>1, <1>5
  <2> QED BY <2>1, <2>2 DEF Block
<1>8. Block(s[k], n) \subseteq Elements(s)
  BY <1>6, <1>7 DEF Elements
<1>9. Elements(u) \subseteq Elements(s) \ Block(s[k], n)
  <2> SUFFICES ASSUME NEW i \in 1 .. (N - n)
               PROVE  u[i] \in Elements(s) /\ u[i] \notin Block(s[k], n)
    BY DEF Elements
  <2>1. u[i] \in Elements(s)
    BY <1>1 DEF Elements
  <2>2. ASSUME u[i] \in Block(s[k], n) PROVE FALSE
    <3>1. PICK x \in k .. (k + n - 1) : u[i] = s[x]
      BY <2>2, <1>6
    <3>2. x \in DOMAIN s /\ Src(i) \in DOMAIN s /\ s[x] = s[Src(i)]
      BY <3>1, <1>1, <1>7
    <3>3. x = Src(i)
      BY <3>2 DEF Injective
    <3> QED BY <3>3, <1>1
  <2> QED BY <2>1, <2>2
<1>10. Elements(s) \ Block(s[k], n) \subseteq Elements(u)
  <2> SUFFICES ASSUME NEW x \in 1 .. N, s[x] \notin Block(s[k], n)
               PROVE  s[x] \in Elements(u)
    BY DEF Elements
  <2>1. x \notin k .. (k + n - 1)
    BY <1>7
  <2>2. PICK i \in 1 .. (N - n) : x = Src(i)
    BY <2>1, <1>3
  <2>3. u[i] = s[x]
    BY <2>2, <1>1
  <2> QED BY <2>3 DEF Elements
<1> QED BY <1>4, <1>8, <1>9, <1>10

\* The list without the n elements from position k, as a sequence.
CutSeq(s, k, n) == SubSeq(s, 1, k - 1) \o SubSeq(s, k + n, Len(s))

\* Where the elements of the cut sequence come from.
LEMMA CutIndices ==
  ASSUME NEW S, NEW s \in Seq(S),
         NEW k \in 1 .. Len(s), NEW n \in Nat, n >= 1, k + n - 1 <= Len(s)
  PROVE  /\ CutSeq(s, k, n) \in Seq(S)
         /\ Len(CutSeq(s, k, n)) = Len(s) - n
         /\ \A i \in 1 .. (Len(s) - n) :
              CutSeq(s, k, n)[i] = IF i < k THEN s[i] ELSE s[i + n]
<1> DEFINE N == Len(s)
           a == SubSeq(s, 1, k - 1)
           b == SubSeq(s, k + n, N)
<1>1. N \in Nat /\ \A i \in 1 .. N : s[i] \in S
  BY LenProperties, ElementOfSeq
<1>2. /\ a \in Seq(S) /\ Len(a) = k - 1
      /\ \A i \in 1 .. (k - 1) : a[i] = s[i]
  <2>1. \A i \in 1 .. (k - 1) : s[i] \in S
    BY <1>1
  <2>2. /\ a \in Seq(S)
        /\ Len(a) = IF 1 <= k - 1 THEN (k - 1) - 1 + 1 ELSE 0
        /\ \A i \in 1 .. (k - 1) - 1 + 1 : a[i] = s[1 + i - 1]
    BY <2>1, <1>1, SubSeqProperties
  <2> QED BY <2>2, <1>1
<1>3. /\ b \in Seq(S) /\ Len(b) = N - (k + n) + 1
      /\ \A i \in 1 .. (N - (k + n) + 1) : b[i] = s[k + n + i - 1]
  <2>1. \A i \in (k + n) .. N : s[i] \in S
    BY <1>1
  <2>2. /\ b \in Seq(S)
        /\ Len(b) = IF k + n <= N THEN N - (k + n) + 1 ELSE 0
        /\ \A i \in 1 .. N - (k + n) + 1 : b[i] = s[k + n + i - 1]
    BY <2>1, <1>1, SubSeqProperties
  <2> QED BY <2>2, <1>1
<1>4. CutSeq(s, k, n) = a \o b /\ k \in 1 .. N /\ k + n - 1 <= N
  BY DEF CutSeq
<1> HIDE DEF N, a, b
<1>5. /\ a \o b \in Seq(S) /\ Len(a \o b) = Len(a) + Len(b)
      /\ \A i \in 1 .. Len(a) + Len(b) :
           (a \o b)[i] = IF i <= Len(a) THEN a[i] ELSE b[i - Len(a)]
  BY <1>2, <1>3, ConcatProperties
<1>6. Len(a) + Len(b) = N - n
  BY <1>1, <1>2, <1>3, <1>4
<1>7. ASSUME NEW i \in 1 .. (N - n)
      PROVE  CutSeq(s, k, n)[i] = IF i < k THEN s[i] ELSE s[i + n]
  <2>1. CutSeq(s, k, n)[i] = IF i <= k - 1 THEN a[i] ELSE b[i - (k - 1)]
    BY <1>2, <1>4, <1>5, <1>6
  <2>2. CASE i < k
    BY <2>1, <2>2, <1>1, <1>2, <1>4
  <2>3. CASE ~(i < k)
    <3>1. i - (k - 1) \in 1 .. (N - (k + n) + 1)
      BY <2>3, <1>1, <1>4
    <3>2. b[i - (k - 1)] = s[k + n + (i - (k - 1)) - 1]
      BY <3>1, <1>3
    <3>3. k + n + (i - (k - 1)) - 1 = i + n
      BY <1>1, <1>4
    <3> QED BY <2>1, <2>3, <3>2, <3>3, <1>1, <1>4
  <2> QED BY <2>2, <2>3
<1> QED BY <1>4, <1>5, <1>6, <1>7 DEF N

-------------------------------------------------------------------------------
\* alloc_page removes the first page of the list.
LEMMA AllocPageRemoves ==
  ASSUME IInv, AllocPage
  PROVE  Head(free_list) \in Pages /\ Removes(Head(free_list), 1)
<1>1. /\ free_list \in Seq(Pages) /\ free_list # <<>> /\ free_list' = Tail(free_list)
      /\ Injective(free_list)
  BY DEF IInv, TypeOK, AllocPage, NoDuplicates, Injective
<1>2. /\ Len(free_list) \in Nat /\ DOMAIN free_list = 1 .. Len(free_list)
      /\ Len(free_list) >= 1
      /\ \A i \in 1 .. Len(free_list) : free_list[i] \in Int
  <2>1. Len(free_list) \in Nat /\ DOMAIN free_list = 1 .. Len(free_list)
    BY <1>1, LenProperties
  <2>2. Len(free_list) # 0
    BY <1>1, EmptySeq
  <2>3. \A i \in 1 .. Len(free_list) : free_list[i] \in Pages
    BY <1>1, ElementOfSeq
  <2> QED BY <2>1, <2>2, <2>3, PagingAssumption DEF Pages
<1>3. /\ free_list' \in Seq(Pages) /\ Len(free_list') = Len(free_list) - 1
      /\ \A i \in 1 .. (Len(free_list) - 1) : free_list'[i] = free_list[i + 1]
      /\ Head(free_list) \in Pages
  BY <1>1, HeadTailProperties
<1>4. DOMAIN free_list' = 1 .. (Len(free_list) - 1)
  BY <1>3, LenProperties
<1>5. Head(free_list) = free_list[1]
  BY <1>1
<1>6. IsCut(Len(free_list), free_list, 1, 1, free_list')
  BY <1>1, <1>2, <1>3, <1>4 DEF IsCut
<1>7. /\ Injective(free_list')
      /\ Block(free_list[1], 1) \subseteq Elements(free_list)
      /\ Elements(free_list') = Elements(free_list) \ Block(free_list[1], 1)
  BY <1>6, CutFunction
<1> QED BY <1>3, <1>5, <1>7 DEF Removes, FreeSet, Elements

\* alloc_aligned_pages removes the block that starts at the position found.
LEMMA AllocAlignedRemoves ==
  ASSUME IInv, NEW k \in BlockStarts(BlockPages), free_list' = Unlinked(k, BlockPages)
  PROVE  /\ Removes(free_list[k], BlockPages)
         /\ free_list[k] \in Pages
         /\ free_list[k] + BlockPages - 1 \in Pages
<1> DEFINE N == Len(free_list)
           n == BlockPages
<1>1. free_list \in Seq(Pages) /\ Injective(free_list)
  BY DEF IInv, TypeOK, NoDuplicates, Injective
<1>2. /\ N \in Nat /\ DOMAIN free_list = 1 .. N
      /\ \A i \in 1 .. N : free_list[i] \in Pages
  BY <1>1, LenProperties, ElementOfSeq
<1>3. /\ k \in 1 .. N /\ n \in Nat /\ n >= 2 /\ k + n - 1 <= N
      /\ \A j \in 1 .. (n - 1) : free_list[k + j] = free_list[k] + j
  BY <1>2, PagingAssumption DEF BlockStarts, Ascending
<1>4. /\ free_list' \in Seq(Pages) /\ Len(free_list') = N - n
      /\ \A i \in 1 .. (N - n) :
           free_list'[i] = IF i < k THEN free_list[i] ELSE free_list[i + n]
  <2>1. free_list' = CutSeq(free_list, k, n)
    BY DEF Unlinked, CutSeq
  <2> QED BY <2>1, <1>1, <1>3, CutIndices
<1>5. DOMAIN free_list' = 1 .. (N - n)
  BY <1>4, LenProperties
<1>6. \A i \in 1 .. N : free_list[i] \in Int
  BY <1>2, PagingAssumption DEF Pages
<1>7. /\ Injective(free_list')
      /\ Block(free_list[k], n) \subseteq Elements(free_list)
      /\ Elements(free_list') = Elements(free_list) \ Block(free_list[k], n)
  <2>1. IsCut(N, free_list, k, n, free_list')
    BY <1>1, <1>2, <1>3, <1>4, <1>5, <1>6 DEF IsCut
  <2> QED BY <2>1, CutFunction
<1>8. free_list[k] \in Pages /\ free_list[k] + n - 1 \in Pages
  <2>1. k + (n - 1) \in 1 .. N /\ n - 1 \in 1 .. (n - 1)
    BY <1>2, <1>3
  <2>2. free_list[k + (n - 1)] = free_list[k] + (n - 1)
    BY <2>1, <1>3
  <2>3. free_list[k] + (n - 1) \in Pages
    BY <2>1, <2>2, <1>2
  <2> QED BY <2>3, <1>2, <1>3, PagingAssumption DEF Pages
<1> QED BY <1>4, <1>7, <1>8 DEF Removes, FreeSet, Elements

\* Linking n pages that are not listed in front of the list adds exactly them.
LEMMA PushAdds ==
  ASSUME IInv, NEW p \in Pages, NEW n \in Nat, n >= 1, p + n - 1 \in Pages,
         Block(p, n) \cap FreeSet = {},
         free_list' = Pushed(p, n)
  PROVE  Adds(p, n)
<1> DEFINE N == Len(free_list)
           b == [j \in 1 .. n |-> p + j - 1]
<1>1. /\ free_list \in Seq(Pages) /\ N \in Nat /\ DOMAIN free_list = 1 .. N
      /\ Injective(free_list)
  BY LenProperties DEF IInv, TypeOK, NoDuplicates, Injective
<1>2. p \in Int /\ \A j \in 1 .. n : p + j - 1 \in Pages
  BY PagingAssumption DEF Pages
<1>3. b \in Seq(Pages) /\ Len(b) = n
  <2>1. b \in [1 .. n -> Pages]
    BY <1>2
  <2>2. b \in Seq(Pages)
    BY <2>1, SeqDef
  <2>3. DOMAIN b = 1 .. n /\ DOMAIN b = 1 .. Len(b) /\ Len(b) \in Nat
    BY <2>2, LenProperties
  <2> QED BY <2>2, <2>3
<1>4. \A j \in 1 .. n : b[j] = p + j - 1
  OBVIOUS
<1>5. free_list' = b \o free_list
  BY DEF Pushed
<1> HIDE DEF b
<1>6. /\ free_list' \in Seq(Pages) /\ Len(free_list') = N + n
      /\ \A i \in 1 .. (N + n) :
           free_list'[i] = IF i <= n THEN b[i] ELSE free_list[i - n]
  <2>1. /\ b \o free_list \in Seq(Pages)
        /\ Len(b \o free_list) = Len(b) + Len(free_list)
        /\ \A i \in 1 .. Len(b) + Len(free_list) :
             (b \o free_list)[i] =
               IF i <= Len(b) THEN b[i] ELSE free_list[i - Len(b)]
    BY <1>1, <1>3, ConcatProperties
  <2>2. Len(b) = n /\ Len(free_list) = N /\ n + N = N + n
    BY <1>1, <1>3
  <2> HIDE DEF N
  <2> QED BY <2>1, <2>2, <1>5
<1>7. DOMAIN free_list' = 1 .. (N + n)
  BY <1>6, LenProperties
<1> HIDE DEF N
<1>8. \A i \in 1 .. n : free_list'[i] = p + i - 1 /\ p + i - 1 \in Block(p, n)
  BY <1>1, <1>2, <1>4, <1>6 DEF Block
<1>9. \A i \in (n + 1) .. (N + n) : /\ i - n \in 1 .. N
                                    /\ free_list'[i] = free_list[i - n]
                                    /\ free_list[i - n] \in FreeSet
  BY <1>1, <1>6 DEF FreeSet
<1>10. Injective(free_list')
  <2> SUFFICES ASSUME NEW i \in 1 .. (N + n), NEW j \in 1 .. (N + n),
                      free_list'[i] = free_list'[j]
               PROVE  i = j
    BY <1>7 DEF Injective
  <2>1. CASE i <= n /\ j <= n
    <3>1. p + i - 1 = p + j - 1
      BY <2>1, <1>8
    <3> QED BY <3>1, <1>2
  <2>2. CASE i > n /\ j > n
    <3>1. i \in (n + 1) .. (N + n) /\ j \in (n + 1) .. (N + n)
      BY <2>2, <1>1
    <3>2. i - n = j - n
      BY <3>1, <1>1, <1>9 DEF Injective
    <3> QED BY <3>2, <1>1
  <2>3. CASE i <= n /\ j > n
    <3>1. i \in 1 .. n /\ j \in (n + 1) .. (N + n)
      BY <2>3, <1>1
    <3> QED BY <3>1, <1>8, <1>9
  <2>4. CASE i > n /\ j <= n
    <3>1. j \in 1 .. n /\ i \in (n + 1) .. (N + n)
      BY <2>4, <1>1
    <3> QED BY <3>1, <1>8, <1>9
  <2> QED BY <2>1, <2>2, <2>3, <2>4, <1>1
<1>11. FreeSet' = FreeSet \cup Block(p, n)
  <2>1. \A e \in FreeSet' : e \in FreeSet \cup Block(p, n)
    <3> SUFFICES ASSUME NEW i \in 1 .. (N + n)
                 PROVE  free_list'[i] \in FreeSet \cup Block(p, n)
      BY <1>7 DEF FreeSet
    <3>1. i \in 1 .. n \/ i \in (n + 1) .. (N + n)
      BY <1>1
    <3> QED BY <3>1, <1>8, <1>9
  <2>2. \A e \in FreeSet : e \in FreeSet'
    <3> SUFFICES ASSUME NEW i \in 1 .. N PROVE free_list[i] \in FreeSet'
      BY <1>1 DEF FreeSet
    <3>1. i + n \in (n + 1) .. (N + n) /\ (i + n) - n = i /\ i + n \in 1 .. (N + n)
      BY <1>1
    <3>2. free_list'[i + n] = free_list[i]
      BY <3>1, <1>9
    <3> QED BY <3>1, <3>2, <1>7 DEF FreeSet
  <2>3. \A e \in Block(p, n) : e \in FreeSet'
    <3> SUFFICES ASSUME NEW e \in Block(p, n) PROVE e \in FreeSet'
      OBVIOUS
    <3>1. e - p + 1 \in 1 .. n /\ e - p + 1 \in 1 .. (N + n) /\ p + (e - p + 1) - 1 = e
      BY <1>1, <1>2 DEF Block
    <3>2. free_list'[e - p + 1] = e
      BY <3>1, <1>8
    <3> QED BY <3>1, <3>2, <1>7 DEF FreeSet
  <2> QED BY <2>1, <2>2, <2>3
<1> QED BY <1>6, <1>10, <1>11 DEF Adds, N

-------------------------------------------------------------------------------
\* The sets of pages of the blocks in callers' hands.
HeldPages == UNION {Block(b[1], b[2]) : b \in held}

\* Handing a block that was on the list to a caller keeps the invariant.
LEMMA TakeKeeps ==
  ASSUME IInv, NEW p \in Pages, NEW n \in {1, BlockPages}, p + n - 1 \in Pages,
         n = BlockPages => p % AlignPages = 0,
         Removes(p, n), free_pages' = free_pages - n, held' = held \cup {<<p, n>>}
  PROVE  IInv'
<1>1. n \in Nat /\ n >= 1 /\ p \in Block(p, n)
  BY PagingAssumption DEF Block, Pages
<1>2. Len(free_list') \in Nat /\ Len(free_list') = Len(free_list) - n
  BY LenProperties DEF Removes
<1>3. TypeOK'
  <2>1. free_pages' \in Nat
    BY <1>1, <1>2 DEF IInv, CounterExact, TypeOK
  <2>2. \A b \in held' : /\ b = <<b[1], b[2]>> /\ b[2] \in {1, BlockPages}
                         /\ b[1] \in Pages /\ b[1] + b[2] - 1 \in Pages
    <3>1. \A b \in held : /\ b = <<b[1], b[2]>> /\ b[2] \in {1, BlockPages}
                          /\ b[1] \in Pages /\ b[1] + b[2] - 1 \in Pages
      BY DEF IInv, TypeOK
    <3> QED BY <3>1
  <2> QED BY <2>1, <2>2 DEF TypeOK, Removes, Pages
<1>4. NoDuplicates'
  BY DEF Removes, Injective, NoDuplicates
<1>5. Exclusive'
  <2>1. \A b \in held' : Block(b[1], b[2]) \cap FreeSet' = {}
    BY DEF IInv, Exclusive, Removes
  <2>2. \A b, c \in held' : b # c => Block(b[1], b[2]) \cap Block(c[1], c[2]) = {}
    <3>1. \A b \in held : Block(b[1], b[2]) \cap Block(p, n) = {}
      BY DEF IInv, Exclusive, Removes
    <3>2. \A b, c \in held : b # c => Block(b[1], b[2]) \cap Block(c[1], c[2]) = {}
      BY DEF IInv, Exclusive
    <3>3. \A b \in held' : b \in held \/ (b[1] = p /\ b[2] = n /\ b = <<p, n>>)
      OBVIOUS
    <3> SUFFICES ASSUME NEW b \in held', NEW c \in held', b # c
                 PROVE  Block(b[1], b[2]) \cap Block(c[1], c[2]) = {}
      OBVIOUS
    <3>4. CASE b \in held /\ c \in held
      BY <3>2, <3>4
    <3>5. CASE b \in held /\ c \notin held
      <4>1. c[1] = p /\ c[2] = n
        BY <3>3, <3>5
      <4>2. Block(b[1], b[2]) \cap Block(p, n) = {}
        BY <3>1, <3>5
      <4> QED BY <4>1, <4>2
    <3>6. CASE b \notin held /\ c \in held
      <4>1. b[1] = p /\ b[2] = n
        BY <3>3, <3>6
      <4>2. Block(c[1], c[2]) \cap Block(p, n) = {}
        BY <3>1, <3>6
      <4> QED BY <4>1, <4>2
    <3>7. CASE b \notin held /\ c \notin held
      BY <3>3, <3>7
    <3> QED BY <3>4, <3>5, <3>6, <3>7
  <2> QED BY <2>1, <2>2 DEF Exclusive, Block
<1>6. Conserved'
  <2>1. HeldPages' = HeldPages \cup Block(p, n)
    <3> DEFINE c == <<p, n>>
    <3>1. held' = held \cup {c} /\ c[1] = p /\ c[2] = n
      OBVIOUS
    <3> HIDE DEF c
    <3>2. HeldPages' = UNION {Block(b[1], b[2]) : b \in held'}
      BY DEF HeldPages, Block
    <3>3. UNION {Block(b[1], b[2]) : b \in held'} = HeldPages \cup Block(c[1], c[2])
      BY <3>1 DEF HeldPages
    <3> QED BY <3>1, <3>2, <3>3
  <2> QED BY <2>1 DEF IInv, Conserved, HeldPages, Removes, Pages, Block
<1>7. CounterExact'
  BY <1>2 DEF IInv, CounterExact
<1>8. BlocksAligned'
  BY DEF IInv, BlocksAligned
<1> QED BY <1>3, <1>4, <1>5, <1>6, <1>7, <1>8 DEF IInv

\* Taking a block back onto the list keeps the invariant.
LEMMA GiveKeeps ==
  ASSUME IInv, NEW p, NEW n, <<p, n>> \in held,
         Adds(p, n), free_pages' = free_pages + n, held' = held \ {<<p, n>>}
  PROVE  IInv'
<1>1. p \in Pages /\ n \in {1, BlockPages} /\ n \in Nat
  BY PagingAssumption DEF IInv, TypeOK
<1>2. Len(free_list') \in Nat /\ Len(free_list') = Len(free_list) + n
  BY LenProperties DEF Adds
<1>3. TypeOK'
  <2>1. free_pages' \in Nat
    BY <1>1 DEF IInv, TypeOK
  <2> QED BY <2>1 DEF IInv, TypeOK, Adds, Pages
<1>4. NoDuplicates'
  BY DEF Adds, Injective, NoDuplicates
<1>5. Exclusive'
  <2>1. \A b \in held' : Block(b[1], b[2]) \cap Block(p, n) = {}
    <3> SUFFICES ASSUME NEW b \in held' PROVE Block(b[1], b[2]) \cap Block(p, n) = {}
      OBVIOUS
    <3>1. b \in held /\ b # <<p, n>>
      OBVIOUS
    <3> DEFINE c == <<p, n>>
    <3>2. c \in held /\ b # c /\ c[1] = p /\ c[2] = n
      BY <3>1
    <3> HIDE DEF c
    <3>3. Block(b[1], b[2]) \cap Block(c[1], c[2]) = {}
      BY <3>1, <3>2 DEF IInv, Exclusive
    <3> QED BY <3>2, <3>3
  <2>2. \A b \in held' : Block(b[1], b[2]) \cap FreeSet' = {}
    <3>1. \A b \in held' : Block(b[1], b[2]) \cap FreeSet = {}
      BY DEF IInv, Exclusive
    <3> QED BY <2>1, <3>1 DEF Adds
  <2>3. \A b, c \in held' : b # c => Block(b[1], b[2]) \cap Block(c[1], c[2]) = {}
    BY DEF IInv, Exclusive
  <2> QED BY <2>2, <2>3 DEF Exclusive, Block
<1>6. Conserved'
  <2>1. HeldPages = HeldPages' \cup Block(p, n)
    BY DEF HeldPages, Block
  <2> QED BY <2>1 DEF IInv, Conserved, HeldPages, Adds, Pages, Block
<1>7. CounterExact'
  BY <1>2 DEF IInv, CounterExact
<1>8. BlocksAligned'
  BY DEF IInv, BlocksAligned
<1> QED BY <1>3, <1>4, <1>5, <1>6, <1>7, <1>8 DEF IInv

-------------------------------------------------------------------------------
\* What a step of Next is, seen from outside: a block leaves the list for a
\* caller, or comes back.
TakeStep(p, n) ==
  /\ p \in Pages /\ p + n - 1 \in Pages
  /\ n = BlockPages => p % AlignPages = 0
  /\ Removes(p, n) /\ free_pages' = free_pages - n /\ held' = held \cup {<<p, n>>}

GiveStep(p, n) ==
  /\ <<p, n>> \in held
  /\ Adds(p, n) /\ free_pages' = free_pages + n /\ held' = held \ {<<p, n>>}

LEMMA StepIsTakeOrGive ==
  ASSUME IInv, Next
  PROVE  \E p \in Pages, n \in {1, BlockPages} : TakeStep(p, n) \/ GiveStep(p, n)
<1>1. CASE AllocPage
  <2>1. Head(free_list) \in Pages /\ Removes(Head(free_list), 1)
    BY <1>1, AllocPageRemoves
  <2>2. Head(free_list) + 1 - 1 \in Pages /\ 1 # BlockPages
    BY <2>1, PagingAssumption DEF Pages
  <2>3. TakeStep(Head(free_list), 1)
    BY <1>1, <2>1, <2>2 DEF AllocPage, TakeStep
  <2> QED BY <2>1, <2>3
<1>2. CASE AllocAligned(BlockPages)
  <2>1. PICK k \in BlockStarts(BlockPages) :
          /\ free_list' = Unlinked(k, BlockPages)
          /\ free_pages' = free_pages - BlockPages
          /\ held' = held \cup {<<free_list[k], BlockPages>>}
    BY <1>2 DEF AllocAligned
  <2>2. /\ Removes(free_list[k], BlockPages)
        /\ free_list[k] \in Pages
        /\ free_list[k] + BlockPages - 1 \in Pages
    BY <2>1, AllocAlignedRemoves
  <2>3. free_list[k] % AlignPages = 0
    BY DEF BlockStarts
  <2>4. TakeStep(free_list[k], BlockPages)
    BY <2>1, <2>2, <2>3 DEF TakeStep
  <2> QED BY <2>2, <2>4
<1>3. ASSUME NEW p \in Pages, FreePage(p)
      PROVE  GiveStep(p, 1)
  <2>1. <<p, 1>> \in held /\ Block(p, 1) \cap FreeSet = {} /\ p + 1 - 1 \in Pages
    BY <1>3, PagingAssumption DEF FreePage, IInv, Exclusive, Pages
  <2>2. free_list' = Pushed(p, 1)
    <3>1. <<p>> = [j \in 1 .. 1 |-> p + j - 1]
      BY PagingAssumption DEF Pages
    <3> QED BY <1>3, <3>1 DEF FreePage, Pushed
  <2>3. Adds(p, 1)
    BY <2>1, <2>2, PushAdds
  <2> QED BY <1>3, <2>3 DEF FreePage, GiveStep
<1>4. ASSUME NEW p \in Pages, FreeAligned(p, BlockPages)
      PROVE  GiveStep(p, BlockPages)
  <2>1. /\ <<p, BlockPages>> \in held /\ Block(p, BlockPages) \cap FreeSet = {}
        /\ p + BlockPages - 1 \in Pages
    BY <1>4 DEF FreeAligned, IInv, Exclusive, TypeOK
  <2>2. Adds(p, BlockPages)
    BY <1>4, <2>1, PushAdds, PagingAssumption DEF FreeAligned
  <2> QED BY <1>4, <2>2 DEF FreeAligned, GiveStep
<1> QED BY <1>1, <1>2, <1>3, <1>4 DEF Next

LEMMA InitIInv == Init => IInv
<1> SUFFICES ASSUME Init PROVE IInv
  OBVIOUS
<1> DEFINE N == TotalPages - ReservedPages
<1>1. N \in Nat /\ free_list = [k \in 1 .. N |-> ReservedPages + k - 1]
      /\ free_pages = N /\ held = {}
  BY PagingAssumption DEF Init
<1>2. \A k \in 1 .. N : ReservedPages + k - 1 \in Pages
  BY PagingAssumption DEF Pages
<1> HIDE DEF N
<1>3. free_list \in [1 .. N -> Pages]
  BY <1>1, <1>2
<1>4. free_list \in Seq(Pages)
  BY <1>1, <1>3, SeqDef
<1>5. DOMAIN free_list = 1 .. N /\ Len(free_list) = N
  BY <1>1, <1>3, <1>4, LenProperties
<1>6. TypeOK /\ CounterExact /\ Exclusive /\ BlocksAligned
  BY <1>1, <1>4, <1>5 DEF TypeOK, CounterExact, Exclusive, BlocksAligned
<1>7. NoDuplicates
  BY <1>1, <1>5, PagingAssumption DEF NoDuplicates
<1>8. Conserved
  <2>1. \A p \in Pages : p \in FreeSet
    <3> SUFFICES ASSUME NEW p \in Pages PROVE p \in FreeSet
      OBVIOUS
    <3>1. p - ReservedPages + 1 \in 1 .. N /\ ReservedPages + (p - ReservedPages + 1) - 1 = p
      BY PagingAssumption DEF Pages, N
    <3>2. free_list[p - ReservedPages + 1] = p
      BY <3>1, <1>1
    <3> QED BY <3>1, <3>2, <1>5 DEF FreeSet
  <2>2. FreeSet \subseteq Pages
    BY <1>1, <1>2, <1>5 DEF FreeSet
  <2> QED BY <2>1, <2>2, <1>1 DEF Conserved
<1> QED BY <1>6, <1>7, <1>8 DEF IInv

LEMMA StepIInv == IInv /\ [Next]_vars => IInv'
<1> SUFFICES ASSUME IInv, [Next]_vars PROVE IInv'
  OBVIOUS
<1>1. CASE Next
  <2>1. PICK p \in Pages, n \in {1, BlockPages} : TakeStep(p, n) \/ GiveStep(p, n)
    BY <1>1, StepIsTakeOrGive
  <2>2. CASE TakeStep(p, n)
    BY <2>2, TakeKeeps DEF TakeStep
  <2>3. CASE GiveStep(p, n)
    BY <2>3, GiveKeeps DEF GiveStep
  <2> QED BY <2>1, <2>2, <2>3
<1>2. CASE UNCHANGED vars
  BY <1>2 DEF vars, IInv, TypeOK, NoDuplicates, Exclusive, Conserved, CounterExact,
              BlocksAligned, FreeSet, Pages, Block
<1> QED BY <1>1, <1>2

\* The free list never holds a page twice nor one a caller has, loses no page,
\* and its counter is exact: for every memory, alignment and block size.
THEOREM AllocatorInvariant == Spec => []IInv
<1>1. Init => IInv
  BY InitIInv
<1>2. IInv /\ [Next]_vars => IInv'
  BY StepIInv
<1> QED BY <1>1, <1>2, PTL DEF Spec

\* The list and the callers' blocks keep their types.
THEOREM TypeCorrect == Spec => []TypeOK
<1>1. IInv => TypeOK
  BY DEF IInv
<1> QED BY <1>1, AllocatorInvariant, PTL

\* Two owners never share a page, and an owned page is never on the list.
THEOREM PagesExclusive == Spec => []Exclusive
<1>1. IInv => Exclusive
  BY DEF IInv
<1> QED BY <1>1, AllocatorInvariant, PTL

\* No page is on the list twice: it cannot be handed out to two callers.
THEOREM PagesListedOnce == Spec => []NoDuplicates
<1>1. IInv => NoDuplicates
  BY DEF IInv
<1> QED BY <1>1, AllocatorInvariant, PTL

\* No page is lost: each is on the list or in a caller's hands.
THEOREM PagesConserved == Spec => []Conserved
<1>1. IInv => Conserved
  BY DEF IInv
<1> QED BY <1>1, AllocatorInvariant, PTL

\* free_pages counts the list, though it is adjusted apart from it.
THEOREM PagesCounted == Spec => []CounterExact
<1>1. IInv => CounterExact
  BY DEF IInv
<1> QED BY <1>1, AllocatorInvariant, PTL

\* Level-1 tables are handed out on their 16 KB boundary.
THEOREM TablesAligned == Spec => []BlocksAligned
<1>1. IInv => BlocksAligned
  BY DEF IInv
<1> QED BY <1>1, AllocatorInvariant, PTL

-------------------------------------------------------------------------------
\* The free list implements the abstract allocator: it starts with every page
\* free, and every step takes one block from the free set or gives one back.
THEOREM ListImplementsAllocator == Spec => Implements
<1>1. Init => Abstract!Init
  <2> SUFFICES ASSUME Init PROVE FreeSet = Pages /\ held = {}
    BY DEF Abstract!Init
  <2>1. Conserved /\ held = {}
    BY InitIInv DEF IInv, Init
  <2> QED BY <2>1 DEF Conserved
<1>2. IInv /\ [Next]_vars => [Abstract!Next]_(Abstract!vars)
  <2> SUFFICES ASSUME IInv, [Next]_vars PROVE [Abstract!Next]_(Abstract!vars)
    OBVIOUS
  <2>1. CASE Next
    <3>1. PICK p \in Pages, n \in {1, BlockPages} : TakeStep(p, n) \/ GiveStep(p, n)
      BY <2>1, StepIsTakeOrGive
    <3>2. CASE TakeStep(p, n)
      <4>1. Abstract!Take(p, n)
        BY <3>2 DEF TakeStep, Removes, Abstract!Take, Abstract!Block, Block
      <4> QED BY <4>1 DEF Abstract!Next
    <3>3. CASE GiveStep(p, n)
      <4>1. Abstract!Give(p, n)
        BY <3>3 DEF GiveStep, Adds, Abstract!Give, Abstract!Block, Block
      <4> QED BY <4>1 DEF Abstract!Next
    <3> QED BY <3>1, <3>2, <3>3
  <2>2. CASE UNCHANGED vars
    BY <2>2 DEF vars, Abstract!vars, FreeSet
  <2> QED BY <2>1, <2>2
<1> QED BY <1>1, <1>2, AllocatorInvariant, PTL DEF Spec, Implements, Abstract!Spec
===============================================================================
