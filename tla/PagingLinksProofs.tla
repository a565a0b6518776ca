-------------------------- MODULE PagingLinksProofs --------------------------
(***************************************************************************)
(* The next pointers of PagingLinks, stale ones included, implement the    *)
(* list of Paging, for every memory, reserved area, alignment and block    *)
(* size: whatever order the list has come to be in, following it from its  *)
(* head meets exactly the pages that Paging has on it.                     *)
(*                                                                         *)
(* WalkOf is Walk for any pointers, so that the lists before and after a   *)
(* step can be compared.  A list s is in the pointers (Linked) when its    *)
(* head is where free_list points and each page leads to the next; then it *)
(* is what a walk finds (WalkFinds).                                       *)
(***************************************************************************)
EXTENDS PagingLinks, FiniteSetTheorems, SequenceTheorems, WellFoundedInduction, TLAPS

P == INSTANCE PagingProofs WITH free_list <- FreeSeq

Count == TotalPages - ReservedPages

LEMMA SizesAre ==
  /\ P!PagingAssumption
  /\ Count \in Nat /\ TotalPages \in Nat /\ ReservedPages \in Nat /\ BlockPages \in Nat
  /\ BlockPages >= 2 /\ AlignPages \in Nat /\ AlignPages >= 1 /\ NULL \notin Int
  /\ Pages \subseteq Int /\ NULL \notin Pages /\ P!Pages = Pages
BY PagingLinksAssumption DEF Count, Pages, P!PagingAssumption, P!Pages

\* A non-empty set of naturals has a least element.
LEMMA LeastNat ==
  ASSUME NEW T, T \subseteq Nat, T # {}
  PROVE  \E x \in T : \A y \in T : x <= y
<1> DEFINE R == {ss \in Nat \X Nat : ss[1] < ss[2]}
<1>1. IsWellFoundedOn(R, Nat)
  BY NatLessThanWellFounded DEF OpToRel
<1>2. \A x, y \in T : ~ (<<y, x>> \in R) => x <= y
  OBVIOUS
<1> HIDE DEF R
<1>3. PICK x \in T : \A y \in T : ~ (<<y, x>> \in R)
  BY <1>1, WFMin
<1> QED BY <1>2, <1>3

-------------------------------------------------------------------------------
(* Following pointers nx from fl.                                          *)

Follow(nx, x) == IF x = NULL THEN NULL ELSE nx[x]
WalkOf(nx, fl) ==
  LET w[k \in 1 .. (TotalPages - ReservedPages + 1)] ==
        IF k = 1 THEN fl
        ELSE LET node == w[k - 1] IN IF node = NULL THEN NULL ELSE nx[node]
  IN  w
ListedOf(nx, fl) == {k \in DOMAIN WalkOf(nx, fl) : WalkOf(nx, fl)[k] # NULL}
SeqOf(nx, fl) ==
  [k \in 1 .. (IF ListedOf(nx, fl) = {} THEN 0
               ELSE CHOOSE m \in ListedOf(nx, fl) : \A k \in ListedOf(nx, fl) : k <= m)
     |-> WalkOf(nx, fl)[k]]

LEMMA WalkNow ==
  /\ Walk = WalkOf(next, free_list) /\ Listed = ListedOf(next, free_list)
  /\ FreeSeq = SeqOf(next, free_list)
<1>1. Walk = WalkOf(next, free_list)
  BY DEF Walk, WalkOf
<1>2. Listed = ListedOf(next, free_list)
  BY <1>1 DEF Listed, ListedOf
<1> QED BY <1>1, <1>2 DEF FreeSeq, SeqOf

LEMMA WalkThen ==
  /\ Walk' = WalkOf(next', free_list') /\ Listed' = ListedOf(next', free_list')
  /\ FreeSeq' = SeqOf(next', free_list')
<1>1. Walk' = WalkOf(next', free_list')
  BY DEF Walk, WalkOf
<1>2. Listed' = ListedOf(next', free_list')
  BY <1>1 DEF Listed, ListedOf
<1> QED BY <1>1, <1>2 DEF FreeSeq, SeqOf

\* The recursive function is defined.
LEMMA WalkIs ==
  ASSUME NEW nx, NEW fl
  PROVE  /\ DOMAIN WalkOf(nx, fl) = 1 .. (Count + 1)
         /\ WalkOf(nx, fl)[1] = fl
         /\ \A k \in 2 .. (Count + 1) :
              WalkOf(nx, fl)[k] = Follow(nx, WalkOf(nx, fl)[k - 1])
<1> DEFINE G(x, n) == x = [k \in 1 .. n |-> IF k = 1 THEN fl ELSE Follow(nx, x[k - 1])]
           None == {n \in Nat : ~ \E x : G(x, n)}
<1>1. \E x : G(x, Count + 1)
  <2>0. Count + 1 \in Nat /\ None \subseteq Nat
    BY SizesAre
  <2> SUFFICES ASSUME None # {} PROVE FALSE
    <3>1. None = {} => Count + 1 \notin None
      OBVIOUS
    <3> QED BY <2>0, <3>1
  <2>1. PICK n \in None : \A m \in None : n <= m
    <3> HIDE DEF None
    <3> QED BY <2>0, LeastNat
  <2>2. n # 0
    <3> DEFINE x == [k \in 1 .. 0 |-> fl]
    <3>1. x = [k \in 1 .. 0 |-> IF k = 1 THEN fl ELSE Follow(nx, x[k - 1])]
      OBVIOUS
    <3>2. G(x, 0)
      BY <3>1
    <3> QED BY <3>2
  <2>3. n - 1 \in Nat /\ n - 1 \notin None /\ n \in Nat
    <3>1. n \in Nat
      OBVIOUS
    <3>2. n - 1 \in Nat /\ ~ (n <= n - 1)
      BY <2>2, <3>1
    <3> HIDE DEF None
    <3> QED BY <2>1, <3>1, <3>2
  <2>4. PICK x : G(x, n - 1)
    BY <2>3
  <2> DEFINE y == [k \in 1 .. n |-> IF k = 1 THEN fl
                                    ELSE IF k = n THEN Follow(nx, x[n - 1]) ELSE x[k]]
  <2>5. ASSUME NEW k \in 1 .. n
        PROVE  y[k] = IF k = 1 THEN fl ELSE Follow(nx, y[k - 1])
    <3>1. CASE k = 1
      BY <3>1
    <3>2. ASSUME NEW j \in 1 .. (n - 1) PROVE y[j] = x[j]
      <4>1. j \in 1 .. n /\ j # n
        BY <2>3
      <4>2. x[j] = IF j = 1 THEN fl ELSE Follow(nx, x[j - 1])
        BY <2>4
      <4> QED BY <4>1, <4>2
    <3>3. CASE k # 1
      <4>1. k - 1 \in 1 .. (n - 1)
        BY <2>3, <3>3
      <4>2. y[k - 1] = x[k - 1]
        BY <3>2, <4>1
      <4>3. CASE k = n
        <5>1. y[k] = Follow(nx, x[n - 1])
          BY <3>3, <4>3
        <5> QED BY <3>3, <4>2, <4>3, <5>1
      <4>4. CASE k # n
        <5>1. k \in 1 .. (n - 1)
          BY <2>3, <4>4
        <5>2. y[k] = x[k] /\ x[k] = Follow(nx, x[k - 1])
          BY <2>4, <3>2, <3>3, <5>1
        <5> QED BY <3>3, <4>2, <5>2
      <4> QED BY <4>3, <4>4
    <3> QED BY <3>1, <3>3
  <2>6. y = [k \in 1 .. n |-> y[k]]
    OBVIOUS
  <2> HIDE DEF y
  <2>7. G(y, n)
    BY <2>5, <2>6
  <2> QED BY <2>7
<1> HIDE DEF G, None
<1>2. G(CHOOSE x : G(x, Count + 1), Count + 1)
  BY <1>1
<1>3. WalkOf(nx, fl) = CHOOSE x : G(x, Count + 1)
  BY DEF WalkOf, G, Count, Follow
<1>4. G(WalkOf(nx, fl), Count + 1)
  BY <1>2, <1>3
<1> DEFINE p == WalkOf(nx, fl)
<1> HIDE DEF p
<1>5. p = [k \in 1 .. (Count + 1) |-> IF k = 1 THEN fl ELSE Follow(nx, p[k - 1])]
  BY <1>4 DEF G, p
<1>6. p[1] = fl /\ DOMAIN p = 1 .. (Count + 1)
  BY <1>5, SizesAre
<1>7. ASSUME NEW k \in 2 .. (Count + 1) PROVE p[k] = Follow(nx, p[k - 1])
  <2>1. k \in 1 .. (Count + 1) /\ k # 1
    BY SizesAre
  <2> QED BY <1>5, <2>1
<1> QED BY <1>6, <1>7 DEF p

-------------------------------------------------------------------------------
(* The list that the pointers are.                                         *)

At(s, k) == IF k \in 1 .. Len(s) THEN s[k] ELSE NULL
Linked(nx, fl, s) ==
  /\ s \in Seq(Pages) /\ Len(s) <= Count
  /\ fl = At(s, 1)
  /\ \A k \in 1 .. Len(s) : nx[s[k]] = At(s, k + 1)

LEMMA AtFacts ==
  ASSUME NEW s \in Seq(Pages)
  PROVE  /\ Len(s) \in Nat /\ DOMAIN s = 1 .. Len(s)
         /\ \A k \in 1 .. Len(s) : s[k] \in Pages /\ s[k] \in Int /\ s[k] # NULL /\ At(s, k) = s[k]
         /\ \A k \in Nat : k > Len(s) => At(s, k) = NULL
<1>1. Len(s) \in Nat /\ DOMAIN s = 1 .. Len(s) /\ \A k \in 1 .. Len(s) : s[k] \in Pages
  BY LenProperties, ElementOfSeq
<1>2. ASSUME NEW k \in 1 .. Len(s) PROVE s[k] \in Int /\ s[k] # NULL /\ At(s, k) = s[k]
  BY <1>1, SizesAre DEF At
<1>3. ASSUME NEW k \in Nat, k > Len(s) PROVE At(s, k) = NULL
  <2>1. k \notin 1 .. Len(s)
    BY <1>1, <1>3
  <2> QED BY <2>1 DEF At
<1> QED BY <1>1, <1>2, <1>3

LEMMA Greatest ==
  ASSUME NEW n, n \in 1 .. n, NEW m \in 1 .. n, \A k \in 1 .. n : k <= m
  PROVE  m = n
OBVIOUS

\* A walk finds the list and nothing else.
LEMMA WalkFinds ==
  ASSUME NEW nx, NEW fl, NEW s, Linked(nx, fl, s)
  PROVE  /\ \A k \in 1 .. (Count + 1) : WalkOf(nx, fl)[k] = At(s, k)
         /\ ListedOf(nx, fl) = 1 .. Len(s)
         /\ SeqOf(nx, fl) = s
<1> DEFINE w == WalkOf(nx, fl)
           Off == {k \in 1 .. (Count + 1) : w[k] # At(s, k)}
<1>0. /\ s \in Seq(Pages) /\ Len(s) <= Count /\ Len(s) \in Nat /\ DOMAIN s = 1 .. Len(s)
      /\ Count \in Nat
  BY AtFacts, SizesAre DEF Linked
<1>1. Off = {}
  <2> SUFFICES ASSUME Off # {} PROVE FALSE
    OBVIOUS
  <2>0. Off \subseteq Nat
    BY <1>0
  <2>1. PICK k \in Off : \A j \in Off : k <= j
    BY <2>0, LeastNat
  <2>2. k \in 1 .. (Count + 1) /\ w[k] # At(s, k)
    OBVIOUS
  <2>3. k # 1
    BY <2>2, WalkIs DEF Linked
  <2>4. k - 1 \in 1 .. (Count + 1) /\ ~ (k <= k - 1) /\ k \in 2 .. (Count + 1)
    BY <1>0, <2>2, <2>3
  <2>5. w[k - 1] = At(s, k - 1)
    BY <2>1, <2>4
  <2>6. w[k] = Follow(nx, At(s, k - 1))
    BY <2>4, <2>5, WalkIs
  <2>7. CASE k - 1 <= Len(s)
    <3>1. k - 1 \in 1 .. Len(s) /\ (k - 1) + 1 = k
      BY <1>0, <2>4, <2>7
    <3>2. At(s, k - 1) = s[k - 1] /\ s[k - 1] # NULL
      BY <1>0, <3>1, AtFacts
    <3>3. nx[s[k - 1]] = At(s, k)
      BY <3>1 DEF Linked
    <3> QED BY <2>2, <2>6, <3>2, <3>3 DEF Follow
  <2>8. CASE ~ (k - 1 <= Len(s))
    <3>1. k - 1 \in Nat /\ k - 1 > Len(s) /\ k \in Nat /\ k > Len(s)
      BY <1>0, <2>4, <2>8
    <3>2. At(s, k - 1) = NULL /\ At(s, k) = NULL
      BY <1>0, <3>1, AtFacts
    <3> QED BY <2>2, <2>6, <3>2 DEF Follow
  <2> QED BY <2>7, <2>8
<1>2. \A k \in 1 .. (Count + 1) : w[k] = At(s, k)
  BY <1>1
<1> HIDE DEF Off
<1>3. ListedOf(nx, fl) = 1 .. Len(s)
  <2>1. DOMAIN w = 1 .. (Count + 1)
    BY WalkIs
  <2>2. ASSUME NEW k \in 1 .. (Count + 1) PROVE w[k] # NULL <=> k \in 1 .. Len(s)
    BY <1>0, <1>2, AtFacts
  <2>3. \A k \in 1 .. Len(s) : k \in 1 .. (Count + 1)
    BY <1>0
  <2> HIDE DEF w
  <2>4. {k \in 1 .. (Count + 1) : w[k] # NULL} = 1 .. Len(s)
    BY <2>2, <2>3
  <2> QED BY <2>1, <2>4 DEF ListedOf, w
<1>4. SeqOf(nx, fl) = s
  <2> DEFINE L == IF ListedOf(nx, fl) = {} THEN 0
                  ELSE CHOOSE m \in ListedOf(nx, fl) : \A k \in ListedOf(nx, fl) : k <= m
  <2>1. L = Len(s)
    <3>1. CASE Len(s) = 0
      BY <1>0, <1>3, <3>1
    <3>2. CASE Len(s) # 0
      <4>1. Len(s) \in 1 .. Len(s) /\ \A k \in 1 .. Len(s) : k <= Len(s)
        BY <1>0, <3>2
      <4>2. \A m \in 1 .. Len(s) : (\A k \in 1 .. Len(s) : k <= m) => m = Len(s)
        BY <4>1, Greatest
      <4>3. (CHOOSE m \in 1 .. Len(s) : \A k \in 1 .. Len(s) : k <= m) = Len(s)
        BY <4>1, <4>2
      <4> QED BY <1>3, <4>1, <4>3
    <3> QED BY <3>1, <3>2
  <2> HIDE DEF L
  <2>2. SeqOf(nx, fl) = [k \in 1 .. Len(s) |-> w[k]]
    BY <2>1 DEF SeqOf, L
  <2>3. \A k \in 1 .. Len(s) : w[k] = s[k]
    BY <1>0, <1>2, AtFacts
  <2> HIDE DEF w
  <2>4. s = [k \in 1 .. Len(s) |-> s[k]]
    BY <1>0
  <2> QED BY <2>2, <2>3, <2>4
<1> QED BY <1>2, <1>3, <1>4

\* A list without repetitions is not longer than there are pages.
LEMMA ListFits ==
  ASSUME NEW s \in Seq(Pages), P!Injective(s)
  PROVE  Len(s) <= Count
<1>1. Len(s) \in Nat /\ DOMAIN s = 1 .. Len(s) /\ \A k \in 1 .. Len(s) : s[k] \in Pages
  BY AtFacts
<1>2. IsFiniteSet(Pages) /\ Cardinality(Pages) = Count
  <2>1. ReservedPages \in Int /\ TotalPages - 1 \in Int
    BY SizesAre
  <2>2. /\ IsFiniteSet(ReservedPages .. (TotalPages - 1))
        /\ Cardinality(ReservedPages .. (TotalPages - 1)) =
             IF ReservedPages > TotalPages - 1 THEN 0 ELSE (TotalPages - 1) - ReservedPages + 1
    BY <2>1, FS_Interval
  <2>3. ReservedPages <= TotalPages
    BY PagingLinksAssumption
  <2> QED BY <2>1, <2>2, <2>3, SizesAre DEF Pages, Count
<1>3. IsFiniteSet(1 .. Len(s)) /\ Cardinality(1 .. Len(s)) = Len(s)
  <2>1. /\ IsFiniteSet(1 .. Len(s))
        /\ Cardinality(1 .. Len(s)) = IF 1 > Len(s) THEN 0 ELSE Len(s) - 1 + 1
    <3>1. 1 \in Int /\ Len(s) \in Int
      BY <1>1
    <3> QED BY <3>1, FS_Interval
  <2> QED BY <1>1, <2>1
<1> SUFFICES ASSUME ~ (Len(s) <= Count) PROVE FALSE
  OBVIOUS
<1>4. Cardinality(Pages) < Cardinality(1 .. Len(s))
  BY <1>1, <1>2, <1>3, SizesAre
<1>5. s \in [1 .. Len(s) -> Pages]
  BY <1>1
<1>6. \E i, j \in 1 .. Len(s) : i # j /\ s[i] = s[j]
  BY <1>2, <1>3, <1>4, <1>5, FS_PigeonHole
<1> QED BY <1>1, <1>6 DEF P!Injective

-------------------------------------------------------------------------------
(* The invariant.                                                          *)

LInv ==
  /\ next \in [Pages -> Pages \cup {NULL}]
  /\ Linked(next, free_list, FreeSeq)
  /\ P!IInv

\* What the invariant says of the list.
LEMMA ListIs ==
  ASSUME LInv
  PROVE  /\ FreeSeq \in Seq(Pages) /\ Len(FreeSeq) \in Nat
         /\ DOMAIN FreeSeq = 1 .. Len(FreeSeq)
         /\ P!Injective(FreeSeq)
         /\ Listed = 1 .. Len(FreeSeq)
         /\ \A k \in Listed : Walk[k] = FreeSeq[k]
<1>1. FreeSeq \in Seq(Pages) /\ Linked(next, free_list, FreeSeq) /\ Len(FreeSeq) <= Count
  BY DEF LInv, Linked
<1>2. P!Injective(FreeSeq)
  BY DEF LInv, P!IInv, P!NoDuplicates, P!Injective
<1>3. Listed = 1 .. Len(FreeSeq)
  BY <1>1, WalkFinds, WalkNow
<1>4. \A k \in 1 .. (Count + 1) : Walk[k] = At(FreeSeq, k)
  BY <1>1, WalkFinds, WalkNow
<1>5. ASSUME NEW k \in Listed PROVE Walk[k] = FreeSeq[k]
  <2>1. k \in 1 .. Len(FreeSeq) /\ Len(FreeSeq) \in Nat
    BY <1>1, <1>3, AtFacts
  <2>2. k \in 1 .. (Count + 1)
    BY <1>1, <2>1, SizesAre
  <2>3. At(FreeSeq, k) = FreeSeq[k]
    BY <1>1, <2>1, AtFacts
  <2> QED BY <1>4, <2>2, <2>3
<1> QED BY <1>1, <1>2, <1>3, <1>5, AtFacts

\* The list a step leaves in the pointers is the one that is found next.
LEMMA FoundNext ==
  ASSUME NEW s, Linked(next', free_list', s)
  PROVE  FreeSeq' = s
BY WalkFinds, WalkThen

\* What is left to show of a step: the list it leaves, and that Paging does so.
Follows(s) ==
  /\ next' \in [Pages -> Pages \cup {NULL}]
  /\ s \in Seq(Pages)
  /\ P!Injective(s)
  /\ free_list' = At(s, 1)
  /\ \A k \in 1 .. Len(s) : next'[s[k]] = At(s, k + 1)

LEMMA FollowsFound ==
  ASSUME NEW s, Follows(s)
  PROVE  FreeSeq' = s /\ Linked(next', free_list', s)
<1>1. Linked(next', free_list', s)
  BY ListFits DEF Follows, Linked
<1> QED BY <1>1, FoundNext

-------------------------------------------------------------------------------
(* The steps.                                                              *)

\* alloc_page leaves the tail of the list.
LEMMA AllocPageFollows ==
  ASSUME LInv, AllocPage
  PROVE  P!AllocPage /\ Follows(FreeSeq')
<1> DEFINE s == FreeSeq
           t == Tail(s)
<1>1. /\ s \in Seq(Pages) /\ Len(s) \in Nat /\ DOMAIN s = 1 .. Len(s) /\ P!Injective(s)
      /\ Linked(next, free_list, s)
  BY ListIs DEF LInv
<1>2. 1 \in 1 .. Len(s) /\ free_list = s[1] /\ free_list # NULL
  <2>1. free_list = At(s, 1) /\ free_list # NULL
    BY <1>1 DEF Linked, AllocPage
  <2> QED BY <2>1 DEF At
<1>3. s # <<>> /\ Head(s) = s[1]
  BY <1>1, <1>2
<1>4. /\ t \in Seq(Pages) /\ Len(t) = Len(s) - 1
      /\ \A i \in 1 .. (Len(s) - 1) : t[i] = s[i + 1]
  BY <1>1, <1>3, HeadTailProperties
<1> HIDE DEF s, t
<1>5. DOMAIN t = 1 .. (Len(s) - 1)
  BY <1>4, AtFacts
<1>6. \A k \in 1 .. (Len(s) - 1) : k + 1 \in 1 .. Len(s) /\ t[k] = s[k + 1]
  BY <1>1, <1>4
<1>7. P!Injective(t)
  <2> SUFFICES ASSUME NEW i \in 1 .. (Len(s) - 1), NEW j \in 1 .. (Len(s) - 1), t[i] = t[j]
               PROVE  i = j
    BY <1>5 DEF P!Injective
  <2>1. i + 1 \in DOMAIN s /\ j + 1 \in DOMAIN s /\ s[i + 1] = s[j + 1]
    BY <1>1, <1>6
  <2>2. i + 1 = j + 1
    BY <2>1, <1>1 DEF P!Injective
  <2> QED BY <2>2, <1>1
<1>8. \A k \in 1 .. Len(s) : At(t, k) = At(s, k + 1)
  BY <1>1, <1>4, <1>6 DEF At
<1>9. free_list' = At(t, 1)
  <2>1. free_list' = next[s[1]]
    BY <1>2 DEF AllocPage
  <2>2. next[s[1]] = At(s, 1 + 1)
    BY <1>1, <1>2 DEF Linked
  <2> QED BY <1>2, <1>8, <2>1, <2>2
<1>10. \A k \in 1 .. Len(t) : next'[t[k]] = At(t, k + 1)
  <2> SUFFICES ASSUME NEW k \in 1 .. (Len(s) - 1) PROVE next[t[k]] = At(t, k + 1)
    BY <1>4 DEF AllocPage
  <2>1. k + 1 \in 1 .. Len(s) /\ t[k] = s[k + 1]
    BY <1>6
  <2>2. next[s[k + 1]] = At(s, (k + 1) + 1)
    BY <1>1, <2>1 DEF Linked
  <2> QED BY <1>8, <2>1, <2>2
<1>11. Follows(t)
  BY <1>4, <1>7, <1>9, <1>10 DEF Follows, LInv, AllocPage
<1>12. FreeSeq' = t
  BY <1>11, FollowsFound
<1> QED BY <1>2, <1>3, <1>11, <1>12 DEF P!AllocPage, AllocPage, s, t

\* A block that is held is no part of the list; pushed, it comes before it.
LEMMA PushedIs ==
  ASSUME LInv, NEW p, NEW n \in {1, BlockPages}, <<p, n>> \in held
  PROVE  /\ p \in Int /\ n \in Nat /\ n >= 1
         /\ \A x \in p .. (p + n - 1) : x \in Pages
         /\ \A k \in 1 .. Len(FreeSeq) : FreeSeq[k] \notin p .. (p + n - 1)
         /\ P!Pushed(p, n) \in Seq(Pages) /\ Len(P!Pushed(p, n)) = Len(FreeSeq) + n
         /\ \A i \in 1 .. (Len(FreeSeq) + n) :
              P!Pushed(p, n)[i] = IF i <= n THEN p + i - 1 ELSE FreeSeq[i - n]
<1> DEFINE s == FreeSeq
           b == [j \in 1 .. n |-> p + j - 1]
           c == <<p, n>>
<1>1. c \in held /\ c[1] = p /\ c[2] = n
  OBVIOUS
<1>2. /\ c[1] \in Pages /\ c[1] + c[2] - 1 \in Pages
      /\ P!Block(c[1], c[2]) \cap P!FreeSet = {}
  <2> HIDE DEF c
  <2> QED BY <1>1, SizesAre DEF LInv, P!IInv, P!TypeOK, P!Exclusive
<1>3. p \in Pages /\ p + n - 1 \in Pages /\ P!Block(p, n) \cap P!FreeSet = {}
  BY <1>1, <1>2
<1>4. p \in Int /\ n \in Nat /\ n >= 1
  BY <1>3, SizesAre
<1>5. \A x \in p .. (p + n - 1) : x \in Pages
  BY <1>3, <1>4, SizesAre DEF Pages
<1>6. /\ s \in Seq(Pages) /\ Len(s) \in Nat /\ DOMAIN s = 1 .. Len(s)
  BY ListIs
<1>7. \A k \in 1 .. Len(s) : s[k] \notin p .. (p + n - 1)
  BY <1>3, <1>6 DEF P!FreeSet, P!Block
<1>8. b \in Seq(Pages) /\ Len(b) = n
  <2>1. \A j \in 1 .. n : p + j - 1 \in p .. (p + n - 1)
    BY <1>4
  <2>2. b \in [1 .. n -> Pages]
    BY <1>5, <2>1
  <2> HIDE DEF b
  <2>3. b \in Seq(Pages)
    BY <1>4, <2>2, SeqDef
  <2>4. DOMAIN b = 1 .. n /\ DOMAIN b = 1 .. Len(b) /\ Len(b) \in Nat
    BY <2>2, <2>3, LenProperties
  <2> QED BY <1>4, <2>3, <2>4
<1>9. \A j \in 1 .. n : b[j] = p + j - 1
  OBVIOUS
<1>10. P!Pushed(p, n) = b \o s
  BY DEF P!Pushed
<1> HIDE DEF s, b
<1>11. /\ b \o s \in Seq(Pages) /\ Len(b \o s) = Len(b) + Len(s)
       /\ \A i \in 1 .. Len(b) + Len(s) :
            (b \o s)[i] = IF i <= Len(b) THEN b[i] ELSE s[i - Len(b)]
  BY <1>6, <1>8, ConcatProperties
<1>12. ASSUME NEW i \in 1 .. (Len(s) + n)
       PROVE  (b \o s)[i] = IF i <= n THEN p + i - 1 ELSE s[i - n]
  <2>1. i \in 1 .. Len(b) + Len(s) /\ (i <= n => i \in 1 .. n)
    BY <1>4, <1>6, <1>8
  <2> QED BY <1>8, <1>9, <1>11, <2>1
<1>13. Len(b) + Len(s) = Len(s) + n
  BY <1>4, <1>6, <1>8
<1> QED BY <1>4, <1>5, <1>7, <1>10, <1>11, <1>12, <1>13 DEF s

\* free_page and free_aligned_pages link the block in front.
LEMMA PushFollows ==
  ASSUME LInv, NEW p, NEW n \in {1, BlockPages}, <<p, n>> \in held,
         next' \in [Pages -> Pages \cup {NULL}], free_list' = p,
         \A x \in Pages : next'[x] = IF x \in p .. (p + n - 2) THEN x + 1
                                     ELSE IF x = p + n - 1 THEN free_list ELSE next[x]
  PROVE  Follows(P!Pushed(p, n))
<1> DEFINE s == FreeSeq
           t == P!Pushed(p, n)
<1>1. /\ s \in Seq(Pages) /\ Len(s) \in Nat /\ DOMAIN s = 1 .. Len(s) /\ P!Injective(s)
      /\ Linked(next, free_list, s)
  BY ListIs DEF LInv
<1>2. /\ p \in Int /\ n \in Nat /\ n >= 1 /\ \A x \in p .. (p + n - 1) : x \in Pages
      /\ \A k \in 1 .. Len(s) : s[k] \notin p .. (p + n - 1)
      /\ t \in Seq(Pages) /\ Len(t) = Len(s) + n
      /\ \A i \in 1 .. (Len(s) + n) : t[i] = IF i <= n THEN p + i - 1 ELSE s[i - n]
  BY PushedIs, ZenonT(30)
<1>3. \A k \in 1 .. Len(s) : s[k] \in Pages
  BY <1>1, AtFacts
<1> HIDE DEF s, t
<1>4. DOMAIN t = 1 .. (Len(s) + n)
  BY <1>2, AtFacts
<1>5. ASSUME NEW i \in 1 .. (Len(s) + n), i <= n
      PROVE  i \in 1 .. n /\ t[i] = p + i - 1 /\ t[i] \in p .. (p + n - 1)
  BY <1>1, <1>2, <1>5
<1>6. ASSUME NEW i \in 1 .. (Len(s) + n), ~ (i <= n)
      PROVE  i - n \in 1 .. Len(s) /\ t[i] = s[i - n] /\ t[i] \notin p .. (p + n - 1)
  <2>1. i - n \in 1 .. Len(s)
    BY <1>1, <1>2, <1>6
  <2> QED BY <1>2, <1>6, <2>1
<1>7. P!Injective(t)
  <2> SUFFICES ASSUME NEW i \in 1 .. (Len(s) + n), NEW j \in 1 .. (Len(s) + n), t[i] = t[j]
               PROVE  i = j
    BY <1>4 DEF P!Injective
  <2>1. CASE i <= n /\ j <= n
    <3>1. p + i - 1 = p + j - 1
      BY <1>5, <2>1
    <3>2. i \in Int /\ j \in Int
      OBVIOUS
    <3> QED BY <1>2, <3>1, <3>2
  <2>2. CASE ~ (i <= n) /\ ~ (j <= n)
    <3>1. i - n \in 1 .. Len(s) /\ j - n \in 1 .. Len(s) /\ s[i - n] = s[j - n]
      BY <1>6, <2>2
    <3>2. i - n = j - n
      BY <1>1, <3>1 DEF P!Injective
    <3>3. i \in Int /\ j \in Int
      OBVIOUS
    <3> QED BY <1>2, <3>2, <3>3
  <2>3. CASE i <= n /\ ~ (j <= n)
    BY <1>5, <1>6, <2>3
  <2>4. CASE ~ (i <= n) /\ j <= n
    BY <1>5, <1>6, <2>4
  <2> QED BY <2>1, <2>2, <2>3, <2>4
<1>8. free_list = At(s, 1) /\ \A k \in 1 .. Len(s) : next[s[k]] = At(s, k + 1)
  BY <1>1 DEF Linked
<1>9. free_list' = At(t, 1)
  <2>1. 1 \in 1 .. (Len(s) + n) /\ 1 <= n /\ p + 1 - 1 = p
    BY <1>1, <1>2
  <2> QED BY <1>2, <1>5, <2>1 DEF At
\* After the block comes what was the list.
<1>10. ASSUME NEW i \in Nat, i >= n PROVE At(t, i + 1) = At(s, i + 1 - n)
  <2>1. i + 1 \in 1 .. Len(t) <=> i + 1 - n \in 1 .. Len(s)
    BY <1>1, <1>2, <1>10
  <2>2. CASE i + 1 \in 1 .. Len(t)
    <3>1. i + 1 \in 1 .. (Len(s) + n) /\ ~ (i + 1 <= n)
      BY <1>1, <1>2, <1>10, <2>2
    <3>2. t[i + 1] = s[i + 1 - n]
      BY <1>6, <3>1
    <3> QED BY <2>1, <2>2, <3>2 DEF At
  <2>3. CASE i + 1 \notin 1 .. Len(t)
    BY <2>1, <2>3 DEF At
  <2> QED BY <2>2, <2>3
<1>11. ASSUME NEW k \in 1 .. Len(t) PROVE next'[t[k]] = At(t, k + 1)
  <2>0. k \in 1 .. (Len(s) + n) /\ k \in Nat
    BY <1>2
  <2>1. CASE k < n
    <3>1. t[k] = p + k - 1 /\ t[k] \in p .. (p + n - 2) /\ t[k] \in Pages
      BY <1>2, <1>5, <2>0, <2>1
    <3>2. next'[t[k]] = (p + k - 1) + 1
      BY <3>1
    <3>3. k + 1 \in 1 .. (Len(s) + n) /\ k + 1 <= n /\ k + 1 \in 1 .. Len(t)
      BY <1>1, <1>2, <2>0, <2>1
    <3>4. At(t, k + 1) = p + (k + 1) - 1
      BY <1>5, <3>3 DEF At
    <3> QED BY <1>2, <2>0, <3>2, <3>4
  <2>2. CASE k = n
    <3>1. t[k] = p + n - 1 /\ t[k] \notin p .. (p + n - 2) /\ t[k] \in Pages
      BY <1>2, <1>5, <2>0, <2>2
    <3>2. next'[t[k]] = At(s, 1)
      BY <1>8, <3>1
    <3>3. At(t, k + 1) = At(s, k + 1 - n) /\ k + 1 - n = 1
      BY <1>2, <1>10, <2>0, <2>2
    <3> QED BY <3>2, <3>3
  <2>3. CASE k > n
    <3>1. k - n \in 1 .. Len(s) /\ t[k] = s[k - n] /\ t[k] \notin p .. (p + n - 1)
      BY <1>2, <1>6, <2>0, <2>3
    <3>2. t[k] \in Pages /\ t[k] \in Int
      BY <1>3, <3>1, SizesAre
    <3>3. t[k] \notin p .. (p + n - 2) /\ t[k] # p + n - 1
      BY <1>2, <3>1, <3>2
    <3>4. next'[t[k]] = At(s, (k - n) + 1)
      BY <1>8, <3>1, <3>2, <3>3
    <3>5. At(t, k + 1) = At(s, k + 1 - n) /\ k + 1 - n = (k - n) + 1
      BY <1>2, <1>10, <2>0, <2>3
    <3> QED BY <3>4, <3>5
  <2> QED BY <1>2, <2>0, <2>1, <2>2, <2>3
<1> QED BY <1>2, <1>7, <1>9, <1>11 DEF Follows, t

\* The scan of the pointers finds a block where the list ascends, and nowhere
\* else: no pointer that it follows is stale.
LEMMA ValidIsStart ==
  ASSUME LInv, NEW k \in Listed
  PROVE  ValidBlock(FreeSeq[k], BlockPages) <=> k \in P!BlockStarts(BlockPages)
<1> DEFINE s == FreeSeq
           n == BlockPages
<1>1. /\ s \in Seq(Pages) /\ Len(s) \in Nat /\ DOMAIN s = 1 .. Len(s) /\ k \in 1 .. Len(s)
      /\ \A i \in 1 .. Len(s) : s[i] \in Pages /\ s[i] \in Int
      /\ \A i \in 1 .. Len(s) : next[s[i]] = At(s, i + 1)
  <2>1. s \in Seq(Pages) /\ k \in 1 .. Len(s) /\ Linked(next, free_list, s)
    BY ListIs DEF LInv
  <2> HIDE DEF s
  <2> QED BY <2>1, AtFacts DEF Linked
<1>2. n \in Nat /\ n >= 2 /\ NULL \notin Int
  BY SizesAre
<1>3. k \in P!BlockStarts(n) <=> /\ s[k] % AlignPages = 0 /\ k + n - 1 <= Len(s)
                                 /\ \A j \in 1 .. (n - 1) : s[k + j] = s[k] + j
  BY <1>1 DEF P!BlockStarts, P!Ascending
<1>4. ValidBlock(s[k], n) <=>
        /\ s[k] % AlignPages = 0
        /\ \A j \in 0 .. (n - 2) : s[k] + j \in Pages /\ next[s[k] + j] = s[k] + j + 1
  BY DEF ValidBlock
<1> HIDE DEF s, n
<1>5. ASSUME \A j \in 0 .. (n - 2) : next[s[k] + j] = s[k] + j + 1
      PROVE  k + n - 1 <= Len(s) /\ \A j \in 1 .. (n - 1) : s[k + j] = s[k] + j
  <2> DEFINE Off == {j \in 0 .. (n - 1) : ~ (k + j <= Len(s) /\ s[k + j] = s[k] + j)}
  <2>1. Off = {}
    <3> SUFFICES ASSUME Off # {} PROVE FALSE
      OBVIOUS
    <3>0. Off \subseteq Nat
      BY <1>2
    <3>1. PICK j \in Off : \A i \in Off : j <= i
      BY <3>0, LeastNat
    <3>2. j \in 0 .. (n - 1) /\ ~ (k + j <= Len(s) /\ s[k + j] = s[k] + j)
      OBVIOUS
    <3>3. j # 0
      <4>1. k + 0 = k /\ k <= Len(s) /\ s[k] + 0 = s[k]
        BY <1>1
      <4> QED BY <3>2, <4>1
    <3>4. j - 1 \in 0 .. (n - 1) /\ j - 1 \in 0 .. (n - 2) /\ ~ (j <= j - 1)
      BY <1>2, <3>2, <3>3
    <3>5. k + (j - 1) <= Len(s) /\ s[k + (j - 1)] = s[k] + (j - 1)
      BY <3>1, <3>4
    <3>6. k + (j - 1) \in 1 .. Len(s) /\ k + (j - 1) + 1 = k + j
          /\ s[k] + (j - 1) + 1 = s[k] + j /\ s[k] + j \in Int
      BY <1>1, <3>4, <3>5
    <3>7. At(s, k + j) = s[k] + j
      BY <1>1, <1>5, <3>4, <3>5, <3>6
    <3>8. k + j \in 1 .. Len(s)
      BY <1>2, <3>6, <3>7 DEF At
    <3>9. s[k + j] = s[k] + j /\ k + j <= Len(s)
      BY <3>7, <3>8 DEF At
    <3> QED BY <3>2, <3>9
  <2>2. \A j \in 0 .. (n - 1) : k + j <= Len(s) /\ s[k + j] = s[k] + j
    BY <2>1
  <2> HIDE DEF Off
  <2>3. n - 1 \in 0 .. (n - 1) /\ k + (n - 1) = k + n - 1
    BY <1>1, <1>2
  <2>4. \A j \in 1 .. (n - 1) : j \in 0 .. (n - 1)
    BY <1>2
  <2> QED BY <2>2, <2>3, <2>4
<1>6. ASSUME k + n - 1 <= Len(s), \A j \in 1 .. (n - 1) : s[k + j] = s[k] + j,
             NEW j \in 0 .. (n - 2)
      PROVE  s[k] + j \in Pages /\ next[s[k] + j] = s[k] + j + 1
  <2>1. k + j \in 1 .. Len(s) /\ k + (j + 1) \in 1 .. Len(s) /\ j + 1 \in 1 .. (n - 1)
        /\ (k + j) + 1 = k + (j + 1) /\ j \in Int
    BY <1>1, <1>2, <1>6
  <2>2. s[k + j] = s[k] + j
    <3>1. CASE j = 0
      BY <1>1, <3>1
    <3>2. CASE j # 0
      <4>1. j \in 1 .. (n - 1)
        BY <1>2, <3>2
      <4> QED BY <1>6, <4>1
    <3> QED BY <3>1, <3>2
  <2>3. next[s[k + j]] = s[k + (j + 1)]
    BY <1>1, <2>1 DEF At
  <2>4. s[k + (j + 1)] = s[k] + (j + 1) /\ s[k] + (j + 1) = s[k] + j + 1
    BY <1>1, <1>6, <2>1
  <2> QED BY <1>1, <2>1, <2>2, <2>3, <2>4
<1>7. ValidBlock(s[k], n) => k \in P!BlockStarts(n)
  BY <1>3, <1>4, <1>5
<1>8. k \in P!BlockStarts(n) => ValidBlock(s[k], n)
  BY <1>3, <1>4, <1>6
<1> QED BY <1>7, <1>8 DEF s, n

\* PagingProofs has where the elements of a cut sequence come from.
LEMMA CutIs ==
  ASSUME NEW s \in Seq(Pages), NEW k \in 1 .. Len(s), NEW n \in Nat, n >= 1, k + n - 1 <= Len(s)
  PROVE  /\ P!CutSeq(s, k, n) \in Seq(Pages) /\ Len(P!CutSeq(s, k, n)) = Len(s) - n
         /\ \A i \in 1 .. (Len(s) - n) :
              P!CutSeq(s, k, n)[i] = IF i < k THEN s[i] ELSE s[i + n]
<1>1. P!PagingAssumption
  BY SizesAre
<1> QED BY <1>1, P!CutIndices, SMTT(30)

\* What is unlinked is a part of the list.
LEMMA UnlinkedIs ==
  ASSUME LInv, NEW k \in P!BlockStarts(BlockPages)
  PROVE  LET t == P!Unlinked(k, BlockPages)
         IN  /\ k \in 1 .. Len(FreeSeq) /\ k + BlockPages - 1 \in 1 .. Len(FreeSeq)
             /\ FreeSeq[k] + BlockPages - 1 = FreeSeq[k + BlockPages - 1]
             /\ t \in Seq(Pages) /\ P!Injective(t)
             /\ Len(t) = Len(FreeSeq) - BlockPages
             /\ \A i \in 1 .. (Len(FreeSeq) - BlockPages) :
                  t[i] = IF i < k THEN FreeSeq[i] ELSE FreeSeq[i + BlockPages]
<1> DEFINE s == FreeSeq
           n == BlockPages
           t == P!Unlinked(k, BlockPages)
<1>1. /\ s \in Seq(Pages) /\ Len(s) \in Nat /\ DOMAIN s = 1 .. Len(s) /\ P!Injective(s)
  BY ListIs
<1>2. /\ k \in 1 .. Len(s) /\ k + n - 1 <= Len(s)
      /\ \A j \in 1 .. (n - 1) : s[k + j] = s[k] + j
  BY <1>1 DEF P!BlockStarts, P!Ascending
<1>3. n \in Nat /\ n >= 2
  BY SizesAre
<1>4. t = P!CutSeq(s, k, n)
  BY DEF P!Unlinked, P!CutSeq
<1> HIDE DEF s, n, t
<1>5. \A i \in 1 .. Len(s) : s[i] \in Int
  BY <1>1, AtFacts
<1>6. n >= 1
  BY <1>3
<1>7. /\ t \in Seq(Pages) /\ Len(t) = Len(s) - n
      /\ \A i \in 1 .. (Len(s) - n) : t[i] = IF i < k THEN s[i] ELSE s[i + n]
  <2>1. /\ P!PagingAssumption /\ s \in Seq(Pages) /\ k \in 1 .. Len(s) /\ n \in Nat /\ n >= 1
        /\ k + n - 1 <= Len(s)
    BY <1>1, <1>2, <1>3, <1>6, SizesAre
  <2>2. /\ P!CutSeq(s, k, n) \in Seq(Pages) /\ Len(P!CutSeq(s, k, n)) = Len(s) - n
        /\ \A i \in 1 .. (Len(s) - n) :
             P!CutSeq(s, k, n)[i] = IF i < k THEN s[i] ELSE s[i + n]
    BY <2>1, CutIs
  <2> QED BY <1>4, <2>2
<1>8. DOMAIN t = 1 .. (Len(s) - n)
  BY <1>7, AtFacts
<1>9. P!IsCut(Len(s), s, k, n, t)
  BY <1>1, <1>2, <1>3, <1>5, <1>6, <1>7, <1>8 DEF P!IsCut
<1>10. P!Injective(t)
  BY <1>9, SizesAre, P!CutFunction
<1>11. k + n - 1 \in 1 .. Len(s) /\ s[k] + n - 1 = s[k + n - 1]
  <2>1. n - 1 \in 1 .. (n - 1) /\ k + (n - 1) = k + n - 1 /\ k + n - 1 \in 1 .. Len(s)
    BY <1>1, <1>2, <1>3
  <2>2. s[k + (n - 1)] = s[k] + (n - 1) /\ s[k] + (n - 1) = s[k] + n - 1
    BY <1>2, <1>3, <1>5, <2>1
  <2> QED BY <2>1, <2>2
<1> QED BY <1>2, <1>7, <1>10, <1>11 DEF s, n, t

\* alloc_aligned_pages unlinks the first block the scan finds.
LEMMA AllocAlignedFollows ==
  ASSUME LInv, AllocAligned(BlockPages)
  PROVE  P!AllocAligned(BlockPages) /\ Follows(FreeSeq')
<1> DEFINE s == FreeSeq
           n == BlockPages
<1>1. /\ s \in Seq(Pages) /\ Len(s) \in Nat /\ DOMAIN s = 1 .. Len(s) /\ P!Injective(s)
      /\ Linked(next, free_list, s) /\ Listed = 1 .. Len(s)
      /\ \A i \in 1 .. Len(s) : s[i] \in Pages
      /\ n \in Nat /\ n >= 2
  BY ListIs, SizesAre, AtFacts DEF LInv
<1>2. PICK k \in Listed :
        /\ ValidBlock(Walk[k], n)
        /\ \A i \in Listed : i < k => ~ ValidBlock(Walk[i], n)
        /\ IF k = 1
           THEN /\ free_list' = next[Walk[k] + n - 1]
                /\ next' = [next EXCEPT ![Walk[k] + n - 1] = NULL]
           ELSE /\ next' = [next EXCEPT ![Walk[k - 1]] = next[Walk[k] + n - 1],
                                        ![Walk[k] + n - 1] = NULL]
                /\ UNCHANGED free_list
        /\ free_pages' = free_pages - n
        /\ held' = held \cup {<<Walk[k], n>>}
  BY DEF AllocAligned
<1>3. Walk[k] = s[k] /\ (k # 1 => k - 1 \in 1 .. Len(s) /\ Walk[k - 1] = s[k - 1])
  <2>1. k # 1 => k - 1 \in 1 .. Len(s)
    BY <1>1
  <2> QED BY <1>1, <2>1, ListIs
<1>4. k \in P!BlockStarts(n)
  BY <1>2, <1>3, ValidIsStart
<1>5. ASSUME NEW i \in P!BlockStarts(n) PROVE k <= i
  <2>1. i \in Listed /\ i \in Int /\ k \in Int
    BY <1>1 DEF P!BlockStarts
  <2>2. ValidBlock(Walk[i], n)
    BY <2>1, ListIs, ValidIsStart
  <2> QED BY <1>2, <2>1, <2>2
<1> DEFINE t == P!Unlinked(k, n)
<1>6. /\ k \in 1 .. Len(s) /\ k + n - 1 \in 1 .. Len(s) /\ s[k] + n - 1 = s[k + n - 1]
      /\ t \in Seq(Pages) /\ P!Injective(t) /\ Len(t) = Len(s) - n
      /\ \A i \in 1 .. (Len(s) - n) : t[i] = IF i < k THEN s[i] ELSE s[i + n]
  BY <1>4, UnlinkedIs
<1> HIDE DEF s, n, t
<1> DEFINE last == s[k + n - 1]
<1>7. /\ next[last] = At(s, k + n) /\ last \in Pages
      /\ \A i \in 1 .. Len(s) : next[s[i]] = At(s, i + 1)
      /\ free_list = At(s, 1)
  <2>1. (k + n - 1) + 1 = k + n
    BY <1>1, <1>6
  <2> QED BY <1>1, <1>6, <2>1 DEF Linked
\* Behind the block the list goes on as before.
<1>8. ASSUME NEW i \in Nat, i >= k PROVE At(t, i) = At(s, i + n)
  <2>1. i \in 1 .. Len(t) <=> i + n \in 1 .. Len(s)
    BY <1>1, <1>6, <1>8
  <2>2. i \in 1 .. Len(t) => t[i] = s[i + n]
    BY <1>1, <1>6, <1>8
  <2> QED BY <2>1, <2>2 DEF At
<1>9. ASSUME NEW i \in 1 .. Len(s), i < k PROVE At(t, i) = s[i] /\ i \in 1 .. Len(t)
  <2>1. i \in 1 .. Len(t) /\ i \in 1 .. (Len(s) - n)
    BY <1>1, <1>6, <1>9
  <2> QED BY <1>6, <1>9, <2>1 DEF At
\* A page that stays is neither the block's last, nor, but for one place, the
\* page before the block.
<1>10. ASSUME NEW i \in 1 .. Len(t), i < k
       PROVE  i \in 1 .. Len(s) /\ t[i] = s[i] /\ s[i] # last /\ s[i] \in Pages
  <2>1. i \in 1 .. Len(s) /\ i \in 1 .. (Len(s) - n) /\ i # k + n - 1
    BY <1>1, <1>6, <1>10
  <2>2. s[i] # last
    BY <1>1, <1>6, <2>1 DEF P!Injective
  <2> QED BY <1>1, <1>6, <1>10, <2>1, <2>2
<1>11. ASSUME NEW i \in 1 .. Len(t), ~ (i < k)
       PROVE  /\ i + n \in 1 .. Len(s) /\ t[i] = s[i + n] /\ s[i + n] # last
              /\ s[i + n] \in Pages /\ (k # 1 => s[i + n] # s[k - 1])
  <2>1. /\ i + n \in 1 .. Len(s) /\ i \in 1 .. (Len(s) - n) /\ i + n # k + n - 1
        /\ i + n # k - 1
    BY <1>1, <1>6, <1>11
  <2>2. s[i + n] # last /\ (k # 1 => s[i + n] # s[k - 1])
    BY <1>1, <1>3, <1>6, <2>1 DEF P!Injective
  <2> QED BY <1>1, <1>6, <1>11, <2>1, <2>2
<1>12. At(t, k) = next[last]
  <2>1. k \in Nat /\ k >= k
    BY <1>1, <1>6
  <2> QED BY <1>7, <1>8, <2>1
<1> HIDE DEF last
<1>13. next \in [Pages -> Pages \cup {NULL}] /\ s[k] + n - 1 = last
  BY <1>6 DEF LInv, last
<1>14. ASSUME NEW i \in 1 .. Len(t), ~ (i < k), next'[s[i + n]] = next[s[i + n]]
       PROVE  next'[t[i]] = At(t, i + 1)
  <2>1. next[s[i + n]] = At(s, (i + n) + 1)
    BY <1>7, <1>11, <1>14
  <2>2. i + 1 \in Nat /\ i + 1 >= k /\ (i + 1) + n = (i + n) + 1
    BY <1>1, <1>6, <1>14
  <2>3. At(t, i + 1) = At(s, (i + 1) + n)
    BY <1>8, <2>2
  <2> QED BY <1>11, <1>14, <2>1, <2>2, <2>3
<1>15. ASSUME k = 1 PROVE Follows(t)
  <2>1. free_list' = next[last] /\ next' = [next EXCEPT ![last] = NULL]
    BY <1>2, <1>3, <1>13, <1>15
  <2>2. ASSUME NEW i \in 1 .. Len(t) PROVE next'[t[i]] = At(t, i + 1)
    <3>1. ~ (i < k)
      BY <1>15
    <3>2. next'[s[i + n]] = next[s[i + n]]
      BY <1>11, <1>13, <2>1, <3>1
    <3> QED BY <1>14, <3>1, <3>2
  <2>3. next' \in [Pages -> Pages \cup {NULL}]
    BY <1>13, <2>1
  <2> QED BY <1>6, <1>12, <1>15, <2>1, <2>2, <2>3 DEF Follows
<1>16. ASSUME k # 1 PROVE Follows(t)
  <2>0. k - 1 \in 1 .. Len(s) /\ k - 1 < k /\ (k - 1) + 1 = k
    BY <1>1, <1>3, <1>6, <1>16
  <2>1. /\ UNCHANGED free_list
        /\ next' = [next EXCEPT ![s[k - 1]] = next[last], ![last] = NULL]
    BY <1>2, <1>3, <1>13, <1>16
  <2>2. s[k - 1] \in Pages /\ s[k - 1] # last /\ next[last] \in Pages \cup {NULL}
    BY <1>1, <1>7, <1>9, <1>10, <1>13, <2>0
  <2>3. next' \in [Pages -> Pages \cup {NULL}]
    BY <1>13, <2>1, <2>2
  <2>4. \A x \in Pages : next'[x] = IF x = last THEN NULL
                                    ELSE IF x = s[k - 1] THEN next[last] ELSE next[x]
    BY <1>13, <2>1, <2>2
  <2>5. ASSUME NEW i \in 1 .. Len(t) PROVE next'[t[i]] = At(t, i + 1)
    <3>0. i \in Nat
      BY <1>1, <1>6
    <3>1. CASE ~ (i < k)
      <4>1. next'[s[i + n]] = next[s[i + n]]
        BY <1>11, <1>16, <2>4, <3>1
      <4> QED BY <1>14, <3>1, <4>1
    <3>2. CASE i = k - 1
      <4>1. t[i] = s[k - 1] /\ i + 1 = k
        BY <1>10, <2>0, <3>2
      <4>2. next'[s[k - 1]] = next[last]
        BY <2>2, <2>4
      <4> QED BY <1>12, <4>1, <4>2
    <3>3. CASE i < k - 1
      <4>1. i < k /\ i + 1 < k /\ i + 1 \in 1 .. Len(s) /\ k - 1 \in Int
        BY <1>1, <1>6, <2>0, <3>0, <3>3
      <4>2. t[i] = s[i] /\ s[i] # last /\ s[i] \in Pages /\ i \in 1 .. Len(s)
        BY <1>10, <4>1
      <4>3. s[i] # s[k - 1]
        BY <1>1, <2>0, <3>3, <4>1, <4>2 DEF P!Injective
      <4>4. next'[s[i]] = At(s, i + 1)
        BY <1>7, <2>4, <4>2, <4>3
      <4>5. At(t, i + 1) = s[i + 1] /\ At(s, i + 1) = s[i + 1]
        BY <1>9, <4>1 DEF At
      <4> QED BY <4>2, <4>4, <4>5
    <3> QED BY <1>1, <1>6, <3>0, <3>1, <3>2, <3>3
  <2>6. free_list' = At(t, 1)
    <3>1. 1 \in 1 .. Len(s) /\ 1 < k
      BY <1>1, <1>6, <1>16
    <3>2. At(t, 1) = s[1] /\ At(s, 1) = s[1]
      BY <1>9, <3>1 DEF At
    <3> QED BY <1>7, <2>1, <3>2
  <2> QED BY <1>6, <2>3, <2>5, <2>6 DEF Follows
<1>17. Follows(t)
  BY <1>15, <1>16
<1>18. FreeSeq' = t
  BY <1>17, FollowsFound
<1>19. P!AllocAligned(n)
  BY <1>2, <1>3, <1>4, <1>5, <1>18 DEF P!AllocAligned, s, t
<1> QED BY <1>17, <1>18, <1>19 DEF n

\* free_page.
LEMMA FreePageFollows ==
  ASSUME LInv, NEW p \in Pages, FreePage(p)
  PROVE  P!FreePage(p) /\ Follows(FreeSeq')
<1>1. <<p, 1>> \in held /\ next' = [next EXCEPT ![p] = free_list] /\ free_list' = p
  BY DEF FreePage
<1>2. p \in Int /\ next \in [Pages -> Pages \cup {NULL}] /\ free_list \in Pages \cup {NULL}
  <2>1. free_list = At(FreeSeq, 1) /\ FreeSeq \in Seq(Pages)
    BY DEF LInv, Linked
  <2>2. free_list \in Pages \cup {NULL}
    BY <2>1, AtFacts DEF At
  <2> QED BY <2>2, SizesAre DEF LInv
<1>3. next' \in [Pages -> Pages \cup {NULL}]
  BY <1>1, <1>2
<1>4. ASSUME NEW x \in Pages
      PROVE  next'[x] = IF x \in p .. (p + 1 - 2) THEN x + 1
                        ELSE IF x = p + 1 - 1 THEN free_list ELSE next[x]
  <2>1. x \notin p .. (p + 1 - 2) /\ (x = p + 1 - 1 <=> x = p)
    BY <1>2, SizesAre
  <2> QED BY <1>1, <1>2, <2>1
<1>5. Follows(P!Pushed(p, 1))
  <2>1. 1 \in {1, BlockPages}
    OBVIOUS
  <2> QED BY <1>1, <1>3, <1>4, <2>1, PushFollows
<1>6. FreeSeq' = P!Pushed(p, 1)
  BY <1>5, FollowsFound
<1>7. P!Pushed(p, 1) = <<p>> \o FreeSeq
  <2>1. [j \in 1 .. 1 |-> p + j - 1] = <<p>>
    BY <1>2
  <2> QED BY <2>1 DEF P!Pushed
<1> QED BY <1>5, <1>6, <1>7 DEF P!FreePage, FreePage

\* free_aligned_pages.
LEMMA FreeAlignedFollows ==
  ASSUME LInv, NEW p \in Pages, FreeAligned(p, BlockPages)
  PROVE  P!FreeAligned(p, BlockPages) /\ Follows(FreeSeq')
<1> DEFINE n == BlockPages
<1>1. /\ <<p, n>> \in held /\ free_list' = p
      /\ next' = [i \in Pages |-> IF i \in p .. (p + n - 2) THEN i + 1
                                  ELSE IF i = p + n - 1 THEN free_list ELSE next[i]]
  BY DEF FreeAligned
<1>2. n \in {1, BlockPages} /\ n \in Nat /\ n >= 2
  BY SizesAre
<1> HIDE DEF n
<1>3. /\ p \in Int /\ next \in [Pages -> Pages \cup {NULL}]
      /\ free_list \in Pages \cup {NULL} /\ \A x \in p .. (p + n - 1) : x \in Pages
  <2>1. free_list = At(FreeSeq, 1) /\ FreeSeq \in Seq(Pages)
    BY DEF LInv, Linked
  <2>2. free_list \in Pages \cup {NULL}
    BY <2>1, AtFacts DEF At
  <2>3. \A x \in p .. (p + n - 1) : x \in Pages
    BY <1>1, <1>2, PushedIs
  <2> QED BY <2>2, <2>3, SizesAre DEF LInv
<1>4. ASSUME NEW x \in Pages
      PROVE  (IF x \in p .. (p + n - 2) THEN x + 1
              ELSE IF x = p + n - 1 THEN free_list ELSE next[x]) \in Pages \cup {NULL}
  <2>1. x \in p .. (p + n - 2) => x + 1 \in p .. (p + n - 1)
    BY <1>2, <1>3
  <2> QED BY <1>3, <2>1
<1>5. next' \in [Pages -> Pages \cup {NULL}]
  BY <1>1, <1>4
<1>6. Follows(P!Pushed(p, n))
  BY <1>1, <1>2, <1>5, PushFollows
<1>7. FreeSeq' = P!Pushed(p, n)
  BY <1>6, FollowsFound
<1> QED BY <1>6, <1>7 DEF P!FreeAligned, FreeAligned, n

-------------------------------------------------------------------------------
\* At the start the pointers link all pages in ascending order.
LEMMA InitLinks == Init => P!Init /\ LInv
<1> SUFFICES ASSUME Init PROVE P!Init /\ LInv
  OBVIOUS
<1> DEFINE s == [k \in 1 .. Count |-> ReservedPages + k - 1]
<1>1. /\ next = [i \in Pages |-> IF i = TotalPages - 1 THEN NULL ELSE i + 1]
      /\ free_list = IF Pages = {} THEN NULL ELSE ReservedPages
  BY DEF Init
<1>2. \A k \in 1 .. Count : s[k] = ReservedPages + k - 1 /\ s[k] \in Pages
  BY SizesAre DEF Pages, Count
<1>3. DOMAIN s = 1 .. Count /\ s \in [1 .. Count -> Pages]
  BY <1>2
<1> HIDE DEF s
<1>4. s \in Seq(Pages)
  BY <1>3, SizesAre, SeqDef
<1>5. Len(s) = Count
  BY <1>3, <1>4, SizesAre, LenProperties
<1>6. free_list = At(s, 1)
  <2>1. CASE Count = 0
    <3>1. Pages = {}
      BY <2>1, SizesAre DEF Pages, Count
    <3> QED BY <1>1, <1>5, <2>1, <3>1 DEF At
  <2>2. CASE Count # 0
    <3>1. 1 \in 1 .. Count /\ ReservedPages + 1 - 1 = ReservedPages
      BY <2>2, SizesAre
    <3>2. Pages # {}
      BY <1>2, <3>1
    <3> QED BY <1>1, <1>2, <1>5, <3>1, <3>2 DEF At
  <2> QED BY <2>1, <2>2
<1>7. ASSUME NEW k \in 1 .. Count PROVE next[s[k]] = At(s, k + 1)
  <2>1. s[k] = ReservedPages + k - 1 /\ s[k] \in Pages
    BY <1>2
  <2>2. CASE k = Count
    <3>1. s[k] = TotalPages - 1 /\ k + 1 \notin 1 .. Count
      BY <2>1, <2>2, SizesAre DEF Count
    <3> QED BY <1>1, <1>5, <2>1, <3>1 DEF At
  <2>3. CASE k # Count
    <3>1. s[k] # TotalPages - 1 /\ k + 1 \in 1 .. Count /\ s[k] + 1 = ReservedPages + (k + 1) - 1
      BY <2>1, <2>3, SizesAre DEF Count
    <3> QED BY <1>1, <1>2, <1>5, <2>1, <3>1 DEF At
  <2> QED BY <2>2, <2>3
<1>8. Linked(next, free_list, s)
  BY <1>4, <1>5, <1>6, <1>7, SizesAre DEF Linked
<1>9. FreeSeq = s
  BY <1>8, WalkFinds, WalkNow
<1>10. P!Init
  BY <1>9 DEF P!Init, Init, s, Count
<1>11. P!IInv
  BY <1>10, SizesAre, P!InitIInv
<1>12. next \in [Pages -> Pages \cup {NULL}]
  <2>1. \A i \in Pages : i # TotalPages - 1 => i + 1 \in Pages
    BY SizesAre DEF Pages
  <2> QED BY <1>1, <2>1
<1> QED BY <1>8, <1>9, <1>10, <1>11, <1>12 DEF LInv

\* A step of the pointers is the step of the list, and keeps them in order.
LEMMA StepLinks ==
  ASSUME LInv, [Next]_vars
  PROVE  [P!Next]_(P!vars) /\ LInv'
<1>1. CASE UNCHANGED vars
  <2>1. FreeSeq' = FreeSeq
    BY <1>1, WalkNow, WalkThen DEF vars
  <2>2. UNCHANGED P!vars
    BY <1>1, <2>1 DEF vars, P!vars
  <2>3. P!IInv'
    BY <2>2, SizesAre, P!StepIInv DEF LInv
  <2> QED BY <1>1, <2>1, <2>2, <2>3 DEF vars, LInv, Linked, At
<1>2. CASE Next
  <2>1. P!Next /\ Follows(FreeSeq')
    <3>1. CASE AllocPage
      BY <3>1, AllocPageFollows DEF P!Next
    <3>2. CASE AllocAligned(BlockPages)
      BY <3>2, AllocAlignedFollows DEF P!Next
    <3>3. ASSUME NEW p \in Pages, FreePage(p) PROVE P!Next /\ Follows(FreeSeq')
      BY <3>3, FreePageFollows, SizesAre DEF P!Next
    <3>4. ASSUME NEW p \in Pages, FreeAligned(p, BlockPages) PROVE P!Next /\ Follows(FreeSeq')
      BY <3>4, FreeAlignedFollows, SizesAre DEF P!Next
    <3> QED BY <1>2, <3>1, <3>2, <3>3, <3>4 DEF Next
  <2>2. P!IInv'
    BY <2>1, SizesAre, P!StepIInv DEF LInv
  <2>3. Linked(next', free_list', FreeSeq') /\ next' \in [Pages -> Pages \cup {NULL}]
    BY <2>1, FollowsFound DEF Follows
  <2>4. LInv'
    BY <2>2, <2>3 DEF LInv, Linked, At, Pages
  <2> QED BY <2>1, <2>4
<1> QED BY <1>1, <1>2

\* The walk from free_list always finds the list of Paging: for every memory,
\* alignment and block size, and whatever order frees have left the list in.
THEOREM PointersAreTheList == Spec => []LInv
<1>1. Init => LInv
  BY InitLinks
<1>2. LInv /\ [Next]_vars => LInv'
  BY StepLinks
<1> QED BY <1>1, <1>2, PTL DEF Spec

\* The next pointers that paging.c writes implement the free list of Paging: no
\* stale pointer of a page in use is ever followed, and the scan of
\* alloc_aligned_pages finds the blocks that the list has.
THEOREM LinksImplementList == Spec => Implements
<1>1. [P!Next]_(P!vars) => [List!Next]_(List!vars)
  BY DEF P!Next, P!vars, List!Next, List!vars, P!AllocPage, List!AllocPage, P!AllocAligned,
         List!AllocAligned, P!BlockStarts, List!BlockStarts, P!Ascending, List!Ascending,
         P!Unlinked, List!Unlinked, P!FreePage, List!FreePage, P!FreeAligned,
         List!FreeAligned, P!Pushed, List!Pushed, P!Pages, List!Pages
<1>2. LInv /\ [Next]_vars => [List!Next]_(List!vars)
  BY <1>1, StepLinks
<1>3. Init => List!Init
  <2>1. P!Init => List!Init
    BY DEF P!Init, List!Init
  <2> QED BY <2>1, InitLinks
<1> QED BY <1>2, <1>3, PointersAreTheList, PTL DEF Spec, Implements, List!Spec
===============================================================================
