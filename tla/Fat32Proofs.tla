----------------------------- MODULE Fat32Proofs -----------------------------
(***************************************************************************)
(* What Fat32 keeps whichever sector writes fail and wherever power is     *)
(* lost, for every size of the volume, and any number of names, directory  *)
(* entries and open files: no size without the clusters for it, and, until *)
(* the one write fails that ends a chain, chains that end and share        *)
(* nothing.                                                                *)
(*                                                                         *)
(* PathOf is Path for any table, so that the chains before and after a     *)
(* step can be compared.                                                   *)
(***************************************************************************)
EXTENDS Fat32, FiniteSetTheorems, WellFoundedInduction, TLAPS

-------------------------------------------------------------------------------
(* Numbers and codes.                                                      *)

Bound == MaxSize + TotalClusters

LEMMA ConstantsAre ==
  /\ TotalClusters \in Nat /\ TotalClusters >= 2 /\ MaxSize \in Nat /\ MaxSize >= 1
  /\ Word \in Nat /\ Word > TotalClusters + MaxSize /\ Slots \in Nat /\ Slots >= 1
  /\ Bound \in Nat /\ Bound >= MaxSize /\ Bound >= TotalClusters
BY Fat32Assumption DEF Bound

LEMMA CodesAre ==
  /\ FREE \notin Clusters /\ EOC \notin Clusters /\ BAD \notin Clusters /\ PAST \notin Clusters
  /\ FREE # EOC /\ FREE # BAD /\ FREE # PAST /\ EOC # BAD /\ EOC # PAST /\ BAD # PAST
  /\ FREE = 0 /\ Root \in Clusters /\ Root + 1 \in Clusters /\ Clusters \subseteq Nat
  /\ Root # Root + 1
BY ConstantsAre DEF FREE, EOC, BAD, PAST, Clusters, Root

\* A non-empty set of naturals has a least element.
LEMMA LeastNat ==
  ASSUME NEW T, T \subseteq Nat, T # {}
  PROVE  \E x \in T : \A y \in T : x <= y
<1> DEFINE R == {ss \in Nat \X Nat : ss[1] < ss[2]}
<1>1. IsWellFoundedOn(R, Nat)
  BY NatLessThanWellFounded DEF OpToRel
<1>2. \A x, y \in T : ~ (<<y, x>> \in R) => x <= y
  OBVIOUS
<1> HIDE DEF R
<1>3. PICK x \in T : \A y \in T : ~ (<<y, x>> \in R)
  BY <1>1, WFMin
<1> QED BY <1>2, <1>3

-------------------------------------------------------------------------------
(* Chains in a table t.                                                    *)

NextOf(t, c) ==
  CASE c \in {EOC, PAST} -> PAST
    [] c \in Clusters    -> IF t[c] = FREE THEN BAD ELSE t[c]
    [] OTHER             -> BAD
PathOf(t, s) ==
  LET f[k \in 0 .. (MaxSize + TotalClusters)] ==
        IF k = 0 THEN s ELSE NextOf(t, f[k - 1])
  IN  f

LEMMA PathNow == \A s : Path(s) = PathOf(fat, s)
<1> SUFFICES ASSUME NEW s PROVE Path(s) = PathOf(fat, s)
  OBVIOUS
<1> QED BY DEF Path, PathOf, NextCluster, NextOf

LEMMA PathThen == \A s : Path(s)' = PathOf(fat', s)
<1> SUFFICES ASSUME NEW s PROVE Path(s)' = PathOf(fat', s)
  OBVIOUS
<1> QED BY DEF Path, PathOf, NextCluster, NextOf

LEMMA NextIs ==
  ASSUME NEW t, NEW c
  PROVE  /\ c \in Clusters => /\ t[c] = FREE => NextOf(t, c) = BAD
                              /\ t[c] # FREE => NextOf(t, c) = t[c]
         /\ c \notin Clusters => NextOf(t, c) \notin Clusters /\ NextOf(t, c) # EOC
         /\ NextOf(t, c) \in Clusters => c \in Clusters /\ t[c] = NextOf(t, c)
<1>1. c \in Clusters => c \notin {EOC, PAST}
  BY CodesAre
<1>2. CASE c \in Clusters
  <2>1. NextOf(t, c) = IF t[c] = FREE THEN BAD ELSE t[c]
    BY <1>1, <1>2 DEF NextOf
  <2> QED BY <1>2, <2>1, CodesAre
<1>3. CASE c \notin Clusters
  <2>1. NextOf(t, c) \in {PAST, BAD}
    BY <1>3 DEF NextOf
  <2> QED BY <1>3, <2>1, CodesAre
<1> QED BY <1>2, <1>3

\* The recursive function is defined.
LEMMA PathIs ==
  ASSUME NEW t, NEW s
  PROVE  /\ PathOf(t, s)[0] = s
         /\ \A k \in 1 .. Bound : PathOf(t, s)[k] = NextOf(t, PathOf(t, s)[k - 1])
<1> DEFINE G(x, n) == x = [k \in 0 .. n |-> IF k = 0 THEN s ELSE NextOf(t, x[k - 1])]
           None == {n \in Nat : ~ \E x : G(x, n)}
<1>1. \E x : G(x, Bound)
  <2> SUFFICES ASSUME None # {} PROVE FALSE
    BY ConstantsAre
  <2>1. PICK n \in None : \A m \in None : n <= m
    BY LeastNat
  <2>2. n # 0
    <3> DEFINE x == [k \in 0 .. 0 |-> s]
    <3>1. \A k \in 0 .. 0 : k = 0
      OBVIOUS
    <3>2. x = [k \in 0 .. 0 |-> IF k = 0 THEN s ELSE NextOf(t, x[k - 1])]
      BY <3>1
    <3>3. G(x, 0)
      BY <3>2
    <3> QED BY <3>3
  <2>3. n - 1 \in Nat /\ n - 1 \notin None /\ n \in Nat
    <3>1. n \in Nat
      OBVIOUS
    <3>2. n - 1 \in Nat /\ ~ (n <= n - 1)
      BY <2>2, <3>1
    <3> HIDE DEF None
    <3> QED BY <2>1, <3>1, <3>2
  <2>4. PICK x : G(x, n - 1)
    BY <2>3
  <2> DEFINE y == [k \in 0 .. n |-> IF k = n THEN NextOf(t, x[n - 1]) ELSE x[k]]
  <2>5. ASSUME NEW k \in 0 .. n
        PROVE  y[k] = IF k = 0 THEN s ELSE NextOf(t, y[k - 1])
    <3>1. CASE k = 0
      <4>1. 0 \in 0 .. (n - 1) /\ 0 # n /\ 0 \in 0 .. n
        BY <2>2, <2>3
      <4>2. x[0] = s
        BY <2>4, <4>1
      <4> QED BY <3>1, <4>1, <4>2
    <3>2. CASE k # 0 /\ k # n
      <4>1. k \in 0 .. (n - 1) /\ k - 1 \in 0 .. n /\ k - 1 # n
        BY <2>3, <3>2
      <4>2. x[k] = NextOf(t, x[k - 1])
        BY <2>4, <3>2, <4>1
      <4>3. y[k - 1] = x[k - 1] /\ y[k] = x[k]
        BY <3>2, <4>1
      <4> QED BY <3>2, <4>2, <4>3
    <3>3. CASE k = n
      <4>1. n - 1 \in 0 .. n /\ n - 1 # n
        BY <2>3
      <4>2. y[n - 1] = x[n - 1]
        BY <4>1
      <4> QED BY <2>2, <3>3, <4>2
    <3> QED BY <3>1, <3>2, <3>3
  <2>6. y = [k \in 0 .. n |-> y[k]]
    OBVIOUS
  <2> HIDE DEF y
  <2>7. G(y, n)
    BY <2>5, <2>6
  <2> QED BY <2>7
<1> HIDE DEF G, None
<1>2. G(CHOOSE x : G(x, Bound), Bound)
  BY <1>1
<1>3. PathOf(t, s) = CHOOSE x : G(x, Bound)
  BY DEF PathOf, G, Bound
<1>4. G(PathOf(t, s), Bound)
  BY <1>2, <1>3
<1> DEFINE p == PathOf(t, s)
<1> HIDE DEF p
<1>5. p = [k \in 0 .. Bound |-> IF k = 0 THEN s ELSE NextOf(t, p[k - 1])]
  BY <1>4 DEF G, p
<1>6. p[0] = s
  BY <1>5, ConstantsAre
<1>7. ASSUME NEW k \in 1 .. Bound PROVE p[k] = NextOf(t, p[k - 1])
  <2>1. k \in 0 .. Bound /\ k # 0
    BY ConstantsAre
  <2> QED BY <1>5, <2>1
<1> QED BY <1>6, <1>7 DEF p

\* A link of a chain is a link of the table.
LEMMA PathLink ==
  ASSUME NEW t, NEW s, NEW k \in 1 .. Bound, PathOf(t, s)[k] \in Clusters
  PROVE  PathOf(t, s)[k - 1] \in Clusters /\ t[PathOf(t, s)[k - 1]] = PathOf(t, s)[k]
BY PathIs, NextIs

\* Where a chain has a cluster it has one everywhere before.
LEMMA PathBack ==
  ASSUME NEW t, NEW s, NEW j \in 0 .. Bound, PathOf(t, s)[j] \in Clusters, NEW i \in 0 .. j
  PROVE  PathOf(t, s)[i] \in Clusters
<1> DEFINE Gap == {d \in 0 .. j : PathOf(t, s)[j - d] \notin Clusters}
<1> SUFFICES ASSUME Gap # {} PROVE FALSE
  <2>1. j - i \in 0 .. j /\ j - (j - i) = i
    BY ConstantsAre
  <2> QED BY <2>1
<1>0. Gap \subseteq Nat
  OBVIOUS
<1>1. PICK d \in Gap : \A e \in Gap : d <= e
  BY <1>0, LeastNat
<1>2. d # 0 /\ d - 1 \in 0 .. j /\ d - 1 \notin Gap
  BY <1>1, ConstantsAre
<1>3. PathOf(t, s)[j - (d - 1)] \in Clusters
  BY <1>2
<1>4. j - (d - 1) \in 1 .. Bound /\ (j - (d - 1)) - 1 = j - d
  BY <1>1, <1>2, ConstantsAre
<1>5. PathOf(t, s)[j - d] \in Clusters
  BY <1>3, <1>4, PathLink
<1> QED BY <1>1, <1>5
\* What a chain has before place n depends on the table before place n - 1.
LEMMA PathSame ==
  ASSUME NEW t, NEW u, NEW s, NEW n \in 0 .. Bound,
         \A i \in 0 .. (n - 2) :
           PathOf(t, s)[i] \in Clusters => u[PathOf(t, s)[i]] = t[PathOf(t, s)[i]]
  PROVE  \A i \in 0 .. (n - 1) : PathOf(u, s)[i] = PathOf(t, s)[i]
<1> DEFINE Diff == {i \in 0 .. (n - 1) : PathOf(u, s)[i] # PathOf(t, s)[i]}
<1> SUFFICES ASSUME Diff # {} PROVE FALSE
  OBVIOUS
<1>0. Diff \subseteq Nat
  OBVIOUS
<1>1. PICK i \in Diff : \A j \in Diff : i <= j
  BY <1>0, LeastNat
<1>2. i # 0
  BY PathIs
<1>3. i \in 1 .. Bound /\ i - 1 \in 0 .. (n - 2) /\ i - 1 \notin Diff /\ i - 1 \in 0 .. (n - 1)
  BY <1>1, <1>2, ConstantsAre
<1> DEFINE c == PathOf(t, s)[i - 1]
<1>4. PathOf(u, s)[i - 1] = c
  BY <1>3
<1>5. NextOf(u, c) = NextOf(t, c)
  BY <1>3 DEF NextOf
<1> QED BY <1>1, <1>3, <1>4, <1>5, PathIs

Table == [Clusters -> Clusters \cup {FREE, EOC}]

\* Nothing leads to a free cluster, or to the same one twice.
Sound(t) ==
  \A c \in Clusters : t[c] \in Clusters =>
    t[t[c]] # FREE /\ \A d \in Clusters : t[d] = t[c] => d = c
\* A chain may begin here.
Begins(t, s) == s \in Clusters /\ t[s] # FREE /\ \A c \in Clusters : t[c] # s

\* Two chains that begin at different places, or two places of one chain, have
\* different clusters.
LEMMA PathsApart ==
  ASSUME NEW t, Sound(t), NEW s, NEW r, Begins(t, s), Begins(t, r),
         NEW i \in 0 .. Bound, NEW j \in 0 .. Bound,
         PathOf(t, s)[i] \in Clusters, PathOf(t, s)[i] = PathOf(t, r)[j]
  PROVE  s = r /\ i = j
<1> DEFINE S == {n \in 0 .. Bound : \E m \in 0 .. Bound :
                   /\ PathOf(t, s)[n] \in Clusters /\ PathOf(t, s)[n] = PathOf(t, r)[m]
                   /\ ~ (s = r /\ n = m)}
<1> SUFFICES ASSUME S # {} PROVE FALSE
  OBVIOUS
<1>0. S \subseteq Nat
  OBVIOUS
<1>1. PICK n \in S : \A k \in S : n <= k
  BY <1>0, LeastNat
<1>2. PICK m \in 0 .. Bound :
        /\ PathOf(t, s)[n] \in Clusters /\ PathOf(t, s)[n] = PathOf(t, r)[m]
        /\ ~ (s = r /\ n = m)
  OBVIOUS
<1>3. n \in 0 .. Bound
  OBVIOUS
<1>4. PathOf(t, s)[0] = s /\ PathOf(t, r)[0] = r
  BY PathIs
<1>5. n # 0 => /\ n \in 1 .. Bound /\ n - 1 \in 0 .. Bound /\ PathOf(t, s)[n - 1] \in Clusters
               /\ t[PathOf(t, s)[n - 1]] = PathOf(t, s)[n]
  <2>1. n # 0 => n \in 1 .. Bound /\ n - 1 \in 0 .. Bound
    BY <1>3, ConstantsAre
  <2> QED BY <1>2, <2>1, PathLink
<1>6. m # 0 => /\ m \in 1 .. Bound /\ m - 1 \in 0 .. Bound /\ PathOf(t, r)[m - 1] \in Clusters
               /\ t[PathOf(t, r)[m - 1]] = PathOf(t, r)[m]
  <2>1. m # 0 => m \in 1 .. Bound /\ m - 1 \in 0 .. Bound
    BY ConstantsAre
  <2> QED BY <1>2, <2>1, PathLink
<1>7. CASE n = 0
  <2>1. CASE m = 0
    BY <1>2, <1>4, <1>7, <2>1
  <2>2. CASE m # 0
    BY <1>2, <1>4, <1>6, <1>7, <2>2 DEF Begins
  <2> QED BY <2>1, <2>2
<1>8. CASE n # 0 /\ m = 0
  BY <1>2, <1>4, <1>5, <1>8 DEF Begins
<1>9. CASE n # 0 /\ m # 0
  <2>1. PathOf(t, s)[n - 1] = PathOf(t, r)[m - 1]
    BY <1>2, <1>5, <1>6, <1>9 DEF Sound
  <2>2. ~ (s = r /\ n - 1 = m - 1)
    BY <1>2, <1>3
  <2>3. n - 1 \in S
    BY <1>5, <1>6, <1>9, <2>1, <2>2
  <2> QED BY <1>1, <1>3, <2>3
<1> QED BY <1>7, <1>8, <1>9

\* A chain ends, and not later than the volume has clusters.
LEMMA PathEnds ==
  ASSUME NEW t \in Table, Sound(t), NEW s, Begins(t, s)
  PROVE  \E k \in 0 .. TotalClusters : /\ PathOf(t, s)[k] \in Clusters
                                       /\ t[PathOf(t, s)[k]] = EOC
<1> DEFINE p == PathOf(t, s)
           K == 0 .. TotalClusters
           f == [k \in K |-> p[k]]
           Out == {k \in K : p[k] \notin Clusters}
<1>0. K \subseteq 0 .. Bound /\ K \subseteq Nat
  BY ConstantsAre
<1>1. Out # {}
  <2> SUFFICES ASSUME Out = {} PROVE FALSE
    OBVIOUS
  <2>1. f \in [K -> Clusters]
    OBVIOUS
  <2>2. IsFiniteSet(K) /\ IsFiniteSet(Clusters) /\ Cardinality(Clusters) < Cardinality(K)
    <3>1. Cardinality(K) = TotalClusters + 1 /\ IsFiniteSet(K)
      BY ConstantsAre, FS_Interval
    <3>2. Cardinality(Clusters) = TotalClusters /\ IsFiniteSet(Clusters)
      <4>1. 2 \in Int /\ TotalClusters + 1 \in Int /\ ~ (2 > TotalClusters + 1)
        BY ConstantsAre
      <4>2. Cardinality(Clusters) = (TotalClusters + 1) - 2 + 1 /\ IsFiniteSet(Clusters)
        BY <4>1, FS_Interval DEF Clusters
      <4> QED BY <4>2, ConstantsAre
    <3> QED BY <3>1, <3>2, ConstantsAre
  <2> HIDE DEF f, K
  <2>3. PICK x, y \in K : x # y /\ f[x] = f[y]
    BY <2>1, <2>2, FS_PigeonHole
  <2>4. p[x] = p[y] /\ p[x] \in Clusters /\ x \in 0 .. Bound /\ y \in 0 .. Bound
    BY <1>0, <2>1, <2>3 DEF f
  <2> HIDE DEF p
  <2>5. x = y
    BY <2>4, PathsApart DEF p
  <2> QED BY <2>3, <2>5
<1>2. Out \subseteq Nat
  BY <1>0
<1>3. PICK k \in Out : \A j \in Out : k <= j
  BY <1>1, <1>2, LeastNat
<1>4. k # 0
  BY PathIs DEF Begins
<1>5. k \in 1 .. Bound /\ k - 1 \in K /\ k - 1 \notin Out /\ p[k] \notin Clusters
  BY <1>0, <1>3, <1>4, ConstantsAre
<1>6. p[k - 1] \in Clusters /\ k - 1 \in 0 .. Bound
  BY <1>0, <1>5
<1>7. t[p[k - 1]] # FREE
  <2>1. CASE k - 1 = 0
    BY <2>1, PathIs DEF Begins
  <2>2. CASE k - 1 # 0
    <3>1. k - 1 \in 1 .. Bound
      BY <1>6, <2>2
    <3>2. p[(k - 1) - 1] \in Clusters /\ t[p[(k - 1) - 1]] = p[k - 1]
      BY <1>6, <3>1, PathLink
    <3> QED BY <1>6, <3>2 DEF Sound
  <2> QED BY <2>1, <2>2
<1>8. p[k] = t[p[k - 1]]
  BY <1>5, <1>6, <1>7, PathIs, NextIs
<1>9. t[p[k - 1]] = EOC
  BY <1>5, <1>6, <1>7, <1>8 DEF Table
<1> QED BY <1>5, <1>6, <1>9
-------------------------------------------------------------------------------
(* The invariant.                                                          *)

Entries == [name : Names \cup {NULL}, start : Clusters \cup {0}, size : 0 .. MaxSize]
Opened == [name : Names \cup {NULL}, start : Clusters \cup {0, BAD}, size : 0 .. MaxSize]

Types ==
  /\ fat \in Table
  /\ dir \in [1 .. Slots -> Entries]
  /\ file \in [Handles -> Opened]
  /\ pc \in {"idle", "allocate", "stray", "first", "link", "end", "data", "directory",
             "panic", "hang"}
  /\ h \in Handles \cup {NULL} /\ off \in 0 .. MaxSize /\ end \in 0 .. MaxSize
  /\ last \in Clusters \cup {0, BAD} /\ new \in Clusters \cup {0, BAD}
  /\ todo \in 0 .. (Word - 1) /\ torn \in BOOLEAN

\* What a call has found before it is cut.
Call ==
  /\ pc \in {"first", "link", "end", "data", "directory"} => h \in Handles /\ off < end
  /\ pc = "stray" => new \in Clusters
  /\ pc = "end" => todo > 0
  /\ pc = "first" => last = new /\ (new \in Clusters => fat[new] = FREE)

\* A chain from s has n clusters, and one of them, but the last, is c.
Has(t, s, n) == \A i \in 0 .. (n - 1) : PathOf(t, s)[i] \in Clusters
Leads(t, s, n, c) == \E i \in 0 .. (n - 2) : PathOf(t, s)[i] = c

Records == {dir[s] : s \in 1 .. Slots} \cup {file[x] : x \in Handles}
Within(c) == \E e \in Records : Leads(fat, e.start, e.size, c)

\* The table entry that is written next is not inside of what a size covers.
Sizes ==
  /\ \A e \in Records : Has(fat, e.start, e.size)
  /\ pc = "link" => ~ Within(last)
  /\ pc = "end" => ~ Within(new)
  /\ pc = "directory" => Has(fat, file[h].start, end)

\* The chains that a restart finds.
Tops == {Root} \cup (Clusters \cap {dir[s].start : s \in {t \in 1 .. Slots : Used(t)}})

\* Between the two writes that add a cluster to a chain it is linked and free.
Chains ==
  /\ \A c \in Clusters : fat[c] \in Clusters =>
       /\ fat[fat[c]] # FREE \/ (pc = "end" /\ fat[c] = new)
       /\ \A d \in Clusters : fat[d] = fat[c] => d = c
       /\ fat[c] \notin Starts
  /\ \A s \in Starts : fat[s] # FREE \/ (pc = "first" /\ s = new /\ s \notin Tops)
  /\ pc = "link" /\ last \in Clusters => fat[last] = EOC
  /\ pc = "end" /\ new \in Clusters => fat[new] = FREE

IInv == Types /\ Call /\ Sizes /\ (~ torn => Chains)

-------------------------------------------------------------------------------
(* Types.                                                                  *)

LEMMA ToAddType == \A a, b \in Int : ToAdd(a, b) \in 0 .. (Word - 1)
<1> SUFFICES ASSUME NEW a \in Int, NEW b \in Int PROVE ToAdd(a, b) \in 0 .. (Word - 1)
  OBVIOUS
<1>1. a - b \in Int /\ Word \in Nat /\ Word >= 1
  BY ConstantsAre
<1>2. \A n \in Int : n % Word \in 0 .. (Word - 1)
  BY <1>1
<1> QED BY <1>1, <1>2 DEF ToAdd

LEMMA ClosedIs ==
  NoEntry \in Entries /\ Closed \in Opened /\ Entries \subseteq Opened
<1>1. 0 \in 0 .. MaxSize
  BY ConstantsAre
<1> QED BY <1>1 DEF NoEntry, Closed, Entries, Opened

\* A sector of the table is written, or not.
LEMMA TableType ==
  ASSUME Types, NEW c, NEW v \in Clusters \cup {BAD, EOC},
         SetNext(c, v) \/ UNCHANGED fat
  PROVE  fat' \in Table
<1>1. CASE SetNext(c, v)
  <2>1. c \in Clusters /\ fat' = [fat EXCEPT ![c] = IF v = BAD THEN EOC ELSE v]
    BY <1>1 DEF SetNext
  <2>2. (IF v = BAD THEN EOC ELSE v) \in Clusters \cup {FREE, EOC}
    BY CodesAre
  <2> QED BY <2>1, <2>2 DEF Types, Table
<1>2. CASE UNCHANGED fat
  BY <1>2 DEF Types
<1> QED BY <1>1, <1>2

LEMMA ReturnDoes ==
  ASSUME Return
  PROVE  /\ pc' = "idle" /\ h' = NULL /\ off' = 0 /\ end' = 0 /\ last' = 0 /\ new' = 0
         /\ todo' = 0 /\ 0 \in 0 .. MaxSize /\ 0 \in 0 .. (Word - 1)
BY ConstantsAre DEF Return

LEMMA UpdateType ==
  ASSUME Types, NEW n \in Names \cup {NULL}, NEW s \in Clusters \cup {0},
         NEW z \in 0 .. MaxSize, Update(n, s, z) \/ UNCHANGED dir
  PROVE  dir' \in [1 .. Slots -> Entries]
BY DEF Types, Update, Entries

LEMMA TypesStep ==
  ASSUME Types, Call, Sizes, [Next]_vars
  PROVE  Types' /\ Call'
<1> USE DEF volume, call
<1>0. FREE # EOC /\ BAD \notin Clusters /\ 0 \notin Clusters
  BY CodesAre
<1>1. CASE Open
  <2>1. file' \in [Handles -> Opened]
    BY <1>1, ClosedIs DEF Open, Types
  <2> QED BY <1>1, <2>1 DEF Open, Types, Call
<1>2. CASE Read
  BY <1>2 DEF Read, Types, Call
<1>3. CASE Create
  <2>1. dir' \in [1 .. Slots -> Entries]
    <3>1. PICK n \in Names, s \in 1 .. (Slots - 1) :
            dir' = [dir EXCEPT ![s] = [NoEntry EXCEPT !.name = n]]
      BY <1>3 DEF Create
    <3>2. [NoEntry EXCEPT !.name = n] \in Entries
      BY ClosedIs DEF Entries
    <3> QED BY <3>1, <3>2, ConstantsAre DEF Types
  <2> QED BY <1>3, <2>1 DEF Create, Types, Call
<1>4. CASE CreateCluster
  <2>1. PICK c \in Clusters \cup {BAD} :
          \/ SetNext(c, EOC) /\ new' = c /\ pc' = "stray" /\ UNCHANGED <<h, off, end, last, todo>>
          \/ UNCHANGED fat /\ Return
    BY <1>4 DEF CreateCluster
  <2>2. fat' \in Table
    BY <2>1, TableType
  <2>3. UNCHANGED <<dir, file, torn>>
    BY <1>4 DEF CreateCluster
  <2>4. CASE Return
    BY <2>2, <2>3, <2>4, ReturnDoes DEF Types, Call
  <2>5. CASE SetNext(c, EOC) /\ new' = c /\ pc' = "stray" /\ UNCHANGED <<h, off, end, last, todo>>
    <3>1. c \in Clusters
      BY <2>5 DEF SetNext
    <3> QED BY <2>2, <2>3, <2>5, <3>1 DEF Types, Call
  <2> QED BY <2>1, <2>4, <2>5
<1>5. CASE CreateUpdate
  <2>1. dir' \in [1 .. Slots -> Entries]
    <3>1. new \in Clusters /\ 0 \in 0 .. MaxSize
      BY <1>5, ConstantsAre DEF CreateUpdate, Call
    <3> QED BY <1>5, <3>1, UpdateType DEF CreateUpdate
  <2> QED BY <1>5, <2>1, ReturnDoes DEF CreateUpdate, Types, Call
<1>6. CASE Write
  <2>1. PICK x \in Handles, o \in 0 .. (MaxSize - 1), e \in 1 .. MaxSize :
          /\ o < e /\ h' = x /\ off' = o /\ end' = e
          /\ \/ /\ \E c \in Clusters \cup {BAD} :
                     FindFree(c) /\ new' = c /\ last' = c
                       /\ file' = [file EXCEPT ![x].start = c]
                /\ todo' = ToAdd(e, 1) /\ pc' = "first"
             \/ /\ todo' = ToAdd(e, file[x].size)
                /\ \/ \E c \in Clusters : last' = c /\ pc' = "link"
                   \/ last' = BAD /\ pc' = "hang"
                /\ UNCHANGED <<file, new>>
             \/ pc' = "data" /\ UNCHANGED <<file, last, new, todo>>
    BY <1>6 DEF Write
  <2>2. /\ e \in 0 .. MaxSize /\ o \in 0 .. MaxSize /\ e \in Int /\ file[x].size \in Int
        /\ UNCHANGED <<fat, dir, torn>>
    <3>1. UNCHANGED <<fat, dir, torn>>
      BY <1>6 DEF Write
    <3>2. file[x] \in Opened
      BY DEF Types
    <3>3. file[x].size \in 0 .. MaxSize
      BY <3>2 DEF Opened
    <3> QED BY <3>1, <3>3, ConstantsAre
  <2>3. ToAdd(e, 1) \in 0 .. (Word - 1) /\ ToAdd(e, file[x].size) \in 0 .. (Word - 1)
    <3>1. 1 \in Int
      OBVIOUS
    <3> QED BY <2>2, <3>1, ToAddType
  <2>4. CASE /\ \E c \in Clusters \cup {BAD} :
                  FindFree(c) /\ new' = c /\ last' = c /\ file' = [file EXCEPT ![x].start = c]
             /\ todo' = ToAdd(e, 1) /\ pc' = "first"
    <3>1. PICK c \in Clusters \cup {BAD} :
            FindFree(c) /\ new' = c /\ last' = c /\ file' = [file EXCEPT ![x].start = c]
      BY <2>4
    <3>2. file' \in [Handles -> Opened]
      BY <3>1 DEF Types, Opened
    <3>3. new' \in Clusters => fat'[new'] = FREE
      BY <1>0, <2>2, <3>1 DEF FindFree
    <3> QED BY <2>1, <2>2, <2>3, <2>4, <3>1, <3>2, <3>3 DEF Types, Call
  <2>5. CASE /\ todo' = ToAdd(e, file[x].size)
             /\ \/ \E c \in Clusters : last' = c /\ pc' = "link"
                \/ last' = BAD /\ pc' = "hang"
             /\ UNCHANGED <<file, new>>
    BY <2>1, <2>2, <2>3, <2>5 DEF Types, Call
  <2>6. CASE pc' = "data" /\ UNCHANGED <<file, last, new, todo>>
    BY <2>1, <2>2, <2>6 DEF Types, Call
  <2> QED BY <2>1, <2>4, <2>5, <2>6
<1>7. CASE First
  <2>1. fat' \in Table
    BY <1>7, TableType DEF First
  <2>2. torn' \in BOOLEAN
    BY <1>7 DEF First, Types
  <2> QED BY <1>7, <2>1, <2>2 DEF First, Types, Call
<1>8. CASE Link
  <2>1. PICK c \in Clusters \cup {BAD} : new' = c /\ (SetNext(last, c) \/ UNCHANGED fat)
    BY <1>8 DEF Link
  <2>2. fat' \in Table
    BY <2>1, TableType
  <2> QED BY <1>8, <2>1, <2>2 DEF Link, Types, Call
<1>9. CASE End
  <2>1. fat' \in Table
    BY <1>9, TableType DEF End
  <2>2. torn' \in BOOLEAN
    BY <1>9 DEF End, Types
  <2>3. todo' \in 0 .. (Word - 1)
    BY <1>9, ConstantsAre DEF End, Types, Call
  <2> QED BY <1>9, <2>1, <2>2, <2>3 DEF End, Types, Call
<1>10. CASE Final
  <2>1. fat' \in Table
    BY <1>10, TableType DEF Final
  <2> QED BY <1>10, <2>1 DEF Final, Types, Call
<1>11. CASE Data
  <2>1. \/ pc' \in {"directory", "panic"} /\ UNCHANGED call
        \/ Return
    BY <1>11 DEF Data
  <2>2. pc = "data" /\ UNCHANGED <<fat, dir, file, torn>>
    BY <1>11 DEF Data
  <2> QED BY <2>1, <2>2, ReturnDoes DEF Types, Call
<1>12. CASE Directory
  <2>1. h \in Handles /\ end \in 0 .. MaxSize /\ 0 < end
    BY <1>12, ConstantsAre DEF Directory, Call, Types
  <2>2. file' \in [Handles -> Opened]
    BY <1>12, <2>1 DEF Directory, Types, Opened
  <2>3. file[h].start \in Clusters
    <3>1. 0 \in 0 .. (end - 1)
      BY <2>1, ConstantsAre
    <3>2. PathOf(fat, file[h].start)[0] \in Clusters
      BY <1>12, <3>1 DEF Directory, Sizes, Has
    <3> QED BY <3>2, PathIs
  <2>4. file[h].name \in Names \cup {NULL}
    BY <2>1 DEF Types, Opened
  <2>5. dir' \in [1 .. Slots -> Entries]
    BY <1>12, <2>1, <2>3, <2>4, UpdateType DEF Directory
  <2> QED BY <1>12, <2>2, <2>5, ReturnDoes DEF Directory, Types, Call
<1>13. CASE Restart
  <2>1. file' \in [Handles -> Opened] /\ torn' \in BOOLEAN
    BY <1>13, ClosedIs DEF Restart, Types
  <2> QED BY <1>13, <2>1, ReturnDoes DEF Restart, Types, Call
<1>14. CASE UNCHANGED vars
  BY <1>14 DEF vars, Types, Call
<1> QED BY <1>1, <1>2, <1>3, <1>4, <1>5, <1>6, <1>7, <1>8, <1>9, <1>10, <1>11, <1>12, <1>13,
           <1>14 DEF Next
-------------------------------------------------------------------------------
(* Sizes.                                                                  *)

\* A record's size and start.
LEMMA RecordIs ==
  ASSUME Types, NEW e \in Records
  PROVE  e.size \in 0 .. MaxSize /\ e.start \in Clusters \cup {0, BAD} /\ e.size \in 0 .. Bound
<1>1. e \in Opened
  BY ClosedIs DEF Types, Records
<1>2. \A n \in 0 .. MaxSize : n \in 0 .. Bound
  BY ConstantsAre
<1> QED BY <1>1, <1>2 DEF Opened

\* Inside of what a size covers, entries lead on.
LEMMA LeadsOn ==
  ASSUME NEW t, NEW s, NEW n \in 0 .. Bound, Has(t, s, n), NEW c, Leads(t, s, n, c)
  PROVE  c \in Clusters /\ t[c] \in Clusters
<1>1. PICK i \in 0 .. (n - 2) : PathOf(t, s)[i] = c
  BY DEF Leads
<1>2. i + 1 \in 1 .. Bound /\ (i + 1) - 1 = i /\ i + 1 \in 0 .. (n - 1)
  BY ConstantsAre
<1>3. PathOf(t, s)[i + 1] \in Clusters
  BY <1>2 DEF Has
<1>4. t[PathOf(t, s)[(i + 1) - 1]] = PathOf(t, s)[i + 1]
      /\ PathOf(t, s)[(i + 1) - 1] \in Clusters
  BY <1>2, <1>3, PathLink
<1> QED BY <1>1, <1>2, <1>3, <1>4

\* An entry elsewhere is written.
LEMMA HasStill ==
  ASSUME NEW t, NEW u, NEW c, \A d \in Clusters \ {c} : u[d] = t[d],
         NEW s, NEW n \in 0 .. Bound, Has(t, s, n), ~ Leads(t, s, n, c)
  PROVE  Has(u, s, n) /\ \A d : Leads(u, s, n, d) => Leads(t, s, n, d)
<1>1. \A i \in 0 .. (n - 2) :
        PathOf(t, s)[i] \in Clusters => u[PathOf(t, s)[i]] = t[PathOf(t, s)[i]]
  BY DEF Leads
<1>2. \A i \in 0 .. (n - 1) : PathOf(u, s)[i] = PathOf(t, s)[i]
  BY <1>1, PathSame
<1>3. \A i \in 0 .. (n - 2) : i \in 0 .. (n - 1)
  OBVIOUS
<1> QED BY <1>2, <1>3 DEF Has, Leads

\* No size leads through an entry that is free or ends a chain.
LEMMA NotWithin ==
  ASSUME Types, Sizes, NEW c, fat[c] \notin Clusters \/ c \notin Clusters
  PROVE  ~ Within(c)
BY RecordIs, LeadsOn DEF Within, Sizes

\* The table is written.
LEMMA SizesTable ==
  ASSUME Types, Sizes, NEW c, ~ Within(c), NEW v, SetNext(c, v) \/ UNCHANGED fat,
         UNCHANGED <<dir, file>>
  PROVE  /\ \A e \in Records' : Has(fat', e.start, e.size)
         /\ \A d, e : e \in Records' /\ Leads(fat', e.start, e.size, d) => Within(d)
<1>1. Records' = Records
  BY DEF Records
<1>2. \A d \in Clusters \ {c} : fat'[d] = fat[d]
  BY DEF SetNext, Types, Table
<1>3. ASSUME NEW e \in Records
      PROVE  /\ Has(fat', e.start, e.size)
             /\ \A d : Leads(fat', e.start, e.size, d) => Leads(fat, e.start, e.size, d)
  <2>1. /\ e.size \in 0 .. Bound /\ Has(fat, e.start, e.size)
        /\ ~ Leads(fat, e.start, e.size, c)
    BY RecordIs DEF Sizes, Within
  <2> QED BY <1>2, <2>1, HasStill
<1> QED BY <1>1, <1>3 DEF Within

\* A record is written that has no size, or a size its chain covers.
LEMMA SizesRecords ==
  ASSUME Types, Sizes, UNCHANGED fat,
         \A e \in Records' : e \in Records \/ e.size = 0 \/ Has(fat, e.start, e.size),
         pc' \notin {"link", "end", "directory"}
  PROVE  Sizes'
<1>1. ASSUME NEW e \in Records' PROVE Has(fat', e.start, e.size)
  <2>1. e.size = 0 => Has(fat, e.start, e.size)
    BY DEF Has
  <2> QED BY <1>1, <2>1 DEF Sizes
<1> QED BY <1>1 DEF Sizes

\* Only the records at one place of a table change.
LEMMA RecordsDir ==
  ASSUME Types, NEW s, NEW e, dir' = [dir EXCEPT ![s] = e], UNCHANGED file
  PROVE  \A x \in Records' : x \in Records \/ x = e
BY DEF Records, Types
LEMMA RecordsFile ==
  ASSUME Types, NEW x, NEW e, file' = [file EXCEPT ![x] = e], UNCHANGED dir
  PROVE  \A y \in Records' : y \in Records \/ y = e
BY DEF Records, Types

LEMMA SizesStep ==
  ASSUME Types, Types', Call, Sizes, [Next]_vars
  PROVE  Sizes'
<1> USE DEF volume, call
<1>0. \A c \in Clusters \cup {BAD} : FindFree(c) => fat[c] \notin Clusters \/ c \notin Clusters
  BY CodesAre DEF FindFree
<1>1. CASE Open
  <2>1. /\ UNCHANGED <<fat, dir, pc>> /\ pc = "idle"
        /\ \E x \in Handles, s \in 1 .. Slots : file' = [file EXCEPT ![x] = dir[s]]
    BY <1>1 DEF Open
  <2>2. \A e \in Records' : e \in Records
    BY <2>1, RecordsFile DEF Records
  <2> QED BY <2>1, <2>2, SizesRecords
<1>2. CASE Read
  <2>1. UNCHANGED <<fat, dir, file>> /\ pc' \in {"idle", "panic"}
    BY <1>2 DEF Read
  <2>2. Records' = Records
    BY <2>1 DEF Records
  <2> QED BY <2>1, <2>2, SizesRecords
<1>3. CASE Create
  <2>1. UNCHANGED <<fat, file>> /\ pc' = "allocate"
    BY <1>3 DEF Create
  <2>2. PICK n \in Names, s \in 1 .. (Slots - 1) :
          dir' = [dir EXCEPT ![s] = [NoEntry EXCEPT !.name = n]]
    BY <1>3 DEF Create
  <2> DEFINE e == [NoEntry EXCEPT !.name = n]
  <2>3. e.size = 0
    BY DEF NoEntry
  <2>4. \A x \in Records' : x \in Records \/ x = e
    BY <2>1, <2>2, RecordsDir
  <2> HIDE DEF e
  <2> QED BY <2>1, <2>3, <2>4, SizesRecords
<1>4. CASE CreateCluster
  <2>1. PICK c \in Clusters \cup {BAD} :
          /\ FindFree(c) /\ (SetNext(c, EOC) \/ UNCHANGED fat) /\ pc' \in {"stray", "idle"}
    BY <1>4, ReturnDoes DEF CreateCluster
  <2>2. ~ Within(c)
    BY <1>0, <2>1, NotWithin
  <2>3. UNCHANGED <<dir, file>>
    BY <1>4 DEF CreateCluster
  <2>4. \A e \in Records' : Has(fat', e.start, e.size)
    BY <2>1, <2>2, <2>3, SizesTable
  <2> QED BY <2>1, <2>4 DEF Sizes
<1>5. CASE CreateUpdate
  <2>1. /\ UNCHANGED <<fat, file>> /\ pc' = "idle"
        /\ \/ \E s \in 1 .. Slots :
                dir' = [dir EXCEPT ![s] = [name |-> NULL, start |-> new, size |-> 0]]
           \/ UNCHANGED dir
    BY <1>5, ReturnDoes DEF CreateUpdate, Update
  <2>2. \A e \in Records' : e \in Records \/ e.size = 0
    <3>1. CASE UNCHANGED dir
      BY <2>1, <3>1 DEF Records
    <3>2. CASE \E s \in 1 .. Slots :
                 dir' = [dir EXCEPT ![s] = [name |-> NULL, start |-> new, size |-> 0]]
      <4>1. PICK s \in 1 .. Slots :
              dir' = [dir EXCEPT ![s] = [name |-> NULL, start |-> new, size |-> 0]]
        BY <3>2
      <4>2. \A x \in Records' : x \in Records \/ x = [name |-> NULL, start |-> new, size |-> 0]
        BY <2>1, <4>1, RecordsDir
      <4> QED BY <4>2
    <3> QED BY <2>1, <3>1, <3>2
  <2> QED BY <2>1, <2>2, SizesRecords
<1>6. CASE Write
  <2>1. PICK x \in Handles :
          \/ /\ file[x].start = 0 /\ pc' = "first"
             /\ \E c \in Clusters \cup {BAD} : file' = [file EXCEPT ![x].start = c]
          \/ /\ UNCHANGED file /\ pc' = "link"
             /\ \E c \in Clusters : WalkTo(file[x].start, c) /\ last' = c
          \/ UNCHANGED file /\ pc' \in {"hang", "data"}
    BY <1>6 DEF Write
  <2>2. UNCHANGED <<fat, dir>>
    BY <1>6 DEF Write
  <2>3. CASE /\ file[x].start = 0 /\ pc' = "first"
             /\ \E c \in Clusters \cup {BAD} : file' = [file EXCEPT ![x].start = c]
    <3>1. PICK c : file' = [file EXCEPT ![x].start = c]
      BY <2>3
    <3> DEFINE e == [file[x] EXCEPT !.start = c]
    <3>2. file' = [file EXCEPT ![x] = e]
      BY <3>1
    <3>3. e.size = 0
      <4>1. file[x] \in Records /\ file[x] \in Opened
        BY DEF Records, Types
      <4>2. Has(fat, file[x].start, file[x].size)
        BY <4>1 DEF Sizes
      <4>3. file[x].size # 0 => 0 \in 0 .. (file[x].size - 1)
        BY <4>1, ConstantsAre DEF Opened
      <4>4. PathOf(fat, 0)[0] \notin Clusters
        BY PathIs, CodesAre
      <4>5. file[x].size = 0
        BY <2>3, <4>2, <4>3, <4>4 DEF Has
      <4> QED BY <4>1, <4>5 DEF Opened
    <3>4. \A y \in Records' : y \in Records \/ y = e
      BY <2>2, <3>2, RecordsFile
    <3> HIDE DEF e
    <3> QED BY <2>2, <2>3, <3>3, <3>4, SizesRecords
  <2>4. CASE /\ UNCHANGED file /\ pc' = "link"
             /\ \E c \in Clusters : WalkTo(file[x].start, c) /\ last' = c
    <3>1. PICK c \in Clusters : WalkTo(file[x].start, c) /\ last' = c
      BY <2>4
    <3>2. fat[c] \notin Clusters
      <4>1. NextCluster(c) = EOC
        BY <3>1 DEF WalkTo
      <4> QED BY <4>1, CodesAre DEF NextCluster
    <3>3. ~ Within(c)
      BY <3>2, NotWithin
    <3>4. Records' = Records
      BY <2>2, <2>4 DEF Records
    <3> QED BY <2>2, <2>4, <3>1, <3>3, <3>4 DEF Sizes, Within
  <2>5. CASE UNCHANGED file /\ pc' \in {"hang", "data"}
    <3>1. Records' = Records
      BY <2>2, <2>5 DEF Records
    <3> QED BY <2>2, <2>5, <3>1, SizesRecords
  <2> QED BY <2>1, <2>3, <2>4, <2>5
<1>7. CASE First
  <2>1. /\ SetNext(new, EOC) \/ UNCHANGED fat
        /\ UNCHANGED <<dir, file, last, new>> /\ pc' = "link" /\ pc = "first"
    BY <1>7 DEF First
  <2>2. ~ Within(new) /\ last = new
    BY <2>1, CodesAre, NotWithin DEF Call
  <2>3. /\ \A e \in Records' : Has(fat', e.start, e.size)
        /\ \A d, e : e \in Records' /\ Leads(fat', e.start, e.size, d) => Within(d)
    BY <2>1, <2>2, SizesTable
  <2>4. ~ Within(last)'
    BY <2>1, <2>2, <2>3 DEF Within
  <2> QED BY <2>1, <2>3, <2>4 DEF Sizes
<1>8. CASE Link
  <2>1. PICK c \in Clusters \cup {BAD} :
          FindFree(c) /\ new' = c /\ (SetNext(last, c) \/ UNCHANGED fat)
    BY <1>8 DEF Link
  <2>2. UNCHANGED <<dir, file>> /\ pc' = "end" /\ ~ Within(last)
    BY <1>8 DEF Link, Sizes
  <2>3. ~ Within(c)
    BY <1>0, <2>1, NotWithin
  <2>4. /\ \A e \in Records' : Has(fat', e.start, e.size)
        /\ \A d, e : e \in Records' /\ Leads(fat', e.start, e.size, d) => Within(d)
    BY <2>1, <2>2, SizesTable
  <2>5. ~ Within(new)'
    BY <2>1, <2>3, <2>4 DEF Within
  <2> QED BY <2>2, <2>4, <2>5 DEF Sizes
<1>9. CASE End
  <2>1. /\ SetNext(new, EOC) \/ UNCHANGED fat
        /\ UNCHANGED <<dir, file>> /\ last' = new /\ pc' = "link" /\ ~ Within(new)
    BY <1>9 DEF End, Sizes
  <2>2. /\ \A e \in Records' : Has(fat', e.start, e.size)
        /\ \A d, e : e \in Records' /\ Leads(fat', e.start, e.size, d) => Within(d)
    BY <2>1, SizesTable
  <2>3. ~ Within(last)'
    BY <2>1, <2>2 DEF Within
  <2> QED BY <2>1, <2>2, <2>3 DEF Sizes
<1>10. CASE Final
  <2>1. /\ SetNext(last, EOC) \/ UNCHANGED fat
        /\ UNCHANGED <<dir, file>> /\ pc' = "data" /\ ~ Within(last)
    BY <1>10 DEF Final, Sizes
  <2>2. \A e \in Records' : Has(fat', e.start, e.size)
    BY <2>1, SizesTable
  <2> QED BY <2>1, <2>2 DEF Sizes
<1>11. CASE Data
  <2>1. UNCHANGED <<fat, dir, file>> /\ pc = "data"
    BY <1>11 DEF Data
  <2>2. Records' = Records
    BY <2>1 DEF Records
  <2>3. \/ pc' = "directory" /\ UNCHANGED call
             /\ \A i \in off .. (end - 1) : PathOf(fat, file[h].start)[i] \in Clusters
        \/ pc' \in {"idle", "panic"}
    BY <1>11, PathNow, ReturnDoes DEF Data
  <2>4. CASE pc' \in {"idle", "panic"}
    BY <2>1, <2>2, <2>4, SizesRecords
  <2>5. CASE pc' = "directory" /\ UNCHANGED call
               /\ \A i \in off .. (end - 1) : PathOf(fat, file[h].start)[i] \in Clusters
    <3>1. /\ off < end /\ off \in Nat /\ end \in Nat /\ end <= Bound
      BY <2>1, ConstantsAre DEF Call, Types
    <3>2. end - 1 \in off .. (end - 1) /\ end - 1 \in 0 .. Bound
      BY <3>1, ConstantsAre
    <3>3. PathOf(fat, file[h].start)[end - 1] \in Clusters
      BY <2>5, <3>2
    <3>4. Has(fat, file[h].start, end)
      BY <3>2, <3>3, PathBack DEF Has
    <3> QED BY <2>1, <2>2, <2>5, <3>4 DEF Sizes
  <2> QED BY <2>3, <2>4, <2>5
<1>12. CASE Directory
  <2>1. /\ h \in Handles /\ end \in 0 .. MaxSize /\ UNCHANGED fat /\ pc' = "idle"
        /\ Has(fat, file[h].start, end) /\ file' = [file EXCEPT ![h].size = end]
        /\ Update(file[h].name, file[h].start, end) \/ UNCHANGED dir
    BY <1>12, ReturnDoes DEF Directory, Call, Types, Sizes
  <2>2. \A x \in Handles : file'[x] = file[x] \/ file'[x] = [file[h] EXCEPT !.size = end]
    BY <2>1 DEF Types
  <2>3. [file[h] EXCEPT !.size = end].start = file[h].start
        /\ [file[h] EXCEPT !.size = end].size = end
    BY <2>1 DEF Types, Opened
  <2>4. \A s \in 1 .. Slots :
          dir'[s] = dir[s] \/ (dir'[s].start = file[h].start /\ dir'[s].size = end)
    BY <2>1 DEF Update, Types
  <2>5. \A e \in Records' : e \in Records \/ Has(fat, e.start, e.size)
    <3>1. \A x \in Handles : file'[x] \in Records \/ Has(fat, file'[x].start, file'[x].size)
      BY <2>1, <2>2, <2>3 DEF Records
    <3>2. ASSUME NEW s \in 1 .. Slots PROVE dir'[s] \in Records \/ Has(fat, dir'[s].start, dir'[s].size)
      <4>1. CASE dir'[s] = dir[s]
        BY <4>1 DEF Records
      <4>2. CASE dir'[s].start = file[h].start /\ dir'[s].size = end
        BY <2>1, <4>2
      <4> QED BY <2>4, <4>1, <4>2
    <3>3. \A e \in Records' : \/ \E x \in Handles : e = file'[x]
                             \/ \E s \in 1 .. Slots : e = dir'[s]
      BY DEF Records
    <3> QED BY <3>1, <3>2, <3>3
  <2> QED BY <2>1, <2>5, SizesRecords
<1>13. CASE Restart
  <2>1. UNCHANGED <<fat, dir>> /\ file' = [x \in Handles |-> Closed] /\ pc' = "idle"
    BY <1>13, ReturnDoes DEF Restart
  <2>2. \A e \in Records' : e \in Records \/ e.size = 0
    BY <2>1 DEF Records, Closed
  <2> QED BY <2>1, <2>2, SizesRecords
<1>14. CASE UNCHANGED vars
  BY <1>14 DEF vars, Sizes, Records, Within
<1> QED BY <1>1, <1>2, <1>3, <1>4, <1>5, <1>6, <1>7, <1>8, <1>9, <1>10, <1>11, <1>12, <1>13,
           <1>14 DEF Next
-------------------------------------------------------------------------------
(* Chains.                                                                 *)

LEMMA StartsSame ==
  ASSUME UNCHANGED <<dir, file>>
  PROVE  Starts' = Starts /\ Tops' = Tops
BY DEF Starts, Tops, Used

LEMMA StartsAre ==
  /\ Root \in Starts /\ Root \in Tops /\ Starts \subseteq Clusters /\ Tops \subseteq Starts
  /\ \A s \in 1 .. Slots : Used(s) /\ dir[s].start \in Clusters
                             => dir[s].start \in Tops /\ dir[s].start \in Starts
  /\ \A x \in Handles : file[x].start \in Clusters => file[x].start \in Starts
BY CodesAre DEF Starts, Tops

\* The table stays, and no chain begins where none has begun.
LEMMA ChainsKept ==
  ASSUME Chains, UNCHANGED fat, Starts' \subseteq Starts, pc # "end",
         \A s \in Starts' : fat[s] # FREE,
         pc' \notin {"link", "end"}
  PROVE  Chains'
BY DEF Chains

\* Where there is no write under way, chains begin at clusters that are taken.
LEMMA StartsTaken ==
  ASSUME Chains, pc # "first"
  PROVE  \A s \in Starts : fat[s] # FREE
BY DEF Chains

\* A cluster becomes the end of a chain.
LEMMA ChainEnds ==
  ASSUME Types, Chains, NEW c \in Clusters \cup {0, BAD},
         \/ SetNext(c, EOC)
         \/ UNCHANGED fat /\ c = BAD
         \/ UNCHANGED fat /\ pc \notin {"first", "end"} /\ pc' # "link",
         pc \in {"first", "end"} => c = new,
         UNCHANGED <<dir, file>>, pc' \notin {"first", "end"},
         pc' = "link" => last' = c
  PROVE  Chains'
<1>1. Starts' = Starts /\ Tops' = Tops /\ Starts \subseteq Clusters
  BY StartsSame, StartsAre
<1>2. CASE SetNext(c, EOC)
  <2>1. /\ c \in Clusters /\ fat'[c] = EOC /\ EOC # FREE /\ EOC \notin Clusters
        /\ \A d \in Clusters \ {c} : fat'[d] = fat[d]
    BY <1>2, CodesAre DEF SetNext, Types, Table
  <2>2. ASSUME NEW x \in Clusters, fat'[x] \in Clusters
        PROVE  /\ fat'[fat'[x]] # FREE
               /\ \A d \in Clusters : fat'[d] = fat'[x] => d = x
               /\ fat'[x] \notin Starts
    <3>1. x # c /\ fat'[x] = fat[x]
      BY <2>1, <2>2
    <3>2. /\ fat[fat[x]] # FREE \/ fat[x] = c
          /\ \A d \in Clusters : fat[d] = fat[x] => d = x
          /\ fat[x] \notin Starts
      BY <2>2, <3>1 DEF Chains
    <3>3. fat'[fat[x]] # FREE
      BY <2>1, <2>2, <3>1, <3>2
    <3>4. \A d \in Clusters : fat'[d] = fat'[x] => d = x
      BY <2>1, <2>2, <3>1, <3>2
    <3> QED BY <3>1, <3>2, <3>3, <3>4
  <2>3. ASSUME NEW s \in Starts PROVE fat'[s] # FREE
    <3>1. fat[s] # FREE \/ s = c
      BY DEF Chains
    <3> QED BY <1>1, <2>1, <3>1
  <2> QED BY <1>1, <2>1, <2>2, <2>3 DEF Chains
<1>3. CASE UNCHANGED fat /\ c = BAD
  <2>1. c \notin Clusters
    BY <1>3, CodesAre
  <2>2. ASSUME NEW x \in Clusters, fat[x] \in Clusters
        PROVE  /\ fat[fat[x]] # FREE
               /\ \A d \in Clusters : fat[d] = fat[x] => d = x
               /\ fat[x] \notin Starts
    BY <2>1, <2>2 DEF Chains
  <2>3. ASSUME NEW s \in Starts PROVE fat[s] # FREE
    BY <1>1, <2>1 DEF Chains
  <2> QED BY <1>1, <1>3, <2>1, <2>2, <2>3 DEF Chains
<1>4. CASE UNCHANGED fat /\ pc \notin {"first", "end"} /\ pc' # "link"
  BY <1>1, <1>4 DEF Chains
<1> QED BY <1>2, <1>3, <1>4

\* A free cluster is linked behind the last one of a chain.
LEMMA ChainLinks ==
  ASSUME Types, Chains, NEW c \in Clusters \cup {BAD}, FindFree(c),
         SetNext(last, c) \/ UNCHANGED fat,
         UNCHANGED <<dir, file>>, pc = "link", pc' = "end", new' = c
  PROVE  Chains'
<1>1. Starts' = Starts /\ Tops' = Tops /\ Starts \subseteq Clusters
  BY StartsSame, StartsAre
<1>2. \A s \in Starts : fat[s] # FREE
  BY StartsTaken
<1>3. \A x \in Clusters : fat[x] \in Clusters =>
        /\ fat[fat[x]] # FREE
        /\ \A d \in Clusters : fat[d] = fat[x] => d = x
        /\ fat[x] \notin Starts
  BY DEF Chains
<1>4. c \in Clusters => fat[c] = FREE
  BY CodesAre DEF FindFree
<1>5. CASE UNCHANGED fat \/ c = BAD
  <2>1. UNCHANGED fat
    <3>1. CASE SetNext(last, c) /\ c = BAD
      BY <3>1 DEF SetNext, Chains, Types, Table
    <3> QED BY <1>5, <3>1
  <2> QED BY <1>1, <1>2, <1>3, <1>4, <2>1 DEF Chains
<1>6. CASE SetNext(last, c) /\ c # BAD
  <2>1. /\ last \in Clusters /\ c \in Clusters /\ fat[last] = EOC /\ fat[c] = FREE /\ c # last
        /\ fat'[last] = c /\ EOC # FREE /\ EOC \notin Clusters /\ FREE \notin Clusters
        /\ \A d \in Clusters \ {last} : fat'[d] = fat[d]
    BY <1>4, <1>6, CodesAre DEF SetNext, Chains, Types, Table
  <2>2. ASSUME NEW x \in Clusters, fat'[x] \in Clusters
        PROVE  /\ fat'[fat'[x]] # FREE \/ fat'[x] = c
               /\ \A d \in Clusters : fat'[d] = fat'[x] => d = x
               /\ fat'[x] \notin Starts
    <3>1. CASE x = last
      <4>1. ASSUME NEW d \in Clusters, fat'[d] = c PROVE d = last
        <5>1. CASE d # last
          BY <1>3, <2>1, <4>1, <5>1
        <5> QED BY <5>1
      <4> QED BY <1>2, <2>1, <3>1, <4>1
    <3>2. CASE x # last
      <4>1. fat'[x] = fat[x]
        BY <2>1, <3>2
      <4>2. /\ fat[fat[x]] # FREE /\ fat[x] \notin Starts /\ fat[x] # c
            /\ \A d \in Clusters : fat[d] = fat[x] => d = x
        BY <1>3, <2>1, <2>2, <4>1
      <4>3. fat'[fat[x]] # FREE
        <5>1. CASE fat[x] = last
          BY <2>1, <5>1, CodesAre
        <5>2. CASE fat[x] # last
          BY <2>1, <2>2, <4>1, <4>2, <5>2
        <5> QED BY <5>1, <5>2
      <4>4. \A d \in Clusters : fat'[d] = fat[x] => d = x
        BY <2>1, <4>2
      <4> QED BY <4>1, <4>2, <4>3, <4>4
    <3> QED BY <3>1, <3>2
  <2>3. ASSUME NEW s \in Starts PROVE fat'[s] # FREE
    <3>1. CASE s = last
      BY <2>1, <3>1
    <3>2. CASE s # last
      BY <1>1, <1>2, <2>1, <3>2
    <3> QED BY <3>1, <3>2
  <2>4. fat'[c] = FREE
    BY <2>1
  <2>5. new' = c /\ pc' = "end"
    OBVIOUS
  <2> QED BY <1>1, <2>2, <2>3, <2>4, <2>5 DEF Chains
<1> QED BY <1>5, <1>6

\* A file without a chain gets a first cluster.
LEMMA ChainBegins ==
  ASSUME Types, Types', Chains, NEW x \in Handles, NEW c \in Clusters \cup {BAD}, FindFree(c),
         file' = [file EXCEPT ![x].start = c], UNCHANGED <<fat, dir>>,
         pc = "idle", pc' = "first", new' = c
  PROVE  Chains'
<1>1. /\ Starts' \subseteq Starts \cup ({c} \cap Clusters) /\ Tops' = Tops
      /\ Starts \subseteq Clusters /\ Tops \subseteq Starts
  <2>1. \A y \in Handles : file'[y].start = file[y].start \/ file'[y].start = c
    BY DEF Types, Opened
  <2>2. Tops' = Tops
    BY DEF Tops, Used
  <2> QED BY <2>1, <2>2, StartsAre DEF Starts, Used
<1>2. \A s \in Starts : fat[s] # FREE
  BY StartsTaken
<1>3. c \in Clusters => fat[c] = FREE
  BY CodesAre DEF FindFree
<1>4. ASSUME NEW d \in Clusters, fat[d] \in Clusters
      PROVE  /\ fat[fat[d]] # FREE /\ \A e \in Clusters : fat[e] = fat[d] => e = d
             /\ fat[d] \notin Starts'
  BY <1>1, <1>3, <1>4 DEF Chains
<1>5. ASSUME NEW s \in Starts' PROVE fat[s] # FREE \/ (s = c /\ s \notin Tops)
  BY <1>1, <1>2, <1>3
<1> QED BY <1>1, <1>4, <1>5 DEF Chains
LEMMA ChainsStep ==
  ASSUME Types, Types', Call, Sizes, Chains, ~ torn, ~ torn', [Next]_vars
  PROVE  Chains'
<1> USE DEF volume, call
<1>0. /\ Starts \subseteq Clusters /\ Tops \subseteq Starts
      /\ pc # "first" => \A s \in Starts : fat[s] # FREE
  BY StartsAre, StartsTaken
<1>1. CASE Open
  <2>1. PICK x \in Handles, s \in 1 .. Slots : Used(s) /\ file' = [file EXCEPT ![x] = dir[s]]
    BY <1>1 DEF Open
  <2>2. UNCHANGED <<fat, dir, pc>> /\ pc = "idle"
    BY <1>1 DEF Open
  <2>3. \A y \in Handles : file'[y] = file[y] \/ file'[y] = dir[s]
    BY <2>1 DEF Types
  <2>4. Starts' \subseteq Starts
    BY <2>1, <2>2, <2>3 DEF Starts, Used
  <2> QED BY <1>0, <2>2, <2>4, ChainsKept
<1>2. CASE Read
  <2>1. UNCHANGED <<fat, dir, file>> /\ pc = "idle" /\ pc' \in {"idle", "panic"}
    BY <1>2 DEF Read
  <2> QED BY <1>0, <2>1, StartsSame, ChainsKept
<1>3. CASE Create
  <2>1. PICK n \in Names, s \in 1 .. (Slots - 1) :
          dir' = [dir EXCEPT ![s] = [NoEntry EXCEPT !.name = n]]
    BY <1>3 DEF Create
  <2>2. UNCHANGED <<fat, file>> /\ pc = "idle" /\ pc' = "allocate"
    BY <1>3 DEF Create
  <2>3. \A t \in 1 .. Slots : dir'[t] = dir[t] \/ dir'[t].start \notin Clusters
    BY <2>1, CodesAre DEF Types, NoEntry
  <2>4. Starts' \subseteq Starts
    BY <2>2, <2>3 DEF Starts, Used
  <2> QED BY <1>0, <2>2, <2>4, ChainsKept
<1>4. CASE CreateCluster
  <2>1. PICK c \in Clusters \cup {BAD} :
          (SetNext(c, EOC) \/ UNCHANGED fat) /\ pc' \in {"stray", "idle"}
    BY <1>4, ReturnDoes DEF CreateCluster
  <2>2. UNCHANGED <<dir, file>> /\ pc = "allocate"
    BY <1>4 DEF CreateCluster
  <2> QED BY <2>1, <2>2, ChainEnds
<1>5. CASE CreateUpdate
  <2>1. /\ UNCHANGED <<fat, file>> /\ pc = "stray" /\ pc' = "idle"
        /\ \/ \E s \in 1 .. Slots :
                dir' = [dir EXCEPT ![s] = [name |-> NULL, start |-> new, size |-> 0]]
           \/ UNCHANGED dir
    BY <1>5, ReturnDoes DEF CreateUpdate, Update
  <2>2. \A t \in 1 .. Slots : dir'[t] = dir[t] \/ dir'[t].name = NULL
    BY <2>1 DEF Types
  <2>3. Starts' \subseteq Starts
    BY <2>1, <2>2 DEF Starts, Used
  <2> QED BY <1>0, <2>1, <2>3, ChainsKept
<1>6. CASE Write
  <2>1. PICK x \in Handles :
          \/ \E c \in Clusters \cup {BAD} :
               /\ FindFree(c) /\ new' = c /\ file' = [file EXCEPT ![x].start = c]
               /\ pc' = "first"
          \/ /\ UNCHANGED file /\ pc' = "link"
             /\ \E c \in Clusters : WalkTo(file[x].start, c) /\ last' = c
          \/ UNCHANGED file /\ pc' \in {"hang", "data"}
    BY <1>6 DEF Write
  <2>2. UNCHANGED <<fat, dir>> /\ pc = "idle"
    BY <1>6 DEF Write
  <2>3. CASE \E c \in Clusters \cup {BAD} :
               /\ FindFree(c) /\ new' = c /\ file' = [file EXCEPT ![x].start = c]
               /\ pc' = "first"
    BY <2>2, <2>3, ChainBegins
  <2>4. CASE /\ UNCHANGED file /\ pc' = "link"
             /\ \E c \in Clusters : WalkTo(file[x].start, c) /\ last' = c
    <3>1. fat[last'] = EOC
      <4>1. PICK c \in Clusters : NextCluster(c) = EOC /\ last' = c
        BY <2>4 DEF WalkTo
      <4> QED BY <4>1, CodesAre DEF NextCluster
    <3>2. Starts' = Starts
      BY <2>2, <2>4, StartsSame
    <3> QED BY <1>0, <2>2, <2>4, <3>1, <3>2 DEF Chains
  <2>5. CASE UNCHANGED file /\ pc' \in {"hang", "data"}
    BY <1>0, <2>2, <2>5, StartsSame, ChainsKept
  <2> QED BY <2>1, <2>3, <2>4, <2>5
<1>7. CASE First
  <2>1. /\ SetNext(new, EOC) \/ (UNCHANGED fat /\ new = BAD)
        /\ UNCHANGED <<dir, file, last, new>> /\ pc = "first" /\ pc' = "link" /\ last = new
    BY <1>7 DEF First, Call
  <2> QED BY <2>1, ChainEnds DEF Types
<1>8. CASE Link
  <2>1. PICK c \in Clusters \cup {BAD} :
          FindFree(c) /\ new' = c /\ (SetNext(last, c) \/ UNCHANGED fat)
    BY <1>8 DEF Link
  <2>2. UNCHANGED <<dir, file>> /\ pc = "link" /\ pc' = "end"
    BY <1>8 DEF Link
  <2> QED BY <2>1, <2>2, ChainLinks
<1>9. CASE End
  <2>1. /\ SetNext(new, EOC) \/ (UNCHANGED fat /\ new = BAD)
        /\ UNCHANGED <<dir, file, new>> /\ pc = "end" /\ pc' = "link" /\ last' = new
    BY <1>9 DEF End
  <2> QED BY <2>1, ChainEnds DEF Types
<1>10. CASE Final
  <2>1. /\ SetNext(last, EOC) \/ UNCHANGED fat
        /\ UNCHANGED <<dir, file>> /\ pc = "link" /\ pc' = "data"
    BY <1>10 DEF Final
  <2> QED BY <2>1, ChainEnds DEF Types
<1>11. CASE Data
  <2>1. /\ UNCHANGED <<fat, dir, file>> /\ pc = "data"
        /\ pc' \in {"directory", "panic", "idle"}
    BY <1>11, ReturnDoes DEF Data
  <2> QED BY <1>0, <2>1, StartsSame, ChainsKept
<1>12. CASE Directory
  <2>1. /\ h \in Handles /\ UNCHANGED fat /\ pc = "directory" /\ pc' = "idle"
        /\ file' = [file EXCEPT ![h].size = end]
        /\ Update(file[h].name, file[h].start, end) \/ UNCHANGED dir
    BY <1>12, ReturnDoes DEF Directory, Call
  <2>2. \A x \in Handles : file'[x].start = file[x].start
    BY <2>1 DEF Types, Opened
  <2>3. \A s \in 1 .. Slots : dir'[s] = dir[s] \/ dir'[s].start = file[h].start
    BY <2>1 DEF Update, Types
  <2>4. Starts' \subseteq Starts
    BY <2>1, <2>2, <2>3 DEF Starts, Used
  <2> QED BY <1>0, <2>1, <2>4, ChainsKept
<1>13. CASE Restart
  <2>1. UNCHANGED <<fat, dir>> /\ file' = [x \in Handles |-> Closed] /\ pc' = "idle" /\ pc # "end"
    BY <1>13, ReturnDoes DEF Restart
  <2>2. \A x \in Handles : file'[x].start \notin Clusters
    BY <2>1, CodesAre DEF Closed
  <2>3. Starts' \subseteq Tops
    BY <2>1, <2>2 DEF Starts, Tops, Used
  <2>4. \A s \in Tops : fat[s] # FREE
    BY <1>0 DEF Chains
  <2> QED BY <1>0, <2>1, <2>3, <2>4, ChainsKept
<1>14. CASE UNCHANGED vars
  <2>1. UNCHANGED <<fat, dir, file, pc, last, new>>
    BY <1>14 DEF vars
  <2>2. Starts' = Starts /\ Tops' = Tops
    BY <2>1, StartsSame
  <2> QED BY <2>1, <2>2 DEF Chains
<1> QED BY <1>1, <1>2, <1>3, <1>4, <1>5, <1>6, <1>7, <1>8, <1>9, <1>10, <1>11, <1>12, <1>13,
           <1>14 DEF Next

-------------------------------------------------------------------------------
(* The theorems.                                                           *)

LEMMA InitHolds == Init => IInv
<1> SUFFICES ASSUME Init PROVE IInv
  OBVIOUS
<1>1. PICK n \in Names :
        dir = [s \in 1 .. Slots |->
                 IF s = 1 THEN [name |-> n, start |-> Root + 1, size |-> 1] ELSE NoEntry]
  BY DEF Init
<1>2. /\ fat = [c \in Clusters |-> IF c <= Root + 1 THEN EOC ELSE FREE]
      /\ file = [x \in Handles |-> Closed] /\ pc = "idle"
      /\ h = NULL /\ off = 0 /\ end = 0 /\ last = 0 /\ new = 0 /\ todo = 0 /\ torn = FALSE
  BY DEF Init
<1>3. /\ 0 \in 0 .. MaxSize /\ 1 \in 0 .. MaxSize /\ 0 \in 0 .. (Word - 1)
      /\ Root <= Root + 1 /\ Root + 1 <= Root + 1
  BY ConstantsAre, CodesAre DEF Root
<1>4. Types
  <2>1. [name |-> n, start |-> Root + 1, size |-> 1] \in Entries
    BY <1>3, CodesAre DEF Entries
  <2>2. fat \in Table
    BY <1>2 DEF Table
  <2> QED BY <1>1, <1>2, <1>3, <2>1, <2>2, ClosedIs DEF Types
<1>5. Call
  BY <1>2 DEF Call
<1>6. Sizes
  <2>1. \A e \in Records : e.size = 0 \/ (e.size = 1 /\ e.start \in Clusters)
    BY <1>1, <1>2, CodesAre DEF Records, NoEntry, Closed
  <2>2. ASSUME NEW e \in Records PROVE Has(fat, e.start, e.size)
    <3>1. PathOf(fat, e.start)[0] = e.start
      BY PathIs
    <3>2. \A i \in 0 .. (1 - 1) : i = 0
      OBVIOUS
    <3>3. CASE e.size = 0
      BY <3>3 DEF Has
    <3>4. CASE e.size = 1 /\ e.start \in Clusters
      BY <3>1, <3>2, <3>4 DEF Has
    <3> QED BY <2>1, <3>3, <3>4
  <2> QED BY <1>2, <2>2 DEF Sizes
<1>7. Chains
  <2>1. \A c \in Clusters : fat[c] \notin Clusters
    BY <1>2, CodesAre
  <2>2. \A s \in Starts : s = Root \/ s = Root + 1
    BY <1>1, <1>2, CodesAre DEF Starts, NoEntry, Closed
  <2>3. fat[Root] = EOC /\ fat[Root + 1] = EOC /\ EOC # FREE
    BY <1>2, <1>3, CodesAre
  <2> QED BY <1>2, <2>1, <2>2, <2>3 DEF Chains
<1> QED BY <1>4, <1>5, <1>6, <1>7 DEF IInv

LEMMA StepHolds == IInv /\ [Next]_vars => IInv'
<1> SUFFICES ASSUME IInv, [Next]_vars PROVE IInv'
  OBVIOUS
<1>1. Types' /\ Call'
  BY TypesStep DEF IInv
<1>2. Sizes'
  BY <1>1, SizesStep DEF IInv
<1>3. ~ torn' => ~ torn
  BY DEF Next, vars, Open, Read, Create, CreateCluster, CreateUpdate, Write, First, Link, End,
         Final, Data, Directory, Restart
<1>4. ~ torn' => Chains'
  BY <1>1, <1>3, ChainsStep DEF IInv
<1> QED BY <1>1, <1>2, <1>4 DEF IInv

\* Whatever fails, no size leads through a table entry that is still to be
\* written; and as long as no end of a chain was left unwritten, every link leads
\* to a cluster that is taken, and no two links, nor a link and a file, to one.
THEOREM Fat32Invariant == Spec => []IInv
<1>1. Init => IInv
  BY InitHolds
<1>2. IInv /\ [Next]_vars => IInv'
  BY StepHolds
<1> QED BY <1>1, <1>2, PTL DEF Spec

\* The types of the driver's state (fat32.c): its loop that adds clusters ends.
THEOREM Fat32TypeOK == Spec => []TypeOK
<1>1. IInv => TypeOK
  <2> SUFFICES ASSUME Types PROVE TypeOK
    BY DEF IInv
  <2> DEFINE E == [name : Names \cup {NULL}, start : Clusters \cup {0}, size : 0 .. MaxSize]
  <2>1. ASSUME NEW x \in Handles
        PROVE  file[x] \in E \/ [file[x] EXCEPT !.start = 0] \in E
    BY DEF Types, Opened
  <2> QED BY <2>1 DEF Types, TypeOK, Table, Entries
<1> QED BY <1>1, Fat32Invariant, PTL

\* No file, open or in the directory, has a size its chain has no clusters for
\* (fat32_write updates the size last), whichever writes fail.
THEOREM SizesAreCovered == Spec => []SizeCovered
<1>1. IInv => SizeCovered
  BY PathNow DEF IInv, Sizes, Has, Records, SizeCovered
<1> QED BY <1>1, Fat32Invariant, PTL

\* Unless the write that ends a chain fails or power is lost just before it,
\* chains end and share no cluster (fat32_write, allocate_file_cluster).
THEOREM ChainsAreSound == Spec => []ChainsSound
<1>1. IInv => ChainsSound
  <2> SUFFICES ASSUME IInv, ~ torn, pc \notin {"first", "end"}, NEW c \in Starts
               PROVE  /\ ~ Endless(c)
                      /\ \A d \in Starts \ {c} : Chain(c) \cap Chain(d) = {}
    BY DEF ChainsSound
  <2>1. Chains /\ fat \in Table
    BY DEF IInv, Types
  <2>2. Sound(fat) /\ \A s \in Starts : Begins(fat, s)
    BY <2>1, StartsAre, StartsTaken DEF Sound, Begins, Chains
  <2>3. ~ Endless(c)
    <3>1. PICK k \in 0 .. TotalClusters : /\ PathOf(fat, c)[k] \in Clusters
                                          /\ fat[PathOf(fat, c)[k]] = EOC
      BY <2>1, <2>2, PathEnds
    <3> DEFINE e == PathOf(fat, c)[k]
    <3>2. NextCluster(e) = EOC
      BY <3>1, CodesAre DEF NextCluster
    <3> QED BY <3>1, <3>2, PathNow DEF Endless, WalkTo
  <2>4. ASSUME NEW d \in Starts \ {c}, NEW e \in Chain(c) \cap Chain(d) PROVE FALSE
    <3>1. PICK i \in 0 .. TotalClusters : e = PathOf(fat, c)[i]
      BY PathNow DEF Chain
    <3>2. PICK j \in 0 .. TotalClusters : e = PathOf(fat, d)[j]
      BY PathNow DEF Chain
    <3>3. i \in 0 .. Bound /\ j \in 0 .. Bound /\ e \in Clusters
      BY ConstantsAre DEF Chain
    <3>4. /\ Sound(fat) /\ Begins(fat, c) /\ Begins(fat, d) /\ c # d
          /\ PathOf(fat, c)[i] \in Clusters /\ PathOf(fat, c)[i] = PathOf(fat, d)[j]
      BY <2>2, <3>1, <3>2, <3>3
    <3>5. c = d
      BY <3>3, <3>4, PathsApart
    <3> QED BY <3>4, <3>5
  <2> QED BY <2>3, <2>4
<1> QED BY <1>1, Fat32Invariant, PTL
===============================================================================
