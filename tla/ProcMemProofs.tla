----------------------------- MODULE ProcMemProofs -----------------------------
(***************************************************************************)
(* The safety of ProcMem for every memory, alignment and block size, every *)
(* number of processes, program size and number of ASIDs; and of Memory,   *)
(* where its pages come from the free list of paging.c.                    *)
(*                                                                         *)
(* Frames change hands in eight ways (section 2); each keeps the part of   *)
(* the invariant about memory, MemInv.  Section 3 adds what the kernel     *)
(* knows at each place of its path, section 4 has one lemma per action or  *)
(* for a few similar ones, and the theorems follow.  Section 7 is about    *)
(* the composition: Memory uses the list as it is meant to be used, each   *)
(* of its steps is a step of Paging.                                       *)
(***************************************************************************)
EXTENDS Memory, FiniteSetTheorems, SequenceTheorems, TLAPS

(* 1. The memory part of the invariant.                                    *)

\* OneOwner, one process at a time.
Owned(p) == FramesOf(p) \cup TableOf(p) \cup Level2Of(p)
Owners ==
  /\ free \cap lost = {}
  /\ \A p \in Procs : \A x \in Owned(p) : x \notin free /\ x \notin lost
  /\ \A p, q \in Procs : \A x \in FramesOf(p) : x \notin TableOf(q) /\ x \notin Level2Of(q)
  /\ \A p, q \in Procs : \A x \in TableOf(p) : x \notin Level2Of(q)
  /\ \A p, q \in Procs : p # q => \A x \in TableOf(p) : x \notin TableOf(q)
  /\ \A p, q \in Procs : p # q => \A x \in Level2Of(p) : x \notin Level2Of(q)
OnePlace ==
  \A p, q \in Procs, v, w \in VAs :
    pages[p][v] # NULL /\ pages[p][v] = pages[q][w] => v = w /\ (p # q => v <= MaxCode)

\* Accounted, one frame at a time.
AllOwned == \A x \in Frames : x \in free \/ x \in lost \/ \E p \in Procs : x \in Owned(p)

\* What belongs to a process is held: it may be given back.
Held ==
  /\ \A p \in Procs, v \in VAs : pages[p][v] # NULL => <<pages[p][v], 1>> \in held
  /\ \A p \in Procs : ttbr0[p] # NULL => /\ <<ttbr0[p], BlockPages>> \in held
                                         /\ Block(ttbr0[p]) \subseteq Frames

MemInv == Owners /\ OnePlace /\ RefCountCovers /\ AllOwned /\ Held

-------------------------------------------------------------------------------
(* Basic facts.                                                            *)

\* The constants as numbers.
LEMMA Numbers ==
  /\ BlockPages \in Nat /\ BlockPages >= 2
  /\ MaxProcesses \in Nat /\ MaxProcesses >= 2 /\ 0 \in Procs
  /\ MaxCode \in Nat /\ MaxCode >= 1 /\ MaxAsid \in Nat /\ MaxAsid >= 1
  /\ Frames \subseteq Int /\ NULL \notin Int /\ NULL \notin Frames
  /\ Heap = MaxCode + 1 /\ Stack = MaxCode + 2 /\ VAs = 1 .. (MaxCode + 2)
  /\ Heap \in VAs /\ Stack \in VAs /\ Heap \in Sections /\ Stack \in Sections
  /\ 1 \in Sections /\ 1 .. MaxCode \subseteq VAs
<1>1. /\ BlockPages \in Nat /\ BlockPages >= 2
      /\ MaxProcesses \in Nat /\ MaxProcesses >= 2 /\ 0 \in Procs
      /\ MaxCode \in Nat /\ MaxCode >= 1 /\ MaxAsid \in Nat /\ MaxAsid >= 1
  BY ProcMemAssumption DEF Procs
<1>2. Frames \subseteq Int /\ NULL \notin Int /\ NULL \notin Frames
  BY ProcMemAssumption
<1>3. Heap = MaxCode + 1 /\ Stack = MaxCode + 2 /\ VAs = 1 .. (MaxCode + 2)
  BY DEF Heap, Stack, VAs
<1>4. Heap \in VAs /\ Stack \in VAs /\ 1 .. MaxCode \subseteq VAs
  BY <1>1, <1>3
<1>5. Heap \in Sections /\ Stack \in Sections /\ 1 \in Sections
  BY DEF Sections
<1> QED BY <1>1, <1>2, <1>3, <1>4, <1>5

LEMMA BlockFacts ==
  ASSUME NEW b \in Int PROVE b \in Block(b) /\ Block(b) \subseteq Int
BY Numbers DEF Block

\* What the sets of a process are.
LEMMA FramesAre ==
  ASSUME NEW p PROVE \A x : x \in FramesOf(p) <=> x # NULL /\ \E v \in VAs : x = pages[p][v]
BY DEF FramesOf

LEMMA TableIs ==
  ASSUME NEW p PROVE \A x : x \in TableOf(p) <=> ttbr0[p] # NULL /\ x \in Block(ttbr0[p])
BY DEF TableOf

LEMMA Level2Is ==
  ASSUME NEW p
  PROVE  \A x : x \in Level2Of(p) <=> /\ ttbr0[p] # NULL /\ x # NULL
                                      /\ \E s \in Sections : x = level2[ttbr0[p]][s]
BY DEF Level2Of

LEMMA OneOwnerIs == OneOwner <=> Owners /\ OnePlace
<1>1. /\ UserFrames = UNION {FramesOf(p) : p \in Procs}
      /\ TableFrames = UNION {TableOf(p) : p \in Procs}
      /\ Level2Frames = UNION {Level2Of(p) : p \in Procs}
  BY DEF UserFrames, TableFrames, Level2Frames
<1>2. ASSUME OneOwner PROVE Owners
  <2>1. free \cap lost = {}
    BY <1>2 DEF OneOwner
  <2>2. \A p \in Procs : \A x \in Owned(p) : x \notin free /\ x \notin lost
    BY <1>1, <1>2 DEF OneOwner, Owned
  <2>3. \A p, q \in Procs : \A x \in FramesOf(p) : x \notin TableOf(q) /\ x \notin Level2Of(q)
    BY <1>1, <1>2 DEF OneOwner
  <2>4. \A p, q \in Procs : \A x \in TableOf(p) : x \notin Level2Of(q)
    BY <1>1, <1>2 DEF OneOwner
  <2>5. \A p, q \in Procs : p # q => \A x \in TableOf(p) : x \notin TableOf(q)
    BY <1>2 DEF OneOwner
  <2>6. \A p, q \in Procs : p # q => \A x \in Level2Of(p) : x \notin Level2Of(q)
    BY <1>2 DEF OneOwner
  <2> QED BY <2>1, <2>2, <2>3, <2>4, <2>5, <2>6 DEF Owners
<1>3. ASSUME OneOwner PROVE OnePlace
  <2> SUFFICES ASSUME NEW p \in Procs, NEW q \in Procs, NEW v \in VAs, NEW w \in VAs,
                      pages[p][v] # NULL, pages[p][v] = pages[q][w]
               PROVE  v = w /\ (p # q => v <= MaxCode)
    BY DEF OnePlace
  <2>1. CASE p = q
    BY <2>1, <1>3 DEF OneOwner
  <2>2. CASE p # q
    BY <2>2, <1>3 DEF OneOwner
  <2> QED BY <2>1, <2>2
<1>4. ASSUME Owners, OnePlace PROVE OneOwner
  <2>1. free \cap (lost \cup UserFrames \cup TableFrames \cup Level2Frames) = {}
    BY <1>1, <1>4 DEF Owners, Owned
  <2>2. lost \cap (UserFrames \cup TableFrames \cup Level2Frames) = {}
    BY <1>1, <1>4 DEF Owners, Owned
  <2>3. UserFrames \cap (TableFrames \cup Level2Frames) = {}
    BY <1>1, <1>4 DEF Owners
  <2>4. TableFrames \cap Level2Frames = {}
    BY <1>1, <1>4 DEF Owners
  <2>5. \A p, q \in Procs : p # q =>
          /\ TableOf(p) \cap TableOf(q) = {}
          /\ Level2Of(p) \cap Level2Of(q) = {}
          /\ \A v, w \in VAs : pages[p][v] # NULL /\ pages[p][v] = pages[q][w]
                               => v = w /\ v <= MaxCode
    <3>1. \A p, q \in Procs : p # q =>
            TableOf(p) \cap TableOf(q) = {} /\ Level2Of(p) \cap Level2Of(q) = {}
      BY <1>4 DEF Owners
    <3>2. \A p, q \in Procs : p # q =>
            \A v, w \in VAs : pages[p][v] # NULL /\ pages[p][v] = pages[q][w]
                              => v = w /\ v <= MaxCode
      BY <1>4 DEF OnePlace
    <3> QED BY <3>1, <3>2
  <2>6. \A p \in Procs, v, w \in VAs :
          pages[p][v] # NULL /\ pages[p][v] = pages[p][w] => v = w
    BY <1>4 DEF OnePlace
  <2> QED BY <2>1, <2>2, <2>3, <2>4, <2>5, <2>6 DEF OneOwner
<1> QED BY <1>2, <1>3, <1>4

LEMMA AccountedIs ==
  ASSUME TypeOK, Held, AllOwned PROVE Accounted
<1>1. ASSUME NEW x \in Frames
      PROVE  x \in free \cup lost \cup UserFrames \cup TableFrames \cup Level2Frames
  BY <1>1 DEF AllOwned, Owned, UserFrames, TableFrames, Level2Frames
<1>2. ASSUME NEW p \in Procs PROVE Owned(p) \subseteq Frames
  <2>1. FramesOf(p) \subseteq Frames
    BY FramesAre DEF TypeOK
  <2>2. TableOf(p) \subseteq Frames
    BY TableIs DEF Held
  <2>3. Level2Of(p) \subseteq Frames
    BY Level2Is DEF TypeOK
  <2> QED BY <2>1, <2>2, <2>3 DEF Owned
<1>3. UserFrames \cup TableFrames \cup Level2Frames \subseteq Frames
  BY <1>2 DEF Owned, UserFrames, TableFrames, Level2Frames
<1> QED BY <1>1, <1>3 DEF Accounted, TypeOK

\* Finitely many processes hold a frame.
LEMMA HoldersFinite ==
  ASSUME NEW S \in SUBSET Procs
  PROVE  /\ IsFiniteSet(S) /\ Cardinality(S) \in Nat
         /\ \A T \in SUBSET S : Cardinality(T) <= Cardinality(S)
<1>1. IsFiniteSet(Procs)
  <2>1. MaxProcesses - 1 \in Int /\ 0 \in Int
    BY Numbers
  <2> QED BY <2>1, FS_Interval DEF Procs
<1>2. IsFiniteSet(S)
  BY <1>1, FS_Subset
<1> QED BY <1>2, FS_Subset, FS_CardinalityType

-------------------------------------------------------------------------------
(* 2. How frames change hands.                                             *)

\* Process c gets user pages F, table pages T or level-2 pages L from the free
\* frames, or shares user pages; frames that leave a process are free or lost.
Gains(c, F, T, L) ==
  /\ \A q \in Procs : q # c => /\ FramesOf(q)' = FramesOf(q)
                               /\ TableOf(q)' = TableOf(q)
                               /\ Level2Of(q)' = Level2Of(q)
  /\ F \cup T \cup L \subseteq free /\ (F \cup T \cup L) \cap free' = {}
  /\ F \cap T = {} /\ F \cap L = {} /\ T \cap L = {}
  /\ \A x \in FramesOf(c)' : x \in F \/ \E q \in Procs : x \in FramesOf(q)
  /\ TableOf(c)' \subseteq TableOf(c) \cup T
  /\ Level2Of(c)' \subseteq Level2Of(c) \cup L
  /\ free' \cap lost' = {}
  /\ \A x \in (free' \ free) \cup (lost' \ lost) : \A q \in Procs : x \notin Owned(q)'

LEMMA OwnersKeep ==
  ASSUME Owners, NEW c \in Procs, NEW F, NEW T, NEW L, Gains(c, F, T, L)
  PROVE  Owners'
<1>1. \A x \in F \cup T \cup L : x \in free /\ x \notin free' /\ x \notin lost
  BY DEF Owners, Gains
<1>2. ASSUME NEW q \in Procs, NEW x \in FramesOf(q)'
      PROVE  x \in F \/ \E r \in Procs : x \in FramesOf(r)
  BY <1>2 DEF Gains
<1>3. ASSUME NEW q \in Procs, NEW x \in TableOf(q)'
      PROVE  x \in TableOf(q) \/ (q = c /\ x \in T)
  BY <1>3 DEF Gains
<1>4. ASSUME NEW q \in Procs, NEW x \in Level2Of(q)'
      PROVE  x \in Level2Of(q) \/ (q = c /\ x \in L)
  BY <1>4 DEF Gains
<1>5. \A q \in Procs : \A x \in Owned(q) : x \notin free /\ x \notin lost
  BY DEF Owners
<1>6. \A q \in Procs : \A x :
        /\ x \in FramesOf(q) => x \in Owned(q)
        /\ x \in TableOf(q) => x \in Owned(q)
        /\ x \in Level2Of(q) => x \in Owned(q)
  BY DEF Owned
<1>7. ASSUME NEW q \in Procs, NEW x \in Owned(q)' PROVE x \notin free' /\ x \notin lost'
  <2>1. x \in F \cup T \cup L \/ \E r \in Procs : x \in Owned(r)
    BY <1>2, <1>3, <1>4, <1>6, <1>7 DEF Owned
  <2>2. x \in free' => x \in free
    BY <1>7 DEF Gains
  <2>3. x \in lost' => x \in lost
    BY <1>7 DEF Gains
  <2> QED BY <2>1, <2>2, <2>3, <1>1, <1>5
<1>8. ASSUME NEW p \in Procs, NEW q \in Procs, NEW x \in FramesOf(p)'
      PROVE  x \notin TableOf(q)' /\ x \notin Level2Of(q)'
  <2>1. CASE x \in F
    <3>1. x \notin T /\ x \notin L /\ x \notin Owned(q)
      BY <2>1, <1>1, <1>5 DEF Gains
    <3> QED BY <3>1, <1>3, <1>4, <1>6
  <2>2. CASE x \notin F
    <3>1. PICK r \in Procs : x \in FramesOf(r)
      BY <2>2, <1>2, <1>8
    <3>2. x \notin TableOf(q) /\ x \notin Level2Of(q)
      BY <3>1 DEF Owners
    <3>3. x \notin T /\ x \notin L
      BY <3>1, <1>1, <1>5, <1>6
    <3> QED BY <3>2, <3>3, <1>3, <1>4
  <2> QED BY <2>1, <2>2
<1>9. ASSUME NEW p \in Procs, NEW q \in Procs, NEW x \in TableOf(p)'
      PROVE  x \notin Level2Of(q)' /\ (p # q => x \notin TableOf(q)')
  <2>1. CASE x \in TableOf(p)
    <3>1. x \notin Level2Of(q) /\ (p # q => x \notin TableOf(q))
      BY <2>1 DEF Owners
    <3>2. x \notin T /\ x \notin L
      BY <2>1, <1>1, <1>5, <1>6
    <3> QED BY <3>1, <3>2, <1>3, <1>4
  <2>2. CASE p = c /\ x \in T
    <3>1. x \notin Owned(q) /\ x \notin L
      BY <2>2, <1>1, <1>5 DEF Gains
    <3>2. x \notin Level2Of(q)'
      BY <3>1, <1>4, <1>6
    <3>3. p # q => x \notin TableOf(q)'
      BY <3>1, <2>2, <1>3, <1>6
    <3> QED BY <3>2, <3>3
  <2> QED BY <2>1, <2>2, <1>3, <1>9
<1>10. ASSUME NEW p \in Procs, NEW q \in Procs, p # q, NEW x \in Level2Of(p)'
       PROVE  x \notin Level2Of(q)'
  <2>1. CASE x \in Level2Of(p)
    <3>1. x \notin Level2Of(q) /\ x \notin L
      BY <2>1, <1>10, <1>1, <1>5, <1>6 DEF Owners
    <3> QED BY <3>1, <1>4
  <2>2. CASE p = c /\ x \in L
    <3>1. x \notin Level2Of(q)
      BY <2>2, <1>1, <1>5, <1>6
    <3> QED BY <3>1, <2>2, <1>4, <1>10
  <2> QED BY <2>1, <2>2, <1>4, <1>10
<1>11. free' \cap lost' = {}
  BY DEF Gains
<1> QED BY <1>7, <1>8, <1>9, <1>10, <1>11 DEF Owners

\* The sets of the processes a step leaves alone.
LEMMA SetsStay ==
  ASSUME NEW q
  PROVE  /\ pages'[q] = pages[q] => FramesOf(q)' = FramesOf(q)
         /\ ttbr0'[q] = ttbr0[q] => TableOf(q)' = TableOf(q)
         /\ /\ ttbr0'[q] = ttbr0[q]
            /\ ttbr0[q] # NULL => level2'[ttbr0[q]] = level2[ttbr0[q]]
            => Level2Of(q)' = Level2Of(q)
<1>1. pages'[q] = pages[q] => FramesOf(q)' = FramesOf(q)
  BY DEF FramesOf
<1>2. ttbr0'[q] = ttbr0[q] => TableOf(q)' = TableOf(q)
  BY DEF TableOf
<1>3. ASSUME ttbr0'[q] = ttbr0[q], ttbr0[q] # NULL => level2'[ttbr0[q]] = level2[ttbr0[q]]
      PROVE  Level2Of(q)' = Level2Of(q)
  BY <1>3 DEF Level2Of
<1> QED BY <1>1, <1>2, <1>3

\* A free frame becomes a page of c.
LEMMA AddUser ==
  ASSUME TypeOK, MemInv, NEW c \in Procs, NEW v \in VAs, NEW f \in Frames,
         pages[c][v] = NULL, TakePage(f), pages' = [pages EXCEPT ![c][v] = f],
         ref_count' = [ref_count EXCEPT ![f] = 1], UNCHANGED <<ttbr0, level2, lost>>
  PROVE  MemInv'
<1>1. /\ f \in free /\ free' = free \ {f} /\ held' = held \cup {<<f, 1>>} /\ f # NULL
      /\ lost' = lost /\ ttbr0' = ttbr0 /\ level2' = level2
  BY Numbers DEF TakePage
<1>2. /\ pages'[c][v] = f
      /\ \A p \in Procs, w \in VAs : p # c \/ w # v => pages'[p][w] = pages[p][w]
      /\ \A p \in Procs : p # c => pages'[p] = pages[p]
  BY DEF TypeOK
<1>3. \A p \in Procs, w \in VAs : pages[p][w] # f
  <2>1. ASSUME NEW p \in Procs, NEW w \in VAs, pages[p][w] = f PROVE FALSE
    <3>1. f \in FramesOf(p)
      BY <2>1, <1>1, FramesAre
    <3> QED BY <3>1, <1>1 DEF MemInv, Owners, Owned
  <2> QED BY <2>1
<1>4. \A x : x \in FramesOf(c)' <=> x = f \/ x \in FramesOf(c)
  <2>1. \A x : x \in FramesOf(c)' <=> x # NULL /\ \E w \in VAs : x = pages'[c][w]
    BY DEF FramesOf
  <2> QED BY <2>1, <1>1, <1>2, FramesAre
<1>5. \A q \in Procs : /\ q # c => FramesOf(q)' = FramesOf(q)
                       /\ TableOf(q)' = TableOf(q) /\ Level2Of(q)' = Level2Of(q)
  BY <1>1, <1>2, SetsStay
<1>6. Owners'
  <2>1. free' \ free = {} /\ lost' \ lost = {} /\ free' \cap lost' = {}
    BY <1>1 DEF MemInv, Owners
  <2>2. {f} \cup {} \cup {} \subseteq free /\ ({f} \cup {} \cup {}) \cap free' = {}
    BY <1>1
  <2>3. \A x \in FramesOf(c)' : x \in {f} \/ \E q \in Procs : x \in FramesOf(q)
    BY <1>4
  <2>4. TableOf(c)' \subseteq TableOf(c) \cup {} /\ Level2Of(c)' \subseteq Level2Of(c) \cup {}
    BY <1>5
  <2>5. Gains(c, {f}, {}, {})
    BY <1>5, <2>1, <2>2, <2>3, <2>4 DEF Gains
  <2> QED BY <2>5, OwnersKeep DEF MemInv
<1>7. OnePlace'
  <2> SUFFICES ASSUME NEW p \in Procs, NEW q \in Procs, NEW u \in VAs, NEW w \in VAs,
                      pages'[p][u] # NULL, pages'[p][u] = pages'[q][w]
               PROVE  u = w /\ (p # q => u <= MaxCode)
    BY DEF OnePlace
  <2>1. CASE (p = c /\ u = v) \/ (q = c /\ w = v)
    BY <2>1, <1>2, <1>3
  <2>2. CASE ~(p = c /\ u = v) /\ ~(q = c /\ w = v)
    <3>1. pages[p][u] # NULL /\ pages[p][u] = pages[q][w]
      BY <2>2, <1>2
    <3> QED BY <3>1 DEF MemInv, OnePlace
  <2> QED BY <2>1, <2>2
<1>8. RefCountCovers'
  <2> SUFFICES ASSUME NEW x \in UserFrames' PROVE Cardinality(Holders(x)') <= ref_count'[x]
    BY DEF RefCountCovers
  <2>1. CASE x = f
    <3>1. Holders(x)' = {c}
      <4>1. \A q \in Procs : x \in FramesOf(q)' <=> q = c
        BY <1>1, <1>3, <1>4, <1>5, <2>1, FramesAre
      <4> QED BY <4>1 DEF Holders
    <3>2. Cardinality({c}) = 1
      BY FS_Singleton
    <3>3. ref_count'[x] = 1
      BY <2>1 DEF TypeOK
    <3> QED BY <3>1, <3>2, <3>3
  <2>2. CASE x # f
    <3>1. Holders(x)' = Holders(x)
      BY <1>4, <1>5, <2>2 DEF Holders
    <3>2. x \in UserFrames
      BY <1>4, <1>5, <2>2 DEF UserFrames
    <3>3. x \in Frames
      BY <3>2, FramesAre DEF UserFrames, TypeOK
    <3>4. ref_count'[x] = ref_count[x]
      BY <3>3, <2>2 DEF TypeOK
    <3> QED BY <3>1, <3>2, <3>4 DEF MemInv, RefCountCovers
  <2> QED BY <2>1, <2>2
<1>9. AllOwned'
  <2> SUFFICES ASSUME NEW x \in Frames, x \notin free', x \notin lost'
               PROVE  \E p \in Procs : x \in Owned(p)'
    BY DEF AllOwned
  <2>1. CASE x = f
    BY <2>1, <1>4 DEF Owned
  <2>2. CASE x # f
    <3>1. PICK p \in Procs : x \in Owned(p)
      BY <2>2, <1>1 DEF MemInv, AllOwned
    <3>2. x \in Owned(p)'
      BY <3>1, <1>4, <1>5 DEF Owned
    <3> QED BY <3>2
  <2> QED BY <2>1, <2>2
<1>10. Held'
  <2>1. \A p \in Procs, w \in VAs : pages'[p][w] # NULL => <<pages'[p][w], 1>> \in held'
    BY <1>1, <1>2 DEF MemInv, Held
  <2> QED BY <2>1, <1>1 DEF MemInv, Held
<1> QED BY <1>6, <1>7, <1>8, <1>9, <1>10 DEF MemInv

\* What RefCountCovers, OnePlace and half of Held are about stays.
LEMMA UserPagesStay ==
  ASSUME MemInv, UNCHANGED <<pages, ref_count>>
  PROVE  OnePlace' /\ RefCountCovers' /\ \A p : FramesOf(p)' = FramesOf(p)
<1>1. \A p : FramesOf(p)' = FramesOf(p)
  BY DEF FramesOf
<1>2. OnePlace'
  BY DEF MemInv, OnePlace
<1>3. RefCountCovers'
  <2>1. \A x : Holders(x)' = Holders(x)
    BY <1>1 DEF Holders
  <2>2. UserFrames' = UserFrames
    BY <1>1 DEF UserFrames
  <2> QED BY <2>1, <2>2 DEF MemInv, RefCountCovers
<1> QED BY <1>1, <1>2, <1>3

\* A free block becomes the level-1 table of c; what it had is forgotten.
LEMMA AddTable ==
  ASSUME TypeOK, MemInv, NEW c \in Procs, NEW b \in Frames, TakeBlock(b),
         ttbr0' = [ttbr0 EXCEPT ![c] = b], level2' = [level2 EXCEPT ![b] = NoTables],
         lost' = lost \cup TableOf(c) \cup Level2Of(c), UNCHANGED <<pages, ref_count>>
  PROVE  MemInv' /\ \A q \in Procs : q # c => ttbr0[q] # b
<1>1. /\ Block(b) \subseteq free /\ free' = free \ Block(b) /\ b # NULL /\ b \in Int
      /\ held' = held \cup {<<b, BlockPages>>} /\ b \in Block(b)
  BY Numbers, BlockFacts DEF TakeBlock
<1>2. ttbr0'[c] = b /\ \A q \in Procs : q # c => ttbr0'[q] = ttbr0[q]
  BY DEF TypeOK
<1>3. \A q \in Procs : ttbr0[q] # b
  <2>1. ASSUME NEW q \in Procs, ttbr0[q] = b PROVE FALSE
    <3>1. b \in TableOf(q)
      BY <2>1, <1>1, TableIs
    <3> QED BY <3>1, <1>1 DEF MemInv, Owners, Owned
  <2> QED BY <2>1
<1>4. \A q \in Procs : ttbr0[q] # NULL => level2'[ttbr0[q]] = level2[ttbr0[q]]
  BY <1>3 DEF TypeOK
<1>5. /\ \A q : FramesOf(q)' = FramesOf(q)
      /\ \A q \in Procs : q # c => TableOf(q)' = TableOf(q) /\ Level2Of(q)' = Level2Of(q)
  BY <1>2, <1>4, SetsStay, UserPagesStay
<1>6. TableOf(c)' = Block(b)
  BY <1>1, <1>2 DEF TableOf, Block
<1>7. Level2Of(c)' = {}
  <2>1. \A s \in Sections : level2'[b][s] = NULL
    BY DEF NoTables, TypeOK
  <2> QED BY <2>1, <1>1, <1>2 DEF Level2Of
<1>8. Owners'
  <2>1. {} \cup Block(b) \cup {} \subseteq free /\ ({} \cup Block(b) \cup {}) \cap free' = {}
    BY <1>1
  <2>2. free' \cap lost' = {}
    BY <1>1 DEF MemInv, Owners, Owned
  <2>3. ASSUME NEW x \in (free' \ free) \cup (lost' \ lost), NEW q \in Procs
        PROVE  x \notin Owned(q)'
    <3>1. x \in TableOf(c) \cup Level2Of(c) /\ x \notin free
      BY <2>3, <1>1 DEF MemInv, Owners, Owned
    <3>2. x \notin FramesOf(q)
      BY <3>1 DEF MemInv, Owners
    <3>3. CASE q = c
      BY <3>1, <3>2, <3>3, <1>1, <1>5, <1>6, <1>7 DEF Owned
    <3>4. CASE q # c
      BY <3>1, <3>2, <3>4, <1>5 DEF MemInv, Owners, Owned
    <3> QED BY <3>3, <3>4
  <2>4. /\ \A x \in FramesOf(c)' : x \in {} \/ \E q \in Procs : x \in FramesOf(q)
        /\ TableOf(c)' \subseteq TableOf(c) \cup Block(b)
        /\ Level2Of(c)' \subseteq Level2Of(c) \cup {}
    BY <1>5, <1>6, <1>7
  <2>5. Gains(c, {}, Block(b), {})
    BY <1>5, <2>1, <2>2, <2>3, <2>4 DEF Gains
  <2> QED BY <2>5, OwnersKeep DEF MemInv
<1>9. AllOwned'
  <2> SUFFICES ASSUME NEW x \in Frames, x \notin free', x \notin lost'
               PROVE  \E p \in Procs : x \in Owned(p)'
    BY DEF AllOwned
  <2>1. CASE x \in Block(b)
    BY <2>1, <1>6 DEF Owned
  <2>2. CASE x \notin Block(b)
    <3>1. PICK p \in Procs : x \in Owned(p)
      BY <2>2, <1>1 DEF MemInv, AllOwned
    <3>2. x \in Owned(p)'
      BY <3>1, <1>5 DEF Owned
    <3> QED BY <3>2
  <2> QED BY <2>1, <2>2
<1>10. Held'
  <2>1. \A p \in Procs, w \in VAs : pages'[p][w] # NULL => <<pages'[p][w], 1>> \in held'
    BY <1>1 DEF MemInv, Held
  <2>2. ASSUME NEW p \in Procs, ttbr0'[p] # NULL
        PROVE  <<ttbr0'[p], BlockPages>> \in held' /\ Block(ttbr0'[p]) \subseteq Frames
    <3>1. CASE p = c
      BY <3>1, <1>1, <1>2 DEF TypeOK
    <3>2. CASE p # c
      BY <3>2, <2>2, <1>1, <1>2 DEF MemInv, Held
    <3> QED BY <3>1, <3>2
  <2>3. \A p \in Procs : ttbr0'[p] # NULL =>
          <<ttbr0'[p], BlockPages>> \in held' /\ Block(ttbr0'[p]) \subseteq Frames
    BY <2>2
  <2>4. \A p \in Procs : Block(ttbr0[p])' = Block(ttbr0'[p])
    BY DEF Block
  <2> QED BY <2>1, <2>3 DEF Held, Block
<1> QED BY <1>3, <1>8, <1>9, <1>10, UserPagesStay DEF MemInv

\* A free frame becomes a level-2 page of c.
LEMMA AddLevel2 ==
  ASSUME TypeOK, MemInv, NEW c \in Procs, NEW s \in Sections, NEW f \in Frames, NEW b,
         b = ttbr0[c], b # NULL, level2[b][s] = NULL, TakePage(f),
         level2' = [level2 EXCEPT ![b] = [@ EXCEPT ![s] = f]],
         UNCHANGED <<pages, ref_count, ttbr0, lost>>
  PROVE  MemInv'
<1>1. /\ f \in free /\ free' = free \ {f} /\ held' = held \cup {<<f, 1>>} /\ f # NULL
      /\ b \in Frames /\ b \in Int /\ b \in Block(b)
  BY Numbers, BlockFacts DEF TakePage, TypeOK
<1>2. level2'[b][s] = f /\ \A r \in Sections : r # s => level2'[b][r] = level2[b][r]
  BY <1>1 DEF TypeOK
<1>3. \A q \in Procs : q # c /\ ttbr0[q] # NULL => level2'[ttbr0[q]] = level2[ttbr0[q]]
  <2>1. ASSUME NEW q \in Procs, q # c, ttbr0[q] # NULL
        PROVE  level2'[ttbr0[q]] = level2[ttbr0[q]]
    <3>1. b \in TableOf(c)
      BY <1>1, TableIs
    <3>2. b \notin TableOf(q)
      BY <3>1, <2>1 DEF MemInv, Owners
    <3>3. ttbr0[q] # b
      BY <3>2, <2>1, <1>1, TableIs
    <3> QED BY <3>3, <2>1 DEF TypeOK
  <2> QED BY <2>1
<1>4. /\ \A q : FramesOf(q)' = FramesOf(q)
      /\ \A q \in Procs : TableOf(q)' = TableOf(q)
      /\ \A q \in Procs : q # c => Level2Of(q)' = Level2Of(q)
  BY <1>3, SetsStay, UserPagesStay
<1>5. \A x : x \in Level2Of(c)' <=> x = f \/ x \in Level2Of(c)
  <2>1. \A x : x \in Level2Of(c)' <=> x # NULL /\ \E r \in Sections : x = level2'[b][r]
    BY DEF Level2Of
  <2> QED BY <2>1, <1>1, <1>2, Level2Is
<1>6. Owners'
  <2>1. free' \ free = {} /\ lost' \ lost = {} /\ free' \cap lost' = {}
    BY <1>1 DEF MemInv, Owners
  <2>2. Gains(c, {}, {}, {f})
    BY <1>1, <1>4, <1>5, <2>1 DEF Gains
  <2> QED BY <2>2, OwnersKeep DEF MemInv
<1>7. AllOwned'
  <2> SUFFICES ASSUME NEW x \in Frames, x \notin free', x \notin lost'
               PROVE  \E p \in Procs : x \in Owned(p)'
    BY DEF AllOwned
  <2>1. CASE x = f
    BY <2>1, <1>5 DEF Owned
  <2>2. CASE x # f
    <3>1. PICK p \in Procs : x \in Owned(p)
      BY <2>2, <1>1 DEF MemInv, AllOwned
    <3>2. x \in Owned(p)'
      BY <3>1, <1>4, <1>5 DEF Owned
    <3> QED BY <3>2
  <2> QED BY <2>1, <2>2
<1>8. Held'
  BY <1>1 DEF MemInv, Held, Block
<1> QED BY <1>6, <1>7, <1>8, UserPagesStay DEF MemInv

\* The reference counts cover the holders when pages only change hands inside
\* a process or get out of them.
LEMMA CountsStay ==
  ASSUME TypeOK, RefCountCovers, UNCHANGED ref_count,
         \A q \in Procs : FramesOf(q)' \subseteq FramesOf(q)
  PROVE  RefCountCovers'
<1> SUFFICES ASSUME NEW x \in UserFrames' PROVE Cardinality(Holders(x)') <= ref_count'[x]
  BY DEF RefCountCovers
<1>1. x \in UserFrames /\ x \in Frames
  BY FramesAre DEF UserFrames, TypeOK
<1>2. Holders(x) \in SUBSET Procs /\ Holders(x)' \in SUBSET Holders(x)
  BY DEF Holders
<1>3. Cardinality(Holders(x)') <= Cardinality(Holders(x))
  BY <1>2, HoldersFinite
<1>4. Cardinality(Holders(x)) \in Nat /\ Cardinality(Holders(x)') \in Nat
      /\ ref_count[x] \in Nat
  BY <1>1, <1>2, HoldersFinite DEF TypeOK
<1> QED BY <1>1, <1>3, <1>4 DEF RefCountCovers

\* c's page list and its tables are forgotten.
LEMMA Forget ==
  ASSUME TypeOK, MemInv, NEW c \in Procs,
         pages' = [pages EXCEPT ![c] = NoPages], ttbr0' = [ttbr0 EXCEPT ![c] = NULL],
         lost' = lost \cup OnlyOf(c) \cup TableOf(c) \cup Level2Of(c),
         UNCHANGED <<free, held, ref_count, level2>>
  PROVE  MemInv'
<1>1. /\ pages'[c] = NoPages /\ ttbr0'[c] = NULL
      /\ \A q \in Procs : q # c => pages'[q] = pages[q] /\ ttbr0'[q] = ttbr0[q]
  BY DEF TypeOK
<1>2. FramesOf(c)' = {} /\ TableOf(c)' = {} /\ Level2Of(c)' = {}
  BY <1>1 DEF FramesOf, TableOf, Level2Of, NoPages
<1>3. \A q \in Procs : q # c => /\ FramesOf(q)' = FramesOf(q)
                                /\ TableOf(q)' = TableOf(q)
                                /\ Level2Of(q)' = Level2Of(q)
  BY <1>1, SetsStay
<1>4. \A x \in OnlyOf(c) : x \in FramesOf(c) /\ \A q \in Procs : x \in FramesOf(q) => q = c
  BY DEF OnlyOf, Holders
<1>5. Owners'
  <2>1. free' \cap lost' = {}
    BY <1>4 DEF MemInv, Owners, Owned
  <2>2. ASSUME NEW x \in (free' \ free) \cup (lost' \ lost), NEW q \in Procs
        PROVE  x \notin Owned(q)'
    <3>1. x \in OnlyOf(c) \/ x \in TableOf(c) \/ x \in Level2Of(c)
      BY <2>2
    <3>2. CASE q = c
      BY <3>2, <1>2 DEF Owned
    <3>3. CASE q # c
      <4>1. x \notin FramesOf(q)
        BY <3>1, <3>3, <1>4 DEF MemInv, Owners
      <4>2. x \notin TableOf(q)
        BY <3>1, <3>3, <1>4 DEF MemInv, Owners
      <4>3. x \notin Level2Of(q)
        BY <3>1, <3>3, <1>4 DEF MemInv, Owners
      <4> QED BY <4>1, <4>2, <4>3, <3>3, <1>3 DEF Owned
    <3> QED BY <3>2, <3>3
  <2>3. Gains(c, {}, {}, {})
    BY <1>2, <1>3, <2>1, <2>2 DEF Gains
  <2> QED BY <2>3, OwnersKeep DEF MemInv
<1>6. OnePlace'
  <2> SUFFICES ASSUME NEW p \in Procs, NEW q \in Procs, NEW u \in VAs, NEW w \in VAs,
                      pages'[p][u] # NULL, pages'[p][u] = pages'[q][w]
               PROVE  u = w /\ (p # q => u <= MaxCode)
    BY DEF OnePlace
  <2>1. p # c /\ q # c
    BY <1>1 DEF NoPages
  <2> QED BY <2>1, <1>1 DEF MemInv, OnePlace
<1>7. RefCountCovers'
  BY <1>2, <1>3, CountsStay DEF MemInv
<1>8. AllOwned'
  <2> SUFFICES ASSUME NEW x \in Frames, x \notin free', x \notin lost'
               PROVE  \E p \in Procs : x \in Owned(p)'
    BY DEF AllOwned
  <2>1. PICK p \in Procs : x \in Owned(p)
    BY DEF MemInv, AllOwned
  <2>2. CASE p # c
    BY <2>1, <2>2, <1>3 DEF Owned
  <2>3. CASE p = c
    <3>1. x \in FramesOf(c) /\ x \notin OnlyOf(c)
      BY <2>1, <2>3 DEF Owned
    <3>2. PICK q \in Procs : x \in FramesOf(q) /\ q # c
      BY <3>1 DEF OnlyOf, Holders
    <3> QED BY <3>2, <1>3 DEF Owned
  <2> QED BY <2>2, <2>3
<1>9. Held'
  <2>1. \A p \in Procs, w \in VAs : pages'[p][w] # NULL => <<pages'[p][w], 1>> \in held'
    BY <1>1 DEF MemInv, Held, NoPages
  <2>2. \A p \in Procs : ttbr0'[p] # NULL =>
          <<ttbr0'[p], BlockPages>> \in held' /\ Block(ttbr0'[p]) \subseteq Frames
    BY <1>1 DEF MemInv, Held
  <2> QED BY <2>1, <2>2 DEF Held, Block
<1> QED BY <1>5, <1>6, <1>7, <1>8, <1>9 DEF MemInv

\* A page leaves c's list: it is freed with its last reference, or lost, or
\* another process holds it.
LEMMA Release ==
  ASSUME TypeOK, MemInv, NEW c \in Procs, NEW v \in VAs, NEW f,
         f = pages[c][v], f # NULL, DropReference(c, v, f),
         pages' = [pages EXCEPT ![c][v] = NULL], UNCHANGED <<ttbr0, level2>>
  PROVE  /\ MemInv' /\ ref_count[f] # 0
         /\ <<f, 1>> \in held /\ ref_count' \in [Frames -> Nat]
         /\ free' \subseteq Frames /\ lost' \subseteq Frames
<1>1. f \in Frames /\ <<f, 1>> \in held /\ f \in FramesOf(c) /\ c \in Holders(f)
  BY FramesAre DEF TypeOK, MemInv, Held, Holders
<1>2. /\ pages'[c][v] = NULL
      /\ \A p \in Procs, w \in VAs : p # c \/ w # v => pages'[p][w] = pages[p][w]
      /\ \A p \in Procs : p # c => pages'[p] = pages[p]
  BY DEF TypeOK
<1>3. \A w \in VAs : pages[c][w] = f => w = v
  BY <1>1 DEF MemInv, OnePlace
<1>4. \A x : x \in FramesOf(c)' <=> x # f /\ x \in FramesOf(c)
  <2>1. \A x : x \in FramesOf(c)' <=> x # NULL /\ \E w \in VAs : x = pages'[c][w]
    BY DEF FramesOf
  <2> QED BY <2>1, <1>2, <1>3, FramesAre
<1>5. \A q \in Procs : /\ q # c => FramesOf(q)' = FramesOf(q)
                       /\ TableOf(q)' = TableOf(q) /\ Level2Of(q)' = Level2Of(q)
  BY <1>2, SetsStay
<1>6. /\ Holders(f) \in SUBSET Procs /\ Cardinality(Holders(f)) <= ref_count[f]
      /\ IsFiniteSet(Holders(f)) /\ Cardinality(Holders(f)) \in Nat
      /\ ref_count[f] \in Nat
  <2>1. f \in UserFrames
    BY <1>1 DEF UserFrames
  <2> QED BY <2>1, <1>1, HoldersFinite DEF MemInv, RefCountCovers, TypeOK, Holders
<1>7. Cardinality(Holders(f) \ {c}) = Cardinality(Holders(f)) - 1
      /\ Cardinality(Holders(f) \ {c}) \in Nat
  <2>1. Holders(f) \ {c} \in SUBSET Procs
    BY <1>6
  <2>2. Cardinality(Holders(f) \ {c}) \in Nat
    BY <2>1, HoldersFinite
  <2> QED BY <2>2, <1>1, <1>6, FS_RemoveElement
<1>8. ref_count[f] # 0
  BY <1>6, <1>7
<1>9. ref_count[f] = 1 => Holders(f) = {c}
  <2>1. ASSUME ref_count[f] = 1 PROVE Holders(f) \ {c} = {}
    <3>1. Cardinality(Holders(f) \ {c}) = 0
      BY <2>1, <1>6, <1>7
    <3>2. IsFiniteSet(Holders(f) \ {c})
      BY <1>6, FS_RemoveElement
    <3> QED BY <3>1, <3>2, FS_EmptySet
  <2> QED BY <2>1, <1>1
<1>10. \A q \in Procs : q \in Holders(f) <=> f \in FramesOf(q)
  BY DEF Holders
<1>11. \/ /\ ref_count[f] = 1 /\ free' = free \cup {f} /\ held' = held \ {<<f, 1>>}
          /\ lost' = lost /\ ref_count' = ref_count
       \/ /\ ref_count[f] # 1 /\ free' = free /\ held' = held
          /\ lost' = lost \cup {x \in {f} : Holders(f) = {c}}
          /\ ref_count' = [ref_count EXCEPT ![f] = @ - 1]
  BY DEF DropReference, GivePage, alloc
<1>12. Owners'
  <2>1. f \notin free /\ f \notin lost
    BY <1>1 DEF MemInv, Owners, Owned
  <2>2. free' \cap lost' = {}
    BY <2>1, <1>11 DEF MemInv, Owners
  <2>3. ASSUME NEW x \in (free' \ free) \cup (lost' \ lost), NEW q \in Procs
        PROVE  x \notin Owned(q)'
    <3>1. x = f /\ Holders(f) = {c}
      BY <2>3, <1>9, <1>11
    <3>2. x \notin FramesOf(q)'
      BY <3>1, <1>4, <1>5, <1>10
    <3>3. x \notin TableOf(q)' /\ x \notin Level2Of(q)'
      BY <3>1, <1>1, <1>5 DEF MemInv, Owners
    <3> QED BY <3>2, <3>3 DEF Owned
  <2>4. Gains(c, {}, {}, {})
    BY <1>4, <1>5, <2>2, <2>3 DEF Gains
  <2> QED BY <2>4, OwnersKeep DEF MemInv
<1>13. OnePlace'
  <2> SUFFICES ASSUME NEW p \in Procs, NEW q \in Procs, NEW u \in VAs, NEW w \in VAs,
                      pages'[p][u] # NULL, pages'[p][u] = pages'[q][w]
               PROVE  u = w /\ (p # q => u <= MaxCode)
    BY DEF OnePlace
  <2>1. pages[p][u] # NULL /\ pages[p][u] = pages[q][w]
    BY <1>2
  <2> QED BY <2>1 DEF MemInv, OnePlace
<1>14. ref_count' \in [Frames -> Nat] /\ free' \subseteq Frames /\ lost' \subseteq Frames
  <2>1. ref_count[f] - 1 \in Nat
    BY <1>6, <1>8
  <2>2. ref_count \in [Frames -> Nat] /\ free \subseteq Frames /\ lost \subseteq Frames
    BY DEF TypeOK
  <2>3. ref_count' = ref_count \/ ref_count' = [ref_count EXCEPT ![f] = ref_count[f] - 1]
    BY <1>11
  <2>4. ref_count' \in [Frames -> Nat]
    BY <2>1, <2>2, <2>3, <1>1
  <2> QED BY <2>2, <2>4, <1>1, <1>11
<1>15. RefCountCovers'
  <2> SUFFICES ASSUME NEW x \in UserFrames' PROVE Cardinality(Holders(x)') <= ref_count'[x]
    BY DEF RefCountCovers
  <2>1. x \in UserFrames /\ x \in Frames
    <3>1. PICK q \in Procs : x \in FramesOf(q)'
      BY DEF UserFrames
    <3>2. x \in FramesOf(q)
      BY <3>1, <1>4, <1>5
    <3> QED BY <3>2, FramesAre DEF UserFrames, TypeOK
  <2>2. CASE x = f
    <3>1. Holders(x)' = Holders(f) \ {c}
      BY <2>2, <1>4, <1>5 DEF Holders
    <3>2. Holders(x)' # {}
      BY DEF UserFrames, Holders
    <3>3. ref_count[f] # 1
      BY <3>1, <3>2, <1>9
    <3>4. ref_count'[x] = ref_count[f] - 1
      BY <3>3, <2>2, <1>1, <1>11 DEF TypeOK
    <3> QED BY <3>1, <3>4, <1>6, <1>7
  <2>3. CASE x # f
    <3>1. Holders(x)' = Holders(x)
      BY <2>3, <1>4, <1>5 DEF Holders
    <3>2. ref_count'[x] = ref_count[x]
      BY <2>1, <2>3, <1>1, <1>11 DEF TypeOK
    <3> QED BY <3>1, <3>2, <2>1 DEF MemInv, RefCountCovers
  <2> QED BY <2>2, <2>3
<1>16. AllOwned'
  <2> SUFFICES ASSUME NEW x \in Frames, x \notin free', x \notin lost'
               PROVE  \E p \in Procs : x \in Owned(p)'
    BY DEF AllOwned
  <2>1. PICK p \in Procs : x \in Owned(p)
    BY <1>11 DEF MemInv, AllOwned
  <2>2. CASE p = c /\ x = f
    <3>1. ref_count[f] # 1 /\ Holders(f) # {c}
      BY <2>2, <1>11
    <3>2. PICK q \in Procs : x \in FramesOf(q) /\ q # c
      BY <3>1, <2>2, <1>1, <1>6, <1>10
    <3> QED BY <3>2, <1>5 DEF Owned
  <2>3. CASE ~(p = c /\ x = f)
    BY <2>1, <2>3, <1>4, <1>5 DEF Owned
  <2> QED BY <2>2, <2>3
<1>17. Held'
  <2>1. ASSUME NEW p \in Procs, NEW w \in VAs, pages'[p][w] # NULL
        PROVE  <<pages'[p][w], 1>> \in held'
    <3>1. pages'[p][w] = pages[p][w] /\ <<pages[p][w], 1>> \in held
      BY <2>1, <1>2 DEF MemInv, Held
    <3>2. CASE ref_count[f] = 1
      <4>1. pages[p][w] # f
        <5>1. ASSUME pages[p][w] = f PROVE FALSE
          <6>1. p \in Holders(f)
            BY <5>1, <1>1, FramesAre DEF Holders
          <6>2. p = c /\ w = v
            BY <6>1, <5>1, <3>2, <1>3, <1>9
          <6> QED BY <6>2, <2>1, <1>2
        <5> QED BY <5>1
      <4> QED BY <4>1, <3>1, <1>11, <3>2
    <3>3. CASE ref_count[f] # 1
      BY <3>1, <3>3, <1>11
    <3> QED BY <3>2, <3>3
  <2>2. ASSUME NEW p \in Procs, ttbr0[p] # NULL
        PROVE  <<ttbr0[p], BlockPages>> \in held' /\ Block(ttbr0[p]) \subseteq Frames
    BY <2>2, <1>11, Numbers DEF MemInv, Held
  <2> QED BY <2>1, <2>2 DEF Held, Block
<1> QED BY <1>1, <1>8, <1>12, <1>13, <1>14, <1>15, <1>16, <1>17 DEF MemInv

\* The level-1 table of c is freed, its level-2 pages are forgotten.
LEMMA ReleaseTable ==
  ASSUME TypeOK, MemInv, NEW c \in Procs, ttbr0[c] # NULL, GiveBlock(ttbr0[c]),
         ttbr0' = [ttbr0 EXCEPT ![c] = NULL], lost' = lost \cup Level2Of(c),
         UNCHANGED <<pages, ref_count, level2>>
  PROVE  /\ MemInv' /\ <<ttbr0[c], BlockPages>> \in held
         /\ free' \subseteq Frames /\ lost' \subseteq Frames
<1>1. /\ TableOf(c) = Block(ttbr0[c]) /\ TableOf(c) \subseteq Frames
      /\ <<ttbr0[c], BlockPages>> \in held /\ Level2Of(c) \subseteq Frames
  BY Level2Is DEF TableOf, MemInv, Held, TypeOK
<1>2. /\ ttbr0'[c] = NULL /\ \A q \in Procs : q # c => ttbr0'[q] = ttbr0[q]
      /\ free' = free \cup TableOf(c) /\ held' = held \ {<<ttbr0[c], BlockPages>>}
  BY <1>1 DEF TypeOK, GiveBlock
<1>3. TableOf(c)' = {} /\ Level2Of(c)' = {}
  BY <1>2 DEF TableOf, Level2Of
<1>4. /\ \A q : FramesOf(q)' = FramesOf(q)
      /\ \A q \in Procs : q # c => TableOf(q)' = TableOf(q) /\ Level2Of(q)' = Level2Of(q)
  BY <1>2, SetsStay, UserPagesStay
<1>5. Owners'
  <2>1. free' \cap lost' = {}
    BY <1>2 DEF MemInv, Owners, Owned
  <2>2. ASSUME NEW x \in (free' \ free) \cup (lost' \ lost), NEW q \in Procs
        PROVE  x \notin Owned(q)'
    <3>1. x \in TableOf(c) \/ x \in Level2Of(c)
      BY <2>2, <1>2
    <3>2. x \notin FramesOf(q)
      BY <3>1 DEF MemInv, Owners
    <3>3. CASE q = c
      BY <3>2, <3>3, <1>3, <1>4 DEF Owned
    <3>4. CASE q # c
      <4>1. x \notin TableOf(q)
        BY <3>1, <3>4 DEF MemInv, Owners
      <4>2. x \notin Level2Of(q)
        BY <3>1, <3>4 DEF MemInv, Owners
      <4> QED BY <4>1, <4>2, <3>2, <3>4, <1>4 DEF Owned
    <3> QED BY <3>3, <3>4
  <2>3. Gains(c, {}, {}, {})
    BY <1>3, <1>4, <2>1, <2>2 DEF Gains
  <2> QED BY <2>3, OwnersKeep DEF MemInv
<1>6. AllOwned'
  <2> SUFFICES ASSUME NEW x \in Frames, x \notin free', x \notin lost'
               PROVE  \E p \in Procs : x \in Owned(p)'
    BY DEF AllOwned
  <2>1. PICK p \in Procs : x \in Owned(p)
    BY <1>2 DEF MemInv, AllOwned
  <2>2. x \in Owned(p)'
    BY <2>1, <1>2, <1>4 DEF Owned
  <2> QED BY <2>2
<1>7. Held'
  <2>1. ASSUME NEW p \in Procs, NEW w \in VAs, pages[p][w] # NULL
        PROVE  <<pages[p][w], 1>> \in held'
    BY <2>1, <1>2, Numbers DEF MemInv, Held
  <2>2. ASSUME NEW p \in Procs, ttbr0'[p] # NULL
        PROVE  <<ttbr0'[p], BlockPages>> \in held' /\ Block(ttbr0'[p]) \subseteq Frames
    <3>1. p # c /\ ttbr0'[p] = ttbr0[p]
      BY <2>2, <1>2
    <3>2. ttbr0[p] # ttbr0[c]
      <4>0. ttbr0[c] \in Int
        BY Numbers DEF TypeOK
      <4>1. ttbr0[c] \in TableOf(c)
        BY <1>1, <4>0, BlockFacts
      <4>2. ttbr0[c] \notin TableOf(p)
        BY <4>1, <3>1 DEF MemInv, Owners
      <4> QED BY <4>0, <4>2, <2>2, <3>1, BlockFacts, TableIs
    <3>3. <<ttbr0[p], BlockPages>> \in held /\ Block(ttbr0[p]) \subseteq Frames
      BY <3>1, <2>2 DEF MemInv, Held
    <3>4. <<ttbr0[p], BlockPages>> # <<ttbr0[c], BlockPages>>
      BY <3>2
    <3> QED BY <3>1, <3>3, <3>4, <1>2
  <2> QED BY <2>1, <2>2 DEF Held, Block
<1>8. free' \subseteq Frames /\ lost' \subseteq Frames
  BY <1>1, <1>2 DEF TypeOK
<1> QED BY <1>1, <1>5, <1>6, <1>7, <1>8, UserPagesStay DEF MemInv

\* c, which has no pages, shares the code pages of p.
LEMMA Share ==
  ASSUME TypeOK, MemInv, NEW c \in Procs, NEW p \in Procs, pages[c] = NoPages,
         pages' = [pages EXCEPT ![c] =
                     [v \in VAs |-> IF v <= MaxCode THEN pages[p][v] ELSE NULL]],
         ref_count' = [f \in Frames |-> IF \E v \in 1 .. MaxCode : pages[p][v] = f
                                        THEN ref_count[f] + 1 ELSE ref_count[f]],
         UNCHANGED <<free, held, ttbr0, level2, lost>>
  PROVE  MemInv'
<1>1. /\ \A v \in VAs : pages'[c][v] = IF v <= MaxCode THEN pages[p][v] ELSE NULL
      /\ \A q \in Procs : q # c => pages'[q] = pages[q]
  BY DEF TypeOK
<1>2. FramesOf(c) = {}
  BY DEF FramesOf, NoPages
<1>3. ASSUME NEW x \in FramesOf(c)'
      PROVE  x \in FramesOf(p) /\ \E v \in 1 .. MaxCode : pages[p][v] = x
  <2>1. PICK v \in VAs : x = pages'[c][v] /\ x # NULL
    BY DEF FramesOf
  <2>2. v <= MaxCode /\ x = pages[p][v]
    BY <2>1, <1>1
  <2>3. v \in 1 .. MaxCode
    BY <2>2, Numbers
  <2> QED BY <2>1, <2>2, <2>3, FramesAre
<1>4. \A q \in Procs : /\ q # c => FramesOf(q)' = FramesOf(q)
                       /\ TableOf(q)' = TableOf(q) /\ Level2Of(q)' = Level2Of(q)
  BY <1>1, SetsStay
<1>5. Owners'
  <2>1. Gains(c, {}, {}, {})
    BY <1>3, <1>4 DEF Gains, MemInv, Owners
  <2> QED BY <2>1, OwnersKeep DEF MemInv
<1>6. OnePlace'
  <2> SUFFICES ASSUME NEW q \in Procs, NEW r \in Procs, NEW u \in VAs, NEW w \in VAs,
                      pages'[q][u] # NULL, pages'[q][u] = pages'[r][w]
               PROVE  u = w /\ (q # r => u <= MaxCode)
    BY DEF OnePlace
  <2>1. PICK q1 \in Procs : pages'[q][u] = pages[q1][u] /\ (q = c => u <= MaxCode)
                            /\ (q # c => q1 = q)
    BY <1>1
  <2>2. PICK r1 \in Procs : pages'[r][w] = pages[r1][w] /\ (r = c => w <= MaxCode)
                            /\ (r # c => r1 = r)
    BY <1>1
  <2>3. u = w /\ (q1 # r1 => u <= MaxCode)
    <3>1. pages[q1][u] # NULL /\ pages[q1][u] = pages[r1][w]
      BY <2>1, <2>2
    <3> QED BY <3>1 DEF MemInv, OnePlace
  <2> QED BY <2>1, <2>2, <2>3
<1>7. RefCountCovers'
  <2> SUFFICES ASSUME NEW x \in UserFrames' PROVE Cardinality(Holders(x)') <= ref_count'[x]
    BY DEF RefCountCovers
  <2>1. x \in UserFrames /\ x \in Frames
    <3>1. PICK q \in Procs : x \in FramesOf(q)'
      BY DEF UserFrames
    <3>2. \E r \in Procs : x \in FramesOf(r)
      BY <3>1, <1>3, <1>4
    <3> QED BY <3>2, FramesAre DEF UserFrames, TypeOK
  <2>2. /\ Holders(x) \in SUBSET Procs /\ IsFiniteSet(Holders(x))
        /\ Cardinality(Holders(x)) \in Nat /\ ref_count[x] \in Nat
        /\ Cardinality(Holders(x)) <= ref_count[x]
    BY <2>1, HoldersFinite DEF MemInv, RefCountCovers, TypeOK, Holders
  <2>3. CASE x \in FramesOf(c)'
    <3>1. ref_count'[x] = ref_count[x] + 1
      BY <2>1, <2>3, <1>3
    <3>2. Holders(x)' = Holders(x) \cup {c}
      BY <2>3, <1>2, <1>4 DEF Holders
    <3>3. Cardinality(Holders(x) \cup {c}) <= Cardinality(Holders(x)) + 1
      <4>1. Cardinality(Holders(x) \cup {c}) =
              IF c \in Holders(x) THEN Cardinality(Holders(x)) ELSE Cardinality(Holders(x)) + 1
        BY <2>2, FS_AddElement
      <4> QED BY <4>1, <2>2
    <3>4. Cardinality(Holders(x) \cup {c}) \in Nat
      <4>1. Holders(x) \cup {c} \in SUBSET Procs
        BY <2>2
      <4> QED BY <4>1, HoldersFinite
    <3> QED BY <3>1, <3>2, <3>3, <3>4, <2>2
  <2>4. CASE x \notin FramesOf(c)'
    <3>1. Holders(x)' = Holders(x)
      BY <2>4, <1>2, <1>4 DEF Holders
    <3>2. ref_count'[x] \in {ref_count[x], ref_count[x] + 1}
      BY <2>1
    <3> QED BY <3>1, <3>2, <2>2
  <2> QED BY <2>3, <2>4
<1>8. AllOwned'
  <2> SUFFICES ASSUME NEW x \in Frames, x \notin free, x \notin lost
               PROVE  \E q \in Procs : x \in Owned(q)'
    BY DEF AllOwned
  <2>1. PICK q \in Procs : x \in Owned(q)
    BY DEF MemInv, AllOwned
  <2>2. x \in Owned(q)'
    BY <2>1, <1>2, <1>4 DEF Owned
  <2> QED BY <2>2
<1>9. Held'
  <2>1. ASSUME NEW q \in Procs, NEW w \in VAs, pages'[q][w] # NULL
        PROVE  <<pages'[q][w], 1>> \in held
    <3>1. PICK r \in Procs : pages'[q][w] = pages[r][w]
      BY <2>1, <1>1
    <3> QED BY <3>1, <2>1 DEF MemInv, Held
  <2> QED BY <2>1 DEF MemInv, Held, Block
<1> QED BY <1>5, <1>6, <1>7, <1>8, <1>9 DEF MemInv

\* Nobody gets or gives anything.
LEMMA MemStays ==
  ASSUME MemInv, UNCHANGED <<free, held, pages, ref_count, ttbr0, level2, lost>>
  PROVE  MemInv'
<1>1. \A q : /\ FramesOf(q)' = FramesOf(q) /\ TableOf(q)' = TableOf(q)
             /\ Level2Of(q)' = Level2Of(q)
  BY DEF FramesOf, TableOf, Level2Of, Block
<1>2. Owners' /\ AllOwned'
  BY <1>1 DEF MemInv, Owners, AllOwned, Owned
<1>3. Held'
  BY DEF MemInv, Held, Block
<1> QED BY <1>2, <1>3, UserPagesStay DEF MemInv

-------------------------------------------------------------------------------
(* 3. The rest of the invariant.                                           *)

\* Where the kernel is within an operation.
Places ==
  /\ pc \in {"boot", "user", "switch", "invalidate"} => op = "none"
  /\ pc \in {"table", "heap", "stack", "map"} => op \in {"spawn", "fork", "exec"}
  /\ pc \in {"free", "table"} => va = 1
  /\ pc = "load" => op \in {"spawn", "exec"} /\ va <= size
  /\ pc = "clone" => op = "fork"
  /\ pc = "free" => op \in {"exec", "exit"}
  /\ pc = "drop" => op = "exit"

\* Whom the operation is about.
Actors ==
  /\ pc \in {"user", "invalidate"} \/ op \in {"fork", "exec", "exit"} =>
       current \in Procs /\ state[current] = "READY"
  /\ op \in {"exec", "exit"} => target = current
  /\ op \in {"spawn", "fork"} => state[target] = "NONE"

Building == pc \in {"load", "clone", "heap", "stack", "map"}

\* A process that can run has a level-1 table, and one under construction too.
HasTable ==
  /\ \A p \in Procs : state[p] = "READY" => ttbr0[p] # NULL
  /\ Building => ttbr0[target] # NULL

\* The pages that are not there yet: an assignment overwrites none.
Blank ==
  /\ \A p \in Procs : state[p] = "NONE" /\ ~(op \in {"spawn", "fork"} /\ p = target)
                      => pages[p] = NoPages
  /\ pc \in {"table", "clone"} => pages[target] = NoPages
  /\ pc = "load" => \A v \in VAs : v >= va => pages[target][v] = NULL
  /\ pc = "heap" => pages[target][Heap] = NULL
  /\ pc \in {"heap", "stack"} => pages[target][Stack] = NULL
  /\ pc \in {"stack", "map"} => pages[target][Heap] # NULL
  /\ pc = "map" => pages[target][Stack] # NULL

\* A level-1 table maps its process's list, as far as map_page has got.
Settled(p) == state[p] = "READY" /\ ~(op \in {"exec", "exit"} /\ p = target)
Mapped ==
  /\ Building => \A v \in VAs : mapping[ttbr0[target]][v] =
                                  IF pc = "map" /\ v < va THEN pages[target][v] ELSE NULL
  /\ \A p \in Procs : Settled(p) => /\ mapping[ttbr0[p]] = pages[p]
                                    /\ pages[p][Heap] # NULL /\ pages[p][Stack] # NULL

\* The table in TTBR0 is the current process's, or nobody else's memory.
LoadedIs ==
  /\ pc \in {"user", "invalidate"} \/ op = "fork" => loaded = ttbr0[current]
  /\ pc = "boot" \/ op = "spawn" => loaded = NULL
  /\ loaded # NULL => \/ current \in Procs /\ loaded = ttbr0[current]
                      \/ Block(loaded) \subseteq lost
                      \/ Block(loaded) \subseteq free /\ pc \in {"switch", "panic"}

\* Where the TLB is not stale: from TLBIASID to the next exit or exec.
TlbIs ==
  FlushAll /\ (pc = "user" \/ op = "fork") /\ tlb # NULL =>
    tlb[2] = mapping[loaded][tlb[1]]

\* The inductive invariant.
IInv ==
  /\ TypeOK /\ MemInv
  /\ Places /\ Actors /\ HasTable /\ Blank /\ Mapped /\ LoadedIs /\ TlbIs
  /\ ImpossiblePanics

\* What belongs to a process are frames.
LEMMA OwnedAreFrames ==
  ASSUME TypeOK, MemInv, NEW c \in Procs
  PROVE  lost \cup OnlyOf(c) \cup TableOf(c) \cup Level2Of(c) \subseteq Frames
<1>1. OnlyOf(c) \subseteq Frames
  BY FramesAre DEF OnlyOf, TypeOK
<1>2. TableOf(c) \subseteq Frames
  BY TableIs DEF MemInv, Held
<1>3. Level2Of(c) \subseteq Frames
  BY Level2Is DEF TypeOK
<1> QED BY <1>1, <1>2, <1>3 DEF TypeOK

\* A page on a list has a reference.
LEMMA CountedAreNotZero ==
  ASSUME TypeOK, MemInv, NEW c \in Procs, NEW v \in VAs, pages[c][v] # NULL
  PROVE  ref_count[pages[c][v]] # 0
<1>1. /\ pages[c][v] \in FramesOf(c) /\ ref_count[pages[c][v]] \in Nat
  BY FramesAre DEF TypeOK
<1>2. /\ pages[c][v] \in UserFrames /\ c \in Holders(pages[c][v])
      /\ Holders(pages[c][v]) \in SUBSET Procs
  BY <1>1 DEF UserFrames, Holders
<1>3. Cardinality(Holders(pages[c][v])) # 0
  BY <1>2, HoldersFinite, FS_EmptySet
<1>4. /\ Cardinality(Holders(pages[c][v])) <= ref_count[pages[c][v]]
      /\ Cardinality(Holders(pages[c][v])) \in Nat
  BY <1>2, HoldersFinite DEF MemInv, RefCountCovers
<1> QED BY <1>1, <1>3, <1>4

\* No two processes have the same level-1 table.
LEMMA TablesDiffer ==
  ASSUME TypeOK, MemInv, NEW p \in Procs, NEW q \in Procs, p # q, ttbr0[p] # NULL
  PROVE  ttbr0[p] # ttbr0[q]
<1>1. ttbr0[p] \in Int /\ ttbr0[p] \in Block(ttbr0[p])
  BY Numbers, BlockFacts DEF TypeOK
<1>2. ttbr0[p] \in TableOf(p) /\ ttbr0[p] \notin TableOf(q)
  BY <1>1, TableIs DEF MemInv, Owners
<1> QED BY <1>1, <1>2, TableIs

LEMMA AllocateAsidType ==
  ASSUME AllocateAsid, asid_bitmap \subseteq 1 .. MaxAsid
  PROVE  asid_bitmap' \subseteq 1 .. MaxAsid /\ (tlb' = NULL \/ tlb' = tlb)
<1>1. CASE asid_bitmap = 1 .. MaxAsid
  <2>1. 1 \in 1 .. MaxAsid
    BY Numbers
  <2>2. asid_bitmap' = {1} /\ tlb' = NULL
    BY <1>1 DEF AllocateAsid
  <2> QED BY <2>1, <2>2
<1>2. CASE asid_bitmap # 1 .. MaxAsid
  <2>1. PICK a \in (1 .. MaxAsid) \ asid_bitmap : asid_bitmap' = asid_bitmap \cup {a}
    BY <1>2 DEF AllocateAsid
  <2> QED BY <2>1, <1>2 DEF AllocateAsid
<1> QED BY <1>1, <1>2

-------------------------------------------------------------------------------
(* 4. Every step keeps it.                                                 *)

\* A panic that can happen; later steps change nothing any more.
LEMMA PanicKeeps ==
  ASSUME IInv, NEW why, Panic(why), why \in {"boot", "exec_lost", "no_level2", "no_runnable"}
  PROVE  IInv'
<1>0. /\ pc' = "panic" /\ reason' = why
      /\ UNCHANGED <<free, held, state, pages, ref_count, ttbr0, level2, mapping, asid_bitmap,
                     current, loaded, tlb, op, target, size, va, lost>>
  BY DEF Panic, alloc, tables, cpu
<1>1. MemInv'
  BY <1>0, MemStays DEF IInv
<1>2. TypeOK' /\ ImpossiblePanics'
  BY <1>0 DEF IInv, TypeOK, PCs, Reasons, ImpossiblePanics
<1>3. Places' /\ Actors'
  BY <1>0 DEF IInv, Places, Actors
<1>4. HasTable' /\ Blank'
  BY <1>0 DEF IInv, HasTable, Building, Blank
<1>5. Mapped'
  BY <1>0 DEF IInv, Mapped, Building, Settled
<1>6. LoadedIs' /\ TlbIs'
  BY <1>0 DEF IInv, LoadedIs, TlbIs, Block
<1> QED BY <1>1, <1>2, <1>3, <1>4, <1>5, <1>6 DEF IInv

LEMMA BeginKeeps ==
  ASSUME IInv, Spawn \/ Fork \/ Exec \/ Exit
  PROVE  IInv'
<1>0. UNCHANGED <<free, held, state, pages, ref_count, ttbr0, level2, mapping, asid_bitmap,
                  current, loaded, tlb, reason, lost>>
  BY DEF Spawn, Fork, Exec, Exit, Begin, alloc, tables, cpu
<1>1. /\ op = "none" /\ va' = 1 /\ size' \in 1 .. MaxCode /\ target' \in Procs
      /\ \/ pc = "boot" /\ op' = "spawn" /\ pc' = "table" /\ state[target'] = "NONE"
         \/ pc = "user" /\ op' = "fork" /\ pc' = "table" /\ state[target'] = "NONE"
         \/ pc = "user" /\ op' \in {"exec", "exit"} /\ pc' = "free" /\ target' = current
  BY Numbers DEF Spawn, Fork, Exec, Exit, Begin, AvailableProcess, IInv, Places, Actors
<1>2. MemInv'
  BY <1>0, MemStays DEF IInv
<1>3. TypeOK' /\ ImpossiblePanics'
  <2>1. va' \in 1 .. (Stack + 1)
    BY <1>1, Numbers
  <2> QED BY <1>0, <1>1, <2>1 DEF IInv, TypeOK, PCs, Ops, ImpossiblePanics
<1>4. Places' /\ Actors'
  BY <1>0, <1>1 DEF IInv, Places, Actors
<1>5. HasTable' /\ Blank'
  BY <1>0, <1>1 DEF IInv, HasTable, Building, Blank
<1>6. Mapped'
  BY <1>0, <1>1 DEF IInv, Mapped, Building, Settled
<1>7. LoadedIs' /\ TlbIs'
  BY <1>0, <1>1 DEF IInv, LoadedIs, TlbIs, Block
<1> QED BY <1>2, <1>3, <1>4, <1>5, <1>6, <1>7 DEF IInv

\* The table walker of the MMU.
LEMMA WalkKeeps ==
  ASSUME IInv, Walk
  PROVE  IInv'
<1>0. UNCHANGED <<free, held, state, pages, ref_count, ttbr0, level2, mapping, asid_bitmap,
                  current, loaded, pc, op, target, size, va, reason, lost>>
  BY DEF Walk, alloc, tables, cpu
<1>1. PICK v \in VAs : /\ loaded # NULL /\ mapping[loaded][v] # NULL
                       /\ tlb' = <<v, mapping[loaded][v]>>
  BY DEF Walk
<1>2. MemInv'
  BY <1>0, MemStays DEF IInv
<1>3. TypeOK' /\ ImpossiblePanics'
  <2>1. tlb' \in VAs \X Frames
    BY <1>1 DEF IInv, TypeOK
  <2> QED BY <1>0, <2>1 DEF IInv, TypeOK, ImpossiblePanics
<1>4. Places' /\ Actors'
  BY <1>0 DEF IInv, Places, Actors
<1>5. HasTable' /\ Blank'
  BY <1>0 DEF IInv, HasTable, Building, Blank
<1>6. Mapped'
  BY <1>0 DEF IInv, Mapped, Building, Settled
<1>7. LoadedIs'
  BY <1>0 DEF IInv, LoadedIs, Block
<1>8. TlbIs'
  BY <1>0, <1>1 DEF TlbIs
<1> QED BY <1>2, <1>3, <1>4, <1>5, <1>6, <1>7, <1>8 DEF IInv

LEMMA RescheduleKeeps ==
  ASSUME IInv, Reschedule
  PROVE  IInv'
<1>0. /\ pc = "user" /\ pc' = "switch" /\ op = "none"
      /\ UNCHANGED <<free, held, state, pages, ref_count, ttbr0, level2, mapping, asid_bitmap,
                     current, loaded, tlb, op, target, size, va, reason, lost>>
  BY DEF Reschedule, alloc, tables, cpu, IInv, Places
<1>2. MemInv'
  BY <1>0, MemStays DEF IInv
<1>3. TypeOK' /\ ImpossiblePanics'
  BY <1>0 DEF IInv, TypeOK, PCs, ImpossiblePanics
<1>4. Places' /\ Actors'
  BY <1>0 DEF IInv, Places, Actors
<1>5. HasTable' /\ Blank'
  BY <1>0 DEF IInv, HasTable, Building, Blank
<1>6. Mapped'
  BY <1>0 DEF IInv, Mapped, Building, Settled
<1>7. LoadedIs' /\ TlbIs'
  BY <1>0 DEF IInv, LoadedIs, TlbIs, Block
<1> QED BY <1>2, <1>3, <1>4, <1>5, <1>6, <1>7 DEF IInv

\* The registers over the fields of process_t: the process is dead.
LEMMA UndefinedKeeps ==
  ASSUME IInv, Undefined
  PROVE  IInv'
<1>0. /\ pc = "user" /\ pc' = "switch" /\ op = "none" /\ current \in Procs
      /\ state' = [state EXCEPT ![current] = "KILLED"]
      /\ pages' = [pages EXCEPT ![current] = NoPages]
      /\ ttbr0' = [ttbr0 EXCEPT ![current] = NULL]
      /\ lost' = lost \cup OnlyOf(current) \cup TableOf(current) \cup Level2Of(current)
      /\ UNCHANGED <<free, held, ref_count, level2, mapping, asid_bitmap, current, loaded,
                     tlb, op, target, size, va, reason>>
  BY DEF Undefined, alloc, cpu, IInv, Places, Actors
<1>1. /\ state'[current] = "KILLED" /\ pages'[current] = NoPages /\ ttbr0'[current] = NULL
      /\ \A q \in Procs : q # current =>
           state'[q] = state[q] /\ pages'[q] = pages[q] /\ ttbr0'[q] = ttbr0[q]
  BY <1>0 DEF IInv, TypeOK
<1>2. MemInv'
  BY <1>0, Forget DEF IInv
<1>3. TypeOK' /\ ImpossiblePanics'
  <2>1. pages' \in [Procs -> [VAs -> Frames \cup {NULL}]]
    BY <1>0 DEF IInv, TypeOK, NoPages
  <2>2. ttbr0' \in [Procs -> Frames \cup {NULL}]
    BY <1>0 DEF IInv, TypeOK
  <2>3. state' \in [Procs -> {"NONE", "READY", "KILLED"}]
    BY <1>0 DEF IInv, TypeOK
  <2>4. lost' \subseteq Frames
    BY <1>0, OwnedAreFrames DEF IInv
  <2> QED BY <1>0, <2>1, <2>2, <2>3, <2>4 DEF IInv, TypeOK, PCs, ImpossiblePanics
<1>4. Places' /\ Actors'
  BY <1>0, <1>1 DEF IInv, Places, Actors
<1>5. HasTable' /\ Blank'
  BY <1>0, <1>1 DEF IInv, HasTable, Building, Blank
<1>6. Mapped'
  BY <1>0, <1>1 DEF IInv, Mapped, Building, Settled
<1>7. LoadedIs'
  <2>1. loaded = ttbr0[current]
    BY <1>0 DEF IInv, LoadedIs
  <2>2. loaded # NULL => Block(loaded) \subseteq lost'
    BY <2>1, <1>0 DEF TableOf
  <2> QED BY <1>0, <2>2 DEF LoadedIs, Block
<1>8. TlbIs'
  BY <1>0 DEF TlbIs
<1> QED BY <1>2, <1>3, <1>4, <1>5, <1>6, <1>7, <1>8 DEF IInv

LEMMA FreePagesKeeps ==
  ASSUME IInv, FreePages
  PROVE  IInv'
<1>1. PICK v \in VAs : /\ pc = "free" /\ FirstPage(target, v)
                       /\ IF ref_count[pages[target][v]] = 0
                          THEN Panic("ref_count")
                          ELSE /\ DropReference(target, v, pages[target][v])
                               /\ pages' = [pages EXCEPT ![target][v] = NULL]
                               /\ UNCHANGED <<state, tables, cpu, tlb, pc, op, target, size,
                                              va, reason>>
  BY DEF FreePages
<1>2. /\ pages[target][v] # NULL /\ pages[target][v] \in Frames
      /\ target \in Procs /\ target = current /\ op \in {"exec", "exit"}
  BY <1>1 DEF FirstPage, IInv, TypeOK, Places, Actors
<1>3. ref_count[pages[target][v]] # 0
  BY <1>2, CountedAreNotZero DEF IInv
<1>4. /\ DropReference(target, v, pages[target][v])
      /\ pages' = [pages EXCEPT ![target][v] = NULL]
      /\ UNCHANGED <<state, ttbr0, level2, mapping, asid_bitmap, current, loaded, tlb, pc, op,
                     target, size, va, reason>>
  BY <1>1, <1>3 DEF tables, cpu
<1>5. /\ MemInv' /\ ref_count' \in [Frames -> Nat]
      /\ free' \subseteq Frames /\ lost' \subseteq Frames
  BY <1>2, <1>4, Release DEF IInv
<1>6. /\ \A q \in Procs : q # target => pages'[q] = pages[q]
      /\ held' \subseteq held /\ (loaded # NULL /\ Block(loaded) \subseteq lost => Block(loaded) \subseteq lost')
  BY <1>4 DEF IInv, TypeOK, DropReference, GivePage, alloc
<1>7. TypeOK' /\ ImpossiblePanics'
  <2>1. pages' \in [Procs -> [VAs -> Frames \cup {NULL}]]
    BY <1>2, <1>4 DEF IInv, TypeOK
  <2> QED BY <1>4, <1>5, <1>6, <2>1 DEF IInv, TypeOK, ImpossiblePanics
<1>8. Places' /\ Actors'
  BY <1>4 DEF IInv, Places, Actors
<1>9. HasTable'
  BY <1>1, <1>4 DEF IInv, HasTable, Building
<1>10. Blank'
  BY <1>1, <1>2, <1>4, <1>6 DEF IInv, Blank, Actors
<1>11. Mapped'
  BY <1>1, <1>2, <1>4, <1>6 DEF IInv, Mapped, Building, Settled
<1>12. LoadedIs' /\ TlbIs'
  BY <1>1, <1>2, <1>4, <1>6 DEF IInv, LoadedIs, TlbIs, Block
<1> QED BY <1>5, <1>7, <1>8, <1>9, <1>10, <1>11, <1>12 DEF IInv

LEMMA FreePagesDoneKeeps ==
  ASSUME IInv, FreePagesDone
  PROVE  IInv'
<1>0. /\ pc = "free" /\ pages[target] = NoPages
      /\ \/ op = "exit" /\ pc' = "drop"
         \/ op = "exec" /\ pc' = "table"
      /\ UNCHANGED <<free, held, state, pages, ref_count, ttbr0, level2, mapping, asid_bitmap,
                     current, loaded, tlb, op, target, size, va, reason, lost>>
  BY DEF FreePagesDone, alloc, tables, cpu, IInv, Places
<1>2. MemInv'
  BY <1>0, MemStays DEF IInv
<1>3. TypeOK' /\ ImpossiblePanics'
  BY <1>0 DEF IInv, TypeOK, PCs, ImpossiblePanics
<1>4. Places' /\ Actors'
  BY <1>0 DEF IInv, Places, Actors
<1>5. HasTable' /\ Blank'
  BY <1>0 DEF IInv, HasTable, Building, Blank
<1>6. Mapped'
  BY <1>0 DEF IInv, Mapped, Building, Settled
<1>7. LoadedIs' /\ TlbIs'
  BY <1>0 DEF IInv, LoadedIs, TlbIs, Block
<1> QED BY <1>2, <1>3, <1>4, <1>5, <1>6, <1>7 DEF IInv

\* The level-1 table goes, though TTBR0 still holds it.
LEMMA DropKeeps ==
  ASSUME IInv, Drop
  PROVE  IInv'
<1>0. /\ pc = "drop" /\ op = "exit" /\ target = current /\ target \in Procs
      /\ state[target] = "READY" /\ ttbr0[target] # NULL
  BY DEF Drop, IInv, Places, Actors, HasTable, TypeOK
<1>1. /\ pc' = "switch" /\ op' = "none" /\ target' = 0 /\ size' = 1 /\ va' = 1
      /\ GiveBlock(ttbr0[target]) /\ lost' = lost \cup Level2Of(target)
      /\ ttbr0' = [ttbr0 EXCEPT ![target] = NULL]
      /\ state' = [state EXCEPT ![target] = "KILLED"] /\ current' = NULL
      /\ UNCHANGED <<pages, ref_count, level2, mapping, asid_bitmap, loaded, tlb, reason>>
  BY DEF Drop, Idle
<1>2. MemInv' /\ free' \subseteq Frames /\ lost' \subseteq Frames
  BY <1>0, <1>1, ReleaseTable DEF IInv
<1>3. /\ state'[target] = "KILLED" /\ ttbr0'[target] = NULL
      /\ \A q \in Procs : q # target => state'[q] = state[q] /\ ttbr0'[q] = ttbr0[q]
      /\ held' \subseteq held /\ lost \subseteq lost' /\ Block(ttbr0[target]) \subseteq free'
  BY <1>1 DEF IInv, TypeOK, GiveBlock
<1>4. TypeOK' /\ ImpossiblePanics'
  <2>1. state' \in [Procs -> {"NONE", "READY", "KILLED"}] /\ ttbr0' \in [Procs -> Frames \cup {NULL}]
    BY <1>1 DEF IInv, TypeOK
  <2>2. target' \in Procs /\ size' \in 1 .. MaxCode /\ va' \in 1 .. (Stack + 1)
    BY <1>1, Numbers
  <2> QED BY <1>1, <1>2, <1>3, <2>1, <2>2 DEF IInv, TypeOK, ImpossiblePanics, PCs, Ops
<1>5. Places' /\ Actors'
  BY <1>1 DEF Places, Actors
<1>6. HasTable' /\ Blank'
  BY <1>0, <1>1, <1>3 DEF IInv, HasTable, Building, Blank
<1>7. Mapped'
  BY <1>0, <1>1, <1>3 DEF IInv, Mapped, Building, Settled
<1>8. LoadedIs'
  <2>1. loaded # NULL => loaded = ttbr0[target] \/ Block(loaded) \subseteq lost
    BY <1>0 DEF IInv, LoadedIs
  <2>2. loaded # NULL => Block(loaded) \subseteq free' \/ Block(loaded) \subseteq lost'
    BY <2>1, <1>3
  <2> QED BY <1>1, <2>2 DEF LoadedIs, Block
<1>9. TlbIs'
  BY <1>1 DEF TlbIs
<1> QED BY <1>2, <1>4, <1>5, <1>6, <1>7, <1>8, <1>9 DEF IInv

\* fork gives up, and forgets the process it was building; spawn and exec panic.
LEMMA OutOfMemoryKeeps ==
  ASSUME IInv, OutOfMemory, pc \in {"table", "load", "heap", "stack"}
  PROVE  IInv'
<1>1. CASE op # "fork"
  <2>1. Panic("boot") \/ Panic("exec_lost")
    BY <1>1 DEF OutOfMemory
  <2> QED BY <2>1, PanicKeeps
<1>2. CASE op = "fork"
  <2>0. /\ pages' = [pages EXCEPT ![target] = NoPages]
        /\ ttbr0' = [ttbr0 EXCEPT ![target] = NULL]
        /\ lost' = lost \cup OnlyOf(target) \cup TableOf(target) \cup Level2Of(target)
        /\ pc' = "user" /\ op' = "none" /\ target' = 0 /\ size' = 1 /\ va' = 1
        /\ UNCHANGED <<free, held, state, ref_count, level2, mapping, asid_bitmap, current,
                       loaded, tlb, reason>>
    BY <1>2 DEF OutOfMemory, Idle, alloc, cpu
  <2>1. /\ target \in Procs /\ state[target] = "NONE" /\ current \in Procs
        /\ state[current] = "READY" /\ loaded = ttbr0[current]
    BY <1>2 DEF IInv, TypeOK, Actors, LoadedIs
  <2>2. /\ pages'[target] = NoPages /\ ttbr0'[target] = NULL
        /\ \A q \in Procs : q # target => pages'[q] = pages[q] /\ ttbr0'[q] = ttbr0[q]
    BY <2>0, <2>1 DEF IInv, TypeOK
  <2>3. MemInv'
    BY <2>0, <2>1, Forget DEF IInv
  <2>4. TypeOK' /\ ImpossiblePanics'
    <3>1. /\ pages' \in [Procs -> [VAs -> Frames \cup {NULL}]]
          /\ ttbr0' \in [Procs -> Frames \cup {NULL}]
      BY <2>0, <2>1 DEF IInv, TypeOK, NoPages
    <3>2. lost' \subseteq Frames
      BY <2>0, <2>1, OwnedAreFrames DEF IInv
    <3>3. target' \in Procs /\ size' \in 1 .. MaxCode /\ va' \in 1 .. (Stack + 1)
      BY <2>0, Numbers
    <3> QED BY <2>0, <3>1, <3>2, <3>3 DEF IInv, TypeOK, PCs, Ops, ImpossiblePanics
  <2>5. Places' /\ Actors'
    BY <2>0, <2>1 DEF Places, Actors
  <2>6. HasTable' /\ Blank'
    BY <1>2, <2>0, <2>1, <2>2 DEF IInv, HasTable, Building, Blank
  <2>7. Mapped'
    BY <1>2, <2>0, <2>1, <2>2 DEF IInv, Mapped, Building, Settled
  <2>8. LoadedIs'
    BY <2>0, <2>1, <2>2 DEF LoadedIs, Block
  <2>9. TlbIs'
    BY <1>2, <2>0 DEF IInv, TlbIs
  <2> QED BY <2>3, <2>4, <2>5, <2>6, <2>7, <2>8, <2>9 DEF IInv
<1> QED BY <1>1, <1>2

\* A new level-1 table; exec forgets the old one, which TTBR0 still holds.
LEMMA InitializeMemoryKeeps ==
  ASSUME IInv, InitializeMemory
  PROVE  IInv'
<1>1. CASE OutOfMemory
  <2>1. pc = "table"
    BY DEF InitializeMemory
  <2> QED BY <1>1, <2>1, OutOfMemoryKeeps
<1>2. ASSUME NEW b \in Frames, TakeBlock(b), ttbr0' = [ttbr0 EXCEPT ![target] = b],
             level2' = [level2 EXCEPT ![b] = NoTables], mapping' = [mapping EXCEPT ![b] = NoPages],
             AllocateAsid, lost' = lost \cup TableOf(target) \cup Level2Of(target),
             pc' = IF op = "fork" THEN "clone" ELSE "load", pc = "table",
             UNCHANGED <<state, pages, ref_count, cpu, op, target, size, va, reason>>
      PROVE  IInv'
  <2>0. /\ UNCHANGED <<state, pages, ref_count, current, loaded, op, target, size, va, reason>>
        /\ target \in Procs /\ pages[target] = NoPages /\ va = 1
        /\ op \in {"spawn", "fork", "exec"} /\ b # NULL /\ b \in Int
    BY <1>2, Numbers DEF cpu, IInv, TypeOK, Places, Blank
  <2>1. MemInv' /\ \A q \in Procs : q # target => ttbr0[q] # b
    BY <1>2, <2>0, AddTable DEF IInv
  <2>2. /\ ttbr0'[target] = b /\ \A q \in Procs : q # target => ttbr0'[q] = ttbr0[q]
        /\ mapping'[b] = NoPages /\ \A c \in Frames : c # b => mapping'[c] = mapping[c]
    BY <1>2, <2>0 DEF IInv, TypeOK
  <2>3. asid_bitmap' \subseteq 1 .. MaxAsid /\ (tlb' = NULL \/ tlb' = tlb)
    BY <1>2, AllocateAsidType DEF IInv, TypeOK
  <2>4. TypeOK' /\ ImpossiblePanics'
    <3>1. ttbr0' \in [Procs -> Frames \cup {NULL}]
      BY <1>2 DEF IInv, TypeOK
    <3>2. level2' \in [Frames -> [Sections -> Frames \cup {NULL}]]
      BY <1>2 DEF IInv, TypeOK, NoTables
    <3>3. mapping' \in [Frames -> [VAs -> Frames \cup {NULL}]]
      BY <1>2 DEF IInv, TypeOK, NoPages
    <3>4. lost' \subseteq Frames
      BY <1>2, <2>0, OwnedAreFrames DEF IInv
    <3>5. free' \subseteq Frames /\ held' \subseteq Frames \X {1, BlockPages}
      BY <1>2 DEF IInv, TypeOK, TakeBlock
    <3>6. tlb' \in (VAs \X Frames) \cup {NULL}
      BY <2>3 DEF IInv, TypeOK
    <3>7. pc' \in PCs
      BY <1>2 DEF PCs
    <3> QED BY <2>0, <2>3, <3>1, <3>2, <3>3, <3>4, <3>5, <3>6, <3>7
        DEF IInv, TypeOK, ImpossiblePanics
  <2>5. Places' /\ Actors'
    <3>1. 1 <= size
      BY DEF IInv, TypeOK
    <3> QED BY <1>2, <2>0, <3>1 DEF IInv, Places, Actors
  <2>6. HasTable' /\ Blank'
    <3>1. HasTable'
      BY <1>2, <2>0, <2>2 DEF IInv, HasTable
    <3>2. \A v \in VAs : pages[target][v] = NULL
      BY <2>0 DEF NoPages
    <3> QED BY <1>2, <2>0, <3>1, <3>2 DEF IInv, Blank
  <2>7. Mapped'
    <3>1. \A v \in VAs : mapping'[ttbr0'[target]][v] = NULL
      BY <2>2 DEF NoPages
    <3>2. ASSUME NEW p \in Procs, Settled(p)'
          PROVE  mapping'[ttbr0'[p]] = pages[p] /\ pages[p][Heap] # NULL /\ pages[p][Stack] # NULL
      <4>1. Settled(p) /\ p # target
        BY <2>0, <3>2 DEF Settled, IInv, Actors
      <4>2. ttbr0[p] \in Frames /\ ttbr0[p] # b
        BY <4>1, <2>1 DEF Settled, IInv, HasTable, TypeOK
      <4> QED BY <4>1, <4>2, <2>2 DEF IInv, Mapped
    <3> QED BY <1>2, <2>0, <3>1, <3>2 DEF Mapped
  <2>8. LoadedIs'
    <3>1. op = "fork" => loaded = ttbr0'[current]
      BY <2>0, <2>2 DEF IInv, LoadedIs, Actors
    <3>2. op = "spawn" => loaded = NULL
      BY DEF IInv, LoadedIs
    <3>3. loaded # NULL => \/ current \in Procs /\ loaded = ttbr0'[current]
                           \/ Block(loaded) \subseteq lost'
      <4>1. CASE current \in Procs /\ loaded = ttbr0[current] /\ current # target
        BY <4>1, <2>2
      <4>2. CASE loaded = ttbr0[target] /\ loaded # NULL
        BY <4>2, <1>2 DEF TableOf
      <4>3. CASE Block(loaded) \subseteq lost
        BY <4>3, <1>2
      <4> QED BY <4>1, <4>2, <4>3, <1>2 DEF IInv, LoadedIs
    <3> QED BY <1>2, <2>0, <3>1, <3>2, <3>3 DEF LoadedIs, Block
  <2>9. TlbIs'
    <3>1. CASE op = "fork"
      <4>1. current \in Procs /\ current # target /\ state[current] = "READY"
        BY <3>1 DEF IInv, Actors
      <4>2. loaded = ttbr0[current] /\ loaded \in Frames /\ loaded # b
        BY <3>1, <4>1, <2>1 DEF IInv, LoadedIs, HasTable, TypeOK
      <4>3. mapping'[loaded] = mapping[loaded]
        BY <4>2, <2>2
      <4> QED BY <3>1, <4>3, <2>0, <2>3 DEF IInv, TlbIs
    <3>2. CASE op # "fork"
      BY <3>2, <1>2, <2>0 DEF TlbIs
    <3> QED BY <3>1, <3>2
  <2> QED BY <2>1, <2>4, <2>5, <2>6, <2>7, <2>8, <2>9 DEF IInv
<1> QED BY <1>1, <1>2 DEF InitializeMemory

\* A page of the program.
LEMMA LoadPageKeeps ==
  ASSUME IInv, LoadPage
  PROVE  IInv'
<1>1. CASE OutOfMemory
  <2>1. pc = "load"
    BY DEF LoadPage
  <2> QED BY <1>1, <2>1, OutOfMemoryKeeps
<1>2. ASSUME NEW f \in Frames, TakePage(f), pages' = [pages EXCEPT ![target][va] = f],
             ref_count' = [ref_count EXCEPT ![f] = 1], va' = va + 1,
             pc' = IF va = size THEN "heap" ELSE "load", pc = "load",
             UNCHANGED <<state, tables, cpu, tlb, op, target, size, reason, lost>>
      PROVE  IInv'
  <2>0. /\ UNCHANGED <<state, ttbr0, level2, mapping, asid_bitmap, current, loaded, tlb, op,
                       target, size, reason, lost>>
        /\ target \in Procs /\ op \in {"spawn", "exec"} /\ f # NULL
        /\ va \in Nat /\ size \in Nat /\ 1 <= va /\ va <= size /\ size <= MaxCode
    BY <1>2, Numbers DEF tables, cpu, IInv, TypeOK, Places, Blank
  <2>1. va \in VAs /\ Heap \in VAs /\ Stack \in VAs /\ Heap # va /\ Stack # va
        /\ va <= Heap /\ va <= Stack /\ va + 1 \in 1 .. (Stack + 1)
    BY <2>0, Numbers
  <2>2. \A v \in VAs : v >= va => pages[target][v] = NULL
    BY <1>2 DEF IInv, Blank
  <2>3. /\ pages'[target][va] = f
        /\ \A v \in VAs : v # va => pages'[target][v] = pages[target][v]
        /\ \A q \in Procs : q # target => pages'[q] = pages[q]
    BY <1>2, <2>0, <2>1 DEF IInv, TypeOK
  <2>4. pages[target][va] = NULL
    BY <2>0, <2>1, <2>2
  <2>5. MemInv'
    BY <1>2, <2>0, <2>1, <2>4, AddUser DEF IInv
  <2>6. TypeOK' /\ ImpossiblePanics'
    <3>1. pages' \in [Procs -> [VAs -> Frames \cup {NULL}]]
      BY <1>2, <2>0, <2>1 DEF IInv, TypeOK
    <3>2. ref_count' \in [Frames -> Nat]
      BY <1>2 DEF IInv, TypeOK
    <3>3. free' \subseteq Frames /\ held' \subseteq Frames \X {1, BlockPages}
      BY <1>2 DEF IInv, TypeOK, TakePage
    <3>4. va' \in 1 .. (Stack + 1) /\ pc' \in PCs
      BY <1>2, <2>1 DEF PCs
    <3> QED BY <2>0, <3>1, <3>2, <3>3, <3>4 DEF IInv, TypeOK, ImpossiblePanics
  <2>7. Places' /\ Actors'
    <3>1. pc' = "load" => va' <= size
      BY <1>2, <2>0
    <3> QED BY <1>2, <2>0, <3>1 DEF IInv, Places, Actors
  <2>8. HasTable' /\ Blank'
    <3>1. HasTable'
      BY <1>2, <2>0 DEF IInv, HasTable, Building
    <3>2. \A v \in VAs : v >= va' => pages'[target][v] = NULL
      BY <1>2, <2>0, <2>2, <2>3, Numbers
    <3>3. pages'[target][Heap] = NULL /\ pages'[target][Stack] = NULL
      <4>1. Heap >= va /\ Stack >= va
        BY <2>0, Numbers
      <4> QED BY <4>1, <2>1, <2>2, <2>3
    <3>4. \A p \in Procs : state[p] = "NONE" /\ ~(op \in {"spawn", "fork"} /\ p = target)
                           => pages'[p] = NoPages
      BY <2>0, <2>3 DEF IInv, Blank, Actors
    <3> QED BY <1>2, <2>0, <3>1, <3>2, <3>3, <3>4 DEF Blank
  <2>9. Mapped'
    <3>1. \A v \in VAs : mapping[ttbr0[target]][v] = NULL
      BY <1>2 DEF IInv, Mapped, Building
    <3>2. \A p \in Procs : Settled(p)' => Settled(p) /\ p # target
      BY <2>0 DEF Settled, IInv, Actors
    <3> QED BY <1>2, <2>0, <2>3, <3>1, <3>2 DEF IInv, Mapped
  <2>10. LoadedIs' /\ TlbIs'
    BY <1>2, <2>0 DEF IInv, LoadedIs, TlbIs, Block
  <2> QED BY <2>5, <2>6, <2>7, <2>8, <2>9, <2>10 DEF IInv
<1> QED BY <1>1, <1>2 DEF LoadPage

\* The parent's code pages.
LEMMA ClonePagesKeeps ==
  ASSUME IInv, ClonePages
  PROVE  IInv'
<1>0. /\ pc = "clone" /\ pc' = "heap" /\ op = "fork"
      /\ pages' = [pages EXCEPT ![target] =
                     [v \in VAs |-> IF v <= MaxCode THEN pages[current][v] ELSE NULL]]
      /\ ref_count' = [f \in Frames |->
                         IF \E v \in 1 .. MaxCode : pages[current][v] = f
                         THEN ref_count[f] + 1 ELSE ref_count[f]]
      /\ UNCHANGED <<free, held, state, ttbr0, level2, mapping, asid_bitmap, current, loaded,
                     tlb, op, target, size, va, reason, lost>>
  BY DEF ClonePages, alloc, tables, cpu, IInv, Places
<1>1. /\ target \in Procs /\ current \in Procs /\ state[target] = "NONE"
      /\ state[current] = "READY" /\ pages[target] = NoPages
  BY <1>0 DEF IInv, TypeOK, Actors, Blank
<1>2. /\ \A v \in VAs : pages'[target][v] = IF v <= MaxCode THEN pages[current][v] ELSE NULL
      /\ \A q \in Procs : q # target => pages'[q] = pages[q]
  BY <1>0, <1>1 DEF IInv, TypeOK
<1>3. MemInv'
  BY <1>0, <1>1, Share DEF IInv
<1>4. TypeOK' /\ ImpossiblePanics'
  <2>1. pages' \in [Procs -> [VAs -> Frames \cup {NULL}]]
    <3>1. [v \in VAs |-> IF v <= MaxCode THEN pages[current][v] ELSE NULL]
            \in [VAs -> Frames \cup {NULL}]
      BY <1>1 DEF IInv, TypeOK
    <3> QED BY <3>1, <1>0 DEF IInv, TypeOK
  <2>2. ref_count' \in [Frames -> Nat]
    BY <1>0 DEF IInv, TypeOK
  <2> QED BY <1>0, <2>1, <2>2 DEF IInv, TypeOK, PCs, ImpossiblePanics
<1>5. Places' /\ Actors'
  BY <1>0 DEF IInv, Places, Actors
<1>6. HasTable' /\ Blank'
  <2>1. pages'[target][Heap] = NULL /\ pages'[target][Stack] = NULL
    BY <1>2, Numbers
  <2> QED BY <1>0, <1>1, <1>2, <2>1 DEF IInv, HasTable, Building, Blank
<1>7. Mapped'
  BY <1>0, <1>1, <1>2 DEF IInv, Mapped, Building, Settled
<1>8. LoadedIs' /\ TlbIs'
  BY <1>0 DEF IInv, LoadedIs, TlbIs, Block
<1> QED BY <1>3, <1>4, <1>5, <1>6, <1>7, <1>8 DEF IInv

\* The heap page and the stack page; a parent has both.
LEMMA SetupPageKeeps ==
  ASSUME IInv, NEW at, NEW v, NEW then, SetupPage(at, v, then),
         \/ at = "heap" /\ v = Heap /\ then = "stack"
         \/ at = "stack" /\ v = Stack /\ then = "map"
  PROVE  IInv'
<1>0. pc = at
  BY DEF SetupPage
<1>1. CASE OutOfMemory
  BY <1>0, <1>1, OutOfMemoryKeeps
<1>2. ASSUME NEW f \in Frames, TakePage(f), pages' = [pages EXCEPT ![target][v] = f],
             ref_count' = [ref_count EXCEPT ![f] = 1], va' = 1,
             IF op = "fork" /\ pages[current][v] = NULL
             THEN pc' = "panic" /\ reason' = "parent_pages"
             ELSE pc' = then /\ UNCHANGED reason,
             UNCHANGED <<state, tables, cpu, tlb, op, target, size, lost>>
      PROVE  IInv'
  <2>0. /\ UNCHANGED <<state, ttbr0, level2, mapping, asid_bitmap, current, loaded, tlb, op,
                       target, size, lost>>
        /\ target \in Procs /\ op \in {"spawn", "fork", "exec"} /\ f # NULL
        /\ v \in VAs /\ Heap \in VAs /\ Stack \in VAs /\ Heap # Stack
    BY <1>0, <1>2, Numbers DEF tables, cpu, IInv, TypeOK, Places
  <2>1. op = "fork" => pages[current][v] # NULL
    <3>1. op = "fork" => current \in Procs /\ Settled(current)
      BY DEF IInv, Actors, Settled
    <3> QED BY <3>1 DEF IInv, Mapped
  <2>2. pc' = then /\ reason' = reason
    BY <1>2, <2>1
  <2>3. pages[target][v] = NULL
    BY <1>0 DEF IInv, Blank
  <2>4. /\ pages'[target][v] = f
        /\ \A w \in VAs : w # v => pages'[target][w] = pages[target][w]
        /\ \A q \in Procs : q # target => pages'[q] = pages[q]
    BY <1>2, <2>0 DEF IInv, TypeOK
  <2>5. MemInv'
    BY <1>2, <2>0, <2>3, AddUser DEF IInv
  <2>6. TypeOK' /\ ImpossiblePanics'
    <3>1. pages' \in [Procs -> [VAs -> Frames \cup {NULL}]]
      BY <1>2, <2>0 DEF IInv, TypeOK
    <3>2. ref_count' \in [Frames -> Nat]
      BY <1>2 DEF IInv, TypeOK
    <3>3. free' \subseteq Frames /\ held' \subseteq Frames \X {1, BlockPages}
      BY <1>2 DEF IInv, TypeOK, TakePage
    <3>4. va' \in 1 .. (Stack + 1) /\ pc' \in PCs
      BY <1>2, <2>2, Numbers DEF PCs
    <3> QED BY <2>0, <2>2, <3>1, <3>2, <3>3, <3>4 DEF IInv, TypeOK, ImpossiblePanics
  <2>7. Places' /\ Actors'
    BY <2>0, <2>2 DEF IInv, Places, Actors
  <2>8. HasTable' /\ Blank'
    <3>1. HasTable'
      BY <1>0, <2>0, <2>2 DEF IInv, HasTable, Building
    <3>2. \A p \in Procs : state[p] = "NONE" /\ ~(op \in {"spawn", "fork"} /\ p = target)
                           => pages'[p] = NoPages
      BY <2>0, <2>4 DEF IInv, Blank, Actors
    <3>3. /\ pc' = "stack" => pages'[target][Stack] = NULL
          /\ pages'[target][Heap] # NULL
          /\ pc' = "map" => pages'[target][Stack] # NULL
      BY <1>0, <2>0, <2>2, <2>4 DEF IInv, Blank
    <3> QED BY <2>0, <2>2, <3>1, <3>2, <3>3 DEF Blank
  <2>9. Mapped'
    <3>1. \A w \in VAs : mapping[ttbr0[target]][w] = NULL
      BY <1>0 DEF IInv, Mapped, Building
    <3>2. \A p \in Procs : Settled(p)' => Settled(p) /\ p # target
      BY <2>0 DEF Settled, IInv, Actors
    <3>3. \A w \in VAs : ~(w < va')
      BY <1>2, Numbers
    <3> QED BY <2>0, <2>4, <3>1, <3>2, <3>3 DEF IInv, Mapped
  <2>10. LoadedIs' /\ TlbIs'
    BY <1>0, <2>0, <2>2 DEF IInv, LoadedIs, TlbIs, Block
  <2> QED BY <2>5, <2>6, <2>7, <2>8, <2>9, <2>10 DEF IInv
<1> QED BY <1>1, <1>2 DEF SetupPage

\* map_page: the page is not mapped yet.
LEMMA MapPageKeeps ==
  ASSUME IInv, MapPage
  PROVE  IInv'
<1> DEFINE b == ttbr0[target]
<1>0. /\ pc = "map" /\ va <= Stack /\ va \in Nat /\ va >= 1 /\ va \in VAs
      /\ target \in Procs /\ b # NULL /\ b \in Frames /\ op \in {"spawn", "fork", "exec"}
      /\ va + 1 \in 1 .. (Stack + 1)
  <2>1. pc = "map" /\ va <= Stack /\ va \in Nat /\ va >= 1
    BY DEF MapPage, IInv, TypeOK
  <2>2. va \in VAs /\ va + 1 \in 1 .. (Stack + 1)
    BY <2>1, Numbers
  <2>3. target \in Procs /\ b # NULL /\ b \in Frames
    BY <2>1 DEF IInv, TypeOK, HasTable, Building
  <2> QED BY <2>1, <2>2, <2>3 DEF IInv, Places
<1>1. \A v \in VAs : mapping[b][v] = IF v < va THEN pages[target][v] ELSE NULL
  BY <1>0 DEF IInv, Mapped, Building
<1>2. mapping[b][va] = NULL
  BY <1>0, <1>1
<1>3. /\ \A p \in Procs : Settled(p) => p # target /\ ttbr0[p] # b /\ ttbr0[p] \in Frames
      /\ op = "fork" => loaded = ttbr0[current] /\ loaded # b /\ loaded \in Frames
  <2>1. ASSUME NEW p \in Procs, state[p] = "READY", p # target
        PROVE  ttbr0[p] # b /\ ttbr0[p] \in Frames
    <3>1. ttbr0[p] # NULL
      BY <2>1 DEF IInv, HasTable
    <3> QED BY <3>1, <2>1, <1>0, TablesDiffer DEF IInv, TypeOK
  <2>2. \A p \in Procs : Settled(p) => p # target /\ state[p] = "READY"
    BY <1>0 DEF Settled, IInv, Actors
  <2>3. op = "fork" => /\ loaded = ttbr0[current] /\ current \in Procs
                       /\ current # target /\ state[current] = "READY"
    BY DEF IInv, Actors, LoadedIs
  <2> QED BY <2>1, <2>2, <2>3
<1>4. ASSUME mapping' \in [Frames -> [VAs -> Frames \cup {NULL}]],
             \A c \in Frames : c # b => mapping'[c] = mapping[c],
             \A v \in VAs : v # va => mapping'[b][v] = mapping[b][v],
             mapping'[b][va] = pages[target][va],
             level2' \in [Frames -> [Sections -> Frames \cup {NULL}]], MemInv',
             free' \subseteq Frames, held' \subseteq Frames \X {1, BlockPages},
             va' = va + 1,
             UNCHANGED <<state, pages, ref_count, ttbr0, asid_bitmap, current, loaded, tlb, pc,
                         op, target, size, reason, lost>>
      PROVE  IInv'
  <2>1. TypeOK' /\ ImpossiblePanics'
    BY <1>0, <1>4 DEF IInv, TypeOK, ImpossiblePanics
  <2>2. Places' /\ Actors'
    BY <1>0, <1>4 DEF IInv, Places, Actors
  <2>3. HasTable' /\ Blank'
    BY <1>0, <1>4 DEF IInv, HasTable, Building, Blank
  <2>4. Mapped'
    <3>1. ASSUME NEW v \in VAs
          PROVE  mapping'[b][v] = IF v < va' THEN pages[target][v] ELSE NULL
      <4>1. CASE v = va
        BY <4>1, <1>0, <1>4
      <4>2. CASE v # va
        <5>1. v < va <=> v < va + 1
          BY <4>2, <1>0, Numbers
        <5> QED BY <5>1, <4>2, <1>1, <1>4
      <4> QED BY <4>1, <4>2
    <3>2. \A p \in Procs : Settled(p)' => Settled(p)
      BY <1>4 DEF Settled
    <3>3. \A p \in Procs : Settled(p) => mapping'[ttbr0[p]] = mapping[ttbr0[p]]
      BY <1>3, <1>4
    <3> QED BY <1>0, <1>4, <3>1, <3>2, <3>3 DEF IInv, Mapped
  <2>5. LoadedIs'
    BY <1>0, <1>4 DEF IInv, LoadedIs, Block
  <2>6. TlbIs'
    <3>1. op = "fork" => mapping'[loaded] = mapping[loaded]
      BY <1>3, <1>4
    <3> QED BY <1>0, <1>4, <3>1 DEF IInv, TlbIs
  <2> QED BY <1>4, <2>1, <2>2, <2>3, <2>4, <2>5, <2>6 DEF IInv
<1>5. CASE /\ pages[target][va] = NULL /\ va' = va + 1
           /\ UNCHANGED <<alloc, state, pages, ref_count, tables, cpu, tlb, pc, op, target,
                          size, reason, lost>>
  <2>0. UNCHANGED <<free, held, state, pages, ref_count, ttbr0, level2, mapping, asid_bitmap,
                    current, loaded, tlb, pc, op, target, size, reason, lost>>
    BY <1>5 DEF alloc, tables, cpu
  <2>1. MemInv'
    BY <2>0, MemStays DEF IInv
  <2>2. /\ mapping' \in [Frames -> [VAs -> Frames \cup {NULL}]]
        /\ level2' \in [Frames -> [Sections -> Frames \cup {NULL}]]
        /\ free' \subseteq Frames /\ held' \subseteq Frames \X {1, BlockPages}
    BY <2>0 DEF IInv, TypeOK
  <2> QED BY <1>2, <1>4, <1>5, <2>0, <2>1, <2>2
<1>6. CASE Panic("no_level2")
  BY <1>6, PanicKeeps
<1>7. CASE /\ Level2(b, SectionOf(va))
           /\ mapping' = [mapping EXCEPT ![b] = [@ EXCEPT ![va] = pages[target][va]]]
           /\ va' = va + 1
           /\ UNCHANGED <<state, pages, ref_count, ttbr0, asid_bitmap, cpu, tlb, pc, op,
                          target, size, reason, lost>>
  <2>0. UNCHANGED <<state, pages, ref_count, ttbr0, asid_bitmap, current, loaded, tlb, pc, op,
                    target, size, reason, lost>>
    BY <1>7 DEF cpu
  <2>1. SectionOf(va) \in Sections
    <3>1. va <= MaxCode \/ va = Heap \/ va = Stack
      BY <1>0, Numbers
    <3> QED BY <3>1 DEF SectionOf, Sections
  <2>2. /\ mapping' \in [Frames -> [VAs -> Frames \cup {NULL}]]
        /\ \A c \in Frames : c # b => mapping'[c] = mapping[c]
        /\ \A v \in VAs : v # va => mapping'[b][v] = mapping[b][v]
        /\ mapping'[b][va] = pages[target][va]
    <3>1. mapping \in [Frames -> [VAs -> Frames \cup {NULL}]]
          /\ pages[target][va] \in Frames \cup {NULL}
      BY <1>0 DEF IInv, TypeOK
    <3> QED BY <3>1, <1>0, <1>7
  <2>3. /\ level2' \in [Frames -> [Sections -> Frames \cup {NULL}]] /\ MemInv'
        /\ free' \subseteq Frames /\ held' \subseteq Frames \X {1, BlockPages}
    <3>1. CASE level2[b][SectionOf(va)] # NULL
      <4>1. UNCHANGED <<free, held, level2>>
        BY <1>7, <3>1 DEF Level2, alloc
      <4>2. MemInv'
        BY <4>1, <2>0, MemStays DEF IInv
      <4> QED BY <4>1, <4>2 DEF IInv, TypeOK
    <3>2. CASE level2[b][SectionOf(va)] = NULL
      <4>1. PICK f \in Frames : /\ TakePage(f)
                                /\ level2' = [level2 EXCEPT ![b] =
                                                [@ EXCEPT ![SectionOf(va)] = f]]
        BY <1>7, <3>2 DEF Level2
      <4>2. MemInv'
        BY <4>1, <3>2, <2>0, <2>1, <1>0, AddLevel2 DEF IInv
      <4>3. level2' \in [Frames -> [Sections -> Frames \cup {NULL}]]
        <5>1. level2 \in [Frames -> [Sections -> Frames \cup {NULL}]]
          BY DEF IInv, TypeOK
        <5> QED BY <5>1, <4>1, <2>1, <1>0
      <4>4. free' \subseteq Frames /\ held' \subseteq Frames \X {1, BlockPages}
        BY <4>1 DEF IInv, TypeOK, TakePage
      <4> QED BY <4>2, <4>3, <4>4
    <3> QED BY <3>1, <3>2
  <2> QED BY <1>4, <1>7, <2>0, <2>2, <2>3
<1> QED BY <1>2, <1>5, <1>6, <1>7 DEF MapPage

\* The whole list is mapped: the process can run.
LEMMA FinishKeeps ==
  ASSUME IInv, Finish
  PROVE  IInv'
<1>0. /\ pc = "map" /\ va > Stack /\ op' = "none" /\ target' = 0 /\ size' = 1 /\ va' = 1
      /\ state' = [state EXCEPT ![target] = "READY"]
      /\ \/ op = "spawn" /\ pc' \in {"boot", "switch"}
         \/ op = "fork" /\ pc' = "user"
         \/ op = "exec" /\ pc' = "switch"
      /\ loaded' = IF op = "fork" THEN ttbr0[current] ELSE loaded
      /\ UNCHANGED <<free, held, pages, ref_count, ttbr0, level2, mapping, asid_bitmap,
                     current, tlb, reason, lost>>
  BY DEF Finish, Idle, alloc, tables
<1>1. target \in Procs /\ ttbr0[target] # NULL /\ ttbr0[target] \in Frames
  BY <1>0 DEF IInv, TypeOK, HasTable, Building
<1>2. /\ state'[target] = "READY"
      /\ \A q \in Procs : q # target => state'[q] = state[q]
  BY <1>0, <1>1 DEF IInv, TypeOK
<1>3. loaded' = loaded
  BY <1>0 DEF IInv, LoadedIs
<1>4. MemInv'
  BY <1>0, MemStays DEF IInv
<1>5. TypeOK' /\ ImpossiblePanics'
  <2>1. state' \in [Procs -> {"NONE", "READY", "KILLED"}]
    BY <1>0 DEF IInv, TypeOK
  <2>2. target' \in Procs /\ size' \in 1 .. MaxCode /\ va' \in 1 .. (Stack + 1)
    BY <1>0, Numbers
  <2>3. pc' \in PCs /\ op' \in Ops
    BY <1>0 DEF PCs, Ops
  <2> QED BY <1>0, <1>3, <2>1, <2>2, <2>3 DEF IInv, TypeOK, ImpossiblePanics
<1>6. Places' /\ Actors'
  BY <1>0, <1>2 DEF IInv, Places, Actors
<1>7. HasTable' /\ Blank'
  BY <1>0, <1>1, <1>2 DEF IInv, HasTable, Building, Blank
<1>8. Mapped'
  <2>1. mapping[ttbr0[target]] = pages[target]
    <3>1. \A v \in VAs : v < va
      BY <1>0, Numbers DEF IInv, TypeOK
    <3>2. \A v \in VAs : mapping[ttbr0[target]][v] = pages[target][v]
      BY <1>0, <3>1 DEF IInv, Mapped, Building
    <3> QED BY <3>2, <1>1 DEF IInv, TypeOK
  <2>2. pages[target][Heap] # NULL /\ pages[target][Stack] # NULL
    BY <1>0 DEF IInv, Blank
  <2>3. \A p \in Procs : Settled(p)' => p = target \/ Settled(p)
    BY <1>2 DEF Settled
  <2> QED BY <1>0, <2>1, <2>2, <2>3 DEF IInv, Mapped, Building
<1>9. LoadedIs' /\ TlbIs'
  BY <1>0, <1>3 DEF IInv, LoadedIs, TlbIs, Block
<1> QED BY <1>4, <1>5, <1>6, <1>7, <1>8, <1>9 DEF IInv

LEMMA SwitchKeeps ==
  ASSUME IInv, Switch
  PROVE  IInv'
<1>1. CASE Panic("no_runnable")
  BY <1>1, PanicKeeps
<1>2. ASSUME NEW p \in Procs, state[p] = "READY", current' = p, loaded' = ttbr0[p],
             pc' = "invalidate", pc = "switch",
             UNCHANGED <<alloc, state, pages, ref_count, tables, tlb, op, target, size, va,
                         reason, lost>>
      PROVE  IInv'
  <2>0. /\ op = "none" /\ ttbr0[p] # NULL /\ ttbr0[p] \in Frames
        /\ UNCHANGED <<free, held, state, pages, ref_count, ttbr0, level2, mapping, asid_bitmap,
                       tlb, op, target, size, va, reason, lost>>
    BY <1>2 DEF IInv, TypeOK, Places, HasTable, alloc, tables
  <2>1. MemInv'
    BY <2>0, MemStays DEF IInv
  <2>2. TypeOK' /\ ImpossiblePanics'
    BY <1>2, <2>0 DEF IInv, TypeOK, PCs, ImpossiblePanics
  <2>3. Places' /\ Actors'
    BY <1>2, <2>0 DEF IInv, Places, Actors
  <2>4. HasTable' /\ Blank'
    BY <1>2, <2>0 DEF IInv, HasTable, Building, Blank
  <2>5. Mapped'
    BY <1>2, <2>0 DEF IInv, Mapped, Building, Settled
  <2>6. LoadedIs' /\ TlbIs'
    BY <1>2, <2>0 DEF LoadedIs, TlbIs, Block
  <2> QED BY <2>1, <2>2, <2>3, <2>4, <2>5, <2>6 DEF IInv
<1> QED BY <1>1, <1>2 DEF Switch

LEMMA InvalidateKeeps ==
  ASSUME IInv, Invalidate
  PROVE  IInv'
<1>0. /\ pc = "invalidate" /\ pc' = "user" /\ tlb' = IF FlushAll THEN NULL ELSE tlb
      /\ UNCHANGED <<free, held, state, pages, ref_count, ttbr0, level2, mapping, asid_bitmap,
                     current, loaded, op, target, size, va, reason, lost>>
  BY DEF Invalidate, alloc, tables, cpu
<1>1. MemInv'
  BY <1>0, MemStays DEF IInv
<1>2. TypeOK' /\ ImpossiblePanics'
  <2>1. tlb' \in (VAs \X Frames) \cup {NULL}
    BY <1>0 DEF IInv, TypeOK
  <2> QED BY <1>0, <2>1 DEF IInv, TypeOK, PCs, ImpossiblePanics
<1>3. Places' /\ Actors'
  BY <1>0 DEF IInv, Places, Actors
<1>4. HasTable' /\ Blank'
  BY <1>0 DEF IInv, HasTable, Building, Blank
<1>5. Mapped'
  BY <1>0 DEF IInv, Mapped, Building, Settled
<1>6. LoadedIs' /\ TlbIs'
  BY <1>0 DEF IInv, LoadedIs, TlbIs, Block
<1> QED BY <1>1, <1>2, <1>3, <1>4, <1>5, <1>6 DEF IInv

LEMMA StutterKeeps ==
  ASSUME IInv, UNCHANGED vars
  PROVE  IInv'
<1>0. UNCHANGED <<free, held, state, pages, ref_count, ttbr0, level2, mapping, asid_bitmap,
                  current, loaded, tlb, pc, op, target, size, va, reason, lost>>
  BY DEF vars
<1>1. MemInv'
  BY <1>0, MemStays DEF IInv
<1>2. TypeOK' /\ ImpossiblePanics'
  BY <1>0 DEF IInv, TypeOK, ImpossiblePanics
<1>3. Places' /\ Actors'
  BY <1>0 DEF IInv, Places, Actors
<1>4. HasTable' /\ Blank'
  BY <1>0 DEF IInv, HasTable, Building, Blank
<1>5. Mapped'
  BY <1>0 DEF IInv, Mapped, Building, Settled
<1>6. LoadedIs' /\ TlbIs'
  BY <1>0 DEF IInv, LoadedIs, TlbIs, Block
<1> QED BY <1>1, <1>2, <1>3, <1>4, <1>5, <1>6 DEF IInv

LEMMA InitHolds == Init => IInv
<1> SUFFICES ASSUME Init PROVE IInv
  OBVIOUS
<1>1. \A p \in Procs : FramesOf(p) = {} /\ TableOf(p) = {} /\ Level2Of(p) = {}
  BY DEF Init, FramesOf, TableOf, Level2Of, NoPages
<1>2. MemInv
  <2>1. Owners /\ AllOwned
    BY <1>1 DEF Init, Owners, Owned, AllOwned
  <2>2. OnePlace /\ Held
    BY DEF Init, OnePlace, Held, NoPages
  <2>3. RefCountCovers
    BY <1>1 DEF RefCountCovers, UserFrames
  <2> QED BY <2>1, <2>2, <2>3 DEF MemInv
<1>3. TypeOK
  <2>1. 1 \in 1 .. MaxCode /\ 1 \in 1 .. (Stack + 1) /\ 0 \in Procs
    BY Numbers
  <2> QED BY <2>1 DEF Init, TypeOK, NoPages, NoTables, PCs, Ops, Reasons
<1>4. Places /\ Actors /\ HasTable /\ Blank
  BY DEF Init, Places, Actors, HasTable, Building, Blank
<1>5. Mapped /\ LoadedIs /\ TlbIs /\ ImpossiblePanics
  BY DEF Init, Mapped, Building, Settled, LoadedIs, TlbIs, ImpossiblePanics
<1> QED BY <1>2, <1>3, <1>4, <1>5 DEF IInv

LEMMA NextKeeps == IInv /\ [Next]_vars => IInv'
<1> SUFFICES ASSUME IInv, [Next]_vars PROVE IInv'
  OBVIOUS
<1>1. CASE Spawn \/ Fork \/ Exec \/ Exit
  BY <1>1, BeginKeeps
<1>2. CASE Reschedule
  BY <1>2, RescheduleKeeps
<1>3. CASE Undefined
  BY <1>3, UndefinedKeeps
<1>4. CASE FreePages
  BY <1>4, FreePagesKeeps
<1>5. CASE FreePagesDone
  BY <1>5, FreePagesDoneKeeps
<1>6. CASE Drop
  BY <1>6, DropKeeps
<1>7. CASE InitializeMemory
  BY <1>7, InitializeMemoryKeeps
<1>8. CASE LoadPage
  BY <1>8, LoadPageKeeps
<1>9. CASE ClonePages
  BY <1>9, ClonePagesKeeps
<1>10. CASE HeapPage \/ StackPage
  BY <1>10, SetupPageKeeps DEF HeapPage, StackPage
<1>11. CASE MapPage
  BY <1>11, MapPageKeeps
<1>12. CASE Finish
  BY <1>12, FinishKeeps
<1>13. CASE Switch
  BY <1>13, SwitchKeeps
<1>14. CASE Invalidate
  BY <1>14, InvalidateKeeps
<1>15. CASE Walk
  BY <1>15, WalkKeeps
<1>16. CASE UNCHANGED vars
  BY <1>16, StutterKeeps
<1> QED BY <1>1, <1>2, <1>3, <1>4, <1>5, <1>6, <1>7, <1>8, <1>9, <1>10, <1>11, <1>12, <1>13,
           <1>14, <1>15, <1>16 DEF Next

-------------------------------------------------------------------------------
(* 5. What follows from it.                                                *)

\* The inductive invariant holds in every reachable state.
THEOREM ProcMemInvariant == Spec => []IInv
BY InitHolds, NextKeeps, PTL DEF Spec

\* The state has its types: a page list holds pages of the allocator, and a
\* reference count never goes below zero (DropReference subtracts one).
THEOREM ProcMemTypes == Spec => []TypeOK
<1>1. IInv => TypeOK
  BY DEF IInv
<1> QED BY <1>1, ProcMemInvariant, PTL

\* A shared code page has a reference for every process that lists it, so
\* free_process_memory gives it back only with the last one.
THEOREM ReferencesCover == Spec => []RefCountCovers
<1>1. IInv => RefCountCovers
  BY DEF IInv, MemInv
<1> QED BY <1>1, ProcMemInvariant, PTL

\* No frame is two things at once, whatever forks, execs, exits and failed
\* allocations came before; only code pages are shared.
THEOREM FramesHaveOneOwner == Spec => []OneOwner
<1>1. IInv => OneOwner
  BY OneOwnerIs DEF IInv, MemInv
<1> QED BY <1>1, ProcMemInvariant, PTL

\* Memory is lost in the listed ways only.
THEOREM MemoryIsAccounted == Spec => []Accounted
<1>1. IInv => Accounted
  BY AccountedIs DEF IInv, MemInv
<1> QED BY <1>1, ProcMemInvariant, PTL

\* A program runs on its own page table, which maps the pages on its list.
THEOREM ProgramsSeeOwnPages == Spec => []UserSeesOwnPages
<1>1. IInv => UserSeesOwnPages
  <2> SUFFICES ASSUME IInv, pc = "user"
               PROVE  current # NULL /\ loaded = ttbr0[current] /\ mapping[loaded] = pages[current]
    BY DEF UserSeesOwnPages
  <2>1. current \in Procs /\ state[current] = "READY" /\ op = "none" /\ loaded = ttbr0[current]
    BY DEF IInv, Actors, Places, LoadedIs
  <2>2. current # NULL
    BY <2>1, Numbers DEF Procs
  <2>3. Settled(current)
    BY <2>1 DEF Settled
  <2> QED BY <2>1, <2>2, <2>3 DEF IInv, Mapped
<1> QED BY <1>1, ProcMemInvariant, PTL

\* The walker never reads somebody else's page as a page table, although exit
\* frees, and exec forgets, the table that TTBR0 holds.
THEOREM WalkerReadsTables == Spec => []LoadedTableIntact
<1>1. ASSUME IInv, loaded # NULL, NEW x \in Block(loaded)
      PROVE  /\ \A p \in Procs : x \notin FramesOf(p) /\ x \notin Level2Of(p)
             /\ \A p \in Procs : p # current \/ ttbr0[p] # loaded => x \notin TableOf(p)
  <2>1. CASE current \in Procs /\ loaded = ttbr0[current]
    <3>1. x \in TableOf(current)
      BY <1>1, <2>1 DEF TableOf
    <3> QED BY <3>1, <2>1, <1>1 DEF IInv, MemInv, Owners
  <2>2. CASE x \in lost \/ x \in free
    <3>1. \A p \in Procs : x \notin Owned(p)
      BY <2>2, <1>1 DEF IInv, MemInv, Owners
    <3> QED BY <3>1 DEF Owned
  <2> QED BY <2>1, <2>2, <1>1 DEF IInv, LoadedIs
<1>2. IInv => LoadedTableIntact
  BY <1>1 DEF LoadedTableIntact, UserFrames, Level2Frames
<1> QED BY <1>2, ProcMemInvariant, PTL

\* The kernel's own checks of its memory structures never fail.
THEOREM ChecksNeverFail == Spec => []ImpossiblePanics
<1>1. IInv => ImpossiblePanics
  BY DEF IInv
<1> QED BY <1>1, ProcMemInvariant, PTL

\* Where TLBIASID drops global entries too, as the emulator's does, a running
\* program meets no stale translation.
THEOREM NoStaleTranslation == FlushAll => (Spec => []TranslationsCurrent)
<1>1. IInv /\ UserSeesOwnPages /\ FlushAll => TranslationsCurrent
  BY DEF IInv, TlbIs, UserSeesOwnPages, TranslationsCurrent
<1>2. ASSUME FlushAll PROVE IInv /\ UserSeesOwnPages => TranslationsCurrent
  BY <1>1, <1>2
<1>3. ASSUME FlushAll PROVE Spec => []TranslationsCurrent
  BY <1>2, <1>3, ProcMemInvariant, ProgramsSeeOwnPages, PTL
<1> QED BY <1>3

-------------------------------------------------------------------------------
(* 6. ProcMem is a legal user of the page allocator.                       *)

\* The four calls are the steps of PageAlloc.
LEMMA CallsAreLegal ==
  ASSUME TypeOK, NEW f \in Frames
  PROVE  /\ TakePage(f) => Allocator!Next
         /\ TakeBlock(f) => Allocator!Next
         /\ GivePage(f) /\ <<f, 1>> \in held => Allocator!Next
         /\ GiveBlock(f) /\ <<f, BlockPages>> \in held => Allocator!Next
<1>0. f \in Int /\ BlockPages # 1
  BY Numbers
<1>1. Allocator!Block(f, 1) = {f} /\ Allocator!Block(f, BlockPages) = Block(f)
  BY <1>0 DEF Allocator!Block, Block
<1>2. TakePage(f) => Allocator!Take(f, 1)
  BY <1>0, <1>1 DEF TakePage, Allocator!Take
<1>3. TakeBlock(f) => Allocator!Take(f, BlockPages)
  BY <1>0, <1>1 DEF TakeBlock, Allocator!Take
<1>4. GivePage(f) /\ <<f, 1>> \in held => Allocator!Give(f, 1)
  BY <1>1 DEF GivePage, Allocator!Give
<1>5. GiveBlock(f) /\ <<f, BlockPages>> \in held => Allocator!Give(f, BlockPages)
  BY <1>1 DEF GiveBlock, Allocator!Give
<1> QED BY <1>2, <1>3, <1>4, <1>5 DEF Allocator!Next

LEMMA StepsAreCalls == IInv /\ [Next]_vars => [Allocator!Next]_(Allocator!vars)
<1> SUFFICES ASSUME IInv, [Next]_vars, ~ UNCHANGED <<free, held>> PROVE Allocator!Next
  BY DEF Allocator!vars
<1>1. TypeOK /\ MemInv
  BY DEF IInv
<1>2. ASSUME OutOfMemory PROVE FALSE
  BY <1>2 DEF OutOfMemory, Panic, alloc
<1>3. CASE FreePages
  <2>1. PICK v \in VAs : /\ pages[target][v] # NULL
                         /\ \/ Panic("ref_count")
                            \/ DropReference(target, v, pages[target][v])
    BY <1>3 DEF FreePages, FirstPage
  <2>2. target \in Procs /\ pages[target][v] \in Frames
    BY <1>1, <2>1 DEF TypeOK
  <2>3. <<pages[target][v], 1>> \in held
    BY <1>1, <2>1, <2>2 DEF MemInv, Held
  <2>4. GivePage(pages[target][v])
    BY <2>1 DEF Panic, DropReference, alloc
  <2> QED BY <1>1, <2>2, <2>3, <2>4, CallsAreLegal
<1>4. CASE Drop
  <2>1. target \in Procs /\ ttbr0[target] # NULL /\ ttbr0[target] \in Frames
    BY <1>4 DEF Drop, IInv, Places, Actors, HasTable, TypeOK
  <2>2. GiveBlock(ttbr0[target]) /\ <<ttbr0[target], BlockPages>> \in held
    BY <1>1, <1>4, <2>1 DEF Drop, MemInv, Held
  <2> QED BY <1>1, <2>1, <2>2, CallsAreLegal
<1>5. CASE InitializeMemory
  <2>1. \E b \in Frames : TakeBlock(b)
    BY <1>2, <1>5 DEF InitializeMemory
  <2> QED BY <1>1, <2>1, CallsAreLegal
<1>6. CASE LoadPage \/ HeapPage \/ StackPage
  <2>1. \E f \in Frames : TakePage(f)
    BY <1>2, <1>6 DEF LoadPage, HeapPage, StackPage, SetupPage
  <2> QED BY <1>1, <2>1, CallsAreLegal
<1>7. CASE MapPage
  <2>1. \E f \in Frames : TakePage(f)
    BY <1>7 DEF MapPage, Panic, Level2, alloc
  <2> QED BY <1>1, <2>1, CallsAreLegal
<1>8. CASE \/ Spawn \/ Fork \/ Exec \/ Exit \/ Reschedule \/ Undefined \/ FreePagesDone
           \/ ClonePages \/ Finish \/ Switch \/ Invalidate \/ Walk \/ UNCHANGED vars
  BY <1>8 DEF Spawn, Fork, Exec, Exit, Begin, Reschedule, Undefined, FreePagesDone, ClonePages,
              Finish, Switch, Panic, Invalidate, Walk, alloc, vars
<1> QED BY <1>3, <1>4, <1>5, <1>6, <1>7, <1>8 DEF Next

\* Processes give back only what they hold, whole pages and whole blocks, also
\* when calls fail half way: the promise PagingImplementsPageAlloc relies on.
THEOREM ProcMemUsesPageAlloc == Spec => Implements
<1>1. Init => Allocator!Init
  BY DEF Init, Allocator!Init
<1> QED BY <1>1, StepsAreCalls, ProcMemInvariant, PTL DEF Spec, Implements, Allocator!Spec

-------------------------------------------------------------------------------
(* 7. Process memory on the free list: StepsAreCalls has that each step of *)
(* the processes is one legal call; PagingProofs, instantiated with the    *)
(* list, what a call does to it.  In between, Coupled: the list holds what *)
(* the processes believe to be free.                                       *)

P == INSTANCE PagingProofs WITH free_pages <- Len(free_list)

\* Both sides agree about the free pages.
Coupled == free = P!FreeSet

MInv == IInv /\ P!IInv /\ Coupled

-------------------------------------------------------------------------------
LEMMA Sizes ==
  /\ P!PagingAssumption /\ P!Pages = Frames
  /\ BlockPages \in Nat /\ BlockPages >= 2 /\ Frames \subseteq Int
<1>1. P!PagingAssumption
  BY MemoryAssumption, ProcMemAssumption DEF P!PagingAssumption
<1>2. P!Pages = Frames
  BY MemoryAssumption DEF P!Pages
<1> QED BY <1>1, <1>2, Numbers

\* Blocks are intervals: they are equal only when they start alike, and a block
\* is no page.
LEMMA BlocksAre ==
  ASSUME NEW p \in Int, NEW n \in {1, BlockPages}
  PROVE  /\ P!Block(p, n) = Allocator!Block(p, n)
         /\ p \in P!Block(p, n)
         /\ \A q \in Int : P!Block(p, n) = {q} => n = 1 /\ p = q
         /\ \A q \in Int : P!Block(p, n) = Block(q) => n = BlockPages /\ p = q
         /\ IsFiniteSet(P!Block(p, n)) /\ Cardinality(P!Block(p, n)) = n
         /\ \A q \in P!Block(p, n) : p <= q
<1>0. n \in Nat /\ n >= 1 /\ BlockPages \in Nat /\ BlockPages >= 2
  BY Sizes
<1>1. P!Block(p, n) = p .. (p + n - 1) /\ Allocator!Block(p, n) = p .. (p + n - 1)
  BY DEF P!Block, Allocator!Block
<1>2. p \in P!Block(p, n) /\ \A q \in P!Block(p, n) : p <= q
  BY <1>0, <1>1
<1>3. ASSUME NEW q \in Int, P!Block(p, n) = {q} PROVE n = 1 /\ p = q
  <2>1. p = q
    BY <1>2, <1>3
  <2>2. n # 1 => p + 1 \in P!Block(p, n)
    BY <1>0, <1>1
  <2> QED BY <2>1, <2>2, <1>3
<1>4. ASSUME NEW q \in Int, P!Block(p, n) = Block(q) PROVE n = BlockPages /\ p = q
  <2>1. q \in P!Block(p, n) /\ q + 1 \in P!Block(p, n) /\ p \in Block(q)
    BY <1>0, <1>2, <1>4 DEF Block
  <2>2. p = q
    BY <2>1, <1>0, <1>1 DEF Block
  <2>3. n # 1
    BY <2>1, <1>1
  <2> QED BY <2>2, <2>3
<1>5. IsFiniteSet(P!Block(p, n)) /\ Cardinality(P!Block(p, n)) = n
  <2>1. p + n - 1 \in Int
    BY <1>0
  <2>2. /\ IsFiniteSet(p .. (p + n - 1))
        /\ Cardinality(p .. (p + n - 1)) = IF p > p + n - 1 THEN 0 ELSE (p + n - 1) - p + 1
    BY <2>1, FS_Interval
  <2> QED BY <2>2, <1>0, <1>1
<1> QED BY <1>1, <1>2, <1>3, <1>4, <1>5

\* The list has integers on it.
LEMMA ListFacts ==
  ASSUME P!IInv
  PROVE  /\ free_list \in Seq(Frames) /\ Len(free_list) \in Nat
         /\ DOMAIN free_list = 1 .. Len(free_list)
         /\ \A k \in DOMAIN free_list : free_list[k] \in Int
<1>1. free_list \in Seq(Frames)
  BY Sizes DEF P!IInv, P!TypeOK
<1>2. Len(free_list) \in Nat /\ DOMAIN free_list = 1 .. Len(free_list)
  BY <1>1
<1>3. \A k \in 1 .. Len(free_list) : free_list[k] \in Frames
  BY <1>1
<1> QED BY <1>1, <1>2, <1>3, Sizes

-------------------------------------------------------------------------------
\* A page or block leaves the free pages: it is the head of the list, or the
\* first run that the scan finds.
LEMMA TakeFollows ==
  ASSUME MInv, Listed, NEW p \in Frames, NEW n \in {1, BlockPages}, Allocator!Take(p, n)
  PROVE  P!Next /\ Coupled'
<1>1. /\ P!Block(p, n) \subseteq free /\ free' = free \ P!Block(p, n)
      /\ held' = held \cup {<<p, n>>} /\ p \in Int /\ p \in P!Block(p, n)
  BY Sizes, BlocksAre DEF Allocator!Take
<1>2. free \ free' = P!Block(p, n) /\ free \ free' # {} /\ free' \ free = {}
  BY <1>1
<1>3. FromList(P!Block(p, n))
  BY <1>2 DEF Listed, FromList
<1>4. P!IInv /\ free = P!FreeSet
  BY DEF MInv, Coupled
<1>5. free_list # <<>> /\ 1 \in DOMAIN free_list
  <2>1. DOMAIN free_list # {}
    BY <1>1, <1>4 DEF P!FreeSet
  <2> QED BY <2>1, <1>4, ListFacts
<1>6. CASE P!Block(p, n) = {free_list[1]} /\ free_list' = Tail(free_list)
  <2>1. n = 1 /\ p = free_list[1]
    BY <1>1, <1>4, <1>5, <1>6, ListFacts, BlocksAre
  <2>2. Head(free_list) = p /\ Len(free_list') = Len(free_list) - 1
    BY <1>4, <1>5, <1>6, <2>1, ListFacts, HeadTailProperties
  <2>3. P!AllocPage
    BY <1>1, <1>5, <1>6, <2>1, <2>2 DEF P!AllocPage
  <2>4. P!Removes(p, 1)
    BY <1>4, <2>2, <2>3, Sizes, P!AllocPageRemoves
  <2> QED BY <1>1, <1>4, <2>1, <2>3, <2>4 DEF P!Next, P!Removes, Coupled
<1>7. ASSUME NEW k \in List!BlockStarts(BlockPages),
             \A i \in List!BlockStarts(BlockPages) : k <= i,
             P!Block(p, n) = Block(free_list[k]),
             free_list' = List!Unlinked(k, BlockPages)
      PROVE  P!Next /\ Coupled'
  <2>1. /\ List!BlockStarts(BlockPages) = P!BlockStarts(BlockPages)
        /\ List!Unlinked(k, BlockPages) = P!Unlinked(k, BlockPages)
    BY DEF List!BlockStarts, P!BlockStarts, List!Ascending, P!Ascending, List!Unlinked,
           P!Unlinked
  <2>2. k \in DOMAIN free_list
    BY DEF List!BlockStarts
  <2>3. n = BlockPages /\ p = free_list[k]
    BY <1>1, <1>4, <1>7, <2>2, ListFacts, BlocksAre
  <2>4. P!Removes(p, BlockPages)
    BY <1>4, <1>7, <2>1, <2>3, Sizes, P!AllocAlignedRemoves
  <2>5. P!AllocAligned(BlockPages)
    BY <1>1, <1>7, <2>1, <2>3, <2>4 DEF P!AllocAligned, P!Removes
  <2> QED BY <1>1, <1>4, <2>3, <2>4, <2>5 DEF P!Next, P!Removes, Coupled
<1> QED BY <1>3, <1>6, <1>7 DEF FromList

\* A page or block comes back: it is pushed in ascending order.
LEMMA GiveFollows ==
  ASSUME MInv, Listed, NEW p \in Frames, NEW n \in {1, BlockPages}, Allocator!Give(p, n)
  PROVE  P!Next /\ Coupled'
<1>1. /\ <<p, n>> \in held /\ free' = free \cup P!Block(p, n)
      /\ held' = held \ {<<p, n>>} /\ p \in Int /\ p \in P!Block(p, n)
  BY Sizes, BlocksAre DEF Allocator!Give
<1>2. P!IInv /\ free = P!FreeSet
  BY DEF MInv, Coupled
<1>3. P!Block(p, n) \cap P!FreeSet = {} /\ p + n - 1 \in P!Pages
  <2>1. <<p, n>>[1] = p /\ <<p, n>>[2] = n
    OBVIOUS
  <2> QED BY <1>1, <1>2, <2>1 DEF P!IInv, P!TypeOK, P!Exclusive
<1>4. free \ free' = {} /\ free' \ free = P!Block(p, n) /\ free' \ free # {}
  BY <1>1, <1>2, <1>3
<1>5. ToList(P!Block(p, n))
  BY <1>4 DEF Listed, ToList
<1>6. free_list' = P!Pushed(p, n)
  <2>1. PICK q \in P!Block(p, n) :
          /\ \A r \in P!Block(p, n) : q <= r
          /\ free_list' = List!Pushed(q, Cardinality(P!Block(p, n)))
    BY <1>5 DEF ToList
  <2>2. p <= q /\ q <= p /\ q \in Int
    BY <1>1, <2>1, BlocksAre DEF P!Block
  <2>3. q = p /\ Cardinality(P!Block(p, n)) = n
    BY <1>1, <2>2, BlocksAre
  <2> QED BY <2>1, <2>3 DEF List!Pushed, P!Pushed
<1>7. P!Adds(p, n)
  <2>1. n \in Nat /\ n >= 1 /\ p \in P!Pages
    BY Sizes
  <2> QED BY <1>2, <1>3, <1>6, <2>1, Sizes, P!PushAdds
<1>8. Coupled'
  BY <1>1, <1>2, <1>7 DEF P!Adds, Coupled
<1>9. CASE n = 1
  <2>1. P!Pushed(p, 1) = <<p>> \o free_list
    <3>1. [j \in 1 .. 1 |-> p + j - 1] = <<p>>
      BY <1>1
    <3> QED BY <3>1 DEF P!Pushed
  <2>2. P!FreePage(p)
    BY <1>1, <1>6, <1>7, <1>9, <2>1 DEF P!FreePage, P!Adds
  <2> QED BY <1>8, <2>2, Sizes DEF P!Next
<1>10. CASE n = BlockPages
  <2>1. P!FreeAligned(p, BlockPages)
    BY <1>1, <1>6, <1>7, <1>10 DEF P!FreeAligned, P!Adds
  <2> QED BY <1>8, <2>1, Sizes DEF P!Next
<1> QED BY <1>9, <1>10

\* Every step of the composition is a step of the list.
LEMMA MStepFollows ==
  ASSUME MInv, [MNext]_mvars
  PROVE  [P!Next]_(P!vars) /\ Coupled'
<1>1. CASE UNCHANGED mvars
  <2>1. UNCHANGED <<free, held, free_list>>
    BY <1>1 DEF mvars, vars
  <2> QED BY <2>1 DEF P!vars, P!FreeSet, MInv, Coupled
<1>2. CASE MNext
  <2>1. Allocator!Next \/ UNCHANGED <<free, held>>
    BY <1>2, StepsAreCalls DEF MNext, MInv, Allocator!vars
  <2>2. CASE Allocator!Next
    BY <1>2, <2>2, TakeFollows, GiveFollows DEF Allocator!Next, MNext
  <2>3. CASE UNCHANGED <<free, held>>
    <3>1. free \ free' = {} /\ free' \ free = {}
      BY <2>3
    <3>2. UNCHANGED free_list
      BY <1>2, <3>1 DEF MNext, Listed, NoListCall
    <3> QED BY <2>3, <3>2 DEF P!vars, P!FreeSet, MInv, Coupled
  <2> QED BY <2>1, <2>2, <2>3
<1> QED BY <1>1, <1>2

LEMMA MStepKeeps == MInv /\ [MNext]_mvars => MInv'
<1> SUFFICES ASSUME MInv, [MNext]_mvars PROVE MInv'
  OBVIOUS
<1>1. IInv'
  BY NextKeeps DEF MInv, MNext, mvars, vars
<1>2. [P!Next]_(P!vars) /\ Coupled'
  BY MStepFollows
<1>3. P!IInv'
  BY <1>2, Sizes, P!StepIInv DEF MInv
<1> QED BY <1>1, <1>2, <1>3 DEF MInv

LEMMA MInitHolds == MInit => MInv /\ P!Init
<1> SUFFICES ASSUME MInit PROVE MInv /\ P!Init
  OBVIOUS
<1>1. P!Init
  <2>1. Len(free_list) = TotalPages - ReservedPages
    BY DEF MInit, List!Init
  <2> QED BY <2>1 DEF MInit, List!Init, P!Init
<1>2. P!IInv
  BY <1>1, Sizes, P!InitIInv
<1>3. Coupled
  <2>1. P!Pages = P!FreeSet
    BY <1>1, <1>2 DEF P!IInv, P!Conserved, P!Init
  <2> QED BY <2>1, Sizes DEF MInit, Init, Coupled
<1> QED BY <1>1, <1>2, <1>3, InitHolds DEF MInv, MInit

\* Processes use the allocator of paging.c legally, in every order of forks,
\* execs, exits and failed calls and whatever the order of the list: so its
\* invariants hold among them, without assuming anything about its callers.
THEOREM MemoryUsesPaging == MSpec => UsesPaging
<1>1. [P!Next]_(P!vars) => [List!Next]_(List!vars)
  BY DEF P!Next, P!vars, List!Next, List!vars, P!AllocPage, List!AllocPage, P!AllocAligned,
         List!AllocAligned, P!BlockStarts, List!BlockStarts, P!Ascending, List!Ascending,
         P!Unlinked, List!Unlinked, P!FreePage, List!FreePage, P!FreeAligned,
         List!FreeAligned, P!Pushed, List!Pushed, P!Pages, List!Pages
<1>2. MInv /\ [MNext]_mvars => [List!Next]_(List!vars)
  BY <1>1, MStepFollows
<1>3. MInit => List!Init
  BY DEF MInit
<1> QED BY <1>2, <1>3, MInitHolds, MStepKeeps, PTL DEF MSpec, UsesPaging, List!Spec
===============================================================================
