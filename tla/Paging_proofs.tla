--------------------------- MODULE Paging_proofs ---------------------------
(***************************************************************************)
(* Frames and page tables for memory of any size and shape: every frame has *)
(* one owner, the tables stay a tree, and a call changes the translation of *)
(* no page but its own.                                                     *)
(***************************************************************************)
EXTENDS Paging, FiniteSetTheorems, NaturalsInduction, TLAPS

-----------------------------------------------------------------------------
(* The inductive invariant.                                                 *)

Word == [addr : Int, present : BOOLEAN, huge : BOOLEAN]
Indices == [1 .. 4 -> Idx]

(* F is a linked list of frames from h on, in the order of falling rank r:   *)
(* each frame holds the address of the next, the last one NULL_MARK.         *)
IsList(F, r, h, m) ==
    /\ F \subseteq Pool /\ r \in [Pool -> Nat]
    /\ \A f, g \in F : r[f] = r[g] => f = g
    /\ \/ h = NULL_MARK /\ F = {}
       \/ h \in F /\ \A g \in F : r[g] <= r[h]
    /\ \A f \in F :
         \/ m[f][0].addr = NULL_MARK /\ \A g \in F : r[f] <= r[g]
         \/ /\ m[f][0].addr \in F /\ r[m[f][0].addr] < r[f]
            /\ \A g \in F : r[g] < r[f] => r[g] <= r[m[f][0].addr]

FreeList == \E r : IsList(FreeFrames, r, Head0, Mem0)

FrameTypes ==
    /\ mem \in [Frames -> [Idx -> Word]]
    /\ head \in Pool \cup {NULL_MARK} /\ initialized \in BOOLEAN
    /\ heap \in [turn : 0 .. HEAP_FRAMES, lowest : Pool \cup {NULL_MARK}, expected : Int,
                 start : Pool \cup {NULL_MARK}]
    /\ heapTaken \subseteq Pool /\ held \subseteq Pool

WalkTypes ==
    /\ pc \in {"idle", "heap", "walk", "panic", "stop"}
    /\ walk \in [op : {"none", "map", "unmap"}, virt : Pages, phys : Nat, left : Nat,
                 mmio : BOOLEAN, level : 1 .. Levels, table : Frames]
    /\ walk.virt + walk.left \in Pages

(* Until the first allocation nothing has been given out. *)
Untouched ==
    ~ initialized => /\ head = NULL_MARK /\ heapTaken = {} /\ held = {}
                     /\ Tables \subseteq BootFrames

(* The owners of frames share none and leave none out. *)
OwnersApart ==
    /\ Pool \subseteq FreeFrames \cup Tables \cup heapTaken \cup held
    /\ FreeFrames \cap (Tables \cup heapTaken \cup held) = {}
    /\ Tables \cap (heapTaken \cup held) = {}
    /\ heapTaken \cap held = {}

(* The entries on the way to page indices x, level by level, in memory m. *)
Step(m, entry, index) ==
    IF entry.present /\ ~ entry.huge THEN m[entry.addr][index] ELSE Zero
Way(m, x) ==
    LET e1 == m[Root][x[1]]
        e2 == Step(m, e1, x[2])
        e3 == Step(m, e2, x[3])
    IN  <<e1, e2, e3, Step(m, e3, x[4])>>

(* u is the table of level l on that way. *)
OnWay(m, x, l, u) ==
    \/ l = 1 /\ u = Root
    \/ /\ l > 1 /\ Way(m, x)[l - 1].present /\ ~ Way(m, x)[l - 1].huge
       /\ Way(m, x)[l - 1].addr = u

(* A walk has come down the entries of its page. *)
WalkOnWay ==
    pc = "walk" => /\ walk.op # "none"
                   /\ OnWay(mem, table_indices(walk.virt), walk.level, walk.table)

PagingInv ==
    /\ FrameTypes /\ WalkTypes /\ Untouched
    /\ FreeList /\ IsTree(mem, Frames) /\ OwnersApart /\ WalkOnWay

-----------------------------------------------------------------------------
(* Numbers and finite sets.                                                 *)

(* The least of a set of numbers. *)
LEMMA Least ==
    ASSUME NEW N \in SUBSET Nat, N # {}
    PROVE  \E q \in N : \A n \in N : q <= n
<1> DEFINE R == {p \in Nat \X Nat : p[1] < p[2]}
<1>1. IsWellFoundedOn(R, Nat)
  BY NatLessThanWellFounded DEF OpToRel
<1>2. PICK q \in N : \A n \in N : ~ (<<n, q>> \in R)
  BY <1>1, WFMin
<1>3. \A n \in N : ~ (n < q)
  BY <1>2
<1> QED BY <1>3

(* Max is what its name says, of a finite set of addresses. *)
LEMMA MaxOf ==
    ASSUME NEW S \in SUBSET Nat, IsFiniteSet(S), S # {}
    PROVE  Max(S) \in S /\ \A x \in S : x <= Max(S)
<1> DEFINE Over(x) == {y \in S : x < y}
           N == {Cardinality(Over(x)) : x \in S}
<1>1. \A x \in S : IsFiniteSet(Over(x)) /\ Cardinality(Over(x)) \in Nat
  BY FS_Subset, FS_CardinalityType
<1>2. N \in SUBSET Nat /\ N # {}
  BY <1>1
<1>3. PICK q \in N : \A n \in N : q <= n
  BY <1>2, Least
<1>4. PICK x \in S : q = Cardinality(Over(x))
  BY <1>3
<1>5. ASSUME NEW y \in S, x < y PROVE FALSE
  <2>1. Over(y) \subseteq Over(x) /\ y \in Over(x) /\ y \notin Over(y)
    <3>1. y \in Nat /\ x \in Nat /\ \A z \in S : z \in Nat
      OBVIOUS
    <3>2. ~ (y < y) /\ \A z \in S : y < z => x < z
      BY <1>5, <3>1
    <3> QED BY <1>5, <3>2
  <2>2. Cardinality(Over(y)) <= Cardinality(Over(x)) /\ Cardinality(Over(y)) # Cardinality(Over(x))
    <3>1. PICK A, B : A = Over(y) /\ B = Over(x)
      OBVIOUS
    <3>2. A \in SUBSET B /\ A # B /\ IsFiniteSet(B)
      BY <1>1, <2>1, <3>1
    <3>3. Cardinality(A) <= Cardinality(B) /\ (Cardinality(B) = Cardinality(A) => B = A)
      BY <3>2, FS_Subset
    <3> QED BY <3>1, <3>2, <3>3
  <2>3. Cardinality(Over(x)) <= Cardinality(Over(y))
    BY <1>3, <1>4, <1>5
  <2> QED BY <1>1, <1>5, <2>2, <2>3
<1>6. \A y \in S : y <= x
  BY <1>5
<1> QED BY <1>6 DEF Max

(* Min likewise. *)
LEMMA MinOf ==
    ASSUME NEW S \in SUBSET Nat, S # {}
    PROVE  Min(S) \in S
  BY Least DEF Min

(* align_up gives a multiple of the frame size, and never goes below the      *)
(* address it is given.                                                      *)
LEMMA AlignedUp ==
    ASSUME NEW a \in Nat
    PROVE  /\ align_up(a, FRAME_SIZE) \in Nat /\ align_up(a, FRAME_SIZE) >= a
           /\ \E q \in Nat : align_up(a, FRAME_SIZE) = q * FRAME_SIZE
<1>1. FRAME_SIZE \in Nat /\ FRAME_SIZE > 0
  BY FrameAssumption
<1>2. PICK n \in Nat : n = a + FRAME_SIZE - 1
  BY <1>1
<1>3. PICK q \in Nat : q = n \div FRAME_SIZE
  BY <1>1, <1>2, Z3
<1>4. n = (FRAME_SIZE * q) + (n % FRAME_SIZE) /\ n % FRAME_SIZE \in 0 .. FRAME_SIZE - 1
  BY <1>1, <1>2, <1>3, Z3
<1>5. q * FRAME_SIZE = FRAME_SIZE * q /\ q * FRAME_SIZE \in Nat
  BY <1>1, <1>3, Z3
<1>6. q * FRAME_SIZE >= a
  BY <1>1, <1>2, <1>4, <1>5
<1>7. align_up(a, FRAME_SIZE) = q * FRAME_SIZE
  BY <1>2, <1>3 DEF align_up
<1>8. \E m \in Nat : align_up(a, FRAME_SIZE) = m * FRAME_SIZE
  BY <1>7
<1> QED BY <1>5, <1>6, <1>7, <1>8

(* The frames of an entry of the map lie in it. *)
LEMMA FramesInEntry ==
    ASSUME NEW e \in MemoryMap, NEW f \in FramesOf(e)
    PROVE  f \in Nat /\ e.base <= f /\ f + FRAME_SIZE <= e.base + e.length
<1>1. PICK k \in 0 .. e.length : f = align_up(e.base, FRAME_SIZE) + k * FRAME_SIZE
  BY DEF FramesOf
<1>2. f + FRAME_SIZE <= e.base + e.length
  BY DEF FramesOf
<1>3. e.base \in Nat /\ e.length \in Nat /\ FRAME_SIZE \in Nat /\ FRAME_SIZE > 0
  BY MapAssumption, FrameAssumption
<1>4. PICK up \in Nat : up = align_up(e.base, FRAME_SIZE) /\ up >= e.base
  BY <1>3, AlignedUp
<1>5. PICK n \in Nat : n = k * FRAME_SIZE
  BY <1>1, <1>3, Z3
<1> QED BY <1>1, <1>2, <1>3, <1>4, <1>5

(* The pool: finitely many frames of usable memory, none of them a boot frame. *)
LEMMA PoolFacts ==
    /\ Pool \subseteq Nat /\ IsFiniteSet(Pool) /\ Pool \cap BootFrames = {}
    /\ NULL_MARK \notin Frames /\ Frames \subseteq Nat
<1>1. Pool \subseteq Nat
  BY FramesInEntry DEF Pool
<1>2. ASSUME NEW e \in MemoryMap PROVE IsFiniteSet(FramesOf(e))
  <2>1. FramesOf(e) \in SUBSET Nat
    BY FramesInEntry
  <2>2. \A f \in FramesOf(e) : f <= e.base + e.length
    BY FramesInEntry, MapAssumption, FrameAssumption
  <2>3. e.base + e.length \in Nat
    BY MapAssumption
  <2> QED BY <2>1, <2>2, <2>3, FS_BoundedSetOfNaturals
<1>3. IsFiniteSet({FramesOf(e) : e \in MemoryMap})
  <2> DEFINE all == {FramesOf(e) : e \in MemoryMap}
             of  == [e \in MemoryMap |-> FramesOf(e)]
  <2>1. of \in Surjection(MemoryMap, all)
    BY DEF Surjection
  <2> QED BY <2>1, FS_Surjection, MapAssumption
<1>4. IsFiniteSet(Pool)
  BY <1>2, <1>3, FS_UNION DEF Pool
<1>5. ASSUME NEW f \in Pool, f \in BootFrames PROVE FALSE
  <2>1. PICK e \in MemoryMap : f \in FramesOf(e)
    BY DEF Pool
  <2>2. f \in Nat /\ e.base <= f /\ f + FRAME_SIZE <= e.base + e.length
    BY <2>1, FramesInEntry
  <2> QED BY <1>5, <2>2, MapAssumption, FrameAssumption
<1> QED BY <1>1, <1>4, <1>5, MapAssumption DEF Frames, NULL_MARK

-----------------------------------------------------------------------------
(* The free list.                                                           *)

(* A sub-set of the pool, as far as the proofs of the list count in it. *)
LEMMA Counted ==
    ASSUME NEW A, NEW B, A \subseteq B, B \subseteq Pool
    PROVE  /\ IsFiniteSet(A) /\ Cardinality(A) \in Nat /\ Cardinality(B) \in Nat
           /\ Cardinality(A) <= Cardinality(B)
           /\ A # B => Cardinality(A) < Cardinality(B)
<1>1. A \in SUBSET B /\ B \in SUBSET Pool
  OBVIOUS
<1>2. IsFiniteSet(B) /\ IsFiniteSet(A)
  BY <1>1, PoolFacts, FS_Subset
<1>3. Cardinality(A) \in Nat /\ Cardinality(B) \in Nat
  BY <1>2, FS_CardinalityType
<1>4. Cardinality(A) <= Cardinality(B) /\ (Cardinality(B) = Cardinality(A) => B = A)
  BY <1>1, <1>2, FS_Subset
<1> QED BY <1>2, <1>3, <1>4

(* The frames of a list ahead of one of them, and how many they are. *)
Ahead(F, r, f)  == {g \in F : r[f] < r[g]}
Behind(F, r, f) == Cardinality(Ahead(F, r, f))

(* The places on a list are 0, 1, ... from its head on. *)
LEMMA Places ==
    ASSUME NEW F, NEW r, NEW h, NEW m, IsList(F, r, h, m)
    PROVE  /\ \A f \in F : Behind(F, r, f) \in 0 .. Cardinality(Pool)
           /\ \A f, g \in F : Behind(F, r, f) = Behind(F, r, g) => f = g
           /\ h = NULL_MARK => F = {}
           /\ h # NULL_MARK => h \in F /\ Behind(F, r, h) = 0
           /\ \A f \in F : m[f][0].addr = NULL_MARK =>
                 \A g \in F : Behind(F, r, g) # Behind(F, r, f) + 1
           /\ \A f \in F : m[f][0].addr # NULL_MARK =>
                 m[f][0].addr \in F /\ Behind(F, r, m[f][0].addr) = Behind(F, r, f) + 1
<1>0. /\ F \subseteq Pool /\ \A f \in F : r[f] \in Nat
      /\ \A f, g \in F : r[f] = r[g] => f = g
  BY DEF IsList
<1>1. \A f \in F : Ahead(F, r, f) \subseteq F /\ f \notin Ahead(F, r, f)
  BY <1>0 DEF Ahead
<1>2. \A f \in F : Behind(F, r, f) \in Nat /\ Behind(F, r, f) <= Cardinality(Pool)
  <2> SUFFICES ASSUME NEW f \in F
               PROVE  Behind(F, r, f) \in Nat /\ Behind(F, r, f) <= Cardinality(Pool)
    OBVIOUS
  <2>1. Ahead(F, r, f) \subseteq Pool
    BY <1>0, <1>1
  <2> QED BY <2>1, Counted DEF Behind
<1>3. \A f, g \in F : r[f] < r[g] => Behind(F, r, g) < Behind(F, r, f)
  <2> SUFFICES ASSUME NEW f \in F, NEW g \in F, r[f] < r[g]
               PROVE  Behind(F, r, g) < Behind(F, r, f)
    OBVIOUS
  <2>1. Ahead(F, r, g) \subseteq Ahead(F, r, f) /\ g \in Ahead(F, r, f) /\ g \notin Ahead(F, r, g)
    BY <1>0 DEF Ahead
  <2>2. Ahead(F, r, f) \subseteq Pool /\ Ahead(F, r, g) # Ahead(F, r, f)
    BY <1>0, <1>1, <2>1
  <2> QED BY <2>1, <2>2, Counted DEF Behind
<1>4. \A f, g \in F : Behind(F, r, f) = Behind(F, r, g) => f = g
  <2> SUFFICES ASSUME NEW f \in F, NEW g \in F, f # g PROVE Behind(F, r, f) # Behind(F, r, g)
    OBVIOUS
  <2>1. r[f] < r[g] \/ r[g] < r[f]
    BY <1>0
  <2> QED BY <1>2, <1>3, <2>1
<1>5. h \notin F => h = NULL_MARK /\ F = {}
  BY DEF IsList
<1>6. NULL_MARK \notin F
  BY <1>0, PoolFacts DEF Frames
<1>7. ASSUME h \in F PROVE Behind(F, r, h) = 0
  <2>1. Ahead(F, r, h) = {}
    BY <1>0, <1>6, <1>7 DEF Ahead, IsList
  <2> QED BY <2>1, FS_EmptySet DEF Behind
<1>8. ASSUME NEW f \in F, m[f][0].addr = NULL_MARK, NEW g \in F
      PROVE  Behind(F, r, g) # Behind(F, r, f) + 1
  <2>1. r[f] <= r[g]
    BY <1>6, <1>8 DEF IsList
  <2>2. f = g \/ r[f] < r[g]
    BY <1>0, <2>1
  <2> QED BY <1>2, <1>3, <2>2
<1>9. ASSUME NEW f \in F, m[f][0].addr # NULL_MARK
      PROVE  m[f][0].addr \in F /\ Behind(F, r, m[f][0].addr) = Behind(F, r, f) + 1
  <2>1. PICK n : n = m[f][0].addr
    OBVIOUS
  <2>2. n \in F /\ r[n] < r[f] /\ \A g \in F : r[g] < r[f] => r[g] <= r[n]
    BY <1>9, <2>1 DEF IsList
  <2>3. Ahead(F, r, n) = Ahead(F, r, f) \cup {f}
    <3>1. ASSUME NEW g \in Ahead(F, r, n) PROVE g \in Ahead(F, r, f) \cup {f}
      <4>1. g \in F /\ r[n] < r[g]
        BY <3>1 DEF Ahead
      <4>2. ~ (r[g] < r[f])
        BY <1>0, <2>2, <4>1
      <4>3. r[f] < r[g] \/ g = f
        BY <1>0, <4>1, <4>2
      <4> QED BY <4>1, <4>3 DEF Ahead
    <3>2. ASSUME NEW g \in Ahead(F, r, f) \cup {f} PROVE g \in Ahead(F, r, n)
      <4>1. g \in F /\ (r[f] < r[g] \/ g = f)
        BY <3>2 DEF Ahead
      <4> QED BY <1>0, <2>2, <4>1 DEF Ahead
    <3> QED BY <3>1, <3>2
  <2>4. IsFiniteSet(Ahead(F, r, f)) /\ f \notin Ahead(F, r, f)
    BY <1>0, <1>1, Counted
  <2>5. Behind(F, r, n) = Behind(F, r, f) + 1
    BY <2>3, <2>4, FS_AddElement DEF Behind
  <2> QED BY <2>1, <2>2, <2>5
<1> QED BY <1>2, <1>4, <1>5, <1>6, <1>7, <1>8, <1>9

(* Every place but the first has one before it. *)
LEMMA PlaceBefore ==
    ASSUME NEW F, NEW r, NEW h, NEW m, IsList(F, r, h, m),
           NEW f \in F, Behind(F, r, f) # 0
    PROVE  \E g \in F : Behind(F, r, f) = Behind(F, r, g) + 1
<1>0. F \subseteq Pool /\ (\A g \in F : r[g] \in Nat) /\ \A a, b \in F : r[a] = r[b] => a = b
  BY DEF IsList
<1>1. Ahead(F, r, f) # {}
  BY FS_EmptySet DEF Behind
<1>2. PICK g \in Ahead(F, r, f) : \A a \in Ahead(F, r, f) : r[g] <= r[a]
  <2> DEFINE N == {r[a] : a \in Ahead(F, r, f)}
  <2>1. N \in SUBSET Nat /\ N # {}
    BY <1>0, <1>1 DEF Ahead
  <2>2. PICK q \in N : \A n \in N : q <= n
    BY <2>1, Least
  <2> QED BY <2>2
<1>3. g \in F /\ r[f] < r[g]
  BY DEF Ahead
<1>4. PICK n : n = m[g][0].addr
  OBVIOUS
<1>5. n \in F /\ r[n] < r[g] /\ \A a \in F : r[a] < r[g] => r[a] <= r[n]
  BY <1>0, <1>3, <1>4 DEF IsList
<1>6. r[f] <= r[n]
  BY <1>3, <1>5
<1>7. ~ (r[f] < r[n])
  <2>1. n \in Ahead(F, r, f) => r[g] <= r[n]
    BY <1>2
  <2> QED BY <1>0, <1>3, <1>5, <2>1 DEF Ahead
<1>8. n = f
  BY <1>0, <1>5, <1>6, <1>7
<1>9. m[g][0].addr # NULL_MARK
  BY <1>0, <1>4, <1>5, PoolFacts DEF Frames
<1>10. Behind(F, r, m[g][0].addr) = Behind(F, r, g) + 1
  BY <1>3, <1>9, Places
<1> QED BY <1>3, <1>4, <1>8, <1>10

(* FreeFrames, for any head h and memory m. *)
FreeOf(h, m) ==
    LET chain[n \in 0 .. Cardinality(Pool)] ==
          IF n = 0 THEN h
          ELSE IF chain[n - 1] = NULL_MARK THEN NULL_MARK ELSE m[chain[n - 1]][0].addr
    IN  {chain[n] : n \in 0 .. Cardinality(Pool)} \ {NULL_MARK}

(* What FreeFrames computes: the frames of the list. *)
LEMMA FreeFramesAre ==
    ASSUME NEW F, NEW r, NEW head0, NEW m, IsList(F, r, head0, m)
    PROVE  FreeOf(head0, m) = F
<1> DEFINE N == Cardinality(Pool)
           Nth(n) == IF \E f \in F : Behind(F, r, f) = n
                       THEN CHOOSE f \in F : Behind(F, r, f) = n ELSE NULL_MARK
           g == [n \in 0 .. N |-> Nth(n)]
           Chain(h) == h = [n \in 0 .. N |->
                              IF n = 0 THEN head0
                              ELSE IF h[n - 1] = NULL_MARK THEN NULL_MARK ELSE m[h[n - 1]][0].addr]
<1>0. N \in Nat
  BY PoolFacts, FS_CardinalityType
<1>1. /\ \A f \in F : Behind(F, r, f) \in 0 .. N /\ f # NULL_MARK
      /\ \A f, e \in F : Behind(F, r, f) = Behind(F, r, e) => f = e
  <2>1. F \subseteq Pool
    BY DEF IsList
  <2> QED BY <2>1, Places, PoolFacts DEF Frames
<1>2. \A f \in F : Nth(Behind(F, r, f)) = f
  BY <1>1
<1>3. \A n : \/ Nth(n) = NULL_MARK /\ \A f \in F : Behind(F, r, f) # n
             \/ Nth(n) \in F /\ Behind(F, r, Nth(n)) = n
  OBVIOUS
<1> HIDE DEF Nth
<1>4. Nth(0) = head0
  <2>1. CASE head0 = NULL_MARK
    <3>1. F = {}
      BY <2>1, Places
    <3> QED BY <1>3, <2>1, <3>1
  <2>2. CASE head0 # NULL_MARK
    <3>1. head0 \in F /\ Behind(F, r, head0) = 0
      BY <2>2, Places
    <3> QED BY <1>2, <3>1
  <2> QED BY <2>1, <2>2
<1>5. ASSUME NEW n \in 0 .. N, n # 0
      PROVE  Nth(n) = IF Nth(n - 1) = NULL_MARK THEN NULL_MARK ELSE m[Nth(n - 1)][0].addr
  <2>1. CASE Nth(n - 1) = NULL_MARK
    <3>1. \A f \in F : Behind(F, r, f) # n - 1
      BY <1>1, <1>3, <2>1
    <3>2. ASSUME NEW f \in F, Behind(F, r, f) = n PROVE FALSE
      <4>1. PICK e \in F : Behind(F, r, f) = Behind(F, r, e) + 1
        BY <1>5, <3>2, PlaceBefore
      <4> QED BY <1>0, <1>1, <3>1, <3>2, <4>1
    <3> QED BY <1>3, <2>1, <3>2
  <2>2. CASE Nth(n - 1) # NULL_MARK
    <3>1. PICK e \in F : e = Nth(n - 1) /\ Behind(F, r, e) = n - 1
      BY <1>3, <2>2
    <3>2. CASE m[e][0].addr = NULL_MARK
      <4>1. \A f \in F : Behind(F, r, f) # n - 1 + 1
        BY <3>1, <3>2, Places
      <4>2. \A f \in F : Behind(F, r, f) # n
        BY <1>0, <4>1
      <4> QED BY <1>3, <2>2, <3>1, <3>2, <4>2
    <3>3. CASE m[e][0].addr # NULL_MARK
      <4>1. PICK f : f = m[e][0].addr
        OBVIOUS
      <4>2. f \in F /\ Behind(F, r, f) = n - 1 + 1
        BY <3>1, <3>3, <4>1, Places
      <4>3. Nth(n) = f
        BY <1>0, <1>2, <4>2
      <4> QED BY <2>2, <3>1, <4>1, <4>3
    <3> QED BY <3>2, <3>3
  <2> QED BY <2>1, <2>2
<1>6. Chain(g)
  <2>1. \A n \in 0 .. N : g[n] = IF n = 0 THEN head0
                                 ELSE IF g[n - 1] = NULL_MARK THEN NULL_MARK ELSE m[g[n - 1]][0].addr
    BY <1>0, <1>4, <1>5
  <2> QED BY <2>1
<1>7. PICK h : Chain(h) /\ FreeOf(head0, m) = {h[n] : n \in 0 .. N} \ {NULL_MARK}
  <2>1. Chain(CHOOSE h : Chain(h))
    <3> HIDE DEF g, Chain
    <3> QED BY <1>6, Zenon
  <2> QED BY <2>1, Zenon DEF FreeOf
<1>8. \A n \in 0 .. N : h[n] = Nth(n)
  <2> DEFINE Wrong == {n \in 0 .. N : h[n] # Nth(n)}
  <2> SUFFICES ASSUME Wrong # {} PROVE FALSE
    OBVIOUS
  <2>1. PICK q \in Wrong : \A n \in Wrong : q <= n
    <3>1. Wrong \in SUBSET Nat
      BY <1>0
    <3> HIDE DEF Wrong
    <3> QED BY <3>1, Least
  <2>2. q # 0
    BY <1>0, <1>4, <1>7, <2>1
  <2>3. q - 1 \in 0 .. N /\ q - 1 \notin Wrong
    BY <1>0, <2>1, <2>2
  <2>4. h[q - 1] = Nth(q - 1)
    BY <2>3
  <2> QED BY <1>5, <1>7, <2>1, <2>2, <2>4
<1>9. FreeOf(head0, m) \subseteq F
  BY <1>3, <1>7, <1>8
<1>10. ASSUME NEW f \in F PROVE f \in FreeOf(head0, m)
  <2>1. PICK n \in 0 .. N : n = Behind(F, r, f)
    BY <1>1
  <2>2. h[n] = f
    BY <1>2, <1>8, <2>1
  <2> QED BY <1>1, <1>7, <2>2
<1> QED BY <1>9, <1>10

(* The list is in the first words of its frames, whatever else memory holds. *)
LEMMA SameList ==
    ASSUME NEW F, NEW r, NEW h, NEW m, NEW m2, IsList(F, r, h, m),
           \A f \in F : m2[f][0].addr = m[f][0].addr
    PROVE  IsList(F, r, h, m2)
  BY DEF IsList

(* allocate unlinks the first frame. *)
LEMMA PopList ==
    ASSUME NEW F, NEW r, NEW h, NEW m, NEW m2, IsList(F, r, h, m), h # NULL_MARK,
           \A f \in F \ {h} : m2[f][0].addr = m[f][0].addr
    PROVE  IsList(F \ {h}, r, m[h][0].addr, m2)
<1>1. F \subseteq Pool /\ r \in [Pool -> Nat] /\ (\A f \in F : r[f] \in Nat)
      /\ (\A f, g \in F : r[f] = r[g] => f = g) /\ NULL_MARK \notin F
  BY PoolFacts DEF IsList, Frames
<1>2. h \in F /\ \A g \in F \ {h} : r[g] < r[h]
  BY <1>1 DEF IsList
<1>3. PICK n : n = m[h][0].addr
  OBVIOUS
<1>4. \/ n = NULL_MARK /\ F \ {h} = {}
      \/ n \in F \ {h} /\ \A g \in F \ {h} : r[g] <= r[n]
  BY <1>1, <1>2, <1>3 DEF IsList
<1>5. ASSUME NEW f \in F \ {h}
      PROVE  \/ m2[f][0].addr = NULL_MARK /\ \A g \in F \ {h} : r[f] <= r[g]
             \/ /\ m2[f][0].addr \in F \ {h} /\ r[m2[f][0].addr] < r[f]
                /\ \A g \in F \ {h} : r[g] < r[f] => r[g] <= r[m2[f][0].addr]
  <2>1. PICK q : q = m[f][0].addr /\ q = m2[f][0].addr
    OBVIOUS
  <2>2. \/ q = NULL_MARK /\ \A g \in F : r[f] <= r[g]
        \/ q \in F /\ r[q] < r[f] /\ \A g \in F : r[g] < r[f] => r[g] <= r[q]
    BY <2>1 DEF IsList
  <2>3. q \in F /\ r[q] < r[f] => q # h
    BY <1>1, <1>2
  <2> QED BY <2>1, <2>2, <2>3
<1> QED BY <1>1, <1>3, <1>4, <1>5 DEF IsList

(* free links a frame before the first. *)
LEMMA PushList ==
    ASSUME NEW F, NEW r, NEW h, NEW m, NEW m2, IsList(F, r, h, m), NEW f \in Pool \ F,
           m2[f][0].addr = h, \A g \in F : m2[g][0].addr = m[g][0].addr
    PROVE  \E r2 : IsList(F \cup {f}, r2, f, m2)
<1>1. F \subseteq Pool /\ r \in [Pool -> Nat] /\ (\A g \in F : r[g] \in Nat)
      /\ (\A a, b \in F : r[a] = r[b] => a = b) /\ NULL_MARK \notin F
  BY PoolFacts DEF IsList, Frames
<1>2. PICK top \in Nat : \A g \in F : r[g] < top
  <2>1. CASE h \in F
    <3>1. \A g \in F : r[g] < r[h] + 1
      BY <1>1, <2>1 DEF IsList
    <3> QED BY <1>1, <2>1, <3>1
  <2>2. CASE h \notin F
    <3>1. F = {}
      BY <2>2 DEF IsList
    <3> QED BY <3>1
  <2> QED BY <2>1, <2>2
<1>3. PICK r2 : r2 = [r EXCEPT ![f] = top]
  OBVIOUS
<1>4. r2 \in [Pool -> Nat] /\ r2[f] = top /\ \A g \in F : r2[g] = r[g]
  BY <1>1, <1>2, <1>3
<1>5. \A a, b \in F \cup {f} : r2[a] = r2[b] => a = b
  BY <1>1, <1>2, <1>4
<1>6. \A g \in F \cup {f} : r2[g] <= r2[f]
  BY <1>1, <1>2, <1>4
<1>7. ASSUME NEW g \in F
      PROVE  \/ m2[g][0].addr = NULL_MARK /\ \A e \in F \cup {f} : r2[g] <= r2[e]
             \/ /\ m2[g][0].addr \in F \cup {f} /\ r2[m2[g][0].addr] < r2[g]
                /\ \A e \in F \cup {f} : r2[e] < r2[g] => r2[e] <= r2[m2[g][0].addr]
  <2>1. PICK q : q = m[g][0].addr /\ q = m2[g][0].addr
    OBVIOUS
  <2>2. \/ q = NULL_MARK /\ \A e \in F : r[g] <= r[e]
        \/ q \in F /\ r[q] < r[g] /\ \A e \in F : r[e] < r[g] => r[e] <= r[q]
    BY <2>1 DEF IsList
  <2> QED BY <1>1, <1>2, <1>4, <2>1, <2>2
<1>8. \/ h = NULL_MARK /\ \A e \in F \cup {f} : r2[f] <= r2[e]
      \/ h \in F /\ r2[h] < r2[f] /\ \A e \in F \cup {f} : r2[e] < r2[f] => r2[e] <= r2[h]
  <2>1. CASE h = NULL_MARK /\ F = {}
    BY <1>4, <1>2, <2>1
  <2>2. CASE h \in F /\ \A g \in F : r[g] <= r[h]
    BY <1>1, <1>2, <1>4, <2>2
  <2> QED BY <2>1, <2>2 DEF IsList
<1>9. IsList(F \cup {f}, r2, f, m2)
  BY <1>1, <1>4, <1>5, <1>6, <1>7, <1>8 DEF IsList
<1> QED BY <1>9

(* The first call of allocate finds the whole pool, in descending order. *)
LEMMA PoolList ==
    ASSUME ~ initialized, head = NULL_MARK, mem \in [Frames -> [Idx -> Word]]
    PROVE  IsList(Pool, [f \in Pool |-> f], Head0, Mem0)
<1> DEFINE r == [f \in Pool |-> f]
<1>1. Pool \in SUBSET Nat /\ IsFiniteSet(Pool)
  BY PoolFacts
<1>2. r \in [Pool -> Nat] /\ \A f \in Pool : r[f] = f /\ f \in Nat
  BY <1>1
<1>3. \/ Head0 = NULL_MARK /\ Pool = {}
      \/ Head0 \in Pool /\ \A g \in Pool : g <= Head0
  BY <1>1, MaxOf DEF Head0
<1>4. ASSUME NEW f \in Pool
      PROVE  \/ Mem0[f][0].addr = NULL_MARK /\ \A g \in Pool : f <= g
             \/ /\ Mem0[f][0].addr \in Pool /\ Mem0[f][0].addr < f
                /\ \A g \in Pool : g < f => g <= Mem0[f][0].addr
  <2> DEFINE below == {g \in Pool : g < f}
  <2>1. below \in SUBSET Nat /\ IsFiniteSet(below)
    BY <1>1, FS_Subset
  <2>2. f \in Frames /\ 0 \in Idx
    BY FrameAssumption DEF Frames, Idx
  <2>3. Mem0[f][0] = Link(IF below = {} THEN NULL_MARK ELSE Max(below))
    BY <2>2 DEF Mem0, InitMem
  <2>4. Mem0[f][0].addr = IF below = {} THEN NULL_MARK ELSE Max(below)
    BY <2>3 DEF Link
  <2>5. CASE below = {}
    BY <1>1, <2>4, <2>5
  <2>6. CASE below # {}
    <3>1. Max(below) \in below /\ \A g \in below : g <= Max(below)
      <4> HIDE DEF below
      <4> QED BY <2>1, <2>6, MaxOf
    <3> QED BY <2>4, <2>6, <3>1
  <2> QED BY <2>5, <2>6
<1> QED BY <1>2, <1>3, <1>4 DEF IsList

-----------------------------------------------------------------------------
(* The tree of tables.                                                      *)

(* The levels of the tables of memory m, one from the other. *)
LEMMA TableLevels ==
    ASSUME NEW m
    PROVE  /\ TablesOf(m) = <<TablesOf(m)[1], TablesOf(m)[2], TablesOf(m)[3], TablesOf(m)[4]>>
           /\ TablesOf(m)[1] = {Root}
           /\ TablesOf(m)[2] = Targets(m, TablesOf(m)[1])
           /\ TablesOf(m)[3] = Targets(m, TablesOf(m)[2])
           /\ TablesOf(m)[4] = Targets(m, TablesOf(m)[3])
<1>1. PICK t2, t3, t4 : t2 = Targets(m, {Root}) /\ t3 = Targets(m, t2) /\ t4 = Targets(m, t3)
  OBVIOUS
<1>2. TablesOf(m) = <<{Root}, t2, t3, t4>>
  BY <1>1 DEF TablesOf
<1> QED BY <1>1, <1>2

(* The entries of tables that are the same in two memories lead to the same. *)
LEMMA SameTargets ==
    ASSUME NEW m, NEW m2, NEW tables, \A u \in tables : m2[u] = m[u]
    PROVE  /\ Leads(m2, tables) = Leads(m, tables) /\ Targets(m2, tables) = Targets(m, tables)
           /\ \A x \in Leads(m, tables) : Target(m2, x) = Target(m, x)
  BY DEF Leads, Targets, Target

(* What the last level holds does not matter for the tree. *)
LEMMA SameTree ==
    ASSUME NEW m, NEW m2, NEW frames, IsTree(m, frames),
           \A l \in 1 .. 3 : \A u \in TablesOf(m)[l] : m2[u] = m[u]
    PROVE  TablesOf(m2) = TablesOf(m) /\ IsTree(m2, frames)
<1>1. PICK at : at = TablesOf(m)
  OBVIOUS
<1>2. /\ \A l \in 1 .. 4 : at[l] \subseteq frames
      /\ \A l, k \in 1 .. 4 : l # k => at[l] \cap at[k] = {}
      /\ \A l \in 1 .. 3 : \A x, y \in Leads(m, at[l]) : Target(m, x) = Target(m, y) => x = y
  BY <1>1 DEF IsTree, Levels
<1>3. /\ at = <<at[1], at[2], at[3], at[4]>> /\ at[1] = {Root}
      /\ at[2] = Targets(m, at[1]) /\ at[3] = Targets(m, at[2]) /\ at[4] = Targets(m, at[3])
  BY <1>1, TableLevels
<1>4. \A l \in 1 .. 3 : /\ Leads(m2, at[l]) = Leads(m, at[l]) /\ Targets(m2, at[l]) = Targets(m, at[l])
                        /\ \A x \in Leads(m, at[l]) : Target(m2, x) = Target(m, x)
  BY <1>1, SameTargets
<1>5. TablesOf(m2) = at
  <2>1. /\ Targets(m2, at[1]) = Targets(m, at[1]) /\ Targets(m2, at[2]) = Targets(m, at[2])
        /\ Targets(m2, at[3]) = Targets(m, at[3])
    BY <1>4
  <2>2. PICK b : b = TablesOf(m2)
    OBVIOUS
  <2>3. /\ b = <<b[1], b[2], b[3], b[4]>> /\ b[1] = {Root}
        /\ b[2] = Targets(m2, b[1]) /\ b[3] = Targets(m2, b[2]) /\ b[4] = Targets(m2, b[3])
    BY <2>2, TableLevels
  <2>4. b[1] = at[1] /\ b[2] = at[2]
    BY <1>3, <2>1, <2>3
  <2>5. b[3] = at[3]
    BY <1>3, <2>1, <2>3, <2>4
  <2>6. b[4] = at[4]
    BY <1>3, <2>1, <2>3, <2>5
  <2> QED BY <1>3, <2>2, <2>3, <2>4, <2>5, <2>6
<1>6. \A l \in 1 .. 3 : \A x, y \in Leads(m2, at[l]) : Target(m2, x) = Target(m2, y) => x = y
  BY <1>2, <1>4
<1> QED BY <1>1, <1>2, <1>5, <1>6 DEF IsTree, Levels

(* From memory m to m2, entry j of a table u of level l, which was not       *)
(* present, is made to lead to an empty frame f that was no table.           *)
IsAdded(m, m2, frames, l, u, j, f) ==
    /\ IsTree(m, frames) /\ u \in TablesOf(m)[l] /\ ~ m[u][j].present
    /\ f \in frames /\ \A k \in 1 .. 4 : f \notin TablesOf(m)[k]
    /\ \A k \in 1 .. 4 : \A w \in TablesOf(m)[k] : w # u => m2[w] = m[w]
    /\ DOMAIN m[u] = Idx
    /\ m2[u] = [m[u] EXCEPT ![j] = [addr |-> f, present |-> TRUE, huge |-> FALSE]]
    /\ m2[f] = ZeroFrame

(* The tree has grown by table f of the given level. *)
HasGrown(m, m2, frames, below, f) ==
    /\ IsTree(m2, frames)
    /\ \A k \in 1 .. 4 : k # below => TablesOf(m2)[k] = TablesOf(m)[k]
    /\ TablesOf(m2)[below] = TablesOf(m)[below] \cup {f}

(* A fresh frame becomes a table: it joins its level, and leads nowhere. *)
LEMMA AddedTable ==
    ASSUME NEW m, NEW m2, NEW frames, NEW l \in 1 .. 3, NEW below, below = l + 1,
           NEW u, NEW j \in Idx, NEW f, IsAdded(m, m2, frames, l, u, j, f)
    PROVE  HasGrown(m, m2, frames, below, f)
<1> /\ IsTree(m, frames) /\ u \in TablesOf(m)[l] /\ ~ m[u][j].present
    /\ f \in frames /\ \A k \in 1 .. 4 : f \notin TablesOf(m)[k]
  BY DEF IsAdded
<1> \A k \in 1 .. 4 : \A w \in TablesOf(m)[k] : w # u => m2[w] = m[w]
  BY DEF IsAdded
<1> /\ m2[u] = [m[u] EXCEPT ![j] = [addr |-> f, present |-> TRUE, huge |-> FALSE]]
    /\ DOMAIN m[u] = Idx /\ m2[f] = ZeroFrame
  BY DEF IsAdded
<1>1. PICK at : at = TablesOf(m)
  OBVIOUS
<1>2. /\ \A k \in 1 .. 4 : at[k] \subseteq frames
      /\ \A k, n \in 1 .. 4 : k # n => at[k] \cap at[n] = {}
      /\ \A k \in 1 .. 3 : \A x, y \in Leads(m, at[k]) : Target(m, x) = Target(m, y) => x = y
  BY <1>1 DEF IsTree, Levels
<1>3. /\ at = <<at[1], at[2], at[3], at[4]>> /\ at[1] = {Root}
      /\ at[2] = Targets(m, at[1]) /\ at[3] = Targets(m, at[2]) /\ at[4] = Targets(m, at[3])
  BY <1>1, TableLevels
<1>4. \A k \in 1 .. 3 : Targets(m, at[k]) = at[k + 1]
  <2>1. \A k \in 1 .. 3 : (k = 1 /\ k + 1 = 2) \/ (k = 2 /\ k + 1 = 3) \/ (k = 3 /\ k + 1 = 4)
    OBVIOUS
  <2> QED BY <1>3, <2>1
<1>5. u \in at[l] /\ (\A k \in 1 .. 4 : f \notin at[k]) /\ f # u
      /\ \A k \in 1 .. 4 : \A w \in at[k] : w # u => m2[w] = m[w]
  BY <1>1
<1>6. /\ m2[u][j] = [addr |-> f, present |-> TRUE, huge |-> FALSE]
      /\ \A i \in Idx : i # j => m2[u][i] = m[u][i]
  OBVIOUS
<1>7. \A i \in Idx : m2[f][i] = Zero
  BY DEF ZeroFrame
<1>8. \A k \in 1 .. 3 : k # l => \A w \in at[k] : m2[w] = m[w]
  BY <1>2, <1>5
<1>9. \A k \in 1 .. 3 : k # l => Leads(m2, at[k]) = Leads(m, at[k])
                                 /\ Targets(m2, at[k]) = at[k + 1]
                                 /\ \A x \in Leads(m, at[k]) : Target(m2, x) = Target(m, x)
  <2> SUFFICES ASSUME NEW k \in 1 .. 3, k # l
               PROVE  /\ Leads(m2, at[k]) = Leads(m, at[k])
                      /\ Targets(m2, at[k]) = at[k + 1]
                      /\ \A x \in Leads(m, at[k]) : Target(m2, x) = Target(m, x)
    OBVIOUS
  <2>1. PICK A : A = at[k] /\ \A w \in A : m2[w] = m[w]
    BY <1>8
  <2>2. /\ Leads(m2, A) = Leads(m, A) /\ Targets(m2, A) = Targets(m, A)
        /\ \A x \in Leads(m, A) : Target(m2, x) = Target(m, x)
    BY <2>1, SameTargets
  <2> QED BY <1>4, <2>1, <2>2
<1>10. Leads(m2, at[l]) = Leads(m, at[l]) \cup {<<u, j>>}
  BY <1>5, <1>6 DEF Leads
<1>11. (\A x \in Leads(m, at[l]) : Target(m2, x) = Target(m, x)) /\ Target(m2, <<u, j>>) = f
  BY <1>5, <1>6 DEF Leads, Target
<1>12. Targets(m2, at[l]) = at[l + 1] \cup {f}
  BY <1>4, <1>10, <1>11 DEF Targets
<1>13. \A S : Leads(m2, S \cup {f}) = Leads(m2, S) /\ Targets(m2, S \cup {f}) = Targets(m2, S)
  <2>1. \A S : Leads(m2, S \cup {f}) = Leads(m2, S)
    BY <1>7 DEF Leads, Zero
  <2> QED BY <2>1 DEF Targets
<1>14. PICK b : b = TablesOf(m2)
  OBVIOUS
<1>15. /\ b = <<b[1], b[2], b[3], b[4]>> /\ b[1] = {Root}
       /\ b[2] = Targets(m2, b[1]) /\ b[3] = Targets(m2, b[2]) /\ b[4] = Targets(m2, b[3])
  BY <1>14, TableLevels
<1>16. \A k \in 1 .. 4 : b[k] = at[k] \cup (IF k = l + 1 THEN {f} ELSE {})
  <2> DEFINE Extra(k) == IF k = l + 1 THEN {f} ELSE {}
  <2>1. \A k \in 1 .. 3 : Targets(m2, at[k] \cup Extra(k)) = at[k + 1] \cup Extra(k + 1)
    <3> SUFFICES ASSUME NEW k \in 1 .. 3
                 PROVE  Targets(m2, at[k] \cup Extra(k)) = at[k + 1] \cup Extra(k + 1)
      OBVIOUS
    <3>1. Targets(m2, at[k] \cup Extra(k)) = Targets(m2, at[k])
      BY <1>13
    <3>2. CASE k = l
      BY <1>12, <3>1, <3>2
    <3>3. CASE k # l
      BY <1>9, <3>1, <3>3
    <3> QED BY <3>2, <3>3
  <2>2. b[1] = at[1] \cup Extra(1)
    BY <1>3, <1>15
  <2> HIDE DEF Extra
  <2>6. /\ Targets(m2, at[1] \cup Extra(1)) = at[2] \cup Extra(2)
        /\ Targets(m2, at[2] \cup Extra(2)) = at[3] \cup Extra(3)
        /\ Targets(m2, at[3] \cup Extra(3)) = at[4] \cup Extra(4)
    <3>1. 1 \in 1 .. 3 /\ 2 \in 1 .. 3 /\ 3 \in 1 .. 3 /\ 1 + 1 = 2 /\ 2 + 1 = 3 /\ 3 + 1 = 4
      OBVIOUS
    <3>2. /\ Targets(m2, at[1] \cup Extra(1)) = at[1 + 1] \cup Extra(1 + 1)
          /\ Targets(m2, at[2] \cup Extra(2)) = at[2 + 1] \cup Extra(2 + 1)
          /\ Targets(m2, at[3] \cup Extra(3)) = at[3 + 1] \cup Extra(3 + 1)
      BY <2>1, <3>1, Zenon
    <3> QED BY <3>1, <3>2, Zenon
  <2>3. b[2] = at[2] \cup Extra(2)
    BY <1>15, <2>2, <2>6
  <2>4. b[3] = at[3] \cup Extra(3)
    BY <1>15, <2>3, <2>6
  <2>5. b[4] = at[4] \cup Extra(4)
    BY <1>15, <2>4, <2>6
  <2> QED BY <2>2, <2>3, <2>4, <2>5 DEF Extra
<1>17. \A k \in 1 .. 4 : b[k] \subseteq frames
  BY <1>2, <1>16
<1>18. \A k, n \in 1 .. 4 : k # n => b[k] \cap b[n] = {}
  BY <1>2, <1>5, <1>16
<1>19. ASSUME NEW k \in 1 .. 3, NEW x \in Leads(m2, b[k]), NEW y \in Leads(m2, b[k]),
              Target(m2, x) = Target(m2, y)
       PROVE  x = y
  <2>1. x \in Leads(m2, at[k]) /\ y \in Leads(m2, at[k])
    <3>1. b[k] = at[k] \/ b[k] = at[k] \cup {f}
      <4>1. k \in 1 .. 4
        OBVIOUS
      <4>2. b[k] = at[k] \cup (IF k = l + 1 THEN {f} ELSE {})
        BY <1>16, <4>1, Zenon
      <4> QED BY <4>2
    <3> QED BY <1>13, <1>19, <3>1
  <2>2. CASE k # l
    BY <1>2, <1>9, <1>19, <2>1, <2>2
  <2>3. CASE k = l
    <3>1. \A z \in Leads(m, at[l]) : Target(m, z) # f
      <4>1. \A z \in Leads(m, at[l]) : Target(m, z) \in at[l + 1]
        BY <1>4 DEF Targets
      <4> QED BY <1>5, <4>1
    <3> QED BY <1>2, <1>10, <1>11, <1>19, <2>1, <2>3, <3>1
  <2> QED BY <2>2, <2>3
<1>20. IsTree(m2, frames)
  BY <1>14, <1>17, <1>18, <1>19 DEF IsTree, Levels
<1>21. \A k \in 1 .. 4 : k # below => b[k] = at[k]
  BY <1>16
<1>22. b[below] = at[below] \cup {f}
  <2>1. below \in 1 .. 4
    OBVIOUS
  <2> QED BY <1>16, <2>1
<1> QED BY <1>1, <1>14, <1>20, <1>21, <1>22 DEF HasGrown

-----------------------------------------------------------------------------
(* The way down to a page.                                                  *)

(* The digits of a page number. *)
LEMMA PageIndices ==
    ASSUME NEW v \in Pages
    PROVE  table_indices(v) \in Indices
<1> PICK E \in Nat : E = Entries /\ E > 0
  BY FrameAssumption
<1>1. v \in Nat
  BY DEF Pages
<1>2. E * E \in Nat /\ E * E > 0
  BY Z3
<1>3. E * E * E \in Nat /\ E * E * E > 0
  BY <1>2, Z3
<1>4. \A n, b \in Nat : b > 0 => (n \div b) \in Nat /\ n % b \in 0 .. b - 1
  BY Z3
<1>5. v \div (E * E * E) \in Nat /\ v \div (E * E) \in Nat /\ v \div E \in Nat
  BY <1>1, <1>2, <1>3, <1>4
<1>6. /\ (v \div (E * E * E)) % E \in Idx /\ (v \div (E * E)) % E \in Idx
      /\ (v \div E) % E \in Idx /\ v % E \in Idx
  BY <1>1, <1>4, <1>5 DEF Idx
<1> QED BY <1>6 DEF table_indices, Indices

(* A page is known by its indices. *)
LEMMA IndicesKnow ==
    ASSUME NEW v \in Pages, NEW w \in Pages, table_indices(v) = table_indices(w)
    PROVE  v = w
<1> PICK E \in Nat : E = Entries /\ E > 0
  BY FrameAssumption
<1>1. v \in Nat /\ w \in Nat /\ v < E * E * E * E /\ w < E * E * E * E
  <2>1. E * E * E * E \in Nat
    <3>1. E * E \in Nat
      BY Z3
    <3>2. E * E * E \in Nat
      BY <3>1, Z3
    <3> QED BY <3>2, Z3
  <2> QED BY <2>1 DEF Pages
<1>2. /\ (v \div (E * E * E)) % E = (w \div (E * E * E)) % E
      /\ (v \div (E * E)) % E = (w \div (E * E)) % E
      /\ (v \div E) % E = (w \div E) % E /\ v % E = w % E
  BY DEF table_indices
<1>3. \A n \in Nat : n \div E \in Nat /\ n = (n \div E) * E + (n % E)
  BY Z3
<1>4. ASSUME NEW n \in Nat
      PROVE  n \div (E * E) = (n \div E) \div E /\ n \div (E * E * E) = ((n \div E) \div E) \div E
  <2>1. \A a, b \in Nat \ {0} : \A k \in Nat : (k \div a) \div b = k \div (a * b)
    BY Z3
  <2>2. E \in Nat \ {0} /\ E * E \in Nat \ {0}
    BY Z3
  <2>3. (n \div E) \div E = n \div (E * E)
    BY <2>1, <2>2
  <2>4. (n \div (E * E)) \div E = n \div (E * E * E)
    BY <2>1, <2>2
  <2> QED BY <2>3, <2>4
<1>5. ASSUME NEW n \in Nat, n < E * E * E * E
      PROVE  (((n \div E) \div E) \div E) % E = ((n \div E) \div E) \div E
  <2>1. PICK q \in Nat : q = ((n \div E) \div E) \div E
    BY <1>3
  <2>2. PICK C \in Nat : C = E * E * E /\ C > 0
    <3>1. E * E \in Nat /\ E * E > 0
      BY Z3
    <3> QED BY <3>1, Z3
  <2>3. n \div C = q
    BY <1>4, <2>1, <2>2
  <2>4. n < C * E
    BY <1>5, <2>2
  <2>5. q < E
    BY <2>2, <2>3, <2>4, Z3
  <2>6. q % E = q
    BY <2>5, Z3
  <2> QED BY <2>1, <2>6
<1>6. PICK a1, a2, a3, b1, b2, b3 \in Nat :
        /\ a3 = v \div E /\ a2 = a3 \div E /\ a1 = a2 \div E
        /\ b3 = w \div E /\ b2 = b3 \div E /\ b1 = b2 \div E
  BY <1>1, <1>3
<1>7. a1 % E = a1 /\ b1 % E = b1
  BY <1>1, <1>5, <1>6
<1>8. a1 % E = b1 % E /\ a2 % E = b2 % E /\ a3 % E = b3 % E /\ v % E = w % E
  BY <1>1, <1>2, <1>4, <1>6
<1>9. a1 = b1
  BY <1>7, <1>8
<1>10. a2 = b2
  BY <1>3, <1>6, <1>8, <1>9
<1>11. a3 = b3
  BY <1>3, <1>6, <1>8, <1>10
<1> QED BY <1>1, <1>3, <1>6, <1>8, <1>11

(* The entries on a way, one from the other. *)
LEMMA WaySteps ==
    ASSUME NEW m, NEW x
    PROVE  /\ Way(m, x)[1] = m[Root][x[1]]
           /\ Way(m, x)[2] = Step(m, Way(m, x)[1], x[2])
           /\ Way(m, x)[3] = Step(m, Way(m, x)[2], x[3])
           /\ Way(m, x)[4] = Step(m, Way(m, x)[3], x[4])
<1>1. PICK e1, e2, e3, e4 :
        /\ e1 = m[Root][x[1]] /\ e2 = Step(m, e1, x[2])
        /\ e3 = Step(m, e2, x[3]) /\ e4 = Step(m, e3, x[4])
  OBVIOUS
<1>2. Way(m, x) = <<e1, e2, e3, e4>>
  BY <1>1 DEF Way
<1> QED BY <1>1, <1>2

(* The same, for any level below the first. *)
LEMMA WayNext ==
    ASSUME NEW m, NEW x, NEW l \in 2 .. 4
    PROVE  Way(m, x)[l] = Step(m, Way(m, x)[l - 1], x[l])
<1>1. (l = 2 /\ l - 1 = 1) \/ (l = 3 /\ l - 1 = 2) \/ (l = 4 /\ l - 1 = 3)
  OBVIOUS
<1> QED BY <1>1, WaySteps

(* One level of a way: from a table through an entry, or nowhere. *)
LEMMA WayLevel ==
    ASSUME NEW m, NEW x, NEW l \in 1 .. 4
    PROVE  \/ /\ \E u : OnWay(m, x, l, u) /\ Way(m, x)[l] = m[u][x[l]]
           \/ /\ l > 1 /\ Way(m, x)[l] = Zero /\ ~ \E u : OnWay(m, x, l, u)
<1>1. CASE l = 1
  <2>1. OnWay(m, x, l, Root)
    BY <1>1 DEF OnWay
  <2> QED BY <1>1, <2>1, WaySteps
<1>2. CASE l \in 2 .. 4
  <2>1. PICK e : e = Way(m, x)[l - 1]
    OBVIOUS
  <2>2. Way(m, x)[l] = Step(m, e, x[l])
    BY <1>2, <2>1, WayNext
  <2>3. CASE e.present /\ ~ e.huge
    <3>1. OnWay(m, x, l, e.addr)
      BY <1>2, <2>1, <2>3 DEF OnWay
    <3>2. Way(m, x)[l] = m[e.addr][x[l]]
      BY <2>2, <2>3 DEF Step
    <3> QED BY <3>1, <3>2
  <2>4. CASE ~ (e.present /\ ~ e.huge)
    <3>1. Way(m, x)[l] = Zero
      BY <2>2, <2>4 DEF Step
    <3>2. ~ \E u : OnWay(m, x, l, u)
      BY <1>2, <2>1, <2>4 DEF OnWay
    <3> QED BY <1>2, <3>1, <3>2
  <2> QED BY <2>3, <2>4
<1> QED BY <1>1, <1>2

(* At most one table of a level is on a way. *)
LEMMA OnWayOnce ==
    ASSUME NEW m, NEW x, NEW l \in 1 .. 4, NEW u, NEW w, OnWay(m, x, l, u), OnWay(m, x, l, w)
    PROVE  u = w
  BY DEF OnWay

(* The table above the table on a way. *)
LEMMA WayUp ==
    ASSUME NEW m, NEW x, NEW l \in 1 .. 3, NEW n, n = l + 1, NEW u, OnWay(m, x, n, u)
    PROVE  \E w : /\ OnWay(m, x, l, w) /\ m[w][x[l]].present /\ ~ m[w][x[l]].huge
                  /\ m[w][x[l]].addr = u
<1>1. PICK e : e = Way(m, x)[l]
  OBVIOUS
<1>2. e.present /\ ~ e.huge /\ e.addr = u
  BY <1>1 DEF OnWay
<1>3. e # Zero
  BY <1>2 DEF Zero
<1>4. PICK w : OnWay(m, x, l, w) /\ e = m[w][x[l]]
  BY <1>1, <1>3, WayLevel
<1> QED BY <1>2, <1>4

(* The tables on a way are tables of their levels. *)
LEMMA WayTables ==
    ASSUME NEW m, NEW x \in Indices
    PROVE  \A l \in 1 .. 4 : \A u : OnWay(m, x, l, u) => u \in TablesOf(m)[l]
<1>1. \A u : OnWay(m, x, 1, u) => u \in TablesOf(m)[1]
  BY TableLevels DEF OnWay
<1>2. ASSUME NEW l \in 1 .. 3, \A u : OnWay(m, x, l, u) => u \in TablesOf(m)[l]
      PROVE  \A u : OnWay(m, x, l + 1, u) => u \in TablesOf(m)[l + 1]
  <2> SUFFICES ASSUME NEW u, OnWay(m, x, l + 1, u) PROVE u \in TablesOf(m)[l + 1]
    OBVIOUS
  <2>1. PICK w : /\ OnWay(m, x, l, w) /\ m[w][x[l]].present /\ ~ m[w][x[l]].huge
                 /\ m[w][x[l]].addr = u
    <3>1. PICK n : n = l + 1 /\ OnWay(m, x, n, u)
      OBVIOUS
    <3> QED BY <3>1, WayUp
  <2>2. w \in TablesOf(m)[l] /\ x[l] \in Idx
    BY <1>2, <2>1 DEF Indices
  <2>3. PICK T : T = TablesOf(m)[l]
    OBVIOUS
  <2>4. u \in Targets(m, T)
    <3>1. <<w, x[l]>> \in Leads(m, T) /\ Target(m, <<w, x[l]>>) = u
      BY <2>1, <2>2, <2>3 DEF Leads, Target
    <3> QED BY <3>1 DEF Targets
  <2>5. Targets(m, T) = TablesOf(m)[l + 1]
    <3>1. (l = 1 /\ l + 1 = 2) \/ (l = 2 /\ l + 1 = 3) \/ (l = 3 /\ l + 1 = 4)
      OBVIOUS
    <3> QED BY <2>3, <3>1, TableLevels
  <2> QED BY <2>4, <2>5
<1>3. /\ \A u : OnWay(m, x, 2, u) => u \in TablesOf(m)[2]
  BY <1>1, <1>2
<1>4. /\ \A u : OnWay(m, x, 3, u) => u \in TablesOf(m)[3]
  BY <1>2, <1>3
<1>5. /\ \A u : OnWay(m, x, 4, u) => u \in TablesOf(m)[4]
  BY <1>2, <1>4
<1>6. \A l \in 1 .. 4 : l = 1 \/ l = 2 \/ l = 3 \/ l = 4
  OBVIOUS
<1> QED BY <1>1, <1>3, <1>4, <1>5, <1>6

(* As far as the tables are the same, the way is. *)
LEMMA SameWay ==
    ASSUME NEW m, NEW m2, NEW x \in Indices, NEW n \in 1 .. 4,
           \A l \in 1 .. n : \A u \in TablesOf(m)[l] : m2[u] = m[u]
    PROVE  \A l \in 1 .. n : Way(m2, x)[l] = Way(m, x)[l]
<1>1. Way(m2, x)[1] = Way(m, x)[1]
  <2>1. Root \in TablesOf(m)[1] /\ 1 \in 1 .. n
    BY TableLevels
  <2> QED BY <2>1, WaySteps
<1>2. ASSUME NEW l \in 2 .. n, Way(m2, x)[l - 1] = Way(m, x)[l - 1]
      PROVE  Way(m2, x)[l] = Way(m, x)[l]
  <2>1. PICK e : e = Way(m, x)[l - 1] /\ e = Way(m2, x)[l - 1]
    BY <1>2
  <2>2. Way(m, x)[l] = Step(m, e, x[l]) /\ Way(m2, x)[l] = Step(m2, e, x[l])
    <3>1. l \in 2 .. 4
      OBVIOUS
    <3>2. Way(m, x)[l] = Step(m, Way(m, x)[l - 1], x[l])
      BY <3>1, WayNext
    <3>3. Way(m2, x)[l] = Step(m2, Way(m2, x)[l - 1], x[l])
      BY <3>1, WayNext
    <3> QED BY <2>1, <3>2, <3>3
  <2>3. ASSUME e.present, ~ e.huge PROVE m2[e.addr] = m[e.addr]
    <3>1. OnWay(m, x, l, e.addr) /\ l \in 1 .. 4 /\ l \in 1 .. n
      BY <2>1, <2>3 DEF OnWay
    <3> QED BY <3>1, WayTables
  <2> QED BY <2>2, <2>3 DEF Step
<1>3. n >= 2 => Way(m2, x)[2] = Way(m, x)[2]
  BY <1>1, <1>2
<1>4. n >= 3 => Way(m2, x)[3] = Way(m, x)[3]
  BY <1>2, <1>3
<1>5. n = 4 => Way(m2, x)[4] = Way(m, x)[4]
  BY <1>2, <1>4
<1>6. \A l \in 1 .. n : l = 1 \/ (l = 2 /\ n >= 2) \/ (l = 3 /\ n >= 3) \/ (l = 4 /\ n = 4)
  OBVIOUS
<1> QED BY <1>1, <1>3, <1>4, <1>5, <1>6

(* A way goes on as before where the tables it goes through are the same. *)
LEMMA WayGoesOn ==
    ASSUME NEW m, NEW m2, NEW x \in Indices, NEW l \in 1 .. 4,
           l > 1 => Way(m2, x)[l - 1] = Way(m, x)[l - 1],
           \A w : OnWay(m, x, l, w) => m2[w][x[l]] = m[w][x[l]]
    PROVE  Way(m2, x)[l] = Way(m, x)[l]
<1>1. \A w : OnWay(m2, x, l, w) <=> OnWay(m, x, l, w)
  BY DEF OnWay
<1>2. CASE \E w : OnWay(m, x, l, w)
  <2>1. PICK w : OnWay(m, x, l, w)
    BY <1>2
  <2>2. Way(m, x)[l] = m[w][x[l]]
    BY <2>1, WayLevel, OnWayOnce
  <2>3. Way(m2, x)[l] = m2[w][x[l]]
    BY <1>1, <2>1, WayLevel, OnWayOnce
  <2> QED BY <2>1, <2>2, <2>3
<1>3. CASE ~ \E w : OnWay(m, x, l, w)
  <2>1. Way(m, x)[l] = Zero
    BY <1>3, WayLevel
  <2>2. Way(m2, x)[l] = Zero
    BY <1>1, <1>3, WayLevel
  <2> QED BY <2>1, <2>2
<1> QED BY <1>2, <1>3

(* A way that ends above the last level finds nothing there. *)
LEMMA DeadEnd ==
    ASSUME NEW m, NEW x, NEW l \in 1 .. 4, ~ Way(m, x)[l].present
    PROVE  ~ Way(m, x)[4].present
<1>1. ASSUME NEW k \in 2 .. 4, ~ Way(m, x)[k - 1].present PROVE ~ Way(m, x)[k].present
  <2>1. Way(m, x)[k] = Step(m, Way(m, x)[k - 1], x[k])
    BY WayNext
  <2> QED BY <1>1, <2>1 DEF Step, Zero
<1>2. l <= 3 /\ ~ Way(m, x)[3].present => ~ Way(m, x)[4].present
  BY <1>1
<1>3. l <= 2 /\ ~ Way(m, x)[2].present => ~ Way(m, x)[3].present
  BY <1>1
<1>4. l = 1 => ~ Way(m, x)[2].present
  BY <1>1
<1>5. l = 1 \/ l = 2 \/ l = 3 \/ l = 4
  OBVIOUS
<1> QED BY <1>2, <1>3, <1>4, <1>5

(* A new table maps no page, and hides none: ways to pages find what they     *)
(* found.  The way to its own page goes on to it.                             *)
LEMMA AddedWay ==
    ASSUME NEW m, NEW m2, NEW frames, NEW l \in 1 .. 3, NEW u, NEW j \in Idx, NEW f,
           IsAdded(m, m2, frames, l, u, j, f), NEW x \in Indices
    PROVE  /\ \/ Way(m2, x)[4] = Way(m, x)[4]
              \/ ~ Way(m, x)[4].present /\ ~ Way(m2, x)[4].present
           /\ OnWay(m, x, l, u) /\ x[l] = j => OnWay(m2, x, l + 1, f)
<1>1. \A k \in 1 .. 4 : k # l => \A w \in TablesOf(m)[k] : m2[w] = m[w]
  BY DEF IsAdded, IsTree, Levels
<1>2. l > 1 => Way(m2, x)[l - 1] = Way(m, x)[l - 1]
  <2> SUFFICES ASSUME l > 1 PROVE Way(m2, x)[l - 1] = Way(m, x)[l - 1]
    OBVIOUS
  <2>1. PICK n \in 1 .. 4 : n = l - 1
    OBVIOUS
  <2>2. \A k \in 1 .. n : \A w \in TablesOf(m)[k] : m2[w] = m[w]
    BY <1>1, <2>1
  <2>3. Way(m2, x)[n] = Way(m, x)[n]
    BY <2>2, SameWay
  <2> QED BY <2>1, <2>3
<1>3. \A w : OnWay(m2, x, l, w) <=> OnWay(m, x, l, w)
  BY <1>2 DEF OnWay
<1>4. CASE OnWay(m, x, l, u) /\ x[l] = j
  <2>1. Way(m, x)[l] = m[u][j] /\ Way(m2, x)[l] = m2[u][j]
    <3>1. l \in 1 .. 4
      OBVIOUS
    <3>2. Way(m, x)[l] = m[u][j]
      BY <1>4, <3>1, WayLevel, OnWayOnce
    <3>3. Way(m2, x)[l] = m2[u][j]
      BY <1>3, <1>4, <3>1, WayLevel, OnWayOnce
    <3> QED BY <3>2, <3>3
  <2>2. m2[u][j] = [addr |-> f, present |-> TRUE, huge |-> FALSE]
    BY DEF IsAdded
  <2>3. OnWay(m2, x, l + 1, f)
    BY <2>1, <2>2 DEF OnWay
  <2>4. ~ Way(m, x)[4].present
    BY <2>1, DeadEnd DEF IsAdded
  <2>5. Way(m2, x)[l + 1] = m2[f][x[l + 1]] /\ l + 1 \in 1 .. 4
    BY <2>3, WayLevel, OnWayOnce
  <2>6. m2[f][x[l + 1]] = Zero
    BY DEF IsAdded, ZeroFrame, Indices
  <2>7. ~ Way(m2, x)[4].present
    BY <2>5, <2>6, DeadEnd DEF Zero
  <2> QED BY <2>3, <2>4, <2>7
<1>5. CASE ~ (OnWay(m, x, l, u) /\ x[l] = j)
  <2>1. ASSUME NEW w, OnWay(m, x, l, w) PROVE m2[w][x[l]] = m[w][x[l]]
    <3>1. w \in TablesOf(m)[l] /\ x[l] \in Idx
      BY <2>1, WayTables DEF Indices
    <3> QED BY <1>5, <2>1, <3>1 DEF IsAdded
  <2>2. Way(m2, x)[l] = Way(m, x)[l]
    BY <1>2, <2>1, WayGoesOn
  <2>3. ASSUME NEW k \in 2 .. 4, k > l, Way(m2, x)[k - 1] = Way(m, x)[k - 1]
        PROVE  Way(m2, x)[k] = Way(m, x)[k]
    <3>1. \A w : OnWay(m, x, k, w) => m2[w] = m[w]
      BY <1>1, <2>3, WayTables
    <3> QED BY <2>3, <3>1, WayGoesOn
  <2>4. l = 1 => Way(m2, x)[2] = Way(m, x)[2]
    BY <2>2, <2>3
  <2>5. l <= 2 => Way(m2, x)[3] = Way(m, x)[3]
    BY <2>2, <2>3, <2>4
  <2>6. Way(m2, x)[4] = Way(m, x)[4]
    BY <2>2, <2>3, <2>5
  <2> QED BY <1>5, <2>6
<1> QED BY <1>4, <1>5

(* What a change of entries at the last level does to a way. *)
LEMMA LeafWay ==
    ASSUME NEW m, NEW m2, NEW x \in Indices,
           \A l \in 1 .. 3 : \A u \in TablesOf(m)[l] : m2[u] = m[u]
    PROVE  \/ \E w : /\ OnWay(m, x, 4, w) /\ w \in TablesOf(m)[4]
                     /\ Way(m, x)[4] = m[w][x[4]] /\ Way(m2, x)[4] = m2[w][x[4]]
           \/ Way(m2, x)[4] = Way(m, x)[4] /\ ~ \E w : OnWay(m, x, 4, w)
<1>1. Way(m2, x)[3] = Way(m, x)[3]
  BY SameWay
<1>2. \A w : OnWay(m2, x, 4, w) <=> OnWay(m, x, 4, w)
  BY <1>1 DEF OnWay
<1>3. CASE \E w : OnWay(m, x, 4, w)
  <2>1. PICK w : OnWay(m, x, 4, w)
    BY <1>3
  <2>2. Way(m, x)[4] = m[w][x[4]]
    BY <2>1, WayLevel, OnWayOnce
  <2>3. Way(m2, x)[4] = m2[w][x[4]]
    BY <1>2, <2>1, WayLevel, OnWayOnce
  <2> QED BY <2>1, <2>2, <2>3, WayTables
<1>4. CASE ~ \E w : OnWay(m, x, 4, w)
  <2>1. Way(m, x)[4] = Zero
    BY <1>4, WayLevel
  <2>2. Way(m2, x)[4] = Zero
    BY <1>2, <1>4, WayLevel
  <2> QED BY <1>4, <2>1, <2>2
<1> QED BY <1>3, <1>4

(* Two ways that meet at a table have come to it from one entry. *)
LEMMA WaysMeetAbove ==
    ASSUME NEW m, NEW frames, IsTree(m, frames), NEW x \in Indices, NEW y \in Indices,
           NEW l \in 1 .. 3, NEW n, n = l + 1, NEW a, OnWay(m, x, n, a), OnWay(m, y, n, a)
    PROVE  x[l] = y[l] /\ \E b : OnWay(m, x, l, b) /\ OnWay(m, y, l, b)
<1>1. PICK b : /\ OnWay(m, x, l, b) /\ m[b][x[l]].present /\ ~ m[b][x[l]].huge
               /\ m[b][x[l]].addr = a
  BY WayUp
<1>2. PICK c : /\ OnWay(m, y, l, c) /\ m[c][y[l]].present /\ ~ m[c][y[l]].huge
               /\ m[c][y[l]].addr = a
  BY WayUp
<1>3. b \in TablesOf(m)[l] /\ c \in TablesOf(m)[l] /\ x[l] \in Idx /\ y[l] \in Idx
  BY <1>1, <1>2, WayTables DEF Indices
<1>4. PICK p, q : p = <<b, x[l]>> /\ q = <<c, y[l]>>
  OBVIOUS
<1>5. p \in Leads(m, TablesOf(m)[l]) /\ q \in Leads(m, TablesOf(m)[l])
  BY <1>1, <1>2, <1>3, <1>4 DEF Leads
<1>6. Target(m, p) = Target(m, q)
  BY <1>1, <1>2, <1>4 DEF Target
<1>7. p = q
  BY <1>5, <1>6 DEF IsTree, Levels
<1> QED BY <1>1, <1>2, <1>4, <1>7

(* Two ways that meet at a table of the last level are the same to there. *)
LEMMA WaysMeet ==
    ASSUME NEW m, NEW frames, IsTree(m, frames), NEW x \in Indices, NEW y \in Indices,
           NEW u, OnWay(m, x, 4, u), OnWay(m, y, 4, u)
    PROVE  x[1] = y[1] /\ x[2] = y[2] /\ x[3] = y[3]
<1>1. \A l \in 1 .. 3 : \A n, a : n = l + 1 /\ OnWay(m, x, n, a) /\ OnWay(m, y, n, a) =>
         x[l] = y[l] /\ \E b : OnWay(m, x, l, b) /\ OnWay(m, y, l, b)
  BY WaysMeetAbove
<1>2. PICK a3 : x[3] = y[3] /\ OnWay(m, x, 3, a3) /\ OnWay(m, y, 3, a3)
  BY <1>1
<1>3. PICK a2 : x[2] = y[2] /\ OnWay(m, x, 2, a2) /\ OnWay(m, y, 2, a2)
  BY <1>1, <1>2
<1>4. x[1] = y[1]
  BY <1>1, <1>3
<1> QED BY <1>2, <1>3, <1>4

(* translate reads the entry at the end of the way. *)
LEMMA Translated ==
    \A v : translate(v) = LET e == Way(mem, table_indices(v))[4]
                          IN  IF e.present THEN e.addr ELSE NULL_MARK
<1> SUFFICES ASSUME NEW v
             PROVE  translate(v) = LET e == Way(mem, table_indices(v))[4]
                                   IN  IF e.present THEN e.addr ELSE NULL_MARK
  OBVIOUS
<1>1. PICK ix : ix = table_indices(v)
  OBVIOUS
<1>2. \A e, j : EntryBelow(e, j) = Step(mem, e, j)
  BY DEF EntryBelow, Step
<1>3. PICK e1, e2, e3, e4 :
        /\ e1 = mem[Root][ix[1]] /\ e2 = Step(mem, e1, ix[2])
        /\ e3 = Step(mem, e2, ix[3]) /\ e4 = Step(mem, e3, ix[4])
  OBVIOUS
<1>4. Way(mem, ix)[4] = e4
  BY <1>3, WaySteps
<1>5. EntryBelow(EntryBelow(EntryBelow(mem[Root][ix[1]], ix[2]), ix[3]), ix[4]) = e4
  BY <1>2, <1>3
<1> QED BY <1>1, <1>4, <1>5, Zenon DEF translate

(* The same after a step. *)
LEMMA TranslatedNext ==
    \A v : translate(v)' = LET e == Way(mem', table_indices(v))[4]
                           IN  IF e.present THEN e.addr ELSE NULL_MARK
<1> SUFFICES ASSUME NEW v
             PROVE  translate(v)' = LET e == Way(mem', table_indices(v))[4]
                                    IN  IF e.present THEN e.addr ELSE NULL_MARK
  OBVIOUS
<1>1. PICK ix : ix = table_indices(v)
  OBVIOUS
<1>2. PICK m : m = mem'
  OBVIOUS
<1>3. PICK e1, e2, e3, e4 :
        /\ e1 = m[Root][ix[1]] /\ e2 = Step(m, e1, ix[2])
        /\ e3 = Step(m, e2, ix[3]) /\ e4 = Step(m, e3, ix[4])
  OBVIOUS
<1>4. Way(m, ix)[4] = e4
  BY <1>3, WaySteps
<1>5. translate(v)' = IF Step(m, Step(m, Step(m, m[Root][ix[1]], ix[2]), ix[3]), ix[4]).present
                        THEN Step(m, Step(m, Step(m, m[Root][ix[1]], ix[2]), ix[3]), ix[4]).addr
                        ELSE NULL_MARK
  BY <1>1, <1>2, Zenon DEF translate, EntryBelow, Step
<1> QED BY <1>1, <1>2, <1>3, <1>4, <1>5, Zenon

(* The free list is read off head and memory, before a step and after it. *)
LEMMA FreeNow ==
    /\ FreeFrames = FreeOf(Head0, Mem0)
    /\ FreeFrames' = FreeOf(Head0', Mem0')
  BY Zenon DEF FreeFrames, FreeOf

-----------------------------------------------------------------------------
(* What a step does to the free list.                                       *)

(* Every frame on the list is of the pool, and the pages in use keep what they *)
(* hold when the list is built.                                              *)
LEMMA FreeState ==
    ASSUME FrameTypes, Untouched, FreeList
    PROVE  /\ FreeFrames \subseteq Pool /\ Head0 \in Pool \cup {NULL_MARK}
           /\ Head0 = NULL_MARK => FreeFrames = {}
           /\ Head0 # NULL_MARK => Head0 \in FreeFrames
           /\ Mem0 \in [Frames -> [Idx -> Word]]
           /\ \A t \in Tables : Mem0[t] = mem[t]
           /\ NextHead \in FreeFrames \cup {NULL_MARK}
<1>0. Pool \subseteq Nat /\ Pool \cap BootFrames = {} /\ Pool \subseteq Frames /\ NULL_MARK \notin Pool
        /\ BootFrames \subseteq Frames
  BY PoolFacts DEF Frames
<1>1. PICK r : IsList(FreeFrames, r, Head0, Mem0)
  BY DEF FreeList
<1>2. FreeFrames \subseteq Pool /\ Head0 \in Pool \cup {NULL_MARK}
  BY <1>1 DEF IsList
<1>3. /\ Head0 = NULL_MARK => FreeFrames = {}
      /\ Head0 # NULL_MARK => Head0 \in FreeFrames
  BY <1>0, <1>1, <1>2 DEF IsList
<1>4. Mem0 \in [Frames -> [Idx -> Word]]
  <2>1. CASE initialized
    BY <2>1 DEF Mem0, FrameTypes
  <2>2. CASE ~ initialized
    <3>1. ASSUME NEW f \in Pool
          PROVE  Link(IF {g \in Pool : g < f} = {} THEN NULL_MARK ELSE Max({g \in Pool : g < f})) \in Word
      <4>1. IsFiniteSet({g \in Pool : g < f}) /\ {g \in Pool : g < f} \in SUBSET Nat
        BY <1>0, PoolFacts, FS_Subset
      <4>2. (IF {g \in Pool : g < f} = {} THEN NULL_MARK ELSE Max({g \in Pool : g < f})) \in Int
        BY <4>1, MaxOf DEF NULL_MARK
      <4> QED BY <4>2 DEF Link, Word
    <3>2. \A f \in Frames : InitMem[f] \in [Idx -> Word]
      BY <1>0, <3>1 DEF InitMem, FrameTypes
    <3>3. InitMem = [f \in Frames |-> InitMem[f]]
      BY DEF InitMem
    <3> QED BY <2>2, <3>2, <3>3 DEF Mem0
  <2> QED BY <2>1, <2>2
<1>5. \A t \in Tables : Mem0[t] = mem[t]
  <2>1. CASE initialized
    BY <2>1 DEF Mem0
  <2>2. CASE ~ initialized
    <3>1. Tables \subseteq BootFrames
      BY <2>2 DEF Untouched
    <3> QED BY <1>0, <2>2, <3>1 DEF Mem0, InitMem
  <2> QED BY <2>1, <2>2
<1>6. NextHead \in FreeFrames \cup {NULL_MARK}
  BY <1>1, <1>3 DEF NextHead, IsList
<1> QED BY <1>2, <1>3, <1>4, <1>5, <1>6

(* A list from the next head on is the next free list. *)
LEMMA FreeNext ==
    ASSUME NEW F, NEW r, IsList(F, r, Head0', Mem0')
    PROVE  FreeList' /\ FreeFrames' = F
<1>1. FreeFrames' = F
  BY FreeNow, FreeFramesAre
<1> QED BY <1>1 DEF FreeList

(* Steps that leave the frames on the list alone. *)
LEMMA KeepFree ==
    ASSUME FrameTypes, Untouched, FreeList, UNCHANGED <<head, initialized>>,
           DOMAIN mem' = Frames, \A f \in FreeFrames : mem'[f] = mem[f]
    PROVE  FreeList' /\ FreeFrames' = FreeFrames
<1>0. FreeFrames \subseteq Pool /\ Pool \subseteq Frames
  BY FreeState DEF Frames
<1>1. PICK r : IsList(FreeFrames, r, Head0, Mem0)
  BY DEF FreeList
<1>2. Head0' = Head0
  BY DEF Head0
<1>3. \A f \in FreeFrames : Mem0'[f] = Mem0[f]
  BY <1>0 DEF Mem0, InitMem
<1>4. IsList(FreeFrames, r, Head0', Mem0')
  BY <1>1, <1>2, <1>3, SameList
<1> QED BY <1>4, FreeNext

(* allocate, whatever becomes of its frame. *)
LEMMA PopFree ==
    ASSUME FrameTypes, Untouched, FreeList, head' = NextHead, initialized' = TRUE,
           \A f \in FreeFrames \ {Head0} : mem'[f] = Mem0[f]
    PROVE  FreeList' /\ FreeFrames' = FreeFrames \ {Head0}
<1>0. /\ Head0 = NULL_MARK => FreeFrames = {}
      /\ Head0 # NULL_MARK => Head0 \in FreeFrames
  BY FreeState
<1>1. PICK r : IsList(FreeFrames, r, Head0, Mem0)
  BY DEF FreeList
<1>2. Head0' = NextHead /\ Mem0' = mem'
  BY DEF Head0, Mem0
<1>3. CASE Head0 = NULL_MARK
  <2>1. IsList(FreeFrames, r, Head0', Mem0')
    BY <1>0, <1>1, <1>2, <1>3 DEF IsList, NextHead
  <2> QED BY <1>0, <1>3, <2>1, FreeNext
<1>4. CASE Head0 # NULL_MARK
  <2>1. NextHead = Mem0[Head0][0].addr
    BY <1>4 DEF NextHead
  <2>2. IsList(FreeFrames \ {Head0}, r, Mem0[Head0][0].addr, mem')
    BY <1>1, <1>4, PopList
  <2>3. IsList(FreeFrames \ {Head0}, r, Head0', Mem0')
    BY <1>2, <2>1, <2>2
  <2> QED BY <2>3, FreeNext
<1> QED BY <1>3, <1>4

(* free. *)
LEMMA PushFree ==
    ASSUME FrameTypes, Untouched, FreeList, initialized, NEW f \in Pool \ FreeFrames,
           mem' = Freed(f), head' = f, UNCHANGED initialized
    PROVE  FreeList' /\ FreeFrames' = FreeFrames \cup {f}
<1>0. FreeFrames \subseteq Pool /\ Pool \subseteq Frames /\ 0 \in Idx
  BY FreeState, FrameAssumption DEF Frames, Idx
<1>1. PICK r : IsList(FreeFrames, r, Head0, Mem0)
  BY DEF FreeList
<1>2. Head0 = head /\ Mem0 = mem /\ Head0' = f /\ Mem0' = mem'
  BY DEF Head0, Mem0
<1>3. mem'[f][0].addr = head
  BY <1>0 DEF Freed, ZeroFrame, Link, FrameTypes
<1>4. \A g \in FreeFrames : mem'[g][0].addr = mem[g][0].addr
  BY <1>0 DEF Freed, FrameTypes
<1>5. PICK r2 : IsList(FreeFrames \cup {f}, r2, f, mem')
  <2>1. IsList(FreeFrames, r, head, mem)
    BY <1>1, <1>2
  <2> QED BY <1>3, <1>4, <2>1, PushList
<1>6. IsList(FreeFrames \cup {f}, r2, Head0', Mem0')
  BY <1>2, <1>5
<1> QED BY <1>6, FreeNext

-----------------------------------------------------------------------------
(* What a step does to the tables.                                          *)

(* The tables are those of some level, before a step and after it. *)
LEMMA TablesNow ==
    /\ \A t : t \in Tables <=> \E l \in 1 .. 4 : t \in TablesOf(mem)[l]
    /\ \A t : t \in Tables' <=> \E l \in 1 .. 4 : t \in TablesOf(mem')[l]
<1>1. \A t : t \in Tables <=> \E l \in 1 .. 4 : t \in TablesOf(mem)[l]
  BY DEF Tables, TablesAt, Levels
<1>2. PICK m : m = mem'
  OBVIOUS
<1>3. TablesAt' = TablesOf(m)
  BY <1>2, Zenon DEF TablesAt
<1>4. Tables' = UNION {TablesOf(m)[l] : l \in 1 .. 4}
  BY <1>3 DEF Tables, Levels
<1>5. \A t : t \in Tables' <=> \E l \in 1 .. 4 : t \in TablesOf(m)[l]
  BY <1>4
<1> QED BY <1>1, <1>2, <1>5

(* Tables are frames. *)
LEMMA TablesAreFrames ==
    ASSUME IsTree(mem, Frames)
    PROVE  Tables \subseteq Frames /\ Root \in Tables
<1>1. \A l \in 1 .. 4 : TablesOf(mem)[l] \subseteq Frames
  BY DEF IsTree, Levels
<1>2. Root \in TablesOf(mem)[1]
  BY TableLevels
<1> QED BY <1>1, <1>2, TablesNow

(* A step that changes no table changes no translation. *)
LEMMA SamePages ==
    ASSUME IsTree(mem, Frames), \A t \in Tables : mem'[t] = mem[t]
    PROVE  /\ IsTree(mem', Frames) /\ Tables' = Tables
           /\ \A v \in Pages : translate(v)' = translate(v)
<1>1. PICK m2 : m2 = mem'
  OBVIOUS
<1>2. \A l \in 1 .. 4 : \A u \in TablesOf(mem)[l] : m2[u] = mem[u]
  BY <1>1, TablesNow
<1>3. TablesOf(m2) = TablesOf(mem) /\ IsTree(m2, Frames)
  <2>1. \A l \in 1 .. 3 : \A u \in TablesOf(mem)[l] : m2[u] = mem[u]
    BY <1>2
  <2> QED BY <2>1, SameTree
<1>4. Tables' = Tables
  BY <1>1, <1>3, TablesNow
<1>5. ASSUME NEW v \in Pages PROVE translate(v)' = translate(v)
  <2>1. table_indices(v) \in Indices
    BY PageIndices
  <2>2. \A l \in 1 .. 4 : Way(m2, table_indices(v))[l] = Way(mem, table_indices(v))[l]
    BY <1>2, <2>1, SameWay
  <2>3. Way(m2, table_indices(v))[4] = Way(mem, table_indices(v))[4]
    BY <2>2
  <2> QED BY <1>1, <2>3, Translated, TranslatedNext
<1> QED BY <1>1, <1>3, <1>4, <1>5

(* Page x, whose entry is in table u, is translated by entry e, and that is    *)
(* all that has changed in the tables.                                       *)
LeafChanged(x, u, e) ==
    /\ IsTree(mem', Frames) /\ Tables' = Tables /\ u \in Tables
    /\ \A t : t # u => mem'[t] = mem[t]
    /\ \A v \in Pages : v # x => translate(v)' = translate(v)
    /\ translate(x) = IF mem[u][table_indices(x)[4]].present
                        THEN mem[u][table_indices(x)[4]].addr ELSE NULL_MARK
    /\ translate(x)' = IF e.present THEN e.addr ELSE NULL_MARK

(* An entry of a table of the last level changes: the tables stay, and the    *)
(* only translation that can change is that of the page of the entry.        *)
LEMMA LeafStep ==
    ASSUME FrameTypes, IsTree(mem, Frames), NEW x \in Pages, NEW u,
           OnWay(mem, table_indices(x), 4, u), NEW e,
           mem' = [mem EXCEPT ![u][table_indices(x)[4]] = e]
    PROVE  LeafChanged(x, u, e)
<1>1. PICK m2 : m2 = mem'
  OBVIOUS
<1>2. table_indices(x) \in Indices
  BY PageIndices
<1>3. PICK ix : ix = table_indices(x)
  OBVIOUS
<1>4. u \in TablesOf(mem)[4]
  BY <1>2, WayTables
<1>5. u \in Frames /\ \A l \in 1 .. 3 : u \notin TablesOf(mem)[l]
  BY <1>4 DEF IsTree, Levels
<1>6. \A t : t # u => m2[t] = mem[t]
  <2>1. m2 = [mem EXCEPT ![u] = [mem[u] EXCEPT ![ix[4]] = e]]
    BY <1>1, <1>3
  <2> QED BY <2>1
<1>7. \A l \in 1 .. 3 : \A t \in TablesOf(mem)[l] : m2[t] = mem[t]
  BY <1>5, <1>6
<1>8. TablesOf(m2) = TablesOf(mem) /\ IsTree(m2, Frames)
  BY <1>7, SameTree
<1>9. Tables' = Tables /\ u \in Tables
  <2>1. Tables' = Tables
    BY <1>1, <1>8, TablesNow
  <2> QED BY <1>4, <2>1, TablesNow
<1>10. ix \in Indices /\ ix[4] \in Idx /\ mem[u] \in [Idx -> Word] /\ DOMAIN mem = Frames
  BY <1>2, <1>3, <1>5 DEF Indices, FrameTypes
<1>11. m2[u][ix[4]] = e /\ \A j \in Idx : j # ix[4] => m2[u][j] = mem[u][j]
  <2>1. m2[u] = [mem[u] EXCEPT ![ix[4]] = e]
    BY <1>1, <1>3, <1>5, <1>10
  <2> QED BY <2>1, <1>10
<1>12. ASSUME NEW v \in Pages, v # x
       PROVE  translate(v)' = translate(v)
  <2>1. PICK iv : iv = table_indices(v)
    OBVIOUS
  <2>2. iv \in Indices /\ iv # ix
    BY <1>3, <1>12, <2>1, PageIndices, IndicesKnow
  <2>3. Way(m2, iv)[4] = Way(mem, iv)[4]
    <3>1. \/ \E w : /\ OnWay(mem, iv, 4, w) /\ w \in TablesOf(mem)[4]
                    /\ Way(mem, iv)[4] = mem[w][iv[4]] /\ Way(m2, iv)[4] = m2[w][iv[4]]
          \/ Way(m2, iv)[4] = Way(mem, iv)[4]
      BY <1>7, <2>2, LeafWay
    <3>2. CASE OnWay(mem, iv, 4, u)
      <4>1. OnWay(mem, ix, 4, u)
        BY <1>3
      <4>2. iv[1] = ix[1] /\ iv[2] = ix[2] /\ iv[3] = ix[3]
        BY <1>10, <2>2, <3>2, <4>1, WaysMeet
      <4>3. iv[4] # ix[4] /\ iv[4] \in Idx
        <5>1. ASSUME iv[4] = ix[4] PROVE \A k \in 1 .. 4 : iv[k] = ix[k]
          BY <4>2, <5>1
        <5> QED BY <1>10, <2>2, <5>1 DEF Indices
      <4>4. \A w : OnWay(mem, iv, 4, w) => w = u
        BY <3>2, OnWayOnce
      <4> QED BY <1>11, <3>1, <4>3, <4>4
    <3>3. CASE ~ OnWay(mem, iv, 4, u)
      BY <1>6, <3>1, <3>3
    <3> QED BY <3>2, <3>3
  <2> QED BY <1>1, <2>1, <2>3, Translated, TranslatedNext
<1>13. Way(mem, ix)[4] = mem[u][ix[4]] /\ Way(m2, ix)[4] = e
  <2>1. OnWay(mem, ix, 4, u)
    BY <1>3
  <2>2. \/ \E w : /\ OnWay(mem, ix, 4, w) /\ w \in TablesOf(mem)[4]
                  /\ Way(mem, ix)[4] = mem[w][ix[4]] /\ Way(m2, ix)[4] = m2[w][ix[4]]
        \/ Way(m2, ix)[4] = Way(mem, ix)[4] /\ ~ \E w : OnWay(mem, ix, 4, w)
    BY <1>7, <1>10, LeafWay
  <2>3. PICK w : /\ OnWay(mem, ix, 4, w)
                 /\ Way(mem, ix)[4] = mem[w][ix[4]] /\ Way(m2, ix)[4] = m2[w][ix[4]]
    BY <2>1, <2>2
  <2>4. w = u
    BY <2>1, <2>3, OnWayOnce
  <2> QED BY <1>11, <2>3, <2>4
<1>14. /\ translate(x) = IF mem[u][ix[4]].present THEN mem[u][ix[4]].addr ELSE NULL_MARK
       /\ translate(x)' = IF e.present THEN e.addr ELSE NULL_MARK
  BY <1>1, <1>3, <1>13, Translated, TranslatedNext
<1> QED BY <1>1, <1>3, <1>6, <1>8, <1>9, <1>12, <1>14, Zenon DEF LeafChanged

(* Entry j of table u is made to lead to a fresh table. *)
NewTableAt(u, j) ==
    mem' = [Popped EXCEPT ![u][j] = [addr |-> Head0, present |-> TRUE, huge |-> FALSE]]

(* A fresh table is put below an entry that was not present: it is the only   *)
(* table more, and no translation changes.                                   *)
LEMMA TableStep ==
    ASSUME FrameTypes, Untouched, FreeList, IsTree(mem, Frames), FreeFrames \cap Tables = {},
           Head0 # NULL_MARK, NEW x \in Pages, NEW l \in 1 .. 3, NEW u,
           OnWay(mem, table_indices(x), l, u), ~ mem[u][table_indices(x)[l]].present,
           NewTableAt(u, table_indices(x)[l])
    PROVE  /\ IsTree(mem', Frames) /\ Tables' = Tables \cup {Head0} /\ u \in Tables
           /\ \A f : f # u /\ f # Head0 => mem'[f] = Mem0[f]
           /\ mem' \in [Frames -> [Idx -> Word]]
           /\ OnWay(mem', table_indices(x), l + 1, Head0)
           /\ \A v \in Pages : translate(v)' = translate(v)
<1>1. PICK m2 : m2 = mem'
  OBVIOUS
<1>2. PICK ix : ix = table_indices(x)
  OBVIOUS
<1>3. ix \in Indices /\ ix[l] \in Idx
  BY <1>2, PageIndices DEF Indices
<1>4. PICK j, f, new : j = ix[l] /\ f = Head0 /\ new = [addr |-> f, present |-> TRUE, huge |-> FALSE]
  OBVIOUS
<1>5. f \in FreeFrames /\ f \in Pool /\ f \in Frames /\ f \notin Tables /\ f \in Int
  BY <1>4, FreeState, PoolFacts DEF Frames
<1>6. Mem0 \in [Frames -> [Idx -> Word]] /\ \A t \in Tables : Mem0[t] = mem[t]
  BY FreeState
<1>7. u \in TablesOf(mem)[l] /\ u \in Tables /\ u \in Frames /\ u # f
  <2>1. u \in TablesOf(mem)[l]
    BY <1>2, <1>3, WayTables
  <2> QED BY <1>5, <2>1, TablesNow, TablesAreFrames
<1>8. Popped = [Mem0 EXCEPT ![f] = ZeroFrame] /\ ZeroFrame \in [Idx -> Word]
  BY <1>4 DEF Popped, ZeroFrame, Zero, Word
<1>9. m2 = [Popped EXCEPT ![u] = [Popped[u] EXCEPT ![j] = new]]
  <2>1. mem' = [Popped EXCEPT ![u][table_indices(x)[l]] =
                  [addr |-> Head0, present |-> TRUE, huge |-> FALSE]]
    BY DEF NewTableAt
  <2> QED BY <1>1, <1>2, <1>4, <2>1
<1>10. Popped[u] = mem[u] /\ Popped[f] = ZeroFrame /\ \A g : g # f => Popped[g] = Mem0[g]
  <2>1. DOMAIN Mem0 = Frames
    BY <1>6
  <2>2. Popped[f] = ZeroFrame /\ \A g : g # f => Popped[g] = Mem0[g]
    BY <1>5, <1>8, <2>1
  <2> QED BY <1>6, <1>7, <2>2
<1>11. DOMAIN Popped = Frames
  BY <1>6, <1>8
<1>12. m2[u] = [mem[u] EXCEPT ![j] = new] /\ m2[f] = ZeroFrame
  BY <1>7, <1>9, <1>10, <1>11
<1>13. \A g : g # u /\ g # f => m2[g] = Mem0[g]
  BY <1>9, <1>10
<1>14. new \in Word /\ mem[u] \in [Idx -> Word] /\ m2 \in [Frames -> [Idx -> Word]]
  <2>1. new \in Word
    BY <1>4, <1>5 DEF Word
  <2>2. mem[u] \in [Idx -> Word]
    BY <1>7 DEF FrameTypes
  <2>3. Popped \in [Frames -> [Idx -> Word]]
    BY <1>5, <1>6, <1>8
  <2>4. [mem[u] EXCEPT ![j] = new] \in [Idx -> Word]
    BY <2>1, <2>2
  <2> QED BY <1>7, <1>9, <1>10, <2>1, <2>2, <2>3, <2>4
<1>15. IsAdded(mem, m2, Frames, l, u, j, f)
  <2>1. \A k \in 1 .. 4 : f \notin TablesOf(mem)[k]
    BY <1>5, TablesNow
  <2>2. ASSUME NEW k \in 1 .. 4, NEW w \in TablesOf(mem)[k], w # u
        PROVE  m2[w] = mem[w]
    <3>1. w \in Tables
      BY TablesNow
    <3> QED BY <1>5, <1>6, <1>13, <2>2, <3>1
  <2>3. ~ mem[u][j].present
    BY <1>2, <1>4
  <2> QED BY <1>4, <1>5, <1>7, <1>12, <1>14, <2>1, <2>2, <2>3 DEF IsAdded
<1>16. /\ IsTree(m2, Frames)
       /\ \A k \in 1 .. 4 : k # l + 1 => TablesOf(m2)[k] = TablesOf(mem)[k]
       /\ TablesOf(m2)[l + 1] = TablesOf(mem)[l + 1] \cup {f}
  <2>1. PICK n : n = l + 1
    OBVIOUS
  <2>2. j \in Idx
    BY <1>3, <1>4
  <2>3. HasGrown(mem, m2, Frames, n, f)
    BY <1>15, <2>1, <2>2, AddedTable
  <2> QED BY <2>1, <2>3 DEF HasGrown
<1>17. Tables' = Tables \cup {f}
  <2>1. l + 1 \in 1 .. 4
    OBVIOUS
  <2>2. \A t : (\E k \in 1 .. 4 : t \in TablesOf(m2)[k])
                <=> (t = f \/ \E k \in 1 .. 4 : t \in TablesOf(mem)[k])
    <3>1. ASSUME NEW k \in 1 .. 4, NEW t
          PROVE  t \in TablesOf(m2)[k] <=> (t \in TablesOf(mem)[k] \/ (k = l + 1 /\ t = f))
      BY <1>16
    <3> QED BY <2>1, <3>1
  <2>3. \A t : t \in Tables' <=> t = f \/ t \in Tables
    BY <1>1, <2>2, TablesNow
  <2> QED BY <2>3
<1>18. OnWay(m2, ix, l + 1, f)
  <2>1. OnWay(mem, ix, l, u) /\ ix[l] = j /\ j \in Idx
    BY <1>2, <1>3, <1>4
  <2> QED BY <1>3, <1>15, <2>1, AddedWay
<1>19. ASSUME NEW v \in Pages PROVE translate(v)' = translate(v)
  <2>1. PICK iv : iv = table_indices(v)
    OBVIOUS
  <2>2. iv \in Indices /\ j \in Idx
    BY <1>3, <1>4, <2>1, PageIndices
  <2>3. \/ Way(m2, iv)[4] = Way(mem, iv)[4]
        \/ ~ Way(mem, iv)[4].present /\ ~ Way(m2, iv)[4].present
    BY <1>15, <2>2, AddedWay
  <2> QED BY <1>1, <2>1, <2>3, Translated, TranslatedNext
<1> QED BY <1>1, <1>2, <1>4, <1>7, <1>13, <1>14, <1>16, <1>17, <1>18, <1>19

(* A walk goes on from a table on the way to its page through an entry that  *)
(* leads on.                                                                 *)
LEMMA WayDown ==
    ASSUME FrameTypes, IsTree(mem, Frames), NEW x \in Pages, NEW l \in 1 .. 3, NEW u,
           OnWay(mem, table_indices(x), l, u), mem[u][table_indices(x)[l]].present,
           ~ mem[u][table_indices(x)[l]].huge
    PROVE  /\ OnWay(mem, table_indices(x), l + 1, mem[u][table_indices(x)[l]].addr)
           /\ mem[u][table_indices(x)[l]].addr \in Frames
<1>1. PICK ix, n : ix = table_indices(x) /\ n = l + 1
  OBVIOUS
<1>2. ix \in Indices /\ n \in 2 .. 4 /\ n - 1 = l
  BY <1>1, PageIndices
<1>3. Way(mem, ix)[l] = mem[u][ix[l]]
  BY <1>1, WayLevel, OnWayOnce
<1>4. OnWay(mem, ix, n, mem[u][ix[l]].addr)
  BY <1>1, <1>2, <1>3 DEF OnWay
<1>5. mem[u][ix[l]].addr \in TablesOf(mem)[n]
  BY <1>2, <1>4, WayTables
<1> QED BY <1>1, <1>2, <1>4, <1>5 DEF IsTree, Levels

-----------------------------------------------------------------------------
(* Every step keeps the invariant, and changes no translation but its own.  *)

(* What OnlyItsPage says of one step. *)
ItsPage ==
    \A v \in Pages :
        \/ translate(v)' = translate(v)
        \/ /\ v = walk.virt
           /\ \/ walk.op = "map" /\ translate(v) = NULL_MARK /\ translate(v)' = walk.phys
              \/ walk.op = "unmap" /\ translate(v)' = NULL_MARK

(* Steps that do not touch the frames. *)
LEMMA QuietStep ==
    ASSUME PagingInv, UNCHANGED <<mem, head, initialized>>
    PROVE  /\ FreeList' /\ FreeFrames' = FreeFrames /\ IsTree(mem', Frames) /\ Tables' = Tables
           /\ ItsPage
<1>1. FrameTypes /\ Untouched /\ FreeList /\ IsTree(mem, Frames)
  BY DEF PagingInv
<1>2. FreeList' /\ FreeFrames' = FreeFrames
  BY <1>1, KeepFree DEF FrameTypes
<1>3. IsTree(mem', Frames) /\ Tables' = Tables /\ \A v \in Pages : translate(v)' = translate(v)
  BY <1>1, SamePages
<1> QED BY <1>2, <1>3 DEF ItsPage

(* The steps of allocate: a frame leaves the list, and is no table yet. *)
LEMMA AllocateStep ==
    ASSUME PagingInv, mem' = Popped, head' = NextHead, initialized' = TRUE
    PROVE  /\ FreeList' /\ FreeFrames' = FreeFrames \ {Head0}
           /\ IsTree(mem', Frames) /\ Tables' = Tables /\ ItsPage
           /\ mem' \in [Frames -> [Idx -> Word]] /\ head' \in Pool \cup {NULL_MARK}
           /\ Head0 \in FreeFrames \cup {NULL_MARK} /\ FreeFrames \subseteq Pool
<1>1. FrameTypes /\ Untouched /\ FreeList /\ IsTree(mem, Frames) /\ FreeFrames \cap Tables = {}
  BY DEF PagingInv, OwnersApart
<1>2. /\ FreeFrames \subseteq Pool /\ Head0 \in FreeFrames \cup {NULL_MARK}
      /\ Mem0 \in [Frames -> [Idx -> Word]] /\ (\A t \in Tables : Mem0[t] = mem[t])
      /\ NextHead \in FreeFrames \cup {NULL_MARK}
  BY <1>1, FreeState
<1>3. Pool \subseteq Frames /\ NULL_MARK \notin Frames
  BY PoolFacts DEF Frames
<1>4. \A f : f # Head0 => mem'[f] = Mem0[f]
  BY DEF Popped
<1>5. mem' \in [Frames -> [Idx -> Word]]
  <2>1. ZeroFrame \in [Idx -> Word]
    BY DEF ZeroFrame, Zero, Word
  <2> QED BY <1>2, <2>1 DEF Popped
<1>6. FreeList' /\ FreeFrames' = FreeFrames \ {Head0}
  BY <1>1, <1>4, PopFree
<1>7. \A t \in Tables : mem'[t] = mem[t]
  <2>1. Head0 \notin Tables
    BY <1>1, <1>2, <1>3, TablesAreFrames
  <2> QED BY <1>2, <1>4, <2>1
<1>8. IsTree(mem', Frames) /\ Tables' = Tables /\ \A v \in Pages : translate(v)' = translate(v)
  BY <1>1, <1>7, SamePages
<1> QED BY <1>2, <1>5, <1>6, <1>8 DEF ItsPage

(* memory::init begins. *)
LEMMA InitStep ==
    ASSUME PagingInv, init
    PROVE  PagingInv' /\ ItsPage
<1>0. UNCHANGED <<mem, head, initialized, heap, heapTaken, held, walk>> /\ pc' = "heap"
  BY DEF init, frameVars
<1>1. /\ FreeList' /\ FreeFrames' = FreeFrames /\ IsTree(mem', Frames) /\ Tables' = Tables
      /\ ItsPage
  BY <1>0, QuietStep
<1>2. FrameTypes' /\ WalkTypes'
  BY <1>0 DEF PagingInv, FrameTypes, WalkTypes
<1>3. Untouched' /\ OwnersApart'
  BY <1>0, <1>1 DEF PagingInv, Untouched, OwnersApart
<1>4. WalkOnWay'
  BY <1>0 DEF WalkOnWay
<1> QED BY <1>1, <1>2, <1>3, <1>4 DEF PagingInv

(* A turn of the loop of init_heap, and its end. *)
LEMMA HeapStep ==
    ASSUME PagingInv, init_heap
    PROVE  PagingInv' /\ ItsPage
<1>0. UNCHANGED <<walk, held>> /\ pc' \in {"heap", "stop", "idle"}
  BY DEF init_heap
<1>1. WalkTypes' /\ WalkOnWay'
  BY <1>0 DEF PagingInv, WalkTypes, WalkOnWay
<1>2. CASE init_heap_turn
  <2>1. /\ FreeList' /\ FreeFrames' = FreeFrames \ {Head0}
        /\ IsTree(mem', Frames) /\ Tables' = Tables /\ ItsPage
        /\ mem' \in [Frames -> [Idx -> Word]] /\ head' \in Pool \cup {NULL_MARK}
        /\ Head0 \in FreeFrames \cup {NULL_MARK} /\ FreeFrames \subseteq Pool
    BY <1>2, AllocateStep DEF init_heap_turn
  <2>2. heapTaken' = heapTaken \cup ({Head0} \ {NULL_MARK}) /\ initialized' = TRUE
    BY <1>2 DEF init_heap_turn
  <2>3. NULL_MARK \notin Frames /\ Pool \subseteq Nat /\ NULL_MARK \in Int
    BY PoolFacts DEF NULL_MARK
  <2>4. heap' \in [turn : 0 .. HEAP_FRAMES, lowest : Pool \cup {NULL_MARK}, expected : Int,
                   start : Pool \cup {NULL_MARK}]
    <3>1. heap \in [turn : 0 .. HEAP_FRAMES, lowest : Pool \cup {NULL_MARK}, expected : Int,
                    start : Pool \cup {NULL_MARK}] /\ heap.turn < HEAP_FRAMES
      BY <1>2 DEF PagingInv, FrameTypes, init_heap_turn
    <3>2. heap.turn + 1 \in 0 .. HEAP_FRAMES
      BY <3>1, FrameAssumption
    <3>3. Head0 # NULL_MARK => Head0 \in Pool /\ Head0 - FRAME_SIZE \in Int
      BY <2>1, <2>3, FrameAssumption
    <3> QED BY <1>2, <3>1, <3>2, <3>3 DEF init_heap_turn
  <2>5. FrameTypes'
    BY <1>0, <2>1, <2>2, <2>4 DEF PagingInv, FrameTypes
  <2>6. OwnersApart'
    <3>1. NULL_MARK \notin FreeFrames
      BY <2>1, <2>3 DEF Frames
    <3> QED BY <1>0, <2>1, <2>2, <3>1 DEF PagingInv, OwnersApart
  <2>7. Untouched'
    BY <2>2 DEF Untouched
  <2> QED BY <1>1, <2>1, <2>5, <2>6, <2>7 DEF PagingInv
<1>3. CASE init_heap_done
  <2>0. UNCHANGED <<mem, head, initialized, heapTaken>>
    BY <1>3 DEF init_heap_done
  <2>1. /\ FreeList' /\ FreeFrames' = FreeFrames /\ IsTree(mem', Frames) /\ Tables' = Tables
        /\ ItsPage
    BY <2>0, QuietStep
  <2>2. FrameTypes'
    BY <1>0, <1>3, <2>0 DEF PagingInv, FrameTypes, init_heap_done
  <2>3. Untouched' /\ OwnersApart'
    BY <1>0, <2>0, <2>1 DEF PagingInv, Untouched, OwnersApart
  <2> QED BY <1>1, <2>1, <2>2, <2>3 DEF PagingInv
<1> QED BY <1>2, <1>3 DEF init_heap

(* allocate_frame gives its frame to the caller. *)
LEMMA GiveStep ==
    ASSUME PagingInv, allocate_frame
    PROVE  PagingInv' /\ ItsPage
<1>0. /\ UNCHANGED <<heap, heapTaken, pc, walk>> /\ pc = "idle" /\ initialized' = TRUE
      /\ held' = held \cup ({Head0} \ {NULL_MARK})
  BY DEF allocate_frame, Call
<1>1. /\ FreeList' /\ FreeFrames' = FreeFrames \ {Head0}
      /\ IsTree(mem', Frames) /\ Tables' = Tables /\ ItsPage
      /\ mem' \in [Frames -> [Idx -> Word]] /\ head' \in Pool \cup {NULL_MARK}
      /\ Head0 \in FreeFrames \cup {NULL_MARK} /\ FreeFrames \subseteq Pool
  BY AllocateStep DEF allocate_frame
<1>2. FrameTypes' /\ WalkTypes'
  BY <1>0, <1>1 DEF PagingInv, FrameTypes, WalkTypes
<1>3. OwnersApart'
  <2>1. NULL_MARK \notin FreeFrames
    BY <1>1, PoolFacts DEF Frames
  <2> QED BY <1>0, <1>1, <2>1 DEF PagingInv, OwnersApart
<1>4. Untouched' /\ WalkOnWay'
  BY <1>0 DEF Untouched, WalkOnWay
<1> QED BY <1>1, <1>2, <1>3, <1>4 DEF PagingInv

(* free_frame puts the caller's frame back on the list. *)
LEMMA FreeStep ==
    ASSUME PagingInv, NEW f \in Pool, free_frame(f)
    PROVE  PagingInv' /\ ItsPage
<1>0. /\ UNCHANGED <<initialized, heap, heapTaken, pc, walk>> /\ pc = "idle"
      /\ f \in held /\ mem' = Freed(f) /\ head' = f /\ held' = held \ {f}
  BY DEF free_frame, Call
<1>1. /\ FrameTypes /\ Untouched /\ FreeList /\ IsTree(mem, Frames) /\ initialized
      /\ f \notin FreeFrames /\ f \notin Tables /\ f \notin heapTaken
  BY <1>0 DEF PagingInv, OwnersApart, Untouched
<1>2. FreeList' /\ FreeFrames' = FreeFrames \cup {f}
  BY <1>0, <1>1, PushFree
<1>3. \A t \in Tables : mem'[t] = mem[t]
  BY <1>0, <1>1 DEF Freed
<1>4. IsTree(mem', Frames) /\ Tables' = Tables /\ \A v \in Pages : translate(v)' = translate(v)
  BY <1>1, <1>3, SamePages
<1>5. mem' \in [Frames -> [Idx -> Word]]
  <2>1. Link(head) \in Word /\ ZeroFrame \in [Idx -> Word]
    <3>1. head \in Int
      BY <1>1, PoolFacts DEF FrameTypes, NULL_MARK
    <3> QED BY <3>1 DEF Link, ZeroFrame, Zero, Word
  <2> QED BY <1>0, <1>1, <2>1 DEF Freed, FrameTypes
<1>6. FrameTypes' /\ WalkTypes'
  BY <1>0, <1>5 DEF PagingInv, FrameTypes, WalkTypes
<1>7. OwnersApart' /\ Untouched' /\ WalkOnWay'
  BY <1>0, <1>1, <1>2, <1>4 DEF PagingInv, OwnersApart, Untouched, WalkOnWay
<1> QED BY <1>2, <1>4, <1>6, <1>7 DEF PagingInv, ItsPage

(* The pages that are unmapped are pages that were asked for. *)
LEMMA Unmaps == \A v \in {r.virt : r \in Requests} : v \in Pages
BY CallsAssumption

(* The first table of a walk is a frame, and the pages are numbered from 0. *)
LEMMA FirstOnes == Root \in Frames /\ 0 \in Pages /\ \E n \in Nat : Pages = 0 .. n
<1>1. Entries * Entries \in Nat \ {0}
  BY FrameAssumption, Z3
<1>2. Entries * Entries * Entries \in Nat \ {0}
  BY FrameAssumption, <1>1, Z3
<1>3. Entries * Entries * Entries * Entries \in Nat \ {0}
  BY FrameAssumption, <1>2, Z3
<1>4. Entries * Entries * Entries * Entries - 1 \in Nat
  BY <1>3
<1> QED BY <1>4, BootAssumption DEF Frames, Pages

(* map_page begins a walk at the root, and so does unmap_page. *)
LEMMA MapStep ==
    ASSUME PagingInv, NEW r \in Requests, map_page(r)
    PROVE  PagingInv' /\ ItsPage
<1>2. /\ UNCHANGED <<mem, head, initialized, heap, heapTaken, held>> /\ pc' = "walk"
      /\ walk' \in [op : {"map", "unmap"}, virt : Pages, phys : Nat, left : Nat,
                    mmio : BOOLEAN, level : {1}, table : {Root}]
      /\ walk'.virt + walk'.left \in Pages
  <2>1. r.virt \in Pages /\ r.phys \in Nat /\ r.pages \in Nat \ {0} /\ r.mmio \in BOOLEAN
        /\ r.virt + r.pages - 1 \in Pages
    BY CallsAssumption
  <2>2. r.pages - 1 \in Nat /\ r.virt + (r.pages - 1) \in Pages
    BY <2>1 DEF Pages
  <2> QED BY <2>1, <2>2 DEF map_page, frameVars
<1>3. /\ FreeList' /\ FreeFrames' = FreeFrames /\ IsTree(mem', Frames) /\ Tables' = Tables
      /\ ItsPage
  BY <1>2, QuietStep
<1>4. FrameTypes' /\ Untouched' /\ OwnersApart'
  BY <1>2, <1>3 DEF PagingInv, FrameTypes, Untouched, OwnersApart
<1>5. WalkTypes' /\ WalkOnWay'
  BY <1>2, FirstOnes DEF WalkTypes, WalkOnWay, OnWay, Levels
<1> QED BY <1>3, <1>4, <1>5 DEF PagingInv

(* unmap_page. *)
LEMMA UnmapStep ==
    ASSUME PagingInv, NEW v \in Pages, unmap_page(v)
    PROVE  PagingInv' /\ ItsPage
<1>1. /\ UNCHANGED <<mem, head, initialized, heap, heapTaken, held>> /\ pc' = "walk"
      /\ walk' = [NoWalk EXCEPT !.op = "unmap", !.virt = v]
  BY DEF unmap_page, frameVars
<1>2. walk' = [op |-> "unmap", virt |-> v, phys |-> 0, left |-> 0, mmio |-> FALSE,
               level |-> 1, table |-> Root]
  BY <1>1 DEF NoWalk
<1>3. /\ FreeList' /\ FreeFrames' = FreeFrames /\ IsTree(mem', Frames) /\ Tables' = Tables
      /\ ItsPage
  BY <1>1, QuietStep
<1>4. FrameTypes' /\ Untouched' /\ OwnersApart'
  BY <1>1, <1>3 DEF PagingInv, FrameTypes, Untouched, OwnersApart
<1>5. WalkTypes'
  <2>1. v + 0 = v /\ 1 \in 1 .. Levels
    BY DEF Pages, Levels
  <2>2. walk' \in [op : {"none", "map", "unmap"}, virt : Pages, phys : Nat, left : Nat,
                   mmio : BOOLEAN, level : 1 .. Levels, table : Frames]
    BY <1>2, <2>1, FirstOnes
  <2>3. walk'.virt + walk'.left \in Pages
    BY <1>2, <2>1
  <2> QED BY <1>1, <2>2, <2>3 DEF WalkTypes
<1>6. WalkOnWay'
  BY <1>2 DEF WalkOnWay, OnWay
<1> QED BY <1>3, <1>4, <1>5, <1>6 DEF PagingInv

(* A walk under way is at a table on the way to its page. *)
LEMMA WalkState ==
    ASSUME PagingInv, pc = "walk"
    PROVE  /\ walk.op \in {"map", "unmap"} /\ walk.virt \in Pages /\ walk.phys \in Nat
           /\ walk.left \in Nat /\ walk.level \in 1 .. 4 /\ walk.virt + walk.left \in Pages
           /\ OnWay(mem, table_indices(walk.virt), walk.level, walk.table)
           /\ walk.table \in Tables /\ walk.table \in Frames
           /\ Index \in Idx /\ Entry = mem[walk.table][table_indices(walk.virt)[walk.level]]
<1>1. /\ walk.op \in {"map", "unmap"} /\ walk.virt \in Pages /\ walk.phys \in Nat
      /\ walk.left \in Nat /\ walk.level \in 1 .. 4 /\ walk.virt + walk.left \in Pages
      /\ OnWay(mem, table_indices(walk.virt), walk.level, walk.table)
      /\ walk.table \in Frames
  BY DEF PagingInv, WalkTypes, WalkOnWay, Levels
<1>2. table_indices(walk.virt) \in Indices
  BY <1>1, PageIndices
<1>3. walk.table \in Tables
  BY <1>1, <1>2, WayTables, TablesNow
<1>4. Index \in Idx
  BY <1>1, <1>2 DEF Index, Indices
<1> QED BY <1>1, <1>3, <1>4 DEF Entry, Index

(* A walk that ends. *)
LEMMA WalkEnds ==
    ASSUME PagingInv, pc' \in {"idle", "panic"}, walk' = NoWalk
    PROVE  WalkTypes' /\ WalkOnWay'
<1>1. 0 + 0 = 0 /\ 1 \in 1 .. Levels
  BY DEF Levels
<1>2. NoWalk \in [op : {"none", "map", "unmap"}, virt : Pages, phys : Nat, left : Nat,
                  mmio : BOOLEAN, level : 1 .. Levels, table : Frames]
  BY <1>1, FirstOnes DEF NoWalk
<1>3. NoWalk.virt + NoWalk.left \in Pages
  BY <1>1, FirstOnes DEF NoWalk
<1> QED BY <1>2, <1>3 DEF WalkTypes, WalkOnWay

(* It ends without a change. *)
LEMMA FailStep ==
    ASSUME PagingInv, UNCHANGED <<mem, head, initialized, heap, heapTaken, held>>,
           pc' \in {"idle", "panic"}, walk' = NoWalk
    PROVE  PagingInv' /\ ItsPage
<1>1. /\ FreeList' /\ FreeFrames' = FreeFrames /\ IsTree(mem', Frames) /\ Tables' = Tables
      /\ ItsPage
  BY QuietStep
<1>2. FrameTypes' /\ Untouched' /\ OwnersApart'
  BY <1>1 DEF PagingInv, FrameTypes, Untouched, OwnersApart
<1>3. WalkTypes' /\ WalkOnWay'
  BY WalkEnds
<1> QED BY <1>1, <1>2, <1>3 DEF PagingInv

(* It ends because no frame is left. *)
LEMMA OutOfFramesStep ==
    ASSUME PagingInv, Head0 = NULL_MARK, mem' = Mem0, head' = Head0, initialized' = TRUE,
           UNCHANGED <<heap, heapTaken, held>>, pc' \in {"idle", "panic"}, walk' = NoWalk
    PROVE  PagingInv' /\ ItsPage
<1>0. mem' = Popped /\ head' = NextHead
  BY DEF Popped, NextHead
<1>1. /\ FreeList' /\ FreeFrames' = FreeFrames \ {Head0}
      /\ IsTree(mem', Frames) /\ Tables' = Tables /\ ItsPage
      /\ mem' \in [Frames -> [Idx -> Word]] /\ head' \in Pool \cup {NULL_MARK}
      /\ FreeFrames \subseteq Pool
  BY <1>0, AllocateStep
<1>2. FreeFrames' = FreeFrames
  <2>1. NULL_MARK \notin FreeFrames
    BY <1>1, PoolFacts DEF Frames
  <2> QED BY <1>1, <2>1
<1>3. FrameTypes' /\ Untouched' /\ OwnersApart'
  BY <1>1, <1>2 DEF PagingInv, FrameTypes, Untouched, OwnersApart
<1>4. WalkTypes' /\ WalkOnWay'
  BY WalkEnds
<1> QED BY <1>1, <1>3, <1>4 DEF PagingInv

(* A walk goes down to a table on its way. *)
LEMMA WalkGoesOn ==
    ASSUME PagingInv, pc = "walk", walk.level < 4, NEW t \in Frames, Descend(t),
           OnWay(mem', table_indices(walk.virt), walk.level + 1, t)
    PROVE  WalkTypes' /\ WalkOnWay'
<1>1. /\ walk' = [walk EXCEPT !.level = walk.level + 1, !.table = t] /\ pc' = "walk"
      /\ walk.level + 1 \in 1 .. 4
  BY WalkState DEF Descend
<1>2. /\ walk'.op = walk.op /\ walk'.virt = walk.virt /\ walk'.left = walk.left
      /\ walk'.level = walk.level + 1 /\ walk'.table = t
  BY <1>1 DEF PagingInv, WalkTypes
<1>3. WalkTypes'
  BY <1>1, <1>2 DEF PagingInv, WalkTypes, Levels
<1>4. WalkOnWay'
  BY <1>2, WalkState DEF WalkOnWay
<1> QED BY <1>3, <1>4

(* A walk finds the next table. *)
LEMMA FoundStep ==
    ASSUME PagingInv, pc = "walk", walk.level < Levels, Entry.present, ~ Entry.huge,
           Descend(Entry.addr), UNCHANGED <<mem, head, initialized, heap, heapTaken, held>>
    PROVE  PagingInv' /\ ItsPage
<1>1. /\ FreeList' /\ FreeFrames' = FreeFrames /\ IsTree(mem', Frames) /\ Tables' = Tables
      /\ ItsPage
  BY QuietStep
<1>2. FrameTypes' /\ Untouched' /\ OwnersApart'
  BY <1>1 DEF PagingInv, FrameTypes, Untouched, OwnersApart
<1>3. PICK l : l = walk.level /\ l \in 1 .. 3
  BY WalkState DEF Levels
<1>4. /\ OnWay(mem, table_indices(walk.virt), l + 1, Entry.addr) /\ Entry.addr \in Frames
  <2>1. PICK e : e = mem[walk.table][table_indices(walk.virt)[l]] /\ e = Entry
    BY <1>3, WalkState
  <2>2. FrameTypes /\ IsTree(mem, Frames)
    BY DEF PagingInv
  <2>3. OnWay(mem, table_indices(walk.virt), l, walk.table) /\ walk.virt \in Pages
    BY <1>3, WalkState
  <2> QED BY <1>3, <2>1, <2>2, <2>3, WayDown
<1>5. WalkTypes' /\ WalkOnWay'
  <2>1. OnWay(mem', table_indices(walk.virt), walk.level + 1, Entry.addr) /\ walk.level < 4
    BY <1>3, <1>4
  <2> QED BY <1>4, <2>1, WalkGoesOn
<1> QED BY <1>1, <1>2, <1>5 DEF PagingInv

(* A walk makes the next table of a fresh frame. *)
LEMMA CreateStep ==
    ASSUME PagingInv, pc = "walk", walk.level < Levels, ~ Entry.present, Head0 # NULL_MARK,
           mem' = [Popped EXCEPT ![walk.table][Index] =
                     [addr |-> Head0, present |-> TRUE, huge |-> FALSE]],
           head' = NextHead, initialized' = TRUE, Descend(Head0),
           UNCHANGED <<heap, heapTaken, held>>
    PROVE  PagingInv' /\ ItsPage
<1>1. /\ FrameTypes /\ Untouched /\ FreeList /\ IsTree(mem, Frames)
      /\ FreeFrames \cap Tables = {}
  BY DEF PagingInv, OwnersApart
<1>2. PICK l : l = walk.level /\ l \in 1 .. 3
  BY WalkState DEF Levels
<1>3. /\ IsTree(mem', Frames) /\ Tables' = Tables \cup {Head0} /\ walk.table \in Tables
      /\ \A f : f # walk.table /\ f # Head0 => mem'[f] = Mem0[f]
      /\ mem' \in [Frames -> [Idx -> Word]]
      /\ OnWay(mem', table_indices(walk.virt), l + 1, Head0)
      /\ \A v \in Pages : translate(v)' = translate(v)
  <2>1. OnWay(mem, table_indices(walk.virt), l, walk.table) /\ walk.virt \in Pages
    BY <1>2, WalkState
  <2>2. ~ mem[walk.table][table_indices(walk.virt)[l]].present
    BY <1>2, WalkState
  <2>3. NewTableAt(walk.table, table_indices(walk.virt)[l])
    BY <1>2 DEF Index, NewTableAt
  <2> QED BY <1>1, <1>2, <2>1, <2>2, <2>3, TableStep
<1>4. /\ FreeFrames \subseteq Pool /\ Head0 \in FreeFrames /\ NULL_MARK \notin Frames
      /\ NextHead \in FreeFrames \cup {NULL_MARK} /\ Pool \subseteq Frames
  BY <1>1, FreeState, PoolFacts DEF Frames
<1>5. FreeList' /\ FreeFrames' = FreeFrames \ {Head0}
  <2>1. \A f \in FreeFrames \ {Head0} : mem'[f] = Mem0[f]
    BY <1>1, <1>3
  <2> QED BY <1>1, <2>1, PopFree
<1>6. FrameTypes'
  BY <1>1, <1>3, <1>4 DEF FrameTypes
<1>7. Untouched' /\ OwnersApart'
  BY <1>3, <1>4, <1>5 DEF PagingInv, Untouched, OwnersApart
<1>8. WalkTypes' /\ WalkOnWay'
  <2>1. OnWay(mem', table_indices(walk.virt), walk.level + 1, Head0) /\ walk.level < 4
    BY <1>2, <1>3
  <2>2. Head0 \in Frames
    BY <1>4
  <2> QED BY <2>1, <2>2, WalkGoesOn
<1> QED BY <1>3, <1>5, <1>6, <1>7, <1>8 DEF PagingInv, ItsPage

(* An entry of the last level is written: no frame changes hands. *)
LEMMA LeafWritten ==
    ASSUME PagingInv, pc = "walk", walk.level = Levels, NEW x, x = walk.virt, NEW e \in Word,
           mem' = [mem EXCEPT ![walk.table][Index] = e],
           UNCHANGED <<head, initialized, heap, heapTaken, held>>
    PROVE  /\ FreeList' /\ IsTree(mem', Frames) /\ FrameTypes' /\ Untouched' /\ OwnersApart'
           /\ \A v \in Pages : v # x => translate(v)' = translate(v)
           /\ translate(x) = IF Entry.present THEN Entry.addr ELSE NULL_MARK
           /\ translate(x)' = IF e.present THEN e.addr ELSE NULL_MARK
<1>1. /\ FrameTypes /\ Untouched /\ FreeList /\ IsTree(mem, Frames)
      /\ FreeFrames \cap Tables = {}
  BY DEF PagingInv, OwnersApart
<1>2. PICK u, j : u = walk.table /\ j = table_indices(walk.virt)[4] /\ j = Index
  BY DEF Index, Levels
<1>3. /\ x \in Pages /\ OnWay(mem, table_indices(x), 4, u) /\ u \in Frames /\ j \in Idx
      /\ Entry = mem[u][table_indices(x)[4]]
  BY <1>2, WalkState DEF Levels
<1>4. mem' = [mem EXCEPT ![u][table_indices(x)[4]] = e]
  BY <1>2
<1>5. /\ IsTree(mem', Frames) /\ Tables' = Tables /\ u \in Tables
      /\ \A t : t # u => mem'[t] = mem[t]
      /\ \A v \in Pages : v # x => translate(v)' = translate(v)
      /\ translate(x) = IF Entry.present THEN Entry.addr ELSE NULL_MARK
      /\ translate(x)' = IF e.present THEN e.addr ELSE NULL_MARK
  <2>1. LeafChanged(x, u, e)
    BY <1>1, <1>3, <1>4, LeafStep
  <2> QED BY <1>3, <2>1, Zenon DEF LeafChanged
<1>6. mem' \in [Frames -> [Idx -> Word]]
  <2>1. mem \in [Frames -> [Idx -> Word]]
    BY <1>1 DEF FrameTypes
  <2>2. mem' = [mem EXCEPT ![u] = [mem[u] EXCEPT ![j] = e]]
    BY <1>2
  <2>3. [mem[u] EXCEPT ![j] = e] \in [Idx -> Word]
    BY <1>3, <2>1
  <2> QED BY <1>3, <2>1, <2>2, <2>3
<1>7. FreeList' /\ FreeFrames' = FreeFrames
  <2>1. DOMAIN mem' = Frames /\ \A f \in FreeFrames : mem'[f] = mem[f]
    BY <1>1, <1>5, <1>6
  <2> QED BY <1>1, <2>1, KeepFree
<1>8. FrameTypes'
  BY <1>1, <1>6 DEF FrameTypes
<1>9. Untouched' /\ OwnersApart'
  BY <1>5, <1>7 DEF PagingInv, Untouched, OwnersApart
<1> QED BY <1>5, <1>7, <1>8, <1>9

(* write_pte: the page is mapped, and the range goes on or ends. *)
LEMMA WriteStep ==
    ASSUME PagingInv, pc = "walk", write_pte, UNCHANGED <<heap, heapTaken, held>>
    PROVE  PagingInv' /\ ItsPage
<1>0. PICK x : x = walk.virt /\ walk.op = "map" /\ walk.level = Levels
               /\ UNCHANGED <<head, initialized>>
  BY DEF write_pte
<1>1. CASE Entry.present
  <2>1. /\ UNCHANGED <<mem, head, initialized, heap, heapTaken, held>>
        /\ pc' \in {"idle", "panic"} /\ walk' = NoWalk
    BY <1>1 DEF write_pte, Fail
  <2> QED BY <2>1, FailStep
<1>2. CASE ~ Entry.present
  <2>1. PICK e : e = [addr |-> walk.phys, present |-> TRUE, huge |-> FALSE]
    OBVIOUS
  <2>2. mem' = [mem EXCEPT ![walk.table][Index] = e]
    BY <1>2, <2>1 DEF write_pte
  <2>3. e \in Word /\ e.present /\ e.addr = walk.phys
    BY <2>1, WalkState DEF Word
  <2>4. /\ FreeList' /\ IsTree(mem', Frames) /\ FrameTypes' /\ Untouched' /\ OwnersApart'
        /\ \A v \in Pages : v # x => translate(v)' = translate(v)
        /\ translate(x) = NULL_MARK /\ translate(x)' = walk.phys
    <3>1. /\ FreeList' /\ IsTree(mem', Frames) /\ FrameTypes' /\ Untouched' /\ OwnersApart'
          /\ \A v \in Pages : v # x => translate(v)' = translate(v)
          /\ translate(x) = IF Entry.present THEN Entry.addr ELSE NULL_MARK
          /\ translate(x)' = IF e.present THEN e.addr ELSE NULL_MARK
      BY <1>0, <2>2, <2>3, LeafWritten
    <3> QED BY <1>2, <2>3, <3>1
  <2>5. ItsPage
    BY <1>0, <2>4 DEF ItsPage
  <2>6. CASE walk.left > 0
    <3>1. walk' = [walk EXCEPT !.virt = @ + 1, !.phys = @ + 1, !.left = @ - 1,
                               !.level = 1, !.table = Root] /\ pc' = pc
      BY <1>2, <2>6 DEF write_pte
    <3>2. /\ walk.virt + 1 \in Pages /\ walk.phys + 1 \in Nat /\ walk.left - 1 \in Nat
          /\ (walk.virt + 1) + (walk.left - 1) \in Pages /\ 1 \in 1 .. Levels
      <4>1. PICK n \in Nat : Pages = 0 .. n
        BY FirstOnes
      <4>2. walk.virt \in 0 .. n /\ walk.virt + walk.left \in 0 .. n /\ walk.phys \in Nat
            /\ walk.left \in Nat
        BY <4>1, WalkState
      <4>3. walk.virt + 1 \in 0 .. n /\ (walk.virt + 1) + (walk.left - 1) \in 0 .. n
        BY <2>6, <4>2
      <4>4. walk.phys + 1 \in Nat /\ walk.left - 1 \in Nat
        BY <2>6, <4>2
      <4> QED BY <4>1, <4>3, <4>4 DEF Levels
    <3>3. /\ walk'.op = walk.op /\ walk'.virt = walk.virt + 1 /\ walk'.left = walk.left - 1
          /\ walk'.level = 1 /\ walk'.table = Root
      BY <3>1 DEF PagingInv, WalkTypes
    <3>4. WalkTypes'
      BY <3>1, <3>2, <3>3, FirstOnes DEF PagingInv, WalkTypes
    <3>5. WalkOnWay'
      BY <1>0, <3>3 DEF WalkOnWay, OnWay
    <3> QED BY <2>4, <2>5, <3>4, <3>5 DEF PagingInv
  <2>7. CASE ~ walk.left > 0
    <3>1. WalkTypes' /\ WalkOnWay'
      BY <1>2, <2>7, WalkEnds DEF write_pte
    <3> QED BY <2>4, <2>5, <3>1 DEF PagingInv
  <2> QED BY <2>6, <2>7
<1> QED BY <1>1, <1>2

(* clear_pte: the page is not mapped any more. *)
LEMMA ClearStep ==
    ASSUME PagingInv, pc = "walk", clear_pte, UNCHANGED <<heap, heapTaken, held>>
    PROVE  PagingInv' /\ ItsPage
<1>0. PICK x : /\ x = walk.virt /\ walk.op = "unmap" /\ walk.level = Levels
               /\ UNCHANGED <<head, initialized>> /\ walk' = NoWalk /\ pc' \in {"idle", "panic"}
  BY DEF clear_pte
<1>1. CASE ~ Entry.present
  <2>1. UNCHANGED <<mem, head, initialized, heap, heapTaken, held>>
    BY <1>0, <1>1 DEF clear_pte
  <2> QED BY <1>0, <2>1, FailStep
<1>2. CASE Entry.present
  <2>1. mem' = [mem EXCEPT ![walk.table][Index] = Zero]
    BY <1>2 DEF clear_pte
  <2>2. Zero \in Word /\ ~ Zero.present
    BY DEF Zero, Word
  <2>3. /\ FreeList' /\ IsTree(mem', Frames) /\ FrameTypes' /\ Untouched' /\ OwnersApart'
        /\ \A v \in Pages : v # x => translate(v)' = translate(v)
        /\ translate(x)' = NULL_MARK
    <3>1. /\ FreeList' /\ IsTree(mem', Frames) /\ FrameTypes' /\ Untouched' /\ OwnersApart'
          /\ \A v \in Pages : v # x => translate(v)' = translate(v)
          /\ translate(x)' = IF Zero.present THEN Zero.addr ELSE NULL_MARK
      BY <1>0, <2>1, <2>2, LeafWritten
    <3> QED BY <2>2, <3>1
  <2>4. ItsPage
    BY <1>0, <2>3 DEF ItsPage
  <2>5. WalkTypes' /\ WalkOnWay'
    BY <1>0, WalkEnds
  <2> QED BY <2>3, <2>4, <2>5 DEF PagingInv
<1> QED BY <1>1, <1>2

(* A step of a walk. *)
LEMMA WalkStep ==
    ASSUME PagingInv, Walk
    PROVE  PagingInv' /\ ItsPage
<1>0. pc = "walk" /\ UNCHANGED <<heap, heapTaken, held>>
  BY DEF Walk
<1>1. CASE next_table_or_create
  <2>0. walk.level < Levels
    BY <1>1 DEF next_table_or_create
  <2>1. CASE Entry.huge
    <3>1. UNCHANGED <<mem, head, initialized>> /\ pc' \in {"idle", "panic"} /\ walk' = NoWalk
      BY <1>1, <2>1 DEF next_table_or_create, Fail
    <3> QED BY <1>0, <3>1, FailStep
  <2>2. CASE ~ Entry.huge /\ ~ Entry.present /\ Head0 = NULL_MARK
    <3>1. /\ mem' = Mem0 /\ head' = Head0 /\ initialized' = TRUE
          /\ pc' \in {"idle", "panic"} /\ walk' = NoWalk
      BY <1>1, <2>2 DEF next_table_or_create, Fail
    <3> QED BY <1>0, <2>2, <3>1, OutOfFramesStep
  <2>3. CASE ~ Entry.huge /\ ~ Entry.present /\ Head0 # NULL_MARK
    <3>1. /\ mem' = [Popped EXCEPT ![walk.table][Index] =
                       [addr |-> Head0, present |-> TRUE, huge |-> FALSE]]
          /\ head' = NextHead /\ initialized' = TRUE /\ Descend(Head0)
      BY <1>1, <2>3 DEF next_table_or_create
    <3> QED BY <1>0, <2>0, <2>3, <3>1, CreateStep
  <2>4. CASE ~ Entry.huge /\ Entry.present
    <3>1. Descend(Entry.addr) /\ UNCHANGED <<mem, head, initialized>>
      BY <1>1, <2>4 DEF next_table_or_create
    <3> QED BY <1>0, <2>0, <2>4, <3>1, FoundStep
  <2> QED BY <2>1, <2>2, <2>3, <2>4
<1>2. CASE write_pte
  BY <1>0, <1>2, WriteStep
<1>3. CASE next_table_existing
  <2>0. walk.level < Levels /\ UNCHANGED <<mem, head, initialized>>
    BY <1>3 DEF next_table_existing
  <2>1. CASE ~ Entry.present \/ Entry.huge
    <3>1. pc' \in {"idle", "panic"} /\ walk' = NoWalk
      BY <1>3, <2>1 DEF next_table_existing, Fail
    <3> QED BY <1>0, <2>0, <3>1, FailStep
  <2>2. CASE Entry.present /\ ~ Entry.huge
    <3>1. Descend(Entry.addr)
      BY <1>3, <2>2 DEF next_table_existing
    <3> QED BY <1>0, <2>0, <2>2, <3>1, FoundStep
  <2> QED BY <2>1, <2>2
<1>4. CASE clear_pte
  BY <1>0, <1>4, ClearStep
<1> QED BY <1>1, <1>2, <1>3, <1>4 DEF Walk

-----------------------------------------------------------------------------
(* The invariant holds at the start and after every step.                   *)

(* At boot the tables are the bootloader's, and the whole pool is free. *)
LEMMA InitInv == Init => PagingInv
<1> SUFFICES ASSUME Init PROVE PagingInv
  OBVIOUS
<1>1. Pool \subseteq Frames /\ BootFrames \subseteq Frames /\ Frames \subseteq Nat
      /\ Pool \cap BootFrames = {} /\ Root \in Frames
  BY PoolFacts, BootAssumption DEF Frames
<1>2. /\ head = NULL_MARK /\ initialized = FALSE /\ heap = NoHeap /\ heapTaken = {}
      /\ pc = "idle" /\ walk = NoWalk /\ held = {}
  BY DEF Init, FrameInit
<1>3. PICK w \in {Zero, [addr |-> Min(Frames), present |-> TRUE, huge |-> FALSE]} :
        mem = [f \in Frames |-> IF f \in BootFrames THEN BootMem[f] ELSE [j \in Idx |-> w]]
  BY DEF Init, FrameInit
<1>4. w \in Word
  <2>1. \A n \in Frames : n \in Int
    BY <1>1
  <2>2. PICK lowest : lowest = Min(Frames) /\ lowest \in Int
    <3>1. Frames \in SUBSET Nat /\ Frames # {}
      BY <1>1
    <3>2. Min(Frames) \in Frames
      BY <3>1, MinOf, Zenon
    <3> QED BY <2>1, <3>2, Zenon
  <2>3. w = Zero \/ w = [addr |-> lowest, present |-> TRUE, huge |-> FALSE]
    BY <1>3, <2>2, Zenon
  <2>4. Zero \in Word /\ [addr |-> lowest, present |-> TRUE, huge |-> FALSE] \in Word
    BY <2>2 DEF Zero, Word
  <2> QED BY <2>3, <2>4, Zenon
<1>5. mem \in [Frames -> [Idx -> Word]]
  <2>1. \A f \in BootFrames : BootMem[f] \in [Idx -> Word]
    BY BootAssumption DEF Word
  <2>2. [j \in Idx |-> w] \in [Idx -> Word]
    BY <1>4
  <2> QED BY <1>3, <2>1, <2>2
<1>6. FrameTypes
  <2>1. NoHeap \in [turn : 0 .. HEAP_FRAMES, lowest : Pool \cup {NULL_MARK}, expected : Int,
                    start : Pool \cup {NULL_MARK}]
    BY FrameAssumption DEF NoHeap, NULL_MARK
  <2> QED BY <1>2, <1>5, <2>1 DEF FrameTypes
<1>7. WalkTypes /\ WalkOnWay
  <2>1. 0 + 0 = 0 /\ 1 \in 1 .. Levels
    BY DEF Levels
  <2>2. NoWalk \in [op : {"none", "map", "unmap"}, virt : Pages, phys : Nat, left : Nat,
                    mmio : BOOLEAN, level : 1 .. Levels, table : Frames]
    BY <2>1, FirstOnes DEF NoWalk
  <2>3. NoWalk.virt + NoWalk.left \in Pages
    BY <2>1, FirstOnes DEF NoWalk
  <2> QED BY <1>2, <2>2, <2>3 DEF WalkTypes, WalkOnWay
<1>8. IsTree(BootMem, BootFrames)
  BY BootAssumption
<1>9. \A l \in 1 .. 4 : TablesOf(BootMem)[l] \subseteq BootFrames
  BY <1>8 DEF IsTree, Levels
<1>10. \A f \in BootFrames : mem[f] = BootMem[f]
  BY <1>1, <1>3
<1>11. TablesOf(mem) = TablesOf(BootMem) /\ IsTree(mem, BootFrames)
  <2>1. \A l \in 1 .. 3 : \A u \in TablesOf(BootMem)[l] : mem[u] = BootMem[u]
    BY <1>9, <1>10
  <2> QED BY <1>8, <2>1, SameTree
<1>12. IsTree(mem, Frames)
  BY <1>1, <1>11 DEF IsTree
<1>13. Tables \subseteq BootFrames
  BY <1>9, <1>11, TablesNow
<1>14. Untouched
  BY <1>2, <1>13 DEF Untouched
<1>15. FreeList /\ FreeFrames = Pool
  <2>1. PICK r : r = [f \in Pool |-> f] /\ IsList(Pool, r, Head0, Mem0)
    BY <1>2, <1>5, PoolList
  <2>2. FreeFrames = Pool
    BY <2>1, FreeNow, FreeFramesAre
  <2> QED BY <2>1, <2>2 DEF FreeList
<1>16. OwnersApart
  BY <1>1, <1>2, <1>13, <1>15 DEF OwnersApart
<1> QED BY <1>6, <1>7, <1>12, <1>14, <1>15, <1>16 DEF PagingInv

(* Every step keeps it, and changes at most its own translation. *)
LEMMA NextInv == PagingInv /\ [Next]_vars => PagingInv' /\ (ItsPage \/ UNCHANGED vars)
<1> SUFFICES ASSUME PagingInv, [Next]_vars
             PROVE  PagingInv' /\ (ItsPage \/ UNCHANGED vars)
  OBVIOUS
<1>1. CASE init
  BY <1>1, InitStep
<1>2. CASE init_heap
  BY <1>2, HeapStep
<1>3. CASE allocate_frame
  BY <1>3, GiveStep
<1>4. CASE Walk
  BY <1>4, WalkStep
<1>5. ASSUME NEW f \in Pool, free_frame(f) PROVE PagingInv' /\ ItsPage
  BY <1>5, FreeStep
<1>6. ASSUME NEW r \in Requests, map_page(r) PROVE PagingInv' /\ ItsPage
  BY <1>6, MapStep
<1>7. ASSUME NEW v \in {r.virt : r \in Requests}, unmap_page(v) PROVE PagingInv' /\ ItsPage
  BY <1>7, Unmaps, UnmapStep, Zenon
<1>8. CASE UNCHANGED vars
  <2>1. UNCHANGED <<mem, head, initialized, heap, heapTaken, pc, walk, held>>
    BY <1>8 DEF vars, frameVars
  <2>2. /\ FreeList' /\ FreeFrames' = FreeFrames /\ IsTree(mem', Frames) /\ Tables' = Tables
    BY <2>1, QuietStep
  <2>3. FrameTypes' /\ WalkTypes' /\ WalkOnWay'
    BY <2>1 DEF PagingInv, FrameTypes, WalkTypes, WalkOnWay
  <2>4. Untouched' /\ OwnersApart'
    BY <2>1, <2>2 DEF PagingInv, Untouched, OwnersApart
  <2> QED BY <1>8, <2>2, <2>3, <2>4 DEF PagingInv
<1> QED BY <1>1, <1>2, <1>3, <1>4, <1>5, <1>6, <1>7, <1>8, Zenon DEF Next

(* The invariant holds throughout. *)
LEMMA PagingAlways == Spec => []PagingInv
<1>1. PagingInv /\ [Next]_vars => PagingInv'
  BY NextInv
<1> QED BY <1>1, InitInv, PTL DEF Spec

-----------------------------------------------------------------------------
(* The theorems.                                                            *)

(* Every variable keeps its type, for memory of any size and any bounds on    *)
(* the calls of map_page, unmap_page, allocate_frame and free_frame.         *)
THEOREM PagingTypes == Spec => []TypeOK
<1>1. PagingInv => TypeOK
  BY DEF PagingInv, FrameTypes, WalkTypes, TypeOK
<1> QED BY <1>1, PagingAlways, PTL

(* A usable frame has one owner. *)
LEMMA OneOwner == PagingInv => FrameOwners
<1> SUFFICES ASSUME PagingInv PROVE FrameOwners
  OBVIOUS
<1>1. FreeFrames \subseteq Pool
  BY FreeState DEF PagingInv
<1>2. ASSUME NEW f \in Pool PROVE Cardinality(Owners(f)) = 1
  <2>1. /\ "free" \in Owners(f) <=> f \in FreeFrames
        /\ "table" \in Owners(f) <=> f \in Tables
        /\ "heap" \in Owners(f) <=> f \in heapTaken
        /\ "caller" \in Owners(f) <=> f \in held
        /\ Owners(f) \subseteq {"free", "table", "heap", "caller"}
    BY DEF Owners
  <2>2. \E o : Owners(f) = {o}
    <3>1. CASE f \in FreeFrames
      <4>1. Owners(f) = {"free"}
        BY <2>1, <3>1 DEF PagingInv, OwnersApart
      <4> QED BY <4>1
    <3>2. CASE f \in Tables
      <4>1. Owners(f) = {"table"}
        BY <2>1, <3>2 DEF PagingInv, OwnersApart
      <4> QED BY <4>1
    <3>3. CASE f \in heapTaken
      <4>1. Owners(f) = {"heap"}
        BY <2>1, <3>3 DEF PagingInv, OwnersApart
      <4> QED BY <4>1
    <3>4. CASE f \in held
      <4>1. Owners(f) = {"caller"}
        BY <2>1, <3>4 DEF PagingInv, OwnersApart
      <4> QED BY <4>1
    <3> QED BY <3>1, <3>2, <3>3, <3>4 DEF PagingInv, OwnersApart
  <2> QED BY <2>2, FS_Singleton
<1> QED BY <1>1, <1>2 DEF FrameOwners

(* Only whole frames of usable memory are in use. *)
LEMMA WholeFrames == PagingInv => OnlyUsable
<1> SUFFICES ASSUME PagingInv, NEW f \in FreeFrames \cup heapTaken \cup held \cup (Tables \ BootFrames)
             PROVE  \E e \in MemoryMap : e.base <= f /\ f + FRAME_SIZE <= e.base + e.length
  BY DEF OnlyUsable
<1>1. f \in Pool
  <2>1. FreeFrames \subseteq Pool
    BY FreeState DEF PagingInv
  <2>2. Tables \ BootFrames \subseteq Pool
    BY TablesAreFrames DEF PagingInv, Frames
  <2> QED BY <2>1, <2>2 DEF PagingInv, FrameTypes
<1>2. PICK e \in MemoryMap : f \in FramesOf(e)
  BY <1>1 DEF Pool
<1> QED BY <1>2, FramesInEntry

(* One entry leads to a table. *)
LEMMA OneParent == PagingInv => TableTree
<1> SUFFICES ASSUME PagingInv, NEW t \in Tables \ {Root}
             PROVE  Cardinality({x \in (1 .. Levels - 1) \X Leads(mem, Tables) :
                       x[2][1] \in TablesAt[x[1]] /\ Target(mem, x[2]) = t}) = 1
  BY DEF TableTree
<1>1. PICK at : at = TablesOf(mem)
  OBVIOUS
<1>2. /\ \A l, k \in 1 .. 4 : l # k => at[l] \cap at[k] = {}
      /\ \A l \in 1 .. 3 : \A x, y \in Leads(mem, at[l]) : Target(mem, x) = Target(mem, y) => x = y
  BY <1>1 DEF PagingInv, IsTree, Levels
<1>3. \A l \in 1 .. 3 : at[l + 1] = Targets(mem, at[l])
  <2>1. /\ at[2] = Targets(mem, at[1]) /\ at[3] = Targets(mem, at[2])
        /\ at[4] = Targets(mem, at[3])
    BY <1>1, TableLevels
  <2>2. \A l \in 1 .. 3 : (l = 1 /\ l + 1 = 2) \/ (l = 2 /\ l + 1 = 3) \/ (l = 3 /\ l + 1 = 4)
    OBVIOUS
  <2> QED BY <2>1, <2>2
<1>4. PICK l \in 1 .. 3 : t \in at[l + 1]
  <2>1. PICK k \in 1 .. 4 : t \in at[k]
    BY <1>1, TablesNow
  <2>2. at[1] = {Root}
    BY <1>1, TableLevels
  <2>3. k # 1
    BY <2>1, <2>2
  <2>4. k - 1 \in 1 .. 3 /\ (k - 1) + 1 = k
    BY <2>3
  <2> QED BY <2>1, <2>4
<1>5. PICK y \in Leads(mem, at[l]) : Target(mem, y) = t
  BY <1>3, <1>4 DEF Targets
<1>6. \A k \in 1 .. 3 : at[k] \subseteq Tables
  BY <1>1, TablesNow
<1>7. PICK S : S = {x \in (1 .. 3) \X Leads(mem, Tables) : x[2][1] \in at[x[1]] /\ Target(mem, x[2]) = t}
  OBVIOUS
<1>8. <<l, y>> \in S
  <2>1. y \in Leads(mem, Tables) /\ y[1] \in at[l]
    BY <1>6 DEF Leads
  <2> QED BY <1>5, <1>7, <2>1
<1>9. ASSUME NEW x \in S PROVE x = <<l, y>>
  <2>1. PICK k \in 1 .. 3, z \in Leads(mem, Tables) : x = <<k, z>>
    BY <1>7
  <2>2. z[1] \in at[k] /\ Target(mem, z) = t
    BY <1>7, <2>1
  <2>3. z \in Leads(mem, at[k])
    BY <2>1, <2>2 DEF Leads
  <2>4. t \in at[k + 1]
    BY <1>3, <2>2, <2>3 DEF Targets
  <2>5. k = l
    <3>1. k + 1 \in 1 .. 4 /\ l + 1 \in 1 .. 4
      OBVIOUS
    <3>2. k + 1 = l + 1
      BY <1>2, <1>4, <2>4, <3>1
    <3> QED BY <3>2
  <2>6. z = y
    BY <1>2, <1>5, <2>2, <2>3, <2>5
  <2> QED BY <2>1, <2>5, <2>6
<1>10. S = {<<l, y>>}
  BY <1>8, <1>9
<1>11. Cardinality(S) = 1
  BY <1>10, FS_Singleton
<1> QED BY <1>1, <1>7, <1>11 DEF TablesAt, Levels

(* A frame of usable memory is free, a page table, part of the heap or with a *)
(* caller, and only one of them; only whole frames of usable memory are used. *)
(* The free list lives in the frames themselves, and survives every call.    *)
THEOREM PagingOwners == Spec => [](FrameOwners /\ OnlyUsable)
BY PagingAlways, OneOwner, WholeFrames, PTL

(* No two entries lead to one table: the walks that create tables keep the    *)
(* tree that the bootloader left.                                            *)
THEOREM PagingTree == Spec => []TableTree
BY PagingAlways, OneParent, PTL

(* map_page and unmap_page change the translation of their own page, and no   *)
(* step changes any other: not a table that is created, not a frame that is   *)
(* freed and linked.                                                         *)
THEOREM PagingPages == Spec => OnlyItsPage
<1>1. PagingInv /\ [Next]_vars => PagingInv' /\ [ItsPage]_vars
  BY NextInv
<1>2. Spec => [][ItsPage]_vars
  BY <1>1, PagingAlways, PTL DEF Spec
<1> QED BY <1>2 DEF OnlyItsPage, ItsPage

-----------------------------------------------------------------------------
(* The heap, when memory is roomy.                                          *)

(* The highest frames of memory, from top down, lie next to each other: as    *)
(* many as the calls before memory::init can take, early for each of them,   *)
(* and the heap after them.  A page needs three new tables at the most.      *)
Roomy(top, early) ==
    /\ top \in Pool /\ \A f \in Pool : f <= top
    /\ early \in Nat \ {0} /\ \A r \in Requests : 3 * r.pages <= early
    /\ \A k \in 0 .. MaxEarly * early + HEAP_FRAMES - 1 : top - k * FRAME_SIZE \in Pool

(* No frame is given back before the heap is there: nothing in the kernel     *)
(* calls free_frame, and the calls before memory::init only map pages.       *)
NoEarlyFree == ~ HeapReady => \A f \in Pool : ~ free_frame(f)

(* The frames up to an address, and their order on the list that init builds. *)
UpTo(a) == {f \in Pool : f <= a}
Falling == [f \in Pool |-> f]

(* The tables that the range under way may still need. *)
Pending == IF pc = "walk" /\ walk.op = "map" THEN 3 * walk.left + (4 - walk.level) ELSE 0

(* Of u frames that are gone the first e went to the calls before            *)
(* memory::init, the others to the heap: those are next to each other.       *)
HeapGrows(top, u, e) ==
    /\ u = e + heap.turn /\ heap.start = NULL_MARK
    /\ heapTaken = {top - k * FRAME_SIZE : k \in e .. u - 1}
    /\ heap.lowest = (IF heap.turn = 0 THEN NULL_MARK ELSE top - (u - 1) * FRAME_SIZE)
    /\ heap.expected = (IF heap.turn = 0 THEN NULL_MARK ELSE top - u * FRAME_SIZE)

(* The u highest frames are gone, and the others are free, highest first. *)
Early(top, early, u) ==
    /\ IsList(UpTo(top - u * FRAME_SIZE), Falling, Head0, Mem0)
    /\ calls \in 0 .. MaxEarly /\ pc # "stop"
    /\ pc # "heap" => heap = NoHeap /\ heapTaken = {} /\ u + Pending <= early * calls
    /\ pc = "heap" => \E e \in 0 .. MaxEarly * early : HeapGrows(top, u, e)

HeapInv(top, early) ==
    \/ HeapReady /\ pc # "heap" /\ HeapOwned
    \/ ~ HeapReady /\ \E u \in Nat : Early(top, early, u)

(* Frames are at multiples of their size: two of them are a frame apart or more. *)
LEMMA FramesApart ==
    ASSUME NEW f \in Pool, NEW g \in Pool, f < g
    PROVE  f <= g - FRAME_SIZE
<1>1. FRAME_SIZE \in Nat /\ FRAME_SIZE > 0 /\ f \in Nat /\ g \in Nat
  BY FrameAssumption, PoolFacts
<1>2. ASSUME NEW h \in Pool PROVE \E n \in Nat : h = n * FRAME_SIZE
  <2>1. PICK e \in MemoryMap : h \in FramesOf(e)
    BY DEF Pool
  <2>2. e.base \in Nat /\ e.length \in Nat
    BY MapAssumption
  <2>3. PICK k \in 0 .. e.length : h = align_up(e.base, FRAME_SIZE) + k * FRAME_SIZE
    BY <2>1 DEF FramesOf
  <2>4. PICK q \in Nat : align_up(e.base, FRAME_SIZE) = q * FRAME_SIZE
    BY <2>2, AlignedUp
  <2>5. k \in Nat
    BY <2>2
  <2>6. q * FRAME_SIZE + k * FRAME_SIZE = (q + k) * FRAME_SIZE
    BY <1>1, <2>5, Z3
  <2>7. q + k \in Nat
    BY <2>5
  <2> QED BY <2>3, <2>4, <2>6, <2>7
<1>3. PICK m \in Nat : f = m * FRAME_SIZE
  BY <1>2
<1>4. PICK n \in Nat : g = n * FRAME_SIZE
  BY <1>2
<1>5. m + 1 <= n
  <2>1. ~ (n <= m)
    <3> SUFFICES ASSUME n <= m PROVE FALSE
      OBVIOUS
    <3>1. n * FRAME_SIZE <= m * FRAME_SIZE
      BY <1>1, Z3
    <3> QED BY <1>1, <1>3, <1>4, <3>1
  <2> QED BY <2>1
<1>6. (m + 1) * FRAME_SIZE <= n * FRAME_SIZE
  BY <1>1, <1>5, Z3
<1>7. (m + 1) * FRAME_SIZE = m * FRAME_SIZE + FRAME_SIZE
  BY <1>1, Z3
<1>8. f + FRAME_SIZE <= g
  BY <1>3, <1>4, <1>6, <1>7
<1> QED BY <1>1, <1>8

(* The next frame down. *)
LEMMA OneDown ==
    ASSUME NEW top \in Int, NEW u \in Int
    PROVE  /\ top - u * FRAME_SIZE \in Int
           /\ top - (u + 1) * FRAME_SIZE = (top - u * FRAME_SIZE) - FRAME_SIZE
<1>1. FRAME_SIZE \in Int
  BY FrameAssumption
<1>2. PICK p \in Int : p = u * FRAME_SIZE
  BY <1>1, Z3
<1>3. (u + 1) * FRAME_SIZE = p + FRAME_SIZE
  BY <1>1, <1>2, Z3
<1> QED BY <1>1, <1>2, <1>3

(* Steps that leave the free frames alone leave them in order. *)
LEMMA ListStays ==
    ASSUME NEW F, IsList(F, Falling, Head0, Mem0), UNCHANGED <<head, initialized>>,
           F \subseteq Frames, \A f \in F : mem'[f] = mem[f]
    PROVE  IsList(F, Falling, Head0', Mem0')
<1>1. Head0' = Head0
  BY DEF Head0
<1>2. \A f \in F : Mem0'[f] = Mem0[f]
  BY DEF Mem0, InitMem
<1> QED BY <1>1, <1>2, SameList

(* allocate takes the highest free frame, and leaves the others in order. *)
LEMMA ListPops ==
    ASSUME NEW a \in Pool, IsList(UpTo(a), Falling, Head0, Mem0),
           head' = NextHead, initialized' = TRUE,
           \A f \in UpTo(a) \ {Head0} : mem'[f] = Mem0[f]
    PROVE  /\ Head0 = a /\ Head0 # NULL_MARK
           /\ IsList(UpTo(a - FRAME_SIZE), Falling, Head0', Mem0')
<1>1. Pool \subseteq Nat /\ NULL_MARK \notin Pool /\ FRAME_SIZE \in Nat /\ FRAME_SIZE > 0
  BY PoolFacts, FrameAssumption DEF Frames
<1>2. a \in UpTo(a) /\ UpTo(a) \subseteq Pool /\ \A f \in Pool : Falling[f] = f
  BY <1>1 DEF UpTo, Falling
<1>3. Head0 \in UpTo(a) /\ Falling[a] <= Falling[Head0]
  BY <1>2 DEF IsList
<1>4. Head0 = a
  <2>1. Head0 \in Pool /\ Head0 <= a
    BY <1>3 DEF UpTo
  <2>2. a <= Head0
    BY <1>2, <1>3, <2>1
  <2> QED BY <1>1, <2>1, <2>2
<1>5. Head0 # NULL_MARK
  BY <1>1, <1>4
<1>6. Head0' = NextHead /\ Mem0' = mem'
  BY DEF Head0, Mem0
<1>7. NextHead = Mem0[Head0][0].addr
  BY <1>5 DEF NextHead
<1>8. IsList(UpTo(a) \ {Head0}, Falling, Mem0[Head0][0].addr, mem')
  BY <1>5, PopList
<1>9. UpTo(a) \ {Head0} = UpTo(a - FRAME_SIZE)
  <2>1. ASSUME NEW f \in UpTo(a) \ {Head0} PROVE f \in UpTo(a - FRAME_SIZE)
    <3>1. f \in Pool /\ f <= a /\ f # a /\ f \in Nat /\ a \in Nat
      BY <1>1, <1>4, <2>1 DEF UpTo
    <3>2. f < a
      BY <3>1
    <3> QED BY <3>1, <3>2, FramesApart DEF UpTo
  <2>2. ASSUME NEW f \in UpTo(a - FRAME_SIZE) PROVE f \in UpTo(a) \ {Head0}
    <3>1. f \in Pool /\ f <= a - FRAME_SIZE /\ f \in Nat /\ a \in Nat
      BY <1>1, <2>2 DEF UpTo
    <3>2. f <= a /\ f # a
      BY <1>1, <3>1
    <3> QED BY <1>4, <3>1, <3>2 DEF UpTo
  <2> QED BY <2>1, <2>2
<1> QED BY <1>4, <1>5, <1>6, <1>7, <1>8, <1>9

(* As long as the calls before memory::init and the heap want frames, the     *)
(* next one down from top is there.                                          *)
LEMMA RoomLeft ==
    ASSUME NEW top, NEW early, Roomy(top, early), NEW u \in Nat,
           u < MaxEarly * early + HEAP_FRAMES
    PROVE  top - u * FRAME_SIZE \in Pool /\ top \in Nat
<1>1. MaxEarly * early \in Nat
  <2>1. early \in Nat /\ MaxEarly \in Nat
    BY CallsAssumption DEF Roomy
  <2> QED BY <2>1, Z3
<1>2. u \in 0 .. MaxEarly * early + HEAP_FRAMES - 1
  BY <1>1, FrameAssumption
<1> QED BY <1>2, PoolFacts DEF Roomy

(* The frames that calls have taken: each at most early of them. *)
LEMMA CallsTake ==
    ASSUME NEW early \in Nat, NEW n \in 0 .. MaxEarly
    PROVE  /\ early * n \in Nat /\ MaxEarly * early \in Nat /\ early * n <= MaxEarly * early
           /\ early * (n + 1) = early * n + early
<1>1. n \in Nat /\ MaxEarly \in Nat /\ n <= MaxEarly
  BY CallsAssumption
<1>2. PICK M \in Nat : M = MaxEarly
  BY <1>1
<1>3. n <= M
  BY <1>1, <1>2
<1>4. early * n \in Nat /\ M * early \in Nat
  BY <1>1, Z3
<1>5. early * n <= M * early
  BY <1>1, <1>3, Z3
<1>6. early * (n + 1) = early * n + early
  BY <1>1, Z3
<1> QED BY <1>2, <1>4, <1>5, <1>6

(* The tables that may still be needed are none or more. *)
LEMMA PendingNat ==
    ASSUME PagingInv
    PROVE  Pending \in Nat /\ (pc # "walk" => Pending = 0)
<1>1. walk.left \in Nat /\ walk.level \in 1 .. 4
  BY DEF PagingInv, WalkTypes, Levels
<1>2. 3 * walk.left \in Nat /\ 4 - walk.level \in Nat
  BY <1>1
<1>3. 3 * walk.left + (4 - walk.level) \in Nat
  BY <1>2
<1> QED BY <1>3 DEF Pending

(* What is known before memory::init has run, of the calls made before it. *)
BeforeInit(top, early, u) ==
    /\ PagingInv /\ Roomy(top, early) /\ ~ HeapReady /\ u \in Nat
    /\ Early(top, early, u) /\ pc # "heap"

(* Then there is a frame for what a call still needs. *)
LEMMA FrameThere ==
    ASSUME NEW top, NEW early, NEW u, BeforeInit(top, early, u)
    PROVE  /\ u \in Nat /\ u + Pending <= early * calls /\ early * calls \in Nat
           /\ Pending \in Nat /\ early \in Nat \ {0} /\ calls \in 0 .. MaxEarly
           /\ u <= MaxEarly * early /\ MaxEarly * early \in Nat
           /\ top \in Nat /\ top - u * FRAME_SIZE \in Pool
           /\ IsList(UpTo(top - u * FRAME_SIZE), Falling, Head0, Mem0)
<1>1. /\ u \in Nat /\ u + Pending <= early * calls /\ Pending \in Nat
      /\ early \in Nat \ {0} /\ calls \in 0 .. MaxEarly
      /\ IsList(UpTo(top - u * FRAME_SIZE), Falling, Head0, Mem0)
  BY PendingNat DEF BeforeInit, Early, Roomy
<1>2. early * calls \in Nat /\ MaxEarly * early \in Nat /\ early * calls <= MaxEarly * early
  BY <1>1, CallsTake
<1>3. u <= MaxEarly * early
  BY <1>1, <1>2
<1>4. u < MaxEarly * early + HEAP_FRAMES
  BY <1>1, <1>2, <1>3, FrameAssumption
<1>5. top - u * FRAME_SIZE \in Pool /\ top \in Nat
  BY <1>1, <1>4, RoomLeft DEF BeforeInit
<1> QED BY <1>1, <1>2, <1>3, <1>5

(* A step that takes no frame. *)
LEMMA TakesNone ==
    ASSUME NEW top, NEW early, NEW u, BeforeInit(top, early, u),
           UNCHANGED <<head, initialized, heap, heapTaken>>, \A f \in FreeFrames : mem'[f] = mem[f],
           pc' \in {"idle", "walk", "panic"}, calls' \in 0 .. MaxEarly,
           u + Pending' <= early * calls'
    PROVE  HeapInv(top, early)'
<1>1. IsList(UpTo(top - u * FRAME_SIZE), Falling, Head0, Mem0) /\ u \in Nat
  BY FrameThere
<1>2. UpTo(top - u * FRAME_SIZE) = FreeFrames /\ FreeFrames \subseteq Frames
  <2>1. UpTo(top - u * FRAME_SIZE) = FreeFrames
    BY <1>1, FreeNow, FreeFramesAre
  <2> QED BY <2>1 DEF UpTo, Frames
<1>3. IsList(UpTo(top - u * FRAME_SIZE), Falling, Head0', Mem0')
  BY <1>1, <1>2, ListStays
<1>4. heap' = NoHeap /\ heapTaken' = {} /\ ~ HeapReady'
  BY DEF BeforeInit, Early, HeapReady
<1>5. Early(top, early, u)'
  BY <1>3, <1>4 DEF Early
<1> QED BY <1>1, <1>4, <1>5 DEF HeapInv

(* A step that takes one, the next one down. *)
LEMMA TakesOne ==
    ASSUME NEW top, NEW early, NEW u, BeforeInit(top, early, u),
           UNCHANGED <<heap, heapTaken>>, head' = NextHead, initialized' = TRUE,
           \A f \in FreeFrames \ {Head0} : mem'[f] = Mem0[f],
           pc' \in {"idle", "walk", "panic"}, calls' \in 0 .. MaxEarly,
           u + 1 + Pending' <= early * calls'
    PROVE  HeapInv(top, early)'
<1>1. /\ IsList(UpTo(top - u * FRAME_SIZE), Falling, Head0, Mem0) /\ u \in Nat
      /\ top \in Nat /\ top - u * FRAME_SIZE \in Pool
  BY FrameThere
<1>2. UpTo(top - u * FRAME_SIZE) = FreeFrames
  BY <1>1, FreeNow, FreeFramesAre
<1>3. IsList(UpTo((top - u * FRAME_SIZE) - FRAME_SIZE), Falling, Head0', Mem0')
  BY <1>1, <1>2, ListPops
<1>4. IsList(UpTo(top - (u + 1) * FRAME_SIZE), Falling, Head0', Mem0')
  BY <1>1, <1>3, OneDown
<1>5. heap' = NoHeap /\ heapTaken' = {} /\ ~ HeapReady'
  BY DEF BeforeInit, Early, HeapReady
<1>6. Early(top, early, u + 1)'
  BY <1>4, <1>5 DEF Early
<1>7. u + 1 \in Nat
  BY <1>1
<1> QED BY <1>5, <1>6, <1>7 DEF HeapInv

(* A call takes early frames at the most. *)
LEMMA OneCall ==
    ASSUME NEW top, NEW early, NEW u, BeforeInit(top, early, u), Call, pc = "idle"
    PROVE  /\ calls' \in 0 .. MaxEarly /\ Pending = 0 /\ early \in Nat \ {0} /\ u \in Nat
           /\ u + early <= early * calls'
           /\ \A n \in Nat : n <= early => u + n <= early * calls'
<1>1. /\ u \in Nat /\ u + Pending <= early * calls /\ early * calls \in Nat
      /\ early \in Nat \ {0} /\ calls \in 0 .. MaxEarly /\ MaxEarly \in Nat
  BY FrameThere, CallsAssumption
<1>2. Pending = 0 /\ calls' = calls + 1 /\ calls < MaxEarly
  BY PendingNat DEF BeforeInit, Call
<1>3. calls' \in 0 .. MaxEarly
  BY <1>1, <1>2
<1>4. early * (calls + 1) = early * calls + early
  BY <1>1, CallsTake
<1>5. PICK p \in Nat : p = early * calls /\ early * calls' = p + early
  BY <1>1, <1>2, <1>4
<1>6. u <= p
  BY <1>1, <1>2, <1>5
<1>7. u + early <= p + early /\ \A n \in Nat : n <= early => u + n <= p + early
  BY <1>1, <1>6
<1> QED BY <1>1, <1>2, <1>3, <1>5, <1>7

(* allocate_frame before memory::init takes one. *)
LEMMA EarlyAllocate ==
    ASSUME NEW top, NEW early, NEW u, BeforeInit(top, early, u), allocate_frame
    PROVE  HeapInv(top, early)'
<1>1. /\ UNCHANGED <<heap, heapTaken>> /\ head' = NextHead /\ initialized' = TRUE
      /\ mem' = Popped /\ pc = "idle" /\ pc' = "idle" /\ Call
  BY DEF allocate_frame, Call
<1>2. /\ calls' \in 0 .. MaxEarly /\ early \in Nat \ {0} /\ u \in Nat
      /\ \A n \in Nat : n <= early => u + n <= early * calls'
  BY <1>1, OneCall
<1>3. \A f \in FreeFrames \ {Head0} : mem'[f] = Mem0[f]
  BY <1>1 DEF Popped
<1>4. PICK p : p = Pending' /\ p = 0
  BY <1>1 DEF Pending
<1>5. u + 1 <= early * calls'
  <2>1. 1 \in Nat /\ 1 <= early
    BY <1>2
  <2> QED BY <1>2, <2>1
<1>6. u + 1 + p = u + 1
  BY <1>2, <1>4
<1>7. u + 1 + Pending' <= early * calls'
  BY <1>4, <1>5, <1>6
<1> QED BY <1>1, <1>2, <1>3, <1>7, TakesOne

(* A range that map_page begins needs three tables for each page at the most. *)
LEMMA EarlyMap ==
    ASSUME NEW top, NEW early, NEW u, BeforeInit(top, early, u),
           NEW r \in Requests, map_page(r)
    PROVE  HeapInv(top, early)'
<1>1. /\ UNCHANGED <<mem, head, initialized, heap, heapTaken>> /\ pc' = "walk" /\ pc = "idle"
      /\ Call /\ walk'.op = "map" /\ walk'.left = r.pages - 1 /\ walk'.level = 1
  BY DEF map_page, frameVars, Call
<1>2. /\ calls' \in 0 .. MaxEarly /\ early \in Nat \ {0} /\ u \in Nat
      /\ \A n \in Nat : n <= early => u + n <= early * calls'
  BY <1>1, OneCall
<1>3. r.pages \in Nat \ {0} /\ 3 * r.pages <= early
  BY CallsAssumption DEF BeforeInit, Roomy
<1>4. Pending' = 3 * (r.pages - 1) + (4 - 1)
  BY <1>1 DEF Pending
<1>5. Pending' \in Nat /\ Pending' <= early
  BY <1>2, <1>3, <1>4
<1>6. u + Pending' <= early * calls'
  BY <1>2, <1>5
<1> QED BY <1>1, <1>2, <1>6, TakesNone

(* unmap_page needs none. *)
LEMMA EarlyUnmap ==
    ASSUME NEW top, NEW early, NEW u, BeforeInit(top, early, u), NEW v, unmap_page(v)
    PROVE  HeapInv(top, early)'
<1>1. /\ UNCHANGED <<mem, head, initialized, heap, heapTaken>> /\ pc' = "walk" /\ pc = "idle"
      /\ Call /\ walk' = [NoWalk EXCEPT !.op = "unmap", !.virt = v]
  BY DEF unmap_page, frameVars, Call
<1>2. walk'.op = "unmap"
  BY <1>1 DEF NoWalk
<1>3. /\ calls' \in 0 .. MaxEarly /\ early \in Nat \ {0} /\ u \in Nat
      /\ \A n \in Nat : n <= early => u + n <= early * calls'
  BY <1>1, OneCall
<1>4. Pending' = 0
  BY <1>2 DEF Pending
<1>5. Pending' \in Nat /\ Pending' <= early
  BY <1>3, <1>4
<1>6. u + Pending' <= early * calls'
  BY <1>3, <1>5
<1> QED BY <1>1, <1>3, <1>6, TakesNone

(* A walk that takes no frame and comes closer to its end. *)
LEMMA WalkTakesNone ==
    ASSUME NEW top, NEW early, NEW u, BeforeInit(top, early, u), pc = "walk",
           UNCHANGED <<head, initialized, heap, heapTaken, calls>>,
           \A f \in FreeFrames : mem'[f] = mem[f],
           pc' \in {"idle", "walk", "panic"}, Pending' \in Nat, Pending' <= Pending
    PROVE  HeapInv(top, early)'
<1>1. /\ u \in Nat /\ u + Pending <= early * calls /\ early * calls \in Nat
      /\ Pending \in Nat /\ calls \in 0 .. MaxEarly
  BY FrameThere
<1>2. PICK p \in Nat : p = early * calls
  BY <1>1
<1>3. u + Pending' <= p
  BY <1>1, <1>2
<1>4. u + Pending' <= early * calls' /\ calls' \in 0 .. MaxEarly
  BY <1>1, <1>2, <1>3
<1> QED BY <1>4, TakesNone

(* A walk that ends needs no table any more. *)
LEMMA EndedWalk ==
    ASSUME NEW top, NEW early, NEW u, BeforeInit(top, early, u), pc = "walk",
           UNCHANGED <<head, initialized, heap, heapTaken, calls>>,
           \A f \in FreeFrames : mem'[f] = mem[f], pc' \in {"idle", "panic"}
    PROVE  HeapInv(top, early)'
<1>1. Pending' = 0 /\ Pending \in Nat
  BY PendingNat DEF BeforeInit, Pending
<1>2. Pending' \in Nat /\ Pending' <= Pending
  BY <1>1
<1> QED BY <1>2, WalkTakesNone

(* A walk that goes down needs one table less. *)
LEMMA DownOne ==
    ASSUME PagingInv, pc = "walk", walk.level < Levels, NEW t, Descend(t)
    PROVE  /\ pc' = "walk" /\ Pending' \in Nat /\ Pending' <= Pending /\ Pending \in Nat
           /\ walk.op = "map" => Pending' + 1 = Pending
<1>1. /\ walk' = [walk EXCEPT !.level = walk.level + 1, !.table = t] /\ pc' = "walk"
      /\ walk.level \in 1 .. 3 /\ walk.left \in Nat
  BY WalkState DEF Descend, Levels
<1>2. walk'.op = walk.op /\ walk'.left = walk.left /\ walk'.level = walk.level + 1
  BY <1>1 DEF PagingInv, WalkTypes
<1>3. CASE walk.op = "map"
  <2>1. Pending = 3 * walk.left + (4 - walk.level)
    BY <1>3 DEF Pending
  <2>2. Pending' = 3 * walk.left + (4 - (walk.level + 1))
    BY <1>1, <1>2, <1>3 DEF Pending
  <2>3. PICK n \in Nat : n = 3 * walk.left
    BY <1>1
  <2>4. Pending = n + (4 - walk.level) /\ Pending' = n + (4 - (walk.level + 1))
    BY <2>1, <2>2, <2>3
  <2> QED BY <1>1, <2>4
<1>4. CASE walk.op # "map"
  <2>1. Pending = 0 /\ Pending' = 0
    BY <1>2, <1>4 DEF Pending
  <2> QED BY <1>1, <1>4, <2>1
<1> QED BY <1>3, <1>4

(* A walk before memory::init takes what it counted on, from the top down. *)
LEMMA EarlyWalk ==
    ASSUME NEW top, NEW early, NEW u, BeforeInit(top, early, u), Walk
    PROVE  HeapInv(top, early)'
<1>0. pc = "walk" /\ UNCHANGED <<heap, heapTaken, calls>> /\ PagingInv
  BY DEF Walk, BeforeInit
<1>1. Head0 # NULL_MARK
  <2>1. top - u * FRAME_SIZE \in UpTo(top - u * FRAME_SIZE)
    <3>1. PICK a : a = top - u * FRAME_SIZE /\ a \in Pool /\ a \in Nat
      BY FrameThere, PoolFacts
    <3> QED BY <3>1 DEF UpTo
  <2>2. IsList(UpTo(top - u * FRAME_SIZE), Falling, Head0, Mem0)
    BY FrameThere
  <2>3. Head0 \in Pool
    BY <2>1, <2>2 DEF IsList
  <2> QED BY <2>3, PoolFacts DEF Frames
<1>2. CASE next_table_or_create
  <2>0. walk.level < Levels /\ walk.op = "map"
    BY <1>2 DEF next_table_or_create
  <2>1. CASE Entry.huge
    <3>1. UNCHANGED <<mem, head, initialized>> /\ pc' \in {"idle", "panic"}
      BY <1>2, <2>1 DEF next_table_or_create, Fail
    <3> QED BY <1>0, <3>1, EndedWalk
  <2>2. CASE ~ Entry.huge /\ ~ Entry.present
    <3>1. /\ mem' = [Popped EXCEPT ![walk.table][Index] =
                       [addr |-> Head0, present |-> TRUE, huge |-> FALSE]]
          /\ head' = NextHead /\ initialized' = TRUE /\ Descend(Head0)
      BY <1>1, <1>2, <2>2 DEF next_table_or_create
    <3>2. /\ pc' = "walk" /\ Pending' \in Nat /\ Pending \in Nat /\ Pending' + 1 = Pending
      BY <1>0, <2>0, <3>1, DownOne
    <3>3. \A f \in FreeFrames \ {Head0} : mem'[f] = Mem0[f]
      <4>1. walk.table \in Tables /\ FreeFrames \cap Tables = {}
        BY <1>0, WalkState DEF PagingInv, OwnersApart
      <4>2. \A f : f # walk.table => mem'[f] = Popped[f]
        BY <3>1
      <4>3. \A f : f # Head0 => Popped[f] = Mem0[f]
        BY DEF Popped
      <4> QED BY <4>1, <4>2, <4>3
    <3>4. /\ u \in Nat /\ u + Pending <= early * calls /\ early * calls \in Nat
          /\ calls \in 0 .. MaxEarly
      BY FrameThere
    <3>5. u + 1 + Pending' <= early * calls
      <4>1. PICK p, n \in Nat : p = early * calls /\ n = Pending' /\ Pending = n + 1
        BY <3>2, <3>4
      <4>2. u + (n + 1) <= p
        BY <3>4, <4>1
      <4>3. u + 1 + n <= p
        BY <3>4, <4>1, <4>2
      <4> QED BY <4>1, <4>3
    <3>6. u + 1 + Pending' <= early * calls' /\ calls' \in 0 .. MaxEarly
      BY <1>0, <3>4, <3>5
    <3> QED BY <1>0, <3>1, <3>2, <3>3, <3>6, TakesOne
  <2>3. CASE ~ Entry.huge /\ Entry.present
    <3>1. Descend(Entry.addr) /\ UNCHANGED <<mem, head, initialized>>
      BY <1>2, <2>3 DEF next_table_or_create
    <3>2. pc' = "walk" /\ Pending' \in Nat /\ Pending' <= Pending
      BY <1>0, <2>0, <3>1, DownOne
    <3> QED BY <1>0, <3>1, <3>2, WalkTakesNone
  <2> QED BY <2>1, <2>2, <2>3
<1>3. CASE next_table_existing
  <2>0. walk.level < Levels /\ UNCHANGED <<mem, head, initialized>>
    BY <1>3 DEF next_table_existing
  <2>1. CASE ~ Entry.present \/ Entry.huge
    <3>1. pc' \in {"idle", "panic"}
      BY <1>3, <2>1 DEF next_table_existing, Fail
    <3> QED BY <1>0, <2>0, <3>1, EndedWalk
  <2>2. CASE Entry.present /\ ~ Entry.huge
    <3>1. Descend(Entry.addr)
      BY <1>3, <2>2 DEF next_table_existing
    <3>2. pc' = "walk" /\ Pending' \in Nat /\ Pending' <= Pending
      BY <1>0, <2>0, <3>1, DownOne
    <3> QED BY <1>0, <2>0, <3>2, WalkTakesNone
  <2> QED BY <2>1, <2>2
<1>4. ASSUME NEW e, mem' = mem \/ mem' = [mem EXCEPT ![walk.table][Index] = e]
      PROVE  \A f \in FreeFrames : mem'[f] = mem[f]
  <2>1. walk.table \in Tables /\ FreeFrames \cap Tables = {}
    BY <1>0, WalkState DEF PagingInv, OwnersApart
  <2>2. PICK t, w : t = walk.table /\ w = [mem[t] EXCEPT ![Index] = e]
    OBVIOUS
  <2>3. PICK m : m = mem' /\ (m = mem \/ m = [mem EXCEPT ![t] = w])
    BY <1>4, <2>2
  <2>4. ASSUME NEW f, f # t PROVE m[f] = mem[f]
    <3>1. CASE m = mem
      BY <3>1
    <3>2. CASE m = [mem EXCEPT ![t] = w]
      BY <2>4, <3>2
    <3> QED BY <2>3, <3>1, <3>2
  <2> QED BY <2>1, <2>2, <2>3, <2>4
<1>5. CASE write_pte
  <2>0. UNCHANGED <<head, initialized>> /\ walk.op = "map" /\ walk.level = 4
    BY <1>5 DEF write_pte, Levels
  <2>1. PICK e : e = [addr |-> walk.phys, present |-> TRUE, huge |-> FALSE]
    OBVIOUS
  <2>2. mem' = mem \/ mem' = [mem EXCEPT ![walk.table][Index] = e]
    BY <1>5, <2>1 DEF write_pte
  <2>3. \A f \in FreeFrames : mem'[f] = mem[f]
    BY <1>4, <2>2
  <2>4. CASE Entry.present
    <3>1. pc' \in {"idle", "panic"}
      BY <1>5, <2>4 DEF write_pte, Fail
    <3> QED BY <1>0, <2>0, <2>3, <3>1, EndedWalk
  <2>5. CASE ~ Entry.present /\ walk.left > 0
    <3>1. walk' = [walk EXCEPT !.virt = @ + 1, !.phys = @ + 1, !.left = @ - 1,
                               !.level = 1, !.table = Root] /\ pc' = pc
      BY <2>5, <1>5 DEF write_pte
    <3>2. walk'.op = walk.op /\ walk'.left = walk.left - 1 /\ walk'.level = 1
      BY <1>0, <3>1 DEF PagingInv, WalkTypes
    <3>3. Pending = 3 * walk.left + (4 - 4)
      BY <1>0, <2>0 DEF Pending
    <3>4. Pending' = 3 * (walk.left - 1) + (4 - 1)
      BY <1>0, <2>0, <3>1, <3>2 DEF Pending
    <3>5. walk.left \in Nat /\ walk.left - 1 \in Nat
      BY <1>0, <2>5, WalkState
    <3>6. Pending' \in Nat /\ Pending' <= Pending
      BY <3>3, <3>4, <3>5
    <3> QED BY <1>0, <2>0, <2>3, <3>1, <3>6, WalkTakesNone
  <2>6. CASE ~ Entry.present /\ ~ walk.left > 0
    <3>1. pc' = "idle"
      BY <1>5, <2>6 DEF write_pte
    <3> QED BY <1>0, <2>0, <2>3, <3>1, EndedWalk
  <2> QED BY <2>4, <2>5, <2>6
<1>6. CASE clear_pte
  <2>0. UNCHANGED <<head, initialized>> /\ pc' = "idle"
        /\ (mem' = mem \/ mem' = [mem EXCEPT ![walk.table][Index] = Zero])
    BY <1>6 DEF clear_pte
  <2>1. \A f \in FreeFrames : mem'[f] = mem[f]
    BY <1>4, <2>0
  <2> QED BY <1>0, <2>0, <2>1, EndedWalk
<1> QED BY <1>2, <1>3, <1>5, <1>6 DEF Walk

(* memory::init begins: what is gone so far went to calls. *)
LEMMA HeapBegins ==
    ASSUME NEW top, NEW early, NEW u, BeforeInit(top, early, u), init
    PROVE  HeapInv(top, early)'
<1>0. UNCHANGED <<mem, head, initialized, heap, heapTaken, calls>> /\ pc' = "heap"
  BY DEF init, frameVars
<1>1. /\ u \in Nat /\ u <= MaxEarly * early /\ MaxEarly * early \in Nat /\ calls \in 0 .. MaxEarly
      /\ IsList(UpTo(top - u * FRAME_SIZE), Falling, Head0, Mem0)
  BY FrameThere
<1>2. IsList(UpTo(top - u * FRAME_SIZE), Falling, Head0', Mem0')
  <2>1. UpTo(top - u * FRAME_SIZE) \subseteq Frames
    BY DEF UpTo, Frames
  <2> QED BY <1>0, <1>1, <2>1, ListStays
<1>3. /\ heap' = NoHeap /\ heapTaken' = {} /\ ~ HeapReady'
      /\ heap'.turn = 0 /\ heap'.start = NULL_MARK
      /\ heap'.lowest = NULL_MARK /\ heap'.expected = NULL_MARK
  BY <1>0 DEF BeforeInit, Early, HeapReady, NoHeap
<1>4. {top - k * FRAME_SIZE : k \in u .. u - 1} = {} /\ u = u + 0
  BY <1>1
<1>5. HeapGrows(top, u, u)'
  BY <1>3, <1>4 DEF HeapGrows
<1>6. u \in 0 .. MaxEarly * early
  BY <1>1
<1>7. Early(top, early, u)'
  BY <1>0, <1>1, <1>2, <1>5, <1>6 DEF Early
<1> QED BY <1>1, <1>3, <1>7 DEF HeapInv

(* A turn of the loop of init_heap finds the frame just below the last. *)
LEMMA HeapTurn ==
    ASSUME NEW top, NEW early, NEW u \in Nat, NEW e \in 0 .. MaxEarly * early,
           PagingInv, Roomy(top, early), ~ HeapReady, pc = "heap", Early(top, early, u),
           HeapGrows(top, u, e), init_heap_turn, UNCHANGED <<pc, calls>>
    PROVE  HeapInv(top, early)'
<1>1. /\ heap \in [turn : 0 .. HEAP_FRAMES, lowest : Pool \cup {NULL_MARK}, expected : Int,
                   start : Pool \cup {NULL_MARK}]
      /\ heap.turn < HEAP_FRAMES /\ HEAP_FRAMES \in Nat /\ FRAME_SIZE \in Nat
  BY FrameAssumption DEF PagingInv, FrameTypes, init_heap_turn
<1>2. e \in Nat /\ MaxEarly * early \in Nat /\ e <= MaxEarly * early
  <2>1. early \in Nat /\ 0 \in 0 .. MaxEarly
    BY CallsAssumption DEF Roomy
  <2>2. MaxEarly * early \in Nat
    BY <2>1, CallsTake
  <2> QED BY <2>2
<1>3. PICK turn \in Nat : turn = heap.turn /\ turn < HEAP_FRAMES /\ u = e + turn
  BY <1>1 DEF HeapGrows
<1>4. u < MaxEarly * early + HEAP_FRAMES
  <2>1. PICK M \in Nat : M = MaxEarly * early
    BY <1>2
  <2> QED BY <1>1, <1>2, <1>3, <2>1
<1>5. PICK a : a = top - u * FRAME_SIZE /\ a \in Pool /\ top \in Nat
  BY <1>4, RoomLeft
<1>6. /\ Head0 = a /\ Head0 # NULL_MARK
      /\ IsList(UpTo(a - FRAME_SIZE), Falling, Head0', Mem0')
  <2>1. IsList(UpTo(a), Falling, Head0, Mem0)
    BY <1>5 DEF Early
  <2>2. \A f \in UpTo(a) \ {Head0} : mem'[f] = Mem0[f]
    BY DEF init_heap_turn, Popped
  <2>3. head' = NextHead /\ initialized' = TRUE
    BY DEF init_heap_turn
  <2> QED BY <1>5, <2>1, <2>2, <2>3, ListPops
<1>7. a - FRAME_SIZE = top - (u + 1) * FRAME_SIZE
  BY <1>5, OneDown
<1>8. heap.expected \in {NULL_MARK, Head0}
  BY <1>3, <1>5, <1>6 DEF HeapGrows
<1>9. heap' = [heap EXCEPT !.turn = turn + 1, !.lowest = a, !.expected = a - FRAME_SIZE]
  BY <1>3, <1>6, <1>8 DEF init_heap_turn
<1>10. /\ heap'.turn = turn + 1 /\ heap'.lowest = a /\ heap'.expected = a - FRAME_SIZE
       /\ heap'.start = heap.start
  BY <1>1, <1>9
<1>11. heapTaken' = heapTaken \cup {a}
  BY <1>6 DEF init_heap_turn
<1>12. heapTaken' = {top - k * FRAME_SIZE : k \in e .. (u + 1) - 1}
  <2>1. e .. (u + 1) - 1 = (e .. u - 1) \cup {u}
    <3>1. (u + 1) - 1 = u /\ e \in Int /\ u \in Int /\ e <= u
      BY <1>2, <1>3
    <3>2. e .. u = (e .. u - 1) \cup {u}
      BY <3>1
    <3> QED BY <3>1, <3>2
  <2>2. heapTaken = {top - k * FRAME_SIZE : k \in e .. u - 1}
    BY DEF HeapGrows
  <2> QED BY <1>5, <1>11, <2>1, <2>2
<1>13. u + 1 \in Nat /\ u + 1 = e + (turn + 1) /\ (u + 1) - 1 = u /\ turn + 1 # 0
  BY <1>2, <1>3
<1>14. heap.start = NULL_MARK /\ ~ HeapReady'
  BY <1>10 DEF HeapReady
<1>15. HeapGrows(top, u + 1, e)'
  BY <1>5, <1>7, <1>10, <1>12, <1>13, <1>14 DEF HeapGrows
<1>16. Early(top, early, u + 1)'
  BY <1>6, <1>7, <1>15 DEF Early
<1> QED BY <1>13, <1>14, <1>16 DEF HeapInv

(* After the loop the heap is what it took. *)
LEMMA HeapDone ==
    ASSUME NEW top, NEW early, NEW u \in Nat, NEW e \in 0 .. MaxEarly * early,
           PagingInv, Roomy(top, early), ~ HeapReady, pc = "heap", Early(top, early, u),
           HeapGrows(top, u, e), init_heap_done,
           pc' = IF heap.lowest = NULL_MARK THEN "stop" ELSE "idle"
    PROVE  HeapInv(top, early)'
<1>1. /\ heap \in [turn : 0 .. HEAP_FRAMES, lowest : Pool \cup {NULL_MARK}, expected : Int,
                   start : Pool \cup {NULL_MARK}]
      /\ heap.turn = HEAP_FRAMES /\ HEAP_FRAMES \in Nat \ {0} /\ FRAME_SIZE \in Nat
  BY FrameAssumption DEF PagingInv, FrameTypes, init_heap_done
<1>2. e \in Nat /\ MaxEarly * early \in Nat /\ e <= MaxEarly * early
  <2>1. early \in Nat /\ 0 \in 0 .. MaxEarly
    BY CallsAssumption DEF Roomy
  <2>2. MaxEarly * early \in Nat
    BY <2>1, CallsTake
  <2> QED BY <2>2
<1>3. u = e + HEAP_FRAMES
  BY <1>1 DEF HeapGrows
<1>4. PICK w \in Nat : w = u - 1 /\ w < MaxEarly * early + HEAP_FRAMES
  <2>1. PICK M \in Nat : M = MaxEarly * early
    BY <1>2
  <2>2. u - 1 \in Nat /\ u - 1 < M + HEAP_FRAMES
    BY <1>1, <1>2, <1>3, <2>1
  <2> QED BY <2>1, <2>2
<1>5. top - w * FRAME_SIZE \in Pool /\ top \in Nat
  BY <1>4, RoomLeft
<1>6. heap.lowest = top - w * FRAME_SIZE /\ heap.lowest # NULL_MARK
  <2>1. heap.lowest = top - w * FRAME_SIZE
    BY <1>1, <1>4 DEF HeapGrows
  <2> QED BY <1>5, <2>1, PoolFacts DEF Frames
<1>7. heap'.start = top - w * FRAME_SIZE /\ heapTaken' = heapTaken /\ pc' = "idle"
  BY <1>1, <1>6 DEF init_heap_done
<1>8. ASSUME NEW k \in 0 .. HEAP_FRAMES - 1
      PROVE  heap'.start + k * FRAME_SIZE \in heapTaken'
  <2>1. PICK j : j = w - k
    OBVIOUS
  <2>2. j \in e .. u - 1 /\ k \in Int /\ j \in Int
    <3>1. PICK H \in Nat : H = HEAP_FRAMES /\ k \in 0 .. H - 1 /\ u = e + H
      BY <1>1, <1>3
    <3>2. k \in Int /\ 0 <= k /\ k <= H - 1
      BY <3>1
    <3>3. j \in Int /\ e <= j /\ j <= u - 1
      BY <1>2, <1>4, <2>1, <3>1, <3>2
    <3> QED BY <1>2, <3>2, <3>3
  <2>3. (top - w * FRAME_SIZE) + k * FRAME_SIZE = top - j * FRAME_SIZE
    <3>1. PICK p, q \in Int : p = j * FRAME_SIZE /\ q = k * FRAME_SIZE
      BY <1>1, <2>2, Z3
    <3>2. w = j + k
      BY <1>4, <2>1, <2>2
    <3>3. w * FRAME_SIZE = p + q
      BY <1>1, <2>2, <3>1, <3>2, Z3
    <3> QED BY <1>5, <3>1, <3>3
  <2>4. top - j * FRAME_SIZE \in heapTaken
    BY <2>2 DEF HeapGrows
  <2> QED BY <1>7, <2>3, <2>4
<1>9. HeapReady' /\ HeapOwned'
  BY <1>6, <1>7, <1>8 DEF HeapReady, HeapOwned
<1> QED BY <1>7, <1>9 DEF HeapInv

(* Once the heap is there it stays where it is. *)
LEMMA HeapStays ==
    ASSUME NEW top, NEW early, HeapReady, pc # "heap", HeapOwned,
           UNCHANGED <<heap, heapTaken>>, pc' # "heap"
    PROVE  HeapInv(top, early)'
<1>1. HeapReady' /\ HeapOwned'
  BY DEF HeapReady, HeapOwned
<1> QED BY <1>1 DEF HeapInv

(* At boot the whole pool is on the list. *)
LEMMA HeapInit ==
    ASSUME NEW top, NEW early, Roomy(top, early), Init
    PROVE  HeapInv(top, early)
<1>1. /\ head = NULL_MARK /\ initialized = FALSE /\ heap = NoHeap /\ heapTaken = {}
      /\ pc = "idle" /\ calls = 0
  BY DEF Init, FrameInit
<1>2. mem \in [Frames -> [Idx -> Word]]
  BY InitInv DEF PagingInv, FrameTypes
<1>3. IsList(Pool, Falling, Head0, Mem0)
  BY <1>1, <1>2, PoolList DEF Falling
<1>4. top - 0 * FRAME_SIZE = top
  <2>1. top \in Nat /\ FRAME_SIZE \in Nat
    BY PoolFacts, FrameAssumption DEF Roomy
  <2> QED BY <2>1
<1>5. UpTo(top - 0 * FRAME_SIZE) = Pool
  BY <1>4 DEF UpTo, Roomy
<1>6. calls \in 0 .. MaxEarly
  BY <1>1, CallsAssumption
<1>7. 0 + Pending <= early * calls
  <2>1. Pending = 0
    BY <1>1 DEF Pending
  <2>2. early * 0 = 0
    BY DEF Roomy
  <2> QED BY <1>1, <2>1, <2>2
<1>8. Early(top, early, 0)
  BY <1>1, <1>3, <1>5, <1>6, <1>7 DEF Early
<1>9. ~ HeapReady
  BY <1>1 DEF HeapReady, NoHeap
<1> QED BY <1>8, <1>9 DEF HeapInv

(* Every step keeps the invariant of the heap. *)
LEMMA HeapNext ==
    ASSUME NEW top, NEW early, Roomy(top, early), PagingInv, HeapInv(top, early),
           Next, NoEarlyFree
    PROVE  HeapInv(top, early)'
<1>1. CASE HeapReady
  <2>1. pc # "heap" /\ HeapOwned
    BY <1>1 DEF HeapInv
  <2>2. UNCHANGED <<heap, heapTaken>> /\ pc' # "heap"
    <3>1. CASE init
      BY <1>1, <3>1 DEF init
    <3>2. CASE init_heap
      BY <2>1, <3>2 DEF init_heap
    <3>3. CASE allocate_frame
      BY <2>1, <3>3 DEF allocate_frame
    <3>4. CASE Walk
      <4>1. PagingInv' /\ UNCHANGED <<heap, heapTaken>> /\ pc = "walk"
        BY <3>4, WalkStep DEF Walk
      <4>2. pc' \in {"walk", "idle", "panic"}
        <5>1. \A t : Descend(t) => pc' = pc
          BY DEF Descend
        <5>2. \A error : Fail(error) => pc' \in {"idle", "panic"}
          BY DEF Fail
        <5>3. CASE next_table_or_create
          BY <4>1, <5>1, <5>2, <5>3 DEF next_table_or_create
        <5>4. CASE write_pte
          BY <4>1, <5>2, <5>4 DEF write_pte
        <5>5. CASE next_table_existing
          BY <4>1, <5>1, <5>2, <5>5 DEF next_table_existing
        <5>6. CASE clear_pte
          BY <5>6 DEF clear_pte
        <5> QED BY <3>4, <5>3, <5>4, <5>5, <5>6 DEF Walk
      <4> QED BY <4>1, <4>2
    <3>5. ASSUME NEW f \in Pool, free_frame(f) PROVE UNCHANGED <<heap, heapTaken>> /\ pc' # "heap"
      BY <2>1, <3>5 DEF free_frame
    <3>6. ASSUME NEW r \in Requests, map_page(r) PROVE UNCHANGED <<heap, heapTaken>> /\ pc' # "heap"
      BY <3>6 DEF map_page, frameVars
    <3>7. ASSUME NEW v \in {r.virt : r \in Requests}, unmap_page(v)
          PROVE  UNCHANGED <<heap, heapTaken>> /\ pc' # "heap"
      <4>1. UNCHANGED <<heap, heapTaken>> /\ pc' = "walk"
        BY <3>7, Zenon DEF unmap_page, frameVars
      <4> QED BY <4>1
    <3> QED BY <3>1, <3>2, <3>3, <3>4, <3>5, <3>6, <3>7, Zenon DEF Next
  <2> QED BY <1>1, <2>1, <2>2, HeapStays
<1>2. CASE ~ HeapReady
  <2>1. PICK u \in Nat : Early(top, early, u)
    BY <1>2 DEF HeapInv
  <2>2. CASE pc = "heap"
    <3>1. PICK e \in 0 .. MaxEarly * early : HeapGrows(top, u, e)
      BY <2>1, <2>2 DEF Early
    <3>2. init_heap
      <4>1. \A f \in Pool : ~ free_frame(f)
        BY <1>2 DEF NoEarlyFree
      <4>2. ~ Call /\ ~ init /\ ~ Walk
        BY <2>2 DEF Call, init, Walk
      <4>3. ~ allocate_frame /\ (\A r \in Requests : ~ map_page(r)) /\ \A v : ~ unmap_page(v)
        BY <4>2, Zenon DEF allocate_frame, map_page, unmap_page
      <4> QED BY <4>1, <4>2, <4>3, Zenon DEF Next
    <3>3. /\ UNCHANGED calls
          /\ \/ init_heap_turn /\ UNCHANGED pc
             \/ init_heap_done /\ pc' = IF heap.lowest = NULL_MARK THEN "stop" ELSE "idle"
      BY <3>2 DEF init_heap
    <3> QED BY <1>2, <2>1, <2>2, <3>1, <3>3, HeapTurn, HeapDone
  <2>3. CASE pc # "heap"
    <3>0. BeforeInit(top, early, u)
      BY <1>2, <2>1, <2>3 DEF BeforeInit
    <3>1. CASE init
      BY <3>0, <3>1, HeapBegins
    <3>2. ~ init_heap
      BY <2>3 DEF init_heap
    <3>3. CASE allocate_frame
      BY <3>0, <3>3, EarlyAllocate
    <3>4. CASE Walk
      BY <3>0, <3>4, EarlyWalk
    <3>5. \A f \in Pool : ~ free_frame(f)
      BY <1>2 DEF NoEarlyFree
    <3>6. ASSUME NEW r \in Requests, map_page(r) PROVE HeapInv(top, early)'
      BY <3>0, <3>6, EarlyMap
    <3>7. ASSUME NEW v \in {r.virt : r \in Requests}, unmap_page(v) PROVE HeapInv(top, early)'
      BY <3>0, <3>7, EarlyUnmap, Zenon
    <3> QED BY <3>1, <3>2, <3>3, <3>4, <3>5, <3>6, <3>7, Zenon DEF Next
  <2> QED BY <2>2, <2>3
<1> QED BY <1>1, <1>2

(* A step in which nothing happens keeps it too. *)
LEMMA HeapStutters ==
    ASSUME NEW top, NEW early, PagingInv, HeapInv(top, early), UNCHANGED vars
    PROVE  HeapInv(top, early)'
<1>1. UNCHANGED <<mem, head, initialized, heap, heapTaken, pc, walk, calls>>
  BY DEF vars, frameVars
<1>2. CASE HeapReady
  BY <1>1, <1>2, HeapStays DEF HeapInv
<1>3. CASE ~ HeapReady
  <2>1. PICK u \in Nat : Early(top, early, u)
    BY <1>3 DEF HeapInv
  <2>2. Head0' = Head0 /\ Mem0' = Mem0 /\ Pending' = Pending /\ ~ HeapReady'
    BY <1>1, <1>3 DEF Head0, Mem0, InitMem, Pending, HeapReady
  <2>3. \A e : HeapGrows(top, u, e)' = HeapGrows(top, u, e)
    BY <1>1 DEF HeapGrows
  <2>4. Early(top, early, u)'
    BY <1>1, <2>1, <2>2, <2>3 DEF Early
  <2> QED BY <2>2, <2>4 DEF HeapInv
<1> QED BY <1>2, <1>3

(* On a machine whose highest memory has room for the frames that boot takes  *)
(* before memory::init and for the heap, the range that is given to the      *)
(* global allocator consists of frames that init_heap has taken for it: the  *)
(* allocator hands them out in falling order, without a gap.                 *)
THEOREM HeapIsOwned ==
    ASSUME NEW top, NEW early, Roomy(top, early)
    PROVE  Spec /\ [][NoEarlyFree]_vars => []HeapOwned
<1>1. Init => HeapInv(top, early)
  BY HeapInit
<1>2. PagingInv /\ HeapInv(top, early) /\ [Next]_vars /\ [NoEarlyFree]_vars => HeapInv(top, early)'
  BY HeapNext, HeapStutters
<1>3. HeapInv(top, early) => HeapOwned
  BY DEF HeapInv, HeapOwned, HeapReady
<1> QED BY <1>1, <1>2, <1>3, PagingAlways, PTL DEF Spec

=============================================================================
