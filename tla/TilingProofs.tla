---------------------------- MODULE TilingProofs ----------------------------
(***************************************************************************)
(* Chunks fill the units of the heap: what joining, splitting, taking and  *)
(* freeing chunks does to the tiling and to the boundary tags, for any     *)
(* unit size and any number of units and chunks.                           *)
(***************************************************************************)
EXTENDS AbHeapInv, TLAPS

---------------------------------------------------------------------------
(* Arithmetic of units, tags and addresses                                 *)

\* The unit size, as the other lemmas use it.
LEMMA UnitSize ==
  /\ UNIT_SIZE \in Nat /\ UNIT_SIZE % 8 = 0 /\ UNIT_SIZE >= 48
  /\ MaxUnits \in Nat
BY HeapAssumption

\* The base of a unit is a multiple of the unit size.
LEMMA BaseOf ==
  ASSUME NEW u \in Nat \ {0}
  PROVE  Base(u) \in Nat /\ Base(u) % 8 = 0
<1>1. UNIT_SIZE \in Nat /\ UNIT_SIZE % 8 = 0
  BY UnitSize
<1>2. PICK k \in Nat : UNIT_SIZE = 8 * k
  BY <1>1
<1>3. Base(u) = 8 * ((u - 1) * k) /\ (u - 1) * k \in Nat
  BY <1>2 DEF Base
<1> QED
  <2> DEFINE x == (u - 1) * k
  <2>1. Base(u) = 8 * x /\ x \in Nat
    BY <1>3
  <2> HIDE DEF x
  <2> QED BY <2>1

\* Units do not overlap.
LEMMA BaseStep ==
  ASSUME NEW u \in Nat \ {0}, NEW v \in Nat, u < v
  PROVE  Base(u) + UNIT_SIZE <= Base(v)
<1>1. ASSUME NEW a \in Nat, NEW b \in Nat, a < b
      PROVE  a * UNIT_SIZE + UNIT_SIZE <= b * UNIT_SIZE
  BY <1>1, UnitSize
<1> QED
  BY <1>1 DEF Base

\* An address lies in the unit that lookup_ustate_by_mem finds, and in no
\* other.
LEMMA UnitBounds ==
  ASSUME NEW p \in Nat
  PROVE  /\ UnitOf(p) \in Nat \ {0}
         /\ Base(UnitOf(p)) <= p /\ p < Base(UnitOf(p)) + UNIT_SIZE
<1> DEFINE k == p \div UNIT_SIZE
<1>1. k \in Nat /\ k * UNIT_SIZE <= p /\ p < k * UNIT_SIZE + UNIT_SIZE
  BY UnitSize
<1> HIDE DEF k
<1>2. UnitOf(p) = k + 1 /\ Base(k + 1) = k * UNIT_SIZE
  <2>1. (k + 1) - 1 = k BY <1>1
  <2> QED BY <2>1 DEF UnitOf, Base, k
<1> QED BY <1>1, <1>2

\* An address between the bounds of a unit belongs to it.
LEMMA UnitIs ==
  ASSUME NEW p \in Nat, NEW u \in Nat \ {0}, Base(u) <= p, p < Base(u) + UNIT_SIZE
  PROVE  UnitOf(p) = u
<1>1. /\ UnitOf(p) \in Nat \ {0}
      /\ Base(UnitOf(p)) <= p /\ p < Base(UnitOf(p)) + UNIT_SIZE
  BY UnitBounds
<1>2. Base(u) \in Nat /\ Base(UnitOf(p)) \in Nat
  BY <1>1, BaseOf
<1>3. CASE u < UnitOf(p)
  BY <1>1, <1>2, <1>3, BaseStep, UnitSize
<1>4. CASE UnitOf(p) < u
  BY <1>1, <1>2, <1>4, BaseStep, UnitSize
<1> QED BY <1>1, <1>3, <1>4

\* The word that nobody reads is the one where the top ends.
LEMMA DeadIsEnd ==
  ASSUME NEW p \in Nat
  PROVE  DeadWord(p) <=> p = UnitEnd(UnitOf(p))
<1> DEFINE k == p \div UNIT_SIZE
<1>1. k \in Nat /\ p = k * UNIT_SIZE + (p % UNIT_SIZE) /\ p % UNIT_SIZE \in Nat
  BY UnitSize
<1> HIDE DEF k
<1>2. UnitOf(p) = k + 1 /\ Base(k + 1) = k * UNIT_SIZE
  <2>1. (k + 1) - 1 = k BY <1>1
  <2> QED BY <2>1 DEF UnitOf, Base, k
<1> QED BY <1>1, <1>2, UnitSize DEF UnitEnd, DeadWord

\* Words and chunks of the units that the heap has room for.
LEMMA InHeap ==
  ASSUME NEW u \in 1..MaxUnits, NEW a \in Nat, a < Base(u) + UNIT_SIZE
  PROVE  /\ a % 4 = 0 => a \in Addr
         /\ a % 8 = 0 => a \in Chunk
<1> DEFINE T == MaxUnits * UNIT_SIZE
<1>1. T \in Nat /\ Base(u) + UNIT_SIZE <= T /\ T % 8 = 0
  <2>1. Base(MaxUnits + 1) = T /\ MaxUnits + 1 \in Nat \ {0} /\ u < MaxUnits + 1 /\ u \in Nat \ {0}
    <3>1. (MaxUnits + 1) - 1 = MaxUnits BY UnitSize
    <3> QED BY <3>1, UnitSize DEF Base
  <2> QED BY <2>1, BaseOf, BaseStep
<1> HIDE DEF T
<1>2. ASSUME a % 4 = 0 PROVE a \in Addr
  <2>1. a = 4 * (a \div 4) /\ a \div 4 \in 0..(T \div 4 - 1)
    BY <1>1, <1>2, BaseOf, UnitSize
  <2> QED BY <2>1 DEF Addr, T
<1>3. a % 8 = 0 => a % 4 = 0
  OBVIOUS
<1> QED BY <1>2, <1>3 DEF Chunk

\* Sizes and PREV_INUSE in one word.
LEMMA TagWord ==
  /\ \A s \in Nat : \A b \in {0, 1} :
       s % 8 = 0 => /\ ((s + b) \div 4) * 4 = s
                    /\ (s + b) % 2 = b
                    /\ s + b \in Nat
  /\ \A w \in Nat : /\ ((2 * (w \div 2) + 1) \div 4) * 4 = (w \div 4) * 4
                    /\ (2 * (w \div 2) + 1) % 2 = 1
                    /\ 2 * (w \div 2) + 1 \in Nat
                    /\ w % 2 \in {0, 1}
OBVIOUS

---------------------------------------------------------------------------
(* Tilings                                                                 *)

\* Where a chunk is, and what comes behind it.
LEMMA Place ==
  ASSUME NEW sz, NEW n \in Nat, Tiling(sz, n), NEW p \in DOMAIN sz
  PROVE  /\ p \in Nat /\ p % 8 = 0
         /\ sz[p] \in Nat /\ sz[p] % 8 = 0 /\ sz[p] >= 16
         /\ UnitOf(p) \in 1..n
         /\ Base(UnitOf(p)) \in Nat
         /\ Base(UnitOf(p)) <= p /\ p + sz[p] <= Base(UnitOf(p)) + UNIT_SIZE - 16
         /\ UnitOf(p + sz[p]) = UnitOf(p)
         /\ p + sz[p] # UnitEnd(UnitOf(p)) => p + sz[p] \in DOMAIN sz
         /\ \A q \in DOMAIN sz : q \in Nat /\ (p < q => p + sz[p] <= q)
<1>1. /\ p \in Nat /\ p % 8 = 0
      /\ sz[p] \in Nat /\ sz[p] % 8 = 0 /\ sz[p] >= 16
      /\ UnitOf(p) \in 1..n
      /\ p + sz[p] <= UnitEnd(UnitOf(p))
      /\ p + sz[p] # UnitEnd(UnitOf(p)) => p + sz[p] \in DOMAIN sz
      /\ \A q \in DOMAIN sz : q \in Nat /\ (p < q => p + sz[p] <= q)
  BY DEF Tiling, MINSIZE
<1>2. Base(UnitOf(p)) \in Nat
  BY <1>1, BaseOf
<1>3. Base(UnitOf(p)) <= p
  BY <1>1, UnitBounds
<1>4. p + sz[p] <= Base(UnitOf(p)) + UNIT_SIZE - 16
  BY <1>1 DEF UnitEnd
<1>5. UnitOf(p + sz[p]) = UnitOf(p)
  <2>1. UnitOf(p) \in Nat \ {0} /\ p + sz[p] \in Nat
    BY <1>1
  <2>2. Base(UnitOf(p)) <= p + sz[p] /\ p + sz[p] < Base(UnitOf(p)) + UNIT_SIZE
    BY <1>1, <1>2, <1>3, <1>4, UnitSize
  <2> QED BY <2>1, <2>2, UnitIs
<1> QED BY <1>1, <1>2, <1>3, <1>4, <1>5

\* A chunk and the one behind it become one.
IsJoin(z, sz, v) ==
  /\ v \in DOMAIN sz /\ v + sz[v] \in DOMAIN sz
  /\ DOMAIN z = DOMAIN sz \ {v + sz[v]}
  /\ z[v] = sz[v] + sz[v + sz[v]]
  /\ \A p \in DOMAIN z : p # v => z[p] = sz[p]

\* Two neighbours become one chunk, as free and realloc merge them: the units
\* stay filled.
LEMMA Joins ==
  ASSUME NEW sz, NEW n \in Nat, Tiling(sz, n), NEW v, NEW z, IsJoin(z, sz, v)
  PROVE  Tiling(z, n)
<1> USE DEF IsJoin
<1> DEFINE x == v + sz[v]
<1>1. /\ v \in Nat /\ v % 8 = 0 /\ sz[v] \in Nat /\ sz[v] % 8 = 0 /\ sz[v] >= 16
      /\ UnitOf(v) \in 1..n /\ Base(UnitOf(v)) \in Nat /\ Base(UnitOf(v)) <= v
      /\ UnitOf(x) = UnitOf(v)
  BY Place
<1>2. /\ x \in DOMAIN sz /\ x \in Nat /\ x % 8 = 0 /\ sz[x] \in Nat /\ sz[x] % 8 = 0
      /\ sz[x] >= 16 /\ x + sz[x] <= UnitEnd(UnitOf(x))
      /\ x + sz[x] = UnitEnd(UnitOf(x)) \/ x + sz[x] \in DOMAIN sz
      /\ \A q \in DOMAIN sz : x < q => x + sz[x] <= q
  BY Place DEF Tiling, MINSIZE
<1>3. v # x /\ v \in DOMAIN z /\ z[v] = sz[v] + sz[x] /\ v + z[v] = x + sz[x]
  BY <1>1, <1>2
<1>4. ASSUME NEW u \in 1..n PROVE Base(u) \in DOMAIN z
  <2>1. Base(u) \in DOMAIN sz
    BY DEF Tiling
  <2>2. ASSUME Base(u) = x PROVE FALSE
    <3>1. Base(u) \in Nat /\ UnitOf(Base(u)) = u
      BY BaseOf, UnitIs, UnitSize
    <3> QED BY <1>1, <2>2, <3>1
  <2> QED BY <2>1, <2>2
<1>5. ASSUME NEW p \in DOMAIN z
      PROVE  /\ p \in Nat /\ p % 8 = 0
             /\ z[p] \in Nat /\ z[p] % 8 = 0 /\ z[p] >= MINSIZE
             /\ UnitOf(p) \in 1..n
             /\ p + z[p] <= UnitEnd(UnitOf(p))
             /\ p + z[p] = UnitEnd(UnitOf(p)) \/ p + z[p] \in DOMAIN z
             /\ \A q \in DOMAIN z : p < q => p + z[p] <= q
  <2>1. CASE p = v
    <3>1. z[p] \in Nat /\ z[p] % 8 = 0 /\ z[p] >= MINSIZE /\ p + z[p] = x + sz[x]
      BY <1>1, <1>2, <1>3, <2>1 DEF MINSIZE
    <3>2. p + z[p] <= UnitEnd(UnitOf(p)) /\ UnitOf(p) \in 1..n
      BY <1>1, <1>2, <2>1, <3>1
    <3>3. p + z[p] = UnitEnd(UnitOf(p)) \/ p + z[p] \in DOMAIN z
      BY <1>1, <1>2, <2>1, <3>1
    <3>4. ASSUME NEW q \in DOMAIN z, p < q PROVE p + z[p] <= q
      <4>1. v + sz[v] <= q /\ q # x /\ q \in DOMAIN sz /\ q \in Nat
        BY <2>1, <3>4, Place
      <4> QED BY <1>1, <1>2, <3>1, <4>1
    <3> QED BY <1>1, <2>1, <3>1, <3>2, <3>3, <3>4
  <2>2. CASE p # v
    <3>1. /\ p \in DOMAIN sz /\ z[p] = sz[p] /\ p # x
          /\ p \in Nat /\ p % 8 = 0 /\ sz[p] \in Nat /\ sz[p] % 8 = 0 /\ sz[p] >= MINSIZE
          /\ UnitOf(p) \in 1..n /\ p + sz[p] <= UnitEnd(UnitOf(p))
          /\ p + sz[p] = UnitEnd(UnitOf(p)) \/ p + sz[p] \in DOMAIN sz
          /\ \A q \in DOMAIN sz : p < q => p + sz[p] <= q
      BY <2>2 DEF Tiling
    <3>2. p + sz[p] # x
      <4>1. CASE p < v
        BY <1>1, <3>1, <4>1
      <4>2. CASE v < p
        BY <1>1, <1>2, <3>1, <4>2 DEF MINSIZE, Tiling
      <4> QED BY <1>1, <2>2, <3>1, <4>1, <4>2
    <3> QED BY <3>1, <3>2
  <2> QED BY <2>1, <2>2
<1> QED BY <1>4, <1>5 DEF Tiling

\* A chunk is split in two.
IsSplit(z, sz, v, s) ==
  /\ v \in DOMAIN sz
  /\ s \in Nat /\ s % 8 = 0 /\ s >= 16 /\ sz[v] - s >= 16
  /\ DOMAIN z = DOMAIN sz \cup {v + s}
  /\ z[v] = s /\ z[v + s] = sz[v] - s
  /\ \A p \in DOMAIN sz : p # v => z[p] = sz[p]

\* A chunk becomes two, as malloc and realloc split it: the units stay filled.
LEMMA Splits ==
  ASSUME NEW sz, NEW n \in Nat, Tiling(sz, n), NEW v, NEW s, NEW z, IsSplit(z, sz, v, s)
  PROVE  v + s \notin DOMAIN sz /\ UnitOf(v + s) = UnitOf(v) /\ Tiling(z, n)
<1> USE DEF IsSplit
<1> DEFINE x == v + s
<1>1. /\ v \in Nat /\ v % 8 = 0 /\ sz[v] \in Nat /\ sz[v] % 8 = 0 /\ sz[v] >= 16
      /\ UnitOf(v) \in 1..n /\ Base(UnitOf(v)) \in Nat /\ Base(UnitOf(v)) <= v
      /\ v + sz[v] <= Base(UnitOf(v)) + UNIT_SIZE - 16
      /\ \A q \in DOMAIN sz : q \in Nat /\ (v < q => v + sz[v] <= q)
  BY Place
<1>2. x \in Nat /\ x % 8 = 0 /\ v < x /\ x < v + sz[v] /\ UnitOf(x) = UnitOf(v) /\ x \notin DOMAIN sz
  <2>1. x \in Nat /\ x % 8 = 0 /\ v < x /\ x < v + sz[v]
    BY <1>1
  <2>2. UnitOf(x) = UnitOf(v)
    BY <1>1, <2>1, UnitIs, UnitSize
  <2> QED BY <1>1, <2>1, <2>2
<1>3. /\ v + sz[v] <= UnitEnd(UnitOf(v))
      /\ v + sz[v] = UnitEnd(UnitOf(v)) \/ v + sz[v] \in DOMAIN sz
  BY DEF Tiling
<1>4. /\ z[x] = sz[v] - s /\ z[x] \in Nat /\ z[x] % 8 = 0 /\ z[x] >= MINSIZE
      /\ x + z[x] = v + sz[v] /\ z[v] = s
  BY <1>1 DEF MINSIZE
<1>5. ASSUME NEW p \in DOMAIN z
      PROVE  /\ p \in Nat /\ p % 8 = 0
             /\ z[p] \in Nat /\ z[p] % 8 = 0 /\ z[p] >= MINSIZE
             /\ UnitOf(p) \in 1..n
             /\ p + z[p] <= UnitEnd(UnitOf(p))
             /\ p + z[p] = UnitEnd(UnitOf(p)) \/ p + z[p] \in DOMAIN z
             /\ \A q \in DOMAIN z : p < q => p + z[p] <= q
  <2> HIDE DEF x
  <2>1. CASE p = v
    <3>1. p + z[p] = x
      BY <1>4, <2>1 DEF x
    <3>2. \A q \in DOMAIN sz : v < q => x <= q
      BY <1>1, <1>2
    <3>3. \A q \in DOMAIN z : p < q => p + z[p] <= q
      BY <1>2, <2>1, <3>1, <3>2 DEF x
    <3>4. x \in DOMAIN z /\ x <= UnitEnd(UnitOf(v))
      BY <1>1, <1>2, <1>3, UnitSize DEF x, UnitEnd
    <3> QED BY <1>1, <1>4, <2>1, <3>1, <3>3, <3>4 DEF MINSIZE
  <2>2. CASE p = x
    <3>1. \A q \in DOMAIN z : p < q => p + z[p] <= q
      BY <1>1, <1>2, <1>4, <2>2 DEF x
    <3>2. UnitOf(p) = UnitOf(v) /\ p + z[p] = v + sz[v]
      BY <1>2, <1>4, <2>2
    <3> QED BY <1>1, <1>2, <1>3, <1>4, <2>2, <3>1, <3>2
  <2>3. CASE p # v /\ p # x
    <3>1. /\ p \in DOMAIN sz /\ z[p] = sz[p]
          /\ p \in Nat /\ p % 8 = 0 /\ sz[p] \in Nat /\ sz[p] % 8 = 0 /\ sz[p] >= MINSIZE
          /\ UnitOf(p) \in 1..n /\ p + sz[p] <= UnitEnd(UnitOf(p))
          /\ p + sz[p] = UnitEnd(UnitOf(p)) \/ p + sz[p] \in DOMAIN sz
          /\ \A q \in DOMAIN sz : p < q => p + sz[p] <= q
      BY <2>3 DEF Tiling, x
    <3>2. p < x => p + sz[p] <= x
      BY <1>1, <1>2, <2>3, <3>1
    <3> QED BY <3>1, <3>2 DEF x
  <2> QED BY <2>1, <2>2, <2>3
<1>6. \A u \in 1..n : Base(u) \in DOMAIN z
  BY DEF Tiling
<1> QED BY <1>2, <1>5, <1>6 DEF Tiling

\* A new unit is one chunk, its top.
IsGrowth(z, sz, n) ==
  /\ DOMAIN z = DOMAIN sz \cup {Base(n + 1)}
  /\ z[Base(n + 1)] = UNIT_SIZE - 16
  /\ \A p \in DOMAIN sz : z[p] = sz[p]

\* A new unit does not disturb the others.
LEMMA Grows ==
  ASSUME NEW sz, NEW n \in Nat, Tiling(sz, n), NEW z, IsGrowth(z, sz, n)
  PROVE  /\ \A p \in DOMAIN sz : p < Base(n + 1) /\ p + sz[p] < Base(n + 1)
         /\ Base(n + 1) \in Nat /\ UnitOf(Base(n + 1)) = n + 1
         /\ Tiling(z, n + 1)
<1> USE DEF IsGrowth
<1> DEFINE b == Base(n + 1)
<1>1. b \in Nat /\ b % 8 = 0 /\ UnitOf(b) = n + 1
  BY BaseOf, UnitIs, UnitSize
<1>2. ASSUME NEW p \in DOMAIN sz
      PROVE  p + sz[p] < b /\ p < b /\ p \in Nat /\ sz[p] \in Nat
  <2>1. Base(UnitOf(p)) + UNIT_SIZE <= b
    BY Place, BaseStep
  <2> QED BY <1>1, <2>1, Place, UnitSize
<1>3. b \notin DOMAIN sz
  BY <1>1, <1>2
<1>4. ASSUME NEW p \in DOMAIN z
      PROVE  /\ p \in Nat /\ p % 8 = 0
             /\ z[p] \in Nat /\ z[p] % 8 = 0 /\ z[p] >= MINSIZE
             /\ UnitOf(p) \in 1..(n + 1)
             /\ p + z[p] <= UnitEnd(UnitOf(p))
             /\ p + z[p] = UnitEnd(UnitOf(p)) \/ p + z[p] \in DOMAIN z
             /\ \A q \in DOMAIN z : p < q => p + z[p] <= q
  <2> HIDE DEF b
  <2>1. CASE p = b
    <3>1. z[p] = UNIT_SIZE - 16 /\ z[p] \in Nat /\ z[p] % 8 = 0 /\ z[p] >= MINSIZE
      BY <2>1, UnitSize DEF MINSIZE, b
    <3>2. UnitOf(p) = n + 1 /\ p + z[p] = UnitEnd(UnitOf(p))
      BY <1>1, <2>1, <3>1, UnitSize DEF UnitEnd, b
    <3>3. \A q \in DOMAIN z : ~(p < q)
      BY <1>1, <1>2, <2>1 DEF b
    <3> QED BY <1>1, <2>1, <3>1, <3>2, <3>3, UnitSize
  <2>2. CASE p \in DOMAIN sz
    <3>1. /\ z[p] = sz[p] /\ p # b
          /\ p \in Nat /\ p % 8 = 0 /\ sz[p] \in Nat /\ sz[p] % 8 = 0 /\ sz[p] >= MINSIZE
          /\ UnitOf(p) \in 1..n /\ p + sz[p] <= UnitEnd(UnitOf(p))
          /\ p + sz[p] = UnitEnd(UnitOf(p)) \/ p + sz[p] \in DOMAIN sz
          /\ \A q \in DOMAIN sz : p < q => p + sz[p] <= q
      BY <1>3, <2>2 DEF Tiling
    <3>2. p + sz[p] <= b
      BY <1>1, <1>2, <2>2
    <3> QED BY <2>2, <3>1, <3>2 DEF b
  <2> QED BY <2>1, <2>2 DEF b
<1>5. \A u \in 1..(n + 1) : Base(u) \in DOMAIN z
  BY DEF Tiling
<1> QED BY <1>1, <1>2, <1>4, <1>5 DEF Tiling

---------------------------------------------------------------------------
(* Layouts: the tiling and its tags in memory                              *)

\* The memory, and the tops, of a heap that is not larger than it may be.
IsHeap(m, tp) ==
  m \in [Addr -> Nat \cup {DATA}] /\ tp \in Seq(Chunk) /\ Len(tp) <= MaxUnits

Tiles(F, U, tp) == F \cup U \cup ToSet(tp)

\* What the layout says of one chunk.
ChunkAt(m, F, U, tp, p) ==
  /\ p \in Nat /\ p % 8 = 0 /\ p \in Chunk
  /\ chunksize(m, p) \in Nat /\ chunksize(m, p) % 8 = 0 /\ chunksize(m, p) >= 16
  /\ p + 4 \in Addr /\ p + chunksize(m, p) \in Addr /\ p + chunksize(m, p) + 4 \in Addr
  /\ m[p + 4] \in Nat
  /\ UnitOf(p) \in 1..Len(tp)
  /\ UnitOf(p + chunksize(m, p)) = UnitOf(p)
  /\ Base(UnitOf(p)) \in Nat /\ Base(UnitOf(p)) <= p
  /\ p + chunksize(m, p) <= Base(UnitOf(p)) + UNIT_SIZE - 16
  /\ prev_inuse(m, p) <=> \A q \in F : q + chunksize(m, q) # p
  /\ \A q \in Tiles(F, U, tp) : p < q => p + chunksize(m, p) <= q
  /\ \A q \in Tiles(F, U, tp) : q + chunksize(m, q) = p + chunksize(m, p) => q = p
  /\ p \in F => p + chunksize(m, p) \in U /\ m[p + chunksize(m, p)] = chunksize(m, p)
  /\ p \in F \cup U => /\ p + chunksize(m, p) \in Tiles(F, U, tp)
                       /\ p + chunksize(m, p) # UnitEnd(UnitOf(p))
                       /\ p # tp[UnitOf(p)]
  /\ p \in ToSet(tp) => p = tp[UnitOf(p)]
  /\ p = tp[UnitOf(p)] <=> p + chunksize(m, p) = UnitEnd(UnitOf(p))

\* The layout says all this of each of its chunks.
LEMMA ChunkFacts ==
  ASSUME NEW m, NEW F, NEW U, NEW tp, IsHeap(m, tp), Layout(m, F, U, tp),
         NEW p \in Tiles(F, U, tp)
  PROVE  ChunkAt(m, F, U, tp, p)
<1> DEFINE A  == Tiles(F, U, tp)
           n  == Len(tp)
           sz == SizesOf(m, A)
<1>1. n \in Nat /\ n <= MaxUnits /\ Tiling(sz, n) /\ DOMAIN sz = A
      /\ \A q \in A : sz[q] = chunksize(m, q)
  BY DEF IsHeap, Layout, Tiles, SizesOf
<1> HIDE DEF A, n, sz
<1>2. /\ p \in Nat /\ p % 8 = 0
      /\ sz[p] \in Nat /\ sz[p] % 8 = 0 /\ sz[p] >= 16
      /\ UnitOf(p) \in 1..n
      /\ Base(UnitOf(p)) \in Nat
      /\ Base(UnitOf(p)) <= p /\ p + sz[p] <= Base(UnitOf(p)) + UNIT_SIZE - 16
      /\ UnitOf(p + sz[p]) = UnitOf(p)
      /\ p + sz[p] # UnitEnd(UnitOf(p)) => p + sz[p] \in A
      /\ \A q \in A : q \in Nat /\ (p < q => p + sz[p] <= q)
  BY <1>1, Place DEF A
<1>3. sz[p] = chunksize(m, p) /\ p \in A
  BY <1>1 DEF A
<1>4. ASSUME NEW q \in A, q + sz[q] = p + sz[p] PROVE q = p
  <2>1. q \in Nat /\ sz[q] \in Nat /\ sz[q] >= 16 /\ (q < p => q + sz[q] <= p)
    BY <1>1, <1>3, Place
  <2> QED BY <1>2, <1>4, <2>1
<1>5. /\ p + 4 \in Addr /\ p + sz[p] \in Addr /\ p + sz[p] + 4 \in Addr /\ p \in Chunk
  <2>1. /\ UnitOf(p) \in 1..MaxUnits
        /\ p \in Nat /\ p + 4 \in Nat /\ p + sz[p] \in Nat /\ p + sz[p] + 4 \in Nat
        /\ p % 8 = 0 /\ (p + 4) % 4 = 0 /\ (p + sz[p]) % 4 = 0 /\ (p + sz[p] + 4) % 4 = 0
    BY <1>1, <1>2, UnitSize
  <2>2. /\ p < Base(UnitOf(p)) + UNIT_SIZE
        /\ p + 4 < Base(UnitOf(p)) + UNIT_SIZE
        /\ p + sz[p] < Base(UnitOf(p)) + UNIT_SIZE
        /\ p + sz[p] + 4 < Base(UnitOf(p)) + UNIT_SIZE
    BY <1>2, UnitSize
  <2> QED BY <2>1, <2>2, InHeap
<1>6. /\ m[p + 4] \in Nat
      /\ prev_inuse(m, p) <=> \A q \in F : q + chunksize(m, q) # p
      /\ p \in F => m[p + chunksize(m, p)] = chunksize(m, p)
  BY <1>3 DEF Layout, Tagged, A, Tiles, next_chunk
<1>7. /\ F \cap U = {}
      /\ \A q \in F : q + chunksize(m, q) \in U
      /\ \A q \in U : q + chunksize(m, q) # UnitEnd(UnitOf(q))
      /\ \A u \in 1..n : UnitOf(tp[u]) = u /\ tp[u] + chunksize(m, tp[u]) = UnitEnd(u)
  BY DEF Layout, next_chunk, n
<1>8. \A u \in 1..n : tp[u] \in A
  BY DEF IsHeap, n, A, Tiles, ToSet
<1>9. p \in ToSet(tp) => p = tp[UnitOf(p)]
  <2>1. ASSUME p \in ToSet(tp) PROVE \E u \in 1..n : p = tp[u]
    BY <2>1 DEF IsHeap, ToSet, n
  <2> QED BY <1>7, <2>1
<1>10. p \in U => p + sz[p] # UnitEnd(UnitOf(p)) /\ p # tp[UnitOf(p)] /\ p + sz[p] \in A
  BY <1>2, <1>3, <1>7
<1>11. ASSUME p \in F
       PROVE  p + sz[p] # UnitEnd(UnitOf(p)) /\ p # tp[UnitOf(p)] /\ p + sz[p] \in A
  <2>1. p + sz[p] \in U
    BY <1>3, <1>7, <1>11
  <2>2. p + sz[p] \in A
    BY <2>1 DEF A, Tiles
  <2>3. /\ p + sz[p] + sz[p + sz[p]] <= Base(UnitOf(p)) + UNIT_SIZE - 16
        /\ sz[p + sz[p]] \in Nat /\ sz[p + sz[p]] >= 16
    BY <1>1, <1>2, <2>2, Place
  <2>4. p + sz[p] # UnitEnd(UnitOf(p))
    BY <1>2, <2>3, UnitSize DEF UnitEnd
  <2> QED BY <1>2, <1>3, <1>7, <2>2, <2>4
<1>12. p = tp[UnitOf(p)] <=> p + sz[p] = UnitEnd(UnitOf(p))
  <2>1. ASSUME p + sz[p] = UnitEnd(UnitOf(p)) PROVE p \in ToSet(tp)
    BY <1>10, <1>11, <2>1 DEF Tiles
  <2> QED BY <1>2, <1>3, <1>7, <1>9, <2>1
<1>13. /\ \A q \in A : p < q => p + chunksize(m, p) <= q
       /\ \A q \in A : q + chunksize(m, q) = p + chunksize(m, p) => q = p
  BY <1>1, <1>2, <1>3, <1>4
<1> QED
  BY <1>2, <1>3, <1>5, <1>6, <1>7, <1>9, <1>10, <1>11, <1>12, <1>13 DEF ChunkAt, A, n

\* The sizes of the chunks in S are the same in both memories.
SameSizes(m, m2, S) == \A p \in S : chunksize(m2, p) = chunksize(m, p)

\* Words change, tags do not.
LEMMA SameTags ==
  ASSUME NEW m, NEW F, NEW U, NEW tp, IsHeap(m, tp), Layout(m, F, U, tp),
         NEW m2, m2 \in [Addr -> Nat \cup {DATA}],
         \A p \in Tiles(F, U, tp) : /\ m2[p + 4] \in Nat
                                    /\ chunksize(m2, p) = chunksize(m, p)
                                    /\ prev_inuse(m2, p) <=> prev_inuse(m, p),
         \A p \in F : m2[p + chunksize(m, p)] = m[p + chunksize(m, p)]
  PROVE  IsHeap(m2, tp) /\ Layout(m2, F, U, tp) /\ SameSizes(m, m2, Tiles(F, U, tp))
<1> DEFINE A == Tiles(F, U, tp)
<1>1. SizesOf(m2, A) = SizesOf(m, A)
  BY DEF SizesOf
<1>2. /\ \A p \in F : p \in A /\ p + chunksize(m2, p) = p + chunksize(m, p)
      /\ \A p \in U : p \in A /\ p + chunksize(m2, p) = p + chunksize(m, p)
      /\ \A u \in 1..Len(tp) : tp[u] \in A /\ tp[u] + chunksize(m2, tp[u]) = tp[u] + chunksize(m, tp[u])
  BY DEF Tiles, ToSet, IsHeap
<1>3. Tagged(m2, F, A)
  BY <1>2 DEF Layout, Tagged, next_chunk, Tiles
<1>4. Layout(m2, F, U, tp)
  BY <1>1, <1>2, <1>3 DEF Layout, next_chunk, Tiles
<1> QED BY <1>4 DEF IsHeap, SameSizes

\* A chunk that is handed out, or was in use: PREV_INUSE is set behind it.
LEMMA MarksInuse ==
  ASSUME NEW m, NEW F, NEW U, NEW tp, IsHeap(m, tp), Layout(m, F, U, tp),
         NEW v \in F \cup U,
         NEW m2, m2 = set_inuse_bit_at_offset(m, v, chunksize(m, v))
  PROVE  /\ IsHeap(m2, tp) /\ Layout(m2, F \ {v}, U \cup {v}, tp)
         /\ SameSizes(m, m2, Tiles(F, U, tp))
<1> DEFINE A == Tiles(F, U, tp)
           s == chunksize(m, v)
           x == v + chunksize(m, v)
<1>1. \A p \in A : ChunkAt(m, F, U, tp, p)
  BY ChunkFacts
<1>2. /\ v \in A /\ v \in Nat /\ v % 8 = 0 /\ s \in Nat /\ s % 8 = 0 /\ s >= 16
      /\ x \in A /\ x \in Nat /\ x % 8 = 0
      /\ x + 4 \in Addr /\ m[x + 4] \in Nat
      /\ v \in F => x \in U
      /\ \A q \in A : q + chunksize(m, q) = x => q = v
  BY <1>1 DEF ChunkAt, Tiles
<1>3. m2 = [m EXCEPT ![x + 4] = 2 * (m[x + 4] \div 2) + 1]
  BY DEF set_inuse_bit_at_offset
<1> HIDE DEF x, s
<1>4. /\ m2 \in [Addr -> Nat \cup {DATA}]
      /\ m2[x + 4] \in Nat /\ (m2[x + 4] \div 4) * 4 = (m[x + 4] \div 4) * 4
      /\ m2[x + 4] % 2 = 1
      /\ \A a \in Addr : a # x + 4 => m2[a] = m[a]
  <2> DEFINE w == m[x + 4]
             y == 2 * (w \div 2) + 1
  <2>1. y \in Nat /\ (y \div 4) * 4 = (w \div 4) * 4 /\ y % 2 = 1
    BY <1>2, TagWord
  <2> HIDE DEF y
  <2>2. m2 = [m EXCEPT ![x + 4] = y]
    BY <1>3 DEF y
  <2> QED BY <1>2, <2>1, <2>2 DEF IsHeap
<1>5. ASSUME NEW p \in A
      PROVE  /\ m2[p + 4] \in Nat /\ chunksize(m2, p) = chunksize(m, p)
             /\ prev_inuse(m2, p) <=> prev_inuse(m, p) \/ p = x
  <2>1. p \in Nat /\ p + 4 \in Addr /\ m[p + 4] \in Nat
    BY <1>1 DEF ChunkAt
  <2>2. CASE p = x
    BY <1>4, <2>2 DEF chunksize, prev_inuse
  <2>3. CASE p # x
    BY <1>2, <1>4, <2>1, <2>3 DEF chunksize, prev_inuse
  <2> QED BY <2>2, <2>3
<1>6. Tiles(F \ {v}, U \cup {v}, tp) = A
  BY DEF Tiles
<1>7. SizesOf(m2, A) = SizesOf(m, A)
  BY <1>5 DEF SizesOf
<1>8. ASSUME NEW p \in A
      PROVE  prev_inuse(m2, p) <=> \A q \in F \ {v} : next_chunk(m2, q) # p
  <2>1. \A q \in F : q \in A /\ next_chunk(m2, q) = q + chunksize(m, q)
    BY <1>5 DEF Tiles, next_chunk
  <2>2. prev_inuse(m, p) <=> \A q \in F : q + chunksize(m, q) # p
    BY <1>1 DEF ChunkAt
  <2>3. CASE p = x
    BY <1>2, <1>5, <2>1, <2>3
  <2>4. CASE p # x
    BY <1>2, <1>5, <2>1, <2>2, <2>4 DEF x
  <2> QED BY <2>3, <2>4
<1>9. ASSUME NEW p \in F PROVE m2[next_chunk(m2, p)] = chunksize(m2, p)
  <2>1. /\ p \in A /\ p + chunksize(m, p) \in Addr /\ (p + chunksize(m, p)) % 8 = 0
        /\ p + chunksize(m, p) \in Nat
        /\ m[p + chunksize(m, p)] = chunksize(m, p)
    BY <1>1 DEF ChunkAt, Tiles
  <2>2. p + chunksize(m, p) # x + 4
    BY <1>2, <2>1
  <2> QED BY <1>4, <1>5, <2>1, <2>2 DEF next_chunk
<1>10. Tagged(m2, F \ {v}, A)
  BY <1>5, <1>8, <1>9 DEF Tagged
<1>11. /\ \A p \in F \ {v} : next_chunk(m2, p) \in U \cup {v}
       /\ \A p \in U \cup {v} : next_chunk(m2, p) # UnitEnd(UnitOf(p))
       /\ \A u \in 1..Len(tp) : UnitOf(tp[u]) = u /\ next_chunk(m2, tp[u]) = UnitEnd(u)
  <2>1. \A p \in A : next_chunk(m2, p) = p + chunksize(m, p)
    BY <1>5 DEF next_chunk
  <2>2. \A u \in 1..Len(tp) : tp[u] \in A
    BY DEF IsHeap, ToSet, Tiles
  <2>3. \A u \in 1..Len(tp) : UnitOf(tp[u]) = u /\ tp[u] + chunksize(m, tp[u]) = UnitEnd(u)
    BY DEF Layout, next_chunk
  <2>4. ASSUME NEW p \in F \cup U
        PROVE  p \in A /\ (p \in F => p + chunksize(m, p) \in U)
               /\ p + chunksize(m, p) # UnitEnd(UnitOf(p))
    BY <1>1 DEF ChunkAt, Tiles
  <2> QED BY <2>1, <2>2, <2>3, <2>4
<1>12. Tiling(SizesOf(m2, A), Len(tp)) /\ F \cap U = {}
  BY <1>7 DEF Layout, Tiles
<1>13. Layout(m2, F \ {v}, U \cup {v}, tp)
  BY <1>6, <1>10, <1>11, <1>12 DEF Layout, Tiles
<1> QED
  BY <1>4, <1>5, <1>13 DEF IsHeap, SameSizes

\* The memory of a chunk in use is the client's.
LEMMA Wipes ==
  ASSUME NEW m, NEW F, NEW U, NEW tp, IsHeap(m, tp), Layout(m, F, U, tp),
         NEW v \in U, NEW a \in Nat, NEW b \in Int,
         v + 8 <= a, b <= v + chunksize(m, v),
         NEW m2, m2 = Forget(m, a, b)
  PROVE  /\ IsHeap(m2, tp) /\ Layout(m2, F, U, tp)
         /\ SameSizes(m, m2, Tiles(F, U, tp))
<1> DEFINE A == Tiles(F, U, tp)
<1>1. \A p \in A : ChunkAt(m, F, U, tp, p)
  BY ChunkFacts
<1>2. /\ v \in A /\ v \in Nat /\ chunksize(m, v) \in Nat /\ v \notin F
      /\ \A q \in A : /\ q \in Nat
                      /\ v < q => v + chunksize(m, v) <= q
                      /\ q + chunksize(m, q) = v + chunksize(m, v) => q = v
  BY <1>1 DEF ChunkAt, Tiles, Layout
<1>3. /\ m2 \in [Addr -> Nat \cup {DATA}]
      /\ \A w \in Addr : w \notin a..b => m2[w] = m[w]
  BY DEF Forget, IsHeap
<1>4. ASSUME NEW p \in A PROVE p + 4 \in Addr /\ m2[p + 4] = m[p + 4] /\ m[p + 4] \in Nat
  <2>1. p \in Nat /\ p + 4 \in Addr /\ m[p + 4] \in Nat
    BY <1>1 DEF ChunkAt
  <2>2. p + 4 \notin a..b
    <3>1. CASE p <= v
      BY <1>2, <2>1, <3>1
    <3>2. CASE v < p
      BY <1>2, <2>1, <3>2
    <3> QED BY <1>2, <2>1, <3>1, <3>2
  <2> QED BY <1>3, <2>1, <2>2
<1>5. ASSUME NEW p \in F PROVE m2[p + chunksize(m, p)] = m[p + chunksize(m, p)]
  <2> DEFINE e == p + chunksize(m, p)
  <2>1. /\ p \in A /\ p \in Nat /\ chunksize(m, p) \in Nat /\ e \in Addr /\ chunksize(m, p) >= 16
        /\ p < v => p + chunksize(m, p) <= v
    BY <1>1, <1>2 DEF ChunkAt, Tiles
  <2>2. e # v + chunksize(m, v) /\ p # v
    BY <1>2, <2>1
  <2>3. e \notin a..b
    <3>1. CASE p < v
      BY <1>2, <2>1, <3>1
    <3>2. CASE v < p
      BY <1>2, <2>1, <3>2
    <3> QED BY <1>2, <2>1, <2>2, <3>1, <3>2
  <2> QED BY <1>3, <2>1, <2>3
<1>6. \A p \in A : /\ m2[p + 4] \in Nat /\ chunksize(m2, p) = chunksize(m, p)
                   /\ prev_inuse(m2, p) <=> prev_inuse(m, p)
  BY <1>4 DEF chunksize, prev_inuse
<1> QED BY <1>3, <1>5, <1>6, SameTags

\* ... which ablib_malloc returns, and ablib_calloc clears.
LEMMA Returns ==
  ASSUME NEW m, NEW F, NEW U, NEW tp, IsHeap(m, tp), Layout(m, F, U, tp),
         NEW v \in U, NEW nb \in Nat, nb <= chunksize(m, v),
         NEW m2, m2 \in {Return(m, v, nb), Clear(m, v)}
  PROVE  /\ IsHeap(m2, tp) /\ Layout(m2, F, U, tp)
         /\ SameSizes(m, m2, Tiles(F, U, tp))
<1>1. v \in Nat /\ chunksize(m, v) \in Nat /\ chunksize(m, v) >= 16
  BY ChunkFacts DEF ChunkAt, Tiles
<1>2. CASE m2 = Return(m, v, nb)
  BY <1>1, <1>2, Wipes DEF Return
<1>3. CASE m2 = Clear(m, v)
  BY <1>1, <1>3, Wipes DEF Clear
<1> QED BY <1>2, <1>3

SplitMem(m, v, nb, b) == set_head(set_head(m, v, nb, b), v + nb, chunksize(m, v) - nb, 1)

\* The heads of a chunk that is split: all other words are the same.
SplitHeads(m, m2, A, v, nb, b) ==
  LET x == v + nb
      r == chunksize(m, v) - nb
  IN  /\ m2 \in [Addr -> Nat \cup {DATA}]
      /\ x \in Nat /\ x % 8 = 0 /\ x \in Chunk /\ x \notin A /\ UnitOf(x) = UnitOf(v)
      /\ r \in Nat /\ r % 8 = 0 /\ x + r = v + chunksize(m, v)
      /\ m2[v + 4] \in Nat /\ chunksize(m2, v) = nb /\ (prev_inuse(m2, v) <=> b = 1)
      /\ x + 4 \in Addr /\ m2[x + 4] \in Nat
      /\ chunksize(m2, x) = r /\ prev_inuse(m2, x)
      /\ \A p \in A \ {v} : m2[p + 4] = m[p + 4]
      /\ \A w \in Addr : w % 8 = 0 => m2[w] = m[w]

\* set_head twice writes the sizes of the two halves and nothing else of note.
LEMMA Halves ==
  ASSUME NEW m, NEW F, NEW U, NEW tp, IsHeap(m, tp), Layout(m, F, U, tp),
         NEW v \in Tiles(F, U, tp), NEW nb \in Nat, nb % 8 = 0, nb >= 16,
         chunksize(m, v) - nb >= 16, NEW b \in {0, 1},
         NEW m2, m2 = SplitMem(m, v, nb, b)
  PROVE  /\ SplitHeads(m, m2, Tiles(F, U, tp), v, nb, b)
         /\ Tiling(SizesOf(m2, Tiles(F, U, tp) \cup {v + nb}), Len(tp))
<1> DEFINE A == Tiles(F, U, tp)
           x == v + nb
           s == chunksize(m, v)
           r == s - nb
           sz == SizesOf(m, A)
           z == SizesOf(m2, A \cup {x})
<1>1. \A p \in A : ChunkAt(m, F, U, tp, p)
  BY ChunkFacts
<1>2. /\ v \in Nat /\ v % 8 = 0 /\ s \in Nat /\ s % 8 = 0 /\ v + 4 \in Addr
      /\ UnitOf(v) \in 1..MaxUnits /\ Base(UnitOf(v)) \in Nat /\ Base(UnitOf(v)) <= v
      /\ v + s <= Base(UnitOf(v)) + UNIT_SIZE - 16
      /\ \A q \in A : q \in Nat /\ q % 8 = 0 /\ q + 4 \in Addr /\ (v < q => v + s <= q)
  <2>1. ChunkAt(m, F, U, tp, v) /\ Len(tp) \in Nat /\ Len(tp) <= MaxUnits
    BY <1>1 DEF IsHeap
  <2>2. \A q \in A : q \in Nat /\ q % 8 = 0 /\ q + 4 \in Addr
    BY <1>1 DEF ChunkAt
  <2>3. UnitOf(v) \in 1..MaxUnits
    BY <2>1, UnitSize DEF ChunkAt
  <2> QED BY <2>1, <2>2, <2>3 DEF ChunkAt
<1> HIDE DEF s
<1>3. /\ x \in Nat /\ x % 8 = 0 /\ r \in Nat /\ r % 8 = 0 /\ r >= 16 /\ x + r = v + s
      /\ x \notin A /\ x # v
  BY <1>2 DEF s
<1>4. x \in Chunk /\ x + 4 \in Addr
  <2>1. x + 4 \in Nat /\ (x + 4) % 4 = 0 /\ x < Base(UnitOf(v)) + UNIT_SIZE
        /\ x + 4 < Base(UnitOf(v)) + UNIT_SIZE
    BY <1>2, <1>3, UnitSize
  <2> QED BY <1>2, <1>3, <2>1, InHeap
<1>5. UnitOf(x) = UnitOf(v)
  BY <1>2, <1>3, UnitIs, UnitSize
<1>6. m2 = [[m EXCEPT ![v + 4] = nb + b] EXCEPT ![x + 4] = r + 1]
  BY DEF set_head, s, SplitMem
<1>7. /\ nb + b \in Nat /\ ((nb + b) \div 4) * 4 = nb /\ (nb + b) % 2 = b
      /\ r + 1 \in Nat /\ ((r + 1) \div 4) * 4 = r /\ (r + 1) % 2 = 1
  BY <1>3, TagWord
<1> HIDE DEF x, r
<1>8. /\ m2 \in [Addr -> Nat \cup {DATA}]
      /\ m2[v + 4] = nb + b /\ m2[x + 4] = r + 1
      /\ \A w \in Addr : w # v + 4 /\ w # x + 4 => m2[w] = m[w]
  <2>1. x + 4 # v + 4
    BY <1>2, <1>3
  <2> QED BY <1>2, <1>4, <1>6, <1>7, <2>1 DEF IsHeap
<1>9. /\ m2[v + 4] \in Nat /\ chunksize(m2, v) = nb /\ (prev_inuse(m2, v) <=> b = 1)
      /\ m2[x + 4] \in Nat /\ chunksize(m2, x) = r /\ prev_inuse(m2, x)
  BY <1>7, <1>8 DEF chunksize, prev_inuse
<1>10. \A p \in A \ {v} : m2[p + 4] = m[p + 4]
  BY <1>2, <1>3, <1>8
<1>11. \A w \in Addr : w % 8 = 0 => m2[w] = m[w]
  BY <1>2, <1>3, <1>8 DEF Addr
<1>12. Tiling(z, Len(tp))
  <2>1. DOMAIN sz = A /\ DOMAIN z = A \cup {x} /\ sz[v] = s
    BY DEF SizesOf, s
  <2>2. z[v] = nb /\ z[x] = r /\ \A p \in A : p # v => z[p] = sz[p]
    BY <1>9, <1>10 DEF SizesOf, chunksize
  <2>3. Tiling(sz, Len(tp)) /\ Len(tp) \in Nat
    BY DEF Layout, Tiles, IsHeap
  <2>4. v \in DOMAIN sz /\ sz[v] - nb >= 16 /\ r = sz[v] - nb /\ x = v + nb
    BY <1>3, <2>1 DEF r, x
  <2> HIDE DEF sz, z
  <2>5. IsSplit(z, sz, v, nb)
    BY <2>1, <2>2, <2>4 DEF IsSplit
  <2> QED BY <2>3, <2>5, Splits
<1> QED
  BY <1>3, <1>4, <1>5, <1>9, <1>8, <1>10, <1>11, <1>12 DEF SplitHeads, x, r, s

\* A free chunk is split: nb bytes are handed out, the rest is the free chunk
\* x.
CarvedOff(m, m2, F, U, tp, v, nb, x) ==
  /\ IsHeap(m2, tp) /\ Layout(m2, (F \ {v}) \cup {x}, U \cup {v}, tp)
  /\ SameSizes(m, m2, Tiles(F, U, tp) \ {v}) /\ chunksize(m2, v) = nb
  /\ x \in Chunk /\ x \notin Tiles(F, U, tp) /\ UnitOf(x) = UnitOf(v)

\* A free chunk is split, and its first half is in use (CarvedMem).
LEMMA CarvesFree ==
  ASSUME NEW m, NEW F, NEW U, NEW tp, IsHeap(m, tp), Layout(m, F, U, tp),
         NEW v \in F, NEW nb \in Nat, nb % 8 = 0, nb >= 16,
         chunksize(m, v) - nb >= 16,
         NEW m2, m2 = CarvedMem(m, v, chunksize(m, v), nb)
  PROVE  CarvedOff(m, m2, F, U, tp, v, nb, v + nb)
<1> DEFINE A == Tiles(F, U, tp)
           x == v + nb
           s == chunksize(m, v)
           r == s - nb
           h == set_head(set_head(m, v, nb, 1), x, r, 1)
           F2 == (F \ {v}) \cup {x}
<1>1. \A p \in A : ChunkAt(m, F, U, tp, p)
  BY ChunkFacts
<1>2. /\ v \in A /\ v \in Nat /\ v % 8 = 0 /\ s \in Nat /\ s % 8 = 0 /\ v + s \in U
      /\ v + s \in Addr /\ v \notin U /\ v + s # UnitEnd(UnitOf(v + s))
      /\ \A q \in A : q \in Nat /\ q % 8 = 0 /\ (q + chunksize(m, q) = v + s => q = v)
  BY <1>1 DEF ChunkAt, Tiles, Layout
<1>3. SplitHeads(m, h, A, v, nb, 1) /\ Tiling(SizesOf(h, A \cup {x}), Len(tp))
  <2>1. h = SplitMem(m, v, nb, 1)
    BY DEF SplitMem
  <2> HIDE DEF h
  <2> QED BY <1>2, <2>1, Halves
<1>4. /\ h \in [Addr -> Nat \cup {DATA}]
      /\ x \in Nat /\ x % 8 = 0 /\ x \in Chunk /\ x \notin A /\ UnitOf(x) = UnitOf(v)
      /\ r \in Nat /\ x + r = v + s
      /\ h[v + 4] \in Nat /\ chunksize(h, v) = nb /\ prev_inuse(h, v)
      /\ x + 4 \in Addr /\ h[x + 4] \in Nat /\ chunksize(h, x) = r /\ prev_inuse(h, x)
      /\ \A p \in A \ {v} : h[p + 4] = m[p + 4]
      /\ \A w \in Addr : w % 8 = 0 => h[w] = m[w]
  BY <1>3 DEF SplitHeads
<1>5. m2 = [h EXCEPT ![v + s] = r]
  <2>1. ~DeadWord(v + s)
    BY <1>2, DeadIsEnd
  <2>2. m2 = set_foot(h, x, r)
    BY <1>2 DEF CarvedMem, MINSIZE
  <2>3. x + r = v + s
    BY <1>4
  <2> QED BY <2>1, <2>2, <2>3 DEF set_foot
<1> HIDE DEF h, x, s, r
<1>6. /\ m2 \in [Addr -> Nat \cup {DATA}]
      /\ m2[v + s] = r
      /\ \A w \in Addr : w # v + s => m2[w] = h[w]
  BY <1>2, <1>4, <1>5
<1>7. ASSUME NEW p \in A \cup {x} PROVE m2[p + 4] = h[p + 4]
  <2>1. p + 4 \in Addr /\ p \in Nat /\ p % 8 = 0
    BY <1>1, <1>4 DEF ChunkAt
  <2> QED BY <1>2, <1>6, <2>1
<1>8. /\ m2[v + 4] \in Nat /\ chunksize(m2, v) = nb /\ prev_inuse(m2, v)
      /\ m2[x + 4] \in Nat /\ chunksize(m2, x) = r /\ prev_inuse(m2, x)
      /\ \A p \in A \ {v} : /\ m2[p + 4] = m[p + 4] /\ m[p + 4] \in Nat
                            /\ chunksize(m2, p) = chunksize(m, p)
                            /\ prev_inuse(m2, p) <=> prev_inuse(m, p)
  <2>1. \A p \in A : m[p + 4] \in Nat
    BY <1>1 DEF ChunkAt
  <2>2. m2[v + 4] = h[v + 4] /\ m2[x + 4] = h[x + 4] /\ \A p \in A \ {v} : m2[p + 4] = m[p + 4]
    BY <1>2, <1>4, <1>7
  <2> QED BY <1>4, <2>1, <2>2 DEF chunksize, prev_inuse
<1>9. SizesOf(m2, A \cup {x}) = SizesOf(h, A \cup {x})
  BY <1>7 DEF SizesOf, chunksize
<1>10. ASSUME NEW p \in A \cup {x}
       PROVE  prev_inuse(m2, p) <=> \A q \in F2 : next_chunk(m2, q) # p
  <2>1. \A q \in F \ {v} : q \in A \ {v} /\ next_chunk(m2, q) = q + chunksize(m, q)
    BY <1>8 DEF Tiles, next_chunk
  <2>2. next_chunk(m2, x) = v + s
    BY <1>4, <1>8 DEF next_chunk
  <2>3. \A q \in F : q + chunksize(m, q) \in U /\ q + chunksize(m, q) \in A
    BY <1>1 DEF ChunkAt, Tiles
  <2>4. CASE p = x
    BY <1>2, <1>4, <1>8, <2>1, <2>2, <2>3, <2>4 DEF Tiles
  <2>5. CASE p = v
    BY <1>2, <1>4, <1>8, <2>1, <2>2, <2>3, <2>5 DEF Tiles
  <2>6. CASE p \in A /\ p # v
    <3>1. prev_inuse(m, p) <=> \A q \in F : q + chunksize(m, q) # p
      BY <1>1, <2>6 DEF ChunkAt
    <3>2. (\A q \in F : q + chunksize(m, q) # p)
            <=> (\A q \in F \ {v} : q + chunksize(m, q) # p) /\ v + s # p
      BY DEF s
    <3> QED BY <1>8, <2>1, <2>2, <2>6, <3>1, <3>2
  <2> QED BY <2>4, <2>5, <2>6
<1>11. ASSUME NEW p \in F2 PROVE m2[next_chunk(m2, p)] = chunksize(m2, p)
  <2>1. CASE p = x
    BY <1>4, <1>6, <1>8, <2>1 DEF next_chunk
  <2>2. CASE p \in F \ {v}
    <3>1. /\ p \in A \ {v} /\ p + chunksize(m, p) \in Addr /\ (p + chunksize(m, p)) % 8 = 0
          /\ m[p + chunksize(m, p)] = chunksize(m, p)
      BY <1>1, <2>2 DEF ChunkAt, Tiles
    <3>2. p + chunksize(m, p) # v + s
      BY <1>2, <3>1
    <3> QED BY <1>4, <1>6, <1>8, <3>1, <3>2 DEF next_chunk
  <2> QED BY <2>1, <2>2
<1>12. Tagged(m2, F2, A \cup {x})
  BY <1>8, <1>10, <1>11 DEF Tagged
<1>13. Tiles(F2, U \cup {v}, tp) = A \cup {x}
  BY DEF Tiles
<1>14. /\ \A p \in F2 : next_chunk(m2, p) \in U \cup {v}
       /\ F2 \cap (U \cup {v}) = {}
  <2>1. \A p \in F \ {v} : p \in A \ {v} /\ p + chunksize(m, p) \in U /\ p \notin U
    BY <1>1 DEF ChunkAt, Tiles, Layout
  <2>2. x \notin U /\ x # v /\ x + r \in U
    BY <1>2, <1>4 DEF Tiles
  <2> QED BY <1>8, <2>1, <2>2 DEF next_chunk
<1>15. \A p \in U \cup {v} : next_chunk(m2, p) # UnitEnd(UnitOf(p))
  <2>1. ASSUME NEW p \in U PROVE next_chunk(m2, p) # UnitEnd(UnitOf(p))
    BY <1>1, <1>2, <1>8 DEF ChunkAt, Tiles, next_chunk
  <2>2. v + nb # UnitEnd(UnitOf(v))
    <3>1. v + s <= UnitEnd(UnitOf(v)) /\ UnitEnd(UnitOf(v)) \in Int
      BY <1>1, <1>2, UnitSize DEF ChunkAt, UnitEnd, s
    <3> QED BY <1>2, <3>1 DEF s
  <2> QED BY <1>8, <2>1, <2>2 DEF next_chunk
<1>16. \A u \in 1..Len(tp) : UnitOf(tp[u]) = u /\ next_chunk(m2, tp[u]) = UnitEnd(u)
  <2>1. ASSUME NEW u \in 1..Len(tp) PROVE tp[u] \in A /\ tp[u] # v
    <3>1. tp[u] \in A
      BY DEF IsHeap, ToSet, Tiles
    <3>2. UnitOf(tp[u]) = u
      BY DEF Layout
    <3> QED BY <1>1, <1>2, <3>1, <3>2 DEF ChunkAt
  <2>2. \A u \in 1..Len(tp) : UnitOf(tp[u]) = u /\ tp[u] + chunksize(m, tp[u]) = UnitEnd(u)
    BY DEF Layout, next_chunk
  <2> QED BY <1>8, <2>1, <2>2 DEF next_chunk
<1>17. Layout(m2, F2, U \cup {v}, tp)
  BY <1>3, <1>9, <1>12, <1>13, <1>14, <1>15, <1>16 DEF Layout, Tiles
<1> QED
  BY <1>4, <1>6, <1>8, <1>17 DEF IsHeap, SameSizes, x, CarvedOff

\* A chunk that is not free is split: the tags tell the same free chunks.
Halved(m, m2, F, U, tp, v, nb) ==
  LET A == Tiles(F, U, tp)
      x == v + nb
  IN  /\ IsHeap(m2, tp)
      /\ Tagged(m2, F, A \cup {x})
      /\ Tiling(SizesOf(m2, A \cup {x}), Len(tp))
      /\ SameSizes(m, m2, A \ {v})
      /\ chunksize(m2, v) = nb /\ chunksize(m2, x) = chunksize(m, v) - nb
      /\ x \in Chunk /\ x \notin A /\ UnitOf(x) = UnitOf(v)

\* The tags of a chunk in use, or of a top, that is split.
LEMMA HalvesTagged ==
  ASSUME NEW m, NEW F, NEW U, NEW tp, IsHeap(m, tp), Layout(m, F, U, tp),
         NEW v \in U \cup ToSet(tp), NEW nb \in Nat, nb % 8 = 0, nb >= 16,
         chunksize(m, v) - nb >= 16, NEW b \in {0, 1}, b = 1 <=> prev_inuse(m, v),
         NEW m2, m2 = SplitMem(m, v, nb, b)
  PROVE  Halved(m, m2, F, U, tp, v, nb)
<1> DEFINE A == Tiles(F, U, tp)
           x == v + nb
<1>1. \A p \in A : ChunkAt(m, F, U, tp, p)
  BY ChunkFacts
<1>2. v \in A /\ v \notin F
  <2>1. v \in A
    BY DEF Tiles
  <2>2. v \in ToSet(tp) => v \notin F
    BY <1>1, <2>1 DEF ChunkAt
  <2> QED BY <2>1, <2>2 DEF Layout
<1>3. SplitHeads(m, m2, A, v, nb, b) /\ Tiling(SizesOf(m2, A \cup {x}), Len(tp))
  BY <1>2, Halves
<1>4. /\ m2 \in [Addr -> Nat \cup {DATA}]
      /\ x \in Nat /\ x % 8 = 0 /\ x \in Chunk /\ x \notin A /\ UnitOf(x) = UnitOf(v)
      /\ m2[v + 4] \in Nat /\ chunksize(m2, v) = nb /\ (prev_inuse(m2, v) <=> prev_inuse(m, v))
      /\ m2[x + 4] \in Nat /\ chunksize(m2, x) = chunksize(m, v) - nb /\ prev_inuse(m2, x)
      /\ \A p \in A \ {v} : m2[p + 4] = m[p + 4]
      /\ \A w \in Addr : w % 8 = 0 => m2[w] = m[w]
  BY <1>3 DEF SplitHeads
<1> HIDE DEF x
<1>5. \A p \in A \ {v} : /\ m2[p + 4] \in Nat
                         /\ chunksize(m2, p) = chunksize(m, p)
                         /\ prev_inuse(m2, p) <=> prev_inuse(m, p)
  <2>1. \A p \in A : m[p + 4] \in Nat
    BY <1>1 DEF ChunkAt
  <2> QED BY <1>4, <2>1 DEF chunksize, prev_inuse
<1>6. ASSUME NEW q \in F
      PROVE  /\ q \in A \ {v} /\ next_chunk(m2, q) = q + chunksize(m, q)
             /\ q + chunksize(m, q) \in A /\ q + chunksize(m, q) \in Addr
             /\ (q + chunksize(m, q)) % 8 = 0
             /\ m[q + chunksize(m, q)] = chunksize(m, q)
  <2>1. q \in A \ {v} /\ ChunkAt(m, F, U, tp, q)
    BY <1>1, <1>2 DEF Tiles
  <2>2. next_chunk(m2, q) = q + chunksize(m, q)
    BY <1>5, <2>1 DEF next_chunk
  <2>3. /\ q \in Nat /\ q % 8 = 0 /\ chunksize(m, q) \in Nat /\ chunksize(m, q) % 8 = 0
        /\ q + chunksize(m, q) \in A /\ q + chunksize(m, q) \in Addr
        /\ m[q + chunksize(m, q)] = chunksize(m, q)
    BY <2>1 DEF ChunkAt
  <2> QED BY <2>1, <2>2, <2>3
<1>7. ASSUME NEW p \in A \cup {x}
      PROVE  prev_inuse(m2, p) <=> \A q \in F : next_chunk(m2, q) # p
  <2>1. CASE p = x
    BY <1>4, <1>6, <2>1
  <2>2. CASE p \in A
    <3>1. prev_inuse(m2, p) <=> prev_inuse(m, p)
      BY <1>4, <1>5, <2>2
    <3>2. prev_inuse(m, p) <=> \A q \in F : q + chunksize(m, q) # p
      BY <1>1, <2>2 DEF ChunkAt
    <3> QED BY <1>6, <3>1, <3>2
  <2> QED BY <2>1, <2>2
<1>8. \A q \in F : m2[next_chunk(m2, q)] = chunksize(m2, q)
  BY <1>4, <1>5, <1>6
<1>9. Tagged(m2, F, A \cup {x})
  BY <1>4, <1>5, <1>7, <1>8 DEF Tagged
<1> QED
  BY <1>3, <1>4, <1>5, <1>9 DEF IsHeap, SameSizes, x, Halved

\* The top of unit u is somewhere else.
MoveTop(tp, u, x) == [tp EXCEPT ![u] = x]
OneTop(tp, u) == \A w \in 1..Len(tp) : tp[w] = tp[u] => w = u
TopMoved(tp, tp2, u, x) ==
  /\ Len(tp2) = Len(tp)
  /\ tp2[u] = x /\ \A w \in 1..Len(tp) : w # u => tp2[w] = tp[w]
  /\ ToSet(tp2) = (ToSet(tp) \ {tp[u]}) \cup {x}

\* The top of one unit moves and those of the others stay.
LEMMA TopMoves ==
  ASSUME NEW m, NEW tp, IsHeap(m, tp), NEW u \in 1..Len(tp), NEW x \in Chunk, OneTop(tp, u)
  PROVE  IsHeap(m, MoveTop(tp, u, x)) /\ TopMoved(tp, MoveTop(tp, u, x), u, x)
<1> USE DEF MoveTop, OneTop
<1> DEFINE tp2 == MoveTop(tp, u, x)
<1>1. tp \in Seq(Chunk) /\ Len(tp) \in Nat /\ DOMAIN tp = 1..Len(tp)
  BY DEF IsHeap
<1>2. tp2 \in Seq(Chunk) /\ Len(tp2) = Len(tp) /\ DOMAIN tp2 = 1..Len(tp)
  BY <1>1
<1>3. tp2[u] = x /\ \A w \in 1..Len(tp) : w # u => tp2[w] = tp[w]
  BY <1>1
<1>4. ToSet(tp2) = (ToSet(tp) \ {tp[u]}) \cup {x}
  BY <1>1, <1>2, <1>3 DEF ToSet
<1> QED BY <1>2, <1>3, <1>4 DEF IsHeap, TopMoved

\* The tops are different chunks.
LEMMA TopsDiffer ==
  ASSUME NEW m, NEW F, NEW U, NEW tp, IsHeap(m, tp), Layout(m, F, U, tp), NEW u \in 1..Len(tp)
  PROVE  /\ tp[u] \in ToSet(tp) /\ tp[u] \in Tiles(F, U, tp)
         /\ UnitOf(tp[u]) = u /\ tp[u] + chunksize(m, tp[u]) = UnitEnd(u)
         /\ \A w \in 1..Len(tp) : tp[w] = tp[u] => w = u
<1>1. tp[u] \in ToSet(tp)
  BY DEF IsHeap, ToSet
<1>2. \A w \in 1..Len(tp) : UnitOf(tp[w]) = w /\ tp[w] + chunksize(m, tp[w]) = UnitEnd(w)
  BY DEF Layout, next_chunk
<1> QED BY <1>1, <1>2 DEF Tiles

\* nb bytes of a top are handed out.
TopCarved(m, m2, F, U, tp2, v, nb) ==
  /\ IsHeap(m2, tp2) /\ Layout(m2, F, U \cup {v}, tp2)
  /\ SameSizes(m, m2, F \cup U) /\ chunksize(m2, v) = nb

\* use_unit_top takes nb bytes of a top and leaves MINSIZE or more.
LEMMA CarvesTop ==
  ASSUME NEW m, NEW F, NEW U, NEW tp, IsHeap(m, tp), Layout(m, F, U, tp),
         NEW u \in 1..Len(tp), NEW nb \in Nat, nb % 8 = 0, nb >= 16,
         chunksize(m, tp[u]) - nb >= 16,
         NEW m2, m2 = set_head(set_head(m, tp[u], nb, 1), tp[u] + nb, chunksize(m, tp[u]) - nb, 1),
         NEW tp2, tp2 = [tp EXCEPT ![u] = tp[u] + nb]
  PROVE  TopCarved(m, m2, F, U, tp2, tp[u], nb) /\ Len(tp2) = Len(tp)
<1> DEFINE A == Tiles(F, U, tp)
           v == tp[u]
           x == v + nb
           U2 == U \cup {v}
<1>1. /\ v \in ToSet(tp) /\ v \in A /\ UnitOf(v) = u /\ v + chunksize(m, v) = UnitEnd(u)
      /\ \A w \in 1..Len(tp) : tp[w] = v => w = u
  BY TopsDiffer
<1>2. ChunkAt(m, F, U, tp, v)
  BY <1>1, ChunkFacts
<1>3. prev_inuse(m, v) /\ v \notin F \cup U
  <2>1. v \notin F \cup U
    BY <1>1, <1>2 DEF ChunkAt
  <2>2. \A q \in F : q + chunksize(m, q) \in U
    BY DEF Layout, next_chunk
  <2> QED BY <1>2, <2>1, <2>2 DEF ChunkAt
<1> HIDE DEF v
<1>4. /\ IsHeap(m2, tp)
      /\ Tagged(m2, F, A \cup {x})
      /\ Tiling(SizesOf(m2, A \cup {x}), Len(tp))
      /\ SameSizes(m, m2, A \ {v})
      /\ chunksize(m2, v) = nb /\ chunksize(m2, x) = chunksize(m, v) - nb
      /\ x \in Chunk /\ x \notin A /\ UnitOf(x) = UnitOf(v)
  <2>1. m2 = SplitMem(m, v, nb, 1) /\ v \in U \cup ToSet(tp) /\ chunksize(m, v) - nb >= 16
    BY <1>1 DEF SplitMem, v
  <2>2. Halved(m, m2, F, U, tp, v, nb)
    BY <1>3, <2>1, HalvesTagged
  <2> QED BY <2>2 DEF Halved
<1>5. /\ IsHeap(m2, tp2) /\ Len(tp2) = Len(tp)
      /\ tp2[u] = x /\ \A w \in 1..Len(tp) : w # u => tp2[w] = tp[w]
      /\ ToSet(tp2) = (ToSet(tp) \ {v}) \cup {x}
  <2>1. tp2 = MoveTop(tp, u, x) /\ v = tp[u] /\ OneTop(tp, u)
    BY <1>1 DEF v, MoveTop, OneTop
  <2> HIDE DEF x
  <2>2. x \in Chunk /\ IsHeap(m2, tp)
    BY <1>4
  <2>3. IsHeap(m2, tp2) /\ TopMoved(tp, tp2, u, x)
    BY ONLY <2>1, <2>2, u \in 1..Len(tp), TopMoves
  <2> QED BY <2>1, <2>3 DEF TopMoved
<1>6. Tiles(F, U2, tp2) = A \cup {x}
  BY <1>1, <1>5 DEF Tiles
<1>7. \A p \in F \cup U : p \in A \ {v} /\ next_chunk(m2, p) = p + chunksize(m, p)
  BY <1>3, <1>4 DEF Tiles, SameSizes, next_chunk
<1>8. /\ F \cap U2 = {}
      /\ \A p \in F : next_chunk(m2, p) \in U2
      /\ \A p \in U : next_chunk(m2, p) # UnitEnd(UnitOf(p))
  BY <1>3, <1>7 DEF Layout, next_chunk
<1>9. next_chunk(m2, v) # UnitEnd(UnitOf(v)) /\ next_chunk(m2, x) = UnitEnd(u)
  <2>1. v \in Nat /\ chunksize(m, v) \in Nat
    BY <1>2 DEF ChunkAt
  <2>2. chunksize(m, v) - nb >= 16
    BY DEF v
  <2>3. next_chunk(m2, v) = v + nb /\ next_chunk(m2, x) = x + (chunksize(m, v) - nb)
    BY <1>4 DEF next_chunk
  <2>4. UnitEnd(u) = v + chunksize(m, v) /\ UnitOf(v) = u
    BY <1>1
  <2> QED BY <2>1, <2>2, <2>3, <2>4
<1>10. \A w \in 1..Len(tp2) : UnitOf(tp2[w]) = w /\ next_chunk(m2, tp2[w]) = UnitEnd(w)
  <2>1. ASSUME NEW w \in 1..Len(tp), w # u
        PROVE  UnitOf(tp[w]) = w /\ next_chunk(m2, tp[w]) = UnitEnd(w)
    <3>1. tp[w] \in A /\ tp[w] # v
      BY <1>1, <2>1, TopsDiffer DEF v
    <3>2. UnitOf(tp[w]) = w /\ tp[w] + chunksize(m, tp[w]) = UnitEnd(w)
      BY TopsDiffer
    <3> QED BY <1>4, <3>1, <3>2 DEF SameSizes, next_chunk
  <2> QED BY <1>1, <1>4, <1>5, <1>9, <2>1
<1>11. Layout(m2, F, U2, tp2)
  BY <1>4, <1>5, <1>6, <1>8, <1>9, <1>10 DEF Layout, Tiles
<1> QED
  BY <1>4, <1>5, <1>7, <1>11 DEF SameSizes, v, TopCarved

\* A chunk in use is split into two.
UsedSplit(m, m2, F, U, tp, v, nb, x) ==
  /\ IsHeap(m2, tp) /\ Layout(m2, F, U \cup {x}, tp)
  /\ SameSizes(m, m2, Tiles(F, U, tp) \ {v})
  /\ chunksize(m2, v) = nb /\ chunksize(m2, x) = chunksize(m, v) - nb
  /\ x \in Chunk /\ x \notin Tiles(F, U, tp) /\ UnitOf(x) = UnitOf(v)

\* realloc splits a chunk in use; both halves are in use until the second is
\* freed.
LEMMA SplitsUsed ==
  ASSUME NEW m, NEW F, NEW U, NEW tp, IsHeap(m, tp), Layout(m, F, U, tp),
         NEW v \in U, NEW nb \in Nat, nb % 8 = 0, nb >= 16, chunksize(m, v) - nb >= 16,
         NEW m2, m2 = set_head(set_head_size(m, v, nb), v + nb, chunksize(m, v) - nb, 1)
  PROVE  UsedSplit(m, m2, F, U, tp, v, nb, v + nb)
<1> DEFINE A == Tiles(F, U, tp)
           x == v + nb
           b == m[v + 4] % 2
<1>1. v \in A /\ ChunkAt(m, F, U, tp, v)
  BY ChunkFacts DEF Tiles
<1>2. b \in {0, 1} /\ (b = 1 <=> prev_inuse(m, v))
  <2>1. m[v + 4] \in Nat
    BY <1>1 DEF ChunkAt
  <2> QED BY <2>1 DEF prev_inuse
<1> HIDE DEF b
<1>3. m2 = SplitMem(m, v, nb, b)
  BY DEF set_head_size, b, SplitMem
<1>4. /\ IsHeap(m2, tp)
      /\ Tagged(m2, F, A \cup {x})
      /\ Tiling(SizesOf(m2, A \cup {x}), Len(tp))
      /\ SameSizes(m, m2, A \ {v})
      /\ chunksize(m2, v) = nb /\ chunksize(m2, x) = chunksize(m, v) - nb
      /\ x \in Chunk /\ x \notin A /\ UnitOf(x) = UnitOf(v)
  <2>1. Halved(m, m2, F, U, tp, v, nb)
    BY <1>2, <1>3, HalvesTagged
  <2> QED BY <2>1 DEF Halved
<1>5. Tiles(F, U \cup {x}, tp) = A \cup {x}
  BY DEF Tiles
<1>6. /\ F \cap (U \cup {x}) = {}
      /\ \A p \in F : next_chunk(m2, p) \in U
  <2>1. \A p \in F : p \in A \ {v}
    BY DEF Layout, Tiles
  <2> QED BY <1>4, <2>1 DEF Layout, SameSizes, next_chunk, Tiles
<1>7. \A p \in U \cup {x} : next_chunk(m2, p) # UnitEnd(UnitOf(p))
  <2>1. /\ v \in Nat /\ chunksize(m, v) \in Nat /\ UnitEnd(UnitOf(v)) \in Int
        /\ v + chunksize(m, v) <= UnitEnd(UnitOf(v)) /\ v + chunksize(m, v) # UnitEnd(UnitOf(v))
    BY <1>1, UnitSize DEF ChunkAt, UnitEnd
  <2>2. next_chunk(m2, v) # UnitEnd(UnitOf(v)) /\ next_chunk(m2, x) # UnitEnd(UnitOf(x))
    BY <1>4, <2>1 DEF next_chunk
  <2> QED BY <1>4, <2>2 DEF Layout, SameSizes, next_chunk, Tiles
<1>8. \A w \in 1..Len(tp) : UnitOf(tp[w]) = w /\ next_chunk(m2, tp[w]) = UnitEnd(w)
  <2>1. ASSUME NEW w \in 1..Len(tp) PROVE tp[w] \in A \ {v}
    <3>1. tp[w] \in A /\ UnitOf(tp[w]) = w
      BY TopsDiffer
    <3> QED BY <1>1, <3>1 DEF ChunkAt
  <2> QED BY <1>4, <2>1, TopsDiffer DEF SameSizes, next_chunk
<1>9. Layout(m2, F, U \cup {x}, tp)
  BY <1>4, <1>5, <1>6, <1>7, <1>8 DEF Layout, Tiles
<1> QED BY <1>4, <1>9 DEF UsedSplit

\* A new unit at the end of the heap.
LEMMA NewUnit ==
  ASSUME NEW m, NEW F, NEW U, NEW tp, IsHeap(m, tp), Layout(m, F, U, tp),
         Len(tp) + 1 <= MaxUnits,
         NEW m2, m2 = UnitMem(m, Base(Len(tp) + 1))
  PROVE  /\ IsHeap(m2, Append(tp, Base(Len(tp) + 1)))
         /\ Layout(m2, F, U, Append(tp, Base(Len(tp) + 1)))
         /\ SameSizes(m, m2, Tiles(F, U, tp))
         /\ chunksize(m2, Base(Len(tp) + 1)) = UNIT_SIZE - 16
<1> DEFINE A == Tiles(F, U, tp)
           n == Len(tp)
           b == Base(n + 1)
           s == UNIT_SIZE - 16
           sz == SizesOf(m, A)
           z == SizesOf(m2, A \cup {b})
           tp2 == Append(tp, b)
<1>1. \A p \in A : ChunkAt(m, F, U, tp, p)
  BY ChunkFacts
<1>2. n \in Nat /\ n + 1 \in 1..MaxUnits /\ tp \in Seq(Chunk) /\ DOMAIN tp = 1..n
  BY UnitSize DEF IsHeap
<1>3. Tiling(sz, n) /\ DOMAIN sz = A /\ \A p \in A : sz[p] = chunksize(m, p)
  BY DEF Layout, SizesOf, Tiles
<1>4. b \in Nat /\ b % 8 = 0 /\ UnitOf(b) = n + 1 /\ s \in Nat /\ s % 8 = 0 /\ s >= 32
  <2>1. n + 1 \in Nat \ {0} /\ b \in Nat /\ b % 8 = 0
    BY <1>2, BaseOf
  <2>2. b <= b /\ b < b + UNIT_SIZE
    BY <2>1, UnitSize
  <2>3. UnitOf(b) = n + 1
    BY <2>1, <2>2, UnitIs
  <2>4. s \in Nat /\ s % 8 = 0 /\ s >= 32
    BY UnitSize
  <2> QED BY <2>1, <2>3, <2>4
<1>5. b \in Chunk /\ b + 4 \in Addr /\ b + s + 4 \in Addr /\ b + s + 8 \in Addr
  <2>1. /\ b + 4 \in Nat /\ b + s + 4 \in Nat /\ b + s + 8 \in Nat
        /\ (b + 4) % 4 = 0 /\ (b + s + 4) % 4 = 0 /\ (b + s + 8) % 4 = 0
        /\ b < b + UNIT_SIZE /\ b + 4 < b + UNIT_SIZE
        /\ b + s + 4 < b + UNIT_SIZE /\ b + s + 8 < b + UNIT_SIZE
    <3> HIDE DEF b
    <3> QED BY <1>4, UnitSize
  <2> QED BY <1>2, <1>4, <2>1, InHeap
<1>6. ASSUME NEW p \in A PROVE p \in Nat /\ p + 4 < b /\ p + chunksize(m, p) < b
                               /\ p + 4 \in Addr /\ p + chunksize(m, p) \in Addr
  <2>1. ChunkAt(m, F, U, tp, p)
    BY <1>1
  <2>2. /\ p \in Nat /\ chunksize(m, p) \in Nat /\ chunksize(m, p) >= 16
        /\ p + chunksize(m, p) <= Base(UnitOf(p)) + UNIT_SIZE - 16
        /\ Base(UnitOf(p)) \in Nat /\ UnitOf(p) \in 1..n
        /\ p + 4 \in Addr /\ p + chunksize(m, p) \in Addr
    BY <2>1 DEF ChunkAt
  <2>3. Base(UnitOf(p)) + UNIT_SIZE <= b
    BY <1>2, <2>2, BaseStep
  <2> QED BY <1>4, <2>2, <2>3, UnitSize
<1>7. m2 = [m EXCEPT ![b + 4] = s + 1, ![b + s + 4] = 4 + 1, ![b + s + 8] = 4 + 1]
  BY DEF UnitMem
<1> HIDE DEF b, s
<1>8. /\ m2 \in [Addr -> Nat \cup {DATA}]
      /\ m2[b + 4] = s + 1
      /\ \A w \in Addr : w \in Nat /\ w < b => m2[w] = m[w]
  <2>1. /\ b + 4 # b + s + 4 /\ b + 4 # b + s + 8 /\ ~(b + 4 < b)
        /\ ~(b + s + 4 < b) /\ ~(b + s + 8 < b) /\ s + 1 \in Nat
    BY <1>4
  <2> QED BY <1>5, <1>7, <2>1 DEF IsHeap
<1>9. m2[b + 4] \in Nat /\ chunksize(m2, b) = s /\ prev_inuse(m2, b)
  <2>1. s + 1 \in Nat /\ ((s + 1) \div 4) * 4 = s /\ (s + 1) % 2 = 1
    BY <1>4, TagWord
  <2> QED BY <1>8, <2>1 DEF chunksize, prev_inuse
<1>10. \A p \in A : m2[p + 4] = m[p + 4] /\ m2[p + chunksize(m, p)] = m[p + chunksize(m, p)]
  <2>1. \A p \in A : p + 4 \in Nat /\ p + chunksize(m, p) \in Nat
    BY <1>1 DEF ChunkAt
  <2> QED BY <1>6, <1>8, <2>1
<1>11. \A p \in A : /\ m2[p + 4] \in Nat /\ chunksize(m2, p) = chunksize(m, p)
                    /\ prev_inuse(m2, p) <=> prev_inuse(m, p)
                    /\ next_chunk(m2, p) = p + chunksize(m, p)
  <2>1. \A p \in A : m[p + 4] \in Nat
    BY <1>1 DEF ChunkAt
  <2> QED BY <1>10, <2>1 DEF chunksize, prev_inuse, next_chunk
<1>12. Tiling(z, n + 1)
  <2>1. DOMAIN z = A \cup {b} /\ z[b] = s /\ \A p \in A : z[p] = chunksize(m, p)
    <3>1. b \notin A
      BY <1>4, <1>6
    <3> QED BY <1>9, <1>11, <3>1 DEF SizesOf
  <2> HIDE DEF z, sz
  <2>2. IsGrowth(z, sz, n)
    BY <1>3, <2>1 DEF IsGrowth, b, s
  <2> QED BY <1>2, <1>3, <2>2, Grows
<1>13. /\ tp2 \in Seq(Chunk) /\ Len(tp2) = n + 1 /\ tp2[n + 1] = b
       /\ \A w \in 1..n : tp2[w] = tp[w]
  BY <1>2, <1>5
<1>14. ToSet(tp2) = ToSet(tp) \cup {b}
  <2>1. DOMAIN tp2 = 1..(n + 1)
    BY <1>2, <1>13
  <2> QED BY <1>2, <1>13, <2>1 DEF ToSet
<1>15. Tiles(F, U, tp2) = A \cup {b}
  BY <1>14 DEF Tiles
<1>16. ASSUME NEW p \in A \cup {b}
       PROVE  prev_inuse(m2, p) <=> \A q \in F : next_chunk(m2, q) # p
  <2>1. \A q \in F : q \in A /\ next_chunk(m2, q) = q + chunksize(m, q)
    BY <1>11 DEF Tiles
  <2>2. CASE p = b
    <3>1. \A q \in A : q + chunksize(m, q) # b
      BY <1>1, <1>4, <1>6 DEF ChunkAt
    <3> QED BY <1>9, <2>1, <2>2, <3>1
  <2>3. CASE p \in A
    <3>1. prev_inuse(m, p) <=> \A q \in F : q + chunksize(m, q) # p
      BY <1>1, <2>3 DEF ChunkAt
    <3> QED BY <1>11, <2>1, <2>3, <3>1
  <2> QED BY <2>2, <2>3
<1>17. \A q \in F : m2[next_chunk(m2, q)] = chunksize(m2, q)
  <2>1. \A q \in F : q \in A /\ m[q + chunksize(m, q)] = chunksize(m, q)
    BY <1>1 DEF ChunkAt, Tiles
  <2> QED BY <1>10, <1>11, <2>1
<1>18. Tagged(m2, F, A \cup {b})
  BY <1>9, <1>11, <1>16, <1>17 DEF Tagged
<1>19. /\ F \cap U = {}
       /\ \A p \in F : next_chunk(m2, p) \in U
       /\ \A p \in U : next_chunk(m2, p) # UnitEnd(UnitOf(p))
  <2>1. \A p \in F \cup U : p \in A
    BY DEF Tiles
  <2> QED BY <1>11, <2>1 DEF Layout, next_chunk
<1>20. ASSUME NEW w \in 1..(n + 1)
       PROVE  UnitOf(tp2[w]) = w /\ next_chunk(m2, tp2[w]) = UnitEnd(w)
  <2>1. CASE w = n + 1
    BY <1>4, <1>9, <1>13, <2>1, UnitSize DEF next_chunk, UnitEnd, b, s
  <2>2. CASE w \in 1..n
    BY <1>11, <1>13, <2>2, TopsDiffer
  <2> QED BY <1>2, <2>1, <2>2
<1>21. Layout(m2, F, U, tp2)
  <2>1. \A w \in 1..Len(tp2) : UnitOf(tp2[w]) = w /\ next_chunk(m2, tp2[w]) = UnitEnd(w)
    BY <1>13, <1>20
  <2>2. Tiling(SizesOf(m2, Tiles(F, U, tp2)), Len(tp2)) /\ Tagged(m2, F, Tiles(F, U, tp2))
    BY <1>12, <1>13, <1>15, <1>18
  <2> HIDE DEF tp2
  <2> QED BY <1>19, <2>1, <2>2 DEF Layout, Tiles
<1>22. IsHeap(m2, tp2)
  BY <1>2, <1>8, <1>13 DEF IsHeap
<1> QED
  BY <1>9, <1>11, <1>21, <1>22 DEF SameSizes, b, s

\* The tiling when the memory says that a chunk and the next are one.
LEMMA JoinTiling ==
  ASSUME NEW m, NEW m2, NEW A, NEW n \in Nat, Tiling(SizesOf(m, A), n),
         NEW v \in A, next_chunk(m, v) \in A,
         chunksize(m2, v) = chunksize(m, v) + chunksize(m, next_chunk(m, v)),
         SameSizes(m, m2, A \ {v, next_chunk(m, v)})
  PROVE  Tiling(SizesOf(m2, A \ {next_chunk(m, v)}), n)
<1> DEFINE sz == SizesOf(m, A)
           y == v + chunksize(m, v)
           z == SizesOf(m2, A \ {y})
<1>1. DOMAIN sz = A /\ \A p \in A : sz[p] = chunksize(m, p)
  BY DEF SizesOf
<1>2. y = next_chunk(m, v) /\ y = v + sz[v]
  BY <1>1 DEF next_chunk
<1>3. sz[v] \in Nat /\ sz[v] >= 16 /\ v \in Nat
  BY <1>1, Place
<1>4. v # y
  BY <1>2, <1>3
<1>5. DOMAIN z = A \ {y} /\ \A p \in A \ {y} : z[p] = chunksize(m2, p)
  BY DEF SizesOf
<1> HIDE DEF sz, z, y
<1>6. IsJoin(z, sz, v)
  BY <1>1, <1>2, <1>4, <1>5 DEF IsJoin, SameSizes
<1>7. Tiling(sz, n)
  BY DEF sz
<1>8. Tiling(z, n)
  BY <1>6, <1>7, Joins
<1> QED BY <1>2, <1>8 DEF z

\* A chunk in use takes in the one behind it.
JoinMem(m, v) ==
  LET both == chunksize(m, v) + chunksize(m, next_chunk(m, v))
  IN  set_inuse_bit_at_offset(set_head_size(m, v, both), v, both)

Joined(m, m2, F, U, tp, v, y) ==
  /\ IsHeap(m2, tp) /\ Layout(m2, F \ {y}, U \ {y}, tp)
  /\ SameSizes(m, m2, Tiles(F, U, tp) \ {v, y})
  /\ chunksize(m2, v) = chunksize(m, v) + chunksize(m, y)
  /\ v # y

\* realloc takes in the chunk behind, be it free or in use.
LEMMA JoinsUsed ==
  ASSUME NEW m, NEW F, NEW U, NEW tp, IsHeap(m, tp), Layout(m, F, U, tp),
         NEW v \in U, next_chunk(m, v) \in F \cup U,
         NEW m2, m2 = JoinMem(m, v)
  PROVE  Joined(m, m2, F, U, tp, v, next_chunk(m, v))
<1> DEFINE A == Tiles(F, U, tp)
           y == next_chunk(m, v)
           both == chunksize(m, v) + chunksize(m, y)
           e == v + both
           h == v + 4
           k == e + 4
           bit == m[h] % 2
<1>1. \A p \in A : ChunkAt(m, F, U, tp, p)
  BY ChunkFacts
<1>2. /\ v \in A /\ v \in Nat /\ v % 8 = 0 /\ chunksize(m, v) \in Nat
      /\ chunksize(m, v) % 8 = 0 /\ chunksize(m, v) >= 16
      /\ y = v + chunksize(m, v) /\ h \in Addr /\ m[h] \in Nat
      /\ \A q \in A : q + chunksize(m, q) = y => q = v
  <2>1. v \in A
    BY DEF Tiles
  <2> QED BY <1>1, <2>1 DEF ChunkAt, next_chunk
<1>3. /\ y \in A /\ y \in Nat /\ y % 8 = 0 /\ chunksize(m, y) \in Nat
      /\ chunksize(m, y) % 8 = 0 /\ chunksize(m, y) >= 16
      /\ y + chunksize(m, y) \in A /\ y + chunksize(m, y) # UnitEnd(UnitOf(y))
      /\ UnitOf(y) = UnitOf(v)
      /\ y \in F => y + chunksize(m, y) \in U
      /\ \A q \in A : q + chunksize(m, q) = y + chunksize(m, y) => q = y
  <2>1. y \in A
    BY DEF Tiles
  <2>2. UnitOf(y) = UnitOf(v)
    BY <1>1, <1>2 DEF ChunkAt
  <2> QED BY <1>1, <2>1, <2>2 DEF ChunkAt
<1> HIDE DEF y
<1>4. /\ both \in Nat /\ both % 8 = 0 /\ e = y + chunksize(m, y) /\ e \in A /\ e \in Nat /\ e % 8 = 0
      /\ y # v /\ e # y /\ e # v
  BY <1>2, <1>3
<1>5. k \in Addr /\ m[k] \in Nat
  BY <1>1, <1>4 DEF ChunkAt
<1> HIDE DEF both, e
<1>6. bit \in {0, 1} /\ both + bit \in Nat /\ ((both + bit) \div 4) * 4 = both
      /\ (both + bit) % 2 = bit
  BY <1>2, <1>4, TagWord
<1> DEFINE w == 2 * (m[k] \div 2) + 1
<1>7. w \in Nat /\ (w \div 4) * 4 = (m[k] \div 4) * 4 /\ w % 2 = 1
  BY <1>5, TagWord
<1>8. h # k
  BY <1>2, <1>4
<1>9. m2 = [[m EXCEPT ![h] = both + bit] EXCEPT ![k] = w]
  <2>1. m2 = set_inuse_bit_at_offset([m EXCEPT ![h] = both + bit], v, both)
    BY DEF JoinMem, set_head_size, set_head, both, y
  <2>2. [m EXCEPT ![h] = both + bit][k] = m[k]
    BY <1>5, <1>8 DEF IsHeap
  <2>3. v + both + 4 = k
    BY DEF e
  <2> QED BY <2>1, <2>2, <2>3 DEF set_inuse_bit_at_offset
<1> HIDE DEF w, bit, h, k
<1>10. /\ m2 \in [Addr -> Nat \cup {DATA}] /\ m2[h] = both + bit /\ m2[k] = w
       /\ \A a \in Addr : a # h /\ a # k => m2[a] = m[a]
  BY <1>2, <1>5, <1>6, <1>7, <1>8, <1>9 DEF IsHeap
<1>11. /\ m2[v + 4] \in Nat /\ chunksize(m2, v) = both
       /\ prev_inuse(m2, v) <=> prev_inuse(m, v)
  BY <1>6, <1>10 DEF chunksize, prev_inuse, h, bit
<1>12. m2[e + 4] \in Nat /\ chunksize(m2, e) = chunksize(m, e) /\ prev_inuse(m2, e)
  BY <1>7, <1>10 DEF chunksize, prev_inuse, k
<1>13. \A p \in A \ {v, e} : /\ m2[p + 4] \in Nat /\ chunksize(m2, p) = chunksize(m, p)
                             /\ prev_inuse(m2, p) <=> prev_inuse(m, p)
  <2>1. ASSUME NEW p \in A \ {v, e} PROVE m2[p + 4] = m[p + 4] /\ m[p + 4] \in Nat
    <3>1. p \in Nat /\ p + 4 \in Addr /\ m[p + 4] \in Nat
      BY <1>1 DEF ChunkAt
    <3>2. p + 4 # h /\ p + 4 # k
      BY <1>2, <1>4, <3>1 DEF h, k
    <3> QED BY <1>10, <3>1, <3>2
  <2> QED BY <2>1 DEF chunksize, prev_inuse
<1>14. SameSizes(m, m2, A \ {v, y}) /\ \A p \in A \ {v, y} : next_chunk(m2, p) = p + chunksize(m, p)
  BY <1>12, <1>13 DEF SameSizes, next_chunk
<1>15. Tiling(SizesOf(m2, A \ {y}), Len(tp))
  <2>1. Tiling(SizesOf(m, A), Len(tp)) /\ Len(tp) \in Nat
    BY DEF Layout, Tiles, IsHeap
  <2>2. chunksize(m2, v) = chunksize(m, v) + chunksize(m, y)
    BY <1>11 DEF both
  <2> HIDE DEF A
  <2>3. next_chunk(m, v) = y
    BY DEF y
  <2> QED BY <1>2, <1>3, <1>14, <2>1, <2>2, <2>3, JoinTiling
<1>16. Tiles(F \ {y}, U \ {y}, tp) = A \ {y}
  <2>1. y \notin ToSet(tp)
    <3>1. y \in F \cup U
      BY DEF y
    <3> QED BY <1>1, <1>3, <3>1 DEF ChunkAt
  <2> QED BY <2>1 DEF Tiles
<1>17. ASSUME NEW q \in F \ {y}
       PROVE  /\ q \in A \ {v, y} /\ next_chunk(m2, q) = q + chunksize(m, q)
              /\ q + chunksize(m, q) \in U \ {y}
              /\ m2[q + chunksize(m, q)] = chunksize(m, q)
  <2>1. /\ q \in A /\ q # v /\ q \in Nat /\ q % 8 = 0 /\ chunksize(m, q) \in Nat
        /\ chunksize(m, q) % 8 = 0 /\ q + chunksize(m, q) \in U
        /\ q + chunksize(m, q) \in Addr /\ m[q + chunksize(m, q)] = chunksize(m, q)
    <3>1. q \in A /\ q # v
      BY DEF Tiles, Layout
    <3> QED BY <1>1, <3>1 DEF ChunkAt
  <2>2. q + chunksize(m, q) # y
    BY <1>2, <2>1
  <2>3. q + chunksize(m, q) # h /\ q + chunksize(m, q) # k
    BY <1>2, <1>4, <2>1 DEF h, k
  <2> QED BY <1>10, <1>14, <2>1, <2>2, <2>3
<1>18. ASSUME NEW p \in A \ {y}
       PROVE  prev_inuse(m2, p) <=> \A q \in F \ {y} : next_chunk(m2, q) # p
  <2>1. CASE p = e
    <3>1. \A q \in F \ {y} : q \in A /\ next_chunk(m2, q) = q + chunksize(m, q)
      BY <1>17
    <3> QED BY <1>3, <1>4, <1>12, <2>1, <3>1
  <2>2. CASE p # e
    <3>1. prev_inuse(m2, p) <=> prev_inuse(m, p)
      BY <1>11, <1>13, <2>2
    <3>2. prev_inuse(m, p) <=> \A q \in F : q + chunksize(m, q) # p
      BY <1>1 DEF ChunkAt
    <3>3. y + chunksize(m, y) # p
      BY <1>4, <2>2
    <3> QED BY <1>17, <3>1, <3>2, <3>3
  <2> QED BY <2>1, <2>2
<1>19. Tagged(m2, F \ {y}, A \ {y})
  <2>1. \A p \in A \ {y} : m2[p + 4] \in Nat
    BY <1>11, <1>12, <1>13
  <2>2. \A q \in F \ {y} : m2[next_chunk(m2, q)] = chunksize(m2, q)
    BY <1>14, <1>17 DEF SameSizes
  <2> QED BY <1>18, <2>1, <2>2 DEF Tagged
<1>20. \A p \in U \ {y} : next_chunk(m2, p) # UnitEnd(UnitOf(p))
  <2>1. ASSUME NEW p \in U \ {y, v} PROVE next_chunk(m2, p) # UnitEnd(UnitOf(p))
    <3>1. p \in A
      BY DEF Tiles
    <3> QED BY <1>1, <1>14, <3>1 DEF ChunkAt
  <2>2. next_chunk(m2, v) # UnitEnd(UnitOf(v))
    BY <1>3, <1>4, <1>11 DEF next_chunk, e
  <2> QED BY <2>1, <2>2
<1>21. \A u \in 1..Len(tp) : UnitOf(tp[u]) = u /\ next_chunk(m2, tp[u]) = UnitEnd(u)
  <2>1. ASSUME NEW u \in 1..Len(tp) PROVE tp[u] \in A \ {v, y}
    <3>1. tp[u] \in A /\ tp[u] + chunksize(m, tp[u]) = UnitEnd(UnitOf(tp[u]))
      BY TopsDiffer
    <3>2. y + chunksize(m, y) # UnitEnd(UnitOf(y)) /\ v + chunksize(m, v) # UnitEnd(UnitOf(v))
      BY <1>1, <1>2, <1>3 DEF ChunkAt
    <3> QED BY <3>1, <3>2
  <2> QED BY <1>14, <2>1, TopsDiffer
<1>22. Layout(m2, F \ {y}, U \ {y}, tp)
  <2>1. (F \ {y}) \cap (U \ {y}) = {}
    BY DEF Layout
  <2>2. \A q \in F \ {y} : next_chunk(m2, q) \in U \ {y}
    BY <1>17
  <2> QED BY <1>15, <1>16, <1>19, <1>20, <1>21, <2>1, <2>2 DEF Layout, Tiles
<1> QED
  BY <1>4, <1>10, <1>11, <1>14, <1>22 DEF IsHeap, y, both, Joined

\* A chunk in use grows into the top behind it.
Grown(m, m2, F, U, tp2, v, nb) ==
  /\ IsHeap(m2, tp2) /\ Layout(m2, F, U, tp2)
  /\ SameSizes(m, m2, (F \cup U) \ {v}) /\ chunksize(m2, v) = nb

IntoTop(m, m2, tp, tp2, u, v, nb) ==
  /\ next_chunk(m, v) = tp[u]
  /\ (chunksize(m, v) + chunksize(m, tp[u])) - nb >= 16
  /\ m2 = set_head(set_head_size(m, v, nb), v + nb,
                   (chunksize(m, v) + chunksize(m, tp[u])) - nb, 1)
  /\ tp2 = [tp EXCEPT ![u] = v + nb]

\* realloc takes in a part of the top.
LEMMA GrowsIntoTop ==
  ASSUME NEW m, NEW F, NEW U, NEW tp, IsHeap(m, tp), Layout(m, F, U, tp),
         NEW v \in U, NEW u, u = UnitOf(v),
         NEW nb \in Nat, nb % 8 = 0, nb >= 16,
         NEW m2, NEW tp2, IntoTop(m, m2, tp, tp2, u, v, nb)
  PROVE  Grown(m, m2, F, U, tp2, v, nb) /\ Len(tp2) = Len(tp)
<1> USE DEF IntoTop
<1> DEFINE A == Tiles(F, U, tp)
           t == tp[u]
           rest == A \ {t}
           both == chunksize(m, v) + chunksize(m, t)
           r == both - nb
           x == v + nb
           bit == m[v + 4] % 2
           sz == SizesOf(m, A)
           z1 == [p \in rest |-> IF p = v THEN both ELSE chunksize(m, p)]
           z2 == SizesOf(m2, rest \cup {x})
<1>1. \A p \in A : ChunkAt(m, F, U, tp, p)
  BY ChunkFacts
<1>2. /\ v \in A /\ v \in Nat /\ v % 8 = 0 /\ chunksize(m, v) \in Nat
      /\ chunksize(m, v) % 8 = 0 /\ chunksize(m, v) >= 16
      /\ t = v + chunksize(m, v) /\ v + 4 \in Addr /\ m[v + 4] \in Nat
      /\ UnitOf(t) = UnitOf(v) /\ u \in 1..Len(tp)
  <2>1. v \in A
    BY DEF Tiles
  <2> QED BY <1>1, <2>1 DEF ChunkAt, next_chunk
<1>3. /\ t \in A /\ t \in ToSet(tp) /\ UnitOf(t) = u /\ t + chunksize(m, t) = UnitEnd(u)
      /\ OneTop(tp, u)
  BY <1>2, TopsDiffer DEF OneTop
<1>4. /\ t \in Nat /\ t % 8 = 0 /\ chunksize(m, t) \in Nat /\ chunksize(m, t) % 8 = 0
      /\ chunksize(m, t) >= 16 /\ t \notin F \cup U
  BY <1>1, <1>3 DEF ChunkAt
<1>5. /\ both \in Nat /\ both % 8 = 0 /\ r \in Nat /\ r % 8 = 0 /\ r >= 16 /\ x \in Nat
      /\ x % 8 = 0 /\ v + both = UnitEnd(u) /\ x + r = UnitEnd(u) /\ v # t /\ x # v
      /\ x < UnitEnd(u) - 4 /\ v < x /\ UnitEnd(u) \in Nat
  <2> DEFINE a == chunksize(m, v)
             c == chunksize(m, t)
  <2>1. /\ both = a + c /\ r = (a + c) - nb /\ (a + c) - nb >= 16 /\ t = v + a
        /\ a \in Nat /\ a % 8 = 0 /\ a >= 16 /\ c \in Nat /\ c % 8 = 0 /\ c >= 16
        /\ UnitEnd(u) = t + c /\ x = v + nb /\ v \in Nat /\ v % 8 = 0
    BY <1>2, <1>3, <1>4
  <2> HIDE DEF both, r, a, c, t, x
  <2> QED BY <2>1
<1>6. /\ bit \in {0, 1} /\ (bit = 1 <=> prev_inuse(m, v))
      /\ nb + bit \in Nat /\ ((nb + bit) \div 4) * 4 = nb /\ (nb + bit) % 2 = bit
      /\ r + 1 \in Nat /\ ((r + 1) \div 4) * 4 = r /\ (r + 1) % 2 = 1
  <2>1. bit \in {0, 1}
    BY <1>2, TagWord
  <2> HIDE DEF bit
  <2>2. /\ nb + bit \in Nat /\ ((nb + bit) \div 4) * 4 = nb /\ (nb + bit) % 2 = bit
    BY <2>1, TagWord
  <2>3. r + 1 \in Nat /\ ((r + 1) \div 4) * 4 = r /\ (r + 1) % 2 = 1
    <3> HIDE DEF r
    <3> QED BY <1>5, TagWord
  <2>4. bit = 1 <=> prev_inuse(m, v)
    BY DEF prev_inuse, bit
  <2> QED BY <2>1, <2>2, <2>3, <2>4
<1>7. m2 = [[m EXCEPT ![v + 4] = nb + bit] EXCEPT ![x + 4] = r + 1]
  <2>1. m2 = set_head(set_head(m, v, nb, bit), x, r, 1)
    BY Zenon DEF set_head_size
  <2> HIDE DEF x, r, bit
  <2> QED BY <2>1 DEF set_head
<1>8. Tiling(sz, Len(tp)) /\ Len(tp) \in Nat /\ DOMAIN sz = A /\ \A p \in A : sz[p] = chunksize(m, p)
  BY DEF Layout, Tiles, IsHeap, SizesOf
<1>9. Tiling(z1, Len(tp)) /\ DOMAIN z1 = rest /\ z1[v] = both
  <2>1. IsJoin(z1, sz, v)
    <3>1. /\ v \in A /\ v \in rest /\ v + sz[v] = t /\ t \in A /\ sz[v] + sz[t] = both
          /\ \A p \in rest : p # v => z1[p] = sz[p]
          /\ z1[v] = both /\ DOMAIN z1 = A \ {t}
      BY <1>2, <1>3, <1>5, <1>8
    <3> HIDE DEF z1, sz, both, t
    <3> QED BY <1>8, <3>1 DEF IsJoin
  <2>2. DOMAIN z1 = rest /\ z1[v] = both
    BY <1>2, <1>5
  <2> HIDE DEF z1, sz
  <2> QED BY <1>8, <2>1, <2>2, Joins
<1>10. x \in Chunk /\ x + 4 \in Addr
  <2> HIDE DEF x
  <2>1. u \in 1..MaxUnits /\ Base(u) \in Nat
    BY <1>2, <1>8, BaseOf, UnitSize DEF IsHeap
  <2>2. x + 4 \in Nat /\ (x + 4) % 4 = 0
    BY <1>5
  <2>3. x < Base(u) + UNIT_SIZE /\ x + 4 < Base(u) + UNIT_SIZE
    BY <1>5, <2>1, UnitSize DEF UnitEnd
  <2> QED BY <1>5, <2>1, <2>2, <2>3, InHeap
<1> HIDE DEF x, r, both, bit
<1>11. /\ m2 \in [Addr -> Nat \cup {DATA}]
       /\ m2[v + 4] = nb + bit /\ m2[x + 4] = r + 1
       /\ \A w \in Addr : w # v + 4 /\ w # x + 4 => m2[w] = m[w]
  <2>1. v + 4 # x + 4
    BY <1>2, <1>5
  <2> QED BY <1>2, <1>6, <1>7, <1>10, <2>1 DEF IsHeap
<1>12. /\ m2[v + 4] \in Nat /\ chunksize(m2, v) = nb /\ (prev_inuse(m2, v) <=> prev_inuse(m, v))
       /\ m2[x + 4] \in Nat /\ chunksize(m2, x) = r /\ prev_inuse(m2, x)
  BY <1>6, <1>11 DEF chunksize, prev_inuse
<1>13. ASSUME NEW p \in rest \ {v, x}
       PROVE  /\ m2[p + 4] \in Nat /\ chunksize(m2, p) = chunksize(m, p)
              /\ prev_inuse(m2, p) <=> prev_inuse(m, p)
  <2>1. p \in Nat /\ p + 4 \in Addr /\ m[p + 4] \in Nat
    BY <1>1 DEF ChunkAt
  <2>2. p + 4 # v + 4 /\ p + 4 # x + 4
    BY <1>2, <1>5, <2>1
  <2> QED BY <1>11, <2>1, <2>2 DEF chunksize, prev_inuse
<1>14. x \notin rest /\ UnitOf(x) = UnitOf(v) /\ Tiling(z2, Len(tp))
  <2>1. DOMAIN z2 = rest \cup {x} /\ \A p \in rest \cup {x} : z2[p] = chunksize(m2, p)
    BY DEF SizesOf
  <2>2. x \notin rest
    <3>1. ASSUME NEW p \in rest, v < p PROVE p > UnitEnd(u)
      <4>1. /\ p \in Nat /\ chunksize(m, p) \in Nat /\ p # t /\ p \in A
            /\ v < p => v + chunksize(m, v) <= p
        BY <1>1, <1>2 DEF ChunkAt
      <4>2. t < p
        <5>1. t <= p /\ p # t /\ p \in Nat /\ t \in Nat
          <6>1. v + chunksize(m, v) <= p /\ p # t /\ p \in Nat
            BY <3>1, <4>1
          <6>2. t = v + chunksize(m, v) /\ t \in Nat
            BY <1>2, <1>4
          <6> QED BY <6>1, <6>2
        <5> HIDE DEF t
        <5> QED BY <5>1
      <4>3. t + chunksize(m, t) <= p
        BY <1>1, <1>3, <4>1, <4>2 DEF ChunkAt
      <4>4. CASE p = UnitEnd(u)
        <5>1. UnitOf(p) = u
          BY <1>1, <1>3, <4>4 DEF ChunkAt
        <5>2. p + chunksize(m, p) <= UnitEnd(u) /\ chunksize(m, p) >= 16
          BY <1>1, <4>1, <5>1 DEF ChunkAt, UnitEnd
        <5> QED BY <4>1, <4>4, <5>2
      <4> QED BY <1>3, <1>4, <4>1, <4>3, <4>4
    <3>2. v < x /\ x < UnitEnd(u) /\ UnitEnd(u) \in Nat
      BY <1>5
    <3> QED BY <1>5, <3>1, <3>2
  <2>3. \A p \in rest : p # v => z2[p] = z1[p]
    BY <1>13, <2>1, <2>2
  <2>4. v \in rest /\ z2[v] = nb /\ z2[x] = r /\ r = both - nb /\ both - nb >= 16
    BY <1>2, <1>5, <1>12, <2>1 DEF r
  <2> HIDE DEF z1, z2, rest
  <2>5. IsSplit(z2, z1, v, nb)
    BY <1>9, <2>1, <2>3, <2>4 DEF IsSplit, x
  <2>6. v + nb \notin DOMAIN z1 /\ UnitOf(v + nb) = UnitOf(v) /\ Tiling(z2, Len(tp))
    BY <1>8, <1>9, <2>5, Splits
  <2> QED BY <2>2, <2>6 DEF x
<1>15. /\ IsHeap(m2, tp2) /\ Len(tp2) = Len(tp)
       /\ tp2[u] = x /\ \A w \in 1..Len(tp) : w # u => tp2[w] = tp[w]
       /\ ToSet(tp2) = (ToSet(tp) \ {t}) \cup {x}
  <2>1. IsHeap(m2, tp) /\ tp2 = MoveTop(tp, u, x)
    BY <1>11 DEF IsHeap, MoveTop, x
  <2>2. IsHeap(m2, tp2) /\ TopMoved(tp, tp2, u, x)
    BY ONLY <1>2, <1>3, <1>10, <2>1, TopMoves
  <2> QED BY <2>2 DEF TopMoved
<1>16. Tiles(F, U, tp2) = rest \cup {x}
  BY <1>4, <1>15 DEF Tiles
<1>17. ASSUME NEW q \in F
       PROVE  /\ q \in rest \ {v, x} /\ next_chunk(m2, q) = q + chunksize(m, q)
              /\ q + chunksize(m, q) \in U
              /\ m2[q + chunksize(m, q)] = chunksize(m, q)
  <2>1. q \in A /\ q # v
    BY DEF Tiles, Layout
  <2>2. /\ q \in Nat /\ q % 8 = 0 /\ chunksize(m, q) \in Nat
        /\ chunksize(m, q) % 8 = 0 /\ q + chunksize(m, q) \in U
        /\ q + chunksize(m, q) \in Addr /\ m[q + chunksize(m, q)] = chunksize(m, q)
    BY <1>1, <2>1 DEF ChunkAt
  <2>3. q + chunksize(m, q) # v + 4 /\ q + chunksize(m, q) # x + 4
    <3>1. v \in Nat /\ v % 8 = 0 /\ x \in Nat /\ x % 8 = 0
      BY <1>2, <1>5
    <3> QED BY <2>2, <3>1
  <2>4. q \in rest \ {v, x}
    BY <1>4, <1>14, <2>1
  <2> QED BY <1>11, <1>13, <2>2, <2>3, <2>4 DEF next_chunk
<1>18. ASSUME NEW p \in rest \cup {x}
       PROVE  prev_inuse(m2, p) <=> \A q \in F : next_chunk(m2, q) # p
  <2>1. CASE p = x
    <3>1. \A q \in U : q \in rest
      BY <1>4 DEF Tiles
    <3> QED BY <1>12, <1>14, <1>17, <2>1, <3>1
  <2>2. CASE p \in rest
    <3>1. prev_inuse(m2, p) <=> prev_inuse(m, p)
      BY <1>12, <1>13, <1>14, <2>2
    <3>2. prev_inuse(m, p) <=> \A q \in F : q + chunksize(m, q) # p
      BY <1>1, <2>2 DEF ChunkAt
    <3> QED BY <1>17, <3>1, <3>2
  <2> QED BY <2>1, <2>2
<1>19. Tagged(m2, F, rest \cup {x})
  <2>1. \A p \in rest \cup {x} : m2[p + 4] \in Nat
    BY <1>12, <1>13
  <2>2. \A q \in F : m2[next_chunk(m2, q)] = chunksize(m2, q)
    BY <1>13, <1>17
  <2> QED BY <1>18, <2>1, <2>2 DEF Tagged
<1>20. \A p \in U : next_chunk(m2, p) # UnitEnd(UnitOf(p))
  <2>1. ASSUME NEW p \in U, p # v PROVE next_chunk(m2, p) # UnitEnd(UnitOf(p))
    <3>1. p \in A /\ p \in rest \ {v, x}
      BY <1>4, <1>14, <2>1 DEF Tiles
    <3> QED BY <1>1, <1>13, <3>1 DEF ChunkAt, next_chunk
  <2>2. next_chunk(m2, v) # UnitEnd(UnitOf(v))
    <3>1. next_chunk(m2, v) = x
      BY <1>12 DEF next_chunk, x
    <3>2. x < UnitEnd(u) - 4 /\ x \in Nat /\ UnitEnd(u) \in Nat
      BY <1>5
    <3>3. x # UnitEnd(u)
      BY ONLY <3>2
    <3> QED BY <3>1, <3>3
  <2> QED BY <2>1, <2>2
<1>21. ASSUME NEW w \in 1..Len(tp)
       PROVE  UnitOf(tp2[w]) = w /\ next_chunk(m2, tp2[w]) = UnitEnd(w)
  <2>1. CASE w = u
    BY <1>2, <1>5, <1>12, <1>14, <1>15, <2>1 DEF next_chunk
  <2>2. CASE w # u
    <3>1. tp[w] \in A /\ UnitOf(tp[w]) = w /\ tp[w] + chunksize(m, tp[w]) = UnitEnd(w) /\ tp[w] # t
      BY <1>2, <2>2, TopsDiffer
    <3>2. tp[w] \in rest \ {v, x}
      BY <1>2, <1>14, <2>2, <3>1
    <3> QED BY <1>13, <1>15, <2>2, <3>1, <3>2 DEF next_chunk
  <2> QED BY <2>1, <2>2
<1>22. Layout(m2, F, U, tp2)
  <2>1. Tiling(SizesOf(m2, Tiles(F, U, tp2)), Len(tp2)) /\ Tagged(m2, F, Tiles(F, U, tp2))
    BY <1>14, <1>15, <1>16, <1>19
  <2>2. F \cap U = {} /\ \A q \in F : next_chunk(m2, q) \in U
    BY <1>17 DEF Layout
  <2>3. \A w \in 1..Len(tp2) : UnitOf(tp2[w]) = w /\ next_chunk(m2, tp2[w]) = UnitEnd(w)
    BY <1>15, <1>21
  <2> QED BY <1>20, <2>1, <2>2, <2>3 DEF Layout, Tiles
<1>23. SameSizes(m, m2, (F \cup U) \ {v})
  <2>1. \A p \in (F \cup U) \ {v} : p \in rest \ {v, x}
    BY <1>4, <1>14 DEF Tiles
  <2> QED BY <1>13, <2>1 DEF SameSizes
<1> QED
  BY <1>12, <1>15, <1>22, <1>23 DEF Grown

---------------------------------------------------------------------------
(* A chunk is merged with its free neighbours                              *)

\* The tags find the neighbours of chunk p: f is where the free chunk before
\* it begins, if there is one, and n is the chunk behind it.
Beside(m, F, U, tp, p, t) ==
  LET A == Tiles(F, U, tp)
      f == Front_of(m, p)
      n == next_chunk(m, p)
  IN  /\ f \in F \cup U /\ f \in Nat /\ f % 8 = 0 /\ f <= p
      /\ UnitOf(f) = UnitOf(p) /\ f \in Chunk
      /\ f = p \/ (f \in F /\ f + chunksize(m, f) = p /\ f < p)
      /\ f = p <=> prev_inuse(m, p)
      /\ \A g \in F : g + chunksize(m, g) = p => g = f
      /\ n = p + chunksize(m, p) /\ n \in A /\ n \in Nat /\ n % 8 = 0 /\ n >= p + 16
      /\ UnitOf(n) = UnitOf(p)
      /\ n = t => TakesNext(m, p, t) /\ n \notin F \cup U
      /\ n # t => n \in F \cup U /\ (TakesNext(m, p, t) <=> n \in F)

\* The tags tell free which neighbours of a chunk in use are free.
LEMMA Neighbours ==
  ASSUME NEW m, NEW F, NEW U, NEW tp, IsHeap(m, tp), Layout(m, F, U, tp),
         NEW p \in U, NEW t, t = tp[UnitOf(p)]
  PROVE  Beside(m, F, U, tp, p, t)
<1> DEFINE A == Tiles(F, U, tp)
           f == Front_of(m, p)
           n == next_chunk(m, p)
<1>1. \A q \in A : ChunkAt(m, F, U, tp, q)
  BY ChunkFacts
<1>2. /\ p \in A /\ p \in Nat /\ p % 8 = 0 /\ chunksize(m, p) \in Nat
      /\ chunksize(m, p) % 8 = 0 /\ chunksize(m, p) >= 16
      /\ p + chunksize(m, p) \in A /\ UnitOf(p + chunksize(m, p)) = UnitOf(p)
      /\ prev_inuse(m, p) <=> \A g \in F : g + chunksize(m, g) # p
      /\ UnitOf(p) \in 1..Len(tp) /\ p \in Chunk
  <2>1. p \in A
    BY DEF Tiles
  <2> QED BY <1>1, <2>1 DEF ChunkAt
<1>3. ASSUME NEW g \in F, g + chunksize(m, g) = p
      PROVE  /\ f = g /\ ~prev_inuse(m, p) /\ g \in Nat /\ g % 8 = 0 /\ g < p
             /\ UnitOf(g) = UnitOf(p) /\ g \in Chunk
  <2>1. g \in A
    BY DEF Tiles
  <2>2. /\ g \in Nat /\ g % 8 = 0 /\ chunksize(m, g) \in Nat /\ chunksize(m, g) >= 16
        /\ m[g + chunksize(m, g)] = chunksize(m, g)
        /\ UnitOf(g + chunksize(m, g)) = UnitOf(g) /\ g \in Chunk
    BY <1>1, <2>1 DEF ChunkAt
  <2>3. ~prev_inuse(m, p)
    BY <1>2, <1>3
  <2>4. m[p] = chunksize(m, g)
    BY <1>3, <2>2
  <2>5. f = p - m[p]
    BY <2>3 DEF Front_of
  <2>6. f = g
    BY <1>2, <1>3, <2>2, <2>4, <2>5
  <2> QED BY <1>3, <2>2, <2>3, <2>6
<1>4. prev_inuse(m, p) => f = p
  BY DEF Front_of
<1>5. ASSUME ~prev_inuse(m, p) PROVE \E g \in F : g + chunksize(m, g) = p
  BY <1>2, <1>5
<1>6. n = p + chunksize(m, p)
  BY DEF next_chunk
<1> HIDE DEF f, n
<1>7. /\ f \in F \cup U /\ f \in Nat /\ f % 8 = 0 /\ f <= p
      /\ UnitOf(f) = UnitOf(p) /\ f \in Chunk
      /\ f = p \/ (f \in F /\ f + chunksize(m, f) = p /\ f < p)
      /\ f = p <=> prev_inuse(m, p)
      /\ \A g \in F : g + chunksize(m, g) = p => g = f
  <2>1. CASE prev_inuse(m, p)
    BY <1>2, <1>3, <1>4, <2>1
  <2>2. CASE ~prev_inuse(m, p)
    BY <1>2, <1>3, <1>5, <2>2
  <2> QED BY <2>1, <2>2
<1>8. /\ n \in A /\ n \in Nat /\ n % 8 = 0 /\ n >= p + 16 /\ UnitOf(n) = UnitOf(p)
  BY <1>2, <1>6
<1>9. ASSUME n = t PROVE TakesNext(m, p, t) /\ n \notin F \cup U
  <2>1. TakesNext(m, p, t)
    BY <1>9 DEF TakesNext, n
  <2>2. n = tp[UnitOf(n)]
    BY <1>8, <1>9
  <2>3. n \notin F \cup U
    BY <1>1, <1>8, <2>2 DEF ChunkAt
  <2> QED BY <2>1, <2>3
<1>10. ASSUME n # t PROVE n \in F \cup U /\ (TakesNext(m, p, t) <=> n \in F)
  <2>1. ChunkAt(m, F, U, tp, n) /\ n # tp[UnitOf(n)]
    BY <1>1, <1>8, <1>10
  <2>2. n \in F \cup U
    BY <1>8, <2>1 DEF ChunkAt, Tiles
  <2>3. /\ n + chunksize(m, n) \in A
        /\ \A q \in A : q + chunksize(m, q) = n + chunksize(m, n) => q = n
    BY <2>1, <2>2 DEF ChunkAt
  <2>4. inuse(m, n) <=> prev_inuse(m, n + chunksize(m, n))
    BY DEF inuse, next_chunk
  <2>5. prev_inuse(m, n + chunksize(m, n))
          <=> \A g \in F : g + chunksize(m, g) # n + chunksize(m, n)
    BY <1>1, <2>3 DEF ChunkAt
  <2>6. (\A g \in F : g + chunksize(m, g) # n + chunksize(m, n)) <=> n \notin F
    BY <2>3 DEF Tiles
  <2>7. TakesNext(m, p, t) <=> ~inuse(m, n)
    BY <1>10 DEF TakesNext, n
  <2> QED BY <2>2, <2>4, <2>5, <2>6, <2>7
<1> QED
  BY <1>6, <1>7, <1>8, <1>9, <1>10 DEF Beside, f, n

\* The size of a chunk is a tag.
LEMMA NotWild ==
  ASSUME NEW m, NEW F, NEW U, NEW tp, IsHeap(m, tp), Layout(m, F, U, tp),
         NEW p \in Tiles(F, U, tp)
  PROVE  ~Wild(m, p)
<1>1. p + 4 \in Addr /\ m[p + 4] \in Nat
  BY ChunkFacts DEF ChunkAt
<1> QED BY <1>1 DEF Wild, DATA

\* What free and realloc read of the neighbours of a chunk in use are tags.
LEMMA ReadsTags ==
  ASSUME NEW m, NEW F, NEW U, NEW tp, IsHeap(m, tp), Layout(m, F, U, tp),
         NEW p \in U, NEW t, t = tp[UnitOf(p)]
  PROVE  /\ ~Wild(m, p) /\ ~Wild(m, next_chunk(m, p))
         /\ next_chunk(m, p) # t => ~Wild(m, next_chunk(m, next_chunk(m, p)))
         /\ ~WildMerge(m, p, t)
<1> DEFINE A == Tiles(F, U, tp)
           n == next_chunk(m, p)
<1>1. Beside(m, F, U, tp, p, t)
  BY Neighbours
<1>2. p \in A /\ n \in A /\ (n # t => n \in F \cup U)
  BY <1>1 DEF Beside, Tiles
<1> HIDE DEF n
<1>3. ASSUME n # t PROVE next_chunk(m, n) \in A
  <2>1. ChunkAt(m, F, U, tp, n)
    BY <1>2, ChunkFacts
  <2> QED BY <1>2, <1>3, <2>1 DEF ChunkAt, next_chunk
<1>4. ~Wild(m, p) /\ ~Wild(m, n) /\ (n # t => ~Wild(m, next_chunk(m, n)))
  BY <1>2, <1>3, NotWild
<1>5. ASSUME ~prev_inuse(m, p) PROVE m[p] # DATA
  <2>1. PICK g \in F : g + chunksize(m, g) = p
    BY <1>2, <1>5, ChunkFacts DEF ChunkAt
  <2>2. g \in A
    BY DEF Tiles
  <2>3. m[g + chunksize(m, g)] = chunksize(m, g) /\ chunksize(m, g) \in Nat
    BY <2>2, ChunkFacts DEF ChunkAt
  <2>4. m[p] \in Nat
    BY <2>1, <2>3
  <2> QED BY <2>4 DEF DATA
<1>6. ~WildMerge(m, p, t)
  BY <1>4, <1>5 DEF WildMerge, n
<1> QED BY <1>4, <1>6 DEF n

\* The chunks that are left, and their sizes.
MergedTiles(m, A, p, t) ==
  ((A \ {p}) \ (IF TakesNext(m, p, t) THEN {next_chunk(m, p)} ELSE {})) \cup {Front_of(m, p)}

\* Once merged the chunks that are left fill the units.
LEMMA MergedTiling ==
  ASSUME NEW m, NEW F, NEW U, NEW tp, IsHeap(m, tp), Layout(m, F, U, tp),
         NEW p \in U, NEW t, t = tp[UnitOf(p)],
         NEW m2, chunksize(m2, Front_of(m, p)) = MergedSize(m, p, t),
         SameSizes(m, m2, MergedTiles(m, Tiles(F, U, tp), p, t) \ {Front_of(m, p)})
  PROVE  Tiling(SizesOf(m2, MergedTiles(m, Tiles(F, U, tp), p, t)), Len(tp))
<1> DEFINE A == Tiles(F, U, tp)
           f == Front_of(m, p)
           n == next_chunk(m, p)
           A1 == (A \ {p}) \cup {f}
           A2 == MergedTiles(m, A, p, t)
           sz == SizesOf(m, A)
           z1 == [q \in A1 |-> IF q = f THEN n - f ELSE chunksize(m, q)]
           z2 == SizesOf(m2, A2)
<1>1. \A q \in A : ChunkAt(m, F, U, tp, q)
  BY ChunkFacts
<1>2. /\ f \in A /\ f \in Nat /\ f <= p
      /\ f = p \/ (f \in F /\ f + chunksize(m, f) = p /\ f < p)
      /\ n = p + chunksize(m, p) /\ n \in A /\ n \in Nat /\ n >= p + 16
      /\ p \in A /\ p \in Nat
  <2>1. Beside(m, F, U, tp, p, t)
    BY Neighbours
  <2>2. p \in A /\ p \in Nat
    BY <1>1 DEF ChunkAt, Tiles
  <2> QED BY <2>1, <2>2 DEF Beside, Tiles
<1>3. Tiling(sz, Len(tp)) /\ Len(tp) \in Nat /\ DOMAIN sz = A /\ \A q \in A : sz[q] = chunksize(m, q)
  BY DEF Layout, Tiles, IsHeap, SizesOf
<1>4. chunksize(m, f) \in Nat /\ chunksize(m, p) \in Nat
  BY <1>1, <1>2 DEF ChunkAt
<1> HIDE DEF f, n, A
<1>5. DOMAIN z1 = A1 /\ z1[f] = n - f /\ \A q \in A1 : q # f => z1[q] = chunksize(m, q)
  OBVIOUS
<1> HIDE DEF z1, sz
<1>6. Tiling(z1, Len(tp))
  <2>1. CASE f = p
    <3>1. A1 = A
      BY <1>2, <2>1
    <3>2. z1 = sz
      <4>1. sz = [q \in A |-> chunksize(m, q)]
        BY DEF sz, SizesOf
      <4>2. n - f = chunksize(m, f)
        BY <1>2, <1>4, <2>1
      <4> QED BY <3>1, <4>1, <4>2 DEF z1
    <3> QED BY <1>3, <3>2
  <2>2. CASE f # p
    <3>1. /\ f + sz[f] = p /\ A1 = A \ {p} /\ z1[f] = sz[f] + sz[p]
      BY <1>2, <1>3, <1>4, <1>5, <2>2
    <3>2. IsJoin(z1, sz, f)
      BY <1>2, <1>3, <1>5, <3>1 DEF IsJoin
    <3> QED BY <1>3, <3>2, Joins
  <2> QED BY <2>1, <2>2
<1>7. n \in A1 /\ n # f /\ f + z1[f] = n /\ f \in A1
  BY <1>2, <1>5
<1>8. DOMAIN z2 = A2 /\ \A q \in A2 : z2[q] = chunksize(m2, q)
  BY DEF SizesOf
<1>9. chunksize(m2, f) = (n - f) + (IF TakesNext(m, p, t) THEN chunksize(m, n) ELSE 0)
  BY DEF MergedSize, f, n
<1>10. A2 = A1 \ (IF TakesNext(m, p, t) THEN {n} ELSE {})
  <2>1. A2 = ((A \ {p}) \ (IF TakesNext(m, p, t) THEN {n} ELSE {})) \cup {f}
    BY DEF MergedTiles, f, n
  <2> QED BY <1>7, <2>1
<1>11. \A q \in A2 : q # f => z2[q] = chunksize(m, q)
  BY <1>8 DEF SameSizes, A, f
<1> HIDE DEF z2, A1, A2
<1>12. CASE TakesNext(m, p, t)
  <2>1. DOMAIN z2 = A1 \ {n} /\ z2[f] = z1[f] + z1[n]
    BY <1>5, <1>7, <1>8, <1>9, <1>10, <1>12
  <2>2. \A q \in A1 \ {n} : q # f => z2[q] = z1[q]
    BY <1>5, <1>10, <1>11, <1>12
  <2>3. IsJoin(z2, z1, f)
    BY <1>5, <1>7, <2>1, <2>2 DEF IsJoin
  <2>4. Tiling(z2, Len(tp))
    BY <1>3, <1>6, <2>3, Joins
  <2> QED BY <2>4 DEF z2, A2, A
<1>13. CASE ~TakesNext(m, p, t)
  <2>1. A2 = A1
    BY <1>10, <1>13
  <2>2. chunksize(m2, f) = n - f
    BY <1>2, <1>9, <1>13
  <2>3. z2 = [q \in A1 |-> IF q = f THEN n - f ELSE chunksize(m, q)]
    BY <1>7, <1>8, <1>11, <2>1, <2>2 DEF z2, SizesOf
  <2>4. z2 = z1
    BY <2>3 DEF z1
  <2> QED BY <1>6, <2>4 DEF z2, A2, A
<1> QED BY <1>12, <1>13

\* The words after the merge, from the front f to the end e.
MergedWords(m, m2, p, t) ==
  LET f == Front_of(m, p)
      n == next_chunk(m, p)
      size == MergedSize(m, p, t)
      e == f + size
      takes == TakesNext(m, p, t)
  IN  /\ m2 \in [Addr -> Nat \cup {DATA}]
      /\ m2[f + 4] = size + 1
      /\ n # t => m2[e] = size
      /\ ~takes => m2[n + 4] = chunksize(m, n)
      /\ \A w \in Addr :
           /\ w \notin (f + 8)..(e - 4) /\ w # f + 4
           /\ w # e \/ n = t
           /\ w # n + 4 \/ takes
           => m2[w] = m[w]

\* The words that merging writes.
LEMMA MergeWrites ==
  ASSUME NEW m, NEW F, NEW U, NEW tp, IsHeap(m, tp), Layout(m, F, U, tp),
         NEW p \in U, NEW t, t = tp[UnitOf(p)],
         NEW m2, m2 = MergedMem(m, p, t)
  PROVE  /\ MergedWords(m, m2, p, t)
         /\ MergedSize(m, p, t) \in Nat /\ MergedSize(m, p, t) % 8 = 0
         /\ MergedSize(m, p, t) >= 16
         /\ Front_of(m, p) + MergedSize(m, p, t) =
              IF TakesNext(m, p, t) THEN next_chunk(m, p) + chunksize(m, next_chunk(m, p))
              ELSE next_chunk(m, p)
<1> DEFINE A == Tiles(F, U, tp)
           f == Front_of(m, p)
           n == next_chunk(m, p)
           s == chunksize(m, n)
           size == MergedSize(m, p, t)
           e == f + size
           takes == TakesNext(m, p, t)
<1>1. \A q \in A : ChunkAt(m, F, U, tp, q)
  BY ChunkFacts
<1>2. Beside(m, F, U, tp, p, t)
  BY Neighbours
<1>3. p \in A /\ p \in Nat
  BY <1>1 DEF ChunkAt, Tiles
<1>4. /\ f \in F \cup U /\ f \in Nat /\ f % 8 = 0 /\ f <= p /\ f \in A
      /\ n \in A /\ n \in Nat /\ n % 8 = 0 /\ n >= p + 16
      /\ n = t => takes
      /\ n # t => n \in F \cup U /\ (takes <=> n \in F)
  BY <1>2 DEF Beside, Tiles
<1>5. /\ f + 4 \in Addr /\ n \in Addr /\ n + 4 \in Addr /\ m[n + 4] \in Nat
      /\ s \in Nat /\ s % 8 = 0 /\ s >= 16 /\ n + s \in Addr
      /\ n \in F \cup U => n + s # UnitEnd(UnitOf(n + s)) /\ n # UnitEnd(UnitOf(n))
  <2>1. /\ f + 4 \in Addr /\ n + 4 \in Addr /\ m[n + 4] \in Nat
        /\ s \in Nat /\ s % 8 = 0 /\ s >= 16 /\ n + s \in Addr
        /\ n \in F \cup U => n + s # UnitEnd(UnitOf(n + s))
    BY <1>1, <1>4 DEF ChunkAt
  <2>2. n \in Addr
    BY <1>1, <1>4 DEF ChunkAt, Chunk
  <2>3. n # UnitEnd(UnitOf(n))
    <3>1. /\ n + s <= Base(UnitOf(n)) + UNIT_SIZE - 16 /\ Base(UnitOf(n)) \in Nat
      BY <1>1, <1>4 DEF ChunkAt
    <3> QED BY <1>4, <2>1, <3>1, UnitSize DEF UnitEnd
  <2> QED BY <2>1, <2>2, <2>3
<1>6. size = (n - f) + (IF takes THEN s ELSE 0)
  BY DEF MergedSize
<1>7. n = t => m2 = Forget([m EXCEPT ![f + 4] = size + 1], f + 8, f + size - 4)
  BY DEF MergedMem, set_head
<1>8. n # t => m2 = Forget(set_foot([[m EXCEPT ![n + 4] = s + 0] EXCEPT ![f + 4] = size + 1], f, size),
                           f + 8, f + size - 4)
  BY DEF MergedMem, set_head
<1> HIDE DEF f, n, s, size, takes
<1>9. /\ size \in Nat /\ size % 8 = 0 /\ size >= 16
      /\ e = IF takes THEN n + s ELSE n
  BY <1>3, <1>4, <1>5, <1>6
<1>10. e \in Addr /\ e \in Nat /\ e % 8 = 0
  <2>1. e \in Addr
    BY <1>5, <1>9
  <2>2. e \in Nat /\ e % 8 = 0
    BY <1>4, <1>9
  <2> QED BY <2>1, <2>2
<1>11. n # t => ~DeadWord(e)
  BY <1>4, <1>5, <1>9, <1>10, DeadIsEnd
<1>12. f + size - 4 = e - 4
  BY <1>4, <1>9
<1> HIDE DEF e
<1>13. CASE n = t
  <2> DEFINE m1 == [m EXCEPT ![f + 4] = size + 1]
  <2>1. m1 \in [Addr -> Nat \cup {DATA}] /\ m1[f + 4] = size + 1
        /\ \A w \in Addr : w # f + 4 => m1[w] = m[w]
    BY <1>5, <1>9 DEF IsHeap
  <2> HIDE DEF m1
  <2>2. m2 = [w \in Addr |-> IF w \in (f + 8)..(e - 4) THEN DATA ELSE m1[w]]
    BY <1>7, <1>12, <1>13 DEF Forget, m1
  <2>3. f + 4 \notin (f + 8)..(e - 4)
    BY <1>4
  <2>4. /\ m2 \in [Addr -> Nat \cup {DATA}] /\ m2[f + 4] = size + 1
        /\ \A w \in Addr : w \notin (f + 8)..(e - 4) /\ w # f + 4 => m2[w] = m[w]
    BY <1>5, <2>1, <2>2, <2>3
  <2>5. takes
    BY <1>4, <1>13
  <2>6. MergedWords(m, m2, p, t)
    BY <1>13, <2>4, <2>5 DEF MergedWords, f, n, s, size, e, takes
  <2> QED BY <1>9, <2>6 DEF f, n, s, size, e, takes
<1>14. CASE n # t
  <2> DEFINE ma == [m EXCEPT ![n + 4] = s]
             mb == [ma EXCEPT ![f + 4] = size + 1]
             m1 == [mb EXCEPT ![e] = size]
  <2>1. n + 4 # f + 4 /\ e # f + 4 /\ e # n + 4 /\ size + 1 \in Nat /\ s + 0 = s
    BY <1>3, <1>4, <1>5, <1>9, <1>10
  <2>2. ma \in [Addr -> Nat \cup {DATA}] /\ ma[n + 4] = s
        /\ \A w \in Addr : w # n + 4 => ma[w] = m[w]
    BY <1>5 DEF IsHeap
  <2>3. m2 = Forget(m1, f + 8, e - 4)
    BY <1>8, <1>11, <1>12, <1>14, <2>1 DEF set_foot, e
  <2> HIDE DEF ma
  <2>4. mb \in [Addr -> Nat \cup {DATA}] /\ mb[f + 4] = size + 1
        /\ \A w \in Addr : w # f + 4 => mb[w] = ma[w]
    BY <1>5, <2>1, <2>2
  <2> HIDE DEF mb
  <2>5. m1 \in [Addr -> Nat \cup {DATA}] /\ m1[e] = size
        /\ \A w \in Addr : w # e => m1[w] = mb[w]
    BY <1>9, <1>10, <2>4
  <2> HIDE DEF m1
  <2>6. m2 = [w \in Addr |-> IF w \in (f + 8)..(e - 4) THEN DATA ELSE m1[w]]
    BY <2>3 DEF Forget
  <2>7. /\ f + 4 \notin (f + 8)..(e - 4) /\ e \notin (f + 8)..(e - 4)
        /\ ~takes => n + 4 \notin (f + 8)..(e - 4)
        /\ takes => n + 4 \in (f + 8)..(e - 4)
    BY <1>3, <1>4, <1>5, <1>9, <1>10
  <2>8. m2 \in [Addr -> Nat \cup {DATA}]
    BY <2>5, <2>6
  <2>9. m2[f + 4] = size + 1 /\ m2[e] = size /\ (~takes => m2[n + 4] = s)
    <3>1. m1[f + 4] = size + 1 /\ m1[n + 4] = s
      BY <1>5, <2>1, <2>2, <2>4, <2>5
    <3>2. \A w \in Addr : w \notin (f + 8)..(e - 4) => m2[w] = m1[w]
      BY <2>6
    <3> QED BY <1>5, <1>10, <2>5, <2>7, <3>1, <3>2
  <2>10. ASSUME NEW w \in Addr, w \notin (f + 8)..(e - 4), w # f + 4, w # e, w # n + 4 \/ takes
         PROVE  m2[w] = m[w]
    <3>1. w # n + 4
      BY <2>7, <2>10
    <3> QED BY <2>2, <2>4, <2>5, <2>6, <2>10, <3>1
  <2>11. MergedWords(m, m2, p, t)
    BY <1>14, <2>8, <2>9, <2>10 DEF MergedWords, f, n, s, size, e, takes
  <2> QED BY <1>9, <2>11 DEF f, n, s, size, e, takes
<1> QED BY <1>13, <1>14

\* free and __malloc_consolidate: chunk p is free now, or part of the top.
Merged(m, m2, F, U, tp, p, t) ==
  LET f   == Front_of(m, p)
      n   == next_chunk(m, p)
      F1  == F \ {f, n}
      F2  == IF n = t THEN F1 ELSE F1 \cup {f}
      tp2 == IF n = t THEN [tp EXCEPT ![UnitOf(p)] = f] ELSE tp
  IN  /\ IsHeap(m2, tp2) /\ Layout(m2, F2, U \ {p}, tp2) /\ Len(tp2) = Len(tp)
      /\ SameSizes(m, m2, F1 \cup (U \ {p}))

\* free merges a chunk in use with its free neighbours (MergedMem): no two free
\* chunks are neighbours afterwards, and none borders the top.
LEMMA Coalesces ==
  ASSUME NEW m, NEW F, NEW U, NEW tp, IsHeap(m, tp), Layout(m, F, U, tp),
         NEW p \in U, NEW t, t = tp[UnitOf(p)],
         NEW m2, m2 = MergedMem(m, p, t)
  PROVE  Merged(m, m2, F, U, tp, p, t)
<1> DEFINE A == Tiles(F, U, tp)
           f == Front_of(m, p)
           n == next_chunk(m, p)
           s == chunksize(m, n)
           size == MergedSize(m, p, t)
           e == f + size
           takes == TakesNext(m, p, t)
           A2 == MergedTiles(m, A, p, t)
           F1  == F \ {f, n}
           F2  == IF n = t THEN F1 ELSE F1 \cup {f}
           U2  == U \ {p}
           tp2 == IF n = t THEN [tp EXCEPT ![UnitOf(p)] = f] ELSE tp
<1>1. \A q \in A : ChunkAt(m, F, U, tp, q)
  BY ChunkFacts
<1>2. /\ f \in F \cup U /\ f \in Nat /\ f % 8 = 0 /\ f <= p /\ f \in A
      /\ UnitOf(f) = UnitOf(p) /\ f \in Chunk
      /\ f = p \/ (f \in F /\ f + chunksize(m, f) = p /\ f < p)
      /\ f = p <=> prev_inuse(m, p)
      /\ \A g \in F : g + chunksize(m, g) = p => g = f
      /\ n = p + chunksize(m, p) /\ n \in A /\ n \in Nat /\ n % 8 = 0 /\ n >= p + 16
      /\ UnitOf(n) = UnitOf(p)
      /\ n = t => takes /\ n \notin F \cup U
      /\ n # t => n \in F \cup U /\ (takes <=> n \in F)
  <2>1. Beside(m, F, U, tp, p, t)
    BY Neighbours
  <2> QED BY <2>1 DEF Beside, Tiles
<1>3. /\ p \in A /\ p \in Nat /\ p \notin F /\ UnitOf(p) \in 1..Len(tp)
      /\ f \in F => f \notin U
  <2>1. p \in A /\ p \notin F /\ (f \in F => f \notin U)
    BY DEF Tiles, Layout
  <2> QED BY <1>1, <2>1 DEF ChunkAt
<1>4. /\ MergedWords(m, m2, p, t)
      /\ size \in Nat /\ size % 8 = 0 /\ size >= 16
      /\ e = IF takes THEN n + s ELSE n
  BY MergeWrites
<1>5. /\ m2 \in [Addr -> Nat \cup {DATA}]
      /\ m2[f + 4] = size + 1
      /\ n # t => m2[e] = size
      /\ ~takes => m2[n + 4] = s
      /\ \A w \in Addr :
           /\ w \notin (f + 8)..(e - 4) /\ w # f + 4
           /\ w # e \/ n = t
           /\ w # n + 4 \/ takes
           => m2[w] = m[w]
  BY <1>4 DEF MergedWords
<1>6. s \in Nat /\ s % 8 = 0 /\ s >= 16
  BY <1>1, <1>2 DEF ChunkAt
<1>7. A2 = ((A \ {p}) \ (IF takes THEN {n} ELSE {})) \cup {f}
  BY DEF MergedTiles
<1> HIDE DEF f, n, s, takes, size, A2, e
<1>8. e \in Nat /\ e % 8 = 0 /\ e >= n /\ n > f
  <2>1. n \in Nat /\ n % 8 = 0 /\ f \in Nat /\ f <= p /\ n >= p + 16 /\ p \in Nat
    BY <1>2, <1>3
  <2>2. e = n + s \/ e = n
    BY <1>4
  <2>3. n + s \in Nat /\ (n + s) % 8 = 0 /\ n + s >= n
    BY ONLY <1>6, <2>1
  <2> QED BY ONLY <2>1, <2>2, <2>3
\* the other chunks lie before f or behind e
<1>9. ASSUME NEW q \in A2, q # f
      PROVE  /\ q \in A /\ q # p /\ q \in Nat /\ q % 8 = 0 /\ q + 4 \in Addr /\ (takes => q # n)
             /\ chunksize(m, q) \in Nat /\ chunksize(m, q) % 8 = 0 /\ chunksize(m, q) >= 16
             /\ q < f => q + chunksize(m, q) <= f
             /\ q > f => q >= e
  <2>1. q \in A /\ q # p /\ (takes => q # n)
    BY <1>7, <1>9
  <2>2. /\ q \in Nat /\ q % 8 = 0 /\ q + 4 \in Addr
        /\ chunksize(m, q) \in Nat /\ chunksize(m, q) % 8 = 0 /\ chunksize(m, q) >= 16
        /\ q < f => q + chunksize(m, q) <= f
    BY <1>1, <1>2, <2>1 DEF ChunkAt
  <2>3. ASSUME q > f PROVE q >= e
    <3>1. q > p
      <4>1. CASE f = p
        BY <2>3, <4>1
      <4>2. CASE f # p
        <5>1. f + chunksize(m, f) <= q
          BY <1>1, <1>2, <2>1, <2>2, <2>3 DEF ChunkAt
        <5> QED BY <1>2, <1>3, <2>1, <2>2, <4>2, <5>1
      <4> QED BY <4>1, <4>2
    <3>2. n <= q
      <4>1. p + chunksize(m, p) <= q
        BY <1>1, <1>3, <2>1, <3>1 DEF ChunkAt
      <4> QED BY <1>2, <4>1
    <3>3. CASE takes
      <4>1. n < q
        BY <1>2, <2>1, <2>2, <3>2, <3>3
      <4>2. n + s <= q
        BY <1>1, <1>2, <2>1, <4>1 DEF ChunkAt, s
      <4> QED BY <1>4, <3>3, <4>2
    <3>4. CASE ~takes
      BY <1>4, <3>2, <3>4
    <3> QED BY <3>3, <3>4
  <2> QED BY <2>1, <2>2, <2>3
<1>10. ASSUME NEW q \in A2, q # f, q # n \/ takes
       PROVE  m2[q + 4] = m[q + 4]
  <2>1. q + 4 \notin (f + 8)..(e - 4)
    BY <1>2, <1>8, <1>9, <1>10
  <2>2. q + 4 # f + 4 /\ q + 4 # e /\ (q + 4 # n + 4 \/ takes)
    BY <1>2, <1>8, <1>9, <1>10
  <2> QED BY <1>5, <1>9, <1>10, <2>1, <2>2
<1>11. ASSUME NEW q \in A2, q # f
       PROVE  /\ m2[q + 4] \in Nat /\ chunksize(m2, q) = chunksize(m, q)
              /\ q # n \/ takes => (prev_inuse(m2, q) <=> prev_inuse(m, q))
  <2>1. CASE q # n \/ takes
    <3>1. m2[q + 4] = m[q + 4] /\ m[q + 4] \in Nat
      BY <1>1, <1>9, <1>10, <1>11, <2>1 DEF ChunkAt
    <3> QED BY <3>1 DEF chunksize, prev_inuse
  <2>2. CASE q = n /\ ~takes
    <3>1. m2[q + 4] = s /\ (s \div 4) * 4 = s
      BY <1>5, <1>6, <2>2
    <3> QED BY <1>6, <2>2, <3>1 DEF chunksize, s
  <2> QED BY <2>1, <2>2
<1>12. m2[f + 4] \in Nat /\ chunksize(m2, f) = size /\ prev_inuse(m2, f)
  <2>1. size + 1 \in Nat /\ ((size + 1) \div 4) * 4 = size /\ (size + 1) % 2 = 1
    BY <1>4, TagWord
  <2> QED BY <1>5, <2>1 DEF chunksize, prev_inuse
<1>13. Tiling(SizesOf(m2, A2), Len(tp))
  <2>1. SameSizes(m, m2, A2 \ {f})
    BY <1>11 DEF SameSizes
  <2> QED BY <1>12, <2>1, MergedTiling DEF f, size, A2
<1>14. /\ IsHeap(m2, tp2) /\ Len(tp2) = Len(tp)
       /\ n = t => /\ tp2[UnitOf(p)] = f
                   /\ \A w \in 1..Len(tp) : w # UnitOf(p) => tp2[w] = tp[w]
                   /\ ToSet(tp2) = (ToSet(tp) \ {t}) \cup {f}
       /\ n # t => tp2 = tp
  <2>1. IsHeap(m2, tp)
    BY <1>5 DEF IsHeap
  <2>2. CASE n = t
    <3>1. tp2 = MoveTop(tp, UnitOf(p), f) /\ OneTop(tp, UnitOf(p))
      BY <1>3, <2>2, TopsDiffer DEF MoveTop, OneTop
    <3> HIDE DEF tp2
    <3>2. IsHeap(m2, tp2) /\ TopMoved(tp, tp2, UnitOf(p), f)
      BY ONLY <1>2, <1>3, <2>1, <3>1, TopMoves
    <3> QED BY <2>2, <3>2 DEF TopMoved
  <2>3. CASE n # t
    BY <2>1, <2>3
  <2> QED BY <2>2, <2>3
<1> HIDE DEF tp2
<1>15. Tiles(F2, U2, tp2) = A2
  <2>1. t \in ToSet(tp) /\ (f \in F => f \notin ToSet(tp)) /\ p \notin ToSet(tp)
    <3>1. t \in ToSet(tp)
      BY <1>3, TopsDiffer
    <3>2. \A q \in F \cup U : q \notin ToSet(tp)
      <4>1. ASSUME NEW q \in F \cup U PROVE q \notin ToSet(tp)
        <5>1. q \in A
          BY DEF Tiles
        <5> QED BY <1>1, <5>1 DEF ChunkAt
      <4> QED BY <4>1
    <3> QED BY <3>1, <3>2
  <2>2. CASE n = t
    BY <1>2, <1>3, <1>7, <1>14, <2>1, <2>2 DEF Tiles
  <2>3. CASE n # t
    <3>1. n \notin ToSet(tp)
      <4>1. n \in F \cup U
        BY <1>2, <2>3
      <4> QED BY <1>1, <1>2, <4>1 DEF ChunkAt
    <3>2. n \in F => n \notin U
      BY DEF Layout
    <3> QED BY <1>2, <1>3, <1>7, <1>14, <2>1, <2>3, <3>1, <3>2 DEF Tiles
  <2> QED BY <2>2, <2>3
<1>16. ASSUME NEW g \in F1
       PROVE  /\ g \in A2 /\ g # f /\ next_chunk(m2, g) = g + chunksize(m, g)
              /\ g + chunksize(m, g) \in U2
              /\ m2[g + chunksize(m, g)] = chunksize(m, g)
  <2>1. g \in A /\ g # p /\ g # n /\ g # f
    BY <1>3 DEF Tiles
  <2>2. g \in A2
    BY <1>7, <2>1
  <2>3. /\ g + chunksize(m, g) \in U /\ m[g + chunksize(m, g)] = chunksize(m, g)
        /\ g + chunksize(m, g) \in Addr
    BY <1>1, <2>1 DEF ChunkAt
  <2>4. g + chunksize(m, g) # p
    BY <1>2, <2>1
  <2> DEFINE x == g + chunksize(m, g)
  <2>5. x \in Nat /\ x % 8 = 0
    BY <1>9, <2>1, <2>2
  <2>6. x <= f \/ x > e
    BY <1>2, <1>8, <1>9, <2>1, <2>2
  <2> HIDE DEF x
  <2>7. x \notin (f + 8)..(e - 4) /\ x # f + 4 /\ x # e /\ x # n + 4
    BY <1>2, <1>8, <2>5, <2>6
  <2>8. m2[x] = m[x]
    BY <1>5, <2>3, <2>7 DEF x
  <2> QED BY <1>11, <2>1, <2>2, <2>3, <2>4, <2>8 DEF next_chunk, x
<1>17. next_chunk(m2, f) = e /\ e # f
  BY <1>2, <1>8, <1>12 DEF next_chunk, e
<1>18. n # t => e \in U2
  <2>1. ASSUME n # t, takes PROVE e \in U /\ e # p
    <3>1. n \in F
      BY <1>2, <2>1
    <3>2. n + s \in U
      BY <1>1, <1>2, <3>1 DEF ChunkAt, s
    <3> QED BY <1>2, <1>3, <1>4, <1>6, <2>1, <3>2
  <2>2. ASSUME n # t, ~takes PROVE e \in U /\ e # p
    BY <1>2, <1>3, <1>4, <2>2
  <2> QED BY <2>1, <2>2
<1>19. ASSUME NEW q \in A2
       PROVE  prev_inuse(m2, q) <=> \A g \in F2 : next_chunk(m2, g) # q
  <2>1. CASE q = f
    <3>1. ASSUME NEW g \in F1 PROVE g + chunksize(m, g) # f
      <4>1. CASE f = p
        BY <1>16, <4>1
      <4>2. CASE f # p
        BY <1>2, <1>3, <1>16, <4>2
      <4> QED BY <4>1, <4>2
    <3> QED BY <1>12, <1>16, <1>17, <2>1, <3>1
  <2>2. CASE q # f /\ q = e /\ n # t
    <3>1. ~prev_inuse(m2, q)
      <4>1. CASE takes
        <5>1. n \in F /\ n + s = q
          BY <1>2, <1>4, <2>2, <4>1
        <5>2. ~prev_inuse(m, q)
          BY <1>1, <1>9, <2>2, <5>1 DEF ChunkAt, s
        <5> QED BY <1>11, <2>2, <4>1, <5>2
      <4>2. CASE ~takes
        <5>1. q = n /\ m2[q + 4] = s
          BY <1>4, <1>5, <2>2, <4>2
        <5>2. s % 2 # 1
          BY <1>6
        <5> QED BY <5>1, <5>2 DEF prev_inuse
      <4> QED BY <4>1, <4>2
    <3>2. f \in F2 /\ next_chunk(m2, f) = q
      BY <1>17, <2>2
    <3> QED BY <3>1, <3>2
  <2>3. CASE q # f /\ (q # e \/ n = t)
    <3>1. q \in A /\ q # p /\ (q # n \/ takes)
      BY <1>2, <1>4, <1>9, <2>3
    <3>2. prev_inuse(m2, q) <=> prev_inuse(m, q)
      BY <1>11, <2>3, <3>1
    <3>3. prev_inuse(m, q) <=> \A g \in F : g + chunksize(m, g) # q
      BY <1>1, <3>1 DEF ChunkAt
    <3>4. f \in F => f + chunksize(m, f) # q
      BY <1>2, <1>3, <3>1
    <3>5. n \in F => n + chunksize(m, n) # q
      BY <1>2, <1>4, <2>3 DEF s
    <3>6. (\A g \in F : g + chunksize(m, g) # q) <=> (\A g \in F1 : g + chunksize(m, g) # q)
      BY <3>4, <3>5
    <3>7. n # t => e # q
      BY <2>3
    <3>8. (\A g \in F1 : g + chunksize(m, g) # q) <=> (\A g \in F1 : next_chunk(m2, g) # q)
      BY <1>16
    <3> QED BY <1>17, <3>2, <3>3, <3>6, <3>7, <3>8
  <2> QED BY <2>1, <2>2, <2>3
<1>20. Tagged(m2, F2, A2)
  <2>1. \A q \in A2 : m2[q + 4] \in Nat
    BY <1>11, <1>12
  <2>2. \A g \in F1 : m2[next_chunk(m2, g)] = chunksize(m2, g)
    BY <1>11, <1>16
  <2>3. n # t => m2[next_chunk(m2, f)] = chunksize(m2, f)
    BY <1>5, <1>12, <1>17
  <2> QED BY <1>19, <2>1, <2>2, <2>3 DEF Tagged
<1>21. ASSUME NEW q \in U2
       PROVE  q \in A2 /\ q # f /\ next_chunk(m2, q) # UnitEnd(UnitOf(q))
  <2>1. q \in A /\ q # p /\ q \in U /\ q # f
    BY <1>2, <1>3 DEF Tiles
  <2>2. q \in A2
    <3>1. takes => q # n
      BY <1>2, <2>1 DEF Layout
    <3> QED BY <1>7, <2>1, <3>1
  <2>3. q + chunksize(m, q) # UnitEnd(UnitOf(q))
    BY <1>1, <2>1 DEF ChunkAt
  <2> QED BY <1>11, <2>1, <2>2, <2>3 DEF next_chunk
<1>22. ASSUME NEW w \in 1..Len(tp2)
       PROVE  UnitOf(tp2[w]) = w /\ next_chunk(m2, tp2[w]) = UnitEnd(w)
  <2>1. w \in 1..Len(tp)
    BY <1>14
  <2>2. tp[w] \in A /\ UnitOf(tp[w]) = w /\ tp[w] + chunksize(m, tp[w]) = UnitEnd(w)
        /\ tp[w] \in ToSet(tp)
    BY <2>1, TopsDiffer
  <2>3. tp[w] # p /\ tp[w] # f /\ (n # t => tp[w] # n)
    <3>1. tp[w] \notin F \cup U
      BY <1>1, <2>2 DEF ChunkAt
    <3> QED BY <1>2, <3>1
  <2>4. CASE w = UnitOf(p) /\ n = t
    <3>1. tp2[w] = f /\ takes /\ n = tp[w]
      BY <1>2, <1>14, <2>4
    <3>2. e = UnitEnd(w)
      BY <1>4, <2>2, <3>1 DEF s
    <3> QED BY <1>2, <1>17, <2>4, <3>1, <3>2
  <2>5. CASE w # UnitOf(p) \/ n # t
    <3>1. tp2[w] = tp[w]
      BY <1>14, <2>1, <2>5
    <3>2. tp[w] # n
      BY <1>2, <2>2, <2>3, <2>5
    <3>3. tp[w] \in A2
      BY <1>7, <2>2, <2>3, <3>2
    <3> QED BY <1>11, <2>2, <2>3, <3>1, <3>3 DEF next_chunk
  <2> QED BY <2>4, <2>5
<1>23. F2 \cap U2 = {} /\ \A g \in F2 : next_chunk(m2, g) \in U2
  <2>1. F \cap U = {} /\ f \notin U2
    BY <1>2, <1>3 DEF Layout
  <2>2. \A g \in F1 : next_chunk(m2, g) \in U2
    BY <1>16
  <2>3. n # t => next_chunk(m2, f) \in U2
    BY <1>17, <1>18
  <2> QED BY <2>1, <2>2, <2>3
<1>24. Layout(m2, F2, U2, tp2)
  <2>1. Tiling(SizesOf(m2, Tiles(F2, U2, tp2)), Len(tp2)) /\ Tagged(m2, F2, Tiles(F2, U2, tp2))
    BY <1>13, <1>14, <1>15, <1>20
  <2>2. \A q \in U2 : next_chunk(m2, q) # UnitEnd(UnitOf(q))
    BY <1>21
  <2>3. \A w \in 1..Len(tp2) : UnitOf(tp2[w]) = w /\ next_chunk(m2, tp2[w]) = UnitEnd(w)
    BY <1>22
  <2> HIDE DEF F2, U2
  <2> QED BY <1>23, <2>1, <2>2, <2>3 DEF Layout, Tiles
<1>25. SameSizes(m, m2, F1 \cup U2)
  BY <1>11, <1>16, <1>21 DEF SameSizes
<1> QED
  BY <1>14, <1>24, <1>25 DEF Merged, f, n, tp2

---------------------------------------------------------------------------
(* Realloc in place                                                        *)

\* Chunk p has come to newsize bytes.
Extend(m, p, newsize) ==
  set_inuse_bit_at_offset(set_head_size(m, p, newsize), p, newsize)

Extended(m, j, F, U, tp, p, newsize) ==
  /\ IsHeap(j, tp) /\ Layout(j, F, U, tp) /\ p \in U
  /\ chunksize(j, p) = newsize
  /\ SameSizes(m, j, (F \cup U) \ {p})

\* It was that long before.
LEMMA ExtendsNothing ==
  ASSUME NEW m, NEW F, NEW U, NEW tp, IsHeap(m, tp), Layout(m, F, U, tp), NEW p \in U
  PROVE  Extended(m, Extend(m, p, chunksize(m, p)), F, U, tp, p, chunksize(m, p))
<1> DEFINE s == chunksize(m, p)
           bit == m[p + 4] % 2
           h == set_head_size(m, p, s)
<1>1. ChunkAt(m, F, U, tp, p)
  BY ChunkFacts DEF Tiles
<1>2. /\ p \in Nat /\ p % 8 = 0 /\ s \in Nat /\ s % 8 = 0 /\ p + 4 \in Addr /\ m[p + 4] \in Nat
  BY <1>1 DEF ChunkAt
<1>3. /\ bit \in {0, 1} /\ s + bit \in Nat /\ ((s + bit) \div 4) * 4 = s /\ (s + bit) % 2 = bit
  <2>1. bit \in {0, 1}
    BY <1>2, TagWord
  <2> HIDE DEF bit, s
  <2> QED BY <1>2, <2>1, TagWord
<1>4. /\ h \in [Addr -> Nat \cup {DATA}] /\ h[p + 4] = s + bit
      /\ \A w \in Addr : w # p + 4 => h[w] = m[w]
  <2>1. h = [m EXCEPT ![p + 4] = s + bit]
    BY Zenon DEF set_head_size, set_head
  <2> HIDE DEF h, bit, s
  <2> QED BY <1>2, <1>3, <2>1 DEF IsHeap
<1> HIDE DEF h
<1>5. IsHeap(h, tp) /\ Layout(h, F, U, tp) /\ SameSizes(m, h, Tiles(F, U, tp))
  <2>1. ASSUME NEW q \in Tiles(F, U, tp)
        PROVE  /\ h[q + 4] \in Nat /\ chunksize(h, q) = chunksize(m, q)
               /\ prev_inuse(h, q) <=> prev_inuse(m, q)
    <3>1. CASE q = p
      BY <1>2, <1>3, <1>4, <3>1 DEF chunksize, prev_inuse
    <3>2. CASE q # p
      <4>1. q \in Nat /\ q + 4 \in Addr /\ m[q + 4] \in Nat
        BY ChunkFacts DEF ChunkAt
      <4> QED BY <1>2, <1>4, <3>2, <4>1 DEF chunksize, prev_inuse
    <3> QED BY <3>1, <3>2
  <2>2. ASSUME NEW q \in F PROVE h[q + chunksize(m, q)] = m[q + chunksize(m, q)]
    <3>1. /\ q \in Nat /\ q % 8 = 0 /\ chunksize(m, q) \in Nat /\ chunksize(m, q) % 8 = 0
          /\ q + chunksize(m, q) \in Addr
      BY ChunkFacts DEF ChunkAt, Tiles
    <3>2. q + chunksize(m, q) # p + 4
      <4> DEFINE c == chunksize(m, q)
      <4>1. q \in Nat /\ q % 8 = 0 /\ c \in Nat /\ c % 8 = 0 /\ p \in Nat /\ p % 8 = 0
        BY <1>2, <3>1
      <4> HIDE DEF c
      <4>2. q + c # p + 4
        BY ONLY <4>1
      <4> QED BY <4>2 DEF c
    <3> QED BY <1>4, <3>1, <3>2
  <2> QED BY <1>4, <2>1, <2>2, SameTags
<1>6. chunksize(h, p) = s
  BY <1>5 DEF SameSizes, Tiles
<1> DEFINE j == set_inuse_bit_at_offset(h, p, chunksize(h, p))
<1>7. /\ IsHeap(j, tp) /\ Layout(j, F \ {p}, U \cup {p}, tp)
      /\ SameSizes(h, j, Tiles(F, U, tp))
  BY <1>5, MarksInuse
<1>8. F \ {p} = F /\ U \cup {p} = U
  BY DEF Layout
<1>9. Extend(m, p, s) = j
  BY <1>6 DEF Extend, h
<1> HIDE DEF j, s
<1>10. Layout(j, F, U, tp)
  BY <1>7, <1>8
<1>11. SameSizes(m, j, Tiles(F, U, tp)) /\ chunksize(j, p) = s
  BY <1>5, <1>6, <1>7 DEF SameSizes, Tiles
<1>12. SameSizes(m, j, (F \cup U) \ {p})
  BY <1>11 DEF SameSizes, Tiles
<1> QED BY <1>7, <1>9, <1>10, <1>11, <1>12 DEF Extended, s

\* It has taken in the chunk behind it.
LEMMA ExtendsOver ==
  ASSUME NEW m, NEW F, NEW U, NEW tp, IsHeap(m, tp), Layout(m, F, U, tp), NEW p \in U,
         NEW y, y = next_chunk(m, p), y \in F \cup U,
         NEW s, s = chunksize(m, p) + chunksize(m, y)
  PROVE  Extended(m, Extend(m, p, s), F \ {y}, U \ {y}, tp, p, s)
<1> DEFINE j == Extend(m, p, s)
<1>1. j = JoinMem(m, p)
  BY DEF Extend, JoinMem
<1> HIDE DEF j
<1>2. Joined(m, j, F, U, tp, p, next_chunk(m, p))
  BY <1>1, JoinsUsed
<1>3. /\ IsHeap(j, tp) /\ Layout(j, F \ {y}, U \ {y}, tp)
      /\ SameSizes(m, j, Tiles(F, U, tp) \ {p, y})
      /\ chunksize(j, p) = s /\ p # y
  BY <1>2 DEF Joined
<1>4. SameSizes(m, j, ((F \ {y}) \cup (U \ {y})) \ {p})
  BY <1>3 DEF SameSizes, Tiles
<1> QED BY <1>3, <1>4 DEF Extended, j

\* What is written when a part of the chunk is left over, from r on: the
\* chunk is extended, split and returned.
ShrinkMem(m, p, newsize, nb) ==
  set_inuse_bit_at_offset(
    set_head(Return(set_head_size(m, p, nb), p, nb), p + nb, newsize - nb, 1), p + nb, newsize - nb)
SplitAndReturn(j, p, newsize, nb) ==
  Return(set_head(set_head_size(j, p, nb), p + nb, newsize - nb, 1), p, nb)

\* Splitting and freeing the rest writes the same tags whether the memory of the
\* block is returned before or after.
LEMMA ShrinkWords ==
  ASSUME NEW m \in [Addr -> Nat \cup {DATA}], NEW p \in Nat, p % 8 = 0, p + 4 \in Addr, m[p + 4] \in Nat,
         NEW newsize \in Nat, newsize % 8 = 0, NEW nb \in Nat, nb % 8 = 0, nb >= 16,
         newsize - nb >= 16,
         p + nb + 4 \in Addr, p + newsize + 4 \in Addr
  PROVE  ShrinkMem(m, p, newsize, nb) = SplitAndReturn(Extend(m, p, newsize), p, newsize, nb)
<1> DEFINE bit == m[p + 4] % 2
           r == p + nb
           rem == newsize - nb
           e == p + newsize + 4
           x == [w \in Addr |-> IF w \in (p + 8)..r THEN DATA
                                ELSE IF w = p + 4 THEN nb + bit
                                ELSE IF w = r + 4 THEN rem + 1
                                ELSE IF w = e THEN 2 * (m[e] \div 2) + 1
                                ELSE m[w]]
           h == set_head_size(m, p, nb)
           g == Return(h, p, nb)
           j == Extend(m, p, newsize)
           k == set_head_size(j, p, nb)
           l == set_head(k, r, rem, 1)
<1>1. /\ bit \in {0, 1} /\ nb + bit \in Nat /\ ((nb + bit) \div 4) * 4 = nb
      /\ newsize + bit \in Nat /\ (newsize + bit) % 2 = bit
  <2>1. bit \in {0, 1}
    BY TagWord
  <2> HIDE DEF bit
  <2> QED BY <2>1, TagWord
<1>2. /\ r \in Nat /\ rem \in Nat /\ rem >= 16 /\ e \in Addr /\ r + 4 \in Addr
      /\ r + rem + 4 = e /\ p + 4 < p + 8 /\ r < r + 4 /\ r + 4 < e /\ p + 4 < r /\ e \in Nat
      /\ e # p + 4
  OBVIOUS
<1> HIDE DEF bit, r, rem, e
<1>3. /\ h \in [Addr -> Nat \cup {DATA}] /\ h[p + 4] = nb + bit
      /\ \A w \in Addr : w # p + 4 => h[w] = m[w]
  <2>1. h = [m EXCEPT ![p + 4] = nb + bit]
    BY Zenon DEF set_head_size, set_head, bit
  <2> HIDE DEF h
  <2> QED BY <1>1, <2>1
<1>5. g = [w \in Addr |-> IF w \in (p + 8)..r THEN DATA ELSE h[w]]
  <2> HIDE DEF h
  <2> QED BY DEF Return, Forget, r
<1>6. ShrinkMem(m, p, newsize, nb) = [[g EXCEPT ![r + 4] = rem + 1] EXCEPT ![e] = 2 * (@ \div 2) + 1]
  <2>1. ShrinkMem(m, p, newsize, nb) = set_inuse_bit_at_offset(set_head(g, r, rem, 1), r, rem)
    BY DEF ShrinkMem, r, rem
  <2> HIDE DEF g
  <2>2. set_head(g, r, rem, 1) = [g EXCEPT ![r + 4] = rem + 1]
    BY DEF set_head
  <2> QED BY <1>2, <2>1, <2>2 DEF set_inuse_bit_at_offset
<1>7. [[g EXCEPT ![r + 4] = rem + 1] EXCEPT ![e] = 2 * (@ \div 2) + 1] = x
  <2> HIDE DEF h
  <2>1. g[e] = m[e] /\ e # r + 4
    BY <1>2, <1>3, <1>5
  <2>2. \A w \in Addr : g[w] = IF w \in (p + 8)..r THEN DATA ELSE IF w = p + 4 THEN nb + bit ELSE m[w]
    BY <1>3, <1>5
  <2>3. DOMAIN g = Addr
    BY <1>5
  <2> HIDE DEF g
  <2> DEFINE y == [[g EXCEPT ![r + 4] = rem + 1] EXCEPT ![e] = 2 * (@ \div 2) + 1]
  <2>4. /\ y = [w \in Addr |-> y[w]] /\ y[e] = 2 * (m[e] \div 2) + 1 /\ y[r + 4] = rem + 1
        /\ \A w \in Addr : w # e /\ w # r + 4 => y[w] = g[w]
    BY <1>2, <2>1, <2>3
  <2> HIDE DEF y
  <2>5. ASSUME NEW w \in Addr PROVE y[w] = x[w]
    <3>1. e \notin (p + 8)..r /\ r + 4 \notin (p + 8)..r /\ e # p + 4 /\ r + 4 # p + 4 /\ e # r + 4
      BY <1>2
    <3>2. CASE w = e
      BY <2>4, <3>1, <3>2
    <3>3. CASE w = r + 4
      BY <2>4, <3>1, <3>3
    <3>4. CASE w # e /\ w # r + 4
      BY <2>2, <2>4, <3>4
    <3> QED BY <3>2, <3>3, <3>4
  <2>6. x = [w \in Addr |-> x[w]]
    OBVIOUS
  <2> HIDE DEF x
  <2> QED BY <2>4, <2>5, <2>6 DEF y
<1>8. /\ j \in [Addr -> Nat \cup {DATA} \cup Int] /\ j[p + 4] = newsize + bit /\ j[e] = 2 * (m[e] \div 2) + 1
      /\ \A w \in Addr : w # p + 4 /\ w # e => j[w] = m[w]
  <2> DEFINE h2 == [m EXCEPT ![p + 4] = newsize + bit]
  <2>1. set_head_size(m, p, newsize) = h2
    BY Zenon DEF set_head_size, set_head, bit
  <2>2. j = [h2 EXCEPT ![e] = 2 * (@ \div 2) + 1]
    <3> HIDE DEF h2
    <3> QED BY <2>1 DEF Extend, set_inuse_bit_at_offset, e
  <2>3. h2[p + 4] = newsize + bit /\ \A w \in Addr : w # p + 4 => h2[w] = m[w]
    OBVIOUS
  <2>4. h2 \in [Addr -> Nat \cup {DATA} \cup Int]
    BY <1>1 DEF DATA
  <2> HIDE DEF h2, j
  <2> QED BY <1>2, <2>2, <2>3, <2>4 DEF DATA
<1>9. /\ l = [[j EXCEPT ![p + 4] = nb + bit] EXCEPT ![r + 4] = rem + 1]
  <2>1. j[p + 4] % 2 = bit
    BY <1>1, <1>8
  <2> HIDE DEF j
  <2>2. k = [j EXCEPT ![p + 4] = nb + bit]
    BY <2>1, Zenon DEF set_head_size, set_head
  <2> HIDE DEF k
  <2> QED BY <2>2 DEF set_head
<1> HIDE DEF j
<1>10. /\ DOMAIN l = Addr /\ l[p + 4] = nb + bit /\ l[r + 4] = rem + 1 /\ l[e] = 2 * (m[e] \div 2) + 1
       /\ \A w \in Addr : w # p + 4 /\ w # r + 4 /\ w # e => l[w] = m[w]
  <2> HIDE DEF l
  <2> QED BY <1>2, <1>8, <1>9
<1>12. SplitAndReturn(j, p, newsize, nb) = [w \in Addr |-> IF w \in (p + 8)..r THEN DATA ELSE l[w]]
  <2>1. SplitAndReturn(j, p, newsize, nb) = Return(l, p, nb)
    BY DEF SplitAndReturn, r, rem
  <2> HIDE DEF l
  <2> QED BY <2>1 DEF Return, Forget, r
<1>13. [w \in Addr |-> IF w \in (p + 8)..r THEN DATA ELSE l[w]] = x
  <2> HIDE DEF l
  <2>1. ASSUME NEW w \in Addr, w \notin (p + 8)..r PROVE l[w] = x[w]
    <3>1. CASE w = p + 4
      BY <1>2, <1>10, <2>1, <3>1
    <3>2. CASE w = r + 4
      BY <1>2, <1>10, <2>1, <3>2
    <3>3. CASE w = e
      BY <1>2, <1>10, <2>1, <3>3
    <3>4. CASE w # p + 4 /\ w # r + 4 /\ w # e
      BY <1>10, <2>1, <3>4
    <3> QED BY <3>1, <3>2, <3>3, <3>4
  <2>2. \A w \in Addr : w \in (p + 8)..r => x[w] = DATA
    OBVIOUS
  <2>3. x = [w \in Addr |-> x[w]]
    OBVIOUS
  <2> HIDE DEF x
  <2> QED BY <2>1, <2>2, <2>3
<1> QED BY <1>6, <1>7, <1>12, <1>13 DEF j

\* What is left over becomes the chunk x, which is still in use.
Shrunk(m, m2, F, U, tp, p, nb, x) ==
  /\ IsHeap(m2, tp) /\ Layout(m2, F, U \cup {x}, tp)
  /\ SameSizes(m, m2, (F \cup U) \ {p}) /\ chunksize(m2, p) = nb
  /\ x \in Chunk /\ x \notin F \cup U /\ UnitOf(x) = UnitOf(p)

\* What an extended block does not need is split off.
LEMMA Shrinks ==
  ASSUME NEW m \in [Addr -> Nat \cup {DATA}], NEW F, NEW U, NEW tp, NEW p, m[p + 4] \in Nat,
         NEW newsize, Extended(m, Extend(m, p, newsize), F, U, tp, p, newsize),
         NEW nb \in Nat, nb % 8 = 0, nb >= 16, newsize - nb >= 16
  PROVE  Shrunk(m, ShrinkMem(m, p, newsize, nb), F, U, tp, p, nb, p + nb)
<1> DEFINE j == Extend(m, p, newsize)
           r == p + nb
           s == set_head(set_head_size(j, p, nb), r, chunksize(j, p) - nb, 1)
           k == Return(s, p, nb)
<1>1. /\ IsHeap(j, tp) /\ Layout(j, F, U, tp) /\ p \in U /\ chunksize(j, p) = newsize
      /\ SameSizes(m, j, (F \cup U) \ {p})
  BY DEF Extended
<1> HIDE DEF j
<1>2. UsedSplit(j, s, F, U, tp, p, nb, r)
  <2>1. chunksize(j, p) - nb >= 16
    BY <1>1
  <2> QED BY <1>1, <2>1, SplitsUsed
<1>3. SplitAndReturn(j, p, newsize, nb) = k
  BY <1>1 DEF SplitAndReturn
<1> HIDE DEF s
<1>4. /\ IsHeap(s, tp) /\ Layout(s, F, U \cup {r}, tp) /\ SameSizes(j, s, Tiles(F, U, tp) \ {p})
      /\ chunksize(s, p) = nb
      /\ r \in Chunk /\ r \notin Tiles(F, U, tp) /\ UnitOf(r) = UnitOf(p)
  BY <1>2 DEF UsedSplit
<1>5. /\ IsHeap(k, tp) /\ Layout(k, F, U \cup {r}, tp) /\ SameSizes(s, k, Tiles(F, U \cup {r}, tp))
  <2> DEFINE W == U \cup {r}
  <2>1. p \in W /\ Layout(s, F, W, tp)
    BY <1>1, <1>4
  <2> HIDE DEF W
  <2>2. IsHeap(k, tp) /\ Layout(k, F, W, tp) /\ SameSizes(s, k, Tiles(F, W, tp))
    BY <1>4, <2>1, Returns
  <2> QED BY <2>2 DEF W
<1>6. SameSizes(m, k, (F \cup U) \ {p}) /\ chunksize(k, p) = nb
  BY <1>1, <1>4, <1>5 DEF SameSizes, Tiles
<1>7. ShrinkMem(m, p, newsize, nb) = k
  <2>1. ChunkAt(j, F, U, tp, p)
    BY <1>1, ChunkFacts DEF Tiles
  <2>2. /\ p \in Nat /\ p % 8 = 0 /\ p + 4 \in Addr /\ newsize \in Nat /\ newsize % 8 = 0
        /\ p + newsize + 4 \in Addr
    BY <1>1, <2>1 DEF ChunkAt
  <2>3. p + nb + 4 \in Addr
    <3> DEFINE W == U \cup {r}
    <3>1. r \in Tiles(F, W, tp) /\ Layout(s, F, W, tp)
      BY <1>4 DEF Tiles
    <3> HIDE DEF W, r
    <3>2. ChunkAt(s, F, W, tp, r)
      BY <1>4, <3>1, ChunkFacts
    <3>3. r + 4 \in Addr
      BY <3>2 DEF ChunkAt
    <3> QED BY <3>3 DEF r
  <2>4. ShrinkMem(m, p, newsize, nb) = SplitAndReturn(j, p, newsize, nb)
    BY <2>2, <2>3, ShrinkWords DEF j
  <2> QED BY <1>3, <2>4
<1>8. r \notin F \cup U
  BY <1>4 DEF Tiles
<1> HIDE DEF k
<1> QED BY <1>4, <1>5, <1>6, <1>7, <1>8 DEF Shrunk

\* Nothing is left over.
LEMMA ExtendsOnly ==
  ASSUME NEW m, NEW F, NEW U, NEW tp, NEW p,
         NEW j, NEW newsize \in Nat, Extended(m, j, F, U, tp, p, newsize),
         NEW nb \in Nat, nb <= newsize, NEW k, k = Return(j, p, nb)
  PROVE  Extended(m, k, F, U, tp, p, newsize)
<1>1. /\ IsHeap(j, tp) /\ Layout(j, F, U, tp) /\ p \in U /\ chunksize(j, p) = newsize
      /\ SameSizes(m, j, (F \cup U) \ {p})
  BY DEF Extended
<1>2. IsHeap(k, tp) /\ Layout(k, F, U, tp) /\ SameSizes(j, k, Tiles(F, U, tp))
  BY <1>1, Returns
<1>3. SameSizes(m, k, (F \cup U) \ {p}) /\ chunksize(k, p) = newsize
  BY <1>1, <1>2 DEF SameSizes, Tiles
<1> QED BY <1>1, <1>2, <1>3 DEF Extended
=============================================================================
