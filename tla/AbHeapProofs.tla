---------------------------- MODULE AbHeapProofs ----------------------------
(***************************************************************************)
(* The chunk level keeps its invariant, until a unit_top is exhausted: for *)
(* any unit size, any number of units, labels, bins and clients' blocks.   *)
(***************************************************************************)
EXTENDS ListProofs

---------------------------------------------------------------------------
(* The invariant in parts                                                  *)

QuickAll == UNION {Quick(L) : L \in Label}
LiveAt   == {c.p : c \in live}

Listed  == \A L \in Label : MstOK(av[L], mem)
Flagged == \A L \in Label :
             QuickOf(av[L]) # {} => av[L].fast \/ (pc = "consolidate" /\ call.label = L)
Owned   == \A L \in Label : \A p \in Binned(av[L]) \cup QuickOf(av[L]) : unit[UnitOf(p)] = L
Apart   == QuickAll \cap (LiveAt \cup Held) = {}

HeapParts ==
  /\ TypeOK
  /\ Layout(mem, FreeChunks, UsedChunks, top)
  /\ Listed /\ Flagged /\ Owned /\ Apart
  /\ LiveOK
  /\ CallOK

\* Chunks that carry memory in use: fast ones, those of clients, the one in hand.
LEMMA UsedIs == UsedChunks = QuickAll \cup LiveAt \cup Held
BY DEF UsedChunks, QuickAll, LiveAt

\* The same after a step.
LEMMA UsedIsNext == UsedChunks' = QuickAll' \cup LiveAt' \cup Held'
BY DEF UsedChunks, QuickAll, LiveAt

\* Free chunks are those on the unsorted list or in a bin of some label.
LEMMA FreeIs == \A p : p \in FreeChunks <=> \E L \in Label : p \in Binned(av[L])
BY DEF FreeChunks

\* Fast chunks are those in a fastbin of some label.
LEMMA QuickAllIs == \A p : p \in QuickAll <=> \E L \in Label : p \in QuickOf(av[L])
BY DEF QuickAll, Quick, QuickOf

\* No fast chunks, no list in a fastbin.
LEMMA FastEmpty ==
  ASSUME NEW a, NEW m, MstOK(a, m)
  PROVE  QuickOf(a) = {} <=> \A s \in Fast : a.fastbins[s] = <<>>
<1>1. \A s \in Fast : Lists(a.fastbins[s], ToSet(a.fastbins[s]))
  BY DEF MstOK
<1>2. \A s \in Fast : a.fastbins[s] = <<>> <=> ToSet(a.fastbins[s]) = {}
  BY <1>1, ListFacts
<1> QED BY <1>2, QuickIs

\* The invariant gives its parts,
LEMMA PartsOf ==
  ASSUME HeapInv, ~exhausted
  PROVE  HeapParts /\ FlagsOK
<1>1. TypeOK /\ Layout(mem, FreeChunks, UsedChunks, top) /\ ListsRight /\ LiveOK /\ CallOK
  BY DEF HeapInv
<1>2. ASSUME NEW L \in Label PROVE MstOK(av[L], mem)
  <2>1. av[L] \in Mstate
    BY <1>1 DEF TypeOK
  <2>2. /\ av[L].unsorted \in Seq(Chunk)
        /\ \A i \in Bins : av[L].bins[i] \in Seq(Chunk)
        /\ \A s \in Fast : av[L].fastbins[s] \in Seq(Chunk)
    BY <2>1 DEF Mstate
  <2>3. /\ Lists(av[L].unsorted, ToSet(av[L].unsorted))
        /\ \A i \in Bins : Lists(av[L].bins[i], ToSet(av[L].bins[i]))
        /\ \A s \in Fast : Lists(av[L].fastbins[s], ToSet(av[L].fastbins[s]))
    BY <1>1, <2>2 DEF ListsRight, Lists
  <2> QED BY <1>1, <2>1, <2>3 DEF ListsRight, MstOK, Size
<1>3. Listed
  BY <1>2 DEF Listed
<1>4. Flagged
  <2>1. ASSUME NEW L \in Label, QuickOf(av[L]) # {}
        PROVE  av[L].fast \/ (pc = "consolidate" /\ call.label = L)
    <3>1. PICK s \in Fast : av[L].fastbins[s] # <<>>
      BY <1>2, <2>1, FastEmpty
    <3> QED BY <1>1, <3>1 DEF ListsRight
  <2> QED BY <2>1 DEF Flagged
<1>5. Owned /\ Apart
  <2>1. \A L \in Label : \A p \in Binned(av[L]) \cup QuickOf(av[L]) :
          unit[UnitOf(p)] = L /\ p \notin LiveAt \cup Held
    BY <1>1 DEF ListsRight, Quick, QuickOf, LiveAt
  <2> QED BY <2>1, QuickAllIs DEF Owned, Apart
<1>6. FlagsOK
  BY DEF HeapInv
<1> QED BY <1>1, <1>3, <1>4, <1>5, <1>6 DEF HeapParts

\* and the parts give the invariant.
LEMMA WholeOf ==
  ASSUME HeapParts, FlagsOK
  PROVE  HeapInv
<1>1. TypeOK /\ Layout(mem, FreeChunks, UsedChunks, top) /\ LiveOK /\ CallOK
  BY DEF HeapParts
<1>2. \A L \in Label : \A p \in Binned(av[L]) \cup QuickOf(av[L]) : p \notin LiveAt \cup Held
  <2>1. FreeChunks \cap UsedChunks = {}
    BY <1>1 DEF Layout
  <2> QED BY <2>1, FreeIs, QuickAllIs, UsedIs DEF HeapParts, Apart
<1>3. \A L \in Label : \A p \in QuickOf(av[L]) : p \notin FreeChunks
  <2>1. FreeChunks \cap UsedChunks = {}
    BY <1>1 DEF Layout
  <2> QED BY <2>1, QuickAllIs, UsedIs
<1>4. ASSUME NEW L \in Label
      PROVE  /\ MstOK(av[L], mem)
             /\ \A s \in Fast : av[L].fastbins[s] # <<>> =>
                  av[L].fast \/ (pc = "consolidate" /\ call.label = L)
             /\ \A s \in Fast : \A p \in ToSet(av[L].fastbins[s]) : p \notin FreeChunks
             /\ \A p \in Binned(av[L]) \cup Quick(L) : unit[UnitOf(p)] = L /\ p \notin LiveAt \cup Held
  <2>1. MstOK(av[L], mem)
    BY DEF HeapParts, Listed
  <2>2. ASSUME NEW s \in Fast, av[L].fastbins[s] # <<>>
        PROVE  av[L].fast \/ (pc = "consolidate" /\ call.label = L)
    <3>1. QuickOf(av[L]) # {}
      BY <2>1, <2>2, FastEmpty
    <3> QED BY <3>1 DEF HeapParts, Flagged
  <2>3. \A s \in Fast : \A p \in ToSet(av[L].fastbins[s]) : p \notin FreeChunks
    BY <1>3, QuickIs
  <2>4. Quick(L) = QuickOf(av[L])
    BY DEF Quick, QuickOf
  <2> QED BY <1>2, <2>1, <2>2, <2>3, <2>4 DEF HeapParts, Owned
<1>5. ListsRight
  <2>1. ASSUME NEW L \in Label
        PROVE  LET m == av[L]
               IN  /\ IsInjective(m.unsorted)
                   /\ \A i \in Bins :
                        /\ IsInjective(m.bins[i])
                        /\ m.bins[i] # <<>> => i \in m.binmap /\ m.any
                        /\ \A p \in ToSet(m.bins[i]) :
                             bin_index(Size(p)) = i /\ p \notin ToSet(m.unsorted)
                   /\ \A s \in Fast :
                        /\ IsInjective(m.fastbins[s])
                        /\ m.fastbins[s] # <<>> =>
                             m.any /\ (m.fast \/ (pc = "consolidate" /\ call.label = L))
                        /\ \A p \in ToSet(m.fastbins[s]) : Size(p) = s /\ p \notin FreeChunks
                   /\ m.unsorted # <<>> => m.any
                   /\ \A p \in Binned(m) \cup Quick(L) :
                        unit[UnitOf(p)] = L /\ p \notin {c.p : c \in live} \cup Held
    BY <1>4 DEF MstOK, Lists, Size, LiveAt
  <2> QED BY <2>1 DEF ListsRight
<1> QED BY <1>1, <1>5 DEF HeapInv

---------------------------------------------------------------------------
(* The sets of free and of fast chunks when the mstate of one label        *)
(* changes                                                                 *)

\* The mstate of label L is a2.
LEMMA MstAfter ==
  ASSUME HeapParts, NEW L \in Label, NEW a2, av' = [av EXCEPT ![L] = a2]
  PROVE  av'[L] = a2 /\ \A K \in Label : K # L => av'[K] = av[K]
BY DEF HeapParts, TypeOK

\* Free chunks after a step.
LEMMA FreeIsNext == \A p : p \in FreeChunks' <=> \E L \in Label : p \in Binned(av'[L])
BY DEF FreeChunks

\* Fast chunks after a step.
LEMMA QuickAllIsNext == \A p : p \in QuickAll' <=> \E L \in Label : p \in QuickOf(av'[L])
BY DEF QuickAll, Quick, QuickOf

\* The label keeps its free chunks.
LEMMA FreeSame ==
  ASSUME HeapParts, NEW L \in Label, NEW a2, av' = [av EXCEPT ![L] = a2],
         Binned(a2) = Binned(av[L])
  PROVE  FreeChunks' = FreeChunks
<1>1. av'[L] = a2 /\ \A K \in Label : K # L => av'[K] = av[K]
  BY MstAfter
<1>2. \A p : p \in FreeChunks' <=> \E K \in Label : p \in Binned(av'[K])
  BY FreeIsNext
<1>4. ASSUME NEW p
      PROVE  (\E K \in Label : p \in Binned(av'[K])) <=> p \in FreeChunks
  BY <1>1, FreeIs
<1>5. \A p : p \in FreeChunks' <=> p \in FreeChunks
  BY <1>2, <1>4
<1> QED BY <1>5, SetExtensionality, Zenon

\* The label loses a free chunk.
LEMMA FreeLess ==
  ASSUME HeapParts, NEW L \in Label, NEW a2, av' = [av EXCEPT ![L] = a2],
         NEW v \in Binned(av[L]),
         Binned(a2) = Binned(av[L]) \ {v}
  PROVE  FreeChunks' = FreeChunks \ {v}
<1>1. av'[L] = a2 /\ \A K \in Label : K # L => av'[K] = av[K]
  BY MstAfter
<1>2. \A p : p \in FreeChunks' <=> \E K \in Label : p \in Binned(av'[K])
  BY FreeIsNext
<1>3. \A K \in Label : K # L => Binned(av[K]) \cap {v} = {}
  BY FreeIs DEF HeapParts, Owned
<1>4. ASSUME NEW p
      PROVE  (\E K \in Label : p \in Binned(av'[K])) <=> p \in FreeChunks \ {v}
  BY <1>1, <1>3, FreeIs
<1> QED BY <1>2, <1>4

Moved(S, R, N) == (S \ R) \cup N

\* The label loses the free chunks R and gains those in N.
LEMMA FreeMoves ==
  ASSUME HeapParts, NEW L \in Label, NEW a2, av' = [av EXCEPT ![L] = a2],
         NEW R, NEW N, R \cap FreeChunks \subseteq Binned(av[L]),
         Binned(a2) = Moved(Binned(av[L]), R, N)
  PROVE  FreeChunks' = Moved(FreeChunks, R, N)
<1>1. av'[L] = a2 /\ \A K \in Label : K # L => av'[K] = av[K]
  BY MstAfter
<1>2. \A p : p \in FreeChunks' <=> \E K \in Label : p \in Binned(av'[K])
  BY FreeIsNext
<1>3. \A K \in Label : K # L => Binned(av[K]) \cap R = {}
  BY FreeIs DEF HeapParts, Owned
<1>4. ASSUME NEW p
      PROVE  (\E K \in Label : p \in Binned(av'[K])) <=> p \in (FreeChunks \ R) \cup N
  BY <1>1, <1>3, FreeIs DEF Moved
<1> QED BY <1>2, <1>4 DEF Moved

Swap(S, v, x) == (S \ {v}) \cup {x}

\* The label has the free chunk x in place of v.
LEMMA FreeSwaps ==
  ASSUME HeapParts, NEW L \in Label, NEW a2, av' = [av EXCEPT ![L] = a2],
         NEW v \in Binned(av[L]), NEW x,
         Binned(a2) = Swap(Binned(av[L]), v, x)
  PROVE  FreeChunks' = Swap(FreeChunks, v, x)
<1>1. av'[L] = a2 /\ \A K \in Label : K # L => av'[K] = av[K]
  BY MstAfter
<1>2. \A p : p \in FreeChunks' <=> \E K \in Label : p \in Binned(av'[K])
  BY FreeIsNext
<1>3. \A K \in Label : K # L => Binned(av[K]) \cap {v} = {}
  BY FreeIs DEF HeapParts, Owned
<1>4. ASSUME NEW p
      PROVE  (\E K \in Label : p \in Binned(av'[K])) <=> p \in (FreeChunks \ {v}) \cup {x}
  BY <1>1, <1>3, FreeIs DEF Swap
<1> QED BY <1>2, <1>4 DEF Swap

\* The label keeps its fast chunks.
LEMMA QuickSame ==
  ASSUME HeapParts, NEW L \in Label, NEW a2, av' = [av EXCEPT ![L] = a2],
         QuickOf(a2) = QuickOf(av[L])
  PROVE  QuickAll' = QuickAll
<1>1. av'[L] = a2 /\ \A K \in Label : K # L => av'[K] = av[K]
  BY MstAfter
<1>2. \A p : p \in QuickAll' <=> \E K \in Label : p \in QuickOf(av'[K])
  BY QuickAllIsNext
<1>4. ASSUME NEW p
      PROVE  (\E K \in Label : p \in QuickOf(av'[K])) <=> p \in QuickAll
  BY <1>1, QuickAllIs
<1>5. \A p : p \in QuickAll' <=> p \in QuickAll
  BY <1>2, <1>4
<1> QED BY <1>5, SetExtensionality, Zenon

\* The label loses a fast chunk.
LEMMA QuickLess ==
  ASSUME HeapParts, NEW L \in Label, NEW a2, av' = [av EXCEPT ![L] = a2],
         NEW v \in QuickOf(av[L]),
         QuickOf(a2) = QuickOf(av[L]) \ {v}
  PROVE  QuickAll' = QuickAll \ {v}
<1>1. av'[L] = a2 /\ \A K \in Label : K # L => av'[K] = av[K]
  BY MstAfter
<1>2. \A p : p \in QuickAll' <=> \E K \in Label : p \in QuickOf(av'[K])
  BY QuickAllIsNext
<1>3. \A K \in Label : K # L => QuickOf(av[K]) \cap {v} = {}
  BY QuickAllIs DEF HeapParts, Owned
<1>4. ASSUME NEW p
      PROVE  (\E K \in Label : p \in QuickOf(av'[K])) <=> p \in QuickAll \ {v}
  BY <1>1, <1>3, QuickAllIs
<1> QED BY <1>2, <1>4

\* The label gains a fast chunk.
LEMMA QuickMore ==
  ASSUME HeapParts, NEW L \in Label, NEW a2, av' = [av EXCEPT ![L] = a2],
         NEW v, QuickOf(a2) = QuickOf(av[L]) \cup {v}
  PROVE  QuickAll' = QuickAll \cup {v}
<1>1. av'[L] = a2 /\ \A K \in Label : K # L => av'[K] = av[K]
  BY MstAfter
<1>2. \A p : p \in QuickAll' <=> \E K \in Label : p \in QuickOf(av'[K])
  BY QuickAllIsNext
<1>4. ASSUME NEW p
      PROVE  (\E K \in Label : p \in QuickOf(av'[K])) <=> p \in QuickAll \cup {v}
  BY <1>1, QuickAllIs
<1> QED BY <1>2, <1>4

---------------------------------------------------------------------------
(* A step                                                                  *)

\* Memory and chunks, as the lemmas on layouts take them.
LEMMA HeapOf ==
  ASSUME HeapParts
  PROVE  /\ IsHeap(mem, top) /\ Layout(mem, FreeChunks, UsedChunks, top)
         /\ FreeChunks \cap UsedChunks = {} /\ Len(top) = Len(unit) /\ Len(top) \in Nat
         /\ av \in [Label -> Mstate]
<1>1. IsHeap(mem, top) /\ Layout(mem, FreeChunks, UsedChunks, top) /\ Len(top) = Len(unit)
      /\ av \in [Label -> Mstate] /\ Len(top) \in Nat
  BY DEF HeapParts, TypeOK, IsHeap
<1> QED BY <1>1 DEF Layout

\* What is known of each chunk.
LEMMA ChunkIs ==
  ASSUME HeapParts, NEW p \in Tiles(FreeChunks, UsedChunks, top)
  PROVE  /\ ChunkAt(mem, FreeChunks, UsedChunks, top, p)
         /\ UnitOf(p) \in 1..Len(unit) /\ p \in Chunk /\ p \in Nat
         /\ mem[p + 4] \in Nat /\ chunksize(mem, p) \in ChunkSize
<1>1. ChunkAt(mem, FreeChunks, UsedChunks, top, p)
  BY HeapOf, ChunkFacts
<1>2. UnitOf(p) \in 1..Len(unit) /\ p \in Chunk /\ p \in Nat /\ mem[p + 4] \in Nat
  BY <1>1, HeapOf DEF ChunkAt
<1>3. /\ chunksize(mem, p) \in Nat /\ chunksize(mem, p) % 8 = 0 /\ chunksize(mem, p) >= 16
      /\ Base(UnitOf(p)) \in Nat /\ Base(UnitOf(p)) <= p
      /\ p + chunksize(mem, p) <= Base(UnitOf(p)) + UNIT_SIZE - 16
  BY <1>1 DEF ChunkAt
<1>4. chunksize(mem, p) <= UNIT_SIZE
  BY <1>2, <1>3, UnitSize
<1>5. chunksize(mem, p) \in ChunkSize
  BY <1>3, <1>4, UnitSize DEF ChunkSize, MINSIZE
<1> QED BY <1>1, <1>2, <1>5

\* The sizes of chunks are tags.
LEMMA NoneWild ==
  ASSUME HeapParts
  PROVE  /\ \A p \in Tiles(FreeChunks, UsedChunks, top) : ~Wild(mem, p)
         /\ \A p \in FreeChunks \cup UsedChunks : ~Wild(mem, p)
         /\ \A u \in 1..Len(top) : ~Wild(mem, top[u])
<1>1. \A p \in Tiles(FreeChunks, UsedChunks, top) : ~Wild(mem, p)
  BY HeapOf, NotWild
<1>2. \A u \in 1..Len(top) : top[u] \in Tiles(FreeChunks, UsedChunks, top)
  BY HeapOf, TopsDiffer
<1> QED BY <1>1, <1>2 DEF Tiles

\* The units that there were keep their labels.
UnitsKept ==
  /\ unit' \in Seq(Label) /\ Len(top') = Len(unit')
  /\ \A u \in 1..Len(unit) : unit'[u] = unit[u]

\* Chunks of other labels keep their sizes.
OthersKept(L) ==
  \A p \in FreeChunks \cup QuickAll :
    unit[UnitOf(p)] # L => chunksize(mem', p) = chunksize(mem, p)

\* The mstate a2 of label L, after a step that leaves those of other labels.
MstNext(L, a2) ==
  /\ av' = [av EXCEPT ![L] = a2]
  /\ MstOK(a2, mem')
  /\ QuickOf(a2) # {} => a2.fast \/ (pc' = "consolidate" /\ call'.label = L)
  /\ \A p \in Binned(a2) \cup QuickOf(a2) : unit'[UnitOf(p)] = L

\* The lists of the other labels are as right as before.
LEMMA ListStep ==
  ASSUME HeapParts, NEW L \in Label, pc = "consolidate" => call.label = L,
         UnitsKept, OthersKept(L), NEW a2, MstNext(L, a2)
  PROVE  Listed' /\ Flagged' /\ Owned' /\ av' \in [Label -> Mstate]
<1>1. av'[L] = a2 /\ (\A K \in Label : K # L => av'[K] = av[K]) /\ av' \in [Label -> Mstate]
  BY HeapOf DEF MstNext, MstOK
<1>2. ASSUME NEW K \in Label, K # L
      PROVE  /\ MstOK(av'[K], mem')
             /\ QuickOf(av'[K]) # {} => av'[K].fast
             /\ \A p \in Binned(av'[K]) \cup QuickOf(av'[K]) : unit'[UnitOf(p)] = K
  <2>1. av'[K] = av[K] /\ MstOK(av[K], mem)
    BY <1>1, <1>2 DEF HeapParts, Listed
  <2>2. ASSUME NEW p \in Binned(av[K]) \cup QuickOf(av[K])
        PROVE  chunksize(mem', p) = chunksize(mem, p) /\ unit'[UnitOf(p)] = K
    <3>1. p \in FreeChunks \cup QuickAll /\ unit[UnitOf(p)] = K
      BY FreeIs, QuickAllIs DEF HeapParts, Owned
    <3>2. UnitOf(p) \in 1..Len(unit)
      BY <3>1, ChunkIs, UsedIs DEF Tiles
    <3> QED BY <1>2, <3>1, <3>2 DEF OthersKept, UnitsKept
  <2>3. MstOK(av[K], mem')
    BY <2>1, <2>2, SameLists DEF SameSizes
  <2>4. QuickOf(av[K]) # {} => av[K].fast
    BY <1>2 DEF HeapParts, Flagged
  <2> QED BY <2>1, <2>2, <2>3, <2>4
<1>3. Listed'
  BY <1>1, <1>2 DEF Listed, MstNext
<1>4. Flagged'
  BY <1>1, <1>2 DEF Flagged, MstNext
<1>5. Owned'
  BY <1>1, <1>2 DEF Owned, MstNext
<1> QED BY <1>1, <1>3, <1>4, <1>5

---------------------------------------------------------------------------
(* ablib_malloc returns a chunk                                            *)

Serving == pc \in {"malloc", "unsorted", "bins", "top"}

\* While ablib_malloc looks for a chunk.
LEMMA ServingFacts ==
  ASSUME HeapParts, Serving
  PROVE  /\ Held = {} /\ UsedChunks = QuickAll \cup LiveAt
         /\ call.label \in Label /\ call \in Call
         /\ call.nb \in Nat /\ call.nb % 8 = 0 /\ call.nb >= 16 /\ call.nb < UNIT_SIZE
         /\ call.nb \in ChunkSize /\ call.want = call.nb
         /\ call.op = "realloc" => \E c \in live : c.p = call.old /\ c.label = call.label
         /\ Mst = av[call.label] /\ MstOK(Mst, mem) /\ Mst \in Mstate
         /\ QuickOf(Mst) # {} => Mst.fast
         /\ \A p \in Binned(Mst) \cup QuickOf(Mst) : unit[UnitOf(p)] = call.label
         /\ Binned(Mst) \subseteq FreeChunks /\ QuickOf(Mst) \subseteq QuickAll
<1>1. Held = {} /\ UsedChunks = QuickAll \cup LiveAt
  BY UsedIs DEF Serving, Held
<1>2. call \in Call /\ call.label \in Label
  BY DEF HeapParts, TypeOK, Call
<1>3. /\ call.nb \in ChunkSize /\ call.nb < UNIT_SIZE /\ call.want = call.nb
      /\ call.op = "realloc" => \E c \in live : c.p = call.old /\ c.label = call.label
  BY DEF HeapParts, CallOK, Asks, Serving
<1>4. call.nb \in Nat /\ call.nb % 8 = 0 /\ call.nb >= 16
  BY <1>3, UnitSize DEF ChunkSize, MINSIZE
<1>5. Mst = av[call.label] /\ MstOK(Mst, mem) /\ Mst \in Mstate
  BY <1>2 DEF Mst, HeapParts, Listed, MstOK
<1>6. QuickOf(Mst) # {} => Mst.fast
  BY <1>2, <1>5 DEF HeapParts, Flagged, Serving
<1>7. \A p \in Binned(Mst) \cup QuickOf(Mst) : unit[UnitOf(p)] = call.label
  BY <1>2, <1>5 DEF HeapParts, Owned
<1>8. Binned(Mst) \subseteq FreeChunks /\ QuickOf(Mst) \subseteq QuickAll
  BY <1>2, <1>5, FreeIs, QuickAllIs
<1> QED BY <1>1, <1>2, <1>3, <1>4, <1>5, <1>6, <1>7, <1>8

\* The memory m before the chunk v is returned, in which F2 are the free
\* chunks and U2 those in use, v included.
Ready(m, F2, U2, v) ==
  /\ IsHeap(m, top') /\ Layout(m, F2, U2, top')
  /\ v \in U2 /\ v \notin LiveAt /\ LiveAt \subseteq U2
  /\ chunksize(m, v) >= call.nb
  /\ SameSizes(mem, m, LiveAt)
  /\ unit'[UnitOf(v)] = call.label

\* ... and what the client, or realloc, finds.
Served(m, F2, U2, v) ==
  /\ IsHeap(mem', top') /\ Layout(mem', F2, U2, top') /\ SameSizes(m, mem', F2 \cup U2)
  /\ LiveAt' \cup Held' = LiveAt \cup {v}
  /\ LiveOK' /\ CallOK'
  /\ live' \subseteq [p : Chunk, nb : Nat, label : Label]
  /\ call' \in Call /\ pc' \in {"idle", "moved"}

\* The record of no call is one of a call.
LEMMA NoCallOK == NoCall \in Call
<1>1. (CHOOSE L \in Label : TRUE) \in Label
  BY HeapAssumption
<1> QED BY <1>1 DEF NoCall, Call

\* Returning chunk v keeps the layout that was ready for it.
LEMMA GotStep ==
  ASSUME HeapParts, Serving, UnitsKept, NEW m, NEW F2, NEW U2, NEW v,
         Ready(m, F2, U2, v), Got(m, v)
  PROVE  Served(m, F2, U2, v)
<1>1. IsHeap(m, top') /\ Layout(m, F2, U2, top') /\ v \in U2
  BY DEF Ready
<1>2. mem' = Return(m, v, call.nb) \/ mem' = Clear(Return(m, v, call.nb), v)
  BY DEF Got
<1>3. /\ IsHeap(mem', top') /\ Layout(mem', F2, U2, top')
      /\ SameSizes(m, mem', Tiles(F2, U2, top'))
  <2> DEFINE m1 == Return(m, v, call.nb)
  <2>0. call.nb \in Nat /\ call.nb <= chunksize(m, v)
    BY <1>1, ServingFacts, ChunkFacts DEF Ready, ChunkAt, Tiles
  <2>1. /\ IsHeap(m1, top') /\ Layout(m1, F2, U2, top')
        /\ SameSizes(m, m1, Tiles(F2, U2, top'))
    BY <1>1, <2>0, Returns
  <2> HIDE DEF m1
  <2>2. CASE mem' = m1
    BY <2>1, <2>2
  <2>3. CASE mem' = Clear(m1, v)
    <3>1. /\ IsHeap(mem', top') /\ Layout(mem', F2, U2, top')
          /\ SameSizes(m1, mem', Tiles(F2, U2, top'))
      <4>1. call.nb <= chunksize(m1, v)
        BY <1>1, <2>0, <2>1 DEF SameSizes, Tiles
      <4> QED BY <1>1, <2>0, <2>1, <2>3, <4>1, Returns
    <3> QED BY <2>1, <3>1 DEF SameSizes
  <2> QED BY <1>2, <2>2, <2>3 DEF m1
<1>4. SameSizes(m, mem', F2 \cup U2)
  BY <1>3 DEF SameSizes, Tiles
<1>5. /\ v \in Chunk /\ chunksize(mem', v) \in Nat /\ chunksize(mem', v) >= call.nb
      /\ v \notin LiveAt
  <2>1. chunksize(mem', v) = chunksize(m, v)
    BY <1>1, <1>4 DEF SameSizes
  <2>2. ChunkAt(m, F2, U2, top', v)
    BY <1>1, ChunkFacts DEF Tiles
  <2> QED BY <2>1, <2>2 DEF Ready, ChunkAt
<1>6. ASSUME NEW c \in live
      PROVE  /\ c.p \in Chunk /\ c.nb \in Nat /\ c.label \in Label /\ c.p \in LiveAt
             /\ c.nb >= MINSIZE /\ c.nb <= chunksize(mem', c.p)
             /\ unit'[UnitOf(c.p)] = c.label
  <2>1. c.p \in LiveAt /\ c.p \in Chunk /\ c.nb \in Nat /\ c.label \in Label
    BY DEF LiveAt, HeapParts, TypeOK
  <2>2. chunksize(mem', c.p) = chunksize(mem, c.p)
    BY <1>4, <2>1 DEF Ready, SameSizes
  <2>3. c.nb >= MINSIZE /\ c.nb <= chunksize(mem, c.p) /\ unit[UnitOf(c.p)] = c.label
    BY DEF HeapParts, LiveOK, Size
  <2>4. UnitOf(c.p) \in 1..Len(unit)
    BY <2>1, ChunkIs, UsedIs DEF Tiles
  <2> QED BY <2>1, <2>2, <2>3, <2>4 DEF UnitsKept
<1>7. \A c, d \in live : c.p = d.p => c = d
  BY DEF HeapParts, LiveOK
<1>8. CASE call.op = "realloc"
  <2>1. pc' = "moved" /\ call' = [call EXCEPT !.p = v] /\ live' = live
    BY <1>8 DEF Got
  <2>2. LiveAt' \cup Held' = LiveAt \cup {v} /\ Held' = {v}
    BY <2>1, ServingFacts DEF LiveAt, Held, Call
  <2>3. LiveOK'
    BY <1>6, <1>7, <2>1 DEF LiveOK, Size
  <2>4. /\ call' \in Call /\ call'.nb = call.nb /\ call'.want = call.want /\ call'.op = "realloc"
        /\ call'.label = call.label /\ call'.p = v /\ call'.old = call.old
    BY <1>5, <1>8, <2>1, ServingFacts DEF Call
  <2>5. Asks' => /\ call'.nb \in ChunkSize /\ call'.nb < UNIT_SIZE
                 /\ call'.want = call'.nb
                 /\ call'.op = "realloc" =>
                      \E c \in live' : c.p = call'.old /\ c.label = call'.label
    BY <1>8, <2>1, <2>4, ServingFacts
  <2>6. Held' \cap {c.p : c \in live'} = {}
    BY <1>5, <2>1, <2>2 DEF LiveAt
  <2>7. CallOK'
    BY <1>5, <2>1, <2>2, <2>4, <2>5, <2>6 DEF CallOK, Size, Ready
  <2>8. live' \subseteq [p : Chunk, nb : Nat, label : Label]
    BY <2>1 DEF HeapParts, TypeOK
  <2> QED BY <1>3, <1>4, <2>1, <2>2, <2>3, <2>4, <2>7, <2>8 DEF Served
<1>9. CASE call.op # "realloc"
  <2> DEFINE b == Block(v, call.want, call.label)
  <2>1. pc' = "idle" /\ call' = NoCall /\ live' = live \cup {b}
    BY <1>9 DEF Got, Done
  <2>2. b.p = v /\ b.nb = call.nb /\ b.label = call.label /\ b \in [p : Chunk, nb : Nat, label : Label]
    BY <1>5, ServingFacts DEF Block
  <2> HIDE DEF b
  <2>3. Held' = {} /\ LiveAt' = LiveAt \cup {v}
    BY <2>1, <2>2 DEF LiveAt, Held
  <2>4. LiveOK'
    <3>1. ASSUME NEW c \in live'
          PROVE  c.nb >= MINSIZE /\ c.nb <= chunksize(mem', c.p) /\ unit'[UnitOf(c.p)] = c.label
      <4>1. CASE c \in live
        BY <1>6, <4>1
      <4>2. CASE c = b
        BY <1>5, <2>2, <4>2, ServingFacts DEF Ready, MINSIZE
      <4> QED BY <2>1, <4>1, <4>2
    <3>2. ASSUME NEW c \in live', NEW d \in live', c.p = d.p PROVE c = d
      BY <1>5, <1>6, <1>7, <2>1, <2>2, <3>2
    <3> QED BY <3>1, <3>2 DEF LiveOK, Size
  <2>5. CallOK'
    BY <2>1, <2>3 DEF CallOK, Asks
  <2>6. live' \subseteq [p : Chunk, nb : Nat, label : Label]
    BY <2>1, <2>2 DEF HeapParts, TypeOK
  <2> QED BY <1>3, <1>4, <2>1, <2>3, <2>4, <2>5, <2>6, NoCallOK DEF Served
<1> QED BY <1>8, <1>9

\* The lists that the call leaves when it takes chunk v.
Leaves(m, a2, v) ==
  /\ av' = [av EXCEPT ![call.label] = a2] /\ MstOK(a2, m)
  /\ QuickOf(a2) # {} => a2.fast
  /\ \A p \in Binned(a2) \cup QuickOf(a2) : unit'[UnitOf(p)] = call.label
  /\ \A p \in FreeChunks \cup QuickAll :
       unit[UnitOf(p)] # call.label => chunksize(m, p) = chunksize(mem, p)
  /\ QuickAll' \subseteq QuickAll /\ v \notin QuickAll'

\* A stage of ablib_malloc that ends it with chunk v keeps the invariant.
LEMMA GotHeap ==
  ASSUME HeapParts, Serving, UnitsKept, exhausted' \in BOOLEAN, NEW m, NEW v, NEW a2,
         Ready(m, FreeChunks', QuickAll' \cup LiveAt \cup {v}, v),
         Leaves(m, a2, v), Got(m, v)
  PROVE  HeapParts'
<1> DEFINE U2 == QuickAll' \cup LiveAt \cup {v}
<1>1. Served(m, FreeChunks', U2, v)
  BY GotStep
<1>2. call.label \in Label /\ pc # "consolidate" /\ av \in [Label -> Mstate]
  BY ServingFacts, HeapOf DEF Serving
<1>3. av'[call.label] = a2 /\ \A K \in Label : K # call.label => av'[K] = av[K]
  BY <1>2 DEF Leaves
<1>4. SameSizes(m, mem', FreeChunks' \cup QuickAll')
  BY <1>1 DEF Served, SameSizes
<1>5. Binned(a2) \subseteq FreeChunks' /\ QuickOf(a2) \subseteq QuickAll'
  BY <1>2, <1>3, FreeIsNext, QuickAllIsNext
<1>6. MstNext(call.label, a2)
  <2>1. MstOK(a2, mem')
    <3>1. SameSizes(m, mem', Binned(a2) \cup QuickOf(a2))
      BY <1>4, <1>5 DEF SameSizes
    <3> QED BY <3>1, SameLists DEF Leaves
  <2> QED BY <2>1 DEF MstNext, Leaves
<1>7. OthersKept(call.label)
  <2>1. ASSUME NEW p \in FreeChunks \cup QuickAll, unit[UnitOf(p)] # call.label
        PROVE  chunksize(mem', p) = chunksize(mem, p)
    <3>1. p \in FreeChunks' \cup QuickAll'
      <4>1. PICK K \in Label : p \in Binned(av[K]) \cup QuickOf(av[K])
        BY FreeIs, QuickAllIs
      <4>2. K # call.label
        BY <2>1, <4>1 DEF HeapParts, Owned
      <4> QED BY <1>3, <4>1, <4>2, FreeIsNext, QuickAllIsNext
    <3> QED BY <1>4, <2>1, <3>1 DEF Leaves, SameSizes
  <2> QED BY <2>1 DEF OthersKept
<1>8. Listed' /\ Flagged' /\ Owned' /\ av' \in [Label -> Mstate]
  BY <1>2, <1>6, <1>7, ListStep
<1>9. UsedChunks' = U2
  BY <1>1, UsedIsNext DEF Served
<1>10. Apart'
  BY <1>1, ServingFacts DEF Served, Apart, HeapParts, Leaves
<1>11. TypeOK'
  <2>1. mem' \in [Addr -> Nat \cup {DATA}] /\ top' \in Seq(Chunk) /\ Len(top') <= MaxUnits
    BY <1>1 DEF Served, IsHeap
  <2>2. pc' \in {"idle"} \cup Stages \cup Stops
    BY <1>1 DEF Served, Stages
  <2> QED BY <1>1, <1>8, <2>1, <2>2 DEF TypeOK, Served, UnitsKept
<1> QED BY <1>1, <1>8, <1>9, <1>10, <1>11 DEF HeapParts, Served

\* A chunk of a fastbin.
LEMMA FastStep ==
  ASSUME HeapParts, malloc_fast
  PROVE  HeapParts'
<1> DEFINE s == call.nb
           v == Head(Mst.fastbins[s])
           a2 == [Mst EXCEPT !.fastbins[s] = Tail(@)]
<1>1. /\ Serving /\ Mst.fastbins[s] # <<>> /\ s <= MXFAST
      /\ av' = [av EXCEPT ![call.label] = a2] /\ Got(mem, v)
      /\ unit' = unit /\ top' = top /\ exhausted' = exhausted
  BY DEF malloc_fast, Serving, FastHit, SetMstate
<1>2. s \in Fast
  BY <1>1, ServingFacts, HeapAssumption DEF Fast, MINSIZE
<1>3. /\ Relists(Mst, a2, mem, Binned(Mst), QuickOf(Mst) \ {v})
      /\ v \in QuickOf(Mst) /\ chunksize(mem, v) = s
  BY <1>1, <1>2, TakesFast, ServingFacts
<1> HIDE DEF a2, v
<1>4. FreeChunks' = FreeChunks
  <2>1. Binned(a2) = Binned(av[call.label]) /\ call.label \in Label
    BY <1>1, <1>3, ServingFacts DEF Relists
  <2> QED BY <1>1, <2>1, FreeSame
<1>5. QuickAll' = QuickAll \ {v}
  <2>1. /\ QuickOf(a2) = QuickOf(av[call.label]) \ {v} /\ v \in QuickOf(av[call.label])
        /\ call.label \in Label
    BY <1>1, <1>3, ServingFacts DEF Relists
  <2> QED BY <1>1, <2>1, QuickLess
<1>6. UnitsKept /\ exhausted' \in BOOLEAN
  BY <1>1 DEF UnitsKept, HeapParts, TypeOK
<1>7. v \in QuickAll /\ v \notin LiveAt /\ unit[UnitOf(v)] = call.label
  BY <1>1, <1>3, ServingFacts DEF HeapParts, Apart
<1>8. Ready(mem, FreeChunks', QuickAll' \cup LiveAt \cup {v}, v)
  <2>1. QuickAll' \cup LiveAt \cup {v} = UsedChunks
    BY <1>1, <1>5, <1>7, ServingFacts
  <2>2. chunksize(mem, v) >= call.nb
    BY <1>1, <1>3, ServingFacts
  <2> QED BY <1>1, <1>4, <1>7, <2>1, <2>2, HeapOf DEF Ready, SameSizes
<1>9. Leaves(mem, a2, v)
  <2>1. MstOK(a2, mem) /\ Binned(a2) = Binned(Mst) /\ QuickOf(a2) = QuickOf(Mst) \ {v} /\ a2.fast = Mst.fast
    BY <1>3 DEF Relists
  <2>2. \A p \in Binned(a2) \cup QuickOf(a2) : unit'[UnitOf(p)] = call.label
    BY <1>1, <2>1, ServingFacts
  <2>3. QuickOf(a2) # {} => a2.fast
    BY <1>1, <2>1, ServingFacts
  <2> QED BY <1>1, <1>5, <2>1, <2>2, <2>3 DEF Leaves
<1> QED BY <1>1, <1>6, <1>8, <1>9, GotHeap

\* The call takes the free chunk v of its label from the lists, which are a1
\* then.
TakesChunk(v, a1) ==
  /\ v \in Binned(Mst) /\ chunksize(mem, v) >= call.nb
  /\ Relists(Mst, a1, mem, Binned(Mst) \ {v}, QuickOf(Mst))

\* The chunk that a stage takes is free and of the label.
LEMMA TakesFacts ==
  ASSUME HeapParts, Serving, NEW v, NEW a1, TakesChunk(v, a1)
  PROVE  /\ v \in FreeChunks /\ v \notin UsedChunks /\ v \notin QuickAll /\ v \notin LiveAt
         /\ v \in Chunk /\ unit[UnitOf(v)] = call.label
         /\ chunksize(mem, v) \in Nat /\ chunksize(mem, v) % 8 = 0 /\ chunksize(mem, v) >= 16
         /\ \A p \in FreeChunks \cup QuickAll : unit[UnitOf(p)] # call.label => p # v
         /\ LiveAt \subseteq UsedChunks
<1>1. v \in FreeChunks /\ unit[UnitOf(v)] = call.label
  BY ServingFacts DEF TakesChunk
<1>2. v \notin UsedChunks /\ UsedChunks = QuickAll \cup LiveAt
  BY <1>1, HeapOf, ServingFacts
<1>3. ChunkAt(mem, FreeChunks, UsedChunks, top, v) /\ v \in Chunk
  BY <1>1, ChunkIs DEF Tiles
<1> QED BY <1>1, <1>2, <1>3 DEF ChunkAt

\* All of it is used.
LEMMA ExactStep ==
  ASSUME HeapParts, Serving, NEW v, NEW a1, TakesChunk(v, a1),
         av' = [av EXCEPT ![call.label] = a1],
         NEW m, m = set_inuse_bit_at_offset(mem, v, chunksize(mem, v)), Got(m, v),
         unit' = unit, top' = top, exhausted' = exhausted
  PROVE  HeapParts'
<1>1. /\ MstOK(a1, mem) /\ Binned(a1) = Binned(Mst) \ {v} /\ QuickOf(a1) = QuickOf(Mst)
      /\ a1.fast = Mst.fast /\ chunksize(mem, v) >= call.nb /\ v \in Binned(Mst)
  BY DEF TakesChunk, Relists
<1>2. FreeChunks' = FreeChunks \ {v}
  <2>1. /\ Binned(a1) = Binned(av[call.label]) \ {v} /\ v \in Binned(av[call.label])
        /\ call.label \in Label
    BY <1>1, ServingFacts
  <2> QED BY <2>1, FreeLess
<1>3. QuickAll' = QuickAll
  <2>1. QuickOf(a1) = QuickOf(av[call.label]) /\ call.label \in Label
    BY <1>1, ServingFacts
  <2> QED BY <2>1, QuickSame
<1>4. UnitsKept /\ exhausted' \in BOOLEAN
  BY DEF UnitsKept, HeapParts, TypeOK
<1>5. /\ IsHeap(m, top) /\ Layout(m, FreeChunks \ {v}, UsedChunks \cup {v}, top)
      /\ SameSizes(mem, m, Tiles(FreeChunks, UsedChunks, top))
  BY TakesFacts, HeapOf, MarksInuse
<1>6. SameSizes(mem, m, FreeChunks \cup QuickAll \cup LiveAt)
  BY <1>5, ServingFacts DEF SameSizes, Tiles
<1>7. Ready(m, FreeChunks', QuickAll' \cup LiveAt \cup {v}, v)
  <2>1. QuickAll' \cup LiveAt \cup {v} = UsedChunks \cup {v}
    BY <1>3, ServingFacts
  <2>2. chunksize(m, v) >= call.nb
    BY <1>1, <1>6, TakesFacts DEF SameSizes
  <2>3. SameSizes(mem, m, LiveAt)
    BY <1>6 DEF SameSizes
  <2> QED BY <1>2, <1>5, <2>1, <2>2, <2>3, TakesFacts DEF Ready
<1>8. Leaves(m, a1, v)
  <2>1. MstOK(a1, m)
    <3>1. SameSizes(mem, m, Binned(a1) \cup QuickOf(a1))
      BY <1>1, <1>6, ServingFacts DEF SameSizes
    <3> QED BY <1>1, <3>1, SameLists
  <2>2. \A p \in Binned(a1) \cup QuickOf(a1) : unit'[UnitOf(p)] = call.label
    BY <1>1, ServingFacts
  <2>3. QuickOf(a1) # {} => a1.fast
    BY <1>1, ServingFacts
  <2>4. \A p \in FreeChunks \cup QuickAll : chunksize(m, p) = chunksize(mem, p)
    BY <1>6 DEF SameSizes
  <2> QED BY <1>3, <2>1, <2>2, <2>3, <2>4, TakesFacts DEF Leaves
<1> QED BY <1>4, <1>7, <1>8, GotHeap

\* Part of it is used, or all.
LEMMA SplitStep ==
  ASSUME HeapParts, Serving, NEW v, NEW a1, TakesChunk(v, a1), a1.any, a1.unsorted = <<>>,
         chunksize(mem, v) - call.nb >= MINSIZE, NEW adv \in BOOLEAN, Carve(a1, v, adv)
  PROVE  HeapParts'
<1> DEFINE nb == call.nb
           size == chunksize(mem, v)
           x == v + nb
           m == CarvedMem(mem, v, size, nb)
           a2 == CarvedLists(a1, v, size, nb, adv)
<1>1. /\ MstOK(a1, mem) /\ Binned(a1) = Binned(Mst) \ {v} /\ QuickOf(a1) = QuickOf(Mst)
      /\ a1.fast = Mst.fast /\ v \in Binned(Mst)
  BY DEF TakesChunk, Relists
<1>2. /\ av' = [av EXCEPT ![call.label] = a2] /\ Got(m, v)
      /\ unit' = unit /\ top' = top /\ exhausted' = exhausted
  BY DEF Carve, SetMstate
<1>3. CarvedOff(mem, m, FreeChunks, UsedChunks, top, v, nb, x)
  <2>1. /\ v \in FreeChunks /\ nb \in Nat /\ nb % 8 = 0 /\ nb >= 16
        /\ chunksize(mem, v) - nb >= 16
    BY TakesFacts, ServingFacts DEF MINSIZE
  <2>3. IsHeap(mem, top) /\ Layout(mem, FreeChunks, UsedChunks, top)
    BY HeapOf
  <2> HIDE DEF nb
  <2>4. m = CarvedMem(mem, v, chunksize(mem, v), nb) /\ x = v + nb
    OBVIOUS
  <2> HIDE DEF m, x
  <2> QED BY <2>1, <2>3, <2>4, CarvesFree
<1>31. /\ IsHeap(m, top) /\ Layout(m, (FreeChunks \ {v}) \cup {x}, UsedChunks \cup {v}, top)
       /\ SameSizes(mem, m, Tiles(FreeChunks, UsedChunks, top) \ {v}) /\ chunksize(m, v) = nb
       /\ x \in Chunk /\ x \notin Tiles(FreeChunks, UsedChunks, top) /\ UnitOf(x) = UnitOf(v)
  BY <1>3 DEF CarvedOff
<1>4. x \notin FreeChunks /\ x \notin UsedChunks /\ unit[UnitOf(x)] = call.label
  BY <1>31, TakesFacts DEF Tiles
<1>5. SameSizes(mem, m, (FreeChunks \ {v}) \cup QuickAll \cup LiveAt)
  <2>1. (FreeChunks \ {v}) \cup QuickAll \cup LiveAt \subseteq Tiles(FreeChunks, UsedChunks, top) \ {v}
    BY TakesFacts, ServingFacts DEF Tiles
  <2> QED BY <1>31, <2>1 DEF SameSizes
<1> HIDE DEF m, x
<1>6. Relists(a1, a2, m, Binned(a1) \cup {x}, QuickOf(a1))
  <2>1. MstOK(a1, m)
    <3>1. SameSizes(mem, m, Binned(a1) \cup QuickOf(a1))
      BY <1>1, <1>5, ServingFacts DEF SameSizes
    <3> QED BY <1>1, <3>1, SameLists
  <2>2. x \notin Binned(a1) /\ ~(size - nb < MINSIZE)
    <3>1. x \notin Binned(a1)
      BY <1>1, <1>4, ServingFacts
    <3>2. ~(size - nb < MINSIZE)
      BY TakesFacts, ServingFacts DEF MINSIZE
    <3> QED BY <3>1, <3>2
  <2>3. Relists(a1, a2, m, IF size - nb < MINSIZE THEN Binned(a1) ELSE Binned(a1) \cup {x}, QuickOf(a1))
    BY <1>31, <2>1, <2>2, CarvesLists DEF x
  <2> QED BY <2>2, <2>3
<1> HIDE DEF a2
<1>7. /\ MstOK(a2, m) /\ Binned(a2) = (Binned(Mst) \ {v}) \cup {x} /\ QuickOf(a2) = QuickOf(Mst)
      /\ a2.fast = Mst.fast
  BY <1>1, <1>6 DEF Relists
<1>8. FreeChunks' = (FreeChunks \ {v}) \cup {x}
  <2>1. Binned(a2) = Swap(Binned(av[call.label]), v, x)
    BY <1>1, <1>7, ServingFacts DEF Swap
  <2>2. call.label \in Label /\ v \in Binned(av[call.label])
    BY <1>1, ServingFacts
  <2>3. FreeChunks' = Swap(FreeChunks, v, x)
    BY <1>2, <2>1, <2>2, FreeSwaps
  <2> QED BY <2>3 DEF Swap
<1>9. QuickAll' = QuickAll
  <2>1. QuickOf(a2) = QuickOf(av[call.label]) /\ call.label \in Label
    BY <1>7, ServingFacts
  <2> QED BY <1>2, <2>1, QuickSame
<1>10. UnitsKept /\ exhausted' \in BOOLEAN
  BY <1>2 DEF UnitsKept, HeapParts, TypeOK
<1>11. Ready(m, FreeChunks', QuickAll' \cup LiveAt \cup {v}, v)
  <2>1. QuickAll' \cup LiveAt \cup {v} = UsedChunks \cup {v}
    BY <1>9, ServingFacts
  <2>2. chunksize(m, v) >= call.nb
    BY <1>31, ServingFacts
  <2>3. SameSizes(mem, m, LiveAt)
    BY <1>5 DEF SameSizes
  <2> QED BY <1>2, <1>31, <1>8, <2>1, <2>2, <2>3, TakesFacts DEF Ready
<1>12. Leaves(m, a2, v)
  <2>1. \A p \in Binned(a2) \cup QuickOf(a2) : unit'[UnitOf(p)] = call.label
    BY <1>2, <1>4, <1>7, ServingFacts
  <2>2. QuickOf(a2) # {} => a2.fast
    BY <1>7, ServingFacts
  <2>3. \A p \in FreeChunks \cup QuickAll :
          unit[UnitOf(p)] # call.label => chunksize(m, p) = chunksize(mem, p)
    BY <1>5, TakesFacts DEF SameSizes
  <2> QED BY <1>2, <1>7, <1>9, <2>1, <2>2, <2>3, TakesFacts DEF Leaves
<1> QED BY <1>2, <1>10, <1>11, <1>12, GotHeap

\* The chunk is used whole or split.
LEMMA CarveStep ==
  ASSUME HeapParts, Serving, NEW v, NEW a1, TakesChunk(v, a1), a1.any, a1.unsorted = <<>>,
         NEW adv \in BOOLEAN, Carve(a1, v, adv)
  PROVE  HeapParts'
<1>1. CASE chunksize(mem, v) - call.nb >= MINSIZE
  BY <1>1, SplitStep
<1>2. CASE chunksize(mem, v) - call.nb < MINSIZE
  <2>1. /\ av' = [av EXCEPT ![call.label] = a1]
        /\ Got(set_inuse_bit_at_offset(mem, v, chunksize(mem, v)), v)
        /\ unit' = unit /\ top' = top /\ exhausted' = exhausted
    BY <1>2 DEF Carve, SetMstate, CarvedMem, CarvedLists
  <2> QED BY <2>1, ExactStep
<1> QED
  <2>1. chunksize(mem, v) \in Nat /\ call.nb \in Nat
    BY TakesFacts, ServingFacts
  <2> QED BY <1>1, <1>2, <2>1 DEF MINSIZE

\* A small bin holds chunks of one size.
LEMMA SmallBin ==
  ASSUME NEW s \in ChunkSize, NEW t \in ChunkSize, in_smallbin_range(s), bin_index(s) = bin_index(t)
  PROVE  s = t
<1>1. s \in Nat /\ t \in Nat /\ MIN_LARGE_SIZE \in Nat
  BY UnitSize, HeapAssumption DEF ChunkSize, MINSIZE
<1>2. CASE s < t
  <2>1. bin_index(s) < bin_index(t)
    BY <1>2, BinAssumption
  <2>2. bin_index(s) \in Bins
    BY BinAssumption
  <2>3. bin_index(s) \in Int
    BY <2>2 DEF Bins
  <2> QED BY <2>1, <2>3
<1>3. CASE t < s
  <2>1. in_smallbin_range(t)
    BY <1>1, <1>3 DEF in_smallbin_range
  <2>2. bin_index(t) < bin_index(s)
    BY <1>3, <2>1, BinAssumption
  <2>3. bin_index(s) \in Bins
    BY BinAssumption
  <2>4. bin_index(s) \in Int
    BY <2>3 DEF Bins
  <2> QED BY <2>2, <2>4
<1> QED BY <1>1, <1>2, <1>3

\* The exact small bin serves the request.
LEMMA SmallStep ==
  ASSUME HeapParts, malloc_small
  PROVE  HeapParts'
<1> DEFINE i == bin_index(call.nb)
           v == Last(Mst.bins[i])
           a2 == [Mst EXCEPT !.bins[i] = Front(@)]
           m == set_inuse_bit_at_offset(mem, v, chunksize(mem, v))
<1>1. /\ Serving /\ Mst.bins[i] # <<>> /\ in_smallbin_range(call.nb)
      /\ av' = [av EXCEPT ![call.label] = a2] /\ Got(set_inuse_bit_at_offset(mem, v, call.nb), v)
      /\ unit' = unit /\ top' = top /\ exhausted' = exhausted
  BY DEF malloc_small, Serving, SmallHit, SetMstate
<1>2. i \in Bins
  BY <1>1, ServingFacts, BinAssumption
<1>3. /\ Relists(Mst, a2, mem, Binned(Mst) \ {v}, QuickOf(Mst))
      /\ v \in Binned(Mst) /\ v \in ToSet(Mst.bins[i])
  BY <1>1, <1>2, TakesSmall, ServingFacts
<1>4. bin_index(chunksize(mem, v)) = i /\ chunksize(mem, v) \in ChunkSize
  <2>1. MstOK(Mst, mem) /\ v \in FreeChunks
    BY <1>1, <1>3, ServingFacts
  <2> QED BY <1>2, <1>3, <2>1, ChunkIs DEF MstOK, Tiles
<1>5. chunksize(mem, v) = call.nb
  BY <1>1, <1>4, SmallBin, ServingFacts
<1>6. TakesChunk(v, a2)
  <2>1. chunksize(mem, v) >= call.nb
    BY <1>1, <1>5, ServingFacts
  <2> QED BY <1>3, <2>1 DEF TakesChunk
<1>7. Got(m, v)
  BY <1>1, <1>5
<1> HIDE DEF v, a2, m
<1> QED BY <1>1, <1>6, <1>7, ExactStep DEF m

---------------------------------------------------------------------------
(* Steps of ablib_malloc that hand out nothing                             *)

CallTyped ==
  /\ live \subseteq [p : Chunk, nb : Nat, label : Label]
  /\ pc \in {"idle"} \cup Stages \cup Stops
  /\ call \in Call

\* A step that changes the lists of label L only, from its parts.
LEMMA Assembles ==
  ASSUME HeapParts, NEW L \in Label, pc = "consolidate" => call.label = L,
         UnitsKept, OthersKept(L), NEW a2, MstNext(L, a2),
         IsHeap(mem', top'), Layout(mem', FreeChunks', UsedChunks', top'),
         Apart', LiveOK', CallOK', CallTyped', exhausted' \in BOOLEAN
  PROVE  HeapParts'
<1>1. Listed' /\ Flagged' /\ Owned' /\ av' \in [Label -> Mstate]
  BY ListStep
<1>2. TypeOK'
  BY <1>1 DEF TypeOK, IsHeap, UnitsKept, CallTyped
<1> QED BY <1>1, <1>2 DEF HeapParts

\* The chunks stay where they are; only lists of label L change.
Stays(L, a2) ==
  /\ av' = [av EXCEPT ![L] = a2]
  /\ MstOK(a2, mem) /\ Binned(a2) = Binned(av[L]) /\ QuickOf(a2) = QuickOf(av[L])
  /\ QuickOf(a2) # {} => a2.fast \/ (pc' = "consolidate" /\ call'.label = L)
  /\ mem' = mem /\ unit' = unit /\ top' = top /\ exhausted' = exhausted

\* Such a step keeps the invariant if the chunk in hand comes from a block or
\* goes to one.
LEMMA QuietStep ==
  ASSUME HeapParts, NEW L \in Label, pc = "consolidate" => call.label = L,
         NEW a2, Stays(L, a2), LiveAt' \cup Held' = LiveAt \cup Held,
         LiveOK', CallOK', CallTyped'
  PROVE  HeapParts'
<1>1. /\ av' = [av EXCEPT ![L] = a2] /\ Binned(a2) = Binned(av[L]) /\ QuickOf(a2) = QuickOf(av[L])
      /\ mem' = mem /\ unit' = unit /\ top' = top /\ exhausted' = exhausted
  BY DEF Stays
<1>2. FreeChunks' = FreeChunks
  BY <1>1, FreeSame
<1>3. QuickAll' = QuickAll
  BY <1>1, QuickSame
<1>4. UsedChunks' = UsedChunks
  <2>1. UsedChunks = QuickAll \cup (LiveAt \cup Held) /\ UsedChunks' = QuickAll' \cup (LiveAt' \cup Held')
    BY UsedIs, UsedIsNext
  <2> QED BY <1>3, <2>1
<1>5. IsHeap(mem', top') /\ Layout(mem', FreeChunks', UsedChunks', top')
  BY <1>1, <1>2, <1>4, HeapOf
<1>6. Apart'
  BY <1>3 DEF HeapParts, Apart
<1>7. UnitsKept /\ OthersKept(L) /\ exhausted' \in BOOLEAN
  BY <1>1 DEF UnitsKept, OthersKept, HeapParts, TypeOK
<1>8. MstNext(L, a2)
  <2>1. \A p \in Binned(a2) \cup QuickOf(a2) : unit'[UnitOf(p)] = L
    BY <1>1 DEF HeapParts, Owned
  <2> QED BY <1>1, <2>1 DEF MstNext, Stays
<1> QED BY <1>5, <1>6, <1>7, <1>8, Assembles

\* A chunk that is put into its bin leaves the other bins alone.
LEMMA PlacesElsewhere ==
  ASSUME NEW a \in Mstate, NEW m, NEW v, NEW i \in Bins, i # bin_index(chunksize(m, v))
  PROVE  PlaceInBin(a, m, v).bins[i] = a.bins[i] /\ PlaceInBin(a, m, v).unsorted = a.unsorted
BY DEF PlaceInBin, Mstate

\* A chunk of the unsorted list is used, or goes to its bin.
LEMMA UnsortedStep ==
  ASSUME HeapParts, process_unsorted
  PROVE  HeapParts'
<1> DEFINE v == Last(Mst.unsorted)
           size == chunksize(mem, v)
           a == [Mst EXCEPT !.unsorted = Front(@)]
           last == /\ in_smallbin_range(call.nb) /\ Len(Mst.unsorted) = 1
                   /\ v = Mst.last_remainder /\ size > call.nb + MINSIZE
<1>1. pc = "unsorted" /\ Serving /\ Mst.unsorted # <<>> /\ call.label \in Label /\ call.nb \in Nat
  BY ServingFacts DEF process_unsorted, Serving
<1>2. /\ Relists(Mst, a, mem, Binned(Mst) \ {v}, QuickOf(Mst))
      /\ v \in Binned(Mst) /\ v \in Chunk
  BY <1>1, TakesUnsorted, ServingFacts
<1>3. /\ MstOK(a, mem) /\ Binned(a) = Binned(Mst) \ {v} /\ QuickOf(a) = QuickOf(Mst)
      /\ a.any /\ a.fast = Mst.fast /\ a.unsorted = Front(Mst.unsorted)
      /\ a.bins = Mst.bins /\ Mst \in Mstate /\ a \in Mstate
  <2>1. Mst \in Mstate /\ MstOK(Mst, mem) /\ Mst.any
    BY <1>1, ServingFacts DEF MstOK
  <2>2. a.unsorted = Front(Mst.unsorted) /\ a.bins = Mst.bins
    BY <2>1 DEF Mstate
  <2> QED BY <1>2, <2>1, <2>2 DEF Relists, MstOK
<1>4. \A p \in Binned(Mst) : mem[p + 4] \in Nat /\ chunksize(mem, p) \in ChunkSize /\ chunksize(mem, p) \in Nat
  BY <1>1, ServingFacts, ChunkIs, UnitSize DEF Tiles, ChunkSize, MINSIZE
<1>5. \/ last /\ Carve(a, v, TRUE)
      \/ /\ ~last /\ size = call.nb
         /\ SetMstate(a)
         /\ Got(set_inuse_bit_at_offset(mem, v, size), v)
         /\ UNCHANGED <<unit, top, exhausted>>
      \/ /\ ~last /\ size # call.nb
         /\ SetMstate(PlaceInBin(a, mem, v))
         /\ UNCHANGED <<mem, unit, top, live, pc, call, exhausted>>
  <2>1. bin_index(size) \in Bins
    BY <1>2, <1>4, BinAssumption
  <2>2. \A p \in Binned(Mst) : ~Wild(mem, p)
    BY <1>1, ServingFacts, NoneWild
  <2>3. ToSet(Mst.bins[bin_index(size)]) \subseteq Binned(Mst)
    BY <2>1 DEF Binned
  <2>4. ~(Wild(mem, v) \/ WildIn(Mst.bins[bin_index(size)]))
    BY <1>2, <2>2, <2>3 DEF WildIn
  <2> QED BY <2>4 DEF process_unsorted
<1> HIDE DEF a, v
<1>6. CASE last /\ Carve(a, v, TRUE)
  <2>1. a.unsorted = <<>>
    <3>1. Lists(Mst.unsorted, ToSet(Mst.unsorted))
      BY <1>1, ServingFacts DEF MstOK
    <3>2. /\ Lists(Front(Mst.unsorted), ToSet(Mst.unsorted) \ {v}) /\ v = Mst.unsorted[1]
          /\ v = Last(Mst.unsorted)
      <4>1. Lists(Front(Mst.unsorted), ToSet(Mst.unsorted) \ {Last(Mst.unsorted)})
        BY <1>1, <3>1, TakesLast
      <4> QED BY <1>6, <4>1 DEF v, Last
    <3>3. ToSet(Mst.unsorted) \ {v} = {}
      <4>1. Len(Mst.unsorted) = 1
        BY <1>6
      <4>2. \A p \in ToSet(Mst.unsorted) : \E i \in 1..Len(Mst.unsorted) : Mst.unsorted[i] = p
        BY <3>1, ListFacts
      <4>3. ASSUME NEW p \in ToSet(Mst.unsorted) PROVE p = v
        <5>1. PICK i \in 1..Len(Mst.unsorted) : Mst.unsorted[i] = p
          BY <4>2
        <5>2. i = 1
          BY <4>1
        <5> QED BY <3>2, <5>1, <5>2
      <4> QED BY <4>3
    <3> QED BY <1>3, <3>2, <3>3, ListFacts
  <2>2. TakesChunk(v, a)
    <3>1. size >= call.nb
      BY <1>1, <1>2, <1>4, <1>6 DEF MINSIZE
    <3> QED BY <1>2, <3>1 DEF TakesChunk
  <2>3. a.any
    BY <1>3
  <2> QED BY <1>1, <1>6, <2>1, <2>2, <2>3, CarveStep
<1>7. CASE /\ ~last /\ size = call.nb
           /\ SetMstate(a)
           /\ Got(set_inuse_bit_at_offset(mem, v, size), v)
           /\ UNCHANGED <<unit, top, exhausted>>
  <2>1. TakesChunk(v, a)
    BY <1>1, <1>2, <1>7 DEF TakesChunk
  <2>2. av' = [av EXCEPT ![call.label] = a] /\ unit' = unit /\ top' = top /\ exhausted' = exhausted
    BY <1>7 DEF SetMstate
  <2> QED BY <1>1, <1>7, <2>1, <2>2, ExactStep
<1>8. CASE /\ ~last /\ size # call.nb
           /\ SetMstate(PlaceInBin(a, mem, v))
           /\ UNCHANGED <<mem, unit, top, live, pc, call, exhausted>>
  <2> DEFINE b == PlaceInBin(a, mem, v)
  <2>1. Relists(a, b, mem, Binned(a) \cup {v}, QuickOf(a))
    <3>1. SizesFit(mem, Binned(a) \cup {v}) /\ bin_index(chunksize(mem, v)) \in Bins
      BY <1>2, <1>3, <1>4, BinAssumption DEF SizesFit
    <3> QED BY <1>2, <1>3, <3>1, Places
  <2>2. in_smallbin_range(call.nb) => b.bins[bin_index(call.nb)] = <<>>
    <3>1. SUFFICES ASSUME in_smallbin_range(call.nb) PROVE b.bins[bin_index(call.nb)] = <<>>
      OBVIOUS
    <3>2. Mst.bins[bin_index(call.nb)] = <<>> /\ call.nb \in ChunkSize
      BY <1>1, <3>1, ServingFacts DEF HeapParts, CallOK
    <3>3. bin_index(call.nb) # bin_index(chunksize(mem, v))
      BY <1>2, <1>4, <1>8, <3>1, <3>2, SmallBin
    <3>4. bin_index(call.nb) \in Bins
      BY <3>2, BinAssumption
    <3> QED BY <1>3, <3>2, <3>3, <3>4, PlacesElsewhere
  <2> HIDE DEF b
  <2>3. /\ av' = [av EXCEPT ![call.label] = b] /\ mem' = mem /\ unit' = unit /\ top' = top
        /\ live' = live /\ pc' = pc /\ call' = call /\ exhausted' = exhausted
    BY <1>8 DEF SetMstate, b
  <2>4. Stays(call.label, b)
    <3>1. MstOK(b, mem) /\ Binned(b) = Binned(Mst) /\ QuickOf(b) = QuickOf(Mst) /\ b.fast = Mst.fast
      BY <1>2, <1>3, <2>1 DEF Relists
    <3> QED BY <1>1, <2>3, <3>1, ServingFacts DEF Stays
  <2>5. Mst' = b
    BY <1>1, <2>3, HeapOf DEF Mst
  <2>6. CallOK'
    BY <1>1, <2>2, <2>3, <2>5 DEF HeapParts, CallOK, Asks, Held, Size
  <2>7. LiveOK' /\ CallTyped' /\ LiveAt' \cup Held' = LiveAt \cup Held
    BY <2>3 DEF HeapParts, TypeOK, CallTyped, LiveOK, Size, LiveAt, Held
  <2> QED BY <1>1, <2>4, <2>6, <2>7, QuietStep
<1> QED BY <1>5, <1>6, <1>7, <1>8

\* A large request takes a chunk of its own bin.
LEMMA BestFitStep ==
  ASSUME HeapParts, best_fit
  PROVE  HeapParts'
<1>1. pc = "bins" /\ Serving /\ call.label \in Label /\ call.nb \in ChunkSize
  BY ServingFacts DEF best_fit, Serving
<1>2. PICK k \in DOMAIN Mst.bins[bin_index(call.nb)] :
        /\ EndsAt(Mst.bins[bin_index(call.nb)][k])
        /\ ~Wild(mem, Mst.bins[bin_index(call.nb)][k])
             => Carve(unlink(Mst, Mst.bins[bin_index(call.nb)][k]),
                      Mst.bins[bin_index(call.nb)][k], FALSE)
  BY DEF best_fit, FitsInBin
<1> DEFINE i == bin_index(call.nb)
           v == Mst.bins[i][k]
           a == unlink(Mst, v)
<1>3. i \in Bins /\ MstOK(Mst, mem) /\ Mst.unsorted = <<>>
  BY <1>1, BinAssumption, ServingFacts DEF HeapParts, CallOK
<1>4. v \in ToSet(Mst.bins[i]) /\ v \in Binned(Mst)
  <2>1. v \in ToSet(Mst.bins[i])
    <3>1. Lists(Mst.bins[i], ToSet(Mst.bins[i]))
      BY <1>3 DEF MstOK
    <3> QED BY <1>2, <3>1, ListFacts
  <2> QED BY <1>3, <2>1, BinnedIs
<1>5. Relists(Mst, a, mem, Binned(Mst) \ {v}, QuickOf(Mst))
  BY <1>3, Unlinked
<1>6. a.any
  <2>1. Mst.bins[i] # <<>>
    BY <1>2
  <2> QED BY <1>3, <1>5, <2>1 DEF Relists, MstOK
<1>7. a.unsorted = <<>>
  <2>1. a.unsorted = Without(Mst.unsorted, v)
    BY <1>3 DEF unlink, MstOK, Mstate
  <2> QED BY <1>3, <2>1 DEF Without, ToSet
<1>8. chunksize(mem, v) >= call.nb /\ Carve(a, v, FALSE)
  <2>1. ~Wild(mem, v)
    BY <1>1, <1>4, ServingFacts, NoneWild
  <2> QED BY <1>2, <2>1 DEF EndsAt
<1> HIDE DEF a, v
<1>9. TakesChunk(v, a)
  BY <1>4, <1>5, <1>8 DEF TakesChunk
<1> QED BY <1>1, <1>6, <1>7, <1>8, <1>9, CarveStep

\* Chunks of larger bins are larger.
LEMMA LargerBin ==
  ASSUME NEW s \in ChunkSize, NEW t \in ChunkSize, bin_index(t) > bin_index(s)
  PROVE  t >= s
<1>1. s \in Nat /\ t \in Nat
  BY UnitSize DEF ChunkSize, MINSIZE
<1>2. ~(t < s)
  <2>1. SUFFICES ASSUME t < s PROVE FALSE
    OBVIOUS
  <2>2. bin_index(t) <= bin_index(s)
    BY <2>1, BinAssumption
  <2>3. bin_index(s) \in Bins /\ bin_index(t) \in Bins
    BY BinAssumption
  <2>4. bin_index(s) \in Int /\ bin_index(t) \in Int
    BY <2>3 DEF Bins
  <2> QED BY <2>2, <2>4
<1> QED BY <1>1, <1>2

\* The first chunk of a larger bin: the assertion on its size holds.
LEMMA SearchStep ==
  ASSUME HeapParts, search_bins
  PROVE  HeapParts'
<1>1. pc = "bins" /\ Serving /\ call.label \in Label /\ call.nb \in ChunkSize
  BY ServingFacts DEF search_bins, Serving
<1>2. PICK i \in Filled :
        LET v == Last(Mst.bins[i])
            a == [Mst EXCEPT !.bins[i] = Front(@),
                             !.binmap = @ \ {j \in Marked \ Filled : j < i}]
        IN  IF Wild(mem, v) THEN Stop("wild")
            ELSE IF chunksize(mem, v) < call.nb THEN Stop("abort")
            ELSE Carve(a, v, in_smallbin_range(call.nb))
  BY DEF search_bins
<1> DEFINE v == Last(Mst.bins[i])
           S == {j \in Marked \ Filled : j < i}
           a == [Mst EXCEPT !.bins[i] = Front(@), !.binmap = @ \ S]
<1>3. MstOK(Mst, mem) /\ Mst.unsorted = <<>> /\ Mst \in Mstate
  BY <1>1, ServingFacts DEF HeapParts, CallOK
<1>4. i \in Bins /\ Mst.bins[i] # <<>> /\ i > bin_index(call.nb)
  BY <1>3, MstFields DEF Filled, Marked
<1>5. \A j \in Bins : Mst.bins[j] # <<>> => j \notin S
  BY DEF Filled
<1>6. /\ Relists(Mst, a, mem, Binned(Mst) \ {v}, QuickOf(Mst))
      /\ v \in Binned(Mst) /\ v \in ToSet(Mst.bins[i])
  <2> HIDE DEF S
  <2> QED BY <1>3, <1>4, <1>5, TakesLarger
<1>7. a.any /\ a.unsorted = <<>>
  <2>1. a.unsorted = Mst.unsorted
    BY <1>3 DEF Mstate
  <2> QED BY <1>3, <1>4, <1>6, <2>1 DEF Relists, MstOK
<1>8. chunksize(mem, v) >= call.nb
  <2>1. bin_index(chunksize(mem, v)) = i
    BY <1>3, <1>4, <1>6 DEF MstOK
  <2>2. chunksize(mem, v) \in ChunkSize
    BY <1>1, <1>6, ServingFacts, ChunkIs DEF Tiles
  <2> QED BY <1>1, <1>4, <2>1, <2>2, LargerBin
<1>9. Carve(a, v, in_smallbin_range(call.nb))
  <2>1. ~(chunksize(mem, v) < call.nb)
    BY <1>1, <1>6, <1>8, ServingFacts, TakesFacts, ChunkIs, UnitSize DEF Tiles, ChunkSize, MINSIZE
  <2>2. ~Wild(mem, v)
    BY <1>1, <1>6, ServingFacts, NoneWild
  <2> QED BY <1>2, <2>1, <2>2
<1> HIDE DEF a, v
<1>10. TakesChunk(v, a)
  BY <1>6, <1>8 DEF TakesChunk
<1>11. in_smallbin_range(call.nb) \in BOOLEAN
  BY DEF in_smallbin_range
<1> QED BY <1>1, <1>7, <1>9, <1>10, <1>11, CarveStep

\* The flags of a call that only goes on to another stage.
LEMMA GoesOn ==
  ASSUME HeapParts, Serving, NEW a2, Stays(call.label, a2), live' = live, CallOK',
         pc' \in Stages \ {"free", "moved"}, call' \in Call
  PROVE  HeapParts'
<1>1. Held = {} /\ Held' = {} /\ call.label \in Label /\ pc # "consolidate"
  BY ServingFacts DEF Held, Serving, Stages
<1>2. mem' = mem /\ unit' = unit
  BY DEF Stays
<1>3. LiveOK' /\ CallTyped' /\ LiveAt' \cup Held' = LiveAt \cup Held
  BY <1>1, <1>2 DEF HeapParts, TypeOK, CallTyped, LiveOK, Size, LiveAt
<1> QED BY <1>1, <1>3, QuietStep

\* No list changes.
LEMMA StaysSame ==
  ASSUME HeapParts, Serving, UNCHANGED <<heapVars, exhausted>>
  PROVE  Stays(call.label, Mst) /\ Mst = av[call.label]
<1>1. av' = [av EXCEPT ![call.label] = Mst]
  BY ServingFacts, HeapOf DEF heapVars
<1> QED BY <1>1, ServingFacts DEF Stays, heapVars

\* __malloc_consolidate is called, before the call goes on at ret.
LEMMA ConsolidateBegins ==
  ASSUME HeapParts, Serving, NEW ret \in {"malloc", "unsorted"}, Consolidate(ret),
         ret = "unsorted" => ~in_smallbin_range(call.nb)
  PROVE  HeapParts'
<1> DEFINE a == [Mst EXCEPT !.fast = FALSE]
<1>1. /\ av' = [av EXCEPT ![call.label] = a] /\ pc' = "consolidate"
      /\ call' = [call EXCEPT !.ret = ret]
      /\ mem' = mem /\ unit' = unit /\ top' = top /\ live' = live /\ exhausted' = exhausted
  BY DEF Consolidate, SetMstate
<1>2. SameButFlags(Mst, a, mem)
  BY SetsFastFlag, ServingFacts
<1> HIDE DEF a
<1>3. /\ call' \in Call /\ call'.label = call.label /\ call'.nb = call.nb /\ call'.want = call.want
      /\ call'.op = call.op /\ call'.old = call.old /\ call'.ret = ret
  BY <1>1, ServingFacts DEF Call
<1>4. Stays(call.label, a)
  BY <1>1, <1>2, <1>3, ServingFacts DEF Stays, SameButFlags
<1>5. CallOK'
  BY <1>1, <1>3, ServingFacts DEF CallOK, Asks, Held
<1> QED BY <1>1, <1>3, <1>4, <1>5, GoesOn DEF Stages

\* ablib_malloc goes on to the unsorted list, to the top, or consolidates.
LEMMA SearchBegins ==
  ASSUME HeapParts, malloc_search
  PROVE  HeapParts'
<1>1. pc = "malloc" /\ Serving
  BY DEF malloc_search, Serving
<1>2. CASE /\ ~Mst.any
           /\ GoTo("top")
           /\ UNCHANGED <<heapVars, live, exhausted>>
  <2>1. Stays(call.label, Mst) /\ Mst = av[call.label]
    BY <1>1, <1>2, StaysSame
  <2>2. Binned(Mst) = {}
    <3>1. MstOK(Mst, mem)
      BY <1>1, ServingFacts
    <3>2. Mst.unsorted = <<>> /\ \A i \in Bins : Mst.bins[i] = <<>>
      BY <1>2, <3>1 DEF MstOK
    <3> QED BY <3>2 DEF Binned, ToSet
  <2>3. Mst' = Mst /\ pc' = "top" /\ call' = call /\ live' = live /\ mem' = mem /\ unit' = unit
    BY <1>2 DEF Mst, GoTo, heapVars
  <2>4. CallOK'
    BY <1>1, <2>2, <2>3, ServingFacts DEF CallOK, Asks, Held
  <2> QED BY <1>1, <2>1, <2>3, <2>4, GoesOn, ServingFacts DEF Stages
<1>3. CASE /\ Mst.any /\ ~FastHit /\ ~SmallHit
           /\ in_smallbin_range(call.nb) \/ ~Mst.fast
           /\ GoTo("unsorted")
           /\ UNCHANGED <<heapVars, live, exhausted>>
  <2>1. Stays(call.label, Mst) /\ Mst = av[call.label]
    BY <1>1, <1>3, StaysSame
  <2>3. /\ Mst' = Mst /\ pc' = "unsorted" /\ call' = call /\ live' = live /\ mem' = mem /\ unit' = unit
        /\ in_smallbin_range(call.nb) => Mst.bins[bin_index(call.nb)] = <<>>
    BY <1>3 DEF Mst, GoTo, heapVars, SmallHit
  <2>4. CallOK'
    BY <1>1, <2>3, ServingFacts DEF CallOK, Asks, Held
  <2> QED BY <1>1, <2>1, <2>3, <2>4, GoesOn, ServingFacts DEF Stages
<1>4. CASE /\ Mst.any /\ ~FastHit /\ ~SmallHit
           /\ ~in_smallbin_range(call.nb) /\ Mst.fast
           /\ Consolidate("unsorted")
  BY <1>1, <1>4, ConsolidateBegins
<1> QED BY <1>2, <1>3, <1>4 DEF malloc_search

\* Every chunk is in its bin.
LEMMA UnsortedDone ==
  ASSUME HeapParts, unsorted_done
  PROVE  HeapParts'
<1>1. pc = "unsorted" /\ Serving /\ Mst.unsorted = <<>>
  BY DEF unsorted_done, Serving
<1>2. UNCHANGED <<heapVars, live, exhausted>> /\ GoTo("bins")
  BY DEF unsorted_done
<1>3. Stays(call.label, Mst) /\ Mst = av[call.label]
  BY <1>1, <1>2, StaysSame
<1>4. Mst' = Mst /\ pc' = "bins" /\ call' = call /\ live' = live /\ mem' = mem /\ unit' = unit
  BY <1>2 DEF Mst, GoTo, heapVars
<1>5. CallOK'
  BY <1>1, <1>4, ServingFacts DEF HeapParts, CallOK, Asks, Held
<1> QED BY <1>1, <1>3, <1>4, <1>5, GoesOn, ServingFacts DEF Stages

\* __malloc_alloc consolidates first.
LEMMA RetryStep ==
  ASSUME HeapParts, FlagsOK, malloc_retry
  PROVE  HeapParts'
<1>1. pc = "top" /\ Serving /\ Mst.fast
  BY DEF malloc_retry, Serving
<1>2. in_smallbin_range(call.nb)
  BY <1>1 DEF FlagsOK
<1>3. Consolidate("malloc")
  BY <1>2 DEF malloc_retry
<1> QED BY <1>1, <1>3, ConsolidateBegins

\* No chunk of the bins serves the request.
LEMMA BinsDone ==
  ASSUME HeapParts, bins_done
  PROVE  HeapParts'
<1> DEFINE a == [Mst EXCEPT !.binmap = @ \ Marked]
<1>1. pc = "bins" /\ Serving /\ call.label \in Label /\ call.nb \in ChunkSize /\ NoFit /\ Filled = {}
  BY ServingFacts DEF bins_done, Serving
<1>2. /\ av' = [av EXCEPT ![call.label] = a] /\ pc' = "top" /\ call' = call
      /\ mem' = mem /\ unit' = unit /\ top' = top /\ live' = live /\ exhausted' = exhausted
  BY DEF bins_done, SetMstate, GoTo
<1>3. MstOK(Mst, mem) /\ Mst.unsorted = <<>> /\ Mst \in Mstate
  BY <1>1, ServingFacts DEF HeapParts, CallOK
<1>4. Relists(Mst, a, mem, Binned(Mst), QuickOf(Mst))
  <2>1. \A j \in Bins : Mst.bins[j] # <<>> => j \notin Marked
    BY <1>1 DEF Filled
  <2> QED BY <1>3, <2>1, ClearsMarks
<1> HIDE DEF a
<1>5. Stays(call.label, a)
  BY <1>1, <1>2, <1>4, ServingFacts DEF Stays, Relists
<1>6. ASSUME NEW p \in Binned(Mst) PROVE chunksize(mem, p) < call.nb
  <2>1. PICK i \in Bins : p \in ToSet(Mst.bins[i])
    BY <1>3, BinnedIs DEF ToSet
  <2>2. bin_index(chunksize(mem, p)) = i /\ chunksize(mem, p) \in ChunkSize
    <3>1. chunksize(mem, p) \in ChunkSize
      BY <1>1, ServingFacts, ChunkIs DEF Tiles
    <3> QED BY <1>3, <2>1, <3>1 DEF MstOK
  <2>3. i \in Mst.binmap /\ Mst.bins[i] # <<>>
    <3>1. Mst.bins[i] # <<>>
      BY <2>1 DEF ToSet
    <3> QED BY <1>3, <3>1 DEF MstOK
  <2>4. ~(i > bin_index(call.nb))
    BY <1>1, <2>3 DEF Filled, Marked
  <2>5. chunksize(mem, p) \in Nat /\ call.nb \in Nat /\ i \in Int /\ bin_index(call.nb) \in Int
    <3>1. bin_index(call.nb) \in Bins
      BY <1>1, BinAssumption
    <3> QED BY <1>1, <2>2, <3>1, UnitSize DEF ChunkSize, MINSIZE, Bins
  <2>6. CASE i < bin_index(call.nb)
    <3>1. ~(chunksize(mem, p) > call.nb)
      BY <1>1, <2>2, <2>5, <2>6, BinAssumption
    <3> QED BY <2>2, <2>5, <2>6, <3>1
  <2>7. CASE i = bin_index(call.nb)
    <3>1. CASE in_smallbin_range(call.nb)
      <4>1. Mst.bins[i] = <<>>
        BY <1>1, <2>7, <3>1 DEF HeapParts, CallOK
      <4> QED BY <2>3, <4>1
    <3>2. CASE ~in_smallbin_range(call.nb)
      BY <1>1, <2>1, <2>5, <2>7, <3>2 DEF NoFit, EndsAt
    <3> QED BY <3>1, <3>2
  <2> QED BY <2>4, <2>5, <2>6, <2>7
<1>7. Mst' = a /\ Binned(a) = Binned(Mst)
  BY <1>1, <1>2, <1>4, HeapOf DEF Mst, Relists
<1>8. CallOK'
  BY <1>1, <1>2, <1>6, <1>7, ServingFacts DEF CallOK, Asks, Held, Size
<1> QED BY <1>1, <1>2, <1>5, <1>8, GoesOn, ServingFacts DEF Stages

---------------------------------------------------------------------------
(* Memory from the top of a unit                                           *)

\* Other memory and tops, in which the same chunks are free and in use.
SameChunks(m, tp) ==
  /\ IsHeap(m, tp) /\ Layout(m, FreeChunks, UsedChunks, tp)
  /\ SameSizes(mem, m, FreeChunks \cup UsedChunks)

\* Lists that stay hold the same chunks.
LEMMA SameAll ==
  ASSUME HeapParts, av' = av
  PROVE  FreeChunks' = FreeChunks /\ QuickAll' = QuickAll
BY DEF FreeChunks, QuickAll, Quick

\* nb bytes of the top of unit u are handed out.
LEMMA FromTop ==
  ASSUME HeapParts, Serving, UnitsKept, exhausted' \in BOOLEAN,
         NEW m, NEW tp, SameChunks(m, tp), NEW u \in 1..Len(tp),
         chunksize(m, tp[u]) - call.nb >= 16, unit'[u] = call.label,
         top' = [tp EXCEPT ![u] = tp[u] + call.nb], av' = av,
         NEW m2, m2 = set_head(set_head(m, tp[u], call.nb, 1), tp[u] + call.nb,
                               chunksize(m, tp[u]) - call.nb, 1),
         Got(m2, tp[u])
  PROVE  HeapParts'
<1> DEFINE v == tp[u]
<1>1. IsHeap(m, tp) /\ Layout(m, FreeChunks, UsedChunks, tp)
  BY DEF SameChunks
<1>2. /\ IsHeap(m2, top') /\ Layout(m2, FreeChunks, UsedChunks \cup {v}, top')
      /\ SameSizes(m, m2, FreeChunks \cup UsedChunks) /\ chunksize(m2, v) = call.nb
  <2>1. call.nb \in Nat /\ call.nb % 8 = 0 /\ call.nb >= 16
    BY ServingFacts
  <2>2. TopCarved(m, m2, FreeChunks, UsedChunks, top', v, call.nb)
    BY <1>1, <2>1, CarvesTop
  <2> QED BY <2>2 DEF TopCarved
<1>3. SameSizes(mem, m2, FreeChunks \cup UsedChunks)
  BY <1>2 DEF SameChunks, SameSizes
<1>4. UnitOf(v) = u /\ v \notin FreeChunks \cup UsedChunks
  <2>1. v \in Tiles(FreeChunks, UsedChunks, tp) /\ UnitOf(v) = u
    BY <1>1, TopsDiffer
  <2>2. ChunkAt(m, FreeChunks, UsedChunks, tp, v)
    BY <1>1, <2>1, ChunkFacts
  <2> QED BY <2>1, <2>2 DEF ChunkAt
<1>5. FreeChunks' = FreeChunks /\ QuickAll' = QuickAll
  BY SameAll
<1>6. Ready(m2, FreeChunks', QuickAll' \cup LiveAt \cup {v}, v)
  <2>1. QuickAll' \cup LiveAt \cup {v} = UsedChunks \cup {v} /\ LiveAt \subseteq UsedChunks
    BY <1>5, ServingFacts
  <2>2. chunksize(m2, v) >= call.nb
    BY <1>2, ServingFacts
  <2>3. SameSizes(mem, m2, LiveAt)
    BY <1>3, <2>1 DEF SameSizes
  <2> QED BY <1>2, <1>4, <1>5, <2>1, <2>2, <2>3 DEF Ready
<1>7. Leaves(m2, Mst, v)
  <2>1. av' = [av EXCEPT ![call.label] = Mst]
    BY ServingFacts, HeapOf
  <2>2. MstOK(Mst, m2)
    <3>1. SameSizes(mem, m2, Binned(Mst) \cup QuickOf(Mst))
      BY <1>3, ServingFacts DEF SameSizes
    <3> QED BY <3>1, SameLists, ServingFacts
  <2>3. \A p \in Binned(Mst) \cup QuickOf(Mst) : unit'[UnitOf(p)] = call.label
    <3>1. ASSUME NEW p \in Binned(Mst) \cup QuickOf(Mst) PROVE UnitOf(p) \in 1..Len(unit)
      BY ServingFacts, ChunkIs DEF Tiles
    <3> QED BY <3>1, ServingFacts DEF UnitsKept
  <2>4. \A p \in FreeChunks \cup QuickAll : chunksize(m2, p) = chunksize(mem, p)
    BY <1>3, ServingFacts DEF SameSizes
  <2> QED BY <1>4, <1>5, <2>1, <2>2, <2>3, <2>4, ServingFacts DEF Leaves
<1> HIDE DEF v
<1> QED BY <1>6, <1>7, GotHeap DEF v

\* The top of a unit that there was.
LEMMA TopStep ==
  ASSUME HeapParts, use_unit_top, ~exhausted'
  PROVE  HeapParts'
<1>1. pc = "top" /\ Serving
  BY DEF use_unit_top, Serving
<1>2. PICK u \in Units :
        /\ HasRoom(u)
        /\ IF Wild(mem, top[u]) THEN Stop("wild")
           ELSE LET v    == top[u]
                    size == chunksize(mem, v)
                IN  /\ top' = [top EXCEPT ![u] = v + call.nb]
                    /\ exhausted' = (exhausted \/ size - call.nb < MINSIZE)
                    /\ Got(CarvedMem(mem, v, size, call.nb), v)
                    /\ UNCHANGED <<av, unit>>
  BY DEF use_unit_top
<1> DEFINE v == top[u]
           size == chunksize(mem, v)
           m2 == set_head(set_head(mem, v, call.nb, 1), v + call.nb, size - call.nb, 1)
<1>3. u \in 1..Len(top) /\ unit[u] = call.label
  <2>1. unit \in Seq(Label) /\ Len(top) = Len(unit)
    BY DEF HeapParts, TypeOK
  <2> QED BY <2>1 DEF Units
<1>4. v \in Tiles(FreeChunks, UsedChunks, top) /\ UnitOf(v) = u /\ v + size = UnitEnd(u)
  BY <1>3, TopsDiffer, HeapOf
<1>5. mem[v + 4] \in Nat /\ v \in Nat /\ size \in Nat
  BY <1>4, ChunkIs, UnitSize DEF ChunkSize, MINSIZE
<1>6. ~Wild(mem, top[u])
  BY <1>3, NoneWild
<1>7. /\ top' = [top EXCEPT ![u] = v + call.nb] /\ ~(size - call.nb < MINSIZE)
      /\ Got(CarvedMem(mem, v, size, call.nb), v) /\ av' = av /\ unit' = unit
      /\ exhausted' = (exhausted \/ size - call.nb < MINSIZE)
  BY <1>2, <1>6
<1>8. size - call.nb >= 16 /\ call.nb \in Nat
  BY <1>1, <1>5, <1>7, ServingFacts DEF MINSIZE
<1>9. CarvedMem(mem, v, size, call.nb) = m2
  <2>1. ~(size - call.nb < MINSIZE)
    BY <1>7
  <2>2. DeadWord((v + call.nb) + (size - call.nb))
    <3>1. (v + call.nb) + (size - call.nb) = v + size /\ v + size \in Nat
      BY <1>5, <1>8
    <3>2. UnitOf(v + size) = u
      <4>1. ChunkAt(mem, FreeChunks, UsedChunks, top, v)
        BY <1>4, ChunkIs
      <4> QED BY <1>4, <4>1 DEF ChunkAt
    <3> QED BY <1>4, <3>1, <3>2, DeadIsEnd
  <2> QED BY <2>1, <2>2 DEF CarvedMem, set_foot
<1>10. SameChunks(mem, top) /\ UnitsKept /\ exhausted' \in BOOLEAN
  <2>1. UnitsKept
    <3>1. Len(top') = Len(top)
      BY <1>7, HeapOf DEF IsHeap
    <3> QED BY <1>7, <3>1 DEF UnitsKept, HeapParts, TypeOK
  <2> QED BY <1>7, <2>1, HeapOf DEF SameChunks, SameSizes
<1>11. Got(m2, v)
  BY <1>7, <1>9
<1> HIDE DEF m2
<1> QED BY <1>1, <1>3, <1>7, <1>8, <1>10, <1>11, FromTop DEF m2

\* The last element of a sequence is replaced.
LEMMA AppendMoves ==
  ASSUME NEW T, NEW s \in Seq(T), NEW x \in T, NEW y \in T
  PROVE  [Append(s, x) EXCEPT ![Len(s) + 1] = y] = Append(s, y)
<1> DEFINE f == Append(s, x)
           g == Append(s, y)
           n == Len(s) + 1
<1>1. n \in Nat /\ n \in 1..n /\ f \in [1..n -> T] /\ g \in [1..n -> T] /\ f[n] = x /\ g[n] = y
      /\ \A w \in 1..n : w # n => f[w] = s[w] /\ g[w] = s[w]
  <2>1. f \in Seq(T) /\ g \in Seq(T) /\ Len(f) = n /\ Len(g) = n /\ n \in Nat
    OBVIOUS
  <2>2. f[n] = x /\ g[n] = y /\ \A w \in 1..n : w # n => f[w] = s[w] /\ g[w] = s[w]
    BY <2>1
  <2>3. n \in 1..n
    BY <2>1
  <2>4. \A h \in Seq(T) : h \in [1..Len(h) -> T]
    OBVIOUS
  <2> HIDE DEF f, g, n
  <2>5. f \in [1..n -> T] /\ g \in [1..n -> T]
    BY <2>1, <2>4
  <2> QED BY <2>1, <2>2, <2>3, <2>5
<1> HIDE DEF f, g, n
<1>2. [f EXCEPT ![n] = y] \in [1..n -> T]
  BY <1>1
<1>3. \A w \in 1..n : [f EXCEPT ![n] = y][w] = g[w]
  BY <1>1
<1>4. [f EXCEPT ![n] = y] = g
  BY <1>1, <1>2, <1>3
<1> QED BY <1>4 DEF f, g, n

\* The arbiter stops, for want of memory.
LEMMA NoMemory ==
  ASSUME HeapParts, Serving, Stop("nomem")
  PROVE  HeapParts'
<1>1. UNCHANGED <<heapVars, exhausted>> /\ live' = live /\ call' = call /\ pc' = "nomem"
  BY DEF Stop
<1>2. Stays(call.label, Mst) /\ mem' = mem /\ unit' = unit
  BY <1>1, StaysSame DEF heapVars
<1>3. Held = {} /\ Held' = {} /\ call.label \in Label /\ pc # "consolidate"
  BY <1>1, ServingFacts DEF Held, Serving
<1>4. LiveOK' /\ CallTyped' /\ LiveAt' \cup Held' = LiveAt \cup Held
  BY <1>1, <1>2, <1>3 DEF HeapParts, TypeOK, CallTyped, LiveOK, Size, LiveAt, Stops
<1>5. CallOK'
  BY <1>1, <1>3 DEF CallOK, Asks
<1> QED BY <1>2, <1>3, <1>4, <1>5, QuietStep

\* A new unit for the label, of whose top the request takes its part if there
\* is enough of it.
LEMMA AllocStep ==
  ASSUME HeapParts, malloc_alloc
  PROVE  HeapParts'
<1> DEFINE u == Len(unit) + 1
           b == Base(u)
           m == UnitMem(mem, b)
           tp == Append(top, b)
<1>1. pc = "top" /\ Serving /\ call.label \in Label /\ call.nb \in Nat
  BY ServingFacts DEF malloc_alloc, Serving
<1>2. Len(top) = Len(unit) /\ Len(top) \in Nat /\ unit \in Seq(Label) /\ top \in Seq(Chunk)
  BY DEF HeapParts, TypeOK
<1>3. CASE u > MaxUnits /\ Stop("nomem")
  BY <1>1, <1>3, NoMemory
<1>4. ASSUME u <= MaxUnits
      PROVE  /\ SameChunks(m, tp) /\ chunksize(m, b) = UNIT_SIZE - 16
             /\ Len(tp) = u /\ tp[u] = b /\ b \in Chunk /\ u \in 1..Len(tp)
  <2>1. /\ IsHeap(m, tp) /\ Layout(m, FreeChunks, UsedChunks, tp)
        /\ SameSizes(mem, m, Tiles(FreeChunks, UsedChunks, top))
        /\ chunksize(m, b) = UNIT_SIZE - 16
    <3>1. /\ IsHeap(mem, top) /\ Layout(mem, FreeChunks, UsedChunks, top)
          /\ Len(top) + 1 <= MaxUnits /\ m = UnitMem(mem, Base(Len(top) + 1))
          /\ b = Base(Len(top) + 1)
      BY <1>2, <1>4, HeapOf
    <3> HIDE DEF m
    <3> QED BY <3>1, NewUnit
  <2>2. Len(tp) = u /\ tp[u] = b
    BY <1>2
  <2>3. b \in Chunk /\ u \in 1..Len(tp)
    BY <1>2, <2>1, <2>2 DEF IsHeap
  <2> QED BY <2>1, <2>2, <2>3 DEF SameChunks, SameSizes, Tiles
<1>5. ASSUME unit' = Append(unit, call.label), Len(top') = u
      PROVE  UnitsKept /\ unit'[u] = call.label
  <2>1. unit' \in Seq(Label) /\ Len(unit') = u
    BY <1>1, <1>2, <1>5
  <2> QED BY <1>2, <1>5, <2>1 DEF UnitsKept
<1>6. CASE /\ u <= MaxUnits
           /\ unit' = Append(unit, call.label)
           /\ top' = tp
           /\ mem' = m
           /\ Done
           /\ UNCHANGED <<av, live, exhausted>>
  <2> HIDE DEF m, tp, b
  <2>1. /\ IsHeap(mem', top') /\ Layout(mem', FreeChunks, UsedChunks, top')
        /\ SameSizes(mem, mem', FreeChunks \cup UsedChunks)
    BY <1>4, <1>6 DEF SameChunks
  <2>2. UnitsKept
    BY <1>4, <1>5, <1>6
  <2>3. FreeChunks' = FreeChunks /\ QuickAll' = QuickAll
    BY <1>6, SameAll
  <2>4. pc' = "idle" /\ call' = NoCall /\ live' = live /\ Held' = {} /\ LiveAt' = LiveAt
    BY <1>6 DEF Done, Held, LiveAt
  <2>5. UsedChunks' = UsedChunks /\ UsedChunks = QuickAll \cup LiveAt
    BY <1>1, <2>3, <2>4, UsedIsNext, ServingFacts
  <2>6. Apart'
    BY <2>3, <2>4 DEF HeapParts, Apart
  <2>7. CallOK'
    BY <2>4 DEF CallOK, Asks, NoCall
  <2>8. LiveOK'
    <3>1. ASSUME NEW c \in live
          PROVE  /\ c.nb >= MINSIZE /\ c.nb <= chunksize(mem', c.p)
                 /\ unit'[UnitOf(c.p)] = c.label
      <4>1. c.p \in LiveAt
        BY DEF LiveAt
      <4>2. c.p \in UsedChunks /\ UnitOf(c.p) \in 1..Len(unit)
        BY <2>5, <4>1, ChunkIs DEF Tiles
      <4> QED BY <2>1, <2>2, <4>2 DEF HeapParts, LiveOK, Size, SameSizes, UnitsKept
    <3> QED BY <2>4, <3>1 DEF HeapParts, LiveOK, Size
  <2>9. CallTyped' /\ exhausted' \in BOOLEAN
    BY <1>6, <2>4, NoCallOK DEF HeapParts, TypeOK, CallTyped
  <2>10. OthersKept(call.label)
    BY <2>1, <2>5 DEF OthersKept, SameSizes
  <2>11. MstNext(call.label, Mst)
    <3>1. av' = [av EXCEPT ![call.label] = Mst]
      BY <1>1, <1>6, ServingFacts, HeapOf
    <3>2. MstOK(Mst, mem')
      <4>1. SameSizes(mem, mem', Binned(Mst) \cup QuickOf(Mst))
        BY <1>1, <2>1, <2>5, ServingFacts DEF SameSizes
      <4> QED BY <1>1, <4>1, SameLists, ServingFacts
    <3>3. \A p \in Binned(Mst) \cup QuickOf(Mst) : unit'[UnitOf(p)] = call.label
      <4>1. ASSUME NEW p \in Binned(Mst) \cup QuickOf(Mst) PROVE UnitOf(p) \in 1..Len(unit)
        BY <1>1, <2>5, ServingFacts, ChunkIs DEF Tiles
      <4> QED BY <1>1, <2>2, <4>1, ServingFacts DEF UnitsKept
    <3> QED BY <1>1, <3>1, <3>2, <3>3, ServingFacts DEF MstNext
  <2>12. pc # "consolidate" /\ Layout(mem', FreeChunks', UsedChunks', top')
    BY <1>1, <2>1, <2>3, <2>5
  <2> QED BY <1>1, <2>1, <2>2, <2>6, <2>7, <2>8, <2>9, <2>10, <2>11, <2>12, Assembles
<1>7. CASE /\ u <= MaxUnits /\ UNIT_SIZE - 16 >= call.nb + MINSIZE
           /\ unit' = Append(unit, call.label)
           /\ top' = Append(top, b + call.nb)
           /\ Got(set_head(set_head(m, b, call.nb, 1), b + call.nb,
                           (UNIT_SIZE - 16) - call.nb, 1), b)
           /\ UNCHANGED <<av, exhausted>>
  <2> DEFINE m2 == set_head(set_head(m, tp[u], call.nb, 1), tp[u] + call.nb,
                            chunksize(m, tp[u]) - call.nb, 1)
  <2>1. /\ SameChunks(m, tp) /\ u \in 1..Len(tp) /\ tp[u] = b /\ Len(tp) = u
        /\ chunksize(m, tp[u]) = UNIT_SIZE - 16
    BY <1>4, <1>7
  <2>2. top' = [tp EXCEPT ![u] = tp[u] + call.nb] /\ Len(top') = u
    <3>1. Len(Append(top, b + call.nb)) = u
      BY <1>2
    <3>2. top \in Seq(Int) /\ b \in Int /\ b + call.nb \in Int
      BY <1>1, <1>2, <1>4, <1>7, UnitSize DEF Chunk, Addr
    <3>3. [tp EXCEPT ![Len(top) + 1] = b + call.nb] = Append(top, b + call.nb)
      <4> DEFINE y == b + call.nb
      <4> HIDE DEF b, u, y
      <4>1. y \in Int
        BY <3>2 DEF y
      <4>2. [Append(top, b) EXCEPT ![Len(top) + 1] = y] = Append(top, y)
        BY <3>2, <4>1, AppendMoves
      <4> QED BY <4>2 DEF y
    <3> QED BY <1>2, <1>7, <2>1, <3>1, <3>3
  <2>3. UnitsKept /\ unit'[u] = call.label
    BY <1>5, <1>7, <2>2
  <2>4. Got(m2, tp[u])
    <3> HIDE DEF m, tp, b, u
    <3> QED BY <1>7, <2>1
  <2>5. chunksize(m, tp[u]) - call.nb >= 16 /\ exhausted' \in BOOLEAN /\ av' = av
    <3> HIDE DEF m, tp, b, u
    <3> QED BY <1>1, <1>7, <2>1, UnitSize DEF MINSIZE, HeapParts, TypeOK
  <2> HIDE DEF m, tp, b, u, m2
  <2> QED BY <1>1, <2>1, <2>2, <2>3, <2>4, <2>5, FromTop DEF m2
<1> QED BY <1>3, <1>6, <1>7 DEF malloc_alloc

---------------------------------------------------------------------------
(* ablib_free and __malloc_consolidate                                     *)

\* The chunk that is being freed.
LEMMA FreeingFacts ==
  ASSUME HeapParts, pc = "free"
  PROVE  /\ call.label \in Label /\ Mst = av[call.label] /\ MstOK(Mst, mem) /\ Mst \in Mstate
         /\ Held = {call.p} /\ call.p \in UsedChunks /\ call.p \in Chunk
         /\ unit[UnitOf(call.p)] = call.label
         /\ call.p \notin LiveAt /\ call.p \notin QuickAll /\ call.p \notin QuickOf(Mst)
         /\ QuickOf(Mst) # {} => Mst.fast
         /\ chunksize(mem, call.p) \in ChunkSize /\ chunksize(mem, call.p) \in Nat
<1>1. call.label \in Label
  BY DEF HeapParts, TypeOK, Call
<1>2. Mst = av[call.label] /\ MstOK(Mst, mem) /\ Mst \in Mstate
  BY <1>1 DEF Mst, HeapParts, Listed, MstOK
<1>3. Held = {call.p} /\ call.p \in UsedChunks
  BY UsedIs DEF Held
<1>4. call.p \in Chunk /\ unit[UnitOf(call.p)] = call.label /\ call.p \notin LiveAt
  BY <1>3 DEF HeapParts, CallOK, LiveAt
<1>5. call.p \notin QuickAll /\ call.p \notin QuickOf(Mst)
  BY <1>1, <1>2, <1>3, QuickAllIs DEF HeapParts, Apart
<1>6. QuickOf(Mst) # {} => Mst.fast
  BY <1>1, <1>2 DEF HeapParts, Flagged
<1>7. chunksize(mem, call.p) \in ChunkSize /\ chunksize(mem, call.p) \in Nat
  BY <1>3, ChunkIs, UnitSize DEF Tiles, ChunkSize, MINSIZE
<1> QED BY <1>1, <1>2, <1>3, <1>4, <1>5, <1>6, <1>7

\* A small chunk goes to its fastbin.
LEMMA FreeFastStep ==
  ASSUME HeapParts, free_fast
  PROVE  HeapParts'
<1> DEFINE p == call.p
           a2 == [Mst EXCEPT !.any = TRUE, !.fast = TRUE,
                             !.fastbins[chunksize(mem, p)] = <<p>> \o @]
<1>0. pc = "free" => fastbin(chunksize(mem, p)) = chunksize(mem, p)
  BY FreeingFacts DEF ChunkSize, fastbin
<1>1. /\ pc = "free" /\ chunksize(mem, p) <= MXFAST
      /\ av' = [av EXCEPT ![call.label] = a2]
      /\ pc' = "idle" /\ call' = NoCall
      /\ mem' = mem /\ unit' = unit /\ top' = top /\ live' = live /\ exhausted' = exhausted
  BY <1>0 DEF free_fast, SetMstate, Done
<1>2. chunksize(mem, p) \in Fast
  BY <1>1, FreeingFacts, HeapAssumption, UnitSize DEF ChunkSize, Fast, MINSIZE
<1>3. /\ MstOK(a2, mem) /\ Binned(a2) = Binned(Mst) /\ QuickOf(a2) = QuickOf(Mst) \cup {p}
      /\ a2.any /\ a2.fast
  BY <1>1, <1>2, FreeingFacts, PushesFast
<1> HIDE DEF a2
<1>4. FreeChunks' = FreeChunks
  <2>1. Binned(a2) = Binned(av[call.label]) /\ call.label \in Label
    BY <1>1, <1>3, FreeingFacts
  <2> QED BY <1>1, <2>1, FreeSame
<1>5. QuickAll' = QuickAll \cup {p}
  <2>1. QuickOf(a2) = QuickOf(av[call.label]) \cup {p} /\ call.label \in Label
    BY <1>1, <1>3, FreeingFacts
  <2> QED BY <1>1, <2>1, QuickMore
<1>6. Held' = {} /\ LiveAt' = LiveAt
  BY <1>1 DEF Held, LiveAt
<1>7. UsedChunks' = UsedChunks
  BY <1>1, <1>5, <1>6, UsedIs, UsedIsNext, FreeingFacts
<1>8. Apart'
  BY <1>1, <1>5, <1>6, FreeingFacts DEF HeapParts, Apart
<1>9. LiveOK' /\ CallTyped' /\ CallOK' /\ exhausted' \in BOOLEAN
  BY <1>1, <1>6, NoCallOK DEF HeapParts, TypeOK, LiveOK, Size, CallTyped, CallOK, Asks, NoCall
<1>10. UnitsKept /\ OthersKept(call.label) /\ call.label \in Label /\ pc # "consolidate"
  BY <1>1, FreeingFacts DEF UnitsKept, OthersKept, HeapParts, TypeOK
<1>11. IsHeap(mem', top') /\ Layout(mem', FreeChunks', UsedChunks', top')
  BY <1>1, <1>4, <1>7, HeapOf
<1>12. MstNext(call.label, a2)
  <2>1. \A q \in Binned(a2) \cup QuickOf(a2) : unit'[UnitOf(q)] = call.label
    BY <1>1, <1>3, FreeingFacts DEF HeapParts, Owned
  <2> QED BY <1>1, <1>3, <2>1 DEF MstNext
<1> QED BY <1>8, <1>9, <1>10, <1>11, <1>12, Assembles

\* Chunk p of label L, in use so far, is to be free; a are the lists of the
\* label, on which p is not.
Releases(L, a, p) ==
  /\ p \in UsedChunks /\ p \notin LiveAt /\ unit[UnitOf(p)] = L
  /\ MstOK(a, mem) /\ a.any
  /\ Binned(a) = Binned(av[L]) /\ QuickOf(a) = QuickOf(av[L]) \ {p}
  /\ p \in QuickAll => p \in QuickOf(av[L])

\* free reads tags, and unlink finds the neighbours of p on their lists.
LEMMA NeverAborts ==
  ASSUME HeapParts, NEW L \in Label, NEW a, NEW p, Releases(L, a, p)
  PROVE  /\ Unlinks(a, mem, p, top[UnitOf(p)]) /\ ~WildMerge(mem, p, top[UnitOf(p)])
         /\ Beside(mem, FreeChunks, UsedChunks, top, p, top[UnitOf(p)])
         /\ {Front_of(mem, p), next_chunk(mem, p)} \cap FreeChunks \subseteq Binned(av[L])
<1> DEFINE f == Front_of(mem, p)
           n == next_chunk(mem, p)
           t == top[UnitOf(p)]
<1>1. p \in UsedChunks /\ unit[UnitOf(p)] = L /\ Binned(a) = Binned(av[L])
  BY DEF Releases
<1>2. Beside(mem, FreeChunks, UsedChunks, top, p, t)
  BY <1>1, HeapOf, Neighbours
<1>3. ASSUME NEW q \in FreeChunks, UnitOf(q) = UnitOf(p) PROVE q \in Binned(av[L])
  <2>1. PICK K \in Label : q \in Binned(av[K])
    BY FreeIs
  <2>2. K = L
    BY <1>1, <1>3, <2>1 DEF HeapParts, Owned
  <2> QED BY <2>1, <2>2
<1>4. UnitOf(f) = UnitOf(p) /\ UnitOf(n) = UnitOf(p)
  BY <1>2 DEF Beside
<1>5. {f, n} \cap FreeChunks \subseteq Binned(av[L])
  <2> HIDE DEF f, n
  <2> QED BY <1>3, <1>4
<1>6. ~prev_inuse(mem, p) => f \in FreeChunks
  BY <1>2 DEF Beside
<1>7. n # t /\ TakesNext(mem, p, t) => n \in FreeChunks
  BY <1>2 DEF Beside
<1>8. Unlinks(a, mem, p, t)
  BY <1>1, <1>5, <1>6, <1>7 DEF Unlinks
<1>9. ~WildMerge(mem, p, t)
  BY <1>1, HeapOf, ReadsTags
<1> QED BY <1>2, <1>5, <1>8, <1>9

\* The free chunks when p is one, from the front f to the end of what n was.
FreedTo(S, f, n, t) == Moved(S, {f, n}, IF n = t THEN {} ELSE {f})

\* p and its free neighbours become one free chunk, or part of the top.
LEMMA CoalesceStep ==
  ASSUME HeapParts, NEW a, NEW p, NEW keep \in BOOLEAN,
         call.label \in Label, Releases(call.label, a, p), Coalesce(a, p, keep),
         LiveAt' \cup Held' = (LiveAt \cup Held) \ {p},
         QuickOf(a) # {} => keep \/ (pc' = "consolidate" /\ call'.label = call.label),
         CallOK', CallTyped'
  PROVE  HeapParts'
<1> DEFINE L == call.label
           t == top[UnitOf(p)]
           f == Front_of(mem, p)
           n == next_chunk(mem, p)
           b == MergedLists(a, mem, p, t)
           b2 == [b EXCEPT !.fast = keep]
<1>1. /\ p \in UsedChunks /\ p \notin LiveAt /\ unit[UnitOf(p)] = L
      /\ MstOK(a, mem) /\ a.any /\ Binned(a) = Binned(av[L]) /\ QuickOf(a) = QuickOf(av[L]) \ {p}
      /\ p \in QuickAll => p \in QuickOf(av[L])
  BY DEF Releases
<1>2. /\ mem' = MergedMem(mem, p, t) /\ av' = [av EXCEPT ![L] = b2]
      /\ top' = (IF n = t THEN [top EXCEPT ![UnitOf(p)] = f] ELSE top)
      /\ unit' = unit /\ live' = live /\ exhausted' = exhausted
  BY DEF Coalesce, SetMstate
<1>3. /\ Beside(mem, FreeChunks, UsedChunks, top, p, t)
      /\ {f, n} \cap FreeChunks \subseteq Binned(av[L])
  BY NeverAborts
<1>4. Merged(mem, mem', FreeChunks, UsedChunks, top, p, t)
  BY <1>1, <1>2, HeapOf, Coalesces
<1>5. /\ IsHeap(mem', top') /\ Layout(mem', FreedTo(FreeChunks, f, n, t), UsedChunks \ {p}, top')
      /\ Len(top') = Len(top)
      /\ SameSizes(mem, mem', (FreeChunks \ {f, n}) \cup (UsedChunks \ {p}))
  <2>1. FreedTo(FreeChunks, f, n, t) =
          IF n = t THEN FreeChunks \ {f, n} ELSE (FreeChunks \ {f, n}) \cup {f}
    BY DEF FreedTo, Moved
  <2> QED BY <1>2, <1>4, <2>1 DEF Merged
<1>6. Relists(a, b, mem', FreedTo(Binned(a), f, n, t), QuickOf(a))
  <2>1. Binned(a) \subseteq FreeChunks /\ QuickOf(a) \subseteq UsedChunks \ {p}
    BY <1>1, FreeIs, QuickAllIs, UsedIs
  <2>2. FreeChunks \cap UsedChunks = {}
    BY HeapOf
  <2>3. Relists(a, b, mem', (Binned(a) \ {f, n}) \cup (IF n = t THEN {} ELSE {f}), QuickOf(a))
    BY <1>1, <1>3, <1>5, <2>1, <2>2, MergesLists
  <2> QED BY <2>3 DEF FreedTo, Moved
<1> HIDE DEF b
<1>7. SameButFlags(b, b2, mem') /\ b2.fast = keep
  <2>1. MstOK(b, mem')
    BY <1>6 DEF Relists
  <2> QED BY <2>1, SetsFastFlag
<1> HIDE DEF b2
<1>8. MstOK(b2, mem') /\ Binned(b2) = FreedTo(Binned(av[L]), f, n, t) /\ QuickOf(b2) = QuickOf(av[L]) \ {p}
  BY <1>1, <1>6, <1>7 DEF Relists, SameButFlags
<1>9. FreeChunks' = FreedTo(FreeChunks, f, n, t)
  <2> DEFINE R == {f, n}
             N == IF n = t THEN {} ELSE {f}
  <2>1. Binned(b2) = Moved(Binned(av[L]), R, N) /\ R \cap FreeChunks \subseteq Binned(av[L])
    BY <1>3, <1>8 DEF FreedTo
  <2> HIDE DEF R, N
  <2>2. FreeChunks' = Moved(FreeChunks, R, N)
    BY <1>2, <2>1, FreeMoves
  <2> QED BY <2>2 DEF FreedTo, R, N
<1>10. QuickAll' = QuickAll \ {p}
  <2>1. CASE p \in QuickOf(av[L])
    BY <1>2, <1>8, <2>1, QuickLess
  <2>2. CASE p \notin QuickOf(av[L])
    <3>1. QuickOf(b2) = QuickOf(av[L])
      BY <1>8, <2>2
    <3>2. QuickAll' = QuickAll
      BY <1>2, <3>1, QuickSame
    <3>3. p \notin QuickAll
      BY <1>1, <2>2
    <3> QED BY <3>2, <3>3
  <2> QED BY <2>1, <2>2
<1>11. UsedChunks' = UsedChunks \ {p}
  <2>1. UsedChunks = QuickAll \cup (LiveAt \cup Held) /\ UsedChunks' = QuickAll' \cup (LiveAt' \cup Held')
    BY UsedIs, UsedIsNext
  <2> QED BY <1>10, <2>1
<1>12. UnitOf(f) = UnitOf(p) /\ UnitOf(n) = UnitOf(p)
  BY <1>3 DEF Beside
<1>13. UnitsKept /\ exhausted' \in BOOLEAN
  BY <1>2, <1>5 DEF UnitsKept, HeapParts, TypeOK
<1> HIDE DEF f, n, t
<1>14. OthersKept(L)
  <2>1. ASSUME NEW q \in FreeChunks \cup QuickAll, unit[UnitOf(q)] # L
        PROVE  chunksize(mem', q) = chunksize(mem, q)
    <3>1. q # f /\ q # n /\ q # p
      BY <1>1, <1>12, <2>1
    <3>2. q \in (FreeChunks \ {f, n}) \cup (UsedChunks \ {p})
      BY <3>1, UsedIs
    <3> QED BY <1>5, <3>2 DEF SameSizes
  <2> QED BY <2>1 DEF OthersKept
<1>15. MstNext(L, b2)
  <2>1. ASSUME NEW q \in Binned(b2) \cup QuickOf(b2) PROVE unit'[UnitOf(q)] = L
    <3>1. q \in Binned(av[L]) \/ q \in QuickOf(av[L]) \/ q = f
      BY <1>8 DEF FreedTo, Moved
    <3>2. CASE q = f
      BY <1>1, <1>2, <1>12, <3>2
    <3>3. CASE q \in Binned(av[L]) \cup QuickOf(av[L])
      BY <1>2, <3>3 DEF HeapParts, Owned
    <3> QED BY <3>1, <3>2, <3>3
  <2>2. QuickOf(b2) # {} => b2.fast \/ (pc' = "consolidate" /\ call'.label = L)
    BY <1>1, <1>7, <1>8
  <2> QED BY <1>2, <1>8, <2>1, <2>2 DEF MstNext
<1>16. LiveOK'
  <2>1. ASSUME NEW c \in live
        PROVE  /\ c.nb >= MINSIZE /\ c.nb <= chunksize(mem', c.p)
               /\ unit'[UnitOf(c.p)] = c.label
    <3>1. c.p \in LiveAt
      BY DEF LiveAt
    <3>2. c.p \in UsedChunks \ {p}
      BY <1>1, <3>1, UsedIs
    <3>3. chunksize(mem', c.p) = chunksize(mem, c.p)
      BY <1>5, <3>2 DEF SameSizes
    <3> QED BY <1>2, <3>3 DEF HeapParts, LiveOK, Size
  <2> QED BY <1>2, <2>1 DEF HeapParts, LiveOK, Size
<1>17. Apart'
  <2>1. QuickAll \cap (LiveAt \cup Held) = {}
    BY DEF HeapParts, Apart
  <2> QED BY <1>10, <2>1 DEF Apart
<1>18. IsHeap(mem', top') /\ Layout(mem', FreeChunks', UsedChunks', top')
  BY <1>5, <1>9, <1>11
<1> HIDE DEF L
<1>19. pc = "consolidate" => call.label = L
  BY DEF L
<1>20. L \in Label
  BY DEF L
<1> QED BY <1>13, <1>14, <1>15, <1>16, <1>17, <1>18, <1>19, <1>20, Assembles

\* A chunk that is too long for a fastbin.
LEMMA FreeChunkStep ==
  ASSUME HeapParts, free_chunk
  PROVE  HeapParts'
<1> DEFINE p == call.p
           t == top[UnitOf(p)]
           a == [Mst EXCEPT !.any = TRUE]
           more == /\ MergedSize(mem, p, t) >= FASTBIN_CONSOLIDATION_THRESHOLD
                   /\ Mst.fast
<1>1. pc = "free" /\ call.label \in Label
  BY FreeingFacts DEF free_chunk
<1>2. /\ IF WildMerge(mem, p, t) THEN Stop("wild")
         ELSE IF ~Unlinks(a, mem, p, t) THEN Stop("abort")
         ELSE /\ Coalesce(a, p, Mst.fast /\ ~more)
              /\ IF more THEN pc' = "consolidate" /\ call' = [NoCall EXCEPT !.label = call.label]
                 ELSE Done
  BY DEF free_chunk
<1>3. SameButFlags(Mst, a, mem) /\ a.any
  BY <1>1, FreeingFacts, SetsAnyFlag
<1> HIDE DEF a
<1>4. Releases(call.label, a, p)
  <2>1. QuickOf(a) = QuickOf(av[call.label]) \ {p} /\ Binned(a) = Binned(av[call.label])
    BY <1>1, <1>3, FreeingFacts DEF SameButFlags
  <2> QED BY <1>1, <1>3, <2>1, FreeingFacts DEF Releases, SameButFlags
<1>5. Unlinks(a, mem, p, t) /\ ~WildMerge(mem, p, t)
  BY <1>1, <1>4, NeverAborts
<1> DEFINE keep == Mst.fast /\ ~more
<1>6. keep \in BOOLEAN
  OBVIOUS
<1>7. /\ Coalesce(a, p, keep)
      /\ more => pc' = "consolidate" /\ call' = [NoCall EXCEPT !.label = call.label]
      /\ ~more => pc' = "idle" /\ call' = NoCall
  BY <1>2, <1>5 DEF Done
<1>8. QuickOf(a) = QuickOf(Mst) /\ (QuickOf(Mst) # {} => Mst.fast)
  BY <1>1, <1>3, FreeingFacts DEF SameButFlags
<1>9. /\ pc' \in {"consolidate", "idle"} /\ call' \in Call /\ call'.ret = "idle"
      /\ more => call'.label = call.label
  <2>1. [NoCall EXCEPT !.label = call.label] \in Call /\ NoCall \in Call /\ NoCall.ret = "idle"
    BY <1>1, NoCallOK DEF Call, NoCall
  <2>2. [NoCall EXCEPT !.label = call.label].ret = "idle" /\ [NoCall EXCEPT !.label = call.label].label = call.label
    BY DEF NoCall
  <2> QED BY <1>7, <2>1, <2>2
<1>10. QuickOf(a) # {} => keep \/ (pc' = "consolidate" /\ call'.label = call.label)
  BY <1>7, <1>8, <1>9
<1>11. live' = live /\ Held' = {} /\ LiveAt' = LiveAt
  BY <1>7, <1>9 DEF Coalesce, Held, LiveAt
<1>12. LiveAt' \cup Held' = (LiveAt \cup Held) \ {p}
  BY <1>1, <1>11, FreeingFacts
<1>13. CallTyped'
  BY <1>9, <1>11 DEF HeapParts, TypeOK, CallTyped, Stages
<1>14. CallOK'
  BY <1>9, <1>11 DEF CallOK, Asks
<1> HIDE DEF p, keep
<1> QED BY <1>1, <1>4, <1>6, <1>7, <1>10, <1>12, <1>13, <1>14, CoalesceStep

\* What is known while __malloc_consolidate runs.
LEMMA ConsolidatingFacts ==
  ASSUME HeapParts, pc = "consolidate"
  PROVE  /\ call.label \in Label /\ call \in Call /\ Mst = av[call.label] /\ MstOK(Mst, mem)
         /\ Held = {} /\ QuickOf(Mst) \subseteq QuickAll /\ QuickAll \subseteq UsedChunks
         /\ QuickAll \cap LiveAt = {}
         /\ \A p \in QuickOf(Mst) : unit[UnitOf(p)] = call.label
         /\ call.ret # "idle" =>
              /\ call.nb \in ChunkSize /\ call.nb < UNIT_SIZE /\ call.want = call.nb
              /\ call.op = "realloc" => \E c \in live : c.p = call.old /\ c.label = call.label
         /\ call.ret = "unsorted" => ~in_smallbin_range(call.nb)
<1>1. call.label \in Label /\ call \in Call
  BY DEF HeapParts, TypeOK, Call
<1>2. Mst = av[call.label] /\ MstOK(Mst, mem)
  BY <1>1 DEF Mst, HeapParts, Listed, MstOK
<1>3. Held = {} /\ QuickAll \subseteq UsedChunks
  BY UsedIs DEF Held
<1>4. QuickOf(Mst) \subseteq QuickAll
  BY <1>1, <1>2, QuickAllIs
<1>5. QuickAll \cap LiveAt = {}
  BY DEF HeapParts, Apart
<1>6. \A p \in QuickOf(Mst) : unit[UnitOf(p)] = call.label
  BY <1>1, <1>2 DEF HeapParts, Owned
<1>7. /\ call.ret # "idle" =>
           /\ call.nb \in ChunkSize /\ call.nb < UNIT_SIZE /\ call.want = call.nb
           /\ call.op = "realloc" => \E c \in live : c.p = call.old /\ c.label = call.label
      /\ call.ret = "unsorted" => ~in_smallbin_range(call.nb)
  BY DEF HeapParts, CallOK, Asks
<1> QED BY <1>1, <1>2, <1>3, <1>4, <1>5, <1>6, <1>7

\* The first chunk of fastbin s is freed.
LEMMA ConsolidateChunkStep ==
  ASSUME HeapParts, pc = "consolidate", NEW s \in Fast, Mst.fastbins[s] # <<>>,
         consolidate_chunk(s)
  PROVE  HeapParts'
<1> DEFINE p == Head(Mst.fastbins[s])
           a == [Mst EXCEPT !.fastbins[s] = Tail(@)]
<1>1. /\ Relists(Mst, a, mem, Binned(Mst), QuickOf(Mst) \ {p})
      /\ p \in QuickOf(Mst) /\ Mst.any
  BY ConsolidatingFacts, TakesFast
<1>2. IF WildMerge(mem, p, top[UnitOf(p)]) THEN Stop("wild")
      ELSE IF ~Unlinks(a, mem, p, top[UnitOf(p)]) THEN Stop("abort")
      ELSE Coalesce(a, p, FALSE) /\ UNCHANGED <<pc, call>>
  BY DEF consolidate_chunk
<1> HIDE DEF a, p
<1>3. Releases(call.label, a, p)
  <2>1. QuickOf(a) = QuickOf(av[call.label]) \ {p} /\ Binned(a) = Binned(av[call.label])
        /\ MstOK(a, mem) /\ a.any
    BY <1>1, ConsolidatingFacts DEF Relists
  <2>2. p \in UsedChunks /\ p \notin LiveAt /\ unit[UnitOf(p)] = call.label /\ p \in QuickOf(av[call.label])
    BY <1>1, ConsolidatingFacts
  <2> QED BY <2>1, <2>2 DEF Releases
<1>4. call.label \in Label
  BY ConsolidatingFacts
<1>5. Unlinks(a, mem, p, top[UnitOf(p)]) /\ ~WildMerge(mem, p, top[UnitOf(p)])
  BY <1>3, <1>4, NeverAborts
<1>6. Coalesce(a, p, FALSE) /\ pc' = pc /\ call' = call
  BY <1>2, <1>5
<1>7. live' = live /\ Held' = {} /\ LiveAt' = LiveAt
  BY <1>6 DEF Coalesce, Held, LiveAt
<1>8. LiveAt' \cup Held' = (LiveAt \cup Held) \ {p}
  BY <1>1, <1>7, ConsolidatingFacts
<1>9. CallTyped'
  BY <1>6, <1>7 DEF HeapParts, TypeOK, CallTyped
<1>10. CallOK'
  BY <1>6, <1>7, ConsolidatingFacts DEF CallOK, Asks
<1> QED BY <1>3, <1>4, <1>6, <1>8, <1>9, <1>10, CoalesceStep

\* __malloc_consolidate frees one chunk or ends.
LEMMA ConsolidateStep ==
  ASSUME HeapParts, malloc_consolidate
  PROVE  HeapParts'
<1>1. pc = "consolidate"
  BY DEF malloc_consolidate
<1>2. CASE \E s \in Fast : Mst.fastbins[s] # <<>> /\ consolidate_chunk(s)
  BY <1>1, <1>2, ConsolidateChunkStep
<1>3. CASE /\ \A s \in Fast : Mst.fastbins[s] = <<>>
           /\ IF call.ret = "idle" THEN Done
              ELSE pc' = call.ret /\ call' = [call EXCEPT !.ret = "idle"]
           /\ UNCHANGED <<heapVars, live, exhausted>>
  <2>1. QuickOf(Mst) = {}
    BY <1>1, <1>3, FastEmpty, ConsolidatingFacts
  <2>2. /\ av' = av /\ mem' = mem /\ unit' = unit /\ top' = top /\ exhausted' = exhausted
        /\ live' = live
    BY <1>3 DEF heapVars
  <2>3. Stays(call.label, Mst)
    <3>1. av' = [av EXCEPT ![call.label] = Mst]
      BY <1>1, <2>2, ConsolidatingFacts, HeapOf
    <3> QED BY <1>1, <2>1, <2>2, <3>1, ConsolidatingFacts DEF Stays
  <2>4. call.ret \in {"idle", "malloc", "unsorted"}
    BY <1>1, ConsolidatingFacts DEF Call
  <2>5. LiveOK' /\ LiveAt' = LiveAt
    BY <2>2 DEF HeapParts, LiveOK, Size, LiveAt
  <2>6. CASE call.ret = "idle"
    <3>1. pc' = "idle" /\ call' = NoCall /\ Held' = {}
      BY <1>3, <2>6 DEF Done, Held
    <3>2. CallOK' /\ CallTyped'
      BY <2>2, <3>1, NoCallOK DEF CallOK, Asks, CallTyped, HeapParts, TypeOK, NoCall
    <3> QED BY <1>1, <2>3, <2>5, <3>1, <3>2, ConsolidatingFacts, QuietStep
  <2>7. CASE call.ret # "idle"
    <3>1. pc' = call.ret /\ call' = [call EXCEPT !.ret = "idle"] /\ pc' \in {"malloc", "unsorted"}
      BY <1>3, <2>4, <2>7
    <3>2. /\ call' \in Call /\ call'.label = call.label /\ call'.nb = call.nb /\ call'.want = call.want
          /\ call'.op = call.op /\ call'.old = call.old
      BY <1>1, <3>1, ConsolidatingFacts DEF Call
    <3>3. Held' = {}
      BY <3>1 DEF Held
    <3>4. CallTyped'
      BY <2>2, <3>1, <3>2 DEF CallTyped, HeapParts, TypeOK, Stages
    <3>5. CallOK'
      BY <1>1, <2>2, <2>7, <3>1, <3>2, <3>3, ConsolidatingFacts DEF CallOK, Asks
    <3> QED BY <1>1, <2>3, <2>5, <3>3, <3>4, <3>5, ConsolidatingFacts, QuietStep
  <2> QED BY <2>6, <2>7
<1> QED BY <1>2, <1>3 DEF malloc_consolidate

---------------------------------------------------------------------------
(* ablib_realloc                                                           *)

\* What is known of a block.
LEMMA LiveFacts ==
  ASSUME HeapParts, NEW c \in live
  PROVE  /\ c.p \in LiveAt /\ c.p \in UsedChunks /\ c.p \notin QuickAll /\ c.p \notin FreeChunks
         /\ c.label \in Label /\ c.p \in Chunk /\ c.nb \in Nat /\ c.p \in Nat
         /\ c.nb >= 16 /\ c.nb <= chunksize(mem, c.p) /\ unit[UnitOf(c.p)] = c.label
         /\ mem[c.p + 4] \in Nat /\ chunksize(mem, c.p) \in Nat
         /\ \A d \in live : d.p = c.p => d = c
         /\ UnitOf(c.p) \in 1..Len(unit)
<1>1. c.p \in LiveAt /\ c.p \in UsedChunks /\ c.p \notin QuickAll
  BY UsedIs DEF LiveAt, HeapParts, Apart
<1>2. c.label \in Label /\ c.p \in Chunk /\ c.nb \in Nat
  BY DEF HeapParts, TypeOK
<1>3. /\ c.nb >= 16 /\ c.nb <= chunksize(mem, c.p) /\ unit[UnitOf(c.p)] = c.label
      /\ \A d \in live : d.p = c.p => d = c
  BY DEF HeapParts, LiveOK, Size, MINSIZE
<1>4. /\ mem[c.p + 4] \in Nat /\ chunksize(mem, c.p) \in Nat /\ c.p \in Nat
      /\ UnitOf(c.p) \in 1..Len(unit)
  BY <1>1, ChunkIs, UnitSize DEF Tiles, ChunkSize, MINSIZE
<1>5. c.p \notin FreeChunks
  BY <1>1, HeapOf
<1> QED BY <1>1, <1>2, <1>3, <1>4, <1>5

\* A block that stays where it is.
LEMMA LiveReplaced ==
  ASSUME HeapParts, NEW c \in live, NEW nb, Replace(c, c.p, nb)
  PROVE  LiveAt' = LiveAt
<1> DEFINE b == Block(c.p, nb, c.label)
<1>1. live' = (live \ {c}) \cup {b} /\ b.p = c.p
  BY DEF Replace, Block
<1> HIDE DEF b
<1>2. ASSUME NEW q PROVE (\E d \in live' : d.p = q) <=> (\E d \in live : d.p = q)
  BY <1>1
<1> QED BY <1>2 DEF LiveAt

\* The lists of label L lose free chunks at most.
Prunes(L, a2) ==
  /\ av' = [av EXCEPT ![L] = a2] /\ MstOK(a2, mem)
  /\ Binned(a2) \subseteq Binned(av[L]) /\ QuickOf(a2) = QuickOf(av[L])
  /\ QuickOf(a2) # {} => a2.fast

\* A block c has nb bytes now, in the same chunk.
LEMMA Resizes ==
  ASSUME HeapParts, NEW c \in live, pc # "consolidate", NEW nb \in Nat, nb >= 16,
         Replace(c, c.p, nb), NEW a2, Prunes(c.label, a2),
         unit' = unit, exhausted' = exhausted, Len(top') = Len(top), IsHeap(mem', top'),
         Layout(mem', FreeChunks', QuickAll \cup LiveAt \cup Held', top'),
         SameSizes(mem, mem', (FreeChunks' \cup (QuickAll \cup LiveAt)) \ {c.p}),
         chunksize(mem', c.p) >= nb, Held' \cap QuickAll = {},
         CallOK', call' \in Call, pc' \in {"idle", "free"}
  PROVE  HeapParts'
<1> DEFINE L == c.label
           b == Block(c.p, nb, c.label)
<1>1. av' = [av EXCEPT ![L] = a2] /\ QuickOf(a2) = QuickOf(av[L]) /\ L \in Label
  BY LiveFacts DEF Prunes
<1>2. QuickAll' = QuickAll
  BY <1>1, QuickSame
<1>3. LiveAt' = LiveAt
  BY LiveReplaced
<1>4. UsedChunks' = QuickAll \cup LiveAt \cup Held'
  BY <1>2, <1>3, UsedIsNext
<1>5. Apart'
  BY <1>2, <1>3 DEF HeapParts, Apart
<1>6. live' = (live \ {c}) \cup {b} /\ b.p = c.p /\ b.nb = nb /\ b.label = c.label
      /\ b \in [p : Chunk, nb : Nat, label : Label]
  BY LiveFacts DEF Replace, Block
<1> HIDE DEF b
<1>7. ASSUME NEW d \in live, d.p # c.p
      PROVE  d.nb >= MINSIZE /\ d.nb <= chunksize(mem', d.p) /\ unit'[UnitOf(d.p)] = d.label
  <2>1. chunksize(mem', d.p) = chunksize(mem, d.p)
    BY <1>7, LiveFacts DEF SameSizes
  <2> QED BY <2>1, LiveFacts DEF MINSIZE
<1>8. LiveOK'
  <2>1. ASSUME NEW d \in live'
        PROVE  d.nb >= MINSIZE /\ d.nb <= chunksize(mem', d.p) /\ unit'[UnitOf(d.p)] = d.label
    <3>1. CASE d = b
      <4>1. d.nb = nb /\ d.p = c.p /\ d.label = c.label
        BY <1>6, <3>1
      <4>2. chunksize(mem', c.p) >= nb /\ unit[UnitOf(c.p)] = c.label
        BY LiveFacts
      <4>3. chunksize(mem', c.p) \in Int
        <5>1. c.p \in UsedChunks'
          BY <1>4, LiveFacts
        <5>2. ChunkAt(mem', FreeChunks', UsedChunks', top', c.p)
          BY <1>4, <5>1, ChunkFacts DEF Tiles
        <5> QED BY <5>2 DEF ChunkAt
      <4> QED BY <4>1, <4>2, <4>3 DEF MINSIZE
    <3>2. CASE d # b
      <4>1. d \in live /\ d # c
        BY <1>6, <3>2
      <4>2. d.p # c.p
        BY <4>1, LiveFacts
      <4> QED BY <1>7, <4>1, <4>2
    <3> QED BY <3>1, <3>2
  <2>2. ASSUME NEW d \in live', NEW e \in live', d.p = e.p PROVE d = e
    <3>1. \A x \in live : x.p = c.p => x = c
      BY LiveFacts
    <3>2. \A x, y \in live : x.p = y.p => x = y
      BY DEF HeapParts, LiveOK
    <3> QED BY <1>6, <2>2, <3>1, <3>2
  <2> QED BY <2>1, <2>2 DEF LiveOK, Size
<1>9. CallTyped' /\ exhausted' \in BOOLEAN
  BY <1>6 DEF HeapParts, TypeOK, CallTyped, Stages
<1>10. UnitsKept
  BY DEF UnitsKept, HeapParts, TypeOK
<1>11. Binned(a2) \subseteq FreeChunks' /\ QuickOf(a2) \subseteq QuickAll
  <2>1. av'[L] = a2 /\ \A K \in Label : K # L => av'[K] = av[K]
    BY <1>1, MstAfter
  <2> QED BY <1>1, <2>1, FreeIsNext, QuickAllIs
<1>12. OthersKept(L)
  <2>1. ASSUME NEW p \in FreeChunks \cup QuickAll, unit[UnitOf(p)] # L
        PROVE  chunksize(mem', p) = chunksize(mem, p)
    <3>1. av'[L] = a2 /\ \A K \in Label : K # L => av'[K] = av[K]
      BY <1>1, MstAfter
    <3>2. PICK K \in Label : p \in Binned(av[K]) \cup QuickOf(av[K])
      BY FreeIs, QuickAllIs
    <3>3. K # L
      BY <2>1, <3>2 DEF HeapParts, Owned
    <3>4. p \in FreeChunks' \cup QuickAll
      BY <3>1, <3>2, <3>3, FreeIsNext, QuickAllIs
    <3>5. p # c.p
      BY <2>1, LiveFacts
    <3> QED BY <3>4, <3>5 DEF SameSizes
  <2> QED BY <2>1 DEF OthersKept
<1>13. MstNext(L, a2)
  <2>1. MstOK(a2, mem')
    <3>1. \A p \in Binned(a2) \cup QuickOf(a2) : p # c.p
      BY <1>1, <1>11, LiveFacts, FreeIs DEF Prunes
    <3>2. SameSizes(mem, mem', Binned(a2) \cup QuickOf(a2))
      BY <1>11, <3>1 DEF SameSizes
    <3> QED BY <3>2, SameLists DEF Prunes
  <2>2. \A p \in Binned(a2) \cup QuickOf(a2) : unit'[UnitOf(p)] = L
    BY <1>1 DEF Prunes, HeapParts, Owned
  <2> QED BY <1>1, <2>1, <2>2 DEF MstNext, Prunes
<1>14. Layout(mem', FreeChunks', UsedChunks', top')
  BY <1>4
<1> HIDE DEF L
<1>15. L \in Label /\ (pc = "consolidate" => call.label = L)
  BY <1>1
<1> QED BY <1>5, <1>8, <1>9, <1>10, <1>12, <1>13, <1>14, <1>15, Assembles

\* Chunk c.p has come to newsize bytes, and what nb does not need is split off
\* and freed.
LEMMA ShrinkStep ==
  ASSUME HeapParts, NEW c \in live, pc # "consolidate",
         NEW nb \in Nat, nb % 8 = 0, nb >= 16, NEW newsize \in Nat, newsize >= nb,
         NEW a2, Prunes(c.label, a2), unit' = unit, top' = top, exhausted' = exhausted,
         Extended(mem, Extend(mem, c.p, newsize), FreeChunks', QuickAll \cup LiveAt, top, c.p, newsize),
         Shrink(c, newsize, nb)
  PROVE  HeapParts'
<1> DEFINE W == QuickAll \cup LiveAt
           r == c.p + nb
           rem == newsize - nb
<1>1. Replace(c, c.p, nb) /\ LiveAt' = LiveAt
  BY LiveReplaced DEF Shrink
<1>2. CASE /\ rem < MINSIZE
           /\ mem' = Return(Extend(mem, c.p, newsize), c.p, nb)
           /\ Done
  <2>1. pc' = "idle" /\ call' = NoCall /\ Held' = {}
    BY <1>2 DEF Done, Held
  <2>2. /\ IsHeap(mem', top) /\ Layout(mem', FreeChunks', W, top)
        /\ SameSizes(mem, mem', (FreeChunks' \cup W) \ {c.p}) /\ chunksize(mem', c.p) = newsize
    <3>1. nb <= newsize
      OBVIOUS
    <3> DEFINE j == Extend(mem, c.p, newsize)
    <3>2. Extended(mem, j, FreeChunks', W, top, c.p, newsize) /\ mem' = Return(j, c.p, nb)
      BY <1>2
    <3> HIDE DEF W, j
    <3>3. Extended(mem, mem', FreeChunks', W, top, c.p, newsize)
      BY ONLY <3>1, <3>2, nb \in Nat, newsize \in Nat, ExtendsOnly
    <3> QED BY <3>3 DEF Extended
  <2>3. W \cup Held' = W
    BY <2>1
  <2>4. Layout(mem', FreeChunks', QuickAll \cup LiveAt \cup Held', top')
    BY <2>2, <2>3
  <2>5. CallOK' /\ call' \in Call
    BY <2>1, NoCallOK DEF CallOK, Asks
  <2>6. chunksize(mem', c.p) >= nb /\ Len(top') = Len(top)
    BY <2>2
  <2>7. Held' \cap QuickAll = {} /\ pc' \in {"idle", "free"}
    BY <2>1
  <2> QED BY <1>1, <2>2, <2>4, <2>5, <2>6, <2>7, Resizes
<1>3. CASE /\ rem >= MINSIZE
           /\ mem' = ShrinkMem(mem, c.p, newsize, nb)
           /\ pc' = "free" /\ call' = [NoCall EXCEPT !.label = c.label, !.p = r]
  <2>1. Shrunk(mem, mem', FreeChunks', W, top, c.p, nb, r)
    <3>1. mem \in [Addr -> Nat \cup {DATA}] /\ mem[c.p + 4] \in Nat /\ newsize - nb >= 16
      BY <1>3, HeapOf, LiveFacts DEF IsHeap, MINSIZE
    <3> HIDE DEF W
    <3> QED BY <1>3, <3>1, Shrinks DEF W
  <2> HIDE DEF r
  <2>2. /\ IsHeap(mem', top) /\ Layout(mem', FreeChunks', W \cup {r}, top)
        /\ SameSizes(mem, mem', (FreeChunks' \cup W) \ {c.p}) /\ chunksize(mem', c.p) = nb
        /\ r \in Chunk /\ r \notin FreeChunks' \cup W /\ UnitOf(r) = UnitOf(c.p)
    BY <2>1 DEF Shrunk
  <2>3. call' \in Call /\ call'.p = r /\ call'.label = c.label /\ Held' = {r}
    <3>1. call' \in Call /\ call'.p = r /\ call'.label = c.label
      BY <1>3, <2>2, NoCallOK, LiveFacts DEF Call, NoCall
    <3> QED BY <1>3, <3>1 DEF Held
  <2>4. Layout(mem', FreeChunks', QuickAll \cup LiveAt \cup Held', top')
    BY <2>2, <2>3
  <2>5. CallOK'
    <3>1. Held' \cap {d.p : d \in live'} = {}
      BY <1>1, <2>2, <2>3 DEF LiveAt
    <3>2. call'.p \in Chunk /\ unit'[UnitOf(call'.p)] = call'.label
      BY <2>2, <2>3, LiveFacts
    <3> QED BY <1>3, <3>1, <3>2 DEF CallOK, Asks
  <2>6. chunksize(mem', c.p) >= nb /\ Len(top') = Len(top) /\ Held' \cap QuickAll = {}
    BY <2>2, <2>3
  <2>7. pc' \in {"idle", "free"}
    BY <1>3
  <2> QED BY <1>1, <2>2, <2>3, <2>4, <2>5, <2>6, <2>7, Resizes
<1> QED BY <1>2, <1>3 DEF Shrink, Extend, ShrinkMem

\* Between calls.
LEMMA IdleFacts ==
  ASSUME HeapParts, pc = "idle"
  PROVE  /\ Held = {} /\ UsedChunks = QuickAll \cup LiveAt
         /\ \A L \in Label : MstOK(av[L], mem) /\ (QuickOf(av[L]) # {} => av[L].fast)
BY UsedIs DEF Held, HeapParts, Listed, Flagged

\* Between calls, or when a chunk was got for realloc, nothing on the lists
\* changes.
LEMMA IdleStays ==
  ASSUME HeapParts, pc \in {"idle", "moved"}, NEW L \in Label,
         av' = av, mem' = mem, unit' = unit, top' = top, exhausted' = exhausted
  PROVE  Stays(L, av[L])
<1>1. av' = [av EXCEPT ![L] = av[L]]
  BY HeapOf
<1>2. MstOK(av[L], mem) /\ (QuickOf(av[L]) # {} => av[L].fast)
  BY DEF HeapParts, Listed, Flagged
<1> QED BY <1>1, <1>2 DEF Stays

\* The same, for the lemmas on realloc.
LEMMA IdlePrunes ==
  ASSUME HeapParts, pc \in {"idle", "moved"}, NEW L \in Label, av' = av
  PROVE  Prunes(L, av[L])
<1>1. av' = [av EXCEPT ![L] = av[L]]
  BY HeapOf
<1>2. MstOK(av[L], mem) /\ (QuickOf(av[L]) # {} => av[L].fast)
  BY DEF HeapParts, Listed, Flagged
<1> QED BY <1>1, <1>2 DEF Prunes

\* Padded sizes.
LEMMA SizeFacts ==
  ASSUME NEW nb \in ChunkSize
  PROVE  nb \in Nat /\ nb % 8 = 0 /\ nb >= 16 /\ nb >= MINSIZE
BY UnitSize DEF ChunkSize, MINSIZE

\* The chunk is long enough.
LEMMA InPlaceStep ==
  ASSUME HeapParts, pc = "idle", NEW c \in live, NEW nb \in ChunkSize,
         chunksize(mem, c.p) >= nb, Shrink(c, chunksize(mem, c.p), nb),
         UNCHANGED <<av, unit, top, exhausted>>
  PROVE  HeapParts'
<1> DEFINE W == QuickAll \cup LiveAt
<1>1. FreeChunks' = FreeChunks /\ W = UsedChunks
  BY SameAll, IdleFacts
<1>2. c.p \in UsedChunks /\ c.label \in Label /\ chunksize(mem, c.p) \in Nat
  BY LiveFacts
<1>3. Extended(mem, Extend(mem, c.p, chunksize(mem, c.p)), FreeChunks, UsedChunks, top, c.p, chunksize(mem, c.p))
  BY <1>2, HeapOf, ExtendsNothing
<1>4. Extended(mem, Extend(mem, c.p, chunksize(mem, c.p)), FreeChunks', W, top, c.p, chunksize(mem, c.p))
  BY <1>1, <1>3
<1>5. Prunes(c.label, av[c.label])
  BY <1>2, IdlePrunes
<1>6. unit' = unit /\ top' = top /\ exhausted' = exhausted /\ pc # "consolidate"
  OBVIOUS
<1> QED BY <1>2, <1>4, <1>5, <1>6, SizeFacts, ShrinkStep

\* The chunk behind it is free, and is taken in.
LEMMA ToNextStep ==
  ASSUME HeapParts, pc = "idle", NEW c \in live, NEW nb \in ChunkSize,
         NEW y, y = next_chunk(mem, c.p), NEW both, both = chunksize(mem, c.p) + chunksize(mem, y),
         both >= nb, y \in Binned(av[c.label]),
         av' = [av EXCEPT ![c.label] = unlink(@, y)], Shrink(c, both, nb),
         UNCHANGED <<unit, top, exhausted>>
  PROVE  HeapParts'
<1> DEFINE W == QuickAll \cup LiveAt
           a2 == unlink(av[c.label], y)
<1>1. c.p \in UsedChunks /\ c.label \in Label /\ chunksize(mem, c.p) \in Nat
  BY LiveFacts
<1>2. y \in FreeChunks /\ y \notin UsedChunks /\ chunksize(mem, y) \in Nat
  <2>1. y \in FreeChunks
    BY <1>1, FreeIs
  <2> QED BY <2>1, HeapOf, ChunkIs, UnitSize DEF Tiles, ChunkSize, MINSIZE
<1>3. Relists(av[c.label], a2, mem, Binned(av[c.label]) \ {y}, QuickOf(av[c.label]))
  BY <1>1, IdleFacts, Unlinked
<1>4. av' = [av EXCEPT ![c.label] = a2]
  OBVIOUS
<1> HIDE DEF a2
<1>5. FreeChunks' = FreeChunks \ {y} /\ W = UsedChunks /\ UsedChunks \ {y} = UsedChunks
  <2>1. Binned(a2) = Binned(av[c.label]) \ {y}
    BY <1>3 DEF Relists
  <2>2. FreeChunks' = FreeChunks \ {y}
    BY <1>1, <1>4, <2>1, FreeLess
  <2> QED BY <1>2, <2>2, IdleFacts
<1>6. Extended(mem, Extend(mem, c.p, both), FreeChunks \ {y}, UsedChunks \ {y}, top, c.p, both)
  BY <1>1, <1>2, HeapOf, ExtendsOver
<1>7. Extended(mem, Extend(mem, c.p, both), FreeChunks', W, top, c.p, both)
  BY <1>5, <1>6
<1>8. Prunes(c.label, a2)
  BY <1>1, <1>3, <1>4, IdleFacts DEF Prunes, Relists
<1>9. both \in Nat /\ unit' = unit /\ top' = top /\ exhausted' = exhausted /\ pc # "consolidate"
  BY <1>1, <1>2
<1> QED BY <1>7, <1>8, <1>9, SizeFacts, ShrinkStep

\* The top is behind it, and long enough.
LEMMA ToTopStep ==
  ASSUME HeapParts, pc = "idle", NEW c \in live, NEW nb \in ChunkSize,
         NEW u, u = UnitOf(c.p), next_chunk(mem, c.p) = top[u],
         NEW both, both = chunksize(mem, c.p) + chunksize(mem, top[u]), both >= nb + MINSIZE,
         mem' = Return(set_head(set_head_size(mem, c.p, nb), c.p + nb, both - nb, 1), c.p, nb),
         top' = [top EXCEPT ![u] = c.p + nb], Replace(c, c.p, nb),
         UNCHANGED <<av, unit, pc, call, exhausted>>
  PROVE  HeapParts'
<1> DEFINE m2 == set_head(set_head_size(mem, c.p, nb), c.p + nb,
                          (chunksize(mem, c.p) + chunksize(mem, top[u])) - nb, 1)
<1>1. c.p \in UsedChunks /\ c.label \in Label /\ chunksize(mem, c.p) \in Nat
  BY LiveFacts
<1>2. nb \in Nat /\ nb % 8 = 0 /\ nb >= 16
  BY SizeFacts
<1>3. chunksize(mem, top[u]) \in Nat
  <2>1. top[u] \in Tiles(FreeChunks, UsedChunks, top)
    <3>1. u \in 1..Len(top)
      BY LiveFacts, HeapOf
    <3> QED BY <3>1, HeapOf, TopsDiffer
  <2> QED BY <2>1, ChunkIs, UnitSize DEF ChunkSize, MINSIZE
<1>4. (chunksize(mem, c.p) + chunksize(mem, top[u])) - nb >= 16
  BY <1>1, <1>2, <1>3 DEF MINSIZE
<1>5. mem' = Return(m2, c.p, nb)
  OBVIOUS
<1>6. Grown(mem, m2, FreeChunks, UsedChunks, top', c.p, nb) /\ Len(top') = Len(top)
  <2> DEFINE v == c.p
  <2>1. v \in UsedChunks /\ u = UnitOf(v)
    BY <1>1
  <2>2. IntoTop(mem, m2, top, top', u, v, nb)
    BY <1>4 DEF IntoTop
  <2>3. IsHeap(mem, top) /\ Layout(mem, FreeChunks, UsedChunks, top)
    BY HeapOf
  <2> HIDE DEF m2, v
  <2>6. Grown(mem, m2, FreeChunks, UsedChunks, top', v, nb) /\ Len(top') = Len(top)
    BY ONLY <1>2, <2>1, <2>2, <2>3, GrowsIntoTop
  <2> QED BY <2>6 DEF v
<1> HIDE DEF m2
<1>7. /\ IsHeap(m2, top') /\ Layout(m2, FreeChunks, UsedChunks, top')
      /\ SameSizes(mem, m2, (FreeChunks \cup UsedChunks) \ {c.p}) /\ chunksize(m2, c.p) = nb
  BY <1>6 DEF Grown
<1>8. /\ IsHeap(mem', top') /\ Layout(mem', FreeChunks, UsedChunks, top')
      /\ SameSizes(m2, mem', Tiles(FreeChunks, UsedChunks, top'))
  BY <1>1, <1>2, <1>5, <1>7, Returns
<1>9. SameSizes(mem, mem', (FreeChunks \cup UsedChunks) \ {c.p}) /\ chunksize(mem', c.p) = nb
  BY <1>1, <1>7, <1>8 DEF SameSizes, Tiles
<1>10. FreeChunks' = FreeChunks /\ QuickAll \cup LiveAt = UsedChunks /\ Held' = {}
  BY SameAll, IdleFacts DEF Held
<1>11. Layout(mem', FreeChunks', QuickAll \cup LiveAt \cup Held', top')
  <2>1. QuickAll \cup LiveAt \cup Held' = UsedChunks
    BY <1>10
  <2> QED BY <1>8, <1>10, <2>1
<1>12. SameSizes(mem, mem', (FreeChunks' \cup (QuickAll \cup LiveAt)) \ {c.p})
  BY <1>9, <1>10
<1>13. Prunes(c.label, av[c.label])
  BY <1>1, IdlePrunes
<1>14. CallOK' /\ call' \in Call
  BY <1>10 DEF CallOK, Asks, HeapParts, TypeOK
<1>15. /\ unit' = unit /\ exhausted' = exhausted /\ pc # "consolidate"
       /\ chunksize(mem', c.p) >= nb /\ Held' \cap QuickAll = {} /\ pc' \in {"idle", "free"}
  BY <1>2, <1>9, <1>10
<1> QED BY <1>2, <1>6, <1>8, <1>11, <1>12, <1>13, <1>14, <1>15, Resizes

\* A free chunk is on the lists of the label of its unit.
LEMMA FreeOfUnit ==
  ASSUME HeapParts, NEW q \in FreeChunks, NEW L, unit[UnitOf(q)] = L
  PROVE  q \in Binned(av[L])
<1>1. PICK K \in Label : q \in Binned(av[K])
  BY FreeIs
<1>2. K = L
  BY <1>1 DEF HeapParts, Owned
<1> QED BY <1>1, <1>2

\* Steps from idle into a stage of the call.
LEMMA EntersStage ==
  ASSUME HeapParts, pc = "idle", live' = live, pc' = "malloc", call' \in Call,
         UNCHANGED <<heapVars, exhausted>>,
         call'.nb \in ChunkSize, call'.nb < UNIT_SIZE, call'.want = call'.nb,
         call'.op = "realloc" => \E c \in live : c.p = call'.old /\ c.label = call'.label
  PROVE  HeapParts'
<1>1. call'.label \in Label
  BY DEF Call
<1>2. av' = av /\ mem' = mem /\ unit' = unit /\ top' = top /\ exhausted' = exhausted
  BY DEF heapVars
<1>3. Stays(call'.label, av[call'.label])
  BY <1>1, <1>2, IdleStays
<1>4. Held = {} /\ Held' = {} /\ LiveAt' = LiveAt
  BY DEF Held, LiveAt
<1>5. CallOK'
  BY <1>4 DEF CallOK, Asks
<1>6. LiveOK' /\ CallTyped'
  BY <1>2 DEF HeapParts, TypeOK, LiveOK, Size, CallTyped, Stages
<1> QED BY <1>1, <1>3, <1>4, <1>5, <1>6, QuietStep

\* ablib_realloc in each of its four cases.
LEMMA ReallocStep ==
  ASSUME HeapParts, pc = "idle", NEW c \in live, NEW nb \in ChunkSize, nb < UNIT_SIZE,
         Realloc(c, nb)
  PROVE  HeapParts'
<1> DEFINE size == chunksize(mem, c.p)
           next == next_chunk(mem, c.p)
           u    == UnitOf(c.p)
           both == size + chunksize(mem, next)
           ToTop  == next = top[u] /\ both >= nb + MINSIZE
           ToNext == next # top[u] /\ ~inuse(mem, next) /\ both >= nb
<1>1. CASE /\ size >= nb
           /\ Shrink(c, size, nb)
           /\ UNCHANGED <<av, unit, top, exhausted>>
  BY <1>1, InPlaceStep
<1>2. CASE /\ size < nb /\ ToTop
           /\ mem' = Return(set_head(set_head_size(mem, c.p, nb), c.p + nb, both - nb, 1), c.p, nb)
           /\ top' = [top EXCEPT ![u] = c.p + nb]
           /\ Replace(c, c.p, nb)
           /\ UNCHANGED <<av, unit, pc, call, exhausted>>
  <2>1. both = chunksize(mem, c.p) + chunksize(mem, top[u]) /\ next_chunk(mem, c.p) = top[u]
    BY <1>2
  <2> HIDE DEF both, u, next
  <2>2. u = UnitOf(c.p)
    BY DEF u
  <2> QED BY <1>2, <2>1, <2>2, ToTopStep
<1>3. CASE /\ size < nb /\ ToNext
           /\ IF next \notin Binned(av[c.label]) THEN Stop("abort")
              ELSE /\ av' = [av EXCEPT ![c.label] = unlink(@, next)]
                   /\ Shrink(c, both, nb)
                   /\ UNCHANGED <<unit, top, exhausted>>
  <2>1. Beside(mem, FreeChunks, UsedChunks, top, c.p, top[u])
    BY LiveFacts, HeapOf, Neighbours
  <2>2. next # top[u] /\ TakesNext(mem, c.p, top[u]) /\ both >= nb
    BY <1>3 DEF TakesNext
  <2>3. next \in FreeChunks /\ UnitOf(next) = UnitOf(c.p)
    BY <2>1, <2>2 DEF Beside
  <2> HIDE DEF next
  <2>4. next \in Binned(av[c.label])
    BY <2>3, LiveFacts, FreeOfUnit
  <2>5. /\ av' = [av EXCEPT ![c.label] = unlink(@, next)] /\ Shrink(c, both, nb)
        /\ UNCHANGED <<unit, top, exhausted>>
    BY <1>3, <2>4
  <2>6. next = next_chunk(mem, c.p) /\ both = chunksize(mem, c.p) + chunksize(mem, next)
    BY DEF next
  <2> HIDE DEF both
  <2> QED BY <2>2, <2>4, <2>5, <2>6, ToNextStep
<1>4. CASE /\ size < nb /\ ~ToTop /\ ~ToNext
           /\ pc' = "malloc"
           /\ call' = [NoCall EXCEPT !.op = "realloc", !.label = c.label, !.nb = nb,
                                     !.want = nb, !.old = c.p]
           /\ UNCHANGED <<heapVars, live, exhausted>>
  <2>1. /\ call' \in Call /\ call'.nb = nb /\ call'.want = nb /\ call'.old = c.p
        /\ call'.label = c.label
    BY <1>4, NoCallOK, LiveFacts, SizeFacts DEF Call, NoCall
  <2>2. /\ call'.op = "realloc" => \E d \in live : d.p = call'.old /\ d.label = call'.label
        /\ live' = live /\ pc' = "malloc" /\ UNCHANGED <<heapVars, exhausted>>
    BY <1>4, <2>1
  <2> QED BY <2>1, <2>2, EntersStage
<1>5. ~Wild(mem, c.p) /\ ~Wild(mem, next) /\ (next # top[u] => ~Wild(mem, next_chunk(mem, next)))
  BY LiveFacts, HeapOf, ReadsTags
<1> QED BY <1>1, <1>2, <1>3, <1>4, <1>5 DEF Realloc

\* A chunk that ablib_malloc has returned to ablib_realloc.
LEMMA MovingFacts ==
  ASSUME HeapParts, pc = "moved", NEW c \in live, c.p = call.old
  PROVE  /\ Held = {call.p} /\ call.p \in UsedChunks /\ call.p \in Chunk
         /\ call.p \notin QuickAll /\ call.p \notin LiveAt /\ call.p \notin FreeChunks
         /\ UsedChunks \ {call.p} = QuickAll \cup LiveAt
         /\ call.nb \in ChunkSize /\ chunksize(mem, call.p) >= call.nb
         /\ chunksize(mem, call.p) \in Nat
         /\ c.label = call.label /\ unit[UnitOf(call.p)] = c.label
<1>1. Held = {call.p} /\ call.p \in UsedChunks
  BY UsedIs DEF Held
<1>2. call.p \notin QuickAll /\ call.p \notin LiveAt /\ call.p \notin FreeChunks
  BY <1>1, HeapOf DEF HeapParts, Apart, CallOK, LiveAt
<1>3. UsedChunks \ {call.p} = QuickAll \cup LiveAt
  BY <1>1, <1>2, UsedIs
<1>4. /\ call.nb \in ChunkSize /\ chunksize(mem, call.p) >= call.nb
      /\ call.p \in Chunk /\ unit[UnitOf(call.p)] = call.label
      /\ \E d \in live : d.p = call.old /\ d.label = call.label
  BY <1>1 DEF HeapParts, CallOK, Asks, Size
<1>5. c.label = call.label
  BY <1>4, LiveFacts
<1>6. chunksize(mem, call.p) \in Nat
  BY <1>1, ChunkIs, UnitSize DEF Tiles, ChunkSize, MINSIZE
<1> QED BY <1>1, <1>2, <1>3, <1>4, <1>5, <1>6

\* It is the chunk behind the old one, which takes it in.
LEMMA BehindStep ==
  ASSUME HeapParts, pc = "moved", NEW c \in live, c.p = call.old,
         call.p = next_chunk(mem, c.p),
         NEW both, both = chunksize(mem, c.p) + chunksize(mem, call.p),
         Shrink(c, both, call.nb), UNCHANGED <<av, unit, top, exhausted>>
  PROVE  HeapParts'
<1> DEFINE y == call.p
           nb == call.nb
           W == QuickAll \cup LiveAt
<1>1. /\ c.p \in UsedChunks /\ c.label \in Label /\ chunksize(mem, c.p) \in Nat
      /\ y \in UsedChunks /\ chunksize(mem, y) \in Nat /\ chunksize(mem, y) >= nb
      /\ y \notin FreeChunks /\ nb \in ChunkSize /\ UsedChunks \ {y} = W
  BY LiveFacts, MovingFacts
<1>2. FreeChunks' = FreeChunks /\ FreeChunks \ {y} = FreeChunks
  BY <1>1, SameAll
<1>3. y = next_chunk(mem, c.p) /\ y \in FreeChunks \cup UsedChunks
      /\ both = chunksize(mem, c.p) + chunksize(mem, y) /\ Shrink(c, both, nb)
  BY <1>1
<1> HIDE DEF y, nb
<1>4. Extended(mem, Extend(mem, c.p, both), FreeChunks \ {y}, UsedChunks \ {y}, top, c.p, both)
  BY <1>1, <1>3, HeapOf, ExtendsOver
<1>5. Extended(mem, Extend(mem, c.p, both), FreeChunks', W, top, c.p, both)
  BY <1>1, <1>2, <1>4
<1>6. Prunes(c.label, av[c.label])
  BY <1>1, IdlePrunes
<1>7. nb \in Nat /\ nb % 8 = 0 /\ nb >= 16
  BY <1>1, SizeFacts
<1>8. both \in Nat /\ both >= nb
  BY <1>1, <1>3, <1>7
<1>9. unit' = unit /\ top' = top /\ exhausted' = exhausted /\ pc # "consolidate"
  OBVIOUS
<1> QED BY <1>3, <1>5, <1>6, <1>7, <1>8, <1>9, ShrinkStep

\* It is another one: the block moves there and the old chunk is freed.
LEMMA CopyStep ==
  ASSUME HeapParts, pc = "moved", NEW c \in live, c.p = call.old,
         Replace(c, call.p, call.nb),
         pc' = "free", call' = [NoCall EXCEPT !.label = c.label, !.p = c.p],
         UNCHANGED <<mem, av, unit, top, exhausted>>
  PROVE  HeapParts'
<1> DEFINE b == Block(call.p, call.nb, c.label)
           L == c.label
<1>1. /\ call.p \in Chunk /\ call.p \notin LiveAt /\ Held = {call.p}
      /\ call.nb \in Nat /\ call.nb >= MINSIZE /\ call.nb <= chunksize(mem, call.p)
      /\ unit[UnitOf(call.p)] = L /\ L \in Label /\ chunksize(mem, call.p) \in Nat
  BY MovingFacts, SizeFacts, LiveFacts
<1>2. /\ live' = (live \ {c}) \cup {b} /\ b.p = call.p /\ b.nb = call.nb /\ b.label = L
      /\ b \in [p : Chunk, nb : Nat, label : Label]
  BY <1>1 DEF Replace, Block
<1> HIDE DEF b
<1>3. call' \in Call /\ call'.p = c.p /\ call'.label = L /\ Held' = {c.p}
  <2>1. call' \in Call /\ call'.p = c.p /\ call'.label = L
    BY NoCallOK, LiveFacts DEF Call, NoCall
  <2> QED BY <2>1 DEF Held
<1>4. \A d \in live : d.p \in LiveAt /\ (d.p = c.p => d = c)
  BY LiveFacts DEF LiveAt
<1>5. LiveAt' \cup Held' = LiveAt \cup Held
  <2>1. ASSUME NEW q
        PROVE  (\E d \in live' : d.p = q) \/ q = c.p <=> (\E d \in live : d.p = q) \/ q = call.p
    BY <1>2
  <2>2. ASSUME NEW q PROVE q \in LiveAt' \cup Held' <=> q \in LiveAt \cup Held
    BY <1>1, <1>3, <2>1 DEF LiveAt
  <2> QED BY <2>2
<1>6. LiveOK'
  <2>1. ASSUME NEW d \in live'
        PROVE  d.nb >= MINSIZE /\ d.nb <= chunksize(mem', d.p) /\ unit'[UnitOf(d.p)] = d.label
    BY <1>1, <1>2 DEF HeapParts, LiveOK, Size
  <2>2. ASSUME NEW d \in live', NEW e \in live', d.p = e.p PROVE d = e
    <3>1. \A x, y \in live : x.p = y.p => x = y
      BY DEF HeapParts, LiveOK
    <3> QED BY <1>1, <1>2, <1>4, <2>2, <3>1
  <2> QED BY <2>1, <2>2 DEF LiveOK, Size
<1>7. CallOK'
  <2>1. \A d \in live' : d.p # c.p
    BY <1>1, <1>2, <1>4, LiveFacts
  <2>2. Held' \cap {d.p : d \in live'} = {}
    BY <1>3, <2>1
  <2>3. call'.p \in Chunk /\ unit'[UnitOf(call'.p)] = call'.label
    BY <1>3, LiveFacts
  <2> QED BY <2>2, <2>3 DEF CallOK, Asks
<1>8. CallTyped'
  BY <1>2, <1>3 DEF CallTyped, HeapParts, TypeOK, Stages
<1>9. Stays(L, av[L])
  BY <1>1, IdleStays
<1>10. L \in Label /\ (pc = "consolidate" => call.label = L)
  BY <1>1
<1> HIDE DEF L
<1> QED BY <1>5, <1>6, <1>7, <1>8, <1>9, <1>10, QuietStep

\* ablib_realloc goes on with the chunk that ablib_malloc has returned.
LEMMA MovedStep ==
  ASSUME HeapParts, realloc_moved
  PROVE  HeapParts'
<1>1. pc = "moved"
  BY DEF realloc_moved
<1>2. PICK c \in live :
        /\ c.p = call.old
        /\ IF Wild(mem, c.p) \/ Wild(mem, call.p) THEN Stop("wild")
           ELSE \/ /\ call.p = next_chunk(mem, c.p)
                   /\ Shrink(c, chunksize(mem, c.p) + chunksize(mem, call.p), call.nb)
                   /\ UNCHANGED <<av, unit, top, exhausted>>
                \/ /\ call.p # next_chunk(mem, c.p)
                   /\ Replace(c, call.p, call.nb)
                   /\ pc' = "free" /\ call' = [NoCall EXCEPT !.label = c.label, !.p = c.p]
                   /\ UNCHANGED <<heapVars, exhausted>>
  BY DEF realloc_moved
<1>3. ~Wild(mem, c.p) /\ ~Wild(mem, call.p)
  BY <1>1, <1>2, LiveFacts, MovingFacts, NoneWild
<1>4. CASE call.p = next_chunk(mem, c.p)
  BY <1>1, <1>2, <1>3, <1>4, BehindStep
<1>5. CASE call.p # next_chunk(mem, c.p)
  BY <1>1, <1>2, <1>3, <1>5, CopyStep DEF heapVars
<1> QED BY <1>4, <1>5

---------------------------------------------------------------------------
(* The calls begin                                                         *)

\* A request that is in range has a padded size that a chunk can have.
LEMMA PaddedSize ==
  ASSUME NEW b \in Nat, Serves(b), ~REQUEST_OUT_OF_RANGE(b)
  PROVE  request2size(b) \in ChunkSize /\ request2size(b) < UNIT_SIZE
<1> DEFINE r == ((b + 4 + 7) \div 8) * 8
<1>1. r \in Nat /\ r % 8 = 0 /\ (b + 4 + 7 >= 16 => r >= 16)
  OBVIOUS
<1>2. request2size(b) = IF b + 4 + 7 < 16 THEN 16 ELSE r
  BY DEF request2size, MINSIZE
<1>3. request2size(b) < UNIT_SIZE
  BY DEF Serves
<1> HIDE DEF r
<1> QED BY <1>1, <1>2, <1>3, UnitSize DEF ChunkSize, MINSIZE

\* Division by n recovers a product that has not overflown.
LEMMA Overflows ==
  ASSUME NEW n \in Nat, NEW e \in Nat, NEW W \in Nat, W > 0, n > 0,
         e = ((n * e) % W) \div n
  PROVE  (n * e) % W = n * e
<1> DEFINE x == n * e
           s == x % W
<1>1. x \in Nat
  OBVIOUS
<1>2. e = s \div n /\ x = n * (s \div n)
  OBVIOUS
<1>3. s <= x /\ s \in Nat
  <2> HIDE DEF x
  <2> QED BY <1>1
<1>4. n * (s \div n) <= s
  <2> HIDE DEF s
  <2> QED BY <1>3
<1>5. x <= s
  BY <1>2, <1>4
<1> HIDE DEF x, s
<1>6. s = x
  BY <1>1, <1>3, <1>5
<1> QED BY <1>6 DEF x, s

\* The size that calloc asks for is the one the client means.
LEMMA CallocAsks ==
  ASSUME NEW n \in Elements, NEW e \in Elements, CallocSize(n, e) # 0
  PROVE  CallocSize(n, e) = n * e /\ n * e \in Nat /\ Serves(n * e)
<1> DEFINE W == 2^WIDTH
<1>1. W \in Nat /\ W > 0 /\ n \in Nat /\ e \in Nat /\ Serves(CallocSize(n, e))
  BY HeapAssumption
<1>2. CallocSize(n, e) = IF n # 0 /\ e # ((n * e) % W) \div n THEN 0 ELSE (n * e) % W
  BY DEF CallocSize
<1> HIDE DEF W
<1>3. n * e \in Nat
  BY <1>1
<1>4. CASE n = 0
  <2>1. n * e = 0
    BY <1>1, <1>4
  <2>2. (n * e) % W = 0
    BY <1>1, <2>1
  <2> QED BY <1>2, <1>4, <2>2
<1>5. CASE n # 0
  <2>1. e = ((n * e) % W) \div n /\ n > 0
    BY <1>1, <1>2, <1>5
  <2>2. (n * e) % W = n * e
    BY <1>1, <2>1, Overflows
  <2> QED BY <1>1, <1>2, <1>3, <2>1, <2>2
<1> QED BY <1>4, <1>5

\* Steps that change nothing keep everything.
LEMMA Stutters ==
  ASSUME HeapParts, UNCHANGED vars
  PROVE  HeapParts'
<1>1. /\ mem' = mem /\ av' = av /\ unit' = unit /\ top' = top /\ live' = live
      /\ pc' = pc /\ call' = call /\ exhausted' = exhausted
  BY DEF vars, heapVars
<1>2. Held' = Held /\ LiveAt' = LiveAt /\ QuickAll' = QuickAll /\ FreeChunks' = FreeChunks
      /\ UsedChunks' = UsedChunks
  BY <1>1 DEF Held, LiveAt, QuickAll, Quick, FreeChunks, UsedChunks
<1>3. TypeOK' /\ Layout(mem, FreeChunks, UsedChunks, top)'
  BY <1>1, <1>2 DEF HeapParts, TypeOK
<1>4. Listed' /\ Flagged' /\ Owned' /\ Apart'
  BY <1>1, <1>2 DEF HeapParts, Listed, Flagged, Owned, Apart
<1>5. LiveOK' /\ CallOK'
  BY <1>1, <1>2 DEF HeapParts, LiveOK, CallOK, Asks, Mst, Size
<1> QED BY <1>3, <1>4, <1>5 DEF HeapParts

\* A request for memory begins.
LEMMA MallocBegins ==
  ASSUME HeapParts, pc = "idle", NEW L \in Label, NEW nb \in ChunkSize, nb < UNIT_SIZE,
         NEW op \in {"malloc", "calloc"},
         Enter("malloc", [NoCall EXCEPT !.op = op, !.label = L, !.nb = nb, !.want = nb]),
         UNCHANGED live
  PROVE  HeapParts'
<1>1. /\ call' \in Call /\ call'.nb = nb /\ call'.want = nb /\ call'.op = op
  BY NoCallOK, SizeFacts DEF Enter, Call, NoCall
<1>2. live' = live /\ pc' = "malloc" /\ UNCHANGED <<heapVars, exhausted>>
  BY DEF Enter
<1> QED BY <1>1, <1>2, EntersStage

\* ablib_malloc
LEMMA MallocCalled ==
  ASSUME HeapParts, NEW L \in Label, ablib_malloc(L)
  PROVE  HeapParts'
<1>1. PICK b \in Requests \ {0} :
        \/ checked_request2size(b)
        \/ /\ ~REQUEST_OUT_OF_RANGE(b)
           /\ MayHave(L)
           /\ Enter("malloc", [NoCall EXCEPT !.op = "malloc", !.label = L,
                                             !.nb = request2size(b), !.want = request2size(b)])
           /\ UNCHANGED live
  BY DEF ablib_malloc
<1>2. pc = "idle" /\ b \in Nat /\ Serves(b)
  BY HeapAssumption DEF ablib_malloc
<1>3. CASE checked_request2size(b)
  BY <1>3, Stutters DEF checked_request2size
<1>4. CASE ~checked_request2size(b)
  <2>1. request2size(b) \in ChunkSize /\ request2size(b) < UNIT_SIZE
    BY <1>1, <1>2, <1>4, PaddedSize
  <2> QED BY <1>1, <1>2, <1>4, <2>1, MallocBegins
<1> QED BY <1>3, <1>4

\* ablib_calloc
LEMMA CallocCalled ==
  ASSUME HeapParts, NEW L \in Label, ablib_calloc(L)
  PROVE  HeapParts'
<1>1. PICK n \in Elements, e \in Elements :
        \/ checked_request2size(CallocSize(n, e))
        \/ /\ CallocSize(n, e) # 0 /\ ~REQUEST_OUT_OF_RANGE(CallocSize(n, e))
           /\ MayHave(L)
           /\ Enter("malloc", [NoCall EXCEPT !.op = "calloc", !.label = L,
                                             !.nb = request2size(CallocSize(n, e)),
                                             !.want = request2size(n * e)])
           /\ UNCHANGED live
  BY DEF ablib_calloc
<1>2. pc = "idle"
  BY DEF ablib_calloc
<1>3. CASE checked_request2size(CallocSize(n, e))
  BY <1>3, Stutters DEF checked_request2size
<1>4. CASE ~checked_request2size(CallocSize(n, e))
  <2>1. CallocSize(n, e) = n * e /\ n * e \in Nat /\ Serves(n * e)
    BY <1>1, <1>4, CallocAsks
  <2>2. request2size(n * e) \in ChunkSize /\ request2size(n * e) < UNIT_SIZE
    BY <1>1, <1>4, <2>1, PaddedSize
  <2> QED BY <1>1, <1>2, <1>4, <2>1, <2>2, MallocBegins
<1> QED BY <1>3, <1>4

\* A client frees a block.
LEMMA FreesStep ==
  ASSUME HeapParts, pc = "idle", NEW c \in live, Frees(c)
  PROVE  HeapParts'
<1> DEFINE L == c.label
<1>1. /\ pc' = "free" /\ live' = live \ {c} /\ exhausted' = exhausted
      /\ mem' = mem /\ av' = av /\ unit' = unit /\ top' = top
      /\ call' = [NoCall EXCEPT !.label = c.label, !.p = c.p]
  BY DEF Frees, Enter, heapVars
<1>2. call' \in Call /\ call'.p = c.p /\ call'.label = L /\ Held' = {c.p}
  <2>1. call' \in Call /\ call'.p = c.p /\ call'.label = L
    BY <1>1, NoCallOK, LiveFacts DEF Call, NoCall
  <2> QED BY <1>1, <2>1 DEF Held
<1>3. \A d \in live : d.p = c.p => d = c
  BY LiveFacts
<1>4. LiveAt' \cup Held' = LiveAt \cup Held
  <2>1. Held = {}
    BY DEF Held
  <2>2. ASSUME NEW q
        PROVE  (\E d \in live' : d.p = q) \/ q = c.p <=> \E d \in live : d.p = q
    BY <1>1
  <2>3. ASSUME NEW q PROVE q \in LiveAt' \cup Held' <=> q \in LiveAt \cup Held
    BY <1>2, <2>1, <2>2 DEF LiveAt
  <2> QED BY <2>3
<1>5. LiveOK'
  BY <1>1 DEF HeapParts, LiveOK, Size
<1>6. CallOK'
  <2>1. \A d \in live' : d.p # c.p
    BY <1>1, <1>3
  <2>2. Held' \cap {d.p : d \in live'} = {}
    BY <1>2, <2>1
  <2>3. call'.p \in Chunk /\ unit'[UnitOf(call'.p)] = call'.label
    BY <1>1, <1>2, LiveFacts
  <2> QED BY <1>1, <2>2, <2>3 DEF CallOK, Asks
<1>7. CallTyped'
  BY <1>1, <1>2 DEF CallTyped, HeapParts, TypeOK, Stages
<1>8. L \in Label /\ (pc = "consolidate" => call.label = L) /\ Stays(L, av[L])
  BY <1>1, LiveFacts, IdleStays
<1> HIDE DEF L
<1> QED BY <1>4, <1>5, <1>6, <1>7, <1>8, QuietStep

\* ablib_realloc
LEMMA ReallocCalled ==
  ASSUME HeapParts, ablib_realloc
  PROVE  HeapParts'
<1>1. PICK c \in live, b \in Requests :
        \/ b = 0 /\ Frees(c)
        \/ b # 0 /\ checked_request2size(b)
        \/ b # 0 /\ ~REQUEST_OUT_OF_RANGE(b) /\ Realloc(c, request2size(b))
  BY DEF ablib_realloc
<1>2. pc = "idle" /\ b \in Nat /\ Serves(b)
  BY HeapAssumption DEF ablib_realloc
<1>3. CASE Frees(c)
  BY <1>2, <1>3, FreesStep
<1>4. CASE checked_request2size(b)
  BY <1>4, Stutters DEF checked_request2size
<1>5. CASE ~REQUEST_OUT_OF_RANGE(b) /\ Realloc(c, request2size(b))
  <2>1. request2size(b) \in ChunkSize /\ request2size(b) < UNIT_SIZE
    BY <1>2, <1>5, PaddedSize
  <2> QED BY <1>2, <1>5, <2>1, ReallocStep
<1> QED BY <1>1, <1>3, <1>4, <1>5

---------------------------------------------------------------------------
(* The flags in max_fast                                                   *)

HasFlags(a) == {"any", "fast"} \subseteq DOMAIN a

\* Lists change, flags do not.
SameFlags(a, b) == HasFlags(b) /\ b.any = a.any /\ b.fast = a.fast

\* What the operations on lists do to the flags.
LEMMA FlagsKept ==
  ASSUME NEW a, HasFlags(a)
  PROVE  /\ \A p : SameFlags(a, unlink(a, p))
         /\ \A m, v : SameFlags(a, PlaceInBin(a, m, v))
         /\ \A v, size, nb, adv : SameFlags(a, CarvedLists(a, v, size, nb, adv))
<1>1. \A p : SameFlags(a, unlink(a, p))
  BY DEF HasFlags, SameFlags, unlink
<1>2. \A m, v : SameFlags(a, PlaceInBin(a, m, v))
  BY DEF HasFlags, SameFlags, PlaceInBin
<1>3. \A v, size, nb, adv : SameFlags(a, CarvedLists(a, v, size, nb, adv))
  BY DEF HasFlags, SameFlags, CarvedLists
<1> QED BY <1>1, <1>2, <1>3

\* Merging a chunk with its neighbours.
LEMMA FlagsMerged ==
  ASSUME NEW a, HasFlags(a), NEW m, NEW p, NEW t
  PROVE  SameFlags(a, MergedLists(a, m, p, t))
<1> DEFINE a1 == IF prev_inuse(m, p) THEN a ELSE unlink(a, Front_of(m, p))
           a2 == IF next_chunk(m, p) = t \/ inuse(m, next_chunk(m, p)) THEN a1
                 ELSE unlink(a1, next_chunk(m, p))
<1>1. SameFlags(a, a1)
  BY FlagsKept DEF SameFlags
<1>2. SameFlags(a, a2)
  BY <1>1, FlagsKept DEF SameFlags
<1>3. MergedLists(a, m, p, t) = IF next_chunk(m, p) = t THEN a2
                                ELSE [a2 EXCEPT !.unsorted = <<Front_of(m, p)>> \o @]
  BY DEF MergedLists
<1> HIDE DEF a2
<1> QED BY <1>2, <1>3 DEF SameFlags, HasFlags

\* A step that gives label L the flags of a2.
LEMMA FlagsAfter ==
  ASSUME HeapParts, FlagsOK, NEW L \in Label, NEW a2, av' = [av EXCEPT ![L] = a2],
         a2.fast => a2.any
  PROVE  \A K \in Label : av'[K].fast => av'[K].any
BY MstAfter DEF FlagsOK

\* A stage outside the search has nothing to say about large requests.
LEMMA FlagsElsewhere ==
  ASSUME \A K \in Label : av'[K].fast => av'[K].any,
         pc' \in {"idle", "malloc", "moved", "free"} \cup Stops
  PROVE  FlagsOK'
BY DEF FlagsOK, Stops

\* The mstate of the call has flags.
LEMMA FlagsOfCall ==
  ASSUME HeapParts
  PROVE  call.label \in Label /\ Mst = av[call.label] /\ Mst \in Mstate /\ HasFlags(Mst)
<1>1. call.label \in Label /\ Mst = av[call.label] /\ Mst \in Mstate
  BY DEF HeapParts, TypeOK, Call, Mst
<1> QED BY <1>1 DEF HasFlags, Mstate

\* A chunk is handed out, and the flags stay.
LEMMA FlagsGot ==
  ASSUME HeapParts, FlagsOK, NEW m, NEW p, Got(m, p), NEW a2,
         av' = [av EXCEPT ![call.label] = a2], SameFlags(Mst, a2)
  PROVE  FlagsOK'
<1>1. a2.fast => a2.any
  BY FlagsOfCall DEF FlagsOK, SameFlags
<1>2. pc' \in {"idle", "moved"}
  BY DEF Got, Done
<1> QED BY <1>1, <1>2, FlagsOfCall, FlagsAfter, FlagsElsewhere

\* The call goes on to another stage of the search, and the flags stay.
LEMMA FlagsGoOn ==
  ASSUME HeapParts, FlagsOK, NEW a2, av' = [av EXCEPT ![call.label] = a2], SameFlags(Mst, a2),
         call' = call, pc' \in {"unsorted", "bins", "top"},
         ~in_smallbin_range(call.nb) => ~Mst.fast
  PROVE  FlagsOK'
<1>1. a2.fast => a2.any
  BY FlagsOfCall DEF FlagsOK, SameFlags
<1>2. Mst' = a2
  BY FlagsOfCall, MstAfter DEF Mst
<1>3. \A K \in Label : av'[K].fast => av'[K].any
  BY <1>1, FlagsOfCall, FlagsAfter
<1> QED BY <1>2, <1>3 DEF FlagsOK, SameFlags

\* Fast chunks are about to be consolidated.
LEMMA FlagsConsolidate ==
  ASSUME HeapParts, FlagsOK, NEW ret, Consolidate(ret)
  PROVE  FlagsOK'
<1> DEFINE a == [Mst EXCEPT !.fast = FALSE]
<1>1. a.fast = FALSE
  BY FlagsOfCall DEF HasFlags
<1>2. av' = [av EXCEPT ![call.label] = a] /\ pc' = "consolidate" /\ call' = [call EXCEPT !.ret = ret]
  BY DEF Consolidate, SetMstate
<1> HIDE DEF a
<1>3. call'.label = call.label
  BY <1>2 DEF HeapParts, TypeOK, Call
<1>4. Mst' = a
  BY <1>2, <1>3, FlagsOfCall, MstAfter DEF Mst
<1>5. \A K \in Label : av'[K].fast => av'[K].any
  BY <1>1, <1>2, FlagsOfCall, FlagsAfter
<1> QED BY <1>1, <1>2, <1>4, <1>5 DEF FlagsOK

\* malloc: a chunk is found, or the call goes on.
LEMMA FlagsMalloc ==
  ASSUME HeapParts, FlagsOK,
         malloc_fast \/ malloc_small \/ malloc_search \/ process_unsorted \/ unsorted_done
           \/ best_fit \/ search_bins \/ bins_done
  PROVE  FlagsOK'
<1> USE FlagsOfCall
<1>0. av = [av EXCEPT ![call.label] = Mst] /\ SameFlags(Mst, Mst)
  BY DEF HeapParts, TypeOK, SameFlags
<1>9. ASSUME Stop("abort") \/ Stop("wild") PROVE FlagsOK'
  BY <1>9, FlagsElsewhere DEF Stop, heapVars, FlagsOK, Stops
<1>1. CASE malloc_fast
  <2>1. SameFlags(Mst, [Mst EXCEPT !.fastbins[call.nb] = Tail(@)])
    BY DEF SameFlags, HasFlags
  <2> QED BY <1>1, <2>1, FlagsGot DEF malloc_fast, SetMstate
<1>2. CASE malloc_small
  <2>1. SameFlags(Mst, [Mst EXCEPT !.bins[bin_index(call.nb)] = Front(@)])
    BY DEF SameFlags, HasFlags
  <2> QED BY <1>2, <2>1, FlagsGot DEF malloc_small, SetMstate
<1>3. CASE malloc_search
  <2>1. CASE ~Mst.any /\ GoTo("top") /\ av' = av
    BY <1>0, <2>1, FlagsGoOn DEF GoTo, FlagsOK
  <2>2. CASE (in_smallbin_range(call.nb) \/ ~Mst.fast) /\ GoTo("unsorted") /\ av' = av
    BY <1>0, <2>2, FlagsGoOn DEF GoTo
  <2>3. CASE Consolidate("unsorted")
    BY <2>3, FlagsConsolidate
  <2> QED BY <1>3, <2>1, <2>2, <2>3 DEF malloc_search, heapVars
<1>4. CASE process_unsorted
  <2> DEFINE v == Last(Mst.unsorted)
             a == [Mst EXCEPT !.unsorted = Front(@)]
  <2>1. SameFlags(Mst, a) /\ HasFlags(a)
    BY DEF SameFlags, HasFlags
  <2>2. ASSUME NEW b, SameFlags(a, b) PROVE SameFlags(Mst, b)
    BY <2>1, <2>2 DEF SameFlags
  <2>3. \/ Stop("wild")
        \/ Carve(a, v, TRUE)
        \/ SetMstate(a) /\ Got(set_inuse_bit_at_offset(mem, v, chunksize(mem, v)), v)
        \/ SetMstate(PlaceInBin(a, mem, v)) /\ UNCHANGED <<pc, call>>
    BY <1>4 DEF process_unsorted
  <2> HIDE DEF a, v
  <2>4. CASE Carve(a, v, TRUE)
    BY <2>1, <2>2, <2>4, FlagsKept, FlagsGot DEF Carve, SetMstate
  <2>5. CASE SetMstate(a) /\ Got(set_inuse_bit_at_offset(mem, v, chunksize(mem, v)), v)
    BY <2>1, <2>5, FlagsGot DEF SetMstate
  <2>6. CASE SetMstate(PlaceInBin(a, mem, v)) /\ UNCHANGED <<pc, call>>
    <3>1. pc = "unsorted"
      BY <1>4 DEF process_unsorted
    <3> QED BY <2>1, <2>2, <2>6, <3>1, FlagsKept, FlagsGoOn DEF SetMstate, FlagsOK
  <2> QED BY <1>9, <2>3, <2>4, <2>5, <2>6
<1>5. CASE unsorted_done
  BY <1>0, <1>5, FlagsGoOn DEF unsorted_done, GoTo, heapVars, FlagsOK
<1>6. CASE best_fit
  <2>1. PICK v : Stop("wild") \/ Carve(unlink(Mst, v), v, FALSE)
    BY <1>6 DEF best_fit
  <2> DEFINE a == unlink(Mst, v)
  <2>2. SameFlags(Mst, a) /\ HasFlags(a)
    BY FlagsKept DEF SameFlags
  <2> HIDE DEF a
  <2>3. ASSUME NEW b, SameFlags(a, b) PROVE SameFlags(Mst, b)
    BY <2>2, <2>3 DEF SameFlags
  <2>4. CASE Carve(a, v, FALSE)
    BY <2>2, <2>3, <2>4, FlagsKept, FlagsGot DEF Carve, SetMstate
  <2> QED BY <1>9, <2>1, <2>4 DEF a
<1>7. CASE search_bins
  <2>1. PICK i \in Filled :
          LET v == Last(Mst.bins[i])
              a == [Mst EXCEPT !.bins[i] = Front(@),
                               !.binmap = @ \ {j \in Marked \ Filled : j < i}]
          IN  IF Wild(mem, v) THEN Stop("wild")
              ELSE IF chunksize(mem, v) < call.nb THEN Stop("abort")
              ELSE Carve(a, v, in_smallbin_range(call.nb))
    BY <1>7 DEF search_bins
  <2> DEFINE v == Last(Mst.bins[i])
             a == [Mst EXCEPT !.bins[i] = Front(@),
                              !.binmap = @ \ {j \in Marked \ Filled : j < i}]
  <2>2. SameFlags(Mst, a) /\ HasFlags(a)
    BY DEF SameFlags, HasFlags
  <2>3. Stop("wild") \/ Stop("abort") \/ Carve(a, v, in_smallbin_range(call.nb))
    BY <2>1
  <2> HIDE DEF a, v
  <2>4. ASSUME NEW b, SameFlags(a, b) PROVE SameFlags(Mst, b)
    BY <2>2, <2>4 DEF SameFlags
  <2>6. CASE Carve(a, v, in_smallbin_range(call.nb))
    BY <2>2, <2>4, <2>6, FlagsKept, FlagsGot DEF Carve, SetMstate
  <2> QED BY <1>9, <2>3, <2>6
<1>8. CASE bins_done
  <2>1. SameFlags(Mst, [Mst EXCEPT !.binmap = @ \ Marked])
    BY DEF SameFlags, HasFlags
  <2> QED BY <1>8, <2>1, FlagsGoOn DEF bins_done, GoTo, SetMstate, FlagsOK
<1> QED BY <1>1, <1>2, <1>3, <1>4, <1>5, <1>6, <1>7, <1>8

\* __malloc_alloc and the unit tops.
LEMMA FlagsTop ==
  ASSUME HeapParts, FlagsOK, use_unit_top \/ malloc_retry \/ malloc_alloc \/ realloc_moved
  PROVE  FlagsOK'
<1>1. CASE malloc_retry
  BY <1>1, FlagsConsolidate, FlagsElsewhere DEF malloc_retry, Stop, heapVars, FlagsOK, Stops
<1>2. CASE use_unit_top \/ malloc_alloc
  <2>1. av' = av
    BY <1>2 DEF use_unit_top, malloc_alloc, Stop, heapVars
  <2>2. pc' \in {"idle", "moved"} \cup Stops
    BY <1>2 DEF use_unit_top, malloc_alloc, Stop, Got, Done, Stops
  <2> QED BY <2>1, <2>2, FlagsElsewhere DEF FlagsOK
<1>3. CASE realloc_moved
  <2>1. av' = av /\ pc' \in {"idle", "free"} \cup Stops
    BY <1>3 DEF realloc_moved, Shrink, Done, Stop, heapVars, Stops
  <2> QED BY <2>1, FlagsElsewhere DEF FlagsOK
<1> QED BY <1>1, <1>2, <1>3

\* free, and each chunk that is consolidated.
LEMMA FlagsFree ==
  ASSUME HeapParts, FlagsOK, free_fast \/ free_chunk \/ malloc_consolidate
  PROVE  FlagsOK'
<1> USE FlagsOfCall
<1>0. ASSUME NEW a, HasFlags(a), NEW p, NEW keep \in BOOLEAN, keep => a.any,
             Coalesce(a, p, keep)
      PROVE  /\ \A K \in Label : av'[K].fast => av'[K].any
             /\ call'.label = call.label => (Mst').fast = keep
  <2> DEFINE b == MergedLists(a, mem, p, top[UnitOf(p)])
             c == [b EXCEPT !.fast = keep]
  <2>1. av' = [av EXCEPT ![call.label] = c]
    BY <1>0 DEF Coalesce, SetMstate
  <2>2. SameFlags(a, b)
    BY <1>0, FlagsMerged
  <2> HIDE DEF b
  <2>3. c.fast = keep /\ c.any = a.any
    BY <2>2 DEF SameFlags, HasFlags
  <2> HIDE DEF c
  <2>4. call'.label = call.label => Mst' = c
    BY <2>1, MstAfter DEF Mst
  <2> QED BY <1>0, <2>1, <2>3, <2>4, FlagsAfter
<1>1. CASE free_fast
  <2> DEFINE a == [Mst EXCEPT !.any = TRUE, !.fast = TRUE,
                              !.fastbins[fastbin(chunksize(mem, call.p))] = <<call.p>> \o @]
  <2>1. a.any
    BY DEF HasFlags
  <2>2. av' = [av EXCEPT ![call.label] = a] /\ pc' = "idle"
    BY <1>1 DEF free_fast, SetMstate, Done
  <2> HIDE DEF a
  <2> QED BY <2>1, <2>2, FlagsAfter, FlagsElsewhere
<1>2. CASE free_chunk
  <2> DEFINE t == top[UnitOf(call.p)]
             a == [Mst EXCEPT !.any = TRUE]
             more == /\ MergedSize(mem, call.p, t) >= FASTBIN_CONSOLIDATION_THRESHOLD
                     /\ Mst.fast
             keep == Mst.fast /\ ~more
  <2>1. HasFlags(a) /\ a.any
    BY DEF HasFlags
  <2>2. \/ Stop("abort") \/ Stop("wild")
        \/ /\ Coalesce(a, call.p, keep)
           /\ IF more THEN pc' = "consolidate" /\ call' = [NoCall EXCEPT !.label = call.label]
              ELSE Done
    BY <1>2 DEF free_chunk
  <2>3. keep \in BOOLEAN /\ (more => ~keep)
    OBVIOUS
  <2> HIDE DEF a, more, keep
  <2>4. CASE Stop("abort") \/ Stop("wild")
    BY <2>4, FlagsElsewhere DEF Stop, heapVars, FlagsOK, Stops
  <2>5. CASE /\ Coalesce(a, call.p, keep) /\ more
             /\ pc' = "consolidate" /\ call' = [NoCall EXCEPT !.label = call.label]
    <3>1. pc' = "consolidate" /\ call'.label = call.label
      BY <2>5 DEF NoCall
    <3>2. (\A K \in Label : av'[K].fast => av'[K].any) /\ ~(Mst').fast
      BY <1>0, <2>1, <2>3, <2>5, <3>1
    <3> QED BY <3>1, <3>2 DEF FlagsOK
  <2>6. CASE Coalesce(a, call.p, keep) /\ Done
    <3>1. \A K \in Label : av'[K].fast => av'[K].any
      BY <1>0, <2>1, <2>3, <2>6
    <3> QED BY <2>6, <3>1, FlagsElsewhere DEF Done
  <2> QED BY <2>2, <2>4, <2>5, <2>6
<1>3. CASE malloc_consolidate
  <2>0. pc = "consolidate" /\ ~Mst.fast
    BY <1>3 DEF malloc_consolidate, FlagsOK
  <2>1. CASE \E s \in Fast : consolidate_chunk(s)
    <3>1. PICK s \in Fast : consolidate_chunk(s)
      BY <2>1
    <3> DEFINE a == [Mst EXCEPT !.fastbins[s] = Tail(@)]
    <3>2. HasFlags(a)
      BY DEF HasFlags
    <3>3. \/ Stop("abort") \/ Stop("wild")
          \/ Coalesce(a, Head(Mst.fastbins[s]), FALSE) /\ UNCHANGED <<pc, call>>
      BY <3>1 DEF consolidate_chunk
    <3> HIDE DEF a
    <3>4. CASE Stop("abort") \/ Stop("wild")
      BY <3>4, FlagsElsewhere DEF Stop, heapVars, FlagsOK, Stops
    <3>5. CASE Coalesce(a, Head(Mst.fastbins[s]), FALSE) /\ UNCHANGED <<pc, call>>
      <4>1. (\A K \in Label : av'[K].fast => av'[K].any) /\ ~(Mst').fast
        BY <1>0, <3>2, <3>5
      <4> QED BY <2>0, <3>5, <4>1 DEF FlagsOK
    <3> QED BY <3>3, <3>4, <3>5
  <2>2. CASE av' = av /\ Done
    BY <2>2, FlagsElsewhere DEF Done, FlagsOK
  <2>3. CASE av' = av /\ pc' = call.ret /\ call' = [call EXCEPT !.ret = "idle"]
    <3>1. call.ret \in {"idle", "malloc", "unsorted"} /\ call'.label = call.label
      BY <2>3 DEF HeapParts, TypeOK, Call
    <3>2. Mst' = Mst
      BY <2>3, <3>1 DEF Mst
    <3> QED BY <2>0, <2>3, <3>1, <3>2 DEF FlagsOK
  <2> QED BY <1>3, <2>1, <2>2, <2>3 DEF malloc_consolidate, heapVars
<1> QED BY <1>1, <1>2, <1>3

\* The calls of clients.
LEMMA FlagsCalled ==
  ASSUME HeapParts, FlagsOK,
         (\E L \in Label : ablib_malloc(L) \/ ablib_calloc(L)) \/ ablib_free \/ ablib_realloc
  PROVE  FlagsOK'
<1>1. ASSUME UNCHANGED vars PROVE FlagsOK'
  BY <1>1 DEF vars, heapVars, FlagsOK, Mst
<1>2. ASSUME av' = av, pc' \in {"idle", "malloc", "free"} \cup Stops PROVE FlagsOK'
  BY <1>2, FlagsElsewhere DEF FlagsOK
<1>3. ASSUME NEW L \in Label, ablib_malloc(L) \/ ablib_calloc(L) PROVE FlagsOK'
  BY <1>1, <1>2, <1>3 DEF ablib_malloc, ablib_calloc, checked_request2size, Enter, heapVars
<1>4. ASSUME NEW c \in live, Frees(c) PROVE FlagsOK'
  BY <1>2, <1>4 DEF Frees, Enter, heapVars
<1>5. CASE ablib_realloc
  <2>1. PICK c \in live, b \in Requests :
          \/ Frees(c) \/ checked_request2size(b) \/ Realloc(c, request2size(b))
    BY <1>5 DEF ablib_realloc
  <2>2. CASE Realloc(c, request2size(b))
    <3>1. pc = "idle"
      BY <1>5 DEF ablib_realloc
    <3>2. CASE av' = av /\ pc' \in {"idle", "malloc", "free"} \cup Stops
      BY <1>2, <3>2
    <3>3. CASE \E p : av' = [av EXCEPT ![c.label] = unlink(@, p)] /\ pc' \in {"idle", "free"}
      <4>1. PICK p : av' = [av EXCEPT ![c.label] = unlink(av[c.label], p)]
        BY <3>3
      <4>2. c.label \in Label /\ av[c.label] \in Mstate
        BY DEF HeapParts, TypeOK
      <4>3. SameFlags(av[c.label], unlink(av[c.label], p))
        BY <4>2, FlagsKept DEF HasFlags, Mstate
      <4>4. \A K \in Label : av'[K].fast => av'[K].any
        BY <4>1, <4>2, <4>3, FlagsAfter DEF SameFlags, FlagsOK
      <4> QED BY <3>3, <4>4, FlagsElsewhere
    <3> QED BY <2>2, <3>1, <3>2, <3>3 DEF Realloc, Shrink, Done, Stop, Stops, heapVars
  <2> QED BY <1>1, <1>4, <2>1, <2>2 DEF checked_request2size
<1> QED BY <1>3, <1>4, <1>5 DEF ablib_free

---------------------------------------------------------------------------
(* The invariant                                                           *)

\* The inductive invariant, with the lists of a label in one part.
Sound == ~exhausted => HeapParts /\ FlagsOK

\* Before anything is allocated there are no chunks at all.
LEMMA InitSound == Init => HeapParts /\ FlagsOK
<1> SUFFICES ASSUME Init PROVE HeapParts /\ FlagsOK
  OBVIOUS
<1> DEFINE none == [i \in Bins |-> <<>>]
<1>1. /\ mem = [a \in Addr |-> DATA] /\ av = [L \in Label |-> NoMstate] /\ unit = <<>>
      /\ top = <<>> /\ live = {} /\ pc = "idle" /\ call = NoCall /\ exhausted = FALSE
  BY DEF Init
<1>2. NoMstate \in Mstate
  BY DEF NoMstate, Mstate
<1>3. TypeOK
  <2>1. mem \in [Addr -> Nat \cup {DATA}] /\ av \in [Label -> Mstate]
    BY <1>1, <1>2
  <2>2. /\ unit \in Seq(Label) /\ Len(unit) <= MaxUnits
        /\ top \in Seq(Chunk) /\ Len(top) = Len(unit)
    BY <1>1, HeapAssumption
  <2> QED BY <1>1, <2>1, <2>2, NoCallOK DEF TypeOK
<1>4. ToSet(<<>>) = {}
  BY DEF ToSet
<1>5. Binned(NoMstate) = {} /\ QuickOf(NoMstate) = {}
  BY <1>4 DEF Binned, QuickOf, NoMstate
<1>6. \A L \in Label : av[L] = NoMstate
  BY <1>1
<1>7. FreeChunks = {} /\ QuickAll = {}
  BY <1>5, <1>6, FreeIs, QuickAllIs
<1>8. LiveAt = {} /\ Held = {} /\ UsedChunks = {}
  BY <1>1, <1>7, UsedIs DEF LiveAt, Held
<1>9. Layout(mem, {}, {}, <<>>)
  BY <1>4 DEF Layout, Tiling, SizesOf, Tagged
<1>10. MstOK(NoMstate, mem)
  <2>1. Lists(<<>>, {})
    BY <1>4 DEF Lists, IsInjective
  <2> QED BY <1>2, <1>4, <2>1 DEF MstOK, NoMstate
<1>11. Listed /\ Flagged /\ Owned /\ Apart
  BY <1>5, <1>6, <1>7, <1>10 DEF Listed, Flagged, Owned, Apart
<1>12. LiveOK /\ CallOK
  BY <1>1, <1>8 DEF LiveOK, CallOK, Asks
<1>13. FlagsOK
  BY <1>1, <1>6 DEF FlagsOK, NoMstate
<1> QED BY <1>1, <1>3, <1>7, <1>8, <1>9, <1>11, <1>12, <1>13 DEF HeapParts

\* A unit_top once exhausted is never forgotten.
LEMMA StaysExhausted ==
  ASSUME [Next]_vars, ~exhausted'
  PROVE  ~exhausted
<1>1. CASE use_unit_top
  BY <1>1 DEF use_unit_top, Stop
<1>2. CASE malloc_fast \/ malloc_small \/ malloc_search
  BY <1>2 DEF malloc_fast, malloc_small, malloc_search, Consolidate
<1>3. CASE process_unsorted \/ unsorted_done
  BY <1>3 DEF process_unsorted, unsorted_done, Carve, Stop
<1>4. CASE best_fit \/ search_bins \/ bins_done
  BY <1>4 DEF best_fit, search_bins, bins_done, Carve, Stop
<1>5. CASE malloc_retry \/ malloc_alloc
  BY <1>5 DEF malloc_retry, malloc_alloc, Consolidate, Stop
<1>6. CASE realloc_moved
  BY <1>6 DEF realloc_moved, Stop
<1>7. CASE free_fast \/ free_chunk \/ malloc_consolidate
  BY <1>7 DEF free_fast, free_chunk, malloc_consolidate, consolidate_chunk, Coalesce, Stop
<1>8. ASSUME NEW L \in Label, ablib_malloc(L) \/ ablib_calloc(L) PROVE ~exhausted
  BY <1>8 DEF ablib_malloc, ablib_calloc, Enter, checked_request2size, vars
<1>9. CASE ablib_free
  BY <1>9 DEF ablib_free, Frees, Enter
<1>10. CASE ablib_realloc
  BY <1>10 DEF ablib_realloc, Frees, Enter, Realloc, checked_request2size, vars, Stop
<1>11. CASE UNCHANGED vars
  BY <1>11 DEF vars
<1> QED BY <1>1, <1>2, <1>3, <1>4, <1>5, <1>6, <1>7, <1>8, <1>9, <1>10, <1>11 DEF Next, Serve

\* Every step of every call keeps the invariant.
LEMMA NextSound ==
  ASSUME HeapParts, FlagsOK, [Next]_vars, ~exhausted'
  PROVE  HeapParts'
<1>1. ASSUME NEW L \in Label, ablib_malloc(L) \/ ablib_calloc(L) PROVE HeapParts'
  BY <1>1, MallocCalled, CallocCalled
<1>2. CASE ablib_free
  BY <1>2, FreesStep DEF ablib_free
<1>3. CASE ablib_realloc
  BY <1>3, ReallocCalled
<1>4. CASE Serve
  <2>1. CASE malloc_fast \/ malloc_small \/ malloc_search
    BY <2>1, FastStep, SmallStep, SearchBegins
  <2>2. CASE process_unsorted \/ unsorted_done
    BY <2>2, UnsortedStep, UnsortedDone
  <2>3. CASE best_fit \/ search_bins \/ bins_done
    BY <2>3, BestFitStep, SearchStep, BinsDone
  <2>4. CASE use_unit_top \/ malloc_retry \/ malloc_alloc
    BY <2>4, TopStep, RetryStep, AllocStep
  <2>5. CASE realloc_moved
    BY <2>5, MovedStep
  <2>6. CASE free_fast \/ free_chunk \/ malloc_consolidate
    BY <2>6, FreeFastStep, FreeChunkStep, ConsolidateStep
  <2> QED BY <1>4, <2>1, <2>2, <2>3, <2>4, <2>5, <2>6 DEF Serve
<1>5. CASE UNCHANGED vars
  BY <1>5, Stutters
<1> QED BY <1>1, <1>2, <1>3, <1>4, <1>5 DEF Next

\* Every step keeps the flags right.
LEMMA NextFlags ==
  ASSUME HeapParts, FlagsOK, [Next]_vars
  PROVE  FlagsOK'
<1>1. CASE UNCHANGED vars
  BY <1>1 DEF vars, heapVars, FlagsOK, Mst
<1> QED BY <1>1, FlagsMalloc, FlagsTop, FlagsFree, FlagsCalled DEF Next, Serve

\* In every state of the allocator.
LEMMA AlwaysSound == Spec => []Sound
<1>1. Init => Sound
  BY InitSound DEF Sound
<1>2. Sound /\ [Next]_vars => Sound'
  <2> SUFFICES ASSUME Sound, [Next]_vars, ~exhausted' PROVE HeapParts' /\ FlagsOK'
    BY DEF Sound
  <2>1. HeapParts /\ FlagsOK
    BY StaysExhausted DEF Sound
  <2> QED BY <2>1, NextSound, NextFlags
<1> QED BY <1>1, <1>2, PTL DEF Spec

\* The invariant that the chunks run checks is inductive as it stands: a step
\* of any call keeps it.
THEOREM HeapInvInductive == HeapInv /\ [Next]_vars => HeapInv'
<1>1. HeapInv => Sound
  BY PartsOf DEF Sound
<1>2. Sound => HeapInv
  BY WholeOf DEF Sound, HeapInv
<1>3. Sound /\ [Next]_vars => Sound'
  BY NextSound, NextFlags, StaysExhausted DEF Sound
<1> QED BY <1>1, <1>2, <1>3, PTL

\* The inductive invariant that the chunks run checks holds for every unit
\* size, number of units, bins, labels and requests.
THEOREM HeapKeepsInv == Spec => []HeapInv
<1>1. Sound => HeapInv
  BY WholeOf DEF Sound, HeapInv
<1> QED BY <1>1, AlwaysSound, PTL

\* Every variable keeps its type: no tag is negative, no list holds an address
\* that is not one of a chunk, no call has a size outside size_t's range.
THEOREM HeapTypeCorrect == Spec => [](~exhausted => TypeOK)
<1>1. Sound => (~exhausted => TypeOK)
  BY DEF Sound, HeapParts
<1> QED BY <1>1, AlwaysSound, PTL

\* The layout says where each chunk begins and ends.
LEMMA TiledOf ==
  ASSUME HeapParts
  PROVE  Tiled
<1> DEFINE A == Tiles(FreeChunks, UsedChunks, top)
<1>1. IsHeap(mem, top) /\ Layout(mem, FreeChunks, UsedChunks, top) /\ Len(top) = Len(unit)
  BY HeapOf
<1>2. A = Chunks \cup ToSet(top)
  BY DEF Tiles, Chunks
<1>3. DOMAIN unit = 1..Len(unit)
  BY DEF HeapParts, TypeOK
<1>4. ASSUME NEW u \in DOMAIN unit
      PROVE  /\ Base(u) \in Chunks \cup {top[u]}
             /\ top[u] + Size(top[u]) = Base(u) + UNIT_SIZE - 16
  <2>1. u \in 1..Len(top)
    BY <1>1, <1>3, <1>4
  <2>2. top[u] + chunksize(mem, top[u]) = UnitEnd(u)
    BY <1>1, <2>1, TopsDiffer
  <2>3. Base(u) \in A /\ u \in Nat
    <3>1. Base(u) \in DOMAIN SizesOf(mem, A)
      BY <1>1, <2>1 DEF Layout, Tiling, Tiles
    <3> QED BY <2>1, <3>1 DEF SizesOf
  <2>4. Base(u) \in ToSet(top) => Base(u) = top[u]
    <3>1. UnitOf(Base(u)) = u
      <4>1. u \in Nat \ {0} /\ Base(u) \in Nat
        BY <2>1, BaseOf
      <4> HIDE DEF A
      <4>2. Base(u) <= Base(u) /\ Base(u) < Base(u) + UNIT_SIZE
        BY <4>1, UnitSize
      <4> QED BY <4>1, <4>2, UnitIs
    <3>2. ChunkAt(mem, FreeChunks, UsedChunks, top, Base(u))
      BY <1>1, <2>3, ChunkFacts
    <3> QED BY <3>1, <3>2 DEF ChunkAt
  <2> QED BY <1>2, <2>2, <2>3, <2>4 DEF Size, UnitEnd
<1>5. ASSUME NEW p \in Chunks
      PROVE  /\ Size(p) >= MINSIZE
             /\ p + Size(p) \in Chunks \cup {top[UnitOf(p)]}
             /\ \A q \in Chunks : q + Size(q) = p + Size(p) => q = p
  <2>1. ChunkAt(mem, FreeChunks, UsedChunks, top, p)
    BY <1>1, <1>2, <1>5, ChunkFacts
  <2>2. p \in FreeChunks \cup UsedChunks
    BY <1>5 DEF Chunks
  <2>3. /\ chunksize(mem, p) >= 16 /\ p + chunksize(mem, p) \in A
        /\ UnitOf(p + chunksize(mem, p)) = UnitOf(p)
        /\ \A q \in A : q + chunksize(mem, q) = p + chunksize(mem, p) => q = p
    BY <2>1, <2>2 DEF ChunkAt
  <2>4. p + chunksize(mem, p) \in ToSet(top) => p + chunksize(mem, p) = top[UnitOf(p)]
    <3> DEFINE n == p + chunksize(mem, p)
    <3>1. n \in A /\ UnitOf(n) = UnitOf(p)
      BY <2>3
    <3> HIDE DEF n
    <3>2. ChunkAt(mem, FreeChunks, UsedChunks, top, n)
      BY <1>1, <3>1, ChunkFacts
    <3>3. n \in ToSet(top) => n = top[UnitOf(p)]
      BY <3>1, <3>2 DEF ChunkAt
    <3> QED BY <3>3 DEF n
  <2> QED BY <1>2, <2>3, <2>4 DEF Size, MINSIZE
<1> QED BY <1>4, <1>5 DEF Tiled

\* malloc, free, realloc and consolidation lose no chunk and hand out none
\* twice: the chunks and the top fill each unit.
THEOREM ChunksTile == Spec => []Tiled
<1>1. Sound => Tiled
  BY TiledOf DEF Sound, Tiled
<1> QED BY <1>1, AlwaysSound, PTL

\* The layout says what the tags are.
LEMMA TagsOf ==
  ASSUME HeapParts
  PROVE  BoundaryTags
<1> DEFINE A == Tiles(FreeChunks, UsedChunks, top)
<1>1. IsHeap(mem, top) /\ Layout(mem, FreeChunks, UsedChunks, top) /\ FreeChunks \cap UsedChunks = {}
  BY HeapOf
<1>2. A = Chunks \cup Tops
  BY DEF Tiles, Chunks, Tops
<1>3. ASSUME NEW p \in FreeChunks
      PROVE  /\ p + Size(p) \notin FreeChunks \cup Tops
             /\ mem[p + Size(p)] = Size(p)
  <2>1. ChunkAt(mem, FreeChunks, UsedChunks, top, p)
    BY <1>1, <1>3, ChunkFacts DEF Tiles
  <2>2. p + chunksize(mem, p) \in UsedChunks /\ mem[p + chunksize(mem, p)] = chunksize(mem, p)
    BY <1>3, <2>1 DEF ChunkAt
  <2>3. p + chunksize(mem, p) \notin ToSet(top)
    <3> DEFINE n == p + chunksize(mem, p)
    <3>1. n \in UsedChunks
      BY <2>2
    <3> HIDE DEF n
    <3>2. ChunkAt(mem, FreeChunks, UsedChunks, top, n)
      BY <1>1, <3>1, ChunkFacts DEF Tiles
    <3>3. n \notin ToSet(top)
      BY <3>1, <3>2 DEF ChunkAt
    <3> QED BY <3>3 DEF n
  <2> QED BY <1>1, <2>2, <2>3 DEF Size, Tops
<1>4. ASSUME NEW p \in Chunks \cup Tops
      PROVE  prev_inuse(mem, p) <=> \A q \in FreeChunks : q + Size(q) # p
  <2>1. ChunkAt(mem, FreeChunks, UsedChunks, top, p)
    BY <1>1, <1>2, <1>4, ChunkFacts
  <2> QED BY <2>1 DEF ChunkAt, Size
<1> QED BY <1>3, <1>4 DEF BoundaryTags

\* No free chunk borders another one or the top, and the tags that free and
\* realloc trust say so.
THEOREM TagsRight == Spec => []BoundaryTags
<1>1. Sound => BoundaryTags
  BY TagsOf DEF Sound, BoundaryTags
<1> QED BY <1>1, AlwaysSound, PTL

\* Until a unit_top is exhausted no assertion on chunks fails, unlink finds
\* every chunk on its list, and no size or bit is read from a word that is no tag.
THEOREM HeapNeverCorrupt == Spec => []NeverCorrupt
<1>1. Sound => NeverCorrupt
  BY DEF Sound, NeverCorrupt, HeapParts, CallOK
<1> QED BY <1>1, AlwaysSound, PTL

\* Each chunk is on the one list of its label and size.
THEOREM HeapListsRight == Spec => []ListsRight
<1>1. HeapInv => ListsRight
  BY DEF HeapInv, ListsRight
<1> QED BY <1>1, HeapKeepsInv, PTL

---------------------------------------------------------------------------
(* New units                                                               *)

\* Only __malloc_alloc makes a unit.
LEMMA MakesUnit ==
  ASSUME HeapParts, Next, ~malloc_alloc
  PROVE  unit' = unit
<1>1. CASE use_unit_top
  BY <1>1 DEF use_unit_top, Stop, heapVars
<1>2. CASE malloc_fast \/ malloc_small \/ malloc_search
  BY <1>2 DEF malloc_fast, malloc_small, malloc_search, Consolidate, heapVars
<1>3. CASE process_unsorted \/ unsorted_done
  BY <1>3 DEF process_unsorted, unsorted_done, Carve, Stop, heapVars
<1>4. CASE best_fit \/ search_bins \/ bins_done
  BY <1>4 DEF best_fit, search_bins, bins_done, Carve, Stop, heapVars
<1>5. CASE malloc_retry
  BY <1>5 DEF malloc_retry, Consolidate, Stop, heapVars
<1>6. CASE realloc_moved
  BY <1>6 DEF realloc_moved, Stop, heapVars
<1>7. CASE free_fast \/ free_chunk \/ malloc_consolidate
  BY <1>7 DEF free_fast, free_chunk, malloc_consolidate, consolidate_chunk, Coalesce, Stop, heapVars
<1>8. ASSUME NEW L \in Label, ablib_malloc(L) \/ ablib_calloc(L) PROVE unit' = unit
  BY <1>8 DEF ablib_malloc, ablib_calloc, Enter, checked_request2size, vars, heapVars
<1>9. CASE ablib_free
  BY <1>9 DEF ablib_free, Frees, Enter, heapVars
<1>10. CASE ablib_realloc
  BY <1>10 DEF ablib_realloc, Frees, Enter, Realloc, checked_request2size, vars, Stop, heapVars
<1> QED BY <1>1, <1>2, <1>3, <1>4, <1>5, <1>6, <1>7, <1>8, <1>9, <1>10 DEF Next, Serve

\* What __malloc_alloc has ruled out when it makes one.
LEMMA AllocNeeded ==
  ASSUME HeapParts, malloc_alloc
  PROVE  /\ Quick(call.label) = {}
         /\ \A p \in Binned(Mst) \cup {top[u] : u \in Units} : Size(p) < call.nb
<1>1. pc = "top" /\ ~Mst.fast /\ \A u \in Units : ~HasRoom(u)
  BY DEF malloc_alloc
<1>2. call.label \in Label /\ Mst = av[call.label]
  BY DEF HeapParts, TypeOK, Call, Mst
<1>3. Quick(call.label) = {}
  BY <1>1, <1>2 DEF HeapParts, Flagged, Quick, QuickOf
<1>4. \A p \in Binned(Mst) : Size(p) < call.nb
  BY <1>1 DEF HeapParts, CallOK
<1>5. ASSUME NEW u \in Units PROVE Size(top[u]) < call.nb
  <2>1. u \in 1..Len(top)
    BY HeapOf DEF Units, HeapParts, TypeOK
  <2>2. chunksize(mem, top[u]) \in Nat
    <3>1. top[u] \in Tiles(FreeChunks, UsedChunks, top)
      BY <2>1, HeapOf, TopsDiffer
    <3> QED BY <3>1, ChunkIs, UnitSize DEF ChunkSize, MINSIZE
  <2>3. call.nb \in Nat
    BY DEF HeapParts, TypeOK, Call
  <2> QED BY <1>1, <1>5, <2>2, <2>3 DEF HasRoom, EndsAt, Size
<1> QED BY <1>3, <1>4, <1>5

\* A unit is made only if nothing free of the label, fast chunks included,
\* could have served the request.
THEOREM UnitsWhenNeeded == Spec /\ []~exhausted => UnitWhenNeeded
<1>1. ASSUME Sound, ~exhausted, [Next]_vars
      PROVE  [Len(unit') > Len(unit) =>
                /\ Quick(call.label) = {}
                /\ \A p \in Binned(Mst) \cup {top[u] : u \in Units} : Size(p) < call.nb]_vars
  <2>1. CASE UNCHANGED vars
    BY <2>1
  <2>2. CASE malloc_alloc
    BY <1>1, <2>2, AllocNeeded DEF Sound
  <2>3. CASE Next /\ ~malloc_alloc
    <3>1. unit' = unit
      BY <1>1, <2>3, MakesUnit DEF Sound
    <3>2. Len(unit) \in Nat
      BY <1>1, HeapOf DEF Sound
    <3> QED BY <3>1, <3>2
  <2> QED BY <1>1, <2>1, <2>2, <2>3
<1> QED BY <1>1, AlwaysSound, PTL DEF Spec, UnitWhenNeeded

---------------------------------------------------------------------------
(* The chunk level implements Blocks                                       *)

\* The memory of a block, and of all blocks.
BlockOf(c) == [addr |-> c.p + 8, len |-> c.nb - 4, label |-> c.label]
InUse      == {BlockOf(c) : c \in live}

\* Blocks lv lie in the chunks U of a heap whose units have the labels un.
Placed(m, U, tp, un, lv) ==
  /\ un \in Seq(Label) /\ Len(un) = Len(tp)
  /\ \A c \in lv : /\ c.p \in U /\ c.label \in Label /\ c.nb \in Nat /\ c.nb >= 16
                   /\ c.nb <= chunksize(m, c.p) /\ un[UnitOf(c.p)] = c.label

\* The bytes of the block in a chunk are between the two sizes around it.
LEMMA BlockBytes ==
  ASSUME NEW m, NEW F, NEW U, NEW tp, IsHeap(m, tp), Layout(m, F, U, tp),
         NEW un, NEW lv, Placed(m, U, tp, un, lv), NEW c \in lv
  PROVE  /\ c.p \in Nat /\ c.p + 8 \in Nat /\ c.nb - 4 \in Nat \ {0}
         /\ B!BytesOf(BlockOf(c)) = (c.p + 8)..(c.p + c.nb + 3)
         /\ UnitOf(c.p) \in 1..Len(un) /\ Base(UnitOf(c.p)) \in Nat
         /\ Base(UnitOf(c.p)) <= c.p /\ c.p + c.nb + 3 < Base(UnitOf(c.p)) + UNIT_SIZE
         /\ c.p + 8 \in B!Byte
<1> DEFINE p == c.p
           nb == c.nb
           s == chunksize(m, p)
<1>1. /\ nb \in Nat /\ nb >= 16 /\ nb <= s /\ p \in Tiles(F, U, tp) /\ Len(un) = Len(tp)
  BY DEF Placed, Tiles
<1>2. ChunkAt(m, F, U, tp, p)
  BY <1>1, ChunkFacts
<1>3. /\ p \in Nat /\ s \in Nat /\ UnitOf(p) \in 1..Len(un) /\ Base(UnitOf(p)) \in Nat
      /\ Base(UnitOf(p)) <= p /\ p + s <= Base(UnitOf(p)) + UNIT_SIZE - 16
      /\ p + s \in Addr
  BY <1>1, <1>2 DEF ChunkAt
<1>4. BlockOf(c).addr = p + 8 /\ BlockOf(c).len = nb - 4
  BY DEF BlockOf
<1> HIDE DEF p, nb, s
<1>5. B!BytesOf(BlockOf(c)) = (p + 8)..(p + nb + 3)
  <2>1. p + 8 + (nb - 4) - 1 = p + nb + 3
    BY <1>1, <1>3
  <2> QED BY <1>4, <2>1 DEF B!BytesOf
<1>6. p + nb + 3 < Base(UnitOf(p)) + UNIT_SIZE
  BY <1>1, <1>3, UnitSize
<1>7. p + 8 \in B!Byte
  <2>1. p + s < MaxUnits * UNIT_SIZE /\ MaxUnits * UNIT_SIZE \in Nat
    <3>1. MaxUnits * UNIT_SIZE \in Nat
      BY UnitSize
    <3>2. PICK i \in 0..((MaxUnits * UNIT_SIZE) \div 4 - 1) : p + s = 4 * i
      BY <1>3 DEF Addr
    <3> DEFINE X == MaxUnits * UNIT_SIZE
    <3>3. X \in Nat /\ i \in 0..(X \div 4 - 1)
      BY <3>1, <3>2
    <3> HIDE DEF X
    <3>4. 4 * i < X
      BY <3>3
    <3> QED BY <3>1, <3>2, <3>4 DEF X
  <2> QED BY <1>1, <1>3, <2>1 DEF B!Byte
<1>8. p + 8 \in Nat /\ nb - 4 \in Nat \ {0}
  BY <1>1, <1>3
<1> QED BY <1>3, <1>5, <1>6, <1>7, <1>8, Zenon DEF p, nb

\* Each block is in a unit of its label, and shares no byte with another one.
LEMMA BlocksApart ==
  ASSUME NEW m, NEW F, NEW U, NEW tp, IsHeap(m, tp), Layout(m, F, U, tp),
         NEW un, NEW lv, Placed(m, U, tp, un, lv), NEW c \in lv
  PROVE  /\ BlockOf(c) \in B!BlockRec /\ B!Fits(BlockOf(c), un)
         /\ \A d \in lv : d.p # c.p => B!BytesOf(BlockOf(c)) \cap B!BytesOf(BlockOf(d)) = {}
<1> DEFINE u == UnitOf(c.p)
<1>1. BlockOf(c).label = c.label /\ c.label \in Label /\ un[u] = c.label /\ un \in Seq(Label)
  BY DEF BlockOf, Placed
<1>2. BlockOf(c) \in B!BlockRec
  BY <1>1, BlockBytes DEF BlockOf, B!BlockRec
<1>3. B!Fits(BlockOf(c), un)
  <2>1. u \in DOMAIN un /\ u \in Nat
    BY <1>1, BlockBytes
  <2>2. u * UNIT_SIZE = Base(u) + UNIT_SIZE /\ (u - 1) * UNIT_SIZE = Base(u)
    <3> HIDE DEF u
    <3> QED BY <2>1, UnitSize DEF Base
  <2>3. /\ c.p \in Nat /\ c.nb \in Nat /\ Base(u) \in Nat /\ Base(u) <= c.p
        /\ c.p + c.nb + 3 < Base(u) + UNIT_SIZE
        /\ B!BytesOf(BlockOf(c)) = (c.p + 8)..(c.p + c.nb + 3)
    BY BlockBytes DEF Placed
  <2> HIDE DEF u
  <2>5. B!BytesOf(BlockOf(c)) \subseteq ((u - 1) * UNIT_SIZE)..(u * UNIT_SIZE - 1)
    <3> DEFINE lo == (u - 1) * UNIT_SIZE
               hi == u * UNIT_SIZE
    <3>1. lo = Base(u) /\ hi = Base(u) + UNIT_SIZE
      BY <2>2
    <3> HIDE DEF lo, hi
    <3>2. (c.p + 8)..(c.p + c.nb + 3) \subseteq lo..(hi - 1)
      BY <2>3, <3>1, UnitSize
    <3>3. B!BytesOf(BlockOf(c)) \subseteq lo..(hi - 1)
      BY <2>3, <3>2, Zenon
    <3> QED BY <3>3 DEF lo, hi
  <2> QED BY <1>1, <2>1, <2>5 DEF B!Fits
<1>4. ASSUME NEW d \in lv, d.p # c.p
      PROVE  B!BytesOf(BlockOf(c)) \cap B!BytesOf(BlockOf(d)) = {}
  <2>1. /\ c.p \in Tiles(F, U, tp) /\ d.p \in Tiles(F, U, tp)
        /\ c.nb \in Nat /\ d.nb \in Nat
        /\ c.nb <= chunksize(m, c.p) /\ d.nb <= chunksize(m, d.p)
    BY DEF Placed, Tiles
  <2>2. /\ c.p < d.p => c.p + chunksize(m, c.p) <= d.p
        /\ d.p < c.p => d.p + chunksize(m, d.p) <= c.p
        /\ chunksize(m, c.p) \in Nat /\ chunksize(m, d.p) \in Nat
    BY <2>1, ChunkFacts DEF ChunkAt
  <2>3. /\ c.p \in Nat /\ d.p \in Nat
        /\ B!BytesOf(BlockOf(c)) = (c.p + 8)..(c.p + c.nb + 3)
        /\ B!BytesOf(BlockOf(d)) = (d.p + 8)..(d.p + d.nb + 3)
    BY BlockBytes
  <2>4. ASSUME NEW x \in (c.p + 8)..(c.p + c.nb + 3), NEW y \in (d.p + 8)..(d.p + d.nb + 3)
        PROVE  x # y
    BY <1>4, <2>1, <2>2, <2>3
  <2> QED BY <2>3, <2>4, Zenon
<1> QED BY <1>2, <1>3, <1>4

\* The blocks of the clients are placed, now and after a step.
LEMMA LivePlaced ==
  ASSUME HeapParts
  PROVE  Placed(mem, UsedChunks, top, unit, live)
BY LiveFacts, HeapOf DEF Placed, HeapParts, TypeOK

\* The same after the step.
LEMMA LivePlacedNext ==
  ASSUME HeapParts'
  PROVE  /\ Placed(mem', UsedChunks', top', unit', live')
         /\ IsHeap(mem', top') /\ Layout(mem', FreeChunks', UsedChunks', top')
         /\ \A c, d \in live' : c.p = d.p => c = d
<1>1. TypeOK' /\ LiveOK' /\ Layout(mem', FreeChunks', UsedChunks', top')
  BY DEF HeapParts
<1>2. /\ \A c \in live' : c.nb >= 16 /\ c.nb <= chunksize(mem', c.p) /\ unit'[UnitOf(c.p)] = c.label
      /\ \A c, d \in live' : c.p = d.p => c = d
  BY <1>1 DEF LiveOK, Size, MINSIZE
<1>3. /\ IsHeap(mem', top') /\ unit' \in Seq(Label) /\ Len(unit') = Len(top')
      /\ \A c \in live' : c.label \in Label /\ c.nb \in Nat
  BY <1>1 DEF TypeOK, IsHeap
<1>4. \A c \in live' : c.p \in UsedChunks'
  BY UsedIsNext DEF LiveAt
<1> QED BY <1>1, <1>2, <1>3, <1>4 DEF Placed

\* What a step of a call can do to the blocks and to the units.
MayGrow(L) == unit' = unit \/ unit' = Append(unit, L)
Quiet      == live' = live /\ \E L \in Label : MayGrow(L)
Adds(c)    == live' = live \cup {c} /\ MayGrow(c.label)
Drops(c)   == live' = live \ {c} /\ unit' = unit
Moves(c, d) == live' = (live \ {c}) \cup {d} /\ d.label = c.label /\ unit' = unit
BlockStep  ==
  \/ Quiet
  \/ \E c : Adds(c)
  \/ \E c \in live : Drops(c)
  \/ \E c \in live : \E d : Moves(c, d)

\* ablib_malloc returns a chunk: to the client, or to ablib_realloc.
LEMMA GotBlock ==
  ASSUME HeapParts, NEW m, NEW p, Got(m, p), MayGrow(call.label)
  PROVE  BlockStep
<1>1. call.label \in Label
  BY DEF HeapParts, TypeOK, Call
<1>2. CASE call.op = "realloc"
  BY <1>1, <1>2 DEF Got, BlockStep, Quiet
<1>3. CASE call.op # "realloc"
  <2> DEFINE b == Block(p, call.want, call.label)
  <2>1. live' = live \cup {b} /\ b.label = call.label
    BY <1>3 DEF Got, Block
  <2> HIDE DEF b
  <2>2. Adds(b)
    BY <2>1 DEF Adds
  <2> QED BY <2>2 DEF BlockStep
<1> QED BY <1>2, <1>3

\* A block is replaced by one of the same label.
LEMMA ReplacedBlock ==
  ASSUME NEW c \in live, NEW p, NEW nb, Replace(c, p, nb), unit' = unit
  PROVE  BlockStep
<1> DEFINE b == Block(p, nb, c.label)
<1>1. live' = (live \ {c}) \cup {b} /\ b.label = c.label
  BY DEF Replace, Block
<1> HIDE DEF b
<1>2. Moves(c, b)
  BY <1>1 DEF Moves
<1> QED BY <1>2 DEF BlockStep

\* Every step is one of these.
LEMMA StepKinds ==
  ASSUME HeapParts, Next
  PROVE  BlockStep
<1>0. Label # {} /\ call.label \in Label
  BY DEF HeapParts, TypeOK, Call
<1>1. ASSUME live' = live, unit' = unit PROVE BlockStep
  BY <1>0, <1>1 DEF BlockStep, Quiet, MayGrow
<1>2. ASSUME NEW m, NEW p, Got(m, p), unit' = unit PROVE BlockStep
  BY <1>2, GotBlock DEF MayGrow
<1>3. ASSUME NEW c \in live, Frees(c) PROVE BlockStep
  <2>1. Drops(c)
    BY <1>3 DEF Frees, Enter, Drops, heapVars
  <2> QED BY <2>1 DEF BlockStep
<1>4. CASE use_unit_top
  <2>1. PICK u \in Units :
          IF Wild(mem, top[u]) THEN Stop("wild")
          ELSE Got(CarvedMem(mem, top[u], chunksize(mem, top[u]), call.nb), top[u])
               /\ UNCHANGED <<av, unit>>
    BY <1>4 DEF use_unit_top
  <2>2. CASE Wild(mem, top[u])
    BY <1>1, <2>1, <2>2 DEF Stop, heapVars
  <2>3. CASE ~Wild(mem, top[u])
    BY <1>2, <2>1, <2>3
  <2> QED BY <2>2, <2>3
<1>5. CASE malloc_fast
  BY <1>2, <1>5 DEF malloc_fast
<1>6. CASE malloc_small
  BY <1>2, <1>6 DEF malloc_small
<1>7. CASE malloc_search
  BY <1>1, <1>7 DEF malloc_search, Consolidate, heapVars
<1>8. CASE process_unsorted
  BY <1>1, <1>2, <1>8 DEF process_unsorted, Carve, Stop, heapVars
<1>9. CASE unsorted_done \/ bins_done \/ malloc_retry
  BY <1>1, <1>9 DEF unsorted_done, bins_done, malloc_retry, Consolidate, Stop, heapVars
<1>10. CASE best_fit
  BY <1>1, <1>2, <1>10 DEF best_fit, Carve, Stop, heapVars
<1>11. CASE search_bins
  BY <1>1, <1>2, <1>11 DEF search_bins, Carve, Stop, heapVars
<1>12. CASE malloc_alloc
  <2>1. CASE Stop("nomem")
    BY <1>1, <2>1 DEF Stop, heapVars
  <2>2. CASE unit' = Append(unit, call.label) /\ live' = live
    BY <1>0, <2>2 DEF BlockStep, Quiet, MayGrow
  <2>3. ASSUME NEW m, NEW p, Got(m, p), unit' = Append(unit, call.label) PROVE BlockStep
    BY <2>3, GotBlock DEF MayGrow
  <2> QED BY <1>12, <2>1, <2>2, <2>3 DEF malloc_alloc
<1>13. CASE realloc_moved
  <2>1. PICK c \in live :
          \/ Stop("wild")
          \/ Shrink(c, chunksize(mem, c.p) + chunksize(mem, call.p), call.nb)
          \/ Replace(c, call.p, call.nb)
    BY <1>13 DEF realloc_moved
  <2>2. unit' = unit
    BY <1>13 DEF realloc_moved, Stop, heapVars
  <2> QED BY <1>1, <2>1, <2>2, ReplacedBlock DEF Shrink, Stop
<1>14. CASE free_fast \/ free_chunk
  BY <1>1, <1>14 DEF free_fast, free_chunk, Coalesce, Stop, heapVars
<1>15. CASE malloc_consolidate
  BY <1>1, <1>15 DEF malloc_consolidate, consolidate_chunk, Coalesce, Stop, heapVars
<1>16. ASSUME NEW L \in Label, ablib_malloc(L) \/ ablib_calloc(L) PROVE BlockStep
  BY <1>1, <1>16 DEF ablib_malloc, ablib_calloc, Enter, checked_request2size, vars, heapVars
<1>17. CASE ablib_free
  BY <1>3, <1>17 DEF ablib_free
<1>18. CASE ablib_realloc
  <2>1. PICK c \in live, b \in Requests :
          \/ Frees(c) \/ checked_request2size(b) \/ Realloc(c, request2size(b))
    BY <1>18 DEF ablib_realloc
  <2>2. CASE Frees(c) \/ checked_request2size(b)
    BY <1>1, <1>3, <2>2 DEF checked_request2size, vars, heapVars
  <2>3. CASE Realloc(c, request2size(b))
    <3>1. \/ unit' = unit /\ live' = live
          \/ unit' = unit /\ Replace(c, c.p, request2size(b))
      BY <2>3 DEF Realloc, Shrink, Stop, heapVars
    <3> QED BY <1>1, <3>1, ReplacedBlock
  <2> QED BY <2>1, <2>2, <2>3
<1> QED
  BY <1>4, <1>5, <1>6, <1>7, <1>8, <1>9, <1>10, <1>11, <1>12, <1>13, <1>14, <1>15, <1>16, <1>17, <1>18
  DEF Next, Serve

\* The same blocks.
LEMMA InUseIs == \A b : b \in InUse <=> \E c \in live : b = BlockOf(c)
BY DEF InUse

\* The same blocks, after the step.
LEMMA InUseIsNext == \A b : b \in InUse' <=> \E c \in live' : b = BlockOf(c)
BY DEF InUse

\* Blocks at different addresses differ.
LEMMA BlockAt ==
  ASSUME HeapParts, NEW c \in live, NEW d \in live, BlockOf(c) = BlockOf(d)
  PROVE  c = d
<1>1. c.p + 8 = d.p + 8
  BY DEF BlockOf
<1>2. c.p = d.p
  BY <1>1, LiveFacts
<1> QED BY <1>2, LiveFacts

\* A new block is disjoint from those that stay.
LEMMA NewApart ==
  ASSUME HeapParts', NEW c \in live'
  PROVE  /\ BlockOf(c) \in B!BlockRec /\ B!Fits(BlockOf(c), unit')
         /\ \A d \in live' : d # c => B!BytesOf(BlockOf(c)) \cap B!BytesOf(BlockOf(d)) = {}
<1>1. /\ Placed(mem', UsedChunks', top', unit', live')
      /\ IsHeap(mem', top') /\ Layout(mem', FreeChunks', UsedChunks', top')
      /\ \A d \in live' : c.p = d.p => c = d
  BY LivePlacedNext
<1>2. /\ BlockOf(c) \in B!BlockRec /\ B!Fits(BlockOf(c), unit')
      /\ \A d \in live' : d.p # c.p => B!BytesOf(BlockOf(c)) \cap B!BytesOf(BlockOf(d)) = {}
  BY <1>1, BlocksApart
<1> QED BY <1>1, <1>2

\* Each of them is a step of Blocks, or none.
LEMMA BlocksStep ==
  ASSUME HeapParts, HeapParts', BlockStep
  PROVE  B!BlocksNext \/ (unit' = unit /\ InUse' = InUse)
<1>1. CASE Quiet
  <2>1. InUse' = InUse
    BY <1>1 DEF Quiet, InUse
  <2>2. PICK L \in Label : MayGrow(L)
    BY <1>1 DEF Quiet
  <2>3. CASE unit' = Append(unit, L)
    <3>1. B!Fail(L)
      BY <2>1, <2>3 DEF B!Fail, InUse, BlockOf
    <3> QED BY <3>1 DEF B!BlocksNext
  <2> QED BY <2>1, <2>2, <2>3 DEF MayGrow
<1>2. ASSUME NEW c, Adds(c), c \notin live PROVE B!BlocksNext
  <2> DEFINE b == BlockOf(c)
  <2>1. live' = live \cup {c} /\ MayGrow(c.label) /\ c \in live'
    BY <1>2 DEF Adds
  <2>2. b.label = c.label
    BY DEF BlockOf
  <2>3. InUse' = InUse \cup {b}
    <3>1. ASSUME NEW x PROVE x \in InUse' <=> x \in InUse \cup {b}
      BY <2>1, InUseIs, InUseIsNext
    <3> QED BY <3>1
  <2>4. \A x \in InUse : B!BytesOf(b) \cap B!BytesOf(x) = {}
    BY <1>2, <2>1, NewApart, InUseIs
  <2>5. b \in B!BlockRec /\ B!Fits(b, unit')
    BY <2>1, NewApart
  <2> HIDE DEF b
  <2>6. B!Alloc(b) /\ b \in InUse'
    BY <2>1, <2>2, <2>3, <2>4, <2>5 DEF B!Alloc, B!Grow, B!Disjoint, MayGrow, InUse, BlockOf
  <2> QED BY <2>6 DEF B!BlocksNext, InUse, BlockOf
<1>3. ASSUME NEW c \in live, live' = live \ {c}, unit' = unit PROVE B!BlocksNext
  <2> DEFINE b == BlockOf(c)
  <2>1. b \in InUse /\ InUse' = InUse \ {b}
    <3>1. ASSUME NEW x PROVE x \in InUse' <=> x \in InUse \ {b}
      BY <1>3, InUseIs, InUseIsNext, BlockAt
    <3> QED BY <3>1, InUseIs
  <2> HIDE DEF b
  <2>2. B!Free(b)
    BY <1>3, <2>1 DEF B!Free, InUse, BlockOf
  <2> QED BY <2>1, <2>2 DEF B!BlocksNext, InUse, BlockOf
<1>4. ASSUME NEW c \in live, NEW d, Moves(c, d), d \notin live \ {c} PROVE B!BlocksNext
  <2> DEFINE b == BlockOf(c)
             e == BlockOf(d)
  <2>1. live' = (live \ {c}) \cup {d} /\ unit' = unit /\ d \in live'
    BY <1>4 DEF Moves
  <2>2. e.label = b.label
    BY <1>4 DEF BlockOf, Moves
  <2>3. b \in InUse /\ InUse' = (InUse \ {b}) \cup {e} /\ e \in InUse'
    <3>1. ASSUME NEW x PROVE x \in InUse' <=> x \in (InUse \ {b}) \cup {e}
      BY <2>1, InUseIs, InUseIsNext, BlockAt
    <3> QED BY <2>1, <3>1, InUseIs, InUseIsNext
  <2>4. \A x \in InUse \ {b} : B!BytesOf(e) \cap B!BytesOf(x) = {}
    <3>1. \A x \in InUse \ {b} : \E y \in live \ {c} : x = BlockOf(y)
      BY InUseIs
    <3>2. \A y \in live \ {c} : y \in live' /\ y # d
      BY <1>4, <2>1
    <3> QED BY <2>1, <3>1, <3>2, NewApart
  <2>5. e \in B!BlockRec /\ B!Fits(e, unit')
    BY <2>1, NewApart
  <2> HIDE DEF b, e
  <2>6. B!Resize(b, e)
    BY <2>1, <2>2, <2>3, <2>4, <2>5 DEF B!Resize, B!Grow, B!Disjoint, InUse, BlockOf
  <2> QED BY <2>3, <2>6 DEF B!BlocksNext, InUse, BlockOf
<1>5. ASSUME NEW c, Adds(c) PROVE B!BlocksNext \/ (unit' = unit /\ InUse' = InUse)
  <2>1. CASE c \notin live
    BY <1>2, <1>5, <2>1
  <2>2. CASE c \in live
    <3>1. c.label \in Label /\ live' = live
      BY <1>5, <2>2, LiveFacts DEF Adds
    <3> QED BY <1>1, <1>5, <3>1 DEF Adds, Quiet
  <2> QED BY <2>1, <2>2
<1>6. ASSUME NEW c \in live, NEW d, Moves(c, d) PROVE B!BlocksNext
  <2>1. CASE d \notin live \ {c}
    BY <1>4, <1>6, <2>1
  <2>2. CASE d \in live \ {c}
    <3>1. live' = live \ {c} /\ unit' = unit
      BY <1>6, <2>2 DEF Moves
    <3> QED BY <1>3, <3>1
  <2> QED BY <2>1, <2>2
<1>7. ASSUME NEW c \in live, Drops(c) PROVE B!BlocksNext
  BY <1>3, <1>7 DEF Drops
<1> QED BY <1>1, <1>5, <1>6, <1>7 DEF BlockStep

\* What BlocksSafe says of the blocks in use.
LEMMA HeapBlocks ==
  ASSUME HeapParts
  PROVE  B!BlocksSafe
<1>1. Placed(mem, UsedChunks, top, unit, live)
  BY LivePlaced
<1>2. IsHeap(mem, top) /\ Layout(mem, FreeChunks, UsedChunks, top)
  BY HeapOf
<1>3. \A c \in live : B!Fits(BlockOf(c), unit)
  BY <1>1, <1>2, BlocksApart
<1>4. \A c, d \in live : c # d => B!BytesOf(BlockOf(c)) \cap B!BytesOf(BlockOf(d)) = {}
  <2>1. \A c, d \in live : c # d => c.p # d.p
    BY LiveFacts
  <2> QED BY <1>1, <1>2, <2>1, BlocksApart
<1>5. /\ \A b \in InUse : B!Fits(b, unit)
      /\ \A b, e \in InUse : b # e => B!BytesOf(b) \cap B!BytesOf(e) = {}
  BY <1>3, <1>4, InUseIs
<1> QED BY <1>5 DEF B!BlocksSafe, InUse, BlockOf

\* No two blocks of clients share a byte, and each lies in a unit of its label.
THEOREM HeapBlocksSafe == Spec => [](~exhausted => B!BlocksSafe)
<1>1. Sound => (~exhausted => B!BlocksSafe)
  BY HeapBlocks DEF Sound
<1> QED BY <1>1, AlwaysSound, PTL

\* Clients see what Blocks promises: disjoint blocks, as long as asked for, in
\* units of their label, whatever the chunk level does underneath.
THEOREM HeapImplementsBlocks == Spec /\ []~exhausted => BlocksSpec
<1> DEFINE bs == {[addr |-> c.p + 8, len |-> c.nb - 4, label |-> c.label] : c \in live}
<1>1. Init => B!BlocksInit
  BY DEF Init, B!BlocksInit
<1>2. ASSUME Sound, ~exhausted, Sound', ~exhausted', [Next]_vars
      PROVE  [B!BlocksNext]_<<unit, bs>>
  <2>1. HeapParts /\ HeapParts'
    BY <1>2 DEF Sound
  <2>2. InUse = bs /\ InUse' = bs'
    BY DEF InUse, BlockOf
  <2>3. CASE UNCHANGED vars
    BY <2>3 DEF vars, heapVars
  <2>4. CASE Next
    <3>1. B!BlocksNext \/ (unit' = unit /\ InUse' = InUse)
      BY <2>1, <2>4, StepKinds, BlocksStep
    <3> QED BY <2>2, <3>1
  <2> QED BY <1>2, <2>3, <2>4
<1> QED BY <1>1, <1>2, AlwaysSound, PTL DEF Spec, BlocksSpec, B!BlocksSpec
=============================================================================
