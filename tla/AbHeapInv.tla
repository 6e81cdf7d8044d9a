------------------------------ MODULE AbHeapInv ------------------------------
(***************************************************************************)
(* The inductive invariant of AbHeap, until a unit_top is exhausted.       *)
(*                                                                         *)
(* The chunks of the heap are a tiling of its units: F are the free chunks *)
(* on bins and the unsorted list, U those that carry memory in use, fast   *)
(* chunks and the chunk in hand included, and tp the tops.                 *)
(***************************************************************************)
EXTENDS AbHeap

UnitEnd(u) == Base(u) + UNIT_SIZE - 16

\* Chunks with the sizes sz fill n units.
Tiling(sz, n) ==
  /\ \A p \in DOMAIN sz :
       /\ p \in Nat /\ p % 8 = 0
       /\ sz[p] \in Nat /\ sz[p] % 8 = 0 /\ sz[p] >= MINSIZE
       /\ UnitOf(p) \in 1..n
       /\ p + sz[p] <= UnitEnd(UnitOf(p))
       /\ p + sz[p] = UnitEnd(UnitOf(p)) \/ p + sz[p] \in DOMAIN sz
       /\ \A q \in DOMAIN sz : p < q => p + sz[p] <= q
  /\ \A u \in 1..n : Base(u) \in DOMAIN sz

SizesOf(m, A) == [p \in A |-> chunksize(m, p)]

\* The tags in memory m say which chunks there are.
Tagged(m, F, A) ==
  /\ \A p \in A : m[p + 4] \in Nat
  /\ \A p \in A : prev_inuse(m, p) <=> \A q \in F : next_chunk(m, q) # p
  /\ \A p \in F : m[next_chunk(m, p)] = chunksize(m, p)

Layout(m, F, U, tp) ==
  LET A == F \cup U \cup ToSet(tp)
  IN  /\ Tiling(SizesOf(m, A), Len(tp))
      /\ Tagged(m, F, A)
      /\ F \cap U = {}
      /\ \A p \in F : next_chunk(m, p) \in U
      /\ \A p \in U : next_chunk(m, p) # UnitEnd(UnitOf(p))
      /\ \A u \in 1..Len(tp) : UnitOf(tp[u]) = u /\ next_chunk(m, tp[u]) = UnitEnd(u)

LiveOK ==
  /\ \A c \in live :
       /\ c.nb >= MINSIZE /\ c.nb <= Size(c.p)
       /\ unit[UnitOf(c.p)] = c.label
  /\ \A c, d \in live : c.p = d.p => c = d

\* The call in progress is for memory.
Asks == \/ pc \in {"malloc", "unsorted", "bins", "top", "moved"}
        \/ pc = "consolidate" /\ call.ret # "idle"

CallOK ==
  /\ pc \notin {"abort", "wild"}
  /\ Asks => /\ call.nb \in ChunkSize /\ call.nb < UNIT_SIZE
             /\ call.want = call.nb
             /\ call.op = "realloc" =>
                  \E c \in live : c.p = call.old /\ c.label = call.label
  /\ Held \cap {c.p : c \in live} = {}
  /\ Held # {} => call.p \in Chunk /\ unit[UnitOf(call.p)] = call.label
  /\ pc = "moved" => call.op = "realloc" /\ Size(call.p) >= call.nb
  /\ pc = "consolidate" /\ call.ret = "unsorted" => ~in_smallbin_range(call.nb)
  /\ pc \in {"unsorted", "bins"} /\ in_smallbin_range(call.nb) =>
       Mst.bins[bin_index(call.nb)] = <<>>
  /\ pc = "bins" => Mst.unsorted = <<>>
  /\ pc = "top" => \A p \in Binned(Mst) : Size(p) < call.nb

\* There are fast chunks only if something was freed, and none of them is left
\* once a large request has looked for chunks ("this can occur only if nb is in
\* smallbin range", __malloc_alloc).
FlagsOK ==
  /\ \A L \in Label : av[L].fast => av[L].any
  /\ pc = "consolidate" => ~Mst.fast
  /\ pc \in {"unsorted", "bins", "top"} /\ ~in_smallbin_range(call.nb) => ~Mst.fast

\* The chunks, the lists, the blocks of the clients and the call in progress
\* agree, between any two steps of a call.
HeapInv ==
  ~exhausted =>
    /\ TypeOK
    /\ Layout(mem, FreeChunks, UsedChunks, top)
    /\ ListsRight
    /\ LiveOK
    /\ CallOK
    /\ FlagsOK
=============================================================================
