------------------------------- MODULE AbHeap -------------------------------
(***************************************************************************)
(* The chunk level of the labelled allocator: ablib_malloc, ablib_free,    *)
(* ablib_realloc, ablib_calloc and __malloc_consolidate on the boundary    *)
(* tags, bins and unit tops of the brk units of the channel heap.          *)
(*                                                                         *)
(* Memory is an array of 4-byte words.  A word is a size or prev_size      *)
(* field, or DATA: bytes that are a client's, or nobody's.  Chunk p has    *)
(* prev_size at p, size at p + 4 and its memory from p + 8 up to and       *)
(* including the prev_size of the next chunk.  A list of chunks is the     *)
(* sequence from first (fd) to last (bk).  The sizes that the build fixes  *)
(* (a unit of 10 pages, 32 small bins and so on) are constants here.       *)
(* Requests of mmap_threshold and more make a unit of their own: see       *)
(* Arbiter.                                                                *)
(*                                                                         *)
(* The arbiter serves one call at a time.  A call takes a step for each    *)
(* stage of the code and for each iteration of its loops; pc says where it *)
(* is.                                                                     *)
(***************************************************************************)
EXTENDS Integers, Sequences, FiniteSets, SequencesExt

CONSTANTS
  Label,      \* labels of requests
  UNIT_SIZE,  \* PAGE_PER_UNIT pages, which is mmap_threshold as well
  MaxUnits,   \* units the channel heap has room for
  MXFAST,     \* get_max_fast: the largest chunk of a fastbin
  MIN_LARGE_SIZE,  \* the smallest chunk of a large bin
  LOG_PER,    \* 2^LOG_PER large bins from each size to its double
  NBINS,      \* number of bins
  WIDTH,      \* bits of size_t
  Requests,   \* numbers of bytes that clients ask for
  Elements,   \* numbers of elements and their sizes that clients ask for
  MaxLive     \* bounds on the chunks of each label in use at a time

MINSIZE == 16
FASTBIN_CONSOLIDATION_THRESHOLD == UNIT_SIZE \div 2

REQUEST_OUT_OF_RANGE(b) == b >= 2^WIDTH - 2 * MINSIZE

\* Mutant: the size is not aligned.
request2size_unaligned(b) == IF b + 4 < MINSIZE THEN MINSIZE ELSE b + 4

request2size(b) ==
  IF b + 4 + 7 < MINSIZE THEN MINSIZE ELSE ((b + 4 + 7) \div 8) * 8

Bins == 2..(NBINS - 1)
Fast == {s \in MINSIZE..MXFAST : s % 8 = 0}
fastbin(s) == 8 * (s \div 8)                     \* fastbin_index
in_smallbin_range(s) == s < MIN_LARGE_SIZE
smallbin_index(s) == s \div 8

\* The position of the highest bit of s / MIN_LARGE_SIZE, and the bits next to it
HighBit(x) == CHOOSE m \in 0..WIDTH : 2^m <= x /\ x < 2^(m + 1)
largebin_index(s) ==
  LET m == HighBit(s \div MIN_LARGE_SIZE)
  IN  (MIN_LARGE_SIZE \div 8) + 2^LOG_PER * m
        + (((s * 2^LOG_PER) \div (2^m * MIN_LARGE_SIZE)) % 2^LOG_PER)
bin_index(s) == IF in_smallbin_range(s) THEN smallbin_index(s) ELSE largebin_index(s)

\* n elements of e bytes; 0 if their product does not fit size_t
CallocSize(n, e) ==
  LET size == (n * e) % 2^WIDTH
  IN  IF n # 0 /\ e # size \div n THEN 0 ELSE size

\* No request takes the mmap path.
Serves(b) == REQUEST_OUT_OF_RANGE(b) \/ request2size(b) < UNIT_SIZE

ASSUME HeapAssumption ==
  /\ Label # {}
  /\ UNIT_SIZE \in Nat /\ UNIT_SIZE % 8 = 0 /\ UNIT_SIZE >= 48
  /\ MaxUnits \in Nat \ {0}
  /\ {MXFAST, MIN_LARGE_SIZE} \subseteq Nat /\ MXFAST < MIN_LARGE_SIZE
  /\ MaxLive \in [Label -> Nat]
  /\ 2^WIDTH \in Nat \ {0}
  /\ \A n, e \in Elements : {n, e} \subseteq 0..(2^WIDTH - 1)
                            /\ Serves(CallocSize(n, e))
  /\ \A b \in Requests : b \in 0..(2^WIDTH - 1) /\ Serves(b)

\* There are bins enough for the chunks of a unit, they are in order of size,
\* and a small bin holds one size.
ChunkSize == {s \in MINSIZE..UNIT_SIZE : s % 8 = 0}
ASSUME BinAssumption ==
  \A s \in ChunkSize :
    /\ bin_index(s) \in Bins
    /\ \A t \in ChunkSize :
         s < t => /\ bin_index(s) <= bin_index(t)
                  /\ in_smallbin_range(s) => bin_index(s) < bin_index(t)

VARIABLES
  mem,    \* the words of the heap
  av,     \* the mstate of each label
  unit,   \* labels of the units, in address order
  top,    \* unit_top of each unit
  live,   \* chunks in use (history): chunk, padded size asked for, label
  pc,     \* where the call being served is; "idle" between calls, or how the
          \* arbiter stopped: "abort" (unlink, or an assertion on chunks),
          \* "nomem" (the heap has no room for a unit) or "wild" (a word that
          \* is no tag taken for one; what happens then is left open)
  call,   \* the call being served
  exhausted \* was a unit_top used up to less than MINSIZE? (history)

heapVars == <<mem, av, unit, top>>
vars     == <<heapVars, live, pc, call, exhausted>>

DATA == -1
Nil  == -1
Addr == {4 * i : i \in 0..((MaxUnits * UNIT_SIZE) \div 4 - 1)}
Chunk == {a \in Addr : a % 8 = 0}
UnitOf(p) == (p \div UNIT_SIZE) + 1                \* lookup_ustate_by_mem
Base(u)   == (u - 1) * UNIT_SIZE

\* any, fast: ANYCHUNKS_BIT and FASTCHUNKS_BIT of max_fast
Mstate == [any : BOOLEAN, fast : BOOLEAN,
           fastbins : [Fast -> Seq(Chunk)], unsorted : Seq(Chunk),
           bins : [Bins -> Seq(Chunk)], binmap : SUBSET Bins,
           last_remainder : Chunk \cup {Nil}]
NoMstate == [any |-> FALSE, fast |-> FALSE,
             fastbins |-> [s \in Fast |-> <<>>], unsorted |-> <<>>,
             bins |-> [i \in Bins |-> <<>>], binmap |-> {},
             last_remainder |-> Nil]

Stages == {"malloc", "unsorted", "bins", "top", "moved", "free", "consolidate"}
Stops  == {"abort", "nomem", "wild"}

\* nb: the padded size, want: the one the client means
\* p: the chunk in hand, old: the one to be reallocated
\* ret: what comes after __malloc_consolidate
Call == [op : {"malloc", "calloc", "realloc", "free"}, label : Label, nb : Nat,
         want : Nat, p : Chunk \cup {Nil}, old : Chunk \cup {Nil},
         ret : {"idle", "malloc", "unsorted"}]
NoCall == [op |-> "free", label |-> CHOOSE L \in Label : TRUE, nb |-> 0,
           want |-> 0, p |-> Nil, old |-> Nil, ret |-> "idle"]

TypeOK ==
  /\ mem \in [Addr -> Nat \cup {DATA}]
  /\ av \in [Label -> Mstate]
  /\ unit \in Seq(Label) /\ Len(unit) <= MaxUnits
  /\ top \in Seq(Chunk) /\ Len(top) = Len(unit)
  /\ live \subseteq [p : Chunk, nb : Nat, label : Label]
  /\ pc \in {"idle"} \cup Stages \cup Stops
  /\ call \in Call
  /\ exhausted \in BOOLEAN

Init ==
  /\ mem = [a \in Addr |-> DATA]
  /\ av = [L \in Label |-> NoMstate]
  /\ unit = <<>>
  /\ top = <<>>
  /\ live = {}
  /\ pc = "idle"
  /\ call = NoCall
  /\ exhausted = FALSE

---------------------------------------------------------------------------
(* Tags: ablib_malloc.h, on the words m of a memory                        *)

chunksize(m, p)  == (m[p + 4] \div 4) * 4
prev_inuse(m, p) == m[p + 4] % 2 = 1
next_chunk(m, p) == p + chunksize(m, p)
inuse(m, p)      == prev_inuse(m, next_chunk(m, p))
set_head(m, p, s, bit) == [m EXCEPT ![p + 4] = s + bit]
set_head_size(m, p, s) == set_head(m, p, s, m[p + 4] % 2)
set_inuse_bit_at_offset(m, p, s) == [m EXCEPT ![p + s + 4] = 2 * (@ \div 2) + 1]

\* The foot of an untouched top is the word below the fenceposts, which
\* nobody reads and the model does not keep.
DeadWord(a) == a % UNIT_SIZE = UNIT_SIZE - 16

\* Mutant: no foot.
set_foot_missing(m, p, s) == m

set_foot(m, p, s) == IF DeadWord(p + s) THEN m ELSE [m EXCEPT ![p + s] = s]

\* The size field of chunk p is no tag.
Wild(m, p) == p + 4 \notin Addr \/ m[p + 4] = DATA

\* The words from a to b are no tags any more.
Forget(m, a, b) == [w \in Addr |-> IF w \in a..b THEN DATA ELSE m[w]]

\* chunk2mem: from here on the client may write what it asked for, nb bytes of
\* chunk p with the overhead.  Words of the chunk beyond that keep their value.
Return(m, p, nb) == Forget(m, p + 8, p + nb)

---------------------------------------------------------------------------
(* Lists of chunks, of the mstate a                                        *)

Binned(a) == ToSet(a.unsorted) \cup UNION {ToSet(a.bins[i]) : i \in Bins}

Without(s, p) ==
  IF p \in ToSet(s) THEN RemoveAt(s, CHOOSE i \in DOMAIN s : s[i] = p) ELSE s

\* Mutant: the chunk stays on a bin's list.
unlink_kept(a, p) == [a EXCEPT !.unsorted = Without(@, p)]

\* The code aborts unless the chunk is on a list.
unlink(a, p) ==
  [a EXCEPT !.unsorted = Without(@, p),
            !.bins = [i \in Bins |-> Without(a.bins[i], p)]]

\* Mutant: the bin is not marked.
PlaceInBin_unmarked(a, m, v) ==
  [a EXCEPT !.bins[bin_index(chunksize(m, v))] = <<v>> \o @]

\* Where a chunk goes in its bin: small bins take it first, large ones are
\* sorted, largest first.  The sizes compared carry PREV_INUSE.
PlaceInBin(a, m, v) ==
  LET size == chunksize(m, v)
      i    == bin_index(size)
      bin  == a.bins[i]
      raw(k) == m[bin[k] + 4]
      pos  == IF in_smallbin_range(size) \/ bin = <<>> THEN 1
              ELSE IF size < raw(Len(bin)) THEN Len(bin) + 1
              ELSE CHOOSE k \in DOMAIN bin :
                     size + 1 >= raw(k) /\ \A j \in 1..(k - 1) : size + 1 < raw(j)
  IN  [a EXCEPT !.bins[i] = InsertAt(bin, pos, v), !.binmap = @ \cup {i}]

---------------------------------------------------------------------------
(* The call being served                                                   *)

Mst == av[call.label]
SetMstate(a) == av' = [av EXCEPT ![call.label] = a]

GoTo(stage) == pc' = stage /\ UNCHANGED call
Done == pc' = "idle" /\ call' = NoCall

\* A call that stops the arbiter does not end, and what it did before is left
\* out.
Stop(why) == pc' = why /\ UNCHANGED <<heapVars, live, call, exhausted>>

Block(p, nb, L) == [p |-> p, nb |-> nb, label |-> L]

\* clearsize bytes from the start of the memory
Clear(m, p) == Forget(m, p + 8, p + 8 + (chunksize(m, p) - 4) - 4)

\* ablib_malloc returns the memory of chunk p to its caller.
Got(m, p) ==
  \/ /\ call.op = "realloc"
     /\ mem' = Return(m, p, call.nb)
     /\ pc' = "moved" /\ call' = [call EXCEPT !.p = p]
     /\ UNCHANGED live
  \/ /\ call.op # "realloc"
     /\ LET r == Return(m, p, call.nb)
        IN  mem' = IF call.op = "calloc" THEN Clear(r, p) ELSE r
     /\ live' = live \cup {Block(p, call.want, call.label)}
     /\ Done

---------------------------------------------------------------------------
(* ablib_free.c                                                            *)

\* A chunk p that is to be free is merged with its free neighbours, and t is
\* the top of its unit: where the result begins, and how long it is.
Front_of(m, p) == IF prev_inuse(m, p) THEN p ELSE p - m[p]
TakesNext(m, p, t) == next_chunk(m, p) = t \/ ~inuse(m, next_chunk(m, p))
MergedSize(m, p, t) ==
  (next_chunk(m, p) - Front_of(m, p))
    + (IF TakesNext(m, p, t) THEN chunksize(m, next_chunk(m, p)) ELSE 0)

\* One of the tags that say so is none.
WildMerge(m, p, t) ==
  LET n == next_chunk(m, p)
  IN  \/ Wild(m, p) \/ Wild(m, n)
      \/ n # t /\ Wild(m, next_chunk(m, n))
      \/ ~prev_inuse(m, p) /\ m[p] = DATA

MergedMem(m, p, t) ==
  LET f    == Front_of(m, p)
      n    == next_chunk(m, p)
      size == MergedSize(m, p, t)
      m1   == IF n = t THEN set_head(m, f, size, 1)
              ELSE set_foot(set_head(set_head(m, n, chunksize(m, n), 0), f, size, 1), f, size)
  IN  Forget(m1, f + 8, f + size - 4)

\* The neighbours leave their lists; the result goes to the unsorted list
\* unless it becomes the top.
MergedLists(a, m, p, t) ==
  LET f  == Front_of(m, p)
      n  == next_chunk(m, p)
      a1 == IF prev_inuse(m, p) THEN a ELSE unlink(a, f)
      a2 == IF n = t \/ inuse(m, n) THEN a1 ELSE unlink(a1, n)
  IN  IF n = t THEN a2 ELSE [a2 EXCEPT !.unsorted = <<f>> \o @]

\* unlink finds the neighbours on their lists.
Unlinks(a, m, p, t) ==
  /\ ~prev_inuse(m, p) => Front_of(m, p) \in Binned(a)
  /\ next_chunk(m, p) # t /\ TakesNext(m, p, t) => next_chunk(m, p) \in Binned(a)

\* Chunk p, which is on no list of a, is merged; keep says whether fast chunks
\* are still to be consolidated.
Coalesce(a, p, keep) ==
  LET t == top[UnitOf(p)]
      b == MergedLists(a, mem, p, t)
  IN  /\ mem' = MergedMem(mem, p, t)
      /\ SetMstate([b EXCEPT !.fast = keep])
      /\ top' = IF next_chunk(mem, p) = t
                THEN [top EXCEPT ![UnitOf(p)] = Front_of(mem, p)] ELSE top
      /\ UNCHANGED <<unit, live, exhausted>>

\* A small chunk goes to its fastbin.
free_fast ==
  /\ pc = "free"
  /\ ~Wild(mem, call.p)
  /\ chunksize(mem, call.p) <= MXFAST
  /\ SetMstate([Mst EXCEPT !.any = TRUE, !.fast = TRUE,
                           !.fastbins[fastbin(chunksize(mem, call.p))] = <<call.p>> \o @])
  /\ Done
  /\ UNCHANGED <<mem, unit, top, live, exhausted>>

\* Another one is merged with its neighbours; if the result is long, fast
\* chunks are consolidated, too.
free_chunk ==
  /\ pc = "free"
  /\ Wild(mem, call.p) \/ chunksize(mem, call.p) > MXFAST
  /\ LET t == top[UnitOf(call.p)]
         a == [Mst EXCEPT !.any = TRUE]
         more == /\ MergedSize(mem, call.p, t) >= FASTBIN_CONSOLIDATION_THRESHOLD
                 /\ Mst.fast
     IN  IF WildMerge(mem, call.p, t) THEN Stop("wild")
         ELSE IF ~Unlinks(a, mem, call.p, t) THEN Stop("abort")
         ELSE /\ Coalesce(a, call.p, Mst.fast /\ ~more)
              /\ IF more THEN pc' = "consolidate" /\ call' = [NoCall EXCEPT !.label = call.label]
                 ELSE Done

\* Mutant: the fastbin keeps the chunk.
consolidate_chunk_kept(s) ==
  LET p == Head(Mst.fastbins[s])
  IN  IF WildMerge(mem, p, top[UnitOf(p)]) THEN Stop("wild")
      ELSE IF ~Unlinks(Mst, mem, p, top[UnitOf(p)]) THEN Stop("abort")
      ELSE Coalesce(Mst, p, FALSE) /\ UNCHANGED <<pc, call>>

\* The first chunk of fastbin s
consolidate_chunk(s) ==
  LET p == Head(Mst.fastbins[s])
      a == [Mst EXCEPT !.fastbins[s] = Tail(@)]
  IN  IF WildMerge(mem, p, top[UnitOf(p)]) THEN Stop("wild")
      ELSE IF ~Unlinks(a, mem, p, top[UnitOf(p)]) THEN Stop("abort")
      ELSE Coalesce(a, p, FALSE) /\ UNCHANGED <<pc, call>>

\* __malloc_consolidate for an mstate that is in use: the fastbins in order
\* of size, each from its first chunk.  FASTCHUNKS_BIT was cleared first.
malloc_consolidate ==
  /\ pc = "consolidate"
  /\ \/ \E s \in Fast :
          /\ Mst.fastbins[s] # <<>>
          /\ \A r \in Fast : r < s => Mst.fastbins[r] = <<>>
          /\ consolidate_chunk(s)
     \/ /\ \A s \in Fast : Mst.fastbins[s] = <<>>
        /\ IF call.ret = "idle" THEN Done
           ELSE pc' = call.ret /\ call' = [call EXCEPT !.ret = "idle"]
        /\ UNCHANGED <<heapVars, live, exhausted>>

---------------------------------------------------------------------------
(* ablib_malloc.c                                                          *)

Consolidate(ret) ==
  /\ SetMstate([Mst EXCEPT !.fast = FALSE])
  /\ pc' = "consolidate" /\ call' = [call EXCEPT !.ret = ret]
  /\ UNCHANGED <<mem, unit, top, live, exhausted>>

FastHit  == call.nb <= MXFAST /\ Mst.fastbins[call.nb] # <<>>
SmallHit == in_smallbin_range(call.nb) /\ Mst.bins[bin_index(call.nb)] # <<>>

\* A chunk of exactly this size, if something was ever freed.
malloc_fast ==
  /\ pc = "malloc"
  /\ Mst.any /\ FastHit
  /\ SetMstate([Mst EXCEPT !.fastbins[call.nb] = Tail(@)])
  /\ Got(mem, Head(Mst.fastbins[call.nb]))
  /\ UNCHANGED <<unit, top, exhausted>>

malloc_small ==
  /\ pc = "malloc"
  /\ Mst.any /\ ~FastHit /\ SmallHit
  /\ LET i == bin_index(call.nb)
         v == Last(Mst.bins[i])
     IN  /\ SetMstate([Mst EXCEPT !.bins[i] = Front(@)])
         /\ Got(set_inuse_bit_at_offset(mem, v, call.nb), v)
  /\ UNCHANGED <<unit, top, exhausted>>

\* A large request consolidates the fast chunks.
malloc_search ==
  /\ pc = "malloc"
  /\ \/ /\ ~Mst.any
        /\ GoTo("top")
        /\ UNCHANGED <<heapVars, live, exhausted>>
     \/ /\ Mst.any /\ ~FastHit /\ ~SmallHit
        /\ in_smallbin_range(call.nb) \/ ~Mst.fast
        /\ GoTo("unsorted")
        /\ UNCHANGED <<heapVars, live, exhausted>>
     \/ /\ Mst.any /\ ~FastHit /\ ~SmallHit
        /\ ~in_smallbin_range(call.nb) /\ Mst.fast
        /\ Consolidate("unsorted")

\* The first nb bytes of chunk v, which is size long, serve the request; what
\* remains is a free chunk, or the top, unless it is too short.
CarvedMem(m, v, size, nb) ==
  IF size - nb < MINSIZE THEN set_inuse_bit_at_offset(m, v, size)
  ELSE set_foot(set_head(set_head(m, v, nb, 1), v + nb, size - nb, 1), v + nb, size - nb)

\* The remainder of a free chunk goes to the unsorted list.
CarvedLists(a, v, size, nb, advertise) ==
  IF size - nb < MINSIZE THEN a
  ELSE [a EXCEPT !.unsorted = <<v + nb>>,
                 !.last_remainder = IF advertise THEN v + nb ELSE @]

Carve(a, v, advertise) ==
  LET size == chunksize(mem, v)
  IN  /\ SetMstate(CarvedLists(a, v, size, call.nb, advertise))
      /\ Got(CarvedMem(mem, v, size, call.nb), v)
      /\ UNCHANGED <<unit, top, exhausted>>

\* Among the chunks of a list is one whose size is no tag.
WildIn(s) == \E v \in ToSet(s) : Wild(mem, v)

\* The unsorted list, from its last chunk: take the last remainder or an exact
\* fit, bin the others.
process_unsorted ==
  /\ pc = "unsorted"
  /\ Mst.unsorted # <<>>
  /\ LET v    == Last(Mst.unsorted)
         size == chunksize(mem, v)
         a    == [Mst EXCEPT !.unsorted = Front(@)]
         last == /\ in_smallbin_range(call.nb) /\ Len(Mst.unsorted) = 1
                 /\ v = Mst.last_remainder /\ size > call.nb + MINSIZE
     IN  IF Wild(mem, v) \/ WildIn(Mst.bins[bin_index(size)]) THEN Stop("wild")
         ELSE \/ last /\ Carve(a, v, TRUE)
              \/ /\ ~last /\ size = call.nb
                 /\ SetMstate(a)
                 /\ Got(set_inuse_bit_at_offset(mem, v, size), v)
                 /\ UNCHANGED <<unit, top, exhausted>>
              \/ /\ ~last /\ size # call.nb
                 /\ SetMstate(PlaceInBin(a, mem, v))
                 /\ UNCHANGED <<mem, unit, top, live, pc, call, exhausted>>

unsorted_done ==
  /\ pc = "unsorted"
  /\ Mst.unsorted = <<>>
  /\ GoTo("bins")
  /\ UNCHANGED <<heapVars, live, exhausted>>

\* A search by size ends at chunk v.
EndsAt(v) == Wild(mem, v) \/ chunksize(mem, v) >= call.nb

\* A large request takes the smallest chunk of its own bin that fits.
FitsInBin(k) ==
  LET bin == Mst.bins[bin_index(call.nb)]
  IN  /\ ~in_smallbin_range(call.nb)
      /\ k \in DOMAIN bin /\ EndsAt(bin[k])
      /\ \A j \in DOMAIN bin : j > k => ~EndsAt(bin[j])

best_fit ==
  /\ pc = "bins"
  /\ \E k \in DOMAIN Mst.bins[bin_index(call.nb)] :
       /\ FitsInBin(k)
       /\ LET v == Mst.bins[bin_index(call.nb)][k]
          IN  IF Wild(mem, v) THEN Stop("wild") ELSE Carve(unlink(Mst, v), v, FALSE)

\* A larger bin: the lowest marked one that is not empty.  Marks of empty
\* bins on the way are cleared.
Marked == {i \in Mst.binmap : i > bin_index(call.nb)}
Filled == {i \in Marked : Mst.bins[i] # <<>>}
NoFit  ==
  \/ in_smallbin_range(call.nb)
  \/ \A v \in ToSet(Mst.bins[bin_index(call.nb)]) : ~EndsAt(v)

search_bins ==
  /\ pc = "bins" /\ NoFit
  /\ \E i \in Filled :
       /\ \A j \in Filled : i <= j
       /\ LET v == Last(Mst.bins[i])
              a == [Mst EXCEPT !.bins[i] = Front(@),
                               !.binmap = @ \ {j \in Marked \ Filled : j < i}]
          IN  IF Wild(mem, v) THEN Stop("wild")
              ELSE IF chunksize(mem, v) < call.nb THEN Stop("abort")     \* assert
              ELSE Carve(a, v, in_smallbin_range(call.nb))

bins_done ==
  /\ pc = "bins" /\ NoFit
  /\ Filled = {}
  /\ SetMstate([Mst EXCEPT !.binmap = @ \ Marked])
  /\ GoTo("top")
  /\ UNCHANGED <<mem, unit, top, live, exhausted>>

\* Mutant: units of any label.
Units_any == DOMAIN unit

\* The first unit of the label, oldest first, whose top has room; the top
\* moves by nb whatever remains.
Units      == {u \in DOMAIN unit : unit[u] = call.label}
HasRoom(u) == u \in Units /\ EndsAt(top[u])

use_unit_top ==
  /\ pc = "top"
  /\ \E u \in Units :
       /\ HasRoom(u) /\ \A w \in Units : w < u => ~HasRoom(w)
       /\ IF Wild(mem, top[u]) THEN Stop("wild")
          ELSE LET v    == top[u]
                   size == chunksize(mem, v)
               IN  /\ top' = [top EXCEPT ![u] = v + call.nb]
                   /\ exhausted' = (exhausted \/ size - call.nb < MINSIZE)
                   /\ Got(CarvedMem(mem, v, size, call.nb), v)
                   /\ UNCHANGED <<av, unit>>

\* Mutant: no second try after fast chunks are consolidated.
malloc_retry_top ==
  /\ pc = "top"
  /\ \A u \in Units : ~HasRoom(u)
  /\ Mst.fast
  /\ IF in_smallbin_range(call.nb) THEN Consolidate("top") ELSE Stop("abort")

\* __malloc_alloc consolidates and calls ablib_malloc again.
malloc_retry ==
  /\ pc = "top"
  /\ \A u \in Units : ~HasRoom(u)
  /\ Mst.fast
  /\ IF in_smallbin_range(call.nb) THEN Consolidate("malloc") ELSE Stop("abort") \* assert

\* __malloc_alloc, brk path: a new unit, closed by two fenceposts.  It stays,
\* but the call fails, if it is too short for the request.
UnitMem(m, b) ==
  LET size == UNIT_SIZE - 16
  IN  [m EXCEPT ![b + 4] = size + 1, ![b + size + 4] = 4 + 1, ![b + size + 8] = 4 + 1]

malloc_alloc ==
  /\ pc = "top"
  /\ \A u \in Units : ~HasRoom(u)
  /\ ~Mst.fast
  /\ LET u    == Len(unit) + 1
         b    == Base(u)
         size == UNIT_SIZE - 16
         m    == UnitMem(mem, b)
     IN  \/ u > MaxUnits /\ Stop("nomem")                      \* assert
         \/ /\ u <= MaxUnits /\ size < call.nb + MINSIZE
            /\ unit' = Append(unit, call.label)
            /\ top' = Append(top, b)
            /\ mem' = m
            /\ Done
            /\ UNCHANGED <<av, live, exhausted>>
         \/ /\ u <= MaxUnits /\ size >= call.nb + MINSIZE
            /\ unit' = Append(unit, call.label)
            /\ top' = Append(top, b + call.nb)
            /\ Got(set_head(set_head(m, b, call.nb, 1), b + call.nb, size - call.nb, 1), b)
            /\ UNCHANGED <<av, exhausted>>

---------------------------------------------------------------------------
(* ablib_realloc.c, for a chunk of a brk unit                              *)

\* The block c of a client becomes one of nb bytes at p.
Replace(c, p, nb) == live' = (live \ {c}) \cup {Block(p, nb, c.label)}

\* Mutant: what is left over is not freed.
Shrink_lost(c, newsize, nb) ==
  /\ mem' = Return(set_head_size(mem, c.p, nb), c.p, nb)
  /\ Replace(c, c.p, nb)
  /\ Done

\* Chunk c.p has come to newsize bytes; what nb does not need is freed.
Shrink(c, newsize, nb) ==
  LET rem == newsize - nb
      r   == c.p + nb
  IN  /\ Replace(c, c.p, nb)
      /\ \/ /\ rem < MINSIZE
            /\ mem' = Return(set_inuse_bit_at_offset(set_head_size(mem, c.p, newsize),
                                                     c.p, newsize), c.p, nb)
            /\ Done
         \/ /\ rem >= MINSIZE
            /\ mem' = set_inuse_bit_at_offset(
                        set_head(Return(set_head_size(mem, c.p, nb), c.p, nb), r, rem, 1), r, rem)
            /\ pc' = "free" /\ call' = [NoCall EXCEPT !.label = c.label, !.p = r]

\* realloc of block c to nb bytes: in place, into the top or the free chunk
\* behind it, or by ablib_malloc.
Realloc(c, nb) ==
  LET size == chunksize(mem, c.p)
      next == next_chunk(mem, c.p)
      u    == UnitOf(c.p)
      both == size + chunksize(mem, next)
      ToTop  == next = top[u] /\ both >= nb + MINSIZE
      ToNext == next # top[u] /\ ~inuse(mem, next) /\ both >= nb
      wild   == \/ Wild(mem, c.p)
                \/ size < nb /\ Wild(mem, next)
                \/ size < nb /\ next # top[u] /\ Wild(mem, next_chunk(mem, next))
  IN  IF wild THEN Stop("wild")
      ELSE \/ /\ size >= nb
              /\ Shrink(c, size, nb)
              /\ UNCHANGED <<av, unit, top, exhausted>>
           \/ /\ size < nb /\ ToTop
              /\ mem' = Return(set_head(set_head_size(mem, c.p, nb), c.p + nb, both - nb, 1),
                               c.p, nb)
              /\ top' = [top EXCEPT ![u] = c.p + nb]
              /\ Replace(c, c.p, nb)
              /\ UNCHANGED <<av, unit, pc, call, exhausted>>
           \/ /\ size < nb /\ ToNext
              /\ IF next \notin Binned(av[c.label]) THEN Stop("abort")
                 ELSE /\ av' = [av EXCEPT ![c.label] = unlink(@, next)]
                      /\ Shrink(c, both, nb)
                      /\ UNCHANGED <<unit, top, exhausted>>
           \/ /\ size < nb /\ ~ToTop /\ ~ToNext
              /\ pc' = "malloc"
              /\ call' = [NoCall EXCEPT !.op = "realloc", !.label = c.label, !.nb = nb,
                                        !.want = nb, !.old = c.p]
              /\ UNCHANGED <<heapVars, live, exhausted>>

\* ablib_malloc has returned chunk call.p: the chunk behind the old one, which
\* is extended, or one to copy to.
realloc_moved ==
  /\ pc = "moved"
  /\ \E c \in live :
       /\ c.p = call.old
       /\ IF Wild(mem, c.p) \/ Wild(mem, call.p) THEN Stop("wild")
          ELSE \/ /\ call.p = next_chunk(mem, c.p)
                  /\ Shrink(c, chunksize(mem, c.p) + chunksize(mem, call.p), call.nb)
                  /\ UNCHANGED <<av, unit, top, exhausted>>
               \/ /\ call.p # next_chunk(mem, c.p)
                  /\ Replace(c, call.p, call.nb)
                  /\ pc' = "free" /\ call' = [NoCall EXCEPT !.label = c.label, !.p = c.p]
                  /\ UNCHANGED <<heapVars, exhausted>>

---------------------------------------------------------------------------
(* The calls, as the arbiter's handlers make them one after the other      *)

\* checked_request2size returns from the middle of the caller, with the lock
\* held.  The arbiter is linked without libpthread, whose place the C library
\* takes with a mutex that never blocks; the model leaves the lock out.
checked_request2size(b) == REQUEST_OUT_OF_RANGE(b) /\ UNCHANGED vars

MayHave(L) == Cardinality({c \in live : c.label = L}) < MaxLive[L]

\* The call of a client begins.
Enter(stage, c) ==
  /\ pc' = stage /\ call' = c
  /\ UNCHANGED <<heapVars, exhausted>>

ablib_malloc(L) ==
  /\ pc = "idle"
  /\ \E b \in Requests \ {0} :
       \/ checked_request2size(b)
       \/ /\ ~REQUEST_OUT_OF_RANGE(b)
          /\ MayHave(L)
          /\ Enter("malloc", [NoCall EXCEPT !.op = "malloc", !.label = L,
                                            !.nb = request2size(b), !.want = request2size(b)])
          /\ UNCHANGED live

ablib_calloc(L) ==
  /\ pc = "idle"
  /\ \E n, e \in Elements :
       LET b == CallocSize(n, e)
       IN  \/ checked_request2size(b)
           \/ /\ b # 0 /\ ~REQUEST_OUT_OF_RANGE(b)
              /\ MayHave(L)
              /\ Enter("malloc", [NoCall EXCEPT !.op = "calloc", !.label = L,
                                                !.nb = request2size(b),
                                                !.want = request2size(n * e)])
              /\ UNCHANGED live

\* The client frees a chunk it was given.
Frees(c) ==
  /\ Enter("free", [NoCall EXCEPT !.label = c.label, !.p = c.p])
  /\ live' = live \ {c}

ablib_free == pc = "idle" /\ \E c \in live : Frees(c)

\* A new size of 0 frees the memory.
ablib_realloc ==
  /\ pc = "idle"
  /\ \E c \in live, b \in Requests :
       \/ b = 0 /\ Frees(c)
       \/ b # 0 /\ checked_request2size(b)
       \/ b # 0 /\ ~REQUEST_OUT_OF_RANGE(b) /\ Realloc(c, request2size(b))

Serve ==
  \/ malloc_fast \/ malloc_small \/ malloc_search
  \/ process_unsorted \/ unsorted_done
  \/ best_fit \/ search_bins \/ bins_done
  \/ use_unit_top \/ malloc_retry \/ malloc_alloc
  \/ realloc_moved
  \/ free_fast \/ free_chunk \/ malloc_consolidate

Next ==
  \/ \E L \in Label : ablib_malloc(L) \/ ablib_calloc(L)
  \/ ablib_free
  \/ ablib_realloc
  \/ Serve

Spec == Init /\ [][Next]_vars

---------------------------------------------------------------------------
(* Properties                                                              *)

Quick(L)   == UNION {ToSet(av[L].fastbins[s]) : s \in Fast}
FreeChunks == UNION {Binned(av[L]) : L \in Label}

\* The chunk that the call has in hand
Held == IF pc \in {"free", "moved"} THEN {call.p} ELSE {}

UsedChunks == (UNION {Quick(L) : L \in Label}) \cup {c.p : c \in live} \cup Held
Chunks     == FreeChunks \cup UsedChunks
Size(p)    == chunksize(mem, p)
Tops       == ToSet(top)

\* The chunks in use, those on the lists and the top fill each unit without
\* overlap: the walk from the start of the unit by chunk sizes meets exactly
\* them (malloc, free, realloc and consolidation together lose nothing and
\* hand out nothing twice), until a unit_top is exhausted.
Tiled ==
  ~exhausted =>
    /\ \A u \in DOMAIN unit :
         /\ Base(u) \in Chunks \cup {top[u]}
         /\ top[u] + Size(top[u]) = Base(u) + UNIT_SIZE - 16
    /\ \A p \in Chunks :
         /\ Size(p) >= MINSIZE
         /\ p + Size(p) \in Chunks \cup {top[UnitOf(p)]}
         /\ \A q \in Chunks : q + Size(q) = p + Size(p) => q = p

\* "All procedures maintain the invariant that no consolidated chunk
\* physically borders another one" (ablib_malloc.h), nor the top; and the tags
\* that free will trust say so: PREV_INUSE is clear behind a free chunk only,
\* and the word below it holds the size.
BoundaryTags ==
  ~exhausted =>
    /\ \A p \in FreeChunks :
         /\ p + Size(p) \notin FreeChunks \cup Tops
         /\ mem[p + Size(p)] = Size(p)
    /\ \A p \in Chunks \cup Tops :
         prev_inuse(mem, p) <=> \A q \in FreeChunks : q + Size(q) # p

\* A chunk is on one list only, the one of its label and size; a bin that is
\* not empty is marked in binmap, and the flags in max_fast never hide a
\* chunk.
ListsRight ==
  ~exhausted =>
    \A L \in Label :
      LET m == av[L]
      IN  /\ IsInjective(m.unsorted)
          /\ \A i \in Bins :
               /\ IsInjective(m.bins[i])
               /\ m.bins[i] # <<>> => i \in m.binmap /\ m.any
               /\ \A p \in ToSet(m.bins[i]) :
                    bin_index(Size(p)) = i /\ p \notin ToSet(m.unsorted)
          /\ \A s \in Fast :
               /\ IsInjective(m.fastbins[s])
               /\ m.fastbins[s] # <<>> =>
                    m.any /\ (m.fast \/ (pc = "consolidate" /\ call.label = L))
               /\ \A p \in ToSet(m.fastbins[s]) : Size(p) = s /\ p \notin FreeChunks
          /\ m.unsorted # <<>> => m.any
          /\ \A p \in Binned(m) \cup Quick(L) :
               unit[UnitOf(p)] = L /\ p \notin {c.p : c \in live} \cup Held

\* Until a unit_top is exhausted no assertion on chunks fails, unlink finds
\* every chunk on its list, and no size or bit is read from a word that is no
\* tag.
NeverCorrupt == pc \in {"abort", "wild"} => exhausted

\* A new unit is made only if nothing free of the label could have served the
\* request, fast chunks included ("consolidate and retry malloc from scratch
\* rather than getting memory from system", __malloc_alloc).
UnitWhenNeeded ==
  [][Len(unit') > Len(unit) =>
       /\ Quick(call.label) = {}
       /\ \A p \in Binned(Mst) \cup {top[u] : u \in Units} : Size(p) < call.nb]_vars

\* The allocator keeps what Blocks promises: memory in use is disjoint, as
\* long as asked for, and lies in a unit of its label.
B == INSTANCE Blocks WITH
       owner  <- unit,
       blocks <- {[addr |-> c.p + 8, len |-> c.nb - 4, label |-> c.label] : c \in live}
BlocksSpec == B!BlocksSpec
=============================================================================
