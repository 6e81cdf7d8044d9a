# ArbiterThread: specification and proofs

ArbiterThread runs the threads of an application as processes of their own and
lets a reference monitor, the *arbiter*, decide by labels what each of them may
read and write on a shared *channel heap*. Paths below are relative to
`src/arbiter/`; the kernel is `arbiter-kernel/linux-2.6.32/`.

## The system

| Part | Source | State | Operations |
|---|---|---|---|
| Labels | `monitor/label.c`, `common/include/ab_api.h` | `cat_gen` | `create_cat`, `add_onwership`, `check_label`, `check_mem_prot` |
| Arbiter | `monitor/arbiter.c`, `client.c`, `ipc.c` | `client_list` (pid, label, ownership), one datagram socket | `server_loop`, one handler per RPC |
| Allocator, units | `monitor/ablib_malloc.c`, `ablib_free.c`, `ablib_sbrk.c`, `ablib_brk.c` | `ustate_list`, `mmapped_ustate_list`, `ab_top` | make, place, protect and free units |
| Allocator, chunks | the same, `ablib_calloc.c`, `ablib_realloc.c` | one `mstate` per label: bins, unit tops | malloc, free, calloc, realloc |
| Client library | `client_module/lib_client.c` | the socket of the thread; `mutex`, `cond`, `done` | blocking RPCs, `ab_pthread_create`, `ab_fork`, `ab_pthread_join` |
| Kernel, heap control | `kernel/absys_mmap.c`, `kernel/absys_mprotect.c`, `mm/mmap.c` | VMAs of each child, `ab_brk` | `absys_mmap`, `absys_munmap`, `absys_brk`, `absys_mprotect` |
| Kernel, control group | `kernel/absys_thread_control.c`, `kernel/futex.c`, `mm/memory.c` | `ab_tasks`, `ab_identity` | join the group; share the data segment and its futexes |
| Linked list | `common/lib/linked_list.c` | nodes | insert, delete, locate, look up |

How they interact: a client sends one datagram and blocks until the reply. The
arbiter serves datagrams in order; a handler may make units by system calls
which change the address spaces of *all* children, and then corrects the
protections child by child (`prot_update` for a new unit, `malloc_update` for a
new thread). Inside the units of a label the allocator is a dlmalloc that works on
boundary tags and bins; the arbiter alone runs it. A new thread exists in three steps
that other threads' calls can fall between: `clone()` copies the parent's mappings, `AB_SET_ME_SPECIAL` puts
the child on `ab_tasks`, `ABT_FORK` puts it on `client_list`.

What makes it correct: no mapping grants what the labels forbid; protections do
not go stale while labels, ownerships, units and threads come and go; units do
not overlap; lists, kernel break and mappings agree; no byte is handed out twice, and
none of a unit of another label; calloc returns cleared memory; a call returns; a thread is
registered only once the kernel knows it. What makes it hard: the interleaving of
the three steps with allocation, threads that exit or are joined while they run,
the 8-bit category counter, the heap at its limits, tags and lists that every allocator
path has to keep, and one mutex for all creators.
`PROJECT.json` lists the hazards at their lines.

## Modules

* **`Label`** – constant-level model of `label.c`. `NSLOT` slots (8 in the code)
  and `NCAT` as the weight of the type bit (0x80) are parameters. `check_label`
  is the conjunction of the three rules its loops check; the result -1 is FALSE.
* **`Arbiter`** – clients, arbiter and kernel, one action per system call or
  handler. `mm[t][a]` is the protection of region `a` in task `t`, `"U"` if
  unmapped. A unit records its label, who had it made (`by`), whether malloc
  has returned memory of it (`given`) and whether its region still holds what an
  earlier unit left there (`old`). `chan` is the socket's queue. A handler
  that runs a protection loop keeps its datagram at the head of `chan` and goes
  through `update_step` once per `absys_mprotect`, so that clients can clone, join
  the group, exit and send in between. A realloc that moves memory is the
  allocation, with its protection loop, followed by the free of the old memory:
  `ThenFree` leaves the datagram at the head of the queue with the free still to do.
  `apc` is `"abort"` after a failed assertion
  or a null pointer in the arbiter, `"oops"` after the kernel followed the null
  `mm` of an exited task, and `"overlap"` when a unit is placed over a live one;
  the model stops there.
* **`AbHeap`** – the chunk level: what malloc, calloc, realloc and free do inside
  the brk units of a label. `mem` is the heap as an array of words, each a size
  field, a foot or `DATA`; `av` is the `mstate` of each label with its fastbins,
  unsorted list, bins and binmap; `top` is each unit's `unit_top`. The arbiter serves
  one call at a time, and a call is a sequence of steps: `ablib_malloc`, `ablib_calloc`,
  `ablib_free` or `ablib_realloc` begins it, and one action per stage or loop
  iteration of the code follows (`malloc_fast`, `malloc_small`, `malloc_search`,
  `process_unsorted`, `best_fit`, `search_bins`, `use_unit_top`, `malloc_retry`,
  `malloc_alloc`, `realloc_moved`, `free_fast`, `free_chunk`, `malloc_consolidate`, …).
  `pc` is the stage, `call` what the call carries along: its padded size, the chunk in
  hand, the old chunk of a realloc, and where to go on after `__malloc_consolidate`. A
  chunk between two stages of a call (being freed, or returned by malloc to realloc) is
  in `Held`. `live` and `exhausted` are history: the chunks handed out and whether a
  top was ever used up whole.
* **`AbHeapInv`** – the inductive invariant of `AbHeap`, which TLC checks and
  `AbHeapProofs` proves.
* **`Blocks`** – what the allocator promises, without chunks: disjoint blocks in
  units of their label. `AbHeap` implements it under the mapping `owner <- unit`,
  `blocks <-` the memory of the chunks in use, at the length that was asked for.
* **`ThreadCreate`** – the handshake of `ab_pthread_create` and `ab_fork`, one
  action per pthread call. The pthread operations are external and modelled from
  their use: an initialisation releases the mutex and forgets sleepers, a signal
  wakes at most one.
* **`LabelProofs`, `ArbiterProofs`, `HeapProofs`, `BlocksProofs`, `ThreadProofs`** –
  theorems. **`TilingProofs`** (layouts of chunks), **`ListProofs`** (the lists of an
  `mstate`) and **`AbHeapProofs`** (the steps of a call, the theorems) are those of
  `AbHeap`; each extends the one before.
* **`MCArbiter`, `MCAbHeap`, `MCThreadCreate`** – instances for TLC.

Abstractions of `Arbiter`. Every unit occupies one region of the heap, whatever its
size; size classes keep the paths of `__malloc_alloc` apart (`small`, `gap`, `large`,
`none`). Chunks in a unit are the subject of `AbHeap`; in `Arbiter` a unit with the
right label may or may not have room (`malloc_from_unit` and `malloc_brk` are both
enabled), and a realloc may or may not find room in place. A VMA of a child may
span any run of adjacent mmapped regions of equal protection, because whether
neighbours merge depends on their `anon_vma` (`Vmas`). `SCALE` stands for
`sizeof(struct malloc_chunk)`, by which `ab_top + size` is scaled; the runs use 1,
which is the choice that lets units grow furthest down. The application frees and
reallocates only memory it was given, one call at a time for the same memory, and
uses only categories that were handed out. `Init` takes
the label of the first child as empty: `init_first_child` does not set it, and in a
fresh process the memory is zero. Threads are created one at a time in `Arbiter`
(what happens otherwise is the subject of `ThreadCreate`). The targets of
`ab_pthread_join` are the tasks other than the caller and the first child, while
`lib_client.c:419` and `arbiter.c:127` take any pid. What the
application does is bounded by `MaxCreate` and the sets `Labels`, `Owns`, `Sizes` and
`Calls`. In a stop state (`abort`, `oops`, `overlap`) the effects of the interrupted
handler are left out; clients run on, but nobody serves them.

Abstractions of `AbHeap`. The sizes that the build fixes are constants: `UNIT_SIZE`
(10 pages), `MXFAST`, `MIN_LARGE_SIZE`, `LOG_PER` (the code's large bins have 2^2 per
doubling), `NBINS` and `WIDTH` (bits of `size_t`); `MINSIZE`, the alignment of 8 and
the 4 bytes of overhead are the code's. A doubly linked list is the sequence of its
chunks. A word that is no tag is `DATA`: what a client stored, or the 0 of memory nobody
wrote. A size, a foot or a bit read from it stops the model (`"wild"`), which leaves open
what follows: the arbiter may crash or go on with a size of the client's choice. When
memory is returned to a client, the words of the padded request become `DATA`, and words
of the chunk beyond it keep their value, so that a stale foot or fencepost can still be
read, as in the code. Padding counts as the client's, memory that calloc clears and memory
merged into a free chunk or a top is forgotten, and the foot of an untouched top is not
kept: in these places the model stops where the code would still find an old tag. Until a
top is exhausted none of this is read (`NeverCorrupt`). Chunks of each
label are bounded by `MaxLive`, units by `MaxUnits`; without room for a unit the
arbiter's assertion stops the model (`"nomem"`).

## Runs

| Run | Instance | Checks | Distinct states |
|---|---|---|---|
| `memory` | 2 tasks, 2 regions, labels of both types, 2 categories | `TypeOK`, `WriteFlow`, `ProtMatchesLabels`, `IInv`, `CategoryFresh` | 1 763 000 |
| `threads` | 3 tasks, 2 regions, integrity labels, join and exit, fair | `WriteFlow`, `ProtMatchesLabels`, `RegisteredServed` | 303 000 |
| `heap` | 5 regions, all size classes, malloc, calloc, realloc, free | `HeapConsistent` | 68 000 |
| `single` | 4 tasks, 1 creator, fair | `TypeOK`, `JoinedBeforeFork`, `MutualExclusion`, `CreateReturns` | 900 |
| `chunks` | 2 labels, 2 units of 104 bytes, fast and large chunks | `TypeOK`, `Tiled`, `BoundaryTags`, `NeverCorrupt`, `ListsRight`, `HeapInv`, `UnitWhenNeeded`, `BlocksSpec` | 415 000 |

What they show. `memory` and `threads`: no order of malloc, free, thread creation,
join, exit and category creation leaves a mapping the labels do not call for, and a
request of a registered client is answered. `heap`: break, unit list and list of
mmapped units agree, also when a realloc frees its old unit after making a new one.
`chunks`: every step of every sequence of calls keeps the units tiled by chunks (`Tiled`), the tags
that free trusts (`BoundaryTags`), every free chunk on the one right list
(`ListsRight`), takes no unit from the system while free memory would do
(`UnitWhenNeeded`), fails no assertion of the allocator (`NeverCorrupt`) and is a
behaviour of `Blocks` (`BlocksSpec`). `single`: see Proofs.

Why the bounds are enough: two tasks make every case of a rule that is about a
client and one other; three are needed for a thread that is created, joined or
exits while two others talk to the arbiter (`threads`, `mapping`). Two regions give
one brk unit and one mmapped unit, three give three mmapped ones (`overlap`), four
are needed for a hole between two mmapped units and five for a brk unit besides.
`heap` has one running client: its lists depend on the order of the calls, which one
client can make all, and `HeapListsAgree` covers the others. One category of a type
shows each rule; two show that numbers are not reused. A unit of 104 bytes has a top
of 88: three blocks of 16, 24 or 32 bytes side by side and what is left, so that free
meets every combination of free neighbours and the top, fast chunks get consolidated,
free chunks fall into every bin there is and are split, and a remainder is split
again. With one unit there are up to three blocks; a second unit, for the same label
or the other, is looked at with one block at a time (`BeforeExhaustion`), which is
enough for a label to find its first unit full, for realloc to move to another unit
and for one label not to touch the unit of another. The requests are 0, one of a fast
chunk, one of a large chunk and one that wraps around with `WIDTH` 8; the elements of
calloc have a product that is the smallest chunk, one that is out of range, and one
that overflows to a small number. A unit too short for a request is the subject of run
`gap`; here it is left to the proofs, as are heaps of more units and blocks. `chunks`
looks at behaviours until a `unit_top` is exhausted (and the properties say so); what
happens then is run `exhaust`. Deadlock is not checked: in `Arbiter` an application may stop
calling, and a thread whose call was dropped waits forever; in `AbHeap` the arbiter may
have stopped; in `ThreadCreate` all tasks may have been used.

Runs that end in a violation, each of one statement the repository makes
(`PROJECT.json`, "findings"):

| Run | Statement | What the code does |
|---|---|---|
| `mapping` | "wait for child to join in order to update its mapping" | a unit made between `clone()` and `AB_SET_ME_SPECIAL` stays unmapped in the child |
| `gap` | "update protection for other thread according to label comparision" | a request of more than a fresh unit's chunk and less than `mmap_threshold` leaves a unit that everyone can write |
| `overlap` | "the hole between the highest unit and channel heap end is available" | a unit that touches its neighbour is not listed, and its address is given out again |
| `category` | "ERROR: category used up" | the error value is handed out as a category, to several threads |
| `early` | "wait for child to join in order to update its mapping" | two creators share one handshake, and one registers a child that has not joined |
| `exhaust` | "We require that av->top always exists" | a request that takes the top whole leaves `unit_top` on a fencepost or inside the chunk; a foot left there is later taken for its size, and memory beyond the unit is handed out |
| `calloc` | "calloc doesn't need to actually zero anything" | the region of a freed mmapped unit is handed out again as it was left |

Not runs of their own, though the model has them: `ab_pthread_join` does not wait for
the thread (`ab_api.h:33` says "wait for thread termination", the `waitpid` is commented
out), so that a joined thread runs on, unregistered; a call made before registration or
after a join gets no reply (`unknown_client`) although `lib_client.c:58` says "the reply
struct is filled once the call is complete", which is why `RegisteredServed` speaks of
registered clients; freeing one mmapped unit unmaps the whole merged VMA in the other
children (`absys_munmap`), where `ab_os_interface.h:65` speaks of the interval. With
two creators `CreateReturns` fails as well as `JoinedBeforeFork`.

Fairness. `server_loop` is a process that the kernel schedules and that blocks only
in `recvfrom`; a thread inside `ab_pthread_create` or `_pre_start_routine` runs
code of the library. Both are weakly fair. What the application calls, and when, is
its choice and carries no fairness; neither does a failing `clone()`.

## Proofs

All theorems hold for every number of tasks, regions, slots and categories that
satisfies `LabelAssumption`, `ArbiterAssumption` or `ThreadAssumption`, and those about
`AbHeap` for every set of labels and requests, every size and number of units, every
number of blocks and every arrangement of bins that satisfies `HeapAssumption` (a
unit is a multiple of 8 bytes, at least 48; fast chunks are small; no request takes
the mmap path) and `BinAssumption` (`bin_index` gives every chunk of a unit a bin, in
order of size). TLC evaluates the assumptions for the instances of the runs.

* `TypeCorrect`: `Spec => []TypeOK`.
* `CoreInvariant`, `NoForbiddenWrite`, `MappingsMatchLabels`,
  `OwnershipGrowsFresh`: without requests of class `gap` and while category
  numbers last (`ncreate < NCAT`), `WriteFlow` and `ProtMatchesLabels` are
  invariants and ownership only grows by fresh categories. `OwnershipFresh` says so
  of whole behaviours: `CategoryFresh` holds as long as numbers last. Both assumptions
  are needed: runs `gap` and `category` show what happens without them.
* `FreshOwnKeepsProt`: a category that two labels do not mention does not change
  `check_mem_prot` between them when it is added to the ownership.
  `NoAmplification`: a thread that passed the check of `ABT_FORK` may write
  nothing its parent may not write.
* `HeapListsAgree`: `Spec => []HeapConsistent`, for all size classes.
* `BlocksStaySafe`: every behaviour of `Blocks` keeps memory in use disjoint and in
  units of its label, for every label set, unit size and number of units (it
  assumes nothing of them).
* `HeapInvInductive`, `HeapKeepsInv`: every step of a call keeps `HeapInv`, and it holds
  in every state. From it follow `HeapTypeCorrect` (`TypeOK`), `ChunksTile` (`Tiled`),
  `TagsRight` (`BoundaryTags`), `HeapNeverCorrupt` (`NeverCorrupt`), `HeapListsRight`
  (`ListsRight`) and `UnitsWhenNeeded` (`UnitWhenNeeded`).
* `HeapImplementsBlocks`: the allocator implements `Blocks`, step by step, and
  `HeapBlocksSafe`: the memory clients hold is disjoint and in units of its label.
* `HandshakeTypes`: the handshake is type correct for any set of creators.
  `HandshakeInvariant`, `ForkAfterJoin`, `HandshakeExclusive`: the handshake with
  one creator, for any number of threads.

The argument for `WriteFlow`. A protection is set once and never revisited, so it
has to stay right while its owner's ownership grows. `CatsInv` (numbers are handed
out in order) and `KnownInv` (every label, ownership and request uses numbers handed
out) make the category of `create_cat` fresh; by `FreshOwnKeepsProt` no protection
changes its meaning. New units and new clients are wrong at first and right after
the loop: `ProtInv` allows the difference for the pairs in `todo`, and `TodoInv` says
that those are units not yet given out or clients not yet settled. `ChanInv` keeps
the datagram being served, and with it the loop, unique. `KidInv` says that a thread
being registered was never registered before and had no unit made, because the
maker of a unit is exempt from `ProtInv` and needs `ByInv` instead. TLC checks the
conjunction as `IInv` in run `memory`.

The argument for `HeapConsistent`. Together with `TypeOK` it is inductive. Most steps
leave the break, the list and the kind of every unit alone (`SameHeap`). A brk unit is
made at the break where there was no unit; an mmapped one where there was no unit
either, so inserting it keeps the list without repetition wherever
`insert_mmapped_unit` puts it (`InsertedAt`); a freed one is on the list exactly once,
so deleting that entry leaves none behind. The step stops at `overlap` otherwise, which is
run `overlap`. That the list stays in address order is not claimed.

`BlocksSafe` is inductive with `BlocksTypeOK`, which bounds addresses and lengths; a
block that grows in place is disjoint from all others because `Resize` checks it
against the set without the old block.

The argument for `AbHeap`. None of the properties of run `chunks` is inductive alone:
free trusts the tags, the tags are right because every free chunk is on a list, and
the lists are right because free trusted the tags. `HeapInv` says that at once, between
any two steps of a call. `Layout` is about addresses: the free chunks, the chunks in use
(blocks, fast chunks and the one in hand) and the tops tile the units; PREV_INUSE and
the feet tell which are free; behind a free chunk is one in use. `ListsRight` is about
the lists of each label, `LiveOK` about the blocks. `CallOK` says what the call in
progress already knows (a chunk in hand belongs to nobody; after the unsorted list and
the bins no free chunk fits), and `FlagsOK` why `__malloc_alloc` may assert that a
request that finds fast chunks is small. `TilingProofs` shows once what splitting,
merging, growing and the making of a unit do to any layout, and `ListProofs` what
pushing, taking, unlinking and binning do to any `mstate`; `AbHeapProofs` has one lemma
per action that puts the two together. For the refinement, `StepKinds` says that a step
leaves the blocks alone, adds one, drops one or replaces one, and the tiling before and
after the step says that the memory is free and in the right unit.

Everything about `AbHeap` is stated until a `unit_top` is exhausted: invariants as
`~exhausted => …`, `UnitWhenNeeded` and `BlocksSpec` for behaviours with `[]~exhausted`.
That is as far as the code keeps them: in run `exhaust` the step that takes a top whole
is followed, some calls later, by one that `Blocks` does not allow. `StaysExhausted` shows that the
flag is never reset.

The handshake invariant relates the creator's and the child's control state to
`done`, to the holder of the mutex and to `ab_tasks`.

Only model-checked: `RegisteredServed` and `CreateReturns`, since liveness under fairness
is out of the prover's reach, and what the runs that end in a violation show. Every
invariant of a passing run is a theorem, and so are its action properties and the
refinement of `Blocks`, with the assumptions named above.

## Not modelled

* The malloc lock. `checked_request2size` returns with it held and `__malloc_alloc` calls
  `ablib_malloc` under it; `monitor/makefile` does not link libpthread, so whether that
  blocks depends on the C library.
* The bytes of the heap, apart from tags (`AbHeap`) and `old` (`Arbiter`), and the copying
  of realloc.
* VMA trees and `abmap_get_page`; the nodes and pointers of linked lists; units of
  different sizes on the mmap path.
* Malformed datagrams, which `_client_rpc` does not send; the values in replies; reuse of
  pids; several arbiters.
* `ab_pthread_create_old`, which the API does not use; the timer and debug output;
  tests; the vendored kernel outside the absys files.

## Plan

1. An abstract reference monitor (what a client may access at each moment) that
   `Arbiter` is shown to implement, and the proof of that refinement.
2. `MmapUnits`: units of different sizes, `get_unmapped_area` and
   `insert_mmapped_unit` on addresses, against a reference definition.
3. `LinkedList`: nodes and pointers, refining a sequence.
4. `AbSys`: VMAs of two children, refining the mapping of regions.
