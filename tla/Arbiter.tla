------------------------------ MODULE Arbiter ------------------------------
(***************************************************************************)
(* The arbiter process (monitor/), its clients (client_module/) and the    *)
(* system calls by which it controls their view of the channel heap        *)
(* (kernel/absys_*.c), at the granularity of one system call per step.     *)
(*                                                                         *)
(* The channel heap is an array of NPAGE regions of one allocation unit    *)
(* each.  Units taken with absys_brk grow from region 0 upwards, mmapped   *)
(* units lie above them.  Chunks inside a unit are not modelled here.      *)
(***************************************************************************)
EXTENDS Label, Sequences, FiniteSets

CONSTANTS
  Task,       \* pids of the clients
  Root,       \* the first child, registered by init_first_child
  NPAGE,      \* regions of the channel heap
  SCALE,      \* sizeof(struct malloc_chunk), by which ab_top + size is scaled
  Labels,     \* labels the application uses in its requests
  Owns,       \* ownerships the application passes to new threads
  Sizes,      \* classes of request sizes the application uses
  Calls,      \* what the application does
  MaxCreate   \* bound on create_category calls

\* Classes of request sizes, told apart by the path __malloc_alloc takes:
\*   "small"  a chunk that fits a unit
\*   "gap"    below mmap_threshold, yet too large for a fresh unit
\*   "large"  at least mmap_threshold: a unit of its own
\*   "none"   0 bytes, or so many that padding wraps around: no chunk
SizeClass == {"small", "gap", "large", "none"}

ASSUME ArbiterAssumption ==
  /\ Root \in Task
  /\ NPAGE \in Nat \ {0}
  /\ SCALE \in Nat \ {0}
  /\ Labels \subseteq label_t
  /\ Owns \subseteq label_t
  /\ Sizes \subseteq SizeClass
  /\ Calls \subseteq {"create_category", "malloc", "calloc", "realloc", "free",
                     "get", "join", "create", "exit"}
  /\ MaxCreate \in Nat

VARIABLES
  \* kernel
  mm,         \* mm[t][a]: protection of region a in task t, "U" if unmapped
  ab_tasks,   \* tasks on the arbiter's ab_tasks list
  ab_brk,     \* first region above the brk units
  \* clients
  pc,         \* control state of each task
  req,        \* the request each task is making, or is about to make
  chan,       \* senders of the datagrams queued at the arbiter's socket; the
              \* head is the one being served
  \* arbiter
  apc,        \* control state of server_loop
  todo,       \* absys_mprotect calls left in prot_update or malloc_update
  ptr,        \* the unit whose memory the malloc being served will return
  reg,        \* pids on client_list
  label, own, \* label and ownership of the client_desc of each pid
  cat_gen,    \* the counter of create_cat
  ncreate,    \* number of create_cat calls so far (history)
  cats,       \* categories handed out so far (history)
  unit,       \* ustate_list: the unit at each region
  mmapped     \* mmapped_ustate_list, from head to tail

kernelVars  == <<mm, ab_tasks, ab_brk>>
clientVars  == <<pc, req, chan>>
descVars    == <<reg, label, own>>
catVars     == <<cat_gen, ncreate, cats>>
unitVars    == <<unit, mmapped>>
arbiterVars == <<apc, todo, ptr, descVars, catVars, unitVars>>
vars        == <<kernelVars, clientVars, arbiterVars>>

Page == 0..(NPAGE - 1)
Prot == {"U", "N", "R", "RW"}

\* by: the pid that had the unit made
\* given: a malloc has returned memory of this unit
\* old: the region was a unit before, and the arbiter's pages of it, which
\*      abmap_get_page shows to the children, still hold what was written then
UnitRec == [kind : {"none", "brk", "mmap"}, label : label_t, by : Task,
            given : BOOLEAN, old : BOOLEAN]
NoUnit  == [kind |-> "none", label |-> Empty, by |-> Root, given |-> FALSE,
            old |-> FALSE]

\* A region whose unit is gone.  Only what calloc promises depends on old, which
\* is kept only if the application uses calloc.
GoneUnit == [NoUnit EXCEPT !.old = "calloc" \in Calls]
units   == {a \in Page : unit[a].kind # "none"}

AllocOp == {"malloc", "calloc", "realloc"}
Op     == AllocOp \cup {"create_cat", "fork", "join", "free", "get"}
Req    == [op : Op, pid : Task, label : label_t, own : label_t,
           type : {CAT_S, CAT_I}, size : SizeClass, page : Page]
NoReq  == [op |-> "get", pid |-> Root, label |-> Empty, own |-> Empty,
           type |-> CAT_S, size |-> "none", page |-> 0]

PC  == {"none", "cloned", "run", "create", "wait", "dead"}
APC == {"recv", "mprotect", "abort", "oops", "overlap"}

TypeOK ==
  /\ mm \in [Task -> [Page -> Prot]]
  /\ ab_tasks \in SUBSET Task
  /\ ab_brk \in 0..NPAGE
  /\ pc \in [Task -> PC]
  /\ req \in [Task -> Req]
  /\ chan \in Seq(Task)
  /\ apc \in APC
  /\ todo \in SUBSET (Task \X Page)
  /\ ptr \in Page
  /\ reg \in SUBSET Task
  /\ label \in [Task -> label_t]
  /\ own \in [Task -> label_t]
  /\ cat_gen \in cat_t
  /\ ncreate \in Nat
  /\ cats \in SUBSET cat_t
  /\ unit \in [Page -> UnitRec]
  /\ mmapped \in Seq(Page)

\* main: the first child has been forked, has joined the control group and
\* bound its socket.  init_first_child does not set label and ownership of its
\* client_desc; they are the zeros of memory malloc got fresh from the kernel.
Init ==
  /\ mm = [t \in Task |-> [a \in Page |-> "U"]]
  /\ ab_tasks = {Root}
  /\ ab_brk = 0
  /\ pc = [t \in Task |-> IF t = Root THEN "run" ELSE "none"]
  /\ req = [t \in Task |-> NoReq]
  /\ chan = <<>>
  /\ apc = "recv"
  /\ todo = {}
  /\ ptr = 0
  /\ reg = {Root}
  /\ label = [t \in Task |-> Empty]
  /\ own = [t \in Task |-> Empty]
  /\ cat_gen = 0
  /\ ncreate = 0
  /\ cats = {}
  /\ unit = [a \in Page |-> NoUnit]
  /\ mmapped = <<>>

---------------------------------------------------------------------------
(* Clients: lib_client.c.  A call sends one datagram and blocks.           *)

Send(t, r) ==
  /\ pc' = [pc EXCEPT ![t] = "wait"]
  /\ req' = [req EXCEPT ![t] = r]
  /\ chan' = Append(chan, t)
  /\ UNCHANGED <<kernelVars, arbiterVars>>

\* The application builds its labels from categories it was given.
Known(X) == \A i \in Slot : X[i] = 0 \/ X[i] \in cats

create_category(t) ==
  /\ "create_category" \in Calls
  /\ pc[t] = "run"
  /\ ncreate + Cardinality({u \in Task : pc[u] = "wait" /\ req[u].op = "create_cat"})
       < MaxCreate
  /\ \E ty \in {CAT_S, CAT_I} :
       Send(t, [NoReq EXCEPT !.op = "create_cat", !.type = ty])

\* ab_malloc and ab_calloc; a product of ab_calloc that overflows is of class
\* "none".  ab_realloc of a null pointer is ab_malloc with the caller's label.
ab_malloc(t) ==
  /\ pc[t] = "run"
  /\ \E op \in {"malloc", "calloc"} \cap Calls, L \in Labels, sz \in Sizes :
       /\ Known(L)
       /\ Send(t, [NoReq EXCEPT !.op = op, !.label = L, !.size = sz])

\* The application frees or reallocates memory that is allocated and that no
\* one else is freeing or reallocating at the same time.
Spare(a) ==
  /\ unit[a].given
  /\ \A u \in Task : pc[u] = "wait" /\ req[u].op \in {"free", "realloc"} => req[u].page # a

ab_free(t) ==
  /\ "free" \in Calls
  /\ pc[t] = "run"
  /\ \E a \in units :
       Spare(a) /\ Send(t, [NoReq EXCEPT !.op = "free", !.page = a])

ab_realloc(t) ==
  /\ "realloc" \in Calls
  /\ pc[t] = "run"
  /\ \E a \in units, sz \in Sizes :
       Spare(a) /\ Send(t, [NoReq EXCEPT !.op = "realloc", !.page = a, !.size = sz])

\* get_label, get_ownership, get_mem_label, ab_RPC
get_info(t) ==
  /\ "get" \in Calls
  /\ pc[t] = "run"
  /\ Send(t, NoReq)

ab_pthread_join(t) ==
  /\ "join" \in Calls
  /\ pc[t] = "run"
  /\ \E u \in Task \ {t, Root} :
       /\ pc[u] # "none"
       /\ Send(t, [NoReq EXCEPT !.op = "join", !.pid = u])

ForkReq(u, L, O) == [NoReq EXCEPT !.op = "fork", !.pid = u, !.label = L, !.own = O]

\* clone() gives the child a copy of the parent's address space.  The guard
\* says that threads are created one at a time.
ab_pthread_create_clone(t) ==
  /\ "create" \in Calls
  /\ pc[t] = "run"
  /\ \A u \in Task : pc[u] # "create"
  /\ \E u \in Task, L \in Labels, O \in Owns :
       /\ pc[u] = "none"
       /\ Known(L) /\ Known(O)
       /\ mm' = [mm EXCEPT ![u] = mm[t]]
       /\ pc' = [pc EXCEPT ![t] = "create", ![u] = "cloned"]
       /\ req' = [req EXCEPT ![t] = ForkReq(u, L, O)]
  /\ UNCHANGED <<ab_tasks, ab_brk, chan, arbiterVars>>

\* The child joins the control group, signals done and starts its routine.
pre_start_routine(t) ==
  /\ pc[t] = "cloned"
  /\ ab_tasks' = ab_tasks \cup {t}
  /\ pc' = [pc EXCEPT ![t] = "run"]
  /\ UNCHANGED <<mm, ab_brk, req, chan, arbiterVars>>

\* The parent has seen done and asks the arbiter to register the child.
ab_pthread_create_fork(t) ==
  /\ pc[t] = "create"
  /\ req[t].pid \in ab_tasks
  /\ Send(t, req[t])

\* start_routine returns and the thread calls exit(0); nothing takes it off
\* the ab_tasks list or unlinks its socket.
exit(t) ==
  /\ "exit" \in Calls
  /\ t # Root
  /\ pc[t] = "run"
  /\ pc' = [pc EXCEPT ![t] = "dead"]
  /\ mm' = [mm EXCEPT ![t] = [a \in Page |-> "U"]]
  /\ UNCHANGED <<ab_tasks, ab_brk, req, chan, arbiterVars>>

---------------------------------------------------------------------------
(* System calls of the arbiter: absys_mmap.c, absys_mprotect.c             *)

\* A system call that walks ab_tasks, or that names a pid, dereferences the
\* mm of the task, which exit has cleared.
Oops(S) == \E t \in S : pc[t] = "dead"

KernelOops ==
  /\ apc' = "oops"
  /\ UNCHANGED <<kernelVars, clientVars, todo, ptr, descVars, catVars, unitVars>>

\* sys_absys_brk extends the heap by one unit if no child has a mapping in
\* the way, the page behind the new break included.
BrkFree(a) ==
  /\ a + 1 \in Page
  /\ \A t \in ab_tasks : mm[t][a] = "U" /\ mm[t][a + 1] = "U"

\* Every child gets the new unit readable and writable.
absys_brk ==
  /\ mm' = [t \in Task |-> IF t \in ab_tasks
                           THEN [mm[t] EXCEPT ![ab_brk] = "RW"] ELSE mm[t]]
  /\ ab_brk' = ab_brk + 1
  /\ UNCHANGED ab_tasks

\* "minimum interference": another child gets the region without access,
\* and only where it has no mapping yet.
do_absys_vma_propagate(t, a) ==
  IF mm[t][a] = "U" THEN [mm[t] EXCEPT ![a] = "N"] ELSE mm[t]

\* The target child gets the unit readable and writable, whatever it had.
do_absys_mmap_pgoff(t, a) == [mm[t] EXCEPT ![a] = "RW"]

absys_mmap(c, a) ==
  /\ mm' = [t \in Task |->
              IF t = c THEN do_absys_mmap_pgoff(t, a)
              ELSE IF t \in ab_tasks THEN do_absys_vma_propagate(t, a) ELSE mm[t]]
  /\ UNCHANGED <<ab_tasks, ab_brk>>

\* The regions a VMA of task t around region a may span: absys_mmap_region,
\* propagate_region and mprotect_fixup merge adjacent mmapped regions of equal
\* protection unless their anon_vma differ.
Vmas(t, a) ==
  {S \in {lo..hi : lo \in ab_brk..a, hi \in a..(NPAGE - 1)} :
     \A b \in S : mm[t][b] = mm[t][a]}

\* The target child unmaps the interval; in every other child the whole VMA
\* that meets the interval is unmapped.
absys_munmap(c, a) ==
  /\ \E vma \in [Task -> {lo..hi : lo \in 0..a, hi \in a..(NPAGE - 1)}] :
       /\ \A t \in Task : IF t \in ab_tasks \ {c} /\ mm[t][a] # "U"
                          THEN vma[t] \in Vmas(t, a)
                          ELSE vma[t] = {a}
       /\ mm' = [t \in Task |->
                   IF t \in ab_tasks
                   THEN [b \in Page |-> IF b \in vma[t] THEN "U" ELSE mm[t][b]]
                   ELSE mm[t]]
  /\ UNCHANGED <<ab_tasks, ab_brk>>

\* -ENOMEM, which the arbiter ignores, where the task has no mapping.
absys_mprotect(t, a, prot) ==
  /\ mm' = IF mm[t][a] = "U" THEN mm ELSE [mm EXCEPT ![t][a] = prot]
  /\ UNCHANGED <<ab_tasks, ab_brk>>

---------------------------------------------------------------------------
(* The arbiter: handle_client_rpc dispatches the datagram at the head of   *)
(* the queue, and abt_sendreply lets its sender continue.                  *)

Serving(c, op) ==
  /\ apc = "recv"
  /\ chan # <<>>
  /\ c = Head(chan)
  /\ c \in reg
  /\ req[c].op = op

Reply(c) ==
  /\ apc' = "recv"
  /\ chan' = Tail(chan)
  /\ pc' = [pc EXCEPT ![c] = "run"]
  /\ req' = [req EXCEPT ![c] = NoReq]

\* An assertion of the arbiter fails, or it follows a null pointer.  As with
\* KernelOops, what the handler did before is left out: its step is not over.
Abort ==
  /\ apc' = "abort"
  /\ UNCHANGED <<kernelVars, clientVars, todo, ptr, descVars, catVars, unitVars>>

\* A datagram from a socket that belongs to no client_desc gets no reply.
unknown_client ==
  /\ apc = "recv"
  /\ chan # <<>>
  /\ Head(chan) \notin reg
  /\ chan' = Tail(chan)
  /\ UNCHANGED <<kernelVars, pc, req, arbiterVars>>

handle_create_cat_rpc(c) ==
  /\ Serving(c, "create_cat")
  /\ LET g   == next_cat_gen(cat_gen)
         cat == create_cat(req[c].type, g)
     IN  IF cat = 0 \/ OwnershipFull(own[c])
         THEN Abort
         ELSE /\ cat_gen' = g
              /\ ncreate' = ncreate + 1
              /\ cats' = cats \cup {cat}
              /\ \E i \in Slot :
                   /\ FirstBlank(own[c], i)
                   /\ own' = [own EXCEPT ![c][i] = cat]
              /\ Reply(c)
              /\ UNCHANGED <<kernelVars, todo, ptr, reg, label, unitVars>>

\* Mutants: no client is updated; the first child is left out.
ProtUpdate_none(pid, a) == {}
ProtUpdate_noroot(pid, a) == {<<t, a>> : t \in reg \ {pid, Root}}

\* prot_update: every registered client except pid, for one unit
ProtUpdate(pid, a) == {<<t, a>> : t \in reg \ {pid}}

\* Mutants: no unit is updated; mmapped units are left out.
MallocUpdate_none(t) == {}
MallocUpdate_brk(t) == {<<t, a>> : a \in {b \in units : b < ab_brk}}

\* malloc_update: every unit, for the new client
MallocUpdate(t) == {<<t, a>> : a \in units}

handle_fork_rpc(c) ==
  /\ Serving(c, "fork")
  /\ LET r == req[c]
     IN  IF ~check_label(label[c], own[c], r.label, r.own)
         THEN Reply(c) /\ UNCHANGED <<kernelVars, todo, ptr, descVars, catVars, unitVars>>
         ELSE /\ reg' = reg \cup {r.pid}
              /\ label' = [label EXCEPT ![r.pid] = r.label]
              /\ own' = [own EXCEPT ![r.pid] = r.own]
              /\ apc' = "mprotect"
              /\ todo' = MallocUpdate(r.pid)
              /\ UNCHANGED <<kernelVars, clientVars, ptr, catVars, unitVars>>

\* Mutant: a refused join gets no reply.
handle_pthread_join_rpc_noreply(c) ==
  /\ Serving(c, "join")
  /\ LET u == req[c].pid
     IN  IF u \in reg /\ check_label(label[c], own[c], label[u], own[u])
         THEN /\ reg' = reg \ {u}
              /\ label' = [label EXCEPT ![u] = Empty]
              /\ own' = [own EXCEPT ![u] = Empty]
              /\ Reply(c)
         ELSE chan' = Tail(chan) /\ UNCHANGED <<descVars, apc, pc, req>>
  /\ UNCHANGED <<kernelVars, todo, ptr, catVars, unitVars>>

\* The joined thread is forgotten; nobody waits for it to terminate.
handle_pthread_join_rpc(c) ==
  /\ Serving(c, "join")
  /\ LET u == req[c].pid
     IN  IF u \in reg /\ check_label(label[c], own[c], label[u], own[u])
         THEN /\ reg' = reg \ {u}
              /\ label' = [label EXCEPT ![u] = Empty]
              /\ own' = [own EXCEPT ![u] = Empty]
         ELSE UNCHANGED descVars
  /\ Reply(c)
  /\ UNCHANGED <<kernelVars, todo, ptr, catVars, unitVars>>

handle_get_rpc(c) ==
  /\ Serving(c, "get")
  /\ Reply(c)
  /\ UNCHANGED <<kernelVars, todo, ptr, descVars, catVars, unitVars>>

---------------------------------------------------------------------------
(* handle_malloc_rpc, handle_calloc_rpc and handle_realloc_rpc, with the   *)
(* part of ablib_malloc that makes units                                   *)

MayWrite(c, L) == check_label(label[c], own[c], L, Empty)

\* realloc takes the label of the memory it is given.
ReqLabel(c) ==
  IF req[c].op = "realloc" THEN unit[req[c].page].label ELSE req[c].label

ServingAlloc(c) == \E op \in AllocOp : Serving(c, op)

\* Refused by the label check, or no chunk of this size exists: NULL.
malloc_null(c) ==
  /\ ServingAlloc(c)
  /\ ~MayWrite(c, ReqLabel(c)) \/ req[c].size = "none"
  /\ Reply(c)
  /\ UNCHANGED <<kernelVars, todo, ptr, descVars, catVars, unitVars>>

\* What is left to do is ablib_free of the old memory.
ThenFree(c) ==
  /\ apc' = "recv"
  /\ req' = [req EXCEPT ![c].op = "free"]
  /\ UNCHANGED <<pc, chan>>

\* The new memory is there.
Finish(c) == IF req[c].op = "realloc" THEN ThenFree(c) ELSE Reply(c)

\* realloc to 0 bytes
realloc_free(c) ==
  /\ Serving(c, "realloc")
  /\ MayWrite(c, ReqLabel(c))
  /\ req[c].size = "none"
  /\ ThenFree(c)
  /\ UNCHANGED <<kernelVars, todo, ptr, descVars, catVars, unitVars>>

\* realloc finds that the old chunk is long enough or can be extended.
realloc_inplace(c) ==
  /\ Serving(c, "realloc")
  /\ MayWrite(c, ReqLabel(c))
  /\ req[c].size # "none"
  /\ unit[req[c].page].kind = "brk" => req[c].size # "large"
  /\ Reply(c)
  /\ UNCHANGED <<kernelVars, todo, ptr, descVars, catVars, unitVars>>

\* An mmapped chunk is moved only if it is to become larger still.
Allocating(c, S) ==
  /\ ServingAlloc(c)
  /\ MayWrite(c, ReqLabel(c))
  /\ req[c].size \in S
  /\ req[c].op = "realloc" /\ unit[req[c].page].kind = "mmap" => req[c].size = "large"

\* A bin or a unit_top of the mstate of this label has room: no system call.
malloc_from_unit(c) ==
  /\ Allocating(c, {"small", "gap"})
  /\ \E a \in units :
       /\ unit[a].kind = "brk"
       /\ unit[a].label = ReqLabel(c)
       /\ unit' = [unit EXCEPT ![a].given = TRUE]
  /\ Finish(c)
  /\ UNCHANGED <<kernelVars, todo, ptr, descVars, catVars, mmapped>>

NewUnit(c, a, kind) ==
  unit' = [unit EXCEPT ![a] = [kind |-> kind, label |-> ReqLabel(c),
                               by |-> c, given |-> FALSE, old |-> unit[a].old]]

\* The new unit lies over one that is in use.  Neither label is right for
\* both, and the model does not follow the program any further.
Overlap ==
  /\ apc' = "overlap"
  /\ UNCHANGED <<kernelVars, clientVars, todo, ptr, descVars, catVars, unitVars>>

\* __malloc_alloc, brk path.  A fresh unit cannot hold a request of class
\* "gap": the unit stays on the lists, but the call fails before prot_update.
malloc_brk(c) ==
  /\ Allocating(c, {"small", "gap"})
  /\ IF Oops(ab_tasks) THEN KernelOops
     ELSE IF ~BrkFree(ab_brk) THEN Abort
     ELSE IF ab_brk \in units THEN Overlap
     ELSE /\ absys_brk
          /\ NewUnit(c, ab_brk, "brk")
          /\ IF req[c].size = "gap"
             THEN Reply(c) /\ UNCHANGED <<todo, ptr>>
             ELSE /\ apc' = "mprotect"
                  /\ ptr' = ab_brk
                  /\ todo' = ProtUpdate(c, ab_brk)
                  /\ UNCHANGED clientVars
          /\ UNCHANGED <<descVars, catVars, mmapped>>

\* get_unmapped_area chooses region a: the top of the heap if the last unit
\* of the list leaves room there, else below the unit that follows the last
\* hole, else below the first unit.  ab_top never moves from the start of the
\* heap, and adding to it counts chunks, not bytes.
HoleAbove(i)  == i + 1 \in DOMAIN mmapped /\ mmapped[i] + 2 < mmapped[i + 1]
LastHole(i)   == HoleAbove(i) /\ \A j \in DOMAIN mmapped : j > i => ~HoleAbove(j)
RoomOnTop     == mmapped # <<>> => mmapped[Len(mmapped)] + 2 <= NPAGE
get_unmapped_area(a) ==
  \/ RoomOnTop /\ a = NPAGE - 1
  \/ ~RoomOnTop /\ \E i \in DOMAIN mmapped : LastHole(i) /\ a = mmapped[i + 1] - 1
  \/ /\ ~RoomOnTop
     /\ \A i \in DOMAIN mmapped : ~HoleAbove(i)
     /\ SCALE <= mmapped[1]
     /\ a = mmapped[1] - 1

\* insert_mmapped_unit puts region a behind the last unit of the list that
\* ends below it; a unit that touches its lower neighbour is not inserted if
\* that neighbour is the first of the list.
BelowFirst(a)   == mmapped # <<>> => a < mmapped[1]
EndsBelow(i, a) == i \in DOMAIN mmapped /\ mmapped[i] + 1 < a
insert_mmapped_unit(a) ==
  \/ /\ BelowFirst(a)
     /\ mmapped' = <<a>> \o mmapped
  \/ /\ ~BelowFirst(a)
     /\ \E i \in DOMAIN mmapped :
          /\ EndsBelow(i, a) /\ \A j \in DOMAIN mmapped : j > i => ~EndsBelow(j, a)
          /\ mmapped' = SubSeq(mmapped, 1, i) \o <<a>> \o SubSeq(mmapped, i + 1, Len(mmapped))
  \/ /\ ~BelowFirst(a)
     /\ \A i \in DOMAIN mmapped : ~EndsBelow(i, a)
     /\ UNCHANGED mmapped

\* The insertion follows the null next pointer of the tail.
InsertAtTail(a) ==
  ~BelowFirst(a) /\ EndsBelow(Len(mmapped), a)

\* __malloc_alloc, mmap path.  Without a place the chunk is written at
\* address 0.
malloc_mmap(c) ==
  /\ Allocating(c, {"large"})
  /\ IF \A a \in Page : ~get_unmapped_area(a) THEN Abort
     ELSE IF Oops(ab_tasks) THEN KernelOops
     ELSE \E a \in Page :
          /\ get_unmapped_area(a)
          /\ IF a \in units THEN Overlap
             ELSE IF InsertAtTail(a) THEN Abort
             ELSE /\ absys_mmap(c, a)
                  /\ NewUnit(c, a, "mmap")
                  /\ insert_mmapped_unit(a)
                  /\ apc' = "mprotect"
                  /\ ptr' = a
                  /\ todo' = ProtUpdate(c, a)
                  /\ UNCHANGED <<clientVars, descVars, catVars>>

handle_malloc_rpc(c) ==
  \/ malloc_null(c)
  \/ realloc_free(c)
  \/ realloc_inplace(c)
  \/ malloc_from_unit(c)
  \/ malloc_brk(c)
  \/ malloc_mmap(c)

\* Mutant: the entry is freed but stays on the list.
list_del_entry_stale(a) == UNCHANGED mmapped

\* list_del_entry, for the entry that linked_list_locate finds
list_del_entry(a) ==
  \E i \in DOMAIN mmapped :
    /\ mmapped[i] = a
    /\ mmapped' = SubSeq(mmapped, 1, i - 1) \o SubSeq(mmapped, i + 1, Len(mmapped))

\* A chunk of a brk unit goes back to the bins of its mstate; the unit stays.
free_chunk(c) ==
  Reply(c) /\ UNCHANGED <<kernelVars, todo, ptr, descVars, catVars, unitVars>>

\* An mmapped unit is unmapped and taken off the lists.  A unit that is not
\* listed has no entry to delete: the arbiter follows a null pointer.
free_mmapped(c, a) ==
  IF Oops(ab_tasks) THEN KernelOops
  ELSE IF \A i \in DOMAIN mmapped : mmapped[i] # a THEN Abort
  ELSE /\ absys_munmap(c, a)
       /\ unit' = [unit EXCEPT ![a] = GoneUnit]
       /\ list_del_entry(a)
       /\ Reply(c)
       /\ UNCHANGED <<todo, ptr, descVars, catVars>>

handle_free_rpc(c) ==
  /\ Serving(c, "free")
  /\ LET a == req[c].page
     IN  \/ /\ ~MayWrite(c, unit[a].label)
            /\ Reply(c)
            /\ UNCHANGED <<kernelVars, todo, ptr, descVars, catVars, unitVars>>
         \/ MayWrite(c, unit[a].label) /\ unit[a].kind # "mmap" /\ free_chunk(c)
         \/ MayWrite(c, unit[a].label) /\ unit[a].kind = "mmap" /\ free_mmapped(c, a)

\* One iteration of the loop of prot_update or malloc_update.  The order of
\* the lists is left open: each iteration changes a mapping of its own.
update_step ==
  /\ apc = "mprotect"
  /\ \E p \in todo :
       LET t == p[1]
           a == p[2]
       IN  IF Oops({t}) THEN KernelOops
           ELSE /\ absys_mprotect(t, a, check_mem_prot(label[t], own[t], unit[a].label))
                /\ todo' = todo \ {p}
                /\ UNCHANGED <<clientVars, apc, ptr, descVars, catVars, unitVars>>

\* The loop is done: ablib_malloc returns the memory.
update_done ==
  /\ apc = "mprotect"
  /\ chan # <<>>
  /\ todo = {}
  /\ LET c == Head(chan)
     IN  /\ unit' = IF req[c].op = "fork"
                    THEN unit ELSE [unit EXCEPT ![ptr].given = TRUE]
         /\ ptr' = 0
         /\ Finish(c)
  /\ UNCHANGED <<kernelVars, todo, descVars, catVars, mmapped>>

---------------------------------------------------------------------------
Client(t) ==
  \/ create_category(t)
  \/ ab_malloc(t)
  \/ ab_free(t)
  \/ ab_realloc(t)
  \/ get_info(t)
  \/ ab_pthread_join(t)
  \/ ab_pthread_create_clone(t)
  \/ pre_start_routine(t)
  \/ ab_pthread_create_fork(t)
  \/ exit(t)

Handle(c) ==
  \/ handle_create_cat_rpc(c)
  \/ handle_fork_rpc(c)
  \/ handle_pthread_join_rpc(c)
  \/ handle_get_rpc(c)
  \/ handle_malloc_rpc(c)
  \/ handle_free_rpc(c)

server_loop ==
  \/ unknown_client
  \/ \E c \in Task : Handle(c)
  \/ update_step
  \/ update_done

Next == server_loop \/ \E t \in Task : Client(t)

Spec == Init /\ [][Next]_vars

\* The arbiter is a process that the kernel schedules, and so is a thread in
\* the middle of ab_pthread_create; what the application calls is its choice.
Fairness ==
  /\ WF_vars(server_loop)
  /\ \A t \in Task : WF_vars(pre_start_routine(t)) /\ WF_vars(ab_pthread_create_fork(t))

FairSpec == Spec /\ Fairness

---------------------------------------------------------------------------
(* Properties                                                              *)

\* Is malloc_update done for t?
Settled(t) ==
  ~ /\ apc \in {"mprotect", "oops"}
    /\ req[Head(chan)].op = "fork"
    /\ req[Head(chan)].pid = t

\* Units the arbiter has returned memory of.
Given == {a \in units : unit[a].given}

\* What the labels let t do with a unit, as decided by check_mem_prot.
Allowed(t, a) == check_mem_prot(label[t], own[t], unit[a].label)

\* A registered client never has a writable mapping of memory in use to which
\* its label may not flow: no order of malloc, free, thread creation, join
\* and category creation leaves a stale writable page behind
\* (prot_update, malloc_update).
WriteFlow ==
  \A t \in reg, a \in Given :
    Settled(t) /\ mm[t][a] = "RW" => MayWrite(t, unit[a].label)

\* The mapping a registered client has of memory in use is the one its
\* labels call for; the client that had the unit made keeps full access to
\* it, and a client may lack the mapping altogether (prot_update skips the
\* allocating pid, and malloc_update ignores a failed absys_mprotect).
ProtMatchesLabels ==
  \A t \in reg, a \in Given :
    Settled(t) /\ unit[a].by # t => mm[t][a] \in {"U", Allowed(t, a)}

\* The same without the exception for a missing mapping: once a thread is
\* registered it has a mapping of every unit in use ("wait for child to join
\* in order to update its mapping", lib_client.c).
MappingUpdated ==
  \A t \in reg, a \in Given : Settled(t) => mm[t][a] # "U"

\* A thread only ever gains ownership of a category that no label and no
\* other ownership mentions yet (create_cat, add_onwership).
CategoryFreshStep ==
  \A t \in reg, i \in Slot :
    t \in reg' /\ own[t][i] = 0 /\ own'[t][i] # 0
      => /\ \A u \in reg : ~Holds(label[u], own'[t][i]) /\ ~Holds(own[u], own'[t][i])
         /\ \A a \in units : ~Holds(unit[a].label, own'[t][i])

CategoryFresh == [][CategoryFreshStep]_vars

\* The kernel's break, the unit list and the list of mmapped units agree: the
\* brk units fill the heap up to ab_brk, and mmapped_ustate_list names live
\* mmapped units only, each once (a freed ustate is never left on it).
HeapConsistent ==
  /\ \A a \in Page : unit[a].kind = "brk" <=> a < ab_brk
  /\ \A i \in DOMAIN mmapped :
       /\ unit[mmapped[i]].kind = "mmap"
       /\ \A j \in DOMAIN mmapped : mmapped[j] = mmapped[i] => j = i

\* The arbiter never makes a unit over memory that is in use: "the hole
\* between the highest unit and channel heap end is available"
\* (get_unmapped_area, insert_mmapped_unit).
UnitsDisjoint == apc # "overlap"

\* calloc returns memory that holds nothing of an earlier unit: "Standard unix
\* mmap using /dev/zero clears memory so calloc doesn't need to actually zero
\* anything" (ablib_calloc.c); a chunk of a brk unit it does clear.
CallocClean ==
  [][\A a \in Page :
       ~unit[a].given /\ unit'[a].given /\ req[Head(chan)].op = "calloc"
         => unit[a].kind = "brk" \/ ~unit[a].old]_vars

\* The request of a registered client is answered, unless the client is
\* joined meanwhile or the arbiter is gone: server_loop serves in order and
\* no loop of a handler runs forever.
Queued(t) == \E i \in DOMAIN chan : chan[i] = t
RegisteredServed ==
  \A t \in Task :
    (t \in reg /\ Queued(t)) ~>
      (pc[t] = "run" \/ t \notin reg \/ apc \notin {"recv", "mprotect"})

---------------------------------------------------------------------------
(* The inductive invariant behind WriteFlow, ProtMatchesLabels and         *)
(* CategoryFresh, for as long as category numbers last.                    *)

\* Category numbers are handed out in order.
CatsInv ==
  /\ cat_gen = ncreate
  /\ \A c \in cats : c \in 1..ncreate \/ c - NCAT \in 1..ncreate

\* Every label in the system is made of categories handed out.
KnownInv ==
  /\ \A t \in Task : /\ Known(label[t]) /\ Known(own[t])
                     /\ Known(req[t].label) /\ Known(req[t].own)
  /\ \A a \in Page : Known(unit[a].label)

\* A task has at most one datagram in the queue and waits for the answer.
ChanInv ==
  \A i \in DOMAIN chan :
    /\ pc[chan[i]] = "wait"
    /\ \A j \in DOMAIN chan : chan[i] = chan[j] => i = j

\* t is in ab_pthread_create; the arbiter is in malloc_update for its child.
Forking(t) == pc[t] = "create" \/ (pc[t] = "wait" /\ req[t].op = "fork")
InFork(t) ==
  /\ apc \in {"mprotect", "oops"}
  /\ chan # <<>>
  /\ t = Head(chan)
  /\ req[t].op = "fork"

\* A task that is not registered yet has had no unit made, and one parent
\* only can register it.
NeverServed(u) == u # Root /\ \A a \in Page : unit[a].by # u
KidInv ==
  /\ \A u \in Task : pc[u] = "none" => u \notin reg /\ NeverServed(u)
  /\ \A t \in Task : Forking(t) =>
       /\ pc[req[t].pid] # "none"
       /\ NeverServed(req[t].pid)
       /\ req[t].pid \in reg => InFork(t)
       /\ \A u \in Task : Forking(u) /\ req[u].pid = req[t].pid => u = t

\* The loops of prot_update and malloc_update run over memory that is not in
\* use yet, or for a client that is not registered yet.
TodoInv ==
  /\ apc = "recv" => todo = {}
  /\ apc = "mprotect" => chan # <<>> /\ req[Head(chan)].op \in AllocOp \cup {"fork"}
  /\ \A t \in Task, a \in Page : <<t, a>> \in todo =>
       \/ InFork(Head(chan)) /\ t = req[Head(chan)].pid
       \/ ~unit[a].given

\* The client that had a unit made may write it, and the mapping of every
\* other client is the one its labels call for, or an update is due.
ByInv ==
  \A a \in units : unit[a].by \in reg => MayWrite(unit[a].by, unit[a].label)
ProtInv ==
  \A t \in reg, a \in units :
    unit[a].by # t /\ <<t, a>> \notin todo => mm[t][a] \in {"U", Allowed(t, a)}

NoGap == \A t \in Task : req[t].size # "gap"

Core == /\ CatsInv /\ KnownInv /\ ChanInv /\ KidInv /\ TodoInv
        /\ ByInv /\ ProtInv /\ NoGap
IInv == ncreate < NCAT => Core
=============================================================================
