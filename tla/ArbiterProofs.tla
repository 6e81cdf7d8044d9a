--------------------------- MODULE ArbiterProofs ---------------------------
(* Theorems about Arbiter for any number of tasks, regions and categories. *)
EXTENDS Arbiter, LabelProofs, SequenceTheorems

---------------------------------------------------------------------------
(* Types                                                                   *)

LEMMA NoReqType == NoReq \in Req
  BY ArbiterAssumption, LabelAssumption, EmptyType
  DEF NoReq, Req, Op, AllocOp, SizeClass, Page, CAT_S, CAT_I

LEMMA NoUnitType == NoUnit \in UnitRec
  BY ArbiterAssumption, EmptyType DEF NoUnit, UnitRec

LEMMA GoneUnitType == GoneUnit \in UnitRec
<1>1. ("calloc" \in Calls) \in BOOLEAN
  OBVIOUS
<1> QED
  BY <1>1, NoUnitType DEF GoneUnit, NoUnit, UnitRec

\* What a reply, a system call that fails, and a call of a client leave alone
\* keeps its type.
LEMMA InitType == Init => TypeOK
  BY ArbiterAssumption, LabelAssumption, EmptyType, NoReqType, NoUnitType
  DEF Init, TypeOK, PC, APC, Prot, Page, cat_t

LEMMA SendType ==
  ASSUME TypeOK, NEW t \in Task, NEW r \in Req, Send(t, r)
  PROVE  TypeOK'
  BY DEF TypeOK, Send, kernelVars, arbiterVars, descVars, catVars, unitVars, PC

LEMMA ClientType ==
  ASSUME TypeOK, NEW t \in Task, Client(t)
  PROVE  TypeOK'
<1>1. CASE create_category(t)
  <2> PICK ty \in {CAT_S, CAT_I} : Send(t, [NoReq EXCEPT !.op = "create_cat", !.type = ty])
    BY <1>1 DEF create_category
  <2>1. [NoReq EXCEPT !.op = "create_cat", !.type = ty] \in Req
    BY NoReqType DEF Req, Op
  <2> QED BY <2>1, SendType
<1>2. CASE ab_malloc(t)
  <2> PICK op \in {"malloc", "calloc"}, L \in Labels, sz \in Sizes :
             Send(t, [NoReq EXCEPT !.op = op, !.label = L, !.size = sz])
    BY <1>2 DEF ab_malloc
  <2>1. [NoReq EXCEPT !.op = op, !.label = L, !.size = sz] \in Req
    BY NoReqType, ArbiterAssumption DEF Req, Op, AllocOp
  <2> QED BY <2>1, SendType
<1>3. CASE ab_free(t)
  <2> PICK a \in Page : Send(t, [NoReq EXCEPT !.op = "free", !.page = a])
    BY <1>3 DEF ab_free, units
  <2>1. [NoReq EXCEPT !.op = "free", !.page = a] \in Req
    BY NoReqType DEF Req, Op
  <2> QED BY <2>1, SendType
<1>4. CASE get_info(t)
  BY <1>4, NoReqType, SendType DEF get_info
<1>5. CASE ab_pthread_join(t)
  <2> PICK u \in Task : Send(t, [NoReq EXCEPT !.op = "join", !.pid = u])
    BY <1>5 DEF ab_pthread_join
  <2>1. [NoReq EXCEPT !.op = "join", !.pid = u] \in Req
    BY NoReqType DEF Req, Op
  <2> QED BY <2>1, SendType
<1>6. CASE ab_pthread_create_clone(t)
  <2> PICK u \in Task, L \in Labels, O \in Owns :
        /\ mm' = [mm EXCEPT ![u] = mm[t]]
        /\ pc' = [pc EXCEPT ![t] = "create", ![u] = "cloned"]
        /\ req' = [req EXCEPT ![t] = ForkReq(u, L, O)]
    BY <1>6 DEF ab_pthread_create_clone
  <2>1. ForkReq(u, L, O) \in Req
    BY NoReqType, ArbiterAssumption DEF Req, Op, ForkReq
  <2>2. mm' \in [Task -> [Page -> Prot]]
    BY DEF TypeOK
  <2>3. pc' \in [Task -> PC]
    BY DEF TypeOK, PC
  <2>4. req' \in [Task -> Req]
    BY <2>1 DEF TypeOK
  <2> QED
    BY <1>6, <2>2, <2>3, <2>4
    DEF TypeOK, ab_pthread_create_clone, arbiterVars, descVars, catVars, unitVars
<1>7. CASE pre_start_routine(t)
  BY <1>7 DEF TypeOK, pre_start_routine, arbiterVars, descVars, catVars, unitVars, PC
<1>8. CASE ab_pthread_create_fork(t)
  BY <1>8, SendType DEF TypeOK, ab_pthread_create_fork
<1>9. CASE exit(t)
  BY <1>9 DEF TypeOK, exit, arbiterVars, descVars, catVars, unitVars, PC, Prot
<1>10. CASE ab_realloc(t)
  <2> PICK a \in Page, sz \in Sizes :
             Send(t, [NoReq EXCEPT !.op = "realloc", !.page = a, !.size = sz])
    BY <1>10 DEF ab_realloc, units
  <2>1. [NoReq EXCEPT !.op = "realloc", !.page = a, !.size = sz] \in Req
    BY NoReqType, ArbiterAssumption DEF Req, Op, AllocOp
  <2> QED BY <2>1, SendType
<1> QED
  BY <1>1, <1>2, <1>3, <1>4, <1>5, <1>6, <1>7, <1>8, <1>9, <1>10 DEF Client

LEMMA ReplyType ==
  ASSUME TypeOK, NEW c \in Task, chan # <<>>, Reply(c)
  PROVE  /\ pc' \in [Task -> PC]
         /\ req' \in [Task -> Req]
         /\ chan' \in Seq(Task)
         /\ apc' \in APC
  BY NoReqType DEF TypeOK, Reply, PC, APC

\* So does a realloc that goes on with the free of the old memory.
LEMMA ThenFreeType ==
  ASSUME TypeOK, NEW c \in Task, ThenFree(c)
  PROVE  /\ pc' \in [Task -> PC]
         /\ req' \in [Task -> Req]
         /\ chan' \in Seq(Task)
         /\ apc' \in APC
<1>1. [req[c] EXCEPT !.op = "free"] \in Req
  <2>1. req[c] \in Req /\ "free" \in Op
    BY DEF TypeOK, Op
  <2> QED BY <2>1 DEF Req
<1>2. req' = [req EXCEPT ![c] = [req[c] EXCEPT !.op = "free"]]
  BY DEF ThenFree, TypeOK
<1>3. req' \in [Task -> Req]
  BY <1>1, <1>2 DEF TypeOK
<1> QED
  BY <1>3 DEF TypeOK, ThenFree, APC

LEMMA FinishType ==
  ASSUME TypeOK, NEW c \in Task, chan # <<>>, Finish(c)
  PROVE  /\ pc' \in [Task -> PC]
         /\ req' \in [Task -> Req]
         /\ chan' \in Seq(Task)
         /\ apc' \in APC
  BY ReplyType, ThenFreeType DEF Finish

LEMMA StopType ==
  ASSUME TypeOK, Abort \/ KernelOops \/ Overlap
  PROVE  TypeOK'
  BY DEF TypeOK, Abort, KernelOops, Overlap, kernelVars, clientVars, descVars,
         catVars, unitVars, APC

LEMMA BrkType ==
  ASSUME TypeOK, BrkFree(ab_brk), absys_brk
  PROVE  /\ mm' \in [Task -> [Page -> Prot]]
         /\ ab_tasks' \in SUBSET Task
         /\ ab_brk' \in 0..NPAGE
  BY ArbiterAssumption DEF TypeOK, absys_brk, BrkFree, Page, Prot

LEMMA MmapType ==
  ASSUME TypeOK, NEW c \in Task, NEW a \in Page, absys_mmap(c, a)
  PROVE  /\ mm' \in [Task -> [Page -> Prot]]
         /\ ab_tasks' \in SUBSET Task
         /\ ab_brk' \in 0..NPAGE
  BY DEF TypeOK, absys_mmap, do_absys_mmap_pgoff, do_absys_vma_propagate, Prot

LEMMA MunmapType ==
  ASSUME TypeOK, NEW c \in Task, NEW a \in Page, absys_munmap(c, a)
  PROVE  /\ mm' \in [Task -> [Page -> Prot]]
         /\ ab_tasks' \in SUBSET Task
         /\ ab_brk' \in 0..NPAGE
  BY DEF TypeOK, absys_munmap, Prot

LEMMA MprotectType ==
  ASSUME TypeOK, NEW t \in Task, NEW a \in Page, NEW p \in Prot,
         absys_mprotect(t, a, p)
  PROVE  /\ mm' \in [Task -> [Page -> Prot]]
         /\ ab_tasks' \in SUBSET Task
         /\ ab_brk' \in 0..NPAGE
  BY DEF TypeOK, absys_mprotect

\* The lists of mmapped units stay sequences of regions.
LEMMA InsertType ==
  ASSUME TypeOK, NEW a \in Page, insert_mmapped_unit(a)
  PROVE  mmapped' \in Seq(Page)
<1>1. ASSUME NEW i \in DOMAIN mmapped
      PROVE  SubSeq(mmapped, 1, i) \o <<a>> \o SubSeq(mmapped, i + 1, Len(mmapped)) \in Seq(Page)
  <2>1. i \in 1..Len(mmapped) /\ mmapped \in Seq(Page)
    BY DEF TypeOK
  <2>2. SubSeq(mmapped, 1, i) \in Seq(Page) /\ SubSeq(mmapped, i + 1, Len(mmapped)) \in Seq(Page)
    BY <2>1
  <2> QED BY <2>2
<1>2. <<a>> \o mmapped \in Seq(Page)
  BY DEF TypeOK
<1>3. CASE BelowFirst(a)
  BY <1>2, <1>3 DEF insert_mmapped_unit
<1>4. CASE ~BelowFirst(a)
  BY <1>1, <1>4 DEF TypeOK, insert_mmapped_unit
<1> QED
  BY <1>3, <1>4

LEMMA DeleteType ==
  ASSUME TypeOK, NEW a \in Page, list_del_entry(a)
  PROVE  mmapped' \in Seq(Page)
<1>1. ASSUME NEW i \in DOMAIN mmapped
      PROVE  SubSeq(mmapped, 1, i - 1) \o SubSeq(mmapped, i + 1, Len(mmapped)) \in Seq(Page)
  <2>1. i \in 1..Len(mmapped) /\ mmapped \in Seq(Page)
    BY DEF TypeOK
  <2>2. SubSeq(mmapped, 1, i - 1) \in Seq(Page) /\ SubSeq(mmapped, i + 1, Len(mmapped)) \in Seq(Page)
    BY <2>1
  <2> QED BY <2>2
<1> QED
  BY <1>1 DEF TypeOK, list_del_entry

\* A category number below NCAT fits the byte whatever its type bit.
LEMMA CreateCatType ==
  ASSUME NEW ty \in {CAT_S, CAT_I}, NEW g \in cat_t
  PROVE  next_cat_gen(g) \in cat_t /\ create_cat(ty, next_cat_gen(g)) \in cat_t
  BY LabelAssumption DEF CAT_S, CAT_I, cat_t, next_cat_gen, create_cat

LEMMA GivenType ==
  ASSUME TypeOK, NEW a \in Page
  PROVE  [unit EXCEPT ![a].given = TRUE] \in [Page -> UnitRec]
<1> [unit[a] EXCEPT !.given = TRUE] \in UnitRec
  BY DEF TypeOK, UnitRec
<1> QED
  BY DEF TypeOK

LEMMA HandleType ==
  ASSUME TypeOK, NEW c \in Task, Handle(c)
  PROVE  TypeOK'
<1> chan # <<>>
  BY DEF Handle, Serving, handle_create_cat_rpc, handle_fork_rpc, handle_get_rpc,
         handle_pthread_join_rpc, handle_malloc_rpc, malloc_null, malloc_from_unit,
         malloc_brk, malloc_mmap, Allocating, ServingAlloc, realloc_free,
         realloc_inplace, handle_free_rpc
<1>1. CASE handle_create_cat_rpc(c)
  <2> DEFINE g   == next_cat_gen(cat_gen)
             cat == create_cat(req[c].type, g)
  <2>1. g \in cat_t /\ cat \in cat_t
    <3> req[c].type \in {CAT_S, CAT_I} /\ cat_gen \in cat_t
      BY DEF TypeOK, Req
    <3> QED BY CreateCatType
  <2>2. CASE cat = 0 \/ OwnershipFull(own[c])
    BY <1>1, <2>2, StopType DEF handle_create_cat_rpc
  <2>3. CASE ~(cat = 0 \/ OwnershipFull(own[c]))
    <3> HIDE DEF g, cat
    <3>1. /\ cat_gen' = g
          /\ ncreate' = ncreate + 1
          /\ cats' = cats \cup {cat}
          /\ \E i \in Slot : own' = [own EXCEPT ![c][i] = cat]
          /\ Reply(c)
          /\ UNCHANGED <<kernelVars, todo, ptr, reg, label, unitVars>>
      BY <1>1, <2>3 DEF handle_create_cat_rpc, g, cat
    <3>2. own' \in [Task -> label_t]
      <4> PICK i \in Slot : own' = [own EXCEPT ![c] = [own[c] EXCEPT ![i] = cat]]
        BY <3>1
      <4> [own[c] EXCEPT ![i] = cat] \in label_t
        BY <2>1, BlankFilled DEF TypeOK
      <4> QED BY DEF TypeOK
    <3> QED
      BY <2>1, <3>1, <3>2, ReplyType DEF TypeOK, kernelVars, unitVars
  <2> QED BY <2>2, <2>3
<1>2. CASE handle_fork_rpc(c)
  <2>1. req[c].pid \in Task /\ req[c].label \in label_t /\ req[c].own \in label_t
    BY DEF TypeOK, Req
  <2>2. MallocUpdate(req[c].pid) \in SUBSET (Task \X Page)
    BY <2>1 DEF MallocUpdate, units
  <2> QED
    BY <1>2, <2>1, <2>2, ReplyType
    DEF handle_fork_rpc, TypeOK, kernelVars, clientVars, descVars, catVars, unitVars, APC
<1>3. CASE handle_pthread_join_rpc(c)
  <2>1. Reply(c) /\ UNCHANGED <<kernelVars, todo, ptr, catVars, unitVars>>
    BY <1>3 DEF handle_pthread_join_rpc
  <2>2. reg' \in SUBSET Task /\ label' \in [Task -> label_t] /\ own' \in [Task -> label_t]
    BY <1>3, EmptyType DEF handle_pthread_join_rpc, TypeOK, descVars
  <2> QED
    BY <2>1, <2>2, ReplyType DEF TypeOK, kernelVars, catVars, unitVars
<1>4. CASE handle_get_rpc(c)
  BY <1>4, ReplyType DEF handle_get_rpc, TypeOK, kernelVars, descVars, catVars, unitVars
<1>5. CASE malloc_null(c)
  BY <1>5, ReplyType DEF malloc_null, TypeOK, kernelVars, descVars, catVars, unitVars
<1>6. CASE malloc_from_unit(c)
  <2>1. unit' \in [Page -> UnitRec]
    BY <1>6, GivenType DEF malloc_from_unit, units
  <2> QED
    BY <1>6, <2>1, FinishType DEF malloc_from_unit, TypeOK, kernelVars, descVars, catVars
<1>7. ASSUME NEW a \in Page, NEW k \in {"brk", "mmap"}, NewUnit(c, a, k)
      PROVE  unit' \in [Page -> UnitRec] /\ ProtUpdate(c, a) \in SUBSET (Task \X Page)
  <2>1. ReqLabel(c) \in label_t /\ unit[a].old \in BOOLEAN
    BY DEF TypeOK, Req, ReqLabel, UnitRec
  <2> QED
    BY <1>7, <2>1 DEF NewUnit, TypeOK, UnitRec, ProtUpdate
<1>8. CASE malloc_brk(c)
  <2>1. CASE Abort \/ KernelOops \/ Overlap
    BY <2>1, StopType
  <2>2. CASE ~(Abort \/ KernelOops \/ Overlap)
    <3>1. /\ BrkFree(ab_brk) /\ absys_brk /\ NewUnit(c, ab_brk, "brk")
          /\ \/ Reply(c) /\ UNCHANGED <<todo, ptr>>
             \/ /\ apc' = "mprotect" /\ ptr' = ab_brk
                /\ todo' = ProtUpdate(c, ab_brk) /\ UNCHANGED clientVars
          /\ UNCHANGED <<descVars, catVars, mmapped>>
      BY <1>8, <2>2 DEF malloc_brk
    <3>2. ab_brk \in Page
      BY <3>1, ArbiterAssumption DEF BrkFree, Page, TypeOK
    <3>3. unit' \in [Page -> UnitRec] /\ ProtUpdate(c, ab_brk) \in SUBSET (Task \X Page)
      BY <1>7, <3>1, <3>2
    <3>4. pc' \in [Task -> PC] /\ req' \in [Task -> Req] /\ chan' \in Seq(Task) /\ apc' \in APC
      BY <3>1, ReplyType DEF TypeOK, clientVars, APC
    <3> QED
      BY <3>1, <3>2, <3>3, <3>4, BrkType DEF TypeOK, descVars, catVars
  <2> QED BY <2>1, <2>2
<1>9. CASE malloc_mmap(c)
  <2>1. CASE Abort \/ KernelOops \/ Overlap
    BY <2>1, StopType
  <2>2. CASE ~(Abort \/ KernelOops \/ Overlap)
    <3>1. PICK a \in Page :
            /\ absys_mmap(c, a) /\ NewUnit(c, a, "mmap") /\ insert_mmapped_unit(a)
            /\ apc' = "mprotect" /\ ptr' = a /\ todo' = ProtUpdate(c, a)
            /\ UNCHANGED <<clientVars, descVars, catVars>>
      BY <1>9, <2>2 DEF malloc_mmap
    <3>2. unit' \in [Page -> UnitRec] /\ ProtUpdate(c, a) \in SUBSET (Task \X Page)
      BY <1>7, <3>1
    <3> QED
      BY <3>1, <3>2, MmapType, InsertType
      DEF TypeOK, clientVars, descVars, catVars, APC
  <2> QED BY <2>1, <2>2
<1>10. CASE handle_free_rpc(c)
  <2> req[c].page \in Page
    BY DEF TypeOK, Req
  <2>1. CASE Abort \/ KernelOops
    BY <2>1, StopType
  <2>2. CASE /\ absys_munmap(c, req[c].page)
             /\ unit' = [unit EXCEPT ![req[c].page] = GoneUnit]
             /\ list_del_entry(req[c].page)
             /\ Reply(c)
             /\ UNCHANGED <<todo, ptr, descVars, catVars>>
    BY <2>2, ReplyType, MunmapType, DeleteType, GoneUnitType DEF TypeOK, descVars, catVars
  <2>3. CASE Reply(c) /\ UNCHANGED <<kernelVars, todo, ptr, descVars, catVars, unitVars>>
    BY <2>3, ReplyType DEF TypeOK, kernelVars, descVars, catVars, unitVars
  <2> QED
    BY <1>10, <2>1, <2>2, <2>3 DEF handle_free_rpc, free_chunk, free_mmapped
<1>11. CASE realloc_free(c)
  BY <1>11, ThenFreeType DEF realloc_free, TypeOK, kernelVars, descVars, catVars, unitVars
<1>12. CASE realloc_inplace(c)
  BY <1>12, ReplyType DEF realloc_inplace, TypeOK, kernelVars, descVars, catVars, unitVars
<1> QED
  BY <1>1, <1>2, <1>3, <1>4, <1>5, <1>6, <1>8, <1>9, <1>10, <1>11, <1>12
  DEF Handle, handle_malloc_rpc

LEMMA ServerType ==
  ASSUME TypeOK, server_loop
  PROVE  TypeOK'
<1>1. CASE unknown_client
  BY <1>1 DEF unknown_client, TypeOK, kernelVars, arbiterVars, descVars, catVars, unitVars
<1>2. CASE \E c \in Task : Handle(c)
  BY <1>2, HandleType
<1>3. CASE update_step
  <2>1. PICK p \in todo :
           \/ KernelOops
           \/ /\ absys_mprotect(p[1], p[2],
                   check_mem_prot(label[p[1]], own[p[1]], unit[p[2]].label))
              /\ todo' = todo \ {p}
              /\ UNCHANGED <<clientVars, apc, ptr, descVars, catVars, unitVars>>
    BY <1>3 DEF update_step
  <2>2. p[1] \in Task /\ p[2] \in Page
    BY DEF TypeOK
  <2>3. check_mem_prot(label[p[1]], own[p[1]], unit[p[2]].label) \in Prot
    BY ProtType DEF Prot
  <2> QED
    BY <2>1, <2>2, <2>3, StopType, MprotectType
    DEF TypeOK, clientVars, descVars, catVars, unitVars
<1>4. CASE update_done
  <2> Head(chan) \in Task
    BY <1>4 DEF update_done, TypeOK
  <2>1. unit' \in [Page -> UnitRec]
    BY <1>4, GivenType DEF update_done, TypeOK
  <2>2. ptr' \in Page
    BY <1>4, ArbiterAssumption DEF update_done, Page
  <2> QED
    BY <1>4, <2>1, <2>2, FinishType DEF update_done, TypeOK, kernelVars, descVars, catVars
<1> QED
  BY <1>1, <1>2, <1>3, <1>4 DEF server_loop

\* Every variable keeps its type (mm, ab_tasks and ab_brk of the kernel, the
\* queue of requests, client_list, ustate_list and mmapped_ustate_list).
THEOREM TypeCorrect == Spec => []TypeOK
<1>1. TypeOK /\ [Next]_vars => TypeOK'
  <2> SUFFICES ASSUME TypeOK, [Next]_vars PROVE TypeOK'
    OBVIOUS
  <2>1. CASE server_loop
    BY <2>1, ServerType
  <2>2. CASE \E t \in Task : Client(t)
    BY <2>2, ClientType
  <2>3. CASE UNCHANGED vars
    BY <2>3 DEF TypeOK, vars, kernelVars, clientVars, arbiterVars, descVars, catVars, unitVars
  <2> QED BY <2>1, <2>2, <2>3 DEF Next
<1> QED
  BY InitType, <1>1, PTL DEF Spec

---------------------------------------------------------------------------
(* The inductive invariant: clients                                        *)

\* A task that sends a request joins the end of the queue.
LEMMA SendChan ==
  ASSUME TypeOK, ChanInv, NEW t \in Task, NEW r \in Req, Send(t, r), pc[t] # "wait"
  PROVE  /\ ChanInv'
         /\ chan # <<>> => Head(chan') = Head(chan) /\ Head(chan) # t
         /\ chan' # <<>>
<1>1. chan \in Seq(Task) /\ chan' = Append(chan, t) /\ pc' = [pc EXCEPT ![t] = "wait"]
  BY DEF TypeOK, Send
<1>2. \A i \in DOMAIN chan : chan[i] # t
  BY DEF ChanInv
<1>3. /\ DOMAIN chan' = 1..(Len(chan) + 1)
      /\ \A i \in DOMAIN chan' : chan'[i] = IF i = Len(chan) + 1 THEN t ELSE chan[i]
  BY <1>1
<1>4. ChanInv'
  BY <1>1, <1>2, <1>3 DEF ChanInv, TypeOK
<1> QED
  BY <1>1, <1>2, <1>4

LEMMA SendCore ==
  ASSUME TypeOK, Core, NEW t \in Task, NEW r \in Req, Send(t, r),
         Known(r.label), Known(r.own), r.size # "gap",
         \/ pc[t] = "run" /\ r.op # "fork"
         \/ pc[t] = "create" /\ r = req[t]
  PROVE  Core'
<1> USE DEF Core
<1>1. /\ req' = [req EXCEPT ![t] = r] /\ pc' = [pc EXCEPT ![t] = "wait"]
      /\ UNCHANGED <<mm, apc, todo, reg, label, own, cat_gen, ncreate, cats, unit>>
  BY DEF Send, kernelVars, arbiterVars, descVars, catVars, unitVars
<1>2. /\ ChanInv' /\ chan' # <<>>
      /\ chan # <<>> => Head(chan') = Head(chan) /\ Head(chan) # t
  BY SendChan
<1>3. \A u \in Task : (InFork(u)' <=> InFork(u)) \/ chan = <<>>
  BY <1>1, <1>2 DEF InFork, TypeOK
<1>4. KnownInv' /\ NoGap'
  BY <1>1 DEF KnownInv, Known, NoGap, TypeOK
<1>5. KidInv'
  <2>1. \A u \in Task : Forking(u)' => Forking(u) /\ req'[u].pid = req[u].pid
    BY <1>1 DEF Forking, TypeOK
  <2>2. \A u \in Task : InFork(u) => InFork(u)'
    BY <1>3 DEF InFork
  <2>3. \A u \in Task : NeverServed(u)' <=> NeverServed(u)
    BY <1>1 DEF NeverServed
  <2>4. \A u \in Task : req[u].pid \in Task
    BY DEF TypeOK, Req
  <2> QED
    BY <1>1, <2>1, <2>2, <2>3, <2>4 DEF KidInv, TypeOK
<1>6. TodoInv'
  BY <1>1, <1>2, <1>3 DEF TodoInv, InFork, TypeOK
<1>7. CatsInv' /\ ByInv' /\ ProtInv'
  BY <1>1 DEF CatsInv, ByInv, ProtInv, units, MayWrite, Allowed
<1> QED
  BY <1>2, <1>4, <1>5, <1>6, <1>7

LEMMA KnownEmpty == Known(Empty)
  BY DEF Known, Empty

\* A thread starts or exits: it sends nothing, and mappings only go away.
LEMMA StartExitCore ==
  ASSUME TypeOK, Core, NEW t \in Task, pc[t] \in {"cloned", "run"},
         NEW p \in {"run", "dead"}, pc' = [pc EXCEPT ![t] = p],
         mm' = mm \/ mm' = [mm EXCEPT ![t] = [a \in Page |-> "U"]],
         UNCHANGED <<chan, req, apc, todo, reg, label, own, cat_gen, ncreate, cats, unit>>
  PROVE  Core'
<1>1. ChanInv'
  BY DEF Core, ChanInv, TypeOK
<1>2. KidInv'
  <2>1. \A u \in Task : Forking(u)' => Forking(u)
    BY DEF Forking, TypeOK
  <2>4. \A u \in Task : InFork(u)' <=> InFork(u)
    BY DEF InFork
  <2>5. \A u \in Task : NeverServed(u)' <=> NeverServed(u)
    BY DEF NeverServed
  <2>2. \A u \in Task : req[u].pid \in Task
    BY DEF TypeOK, Req
  <2>3. \A u \in Task : pc'[u] = "none" <=> pc[u] = "none"
    BY DEF TypeOK
  <2> QED
    BY <2>1, <2>2, <2>3, <2>4, <2>5 DEF Core, KidInv
<1>3. ProtInv'
  <2>1. \A u \in Task, a \in Page : mm'[u][a] \in {"U", mm[u][a]}
    BY DEF TypeOK
  <2>2. /\ reg' = reg /\ units' = units /\ unit' = unit /\ todo' = todo
        /\ \A u, a : Allowed(u, a)' = Allowed(u, a)
    BY DEF units, Allowed
  <2>3. reg \subseteq Task /\ units \subseteq Page
    BY DEF TypeOK, units
  <2> QED
    BY <2>1, <2>2, <2>3 DEF Core, ProtInv
<1>4. CatsInv' /\ KnownInv' /\ TodoInv' /\ ByInv' /\ NoGap'
  BY DEF Core, CatsInv, KnownInv, Known, TodoInv, InFork, ByInv, units, MayWrite, NoGap
<1> QED
  BY <1>1, <1>2, <1>3, <1>4 DEF Core

LEMMA ClientCore ==
  ASSUME TypeOK, Core, "gap" \notin Sizes, NEW t \in Task, Client(t)
  PROVE  Core'
<1>1. CASE create_category(t)
  <2> PICK ty \in {CAT_S, CAT_I} : Send(t, [NoReq EXCEPT !.op = "create_cat", !.type = ty])
    BY <1>1 DEF create_category
  <2> DEFINE r == [NoReq EXCEPT !.op = "create_cat", !.type = ty]
  <2>1. /\ r \in Req
        /\ r.label = Empty /\ r.own = Empty /\ r.size # "gap" /\ r.op # "fork"
    BY NoReqType DEF Req, Op, NoReq
  <2> QED BY <1>1, <2>1, SendCore, KnownEmpty DEF create_category
<1>2. CASE ab_malloc(t)
  <2> PICK op \in {"malloc", "calloc"}, L \in Labels, sz \in Sizes :
             Known(L) /\ Send(t, [NoReq EXCEPT !.op = op, !.label = L, !.size = sz])
    BY <1>2 DEF ab_malloc
  <2> DEFINE r == [NoReq EXCEPT !.op = op, !.label = L, !.size = sz]
  <2>1. /\ r \in Req
        /\ r.label = L /\ r.own = Empty /\ r.size # "gap" /\ r.op # "fork"
    BY NoReqType, ArbiterAssumption DEF Req, Op, AllocOp, NoReq
  <2> QED BY <1>2, <2>1, SendCore, KnownEmpty DEF ab_malloc
<1>3. CASE ab_free(t)
  <2> PICK a \in Page : Send(t, [NoReq EXCEPT !.op = "free", !.page = a])
    BY <1>3 DEF ab_free, units
  <2> DEFINE r == [NoReq EXCEPT !.op = "free", !.page = a]
  <2>1. /\ r \in Req
        /\ r.label = Empty /\ r.own = Empty /\ r.size # "gap" /\ r.op # "fork"
    BY NoReqType DEF Req, Op, NoReq
  <2> QED BY <1>3, <2>1, SendCore, KnownEmpty DEF ab_free
<1>4. CASE get_info(t)
  <2>1. NoReq.label = Empty /\ NoReq.own = Empty /\ NoReq.size # "gap" /\ NoReq.op # "fork"
    BY DEF NoReq
  <2> QED BY <1>4, <2>1, NoReqType, SendCore, KnownEmpty DEF get_info
<1>5. CASE ab_pthread_join(t)
  <2> PICK u \in Task : Send(t, [NoReq EXCEPT !.op = "join", !.pid = u])
    BY <1>5 DEF ab_pthread_join
  <2> DEFINE r == [NoReq EXCEPT !.op = "join", !.pid = u]
  <2>1. /\ r \in Req
        /\ r.label = Empty /\ r.own = Empty /\ r.size # "gap" /\ r.op # "fork"
    BY NoReqType DEF Req, Op, NoReq
  <2> QED BY <1>5, <2>1, SendCore, KnownEmpty DEF ab_pthread_join
<1>6. CASE ab_pthread_create_clone(t)
  <2>1. PICK u \in Task, L \in Labels, O \in Owns :
        /\ pc[u] = "none" /\ Known(L) /\ Known(O)
        /\ mm' = [mm EXCEPT ![u] = mm[t]]
        /\ pc' = [pc EXCEPT ![t] = "create", ![u] = "cloned"]
        /\ req' = [req EXCEPT ![t] = ForkReq(u, L, O)]
    BY <1>6, ZenonT(30) DEF ab_pthread_create_clone
  <2>2. /\ pc[t] = "run"
        /\ UNCHANGED <<chan, apc, todo, reg, label, own, cat_gen, ncreate, cats, unit>>
    BY <1>6 DEF ab_pthread_create_clone, arbiterVars, descVars, catVars, unitVars
  <2>3. /\ ForkReq(u, L, O).pid = u /\ ForkReq(u, L, O).label = L
        /\ ForkReq(u, L, O).own = O /\ ForkReq(u, L, O).size # "gap"
    BY DEF ForkReq, NoReq
  <2>4. u # t /\ u \notin reg /\ NeverServed(u)
    BY <2>1, <2>2 DEF Core, KidInv
  <2>5. ChanInv'
    BY <2>1, <2>2 DEF Core, ChanInv, TypeOK
  <2>6. KnownInv' /\ NoGap'
    BY <2>1, <2>2, <2>3 DEF Core, KnownInv, Known, NoGap, TypeOK
  <2>7. \A i \in DOMAIN chan : chan[i] # t /\ chan[i] # u
    BY <2>1, <2>2 DEF Core, ChanInv
  <2>8. chan # <<>> => Head(chan) \in Task /\ Head(chan) # t /\ req'[Head(chan)] = req[Head(chan)]
    BY <2>1, <2>7 DEF TypeOK
  <2>9. \A v \in Task : InFork(v) => InFork(v)'
    BY <2>2, <2>8 DEF InFork
  <2>10. KidInv'
    <3>1. \A v \in Task : Forking(v)' => v = t \/ (Forking(v) /\ req'[v] = req[v] /\ v # t)
      BY <2>1, <2>2, <2>4 DEF Forking, TypeOK
    <3>2. req'[t].pid = u
      BY <2>1, <2>3 DEF TypeOK
    <3>3. \A v \in Task : NeverServed(v)' <=> NeverServed(v)
      BY <2>2 DEF NeverServed
    <3>4. \A v \in Task : req[v].pid \in Task
      BY DEF TypeOK, Req
    <3>5. \A v \in Task : pc'[v] = "none" => pc[v] = "none"
      BY <2>1, <2>4 DEF TypeOK
    <3>6. \A v \in Task : pc[v] # "none" => pc'[v] # "none"
      BY <2>1, <2>4 DEF TypeOK
    <3>7. pc'[u] # "none"
      BY <2>1, <2>4 DEF TypeOK
    <3>8. \A v \in Task : Forking(v) => req[v].pid # u
      BY <2>1 DEF Core, KidInv
    <3> QED
      BY <2>2, <2>4, <2>9, <3>1, <3>2, <3>3, <3>4, <3>5, <3>6, <3>7, <3>8 DEF Core, KidInv
  <2>11. TodoInv'
    BY <2>2, <2>8 DEF Core, TodoInv, InFork, TypeOK
  <2>12. CatsInv' /\ ByInv'
    BY <2>2 DEF Core, CatsInv, ByInv, units, MayWrite
  <2>13. ProtInv'
    BY <2>1, <2>2, <2>4 DEF Core, ProtInv, units, Allowed, TypeOK
  <2> QED
    BY <2>5, <2>6, <2>10, <2>11, <2>12, <2>13 DEF Core
<1>7. CASE pre_start_routine(t)
  <2>1. /\ pc[t] = "cloned" /\ pc' = [pc EXCEPT ![t] = "run"]
        /\ UNCHANGED <<mm, chan, req, apc, todo, reg, label, own, cat_gen, ncreate, cats, unit>>
    BY <1>7 DEF pre_start_routine, arbiterVars, descVars, catVars, unitVars
  <2> QED
    BY <2>1, StartExitCore
<1>8. CASE ab_pthread_create_fork(t)
  <2>1. /\ req[t] \in Req /\ Known(req[t].label) /\ Known(req[t].own) /\ req[t].size # "gap"
    BY DEF TypeOK, Core, KnownInv, NoGap
  <2> QED
    BY <1>8, <2>1, SendCore DEF ab_pthread_create_fork
<1>9. CASE exit(t)
  <2>1. /\ pc[t] = "run" /\ pc' = [pc EXCEPT ![t] = "dead"]
        /\ mm' = [mm EXCEPT ![t] = [a \in Page |-> "U"]]
        /\ UNCHANGED <<chan, req, apc, todo, reg, label, own, cat_gen, ncreate, cats, unit>>
    BY <1>9 DEF exit, arbiterVars, descVars, catVars, unitVars
  <2> QED
    BY <2>1, StartExitCore
<1>10. CASE ab_realloc(t)
  <2> PICK a \in Page, sz \in Sizes :
             Send(t, [NoReq EXCEPT !.op = "realloc", !.page = a, !.size = sz])
    BY <1>10 DEF ab_realloc, units
  <2> DEFINE r == [NoReq EXCEPT !.op = "realloc", !.page = a, !.size = sz]
  <2>1. /\ r \in Req
        /\ r.label = Empty /\ r.own = Empty /\ r.size # "gap" /\ r.op # "fork"
    BY NoReqType, ArbiterAssumption DEF Req, Op, AllocOp, NoReq
  <2> QED BY <1>10, <2>1, SendCore, KnownEmpty DEF ab_realloc
<1> QED
  BY <1>1, <1>2, <1>3, <1>4, <1>5, <1>6, <1>7, <1>8, <1>9, <1>10 DEF Client

---------------------------------------------------------------------------
(* The inductive invariant: the arbiter                                    *)

\* The task that is being served waits, and it is served for the request it
\* is waiting for.
LEMMA HeadFacts ==
  ASSUME TypeOK, ChanInv, chan # <<>>
  PROVE  Head(chan) \in Task /\ pc[Head(chan)] = "wait"
  BY DEF TypeOK, ChanInv

LEMMA TailChan ==
  ASSUME TypeOK, ChanInv, chan # <<>>, chan' = Tail(chan),
         \A t \in Task : t # Head(chan) => pc'[t] = pc[t]
  PROVE  ChanInv'
<1>1. /\ DOMAIN chan' = 1..(Len(chan) - 1)
      /\ \A i \in DOMAIN chan' : i + 1 \in DOMAIN chan /\ chan'[i] = chan[i + 1]
  BY DEF TypeOK
<1>2. \A i \in DOMAIN chan' : chan'[i] \in Task /\ chan'[i] # Head(chan)
  BY <1>1 DEF ChanInv, TypeOK
<1>3. ASSUME NEW i \in DOMAIN chan', NEW j \in DOMAIN chan', chan'[i] = chan'[j]
      PROVE  i = j
  BY <1>1, <1>3 DEF ChanInv
<1>4. \A i \in DOMAIN chan' : pc'[chan'[i]] = "wait"
  BY <1>1, <1>2 DEF ChanInv
<1> QED
  BY <1>3, <1>4 DEF ChanInv

\* What a reply does to the invariant, whatever else the handler changes.
LEMMA ReplyCore ==
  ASSUME TypeOK, Core, chan # <<>>, Reply(Head(chan)), todo' = {},
         reg' \subseteq reg,
         \A a \in Page : unit'[a].by \in {unit[a].by, Root},
         cats \subseteq cats'
  PROVE  /\ ChanInv' /\ KidInv' /\ TodoInv' /\ NoGap'
         /\ \A t \in Task : Known(req[t].label)' /\ Known(req[t].own)'
<1> DEFINE c == Head(chan)
<1>1. /\ c \in Task /\ pc[c] = "wait" /\ apc' = "recv" /\ chan' = Tail(chan)
      /\ pc' = [pc EXCEPT ![c] = "run"] /\ req' = [req EXCEPT ![c] = NoReq]
  BY HeadFacts DEF Core, Reply
<1>2. ChanInv'
  BY <1>1, TailChan DEF Core, TypeOK
<1>3. KidInv'
  <2>1. \A t \in Task : Forking(t)' => Forking(t) /\ t # c /\ req'[t] = req[t]
    BY <1>1 DEF Forking, TypeOK
  <2>2. \A t \in Task : NeverServed(t) => NeverServed(t)'
    BY DEF NeverServed
  <2>3. \A t \in Task : InFork(t) => t = c
    BY DEF InFork
  <2>4. \A t \in Task : req[t].pid \in Task
    BY DEF TypeOK, Req
  <2>5. \A t \in Task : pc'[t] = "none" <=> pc[t] = "none"
    BY <1>1 DEF TypeOK
  <2> HIDE DEF c
  <2> QED
    BY <2>1, <2>2, <2>3, <2>4, <2>5 DEF Core, KidInv
<1>4. TodoInv'
  BY <1>1 DEF TodoInv
<1>5. NoReq.label = Empty /\ NoReq.own = Empty /\ NoReq.size # "gap"
  BY DEF NoReq
<1>6. NoGap'
  BY <1>1, <1>5 DEF Core, NoGap, TypeOK
<1>7. \A t \in Task : Known(req[t].label)' /\ Known(req[t].own)'
  <2> SUFFICES ASSUME NEW t \in Task
               PROVE  Known(req[t].label)' /\ Known(req[t].own)'
    OBVIOUS
  <2>1. CASE t = c
    BY <1>1, <1>5, <2>1 DEF Known, Empty, TypeOK
  <2>2. CASE t # c
    BY <1>1, <2>2 DEF Core, KnownInv, Known, TypeOK
  <2> QED BY <2>1, <2>2
<1> QED
  BY <1>2, <1>3, <1>4, <1>6, <1>7

\* The same for a realloc that has its new memory and goes on to free the old.
LEMMA ThenFreeCore ==
  ASSUME TypeOK, Core, chan # <<>>, ThenFree(Head(chan)), req[Head(chan)].op = "realloc",
         todo' = {}, reg' \subseteq reg,
         \A a \in Page : unit'[a].by \in {unit[a].by, Root},
         cats \subseteq cats'
  PROVE  /\ ChanInv' /\ KidInv' /\ TodoInv' /\ NoGap'
         /\ \A t \in Task : Known(req[t].label)' /\ Known(req[t].own)'
<1> DEFINE c == Head(chan)
<1>1. /\ c \in Task /\ pc[c] = "wait" /\ apc' = "recv" /\ chan' = chan /\ pc' = pc
      /\ req' = [req EXCEPT ![c] = [req[c] EXCEPT !.op = "free"]]
  BY HeadFacts DEF Core, ThenFree
<1>2. \A t \in Task : /\ req'[t].pid = req[t].pid /\ req'[t].label = req[t].label
                      /\ req'[t].own = req[t].own /\ req'[t].size = req[t].size
                      /\ t # c => req'[t] = req[t]
  <2>1. [req[c] EXCEPT !.op = "free"].pid = req[c].pid
        /\ [req[c] EXCEPT !.op = "free"].label = req[c].label
        /\ [req[c] EXCEPT !.op = "free"].own = req[c].own
        /\ [req[c] EXCEPT !.op = "free"].size = req[c].size
    BY <1>1 DEF TypeOK, Req
  <2> QED BY <1>1, <2>1 DEF TypeOK
<1>3. req'[c].op = "free"
  BY <1>1 DEF TypeOK, Req
<1>4. ChanInv'
  BY <1>1 DEF Core, ChanInv
<1>5. KidInv'
  <2>1. \A t \in Task : Forking(t)' => Forking(t) /\ t # c
    BY <1>1, <1>2, <1>3 DEF Forking
  <2>2. \A t \in Task : NeverServed(t) => NeverServed(t)'
    BY DEF NeverServed
  <2>3. \A t \in Task : ~InFork(t)
    BY DEF InFork
  <2>4. \A t \in Task : req[t].pid \in Task
    BY DEF TypeOK, Req
  <2> HIDE DEF c
  <2> QED
    BY <1>1, <1>2, <2>1, <2>2, <2>3, <2>4 DEF Core, KidInv
<1>6. TodoInv'
  BY <1>1 DEF TodoInv
<1>7. NoGap'
  BY <1>2 DEF Core, NoGap
<1>8. \A t \in Task : Known(req[t].label)' /\ Known(req[t].own)'
  BY <1>2 DEF Core, KnownInv, Known
<1> QED
  BY <1>4, <1>5, <1>6, <1>7, <1>8

\* The arbiter or the kernel stops in the middle of a request.
LEMMA StopCore ==
  ASSUME TypeOK, Core, Abort \/ KernelOops \/ Overlap,
         apc = "recv" \/ (apc = "mprotect" /\ KernelOops)
  PROVE  Core'
<1>1. /\ apc' \in {"abort", "oops", "overlap"}
      /\ apc = "mprotect" => apc' = "oops"
      /\ UNCHANGED <<mm, chan, pc, req, todo, reg, label, own, cat_gen, ncreate, cats, unit>>
  BY DEF Abort, KernelOops, Overlap, kernelVars, clientVars, descVars, catVars, unitVars
<1>2. \A t \in Task : InFork(t) => InFork(t)'
  BY <1>1 DEF InFork
<1>3. \A t \in Task : (Forking(t)' <=> Forking(t)) /\ (NeverServed(t)' <=> NeverServed(t))
  BY <1>1 DEF Forking, NeverServed
<1>4. KidInv'
  <2>1. \A t \in Task : req[t].pid \in Task
    BY DEF TypeOK, Req
  <2> QED
    BY <1>1, <1>2, <1>3, <2>1 DEF Core, KidInv
<1>5. TodoInv'
  <2>1. chan # <<>> => Head(chan) \in Task
    BY DEF TypeOK
  <2>2. InFork(Head(chan)) => InFork(Head(chan))'
    BY <1>1, <2>1 DEF InFork
  <2> QED
    BY <1>1, <2>2 DEF Core, TodoInv, TypeOK
<1>6. CatsInv' /\ KnownInv' /\ ChanInv' /\ ByInv' /\ ProtInv' /\ NoGap'
  BY <1>1 DEF Core, CatsInv, KnownInv, Known, ChanInv, ByInv, ProtInv, units, MayWrite,
              Allowed, NoGap
<1> QED
  BY <1>4, <1>5, <1>6 DEF Core

\* A request is answered, or a realloc turns into a free, and nothing else
\* happens.
LEMMA QuietCore ==
  ASSUME TypeOK, Core, apc = "recv", chan # <<>>,
         \/ Reply(Head(chan))
         \/ ThenFree(Head(chan)) /\ req[Head(chan)].op = "realloc",
         UNCHANGED <<mm, todo, reg, label, own, cat_gen, ncreate, cats, unit>>
  PROVE  Core'
<1>1. todo = {}
  BY DEF Core, TodoInv
<1>2. /\ ChanInv' /\ KidInv' /\ TodoInv' /\ NoGap'
      /\ \A t \in Task : Known(req[t].label)' /\ Known(req[t].own)'
  BY <1>1, ReplyCore, ThenFreeCore
<1>3. CatsInv' /\ KnownInv' /\ ByInv' /\ ProtInv'
  BY <1>2 DEF Core, CatsInv, KnownInv, Known, ByInv, ProtInv, units, MayWrite, Allowed
<1> QED
  BY <1>2, <1>3 DEF Core

\* The category create_cat returns is not in use, and owning it changes
\* nothing for memory that exists.
LEMMA CreateCatCore ==
  ASSUME TypeOK, Core, NEW c \in Task, handle_create_cat_rpc(c), ncreate' < NCAT
  PROVE  Core' /\ CategoryFreshStep
<1> DEFINE g   == next_cat_gen(cat_gen)
           cat == create_cat(req[c].type, g)
<1>1. apc = "recv" /\ chan # <<>> /\ c = Head(chan) /\ c \in reg
  BY DEF handle_create_cat_rpc, Serving
<1>2. CASE Abort
  BY <1>1, <1>2, StopCore DEF CategoryFreshStep, Abort, descVars
<1>3. CASE ~Abort
  <2>1. /\ cat_gen' = g /\ ncreate' = ncreate + 1 /\ cats' = cats \cup {cat}
        /\ Reply(c) /\ cat # 0
        /\ UNCHANGED <<mm, todo, reg, label, unit>>
    BY <1>3 DEF handle_create_cat_rpc, kernelVars, unitVars
  <2>2. PICK i \in Slot : own[c][i] = 0 /\ own' = [own EXCEPT ![c] = [own[c] EXCEPT ![i] = cat]]
    BY <1>3 DEF handle_create_cat_rpc, FirstBlank
  <2>3. req[c].type \in {0, NCAT} /\ cat_gen = ncreate /\ ncreate \in Nat /\ ncreate + 1 < NCAT
    BY <2>1 DEF TypeOK, Req, CAT_S, CAT_I, Core, CatsInv
  <2>4. g = ncreate + 1 /\ cat = req[c].type + ncreate + 1 /\ cat \in cat_t
    BY <2>3, LabelAssumption DEF next_cat_gen, create_cat, cat_t
  <2> HIDE DEF g, cat
  <2>5. cat \notin cats
    BY <2>3, <2>4, LabelAssumption DEF Core, CatsInv
  <2>6. CatsInv'
    BY <2>1, <2>3, <2>4, LabelAssumption DEF Core, CatsInv
  <2>7. ASSUME NEW X \in label_t, Known(X) PROVE ~Holds(X, cat)
    BY <2>1, <2>5, <2>7 DEF Known, Holds
  <2>8. todo = {} /\ todo' = {}
    BY <1>1, <2>1 DEF Core, TodoInv
  <2>9. /\ ChanInv' /\ KidInv' /\ TodoInv' /\ NoGap'
        /\ \A t \in Task : Known(req[t].label)' /\ Known(req[t].own)'
    BY <1>1, <2>1, <2>8, ReplyCore
  <2>10. KnownInv'
    <3>1. \A t \in Task : Known(label[t])'
      BY <2>1 DEF Core, KnownInv, Known
    <3>2. \A t \in Task : Known(own[t])'
      <4> SUFFICES ASSUME NEW t \in Task, NEW j \in Slot
                   PROVE  own'[t][j] = 0 \/ own'[t][j] \in cats'
        BY DEF Known
      <4>1. own[t][j] = 0 \/ own[t][j] \in cats
        BY DEF Core, KnownInv, Known
      <4>2. own'[t][j] = own[t][j] \/ own'[t][j] = cat
        BY <2>2 DEF TypeOK, label_t
      <4> QED BY <4>1, <4>2, <2>1
    <3>3. \A a \in Page : Known(unit[a].label)'
      BY <2>1 DEF Core, KnownInv, Known
    <3> QED BY <2>9, <3>1, <3>2, <3>3 DEF KnownInv
  <2>11. ASSUME NEW a \in Page
         PROVE  ~Holds(unit[a].label, cat) /\ unit[a].label \in label_t
    BY <2>7 DEF Core, KnownInv, TypeOK, UnitRec
  <2>12. ASSUME NEW t \in Task
         PROVE  /\ label[t] \in label_t /\ ~Holds(label[t], cat)
                /\ own[t] \in label_t /\ ~Holds(own[t], cat)
    BY <2>7 DEF Core, KnownInv, TypeOK
  <2>13. ASSUME NEW t \in Task, NEW a \in Page
         PROVE  /\ Allowed(t, a)' = Allowed(t, a)
                /\ MayWrite(t, unit[a].label) => MayWrite(t, unit[a].label)'
    <3>1. CASE t = c
      <4>1. own'[t] = [own[t] EXCEPT ![i] = cat] /\ own[t][i] = 0
        BY <2>2, <3>1 DEF TypeOK
      <4>2. check_mem_prot(label[t], own'[t], unit[a].label)
              = check_mem_prot(label[t], own[t], unit[a].label)
        BY <2>4, <2>11, <2>12, <4>1, FreshOwnKeepsProt
      <4>3. check_label(label[t], own[t], unit[a].label, Empty)
              <=> check_label(label[t], own'[t], unit[a].label, Empty)
        BY <2>4, <2>11, <2>12, <4>1, FreshOwnCheck
      <4> QED BY <2>1, <4>2, <4>3 DEF Allowed, MayWrite
    <3>2. CASE t # c
      <4>1. own'[t] = own[t]
        BY <2>2, <3>2 DEF TypeOK
      <4> QED BY <2>1, <4>1 DEF Allowed, MayWrite
    <3> QED BY <3>1, <3>2
  <2>14. ByInv'
    <3> SUFFICES ASSUME NEW a \in units', unit'[a].by \in reg'
                 PROVE  MayWrite(unit[a].by, unit[a].label)'
      BY DEF ByInv
    <3>1. a \in units /\ unit[a].by \in reg /\ unit[a].by \in Task /\ a \in Page
      BY <2>1 DEF units, TypeOK
    <3>2. MayWrite(unit[a].by, unit[a].label)
      BY <3>1 DEF Core, ByInv
    <3> QED BY <2>1, <2>13, <3>1, <3>2 DEF MayWrite
  <2>15. ProtInv'
    BY <2>1, <2>8, <2>13 DEF Core, ProtInv, units, TypeOK
  <2>16. CategoryFreshStep
    <3> SUFFICES ASSUME NEW t \in reg, NEW j \in Slot, own[t][j] = 0, own'[t][j] # 0
                 PROVE  /\ \A u \in reg : ~Holds(label[u], own'[t][j]) /\ ~Holds(own[u], own'[t][j])
                        /\ \A a \in units : ~Holds(unit[a].label, own'[t][j])
      BY DEF CategoryFreshStep
    <3>1. own'[t][j] = cat
      BY <2>2 DEF TypeOK, label_t
    <3> QED BY <2>11, <2>12, <3>1 DEF TypeOK, units
  <2> QED
    BY <2>6, <2>9, <2>10, <2>14, <2>15, <2>16 DEF Core
<1> QED
  BY <1>2, <1>3

\* A child is registered: its parent is the only one that can register it,
\* and every unit is on the list of malloc_update.
LEMMA ForkCore ==
  ASSUME TypeOK, Core, NEW c \in Task, handle_fork_rpc(c)
  PROVE  Core' /\ \A t \in reg : own'[t] = own[t]
<1> DEFINE u == req[c].pid
<1>1. apc = "recv" /\ chan # <<>> /\ c = Head(chan) /\ c \in reg /\ req[c].op = "fork"
  BY DEF handle_fork_rpc, Serving
<1>2. CASE Reply(c) /\ UNCHANGED <<kernelVars, todo, ptr, descVars, catVars, unitVars>>
  BY <1>1, <1>2, QuietCore DEF kernelVars, descVars, catVars, unitVars
<1>3. CASE /\ reg' = reg \cup {u}
           /\ label' = [label EXCEPT ![u] = req[c].label]
           /\ own' = [own EXCEPT ![u] = req[c].own]
           /\ apc' = "mprotect"
           /\ todo' = MallocUpdate(u)
           /\ UNCHANGED <<kernelVars, clientVars, ptr, catVars, unitVars>>
  <2>1. UNCHANGED <<mm, pc, req, chan, cat_gen, ncreate, cats, unit>>
    BY <1>3 DEF kernelVars, clientVars, catVars, unitVars
  <2>2. pc[c] = "wait" /\ Forking(c)
    BY <1>1, HeadFacts DEF Core, Forking
  <2>3. \A t \in Task : ~InFork(t)
    BY <1>1 DEF InFork
  <2>4. u \in Task /\ u \notin reg /\ NeverServed(u) /\ pc[u] # "none"
    BY <2>2, <2>3 DEF Core, KidInv, TypeOK, Req
  <2>5. \A t \in Task : t # u => label'[t] = label[t] /\ own'[t] = own[t]
    BY <1>3, <2>4 DEF TypeOK
  <2>6. InFork(c)'
    BY <1>1, <1>3, <2>1 DEF InFork
  <2> HIDE DEF u
  <2>7. KidInv'
    <3>1. \A t \in Task : (Forking(t)' <=> Forking(t)) /\ (NeverServed(t)' <=> NeverServed(t))
      BY <2>1 DEF Forking, NeverServed
    <3>2. \A t \in Task : req[t].pid \in Task
      BY DEF TypeOK, Req
    <3>3. \A t \in Task : Forking(t) /\ t # c => req[t].pid # u /\ req[t].pid \notin reg
      BY <2>2, <2>3, <3>2 DEF Core, KidInv, u
    <3> QED
      BY <1>3, <2>1, <2>4, <2>6, <3>1, <3>2, <3>3 DEF Core, KidInv
  <2>8. TodoInv'
    <3>1. \A t \in Task, a \in Page : <<t, a>> \in todo' => t = u
      BY <1>3 DEF MallocUpdate
    <3> QED
      BY <1>1, <1>3, <2>1, <2>6, <3>1 DEF TodoInv, u
  <2>9. KnownInv'
    <3>1. Known(req[c].label) /\ Known(req[c].own)
      BY DEF Core, KnownInv
    <3> QED
      BY <1>3, <2>1, <2>4, <3>1 DEF Core, KnownInv, Known, TypeOK
  <2>10. ByInv'
    BY <1>3, <2>1, <2>4, <2>5 DEF Core, ByInv, units, NeverServed, MayWrite, TypeOK, UnitRec
  <2>11. ProtInv'
    <3> SUFFICES ASSUME NEW t \in reg', NEW a \in units',
                        unit'[a].by # t, <<t, a>> \notin todo'
                 PROVE  mm'[t][a] \in {"U", Allowed(t, a)'}
      BY DEF ProtInv
    <3>1. a \in units
      BY <2>1 DEF units
    <3>2. t # u /\ t \in reg /\ t \in Task
      BY <1>3, <3>1 DEF MallocUpdate, TypeOK
    <3>3. mm[t][a] \in {"U", Allowed(t, a)}
      BY <1>1, <2>1, <3>1, <3>2 DEF Core, ProtInv, TodoInv
    <3> QED BY <2>1, <2>5, <3>2, <3>3 DEF Allowed
  <2>12. CatsInv' /\ ChanInv' /\ NoGap'
    BY <2>1 DEF Core, CatsInv, ChanInv, NoGap
  <2> QED
    BY <2>4, <2>5, <2>7, <2>8, <2>9, <2>10, <2>11, <2>12 DEF Core, TypeOK
<1> QED
  BY <1>2, <1>3 DEF handle_fork_rpc

LEMMA JoinCore ==
  ASSUME TypeOK, Core, NEW c \in Task, handle_pthread_join_rpc(c)
  PROVE  Core' /\ \A t \in reg : t \in reg' => own'[t] = own[t]
<1> DEFINE u == req[c].pid
<1>1. /\ apc = "recv" /\ chan # <<>> /\ c = Head(chan) /\ Reply(c)
      /\ UNCHANGED <<mm, todo, cat_gen, ncreate, cats, unit>>
  BY DEF handle_pthread_join_rpc, Serving, kernelVars, catVars, unitVars
<1>2. CASE UNCHANGED descVars
  BY <1>1, <1>2, QuietCore DEF descVars
<1>3. CASE /\ reg' = reg \ {u}
           /\ label' = [label EXCEPT ![u] = Empty]
           /\ own' = [own EXCEPT ![u] = Empty]
  <2>1. todo = {} /\ todo' = {}
    BY <1>1 DEF Core, TodoInv
  <2>2. /\ ChanInv' /\ KidInv' /\ TodoInv' /\ NoGap'
        /\ \A t \in Task : Known(req[t].label)' /\ Known(req[t].own)'
    BY <1>1, <1>3, <2>1, ReplyCore
  <2>3. \A t \in reg' : t \in reg /\ t \in Task /\ label'[t] = label[t] /\ own'[t] = own[t]
    BY <1>3 DEF TypeOK
  <2>4. KnownInv'
    BY <1>1, <1>3, <2>2, KnownEmpty DEF Core, KnownInv, Known, TypeOK
  <2>5. CatsInv' /\ ByInv' /\ ProtInv'
    BY <1>1, <2>1, <2>3 DEF Core, CatsInv, ByInv, ProtInv, units, MayWrite, Allowed
  <2> QED
    BY <2>2, <2>3, <2>4, <2>5 DEF Core
<1> QED
  BY <1>2, <1>3 DEF handle_pthread_join_rpc

\* A unit is made: the client that had it made may write it, and everyone
\* else is on the list of prot_update.
LEMMA NewUnitCore ==
  ASSUME TypeOK, Core, NEW c \in Task, NEW a \in Page, NEW k \in {"brk", "mmap"},
         ServingAlloc(c), MayWrite(c, ReqLabel(c)), a \notin units,
         NewUnit(c, a, k), apc' = "mprotect", todo' = ProtUpdate(c, a),
         \A t \in Task, b \in Page : b # a => mm'[t][b] = mm[t][b],
         UNCHANGED <<clientVars, descVars, catVars>>
  PROVE  Core'
<1>1. /\ apc = "recv" /\ todo = {} /\ chan # <<>> /\ c = Head(chan) /\ c \in reg
      /\ req[c].op \in AllocOp
  BY DEF ServingAlloc, Serving, Core, TodoInv
<1>2. UNCHANGED <<pc, req, chan, reg, label, own, cat_gen, ncreate, cats>>
  BY DEF clientVars, descVars, catVars
<1>3. /\ \A b \in Page : b # a => unit'[b] = unit[b]
      /\ unit'[a].label = ReqLabel(c) /\ unit'[a].by = c /\ unit'[a].given = FALSE
      /\ \A b \in units' : b # a => b \in units
  BY DEF NewUnit, TypeOK, units
<1>4. KidInv'
  <2>1. \A t \in Task : Forking(t)' <=> Forking(t)
    BY <1>2 DEF Forking
  <2>2. \A t \in Task : ~InFork(t)
    BY <1>1 DEF InFork
  <2>3. \A t \in Task : NeverServed(t) /\ t # c => NeverServed(t)'
    BY <1>3 DEF NeverServed
  <2>4. \A t \in Task : req[t].pid \in Task
    BY DEF TypeOK, Req
  <2> QED
    BY <1>1, <1>2, <2>1, <2>2, <2>3, <2>4 DEF Core, KidInv
<1>5. TodoInv'
  BY <1>1, <1>2, <1>3 DEF TodoInv, ProtUpdate
<1>6. KnownInv'
  <2>1. Known(ReqLabel(c))
    BY DEF Core, KnownInv, ReqLabel, TypeOK, Req
  <2> QED
    BY <1>2, <1>3, <2>1 DEF Core, KnownInv, Known
<1>7. ByInv'
  <2> SUFFICES ASSUME NEW b \in units', unit'[b].by \in reg'
               PROVE  MayWrite(unit[b].by, unit[b].label)'
    BY DEF ByInv
  <2>1. CASE b = a
    BY <1>2, <1>3, <2>1 DEF MayWrite
  <2>2. CASE b # a
    <3>1. b \in units /\ unit'[b] = unit[b]
      BY <1>3, <2>2 DEF units
    <3> QED BY <1>2, <3>1 DEF Core, ByInv, MayWrite
  <2> QED BY <2>1, <2>2
<1>8. ProtInv'
  <2> SUFFICES ASSUME NEW t \in reg', NEW b \in units',
                      unit'[b].by # t, <<t, b>> \notin todo'
               PROVE  mm'[t][b] \in {"U", Allowed(t, b)'}
    BY DEF ProtInv
  <2>1. t \in reg /\ t \in Task /\ b \in Page
    BY <1>2 DEF TypeOK, units
  <2>2. b # a
    BY <1>2, <1>3, <2>1 DEF ProtUpdate
  <2>3. mm[t][b] \in {"U", Allowed(t, b)}
    BY <1>1, <1>3, <2>1, <2>2 DEF Core, ProtInv
  <2> QED
    BY <1>2, <1>3, <2>1, <2>2, <2>3 DEF Allowed
<1>9. CatsInv' /\ ChanInv' /\ NoGap'
  BY <1>2 DEF Core, CatsInv, ChanInv, NoGap
<1> QED
  BY <1>4, <1>5, <1>6, <1>7, <1>8, <1>9 DEF Core

\* A malloc returns: memory of a unit becomes memory in use.  No update is
\* due any more.
LEMMA GivenCore ==
  ASSUME TypeOK, Core, chan # <<>>, Finish(Head(chan)), todo = {}, NEW a \in Page,
         unit' = unit \/ unit' = [unit EXCEPT ![a].given = TRUE],
         UNCHANGED <<mm, todo, reg, label, own, cat_gen, ncreate, cats>>
  PROVE  Core'
<1>1. \A b \in Page : /\ unit'[b].kind = unit[b].kind /\ unit'[b].label = unit[b].label
                      /\ unit'[b].by = unit[b].by
  <2>1. \A b \in Page : unit'[b] \in {unit[b], [unit[b] EXCEPT !.given = TRUE]}
    BY DEF TypeOK
  <2>2. \A b \in Page : unit[b] \in UnitRec
    BY DEF TypeOK
  <2> QED BY <2>1, <2>2 DEF UnitRec
<1>2. units' = units
  BY <1>1 DEF units
<1>3. /\ ChanInv' /\ KidInv' /\ TodoInv' /\ NoGap'
      /\ \A t \in Task : Known(req[t].label)' /\ Known(req[t].own)'
  BY <1>1, ReplyCore, ThenFreeCore DEF Finish
<1>4. CatsInv' /\ KnownInv'
  BY <1>1, <1>3 DEF Core, CatsInv, KnownInv, Known
<1>5. ByInv' /\ ProtInv'
  BY <1>1, <1>2 DEF Core, ByInv, ProtInv, MayWrite, Allowed, units
<1> QED
  BY <1>3, <1>4, <1>5 DEF Core

\* An mmapped unit goes away, and with it mappings of this or other units.
LEMMA FreeCore ==
  ASSUME TypeOK, Core, NEW c \in Task, NEW a \in Page,
         apc = "recv", chan # <<>>, c = Head(chan),
         absys_munmap(c, a), unit' = [unit EXCEPT ![a] = GoneUnit], Reply(c),
         UNCHANGED <<todo, reg, label, own, cat_gen, ncreate, cats>>
  PROVE  Core'
<1>1. todo = {} /\ todo' = {}
  BY DEF Core, TodoInv
<1>2. \A b \in Page : unit'[b] = IF b = a THEN GoneUnit ELSE unit[b]
  BY DEF TypeOK
<1>3. GoneUnit.kind = "none" /\ GoneUnit.by = Root /\ GoneUnit.label = Empty
  BY DEF GoneUnit, NoUnit
<1>4. \A t \in Task, b \in Page : mm'[t][b] \in {"U", mm[t][b]}
  BY DEF absys_munmap, TypeOK
<1>5. /\ ChanInv' /\ KidInv' /\ TodoInv' /\ NoGap'
      /\ \A t \in Task : Known(req[t].label)' /\ Known(req[t].own)'
  <2>1. \A b \in Page : unit'[b].by \in {unit[b].by, Root}
    BY <1>2, <1>3
  <2> QED BY <1>1, <2>1, ReplyCore
<1>6. KnownInv'
  <2>1. \A b \in Page : Known(unit[b].label)'
    BY <1>2, <1>3, KnownEmpty DEF Core, KnownInv, Known
  <2> QED BY <1>5, <2>1 DEF Core, KnownInv, Known
<1>7. \A b \in units' : b \in units /\ b \in Page /\ unit'[b] = unit[b]
  BY <1>2, <1>3 DEF units
<1>8. CatsInv' /\ ByInv'
  BY <1>7 DEF Core, CatsInv, ByInv, MayWrite
<1>9. ProtInv'
  BY <1>1, <1>4, <1>7 DEF Core, ProtInv, Allowed, TypeOK
<1> QED
  BY <1>5, <1>6, <1>8, <1>9 DEF Core

\* Every handler keeps the invariant while category numbers last, and only
\* create_cat makes an ownership grow.
LEMMA HandleCore ==
  ASSUME TypeOK, Core, NEW c \in Task, Handle(c), ncreate' < NCAT
  PROVE  Core' /\ CategoryFreshStep
<1> USE DEF Core
<1>0. ASSUME \A t \in reg : t \in reg' => own'[t] = own[t] PROVE CategoryFreshStep
  BY <1>0 DEF CategoryFreshStep
<1>1. CASE handle_create_cat_rpc(c)
  BY <1>1, CreateCatCore
<1>2. CASE handle_fork_rpc(c)
  BY <1>2, <1>0, ForkCore
<1>3. CASE handle_pthread_join_rpc(c)
  BY <1>3, <1>0, JoinCore
<1>4. CASE handle_get_rpc(c)
  BY <1>4, <1>0, QuietCore DEF handle_get_rpc, Serving, kernelVars, descVars, catVars, unitVars
<1>5. CASE malloc_null(c)
  BY <1>5, <1>0, QuietCore
  DEF malloc_null, ServingAlloc, Serving, kernelVars, descVars, catVars, unitVars
<1>6. CASE malloc_from_unit(c)
  <2>1. /\ apc = "recv" /\ chan # <<>> /\ c = Head(chan) /\ Finish(c)
        /\ UNCHANGED <<mm, todo, reg, label, own, cat_gen, ncreate, cats>>
    BY <1>6 DEF malloc_from_unit, Allocating, ServingAlloc, Serving, kernelVars, descVars, catVars
  <2>2. PICK a \in Page : unit' = [unit EXCEPT ![a].given = TRUE]
    BY <1>6 DEF malloc_from_unit, units
  <2> QED
    BY <2>1, <2>2, <1>0, GivenCore DEF TodoInv
<1>7. CASE malloc_brk(c)
  <2>1. ServingAlloc(c) /\ MayWrite(c, ReqLabel(c)) /\ req[c].size # "gap"
    BY <1>7 DEF malloc_brk, Allocating, NoGap
  <2>2. CASE Abort \/ KernelOops \/ Overlap
    BY <2>1, <2>2, <1>0, StopCore
    DEF ServingAlloc, Serving, Abort, KernelOops, Overlap, descVars
  <2>3. CASE ~(Abort \/ KernelOops \/ Overlap)
    <3>1. /\ BrkFree(ab_brk) /\ ab_brk \notin units /\ absys_brk /\ NewUnit(c, ab_brk, "brk")
          /\ apc' = "mprotect" /\ todo' = ProtUpdate(c, ab_brk)
          /\ UNCHANGED <<clientVars, descVars, catVars>>
      BY <1>7, <2>1, <2>3 DEF malloc_brk
    <3>2. ab_brk \in Page
      BY <3>1, ArbiterAssumption DEF BrkFree, Page, TypeOK
    <3>3. \A t \in Task, b \in Page : b # ab_brk => mm'[t][b] = mm[t][b]
      BY <3>1 DEF absys_brk, TypeOK
    <3> QED
      BY <2>1, <3>1, <3>2, <3>3, <1>0, NewUnitCore DEF descVars
  <2> QED BY <2>2, <2>3
<1>8. CASE malloc_mmap(c)
  <2>1. ServingAlloc(c) /\ MayWrite(c, ReqLabel(c))
    BY <1>8 DEF malloc_mmap, Allocating
  <2>2. CASE Abort \/ KernelOops \/ Overlap
    BY <2>1, <2>2, <1>0, StopCore
    DEF ServingAlloc, Serving, Abort, KernelOops, Overlap, descVars
  <2>3. CASE ~(Abort \/ KernelOops \/ Overlap)
    <3>1. PICK a \in Page :
            /\ a \notin units /\ absys_mmap(c, a) /\ NewUnit(c, a, "mmap")
            /\ apc' = "mprotect" /\ todo' = ProtUpdate(c, a)
            /\ UNCHANGED <<clientVars, descVars, catVars>>
      BY <1>8, <2>3 DEF malloc_mmap
    <3>2. \A t \in Task, b \in Page : b # a => mm'[t][b] = mm[t][b]
      BY <3>1 DEF absys_mmap, do_absys_mmap_pgoff, do_absys_vma_propagate, TypeOK
    <3> QED
      BY <2>1, <3>1, <3>2, <1>0, NewUnitCore DEF descVars
  <2> QED BY <2>2, <2>3
<1>9. CASE handle_free_rpc(c)
  <2>0. /\ req[c].page \in Page
        /\ apc = "recv" /\ chan # <<>> /\ c = Head(chan)
    BY <1>9 DEF TypeOK, Req, handle_free_rpc, Serving
  <2>1. CASE Abort \/ KernelOops
    BY <2>0, <2>1, <1>0, StopCore DEF Abort, KernelOops, descVars
  <2>2. CASE /\ absys_munmap(c, req[c].page)
             /\ unit' = [unit EXCEPT ![req[c].page] = GoneUnit]
             /\ Reply(c)
             /\ UNCHANGED <<todo, ptr, descVars, catVars>>
    BY <2>0, <2>2, <1>0, FreeCore DEF descVars, catVars
  <2>3. CASE Reply(c) /\ UNCHANGED <<kernelVars, todo, ptr, descVars, catVars, unitVars>>
    BY <2>0, <2>3, <1>0, QuietCore DEF kernelVars, descVars, catVars, unitVars
  <2> QED
    BY <1>9, <2>1, <2>2, <2>3 DEF handle_free_rpc, free_chunk, free_mmapped
<1>10. CASE realloc_free(c) \/ realloc_inplace(c)
  BY <1>10, <1>0, QuietCore
  DEF realloc_free, realloc_inplace, Serving, kernelVars, descVars, catVars, unitVars
<1> QED
  BY <1>1, <1>2, <1>3, <1>4, <1>5, <1>6, <1>7, <1>8, <1>9, <1>10 DEF Handle, handle_malloc_rpc

LEMMA ServerCore ==
  ASSUME TypeOK, Core, server_loop, ncreate' < NCAT
  PROVE  Core' /\ CategoryFreshStep
<1>0. ASSUME UNCHANGED own PROVE CategoryFreshStep
  BY <1>0 DEF CategoryFreshStep
<1>1. CASE unknown_client
  <2>1. /\ apc = "recv" /\ chan # <<>> /\ chan' = Tail(chan)
        /\ UNCHANGED <<mm, pc, req, apc, todo, reg, label, own, cat_gen, ncreate, cats, unit>>
    BY <1>1 DEF unknown_client, kernelVars, arbiterVars, descVars, catVars, unitVars
  <2>2. ChanInv'
    BY <2>1, TailChan DEF Core
  <2>3. KidInv'
    <3>1. \A t \in Task : /\ Forking(t)' <=> Forking(t)
                          /\ NeverServed(t)' <=> NeverServed(t)
                          /\ ~InFork(t)
      BY <2>1 DEF Forking, NeverServed, InFork
    <3>2. \A t \in Task : req[t].pid \in Task
      BY DEF TypeOK, Req
    <3> QED BY <2>1, <3>1, <3>2 DEF Core, KidInv
  <2>4. CatsInv' /\ KnownInv' /\ TodoInv' /\ ByInv' /\ ProtInv' /\ NoGap'
    BY <2>1 DEF Core, CatsInv, KnownInv, Known, TodoInv, ByInv, ProtInv, units, MayWrite,
                Allowed, NoGap
  <2> QED BY <1>0, <2>1, <2>2, <2>3, <2>4 DEF Core
<1>2. CASE \E c \in Task : Handle(c)
  BY <1>2, HandleCore
<1>3. CASE update_step
  <2>1. CASE KernelOops
    BY <1>0, <1>3, <2>1, StopCore DEF update_step, KernelOops, descVars
  <2>2. CASE ~KernelOops
    <3>1. PICK p \in todo :
             /\ absys_mprotect(p[1], p[2],
                  check_mem_prot(label[p[1]], own[p[1]], unit[p[2]].label))
             /\ todo' = todo \ {p}
             /\ UNCHANGED <<clientVars, apc, ptr, descVars, catVars, unitVars>>
      BY <1>3, <2>2 DEF update_step
    <3>2. /\ apc = "mprotect"
          /\ UNCHANGED <<pc, req, chan, apc, reg, label, own, cat_gen, ncreate, cats, unit>>
      BY <1>3, <3>1 DEF update_step, clientVars, descVars, catVars, unitVars
    <3>3. p[1] \in Task /\ p[2] \in Page /\ p = <<p[1], p[2]>>
      BY DEF TypeOK
    <3>4. \A t \in Task, a \in Page :
             mm'[t][a] = mm[t][a] \/ (t = p[1] /\ a = p[2] /\ mm'[t][a] = Allowed(t, a))
      BY <3>1, <3>3 DEF absys_mprotect, Allowed, TypeOK
    <3>5. mm'[p[1]][p[2]] \in {"U", Allowed(p[1], p[2])}
      BY <3>1, <3>3 DEF absys_mprotect, Allowed, TypeOK
    <3>6. ProtInv'
      <4> SUFFICES ASSUME NEW t \in reg', NEW a \in units',
                          unit'[a].by # t, <<t, a>> \notin todo'
                   PROVE  mm'[t][a] \in {"U", Allowed(t, a)'}
        BY DEF ProtInv
      <4>1. t \in reg /\ t \in Task /\ a \in units /\ a \in Page /\ Allowed(t, a)' = Allowed(t, a)
        BY <3>2 DEF TypeOK, units, Allowed
      <4>2. CASE <<t, a>> = p
        BY <3>5, <4>1, <4>2
      <4>3. CASE <<t, a>> # p
        <5>1. mm[t][a] \in {"U", Allowed(t, a)}
          BY <3>1, <3>2, <4>1, <4>3 DEF Core, ProtInv
        <5> QED BY <3>4, <4>1, <5>1
      <4> QED BY <4>2, <4>3
    <3>7. KidInv'
      <4>1. \A t \in Task : /\ Forking(t)' <=> Forking(t)
                            /\ NeverServed(t)' <=> NeverServed(t)
                            /\ InFork(t)' <=> InFork(t)
        BY <3>2 DEF Forking, NeverServed, InFork
      <4>2. \A t \in Task : req[t].pid \in Task
        BY DEF TypeOK, Req
      <4> QED BY <3>2, <4>1, <4>2 DEF Core, KidInv
    <3>8. TodoInv'
      BY <3>1, <3>2 DEF Core, TodoInv, InFork
    <3>9. CatsInv' /\ KnownInv' /\ ChanInv' /\ ByInv' /\ NoGap'
      BY <3>2 DEF Core, CatsInv, KnownInv, Known, ChanInv, ByInv, units, MayWrite, NoGap
    <3> QED
      BY <1>0, <3>2, <3>6, <3>7, <3>8, <3>9 DEF Core
  <2> QED BY <2>1, <2>2
<1>4. CASE update_done
  <2>1. /\ chan # <<>> /\ Finish(Head(chan)) /\ todo = {} /\ ptr \in Page
        /\ unit' = unit \/ unit' = [unit EXCEPT ![ptr].given = TRUE]
        /\ UNCHANGED <<mm, todo, reg, label, own, cat_gen, ncreate, cats>>
    BY <1>4 DEF update_done, TypeOK, kernelVars, descVars, catVars
  <2> QED
    BY <1>0, <2>1, GivenCore
<1> QED
  BY <1>1, <1>2, <1>3, <1>4 DEF server_loop

LEMMA InitCore == Init => Core
<1> SUFFICES ASSUME Init PROVE Core
  OBVIOUS
<1>1. /\ NoReq.label = Empty /\ NoReq.own = Empty /\ NoReq.size # "gap" /\ NoReq.op = "get"
      /\ NoUnit.label = Empty /\ NoUnit.by = Root /\ NoUnit.kind = "none"
  BY DEF NoReq, NoUnit
<1>2. CatsInv /\ KnownInv /\ NoGap
  BY <1>1, KnownEmpty DEF Init, CatsInv, KnownInv, NoGap
<1>3. ChanInv /\ TodoInv
  BY DEF Init, ChanInv, TodoInv
<1>4. KidInv
  BY <1>1 DEF Init, KidInv, Forking, NeverServed
<1>5. units = {}
  BY <1>1 DEF Init, units
<1> QED
  BY <1>2, <1>3, <1>4, <1>5 DEF Core, ByInv, ProtInv

\* Categories are counted upwards.
LEMMA CountUp ==
  ASSUME TypeOK, [Next]_vars
  PROVE  ncreate' \in Nat /\ ncreate <= ncreate'
<1> USE DEF TypeOK, catVars, arbiterVars
<1>1. CASE UNCHANGED vars
  BY <1>1 DEF vars
<1>2. ASSUME NEW t \in Task, Client(t) PROVE ncreate' = ncreate
  BY <1>2 DEF Client, Send, create_category, ab_malloc, ab_free, ab_realloc, get_info, ab_pthread_join,
      ab_pthread_create_clone, pre_start_routine, ab_pthread_create_fork, exit
<1>3. CASE server_loop
  <2>1. CASE Abort \/ KernelOops \/ Overlap
    BY <2>1 DEF Abort, KernelOops, Overlap
  <2>2. ASSUME NEW c \in Task, handle_create_cat_rpc(c), ~Abort PROVE ncreate' = ncreate + 1
    BY <2>2 DEF handle_create_cat_rpc
  <2>3. ASSUME NEW c \in Task, Handle(c), ~handle_create_cat_rpc(c),
               ~(Abort \/ KernelOops \/ Overlap)
        PROVE  ncreate' = ncreate
    BY <2>3 DEF Handle, handle_fork_rpc, handle_pthread_join_rpc, handle_get_rpc,
        handle_malloc_rpc, malloc_null, malloc_from_unit, malloc_brk, malloc_mmap,
        realloc_free, realloc_inplace, handle_free_rpc, free_chunk, free_mmapped
  <2>4. ASSUME unknown_client \/ update_step \/ update_done, ~KernelOops
        PROVE  ncreate' = ncreate
    BY <2>4 DEF unknown_client, update_step, update_done
  <2> QED BY <1>3, <2>1, <2>2, <2>3, <2>4 DEF server_loop
<1> QED
  BY <1>1, <1>2, <1>3 DEF Next

---------------------------------------------------------------------------
(* The theorems                                                            *)

LEMMA StepCore ==
  ASSUME "gap" \notin Sizes, TypeOK, IInv, [Next]_vars
  PROVE  IInv' /\ (ncreate' < NCAT => CategoryFreshStep)
<1> SUFFICES ASSUME ncreate' < NCAT PROVE Core' /\ CategoryFreshStep
  BY DEF IInv
<1>1. Core
  <2>1. ncreate \in Nat /\ ncreate' \in Nat /\ ncreate <= ncreate'
    BY CountUp DEF TypeOK
  <2> QED
    BY <2>1, LabelAssumption DEF IInv
<1>2. CASE server_loop
  BY <1>1, <1>2, ServerCore
<1>3. ASSUME NEW t \in Task, Client(t) PROVE Core' /\ CategoryFreshStep
  <2>1. own' = own
    BY <1>3 DEF Client, Send, create_category, ab_malloc, ab_free, ab_realloc, get_info, ab_pthread_join,
        ab_pthread_create_clone, pre_start_routine, ab_pthread_create_fork, exit,
        arbiterVars, descVars
  <2> QED
    BY <1>1, <1>3, <2>1, ClientCore DEF CategoryFreshStep
<1>4. CASE UNCHANGED vars
  <2>1. UNCHANGED <<mm, pc, req, chan, apc, todo, reg, label, own, cat_gen, ncreate, cats, unit>>
    BY <1>4 DEF vars, kernelVars, clientVars, arbiterVars, descVars, catVars, unitVars
  <2>2. CatsInv' /\ KnownInv' /\ ChanInv' /\ NoGap' /\ ByInv' /\ ProtInv' /\ TodoInv'
    BY <1>1, <2>1 DEF Core, CatsInv, KnownInv, Known, ChanInv, NoGap, ByInv, ProtInv, units,
                      MayWrite, Allowed, TodoInv, InFork
  <2>3. KidInv'
    BY <1>1, <2>1 DEF Core, KidInv, Forking, NeverServed, InFork
  <2> QED
    BY <2>1, <2>2, <2>3 DEF Core, CategoryFreshStep
<1> QED
  BY <1>2, <1>3, <1>4 DEF Next

\* The invariant that ties the kernel's mappings to the labels of the
\* arbiter, for any number of tasks, regions and slots, as long as category
\* numbers last and no request falls into the gap below mmap_threshold.
THEOREM CoreInvariant ==
  ASSUME "gap" \notin Sizes
  PROVE  Spec => []IInv
<1>1. Init => IInv
  BY InitCore DEF IInv
<1>2. TypeOK /\ IInv /\ [Next]_vars => IInv'
  BY StepCore
<1> QED
  BY <1>1, <1>2, TypeCorrect, PTL DEF Spec

\* The arbiter has an update due for <<t, a>> only while memory of a is not
\* in use, or while t is being registered.
LEMMA SettledNotDue ==
  ASSUME Core, TypeOK, NEW t \in reg, NEW a \in Given, Settled(t)
  PROVE  <<t, a>> \notin todo
  BY DEF Core, TypeOK, Given, units, Settled, TodoInv, InFork

\* No client ever keeps a writable mapping of memory in use to which its
\* label may not flow (prot_update, malloc_update, handle_create_cat_rpc).
THEOREM NoForbiddenWrite ==
  ASSUME "gap" \notin Sizes
  PROVE  Spec => [](ncreate < NCAT => WriteFlow)
<1>1. TypeOK /\ IInv => (ncreate < NCAT => WriteFlow)
  <2> SUFFICES ASSUME TypeOK, Core, NEW t \in reg, NEW a \in Given,
                      Settled(t), mm[t][a] = "RW"
               PROVE  MayWrite(t, unit[a].label)
    BY DEF IInv, WriteFlow
  <2>1. a \in units
    BY DEF Given
  <2>2. CASE unit[a].by = t
    BY <2>1, <2>2 DEF Core, ByInv
  <2>3. CASE unit[a].by # t
    <3>1. Allowed(t, a) = "RW"
      BY <2>1, <2>3, SettledNotDue DEF Core, ProtInv
    <3> QED BY <3>1, ProtRW DEF Allowed, MayWrite
  <2> QED BY <2>2, <2>3
<1> QED
  BY <1>1, CoreInvariant, TypeCorrect, PTL

\* The mapping a client has of memory in use is the one check_mem_prot calls
\* for (prot_update, malloc_update).
THEOREM MappingsMatchLabels ==
  ASSUME "gap" \notin Sizes
  PROVE  Spec => [](ncreate < NCAT => ProtMatchesLabels)
<1>1. TypeOK /\ IInv => (ncreate < NCAT => ProtMatchesLabels)
  <2> SUFFICES ASSUME TypeOK, Core, NEW t \in reg, NEW a \in Given,
                      Settled(t), unit[a].by # t
               PROVE  mm[t][a] \in {"U", Allowed(t, a)}
    BY DEF IInv, ProtMatchesLabels
  <2> QED
    BY SettledNotDue DEF Core, ProtInv, Given
<1> QED
  BY <1>1, CoreInvariant, TypeCorrect, PTL

\* A thread gains ownership of categories nobody has mentioned yet, and of
\* no others (create_cat, add_onwership, handle_fork_rpc).
THEOREM OwnershipGrowsFresh ==
  ASSUME "gap" \notin Sizes
  PROVE  Spec => [][ncreate' < NCAT => CategoryFreshStep]_vars
<1>1. TypeOK /\ IInv /\ [Next]_vars => [ncreate' < NCAT => CategoryFreshStep]_vars
  BY StepCore
<1> QED
  BY <1>1, CoreInvariant, TypeCorrect, PTL DEF Spec

\* In a behaviour in which category numbers last, ownership grows by fresh
\* categories only, which is what create_category promises.
THEOREM OwnershipFresh ==
  ASSUME "gap" \notin Sizes
  PROVE  Spec /\ [](ncreate < NCAT) => CategoryFresh
<1>1. TypeOK /\ IInv /\ (ncreate < NCAT)' /\ [Next]_vars => [CategoryFreshStep]_vars
  BY StepCore
<1> QED
  BY <1>1, CoreInvariant, TypeCorrect, PTL DEF Spec, CategoryFresh
=============================================================================
