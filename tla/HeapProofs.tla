----------------------------- MODULE HeapProofs -----------------------------
(* The lists of the arbiter and the kernel's break agree, for any number   *)
(* of tasks, regions and categories.                                       *)
EXTENDS ArbiterProofs

\* What the steps that make or free a unit leave alone.
LEMMA SameHeap ==
  ASSUME HeapConsistent, ab_brk' = ab_brk, mmapped' = mmapped,
         \A a \in Page : unit'[a].kind = unit[a].kind,
         TypeOK
  PROVE  HeapConsistent'
<1>1. \A i \in DOMAIN mmapped : mmapped[i] \in Page
  BY DEF TypeOK
<1> QED
  BY <1>1 DEF HeapConsistent

\* The elements of a concatenation.
LEMMA Joined ==
  ASSUME NEW S, NEW f \in Seq(S), NEW g \in Seq(S)
  PROVE  /\ DOMAIN (f \o g) = 1..(Len(f) + Len(g))
         /\ \A k \in 1..Len(f) : (f \o g)[k] = f[k]
         /\ \A k \in 1..(Len(f) + Len(g)) : k > Len(f) => (f \o g)[k] = g[k - Len(f)]
<1>1. f \o g \in Seq(S) /\ Len(f \o g) = Len(f) + Len(g) /\ Len(f) \in Nat /\ Len(g) \in Nat
  OBVIOUS
<1>2. \A k \in 1..(Len(f) + Len(g)) : (f \o g)[k] = IF k <= Len(f) THEN f[k] ELSE g[k - Len(f)]
  OBVIOUS
<1> QED
  BY <1>1, <1>2

\* One element more, or one less, in the middle of a sequence.
Insert(s, i, a) == SubSeq(s, 1, i) \o <<a>> \o SubSeq(s, i + 1, Len(s))
Inserted(r, s, i, a) ==
  /\ DOMAIN r = 1..(Len(s) + 1)
  /\ \A k \in 1..i : r[k] = s[k]
  /\ r[i + 1] = a
  /\ \A k \in (i + 2)..(Len(s) + 1) : r[k] = s[k - 1]

Delete(s, i) == SubSeq(s, 1, i - 1) \o SubSeq(s, i + 1, Len(s))
Deleted(r, s, i) ==
  /\ DOMAIN r = 1..(Len(s) - 1)
  /\ \A k \in 1..(i - 1) : r[k] = s[k]
  /\ \A k \in i..(Len(s) - 1) : r[k] = s[k + 1]

LEMMA InsertedAt ==
  ASSUME NEW S, NEW s \in Seq(S), NEW a \in S, NEW i \in 0..Len(s)
  PROVE  Inserted(Insert(s, i, a), s, i, a)
<1> DEFINE f == SubSeq(s, 1, i)
           g == SubSeq(s, i + 1, Len(s))
           h == f \o <<a>>
           r == h \o g
<1>1. /\ f \in Seq(S) /\ Len(f) = i /\ Len(s) \in Nat /\ i \in Nat /\ i <= Len(s)
      /\ \A k \in 1..i : f[k] = s[k]
  OBVIOUS
<1>2. /\ g \in Seq(S) /\ Len(g) = Len(s) - i
      /\ \A k \in 1..(Len(s) - i) : g[k] = s[i + k]
  OBVIOUS
<1> HIDE DEF f, g
<1>3. h \in Seq(S) /\ Len(h) = i + 1 /\ h[i + 1] = a
  BY <1>1
<1>4. \A k \in 1..i : h[k] = s[k]
  BY <1>1
<1> HIDE DEF h
<1>5. /\ DOMAIN r = 1..(Len(h) + Len(g))
      /\ \A k \in 1..Len(h) : r[k] = h[k]
      /\ \A k \in 1..(Len(h) + Len(g)) : k > Len(h) => r[k] = g[k - Len(h)]
  BY <1>2, <1>3, Joined
<1> HIDE DEF r
<1>6. DOMAIN r = 1..(Len(s) + 1)
  BY <1>1, <1>2, <1>3, <1>5
<1>7. \A k \in 1..i : r[k] = s[k]
  BY <1>1, <1>3, <1>4, <1>5
<1>8. r[i + 1] = a
  BY <1>1, <1>3, <1>5
<1>9. ASSUME NEW k \in (i + 2)..(Len(s) + 1) PROVE r[k] = s[k - 1]
  <2>1. /\ k \in 1..(Len(h) + Len(g)) /\ k > Len(h)
        /\ k - Len(h) \in 1..(Len(s) - i) /\ i + (k - Len(h)) = k - 1
    BY <1>1, <1>2, <1>3
  <2>2. r[k] = g[k - Len(h)]
    BY <1>5, <2>1
  <2>3. g[k - Len(h)] = s[i + (k - Len(h))]
    BY <1>2, <2>1
  <2> QED BY <2>1, <2>2, <2>3
<1> QED
  BY <1>6, <1>7, <1>8, <1>9 DEF f, g, h, r, Insert, Inserted

LEMMA DeletedAt ==
  ASSUME NEW S, NEW s \in Seq(S), NEW i \in 1..Len(s)
  PROVE  Deleted(Delete(s, i), s, i)
<1> DEFINE f == SubSeq(s, 1, i - 1)
           g == SubSeq(s, i + 1, Len(s))
           r == f \o g
<1>1. /\ f \in Seq(S) /\ Len(f) = i - 1 /\ Len(s) \in Nat /\ i \in Nat \ {0} /\ i <= Len(s)
      /\ \A k \in 1..(i - 1) : f[k] = s[k]
  OBVIOUS
<1>2. /\ g \in Seq(S) /\ Len(g) = Len(s) - i
      /\ \A k \in 1..(Len(s) - i) : g[k] = s[i + k]
  OBVIOUS
<1> HIDE DEF f, g
<1>3. /\ DOMAIN r = 1..(Len(f) + Len(g))
      /\ \A k \in 1..Len(f) : r[k] = f[k]
      /\ \A k \in 1..(Len(f) + Len(g)) : k > Len(f) => r[k] = g[k - Len(f)]
  BY <1>1, <1>2, Joined
<1> HIDE DEF r
<1>4. DOMAIN r = 1..(Len(s) - 1)
  BY <1>1, <1>2, <1>3
<1>5. \A k \in 1..(i - 1) : r[k] = s[k]
  BY <1>1, <1>3
<1>6. ASSUME NEW k \in i..(Len(s) - 1) PROVE r[k] = s[k + 1]
  <2>1. /\ k \in 1..(Len(f) + Len(g)) /\ k > Len(f)
        /\ k - Len(f) \in 1..(Len(s) - i) /\ i + (k - Len(f)) = k + 1
    BY <1>1, <1>2
  <2>2. r[k] = g[k - Len(f)]
    BY <1>3, <2>1
  <2>3. g[k - Len(f)] = s[i + (k - Len(f))]
    BY <1>2, <2>1
  <2> QED BY <2>1, <2>2, <2>3
<1> QED
  BY <1>4, <1>5, <1>6 DEF f, g, r, Delete, Deleted

\* insert_mmapped_unit adds at most the new region.
LEMMA InsertHeap ==
  ASSUME TypeOK, HeapConsistent, NEW a \in Page, a \notin units, insert_mmapped_unit(a)
  PROVE  \A i \in DOMAIN mmapped' :
           /\ mmapped'[i] \in {mmapped[k] : k \in DOMAIN mmapped} \cup {a}
           /\ \A j \in DOMAIN mmapped' : mmapped'[j] = mmapped'[i] => j = i
<1>1. mmapped \in Seq(Page) /\ DOMAIN mmapped = 1..Len(mmapped) /\ Len(mmapped) \in Nat
  BY DEF TypeOK
<1>2. \A i \in DOMAIN mmapped :
        /\ mmapped[i] # a
        /\ \A j \in DOMAIN mmapped : mmapped[j] = mmapped[i] => j = i
  BY DEF HeapConsistent, units
<1>3. ASSUME NEW i \in 0..Len(mmapped),
             mmapped' = Insert(mmapped, i, a)
      PROVE  \A k \in DOMAIN mmapped' :
               /\ mmapped'[k] \in {mmapped[l] : l \in DOMAIN mmapped} \cup {a}
               /\ \A j \in DOMAIN mmapped' : mmapped'[j] = mmapped'[k] => j = k
  <2>1. /\ DOMAIN mmapped' = 1..(Len(mmapped) + 1)
        /\ \A k \in 1..i : mmapped'[k] = mmapped[k]
        /\ mmapped'[i + 1] = a
        /\ \A k \in (i + 2)..(Len(mmapped) + 1) : mmapped'[k] = mmapped[k - 1]
    <3>1. Inserted(Insert(mmapped, i, a), mmapped, i, a)
      BY <1>1, InsertedAt
    <3> QED BY <1>3, <3>1 DEF Inserted
  <2>2. \A k \in DOMAIN mmapped' :
          /\ k <= i => k \in DOMAIN mmapped /\ mmapped'[k] = mmapped[k]
          /\ k = i + 1 => mmapped'[k] = a
          /\ k > i + 1 => k - 1 \in DOMAIN mmapped /\ mmapped'[k] = mmapped[k - 1]
    BY <1>1, <2>1
  <2>3. \A k \in DOMAIN mmapped' :
          mmapped'[k] \in {mmapped[l] : l \in DOMAIN mmapped} \cup {a}
    BY <1>1, <2>1, <2>2
  <2>4. ASSUME NEW k \in DOMAIN mmapped', NEW j \in DOMAIN mmapped', mmapped'[j] = mmapped'[k]
        PROVE  j = k
    BY <1>1, <1>2, <2>1, <2>2, <2>4
  <2> QED BY <2>3, <2>4
<1>4. CASE mmapped' = <<a>> \o mmapped
  <2>1. /\ DOMAIN mmapped' = 1..(Len(mmapped) + 1)
        /\ mmapped'[1] = a
        /\ \A k \in 2..(Len(mmapped) + 1) : mmapped'[k] = mmapped[k - 1]
    BY <1>1, <1>4
  <2>2. \A k \in DOMAIN mmapped' :
          k = 1 \/ (k - 1 \in DOMAIN mmapped /\ mmapped'[k] = mmapped[k - 1])
    BY <1>1, <2>1
  <2>3. \A k \in DOMAIN mmapped' :
          mmapped'[k] \in {mmapped[l] : l \in DOMAIN mmapped} \cup {a}
    BY <2>1, <2>2
  <2>4. ASSUME NEW k \in DOMAIN mmapped', NEW j \in DOMAIN mmapped', mmapped'[j] = mmapped'[k]
        PROVE  j = k
    BY <1>1, <1>2, <2>1, <2>2, <2>4
  <2> QED BY <2>3, <2>4
<1>5. CASE UNCHANGED mmapped
  BY <1>2, <1>5
<1>6. \/ mmapped' = <<a>> \o mmapped
      \/ \E i \in DOMAIN mmapped : mmapped' = Insert(mmapped, i, a)
      \/ UNCHANGED mmapped
  BY DEF insert_mmapped_unit, Insert
<1>7. CASE \E i \in DOMAIN mmapped : mmapped' = Insert(mmapped, i, a)
  <2> PICK i \in DOMAIN mmapped : mmapped' = Insert(mmapped, i, a)
    BY <1>7
  <2> i \in 0..Len(mmapped)
    BY <1>1
  <2> QED BY <1>3
<1> QED
  BY <1>4, <1>5, <1>6, <1>7

\* list_del_entry takes the freed region off the list, and nothing else.
LEMMA DeleteHeap ==
  ASSUME TypeOK, HeapConsistent, NEW a \in Page, list_del_entry(a)
  PROVE  \A k \in DOMAIN mmapped' :
           /\ mmapped'[k] \in {mmapped[l] : l \in DOMAIN mmapped} \ {a}
           /\ \A j \in DOMAIN mmapped' : mmapped'[j] = mmapped'[k] => j = k
<1>1. mmapped \in Seq(Page) /\ DOMAIN mmapped = 1..Len(mmapped) /\ Len(mmapped) \in Nat
  BY DEF TypeOK
<1>2. \A i, j \in DOMAIN mmapped : mmapped[j] = mmapped[i] => j = i
  BY DEF HeapConsistent
<1>3. PICK i \in DOMAIN mmapped :
        /\ mmapped[i] = a
        /\ mmapped' = SubSeq(mmapped, 1, i - 1) \o SubSeq(mmapped, i + 1, Len(mmapped))
  BY DEF list_del_entry
<1>4. /\ DOMAIN mmapped' = 1..(Len(mmapped) - 1)
      /\ \A k \in 1..(i - 1) : mmapped'[k] = mmapped[k]
      /\ \A k \in i..(Len(mmapped) - 1) : mmapped'[k] = mmapped[k + 1]
  <2>1. mmapped' = Delete(mmapped, i)
    BY <1>3 DEF Delete
  <2>2. Deleted(Delete(mmapped, i), mmapped, i)
    <3> i \in 1..Len(mmapped)
      BY <1>1
    <3> QED BY <1>1, DeletedAt
  <2> QED BY <2>1, <2>2 DEF Deleted
<1>5. \A k \in DOMAIN mmapped' :
        /\ k < i => k \in DOMAIN mmapped /\ mmapped'[k] = mmapped[k]
        /\ k >= i => k + 1 \in DOMAIN mmapped /\ mmapped'[k] = mmapped[k + 1]
  BY <1>1, <1>4
<1>6. \A k \in DOMAIN mmapped' : mmapped'[k] \in {mmapped[l] : l \in DOMAIN mmapped} \ {a}
  <2> SUFFICES ASSUME NEW k \in DOMAIN mmapped'
               PROVE  mmapped'[k] \in {mmapped[l] : l \in DOMAIN mmapped} \ {a}
    OBVIOUS
  <2>1. CASE k < i
    BY <1>1, <1>2, <1>3, <1>4, <1>5, <2>1
  <2>2. CASE ~(k < i)
    <3>1. k + 1 \in DOMAIN mmapped /\ mmapped'[k] = mmapped[k + 1] /\ k + 1 # i
      BY <1>1, <1>4, <1>5, <2>2
    <3> QED BY <1>2, <1>3, <3>1
  <2> QED BY <2>1, <2>2
<1>7. ASSUME NEW k \in DOMAIN mmapped', NEW j \in DOMAIN mmapped', mmapped'[j] = mmapped'[k]
      PROVE  j = k
  BY <1>1, <1>2, <1>4, <1>5, <1>7
<1> QED
  BY <1>6, <1>7

\* A unit is made on top of the brk units.
LEMMA BrkHeap ==
  ASSUME TypeOK, HeapConsistent, NEW c \in Task, BrkFree(ab_brk), ab_brk \notin units,
         absys_brk, NewUnit(c, ab_brk, "brk"), mmapped' = mmapped
  PROVE  HeapConsistent'
<1>1. ab_brk \in Page /\ ab_brk' = ab_brk + 1 /\ ab_brk \in Nat
  BY ArbiterAssumption DEF BrkFree, Page, TypeOK, absys_brk
<1>2. \A b \in Page : unit'[b].kind = IF b = ab_brk THEN "brk" ELSE unit[b].kind
  BY <1>1 DEF NewUnit, TypeOK
<1>3. \A i \in DOMAIN mmapped : mmapped[i] \in Page /\ mmapped[i] # ab_brk
  BY DEF TypeOK, HeapConsistent, units
<1>4. \A b \in Page : unit'[b].kind = "brk" <=> b < ab_brk'
  BY <1>1, <1>2 DEF HeapConsistent, Page
<1> QED
  BY <1>2, <1>3, <1>4 DEF HeapConsistent

\* A unit of its own lies where no unit is, hence above the brk units.
LEMMA MmapHeap ==
  ASSUME TypeOK, HeapConsistent, NEW c \in Task, NEW a \in Page, a \notin units,
         absys_mmap(c, a), NewUnit(c, a, "mmap"), insert_mmapped_unit(a)
  PROVE  HeapConsistent'
<1>1. ab_brk' = ab_brk
  BY DEF absys_mmap
<1>2. \A b \in Page : unit'[b].kind = IF b = a THEN "mmap" ELSE unit[b].kind
  BY DEF NewUnit, TypeOK
<1>3. unit[a].kind # "brk"
  BY DEF units
<1>4. \A b \in Page : unit'[b].kind = "brk" <=> b < ab_brk'
  BY <1>1, <1>2, <1>3 DEF HeapConsistent
<1>5. \A i \in DOMAIN mmapped : mmapped[i] \in Page /\ unit[mmapped[i]].kind = "mmap"
  BY DEF TypeOK, HeapConsistent
<1> QED
  BY <1>2, <1>4, <1>5, InsertHeap DEF HeapConsistent

LEMMA FreeHeap ==
  ASSUME TypeOK, HeapConsistent, NEW c \in Task, NEW a \in Page, unit[a].kind = "mmap",
         absys_munmap(c, a), unit' = [unit EXCEPT ![a] = GoneUnit], list_del_entry(a)
  PROVE  HeapConsistent'
<1>1. ab_brk' = ab_brk
  BY DEF absys_munmap
<1>2. \A b \in Page : unit'[b].kind = IF b = a THEN "none" ELSE unit[b].kind
  BY DEF TypeOK, GoneUnit, NoUnit
<1>3. \A b \in Page : unit'[b].kind = "brk" <=> b < ab_brk'
  BY <1>1, <1>2 DEF HeapConsistent
<1>4. \A i \in DOMAIN mmapped : mmapped[i] \in Page /\ unit[mmapped[i]].kind = "mmap"
  BY DEF TypeOK, HeapConsistent
<1> QED
  BY <1>2, <1>3, <1>4, DeleteHeap DEF HeapConsistent

LEMMA GivenHeap ==
  ASSUME TypeOK, NEW a \in Page, unit' = unit \/ unit' = [unit EXCEPT ![a].given = TRUE]
  PROVE  \A b \in Page : unit'[b].kind = unit[b].kind
<1>1. \A b \in Page : unit'[b] \in {unit[b], [unit[b] EXCEPT !.given = TRUE]}
  BY DEF TypeOK
<1>2. \A b \in Page : unit[b] \in UnitRec
  BY DEF TypeOK
<1> QED
  BY <1>1, <1>2 DEF UnitRec

\* What the arbiter does with a datagram keeps the lists right.
LEMMA HandleHeap ==
  ASSUME TypeOK, HeapConsistent, NEW c \in Task, Handle(c)
  PROVE  HeapConsistent'
<1>1. CASE UNCHANGED <<ab_brk, unit, mmapped>>
  BY <1>1, SameHeap
<1>2. ASSUME Abort \/ KernelOops \/ Overlap
      PROVE  UNCHANGED <<ab_brk, unit, mmapped>>
  BY <1>2 DEF Abort, KernelOops, Overlap, kernelVars, unitVars
<1>3. ASSUME \/ handle_create_cat_rpc(c) \/ handle_fork_rpc(c)
             \/ handle_pthread_join_rpc(c) \/ handle_get_rpc(c)
             \/ malloc_null(c) \/ realloc_free(c) \/ realloc_inplace(c)
      PROVE  UNCHANGED <<ab_brk, unit, mmapped>>
  BY <1>2, <1>3
  DEF handle_create_cat_rpc, handle_fork_rpc, handle_pthread_join_rpc, handle_get_rpc,
      malloc_null, realloc_free, realloc_inplace, kernelVars, unitVars
<1>4. CASE malloc_from_unit(c)
  <2>1. PICK a \in Page : unit' = [unit EXCEPT ![a].given = TRUE]
    BY <1>4 DEF malloc_from_unit, units
  <2>2. \A b \in Page : unit'[b].kind = unit[b].kind
    BY <2>1, GivenHeap
  <2> QED
    BY <1>4, <2>2, SameHeap DEF malloc_from_unit, kernelVars
<1>5. CASE malloc_brk(c)
  <2>1. CASE Abort \/ KernelOops \/ Overlap
    BY <1>1, <1>2, <2>1
  <2>2. CASE ~(Abort \/ KernelOops \/ Overlap)
    <3>1. /\ BrkFree(ab_brk) /\ ab_brk \notin units /\ absys_brk
          /\ NewUnit(c, ab_brk, "brk") /\ UNCHANGED mmapped
      BY <1>5, <2>2 DEF malloc_brk
    <3> QED BY <3>1, BrkHeap
  <2> QED BY <2>1, <2>2
<1>6. CASE malloc_mmap(c)
  <2>1. CASE Abort \/ KernelOops \/ Overlap
    BY <1>1, <1>2, <2>1
  <2>2. CASE ~(Abort \/ KernelOops \/ Overlap)
    <3>1. PICK a \in Page :
            /\ a \notin units /\ absys_mmap(c, a)
            /\ NewUnit(c, a, "mmap") /\ insert_mmapped_unit(a)
      BY <1>6, <2>2 DEF malloc_mmap
    <3> QED BY <3>1, MmapHeap
  <2> QED BY <2>1, <2>2
<1>7. CASE handle_free_rpc(c)
  <2> DEFINE a == req[c].page
  <2>1. a \in Page
    BY DEF TypeOK, Req
  <2> HIDE DEF a
  <2>2. CASE Abort \/ KernelOops
    BY <1>1, <1>2, <2>2
  <2>3. CASE /\ unit[a].kind = "mmap"
             /\ absys_munmap(c, a)
             /\ unit' = [unit EXCEPT ![a] = GoneUnit]
             /\ list_del_entry(a)
    BY <2>1, <2>3, FreeHeap
  <2>4. CASE UNCHANGED <<kernelVars, unitVars>>
    BY <1>1, <2>4 DEF kernelVars, unitVars
  <2> QED
    BY <1>7, <2>2, <2>3, <2>4 DEF handle_free_rpc, free_chunk, free_mmapped, a
<1> QED
  BY <1>1, <1>3, <1>4, <1>5, <1>6, <1>7 DEF Handle, handle_malloc_rpc

LEMMA StepHeap ==
  ASSUME TypeOK, HeapConsistent, [Next]_vars
  PROVE  HeapConsistent'
<1>1. CASE UNCHANGED <<ab_brk, unit, mmapped>>
  BY <1>1, SameHeap
<1>2. ASSUME \/ UNCHANGED vars \/ unknown_client \/ update_step
             \/ \E t \in Task : Client(t)
      PROVE  UNCHANGED <<ab_brk, unit, mmapped>>
  BY <1>2
  DEF vars, unknown_client, update_step, KernelOops, absys_mprotect, Client,
      create_category, ab_malloc, ab_free, ab_realloc, get_info, ab_pthread_join,
      ab_pthread_create_clone, pre_start_routine, ab_pthread_create_fork, exit, Send,
      kernelVars, arbiterVars, unitVars
<1>3. CASE update_done
  <2>1. \A b \in Page : unit'[b].kind = unit[b].kind
    <3> ptr \in Page
      BY DEF TypeOK
    <3> QED BY <1>3, GivenHeap DEF update_done
  <2> QED
    BY <1>3, <2>1, SameHeap DEF update_done, kernelVars
<1> QED
  BY <1>1, <1>2, <1>3, HandleHeap DEF Next, server_loop

\* The kernel's break, the unit list and the list of mmapped units agree
\* whatever the clients do: no malloc, calloc, realloc or free, nor one that
\* fails half way, leaves a freed unit on mmapped_ustate_list, lists one
\* twice, or makes a brk unit that the break does not cover.
THEOREM HeapListsAgree == Spec => []HeapConsistent
<1>1. Init => HeapConsistent
  BY ArbiterAssumption DEF Init, HeapConsistent, NoUnit, Page
<1>2. TypeOK /\ HeapConsistent /\ [Next]_vars => HeapConsistent'
  BY StepHeap
<1> QED
  BY <1>1, <1>2, TypeCorrect, PTL DEF Spec
=============================================================================
