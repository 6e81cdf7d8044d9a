---------------------------- MODULE BlocksProofs ----------------------------
(* What a caller may conclude from the abstract specification, for any     *)
(* number of labels and units of any size.                                 *)
EXTENDS Blocks, TLAPS

BlocksInv == BlocksTypeOK /\ BlocksSafe

\* A block stays in its unit when the heap grows.
LEMMA FitsMore ==
  ASSUME owner \in Seq(Label), NEW L \in Label, Grow(L), NEW b, Fits(b, owner)
  PROVE  Fits(b, owner')
<1>1. PICK u \in DOMAIN owner :
        /\ owner[u] = b.label
        /\ BytesOf(b) \subseteq ((u - 1) * UNIT_SIZE)..(u * UNIT_SIZE - 1)
  BY DEF Fits
<1>2. u \in DOMAIN owner' /\ owner'[u] = owner[u]
  BY DEF Grow
<1> QED
  BY <1>1, <1>2 DEF Fits

LEMMA GrowType ==
  ASSUME owner \in Seq(Label), NEW L \in Label, Grow(L)
  PROVE  owner' \in Seq(Label)
  BY DEF Grow

\* One block, disjoint from those that stay, may be added.
LEMMA AddedBlock ==
  ASSUME BlocksInv, NEW S, S \subseteq blocks, NEW b \in BlockRec, Grow(b.label),
         Fits(b, owner'), Disjoint(b, S), blocks' = S \cup {b}
  PROVE  BlocksInv'
<1>1. b.label \in Label /\ owner \in Seq(Label) /\ S \subseteq BlockRec
  BY DEF BlockRec, BlocksInv, BlocksTypeOK
<1>2. BlocksTypeOK'
  BY <1>1, GrowType DEF BlocksTypeOK
<1>3. \A c \in S : Fits(c, owner')
  BY <1>1, FitsMore DEF BlocksInv, BlocksSafe
<1>4. ASSUME NEW c \in blocks', NEW d \in blocks', c # d
      PROVE  BytesOf(c) \cap BytesOf(d) = {}
  <2>1. CASE c \in S /\ d \in S
    BY <1>4, <2>1 DEF BlocksInv, BlocksSafe
  <2>2. CASE c = b /\ d \in S
    BY <2>2 DEF Disjoint
  <2>3. CASE c \in S /\ d = b
    BY <2>3 DEF Disjoint
  <2> QED BY <1>4, <2>1, <2>2, <2>3
<1>5. BlocksSafe'
  <2>1. \A c \in blocks' : Fits(c, owner')
    BY <1>3
  <2> QED BY <1>4, <2>1 DEF BlocksSafe, BytesOf
<1> QED
  BY <1>2, <1>5 DEF BlocksInv

LEMMA StepBlocks ==
  ASSUME BlocksInv, [BlocksNext]_<<owner, blocks>>
  PROVE  BlocksInv'
<1>1. CASE UNCHANGED <<owner, blocks>>
  BY <1>1 DEF BlocksInv, BlocksTypeOK, BlocksSafe, Fits
<1>2. ASSUME NEW b \in blocks', Alloc(b) PROVE BlocksInv'
  BY <1>2, AddedBlock DEF Alloc
<1>3. ASSUME NEW L \in Label, Fail(L) PROVE BlocksInv'
  <2>1. Grow(L) /\ blocks' = blocks /\ owner \in Seq(Label)
    BY <1>3 DEF Fail, Grow, BlocksInv, BlocksTypeOK
  <2>2. \A c \in blocks : Fits(c, owner')
    BY <2>1, FitsMore DEF BlocksInv, BlocksSafe
  <2>3. owner' \in Seq(Label)
    BY <2>1, GrowType
  <2> QED
    BY <2>1, <2>2, <2>3 DEF BlocksInv, BlocksTypeOK, BlocksSafe
<1>4. ASSUME NEW b \in blocks, Free(b) PROVE BlocksInv'
  <2>1. blocks' \subseteq blocks /\ owner' = owner
    BY <1>4 DEF Free
  <2> QED
    BY <2>1 DEF BlocksInv, BlocksTypeOK, BlocksSafe
<1>5. ASSUME NEW b \in blocks, NEW c \in blocks', Resize(b, c) PROVE BlocksInv'
  <2>1. blocks \ {b} \subseteq blocks /\ Grow(c.label)
    BY <1>5 DEF Resize
  <2> QED
    BY <1>5, <2>1, AddedBlock DEF Resize
<1> QED
  BY <1>1, <1>2, <1>3, <1>4, <1>5 DEF BlocksNext

\* An allocator that implements Blocks, which is what run chunks checks of
\* ablib_malloc, ablib_calloc, ablib_realloc and ablib_free, never hands out
\* the same byte twice and never puts two labels in one unit, so that
\* absys_mprotect on a unit protects the memory of one label.
THEOREM BlocksStaySafe == BlocksSpec => []BlocksSafe
<1>1. BlocksInit => BlocksInv
  BY DEF BlocksInit, BlocksInv, BlocksTypeOK, BlocksSafe
<1>2. BlocksInv /\ [BlocksNext]_<<owner, blocks>> => BlocksInv'
  BY StepBlocks
<1>3. BlocksInv => BlocksSafe
  BY DEF BlocksInv
<1> QED
  BY <1>1, <1>2, <1>3, PTL DEF BlocksSpec
=============================================================================
