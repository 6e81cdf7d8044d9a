------------------------------- MODULE Blocks -------------------------------
(***************************************************************************)
(* What the labelled allocator promises its callers, without chunks, bins  *)
(* and tags: memory in use is a set of disjoint blocks, and a unit of the  *)
(* heap carries the blocks of one label only.                              *)
(***************************************************************************)
EXTENDS Integers, Sequences

CONSTANTS
  Label,      \* labels of requests
  UNIT_SIZE,  \* length of a unit
  MaxUnits    \* units the heap has room for

VARIABLES
  owner,      \* labels of the units, in address order
  blocks      \* the blocks in use: address, length, label

Byte     == 0..(MaxUnits * UNIT_SIZE - 1)
BlockRec == [addr : Byte, len : Nat \ {0}, label : Label]
BytesOf(b) == b.addr..(b.addr + b.len - 1)

BlocksTypeOK ==
  /\ owner \in Seq(Label)
  /\ blocks \subseteq BlockRec

BlocksInit == owner = <<>> /\ blocks = {}

\* The block lies in one unit, which has its label.
Fits(b, own) ==
  \E u \in DOMAIN own :
    /\ own[u] = b.label
    /\ BytesOf(b) \subseteq ((u - 1) * UNIT_SIZE)..(u * UNIT_SIZE - 1)

Disjoint(b, S) == \A c \in S : BytesOf(b) \cap BytesOf(c) = {}

\* The heap may grow by one unit for a label.
Grow(L) == owner' = owner \/ owner' = Append(owner, L)

Alloc(b) ==
  /\ b \in BlockRec
  /\ Grow(b.label)
  /\ Fits(b, owner')
  /\ Disjoint(b, blocks)
  /\ blocks' = blocks \cup {b}

\* A call that fails may leave a unit behind.
Fail(L) == owner' = Append(owner, L) /\ UNCHANGED blocks

Free(b) == blocks' = blocks \ {b} /\ UNCHANGED owner

\* Another length, or another place, for block b.
Resize(b, c) ==
  /\ c \in BlockRec
  /\ c.label = b.label
  /\ Grow(b.label)
  /\ Fits(c, owner')
  /\ Disjoint(c, blocks \ {b})
  /\ blocks' = (blocks \ {b}) \cup {c}

\* The block that a step adds, if there is one, is the only one.
BlocksNext ==
  \/ \E b \in blocks' : Alloc(b)
  \/ \E L \in Label : Fail(L)
  \/ \E b \in blocks : Free(b)
  \/ \E b \in blocks, c \in blocks' : Resize(b, c)

BlocksSpec == BlocksInit /\ [][BlocksNext]_<<owner, blocks>>

\* No two blocks in use share a byte, and each lies in a unit of its label.
BlocksSafe ==
  /\ \A b \in blocks : Fits(b, owner)
  /\ \A b, c \in blocks : b # c => BytesOf(b) \cap BytesOf(c) = {}
=============================================================================
