------------------------------ MODULE MCAbHeap ------------------------------
(* Instances of AbHeap for TLC.                                            *)
EXTENDS AbHeapInv

\* Many chunks of one label, few of the others
MCMaxLive == [L \in Label |-> IF L = "a" THEN 3 ELSE 1]

\* What happens after a unit_top was used up is the subject of run exhaust.
\* Before that, the first unit is one of label a.  Once there is a second one,
\* of either label, there is one block at a time; b keeps its block, of the
\* smallest size, for good.
BeforeExhaustion ==
  /\ ~exhausted
  /\ unit # <<>> => unit[1] = "a"
  /\ Len(unit) = 2 => Cardinality(live) <= 1
  /\ ~av["b"].any /\ \A c \in live : c.label = "b" => c.nb = MINSIZE
=============================================================================
