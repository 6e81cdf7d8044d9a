------------------------------- MODULE Label -------------------------------
(***************************************************************************)
(* Labels of the DIFC reference monitor (monitor/label.c, ab_api.h).       *)
(*                                                                         *)
(* A category is one byte: the top bit tells secrecy (CAT_S) from          *)
(* integrity (CAT_I), the low bits number it, and 0 marks an empty slot.   *)
(* A label and an ownership are arrays of NSLOT categories (8 in the       *)
(* code).  NCAT is the weight of the top bit (0x80 in the code), so a      *)
(* byte ranges over 0..2*NCAT-1.                                           *)
(***************************************************************************)
EXTENDS Integers

CONSTANTS
  NSLOT,   \* slots of a label or ownership (8)
  NCAT     \* weight of the category type bit (0x80)

ASSUME LabelAssumption ==
  /\ NSLOT \in Nat \ {0}
  /\ NCAT \in Nat \ {0, 1}

Slot    == 1..NSLOT
cat_t   == 0..(2*NCAT - 1)
label_t == [Slot -> cat_t]

CAT_S == 0
CAT_I == NCAT

\* The empty label or ownership; also stands for O2 = NULL in check_label,
\* where both make rule 2-2 vacuous.
Empty == [i \in Slot |-> 0]

get_cat_type(cat) == IF cat >= NCAT THEN CAT_I ELSE CAT_S

\* The inner search loops of check_label: does the array X hold cat?
Holds(X, cat) == \E j \in Slot : X[j] = cat

---------------------------------------------------------------------------
(* Creation of categories                                                  *)

\* Mutant: the counter is read but not advanced.
next_cat_gen_stuck(g) == IF g = 0 THEN 1 ELSE g

\* ++cat_gen on a uint8_t, which wraps at 2*NCAT
next_cat_gen(g) == IF g + 1 = 2*NCAT THEN 0 ELSE g + 1

\* Mutant: the type bit is shifted once too often.
create_cat_wide(t, g) == 2*t + g

\* The value create_cat returns once the counter has become g.  When the
\* numbers are used up the code returns (cat_t)-1, which is the byte of an
\* ordinary integrity category.
create_cat(t, g) == IF g >= NCAT THEN 2*NCAT - 1 ELSE t + g

\* add_onwership writes the new category into the first blank slot.
FirstBlank(O, i) == O[i] = 0 /\ \A j \in Slot : j < i => O[j] # 0
OwnershipFull(O) == \A i \in Slot : O[i] # 0

---------------------------------------------------------------------------
(* The label checks                                                        *)

\* Rules 2-1 and 3, first loop: every secrecy category of L1 that 1 does not
\* own is in L2.
SecrecyRule(L1, O1, L2) ==
  \A i \in Slot :
    L1[i] # 0 /\ get_cat_type(L1[i]) # CAT_I
      => Holds(O1, L1[i]) \/ Holds(L2, L1[i])

\* Rules 2-1 and 3, second loop: every integrity category of L2 that 1 does
\* not own is in L1.
IntegrityRule(L1, O1, L2) ==
  \A i \in Slot :
    L2[i] # 0 /\ get_cat_type(L2[i]) # CAT_S
      => Holds(O1, L2[i]) \/ Holds(L1, L2[i])

\* Rule 2-2: the ownership of 2 is a subset of the ownership of 1.
OwnershipRule(O1, O2) == \A i \in Slot : O2[i] # 0 => Holds(O1, O2[i])

\* TRUE stands for the return value 0.
check_label(L1, O1, L2, O2) ==
  /\ SecrecyRule(L1, O1, L2)
  /\ IntegrityRule(L1, O1, L2)
  /\ OwnershipRule(O1, O2)

\* Protection of a memory object labelled L2 for a thread (L1, O1).
check_mem_prot(L1, O1, L2) ==
  LET pw == check_label(L1, O1, L2, Empty)
      pr == check_label(L2, O1, L1, Empty)
  IN  IF pr /\ pw THEN "RW" ELSE IF pr THEN "R" ELSE "N"
=============================================================================
