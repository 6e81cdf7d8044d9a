---------------------------- MODULE LabelProofs ----------------------------
(* What the label checks of monitor/label.c guarantee for every label.     *)
EXTENDS Label, TLAPS

\* A blank slot of an ownership is filled with a category: the arrays keep
\* their type (add_onwership).
LEMMA BlankFilled ==
  ASSUME NEW O \in label_t, NEW i \in Slot, NEW cat \in cat_t
  PROVE  [O EXCEPT ![i] = cat] \in label_t
  BY DEF label_t

LEMMA EmptyType == Empty \in label_t
  BY LabelAssumption DEF Empty, label_t, cat_t

\* The empty ownership asks for nothing.
LEMMA EmptyOwnership ==
  ASSUME NEW O \in label_t
  PROVE  OwnershipRule(O, Empty)
  BY DEF OwnershipRule, Empty

\* A category that the label does not mention does not help a thread that
\* comes to own it: the check of a flow gives the same answer (check_label).
LEMMA FreshOwnCheck ==
  ASSUME NEW L1 \in label_t, NEW L2 \in label_t, NEW O \in label_t,
         NEW i \in Slot, NEW cat \in cat_t,
         O[i] = 0, ~Holds(L1, cat), ~Holds(L2, cat)
  PROVE  LET P == [O EXCEPT ![i] = cat]
         IN  check_label(L1, O, L2, Empty) <=> check_label(L1, P, L2, Empty)
<1> DEFINE P == [O EXCEPT ![i] = cat]
<1>1. P \in label_t
  BY BlankFilled
<1>2. ASSUME NEW c \in cat_t, c # 0, c # cat
      PROVE  Holds(O, c) <=> Holds(P, c)
  BY <1>2 DEF Holds, label_t
<1>3. SecrecyRule(L1, O, L2) <=> SecrecyRule(L1, P, L2)
  BY <1>2 DEF SecrecyRule, Holds, label_t
<1>4. IntegrityRule(L1, O, L2) <=> IntegrityRule(L1, P, L2)
  BY <1>2 DEF IntegrityRule, Holds, label_t
<1> QED
  BY <1>1, <1>3, <1>4, EmptyOwnership DEF check_label

\* Creating a category changes no protection of memory that existed before
\* (handle_create_cat_rpc calls neither prot_update nor malloc_update, and
\* this is why it need not).
THEOREM FreshOwnKeepsProt ==
  ASSUME NEW L1 \in label_t, NEW L2 \in label_t, NEW O \in label_t,
         NEW i \in Slot, NEW cat \in cat_t,
         O[i] = 0, ~Holds(L1, cat), ~Holds(L2, cat)
  PROVE  check_mem_prot(L1, [O EXCEPT ![i] = cat], L2) = check_mem_prot(L1, O, L2)
<1>1. check_label(L1, O, L2, Empty) <=> check_label(L1, [O EXCEPT ![i] = cat], L2, Empty)
  BY FreshOwnCheck
<1>2. check_label(L2, O, L1, Empty) <=> check_label(L2, [O EXCEPT ![i] = cat], L1, Empty)
  BY FreshOwnCheck
<1> QED
  BY <1>1, <1>2 DEF check_mem_prot

\* A thread never gains by creating a child: whatever a child that passed the
\* check of handle_fork_rpc may write to, its creator may write to as well.
THEOREM NoAmplification ==
  ASSUME NEW L1 \in label_t, NEW O1 \in label_t, NEW L2 \in label_t,
         NEW O2 \in label_t, NEW L3 \in label_t,
         check_label(L1, O1, L2, O2), check_label(L2, O2, L3, Empty)
  PROVE  check_label(L1, O1, L3, Empty)
<1>1. ASSUME NEW c \in cat_t, c # 0, Holds(O2, c) PROVE Holds(O1, c)
  BY <1>1 DEF check_label, OwnershipRule, Holds
<1>2. SecrecyRule(L1, O1, L3)
  <2> SUFFICES ASSUME NEW i \in Slot, L1[i] # 0, get_cat_type(L1[i]) # CAT_I
               PROVE  Holds(O1, L1[i]) \/ Holds(L3, L1[i])
    BY DEF SecrecyRule
  <2>0. L1[i] \in cat_t
    BY DEF label_t
  <2>1. Holds(O1, L1[i]) \/ Holds(L2, L1[i])
    BY DEF check_label, SecrecyRule
  <2>2. Holds(L2, L1[i]) => Holds(O2, L1[i]) \/ Holds(L3, L1[i])
    BY DEF check_label, SecrecyRule, Holds
  <2> QED
    BY <2>0, <2>1, <2>2, <1>1
<1>3. IntegrityRule(L1, O1, L3)
  <2> SUFFICES ASSUME NEW i \in Slot, L3[i] # 0, get_cat_type(L3[i]) # CAT_S
               PROVE  Holds(O1, L3[i]) \/ Holds(L1, L3[i])
    BY DEF IntegrityRule
  <2>0. L3[i] \in cat_t
    BY DEF label_t
  <2>1. Holds(O2, L3[i]) \/ Holds(L2, L3[i])
    BY DEF check_label, IntegrityRule
  <2>2. Holds(L2, L3[i]) => Holds(O1, L3[i]) \/ Holds(L1, L3[i])
    BY DEF check_label, IntegrityRule, Holds
  <2> QED
    BY <2>0, <2>1, <2>2, <1>1
<1> QED
  BY <1>2, <1>3, EmptyOwnership DEF check_label

\* Memory that check_mem_prot makes writable is memory the thread may write.
LEMMA ProtRW ==
  ASSUME NEW L1, NEW O1, NEW L2, check_mem_prot(L1, O1, L2) = "RW"
  PROVE  check_label(L1, O1, L2, Empty)
  BY DEF check_mem_prot

LEMMA ProtType ==
  ASSUME NEW L1, NEW O1, NEW L2
  PROVE  check_mem_prot(L1, O1, L2) \in {"N", "R", "RW"}
  BY DEF check_mem_prot
=============================================================================
