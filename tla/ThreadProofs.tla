---------------------------- MODULE ThreadProofs ----------------------------
(* The handshake of ab_pthread_create is right when one task creates all   *)
(* the others, however many there are.                                     *)
EXTENDS ThreadCreate, TLAPS

Waiting == {"lock", "test", "asleep", "relock"}
Joining == {"special", "child_lock", "set"}

\* Only the creator runs creator code, and a child past its system call is in
\* the control group.
RolesInv ==
  /\ pc[Root] \in CreatorPC \cup {"run"}
  /\ \A t \in Task \ {Root} :
       /\ pc[t] \in ChildPC \cup {"none", "run"}
       /\ pc[t] \notin {"none", "special"} => t \in ab_tasks

\* A child that has not set done yet is the one the creator waits for; when
\* the creator does not wait, no child is in the handshake.
HandshakeInv ==
  /\ \A t \in Task : pc[t] \in Joining => t = kid[Root] /\ pc[Root] \in Waiting /\ done = 0
  /\ pc[Root] \in Waiting \cup {"unlock", "rpc"} =>
       kid[Root] # Root /\ pc[kid[Root]] # "none"
  /\ pc[Root] = "clone" => done = 0
  /\ pc[Root] \in {"unlock", "rpc"} => done = 1
  /\ pc[Root] \notin Waiting =>
       \A t \in Task \ {Root} : pc[t] \in {"none", "bind", "run"}

LockInv == \A t \in Task : pc[t] \in Critical => mutex = t

Inv == TypeOK /\ RolesInv /\ HandshakeInv /\ LockInv

LEMMA InitInv == Init => Inv
  BY ThreadAssumption
  DEF Init, Inv, TypeOK, RolesInv, HandshakeInv, LockInv, Waiting, Joining, Critical,
      CreatorPC, ChildPC, Free

LEMMA CreatorInv ==
  ASSUME Creators = {Root}, Inv,
         \/ ab_pthread_create(Root) \/ clone_fails(Root) \/ Creating(Root)
  PROVE  Inv'
<1> USE ThreadAssumption
    DEF Inv, TypeOK, RolesInv, HandshakeInv, LockInv, Waiting, Joining, Critical,
        CreatorPC, ChildPC, Free, Goto
<1>1. CASE ab_pthread_create(Root)
  BY <1>1 DEF ab_pthread_create
<1>2. CASE clone_fails(Root)
  BY <1>2 DEF clone_fails
<1>3. CASE pthread_mutex_init(Root)
  BY <1>3 DEF pthread_mutex_init
<1>4. CASE pthread_cond_init(Root)
  BY <1>4 DEF pthread_cond_init
<1>5. CASE clear_done(Root)
  BY <1>5 DEF clear_done
<1>6. CASE clone(Root)
  <2>1. PICK u \in Task : /\ pc[u] = "none"
                         /\ kid' = [kid EXCEPT ![Root] = u]
                         /\ pc' = [pc EXCEPT ![Root] = "lock", ![u] = "special"]
    BY <1>6 DEF clone
  <2>2. pc[Root] = "clone" /\ UNCHANGED <<mutex, nwait, done, ab_tasks, reg>>
    BY <1>6 DEF clone
  <2>3. u # Root /\ kid'[Root] = u /\ pc'[Root] = "lock" /\ pc'[u] = "special"
    BY <2>1, <2>2
  <2>4. \A t \in Task \ {Root, u} : pc'[t] = pc[t]
    BY <2>1, <2>3
  <2>5. TypeOK'
    BY <2>1, <2>2
  <2>6. done = 0
    BY <2>2
  <2> QED
    BY <2>2, <2>3, <2>4, <2>5, <2>6
<1>7. CASE pthread_mutex_lock(Root, "lock", "test") \/ pthread_mutex_lock(Root, "relock", "test")
  BY <1>7 DEF pthread_mutex_lock
<1>8. CASE test_done(Root)
  BY <1>8 DEF test_done
<1>9. CASE pthread_mutex_unlock(Root, "unlock", "rpc")
  BY <1>9 DEF pthread_mutex_unlock
<1>10. CASE handle_fork_rpc(Root)
  BY <1>10 DEF handle_fork_rpc
<1> QED
  BY <1>1, <1>2, <1>3, <1>4, <1>5, <1>6, <1>7, <1>8, <1>9, <1>10 DEF Creating

LEMMA ChildInv ==
  ASSUME Inv, NEW t \in Task, pre_start_routine(t)
  PROVE  Inv'
<1> USE ThreadAssumption
    DEF Inv, TypeOK, RolesInv, HandshakeInv, LockInv, Waiting, Joining, Critical,
        CreatorPC, ChildPC, Free, Goto
<1>1. CASE absys_thread_control(t)
  BY <1>1 DEF absys_thread_control
<1>2. CASE pthread_mutex_lock(t, "child_lock", "set")
  BY <1>2 DEF pthread_mutex_lock
<1>3. CASE set_done(t)
  BY <1>3 DEF set_done
<1>4. CASE pthread_cond_signal(t)
  BY <1>4 DEF pthread_cond_signal
<1>5. CASE pthread_mutex_unlock(t, "child_unlock", "bind")
  BY <1>5 DEF pthread_mutex_unlock
<1>6. CASE init_client_state(t)
  BY <1>6 DEF init_client_state
<1> QED
  BY <1>1, <1>2, <1>3, <1>4, <1>5, <1>6 DEF pre_start_routine

\* With one creator the invariant holds for any number of children.
THEOREM HandshakeInvariant ==
  ASSUME Creators = {Root}
  PROVE  Spec => []Inv
<1>1. Inv /\ [Next]_vars => Inv'
  <2> SUFFICES ASSUME Inv, [Next]_vars PROVE Inv'
    OBVIOUS
  <2>1. CASE UNCHANGED vars
    BY <2>1 DEF Inv, TypeOK, RolesInv, HandshakeInv, LockInv, vars
  <2>2. ASSUME NEW t \in Task,
               ab_pthread_create(t) \/ clone_fails(t) \/ Creating(t)
        PROVE  t = Root
    BY <2>2, ThreadAssumption
    DEF ab_pthread_create, clone_fails, Creating, Goto, pthread_mutex_init, pthread_cond_init,
        clear_done, clone, pthread_mutex_lock, test_done, pthread_mutex_unlock,
        handle_fork_rpc, Inv, RolesInv, ChildPC
  <2> QED
    BY <2>1, <2>2, CreatorInv, ChildInv DEF Next
<1> QED
  BY InitInv, <1>1, PTL DEF Spec

\* A single creator never asks the arbiter to register a child that has not
\* joined the control group (ab_pthread_create, _pre_start_routine).
THEOREM ForkAfterJoin ==
  ASSUME Creators = {Root}
  PROVE  Spec => []JoinedBeforeFork
<1>1. Inv => JoinedBeforeFork
  BY ThreadAssumption
  DEF Inv, TypeOK, RolesInv, HandshakeInv, JoinedBeforeFork, Waiting, Joining, ChildPC
<1> QED
  BY <1>1, HandshakeInvariant, PTL

\* A single creator never resets the mutex while a child holds it.
THEOREM HandshakeExclusive ==
  ASSUME Creators = {Root}
  PROVE  Spec => []MutualExclusion
<1>1. Inv => MutualExclusion
  BY DEF Inv, LockInv, MutualExclusion
<1> QED
  BY <1>1, HandshakeInvariant, PTL

\* Every variable keeps its type however many tasks create threads at once;
\* in particular nwait, which pthread_cond_init may reset while tasks sleep,
\* is never counted down below zero by pthread_cond_signal.
THEOREM HandshakeTypes == Spec => []TypeOK
<1>1. Init => TypeOK
  BY ThreadAssumption DEF Init, TypeOK, CreatorPC, ChildPC, Free
<1>2. TypeOK /\ [Next]_vars => TypeOK'
  <2> SUFFICES ASSUME TypeOK, [Next]_vars PROVE TypeOK'
    OBVIOUS
  <2> USE DEF TypeOK, CreatorPC, ChildPC, Goto
  <2>1. CASE UNCHANGED vars
    BY <2>1 DEF vars
  <2>2. ASSUME NEW t \in Task, ab_pthread_create(t) \/ clone_fails(t) PROVE TypeOK'
    BY <2>2 DEF ab_pthread_create, clone_fails
  <2>3. ASSUME NEW t \in Task, Creating(t) PROVE TypeOK'
    <3>1. CASE \/ pthread_mutex_init(t) \/ pthread_cond_init(t)
               \/ clear_done(t) \/ handle_fork_rpc(t)
      BY <3>1 DEF pthread_mutex_init, pthread_cond_init, clear_done, handle_fork_rpc
    <3>2. CASE clone(t)
      BY <3>2 DEF clone
    <3>3. CASE test_done(t)
      BY <3>3 DEF test_done
    <3>4. CASE \/ pthread_mutex_lock(t, "lock", "test")
               \/ pthread_mutex_lock(t, "relock", "test")
               \/ pthread_mutex_unlock(t, "unlock", "rpc")
      BY <3>4 DEF pthread_mutex_lock, pthread_mutex_unlock
    <3> QED BY <2>3, <3>1, <3>2, <3>3, <3>4 DEF Creating
  <2>4. ASSUME NEW t \in Task, pre_start_routine(t) PROVE TypeOK'
    <3>1. CASE absys_thread_control(t) \/ set_done(t) \/ init_client_state(t)
      BY <3>1 DEF absys_thread_control, set_done, init_client_state
    <3>2. CASE \/ pthread_mutex_lock(t, "child_lock", "set")
               \/ pthread_mutex_unlock(t, "child_unlock", "bind")
      BY <3>2 DEF pthread_mutex_lock, pthread_mutex_unlock
    <3>3. CASE pthread_cond_signal(t)
      <4>1. nwait' \in Nat
        BY <3>3 DEF pthread_cond_signal
      <4> QED BY <3>3, <4>1 DEF pthread_cond_signal
    <3> QED BY <2>4, <3>1, <3>2, <3>3 DEF pre_start_routine
  <2> QED BY <2>1, <2>2, <2>3, <2>4 DEF Next
<1> QED
  BY <1>1, <1>2, PTL DEF Spec
=============================================================================
