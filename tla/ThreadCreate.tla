---------------------------- MODULE ThreadCreate ----------------------------
(***************************************************************************)
(* The handshake of ab_pthread_create and ab_fork (lib_client.c).  The     *)
(* creator resets a mutex, a condition variable and the flag done, clones  *)
(* the child and waits until the child has joined the control group before *)
(* it asks the arbiter to register it.  The three are static variables of  *)
(* the library, and the kernel keeps the data segment of special threads   *)
(* in common (copy_one_pte, get_futex_key): every creator uses the same.   *)
(***************************************************************************)
EXTENDS Integers

CONSTANTS
  Task,      \* pids
  Root,      \* the first child of the arbiter
  Creators   \* tasks that call ab_pthread_create or ab_fork

ASSUME ThreadAssumption ==
  /\ Root \in Creators
  /\ Creators \subseteq Task
  /\ "free" \notin Task

VARIABLES
  pc,        \* control state of each task
  kid,       \* kid[t]: the child t is creating, or created last
  mutex,     \* holder of the mutex, or "free"
  nwait,     \* waiters the condition variable counts
  done,
  ab_tasks,  \* members of the control group
  reg        \* pids the arbiter has registered

vars == <<pc, kid, mutex, nwait, done, ab_tasks, reg>>

\* The creator, and the child until it runs its start routine.
CreatorPC == {"mutex_init", "cond_init", "clear", "clone", "lock", "test",
              "asleep", "relock", "unlock", "rpc"}
ChildPC   == {"special", "child_lock", "set", "signal", "child_unlock", "bind"}

Free == "free"

TypeOK ==
  /\ pc \in [Task -> CreatorPC \cup ChildPC \cup {"none", "run"}]
  /\ kid \in [Task -> Task]
  /\ mutex \in Task \cup {Free}
  /\ nwait \in Nat
  /\ done \in {0, 1}
  /\ ab_tasks \in SUBSET Task
  /\ reg \in SUBSET Task

Init ==
  /\ pc = [t \in Task |-> IF t = Root THEN "run" ELSE "none"]
  /\ kid = [t \in Task |-> t]
  /\ mutex = Free
  /\ nwait = 0
  /\ done = 0
  /\ ab_tasks = {Root}
  /\ reg = {Root}

Goto(t, from, to) ==
  /\ pc[t] = from
  /\ pc' = [pc EXCEPT ![t] = to]

---------------------------------------------------------------------------
(* The creator                                                             *)

ab_pthread_create(t) ==
  /\ t \in Creators
  /\ \E u \in Task : pc[u] = "none"
  /\ Goto(t, "run", "mutex_init")
  /\ UNCHANGED <<kid, mutex, nwait, done, ab_tasks, reg>>

\* A mutex that is initialised while it is held is no longer held.
pthread_mutex_init(t) ==
  /\ Goto(t, "mutex_init", "cond_init")
  /\ mutex' = Free
  /\ UNCHANGED <<kid, nwait, done, ab_tasks, reg>>

\* A condition variable that is initialised while tasks sleep on it forgets
\* them, but does not wake them.
pthread_cond_init(t) ==
  /\ Goto(t, "cond_init", "clear")
  /\ nwait' = 0
  /\ UNCHANGED <<kid, mutex, done, ab_tasks, reg>>

\* Mutant: done keeps the value of an earlier creation.
clear_done_missing(t) ==
  /\ Goto(t, "clear", "clone")
  /\ UNCHANGED <<kid, mutex, nwait, done, ab_tasks, reg>>

clear_done(t) ==
  /\ Goto(t, "clear", "clone")
  /\ done' = 0
  /\ UNCHANGED <<kid, mutex, nwait, ab_tasks, reg>>

clone(t) ==
  /\ pc[t] = "clone"
  /\ \E u \in Task :
       /\ pc[u] = "none"
       /\ kid' = [kid EXCEPT ![t] = u]
       /\ pc' = [pc EXCEPT ![t] = "lock", ![u] = "special"]
  /\ UNCHANGED <<mutex, nwait, done, ab_tasks, reg>>

clone_fails(t) ==
  /\ Goto(t, "clone", "run")
  /\ UNCHANGED <<kid, mutex, nwait, done, ab_tasks, reg>>

pthread_mutex_lock(t, from, to) ==
  /\ mutex = Free
  /\ Goto(t, from, to)
  /\ mutex' = t
  /\ UNCHANGED <<kid, nwait, done, ab_tasks, reg>>

\* Unlocking does not ask who holds the mutex.
pthread_mutex_unlock(t, from, to) ==
  /\ Goto(t, from, to)
  /\ mutex' = Free
  /\ UNCHANGED <<kid, nwait, done, ab_tasks, reg>>

\* while (done == 0) pthread_cond_wait(&cond, &mutex);
test_done(t) ==
  IF done = 0
  THEN /\ Goto(t, "test", "asleep")
       /\ mutex' = Free
       /\ nwait' = nwait + 1
       /\ UNCHANGED <<kid, done, ab_tasks, reg>>
  ELSE /\ Goto(t, "test", "unlock")
       /\ UNCHANGED <<kid, mutex, nwait, done, ab_tasks, reg>>

\* ABT_FORK: the arbiter registers the child and replies.
handle_fork_rpc(t) ==
  /\ Goto(t, "rpc", "run")
  /\ reg' = reg \cup {kid[t]}
  /\ UNCHANGED <<kid, mutex, nwait, done, ab_tasks>>

---------------------------------------------------------------------------
(* The child                                                               *)

\* Mutant: the child goes on without taking the mutex.
absys_thread_control_nolock(t) ==
  /\ Goto(t, "special", "set")
  /\ ab_tasks' = ab_tasks \cup {t}
  /\ UNCHANGED <<kid, mutex, nwait, done, reg>>

absys_thread_control(t) ==
  /\ Goto(t, "special", "child_lock")
  /\ ab_tasks' = ab_tasks \cup {t}
  /\ UNCHANGED <<kid, mutex, nwait, done, reg>>

\* Mutant: done is set but nobody is signalled.
set_done_nosignal(t) ==
  /\ Goto(t, "set", "child_unlock")
  /\ done' = 1
  /\ UNCHANGED <<kid, mutex, nwait, ab_tasks, reg>>

set_done(t) ==
  /\ Goto(t, "set", "signal")
  /\ done' = 1
  /\ UNCHANGED <<kid, mutex, nwait, ab_tasks, reg>>

\* Mutant: the signal counts a sleeper down even if there is none.
pthread_cond_signal_unguarded(t) ==
  /\ pc[t] = "signal"
  /\ pc' = [u \in Task |-> IF u = t THEN "child_unlock"
                          ELSE IF pc[u] = "asleep" THEN "relock" ELSE pc[u]]
  /\ nwait' = nwait - 1
  /\ UNCHANGED <<kid, mutex, done, ab_tasks, reg>>

\* The signal wakes one sleeper, whichever, if it counts any.
pthread_cond_signal(t) ==
  /\ pc[t] = "signal"
  /\ IF nwait > 0 /\ \E u \in Task : pc[u] = "asleep"
     THEN /\ \E u \in Task :
               /\ pc[u] = "asleep"
               /\ pc' = [pc EXCEPT ![t] = "child_unlock", ![u] = "relock"]
          /\ nwait' = nwait - 1
     ELSE /\ pc' = [pc EXCEPT ![t] = "child_unlock"]
          /\ UNCHANGED nwait
  /\ UNCHANGED <<kid, mutex, done, ab_tasks, reg>>

\* init_client_state binds the socket; then start_routine runs.
init_client_state(t) ==
  /\ Goto(t, "bind", "run")
  /\ UNCHANGED <<kid, mutex, nwait, done, ab_tasks, reg>>

---------------------------------------------------------------------------
Creating(t) ==
  \/ pthread_mutex_init(t)
  \/ pthread_cond_init(t)
  \/ clear_done(t)
  \/ clone(t)
  \/ pthread_mutex_lock(t, "lock", "test")
  \/ test_done(t)
  \/ pthread_mutex_lock(t, "relock", "test")
  \/ pthread_mutex_unlock(t, "unlock", "rpc")
  \/ handle_fork_rpc(t)

pre_start_routine(t) ==
  \/ absys_thread_control(t)
  \/ pthread_mutex_lock(t, "child_lock", "set")
  \/ set_done(t)
  \/ pthread_cond_signal(t)
  \/ pthread_mutex_unlock(t, "child_unlock", "bind")
  \/ init_client_state(t)

Next ==
  \E t \in Task :
    ab_pthread_create(t) \/ clone_fails(t) \/ Creating(t) \/ pre_start_routine(t)

Spec == Init /\ [][Next]_vars

\* The kernel schedules every task that can go on.
FairSpec == Spec /\ \A t \in Task : WF_vars(Creating(t) \/ pre_start_routine(t))

---------------------------------------------------------------------------
(* Properties                                                              *)

\* "wait for child to join in order to update its mapping": when the creator
\* asks the arbiter to register a child, the child is in the control group,
\* so that malloc_update can change its mappings.
JoinedBeforeFork == \A t \in Task : pc[t] = "rpc" => kid[t] \in ab_tasks

\* The mutex does its job: two tasks are never in the critical sections of
\* the handshake at once (pthread_mutex_init resets a mutex in use).
Critical == {"test", "unlock", "set", "signal", "child_unlock"}
MutualExclusion ==
  \A t, u \in Task : pc[t] \in Critical /\ pc[u] \in Critical => t = u

\* ab_pthread_create returns, and the new thread comes to run its start
\* routine: no wake-up is lost between signal and wait.
CreateReturns == \A t \in Task : pc[t] \notin {"none", "run"} ~> pc[t] = "run"
=============================================================================
