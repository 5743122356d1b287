-------------------------------- MODULE StVp --------------------------------
(***************************************************************************)
(* The virtual processor of State Threads (struct _st_vp, common.h): the   *)
(* thread objects, the queues that link them, and the primitive steps from *)
(* which every library call is made: wake threads up, block the caller,    *)
(* switch context.                                                         *)
(*                                                                         *)
(* Threads run one at a time and give the processor up only inside a       *)
(* library call, so a call is one atomic action up to its context switch   *)
(* and one more from the switch to its return; pc[t] says where inside the *)
(* library thread t will resume.  Calls that fail without changing any     *)
(* state (EINVAL, EDEADLK, EBUSY, EPERM) are stuttering steps and do not   *)
(* appear as actions.                                                      *)
(***************************************************************************)
EXTENDS Clist, Integers

CONSTANTS
  Threads,      \* thread objects; each is created at most once
  Primordial,   \* the thread that called st_init
  Idle,         \* the idle thread
  None,         \* NULL
  Conds,        \* condition variables an application may create
  Mutexes,      \* mutexes an application may create
  Timeouts,     \* the finite timeouts a caller may ask for
  NoTimeout,    \* ST_UTIME_NO_TIMEOUT
  Elapsed       \* what st_utime() may have advanced by between two readings

ASSUME VpAssumption ==
  /\ IsFiniteSet(Threads)
  /\ Primordial \in Threads
  /\ Idle \notin Threads
  /\ None \notin Threads \cup {Idle}
  /\ None \notin Conds \cup Mutexes
  /\ Conds \cap Mutexes = {}
  /\ (Conds \cup Mutexes) \cap Threads = {}
  /\ Timeouts \subseteq Nat
  /\ NoTimeout \notin Timeouts
  /\ Elapsed \subseteq Nat

AllThreads == Threads \cup {Idle}

(* What a thread can be queued on.  The termination condition variable     *)
(* thread->term of thread u is named u.                                    *)
Waitables == Conds \cup Mutexes \cup Threads

(* _ST_ST_xxx, and "NONE" for a thread object that does not exist: not yet *)
(* created, or its stack given back.                                       *)
States == {"RUNNING", "RUNNABLE", "IO_WAIT", "LOCK_WAIT", "COND_WAIT",
           "SLEEPING", "ZOMBIE", "SUSPENDED", "NONE"}

(* Where a thread resumes: in its own code, or after the context switch of *)
(* the named library call.                                                 *)
Places == {"unborn", "run", "usleep", "cond", "join", "mutex", "poll",
           "zombie", "freed"}

Causes == {"none", "signal", "handoff", "io", "clock", "interrupt", "reap"}

VARIABLES
  state,        \* thread->state
  pc,           \* the saved context, as a Place
  obj,          \* what the thread waits for there: cond, mutex or join target
  interrupted,  \* threads with _ST_FL_INTERRUPT
  timedout,     \* threads with _ST_FL_TIMEDOUT
  runq, ioq, zombieq,  \* _ST_RUNQ, _ST_IOQ (one pollq per thread), _ST_ZOMBIEQ
  sleepq,       \* _ST_SLEEPQ: for the threads in the heap, due - _ST_LAST_CLOCK
  waitq,        \* wait_q of each condition variable and mutex
  owner,        \* lock->owner
  objects,      \* the condition variables and mutexes that are allocated
  term,         \* threads with thread->term # NULL
  current,      \* _ST_CURRENT_THREAD(); None inside _st_vp_schedule
  idle,         \* where the idle thread is in its loop
  activeCount,  \* _st_active_count
  woken,        \* history: what made the thread runnable since it blocked
  holds         \* history: threads whose st_mutex_(try)lock returned 0

vars == <<state, pc, obj, interrupted, timedout, runq, ioq, zombieq, sleepq,
          waitq, owner, objects, term, current, idle, activeCount, woken,
          holds>>

TypeOK ==
  /\ state \in [AllThreads -> States]
  /\ pc \in [Threads -> Places]
  /\ obj \in [Threads -> Waitables \cup {None}]
  /\ interrupted \subseteq Threads
  /\ timedout \subseteq Threads
  /\ runq \in Seq(Threads)
  /\ ioq \in Seq(Threads)
  /\ zombieq \in Seq(Threads)
  /\ DOMAIN sleepq \subseteq Threads
  /\ \A t \in DOMAIN sleepq : sleepq[t] \in Nat
  /\ waitq \in [Waitables -> Seq(Threads)]
  /\ owner \in [Mutexes -> Threads \cup {None}]
  /\ objects \subseteq Conds \cup Mutexes
  /\ term \subseteq Threads
  /\ current \in AllThreads \cup {None}
  /\ idle \in {"idle", "clock", "exit"}
  /\ activeCount \in Int
  /\ woken \in [Threads -> Causes]
  /\ holds \in [Mutexes -> SUBSET Threads]

(* st_init: the calling thread becomes the primordial thread, running; the *)
(* idle thread exists, is kept off the run queue and not counted active.   *)
Init ==
  /\ state = [t \in AllThreads |->
                IF t = Primordial THEN "RUNNING"
                ELSE IF t = Idle THEN "RUNNABLE" ELSE "NONE"]
  /\ pc = [t \in Threads |-> IF t = Primordial THEN "run" ELSE "unborn"]
  /\ obj = [t \in Threads |-> None]
  /\ interrupted = {}
  /\ timedout = {}
  /\ runq = <<>>
  /\ ioq = <<>>
  /\ zombieq = <<>>
  /\ sleepq = [t \in {} |-> 0]
  /\ waitq = [o \in Waitables |-> <<>>]
  /\ owner = [m \in Mutexes |-> None]
  /\ objects = {}
  /\ term = {}
  /\ current = Primordial
  /\ idle = "idle"
  /\ activeCount = 1
  /\ woken = [t \in Threads |-> "none"]
  /\ holds = [m \in Mutexes |-> {}]
-----------------------------------------------------------------------------
(* Thread t is the running thread and is in application code. *)
Calling(t) == current = t /\ pc[t] = "run"

(* Thread t has just been switched back to, inside the named call. *)
Resumed(t, place) == current = t /\ pc[t] = place

(* A mistake to compare with: the threads stay in the heap. *)
KeepSleepq(S) == sleepq

(* _ST_DEL_SLEEPQ for every thread of S that is in the heap. *)
DelSleepq(S) == [t \in DOMAIN sleepq \ S |-> sleepq[t]]

(* A mistake to compare with: runnable threads go to the head of the queue.*)
MakeRunnableFirst(st, w, why) ==
  /\ state' = [t \in AllThreads |-> IF t \in Elems(w) THEN "RUNNABLE" ELSE st[t]]
  /\ runq' = w \o runq
  /\ woken' = [t \in Threads |-> IF t \in Elems(w) THEN why ELSE woken[t]]

(* The threads of w become runnable, in that order, for reason why: the    *)
(* state is set and the thread put on the run queue.  st is the state      *)
(* function the change is made to.                                         *)
MakeRunnable(st, w, why) ==
  /\ state' = [t \in AllThreads |-> IF t \in Elems(w) THEN "RUNNABLE" ELSE st[t]]
  /\ runq' = runq \o w
  /\ woken' = [t \in Threads |-> IF t \in Elems(w) THEN why ELSE woken[t]]

(* The loops of _st_cond_signal and st_mutex_unlock over a wait queue: the *)
(* threads found in state st, and the first of them.  Queued threads in    *)
(* another state were made runnable already and have not run since.        *)
WaitersIn(q, st) == {t \in Elems(q) : state[t] = st}

FirstIn(q, st) ==
  IF WaitersIn(q, st) = {}
  THEN {<<>>}
  ELSE {<<q[i]>> : i \in {k \in 1..Len(q) :
                            /\ state[q[k]] = st
                            /\ \A j \in 1..(k - 1) : state[q[j]] # st}}

(* The caller blocks in state st and switches context.  With a finite      *)
(* timeout _st_add_sleep_q puts it in the heap.                            *)
Block(t, st, place, timeout) ==
  /\ state' = [state EXCEPT ![t] = st]
  /\ pc' = [pc EXCEPT ![t] = place]
  /\ sleepq' = IF timeout = NoTimeout
               THEN sleepq
               ELSE [u \in DOMAIN sleepq \cup {t} |->
                       IF u = t THEN timeout ELSE sleepq[u]]
  /\ current' = None

(* A blocking call returns to application code. *)
Return(t) ==
  /\ pc' = [pc EXCEPT ![t] = "run"]
  /\ obj' = [obj EXCEPT ![t] = None]

(* A blocking call made with an interrupt pending clears the flag and      *)
(* fails with EINTR at once.                                               *)
FailInterrupted(t) ==
  /\ t \in interrupted
  /\ interrupted' = interrupted \ {t}
  /\ UNCHANGED <<state, pc, obj, timedout, runq, ioq, zombieq, sleepq, waitq,
                 owner, objects, term, current, idle, activeCount, woken, holds>>

(* _st_vp_schedule: take the head of the run queue, or the idle thread. *)
NextThread == IF runq # <<>> THEN Head(runq) ELSE Idle

Schedule ==
  /\ current = None
  /\ current' = NextThread
  /\ state' = [state EXCEPT ![NextThread] = "RUNNING"]
  /\ runq' = IF runq # <<>> THEN Tail(runq) ELSE runq
  /\ UNCHANGED <<pc, obj, interrupted, timedout, ioq, zombieq, sleepq, waitq,
                 owner, objects, term, idle, activeCount, woken, holds>>
=============================================================================
