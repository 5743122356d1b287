------------------------------- MODULE StSync -------------------------------
(***************************************************************************)
(* Sleeping, condition variables and mutexes (sync.c).                     *)
(***************************************************************************)
EXTENDS StVp

(* st_usleep up to its context switch.  Without a timeout the thread is    *)
(* suspended until it is interrupted.                                      *)
SleepBlock(t, usecs) ==
  /\ Block(t, IF usecs = NoTimeout THEN "SUSPENDED" ELSE "SLEEPING", "usleep", usecs)
  /\ UNCHANGED <<obj, interrupted, timedout, runq, ioq, zombieq, waitq, owner,
                 objects, term, idle, activeCount, woken, holds>>

st_usleep(t, usecs) ==
  /\ Calling(t)
  /\ \/ FailInterrupted(t)
     \/ t \notin interrupted /\ SleepBlock(t, usecs)

(* st_usleep after its context switch. *)
UsleepReturn(t) ==
  /\ Resumed(t, "usleep")
  /\ Return(t)
  /\ interrupted' = interrupted \ {t}
  /\ woken' = [woken EXCEPT ![t] = "none"]
  /\ UNCHANGED <<state, timedout, runq, ioq, zombieq, sleepq, waitq, owner,
                 objects, term, current, idle, activeCount, holds>>
-----------------------------------------------------------------------------
(* Allocation and release of condition variables and mutexes. *)
st_cond_new(t, c) ==
  /\ Calling(t)
  /\ c \in Conds \ objects
  /\ objects' = objects \cup {c}
  /\ waitq' = [waitq EXCEPT ![c] = <<>>]
  /\ UNCHANGED <<state, pc, obj, interrupted, timedout, runq, ioq, zombieq,
                 sleepq, owner, term, current, idle, activeCount, woken, holds>>

(* A mistake to compare with: no look at the wait queue. *)
CondDestroyUnchecked(t, c) ==
  /\ Calling(t)
  /\ c \in Conds \cap objects
  /\ objects' = objects \ {c}
  /\ UNCHANGED <<state, pc, obj, interrupted, timedout, runq, ioq, zombieq,
                 sleepq, waitq, owner, term, current, idle, activeCount, woken,
                 holds>>

st_cond_destroy(t, c) ==
  /\ Calling(t)
  /\ c \in Conds \cap objects
  /\ waitq[c] = <<>>
  /\ objects' = objects \ {c}
  /\ UNCHANGED <<state, pc, obj, interrupted, timedout, runq, ioq, zombieq,
                 sleepq, waitq, owner, term, current, idle, activeCount, woken,
                 holds>>

(* Thread t queues itself on condition variable c and blocks: the body of  *)
(* st_cond_timedwait, also called by st_thread_join with place "join".     *)
CondBlock(t, c, place, timeout) ==
  /\ Block(t, "COND_WAIT", place, timeout)
  /\ waitq' = [waitq EXCEPT ![c] = Append(waitq[c], t)]
  /\ obj' = [obj EXCEPT ![t] = c]
  /\ UNCHANGED <<interrupted, timedout, runq, ioq, zombieq, owner, objects, term,
                 idle, activeCount, woken, holds>>

st_cond_timedwait(t, c, timeout) ==
  /\ Calling(t)
  /\ c \in Conds \cap objects
  /\ \/ FailInterrupted(t)
     \/ t \notin interrupted /\ CondBlock(t, c, "cond", timeout)

(* What a wait on a condition variable returns when it resumes. *)
CondResult(t) ==
  IF t \in interrupted THEN "EINTR" ELSE IF t \in timedout THEN "ETIME" ELSE "OK"

(* The caller leaves the wait queue and its flags are cleared. *)
CondUnblock(t) ==
  /\ waitq' = [waitq EXCEPT ![obj[t]] = Unlink(waitq[obj[t]], t)]
  /\ timedout' = timedout \ {t}
  /\ interrupted' = interrupted \ {t}

CondReturn(t) ==
  /\ Resumed(t, "cond")
  /\ CondUnblock(t)
  /\ Return(t)
  /\ woken' = [woken EXCEPT ![t] = "none"]
  /\ UNCHANGED <<state, runq, ioq, zombieq, sleepq, owner, objects, term,
                 current, idle, activeCount, holds>>

st_cond_signal(t, c) ==
  /\ Calling(t)
  /\ c \in Conds \cap objects
  /\ \E w \in FirstIn(waitq[c], "COND_WAIT") :
       /\ sleepq' = DelSleepq(Elems(w))
       /\ MakeRunnable(state, w, "signal")
  /\ UNCHANGED <<pc, obj, interrupted, timedout, ioq, zombieq, waitq, owner,
                 objects, term, current, idle, activeCount, holds>>

st_cond_broadcast(t, c) ==
  /\ Calling(t)
  /\ c \in Conds \cap objects
  /\ \E w \in Arrangements(WaitersIn(waitq[c], "COND_WAIT"), Position(waitq[c])) :
       /\ sleepq' = DelSleepq(Elems(w))
       /\ MakeRunnable(state, w, "signal")
  /\ UNCHANGED <<pc, obj, interrupted, timedout, ioq, zombieq, waitq, owner,
                 objects, term, current, idle, activeCount, holds>>
-----------------------------------------------------------------------------
st_mutex_new(t, m) ==
  /\ Calling(t)
  /\ m \in Mutexes \ objects
  /\ objects' = objects \cup {m}
  /\ waitq' = [waitq EXCEPT ![m] = <<>>]
  /\ owner' = [owner EXCEPT ![m] = None]
  /\ UNCHANGED <<state, pc, obj, interrupted, timedout, runq, ioq, zombieq,
                 sleepq, term, current, idle, activeCount, woken, holds>>

st_mutex_destroy(t, m) ==
  /\ Calling(t)
  /\ m \in Mutexes \cap objects
  /\ owner[m] = None
  /\ waitq[m] = <<>>
  /\ objects' = objects \ {m}
  /\ UNCHANGED <<state, pc, obj, interrupted, timedout, runq, ioq, zombieq,
                 sleepq, waitq, owner, term, current, idle, activeCount, woken,
                 holds>>

(* Taking a free mutex. *)
TakeMutex(t, m) ==
  /\ owner[m] = None
  /\ owner' = [owner EXCEPT ![m] = t]
  /\ holds' = [holds EXCEPT ![m] = @ \cup {t}]
  /\ UNCHANGED <<state, pc, obj, interrupted, timedout, runq, ioq, zombieq,
                 sleepq, waitq, objects, term, current, idle, activeCount, woken>>

(* Queueing for a mutex another thread owns. *)
LockBlock(t, m) ==
  /\ owner[m] \notin {None, t}
  /\ Block(t, "LOCK_WAIT", "mutex", NoTimeout)
  /\ waitq' = [waitq EXCEPT ![m] = Append(waitq[m], t)]
  /\ obj' = [obj EXCEPT ![t] = m]
  /\ UNCHANGED <<interrupted, timedout, runq, ioq, zombieq, owner, objects, term,
                 idle, activeCount, woken, holds>>

st_mutex_lock(t, m) ==
  /\ Calling(t)
  /\ m \in Mutexes \cap objects
  /\ \/ FailInterrupted(t)
     \/ t \notin interrupted /\ TakeMutex(t, m)
     \/ t \notin interrupted /\ LockBlock(t, m)

(* A mistake to compare with: the owner is not looked at. *)
LockResultFlagOnly(t) == IF t \in interrupted THEN "EINTR" ELSE "OK"

(* What st_mutex_lock returns when it resumes: an interrupted thread that  *)
(* was given the mutex before the interrupt keeps both the mutex and the   *)
(* pending interrupt.                                                      *)
LockResult(t) ==
  IF t \in interrupted /\ owner[obj[t]] # t THEN "EINTR" ELSE "OK"

LockReturn(t) ==
  LET m == obj[t] IN
  /\ Resumed(t, "mutex")
  /\ waitq' = [waitq EXCEPT ![m] = Unlink(waitq[m], t)]
  /\ Return(t)
  /\ woken' = [woken EXCEPT ![t] = "none"]
  /\ \/ /\ LockResult(t) = "EINTR"
        /\ interrupted' = interrupted \ {t}
        /\ UNCHANGED holds
     \/ /\ LockResult(t) = "OK"
        /\ holds' = [holds EXCEPT ![m] = @ \cup {t}]
        /\ UNCHANGED interrupted
  /\ UNCHANGED <<state, timedout, runq, ioq, zombieq, sleepq, owner, objects,
                 term, current, idle, activeCount>>

st_mutex_trylock(t, m) ==
  /\ Calling(t)
  /\ m \in Mutexes \cap objects
  /\ TakeMutex(t, m)

(* The mutex is handed to the longest waiting thread, if there is one. *)
st_mutex_unlock(t, m) ==
  /\ Calling(t)
  /\ m \in Mutexes \cap objects
  /\ owner[m] = t
  /\ holds' = [holds EXCEPT ![m] = @ \ {t}]
  /\ \E w \in FirstIn(waitq[m], "LOCK_WAIT") :
       /\ MakeRunnable(state, w, "handoff")
       /\ owner' = [owner EXCEPT ![m] = IF w = <<>> THEN None ELSE Head(w)]
  /\ UNCHANGED <<pc, obj, interrupted, timedout, ioq, zombieq, sleepq, waitq,
                 objects, term, current, idle, activeCount>>
=============================================================================
