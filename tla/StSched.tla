------------------------------- MODULE StSched ------------------------------
(***************************************************************************)
(* Threads, polling and the idle thread (sched.c) on top of StSync: the    *)
(* complete scheduler of one virtual processor.  The event mechanism       *)
(* (event.c) appears through its contract: the dispatch function wakes the *)
(* owners of any pollqs it finds ready, in the order of the I/O queue.     *)
(***************************************************************************)
EXTENDS StSync

Exists(t) == pc[t] \notin {"unborn", "freed"}

st_thread_create(t, u, joinable) ==
  /\ Calling(t)
  /\ pc[u] = "unborn"
  /\ pc' = [pc EXCEPT ![u] = "run"]
  /\ term' = IF joinable THEN term \cup {u} ELSE term
  /\ activeCount' = activeCount + 1
  /\ state' = [state EXCEPT ![u] = "RUNNABLE"]
  /\ runq' = Append(runq, u)
  /\ UNCHANGED <<obj, interrupted, timedout, ioq, zombieq, sleepq, waitq, owner,
                 objects, current, idle, woken, holds>>

(* The thread object and its stack are given back and another thread runs. *)
FreeThread(t) ==
  /\ pc' = [pc EXCEPT ![t] = "freed"]
  /\ state' = [state EXCEPT ![t] = "NONE"]
  /\ current' = None

(* st_thread_exit of a thread nobody can join. *)
ExitDetached(t) ==
  /\ Calling(t)
  /\ t \notin term
  /\ activeCount' = activeCount - 1
  /\ FreeThread(t)
  /\ UNCHANGED <<obj, interrupted, timedout, runq, ioq, zombieq, sleepq, waitq,
                 owner, objects, term, idle, woken, holds>>

(* st_thread_exit of a joinable thread: it becomes a zombie and signals    *)
(* its termination condition variable.                                     *)
ExitJoinable(t) ==
  /\ Calling(t)
  /\ t \in term
  /\ activeCount' = activeCount - 1
  /\ zombieq' = Append(zombieq, t)
  /\ pc' = [pc EXCEPT ![t] = "zombie"]
  /\ \E w \in FirstIn(waitq[t], "COND_WAIT") :
       /\ sleepq' = DelSleepq(Elems(w))
       /\ MakeRunnable([state EXCEPT ![t] = "ZOMBIE"], w, "signal")
  /\ current' = None
  /\ UNCHANGED <<obj, interrupted, timedout, ioq, waitq, owner, objects, term,
                 idle, holds>>

(* A mistake to compare with: the exit is counted again. *)
ZombieResumeCounted(t) ==
  /\ Resumed(t, "zombie")
  /\ term' = term \ {t}
  /\ activeCount' = activeCount - 1
  /\ FreeThread(t)
  /\ UNCHANGED <<obj, interrupted, timedout, runq, ioq, zombieq, sleepq, waitq,
                 owner, objects, idle, woken, holds>>

(* The zombie was joined and runs again: st_cond_destroy(term), whose      *)
(* EBUSY is ignored, then the stack is freed.                              *)
ZombieResume(t) ==
  /\ Resumed(t, "zombie")
  /\ term' = term \ {t}
  /\ FreeThread(t)
  /\ UNCHANGED <<obj, interrupted, timedout, runq, ioq, zombieq, sleepq, waitq,
                 owner, objects, idle, activeCount, woken, holds>>
-----------------------------------------------------------------------------
(* The end of st_thread_join: the zombie u becomes runnable to clean up. *)
Reap(u) ==
  /\ state[u] = "ZOMBIE"
  /\ MakeRunnable(state, <<u>>, "reap")
  /\ zombieq' = Unlink(zombieq, u)

JoinZombie(u) ==
  /\ Reap(u)
  /\ UNCHANGED <<pc, obj, interrupted, timedout, ioq, sleepq, waitq, owner,
                 objects, term, current, idle, activeCount, holds>>

st_thread_join(t, u) ==
  /\ Calling(t)
  /\ Exists(u)
  /\ u \in term
  /\ u # t
  /\ waitq[u] = <<>>
  /\ \/ JoinZombie(u)
     \/ state[u] # "ZOMBIE" /\ FailInterrupted(t)
     \/ /\ state[u] # "ZOMBIE"
        /\ t \notin interrupted
        /\ CondBlock(t, u, "join", NoTimeout)

(* st_thread_join after its wait: it fails if the wait failed, otherwise   *)
(* it looks at the target again.                                           *)
JoinFail(t) ==
  /\ CondResult(t) # "OK"
  /\ CondUnblock(t)
  /\ Return(t)
  /\ woken' = [woken EXCEPT ![t] = "none"]
  /\ UNCHANGED <<state, runq, zombieq, current>>

JoinSucceed(t) ==
  /\ CondUnblock(t)
  /\ Return(t)
  /\ Reap(obj[t])
  /\ UNCHANGED current

(* The next turn of the while loop in st_thread_join. *)
JoinWaitAgain(t) ==
  /\ state' = [state EXCEPT ![t] = "COND_WAIT"]
  /\ waitq' = [waitq EXCEPT ![obj[t]] = Append(Unlink(waitq[obj[t]], t), t)]
  /\ current' = None
  /\ UNCHANGED <<pc, obj, interrupted, timedout, runq, zombieq, woken>>

JoinReturn(t) ==
  /\ Resumed(t, "join")
  /\ \/ JoinFail(t)
     \/ /\ CondResult(t) = "OK"
        /\ IF state[obj[t]] = "ZOMBIE" THEN JoinSucceed(t) ELSE JoinWaitAgain(t)
  /\ UNCHANGED <<ioq, sleepq, owner, objects, term, idle, activeCount, holds>>

(* A mistake to compare with: a target that is already runnable is put on  *)
(* the run queue again.                                                    *)
InterruptRunnable(t, u) ==
  /\ Calling(t)
  /\ Exists(u)
  /\ state[u] \notin {"ZOMBIE", "RUNNING"}
  /\ interrupted' = interrupted \cup {u}
  /\ sleepq' = DelSleepq({u})
  /\ MakeRunnable(state, <<u>>, "interrupt")
  /\ UNCHANGED <<pc, obj, timedout, ioq, zombieq, waitq, owner, objects, term,
                 current, idle, activeCount, holds>>

(* st_thread_interrupt: the flag is set, and a blocked target is taken off *)
(* the heap and made runnable; it stays on the wait queue or I/O queue it  *)
(* blocked on until it runs.                                               *)
st_thread_interrupt(t, u) ==
  /\ Calling(t)
  /\ Exists(u)
  /\ state[u] # "ZOMBIE"
  /\ interrupted' = interrupted \cup {u}
  /\ \/ /\ state[u] \in {"RUNNING", "RUNNABLE"}
        /\ UNCHANGED <<state, runq, sleepq, woken>>
     \/ /\ state[u] \notin {"RUNNING", "RUNNABLE"}
        /\ sleepq' = DelSleepq({u})
        /\ MakeRunnable(state, <<u>>, "interrupt")
  /\ UNCHANGED <<pc, obj, timedout, ioq, zombieq, waitq, owner, objects, term,
                 current, idle, activeCount, holds>>
-----------------------------------------------------------------------------
(* st_poll up to its context switch: the pollq goes on the I/O queue. *)
PollBlock(t, timeout) ==
  /\ ioq' = Append(ioq, t)
  /\ Block(t, "IO_WAIT", "poll", timeout)
  /\ UNCHANGED <<obj, interrupted, timedout, runq, zombieq, waitq, owner,
                 objects, term, idle, activeCount, woken, holds>>

st_poll(t, timeout) ==
  /\ Calling(t)
  /\ \/ FailInterrupted(t)
     \/ t \notin interrupted /\ PollBlock(t, timeout)

(* What st_poll returns when it resumes: pq.on_ioq says whether the        *)
(* dispatch function took the pollq off the queue.                         *)
PollResult(t) ==
  IF t \in interrupted THEN "EINTR"
  ELSE IF t \in Elems(ioq) THEN "TIMEOUT" ELSE "READY"

(* A mistake to compare with: the pollq stays on the I/O queue. *)
KeepPollq(t) == ioq

(* A pollq still on the I/O queue is taken off it. *)
RemovePollq(t) == IF t \in Elems(ioq) THEN Unlink(ioq, t) ELSE ioq

PollReturn(t) ==
  /\ Resumed(t, "poll")
  /\ ioq' = RemovePollq(t)
  /\ Return(t)
  /\ interrupted' = interrupted \ {t}
  /\ woken' = [woken EXCEPT ![t] = "none"]
  /\ UNCHANGED <<state, timedout, runq, zombieq, sleepq, waitq, owner, objects,
                 term, current, idle, activeCount, holds>>
-----------------------------------------------------------------------------
(* The idle thread, first part: _ST_VP_IDLE().  The event system finds the *)
(* pollqs of the threads in ready to be ready.                             *)
Dispatch(ready) ==
  /\ current = Idle
  /\ idle = "idle"
  /\ activeCount > 0
  /\ idle' = "clock"
  /\ \E w \in Arrangements(ready, Position(ioq)) :
       /\ sleepq' = DelSleepq(Elems(w))
       /\ MakeRunnable(state, w, "io")
  /\ ioq' \in Arrangements(Elems(ioq) \ ready, Position(ioq))
  /\ UNCHANGED <<pc, obj, interrupted, timedout, zombieq, waitq, owner, objects,
                 term, current, activeCount, holds>>

(* What _st_vp_check_clock does when the clock has advanced by elapsed:    *)
(* the threads that are due are woken up, by due time; those waiting on a  *)
(* condition variable are told that they timed out; the others come nearer *)
(* to their due time.                                                      *)
Expired(elapsed) == {t \in DOMAIN sleepq : sleepq[t] <= elapsed}

(* Mistakes to compare with. *)
HeapKeepsExpired(elapsed) == [t \in DOMAIN sleepq |-> sleepq[t] - elapsed]
HeapNotAdvanced(elapsed) == [t \in DOMAIN sleepq \ Expired(elapsed) |-> sleepq[t]]
NobodyTimedOut(elapsed) == {}
IdleLeftRunning == state

HeapAfter(elapsed) ==
  [t \in DOMAIN sleepq \ Expired(elapsed) |-> sleepq[t] - elapsed]

TimedOutAfter(elapsed) == {t \in Expired(elapsed) : state[t] = "COND_WAIT"}

(* me->state = _ST_ST_RUNNABLE at the end of the idle loop. *)
IdleRunnable == [state EXCEPT ![Idle] = "RUNNABLE"]

(* Second part of the idle loop: _st_vp_check_clock, then the idle thread  *)
(* gives the processor up.                                                 *)
CheckClock(elapsed) ==
  /\ current = Idle
  /\ idle = "clock"
  /\ idle' = "idle"
  /\ \E w \in Arrangements(Expired(elapsed), sleepq) :
       MakeRunnable(IdleRunnable, w, "clock")
  /\ sleepq' = HeapAfter(elapsed)
  /\ timedout' = timedout \cup TimedOutAfter(elapsed)
  /\ current' = None
  /\ UNCHANGED <<pc, obj, interrupted, ioq, zombieq, waitq, owner, objects,
                 term, activeCount, holds>>

(* No active thread is left: the process exits. *)
IdleExit ==
  /\ current = Idle
  /\ idle = "idle"
  /\ activeCount <= 0
  /\ idle' = "exit"
  /\ UNCHANGED <<state, pc, obj, interrupted, timedout, runq, ioq, zombieq,
                 sleepq, waitq, owner, objects, term, current, activeCount,
                 woken, holds>>

Exited == idle = "exit" /\ UNCHANGED vars
-----------------------------------------------------------------------------
(* A call the application may make from thread t. *)
Call(t) ==
  \/ \E timeout \in Timeouts \cup {NoTimeout} :
       \/ st_usleep(t, timeout)
       \/ st_poll(t, timeout)
       \/ \E c \in Conds : st_cond_timedwait(t, c, timeout)
  \/ \E c \in Conds : \/ st_cond_new(t, c)
                      \/ st_cond_destroy(t, c)
                      \/ st_cond_signal(t, c)
                      \/ st_cond_broadcast(t, c)
  \/ \E m \in Mutexes : \/ st_mutex_new(t, m)
                        \/ st_mutex_destroy(t, m)
                        \/ st_mutex_lock(t, m)
                        \/ st_mutex_trylock(t, m)
                        \/ st_mutex_unlock(t, m)
  \/ \E u \in Threads : \/ \E joinable \in BOOLEAN : st_thread_create(t, u, joinable)
                        \/ st_thread_join(t, u)
                        \/ st_thread_interrupt(t, u)
  \/ ExitDetached(t)
  \/ ExitJoinable(t)

(* The rest of a call after its context switch. *)
Resume(t) ==
  \/ UsleepReturn(t)
  \/ CondReturn(t)
  \/ LockReturn(t)
  \/ JoinReturn(t)
  \/ PollReturn(t)
  \/ ZombieResume(t)

IdleStep ==
  \/ \E ready \in SUBSET Elems(ioq) : Dispatch(ready)
  \/ \E elapsed \in Elapsed : CheckClock(elapsed)
  \/ IdleExit

Next ==
  \/ Schedule
  \/ \E t \in Threads : Call(t) \/ Resume(t)
  \/ IdleStep
  \/ Exited

Spec == Init /\ [][Next]_vars
-----------------------------------------------------------------------------
(* The run queue holds exactly the runnable threads and the zombie queue   *)
(* exactly the zombies, each once.  Both use the same links field, and six *)
(* places put a thread on the run queue: create, signal, unlock, join,     *)
(* interrupt, the clock and the event system; a second insertion would     *)
(* corrupt the list.                                                       *)
QueuesExact ==
  /\ NoRepeat(runq) /\ NoRepeat(zombieq)
  /\ \A t \in Threads : /\ t \in Elems(runq) <=> state[t] = "RUNNABLE"
                        /\ t \in Elems(zombieq) <=> state[t] = "ZOMBIE"

(* ST_ASSERT in _st_vp_schedule: the thread about to be resumed is         *)
(* runnable, and nothing else is running.                                  *)
NextIsRunnable ==
  current = None => /\ state[NextThread] = "RUNNABLE"
                    /\ \A t \in AllThreads : state[t] # "RUNNING"

(* The dispatch functions make the owner of a ready pollq runnable without *)
(* looking at its state.  That is right only because every pollq they see  *)
(* belongs to a thread still in IO_WAIT: a poller woken by the clock or an *)
(* interrupt removes its pollq before the idle thread runs again.          *)
DispatchFindsWaiters ==
  current = Idle /\ idle = "idle" =>
    /\ runq = <<>>
    /\ \A t \in Elems(ioq) : state[t] = "IO_WAIT"

(* A thread in the timeout heap is blocked in a call that has a timeout:   *)
(* no way of waking a thread up leaves it in the heap.                     *)
SleepersBlocked ==
  \A t \in DOMAIN sleepq : state[t] \in {"SLEEPING", "COND_WAIT", "IO_WAIT"}

(* A wait queue holds exactly the threads inside a wait on it, also the    *)
(* ones made runnable that have not run since, and its condition variable  *)
(* or mutex cannot be freed under them.                                    *)
WaitQueuesExact ==
  \A o \in Waitables :
    /\ NoRepeat(waitq[o])
    /\ Elems(waitq[o]) =
         {t \in Threads : pc[t] \in {"cond", "join", "mutex"} /\ obj[t] = o}
    /\ o \notin Threads /\ waitq[o] # <<>> => o \in objects

(* A mutex is owned by exactly the thread that was told so, or by the one  *)
(* it has been handed to, which then cannot fail: a handoff racing with an *)
(* interrupt never leaves a mutex with an owner that returned EINTR.       *)
OwnerKnows ==
  \A m \in Mutexes, t \in Threads :
    owner[m] = t <=> \/ t \in holds[m]
                     \/ pc[t] = "mutex" /\ obj[t] = m /\ woken[t] = "handoff"

(* A free mutex has no thread blocked on it, so no wakeup is lost and      *)
(* nobody can overtake a waiter.                                           *)
FreeMutexHasNoWaiter ==
  \A m \in Mutexes :
    owner[m] = None => WaitersIn(waitq[m], "LOCK_WAIT") = {}

(* Both: a mutex is free only when nobody wants it, and its owner knows.   *)
MutexExact == OwnerKnows /\ FreeMutexHasNoWaiter

(* What a blocking call reports is what happened to it: success only after *)
(* a signal, handoff or ready descriptor, a timeout only when the clock    *)
(* expired, and EINTR whenever an interrupt ended the wait.  A join that   *)
(* resumes without an error finds its target a zombie: the loop in         *)
(* st_thread_join never turns twice.                                       *)
ResultsTruthful ==
  \A t \in Threads :
    /\ Resumed(t, "cond") \/ Resumed(t, "join") =>
         /\ CondResult(t) = "OK" => woken[t] = "signal"
         /\ CondResult(t) = "ETIME" => woken[t] = "clock"
         /\ woken[t] = "interrupt" => CondResult(t) = "EINTR"
    /\ Resumed(t, "join") /\ CondResult(t) = "OK" => state[obj[t]] = "ZOMBIE"
    /\ Resumed(t, "mutex") =>
         (LockResult(t) = "OK" <=> woken[t] = "handoff")
    /\ Resumed(t, "poll") =>
         /\ PollResult(t) = "READY" => woken[t] = "io"
         /\ PollResult(t) = "TIMEOUT" => woken[t] = "clock"
         /\ woken[t] = "interrupt" => PollResult(t) = "EINTR"
    /\ Resumed(t, "usleep") =>
         \/ woken[t] = "clock"
         \/ woken[t] = "interrupt" /\ t \in interrupted

(* _st_active_count counts the threads that have not exited, so the idle   *)
(* thread ends the process only when every thread has.                     *)
ActiveCountExact ==
  activeCount = Cardinality({t \in Threads : Exists(t) /\ pc[t] # "zombie"})
-----------------------------------------------------------------------------
(* Fairness.  A thread switched to finishes the call it was in; the idle   *)
(* thread's loop goes on (its dispatch function blocks for good only when  *)
(* nothing sleeps and no descriptor gets ready, and then nobody is         *)
(* waiting for it); application code does not keep the processor for ever, *)
(* which the cooperative design asks of it; the clock does not stand still *)
(* for ever.                                                               *)
Yield(t) == current = t /\ current' = None /\ Call(t)

Tick == \E elapsed \in Elapsed \ {0} : CheckClock(elapsed)

FairSpec ==
  /\ Spec
  /\ WF_vars(Schedule)
  /\ WF_vars(IdleStep)
  /\ SF_vars(Tick)
  /\ \A t \in Threads : WF_vars(Resume(t)) /\ SF_vars(Yield(t))

(* No thread starves: the run queue is first in, first out, so a runnable  *)
(* thread gets the processor whatever the others do, and does not stay     *)
(* runnable for ever.                                                      *)
RunnableRuns ==
  \A t \in Threads : []<>(state[t] # "RUNNABLE")

(* Timeouts are kept as long as the idle thread runs now and then, the     *)
(* only place the clock is read: every thread in the heap leaves it.       *)
TimersFireWhenIdle ==
  []<>(current = Idle) =>
    \A t \in Threads : []<>(t \notin DOMAIN sleepq)

(* docs/reference.html on st_thread_interrupt: a target that is already    *)
(* runnable gets the interrupt "only when a target thread is about to      *)
(* block".  A waiter made runnable by a signal would then report success.  *)
SignalledWaitSucceeds ==
  \A t \in Threads :
    Resumed(t, "cond") /\ woken[t] = "signal" => CondResult(t) = "OK"

(* docs/reference.html on st_thread_join: of several callers "one of the   *)
(* calling threads operates successfully, and the others terminate with    *)
(* the error".  Nobody would then be left waiting for a thread that has    *)
(* been joined and is gone.                                                *)
NoJoinerLeftBehind ==
  \A t \in Threads :
    pc[t] = "join" /\ state[t] = "COND_WAIT" => pc[obj[t]] # "freed"
=============================================================================
