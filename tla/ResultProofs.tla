---------------------------- MODULE ResultProofs ----------------------------
(***************************************************************************)
(* Blocking calls report what happened to them, for any number of threads, *)
(* condition variables and mutexes.                                        *)
(***************************************************************************)
EXTENDS MutexProofs

(* Nothing happens to thread t, except that it may be given the processor  *)
(* or be interrupted once more.                                            *)
Undisturbed(t) ==
  /\ pc'[t] = pc[t]
  /\ woken'[t] = woken[t]
  /\ \/ state'[t] = state[t]
     \/ state[t] = "RUNNABLE" /\ state'[t] = "RUNNING"
  /\ t \in timedout' <=> t \in timedout
  /\ t \in Elems(ioq') <=> t \in Elems(ioq)
  /\ t \in interrupted => t \in interrupted'

(* Thread t is in no wait, or has just blocked. *)
Settled(t) ==
  /\ t \notin timedout
  /\ \/ pc[t] \in {"run", "zombie", "freed", "mutex"}
     \/ pc[t] \in {"cond", "join"} /\ state[t] = "COND_WAIT"
     \/ pc[t] = "poll" /\ state[t] = "IO_WAIT"
     \/ pc[t] = "usleep" /\ state[t] \in {"SLEEPING", "SUSPENDED"}

LEMMA UndisturbedKeeps ==
  ASSUME NEW t, WakeRecorded(t), Undisturbed(t)
  PROVE  WakeRecorded(t)'
BY SMTT(30) DEF WakeRecorded, Undisturbed

LEMMA SettledKeeps ==
  ASSUME NEW t, Settled(t)'
  PROVE  WakeRecorded(t)'
BY SMTT(30) DEF WakeRecorded, Settled

(* The step leaves everybody alone but t, which returns or blocks. *)
LEMMA OneSettles ==
  ASSUME WakesRecorded, NEW t \in Threads, Settled(t)',
         \A v \in Threads \ {t} : Undisturbed(v)
  PROVE  WakesRecorded'
<1>1. ASSUME NEW v \in Threads PROVE WakeRecorded(v)'
  <2>1. CASE v = t
    BY <2>1, SettledKeeps, Zenon
  <2>2. CASE v # t
    BY <2>2, UndisturbedKeeps DEF WakesRecorded
  <2> QED BY <2>1, <2>2
<1> QED BY <1>1 DEF WakesRecorded

(* A thread in its own code has no timeout flag left behind. *)
LEMMA RunNotTimedOut ==
  ASSUME WakesRecorded, NEW t \in Threads, pc[t] \notin {"cond", "join"}
  PROVE  t \notin timedout
BY Zenon DEF WakesRecorded, WakeRecorded

(* A thread blocks in a call. *)
LEMMA BlockWakes ==
  ASSUME TypeOK, WakesRecorded, NEW t \in Threads, pc[t] = "run",
         NEW st, NEW place, NEW timeout, Block(t, st, place, timeout),
         \/ place \in {"cond", "join"} /\ st = "COND_WAIT"
         \/ place = "poll" /\ st = "IO_WAIT"
         \/ place = "usleep" /\ st \in {"SLEEPING", "SUSPENDED"}
         \/ place = "mutex",
         \A v \in Threads \ {t} : v \in Elems(ioq') <=> v \in Elems(ioq),
         UNCHANGED <<interrupted, timedout, woken>>
  PROVE  WakesRecorded'
<1>1. \A v \in Threads : /\ state'[v] = IF v = t THEN st ELSE state[v]
                         /\ pc'[v] = IF v = t THEN place ELSE pc[v]
  BY BlockEffect, Zenon
<1>2. t \notin timedout
  BY RunNotTimedOut
<1>3. Settled(t)'
  BY <1>1, <1>2, SMTT(30) DEF Settled
<1>4. \A v \in Threads \ {t} : Undisturbed(v)
  BY <1>1, ZenonT(40) DEF Undisturbed
<1> QED BY <1>3, <1>4, OneSettles, Zenon

(* A call returns. *)
LEMMA ReturnWakes ==
  ASSUME TypeOK, WakesRecorded, NEW t \in Threads, Return(t),
         woken' = [woken EXCEPT ![t] = "none"],
         t \notin timedout', timedout' \in {timedout, timedout \ {t}},
         interrupted' \in {interrupted, interrupted \ {t}},
         \A v \in Threads \ {t} : v \in Elems(ioq') <=> v \in Elems(ioq),
         UNCHANGED state
  PROVE  WakesRecorded'
<1>1. \A v \in Threads : /\ pc'[v] = IF v = t THEN "run" ELSE pc[v]
                         /\ woken'[v] = IF v = t THEN "none" ELSE woken[v]
  BY ReturnEffect, WokenReset, ZenonT(60)
<1>2. Settled(t)'
  BY <1>1, Zenon DEF Settled
<1>3. ASSUME NEW v \in Threads \ {t} PROVE Undisturbed(v)
  BY <1>1, SMTT(30) DEF Undisturbed
<1> QED BY <1>2, <1>3, OneSettles, Zenon

(* A signal, from st_cond_signal, st_cond_broadcast or an exit. *)
LEMMA SignalRecorded ==
  ASSUME SchedInv, WakesRecorded, NEW v \in Threads, state[v] = "COND_WAIT",
         state'[v] = "RUNNABLE", woken'[v] = "signal", pc'[v] = pc[v],
         UNCHANGED timedout
  PROVE  WakeRecorded(v)'
<1>1. pc[v] \in {"cond", "join"}
  BY Zenon DEF SchedInv, QueueInv, StateFitsPlace
<1>2. v \notin timedout
  BY Zenon DEF WakesRecorded, WakeRecorded
<1> QED BY <1>1, <1>2, SMTT(30) DEF WakeRecorded

(* A thread is blocked in the call its state says. *)
LEMMA BlockedPlace ==
  ASSUME SchedInv, NEW v \in Threads
  PROVE  /\ state[v] = "COND_WAIT" => pc[v] \in {"cond", "join"}
         /\ state[v] = "LOCK_WAIT" => pc[v] = "mutex"
         /\ state[v] = "IO_WAIT" => pc[v] = "poll" /\ v \in Elems(ioq)
         /\ state[v] \in {"SLEEPING", "SUSPENDED"} => pc[v] = "usleep"
         /\ state[v] = "ZOMBIE" => pc[v] = "zombie"
BY Zenon DEF SchedInv, QueueInv, StateFitsPlace, PollersQueued

(* A step changes nothing WakeRecorded looks at, but may add interrupts or *)
(* let go of one of a thread in its own code.                              *)
LEMMA QuietStep ==
  ASSUME TypeOK, WakesRecorded, UNCHANGED <<pc, woken, timedout, ioq, state>>,
         \/ \A v \in Threads : v \in interrupted => v \in interrupted'
         \/ \E t \in Threads : pc[t] = "run" /\ interrupted' = interrupted \ {t}
  PROVE  WakesRecorded'
<1>1. CASE \A v \in Threads : v \in interrupted => v \in interrupted'
  <2>1. \A v \in Threads : Undisturbed(v)
    BY <1>1, Zenon DEF Undisturbed
  <2> QED BY <2>1, UndisturbedKeeps, Zenon DEF WakesRecorded
<1>2. ASSUME NEW t \in Threads, pc[t] = "run", interrupted' = interrupted \ {t}
      PROVE  WakesRecorded'
  <2>1. Settled(t)'
    BY <1>2, RunNotTimedOut, Zenon DEF Settled
  <2>2. \A v \in Threads \ {t} : Undisturbed(v)
    BY <1>2, Zenon DEF Undisturbed
  <2> QED BY <2>1, <2>2, OneSettles, Zenon
<1> QED BY <1>1, <1>2

(* Everybody is left alone, returns or blocks, or is woken up with a record. *)
LEMMA EachRecorded ==
  ASSUME WakesRecorded,
         \A v \in Threads : Undisturbed(v) \/ Settled(v)' \/ WakeRecorded(v)'
  PROVE  WakesRecorded'
BY UndisturbedKeeps, SettledKeeps, Zenon DEF WakesRecorded

(* The steps of the scheduler itself: a switch, ready descriptors, the clock. *)
LEMMA IdleRecorded ==
  ASSUME SchedInv, WakesRecorded, Schedule \/ IdleStep
  PROVE  WakesRecorded'
<1>0. TypeOK
  BY DEF SchedInv
<1>1. CASE Schedule
  <2>1. /\ state' = [state EXCEPT ![NextThread] = "RUNNING"]
        /\ UNCHANGED <<pc, interrupted, timedout, ioq, woken>>
    BY <1>1, Zenon DEF Schedule
  <2>2. state[NextThread] = "RUNNABLE"
    BY <1>1, SchedNext, Zenon DEF Schedule, NextIsRunnable
  <2>3. \A v \in Threads : state'[v] = IF v = NextThread THEN "RUNNING" ELSE state[v]
    BY <1>0, <2>1, Zenon DEF TypeOK, AllThreads
  <2>4. \A v \in Threads : Undisturbed(v)
    BY <2>1, <2>2, <2>3 DEF Undisturbed
  <2> QED BY <2>4, EachRecorded, Zenon
<1>2. ASSUME NEW ready \in SUBSET Elems(ioq), Dispatch(ready) PROVE WakesRecorded'
  <2>1. UNCHANGED <<pc, interrupted, timedout>>
    BY <1>2, Zenon DEF Dispatch
  <2>2. /\ Elems(ioq') = Elems(ioq) \ ready
        /\ \A v \in ready : state[v] = "IO_WAIT"
        /\ \A v \in Threads :
             /\ state'[v] = IF v \in ready THEN "RUNNABLE" ELSE state[v]
             /\ woken'[v] = IF v \in ready THEN "io" ELSE woken[v]
    BY <1>2, DispatchWakes, Zenon
  <2>3. ASSUME NEW v \in Threads, v \in ready PROVE WakeRecorded(v)'
    <3>1. pc'[v] = "poll" /\ v \notin timedout'
      BY <2>1, <2>2, <2>3, BlockedPlace, RunNotTimedOut
    <3>2. woken'[v] = "io" /\ v \notin Elems(ioq')
      BY <2>2, <2>3
    <3> QED BY <3>1, <3>2, SMTT(30) DEF WakeRecorded
  <2>4. ASSUME NEW v \in Threads, v \notin ready PROVE Undisturbed(v)
    BY <2>1, <2>2, <2>4 DEF Undisturbed
  <2> QED BY <2>3, <2>4, EachRecorded, Zenon
<1>3. ASSUME NEW elapsed \in Elapsed, CheckClock(elapsed) PROVE WakesRecorded'
  <2>1. UNCHANGED <<pc, interrupted, ioq>>
    BY <1>3, Zenon DEF CheckClock
  <2>2. PICK W \in SUBSET Threads :
          /\ timedout' = timedout \cup {v \in W : state[v] = "COND_WAIT"}
          /\ \A v \in W : state[v] \in {"SLEEPING", "COND_WAIT", "IO_WAIT"}
          /\ \A v \in Threads :
               /\ state'[v] = IF v \in W THEN "RUNNABLE" ELSE state[v]
               /\ woken'[v] = IF v \in W THEN "clock" ELSE woken[v]
    BY <1>3, ClockWakes, Zenon
  <2>3. ASSUME NEW v \in Threads, v \in W PROVE WakeRecorded(v)'
    <3>1. state'[v] = "RUNNABLE" /\ woken'[v] = "clock" /\ pc'[v] = pc[v]
      BY <2>1, <2>2, <2>3
    <3>2. CASE state[v] = "COND_WAIT"
      <4>1. pc[v] \in {"cond", "join"} /\ v \in timedout'
        BY <2>2, <2>3, <3>2, BlockedPlace
      <4> QED BY <3>1, <4>1, SMTT(30) DEF WakeRecorded
    <3>3. CASE state[v] = "IO_WAIT"
      <4>1. pc[v] = "poll" /\ v \in Elems(ioq)
        BY <3>3, BlockedPlace
      <4>2. v \notin timedout'
        BY <2>2, <3>3, <4>1, RunNotTimedOut
      <4> QED BY <2>1, <3>1, <4>1, <4>2, SMTT(30) DEF WakeRecorded
    <3>4. CASE state[v] = "SLEEPING"
      <4>1. pc[v] = "usleep"
        BY <3>4, BlockedPlace
      <4>2. v \notin timedout'
        BY <2>2, <3>4, <4>1, RunNotTimedOut
      <4> QED BY <3>1, <4>1, <4>2, SMTT(30) DEF WakeRecorded
    <3> QED BY <2>2, <2>3, <3>2, <3>3, <3>4
  <2>4. ASSUME NEW v \in Threads, v \notin W PROVE Undisturbed(v)
    BY <2>1, <2>2, <2>4 DEF Undisturbed
  <2> QED BY <2>3, <2>4, EachRecorded, Zenon
<1>4. CASE IdleExit
  <2>1. UNCHANGED <<pc, woken, timedout, ioq, state, interrupted>>
    BY <1>4, Zenon DEF IdleExit
  <2> QED BY <1>0, <2>1, QuietStep, Zenon
<1> QED BY <1>1, <1>2, <1>3, <1>4, Zenon DEF IdleStep

(* One thread wakes others: signals, a handoff, an interrupt, a reap. *)
LEMMA WakeupRecorded ==
  ASSUME SchedInv, WakesRecorded, NEW t \in Threads,
         \/ \E c \in Conds : st_cond_signal(t, c) \/ st_cond_broadcast(t, c)
         \/ \E m \in Mutexes : st_mutex_unlock(t, m)
         \/ \E u \in Threads : st_thread_interrupt(t, u) \/ JoinZombie(u)
         \/ ExitJoinable(t)
  PROVE  WakesRecorded'
<1>0. TypeOK
  BY DEF SchedInv
<1>1. ASSUME NEW c \in Conds, st_cond_signal(t, c) \/ st_cond_broadcast(t, c)
      PROVE  WakesRecorded'
  <2>1. UNCHANGED <<pc, interrupted, timedout, ioq>>
    BY <1>1, Zenon DEF st_cond_signal, st_cond_broadcast
  <2>2. PICK W \in SUBSET Threads :
          /\ \A v \in W : state[v] = "COND_WAIT"
          /\ \A v \in Threads :
               /\ state'[v] = IF v \in W THEN "RUNNABLE" ELSE state[v]
               /\ woken'[v] = IF v \in W THEN "signal" ELSE woken[v]
    BY <1>0, <1>1, SignalWakes, Zenon
  <2>3. ASSUME NEW v \in Threads, v \in W PROVE WakeRecorded(v)'
    BY <2>1, <2>2, <2>3, SignalRecorded, Zenon
  <2>4. ASSUME NEW v \in Threads, v \notin W PROVE Undisturbed(v)
    BY <2>1, <2>2, <2>4, Zenon DEF Undisturbed
  <2> QED BY <2>3, <2>4, EachRecorded, Zenon
<1>2. ASSUME NEW m \in Mutexes, st_mutex_unlock(t, m) PROVE WakesRecorded'
  <2>1. UNCHANGED <<pc, interrupted, timedout, ioq>>
    BY <1>2, Zenon DEF st_mutex_unlock
  <2>2. PICK w \in FirstIn(waitq[m], "LOCK_WAIT") : MakeRunnable(state, w, "handoff")
    BY <1>2, Zenon DEF st_mutex_unlock
  <2>3. w \in Seq(Threads) /\ Elems(w) \subseteq WaitersIn(waitq[m], "LOCK_WAIT")
    <3>1. waitq[m] \in Seq(Threads)
      BY <1>0 DEF TypeOK, Waitables
    <3> QED BY <3>1, FirstInFound, SMTT(30)
  <2>4. \A v \in Threads : /\ state'[v] = IF v \in Elems(w) THEN "RUNNABLE" ELSE state[v]
                           /\ woken'[v] = IF v \in Elems(w) THEN "handoff" ELSE woken[v]
    BY <1>0, <2>2, <2>3, Wakeup, Zenon
  <2>5. ASSUME NEW v \in Threads, v \in Elems(w) PROVE Settled(v)'
    <3>1. state[v] = "LOCK_WAIT"
      BY <2>3, <2>5 DEF WaitersIn
    <3> QED BY <2>1, <3>1, BlockedPlace, RunNotTimedOut DEF Settled
  <2>6. ASSUME NEW v \in Threads, v \notin Elems(w) PROVE Undisturbed(v)
    BY <2>1, <2>4, <2>6, Zenon DEF Undisturbed
  <2> QED BY <2>5, <2>6, EachRecorded, Zenon
<1>3. ASSUME NEW u \in Threads, st_thread_interrupt(t, u) PROVE WakesRecorded'
  <2>1. interrupted' = interrupted \cup {u} /\ UNCHANGED <<pc, timedout, ioq>>
    BY <1>3, Zenon DEF st_thread_interrupt
  <2>2. CASE UNCHANGED <<state, woken, sleepq>>
    BY <1>0, <2>1, <2>2, QuietStep, Zenon
  <2>3. CASE /\ state[u] \in {"IO_WAIT", "LOCK_WAIT", "COND_WAIT", "SLEEPING", "SUSPENDED"}
             /\ \A v \in Threads :
                  /\ state'[v] = IF v = u THEN "RUNNABLE" ELSE state[v]
                  /\ woken'[v] = IF v = u THEN "interrupt" ELSE woken[v]
    <3>1. /\ state'[u] = "RUNNABLE" /\ woken'[u] = "interrupt"
          /\ pc'[u] = pc[u] /\ u \in interrupted'
      BY <2>1, <2>3
    <3>2. u \notin timedout'
      <4>1. pc[u] \in {"cond", "join"} => state[u] = "COND_WAIT"
        BY <2>3, BlockedPlace
      <4> QED BY <2>1, <4>1, Zenon DEF WakesRecorded, WakeRecorded
    <3>3. WakeRecorded(u)'
      <4>1. CASE state[u] = "COND_WAIT"
        BY <3>1, <3>2, <4>1, BlockedPlace, SMTT(30) DEF WakeRecorded
      <4>2. CASE state[u] = "LOCK_WAIT"
        BY <3>1, <3>2, <4>2, BlockedPlace, SMTT(30) DEF WakeRecorded
      <4>3. CASE state[u] = "IO_WAIT"
        BY <2>1, <3>1, <3>2, <4>3, BlockedPlace, SMTT(30) DEF WakeRecorded
      <4>4. CASE state[u] \in {"SLEEPING", "SUSPENDED"}
        BY <3>1, <3>2, <4>4, BlockedPlace, SMTT(30) DEF WakeRecorded
      <4> QED BY <2>3, <4>1, <4>2, <4>3, <4>4
    <3>4. ASSUME NEW v \in Threads, v # u PROVE Undisturbed(v)
      BY <2>1, <2>3, <3>4 DEF Undisturbed
    <3> QED BY <3>3, <3>4, EachRecorded, Zenon
  <2> QED BY <1>3, <2>2, <2>3, InterruptWakes, ZenonT(60)
<1>4. ASSUME NEW u \in Threads, JoinZombie(u) PROVE WakesRecorded'
  <2>1. Reap(u) /\ UNCHANGED <<pc, interrupted, timedout, ioq>>
    BY <1>4, Zenon DEF JoinZombie
  <2>2. /\ state[u] = "ZOMBIE"
        /\ \A v \in Threads : /\ state'[v] = IF v = u THEN "RUNNABLE" ELSE state[v]
                              /\ woken'[v] = IF v = u THEN "reap" ELSE woken[v]
    BY <2>1, ReapWakes, Zenon
  <2>3. Settled(u)'
    BY <2>1, <2>2, BlockedPlace, RunNotTimedOut DEF Settled
  <2>4. \A v \in Threads \ {u} : Undisturbed(v)
    BY <2>1, <2>2, Zenon DEF Undisturbed
  <2> QED BY <2>3, <2>4, OneSettles, Zenon
<1>5. CASE ExitJoinable(t)
  <2>1. /\ pc[t] = "run" /\ current = t
        /\ \A v \in Threads : pc'[v] = IF v = t THEN "zombie" ELSE pc[v]
        /\ UNCHANGED <<interrupted, timedout, ioq>>
    BY <1>0, <1>5, Zenon DEF ExitJoinable, Calling, TypeOK
  <2>2. PICK W \in SUBSET Threads :
          /\ t \notin W
          /\ \A v \in W : state[v] = "COND_WAIT"
          /\ \A v \in Threads :
               /\ state'[v] = IF v \in W THEN "RUNNABLE"
                              ELSE IF v = t THEN "ZOMBIE" ELSE state[v]
               /\ woken'[v] = IF v \in W THEN "signal" ELSE woken[v]
    <3>1. state[t] = "RUNNING"
      BY <2>1, CurrentRuns, Zenon
    <3> QED BY <1>0, <1>5, <3>1, ExitWakes, Zenon
  <2>3. ASSUME NEW v \in Threads, v \in W PROVE WakeRecorded(v)'
    BY <2>1, <2>2, <2>3, SignalRecorded
  <2>4. Settled(t)'
    BY <2>1, RunNotTimedOut DEF Settled
  <2>5. ASSUME NEW v \in Threads, v \notin W, v # t PROVE Undisturbed(v)
    BY <2>1, <2>2, <2>5 DEF Undisturbed
  <2> QED BY <2>3, <2>4, <2>5, EachRecorded, Zenon
<1> QED BY <1>1, <1>2, <1>3, <1>4, <1>5, Zenon

(* A thread ends, or begins. *)
LEMMA LifeRecorded ==
  ASSUME SchedInv, WakesRecorded, NEW t \in Threads,
         \/ ExitDetached(t) \/ ZombieResume(t)
         \/ \E u \in Threads, joinable \in BOOLEAN : st_thread_create(t, u, joinable)
  PROVE  WakesRecorded'
<1>0. TypeOK
  BY DEF SchedInv
<1>1. CASE ExitDetached(t) \/ ZombieResume(t)
  <2>1. /\ pc[t] \in {"run", "zombie"} /\ FreeThread(t)
        /\ UNCHANGED <<interrupted, timedout, ioq, woken>>
    BY <1>1, Zenon DEF ExitDetached, ZombieResume, Calling, Resumed
  <2>2. \A v \in Threads : /\ pc'[v] = IF v = t THEN "freed" ELSE pc[v]
                           /\ state'[v] = IF v = t THEN "NONE" ELSE state[v]
    BY <1>0, <2>1, Zenon DEF FreeThread, TypeOK, AllThreads
  <2>3. Settled(t)'
    BY <2>1, <2>2, RunNotTimedOut DEF Settled
  <2>4. \A v \in Threads \ {t} : Undisturbed(v)
    BY <2>1, <2>2, Zenon DEF Undisturbed
  <2> QED BY <2>3, <2>4, OneSettles, Zenon
<1>2. ASSUME NEW u \in Threads, NEW joinable \in BOOLEAN, st_thread_create(t, u, joinable)
      PROVE  WakesRecorded'
  <2>1. /\ pc[u] = "unborn"
        /\ \A v \in Threads : /\ pc'[v] = IF v = u THEN "run" ELSE pc[v]
                              /\ state'[v] = IF v = u THEN "RUNNABLE" ELSE state[v]
        /\ UNCHANGED <<interrupted, timedout, ioq, woken>>
    BY <1>0, <1>2, ZenonT(60) DEF st_thread_create, TypeOK, AllThreads
  <2>2. Settled(u)'
    BY <2>1, RunNotTimedOut DEF Settled
  <2>3. \A v \in Threads \ {u} : Undisturbed(v)
    BY <2>1, Zenon DEF Undisturbed
  <2> QED BY <2>2, <2>3, OneSettles, Zenon
<1> QED BY <1>1, <1>2

(* The second halves of the calls. *)
LEMMA ResumeRecorded ==
  ASSUME SchedInv, WakesRecorded, NEW t \in Threads,
         UsleepReturn(t) \/ CondReturn(t) \/ LockReturn(t) \/ JoinReturn(t) \/ PollReturn(t)
  PROVE  WakesRecorded'
<1>0. TypeOK
  BY DEF SchedInv
<1>1. CASE UsleepReturn(t) \/ CondReturn(t) \/ LockReturn(t)
  <2>1. /\ Return(t) /\ woken' = [woken EXCEPT ![t] = "none"]
        /\ interrupted' \in {interrupted, interrupted \ {t}}
        /\ UNCHANGED <<state, ioq>>
    BY <1>1, Zenon DEF UsleepReturn, CondReturn, CondUnblock, LockReturn
  <2>2. t \notin timedout' /\ timedout' \in {timedout, timedout \ {t}}
    <3>1. CASE CondReturn(t)
      BY <3>1 DEF CondReturn, CondUnblock
    <3>2. CASE UsleepReturn(t) \/ LockReturn(t)
      <4>1. pc[t] \in {"usleep", "mutex"} /\ timedout' = timedout
        BY <3>2, Zenon DEF UsleepReturn, LockReturn, Resumed
      <4> QED BY <4>1, RunNotTimedOut
    <3> QED BY <1>1, <3>1, <3>2
  <2> QED BY <1>0, <2>1, <2>2, ReturnWakes, Zenon
<1>2. CASE PollReturn(t)
  <2>1. /\ Return(t) /\ woken' = [woken EXCEPT ![t] = "none"] /\ pc[t] = "poll"
        /\ interrupted' = interrupted \ {t} /\ ioq' = RemovePollq(t)
        /\ UNCHANGED <<state, timedout>>
    BY <1>2, Zenon DEF PollReturn, Resumed
  <2>2. \A v \in Threads \ {t} : v \in Elems(ioq') <=> v \in Elems(ioq)
    <3>1. CASE t \in Elems(ioq)
      <4>1. ioq \in Seq(Threads) /\ NoRepeat(ioq) /\ ioq' = Unlink(ioq, t)
        BY <2>1, <3>1, Zenon DEF RemovePollq, SchedInv, TypeOK, QueueInv, PollersQueued
      <4>2. Elems(ioq') = Elems(ioq) \ {t}
        BY <3>1, <4>1, UnlinkElems
      <4> QED BY <4>2
    <3>2. CASE t \notin Elems(ioq)
      BY <2>1, <3>2 DEF RemovePollq
    <3> QED BY <3>1, <3>2
  <2>3. t \notin timedout
    BY <2>1, RunNotTimedOut
  <2> QED BY <1>0, <2>1, <2>2, <2>3, ReturnWakes, Zenon
<1>3. CASE JoinReturn(t)
  <2>1. pc[t] = "join" /\ obj[t] \in Threads /\ state[t] = "RUNNING" /\ ioq' = ioq
    BY <1>3, CurrentRuns, Zenon DEF JoinReturn, Resumed, SchedInv, WaitsForItsKind
  <2>2. CASE JoinFail(t)
    <3>1. /\ Return(t) /\ woken' = [woken EXCEPT ![t] = "none"]
          /\ interrupted' = interrupted \ {t} /\ timedout' = timedout \ {t}
          /\ UNCHANGED state
      BY <2>2, Zenon DEF JoinFail, CondUnblock
    <3>2. t \notin timedout'
      BY <3>1
    <3> QED BY <1>0, <2>1, <3>1, <3>2, ReturnWakes, Zenon
  <2>3. CASE JoinSucceed(t)
    <3>0. PICK u \in Threads : u = obj[t]
      BY <2>1
    <3>1. /\ Return(t) /\ Reap(u)
          /\ interrupted' = interrupted \ {t} /\ timedout' = timedout \ {t}
      BY <2>3, <3>0, Zenon DEF JoinSucceed, CondUnblock
    <3>2. /\ state[u] = "ZOMBIE"
          /\ \A v \in Threads :
               /\ state'[v] = IF v = u THEN "RUNNABLE" ELSE state[v]
               /\ woken'[v] = IF v = u THEN "reap" ELSE woken[v]
      BY <3>1, ReapWakes, Zenon
    <3>3. \A v \in Threads : pc'[v] = IF v = t THEN "run" ELSE pc[v]
      BY <1>0, <3>1, ReturnEffect, Zenon
    <3>4. Settled(t)'
      BY <3>1, <3>3 DEF Settled
    <3>5. Settled(u)'
      <4>1. pc[u] = "zombie"
        BY <3>2, BlockedPlace
      <4>2. u \notin timedout
        BY <4>1, RunNotTimedOut
      <4> QED BY <2>1, <3>1, <3>3, <4>1, <4>2 DEF Settled
    <3>6. ASSUME NEW v \in Threads, v # t, v # u PROVE Undisturbed(v)
      BY <2>1, <3>1, <3>2, <3>3, <3>6 DEF Undisturbed
    <3> QED BY <3>4, <3>5, <3>6, EachRecorded, Zenon
  <2>4. CASE JoinWaitAgain(t) /\ CondResult(t) = "OK"
    <3>1. /\ \A v \in Threads : state'[v] = IF v = t THEN "COND_WAIT" ELSE state[v]
          /\ UNCHANGED <<pc, interrupted, timedout, woken>>
      BY <1>0, <2>4, Zenon DEF JoinWaitAgain, TypeOK, AllThreads
    <3>2. t \notin timedout
      BY <2>4 DEF CondResult
    <3>3. Settled(t)'
      BY <2>1, <3>1, <3>2 DEF Settled
    <3>4. \A v \in Threads \ {t} : Undisturbed(v)
      BY <2>1, <3>1, Zenon DEF Undisturbed
    <3> QED BY <3>3, <3>4, OneSettles, Zenon
  <2> QED BY <1>3, <2>2, <2>3, <2>4, Zenon DEF JoinReturn
<1> QED BY <1>1, <1>2, <1>3

(* The first halves of the blocking calls, and the calls that never block. *)
LEMMA CallRecorded ==
  ASSUME SchedInv, WakesRecorded, NEW t \in Threads, Call(t)
  PROVE  WakesRecorded'
<1>0. TypeOK
  BY DEF SchedInv
<1>1. ASSUME pc[t] = "run", FailInterrupted(t) PROVE WakesRecorded'
  <2>1. /\ interrupted' = interrupted \ {t}
        /\ UNCHANGED <<pc, woken, timedout, ioq, state>>
    BY <1>1, Zenon DEF FailInterrupted
  <2> QED BY <1>0, <1>1, <2>1, QuietStep, Zenon
<1>2. ASSUME NEW timeout, st_usleep(t, timeout) \/ st_poll(t, timeout) PROVE WakesRecorded'
  <2>1. pc[t] = "run"
    BY <1>2, Zenon DEF st_usleep, st_poll, Calling
  <2>2. CASE SleepBlock(t, timeout)
    <3>1. /\ \/ Block(t, "SUSPENDED", "usleep", timeout)
             \/ Block(t, "SLEEPING", "usleep", timeout)
          /\ UNCHANGED <<interrupted, timedout, ioq, woken>>
      BY <2>2 DEF SleepBlock
    <3> QED BY <1>0, <2>1, <3>1, BlockWakes
  <2>3. CASE PollBlock(t, timeout)
    <3>1. /\ Block(t, "IO_WAIT", "poll", timeout) /\ ioq' = Append(ioq, t)
          /\ UNCHANGED <<interrupted, timedout, woken>>
      BY <2>3, Zenon DEF PollBlock
    <3>2. Elems(ioq') = Elems(ioq) \cup {t}
      BY <1>0, <3>1, AppendElems DEF TypeOK
    <3>3. \A v \in Threads \ {t} : v \in Elems(ioq') <=> v \in Elems(ioq)
      BY <3>2
    <3> QED BY <1>0, <2>1, <3>1, <3>3, BlockWakes
  <2> QED BY <1>1, <1>2, <2>1, <2>2, <2>3, Zenon DEF st_usleep, st_poll
<1>3. ASSUME NEW c, NEW place \in {"cond", "join"}, NEW timeout, pc[t] = "run",
             CondBlock(t, c, place, timeout)
      PROVE  WakesRecorded'
  <2>1. /\ Block(t, "COND_WAIT", place, timeout)
        /\ UNCHANGED <<interrupted, timedout, ioq, woken>>
    BY <1>3, Zenon DEF CondBlock
  <2> QED BY <1>0, <1>3, <2>1, BlockWakes
<1>4. ASSUME NEW c \in Conds, NEW timeout, st_cond_timedwait(t, c, timeout)
      PROVE  WakesRecorded'
  BY <1>1, <1>3, <1>4, Zenon DEF st_cond_timedwait, Calling
<1>5. ASSUME NEW m \in Mutexes, st_mutex_lock(t, m) \/ st_mutex_trylock(t, m)
      PROVE  WakesRecorded'
  <2>1. pc[t] = "run"
    BY <1>5, Zenon DEF st_mutex_lock, st_mutex_trylock, Calling
  <2>2. CASE TakeMutex(t, m)
    <3>1. UNCHANGED <<pc, woken, timedout, ioq, state, interrupted>>
      BY <2>2, Zenon DEF TakeMutex
    <3> QED BY <1>0, <3>1, QuietStep, Zenon
  <2>3. CASE LockBlock(t, m)
    <3>1. /\ Block(t, "LOCK_WAIT", "mutex", NoTimeout)
          /\ UNCHANGED <<interrupted, timedout, ioq, woken>>
      BY <2>3, Zenon DEF LockBlock
    <3> QED BY <1>0, <2>1, <3>1, BlockWakes
  <2> QED BY <1>1, <1>5, <2>1, <2>2, <2>3, Zenon DEF st_mutex_lock, st_mutex_trylock
<1>6. ASSUME \/ \E c \in Conds : st_cond_new(t, c) \/ st_cond_destroy(t, c)
             \/ \E m \in Mutexes : st_mutex_new(t, m) \/ st_mutex_destroy(t, m)
      PROVE  WakesRecorded'
  <2>1. UNCHANGED <<pc, woken, timedout, ioq, state, interrupted>>
    BY <1>6, Zenon DEF st_cond_new, st_cond_destroy, st_mutex_new, st_mutex_destroy
  <2> QED BY <1>0, <2>1, QuietStep, Zenon
<1>7. ASSUME NEW u \in Threads, st_thread_join(t, u) PROVE WakesRecorded'
  BY <1>1, <1>3, <1>7, WakeupRecorded, Zenon DEF st_thread_join, Calling
<1>8. ASSUME NEW u \in Threads, NEW joinable \in BOOLEAN, st_thread_create(t, u, joinable)
      PROVE  WakesRecorded'
  BY <1>8, LifeRecorded, Zenon
<1>9. ASSUME \/ \E c \in Conds : st_cond_signal(t, c) \/ st_cond_broadcast(t, c)
             \/ \E m \in Mutexes : st_mutex_unlock(t, m)
             \/ \E u \in Threads : st_thread_interrupt(t, u)
             \/ ExitJoinable(t)
      PROVE  WakesRecorded'
  BY <1>9, WakeupRecorded, Zenon
<1>10. CASE ExitDetached(t)
  BY <1>10, LifeRecorded, Zenon
<1> QED BY <1>2, <1>4, <1>5, <1>6, <1>7, <1>8, <1>9, <1>10, Zenon DEF Call

LEMMA NextWakes == SchedInv /\ WakesRecorded /\ [Next]_vars => WakesRecorded'
<1> SUFFICES ASSUME SchedInv, WakesRecorded, [Next]_vars PROVE WakesRecorded'
  OBVIOUS
<1>1. CASE UNCHANGED vars \/ Exited
  <2>1. UNCHANGED <<pc, woken, timedout, ioq, state, interrupted>>
    BY <1>1, Zenon DEF vars, Exited
  <2> QED BY <2>1, QuietStep, Zenon DEF SchedInv
<1> QED BY <1>1, IdleRecorded, CallRecorded, ResumeRecorded, LifeRecorded, Zenon DEF Next, Resume
-----------------------------------------------------------------------------
(* The same joiners wait for the same targets, and what JoinersAlone says  *)
(* of each of them is still so.                                            *)
JoinersSame ==
  /\ \A t \in Threads : pc'[t] = "join" => pc[t] = "join" /\ obj'[t] = obj[t]
  /\ \A t \in Threads :
       pc'[t] = "join" =>
         /\ t \notin DOMAIN sleepq'
         /\ woken'[t] = "signal" /\ state'[t] # "COND_WAIT" => state'[obj[t]] = "ZOMBIE"

LEMMA JoinersSameKeeps ==
  ASSUME JoinersAlone, JoinersSame PROVE JoinersAlone'
<1> SUFFICES ASSUME NEW t \in Threads, pc'[t] = "join"
             PROVE  /\ \A u \in Threads : pc'[u] = "join" /\ obj'[u] = obj'[t] => u = t
                    /\ t \notin DOMAIN sleepq'
                    /\ woken'[t] = "signal" /\ state'[t] # "COND_WAIT" =>
                         state'[obj'[t]] = "ZOMBIE"
  BY Zenon DEF JoinersAlone
<1>1. pc[t] = "join" /\ obj'[t] = obj[t]
  BY Zenon DEF JoinersSame
<1>2. ASSUME NEW u \in Threads, pc'[u] = "join", obj'[u] = obj'[t] PROVE u = t
  <2>1. pc[u] = "join" /\ obj[u] = obj[t]
    BY <1>1, <1>2 DEF JoinersSame
  <2> QED BY <1>1, <2>1, Zenon DEF JoinersAlone
<1>3. /\ t \notin DOMAIN sleepq'
      /\ woken'[t] = "signal" /\ state'[t] # "COND_WAIT" => state'[obj'[t]] = "ZOMBIE"
  BY <1>1, Zenon DEF JoinersSame
<1> QED BY <1>2, <1>3

(* Joiners and their targets are left alone, but may be interrupted. *)
LEMMA JoinersLeftAlone ==
  ASSUME SchedInv, JoinersAlone,
         \A v \in Threads :
           /\ pc'[v] = "join" => pc[v] = "join" /\ obj'[v] = obj[v] /\ v \notin DOMAIN sleepq'
           /\ state[v] = "ZOMBIE" => state'[v] = "ZOMBIE"
           /\ pc'[v] = "join" =>
                \/ woken'[v] # "signal"
                \/ state'[v] = "COND_WAIT"
                \/ woken'[v] = woken[v] /\ state[v] # "COND_WAIT"
  PROVE  JoinersAlone'
<1>1. ASSUME NEW t \in Threads, pc'[t] = "join", woken'[t] = "signal", state'[t] # "COND_WAIT"
      PROVE  state'[obj[t]] = "ZOMBIE"
  <2>1. pc[t] = "join" /\ woken[t] = "signal" /\ state[t] # "COND_WAIT"
    BY <1>1, Zenon
  <2>2. state[obj[t]] = "ZOMBIE" /\ obj[t] \in Threads
    BY <2>1, Zenon DEF JoinersAlone, SchedInv, WaitsForItsKind
  <2> QED BY <2>2, Zenon
<1>2. JoinersSame
  BY <1>1, Zenon DEF JoinersSame
<1> QED BY <1>2, JoinersSameKeeps

(* The steps of the scheduler itself. *)
LEMMA IdleJoiners ==
  ASSUME SchedInv, JoinersAlone, Schedule \/ IdleStep
  PROVE  JoinersAlone'
<1>0. TypeOK
  BY DEF SchedInv
<1>9. \A v \in Threads : pc[v] = "join" => v \notin DOMAIN sleepq
  BY Zenon DEF JoinersAlone
<1>1. CASE Schedule
  <2>1. /\ state' = [state EXCEPT ![NextThread] = "RUNNING"]
        /\ UNCHANGED <<pc, obj, sleepq, woken>>
    BY <1>1, Zenon DEF Schedule
  <2>2. state[NextThread] = "RUNNABLE"
    BY <1>1, SchedNext, Zenon DEF Schedule, NextIsRunnable
  <2>3. \A v \in Threads : state'[v] = IF v = NextThread THEN "RUNNING" ELSE state[v]
    BY <1>0, <2>1, Zenon DEF TypeOK, AllThreads
  <2>4. \A v \in Threads : /\ state[v] = "ZOMBIE" => state'[v] = "ZOMBIE"
                           /\ state'[v] # "COND_WAIT" => state[v] # "COND_WAIT"
    BY <2>2, <2>3
  <2> QED BY <1>9, <2>1, <2>4, JoinersLeftAlone, Zenon
<1>2. ASSUME NEW ready \in SUBSET Elems(ioq), Dispatch(ready) PROVE JoinersAlone'
  <2>1. UNCHANGED <<pc, obj>>
    BY <1>2, Zenon DEF Dispatch
  <2>2. /\ DOMAIN sleepq' = DOMAIN sleepq \ ready
        /\ \A v \in ready : state[v] = "IO_WAIT"
        /\ \A v \in Threads :
             /\ state'[v] = IF v \in ready THEN "RUNNABLE" ELSE state[v]
             /\ woken'[v] = IF v \in ready THEN "io" ELSE woken[v]
    BY <1>2, DispatchWakes, Zenon
  <2>3. ASSUME NEW v \in Threads
        PROVE  /\ state[v] = "ZOMBIE" => state'[v] = "ZOMBIE"
               /\ v \in DOMAIN sleepq' => v \in DOMAIN sleepq
               /\ \/ woken'[v] # "signal" \/ state'[v] = "COND_WAIT"
                  \/ woken'[v] = woken[v] /\ state[v] # "COND_WAIT"
    BY <2>2
  <2> QED BY <1>9, <2>1, <2>3, JoinersLeftAlone, Zenon
<1>3. ASSUME NEW elapsed \in Elapsed, CheckClock(elapsed) PROVE JoinersAlone'
  <2>1. UNCHANGED <<pc, obj>>
    BY <1>3, Zenon DEF CheckClock
  <2>2. PICK W \in SUBSET Threads :
          /\ DOMAIN sleepq' = DOMAIN sleepq \ W
          /\ \A v \in W : state[v] \in {"SLEEPING", "COND_WAIT", "IO_WAIT"}
          /\ \A v \in Threads :
               /\ state'[v] = IF v \in W THEN "RUNNABLE" ELSE state[v]
               /\ woken'[v] = IF v \in W THEN "clock" ELSE woken[v]
    BY <1>3, ClockWakes, Zenon
  <2>3. ASSUME NEW v \in Threads
        PROVE  /\ state[v] = "ZOMBIE" => state'[v] = "ZOMBIE"
               /\ v \in DOMAIN sleepq' => v \in DOMAIN sleepq
               /\ \/ woken'[v] # "signal" \/ state'[v] = "COND_WAIT"
                  \/ woken'[v] = woken[v] /\ state[v] # "COND_WAIT"
    BY <2>2
  <2> QED BY <1>9, <2>1, <2>3, JoinersLeftAlone, Zenon
<1>4. CASE IdleExit
  <2>1. UNCHANGED <<pc, obj, sleepq, woken, state>>
    BY <1>4, Zenon DEF IdleExit
  <2> QED BY <1>9, <2>1, JoinersLeftAlone, Zenon
<1> QED BY <1>1, <1>2, <1>3, <1>4, Zenon DEF IdleStep

(* A call blocks, but not in a join. *)
LEMMA BlockJoiners ==
  ASSUME SchedInv, JoinersAlone, NEW t \in Threads, Calling(t),
         NEW st, NEW place, place # "join", NEW timeout, Block(t, st, place, timeout),
         \A v \in Threads \ {t} : obj'[v] = obj[v], UNCHANGED woken
  PROVE  JoinersAlone'
<1>1. /\ \A v \in Threads : /\ state'[v] = IF v = t THEN st ELSE state[v]
                            /\ pc'[v] = IF v = t THEN place ELSE pc[v]
      /\ DOMAIN sleepq' \subseteq DOMAIN sleepq \cup {t}
      /\ state[t] = "RUNNING"
  BY BlockEffect, CurrentRuns, ZenonT(60) DEF SchedInv, Calling
<1>2. ASSUME NEW v \in Threads
      PROVE  /\ pc'[v] = "join" => v # t /\ pc[v] = "join" /\ v \notin DOMAIN sleepq'
             /\ state[v] = "ZOMBIE" => state'[v] = "ZOMBIE"
             /\ v # t => state'[v] = state[v]
  BY <1>1 DEF JoinersAlone
<1> QED BY <1>2, JoinersLeftAlone, Zenon

(* A call returns. *)
LEMMA ReturnJoiners ==
  ASSUME SchedInv, JoinersAlone, NEW t \in Threads, Return(t),
         woken' = [woken EXCEPT ![t] = "none"], UNCHANGED <<state, sleepq>>
  PROVE  JoinersAlone'
<1>1. \A v \in Threads : /\ pc'[v] = IF v = t THEN "run" ELSE pc[v]
                         /\ obj'[v] = IF v = t THEN None ELSE obj[v]
                         /\ woken'[v] = IF v = t THEN "none" ELSE woken[v]
  BY ReturnEffect, WokenReset, ZenonT(60) DEF SchedInv
<1>2. ASSUME NEW v \in Threads
      PROVE  /\ pc'[v] = "join" => pc[v] = "join" /\ obj'[v] = obj[v] /\ v \notin DOMAIN sleepq'
             /\ woken'[v] # "signal" \/ woken'[v] = woken[v]
  BY <1>1 DEF JoinersAlone
<1> QED BY <1>2, JoinersLeftAlone, Zenon

(* Who is queued on what a thread or a condition variable signals. *)
LEMMA QueuedJoiners ==
  ASSUME SchedInv, WaitQueuesExact, NEW v \in Threads
  PROVE  /\ \A c \in Conds : v \in Elems(waitq[c]) => pc[v] # "join"
         /\ \A u \in Threads : v \in Elems(waitq[u]) => obj[v] = u
         /\ \A u \in Threads : waitq[u] = <<>> /\ pc[v] = "join" => obj[v] # u
<1> USE VpAssumption
<1>1. \A o \in Waitables :
        v \in Elems(waitq[o]) <=> pc[v] \in {"cond", "join", "mutex"} /\ obj[v] = o
  BY ZenonT(60) DEF WaitQueuesExact
<1>2. \A c \in Conds : v \in Elems(waitq[c]) => pc[v] # "join"
  BY <1>1, Zenon DEF SchedInv, WaitsForItsKind, Waitables
<1>3. \A u \in Threads : v \in Elems(waitq[u]) => obj[v] = u
  BY <1>1, Zenon DEF Waitables
<1>4. \A u \in Threads : waitq[u] = <<>> /\ pc[v] = "join" => obj[v] # u
  <2>1. Elems(<<>>) = {}
    BY DEF Elems
  <2> QED BY <1>1, <2>1 DEF Waitables
<1> QED BY <1>2, <1>3, <1>4

(* Signals, handoffs and interrupts. *)
LEMMA WakeupJoiners ==
  ASSUME SchedInv, WaitQueuesExact, JoinersAlone, NEW t \in Threads,
         \/ \E c \in Conds : st_cond_signal(t, c) \/ st_cond_broadcast(t, c)
         \/ \E m \in Mutexes : st_mutex_unlock(t, m)
         \/ \E u \in Threads : st_thread_interrupt(t, u)
  PROVE  JoinersAlone'
<1>0. TypeOK
  BY DEF SchedInv
<1>9. \A v \in Threads : pc[v] = "join" => v \notin DOMAIN sleepq
  BY Zenon DEF JoinersAlone
<1>1. ASSUME NEW c \in Conds, st_cond_signal(t, c) \/ st_cond_broadcast(t, c)
      PROVE  JoinersAlone'
  <2>1. UNCHANGED <<pc, obj>>
    BY <1>1, Zenon DEF st_cond_signal, st_cond_broadcast
  <2>2. PICK W \in SUBSET Threads :
          /\ W \subseteq Elems(waitq[c])
          /\ DOMAIN sleepq' = DOMAIN sleepq \ W
          /\ \A v \in W : state[v] = "COND_WAIT"
          /\ \A v \in Threads :
               /\ state'[v] = IF v \in W THEN "RUNNABLE" ELSE state[v]
               /\ woken'[v] = IF v \in W THEN "signal" ELSE woken[v]
    BY <1>0, <1>1, SignalWakes, Zenon
  <2>3. ASSUME NEW v \in Threads
        PROVE  /\ state[v] = "ZOMBIE" => state'[v] = "ZOMBIE"
               /\ v \in DOMAIN sleepq' => v \in DOMAIN sleepq
               /\ pc[v] = "join" => state'[v] = state[v] /\ woken'[v] = woken[v]
    BY <2>2, QueuedJoiners
  <2> QED BY <1>9, <2>1, <2>3, JoinersLeftAlone, Zenon
<1>2. ASSUME NEW m \in Mutexes, st_mutex_unlock(t, m) PROVE JoinersAlone'
  <2>1. UNCHANGED <<pc, obj, sleepq>>
    BY <1>2, Zenon DEF st_mutex_unlock
  <2>2. PICK w \in FirstIn(waitq[m], "LOCK_WAIT") : MakeRunnable(state, w, "handoff")
    BY <1>2, Zenon DEF st_mutex_unlock
  <2>3. w \in Seq(Threads) /\ Elems(w) \subseteq WaitersIn(waitq[m], "LOCK_WAIT")
    <3>1. waitq[m] \in Seq(Threads)
      BY <1>0 DEF TypeOK, Waitables
    <3> QED BY <3>1, FirstInFound, SMTT(30)
  <2>4. \A v \in Threads : /\ state'[v] = IF v \in Elems(w) THEN "RUNNABLE" ELSE state[v]
                           /\ woken'[v] = IF v \in Elems(w) THEN "handoff" ELSE woken[v]
    BY <1>0, <2>2, <2>3, Wakeup, Zenon
  <2>5. \A v \in Elems(w) : state[v] = "LOCK_WAIT"
    BY <2>3 DEF WaitersIn
  <2>6. ASSUME NEW v \in Threads
        PROVE  /\ state[v] = "ZOMBIE" => state'[v] = "ZOMBIE"
               /\ \/ woken'[v] # "signal" \/ state'[v] = "COND_WAIT"
                  \/ woken'[v] = woken[v] /\ state[v] # "COND_WAIT"
    BY <2>4, <2>5
  <2> QED BY <1>9, <2>1, <2>6, JoinersLeftAlone, Zenon
<1>3. ASSUME NEW u \in Threads, st_thread_interrupt(t, u) PROVE JoinersAlone'
  <2>1. UNCHANGED <<pc, obj>>
    BY <1>3, Zenon DEF st_thread_interrupt
  <2>2. CASE UNCHANGED <<state, woken, sleepq>>
    BY <1>9, <2>1, <2>2, JoinersLeftAlone, Zenon
  <2>3. CASE /\ state[u] \in {"IO_WAIT", "LOCK_WAIT", "COND_WAIT", "SLEEPING", "SUSPENDED"}
             /\ DOMAIN sleepq' = DOMAIN sleepq \ {u}
             /\ \A v \in Threads :
                  /\ state'[v] = IF v = u THEN "RUNNABLE" ELSE state[v]
                  /\ woken'[v] = IF v = u THEN "interrupt" ELSE woken[v]
    <3>1. ASSUME NEW v \in Threads
          PROVE  /\ state[v] = "ZOMBIE" => state'[v] = "ZOMBIE"
                 /\ v \in DOMAIN sleepq' => v \in DOMAIN sleepq
                 /\ \/ woken'[v] # "signal" \/ state'[v] = "COND_WAIT"
                    \/ woken'[v] = woken[v] /\ state[v] # "COND_WAIT"
      BY <2>3
    <3> QED BY <1>9, <2>1, <3>1, JoinersLeftAlone, Zenon
  <2> QED BY <1>3, <2>2, <2>3, InterruptWakes, ZenonT(60)
<1> QED BY <1>1, <1>2, <1>3

(* A thread begins, or ends. *)
LEMMA LifeJoiners ==
  ASSUME SchedInv, WaitQueuesExact, JoinersAlone, NEW t \in Threads,
         \/ ExitDetached(t) \/ ZombieResume(t) \/ ExitJoinable(t)
         \/ \E u \in Threads, joinable \in BOOLEAN : st_thread_create(t, u, joinable)
  PROVE  JoinersAlone'
<1>0. TypeOK
  BY DEF SchedInv
<1>9. \A v \in Threads : pc[v] = "join" => v \notin DOMAIN sleepq
  BY Zenon DEF JoinersAlone
<1>1. CASE ExitDetached(t) \/ ZombieResume(t)
  <2>1. current = t /\ FreeThread(t) /\ UNCHANGED <<obj, sleepq, woken>>
    BY <1>1, Zenon DEF ExitDetached, ZombieResume, Calling, Resumed
  <2>2. \A v \in Threads : /\ pc'[v] = IF v = t THEN "freed" ELSE pc[v]
                           /\ state'[v] = IF v = t THEN "NONE" ELSE state[v]
    BY <1>0, <2>1, Zenon DEF FreeThread, TypeOK, AllThreads
  <2>3. state[t] = "RUNNING"
    BY <2>1, CurrentRuns
  <2>4. ASSUME NEW v \in Threads
        PROVE  /\ state[v] = "ZOMBIE" => state'[v] = "ZOMBIE"
               /\ pc'[v] = "join" => pc[v] = "join" /\ state'[v] = state[v]
    BY <2>2, <2>3
  <2> QED BY <1>9, <2>1, <2>4, JoinersLeftAlone, Zenon
<1>2. ASSUME NEW u \in Threads, NEW joinable \in BOOLEAN, st_thread_create(t, u, joinable)
      PROVE  JoinersAlone'
  <2>1. /\ pc[u] = "unborn"
        /\ \A v \in Threads : /\ pc'[v] = IF v = u THEN "run" ELSE pc[v]
                              /\ state'[v] = IF v = u THEN "RUNNABLE" ELSE state[v]
        /\ UNCHANGED <<obj, sleepq, woken>>
    <3>1. pc[u] = "unborn" /\ UNCHANGED <<obj, sleepq, woken>>
      BY <1>2, Zenon DEF st_thread_create
    <3>2. \A v \in Threads : pc'[v] = IF v = u THEN "run" ELSE pc[v]
      BY <1>0, <1>2, ZenonT(60) DEF st_thread_create, TypeOK
    <3>3. \A v \in Threads : state'[v] = IF v = u THEN "RUNNABLE" ELSE state[v]
      BY <1>0, <1>2, Zenon DEF st_thread_create, TypeOK, AllThreads
    <3> QED BY <3>1, <3>2, <3>3, Zenon
  <2>2. state[u] # "ZOMBIE"
    BY <2>1, BlockedPlace
  <2>3. ASSUME NEW v \in Threads
        PROVE  /\ state[v] = "ZOMBIE" => state'[v] = "ZOMBIE"
               /\ pc'[v] = "join" => pc[v] = "join" /\ state'[v] = state[v]
    BY <2>1, <2>2
  <2> QED BY <1>9, <2>1, <2>3, JoinersLeftAlone, Zenon
<1>3. CASE ExitJoinable(t)
  <2>1. /\ current = t
        /\ \A v \in Threads : pc'[v] = IF v = t THEN "zombie" ELSE pc[v]
        /\ UNCHANGED obj
    BY <1>0, <1>3, Zenon DEF ExitJoinable, Calling, TypeOK
  <2>2. PICK W \in SUBSET Threads :
          /\ W \subseteq Elems(waitq[t])
          /\ DOMAIN sleepq' = DOMAIN sleepq \ W
          /\ t \notin W
          /\ \A v \in W : state[v] = "COND_WAIT"
          /\ \A v \in Threads :
               /\ state'[v] = IF v \in W THEN "RUNNABLE"
                              ELSE IF v = t THEN "ZOMBIE" ELSE state[v]
               /\ woken'[v] = IF v \in W THEN "signal" ELSE woken[v]
    <3>1. state[t] = "RUNNING"
      BY <2>1, CurrentRuns, Zenon
    <3> QED BY <1>0, <1>3, <3>1, ExitWakes, Zenon
  <2>3. ASSUME NEW v \in Threads, pc'[v] = "join"
        PROVE  /\ pc[v] = "join" /\ v # t /\ v \notin DOMAIN sleepq'
               /\ woken'[v] = "signal" /\ state'[v] # "COND_WAIT" => state'[obj[v]] = "ZOMBIE"
    <3>1. pc[v] = "join" /\ v # t /\ v \notin DOMAIN sleepq' /\ obj[v] \in Threads
      BY <1>9, <2>1, <2>2, <2>3 DEF SchedInv, WaitsForItsKind
    <3>2. CASE v \in W
      <4>1. obj[v] = t
        BY <2>2, <3>2, QueuedJoiners
      <4> QED BY <2>2, <3>1, <4>1
    <3>3. CASE v \notin W
      <4>1. woken'[v] = woken[v] /\ state'[v] = state[v]
        BY <2>2, <3>1, <3>3
      <4>2. woken[v] = "signal" /\ state[v] # "COND_WAIT" => state[obj[v]] = "ZOMBIE"
        BY <3>1, Zenon DEF JoinersAlone
      <4> QED BY <2>2, <3>1, <4>1, <4>2
    <3> QED BY <3>2, <3>3
  <2>4. JoinersSame
    BY <2>1, <2>3, Zenon DEF JoinersSame
  <2> QED BY <2>4, JoinersSameKeeps
<1> QED BY <1>1, <1>2, <1>3

(* The first half of st_thread_join. *)
LEMMA JoinJoiners ==
  ASSUME SchedInv, WaitQueuesExact, JoinersAlone, NEW t \in Threads, NEW u \in Threads,
         Calling(t), waitq[u] = <<>>,
         JoinZombie(u) \/ CondBlock(t, u, "join", NoTimeout)
  PROVE  JoinersAlone'
<1>0. TypeOK /\ current = t /\ pc[t] = "run"
  BY DEF SchedInv, Calling
<1>1. \A v \in Threads : pc[v] = "join" => obj[v] # u /\ obj[v] \in Threads /\ v \notin DOMAIN sleepq
  BY QueuedJoiners, Zenon DEF SchedInv, WaitsForItsKind, JoinersAlone
<1>2. CASE JoinZombie(u)
  <2>1. Reap(u) /\ UNCHANGED <<pc, obj, sleepq>>
    BY <1>2, Zenon DEF JoinZombie
  <2>2. /\ state[u] = "ZOMBIE"
        /\ \A v \in Threads : /\ state'[v] = IF v = u THEN "RUNNABLE" ELSE state[v]
                              /\ woken'[v] = IF v = u THEN "reap" ELSE woken[v]
    BY <2>1, ReapWakes, Zenon
  <2>3. pc[u] = "zombie"
    BY <2>2, BlockedPlace
  <2>4. ASSUME NEW v \in Threads, pc[v] = "join", woken'[v] = "signal", state'[v] # "COND_WAIT"
        PROVE  state'[obj[v]] = "ZOMBIE"
    <3>1. woken[v] = "signal" /\ state[v] # "COND_WAIT" /\ obj[v] # u /\ obj[v] \in Threads
      BY <1>1, <2>2, <2>3, <2>4
    <3>2. state[obj[v]] = "ZOMBIE"
      BY <2>4, <3>1, Zenon DEF JoinersAlone
    <3> QED BY <2>2, <3>1, <3>2
  <2>5. JoinersSame
    BY <1>1, <2>1, <2>4, Zenon DEF JoinersSame
  <2> QED BY <2>5, JoinersSameKeeps
<1>3. CASE CondBlock(t, u, "join", NoTimeout)
  <2>1. /\ Block(t, "COND_WAIT", "join", NoTimeout)
        /\ obj' = [obj EXCEPT ![t] = u] /\ UNCHANGED woken
    BY <1>3, Zenon DEF CondBlock
  <2>2. /\ \A v \in Threads : /\ state'[v] = IF v = t THEN "COND_WAIT" ELSE state[v]
                              /\ pc'[v] = IF v = t THEN "join" ELSE pc[v]
        /\ DOMAIN sleepq' = DOMAIN sleepq
    BY <1>0, <2>1, BlockEffect, Zenon
  <2>3. \A v \in Threads : obj'[v] = IF v = t THEN u ELSE obj[v]
    BY <1>0, <2>1, Zenon DEF TypeOK
  <2>4. state[t] = "RUNNING" /\ t \notin DOMAIN sleepq
    BY <1>0, CurrentRuns
  <2> SUFFICES ASSUME NEW v \in Threads, pc'[v] = "join"
               PROVE  /\ \A w \in Threads : pc'[w] = "join" /\ obj'[w] = obj'[v] => w = v
                      /\ v \notin DOMAIN sleepq'
                      /\ woken'[v] = "signal" /\ state'[v] # "COND_WAIT" =>
                           state'[obj'[v]] = "ZOMBIE"
    BY Zenon DEF JoinersAlone
  <2>5. CASE v = t
    BY <1>1, <2>2, <2>3, <2>4, <2>5
  <2>6. CASE v # t
    <3>1. pc[v] = "join" /\ obj'[v] = obj[v] /\ state'[v] = state[v] /\ woken'[v] = woken[v]
      BY <2>1, <2>2, <2>3, <2>6
    <3>2. /\ \A w \in Threads : pc[w] = "join" /\ obj[w] = obj[v] => w = v
          /\ v \notin DOMAIN sleepq /\ obj[v] # u /\ obj[v] \in Threads
          /\ woken[v] = "signal" /\ state[v] # "COND_WAIT" => state[obj[v]] = "ZOMBIE"
      BY <1>1, <3>1, Zenon DEF JoinersAlone
    <3> QED BY <2>2, <2>3, <2>4, <3>1, <3>2
  <2> QED BY <2>5, <2>6
<1> QED BY <1>2, <1>3

(* The second halves of the calls. *)
LEMMA ResumeJoiners ==
  ASSUME SchedInv, JoinersAlone, NEW t \in Threads,
         UsleepReturn(t) \/ CondReturn(t) \/ LockReturn(t) \/ JoinReturn(t) \/ PollReturn(t)
  PROVE  JoinersAlone'
<1>0. TypeOK
  BY DEF SchedInv
<1>1. CASE UsleepReturn(t) \/ CondReturn(t) \/ LockReturn(t) \/ PollReturn(t)
  <2>1. /\ Return(t) /\ woken' = [woken EXCEPT ![t] = "none"]
        /\ UNCHANGED <<state, sleepq>>
    BY <1>1, Zenon DEF UsleepReturn, CondReturn, LockReturn, PollReturn
  <2> QED BY <2>1, ReturnJoiners, Zenon
<1>2. CASE JoinReturn(t)
  <2>1. /\ pc[t] = "join" /\ obj[t] \in Threads /\ state[t] = "RUNNING"
        /\ sleepq' = sleepq
    BY <1>2, CurrentRuns, Zenon DEF JoinReturn, Resumed, SchedInv, WaitsForItsKind
  <2>2. CASE JoinFail(t)
    BY <2>1, <2>2, ReturnJoiners, Zenon DEF JoinFail
  <2>3. CASE JoinSucceed(t)
    <3>1. PICK u \in Threads : u = obj[t]
      BY <2>1
    <3>2. Return(t) /\ Reap(u)
      BY <2>3, <3>1, Zenon DEF JoinSucceed
    <3>3. /\ state[u] = "ZOMBIE"
          /\ \A v \in Threads : /\ state'[v] = IF v = u THEN "RUNNABLE" ELSE state[v]
                                /\ woken'[v] = IF v = u THEN "reap" ELSE woken[v]
      BY <3>2, ReapWakes, Zenon
    <3>4. \A v \in Threads : /\ pc'[v] = IF v = t THEN "run" ELSE pc[v]
                             /\ obj'[v] = IF v = t THEN None ELSE obj[v]
      BY <1>0, <3>2, ReturnEffect, Zenon
    <3>5. ASSUME NEW v \in Threads, pc'[v] = "join"
          PROVE  /\ pc[v] = "join" /\ v # t /\ obj[v] # u /\ v # u
                 /\ obj[v] \in Threads /\ v \notin DOMAIN sleepq
                 /\ woken[v] = "signal" /\ state[v] # "COND_WAIT" => state[obj[v]] = "ZOMBIE"
      <4>1. pc[v] = "join" /\ v # t
        BY <3>4, <3>5
      <4>2. obj[v] # u
        BY <2>1, <3>1, <4>1, Zenon DEF JoinersAlone
      <4>3. v # u
        BY <3>3, <4>1, BlockedPlace
      <4> QED BY <4>1, <4>2, <4>3, Zenon DEF JoinersAlone, SchedInv, WaitsForItsKind
    <3>6. JoinersSame
      BY <2>1, <3>3, <3>4, <3>5 DEF JoinersSame
    <3> QED BY <3>6, JoinersSameKeeps
  <2>4. CASE JoinWaitAgain(t)
    <3>1. /\ \A v \in Threads : state'[v] = IF v = t THEN "COND_WAIT" ELSE state[v]
          /\ UNCHANGED <<pc, obj, woken>>
      BY <1>0, <2>4, Zenon DEF JoinWaitAgain, TypeOK, AllThreads
    <3>2. ASSUME NEW v \in Threads
          PROVE  /\ state[v] = "ZOMBIE" => state'[v] = "ZOMBIE"
                 /\ state'[v] = "COND_WAIT" \/ state[v] # "COND_WAIT"
                 /\ pc[v] = "join" => v \notin DOMAIN sleepq
      BY <2>1, <3>1 DEF JoinersAlone
    <3> QED BY <2>1, <3>1, <3>2, JoinersLeftAlone, Zenon
  <2> QED BY <1>2, <2>2, <2>3, <2>4, Zenon DEF JoinReturn
<1> QED BY <1>1, <1>2

LEMMA CallJoiners ==
  ASSUME SchedInv, WaitQueuesExact, JoinersAlone, NEW t \in Threads, Call(t)
  PROVE  JoinersAlone'
<1>0. TypeOK
  BY DEF SchedInv
<1>1. ASSUME UNCHANGED <<pc, obj, state, woken, sleepq>> PROVE JoinersAlone'
  BY <1>1, JoinersLeftAlone, Zenon DEF JoinersAlone
<1>2. ASSUME NEW timeout, st_usleep(t, timeout) \/ st_poll(t, timeout) PROVE JoinersAlone'
  <2>1. CASE FailInterrupted(t)
    BY <1>1, <2>1, Zenon DEF FailInterrupted
  <2>2. CASE SleepBlock(t, timeout)
    <3>1. /\ \/ Block(t, "SUSPENDED", "usleep", timeout)
             \/ Block(t, "SLEEPING", "usleep", timeout)
          /\ UNCHANGED <<obj, woken>> /\ Calling(t)
      BY <1>2, <2>2 DEF SleepBlock, st_usleep, st_poll
    <3> QED BY <3>1, BlockJoiners
  <2>3. CASE PollBlock(t, timeout)
    <3>1. /\ Block(t, "IO_WAIT", "poll", timeout)
          /\ UNCHANGED <<obj, woken>> /\ Calling(t)
      BY <1>2, <2>3, Zenon DEF PollBlock, st_usleep, st_poll
    <3> QED BY <3>1, BlockJoiners
  <2> QED BY <1>2, <2>1, <2>2, <2>3, Zenon DEF st_usleep, st_poll
<1>3. ASSUME NEW c \in Conds, NEW timeout, st_cond_timedwait(t, c, timeout)
      PROVE  JoinersAlone'
  <2>1. CASE FailInterrupted(t)
    BY <1>1, <2>1, Zenon DEF FailInterrupted
  <2>2. CASE CondBlock(t, c, "cond", timeout)
    <3>1. Block(t, "COND_WAIT", "cond", timeout) /\ UNCHANGED woken /\ Calling(t)
      BY <1>3, <2>2, Zenon DEF CondBlock, st_cond_timedwait
    <3>2. \A v \in Threads \ {t} : obj'[v] = obj[v]
      BY <1>0, <2>2, Zenon DEF CondBlock, TypeOK
    <3> QED BY <3>1, <3>2, BlockJoiners
  <2> QED BY <1>3, <2>1, <2>2, Zenon DEF st_cond_timedwait
<1>4. ASSUME NEW m \in Mutexes, st_mutex_lock(t, m) \/ st_mutex_trylock(t, m)
      PROVE  JoinersAlone'
  <2>1. CASE FailInterrupted(t) \/ TakeMutex(t, m)
    BY <1>1, <2>1, Zenon DEF FailInterrupted, TakeMutex
  <2>2. CASE LockBlock(t, m)
    <3>1. Block(t, "LOCK_WAIT", "mutex", NoTimeout) /\ UNCHANGED woken /\ Calling(t)
      BY <1>4, <2>2, Zenon DEF LockBlock, st_mutex_lock, st_mutex_trylock
    <3>2. \A v \in Threads \ {t} : obj'[v] = obj[v]
      BY <1>0, <2>2, Zenon DEF LockBlock, TypeOK
    <3> QED BY <3>1, <3>2, BlockJoiners
  <2> QED BY <1>4, <2>1, <2>2, Zenon DEF st_mutex_lock, st_mutex_trylock
<1>5. ASSUME \/ \E c \in Conds : st_cond_new(t, c) \/ st_cond_destroy(t, c)
             \/ \E m \in Mutexes : st_mutex_new(t, m) \/ st_mutex_destroy(t, m)
      PROVE  JoinersAlone'
  BY <1>1, <1>5, Zenon DEF st_cond_new, st_cond_destroy, st_mutex_new, st_mutex_destroy
<1>6. ASSUME NEW u \in Threads, st_thread_join(t, u) PROVE JoinersAlone'
  <2>1. CASE FailInterrupted(t)
    BY <1>1, <2>1, Zenon DEF FailInterrupted
  <2> QED BY <1>6, <2>1, JoinJoiners, Zenon DEF st_thread_join
<1>7. ASSUME \/ \E c \in Conds : st_cond_signal(t, c) \/ st_cond_broadcast(t, c)
             \/ \E m \in Mutexes : st_mutex_unlock(t, m)
             \/ \E u \in Threads : st_thread_interrupt(t, u)
      PROVE  JoinersAlone'
  BY <1>7, WakeupJoiners, Zenon
<1>8. ASSUME \/ ExitDetached(t) \/ ExitJoinable(t)
             \/ \E u \in Threads, joinable \in BOOLEAN : st_thread_create(t, u, joinable)
      PROVE  JoinersAlone'
  BY <1>8, LifeJoiners, Zenon
<1> QED BY <1>2, <1>3, <1>4, <1>5, <1>6, <1>7, <1>8, Zenon DEF Call

LEMMA NextJoiners == SchedInv /\ WaitQueuesExact /\ JoinersAlone /\ [Next]_vars => JoinersAlone'
<1> SUFFICES ASSUME SchedInv, WaitQueuesExact, JoinersAlone, [Next]_vars PROVE JoinersAlone'
  OBVIOUS
<1>1. CASE UNCHANGED vars \/ Exited
  <2>1. UNCHANGED <<pc, obj, state, woken, sleepq>>
    BY <1>1, Zenon DEF vars, Exited
  <2> QED BY <2>1, JoinersLeftAlone, Zenon DEF JoinersAlone
<1> QED BY <1>1, IdleJoiners, CallJoiners, ResumeJoiners, LifeJoiners, Zenon DEF Next, Resume
-----------------------------------------------------------------------------
(* Every way of waking a thread up leaves the record its call reads when   *)
(* it resumes, and a joiner is alone with its target.                      *)
THEOREM ResultInvariant == Spec => []ResultInv
<1>1. Init => ResultInv
  <2> SUFFICES ASSUME Init PROVE ResultInv
    OBVIOUS
  <2>1. timedout = {} /\ \A t \in Threads : pc[t] \in {"unborn", "run"}
    BY Zenon DEF Init
  <2> QED BY <2>1 DEF ResultInv, WakesRecorded, WakeRecorded, JoinersAlone
<1>2. SchedInv /\ WaitQueuesExact /\ ResultInv /\ [Next]_vars => ResultInv'
  BY NextWakes, NextJoiners, Zenon DEF ResultInv
<1> QED BY <1>1, <1>2, SchedInvariant, WaitQueuesCorrect, PTL DEF Spec

(* What a blocking call returns is what ended its wait: no success without *)
(* a signal, a handoff or a ready descriptor, no timeout without the clock *)
(* and no interrupt swallowed, whatever else happened between the wakeup   *)
(* and the moment the thread ran; and a join finds its target a zombie.    *)
THEOREM ResultsCorrect == Spec => []ResultsTruthful
<1>1. SchedInv /\ MutexInv /\ ResultInv => ResultsTruthful
  <2> SUFFICES ASSUME SchedInv, MutexInv, ResultInv, NEW t \in Threads, current = t
               PROVE  /\ Resumed(t, "cond") \/ Resumed(t, "join") =>
                           /\ CondResult(t) = "OK" => woken[t] = "signal"
                           /\ CondResult(t) = "ETIME" => woken[t] = "clock"
                           /\ woken[t] = "interrupt" => CondResult(t) = "EINTR"
                      /\ Resumed(t, "join") /\ CondResult(t) = "OK" => state[obj[t]] = "ZOMBIE"
                      /\ Resumed(t, "mutex") =>
                           (LockResult(t) = "OK" <=> woken[t] = "handoff")
                      /\ Resumed(t, "poll") =>
                           /\ PollResult(t) = "READY" => woken[t] = "io"
                           /\ PollResult(t) = "TIMEOUT" => woken[t] = "clock"
                           /\ woken[t] = "interrupt" => PollResult(t) = "EINTR"
                      /\ Resumed(t, "usleep") =>
                           \/ woken[t] = "clock"
                           \/ woken[t] = "interrupt" /\ t \in interrupted
    BY Zenon DEF ResultsTruthful, Resumed
  <2>1. state[t] = "RUNNING" /\ WakeRecorded(t)
    BY CurrentRuns, Zenon DEF ResultInv, WakesRecorded
  <2>2. pc[t] \in {"cond", "join"} =>
          /\ CondResult(t) = "OK" => woken[t] = "signal"
          /\ CondResult(t) = "ETIME" => woken[t] = "clock"
          /\ woken[t] = "interrupt" => CondResult(t) = "EINTR"
    BY <2>1, SMTT(30) DEF WakeRecorded, CondResult
  <2>3. pc[t] = "join" /\ CondResult(t) = "OK" => state[obj[t]] = "ZOMBIE"
    BY <2>1, <2>2, SMTT(30) DEF ResultInv, JoinersAlone
  <2>4. pc[t] = "mutex" => (LockResult(t) = "OK" <=> woken[t] = "handoff")
    BY LockResultExact, Zenon DEF Resumed
  <2>5. pc[t] = "poll" =>
          /\ PollResult(t) = "READY" => woken[t] = "io"
          /\ PollResult(t) = "TIMEOUT" => woken[t] = "clock"
          /\ woken[t] = "interrupt" => PollResult(t) = "EINTR"
    BY <2>1, SMTT(30) DEF WakeRecorded, PollResult
  <2>6. pc[t] = "usleep" => \/ woken[t] = "clock"
                            \/ woken[t] = "interrupt" /\ t \in interrupted
    BY <2>1, SMTT(30) DEF WakeRecorded
  <2> QED BY <2>2, <2>3, <2>4, <2>5, <2>6 DEF Resumed
<1> QED BY <1>1, SchedInvariant, MutexInvariant, ResultInvariant, PTL
=============================================================================
