----------------------------- MODULE MutexProofs ----------------------------
(***************************************************************************)
(* The wait queues and the count of active threads are exact, and mutexes  *)
(* are handed over without being lost, for any number of threads,          *)
(* condition variables and mutexes.                                        *)
(***************************************************************************)
EXTENDS SchedProofs

(* Threads enter and leave waits, and objects come and go, elsewhere. *)
LEMMA WaitqFrame ==
  ASSUME WaitQueuesExact, UNCHANGED <<waitq, objects>>,
         \A t \in Threads :
           pc[t] \in {"cond", "join", "mutex"} \/ pc'[t] \in {"cond", "join", "mutex"}
             => pc'[t] = pc[t] /\ obj'[t] = obj[t]
  PROVE  WaitQueuesExact'
<1>1. ASSUME NEW o \in Waitables
      PROVE  {t \in Threads : pc'[t] \in {"cond", "join", "mutex"} /\ obj'[t] = o}
               = {t \in Threads : pc[t] \in {"cond", "join", "mutex"} /\ obj[t] = o}
  OBVIOUS
<1> QED BY <1>1, Zenon DEF WaitQueuesExact

(* A thread in its own code queues itself on an object. *)
LEMMA EnterKeeps ==
  ASSUME TypeOK, WaitQueuesExact,
         NEW t \in Threads, NEW o \in Waitables,
         NEW place \in {"cond", "join", "mutex"},
         pc[t] = "run", o \in Threads \/ o \in objects,
         waitq' = [waitq EXCEPT ![o] = Append(waitq[o], t)],
         obj' = [obj EXCEPT ![t] = o],
         pc' = [pc EXCEPT ![t] = place],
         UNCHANGED objects
  PROVE  WaitQueuesExact'
<1>1. /\ \A u \in Threads : pc'[u] = IF u = t THEN place ELSE pc[u]
      /\ \A u \in Threads : obj'[u] = IF u = t THEN o ELSE obj[u]
      /\ \A p \in Waitables : waitq'[p] = IF p = o THEN Append(waitq[o], t) ELSE waitq[p]
      /\ waitq[o] \in Seq(Threads)
  BY Zenon DEF TypeOK
<1>2. /\ NoRepeat(waitq[o])
      /\ Elems(waitq[o]) = {u \in Threads : pc[u] \in {"cond", "join", "mutex"} /\ obj[u] = o}
      /\ t \notin Elems(waitq[o])
  BY Zenon DEF WaitQueuesExact
<1>3. /\ NoRepeat(Append(waitq[o], t))
      /\ Elems(Append(waitq[o], t)) = Elems(waitq[o]) \cup {t}
  BY <1>1, <1>2, AppendElems
<1>4. ASSUME NEW p \in Waitables
      PROVE  /\ NoRepeat(waitq'[p])
             /\ Elems(waitq'[p])
                  = {u \in Threads : pc'[u] \in {"cond", "join", "mutex"} /\ obj'[u] = p}
             /\ p \notin Threads /\ waitq'[p] # <<>> => p \in objects'
  <2>1. CASE p = o
    <3>1. waitq'[p] = Append(waitq[o], t)
      BY <1>1, <2>1, Zenon
    <3>2. {u \in Threads : pc'[u] \in {"cond", "join", "mutex"} /\ obj'[u] = p}
            = {u \in Threads : pc[u] \in {"cond", "join", "mutex"} /\ obj[u] = o} \cup {t}
      BY <1>1, <2>1
    <3> QED BY <1>2, <1>3, <2>1, <3>1, <3>2
  <2>2. CASE p # o
    <3>1. waitq'[p] = waitq[p]
      BY <1>1, <2>2
    <3>2. {u \in Threads : pc'[u] \in {"cond", "join", "mutex"} /\ obj'[u] = p}
            = {u \in Threads : pc[u] \in {"cond", "join", "mutex"} /\ obj[u] = p}
      BY <1>1, <2>2
    <3> QED BY <3>1, <3>2, Zenon DEF WaitQueuesExact
  <2> QED BY <2>1, <2>2
<1> QED BY <1>4, Zenon DEF WaitQueuesExact

(* A thread that resumes inside a wait takes itself off the queue and      *)
(* returns to its own code.                                                *)
LEMMA LeaveKeeps ==
  ASSUME TypeOK, WaitQueuesExact,
         NEW t \in Threads, obj[t] \in Waitables,
         pc[t] \in {"cond", "join", "mutex"},
         waitq' = [waitq EXCEPT ![obj[t]] = Unlink(waitq[obj[t]], t)],
         Return(t), UNCHANGED objects
  PROVE  WaitQueuesExact'
<1> DEFINE o == obj[t]
<1>1. /\ \A u \in Threads : pc'[u] = IF u = t THEN "run" ELSE pc[u]
      /\ \A u \in Threads : obj'[u] = IF u = t THEN None ELSE obj[u]
      /\ \A p \in Waitables : waitq'[p] = IF p = o THEN Unlink(waitq[o], t) ELSE waitq[p]
      /\ waitq[o] \in Seq(Threads)
  BY Zenon DEF TypeOK, Return
<1>2. /\ NoRepeat(waitq[o])
      /\ Elems(waitq[o]) = {u \in Threads : pc[u] \in {"cond", "join", "mutex"} /\ obj[u] = o}
      /\ t \in Elems(waitq[o])
      /\ o \in Waitables
  BY Zenon DEF WaitQueuesExact
<1>3. /\ NoRepeat(Unlink(waitq[o], t))
      /\ Elems(Unlink(waitq[o], t)) = Elems(waitq[o]) \ {t}
  BY <1>1, <1>2, UnlinkElems
<1>4. waitq[o] # <<>>
  BY <1>1, <1>2, ElemsOfSeq, Zenon
<1>5. obj[t] = o
  OBVIOUS
<1> HIDE DEF o
<1>6. ASSUME NEW p \in Waitables
      PROVE  /\ NoRepeat(waitq'[p])
             /\ Elems(waitq'[p])
                  = {u \in Threads : pc'[u] \in {"cond", "join", "mutex"} /\ obj'[u] = p}
             /\ p \notin Threads /\ waitq'[p] # <<>> => p \in objects'
  <2>1. CASE p = o
    <3>1. waitq'[p] = Unlink(waitq[o], t)
      BY <1>1, <2>1
    <3>2. {u \in Threads : pc'[u] \in {"cond", "join", "mutex"} /\ obj'[u] = p}
            = {u \in Threads : pc[u] \in {"cond", "join", "mutex"} /\ obj[u] = o} \ {t}
      BY <1>1, <2>1
    <3>3. o \notin Threads => o \in objects
      BY <1>2, <1>4, Zenon DEF WaitQueuesExact
    <3> QED BY <1>2, <1>3, <2>1, <3>1, <3>2, <3>3
  <2>2. CASE p # o
    <3>1. waitq'[p] = waitq[p]
      BY <1>1, <2>2
    <3>2. {u \in Threads : pc'[u] \in {"cond", "join", "mutex"} /\ obj'[u] = p}
            = {u \in Threads : pc[u] \in {"cond", "join", "mutex"} /\ obj[u] = p}
      BY <1>1, <1>5, <2>2
    <3> QED BY <3>1, <3>2, Zenon DEF WaitQueuesExact
  <2> QED BY <2>1, <2>2
<1> QED BY <1>6, Zenon DEF WaitQueuesExact

(* The next turn of the loop in st_thread_join: off the queue and on again.*)
LEMMA WaitAgainKeeps ==
  ASSUME TypeOK, WaitQueuesExact,
         NEW t \in Threads, obj[t] \in Waitables,
         pc[t] \in {"cond", "join", "mutex"},
         waitq' = [waitq EXCEPT ![obj[t]] = Append(Unlink(waitq[obj[t]], t), t)],
         UNCHANGED <<pc, obj, objects>>
  PROVE  WaitQueuesExact'
<1> DEFINE o == obj[t]
           q == Append(Unlink(waitq[o], t), t)
<1>1. /\ \A p \in Waitables : waitq'[p] = IF p = o THEN q ELSE waitq[p]
      /\ waitq[o] \in Seq(Threads)
  BY Zenon DEF TypeOK
<1>2. /\ NoRepeat(waitq[o])
      /\ Elems(waitq[o]) = {u \in Threads : pc[u] \in {"cond", "join", "mutex"} /\ obj[u] = o}
      /\ t \in Elems(waitq[o])
      /\ o \in Waitables
  BY Zenon DEF WaitQueuesExact
<1>3. /\ Unlink(waitq[o], t) \in Seq(Threads)
      /\ NoRepeat(Unlink(waitq[o], t))
      /\ Elems(Unlink(waitq[o], t)) = Elems(waitq[o]) \ {t}
  BY <1>1, <1>2, UnlinkElems
<1>4. NoRepeat(q) /\ Elems(q) = (Elems(waitq[o]) \ {t}) \cup {t}
  BY <1>3, AppendElems, SMTT(60)
<1>5. waitq[o] # <<>>
  BY <1>1, <1>2, ElemsOfSeq, Zenon
<1> HIDE DEF o, q
<1>6. ASSUME NEW p \in Waitables
      PROVE  /\ NoRepeat(waitq'[p])
             /\ Elems(waitq'[p]) = Elems(waitq[p])
             /\ p \notin Threads /\ waitq'[p] # <<>> => p \in objects
  <2>1. CASE p = o
    <3>1. o \notin Threads => o \in objects
      BY <1>2, <1>5, Zenon DEF WaitQueuesExact
    <3> QED BY <1>1, <1>2, <1>4, <2>1, <3>1, ZenonT(60)
  <2>2. CASE p # o
    <3>1. waitq'[p] = waitq[p]
      BY <1>1, <2>2
    <3> QED BY <3>1, Zenon DEF WaitQueuesExact
  <2> QED BY <2>1, <2>2
<1> QED BY <1>6, Zenon DEF WaitQueuesExact
-----------------------------------------------------------------------------
(* Every step keeps the wait queues exact. *)
LEMMA NextWaitq == SchedInv /\ WaitQueuesExact /\ [Next]_vars => WaitQueuesExact'
<1> SUFFICES ASSUME TypeOK, WaitsForItsKind, WaitQueuesExact, [Next]_vars
             PROVE  WaitQueuesExact'
  BY DEF SchedInv
<1> USE VpAssumption
<1>1. ASSUME UNCHANGED <<pc, obj, waitq, objects>> PROVE WaitQueuesExact'
  BY <1>1, WaitqFrame, Zenon
<1>2. ASSUME NEW t \in Threads, NEW place \in Places \ {"cond", "join", "mutex"},
             pc[t] \notin {"cond", "join", "mutex"},
             pc' = [pc EXCEPT ![t] = place],
             \A u \in Threads \ {t} : obj'[u] = obj[u],
             UNCHANGED <<waitq, objects>>
      PROVE  WaitQueuesExact'
  <2>1. \A u \in Threads : pc'[u] = IF u = t THEN place ELSE pc[u]
    BY <1>2, ZenonT(60) DEF TypeOK
  <2> QED BY <1>2, <2>1, WaitqFrame
<1>3. CASE Schedule \/ UNCHANGED vars \/ IdleStep \/ Exited
  BY <1>1, <1>3, Zenon DEF Schedule, vars, IdleStep, Dispatch, CheckClock, IdleExit, Exited
<1>4. ASSUME NEW t \in Threads, FailInterrupted(t) PROVE WaitQueuesExact'
  BY <1>1, <1>4, Zenon DEF FailInterrupted
<1>5. ASSUME NEW t \in Threads, NEW timeout, st_usleep(t, timeout) \/ st_poll(t, timeout)
      PROVE  WaitQueuesExact'
  <2>1. pc[t] = "run"
    BY <1>5, Zenon DEF st_usleep, st_poll, Calling
  <2>2. CASE SleepBlock(t, timeout)
    <3>1. /\ pc' = [pc EXCEPT ![t] = "usleep"]
          /\ UNCHANGED <<obj, waitq, objects>>
      BY <2>2, Zenon DEF SleepBlock, Block
    <3> QED BY <1>2, <2>1, <3>1, Zenon DEF Places
  <2>3. CASE PollBlock(t, timeout)
    <3>1. /\ pc' = [pc EXCEPT ![t] = "poll"]
          /\ UNCHANGED <<obj, waitq, objects>>
      BY <2>3, Zenon DEF PollBlock, Block
    <3> QED BY <1>2, <2>1, <3>1, Zenon DEF Places
  <2> QED BY <1>4, <1>5, <2>2, <2>3, Zenon DEF st_usleep, st_poll
<1>6. ASSUME NEW t \in Threads, NEW c \in Conds, NEW timeout,
             st_cond_timedwait(t, c, timeout)
      PROVE  WaitQueuesExact'
  <2>1. pc[t] = "run" /\ c \in objects /\ c \in Waitables
    BY <1>6, Zenon DEF st_cond_timedwait, Calling, Waitables
  <2>2. CASE CondBlock(t, c, "cond", timeout)
    BY <2>1, <2>2, EnterKeeps, Zenon DEF CondBlock, Block
  <2> QED BY <1>4, <1>6, <2>2, Zenon DEF st_cond_timedwait
<1>7. ASSUME NEW t \in Threads, NEW m \in Mutexes,
             st_mutex_lock(t, m) \/ st_mutex_trylock(t, m)
      PROVE  WaitQueuesExact'
  <2>1. pc[t] = "run" /\ m \in objects /\ m \in Waitables
    BY <1>7, Zenon DEF st_mutex_lock, st_mutex_trylock, Calling, Waitables
  <2>2. CASE TakeMutex(t, m)
    BY <1>1, <2>2, Zenon DEF TakeMutex
  <2>3. CASE LockBlock(t, m)
    BY <2>1, <2>3, EnterKeeps, Zenon DEF LockBlock, Block
  <2> QED BY <1>4, <1>7, <2>2, <2>3, Zenon DEF st_mutex_lock, st_mutex_trylock
<1>8. ASSUME NEW t \in Threads, NEW u \in Threads, st_thread_join(t, u)
      PROVE  WaitQueuesExact'
  <2>1. pc[t] = "run" /\ u \in Waitables
    BY <1>8, Zenon DEF st_thread_join, Calling, Waitables
  <2>2. CASE JoinZombie(u)
    BY <1>1, <2>2, Zenon DEF JoinZombie
  <2>3. CASE CondBlock(t, u, "join", NoTimeout)
    BY <2>1, <2>3, EnterKeeps, Zenon DEF CondBlock, Block
  <2> QED BY <1>4, <1>8, <2>2, <2>3, Zenon DEF st_thread_join
<1>9. ASSUME NEW t \in Threads, CondReturn(t) \/ LockReturn(t) \/ JoinReturn(t)
      PROVE  WaitQueuesExact'
  <2>1. pc[t] \in {"cond", "join", "mutex"} /\ obj[t] \in Waitables /\ UNCHANGED objects
    BY <1>9, Zenon DEF CondReturn, LockReturn, JoinReturn, Resumed, WaitsForItsKind, Waitables
  <2>2. CASE /\ waitq' = [waitq EXCEPT ![obj[t]] = Unlink(waitq[obj[t]], t)]
             /\ Return(t)
    BY <2>1, <2>2, LeaveKeeps, Zenon
  <2>3. CASE JoinWaitAgain(t)
    <3>1. obj' = obj /\ pc' = pc
      BY <2>3, Zenon DEF JoinWaitAgain
    <3> QED BY <2>1, <2>3, <3>1, WaitAgainKeeps, Zenon DEF JoinWaitAgain
  <2> QED BY <1>9, <2>2, <2>3, Zenon
          DEF CondReturn, LockReturn, JoinReturn, JoinFail, JoinSucceed, CondUnblock
<1>10. ASSUME NEW t \in Threads, UsleepReturn(t) \/ PollReturn(t) PROVE WaitQueuesExact'
  <2>1. /\ pc[t] \notin {"cond", "join", "mutex"}
        /\ pc' = [pc EXCEPT ![t] = "run"]
        /\ obj' = [obj EXCEPT ![t] = None]
        /\ UNCHANGED <<waitq, objects>>
    BY <1>10, Zenon DEF UsleepReturn, PollReturn, Resumed, Return
  <2>2. \A u \in Threads \ {t} : obj'[u] = obj[u]
    BY <2>1, Zenon DEF TypeOK
  <2> QED BY <1>2, <2>1, <2>2, Zenon DEF Places
<1>11. ASSUME NEW t \in Threads, ExitDetached(t) \/ ExitJoinable(t) \/ ZombieResume(t)
       PROVE  WaitQueuesExact'
  <2>1. /\ pc[t] \notin {"cond", "join", "mutex"}
        /\ UNCHANGED <<obj, waitq, objects>>
        /\ \/ pc' = [pc EXCEPT ![t] = "freed"]
           \/ pc' = [pc EXCEPT ![t] = "zombie"]
    BY <1>11, Zenon DEF ExitDetached, ExitJoinable, ZombieResume, FreeThread, Calling, Resumed
  <2> QED BY <1>2, <2>1 DEF Places
<1>12. ASSUME NEW t \in Threads, NEW u \in Threads, NEW joinable \in BOOLEAN,
              st_thread_create(t, u, joinable)
       PROVE  WaitQueuesExact'
  <2>1. /\ pc[u] = "unborn" /\ pc' = [pc EXCEPT ![u] = "run"]
        /\ UNCHANGED <<obj, waitq, objects>>
    BY <1>12, Zenon DEF st_thread_create
  <2> QED BY <1>2, <2>1, Zenon DEF Places
<1>13. ASSUME NEW t \in Threads, NEW o \in Conds \cup Mutexes, o \notin objects,
              objects' = objects \cup {o}, waitq' = [waitq EXCEPT ![o] = <<>>],
              UNCHANGED <<pc, obj>>
       PROVE  WaitQueuesExact'
  <2>1. o \in Waitables /\ o \notin Threads
    BY Zenon DEF Waitables
  <2>2. waitq[o] = <<>>
    BY <1>13, <2>1, Zenon DEF WaitQueuesExact
  <2>3. waitq' = waitq
    BY <1>13, <2>1, <2>2, Zenon DEF TypeOK
  <2> QED BY <1>13, <2>3, Zenon DEF WaitQueuesExact
<1>14. ASSUME NEW t \in Threads, NEW o \in Conds \cup Mutexes, waitq[o] = <<>>,
              objects' = objects \ {o}, UNCHANGED <<pc, obj, waitq>>
       PROVE  WaitQueuesExact'
  BY <1>14, Zenon DEF WaitQueuesExact
<1>15. ASSUME NEW t \in Threads, Call(t) PROVE WaitQueuesExact'
  <2>1. ASSUME NEW c \in Conds, st_cond_new(t, c) \/ st_cond_destroy(t, c)
        PROVE  WaitQueuesExact'
    BY <1>13, <1>14, <2>1, Zenon DEF st_cond_new, st_cond_destroy
  <2>2. ASSUME NEW m \in Mutexes, st_mutex_new(t, m) \/ st_mutex_destroy(t, m)
        PROVE  WaitQueuesExact'
    BY <1>13, <1>14, <2>2, Zenon DEF st_mutex_new, st_mutex_destroy
  <2>3. ASSUME NEW c \in Conds, st_cond_signal(t, c) \/ st_cond_broadcast(t, c)
        PROVE  WaitQueuesExact'
    BY <1>1, <2>3, Zenon DEF st_cond_signal, st_cond_broadcast
  <2>4. ASSUME NEW m \in Mutexes, st_mutex_unlock(t, m) PROVE WaitQueuesExact'
    BY <1>1, <2>4, Zenon DEF st_mutex_unlock
  <2>5. ASSUME NEW u \in Threads, st_thread_interrupt(t, u) PROVE WaitQueuesExact'
    BY <1>1, <2>5, Zenon DEF st_thread_interrupt
  <2> QED
    BY <1>5, <1>6, <1>7, <1>8, <1>11, <1>12, <1>15, <2>1, <2>2, <2>3, <2>4, <2>5, Zenon
    DEF Call
<1>16. ASSUME NEW t \in Threads, Resume(t) PROVE WaitQueuesExact'
  BY <1>9, <1>10, <1>11, <1>16, Zenon DEF Resume
<1> QED BY <1>3, <1>15, <1>16 DEF Next

(* A wait queue holds exactly the threads inside a wait on it, and its     *)
(* object outlives them: st_cond_destroy and st_mutex_destroy refuse as    *)
(* long as a thread has not left, also one that was already woken.         *)
THEOREM WaitQueuesCorrect == Spec => []WaitQueuesExact
<1>1. Init => WaitQueuesExact
  <2> SUFFICES ASSUME Init PROVE WaitQueuesExact
    OBVIOUS
  <2>1. \A t \in Threads : pc[t] \notin {"cond", "join", "mutex"}
    BY Zenon DEF Init
  <2>2. \A o \in Waitables : waitq[o] = <<>>
    BY Zenon DEF Init
  <2>3. NoRepeat(<<>>) /\ Elems(<<>>) = {}
    BY DEF NoRepeat, Elems
  <2> QED BY <2>1, <2>2, <2>3 DEF WaitQueuesExact
<1> QED BY <1>1, SchedInvariant, NextWaitq, PTL DEF Spec
-----------------------------------------------------------------------------
(* The threads that have not exited. *)
Active == {t \in Threads : Exists(t) /\ pc[t] # "zombie"}

(* The place of one thread changes. *)
LEMMA ActiveStep ==
  ASSUME TypeOK, ActiveCountExact, NEW t \in Threads, NEW place \in Places,
         pc' = [pc EXCEPT ![t] = place]
  PROVE  /\ (t \in Active <=> place \notin {"unborn", "freed", "zombie"})
              /\ activeCount' = activeCount => ActiveCountExact'
         /\ t \in Active /\ place \in {"freed", "zombie"}
              /\ activeCount' = activeCount - 1 => ActiveCountExact'
         /\ t \notin Active /\ place = "run"
              /\ activeCount' = activeCount + 1 => ActiveCountExact'
<1>1. \A u \in Threads : pc'[u] = IF u = t THEN place ELSE pc[u]
  BY Zenon DEF TypeOK
<1>2. /\ Active' = {u \in Threads : pc'[u] \notin {"unborn", "freed", "zombie"}}
      /\ Active = {u \in Threads : pc[u] \notin {"unborn", "freed", "zombie"}}
  BY DEF Active, Exists
<1>3. IsFiniteSet(Active) /\ Cardinality(Active) \in Nat
  <2>1. Active \subseteq Threads
    BY <1>2
  <2> QED BY <2>1, VpAssumption, FS_Subset, FS_CardinalityType
<1>4. /\ activeCount = Cardinality(Active)
      /\ activeCount' = Cardinality(Active') => ActiveCountExact'
  BY DEF ActiveCountExact, Active
<1>5. (t \in Active <=> place \notin {"unborn", "freed", "zombie"}) => Active' = Active
  BY <1>1, <1>2
<1>6. ASSUME t \in Active, place \in {"freed", "zombie"}
      PROVE  Cardinality(Active') = Cardinality(Active) - 1
  <2>1. Active' = Active \ {t}
    BY <1>1, <1>2, <1>6
  <2> QED BY <1>3, <1>6, <2>1, FS_RemoveElement, Zenon
<1>7. ASSUME t \notin Active, place = "run"
      PROVE  Cardinality(Active') = Cardinality(Active) + 1
  <2>1. Active' = Active \cup {t}
    BY <1>1, <1>2, <1>7
  <2> QED BY <1>3, <1>7, <2>1, FS_AddElement, SMTT(60)
<1> QED BY <1>4, <1>5, <1>6, <1>7

(* Every step keeps the count exact. *)
LEMMA NextActive == TypeOK /\ ActiveCountExact /\ [Next]_vars => ActiveCountExact'
<1> SUFFICES ASSUME TypeOK, ActiveCountExact, [Next]_vars PROVE ActiveCountExact'
  OBVIOUS
<1>1. ASSUME UNCHANGED <<pc, activeCount>> PROVE ActiveCountExact'
  BY <1>1, Zenon DEF ActiveCountExact, Exists
<1>2. ASSUME NEW t \in Threads, NEW place \in {"run", "usleep", "cond", "join", "mutex", "poll"},
             pc[t] \in {"run", "usleep", "cond", "join", "mutex", "poll"},
             pc' = [pc EXCEPT ![t] = place], UNCHANGED activeCount
      PROVE  ActiveCountExact'
  BY <1>2, ActiveStep, Zenon DEF Active, Exists, Places
<1>3. CASE Schedule \/ UNCHANGED vars \/ IdleStep \/ Exited
  BY <1>1, <1>3, Zenon DEF Schedule, vars, IdleStep, Dispatch, CheckClock, IdleExit, Exited
<1>4. ASSUME NEW t \in Threads, Resume(t) PROVE ActiveCountExact'
  <2>1. CASE ZombieResume(t)
    <3>1. pc[t] = "zombie" /\ pc' = [pc EXCEPT ![t] = "freed"] /\ UNCHANGED activeCount
      BY <2>1, Zenon DEF ZombieResume, FreeThread, Resumed
    <3> QED BY <3>1, ActiveStep, Zenon DEF Active, Exists, Places
  <2>2. CASE JoinReturn(t) /\ JoinWaitAgain(t)
    BY <1>1, <2>2, Zenon DEF JoinReturn, JoinWaitAgain
  <2>3. CASE /\ pc[t] \in {"usleep", "cond", "join", "mutex", "poll"}
             /\ Return(t) /\ UNCHANGED activeCount
    BY <1>2, <2>3, Zenon DEF Return
  <2> QED BY <1>4, <2>1, <2>2, <2>3, Zenon
          DEF Resume, UsleepReturn, CondReturn, LockReturn, JoinReturn, PollReturn,
              JoinFail, JoinSucceed, Resumed
<1>5. ASSUME NEW t \in Threads, ExitDetached(t) \/ ExitJoinable(t)
      PROVE  ActiveCountExact'
  <2>1. /\ pc[t] = "run" /\ activeCount' = activeCount - 1
        /\ pc' = [pc EXCEPT ![t] = "freed"] \/ pc' = [pc EXCEPT ![t] = "zombie"]
    BY <1>5, Zenon DEF ExitDetached, ExitJoinable, FreeThread, Calling
  <2> QED BY <2>1, ActiveStep DEF Active, Exists, Places
<1>6. ASSUME NEW t \in Threads, NEW u \in Threads, NEW joinable \in BOOLEAN,
             st_thread_create(t, u, joinable)
      PROVE  ActiveCountExact'
  <2>1. /\ pc[u] = "unborn" /\ activeCount' = activeCount + 1
        /\ pc' = [pc EXCEPT ![u] = "run"]
    BY <1>6, Zenon DEF st_thread_create
  <2> QED BY <2>1, ActiveStep, Zenon DEF Active, Exists, Places
<1>7. ASSUME NEW t \in Threads, Calling(t), NEW st, NEW timeout,
             NEW place \in {"usleep", "cond", "join", "mutex", "poll"},
             Block(t, st, place, timeout), UNCHANGED activeCount
      PROVE  ActiveCountExact'
  BY <1>2, <1>7, Zenon DEF Block, Calling
<1>8. ASSUME NEW t \in Threads, NEW timeout, st_usleep(t, timeout) \/ st_poll(t, timeout)
      PROVE  ActiveCountExact'
  BY <1>1, <1>7, <1>8, Zenon
  DEF st_usleep, st_poll, FailInterrupted, SleepBlock, PollBlock
<1>9. ASSUME NEW t \in Threads, NEW c \in Conds, NEW timeout, st_cond_timedwait(t, c, timeout)
      PROVE  ActiveCountExact'
  BY <1>1, <1>7, <1>9, Zenon DEF st_cond_timedwait, FailInterrupted, CondBlock
<1>10. ASSUME NEW t \in Threads, NEW m \in Mutexes,
              \/ st_mutex_lock(t, m) \/ st_mutex_trylock(t, m) \/ st_mutex_unlock(t, m)
              \/ st_mutex_new(t, m) \/ st_mutex_destroy(t, m)
       PROVE  ActiveCountExact'
  BY <1>1, <1>7, <1>10, Zenon
  DEF st_mutex_lock, st_mutex_trylock, st_mutex_unlock, st_mutex_new, st_mutex_destroy,
      FailInterrupted, TakeMutex, LockBlock
<1>11. ASSUME NEW t \in Threads, NEW u \in Threads,
              st_thread_join(t, u) \/ st_thread_interrupt(t, u)
       PROVE  ActiveCountExact'
  BY <1>1, <1>7, <1>11, Zenon
  DEF st_thread_join, st_thread_interrupt, FailInterrupted, JoinZombie, CondBlock
<1>12. ASSUME NEW t \in Threads, NEW c \in Conds,
              \/ st_cond_new(t, c) \/ st_cond_destroy(t, c)
              \/ st_cond_signal(t, c) \/ st_cond_broadcast(t, c)
       PROVE  ActiveCountExact'
  BY <1>1, <1>12, Zenon DEF st_cond_new, st_cond_destroy, st_cond_signal, st_cond_broadcast
<1>13. ASSUME NEW t \in Threads, Call(t) PROVE ActiveCountExact'
  BY <1>5, <1>6, <1>8, <1>9, <1>10, <1>11, <1>12, <1>13, Zenon DEF Call
<1> QED BY <1>3, <1>4, <1>13 DEF Next

(* _st_active_count counts the threads that have not exited, so the idle   *)
(* thread ends the process neither early nor never.                        *)
THEOREM ActiveCountCorrect == Spec => []ActiveCountExact
<1>1. Init => ActiveCountExact
  <2> SUFFICES ASSUME Init PROVE ActiveCountExact
    OBVIOUS
  <2>1. {t \in Threads : Exists(t) /\ pc[t] # "zombie"} = {Primordial}
    BY VpAssumption DEF Init, Exists
  <2>2. activeCount = 1 /\ Cardinality({Primordial}) = 1
    BY FS_Singleton, Zenon DEF Init
  <2> QED BY <2>1, <2>2 DEF ActiveCountExact
<1> QED BY <1>1, TypeCorrect, NextActive, PTL DEF Spec
-----------------------------------------------------------------------------
(* The threads that a wakeup makes runnable, and what happened to them. *)
LEMMA Wakeup ==
  ASSUME TypeOK, NEW w \in Seq(Threads), NEW st, NEW why, MakeRunnable(st, w, why)
  PROVE  /\ Elems(w) \subseteq Threads
         /\ \A v \in Threads :
              /\ state'[v] = IF v \in Elems(w) THEN "RUNNABLE" ELSE st[v]
              /\ woken'[v] = IF v \in Elems(w) THEN why ELSE woken[v]
BY ElemsOfSeq, Zenon DEF MakeRunnable, AllThreads

LEMMA WakeupOfOne ==
  ASSUME NEW u \in Threads, NEW why, MakeRunnable(state, <<u>>, why)
  PROVE  \A v \in Threads : /\ state'[v] = IF v = u THEN "RUNNABLE" ELSE state[v]
                            /\ woken'[v] = IF v = u THEN why ELSE woken[v]
<1>1. Elems(<<u>>) = {u}
  BY SingletonElems
<1> QED BY <1>1, Zenon DEF MakeRunnable, AllThreads

(* st_cond_signal and st_cond_broadcast. *)
LEMMA SignalWakes ==
  ASSUME TypeOK, NEW t \in Threads, NEW c \in Conds,
         st_cond_signal(t, c) \/ st_cond_broadcast(t, c)
  PROVE  \E W \in SUBSET Threads :
           /\ W \subseteq Elems(waitq[c])
           /\ DOMAIN sleepq' = DOMAIN sleepq \ W
           /\ \A v \in W : state[v] = "COND_WAIT"
           /\ \A v \in Threads :
                /\ state'[v] = IF v \in W THEN "RUNNABLE" ELSE state[v]
                /\ woken'[v] = IF v \in W THEN "signal" ELSE woken[v]
<1>1. waitq[c] \in Seq(Threads)
  BY DEF TypeOK, Waitables
<1>2. PICK w \in Seq(Threads) : /\ Elems(w) \subseteq WaitersIn(waitq[c], "COND_WAIT")
                                /\ sleepq' = DelSleepq(Elems(w))
                                /\ MakeRunnable(state, w, "signal")
  <2>1. CASE st_cond_signal(t, c)
    BY <1>1, <2>1, FirstInFound, Zenon DEF st_cond_signal
  <2>2. CASE st_cond_broadcast(t, c)
    BY <1>1, <2>2, AllInFound, Zenon DEF st_cond_broadcast
  <2> QED BY <2>1, <2>2
<1>3. /\ Elems(w) \subseteq Elems(waitq[c])
      /\ \A v \in Elems(w) : state[v] = "COND_WAIT"
      /\ DOMAIN sleepq' = DOMAIN sleepq \ Elems(w)
  BY <1>2, Zenon DEF WaitersIn, DelSleepq
<1> Elems(w) \in SUBSET Threads
  BY <1>2, ElemsOfSeq, Zenon
<1> WITNESS Elems(w) \in SUBSET Threads
<1> QED BY <1>2, <1>3, Wakeup, Zenon

(* The signal of an exiting thread to its joiner. *)
LEMMA ExitWakes ==
  ASSUME TypeOK, NEW t \in Threads, ExitJoinable(t), state[t] = "RUNNING"
  PROVE  \E W \in SUBSET Threads :
           /\ W \subseteq Elems(waitq[t])
           /\ DOMAIN sleepq' = DOMAIN sleepq \ W
           /\ t \notin W
           /\ \A v \in W : state[v] = "COND_WAIT"
           /\ \A v \in Threads :
                /\ state'[v] = IF v \in W THEN "RUNNABLE"
                               ELSE IF v = t THEN "ZOMBIE" ELSE state[v]
                /\ woken'[v] = IF v \in W THEN "signal" ELSE woken[v]
<1>1. waitq[t] \in Seq(Threads)
  BY DEF TypeOK, Waitables
<1> DEFINE st == [state EXCEPT ![t] = "ZOMBIE"]
<1>2. PICK w \in FirstIn(waitq[t], "COND_WAIT") :
        sleepq' = DelSleepq(Elems(w)) /\ MakeRunnable(st, w, "signal")
  BY Zenon DEF ExitJoinable
<1>3. w \in Seq(Threads) /\ Elems(w) \subseteq WaitersIn(waitq[t], "COND_WAIT")
  BY <1>1, FirstInFound, SMTT(30)
<1>4. /\ Elems(w) \subseteq Elems(waitq[t])
      /\ \A v \in Elems(w) : state[v] = "COND_WAIT"
      /\ DOMAIN sleepq' = DOMAIN sleepq \ Elems(w)
  BY <1>2, <1>3, Zenon DEF WaitersIn, DelSleepq
<1>5. \A v \in Threads : st[v] = IF v = t THEN "ZOMBIE" ELSE state[v]
  BY Zenon DEF TypeOK, AllThreads
<1> HIDE DEF st
<1>6. /\ Elems(w) \subseteq Threads
      /\ \A v \in Threads :
           /\ state'[v] = IF v \in Elems(w) THEN "RUNNABLE" ELSE st[v]
           /\ woken'[v] = IF v \in Elems(w) THEN "signal" ELSE woken[v]
  BY <1>2, <1>3, Wakeup, Zenon
<1> Elems(w) \in SUBSET Threads
  BY <1>6, Zenon
<1> WITNESS Elems(w) \in SUBSET Threads
<1> QED BY <1>4, <1>5, <1>6, Zenon

(* The threads the dispatch function finds ready. *)
LEMMA DispatchWakes ==
  ASSUME SchedInv, NEW ready \in SUBSET Elems(ioq), Dispatch(ready)
  PROVE  /\ ready \subseteq Threads
         /\ Elems(ioq') = Elems(ioq) \ ready
         /\ DOMAIN sleepq' = DOMAIN sleepq \ ready
         /\ \A v \in ready : state[v] = "IO_WAIT"
         /\ \A v \in Threads :
              /\ state'[v] = IF v \in ready THEN "RUNNABLE" ELSE state[v]
              /\ woken'[v] = IF v \in ready THEN "io" ELSE woken[v]
<1>1. /\ current = Idle /\ idle = "idle"
      /\ ioq' \in Arrangements(Elems(ioq) \ ready, Position(ioq))
  BY Zenon DEF Dispatch
<1>2. PICK w \in Arrangements(ready, Position(ioq)) :
        sleepq' = DelSleepq(Elems(w)) /\ MakeRunnable(state, w, "io")
  BY Zenon DEF Dispatch
<1>3. TypeOK /\ ioq \in Seq(Threads) /\ Elems(ioq) \subseteq Threads
  BY ElemsOfSeq, Zenon DEF SchedInv, TypeOK
<1>4. /\ w \in Seq(Threads) /\ Elems(w) = ready
      /\ Elems(ioq') = Elems(ioq) \ ready
  <2>1. /\ ready \in SUBSET Threads /\ Elems(ioq) \ ready \in SUBSET Threads
        /\ IsFiniteSet(Threads)
    BY <1>3, VpAssumption
  <2>2. w \in Seq(Threads) /\ Elems(w) = ready
    BY <1>2, <2>1, ArrangementElems, VpAssumption, Zenon
  <2>3. Elems(ioq') = Elems(ioq) \ ready
    BY <1>1, <2>1, ArrangementElems
  <2> QED BY <2>2, <2>3
<1>5. DispatchFindsWaiters
  BY SchedDispatch
<1>6. \A v \in ready : state[v] = "IO_WAIT"
  BY <1>1, <1>5, Zenon DEF DispatchFindsWaiters
<1>7. DOMAIN sleepq' = DOMAIN sleepq \ ready
  BY <1>2, <1>4, Zenon DEF DelSleepq
<1>8. \A v \in Threads : /\ state'[v] = IF v \in ready THEN "RUNNABLE" ELSE state[v]
                         /\ woken'[v] = IF v \in ready THEN "io" ELSE woken[v]
  <2>1. \A v \in Threads : /\ state'[v] = IF v \in Elems(w) THEN "RUNNABLE" ELSE state[v]
                           /\ woken'[v] = IF v \in Elems(w) THEN "io" ELSE woken[v]
    BY <1>2, <1>3, <1>4, Wakeup, ZenonT(40)
  <2> QED BY <1>4, <2>1
<1> QED BY <1>3, <1>4, <1>6, <1>7, <1>8, Zenon

(* The threads _st_vp_check_clock finds due. *)
LEMMA ClockWakes ==
  ASSUME SchedInv, NEW elapsed \in Elapsed, CheckClock(elapsed)
  PROVE  \E W \in SUBSET Threads :
           /\ DOMAIN sleepq' = DOMAIN sleepq \ W
           /\ W \subseteq DOMAIN sleepq
           /\ timedout' = timedout \cup {v \in W : state[v] = "COND_WAIT"}
           /\ \A v \in W : state[v] \in {"SLEEPING", "COND_WAIT", "IO_WAIT"}
           /\ \A v \in Threads :
                /\ state'[v] = IF v \in W THEN "RUNNABLE" ELSE state[v]
                /\ woken'[v] = IF v \in W THEN "clock" ELSE woken[v]
<1> DEFINE expired == Expired(elapsed)
           st == [state EXCEPT ![Idle] = "RUNNABLE"]
<1>1. /\ sleepq' = [t \in DOMAIN sleepq \ expired |-> sleepq[t] - elapsed]
      /\ timedout' = timedout \cup {v \in expired : state[v] = "COND_WAIT"}
  BY Zenon DEF CheckClock, HeapAfter, TimedOutAfter
<1>2. PICK w \in Arrangements(expired, sleepq) : MakeRunnable(st, w, "clock")
  BY Zenon DEF CheckClock, IdleRunnable
<1>3. DOMAIN sleepq' = DOMAIN sleepq \ expired /\ expired \subseteq DOMAIN sleepq
  BY <1>1, Zenon DEF Expired
<1>4. \A v \in Threads : st[v] = state[v]
  BY VpAssumption, Zenon DEF SchedInv, TypeOK, AllThreads
<1> HIDE DEF expired, st
<1>5. expired \subseteq Threads /\ \A v \in expired : state[v] \in {"SLEEPING", "COND_WAIT", "IO_WAIT"}
  BY <1>3, Zenon DEF SchedInv, TypeOK, QueueInv, SleepersBlocked
<1>6. TypeOK /\ w \in Seq(Threads) /\ Elems(w) = expired
  BY <1>5, ArrangementElems, VpAssumption, Zenon DEF SchedInv
<1>7. \A v \in Threads : /\ state'[v] = IF v \in expired THEN "RUNNABLE" ELSE st[v]
                         /\ woken'[v] = IF v \in expired THEN "clock" ELSE woken[v]
  BY <1>2, <1>6, Wakeup, ZenonT(60)
<1> expired \in SUBSET Threads
  BY <1>5, Zenon
<1> WITNESS expired \in SUBSET Threads
<1> QED BY <1>1, <1>3, <1>4, <1>5, <1>7, Zenon

(* st_thread_interrupt of a thread that runs or is runnable, or is blocked.*)
LEMMA InterruptWakes ==
  ASSUME SchedInv, NEW t \in Threads, NEW u \in Threads, st_thread_interrupt(t, u)
  PROVE  \/ UNCHANGED <<state, woken, sleepq>>
         \/ /\ state[u] \in {"IO_WAIT", "LOCK_WAIT", "COND_WAIT", "SLEEPING", "SUSPENDED"}
            /\ DOMAIN sleepq' = DOMAIN sleepq \ {u}
            /\ \A v \in Threads :
                 /\ state'[v] = IF v = u THEN "RUNNABLE" ELSE state[v]
                 /\ woken'[v] = IF v = u THEN "interrupt" ELSE woken[v]
<1>1. CASE UNCHANGED <<state, runq, sleepq, woken>>
  BY <1>1
<1>2. CASE /\ state[u] \notin {"RUNNING", "RUNNABLE"}
           /\ sleepq' = DelSleepq({u})
           /\ MakeRunnable(state, <<u>>, "interrupt")
  <2>1. state[u] \in States /\ state[u] # "ZOMBIE" /\ pc[u] \notin {"unborn", "freed"}
    BY Zenon DEF SchedInv, TypeOK, AllThreads, st_thread_interrupt, Exists
  <2>2. state[u] # "NONE"
    BY <2>1, Zenon DEF SchedInv, QueueInv, StateFitsPlace
  <2>3. state[u] \in {"IO_WAIT", "LOCK_WAIT", "COND_WAIT", "SLEEPING", "SUSPENDED"}
    BY <1>2, <2>1, <2>2, Zenon DEF States
  <2>4. \A v \in Threads : /\ state'[v] = IF v = u THEN "RUNNABLE" ELSE state[v]
                           /\ woken'[v] = IF v = u THEN "interrupt" ELSE woken[v]
    BY <1>2, WakeupOfOne, Zenon
  <2>5. DOMAIN sleepq' = DOMAIN sleepq \ {u}
    BY <1>2, Zenon DEF DelSleepq
  <2> QED BY <2>3, <2>4, <2>5
<1> QED BY <1>1, <1>2, Zenon DEF st_thread_interrupt

(* The end of st_thread_join. *)
LEMMA ReapWakes ==
  ASSUME NEW u \in Threads, Reap(u)
  PROVE  /\ state[u] = "ZOMBIE"
         /\ \A v \in Threads :
              /\ state'[v] = IF v = u THEN "RUNNABLE" ELSE state[v]
              /\ woken'[v] = IF v = u THEN "reap" ELSE woken[v]
BY WakeupOfOne, Zenon DEF Reap

(* A call blocks. *)
LEMMA BlockEffect ==
  ASSUME TypeOK, NEW t \in Threads, NEW st, NEW place, NEW timeout,
         Block(t, st, place, timeout)
  PROVE  /\ \A v \in Threads : /\ state'[v] = IF v = t THEN st ELSE state[v]
                               /\ pc'[v] = IF v = t THEN place ELSE pc[v]
         /\ DOMAIN sleepq' = IF timeout = NoTimeout THEN DOMAIN sleepq
                             ELSE DOMAIN sleepq \cup {t}
<1>1. \A v \in Threads : /\ state'[v] = IF v = t THEN st ELSE state[v]
                         /\ pc'[v] = IF v = t THEN place ELSE pc[v]
  BY Zenon DEF TypeOK, Block, AllThreads
<1>2. DOMAIN sleepq' = IF timeout = NoTimeout THEN DOMAIN sleepq
                       ELSE DOMAIN sleepq \cup {t}
  BY DEF Block
<1> QED BY <1>1, <1>2

(* A call returns. *)
LEMMA ReturnEffect ==
  ASSUME TypeOK, NEW t \in Threads, Return(t)
  PROVE  \A v \in Threads : /\ pc'[v] = IF v = t THEN "run" ELSE pc[v]
                            /\ obj'[v] = IF v = t THEN None ELSE obj[v]
BY Zenon DEF TypeOK, Return

LEMMA WokenReset ==
  ASSUME TypeOK, NEW t \in Threads, woken' = [woken EXCEPT ![t] = "none"]
  PROVE  \A v \in Threads : woken'[v] = IF v = t THEN "none" ELSE woken[v]
BY Zenon DEF TypeOK

(* The running thread, in the words of its state. *)
LEMMA CurrentRuns ==
  ASSUME SchedInv, NEW t \in Threads, current = t
  PROVE  state[t] = "RUNNING" /\ t \notin DOMAIN sleepq
BY Zenon DEF SchedInv, QueueInv, RunningIsCurrent, SleepersBlocked, AllThreads
-----------------------------------------------------------------------------
(* A step that has nothing to do with mutexes: threads inside a wait for   *)
(* one stay as they are, except that an interrupt may be added.            *)
MutexUntouched ==
  /\ UNCHANGED <<owner, holds>>
  /\ Mutexes \cap objects \subseteq objects'
  /\ \A t \in Threads :
       /\ pc'[t] = "mutex" <=> pc[t] = "mutex"
       /\ pc[t] = "mutex" =>
            /\ obj'[t] = obj[t]
            /\ state'[t] = "LOCK_WAIT" <=> state[t] = "LOCK_WAIT"
            /\ woken'[t] = woken[t]
            /\ t \in interrupted => t \in interrupted'
       /\ pc[t] # "mutex" => woken'[t] = woken[t] \/ woken'[t] # "handoff"

LEMMA MutexFrame ==
  ASSUME MutexInv, MutexUntouched PROVE MutexInv'
<1>1. OwnerKnows'
  <2> SUFFICES ASSUME NEW m \in Mutexes, NEW t \in Threads
               PROVE  owner'[m] = t <=>
                        \/ t \in holds'[m]
                        \/ pc'[t] = "mutex" /\ obj'[t] = m /\ woken'[t] = "handoff"
    BY Zenon DEF OwnerKnows
  <2>1. owner[m] = t <=> \/ t \in holds[m]
                         \/ pc[t] = "mutex" /\ obj[t] = m /\ woken[t] = "handoff"
    BY Zenon DEF MutexInv, OwnerKnows
  <2> QED BY <2>1, Zenon DEF MutexUntouched
<1>2. MutexWaits'
  <2>1. ASSUME NEW t \in Threads
        PROVE  /\ pc'[t] = "mutex" => t \notin holds'[obj'[t]]
               /\ pc'[t] = "mutex" /\ state'[t] = "LOCK_WAIT" => owner'[obj'[t]] # None
               /\ pc'[t] = "mutex" /\ state'[t] # "LOCK_WAIT" =>
                    woken'[t] = "handoff" \/ (woken'[t] = "interrupt" /\ t \in interrupted')
               /\ woken'[t] = "handoff" => pc'[t] = "mutex" /\ state'[t] # "LOCK_WAIT"
    <3>1. CASE pc[t] = "mutex"
      BY <3>1, Zenon DEF MutexInv, MutexWaits, MutexUntouched
    <3>2. CASE pc[t] # "mutex"
      BY <3>2, Zenon DEF MutexInv, MutexWaits, MutexUntouched
    <3> QED BY <3>1, <3>2
  <2>2. \A m \in Mutexes \ objects' : owner'[m] = None
    BY Zenon DEF MutexInv, MutexWaits, MutexUntouched
  <2> QED BY <2>1, <2>2, Zenon DEF MutexWaits
<1> QED BY <1>1, <1>2 DEF MutexInv

(* The steps that are no business of a mutex. *)
LEMMA OtherSteps ==
  ASSUME SchedInv,
         \/ Schedule \/ IdleStep
         \/ \E t \in Threads :
              \/ FailInterrupted(t) /\ pc[t] = "run"
              \/ \E timeout : st_usleep(t, timeout) \/ st_poll(t, timeout)
              \/ \E c \in Conds : \E timeout : st_cond_timedwait(t, c, timeout)
              \/ \E c \in Conds : \/ st_cond_new(t, c) \/ st_cond_destroy(t, c)
                                  \/ st_cond_signal(t, c) \/ st_cond_broadcast(t, c)
              \/ \E u \in Threads : \/ st_thread_join(t, u)
                                    \/ \E joinable \in BOOLEAN : st_thread_create(t, u, joinable)
              \/ ExitDetached(t) \/ ExitJoinable(t)
              \/ UsleepReturn(t) \/ CondReturn(t) \/ JoinReturn(t)
              \/ PollReturn(t) \/ ZombieResume(t)
  PROVE  MutexUntouched
<1> USE VpAssumption
<1>0. TypeOK
  BY DEF SchedInv
<1>1. \A v \in Threads :
        pc[v] = "mutex" => state[v] \in {"LOCK_WAIT", "RUNNABLE", "RUNNING"}
  BY ZenonT(40) DEF SchedInv, TypeOK, QueueInv, StateFitsPlace, States, AllThreads
<1>2. ASSUME NEW t \in Threads, FailInterrupted(t), pc[t] = "run" PROVE MutexUntouched
  BY <1>2, Zenon DEF FailInterrupted, MutexUntouched
<1>3. CASE Schedule
  <2>1. /\ state' = [state EXCEPT ![NextThread] = "RUNNING"]
        /\ UNCHANGED <<pc, obj, interrupted, owner, holds, objects, woken>>
    BY <1>3, Zenon DEF Schedule
  <2>2. state[NextThread] = "RUNNABLE"
    BY <1>3, SchedNext, Zenon DEF Schedule, NextIsRunnable
  <2>3. \A v \in Threads : state'[v] = "LOCK_WAIT" <=> state[v] = "LOCK_WAIT"
    <3>1. \A v \in Threads : state'[v] = IF v = NextThread THEN "RUNNING" ELSE state[v]
      BY <1>0, <2>1, Zenon DEF TypeOK, AllThreads
    <3> QED BY <2>2, <3>1
  <2> QED BY <2>1, <2>3, Zenon DEF MutexUntouched
<1>4. CASE IdleStep
  <2>1. ASSUME NEW ready \in SUBSET Elems(ioq), Dispatch(ready) PROVE MutexUntouched
    <3>1. UNCHANGED <<pc, obj, interrupted, owner, holds, objects>>
      BY <2>1, Zenon DEF Dispatch
    <3>2. /\ \A v \in ready : state[v] = "IO_WAIT"
          /\ \A v \in Threads :
               /\ state'[v] = IF v \in ready THEN "RUNNABLE" ELSE state[v]
               /\ woken'[v] = IF v \in ready THEN "io" ELSE woken[v]
      BY <2>1, DispatchWakes, Zenon
    <3> QED BY <1>1, <3>1, <3>2, ZenonT(40) DEF MutexUntouched
  <2>2. ASSUME NEW elapsed \in Elapsed, CheckClock(elapsed) PROVE MutexUntouched
    <3>1. UNCHANGED <<pc, obj, interrupted, owner, holds, objects>>
      BY <2>2, Zenon DEF CheckClock
    <3>2. PICK W \in SUBSET Threads :
            /\ \A v \in W : state[v] \in {"SLEEPING", "COND_WAIT", "IO_WAIT"}
            /\ \A v \in Threads :
                 /\ state'[v] = IF v \in W THEN "RUNNABLE" ELSE state[v]
                 /\ woken'[v] = IF v \in W THEN "clock" ELSE woken[v]
      BY <2>2, ClockWakes, Zenon
    <3> QED BY <1>1, <3>1, <3>2, ZenonT(40) DEF MutexUntouched
  <2>3. CASE IdleExit
    BY <2>3, Zenon DEF IdleExit, MutexUntouched
  <2> QED BY <1>4, <2>1, <2>2, <2>3, Zenon DEF IdleStep
<1>5. ASSUME NEW t \in Threads, pc[t] # "mutex", NEW st, st # "LOCK_WAIT",
             NEW place, place # "mutex", NEW timeout, Block(t, st, place, timeout),
             \A v \in Threads \ {t} : obj'[v] = obj[v],
             UNCHANGED <<interrupted, owner, holds, objects, woken>>
      PROVE  MutexUntouched
  <2>1. \A v \in Threads : /\ state'[v] = IF v = t THEN st ELSE state[v]
                           /\ pc'[v] = IF v = t THEN place ELSE pc[v]
    BY <1>0, <1>5, BlockEffect, Zenon
  <2>2. ASSUME NEW v \in Threads
        PROVE  /\ pc'[v] = "mutex" <=> pc[v] = "mutex"
               /\ pc[v] = "mutex" => /\ obj'[v] = obj[v]
                                     /\ state'[v] = "LOCK_WAIT" <=> state[v] = "LOCK_WAIT"
    BY <1>5, <2>1, ZenonT(40)
  <2> QED BY <1>5, <2>2, Zenon DEF MutexUntouched
<1>6. ASSUME NEW t \in Threads, NEW c \in Waitables, NEW place \in {"cond", "join"},
             NEW timeout, Calling(t), CondBlock(t, c, place, timeout)
      PROVE  MutexUntouched
  <2>1. /\ pc[t] # "mutex" /\ Block(t, "COND_WAIT", place, timeout)
        /\ UNCHANGED <<interrupted, owner, holds, objects, woken>>
    BY <1>6, Zenon DEF CondBlock, Calling
  <2>2. \A v \in Threads \ {t} : obj'[v] = obj[v]
    BY <1>0, <1>6, Zenon DEF CondBlock, TypeOK
  <2> QED BY <1>5, <1>6, <2>1, <2>2
<1>7. ASSUME NEW t \in Threads, NEW timeout, st_usleep(t, timeout) \/ st_poll(t, timeout)
      PROVE  MutexUntouched
  <2>1. pc[t] = "run"
    BY <1>7, Zenon DEF st_usleep, st_poll, Calling
  <2>2. CASE SleepBlock(t, timeout)
    <3>1. /\ \/ Block(t, "SUSPENDED", "usleep", timeout)
             \/ Block(t, "SLEEPING", "usleep", timeout)
          /\ UNCHANGED <<obj, interrupted, owner, holds, objects, woken>>
      BY <2>2 DEF SleepBlock
    <3> QED BY <1>5, <2>1, <3>1
  <2>3. CASE PollBlock(t, timeout)
    <3>1. /\ Block(t, "IO_WAIT", "poll", timeout)
          /\ UNCHANGED <<obj, interrupted, owner, holds, objects, woken>>
      BY <2>3, Zenon DEF PollBlock
    <3> QED BY <1>5, <2>1, <3>1
  <2> QED BY <1>2, <1>7, <2>1, <2>2, <2>3, Zenon DEF st_usleep, st_poll
<1>8. ASSUME NEW t \in Threads, NEW c \in Conds, NEW timeout, st_cond_timedwait(t, c, timeout)
      PROVE  MutexUntouched
  BY <1>2, <1>6, <1>8, Zenon DEF st_cond_timedwait, Calling, Waitables
<1>9. ASSUME NEW t \in Threads, NEW c \in Conds, st_cond_new(t, c) \/ st_cond_destroy(t, c)
      PROVE  MutexUntouched
  BY <1>9, Zenon DEF st_cond_new, st_cond_destroy, MutexUntouched
<1>10. ASSUME NEW t \in Threads, NEW c \in Conds,
              st_cond_signal(t, c) \/ st_cond_broadcast(t, c)
       PROVE  MutexUntouched
  <2>1. UNCHANGED <<pc, obj, interrupted, owner, holds, objects>>
    BY <1>10, Zenon DEF st_cond_signal, st_cond_broadcast
  <2>2. PICK W \in SUBSET Threads :
          /\ \A v \in W : state[v] = "COND_WAIT"
          /\ \A v \in Threads :
               /\ state'[v] = IF v \in W THEN "RUNNABLE" ELSE state[v]
               /\ woken'[v] = IF v \in W THEN "signal" ELSE woken[v]
    BY <1>0, <1>10, SignalWakes, Zenon
  <2> QED BY <1>1, <2>1, <2>2, ZenonT(40) DEF MutexUntouched
<1>11. ASSUME NEW t \in Threads, NEW u \in Threads, st_thread_join(t, u)
       PROVE  MutexUntouched
  <2>1. Calling(t) /\ pc[t] = "run" /\ u \in Waitables
    BY <1>11, Zenon DEF st_thread_join, Calling, Waitables
  <2>2. CASE JoinZombie(u)
    <3>1. Reap(u) /\ UNCHANGED <<pc, obj, interrupted, owner, holds, objects>>
      BY <2>2, Zenon DEF JoinZombie
    <3> QED BY <1>1, <3>1, ReapWakes, ZenonT(40) DEF MutexUntouched
  <2> QED BY <1>2, <1>6, <1>11, <2>1, <2>2, Zenon DEF st_thread_join
<1>12. ASSUME NEW t \in Threads, NEW u \in Threads, NEW joinable \in BOOLEAN,
              st_thread_create(t, u, joinable)
       PROVE  MutexUntouched
  <2>1. /\ pc[u] = "unborn"
        /\ \A v \in Threads : /\ pc'[v] = IF v = u THEN "run" ELSE pc[v]
                              /\ state'[v] = IF v = u THEN "RUNNABLE" ELSE state[v]
        /\ UNCHANGED <<obj, interrupted, owner, holds, objects, woken>>
    BY <1>0, <1>12, Zenon DEF st_thread_create, TypeOK, AllThreads
  <2> QED BY <2>1, ZenonT(40) DEF MutexUntouched
<1>13. ASSUME NEW t \in Threads, ExitDetached(t) \/ ZombieResume(t)
       PROVE  MutexUntouched
  <2>1. /\ pc[t] # "mutex" /\ FreeThread(t)
        /\ UNCHANGED <<obj, interrupted, owner, holds, objects, woken>>
    BY <1>13, Zenon DEF ExitDetached, ZombieResume, Calling, Resumed
  <2>2. \A v \in Threads : /\ pc'[v] = IF v = t THEN "freed" ELSE pc[v]
                           /\ state'[v] = IF v = t THEN "NONE" ELSE state[v]
    BY <1>0, <2>1, Zenon DEF FreeThread, TypeOK, AllThreads
  <2> QED BY <2>1, <2>2, ZenonT(40) DEF MutexUntouched
<1>14. ASSUME NEW t \in Threads, ExitJoinable(t) PROVE MutexUntouched
  <2>1. /\ pc[t] = "run" /\ current = t
        /\ \A v \in Threads : pc'[v] = IF v = t THEN "zombie" ELSE pc[v]
        /\ UNCHANGED <<obj, interrupted, owner, holds, objects>>
    BY <1>0, <1>14, Zenon DEF ExitJoinable, Calling, TypeOK
  <2>2. PICK W \in SUBSET Threads :
          /\ \A v \in W : state[v] = "COND_WAIT"
          /\ \A v \in Threads :
               /\ state'[v] = IF v \in W THEN "RUNNABLE"
                              ELSE IF v = t THEN "ZOMBIE" ELSE state[v]
               /\ woken'[v] = IF v \in W THEN "signal" ELSE woken[v]
    <3>1. state[t] = "RUNNING"
      BY <2>1, CurrentRuns, Zenon
    <3> QED BY <1>0, <1>14, <3>1, ExitWakes, ZenonT(60)
  <2> QED BY <1>1, <2>1, <2>2, ZenonT(40) DEF MutexUntouched
<1>15. ASSUME NEW t \in Threads, pc[t] # "mutex", Return(t),
              woken' = [woken EXCEPT ![t] = "none"], interrupted' = interrupted \ {t},
              UNCHANGED <<state, owner, holds, objects>>
       PROVE  MutexUntouched
  <2>1. ASSUME NEW v \in Threads
        PROVE  /\ pc'[v] = "mutex" <=> pc[v] = "mutex"
               /\ pc[v] = "mutex" => /\ obj'[v] = obj[v]
                                     /\ woken'[v] = woken[v]
                                     /\ v \in interrupted => v \in interrupted'
               /\ woken'[v] = woken[v] \/ woken'[v] # "handoff"
    <3>1. /\ pc'[v] = IF v = t THEN "run" ELSE pc[v]
          /\ obj'[v] = IF v = t THEN None ELSE obj[v]
          /\ woken'[v] = IF v = t THEN "none" ELSE woken[v]
      BY <1>0, <1>15, ReturnEffect, WokenReset, ZenonT(60)
    <3> QED BY <1>15, <3>1
  <2> QED BY <1>15, <2>1, Zenon DEF MutexUntouched
<1>16. ASSUME NEW t \in Threads, UsleepReturn(t) \/ CondReturn(t) \/ PollReturn(t)
       PROVE  MutexUntouched
  BY <1>15, <1>16, Zenon DEF UsleepReturn, CondReturn, CondUnblock, PollReturn, Resumed
<1>17. ASSUME NEW t \in Threads, JoinReturn(t) PROVE MutexUntouched
  <2>1. /\ pc[t] = "join" /\ current = t /\ obj[t] \in Threads
        /\ UNCHANGED <<owner, holds, objects>>
    BY <1>17, Zenon DEF JoinReturn, Resumed, SchedInv, WaitsForItsKind
  <2>2. CASE JoinFail(t)
    BY <1>15, <2>1, <2>2, Zenon DEF JoinFail, CondUnblock
  <2>3. CASE JoinSucceed(t)
    <3>1. Return(t) /\ Reap(obj[t]) /\ interrupted' = interrupted \ {t}
      BY <2>3, Zenon DEF JoinSucceed, CondUnblock
    <3>2. /\ state[obj[t]] = "ZOMBIE"
          /\ \A v \in Threads :
               /\ state'[v] = IF v = obj[t] THEN "RUNNABLE" ELSE state[v]
               /\ woken'[v] = IF v = obj[t] THEN "reap" ELSE woken[v]
      BY <2>1, <3>1, ReapWakes, Zenon
    <3>3. \A v \in Threads : /\ pc'[v] = IF v = t THEN "run" ELSE pc[v]
                             /\ obj'[v] = IF v = t THEN None ELSE obj[v]
      BY <1>0, <3>1, ReturnEffect, Zenon
    <3> QED BY <1>1, <2>1, <3>1, <3>2, <3>3, ZenonT(40) DEF MutexUntouched
  <2>4. CASE JoinWaitAgain(t)
    <3>1. /\ \A v \in Threads : state'[v] = IF v = t THEN "COND_WAIT" ELSE state[v]
          /\ UNCHANGED <<pc, obj, interrupted, woken>>
      BY <1>0, <2>4, Zenon DEF JoinWaitAgain, TypeOK, AllThreads
    <3> QED BY <2>1, <3>1, ZenonT(40) DEF MutexUntouched
  <2> QED BY <1>17, <2>2, <2>3, <2>4, Zenon DEF JoinReturn
<1> QED
  BY <1>2, <1>3, <1>4, <1>7, <1>8, <1>9, <1>10, <1>11, <1>12, <1>13, <1>14, <1>16, <1>17, Zenon

(* Taking a free mutex, in st_mutex_lock and st_mutex_trylock. *)
LEMMA TakeKeeps ==
  ASSUME TypeOK, WaitsForItsKind, MutexInv, NEW t \in Threads, NEW m \in Mutexes,
         m \in objects, pc[t] = "run", TakeMutex(t, m)
  PROVE  MutexInv'
<1> USE VpAssumption
<1>1. /\ owner[m] = None
      /\ \A k \in Mutexes : /\ owner'[k] = IF k = m THEN t ELSE owner[k]
                            /\ holds'[k] = IF k = m THEN holds[m] \cup {t} ELSE holds[k]
      /\ UNCHANGED <<state, pc, obj, interrupted, woken, objects>>
  BY Zenon DEF TakeMutex, TypeOK
<1>2. OwnerKnows'
  <2> SUFFICES ASSUME NEW k \in Mutexes, NEW u \in Threads
               PROVE  owner'[k] = u <=>
                        \/ u \in holds'[k]
                        \/ pc[u] = "mutex" /\ obj[u] = k /\ woken[u] = "handoff"
    BY <1>1 DEF OwnerKnows
  <2>1. owner[k] = u <=> \/ u \in holds[k]
                         \/ pc[u] = "mutex" /\ obj[u] = k /\ woken[u] = "handoff"
    BY DEF MutexInv, OwnerKnows
  <2>2. u # None
    OBVIOUS
  <2> QED BY <1>1, <2>1, <2>2
<1>3. MutexWaits'
  <2>1. ASSUME NEW u \in Threads, pc[u] = "mutex"
        PROVE  u \notin holds'[obj[u]] /\ (state[u] = "LOCK_WAIT" => owner'[obj[u]] # None)
    <3>1. obj[u] \in Mutexes /\ u # t /\ t # None
      BY <2>1, Zenon DEF WaitsForItsKind
    <3>2. u \notin holds[obj[u]] /\ (state[u] = "LOCK_WAIT" => owner[obj[u]] # None)
      BY <2>1, Zenon DEF MutexInv, MutexWaits
    <3> QED BY <1>1, <3>1, <3>2
  <2>2. \A k \in Mutexes \ objects : owner'[k] = None
    BY <1>1, Zenon DEF MutexInv, MutexWaits
  <2> QED BY <1>1, <2>1, <2>2, Zenon DEF MutexInv, MutexWaits
<1> QED BY <1>2, <1>3 DEF MutexInv

(* Queueing for a mutex another thread owns. *)
LEMMA LockBlockKeeps ==
  ASSUME TypeOK, WaitsForItsKind, MutexInv, NEW t \in Threads, NEW m \in Mutexes,
         pc[t] = "run", LockBlock(t, m)
  PROVE  MutexInv'
<1>1. /\ owner[m] # None /\ owner[m] # t
      /\ Block(t, "LOCK_WAIT", "mutex", NoTimeout)
      /\ obj' = [obj EXCEPT ![t] = m]
      /\ UNCHANGED <<owner, holds, woken, interrupted, objects>>
  BY Zenon DEF LockBlock
<1>2. \A v \in Threads : /\ state'[v] = IF v = t THEN "LOCK_WAIT" ELSE state[v]
                         /\ pc'[v] = IF v = t THEN "mutex" ELSE pc[v]
                         /\ obj'[v] = IF v = t THEN m ELSE obj[v]
  <2>1. \A v \in Threads : /\ state'[v] = IF v = t THEN "LOCK_WAIT" ELSE state[v]
                           /\ pc'[v] = IF v = t THEN "mutex" ELSE pc[v]
    BY <1>1, BlockEffect, Zenon
  <2>2. DOMAIN obj = Threads
    BY Zenon DEF TypeOK
  <2>3. \A v \in Threads : obj'[v] = IF v = t THEN m ELSE obj[v]
    BY <1>1, <2>2, Zenon
  <2> QED BY <2>1, <2>3, Zenon
<1>3. woken[t] # "handoff" /\ t \notin holds[m]
  BY <1>1, Zenon DEF MutexInv, MutexWaits, OwnerKnows
<1>4. OwnerKnows'
  <2> SUFFICES ASSUME NEW k \in Mutexes, NEW u \in Threads
               PROVE  owner[k] = u <=>
                        \/ u \in holds[k]
                        \/ pc'[u] = "mutex" /\ obj'[u] = k /\ woken[u] = "handoff"
    BY <1>1 DEF OwnerKnows
  <2>1. owner[k] = u <=> \/ u \in holds[k]
                         \/ pc[u] = "mutex" /\ obj[u] = k /\ woken[u] = "handoff"
    BY DEF MutexInv, OwnerKnows
  <2> QED BY <1>2, <1>3, <2>1
<1>5. MutexWaits'
  <2>1. ASSUME NEW u \in Threads
        PROVE  /\ pc'[u] = "mutex" => u \notin holds[obj'[u]]
               /\ pc'[u] = "mutex" /\ state'[u] = "LOCK_WAIT" => owner[obj'[u]] # None
               /\ pc'[u] = "mutex" /\ state'[u] # "LOCK_WAIT" =>
                    woken[u] = "handoff" \/ (woken[u] = "interrupt" /\ u \in interrupted)
               /\ woken[u] = "handoff" => pc'[u] = "mutex" /\ state'[u] # "LOCK_WAIT"
    <3>1. CASE u = t
      BY <1>1, <1>2, <1>3, <3>1
    <3>2. CASE u # t
      BY <1>2, <3>2, Zenon DEF MutexInv, MutexWaits
    <3> QED BY <3>1, <3>2
  <2> QED BY <1>1, <2>1, Zenon DEF MutexInv, MutexWaits
<1> QED BY <1>4, <1>5 DEF MutexInv

(* A thread that waited for a mutex resumes: it was handed the mutex, or   *)
(* it was interrupted and owns nothing.                                    *)
LEMMA LockResultExact ==
  ASSUME SchedInv, MutexInv, NEW t \in Threads, Resumed(t, "mutex")
  PROVE  /\ obj[t] \in Mutexes
         /\ LockResult(t) = "OK" <=> woken[t] = "handoff"
         /\ LockResult(t) = "OK" <=> owner[obj[t]] = t
         /\ t \notin holds[obj[t]]
<1>1. pc[t] = "mutex" /\ obj[t] \in Mutexes /\ state[t] = "RUNNING"
  BY CurrentRuns, Zenon DEF Resumed, SchedInv, WaitsForItsKind
<1>2. /\ t \notin holds[obj[t]]
      /\ woken[t] = "handoff" \/ (woken[t] = "interrupt" /\ t \in interrupted)
      /\ owner[obj[t]] = t <=> \/ t \in holds[obj[t]]
                              \/ woken[t] = "handoff"
  BY <1>1 DEF MutexInv, MutexWaits, OwnerKnows
<1> QED BY <1>1, <1>2 DEF LockResult

LEMMA LockReturnKeeps ==
  ASSUME SchedInv, MutexInv, NEW t \in Threads, LockReturn(t)
  PROVE  MutexInv'
<1> DEFINE m == obj[t]
<1>1. /\ m \in Mutexes /\ TypeOK /\ WaitsForItsKind
      /\ LockResult(t) = "OK" <=> owner[m] = t
      /\ t \notin holds[m]
      /\ pc[t] = "mutex"
  BY LockResultExact DEF LockReturn, Resumed, SchedInv
<1>2. \A v \in Threads : /\ pc'[v] = IF v = t THEN "run" ELSE pc[v]
                         /\ obj'[v] = IF v = t THEN None ELSE obj[v]
                         /\ woken'[v] = IF v = t THEN "none" ELSE woken[v]
  BY <1>1, ReturnEffect, WokenReset, ZenonT(60) DEF LockReturn
<1>3. \A k \in Mutexes : holds'[k] = IF k = m /\ owner[m] = t THEN holds[m] \cup {t}
                                     ELSE holds[k]
  <2>1. CASE owner[m] = t
    BY <1>1, <2>1, Zenon DEF LockReturn, TypeOK
  <2>2. CASE owner[m] # t
    BY <1>1, <2>2 DEF LockReturn
  <2> QED BY <2>1, <2>2
<1>4. /\ \A v \in Threads \ {t} : v \in interrupted => v \in interrupted'
      /\ UNCHANGED <<state, owner, objects>>
  BY Zenon DEF LockReturn
<1>5. /\ owner[m] = t <=> woken[t] = "handoff"
      /\ \A k \in Mutexes \ {m} : owner[k] = t <=> t \in holds[k]
  BY <1>1 DEF MutexInv, OwnerKnows
<1>m. m = obj[t]
  OBVIOUS
<1> HIDE DEF m
<1>6. OwnerKnows'
  <2> SUFFICES ASSUME NEW k \in Mutexes, NEW u \in Threads
               PROVE  owner[k] = u <=>
                        \/ u \in holds'[k]
                        \/ pc'[u] = "mutex" /\ obj'[u] = k /\ woken'[u] = "handoff"
    BY <1>4 DEF OwnerKnows
  <2>1. owner[k] = u <=> \/ u \in holds[k]
                         \/ pc[u] = "mutex" /\ obj[u] = k /\ woken[u] = "handoff"
    BY Zenon DEF MutexInv, OwnerKnows
  <2>2. CASE u = t
    BY <1>1, <1>2, <1>3, <1>5, <2>2
  <2>3. CASE u # t
    <3>1. u \in holds'[k] <=> u \in holds[k]
      BY <1>3, <2>3
    <3> QED BY <1>2, <2>1, <2>3, <3>1
  <2> QED BY <2>2, <2>3
<1>7. MutexWaits'
  <2>1. ASSUME NEW u \in Threads
        PROVE  /\ pc'[u] = "mutex" => u \notin holds'[obj'[u]]
               /\ pc'[u] = "mutex" /\ state[u] = "LOCK_WAIT" => owner[obj'[u]] # None
               /\ pc'[u] = "mutex" /\ state[u] # "LOCK_WAIT" =>
                    woken'[u] = "handoff" \/ (woken'[u] = "interrupt" /\ u \in interrupted')
               /\ woken'[u] = "handoff" => pc'[u] = "mutex" /\ state[u] # "LOCK_WAIT"
    <3>1. CASE u = t
      BY <1>2, <3>1
    <3>2. CASE u # t
      <4>1. pc'[u] = pc[u] /\ obj'[u] = obj[u] /\ woken'[u] = woken[u]
        BY <1>2, <3>2
      <4>2. pc[u] = "mutex" => obj[u] \in Mutexes /\ u \notin holds[obj[u]]
        BY <1>1, Zenon DEF WaitsForItsKind, MutexInv, MutexWaits
      <4>3. pc[u] = "mutex" => u \notin holds'[obj[u]]
        BY <1>3, <3>2, <4>2
      <4> QED BY <1>4, <3>2, <4>1, <4>3, Zenon DEF MutexInv, MutexWaits
    <3> QED BY <3>1, <3>2
  <2> QED BY <1>4, <2>1, Zenon DEF MutexInv, MutexWaits
<1> QED BY <1>6, <1>7 DEF MutexInv

(* The handoff in st_mutex_unlock. *)
LEMMA UnlockKeeps ==
  ASSUME SchedInv, WaitQueuesExact, MutexInv, NEW t \in Threads, NEW m \in Mutexes,
         st_mutex_unlock(t, m)
  PROVE  MutexInv'
<1> USE VpAssumption
<1>1. /\ pc[t] = "run" /\ owner[m] = t /\ m \in objects /\ TypeOK /\ m \in Waitables
      /\ UNCHANGED <<pc, obj, interrupted, objects>>
      /\ waitq[m] \in Seq(Threads)
  BY Zenon DEF st_mutex_unlock, Calling, SchedInv, TypeOK, Waitables
<1>2. PICK w \in FirstIn(waitq[m], "LOCK_WAIT") :
        /\ MakeRunnable(state, w, "handoff")
        /\ owner' = [owner EXCEPT ![m] = IF w = <<>> THEN None ELSE Head(w)]
  BY Zenon DEF st_mutex_unlock
<1>3. /\ w \in Seq(Threads)
      /\ Elems(w) \subseteq WaitersIn(waitq[m], "LOCK_WAIT")
      /\ \/ w = <<>> /\ WaitersIn(waitq[m], "LOCK_WAIT") = {}
         \/ w = <<Head(w)>> /\ Elems(w) = {Head(w)}
  BY <1>1, FirstInFound, SMTT(30)
<1>4. \A k \in Mutexes : holds'[k] = IF k = m THEN holds[m] \ {t} ELSE holds[k]
  BY <1>1, ZenonT(60) DEF st_mutex_unlock, TypeOK
<1>5. \A k \in Mutexes, u \in Threads :
        owner[k] = u <=> \/ u \in holds[k]
                         \/ pc[u] = "mutex" /\ obj[u] = k /\ woken[u] = "handoff"
  BY DEF MutexInv, OwnerKnows
<1>6. \A u \in Threads : /\ u \notin holds'[m]
                         /\ ~(pc[u] = "mutex" /\ obj[u] = m /\ woken[u] = "handoff")
  BY <1>1, <1>4, <1>5
<1>7. WaitersIn(waitq[m], "LOCK_WAIT")
        = {u \in Threads : pc[u] = "mutex" /\ obj[u] = m /\ state[u] = "LOCK_WAIT"}
  <2>1. Elems(waitq[m]) = {u \in Threads : pc[u] \in {"cond", "join", "mutex"} /\ obj[u] = m}
    BY <1>1, Zenon DEF WaitQueuesExact
  <2>2. \A u \in Threads : state[u] = "LOCK_WAIT" => pc[u] = "mutex"
    BY Zenon DEF SchedInv, QueueInv, StateFitsPlace
  <2> QED BY <2>1, <2>2 DEF WaitersIn
<1>8. CASE w = <<>>
  <2>1. Elems(w) = {} /\ WaitersIn(waitq[m], "LOCK_WAIT") = {}
    BY <1>3, <1>8 DEF Elems
  <2>2. \A v \in Threads : state'[v] = state[v] /\ woken'[v] = woken[v]
    BY <1>1, <1>2, <1>3, <2>1, Wakeup
  <2>3. \A k \in Mutexes : owner'[k] = IF k = m THEN None ELSE owner[k]
    BY <1>1, <1>2, <1>8, Zenon DEF TypeOK
  <2>4. OwnerKnows'
    <3> SUFFICES ASSUME NEW k \in Mutexes, NEW u \in Threads
                 PROVE  owner'[k] = u <=>
                          \/ u \in holds'[k]
                          \/ pc'[u] = "mutex" /\ obj'[u] = k /\ woken'[u] = "handoff"
      BY DEF OwnerKnows
    <3>1. u # None
      OBVIOUS
    <3> QED BY <1>1, <1>4, <1>5, <1>6, <2>2, <2>3, <3>1
  <2>5. MutexWaits'
    <3>1. ASSUME NEW u \in Threads, pc[u] = "mutex"
          PROVE  u \notin holds'[obj[u]] /\ (state[u] = "LOCK_WAIT" => owner'[obj[u]] # None)
      <4>1. obj[u] \in Mutexes /\ u \notin holds[obj[u]]
        BY <3>1, Zenon DEF SchedInv, WaitsForItsKind, MutexInv, MutexWaits
      <4>2. state[u] = "LOCK_WAIT" => obj[u] # m /\ owner[obj[u]] # None
        BY <1>7, <2>1, <3>1 DEF MutexInv, MutexWaits
      <4> QED BY <1>4, <2>3, <4>1, <4>2
    <3>2. \A k \in Mutexes \ objects' : owner'[k] = None
      BY <1>1, <2>3, Zenon DEF MutexInv, MutexWaits
    <3> QED BY <1>1, <2>2, <3>1, <3>2, ZenonT(60) DEF MutexInv, MutexWaits
  <2> QED BY <2>4, <2>5 DEF MutexInv
<1>9. CASE w # <<>>
  <2> DEFINE h == Head(w)
  <2>1. Elems(w) = {h}
    BY <1>3, <1>9
  <2>2. h \in Threads /\ pc[h] = "mutex" /\ obj[h] = m /\ state[h] = "LOCK_WAIT"
    BY <1>3, <1>7, <2>1
  <2>3. \A k \in Mutexes : owner'[k] = IF k = m THEN h ELSE owner[k]
    BY <1>1, <1>2, <1>9, Zenon DEF TypeOK
  <2> HIDE DEF h
  <2>4. \A v \in Threads : /\ state'[v] = IF v = h THEN "RUNNABLE" ELSE state[v]
                           /\ woken'[v] = IF v = h THEN "handoff" ELSE woken[v]
    BY <1>1, <1>2, <1>3, <2>1, Wakeup
  <2>5. OwnerKnows'
    <3> SUFFICES ASSUME NEW k \in Mutexes, NEW u \in Threads
                 PROVE  owner'[k] = u <=>
                          \/ u \in holds'[k]
                          \/ pc'[u] = "mutex" /\ obj'[u] = k /\ woken'[u] = "handoff"
      BY DEF OwnerKnows
    <3>1. CASE k = m
      BY <1>1, <1>6, <2>2, <2>3, <2>4, <3>1
    <3>2. CASE k # m
      <4>1. owner'[k] = owner[k] /\ holds'[k] = holds[k]
        BY <1>4, <2>3, <3>2
      <4>2. u = h => obj[u] # k
        BY <2>2, <3>2
      <4> QED BY <1>1, <1>5, <2>4, <4>1, <4>2
    <3> QED BY <3>1, <3>2
  <2>6. MutexWaits'
    <3>1. ASSUME NEW u \in Threads, pc[u] = "mutex"
          PROVE  u \notin holds'[obj[u]] /\ (state[u] = "LOCK_WAIT" => owner'[obj[u]] # None)
      <4>1. obj[u] \in Mutexes /\ u \notin holds[obj[u]]
        BY <3>1, Zenon DEF SchedInv, WaitsForItsKind, MutexInv, MutexWaits
      <4>2. state[u] = "LOCK_WAIT" => owner[obj[u]] # None
        BY <3>1, Zenon DEF MutexInv, MutexWaits
      <4>3. h # None
        BY <2>2
      <4> QED BY <1>4, <2>3, <4>1, <4>2, <4>3
    <3>2. \A k \in Mutexes \ objects' : owner'[k] = None
      BY <1>1, <2>3, Zenon DEF MutexInv, MutexWaits
    <3>3. ASSUME NEW u \in Threads
          PROVE  /\ pc'[u] = "mutex" /\ state'[u] # "LOCK_WAIT" =>
                      woken'[u] = "handoff" \/ (woken'[u] = "interrupt" /\ u \in interrupted')
                 /\ woken'[u] = "handoff" => pc'[u] = "mutex" /\ state'[u] # "LOCK_WAIT"
                 /\ state'[u] = "LOCK_WAIT" => state[u] = "LOCK_WAIT"
      <4>1. CASE u = h
        BY <1>1, <2>2, <2>4, <4>1
      <4>2. CASE u # h
        BY <1>1, <2>4, <4>2, Zenon DEF MutexInv, MutexWaits
      <4> QED BY <4>1, <4>2
    <3> QED BY <1>1, <3>1, <3>2, <3>3, Zenon DEF MutexWaits
  <2> QED BY <2>5, <2>6 DEF MutexInv
<1> QED BY <1>8, <1>9

(* An interrupt wakes a thread that waits for a mutex without giving it    *)
(* the mutex, and takes nothing from a thread that was given it.           *)
LEMMA InterruptKeeps ==
  ASSUME SchedInv, MutexInv, NEW t \in Threads, NEW u \in Threads, st_thread_interrupt(t, u)
  PROVE  MutexInv'
<1>1. /\ interrupted' = interrupted \cup {u}
      /\ UNCHANGED <<pc, obj, owner, holds, objects>>
  BY Zenon DEF st_thread_interrupt
<1>2. CASE UNCHANGED <<state, woken, sleepq>>
  <2>1. MutexUntouched
    BY <1>1, <1>2, Zenon DEF MutexUntouched
  <2> QED BY <2>1, MutexFrame
<1>3. CASE /\ state[u] \in {"IO_WAIT", "LOCK_WAIT", "COND_WAIT", "SLEEPING", "SUSPENDED"}
           /\ \A v \in Threads :
                /\ state'[v] = IF v = u THEN "RUNNABLE" ELSE state[v]
                /\ woken'[v] = IF v = u THEN "interrupt" ELSE woken[v]
  <2>1. pc[u] = "mutex" => state[u] = "LOCK_WAIT"
    BY <1>3, Zenon DEF SchedInv, QueueInv, StateFitsPlace
  <2>2. woken[u] # "handoff"
    BY <2>1, Zenon DEF MutexInv, MutexWaits
  <2>3. \A v \in Threads : woken'[v] = "handoff" <=> woken[v] = "handoff"
    BY <1>3, <2>2
  <2>4. OwnerKnows'
    BY <1>1, <2>3 DEF MutexInv, OwnerKnows
  <2>5. ASSUME NEW v \in Threads
        PROVE  /\ pc'[v] = "mutex" /\ state'[v] # "LOCK_WAIT" =>
                    woken'[v] = "handoff" \/ (woken'[v] = "interrupt" /\ v \in interrupted')
               /\ woken'[v] = "handoff" => pc'[v] = "mutex" /\ state'[v] # "LOCK_WAIT"
               /\ state'[v] = "LOCK_WAIT" => state[v] = "LOCK_WAIT"
    <3>1. CASE v = u
      BY <1>1, <1>3, <3>1
    <3>2. CASE v # u
      BY <1>1, <1>3, <3>2, Zenon DEF MutexInv, MutexWaits
    <3> QED BY <3>1, <3>2
  <2>6. MutexWaits'
    BY <1>1, <2>5, Zenon DEF MutexInv, MutexWaits
  <2> QED BY <2>4, <2>6 DEF MutexInv
<1> QED BY <1>2, <1>3, InterruptWakes, Zenon

(* Every step keeps the mutexes. *)
LEMMA NextMutex == SchedInv /\ WaitQueuesExact /\ MutexInv /\ [Next]_vars => MutexInv'
<1> SUFFICES ASSUME SchedInv, WaitQueuesExact, MutexInv, [Next]_vars PROVE MutexInv'
  OBVIOUS
<1>1. TypeOK /\ WaitsForItsKind
  BY DEF SchedInv
<1>2. CASE UNCHANGED vars \/ Exited
  <2>1. UNCHANGED <<state, pc, obj, interrupted, owner, holds, objects, woken>>
    BY <1>2, Zenon DEF vars, Exited
  <2>2. MutexUntouched
    BY <2>1, Zenon DEF MutexUntouched
  <2> QED BY <2>2, MutexFrame
<1>3. CASE Schedule \/ IdleStep
  BY <1>3, OtherSteps, MutexFrame, Zenon
<1>4. ASSUME NEW t \in Threads, Resume(t) PROVE MutexInv'
  BY <1>4, OtherSteps, LockReturnKeeps, MutexFrame, Zenon DEF Resume
<1>5. ASSUME NEW t \in Threads, NEW m \in Mutexes, st_mutex_new(t, m) \/ st_mutex_destroy(t, m)
      PROVE  MutexInv'
  <2>1. CASE st_mutex_new(t, m)
    <3>1. m \notin objects /\ objects' = objects \cup {m} /\ owner' = [owner EXCEPT ![m] = None]
          /\ UNCHANGED <<state, pc, obj, interrupted, holds, woken>>
      BY <2>1, Zenon DEF st_mutex_new
    <3>2. owner' = owner
      <4>1. owner[m] = None
        BY <3>1, Zenon DEF MutexInv, MutexWaits
      <4> QED BY <1>1, <3>1, <4>1, Zenon DEF TypeOK
    <3>3. MutexUntouched
      BY <3>1, <3>2, Zenon DEF MutexUntouched
    <3> QED BY <3>3, MutexFrame
  <2>2. CASE st_mutex_destroy(t, m)
    <3>1. owner[m] = None /\ objects' = objects \ {m}
          /\ UNCHANGED <<state, pc, obj, interrupted, owner, holds, woken>>
      BY <2>2, Zenon DEF st_mutex_destroy
    <3>2. OwnerKnows'
      BY <3>1, SMTT(30) DEF MutexInv, OwnerKnows
    <3>3. MutexWaits'
      BY <3>1, Zenon DEF MutexInv, MutexWaits
    <3> QED BY <3>2, <3>3 DEF MutexInv
  <2> QED BY <1>5, <2>1, <2>2
<1>6. ASSUME NEW t \in Threads, NEW m \in Mutexes, st_mutex_lock(t, m) \/ st_mutex_trylock(t, m)
      PROVE  MutexInv'
  <2>1. pc[t] = "run" /\ m \in objects
    BY <1>6, Zenon DEF st_mutex_lock, st_mutex_trylock, Calling
  <2>2. CASE FailInterrupted(t)
    BY <2>1, <2>2, OtherSteps, MutexFrame, Zenon
  <2>3. CASE TakeMutex(t, m)
    BY <1>1, <2>1, <2>3, TakeKeeps, Zenon
  <2>4. CASE LockBlock(t, m)
    BY <1>1, <2>1, <2>4, LockBlockKeeps, Zenon
  <2> QED BY <1>6, <2>2, <2>3, <2>4, Zenon DEF st_mutex_lock, st_mutex_trylock
<1>7. ASSUME NEW t \in Threads, Call(t) PROVE MutexInv'
  <2>1. ASSUME NEW u \in Threads, st_thread_interrupt(t, u) PROVE MutexInv'
    BY <2>1, InterruptKeeps, Zenon
  <2>2. ASSUME NEW m \in Mutexes, st_mutex_unlock(t, m) PROVE MutexInv'
    BY <2>2, UnlockKeeps, Zenon
  <2>3. ASSUME \/ \E timeout : st_usleep(t, timeout) \/ st_poll(t, timeout)
               \/ \E c \in Conds : \E timeout : st_cond_timedwait(t, c, timeout)
               \/ \E c \in Conds : \/ st_cond_new(t, c) \/ st_cond_destroy(t, c)
                                   \/ st_cond_signal(t, c) \/ st_cond_broadcast(t, c)
               \/ \E u \in Threads : \/ st_thread_join(t, u)
                                     \/ \E joinable \in BOOLEAN : st_thread_create(t, u, joinable)
               \/ ExitDetached(t) \/ ExitJoinable(t)
        PROVE  MutexInv'
    <3>1. MutexUntouched
      BY <2>3, OtherSteps, Zenon
    <3> QED BY <3>1, MutexFrame
  <2> QED BY <1>5, <1>6, <1>7, <2>1, <2>2, <2>3, Zenon DEF Call
<1> QED BY <1>2, <1>3, <1>4, <1>7 DEF Next
-----------------------------------------------------------------------------
(* The mutexes, with what their proof needs of the scheduler. *)
THEOREM MutexInvariant == Spec => []MutexInv
<1>1. Init => MutexInv
  <2> SUFFICES ASSUME Init PROVE MutexInv
    OBVIOUS
  <2>1. /\ \A t \in Threads : pc[t] # "mutex" /\ woken[t] = "none"
        /\ \A m \in Mutexes : owner[m] = None /\ holds[m] = {}
    BY Zenon DEF Init
  <2> QED BY <2>1, VpAssumption DEF MutexInv, OwnerKnows, MutexWaits
<1> QED BY <1>1, SchedInvariant, WaitQueuesCorrect, NextMutex, PTL DEF Spec

(* A mutex is owned by exactly the thread that was told so or has been     *)
(* handed it and will be told, also when an interrupt hits that thread     *)
(* before it runs, and it is free only when nobody is blocked on it.       *)
THEOREM MutexCorrect == Spec => []MutexExact
<1>1. SchedInv /\ WaitQueuesExact /\ MutexInv => MutexExact
  <2> SUFFICES ASSUME SchedInv, WaitQueuesExact, MutexInv PROVE MutexExact
    OBVIOUS
  <2>1. FreeMutexHasNoWaiter
    <3> SUFFICES ASSUME NEW m \in Mutexes, owner[m] = None,
                        NEW t \in WaitersIn(waitq[m], "LOCK_WAIT")
                 PROVE  FALSE
      BY Zenon DEF FreeMutexHasNoWaiter
    <3>1. t \in Elems(waitq[m]) /\ state[t] = "LOCK_WAIT" /\ m \in Waitables
      BY Zenon DEF WaitersIn, Waitables
    <3>2. t \in Threads /\ obj[t] = m
      BY <3>1, Zenon DEF WaitQueuesExact
    <3>3. pc[t] = "mutex"
      BY <3>1, <3>2, Zenon DEF SchedInv, QueueInv, StateFitsPlace
    <3> QED BY <3>1, <3>2, <3>3 DEF MutexInv, MutexWaits
  <2> QED BY <2>1 DEF MutexExact, MutexInv
<1> QED BY <1>1, SchedInvariant, WaitQueuesCorrect, MutexInvariant, PTL
=============================================================================
