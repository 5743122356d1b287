---------------------------- MODULE SchedProofs -----------------------------
(***************************************************************************)
(* The scheduler keeps its queues, for any number of threads, condition    *)
(* variables and mutexes and any set of timeouts.                          *)
(***************************************************************************)
EXTENDS SchedInv, ClistProofs, FiniteSetTheorems

(* A loop over a finite set meets every element once. *)
LEMMA ArrangementElems ==
  ASSUME NEW T, IsFiniteSet(T), NEW S \in SUBSET T, NEW key,
         NEW w \in Arrangements(S, key)
  PROVE  /\ w \in Seq(T)
         /\ Elems(w) = S
         /\ NoRepeat(w)
<1> DEFINE n == Cardinality(S)
<1>1. n \in Nat
  BY FS_Subset, FS_CardinalityType
<1>2. /\ w \in [1..n -> S]
      /\ S = {w[i] : i \in 1..n}
      /\ \A i, j \in 1..n : i < j => w[i] # w[j]
  BY DEF Arrangements
<1> HIDE DEF n
<1>3. w \in [1..n -> T]
  BY <1>2
<1>4. w \in Seq(T) /\ Len(w) = n
  BY <1>1, <1>3, SeqMade
<1>5. Elems(w) = S
  BY <1>2, <1>4 DEF Elems
<1>6. NoRepeat(w)
  BY <1>1, <1>2, <1>4 DEF NoRepeat
<1> QED BY <1>4, <1>5, <1>6

(* What the loop of _st_cond_signal or st_mutex_unlock finds. *)
LEMMA FirstInFound ==
  ASSUME NEW q \in Seq(Threads), NEW st, NEW w \in FirstIn(q, st)
  PROVE  /\ w \in Seq(Threads)
         /\ NoRepeat(w)
         /\ Elems(w) \subseteq WaitersIn(q, st)
         /\ \/ w = <<>> /\ WaitersIn(q, st) = {}
            \/ w = <<Head(w)>> /\ Elems(w) = {Head(w)}
<1>1. CASE WaitersIn(q, st) = {}
  <2>1. w = <<>>
    BY <1>1 DEF FirstIn
  <2> QED BY <1>1, <2>1 DEF Elems, NoRepeat
<1>2. CASE WaitersIn(q, st) # {}
  <2>1. PICK k \in 1..Len(q) : w = <<q[k]>> /\ state[q[k]] = st
    BY <1>2 DEF FirstIn
  <2>2. q[k] \in Elems(q) /\ q[k] \in Threads
    BY SeqLen DEF Elems
  <2>3. /\ w \in Seq(Threads) /\ NoRepeat(w)
        /\ Elems(w) = {q[k]} /\ Head(w) = q[k]
    BY <2>1, <2>2, SingletonElems
  <2> QED BY <2>1, <2>2, <2>3 DEF WaitersIn
<1> QED BY <1>1, <1>2

(* What the loop of a broadcast finds. *)
LEMMA AllInFound ==
  ASSUME NEW q \in Seq(Threads), NEW st, NEW key,
         NEW w \in Arrangements(WaitersIn(q, st), key)
  PROVE  /\ w \in Seq(Threads)
         /\ NoRepeat(w)
         /\ Elems(w) = WaitersIn(q, st)
<1>1. WaitersIn(q, st) \subseteq Threads
  BY ElemsOfSeq DEF WaitersIn
<1> QED BY <1>1, ArrangementElems, VpAssumption

(* Making threads runnable keeps the types. *)
LEMMA MakeRunnableType ==
  ASSUME TypeOK, NEW w \in Seq(Threads), NEW st \in [AllThreads -> States],
         NEW why \in Causes, MakeRunnable(st, w, why)
  PROVE  /\ state' \in [AllThreads -> States]
         /\ runq' \in Seq(Threads)
         /\ woken' \in [Threads -> Causes]
<1>1. runq' \in Seq(Threads)
  BY ConcatElems DEF TypeOK, MakeRunnable
<1>2. state' \in [AllThreads -> States]
  BY DEF MakeRunnable, States
<1>3. woken' \in [Threads -> Causes]
  BY DEF TypeOK, MakeRunnable
<1> QED BY <1>1, <1>2, <1>3

LEMMA BlockType ==
  ASSUME TypeOK, NEW t \in Threads, NEW st \in States, NEW place \in Places,
         NEW timeout \in Timeouts \cup {NoTimeout}, Block(t, st, place, timeout)
  PROVE  /\ state' \in [AllThreads -> States]
         /\ pc' \in [Threads -> Places]
         /\ DOMAIN sleepq' \subseteq Threads
         /\ \A u \in DOMAIN sleepq' : sleepq'[u] \in Nat
         /\ current' \in AllThreads \cup {None}
BY VpAssumption, Zenon DEF TypeOK, Block

LEMMA ReturnType ==
  ASSUME TypeOK, NEW t \in Threads, Return(t)
  PROVE  /\ pc' \in [Threads -> Places]
         /\ obj' \in [Threads -> Waitables \cup {None}]
BY DEF TypeOK, Return, Places

(* Taking a thread off a wait queue, and putting it on, keeps the types. *)
LEMMA UnlinkWaitqType ==
  ASSUME TypeOK, NEW t, NEW o
  PROVE  [waitq EXCEPT ![o] = Unlink(waitq[o], t)] \in [Waitables -> Seq(Threads)]
<1>1. CASE o \in Waitables
  <2>1. Unlink(waitq[o], t) \in Seq(Threads)
    BY <1>1, UnlinkType DEF TypeOK
  <2> QED BY <2>1, Zenon DEF TypeOK
<1>2. CASE o \notin Waitables
  BY <1>2, Zenon DEF TypeOK
<1> QED BY <1>1, <1>2

LEMMA AppendWaitqType ==
  ASSUME TypeOK, NEW t \in Threads, NEW o \in Waitables
  PROVE  [waitq EXCEPT ![o] = Append(waitq[o], t)] \in [Waitables -> Seq(Threads)]
<1>1. Append(waitq[o], t) \in Seq(Threads)
  BY AppendElems DEF TypeOK
<1> QED BY <1>1 DEF TypeOK

(* The initial state has the types. *)
LEMMA InitType == Init => TypeOK
BY VpAssumption DEF Init, TypeOK, AllThreads, States, Places, Causes, Waitables

(* Every step keeps the kinds of objects waited for. *)
LEMMA NextKind == TypeOK /\ WaitsForItsKind /\ [Next]_vars => WaitsForItsKind'
<1> SUFFICES ASSUME TypeOK, WaitsForItsKind, [Next]_vars
             PROVE  WaitsForItsKind'
  OBVIOUS
<1>1. CASE UNCHANGED <<pc, obj>>
  BY <1>1 DEF WaitsForItsKind
<1>2. ASSUME NEW t \in Threads, NEW place, NEW o, UNCHANGED obj \/ obj' = [obj EXCEPT ![t] = o],
             pc' = [pc EXCEPT ![t] = place],
             place = "cond" => obj' = [obj EXCEPT ![t] = o] /\ o \in Conds,
             place = "mutex" => obj' = [obj EXCEPT ![t] = o] /\ o \in Mutexes,
             place = "join" => obj' = [obj EXCEPT ![t] = o] /\ o \in Threads
      PROVE  WaitsForItsKind'
  BY <1>2 DEF TypeOK, WaitsForItsKind
<1>3. ASSUME NEW t \in Threads, Return(t) PROVE WaitsForItsKind'
  BY <1>2, <1>3, Zenon DEF Return
<1>4. ASSUME NEW t \in Threads, NEW timeout \in Timeouts \cup {NoTimeout},
             st_usleep(t, timeout) \/ st_poll(t, timeout)
      PROVE  WaitsForItsKind'
  <2>1. CASE FailInterrupted(t)
    BY <1>1, <2>1 DEF FailInterrupted
  <2>2. CASE SleepBlock(t, timeout) \/ PollBlock(t, timeout)
    BY <1>2, <2>2, Zenon DEF SleepBlock, PollBlock, Block
  <2> QED BY <1>4, <2>1, <2>2 DEF st_usleep, st_poll
<1>5. ASSUME NEW t \in Threads, NEW timeout \in Timeouts \cup {NoTimeout},
             NEW c \in Conds, st_cond_timedwait(t, c, timeout)
      PROVE  WaitsForItsKind'
  <2>1. CASE FailInterrupted(t)
    BY <1>1, <2>1 DEF FailInterrupted
  <2>2. CASE CondBlock(t, c, "cond", timeout)
    BY <1>2, <2>2, Zenon DEF CondBlock, Block
  <2> QED BY <1>5, <2>1, <2>2 DEF st_cond_timedwait
<1>6. ASSUME NEW t \in Threads, NEW m \in Mutexes, st_mutex_lock(t, m)
      PROVE  WaitsForItsKind'
  <2>1. CASE FailInterrupted(t)
    BY <1>1, <2>1 DEF FailInterrupted
  <2>2. CASE TakeMutex(t, m)
    BY <1>1, <2>2 DEF TakeMutex
  <2>3. CASE LockBlock(t, m)
    BY <1>2, <2>3, Zenon DEF LockBlock, Block
  <2> QED BY <1>6, <2>1, <2>2, <2>3 DEF st_mutex_lock
<1>7. ASSUME NEW t \in Threads, NEW u \in Threads, st_thread_join(t, u)
      PROVE  WaitsForItsKind'
  <2>1. CASE FailInterrupted(t)
    BY <1>1, <2>1 DEF FailInterrupted
  <2>2. CASE CondBlock(t, u, "join", NoTimeout)
    BY <1>2, <2>2, Zenon DEF CondBlock, Block
  <2>3. CASE JoinZombie(u)
    BY <1>1, <2>3 DEF JoinZombie
  <2> QED BY <1>7, <2>1, <2>2, <2>3 DEF st_thread_join
<1>8. ASSUME NEW t \in Threads, JoinReturn(t)
      PROVE  WaitsForItsKind'
  <2>1. CASE JoinFail(t) \/ JoinSucceed(t)
    BY <1>3, <2>1 DEF JoinFail, JoinSucceed
  <2>2. CASE JoinWaitAgain(t)
    BY <1>1, <2>2 DEF JoinWaitAgain
  <2> QED BY <1>8, <2>1, <2>2 DEF JoinReturn
<1>9. ASSUME NEW t \in Threads, NEW u \in Threads, NEW joinable \in BOOLEAN,
             st_thread_create(t, u, joinable)
      PROVE  WaitsForItsKind'
  BY <1>2, <1>9, Zenon DEF st_thread_create
<1>10. ASSUME NEW t \in Threads, ExitDetached(t) \/ ExitJoinable(t) \/ ZombieResume(t)
       PROVE  WaitsForItsKind'
  BY <1>2, <1>10 DEF ExitDetached, ExitJoinable, ZombieResume, FreeThread
<1>11. CASE UNCHANGED vars \/ Schedule \/ IdleStep \/ Exited
  BY <1>1, <1>11, Zenon DEF vars, Schedule, IdleStep, Dispatch, CheckClock, IdleExit, Exited
<1>12. ASSUME NEW t \in Threads, Resume(t) PROVE WaitsForItsKind'
  BY <1>3, <1>8, <1>10, <1>12
  DEF Resume, UsleepReturn, CondReturn, LockReturn, PollReturn
<1>13. ASSUME NEW t \in Threads, Call(t) PROVE WaitsForItsKind'
  <2>1. ASSUME NEW c \in Conds, \/ st_cond_new(t, c) \/ st_cond_destroy(t, c)
                                \/ st_cond_signal(t, c) \/ st_cond_broadcast(t, c)
        PROVE  WaitsForItsKind'
    BY <1>1, <2>1 DEF st_cond_new, st_cond_destroy, st_cond_signal, st_cond_broadcast
  <2>2. ASSUME NEW m \in Mutexes, \/ st_mutex_new(t, m) \/ st_mutex_destroy(t, m)
                                  \/ st_mutex_trylock(t, m) \/ st_mutex_unlock(t, m)
        PROVE  WaitsForItsKind'
    BY <1>1, <2>2
    DEF st_mutex_new, st_mutex_destroy, st_mutex_trylock, TakeMutex, st_mutex_unlock
  <2>3. ASSUME NEW u \in Threads, st_thread_interrupt(t, u)
        PROVE  WaitsForItsKind'
    BY <1>1, <2>3 DEF st_thread_interrupt
  <2> QED
    BY <1>4, <1>5, <1>6, <1>7, <1>9, <1>10, <1>13, <2>1, <2>2, <2>3 DEF Call
<1> QED BY <1>11, <1>12, <1>13 DEF Next

(* Every step keeps the types.  The kind of object a joiner waits for is   *)
(* needed to know that what st_thread_join reaps is a thread.              *)
LEMMA NextType == TypeOK /\ WaitsForItsKind /\ [Next]_vars => TypeOK'
<1> SUFFICES ASSUME TypeOK, WaitsForItsKind, [Next]_vars
             PROVE  TypeOK'
  OBVIOUS
<1>1. CASE UNCHANGED vars
  BY <1>1 DEF TypeOK, vars
<1>2. CASE Schedule
  <2>1. CASE runq = <<>>
    <3>1. NextThread \in AllThreads
      BY <2>1 DEF NextThread, AllThreads
    <3> QED BY <1>2, <2>1, <3>1 DEF TypeOK, Schedule, States
  <2>2. CASE runq # <<>>
    <3>1. NextThread \in AllThreads /\ Tail(runq) \in Seq(Threads)
      BY <2>2, TailElems, ElemsOfSeq DEF TypeOK, NextThread, AllThreads
    <3> QED BY <1>2, <2>2, <3>1 DEF TypeOK, Schedule, States
  <2> QED BY <2>1, <2>2
<1>3. ASSUME NEW t \in Threads, FailInterrupted(t) PROVE TypeOK'
  BY <1>3 DEF TypeOK, FailInterrupted
<1>4. ASSUME NEW t \in Threads, NEW m \in Mutexes, TakeMutex(t, m) PROVE TypeOK'
  BY <1>4 DEF TypeOK, TakeMutex
<1>5. ASSUME NEW t \in Threads, NEW timeout \in Timeouts \cup {NoTimeout},
             st_usleep(t, timeout)
      PROVE  TypeOK'
  <2>1. CASE FailInterrupted(t)
    BY <1>3, <2>1
  <2>2. CASE SleepBlock(t, timeout)
    <3>1. /\ (IF timeout = NoTimeout THEN "SUSPENDED" ELSE "SLEEPING") \in States
          /\ "usleep" \in Places
      BY DEF States, Places
    <3> QED BY <2>2, <3>1, BlockType, Zenon DEF TypeOK, SleepBlock
  <2> QED BY <1>5, <2>1, <2>2 DEF st_usleep
<1>6. ASSUME NEW t \in Threads, UsleepReturn(t) PROVE TypeOK'
  BY <1>6, ReturnType DEF TypeOK, UsleepReturn, Causes
<1>7. ASSUME NEW t \in Threads, NEW c \in Conds, st_cond_new(t, c) PROVE TypeOK'
  BY <1>7 DEF TypeOK, st_cond_new, Waitables
<1>8. ASSUME NEW t \in Threads, NEW c \in Conds, st_cond_destroy(t, c) PROVE TypeOK'
  BY <1>8 DEF TypeOK, st_cond_destroy
<1>9. ASSUME NEW t \in Threads, NEW c \in Waitables, NEW place \in Places,
             NEW timeout \in Timeouts \cup {NoTimeout},
             CondBlock(t, c, place, timeout)
      PROVE  TypeOK'
  <2>1. "COND_WAIT" \in States
    BY DEF States
  <2>2. waitq' \in [Waitables -> Seq(Threads)]
    BY <1>9, AppendWaitqType DEF CondBlock
  <2>3. obj' \in [Threads -> Waitables \cup {None}]
    BY <1>9 DEF TypeOK, CondBlock
  <2> QED BY <1>9, <2>1, <2>2, <2>3, BlockType, Zenon DEF TypeOK, CondBlock
<1>10. ASSUME NEW t \in Threads, NEW timeout \in Timeouts \cup {NoTimeout},
              NEW c \in Conds, st_cond_timedwait(t, c, timeout)
       PROVE  TypeOK'
  <2>1. c \in Waitables /\ "cond" \in Places
    BY DEF Waitables, Places
  <2> QED BY <1>3, <1>9, <1>10, <2>1 DEF st_cond_timedwait
<1>11. ASSUME NEW t \in Threads, CondReturn(t) PROVE TypeOK'
  BY <1>11, UnlinkWaitqType, ReturnType, Zenon DEF TypeOK, CondReturn, CondUnblock, Causes
<1>12. ASSUME NEW t \in Threads, NEW c \in Conds,
              st_cond_signal(t, c) \/ st_cond_broadcast(t, c)
       PROVE  TypeOK'
  <2>1. /\ waitq[c] \in Seq(Threads) /\ "signal" \in Causes
        /\ state \in [AllThreads -> States]
    BY DEF TypeOK, Waitables, Causes
  <2>2. PICK w \in Seq(Threads) : /\ sleepq' = DelSleepq(Elems(w))
                                  /\ MakeRunnable(state, w, "signal")
    BY <1>12, <2>1, FirstInFound, AllInFound DEF st_cond_signal, st_cond_broadcast
  <2>3. /\ state' \in [AllThreads -> States]
        /\ runq' \in Seq(Threads)
        /\ woken' \in [Threads -> Causes]
    BY <2>1, <2>2, MakeRunnableType
  <2>4. DOMAIN sleepq' \subseteq Threads /\ \A u \in DOMAIN sleepq' : sleepq'[u] \in Nat
    BY <2>2 DEF TypeOK, DelSleepq
  <2> QED BY <1>12, <2>3, <2>4, Zenon DEF TypeOK, st_cond_signal, st_cond_broadcast
<1>13. ASSUME NEW t \in Threads, NEW m \in Mutexes, st_mutex_new(t, m) PROVE TypeOK'
  BY <1>13, SMTT(30) DEF TypeOK, st_mutex_new, Waitables
<1>14. ASSUME NEW t \in Threads, NEW m \in Mutexes, st_mutex_destroy(t, m) PROVE TypeOK'
  BY <1>14, Zenon DEF TypeOK, st_mutex_destroy
<1>15. ASSUME NEW t \in Threads, NEW m \in Mutexes, st_mutex_lock(t, m) PROVE TypeOK'
  <2>1. CASE LockBlock(t, m)
    <3>1. /\ "LOCK_WAIT" \in States /\ "mutex" \in Places /\ m \in Waitables
          /\ NoTimeout \in Timeouts \cup {NoTimeout}
      BY DEF States, Places, Waitables
    <3>2. waitq' \in [Waitables -> Seq(Threads)]
      BY <2>1, <3>1, AppendWaitqType DEF LockBlock
    <3>3. obj' \in [Threads -> Waitables \cup {None}]
      BY <2>1, <3>1, Zenon DEF TypeOK, LockBlock
    <3> QED BY <2>1, <3>1, <3>2, <3>3, BlockType, Zenon DEF TypeOK, LockBlock
  <2> QED BY <1>3, <1>4, <1>15, <2>1 DEF st_mutex_lock
<1>16. ASSUME NEW t \in Threads, LockReturn(t) PROVE TypeOK'
  <2>1. \/ holds' = holds
        \/ holds' = [holds EXCEPT ![obj[t]] = @ \cup {t}]
    BY <1>16 DEF LockReturn
  <2>2. holds' \in [Mutexes -> SUBSET Threads]
    <3>1. holds \in [Mutexes -> SUBSET Threads] /\ obj[t] \in Mutexes
      BY <1>16 DEF TypeOK, WaitsForItsKind, LockReturn, Resumed
    <3> QED BY <2>1, <3>1
  <2>3. interrupted' \subseteq Threads
    BY <1>16 DEF TypeOK, LockReturn
  <2>4. waitq' \in [Waitables -> Seq(Threads)] /\ woken' \in [Threads -> Causes]
    BY <1>16, UnlinkWaitqType, Zenon DEF TypeOK, LockReturn, Causes
  <2> QED BY <1>16, <2>2, <2>3, <2>4, ReturnType, Zenon DEF TypeOK, LockReturn
<1>17. ASSUME NEW t \in Threads, NEW m \in Mutexes, st_mutex_trylock(t, m) PROVE TypeOK'
  BY <1>4, <1>17 DEF st_mutex_trylock
<1>18. ASSUME NEW t \in Threads, NEW m \in Mutexes, st_mutex_unlock(t, m) PROVE TypeOK'
  <2>1. /\ waitq[m] \in Seq(Threads) /\ "handoff" \in Causes
        /\ state \in [AllThreads -> States]
    BY Zenon DEF TypeOK, Waitables, Causes
  <2>2. PICK w \in FirstIn(waitq[m], "LOCK_WAIT") :
          /\ MakeRunnable(state, w, "handoff")
          /\ owner' = [owner EXCEPT ![m] = IF w = <<>> THEN None ELSE Head(w)]
    BY <1>18, Zenon DEF st_mutex_unlock
  <2>3. w \in Seq(Threads) /\ (w # <<>> => Head(w) \in Threads)
    BY <2>1, FirstInFound, TailElems, ElemsOfSeq
  <2>4. /\ state' \in [AllThreads -> States]
        /\ runq' \in Seq(Threads)
        /\ woken' \in [Threads -> Causes]
    BY <2>1, <2>2, <2>3, MakeRunnableType
  <2>5. owner' \in [Mutexes -> Threads \cup {None}] /\ holds' \in [Mutexes -> SUBSET Threads]
    BY <1>18, <2>2, <2>3, Zenon DEF TypeOK, st_mutex_unlock
  <2> QED BY <1>18, <2>4, <2>5, Zenon DEF TypeOK, st_mutex_unlock
<1>19. ASSUME NEW t \in Threads, NEW u \in Threads, NEW joinable \in BOOLEAN,
              st_thread_create(t, u, joinable)
       PROVE  TypeOK'
  <2>1. runq' \in Seq(Threads)
    BY <1>19, AppendElems, Zenon DEF TypeOK, st_thread_create
  <2>2. state' \in [AllThreads -> States] /\ pc' \in [Threads -> Places]
    BY <1>19, Zenon DEF TypeOK, st_thread_create, States, Places
  <2>3. term' \subseteq Threads /\ activeCount' \in Int
    BY <1>19 DEF TypeOK, st_thread_create
  <2> QED BY <1>19, <2>1, <2>2, <2>3, Zenon DEF TypeOK, st_thread_create
<1>20. ASSUME NEW t \in Threads, FreeThread(t)
       PROVE  /\ state' \in [AllThreads -> States] /\ pc' \in [Threads -> Places]
              /\ current' \in AllThreads \cup {None}
  BY <1>20, Zenon DEF TypeOK, FreeThread, States, Places
<1>21. ASSUME NEW t \in Threads, ExitDetached(t) PROVE TypeOK'
  BY <1>20, <1>21 DEF TypeOK, ExitDetached
<1>22. ASSUME NEW t \in Threads, ZombieResume(t) PROVE TypeOK'
  BY <1>20, <1>22, Zenon DEF TypeOK, ZombieResume
<1>23. ASSUME NEW t \in Threads, ExitJoinable(t) PROVE TypeOK'
  <2>1. /\ waitq[t] \in Seq(Threads) /\ "signal" \in Causes
        /\ [state EXCEPT ![t] = "ZOMBIE"] \in [AllThreads -> States]
    BY Zenon DEF TypeOK, Waitables, Causes, States
  <2>2. PICK w \in Seq(Threads) :
          /\ sleepq' = DelSleepq(Elems(w))
          /\ MakeRunnable([state EXCEPT ![t] = "ZOMBIE"], w, "signal")
    BY <1>23, <2>1, FirstInFound DEF ExitJoinable
  <2>3. /\ state' \in [AllThreads -> States]
        /\ runq' \in Seq(Threads)
        /\ woken' \in [Threads -> Causes]
    BY <2>1, <2>2, MakeRunnableType, Zenon
  <2>4. DOMAIN sleepq' \subseteq Threads /\ \A u \in DOMAIN sleepq' : sleepq'[u] \in Nat
    BY <2>2 DEF TypeOK, DelSleepq
  <2>5. zombieq' \in Seq(Threads)
    BY <1>23, AppendElems DEF TypeOK, ExitJoinable
  <2>6. pc' \in [Threads -> Places] /\ activeCount' \in Int
    BY <1>23 DEF TypeOK, ExitJoinable, Places
  <2> QED BY <1>23, <2>3, <2>4, <2>5, <2>6, Zenon DEF TypeOK, ExitJoinable
<1>24. ASSUME NEW u \in Threads, Reap(u)
       PROVE  /\ state' \in [AllThreads -> States]
              /\ runq' \in Seq(Threads)
              /\ woken' \in [Threads -> Causes]
              /\ zombieq' \in Seq(Threads)
  <2>1. <<u>> \in Seq(Threads) /\ "reap" \in Causes /\ state \in [AllThreads -> States]
    BY SingletonElems DEF TypeOK, Causes
  <2> QED BY <1>24, <2>1, MakeRunnableType, UnlinkType, Zenon DEF TypeOK, Reap
<1>25. ASSUME NEW t \in Threads, NEW u \in Threads, st_thread_join(t, u) PROVE TypeOK'
  <2>1. /\ u \in Waitables /\ "join" \in Places
        /\ NoTimeout \in Timeouts \cup {NoTimeout}
    BY DEF Waitables, Places
  <2>2. CASE JoinZombie(u)
    BY <1>24, <2>2, Zenon DEF TypeOK, JoinZombie
  <2> QED BY <1>3, <1>9, <1>25, <2>1, <2>2 DEF st_thread_join
<1>26. ASSUME NEW t \in Threads, JoinReturn(t) PROVE TypeOK'
  <2>1. obj[t] \in Threads
    BY <1>26, Zenon DEF JoinReturn, Resumed, WaitsForItsKind
  <2>2. UNCHANGED <<ioq, sleepq, owner, objects, term, idle, activeCount, holds>>
    BY <1>26, Zenon DEF JoinReturn
  <2>3. ASSUME CondUnblock(t), Return(t)
        PROVE  /\ pc' \in [Threads -> Places]
               /\ obj' \in [Threads -> Waitables \cup {None}]
               /\ waitq' \in [Waitables -> Seq(Threads)]
               /\ timedout' \subseteq Threads
               /\ interrupted' \subseteq Threads
    BY <2>3, UnlinkWaitqType, ReturnType, Zenon DEF TypeOK, CondUnblock
  <2>4. CASE JoinFail(t)
    BY <2>2, <2>3, <2>4, Zenon DEF TypeOK, JoinFail, Causes
  <2>5. CASE JoinSucceed(t)
    BY <1>24, <2>1, <2>2, <2>3, <2>5, Zenon DEF TypeOK, JoinSucceed
  <2>6. CASE JoinWaitAgain(t)
    <3>1. Append(Unlink(waitq[obj[t]], t), t) \in Seq(Threads)
      BY <2>1, UnlinkType, AppendElems DEF TypeOK, Waitables
    <3>2. waitq' \in [Waitables -> Seq(Threads)]
      BY <2>6, <3>1, Zenon DEF TypeOK, JoinWaitAgain
    <3>3. state' \in [AllThreads -> States]
      BY <2>6, Zenon DEF TypeOK, JoinWaitAgain, States
    <3> QED BY <2>2, <2>6, <3>2, <3>3, Zenon DEF TypeOK, JoinWaitAgain
  <2> QED BY <1>26, <2>4, <2>5, <2>6, Zenon DEF JoinReturn
<1>27. ASSUME NEW t \in Threads, NEW u \in Threads, st_thread_interrupt(t, u)
       PROVE  TypeOK'
  <2>1. CASE UNCHANGED <<state, runq, sleepq, woken>>
    BY <1>27, <2>1, Zenon DEF TypeOK, st_thread_interrupt
  <2>2. CASE sleepq' = DelSleepq({u}) /\ MakeRunnable(state, <<u>>, "interrupt")
    <3>1. /\ <<u>> \in Seq(Threads) /\ "interrupt" \in Causes
          /\ state \in [AllThreads -> States]
      BY SingletonElems DEF TypeOK, Causes
    <3>2. /\ state' \in [AllThreads -> States]
          /\ runq' \in Seq(Threads)
          /\ woken' \in [Threads -> Causes]
      BY <2>2, <3>1, MakeRunnableType, Zenon
    <3>3. DOMAIN sleepq' \subseteq Threads /\ \A v \in DOMAIN sleepq' : sleepq'[v] \in Nat
      BY <2>2 DEF TypeOK, DelSleepq
    <3> QED BY <1>27, <3>2, <3>3 DEF TypeOK, st_thread_interrupt
  <2> QED BY <1>27, <2>1, <2>2 DEF st_thread_interrupt
<1>28. ASSUME NEW t \in Threads, NEW timeout \in Timeouts \cup {NoTimeout},
              st_poll(t, timeout)
       PROVE  TypeOK'
  <2>1. CASE FailInterrupted(t)
    BY <1>3, <2>1
  <2>2. CASE PollBlock(t, timeout)
    <3>1. "IO_WAIT" \in States /\ "poll" \in Places
      BY DEF States, Places
    <3>2. ioq' \in Seq(Threads)
      BY <2>2, AppendElems DEF TypeOK, PollBlock
    <3> QED BY <2>2, <3>1, <3>2, BlockType, Zenon DEF TypeOK, PollBlock
  <2> QED BY <1>28, <2>1, <2>2 DEF st_poll
<1>29. ASSUME NEW t \in Threads, PollReturn(t) PROVE TypeOK'
  <2>1. ioq' \in Seq(Threads)
    BY <1>29, UnlinkType DEF TypeOK, PollReturn, RemovePollq
  <2> QED BY <1>29, <2>1, ReturnType, Zenon DEF TypeOK, PollReturn, Causes
<1>30. ASSUME NEW ready \in SUBSET Elems(ioq), Dispatch(ready) PROVE TypeOK'
  <2>1. ready \subseteq Threads /\ Elems(ioq) \ ready \subseteq Threads
    BY ElemsOfSeq DEF TypeOK
  <2>2. PICK w \in Arrangements(ready, Position(ioq)) :
          sleepq' = DelSleepq(Elems(w)) /\ MakeRunnable(state, w, "io")
    BY <1>30 DEF Dispatch
  <2>3. w \in Seq(Threads) /\ ioq' \in Seq(Threads)
    BY <1>30, <2>1, ArrangementElems, VpAssumption DEF Dispatch
  <2>4. "io" \in Causes /\ state \in [AllThreads -> States]
    BY DEF TypeOK, Causes
  <2>5. /\ state' \in [AllThreads -> States]
        /\ runq' \in Seq(Threads)
        /\ woken' \in [Threads -> Causes]
    BY <2>2, <2>3, <2>4, MakeRunnableType
  <2>6. DOMAIN sleepq' \subseteq Threads /\ \A v \in DOMAIN sleepq' : sleepq'[v] \in Nat
    BY <2>2 DEF TypeOK, DelSleepq
  <2> QED BY <1>30, <2>3, <2>5, <2>6, Zenon DEF TypeOK, Dispatch
<1>31. ASSUME NEW elapsed \in Elapsed, CheckClock(elapsed) PROVE TypeOK'
  <2> DEFINE expired == Expired(elapsed)
  <2>1. expired \subseteq Threads /\ elapsed \in Nat
    BY VpAssumption DEF TypeOK, Expired
  <2>2. PICK w \in Arrangements(expired, sleepq) :
          MakeRunnable([state EXCEPT ![Idle] = "RUNNABLE"], w, "clock")
    BY <1>31 DEF CheckClock, IdleRunnable
  <2>3. w \in Seq(Threads)
    BY <2>1, ArrangementElems, VpAssumption
  <2>4. "clock" \in Causes /\ [state EXCEPT ![Idle] = "RUNNABLE"] \in [AllThreads -> States]
    BY Zenon DEF TypeOK, Causes, States
  <2>5. /\ state' \in [AllThreads -> States]
        /\ runq' \in Seq(Threads)
        /\ woken' \in [Threads -> Causes]
    BY <2>2, <2>3, <2>4, MakeRunnableType, Zenon
  <2>6. DOMAIN sleepq' \subseteq Threads /\ \A v \in DOMAIN sleepq' : sleepq'[v] \in Nat
    BY <1>31, <2>1 DEF TypeOK, CheckClock, HeapAfter, Expired
  <2>7. timedout' \subseteq Threads
    BY <1>31, <2>1 DEF TypeOK, CheckClock, TimedOutAfter
  <2> QED BY <1>31, <2>5, <2>6, <2>7, Zenon DEF TypeOK, CheckClock
<1>32. CASE IdleExit \/ Exited
  BY <1>1, <1>32, Zenon DEF TypeOK, IdleExit, Exited
<1>33. ASSUME NEW t \in Threads, Call(t) PROVE TypeOK'
  BY <1>5, <1>7, <1>8, <1>10, <1>12, <1>13, <1>14, <1>15, <1>17, <1>18, <1>19,
     <1>21, <1>23, <1>25, <1>27, <1>28, <1>33 DEF Call
<1>34. ASSUME NEW t \in Threads, Resume(t) PROVE TypeOK'
  BY <1>6, <1>11, <1>16, <1>22, <1>26, <1>29, <1>34 DEF Resume
<1> QED
  BY <1>1, <1>2, <1>30, <1>31, <1>32, <1>33, <1>34 DEF Next, IdleStep
-----------------------------------------------------------------------------
(* Blocking the running thread keeps the queues: it enters the state that  *)
(* belongs to the call and leaves no trace on the run queue.               *)
LEMMA BlockKeeps ==
  ASSUME TypeOK, QueueInv, NEW t \in Threads, current = t, pc[t] # "poll",
         NEW st, NEW place, NEW timeout, Block(t, st, place, timeout),
         UNCHANGED <<runq, zombieq, idle>>,
         \/ st = "IO_WAIT" /\ place = "poll" /\ ioq' = Append(ioq, t)
         \/ /\ UNCHANGED ioq
            /\ \/ st = "LOCK_WAIT" /\ place = "mutex"
               \/ st = "COND_WAIT" /\ place \in {"cond", "join"}
               \/ st \in {"SLEEPING", "SUSPENDED"} /\ place = "usleep",
         timeout # NoTimeout => st \in {"IO_WAIT", "COND_WAIT", "SLEEPING"}
  PROVE  QueueInv'
<1> USE VpAssumption
<1>1. /\ state' = [state EXCEPT ![t] = st]
      /\ pc' = [pc EXCEPT ![t] = place]
      /\ current' = None
  BY DEF Block
<1>2. /\ t \in AllThreads
      /\ st \in {"IO_WAIT", "LOCK_WAIT", "COND_WAIT", "SLEEPING", "SUSPENDED"}
      /\ None \notin AllThreads
      /\ current # Idle
      /\ state[t] = "RUNNING"
  BY Zenon DEF AllThreads, QueueInv, RunningIsCurrent
<1>3. RunningIsCurrent'
  BY <1>1, <1>2, Zenon DEF TypeOK, QueueInv, RunningIsCurrent, AllThreads
<1>4. QueuesExact'
  BY <1>1, <1>2, Zenon DEF TypeOK, QueueInv, QueuesExact, AllThreads
<1>5. StateFitsPlace'
  BY <1>1, <1>2, ZenonT(60) DEF TypeOK, QueueInv, StateFitsPlace, AllThreads
<1>6. SleepersBlocked'
  <2>1. DOMAIN sleepq' \subseteq DOMAIN sleepq \cup (IF timeout = NoTimeout THEN {} ELSE {t})
    BY DEF Block
  <2>2. t \notin DOMAIN sleepq
    BY <1>2, Zenon DEF QueueInv, SleepersBlocked
  <2> QED BY <1>1, <1>2, <2>1, <2>2, SMTT(30) DEF TypeOK, QueueInv, SleepersBlocked, AllThreads
<1>7. PollersQueued'
  <2>1. t \notin Elems(ioq)
    BY DEF QueueInv, PollersQueued
  <2>2. CASE UNCHANGED ioq /\ st # "IO_WAIT"
    BY <1>1, <1>2, <2>1, <2>2, Zenon DEF TypeOK, QueueInv, PollersQueued, AllThreads
  <2>3. CASE st = "IO_WAIT" /\ place = "poll" /\ ioq' = Append(ioq, t)
    <3>1. NoRepeat(ioq') /\ Elems(ioq') = Elems(ioq) \cup {t}
      BY <2>1, <2>3, AppendElems, SMTT(30) DEF TypeOK, QueueInv, PollersQueued
    <3> QED BY <1>1, <1>2, <2>3, <3>1, Zenon DEF TypeOK, QueueInv, PollersQueued, AllThreads
  <2> QED BY <2>2, <2>3
<1>8. IdleRunsAlone'
  BY <1>1, <1>2 DEF QueueInv, IdleRunsAlone, AllThreads
<1> QED BY <1>3, <1>4, <1>5, <1>6, <1>7, <1>8 DEF QueueInv

(* Making blocked threads runnable keeps the queues, when they leave the   *)
(* heap: they were on no queue that uses the same links.                   *)
LEMMA WakeKeeps ==
  ASSUME TypeOK, QueueInv, current \in Threads,
         NEW w \in Seq(Threads), NoRepeat(w), NEW why,
         \A u \in Elems(w) : state[u] \in {"IO_WAIT", "LOCK_WAIT", "COND_WAIT",
                                           "SLEEPING", "SUSPENDED"},
         MakeRunnable(state, w, why),
         DOMAIN sleepq' \subseteq DOMAIN sleepq \ Elems(w),
         UNCHANGED <<pc, ioq, zombieq, current, idle>>
  PROVE  QueueInv'
<1> USE VpAssumption
<1>1. Elems(w) \subseteq Threads /\ current # Idle /\ Idle \notin Elems(w)
  BY ElemsOfSeq, SMTT(30)
<1>2. /\ \A u \in AllThreads : state'[u] = IF u \in Elems(w) THEN "RUNNABLE" ELSE state[u]
      /\ runq' = runq \o w
  BY Zenon DEF MakeRunnable
<1>3. runq \in Seq(Threads) /\ NoRepeat(runq) /\ Elems(runq) \cap Elems(w) = {}
  BY <1>1, Zenon DEF TypeOK, QueueInv, QueuesExact
<1>4. NoRepeat(runq') /\ Elems(runq') = Elems(runq) \cup Elems(w)
  BY <1>2, <1>3, ConcatElems, ZenonT(60)
<1>5. RunningIsCurrent'
  BY <1>1, <1>2, Zenon DEF QueueInv, RunningIsCurrent, AllThreads
<1>6. QueuesExact'
  BY <1>2, <1>4, Zenon DEF QueueInv, QueuesExact, AllThreads
<1>7. StateFitsPlace'
  BY <1>2, Zenon DEF QueueInv, StateFitsPlace, AllThreads
<1>8. SleepersBlocked'
  BY <1>2, Zenon DEF TypeOK, QueueInv, SleepersBlocked, AllThreads
<1>9. PollersQueued'
  BY <1>2, Zenon DEF QueueInv, PollersQueued, AllThreads
<1>10. IdleRunsAlone'
  BY <1>1 DEF QueueInv, IdleRunsAlone
<1> QED BY <1>5, <1>6, <1>7, <1>8, <1>9, <1>10 DEF QueueInv

(* A call that returns without touching the queues keeps them. *)
LEMMA ReturnKeeps ==
  ASSUME TypeOK, QueueInv, NEW t \in Threads, current = t, pc[t] # "poll", Return(t),
         UNCHANGED <<state, runq, ioq, zombieq, sleepq, current, idle>>
  PROVE  QueueInv'
<1> USE VpAssumption
<1>1. pc' = [pc EXCEPT ![t] = "run"]
  BY DEF Return
<1>2. state[t] = "RUNNING" /\ t \notin Elems(ioq)
  BY Zenon DEF QueueInv, RunningIsCurrent, PollersQueued, AllThreads
<1>3. RunningIsCurrent' /\ QueuesExact' /\ SleepersBlocked' /\ IdleRunsAlone'
  BY Zenon DEF QueueInv, RunningIsCurrent, QueuesExact, SleepersBlocked, IdleRunsAlone
<1>4. StateFitsPlace'
  BY <1>1, <1>2, SMTT(30) DEF TypeOK, QueueInv, StateFitsPlace
<1>5. PollersQueued'
  BY <1>1, <1>2 DEF TypeOK, QueueInv, PollersQueued
<1> QED BY <1>3, <1>4, <1>5 DEF QueueInv

(* Reaping a zombie moves it from the zombie queue to the run queue; the   *)
(* join that reaps it may be returning from its wait.                      *)
LEMMA ReapKeeps ==
  ASSUME TypeOK, QueueInv, NEW t \in Threads, current = t, pc[t] \in {"run", "join"},
         NEW u \in Threads, Reap(u), pc' = [pc EXCEPT ![t] = "run"],
         UNCHANGED <<ioq, sleepq, current, idle>>
  PROVE  QueueInv'
<1> USE VpAssumption
<1> DEFINE w == <<u>>
<1>1. w \in Seq(Threads) /\ NoRepeat(w) /\ Elems(w) = {u}
  BY SingletonElems
<1>2. /\ \A v \in AllThreads : state'[v] = IF v = u THEN "RUNNABLE" ELSE state[v]
      /\ runq' = runq \o w
      /\ state[u] = "ZOMBIE"
      /\ zombieq' = Unlink(zombieq, u)
  BY <1>1, Zenon DEF Reap, MakeRunnable
<1> HIDE DEF w
<1>3. /\ runq \in Seq(Threads) /\ NoRepeat(runq) /\ Elems(runq) \cap Elems(w) = {}
      /\ zombieq \in Seq(Threads) /\ NoRepeat(zombieq) /\ u \in Elems(zombieq)
  <2>1. runq \in Seq(Threads) /\ zombieq \in Seq(Threads)
    BY DEF TypeOK
  <2>2. NoRepeat(runq) /\ NoRepeat(zombieq)
    BY Zenon DEF QueueInv, QueuesExact
  <2>3. u \in Elems(zombieq) /\ u \notin Elems(runq)
    <3>1. state[u] # "RUNNABLE"
      BY <1>2, Zenon
    <3> QED BY <1>2, <3>1, Zenon DEF QueueInv, QueuesExact
  <2> QED BY <1>1, <2>1, <2>2, <2>3
<1>4. NoRepeat(runq') /\ Elems(runq') = Elems(runq) \cup {u}
  BY <1>1, <1>2, <1>3, ConcatElems, SMTT(30)
<1>5. NoRepeat(zombieq') /\ Elems(zombieq') = Elems(zombieq) \ {u}
  BY <1>2, <1>3, UnlinkElems, Zenon
<1>6. /\ \A v \in Threads : pc'[v] = IF v = t THEN "run" ELSE pc[v]
      /\ state[t] = "RUNNING" /\ t \notin Elems(ioq)
  BY Zenon DEF TypeOK, AllThreads, QueueInv, RunningIsCurrent, PollersQueued
<1>7. RunningIsCurrent'
  BY <1>2, Zenon DEF QueueInv, RunningIsCurrent, AllThreads
<1>8. QueuesExact'
  BY <1>2, <1>4, <1>5, Zenon DEF QueueInv, QueuesExact, AllThreads
<1>9. StateFitsPlace'
  <2>1. state[u] = "ZOMBIE" /\ pc[u] = "zombie" /\ u # t
    BY <1>2, <1>6, Zenon DEF QueueInv, StateFitsPlace
  <2>2. state'[u] = "RUNNABLE" /\ pc'[u] = "zombie"
    BY <1>2, <1>6, <2>1, Zenon DEF AllThreads
  <2>3. state'[t] = "RUNNING" /\ pc'[t] = "run"
    BY <1>2, <1>6, <2>1, Zenon DEF AllThreads
  <2>4. ASSUME NEW v \in Threads, v # u, v # t
        PROVE  state'[v] = state[v] /\ pc'[v] = pc[v]
    BY <1>2, <1>6, <2>4, Zenon DEF AllThreads
  <2>5. StateFitsPlace
    BY DEF QueueInv
  <2> QED BY <2>2, <2>3, <2>4, <2>5, SMTT(30) DEF StateFitsPlace
<1>10. SleepersBlocked'
  BY <1>2, Zenon DEF TypeOK, QueueInv, SleepersBlocked, AllThreads
<1>11. PollersQueued'
  BY <1>2, <1>6, Zenon DEF QueueInv, PollersQueued, AllThreads
<1>12. IdleRunsAlone'
  BY <1>2, Zenon DEF QueueInv, IdleRunsAlone
<1> QED BY <1>7, <1>8, <1>9, <1>10, <1>11, <1>12 DEF QueueInv

(* The initial state satisfies the queue invariant. *)
LEMMA InitQueues == Init => QueueInv
<1> SUFFICES ASSUME Init PROVE QueueInv
  OBVIOUS
<1> USE VpAssumption DEF Init
<1>1. Elems(<<>>) = {} /\ NoRepeat(<<>>)
  BY DEF Elems, NoRepeat
<1>2. RunningIsCurrent
  BY Zenon DEF RunningIsCurrent, AllThreads
<1>3. QueuesExact
  BY <1>1, Zenon DEF QueuesExact, AllThreads
<1>4. StateFitsPlace
  BY Zenon DEF StateFitsPlace, AllThreads
<1>5. SleepersBlocked /\ IdleRunsAlone
  BY DEF SleepersBlocked, IdleRunsAlone
<1>6. PollersQueued
  BY <1>1 DEF PollersQueued, AllThreads
<1> QED BY <1>2, <1>3, <1>4, <1>5, <1>6 DEF QueueInv

(* Every step of the scheduler keeps the queue invariant. *)
LEMMA NextQueues == SchedInv /\ [Next]_vars => QueueInv'
<1> SUFFICES ASSUME TypeOK, WaitsForItsKind, QueueInv, [Next]_vars
             PROVE  QueueInv'
  BY DEF SchedInv
<1> USE VpAssumption
<1>1. ASSUME UNCHANGED <<state, pc, runq, ioq, zombieq, sleepq, current, idle>>
      PROVE  QueueInv'
  <2>1. RunningIsCurrent' /\ QueuesExact' /\ StateFitsPlace'
    BY <1>1, Zenon DEF QueueInv, RunningIsCurrent, QueuesExact, StateFitsPlace
  <2>2. SleepersBlocked' /\ PollersQueued' /\ IdleRunsAlone'
    BY <1>1, Zenon DEF QueueInv, SleepersBlocked, PollersQueued, IdleRunsAlone
  <2> QED BY <2>1, <2>2 DEF QueueInv
<1>2. CASE Schedule
  <2>1. CASE runq = <<>>
    <3>1. /\ state' = [state EXCEPT ![Idle] = "RUNNING"]
          /\ current = None /\ current' = Idle
          /\ UNCHANGED <<pc, runq, ioq, zombieq, sleepq, idle>>
      BY <1>2, <2>1 DEF Schedule, NextThread
    <3>2. /\ \A t \in Threads : state'[t] = state[t]
          /\ state'[Idle] = "RUNNING"
          /\ \A t \in AllThreads : state[t] # "RUNNING"
          /\ idle = "idle"
      BY <3>1, Zenon DEF TypeOK, AllThreads, QueueInv, RunningIsCurrent, IdleRunsAlone
    <3>3. RunningIsCurrent'
      BY <3>1, <3>2 DEF RunningIsCurrent, AllThreads
    <3>4. QueuesExact' /\ StateFitsPlace'
      BY <3>1, <3>2, SMTT(30) DEF QueueInv, QueuesExact, StateFitsPlace
    <3>5. SleepersBlocked' /\ PollersQueued'
      BY <3>1, <3>2, Zenon DEF TypeOK, QueueInv, SleepersBlocked, PollersQueued
    <3>6. IdleRunsAlone'
      BY <2>1, <3>1, <3>2 DEF IdleRunsAlone
    <3> QED BY <3>3, <3>4, <3>5, <3>6 DEF QueueInv
  <2>2. CASE runq # <<>>
    <3> DEFINE h == Head(runq)
    <3>1. /\ state' = [state EXCEPT ![h] = "RUNNING"]
          /\ current = None /\ current' = h
          /\ runq' = Tail(runq)
          /\ UNCHANGED <<pc, ioq, zombieq, sleepq, idle>>
      BY <1>2, <2>2 DEF Schedule, NextThread
    <3>2. runq \in Seq(Threads) /\ NoRepeat(runq)
      BY DEF TypeOK, QueueInv, QueuesExact
    <3>3. /\ h \in Elems(runq) /\ h \in Threads
          /\ NoRepeat(runq') /\ Elems(runq') = Elems(runq) \ {h}
      BY <2>2, <3>1, <3>2, TailElems, ElemsOfSeq
    <3> HIDE DEF h
    <3>4. /\ \A t \in AllThreads : state'[t] = IF t = h THEN "RUNNING" ELSE state[t]
          /\ \A t \in AllThreads : state[t] # "RUNNING"
          /\ h # Idle /\ h \in AllThreads
          /\ state[h] = "RUNNABLE"
      BY <3>1, <3>3, Zenon DEF TypeOK, AllThreads, QueueInv, RunningIsCurrent, QueuesExact
    <3>5. RunningIsCurrent'
      BY <3>1, <3>4, Zenon DEF QueueInv, RunningIsCurrent, AllThreads
    <3>6. QueuesExact'
      <4>1. ASSUME NEW t \in Threads
            PROVE  /\ t \in Elems(runq') <=> state'[t] = "RUNNABLE"
                   /\ t \in Elems(zombieq') <=> state'[t] = "ZOMBIE"
        BY <3>1, <3>3, <3>4 DEF QueueInv, QueuesExact, AllThreads
      <4> QED BY <3>1, <3>3, <4>1 DEF QueueInv, QueuesExact
    <3>7. StateFitsPlace'
      BY <3>1, <3>4, SMTT(30) DEF QueueInv, StateFitsPlace, AllThreads
    <3>8. SleepersBlocked'
      BY <3>1, <3>4, Zenon DEF TypeOK, QueueInv, SleepersBlocked, AllThreads
    <3>9. PollersQueued'
      BY <3>1, <3>4 DEF QueueInv, PollersQueued, AllThreads
    <3>10. IdleRunsAlone'
      BY <3>1, <3>4 DEF QueueInv, IdleRunsAlone
    <3> QED BY <3>5, <3>6, <3>7, <3>8, <3>9, <3>10 DEF QueueInv
  <2> QED BY <2>1, <2>2
<1>3. ASSUME NEW t \in Threads, FailInterrupted(t) PROVE QueueInv'
  BY <1>1, <1>3, Zenon DEF FailInterrupted
<1>4. ASSUME NEW t \in Threads, NEW m \in Mutexes, TakeMutex(t, m) PROVE QueueInv'
  BY <1>1, <1>4, Zenon DEF TakeMutex
<1>5. ASSUME NEW t \in Threads, NEW timeout \in Timeouts \cup {NoTimeout},
             st_usleep(t, timeout)
      PROVE  QueueInv'
  <2>1. current = t /\ pc[t] # "poll"
    BY <1>5 DEF st_usleep, Calling
  <2>2. CASE SleepBlock(t, timeout)
    <3>1. CASE timeout = NoTimeout
      BY <2>1, <2>2, <3>1, BlockKeeps, Zenon DEF SleepBlock
    <3>2. CASE timeout # NoTimeout
      BY <2>1, <2>2, <3>2, BlockKeeps, Zenon DEF SleepBlock
    <3> QED BY <3>1, <3>2
  <2> QED BY <1>3, <1>5, <2>2 DEF st_usleep
<1>6. ASSUME NEW t \in Threads, NEW timeout \in Timeouts \cup {NoTimeout},
             st_poll(t, timeout)
      PROVE  QueueInv'
  <2>1. current = t /\ pc[t] # "poll"
    BY <1>6 DEF st_poll, Calling
  <2>2. CASE PollBlock(t, timeout)
    BY <2>1, <2>2, BlockKeeps, Zenon DEF PollBlock
  <2> QED BY <1>3, <1>6, <2>2 DEF st_poll
<1>7. ASSUME NEW t \in Threads, NEW c, NEW place \in {"cond", "join"}, NEW timeout,
             Calling(t), CondBlock(t, c, place, timeout)
      PROVE  QueueInv'
  <2>1. current = t /\ pc[t] # "poll"
    BY <1>7 DEF Calling
  <2> QED BY <1>7, <2>1, BlockKeeps, Zenon DEF CondBlock
<1>8. ASSUME NEW t \in Threads, NEW m \in Mutexes, Calling(t), LockBlock(t, m)
      PROVE  QueueInv'
  <2>1. current = t /\ pc[t] # "poll"
    BY <1>8 DEF Calling
  <2> QED BY <1>8, <2>1, BlockKeeps, Zenon DEF LockBlock
<1>9. ASSUME NEW t \in Threads, UsleepReturn(t) \/ CondReturn(t) \/ LockReturn(t)
      PROVE  QueueInv'
  <2>1. current = t /\ pc[t] # "poll" /\ Return(t)
    BY <1>9, Zenon DEF UsleepReturn, CondReturn, LockReturn, Resumed
  <2>2. UNCHANGED <<state, runq, ioq, zombieq, sleepq, current, idle>>
    BY <1>9, Zenon DEF UsleepReturn, CondReturn, LockReturn
  <2> QED BY <2>1, <2>2, ReturnKeeps, Zenon
<1>10. ASSUME NEW t \in Threads, NEW c \in Conds,
              st_cond_signal(t, c) \/ st_cond_broadcast(t, c)
       PROVE  QueueInv'
  <2>1. waitq[c] \in Seq(Threads)
    BY DEF TypeOK, Waitables
  <2>2. PICK w \in Seq(Threads) : /\ NoRepeat(w)
                                  /\ Elems(w) \subseteq WaitersIn(waitq[c], "COND_WAIT")
                                  /\ sleepq' = DelSleepq(Elems(w))
                                  /\ MakeRunnable(state, w, "signal")
    <3>1. CASE st_cond_signal(t, c)
      BY <2>1, <3>1, FirstInFound, Zenon DEF st_cond_signal
    <3>2. CASE st_cond_broadcast(t, c)
      BY <2>1, <3>2, AllInFound, Zenon DEF st_cond_broadcast
    <3> QED BY <1>10, <3>1, <3>2, Zenon
  <2>3. \A u \in Elems(w) : state[u] = "COND_WAIT"
    BY <2>2, Zenon DEF WaitersIn
  <2>4. DOMAIN sleepq' \subseteq DOMAIN sleepq \ Elems(w)
    BY <2>2, Zenon DEF DelSleepq
  <2>5. current \in Threads /\ UNCHANGED <<pc, ioq, zombieq, current, idle>>
    BY <1>10, Zenon DEF st_cond_signal, st_cond_broadcast, Calling
  <2> QED BY <2>2, <2>3, <2>4, <2>5, WakeKeeps, Zenon
<1>11. ASSUME NEW t \in Threads, NEW m \in Mutexes, st_mutex_unlock(t, m)
       PROVE  QueueInv'
  <2>1. waitq[m] \in Seq(Threads)
    BY Zenon DEF TypeOK, Waitables
  <2>2. PICK w \in FirstIn(waitq[m], "LOCK_WAIT") : MakeRunnable(state, w, "handoff")
    BY <1>11, Zenon DEF st_mutex_unlock
  <2>3. /\ w \in Seq(Threads) /\ NoRepeat(w)
        /\ \A u \in Elems(w) : state[u] = "LOCK_WAIT"
    BY <2>1, FirstInFound, SMTT(30) DEF WaitersIn
  <2>4. DOMAIN sleepq' \subseteq DOMAIN sleepq \ Elems(w)
    <3>1. sleepq' = sleepq
      BY <1>11, Zenon DEF st_mutex_unlock
    <3> QED BY <2>3, <3>1, Zenon DEF QueueInv, SleepersBlocked
  <2>5. current \in Threads /\ UNCHANGED <<pc, ioq, zombieq, current, idle>>
    BY <1>11, Zenon DEF st_mutex_unlock, Calling
  <2> QED BY <2>2, <2>3, <2>4, <2>5, WakeKeeps, Zenon
<1>12. ASSUME NEW t \in Threads, NEW u \in Threads, st_thread_interrupt(t, u)
       PROVE  QueueInv'
  <2>1. current \in Threads /\ UNCHANGED <<pc, ioq, zombieq, current, idle>>
    BY <1>12, Zenon DEF st_thread_interrupt, Calling
  <2>2. CASE UNCHANGED <<state, runq, sleepq, woken>>
    BY <1>1, <2>1, <2>2
  <2>3. CASE /\ state[u] \notin {"RUNNING", "RUNNABLE"}
             /\ sleepq' = DelSleepq({u})
             /\ MakeRunnable(state, <<u>>, "interrupt")
    <3> DEFINE w == <<u>>
    <3>1. w \in Seq(Threads) /\ NoRepeat(w) /\ Elems(w) = {u}
      BY SingletonElems
    <3>2. MakeRunnable(state, w, "interrupt")
      BY <2>3, Zenon
    <3> HIDE DEF w
    <3>3. state[u] \in {"IO_WAIT", "LOCK_WAIT", "COND_WAIT", "SLEEPING", "SUSPENDED"}
      <4>1. state[u] \in States /\ state[u] # "ZOMBIE" /\ pc[u] \notin {"unborn", "freed"}
        BY <1>12, Zenon DEF TypeOK, AllThreads, st_thread_interrupt, Exists
      <4>2. state[u] # "NONE"
        BY <4>1, Zenon DEF QueueInv, StateFitsPlace
      <4> QED BY <2>3, <4>1, <4>2, Zenon DEF States
    <3>4. DOMAIN sleepq' \subseteq DOMAIN sleepq \ Elems(w)
      BY <2>3, <3>1, Zenon DEF DelSleepq
    <3> QED BY <2>1, <3>1, <3>2, <3>3, <3>4, WakeKeeps, Zenon
  <2> QED BY <1>12, <2>2, <2>3, Zenon DEF st_thread_interrupt
<1>13. ASSUME NEW t \in Threads, NEW u \in Threads, st_thread_join(t, u)
       PROVE  QueueInv'
  <2>1. Calling(t)
    BY <1>13, Zenon DEF st_thread_join
  <2>2. CASE JoinZombie(u)
    <3>1. current = t /\ pc[t] = "run" /\ pc' = [pc EXCEPT ![t] = "run"]
      BY <2>1, <2>2, Zenon DEF TypeOK, Calling, JoinZombie
    <3> QED BY <2>2, <3>1, ReapKeeps, Zenon DEF JoinZombie
  <2> QED BY <1>3, <1>7, <1>13, <2>1, <2>2, Zenon DEF st_thread_join
<1>14. ASSUME NEW t \in Threads, JoinReturn(t) PROVE QueueInv'
  <2>1. /\ current = t /\ pc[t] = "join" /\ obj[t] \in Threads
        /\ UNCHANGED <<ioq, sleepq, idle>>
    BY <1>14, Zenon DEF JoinReturn, Resumed, WaitsForItsKind
  <2>2. CASE JoinFail(t)
    BY <2>1, <2>2, ReturnKeeps, Zenon DEF JoinFail
  <2>3. CASE JoinSucceed(t)
    <3> DEFINE u == obj[t]
    <3>1. pc' = [pc EXCEPT ![t] = "run"] /\ Reap(u) /\ UNCHANGED current
      BY <2>3 DEF JoinSucceed, Return
    <3> HIDE DEF u
    <3>2. u \in Threads
      BY <2>1 DEF u
    <3> QED BY <2>1, <3>1, <3>2, ReapKeeps, Zenon
  <2>4. CASE JoinWaitAgain(t)
    <3>1. /\ Block(t, "COND_WAIT", "join", NoTimeout)
          /\ UNCHANGED <<runq, zombieq>>
      BY <2>1, <2>4, Zenon DEF TypeOK, JoinWaitAgain, Block
    <3> QED BY <2>1, <3>1, BlockKeeps, Zenon
  <2> QED BY <1>14, <2>2, <2>3, <2>4, Zenon DEF JoinReturn
<1>15. ASSUME NEW t \in Threads, NEW u \in Threads, NEW joinable \in BOOLEAN,
              st_thread_create(t, u, joinable)
       PROVE  QueueInv'
  <2>1. /\ pc[u] = "unborn" /\ pc' = [pc EXCEPT ![u] = "run"]
        /\ state' = [state EXCEPT ![u] = "RUNNABLE"]
        /\ runq' = Append(runq, u)
        /\ UNCHANGED <<ioq, zombieq, sleepq, current, idle>>
        /\ current = t
    BY <1>15, Zenon DEF st_thread_create, Calling
  <2>2. /\ \A v \in AllThreads : state'[v] = IF v = u THEN "RUNNABLE" ELSE state[v]
        /\ \A v \in Threads : pc'[v] = IF v = u THEN "run" ELSE pc[v]
        /\ state[u] = "NONE" /\ u \in AllThreads /\ current # Idle /\ u # Idle
    BY <2>1, Zenon DEF TypeOK, AllThreads, QueueInv, StateFitsPlace
  <2>3. runq \in Seq(Threads) /\ NoRepeat(runq) /\ u \notin Elems(runq)
    BY <2>2, Zenon DEF TypeOK, QueueInv, QueuesExact
  <2>4. NoRepeat(runq') /\ Elems(runq') = Elems(runq) \cup {u}
    BY <2>1, <2>3, AppendElems
  <2>5. RunningIsCurrent'
    BY <2>1, <2>2, Zenon DEF QueueInv, RunningIsCurrent, AllThreads
  <2>6. QueuesExact'
    <3>1. ASSUME NEW v \in Threads
          PROVE  /\ v \in Elems(runq') <=> state'[v] = "RUNNABLE"
                 /\ v \in Elems(zombieq') <=> state'[v] = "ZOMBIE"
      BY <2>1, <2>2, <2>4 DEF QueueInv, QueuesExact, AllThreads
    <3> QED BY <2>1, <2>4, <3>1, Zenon DEF QueueInv, QueuesExact
  <2>7. StateFitsPlace'
    BY <2>2, SMTT(30) DEF QueueInv, StateFitsPlace, AllThreads
  <2>8. SleepersBlocked'
    BY <2>1, <2>2, Zenon DEF TypeOK, QueueInv, SleepersBlocked, AllThreads
  <2>9. PollersQueued'
    BY <2>1, <2>2 DEF QueueInv, PollersQueued, AllThreads
  <2>10. IdleRunsAlone'
    BY <2>1, <2>2 DEF QueueInv, IdleRunsAlone
  <2> QED BY <2>5, <2>6, <2>7, <2>8, <2>9, <2>10 DEF QueueInv
<1>16. ASSUME NEW t \in Threads, ExitDetached(t) \/ ZombieResume(t)
       PROVE  QueueInv'
  <2>1. /\ current = t /\ pc[t] # "poll"
        /\ pc' = [pc EXCEPT ![t] = "freed"]
        /\ state' = [state EXCEPT ![t] = "NONE"]
        /\ current' = None
        /\ UNCHANGED <<runq, ioq, zombieq, sleepq, idle>>
    BY <1>16, Zenon DEF ExitDetached, ZombieResume, FreeThread, Calling, Resumed
  <2>2. /\ \A v \in AllThreads : state'[v] = IF v = t THEN "NONE" ELSE state[v]
        /\ \A v \in Threads : pc'[v] = IF v = t THEN "freed" ELSE pc[v]
        /\ state[t] = "RUNNING" /\ t # Idle /\ None \notin AllThreads
        /\ idle = "idle"
    BY <2>1, Zenon DEF TypeOK, AllThreads, QueueInv, RunningIsCurrent, IdleRunsAlone
  <2>3. RunningIsCurrent'
    BY <2>1, <2>2, SMTT(30) DEF QueueInv, RunningIsCurrent, AllThreads
  <2>4. QueuesExact'
    <3>1. ASSUME NEW v \in Threads
          PROVE  /\ v \in Elems(runq') <=> state'[v] = "RUNNABLE"
                 /\ v \in Elems(zombieq') <=> state'[v] = "ZOMBIE"
      BY <2>1, <2>2 DEF QueueInv, QueuesExact, AllThreads
    <3> QED BY <2>1, <3>1, Zenon DEF QueueInv, QueuesExact
  <2>5. StateFitsPlace'
    BY <2>2, SMTT(30) DEF QueueInv, StateFitsPlace, AllThreads
  <2>6. SleepersBlocked'
    BY <2>1, <2>2, Zenon DEF TypeOK, QueueInv, SleepersBlocked, AllThreads
  <2>7. PollersQueued'
    BY <2>1, <2>2 DEF QueueInv, PollersQueued, AllThreads
  <2>8. IdleRunsAlone'
    BY <2>1, <2>2 DEF IdleRunsAlone, AllThreads
  <2> QED BY <2>3, <2>4, <2>5, <2>6, <2>7, <2>8 DEF QueueInv
<1>17. ASSUME NEW t \in Threads, ExitJoinable(t) PROVE QueueInv'
  <2> DEFINE st == [state EXCEPT ![t] = "ZOMBIE"]
  <2>1. /\ current = t /\ pc[t] = "run" /\ waitq[t] \in Seq(Threads)
        /\ pc' = [pc EXCEPT ![t] = "zombie"]
        /\ zombieq' = Append(zombieq, t)
        /\ current' = None
        /\ UNCHANGED <<ioq, idle>>
    BY <1>17, Zenon DEF ExitJoinable, Calling, TypeOK, Waitables
  <2>2. PICK w \in FirstIn(waitq[t], "COND_WAIT") :
          /\ sleepq' = DelSleepq(Elems(w))
          /\ MakeRunnable(st, w, "signal")
    BY <1>17, Zenon DEF ExitJoinable
  <2>3. /\ w \in Seq(Threads) /\ NoRepeat(w) /\ Elems(w) \subseteq Threads
        /\ \A v \in Elems(w) : state[v] = "COND_WAIT"
    BY <2>1, FirstInFound, ElemsOfSeq, SMTT(30) DEF WaitersIn
  <2>4. /\ state[t] = "RUNNING" /\ t # Idle /\ t \in AllThreads /\ None \notin AllThreads
        /\ idle = "idle" /\ t \notin Elems(w)
    <3>1. t # Idle /\ t \in AllThreads /\ None \notin AllThreads
      BY <2>1, Zenon DEF AllThreads
    <3>2. state[t] = "RUNNING"
      BY <2>1, <3>1, Zenon DEF QueueInv, RunningIsCurrent
    <3>3. idle = "idle"
      BY <2>1, <3>1, Zenon DEF QueueInv, IdleRunsAlone
    <3>4. t \notin Elems(w)
      BY <2>3, <3>2, Zenon
    <3> QED BY <3>1, <3>2, <3>3, <3>4, Zenon
  <2>5. /\ \A v \in AllThreads :
             state'[v] = IF v \in Elems(w) THEN "RUNNABLE"
                         ELSE IF v = t THEN "ZOMBIE" ELSE state[v]
        /\ \A v \in Threads : pc'[v] = IF v = t THEN "zombie" ELSE pc[v]
        /\ runq' = runq \o w
        /\ DOMAIN sleepq' = DOMAIN sleepq \ Elems(w)
    BY <2>1, <2>2, Zenon DEF TypeOK, MakeRunnable, DelSleepq
  <2>6. /\ runq \in Seq(Threads) /\ NoRepeat(runq) /\ Elems(runq) \cap Elems(w) = {}
        /\ zombieq \in Seq(Threads) /\ NoRepeat(zombieq) /\ t \notin Elems(zombieq)
    BY <2>3, <2>4, Zenon DEF TypeOK, QueueInv, QueuesExact
  <2>7. NoRepeat(runq') /\ Elems(runq') = Elems(runq) \cup Elems(w)
    BY <2>3, <2>5, <2>6, ConcatElems, ZenonT(60)
  <2>8. NoRepeat(zombieq') /\ Elems(zombieq') = Elems(zombieq) \cup {t}
    BY <2>1, <2>6, AppendElems, Zenon
  <2>9. RunningIsCurrent'
    BY <2>1, <2>3, <2>4, <2>5, Zenon DEF QueueInv, RunningIsCurrent, AllThreads
  <2>10. QueuesExact'
    <3>1. ASSUME NEW v \in Threads
          PROVE  /\ v \in Elems(runq') <=> state'[v] = "RUNNABLE"
                 /\ v \in Elems(zombieq') <=> state'[v] = "ZOMBIE"
      BY <2>3, <2>4, <2>5, <2>7, <2>8, Zenon DEF QueueInv, QueuesExact, AllThreads
    <3> QED BY <2>7, <2>8, <3>1, Zenon DEF QueuesExact
  <2>11. StateFitsPlace'
    BY <2>3, <2>4, <2>5, ZenonT(60) DEF QueueInv, StateFitsPlace, AllThreads
  <2>12. SleepersBlocked'
    BY <2>4, <2>5, Zenon DEF TypeOK, QueueInv, SleepersBlocked, AllThreads
  <2>13. PollersQueued'
    BY <2>1, <2>3, <2>4, <2>5, Zenon DEF QueueInv, PollersQueued, AllThreads
  <2>14. IdleRunsAlone'
    BY <2>1, <2>4, Zenon DEF IdleRunsAlone, AllThreads
  <2> QED BY <2>9, <2>10, <2>11, <2>12, <2>13, <2>14 DEF QueueInv
<1>18. ASSUME NEW t \in Threads, PollReturn(t) PROVE QueueInv'
  <2>1. /\ current = t /\ pc[t] = "poll"
        /\ pc' = [pc EXCEPT ![t] = "run"]
        /\ ioq' = IF t \in Elems(ioq) THEN Unlink(ioq, t) ELSE ioq
        /\ UNCHANGED <<state, runq, zombieq, sleepq, current, idle>>
    BY <1>18, Zenon DEF PollReturn, RemovePollq, Resumed, Return
  <2>2. /\ state[t] = "RUNNING" /\ ioq \in Seq(Threads) /\ NoRepeat(ioq)
        /\ \A v \in Threads : pc'[v] = IF v = t THEN "run" ELSE pc[v]
    BY <2>1, Zenon DEF TypeOK, AllThreads, QueueInv, RunningIsCurrent, PollersQueued
  <2>3. NoRepeat(ioq') /\ Elems(ioq') = Elems(ioq) \ {t}
    <3>1. CASE t \in Elems(ioq)
      BY <2>1, <2>2, <3>1, UnlinkElems, Zenon
    <3>2. CASE t \notin Elems(ioq)
      BY <2>1, <2>2, <3>2, Zenon
    <3> QED BY <3>1, <3>2
  <2>4. RunningIsCurrent' /\ QueuesExact' /\ SleepersBlocked' /\ IdleRunsAlone'
    BY <2>1, Zenon DEF QueueInv, RunningIsCurrent, QueuesExact, SleepersBlocked, IdleRunsAlone
  <2>5. StateFitsPlace'
    BY <2>1, <2>2, SMTT(30) DEF QueueInv, StateFitsPlace
  <2>6. PollersQueued'
    BY <2>1, <2>2, <2>3, Zenon DEF QueueInv, PollersQueued
  <2> QED BY <2>4, <2>5, <2>6 DEF QueueInv
<1>19. ASSUME NEW ready \in SUBSET Elems(ioq), Dispatch(ready) PROVE QueueInv'
  <2>1. /\ current = Idle /\ idle = "idle" /\ idle' = "clock"
        /\ ioq' \in Arrangements(Elems(ioq) \ ready, Position(ioq))
        /\ UNCHANGED <<pc, zombieq, current>>
    BY <1>19, Zenon DEF Dispatch
  <2>2. PICK w \in Arrangements(ready, Position(ioq)) :
          sleepq' = DelSleepq(Elems(w)) /\ MakeRunnable(state, w, "io")
    BY <1>19, Zenon DEF Dispatch
  <2>3. /\ runq = <<>> /\ runq \in Seq(Threads) /\ NoRepeat(runq)
        /\ Elems(ioq) \subseteq Threads
    BY <2>1, ElemsOfSeq, Zenon DEF TypeOK, QueueInv, IdleRunsAlone, QueuesExact
  <2>4. \A v \in ready : v \in Threads /\ state[v] = "IO_WAIT"
    <3>1. \A v \in Threads : state[v] \notin {"RUNNABLE", "RUNNING"}
      <4>1. Elems(runq) = {}
        BY <2>3 DEF Elems
      <4> QED BY <2>1, <4>1, Zenon DEF AllThreads, QueueInv, QueuesExact, RunningIsCurrent
    <3> QED BY <2>3, <3>1, Zenon DEF QueueInv, PollersQueued
  <2>5. /\ w \in Seq(Threads) /\ NoRepeat(w) /\ Elems(w) = ready
        /\ NoRepeat(ioq') /\ Elems(ioq') = Elems(ioq) \ ready
    <3>1. ready \subseteq Threads /\ Elems(ioq) \ ready \subseteq Threads
      BY <2>3
    <3> QED BY <2>1, <3>1, ArrangementElems, Zenon
  <2>6. /\ \A v \in AllThreads : state'[v] = IF v \in ready THEN "RUNNABLE" ELSE state[v]
        /\ runq' = runq \o w
        /\ DOMAIN sleepq' = DOMAIN sleepq \ ready
        /\ Idle \notin ready
    BY <2>2, <2>4, <2>5, Zenon DEF MakeRunnable, DelSleepq
  <2>7. NoRepeat(runq') /\ Elems(runq') = Elems(runq) \cup ready
    <3>1. runq \in Seq(Threads) /\ NoRepeat(runq)
      BY <2>3
    <3>2. Elems(runq) = {}
      BY <2>3 DEF Elems
    <3>3. Elems(runq) \cap Elems(w) = {}
      BY <3>2
    <3> QED BY <2>5, <2>6, <3>1, <3>3, ConcatElems, SMTT(30)
  <2>8. RunningIsCurrent'
    BY <2>1, <2>4, <2>6, Zenon DEF QueueInv, RunningIsCurrent, AllThreads
  <2>9. QueuesExact'
    <3>1. ASSUME NEW v \in Threads
          PROVE  /\ v \in Elems(runq') <=> state'[v] = "RUNNABLE"
                 /\ v \in Elems(zombieq') <=> state'[v] = "ZOMBIE"
      BY <2>1, <2>4, <2>6, <2>7, Zenon DEF QueueInv, QueuesExact, AllThreads
    <3> QED BY <2>1, <2>7, <3>1, Zenon DEF QueueInv, QueuesExact
  <2>10. StateFitsPlace'
    BY <2>1, <2>4, <2>6, Zenon DEF QueueInv, StateFitsPlace, AllThreads
  <2>11. SleepersBlocked'
    BY <2>6, Zenon DEF TypeOK, QueueInv, SleepersBlocked, AllThreads
  <2>12. PollersQueued'
    BY <2>1, <2>4, <2>5, <2>6, Zenon DEF QueueInv, PollersQueued, AllThreads
  <2>13. IdleRunsAlone'
    BY <2>1, Zenon DEF IdleRunsAlone
  <2> QED BY <2>8, <2>9, <2>10, <2>11, <2>12, <2>13, Zenon DEF QueueInv
<1>20. ASSUME NEW elapsed \in Elapsed, CheckClock(elapsed) PROVE QueueInv'
  <2> DEFINE expired == Expired(elapsed)
  <2>1. /\ current = Idle /\ current' = None /\ idle' = "idle"
        /\ sleepq' = [t \in DOMAIN sleepq \ expired |-> sleepq[t] - elapsed]
        /\ UNCHANGED <<pc, ioq, zombieq>>
    BY <1>20, Zenon DEF CheckClock, HeapAfter
  <2>2. PICK w \in Arrangements(expired, sleepq) :
          MakeRunnable([state EXCEPT ![Idle] = "RUNNABLE"], w, "clock")
    BY <1>20, Zenon DEF CheckClock, IdleRunnable
  <2>3. DOMAIN sleepq' = DOMAIN sleepq \ expired /\ expired \subseteq DOMAIN sleepq
    BY <2>1, Zenon DEF Expired
  <2> HIDE DEF expired
  <2>4. \A v \in expired : v \in Threads /\ state[v] \in {"SLEEPING", "COND_WAIT", "IO_WAIT"}
    BY <2>3, Zenon DEF TypeOK, QueueInv, SleepersBlocked
  <2>5. w \in Seq(Threads) /\ NoRepeat(w) /\ Elems(w) = expired
    <3>1. expired \subseteq Threads
      BY <2>4, Zenon
    <3> QED BY <3>1, ArrangementElems, Zenon
  <2>6. /\ \A v \in AllThreads :
             state'[v] = IF v \in expired \cup {Idle} THEN "RUNNABLE" ELSE state[v]
        /\ runq' = runq \o w
        /\ Idle \notin expired /\ None \notin AllThreads
    BY <2>2, <2>4, <2>5, Zenon DEF TypeOK, MakeRunnable, AllThreads
  <2>7. NoRepeat(runq') /\ Elems(runq') = Elems(runq) \cup expired
    <3>1. runq \in Seq(Threads) /\ NoRepeat(runq) /\ Elems(runq) \cap Elems(w) = {}
      BY <2>4, <2>5, Zenon DEF TypeOK, QueueInv, QueuesExact
    <3> QED BY <2>5, <2>6, <3>1, ConcatElems, SMTT(30)
  <2>8. RunningIsCurrent'
    BY <2>1, <2>4, <2>6, Zenon DEF QueueInv, RunningIsCurrent, AllThreads
  <2>9. QueuesExact'
    <3>1. ASSUME NEW v \in Threads
          PROVE  /\ v \in Elems(runq') <=> state'[v] = "RUNNABLE"
                 /\ v \in Elems(zombieq') <=> state'[v] = "ZOMBIE"
      BY <2>1, <2>4, <2>6, <2>7, Zenon DEF QueueInv, QueuesExact, AllThreads
    <3> QED BY <2>1, <2>7, <3>1, Zenon DEF QueueInv, QueuesExact
  <2>10. StateFitsPlace'
    BY <2>1, <2>4, <2>6, Zenon DEF QueueInv, StateFitsPlace, AllThreads
  <2>11. SleepersBlocked'
    <3> SUFFICES ASSUME NEW v \in DOMAIN sleepq \ expired
                 PROVE  state'[v] \in {"SLEEPING", "COND_WAIT", "IO_WAIT"}
      BY <2>3, Zenon DEF SleepersBlocked
    <3>1. v \in AllThreads /\ v # Idle
      BY Zenon DEF TypeOK, AllThreads
    <3> QED BY <2>6, <3>1, Zenon DEF QueueInv, SleepersBlocked
  <2>12. PollersQueued'
    BY <2>1, <2>4, <2>6, Zenon DEF QueueInv, PollersQueued, AllThreads
  <2>13. IdleRunsAlone'
    BY <2>1, <2>6, Zenon DEF IdleRunsAlone, AllThreads
  <2> QED BY <2>8, <2>9, <2>10, <2>11, <2>12, <2>13, Zenon DEF QueueInv
<1>21. ASSUME IdleExit PROVE QueueInv'
  <2>1. /\ current = Idle /\ idle' = "exit"
        /\ UNCHANGED <<state, pc, runq, ioq, zombieq, sleepq, current>>
    BY <1>21, Zenon DEF IdleExit
  <2>2. RunningIsCurrent' /\ QueuesExact' /\ StateFitsPlace'
    BY <2>1, Zenon DEF QueueInv, RunningIsCurrent, QueuesExact, StateFitsPlace
  <2>3. SleepersBlocked' /\ PollersQueued' /\ IdleRunsAlone'
    BY <2>1, Zenon DEF QueueInv, SleepersBlocked, PollersQueued, IdleRunsAlone
  <2> QED BY <2>2, <2>3 DEF QueueInv
<1>22. CASE UNCHANGED vars \/ Exited
  BY <1>1, <1>22, Zenon DEF vars, Exited
<1>23. ASSUME NEW t \in Threads, Call(t) PROVE QueueInv'
  <2>1. ASSUME NEW c \in Conds, st_cond_new(t, c) \/ st_cond_destroy(t, c)
        PROVE  QueueInv'
    BY <1>1, <2>1, Zenon DEF st_cond_new, st_cond_destroy
  <2>2. ASSUME NEW m \in Mutexes, \/ st_mutex_new(t, m) \/ st_mutex_destroy(t, m)
                                  \/ st_mutex_trylock(t, m)
        PROVE  QueueInv'
    BY <1>1, <1>4, <2>2, Zenon DEF st_mutex_new, st_mutex_destroy, st_mutex_trylock
  <2>3. ASSUME NEW timeout \in Timeouts \cup {NoTimeout}, NEW c \in Conds,
               st_cond_timedwait(t, c, timeout)
        PROVE  QueueInv'
    BY <1>3, <1>7, <2>3, Zenon DEF st_cond_timedwait
  <2>4. ASSUME NEW m \in Mutexes, st_mutex_lock(t, m)
        PROVE  QueueInv'
    BY <1>3, <1>4, <1>8, <2>4, Zenon DEF st_mutex_lock
  <2> QED
    BY <1>5, <1>6, <1>10, <1>11, <1>12, <1>13, <1>15, <1>16, <1>17, <1>23, Zenon,
       <2>1, <2>2, <2>3, <2>4 DEF Call
<1>24. ASSUME NEW t \in Threads, Resume(t) PROVE QueueInv'
  BY <1>9, <1>14, <1>16, <1>18, <1>24, Zenon DEF Resume
<1> QED
  BY <1>2, <1>19, <1>20, <1>21, <1>22, <1>23, <1>24 DEF Next, IdleStep
-----------------------------------------------------------------------------
(* The inductive invariant: the types, the kinds of objects waited for and *)
(* the queues.                                                             *)
THEOREM SchedInvariant == Spec => []SchedInv
<1>1. Init => SchedInv
  <2>1. Init => WaitsForItsKind
    BY Zenon DEF Init, WaitsForItsKind
  <2> QED BY <2>1, InitType, InitQueues DEF SchedInv
<1>2. SchedInv /\ [Next]_vars => SchedInv'
  <2>1. SchedInv => TypeOK /\ WaitsForItsKind
    BY DEF SchedInv
  <2> QED BY <2>1, NextType, NextKind, NextQueues DEF SchedInv
<1> QED BY <1>1, <1>2, PTL DEF Spec

(* Type correctness. *)
THEOREM TypeCorrect == Spec => []TypeOK
<1>1. SchedInv => TypeOK
  BY DEF SchedInv
<1> QED BY <1>1, SchedInvariant, PTL

(* The run queue and the zombie queue hold exactly the runnable threads    *)
(* and the zombies, each once, however the calls that insert into them     *)
(* interleave.                                                             *)
THEOREM QueuesCorrect == Spec => []QueuesExact
<1>1. SchedInv => QueuesExact
  BY DEF SchedInv, QueueInv
<1> QED BY <1>1, SchedInvariant, PTL

(* The thread about to be resumed is runnable: the head of the run queue,  *)
(* or the idle thread, which is not running when nobody is.                *)
LEMMA SchedNext == SchedInv => NextIsRunnable
<1> SUFFICES ASSUME SchedInv, current = None PROVE NextIsRunnable
  BY DEF NextIsRunnable
<1>1. \A t \in AllThreads : state[t] # "RUNNING"
  BY VpAssumption, Zenon DEF SchedInv, QueueInv, RunningIsCurrent, AllThreads
<1>2. CASE runq = <<>>
  <2>1. state[Idle] = "RUNNABLE"
    BY <1>1 DEF SchedInv, QueueInv, RunningIsCurrent, AllThreads
  <2> QED BY <1>1, <1>2, <2>1 DEF NextIsRunnable, NextThread
<1>3. CASE runq # <<>>
  <2>1. runq \in Seq(Threads)
    BY Zenon DEF SchedInv, TypeOK
  <2>2. Head(runq) \in Elems(runq) /\ Head(runq) \in Threads
    BY <1>3, <2>1, TailElems, ElemsOfSeq
  <2>3. state[Head(runq)] = "RUNNABLE"
    BY <2>2 DEF SchedInv, QueueInv, QueuesExact
  <2> QED BY <1>1, <1>3, <2>3 DEF NextIsRunnable, NextThread
<1> QED BY <1>2, <1>3

(* The assertion in _st_vp_schedule never fails. *)
THEOREM ScheduleAssertion == Spec => []NextIsRunnable
BY SchedNext, SchedInvariant, PTL

(* The idle thread runs only when nobody is runnable, and every woken      *)
(* poller returns before that, so it only sees pollqs of blocked threads.  *)
LEMMA SchedDispatch == SchedInv => DispatchFindsWaiters
<1> SUFFICES ASSUME SchedInv, current = Idle, idle = "idle"
             PROVE  runq = <<>> /\ \A t \in Elems(ioq) : state[t] = "IO_WAIT"
  BY DEF DispatchFindsWaiters
<1>1. runq = <<>>
  BY DEF SchedInv, QueueInv, IdleRunsAlone
<1>2. Elems(runq) = {} /\ Elems(ioq) \subseteq Threads
  BY <1>1, ElemsOfSeq, SMTT(30) DEF Elems, SchedInv, TypeOK
<1>3. \A t \in Threads : state[t] # "RUNNABLE"
  BY <1>2, Zenon DEF SchedInv, QueueInv, QueuesExact
<1>4. \A t \in Threads : state[t] # "RUNNING"
  BY VpAssumption DEF SchedInv, QueueInv, RunningIsCurrent, AllThreads
<1> QED BY <1>1, <1>2, <1>3, <1>4, Zenon DEF SchedInv, QueueInv, PollersQueued

(* The dispatch functions make the owner of a ready pollq runnable without *)
(* looking at its state; every pollq they see belongs to a thread still in *)
(* IO_WAIT.                                                                *)
THEOREM DispatchSafe == Spec => []DispatchFindsWaiters
BY SchedDispatch, SchedInvariant, PTL

(* No way of waking a thread up leaves it in the timeout heap. *)
THEOREM HeapHoldsBlocked == Spec => []SleepersBlocked
<1>1. SchedInv => SleepersBlocked
  BY DEF SchedInv, QueueInv
<1> QED BY <1>1, SchedInvariant, PTL
=============================================================================
