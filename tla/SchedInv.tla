------------------------------ MODULE SchedInv ------------------------------
(***************************************************************************)
(* The facts about StSched from which its safety properties follow by      *)
(* induction.                                                              *)
(***************************************************************************)
EXTENDS StSched

(* The places inside library calls where a thread waits for an object, and *)
(* the kind of object.                                                     *)
WaitsForItsKind ==
  \A t \in Threads : /\ pc[t] = "cond" => obj[t] \in Conds
                     /\ pc[t] = "mutex" => obj[t] \in Mutexes
                     /\ pc[t] = "join" => obj[t] \in Threads

(* Exactly the current thread is RUNNING. *)
RunningIsCurrent ==
  /\ \A t \in AllThreads : state[t] = "RUNNING" <=> current = t
  /\ state[Idle] \in {"RUNNING", "RUNNABLE"}

(* Each blocked state belongs to the calls that block in it. *)
StateFitsPlace ==
  \A t \in Threads :
    /\ state[t] = "IO_WAIT" => pc[t] = "poll"
    /\ state[t] = "LOCK_WAIT" => pc[t] = "mutex"
    /\ state[t] = "COND_WAIT" => pc[t] \in {"cond", "join"}
    /\ state[t] \in {"SLEEPING", "SUSPENDED"} => pc[t] = "usleep"
    /\ state[t] = "ZOMBIE" => pc[t] = "zombie"
    /\ state[t] = "NONE" <=> pc[t] \in {"unborn", "freed"}

(* The I/O queue holds every thread in IO_WAIT, and besides only pollers   *)
(* that were made runnable and have not returned.                          *)
PollersQueued ==
  /\ NoRepeat(ioq)
  /\ \A t \in Threads :
       /\ t \in Elems(ioq) => /\ pc[t] = "poll"
                              /\ state[t] \in {"IO_WAIT", "RUNNABLE", "RUNNING"}
       /\ state[t] = "IO_WAIT" => t \in Elems(ioq)

(* The idle thread starts its loop only when the run queue is empty and    *)
(* finishes it before anybody else runs.                                   *)
IdleRunsAlone ==
  /\ current = Idle /\ idle = "idle" => runq = <<>>
  /\ idle # "idle" => current = Idle

QueueInv ==
  /\ RunningIsCurrent
  /\ QueuesExact
  /\ StateFitsPlace
  /\ SleepersBlocked
  /\ PollersQueued
  /\ IdleRunsAlone

SchedInv == TypeOK /\ WaitsForItsKind /\ QueueInv
-----------------------------------------------------------------------------
(* A thread queues for a mutex it does not hold and is blocked only while  *)
(* the mutex has an owner; once it is runnable again it has been handed    *)
(* the mutex or has been interrupted; only a thread queued for a mutex is  *)
(* handed one, and an unallocated mutex is free.                           *)
MutexWaits ==
  /\ \A t \in Threads :
       /\ pc[t] = "mutex" => t \notin holds[obj[t]]
       /\ pc[t] = "mutex" /\ state[t] = "LOCK_WAIT" => owner[obj[t]] # None
       /\ pc[t] = "mutex" /\ state[t] # "LOCK_WAIT" =>
            woken[t] = "handoff" \/ (woken[t] = "interrupt" /\ t \in interrupted)
       /\ woken[t] = "handoff" => pc[t] = "mutex" /\ state[t] # "LOCK_WAIT"
  /\ \A m \in Mutexes \ objects : owner[m] = None

MutexInv == OwnerKnows /\ MutexWaits
-----------------------------------------------------------------------------
(* What woke a thread that is inside a call and no longer blocked, and     *)
(* what its flags say about it.                                            *)
WakeRecorded(t) ==
  /\ pc[t] \in {"cond", "join"} /\ state[t] # "COND_WAIT" =>
       /\ woken[t] \in {"signal", "clock", "interrupt"}
       /\ woken[t] = "clock" <=> t \in timedout
       /\ woken[t] = "interrupt" => t \in interrupted
  /\ t \in timedout => pc[t] \in {"cond", "join"} /\ state[t] # "COND_WAIT"
  /\ pc[t] = "poll" /\ state[t] # "IO_WAIT" =>
       /\ woken[t] \in {"io", "clock", "interrupt"}
       /\ woken[t] = "io" <=> t \notin Elems(ioq)
       /\ woken[t] = "interrupt" => t \in interrupted
  /\ pc[t] = "usleep" /\ state[t] \in {"RUNNABLE", "RUNNING"} =>
       /\ woken[t] \in {"clock", "interrupt"}
       /\ woken[t] = "interrupt" => t \in interrupted

WakesRecorded == \A t \in Threads : WakeRecorded(t)

(* At most one thread joins another at a time, without a timeout, and when *)
(* it has been signalled the target is a zombie.                           *)
JoinersAlone ==
  \A t \in Threads :
    pc[t] = "join" =>
      /\ \A u \in Threads : pc[u] = "join" /\ obj[u] = obj[t] => u = t
      /\ t \notin DOMAIN sleepq
      /\ woken[t] = "signal" /\ state[t] # "COND_WAIT" => state[obj[t]] = "ZOMBIE"

ResultInv == WakesRecorded /\ JoinersAlone
=============================================================================
