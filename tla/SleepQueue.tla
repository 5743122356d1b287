----------------------------- MODULE SleepQueue -----------------------------
(***************************************************************************)
(* What the scheduler expects of the sleep queue: a set of threads with    *)
(* the time each is due.  Threads are added and removed one at a time, and *)
(* a reading of the clock takes out all threads that are due, earliest     *)
(* first.  The clock may be set back between readings.                     *)
(***************************************************************************)
EXTENDS Clist

CONSTANTS Threads, Timeouts, Clocks

VARIABLES
  queue,   \* for each sleeping thread, the time it is due
  clock,   \* _ST_LAST_CLOCK
  fired    \* the threads the last step took out because they were due

Init ==
  /\ queue = [t \in {} |-> 0]
  /\ clock \in Clocks
  /\ fired = <<>>

Add(t, timeout) ==
  /\ t \notin DOMAIN queue
  /\ queue' = [u \in DOMAIN queue \cup {t} |->
                 IF u = t THEN clock + timeout ELSE queue[u]]
  /\ fired' = <<>>
  /\ UNCHANGED clock

Remove(t) ==
  /\ t \in DOMAIN queue
  /\ queue' = [u \in DOMAIN queue \ {t} |-> queue[u]]
  /\ fired' = <<>>
  /\ UNCHANGED clock

Expire(now) ==
  LET due == {t \in DOMAIN queue : queue[t] <= now} IN
  /\ clock' = now
  /\ fired' \in Arrangements(due, queue)
  /\ queue' = [u \in DOMAIN queue \ due |-> queue[u]]

Next ==
  \/ \E t \in Threads : Remove(t) \/ \E timeout \in Timeouts : Add(t, timeout)
  \/ \E now \in Clocks : Expire(now)

Spec == Init /\ [][Next]_<<queue, clock, fired>>
=============================================================================
