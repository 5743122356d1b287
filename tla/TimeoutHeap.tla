---------------------------- MODULE TimeoutHeap -----------------------------
(***************************************************************************)
(* The timeout heap of sched.c: threads are put to sleep, taken out again, *)
(* and found due when the clock is read, which may be set forward and back.*)
(***************************************************************************)
EXTENDS HeapOps

CONSTANTS
  Timeouts, Clocks,
  UtimeBits, IntBits,   \* the widths of st_utime_t and of int
  Milli                 \* units of st_utime_t in a millisecond

(* No due time overflows st_utime_t, 64 bits of microseconds.  What is left*)
(* until then need not fit an int of milliseconds.                         *)
ASSUME HeapAssumption ==
  /\ None \notin Threads
  /\ Timeouts \subseteq Nat
  /\ Clocks \subseteq Nat
  /\ Milli \in Nat \ {0} /\ IntBits \in Nat \ {0} /\ UtimeBits \in Nat
  /\ \A timeout \in Timeouts, now \in Clocks : now + timeout < 2^UtimeBits

VARIABLES
  heap,    \* the pointers, the heap_index fields and _ST_SLEEPQ_SIZE
  due,     \* thread->due
  onq,     \* threads with _ST_FL_ON_SLEEPQ
  clock,   \* _ST_LAST_CLOCK
  fired    \* threads made runnable by the last _st_vp_check_clock, in order

vars == <<heap, due, onq, clock, fired>>

-----------------------------------------------------------------------------
Init ==
  /\ heap = EmptyHeap
  /\ due = [t \in Threads |-> 0]
  /\ onq = {}
  /\ clock \in Clocks
  /\ fired = <<>>

_st_add_sleep_q(t, timeout) ==
  /\ t \notin onq
  /\ due' = [due EXCEPT ![t] = (clock + timeout) % 2^UtimeBits]
  /\ onq' = onq \cup {t}
  /\ heap' = heap_insert([ptr |-> heap.ptr,
                          index |-> [heap.index EXCEPT ![t] = heap.size + 1],
                          size |-> heap.size + 1],
                         due', t).heap
  /\ fired' = <<>>
  /\ UNCHANGED clock

_st_del_sleep_q(t) ==
  /\ t \in onq
  /\ heap' = heap_delete(heap, due, t)
  /\ onq' = onq \ {t}
  /\ due' = [due EXCEPT ![t] = 0]
  /\ fired' = <<>>
  /\ UNCHANGED clock

_st_vp_check_clock(now) ==
  LET r == PopDue(heap, due, now) IN
  /\ clock' = now
  /\ heap' = r.heap
  /\ fired' = r.fired
  /\ onq' = onq \ Elems(r.fired)
  /\ due' = [t \in Threads |-> IF t \in Elems(r.fired) THEN 0 ELSE due[t]]

(* The conversion (int). *)
ToInt(n) ==
  LET m == n % 2^IntBits IN IF m < 2^(IntBits - 1) THEN m ELSE m - 2^IntBits

(* How long the dispatch functions of poll and epoll wait at most, in      *)
(* milliseconds; -1 is for ever.                                           *)
DispatchTimeout ==
  LET first == heap.ptr[Root]
      min_timeout == IF due[first] <= clock THEN 0 ELSE due[first] - clock
  IN  IF first = None THEN -1 ELSE ToInt(min_timeout \div Milli)

Next ==
  \/ \E t \in Threads : \/ _st_del_sleep_q(t)
                        \/ \E timeout \in Timeouts : _st_add_sleep_q(t, timeout)
  \/ \E now \in Clocks : _st_vp_check_clock(now)

Spec == Init /\ [][Next]_vars
-----------------------------------------------------------------------------
TypeOK ==
  /\ heap.ptr \in [Places -> Threads \cup {None}]
  /\ heap.index \in [Threads -> Nat]
  /\ heap.size \in Nat
  /\ due \in [Threads -> Nat]
  /\ onq \subseteq Threads
  /\ clock \in Clocks
  /\ fired \in Seq(Threads)

(* The thread at position n. *)
At(n) == heap.ptr[PlaceOf(heap, n)]

(* The idle thread does not wait for ever, sleeps past nobody's due time,  *)
(* and not a millisecond less than it may.                                 *)
Punctual ==
  /\ DispatchTimeout >= 0
  /\ \A t \in onq : due[t] > clock => clock + DispatchTimeout * Milli <= due[t]
  /\ \E t \in onq : due[t] < clock + (DispatchTimeout + 1) * Milli

(* What is left until the first due time fits an int of milliseconds.  It  *)
(* may not when a timeout is longer than 2^31 milliseconds, or when the    *)
(* clock is set back by that much.                                         *)
Fits == \E t \in onq : due[t] < clock + Milli * 2^(IntBits - 1)

(* The idle thread waits for ever when nobody sleeps, and else it wakes up *)
(* in time, unless the conversion to int in the dispatch functions         *)
(* (event.c:1126) loses something.                                         *)
WakesInTime ==
  /\ onq = {} => DispatchTimeout = -1
  /\ Fits => Punctual

(* docs/timeout_heap.txt: the tree is "fully balanced" and "left-adjusted".*)
(* The threads flagged ON_SLEEPQ are exactly those found at positions 1 to *)
(* _ST_SLEEPQ_SIZE, each knows its position, and nothing hangs below.  The *)
(* order survives every insertion and deletion, in particular the deletion *)
(* of an inner thread whose replacement comes from another branch and may  *)
(* have to rise instead of sink.  So the idle thread, which looks at the   *)
(* root only, wakes up in time for everybody, as WakesInTime states it.    *)
HeapShape ==
  /\ TypeOK
  /\ WakesInTime
  /\ onq = {At(n) : n \in 1..heap.size}
  /\ \A n \in 1..heap.size :
       /\ heap.index[At(n)] = n
       /\ 2 * n > heap.size => heap.ptr[Left(At(n))] = None
       /\ 2 * n + 1 > heap.size => heap.ptr[Right(At(n))] = None
       /\ n > 1 => due[At(n \div 2)] <= due[At(n)]

(* The heap implements the sleep queue the scheduler relies on: a reading  *)
(* of the clock finds all threads that are due, earliest first, and        *)
(* removing a thread by st_cond_signal or st_thread_interrupt loses no     *)
(* other thread's timeout.                                                 *)
Abstract ==
  INSTANCE SleepQueue WITH queue <- [t \in onq |-> due[t]]

ImplementsSleepQueue == Abstract!Spec
=============================================================================
