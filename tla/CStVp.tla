------------------------------- MODULE CStVp --------------------------------
(***************************************************************************)
(* Class CStVp (st_vp.cpp), the C++ port of sched.c, sync.c and stk.c.     *)
(* A library call is one step up to its context switch and one from there  *)
(* to its return, as in StVp; here a step is an operator on the whole      *)
(* state v of the object.  The members of v are                            *)
(*   thr       the thread objects: state, the place where the thread will  *)
(*             resume, the condition variable or join target waited for,   *)
(*             _ST_FL_INTERRUPT, _ST_FL_TIMEDOUT, term # NULL, the stack   *)
(*             and the size asked for, and what last woke the thread       *)
(*   run_q, io_q, zombie_q, wait_q                                         *)
(*   heap      m_sleep_q, the timeout heap, see HeapOps                    *)
(*   due       the due times of the threads in it, from last_clock on      *)
(*   conds     the condition variables that are allocated                  *)
(*   curr      m_curr_thread, None inside st_vp_schedule                   *)
(*   idle      where the idle thread is in its loop, and its state         *)
(*   active    m_st_active_count                                           *)
(*   pool      m_st_free_stacks                                            *)
(***************************************************************************)
EXTENDS HeapOps, StackPool

CONSTANTS
  Primordial, Idle, Conds, Timeouts, NoTimeout, Elapsed,
  PageSize, DefaultSize   \* _ST_PAGE_SIZE, ST_DEFAULT_STACK_SIZE

VARIABLE vp

NewThread ==
  [state |-> "NONE", at |-> "unborn", obj |-> None, intr |-> FALSE, tout |-> FALSE,
   term |-> FALSE, stack |-> 0, asked |-> 0, woke |-> "none"]

(* st_init: the idle thread is created like any other, with the first      *)
(* stack, and then taken off the run queue and out of the count.           *)
VpInit ==
  vp = [thr |-> [t \in Threads |->
                   IF t = Primordial
                   THEN [NewThread EXCEPT !.state = "RUNNING", !.at = "run"]
                   ELSE NewThread],
        run_q |-> <<>>, io_q |-> <<>>, zombie_q |-> <<>>,
        wait_q |-> [o \in Conds \cup Threads |-> <<>>],
        heap |-> EmptyHeap, due |-> [t \in Threads |-> 0],
        conds |-> {}, curr |-> Primordial,
        idle |-> [at |-> "idle", state |-> "RUNNABLE"], active |-> 1,
        pool |-> [free |-> <<>>, size |-> <<Rounded(0, PageSize, DefaultSize)>>]]

Running(t) == vp.curr = t /\ vp.thr[t].at = "run"

Resumed(t, place) == vp.curr = t /\ vp.thr[t].at = place

Exists(t) == vp.thr[t].at \notin {"unborn", "freed"}
-----------------------------------------------------------------------------
(* The steps all calls are made of. *)

(* The threads of ws are made runnable, in that order, because of why. *)
AddRunq(v, ws, why) ==
  [v EXCEPT !.thr = [t \in Threads |->
                       IF t \in Elems(ws)
                       THEN [@[t] EXCEPT !.state = "RUNNABLE", !.woke = why]
                       ELSE @[t]],
            !.run_q = @ \o ws]

(* The port's functions on the heap are those of sched.c. *)
heap_insert_new(h, d, thread) == heap_insert(h, d, thread)

heap_delete_new(h, d, thread) == heap_delete(h, d, thread)

(* _ST_FL_ON_SLEEPQ. *)
OnSleepq(v, t) == v.heap.index[t] # 0

(* A mistake to compare with: the threads stay in the heap. *)
StayAsleep(v, ws) == v

(* st_del_sleep_q, for one after the other of ws if it is in the heap. *)
st_del_sleep_q(v, ws) ==
  FoldLeft(LAMBDA w, t : IF OnSleepq(w, t)
                         THEN [w EXCEPT !.heap = heap_delete_new(@, w.due, t),
                                        !.due[t] = 0]
                         ELSE w, v, ws)

(* st_add_sleep_q, when there is a timeout. *)
st_add_sleep_q(v, t, timeout) ==
  LET d == [v.due EXCEPT ![t] = timeout]
      h == [v.heap EXCEPT !.index[t] = v.heap.size + 1, !.size = @ + 1]
  IN  IF timeout = NoTimeout THEN v
      ELSE [v EXCEPT !.heap = heap_insert_new(h, d, t).heap, !.due = d]

Switch(v, t, state, place) ==
  [v EXCEPT !.thr[t].state = state, !.thr[t].at = place, !.curr = None]

Cleared(v, t) == [v EXCEPT !.thr[t].intr = FALSE]

Returned(v, t) ==
  [v EXCEPT !.thr[t].at = "run", !.thr[t].obj = None, !.thr[t].woke = "none"]

(* A call that would block fails at once if an interrupt is pending. *)
Unless(v, t, blocked) == IF v.thr[t].intr THEN Cleared(v, t) ELSE blocked

(* st_vp_schedule. *)
st_vp_schedule ==
  /\ vp.curr = None
  /\ vp' = IF vp.run_q # <<>>
           THEN [vp EXCEPT !.curr = Head(vp.run_q), !.run_q = Tail(@),
                           !.thr[Head(vp.run_q)].state = "RUNNING"]
           ELSE [vp EXCEPT !.curr = Idle, !.idle.state = "RUNNING"]
-----------------------------------------------------------------------------
(* Sleeping and condition variables. *)

st_usleep(t, usecs) ==
  /\ Running(t)
  /\ vp' = Unless(vp, t,
             Switch(st_add_sleep_q(vp, t, usecs), t,
                    IF usecs = NoTimeout THEN "SUSPENDED" ELSE "SLEEPING", "usleep"))

UsleepReturn(t) ==
  /\ Resumed(t, "usleep")
  /\ vp' = Returned(Cleared(vp, t), t)

st_cond_new(t, c) ==
  /\ Running(t)
  /\ c \notin vp.conds
  /\ vp' = [vp EXCEPT !.conds = @ \cup {c}, !.wait_q[c] = <<>>]

st_cond_destroy(t, c) ==
  /\ Running(t)
  /\ c \in vp.conds
  /\ vp.wait_q[c] = <<>>
  /\ vp' = [vp EXCEPT !.conds = @ \ {c}]

(* The caller queues itself on c and blocks. *)
Wait(v, t, c, place, timeout) ==
  Switch(st_add_sleep_q([v EXCEPT !.wait_q[c] = Append(@, t), !.thr[t].obj = c],
                        t, timeout),
         t, "COND_WAIT", place)

st_cond_timedwait(t, c, timeout) ==
  /\ Running(t)
  /\ c \in vp.conds
  /\ vp' = Unless(vp, t, Wait(vp, t, c, "cond", timeout))

WaitFailed(t) == vp.thr[t].tout \/ vp.thr[t].intr

(* The caller has run again: it leaves the wait queue, the flags are       *)
(* cleared.                                                                *)
Waited(v, t) ==
  [v EXCEPT !.wait_q[v.thr[t].obj] = Unlink(@, t),
            !.thr[t].tout = FALSE, !.thr[t].intr = FALSE]

CondReturn(t) ==
  /\ Resumed(t, "cond")
  /\ vp' = Returned(Waited(vp, t), t)

_st_cond_signal(v, c, broadcast) ==
  LET waiting == SelectSeq(v.wait_q[c], LAMBDA t : v.thr[t].state = "COND_WAIT")
      ws == IF broadcast \/ waiting = <<>> THEN waiting ELSE <<Head(waiting)>>
  IN  AddRunq(st_del_sleep_q(v, ws), ws, "signal")

st_cond_signal(t, c, broadcast) ==
  /\ Running(t)
  /\ c \in vp.conds
  /\ vp' = _st_cond_signal(vp, c, broadcast)
-----------------------------------------------------------------------------
(* Threads. *)

(* The outcomes of st_stack_new, and st_stack_free. *)
st_stack_new(v, size) ==
  {[v |-> [v EXCEPT !.pool = r.pool], stack |-> r.stack] :
     r \in _st_stack_new(v.pool, size)}

st_stack_free(v, s) == [v EXCEPT !.pool = _st_stack_free(@, s)]

Created(v, u, joinable, s, size) ==
  [v EXCEPT !.thr[u] = [NewThread EXCEPT !.state = "RUNNABLE", !.at = "run",
                          !.term = joinable, !.stack = s, !.asked = size],
            !.active = @ + 1, !.run_q = Append(@, u)]

(* st_thread_create, its failure for want of a termination condition       *)
(* variable, which gives the stack back, and its failure for want of a     *)
(* stack.                                                                  *)
st_thread_create(t, u, joinable, size) ==
  /\ Running(t)
  /\ vp.thr[u].at = "unborn"
  /\ \E r \in st_stack_new(vp, Rounded(size, PageSize, DefaultSize)) :
       /\ r.stack # 0
       /\ vp' = Created(r.v, u, joinable, r.stack, size)

CreateFails(t, size) ==
  /\ Running(t)
  /\ \E r \in st_stack_new(vp, Rounded(size, PageSize, DefaultSize)) :
       vp' = IF r.stack = 0 THEN vp ELSE st_stack_free(r.v, r.stack)

(* A mistake to compare with: the stack is given back by the zombie and    *)
(* once more when it was joined.                                           *)
ZombieFrees(v, t) ==
  [_st_cond_signal([v EXCEPT !.thr[t].state = "ZOMBIE", !.thr[t].at = "zombie",
                             !.zombie_q = Append(@, t),
                             !.pool = _st_stack_free(@, v.thr[t].stack)],
                   t, FALSE) EXCEPT !.curr = None]

(* The two ends of st_thread_exit: a joinable thread becomes a zombie and  *)
(* signals its termination condition variable; any other gives its stack   *)
(* back, unless it is the primordial thread's, and is gone.                *)
Zombie(v, t) ==
  [_st_cond_signal([v EXCEPT !.thr[t].state = "ZOMBIE", !.thr[t].at = "zombie",
                             !.zombie_q = Append(@, t)],
                   t, FALSE) EXCEPT !.curr = None]

Gone(v, t) ==
  LET w == IF t = Primordial THEN v ELSE st_stack_free(v, v.thr[t].stack)
  IN  [Switch(w, t, "NONE", "freed") EXCEPT !.thr[t].term = FALSE]

st_thread_exit(t) ==
  LET v == [vp EXCEPT !.active = @ - 1] IN
  /\ Running(t)
  /\ vp' = IF v.thr[t].term THEN Zombie(v, t) ELSE Gone(v, t)

(* The zombie was joined and runs again. *)
ExitResume(t) ==
  /\ Resumed(t, "zombie")
  /\ vp' = Gone(vp, t)

(* The end of st_thread_join. *)
Reap(v, u) == AddRunq([v EXCEPT !.zombie_q = Unlink(@, u)], <<u>>, "reap")

st_thread_join(t, u) ==
  /\ Running(t)
  /\ Exists(u)
  /\ vp.thr[u].term
  /\ u # t
  /\ vp.wait_q[u] = <<>>
  /\ vp' = IF vp.thr[u].state = "ZOMBIE" THEN Reap(vp, u)
           ELSE Unless(vp, t, Wait(vp, t, u, "join", NoTimeout))

JoinReturn(t) ==
  LET u == vp.thr[t].obj
      v == Waited(vp, t)
  IN  /\ Resumed(t, "join")
      /\ vp' = IF WaitFailed(t) THEN Returned(v, t)
               ELSE IF v.thr[u].state # "ZOMBIE" THEN Wait(v, t, u, "join", NoTimeout)
               ELSE Reap([v EXCEPT !.thr[t].at = "run", !.thr[t].obj = None], u)

st_thread_interrupt(t, u) ==
  LET v == [vp EXCEPT !.thr[u].intr = TRUE] IN
  /\ Running(t)
  /\ Exists(u)
  /\ vp.thr[u].state # "ZOMBIE"
  /\ vp' = IF vp.thr[u].state \in {"RUNNING", "RUNNABLE"} THEN v
           ELSE AddRunq(st_del_sleep_q(v, <<u>>), <<u>>, "interrupt")
-----------------------------------------------------------------------------
(* Polling, and the idle thread's loop. *)

(* st_poll after st_epoll_pollset_add, up to its context switch. *)
PollBlock(v, t, timeout) ==
  Switch(st_add_sleep_q([v EXCEPT !.io_q = Append(@, t)], t, timeout),
         t, "IO_WAIT", "poll")

(* Whether st_poll, running again, is still on the queue; it leaves it. *)
OnIoq(t) == t \in Elems(vp.io_q)

Polled(v, t) ==
  LET w == IF OnIoq(t) THEN [v EXCEPT !.io_q = Unlink(@, t)] ELSE v
  IN  Returned(Cleared(w, t), t)

(* The idle thread may dispatch. *)
AtIdle == vp.curr = Idle /\ vp.idle.at = "idle" /\ vp.active > 0

(* What st_epoll_dispatch does to the threads of hit. *)
Dispatched(v, hit) ==
  LET ws == SelectSeq(v.io_q, LAMBDA t : t \in hit) IN
  [AddRunq(st_del_sleep_q(v, ws), ws, "io")
     EXCEPT !.io_q = SelectSeq(@, LAMBDA t : t \notin hit), !.idle.at = "clock"]

(* After the loop of st_vp_check_clock, when the clock advanced by elapsed *)
(* and the loop took r.fired out of the heap.                              *)
Expired(v, elapsed, r) ==
  [AddRunq(v, r.fired, "clock") EXCEPT
     !.heap = r.heap,
     !.due = [t \in Threads |-> IF r.heap.index[t] = 0 THEN 0 ELSE @[t] - elapsed],
     !.thr = [t \in Threads |->
                IF t \in Elems(r.fired) /\ v.thr[t].state = "COND_WAIT"
                THEN [@[t] EXCEPT !.tout = TRUE] ELSE @[t]]]

st_vp_check_clock(elapsed) ==
  /\ vp.curr = Idle
  /\ vp.idle.at = "clock"
  /\ vp' = [Expired(vp, elapsed, PopDue(vp.heap, vp.due, elapsed)) EXCEPT
              !.idle = [at |-> "idle", state |-> "RUNNABLE"], !.curr = None]

(* No thread is left: exit(0). *)
IdleExit ==
  /\ vp.curr = Idle
  /\ vp.idle.at = "idle"
  /\ vp.active <= 0
  /\ vp' = [vp EXCEPT !.idle.at = "exit"]
=============================================================================
