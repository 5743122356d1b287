------------------------------ MODULE Library -------------------------------
(***************************************************************************)
(* The whole library: the scheduler, the stacks, the epoll mechanism,      *)
(* descriptor objects, input and output, and private data, as an           *)
(* application with several threads drives them.  The C library and its    *)
(* C++ port differ here only in the private data and the mutexes, which    *)
(* the port does not have; mutexes are in StSync.                          *)
(***************************************************************************)
EXTENDS PrivateData

CONSTANT
  Apps   \* applications: the kinds of calls each thread makes, how threads are
         \* created, and how many descriptors may be open at a time

Kinds == {"create", "join", "interrupt", "exit", "sleep", "cond", "socket", "open",
          "close", "in", "out", "accept", "data"}

ASSUME LibraryAssumption ==
  /\ Primordial \in Threads /\ Idle \notin Threads
  /\ Timeouts \subseteq Nat /\ NoTimeout \notin Timeouts
  /\ {PageSize, DefaultSize} \subseteq Nat \ {0}
  /\ Refusals \subseteq SUBSET Osfds
  /\ \A a \in Apps : /\ a.calls \in [Threads -> SUBSET Kinds]
                     /\ a.joinable \subseteq BOOLEAN
                     /\ a.sizes \subseteq Nat
                     /\ a.limit \in 0..Cardinality(Osfds)

VARIABLE app   \* which of them it is

vars == <<vp, ioVars, dataVars, app>>

Init ==
  /\ VpInit
  /\ IoInit
  /\ DataInit
  /\ app \in Apps

Vp(A) == A /\ UNCHANGED <<ioVars, dataVars>>

Io(A) == A /\ UNCHANGED dataVars

Does(t, kind) == kind \in app.calls[t]

MayOpen == Cardinality(OpenFds) < app.limit

AnyTimeout == Timeouts \cup {NoTimeout}

(* Calls of the scheduler. *)
ThreadCall(t) ==
  \/ /\ Does(t, "create")
     /\ \E u \in Threads, joinable \in app.joinable, size \in app.sizes :
          /\ st_thread_create(t, u, joinable, size)
          /\ DataCleared(vp'.thr[u].stack)
          /\ UNCHANGED ioVars
  \/ Does(t, "create") /\ \E size \in app.sizes : Vp(CreateFails(t, size))
  \/ Does(t, "join") /\ \E u \in Threads : Vp(st_thread_join(t, u))
  \/ Does(t, "interrupt") /\ \E u \in Threads : Vp(st_thread_interrupt(t, u))
  \/ /\ Does(t, "exit")
     /\ st_thread_exit(t)
     /\ _st_thread_cleanup(t)
     /\ UNCHANGED ioVars
  \/ Does(t, "sleep") /\ \E timeout \in AnyTimeout : Vp(st_usleep(t, timeout))
  \/ /\ Does(t, "cond")
     /\ \E c \in Conds :
          \/ Vp(st_cond_new(t, c))
          \/ Vp(st_cond_destroy(t, c))
          \/ \E timeout \in AnyTimeout : Vp(st_cond_timedwait(t, c, timeout))
          \/ \E broadcast \in BOOLEAN : Vp(st_cond_signal(t, c, broadcast))

(* Calls on descriptors. *)
IoCall(t) ==
  \/ /\ Does(t, "socket")
     /\ \/ MayOpen /\ Io(Socket(t))
        \/ \E f \in Osfds : Io(CloseSocket(t, f)) \/ Io(st_netfd_open(t, f))
  \/ Does(t, "open") /\ MayOpen /\ Io(st_open(t))
  \/ /\ Does(t, "close")
     /\ \E n \in InUse : st_netfd_close(t, n) /\ NetfdDataFreed(n)
  \/ \E n \in InUse, timeout \in AnyTimeout :
       \/ Does(t, "in") /\ \/ Io(st_read(t, n, timeout))
                           \/ Io(st_readv(t, n, timeout))
                           \/ Io(st_recvfrom(t, n, timeout))
                           \/ Io(st_recvmsg(t, n, timeout))
                           \/ Io(st_readv_resid(t, n, timeout))
                           \/ Io(st_read_fully(t, n, timeout))
       \/ Does(t, "out") /\ \/ Io(st_sendto(t, n, timeout))
                            \/ Io(st_sendmsg(t, n, timeout))
                            \/ Io(st_writev(t, n, timeout))
                            \/ Io(st_writev_resid(t, n, timeout))
                            \/ Io(st_write(t, n, timeout))
                            \/ Io(st_connect(t, n, timeout))
       \/ Does(t, "accept") /\ Io(st_accept(t, n, timeout))

DataCall(t) ==
  /\ Does(t, "data")
  /\ \/ \E destr \in BOOLEAN : st_key_create(t, destr)
     \/ \E v \in NewValues :
          \/ \E k \in DOMAIN keys : st_thread_setspecific(t, k, v)
          \/ \E n \in InUse, destr \in BOOLEAN : st_netfd_setspecific(t, n, v, destr)

(* The rest of a call. *)
Resume(t) ==
  \/ Vp(UsleepReturn(t))
  \/ Vp(CondReturn(t))
  \/ Vp(JoinReturn(t))
  \/ Vp(ExitResume(t))
  \/ Io(IoDone(t))
  \/ MayOpen /\ Io(AcceptDone(t))
  \/ Io(st_netfd_poll(t))
  \/ Io(PollReturn(t))

(* What may be true of the descriptors the kernel watches. *)
Conditions ==
  SUBSET UNION {{f} \X (ev.kset[f] \cup {"err"}) : f \in DOMAIN ev.kset}

IdleStep ==
  \/ \E now \in Conditions : Io(st_epoll_dispatch(now))
  \/ \E elapsed \in Elapsed : Vp(st_vp_check_clock(elapsed))
  \/ Vp(IdleExit)

Exited == vp.idle.at = "exit" /\ UNCHANGED vars

Next ==
  \/ /\ UNCHANGED app
     /\ \/ Vp(st_vp_schedule)
        \/ \E t \in Threads : \/ ThreadCall(t)
                              \/ IoCall(t)
                              \/ DataCall(t)
                              \/ Resume(t)
        \/ IdleStep
  \/ Exited

Spec == Init /\ [][Next]_vars
-----------------------------------------------------------------------------
(* The threads of the port, with descriptors, stacks and all that can fail *)
(* there, are scheduled exactly as StSched says the C library does it: the *)
(* run queue, the wait queues, the heap, the flags and the results.  A     *)
(* thread between a poll and its next system call is running there.        *)
Scheduler == INSTANCE StSched WITH
  Mutexes <- {},
  state <- [t \in Threads \cup {Idle} |->
              IF t = Idle THEN vp.idle.state ELSE vp.thr[t].state],
  pc <- [t \in Threads |-> IF vp.thr[t].at = "io" THEN "run" ELSE vp.thr[t].at],
  obj <- [t \in Threads |-> vp.thr[t].obj],
  interrupted <- {t \in Threads : vp.thr[t].intr},
  timedout <- {t \in Threads : vp.thr[t].tout},
  runq <- vp.run_q, ioq <- vp.io_q, zombieq <- vp.zombie_q,
  sleepq <- [t \in {u \in Threads : OnSleepq(vp, u)} |-> vp.due[t]],
  waitq <- vp.wait_q, objects <- vp.conds,
  owner <- [m \in {} |-> None], holds <- [m \in {} |-> {}],
  term <- {t \in Threads : vp.thr[t].term},
  current <- vp.curr, idle <- vp.idle.at, activeCount <- vp.active,
  woken <- [t \in Threads |-> vp.thr[t].woke]

ActsAsScheduler == Scheduler!Spec

(* A thread on the I/O queue waits for a descriptor that is open, that an  *)
(* object in use stands for, and that the kernel watches for it, however   *)
(* other threads open, close and poll descriptors; st_netfd_close refuses  *)
(* to close exactly the descriptors of such threads, and finds the counts  *)
(* of every descriptor inside the table.                                   *)
PolledIsOpen ==
  /\ \A f \in Osfds, k \in {"in", "out"} :
       LET pollers == {t \in Elems(vp.io_q) : io[t].pd[1] = [fd |-> f, events |-> {k}]} IN
       /\ ev.cnt[<<f, k>>] = Cardinality(pollers)
       /\ pollers # {} => /\ osfd[f] = "st"
                          /\ f \in DOMAIN ev.kset /\ k \in ev.kset[f]
  /\ \A n \in InUse : netfds.obj[n].osfd < fdsize

(* Stacks are handed on only when nobody runs on them: threads that exist  *)
(* have different stacks, none of them is on the free list, and each is as *)
(* large as the creator asked for.                                         *)
StacksPrivate ==
  LET others == {t \in Threads \ {Primordial} : Exists(t)} IN
  /\ NoRepeat(vp.pool.free)
  /\ \A t \in others :
       /\ vp.thr[t].stack \notin Elems(vp.pool.free) \cup {0, 1}
       /\ vp.pool.size[vp.thr[t].stack] >= vp.thr[t].asked
       /\ \A u \in others : vp.thr[u].stack = vp.thr[t].stack => u = t
  /\ 1 \notin Elems(vp.pool.free)      \* the idle thread's

(* No descriptor is leaked or has two owners, also when st_netfd_new fails *)
(* after accept(2) or open(2): those the library has to close are exactly  *)
(* those that one object in use stands for, and the free list holds        *)
(* exactly the objects not in use.                                         *)
OsfdsOwned ==
  /\ NoRepeat(netfds.free)
  /\ Elems(netfds.free) = DOMAIN netfds.obj \ InUse
  /\ \A f \in Osfds :
       (osfd[f] = "st") = (\E n \in InUse : netfds.obj[n].osfd = f)
  /\ \A m, n \in InUse : netfds.obj[m].osfd = netfds.obj[n].osfd => m = n

(* Private data with a destructor is destroyed exactly once, when nobody   *)
(* can see it any more: replaced, or its thread or descriptor gone; and a  *)
(* thread sees only what it stored itself, whoever had its stack before.   *)
DestroyedOnce ==
  /\ \A v \in DOMAIN made :
       LET held == \/ \E s \in DOMAIN priv, k \in 1..KeysMax : priv[s][k] = v
                   \/ \E n \in InUse : netfds.obj[n].data = v
       IN  made[v].calls = IF made[v].destr /\ ~held THEN 1 ELSE 0
  /\ \A t \in Threads : Exists(t) =>
       \A k \in 1..KeysMax : Specific(t)[k] # None => made[Specific(t)[k]].by = t
=============================================================================
