------------------------------ MODULE EpollFork -----------------------------
(***************************************************************************)
(* The epoll mechanism of event.c across fork(2).  A child inherits a copy *)
(* of all threads and of _st_epoll_data, but the descriptor epfd it        *)
(* inherits is the same epoll set its parent uses.  Until its first        *)
(* dispatch, which makes a set of its own, its st_poll calls change the    *)
(* parent's set.                                                           *)
(***************************************************************************)
EXTENDS Clist, EpollSet

CONSTANTS
  Parent, Children,   \* processes
  Pollers,            \* threads, copied by fork(2)
  Fds, Pollsets, Conditions, FdHint, Refusals,   \* as for EpollEvent
  MaxCount,           \* bound: st_poll is called while evtlist_cnt is below it
  None

Procs == {Parent} \cup Children

VARIABLES
  proc,    \* for each living process: epfd, pid differs, fd_data, ioq and pds
  ksets,   \* the epoll sets in the kernel, named after the process that made them
  meddled, \* history: <<p, fd>> when another process changed fd in p's set
  dropped  \* history: <<p, fd>> when p could not register fd again after fork(2)

vars == <<proc, ksets, meddled, dropped>>

Alive == DOMAIN proc

(* What the functions of EpollSet see in process p.  After a failed        *)
(* epoll_create(2) epfd is -1 and the kernel refuses everything.           *)
View(p) ==
  LET own == proc[p].epfd IN
  [cnt |-> proc[p].cnt, evtcnt |-> proc[p].evtcnt, size |-> proc[p].size,
   kset |-> IF own = None THEN NoFds ELSE ksets[own]]

Refusable(p) == IF proc[p].epfd = None THEN {Fds} ELSE Refusals

(* The descriptors on which epoll set k and what became of it differ. *)
Changed(k, new) ==
  {fd \in Fds : \/ (fd \in DOMAIN k) # (fd \in DOMAIN new)
                \/ fd \in DOMAIN k \cap DOMAIN new /\ k[fd] # new[fd]}

(* The state of p, which uses epoll set own, after its bookkeeping became e*)
(* and its I/O queue q.                                                    *)
Become(p, own, stale, e, q, ask) ==
  /\ proc' = [proc EXCEPT ![p] =
       [epfd |-> own, stale |-> stale, cnt |-> e.cnt, evtcnt |-> e.evtcnt,
        size |-> e.size, ioq |-> q, pds |-> ask]]
  /\ ksets' = IF own = None THEN ksets
              ELSE [x \in DOMAIN ksets \cup {own} |->
                      IF x = own THEN e.kset ELSE ksets[x]]
  /\ meddled' = meddled \cup (IF own \in {p, None} THEN {}
                             ELSE {own} \X Changed(ksets[own], e.kset))

Init ==
  LET e == EmptyEpoll(Fds, FdHint) IN
  /\ proc = [p \in {Parent} |->
       [epfd |-> Parent, stale |-> FALSE, cnt |-> e.cnt, evtcnt |-> 0,
        size |-> FdHint, ioq |-> <<>>, pds |-> [t \in Pollers |-> <<>>]]]
  /\ ksets = [p \in {Parent} |-> NoFds]
  /\ meddled = {}
  /\ dropped = {}

(* fork(2), whatever the threads of the parent wait for. *)
Fork(c) ==
  /\ c \in Children \ Alive
  /\ proc' = [p \in Alive \cup {c} |->
                IF p = c THEN [proc[Parent] EXCEPT !.stale = TRUE] ELSE proc[p]]
  /\ UNCHANGED <<ksets, meddled, dropped>>

Poll(p, t, s) ==
  /\ p \in Alive
  /\ t \notin Elems(proc[p].ioq)
  /\ proc[p].evtcnt < MaxCount
  /\ \E refused \in Refusable(p) :
       LET a == _st_epoll_pollset_add(View(p), s, refused) IN
       IF a.ok
       THEN Become(p, proc[p].epfd, proc[p].stale, a.e, Append(proc[p].ioq, t),
                   [proc[p].pds EXCEPT ![t] = s])
       ELSE Become(p, proc[p].epfd, proc[p].stale, a.e, proc[p].ioq, proc[p].pds)
  /\ UNCHANGED dropped

GiveUp(p, t) ==
  /\ p \in Alive
  /\ t \in Elems(proc[p].ioq)
  /\ Become(p, proc[p].epfd, proc[p].stale,
            _st_epoll_pollset_del(View(p), proc[p].pds[t], {}),
            Unlink(proc[p].ioq, t), [proc[p].pds EXCEPT ![t] = <<>>])
  /\ UNCHANGED dropped

(* The start of _st_epoll_dispatch in a forked process: the bookkeeping    *)
(* starts again with a new epoll set, and the descriptors on the I/O queue *)
(* are added to it; a failure is ignored.                                  *)
Reregistered(p, refused) ==
  FoldLeft(LAMBDA e, t : _st_epoll_pollset_add(e, proc[p].pds[t], refused).e,
           [EmptyEpoll(Fds, FdHint) EXCEPT !.size = proc[p].size], proc[p].ioq)

(* The descriptors of the pollsets that this could not add. *)
Omitted(p, refused) ==
  {fd \in Fds : \E t \in Elems(proc[p].ioq) :
     LET asked == {proc[p].pds[t][i].fd : i \in DOMAIN proc[p].pds[t]}
     IN  fd \in asked /\ asked \cap refused # {}}

(* epoll_wait(2) and what follows it, in a process that uses epoll set own *)
(* with bookkeeping e.                                                     *)
Dispatched(p, own, e, now) ==
  \E fired \in SUBSET ReadyFds(e, now) :
    LET ask == proc[p].pds
        hit == {t \in Elems(proc[p].ioq) :
                  \E i \in DOMAIN ask[t] : Report(e, ask[t], now, fired)[i] # {}}
    IN  /\ Cardinality(fired) =
             IF Cardinality(ReadyFds(e, now)) > e.size
             THEN e.size ELSE Cardinality(ReadyFds(e, now))
        /\ Become(p, own, FALSE,
             UpdateFired(FoldLeft(LAMBDA f, t : _st_epoll_pollset_del(f, ask[t], fired),
                                  e, SelectSeq(proc[p].ioq, LAMBDA t : t \in hit)),
                         fired),
             SelectSeq(proc[p].ioq, LAMBDA t : t \notin hit),
             [t \in Pollers |-> IF t \in hit THEN <<>> ELSE ask[t]])

Dispatch(p, now) ==
  /\ p \in Alive
  /\ \/ /\ ~proc[p].stale
        /\ Dispatched(p, proc[p].epfd, View(p), now)
        /\ UNCHANGED dropped
     \/ /\ proc[p].stale
        /\ \E refused \in Refusals :
             /\ Dispatched(p, p, Reregistered(p, refused), now)
             /\ dropped' = dropped \cup ({p} \X Omitted(p, refused))
     \/ /\ proc[p].stale      \* epoll_create(2) fails
        /\ Become(p, None, TRUE, View(p), proc[p].ioq, proc[p].pds)
        /\ UNCHANGED dropped

Next ==
  \/ \E c \in Children : Fork(c)
  \/ \E p \in Procs : \/ \E t \in Pollers : \/ GiveUp(p, t)
                                            \/ \E s \in Pollsets : Poll(p, t, s)
                      \/ \E now \in Conditions : Dispatch(p, now)

Spec == Init /\ [][Next]_vars
-----------------------------------------------------------------------------
TypeOK ==
  /\ Alive \subseteq Procs /\ Parent \in Alive
  /\ DOMAIN ksets \subseteq Alive
  /\ meddled \cup dropped \subseteq Alive \X Fds
  /\ \A p \in Alive :
       /\ proc[p].epfd \in DOMAIN ksets \cup {None}
       /\ proc[p].stale \in BOOLEAN
       /\ proc[p].cnt \in [Fds \X EventKinds -> Int]
       /\ proc[p].ioq \in Seq(Pollers) /\ NoRepeat(proc[p].ioq)
       /\ proc[p].pds \in [Pollers -> Pollsets \cup {<<>>}]
       /\ \A t \in Pollers : t \in Elems(proc[p].ioq) <=> proc[p].pds[t] # <<>>

(* Each process keeps watching, in the epoll set it waits on, whatever its *)
(* own threads poll for, across fork(2) at any moment: the threads "which  *)
(* are running in the parent do exist in the child" (docs/reference.html)  *)
(* and keep being notified there.  The code breaks this in two ways, and   *)
(* nowhere else: a child that polls before its first dispatch changes its  *)
(* parent's set (event.c:1044, 1087), and the result of registering a      *)
(* pollset again in the child's new set is ignored (event.c:1146).         *)
PolledIsWatched ==
  \A p \in Alive :
    ~proc[p].stale =>
      \A t \in Elems(proc[p].ioq) : \A i \in DOMAIN proc[p].pds[t] :
        LET pd == proc[p].pds[t][i] IN
        \/ <<p, pd.fd>> \in meddled \cup dropped
        \/ /\ pd.fd \in DOMAIN ksets[proc[p].epfd]
           /\ pd.events \subseteq ksets[proc[p].epfd][pd.fd]

(* _st_epoll_fd_close refuses a descriptor exactly while a thread of the   *)
(* same process polls it, whatever the processes that share an epoll set   *)
(* do, except after a pollset with that descriptor could not be registered *)
(* again.                                                                  *)
CountsPerProcess ==
  /\ TypeOK
  /\ \A p \in Alive : \A x \in Fds \X EventKinds :
       <<p, x[1]>> \notin dropped =>
         proc[p].cnt[x] =
           Cardinality({<<t, i>> \in Elems(proc[p].ioq) \X (1..2) :
                          /\ i \in DOMAIN proc[p].pds[t]
                          /\ proc[p].pds[t][i].fd = x[1]
                          /\ x[2] \in proc[p].pds[t][i].events})
=============================================================================
