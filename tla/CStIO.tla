------------------------------- MODULE CStIO --------------------------------
(***************************************************************************)
(* Classes CStIO and CStEvent (st_io.cpp, st_event.cpp), the C++ port of   *)
(* io.c and of the epoll mechanism of event.c, on top of CStVp.            *)
(*                                                                         *)
(* An input or output call is a loop around a system call that does not    *)
(* block and st_netfd_poll.  Thread t is at "io" when it is about to make  *)
(* the system call, whose result is any the kernel may give: between the   *)
(* event that woke t and its next system call another thread may have      *)
(* taken the data.  io[t] is the call t is in:                             *)
(*   op   "once" (done when the system call succeeds), "all" (until all    *)
(*        bytes are transferred), "accept" or "connect"                    *)
(*   how  what to poll for                                                 *)
(*   fd   the descriptor object                                            *)
(*   timeout, and pd, the pollset st_netfd_poll has on its stack           *)
(***************************************************************************)
EXTENDS CStVp, EpollSet

CONSTANTS
  Osfds,      \* descriptors of the operating system
  FdHint,     \* fd_hint
  Refusals    \* the sets of open descriptors epoll_ctl(2) may refuse to add

VARIABLES
  io,      \* the input and output calls
  ev,      \* m_st_epoll_data and the kernel's epoll set, see EpollSet
  fdsize,  \* fd_data_size, the length of the table of reference counts
  osfd,    \* who has to close a descriptor: "nobody", it is not open, "app"
           \* or "st"
  netfds   \* the descriptor objects: osfd, inuse, private_data, destructor # NULL,
           \* and m_st_netfd_freelist

ioVars == <<io, ev, fdsize, osfd, netfds>>

NoIo == [op |-> "none", how |-> "in", fd |-> 0, timeout |-> NoTimeout, pd |-> <<>>]

st_epoll_init == ev = EmptyEpoll(Osfds, FdHint) /\ fdsize = FdHint

(* st_io_init, which ends with st_epoll_init. *)
IoInit ==
  /\ io = [t \in Threads |-> NoIo]
  /\ st_epoll_init
  /\ osfd = [f \in Osfds |-> "nobody"]
  /\ netfds = [obj |-> <<>>, free |-> <<>>]

InUse == {n \in DOMAIN netfds.obj : netfds.obj[n].inuse}

OpenFds == {f \in Osfds : osfd[f] # "nobody"}

(* The kernel makes a new descriptor: the lowest that is not open. *)
NewFd == Min(Osfds \ OpenFds)
-----------------------------------------------------------------------------
(* Descriptor objects. *)

(* st_netfd_free, but for the destructor it calls. *)
st_netfd_free(nf, n) ==
  [obj |-> [nf.obj EXCEPT ![n].inuse = FALSE, ![n].data = None, ![n].destr = FALSE],
   free |-> <<n>> \o nf.free]

NewObject(f) == [osfd |-> f, inuse |-> TRUE, data |-> None, destr |-> FALSE]

(* A mistake to compare with: a descriptor object stays on the free list.  *)
NetfdStays(nf, f) ==
  IF nf.free # <<>> THEN [nf EXCEPT !.obj[Head(nf.free)] = NewObject(f)]
  ELSE [nf EXCEPT !.obj = Append(@, NewObject(f))]

(* An object of the free list or a new one. *)
NetfdTaken(nf, f) ==
  IF nf.free # <<>>
  THEN [obj |-> [nf.obj EXCEPT ![Head(nf.free)] = NewObject(f)], free |-> Tail(nf.free)]
  ELSE [nf EXCEPT !.obj = Append(@, NewObject(f))]

ObjectOf(nf, f) == CHOOSE n \in DOMAIN nf.obj : nf.obj[n].inuse /\ nf.obj[n].osfd = f

(* The size of the table after st_epoll_fd_data_expand. *)
st_epoll_fd_data_expand(maxfd) == Doubled(fdsize, maxfd + 1)

(* The outcomes of st_epoll_fd_new: the table may have to grow, and memory *)
(* may be short.                                                           *)
st_epoll_fd_new(f) ==
  IF f < fdsize THEN {[ok |-> TRUE, size |-> fdsize]}
  ELSE {[ok |-> TRUE, size |-> st_epoll_fd_data_expand(f)],
        [ok |-> FALSE, size |-> fdsize]}

(* The outcomes of st_netfd_new.  It fails when the table cannot grow, no  *)
(* object can be had, or f cannot be made nonblocking where it must be.    *)
st_netfd_new(f, nonblock) ==
  LET taken == NetfdTaken(netfds, f)
      Outcomes(r) ==
        IF ~r.ok THEN {[ok |-> FALSE, nf |-> netfds, size |-> r.size]}
        ELSE {[ok |-> TRUE, nf |-> taken, size |-> r.size]}
             \cup {[ok |-> FALSE, nf |-> nf, size |-> r.size] :
                     nf \in (IF nonblock THEN {st_netfd_free(taken, ObjectOf(taken, f))}
                            ELSE {})
                           \cup (IF netfds.free = <<>> THEN {netfds} ELSE {})}
  IN  UNION {Outcomes(r) : r \in st_epoll_fd_new(f)}

(* socket(2) and close(2), called by the application. *)
Socket(t) ==
  /\ Running(t)
  /\ osfd' = [osfd EXCEPT ![NewFd] = "app"]
  /\ UNCHANGED <<vp, io, ev, fdsize, netfds>>

CloseSocket(t, f) ==
  /\ Running(t)
  /\ osfd[f] = "app"
  /\ osfd' = [osfd EXCEPT ![f] = "nobody"]
  /\ UNCHANGED <<vp, io, ev, fdsize, netfds>>

(* An object for descriptor f, or f stays with otherwise. *)
Opened(f, nonblock, otherwise) ==
  \E r \in st_netfd_new(f, nonblock) :
    /\ netfds' = r.nf
    /\ fdsize' = r.size
    /\ osfd' = [osfd EXCEPT ![f] = IF r.ok THEN "st" ELSE otherwise]

(* st_netfd_open and st_netfd_open_socket, which leave f to the caller     *)
(* when they fail.                                                         *)
st_netfd_open(t, f) ==
  /\ Running(t)
  /\ osfd[f] = "app"
  /\ Opened(f, TRUE, "app")
  /\ UNCHANGED <<vp, io, ev>>

(* The end of st_open and st_accept: an object for a new descriptor, or,   *)
(* when there is none to be had, the descriptor is closed again.           *)
NewNetfd(nonblock) == Opened(NewFd, nonblock, "nobody")

(* st_open: open(2), with O_NONBLOCK, does not block. *)
st_open(t) ==
  /\ Running(t)
  /\ NewNetfd(FALSE)
  /\ UNCHANGED <<vp, io, ev>>

(* A mistake to compare with: only readers are counted. *)
NoReader(f) == ev.cnt[<<f, "in">>] = 0

(* st_epoll_fd_close refuses a descriptor that is polled. *)
st_epoll_fd_close(f) == EpollEvents(ev, f) = {}

(* st_netfd_close; the kernel's set forgets a closed descriptor. *)
st_netfd_close(t, n) ==
  LET f == netfds.obj[n].osfd IN
  /\ Running(t)
  /\ n \in InUse
  /\ st_epoll_fd_close(f)
  /\ netfds' = st_netfd_free(netfds, n)
  /\ osfd' = [osfd EXCEPT ![f] = "nobody"]
  /\ ev' = [ev EXCEPT !.kset = [g \in DOMAIN @ \ {f} |-> @[g]]]
  /\ UNCHANGED <<vp, io, fdsize>>
-----------------------------------------------------------------------------
(* Input and output. *)

(* Thread t enters a call on descriptor object n. *)
Enter(t, n, op, how, timeout) ==
  /\ Running(t)
  /\ n \in InUse
  /\ vp' = [vp EXCEPT !.thr[t].at = "io"]
  /\ io' = [io EXCEPT ![t] = [op |-> op, how |-> how, fd |-> n,
                              timeout |-> timeout, pd |-> <<>>]]
  /\ UNCHANGED <<ev, fdsize, osfd, netfds>>

st_read(t, n, timeout) == Enter(t, n, "once", "in", timeout)
st_readv(t, n, timeout) == Enter(t, n, "once", "in", timeout)
st_recvfrom(t, n, timeout) == Enter(t, n, "once", "in", timeout)
st_recvmsg(t, n, timeout) == Enter(t, n, "once", "in", timeout)
st_sendto(t, n, timeout) == Enter(t, n, "once", "out", timeout)
st_sendmsg(t, n, timeout) == Enter(t, n, "once", "out", timeout)
st_readv_resid(t, n, timeout) == Enter(t, n, "all", "in", timeout)
st_writev_resid(t, n, timeout) == Enter(t, n, "all", "out", timeout)
st_writev(t, n, timeout) == Enter(t, n, "all", "out", timeout)
st_read_resid(t, n, timeout) == st_readv_resid(t, n, timeout)
st_read_fully(t, n, timeout) == st_read_resid(t, n, timeout)
st_write_resid(t, n, timeout) == st_writev_resid(t, n, timeout)
st_write(t, n, timeout) == st_write_resid(t, n, timeout)
st_accept(t, n, timeout) == Enter(t, n, "accept", "in", timeout)
st_connect(t, n, timeout) == Enter(t, n, "connect", "out", timeout)

(* The call returns to the application. *)
Leave(v, t) ==
  /\ vp' = [v EXCEPT !.thr[t].at = "run"]
  /\ io' = [io EXCEPT ![t] = NoIo]

(* The call is over: the system call did all it should, or failed. *)
IoDone(t) ==
  /\ Resumed(t, "io")
  /\ Leave(vp, t)
  /\ UNCHANGED <<ev, fdsize, osfd, netfds>>

(* accept(2) made a new descriptor. *)
AcceptDone(t) ==
  /\ Resumed(t, "io")
  /\ io[t].op = "accept"
  /\ netfds.obj[io[t].fd].osfd \in OpenFds
  /\ NewNetfd(TRUE)
  /\ Leave(vp, t)
  /\ UNCHANGED ev

(* The outcomes of st_epoll_pollset_add: epoll_ctl(2) refuses a descriptor *)
(* that is not open, and may refuse others.                                *)
st_epoll_pollset_add(pd) ==
  {_st_epoll_pollset_add(ev, pd, refused \cup (Osfds \ OpenFds)) : refused \in Refusals}

(* st_netfd_poll with st_poll: the system call would block, transferred    *)
(* only a part, or goes on in the background.                              *)
st_netfd_poll(t) ==
  LET f == netfds.obj[io[t].fd].osfd
      pd == <<[fd |-> f, events |-> {io[t].how}]>>
  IN  /\ Resumed(t, "io")
      /\ f \in OpenFds       \* the system call did not fail with EBADF
      /\ \/ /\ vp.thr[t].intr
            /\ Leave(Cleared(vp, t), t)
            /\ UNCHANGED ev
         \/ /\ ~vp.thr[t].intr
            /\ \E a \in st_epoll_pollset_add(pd) :
                 /\ ev' = a.e
                 /\ \/ /\ a.ok
                       /\ vp' = PollBlock(vp, t, io[t].timeout)
                       /\ io' = [io EXCEPT ![t].pd = pd]
                    \/ ~a.ok /\ Leave(vp, t)
      /\ UNCHANGED <<fdsize, osfd, netfds>>

st_epoll_pollset_del(e, pd, fired) == _st_epoll_pollset_del(e, pd, fired)

(* st_poll running again, and st_netfd_poll's judgement: with an interrupt *)
(* or a timeout the call fails.  After a connect only SO_ERROR is read.    *)
PollReturn(t) ==
  /\ Resumed(t, "poll")
  /\ ev' = IF OnIoq(t) THEN st_epoll_pollset_del(ev, io[t].pd, {}) ELSE ev
  /\ IF OnIoq(t) \/ vp.thr[t].intr \/ io[t].op = "connect"
     THEN Leave(Polled(vp, t), t)
     ELSE /\ vp' = [Polled(vp, t) EXCEPT !.thr[t].at = "io"]
          /\ io' = [io EXCEPT ![t].pd = <<>>]
  /\ UNCHANGED <<fdsize, osfd, netfds>>

(* The requests of the notified threads leave the set. *)
DelNotified(e, hit, fired) ==
  FoldLeft(LAMBDA d, t : st_epoll_pollset_del(d, io[t].pd, fired), e,
           SelectSeq(vp.io_q, LAMBDA t : t \in hit))

(* st_epoll_dispatch, when now is true of the descriptors. *)
st_epoll_dispatch(now) ==
  \E fired \in kSubset(Min({ev.size, Cardinality(ReadyFds(ev, now))}),
                       ReadyFds(ev, now)) :
    LET hit == {t \in Elems(vp.io_q) : Report(ev, io[t].pd, now, fired)[1] # {}}
    IN  /\ AtIdle
        /\ vp' = Dispatched(vp, hit)
        /\ ev' = UpdateFired(DelNotified(ev, hit, fired), fired)
        /\ UNCHANGED <<io, fdsize, osfd, netfds>>
=============================================================================
