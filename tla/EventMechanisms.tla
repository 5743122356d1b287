--------------------------- MODULE EventMechanisms --------------------------
(***************************************************************************)
(* The event mechanism that st_set_eventsys chooses for the lifetime of    *)
(* the process, and the contract that each of them keeps.                  *)
(***************************************************************************)
EXTENDS Pollset

CONSTANTS
  MinSize, Spare,     \* see PollEvent
  FdHint, Refusals,   \* see EpollEvent
  KqMin, MaxAdd,      \* see KqueueEvent
  Parent, Children, MaxCount, None,               \* see EpollFork
  ForkFds, ForkPollsets, ForkConditions           \* what the processes poll

ASSUME MechanismAssumption ==
  /\ {MinSize, Spare, MaxAdd, MaxCount} \subseteq Nat
  /\ {FdHint, KqMin} \subseteq Nat \ {0}
  /\ Refusals \subseteq SUBSET Fds
  /\ Parent \notin Children
  /\ None \notin Children \cup {Parent}

VARIABLES
  eventsys,               \* _st_eventsys->val
  osfdCnt, pollfdsSize,   \* _st_poll_data, see PollEvent
  sets, refCnt, maxfd,    \* _st_select_data, see SelectEvent
  ep,                     \* _st_epoll_data, see EpollEvent
  kq,                     \* _st_kq_data, see KqueueEvent
  proc, ksets, meddled, dropped   \* processes that share epoll sets, see EpollFork

pollData == <<osfdCnt, pollfdsSize>>
selectData == <<sets, refCnt, maxfd>>
forkData == <<proc, ksets, meddled, dropped>>
pollsetData == <<ioq, pds, revents, seen>>
vars == <<pollsetData, eventsys, pollData, selectData, ep, kq, forkData>>

(* select(2) shows an error as a readable or writable descriptor, epoll(7) *)
(* forgets a descriptor that is closed, and kqueue(2) has no errors but    *)
(* for changes it cannot make.                                             *)
Without(kind) == {now \in Conditions : \A x \in now : x[2] # kind}

P == INSTANCE PollEvent
S == INSTANCE SelectEvent WITH Conditions <- Without("err")
E == INSTANCE EpollEvent WITH Conditions <- Without("nval")
K == INSTANCE KqueueEvent WITH Conditions <- Without("err")
F == INSTANCE EpollFork WITH Fds <- ForkFds, Pollsets <- ForkPollsets,
       Conditions <- ForkConditions, Refusals <- {{}, ForkFds}

(* The data of the mechanisms that were not chosen is never looked at. *)
Init ==
  /\ eventsys \in {"select", "poll", "epoll", "kqueue", "epoll and fork"}
  /\ P!Init
  /\ S!Init
  /\ E!Init
  /\ K!Init
  /\ F!Init

Next ==
  /\ UNCHANGED eventsys
  /\ \/ /\ eventsys = "poll"
        /\ P!Next
        /\ UNCHANGED <<selectData, ep, kq, forkData>>
     \/ /\ eventsys = "select"
        /\ S!Next
        /\ UNCHANGED <<pollData, ep, kq, forkData>>
     \/ /\ eventsys = "epoll"
        /\ E!Next
        /\ UNCHANGED <<pollData, selectData, kq, forkData>>
     \/ /\ eventsys = "kqueue"
        /\ K!Next
        /\ UNCHANGED <<pollData, selectData, ep, forkData>>
     \/ /\ eventsys = "epoll and fork"
        /\ F!Next
        /\ UNCHANGED <<pollsetData, pollData, selectData, ep, kq>>

Spec == Init /\ [][Next]_vars
-----------------------------------------------------------------------------
(* Whatever the threads poll, share, name twice and give up, the chosen    *)
(* mechanism's counts are exact: st_netfd_close refuses a descriptor       *)
(* exactly while some thread of its process polls it, and the array that   *)
(* is given to poll(2) has room for all that is polled.                    *)
CountsExact ==
  \/ eventsys = "poll" /\ P!TypeOK /\ P!PollCountExact
  \/ eventsys = "select" /\ S!TypeOK /\ S!SelectCountsExact
  \/ eventsys = "epoll" /\ E!TypeOK /\ E!EpollCountsExact
  \/ eventsys = "kqueue" /\ K!TypeOK /\ K!KqCountsExact
  \/ eventsys = "epoll and fork" /\ F!TypeOK /\ F!CountsPerProcess

(* Nothing that a thread polls for is forgotten by the kernel when others  *)
(* that polled it too are notified, give up or fork: see KernelSetExact of *)
(* EpollEvent, KqWatchesPolled of KqueueEvent, and PolledIsWatched of      *)
(* EpollFork for the two exceptions that the epoll mechanism makes after   *)
(* fork(2).                                                                *)
KernelSetExact ==
  /\ eventsys = "epoll" => E!KernelSetExact
  /\ eventsys = "kqueue" => K!KqWatchesPolled
  /\ eventsys = "epoll and fork" => F!PolledIsWatched

(* Whatever was polled, given up and notified before, a dispatch with      *)
(* select(2), poll(2), epoll(7) or kqueue(2) notifies exactly the threads  *)
(* that asked for something that is ready, as far as it has room to report *)
(* them, and tells them the truth.                                         *)
Contract == INSTANCE EventSys WITH
              room <- IF eventsys = "kqueue" THEN kq.size
                      ELSE Cardinality(Fds \X Events)

KeepsContract == Contract!Spec
=============================================================================
