------------------------------ MODULE StreamIo ------------------------------
(***************************************************************************)
(* The I/O functions of io.c on a stream: one thread connects, receives    *)
(* and sends on a nonblocking descriptor whose peer accepts, sends, drains *)
(* and closes.  A byte is the pair of its vector and its place in it.      *)
(* EINTR only repeats a system call, but for connect(2), and is left out.  *)
(***************************************************************************)
EXTENDS Integers, SequencesExt

CONSTANTS
  Vectors,             \* the lengths of the iovecs the caller passes
  LocalMaxiov,         \* _LOCAL_MAXIOV
  MaxAvail, MaxRoom    \* bounds of the socket's buffers

ASSUME StreamAssumption ==
  /\ Vectors \subseteq Seq(Nat)
  /\ LocalMaxiov \in Nat
  /\ MaxAvail \in Nat \ {0} /\ MaxRoom \in Nat \ {0}

VARIABLES
  call,    \* the function running or last returned from
  place,   \* in the call: "io" before a system call, "again" before a connect(2)
           \* after one that was interrupted, "wait" in st_netfd_poll, "out"
  vec,     \* the iovecs passed by the caller
  cur,     \* the rest of them: *iov, or tmp_iov of st_writev
  left,    \* nleft of st_writev
  rv,      \* the result
  moved,   \* history: the bytes transferred, in order
  avail, room, closed,  \* the socket: bytes to read, room to write, peer gone
  conn     \* the connection: "none", "progress", "up" or "failed"

vars == <<call, place, vec, cur, left, rv, moved, avail, room, closed, conn>>

(* The calls that return after one successful system call. *)
ReadsOnce == {"read", "readv", "recvfrom", "recvmsg"}
SendsOnce == {"sendto", "sendmsg"}

(* The calls that repeat it until everything is transferred.  st_read_fully*)
(* and st_write return the number of bytes instead of the residual.        *)
ReadsAll == {"readv_resid", "read_fully"}
WritesAll == {"writev_resid", "write"}
Reads == ReadsOnce \cup ReadsAll

Total(v) == FoldLeft(+, 0, v)

Bytes(segs) ==
  FlattenSeq([i \in DOMAIN segs |->
    [j \in 1..segs[i].len |-> <<segs[i].k, segs[i].off + j>>]])

Whole(v) == [i \in DOMAIN v |-> [k |-> i, off |-> 0, len |-> v[i]]]

Init ==
  /\ call = "none" /\ place = "out"
  /\ vec = <<>> /\ cur = <<>> /\ left = 0 /\ rv = 0 /\ moved = <<>>
  /\ avail = 0 /\ room = MaxRoom /\ closed = FALSE
  /\ conn \in {"none", "up"}

(* The caller looks at the result of a call. *)
Taken ==
  /\ place = "out" /\ call # "none"
  /\ call' = "none"
  /\ vec' = <<>> /\ cur' = <<>> /\ left' = 0 /\ rv' = 0 /\ moved' = <<>>
  /\ UNCHANGED <<place, avail, room, closed, conn>>

(* A call; the loops of st_writev and the resid functions may do nothing.  *)
Start(f, v) ==
  /\ call = "none" /\ conn = "up"
  /\ call' = f
  /\ vec' = v /\ cur' = Whole(v) /\ left' = Total(v)
  /\ rv' = IF f = "writev" THEN Total(v) ELSE 0
  /\ place' = IF \/ f = "writev" /\ Total(v) = 0
                 \/ f \in ReadsAll \cup WritesAll /\ v = <<>> THEN "out" ELSE "io"
  /\ UNCHANGED <<moved, avail, room, closed, conn>>

st_read(v) == Len(v) = 1 /\ Start("read", v)
st_readv(v) == Start("readv", v)
st_recvfrom(v) == Len(v) = 1 /\ Start("recvfrom", v)
st_recvmsg(v) == Start("recvmsg", v)
st_sendto(v) == Len(v) = 1 /\ Start("sendto", v)
st_sendmsg(v) == Start("sendmsg", v)
st_readv_resid(v) == Start("readv_resid", v)
st_writev_resid(v) == Start("writev_resid", v)
st_writev(v) == Start("writev", v)
st_read_resid(v) == Len(v) = 1 /\ st_readv_resid(v)
st_write_resid(v) == Len(v) = 1 /\ st_writev_resid(v)
st_read_fully(v) == Len(v) = 1 /\ Start("read_fully", v)
st_write(v) == Len(v) = 1 /\ Start("write", v)

Finish(result) == place' = "out" /\ rv' = result

(* The end of the resid loops, with segs left: 0, or nbyte - resid. *)
FinishAll(segs) ==
  Finish(IF call \in {"read_fully", "write"} THEN Total(vec) - Len(Bytes(segs)) ELSE 0)

Poll == place' = "wait" /\ UNCHANGED rv

(* read(2), readv(2): n bytes. *)
Receives(n) ==
  /\ n \in 0..avail /\ n <= Len(Bytes(cur))
  /\ n = 0 => Bytes(cur) = <<>> \/ (closed /\ avail = 0)
  /\ avail' = avail - n
  /\ UNCHANGED <<room, closed, conn>>

(* write(2), writev(2): n bytes of segs. *)
Sends(segs, n) ==
  /\ ~closed
  /\ n \in 0..room /\ n <= Len(Bytes(segs))
  /\ n = 0 => Bytes(segs) = <<>>
  /\ room' = room - n
  /\ UNCHANGED <<avail, closed, conn>>

(* EAGAIN; read(2) and write(2) of nothing return 0 at once. *)
Blocks ==
  /\ ~closed
  /\ IF call \in Reads THEN avail = 0 ELSE room = 0
  /\ Bytes(cur) # <<>> \/ call \in SendsOnce \cup {"recvfrom", "recvmsg"}

(* A mistake to compare with: the rest of a partly filled vector is        *)
(* shortened and not moved.                                                *)
RECURSIVE AdvanceShort(_, _)
AdvanceShort(segs, n) ==
  LET h == Head(segs) IN
  IF n < h.len THEN <<[h EXCEPT !.len = h.len - n]>> \o Tail(segs)
  ELSE IF n = h.len THEN Tail(segs)
  ELSE AdvanceShort(Tail(segs), n - h.len)

(* The inner loop of st_readv_resid and st_writev_resid after n bytes.     *)
RECURSIVE Advance(_, _)
Advance(segs, n) ==
  LET h == Head(segs) IN
  IF n < h.len THEN <<[h EXCEPT !.off = h.off + n, !.len = h.len - n]>> \o Tail(segs)
  ELSE IF n = h.len THEN Tail(segs)
  ELSE Advance(Tail(segs), n - h.len)

(* The functions that return what one system call transferred. *)
ReadOnce(n) ==
  /\ call \in ReadsOnce /\ place = "io"
  /\ Receives(n)
  /\ moved' = SubSeq(Bytes(cur), 1, n)
  /\ Finish(n)
  /\ UNCHANGED <<call, vec, cur, left>>

SendOnce(n) ==
  /\ call \in SendsOnce /\ place = "io"
  /\ Sends(cur, n)
  /\ moved' = SubSeq(Bytes(cur), 1, n)
  /\ Finish(n)
  /\ UNCHANGED <<call, vec, cur, left>>

(* One turn of the loop of st_readv_resid in which n bytes were read. *)
ReadSome(n) ==
  /\ call \in ReadsAll /\ place = "io"
  /\ Receives(n)
  /\ moved' = moved \o SubSeq(Bytes(cur), 1, n)
  /\ \/ n = 0 /\ FinishAll(cur) /\ UNCHANGED cur
     \/ /\ n > 0
        /\ cur' = Advance(cur, n)
        /\ IF cur' = <<>> THEN FinishAll(cur') ELSE Poll
  /\ UNCHANGED <<call, vec, left>>

(* One turn of the loop of st_writev_resid in which n bytes were written. *)
WriteSome(n) ==
  /\ call \in WritesAll /\ place = "io"
  /\ Sends(cur, n)
  /\ moved' = moved \o SubSeq(Bytes(cur), 1, n)
  /\ cur' = Advance(cur, n)
  /\ IF cur' = <<>> THEN FinishAll(cur') ELSE Poll
  /\ UNCHANGED <<call, vec, left>>
-----------------------------------------------------------------------------
(* The part of v after its first n bytes: tmp_iov of st_writev. *)
Rest(v, n) ==
  LET i == CHOOSE j \in DOMAIN v :
             /\ Total(SubSeq(v, 1, j - 1)) <= n
             /\ n < Total(SubSeq(v, 1, j))
      done == n - Total(SubSeq(v, 1, i - 1))
  IN  <<[k |-> i, off |-> done, len |-> v[i] - done]>> \o SubSeq(Whole(v), i + 1, Len(v))

(* One turn of the loop of st_writev with several vectors left.  calloc(3) *)
(* for the copy of more than _LOCAL_MAXIOV of them may fail.               *)
WritevSome(n) ==
  /\ call = "writev" /\ place = "io" /\ Len(cur) > 1
  /\ Sends(cur, n)
  /\ moved' = moved \o SubSeq(Bytes(cur), 1, n)
  /\ IF n = left
     THEN Finish(rv) /\ UNCHANGED <<cur, left>>
     ELSE /\ left' = left - n
          /\ cur' = Rest(vec, Total(vec) - (left - n))
          /\ \/ Poll
             \/ cur = Whole(vec) /\ Len(cur') > LocalMaxiov /\ Finish(-1)
  /\ UNCHANGED <<call, vec>>

(* A mistake to compare with: the first of the caller's vectors is used.   *)
WritevFirst(n) ==
  /\ call = "writev" /\ place = "io" /\ Len(cur) = 1
  /\ LET seg == <<[k |-> 1, off |-> 0, len |-> left]>> IN
     /\ Sends(seg, n)
     /\ moved' = moved \o SubSeq(Bytes(seg), 1, n)
     /\ cur' = Advance(seg, n)
  /\ left' = left - n
  /\ IF cur' = <<>> THEN Finish(rv) ELSE Poll
  /\ UNCHANGED <<call, vec>>

(* With one vector left st_writev calls st_write, whose loop is that of    *)
(* st_writev_resid.                                                        *)
WritevLast(n) ==
  /\ call = "writev" /\ place = "io" /\ Len(cur) = 1
  /\ LET seg == <<[Head(cur) EXCEPT !.len = left]>> IN
     /\ Sends(seg, n)
     /\ moved' = moved \o SubSeq(Bytes(seg), 1, n)
     /\ cur' = Advance(seg, n)
  /\ left' = left - n
  /\ IF cur' = <<>> THEN Finish(rv) ELSE Poll
  /\ UNCHANGED <<call, vec>>

(* A system call that is not ready, or that fails: at any time, for a read *)
(* as for a write.                                                         *)
NotReady ==
  /\ place = "io" /\ call # "connect"
  /\ Blocks
  /\ Poll
  /\ UNCHANGED <<call, vec, cur, left, moved, avail, room, closed, conn>>

Fails ==
  /\ place = "io" /\ call # "connect"
  /\ Finish(-1)
  /\ UNCHANGED <<call, vec, cur, left, moved, avail, room, closed, conn>>

(* A mistake to compare with: every wait is for input. *)
ReadyIn == avail > 0 \/ closed

(* What st_netfd_poll waits for: POLLIN or POLLOUT. *)
Ready == IF call \in Reads THEN avail > 0 \/ closed ELSE room > 0 \/ closed

PollReturns ==
  /\ place = "wait" /\ call # "connect"
  /\ Ready
  /\ place' = "io"
  /\ UNCHANGED <<call, vec, cur, left, rv, moved, avail, room, closed, conn>>

(* st_netfd_poll timed out or was interrupted. *)
PollFails ==
  /\ place = "wait"
  /\ Finish(-1)
  /\ UNCHANGED <<call, vec, cur, left, moved, avail, room, closed, conn>>

-----------------------------------------------------------------------------
(* st_connect, until connect(2) succeeded, failed, or goes on in the       *)
(* background; an interrupted connect(2) goes on there too, and the next   *)
(* one succeeds if that is over, or fails: with EADDRINUSE, which is       *)
(* ignored only then, or, depending on the system, otherwise.              *)
connectRest == <<call, vec, cur, left, moved, avail, room, closed>>

st_connect ==
  /\ call = "none" /\ conn \in {"none", "failed"}
  /\ call' = "connect" /\ place' = "io"
  /\ UNCHANGED <<vec, cur, left, rv, moved, avail, room, closed, conn>>

Connects ==
  /\ call = "connect"
  /\ \/ /\ place = "io"
        /\ \/ conn' = "up" /\ Finish(0)
           \/ conn' = "failed" /\ Finish(-1)
           \/ conn' = "progress" /\ Poll
           \/ conn' = "progress" /\ place' = "again" /\ UNCHANGED rv
     \/ /\ place = "again"
        /\ Poll \/ Finish(-1) \/ (conn = "up" /\ Finish(0))
        /\ UNCHANGED conn
  /\ UNCHANGED connectRest

(* The socket got writable and SO_ERROR tells how the attempt ended. *)
ConnectReturns ==
  /\ call = "connect" /\ place = "wait"
  /\ conn # "progress"
  /\ Finish(IF conn = "up" THEN 0 ELSE -1)
  /\ UNCHANGED <<connectRest, conn>>

Step ==
  \/ \E n \in 0..(MaxAvail + MaxRoom) :
       ReadOnce(n) \/ SendOnce(n)
       \/ ReadSome(n) \/ WriteSome(n) \/ WritevSome(n) \/ WritevLast(n)
  \/ NotReady
  \/ Fails
  \/ PollReturns
  \/ Connects
  \/ ConnectReturns

PeerAnswers ==
  /\ conn = "progress" /\ conn' \in {"up", "failed"}
  /\ UNCHANGED <<connectRest, place, rv>>
PeerSends == conn = "up" /\ ~closed /\ avail < MaxAvail /\ avail' = avail + 1
             /\ UNCHANGED <<call, place, vec, cur, left, rv, moved, room, closed, conn>>
PeerDrains == conn = "up" /\ ~closed /\ room < MaxRoom /\ room' = room + 1
              /\ UNCHANGED <<call, place, vec, cur, left, rv, moved, avail, closed, conn>>
PeerCloses == conn = "up" /\ ~closed /\ closed' = TRUE
              /\ UNCHANGED <<call, place, vec, cur, left, rv, moved, avail, room, conn>>

Next ==
  \/ st_connect
  \/ \E v \in Vectors :
       \/ st_read(v) \/ st_readv(v) \/ st_recvfrom(v) \/ st_recvmsg(v)
       \/ st_sendto(v) \/ st_sendmsg(v)
       \/ st_readv_resid(v) \/ st_read_resid(v) \/ st_read_fully(v)
       \/ st_writev_resid(v) \/ st_write_resid(v) \/ st_write(v) \/ st_writev(v)
  \/ Taken
  \/ Step
  \/ PollFails
  \/ PeerAnswers \/ PeerSends \/ PeerDrains \/ PeerCloses

Spec == Init /\ [][Next]_vars

(* The scheduler runs a runnable thread, a live peer keeps sending to one  *)
(* that reads and draining what one writes, and the kernel does not try to *)
(* connect for ever.                                                       *)
PeerServes == IF call = "connect" THEN PeerAnswers
              ELSE IF call \in Reads THEN PeerSends ELSE PeerDrains

FairSpec == Spec /\ WF_vars(Step) /\ WF_vars(PeerServes)
-----------------------------------------------------------------------------
TypeOK ==
  /\ call \in {"none", "connect", "writev"} \cup Reads \cup SendsOnce \cup WritesAll
  /\ place \in {"io", "again", "wait", "out"}
  /\ vec \in Vectors \cup {<<>>}
  /\ left \in 0..Total(vec)
  /\ rv \in -1..Total(vec)
  /\ avail \in 0..MaxAvail /\ room \in 0..MaxRoom /\ closed \in BOOLEAN
  /\ conn \in {"none", "progress", "up", "failed"}
  /\ place # "out" /\ call \in ReadsAll \cup WritesAll \cup {"writev"} => cur # <<>>

(* Whatever partial transfers the kernel makes, the bytes go in order, none*)
(* twice and none left out, to or from where the caller's vectors say, and *)
(* a write that succeeds has written everything.                           *)
DataInOrder ==
  /\ IsPrefix(moved, Bytes(Whole(vec)))
  /\ place = "out" /\ call \in WritesAll \cup {"writev"} /\ rv >= 0 =>
       /\ moved = Bytes(Whole(vec))
       /\ call # "writev_resid" => rv = Total(vec)

(* What *iov and *iov_size describe is exactly what was not transferred,   *)
(* also when the call fails; st_read_fully and st_write compute their      *)
(* result of it.  A read that succeeds without filling the buffers met the *)
(* end of the stream.  docs/reference.html says that of *iov_size: "zero,  *)
(* indicating a complete read, or non-zero, indicating the network         *)
(* connection is closed or end of file is reached"; it holds of the bytes  *)
(* only, since a read of nothing but empty buffers returns 0, too          *)
(* (io.c:500).  The functions that do not return a residual return what    *)
(* they moved, 0 only at the end of the stream or for empty buffers, and   *)
(* st_connect succeeds only when the connection is up, also after an       *)
(* interrupted connect(2).                                                 *)
ResidExact ==
  /\ TypeOK
  /\ place # "out" \/ call \in ReadsAll \cup WritesAll =>
       moved \o Bytes(cur) = Bytes(Whole(vec))
  /\ place = "out" /\ call \in ReadsAll /\ rv >= 0 /\ Bytes(cur) # <<>> => closed
  /\ place = "out" /\ call \in ReadsOnce \cup SendsOnce \cup {"read_fully", "write"}
       /\ rv >= 0 => rv = Len(moved) /\ (rv = 0 => closed \/ Total(vec) = 0)
  /\ place = "out" /\ call = "connect" /\ rv = 0 => conn = "up"

(* A call gets through while the peer is alive, and ends when it is gone.  *)
CallReturns == []<>(place = "out")
=============================================================================
