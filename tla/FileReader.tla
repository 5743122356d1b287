----------------------------- MODULE FileReader -----------------------------
(***************************************************************************)
(* Reading a file through a process of its own (extensions/stx_fileio.c).  *)
(* The first stx_file_read on a descriptor forks a child; every call then  *)
(* sends the child a command on the control pipe and reads the answer, a   *)
(* length and the data, from the out pipe.  Closing the descriptor sends a *)
(* command of length zero and waits for the child.                         *)
(*                                                                         *)
(* The pipes are counted in units of the size of a length.  A unit of data *)
(* is named by its position in the file; read as a length it has an        *)
(* arbitrary value.                                                        *)
(***************************************************************************)
EXTENDS Integers, Sequences, FiniteSetsExt

CONSTANTS
  Threads, None,
  Size,          \* of the file
  Sections,      \* the offsets and lengths asked for
  FirstOffset,   \* where the descriptor stands when the child is forked
  OutCap, ControlCap,     \* of the pipes
  FILEREADER_MAX_READ     \* the size of the child's buffer

NBytes == Max({s[2] : s \in Sections})

(* No code compares nbytes with the size of the child's buffer: that it    *)
(* fits is left to the callers.  An answer fits into the out pipe.         *)
ASSUME FileAssumption ==
  /\ {Size, FirstOffset} \subseteq Nat
  /\ Sections \subseteq (0..Size) \X (1..FILEREADER_MAX_READ)
  /\ ControlCap \in Nat \ {0}
  /\ OutCap \in Nat /\ OutCap > NBytes

VARIABLES
  control, out,   \* the pipes
  child,          \* what the child does, and its variables pos and buf
  filePos,        \* the position of the open file, kept by the kernel
  closing,        \* the destructor sends its command, or waits for the child
  call,           \* of each thread
  result,         \* what the last step returned, if it returned from a call
  clean           \* history: one call at a time, and none timed out

vars == <<control, out, child, filePos, closing, call, result, clean>>

Length(v) == [length |-> TRUE, value |-> v]
Data(p) == [length |-> FALSE, value |-> p]

Idle == [pc |-> "idle", offset |-> 0, nbytes |-> 0, want |-> 0]
NoChild == [pc |-> "none", pos |-> 0, buf |-> <<>>]

Init ==
  /\ control = <<>> /\ out = <<>>
  /\ child = NoChild
  /\ filePos = FirstOffset
  /\ closing = "no"
  /\ call = [t \in Threads |-> Idle]
  /\ result = None
  /\ clean = TRUE

-----------------------------------------------------------------------------
(* get_fileio_data: the child is forked by the first call. *)
Child == IF child.pc = "none" THEN [child EXCEPT !.pc = "loop"] ELSE child

(* pipe or fork fails: nothing is stored, and the next call tries again.   *)
NoFork(t, offset, nbytes) ==
  /\ closing = "no" /\ call[t].pc = "idle" /\ child.pc = "none"
  /\ result' = [offset |-> offset, nbytes |-> nbytes, ret |-> -1, buf |-> <<>>]
  /\ UNCHANGED <<control, out, child, filePos, closing, call, clean>>

(* st_write of a command goes on: it is in the pipe, or there is no reader *)
(* any more, which st_write reports and nobody looks at.                   *)
Writes(cmd) ==
  \/ /\ child.pc # "gone" /\ Len(control) < ControlCap
     /\ control' = Append(control, cmd)
  \/ /\ child.pc = "gone"
     /\ UNCHANGED control

WriteBlocks == child.pc # "gone" /\ Len(control) = ControlCap

(* stx_file_read up to its first wait, for room or for the length. *)
Request(t, offset, nbytes) ==
  LET Waits(pc) == call' = [call EXCEPT ![t] = [pc |-> pc, offset |-> offset,
                                                nbytes |-> nbytes, want |-> 0]]
  IN  /\ closing = "no" /\ call[t].pc = "idle"
      /\ child' = Child
      /\ \/ Writes([offset |-> offset, nbytes |-> nbytes]) /\ Waits("length")
         \/ WriteBlocks /\ Waits("write") /\ UNCHANGED control
      /\ clean' = (clean /\ \A u \in Threads : call[u].pc = "idle")
      /\ result' = None
      /\ UNCHANGED <<out, filePos, closing>>

(* st_write found no room at first, and now goes on. *)
Write(t) ==
  /\ call[t].pc = "write"
  /\ Writes([offset |-> call[t].offset, nbytes |-> call[t].nbytes])
  /\ call' = [call EXCEPT ![t].pc = "length"]
  /\ result' = None
  /\ UNCHANGED <<out, child, filePos, closing, clean>>

Return(t, ret, buf) ==
  /\ result' = [offset |-> call[t].offset, nbytes |-> call[t].nbytes,
                ret |-> ret, buf |-> buf]
  /\ call' = [call EXCEPT ![t] = Idle]

(* The values that the first unit of the pipe has as a length. *)
Lengths(u) == IF u.length THEN {u.value} ELSE (-1)..(NBytes + 1)

HasData(t, ret) == 0 < ret /\ ret <= call[t].nbytes

ReadLength(t) ==
  /\ call[t].pc = "length" /\ out # <<>>
  /\ \E ret \in Lengths(Head(out)) :
       IF HasData(t, ret)
       THEN /\ call' = [call EXCEPT ![t].pc = "data", ![t].want = ret]
            /\ result' = None
       ELSE Return(t, ret, <<>>)
  /\ out' = Tail(out)
  /\ UNCHANGED <<control, child, filePos, closing, clean>>

(* st_read returns what there is, up to the length asked for. *)
ReadData(t) ==
  /\ call[t].pc = "data" /\ out # <<>>
  /\ LET n == Min({call[t].want, Len(out)}) IN
       /\ Return(t, n, SubSeq(out, 1, n))
       /\ out' = SubSeq(out, n + 1, Len(out))
  /\ UNCHANGED <<control, child, filePos, closing, clean>>

(* The child is gone: st_read returns 0, and ret is still -1. *)
ReadEof(t) ==
  /\ call[t].pc \in {"length", "data"} /\ out = <<>> /\ child.pc = "gone"
  /\ Return(t, IF call[t].pc = "length" THEN -1 ELSE 0, <<>>)
  /\ UNCHANGED <<control, out, child, filePos, closing, clean>>

(* st_write times out, and no command is sent: the call goes on to wait    *)
(* for an answer all the same.                                             *)
WriteTimeout(t) ==
  /\ call[t].pc = "write"
  /\ call' = [call EXCEPT ![t].pc = "length"]
  /\ clean' = FALSE
  /\ result' = None
  /\ UNCHANGED <<control, out, child, filePos, closing>>

Timeout(t) ==
  /\ call[t].pc \in {"length", "data"}
  /\ Return(t, -1, <<>>)
  /\ clean' = FALSE
  /\ UNCHANGED <<control, out, child, filePos, closing>>

(* st_netfd_close on a descriptor nobody uses calls                        *)
(* fileio_data_destructor, which sends a zero length.                      *)
Close ==
  /\ closing = "no" /\ child.pc # "none"
  /\ \A t \in Threads : call[t].pc = "idle"
  /\ closing' = "write"
  /\ result' = None
  /\ UNCHANGED <<control, out, child, filePos, call, clean>>

CloseWrites ==
  /\ closing = "write"
  /\ Writes([offset |-> 0, nbytes |-> 0])
  /\ closing' = "wait"
  /\ result' = None
  /\ UNCHANGED <<out, child, filePos, call, clean>>

(* waitpid, for which the whole process waited, returns and the pipes are  *)
(* closed; the file can be opened again.                                   *)
Reap ==
  /\ closing = "wait" /\ child.pc = "gone"
  /\ control' = <<>> /\ out' = <<>>
  /\ child' = NoChild
  /\ filePos' = FirstOffset
  /\ closing' = "no"
  /\ clean' = TRUE
  /\ result' = None
  /\ UNCHANGED call

-----------------------------------------------------------------------------
(* The child calls lseek only when the next section is somewhere else. *)
Seeks(cmd) == child.pos # cmd.offset

(* What read(2) finds from position p on. *)
Section(p, n) == [i \in 1..Min({n, Max({Size - p, 0})}) |-> Data(p + i - 1)]

(* Mutant: the zero length is taken for an empty read. *)
EndsNever(cmd) == cmd.nbytes < 0

Ends(cmd) == cmd.nbytes <= 0

Advance(cmd, buf) == cmd.offset + Len(buf)

(* The child takes a command and reads the file; an error ends it. *)
ChildReads ==
  /\ child.pc = "loop" /\ control # <<>>
  /\ control' = Tail(control)
  /\ LET cmd == Head(control)
         from == IF Seeks(cmd) THEN cmd.offset ELSE filePos
         buf == Section(from, cmd.nbytes)
     IN  \/ /\ Ends(cmd)
            /\ child' = [child EXCEPT !.pc = "gone"]
            /\ UNCHANGED filePos
         \/ /\ ~Ends(cmd)
            /\ child' = [pc |-> "answer", pos |-> Advance(cmd, buf),
                         buf |-> buf]
            /\ filePos' = from + Len(buf)
         \/ /\ ~Ends(cmd)      \* lseek or read fails
            /\ child' = [child EXCEPT !.pc = "gone"]
            /\ filePos' = from
  /\ result' = None
  /\ UNCHANGED <<out, closing, call, clean>>

(* Mutant: nothing is said of an empty section. *)
AnswerSome(buf) == IF buf = <<>> THEN <<>> ELSE <<Length(Len(buf))>>

(* Mutant: the length is the size of the buffer. *)
AnswerFull(buf) == <<Length(NBytes)>>

Answer(buf) == <<Length(Len(buf))>>

(* The length and the data are written separately, each when it fits. *)
HasRoom(n) == Len(out) + n <= OutCap

ChildWritesLength ==
  /\ child.pc = "answer" /\ HasRoom(1)
  /\ out' = out \o Answer(child.buf)
  /\ child' = [child EXCEPT !.pc = "data"]
  /\ result' = None
  /\ UNCHANGED <<control, filePos, closing, call, clean>>

ChildWritesData ==
  /\ child.pc = "data" /\ HasRoom(Len(child.buf))
  /\ out' = out \o child.buf
  /\ child' = [child EXCEPT !.pc = "loop", !.buf = <<>>]
  /\ result' = None
  /\ UNCHANGED <<control, filePos, closing, call, clean>>

ChildSteps == ChildReads \/ ChildWritesLength \/ ChildWritesData

ThreadSteps(t) == Write(t) \/ ReadLength(t) \/ ReadData(t) \/ ReadEof(t)

CloseSteps == CloseWrites \/ Reap

Next ==
  \/ ChildSteps
  \/ Close
  \/ CloseSteps
  \/ \E t \in Threads :
       \/ \E s \in Sections : NoFork(t, s[1], s[2]) \/ Request(t, s[1], s[2])
       \/ ThreadSteps(t)
       \/ WriteTimeout(t)
       \/ Timeout(t)

Spec == Init /\ [][Next]_vars

(* The child is a process of its own, and a thread runs when its           *)
(* descriptor is readable.                                                 *)
FairSpec ==
  Spec /\ WF_vars(ChildSteps) /\ WF_vars(CloseSteps)
       /\ \A t \in Threads : WF_vars(ThreadSteps(t))

-----------------------------------------------------------------------------
(* The pipes never hold more than they can, and the child's idea of the    *)
(* position is a position of the file.                                     *)
TypeOK ==
  /\ Len(out) <= OutCap
  /\ Len(control) <= ControlCap
  /\ child.pos \in 0..(Size + NBytes)
  /\ \A t \in Threads : call[t].want <= call[t].nbytes

(* "Read data from the specified section of a file" (stx_fileio.c, the     *)
(* comment on stx_file_read): what a call returns is the data at the       *)
(* offset that this call asked for.                                        *)
ReadsSection ==
  result # None =>
    \A i \in DOMAIN result.buf : result.buf[i] = Data(result.offset + i - 1)

(* As long as one thread uses the descriptor and none of its calls timed   *)
(* out, a call that returns a count returns the section it asked for, all  *)
(* of it: short only at the end of the file, although st_read may return   *)
(* less than it was asked for and the length comes before the data.  And   *)
(* whatever becomes of the answers, the child's pos, for which it skips    *)
(* lseek, is where the open file really stands.                            *)
CleanReads ==
  /\ TypeOK
  /\ clean /\ result # None /\ result.ret >= 0 =>
       /\ result.buf = Section(result.offset, result.nbytes)
       /\ result.ret = Len(result.buf)
  /\ child.pc \in {"loop", "answer", "data"} => child.pos = filePos

(* Without timeouts and other users every call returns: an answer comes or *)
(* the child is gone.                                                      *)
ReadReturns ==
  \A t \in Threads : []<>(clean => call[t].pc = "idle")

(* "A zero length on the control stream signals an end" (stx_fileio.c, the *)
(* comment on file_reader): if no call timed out, the child exits and the  *)
(* close, which waits for it, returns.                                     *)
CloseReturns == []<>(clean => closing = "no")
=============================================================================
