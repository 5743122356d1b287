------------------------------ MODULE StAccept ------------------------------
(***************************************************************************)
(* st_accept of io.c, called by threads of several processes on one        *)
(* listening socket, with and without st_netfd_serialize_accept.  Threads  *)
(* of a process differ only in where they are, so they are counted.  A     *)
(* thread that finds the pipe empty waits and tries again, which is no     *)
(* step.  From the read of the byte to its write there is no context       *)
(* switch, but other processes run.                                        *)
(***************************************************************************)
EXTENDS Integers, FiniteSetsExt

CONSTANT Procs

VARIABLES
  serialized,   \* aux_data of the listening socket is set
  backlog,      \* connections the kernel has ready
  token,        \* bytes in the pipe
  acc           \* threads of each process in st_accept, by place

Places == {"try", "locked", "poll"}
Nobody == [place \in Places |-> 0]

(* st_netfd_serialize_accept puts one byte into the pipe. *)
AcceptInit ==
  /\ serialized \in BOOLEAN
  /\ backlog = 0
  /\ token = IF serialized THEN 1 ELSE 0
  /\ acc = [p \in Procs |-> Nobody]

(* Where a thread is in a position to call accept(2). *)
Ready == IF serialized THEN "locked" ELSE "try"

Move(p, from, to) ==
  acc' = [acc EXCEPT ![p][from] = @ - 1, ![p][to] = @ + 1]

(* Mutant: every process may be inside. *)
LockShared(p) ==
  /\ serialized /\ token > 0 /\ acc[p].try > 0
  /\ Move(p, "try", "locked")
  /\ UNCHANGED <<serialized, backlog, token>>

(* Get the lock. *)
Lock(p) ==
  /\ serialized /\ token > 0 /\ acc[p].try > 0
  /\ token' = token - 1
  /\ Move(p, "try", "locked")
  /\ UNCHANGED <<serialized, backlog>>

Unlock == token' = IF serialized THEN token + 1 ELSE token

(* accept(2) finds nothing, the lock is given back, and the thread waits   *)
(* until the socket is readable.                                           *)
NotReady(p) ==
  /\ acc[p][Ready] > 0 /\ backlog = 0
  /\ Move(p, Ready, "poll")
  /\ Unlock
  /\ UNCHANGED <<serialized, backlog>>

(* Mutant: the thread waits for an event that never comes. *)
ReadableNever(p) == acc[p].poll > 0 /\ backlog < 0 /\ Move(p, "poll", "try")

Readable(p) ==
  /\ acc[p].poll > 0 /\ backlog > 0
  /\ Move(p, "poll", "try")
  /\ UNCHANGED <<serialized, backlog, token>>

(* A thread of p leaves st_accept, and n threads call it. *)
Again(p, n) ==
  acc' = [acc EXCEPT ![p] = [place \in Places |->
            acc[p][place] - (IF place = Ready THEN 1 ELSE 0)
                          + (IF place = "try" THEN n ELSE 0)]]

(* A thread of p returns with a connection, and n threads call st_accept. *)
Accepts(p, n) ==
  /\ acc[p][Ready] > 0 /\ backlog > 0
  /\ backlog' = backlog - 1
  /\ Again(p, n)
  /\ Unlock
  /\ UNCHANGED serialized

(* accept(2) fails for another reason, and st_accept is called again. *)
Fails(p) ==
  /\ acc[p][Ready] > 0
  /\ Again(p, 1)
  /\ Unlock
  /\ UNCHANGED <<serialized, backlog>>

(* No thread of p can run but the one between lock and unlock. *)
Free(p) == acc[p].locked = 0
=============================================================================
