----------------------------- MODULE MCLibrary ------------------------------
(* An instance of Library for TLC. *)
EXTENDS Library, TLC

Workers == Threads \ {Primordial}

App(boss, work, joinable, sizes, limit) ==
  [calls |-> [t \in Threads |-> IF t = Primordial THEN boss ELSE work],
   joinable |-> joinable, sizes |-> sizes, limit |-> limit]

(* Applications that use a part of the library each: threads that wait and *)
(* are waited for, threads that share descriptors, threads that serve a    *)
(* listening socket, threads with private data and stacks of different     *)
(* sizes, and one thread with private data of its descriptors.             *)
SomeApps ==
  {App({"create", "join", "interrupt", "sleep", "exit"}, {"sleep", "cond", "exit"},
       {TRUE}, {0}, 0),
   App({"create", "interrupt", "sleep", "open", "close"}, {"in", "out", "exit"},
       {FALSE}, {0}, 1),
   App({"create", "sleep", "socket", "close"}, {"accept", "close", "exit"},
       {FALSE}, {0}, 2),
   App({"create", "join"}, {"data", "exit"}, BOOLEAN, {0, 1}, 0),
   App({"socket", "open", "close", "data"}, {}, {}, {}, 2)}

SomeRefusals == {{}, {1}}

WorkerSymmetry == Permutations(Workers)
=============================================================================
