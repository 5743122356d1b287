----------------------------- MODULE StackPool ------------------------------
(***************************************************************************)
(* The thread stacks of stk.c.  A pool p has                               *)
(*   size   the stk_size of every stack made so far; a stack is its index  *)
(*   free   _st_free_stacks, from head to tail                             *)
(* Stacks are never given back to the system.                              *)
(***************************************************************************)
EXTENDS Integers, SequencesExt

(* st_thread_create: a size of 0 asks for the default, and all sizes are   *)
(* rounded up to whole pages.                                              *)
Rounded(size, page, default) ==
  LET n == IF size = 0 THEN default ELSE size
  IN  ((n + page - 1) \div page) * page

BigEnough(p, size) == {i \in DOMAIN p.free : p.size[p.free[i]] >= size}

(* The outcomes of _st_stack_new: the first free stack that is big enough, *)
(* or a new one, or none (stack 0) when no memory can be had.              *)
_st_stack_new(p, size) ==
  IF BigEnough(p, size) # {}
  THEN LET i == Min(BigEnough(p, size)) IN
       {[pool |-> [p EXCEPT !.free = RemoveAt(@, i)], stack |-> p.free[i]]}
  ELSE {[pool |-> [p EXCEPT !.size = Append(@, size)], stack |-> Len(p.size) + 1],
        [pool |-> p, stack |-> 0]}

(* _st_stack_free inserts before the last element of the free list. *)
_st_stack_free(p, s) ==
  [p EXCEPT !.free = IF @ = <<>> THEN <<s>> ELSE Front(@) \o <<s, Last(@)>>]
=============================================================================
