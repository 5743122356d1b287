------------------------------- MODULE Clist -------------------------------
(***************************************************************************)
(* The circular doubly linked lists of common.h.  A list is the sequence   *)
(* of its elements from ST_LIST_HEAD to ST_LIST_TAIL; appending with       *)
(* ST_APPEND_LINK is Append and taking the head is Head/Tail.              *)
(***************************************************************************)
EXTENDS Naturals, Sequences, FiniteSets

Elems(q) == {q[i] : i \in 1..Len(q)}

(* An element has one pair of links, so it can be on a list only once. *)
NoRepeat(q) == \A i, j \in 1..Len(q) : q[i] = q[j] => i = j

Position(q) == [e \in Elems(q) |-> CHOOSE i \in 1..Len(q) : q[i] = e]

(* ST_REMOVE_LINK: the element leaves the list it is on, the others keep   *)
(* their order.                                                            *)
Unlink(q, e) ==
  LET p == CHOOSE i \in 1..Len(q) : q[i] = e
  IN  [j \in 1..(Len(q) - 1) |-> IF j < p THEN q[j] ELSE q[j + 1]]

(* The orders in which a loop that visits the elements of S by increasing  *)
(* key can meet them: one order when the keys differ, any order of ties.   *)
Arrangements(S, key) ==
  {w \in [1..Cardinality(S) -> S] :
     /\ S = {w[i] : i \in 1..Cardinality(S)}
     /\ \A i, j \in 1..Cardinality(S) :
          i < j => w[i] # w[j] /\ key[w[i]] <= key[w[j]]}
=============================================================================
