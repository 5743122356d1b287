------------------------------- MODULE LruSet -------------------------------
(***************************************************************************)
(* The reference-counted cache of extensions/lrucache.c as operations on a *)
(* record: table is the set of entries in the hash table (pthis is set),   *)
(* lru the list lru_list from its head, the least recently used entry, ref *)
(* the reference counts, pending the entries with delete_pending, size and *)
(* weight the counters cur_size and cur_weight.  An entry that is in no    *)
(* table is not allocated.  An entry's key and weight never change, so     *)
(* they are constants.                                                     *)
(***************************************************************************)
EXTENDS Clist

CONSTANTS Entries, KeyOf, WeightOf, MaxSize, MaxWeight

Keys == {KeyOf[e] : e \in Entries}

ASSUME LruAssumption ==
  /\ WeightOf \in [Entries -> Nat]
  /\ MaxSize \in Nat
  /\ MaxWeight \in Nat

NewCache ==
  [table |-> {}, lru |-> <<>>, ref |-> [e \in Entries |-> 0],
   pending |-> {}, size |-> 0, weight |-> 0]

(* Mutant: an entry in use is freed under its users. *)
DeleteInUse(c, e) ==
  IF e \notin c.table THEN c
  ELSE [c EXCEPT !.table = @ \ {e},
                 !.ref[e] = 0,
                 !.lru = IF e \in Elems(@) THEN Unlink(@, e) ELSE @,
                 !.size = @ - 1,
                 !.weight = @ - WeightOf[e]]

(* An entry in use stays until its last user releases it. *)
Delete(c, e) ==
  IF c.ref[e] > 0 THEN [c EXCEPT !.pending = @ \cup {e}]
  ELSE IF e \notin c.table THEN c
  ELSE [c EXCEPT !.table = @ \ {e},
                 !.pending = @ \ {e},
                 !.lru = Unlink(@, e),
                 !.size = @ - 1,
                 !.weight = @ - WeightOf[e]]

(* The entry a search of key k's bucket finds. *)
Found(c, k) == {e \in c.table \ c.pending : KeyOf[e] = k}

Lookup(c, e) ==
  [c EXCEPT !.lru = IF c.ref[e] = 0 THEN Unlink(@, e) ELSE @,
            !.ref[e] = @ + 1]

(* Mutant: an entry nobody uses is on no list. *)
DroppedUnlisted(c, e) == [c EXCEPT !.ref[e] = @ - 1]

(* The last reference is gone. *)
Dropped(c, e) == [c EXCEPT !.ref[e] = @ - 1, !.lru = Append(@, e)]

Release(c, e) ==
  IF c.ref[e] = 0 THEN c
  ELSE IF c.ref[e] > 1 THEN [c EXCEPT !.ref[e] = @ - 1]
  ELSE IF e \in c.pending THEN Delete(Dropped(c, e), e)
  ELSE Dropped(c, e)

(* The cache before and after each of the deletions of the entries of q. *)
Deletions(c, q) ==
  LET after[n \in 0..Len(q)] == IF n = 0 THEN c ELSE Delete(after[n - 1], q[n])
  IN  after

(* Mutant: the other end of the list. *)
EvictNewest(c, n) ==
  LET q == c.lru IN Deletions(c, [i \in 1..Len(q) |-> q[Len(q) + 1 - i]])[n]

(* The n least recently used entries are deleted. *)
Evict(c, n) == Deletions(c, c.lru)[n]

(* How many evictions make room for a weight of w; all of them are tried   *)
(* in vain when no number does.                                            *)
Fits(c, w) == {n \in 0..Len(c.lru) : Evict(c, n).weight + w <= MaxWeight}

Lighter(c, w) ==
  Evict(c, IF Fits(c, w) = {} THEN Len(c.lru)
           ELSE CHOOSE n \in Fits(c, w) : \A m \in Fits(c, w) : n <= m)

(* Mutant: off by one. *)
FullLate(c) == c.size > MaxSize

Full(c) == c.size >= MaxSize

Smaller(c) == IF Full(c) /\ c.lru # <<>> THEN Evict(c, 1) ELSE c

(* What is left after the entries that had to go for e. *)
Room(c, e) == Smaller(Lighter(c, WeightOf[e]))

Inserts(c, e) ==
  /\ Fits(c, WeightOf[e]) # {}
  /\ Full(Lighter(c, WeightOf[e])) => Lighter(c, WeightOf[e]).lru # <<>>

(* Don't add duplicate entries in the cache. *)
Replaced(c, k) ==
  IF Found(c, k) = {} THEN c ELSE Delete(c, CHOOSE e \in Found(c, k) : TRUE)

Link(c, e) ==
  [c EXCEPT !.table = @ \cup {e},
            !.ref[e] = @ + 1,
            !.size = @ + 1,
            !.weight = @ + WeightOf[e]]

(* The cache after stx_cache_entry_insert: an entry that does not fit      *)
(* stays out, but what was evicted for it is gone.                         *)
Insert(c, e) ==
  IF Inserts(c, e) THEN Link(Replaced(Room(c, e), KeyOf[e]), e)
  ELSE Lighter(c, WeightOf[e])

(* stx_cache_empty deletes the entries one by one, in whatever order. *)
Empty(c) ==
  LET q == CHOOSE w \in Arrangements(c.table, [e \in c.table |-> 0]) : TRUE
  IN  Deletions(c, q)[Len(q)]
=============================================================================
