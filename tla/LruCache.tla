------------------------------ MODULE LruCache ------------------------------
(***************************************************************************)
(* Threads that share a cache.  A thread keeps a reference to an entry     *)
(* from a lookup or an insertion to the release, across any number of      *)
(* context switches, while the others look up, insert and delete.          *)
(***************************************************************************)
EXTENDS LruSet

CONSTANTS Users, None

ASSUME UsersAssumption == IsFiniteSet(Users) /\ None \notin Entries

VARIABLES cache, held

vars == <<cache, held>>

Init == cache = NewCache /\ held = [u \in Users |-> None]

stx_cache_entry_lookup(u) ==
  /\ held[u] = None
  /\ \E k \in Keys : \E e \in Found(cache, k) :
       /\ cache' = Lookup(cache, e)
       /\ held' = [held EXCEPT ![u] = e]

stx_cache_entry_release(u) ==
  /\ held[u] # None
  /\ cache' = Release(cache, held[u])
  /\ held' = [held EXCEPT ![u] = None]

(* A new entry is created and inserted, and the caller holds it; one that  *)
(* does not fit is deleted.                                                *)
stx_cache_entry_insert(u) ==
  /\ held[u] = None
  /\ \E e \in Entries \ cache.table :
       \/ /\ Inserts(cache, e)
          /\ cache' = Insert(cache, e)
          /\ held' = [held EXCEPT ![u] = e]
       \/ /\ ~Inserts(cache, e)
          /\ cache' = Delete(Insert(cache, e), e)
          /\ UNCHANGED held

(* A thread may only delete what it knows to be there: an entry it holds. *)
stx_cache_entry_delete(u) ==
  /\ held[u] # None
  /\ cache' = Delete(cache, held[u])
  /\ UNCHANGED held

(* A thread finds a stale entry: the release and the deletion that purge   *)
(* it follow the lookup without a context switch.                          *)
Purge(u) ==
  /\ held[u] = None
  /\ \E k \in Keys : \E e \in Found(cache, k) :
       cache' = Delete(Release(Lookup(cache, e), e), e)
  /\ UNCHANGED held

stx_cache_empty == cache' = Empty(cache) /\ UNCHANGED held

Next ==
  \/ stx_cache_empty
  \/ \E u \in Users :
       \/ stx_cache_entry_lookup(u)
       \/ stx_cache_entry_release(u)
       \/ stx_cache_entry_insert(u)
       \/ stx_cache_entry_delete(u)
       \/ Purge(u)

Spec == Init /\ [][Next]_vars

-----------------------------------------------------------------------------
(* The fields have their types: lists and sets of entries, counters that   *)
(* never went below zero.                                                  *)
TypeOK ==
  /\ cache.table \subseteq Entries
  /\ cache.lru \in Seq(Entries)
  /\ cache.ref \in [Entries -> Nat]
  /\ cache.pending \subseteq Entries
  /\ cache.size \in Nat
  /\ cache.weight \in Nat
  /\ held \in [Users -> Entries \cup {None}]

(* An entry that a thread holds is not freed, whatever the other threads   *)
(* evict, replace or delete meanwhile, and its reference count is the      *)
(* number of its holders (ref_count in lrucache.c).                        *)
HeldStays ==
  /\ TypeOK
  /\ \A u \in Users : held[u] # None => held[u] \in cache.table
  /\ \A e \in Entries : cache.ref[e] = Cardinality({u \in Users : held[u] = e})

(* The LRU list has, once each, the entries of the table that nobody uses: *)
(* an entry in use is never evicted, one not in use can always be.  One    *)
(* that was deleted while in use (delete_pending) is freed by the last     *)
(* release.  A lookup has no choice: at most one entry of a key is found,  *)
(* although a replaced entry that is in use stays in the table.            *)
ListExact ==
  /\ NoRepeat(cache.lru)
  /\ Elems(cache.lru) = {e \in cache.table : cache.ref[e] = 0}
  /\ \A e \in cache.pending : e \in cache.table /\ cache.ref[e] > 0
  /\ \A k \in Keys : Cardinality(Found(cache, k)) <= 1

(* One unit of each entry for each unit of its weight. *)
Units(T) == UNION {{e} \X (1..WeightOf[e]) : e \in T}

(* cur_size and cur_weight count the table exactly, entries waiting for    *)
(* their last release included, and stay within the limits of the cache.   *)
WithinLimits ==
  /\ cache.size = Cardinality(cache.table) /\ cache.size <= MaxSize
  /\ cache.weight = Cardinality(Units(cache.table))
  /\ cache.weight <= MaxWeight

(* Eviction takes the list from its head: an entry that disappears from it *)
(* while an earlier one stays was looked up, replaced by an entry with its *)
(* key or purged alone.  And the list keeps the order of the last releases:*)
(* two entries that stay keep their order, and a new one comes last.       *)
EvictsOldest ==
  [][/\ \A i, j \in 1..Len(cache.lru) :
          i < j /\ cache.lru[i] \in cache'.table /\ cache'.ref[cache.lru[i]] = 0
            => \/ cache.lru[j] \in cache'.table
               \/ \E e \in cache'.table \ cache.table :
                    KeyOf[e] = KeyOf[cache.lru[j]]
               \/ cache'.table = cache.table \ {cache.lru[j]}
     /\ \A i, j \in 1..Len(cache'.lru) :
          i < j => \/ cache'.lru[j] \notin Elems(cache.lru)
                   \/ /\ cache'.lru[i] \in Elems(cache.lru)
                      /\ cache'.lru[j] \in Elems(cache.lru)
                      /\ Position(cache.lru)[cache'.lru[i]]
                           < Position(cache.lru)[cache'.lru[j]]]_vars
=============================================================================
