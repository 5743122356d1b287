----------------------------- MODULE LruProofs ------------------------------
(***************************************************************************)
(* The cache of lrucache.c, for any entries, keys, weights, limits and     *)
(* users.                                                                  *)
(***************************************************************************)
EXTENDS LruCache, ClistProofs, FiniteSetTheorems

CacheType ==
  [table : SUBSET Entries, lru : Seq(Entries), ref : [Entries -> Nat],
   pending : SUBSET Entries, size : Nat, weight : Nat]

(* What the operations of lrucache.c keep true of a cache. *)
Sound(c) ==
  /\ c \in CacheType
  /\ IsFiniteSet(c.table) /\ IsFiniteSet(Units(c.table))
  /\ \A e \in Entries : c.ref[e] > 0 => e \in c.table
  /\ NoRepeat(c.lru)
  /\ Elems(c.lru) = {e \in c.table : c.ref[e] = 0}
  /\ \A e \in c.pending : e \in c.table /\ c.ref[e] > 0
  /\ \A e, d \in c.table \ c.pending : KeyOf[e] = KeyOf[d] => e = d
  /\ c.size = Cardinality(c.table)
  /\ c.weight = Cardinality(Units(c.table))

CacheInv ==
  /\ Sound(cache)
  /\ held \in [Users -> Entries \cup {None}]
  /\ \A e \in Entries : cache.ref[e] = Cardinality({u \in Users : held[u] = e})
  /\ cache.size <= MaxSize /\ cache.weight <= MaxWeight
-----------------------------------------------------------------------------
(* The weight of a table grows by the weight of what is added to it. *)
LEMMA UnitsAdded ==
  ASSUME NEW T \in SUBSET Entries, IsFiniteSet(Units(T)), NEW e \in Entries \ T
  PROVE  /\ IsFiniteSet(Units(T \cup {e}))
         /\ Cardinality(Units(T \cup {e})) = Cardinality(Units(T)) + WeightOf[e]
<1> DEFINE w == WeightOf[e]
           own == {e} \X (1..w)
<1>1. w \in Nat
  BY LruAssumption
<1>2. Units(T \cup {e}) = Units(T) \cup own /\ Units(T) \cap own = {}
  BY DEF Units
<1> HIDE DEF w
<1>3. IsFiniteSet(own) /\ Cardinality(own) = w
  <2>1. IsFiniteSet({e}) /\ Cardinality({e}) = 1
    BY FS_Singleton, Zenon
  <2>2. IsFiniteSet(1..w) /\ Cardinality(1..w) = IF 1 > w THEN 0 ELSE w - 1 + 1
    BY <1>1, FS_Interval
  <2>3. Cardinality(1..w) = w
    BY <1>1, <2>2
  <2>4. IsFiniteSet(own) /\ Cardinality(own) = 1 * w
    BY <2>1, <2>2, <2>3, FS_Product, ZenonT(60)
  <2> QED BY <1>1, <2>4
<1> HIDE DEF own
<1>4. Cardinality(Units(T)) \in Nat
  BY FS_CardinalityType
<1>5. /\ IsFiniteSet(Units(T) \cup own)
      /\ Cardinality(Units(T) \cup own)
           = Cardinality(Units(T)) + Cardinality(own) - Cardinality(Units(T) \cap own)
  BY <1>3, FS_Union
<1>6. Cardinality(Units(T) \cap own) = 0
  BY <1>2, FS_EmptySet
<1>7. Cardinality(Units(T) \cup own) = Cardinality(Units(T)) + w
  BY <1>1, <1>3, <1>4, <1>5, <1>6
<1> QED BY <1>2, <1>5, <1>7 DEF w

(* And shrinks by the weight of what is taken out. *)
LEMMA UnitsTaken ==
  ASSUME NEW T \in SUBSET Entries, IsFiniteSet(Units(T)), NEW e \in T
  PROVE  /\ IsFiniteSet(Units(T \ {e}))
         /\ Cardinality(Units(T \ {e})) = Cardinality(Units(T)) - WeightOf[e]
         /\ Cardinality(Units(T \ {e})) \in Nat
<1>1. IsFiniteSet(Units(T \ {e}))
  <2>1. Units(T \ {e}) \in SUBSET Units(T)
    BY DEF Units
  <2> QED BY <2>1, FS_Subset, Zenon
<1>2. (T \ {e}) \cup {e} = T /\ T \ {e} \in SUBSET Entries /\ e \in Entries \ (T \ {e})
  OBVIOUS
<1>3. Cardinality(Units(T)) = Cardinality(Units(T \ {e})) + WeightOf[e]
  BY <1>1, <1>2, UnitsAdded
<1>4. Cardinality(Units(T \ {e})) \in Nat /\ WeightOf[e] \in Nat
  BY <1>1, FS_CardinalityType, LruAssumption
<1> QED BY <1>1, <1>3, <1>4

(* The list r has only elements of the list q, in the order of q. *)
Within(r, q) ==
  /\ Elems(r) \subseteq Elems(q)
  /\ \A i, j \in 1..Len(r) :
       i < j => \E a, b \in 1..Len(q) : a < b /\ q[a] = r[i] /\ q[b] = r[j]

LEMMA WithinItself ==
  ASSUME NEW q
  PROVE  Within(q, q)
BY DEF Within

LEMMA WithinBoth ==
  ASSUME NEW q, NEW r, NEW s, Within(r, q), Within(s, r)
  PROVE  Within(s, q)
<1>1. Elems(s) \subseteq Elems(q)
  BY DEF Within
<1>2. ASSUME NEW i \in 1..Len(s), NEW j \in 1..Len(s), i < j
      PROVE  \E a, b \in 1..Len(q) : a < b /\ q[a] = s[i] /\ q[b] = s[j]
  <2>1. PICK m, n \in 1..Len(r) : m < n /\ r[m] = s[i] /\ r[n] = s[j]
    BY <1>2 DEF Within
  <2>2. PICK a, b \in 1..Len(q) : a < b /\ q[a] = r[m] /\ q[b] = r[n]
    BY <2>1 DEF Within
  <2> QED BY <2>1, <2>2
<1> QED BY <1>1, <1>2, Zenon DEF Within

(* STX_CLIST_REMOVE_LINK keeps the order of the others. *)
LEMMA WithinUnlink ==
  ASSUME NEW q \in Seq(Entries), NoRepeat(q), NEW e \in Elems(q)
  PROVE  Within(Unlink(q, e), q)
<1> DEFINE p == CHOOSE i \in 1..Len(q) : q[i] = e
           r == Unlink(q, e)
           at(j) == IF j < p THEN j ELSE j + 1
<1>1. Len(q) \in Nat /\ p \in 1..Len(q)
  BY SeqLen DEF Elems
<1>2. r = [j \in 1..(Len(q) - 1) |-> IF j < p THEN q[j] ELSE q[j + 1]]
  BY DEF Unlink
<1>3. r \in Seq(Entries) /\ Elems(r) \subseteq Elems(q)
  BY UnlinkElems
<1> HIDE DEF p, r
<1>4. Len(r) = Len(q) - 1
  <2>1. DOMAIN r = 1..(Len(q) - 1) /\ DOMAIN r = 1..Len(r) /\ Len(r) \in Nat
    BY <1>2, <1>3, SeqLen, Zenon
  <2> QED BY <1>1, <2>1
<1>5. ASSUME NEW i \in 1..Len(r), NEW j \in 1..Len(r), i < j
      PROVE  \E a, b \in 1..Len(q) : a < b /\ q[a] = r[i] /\ q[b] = r[j]
  <2>1. at(i) \in 1..Len(q) /\ at(j) \in 1..Len(q) /\ at(i) < at(j)
    BY <1>1, <1>4, <1>5
  <2>2. q[at(i)] = r[i] /\ q[at(j)] = r[j]
    BY <1>1, <1>2, <1>4
  <2> QED BY <2>1, <2>2, Zenon
<1> QED BY <1>3, <1>5, Zenon DEF Within, r
-----------------------------------------------------------------------------
(* stx_cache_entry_delete: an entry in use is only marked, another leaves  *)
(* the table and the list.                                                 *)
LEMMA DeleteSound ==
  ASSUME NEW c, Sound(c), NEW e \in Entries, NEW d, d = Delete(c, e)
  PROVE  /\ Sound(d) /\ d.ref = c.ref /\ Within(d.lru, c.lru)
         /\ c.table \ {e} \subseteq d.table /\ d.table \subseteq c.table
         /\ d.size <= c.size /\ d.weight <= c.weight
         /\ c.ref[e] > 0 => d.table = c.table
         /\ c.ref[e] = 0 => /\ d.table = c.table \ {e}
                            /\ d.pending = c.pending
                            /\ e \in c.table => d.lru = Unlink(c.lru, e)
         /\ e \in c.table /\ c.ref[e] = 0 => d.size = c.size - 1
         /\ e \in d.table => e \in d.pending
<1>0. /\ c \in CacheType /\ c.ref[e] \in Nat
      /\ c.size \in Nat /\ c.weight \in Nat /\ c.lru \in Seq(Entries)
      /\ c.table \in SUBSET Entries /\ c.pending \in SUBSET Entries
  BY DEF Sound, CacheType
<1>1. CASE c.ref[e] > 0
  <2>1. d = [c EXCEPT !.pending = c.pending \cup {e}]
    BY <1>1 DEF Delete
  <2>2. /\ d \in CacheType
        /\ d.table = c.table /\ d.lru = c.lru /\ d.ref = c.ref
        /\ d.size = c.size /\ d.weight = c.weight
        /\ d.pending = c.pending \cup {e}
    BY <1>0, <2>1, ZenonT(60) DEF CacheType
  <2>3. Sound(d)
    BY <1>1, <2>2 DEF Sound
  <2> QED BY <1>0, <1>1, <2>2, <2>3, WithinItself
<1>2. CASE c.ref[e] = 0 /\ e \notin c.table
  <2>1. d = c
    BY <1>2 DEF Delete
  <2> QED BY <1>0, <1>2, <2>1, WithinItself
<1>3. CASE c.ref[e] = 0 /\ e \in c.table
  <2>1. e \notin c.pending /\ e \in Elems(c.lru)
    BY <1>3 DEF Sound
  <2>2. d = [c EXCEPT !.table = c.table \ {e}, !.pending = c.pending \ {e},
                      !.lru = Unlink(c.lru, e), !.size = c.size - 1,
                      !.weight = c.weight - WeightOf[e]]
    BY <1>3 DEF Delete
  <2>3. /\ d.table = c.table \ {e} /\ d.pending = c.pending \ {e}
        /\ d.lru = Unlink(c.lru, e) /\ d.ref = c.ref
        /\ d.size = c.size - 1 /\ d.weight = c.weight - WeightOf[e]
        /\ d = [table |-> d.table, lru |-> d.lru, ref |-> d.ref,
                pending |-> d.pending, size |-> d.size, weight |-> d.weight]
    BY <1>0, <2>2, Zenon DEF CacheType
  <2>4. d.pending = c.pending
    BY <2>1, <2>3
  <2>5. /\ d.lru \in Seq(Entries) /\ NoRepeat(d.lru)
        /\ Elems(d.lru) = Elems(c.lru) \ {e}
    BY <1>0, <2>1, <2>3, UnlinkElems DEF Sound
  <2>6. /\ IsFiniteSet(d.table) /\ d.size = Cardinality(d.table) /\ d.size \in Nat
    BY <1>3, <2>3, FS_RemoveElement, FS_CardinalityType DEF Sound
  <2>7. /\ IsFiniteSet(Units(d.table)) /\ d.weight = Cardinality(Units(d.table))
        /\ d.weight \in Nat
    <3>1. /\ IsFiniteSet(Units(c.table \ {e}))
          /\ Cardinality(Units(c.table \ {e})) = Cardinality(Units(c.table)) - WeightOf[e]
          /\ Cardinality(Units(c.table \ {e})) \in Nat
      BY <1>0, <1>3, UnitsTaken DEF Sound
    <3>2. c.weight = Cardinality(Units(c.table))
      BY DEF Sound
    <3> QED BY <2>3, <3>1, <3>2
  <2>8. d.weight <= c.weight
    BY <1>0, <2>3, LruAssumption
  <2>9. d \in CacheType
    BY <1>0, <2>3, <2>4, <2>5, <2>6, <2>7 DEF CacheType
  <2>10. Sound(d)
    BY <1>3, <2>3, <2>4, <2>5, <2>6, <2>7, <2>9 DEF Sound
  <2>11. Within(d.lru, c.lru)
    BY <1>0, <2>1, <2>3, WithinUnlink DEF Sound
  <2> QED BY <1>0, <1>3, <2>3, <2>4, <2>8, <2>10, <2>11
<1> QED BY <1>0, <1>1, <1>2, <1>3

(* A loop of deletions exists, and takes one step at a time. *)
LEMMA DeletionsStep ==
  ASSUME NEW c, NEW q \in Seq(Entries)
  PROVE  /\ Deletions(c, q)[0] = c
         /\ \A n \in 1..Len(q) :
              Deletions(c, q)[n] = Delete(Deletions(c, q)[n - 1], q[n])
<1> DEFINE Is(f, m) ==
             f = [n \in 0..m |-> IF n = 0 THEN c ELSE Delete(f[n - 1], q[n])]
           T == {m \in Nat : \E f : Is(f, m)}
<1>1. 0 \in T
  <2>1. Is([n \in 0..0 |-> c], 0)
    OBVIOUS
  <2> QED BY <2>1, Zenon
<1>2. ASSUME NEW m \in T
      PROVE  m + 1 \in T
  <2>1. PICK f : Is(f, m)
    OBVIOUS
  <2> DEFINE g == [n \in 0..(m + 1) |-> IF n <= m THEN f[n] ELSE Delete(f[m], q[m + 1])]
  <2>2. ASSUME NEW n \in 0..(m + 1)
        PROVE  g[n] = IF n = 0 THEN c ELSE Delete(g[n - 1], q[n])
    <3>1. CASE n = 0
      BY <2>1, <3>1
    <3>2. CASE n \in 1..m
      <4>1. n - 1 \in 0..m /\ n - 1 \in 0..(m + 1) /\ n \in 0..m
        BY <3>2
      <4>2. g[n] = f[n] /\ g[n - 1] = f[n - 1]
        BY <3>2, <4>1
      <4>3. f[n] = IF n = 0 THEN c ELSE Delete(f[n - 1], q[n])
        BY <2>1, <4>1, Zenon
      <4> QED BY <3>2, <4>2, <4>3
    <3>3. CASE n = m + 1
      <4>1. m \in 0..(m + 1) /\ n - 1 = m
        BY <3>3
      <4> QED BY <3>3, <4>1
    <3> QED BY <3>1, <3>2, <3>3
  <2>3. Is(g, m + 1)
    BY <2>2, SMTT(60)
  <2> HIDE DEF Is
  <2> QED BY <2>3
<1>3. Len(q) \in T
  <2>1. T \in SUBSET Nat /\ Len(q) \in Nat
    BY SeqLen
  <2> HIDE DEF T
  <2> QED BY <1>1, <1>2, <2>1, NatSetInduction, SMTT(60)
<1>4. \E f : Is(f, Len(q))
  BY <1>3
<1>5. Is(Deletions(c, q), Len(q))
  BY <1>4, Zenon DEF Deletions
<1> HIDE DEF T
<1>6. Len(q) \in Nat
  BY SeqLen
<1>7. Deletions(c, q)[0] = c
  <2>1. 0 \in 0..Len(q)
    BY <1>6
  <2> QED BY <1>5, <2>1, Zenon
<1>8. ASSUME NEW n \in 1..Len(q)
      PROVE  Deletions(c, q)[n] = Delete(Deletions(c, q)[n - 1], q[n])
  <2>1. n \in 0..Len(q) /\ n # 0
    BY <1>6
  <2> QED BY <1>5, <2>1, Zenon
<1> QED BY <1>7, <1>8

(* What a loop of deletions does: entries in use stay, the others go. *)
LEMMA DeletionsSound ==
  ASSUME NEW c, Sound(c), NEW q \in Seq(Entries), NEW n \in 0..Len(q),
         NEW d, d = Deletions(c, q)[n]
  PROVE  /\ Sound(d) /\ d.ref = c.ref /\ Within(d.lru, c.lru)
         /\ d.table \subseteq c.table
         /\ d.size <= c.size /\ d.weight <= c.weight
         /\ \A e \in c.table \ d.table : c.ref[e] = 0 /\ \E i \in 1..n : e = q[i]
         /\ \A i \in 1..n : c.ref[q[i]] = 0 => q[i] \notin d.table
<1> DEFINE After(b, m) ==
             /\ Sound(b) /\ b.ref = c.ref /\ Within(b.lru, c.lru)
             /\ b.table \subseteq c.table
             /\ b.size <= c.size /\ b.weight <= c.weight
             /\ \A e \in c.table \ b.table : c.ref[e] = 0 /\ \E i \in 1..m : e = q[i]
             /\ \A i \in 1..m : c.ref[q[i]] = 0 => q[i] \notin b.table
           T == {m \in Nat : m <= Len(q) => After(Deletions(c, q)[m], m)}
<1>0. Len(q) \in Nat /\ \A i \in 1..Len(q) : q[i] \in Entries
  BY SeqLen
<1>1. 0 \in T
  <2>1. c.size \in Nat /\ c.weight \in Nat
    BY DEF Sound, CacheType
  <2>2. After(c, 0)
    BY <2>1, WithinItself
  <2> HIDE DEF After
  <2> QED BY <2>2, DeletionsStep
<1>2. ASSUME NEW m \in T
      PROVE  m + 1 \in T
  <2> SUFFICES ASSUME m + 1 <= Len(q)
               PROVE  After(Deletions(c, q)[m + 1], m + 1)
    OBVIOUS
  <2> DEFINE a == Deletions(c, q)[m]
             b == Deletions(c, q)[m + 1]
             e == q[m + 1]
  <2>1. m \in Nat /\ m <= Len(q) /\ m + 1 \in 1..Len(q) /\ (m + 1) - 1 = m
    BY <1>0
  <2>2. b = Delete(a, e)
    BY <2>1, DeletionsStep
  <2>3. After(a, m) /\ e \in Entries
    BY <1>0, <2>1
  <2> HIDE DEF a, b, e, T
  <2>4. /\ Sound(b) /\ b.ref = a.ref /\ Within(b.lru, a.lru)
        /\ b.table \subseteq a.table /\ a.table \ {e} \subseteq b.table
        /\ b.size <= a.size /\ b.weight <= a.weight
        /\ a.ref[e] > 0 => b.table = a.table
        /\ a.ref[e] = 0 => e \notin b.table
    BY <2>2, <2>3, DeleteSound
  <2>5. Within(b.lru, c.lru)
    BY <2>3, <2>4, WithinBoth
  <2>6. b.size <= c.size /\ b.weight <= c.weight
    <3>1. /\ a.size \in Nat /\ b.size \in Nat /\ c.size \in Nat
          /\ a.weight \in Nat /\ b.weight \in Nat /\ c.weight \in Nat
      BY <2>3, <2>4 DEF Sound, CacheType
    <3> QED BY <2>3, <2>4, <3>1, SMTT(60)
  <2>7. c.ref[e] \in Nat
    BY <2>3 DEF Sound, CacheType
  <2>8. ASSUME NEW x \in c.table \ b.table
        PROVE  c.ref[x] = 0 /\ \E i \in 1..(m + 1) : x = q[i]
    <3>1. CASE x \in a.table
      <4>1. x = e /\ ~(a.ref[e] > 0)
        BY <2>4, <2>8, <3>1
      <4> QED BY <2>1, <2>3, <2>7, <4>1 DEF e
    <3>2. CASE x \notin a.table
      <4>1. PICK i \in 1..m : x = q[i]
        BY <2>3, <2>8, <3>2
      <4>2. i \in 1..(m + 1)
        BY <2>1
      <4> QED BY <2>3, <2>8, <3>2, <4>1, <4>2
    <3> QED BY <3>1, <3>2
  <2>9. ASSUME NEW i \in 1..(m + 1), c.ref[q[i]] = 0
        PROVE  q[i] \notin b.table
    <3>1. CASE i = m + 1
      BY <2>3, <2>4, <2>9, <3>1 DEF e
    <3>2. CASE i \in 1..m
      BY <2>3, <2>4, <2>9, <3>2
    <3> QED BY <2>1, <3>1, <3>2
  <2> QED BY <2>3, <2>4, <2>5, <2>6, <2>8, <2>9 DEF b
<1>3. n \in T
  <2>1. T \in SUBSET Nat /\ n \in Nat
    BY <1>0
  <2> HIDE DEF T
  <2> QED BY <1>1, <1>2, <2>1, NatSetInduction, Zenon
<1>4. After(d, n)
  BY <1>0, <1>3
<1> QED BY <1>4

-----------------------------------------------------------------------------
(* stx_cache_entry_lookup: an entry that gets a user leaves the list. *)
LEMMA LookupSound ==
  ASSUME NEW c, Sound(c), NEW e \in c.table, NEW d, d = Lookup(c, e)
  PROVE  /\ Sound(d) /\ Within(d.lru, c.lru)
         /\ d.ref = [c.ref EXCEPT ![e] = @ + 1]
         /\ d.table = c.table /\ d.pending = c.pending
         /\ d.size = c.size /\ d.weight = c.weight
<1>0. /\ c \in CacheType /\ e \in Entries /\ c.ref \in [Entries -> Nat]
      /\ c.ref[e] \in Nat /\ c.lru \in Seq(Entries) /\ NoRepeat(c.lru)
  BY DEF Sound, CacheType
<1>1. /\ d.table = c.table /\ d.pending = c.pending
      /\ d.size = c.size /\ d.weight = c.weight
      /\ d.ref = [c.ref EXCEPT ![e] = @ + 1]
      /\ d.lru = IF c.ref[e] = 0 THEN Unlink(c.lru, e) ELSE c.lru
      /\ d = [table |-> d.table, lru |-> d.lru, ref |-> d.ref,
              pending |-> d.pending, size |-> d.size, weight |-> d.weight]
  BY <1>0, Zenon DEF Lookup, CacheType
<1>2. /\ d.ref \in [Entries -> Nat] /\ d.ref[e] = c.ref[e] + 1
      /\ \A x \in Entries \ {e} : d.ref[x] = c.ref[x]
  BY <1>0, <1>1
<1>3. /\ d.lru \in Seq(Entries) /\ NoRepeat(d.lru) /\ Within(d.lru, c.lru)
      /\ Elems(d.lru) = Elems(c.lru) \ {e}
  <2>1. CASE c.ref[e] = 0
    <3>1. e \in Elems(c.lru)
      BY <2>1 DEF Sound
    <3>2. d.lru = Unlink(c.lru, e)
      BY <1>1, <2>1
    <3> QED BY <1>0, <3>1, <3>2, UnlinkElems, WithinUnlink
  <2>2. CASE c.ref[e] # 0
    <3>1. e \notin Elems(c.lru) /\ d.lru = c.lru
      BY <1>1, <2>2 DEF Sound
    <3> QED BY <1>0, <3>1, WithinItself
  <2> QED BY <2>1, <2>2
<1>4. d \in CacheType
  BY <1>0, <1>1, <1>2, <1>3, Zenon DEF CacheType
<1>5. c.table \subseteq Entries /\ c.pending \subseteq Entries
  BY DEF Sound, CacheType
<1>6. Elems(d.lru) = {x \in d.table : d.ref[x] = 0}
  <2>1. Elems(c.lru) = {x \in c.table : c.ref[x] = 0} /\ d.ref[e] # 0
    BY <1>0, <1>2 DEF Sound
  <2> QED BY <1>1, <1>2, <1>3, <1>5, <2>1
<1>7. \A x \in d.pending : x \in d.table /\ d.ref[x] > 0
  BY <1>0, <1>1, <1>2, <1>5 DEF Sound
<1>8. \A x \in Entries : d.ref[x] > 0 => x \in d.table
  BY <1>1, <1>2 DEF Sound
<1>9. Sound(d)
  BY <1>1, <1>3, <1>4, <1>6, <1>7, <1>8 DEF Sound
<1> QED BY <1>1, <1>3, <1>9

(* What is put at the end of a list and taken out again leaves the list. *)
LEMMA UnlinkAppended ==
  ASSUME NEW q \in Seq(Entries), NEW e \in Entries, e \notin Elems(q)
  PROVE  Unlink(Append(q, e), e) = q
<1> DEFINE r == Append(q, e)
           p == CHOOSE i \in 1..Len(r) : r[i] = e
<1>1. /\ Len(q) \in Nat /\ Len(r) = Len(q) + 1 /\ r[Len(q) + 1] = e
      /\ \A i \in 1..Len(q) : r[i] = q[i]
      /\ q \in [1..Len(q) -> Entries]
  BY SeqAppend, SeqLen
<1>2. \A i \in 1..Len(q) : r[i] # e
  BY <1>1 DEF Elems
<1> HIDE DEF r
<1>3. p = Len(q) + 1
  BY <1>1, <1>2
<1> HIDE DEF p
<1>4. Unlink(r, e) = [j \in 1..(Len(r) - 1) |-> IF j < p THEN r[j] ELSE r[j + 1]]
  BY DEF Unlink, p
<1>5. Unlink(r, e) = [j \in 1..Len(q) |-> q[j]]
  BY <1>1, <1>3, <1>4
<1> QED BY <1>1, <1>5 DEF r

(* stx_cache_entry_release: the last release lists the entry, or frees one *)
(* that was deleted meanwhile.                                             *)
LEMMA ReleaseSound ==
  ASSUME NEW c, Sound(c), NEW e \in Entries, c.ref[e] > 0, NEW d, d = Release(c, e)
  PROVE  /\ Sound(d)
         /\ d.ref = [c.ref EXCEPT ![e] = @ - 1]
         /\ d.size <= c.size /\ d.weight <= c.weight
         /\ \/ d.lru = c.lru
            \/ d.lru = Append(c.lru, e) /\ e \notin Elems(c.lru)
         /\ \/ d.table = c.table
            \/ d.table = c.table \ {e} /\ e \in c.table
         /\ e \notin c.pending => d.table = c.table /\ d.pending = c.pending
<1>0. /\ c \in CacheType /\ e \in c.table /\ c.ref \in [Entries -> Nat]
      /\ c.ref[e] \in Nat /\ c.lru \in Seq(Entries) /\ NoRepeat(c.lru)
      /\ c.size \in Nat /\ c.weight \in Nat
      /\ c.table \subseteq Entries /\ c.pending \subseteq Entries
      /\ e \notin Elems(c.lru)
  BY DEF Sound, CacheType
<1> DEFINE left == [c.ref EXCEPT ![e] = @ - 1]
<1>1. /\ left \in [Entries -> Nat] /\ left[e] = c.ref[e] - 1
      /\ \A x \in Entries \ {e} : left[x] = c.ref[x]
  BY <1>0
<1> HIDE DEF left
<1>2. CASE c.ref[e] > 1
  <2>1. /\ d.table = c.table /\ d.pending = c.pending /\ d.lru = c.lru
        /\ d.size = c.size /\ d.weight = c.weight /\ d.ref = left
        /\ d = [table |-> d.table, lru |-> d.lru, ref |-> d.ref,
                pending |-> d.pending, size |-> d.size, weight |-> d.weight]
    <3>1. d = [c EXCEPT !.ref[e] = @ - 1]
      BY <1>0, <1>2 DEF Release
    <3> QED BY <1>0, <3>1, Zenon DEF CacheType, left
  <2>2. d \in CacheType
    BY <1>0, <1>1, <2>1 DEF CacheType
  <2>3. left[e] > 0 /\ left[e] # 0
    BY <1>0, <1>1, <1>2
  <2>4. Elems(d.lru) = {x \in d.table : d.ref[x] = 0}
    <3>1. Elems(c.lru) = {x \in c.table : c.ref[x] = 0}
      BY DEF Sound
    <3> QED BY <1>0, <1>1, <2>1, <2>3, <3>1
  <2>5. /\ \A x \in d.pending : x \in d.table /\ d.ref[x] > 0
        /\ \A x \in Entries : d.ref[x] > 0 => x \in d.table
    BY <1>0, <1>1, <2>1, <2>3, ZenonT(60) DEF Sound
  <2>6. Sound(d)
    BY <2>1, <2>2, <2>4, <2>5 DEF Sound
  <2> QED BY <1>0, <2>1, <2>6 DEF left
<1>3. CASE c.ref[e] = 1
  <2> DEFINE b == Dropped(c, e)
  <2>1. /\ b.table = c.table /\ b.pending = c.pending /\ b.lru = Append(c.lru, e)
        /\ b.size = c.size /\ b.weight = c.weight /\ b.ref = left
        /\ b = [table |-> b.table, lru |-> b.lru, ref |-> b.ref,
                pending |-> b.pending, size |-> b.size, weight |-> b.weight]
    <3>1. b = [c EXCEPT !.ref[e] = @ - 1, !.lru = Append(c.lru, e)]
      BY DEF Dropped
    <3> HIDE DEF b
    <3> QED BY <1>0, <3>1, Zenon DEF CacheType, left
  <2>2. d = IF e \in c.pending THEN Delete(b, e) ELSE b
    BY <1>3 DEF Release
  <2> HIDE DEF b
  <2>3. left[e] = 0
    BY <1>1, <1>3
  <2>4. /\ b.lru \in Seq(Entries) /\ NoRepeat(b.lru)
        /\ Elems(b.lru) = Elems(c.lru) \cup {e}
    BY <1>0, <2>1, AppendElems
  <2>5. Elems(c.lru) = {x \in c.table : c.ref[x] = 0}
    BY DEF Sound
  <2>6. CASE e \notin c.pending
    <3>1. d = b
      BY <2>2, <2>6
    <3>2. b \in CacheType
      BY <1>0, <1>1, <2>1, <2>4, Zenon DEF CacheType
    <3>3. Elems(b.lru) = {x \in b.table : b.ref[x] = 0}
      BY <1>0, <1>1, <2>1, <2>3, <2>4, <2>5
    <3>4. /\ \A x \in b.pending : x \in b.table /\ b.ref[x] > 0
          /\ \A x \in Entries : b.ref[x] > 0 => x \in b.table
      BY <1>0, <1>1, <2>1, <2>3, <2>6, ZenonT(60) DEF Sound
    <3>5. Sound(b)
      BY <2>1, <2>4, <3>2, <3>3, <3>4 DEF Sound
    <3> QED BY <1>0, <2>1, <2>6, <3>1, <3>5 DEF left
  <2>7. CASE e \in c.pending
    <3>1. d = [b EXCEPT !.table = b.table \ {e}, !.pending = b.pending \ {e},
                        !.lru = Unlink(b.lru, e), !.size = b.size - 1,
                        !.weight = b.weight - WeightOf[e]]
      BY <1>0, <2>1, <2>2, <2>3, <2>7 DEF Delete
    <3>2. /\ d.table = c.table \ {e} /\ d.pending = c.pending \ {e}
          /\ d.lru = Unlink(Append(c.lru, e), e) /\ d.ref = left
          /\ d.size = c.size - 1 /\ d.weight = c.weight - WeightOf[e]
          /\ d = [table |-> d.table, lru |-> d.lru, ref |-> d.ref,
                  pending |-> d.pending, size |-> d.size, weight |-> d.weight]
      BY <2>1, <3>1, ZenonT(60)
    <3>3. d.lru = c.lru
      BY <1>0, <3>2, UnlinkAppended
    <3>4. /\ IsFiniteSet(d.table) /\ d.size = Cardinality(d.table) /\ d.size \in Nat
      <4>1. /\ IsFiniteSet(c.table \ {e}) /\ c.size = Cardinality(c.table)
            /\ Cardinality(c.table \ {e}) = Cardinality(c.table) - 1
        BY <1>0, FS_RemoveElement, Zenon DEF Sound
      <4>2. Cardinality(c.table \ {e}) \in Nat
        BY <4>1, FS_CardinalityType
      <4> QED BY <3>2, <4>1, <4>2
    <3>5. /\ IsFiniteSet(Units(d.table)) /\ d.weight = Cardinality(Units(d.table))
          /\ d.weight \in Nat
      <4>1. /\ IsFiniteSet(Units(c.table \ {e}))
            /\ Cardinality(Units(c.table \ {e}))
                 = Cardinality(Units(c.table)) - WeightOf[e]
            /\ Cardinality(Units(c.table \ {e})) \in Nat
        BY <1>0, UnitsTaken DEF Sound
      <4>2. c.weight = Cardinality(Units(c.table))
        BY DEF Sound
      <4> QED BY <3>2, <4>1, <4>2
    <3>6. d.weight <= c.weight /\ d.size <= c.size
      BY <1>0, <3>2, LruAssumption, SMTT(60)
    <3>7. d \in CacheType
      BY <1>0, <1>1, <3>2, <3>3, <3>4, <3>5, SMTT(60) DEF CacheType
    <3>8. Elems(d.lru) = {x \in d.table : d.ref[x] = 0}
      BY <1>0, <1>1, <1>3, <2>5, <3>2, <3>3
    <3>9. /\ \A x \in d.pending : x \in d.table /\ d.ref[x] > 0
          /\ \A x \in Entries : d.ref[x] > 0 => x \in d.table
      BY <1>0, <1>1, <2>3, <3>2 DEF Sound
    <3>10. \A x, y \in d.table \ d.pending : KeyOf[x] = KeyOf[y] => x = y
      BY <3>2 DEF Sound
    <3>11. Sound(d)
      BY <1>0, <3>3, <3>4, <3>5, <3>7, <3>8, <3>9, <3>10 DEF Sound
    <3> QED BY <1>0, <2>7, <3>2, <3>3, <3>6, <3>11 DEF left
  <2> QED BY <2>6, <2>7
<1> QED BY <1>0, <1>2, <1>3

-----------------------------------------------------------------------------
(* Entries leave the list from its head, except one that goes for its key. *)
OldestFirst(c, d, key) ==
  \A i, j \in 1..Len(c.lru) :
    i < j /\ c.lru[i] \in d.table /\ d.ref[c.lru[i]] = 0
      => c.lru[j] \in d.table \/ KeyOf[c.lru[j]] \in key

(* Everything on the list is in the table, and nobody uses it. *)
LEMMA Listed ==
  ASSUME NEW c, Sound(c)
  PROVE  /\ c.lru \in Seq(Entries) /\ Len(c.lru) \in Nat
         /\ \A i \in 1..Len(c.lru) : /\ c.lru[i] \in c.table
                                     /\ c.lru[i] \in Entries
                                     /\ c.ref[c.lru[i]] = 0
         /\ \A e \in c.table : c.ref[e] = 0 => \E i \in 1..Len(c.lru) : c.lru[i] = e
         /\ \A i, j \in 1..Len(c.lru) : c.lru[i] = c.lru[j] => i = j
<1>1. c.lru \in Seq(Entries) /\ Len(c.lru) \in Nat
  BY SeqLen DEF Sound, CacheType
<1>2. /\ {c.lru[i] : i \in 1..Len(c.lru)} = {e \in c.table : c.ref[e] = 0}
      /\ c.table \subseteq Entries
  BY Zenon DEF Sound, Elems, CacheType
<1>3. \A i, j \in 1..Len(c.lru) : c.lru[i] = c.lru[j] => i = j
  BY DEF Sound, NoRepeat
<1> QED BY <1>1, <1>2, <1>3

(* Evictions take the entries at the head of the list. *)
LEMMA EvictSound ==
  ASSUME NEW c, Sound(c), NEW n \in 0..Len(c.lru), NEW d, d = Evict(c, n)
  PROVE  /\ Sound(d) /\ d.ref = c.ref /\ Within(d.lru, c.lru)
         /\ d.table \subseteq c.table
         /\ d.size <= c.size /\ d.weight <= c.weight
         /\ OldestFirst(c, d, {})
<1> DEFINE q == c.lru
<1>1. /\ q \in Seq(Entries) /\ Len(q) \in Nat
      /\ \A i \in 1..Len(q) : q[i] \in c.table /\ c.ref[q[i]] = 0
      /\ \A i, j \in 1..Len(q) : q[i] = q[j] => i = j
  BY Listed
<1>2. /\ Sound(d) /\ d.ref = c.ref /\ Within(d.lru, c.lru)
      /\ d.table \subseteq c.table
      /\ d.size <= c.size /\ d.weight <= c.weight
      /\ \A e \in c.table \ d.table : c.ref[e] = 0 /\ \E i \in 1..n : e = q[i]
      /\ \A i \in 1..n : c.ref[q[i]] = 0 => q[i] \notin d.table
  BY <1>1, DeletionsSound, SMTT(60) DEF Evict
<1> HIDE DEF q
<1>3. ASSUME NEW i \in 1..Len(q), NEW j \in 1..Len(q), i < j, q[i] \in d.table
      PROVE  q[j] \in d.table
  <2> SUFFICES ASSUME q[j] \notin d.table PROVE FALSE
    OBVIOUS
  <2>1. PICK m \in 1..n : q[j] = q[m]
    BY <1>1, <1>2, SMTT(60)
  <2>2. j = m /\ i \in 1..n
    BY <1>1, <1>3, <2>1, SMTT(60) DEF q
  <2> QED BY <1>1, <1>2, <1>3, <2>2
<1> QED BY <1>2, <1>3 DEF OldestFirst, q

(* The loop of stx_cache_entry_insert makes room for a weight, or fails.   *)
LEMMA LighterSound ==
  ASSUME NEW c, Sound(c), NEW w \in Nat, NEW d, d = Lighter(c, w)
  PROVE  /\ Sound(d) /\ d.ref = c.ref /\ Within(d.lru, c.lru)
         /\ d.table \subseteq c.table
         /\ d.size <= c.size /\ d.weight <= c.weight
         /\ OldestFirst(c, d, {})
         /\ Fits(c, w) # {} => d.weight + w <= MaxWeight
<1>1. Len(c.lru) \in Nat
  BY Listed
<1>2. CASE Fits(c, w) = {}
  <2>1. d = Evict(c, Len(c.lru)) /\ Len(c.lru) \in 0..Len(c.lru)
    BY <1>1, <1>2 DEF Lighter
  <2> QED BY <1>2, <2>1, EvictSound
<1>3. CASE Fits(c, w) # {}
  <2> DEFINE n == CHOOSE n \in Fits(c, w) : \A m \in Fits(c, w) : n <= m
  <2>1. Fits(c, w) \in SUBSET Nat
    BY <1>1 DEF Fits
  <2>2. \E m \in Fits(c, w) : \A k \in Fits(c, w) : m <= k
    BY <1>3, <2>1, SmallestNat
  <2>3. n \in Fits(c, w)
    BY <2>2, Zenon
  <2>4. d = Evict(c, n)
    BY <1>3, Zenon DEF Lighter
  <2> HIDE DEF n
  <2>5. n \in 0..Len(c.lru) /\ d.weight + w <= MaxWeight
    BY <2>3, <2>4 DEF Fits
  <2> QED BY <1>3, <2>4, <2>5, EvictSound
<1> QED BY <1>2, <1>3

(* And for one more entry. *)
LEMMA SmallerSound ==
  ASSUME NEW c, Sound(c), c.size <= MaxSize, Full(c) => c.lru # <<>>,
         NEW d, d = Smaller(c)
  PROVE  /\ Sound(d) /\ d.ref = c.ref /\ Within(d.lru, c.lru)
         /\ d.table \subseteq c.table
         /\ d.size + 1 <= MaxSize /\ d.weight <= c.weight
         /\ OldestFirst(c, d, {})
<1>0. /\ c.size \in Nat /\ c.weight \in Nat /\ MaxSize \in Nat
      /\ c.lru \in Seq(Entries)
  BY LruAssumption DEF Sound, CacheType
<1>1. CASE Full(c)
  <2>1. d = Evict(c, 1) /\ c.lru # <<>>
    BY <1>1 DEF Smaller
  <2>2. 1 \in 1..Len(c.lru) /\ 1 \in 0..Len(c.lru) /\ 1 - 1 = 0
    BY <1>0, <2>1, SeqEmpty, SeqLen
  <2>3. /\ Sound(d) /\ d.ref = c.ref /\ Within(d.lru, c.lru)
        /\ d.table \subseteq c.table /\ d.weight <= c.weight
        /\ OldestFirst(c, d, {})
    BY <2>1, <2>2, EvictSound
  <2>4. d = Delete(c, c.lru[1])
    BY <1>0, <2>1, <2>2, DeletionsStep DEF Evict
  <2>5. c.lru[1] \in c.table /\ c.lru[1] \in Entries /\ c.ref[c.lru[1]] = 0
    BY <2>2, Listed
  <2>6. d.size = c.size - 1
    BY <2>4, <2>5, DeleteSound
  <2> QED BY <1>0, <2>3, <2>6
<1>2. CASE ~Full(c)
  <2>1. d = c
    BY <1>2 DEF Smaller
  <2>2. c.size + 1 <= MaxSize
    BY <1>0, <1>2 DEF Full
  <2>3. \A i \in 1..Len(c.lru) : c.lru[i] \in c.table
    BY Listed
  <2> QED BY <1>0, <2>1, <2>2, <2>3, WithinItself DEF OldestFirst
<1> QED BY <1>1, <1>2

(* An older entry with the key is gone, or will be when nobody uses it. *)
LEMMA ReplacedSound ==
  ASSUME NEW c, Sound(c), NEW k, NEW d, d = Replaced(c, k)
  PROVE  /\ Sound(d) /\ d.ref = c.ref /\ Within(d.lru, c.lru)
         /\ d.table \subseteq c.table
         /\ d.size <= c.size /\ d.weight <= c.weight
         /\ \A e \in d.table \ d.pending : KeyOf[e] # k
         /\ \A e \in c.table \ d.table : KeyOf[e] = k
<1>0. /\ c.size \in Nat /\ c.weight \in Nat /\ c.table \subseteq Entries
  BY DEF Sound, CacheType
<1>1. CASE Found(c, k) = {}
  <2>1. d = c
    BY <1>1 DEF Replaced
  <2> QED BY <1>0, <1>1, <2>1, WithinItself DEF Found
<1>2. CASE Found(c, k) # {}
  <2> DEFINE x == CHOOSE x \in Found(c, k) : TRUE
  <2>1. x \in Found(c, k)
    BY <1>2
  <2>2. d = Delete(c, x)
    BY <1>2 DEF Replaced
  <2> HIDE DEF x
  <2>3. x \in c.table \ c.pending /\ x \in Entries /\ KeyOf[x] = k
    BY <1>0, <2>1 DEF Found
  <2>4. /\ Sound(d) /\ d.ref = c.ref /\ Within(d.lru, c.lru)
        /\ c.table \ {x} \subseteq d.table /\ d.table \subseteq c.table
        /\ d.size <= c.size /\ d.weight <= c.weight
        /\ x \in d.table => x \in d.pending
    BY <2>2, <2>3, DeleteSound
  <2>5. c.pending \subseteq d.pending \cup {x}
    <3>1. c \in CacheType
      BY DEF Sound
    <3> QED BY <2>2, <2>3, <3>1 DEF Delete, CacheType
  <2>6. ASSUME NEW e \in d.table \ d.pending
        PROVE  KeyOf[e] # k
    <3>1. e # x /\ e \in c.table \ c.pending
      BY <2>4, <2>5
    <3> QED BY <2>3, <3>1 DEF Sound
  <2> QED BY <2>3, <2>4, <2>6
<1> QED BY <1>1, <1>2

(* Two such steps are one. *)
LEMMA OldestBoth ==
  ASSUME NEW c, Sound(c), NEW d, Sound(d), d.ref = c.ref, d.table \subseteq c.table,
         Within(d.lru, c.lru), NEW b, b.table \cap c.table \subseteq d.table,
         NEW K, OldestFirst(c, d, {}), OldestFirst(d, b, K)
  PROVE  OldestFirst(c, b, K)
<1> SUFFICES ASSUME NEW i \in 1..Len(c.lru), NEW j \in 1..Len(c.lru), i < j,
                    c.lru[i] \in b.table, b.ref[c.lru[i]] = 0
             PROVE  c.lru[j] \in b.table \/ KeyOf[c.lru[j]] \in K
  BY Zenon DEF OldestFirst
<1>1. /\ c.lru[i] \in c.table /\ c.ref[c.lru[i]] = 0 /\ c.ref[c.lru[j]] = 0
      /\ \A m, n \in 1..Len(c.lru) : c.lru[m] = c.lru[n] => m = n
      /\ Len(c.lru) \in Nat
  BY Listed
<1>2. c.lru[i] \in d.table /\ d.ref[c.lru[i]] = 0 /\ d.ref[c.lru[j]] = 0
  BY <1>1
<1>3. c.lru[j] \in d.table
  BY <1>2, Zenon DEF OldestFirst
<1>4. PICK m \in 1..Len(d.lru) : d.lru[m] = c.lru[i]
  BY <1>2, Listed, SMTT(60)
<1>5. PICK n \in 1..Len(d.lru) : d.lru[n] = c.lru[j]
  BY <1>2, <1>3, Listed, SMTT(60)
<1>6. Len(d.lru) \in Nat
  BY Listed
<1>7. m # n
  BY <1>1, <1>4, <1>5
<1>8. ~(n < m)
  <2> SUFFICES ASSUME n < m PROVE FALSE
    OBVIOUS
  <2>1. PICK x, y \in 1..Len(c.lru) : x < y /\ c.lru[x] = d.lru[n] /\ c.lru[y] = d.lru[m]
    BY SMTT(60) DEF Within
  <2>2. x = j /\ y = i
    BY <1>1, <1>4, <1>5, <2>1
  <2> QED BY <1>1, <2>1, <2>2
<1>9. m < n
  BY <1>6, <1>7, <1>8
<1> QED BY <1>2, <1>4, <1>5, <1>9, Zenon DEF OldestFirst

(* stx_cache_entry_insert, when it succeeds. *)
LEMMA InsertSound ==
  ASSUME NEW c, Sound(c), c.size <= MaxSize, NEW e \in Entries \ c.table,
         Inserts(c, e), NEW d, d = Insert(c, e)
  PROVE  /\ Sound(d) /\ Within(d.lru, c.lru)
         /\ d.ref = [c.ref EXCEPT ![e] = @ + 1]
         /\ d.size <= MaxSize /\ d.weight <= MaxWeight
         /\ OldestFirst(c, d, {KeyOf[e]})
         /\ e \in d.table
<1> DEFINE w == WeightOf[e]
           l == Lighter(c, w)
           s == Smaller(l)
           r == Replaced(s, KeyOf[e])
<1>0. w \in Nat /\ MaxSize \in Nat /\ MaxWeight \in Nat
  BY LruAssumption
<1>1. d = Link(r, e) /\ Fits(c, w) # {} /\ (Full(l) => l.lru # <<>>)
  BY DEF Insert, Inserts, Room
<1> HIDE DEF w
<1>2. /\ Sound(l) /\ l.ref = c.ref /\ Within(l.lru, c.lru)
      /\ l.table \subseteq c.table
      /\ l.size <= c.size /\ l.weight + w <= MaxWeight
      /\ OldestFirst(c, l, {})
  BY <1>0, <1>1, LighterSound, Zenon
<1> HIDE DEF l
<1>3. l.size <= MaxSize /\ l.weight \in Nat
  BY <1>0, <1>2, SMTT(60) DEF Sound, CacheType
<1>4. /\ Sound(s) /\ s.ref = l.ref /\ Within(s.lru, l.lru)
      /\ s.table \subseteq l.table
      /\ s.size + 1 <= MaxSize /\ s.weight <= l.weight
      /\ OldestFirst(l, s, {})
  BY <1>1, <1>2, <1>3, SmallerSound
<1> HIDE DEF s
<1>5. /\ Sound(r) /\ r.ref = s.ref /\ Within(r.lru, s.lru)
      /\ r.table \subseteq s.table
      /\ r.size <= s.size /\ r.weight <= s.weight
      /\ \A x \in r.table \ r.pending : KeyOf[x] # KeyOf[e]
      /\ \A x \in s.table \ r.table : KeyOf[x] = KeyOf[e]
  BY <1>4, ReplacedSound
<1> HIDE DEF r
<1>6. /\ r \in CacheType /\ r.size \in Nat /\ r.weight \in Nat
      /\ s.size \in Nat /\ s.weight \in Nat
      /\ r.ref = c.ref /\ r.ref \in [Entries -> Nat] /\ r.table \subseteq Entries
      /\ r.pending \subseteq r.table /\ e \notin r.table
      /\ r.lru \in Seq(Entries)
  BY <1>2, <1>4, <1>5, Zenon DEF Sound, CacheType
<1>7. r.ref[e] = 0
  BY <1>5, <1>6 DEF Sound
<1>8. /\ d.table = r.table \cup {e} /\ d.pending = r.pending /\ d.lru = r.lru
      /\ d.ref = [r.ref EXCEPT ![e] = @ + 1]
      /\ d.size = r.size + 1 /\ d.weight = r.weight + w
      /\ d = [table |-> d.table, lru |-> d.lru, ref |-> d.ref,
              pending |-> d.pending, size |-> d.size, weight |-> d.weight]
  <2>1. d = [r EXCEPT !.table = @ \cup {e}, !.ref[e] = @ + 1,
                      !.size = @ + 1, !.weight = @ + w]
    BY <1>1 DEF Link, w
  <2> QED BY <1>6, <2>1, Zenon DEF CacheType
<1>9. /\ d.ref \in [Entries -> Nat] /\ d.ref[e] = 1
      /\ \A x \in Entries \ {e} : d.ref[x] = r.ref[x]
  BY <1>6, <1>7, <1>8
<1>10. d.size <= MaxSize /\ d.weight <= MaxWeight /\ d.size \in Nat /\ d.weight \in Nat
  <2>1. d.size = r.size + 1 /\ r.size <= s.size /\ s.size + 1 <= MaxSize
    BY <1>4, <1>5, <1>8
  <2>2. /\ d.weight = r.weight + w /\ r.weight <= s.weight /\ s.weight <= l.weight
        /\ l.weight + w <= MaxWeight
    BY <1>2, <1>4, <1>5, <1>8
  <2>3. d.size <= MaxSize /\ d.size \in Nat
    BY <1>0, <1>6, <2>1, SMTT(60)
  <2>4. d.weight <= MaxWeight /\ d.weight \in Nat
    <3>1. \A x, y, z, v, m \in Nat :
            x <= y /\ y <= z /\ z + v <= m => x + v <= m /\ x + v \in Nat
      OBVIOUS
    <3>2. r.weight \in Nat /\ s.weight \in Nat /\ l.weight \in Nat
      BY <1>3, <1>6
    <3>3. r.weight + w <= MaxWeight /\ r.weight + w \in Nat
      BY <1>0, <2>2, <3>1, <3>2, ZenonT(60)
    <3> QED BY <2>2, <3>3, Zenon
  <2> QED BY <2>3, <2>4
<1>11. d \in CacheType
  BY <1>6, <1>8, <1>9, <1>10, Zenon DEF CacheType
<1>12. IsFiniteSet(d.table) /\ d.size = Cardinality(d.table)
  <2>1. IsFiniteSet(r.table) /\ r.size = Cardinality(r.table)
    BY <1>5 DEF Sound
  <2>2. /\ IsFiniteSet(r.table \cup {e})
        /\ Cardinality(r.table \cup {e}) = Cardinality(r.table) + 1
    BY <1>6, <2>1, FS_AddElement, SMTT(60)
  <2> QED BY <1>8, <2>1, <2>2
<1>13. IsFiniteSet(Units(d.table)) /\ d.weight = Cardinality(Units(d.table))
  <2>1. IsFiniteSet(Units(r.table)) /\ r.weight = Cardinality(Units(r.table))
    BY <1>5 DEF Sound
  <2>2. /\ IsFiniteSet(Units(r.table \cup {e}))
        /\ Cardinality(Units(r.table \cup {e})) = Cardinality(Units(r.table)) + w
    BY <1>6, <2>1, UnitsAdded DEF w
  <2> QED BY <1>8, <2>1, <2>2
<1>14. NoRepeat(d.lru) /\ Elems(d.lru) = {x \in d.table : d.ref[x] = 0}
  <2>1. NoRepeat(r.lru) /\ Elems(r.lru) = {x \in r.table : r.ref[x] = 0}
    BY <1>5 DEF Sound
  <2> QED BY <1>6, <1>8, <1>9, <2>1
<1>15. /\ \A x \in d.pending : x \in d.table /\ d.ref[x] > 0
       /\ \A x \in Entries : d.ref[x] > 0 => x \in d.table
  BY <1>5, <1>6, <1>8, <1>9, SMTT(60) DEF Sound
<1>16. \A x, y \in d.table \ d.pending : KeyOf[x] = KeyOf[y] => x = y
  <2>1. \A x, y \in r.table \ r.pending : KeyOf[x] = KeyOf[y] => x = y
    BY <1>5 DEF Sound
  <2> QED BY <1>5, <1>8, <2>1
<1>17. Sound(d)
  BY <1>11, <1>12, <1>13, <1>14, <1>15, <1>16 DEF Sound
<1>18. Within(s.lru, c.lru) /\ Within(d.lru, c.lru)
  BY <1>2, <1>4, <1>5, <1>8, WithinBoth
<1>19. OldestFirst(c, d, {KeyOf[e]})
  <2>1. OldestFirst(c, s, {})
    BY <1>2, <1>4, OldestBoth
  <2>2. OldestFirst(s, d, {KeyOf[e]})
    <3>1. \A i \in 1..Len(s.lru) : s.lru[i] \in s.table
      BY <1>4, Listed
    <3>2. \A x \in s.table : x \in d.table \/ KeyOf[x] = KeyOf[e]
      BY <1>5, <1>8
    <3> QED BY <3>1, <3>2 DEF OldestFirst
  <2>3. d.table \cap c.table \subseteq s.table
    BY <1>5, <1>8
  <2>4. s.ref = c.ref /\ s.table \subseteq c.table
    BY <1>2, <1>4
  <2> QED BY <1>4, <1>18, <2>1, <2>2, <2>3, <2>4, OldestBoth
<1> QED BY <1>6, <1>8, <1>10, <1>17, <1>18, <1>19

(* stx_cache_empty deletes every entry, in some order. *)
LEMMA EmptySound ==
  ASSUME NEW c, Sound(c), NEW d, d = Empty(c)
  PROVE  /\ Sound(d) /\ d.ref = c.ref /\ Within(d.lru, c.lru)
         /\ d.size <= c.size /\ d.weight <= c.weight
         /\ \A e \in d.table : d.ref[e] > 0
<1> DEFINE n == Cardinality(c.table)
           A == Arrangements(c.table, [e \in c.table |-> 0])
           q == CHOOSE w \in A : TRUE
<1>1. /\ IsFiniteSet(c.table) /\ c.table \subseteq Entries
      /\ c.ref \in [Entries -> Nat]
  BY DEF Sound, CacheType
<1>2. n \in Nat /\ ExistsBijection(1..n, c.table)
  BY <1>1, FS_CardinalityType
<1>3. PICK f \in Bijection(1..n, c.table) : TRUE
  BY <1>2 DEF ExistsBijection
<1>4. f \in A
  <2>1. /\ f \in [1..n -> c.table]
        /\ \A i, j \in 1..n : f[i] = f[j] => i = j
        /\ \A e \in c.table : \E i \in 1..n : f[i] = e
    BY <1>3 DEF Bijection, Injection, Surjection, IsInjective
  <2>2. c.table = {f[i] : i \in 1..n}
    BY <2>1
  <2>3. \A i, j \in 1..n : i < j =>
          f[i] # f[j] /\ [e \in c.table |-> 0][f[i]] <= [e \in c.table |-> 0][f[j]]
    BY <1>2, <2>1
  <2> QED BY <2>1, <2>2, <2>3 DEF Arrangements
<1>5. q \in A
  BY <1>4
<1>6. /\ q \in [1..n -> c.table]
      /\ c.table = {q[i] : i \in 1..n}
  BY <1>5, Zenon DEF Arrangements
<1>7. d = Deletions(c, q)[Len(q)]
  BY DEF Empty
<1> HIDE DEF q
<1>8. q \in Seq(Entries) /\ Len(q) = n /\ n \in 0..Len(q)
  <2>1. q \in [1..n -> Entries]
    BY <1>1, <1>6
  <2> HIDE DEF n
  <2> QED BY <1>2, <2>1, SeqMade
<1> HIDE DEF n
<1>9. d = Deletions(c, q)[n]
  BY <1>7, <1>8
<1>10. /\ Sound(d) /\ d.ref = c.ref /\ Within(d.lru, c.lru)
      /\ d.table \subseteq c.table
      /\ d.size <= c.size /\ d.weight <= c.weight
      /\ \A i \in 1..n : c.ref[q[i]] = 0 => q[i] \notin d.table
  BY <1>8, <1>9, DeletionsSound, SMTT(60)
<1>11. \A e \in d.table : d.ref[e] > 0
  <2>1. \A e \in d.table : e \in Entries /\ c.ref[e] \in Nat /\ c.ref[e] # 0
    BY <1>1, <1>6, <1>10
  <2> QED BY <1>10, <2>1
<1> QED BY <1>10, <1>11

-----------------------------------------------------------------------------
(* One thread more, or one less, holds an entry. *)
LEMMA HolderAdded ==
  ASSUME CacheInv, NEW u \in Users, held[u] = None, NEW e \in Entries,
         held' = [held EXCEPT ![u] = e],
         cache'.ref = [cache.ref EXCEPT ![e] = @ + 1]
  PROVE  /\ held' \in [Users -> Entries \cup {None}]
         /\ \A x \in Entries :
              cache'.ref[x] = Cardinality({v \in Users : held'[v] = x})
<1> USE UsersAssumption
<1>1. /\ held \in [Users -> Entries \cup {None}] /\ cache.ref \in [Entries -> Nat]
      /\ \A x \in Entries : cache.ref[x] = Cardinality({v \in Users : held[v] = x})
  BY DEF CacheInv, Sound, CacheType
<1>2. held' \in [Users -> Entries \cup {None}]
  BY <1>1
<1>3. ASSUME NEW x \in Entries
      PROVE  cache'.ref[x] = Cardinality({v \in Users : held'[v] = x})
  <2> DEFINE old == {v \in Users : held[v] = x}
             new == {v \in Users : held'[v] = x}
  <2>1. CASE x = e
    <3>1. new = old \cup {u} /\ u \notin old
      BY <1>1, <2>1
    <3>2. IsFiniteSet(old)
      BY FS_Subset
    <3>3. Cardinality(new) = Cardinality(old) + 1
      BY <3>1, <3>2, FS_AddElement, Zenon
    <3>4. cache'.ref[x] = cache.ref[x] + 1
      BY <1>1, <2>1
    <3> QED BY <1>1, <3>3, <3>4
  <2>2. CASE x # e
    <3>1. new = old
      BY <1>1, <2>2
    <3>2. cache'.ref[x] = cache.ref[x]
      BY <1>1, <2>2
    <3> QED BY <1>1, <3>1, <3>2
  <2> QED BY <2>1, <2>2
<1> QED BY <1>2, <1>3

LEMMA HolderGone ==
  ASSUME CacheInv, NEW u \in Users, held[u] # None,
         held' = [held EXCEPT ![u] = None],
         cache'.ref = [cache.ref EXCEPT ![held[u]] = @ - 1]
  PROVE  /\ held' \in [Users -> Entries \cup {None}]
         /\ \A x \in Entries :
              cache'.ref[x] = Cardinality({v \in Users : held'[v] = x})
<1> USE UsersAssumption
<1>1. /\ held \in [Users -> Entries \cup {None}] /\ cache.ref \in [Entries -> Nat]
      /\ \A x \in Entries : cache.ref[x] = Cardinality({v \in Users : held[v] = x})
  BY DEF CacheInv, Sound, CacheType
<1>2. held' \in [Users -> Entries \cup {None}]
  BY <1>1
<1>3. ASSUME NEW x \in Entries
      PROVE  cache'.ref[x] = Cardinality({v \in Users : held'[v] = x})
  <2> DEFINE old == {v \in Users : held[v] = x}
             new == {v \in Users : held'[v] = x}
  <2>1. CASE x = held[u]
    <3>1. new = old \ {u} /\ u \in old
      BY <1>1, <2>1
    <3>2. IsFiniteSet(old)
      BY FS_Subset
    <3>3. Cardinality(new) = Cardinality(old) - 1
      BY <3>1, <3>2, FS_RemoveElement, ZenonT(60)
    <3>4. cache'.ref[x] = cache.ref[x] - 1
      BY <1>1, <2>1
    <3> QED BY <1>1, <3>3, <3>4
  <2>2. CASE x # held[u]
    <3>1. new = old
      BY <1>1, <2>2
    <3>2. cache'.ref[x] = cache.ref[x]
      BY <1>1, <2>2
    <3> QED BY <1>1, <3>1, <3>2
  <2> QED BY <2>1, <2>2
<1> QED BY <1>2, <1>3

(* An entry that a thread holds has a reference, and is in the table. *)
LEMMA HeldCounts ==
  ASSUME CacheInv, NEW u \in Users, held[u] # None
  PROVE  held[u] \in Entries /\ cache.ref[held[u]] > 0 /\ held[u] \in cache.table
<1> USE UsersAssumption
<1> DEFINE H == {v \in Users : held[v] = held[u]}
<1>1. held[u] \in Entries /\ cache.ref[held[u]] = Cardinality(H)
  BY DEF CacheInv
<1>2. IsFiniteSet(H) /\ u \in H
  BY FS_Subset
<1>3. Cardinality(H) \in Nat /\ Cardinality(H) # 0
  BY <1>2, FS_CardinalityType, FS_EmptySet
<1>4. cache.ref[held[u]] > 0
  BY <1>1, <1>3
<1> QED BY <1>1, <1>4 DEF CacheInv, Sound

(* What a step does to the list, as EvictsOldest states it. *)
ListMoves ==
  /\ \A i, j \in 1..Len(cache.lru) :
       i < j /\ cache.lru[i] \in cache'.table /\ cache'.ref[cache.lru[i]] = 0
         => \/ cache.lru[j] \in cache'.table
            \/ \E e \in cache'.table \ cache.table :
                 KeyOf[e] = KeyOf[cache.lru[j]]
            \/ cache'.table = cache.table \ {cache.lru[j]}
  /\ \A i, j \in 1..Len(cache'.lru) :
       i < j => \/ cache'.lru[j] \notin Elems(cache.lru)
                \/ /\ cache'.lru[i] \in Elems(cache.lru)
                   /\ cache'.lru[j] \in Elems(cache.lru)
                   /\ Position(cache.lru)[cache'.lru[i]]
                        < Position(cache.lru)[cache'.lru[j]]

(* A list that only lost elements, or got one at its end, is in order. *)
LEMMA InOrder ==
  ASSUME Sound(cache),
         \/ Within(cache'.lru, cache.lru)
         \/ \E e \in Entries : /\ cache'.lru = Append(cache.lru, e)
                               /\ e \notin Elems(cache.lru),
         NEW i \in 1..Len(cache'.lru), NEW j \in 1..Len(cache'.lru), i < j
  PROVE  \/ cache'.lru[j] \notin Elems(cache.lru)
         \/ /\ cache'.lru[i] \in Elems(cache.lru)
            /\ cache'.lru[j] \in Elems(cache.lru)
            /\ Position(cache.lru)[cache'.lru[i]]
                 < Position(cache.lru)[cache'.lru[j]]
<1> DEFINE q == cache.lru
           r == cache'.lru
<1>1. q \in Seq(Entries) /\ Len(q) \in Nat /\ \A a, b \in 1..Len(q) : q[a] = q[b] => a = b
  BY Listed
<1>2. \A a \in 1..Len(q) : q[a] \in Elems(q) /\ Position(q)[q[a]] = a
  BY <1>1 DEF Elems, Position
<1> HIDE DEF q, r
<1>3. ASSUME NEW a \in 1..Len(q), NEW b \in 1..Len(q), a < b, q[a] = r[i], q[b] = r[j]
      PROVE  /\ r[i] \in Elems(q) /\ r[j] \in Elems(q)
             /\ Position(q)[r[i]] < Position(q)[r[j]]
  BY <1>2, <1>3
<1>4. CASE Within(r, q)
  <2>1. PICK a, b \in 1..Len(q) : a < b /\ q[a] = r[i] /\ q[b] = r[j]
    BY <1>4, Zenon DEF Within, r
  <2> QED BY <1>3, <2>1 DEF q, r
<1>5. ASSUME NEW e \in Entries, r = Append(q, e), e \notin Elems(q)
      PROVE  \/ r[j] \notin Elems(q)
             \/ /\ r[i] \in Elems(q) /\ r[j] \in Elems(q)
                /\ Position(q)[r[i]] < Position(q)[r[j]]
  <2>1. /\ Len(r) = Len(q) + 1 /\ r[Len(q) + 1] = e
        /\ \A a \in 1..Len(q) : r[a] = q[a]
    BY <1>1, <1>5, SeqAppend
  <2>2. i \in 1..Len(r) /\ j \in 1..Len(r)
    BY DEF r
  <2>3. CASE j = Len(q) + 1
    BY <1>5, <2>1, <2>3
  <2>4. CASE j # Len(q) + 1
    <3>1. i \in 1..Len(q) /\ j \in 1..Len(q)
      BY <1>1, <2>1, <2>2, <2>4
    <3> QED BY <1>3, <2>1, <3>1
  <2> QED BY <2>3, <2>4
<1> QED BY <1>4, <1>5, Zenon DEF q, r

(* A step that changes no reference keeps what is true of the holders. *)
LEMMA HoldersKept ==
  ASSUME CacheInv, Sound(cache'), UNCHANGED held, cache'.ref = cache.ref,
         cache'.size <= cache.size, cache'.weight <= cache.weight
  PROVE  CacheInv'
<1>1. /\ cache'.size \in Nat /\ cache'.weight \in Nat
      /\ cache.size \in Nat /\ cache.weight \in Nat
  BY DEF CacheInv, Sound, CacheType
<1>2. cache'.size <= MaxSize /\ cache'.weight <= MaxWeight
  BY <1>1, LruAssumption DEF CacheInv
<1> QED BY <1>2 DEF CacheInv

LEMMA LookupStep ==
  ASSUME CacheInv, NEW u \in Users, stx_cache_entry_lookup(u)
  PROVE  CacheInv' /\ ListMoves
<1>1. PICK k \in Keys : \E e \in Found(cache, k) :
        /\ cache' = Lookup(cache, e)
        /\ held' = [held EXCEPT ![u] = e]
  BY Zenon DEF stx_cache_entry_lookup
<1>2. PICK e \in Found(cache, k) : /\ cache' = Lookup(cache, e)
                                   /\ held' = [held EXCEPT ![u] = e]
  BY <1>1, Zenon
<1>3. e \in cache.table /\ e \in Entries /\ Sound(cache) /\ held[u] = None
  BY DEF Found, CacheInv, Sound, CacheType, stx_cache_entry_lookup
<1>4. /\ Sound(cache') /\ Within(cache'.lru, cache.lru)
      /\ cache'.ref = [cache.ref EXCEPT ![e] = @ + 1]
      /\ cache'.table = cache.table
      /\ cache'.size = cache.size /\ cache'.weight = cache.weight
  BY <1>2, <1>3, LookupSound
<1>5. CacheInv'
  <2>1. /\ (held \in [Users -> Entries \cup {None}])'
        /\ \A x \in Entries :
             cache'.ref[x] = Cardinality({v \in Users : held'[v] = x})
    BY <1>2, <1>3, <1>4, HolderAdded, Zenon
  <2> QED BY <1>4, <2>1 DEF CacheInv
<1>6. \A i \in 1..Len(cache.lru) : cache.lru[i] \in cache'.table
  BY <1>3, <1>4, Listed
<1> QED BY <1>3, <1>4, <1>5, <1>6, InOrder DEF ListMoves

LEMMA ReleaseStep ==
  ASSUME CacheInv, NEW u \in Users, stx_cache_entry_release(u)
  PROVE  CacheInv' /\ ListMoves
<1> DEFINE e == held[u]
<1>1. /\ e # None /\ cache' = Release(cache, e)
      /\ held' = [held EXCEPT ![u] = None]
  BY DEF stx_cache_entry_release
<1>2. e \in Entries /\ cache.ref[e] > 0 /\ e \in cache.table /\ Sound(cache)
  BY <1>1, HeldCounts DEF CacheInv
<1>3. /\ Sound(cache')
      /\ cache'.ref = [cache.ref EXCEPT ![e] = @ - 1]
      /\ cache'.size <= cache.size /\ cache'.weight <= cache.weight
      /\ \/ cache'.lru = cache.lru
         \/ cache'.lru = Append(cache.lru, e) /\ e \notin Elems(cache.lru)
      /\ \/ cache'.table = cache.table
         \/ cache'.table = cache.table \ {e}
  BY <1>1, <1>2, ReleaseSound
<1>4. CacheInv'
  <2>1. /\ (held \in [Users -> Entries \cup {None}])'
        /\ \A x \in Entries :
             cache'.ref[x] = Cardinality({v \in Users : held'[v] = x})
    BY <1>1, <1>3, HolderGone, Zenon
  <2>2. /\ cache'.size \in Nat /\ cache'.weight \in Nat
        /\ cache.size \in Nat /\ cache.weight \in Nat
    BY <1>2, <1>3 DEF Sound, CacheType
  <2>3. cache'.size <= MaxSize /\ cache'.weight <= MaxWeight
    BY <1>3, <2>2, LruAssumption DEF CacheInv
  <2> QED BY <1>3, <2>1, <2>3 DEF CacheInv
<1>5. \A i \in 1..Len(cache.lru) : cache.lru[i] \in cache'.table
  <2>1. \A i \in 1..Len(cache.lru) : cache.lru[i] \in cache.table /\ cache.lru[i] # e
    BY <1>2, Listed
  <2> QED BY <1>3, <2>1, Zenon
<1>6. \/ Within(cache'.lru, cache.lru)
      \/ \E x \in Entries : /\ cache'.lru = Append(cache.lru, x)
                            /\ x \notin Elems(cache.lru)
  BY <1>2, <1>3, WithinItself
<1> QED BY <1>2, <1>4, <1>5, <1>6, InOrder DEF ListMoves

LEMMA InsertStep ==
  ASSUME CacheInv, NEW u \in Users, stx_cache_entry_insert(u)
  PROVE  CacheInv' /\ ListMoves
<1>1. PICK e \in Entries \ cache.table :
        \/ /\ Inserts(cache, e)
           /\ cache' = Insert(cache, e)
           /\ held' = [held EXCEPT ![u] = e]
        \/ /\ ~Inserts(cache, e)
           /\ cache' = Delete(Insert(cache, e), e)
           /\ UNCHANGED held
  BY DEF stx_cache_entry_insert
<1>2. Sound(cache) /\ cache.size <= MaxSize /\ held[u] = None
  BY DEF CacheInv, stx_cache_entry_insert
<1>3. CASE Inserts(cache, e)
  <2>1. cache' = Insert(cache, e) /\ held' = [held EXCEPT ![u] = e]
    BY <1>1, <1>3
  <2>2. /\ Sound(cache') /\ Within(cache'.lru, cache.lru)
        /\ cache'.ref = [cache.ref EXCEPT ![e] = @ + 1]
        /\ cache'.size <= MaxSize /\ cache'.weight <= MaxWeight
        /\ OldestFirst(cache, cache', {KeyOf[e]})
        /\ e \in cache'.table
    BY <1>2, <1>3, <2>1, InsertSound
  <2>3. /\ (held \in [Users -> Entries \cup {None}])'
        /\ \A x \in Entries :
             cache'.ref[x] = Cardinality({v \in Users : held'[v] = x})
    BY <1>2, <2>1, <2>2, HolderAdded, Zenon
  <2>4. CacheInv'
    BY <2>2, <2>3 DEF CacheInv
  <2>5. ASSUME NEW i \in 1..Len(cache.lru), NEW j \in 1..Len(cache.lru), i < j,
               cache.lru[i] \in cache'.table, cache'.ref[cache.lru[i]] = 0
        PROVE  \/ cache.lru[j] \in cache'.table
               \/ \E x \in cache'.table \ cache.table : KeyOf[x] = KeyOf[cache.lru[j]]
    <3>1. \/ cache.lru[j] \in cache'.table
          \/ KeyOf[cache.lru[j]] \in {KeyOf[e]}
      BY <2>2, <2>5, Zenon DEF OldestFirst
    <3> QED BY <2>2, <3>1
  <2> QED BY <1>2, <2>2, <2>4, <2>5, InOrder, Zenon DEF ListMoves
<1>4. CASE ~Inserts(cache, e)
  <2> DEFINE l == Lighter(cache, WeightOf[e])
  <2>1. cache' = Delete(l, e) /\ UNCHANGED held
    BY <1>1, <1>4 DEF Insert
  <2>2. WeightOf[e] \in Nat
    BY LruAssumption
  <2>3. /\ Sound(l) /\ l.ref = cache.ref /\ Within(l.lru, cache.lru)
        /\ l.table \subseteq cache.table
        /\ l.size <= cache.size /\ l.weight <= cache.weight
        /\ OldestFirst(cache, l, {})
    BY <1>2, <2>2, LighterSound, Zenon
  <2> HIDE DEF l
  <2>4. e \notin l.table /\ ~(l.ref[e] > 0)
    BY <2>3 DEF Sound
  <2>5. cache' = l
    BY <2>1, <2>4 DEF Delete
  <2>6. CacheInv'
    BY <2>1, <2>3, <2>5, HoldersKept
  <2> QED BY <1>2, <2>3, <2>5, <2>6, InOrder DEF ListMoves, OldestFirst
<1> QED BY <1>3, <1>4

LEMMA DeleteStep ==
  ASSUME CacheInv, NEW u \in Users, stx_cache_entry_delete(u)
  PROVE  CacheInv' /\ ListMoves
<1> DEFINE e == held[u]
<1>1. e # None /\ cache' = Delete(cache, e) /\ UNCHANGED held
  BY DEF stx_cache_entry_delete
<1>2. e \in Entries /\ cache.ref[e] > 0 /\ Sound(cache)
  BY <1>1, HeldCounts DEF CacheInv
<1>3. /\ Sound(cache') /\ cache'.ref = cache.ref /\ Within(cache'.lru, cache.lru)
      /\ cache'.size <= cache.size /\ cache'.weight <= cache.weight
      /\ cache'.table = cache.table
  BY <1>1, <1>2, DeleteSound
<1>4. CacheInv'
  BY <1>1, <1>3, HoldersKept
<1>5. \A i \in 1..Len(cache.lru) : cache.lru[i] \in cache'.table
  BY <1>2, <1>3, Listed
<1> QED BY <1>2, <1>3, <1>4, <1>5, InOrder DEF ListMoves

LEMMA PurgeStep ==
  ASSUME CacheInv, NEW u \in Users, Purge(u)
  PROVE  CacheInv' /\ ListMoves
<1>1. PICK k \in Keys : \E e \in Found(cache, k) :
        cache' = Delete(Release(Lookup(cache, e), e), e)
  BY DEF Purge
<1>2. PICK e \in Found(cache, k) : cache' = Delete(Release(Lookup(cache, e), e), e)
  BY <1>1
<1> DEFINE a == Lookup(cache, e)
           b == Release(a, e)
<1>3. /\ UNCHANGED held /\ Sound(cache) /\ e \in cache.table /\ e \notin cache.pending
      /\ e \in Entries /\ cache.ref \in [Entries -> Nat]
      /\ cache.size \in Nat /\ cache.weight \in Nat
  BY Zenon DEF Purge, Found, CacheInv, Sound, CacheType
<1>4. /\ Sound(a) /\ Within(a.lru, cache.lru)
      /\ a.ref = [cache.ref EXCEPT ![e] = @ + 1]
      /\ a.table = cache.table /\ a.pending = cache.pending
      /\ a.size = cache.size /\ a.weight = cache.weight
  BY <1>3, LookupSound
<1> HIDE DEF a
<1>5. a.ref[e] = cache.ref[e] + 1 /\ a.ref[e] > 0 /\ cache.ref[e] \in Nat
  BY <1>3, <1>4
<1>6. /\ Sound(b) /\ b.ref = [a.ref EXCEPT ![e] = @ - 1]
      /\ b.size <= a.size /\ b.weight <= a.weight
      /\ b.lru = a.lru \/ b.lru = Append(a.lru, e)
      /\ b.table = a.table
  BY <1>3, <1>4, <1>5, ReleaseSound
<1>7. cache' = Delete(b, e)
  BY <1>2 DEF a
<1> HIDE DEF b
<1>8. b.ref = cache.ref
  <2>1. b.ref \in [Entries -> Nat]
    BY <1>6, Zenon DEF Sound, CacheType
  <2>2. \A x \in Entries : b.ref[x] = cache.ref[x]
    BY <1>3, <1>4, <1>5, <1>6
  <2> QED BY <1>3, <2>1, <2>2
<1>9. /\ Sound(cache') /\ cache'.ref = b.ref /\ Within(cache'.lru, b.lru)
      /\ cache'.size <= b.size /\ cache'.weight <= b.weight
      /\ b.ref[e] > 0 => cache'.table = b.table
      /\ b.ref[e] = 0 => cache'.table = b.table \ {e}
      /\ e \in b.table /\ b.ref[e] = 0 => cache'.lru = Unlink(b.lru, e)
  <2>1. /\ Sound(cache') /\ cache'.ref = b.ref /\ Within(cache'.lru, b.lru)
        /\ cache'.size <= b.size /\ cache'.weight <= b.weight
        /\ b.ref[e] > 0 => cache'.table = b.table
        /\ b.ref[e] = 0 => /\ cache'.table = b.table \ {e}
                           /\ e \in b.table => cache'.lru = Unlink(b.lru, e)
    <3>1. Sound(b) /\ e \in Entries
      BY <1>3, <1>6
    <3> QED BY <1>7, <3>1, DeleteSound
  <2> QED BY <2>1, Zenon
<1>10. CacheInv'
  <2>1. cache'.size <= cache.size /\ cache'.weight <= cache.weight
    <3>1. /\ b.size \in Nat /\ b.weight \in Nat
          /\ cache'.size \in Nat /\ cache'.weight \in Nat
      BY <1>6, <1>9, Zenon DEF Sound, CacheType
    <3> QED BY <1>3, <1>4, <1>6, <1>9, <3>1
  <2> QED BY <1>3, <1>8, <1>9, <2>1, HoldersKept
<1>11. Within(cache'.lru, cache.lru)
  <2>1. Elems(b.lru) = {x \in b.table : b.ref[x] = 0} /\ e \in b.table
    BY <1>3, <1>4, <1>6, Zenon DEF Sound
  <2>2. e \notin Elems(a.lru) /\ a.lru \in Seq(Entries)
    BY <1>4, <1>5, SMTT(60) DEF Sound, CacheType
  <2>3. CASE cache.ref[e] = 0
    <3>1. b.lru = Append(a.lru, e)
      BY <1>6, <1>8, <2>1, <2>2, <2>3, Zenon
    <3>2. cache'.lru = a.lru
      BY <1>3, <1>8, <1>9, <2>1, <2>2, <2>3, <3>1, UnlinkAppended
    <3> QED BY <1>4, <3>2
  <2>4. CASE cache.ref[e] # 0
    <3>1. e \notin Elems(b.lru)
      BY <1>8, <2>1, <2>4
    <3>2. e \in Elems(Append(a.lru, e))
      BY <1>3, <2>2, AppendElems
    <3>3. b.lru = a.lru
      BY <1>6, <3>1, <3>2, Zenon
    <3> QED BY <1>4, <1>9, <3>3, WithinBoth
  <2> QED BY <2>3, <2>4
<1>12. \A x \in cache.table : x \notin cache'.table => cache'.table = cache.table \ {x}
  BY <1>4, <1>5, <1>6, <1>8, <1>9
<1>13. \A i \in 1..Len(cache.lru) : cache.lru[i] \in cache.table
  BY <1>3, Listed
<1> QED BY <1>3, <1>10, <1>11, <1>12, <1>13, InOrder, Zenon DEF ListMoves

LEMMA EmptyStep ==
  ASSUME CacheInv, stx_cache_empty
  PROVE  CacheInv' /\ ListMoves
<1>1. cache' = Empty(cache) /\ UNCHANGED held /\ Sound(cache)
  BY DEF stx_cache_empty, CacheInv
<1>2. /\ Sound(cache') /\ cache'.ref = cache.ref /\ Within(cache'.lru, cache.lru)
      /\ cache'.size <= cache.size /\ cache'.weight <= cache.weight
      /\ \A e \in cache'.table : cache'.ref[e] > 0
  BY <1>1, EmptySound
<1>3. CacheInv'
  BY <1>1, <1>2, HoldersKept
<1> QED BY <1>1, <1>2, <1>3, InOrder, SMTT(60) DEF ListMoves

(* Every step keeps the invariant and moves the list as it may. *)
LEMMA CacheStep ==
  ASSUME CacheInv, [Next]_vars
  PROVE  CacheInv' /\ (ListMoves \/ UNCHANGED vars)
<1>1. CASE UNCHANGED vars
  BY <1>1 DEF vars, CacheInv
<1>2. CASE stx_cache_empty
  BY <1>2, EmptyStep
<1>3. ASSUME NEW u \in Users,
             \/ stx_cache_entry_lookup(u)
             \/ stx_cache_entry_release(u)
             \/ stx_cache_entry_insert(u)
             \/ stx_cache_entry_delete(u)
             \/ Purge(u)
      PROVE  CacheInv' /\ ListMoves
  BY <1>3, LookupStep, ReleaseStep, InsertStep, DeleteStep, PurgeStep
<1> QED BY <1>1, <1>2, <1>3 DEF Next

(* A new cache is sound. *)
LEMMA CacheInit ==
  ASSUME Init
  PROVE  CacheInv
<1>1. /\ cache.table = {} /\ cache.lru = <<>> /\ cache.ref = [e \in Entries |-> 0]
      /\ cache.pending = {} /\ cache.size = 0 /\ cache.weight = 0
      /\ cache \in CacheType
      /\ held = [u \in Users |-> None]
  BY DEF Init, NewCache, CacheType
<1>2. Units({}) = {}
  BY DEF Units
<1>3. IsFiniteSet({}) /\ Cardinality({}) = 0
  BY FS_EmptySet
<1>4. NoRepeat(<<>>) /\ Elems(<<>>) = {}
  BY DEF NoRepeat, Elems
<1>5. Sound(cache)
  <2>1. \A e \in Entries : ~(cache.ref[e] > 0)
    BY <1>1
  <2>2. /\ IsFiniteSet(cache.table) /\ cache.size = Cardinality(cache.table)
        /\ IsFiniteSet(Units(cache.table))
        /\ cache.weight = Cardinality(Units(cache.table))
    BY <1>1, <1>2, <1>3, Zenon
  <2>3. NoRepeat(cache.lru) /\ Elems(cache.lru) = {e \in cache.table : cache.ref[e] = 0}
    BY <1>1, <1>4
  <2> QED BY <1>1, <2>1, <2>2, <2>3, Zenon DEF Sound
<1>6. \A e \in Entries : {u \in Users : held[u] = e} = {}
  BY <1>1, UsersAssumption
<1>7. 0 <= MaxSize /\ 0 <= MaxWeight
  BY LruAssumption
<1> QED BY <1>1, <1>3, <1>5, <1>6, <1>7, Zenon DEF CacheInv

(* The cache is sound, its counters within the limits, and its reference   *)
(* counts are the numbers of holders, whatever the threads do.             *)
THEOREM CacheInvariant == Spec => []CacheInv
<1>1. Init => CacheInv
  BY CacheInit
<1>2. CacheInv /\ [Next]_vars => CacheInv'
  BY CacheStep
<1> QED BY <1>1, <1>2, PTL DEF Spec

(* An entry that a thread holds is not freed, and its ref_count is the     *)
(* number of its holders.                                                  *)
THEOREM HoldersCorrect == Spec => []HeldStays
<1>1. CacheInv => HeldStays
  <2> SUFFICES ASSUME CacheInv
               PROVE  HeldStays
    OBVIOUS
  <2>1. TypeOK
    BY DEF CacheInv, Sound, CacheType, TypeOK
  <2>2. \A u \in Users : held[u] # None => held[u] \in cache.table
    BY HeldCounts
  <2> QED BY <2>1, <2>2 DEF CacheInv, HeldStays
<1> QED BY <1>1, CacheInvariant, PTL

(* The LRU list has exactly the entries that nobody uses, and a lookup     *)
(* finds at most one entry of a key.                                       *)
THEOREM ListCorrect == Spec => []ListExact
<1>1. CacheInv => ListExact
  <2> SUFFICES ASSUME CacheInv
               PROVE  ListExact
    OBVIOUS
  <2>1. Sound(cache)
    BY DEF CacheInv
  <2>2. ASSUME NEW k \in Keys
        PROVE  Cardinality(Found(cache, k)) <= 1
    <3> DEFINE F == Found(cache, k)
    <3>1. \A e, d \in F : e = d
      BY <2>1 DEF Found, Sound
    <3>2. CASE F = {}
      BY <3>2, FS_EmptySet
    <3>3. CASE F # {}
      <4>1. PICK e \in F : TRUE
        BY <3>3
      <4>2. F = {e}
        BY <3>1, <4>1
      <4>3. Cardinality({e}) = 1
        BY FS_Singleton, Zenon
      <4> QED BY <4>2, <4>3
    <3> QED BY <3>2, <3>3
  <2> QED BY <2>1, <2>2 DEF ListExact, Sound
<1> QED BY <1>1, CacheInvariant, PTL

(* cur_size and cur_weight count the table, and stay within max_size and   *)
(* max_weight.                                                             *)
THEOREM LimitsCorrect == Spec => []WithinLimits
<1>1. CacheInv => WithinLimits
  BY DEF CacheInv, Sound, WithinLimits
<1> QED BY <1>1, CacheInvariant, PTL

(* Eviction takes the list from its head, and the list keeps the order of  *)
(* the last releases.                                                      *)
THEOREM EvictionCorrect == Spec => EvictsOldest
<1>1. CacheInv /\ [Next]_vars => [ListMoves]_vars
  BY CacheStep
<1> QED BY <1>1, CacheInvariant, PTL DEF Spec, EvictsOldest, ListMoves
=============================================================================
