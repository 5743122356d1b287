---------------------------- MODULE ClistProofs -----------------------------
(* What the list operations of Clist do to the elements of a list. *)
EXTENDS Clist, WellFoundedInduction, TLAPS

(* What the operators of Sequences do. *)
LEMMA SeqLen ==
  ASSUME NEW S, NEW q \in Seq(S)
  PROVE  Len(q) \in Nat /\ q \in [1..Len(q) -> S] /\ DOMAIN q = 1..Len(q)
OBVIOUS

LEMMA SeqEmpty ==
  ASSUME NEW S, NEW q \in Seq(S)
  PROVE  q = <<>> <=> Len(q) = 0
OBVIOUS

LEMMA SeqMade ==
  ASSUME NEW S, NEW n \in Nat, NEW q \in [1..n -> S]
  PROVE  q \in Seq(S) /\ Len(q) = n
OBVIOUS

LEMMA SeqAppend ==
  ASSUME NEW S, NEW q \in Seq(S), NEW e \in S
  PROVE  /\ Append(q, e) \in Seq(S)
         /\ Len(Append(q, e)) = Len(q) + 1
         /\ \A i \in 1..Len(q) : Append(q, e)[i] = q[i]
         /\ Append(q, e)[Len(q) + 1] = e
OBVIOUS

LEMMA SeqConcat ==
  ASSUME NEW S, NEW q \in Seq(S), NEW w \in Seq(S)
  PROVE  /\ q \o w \in Seq(S)
         /\ Len(q \o w) = Len(q) + Len(w)
         /\ \A i \in 1..(Len(q) + Len(w)) :
              (q \o w)[i] = IF i <= Len(q) THEN q[i] ELSE w[i - Len(q)]
OBVIOUS

LEMMA SeqTail ==
  ASSUME NEW S, NEW q \in Seq(S), q # <<>>
  PROVE  /\ Tail(q) \in Seq(S)
         /\ Len(q) \in Nat \ {0}
         /\ Len(Tail(q)) = Len(q) - 1
         /\ \A i \in 1..(Len(q) - 1) : Tail(q)[i] = q[i + 1]
         /\ Head(q) = q[1]
OBVIOUS

(* The elements of a list of S are members of S, and a list is empty when  *)
(* it has no elements.                                                     *)
LEMMA ElemsOfSeq ==
  ASSUME NEW S, NEW q \in Seq(S)
  PROVE  /\ Elems(q) \subseteq S
         /\ Elems(q) = {} <=> q = <<>>
<1>1. Len(q) \in Nat /\ q \in [1..Len(q) -> S]
  BY SeqLen
<1>2. q # <<>> => 1 \in 1..Len(q)
  BY <1>1, SeqEmpty
<1>3. q = <<>> => Elems(q) = {}
  BY DEF Elems
<1> QED
  BY <1>1, <1>2, <1>3 DEF Elems

(* ST_APPEND_LINK adds one element. *)
LEMMA AppendElems ==
  ASSUME NEW S, NEW q \in Seq(S), NEW e \in S
  PROVE  /\ Append(q, e) \in Seq(S)
         /\ Elems(Append(q, e)) = Elems(q) \cup {e}
         /\ NoRepeat(q) /\ e \notin Elems(q) => NoRepeat(Append(q, e))
<1>1. /\ Append(q, e) \in Seq(S)
      /\ Len(Append(q, e)) = Len(q) + 1
      /\ \A i \in 1..Len(q) : Append(q, e)[i] = q[i]
      /\ Append(q, e)[Len(q) + 1] = e
      /\ Len(q) \in Nat
  BY SeqAppend, SeqLen
<1>2. Elems(Append(q, e)) = Elems(q) \cup {e}
  <2>1. 1..(Len(q) + 1) = 1..Len(q) \cup {Len(q) + 1}
    BY <1>1
  <2> QED
    BY <1>1, <2>1 DEF Elems
<1>3. NoRepeat(q) /\ e \notin Elems(q) => NoRepeat(Append(q, e))
  BY <1>1 DEF NoRepeat, Elems
<1> QED
  BY <1>1, <1>2, <1>3

(* Several elements appended one after the other. *)
LEMMA ConcatElems ==
  ASSUME NEW S, NEW q \in Seq(S), NEW w \in Seq(S)
  PROVE  /\ q \o w \in Seq(S)
         /\ Elems(q \o w) = Elems(q) \cup Elems(w)
         /\ NoRepeat(q) /\ NoRepeat(w) /\ Elems(q) \cap Elems(w) = {}
              => NoRepeat(q \o w)
<1> DEFINE r == q \o w
<1>1. /\ r \in Seq(S)
      /\ Len(r) = Len(q) + Len(w)
      /\ \A i \in 1..Len(r) : r[i] = IF i <= Len(q) THEN q[i] ELSE w[i - Len(q)]
      /\ Len(q) \in Nat
      /\ Len(w) \in Nat
  BY SeqConcat, SeqLen
<1> HIDE DEF r
<1>2. Elems(r) \subseteq Elems(q) \cup Elems(w)
  BY <1>1 DEF Elems
<1>3. Elems(q) \subseteq Elems(r)
  <2>1. \A i \in 1..Len(q) : i \in 1..Len(r) /\ r[i] = q[i]
    BY <1>1
  <2> QED BY <2>1 DEF Elems
<1>4. Elems(w) \subseteq Elems(r)
  <2>1. ASSUME NEW i \in 1..Len(w)
        PROVE  i + Len(q) \in 1..Len(r) /\ r[i + Len(q)] = w[i]
    <3>1. i + Len(q) \in 1..Len(r) /\ ~(i + Len(q) <= Len(q))
      BY <1>1
    <3>2. (i + Len(q)) - Len(q) = i
      BY <1>1
    <3> QED BY <1>1, <3>1, <3>2
  <2> QED BY <2>1 DEF Elems
<1>5. ASSUME NoRepeat(q), NoRepeat(w), Elems(q) \cap Elems(w) = {}
      PROVE  NoRepeat(r)
  <2> SUFFICES ASSUME NEW i \in 1..Len(r), NEW j \in 1..Len(r), r[i] = r[j]
               PROVE  i = j
    BY DEF NoRepeat
  <2>1. CASE i <= Len(q) /\ j <= Len(q)
    BY <1>1, <1>5, <2>1 DEF NoRepeat
  <2>2. CASE i > Len(q) /\ j > Len(q)
    <3>1. i - Len(q) \in 1..Len(w) /\ j - Len(q) \in 1..Len(w)
      BY <1>1, <2>2
    <3>2. w[i - Len(q)] = w[j - Len(q)]
      BY <1>1, <2>2
    <3> QED BY <1>1, <1>5, <3>1, <3>2 DEF NoRepeat
  <2>3. CASE i <= Len(q) /\ j > Len(q)
    <3>1. j - Len(q) \in 1..Len(w) /\ i \in 1..Len(q)
      BY <1>1, <2>3
    <3>2. r[i] \in Elems(q) /\ r[j] \in Elems(w)
      BY <1>1, <2>3, <3>1 DEF Elems
    <3> QED BY <1>5, <3>2
  <2>4. CASE i > Len(q) /\ j <= Len(q)
    <3>1. i - Len(q) \in 1..Len(w) /\ j \in 1..Len(q)
      BY <1>1, <2>4
    <3>2. r[j] \in Elems(q) /\ r[i] \in Elems(w)
      BY <1>1, <2>4, <3>1 DEF Elems
    <3> QED BY <1>5, <3>2
  <2> QED BY <1>1, <2>1, <2>2, <2>3, <2>4
<1> QED
  BY <1>1, <1>2, <1>3, <1>4, <1>5 DEF r

(* A list of one element. *)
LEMMA SingletonElems ==
  ASSUME NEW S, NEW e \in S
  PROVE  /\ <<e>> \in Seq(S)
         /\ Elems(<<e>>) = {e}
         /\ NoRepeat(<<e>>)
BY DEF Elems, NoRepeat

(* Taking the head off a list. *)
LEMMA TailElems ==
  ASSUME NEW S, NEW q \in Seq(S), q # <<>>
  PROVE  /\ Tail(q) \in Seq(S)
         /\ Head(q) \in Elems(q)
         /\ NoRepeat(q) => /\ NoRepeat(Tail(q))
                           /\ Elems(Tail(q)) = Elems(q) \ {Head(q)}
<1> DEFINE r == Tail(q)
<1>1. /\ r \in Seq(S)
      /\ Len(q) \in Nat \ {0}
      /\ Len(r) = Len(q) - 1
      /\ \A i \in 1..Len(r) : r[i] = q[i + 1]
      /\ Head(q) = q[1]
  BY SeqTail
<1> HIDE DEF r
<1>2. Head(q) \in Elems(q)
  BY <1>1 DEF Elems
<1>3. ASSUME NoRepeat(q)
      PROVE  NoRepeat(r) /\ Elems(r) = Elems(q) \ {Head(q)}
  <2>1. NoRepeat(r)
    <3> SUFFICES ASSUME NEW i \in 1..Len(r), NEW j \in 1..Len(r), r[i] = r[j]
                 PROVE  i = j
      BY DEF NoRepeat
    <3>1. i + 1 \in 1..Len(q) /\ j + 1 \in 1..Len(q) /\ q[i + 1] = q[j + 1]
      BY <1>1
    <3> QED BY <1>1, <1>3, <3>1 DEF NoRepeat
  <2>2. Elems(r) \subseteq Elems(q) \ {Head(q)}
    <3> SUFFICES ASSUME NEW i \in 1..Len(r)
                 PROVE  r[i] \in Elems(q) /\ r[i] # Head(q)
      BY DEF Elems
    <3>1. i + 1 \in 1..Len(q) /\ 1 \in 1..Len(q) /\ i + 1 # 1 /\ r[i] = q[i + 1]
      BY <1>1
    <3> QED BY <1>1, <1>3, <3>1 DEF NoRepeat, Elems
  <2>3. Elems(q) \ {Head(q)} \subseteq Elems(r)
    <3> SUFFICES ASSUME NEW i \in 1..Len(q), q[i] # Head(q)
                 PROVE  q[i] \in Elems(r)
      BY DEF Elems
    <3>1. i # 1
      BY <1>1
    <3>2. i - 1 \in 1..Len(r) /\ (i - 1) + 1 = i
      BY <1>1, <3>1
    <3>3. r[i - 1] = q[i]
      BY <1>1, <3>2
    <3> QED BY <3>2, <3>3 DEF Elems
  <2> QED BY <2>1, <2>2, <2>3
<1> QED
  BY <1>1, <1>2, <1>3 DEF r

(* ST_REMOVE_LINK takes out the element and nothing else. *)
LEMMA UnlinkElems ==
  ASSUME NEW S, NEW q \in Seq(S), NEW e \in Elems(q)
  PROVE  /\ Unlink(q, e) \in Seq(S)
         /\ NoRepeat(q) => /\ NoRepeat(Unlink(q, e))
                           /\ Elems(Unlink(q, e)) = Elems(q) \ {e}
<1> DEFINE p == CHOOSE i \in 1..Len(q) : q[i] = e
           n == Len(q) - 1
           r == Unlink(q, e)
<1>1. Len(q) \in Nat /\ q \in [1..Len(q) -> S]
  BY SeqLen
<1>2. p \in 1..Len(q) /\ q[p] = e
  BY DEF Elems
<1>3. n \in Nat /\ Len(q) = n + 1
  BY <1>1, <1>2
<1>4. r = [j \in 1..n |-> IF j < p THEN q[j] ELSE q[j + 1]]
  BY DEF Unlink
<1> HIDE DEF p, n, r
<1>5. r \in [1..n -> S]
  BY <1>1, <1>3, <1>4
<1>6. r \in Seq(S) /\ Len(r) = n
  BY <1>3, <1>5, SeqMade
<1>7. ASSUME NEW j \in 1..n
      PROVE  /\ j < p => r[j] = q[j]
             /\ j >= p => r[j] = q[j + 1]
             /\ j \in 1..Len(q) /\ j + 1 \in 1..Len(q)
  BY <1>1, <1>2, <1>3, <1>4
<1>8. ASSUME NoRepeat(q)
      PROVE  NoRepeat(r) /\ Elems(r) = Elems(q) \ {e}
  <2>1. ASSUME NEW i \in 1..n, NEW j \in 1..n, r[i] = r[j]
        PROVE  i = j
    <3>1. CASE i < p /\ j < p
      BY <1>7, <1>8, <2>1, <3>1 DEF NoRepeat
    <3>2. CASE i >= p /\ j >= p
      <4>1. q[i + 1] = q[j + 1]
        BY <1>7, <2>1, <3>2
      <4>2. i + 1 = j + 1
        BY <1>7, <1>8, <4>1 DEF NoRepeat
      <4> QED BY <4>2
    <3>3. CASE i < p /\ j >= p
      <4>1. q[i] = q[j + 1]
        BY <1>7, <2>1, <3>3
      <4>2. i = j + 1
        BY <1>7, <1>8, <4>1 DEF NoRepeat
      <4> QED BY <1>2, <3>3, <4>2
    <3>4. CASE i >= p /\ j < p
      <4>1. q[i + 1] = q[j]
        BY <1>7, <2>1, <3>4
      <4>2. i + 1 = j
        BY <1>7, <1>8, <4>1 DEF NoRepeat
      <4> QED BY <1>2, <3>4, <4>2
    <3> QED BY <1>2, <3>1, <3>2, <3>3, <3>4
  <2>2. Elems(r) \subseteq Elems(q) \ {e}
    <3> SUFFICES ASSUME NEW j \in 1..n
                 PROVE  r[j] \in Elems(q) /\ r[j] # e
      BY <1>6 DEF Elems
    <3>1. CASE j < p
      <4>1. r[j] = q[j] /\ j # p /\ j \in 1..Len(q)
        BY <1>2, <1>7, <3>1
      <4> QED BY <1>2, <1>8, <4>1 DEF NoRepeat, Elems
    <3>2. CASE j >= p
      <4>1. r[j] = q[j + 1] /\ j + 1 # p /\ j + 1 \in 1..Len(q)
        BY <1>2, <1>7, <3>2
      <4> QED BY <1>2, <1>8, <4>1 DEF NoRepeat, Elems
    <3> QED BY <1>2, <3>1, <3>2
  <2>3. Elems(q) \ {e} \subseteq Elems(r)
    <3> SUFFICES ASSUME NEW i \in 1..Len(q), q[i] # e
                 PROVE  q[i] \in Elems(r)
      BY DEF Elems
    <3>1. CASE i < p
      <4>1. i \in 1..n
        BY <1>2, <1>3, <3>1
      <4>2. r[i] = q[i]
        BY <1>7, <3>1, <4>1
      <4> QED BY <1>6, <4>1, <4>2 DEF Elems
    <3>2. CASE i > p
      <4>1. i - 1 \in 1..n /\ i - 1 >= p /\ (i - 1) + 1 = i
        BY <1>2, <1>3, <3>2
      <4>2. r[i - 1] = q[i]
        BY <1>7, <4>1
      <4> QED BY <1>6, <4>1, <4>2 DEF Elems
    <3> QED BY <1>2, <3>1, <3>2
  <2> QED BY <1>6, <2>1, <2>2, <2>3 DEF NoRepeat
<1> QED
  BY <1>6, <1>8 DEF r

(* Unlink keeps the type of a list whatever it is asked to remove. *)
LEMMA UnlinkType ==
  ASSUME NEW S, NEW q \in Seq(S), NEW e
  PROVE  Unlink(q, e) \in Seq(S)
<1> DEFINE p == CHOOSE i \in 1..Len(q) : q[i] = e
<1>1. Len(q) \in Nat /\ q \in [1..Len(q) -> S]
  BY SeqLen
<1>2. Unlink(q, e) = [j \in 1..(Len(q) - 1) |-> IF j < p THEN q[j] ELSE q[j + 1]]
  BY DEF Unlink
<1> HIDE DEF p
<1>3. CASE Len(q) = 0
  <2>1. 1..(Len(q) - 1) = 1..0
    BY <1>3
  <2>2. Unlink(q, e) \in [1..0 -> S]
    BY <1>2, <2>1
  <2> QED BY <2>2, SeqMade
<1>4. CASE Len(q) # 0
  <2>1. Len(q) - 1 \in Nat
    BY <1>1, <1>4
  <2>2. Unlink(q, e) \in [1..(Len(q) - 1) -> S]
    BY <1>1, <1>2, <2>1
  <2> QED BY <2>1, <2>2, SeqMade
<1> QED BY <1>3, <1>4

(* A set of naturals has a smallest member. *)
LEMMA SmallestNat ==
  ASSUME NEW T \in SUBSET Nat, T # {}
  PROVE  \E m \in T : \A n \in T : m <= n
<1> DEFINE R == OpToRel(<, Nat)
<1>1. IsWellFoundedOn(R, Nat)
  BY NatLessThanWellFounded
<1>2. \A x, y \in Nat : x < y => <<x, y>> \in R
  BY DEF OpToRel
<1> HIDE DEF R
<1>3. PICK m \in T : \A n \in T : ~(<<n, m>> \in R)
  BY <1>1, WFMin
<1>4. \A n \in T : m \in Nat /\ n \in Nat /\ ~(n < m)
  BY <1>2, <1>3
<1>5. \A n \in T : m <= n
  BY <1>4
<1> QED BY <1>5

(* Induction on naturals, for the set of those that have the property. *)
LEMMA NatSetInduction ==
  ASSUME NEW T \in SUBSET Nat, 0 \in T, \A n \in T : n + 1 \in T
  PROVE  T = Nat
<1> SUFFICES ASSUME Nat \ T # {} PROVE FALSE
  OBVIOUS
<1>1. PICK m \in Nat \ T : \A n \in Nat \ T : m <= n
  BY SmallestNat
<1>2. m # 0 /\ m - 1 \in Nat
  OBVIOUS
<1>3. m - 1 \in T
  BY <1>1, <1>2
<1> QED BY <1>3
=============================================================================
