---------------------------- MODULE PrivateData -----------------------------
(***************************************************************************)
(* The private data of threads (key.c) and of descriptor objects           *)
(* (st_netfd_setspecific, io.c), which only the C library has.  A thread's *)
(* values are kept at the top of its stack, which outlives it.  Each value *)
(* the application stores is a new one, numbered in the order they were    *)
(* made.                                                                   *)
(***************************************************************************)
EXTENDS CStIO

CONSTANTS
  KeysMax,     \* ST_KEYS_MAX
  MaxValues    \* bound: how many values the application makes

VARIABLES
  keys,    \* for each key created, whether it has a destructor
  priv,    \* private_data of the threads: for each stack, the values of its
           \* keys.  The primordial thread's are at 0.
  made     \* history of the values: who stored it, whether it has a destructor,
           \* and how often that was called

dataVars == <<keys, priv, made>>

NoData == [k \in 1..KeysMax |-> None]

DataInit ==
  /\ keys = <<>>
  /\ priv = [s \in {0} |-> NoData]
  /\ made = <<>>

Specific(t) == priv[vp.thr[t].stack]

(* The values the application may store: NULL, or a new one. *)
NewValues == {None} \cup IF Len(made) < MaxValues THEN {Len(made) + 1} ELSE {}

(* The history after user stored value v, and the destructors of the       *)
(* values in gone were called.                                             *)
Made(user, v, destr, gone) ==
  LET m == IF v = None THEN made
           ELSE Append(made, [by |-> user, destr |-> destr, calls |-> 0])
  IN  [i \in DOMAIN m |-> IF i \in gone THEN [m[i] EXCEPT !.calls = @ + 1] ELSE m[i]]

st_key_create(t, destr) ==
  /\ Running(t)
  /\ Len(keys) < KeysMax
  /\ keys' = Append(keys, destr)
  /\ UNCHANGED <<vp, ioVars, priv, made>>

(* A value that is replaced is destroyed first. *)
st_thread_setspecific(t, k, v) ==
  LET old == Specific(t)[k] IN
  /\ Running(t)
  /\ k \in DOMAIN keys
  /\ v # old
  /\ made' = Made(t, v, keys[k], IF keys[k] THEN {old} ELSE {})
  /\ priv' = [priv EXCEPT ![vp.thr[t].stack][k] = v]
  /\ UNCHANGED <<vp, ioVars, keys>>

st_netfd_setspecific(t, n, v, destr) ==
  LET o == netfds.obj[n] IN
  /\ Running(t)
  /\ n \in InUse
  /\ made' = Made(n, v, destr, IF v # o.data /\ o.destr THEN {o.data} ELSE {})
  /\ netfds' = [netfds EXCEPT !.obj[n].data = v, !.obj[n].destr = destr]
  /\ UNCHANGED <<vp, io, ev, fdsize, osfd, keys, priv>>

(* The private data of a descriptor object is destroyed when it is freed.  *)
NetfdDataFreed(n) ==
  LET o == netfds.obj[n] IN
  /\ made' = Made(n, None, FALSE, IF o.destr THEN {o.data} ELSE {})
  /\ UNCHANGED <<keys, priv>>

(* A mistake to compare with: what was destroyed is left in place. *)
CleanupKeeps(t) ==
  /\ made' = Made(t, None, FALSE, {Specific(t)[k] : k \in {j \in DOMAIN keys : keys[j]}})
  /\ UNCHANGED <<keys, priv>>

(* The start of st_thread_exit: values of keys with a destructor are       *)
(* destroyed and forgotten.                                                *)
_st_thread_cleanup(t) ==
  LET ds == {k \in DOMAIN keys : keys[k]} IN
  /\ made' = Made(t, None, FALSE, {Specific(t)[k] : k \in ds})
  /\ priv' = [priv EXCEPT ![vp.thr[t].stack] =
                [k \in 1..KeysMax |-> IF k \in ds THEN None ELSE @[k]]]
  /\ UNCHANGED keys

(* st_thread_create clears the private data on the stack it got. *)
DataCleared(s) ==
  /\ priv' = [x \in DOMAIN priv \cup {s} |-> IF x = s THEN NoData ELSE priv[x]]
  /\ UNCHANGED <<keys, made>>
=============================================================================
