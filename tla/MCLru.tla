------------------------------- MODULE MCLru --------------------------------
(* Two entries of one key, four of others; the last is too heavy. *)
EXTENDS LruCache

Six == 1..6
SixKeys == <<"a", "a", "b", "c", "d", "e">>
SixWeights == <<1, 1, 1, 2, 3, 6>>
=============================================================================
