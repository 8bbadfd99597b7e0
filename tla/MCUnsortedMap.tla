---------------------------- MODULE MCUnsortedMap ----------------------------
(* Hash functions for model-checking UnsortedMap. *)
EXTENDS UnsortedMap

MCKeys == 1..5

(* In a table of 9 entries, 2 and 5 have probe sequences of length three  *)
(* through the entries 3, 6 and 9; in one of 21 entries, 6 and 13 have one *)
(* through 7, 14 and 21.  0 is an ordinary value (and becomes 1).          *)
MCHashFns == {<<2, 2, 2, 5, 0>>, <<6, 13, 6, 13, 6>>}
=============================================================================
