--------------------------- MODULE MCSharedStore ---------------------------
(***************************************************************************)
(* Small instances of SharedStore for TLC.  With six hash bits and the     *)
(* multiplier 37 the probes for keys 7, 9, 14 and 21 all start at the      *)
(* first slot of a table of four.                                          *)
(***************************************************************************)
EXTENDS SharedStore, TLC

TwoKeys == <<9, 7>>

ThreadSymmetry == Permutations(Threads)
=============================================================================
