------------------------- MODULE MCConcurrentStore -------------------------
(***************************************************************************)
(* Small instances of ConcurrentStore for TLC.  With six hash bits and the *)
(* multiplier 37, keys 2, 4, 9 and 11 belong to shard 0 of two, key 1 to   *)
(* shard 1; in a table of four slots the probes for 2 and 9, and those for *)
(* 4 and 11, start at the same slot.                                       *)
(***************************************************************************)
EXTENDS ConcurrentStore

ThreeKeys == <<4, 2, 9>>
=============================================================================
