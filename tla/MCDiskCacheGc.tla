---------------------------- MODULE MCDiskCacheGc ----------------------------
(***************************************************************************)
(* Instances of DiskCacheGc for TLC.                                       *)
(***************************************************************************)
EXTENDS DiskCacheGc

CONSTANTS f1, f2, f3

\* One entry that is larger than the cap allows beside any other.
MCSize == [f \in Files |-> IF f = f1 THEN 2 ELSE 1]

\* Runners are alike, and so are the two entries of one size.
Alike == Permutations(Runners) \cup Permutations({f2, f3})
============================================================================
