--------------------------- MODULE MCWatchTargets ---------------------------
(* WatchTargets on small instances, for TLC. *)
EXTENDS WatchSnapshots

TargetSymmetry == Permutations(Targets) \cup Permutations(Keys)
=============================================================================
