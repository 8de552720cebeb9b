----------------------------- MODULE MCPathLocks -----------------------------
(* The instances of PathLocks that TLC checks. *)
EXTENDS PathLocks, TLC

Sym == Permutations(Procs) \cup Permutations(Inodes)
=============================================================================
