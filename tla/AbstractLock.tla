---------------------------- MODULE AbstractLock ----------------------------
(***************************************************************************)
(* What PathLocks promises its callers: each path has at most one owner,   *)
(* a path is acquired in one step while it is free, and in ascending       *)
(* order.  Profiles and builds are modelled with locks of this kind.       *)
(***************************************************************************)
EXTENDS Naturals

CONSTANTS Procs, Paths, None

VARIABLE owner      \* owner[x]: the process that owns the lock on x

Init == owner = [x \in Paths |-> None]

\* lockPaths gets one more of its locks.
Acquire(p, x) ==
    /\ owner[x] = None
    /\ \A y \in Paths : owner[y] = p => y < x
    /\ owner' = [owner EXCEPT ![x] = p]

\* unlock() gives back a lock; the death of the process all it has.
Release(p, S) ==
    /\ \A x \in S : owner[x] = p
    /\ owner' = [x \in Paths |-> IF x \in S THEN None ELSE owner[x]]

Next ==
    \E p \in Procs :
        \/ \E x \in Paths : Acquire(p, x)
        \/ \E S \in SUBSET Paths : Release(p, S)

Spec == Init /\ [][Next]_owner
=============================================================================
