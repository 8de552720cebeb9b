-------------------------- MODULE MCGarbageCollector --------------------------
(* The instances of GarbageCollector that TLC checks. *)
EXTENDS GarbageCollector, TLC

CONSTANTS t1, t2, P1, a, b

\* One client thread, and two in the same process.
OneThread == (t1 :> P1)
OneProc == (t1 :> P1) @@ (t2 :> P1)

\* Paths without references, and b referring to a.
NoRefs == [p \in Paths |-> {}]
Chain == [p \in Paths |-> IF p = b THEN {a} ELSE {}]

All == {Paths}
\* gcDeleteDead, or gcDeleteSpecific with each set of paths.
AnySet == (SUBSET Paths) \ {{}}

Full == {Paths}
Closures == {S \in SUBSET Paths : \A p \in S : Chain[p] \subseteq S}
=============================================================================
