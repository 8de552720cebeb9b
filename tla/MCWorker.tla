------------------------------- MODULE MCWorker -------------------------------
(* The instances of Worker that TLC checks. *)
EXTENDS Worker, TLC, Sequences

(***************************************************************************)
(* Derivation E has the outputs e1 and e2 and is built by bE from source   *)
(* s0; the substitutes of its outputs refer to s0, too.  Derivation D has  *)
(* an output whose path is not known, needs E and is resolved to R, which  *)
(* is built by bR.  F is not substituted and has no inputs; its derivation *)
(* is itself substituted (sF).  T has three outputs; the path of the last  *)
(* one is not known, and the others can be substituted.                    *)
(***************************************************************************)
InOrder == <<"rD", "rR", "rT", "s0", "sD", "sE1", "sE2", "sF", "sT1", "sT2", "sT3",
             "tD", "tE", "tF", "tT", "D", "E1", "E2", "F", "R", "T1", "T2", "T3",
             "resD", "resE", "resF", "resR", "resT", "bE", "bF", "bR", "bT">>

AllGoals == {InOrder[i] : i \in 1 .. Len(InOrder)}

\* The goals that the requests of the runs lead to.
GoalsOfT == {"s0", "rT", "sT1", "sT2", "sT3", "tT", "T1", "T2", "T3", "resT", "bT"}
GoalsOfEF == {"s0", "sE1", "sE2", "tE", "tF", "E1", "E2", "F", "resE", "resF", "bE", "bF"}
GoalsOfEFT == GoalsOfEF \cup GoalsOfT
GoalsOfD == AllGoals \ (GoalsOfT \ {"s0"})

InRank == [g \in Goals |-> CHOOSE i \in 1 .. Len(InOrder) : InOrder[i] = g]

Classes ==
    [g \in Goals |->
        CASE g \in {"rD", "rR", "rT"} -> "realisation"
          [] g \in {"s0", "sD", "sE1", "sE2", "sF", "sT1", "sT2", "sT3"} -> "substitution"
          [] g \in {"tD", "tE", "tF", "tT"} -> "trampoline"
          [] g \in {"D", "E1", "E2", "F", "R", "T1", "T2", "T3"} -> "derivation"
          [] g \in {"resD", "resE", "resF", "resR", "resT"} -> "resolution"
          [] OTHER -> "building"]

Awaits ==
    [g \in Goals |->
        CASE g = "tD" -> {"D"}
          [] g = "tE" -> {"E1", "E2"}
          [] g = "tF" -> {"F"}
          [] g = "tT" -> {"T1", "T2", "T3"}
          [] g = "resD" -> {"tE"}
          [] g \in {"sE1", "sE2", "bE"} -> {"s0"}
          [] OTHER -> {}]

Table(f) == [g \in Goals |-> IF g \in DOMAIN f THEN f[g] ELSE None]

ObtainTable == Table("tF" :> "sF")
NoObtain == [g \in Goals |-> None]
RealisationTable == Table(("D" :> "rD") @@ ("R" :> "rR") @@ ("T3" :> "rT"))
OutputTable == Table(("D" :> "sD") @@ ("R" :> "sD") @@ ("E1" :> "sE1") @@ ("E2" :> "sE2")
                     @@ ("T1" :> "sT1") @@ ("T2" :> "sT2") @@ ("T3" :> "sT3"))
ResolutionTable == Table(("D" :> "resD") @@ ("R" :> "resR") @@ ("E1" :> "resE")
                         @@ ("E2" :> "resE") @@ ("F" :> "resF")
                         @@ ("T1" :> "resT") @@ ("T2" :> "resT") @@ ("T3" :> "resT"))
ResolvedTable == Table("D" :> "R")
BuildingTable == Table(("R" :> "bR") @@ ("E1" :> "bE") @@ ("E2" :> "bE") @@ ("F" :> "bF")
                       @@ ("T1" :> "bT") @@ ("T2" :> "bT") @@ ("T3" :> "bT"))

\* How deep the goals are in the graph.
Levels ==
    [g \in Goals |->
        CASE g \in {"rD", "rR", "rT", "s0"} -> 0
          [] g \in {"sD", "sE1", "sE2", "sF", "sT1", "sT2", "sT3"} -> 1
          [] g \in {"bE", "bF", "bR", "bT", "resE", "resF", "resR", "resT"} -> 2
          [] g \in {"E1", "E2", "F", "R", "T1", "T2", "T3"} -> 3
          [] g \in {"tE", "tF", "tT"} -> 4
          [] g = "resD" -> 5
          [] g = "D" -> 6
          [] OTHER -> 7]

\* keep-going and fallback on or off, with one local build, and perhaps none.
OneJob == BOOLEAN \X BOOLEAN \X {1}
AnyJobs == BOOLEAN \X BOOLEAN \X {0, 1}
=============================================================================
