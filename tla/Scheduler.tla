------------------------------- MODULE Scheduler -------------------------------
(***************************************************************************)
(* The scheduler of goals: class Worker of libstore/build/worker.cc and    *)
(* class Goal of libstore/build/goal.cc, without the goals' own code.      *)
(*                                                                         *)
(* All of it runs in one thread.  A goal is a coroutine that is resumed    *)
(* by the worker and runs until it waits: for other goals, for its child,  *)
(* for a build slot, for a while.  The operators of this module take a     *)
(* state of the worker and its goals to the state after a call, as the     *)
(* goals of module Worker make several calls before they wait.             *)
(*                                                                         *)
(* A state is a record of                                                  *)
(*   at[g]        the point where goal g waits ("none": there is no g)     *)
(*   waitees[g], waiters[g]                                                *)
(*   results[g]   the pairs of a waitee of g that has finished and its     *)
(*                exit code; nrFailed and nrNoSubstituters count them      *)
(*   events[g]    its ChildEvents                                          *)
(*   subs[g], substituterFailed[g]  local variables of substitution goals  *)
(*   topGoals, awake, wantingToBuild, waitingForAWhile                     *)
(*   batch        awake2, and todo the part of it not yet resumed          *)
(*   children     the goals that have a child, slots those in a build slot *)
(*   orphans      children whose goal does not exist any more              *)
(*   nrLocalBuilds, nrSubstitutions, tryBuildHook                          *)
(*   valid        goals whose product is known to be in the store          *)
(*   keepGoing, tryFallback, maxBuildJobs   settings                       *)
(*   stop         how run ended: "returned", "threw", or the function an   *)
(*                assertion of which failed                                *)
(***************************************************************************)
EXTENDS Naturals, FiniteSets

CONSTANTS
    Goals,
    Kind,       \* the class of each goal
    Needs,      \* Needs[g]: what a trampoline, resolution, build or substitution awaits
    NrSubstituters,
    MaxSubstitutionJobs

Kinds == {"trampoline", "derivation", "resolution", "building",
          "substitution", "realisation"}

ASSUME SchedulerAssumption ==
    /\ IsFiniteSet(Goals)
    /\ Kind \in [Goals -> Kinds]
    /\ Needs \in [Goals -> SUBSET Goals]
    /\ NrSubstituters \in Nat /\ MaxSubstitutionJobs \in Nat

ExitCodes == {"success", "failed", "nosubstituters"}

-----------------------------------------------------------------------------
(* Goal *)

NrFailed(s, g) ==
    Cardinality({r \in s.results[g] : r[2] \in {"failed", "nosubstituters"}})

NrNoSubstituters(s, g) ==
    Cardinality({r \in s.results[g] : r[2] = "nosubstituters"})

\* The exit code of w, which g has awaited.
ExitCode(s, g, w) ==
    IF \E c \in ExitCodes : <<w, c>> \in s.results[g]
    THEN CHOOSE c \in ExitCodes : <<w, c>> \in s.results[g] ELSE "busy"

WakeUp(s, G) == [s EXCEPT !.awake = @ \cup G]

\* initGoalIfNeeded for each goal of G.
MakeGoals(s, G) ==
    LET new == {g \in G : s.at[g] = "none"} IN
    [WakeUp(s, new) EXCEPT
        !.at = [g \in Goals |-> IF g \in new THEN "new" ELSE @[g]]]

\* Make the goals G and await them, to be resumed at point.
Await(s, g, G, point) ==
    [MakeGoals(s, G) EXCEPT
        !.at[g] = point,
        !.waitees[g] = G,
        !.waiters = [w \in Goals |-> IF w \in G THEN @[w] \cup {g} ELSE @[w]]]

\* yield()
Yield(s, g, point) == [WakeUp(s, {g}) EXCEPT !.at[g] = point]

\* waitForAWhile()
WaitForAWhile(s, g, point) ==
    [s EXCEPT !.at[g] = point, !.waitingForAWhile = @ \cup {g}]

\* The object of goal g is no more, or does nothing any more.
Gone(s, G) ==
    [s EXCEPT
        !.at = [g \in Goals |-> IF g \in G THEN "none" ELSE @[g]],
        !.waitees = [g \in Goals |-> IF g \in G THEN {} ELSE @[g]],
        !.waiters = [g \in Goals |-> IF g \in G THEN {} ELSE @[g] \ G],
        !.results = [g \in Goals |-> IF g \in G THEN {} ELSE @[g]],
        !.events = [g \in Goals |-> IF g \in G THEN {} ELSE @[g]],
        !.subs = [g \in Goals |-> IF g \in G THEN NrSubstituters ELSE @[g]],
        !.substituterFailed = [g \in Goals |-> g \notin G /\ @[g]]]

\* Mutant of AmDone: the waitees that are given up keep their waiter.
AmDoneKeepsWaiter(s, g, result) ==
    LET W == s.waiters[g]
        last == {w \in W : s.waitees[w] \subseteq {g}}
        fatal == result = "failed" /\ ~s.keepGoing
        cut == IF fatal THEN W \ last ELSE {}
        s1 == [s EXCEPT
                 !.results = [w \in Goals |-> IF w \in W THEN @[w] \cup {<<g, result>>}
                                                         ELSE @[w]],
                 !.waitees = [w \in Goals |-> IF w \in cut THEN {} ELSE @[w] \ {g}],
                 !.topGoals = IF g \in @ /\ fatal THEN {} ELSE @ \ {g}]
    IN IF result \in ExitCodes THEN Gone(WakeUp(s1, last \cup cut), {g})
                               ELSE [s EXCEPT !.stop = "amDone"]

\* Goal g finishes: the waiters that waited for nobody else wake up, and after
\* a failure without keep-going so do the others, who stop waiting.  removeGoal
\* takes g out of topGoals and, after such a failure, all others too.  An exit
\* code that is not one fails the assertion of amDone.
AmDone(s, g, result) ==
    LET W == s.waiters[g]
        last == {w \in W : s.waitees[w] \subseteq {g}}
        fatal == result = "failed" /\ ~s.keepGoing
        cut == IF fatal THEN W \ last ELSE {}
        s1 == [s EXCEPT
                 !.results = [w \in Goals |-> IF w \in W THEN @[w] \cup {<<g, result>>}
                                                         ELSE @[w]],
                 !.waiters = [h \in Goals |-> {w \in @[h] : w \notin cut}],
                 !.waitees = [w \in Goals |-> IF w \in cut THEN {} ELSE @[w] \ {g}],
                 !.topGoals = IF g \in @ /\ fatal THEN {} ELSE @ \ {g}]
    IN IF result \in ExitCodes THEN Gone(WakeUp(s1, last \cup cut), {g})
                               ELSE [s EXCEPT !.stop = "amDone"]

-----------------------------------------------------------------------------
(* Children and slots *)

ChildStarted(s, g, inBuildSlot, point) ==
    [s EXCEPT
        !.at[g] = point,
        !.children = @ \cup {g},
        !.slots = IF inBuildSlot THEN @ \cup {g} ELSE @,
        !.nrLocalBuilds = IF inBuildSlot /\ Kind[g] = "building" THEN @ + 1 ELSE @,
        !.nrSubstitutions = IF inBuildSlot /\ Kind[g] # "building" THEN @ + 1 ELSE @]

\* Mutant of ChildTerminated: those who want a slot are not woken.
ChildTerminatedQuietly(s, G) ==
    LET C == G \cap s.children
        freed(kinds) == Cardinality({g \in C \cap s.slots : Kind[g] \in kinds})
    IN [s EXCEPT
          !.children = @ \ C,
          !.slots = @ \ C,
          !.nrLocalBuilds = @ - freed({"building"}),
          !.nrSubstitutions = @ - freed({"substitution", "realisation"})]

\* childTerminated for each goal of G that has a child: its slot is free and
\* the goals that want one are woken.
ChildTerminated(s, G) ==
    LET C == G \cap s.children
        freed(kinds) == Cardinality({g \in C \cap s.slots : Kind[g] \in kinds})
        s1 == [s EXCEPT
                 !.children = @ \ C,
                 !.slots = @ \ C,
                 !.nrLocalBuilds = @ - freed({"building"}),
                 !.nrSubstitutions = @ - freed({"substitution", "realisation"}),
                 !.wantingToBuild = {}]
    IN IF C = {} THEN s ELSE WakeUp(s1, s.wantingToBuild)

\* waitForBuildSlot()
WaitForBuildSlot(s, g, point) ==
    LET free == IF Kind[g] = "substitution"
                THEN s.nrSubstitutions < MaxSubstitutionJobs
                ELSE s.nrLocalBuilds < s.maxBuildJobs
    IN IF free THEN Yield(s, g, point)
       ELSE [s EXCEPT !.at[g] = point, !.wantingToBuild = @ \cup {g}]

\* pushChildEvent for the events E of one round of waitForInput: a timeout
\* drops the others, and nothing is added after it.
PushChildEvents(pending, E) ==
    IF "timeout" \in pending \cup E THEN {"timeout"} ELSE pending \cup E

-----------------------------------------------------------------------------
(* Lifetime: the lists of the worker hold goals weakly; the owners of a goal *)
(* are topGoals, the current batch, its waiters and local variables.         *)

Live(s) == {g \in Goals : s.at[g] # "none"}

\* What g owns: the goals it waits for, and those that local variables refer to.
Holds(s, g) ==
    s.waitees[g] \cup (IF s.at[g] \in {"concrete", "inputs"} THEN Needs[g] ELSE {})
WithHeld(s, S) == S \cup (Live(s) \cap UNION {Holds(s, g) : g \in S})

\* The goals that somebody owns.
Owned(s) ==
    LET reach[S \in SUBSET Live(s)] ==
            IF WithHeld(s, S) = S THEN S ELSE reach[WithHeld(s, S)]
    IN reach[Live(s) \cap (s.topGoals \cup s.batch)]

\* Mutant of Destroy: the slot of a child that is killed is not given back.
DestroyLeaksSlot(s) ==
    LET dying == Live(s) \ Owned(s)
        lost == {g \in dying \cap s.children : Kind[g] = "realisation"}
    IN IF dying = {} THEN s
       ELSE [Gone(s, dying) EXCEPT
                !.awake = @ \ dying,
                !.wantingToBuild = @ \ dying,
                !.waitingForAWhile = @ \ dying,
                !.children = @ \ dying,
                !.slots = @ \ dying,
                !.orphans = @ + Cardinality(lost)]

\* Destroy the others.  The destructors of a build and of a path substitution
\* end the child; a DrvOutputSubstitutionGoal has none, so the worker keeps its
\* child and its slot.
Destroy(s) ==
    LET dying == Live(s) \ Owned(s)
        lost == {g \in dying \cap s.children : Kind[g] = "realisation"}
        s1 == ChildTerminated(s, dying \ lost)
    IN IF dying = {} THEN s
       ELSE [Gone(s1, dying) EXCEPT
                !.awake = @ \ dying,
                !.wantingToBuild = @ \ dying,
                !.waitingForAWhile = @ \ dying,
                !.children = @ \ lost,
                !.slots = @ \ lost,
                !.orphans = @ + Cardinality(lost)]
=============================================================================
