---------------------------- MODULE WorkerProofs -----------------------------
(***************************************************************************)
(* The scheduler loses neither goals nor slots, for any graph of goals.    *)
(* The invariant is one of the state between two calls: every goal but the *)
(* one that runs waits for exactly one thing.                              *)
(***************************************************************************)
EXTENDS Worker, FiniteSetTheorems, TLAPS

-----------------------------------------------------------------------------
(* The inductive invariant                                                   *)

Fields ==
    {"at", "waitees", "waiters", "results", "events", "subs", "substituterFailed", "topGoals",
     "awake", "batch", "todo", "wantingToBuild", "waitingForAWhile", "children", "slots", "orphans",
     "nrLocalBuilds", "nrSubstitutions", "tryBuildHook", "valid", "keepGoing", "tryFallback",
     "maxBuildJobs", "stop"}

\* The points where a goal is called next, and where it looks for something.
ReadyPoints == {"new", "local"}
LookPoints == {"run", "try", "user"}
Points == {"none"} \cup AwaitPoints \cup ChildPoints \cup ReadyPoints \cup LookPoints

StateTypes(s) ==
    /\ DOMAIN s = Fields
    /\ s.at \in [Goals -> Points]
    /\ s.waitees \in [Goals -> SUBSET Goals] /\ s.waiters \in [Goals -> SUBSET Goals]
    /\ DOMAIN s.events = Goals
    /\ s.topGoals \subseteq Goals /\ s.awake \subseteq Goals /\ s.batch \subseteq Goals
    /\ s.todo \subseteq s.batch
    /\ s.wantingToBuild \subseteq Goals /\ s.waitingForAWhile \subseteq Goals
    /\ s.children \subseteq Goals /\ s.slots \subseteq s.children
    /\ s.orphans \in Nat /\ s.nrLocalBuilds \in Nat /\ s.nrSubstitutions \in Nat
    /\ s.maxBuildJobs \in Nat /\ s.keepGoing \in BOOLEAN

\* The counters are right.  A query for a realisation has a slot.
Limit == IF MaxSubstitutionJobs = 0 THEN 1 ELSE MaxSubstitutionJobs
Running(s, kinds) == {g \in s.slots : Kind[g] \in kinds}
SlotInv(s) ==
    /\ s.nrLocalBuilds = Cardinality(Running(s, {"building"}))
    /\ s.nrLocalBuilds <= s.maxBuildJobs
    /\ s.nrSubstitutions = s.orphans + Cardinality(Running(s, {"substitution", "realisation"}))
    /\ Cardinality(Running(s, {"substitution"})) <= Limit
    /\ \A g \in s.children : Kind[g] = "realisation" => g \in s.slots

\* Waiters and waitees are inverse to each other, and goals do not wait in a circle.
\* What follows the query for a realisation is known.
LinkInv(s) ==
    /\ \A g, w \in Goals : w \in s.waiters[g] <=> g \in s.waitees[w]
    /\ \A g \in Goals : \A w \in s.waitees[g] : s.at[w] # "none" /\ Depth[w] < Depth[g]
    /\ \A g \in Goals : s.at[g] = "none" => s.waitees[g] = {}
    /\ \A g \in s.topGoals : s.at[g] # "none"
    /\ \A g \in Goals : s.at[g] = "realisation" => Output[g] # None

\* With keep-going, nobody gives up a goal.
KeepInv(s) ==
    s.keepGoing => \A g \in Goals : s.at[g] # "none" => g \in s.topGoals \/ s.waiters[g] # {}

BaseInv(s) == StateTypes(s) /\ SlotInv(s) /\ LinkInv(s) /\ KeepInv(s)

\* The slots that goal g wants are taken.
SlotTaken(s, g) ==
    \/ s.at[g] = "run" /\ (s.orphans # 0 \/ \E h \in s.slots : Kind[h] # "building")
    \/ s.at[g] = "try" /\ (s.maxBuildJobs = 0 \/ \E h \in s.slots : Kind[h] = "building")

\* Goal g is about to be called, or waits for one thing.
Ready(s, g) == g \in s.awake \/ g \in s.todo
Waiting(s, g) == g \in s.wantingToBuild \/ g \in s.waitingForAWhile
PlaceInv(s, g) ==
    /\ ~(g \in s.awake /\ g \in s.todo)
    /\ s.at[g] = "none" => ~Ready(s, g) /\ ~Waiting(s, g) /\ g \notin s.children
    /\ s.at[g] \in AwaitPoints =>
          (Ready(s, g) <=> s.waitees[g] = {}) /\ ~Waiting(s, g) /\ g \notin s.children
    /\ s.at[g] \in ChildPoints =>
          /\ s.waitees[g] = {} /\ ~Waiting(s, g) /\ g \in s.children
          /\ Ready(s, g) => s.events[g] # {}
    /\ s.at[g] \in ReadyPoints =>
          s.waitees[g] = {} /\ Ready(s, g) /\ ~Waiting(s, g) /\ g \notin s.children
    /\ s.at[g] \in LookPoints =>
          /\ s.waitees[g] = {} /\ g \notin s.children
          /\ Ready(s, g) <=> ~Waiting(s, g)
          /\ ~(g \in s.wantingToBuild /\ g \in s.waitingForAWhile)
          /\ g \in s.waitingForAWhile => s.at[g] # "run"
    /\ g \in s.wantingToBuild => SlotTaken(s, g)

\* Between two steps.
SettledInv(s) ==
    BaseInv(s) /\ (s.stop = "no" => \A g \in Goals : PlaceInv(s, g))

\* While g runs.
RunningInv(s, g) ==
    /\ BaseInv(s) /\ s.stop = "no"
    /\ \A h \in Goals \ {g} : PlaceInv(s, h)
    /\ s.at[g] # "none" /\ s.waitees[g] = {} /\ ~Ready(s, g) /\ ~Waiting(s, g) 

WorkerInv ==
    /\ SettledInv(state)
    /\ state.stop = "returned" /\ state.keepGoing =>
          state.awake \cup state.wantingToBuild \cup state.children = {}

-----------------------------------------------------------------------------
(* What the operators of the scheduler change                                *)

\* r is s but for the fields C.
Frame(s, r, C) == DOMAIN r = Fields /\ \A f \in Fields \ C : r[f] = s[f]

\* Worker::wakeUp adds to awake.
LEMMA WakeUpFrame ==
    ASSUME NEW s, DOMAIN s = Fields, NEW G, NEW r, r = WakeUp(s, G)
    PROVE  Frame(s, r, {"awake"}) /\ r.awake = s.awake \cup G
BY DEF WakeUp, Frame, Fields

\* initGoalIfNeeded makes the goals that do not exist, and wakes them.
LEMMA MakeGoalsFrame ==
    ASSUME NEW s, DOMAIN s = Fields, NEW G, NEW r, r = MakeGoals(s, G)
    PROVE  /\ Frame(s, r, {"at", "awake"})
           /\ r.awake = s.awake \cup {h \in G : s.at[h] = "none"}
           /\ r.at = [h \in Goals |-> IF h \in G /\ s.at[h] = "none" THEN "new" ELSE s.at[h]]
<1>. DEFINE N == {h \in G : s.at[h] = "none"}
            s1 == WakeUp(s, N)
<1>1. Frame(s, s1, {"awake"}) /\ s1.awake = s.awake \cup N  BY WakeUpFrame
<1>2. r = [s1 EXCEPT !.at = [h \in Goals |-> IF h \in N THEN "new" ELSE @[h]]]  BY DEF MakeGoals
<1>. HIDE DEF s1
<1>3. s1.at = s.at  BY <1>1 DEF Frame, Fields
<1>. QED  BY <1>1, <1>2, <1>3 DEF Frame, Fields

\* Goal::await links g and the goals G.
LEMMA AwaitFrame ==
    ASSUME NEW s, StateTypes(s), NEW g \in Goals, NEW G, NEW point, NEW r,
           r = Await(s, g, G, point)
    PROVE  /\ Frame(s, r, {"at", "awake", "waitees", "waiters"})
           /\ r.awake = s.awake \cup {h \in G : s.at[h] = "none"}
           /\ r.at = [h \in Goals |-> IF h = g THEN point
                                      ELSE IF h \in G /\ s.at[h] = "none" THEN "new" ELSE s.at[h]]
           /\ r.waitees = [h \in Goals |-> IF h = g THEN G ELSE s.waitees[h]]
           /\ r.waiters = [h \in Goals |-> IF h \in G THEN s.waiters[h] \cup {g} ELSE s.waiters[h]]
<1>. DEFINE s1 == MakeGoals(s, G)
<1>0. DOMAIN s = Fields /\ DOMAIN s.waitees = Goals /\ DOMAIN s.waiters = Goals  BY DEF StateTypes
<1>1. /\ Frame(s, s1, {"at", "awake"})
      /\ s1.awake = s.awake \cup {h \in G : s.at[h] = "none"}
      /\ s1.at = [h \in Goals |-> IF h \in G /\ s.at[h] = "none" THEN "new" ELSE s.at[h]]
  BY <1>0, MakeGoalsFrame
<1>2. r = [s1 EXCEPT !.at[g] = point, !.waitees[g] = G,
                     !.waiters = [w \in Goals |-> IF w \in G THEN @[w] \cup {g} ELSE @[w]]]
  BY DEF Await
<1>. HIDE DEF s1
<1>3. s1.waitees = s.waitees /\ s1.waiters = s.waiters /\ DOMAIN s1 = Fields
  BY <1>1 DEF Frame, Fields
<1>4. DOMAIN r = Fields /\ \A f \in Fields \ {"at", "waitees", "waiters"} : r[f] = s1[f]
  BY <1>2, <1>3 DEF Fields
<1>5. /\ r.at = [s1.at EXCEPT ![g] = point]
      /\ r.waitees = [s.waitees EXCEPT ![g] = G]
      /\ r.waiters = [h \in Goals |-> IF h \in G THEN s.waiters[h] \cup {g} ELSE s.waiters[h]]
  BY <1>2, <1>3 DEF Fields
<1>6. Frame(s, r, {"at", "awake", "waitees", "waiters"}) /\ r.awake = s1.awake
  BY <1>1, <1>4 DEF Frame, Fields
<1>. QED  BY <1>0, <1>1, <1>5, <1>6

\* yield: g is woken.
LEMMA YieldFrame ==
    ASSUME NEW s, StateTypes(s), NEW g \in Goals, NEW point, NEW r, r = Yield(s, g, point)
    PROVE  /\ Frame(s, r, {"at", "awake"})
           /\ r.awake = s.awake \cup {g}
           /\ r.at = [s.at EXCEPT ![g] = point]
<1>. DEFINE s1 == WakeUp(s, {g})
<1>1. Frame(s, s1, {"awake"}) /\ s1.awake = s.awake \cup {g}  BY WakeUpFrame DEF StateTypes
<1>2. r = [s1 EXCEPT !.at[g] = point]  BY DEF Yield
<1>. HIDE DEF s1
<1>3. s1.at = s.at  BY <1>1 DEF Frame, Fields
<1>. QED  BY <1>1, <1>2, <1>3 DEF Frame, Fields

\* waitForAWhile: g sleeps.
LEMMA WaitForAWhileFrame ==
    ASSUME NEW s, StateTypes(s), NEW g \in Goals, NEW point, NEW r, r = WaitForAWhile(s, g, point)
    PROVE  /\ Frame(s, r, {"at", "waitingForAWhile"})
           /\ r.waitingForAWhile = s.waitingForAWhile \cup {g}
           /\ r.at = [s.at EXCEPT ![g] = point]
BY DEF WaitForAWhile, Frame, Fields, StateTypes

\* The goals G are no more.
LEMMA GoneFrame ==
    ASSUME NEW s, DOMAIN s = Fields, NEW G, NEW r, r = Gone(s, G)
    PROVE  /\ Frame(s, r, {"at", "waitees", "waiters", "results", "events", "subs",
                           "substituterFailed"})
           /\ r.at = [h \in Goals |-> IF h \in G THEN "none" ELSE s.at[h]]
           /\ r.waitees = [h \in Goals |-> IF h \in G THEN {} ELSE s.waitees[h]]
           /\ r.waiters = [h \in Goals |-> IF h \in G THEN {} ELSE s.waiters[h] \ G]
           /\ r.events = [h \in Goals |-> IF h \in G THEN {} ELSE s.events[h]]
BY DEF Gone, Frame, Fields

\* childStarted: g has a child, perhaps in a slot.
LEMMA ChildStartedFrame ==
    ASSUME NEW s, StateTypes(s), NEW g \in Goals, NEW inBuildSlot, NEW point, NEW r,
           r = ChildStarted(s, g, inBuildSlot, point)
    PROVE  /\ Frame(s, r, {"at", "children", "slots", "nrLocalBuilds", "nrSubstitutions"})
           /\ r.at = [s.at EXCEPT ![g] = point]
           /\ r.children = s.children \cup {g}
           /\ r.slots = IF inBuildSlot THEN s.slots \cup {g} ELSE s.slots
           /\ r.nrLocalBuilds = IF inBuildSlot /\ Kind[g] = "building"
                                THEN s.nrLocalBuilds + 1 ELSE s.nrLocalBuilds
           /\ r.nrSubstitutions = IF inBuildSlot /\ Kind[g] # "building"
                                  THEN s.nrSubstitutions + 1 ELSE s.nrSubstitutions
BY DEF ChildStarted, Frame, Fields, StateTypes

\* The children that childTerminated ends, and how many slots of a kind it frees.
Ended(s, G) == G \cap s.children
Freed(s, G, kinds) == {h \in Ended(s, G) \cap s.slots : Kind[h] \in kinds}

\* childTerminated, when there is a child: those who want a slot are woken.
LEMMA ChildTerminatedFrame ==
    ASSUME NEW s, DOMAIN s = Fields, NEW G, Ended(s, G) # {}, NEW r, r = ChildTerminated(s, G)
    PROVE  /\ Frame(s, r, {"children", "slots", "nrLocalBuilds", "nrSubstitutions",
                           "wantingToBuild", "awake"})
           /\ r.children = s.children \ Ended(s, G)
           /\ r.slots = s.slots \ Ended(s, G)
           /\ r.nrLocalBuilds = s.nrLocalBuilds - Cardinality(Freed(s, G, {"building"}))
           /\ r.nrSubstitutions = s.nrSubstitutions
                                  - Cardinality(Freed(s, G, {"substitution", "realisation"}))
           /\ r.wantingToBuild = {}
           /\ r.awake = s.awake \cup s.wantingToBuild
<1>. DEFINE C == G \cap s.children
            freed(kinds) == Cardinality({h \in C \cap s.slots : Kind[h] \in kinds})
            b == freed({"building"})
            n == freed({"substitution", "realisation"})
            s1 == [s EXCEPT
                     !.children = @ \ C,
                     !.slots = @ \ C,
                     !.nrLocalBuilds = @ - b,
                     !.nrSubstitutions = @ - n,
                     !.wantingToBuild = {}]
<1>1. r = WakeUp(s1, s.wantingToBuild) /\ C = Ended(s, G)  BY DEF ChildTerminated, Ended
<1>2. /\ b = Cardinality(Freed(s, G, {"building"}))
      /\ n = Cardinality(Freed(s, G, {"substitution", "realisation"}))
  BY DEF Freed, Ended
<1>. HIDE DEF b, n, C
<1>3. /\ DOMAIN s1 = Fields
      /\ s1.children = s.children \ C /\ s1.slots = s.slots \ C
      /\ s1.nrLocalBuilds = s.nrLocalBuilds - b /\ s1.nrSubstitutions = s.nrSubstitutions - n
      /\ s1.wantingToBuild = {} /\ s1.awake = s.awake
      /\ Frame(s, s1, {"children", "slots", "nrLocalBuilds", "nrSubstitutions", "wantingToBuild"})
  BY DEF Fields, Frame
<1>. HIDE DEF s1
<1>4. Frame(s1, r, {"awake"}) /\ r.awake = s1.awake \cup s.wantingToBuild
  BY <1>1, <1>3, WakeUpFrame
<1>5. \A f \in Fields \ {"awake"} : r[f] = s1[f]  BY <1>4 DEF Frame
<1>. HIDE DEF Freed, Ended
<1>. QED  BY <1>1, <1>2, <1>3, <1>4, <1>5 DEF Frame, Fields

\* childTerminated, when there is none.
LEMMA ChildTerminatedSame ==
    ASSUME NEW s, NEW G, Ended(s, G) = {}
    PROVE  ChildTerminated(s, G) = s
BY DEF ChildTerminated, Ended

\* waitForBuildSlot, when no slot is free.
LEMMA WaitForBuildSlotFrame ==
    ASSUME NEW s, StateTypes(s), NEW g \in Goals, NEW point,
           Kind[g] = "substitution" => s.nrSubstitutions >= MaxSubstitutionJobs,
           Kind[g] # "substitution" => s.nrLocalBuilds >= s.maxBuildJobs,
           NEW r, r = WaitForBuildSlot(s, g, point)
    PROVE  /\ Frame(s, r, {"at", "wantingToBuild"})
           /\ r.wantingToBuild = s.wantingToBuild \cup {g}
           /\ r.at = [s.at EXCEPT ![g] = point]
<1>1. r = [s EXCEPT !.at[g] = point, !.wantingToBuild = @ \cup {g}]
  BY SchedulerAssumption DEF WaitForBuildSlot, StateTypes
<1>. QED  BY <1>1 DEF Frame, Fields, StateTypes

\* The waiters of g that wait for nobody else, and those that give up.
LastFor(s, g) == {w \in s.waiters[g] : s.waitees[w] \subseteq {g}}
Fatal(s, result) == result = "failed" /\ ~s.keepGoing
Cut(s, g, result) == IF Fatal(s, result) THEN s.waiters[g] \ LastFor(s, g) ELSE {}

\* amDone with an exit code.
LEMMA AmDoneFrame ==
    ASSUME NEW s, DOMAIN s = Fields, NEW g, NEW result \in ExitCodes, NEW r,
           r = AmDone(s, g, result)
    PROVE  /\ Frame(s, r, {"at", "waitees", "waiters", "results", "events", "subs",
                           "substituterFailed", "topGoals", "awake"})
           /\ r.at = [h \in Goals |-> IF h = g THEN "none" ELSE s.at[h]]
           /\ r.waitees = [h \in Goals |-> IF h = g \/ h \in Cut(s, g, result) THEN {}
                                           ELSE s.waitees[h] \ {g}]
           /\ r.waiters = [h \in Goals |-> IF h = g THEN {}
                                           ELSE (s.waiters[h] \ Cut(s, g, result)) \ {g}]
           /\ r.events = [h \in Goals |-> IF h = g THEN {} ELSE s.events[h]]
           /\ r.topGoals = IF g \in s.topGoals /\ Fatal(s, result) THEN {} ELSE s.topGoals \ {g}
           /\ r.awake = s.awake \cup (LastFor(s, g) \cup Cut(s, g, result))
<1>. DEFINE W == s.waiters[g]
            L == LastFor(s, g)
            F == Fatal(s, result)
            C == Cut(s, g, result)
            s1 == [s EXCEPT
                     !.results = [w \in Goals |-> IF w \in W THEN @[w] \cup {<<g, result>>}
                                                             ELSE @[w]],
                     !.waiters = [h \in Goals |-> {w \in @[h] : w \notin C}],
                     !.waitees = [w \in Goals |-> IF w \in C THEN {} ELSE @[w] \ {g}],
                     !.topGoals = IF g \in @ /\ F THEN {} ELSE @ \ {g}]
            s2 == WakeUp(s1, L \cup C)
<1>1. r = Gone(s2, {g})  BY DEF AmDone, LastFor, Fatal, Cut
<1>. HIDE DEF L, F, C, W
<1>2. /\ DOMAIN s1 = Fields
      /\ \A f \in Fields \ {"results", "waiters", "waitees", "topGoals"} : s1[f] = s[f]
      /\ s1.waiters = [h \in Goals |-> {w \in s.waiters[h] : w \notin C}]
      /\ s1.waitees = [w \in Goals |-> IF w \in C THEN {} ELSE s.waitees[w] \ {g}]
      /\ s1.topGoals = IF g \in s.topGoals /\ F THEN {} ELSE s.topGoals \ {g}
  BY DEF Fields
<1>. HIDE DEF s1
<1>3. Frame(s1, s2, {"awake"}) /\ s2.awake = s1.awake \cup (L \cup C)  BY <1>2, WakeUpFrame
<1>. HIDE DEF s2
<1>4. /\ DOMAIN s2 = Fields /\ s2.waiters = s1.waiters /\ s2.waitees = s1.waitees
      /\ s2.topGoals = s1.topGoals /\ s2.awake = s.awake \cup (L \cup C)
      /\ s2.at = s.at /\ s2.events = s.events
      /\ \A f \in Fields \ {"results", "waiters", "waitees", "topGoals", "awake"} : s2[f] = s[f]
  BY <1>2, <1>3 DEF Frame, Fields
<1>5. /\ Frame(s2, r, {"at", "waitees", "waiters", "results", "events", "subs",
                       "substituterFailed"})
      /\ r.at = [h \in Goals |-> IF h \in {g} THEN "none" ELSE s2.at[h]]
      /\ r.waitees = [h \in Goals |-> IF h \in {g} THEN {} ELSE s2.waitees[h]]
      /\ r.waiters = [h \in Goals |-> IF h \in {g} THEN {} ELSE s2.waiters[h] \ {g}]
      /\ r.events = [h \in Goals |-> IF h \in {g} THEN {} ELSE s2.events[h]]
  BY <1>1, <1>4, GoneFrame
<1>6. /\ Frame(s, r, {"at", "waitees", "waiters", "results", "events", "subs",
                      "substituterFailed", "topGoals", "awake"})
      /\ r.topGoals = s2.topGoals /\ r.awake = s2.awake
  BY <1>4, <1>5 DEF Frame, Fields
<1>7. r.waitees = [h \in Goals |-> IF h = g \/ h \in C THEN {} ELSE s.waitees[h] \ {g}]
  BY <1>2, <1>4, <1>5
<1>8. r.waiters = [h \in Goals |-> IF h = g THEN {} ELSE (s.waiters[h] \ C) \ {g}]
  <2>1. ASSUME NEW h \in Goals PROVE s2.waiters[h] = s.waiters[h] \ C
    <3>1. s2.waiters[h] = {w \in s.waiters[h] : w \notin C}
      <4>1. s2.waiters = [k \in Goals |-> {w \in s.waiters[k] : w \notin C}]  BY <1>2, <1>4
      <4>. QED  BY <4>1, Zenon
    <3>. QED  BY <3>1
  <2>2. r.waiters = [h \in Goals |-> IF h \in {g} THEN {} ELSE s2.waiters[h] \ {g}]  BY <1>5
  <2>3. ASSUME NEW h \in Goals
        PROVE  (IF h \in {g} THEN {} ELSE s2.waiters[h] \ {g}) =
               (IF h = g THEN {} ELSE (s.waiters[h] \ C) \ {g})
    BY <2>1
  <2>. QED  BY <2>2, <2>3, Zenon
<1>9. r.at = [h \in Goals |-> IF h = g THEN "none" ELSE s.at[h]]
  BY <1>4, <1>5
<1>10. r.events = [h \in Goals |-> IF h = g THEN {} ELSE s.events[h]]
  BY <1>4, <1>5
<1>11. r.topGoals = IF g \in s.topGoals /\ F THEN {} ELSE s.topGoals \ {g}
  BY <1>2, <1>4, <1>6
<1>12. r.awake = s.awake \cup (L \cup C)  BY <1>4, <1>6
<1>. QED  BY <1>6, <1>7, <1>8, <1>9, <1>10, <1>11, <1>12 DEF L, F, C

\* r is s after childTerminated for the goals G.
Terminated(s, G, r) ==
    /\ Frame(s, r, {"children", "slots", "nrLocalBuilds", "nrSubstitutions",
                    "wantingToBuild", "awake"})
    /\ r.children = s.children \ Ended(s, G)
    /\ r.slots = s.slots \ Ended(s, G)
    /\ r.nrLocalBuilds = s.nrLocalBuilds - Cardinality(Freed(s, G, {"building"}))
    /\ r.nrSubstitutions = s.nrSubstitutions
                           - Cardinality(Freed(s, G, {"substitution", "realisation"}))
    /\ r.wantingToBuild = (IF Ended(s, G) = {} THEN s.wantingToBuild ELSE {})
    /\ r.awake = (IF Ended(s, G) = {} THEN s.awake ELSE s.awake \cup s.wantingToBuild)

\* childTerminated, with and without children.
LEMMA ChildTerminatedAny ==
    ASSUME NEW s, StateTypes(s), NEW G, NEW r, r = ChildTerminated(s, G)
    PROVE  Terminated(s, G, r)
<1>1. DOMAIN s = Fields  BY DEF StateTypes
<1>2. CASE Ended(s, G) # {}
  <2>1. /\ Frame(s, r, {"children", "slots", "nrLocalBuilds", "nrSubstitutions",
                        "wantingToBuild", "awake"})
        /\ r.children = s.children \ Ended(s, G)
        /\ r.slots = s.slots \ Ended(s, G)
        /\ r.nrLocalBuilds = s.nrLocalBuilds - Cardinality(Freed(s, G, {"building"}))
        /\ r.nrSubstitutions = s.nrSubstitutions
                               - Cardinality(Freed(s, G, {"substitution", "realisation"}))
        /\ r.wantingToBuild = {}
        /\ r.awake = s.awake \cup s.wantingToBuild
    BY <1>1, <1>2, ChildTerminatedFrame
  <2>. QED  BY <1>2, <2>1, Zenon DEF Terminated
<1>3. CASE Ended(s, G) = {}
  <2>1. r = s  BY <1>3, ChildTerminatedSame
  <2>2. Freed(s, G, {"building"}) = {} /\ Freed(s, G, {"substitution", "realisation"}) = {}
    BY <1>3 DEF Freed
  <2>3. Cardinality({}) = 0  BY FS_EmptySet
  <2>4. s.nrLocalBuilds = s.nrLocalBuilds - 0 /\ s.nrSubstitutions = s.nrSubstitutions - 0
    BY DEF StateTypes
  <2>5. Frame(s, r, {"children", "slots", "nrLocalBuilds", "nrSubstitutions",
                     "wantingToBuild", "awake"})
    BY <1>1, <2>1 DEF Frame
  <2>6. s.children = s.children \ {} /\ s.slots = s.slots \ {}  OBVIOUS
  <2>. QED  BY <1>3, <2>1, <2>2, <2>3, <2>4, <2>5, <2>6, Zenon DEF Terminated
<1>. QED  BY <1>2, <1>3

\* The goals that nobody owns, and the queries among them.
Dying(s) == Live(s) \ Owned(s)
Lost(s) == {g \in Dying(s) \cap s.children : Kind[g] = "realisation"}
Killed(s) == Ended(s, Dying(s) \ Lost(s))

\* r is s after the goals that nobody owns are destroyed.
Destroyed(s, r) ==
    /\ Frame(s, r, {"at", "waitees", "waiters", "results", "events", "subs",
                    "substituterFailed", "awake", "wantingToBuild", "waitingForAWhile",
                    "children", "slots", "orphans", "nrLocalBuilds", "nrSubstitutions"})
    /\ r.at = [h \in Goals |-> IF h \in Dying(s) THEN "none" ELSE s.at[h]]
    /\ r.waitees = [h \in Goals |-> IF h \in Dying(s) THEN {} ELSE s.waitees[h]]
    /\ r.waiters = [h \in Goals |-> IF h \in Dying(s) THEN {} ELSE s.waiters[h] \ Dying(s)]
    /\ r.events = [h \in Goals |-> IF h \in Dying(s) THEN {} ELSE s.events[h]]
    /\ r.children = (s.children \ Killed(s)) \ Lost(s)
    /\ r.slots = (s.slots \ Killed(s)) \ Lost(s)
    /\ r.orphans = s.orphans + Cardinality(Lost(s))
    /\ r.nrLocalBuilds = s.nrLocalBuilds
                         - Cardinality(Freed(s, Dying(s) \ Lost(s), {"building"}))
    /\ r.nrSubstitutions =
          s.nrSubstitutions
          - Cardinality(Freed(s, Dying(s) \ Lost(s), {"substitution", "realisation"}))
    /\ r.wantingToBuild = (IF Killed(s) = {} THEN s.wantingToBuild ELSE {}) \ Dying(s)
    /\ r.awake = (IF Killed(s) = {} THEN s.awake ELSE s.awake \cup s.wantingToBuild)
                 \ Dying(s)
    /\ r.waitingForAWhile = s.waitingForAWhile \ Dying(s)

\* The destructors of goals, when there are goals to destroy.
LEMMA DestroyFrame ==
    ASSUME NEW s, StateTypes(s), Dying(s) # {}, NEW r, r = Destroy(s)
    PROVE  Destroyed(s, r)
<1>. DEFINE D == Dying(s)
            L == Lost(s)
            s1 == ChildTerminated(s, D \ L)
            s2 == Gone(s1, D)
            n == Cardinality(L)
<1>1. r = [s2 EXCEPT
             !.awake = @ \ D, !.wantingToBuild = @ \ D, !.waitingForAWhile = @ \ D,
             !.children = @ \ L, !.slots = @ \ L, !.orphans = @ + n]
  BY DEF Destroy, Dying, Lost
<1>2. /\ Frame(s, s1, {"children", "slots", "nrLocalBuilds", "nrSubstitutions",
                       "wantingToBuild", "awake"})
      /\ s1.children = s.children \ Killed(s)
      /\ s1.slots = s.slots \ Killed(s)
      /\ s1.nrLocalBuilds = s.nrLocalBuilds - Cardinality(Freed(s, D \ L, {"building"}))
      /\ s1.nrSubstitutions = s.nrSubstitutions
                              - Cardinality(Freed(s, D \ L, {"substitution", "realisation"}))
      /\ s1.wantingToBuild = (IF Killed(s) = {} THEN s.wantingToBuild ELSE {})
      /\ s1.awake = (IF Killed(s) = {} THEN s.awake ELSE s.awake \cup s.wantingToBuild)
  <2>1. Terminated(s, D \ L, s1)  BY ChildTerminatedAny
  <2>. QED  BY <2>1, Zenon DEF Terminated, Killed
<1>. HIDE DEF D, L, n, s1
<1>3. DOMAIN s1 = Fields  BY <1>2 DEF Frame
<1>4. /\ Frame(s1, s2, {"at", "waitees", "waiters", "results", "events", "subs",
                        "substituterFailed"})
      /\ s2.at = [h \in Goals |-> IF h \in D THEN "none" ELSE s1.at[h]]
      /\ s2.waitees = [h \in Goals |-> IF h \in D THEN {} ELSE s1.waitees[h]]
      /\ s2.waiters = [h \in Goals |-> IF h \in D THEN {} ELSE s1.waiters[h] \ D]
      /\ s2.events = [h \in Goals |-> IF h \in D THEN {} ELSE s1.events[h]]
  BY <1>3, GoneFrame
<1>. HIDE DEF s2
<1>5. /\ DOMAIN s2 = Fields
      /\ s2.children = s1.children /\ s2.slots = s1.slots /\ s2.awake = s1.awake
      /\ s2.wantingToBuild = s1.wantingToBuild /\ s2.waitingForAWhile = s1.waitingForAWhile
      /\ s2.orphans = s1.orphans /\ s2.nrLocalBuilds = s1.nrLocalBuilds
      /\ s2.nrSubstitutions = s1.nrSubstitutions
  BY <1>4 DEF Frame, Fields
<1>6. /\ s1.at = s.at /\ s1.waitees = s.waitees /\ s1.waiters = s.waiters
      /\ s1.events = s.events /\ s1.waitingForAWhile = s.waitingForAWhile
      /\ s1.orphans = s.orphans
  BY <1>2 DEF Frame, Fields
<1>7. /\ DOMAIN r = Fields
      /\ r.awake = s2.awake \ D /\ r.wantingToBuild = s2.wantingToBuild \ D
      /\ r.waitingForAWhile = s2.waitingForAWhile \ D
      /\ r.children = s2.children \ L /\ r.slots = s2.slots \ L /\ r.orphans = s2.orphans + n
      /\ \A f \in Fields \ {"awake", "wantingToBuild", "waitingForAWhile", "children", "slots",
                            "orphans"} : r[f] = s2[f]
  BY <1>1, <1>5, ZenonT(80) DEF Fields
<1>8. /\ r.at = s2.at /\ r.waitees = s2.waitees /\ r.waiters = s2.waiters
      /\ r.events = s2.events /\ r.nrLocalBuilds = s2.nrLocalBuilds
      /\ r.nrSubstitutions = s2.nrSubstitutions
  BY <1>7 DEF Fields
<1>9. \A f \in Fields \ {"at", "waitees", "waiters", "results", "events", "subs",
                         "substituterFailed", "awake", "wantingToBuild", "waitingForAWhile",
                         "children", "slots", "orphans", "nrLocalBuilds", "nrSubstitutions"} :
         r[f] = s[f]
  <2>1. \A f \in Fields \ {"children", "slots", "nrLocalBuilds", "nrSubstitutions",
                           "wantingToBuild", "awake"} : s1[f] = s[f]
    BY <1>2 DEF Frame
  <2>2. \A f \in Fields \ {"at", "waitees", "waiters", "results", "events", "subs",
                           "substituterFailed"} : s2[f] = s1[f]
    BY <1>4 DEF Frame
  <2>. QED  BY <1>7, <2>1, <2>2 DEF Fields
<1>10. Frame(s, r, {"at", "waitees", "waiters", "results", "events", "subs",
                    "substituterFailed", "awake", "wantingToBuild", "waitingForAWhile",
                    "children", "slots", "orphans", "nrLocalBuilds", "nrSubstitutions"})
  BY <1>7, <1>9 DEF Frame
<1>11. /\ r.at = [h \in Goals |-> IF h \in D THEN "none" ELSE s.at[h]]
       /\ r.waitees = [h \in Goals |-> IF h \in D THEN {} ELSE s.waitees[h]]
       /\ r.waiters = [h \in Goals |-> IF h \in D THEN {} ELSE s.waiters[h] \ D]
       /\ r.events = [h \in Goals |-> IF h \in D THEN {} ELSE s.events[h]]
  BY <1>4, <1>6, <1>8, Zenon
<1>12. /\ r.children = (s.children \ Killed(s)) \ L
       /\ r.slots = (s.slots \ Killed(s)) \ L
       /\ r.orphans = s.orphans + n
       /\ r.nrLocalBuilds = s.nrLocalBuilds - Cardinality(Freed(s, D \ L, {"building"}))
       /\ r.nrSubstitutions = s.nrSubstitutions
                              - Cardinality(Freed(s, D \ L, {"substitution", "realisation"}))
  <2>1. r.children = (s.children \ Killed(s)) \ L  BY <1>2, <1>5, <1>7, Zenon
  <2>2. r.slots = (s.slots \ Killed(s)) \ L  BY <1>2, <1>5, <1>7, Zenon
  <2>3. r.orphans = s.orphans + n  BY <1>5, <1>6, <1>7, Zenon
  <2>4. r.nrLocalBuilds = s.nrLocalBuilds - Cardinality(Freed(s, D \ L, {"building"}))
    BY <1>2, <1>5, <1>8, Zenon
  <2>5. r.nrSubstitutions = s.nrSubstitutions
                            - Cardinality(Freed(s, D \ L, {"substitution", "realisation"}))
    BY <1>2, <1>5, <1>8, Zenon
  <2>. QED  BY <2>1, <2>2, <2>3, <2>4, <2>5, Zenon
<1>13. r.wantingToBuild = (IF Killed(s) = {} THEN s.wantingToBuild ELSE {}) \ D
  <2>. DEFINE E == IF Killed(s) = {} THEN s.wantingToBuild ELSE {}
  <2>1. s1.wantingToBuild = E  BY <1>2
  <2>. HIDE DEF E
  <2>2. r.wantingToBuild = E \ D  BY <1>5, <1>7, <2>1, Zenon
  <2>. QED  BY <2>2 DEF E
<1>14. r.awake = (IF Killed(s) = {} THEN s.awake ELSE s.awake \cup s.wantingToBuild) \ D
  <2>. DEFINE E == IF Killed(s) = {} THEN s.awake ELSE s.awake \cup s.wantingToBuild
  <2>1. s1.awake = E  BY <1>2
  <2>. HIDE DEF E
  <2>2. r.awake = E \ D  BY <1>5, <1>7, <2>1, Zenon
  <2>. QED  BY <2>2 DEF E
<1>15. r.waitingForAWhile = s.waitingForAWhile \ D  BY <1>5, <1>6, <1>7, Zenon
<1>. QED  BY <1>10, <1>11, <1>12, <1>13, <1>14, <1>15, Zenon DEF D, L, n, Destroyed

\* Nothing happens when all goals have owners.
LEMMA DestroySame ==
    ASSUME NEW s, Dying(s) = {}
    PROVE  Destroy(s) = s
BY DEF Destroy, Dying

-----------------------------------------------------------------------------
(* Who owns a goal                                                           *)

\* A family of subsets of a finite set has a minimal one.
LEMMA SmallestSet ==
    ASSUME NEW U, IsFiniteSet(U), NEW X, X \subseteq SUBSET U, X # {}
    PROVE  \E S \in X : \A T \in X : T \subseteq S => T = S
<1>1. \A T \in SUBSET U : IsFiniteSet(T)  BY FS_Subset
<1>2. X \subseteq FiniteSubsetsOf(U)  BY <1>1 DEF FiniteSubsetsOf
<1>3. IsWellFoundedOn(StrictSubsetOrdering(U), FiniteSubsetsOf(U))  BY FS_StrictSubsetOrderingWellFounded
<1>4. \E S \in X : \A T \in X : ~(<<T, S>> \in StrictSubsetOrdering(U))
  BY <1>2, <1>3, WFMin, Zenon
<1>5. \A S, T \in X : T \subseteq S /\ T # S => <<T, S>> \in StrictSubsetOrdering(U)
  BY DEF StrictSubsetOrdering
<1>. QED  BY <1>4, <1>5

\* The recursion of Owned has a solution: the least closed set.
LEMMA ReachExists ==
    ASSUME NEW s
    PROVE  \E f : f = [S \in SUBSET Live(s) |-> IF WithHeld(s, S) = S THEN S ELSE f[WithHeld(s, S)]]
<1>. DEFINE Closed(C) == WithHeld(s, C) = C
            L(S) == {g \in Live(s) : \A C \in SUBSET Live(s) : S \subseteq C /\ Closed(C) => g \in C}
            f == [S \in SUBSET Live(s) |-> L(S)]
<1>1. ASSUME NEW S \in SUBSET Live(s) PROVE f[S] = IF WithHeld(s, S) = S THEN S ELSE f[WithHeld(s, S)]
  <2>1. WithHeld(s, S) \in SUBSET Live(s)  BY DEF WithHeld
  <2>2. f[S] = L(S) /\ f[WithHeld(s, S)] = L(WithHeld(s, S))  BY <2>1
  <2>3. CASE WithHeld(s, S) = S
    <3>1. L(S) \subseteq S  BY <2>3
    <3>2. S \subseteq L(S)  OBVIOUS
    <3>. QED  BY <2>2, <2>3, <3>1, <3>2
  <2>4. CASE WithHeld(s, S) # S
    <3>1. ASSUME NEW C \in SUBSET Live(s), Closed(C)
          PROVE  S \subseteq C <=> WithHeld(s, S) \subseteq C
      <4>1. S \subseteq WithHeld(s, S)  BY DEF WithHeld
      <4>2. ASSUME S \subseteq C PROVE WithHeld(s, S) \subseteq WithHeld(s, C)
        BY <4>2 DEF WithHeld
      <4>. QED  BY <3>1, <4>1, <4>2
    <3>2. L(S) = L(WithHeld(s, S))  BY <3>1
    <3>. QED  BY <2>2, <2>4, <3>2
  <2>. QED  BY <2>3, <2>4
<1>. HIDE DEF L, Closed
<1>2. f = [S \in SUBSET Live(s) |-> IF WithHeld(s, S) = S THEN S ELSE f[WithHeld(s, S)]]
  <2>1. f = [S \in SUBSET Live(s) |-> f[S]]  OBVIOUS
  <2>. HIDE DEF f
  <2>. QED  BY <1>1, <2>1
<1>. HIDE DEF f
<1>. QED  BY <1>2

\* topGoals and the batch own their goals, and an owned goal owns what it holds.
LEMMA OwnedFacts ==
    ASSUME NEW s
    PROVE  /\ Owned(s) \subseteq Live(s)
           /\ Live(s) \cap (s.topGoals \cup s.batch) \subseteq Owned(s)
           /\ \A g \in Owned(s) : Holds(s, g) \cap Live(s) \subseteq Owned(s)
<1>0. IsFiniteSet(Live(s))
  <2>1. Live(s) \subseteq Goals  BY DEF Live
  <2>. QED  BY <2>1, SchedulerAssumption, FS_Subset
<1>. DEFINE r == CHOOSE f : f = [S \in SUBSET Live(s) |-> IF WithHeld(s, S) = S THEN S ELSE f[WithHeld(s, S)]]
<1>1. Owned(s) = r[Live(s) \cap (s.topGoals \cup s.batch)]
  BY DEF Owned
<1>2. r = [S \in SUBSET Live(s) |-> IF WithHeld(s, S) = S THEN S ELSE r[WithHeld(s, S)]]
  BY ReachExists
<1>. HIDE DEF r
<1>3. \A S \in SUBSET Live(s) : r[S] = IF WithHeld(s, S) = S THEN S ELSE r[WithHeld(s, S)]
  BY <1>2
<1>. DEFINE Good(S) == r[S] \in SUBSET Live(s) /\ S \subseteq r[S] /\ WithHeld(s, r[S]) = r[S]
            X == {Live(s) \ S : S \in {T \in SUBSET Live(s) : ~Good(T)}}
<1>4. X = {}
  <2>. SUFFICES ASSUME X # {} PROVE FALSE  OBVIOUS
  <2>1. X \subseteq SUBSET Live(s)  OBVIOUS
  <2>2. PICK D \in X : \A E \in X : E \subseteq D => E = D  
     <3>. HIDE DEF X
     <3>. QED BY <1>0, <2>1, SmallestSet
  <2>3. PICK S \in SUBSET Live(s) : ~Good(S) /\ D = Live(s) \ S  OBVIOUS
  <2>. HIDE DEF X
  <2>4. WithHeld(s, S) \in SUBSET Live(s) /\ S \subseteq WithHeld(s, S)  BY DEF WithHeld
  <2>5. CASE WithHeld(s, S) = S  BY <1>3, <2>3, <2>5
  <2>6. CASE WithHeld(s, S) # S
    <3>1. Live(s) \ WithHeld(s, S) \subseteq D /\ Live(s) \ WithHeld(s, S) # D
      BY <2>3, <2>4, <2>6
    <3>2. Good(WithHeld(s, S))  BY <2>2, <2>4, <3>1 DEF X
    <3>. QED  BY <1>3, <2>3, <2>4, <2>6, <3>2
  <2>. QED  BY <2>5, <2>6
<1>5. Good(Live(s) \cap (s.topGoals \cup s.batch))  BY <1>4
<1>6. \A g \in r[Live(s) \cap (s.topGoals \cup s.batch)] : Holds(s, g) \cap Live(s) \subseteq WithHeld(s, r[Live(s) \cap (s.topGoals \cup s.batch)])
  BY DEF WithHeld
<1>. QED  BY <1>1, <1>5, <1>6

\* Among finitely many goals one is the least deep, and one the deepest.
LEMMA LeastDeep ==
    ASSUME NEW D, D \subseteq Goals, D # {}
    PROVE  \E g \in D : \A h \in D : ~(Depth[h] < Depth[g])
<1>. DEFINE U(g) == {h \in Goals : Depth[h] < Depth[g]}
            X == {U(g) : g \in D}
<1>1. X \subseteq SUBSET Goals /\ X # {}  OBVIOUS
<1>2. PICK S \in X : \A T \in X : T \subseteq S => T = S
  <2>. HIDE DEF X
  <2>. QED  BY <1>1, SchedulerAssumption, SmallestSet
<1>3. PICK g \in D : S = U(g)  OBVIOUS
<1>4. ASSUME NEW h \in D, Depth[h] < Depth[g] PROVE FALSE
  <2>1. U(h) \subseteq U(g) /\ h \in U(g) /\ h \notin U(h)  BY <1>4, WorkerAssumption
  <2>. QED  BY <1>2, <1>3, <2>1
<1>. QED  BY <1>4

\* The other end.
LEMMA Deepest ==
    ASSUME NEW D, D \subseteq Goals, D # {}
    PROVE  \E g \in D : \A h \in D : ~(Depth[g] < Depth[h])
<1>. DEFINE U(g) == {h \in Goals : Depth[g] < Depth[h]}
            X == {U(g) : g \in D}
<1>1. X \subseteq SUBSET Goals /\ X # {}  OBVIOUS
<1>2. PICK S \in X : \A T \in X : T \subseteq S => T = S
  <2>. HIDE DEF X
  <2>. QED  BY <1>1, SchedulerAssumption, SmallestSet
<1>3. PICK g \in D : S = U(g)  OBVIOUS
<1>4. ASSUME NEW h \in D, Depth[g] < Depth[h] PROVE FALSE
  <2>1. U(h) \subseteq U(g) /\ h \in U(g) /\ h \notin U(h)  BY <1>4, WorkerAssumption
  <2>. QED  BY <1>2, <1>3, <2>1
<1>. QED  BY <1>4

-----------------------------------------------------------------------------
(* The goal that runs                                                        *)

\* r is s but for fields of which the invariant says nothing.
Alike(s, r) == Frame(s, r, {"results", "subs", "substituterFailed", "tryBuildHook", "valid",
                            "tryFallback"})

\* The fields of which it speaks.
SameFields(s, r) ==
    /\ DOMAIN r = DOMAIN s
    /\ r.at = s.at /\ r.waitees = s.waitees /\ r.waiters = s.waiters /\ r.events = s.events
    /\ r.topGoals = s.topGoals /\ r.awake = s.awake /\ r.batch = s.batch /\ r.todo = s.todo
    /\ r.wantingToBuild = s.wantingToBuild /\ r.waitingForAWhile = s.waitingForAWhile
    /\ r.children = s.children /\ r.slots = s.slots /\ r.orphans = s.orphans
    /\ r.nrLocalBuilds = s.nrLocalBuilds /\ r.nrSubstitutions = s.nrSubstitutions
    /\ r.maxBuildJobs = s.maxBuildJobs /\ r.keepGoing = s.keepGoing /\ r.stop = s.stop

\* A change of the other fields does not disturb the invariant.
LEMMA AlikeRunning ==
    ASSUME NEW s, NEW r, NEW g, RunningInv(s, g), Alike(s, r)
    PROVE  RunningInv(r, g) /\ r.children = s.children
<1>1. DOMAIN s = Fields  BY DEF RunningInv, BaseInv, StateTypes
<1>2. SameFields(s, r)  BY <1>1 DEF Alike, Frame, Fields, SameFields
<1>3. StateTypes(r)  BY <1>2 DEF RunningInv, BaseInv, StateTypes, SameFields
<1>4. SlotInv(r)
  <2>1. \A kinds : Running(r, kinds) = Running(s, kinds)  BY <1>2 DEF SameFields, Running
  <2>. QED  BY <1>2, <2>1 DEF RunningInv, BaseInv, SlotInv, SameFields
<1>5. LinkInv(r)  BY <1>2 DEF RunningInv, BaseInv, LinkInv, SameFields
<1>6. KeepInv(r)  BY <1>2 DEF RunningInv, BaseInv, KeepInv, SameFields
<1>7. ASSUME NEW h \in Goals \ {g} PROVE PlaceInv(r, h)
  <2>1. PlaceInv(s, h)  BY <1>7 DEF RunningInv
  <2>. QED  BY <1>2, <2>1 DEF PlaceInv, SameFields, Ready, Waiting, SlotTaken
<1>. QED
  BY <1>2, <1>3, <1>4, <1>5, <1>6, <1>7 DEF RunningInv, BaseInv, SameFields, Ready, Waiting

\* The links depend on four fields.
LEMMA SameLinks ==
    ASSUME NEW s, LinkInv(s), NEW r,
           r.at = s.at, r.waitees = s.waitees, r.waiters = s.waiters, r.topGoals = s.topGoals
    PROVE  LinkInv(r)
BY DEF LinkInv

\* A goal that is called waits for nothing any more.
LEMMA Resumed ==
    ASSUME NEW s, SettledInv(s), s.stop = "no", NEW g \in s.todo,
           NEW r, r = [s EXCEPT !.todo = @ \ {g}]
    PROVE  /\ g \in Goals /\ RunningInv(r, g)
           /\ g \in r.children <=> s.at[g] \in ChildPoints
           /\ Frame(s, r, {"todo"})
<1>. USE DEF SettledInv
<1>0. g \in Goals  BY DEF BaseInv, StateTypes
<1>1. DOMAIN s = Fields  BY DEF BaseInv, StateTypes
<1>2. Frame(s, r, {"todo"}) /\ r.todo = s.todo \ {g}  BY <1>1 DEF Frame, Fields
<1>4. /\ r.at = s.at /\ r.waitees = s.waitees /\ r.waiters = s.waiters /\ r.events = s.events
      /\ r.topGoals = s.topGoals /\ r.awake = s.awake /\ r.batch = s.batch
      /\ r.wantingToBuild = s.wantingToBuild /\ r.waitingForAWhile = s.waitingForAWhile
      /\ r.children = s.children /\ r.slots = s.slots /\ r.orphans = s.orphans
      /\ r.nrLocalBuilds = s.nrLocalBuilds /\ r.nrSubstitutions = s.nrSubstitutions
      /\ r.maxBuildJobs = s.maxBuildJobs /\ r.keepGoing = s.keepGoing /\ r.stop = s.stop
      /\ DOMAIN r = Fields
  BY <1>2 DEF Frame, Fields
<1>5. StateTypes(r)  BY <1>2, <1>4 DEF BaseInv, StateTypes
<1>6. SlotInv(r)
  <2>1. \A kinds : Running(r, kinds) = Running(s, kinds)  BY <1>4 DEF Running
  <2>. QED  BY <1>4, <2>1 DEF BaseInv, SlotInv
<1>7. LinkInv(r) /\ KeepInv(r)  BY <1>4 DEF BaseInv, LinkInv, KeepInv
<1>8. ASSUME NEW h \in Goals \ {g} PROVE PlaceInv(r, h)
  <2>1. PlaceInv(s, h) /\ (h \in r.todo <=> h \in s.todo)  BY <1>2
  <2>. QED  BY <1>4, <2>1 DEF PlaceInv, Ready, Waiting, SlotTaken
<1>9. /\ r.at[g] # "none" /\ r.waitees[g] = {} /\ ~Ready(r, g) /\ ~Waiting(r, g)
      /\ g \in r.children <=> s.at[g] \in ChildPoints
  <2>1. PlaceInv(s, g) /\ Ready(s, g) /\ g \notin r.todo  BY <1>0, <1>2 DEF Ready
  <2>2. s.at[g] \in Points  BY <1>0 DEF BaseInv, StateTypes
  <2>. QED
    BY <1>4, <2>1, <2>2
    DEF PlaceInv, Ready, Waiting, Points, AwaitPoints, ChildPoints, ReadyPoints, LookPoints
<1>. QED  BY <1>0, <1>2, <1>4, <1>5, <1>6, <1>7, <1>8, <1>9 DEF RunningInv, BaseInv

-----------------------------------------------------------------------------
(* The goal waits again                                                      *)

\* A goal has waited or finished, and run goes on or fails.
Parked(s) == SettledInv(s) /\ s.stop # "returned"

\* r is s with goal g, which exists, at another point; lists of goals may change.
Moved(s, r, g, point) ==
    /\ Frame(s, r, {"at", "awake", "wantingToBuild", "waitingForAWhile", "events"})
    /\ point \in Points \ {"none", "realisation"}
    /\ r.at = [s.at EXCEPT ![g] = point]
    /\ DOMAIN r.events = Goals
    /\ r.awake \subseteq Goals /\ r.wantingToBuild \subseteq Goals
    /\ r.waitingForAWhile \subseteq Goals

\* What Moved leaves alone.
LEMMA MovedFields ==
    ASSUME NEW s, NEW r, NEW g, NEW point, Moved(s, r, g, point)
    PROVE  /\ DOMAIN r = Fields
           /\ r.waitees = s.waitees /\ r.waiters = s.waiters
           /\ r.topGoals = s.topGoals /\ r.batch = s.batch /\ r.todo = s.todo
           /\ r.children = s.children /\ r.slots = s.slots /\ r.orphans = s.orphans
           /\ r.nrLocalBuilds = s.nrLocalBuilds /\ r.nrSubstitutions = s.nrSubstitutions
           /\ r.maxBuildJobs = s.maxBuildJobs /\ r.keepGoing = s.keepGoing /\ r.stop = s.stop
BY DEF Moved, Frame, Fields

\* Links, counters and types do not depend on where a goal waits.
LEMMA MovedBase ==
    ASSUME NEW s, BaseInv(s), NEW r, NEW g \in Goals, s.at[g] # "none",
           NEW point, Moved(s, r, g, point)
    PROVE  BaseInv(r)
<1>1. /\ DOMAIN r = Fields
      /\ r.waitees = s.waitees /\ r.waiters = s.waiters
      /\ r.topGoals = s.topGoals /\ r.batch = s.batch /\ r.todo = s.todo
      /\ r.children = s.children /\ r.slots = s.slots /\ r.orphans = s.orphans
      /\ r.nrLocalBuilds = s.nrLocalBuilds /\ r.nrSubstitutions = s.nrSubstitutions
      /\ r.maxBuildJobs = s.maxBuildJobs /\ r.keepGoing = s.keepGoing
  BY MovedFields
<1>2. StateTypes(r)  BY <1>1 DEF BaseInv, StateTypes, Moved
<1>3. SlotInv(r)
  <2>1. \A kinds : Running(r, kinds) = Running(s, kinds)  BY <1>1 DEF Running
  <2>. QED  BY <1>1, <2>1 DEF BaseInv, SlotInv
<1>4. \A h \in Goals : /\ r.at[h] = "none" <=> s.at[h] = "none"
                       /\ r.at[h] = "realisation" => s.at[h] = "realisation"
  BY DEF BaseInv, StateTypes, Moved
<1>5. LinkInv(r) /\ KeepInv(r)
  BY <1>1, <1>4 DEF BaseInv, StateTypes, LinkInv, KeepInv
<1>. QED  BY <1>2, <1>3, <1>5 DEF BaseInv

\* The other goals wait as before.
LEMMA MovedOthers ==
    ASSUME NEW s, NEW g \in Goals, RunningInv(s, g), NEW r, NEW point, Moved(s, r, g, point),
           NEW h \in Goals, h # g,
           h \in r.awake <=> h \in s.awake, h \in r.wantingToBuild <=> h \in s.wantingToBuild,
           h \in r.waitingForAWhile <=> h \in s.waitingForAWhile,
           r.events[h] = s.events[h]
    PROVE  PlaceInv(r, h)
<1>1. PlaceInv(s, h)  BY DEF RunningInv
<1>2. r.at[h] = s.at[h]  BY DEF Moved, RunningInv, BaseInv, StateTypes
<1>3. /\ r.waitees = s.waitees /\ r.todo = s.todo /\ r.children = s.children
      /\ r.slots = s.slots /\ r.orphans = s.orphans /\ r.maxBuildJobs = s.maxBuildJobs
  BY MovedFields
<1>. QED  BY <1>1, <1>2, <1>3 DEF PlaceInv, Ready, Waiting, SlotTaken

\* yield parks a goal.
LEMMA YieldParks ==
    ASSUME NEW s, NEW g \in Goals, RunningInv(s, g), g \notin s.children,
           NEW point \in ReadyPoints \cup LookPoints
    PROVE  Parked(Yield(s, g, point))
<1>. SUFFICES ASSUME NEW r, r = Yield(s, g, point) PROVE Parked(r)  OBVIOUS
<1>0. StateTypes(s) /\ BaseInv(s) /\ s.at[g] # "none"  BY DEF RunningInv, BaseInv
<1>1. /\ Frame(s, r, {"at", "awake"})
      /\ r.awake = s.awake \cup {g}
      /\ r.at = [s.at EXCEPT ![g] = point]
  BY <1>0, YieldFrame
<1>2. /\ r.wantingToBuild = s.wantingToBuild /\ r.waitingForAWhile = s.waitingForAWhile
      /\ r.events = s.events
  BY <1>1 DEF Frame, Fields
<1>3. Moved(s, r, g, point)
  <2>1. point \in Points \ {"none", "realisation"}  BY DEF Points, ReadyPoints, LookPoints
  <2>2. Frame(s, r, {"at", "awake", "wantingToBuild", "waitingForAWhile", "events"})
    BY <1>1 DEF Frame
  <2>. QED  BY <1>0, <1>1, <1>2, <2>1, <2>2 DEF Moved, StateTypes
<1>4. BaseInv(r)  BY <1>0, <1>3, MovedBase
<1>5. \A h \in Goals : h # g => PlaceInv(r, h)
  BY <1>1, <1>2, <1>3, MovedOthers
<1>6. PlaceInv(r, g)
  <2>1. /\ r.waitees = s.waitees /\ r.todo = s.todo /\ r.children = s.children
    BY <1>3, MovedFields
  <2>2. r.at[g] = point  BY <1>0, <1>1 DEF StateTypes
  <2>. QED
    BY <1>1, <1>2, <2>1, <2>2
    DEF RunningInv, PlaceInv, Ready, Waiting, AwaitPoints, ChildPoints, ReadyPoints, LookPoints
<1>7. r.stop = "no"  BY <1>3, MovedFields DEF RunningInv
<1>. QED  BY <1>4, <1>5, <1>6, <1>7 DEF Parked, SettledInv

\* waitForAWhile parks a goal.
LEMMA WaitForAWhileParks ==
    ASSUME NEW s, NEW g \in Goals, RunningInv(s, g), g \notin s.children,
           NEW point \in {"try", "user"}
    PROVE  Parked(WaitForAWhile(s, g, point))
<1>. SUFFICES ASSUME NEW r, r = WaitForAWhile(s, g, point) PROVE Parked(r)  OBVIOUS
<1>0. StateTypes(s) /\ BaseInv(s) /\ s.at[g] # "none"  BY DEF RunningInv, BaseInv
<1>1. /\ Frame(s, r, {"at", "waitingForAWhile"})
      /\ r.waitingForAWhile = s.waitingForAWhile \cup {g}
      /\ r.at = [s.at EXCEPT ![g] = point]
  BY <1>0, WaitForAWhileFrame
<1>2. /\ r.wantingToBuild = s.wantingToBuild /\ r.awake = s.awake
      /\ r.events = s.events
  BY <1>1 DEF Frame, Fields
<1>3. Moved(s, r, g, point)
  <2>1. point \in Points \ {"none", "realisation"}  BY DEF Points, LookPoints
  <2>2. Frame(s, r, {"at", "awake", "wantingToBuild", "waitingForAWhile", "events"})
    BY <1>1 DEF Frame
  <2>. QED  BY <1>0, <1>1, <1>2, <2>1, <2>2 DEF Moved, StateTypes
<1>4. BaseInv(r)  BY <1>0, <1>3, MovedBase
<1>5. \A h \in Goals : h # g => PlaceInv(r, h)
  BY <1>1, <1>2, <1>3, MovedOthers
<1>6. PlaceInv(r, g)
  <2>1. /\ r.waitees = s.waitees /\ r.todo = s.todo /\ r.children = s.children
    BY <1>3, MovedFields
  <2>2. r.at[g] = point  BY <1>0, <1>1 DEF StateTypes
  <2>. QED
    BY <1>1, <1>2, <2>1, <2>2
    DEF RunningInv, PlaceInv, Ready, Waiting, AwaitPoints, ChildPoints, ReadyPoints, LookPoints
<1>7. r.stop = "no"  BY <1>3, MovedFields DEF RunningInv
<1>. QED  BY <1>4, <1>5, <1>6, <1>7 DEF Parked, SettledInv

\* A build whose output has been read waits for more.
LEMMA OutputParks ==
    ASSUME NEW s, NEW g \in Goals, RunningInv(s, g), g \in s.children, s.at[g] \in ChildPoints
    PROVE  Parked([s EXCEPT !.events[g] = {}])
<1>. SUFFICES ASSUME NEW r, r = [s EXCEPT !.events[g] = {}] PROVE Parked(r)  OBVIOUS
<1>. DEFINE point == s.at[g]
<1>0. StateTypes(s) /\ BaseInv(s) /\ s.at[g] # "none"  BY DEF RunningInv, BaseInv
<1>1. /\ Frame(s, r, {"events"})
      /\ r.events = [s.events EXCEPT ![g] = {}]
  BY <1>0 DEF StateTypes, Frame, Fields
<1>2. /\ r.wantingToBuild = s.wantingToBuild /\ r.awake = s.awake
      /\ r.waitingForAWhile = s.waitingForAWhile /\ r.at = s.at
  BY <1>1 DEF Frame, Fields
<1>3. Moved(s, r, g, point)
  <2>1. point \in Points \ {"none", "realisation"}  BY DEF Points, ChildPoints
  <2>2. Frame(s, r, {"at", "awake", "wantingToBuild", "waitingForAWhile", "events"})
    BY <1>1 DEF Frame
  <2>. QED  BY <1>0, <1>1, <1>2, <2>1, <2>2 DEF Moved, StateTypes
<1>4. BaseInv(r)  BY <1>0, <1>3, MovedBase
<1>5. \A h \in Goals : h # g => PlaceInv(r, h)
  <2>1. \A h \in Goals : h # g => r.events[h] = s.events[h]  BY <1>0, <1>1 DEF StateTypes
  <2>. QED  BY <1>2, <1>3, <2>1, MovedOthers, ZenonT(80)
<1>6. PlaceInv(r, g)
  <2>1. /\ r.waitees = s.waitees /\ r.todo = s.todo /\ r.children = s.children
    BY <1>3, MovedFields
  <2>. QED
    BY <1>2, <2>1
    DEF RunningInv, PlaceInv, Ready, Waiting, AwaitPoints, ChildPoints, ReadyPoints, LookPoints
<1>7. r.stop = "no"  BY <1>3, MovedFields DEF RunningInv
<1>. QED  BY <1>4, <1>5, <1>6, <1>7 DEF Parked, SettledInv

\* There are finitely many children.
LEMMA RunningFinite ==
    ASSUME NEW s, StateTypes(s), NEW kinds
    PROVE  IsFiniteSet(Running(s, kinds)) /\ Cardinality(Running(s, kinds)) \in Nat
<1>1. Running(s, kinds) \subseteq Goals  BY DEF StateTypes, Running
<1>. QED  BY <1>1, SchedulerAssumption, FS_Subset, FS_CardinalityType

\* A counter that is not zero counts somebody.
LEMMA SomebodyRuns ==
    ASSUME NEW s, StateTypes(s), NEW kinds, Cardinality(Running(s, kinds)) # 0
    PROVE  \E h \in s.slots : Kind[h] \in kinds
<1>1. Running(s, kinds) # {}  BY FS_EmptySet
<1>. QED  BY <1>1 DEF Running

\* waitForBuildSlot parks a goal when the slots are taken.
LEMMA WaitForBuildSlotParks ==
    ASSUME NEW s, NEW g \in Goals, RunningInv(s, g), g \notin s.children, NEW point,
           \/ Kind[g] = "substitution" /\ point = "run" /\ s.nrSubstitutions >= Limit
           \/ Kind[g] = "building" /\ point = "try" /\ s.nrLocalBuilds >= s.maxBuildJobs
    PROVE  Parked(WaitForBuildSlot(s, g, point))
<1>. SUFFICES ASSUME NEW r, r = WaitForBuildSlot(s, g, point) PROVE Parked(r)  OBVIOUS
<1>0. StateTypes(s) /\ BaseInv(s) /\ s.at[g] # "none" /\ SlotInv(s)
  BY DEF RunningInv, BaseInv
<1>1. /\ Frame(s, r, {"at", "wantingToBuild"})
      /\ r.wantingToBuild = s.wantingToBuild \cup {g}
      /\ r.at = [s.at EXCEPT ![g] = point]
  <2>1. Kind[g] = "substitution" => s.nrSubstitutions >= MaxSubstitutionJobs
    BY <1>0, SchedulerAssumption DEF Limit, StateTypes
  <2>2. Kind[g] # "substitution" => s.nrLocalBuilds >= s.maxBuildJobs  OBVIOUS
  <2>. QED  BY <1>0, <2>1, <2>2, WaitForBuildSlotFrame
<1>2. /\ r.waitingForAWhile = s.waitingForAWhile /\ r.awake = s.awake
      /\ r.events = s.events
  BY <1>1 DEF Frame, Fields
<1>3. Moved(s, r, g, point)
  <2>1. point \in Points \ {"none", "realisation"}  BY DEF Points, LookPoints
  <2>2. Frame(s, r, {"at", "awake", "wantingToBuild", "waitingForAWhile", "events"})
    BY <1>1 DEF Frame
  <2>. QED  BY <1>0, <1>1, <1>2, <2>1, <2>2 DEF Moved, StateTypes
<1>4. BaseInv(r)  BY <1>0, <1>3, MovedBase
<1>5. \A h \in Goals : h # g => PlaceInv(r, h)
  BY <1>1, <1>2, <1>3, MovedOthers
<1>6. PlaceInv(r, g)
  <2>1. /\ r.waitees = s.waitees /\ r.todo = s.todo /\ r.children = s.children
        /\ r.slots = s.slots /\ r.orphans = s.orphans /\ r.maxBuildJobs = s.maxBuildJobs
    BY <1>3, MovedFields
  <2>2. r.at[g] = point  BY <1>0, <1>1 DEF StateTypes
  <2>3. SlotTaken(r, g)
    <3>1. CASE Kind[g] = "substitution" /\ point = "run" /\ s.nrSubstitutions >= Limit
      <4>1. s.nrSubstitutions # 0  BY <1>0, <3>1, SchedulerAssumption DEF Limit, StateTypes
      <4>2. \/ s.orphans # 0
            \/ Cardinality(Running(s, {"substitution", "realisation"})) # 0
        BY <1>0, <4>1 DEF SlotInv
      <4>3. \/ s.orphans # 0
            \/ \E h \in s.slots : Kind[h] \in {"substitution", "realisation"}
        BY <1>0, <4>2, SomebodyRuns
      <4>. QED  BY <2>1, <2>2, <3>1, <4>3 DEF SlotTaken
    <3>2. CASE Kind[g] = "building" /\ point = "try" /\ s.nrLocalBuilds >= s.maxBuildJobs
      <4>1. s.maxBuildJobs = 0 \/ s.nrLocalBuilds # 0  BY <1>0, <3>2 DEF StateTypes
      <4>2. s.maxBuildJobs = 0 \/ Cardinality(Running(s, {"building"})) # 0
        BY <1>0, <4>1 DEF SlotInv
      <4>3. s.maxBuildJobs = 0 \/ \E h \in s.slots : Kind[h] \in {"building"}
        BY <1>0, <4>2, SomebodyRuns
      <4>. QED  BY <2>1, <2>2, <3>2, <4>3 DEF SlotTaken
    <3>. QED  BY <3>1, <3>2
  <2>4. point \in {"run", "try"}  OBVIOUS
  <2>. QED
    BY <1>1, <1>2, <2>1, <2>2, <2>3, <2>4
    DEF RunningInv, PlaceInv, Ready, Waiting, AwaitPoints, ChildPoints, ReadyPoints, LookPoints
<1>7. r.stop = "no"  BY <1>3, MovedFields DEF RunningInv
<1>. QED  BY <1>4, <1>5, <1>6, <1>7 DEF Parked, SettledInv

\* A child within the limits, or a query for a realisation.
MayStart(s, g, inBuildSlot) ==
    /\ inBuildSlot \in BOOLEAN
    /\ ~inBuildSlot => Kind[g] = "building"
    /\ inBuildSlot =>
          \/ Kind[g] = "building" /\ s.nrLocalBuilds < s.maxBuildJobs
          \/ Kind[g] = "substitution" /\ s.nrSubstitutions < Limit
          \/ Kind[g] = "realisation"

\* childStarted parks a goal and counts its child.
LEMMA ChildStartedParks ==
    ASSUME NEW s, NEW g \in Goals, RunningInv(s, g), g \notin s.children,
           NEW inBuildSlot, NEW point \in ChildPoints, MayStart(s, g, inBuildSlot)
    PROVE  Parked(ChildStarted(s, g, inBuildSlot, point))
<1>. SUFFICES ASSUME NEW r, r = ChildStarted(s, g, inBuildSlot, point) PROVE Parked(r)  OBVIOUS
<1>0. StateTypes(s) /\ BaseInv(s) /\ s.at[g] # "none" /\ SlotInv(s) /\ s.stop = "no"
  BY DEF RunningInv, BaseInv
<1>1. /\ Frame(s, r, {"at", "children", "slots", "nrLocalBuilds", "nrSubstitutions"})
      /\ r.at = [s.at EXCEPT ![g] = point]
      /\ r.children = s.children \cup {g}
      /\ r.slots = IF inBuildSlot THEN s.slots \cup {g} ELSE s.slots
      /\ r.nrLocalBuilds = IF inBuildSlot /\ Kind[g] = "building"
                           THEN s.nrLocalBuilds + 1 ELSE s.nrLocalBuilds
      /\ r.nrSubstitutions = IF inBuildSlot /\ Kind[g] # "building"
                             THEN s.nrSubstitutions + 1 ELSE s.nrSubstitutions
  BY <1>0, ChildStartedFrame
<1>2. /\ DOMAIN r = Fields
      /\ r.waitees = s.waitees /\ r.waiters = s.waiters /\ r.events = s.events
      /\ r.topGoals = s.topGoals /\ r.awake = s.awake /\ r.batch = s.batch /\ r.todo = s.todo
      /\ r.wantingToBuild = s.wantingToBuild /\ r.waitingForAWhile = s.waitingForAWhile
      /\ r.orphans = s.orphans
      /\ r.maxBuildJobs = s.maxBuildJobs /\ r.keepGoing = s.keepGoing /\ r.stop = s.stop
  BY <1>1 DEF Frame, Fields
<1>3. point \in Points \ {"none", "realisation"}  BY DEF Points, ChildPoints
<1>4. g \notin s.slots  BY <1>0 DEF StateTypes
<1>5. StateTypes(r)
  <2>1. r.nrLocalBuilds \in Nat /\ r.nrSubstitutions \in Nat  BY <1>0, <1>1 DEF StateTypes
  <2>2. r.slots \subseteq r.children  BY <1>0, <1>1 DEF StateTypes, MayStart
  <2>. QED  BY <1>0, <1>1, <1>2, <1>3, <2>1, <2>2 DEF StateTypes
<1>6. \A h \in Goals : /\ r.at[h] = "none" <=> s.at[h] = "none"
                       /\ r.at[h] = "realisation" => s.at[h] = "realisation"
  BY <1>0, <1>1, <1>3 DEF StateTypes
<1>7. LinkInv(r) /\ KeepInv(r)
  BY <1>0, <1>2, <1>6 DEF BaseInv, StateTypes, LinkInv, KeepInv
<1>8. SlotInv(r)
  <2>1. ASSUME NEW kinds
        PROVE  Cardinality(Running(r, kinds)) =
               IF inBuildSlot /\ Kind[g] \in kinds THEN Cardinality(Running(s, kinds)) + 1
               ELSE Cardinality(Running(s, kinds))
    <3>1. CASE inBuildSlot /\ Kind[g] \in kinds
      <4>1. Running(r, kinds) = Running(s, kinds) \cup {g} /\ g \notin Running(s, kinds)
        BY <1>1, <1>4, <3>1 DEF Running
      <4>. QED  BY <1>0, <3>1, <4>1, RunningFinite, FS_AddElement
    <3>2. CASE ~(inBuildSlot /\ Kind[g] \in kinds)
      <4>1. Running(r, kinds) = Running(s, kinds)  BY <1>1, <3>2 DEF Running, MayStart
      <4>. QED  BY <3>2, <4>1
    <3>. QED  BY <3>1, <3>2
  <2>. DEFINE b == Cardinality(Running(s, {"building"}))
              n == Cardinality(Running(s, {"substitution", "realisation"}))
              p == Cardinality(Running(s, {"substitution"}))
              bb == Cardinality(Running(r, {"building"}))
              nn == Cardinality(Running(r, {"substitution", "realisation"}))
              pp == Cardinality(Running(r, {"substitution"}))
  <2>2. b \in Nat /\ n \in Nat /\ p \in Nat /\ p <= n
    <3>1. Running(s, {"substitution"}) \subseteq Running(s, {"substitution", "realisation"})
      BY DEF Running
    <3>. QED  BY <1>0, <3>1, RunningFinite, FS_Subset
  <2>3. /\ s.nrLocalBuilds = b /\ s.nrLocalBuilds <= s.maxBuildJobs
        /\ s.nrSubstitutions = s.orphans + n /\ p <= Limit
    BY <1>0 DEF SlotInv
  <2>4. /\ bb = IF inBuildSlot /\ Kind[g] \in {"building"} THEN b + 1 ELSE b
        /\ nn = IF inBuildSlot /\ Kind[g] \in {"substitution", "realisation"} THEN n + 1 ELSE n
        /\ pp = IF inBuildSlot /\ Kind[g] \in {"substitution"} THEN p + 1 ELSE p
    BY <2>1
  <2>. HIDE DEF b, n, p, bb, nn, pp
  <2>5. /\ s.orphans \in Nat /\ s.maxBuildJobs \in Nat /\ Limit \in Nat
        /\ r.orphans = s.orphans /\ r.maxBuildJobs = s.maxBuildJobs
    BY <1>0, <1>2, SchedulerAssumption DEF StateTypes, Limit
  <2>6. r.nrLocalBuilds = bb /\ r.nrLocalBuilds <= r.maxBuildJobs
    BY <1>1, <2>2, <2>3, <2>4, <2>5 DEF MayStart
  <2>7. r.nrSubstitutions = r.orphans + nn
    BY <1>1, <2>2, <2>3, <2>4, <2>5 DEF MayStart
  <2>8. pp <= Limit
    BY <2>2, <2>3, <2>4, <2>5 DEF MayStart
  <2>9. \A h \in r.children : Kind[h] = "realisation" => h \in r.slots
    BY <1>0, <1>1 DEF SlotInv, MayStart
  <2>. QED  BY <2>6, <2>7, <2>8, <2>9 DEF SlotInv, bb, nn, pp
<1>9. ASSUME NEW h \in Goals, h # g PROVE PlaceInv(r, h)
  <2>1. PlaceInv(s, h)  BY <1>9 DEF RunningInv
  <2>2. r.at[h] = s.at[h] /\ (h \in r.children <=> h \in s.children) /\ s.slots \subseteq r.slots
    BY <1>0, <1>1, <1>9 DEF StateTypes
  <2>. QED  BY <1>2, <2>1, <2>2 DEF PlaceInv, Ready, Waiting, SlotTaken
<1>10. PlaceInv(r, g)
  <2>1. r.at[g] = point /\ g \in r.children  BY <1>0, <1>1 DEF StateTypes
  <2>. QED
    BY <1>2, <2>1
    DEF RunningInv, PlaceInv, Ready, Waiting, AwaitPoints, ChildPoints, ReadyPoints, LookPoints
<1>. QED  BY <1>0, <1>2, <1>5, <1>7, <1>8, <1>9, <1>10 DEF Parked, SettledInv, BaseInv

\* await parks a goal: what it awaits exists, is less deep and knows of it.
LEMMA AwaitParks ==
    ASSUME NEW s, NEW g \in Goals, RunningInv(s, g), g \notin s.children,
           NEW G, G \subseteq Goals, G # {}, \A h \in G : Depth[h] < Depth[g],
           NEW point \in AwaitPoints, point = "realisation" => Output[g] # None
    PROVE  Parked(Await(s, g, G, point))
<1>. SUFFICES ASSUME NEW r, r = Await(s, g, G, point) PROVE Parked(r)  OBVIOUS
<1>0. StateTypes(s) /\ BaseInv(s) /\ s.at[g] # "none" /\ SlotInv(s) /\ s.stop = "no"
  BY DEF RunningInv, BaseInv
<1>1. /\ Frame(s, r, {"at", "awake", "waitees", "waiters"})
      /\ r.awake = s.awake \cup {h \in G : s.at[h] = "none"}
      /\ r.at = [h \in Goals |-> IF h = g THEN point
                                 ELSE IF h \in G /\ s.at[h] = "none" THEN "new" ELSE s.at[h]]
      /\ r.waitees = [h \in Goals |-> IF h = g THEN G ELSE s.waitees[h]]
      /\ r.waiters = [h \in Goals |-> IF h \in G THEN s.waiters[h] \cup {g} ELSE s.waiters[h]]
  BY <1>0, AwaitFrame
<1>2. /\ DOMAIN r = Fields
      /\ r.events = s.events
      /\ r.topGoals = s.topGoals /\ r.batch = s.batch /\ r.todo = s.todo
      /\ r.wantingToBuild = s.wantingToBuild /\ r.waitingForAWhile = s.waitingForAWhile
      /\ r.children = s.children /\ r.slots = s.slots /\ r.orphans = s.orphans
      /\ r.nrLocalBuilds = s.nrLocalBuilds /\ r.nrSubstitutions = s.nrSubstitutions
      /\ r.maxBuildJobs = s.maxBuildJobs /\ r.keepGoing = s.keepGoing /\ r.stop = s.stop
  BY <1>1 DEF Frame, Fields
<1>3. point \in Points \ {"none"} /\ "new" \in Points \ {"none", "realisation"}
  BY DEF Points, AwaitPoints, ReadyPoints
<1>4. g \notin G  BY WorkerAssumption
<1>5. StateTypes(r)
  <2>1. r.at \in [Goals -> Points]  BY <1>0, <1>1, <1>3 DEF StateTypes
  <2>2. r.waitees \in [Goals -> SUBSET Goals] /\ r.waiters \in [Goals -> SUBSET Goals]
    BY <1>0, <1>1 DEF StateTypes
  <2>3. r.awake \subseteq Goals  BY <1>0, <1>1 DEF StateTypes
  <2>. QED  BY <1>0, <1>2, <2>1, <2>2, <2>3 DEF StateTypes
<1>6. \A h \in Goals : r.at[h] = "none" => s.at[h] = "none" /\ h \notin G /\ h # g
  BY <1>0, <1>1, <1>3 DEF StateTypes
<1>7. LinkInv(r)
  <2>1. LinkInv(s)  BY <1>0 DEF BaseInv
  <2>2. ASSUME NEW h \in Goals, NEW w \in Goals PROVE w \in r.waiters[h] <=> h \in r.waitees[w]
    <3>1. w \in s.waiters[h] <=> h \in s.waitees[w]  BY <2>1 DEF LinkInv
    <3>2. s.waitees[g] = {}  BY DEF RunningInv
    <3>. QED  BY <1>1, <3>1, <3>2
  <2>3. ASSUME NEW h \in Goals, NEW w \in r.waitees[h] PROVE r.at[w] # "none" /\ Depth[w] < Depth[h]
    <3>1. w \in Goals  BY <1>5 DEF StateTypes
    <3>2. CASE h = g  BY <1>1, <1>6, <3>1, <3>2
    <3>3. CASE h # g
      <4>1. w \in s.waitees[h]  BY <1>1, <3>3
      <4>. QED  BY <1>6, <2>1, <3>1, <4>1 DEF LinkInv
    <3>. QED  BY <3>2, <3>3
  <2>4. ASSUME NEW h \in Goals, r.at[h] = "none" PROVE r.waitees[h] = {}
    BY <1>1, <1>6, <2>1, <2>4 DEF LinkInv
  <2>5. \A h \in r.topGoals : r.at[h] # "none"  BY <1>0, <1>2, <1>6, <2>1 DEF LinkInv, StateTypes
  <2>6. \A h \in Goals : r.at[h] = "realisation" => Output[h] # None  BY <1>1, <2>1 DEF LinkInv
  <2>. QED  BY <2>2, <2>3, <2>4, <2>5, <2>6 DEF LinkInv
<1>8. KeepInv(r)
  <2>. SUFFICES ASSUME r.keepGoing, NEW h \in Goals, r.at[h] # "none"
                PROVE  h \in r.topGoals \/ r.waiters[h] # {}
    BY DEF KeepInv
  <2>1. CASE h \in G  BY <1>1, <2>1
  <2>2. CASE h \notin G
    <3>1. s.at[h] # "none"  BY <1>0, <1>1, <2>2
    <3>. QED  BY <1>0, <1>1, <1>2, <2>2, <3>1 DEF BaseInv, KeepInv
  <2>. QED  BY <2>1, <2>2
<1>9. SlotInv(r)
  <2>1. \A kinds : Running(r, kinds) = Running(s, kinds)  BY <1>2 DEF Running
  <2>. QED  BY <1>0, <1>2, <2>1 DEF SlotInv
<1>10. ASSUME NEW h \in Goals, h # g PROVE PlaceInv(r, h)
  <2>1. PlaceInv(s, h) /\ r.waitees[h] = s.waitees[h]  BY <1>1, <1>10 DEF RunningInv
  <2>2. CASE h \in G /\ s.at[h] = "none"
    <3>1. r.at[h] = "new" /\ h \in r.awake  BY <1>1, <1>10, <2>2
    <3>2. s.waitees[h] = {}  BY <1>0, <2>2 DEF BaseInv, LinkInv
    <3>. QED
      BY <1>2, <2>1, <2>2, <3>1, <3>2
      DEF PlaceInv, Ready, Waiting, AwaitPoints, ChildPoints, ReadyPoints, LookPoints
  <2>3. CASE ~(h \in G /\ s.at[h] = "none")
    <3>1. r.at[h] = s.at[h] /\ (h \in r.awake <=> h \in s.awake)  BY <1>1, <1>10, <2>3
    <3>. QED  BY <1>2, <2>1, <3>1 DEF PlaceInv, Ready, Waiting, SlotTaken
  <2>. QED  BY <2>2, <2>3
<1>11. PlaceInv(r, g)
  <2>1. r.at[g] = point /\ r.waitees[g] = G /\ (g \in r.awake <=> g \in s.awake)
    BY <1>1, <1>4
  <2>. QED
    BY <1>2, <2>1
    DEF RunningInv, PlaceInv, Ready, Waiting, AwaitPoints, ChildPoints, ReadyPoints, LookPoints
<1>. QED  BY <1>0, <1>2, <1>5, <1>7, <1>8, <1>9, <1>10, <1>11 DEF Parked, SettledInv, BaseInv

\* amDone: the waiters that g was the last to keep are woken, and nobody else.
LEMMA AmDoneParks ==
    ASSUME NEW s, NEW g \in Goals, RunningInv(s, g), g \notin s.children,
           NEW result \in ExitCodes
    PROVE  Parked(AmDone(s, g, result))
<1>. SUFFICES ASSUME NEW r, r = AmDone(s, g, result) PROVE Parked(r)  OBVIOUS
<1>. DEFINE L == LastFor(s, g)
            C == Cut(s, g, result)
<1>0. StateTypes(s) /\ BaseInv(s) /\ s.at[g] # "none" /\ SlotInv(s) /\ s.stop = "no" /\ LinkInv(s)
  BY DEF RunningInv, BaseInv
<1>1. /\ Frame(s, r, {"at", "waitees", "waiters", "results", "events", "subs",
                      "substituterFailed", "topGoals", "awake"})
      /\ r.at = [h \in Goals |-> IF h = g THEN "none" ELSE s.at[h]]
      /\ r.waitees = [h \in Goals |-> IF h = g \/ h \in C THEN {} ELSE s.waitees[h] \ {g}]
      /\ r.waiters = [h \in Goals |-> IF h = g THEN {} ELSE (s.waiters[h] \ C) \ {g}]
      /\ r.events = [h \in Goals |-> IF h = g THEN {} ELSE s.events[h]]
      /\ r.topGoals = IF g \in s.topGoals /\ Fatal(s, result) THEN {} ELSE s.topGoals \ {g}
      /\ r.awake = s.awake \cup (L \cup C)
  <2>1. DOMAIN s = Fields  BY <1>0 DEF StateTypes
  <2>. QED  BY <2>1, AmDoneFrame, SMTT(30)
<1>2. /\ DOMAIN r = Fields
      /\ r.batch = s.batch /\ r.todo = s.todo
      /\ r.wantingToBuild = s.wantingToBuild /\ r.waitingForAWhile = s.waitingForAWhile
      /\ r.children = s.children /\ r.slots = s.slots /\ r.orphans = s.orphans
      /\ r.nrLocalBuilds = s.nrLocalBuilds /\ r.nrSubstitutions = s.nrSubstitutions
      /\ r.maxBuildJobs = s.maxBuildJobs /\ r.keepGoing = s.keepGoing /\ r.stop = s.stop
  BY <1>1 DEF Frame, Fields
<1>3. L \subseteq s.waiters[g] /\ C \subseteq s.waiters[g] /\ r.topGoals \subseteq s.topGoals \ {g}
      /\ s.waiters[g] \subseteq Goals
  BY <1>0, <1>1 DEF LastFor, Cut, StateTypes
<1>4. g \notin s.waiters[g] /\ \A h \in Goals : g \notin s.waiters[h]
  <2>1. s.waitees[g] = {}  BY DEF RunningInv
  <2>. QED  BY <1>0, <2>1 DEF LinkInv
<1>5. StateTypes(r)
  <2>1. r.at \in [Goals -> Points]  BY <1>0, <1>1 DEF StateTypes, Points
  <2>2. r.waitees \in [Goals -> SUBSET Goals] /\ r.waiters \in [Goals -> SUBSET Goals]
    BY <1>0, <1>1 DEF StateTypes
  <2>3. r.awake \subseteq Goals /\ r.topGoals \subseteq Goals  BY <1>0, <1>1, <1>3 DEF StateTypes
  <2>4. DOMAIN r.events = Goals  BY <1>1
  <2>. QED  BY <1>0, <1>2, <2>1, <2>2, <2>3, <2>4 DEF StateTypes
<1>6. LinkInv(r)
  <2>1. ASSUME NEW h \in Goals, NEW w \in Goals PROVE w \in r.waiters[h] <=> h \in r.waitees[w]
    <3>1. w \in s.waiters[h] <=> h \in s.waitees[w]  BY <1>0 DEF LinkInv
    <3>. QED  BY <1>1, <3>1
  <2>2. ASSUME NEW h \in Goals, NEW w \in r.waitees[h] PROVE r.at[w] # "none" /\ Depth[w] < Depth[h]
    <3>1. w \in Goals  BY <1>5 DEF StateTypes
    <3>2. w \in s.waitees[h] /\ w # g  BY <1>1
    <3>. QED  BY <1>0, <1>1, <3>1, <3>2 DEF LinkInv
  <2>3. ASSUME NEW h \in Goals, r.at[h] = "none" PROVE r.waitees[h] = {}
    BY <1>0, <1>1, <2>3 DEF LinkInv
  <2>4. \A h \in r.topGoals : r.at[h] # "none"  BY <1>0, <1>1, <1>3 DEF LinkInv, StateTypes
  <2>5. \A h \in Goals : r.at[h] = "realisation" => Output[h] # None  BY <1>0, <1>1 DEF LinkInv
  <2>. QED  BY <2>1, <2>2, <2>3, <2>4, <2>5 DEF LinkInv
<1>7. KeepInv(r)
  <2>. SUFFICES ASSUME r.keepGoing, NEW h \in Goals, r.at[h] # "none"
                PROVE  h \in r.topGoals \/ r.waiters[h] # {}
    BY DEF KeepInv
  <2>1. h # g /\ s.at[h] # "none" /\ s.keepGoing  BY <1>1, <1>2
  <2>2. C = {} /\ r.topGoals = s.topGoals \ {g}  BY <1>1, <2>1 DEF Cut, Fatal
  <2>3. h \in s.topGoals \/ s.waiters[h] # {}  BY <1>0, <2>1 DEF BaseInv, KeepInv
  <2>4. r.waiters[h] = s.waiters[h]
    <3>1. r.waiters[h] = (s.waiters[h] \ C) \ {g}  BY <1>1, <2>1
    <3>. QED  BY <1>4, <2>2, <3>1
  <2>. QED  BY <2>1, <2>2, <2>3, <2>4
<1>8. SlotInv(r)
  <2>1. \A kinds : Running(r, kinds) = Running(s, kinds)  BY <1>2 DEF Running
  <2>. QED  BY <1>0, <1>2, <2>1 DEF SlotInv
<1>9. ASSUME NEW h \in Goals, h # g PROVE PlaceInv(r, h)
  <2>1. PlaceInv(s, h) /\ r.at[h] = s.at[h] /\ r.events[h] = s.events[h]
    BY <1>1, <1>9 DEF RunningInv
  <2>2. CASE h \in s.waiters[g]
    <3>1. g \in s.waitees[h]  BY <1>0, <2>2 DEF LinkInv
    <3>2. s.at[h] \in AwaitPoints
      <4>1. s.at[h] \in Points /\ s.at[h] # "none"  BY <1>0, <3>1 DEF StateTypes, LinkInv
      <4>. QED  BY <2>1, <3>1, <4>1 DEF PlaceInv, Points
    <3>3. ~Ready(s, h) /\ ~Waiting(s, h) /\ h \notin s.children  BY <2>1, <3>1, <3>2 DEF PlaceInv
    <3>4. h \in r.awake <=> r.waitees[h] = {}
      <4>1. h \in r.awake <=> h \in L \cup C  BY <1>1, <3>3 DEF Ready
      <4>2. r.waitees[h] = {} <=> h \in C \/ s.waitees[h] \subseteq {g}  BY <1>1, <1>9
      <4>3. h \in L <=> s.waitees[h] \subseteq {g}  BY <2>2 DEF LastFor
      <4>. QED  BY <4>1, <4>2, <4>3
    <3>. QED
      BY <1>2, <2>1, <3>2, <3>3, <3>4
      DEF PlaceInv, Ready, Waiting, AwaitPoints, ChildPoints, ReadyPoints, LookPoints
  <2>3. CASE h \notin s.waiters[g]
    <3>1. g \notin s.waitees[h]  BY <1>0, <2>3 DEF LinkInv
    <3>2. r.waitees[h] = s.waitees[h] /\ (h \in r.awake <=> h \in s.awake)
      <4>1. h \notin L \cup C  BY <1>3, <2>3
      <4>2. r.waitees[h] = s.waitees[h] \ {g}  BY <1>1, <1>9, <4>1
      <4>3. s.waitees[h] \ {g} = s.waitees[h]  BY <3>1
      <4>4. h \in r.awake <=> h \in s.awake  BY <1>1, <4>1
      <4>. QED  BY <4>2, <4>3, <4>4
    <3>. QED  BY <1>2, <2>1, <3>2 DEF PlaceInv, Ready, Waiting, SlotTaken
  <2>. QED  BY <2>2, <2>3
<1>10. PlaceInv(r, g)
  <2>1. r.at[g] = "none" /\ (g \in r.awake <=> g \in s.awake)  BY <1>1, <1>3, <1>4
  <2>. QED
    BY <1>2, <2>1
    DEF RunningInv, PlaceInv, Ready, Waiting, AwaitPoints, ChildPoints, ReadyPoints, LookPoints
<1>. QED  BY <1>0, <1>2, <1>5, <1>6, <1>7, <1>8, <1>9, <1>10 DEF Parked, SettledInv, BaseInv

\* amDone without an exit code, and an exception: run ends.
LEMMA StopParks ==
    ASSUME NEW s, NEW g, RunningInv(s, g), NEW reason, reason \notin {"no", "returned"}
    PROVE  Parked([s EXCEPT !.stop = reason])
<1>. SUFFICES ASSUME NEW r, r = [s EXCEPT !.stop = reason] PROVE Parked(r)  OBVIOUS
<1>0. StateTypes(s) /\ SlotInv(s) /\ LinkInv(s) /\ KeepInv(s) /\ DOMAIN s = Fields
  BY DEF RunningInv, BaseInv, StateTypes
<1>1. Frame(s, r, {"stop"}) /\ r.stop = reason  BY <1>0 DEF Frame, Fields
<1>2. /\ DOMAIN r = Fields
      /\ r.at = s.at /\ r.waitees = s.waitees /\ r.waiters = s.waiters /\ r.events = s.events
      /\ r.topGoals = s.topGoals /\ r.awake = s.awake /\ r.batch = s.batch /\ r.todo = s.todo
      /\ r.wantingToBuild = s.wantingToBuild /\ r.waitingForAWhile = s.waitingForAWhile
      /\ r.children = s.children /\ r.slots = s.slots /\ r.orphans = s.orphans
      /\ r.nrLocalBuilds = s.nrLocalBuilds /\ r.nrSubstitutions = s.nrSubstitutions
      /\ r.maxBuildJobs = s.maxBuildJobs /\ r.keepGoing = s.keepGoing
  BY <1>1 DEF Frame, Fields
<1>3. StateTypes(r)  BY <1>0, <1>2 DEF StateTypes
<1>4. SlotInv(r)
  <2>1. \A kinds : Running(r, kinds) = Running(s, kinds)  BY <1>2 DEF Running
  <2>. QED  BY <1>0, <1>2, <2>1 DEF SlotInv
<1>5. LinkInv(r) /\ KeepInv(r)  BY <1>0, <1>2 DEF LinkInv, KeepInv
<1>. QED  BY <1>1, <1>3, <1>4, <1>5 DEF Parked, SettledInv, BaseInv

\* The goals of these kinds that lose their slot are those whose child ends.
SlotsFreed(s, G, kinds, r) ==
    /\ r.slots \subseteq s.slots
    /\ \A h \in s.slots : Kind[h] \in kinds => (h \in r.slots <=> h \notin Ended(s, G))

\* childTerminated gives back slots and counts them.
LEMMA FreedSlots ==
    ASSUME NEW s, StateTypes(s), NEW G, NEW kinds, NEW r, SlotsFreed(s, G, kinds, r)
    PROVE  /\ Cardinality(Running(r, kinds))
              = Cardinality(Running(s, kinds)) - Cardinality(Freed(s, G, kinds))
           /\ Cardinality(Freed(s, G, kinds)) \in Nat
           /\ Cardinality(Running(s, kinds)) \in Nat
<1>1. /\ Running(r, kinds) = Running(s, kinds) \ Freed(s, G, kinds)
      /\ Freed(s, G, kinds) \subseteq Running(s, kinds)
  BY DEF Running, Freed, SlotsFreed
<1>2. IsFiniteSet(Running(s, kinds)) /\ Cardinality(Running(s, kinds)) \in Nat  BY RunningFinite
<1>3. Running(s, kinds) \cap Freed(s, G, kinds) = Freed(s, G, kinds)  BY <1>1
<1>4. IsFiniteSet(Freed(s, G, kinds)) /\ Cardinality(Freed(s, G, kinds)) \in Nat
  BY <1>1, <1>2, FS_Subset, FS_CardinalityType
<1>5. Cardinality(Running(s, kinds) \ Freed(s, G, kinds))
      = Cardinality(Running(s, kinds)) - Cardinality(Running(s, kinds) \cap Freed(s, G, kinds))
  BY <1>2, FS_Difference
<1>. QED  BY <1>1, <1>2, <1>3, <1>4, <1>5

\* childTerminated in a goal that runs: those who wanted a slot are called.
LEMMA ChildTerminatedRuns ==
    ASSUME NEW s, NEW g \in Goals, RunningInv(s, g)
    PROVE  /\ RunningInv(ChildTerminated(s, {g}), g)
           /\ g \notin ChildTerminated(s, {g}).children
<1>. SUFFICES ASSUME NEW r, r = ChildTerminated(s, {g})
              PROVE  RunningInv(r, g) /\ g \notin r.children
  OBVIOUS
<1>0. StateTypes(s) /\ BaseInv(s) /\ SlotInv(s) /\ s.stop = "no" /\ LinkInv(s) /\ KeepInv(s)
  BY DEF RunningInv, BaseInv
<1>1. CASE Ended(s, {g}) = {}
  <2>1. r = s  BY <1>1, ChildTerminatedSame
  <2>. QED  BY <1>1, <2>1 DEF Ended
<1>2. CASE Ended(s, {g}) # {}
  <2>1. Terminated(s, {g}, r)  BY <1>0, ChildTerminatedAny
  <2>2. /\ DOMAIN r = Fields
        /\ r.at = s.at /\ r.waitees = s.waitees /\ r.waiters = s.waiters /\ r.events = s.events
        /\ r.topGoals = s.topGoals /\ r.batch = s.batch /\ r.todo = s.todo
        /\ r.waitingForAWhile = s.waitingForAWhile
        /\ r.orphans = s.orphans
        /\ r.maxBuildJobs = s.maxBuildJobs /\ r.keepGoing = s.keepGoing /\ r.stop = s.stop
    BY <2>1 DEF Terminated, Frame, Fields
  <2>3. /\ r.children = s.children \ {g} /\ r.slots = s.slots \ {g} /\ Ended(s, {g}) = {g}
        /\ r.wantingToBuild = {} /\ r.awake = s.awake \cup s.wantingToBuild
    <3>1. Ended(s, {g}) = {g}  BY <1>2 DEF Ended
    <3>. QED  BY <2>1, <3>1 DEF Terminated
  <2>4. ASSUME NEW kinds
        PROVE  /\ Cardinality(Running(r, kinds))
                  = Cardinality(Running(s, kinds)) - Cardinality(Freed(s, {g}, kinds))
               /\ Cardinality(Freed(s, {g}, kinds)) \in Nat
               /\ Cardinality(Running(s, kinds)) \in Nat
    <3>1. SlotsFreed(s, {g}, kinds, r)  BY <2>3 DEF SlotsFreed
    <3>. QED  BY <1>0, <3>1, FreedSlots, Zenon
  <2>5. SlotInv(r) /\ r.nrLocalBuilds \in Nat /\ r.nrSubstitutions \in Nat
    <3>. DEFINE b == Cardinality(Running(s, {"building"}))
                n == Cardinality(Running(s, {"substitution", "realisation"}))
                p == Cardinality(Running(s, {"substitution"}))
                bb == Cardinality(Running(r, {"building"}))
                nn == Cardinality(Running(r, {"substitution", "realisation"}))
                pp == Cardinality(Running(r, {"substitution"}))
                fb == Cardinality(Freed(s, {g}, {"building"}))
                fn == Cardinality(Freed(s, {g}, {"substitution", "realisation"}))
                fp == Cardinality(Freed(s, {g}, {"substitution"}))
    <3>1. /\ b \in Nat /\ n \in Nat /\ p \in Nat /\ fb \in Nat /\ fn \in Nat /\ fp \in Nat
          /\ bb = b - fb /\ nn = n - fn /\ pp = p - fp
      BY <2>4
    <3>3. bb \in Nat /\ nn \in Nat
      <4>1. \A kinds : Running(r, kinds) \subseteq Goals  BY <1>0, <2>3 DEF Running, StateTypes
      <4>. QED  BY <4>1, SchedulerAssumption, FS_Subset, FS_CardinalityType
    <3>4. /\ s.nrLocalBuilds = b /\ s.nrLocalBuilds <= s.maxBuildJobs
          /\ s.nrSubstitutions = s.orphans + n /\ p <= Limit
      BY <1>0 DEF SlotInv
    <3>5. r.nrLocalBuilds = s.nrLocalBuilds - fb /\ r.nrSubstitutions = s.nrSubstitutions - fn
      BY <2>1 DEF Terminated
    <3>. HIDE DEF b, n, p, bb, nn, pp, fb, fn, fp
    <3>6. s.orphans \in Nat /\ s.maxBuildJobs \in Nat /\ Limit \in Nat
      BY <1>0, SchedulerAssumption DEF StateTypes, Limit
    <3>7. r.nrLocalBuilds = bb /\ r.nrLocalBuilds <= r.maxBuildJobs
      BY <2>2, <3>1, <3>4, <3>5, <3>6
    <3>8. r.nrSubstitutions = r.orphans + nn  BY <2>2, <3>1, <3>4, <3>5, <3>6
    <3>9. pp <= Limit  BY <3>1, <3>4, <3>6
    <3>10. \A h \in r.children : Kind[h] = "realisation" => h \in r.slots  BY <1>0, <2>3 DEF SlotInv
    <3>11. r.nrLocalBuilds \in Nat /\ r.nrSubstitutions \in Nat  BY <2>2, <3>3, <3>6, <3>7, <3>8
    <3>. QED  BY <3>7, <3>8, <3>9, <3>10, <3>11 DEF SlotInv, bb, nn, pp
  <2>6. StateTypes(r)  BY <1>0, <2>2, <2>3, <2>5 DEF StateTypes
  <2>7. LinkInv(r) /\ KeepInv(r)
    <3>1. LinkInv(r)  BY <1>0, <2>2, SameLinks
    <3>2. KeepInv(r)  BY <1>0, <2>2 DEF KeepInv
    <3>. QED  BY <3>1, <3>2
  <2>8. ASSUME NEW h \in Goals, h # g PROVE PlaceInv(r, h)
    <3>1. PlaceInv(s, h) /\ (h \in r.children <=> h \in s.children)  BY <2>3, <2>8 DEF RunningInv
    <3>2. CASE h \in s.wantingToBuild
      <4>1. s.at[h] \in {"run", "try"}  BY <3>1, <3>2 DEF PlaceInv, SlotTaken
      <4>2. /\ ~Ready(s, h) /\ h \notin s.waitingForAWhile /\ s.waitees[h] = {}
            /\ h \notin s.children
        BY <3>1, <3>2, <4>1 DEF PlaceInv, Waiting, LookPoints
      <4>. QED
        BY <2>2, <2>3, <3>1, <3>2, <4>1, <4>2
        DEF PlaceInv, Ready, Waiting, AwaitPoints, ChildPoints, ReadyPoints, LookPoints
    <3>3. CASE h \notin s.wantingToBuild
      BY <2>2, <2>3, <3>1, <3>3 DEF PlaceInv, Ready, Waiting
    <3>. QED  BY <3>2, <3>3
  <2>9. r.at[g] # "none" /\ r.waitees[g] = {} /\ ~Ready(r, g) /\ ~Waiting(r, g)
    BY <2>2, <2>3 DEF RunningInv, Ready, Waiting
  <2>. QED  BY <1>0, <2>2, <2>3, <2>5, <2>6, <2>7, <2>8, <2>9 DEF RunningInv, BaseInv
<1>. QED  BY <1>1, <1>2

-----------------------------------------------------------------------------
(* Goals are destroyed                                                       *)

\* With keep-going a goal without an owner would have a deeper one waiting for it.
LEMMA NoneDies ==
    ASSUME NEW s, BaseInv(s), s.keepGoing
    PROVE  Dying(s) = {}
<1>. SUFFICES ASSUME Dying(s) # {} PROVE FALSE  OBVIOUS
<1>1. Dying(s) \subseteq Goals  BY DEF Dying, Live
<1>2. PICK g \in Dying(s) : \A h \in Dying(s) : ~(Depth[g] < Depth[h])  BY <1>1, Deepest
<1>3. g \in Goals /\ s.at[g] # "none" /\ g \notin Owned(s) /\ g \in Live(s)
  BY <1>2 DEF Dying, Live
<1>4. g \notin s.topGoals  BY <1>3, OwnedFacts
<1>5. PICK w \in s.waiters[g] : TRUE  BY <1>3, <1>4 DEF BaseInv, KeepInv
<1>6. w \in Goals /\ g \in s.waitees[w]  BY <1>3, <1>5 DEF BaseInv, StateTypes, LinkInv
<1>7. Depth[g] < Depth[w] /\ s.at[w] # "none"  BY <1>6 DEF BaseInv, LinkInv
<1>8. w \notin Owned(s)
  <2>1. g \in Holds(s, w) \cap Live(s)  BY <1>3, <1>6 DEF Holds
  <2>. QED  BY <1>3, <2>1, OwnedFacts
<1>9. w \in Dying(s)  BY <1>6, <1>7, <1>8 DEF Dying, Live
<1>. QED  BY <1>2, <1>7, <1>9

\* What is known of the goals that die, and of those that their owners keep.
LEMMA DyingFacts ==
    ASSUME NEW s, BaseInv(s)
    PROVE  /\ Dying(s) \subseteq Goals
           /\ Dying(s) \cap s.topGoals = {} /\ Dying(s) \cap s.batch = {}
           /\ \A h \in Goals \ Dying(s) : \A w \in s.waitees[h] : w \in Goals \ Dying(s)
           /\ Lost(s) \subseteq Dying(s) /\ Lost(s) \subseteq s.slots
           /\ Killed(s) = (Dying(s) \cap s.children) \ Lost(s)
           /\ \A h \in Lost(s) : Kind[h] = "realisation"
<1>1. Dying(s) \subseteq Goals /\ Lost(s) \subseteq Dying(s)  BY DEF Dying, Live, Lost
<1>2. Dying(s) \cap s.topGoals = {} /\ Dying(s) \cap s.batch = {}
  <2>1. Live(s) \cap (s.topGoals \cup s.batch) \subseteq Owned(s)  BY OwnedFacts
  <2>. QED  BY <2>1 DEF Dying
<1>3. ASSUME NEW h \in Goals \ Dying(s), NEW w \in s.waitees[h] PROVE w \in Goals \ Dying(s)
  <2>1. w \in Goals /\ s.at[w] # "none" /\ s.at[h] # "none"
    BY <1>3 DEF BaseInv, LinkInv, StateTypes
  <2>2. h \in Owned(s)  BY <1>3, <2>1 DEF Dying, Live
  <2>3. w \in Holds(s, h) \cap Live(s)  BY <1>3, <2>1 DEF Holds, Live
  <2>4. w \in Owned(s)  BY <2>2, <2>3, OwnedFacts
  <2>. QED  BY <2>1, <2>4 DEF Dying
<1>4. Lost(s) \subseteq s.slots  BY DEF BaseInv, SlotInv, Lost
<1>5. Killed(s) = (Dying(s) \cap s.children) \ Lost(s)  BY DEF Killed, Ended
<1>6. \A h \in Lost(s) : Kind[h] = "realisation"  BY DEF Lost
<1>. QED  BY <1>1, <1>2, <1>3, <1>4, <1>5, <1>6

\* The counters stay right: what a lost query holds is held by an orphan.
LEMMA DestroySlots ==
    ASSUME NEW s, BaseInv(s), NEW r, Destroyed(s, r), r.maxBuildJobs = s.maxBuildJobs
    PROVE  SlotInv(r) /\ r.nrLocalBuilds \in Nat /\ r.nrSubstitutions \in Nat /\ r.orphans \in Nat
<1>. DEFINE D == Dying(s)
            L == Lost(s)
            K == Killed(s)
            G == D \ L
            SR == {"substitution", "realisation"}
            t == [slots |-> s.slots \ K]
<1>0. StateTypes(s) /\ SlotInv(s)  BY DEF BaseInv
<1>1. /\ L \subseteq D /\ L \subseteq s.slots /\ K = (D \cap s.children) \ L
      /\ \A h \in L : Kind[h] = "realisation"
  BY DyingFacts
<1>2. K = Ended(s, G)  BY DEF Killed
<1>3. r.slots = (s.slots \ K) \ L /\ r.children = (s.children \ K) \ L  BY DEF Destroyed
<1>4. /\ SlotsFreed(s, G, {"building"}, r) /\ SlotsFreed(s, G, {"substitution"}, r)
      /\ SlotsFreed(s, G, SR, t)
  <2>. HIDE DEF G, K, L
  <2>1. SlotsFreed(s, G, {"building"}, r)  BY <1>1, <1>2, <1>3 DEF SlotsFreed
  <2>2. SlotsFreed(s, G, {"substitution"}, r)  BY <1>1, <1>2, <1>3 DEF SlotsFreed
  <2>3. SlotsFreed(s, G, SR, t)  BY <1>2 DEF SlotsFreed
  <2>. QED  BY <2>1, <2>2, <2>3
<1>. DEFINE b == Cardinality(Running(s, {"building"}))
            n == Cardinality(Running(s, SR))
            p == Cardinality(Running(s, {"substitution"}))
            bb == Cardinality(Running(r, {"building"}))
            nn == Cardinality(Running(r, SR))
            pp == Cardinality(Running(r, {"substitution"}))
            nt == Cardinality(Running(t, SR))
            fb == Cardinality(Freed(s, G, {"building"}))
            fn == Cardinality(Freed(s, G, SR))
            fp == Cardinality(Freed(s, G, {"substitution"}))
            l == Cardinality(L)
<1>5. /\ b \in Nat /\ n \in Nat /\ p \in Nat /\ fb \in Nat /\ fn \in Nat /\ fp \in Nat
      /\ bb = b - fb /\ nt = n - fn /\ pp = p - fp
  <2>. HIDE DEF G, SR, t
  <2>. QED  BY <1>0, <1>4, FreedSlots
<1>6. nn = nt - l /\ nn \in Nat /\ l \in Nat /\ bb \in Nat
  <2>1. Running(r, SR) = Running(t, SR) \ L /\ L \subseteq Running(t, SR)
        /\ Running(t, SR) \subseteq Goals /\ Running(r, {"building"}) \subseteq Goals
    <3>. HIDE DEF K, L
    <3>. QED  BY <1>0, <1>1, <1>3 DEF Running, StateTypes
  <2>. HIDE DEF L, t, SR
  <2>2. IsFiniteSet(Running(t, SR)) /\ IsFiniteSet(Running(r, {"building"}))
    BY <2>1, SchedulerAssumption, FS_Subset
  <2>3. Running(t, SR) \cap L = L  BY <2>1
  <2>4. Cardinality(Running(t, SR) \ L)
        = Cardinality(Running(t, SR)) - Cardinality(Running(t, SR) \cap L)
    BY <2>2, FS_Difference
  <2>5. IsFiniteSet(L) /\ IsFiniteSet(Running(r, SR))  BY <2>1, <2>2, FS_Subset
  <2>6. l \in Nat /\ nn \in Nat /\ bb \in Nat  BY <2>2, <2>5, FS_CardinalityType
  <2>. QED  BY <2>1, <2>3, <2>4, <2>6
<1>7. /\ s.nrLocalBuilds = b /\ s.nrLocalBuilds <= s.maxBuildJobs
      /\ s.nrSubstitutions = s.orphans + n /\ p <= Limit
  BY <1>0 DEF SlotInv
<1>8. /\ r.nrLocalBuilds = s.nrLocalBuilds - fb /\ r.nrSubstitutions = s.nrSubstitutions - fn
      /\ r.orphans = s.orphans + l
  BY DEF Destroyed
<1>9. s.orphans \in Nat /\ s.maxBuildJobs \in Nat /\ Limit \in Nat
  BY <1>0, SchedulerAssumption DEF StateTypes, Limit
<1>10. \A h \in r.children : Kind[h] = "realisation" => h \in r.slots
  <2>. HIDE DEF K, L
  <2>. QED  BY <1>0, <1>3 DEF SlotInv
<1>. HIDE DEF b, n, p, bb, nn, pp, nt, fb, fn, fp, l
<1>11. r.nrLocalBuilds = bb /\ r.nrLocalBuilds <= r.maxBuildJobs
  BY <1>5, <1>7, <1>8, <1>9
<1>12. r.nrSubstitutions = r.orphans + nn  BY <1>5, <1>6, <1>7, <1>8, <1>9
<1>13. pp <= Limit  BY <1>5, <1>7, <1>9
<1>14. r.nrLocalBuilds \in Nat /\ r.nrSubstitutions \in Nat /\ r.orphans \in Nat
  BY <1>6, <1>8, <1>9, <1>11, <1>12
<1>. QED  BY <1>10, <1>11, <1>12, <1>13, <1>14 DEF SlotInv, bb, nn, pp

\* Goals that lose their owners take nothing with them that others wait for.
LEMMA DestroyParks ==
    ASSUME NEW s, Parked(s)
    PROVE  Parked(Destroy(s))
<1>. SUFFICES ASSUME NEW r, r = Destroy(s) PROVE Parked(r)  OBVIOUS
<1>1. CASE Dying(s) = {}
  <2>1. r = s  BY <1>1, DestroySame
  <2>. QED  BY <2>1
<1>2. CASE Dying(s) # {}
  <2>. DEFINE D == Dying(s)
              L == Lost(s)
              K == Killed(s)
  <2>0. BaseInv(s) /\ StateTypes(s) /\ LinkInv(s) /\ s.stop # "returned"
    BY DEF Parked, SettledInv, BaseInv
  <2>1. Destroyed(s, r)  BY <1>2, <2>0, DestroyFrame
  <2>2. /\ DOMAIN r = Fields
        /\ r.topGoals = s.topGoals /\ r.batch = s.batch /\ r.todo = s.todo
        /\ r.maxBuildJobs = s.maxBuildJobs /\ r.keepGoing = s.keepGoing /\ r.stop = s.stop
    BY <2>1 DEF Destroyed, Frame, Fields
  <2>3. /\ r.at = [h \in Goals |-> IF h \in D THEN "none" ELSE s.at[h]]
        /\ r.waitees = [h \in Goals |-> IF h \in D THEN {} ELSE s.waitees[h]]
        /\ r.waiters = [h \in Goals |-> IF h \in D THEN {} ELSE s.waiters[h] \ D]
        /\ r.events = [h \in Goals |-> IF h \in D THEN {} ELSE s.events[h]]
        /\ r.children = (s.children \ K) \ L
        /\ r.slots = (s.slots \ K) \ L
        /\ r.orphans = s.orphans + Cardinality(L)
        /\ r.wantingToBuild = (IF K = {} THEN s.wantingToBuild ELSE {}) \ D
        /\ r.awake = (IF K = {} THEN s.awake ELSE s.awake \cup s.wantingToBuild) \ D
        /\ r.waitingForAWhile = s.waitingForAWhile \ D
    BY <2>1 DEF Destroyed
  <2>4. /\ D \subseteq Goals /\ D \cap s.topGoals = {} /\ D \cap s.batch = {}
        /\ \A h \in Goals \ D : \A w \in s.waitees[h] : w \in Goals \ D
        /\ L \subseteq D /\ L \subseteq s.slots /\ K = (D \cap s.children) \ L
        /\ \A h \in L : Kind[h] = "realisation"
    BY <2>0, DyingFacts
  <2>5. SlotInv(r) /\ r.nrLocalBuilds \in Nat /\ r.nrSubstitutions \in Nat /\ r.orphans \in Nat
    BY <2>0, <2>1, <2>2, DestroySlots
  <2>6. ~s.keepGoing  BY <1>2, <2>0, NoneDies
  <2>. HIDE DEF D, K, L
  <2>7. StateTypes(r)
    <3>1. r.at \in [Goals -> Points]  BY <2>0, <2>3 DEF StateTypes, Points
    <3>2. r.waitees \in [Goals -> SUBSET Goals] /\ r.waiters \in [Goals -> SUBSET Goals]
      BY <2>0, <2>3 DEF StateTypes
    <3>3. /\ r.awake \subseteq Goals /\ r.wantingToBuild \subseteq Goals
          /\ r.waitingForAWhile \subseteq Goals
      BY <2>0, <2>3 DEF StateTypes
    <3>4. r.children \subseteq Goals /\ r.slots \subseteq r.children  BY <2>0, <2>3 DEF StateTypes
    <3>5. DOMAIN r.events = Goals  BY <2>3
    <3>. QED  BY <2>0, <2>2, <2>5, <3>1, <3>2, <3>3, <3>4, <3>5 DEF StateTypes
  <2>8. LinkInv(r)
    <3>1. ASSUME NEW h \in Goals, NEW w \in Goals PROVE w \in r.waiters[h] <=> h \in r.waitees[w]
      <4>1. w \in s.waiters[h] <=> h \in s.waitees[w]  BY <2>0 DEF LinkInv
      <4>. QED  BY <2>3, <2>4, <4>1
    <3>2. ASSUME NEW h \in Goals, NEW w \in r.waitees[h] PROVE r.at[w] # "none" /\ Depth[w] < Depth[h]
      <4>1. h \notin D /\ w \in s.waitees[h] /\ w \in Goals \ D  BY <2>3, <2>4
      <4>. QED  BY <2>0, <2>3, <4>1 DEF LinkInv
    <3>3. ASSUME NEW h \in Goals, r.at[h] = "none" PROVE r.waitees[h] = {}
      BY <2>0, <2>3, <3>3 DEF LinkInv
    <3>4. \A h \in r.topGoals : r.at[h] # "none"
      BY <2>0, <2>2, <2>3, <2>4 DEF LinkInv, StateTypes
    <3>5. \A h \in Goals : r.at[h] = "realisation" => Output[h] # None  BY <2>0, <2>3 DEF LinkInv
    <3>. QED  BY <3>1, <3>2, <3>3, <3>4, <3>5 DEF LinkInv
  <2>9. KeepInv(r)  BY <2>2, <2>6 DEF KeepInv
  <2>10. ASSUME r.stop = "no", NEW h \in Goals PROVE PlaceInv(r, h)
    <3>1. PlaceInv(s, h)  BY <2>2, <2>10 DEF Parked, SettledInv
    <3>2. CASE h \in D
      <4>1. /\ r.at[h] = "none" /\ h \notin r.awake /\ h \notin r.todo /\ h \notin r.wantingToBuild
            /\ h \notin r.waitingForAWhile
        BY <2>0, <2>2, <2>3, <2>4, <3>2 DEF StateTypes
      <4>2. h \notin r.children  BY <2>3, <2>4, <3>2
      <4>. QED
        BY <4>1, <4>2
        DEF PlaceInv, Ready, Waiting, AwaitPoints, ChildPoints, ReadyPoints, LookPoints
    <3>3. CASE h \notin D
      <4>1. /\ r.at[h] = s.at[h] /\ r.waitees[h] = s.waitees[h] /\ r.events[h] = s.events[h]
            /\ h \in r.todo <=> h \in s.todo
            /\ h \in r.waitingForAWhile <=> h \in s.waitingForAWhile
        BY <2>2, <2>3, <3>3
      <4>2. h \in r.children <=> h \in s.children  BY <2>3, <2>4, <3>3
      <4>3. CASE K = {}
        <5>1. /\ h \in r.awake <=> h \in s.awake
              /\ h \in r.wantingToBuild <=> h \in s.wantingToBuild
          BY <2>3, <3>3, <4>3
        <5>2. ASSUME SlotTaken(s, h) PROVE SlotTaken(r, h)
          <6>1. CASE s.at[h] = "run" /\ s.orphans # 0
            <7>1. Cardinality(L) \in Nat
              <8>1. L \subseteq Goals  BY <2>4
              <8>. QED  BY <8>1, SchedulerAssumption, FS_Subset, FS_CardinalityType
            <7>2. r.orphans # 0  BY <2>0, <2>3, <6>1, <7>1 DEF StateTypes
            <7>. QED  BY <4>1, <6>1, <7>2 DEF SlotTaken
          <6>2. CASE s.at[h] = "run" /\ \E k \in s.slots : Kind[k] # "building"
            <7>1. PICK k \in s.slots : Kind[k] # "building"  BY <6>2
            <7>2. CASE k \in L
              <8>1. L \subseteq Goals  BY <2>4
              <8>2. IsFiniteSet(L)  BY <8>1, SchedulerAssumption, FS_Subset
              <8>3. Cardinality(L) \in Nat /\ Cardinality(L) # 0
                BY <7>2, <8>2, FS_CardinalityType, FS_EmptySet
              <8>4. r.orphans # 0  BY <2>0, <2>3, <8>3 DEF StateTypes
              <8>. QED  BY <4>1, <6>2, <8>4 DEF SlotTaken
            <7>3. CASE k \notin L
              <8>1. k \in r.slots  BY <2>3, <4>3, <7>3
              <8>. QED  BY <4>1, <6>2, <7>1, <8>1 DEF SlotTaken
            <7>. QED  BY <7>2, <7>3
          <6>3. CASE s.at[h] = "try" /\ s.maxBuildJobs = 0
            BY <2>2, <4>1, <6>3 DEF SlotTaken
          <6>4. CASE s.at[h] = "try" /\ \E k \in s.slots : Kind[k] = "building"
            <7>1. PICK k \in s.slots : Kind[k] = "building"  BY <6>4
            <7>2. k \in r.slots  BY <2>3, <2>4, <4>3, <7>1
            <7>. QED  BY <4>1, <6>4, <7>1, <7>2 DEF SlotTaken
          <6>. QED  BY <5>2, <6>1, <6>2, <6>3, <6>4 DEF SlotTaken
        <5>. QED  BY <3>1, <4>1, <4>2, <5>1, <5>2 DEF PlaceInv, Ready, Waiting
      <4>4. CASE K # {}
        <5>1. /\ h \in r.awake <=> h \in s.awake \/ h \in s.wantingToBuild
              /\ h \notin r.wantingToBuild
          BY <2>3, <3>3, <4>4
        <5>2. CASE h \in s.wantingToBuild
          <6>1. s.at[h] \in {"run", "try"}  BY <3>1, <5>2 DEF PlaceInv, SlotTaken
          <6>2. /\ ~Ready(s, h) /\ h \notin s.waitingForAWhile /\ s.waitees[h] = {}
                /\ h \notin s.children
            BY <3>1, <5>2, <6>1 DEF PlaceInv, Waiting, LookPoints
          <6>. QED
            BY <4>1, <4>2, <5>1, <5>2, <6>1, <6>2
            DEF PlaceInv, Ready, Waiting, AwaitPoints, ChildPoints, ReadyPoints, LookPoints
        <5>3. CASE h \notin s.wantingToBuild
          BY <3>1, <4>1, <4>2, <5>1, <5>3 DEF PlaceInv, Ready, Waiting
        <5>. QED  BY <5>2, <5>3
      <4>. QED  BY <4>3, <4>4
    <3>. QED  BY <3>2, <3>3
  <2>. QED  BY <2>0, <2>2, <2>5, <2>7, <2>8, <2>9, <2>10 DEF Parked, SettledInv, BaseInv
<1>. QED  BY <1>1, <1>2

\* So a goal may be suspended in any state in which it is parked.
LEMMA SuspendInv ==
    ASSUME NEW s, Parked(s), Suspend(s)
    PROVE  WorkerInv'
<1>1. state' = Destroy(s)  BY DEF Suspend
<1>2. Parked(Destroy(s))  BY DestroyParks
<1>3. Parked(state')  BY <1>1, <1>2
<1>4. SettledInv(state') /\ state'.stop # "returned"  BY <1>3 DEF Parked
<1>. QED  BY <1>4 DEF WorkerInv

-----------------------------------------------------------------------------
(* The steps of the goals                                                    *)

\* Goal g runs in state s and has no child.
Free(s, g) == g \in Goals /\ RunningInv(s, g) /\ g \notin s.children

\* The goal whose turn it is runs, and has a child at the points of a child only.
LEMMA ResumeFacts ==
    ASSUME WorkerInv, NEW g, NEW kind, NEW point, Resume(g, kind, point)
    PROVE  /\ g \in Goals /\ Kind[g] = kind /\ state.at[g] = point
           /\ RunningInv(Now(g), g)
           /\ g \in Now(g).children <=> point \in ChildPoints
           /\ Frame(state, Now(g), {"todo"})
<1>1. SettledInv(state) /\ state.stop = "no" /\ g \in state.todo /\ Kind[g] = kind
      /\ state.at[g] = point
  BY DEF WorkerInv, Resume
<1>2. Now(g) = [state EXCEPT !.todo = @ \ {g}]  BY DEF Now
<1>. QED  BY <1>1, <1>2, Resumed

\* At the other points it has none.
LEMMA ResumeFree ==
    ASSUME WorkerInv, NEW g, NEW kind, NEW point, Resume(g, kind, point), point \notin ChildPoints
    PROVE  Free(Now(g), g) /\ Kind[g] = kind
BY ResumeFacts DEF Free

\* amDone, whatever its argument.
LEMMA DoneParks ==
    ASSUME NEW s, NEW g, Free(s, g), NEW result
    PROVE  Parked(AmDone(s, g, result))
<1>1. CASE result \in ExitCodes  BY <1>1, AmDoneParks DEF Free
<1>2. CASE result \notin ExitCodes
  <2>1. AmDone(s, g, result) = [s EXCEPT !.stop = "amDone"]  BY <1>2 DEF AmDone
  <2>2. Parked([s EXCEPT !.stop = "amDone"])  BY StopParks DEF Free
  <2>. QED  BY <2>1, <2>2
<1>. QED  BY <1>1, <1>2

\* amDone after a success.
LEMMA SucceedParks ==
    ASSUME NEW s, NEW g, Free(s, g)
    PROVE  Parked(Succeed(s, g))
<1>. DEFINE r == [s EXCEPT !.valid = @ \cup Stored(g)]
<1>0. DOMAIN s = Fields  BY DEF Free, RunningInv, BaseInv, StateTypes
<1>1. Alike(s, r)  BY <1>0 DEF Alike, Frame, Fields
<1>. HIDE DEF r
<1>2. Free(r, g)  BY <1>1, AlikeRunning DEF Free
<1>3. Parked(AmDone(r, g, "success"))  BY <1>2, DoneParks
<1>. QED  BY <1>3 DEF Succeed, r

\* Other goals that g may await.
Below(g, G) == G \subseteq Goals /\ G # {} /\ \A h \in G : Depth[h] < Depth[g]

\* await, in these terms.
LEMMA AwaitFree ==
    ASSUME NEW s, NEW g, Free(s, g), NEW G, Below(g, G), NEW point \in AwaitPoints,
           point = "realisation" => Output[g] # None
    PROVE  Parked(Await(s, g, G, point))
BY AwaitParks DEF Free, Below

\* The needs of a goal, or some of them, may be awaited.
LEMMA NeedsBelow ==
    ASSUME NEW g \in Goals, NEW G, G \subseteq Needs[g], G # {}
    PROVE  Below(g, G)
<1>1. Needs[g] \subseteq Goals  BY SchedulerAssumption
<1>2. \A h \in Needs[g] : Depth[h] < Depth[g]  BY WorkerAssumption
<1>. QED  BY <1>1, <1>2 DEF Below

\* So may the goals of the tables.
LEMMA TableBelow ==
    ASSUME NEW g \in Goals
    PROVE  /\ Obtain[g] # None => Below(g, {Obtain[g]})
           /\ Realisation[g] # None => Below(g, {Realisation[g]})
           /\ Output[g] # None => Below(g, {Output[g]})
           /\ Resolution[g] # None => Below(g, {Resolution[g]})
           /\ Resolved[g] # None => Below(g, {Resolved[g]})
           /\ Building[g] # None => Below(g, {Building[g]})
<1>1. \A h \in {Obtain[g], Realisation[g], Output[g], Resolution[g], Resolved[g], Building[g]} :
         h # None => Depth[h] < Depth[g]
  BY WorkerAssumption
<1>2. \A f \in {Obtain, Realisation, Output, Resolution, Resolved, Building} :
         f[g] \in Goals \cup {None}
  BY WorkerAssumption
<1>3. ASSUME NEW h \in Goals \cup {None}, h # None, Depth[h] < Depth[g] PROVE Below(g, {h})
  BY <1>3 DEF Below
<1>. QED  BY <1>1, <1>2, <1>3

\* DerivationTrampolineGoal.
LEMMA TrampolineInv ==
    ASSUME WorkerInv, NEW g, TrampolineInit(g) \/ TrampolineObtained(g) \/ TrampolineBuilt(g)
    PROVE  WorkerInv'
<1>0. "new" \notin ChildPoints /\ "obtain" \notin ChildPoints /\ "concrete" \notin ChildPoints
      /\ "obtain" \in AwaitPoints /\ "concrete" \in AwaitPoints
  BY DEF ChildPoints, AwaitPoints
<1>1. Free(Now(g), g) /\ Kind[g] = "trampoline" /\ g \in Goals
  BY <1>0, ResumeFree DEF TrampolineInit, TrampolineObtained, TrampolineBuilt, Free
<1>2. Parked(Await(Now(g), g, Needs[g], "concrete"))
  <2>1. Below(g, Needs[g])  BY <1>1, NeedsBelow, WorkerAssumption
  <2>. QED  BY <1>0, <1>1, <2>1, AwaitFree
<1>3. \A result : Parked(AmDone(Now(g), g, result))  BY <1>1, DoneParks
<1>4. CASE TrampolineInit(g)
  <2>1. ASSUME Obtain[g] # None PROVE Parked(Await(Now(g), g, {Obtain[g]}, "obtain"))
    BY <1>0, <1>1, <2>1, TableBelow, AwaitFree
  <2>. QED  BY <1>2, <1>4, <2>1, SuspendInv DEF TrampolineInit
<1>5. CASE TrampolineObtained(g)
  <2>1. Parked(IF NrFailed(state, g) # 0 THEN AmDone(Now(g), g, "failed")
               ELSE Await(Now(g), g, Needs[g], "concrete"))
    BY <1>2, <1>3
  <2>. QED  BY <1>5, <2>1, SuspendInv DEF TrampolineObtained
<1>6. CASE TrampolineBuilt(g)
  <2>1. PICK first : Suspend(AmDone(Now(g), g, ExitCode(state, g, first)))
    BY <1>6 DEF TrampolineBuilt
  <2>. QED  BY <1>3, <2>1, SuspendInv
<1>. QED  BY <1>4, <1>5, <1>6

\* DerivationGoal.
LEMMA DerivationInv ==
    ASSUME WorkerInv, NEW g,
           \/ DerivationInit(g) \/ DerivationRealised(g) \/ DerivationSubstituted(g)
           \/ DerivationResolved(g) \/ DerivationBuilt(g)
    PROVE  WorkerInv'
<1>0. /\ "new" \notin ChildPoints /\ "realisation" \notin ChildPoints /\ "output" \notin ChildPoints
      /\ "resolution" \notin ChildPoints /\ "resolved" \notin ChildPoints
      /\ "built" \notin ChildPoints
      /\ "realisation" \in AwaitPoints /\ "output" \in AwaitPoints /\ "resolution" \in AwaitPoints
      /\ "resolved" \in AwaitPoints /\ "built" \in AwaitPoints
  BY DEF ChildPoints, AwaitPoints
<1>1. Free(Now(g), g) /\ Kind[g] = "derivation" /\ g \in Goals
  BY <1>0, ResumeFree DEF DerivationInit, DerivationRealised, DerivationSubstituted,
                          DerivationResolved, DerivationBuilt, Free
<1>2. /\ Resolution[g] # None /\ (Resolved[g] = None => Building[g] # None)
      /\ (Realisation[g] # None => Output[g] # None)
  BY <1>1, WorkerAssumption
<1>3. \A result : Parked(AmDone(Now(g), g, result))  BY <1>1, DoneParks
<1>4. Parked(Succeed(Now(g), g))  BY <1>1, SucceedParks
<1>5. ASSUME Output[g] # None PROVE Parked(Await(Now(g), g, {Output[g]}, "output"))
  BY <1>0, <1>1, <1>5, TableBelow, AwaitFree
<1>6. ASSUME NEW s, Free(s, g) PROVE Parked(Await(s, g, {Resolution[g]}, "resolution"))
  BY <1>0, <1>1, <1>2, <1>6, TableBelow, AwaitFree
<1>7. CASE DerivationInit(g)
  <2>1. ASSUME Realisation[g] # None
        PROVE  Parked(Await(Now(g), g, {Realisation[g]}, "realisation"))
    BY <1>0, <1>1, <1>2, <2>1, TableBelow, AwaitFree
  <2>2. Parked(Await(Now(g), g, {Resolution[g]}, "resolution"))  BY <1>1, <1>6
  <2>. QED  BY <1>4, <1>5, <1>7, <2>1, <2>2, SuspendInv DEF DerivationInit
<1>8. CASE DerivationRealised(g)
  <2>1. Output[g] # None
    BY <1>1, <1>8 DEF DerivationRealised, Resume, WorkerInv, SettledInv, BaseInv, LinkInv
  <2>. QED  BY <1>5, <1>8, <2>1, SuspendInv DEF DerivationRealised
<1>9. CASE DerivationSubstituted(g)
  <2>. DEFINE r == [Now(g) EXCEPT !.results[g] = {}]
  <2>1. Free(r, g)
    <3>1. DOMAIN Now(g) = Fields  BY <1>1 DEF Free, RunningInv, BaseInv, StateTypes
    <3>2. Alike(Now(g), r)  BY <3>1 DEF Alike, Frame, Fields
    <3>. HIDE DEF r
    <3>. QED  BY <1>1, <3>2, AlikeRunning DEF Free
  <2>2. Parked(Await(r, g, {Resolution[g]}, "resolution"))
    <3>. HIDE DEF r
    <3>. QED  BY <1>6, <2>1
  <2>3. \/ Suspend(AmDone(Now(g), g, "failed"))
        \/ Suspend(Succeed(Now(g), g))
        \/ Suspend(Await(r, g, {Resolution[g]}, "resolution"))
    BY <1>9 DEF DerivationSubstituted
  <2>. HIDE DEF r
  <2>. QED  BY <1>3, <1>4, <2>2, <2>3, SuspendInv
<1>10. CASE DerivationResolved(g)
  <2>1. ASSUME Resolved[g] # None PROVE Parked(Await(Now(g), g, {Resolved[g]}, "resolved"))
    BY <1>0, <1>1, <2>1, TableBelow, AwaitFree
  <2>2. ASSUME Resolved[g] = None PROVE Parked(Await(Now(g), g, {Building[g]}, "built"))
    BY <1>0, <1>1, <1>2, <2>2, TableBelow, AwaitFree
  <2>3. Parked(IF NrFailed(state, g) # 0 THEN AmDone(Now(g), g, "failed")
               ELSE IF Resolved[g] # None THEN Await(Now(g), g, {Resolved[g]}, "resolved")
               ELSE Await(Now(g), g, {Building[g]}, "built"))
    BY <1>3, <2>1, <2>2
  <2>. QED  BY <1>10, <2>3, SuspendInv DEF DerivationResolved
<1>11. CASE DerivationBuilt(g)
  <2>1. Parked(IF NrFailed(state, g) = 0 THEN Succeed(Now(g), g)
               ELSE AmDone(Now(g), g, "failed"))
    BY <1>3, <1>4
  <2>. QED  BY <1>11, <2>1, SuspendInv DEF DerivationBuilt
<1>. QED  BY <1>7, <1>8, <1>9, <1>10, <1>11

\* DerivationResolutionGoal.
LEMMA ResolutionInv ==
    ASSUME WorkerInv, NEW g, ResolutionInit(g) \/ ResolutionInputs(g)
    PROVE  WorkerInv'
<1>0. "new" \notin ChildPoints /\ "inputs" \notin ChildPoints /\ "inputs" \in AwaitPoints
  BY DEF ChildPoints, AwaitPoints
<1>1. Free(Now(g), g) /\ g \in Goals
  BY <1>0, ResumeFree DEF ResolutionInit, ResolutionInputs, Free
<1>2. Parked(AmDone(Now(g), g, "failed")) /\ Parked(Succeed(Now(g), g))
  BY <1>1, DoneParks, SucceedParks
<1>3. CASE ResolutionInit(g)
  <2>1. ASSUME Needs[g] # {} PROVE Parked(Await(Now(g), g, Needs[g], "inputs"))
    <3>1. Below(g, Needs[g])  BY <1>1, <2>1, NeedsBelow
    <3>. QED  BY <1>0, <1>1, <3>1, AwaitFree
  <2>2. Parked(IF Needs[g] = {} THEN Succeed(Now(g), g)
               ELSE Await(Now(g), g, Needs[g], "inputs"))
    BY <1>2, <2>1
  <2>. QED  BY <1>3, <2>2, SuspendInv DEF ResolutionInit
<1>4. CASE ResolutionInputs(g)
  <2>1. Parked(IF NrFailed(state, g) = 0 THEN Succeed(Now(g), g)
               ELSE AmDone(Now(g), g, "failed"))
    BY <1>2
  <2>. QED  BY <1>4, <2>1, SuspendInv DEF ResolutionInputs
<1>. QED  BY <1>3, <1>4

\* DerivationBuildingGoal, until the outputs are locked.
LEMMA BuildingInv ==
    ASSUME WorkerInv, NEW g,
           \/ BuildingInit(g) \/ BuildingSources(g) \/ LocksBusy(g) \/ AlreadyBuilt(g)
           \/ HookAccepts(g) \/ HookPostpones(g) \/ BuildHere(g)
    PROVE  WorkerInv'
<1>0. /\ "new" \notin ChildPoints /\ "sources" \notin ChildPoints /\ "try" \notin ChildPoints
      /\ "sources" \in AwaitPoints /\ "hook" \in ChildPoints
      /\ "try" \in LookPoints /\ "local" \in ReadyPoints
  BY DEF ChildPoints, AwaitPoints, LookPoints, ReadyPoints
<1>1. Free(Now(g), g) /\ g \in Goals /\ Kind[g] = "building"
  BY <1>0, ResumeFree DEF BuildingInit, BuildingSources, LocksBusy, AlreadyBuilt, HookAccepts,
                          HookPostpones, BuildHere, Locked, Free
<1>2. \A result : Parked(AmDone(Now(g), g, result))  BY <1>1, DoneParks
<1>3. Parked(Yield(Now(g), g, "try"))  BY <1>0, <1>1, YieldParks DEF Free
<1>4. Parked(WaitForAWhile(Now(g), g, "try"))  BY <1>1, WaitForAWhileParks DEF Free
<1>5. CASE BuildingInit(g)
  <2>1. PICK G \in SUBSET (Needs[g] \ state.valid) :
               Suspend(IF G = {} THEN Yield(Now(g), g, "try")
                       ELSE Await(Now(g), g, G, "sources"))
    BY <1>5 DEF BuildingInit
  <2>2. ASSUME G # {} PROVE Parked(Await(Now(g), g, G, "sources"))
    <3>1. Below(g, G)  BY <1>1, <2>2, NeedsBelow
    <3>. QED  BY <1>0, <1>1, <3>1, AwaitFree
  <2>3. Parked(IF G = {} THEN Yield(Now(g), g, "try") ELSE Await(Now(g), g, G, "sources"))
    BY <1>3, <2>2
  <2>. QED  BY <2>1, <2>3, SuspendInv
<1>6. CASE BuildingSources(g)
  <2>1. Parked(IF NrFailed(state, g) # 0 THEN AmDone(Now(g), g, "failed")
               ELSE Yield(Now(g), g, "try"))
    BY <1>2, <1>3
  <2>. QED  BY <1>6, <2>1, SuspendInv DEF BuildingSources
<1>7. CASE LocksBusy(g) \/ HookPostpones(g)
  BY <1>4, <1>7, SuspendInv DEF LocksBusy, HookPostpones
<1>8. CASE AlreadyBuilt(g)
  <2>1. Parked(Succeed(Now(g), g))  BY <1>1, SucceedParks
  <2>. QED  BY <1>8, <2>1, SuspendInv DEF AlreadyBuilt
<1>9. CASE HookAccepts(g)
  <2>1. MayStart(Now(g), g, FALSE)  BY <1>1 DEF MayStart
  <2>2. Parked(ChildStarted(Now(g), g, FALSE, "hook"))
    BY <1>0, <1>1, <2>1, ChildStartedParks DEF Free
  <2>. QED  BY <1>9, <2>2, SuspendInv DEF HookAccepts
<1>10. CASE BuildHere(g)
  <2>1. PICK ask : \/ Suspend(Yield([Now(g) EXCEPT !.tryBuildHook = ask], g, "local"))
                   \/ Suspend(AmDone([Now(g) EXCEPT !.tryBuildHook = ask], g, "failed"))
    BY <1>10 DEF BuildHere
  <2>. DEFINE r == [Now(g) EXCEPT !.tryBuildHook = ask]
  <2>2. Free(r, g)
    <3>1. DOMAIN Now(g) = Fields  BY <1>1 DEF Free, RunningInv, BaseInv, StateTypes
    <3>2. Alike(Now(g), r)  BY <3>1 DEF Alike, Frame, Fields
    <3>. HIDE DEF r
    <3>. QED  BY <1>1, <3>2, AlikeRunning DEF Free
  <2>. HIDE DEF r
  <2>3. Parked(Yield(r, g, "local"))  BY <1>0, <2>2, YieldParks DEF Free
  <2>4. Parked(AmDone(r, g, "failed"))  BY <2>2, DoneParks
  <2>5. Suspend(Yield(r, g, "local")) \/ Suspend(AmDone(r, g, "failed"))  BY <2>1 DEF r
  <2>. QED  BY <2>3, <2>4, <2>5, SuspendInv
<1>. QED  BY <1>5, <1>6, <1>7, <1>8, <1>9, <1>10

\* The counters and the events of the goal that runs are those of the state.
LEMMA NowFields ==
    ASSUME WorkerInv, NEW g, NEW kind, NEW point, Resume(g, kind, point)
    PROVE  /\ Now(g).nrLocalBuilds = state.nrLocalBuilds
           /\ Now(g).nrSubstitutions = state.nrSubstitutions
           /\ Now(g).maxBuildJobs = state.maxBuildJobs
           /\ Now(g).at = state.at
BY ResumeFacts DEF Frame, Fields

\* DerivationBuildingGoal::buildLocally.
LEMMA LocalInv ==
    ASSUME WorkerInv, NEW g, LocalSlot(g) \/ NoBuildUser(g) \/ StartBuild(g)
    PROVE  WorkerInv'
<1>0. /\ "local" \notin ChildPoints /\ "user" \notin ChildPoints /\ "building" \in ChildPoints
  BY DEF ChildPoints
<1>1. PICK point \in {"local", "user"} : Resume(g, "building", point)
  BY DEF LocalSlot, NoBuildUser, StartBuild, Starting
<1>2. Free(Now(g), g) /\ g \in Goals /\ Kind[g] = "building"
  BY <1>0, <1>1, ResumeFree DEF Free
<1>3. Now(g).nrLocalBuilds = state.nrLocalBuilds /\ Now(g).maxBuildJobs = state.maxBuildJobs
  BY <1>1, NowFields
<1>4. CASE LocalSlot(g)
  <2>1. Now(g).nrLocalBuilds >= Now(g).maxBuildJobs  BY <1>3, <1>4 DEF LocalSlot
  <2>2. Parked(WaitForBuildSlot(Now(g), g, "try"))
    BY <1>2, <2>1, WaitForBuildSlotParks DEF Free
  <2>. QED  BY <1>4, <2>2, SuspendInv DEF LocalSlot
<1>5. CASE NoBuildUser(g)
  <2>1. Parked(WaitForAWhile(Now(g), g, "user"))  BY <1>2, WaitForAWhileParks DEF Free
  <2>. QED  BY <1>5, <2>1, SuspendInv DEF NoBuildUser
<1>6. CASE StartBuild(g)
  <2>1. MayStart(Now(g), g, TRUE)  BY <1>2, <1>3, <1>6 DEF MayStart, StartBuild
  <2>2. Parked(ChildStarted(Now(g), g, TRUE, "building"))
    BY <1>0, <1>2, <2>1, ChildStartedParks DEF Free
  <2>3. Parked(AmDone(Now(g), g, "failed"))  BY <1>2, DoneParks
  <2>. QED  BY <1>6, <2>2, <2>3, SuspendInv DEF StartBuild
<1>. QED  BY <1>4, <1>5, <1>6

\* The child of a build has sent something.
LEMMA BuildEventInv ==
    ASSUME WorkerInv, NEW g, LogTooLong(g) \/ BuildOutput(g) \/ BuildEnds(g)
    PROVE  WorkerInv'
<1>1. PICK point \in {"building", "hook"} : Resume(g, "building", point)
  BY DEF LogTooLong, BuildOutput, BuildEnds
<1>2. g \in Goals /\ RunningInv(Now(g), g) /\ g \in Now(g).children /\ Now(g).at[g] \in ChildPoints
  BY <1>1, ResumeFacts, NowFields DEF ChildPoints
<1>. DEFINE s == ChildTerminated(Now(g), {g})
<1>3. Free(s, g)  BY <1>2, ChildTerminatedRuns DEF Free
<1>4. Parked([Now(g) EXCEPT !.events[g] = {}])  BY <1>2, OutputParks
<1>5. \/ \E result : Suspend(AmDone(s, g, result))
      \/ Suspend(Succeed(s, g))
      \/ Suspend([Now(g) EXCEPT !.events[g] = {}])
  BY DEF LogTooLong, BuildOutput, BuildEnds
<1>. HIDE DEF s
<1>6. Parked(Succeed(s, g)) /\ \A result : Parked(AmDone(s, g, result))
  BY <1>3, DoneParks, SucceedParks
<1>. QED  BY <1>4, <1>5, <1>6, SuspendInv

\* What the loop over the substituters can do parks the goal.
LEMMA SubstituteParks ==
    ASSUME NEW s, NEW g, Free(s, g), NEW r \in Substitute(s, g)
    PROVE  Parked(r)
<1>0. DOMAIN s = Fields /\ g \in Goals  BY DEF Free, RunningInv, BaseInv, StateTypes
<1>1. ASSUME NEW n, r = NextSubstituter(s, g, n) PROVE Parked(r)
  <2>. DEFINE s1 == [s EXCEPT !.subs[g] = n]
  <2>1. Alike(s, s1)  BY <1>0 DEF Alike, Frame, Fields
  <2>2. r = IF Needs[g] = {} THEN Yield(s1, g, "run") ELSE Await(s1, g, Needs[g], "references")
    BY <1>1 DEF NextSubstituter
  <2>. HIDE DEF s1
  <2>3. Free(s1, g)  BY <2>1, AlikeRunning DEF Free
  <2>4. "run" \in LookPoints /\ "references" \in AwaitPoints  BY DEF LookPoints, AwaitPoints
  <2>5. Parked(Yield(s1, g, "run"))  BY <2>3, <2>4, YieldParks DEF Free
  <2>6. ASSUME Needs[g] # {} PROVE Parked(Await(s1, g, Needs[g], "references"))
    <3>1. Below(g, Needs[g])  BY <1>0, <2>6, NeedsBelow
    <3>. QED  BY <2>3, <2>4, <3>1, AwaitFree
  <2>. QED  BY <2>2, <2>5, <2>6
<1>2. ASSUME r \in NoSubstituter(s, g) PROVE Parked(r)
  <2>1. (\E result : r = AmDone(s, g, result)) \/ r = [s EXCEPT !.stop = "threw"]
    BY <1>2 DEF NoSubstituter
  <2>2. Parked([s EXCEPT !.stop = "threw"])  BY StopParks DEF Free
  <2>3. \A result : Parked(AmDone(s, g, result))  BY DoneParks
  <2>. QED  BY <2>1, <2>2, <2>3
<1>. QED  BY <1>1, <1>2 DEF Substitute

\* The events that a goal has read, and what it notes of a substituter.
LEMMA EventsRead ==
    ASSUME NEW s, NEW g \in Goals, RunningInv(s, g)
    PROVE  RunningInv([s EXCEPT !.events[g] = {}], g)
<1>. SUFFICES ASSUME NEW r, r = [s EXCEPT !.events[g] = {}] PROVE RunningInv(r, g)  OBVIOUS
<1>0. StateTypes(s) /\ SlotInv(s) /\ LinkInv(s) /\ KeepInv(s) /\ s.stop = "no"
  BY DEF RunningInv, BaseInv
<1>1. Frame(s, r, {"events"}) /\ r.events = [s.events EXCEPT ![g] = {}]
  BY <1>0 DEF StateTypes, Frame, Fields
<1>2. /\ DOMAIN r = Fields
      /\ r.at = s.at /\ r.waitees = s.waitees /\ r.waiters = s.waiters
      /\ r.topGoals = s.topGoals /\ r.awake = s.awake /\ r.batch = s.batch /\ r.todo = s.todo
      /\ r.wantingToBuild = s.wantingToBuild /\ r.waitingForAWhile = s.waitingForAWhile
      /\ r.children = s.children /\ r.slots = s.slots /\ r.orphans = s.orphans
      /\ r.nrLocalBuilds = s.nrLocalBuilds /\ r.nrSubstitutions = s.nrSubstitutions
      /\ r.maxBuildJobs = s.maxBuildJobs /\ r.keepGoing = s.keepGoing /\ r.stop = s.stop
  BY <1>1 DEF Frame, Fields
<1>3. StateTypes(r)  BY <1>0, <1>1, <1>2 DEF StateTypes
<1>4. SlotInv(r)
  <2>1. \A kinds : Running(r, kinds) = Running(s, kinds)  BY <1>2 DEF Running
  <2>. QED  BY <1>0, <1>2, <2>1 DEF SlotInv
<1>5. LinkInv(r)  BY <1>0, <1>2, SameLinks
<1>6. KeepInv(r)  BY <1>0, <1>2 DEF KeepInv
<1>7. ASSUME NEW h \in Goals \ {g} PROVE PlaceInv(r, h)
  <2>1. PlaceInv(s, h) /\ r.events[h] = s.events[h]
    BY <1>0, <1>1, <1>7 DEF RunningInv, StateTypes
  <2>. QED  BY <1>2, <2>1 DEF PlaceInv, Ready, Waiting, SlotTaken
<1>. QED  BY <1>0, <1>2, <1>3, <1>4, <1>5, <1>6, <1>7 DEF RunningInv, BaseInv, Ready, Waiting

\* A substitution or a query has ended; the goal goes on without a child.
LEMMA EndedFree ==
    ASSUME NEW s, NEW g \in Goals, RunningInv(s, g), NEW failed
    PROVE  LET r == ChildTerminated([s EXCEPT !.events[g] = {}], {g})
           IN  Free(r, g) /\ Free([r EXCEPT !.substituterFailed[g] = failed], g)
<1>. DEFINE s1 == [s EXCEPT !.events[g] = {}]
            r == ChildTerminated(s1, {g})
            r1 == [r EXCEPT !.substituterFailed[g] = failed]
<1>1. RunningInv(s1, g)  BY EventsRead
<1>. HIDE DEF s1
<1>2. Free(r, g)  BY <1>1, ChildTerminatedRuns DEF Free
<1>. HIDE DEF r
<1>3. DOMAIN r = Fields  BY <1>2 DEF Free, RunningInv, BaseInv, StateTypes
<1>4. Alike(r, r1)  BY <1>3 DEF Alike, Frame, Fields
<1>. HIDE DEF r1
<1>5. Free(r1, g)  BY <1>2, <1>4, AlikeRunning DEF Free
<1>. QED  BY <1>2, <1>5 DEF r1, r, s1

\* PathSubstitutionGoal.
LEMMA SubstitutionInv ==
    ASSUME WorkerInv, NEW g,
           \/ SubstitutionInit(g) \/ SubstitutionReferences(g)
           \/ SubstitutionRun(g) \/ SubstitutionEnds(g)
    PROVE  WorkerInv'
<1>0. /\ "new" \notin ChildPoints /\ "references" \notin ChildPoints /\ "run" \notin ChildPoints
      /\ "copying" \in ChildPoints /\ "run" \in LookPoints
  BY DEF ChildPoints, LookPoints
<1>1. CASE SubstitutionInit(g)
  <2>1. Free(Now(g), g)  BY <1>0, <1>1, ResumeFree DEF SubstitutionInit
  <2>2. Parked(Succeed(Now(g), g))  BY <2>1, SucceedParks
  <2>3. \A s \in Substitute(Now(g), g) : Parked(s)  BY <2>1, SubstituteParks
  <2>. QED  BY <1>1, <2>2, <2>3, SuspendInv DEF SubstitutionInit
<1>2. CASE SubstitutionReferences(g)
  <2>1. Free(Now(g), g)  BY <1>0, <1>2, ResumeFree DEF SubstitutionReferences
  <2>2. \A result : Parked(AmDone(Now(g), g, result))  BY <2>1, DoneParks
  <2>3. Parked(Yield(Now(g), g, "run"))  BY <1>0, <2>1, YieldParks DEF Free
  <2>4. (\E result : Suspend(AmDone(Now(g), g, result))) \/ Suspend(Yield(Now(g), g, "run"))
    BY <1>2 DEF SubstitutionReferences
  <2>. QED  BY <2>2, <2>3, <2>4, SuspendInv
<1>3. CASE SubstitutionRun(g)
  <2>1. Free(Now(g), g) /\ Kind[g] = "substitution"
    BY <1>0, <1>3, ResumeFree DEF SubstitutionRun
  <2>2. Now(g).nrSubstitutions = state.nrSubstitutions
    BY <1>3, NowFields DEF SubstitutionRun
  <2>3. CASE state.nrSubstitutions >= Limit
    <3>1. Parked(WaitForBuildSlot(Now(g), g, "run"))
      BY <2>1, <2>2, <2>3, WaitForBuildSlotParks DEF Free
    <3>2. Suspend(WaitForBuildSlot(Now(g), g, "run"))  BY <1>3, <2>3 DEF SubstitutionRun, Limit
    <3>. QED  BY <3>1, <3>2, SuspendInv
  <2>4. CASE ~(state.nrSubstitutions >= Limit)
    <3>1. state.nrSubstitutions \in Nat /\ Limit \in Nat
      BY SchedulerAssumption DEF WorkerInv, SettledInv, BaseInv, StateTypes, Limit
    <3>2. MayStart(Now(g), g, TRUE)  BY <2>1, <2>2, <2>4, <3>1 DEF MayStart
    <3>3. Parked(ChildStarted(Now(g), g, TRUE, "copying"))
      BY <1>0, <2>1, <3>2, ChildStartedParks DEF Free
    <3>4. Suspend(ChildStarted(Now(g), g, TRUE, "copying"))
      BY <1>3, <2>4 DEF SubstitutionRun, Limit
    <3>. QED  BY <3>3, <3>4, SuspendInv
  <2>. QED  BY <2>3, <2>4
<1>4. CASE SubstitutionEnds(g)
  <2>1. g \in Goals /\ RunningInv(Now(g), g)  BY <1>4, ResumeFacts DEF SubstitutionEnds
  <2>. DEFINE s == ChildTerminated([Now(g) EXCEPT !.events[g] = {}], {g})
              f(failed) == [s EXCEPT !.substituterFailed[g] = failed]
  <2>2. Free(s, g) /\ \A failed : Free(f(failed), g)  BY <2>1, EndedFree
  <2>3. \/ Suspend(Succeed(s, g))
        \/ \E failed : \E s1 \in Substitute(f(failed), g) : Suspend(s1)
    BY <1>4 DEF SubstitutionEnds
  <2>. HIDE DEF s, f
  <2>4. Parked(Succeed(s, g))  BY <2>2, SucceedParks
  <2>5. \A failed : \A s1 \in Substitute(f(failed), g) : Parked(s1)  BY <2>2, SubstituteParks
  <2>. QED  BY <2>3, <2>4, <2>5, SuspendInv
<1>. QED  BY <1>1, <1>2, <1>3, <1>4

\* The loop of a query parks the goal: the query takes a slot in any case.
LEMMA QueryParks ==
    ASSUME NEW s, NEW g, Free(s, g), Kind[g] = "realisation"
    PROVE  Parked(QueryNext(s, g))
<1>0. DOMAIN s = Fields  BY DEF Free, RunningInv, BaseInv, StateTypes
<1>. DEFINE s1 == [s EXCEPT !.subs[g] = @ - 1]
            result == IF s.substituterFailed[g] THEN "failed" ELSE "nosubstituters"
<1>1. Alike(s, s1)  BY <1>0 DEF Alike, Frame, Fields
<1>2. QueryNext(s, g) = IF s.subs[g] = 0 THEN AmDone(s, g, result)
                        ELSE ChildStarted(s1, g, TRUE, "querying")
  BY DEF QueryNext
<1>. HIDE DEF s1, result
<1>3. Free(s1, g)  BY <1>1, AlikeRunning DEF Free
<1>4. MayStart(s1, g, TRUE) /\ "querying" \in ChildPoints  BY DEF MayStart, ChildPoints
<1>5. Parked(ChildStarted(s1, g, TRUE, "querying"))  BY <1>3, <1>4, ChildStartedParks DEF Free
<1>6. Parked(AmDone(s, g, result))  BY DoneParks
<1>. QED  BY <1>2, <1>5, <1>6

\* DrvOutputSubstitutionGoal.
LEMMA RealisationInv ==
    ASSUME WorkerInv, NEW g, RealisationInit(g) \/ RealisationQueried(g)
    PROVE  WorkerInv'
<1>0. "new" \notin ChildPoints  BY DEF ChildPoints
<1>1. CASE RealisationInit(g)
  <2>1. Free(Now(g), g) /\ Kind[g] = "realisation"  BY <1>0, <1>1, ResumeFree DEF RealisationInit
  <2>2. Parked(Succeed(Now(g), g)) /\ Parked(QueryNext(Now(g), g))
    BY <2>1, SucceedParks, QueryParks
  <2>. QED  BY <1>1, <2>2, SuspendInv DEF RealisationInit
<1>2. CASE RealisationQueried(g)
  <2>1. g \in Goals /\ RunningInv(Now(g), g) /\ Kind[g] = "realisation"
    BY <1>2, ResumeFacts DEF RealisationQueried
  <2>. DEFINE s == ChildTerminated([Now(g) EXCEPT !.events[g] = {}], {g})
              f(failed) == [s EXCEPT !.substituterFailed[g] = failed]
  <2>2. Free(s, g) /\ \A failed : Free(f(failed), g)  BY <2>1, EndedFree
  <2>3. Suspend(Succeed(s, g)) \/ \E failed : Suspend(QueryNext(f(failed), g))
    BY <1>2 DEF RealisationQueried
  <2>. HIDE DEF s, f
  <2>4. Parked(Succeed(s, g)) /\ \A failed : Parked(QueryNext(f(failed), g))
    BY <2>1, <2>2, SucceedParks, QueryParks
  <2>. QED  BY <2>3, <2>4, SuspendInv
<1>. QED  BY <1>1, <1>2

-----------------------------------------------------------------------------
(* The steps of run                                                          *)

\* The lists of goals to be called change between the batches.
Rebatched(s, r) ==
    /\ Frame(s, r, {"awake", "batch", "todo", "stop"})
    /\ r.awake \subseteq Goals /\ r.batch \subseteq Goals /\ r.todo \subseteq r.batch

\* This does not disturb the links and the counters.
LEMMA RebatchedBase ==
    ASSUME NEW s, BaseInv(s), NEW r, Rebatched(s, r)
    PROVE  BaseInv(r)
<1>0. StateTypes(s) /\ SlotInv(s) /\ LinkInv(s) /\ KeepInv(s)  BY DEF BaseInv
<1>1. /\ DOMAIN r = Fields
      /\ r.at = s.at /\ r.waitees = s.waitees /\ r.waiters = s.waiters /\ r.events = s.events
      /\ r.topGoals = s.topGoals
      /\ r.wantingToBuild = s.wantingToBuild /\ r.waitingForAWhile = s.waitingForAWhile
      /\ r.children = s.children /\ r.slots = s.slots /\ r.orphans = s.orphans
      /\ r.nrLocalBuilds = s.nrLocalBuilds /\ r.nrSubstitutions = s.nrSubstitutions
      /\ r.maxBuildJobs = s.maxBuildJobs /\ r.keepGoing = s.keepGoing
  BY DEF Rebatched, Frame, Fields
<1>2. StateTypes(r)  BY <1>0, <1>1 DEF StateTypes, Rebatched
<1>3. SlotInv(r)
  <2>1. \A kinds : Running(r, kinds) = Running(s, kinds)  BY <1>1 DEF Running
  <2>. QED  BY <1>0, <1>1, <2>1 DEF SlotInv
<1>4. LinkInv(r)  BY <1>0, <1>1, SameLinks
<1>5. KeepInv(r)  BY <1>0, <1>1 DEF KeepInv
<1>. QED  BY <1>2, <1>3, <1>4, <1>5 DEF BaseInv

\* Nor the places, if the same goals are ready.
LEMMA RebatchedPlaces ==
    ASSUME NEW s, NEW r, Rebatched(s, r), NEW h, PlaceInv(s, h),
           Ready(r, h) <=> Ready(s, h), ~(h \in r.awake /\ h \in r.todo)
    PROVE  PlaceInv(r, h)
<1>1. /\ r.at = s.at /\ r.waitees = s.waitees /\ r.events = s.events
      /\ r.wantingToBuild = s.wantingToBuild /\ r.waitingForAWhile = s.waitingForAWhile
      /\ r.children = s.children /\ r.slots = s.slots /\ r.orphans = s.orphans
      /\ r.maxBuildJobs = s.maxBuildJobs
  BY DEF Rebatched, Frame, Fields
<1>2. Waiting(r, h) <=> Waiting(s, h)  BY <1>1 DEF Waiting
<1>3. SlotTaken(r, h) <=> SlotTaken(s, h)  BY <1>1 DEF SlotTaken
<1>. QED  BY <1>1, <1>2, <1>3 DEF PlaceInv

\* The beginning and the end of a batch.
LEMMA BatchInv ==
    ASSUME WorkerInv, BeginBatch \/ EndBatch
    PROVE  WorkerInv'
<1>0. SettledInv(state) /\ BaseInv(state) /\ StateTypes(state) /\ DOMAIN state = Fields
  BY DEF WorkerInv, SettledInv, BaseInv, StateTypes
<1>1. CASE BeginBatch
  <2>. SUFFICES ASSUME NEW s, s = state, NEW r, r = state' PROVE SettledInv(r) /\ r.stop # "returned"
    BY DEF WorkerInv
  <2>1. /\ s.stop = "no" /\ s.batch = {}
        /\ r = [s EXCEPT !.batch = @ \cup s.awake, !.todo = s.awake, !.awake = {}]
    BY <1>1 DEF BeginBatch
  <2>2. /\ Frame(s, r, {"awake", "batch", "todo", "stop"}) /\ r.stop = s.stop
        /\ r.batch = s.awake /\ r.todo = s.awake /\ r.awake = {} /\ s.todo = {}
    <3>1. DOMAIN s = Fields /\ s.todo = {}  BY <1>0, <2>1 DEF StateTypes
    <3>2. Frame(s, r, {"awake", "batch", "todo", "stop"}) /\ r.stop = s.stop
      BY <2>1, <3>1 DEF Frame, Fields
    <3>3. r.batch = s.batch \cup s.awake /\ r.todo = s.awake /\ r.awake = {}
      BY <2>1, <3>1 DEF Fields
    <3>. QED  BY <2>1, <3>1, <3>2, <3>3
  <2>3. Rebatched(s, r)  BY <1>0, <2>2 DEF Rebatched, StateTypes
  <2>4. BaseInv(r)  BY <1>0, <2>3, RebatchedBase
  <2>5. ASSUME NEW h \in Goals PROVE PlaceInv(r, h)
    <3>1. PlaceInv(s, h)  BY <1>0, <2>1 DEF SettledInv
    <3>2. (Ready(r, h) <=> Ready(s, h)) /\ ~(h \in r.awake /\ h \in r.todo)  BY <2>2 DEF Ready
    <3>. QED  BY <2>3, <3>1, <3>2, RebatchedPlaces
  <2>. QED  BY <2>1, <2>2, <2>4, <2>5 DEF SettledInv
<1>2. CASE EndBatch
  <2>. DEFINE r == [state EXCEPT !.batch = {}]
  <2>1. state.stop = "no" /\ state.todo = {} /\ state' = Destroy(r)  BY <1>2 DEF EndBatch
  <2>2. /\ Frame(state, r, {"awake", "batch", "todo", "stop"}) /\ r.stop = state.stop
        /\ r.batch = {} /\ r.todo = state.todo /\ r.awake = state.awake
    BY <1>0 DEF Frame, Fields
  <2>. HIDE DEF r
  <2>3. Rebatched(state, r)  BY <1>0, <2>1, <2>2 DEF Rebatched, StateTypes
  <2>4. BaseInv(r)  BY <1>0, <2>3, RebatchedBase
  <2>5. ASSUME NEW h \in Goals PROVE PlaceInv(r, h)
    <3>1. PlaceInv(state, h)  BY <1>0, <2>1 DEF SettledInv
    <3>2. (Ready(r, h) <=> Ready(state, h)) /\ ~(h \in r.awake /\ h \in r.todo)
      BY <2>1, <2>2 DEF Ready
    <3>. QED  BY <2>3, <3>1, <3>2, RebatchedPlaces
  <2>6. Parked(r)  BY <2>1, <2>2, <2>4, <2>5 DEF Parked, SettledInv
  <2>7. Suspend(r)  BY <2>1 DEF Suspend
  <2>. QED  BY <2>6, <2>7, SuspendInv
<1>. QED  BY <1>1, <1>2

\* The ends of run.  With keep-going no goal is left: the deepest would be a top goal.
LEMMA ReturnInv ==
    ASSUME WorkerInv, NoJobs \/ Return
    PROVE  WorkerInv'
<1>0. SettledInv(state) /\ BaseInv(state) /\ StateTypes(state) /\ DOMAIN state = Fields
  BY DEF WorkerInv, SettledInv, BaseInv, StateTypes
<1>. SUFFICES ASSUME NEW s, s = state, NEW r, r = state'
              PROVE  /\ SettledInv(r)
                     /\ r.stop = "returned" /\ r.keepGoing =>
                           r.awake \cup r.wantingToBuild \cup r.children = {}
  BY DEF WorkerInv
<1>1. CASE NoJobs
  <2>1. r = [s EXCEPT !.stop = "threw"]  BY <1>1 DEF NoJobs
  <2>2. /\ Frame(s, r, {"awake", "batch", "todo", "stop"}) /\ r.stop = "threw"
        /\ r.batch = s.batch /\ r.todo = s.todo /\ r.awake = s.awake
    BY <1>0, <2>1 DEF Frame, Fields
  <2>3. Rebatched(s, r)  BY <1>0, <2>2 DEF Rebatched, StateTypes
  <2>. QED  BY <1>0, <2>2, <2>3, RebatchedBase DEF SettledInv
<1>2. CASE Return
  <2>1. /\ s.stop = "no" /\ s.topGoals = {}
        /\ r = [s EXCEPT !.stop = "returned", !.batch = {}, !.todo = {}]
    BY <1>2 DEF Return
  <2>2. /\ Frame(s, r, {"awake", "batch", "todo", "stop"}) /\ r.stop = "returned"
        /\ r.batch = {} /\ r.todo = {} /\ r.awake = s.awake
        /\ r.keepGoing = s.keepGoing /\ r.wantingToBuild = s.wantingToBuild
        /\ r.children = s.children
    BY <1>0, <2>1 DEF Frame, Fields
  <2>3. Rebatched(s, r)  BY <1>0, <2>2 DEF Rebatched, StateTypes
  <2>4. ASSUME s.keepGoing PROVE s.awake \cup s.wantingToBuild \cup s.children = {}
    <3>1. Live(s) = {}
      <4>. SUFFICES ASSUME Live(s) # {} PROVE FALSE  OBVIOUS
      <4>1. Live(s) \subseteq Goals  BY DEF Live
      <4>2. PICK g \in Live(s) : \A h \in Live(s) : ~(Depth[g] < Depth[h])  BY <4>1, Deepest
      <4>3. g \in Goals /\ s.at[g] # "none"  BY <4>2 DEF Live
      <4>4. PICK w \in s.waiters[g] : TRUE  BY <1>0, <2>1, <2>4, <4>3 DEF BaseInv, KeepInv
      <4>5. w \in Goals /\ g \in s.waitees[w]  BY <1>0, <4>3, <4>4 DEF BaseInv, StateTypes, LinkInv
      <4>6. Depth[g] < Depth[w] /\ s.at[w] # "none"  BY <1>0, <4>5 DEF BaseInv, LinkInv
      <4>. QED  BY <4>2, <4>5, <4>6 DEF Live
    <3>2. ASSUME NEW h \in Goals PROVE h \notin s.awake \cup s.wantingToBuild \cup s.children
      <4>1. PlaceInv(s, h)  BY <1>0, <2>1 DEF SettledInv
      <4>2. s.at[h] = "none"  BY <3>1 DEF Live
      <4>. QED  BY <4>1, <4>2 DEF PlaceInv, Ready, Waiting
    <3>. QED  BY <1>0, <3>2 DEF StateTypes
  <2>. QED  BY <1>0, <2>2, <2>3, <2>4, RebatchedBase DEF SettledInv
<1>. QED  BY <1>1, <1>2

\* waitForInput wakes children that have sent something, and sleepers.
LEMMA InputInv ==
    ASSUME WorkerInv, WaitForInput
    PROVE  WorkerInv'
<1>0. /\ SettledInv(state) /\ BaseInv(state) /\ StateTypes(state) /\ DOMAIN state = Fields
      /\ SlotInv(state) /\ LinkInv(state) /\ KeepInv(state)
  BY DEF WorkerInv, SettledInv, BaseInv, StateTypes
<1>1. PICK elapsed \in BOOLEAN,
           input \in [state.children -> SUBSET {"output", "eof", "timeout"}] : Input(input, elapsed)
  BY DEF WaitForInput
<1>. SUFFICES ASSUME NEW s, s = state, NEW r, r = state' PROVE SettledInv(r) /\ r.stop # "returned"
  BY DEF WorkerInv
<1>2. s.stop = "no" /\ s.batch = {} /\ s.awake = {} /\ s.todo = {}
  BY <1>0 DEF WaitForInput, Idle, StateTypes
<1>. DEFINE E == {g \in s.children : input[g] # {}}
            sleepers == IF elapsed THEN s.waitingForAWhile ELSE {}
            s1 == WakeUp(s, E \cup sleepers)
<1>3. r = IF s.orphans # 0 THEN [s EXCEPT !.stop = "waitForInput"]
          ELSE [s1 EXCEPT
                  !.events = [g \in Goals |-> IF g \in E THEN PushChildEvents(@[g], input[g])
                                              ELSE @[g]],
                  !.waitingForAWhile = @ \ sleepers]
  BY <1>1 DEF Input
<1>4. CASE s.orphans # 0
  <2>1. r = [s EXCEPT !.stop = "waitForInput"]  BY <1>3, <1>4
  <2>2. /\ Frame(s, r, {"awake", "batch", "todo", "stop"}) /\ r.stop = "waitForInput"
        /\ r.batch = s.batch /\ r.todo = s.todo /\ r.awake = s.awake
    BY <1>0, <2>1 DEF Frame, Fields
  <2>3. Rebatched(s, r)  BY <1>0, <2>2 DEF Rebatched, StateTypes
  <2>. QED  BY <1>0, <2>2, <2>3, RebatchedBase DEF SettledInv
<1>5. CASE s.orphans = 0
  <2>1. Frame(s, s1, {"awake"}) /\ s1.awake = s.awake \cup (E \cup sleepers)
    BY <1>0, WakeUpFrame
  <2>2. r = [s1 EXCEPT
               !.events = [g \in Goals |-> IF g \in E THEN PushChildEvents(@[g], input[g])
                                           ELSE @[g]],
               !.waitingForAWhile = @ \ sleepers]
    BY <1>3, <1>5
  <2>3. E \subseteq s.children /\ sleepers \subseteq s.waitingForAWhile
    OBVIOUS
  <2>4. \A h \in E : input[h] # {}  OBVIOUS
  <2>. HIDE DEF s1, E, sleepers
  <2>5. /\ DOMAIN s1 = Fields /\ s1.events = s.events
        /\ s1.waitingForAWhile = s.waitingForAWhile /\ s1.awake = E \cup sleepers
    BY <1>2, <2>1 DEF Frame, Fields
  <2>6. /\ \A f \in Fields \ {"events", "waitingForAWhile"} : r[f] = s1[f]
        /\ DOMAIN r = Fields
        /\ r.events = [g \in Goals |-> IF g \in E THEN PushChildEvents(s.events[g], input[g])
                                       ELSE s.events[g]]
        /\ r.waitingForAWhile = s.waitingForAWhile \ sleepers
    <3>. DEFINE events == [g \in Goals |-> IF g \in E THEN PushChildEvents(s.events[g], input[g])
                                           ELSE s.events[g]]
    <3>1. r = [s1 EXCEPT !.events = events, !.waitingForAWhile = @ \ sleepers]  BY <2>2, <2>5
    <3>2. events = [g \in Goals |-> IF g \in E THEN PushChildEvents(s.events[g], input[g])
                                    ELSE s.events[g]]
      OBVIOUS
    <3>. HIDE DEF events
    <3>3. /\ \A f \in Fields \ {"events", "waitingForAWhile"} : r[f] = s1[f]
          /\ DOMAIN r = Fields /\ r.events = events
          /\ r.waitingForAWhile = s.waitingForAWhile \ sleepers
      BY <2>5, <3>1 DEF Fields
    <3>. QED  BY <3>2, <3>3, Zenon
  <2>7. Frame(s, r, {"awake", "events", "waitingForAWhile"}) /\ r.awake = E \cup sleepers
    BY <2>1, <2>5, <2>6 DEF Frame, Fields
  <2>8. /\ r.at = s.at /\ r.waitees = s.waitees /\ r.waiters = s.waiters
        /\ r.topGoals = s.topGoals /\ r.batch = s.batch /\ r.todo = s.todo
        /\ r.wantingToBuild = s.wantingToBuild
        /\ r.children = s.children /\ r.slots = s.slots /\ r.orphans = s.orphans
        /\ r.nrLocalBuilds = s.nrLocalBuilds /\ r.nrSubstitutions = s.nrSubstitutions
        /\ r.maxBuildJobs = s.maxBuildJobs /\ r.keepGoing = s.keepGoing /\ r.stop = s.stop
    BY <2>7 DEF Frame, Fields
  <2>9. StateTypes(r)
    <3>1. DOMAIN r.events = Goals  BY <2>6
    <3>2. r.awake \subseteq Goals /\ r.waitingForAWhile \subseteq Goals
      BY <1>0, <2>3, <2>6, <2>7 DEF StateTypes
    <3>. QED  BY <1>0, <2>6, <2>8, <3>1, <3>2 DEF StateTypes
  <2>10. SlotInv(r)
    <3>1. \A kinds : Running(r, kinds) = Running(s, kinds)  BY <2>8 DEF Running
    <3>. QED  BY <1>0, <2>8, <3>1 DEF SlotInv
  <2>11. LinkInv(r)  BY <1>0, <2>8, SameLinks
  <2>12. KeepInv(r)  BY <1>0, <2>8 DEF KeepInv
  <2>13. ASSUME NEW h \in Goals PROVE PlaceInv(r, h)
    <3>1. PlaceInv(s, h) /\ ~Ready(s, h) /\ s.at[h] \in Points
      BY <1>0, <1>2 DEF SettledInv, Ready, StateTypes
    <3>2. CASE h \in E
      <4>1. h \in s.children /\ s.at[h] \in ChildPoints
        BY <2>3, <3>1, <3>2 DEF PlaceInv, Points
      <4>2. r.events[h] # {}
        <5>1. r.events[h] = PushChildEvents(s.events[h], input[h])  BY <2>6, <3>2
        <5>. QED  BY <2>4, <3>2, <5>1 DEF PushChildEvents
      <4>3. ~Waiting(s, h)  BY <3>1, <4>1 DEF PlaceInv
      <4>. QED
        BY <2>6, <2>8, <1>2, <3>1, <4>1, <4>2, <4>3
        DEF PlaceInv, Ready, Waiting, AwaitPoints, ChildPoints, ReadyPoints, LookPoints
    <3>3. CASE h \in sleepers
      <4>1. h \in s.waitingForAWhile /\ s.at[h] \in LookPoints
        BY <2>3, <3>1, <3>3 DEF PlaceInv, Points, Waiting
      <4>2. h \notin s.wantingToBuild  BY <3>1, <4>1 DEF PlaceInv
      <4>3. h \in r.awake /\ h \notin r.waitingForAWhile  BY <2>6, <2>7, <3>3
      <4>. QED
        BY <2>8, <1>2, <3>1, <4>1, <4>2, <4>3
        DEF PlaceInv, Ready, Waiting, AwaitPoints, ChildPoints, ReadyPoints, LookPoints
    <3>4. CASE h \notin E /\ h \notin sleepers
      <4>1. /\ h \notin r.awake /\ (h \in r.waitingForAWhile <=> h \in s.waitingForAWhile)
            /\ r.events[h] = s.events[h]
        BY <2>6, <2>7, <3>4
      <4>2. Ready(r, h) <=> Ready(s, h)  BY <1>2, <2>8, <4>1 DEF Ready
      <4>3. Waiting(r, h) <=> Waiting(s, h)  BY <2>8, <4>1 DEF Waiting
      <4>4. SlotTaken(r, h) <=> SlotTaken(s, h)  BY <2>8 DEF SlotTaken
      <4>. QED  BY <1>2, <2>8, <3>1, <4>1, <4>2, <4>3, <4>4 DEF PlaceInv
    <3>. QED  BY <3>2, <3>3, <3>4
  <2>. QED  BY <1>2, <2>8, <2>9, <2>10, <2>11, <2>12, <2>13 DEF SettledInv, BaseInv
<1>6. s.orphans = 0 \/ s.orphans # 0  OBVIOUS
<1>. QED  BY <1>4, <1>5, <1>6

-----------------------------------------------------------------------------
(* The theorems                                                              *)

\* When run is called the goals it is given are new, and awake.
LEMMA WorkerInit == Init => WorkerInv
<1>. SUFFICES ASSUME Init PROVE WorkerInv  OBVIOUS
<1>1. PICK R \in Requests, c \in Settings :
        state = [at |-> [g \in Goals |-> IF g \in R THEN "new" ELSE "none"],
                 waitees |-> [g \in Goals |-> {}],
                 waiters |-> [g \in Goals |-> {}],
                 results |-> [g \in Goals |-> {}],
                 events |-> [g \in Goals |-> {}],
                 subs |-> [g \in Goals |-> NrSubstituters],
                 substituterFailed |-> [g \in Goals |-> FALSE],
                 topGoals |-> R, awake |-> R, batch |-> {}, todo |-> {},
                 wantingToBuild |-> {}, waitingForAWhile |-> {},
                 children |-> {}, slots |-> {}, orphans |-> 0,
                 nrLocalBuilds |-> 0, nrSubstitutions |-> 0,
                 tryBuildHook |-> UseHook, valid |-> {},
                 keepGoing |-> c[1], tryFallback |-> c[2], maxBuildJobs |-> c[3],
                 stop |-> "no"]
  BY DEF Init
<1>2. R \subseteq Goals /\ c[1] \in BOOLEAN /\ c[3] \in Nat  BY WorkerAssumption
<1>3. /\ DOMAIN state = Fields
      /\ state.at = [g \in Goals |-> IF g \in R THEN "new" ELSE "none"]
      /\ state.waitees = [g \in Goals |-> {}] /\ state.waiters = [g \in Goals |-> {}]
      /\ state.events = [g \in Goals |-> {}]
      /\ state.topGoals = R /\ state.awake = R /\ state.batch = {} /\ state.todo = {}
      /\ state.wantingToBuild = {} /\ state.waitingForAWhile = {}
      /\ state.children = {} /\ state.slots = {} /\ state.orphans = 0
      /\ state.nrLocalBuilds = 0 /\ state.nrSubstitutions = 0
      /\ state.keepGoing = c[1] /\ state.maxBuildJobs = c[3] /\ state.stop = "no"
  BY <1>1 DEF Fields
<1>4. StateTypes(state)
  <2>1. state.at \in [Goals -> Points]  BY <1>3 DEF Points, ReadyPoints
  <2>. QED  BY <1>2, <1>3, <2>1 DEF StateTypes
<1>5. SlotInv(state)
  <2>1. \A kinds : Running(state, kinds) = {}  BY <1>3 DEF Running
  <2>2. Cardinality({}) = 0  BY FS_EmptySet
  <2>3. 0 <= Limit  BY SchedulerAssumption DEF Limit
  <2>4. \A kinds : Cardinality(Running(state, kinds)) = 0  BY <2>1, <2>2
  <2>5. 0 <= state.maxBuildJobs /\ 0 = 0 + 0  BY <1>2, <1>3
  <2>. QED  BY <1>3, <2>3, <2>4, <2>5 DEF SlotInv
<1>6. LinkInv(state) /\ KeepInv(state)
  <2>1. LinkInv(state)  BY <1>2, <1>3 DEF LinkInv
  <2>2. KeepInv(state)  BY <1>3 DEF KeepInv
  <2>. QED  BY <2>1, <2>2
<1>7. ASSUME NEW h \in Goals PROVE PlaceInv(state, h)
  BY <1>3 DEF PlaceInv, Ready, Waiting, AwaitPoints, ChildPoints, ReadyPoints, LookPoints
<1>. QED  BY <1>3, <1>4, <1>5, <1>6, <1>7 DEF WorkerInv, SettledInv, BaseInv

\* Every step preserves it.
LEMMA WorkerNext == WorkerInv /\ [Next]_vars => WorkerInv'
<1>. SUFFICES ASSUME WorkerInv, [Next]_vars PROVE WorkerInv'  OBVIOUS
<1>1. ASSUME NEW g \in state.todo, Work(g) PROVE WorkerInv'
  <2>1. \/ TrampolineInit(g) \/ TrampolineObtained(g) \/ TrampolineBuilt(g)
        \/ DerivationInit(g) \/ DerivationRealised(g) \/ DerivationSubstituted(g)
        \/ DerivationResolved(g) \/ DerivationBuilt(g)
        \/ ResolutionInit(g) \/ ResolutionInputs(g)
        \/ BuildingInit(g) \/ BuildingSources(g)
        \/ LocksBusy(g) \/ AlreadyBuilt(g) \/ HookAccepts(g) \/ HookPostpones(g)
        \/ BuildHere(g) \/ LocalSlot(g) \/ NoBuildUser(g) \/ StartBuild(g)
        \/ LogTooLong(g) \/ BuildOutput(g) \/ BuildEnds(g)
        \/ SubstitutionInit(g) \/ SubstitutionReferences(g)
        \/ SubstitutionRun(g) \/ SubstitutionEnds(g)
        \/ RealisationInit(g) \/ RealisationQueried(g)
    BY <1>1 DEF Work
  <2>. QED
    BY <2>1, TrampolineInv, DerivationInv, ResolutionInv, BuildingInv, LocalInv, BuildEventInv,
       SubstitutionInv, RealisationInv
<1>2. CASE BeginBatch \/ EndBatch  BY <1>2, BatchInv
<1>3. CASE WaitForInput  BY <1>3, InputInv
<1>4. CASE NoJobs \/ Return  BY <1>4, ReturnInv
<1>5. CASE UNCHANGED vars  BY <1>5 DEF vars, WorkerInv
<1>. QED  BY <1>1, <1>2, <1>3, <1>4, <1>5 DEF Next

\* The inductive invariant.
THEOREM WorkerInvariant == Spec => []WorkerInv
BY WorkerInit, WorkerNext, PTL DEF Spec

\* The counters of worker.cc say what runs and stay within the limits, whatever is
\* cancelled while it runs, for any graph of goals and any limits.
THEOREM SlotsAreRespected == Spec => []SlotsRespected
<1>1. WorkerInv => SlotsRespected
  <2>. SUFFICES ASSUME WorkerInv PROVE SlotsRespected  OBVIOUS
  <2>1. SlotInv(state)  BY DEF WorkerInv, SettledInv, BaseInv
  <2>. QED  BY <2>1 DEF SlotInv, SlotsRespected, Running, Limit
<1>. QED  BY <1>1, WorkerInvariant, PTL

\* Whenever run has called all awake goals, every goal waits for exactly one thing
\* that will wake it: no wake-up is lost.
THEOREM NobodyIsForgotten == Spec => []NobodyForgotten
<1>1. WorkerInv => NobodyForgotten
  <2>. SUFFICES ASSUME WorkerInv, Idle PROVE NobodyForgotten  BY DEF NobodyForgotten
  <2>0. /\ SettledInv(state) /\ StateTypes(state) /\ LinkInv(state) /\ state.stop = "no"
        /\ state.awake = {} /\ state.todo = {}
    BY DEF WorkerInv, SettledInv, BaseInv, StateTypes, Idle
  <2>1. ASSUME NEW g \in Goals, state.at[g] # "none"
        PROVE  /\ state.at[g] \in AwaitPoints =>
                    /\ state.waitees[g] # {}
                    /\ \A w \in state.waitees[g] : state.at[w] # "none" /\ g \in state.waiters[w]
               /\ state.at[g] \in ChildPoints => g \in state.children
               /\ state.at[g] = "run" =>
                    /\ g \in state.wantingToBuild
                    /\ state.orphans # 0 \/ \E h \in state.slots : Kind[h] # "building"
               /\ state.at[g] = "user" => g \in state.waitingForAWhile
               /\ state.at[g] = "try" =>
                    \/ g \in state.waitingForAWhile
                    \/ /\ g \in state.wantingToBuild
                       /\ state.maxBuildJobs = 0 \/ \E h \in state.slots : Kind[h] = "building"
               /\ state.at[g] \in AwaitPoints \cup ChildPoints \cup {"run", "user", "try"}
    <3>1. PlaceInv(state, g) /\ ~Ready(state, g) /\ state.at[g] \in Points
      BY <2>0 DEF SettledInv, Ready, StateTypes
    <3>2. state.at[g] \in AwaitPoints \cup ChildPoints \cup {"run", "user", "try"}
      BY <2>1, <3>1 DEF PlaceInv, Points, LookPoints
    <3>3. ASSUME state.at[g] \in AwaitPoints
          PROVE  /\ state.waitees[g] # {}
                 /\ \A w \in state.waitees[g] : state.at[w] # "none" /\ g \in state.waiters[w]
      <4>1. state.waitees[g] # {}  BY <3>1, <3>3 DEF PlaceInv
      <4>2. \A w \in state.waitees[g] : w \in Goals  BY <2>0 DEF StateTypes
      <4>. QED  BY <2>0, <4>1, <4>2 DEF LinkInv
    <3>4. state.at[g] \in ChildPoints => g \in state.children  BY <3>1 DEF PlaceInv
    <3>5. state.at[g] \in {"run", "user", "try"} => Waiting(state, g)
      BY <3>1 DEF PlaceInv, LookPoints
    <3>6. g \in state.wantingToBuild => SlotTaken(state, g)  BY <3>1 DEF PlaceInv
    <3>7. state.at[g] = "run" => g \notin state.waitingForAWhile
      BY <3>1 DEF PlaceInv, LookPoints
    <3>. QED  BY <3>2, <3>3, <3>4, <3>5, <3>6, <3>7 DEF Waiting, SlotTaken
  <2>. QED  BY <2>1 DEF NobodyForgotten, AwaitPoints, ChildPoints
<1>. QED  BY <1>1, WorkerInvariant, PTL

\* The assertions of goal.cc and worker.cc other than the two that fail, which are
\* amDone's on the exit code (goal.cc:204) and waitForInput's on the goal of a
\* child (worker.cc:475): run has always something to wait for, as the least deep
\* goal does not wait for a goal, await leaves no waitee, waiters and waitees
\* agree, and with keep-going nothing is left when run returns.
THEOREM OtherAssertionsAlwaysHold == Spec => []OtherAssertionsHold
<1>1. WorkerInv => OtherAssertionsHold
  <2>. SUFFICES ASSUME WorkerInv PROVE OtherAssertionsHold  OBVIOUS
  <2>0. SettledInv(state) /\ StateTypes(state) /\ LinkInv(state)
    BY DEF WorkerInv, SettledInv, BaseInv
  <2>1. ASSUME state.stop = "no", NEW g \in state.todo
        PROVE  /\ state.at[g] # "none"
               /\ state.at[g] \in AwaitPoints => state.waitees[g] = {}
               /\ state.at[g] \in ChildPoints => state.events[g] # {}
    <3>1. PlaceInv(state, g) /\ Ready(state, g)  BY <2>0, <2>1 DEF SettledInv, StateTypes, Ready
    <3>. QED  BY <3>1 DEF PlaceInv
  <2>2. ASSUME NEW g \in Goals, NEW w \in state.waiters[g] PROVE g \in state.waitees[w]
    <3>1. w \in Goals  BY <2>0 DEF StateTypes
    <3>. QED  BY <2>0, <3>1 DEF LinkInv
  <2>3. ASSUME Idle PROVE CanStep
    <3>1. state.stop = "no" /\ state.topGoals # {} /\ state.awake = {} /\ state.todo = {}
      BY <2>0, <2>3 DEF Idle, StateTypes
    <3>. SUFFICES ASSUME state.children = {}, state.waitingForAWhile = {}, state.orphans = 0,
                         state.maxBuildJobs # 0
                  PROVE  FALSE
      BY <3>1 DEF CanStep
    <3>2. Live(state) # {} /\ Live(state) \subseteq Goals
      BY <2>0, <3>1 DEF Live, LinkInv, StateTypes
    <3>3. PICK g \in Live(state) : \A h \in Live(state) : ~(Depth[h] < Depth[g])
      BY <3>2, LeastDeep
    <3>4. g \in Goals /\ state.at[g] # "none" /\ state.at[g] \in Points
      BY <2>0, <3>3 DEF Live, StateTypes
    <3>5. PlaceInv(state, g) /\ ~Ready(state, g)  BY <2>0, <3>1, <3>4 DEF SettledInv, Ready
    <3>6. state.waitees[g] = {}
      <4>. SUFFICES ASSUME NEW w \in state.waitees[g] PROVE FALSE  OBVIOUS
      <4>1. w \in Goals /\ state.at[w] # "none" /\ Depth[w] < Depth[g]
        BY <2>0, <3>4 DEF LinkInv, StateTypes
      <4>. QED  BY <3>3, <4>1 DEF Live
    <3>7. g \in state.wantingToBuild  BY <3>4, <3>5, <3>6 DEF PlaceInv, Points, Waiting
    <3>8. SlotTaken(state, g)  BY <3>5, <3>7 DEF PlaceInv
    <3>. QED  BY <2>0, <3>8 DEF SlotTaken, StateTypes
  <2>4. state.stop = "returned" /\ state.keepGoing =>
          state.awake \cup state.wantingToBuild \cup state.children = {}
    BY DEF WorkerInv
  <2>. QED  BY <2>1, <2>2, <2>3, <2>4 DEF OtherAssertionsHold
<1>. QED  BY <1>1, WorkerInvariant, PTL
=============================================================================
