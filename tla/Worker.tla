-------------------------------- MODULE Worker --------------------------------
(***************************************************************************)
(* The goals and the main loop of the worker: the coroutines of            *)
(* libstore/build/*-goal.cc, one action per stretch of code between two    *)
(* points where a coroutine waits, and Worker::run and waitForInput of     *)
(* libstore/build/worker.cc.                                               *)
(*                                                                         *)
(* What the world decides is chosen by the action: whether a path is valid *)
(* already, what a substituter knows, whether another process has the lock *)
(* on an output, what the build hook replies, how a child ends.            *)
(*                                                                         *)
(* Left out: build modes other than bmNormal, impure derivations, and the  *)
(* exceptions that leave run() (other than that of PathSubstitutionGoal    *)
(* when the last substituter is broken).                                   *)
(***************************************************************************)
EXTENDS Scheduler

CONSTANTS
    Rank,       \* the order of CompareGoalPtrs
    Obtain,     \* Obtain[g]: goal that gets the derivation of a trampoline
    Realisation, Output, Resolution, Resolved, Building,
                \* the goals a derivation goal awaits in turn, or None
    Depth,      \* derivations form no cycles: what a goal awaits is less deep
    Requests,   \* the possible arguments of run
    Settings,   \* the possible values of <<keepGoing, tryFallback, maxBuildJobs>>
    UseHook,    \* a build hook is configured
    PreferLocal, \* derivations with preferLocalBuild
    None

ASSUME WorkerAssumption ==
    /\ Rank \in [Goals -> Nat]
    /\ \A g, h \in Goals : Rank[g] = Rank[h] => g = h
    /\ \A f \in {Obtain, Realisation, Output, Resolution, Resolved, Building} :
          f \in [Goals -> Goals \cup {None}]
    /\ Depth \in [Goals -> Nat]
    /\ \A g \in Goals :
          /\ \A h \in Needs[g] \cup ({Obtain[g], Realisation[g], Output[g], Resolution[g],
                                  Resolved[g], Building[g]} \ {None}) : Depth[h] < Depth[g]
          /\ Kind[g] = "trampoline" => Needs[g] # {}
          /\ Realisation[g] # None => Output[g] # None
          /\ Kind[g] = "derivation" =>
                Resolution[g] # None /\ (Resolved[g] = None => Building[g] # None)
    /\ Requests \subseteq SUBSET Goals
    /\ Settings \subseteq BOOLEAN \X BOOLEAN \X Nat
    /\ UseHook \in BOOLEAN
    /\ PreferLocal \subseteq Goals
    /\ None \notin Goals

VARIABLE state

vars == state

Init ==
    \E R \in Requests, c \in Settings :
        state = [at |-> [g \in Goals |-> IF g \in R THEN "new" ELSE "none"],
                 waitees |-> [g \in Goals |-> {}],
                 waiters |-> [g \in Goals |-> {}],
                 results |-> [g \in Goals |-> {}],
                 events |-> [g \in Goals |-> {}],
                 subs |-> [g \in Goals |-> NrSubstituters],
                 substituterFailed |-> [g \in Goals |-> FALSE],
                 topGoals |-> R, awake |-> R, batch |-> {}, todo |-> {},
                 wantingToBuild |-> {}, waitingForAWhile |-> {},
                 children |-> {}, slots |-> {}, orphans |-> 0,
                 nrLocalBuilds |-> 0, nrSubstitutions |-> 0,
                 tryBuildHook |-> UseHook, valid |-> {},
                 keepGoing |-> c[1], tryFallback |-> c[2], maxBuildJobs |-> c[3],
                 stop |-> "no"]

-----------------------------------------------------------------------------
(* Resuming a goal *)

\* It is the turn of goal g, which waits at point.
Resume(g, kind, point) ==
    /\ state.stop = "no"
    /\ state.topGoals # {}
    /\ g \in state.todo
    /\ \A h \in state.todo : Rank[g] <= Rank[h]
    /\ Kind[g] = kind
    /\ state.at[g] = point

\* The state in which g is resumed.
Now(g) == [state EXCEPT !.todo = @ \ {g}]

\* g waits again or has finished; goals that nobody owns are destroyed.
Suspend(s) == state' = Destroy(s)

\* What is in the store, under a temporary root, after goal g has succeeded.
Stored(g) ==
    CASE Kind[g] = "building" ->
            {g} \cup {h \in Goals : Building[h] = g \/ \E d \in Goals : Building[d] = g /\ Output[d] = h}
      [] Kind[g] = "derivation" -> {g, Output[g]} \ {None}
      [] Kind[g] \in {"substitution", "realisation"} -> {g}
      [] OTHER -> {}

Succeed(s, g) == AmDone([s EXCEPT !.valid = @ \cup Stored(g)], g, "success")

-----------------------------------------------------------------------------
(* DerivationTrampolineGoal *)

\* init: the derivation is there, or has to be obtained first.
TrampolineInit(g) ==
    /\ Resume(g, "trampoline", "new")
    /\ \/ Suspend(Await(Now(g), g, Needs[g], "concrete"))
       \/ /\ Obtain[g] # None
          /\ Suspend(Await(Now(g), g, {Obtain[g]}, "obtain"))

TrampolineObtained(g) ==
    /\ Resume(g, "trampoline", "obtain")
    /\ Suspend(IF NrFailed(state, g) # 0
               THEN AmDone(Now(g), g, "failed")
               ELSE Await(Now(g), g, Needs[g], "concrete"))

\* haveDerivation ends: amDone with the exit code of the first of the goals
\* for the wanted outputs, whether or not it has finished.
TrampolineBuilt(g) ==
    /\ Resume(g, "trampoline", "concrete")
    /\ \E first \in Needs[g] :
        /\ \A h \in Needs[g] : Rank[first] <= Rank[h]
        /\ Suspend(AmDone(Now(g), g, ExitCode(state, g, first)))

-----------------------------------------------------------------------------
(* DerivationGoal *)

\* haveDerivation: the output is valid, or it is substituted (if its path is
\* not known, its realisation first), or substitutes are not allowed.
DerivationInit(g) ==
    /\ Resume(g, "derivation", "new")
    /\ \/ Suspend(Succeed(Now(g), g))
       \/ /\ g \notin state.valid
          /\ Realisation[g] # None
          /\ Suspend(Await(Now(g), g, {Realisation[g]}, "realisation"))
       \/ /\ g \notin state.valid
          /\ Realisation[g] = None /\ Output[g] # None
          /\ Suspend(Await(Now(g), g, {Output[g]}, "output"))
       \/ /\ g \notin state.valid
          /\ Realisation[g] = None /\ Output[g] = None
          /\ Suspend(Await(Now(g), g, {Resolution[g]}, "resolution"))

DerivationRealised(g) ==
    /\ Resume(g, "derivation", "realisation")
    /\ NrFailed(state, g) = 0
    /\ Suspend(Await(Now(g), g, {Output[g]}, "output"))

\* All outputs substituted (maybe): fail, or the output is valid (if it was not
\* substituted another process may have built it), or build it.
DerivationSubstituted(g) ==
    /\ \/ Resume(g, "derivation", "output")
       \/ Resume(g, "derivation", "realisation") /\ NrFailed(state, g) # 0
    /\ LET nrFailed == NrFailed(state, g) IN
       IF nrFailed > NrNoSubstituters(state, g) /\ ~state.tryFallback
       THEN Suspend(AmDone(Now(g), g, "failed"))
       ELSE \/ Suspend(Succeed(Now(g), g))
            \/ /\ nrFailed # 0 /\ g \notin state.valid
               /\ Suspend(Await([Now(g) EXCEPT !.results[g] = {}], g,
                                {Resolution[g]}, "resolution"))

\* The resolution has finished: go on with the resolved derivation or build.
DerivationResolved(g) ==
    /\ Resume(g, "derivation", "resolution")
    /\ Suspend(IF NrFailed(state, g) # 0
               THEN AmDone(Now(g), g, "failed")
               ELSE IF Resolved[g] # None
               THEN Await(Now(g), g, {Resolved[g]}, "resolved")
               ELSE Await(Now(g), g, {Building[g]}, "built"))

DerivationBuilt(g) ==
    /\ \/ Resume(g, "derivation", "resolved")
       \/ Resume(g, "derivation", "built")
    /\ Suspend(IF NrFailed(state, g) = 0 THEN Succeed(Now(g), g) ELSE AmDone(Now(g), g, "failed"))

-----------------------------------------------------------------------------
(* DerivationResolutionGoal *)

ResolutionInit(g) ==
    /\ Resume(g, "resolution", "new")
    /\ Suspend(IF Needs[g] = {} THEN Succeed(Now(g), g)
               ELSE Await(Now(g), g, Needs[g], "inputs"))

ResolutionInputs(g) ==
    /\ Resume(g, "resolution", "inputs")
    /\ Suspend(IF NrFailed(state, g) = 0 THEN Succeed(Now(g), g) ELSE AmDone(Now(g), g, "failed"))

-----------------------------------------------------------------------------
(* DerivationBuildingGoal *)

\* gaveUpOnSubstitution: realise the input sources that are not valid.
BuildingInit(g) ==
    /\ Resume(g, "building", "new")
    /\ \E G \in SUBSET (Needs[g] \ state.valid) :
        Suspend(IF G = {} THEN Yield(Now(g), g, "try")
                ELSE Await(Now(g), g, G, "sources"))

BuildingSources(g) ==
    /\ Resume(g, "building", "sources")
    /\ Suspend(IF NrFailed(state, g) # 0 THEN AmDone(Now(g), g, "failed")
               ELSE Yield(Now(g), g, "try"))

\* tryToBuild: another process has the output locks.
LocksBusy(g) ==
    /\ Resume(g, "building", "try")
    /\ Suspend(WaitForAWhile(Now(g), g, "try"))

\* The locks are ours; someone beat us to it.
AlreadyBuilt(g) ==
    /\ Resume(g, "building", "try")
    /\ Suspend(Succeed(Now(g), g))

\* The locks are ours and the outputs are not valid.
Locked(g) == Resume(g, "building", "try") /\ g \notin state.valid

\* The hook is not asked.
WillBuildLocally(g) == g \in PreferLocal /\ state.maxBuildJobs # 0

\* tryBuildHook: the hook accepts.
HookAccepts(g) ==
    /\ Locked(g)
    /\ ~WillBuildLocally(g) /\ state.tryBuildHook
    /\ Suspend(ChildStarted(Now(g), g, FALSE, "hook"))

\* It postpones: the locks are released.
HookPostpones(g) ==
    /\ Locked(g)
    /\ ~WillBuildLocally(g) /\ state.tryBuildHook
    /\ Suspend(WaitForAWhile(Now(g), g, "try"))

\* It is not asked, or declines, perhaps for good: build locally, if we can.
BuildHere(g) ==
    /\ Locked(g)
    /\ \E ask \in IF WillBuildLocally(g) THEN {state.tryBuildHook}
                  ELSE {state.tryBuildHook, FALSE} :
        LET s == [Now(g) EXCEPT !.tryBuildHook = ask] IN
        \/ Suspend(Yield(s, g, "local"))
        \/ ~WillBuildLocally(g) /\ Suspend(AmDone(s, g, "failed"))

\* buildLocally: the loop begins, or begins again without a build user.
Starting(g) ==
    \/ Resume(g, "building", "local")
    \/ Resume(g, "building", "user")

\* Without a free slot unlock and begin again when there is one.
LocalSlot(g) ==
    /\ Starting(g)
    /\ state.nrLocalBuilds >= state.maxBuildJobs
    /\ Suspend(WaitForBuildSlot(Now(g), g, "try"))

\* No free build user: retry in a while, with the locks held.
NoBuildUser(g) ==
    /\ Starting(g)
    /\ state.nrLocalBuilds < state.maxBuildJobs
    /\ Suspend(WaitForAWhile(Now(g), g, "user"))

\* The builder is started, or its environment cannot be made, which is tried
\* in the first round only.
StartBuild(g) ==
    /\ Starting(g)
    /\ state.nrLocalBuilds < state.maxBuildJobs
    /\ \/ Suspend(ChildStarted(Now(g), g, TRUE, "building"))
       \/ state.at[g] = "local" /\ Suspend(AmDone(Now(g), g, "failed"))

\* Output of the build or of the hook, alone or before the end of file: there
\* is too much of it, so the child is killed.
LogTooLong(g) ==
    /\ \E point \in {"building", "hook"} : Resume(g, "building", point)
    /\ "output" \in state.events[g]
    /\ Suspend(AmDone(ChildTerminated(Now(g), {g}), g, "failed"))

\* Otherwise it is logged.
BuildOutput(g) ==
    /\ \E point \in {"building", "hook"} : Resume(g, "building", point)
    /\ state.events[g] = {"output"}
    /\ Suspend([Now(g) EXCEPT !.events[g] = {}])

\* The end of file: the builder has ended, well or badly; both release the slot
\* first.  After a timeout it is killed.
BuildEnds(g) ==
    /\ \E point \in {"building", "hook"} : Resume(g, "building", point)
    /\ \E result \in IF "eof" \in state.events[g] THEN {"success", "failed"}
                     ELSE IF "timeout" \in state.events[g] THEN {"failed"} ELSE {} :
        LET s == ChildTerminated(Now(g), {g}) IN
        Suspend(IF result = "success" THEN Succeed(s, g) ELSE AmDone(s, g, result))

-----------------------------------------------------------------------------
(* PathSubstitutionGoal *)

\* The loop over the substituters goes on: the next that knows the path leaves
\* n of them, and the references are realised first.
NextSubstituter(s, g, n) ==
    LET s1 == [s EXCEPT !.subs[g] = n] IN
    IF Needs[g] = {} THEN Yield(s1, g, "run") ELSE Await(s1, g, Needs[g], "references")

\* None is left.  An error of the last one is thrown unless --fallback is set.
NoSubstituter(s, g) ==
    LET result == IF s.substituterFailed[g] THEN "failed" ELSE "nosubstituters"
        throw == IF s.subs[g] > 0 /\ ~s.tryFallback THEN {[s EXCEPT !.stop = "threw"]} ELSE {}
    IN {AmDone(s, g, result)} \cup throw

\* What the loop can do from state s.
Substitute(s, g) ==
    {NextSubstituter(s, g, n) : n \in 0 .. (s.subs[g] - 1)} \cup NoSubstituter(s, g)

\* init: done if the path is valid.
SubstitutionInit(g) ==
    /\ Resume(g, "substitution", "new")
    /\ \/ Suspend(Succeed(Now(g), g))
       \/ /\ g \notin state.valid
          /\ \E s \in Substitute(Now(g), g) : Suspend(s)

\* tryToRun, when the references are realised.
SubstitutionReferences(g) ==
    /\ Resume(g, "substitution", "references")
    /\ Suspend(IF NrFailed(state, g) > 0
               THEN AmDone(Now(g), g, IF NrNoSubstituters(state, g) > 0
                                      THEN "nosubstituters" ELSE "failed")
               ELSE Yield(Now(g), g, "run"))

\* Start when fewer than the limit run; one always may.
SubstitutionRun(g) ==
    /\ Resume(g, "substitution", "run")
    /\ Suspend(IF state.nrSubstitutions >= (IF MaxSubstitutionJobs = 0 THEN 1
                                            ELSE MaxSubstitutionJobs)
               THEN WaitForBuildSlot(Now(g), g, "run")
               ELSE ChildStarted(Now(g), g, TRUE, "copying"))

\* The thread has closed its pipe: success, or the substitute is gone, or an
\* error; try the next substituter.
SubstitutionEnds(g) ==
    /\ Resume(g, "substitution", "copying")
    /\ LET s == ChildTerminated([Now(g) EXCEPT !.events[g] = {}], {g}) IN
       \/ Suspend(Succeed(s, g))
       \/ \E failed \in {TRUE, s.substituterFailed[g]} :
            \E s1 \in Substitute([s EXCEPT !.substituterFailed[g] = failed], g) : Suspend(s1)

-----------------------------------------------------------------------------
(* DrvOutputSubstitutionGoal *)

\* The loop over the substituters: ask the next one; this takes a slot without
\* looking for a free one.
QueryNext(s, g) ==
    IF s.subs[g] = 0
    THEN AmDone(s, g, IF s.substituterFailed[g] THEN "failed" ELSE "nosubstituters")
    ELSE ChildStarted([s EXCEPT !.subs[g] = @ - 1], g, TRUE, "querying")

RealisationInit(g) ==
    /\ Resume(g, "realisation", "new")
    /\ \/ Suspend(Succeed(Now(g), g))
       \/ g \notin state.valid /\ Suspend(QueryNext(Now(g), g))

RealisationQueried(g) ==
    /\ Resume(g, "realisation", "querying")
    /\ LET s == ChildTerminated([Now(g) EXCEPT !.events[g] = {}], {g}) IN
       \/ Suspend(Succeed(s, g))
       \/ \E failed \in {TRUE, s.substituterFailed[g]} :
            Suspend(QueryNext([s EXCEPT !.substituterFailed[g] = failed], g))

-----------------------------------------------------------------------------
(* Worker::run and waitForInput *)

\* The loop that calls every awake goal takes the goals that are awake now.
BeginBatch ==
    /\ state.stop = "no"
    /\ state.topGoals # {} /\ state.batch = {} /\ state.awake # {}
    /\ state' = [state EXCEPT !.batch = @ \cup state.awake, !.todo = state.awake, !.awake = {}]

\* awake2 is destroyed, and with it goals that only it owned.
EndBatch ==
    /\ state.stop = "no"
    /\ state.topGoals # {} /\ state.batch # {} /\ state.todo = {}
    /\ state' = Destroy([state EXCEPT !.batch = {}])

\* All awake goals have been called.
Idle ==
    /\ state.stop = "no"
    /\ state.topGoals # {} /\ state.batch = {} /\ state.awake = {}

\* What one round of waitForInput can bring from the child of g.  Only local
\* builds respect timeouts.
Inputs(g) ==
    IF Kind[g] # "building" THEN {{}, {"eof"}}
    ELSE {{}, {"output"}, {"eof"}, {"output", "eof"}}
         \cup (IF g \in state.slots THEN {{"timeout"}} ELSE {})

\* Mutant of Input: waitingForAWhile is cleared and nobody is woken.
InputForgetsSleepers(input, elapsed) ==
    LET E == {g \in state.children : input[g] # {}}
        sleepers == IF elapsed THEN state.waitingForAWhile ELSE {}
    IN
    /\ E \cup sleepers # {} \/ state.orphans # 0
    /\ state' = IF state.orphans # 0 THEN [state EXCEPT !.stop = "waitForInput"] ELSE
                [WakeUp(state, E) EXCEPT
                    !.events = [g \in Goals |-> IF g \in E THEN PushChildEvents(@[g], input[g])
                                                           ELSE @[g]],
                    !.waitingForAWhile = @ \ sleepers]

\* waitForInput, with input[g] from each child; sleepers are woken when the
\* poll interval has passed.  (A round that brings nothing changes nothing.)  A
\* child whose goal is gone fails an assertion.
Input(input, elapsed) ==
    LET E == {g \in state.children : input[g] # {}}
        sleepers == IF elapsed THEN state.waitingForAWhile ELSE {}
    IN
    /\ E \cup sleepers # {} \/ state.orphans # 0
    /\ state' = IF state.orphans # 0 THEN [state EXCEPT !.stop = "waitForInput"] ELSE
                [WakeUp(state, E \cup sleepers) EXCEPT
                    !.events = [g \in Goals |-> IF g \in E THEN PushChildEvents(@[g], input[g])
                                                           ELSE @[g]],
                    !.waitingForAWhile = @ \ sleepers]

WaitForInput ==
    /\ Idle
    /\ \E elapsed \in BOOLEAN :
       \E input \in [state.children -> SUBSET {"output", "eof", "timeout"}] :
          /\ \A g \in state.children : input[g] \in Inputs(g)
          /\ Input(input, elapsed)

\* Nothing to wait for, and no local builds are allowed.
NoJobs ==
    /\ Idle
    /\ state.children = {} /\ state.orphans = 0 /\ state.waitingForAWhile = {}
    /\ state.maxBuildJobs = 0
    /\ state' = [state EXCEPT !.stop = "threw"]

Return ==
    /\ state.stop = "no"
    /\ state.topGoals = {}
    /\ state' = [state EXCEPT !.stop = "returned", !.batch = {}, !.todo = {}]
-----------------------------------------------------------------------------
Work(g) ==
    \/ TrampolineInit(g) \/ TrampolineObtained(g) \/ TrampolineBuilt(g)
    \/ DerivationInit(g) \/ DerivationRealised(g) \/ DerivationSubstituted(g)
    \/ DerivationResolved(g) \/ DerivationBuilt(g)
    \/ ResolutionInit(g) \/ ResolutionInputs(g)
    \/ BuildingInit(g) \/ BuildingSources(g)
    \/ LocksBusy(g) \/ AlreadyBuilt(g) \/ HookAccepts(g) \/ HookPostpones(g)
    \/ BuildHere(g) \/ LocalSlot(g) \/ NoBuildUser(g) \/ StartBuild(g)
    \/ LogTooLong(g) \/ BuildOutput(g) \/ BuildEnds(g)
    \/ SubstitutionInit(g) \/ SubstitutionReferences(g)
    \/ SubstitutionRun(g) \/ SubstitutionEnds(g)
    \/ RealisationInit(g) \/ RealisationQueried(g)

Next ==
    \/ \E g \in state.todo : Work(g)
    \/ BeginBatch
    \/ EndBatch
    \/ WaitForInput
    \/ NoJobs
    \/ Return

Spec == Init /\ [][Next]_vars

\* A build looks for what it may have to sleep for, and finds it.
Looking(g) ==
    \/ Resume(g, "building", "try")
    \/ Starting(g) /\ state.nrLocalBuilds < state.maxBuildJobs

Found(g) == AlreadyBuilt(g) \/ HookAccepts(g) \/ BuildHere(g) \/ StartBuild(g)

\* A child ends, or the sleepers wake up, in this round of waitForInput.
ChildEnds == WaitForInput /\ \E g \in state.children : "eof" \in state'.events[g]
SleepersWake == WaitForInput /\ state'.waitingForAWhile = {}

\* run has something to do: it does not fail its assertion on awake.
CanStep ==
    /\ state.stop = "no"
    /\ Idle => \/ state.children \cup state.waitingForAWhile # {} \/ state.orphans # 0
               \/ state.maxBuildJobs = 0

\* The worker runs; as long as there are children some child ends; the poll
\* interval passes; and as long as builds sleep, what one of them sleeps for (a
\* lock, a machine, a build user) is free some time when it looks.  Each is
\* strong fairness with the enabling condition spelt out.
FairSpec ==
    /\ Spec
    /\ <>[]~CanStep \/ []<><<Next>>_vars
    /\ <>[](\A g \in Goals : ~Looking(g)) \/ []<><<\E g \in Goals : Found(g)>>_vars
    /\ <>[]~(Idle /\ state.children # {}) \/ []<><<ChildEnds>>_vars
    /\ <>[]~(Idle /\ state.waitingForAWhile # {}) \/ []<><<SleepersWake>>_vars

-----------------------------------------------------------------------------
\* The points at which a goal waits for other goals, and for its child.
AwaitPoints == {"concrete", "obtain", "realisation", "output", "resolution",
                "resolved", "built", "inputs", "sources", "references"}
ChildPoints == {"building", "hook", "copying", "querying"}

\* What goal.cc and worker.cc assert of the state of goals and worker, but for two
\* assertions, which fail: that of amDone on the exit code (goal.cc:204, see
\* DoneWithExitCode) and that of waitForInput on the goal of a child
\* (worker.cc:475, see ChildrenHaveGoals).  The others: a goal that is resumed
\* exists, none of its waitees is left after await (goal.cc:174, 181), and its
\* child has sent something (popChildEvent); a finished goal is a waitee of its
\* waiters (goal.cc:222); run never has nothing to wait for (worker.cc:378); and
\* with keep-going nothing is left when run returns (worker.cc:384-386).
OtherAssertionsHold ==
    /\ state.stop = "no" /\ state.topGoals # {} =>
        \A g \in state.todo :
            (\A h \in state.todo : Rank[g] <= Rank[h]) =>
                /\ state.at[g] # "none"
                /\ state.at[g] \in AwaitPoints => state.waitees[g] = {}
                /\ state.at[g] \in ChildPoints => state.events[g] # {}
    /\ \A g \in Goals : \A w \in state.waiters[g] : g \in state.waitees[w]
    /\ Idle => CanStep
    /\ state.stop = "returned" /\ state.keepGoing =>
        state.awake \cup state.wantingToBuild \cup state.children = {}

\* The counters say what runs and stay within the limits, whatever is cancelled
\* while it runs; only the queries for realisations exceed theirs.
SlotsRespected ==
    LET running(kinds) == {g \in state.slots : Kind[g] \in kinds} IN
    /\ state.nrLocalBuilds = Cardinality(running({"building"}))
    /\ state.nrLocalBuilds <= state.maxBuildJobs
    /\ state.nrSubstitutions =
          state.orphans + Cardinality(running({"substitution", "realisation"}))
    /\ Cardinality(running({"substitution"})) <=
          (IF MaxSubstitutionJobs = 0 THEN 1 ELSE MaxSubstitutionJobs)

\* No wake-up is lost: whenever the worker has called all awake goals, every
\* goal waits for exactly one thing that will wake it: unfinished waitees that
\* know of it, its child, a slot that is taken, or the poll interval.  (A slot may
\* be that of a child without a goal: then waitForInput fails its assertion next.)
NobodyForgotten ==
    Idle =>
        \A g \in Goals : state.at[g] # "none" =>
            CASE state.at[g] \in AwaitPoints ->
                    /\ state.waitees[g] # {}
                    /\ \A w \in state.waitees[g] : state.at[w] # "none" /\ g \in state.waiters[w]
              [] state.at[g] \in ChildPoints -> g \in state.children
              [] state.at[g] = "run" ->
                    /\ g \in state.wantingToBuild
                    /\ state.orphans # 0 \/ \E h \in state.slots : Kind[h] # "building"
              [] state.at[g] = "user" -> g \in state.waitingForAWhile
              [] state.at[g] = "try" ->
                    \/ g \in state.waitingForAWhile
                    \/ /\ g \in state.wantingToBuild
                       /\ state.maxBuildJobs = 0 \/ \E h \in state.slots : Kind[h] = "building"
              [] OTHER -> FALSE

\* run ends: no goal waits for another for ever, and children, sleepers and
\* slots all come to an end.  (A stop by one of the two failed assertions below,
\* which aborts the process, is an end, too.)
RunReturns == <>(state.stop # "no")

-----------------------------------------------------------------------------
\* The assertion of amDone on its argument, which TrampolineBuilt violates.
DoneWithExitCode == state.stop # "amDone"

\* The assertion of waitForInput that the goal of every child is alive.  The goal
\* of a query for a realisation, destroyed while it waits, leaves its child.
ChildrenHaveGoals == state.stop # "waitForInput"
=============================================================================
