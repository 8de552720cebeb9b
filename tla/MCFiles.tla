------------------------------- MODULE MCFiles -------------------------------
(***************************************************************************)
(* Processes that meet at files: the entries of .links, the generations of *)
(* a profile, the temporary roots, the outputs of builds and the lock      *)
(* files of flakes.  A behaviour is one of the component that is chosen at *)
(* the start; the others stay in an initial state.                         *)
(***************************************************************************)
EXTENDS Optimise, Profiles, TempRoots, RegisterOutputs, Flakes

VARIABLE component

filesVars == <<component, optimiseVars, profileVars, tempRootVars, outputVars, flakeVars>>

\* What builders may leave: an output that refers to a source, to itself and to the
\* other one, which refers to itself and to the first.  The second builder always
\* makes content-addressed outputs, the first one may have a valid one already.
\* Outputs whose path is known are built there, unless they are valid and there is
\* no sandbox.
Source == <<"source", "", {}>>
OneSource == {Source}
Names == {"out", "dev"}
Final(o) == <<"input", o, {}>>
Scratch(b, ca, sandbox, known) ==
    [o \in Names |-> IF o \in DOMAIN known THEN (IF sandbox THEN known[o] ELSE <<"scratch", b, {o}>>)
                     ELSE IF ca THEN <<"scratch", b, {o}>> ELSE Final(o)]
Left(b, ca, sandbox, known) ==
    LET scratch == Scratch(b, ca, sandbox, known)
    IN  [ca : {ca}, sandbox : {sandbox}, names : {Names}, scratch : {scratch},
         final : {[o \in Names |-> Final(o)]}, known : {known},
         contents : {f \in [Names -> SUBSET {Source, scratch["out"], scratch["dev"]}] :
                       Source \notin f["dev"]}]
FirstBuilds ==
    UNION {Left("b1", ca, sandbox, known) :
             ca \in BOOLEAN, sandbox \in BOOLEAN, known \in {Nothing, "dev" :> Final("dev")}}
SecondBuilds ==
    {l \in Left("b2", TRUE, TRUE, Nothing) :
       l.contents["dev"] = {l.scratch["dev"]} /\ l.scratch["out"] \in l.contents["out"]}
SomeBuilds == {[b1 |-> f, b2 |-> s] : f \in FirstBuilds, s \in SecondBuilds}

Flake(inputs) == (<<>> :> inputs)

\* d has no inputs; c has d; b has c, with and without an override or a follows.
FlakesOfRepos ==
    [b |-> << Flake([c |-> Url("c")]),
              Flake([c |-> Input(Repo("c"), NoLock, [d |-> Follows(<<"d">>)]),
                  d |-> [Url("d") EXCEPT !.isFlake = FALSE],
                  e |-> Follows(<<"c", "d">>)]) >>,
     c |-> << Flake([d |-> Url("d")]),
              Flake([d |-> Input(Relative("e"), NoLock, NoInputs)]) @@ (<<"e">> :> NoInputs) >>,
     d |-> << Flake(NoInputs), Flake(NoInputs) >>]

FlakesOfTop ==
    << Flake([b |-> Url("b"), c |-> Url("c")]),
       Flake([b |-> Input(Repo("b"), NoLock, [c |-> Follows(<<"c">>)]), c |-> Url("c")]),
       Flake([b |-> Input(Repo("b"), NoLock,
                       [c |-> Input(NoLock, NoLock, [d |-> Follows(<<"d">>)])]), d |-> Url("d")]),
       Flake([b |-> Input(Repo("b"), NoLock, [c |-> Url("d")])]) >>

SomeCommands ==
    {DefaultFlags, [DefaultFlags EXCEPT !.recreate = TRUE],
     [DefaultFlags EXCEPT !.updates = {<<"b">>}],
     [DefaultFlags EXCEPT !.updates = {<<"b", "c">>}],
     [DefaultFlags EXCEPT !.overrides = (<<"b", "c">> :> Repo("d"))],
     [DefaultFlags EXCEPT !.overrides = (<<"b">> :> Repo("c"))]}

FilesInit ==
    /\ component \in {"links", "profile", "temproots", "outputs", "flakes"}
    /\ build \in IF component = "outputs" THEN Builds ELSE {CHOOSE f \in Builds : TRUE}
    /\ OptimiseInit /\ ProfileInit /\ TempRootsInit /\ OutputsInit /\ FlakesInit
    /\ component = "links" \/ (linkPath = NoInode /\ kind = "good")
    /\ component = "profile" \/ current = 0
    /\ component = "temproots" \/ named = [p \in Owners |-> 0]
    /\ component = "flakes" \/ flakeNix = 1

FilesNext ==
    \/ component = "links" /\ OptimiseNext
       /\ UNCHANGED <<component, profileVars, tempRootVars, outputVars, flakeVars>>
    \/ component = "profile" /\ ProfileNext
       /\ UNCHANGED <<component, optimiseVars, tempRootVars, outputVars, flakeVars>>
    \/ component = "temproots" /\ TempRootsNext
       /\ UNCHANGED <<component, optimiseVars, profileVars, outputVars, flakeVars>>
    \/ component = "outputs" /\ OutputsNext
       /\ UNCHANGED <<component, optimiseVars, profileVars, tempRootVars, flakeVars>>
    \/ component = "flakes" /\ FlakesNext
       /\ UNCHANGED <<component, optimiseVars, profileVars, tempRootVars, outputVars>>

FilesSpec == FilesInit /\ [][FilesNext]_filesVars
=============================================================================
