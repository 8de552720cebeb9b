------------------------------- MODULE Flakes -------------------------------
(***************************************************************************)
(* Lock files: lockFlake() of libflake/flake.cc and the lock file graph of *)
(* lockfile.cc, for a flake whose flake.nix is edited and whose inputs get *)
(* new commits.  computeLocks copies what it can from the old lock file,   *)
(* reads the lock files of new inputs, and fetches a locked input again    *)
(* only when it has to.                                                    *)
(*                                                                         *)
(* A flake.nix is the function from the directories of its tree to inputs; *)
(* an input has a reference or follows another input, and overrides inputs *)
(* of its own.  A reference is a repository, with a commit when it is      *)
(* locked, or a relative directory.  Fetchers, registries, the JSON of the *)
(* lock file and the warnings are left out: an input without a reference   *)
(* is found by its name.                                                   *)
(***************************************************************************)
EXTENDS Naturals, Sequences, SequencesExt, FiniteSets, TLC

CONSTANTS
    Repos,        \* the repositories that inputs are fetched from
    TopFlakes,    \* the sequence of what flake.nix of the top-level flake may be
    RepoFlakes,   \* the sequence of what flake.nix of each repository is at its commits
    Commands,     \* the flags of the commands that are run on the flake
    MaxCommands,  \* bound: the edits and commands
    NoLock,       \* "there is no such node, reference or path", and
    Failed        \* "an exception was thrown": model values

VARIABLES
    repos,        \* the commits of each repository so far: the flake.lock of each
    flakeNix,     \* which of TopFlakes flake.nix is
    flakeLock,    \* the lock file of the top-level flake: the inputs of its root
    lockedFor,    \* the flake.nix that the lock file was computed for, 0 if none
    gap,          \* an edit or --override-input that lock files do not record happened
    commands      \* the number of edits and commands so far

flakeVars == <<repos, flakeNix, flakeLock, lockedFor, gap, commands>>

Top == "top"

\* A reference to a repository, and one to a directory relative to the flake.
Repo(r) == [repo |-> r, rev |-> 0, dir |-> <<>>]
Relative(d) == [repo |-> NoLock, rev |-> 0, dir |-> <<d>>]
IsRelative(ref) == ref.repo = NoLock

NoInputs == [id \in {} |-> NoLock]
Input(ref, follows, overrides) ==
    [ref |-> ref, follows |-> follows, overrides |-> overrides, isFlake |-> TRUE]
Url(r) == Input(Repo(r), NoLock, NoInputs)
Follows(path) == Input(NoLock, path, NoInputs)

IsNode(e) == "locked" \in DOMAIN e

-----------------------------------------------------------------------------
(* Reading flakes.  A place is a directory of a commit.                      *)

TopPlace == [repo |-> Top, rev |-> 0, dir |-> <<>>]

\* parseFlakeInput: "follows" is relative to the flake that says so.
RECURSIVE Rooted(_, _)
Rooted(inputs, path) ==
    [id \in DOMAIN inputs |->
        [inputs[id] EXCEPT
            !.follows = IF @ = NoLock THEN NoLock ELSE path \o @,
            !.overrides = Rooted(@, path)]]

\* readFlake: the inputs that flake.nix at a place declares.
ReadFlake(place, path) ==
    LET tree == IF place.repo = Top THEN TopFlakes[flakeNix]
                ELSE RepoFlakes[place.repo][place.rev]
    IN  IF place.dir \in DOMAIN tree THEN Rooted(tree[place.dir], path) ELSE Failed

\* readLockFile: the root of the flake's own lock file, which only flakes at the
\* root of a repository have.
ReadLockFile(place) ==
    IF place.dir = <<>> THEN repos[place.repo][place.rev] ELSE NoInputs

\* What a reference is locked to, and the place it is then read from.
Lock(ref) ==
    IF IsRelative(ref) \/ ref.rev > 0 THEN ref ELSE [ref EXCEPT !.rev = Len(repos[ref.repo])]
PlaceOf(ref, lockedRef, sourcePath) ==
    IF IsRelative(ref) THEN [sourcePath EXCEPT !.dir = @ \o ref.dir] ELSE lockedRef

-----------------------------------------------------------------------------
(* computeLocks                                                              *)

\* addOverrides: every override below the input at a path, with the place of the
\* flake that declares it and the path of that flake's node.
RECURSIVE AddOverrides(_, _, _, _)
AddOverrides(inputs, prefix, sourcePath, parent) ==
    LET below(id) ==
            LET path == Append(prefix, id)
                o == inputs[id].overrides
                here == {i \in DOMAIN o : o[i].ref # NoLock \/ o[i].follows # NoLock}
            IN  [q \in {Append(path, i) : i \in here} |->
                    [input |-> o[Last(q)], sourcePath |-> sourcePath, parent |-> parent]]
                @@ AddOverrides(o, path, sourcePath, parent)
    IN  FoldSet(LAMBDA id, f : f @@ below(id), NoInputs, DOMAIN inputs)

\* The entry that may be copied from the old lock file.
OldLockOutside(old, path, updates) ==
    IF old # NoLock /\ (\A u \in updates : ~IsPrefix(path, u))
       /\ Last(path) \in DOMAIN old /\ IsNode(old[Last(path)])
    THEN old[Last(path)] ELSE NoLock
OldLock(old, path, updates) ==
    IF old # NoLock /\ path \notin updates /\ Last(path) \in DOMAIN old /\ IsNode(old[Last(path)])
    THEN old[Last(path)] ELSE NoLock

\* An update below this input was asked for.
UpdateBelow(path, updates) == \E u \in updates : IsStrictPrefix(path, u)

\* The override behind a "follows" of the lock file may have disappeared; in a lock
\* file that is trusted nobody looks.
OverrideStays(oldLock, at) == FALSE
OverrideGone(oldLock, at) ==
    /\ ~at.trustLock
    /\ \E i \in DOMAIN oldLock.inputs :
          ~IsNode(oldLock.inputs[i]) /\ Append(at.path, i) \notin DOMAIN at.overrides

\* The inputs of a flake that is not fetched, as its lock says.
FakeInputs(oldLock, followsPrefix) ==
    [i \in DOMAIN oldLock.inputs |->
        IF IsNode(oldLock.inputs[i])
        THEN [Input(oldLock.inputs[i].original, NoLock, NoInputs) EXCEPT
                !.isFlake = oldLock.inputs[i].isFlake]
        ELSE Follows(followsPrefix \o oldLock.inputs[i].follows)]

\* "in case of an --override-input, we use the *original* ref".
OriginalIsOverride(declared, ref, isOverride) == ref
OriginalRef(declared, ref, isOverride) ==
    IF declared.ref # NoLock /\ isOverride THEN declared.ref ELSE ref

\* What the recursive calls get is "at": the path of the node, the place of its
\* flake, the prefix of "follows", trustLock, the overrides and the parents so far.
RECURSIVE ComputeLocks(_, _, _, _)

\* The input that counts, an override if there is one, with the place and the node
\* of the flake that declares it.
Effective(declared, path, at) ==
    IF path \in DOMAIN at.overrides
    THEN [at.overrides[path] EXCEPT !.input.isFlake = declared.isFlake]
    ELSE [input |-> declared, sourcePath |-> at.sourcePath, parent |-> at.path]
RefOf(id, input) == IF input.ref = NoLock THEN Repo(id) ELSE input.ref
ParentOf(ref, parent) == IF IsRelative(ref) THEN parent ELSE NoLock

Node(lockedRef, original, isFlake, parent, children) ==
    IF children = Failed THEN Failed
    ELSE [locked |-> lockedRef, original |-> original, isFlake |-> isFlake,
          parent |-> parent, inputs |-> children]

\* getInputFlake and the call for its inputs.
LockFetched(place, old, at, flags) ==
    ComputeLocks(ReadFlake(place, at.path), old,
                 [at EXCEPT !.sourcePath = place, !.trustLock = FALSE], flags)

\* "keeping existing input": its flake is only fetched if it has to be.
KeepInput(oldLock, sourcePath, at, flags) ==
    Node(oldLock.locked, oldLock.original, oldLock.isFlake, oldLock.parent,
         IF UpdateBelow(at.path, flags.updates) \/ OverrideGone(oldLock, at)
         THEN LockFetched(PlaceOf(oldLock.original, oldLock.locked, sourcePath),
                          oldLock.inputs, at, flags)
         ELSE ComputeLocks(FakeInputs(oldLock, at.followsPrefix), oldLock.inputs,
                           [at EXCEPT !.trustLock = TRUE], flags))

\* "creating new input": the flake's own lock file is used for its inputs.
LockNew(place, at, flags) == LockFetched(place, ReadLockFile(place), at, flags)
CreateInput(original, ref, effective, at, flags) ==
    Node(Lock(ref), original, effective.input.isFlake, ParentOf(ref, effective.parent),
         IF ~effective.input.isFlake THEN NoInputs
         ELSE IF ref \in at.parents THEN Failed
         ELSE LockNew(PlaceOf(ref, Lock(ref), effective.sourcePath),
                      [at EXCEPT !.followsPrefix = at.path, !.parents = @ \cup {ref}], flags))

\* One iteration of the loop; "at" has the path of the input.
LockInput(declared, effective, ref, oldLock, at, flags) ==
    IF effective.input.follows # NoLock THEN [follows |-> effective.input.follows]
    ELSE IF /\ oldLock # NoLock /\ at.path \notin DOMAIN flags.overrides
            /\ oldLock.original = ref /\ oldLock.parent = ParentOf(ref, effective.parent)
    THEN KeepInput(oldLock, effective.sourcePath, at, flags)
    ELSE CreateInput(OriginalRef(declared, ref, at.path \in DOMAIN flags.overrides),
                     ref, effective, at, flags)

LockInputOf(id, declared, effective, old, at, flags) ==
    LockInput(declared, effective, RefOf(id, effective.input),
              OldLock(old, at.path, flags.updates), at, flags)

LockInputs(inputs, old, at, flags) ==
    [id \in DOMAIN inputs |->
        LockInputOf(id, inputs[id], Effective(inputs[id], Append(at.path, id), at), old,
                    [at EXCEPT !.path = Append(@, id)], flags)]

AllLocked(children) ==
    IF \E id \in DOMAIN children : children[id] = Failed THEN Failed ELSE children

ComputeLocks(inputs, old, at, flags) ==
    IF inputs = Failed THEN Failed
    ELSE AllLocked(LockInputs(inputs, old,
            [at EXCEPT !.overrides = @ @@ AddOverrides(inputs, at.path, at.sourcePath, at.path)],
            flags))

-----------------------------------------------------------------------------
(* The lock file graph                                                       *)

\* doFind: the inputs of the node at a path, through "follows" edges; a path that
\* was visited before is a cycle.
RECURSIVE DoFind(_, _, _)
DoFind(root, path, visited) ==
    IF path \in visited THEN [node |-> Failed, visited |-> visited]
    ELSE FoldLeft(
            LAMBDA pos, elem :
                IF pos.node = Failed THEN pos
                ELSE IF elem \notin DOMAIN pos.node THEN [pos EXCEPT !.node = Failed]
                ELSE IF IsNode(pos.node[elem]) THEN [pos EXCEPT !.node = @[elem].inputs]
                ELSE DoFind(root, pos.node[elem].follows, pos.visited),
            [node |-> root, visited |-> visited \cup {path}], path)

\* getAllInputs: the edge at every path.
RECURSIVE GetAllInputs(_, _)
GetAllInputs(prefix, node) ==
    FoldSet(LAMBDA id, f : f @@ (Append(prefix, id) :> node[id])
                             @@ (IF IsNode(node[id])
                                 THEN GetAllInputs(Append(prefix, id), node[id].inputs)
                                 ELSE NoInputs),
            NoInputs, DOMAIN node)

\* check: every "follows" leads to a node.
Check(root) ==
    LET all == GetAllInputs(<<>>, root)
    IN  \A p \in DOMAIN all : IsNode(all[p]) \/ all[p].follows = <<>>
            \/ DoFind(root, all[p].follows, {}).node # Failed

\* lockFlake, up to the new lock file.
LockFlake(place, inputs, oldLockFile, flags) ==
    LET root == ComputeLocks(inputs, IF flags.recreate THEN NoLock ELSE oldLockFile,
                    [path |-> <<>>, sourcePath |-> place, followsPrefix |-> <<>>,
                     trustLock |-> FALSE, parents |-> {},
                     overrides |-> [p \in DOMAIN flags.overrides |->
                        [input |-> Input(flags.overrides[p], NoLock, NoInputs),
                         sourcePath |-> place, parent |-> NoLock]]],
                    flags)
    IN  IF root = Failed THEN Failed ELSE IF Check(root) THEN root ELSE Failed

DefaultFlags == [updates |-> {}, overrides |-> NoInputs, recreate |-> FALSE]

LockTop(flags) == LockFlake(TopPlace, ReadFlake(TopPlace, <<>>), flakeLock, flags)

-----------------------------------------------------------------------------
(* What lock files do not record: that an override by reference, or of an    *)
(* input below an input's input, has disappeared from a flake.nix; and that  *)
(* --override-input replaced an input that follows another or is overridden. *)

Vanished(before, after) ==
    LET old == AddOverrides(before, <<>>, TopPlace, <<>>)
        new == AddOverrides(after, <<>>, TopPlace, <<>>)
    IN  \E p \in DOMAIN old \ DOMAIN new : old[p].input.ref # NoLock \/ Len(p) > 2

Unrecorded(flags) ==
    LET plain == LockTop([DefaultFlags EXCEPT !.recreate = TRUE])
        follows(root, p) == LET all == GetAllInputs(<<>>, root)
                            IN  p \in DOMAIN all /\ ~IsNode(all[p])
    IN  \E p \in DOMAIN flags.overrides :
          \/ Len(p) > 2 \/ plain = Failed \/ follows(plain, p) \/ follows(flakeLock, p)
          \/ p \in DOMAIN AddOverrides(ReadFlake(TopPlace, <<>>), <<>>, TopPlace, <<>>)

-----------------------------------------------------------------------------
FlakesInit ==
    /\ repos = [r \in Repos |-> <<NoInputs>>]
    /\ flakeNix \in DOMAIN TopFlakes
    /\ flakeLock = NoInputs
    /\ lockedFor = 0 /\ gap = FALSE /\ commands = 0

\* The maintainers of a repository edit its flake.nix and commit it, with a new
\* lock file or with the old one.
Commit(r) ==
    LET place == [repo |-> r, rev |-> Len(repos[r]) + 1, dir |-> <<>>]
        inputs == ReadFlake(place, <<>>)
    IN  /\ place.rev \in DOMAIN RepoFlakes[r]
        /\ \E lock \in {LockFlake(place, inputs, Last(repos[r]), DefaultFlags), Last(repos[r])} :
              lock # Failed /\ repos' = [repos EXCEPT ![r] = Append(@, lock)]
        /\ gap' = (gap \/ \E rev \in 1 .. Len(repos[r]) :
                              Vanished(ReadFlake([place EXCEPT !.rev = rev], <<>>), inputs))
        /\ UNCHANGED <<flakeNix, flakeLock, lockedFor, commands>>

Edit(i) ==
    /\ commands < MaxCommands /\ i # flakeNix
    /\ flakeNix' = i
    /\ commands' = commands + 1
    /\ UNCHANGED <<repos, flakeLock, lockedFor, gap>>

\* A command computes the lock file and writes it; when it fails, nothing changes.
Run(flags) ==
    LET root == LockTop(flags)
    IN  /\ commands < MaxCommands /\ root # Failed
        /\ flakeLock' = root
        /\ lockedFor' = flakeNix
        /\ gap' = \/ Unrecorded(flags)
                  \/ ~flags.recreate /\ gap
                  \/ ~flags.recreate /\ lockedFor # 0
                        /\ Vanished(TopFlakes[lockedFor][<<>>], TopFlakes[flakeNix][<<>>])
        /\ commands' = commands + 1
        /\ UNCHANGED <<repos, flakeNix>>

FlakesNext ==
    \/ \E r \in Repos : Commit(r)
    \/ \E i \in DOMAIN TopFlakes : Edit(i)
    \/ \E flags \in Commands : Run(flags)

FlakesSpec == FlakesInit /\ [][FlakesNext]_flakeVars

-----------------------------------------------------------------------------
\* "Ensure that locking twice doesn't change anything": a lock file that was
\* computed for this flake.nix, by whatever command, is what the next command
\* computes, whatever the repositories have committed meanwhile.
LockIsStable == lockedFor = flakeNix /\ ~gap => LockTop(DefaultFlags) = flakeLock

\* A lock file agrees with the flakes it locks: every node has the inputs that
\* its flake declares at the locked commit, with the references and "follows" that
\* this flake, or the outermost flake that overrides them, gives them; although
\* computeLocks does not read the flakes whose entry it keeps.
RECURSIVE Agrees(_, _, _, _, _)
Agrees(node, inputs, path, sourcePath, outer) ==
    LET overrides == outer @@ AddOverrides(inputs, path, sourcePath, path)
    IN  /\ DOMAIN node = DOMAIN inputs
        /\ \A id \in DOMAIN inputs :
             LET p == Append(path, id)
                 given == p \in DOMAIN overrides
                 input == IF given THEN overrides[p].input ELSE inputs[id]
                 ref == IF input.ref = NoLock THEN Repo(id) ELSE input.ref
                 place == PlaceOf(ref, node[id].locked,
                                  IF given THEN overrides[p].sourcePath ELSE sourcePath)
             IN  IF input.follows # NoLock THEN node[id] = [follows |-> input.follows]
                 ELSE /\ IsNode(node[id]) /\ node[id].original = ref
                      /\ node[id].isFlake =>
                            Agrees(node[id].inputs, ReadFlake(place, p), p, place, overrides)

LockIsFaithful ==
    lockedFor = flakeNix /\ ~gap => Agrees(flakeLock, ReadFlake(TopPlace, <<>>), <<>>, TopPlace, NoInputs)

\* Locking updates what it is asked to update and nothing else: an input that has
\* the same reference as before, and is below inputs that have, stays at its
\* commit, unless it or one of those is to be updated or overridden.
PinsKept ==
    [][LET old == GetAllInputs(<<>>, flakeLock)
           new == GetAllInputs(<<>>, flakeLock')
           same(p) == /\ p \in DOMAIN old /\ p \in DOMAIN new
                      /\ IsNode(old[p]) /\ IsNode(new[p])
                      /\ old[p].original = new[p].original /\ old[p].parent = new[p].parent
           prefixes(p) == {SubSeq(p, 1, n) : n \in 1 .. Len(p)}
           moved == {p \in DOMAIN new : (\A q \in prefixes(p) : same(q))
                                        /\ old[p].locked # new[p].locked}
       IN  flakeLock' # flakeLock =>
             \A p \in moved : \A flags \in Commands :
                Run(flags) /\ ~flags.recreate =>
                    prefixes(p) \cap (flags.updates \cup DOMAIN flags.overrides) # {}]_flakeVars
=============================================================================
