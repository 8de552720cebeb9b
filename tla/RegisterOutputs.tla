--------------------------- MODULE RegisterOutputs ---------------------------
(***************************************************************************)
(* The end of a build: DerivationBuilderImpl::registerOutputs of           *)
(* unix/build/derivation-builder.cc.  The builder has left its outputs at  *)
(* scratch paths.  Nix scans them for references, rewrites the hash parts  *)
(* of scratch paths to those of the final paths, outputs that others refer *)
(* to first, moves them into the store and registers them.                 *)
(*                                                                         *)
(* The final path of a content-addressed output is known only after its    *)
(* contents are, so builds of different derivations can arrive at the same *)
(* path at once; a lock on the path keeps them apart.                      *)
(*                                                                         *)
(* The contents of an output are the set of the store paths whose hashes   *)
(* occur in it.  Builds are neither checks nor repairs, and the locks on   *)
(* output paths that are known in advance are those of PathLocks.          *)
(***************************************************************************)
EXTENDS Naturals, FiniteSets

CONSTANTS
    Builders,     \* the processes that end a build
    Builds,       \* what the builders may have built
    Sources,      \* the paths that are valid before and refer to nothing
    NoPath        \* "nothing" (a model value)

VARIABLES
    build,        \* what each builder has built
    bst,          \* what each knows: where it is, outputs to do, rewrites, infos
    dynamicLock,  \* which builder has the lock on a path
    valid,        \* the valid paths of the database, with their references
    disk          \* the paths of the store directory, with their contents

outputVars == <<build, bst, dynamicLock, valid, disk>>

Nothing == [x \in {} |-> {}]

\* Function f with x mapped to y.
Updated(f, x, y) == [z \in DOMAIN f \cup {x} |-> IF z = x THEN y ELSE f[z]]

\* A store path that is the hash of contents, in which references to itself have
\* been replaced by Self (HashModuloSink, makeFromCA).
Self == <<"self", "", {}>>
ContentPath(name, contents) == <<"ca", name, contents>>

Rewrite(contents, rewrites) ==
    {IF p \in DOMAIN rewrites THEN rewrites[p] ELSE p : p \in contents}

\* The paths that are valid before; and those that are known to be outputs of a
\* builder alone, because they depend on its derivation and not on contents.
ValidBefore(f) ==
    Sources \cup UNION {{f[b].known[o] : o \in DOMAIN f[b].known} : b \in Builders}
OwnPaths(k) == IF k.ca THEN {} ELSE {k.final[o] : o \in k.names \ DOMAIN k.known}

\* A builder leaves its outputs at scratch paths of their own, and what it can refer
\* to is its inputs and its outputs.  Derivations have different output paths, none
\* of which is a path made from contents.  What was valid before refers to nothing.
ASSUME OutputsAssumption ==
    \A f \in Builds :
        /\ \A b \in Builders :
              LET k == f[b]
                  New == k.names \ DOMAIN k.known
              IN  /\ k.ca \in BOOLEAN /\ k.sandbox \in BOOLEAN /\ DOMAIN k.known \subseteq k.names
                  /\ \A o \in k.names :
                        /\ k.contents[o] \subseteq Sources \cup {k.scratch[n] : n \in k.names}
                        /\ k.scratch[o] \notin Sources /\ k.scratch[o][1] # "ca"
                        /\ \A n \in k.names : k.scratch[n] = k.scratch[o] => n = o
                        /\ \A n \in DOMAIN k.known : k.known[n] = k.scratch[o] => n = o
                  /\ \A o, n \in New : ~k.ca /\ k.final[n] = k.final[o] => n = o
                  /\ \A p \in OwnPaths(k) : p[1] # "ca" /\ p \notin ValidBefore(f)
                  /\ \A c \in Builders \ {b} : OwnPaths(k) \cap OwnPaths(f[c]) = {}
        /\ \A p \in ValidBefore(f) : p # Self /\ (p[1] = "ca" => p[3] = {})

OutputsInit ==
    /\ build \in Builds
    /\ bst = [b \in Builders |-> [pc |-> "built", todo |-> build[b].names,
                                  rewrites |-> Nothing, infos |-> Nothing, cur |-> NoPath]]
    /\ dynamicLock = Nothing
    /\ valid = [p \in ValidBefore(build) |-> {}]
    /\ disk = valid

Set(b, s) == bst' = [bst EXCEPT ![b] = s]

\* The other outputs that an output refers to, from which topoSort makes the order.
\* Outputs that are valid already count as leaves.
OtherOutputs(b, o) ==
    {n \in build[b].names \ {o} :
        o \notin DOMAIN build[b].known /\ build[b].scratch[n] \in build[b].contents[o]}

\* topoSort finds that outputs refer to each other.
Cyclic(b) ==
    \E S \in (SUBSET build[b].names) \ {{}} : \A o \in S : OtherOutputs(b, o) \cap S # {}

\* The outputs that topoSort may put next: all they refer to has been done.
Sorted(b) == {o \in bst[b].todo : OtherOutputs(b, o) \cap bst[b].todo = {}}

\* An output is missing or does not belong to the build user, or "cycle detected".
RejectOutput(b) ==
    /\ bst[b].pc = "built"
    /\ Set(b, [bst[b] EXCEPT !.pc = "rejected"])
    /\ UNCHANGED <<build, dynamicLock, valid, disk>>

\* All outputs have been scanned and sorted.
ScanOutputs(b) ==
    /\ bst[b].pc = "built" /\ ~Cyclic(b)
    /\ Set(b, [bst[b] EXCEPT !.pc = "next"])
    /\ UNCHANGED <<build, dynamicLock, valid, disk>>

\* finish: outputs that refer to this one are rewritten.
WithRewrite(rewrites, from, to) ==
    IF from = to THEN rewrites ELSE Updated(rewrites, from, to)

SkipRegistered(b, o) ==
    /\ bst[b].pc = "next" /\ o \in Sorted(b) /\ o \in DOMAIN build[b].known
    /\ Set(b, [bst[b] EXCEPT !.todo = @ \ {o},
                 !.rewrites = WithRewrite(@, build[b].scratch[o], build[b].known[o])])
    /\ UNCHANGED <<build, dynamicLock, valid, disk>>

\* rewriteRefs: the references that were found, rewritten.
RewriteRefs(refs, scratch, final, rewrites) ==
    Rewrite(refs \ {scratch}, rewrites) \cup (IF scratch \in refs THEN {final} ELSE {})

\* The path, contents and references of an input-addressed or a content-addressed
\* output, from the contents and references the builder left.
InputAddressed(b, o) ==
    LET scratch == build[b].scratch[o]
        final == build[b].final[o]
        rewrites == WithRewrite(bst[b].rewrites, scratch, final)
    IN  [path |-> final, contents |-> Rewrite(build[b].contents[o], rewrites),
         refs |-> RewriteRefs(build[b].contents[o], scratch, final, rewrites)]

NewInfoFromCA(b, o) ==
    LET scratch == build[b].scratch[o]
        rewritten == Rewrite(build[b].contents[o], bst[b].rewrites)
        final == ContentPath(o, Rewrite(rewritten, Updated(Nothing, scratch, Self)))
    IN  [path |-> final, contents |-> Rewrite(rewritten, Updated(Nothing, scratch, final)),
         refs |-> RewriteRefs(build[b].contents[o], scratch, final, bst[b].rewrites)]

RewriteOutput(b, o) ==
    LET info == IF build[b].ca THEN NewInfoFromCA(b, o) ELSE InputAddressed(b, o)
        inPlace == ~build[b].sandbox /\ info.path = build[b].scratch[o]
    IN  /\ bst[b].pc = "next" /\ o \in Sorted(b) /\ o \notin DOMAIN build[b].known
        /\ disk' = IF inPlace THEN Updated(disk, info.path, info.contents) ELSE disk
        /\ Set(b, [bst[b] EXCEPT !.pc = IF build[b].ca THEN "lock"
                                        ELSE IF inPlace THEN "finish" ELSE "move",
                                 !.cur = [name |-> o, info |-> info]])
        /\ UNCHANGED <<build, dynamicLock, valid>>

Cur(b) == bst[b].cur.info

LockOutput(b) ==
    /\ bst[b].pc = "lock" /\ Cur(b).path \notin DOMAIN dynamicLock
    /\ dynamicLock' = Updated(dynamicLock, Cur(b).path, b)
    /\ Set(b, [bst[b] EXCEPT !.pc = "move"])
    /\ UNCHANGED <<build, valid, disk>>

\* "Path already exists because CA path produced by something else."
CheckValid(b) ==
    /\ bst[b].pc = "move"
    /\ Set(b, [bst[b] EXCEPT !.pc = IF Cur(b).path \in DOMAIN valid THEN "finish" ELSE "delete"])
    /\ UNCHANGED <<build, dynamicLock, valid, disk>>

DeleteDest(b) ==
    /\ bst[b].pc = "delete"
    /\ disk' = [p \in DOMAIN disk \ {Cur(b).path} |-> disk[p]]
    /\ Set(b, [bst[b] EXCEPT !.pc = "rename"])
    /\ UNCHANGED <<build, dynamicLock, valid>>

MoveOutput(b) ==
    /\ bst[b].pc = "rename"
    /\ disk' = Updated(disk, Cur(b).path, Cur(b).contents)
    /\ Set(b, [bst[b] EXCEPT !.pc = "finish"])
    /\ UNCHANGED <<build, dynamicLock, valid>>

\* registerValidPaths, in a transaction: it throws for a reference that is not valid.
CanRegister(infos) ==
    \A i \in infos : i.refs \subseteq DOMAIN valid \cup {j.path : j \in infos}
Registered(infos) ==
    LET paths == {i.path : i \in infos}
    IN  [p \in DOMAIN valid \cup paths |->
           IF p \in paths THEN (CHOOSE i \in infos : i.path = p).refs ELSE valid[p]]

\* The end of an iteration: finish(), and a content-addressed output is registered
\* "right away [...] so that we can safely unlock the path".
Later(b) == {}
Now(b) == IF build[b].ca THEN {Cur(b)} ELSE {}
FinishOutput(b) ==
    LET o == bst[b].cur.name
    IN  /\ bst[b].pc = "finish"
        /\ IF CanRegister(Now(b))
           THEN /\ valid' = Registered(Now(b))
                /\ Set(b, [bst[b] EXCEPT
                            !.pc = "unlock", !.todo = @ \ {o},
                            !.rewrites = WithRewrite(@, build[b].scratch[o], Cur(b).path),
                            !.infos = Updated(@, o, Cur(b))])
           ELSE valid' = valid /\ Set(b, [bst[b] EXCEPT !.pc = "threw"])
        /\ UNCHANGED <<build, dynamicLock, disk>>

Unlocked(b) ==
    [p \in {q \in DOMAIN dynamicLock : dynamicLock[q] # b} |-> dynamicLock[p]]

\* The destructor of dynamicOutputLock.
UnlockOutput(b) ==
    /\ bst[b].pc = "unlock"
    /\ dynamicLock' = Unlocked(b)
    /\ Set(b, [bst[b] EXCEPT !.pc = "next"])
    /\ UNCHANGED <<build, valid, disk>>

\* checkOutputs rejects the outputs, or they are registered together.
RejectOutputs(b) ==
    /\ bst[b].pc = "next" /\ bst[b].todo = {}
    /\ Set(b, [bst[b] EXCEPT !.pc = "rejected"])
    /\ UNCHANGED <<build, dynamicLock, valid, disk>>

RegisterAll(b) ==
    LET infos == {bst[b].infos[o] : o \in DOMAIN bst[b].infos}
    IN  /\ bst[b].pc = "next" /\ bst[b].todo = {}
        /\ IF CanRegister(infos)
           THEN valid' = Registered(infos) /\ Set(b, [bst[b] EXCEPT !.pc = "done"])
           ELSE valid' = valid /\ Set(b, [bst[b] EXCEPT !.pc = "threw"])
        /\ UNCHANGED <<build, dynamicLock, disk>>

Ended == {"rejected", "threw", "done", "killed"}

Kill(b) ==
    /\ bst[b].pc \notin Ended
    /\ dynamicLock' = Unlocked(b)
    /\ Set(b, [bst[b] EXCEPT !.pc = "killed"])
    /\ UNCHANGED <<build, valid, disk>>

OutputsNext ==
    \E b \in Builders :
        \/ RejectOutput(b) \/ ScanOutputs(b)
        \/ \E o \in build[b].names : SkipRegistered(b, o) \/ RewriteOutput(b, o)
        \/ LockOutput(b) \/ CheckValid(b) \/ DeleteDest(b) \/ MoveOutput(b)
        \/ FinishOutput(b) \/ UnlockOutput(b) \/ RejectOutputs(b) \/ RegisterAll(b) \/ Kill(b)

OutputsSpec == OutputsInit /\ [][OutputsNext]_outputVars

-----------------------------------------------------------------------------
\* What is registered is what is there: a valid path is in the store directory,
\* its references in the database are those its contents have after all rewriting,
\* and they are valid; while several builds produce the same path, and a build may
\* be killed at any point.  Registration does not fail for what registerOutputs
\* itself did: no reference to a scratch path is left.
RegisteredExactly ==
    /\ \A p \in DOMAIN valid :
          p \in DOMAIN disk /\ disk[p] = valid[p] /\ valid[p] \subseteq DOMAIN valid
    /\ \A b \in Builders : bst[b].pc # "threw"
=============================================================================
