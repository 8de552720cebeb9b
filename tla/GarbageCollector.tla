--------------------------- MODULE GarbageCollector ---------------------------
(***************************************************************************)
(* The garbage collector and the processes that run while it collects:     *)
(* LocalStore::addTempRoot, findRoots, findTempRoots and collectGarbage of *)
(* libstore/gc.cc, with the parts of addToStore, registerValidPaths,       *)
(* invalidatePathChecked and addPermRoot that meet it.                     *)
(*                                                                         *)
(* A process that is about to use a store path first registers it as a     *)
(* temporary root.  If no collector runs it takes the GC lock shared and   *)
(* appends the path to its temproots file; otherwise it sends the path to  *)
(* the collector's socket, waits for the acknowledgement, and then appends *)
(* it.  The collector holds the GC lock exclusively, reads the permanent   *)
(* roots, then the temproots files, and then walks the referrers of every  *)
(* path in the store; a walk that meets no root deletes all it visited.    *)
(* Server threads inside the collector receive the new roots meanwhile.    *)
(*                                                                         *)
(* Two history variables are read by no code: exposed has the paths that   *)
(* slipped through one of the protocol's gaps, at GCLock, ServerAck and    *)
(* ProcExit, and promised the permanent roots made for valid paths.        *)
(*                                                                         *)
(* Left out: keep-outputs and keep-derivations (both off), ignoreLiveness, *)
(* the actions that only report (gcReturnLive, gcReturnDead), files in the *)
(* store that are no store paths, the .links directory, runtime roots, and *)
(* the path info cache (isValidPath is a query of the database).           *)
(***************************************************************************)
EXTENDS Naturals, FiniteSets

CONSTANTS
    Threads,    \* threads that use the store
    Procs,      \* the processes they belong to
    ProcOf,     \* the process of each thread
    Paths,      \* store paths
    Refs,       \* Refs[p]: the references that p has when it is valid
    Targets,    \* the values of pathsToDelete (Paths for gcDeleteDead)
    InitialStore, \* the possible initial sets of valid paths
    None

ASSUME GCAssumption ==
    /\ ProcOf \in [Threads -> Procs]
    /\ Refs \in [Paths -> SUBSET Paths]
    /\ Targets \subseteq SUBSET Paths
    /\ InitialStore \subseteq SUBSET Paths
    /\ \A S \in InitialStore : \A p \in S : Refs[p] \subseteq S
    /\ None \notin Threads \cup Paths

VARIABLES
    valid,      \* paths registered in the database
    disk,       \* paths that exist in the store directory
    perm,       \* paths with a link in gcroots or profiles
    promised,   \* those whose link was made while they were valid
    exclusive,  \* the collector holds the GC lock
    shared,     \* processes whose descriptor of the GC lock is locked shared
    file,       \* file[P]: contents of the temproots file of process P
    inUse,      \* inUse[P]: paths P relies on being valid
    adding,     \* paths whose output lock is held by a thread in addToStore
    pc,         \* pc[t]: the step thread t is at
    path,       \* path[t]: the argument of its addTempRoot
    sock,       \* sock[P]: _fdRootsSocket, "none", "open" or "dead"
    user,       \* user[P]: the thread that has _fdRootsSocket locked
    msg,        \* msg[P]: the root P has sent and the server not yet read
    reply,      \* reply[P]: the root the server has read, not yet acknowledged
    ack         \* ack[P]: an acknowledgement P has not yet read

VARIABLES
    gpc,        \* the step of the collector
    listening,  \* its socket accepts connections
    target,     \* options.pathsToDelete
    roots,      \* its set roots
    tempRoots,  \* its set _shared.tempRoots
    pending,    \* _shared.pending
    unread,     \* temproots files it has not read yet
    listed,     \* entries that readdir has returned
    start,      \* the argument of deleteReferrersClosure
    visited,    \* paths enqueued by the walk, then those topoSortPaths ordered
    queue,      \* todo of the walk, then the paths still to be deleted
    victim,     \* the path that is invalidated and not yet unlinked
    alive, dead,
    referrers,  \* referrersCache: a set of pairs <<p, referrers of p>>
    exposed

permVars == <<perm, promised>>
storeVars == <<valid, disk, permVars>>
lockVars == <<exclusive, shared>>
procVars == <<file, inUse, adding>>
threadVars == <<pc, path>>
sockVars == <<sock, user, msg, reply, ack>>
gcVars == <<gpc, listening, target, roots, tempRoots, pending, unread, listed,
            start, visited, queue, victim, alive, dead, referrers>>
vars == <<valid, disk, perm, promised, exclusive, shared, file, inUse, adding, pc, path,
          sock, user, msg, reply, ack, gpc, listening, target, roots, tempRoots,
          pending, unread, listed, start, visited, queue, victim, alive, dead,
          referrers, exposed>>

-----------------------------------------------------------------------------
(* Helpers *)

\* The valid paths that refer to p (queryReferrers; self-references erased).
Referrers(p) == {q \in valid \ {p} : p \in Refs[q]}

\* computeFSClosure(p): the least set that holds p and the references of its
\* members.
ClosureOf(p) ==
    {q \in Paths : \A C \in SUBSET Paths :
        (p \in C /\ \A r \in C : Refs[r] \subseteq C) => q \in C}

Goto(t, step) == pc' = [pc EXCEPT ![t] = step]

\* The thread is done with its path.
Done(t) == Goto(t, "idle") /\ path' = [path EXCEPT ![t] = None]

\* addTempRoot begins again: it has released what it holds of the socket.
Restart(t) == Goto(t, "trylock") /\ user' = [user EXCEPT ![ProcOf[t]] = None]

\* The paths that the walk has checked and not yet deleted: unless the walk
\* still meets a root, it will delete them.
Doomed ==
    IF gpc = "visit" THEN visited \ (queue \cup dead)
    ELSE (queue \ dead) \cup ({victim} \ {None})

\* Thread t was let through by a collector or by the GC lock and has not yet
\* appended its root.
PastLock(t) ==
    \/ pc[t] \in {"write", "write_locked"}
    \/ pc[t] = "ack" /\ ack[ProcOf[t]]

-----------------------------------------------------------------------------
Init ==
    /\ valid \in InitialStore
    /\ disk = valid
    /\ perm = {}
    /\ promised = {}
    /\ exclusive = FALSE
    /\ shared = {}
    /\ file = [P \in Procs |-> {}]
    /\ inUse = [P \in Procs |-> {}]
    /\ adding = {}
    /\ pc = [t \in Threads |-> "idle"]
    /\ path = [t \in Threads |-> None]
    /\ sock = [P \in Procs |-> "none"]
    /\ user = [P \in Procs |-> None]
    /\ msg = [P \in Procs |-> None]
    /\ reply = [P \in Procs |-> None]
    /\ ack = [P \in Procs |-> FALSE]
    /\ gpc = "idle"
    /\ listening = FALSE
    /\ target = {}
    /\ roots = {}
    /\ tempRoots = {}
    /\ pending = None
    /\ unread = {}
    /\ listed = {}
    /\ start = None
    /\ visited = {}
    /\ queue = {}
    /\ victim = None
    /\ alive = {}
    /\ dead = {}
    /\ referrers = {}
    /\ exposed = {}

-----------------------------------------------------------------------------
(* addTempRoot *)

AddTempRoot(t, p) ==
    /\ pc[t] = "idle"
    /\ Goto(t, "trylock")
    /\ path' = [path EXCEPT ![t] = p]
    /\ UNCHANGED <<storeVars, lockVars, procVars, sockVars, gcVars, exposed>>

\* FdLock gcLock(_fdGCLock, ltRead, false): flock() on the descriptor that the
\* threads of the process share.
TryGCLock(t) ==
    /\ pc[t] = "trylock"
    /\ \/ /\ ~exclusive
          /\ shared' = shared \cup {ProcOf[t]}
          /\ Goto(t, "write_locked")
       \/ /\ exclusive
          /\ Goto(t, "connect")
          /\ UNCHANGED shared
    /\ UNCHANGED <<storeVars, exclusive, procVars, path, sockVars, gcVars, exposed>>

\* Lock _fdRootsSocket and connect unless it is connected; if the collector has
\* no socket (any more), close it, sleep and restart.
Connect(t) ==
    LET P == ProcOf[t] IN
    /\ pc[t] = "connect"
    /\ user[P] = None
    /\ \/ /\ sock[P] # "none" \/ listening
          /\ sock' = [sock EXCEPT ![P] = IF @ = "none" THEN "open" ELSE @]
          /\ user' = [user EXCEPT ![P] = t]
          /\ Goto(t, "send")
       \/ /\ sock[P] = "none" /\ ~listening
          /\ Restart(t)
          /\ UNCHANGED sock
    /\ UNCHANGED <<storeVars, lockVars, procVars, path, msg, reply, ack, gcVars, exposed>>

\* writeFull(fdRootsSocket, path); a socket of a collector that is gone gives
\* EPIPE: close it and restart.
Send(t) ==
    LET P == ProcOf[t] IN
    /\ pc[t] = "send"
    /\ \/ /\ sock[P] = "open"
          /\ msg' = [msg EXCEPT ![P] = path[t]]
          /\ Goto(t, "ack")
          /\ UNCHANGED <<sock, user>>
       \/ /\ sock[P] = "dead"
          /\ sock' = [sock EXCEPT ![P] = "none"]
          /\ Restart(t)
          /\ UNCHANGED msg
    /\ UNCHANGED <<storeVars, lockVars, procVars, path, reply, ack, gcVars, exposed>>

\* readFull(fdRootsSocket): the acknowledgement, or EOF or ECONNRESET.
RecvAck(t) ==
    LET P == ProcOf[t] IN
    /\ pc[t] = "ack"
    /\ \/ /\ ack[P]
          /\ ack' = [ack EXCEPT ![P] = FALSE]
          /\ user' = [user EXCEPT ![P] = None]
          /\ Goto(t, "write")
          /\ UNCHANGED sock
       \/ /\ ~ack[P] /\ sock[P] = "dead"
          /\ sock' = [sock EXCEPT ![P] = "none"]
          /\ Restart(t)
          /\ UNCHANGED ack
    /\ UNCHANGED <<storeVars, lockVars, procVars, path, msg, reply, gcVars, exposed>>

\* Append the root to the temproots file and return; with the GC lock held,
\* the destructor of gcLock unlocks the descriptor.
WriteRoot(t) ==
    LET P == ProcOf[t] IN
    /\ pc[t] \in {"write", "write_locked"}
    /\ file' = [file EXCEPT ![P] = @ \cup {path[t]}]
    /\ shared' = IF pc[t] = "write_locked" THEN shared \ {P} ELSE shared
    /\ Goto(t, "rooted")
    /\ UNCHANGED <<storeVars, exclusive, inUse, adding, path, sockVars, gcVars, exposed>>

-----------------------------------------------------------------------------
(* What callers of addTempRoot do next *)

\* The path is valid: use it.
UsePath(t) ==
    /\ pc[t] = "rooted"
    /\ path[t] \in valid
    /\ inUse' = [inUse EXCEPT ![ProcOf[t]] = @ \cup {path[t]}]
    /\ Done(t)
    /\ UNCHANGED <<storeVars, lockVars, file, adding, sockVars, gcVars, exposed>>

\* addToStore: the path is not valid, also not after its output lock has been
\* acquired; delete what is there and write it.
WritePath(t) ==
    /\ pc[t] = "rooted"
    /\ path[t] \notin valid \cup adding
    /\ adding' = adding \cup {path[t]}
    /\ disk' = disk \cup {path[t]}
    /\ Goto(t, "register")
    /\ UNCHANGED <<valid, permVars, lockVars, file, inUse, path, sockVars, gcVars, exposed>>

\* Mutant of RegisterPath: the references are not checked.
RegisterUnchecked(t) ==
    /\ pc[t] = "register"
    /\ adding' = adding \ {path[t]}
    /\ Done(t)
    /\ valid' = valid \cup {path[t]}
    /\ inUse' = [inUse EXCEPT ![ProcOf[t]] = @ \cup {path[t]}]
    /\ UNCHANGED <<disk, permVars, lockVars, file, sockVars, gcVars, exposed>>

\* registerValidPath: one transaction, which fails if a reference is invalid.
RegisterPath(t) ==
    /\ pc[t] = "register"
    /\ adding' = adding \ {path[t]}
    /\ Done(t)
    /\ \/ /\ Refs[path[t]] \subseteq valid \cup {path[t]}
          /\ valid' = valid \cup {path[t]}
          /\ inUse' = [inUse EXCEPT ![ProcOf[t]] = @ \cup {path[t]}]
       \/ /\ ~(Refs[path[t]] \subseteq valid \cup {path[t]})
          /\ UNCHANGED <<valid, inUse>>
    /\ UNCHANGED <<disk, permVars, lockVars, file, sockVars, gcVars, exposed>>

\* addPermRoot: after its addTempRoot it makes the link, whether or not the path
\* is valid.
AddPermRoot(t) ==
    /\ pc[t] = "rooted"
    /\ perm' = perm \cup {path[t]}
    /\ promised' = promised \cup ({path[t]} \cap valid)
    /\ Done(t)
    /\ UNCHANGED <<valid, disk, lockVars, procVars, sockVars, gcVars, exposed>>

\* A user removes a permanent root.
RemovePermRoot(p) ==
    /\ p \in perm
    /\ perm' = perm \ {p}
    /\ promised' = promised \ {p}
    /\ UNCHANGED <<valid, disk, lockVars, procVars, threadVars, sockVars, gcVars, exposed>>

\* The process exits or is killed: the kernel releases its locks and closes its
\* socket, and its temproots file is unlinked or no longer locked, so it counts
\* for nothing.  A permanent root that was made too late for FindRoots may have
\* been in that file only.
ProcExit(P) ==
    LET mine == {t \in Threads : ProcOf[t] = P} IN
    /\ pc' = [t \in Threads |-> IF t \in mine THEN "idle" ELSE pc[t]]
    /\ path' = [t \in Threads |-> IF t \in mine THEN None ELSE path[t]]
    /\ adding' = adding \ {path[t] : t \in {u \in mine : pc[u] = "register"}}
    /\ file' = [file EXCEPT ![P] = {}]
    /\ inUse' = [inUse EXCEPT ![P] = {}]
    /\ shared' = shared \ {P}
    /\ sock' = [sock EXCEPT ![P] = "none"]
    /\ user' = [user EXCEPT ![P] = None]
    /\ msg' = [msg EXCEPT ![P] = None]
    /\ reply' = [reply EXCEPT ![P] = None]
    /\ ack' = [ack EXCEPT ![P] = FALSE]
    /\ exposed' = IF P \in unread
                  THEN exposed \cup ((promised \cap file[P]) \ roots)
                  ELSE exposed
    /\ UNCHANGED <<storeVars, exclusive, gcVars>>

-----------------------------------------------------------------------------
(* collectGarbage *)

\* FdLock gcLock(fdGCLock, ltWrite, true).  A thread that is past its own lock
\* attempt but has not appended its root yet will be missed.
GCLock(T) ==
    /\ gpc = "idle"
    /\ ~exclusive
    /\ shared = {}
    /\ exclusive' = TRUE
    /\ target' = T
    /\ gpc' = "socket"
    /\ exposed' = exposed \cup {path[t] : t \in {u \in Threads : PastLock(u)}}
    /\ UNCHANGED <<storeVars, shared, procVars, threadVars, sockVars, listening,
                   roots, tempRoots, pending, unread, listed, start, visited, queue,
                   victim, alive, dead, referrers>>

\* createUnixDomainSocket and the server thread.
OpenServer ==
    /\ gpc = "socket"
    /\ listening' = TRUE
    /\ gpc' = "roots"
    /\ UNCHANGED <<storeVars, lockVars, procVars, threadVars, sockVars, target,
                   roots, tempRoots, pending, unread, listed, start, visited, queue,
                   victim, alive, dead, referrers, exposed>>

\* findRootsNoTemp: only links to valid paths count.
FindRoots ==
    /\ gpc = "roots"
    /\ roots' = perm \cap valid
    /\ unread' = Procs
    /\ gpc' = "temproots"
    /\ UNCHANGED <<storeVars, lockVars, procVars, threadVars, sockVars, listening,
                   target, tempRoots, pending, listed, start, visited, queue, victim,
                   alive, dead, referrers, exposed>>

\* Mutant of ReadTempRoots: the contents of the file are one root.
ReadWholeFile(P) ==
    /\ gpc = "temproots"
    /\ P \in unread
    /\ unread' = unread \ {P}
    /\ tempRoots' = tempRoots \cup {file[P]}
    /\ roots' = roots \cup {file[P]}
    /\ gpc' = IF unread = {P} THEN "scan" ELSE gpc
    /\ UNCHANGED <<storeVars, lockVars, procVars, threadVars, sockVars, listening,
                   target, pending, listed, start, visited, queue, victim, alive,
                   dead, referrers, exposed>>

\* findTempRoots reads one file; the scan begins when all have been read.
ReadTempRoots(P) ==
    /\ gpc = "temproots"
    /\ P \in unread
    /\ unread' = unread \ {P}
    /\ tempRoots' = tempRoots \cup file[P]
    /\ roots' = roots \cup file[P]
    /\ gpc' = IF unread = {P} THEN "scan" ELSE gpc
    /\ UNCHANGED <<storeVars, lockVars, procVars, threadVars, sockVars, listening,
                   target, pending, listed, start, visited, queue, victim, alive,
                   dead, referrers, exposed>>

\* Mutant of ServerRecv: the root is not recorded.
RecvIgnored(P) ==
    /\ listening
    /\ sock[P] = "open"
    /\ msg[P] # None
    /\ reply[P] = None
    /\ reply' = [reply EXCEPT ![P] = msg[P]]
    /\ msg' = [msg EXCEPT ![P] = None]
    /\ UNCHANGED <<storeVars, lockVars, procVars, threadVars, sock, user, ack, gcVars,
                   exposed>>

\* A client thread of the server reads a root and records it.
ServerRecv(P) ==
    /\ listening
    /\ sock[P] = "open"
    /\ msg[P] # None
    /\ reply[P] = None
    /\ tempRoots' = tempRoots \cup {msg[P]}
    /\ reply' = [reply EXCEPT ![P] = msg[P]]
    /\ msg' = [msg EXCEPT ![P] = None]
    /\ UNCHANGED <<storeVars, lockVars, procVars, threadVars, sock, user, ack, gpc,
                   listening, target, roots, pending, unread, listed, start, visited,
                   queue, victim, alive, dead, referrers, exposed>>

\* Mutant of ServerAck: the pending path is not waited for.
AckAtOnce(P) ==
    /\ listening
    /\ reply[P] # None
    /\ ack' = [ack EXCEPT ![P] = TRUE]
    /\ reply' = [reply EXCEPT ![P] = None]
    /\ UNCHANGED <<storeVars, lockVars, procVars, threadVars, sock, user, msg, gcVars,
                   exposed>>

\* It acknowledges the root unless it is the pending one.  If it is, the thread
\* sleeps on wakeup, which the end of the walk notifies (and which may wake by
\* itself, as condition variables do, when pending has changed).
ServerAck(P) ==
    /\ listening
    /\ reply[P] # None
    /\ pending # reply[P]
    /\ ack' = [ack EXCEPT ![P] = TRUE]
    /\ reply' = [reply EXCEPT ![P] = None]
    /\ exposed' = exposed \cup ({reply[P]} \cap Doomed)
    /\ UNCHANGED <<storeVars, lockVars, procVars, threadVars, sock, user, msg, gcVars>>

\* readdir returns an entry (or the next of pathsToDelete is taken):
\* deleteReferrersClosure begins.
NextEntry(p) ==
    /\ gpc = "scan"
    /\ p \in target \ listed
    /\ p \in disk \/ target # Paths
    /\ listed' = listed \cup {p}
    /\ start' = p
    /\ visited' = {p}
    /\ queue' = {p}
    /\ gpc' = "visit"
    /\ UNCHANGED <<storeVars, lockVars, procVars, threadVars, sockVars, listening,
                   target, roots, tempRoots, pending, unread, victim, alive, dead,
                   referrers, exposed>>

\* What the scan works with, which nothing reads after it.
Kept(step, S) == IF step = "close" THEN {} ELSE S

\* Mutant of EndWalk: pending is not reset.
EndWalkPending(step) ==
    /\ start' = None
    /\ visited' = {}
    /\ queue' = {}
    /\ target' = Kept(step, target)
    /\ roots' = Kept(step, roots)
    /\ listed' = Kept(step, listed)
    /\ dead' = Kept(step, dead)
    /\ referrers' = Kept(step, referrers)
    /\ gpc' = step
    /\ UNCHANGED pending

\* deleteReferrersClosure returns: releasePending runs.
EndWalk(step) ==
    /\ pending' = None
    /\ start' = None
    /\ visited' = {}
    /\ queue' = {}
    /\ target' = Kept(step, target)
    /\ roots' = Kept(step, roots)
    /\ listed' = Kept(step, listed)
    /\ dead' = Kept(step, dead)
    /\ referrers' = Kept(step, referrers)
    /\ gpc' = step

\* What follows a walk: the next entry, but gcDeleteSpecific throws when the
\* path it was told to delete is not dead.
AfterWalk == IF target = Paths \/ start \in dead THEN "scan" ELSE "close"

\* A visited path that is known to be alive ends the walk.
VisitAlive(p) ==
    /\ gpc = "visit"
    /\ p \in queue \cap alive
    /\ alive' = Kept(AfterWalk, alive \cup {start})
    /\ EndWalk(AfterWalk)
    /\ UNCHANGED <<storeVars, lockVars, procVars, threadVars, sockVars, listening,
                   tempRoots, unread, victim, exposed>>

\* A path that was deleted before is skipped.
VisitDead(p) ==
    /\ gpc = "visit"
    /\ p \in (queue \cap dead) \ alive
    /\ queue' = queue \ {p}
    /\ UNCHANGED <<storeVars, lockVars, procVars, threadVars, sockVars, gpc,
                   listening, target, roots, tempRoots, pending, unread, listed,
                   start, visited, victim, alive, dead, referrers, exposed>>

\* A root ends the walk and its closure is alive; so does a path that is not
\* to be deleted, but nothing is learnt.
VisitRoot(p) ==
    /\ gpc = "visit"
    /\ p \in queue \ (alive \cup dead)
    /\ \/ /\ p \in roots \cup (tempRoots \cap target)
          /\ alive' = Kept(AfterWalk, alive \cup {p, start}
                                         \cup (IF p \in valid THEN ClosureOf(p) ELSE {}))
       \/ /\ p \notin roots \cup target
          /\ alive' = Kept(AfterWalk, alive)
    /\ EndWalk(AfterWalk)
    /\ UNCHANGED <<storeVars, lockVars, procVars, threadVars, sockVars, listening,
                   tempRoots, unread, victim, exposed>>

\* Any other path becomes the pending one and its referrers are enqueued.
VisitGarbage(p) ==
    /\ gpc = "visit"
    /\ p \in (queue \cap target) \ (alive \cup dead \cup roots \cup tempRoots)
    /\ pending' = p
    /\ \/ /\ p \in valid
          /\ \E R \in SUBSET Paths :
                /\ \/ <<p, R>> \in referrers
                   \/ R = Referrers(p) /\ \A r \in referrers : r[1] # p
                /\ referrers' = referrers \cup {<<p, R>>}
                /\ visited' = visited \cup R
                /\ queue' = (queue \ {p}) \cup (R \ visited)
       \/ /\ p \notin valid
          /\ queue' = queue \ {p}
          /\ UNCHANGED <<referrers, visited>>
    /\ UNCHANGED <<storeVars, lockVars, procVars, threadVars, sockVars, gpc,
                   listening, target, roots, tempRoots, unread, listed, start, victim,
                   alive, dead, exposed>>

\* The walk met no root: everything visited is garbage.  topoSortPaths sorts
\* it by the references that are in the database now, those of valid paths;
\* from here on visited holds the paths whose references it has seen.
BeginDelete ==
    /\ gpc = "visit"
    /\ queue = {}
    /\ queue' = visited
    /\ visited' = visited \cap valid
    /\ gpc' = "delete"
    /\ UNCHANGED <<storeVars, lockVars, procVars, threadVars, sockVars, listening,
                   target, roots, tempRoots, pending, unread, listed, start, victim,
                   alive, dead, referrers, exposed>>

\* The next path in topological order, referrers first: skip it if it is in
\* dead, otherwise invalidatePathChecked, which keeps a path that has
\* referrers (PathInUse) and removes it from the database otherwise.
Invalidate(p) ==
    /\ gpc = "delete"
    /\ p \in queue
    /\ \A q \in (queue \cap visited) \ {p} : p \notin Refs[q]
    /\ dead' = dead \cup {p}
    /\ \/ /\ p \in dead \/ (p \in valid /\ Referrers(p) # {})
          /\ queue' = queue \ {p}
          /\ UNCHANGED <<valid, victim, gpc>>
       \/ /\ ~(p \in dead \/ (p \in valid /\ Referrers(p) # {}))
          /\ valid' = valid \ {p}
          /\ victim' = p
          /\ gpc' = "unlink"
          /\ UNCHANGED queue
    /\ UNCHANGED <<disk, permVars, lockVars, procVars, threadVars, sockVars, listening,
                   target, roots, tempRoots, pending, unread, listed, start, visited,
                   alive, referrers, exposed>>

\* deleteFromStore: go on, or stop because enough was freed or deletion failed.
Unlink ==
    /\ gpc = "unlink"
    /\ victim' = None
    /\ \/ /\ disk' = disk \ {victim}
          /\ queue' = queue \ {victim}
          /\ gpc' = "delete"
          /\ referrers' = {r \in referrers : r[1] # victim}
          /\ UNCHANGED <<pending, target, roots, listed, start, visited, alive, dead>>
       \/ /\ disk' \in {disk \ {victim}, disk}
          /\ EndWalk("close")
          /\ alive' = {}
    /\ UNCHANGED <<valid, permVars, lockVars, procVars, threadVars, sockVars, listening,
                   tempRoots, unread, exposed>>

EndDelete ==
    /\ gpc = "delete"
    /\ queue = {}
    /\ EndWalk("scan")
    /\ UNCHANGED <<storeVars, lockVars, procVars, threadVars, sockVars, listening,
                   tempRoots, unread, victim, alive, exposed>>

\* The directory is exhausted, or an interrupt or an error ends the scan or
\* the walk.
EndScan ==
    /\ gpc \in {"scan", "visit"}
    /\ EndWalk("close")
    /\ alive' = {}
    /\ UNCHANGED <<storeVars, lockVars, procVars, threadVars, sockVars, listening,
                   tempRoots, unread, victim, exposed>>

\* The sockets of a collector that is gone: peers see EOF, but can still read
\* an acknowledgement that was sent.
ServerGone ==
    /\ listening' = FALSE
    /\ sock' = [P \in Procs |-> IF sock[P] = "open" THEN "dead" ELSE sock[P]]
    /\ msg' = [P \in Procs |-> None]
    /\ reply' = [P \in Procs |-> None]
    /\ UNCHANGED <<user, ack>>

\* stopServer: ask the server thread to quit and join it; it joins the threads
\* of its clients, so none of them may still be waiting for pending.
CloseServer ==
    /\ gpc = "close"
    /\ \A P \in Procs : reply[P] # None => reply[P] # pending
    /\ gpc' = "unlock"
    /\ ServerGone
    /\ UNCHANGED <<storeVars, lockVars, procVars, threadVars, target, roots,
                   tempRoots, pending, unread, listed, start, visited, queue, victim,
                   alive, dead, referrers, exposed>>

\* The end of a collector: its lock and its memory are gone.  A path that
\* slipped through a gap and is still there was lucky.
GCGone ==
    /\ exclusive' = FALSE
    /\ gpc' = "idle"
    /\ target' = {}
    /\ roots' = {}
    /\ tempRoots' = {}
    /\ pending' = None
    /\ unread' = {}
    /\ listed' = {}
    /\ start' = None
    /\ visited' = {}
    /\ queue' = {}
    /\ victim' = None
    /\ alive' = {}
    /\ dead' = {}
    /\ referrers' = {}
    /\ exposed' = exposed \ (valid \cap disk)

\* collectGarbage returns: gcLock and fdGCLock go, and with them the lock.
GCUnlock ==
    /\ gpc = "unlock"
    /\ GCGone
    /\ UNCHANGED <<storeVars, shared, procVars, threadVars, sockVars, listening>>

\* The collector is killed.
GCKilled ==
    /\ gpc # "idle"
    /\ GCGone
    /\ ServerGone
    /\ UNCHANGED <<storeVars, shared, procVars, threadVars>>

-----------------------------------------------------------------------------
\* The steps inside addTempRoot.
Rooting(t) == TryGCLock(t) \/ Connect(t) \/ Send(t) \/ RecvAck(t) \/ WriteRoot(t)

Client(t) ==
    \/ \E p \in Paths : AddTempRoot(t, p)
    \/ Rooting(t)
    \/ UsePath(t)
    \/ WritePath(t)
    \/ RegisterPath(t)
    \/ AddPermRoot(t)

Server(P) == ServerRecv(P) \/ ServerAck(P)

\* The steps of a collector that has the lock.
Collect ==
    \/ OpenServer
    \/ FindRoots
    \/ \E P \in Procs : ReadTempRoots(P)
    \/ \E p \in Paths : NextEntry(p)
    \/ \E p \in Paths : VisitAlive(p) \/ VisitDead(p) \/ VisitRoot(p) \/ VisitGarbage(p)
    \/ BeginDelete
    \/ \E p \in Paths : Invalidate(p)
    \/ Unlink
    \/ EndDelete
    \/ EndScan
    \/ CloseServer
    \/ GCUnlock

Next ==
    \/ \E t \in Threads : Client(t)
    \/ \E p \in Paths : RemovePermRoot(p)
    \/ \E P \in Procs : ProcExit(P) \/ Server(P)
    \/ \E T \in Targets : GCLock(T)
    \/ Collect
    \/ GCKilled

Spec == Init /\ [][Next]_vars

\* Threads inside addTempRoot, the server's threads and the collector run.
FairSpec ==
    /\ Spec
    /\ \A t \in Threads : WF_vars(Rooting(t))
    /\ \A P \in Procs : WF_vars(Server(P))
    /\ WF_vars(Collect)

-----------------------------------------------------------------------------
ThreadSteps == {"idle", "trylock", "connect", "send", "ack", "write",
                "write_locked", "rooted", "register"}
GCSteps == {"idle", "socket", "roots", "temproots", "scan", "visit", "delete",
            "unlink", "close", "unlock"}

\* The variables of addTempRoot, of the collector and of its server threads hold
\* what the code declares them to: sets of paths, threads and flags.
TypeOK ==
    /\ valid \in SUBSET Paths /\ disk \in SUBSET Paths
    /\ perm \in SUBSET Paths /\ promised \in SUBSET Paths
    /\ exclusive \in BOOLEAN /\ shared \in SUBSET Procs
    /\ file \in [Procs -> SUBSET Paths]
    /\ inUse \in [Procs -> SUBSET Paths]
    /\ adding \in SUBSET Paths
    /\ pc \in [Threads -> ThreadSteps]
    /\ path \in [Threads -> Paths \cup {None}]
    /\ sock \in [Procs -> {"none", "open", "dead"}]
    /\ user \in [Procs -> Threads \cup {None}]
    /\ msg \in [Procs -> Paths \cup {None}]
    /\ reply \in [Procs -> Paths \cup {None}]
    /\ ack \in [Procs -> BOOLEAN]
    /\ gpc \in GCSteps
    /\ listening \in BOOLEAN
    /\ target \in SUBSET Paths
    /\ roots \in SUBSET Paths /\ tempRoots \in SUBSET Paths
    /\ pending \in Paths \cup {None}
    /\ unread \in SUBSET Procs
    /\ listed \in SUBSET Paths
    /\ start \in Paths \cup {None} /\ victim \in Paths \cup {None}
    /\ visited \in SUBSET Paths /\ queue \in SUBSET Paths
    /\ alive \in SUBSET Paths /\ dead \in SUBSET Paths
    /\ referrers \in SUBSET (Paths \X SUBSET Paths)
    /\ exposed \in SUBSET Paths

\* The closure invariant of the store: a valid path's references are valid,
\* although clients register paths while the collector deletes others.
Closed == \A p \in valid : Refs[p] \subseteq valid

\* What a process relies on is there: the paths it has in use after addTempRoot
\* returned, and the permanent roots of paths that were valid when the link was
\* made, are valid and on disk, unless they slipped through one of the gaps that
\* exposed records.
Protected ==
    /\ \A P \in Procs : inUse[P] \ exposed \subseteq valid \cap disk
    /\ promised \ exposed \subseteq valid \cap disk

\* A valid path exists on disk: the collector never deletes the files of a path
\* that a client has registered, again unless it slipped through a gap.
ValidOnDisk == valid \ exposed \subseteq disk

\* addTempRoot returns: a thread is not left waiting for an acknowledgement,
\* unless collectors keep starting or its process ends.
AddTempRootReturns ==
    \/ []<><<\E T \in Targets : GCLock(T)>>_vars
    \/ \A t \in Threads : pc[t] = "trylock" ~> pc[t] \in {"rooted", "idle"}

-----------------------------------------------------------------------------
(* What a comment of gc.cc says, and the code does not guarantee.          *)

\* "Read the temporary roots created before we acquired the global GC root. Any
\* new roots will be sent to our socket": once the collector scans the store it
\* knows the root of every thread that took the GC lock before it, whether the
\* thread has written the root or not.  It fails only when two threads share the
\* lock: one thread alone keeps its shared lock, and the collector out, until it
\* has written.
LockedRootsKnown ==
    gpc \in {"scan", "visit", "delete", "unlink"} =>
        \A t \in Threads : pc[t] = "write_locked" => path[t] \in tempRoots
=============================================================================
