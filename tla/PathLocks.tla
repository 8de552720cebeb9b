------------------------------ MODULE PathLocks ------------------------------
(***************************************************************************)
(* Exclusive locks on store paths and profiles: class PathLocks and the    *)
(* functions openLockFile, lockFile and deleteLockFile of                  *)
(* libstore/unix/pathlocks.cc.                                             *)
(*                                                                         *)
(* A lock on path x is an flock() on the file x.lock.  The holder may      *)
(* remove that file before it closes it (setDeletion), so a process that   *)
(* has opened the old file must notice, after flock() succeeds, that it    *)
(* locked a file that no longer has a name.  The code's protocol is: the   *)
(* remover first unlinks, then writes one byte, then closes; the locker    *)
(* retries when the file it locked has a non-zero size.                    *)
(*                                                                         *)
(* A process of the model is one PathLocks object and the call that is     *)
(* running on it.  Every system call is a step of its own.                 *)
(***************************************************************************)
EXTENDS Naturals, FiniteSets

CONSTANTS
    Procs,          \* the processes (PathLocks objects)
    Paths,          \* paths that are locked; < is the order of std::set
    Inodes,         \* files that can exist at once; a freed one is reused
    None            \* no file, no process, no path

Steps == {"idle", "open", "trylock", "waiting", "check",
          "locked", "unlock", "mark", "close"}

ASSUME PathLocksAssumption ==
    /\ Paths \subseteq Nat
    /\ None \notin Procs
    /\ None \notin Inodes
    /\ None \notin Paths

VARIABLES
    link,     \* link[x]: the file that has the name x.lock
    stale,    \* stale[i]: file i has a non-zero size (the "d" was written)
    holder,   \* holder[i]: the process that has file i flock()ed
    pc,       \* the step each process is at
    cur,      \* cur[p]: the path the loop of lockPaths or unlock is at
    todo,     \* todo[p]: the paths lockPaths has not yet locked
    fd,       \* fd[p]: the local descriptor of lockPaths
    fds,      \* fds[p][x]: the descriptors of the locks already acquired
    wait,     \* wait[p]: the parameter of lockPaths
    del       \* del[p]: the member deletePaths

vars == <<link, stale, holder, pc, cur, todo, fd, fds, wait, del>>

-----------------------------------------------------------------------------
(* Helpers *)

\* The paths process p holds a descriptor for in fds.
Acquired(p) == {x \in Paths : fds[p][x] # None}

\* Mutant of IsFirst: the paths are locked in any order.
AnyOf(x, S) == x \in S

\* x is the first element of S in the order of std::set.
IsFirst(x, S) == x \in S /\ \A y \in S : x <= y

\* File i has no name and nobody has it open, so its inode can be reused.
Free(i) ==
    /\ \A x \in Paths : link[x] # i
    /\ \A p \in Procs : fd[p] # i /\ \A x \in Paths : fds[p][x] # i

\* The flock()s left when process p closes the descriptors in D.
Released(p, D) ==
    [i \in Inodes |-> IF i \in D /\ holder[i] = p THEN None ELSE holder[i]]

\* The descriptors process p has open.
OpenFds(p) == {fds[p][x] : x \in Paths} \cup {fd[p]}

-----------------------------------------------------------------------------
Init ==
    /\ link = [x \in Paths |-> None]
    /\ stale = [i \in Inodes |-> FALSE]
    /\ holder = [i \in Inodes |-> None]
    /\ pc = [p \in Procs |-> "idle"]
    /\ cur = [p \in Procs |-> None]
    /\ todo = [p \in Procs |-> {}]
    /\ fd = [p \in Procs |-> None]
    /\ fds = [p \in Procs |-> [x \in Paths |-> None]]
    /\ wait = [p \in Procs |-> FALSE]
    /\ del = [p \in Procs |-> FALSE]

\* lockPaths(S, waitMsg, w): called with no lock held.
LockPaths(p, S, w) ==
    /\ pc[p] = "idle"
    /\ S # {}
    /\ \E x \in Paths : IsFirst(x, S) /\ cur' = [cur EXCEPT ![p] = x]
    /\ todo' = [todo EXCEPT ![p] = S]
    /\ wait' = [wait EXCEPT ![p] = w]
    /\ pc' = [pc EXCEPT ![p] = "open"]
    /\ UNCHANGED <<link, stale, holder, fd, fds, del>>

\* openLockFile(lockPath, true) opens the file with that name or creates an
\* empty one.  Assigning it to fd closes the stale file of a previous round.
OpenLockFile(p) ==
    /\ pc[p] = "open"
    /\ \/ /\ link[cur[p]] # None
          /\ fd' = [fd EXCEPT ![p] = link[cur[p]]]
          /\ UNCHANGED <<link, stale>>
       \/ /\ link[cur[p]] = None
          /\ \E i \in Inodes :
                /\ Free(i)
                /\ link' = [link EXCEPT ![cur[p]] = i]
                /\ stale' = [stale EXCEPT ![i] = FALSE]
                /\ fd' = [fd EXCEPT ![p] = i]
    /\ holder' = Released(p, {fd[p]})
    /\ pc' = [pc EXCEPT ![p] = "trylock"]
    /\ UNCHANGED <<cur, todo, fds, wait, del>>

\* lockFile(fd, ltWrite, false) succeeds.
TryLockOk(p) ==
    /\ pc[p] = "trylock"
    /\ holder[fd[p]] = None
    /\ holder' = [holder EXCEPT ![fd[p]] = p]
    /\ pc' = [pc EXCEPT ![p] = "check"]
    /\ UNCHANGED <<link, stale, cur, todo, fd, fds, wait, del>>

\* lockFile(fd, ltWrite, false) fails: block if wait, otherwise release what
\* was acquired and return false.
TryLockBusy(p) ==
    /\ pc[p] = "trylock"
    /\ holder[fd[p]] # None
    /\ \/ /\ wait[p]
          /\ pc' = [pc EXCEPT ![p] = "waiting"]
          /\ UNCHANGED <<todo, fd>>
       \/ /\ ~wait[p]
          /\ pc' = [pc EXCEPT ![p] = "unlock"]
          /\ todo' = [todo EXCEPT ![p] = {}]
          /\ fd' = [fd EXCEPT ![p] = None]
    /\ UNCHANGED <<link, stale, holder, cur, fds, wait, del>>

\* lockFile(fd, ltWrite, true) returns once the kernel grants the lock.
Granted(p) ==
    /\ pc[p] = "waiting"
    /\ holder[fd[p]] = None
    /\ holder' = [holder EXCEPT ![fd[p]] = p]
    /\ pc' = [pc EXCEPT ![p] = "check"]
    /\ UNCHANGED <<link, stale, cur, todo, fd, fds, wait, del>>

\* checkInterrupt() throws, at the head of the loop, after a failed try or in
\* a blocked flock(): the local descriptor is closed and the destructor runs
\* unlock().
Interrupted(p) ==
    /\ \/ pc[p] = "waiting"
       \/ pc[p] = "trylock" /\ holder[fd[p]] # None
       \/ pc[p] = "open" /\ fd[p] = None
    /\ pc' = [pc EXCEPT ![p] = "unlock"]
    /\ todo' = [todo EXCEPT ![p] = {}]
    /\ fd' = [fd EXCEPT ![p] = None]
    /\ UNCHANGED <<link, stale, holder, cur, fds, wait, del>>

\* Mutant of CheckStale: a stale file is not noticed.
StaleAccepted(p) ==
    /\ pc[p] = "check"
    /\ stale[fd[p]]
    /\ fds' = [fds EXCEPT ![p][cur[p]] = fd[p]]
    /\ fd' = [fd EXCEPT ![p] = None]
    /\ pc' = [pc EXCEPT ![p] = "locked"]
    /\ UNCHANGED <<link, stale, holder, cur, todo, wait, del>>

\* The fstat() after the lock: a non-empty file was unlinked, so try again
\* (the descriptor stays open until openLockFile's result replaces it).
CheckStale(p) ==
    /\ pc[p] = "check"
    /\ stale[fd[p]]
    /\ pc' = [pc EXCEPT ![p] = "open"]
    /\ UNCHANGED <<link, stale, holder, cur, todo, fd, fds, wait, del>>

\* Otherwise the lock is ours; go on with the next path, if any.
CheckOk(p) ==
    /\ pc[p] = "check"
    /\ ~stale[fd[p]]
    /\ fds' = [fds EXCEPT ![p][cur[p]] = fd[p]]
    /\ fd' = [fd EXCEPT ![p] = None]
    /\ todo' = [todo EXCEPT ![p] = @ \ {cur[p]}]
    /\ \/ /\ todo[p] \ {cur[p]} = {}
          /\ pc' = [pc EXCEPT ![p] = "locked"]
          /\ UNCHANGED cur
       \/ /\ todo[p] \ {cur[p]} # {}
          /\ pc' = [pc EXCEPT ![p] = "open"]
          /\ \E x \in Paths :
                /\ IsFirst(x, todo[p] \ {cur[p]})
                /\ cur' = [cur EXCEPT ![p] = x]
    /\ UNCHANGED <<link, stale, holder, wait, del>>

\* setDeletion(true), before or after the locks are acquired.
SetDeletion(p) ==
    /\ pc[p] \in {"idle", "locked"}
    /\ del' = [del EXCEPT ![p] = TRUE]
    /\ UNCHANGED <<link, stale, holder, pc, cur, todo, fd, fds, wait>>

\* The owner calls unlock() or destroys the object.
Unlock(p) ==
    /\ pc[p] = "locked"
    /\ pc' = [pc EXCEPT ![p] = "unlock"]
    /\ UNCHANGED <<link, stale, holder, cur, todo, fd, fds, wait, del>>

\* The next iteration of the loop in unlock(); with deletePaths it begins
\* with the unlink() of deleteLockFile.
UnlockNext(p) ==
    /\ pc[p] = "unlock"
    /\ \E x \in Paths :
        /\ IsFirst(x, Acquired(p))
        /\ cur' = [cur EXCEPT ![p] = x]
        /\ \/ /\ del[p]
              /\ link' = [link EXCEPT ![x] = None]
              /\ pc' = [pc EXCEPT ![p] = "mark"]
           \/ /\ ~del[p]
              /\ pc' = [pc EXCEPT ![p] = "close"]
              /\ UNCHANGED link
    /\ UNCHANGED <<stale, holder, todo, fd, fds, wait, del>>

\* Mutant of MarkStale: the byte is not written.
NotMarked(p) ==
    /\ pc[p] = "mark"
    /\ pc' = [pc EXCEPT ![p] = "close"]
    /\ UNCHANGED <<link, stale, holder, cur, todo, fd, fds, wait, del>>

\* deleteLockFile writes "d" to the file it has just unlinked.
MarkStale(p) ==
    /\ pc[p] = "mark"
    /\ stale' = [stale EXCEPT ![fds[p][cur[p]]] = TRUE]
    /\ pc' = [pc EXCEPT ![p] = "close"]
    /\ UNCHANGED <<link, holder, cur, todo, fd, fds, wait, del>>

\* Mutant of CloseFd: one descriptor is closed and the whole map cleared.
ClosedAll(p) ==
    /\ pc[p] = "close"
    /\ holder' = Released(p, {fds[p][cur[p]]})
    /\ fds' = [fds EXCEPT ![p] = None]
    /\ pc' = [pc EXCEPT ![p] = "unlock"]
    /\ UNCHANGED <<link, stale, cur, todo, fd, wait, del>>

\* close() releases the lock.
CloseFd(p) ==
    /\ pc[p] = "close"
    /\ holder' = Released(p, {fds[p][cur[p]]})
    /\ fds' = [fds EXCEPT ![p][cur[p]] = None]
    /\ pc' = [pc EXCEPT ![p] = "unlock"]
    /\ UNCHANGED <<link, stale, cur, todo, fd, wait, del>>

\* fds is empty: unlock() returns.  The object is used again, or it was
\* destroyed and the next one starts with deletePaths = false.
UnlockDone(p) ==
    /\ pc[p] = "unlock"
    /\ Acquired(p) = {}
    /\ pc' = [pc EXCEPT ![p] = "idle"]
    /\ \E d \in {del[p], FALSE} : del' = [del EXCEPT ![p] = d]
    /\ cur' = [cur EXCEPT ![p] = None]
    /\ UNCHANGED <<link, stale, holder, todo, fd, fds, wait>>

\* What is left when a process dies: the kernel closes its descriptors.
Exit(p) ==
    /\ holder' = Released(p, OpenFds(p))
    /\ pc' = [pc EXCEPT ![p] = "idle"]
    /\ cur' = [cur EXCEPT ![p] = None]
    /\ todo' = [todo EXCEPT ![p] = {}]
    /\ fd' = [fd EXCEPT ![p] = None]
    /\ fds' = [fds EXCEPT ![p] = [x \in Paths |-> None]]
    /\ del' = [del EXCEPT ![p] = FALSE]
    /\ UNCHANGED <<link, stale, wait>>

\* The process is killed anywhere but between the two calls of deleteLockFile.
Crash(p) ==
    /\ pc[p] \notin {"idle", "mark"}
    /\ Exit(p)

-----------------------------------------------------------------------------
\* The steps of the code itself, once lockPaths or unlock has been called.
Advance(p) ==
    \/ OpenLockFile(p)
    \/ TryLockOk(p)
    \/ TryLockBusy(p)
    \/ Granted(p)
    \/ CheckStale(p)
    \/ CheckOk(p)
    \/ UnlockNext(p)
    \/ MarkStale(p)
    \/ CloseFd(p)
    \/ UnlockDone(p)

Proc(p) ==
    \/ \E S \in SUBSET Paths, w \in BOOLEAN : LockPaths(p, S, w)
    \/ Advance(p)
    \/ Interrupted(p)
    \/ SetDeletion(p)
    \/ Unlock(p)
    \/ Crash(p)

Next == \E p \in Procs : Proc(p)

Spec == Init /\ [][Next]_vars

-----------------------------------------------------------------------------
(* A fault that the code meets and its protocol does not survive; it is kept *)
(* out of Next and has a run of its own.                                     *)

\* The process ends after the unlink() of deleteLockFile and before its
\* write(): it is killed, or an interrupt makes writeFull throw inside the
\* destructor, which swallows the exception and never closes the descriptor.
KilledBeforeMark(p) ==
    /\ pc[p] = "mark"
    /\ Exit(p)

FaultyNext == Next \/ \E p \in Procs : KilledBeforeMark(p)

FaultySpec == Init /\ [][FaultyNext]_vars

-----------------------------------------------------------------------------

\* The scheduler runs every process that can run, and an owner of locks
\* eventually releases them.
FairSpec == Spec /\ \A p \in Procs : WF_vars(Advance(p)) /\ WF_vars(Unlock(p))

-----------------------------------------------------------------------------
\* The variables of lockPaths and unlock hold what the code declares them to:
\* paths, descriptors of existing files, and flags.
TypeOK ==
    /\ link \in [Paths -> Inodes \cup {None}]
    /\ stale \in [Inodes -> BOOLEAN]
    /\ holder \in [Inodes -> Procs \cup {None}]
    /\ pc \in [Procs -> Steps]
    /\ cur \in [Procs -> Paths \cup {None}]
    /\ todo \in [Procs -> SUBSET Paths]
    /\ fd \in [Procs -> Inodes \cup {None}]
    /\ fds \in [Procs -> [Paths -> Inodes \cup {None}]]
    /\ wait \in [Procs -> BOOLEAN]
    /\ del \in [Procs -> BOOLEAN]

\* Process p relies on its lock on x: lockPaths has recorded it and unlock has
\* not yet reached it.
Owns(p, x) ==
    /\ fds[p][x] # None
    /\ ~(pc[p] \in {"mark", "close"} /\ cur[p] = x)

\* Mutual exclusion: no two processes own the lock on the same path, although
\* lock files are unlinked and created again while others wait for them.
MutualExclusion ==
    \A p, q \in Procs, x \in Paths :
        Owns(p, x) /\ Owns(q, x) => p = q

\* The owner of the lock on x, as the callers of lockPaths see it.
OwnerOf(x) ==
    IF \E p \in Procs : Owns(p, x) THEN CHOOSE p \in Procs : Owns(p, x) ELSE None

Lock == INSTANCE AbstractLock WITH owner <- [x \in Paths |-> OwnerOf(x)]

\* PathLocks implements an atomic lock: although lockPaths opens, locks and
\* checks a file in separate system calls, it acquires a path in one step, only
\* while nobody owns it and only above all the paths it has already; and a
\* path is given up before its lock file disappears.
ImplementsLock == Lock!Spec

\* A process that has opened a lock file, and has not looked at its size yet,
\* cannot be fooled by the file's deletion: the file still has the name it was
\* opened by, or its size says that it is stale, or the process that unlinked
\* it still has it locked and is about to write the byte.
WaiterSeesDeletion ==
    \A q \in Procs :
        pc[q] \in {"trylock", "waiting", "check"} =>
            \/ stale[fd[q]]
            \/ link[cur[q]] = fd[q]
            \/ \E p \in Procs : pc[p] = "mark" /\ fds[p][cur[p]] = fd[q]

\* Process p is inside lockPaths.
Locking(p) == pc[p] \in {"open", "trylock", "waiting", "check"}

\* No deadlock among lockers: locks are taken in sorted order, so as long as a
\* process is in lockPaths, eventually some process has all its locks or
\* nobody is trying any more, unless lockers are interrupted or killed and
\* started again for ever.
SomebodyProceeds ==
    \/ []<><<\E p \in Procs : Interrupted(p) \/ Crash(p)>>_vars
    \/ (\E p \in Procs : Locking(p)) ~>
           ((\E p \in Procs : pc[p] = "locked") \/ (\A p \in Procs : ~Locking(p)))
=============================================================================
