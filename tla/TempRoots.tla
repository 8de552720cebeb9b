------------------------------ MODULE TempRoots ------------------------------
(***************************************************************************)
(* The files below temproots/ (libstore/gc.cc): createTempRootsFile and    *)
(* the roots a process appends, the destructor of LocalStore, and          *)
(* findTempRoots, which reads the files of live processes and removes      *)
(* those of dead ones.  findTempRoots runs in the collector and, without   *)
(* any lock, in findRoots: there may be several scanners at a time.  A     *)
(* dead process with the same pid may have left a file.                    *)
(***************************************************************************)
EXTENDS Naturals, FiniteSets

CONSTANTS
    Owners,     \* processes with a temporary roots file, known by their pid
    Scanners,   \* threads in findTempRoots
    NoOne       \* nobody has the lock

ASSUME TempRootsAssumption ==
    /\ IsFiniteSet(Owners) /\ IsFiniteSet(Scanners)
    /\ Owners \cap Scanners = {} /\ NoOne \notin Owners \cup Scanners

\* A name and two descriptors of each owner, a descriptor of each scanner.
RootFiles == 1 .. 3 * Cardinality(Owners) + Cardinality(Scanners)

VARIABLES
    named,       \* named[p]: the file fnTempRoots of p names, or 0
    content,    \* content[i]: "empty", "roots" or "d"
    lockedBy,   \* lockedBy[i]: who has file i locked
    proc,       \* proc[p]: where p is, and its descriptor _fdTempRoots
    scan,       \* scan[c]: where c is, its descriptor, the names it has seen
    robbed      \* the processes whose file a scanner unlinked by its name, while
                \* it had another file of that name open and locked

tempRootVars == <<named, content, lockedBy, proc, scan, robbed>>

NoScan == [pc |-> "idle", name |-> NoOne, fd |-> 0, seen |-> {}, live |-> {}, found |-> {}]

TempRootsInit ==
    /\ named \in [Owners -> 0 .. Cardinality(Owners)]       \* stale files
    /\ \A p, q \in Owners : named[p] = named[q] => p = q \/ named[p] = 0
    /\ content = [i \in RootFiles |-> IF \E p \in Owners : named[p] = i THEN "roots" ELSE "empty"]
    /\ robbed = {}
    /\ lockedBy = [i \in RootFiles |-> NoOne]
    /\ proc = [p \in Owners |-> [pc |-> "start", fd |-> 0]]
    /\ scan = [c \in Scanners |-> NoScan]

Open == {named[p] : p \in Owners} \cup {proc[p].fd : p \in Owners}
            \cup {scan[c].fd : c \in Scanners}
NewFile == CHOOSE i \in RootFiles : i \notin Open

\* A descriptor is closed: whoever holds the lock by it loses it.
Close(who, i) == lockedBy' = [k \in RootFiles |-> IF k = i /\ lockedBy[k] = who THEN NoOne ELSE lockedBy[k]]

-----------------------------------------------------------------------------
(* createTempRootsFile, addTempRoot and the end of the process             *)

RemoveStale(p) ==
    /\ proc[p].pc = "start"
    /\ named' = [named EXCEPT ![p] = 0]
    /\ proc' = [proc EXCEPT ![p].pc = "create"]
    /\ UNCHANGED <<content, lockedBy, scan, robbed>>

\* openLockFile(): the descriptor of an earlier attempt is closed.
CreateFile(p) ==
    LET i == IF named[p] = 0 THEN NewFile ELSE named[p]
    IN  /\ proc[p].pc = "create"
        /\ named' = [named EXCEPT ![p] = i]
        /\ content' = IF named[p] = 0 THEN [content EXCEPT ![i] = "empty"] ELSE content
        /\ proc' = [proc EXCEPT ![p] = [pc |-> "lock", fd |-> i]]
        /\ Close(p, proc[p].fd)
        /\ UNCHANGED <<scan, robbed>>

LockOwn(p) ==
    /\ proc[p].pc = "lock" /\ lockedBy[proc[p].fd] = NoOne
    /\ lockedBy' = [lockedBy EXCEPT ![proc[p].fd] = p]
    /\ proc' = [proc EXCEPT ![p].pc = "check"]
    /\ UNCHANGED <<named, content, scan, robbed>>

CheckSize(p) ==
    /\ proc[p].pc = "check"
    /\ proc' = [proc EXCEPT ![p].pc = IF content[proc[p].fd] = "empty" THEN "ready" ELSE "start"]
    /\ UNCHANGED <<named, content, lockedBy, scan, robbed>>

WriteRoot(p) ==
    /\ proc[p].pc = "ready" /\ content[proc[p].fd] # "roots"
    /\ content' = [content EXCEPT ![proc[p].fd] = "roots"]
    /\ UNCHANGED <<named, lockedBy, proc, scan, robbed>>

Forget(p) == [c \in Scanners |-> [scan[c] EXCEPT !.live = @ \ {p}]]

\* The process is killed at any point, or runs ~LocalStore: close, then unlink.
Die(p) ==
    /\ proc[p].pc \notin {"unlink", "gone"}
    /\ Close(p, proc[p].fd)
    /\ scan' = Forget(p)
    /\ \E pc \in {"gone"} \cup (IF proc[p].pc = "ready" THEN {"unlink"} ELSE {}) :
          proc' = [proc EXCEPT ![p] = [pc |-> pc, fd |-> 0]]
    /\ UNCHANGED <<named, content, robbed>>

UnlinkOwn(p) ==
    /\ proc[p].pc = "unlink"
    /\ named' = [named EXCEPT ![p] = 0]
    /\ proc' = [proc EXCEPT ![p].pc = "gone"]
    /\ UNCHANGED <<content, lockedBy, scan, robbed>>

-----------------------------------------------------------------------------
(* findTempRoots                                                           *)

\* The processes that have recorded a root.
Recorded == {p \in Owners : proc[p].pc = "ready" /\ content[proc[p].fd] = "roots"}

StartScan(c) ==
    /\ scan[c].pc = "idle"
    /\ scan' = [scan EXCEPT ![c].pc = "next", ![c].live = Recorded]
    /\ UNCHANGED <<named, content, lockedBy, proc, robbed>>

\* DirectoryIterator gives a name, which may be gone by now.
OpenNext(c) ==
    /\ scan[c].pc = "next"
    /\ \E p \in Owners \ scan[c].seen :
          scan' = [scan EXCEPT ![c].pc = IF named[p] = 0 THEN "next" ELSE "try",
                               ![c].name = p, ![c].fd = named[p], ![c].seen = @ \cup {p}]
    /\ UNCHANGED <<named, content, lockedBy, proc, robbed>>

\* lockFile(ltWrite, no waiting).
TryLock(c) ==
    LET i == scan[c].fd
    IN  /\ scan[c].pc = "try"
        /\ IF lockedBy[i] = NoOne
           THEN /\ lockedBy' = [lockedBy EXCEPT ![i] = c]
                /\ scan' = [scan EXCEPT ![c].pc = "unlink"]
           ELSE /\ scan' = [scan EXCEPT ![c].pc = "read"]
                /\ UNCHANGED lockedBy
        /\ UNCHANGED <<named, content, proc, robbed>>

UnlinkStale(c) ==
    /\ scan[c].pc = "unlink"
    /\ named' = [named EXCEPT ![scan[c].name] = 0]
    /\ robbed' = IF named[scan[c].name] \in {0, scan[c].fd} THEN robbed
                 ELSE robbed \cup {scan[c].name}
    /\ scan' = [scan EXCEPT ![c].pc = "mark"]
    /\ UNCHANGED <<content, lockedBy, proc>>

\* Mutant of MarkDeleted: the descriptor is closed before the mark is written.
MarkNothing(c) ==
    /\ scan[c].pc = "mark"
    /\ Close(c, scan[c].fd)
    /\ scan' = [scan EXCEPT ![c].pc = "next", ![c].fd = 0]
    /\ UNCHANGED <<named, content, proc, robbed>>

MarkDeleted(c) ==
    /\ scan[c].pc = "mark"
    /\ content' = [content EXCEPT ![scan[c].fd] = "d"]
    /\ Close(c, scan[c].fd)
    /\ scan' = [scan EXCEPT ![c].pc = "next", ![c].fd = 0]
    /\ UNCHANGED <<named, proc, robbed>>

ReadRoots(c) ==
    /\ scan[c].pc = "read"
    /\ scan' = [scan EXCEPT ![c].pc = "next", ![c].fd = 0,
                  ![c].found = IF content[scan[c].fd] = "roots" THEN @ \cup {scan[c].name} ELSE @]
    /\ UNCHANGED <<named, content, lockedBy, proc, robbed>>

\* The directory has no further name that was there from the start; another scan
\* may follow.
EndScan(c) ==
    /\ scan[c].pc = "next" /\ scan[c].live \subseteq scan[c].seen
    /\ scan' = [scan EXCEPT ![c].pc = "end"]
    /\ UNCHANGED <<named, content, lockedBy, proc, robbed>>

ScanAgain(c) ==
    /\ scan[c].pc = "end"
    /\ scan' = [scan EXCEPT ![c] = NoScan]
    /\ UNCHANGED <<named, content, lockedBy, proc, robbed>>

TempRootsNext ==
    \/ \E p \in Owners : \/ RemoveStale(p) \/ CreateFile(p) \/ LockOwn(p) \/ CheckSize(p)
                         \/ WriteRoot(p) \/ Die(p) \/ UnlinkOwn(p)
    \/ \E c \in Scanners : \/ StartScan(c) \/ OpenNext(c) \/ TryLock(c) \/ UnlinkStale(c)
                           \/ MarkDeleted(c) \/ ReadRoots(c) \/ EndScan(c) \/ ScanAgain(c)

TempRootsSpec == TempRootsInit /\ [][TempRootsNext]_tempRootVars

-----------------------------------------------------------------------------
\* findTempRoots finds the root of every process that had recorded one when the
\* scan began and is still alive, with other scanners and stale files around;
\* unless a scanner unlinked the file of the process for an older one.
LiveRootsFound ==
    \A c \in Scanners : scan[c].pc = "end" => scan[c].live \ robbed \subseteq scan[c].found
=============================================================================
