--------------------------- MODULE TempRootsProofs ---------------------------
(***************************************************************************)
(* LiveRootsFound for any number of processes and scanners, and any stale  *)
(* files.                                                                  *)
(***************************************************************************)
EXTENDS TempRoots, FiniteSetTheorems, TLAPS

-----------------------------------------------------------------------------
(* The inductive invariant                                                   *)

OwnerPoints == {"start", "create", "lock", "check", "ready", "unlink", "gone"}
ScanPoints == {"idle", "next", "try", "unlink", "mark", "read", "end"}
FileOrNone == RootFiles \cup {0}

ScanRecords ==
    [pc : ScanPoints, name : Owners \cup {NoOne}, fd : FileOrNone,
     seen : SUBSET Owners, live : SUBSET Owners, found : SUBSET Owners]

RootTypes ==
    /\ named \in [Owners -> FileOrNone]
    /\ content \in [RootFiles -> {"empty", "roots", "d"}]
    /\ lockedBy \in [RootFiles -> Owners \cup Scanners \cup {NoOne}]
    /\ proc \in [Owners -> [pc : OwnerPoints, fd : FileOrNone]]
    /\ scan \in [Scanners -> ScanRecords]
    /\ robbed \in SUBSET Owners

\* Processes have descriptors of different files, and those that have passed
\* lockFile() hold the lock.
OwnerInv ==
    \A p \in Owners :
        /\ \A q \in Owners : q # p /\ proc[p].fd = proc[q].fd => proc[p].fd = 0
        /\ proc[p].pc = "create" => named[p] = 0
        /\ proc[p].pc \in {"lock", "check", "ready"} => proc[p].fd # 0
        /\ proc[p].pc \in {"check", "ready"} => lockedBy[proc[p].fd] = p

\* So does a scanner that removes a file.
ScannerInv ==
    \A c \in Scanners :
        /\ scan[c].pc \in {"try", "read", "unlink", "mark"} =>
              scan[c].fd # 0 /\ scan[c].name \in Owners
        /\ scan[c].pc \in {"unlink", "mark"} => lockedBy[scan[c].fd] = c

\* A process whose file has lost its name will notice, unless it was robbed.
NameInv ==
    \A p \in Owners : p \notin robbed =>
        /\ proc[p].pc = "lock" =>
              \/ named[p] = proc[p].fd \/ content[proc[p].fd] = "d"
              \/ \E c \in Scanners : scan[c].pc = "mark" /\ scan[c].fd = proc[p].fd
        /\ proc[p].pc = "check" => named[p] = proc[p].fd \/ content[proc[p].fd] = "d"
        /\ proc[p].pc = "ready" => named[p] = proc[p].fd

\* A root that was there when the scan began stays, and is found or about to be
\* read once its name has been seen.
FoundInv ==
    \A c \in Scanners :
        /\ scan[c].pc = "idle" => scan[c].live = {} /\ scan[c].seen = {}
        /\ scan[c].pc = "end" => scan[c].live \subseteq scan[c].seen
        /\ \A p \in scan[c].live \ robbed :
              /\ proc[p].pc = "ready" /\ content[proc[p].fd] = "roots"
              /\ p \in scan[c].seen =>
                    \/ p \in scan[c].found
                    \/ /\ scan[c].pc \in {"try", "read"}
                       /\ scan[c].name = p /\ scan[c].fd = proc[p].fd

RootsInv == RootTypes /\ OwnerInv /\ ScannerInv /\ NameInv /\ FoundInv

-----------------------------------------------------------------------------
\* RootsInv implies what the run checks.
LEMMA RootsInvFound == RootsInv => LiveRootsFound
  BY DEF RootsInv, FoundInv, LiveRootsFound

\* A union has at most as many elements as its parts.
LEMMA CardinalityOfUnion ==
    ASSUME NEW X, NEW Y, IsFiniteSet(X), IsFiniteSet(Y)
    PROVE  IsFiniteSet(X \cup Y) /\ Cardinality(X \cup Y) <= Cardinality(X) + Cardinality(Y)
<1>1. IsFiniteSet(X \cap Y)
  BY FS_Subset
<1>2. /\ Cardinality(X) \in Nat /\ Cardinality(Y) \in Nat /\ Cardinality(X \cap Y) \in Nat
  BY <1>1, FS_CardinalityType
<1>3. /\ IsFiniteSet(X \cup Y)
      /\ Cardinality(X \cup Y) = Cardinality(X) + Cardinality(Y) - Cardinality(X \cap Y)
  BY FS_Union
<1> QED
  BY <1>2, <1>3

\* There is always a file for openLockFile() to create.
LEMMA NewFileExists ==
    ASSUME RootTypes, NEW p \in Owners
    PROVE  NewFile \in RootFiles /\ NewFile \notin Open
<1> DEFINE O == Cardinality(Owners)
           S == Cardinality(Scanners)
           A == {named[q] : q \in Owners}
           B == {proc[q].fd : q \in Owners}
           C == {scan[c].fd : c \in Scanners}
           b == [q \in Owners |-> proc[q].fd]
           c == [d \in Scanners |-> scan[d].fd]
<1>1. O \in Nat /\ S \in Nat /\ O # 0 /\ IsFiniteSet(Owners) /\ IsFiniteSet(Scanners)
  BY TempRootsAssumption, FS_CardinalityType, FS_EmptySet
<1>2. IsFiniteSet(A) /\ Cardinality(A) <= O
  <2>1. named \in Surjection(Owners, A)
    BY DEF RootTypes, Surjection
  <2> QED
    BY <1>1, <2>1, FS_Surjection
<1>3. IsFiniteSet(B) /\ Cardinality(B) <= O
  <2>1. b \in Surjection(Owners, B)
    BY DEF Surjection
  <2> QED
    BY <1>1, <2>1, FS_Surjection
<1>4. IsFiniteSet(C) /\ Cardinality(C) <= S
  <2>1. c \in Surjection(Scanners, C)
    BY DEF Surjection
  <2> QED
    BY <1>1, <2>1, FS_Surjection
<1>5. IsFiniteSet(A \cup B) /\ Cardinality(A \cup B) <= Cardinality(A) + Cardinality(B)
  BY <1>2, <1>3, CardinalityOfUnion
<1>6. IsFiniteSet(Open) /\ Cardinality(Open) <= Cardinality(A \cup B) + Cardinality(C)
  BY <1>4, <1>5, CardinalityOfUnion DEF Open
<1>7. /\ Cardinality(A) \in Nat /\ Cardinality(B) \in Nat /\ Cardinality(C) \in Nat
      /\ Cardinality(A \cup B) \in Nat /\ Cardinality(Open) \in Nat
  BY <1>2, <1>3, <1>4, <1>5, <1>6, FS_CardinalityType
<1>8. Cardinality(Open) <= 2 * O + S
  <2> HIDE DEF O, S, A, B, C
  <2> QED
    BY <1>1, <1>2, <1>3, <1>4, <1>5, <1>6, <1>7
<1>9. Cardinality(RootFiles) = 3 * O + S
  <2>1. 3 * O + S \in Int /\ 3 * O + S >= 1
    BY <1>1
  <2> QED
    BY <2>1, FS_Interval DEF RootFiles
<1>10. ~(RootFiles \subseteq Open)
  <2> SUFFICES ASSUME RootFiles \subseteq Open
               PROVE  FALSE
    OBVIOUS
  <2>1. Cardinality(RootFiles) <= Cardinality(Open)
    BY <1>6, FS_Subset
  <2> HIDE DEF O, S
  <2> QED
    BY <1>1, <1>7, <1>8, <1>9, <2>1
<1> QED
  BY <1>10 DEF NewFile

-----------------------------------------------------------------------------
\* The initial states satisfy RootsInv.
LEMMA RootsInit == TempRootsInit => RootsInv
<1> SUFFICES ASSUME TempRootsInit
             PROVE  RootsInv
  OBVIOUS
<1>1. Cardinality(Owners) \in Nat /\ Cardinality(Scanners) \in Nat
  BY TempRootsAssumption, FS_CardinalityType
<1>2. \A n \in 0 .. Cardinality(Owners) : n \in FileOrNone
  BY <1>1 DEF FileOrNone, RootFiles
<1>3. RootTypes
  BY <1>2 DEF TempRootsInit, RootTypes, OwnerPoints, ScanRecords, ScanPoints, NoScan, FileOrNone
<1>4. /\ \A p \in Owners : proc[p].pc = "start" /\ proc[p].fd = 0
      /\ \A c \in Scanners : scan[c] = NoScan
  BY DEF TempRootsInit
<1> QED
  BY <1>3, <1>4 DEF RootsInv, OwnerInv, ScannerInv, NameInv, FoundInv, NoScan

-----------------------------------------------------------------------------
\* Closing a descriptor takes no lock away from anybody else.
LEMMA CloseKeeps ==
    ASSUME RootTypes, NEW who, NEW n, Close(who, n)
    PROVE  /\ lockedBy' \in [RootFiles -> Owners \cup Scanners \cup {NoOne}]
           /\ \A i \in RootFiles : lockedBy[i] # who => lockedBy'[i] = lockedBy[i]
           /\ \A i \in RootFiles : i # n => lockedBy'[i] = lockedBy[i]
  BY DEF RootTypes, Close

\* A step of a process that has no root in use, leaves the scanners and the files
\* of others alone, and keeps what is said of the process itself, keeps RootsInv.
LEMMA OwnerFrame ==
    ASSUME RootsInv, NEW p \in Owners, RootTypes', OwnerInv',
           UNCHANGED robbed,
           \A q \in Owners \ {p} : proc'[q] = proc[q] /\ named'[q] = named[q],
           \A c \in Scanners :
              /\ scan'[c].pc = scan[c].pc /\ scan'[c].name = scan[c].name
              /\ scan'[c].fd = scan[c].fd /\ scan'[c].seen = scan[c].seen
              /\ scan'[c].found = scan[c].found /\ scan'[c].live \subseteq scan[c].live
              /\ p \in scan'[c].live \ robbed =>
                    /\ proc'[p].pc = "ready" /\ proc'[p].fd = proc[p].fd
                    /\ content'[proc[p].fd] = "roots",
           \A i \in RootFiles : lockedBy[i] \in Scanners => lockedBy'[i] = lockedBy[i],
           \A q \in Owners \ {p} : proc[q].fd # 0 => content'[proc[q].fd] = content[proc[q].fd],
           p \notin robbed =>
              /\ proc'[p].pc = "lock" =>
                    \/ named'[p] = proc'[p].fd \/ content'[proc'[p].fd] = "d"
                    \/ \E c \in Scanners : scan'[c].pc = "mark" /\ scan'[c].fd = proc'[p].fd
              /\ proc'[p].pc = "check" => named'[p] = proc'[p].fd \/ content'[proc'[p].fd] = "d"
              /\ proc'[p].pc = "ready" => named'[p] = proc'[p].fd
    PROVE  RootsInv'
<1>0. p \notin Scanners
  BY TempRootsAssumption
<1>1. ScannerInv'
  <2> SUFFICES ASSUME NEW c \in Scanners
               PROVE  /\ scan'[c].pc \in {"try", "read", "unlink", "mark"} =>
                            scan'[c].fd # 0 /\ scan'[c].name \in Owners
                      /\ scan'[c].pc \in {"unlink", "mark"} => lockedBy'[scan'[c].fd] = c
    BY DEF ScannerInv
  <2>1. scan[c].fd \in RootFiles \cup {0}
    BY DEF RootsInv, RootTypes, ScanRecords, FileOrNone
  <2> QED
    BY <2>1 DEF RootsInv, ScannerInv
<1>2. NameInv'
  <2> SUFFICES ASSUME NEW q \in Owners, q \notin robbed, q # p
               PROVE  /\ proc'[q].pc = "lock" =>
                            \/ named'[q] = proc'[q].fd \/ content'[proc'[q].fd] = "d"
                            \/ \E c \in Scanners : scan'[c].pc = "mark" /\ scan'[c].fd = proc'[q].fd
                      /\ proc'[q].pc = "check" =>
                            named'[q] = proc'[q].fd \/ content'[proc'[q].fd] = "d"
                      /\ proc'[q].pc = "ready" => named'[q] = proc'[q].fd
    BY DEF NameInv
  <2>1. proc'[q] = proc[q] /\ named'[q] = named[q]
    OBVIOUS
  <2>2. proc[q].pc \in {"lock", "check", "ready"} => content'[proc[q].fd] = content[proc[q].fd]
    BY DEF RootsInv, OwnerInv
  <2> QED
    BY <2>1, <2>2 DEF RootsInv, NameInv
<1>3. FoundInv'
  <2> SUFFICES ASSUME NEW c \in Scanners
               PROVE  /\ scan'[c].pc = "idle" => scan'[c].live = {} /\ scan'[c].seen = {}
                      /\ scan'[c].pc = "end" => scan'[c].live \subseteq scan'[c].seen
                      /\ \A q \in scan'[c].live \ robbed :
                            /\ proc'[q].pc = "ready" /\ content'[proc'[q].fd] = "roots"
                            /\ q \in scan'[c].seen =>
                                  \/ q \in scan'[c].found
                                  \/ /\ scan'[c].pc \in {"try", "read"}
                                     /\ scan'[c].name = q /\ scan'[c].fd = proc'[q].fd
    BY DEF FoundInv
  <2>1. /\ scan'[c].pc = "idle" => scan'[c].live = {} /\ scan'[c].seen = {}
        /\ scan'[c].pc = "end" => scan'[c].live \subseteq scan'[c].seen
    BY DEF RootsInv, FoundInv
  <2>2. ASSUME NEW q \in scan'[c].live \ robbed
        PROVE  /\ proc'[q].pc = "ready" /\ content'[proc'[q].fd] = "roots"
               /\ proc'[q].fd = proc[q].fd
    <3>1. q \in Owners /\ q \in scan[c].live \ robbed
      BY <2>2 DEF RootsInv, RootTypes, ScanRecords
    <3>2. proc[q].pc = "ready" /\ content[proc[q].fd] = "roots" /\ proc[q].fd # 0
      BY <3>1 DEF RootsInv, FoundInv, OwnerInv
    <3>3. CASE q = p
      BY <2>2, <3>3
    <3>4. CASE q # p
      BY <3>1, <3>2, <3>4
    <3> QED
      BY <3>3, <3>4
  <2> QED
    BY <2>1, <2>2 DEF RootsInv, FoundInv
<1> QED
  BY <1>1, <1>2, <1>3 DEF RootsInv

-----------------------------------------------------------------------------
(* Every step of a process keeps RootsInv                                    *)

\* The steps before a root can be in use.
LEMMA OwnerStarts ==
    ASSUME RootsInv, NEW p \in Owners,
           RemoveStale(p) \/ LockOwn(p) \/ CheckSize(p) \/ UnlinkOwn(p)
    PROVE  RootsInv'
<1>0. /\ p \notin Scanners /\ p # NoOne /\ NoOne \notin Scanners
      /\ proc[p].fd \in RootFiles \cup {0} /\ 0 \notin RootFiles
  BY TempRootsAssumption DEF RootsInv, RootTypes, FileOrNone, RootFiles
<1>a. /\ UNCHANGED <<content, scan, robbed>> /\ proc[p].pc # "ready"
      /\ \A q \in Owners \ {p} : proc'[q] = proc[q] /\ named'[q] = named[q]
      /\ proc'[p].fd = proc[p].fd
  BY DEF RootsInv, RootTypes, RemoveStale, LockOwn, CheckSize, UnlinkOwn
<1>b. \A c \in Scanners : p \notin scan[c].live \ robbed
  BY <1>a DEF RootsInv, FoundInv
<1>c. RootTypes'
  <2>1. proc' \in [Owners -> [pc : OwnerPoints, fd : FileOrNone]]
    <3>1. PICK pc \in OwnerPoints : proc' = [proc EXCEPT ![p].pc = pc]
      BY DEF OwnerPoints, RemoveStale, LockOwn, CheckSize, UnlinkOwn
    <3> QED
      BY <3>1 DEF RootsInv, RootTypes
  <2>2. named' \in [Owners -> FileOrNone]
    BY DEF RootsInv, RootTypes, FileOrNone, RemoveStale, LockOwn, CheckSize, UnlinkOwn
  <2>3. lockedBy' \in [RootFiles -> Owners \cup Scanners \cup {NoOne}]
    BY DEF RootsInv, RootTypes, RemoveStale, LockOwn, CheckSize, UnlinkOwn
  <2> QED
    BY <1>a, <2>1, <2>2, <2>3 DEF RootsInv, RootTypes
<1>d. \A i \in RootFiles : lockedBy'[i] = lockedBy[i] \/ (lockedBy[i] = NoOne /\ lockedBy'[i] = p)
  BY DEF RootsInv, RootTypes, RemoveStale, LockOwn, CheckSize, UnlinkOwn
<1>e. \A q \in Owners : q # p /\ proc[p].fd = proc[q].fd => proc[p].fd = 0
  BY DEF RootsInv, OwnerInv
<1>f. OwnerInv'
  <2>1. ASSUME NEW q \in Owners, NEW r \in Owners, r # q, proc'[q].fd = proc'[r].fd
        PROVE  proc'[q].fd = 0
    BY <1>a, <2>1 DEF RootsInv, OwnerInv
  <2>2. ASSUME NEW q \in Owners \ {p}
        PROVE  /\ proc'[q].pc = "create" => named'[q] = 0
               /\ proc'[q].pc \in {"lock", "check", "ready"} => proc'[q].fd # 0
               /\ proc'[q].pc \in {"check", "ready"} => lockedBy'[proc'[q].fd] = q
    <3>1. proc[q].fd \in RootFiles \cup {0} /\ q # NoOne
      BY TempRootsAssumption DEF RootsInv, RootTypes, FileOrNone
    <3> QED
      BY <1>a, <1>d, <2>2, <3>1 DEF RootsInv, OwnerInv
  <2>3. /\ proc'[p].pc = "create" => named'[p] = 0
        /\ proc'[p].pc \in {"lock", "check", "ready"} => proc'[p].fd # 0
        /\ proc'[p].pc \in {"check", "ready"} => lockedBy'[proc'[p].fd] = p
    BY <1>0 DEF RootsInv, RootTypes, OwnerInv, RemoveStale, LockOwn, CheckSize, UnlinkOwn
  <2> QED
    BY <2>1, <2>2, <2>3 DEF OwnerInv
<1>g. p \notin robbed =>
        /\ proc'[p].pc = "lock" =>
              \/ named'[p] = proc'[p].fd \/ content'[proc'[p].fd] = "d"
              \/ \E c \in Scanners : scan'[c].pc = "mark" /\ scan'[c].fd = proc'[p].fd
        /\ proc'[p].pc = "check" => named'[p] = proc'[p].fd \/ content'[proc'[p].fd] = "d"
        /\ proc'[p].pc = "ready" => named'[p] = proc'[p].fd
  <2>1. CASE RemoveStale(p) \/ UnlinkOwn(p)
    BY <2>1 DEF RootsInv, RootTypes, RemoveStale, UnlinkOwn
  \* A scanner that is about to mark the file would hold the lock.
  <2>2. CASE LockOwn(p)
    BY <1>0, <2>2 DEF RootsInv, RootTypes, NameInv, ScannerInv, LockOwn
  <2>3. CASE CheckSize(p)
    BY <2>3 DEF RootsInv, RootTypes, NameInv, CheckSize
  <2> QED
    BY <2>1, <2>2, <2>3
<1>h. \A i \in RootFiles : lockedBy[i] \in Scanners => lockedBy'[i] = lockedBy[i]
  BY <1>0, <1>d
<1> QED
  BY <1>a, <1>b, <1>c, <1>f, <1>g, <1>h, OwnerFrame

\* The new file is nobody else's.
LEMMA OwnerCreates ==
    ASSUME RootsInv, NEW p \in Owners, CreateFile(p)
    PROVE  RootsInv'
<1>0. /\ p \notin Scanners /\ p # NoOne
      /\ 0 \notin RootFiles
  BY TempRootsAssumption DEF RootFiles
<1>1. PICK i \in RootFiles :
        /\ i \notin Open
        /\ named' = [named EXCEPT ![p] = i]
        /\ content' = [content EXCEPT ![i] = "empty"]
        /\ proc' = [proc EXCEPT ![p] = [pc |-> "lock", fd |-> i]]
        /\ Close(p, proc[p].fd) /\ UNCHANGED <<scan, robbed>>
        /\ proc[p].pc = "create"
  BY NewFileExists DEF RootsInv, OwnerInv, CreateFile
<1>2. \A q \in Owners : proc[q].fd # i /\ named[q] # i
  BY <1>1 DEF Open
<1>a. /\ \A q \in Owners \ {p} : proc'[q] = proc[q] /\ named'[q] = named[q]
      /\ proc'[p].pc = "lock" /\ proc'[p].fd = i /\ named'[p] = i
  BY <1>1 DEF RootsInv, RootTypes
<1>b. \A c \in Scanners : p \notin scan[c].live \ robbed
  BY <1>1 DEF RootsInv, FoundInv
<1>c. RootTypes'
  BY <1>1, CloseKeeps DEF RootsInv, RootTypes, OwnerPoints, FileOrNone
<1>d. \A k \in RootFiles : lockedBy[k] # p => lockedBy'[k] = lockedBy[k]
  BY <1>1, CloseKeeps DEF RootsInv
<1>e. OwnerInv'
  <2>1. ASSUME NEW q \in Owners, NEW r \in Owners, r # q, proc'[q].fd = proc'[r].fd
        PROVE  proc'[q].fd = 0
    BY <1>2, <1>a, <2>1 DEF RootsInv, OwnerInv
  <2>2. ASSUME NEW q \in Owners \ {p}
        PROVE  /\ proc'[q].pc = "create" => named'[q] = 0
               /\ proc'[q].pc \in {"lock", "check", "ready"} => proc'[q].fd # 0
               /\ proc'[q].pc \in {"check", "ready"} => lockedBy'[proc'[q].fd] = q
    <3>1. proc[q].fd \in RootFiles \cup {0}
      BY DEF RootsInv, RootTypes, FileOrNone
    <3> QED
      BY <1>a, <1>d, <2>2, <3>1 DEF RootsInv, OwnerInv
  <2> QED
    BY <1>0, <1>a, <2>1, <2>2 DEF OwnerInv
<1>f. \A q \in Owners \ {p} : proc[q].fd # 0 => content'[proc[q].fd] = content[proc[q].fd]
  BY <1>1, <1>2 DEF RootsInv, RootTypes, FileOrNone
<1>g. \A k \in RootFiles : lockedBy[k] \in Scanners => lockedBy'[k] = lockedBy[k]
  BY <1>0, <1>d
<1> QED
  BY <1>1, <1>a, <1>b, <1>c, <1>e, <1>f, <1>g, OwnerFrame

\* The roots of a process go to its own file.
LEMMA OwnerWrites ==
    ASSUME RootsInv, NEW p \in Owners, WriteRoot(p)
    PROVE  RootsInv'
<1>1. /\ proc[p].pc = "ready" /\ proc[p].fd \in RootFiles /\ content[proc[p].fd] # "roots"
      /\ content' = [content EXCEPT ![proc[p].fd] = "roots"]
      /\ UNCHANGED <<named, lockedBy, proc, scan, robbed>>
  BY DEF RootsInv, RootTypes, FileOrNone, OwnerInv, WriteRoot
<1>2. RootTypes'
  BY <1>1 DEF RootsInv, RootTypes
<1>3. OwnerInv'
  BY <1>1 DEF RootsInv, OwnerInv
<1>4. \A q \in Owners \ {p} : proc[q].fd # 0 => content'[proc[q].fd] = content[proc[q].fd]
  BY <1>1 DEF RootsInv, RootTypes, FileOrNone, OwnerInv
<1>5. \A c \in Scanners : p \notin scan[c].live \ robbed
  BY <1>1 DEF RootsInv, FoundInv
<1>6. p \notin robbed => named[p] = proc[p].fd
  BY <1>1 DEF RootsInv, NameInv
<1> QED
  BY <1>1, <1>2, <1>3, <1>4, <1>5, <1>6, OwnerFrame

\* Nobody relies on the root of a process that ends.
LEMMA OwnerDies ==
    ASSUME RootsInv, NEW p \in Owners, Die(p)
    PROVE  RootsInv'
<1>0. p \notin Scanners
  BY TempRootsAssumption
<1>1. PICK pc \in {"gone", "unlink"} :
        /\ proc' = [proc EXCEPT ![p] = [pc |-> pc, fd |-> 0]]
        /\ scan' = Forget(p) /\ Close(p, proc[p].fd) /\ UNCHANGED <<named, content, robbed>>
  BY DEF Die
<1>a. /\ \A q \in Owners \ {p} : proc'[q] = proc[q]
      /\ proc'[p].pc \in {"gone", "unlink"} /\ proc'[p].fd = 0
  BY <1>1 DEF RootsInv, RootTypes
<1>b. \A c \in Scanners :
        /\ scan'[c].pc = scan[c].pc /\ scan'[c].name = scan[c].name
        /\ scan'[c].fd = scan[c].fd /\ scan'[c].seen = scan[c].seen
        /\ scan'[c].found = scan[c].found /\ scan'[c].live = scan[c].live \ {p}
  BY <1>1 DEF RootsInv, RootTypes, ScanRecords, Forget
<1>c. RootTypes'
  <2>1. scan' \in [Scanners -> ScanRecords]
    BY <1>1, ZenonT(60) DEF RootsInv, RootTypes, ScanRecords, Forget
  <2> QED
    BY <1>1, <2>1, CloseKeeps DEF RootsInv, RootTypes, OwnerPoints, FileOrNone
<1>d. \A k \in RootFiles : lockedBy[k] # p => lockedBy'[k] = lockedBy[k]
  BY <1>1, CloseKeeps DEF RootsInv
<1>e. OwnerInv'
  <2>1. ASSUME NEW q \in Owners, NEW r \in Owners, r # q, proc'[q].fd = proc'[r].fd
        PROVE  proc'[q].fd = 0
    BY <1>a, <2>1 DEF RootsInv, OwnerInv
  <2>2. ASSUME NEW q \in Owners \ {p}
        PROVE  /\ proc'[q].pc = "create" => named'[q] = 0
               /\ proc'[q].pc \in {"lock", "check", "ready"} => proc'[q].fd # 0
               /\ proc'[q].pc \in {"check", "ready"} => lockedBy'[proc'[q].fd] = q
    <3>1. proc[q].fd \in RootFiles \cup {0}
      BY DEF RootsInv, RootTypes, FileOrNone
    <3> QED
      BY <1>1, <1>a, <1>d, <2>2, <3>1 DEF RootsInv, OwnerInv
  <2> QED
    BY <1>a, <2>1, <2>2 DEF OwnerInv
<1>f. \A k \in RootFiles : lockedBy[k] \in Scanners => lockedBy'[k] = lockedBy[k]
  BY <1>0, <1>d
<1> QED
  BY <1>1, <1>a, <1>b, <1>c, <1>e, <1>f, OwnerFrame

-----------------------------------------------------------------------------
(* Every step of a scanner keeps RootsInv                                    *)

\* The steps that change neither the files nor the locks.
LEMMA ScannerLooks ==
    ASSUME RootsInv, NEW c \in Scanners,
           StartScan(c) \/ OpenNext(c) \/ ReadRoots(c) \/ EndScan(c) \/ ScanAgain(c)
    PROVE  RootsInv'
<1>a. /\ UNCHANGED <<named, content, lockedBy, proc, robbed>>
      /\ \A d \in Scanners \ {c} : scan'[d] = scan[d]
      /\ scan[c].pc \notin {"unlink", "mark"}
  BY DEF RootsInv, RootTypes, StartScan, OpenNext, ReadRoots, EndScan, ScanAgain
\* What remains to be shown of the scanner itself.
<1>b. ASSUME scan' \in [Scanners -> ScanRecords],
             scan'[c].pc \in {"try", "read"} => scan'[c].fd # 0 /\ scan'[c].name \in Owners,
             scan'[c].pc \notin {"unlink", "mark"},
             scan'[c].pc = "idle" => scan'[c].live = {} /\ scan'[c].seen = {},
             scan'[c].pc = "end" => scan'[c].live \subseteq scan'[c].seen,
             \A p \in scan'[c].live \ robbed :
                /\ proc[p].pc = "ready" /\ content[proc[p].fd] = "roots"
                /\ p \in scan'[c].seen =>
                      \/ p \in scan'[c].found
                      \/ /\ scan'[c].pc \in {"try", "read"}
                         /\ scan'[c].name = p /\ scan'[c].fd = proc[p].fd
      PROVE  RootsInv'
  <2>1. RootTypes'
    BY <1>a, <1>b DEF RootsInv, RootTypes
  <2>2. OwnerInv'
    BY <1>a DEF RootsInv, OwnerInv
  <2>3. ScannerInv'
    BY <1>a, <1>b DEF RootsInv, ScannerInv
  <2>4. NameInv'
    <3>1. ASSUME NEW d \in Scanners, scan[d].pc = "mark"
          PROVE  scan'[d].pc = "mark" /\ scan'[d].fd = scan[d].fd
      BY <1>a, <3>1
    <3> QED
      BY <1>a, <3>1 DEF RootsInv, NameInv
  <2>5. FoundInv'
    BY <1>a, <1>b DEF RootsInv, FoundInv
  <2> QED
    BY <2>1, <2>2, <2>3, <2>4, <2>5 DEF RootsInv
<1>t. /\ scan[c] \in ScanRecords
      /\ scan[c].fd \in FileOrNone /\ scan[c].seen \in SUBSET Owners
      /\ scan[c].live \in SUBSET Owners /\ scan[c].found \in SUBSET Owners
  BY DEF RootsInv, RootTypes, ScanRecords
<1>u. ASSUME NEW r \in ScanRecords, scan' = [scan EXCEPT ![c] = r]
      PROVE  scan' \in [Scanners -> ScanRecords] /\ scan'[c] = r
  BY <1>u DEF RootsInv, RootTypes
<1>1. CASE StartScan(c)
  <2> DEFINE r == [scan[c] EXCEPT !.pc = "next", !.live = Recorded]
  <2>1. r \in ScanRecords
    BY <1>t DEF ScanRecords, ScanPoints, Recorded
  <2>2. /\ r.pc = "next" /\ r.live = Recorded
        /\ r.seen = scan[c].seen /\ scan[c].seen = {}
    BY <1>1, <1>t DEF RootsInv, FoundInv, StartScan, ScanRecords
  <2>3. scan' = [scan EXCEPT ![c] = r]
    BY <1>1 DEF RootsInv, RootTypes, StartScan
  <2>4. scan' \in [Scanners -> ScanRecords] /\ scan'[c] = r
    BY <2>1, <2>3, <1>u
  <2> HIDE DEF r
  <2> QED
    BY <2>2, <2>4, <1>b DEF Recorded
<1>2. CASE OpenNext(c)
  <2>1. PICK p \in Owners \ scan[c].seen :
          scan' = [scan EXCEPT ![c].pc = IF named[p] = 0 THEN "next" ELSE "try",
                               ![c].name = p, ![c].fd = named[p], ![c].seen = @ \cup {p}]
    BY <1>2 DEF OpenNext
  <2> DEFINE l == IF named[p] = 0 THEN "next" ELSE "try"
             r == [scan[c] EXCEPT !.pc = l, !.name = p, !.fd = named[p], !.seen = @ \cup {p}]
  <2>2. r \in ScanRecords
    <3>1. named[p] \in FileOrNone
      BY DEF RootsInv, RootTypes
    <3>2. l \in ScanPoints
      BY DEF ScanPoints
    <3> HIDE DEF l
    <3> QED
      BY <1>t, <3>1, <3>2 DEF ScanRecords
  <2>3. /\ r.pc = l /\ r.name = p /\ r.fd = named[p] /\ r.seen = scan[c].seen \cup {p}
        /\ r.live = scan[c].live /\ r.found = scan[c].found
    <3> HIDE DEF l
    <3> QED
      BY <1>t DEF ScanRecords
  <2>4. scan' = [scan EXCEPT ![c] = r]
    BY <2>1 DEF RootsInv, RootTypes
  <2> HIDE DEF l, r
  <2>5. scan' \in [Scanners -> ScanRecords] /\ scan'[c] = r
    BY <2>2, <2>4, <1>u
  \* The name of a live process is that of its file.
  <2>6. p \in scan[c].live \ robbed => named[p] = proc[p].fd /\ named[p] # 0
    BY DEF RootsInv, FoundInv, NameInv, OwnerInv
  <2>7. scan[c].pc = "next"
    BY <1>2 DEF OpenNext
  <2>8. ASSUME NEW q \in scan[c].live \ robbed
        PROVE  /\ proc[q].pc = "ready" /\ content[proc[q].fd] = "roots"
               /\ q \in r.seen => \/ q \in r.found
                                  \/ r.pc \in {"try", "read"} /\ r.name = q /\ r.fd = proc[q].fd
    BY <2>3, <2>6, <2>7, <2>8 DEF l, RootsInv, FoundInv
  <2> QED
    BY <2>3, <2>5, <2>8, <1>b DEF l
<1>3. CASE ReadRoots(c)
  <2> DEFINE f == IF content[scan[c].fd] = "roots" THEN scan[c].found \cup {scan[c].name}
                  ELSE scan[c].found
             r == [scan[c] EXCEPT !.pc = "next", !.fd = 0, !.found = f]
  <2>1. scan[c].pc = "read" /\ scan[c].name \in Owners
    BY <1>3 DEF RootsInv, ScannerInv, ReadRoots
  <2>2. f \in SUBSET Owners
    BY <1>t, <2>1
  <2>3. scan' = [scan EXCEPT ![c] = r]
    BY <1>3 DEF RootsInv, RootTypes, ReadRoots
  <2>4. ASSUME NEW q \in scan[c].live \ robbed
        PROVE  /\ proc[q].pc = "ready" /\ content[proc[q].fd] = "roots"
               /\ q \in scan[c].seen => q \in f
    BY <2>1, <2>4 DEF RootsInv, FoundInv
  <2> HIDE DEF f
  <2>5. /\ r \in ScanRecords /\ r.pc = "next" /\ r.found = f
        /\ r.seen = scan[c].seen /\ r.live = scan[c].live
    BY <1>t, <2>2 DEF ScanRecords, ScanPoints, FileOrNone
  <2>6. scan' \in [Scanners -> ScanRecords] /\ scan'[c] = r
    BY <2>3, <2>5, <1>u
  <2> HIDE DEF r
  <2> QED
    BY <2>4, <2>5, <2>6, <1>b
<1>4. CASE EndScan(c)
  <2>1. /\ scan[c].pc = "next" /\ scan[c].live \subseteq scan[c].seen
        /\ scan'[c].pc = "end" /\ scan'[c].found = scan[c].found
        /\ scan'[c].seen = scan[c].seen /\ scan'[c].live = scan[c].live
    BY <1>4 DEF RootsInv, RootTypes, EndScan
  <2>2. scan' \in [Scanners -> ScanRecords]
    BY <1>4 DEF RootsInv, RootTypes, EndScan, ScanRecords, ScanPoints
  <2>3. ASSUME NEW q \in scan[c].live \ robbed
        PROVE  /\ proc[q].pc = "ready" /\ content[proc[q].fd] = "roots"
               /\ q \in scan[c].seen => q \in scan[c].found
    BY <2>1, <2>3 DEF RootsInv, FoundInv
  <2> QED
    BY <2>1, <2>2, <2>3, <1>b
<1>5. CASE ScanAgain(c)
  <2>1. scan'[c] = NoScan
    BY <1>5 DEF RootsInv, RootTypes, ScanAgain
  <2>2. scan' \in [Scanners -> ScanRecords]
    <3>1. NoScan \in ScanRecords
      BY DEF NoScan, ScanRecords, ScanPoints, FileOrNone
    <3> QED
      BY <1>5, <3>1 DEF RootsInv, RootTypes, ScanAgain
  <2> QED
    BY <2>1, <2>2, <1>b DEF NoScan
<1> QED
  BY <1>1, <1>2, <1>3, <1>4, <1>5

\* A step of a scanner keeps RootsInv if it changes no lock and no content of a
\* file that somebody else has locked, and finishes or keeps what it has begun to
\* read of a live process.
LEMMA ScannerFrame ==
    ASSUME RootsInv, NEW c \in Scanners, NEW r \in ScanRecords,
           scan' = [scan EXCEPT ![c] = r], UNCHANGED proc, RootTypes', NameInv',
           robbed \subseteq robbed', r.pc \notin {"idle", "end"},
           r.seen = scan[c].seen, r.live = scan[c].live, r.found = scan[c].found,
           r.pc \in {"try", "read", "unlink", "mark"} => r.fd # 0 /\ r.name \in Owners,
           r.pc \in {"unlink", "mark"} => lockedBy'[r.fd] = c,
           \A i \in RootFiles : lockedBy[i] \notin {c, NoOne} => lockedBy'[i] = lockedBy[i],
           \A i \in RootFiles : lockedBy[i] \in Owners => content'[i] = content[i],
           \A p \in Owners : named[p] = 0 => named'[p] = 0,
           \A p \in Owners : /\ scan[c].pc \in {"try", "read"} /\ scan[c].name = p
                             /\ scan[c].fd = proc[p].fd /\ proc[p].pc = "ready"
                             => r.pc = "read" /\ r.name = p /\ r.fd = proc[p].fd
    PROVE  RootsInv'
<1>0. Owners \cap Scanners = {} /\ NoOne \notin Owners /\ NoOne \notin Scanners
  BY TempRootsAssumption
<1>1. scan'[c] = r /\ \A d \in Scanners \ {c} : scan'[d] = scan[d]
  BY DEF RootsInv, RootTypes
<1>2. \A p \in Owners : proc[p].pc \in {"check", "ready"} =>
         /\ proc[p].fd \in RootFiles /\ lockedBy[proc[p].fd] = p
         /\ lockedBy'[proc[p].fd] = p /\ content'[proc[p].fd] = content[proc[p].fd]
  <2> SUFFICES ASSUME NEW p \in Owners, proc[p].pc \in {"check", "ready"}
               PROVE  /\ proc[p].fd \in RootFiles /\ lockedBy[proc[p].fd] = p
                      /\ lockedBy'[proc[p].fd] = p
                      /\ content'[proc[p].fd] = content[proc[p].fd]
    OBVIOUS
  <2>1. proc[p].fd \in RootFiles /\ lockedBy[proc[p].fd] = p
    BY DEF RootsInv, RootTypes, FileOrNone, OwnerInv
  <2>2. p \notin {c, NoOne}
    BY <1>0
  <2> QED
    BY <2>1, <2>2
<1>3. OwnerInv'
  BY <1>2 DEF RootsInv, OwnerInv
<1>4. ScannerInv'
  <2>1. ASSUME NEW d \in Scanners \ {c}
        PROVE  /\ scan'[d].pc \in {"try", "read", "unlink", "mark"} =>
                     scan'[d].fd # 0 /\ scan'[d].name \in Owners
               /\ scan'[d].pc \in {"unlink", "mark"} => lockedBy'[scan'[d].fd] = d
    <3>1. scan[d].fd \in RootFiles \cup {0} /\ d \notin {c, NoOne}
      BY <1>0, <2>1 DEF RootsInv, RootTypes, ScanRecords, FileOrNone
    <3> QED
      BY <1>1, <2>1, <3>1 DEF RootsInv, ScannerInv
  <2> QED
    BY <1>1, <2>1 DEF ScannerInv
<1>5. FoundInv'
  <2> SUFFICES ASSUME NEW d \in Scanners
               PROVE  /\ scan'[d].pc = "idle" => scan'[d].live = {} /\ scan'[d].seen = {}
                      /\ scan'[d].pc = "end" => scan'[d].live \subseteq scan'[d].seen
                      /\ \A p \in scan'[d].live \ robbed' :
                            /\ proc[p].pc = "ready" /\ content'[proc[p].fd] = "roots"
                            /\ p \in scan'[d].seen =>
                                  \/ p \in scan'[d].found
                                  \/ /\ scan'[d].pc \in {"try", "read"}
                                     /\ scan'[d].name = p /\ scan'[d].fd = proc[p].fd
    BY DEF FoundInv
  <2>1. /\ scan'[d].pc = "idle" => scan'[d].live = {} /\ scan'[d].seen = {}
        /\ scan'[d].pc = "end" => scan'[d].live \subseteq scan'[d].seen
    BY <1>1 DEF RootsInv, FoundInv
  <2>2. ASSUME NEW p \in scan'[d].live \ robbed'
        PROVE  /\ proc[p].pc = "ready" /\ content'[proc[p].fd] = "roots"
               /\ p \in scan'[d].seen =>
                     \/ p \in scan'[d].found
                     \/ /\ scan'[d].pc \in {"try", "read"}
                        /\ scan'[d].name = p /\ scan'[d].fd = proc[p].fd
    <3>1. p \in scan[d].live \ robbed /\ p \in Owners
      BY <1>1, <2>2 DEF RootsInv, RootTypes, ScanRecords
    <3>2. /\ proc[p].pc = "ready" /\ content[proc[p].fd] = "roots"
          /\ p \in scan[d].seen =>
                \/ p \in scan[d].found
                \/ /\ scan[d].pc \in {"try", "read"}
                   /\ scan[d].name = p /\ scan[d].fd = proc[p].fd
      BY <3>1 DEF RootsInv, FoundInv
    <3>3. content'[proc[p].fd] = "roots"
      BY <1>2, <3>1, <3>2
    <3>4. CASE d = c
      BY <1>1, <3>1, <3>2, <3>3, <3>4
    <3>5. CASE d # c
      BY <1>1, <3>2, <3>3, <3>5
    <3> QED
      BY <3>4, <3>5
  <2> QED
    BY <2>1, <2>2
<1> QED
  BY <1>3, <1>4, <1>5 DEF RootsInv

\* The lock of a live process cannot be had, so its file is read.
LEMMA ScannerTriesLock ==
    ASSUME RootsInv, NEW c \in Scanners, TryLock(c)
    PROVE  RootsInv'
<1>0. /\ Owners \cap Scanners = {} /\ NoOne \notin Owners /\ NoOne \notin Scanners
      /\ scan[c] \in ScanRecords
  BY TempRootsAssumption DEF RootsInv, RootTypes
<1>1. /\ scan[c].pc = "try" /\ scan[c].fd \in RootFiles /\ scan[c].name \in Owners
      /\ UNCHANGED <<named, content, proc, robbed>>
  BY DEF RootsInv, RootTypes, ScanRecords, FileOrNone, ScannerInv, TryLock
<1>2. PICK l \in {"unlink", "read"} :
        /\ scan' = [scan EXCEPT ![c].pc = l]
        /\ \/ /\ l = "unlink" /\ lockedBy[scan[c].fd] = NoOne
              /\ lockedBy' = [lockedBy EXCEPT ![scan[c].fd] = c]
           \/ l = "read" /\ lockedBy[scan[c].fd] # NoOne /\ UNCHANGED lockedBy
  BY DEF TryLock
<1> DEFINE r == [scan[c] EXCEPT !.pc = l]
<1>3. /\ r \in ScanRecords /\ r.pc = l /\ r.name = scan[c].name /\ r.fd = scan[c].fd
      /\ r.seen = scan[c].seen /\ r.live = scan[c].live /\ r.found = scan[c].found
  BY <1>0 DEF ScanRecords, ScanPoints
<1>4. scan' = [scan EXCEPT ![c] = r]
  BY <1>2 DEF RootsInv, RootTypes
<1> HIDE DEF r
<1>5. scan'[c] = r /\ \A d \in Scanners \ {c} : scan'[d] = scan[d]
  BY <1>4 DEF RootsInv, RootTypes
<1>6. RootTypes'
  BY <1>1, <1>2, <1>3, <1>4 DEF RootsInv, RootTypes
<1>7. NameInv'
  <2>1. ASSUME NEW d \in Scanners, scan[d].pc = "mark"
        PROVE  scan'[d].pc = "mark" /\ scan'[d].fd = scan[d].fd
    BY <1>1, <1>5, <2>1
  <2> QED
    BY <1>1, <2>1 DEF RootsInv, NameInv
<1>8. \A i \in RootFiles : lockedBy[i] \notin {c, NoOne} => lockedBy'[i] = lockedBy[i]
  BY <1>1, <1>2 DEF RootsInv, RootTypes
<1>9. l = "unlink" => lockedBy'[r.fd] = c
  BY <1>1, <1>2, <1>3 DEF RootsInv, RootTypes
<1>10. ASSUME NEW p \in Owners, scan[c].fd = proc[p].fd, proc[p].pc = "ready"
       PROVE  l = "read"
  BY <1>0, <1>2, <1>10 DEF RootsInv, OwnerInv
<1>11. \A p \in Owners : /\ scan[c].pc \in {"try", "read"} /\ scan[c].name = p
                         /\ scan[c].fd = proc[p].fd /\ proc[p].pc = "ready"
                         => r.pc = "read" /\ r.name = p /\ r.fd = proc[p].fd
  BY <1>3, <1>10
<1>12. /\ r.pc \in {"try", "read", "unlink", "mark"} => r.fd # 0 /\ r.name \in Owners
       /\ r.pc \in {"unlink", "mark"} => lockedBy'[r.fd] = c
       /\ r.pc \notin {"idle", "end"}
  BY <1>1, <1>3, <1>9 DEF RootFiles
<1> QED
  BY <1>1, <1>3, <1>4, <1>6, <1>7, <1>8, <1>11, <1>12, ScannerFrame

\* The name that goes is that of the file the scanner has locked, or the process
\* is robbed.
LEMMA ScannerUnlinks ==
    ASSUME RootsInv, NEW c \in Scanners, UnlinkStale(c)
    PROVE  RootsInv'
<1>0. Owners \cap Scanners = {} /\ scan[c] \in ScanRecords
  BY TempRootsAssumption DEF RootsInv, RootTypes
<1> DEFINE n == scan[c].name
           r == [scan[c] EXCEPT !.pc = "mark"]
<1>1. /\ scan[c].pc = "unlink" /\ scan[c].fd # 0 /\ n \in Owners /\ lockedBy[scan[c].fd] = c
      /\ UNCHANGED <<content, lockedBy, proc>>
      /\ named' = [named EXCEPT ![n] = 0]
      /\ robbed' = IF named[n] \in {0, scan[c].fd} THEN robbed ELSE robbed \cup {n}
  BY DEF RootsInv, ScannerInv, UnlinkStale
<1>2. /\ r \in ScanRecords /\ r.pc = "mark" /\ r.name = n /\ r.fd = scan[c].fd
      /\ r.seen = scan[c].seen /\ r.live = scan[c].live /\ r.found = scan[c].found
  BY <1>0 DEF ScanRecords, ScanPoints
<1>3. scan' = [scan EXCEPT ![c] = r]
  BY DEF RootsInv, RootTypes, UnlinkStale
<1> HIDE DEF r, n
<1>4. scan'[c] = r /\ \A d \in Scanners \ {c} : scan'[d] = scan[d]
  BY <1>3 DEF RootsInv, RootTypes
<1>5. RootTypes' /\ robbed \subseteq robbed'
  BY <1>1, <1>2, <1>3 DEF RootsInv, RootTypes, FileOrNone
<1>6. NameInv'
  <2> SUFFICES ASSUME NEW p \in Owners, p \notin robbed'
               PROVE  /\ proc[p].pc = "lock" =>
                            \/ named'[p] = proc[p].fd \/ content[proc[p].fd] = "d"
                            \/ \E d \in Scanners : scan'[d].pc = "mark" /\ scan'[d].fd = proc[p].fd
                      /\ proc[p].pc = "check" =>
                            named'[p] = proc[p].fd \/ content[proc[p].fd] = "d"
                      /\ proc[p].pc = "ready" => named'[p] = proc[p].fd
    BY <1>1 DEF NameInv
  <2>1. /\ p \notin robbed
        /\ proc[p].pc \in {"lock", "check", "ready"} => proc[p].fd # 0
        /\ proc[p].pc \in {"check", "ready"} => lockedBy[proc[p].fd] = p
    BY <1>5 DEF RootsInv, OwnerInv
  <2>2. \A d \in Scanners : scan[d].pc = "mark" =>
           scan'[d].pc = "mark" /\ scan'[d].fd = scan[d].fd
    BY <1>1, <1>4
  <2>3. CASE p # n
    <3>1. named'[p] = named[p]
      BY <1>1, <2>3 DEF RootsInv, RootTypes
    <3> QED
      BY <2>1, <2>2, <3>1 DEF RootsInv, NameInv
  <2>4. CASE p = n
    <3>1. named[p] \in {0, scan[c].fd}
      BY <1>1, <2>4
    <3>2. proc[p].pc \in {"lock", "check", "ready"} /\ named[p] = proc[p].fd =>
             proc[p].pc = "lock" /\ proc[p].fd = scan[c].fd
      BY <1>0, <1>1, <2>1, <3>1
    <3>3. scan'[c].pc = "mark" /\ scan'[c].fd = scan[c].fd
      BY <1>2, <1>4
    <3> QED
      BY <2>1, <2>2, <3>2, <3>3 DEF RootsInv, NameInv
  <2> QED
    BY <2>3, <2>4
<1>7. \A p \in Owners : named[p] = 0 => named'[p] = 0
  BY <1>1 DEF RootsInv, RootTypes
<1> QED
  BY <1>1, <1>2, <1>3, <1>5, <1>6, <1>7, ScannerFrame, ZenonT(60)

\* The file that is marked is locked by the scanner, so no process relies on it.
LEMMA ScannerMarks ==
    ASSUME RootsInv, NEW c \in Scanners, MarkDeleted(c)
    PROVE  RootsInv'
<1>0. Owners \cap Scanners = {} /\ scan[c] \in ScanRecords
  BY TempRootsAssumption DEF RootsInv, RootTypes
<1> DEFINE i == scan[c].fd
           r == [scan[c] EXCEPT !.pc = "next", !.fd = 0]
<1>1. /\ scan[c].pc = "mark" /\ i \in RootFiles /\ lockedBy[i] = c
      /\ content' = [content EXCEPT ![i] = "d"] /\ Close(c, i)
      /\ UNCHANGED <<named, proc, robbed>>
  BY DEF RootsInv, RootTypes, ScanRecords, FileOrNone, ScannerInv, MarkDeleted
<1>2. /\ r \in ScanRecords /\ r.pc = "next"
      /\ r.seen = scan[c].seen /\ r.live = scan[c].live /\ r.found = scan[c].found
  BY <1>0 DEF ScanRecords, ScanPoints, FileOrNone
<1>3. scan' = [scan EXCEPT ![c] = r]
  BY DEF RootsInv, RootTypes, MarkDeleted
<1> HIDE DEF r
<1>4. \A d \in Scanners \ {c} : scan'[d] = scan[d]
  BY <1>3 DEF RootsInv, RootTypes
<1>5. RootTypes'
  <2>1. content' \in [RootFiles -> {"empty", "roots", "d"}]
    BY <1>1 DEF RootsInv, RootTypes
  <2>2. lockedBy' \in [RootFiles -> Owners \cup Scanners \cup {NoOne}]
    BY <1>1, CloseKeeps DEF RootsInv
  <2> QED
    BY <1>1, <1>2, <1>3, <2>1, <2>2 DEF RootsInv, RootTypes
<1>6. \A k \in RootFiles : content'[k] = IF k = i THEN "d" ELSE content[k]
  BY <1>1 DEF RootsInv, RootTypes
<1>7. NameInv'
  <2> HIDE DEF i
  <2> SUFFICES ASSUME NEW p \in Owners, p \notin robbed
               PROVE  /\ proc[p].pc = "lock" =>
                            \/ named[p] = proc[p].fd \/ content'[proc[p].fd] = "d"
                            \/ \E d \in Scanners : scan'[d].pc = "mark" /\ scan'[d].fd = proc[p].fd
                      /\ proc[p].pc = "check" =>
                            named[p] = proc[p].fd \/ content'[proc[p].fd] = "d"
                      /\ proc[p].pc = "ready" => named[p] = proc[p].fd
    BY <1>1 DEF NameInv
  <2>1. proc[p].pc \in {"lock", "check", "ready"} => proc[p].fd \in RootFiles
    BY DEF RootsInv, RootTypes, FileOrNone, OwnerInv
  <2>2. content[proc[p].fd] = "d" /\ proc[p].pc \in {"lock", "check"} => content'[proc[p].fd] = "d"
    BY <1>6, <2>1
  <2>3. ASSUME NEW d \in Scanners, scan[d].pc = "mark", scan[d].fd = proc[p].fd,
               proc[p].pc = "lock"
        PROVE  \/ content'[proc[p].fd] = "d"
               \/ scan'[d].pc = "mark" /\ scan'[d].fd = proc[p].fd
    BY <1>4, <1>6, <2>1, <2>3 DEF i
  <2> QED
    BY <2>2, <2>3 DEF RootsInv, NameInv
<1>8. \A k \in RootFiles : lockedBy[k] \in Owners => content'[k] = content[k]
  BY <1>0, <1>1, <1>6
<1>9. \A k \in RootFiles : lockedBy[k] \notin {c, NoOne} => lockedBy'[k] = lockedBy[k]
  BY <1>1, CloseKeeps DEF RootsInv
<1> HIDE DEF i
<1> QED
  BY <1>1, <1>2, <1>3, <1>5, <1>7, <1>8, <1>9, ScannerFrame

-----------------------------------------------------------------------------
\* Every step keeps RootsInv.
LEMMA RootsNext == RootsInv /\ [TempRootsNext]_tempRootVars => RootsInv'
<1> SUFFICES ASSUME RootsInv, [TempRootsNext]_tempRootVars
             PROVE  RootsInv'
  OBVIOUS
<1>1. CASE UNCHANGED tempRootVars
  BY <1>1 DEF tempRootVars, RootsInv, RootTypes, OwnerInv, ScannerInv, NameInv, FoundInv
<1>2. CASE TempRootsNext
  BY <1>2, OwnerStarts, OwnerCreates, OwnerWrites, OwnerDies, ScannerLooks,
     ScannerTriesLock, ScannerUnlinks, ScannerMarks DEF TempRootsNext
<1> QED
  BY <1>1, <1>2

\* For any number of processes and of scanners in findTempRoots, with or without
\* stale files of the same pids: the root of a process that is alive and had been
\* recorded when a scan began is found, unless its file was unlinked for an older.
THEOREM TempRootsAreFound == TempRootsSpec => []LiveRootsFound
  BY RootsInit, RootsNext, RootsInvFound, PTL DEF TempRootsSpec
=============================================================================
