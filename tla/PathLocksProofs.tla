--------------------------- MODULE PathLocksProofs ---------------------------
(***************************************************************************)
(* Mutual exclusion of PathLocks for any number of processes, paths and    *)
(* files.  Mutual exclusion is not inductive: two processes could own two  *)
(* files for one path.  The invariant says that the file behind an owned   *)
(* lock is the one that has the name (OwnedInv), and that whoever opened a *)
(* file before it lost its name will notice (WaiterSeesDeletion).          *)
(***************************************************************************)
EXTENDS PathLocks, TLAPS

-----------------------------------------------------------------------------
(* The inductive invariant. *)

\* The local variables fit the step the process is at.
StepInv ==
    \A p \in Procs :
        /\ pc[p] \in {"open", "trylock", "waiting", "check", "mark", "close"}
              => cur[p] \in Paths
        /\ pc[p] \in {"trylock", "waiting", "check"} => fd[p] \in Inodes
        /\ pc[p] \in {"idle", "locked", "unlock", "mark", "close"} => fd[p] = None
        /\ pc[p] \in {"mark", "close"} => fds[p][cur[p]] \in Inodes
        /\ pc[p] = "open" /\ fd[p] # None => stale[fd[p]]

\* A recorded descriptor is flock()ed by its process, and so is the local one
\* once lockFile has returned.
HolderInv ==
    /\ \A p \in Procs, x \in Paths : fds[p][x] # None => holder[fds[p][x]] = p
    /\ \A p \in Procs : pc[p] = "check" => holder[fd[p]] = p

\* No process has two recorded descriptors for one file.
FdsInv ==
    \A p \in Procs, x, y \in Paths :
        fds[p][x] # None /\ fds[p][x] = fds[p][y] => x = y

\* The file behind an owned lock still has its name and is not stale.
OwnedInv ==
    \A p \in Procs, x \in Paths :
        Owns(p, x) => link[x] = fds[p][x] /\ ~stale[fds[p][x]]

\* A file with a name has one name and is not stale.
LinkInv ==
    /\ \A x \in Paths : link[x] # None => ~stale[link[x]]
    /\ \A x, y \in Paths : link[x] # None /\ link[x] = link[y] => x = y

\* A file between the unlink() and the write() of deleteLockFile has no name.
MarkInv ==
    \A p \in Procs, y \in Paths :
        pc[p] = "mark" => link[y] # fds[p][cur[p]]

\* The inductive invariant.
LockInv == TypeOK /\ StepInv /\ HolderInv /\ FdsInv /\ OwnedInv /\ LinkInv
             /\ MarkInv /\ WaiterSeesDeletion
-----------------------------------------------------------------------------
(***************************************************************************)
(* Type correctness.  StepInv is part of it: which descriptors exist       *)
(* depends on the step a process is at.                                    *)
(***************************************************************************)

\* The initial states are well typed.
LEMMA InitType == Init => TypeOK /\ StepInv
BY PathLocksAssumption DEF Init, TypeOK, StepInv, Steps

\* Every step keeps the types of the variables.
LEMMA NextType ==
    ASSUME TypeOK, StepInv, [Next]_vars
    PROVE  TypeOK'
<1> USE PathLocksAssumption DEF TypeOK, StepInv, Steps
<1>1. ASSUME NEW p \in Procs, NEW S \in SUBSET Paths, NEW w \in BOOLEAN,
             LockPaths(p, S, w)
      PROVE  TypeOK'
  BY <1>1 DEF LockPaths, IsFirst
<1>2. ASSUME NEW p \in Procs, OpenLockFile(p)
      PROVE  TypeOK'
  <2>1. cur[p] \in Paths
    BY <1>2 DEF OpenLockFile
  <2>2. holder' \in [Inodes -> Procs \cup {None}]
    BY <1>2 DEF OpenLockFile, Released
  <2>3. link' \in [Paths -> Inodes \cup {None}]
    BY <1>2, <2>1 DEF OpenLockFile
  <2>4. stale' \in [Inodes -> BOOLEAN]
    BY <1>2 DEF OpenLockFile
  <2>5. fd' \in [Procs -> Inodes \cup {None}]
    <3>1. link[cur[p]] \in Inodes \cup {None}
      BY <2>1
    <3> QED
      BY <1>2, <3>1 DEF OpenLockFile
  <2> QED
    BY <1>2, <2>2, <2>3, <2>4, <2>5 DEF OpenLockFile
<1>3. ASSUME NEW p \in Procs, TryLockOk(p)
      PROVE  TypeOK'
  BY <1>3 DEF TryLockOk
<1>4. ASSUME NEW p \in Procs, TryLockBusy(p)
      PROVE  TypeOK'
  BY <1>4 DEF TryLockBusy
<1>5. ASSUME NEW p \in Procs, Granted(p)
      PROVE  TypeOK'
  BY <1>5 DEF Granted
<1>7. ASSUME NEW p \in Procs, Interrupted(p)
      PROVE  TypeOK'
  BY <1>7 DEF Interrupted
<1>8. ASSUME NEW p \in Procs, CheckStale(p)
      PROVE  TypeOK'
  BY <1>8 DEF CheckStale
<1>9. ASSUME NEW p \in Procs, CheckOk(p)
      PROVE  TypeOK'
  <2>1. cur' \in [Procs -> Paths \cup {None}]
    BY <1>9 DEF CheckOk
  <2>4. pc' \in [Procs -> Steps]
    BY <1>9 DEF CheckOk
  <2>2. fds' \in [Procs -> [Paths -> Inodes \cup {None}]]
    BY <1>9 DEF CheckOk
  <2>3. todo' \in [Procs -> SUBSET Paths] /\ fd' \in [Procs -> Inodes \cup {None}]
    BY <1>9 DEF CheckOk
  <2> QED
    BY <1>9, <2>1, <2>2, <2>3, <2>4 DEF CheckOk
<1>10. ASSUME NEW p \in Procs, SetDeletion(p)
      PROVE  TypeOK'
  BY <1>10 DEF SetDeletion
<1>11. ASSUME NEW p \in Procs, Unlock(p)
      PROVE  TypeOK'
  BY <1>11 DEF Unlock
<1>12. ASSUME NEW p \in Procs, UnlockNext(p)
      PROVE  TypeOK'
  <2>1. link' \in [Paths -> Inodes \cup {None}] /\ pc' \in [Procs -> Steps]
    BY <1>12 DEF UnlockNext
  <2>2. cur' \in [Procs -> Paths \cup {None}]
    BY <1>12 DEF UnlockNext
  <2> QED
    BY <1>12, <2>1, <2>2 DEF UnlockNext
<1>13. ASSUME NEW p \in Procs, MarkStale(p)
      PROVE  TypeOK'
  BY <1>13 DEF MarkStale
<1>14. ASSUME NEW p \in Procs, CloseFd(p)
      PROVE  TypeOK'
  BY <1>14 DEF CloseFd, Released
<1>15. ASSUME NEW p \in Procs, UnlockDone(p)
      PROVE  TypeOK'
  <2>1. del' \in [Procs -> BOOLEAN]
    BY <1>15 DEF UnlockDone
  <2> QED
    BY <1>15, <2>1 DEF UnlockDone
<1>16. ASSUME NEW p \in Procs, Crash(p)
      PROVE  TypeOK'
  BY <1>16 DEF Crash, Exit, Released, OpenFds
<1>17. CASE UNCHANGED vars
  BY <1>17 DEF vars
<1> HIDE DEF TypeOK, StepInv, Steps
<1> QED
  BY <1>1, <1>2, <1>3, <1>4, <1>5, <1>7, <1>8, <1>9, <1>10, <1>11, <1>12, <1>13, <1>14, <1>15, <1>16, <1>17
  DEF Next, Proc, Advance

\* Two owners of a path would have the file that the name refers to locked both.
LEMMA InvImpliesMutex == LockInv => MutualExclusion
<1> SUFFICES ASSUME LockInv, NEW p \in Procs, NEW q \in Procs, NEW x \in Paths,
                    Owns(p, x), Owns(q, x)
             PROVE  p = q
  BY DEF MutualExclusion
<1>1. fds[p][x] = fds[q][x] /\ fds[p][x] # None
  BY DEF LockInv, OwnedInv, Owns
<1>2. holder[fds[p][x]] = p /\ holder[fds[q][x]] = q
  BY <1>1 DEF LockInv, HolderInv
<1> QED
  BY <1>1, <1>2

\* The initial states satisfy the invariant.
LEMMA InitInv == Init => LockInv
BY PathLocksAssumption
DEF Init, LockInv, TypeOK, StepInv, HolderInv, FdsInv, OwnedInv, LinkInv,
    MarkInv, WaiterSeesDeletion, Owns, Steps

\* A waiting process's file is the one its path names, once it holds the lock
\* and has found the file not to be stale.
LEMMA CheckedFileIsLinked ==
    ASSUME LockInv, NEW p \in Procs, pc[p] = "check", ~stale[fd[p]]
    PROVE  link[cur[p]] = fd[p]
<1>1. CASE \E q \in Procs : pc[q] = "mark" /\ fds[q][cur[q]] = fd[p]
  <2>1. PICK q \in Procs : pc[q] = "mark" /\ fds[q][cur[q]] = fd[p]
    BY <1>1
  <2>2. holder[fd[p]] = q
    <3>1. cur[q] \in Paths /\ fds[q][cur[q]] \in Inodes
      BY <2>1 DEF LockInv, StepInv
    <3> QED
      BY <2>1, <3>1, PathLocksAssumption DEF LockInv, HolderInv
  <2>3. holder[fd[p]] = p
    BY DEF LockInv, HolderInv
  <2> QED
    BY <2>1, <2>2, <2>3
<1> QED
  BY <1>1 DEF LockInv, WaiterSeesDeletion

\* The steps follow the disjuncts of Proc; under the actions that change files
\* there is one step per conjunct of the invariant.
LEMMA NextInv ==
    ASSUME LockInv, [Next]_vars
    PROVE  LockInv'
<1> USE PathLocksAssumption
<1>0. /\ TypeOK /\ StepInv /\ HolderInv /\ FdsInv /\ OwnedInv /\ LinkInv
      /\ MarkInv /\ WaiterSeesDeletion
      /\ TypeOK'
  BY NextType DEF LockInv
<1> USE <1>0
<1>a. ASSUME StepInv', HolderInv', FdsInv', OwnedInv', LinkInv', MarkInv',
             WaiterSeesDeletion'
      PROVE  LockInv'
  BY <1>a DEF LockInv
<1>1. ASSUME NEW p \in Procs, NEW S \in SUBSET Paths, NEW w \in BOOLEAN,
             LockPaths(p, S, w)
      PROVE  LockInv'
  <2>0. /\ pc[p] = "idle" /\ pc' = [pc EXCEPT ![p] = "open"]
        /\ cur'[p] \in Paths
        /\ \A q \in Procs : q # p => cur'[q] = cur[q]
        /\ UNCHANGED <<link, stale, holder, fd, fds>>
    BY <1>1 DEF LockPaths, TypeOK
  <2>1. StepInv'
    BY <2>0 DEF TypeOK, StepInv
  <2>2. HolderInv'
    BY <2>0 DEF TypeOK, StepInv, HolderInv, OwnedInv, Owns
  <2>3. FdsInv'
    BY <2>0 DEF TypeOK, FdsInv
  <2>4. OwnedInv'
    BY <2>0 DEF TypeOK, StepInv, OwnedInv, Owns
  <2>5. LinkInv'
    BY <2>0 DEF TypeOK, LinkInv
  <2>6. MarkInv'
    BY <2>0 DEF TypeOK, StepInv, MarkInv
  <2>7. WaiterSeesDeletion'
    <3> SUFFICES ASSUME NEW q \in Procs, pc'[q] \in {"trylock", "waiting", "check"}
                 PROVE  \/ stale'[fd'[q]]
                        \/ link'[cur'[q]] = fd'[q]
                        \/ \E r \in Procs : pc'[r] = "mark" /\ fds'[r][cur'[r]] = fd'[q]
      BY DEF WaiterSeesDeletion
    <3>1. CASE q = p
      BY <3>1, <2>0 DEF TypeOK
    <3>2. CASE q # p
      <4>1. pc'[q] = pc[q] /\ fd'[q] = fd[q] /\ cur'[q] = cur[q]
               /\ fd[q] \in Inodes /\ cur[q] \in Paths
        BY <3>2, <2>0 DEF TypeOK, StepInv
      <4>2. CASE stale[fd[q]]
        BY <4>1, <4>2, <2>0 DEF TypeOK
      <4>3. CASE link[cur[q]] = fd[q]
        BY <4>1, <4>3, <2>0 DEF TypeOK
      <4>4. ASSUME NEW r \in Procs, pc[r] = "mark", fds[r][cur[r]] = fd[q]
           PROVE  pc'[r] = "mark" /\ fds'[r][cur'[r]] = fd'[q]
        BY <4>1, <4>4, <2>0 DEF TypeOK
      <4> QED
        BY <4>1, <4>2, <4>3, <4>4 DEF WaiterSeesDeletion
    <3> QED
      BY <3>1, <3>2
  <2> QED
    BY <1>a, <2>1, <2>2, <2>3, <2>4, <2>5, <2>6, <2>7
<1>2. ASSUME NEW p \in Procs, OpenLockFile(p)
      PROVE  LockInv'
  <2> DEFINE x == cur[p]
  <2>1. /\ x \in Paths
        /\ pc[p] = "open"
        /\ pc' = [pc EXCEPT ![p] = "trylock"]
        /\ UNCHANGED <<cur, fds>>
        /\ fd[p] # None => stale[fd[p]]
        /\ holder' = Released(p, {fd[p]})
    BY <1>2 DEF OpenLockFile, TypeOK, StepInv
  <2>2. \A i \in Inodes : i # fd[p] \/ holder[i] # p => holder'[i] = holder[i]
    BY <2>1 DEF Released
  <2>5. \A y \in Paths : fds[p][y] # None => fds[p][y] # fd[p]
    BY <2>1 DEF OwnedInv, Owns
  <2>6. \A q \in Procs : q # p => pc'[q] = pc[q]
    BY <2>1 DEF TypeOK
  <2> HIDE DEF x
  <2>3. CASE link[x] # None /\ fd' = [fd EXCEPT ![p] = link[x]] /\ UNCHANGED <<link, stale>>
    <3>1. StepInv'
      BY <2>1, <2>3 DEF TypeOK, StepInv
    <3>2. HolderInv'
      <4>1. ASSUME NEW q \in Procs, NEW y \in Paths, fds'[q][y] # None
           PROVE  holder'[fds'[q][y]] = q
        <5>1. fds[q][y] \in Inodes /\ holder[fds[q][y]] = q
          BY <4>1, <2>1 DEF TypeOK, HolderInv
        <5> QED
          BY <5>1, <2>1, <2>2, <2>5
      <4>2. ASSUME NEW q \in Procs, pc'[q] = "check"
           PROVE  holder'[fd'[q]] = q
        <5>1. q # p /\ pc[q] = "check" /\ fd'[q] = fd[q] /\ fd[q] \in Inodes
          BY <4>2, <2>1, <2>6, <2>3 DEF TypeOK, StepInv
        <5>2. holder[fd[q]] = q
          BY <5>1 DEF HolderInv
        <5> QED
          BY <5>1, <5>2, <2>2
      <4> QED
        BY <4>1, <4>2 DEF HolderInv
    <3>3. FdsInv'
      BY <2>1, <2>3 DEF TypeOK, FdsInv
    <3>4. OwnedInv'
      BY <2>1, <2>3 DEF TypeOK, StepInv, OwnedInv, Owns
    <3>5. LinkInv'
      BY <2>1, <2>3 DEF TypeOK, LinkInv
    <3>6. MarkInv'
      BY <2>1, <2>3 DEF TypeOK, StepInv, MarkInv
    <3>7. WaiterSeesDeletion'
      <4> SUFFICES ASSUME NEW q \in Procs, pc'[q] \in {"trylock", "waiting", "check"}
                   PROVE  \/ stale'[fd'[q]]
                          \/ link'[cur'[q]] = fd'[q]
                          \/ \E r \in Procs : pc'[r] = "mark" /\ fds'[r][cur'[r]] = fd'[q]
        BY DEF WaiterSeesDeletion
      <4>1. CASE q = p
        BY <4>1, <2>1, <2>3 DEF TypeOK, x
      <4>2. CASE q # p
        <5>1. pc'[q] = pc[q] /\ fd'[q] = fd[q] /\ cur'[q] = cur[q]
                 /\ fd[q] \in Inodes /\ cur[q] \in Paths
          BY <4>2, <2>1, <2>3, <2>6 DEF TypeOK, StepInv
        <5>2. CASE stale[fd[q]]
          BY <5>1, <5>2, <2>3 DEF TypeOK
        <5>3. CASE link[cur[q]] = fd[q]
          BY <5>1, <5>3, <2>3 DEF TypeOK
        <5>4. ASSUME NEW r \in Procs, pc[r] = "mark", fds[r][cur[r]] = fd[q]
             PROVE  pc'[r] = "mark" /\ fds'[r][cur'[r]] = fd'[q]
          BY <5>1, <5>4, <2>1, <2>6 DEF TypeOK
        <5> QED
          BY <5>1, <5>2, <5>3, <5>4 DEF WaiterSeesDeletion
      <4> QED
        BY <4>1, <4>2
    <3> QED
      BY <1>a, <3>1, <3>2, <3>3, <3>4, <3>5, <3>6, <3>7
  <2>4. ASSUME NEW i \in Inodes, Free(i), link[x] = None,
               link' = [link EXCEPT ![x] = i],
               stale' = [stale EXCEPT ![i] = FALSE],
               fd' = [fd EXCEPT ![p] = i]
        PROVE  LockInv'
    <3>0. /\ \A y \in Paths : link[y] # i
          /\ \A q \in Procs : fd[q] # i
          /\ \A q \in Procs, y \in Paths : fds[q][y] # i
      BY <2>4 DEF Free
    <3>1. StepInv'
      BY <2>1, <2>4, <3>0 DEF TypeOK, StepInv
    <3>2. HolderInv'
      <4>1. ASSUME NEW q \in Procs, NEW y \in Paths, fds'[q][y] # None
           PROVE  holder'[fds'[q][y]] = q
        <5>1. fds[q][y] \in Inodes /\ holder[fds[q][y]] = q
          BY <4>1, <2>1 DEF TypeOK, HolderInv
        <5> QED
          BY <5>1, <2>1, <2>2, <2>5
      <4>2. ASSUME NEW q \in Procs, pc'[q] = "check"
           PROVE  holder'[fd'[q]] = q
        <5>1. q # p /\ pc[q] = "check" /\ fd'[q] = fd[q] /\ fd[q] \in Inodes
          BY <4>2, <2>1, <2>6, <2>4 DEF TypeOK, StepInv
        <5>2. holder[fd[q]] = q
          BY <5>1 DEF HolderInv
        <5> QED
          BY <5>1, <5>2, <2>2
      <4> QED
        BY <4>1, <4>2 DEF HolderInv
    <3>3. FdsInv'
      BY <2>1, <2>4, <3>0 DEF TypeOK, FdsInv
    <3>4. OwnedInv'
      BY <2>1, <2>4, <3>0 DEF TypeOK, StepInv, OwnedInv, Owns
    <3>5. LinkInv'
      BY <2>1, <2>4, <3>0 DEF TypeOK, LinkInv
    <3>6. MarkInv'
      <4> SUFFICES ASSUME NEW q \in Procs, NEW y \in Paths, pc'[q] = "mark"
                   PROVE  link'[y] # fds'[q][cur'[q]]
        BY DEF MarkInv
      <4>1. q # p /\ pc[q] = "mark" /\ cur[q] \in Paths
        BY <2>1, <2>6 DEF TypeOK, StepInv
      <4>2. link[y] # fds[q][cur[q]] /\ fds[q][cur[q]] # i
        BY <4>1, <3>0 DEF MarkInv
      <4> QED
        BY <4>1, <4>2, <2>1, <2>4 DEF TypeOK
    <3>7. WaiterSeesDeletion'
      <4> SUFFICES ASSUME NEW q \in Procs, pc'[q] \in {"trylock", "waiting", "check"}
                   PROVE  \/ stale'[fd'[q]]
                          \/ link'[cur'[q]] = fd'[q]
                          \/ \E r \in Procs : pc'[r] = "mark" /\ fds'[r][cur'[r]] = fd'[q]
        BY DEF WaiterSeesDeletion
      <4>1. CASE q = p
        BY <4>1, <2>1, <2>4 DEF TypeOK, x
      <4>2. CASE q # p
        <5>1. pc'[q] = pc[q] /\ fd'[q] = fd[q] /\ cur'[q] = cur[q]
                 /\ fd[q] \in Inodes /\ cur[q] \in Paths
          BY <4>2, <2>1, <2>4, <2>6 DEF TypeOK, StepInv
        <5>2. CASE stale[fd[q]]
          BY <5>1, <5>2, <2>4, <3>0 DEF TypeOK
        <5>3. CASE link[cur[q]] = fd[q]
          BY <5>1, <5>3, <2>4 DEF TypeOK
        <5>4. ASSUME NEW r \in Procs, pc[r] = "mark", fds[r][cur[r]] = fd[q]
             PROVE  pc'[r] = "mark" /\ fds'[r][cur'[r]] = fd'[q]
          BY <5>1, <5>4, <2>1, <2>6 DEF TypeOK
        <5> QED
          BY <5>1, <5>2, <5>3, <5>4 DEF WaiterSeesDeletion
      <4> QED
        BY <4>1, <4>2
    <3> QED
      BY <1>a, <3>1, <3>2, <3>3, <3>4, <3>5, <3>6, <3>7
  <2> QED
    BY <1>2, <2>3, <2>4 DEF OpenLockFile, x
<1>3. ASSUME NEW p \in Procs, TryLockOk(p)
      PROVE  LockInv'
  <2> USE DEF TryLockOk
  <2>1. StepInv'
    BY <1>3 DEF TypeOK, StepInv
  <2>2. HolderInv'
    BY <1>3 DEF TypeOK, StepInv, HolderInv, OwnedInv, Owns
  <2>3. FdsInv'
    BY <1>3 DEF TypeOK, FdsInv
  <2>4. OwnedInv'
    BY <1>3 DEF TypeOK, StepInv, OwnedInv, Owns
  <2>5. LinkInv'
    BY <1>3 DEF TypeOK, LinkInv
  <2>6. MarkInv'
    BY <1>3 DEF TypeOK, StepInv, MarkInv
  <2>7. WaiterSeesDeletion'
    BY <1>3 DEF TypeOK, StepInv, WaiterSeesDeletion
  <2> QED
    BY <1>a, <2>1, <2>2, <2>3, <2>4, <2>5, <2>6, <2>7
<1>4. ASSUME NEW p \in Procs, TryLockBusy(p)
      PROVE  LockInv'
  <2> USE DEF TryLockBusy
  <2>1. StepInv'
    BY <1>4 DEF TypeOK, StepInv
  <2>2. HolderInv'
    BY <1>4 DEF TypeOK, StepInv, HolderInv, OwnedInv, Owns
  <2>3. FdsInv'
    BY <1>4 DEF TypeOK, FdsInv
  <2>4. OwnedInv'
    BY <1>4 DEF TypeOK, StepInv, OwnedInv, Owns
  <2>5. LinkInv'
    BY <1>4 DEF TypeOK, LinkInv
  <2>6. MarkInv'
    BY <1>4 DEF TypeOK, StepInv, MarkInv
  <2>7. WaiterSeesDeletion'
    BY <1>4 DEF TypeOK, StepInv, WaiterSeesDeletion
  <2> QED
    BY <1>a, <2>1, <2>2, <2>3, <2>4, <2>5, <2>6, <2>7
<1>5. ASSUME NEW p \in Procs, Granted(p)
      PROVE  LockInv'
  <2> USE DEF Granted
  <2>1. StepInv'
    BY <1>5 DEF TypeOK, StepInv
  <2>2. HolderInv'
    BY <1>5 DEF TypeOK, StepInv, HolderInv, OwnedInv, Owns
  <2>3. FdsInv'
    BY <1>5 DEF TypeOK, FdsInv
  <2>4. OwnedInv'
    BY <1>5 DEF TypeOK, StepInv, OwnedInv, Owns
  <2>5. LinkInv'
    BY <1>5 DEF TypeOK, LinkInv
  <2>6. MarkInv'
    BY <1>5 DEF TypeOK, StepInv, MarkInv
  <2>7. WaiterSeesDeletion'
    BY <1>5 DEF TypeOK, StepInv, WaiterSeesDeletion
  <2> QED
    BY <1>a, <2>1, <2>2, <2>3, <2>4, <2>5, <2>6, <2>7
<1>7. ASSUME NEW p \in Procs, Interrupted(p)
      PROVE  LockInv'
  <2> USE DEF Interrupted
  <2>1. StepInv'
    BY <1>7 DEF TypeOK, StepInv
  <2>2. HolderInv'
    BY <1>7 DEF TypeOK, StepInv, HolderInv, OwnedInv, Owns
  <2>3. FdsInv'
    BY <1>7 DEF TypeOK, FdsInv
  <2>4. OwnedInv'
    BY <1>7 DEF TypeOK, StepInv, OwnedInv, Owns
  <2>5. LinkInv'
    BY <1>7 DEF TypeOK, LinkInv
  <2>6. MarkInv'
    BY <1>7 DEF TypeOK, StepInv, MarkInv
  <2>7. WaiterSeesDeletion'
    BY <1>7 DEF TypeOK, StepInv, WaiterSeesDeletion
  <2> QED
    BY <1>a, <2>1, <2>2, <2>3, <2>4, <2>5, <2>6, <2>7
<1>8. ASSUME NEW p \in Procs, CheckStale(p)
      PROVE  LockInv'
  <2> USE DEF CheckStale
  <2>1. StepInv'
    BY <1>8 DEF TypeOK, StepInv
  <2>2. HolderInv'
    BY <1>8 DEF TypeOK, StepInv, HolderInv, OwnedInv, Owns
  <2>3. FdsInv'
    BY <1>8 DEF TypeOK, FdsInv
  <2>4. OwnedInv'
    BY <1>8 DEF TypeOK, StepInv, OwnedInv, Owns
  <2>5. LinkInv'
    BY <1>8 DEF TypeOK, LinkInv
  <2>6. MarkInv'
    BY <1>8 DEF TypeOK, StepInv, MarkInv
  <2>7. WaiterSeesDeletion'
    BY <1>8 DEF TypeOK, StepInv, WaiterSeesDeletion
  <2> QED
    BY <1>a, <2>1, <2>2, <2>3, <2>4, <2>5, <2>6, <2>7
<1>9. ASSUME NEW p \in Procs, CheckOk(p)
      PROVE  LockInv'
  <2>1. link[cur[p]] = fd[p] /\ cur[p] \in Paths /\ fd[p] \in Inodes
    BY <1>9, CheckedFileIsLinked DEF CheckOk, StepInv
  <2>2. /\ fds' = [fds EXCEPT ![p][cur[p]] = fd[p]]
        /\ fd' = [fd EXCEPT ![p] = None]
        /\ pc'[p] \in {"locked", "open"}
        /\ \A q \in Procs : q # p => cur'[q] = cur[q] /\ pc'[q] = pc[q]
        /\ pc'[p] = "open" => cur'[p] \in Paths
        /\ ~stale[fd[p]]
        /\ pc[p] = "check"
        /\ UNCHANGED <<link, stale, holder>>
    BY <1>9 DEF CheckOk, TypeOK
  <2>3. StepInv'
    BY <2>1, <2>2 DEF TypeOK, StepInv
  <2>4. HolderInv'
    BY <2>1, <2>2 DEF TypeOK, StepInv, HolderInv, OwnedInv, Owns
  <2>5. FdsInv'
    BY <2>1, <2>2 DEF TypeOK, FdsInv, OwnedInv, Owns, LinkInv
  <2>6. OwnedInv'
    BY <2>1, <2>2 DEF TypeOK, StepInv, OwnedInv, Owns
  <2>7. LinkInv'
    BY <2>1, <2>2 DEF TypeOK, LinkInv
  <2>8. MarkInv'
    BY <2>1, <2>2 DEF TypeOK, StepInv, MarkInv
  <2>9. WaiterSeesDeletion'
    BY <2>1, <2>2, SMTT(30) DEF TypeOK, StepInv, WaiterSeesDeletion
  <2> QED
    BY <1>a, <2>3, <2>4, <2>5, <2>6, <2>7, <2>8, <2>9
<1>10. ASSUME NEW p \in Procs, SetDeletion(p)
      PROVE  LockInv'
  <2> USE DEF SetDeletion
  <2>1. StepInv'
    BY <1>10 DEF TypeOK, StepInv
  <2>2. HolderInv'
    BY <1>10 DEF TypeOK, StepInv, HolderInv, OwnedInv, Owns
  <2>3. FdsInv'
    BY <1>10 DEF TypeOK, FdsInv
  <2>4. OwnedInv'
    BY <1>10 DEF TypeOK, StepInv, OwnedInv, Owns
  <2>5. LinkInv'
    BY <1>10 DEF TypeOK, LinkInv
  <2>6. MarkInv'
    BY <1>10 DEF TypeOK, StepInv, MarkInv
  <2>7. WaiterSeesDeletion'
    BY <1>10 DEF TypeOK, StepInv, WaiterSeesDeletion
  <2> QED
    BY <1>a, <2>1, <2>2, <2>3, <2>4, <2>5, <2>6, <2>7
<1>11. ASSUME NEW p \in Procs, Unlock(p)
      PROVE  LockInv'
  <2> USE DEF Unlock
  <2>1. StepInv'
    BY <1>11 DEF TypeOK, StepInv
  <2>2. HolderInv'
    BY <1>11 DEF TypeOK, StepInv, HolderInv, OwnedInv, Owns
  <2>3. FdsInv'
    BY <1>11 DEF TypeOK, FdsInv
  <2>4. OwnedInv'
    BY <1>11 DEF TypeOK, StepInv, OwnedInv, Owns
  <2>5. LinkInv'
    BY <1>11 DEF TypeOK, LinkInv
  <2>6. MarkInv'
    BY <1>11 DEF TypeOK, StepInv, MarkInv
  <2>7. WaiterSeesDeletion'
    BY <1>11 DEF TypeOK, StepInv, WaiterSeesDeletion
  <2> QED
    BY <1>a, <2>1, <2>2, <2>3, <2>4, <2>5, <2>6, <2>7
<1>12. ASSUME NEW p \in Procs, UnlockNext(p)
      PROVE  LockInv'
  <2>1. PICK x \in Paths :
          /\ IsFirst(x, Acquired(p))
          /\ cur' = [cur EXCEPT ![p] = x]
          /\ \/ /\ link' = [link EXCEPT ![x] = None]
                /\ pc' = [pc EXCEPT ![p] = "mark"]
             \/ /\ pc' = [pc EXCEPT ![p] = "close"]
                /\ UNCHANGED link
    BY <1>12 DEF UnlockNext
  <2>2. fds[p][x] # None /\ pc[p] = "unlock" /\ UNCHANGED <<stale, holder, fd, fds>>
    BY <1>12, <2>1 DEF UnlockNext, IsFirst, Acquired
  <2>3. link[x] = fds[p][x] /\ ~stale[fds[p][x]] /\ holder[fds[p][x]] = p
    BY <2>2 DEF OwnedInv, Owns, HolderInv
  <2>4. CASE link' = [link EXCEPT ![x] = None] /\ pc' = [pc EXCEPT ![p] = "mark"]
    <3>1. StepInv'
      BY <2>1, <2>2, <2>3, <2>4 DEF TypeOK, StepInv
    <3>2. HolderInv'
      BY <2>1, <2>2, <2>3, <2>4 DEF TypeOK, StepInv, HolderInv, OwnedInv, Owns
    <3>3. FdsInv'
      BY <2>2 DEF FdsInv
    <3>4. OwnedInv'
      <4> SUFFICES ASSUME NEW q \in Procs, NEW y \in Paths, Owns(q, y)'
                   PROVE  link'[y] = fds'[q][y] /\ ~stale'[fds'[q][y]]
        BY DEF OwnedInv
      <4>1. Owns(q, y) /\ ~(q = p /\ y = x)
        BY <2>1, <2>2, <2>4 DEF Owns, TypeOK
      <4>2. link[y] = fds[q][y] /\ ~stale[fds[q][y]] /\ holder[fds[q][y]] = q
        BY <4>1 DEF OwnedInv, HolderInv, Owns
      <4>3. y # x
        BY <4>1, <4>2, <2>3
      <4> QED
        BY <4>2, <4>3, <2>2, <2>4 DEF TypeOK
    <3>5. LinkInv'
      BY <2>1, <2>2, <2>3, <2>4, ZenonT(60) DEF TypeOK, LinkInv
    <3>6. MarkInv'
      BY <2>1, <2>2, <2>3, <2>4 DEF TypeOK, StepInv, MarkInv, LinkInv
    <3>7. WaiterSeesDeletion'
      <4> SUFFICES ASSUME NEW q \in Procs, pc'[q] \in {"trylock", "waiting", "check"}
                   PROVE  \/ stale'[fd'[q]]
                          \/ link'[cur'[q]] = fd'[q]
                          \/ \E r \in Procs : pc'[r] = "mark" /\ fds'[r][cur'[r]] = fd'[q]
        BY DEF WaiterSeesDeletion
      <4>1. CASE q = p
        BY <4>1, <2>4 DEF TypeOK
      <4>2. CASE q # p
        <5>1. pc'[q] = pc[q] /\ fd'[q] = fd[q] /\ cur'[q] = cur[q]
                 /\ fd[q] \in Inodes /\ cur[q] \in Paths
          BY <4>2, <2>1, <2>2, <2>4 DEF TypeOK, StepInv
        <5>2. CASE stale[fd[q]]
          BY <5>1, <5>2, <2>2 DEF TypeOK
        <5>3. CASE link[cur[q]] = fd[q]
          BY <5>1, <5>3, <2>1, <2>2, <2>3, <2>4 DEF TypeOK
        <5>4. ASSUME NEW r \in Procs, pc[r] = "mark", fds[r][cur[r]] = fd[q]
             PROVE  pc'[r] = "mark" /\ fds'[r][cur'[r]] = fd'[q]
          BY <5>1, <5>4, <2>1, <2>2, <2>4 DEF TypeOK
        <5> QED
          BY <5>1, <5>2, <5>3, <5>4 DEF WaiterSeesDeletion
      <4> QED
        BY <4>1, <4>2
    <3> QED
      BY <1>a, <3>1, <3>2, <3>3, <3>4, <3>5, <3>6, <3>7
  <2>5. CASE pc' = [pc EXCEPT ![p] = "close"] /\ UNCHANGED link
    <3>1. StepInv'
      BY <2>1, <2>2, <2>5 DEF TypeOK, StepInv
    <3>2. HolderInv'
      BY <2>1, <2>2, <2>5 DEF TypeOK, StepInv, HolderInv, OwnedInv, Owns
    <3>3. FdsInv'
      BY <2>1, <2>2, <2>5 DEF TypeOK, FdsInv
    <3>4. OwnedInv'
      BY <2>1, <2>2, <2>5 DEF TypeOK, StepInv, OwnedInv, Owns
    <3>5. LinkInv'
      BY <2>1, <2>2, <2>5 DEF TypeOK, LinkInv
    <3>6. MarkInv'
      BY <2>1, <2>2, <2>5 DEF TypeOK, StepInv, MarkInv
    <3>7. WaiterSeesDeletion'
      <4> SUFFICES ASSUME NEW q \in Procs,
                          pc'[q] \in {"trylock", "waiting", "check"}
                   PROVE  \/ stale'[fd'[q]]
                          \/ link'[cur'[q]] = fd'[q]
                          \/ \E r \in Procs : pc'[r] = "mark" /\ fds'[r][cur'[r]] = fd'[q]
        BY DEF WaiterSeesDeletion
      <4>1. q # p /\ pc'[q] = pc[q] /\ fd'[q] = fd[q] /\ cur'[q] = cur[q]
        BY <2>1, <2>2, <2>5 DEF TypeOK
      <4>2. ASSUME NEW r \in Procs, pc[r] = "mark", fds[r][cur[r]] = fd[q]
           PROVE  pc'[r] = "mark" /\ fds'[r][cur'[r]] = fd'[q]
        BY <4>1, <4>2, <2>1, <2>2, <2>5 DEF TypeOK
      <4>3. stale' = stale /\ link' = link
        BY <2>2, <2>5
      <4> QED
        BY <4>1, <4>2, <4>3 DEF WaiterSeesDeletion
    <3> QED
      BY <1>a, <3>1, <3>2, <3>3, <3>4, <3>5, <3>6, <3>7
  <2> QED
    BY <2>1, <2>4, <2>5
<1>13. ASSUME NEW p \in Procs, MarkStale(p)
      PROVE  LockInv'
  <2> USE DEF MarkStale
  <2>1. StepInv'
    BY <1>13 DEF TypeOK, StepInv
  <2>2. HolderInv'
    BY <1>13 DEF TypeOK, StepInv, HolderInv, OwnedInv, Owns
  <2>3. FdsInv'
    BY <1>13 DEF TypeOK, FdsInv
  <2>4. OwnedInv'
    BY <1>13 DEF TypeOK, StepInv, OwnedInv, Owns, MarkInv
  <2>5. LinkInv'
    BY <1>13 DEF TypeOK, LinkInv, MarkInv, StepInv
  <2>6. MarkInv'
    BY <1>13 DEF TypeOK, StepInv, MarkInv
  <2>7. WaiterSeesDeletion'
    BY <1>13 DEF TypeOK, StepInv, WaiterSeesDeletion
  <2> QED
    BY <1>a, <2>1, <2>2, <2>3, <2>4, <2>5, <2>6, <2>7
<1>14. ASSUME NEW p \in Procs, CloseFd(p)
      PROVE  LockInv'
  <2>1. /\ cur[p] \in Paths
        /\ fds' = [fds EXCEPT ![p][cur[p]] = None]
        /\ pc[p] = "close"
        /\ pc' = [pc EXCEPT ![p] = "unlock"]
        /\ UNCHANGED <<link, stale, cur, fd>>
        /\ \A i \in Inodes : i # fds[p][cur[p]] \/ holder[i] # p => holder'[i] = holder[i]
    BY <1>14 DEF CloseFd, Released, TypeOK, StepInv
  <2>2. \A y \in Paths : y # cur[p] /\ fds[p][y] # None => fds[p][y] # fds[p][cur[p]]
    BY <2>1 DEF FdsInv
  <2>3. StepInv'
    BY <2>1 DEF TypeOK, StepInv
  <2>4. HolderInv'
    BY <2>1, <2>2 DEF TypeOK, StepInv, HolderInv, OwnedInv, Owns
  <2>5. FdsInv'
    BY <2>1 DEF TypeOK, FdsInv
  <2>6. OwnedInv'
    BY <2>1 DEF TypeOK, StepInv, OwnedInv, Owns
  <2>7. LinkInv'
    BY <2>1 DEF TypeOK, LinkInv
  <2>8. MarkInv'
    BY <2>1 DEF TypeOK, StepInv, MarkInv
  <2>9. WaiterSeesDeletion'
    BY <2>1 DEF TypeOK, StepInv, WaiterSeesDeletion
  <2> QED
    BY <1>a, <2>3, <2>4, <2>5, <2>6, <2>7, <2>8, <2>9
<1>15. ASSUME NEW p \in Procs, UnlockDone(p)
      PROVE  LockInv'
  <2> USE DEF UnlockDone, Acquired
  <2>1. StepInv'
    BY <1>15 DEF TypeOK, StepInv
  <2>2. HolderInv'
    BY <1>15 DEF TypeOK, StepInv, HolderInv, OwnedInv, Owns
  <2>3. FdsInv'
    BY <1>15 DEF TypeOK, FdsInv
  <2>4. OwnedInv'
    BY <1>15 DEF TypeOK, StepInv, OwnedInv, Owns
  <2>5. LinkInv'
    BY <1>15 DEF TypeOK, LinkInv
  <2>6. MarkInv'
    BY <1>15 DEF TypeOK, StepInv, MarkInv
  <2>7. WaiterSeesDeletion'
    BY <1>15 DEF TypeOK, StepInv, WaiterSeesDeletion
  <2> QED
    BY <1>a, <2>1, <2>2, <2>3, <2>4, <2>5, <2>6, <2>7
<1>16. ASSUME NEW p \in Procs, Crash(p)
      PROVE  LockInv'
  <2> USE DEF Crash, Exit, Released
  <2>1. StepInv'
    BY <1>16 DEF TypeOK, StepInv
  <2>2. HolderInv'
    BY <1>16 DEF TypeOK, StepInv, HolderInv, OwnedInv, Owns
  <2>3. FdsInv'
    BY <1>16 DEF TypeOK, FdsInv
  <2>4. OwnedInv'
    BY <1>16 DEF TypeOK, StepInv, OwnedInv, Owns
  <2>5. LinkInv'
    BY <1>16 DEF TypeOK, LinkInv
  <2>6. MarkInv'
    BY <1>16 DEF TypeOK, StepInv, MarkInv
  <2>7. WaiterSeesDeletion'
    BY <1>16 DEF TypeOK, StepInv, WaiterSeesDeletion
  <2> QED
    BY <1>a, <2>1, <2>2, <2>3, <2>4, <2>5, <2>6, <2>7
<1>17. CASE UNCHANGED vars
  BY <1>17 DEF vars, LockInv, TypeOK, StepInv, HolderInv, FdsInv, OwnedInv,
               LinkInv, MarkInv, WaiterSeesDeletion, Owns
<1> QED
  BY <1>1, <1>2, <1>3, <1>4, <1>5, <1>7, <1>8, <1>9, <1>10, <1>11,
     <1>12, <1>13, <1>14, <1>15, <1>16, <1>17
  DEF Next, Proc, Advance

\* Type correctness of PathLocks: for every number of processes, paths and
\* files, descriptors and flags keep their types through every system call of
\* lockPaths and unlock, interrupts and kills included.
THEOREM TypeCorrect ==
    Spec => []TypeOK
<1>1. Init => LockInv
  BY InitInv
<1>2. LockInv /\ [Next]_vars => LockInv'
  BY NextInv
<1>3. LockInv => TypeOK
  BY DEF LockInv
<1> QED
  BY <1>1, <1>2, <1>3, PTL DEF Spec

\* Mutual exclusion of PathLocks::lockPaths: two objects never both own the
\* lock on a path, however lock files are deleted and created again.
THEOREM Mutex ==
    Spec => []MutualExclusion
<1>1. Init => LockInv
  BY InitInv
<1>2. LockInv /\ [Next]_vars => LockInv'
  BY NextInv
<1>3. LockInv => MutualExclusion
  BY InvImpliesMutex
<1> QED
  BY <1>1, <1>2, <1>3, PTL DEF Spec

\* Staleness detection of lockPaths: a process that has opened a lock file and
\* not yet checked its size cannot be fooled by deleteLockFile.
THEOREM DeletionSeen ==
    Spec => []WaiterSeesDeletion
<1>1. Init => LockInv
  BY InitInv
<1>2. LockInv /\ [Next]_vars => LockInv'
  BY NextInv
<1>3. LockInv => WaiterSeesDeletion
  BY DEF LockInv
<1> QED
  BY <1>1, <1>2, <1>3, PTL DEF Spec
-----------------------------------------------------------------------------
(***************************************************************************)
(* PathLocks implements AbstractLock.  The mapping calls a process the     *)
(* owner of x from the moment lockPaths has recorded the descriptor until  *)
(* unlock reaches it.  Mutual exclusion makes the owner unique; OrderInv   *)
(* says that lockPaths has only acquired paths below the current one.      *)
(***************************************************************************)

\* lockPaths goes through its paths in ascending order, and an idle object
\* holds nothing.
OrderInv ==
    \A p \in Procs :
        /\ pc[p] = "idle" => \A y \in Paths : fds[p][y] = None
        /\ Locking(p) =>
              /\ cur[p] \in todo[p]
              /\ \A z \in todo[p] : cur[p] <= z
              /\ \A y \in Paths : fds[p][y] # None => y < cur[p]

\* OrderInv is kept by every step.
LEMMA NextOrder ==
    ASSUME TypeOK, StepInv, OrderInv, [Next]_vars
    PROVE  OrderInv'
<1> USE PathLocksAssumption DEF TypeOK, OrderInv, Locking
<1>1. ASSUME NEW p \in Procs, NEW S \in SUBSET Paths, NEW w \in BOOLEAN,
             LockPaths(p, S, w)
      PROVE  OrderInv'
  BY <1>1 DEF LockPaths, IsFirst
<1>2. ASSUME NEW p \in Procs, OpenLockFile(p)
      PROVE  OrderInv'
  BY <1>2 DEF OpenLockFile
<1>3. ASSUME NEW p \in Procs, TryLockOk(p) \/ TryLockBusy(p) \/ Granted(p)
      PROVE  OrderInv'
  <2>1. CASE TryLockOk(p)
    BY <2>1 DEF TryLockOk
  <2>2. CASE TryLockBusy(p)
    <3>1. CASE wait[p]
      BY <2>2, <3>1 DEF TryLockBusy
    <3>2. CASE ~wait[p]
      BY <2>2, <3>2, ZenonT(60) DEF TryLockBusy
    <3> QED
      BY <3>1, <3>2
  <2>3. CASE Granted(p)
    BY <2>3 DEF Granted
  <2> QED
    BY <1>3, <2>1, <2>2, <2>3
<1>4. ASSUME NEW p \in Procs, Interrupted(p)
      PROVE  OrderInv'
  BY <1>4 DEF Interrupted
<1>4a. ASSUME NEW p \in Procs, CheckStale(p)
      PROVE  OrderInv'
  BY <1>4a DEF CheckStale
<1>5. ASSUME NEW p \in Procs, CheckOk(p)
      PROVE  OrderInv'
  <2>1. cur[p] \in Paths /\ pc[p] = "check" /\ fd[p] \in Inodes
    BY <1>5 DEF CheckOk, StepInv
  <2>2. fds' = [fds EXCEPT ![p][cur[p]] = fd[p]]
    BY <1>5 DEF CheckOk
  <2>3. \A q \in Procs : q # p =>
          pc'[q] = pc[q] /\ cur'[q] = cur[q] /\ todo'[q] = todo[q] /\ fds'[q] = fds[q]
    BY <1>5 DEF CheckOk
  <2>4. pc'[p] \in {"locked", "open"}
    BY <1>5 DEF CheckOk
  <2>5. ASSUME pc'[p] = "open"
        PROVE  /\ cur'[p] \in todo'[p]
               /\ \A z \in todo'[p] : cur'[p] <= z
               /\ \A y \in Paths : fds'[p][y] # None => y < cur'[p]
    <3>1. todo'[p] = todo[p] \ {cur[p]}
      BY <1>5 DEF CheckOk
    <3>2. IsFirst(cur'[p], todo[p] \ {cur[p]}) /\ cur'[p] \in Paths
      BY <1>5, <2>5 DEF CheckOk
    <3>3. cur[p] \in Nat /\ cur'[p] \in Nat /\ cur[p] <= cur'[p] /\ cur[p] # cur'[p]
      BY <2>1, <3>2 DEF IsFirst
    <3>4. \A y \in Paths : fds'[p][y] # None => y = cur[p] \/ y < cur[p]
      BY <2>1, <2>2
    <3>5. cur'[p] \in todo'[p] /\ \A z \in todo'[p] : cur'[p] <= z
      BY <3>1, <3>2 DEF IsFirst
    <3>6. \A y \in Paths : fds'[p][y] # None => y < cur'[p]
      <4> SUFFICES ASSUME NEW y \in Paths, fds'[p][y] # None
                   PROVE  y < cur'[p]
        OBVIOUS
      <4>1. y \in Nat /\ (y = cur[p] \/ y < cur[p])
        BY <3>4
      <4>2. ASSUME NEW a \in Nat, NEW b \in Nat, NEW c \in Nat,
                   a = b \/ a < b, b <= c, b # c
            PROVE  a < c
        BY <4>2
      <4> HIDE DEF TypeOK, OrderInv, Locking
      <4> QED
        BY <3>3, <4>1, <4>2
    <3> QED
      BY <3>5, <3>6
  <2>6. ASSUME NEW q \in Procs, q # p
        PROVE  /\ pc'[q] = "idle" => \A y \in Paths : fds'[q][y] = None
               /\ Locking(q)' =>
                     /\ cur'[q] \in todo'[q]
                     /\ \A z \in todo'[q] : cur'[q] <= z
                     /\ \A y \in Paths : fds'[q][y] # None => y < cur'[q]
    <3>1. /\ pc'[q] = pc[q] /\ cur'[q] = cur[q] /\ todo'[q] = todo[q] /\ fds'[q] = fds[q]
          /\ Locking(q)' <=> Locking(q)
      BY <2>3, <2>6
    <3> HIDE DEF Locking
    <3> QED
      BY <3>1
  <2>7. /\ pc'[p] # "idle"
        /\ Locking(p)' => pc'[p] = "open"
    BY <2>4
  <2> QED
    BY <2>5, <2>6, <2>7
<1>6. ASSUME NEW p \in Procs, SetDeletion(p) \/ Unlock(p) \/ MarkStale(p)
      PROVE  OrderInv'
  BY <1>6, ZenonT(60) DEF SetDeletion, Unlock, MarkStale
<1>7. ASSUME NEW p \in Procs, UnlockNext(p)
      PROVE  OrderInv'
  BY <1>7 DEF UnlockNext
<1>8. ASSUME NEW p \in Procs, CloseFd(p)
      PROVE  OrderInv'
  BY <1>8 DEF CloseFd
<1>8a. ASSUME NEW p \in Procs, UnlockDone(p)
      PROVE  OrderInv'
  BY <1>8a DEF UnlockDone, Acquired
<1>9. ASSUME NEW p \in Procs, Crash(p)
      PROVE  OrderInv'
  BY <1>9 DEF Crash, Exit
<1>10. CASE UNCHANGED vars
  BY <1>10 DEF vars
<1>11. ASSUME NEW p \in Procs, Proc(p)
       PROVE  OrderInv'
  <2> HIDE DEF OrderInv
  <2> QED
    BY <1>1, <1>2, <1>3, <1>4, <1>4a, <1>5, <1>6, <1>7, <1>8, <1>8a, <1>9, <1>11
    DEF Proc, Advance
<1> QED
  BY <1>10, <1>11 DEF Next

\* The owner of the mapping is the one process that owns the lock.
LEMMA OwnerUnique ==
    MutualExclusion =>
        \A x \in Paths :
            /\ OwnerOf(x) \in Procs \cup {None}
            /\ \A p \in Procs : OwnerOf(x) = p <=> Owns(p, x)
<1> SUFFICES ASSUME MutualExclusion, NEW x \in Paths
             PROVE  /\ OwnerOf(x) \in Procs \cup {None}
                    /\ \A p \in Procs : OwnerOf(x) = p <=> Owns(p, x)
  OBVIOUS
<1>1. CASE \E q \in Procs : Owns(q, x)
  <2>1. OwnerOf(x) \in Procs /\ Owns(OwnerOf(x), x)
    BY <1>1 DEF OwnerOf
  <2> QED
    BY <2>1 DEF MutualExclusion
<1>2. CASE ~ \E q \in Procs : Owns(q, x)
  BY <1>2, PathLocksAssumption DEF OwnerOf
<1> QED
  BY <1>1, <1>2

\* A step of PathLocks changes who owns what as a step of the abstract lock
\* does.
LEMMA NextLock ==
    ASSUME LockInv, LockInv', OrderInv, [Next]_vars
    PROVE  [Lock!Next]_([x \in Paths |-> OwnerOf(x)])
<1> DEFINE own == [x \in Paths |-> OwnerOf(x)]
<1> USE PathLocksAssumption
<1>0. MutualExclusion /\ MutualExclusion'
  BY InvImpliesMutex, PTL
<1>a. \A x \in Paths :
        /\ OwnerOf(x) \in Procs \cup {None}
        /\ \A p \in Procs : OwnerOf(x) = p <=> Owns(p, x)
  BY <1>0, OwnerUnique
<1>b. \A x \in Paths :
        /\ OwnerOf(x)' \in Procs \cup {None}
        /\ \A p \in Procs : OwnerOf(x)' = p <=> Owns(p, x)'
  <2> SUFFICES ASSUME NEW x \in Paths
               PROVE  /\ OwnerOf(x)' \in Procs \cup {None}
                      /\ \A p \in Procs : OwnerOf(x)' = p <=> Owns(p, x)'
    OBVIOUS
  <2>1. CASE \E q \in Procs : Owns(q, x)'
    <3>1. OwnerOf(x)' \in Procs /\ \E q \in Procs : q = OwnerOf(x)' /\ Owns(q, x)'
      BY <2>1 DEF OwnerOf
    <3> QED
      BY <1>0, <3>1 DEF MutualExclusion
  <2>2. CASE ~ \E q \in Procs : Owns(q, x)'
    BY <2>2 DEF OwnerOf
  <2> QED
    BY <2>1, <2>2
<1>c. ASSUME \A p \in Procs, x \in Paths : Owns(p, x)' <=> Owns(p, x)
      PROVE  own' = own
  <2>1. \A x \in Paths : OwnerOf(x)' = OwnerOf(x)
    BY <1>a, <1>b, <1>c
  <2> QED
    BY <2>1
<1>d. ASSUME NEW p \in Procs, NEW S \in SUBSET Paths,
             \A x \in S : Owns(p, x) /\ ~Owns(p, x)',
             \A q \in Procs, x \in Paths :
                 q # p \/ x \notin S => (Owns(q, x)' <=> Owns(q, x))
      PROVE  Lock!Next
  <2>1. \A x \in S : OwnerOf(x) = p /\ OwnerOf(x)' = None
    <3> SUFFICES ASSUME NEW x \in S
                 PROVE  OwnerOf(x) = p /\ OwnerOf(x)' = None
      OBVIOUS
    <3>1. OwnerOf(x) = p
      BY <1>a, <1>d
    <3>2. ASSUME NEW q \in Procs
          PROVE  ~Owns(q, x)'
      <4>1. q # p => ~Owns(q, x)
        BY <1>a, <3>1
      <4> QED
        BY <1>d, <4>1
    <3> QED
      BY <1>b, <3>1, <3>2
  <2>2. \A x \in Paths \ S : OwnerOf(x)' = OwnerOf(x)
    BY <1>a, <1>b, <1>d
  <2>3. Lock!Release(p, S)
    BY <2>1, <2>2 DEF Lock!Release
  <2> QED
    BY <2>3 DEF Lock!Next
<1>1. ASSUME NEW p \in Procs, CheckOk(p)
      PROVE  Lock!Next
  <2>1. PICK c \in Paths : c = cur[p]
    BY <1>1 DEF CheckOk, LockInv, StepInv
  <2>2. fd[p] \in Inodes /\ Locking(p) /\ pc[p] = "check"
    BY <1>1 DEF CheckOk, LockInv, StepInv, Locking
  <2>3. Owns(p, c)'
    BY <1>1, <2>1, <2>2 DEF CheckOk, LockInv, TypeOK, Owns
  <2>4. \A q \in Procs, x \in Paths : q # p \/ x # c => (Owns(q, x)' <=> Owns(q, x))
    BY <1>1, <2>1, <2>2 DEF CheckOk, LockInv, TypeOK, Owns
  <2>5. \A y \in Paths : Owns(p, y) => y < c
    BY <2>1, <2>2 DEF OrderInv, Owns
  <2>6. \A q \in Procs : ~Owns(q, c)
    <3>1. ASSUME NEW q \in Procs, q # p, Owns(q, c)
          PROVE  FALSE
      BY <1>0, <2>3, <2>4, <3>1 DEF MutualExclusion
    <3>2. ~Owns(p, c)
      BY <2>5
    <3> QED
      BY <3>1, <3>2
  <2>7. OwnerOf(c) = None /\ OwnerOf(c)' = p
    BY <1>a, <1>b, <2>3, <2>6
  <2>8. \A x \in Paths : x # c => OwnerOf(x)' = OwnerOf(x)
    BY <1>a, <1>b, <2>4
  <2>9. \A y \in Paths : OwnerOf(y) = p => y < c
    BY <1>a, <2>5
  <2>10. Lock!Acquire(p, c)
    BY <2>7, <2>8, <2>9 DEF Lock!Acquire
  <2> QED
    BY <2>10 DEF Lock!Next
<1>2. ASSUME NEW p \in Procs, UnlockNext(p)
      PROVE  Lock!Next
  <2>1. PICK x \in Paths : IsFirst(x, Acquired(p)) /\ cur' = [cur EXCEPT ![p] = x]
    BY <1>2 DEF UnlockNext
  <2>2. Owns(p, x) /\ ~Owns(p, x)'
    BY <1>2, <2>1 DEF UnlockNext, LockInv, TypeOK, Owns, IsFirst, Acquired
  <2>3. \A q \in Procs, y \in Paths : q # p \/ y # x => (Owns(q, y)' <=> Owns(q, y))
    BY <1>2, <2>1 DEF UnlockNext, LockInv, TypeOK, Owns
  <2>4. \A y \in {x} : Owns(p, y) /\ ~Owns(p, y)'
    BY <2>2
  <2>5. \A q \in Procs, y \in Paths : q # p \/ y \notin {x} => (Owns(q, y)' <=> Owns(q, y))
    BY <2>3
  <2>6. {x} \in SUBSET Paths
    OBVIOUS
  <2> QED
    BY <1>d, <2>4, <2>5, <2>6, Zenon
<1>3. ASSUME NEW p \in Procs, Crash(p)
      PROVE  Lock!Next
  <2> DEFINE S == {x \in Paths : Owns(p, x)}
  <2>1. \A x \in S : Owns(p, x) /\ ~Owns(p, x)'
    BY <1>3 DEF Crash, Exit, LockInv, TypeOK, Owns
  <2>2. \A q \in Procs, x \in Paths : q # p \/ x \notin S => (Owns(q, x)' <=> Owns(q, x))
    BY <1>3 DEF Crash, Exit, LockInv, TypeOK, Owns
  <2> QED
    BY <1>d, <2>1, <2>2
<1>4. ASSUME NEW p \in Procs,
             \/ \E S \in SUBSET Paths, w \in BOOLEAN : LockPaths(p, S, w)
             \/ OpenLockFile(p) \/ TryLockOk(p) \/ TryLockBusy(p) \/ Granted(p)
             \/ CheckStale(p) \/ Interrupted(p) \/ SetDeletion(p) \/ Unlock(p)
             \/ MarkStale(p) \/ UnlockDone(p)
      PROVE  own' = own
  <2>1. fds' = fds
    BY <1>4 DEF LockPaths, OpenLockFile, TryLockOk, TryLockBusy, Granted,
                CheckStale, Interrupted, SetDeletion, Unlock, MarkStale, UnlockDone
  <2>2. \A q \in Procs \ {p} : pc'[q] = pc[q] /\ cur'[q] = cur[q]
    BY <1>4 DEF LockPaths, OpenLockFile, TryLockOk, TryLockBusy, Granted,
                CheckStale, Interrupted, SetDeletion, Unlock, MarkStale, UnlockDone,
                LockInv, TypeOK
  <2>3. \/ pc[p] \notin {"mark", "close"} /\ pc'[p] \notin {"mark", "close"}
        \/ pc[p] = "mark" /\ pc'[p] = "close" /\ cur'[p] = cur[p]
    BY <1>4 DEF LockPaths, OpenLockFile, TryLockOk, TryLockBusy, Granted,
                CheckStale, Interrupted, SetDeletion, Unlock, MarkStale, UnlockDone,
                LockInv, TypeOK
  <2>4. \A q \in Procs, x \in Paths : Owns(q, x)' <=> Owns(q, x)
    BY <2>1, <2>2, <2>3 DEF Owns
  <2> QED
    BY <1>c, <2>4
<1>5. ASSUME NEW p \in Procs, CloseFd(p)
      PROVE  own' = own
  <2>1. \A q \in Procs, x \in Paths : Owns(q, x)' <=> Owns(q, x)
    BY <1>5 DEF CloseFd, LockInv, TypeOK, StepInv, Owns
  <2> QED
    BY <1>c, <2>1
<1>6. CASE UNCHANGED vars
  <2>1. \A q \in Procs, x \in Paths : Owns(q, x)' <=> Owns(q, x)
    BY <1>6 DEF vars, Owns
  <2> QED
    BY <1>c, <2>1
<1> QED
  BY <1>1, <1>2, <1>3, <1>4, <1>5, <1>6 DEF Next, Proc, Advance

\* lockPaths and unlock implement an atomic lock per path that is acquired in
\* ascending order: every system call of the protocol is an acquisition of a
\* free path, a release, or invisible to the callers.
THEOREM LockRefinement ==
    Spec => ImplementsLock
<1>1. Init => LockInv /\ OrderInv
  BY InitInv, PathLocksAssumption DEF Init, OrderInv, Locking
<1>2. LockInv /\ OrderInv /\ [Next]_vars => LockInv' /\ OrderInv'
  BY NextInv, NextOrder DEF LockInv
<1>3. Init => Lock!Init
  BY PathLocksAssumption DEF Init, Lock!Init, OwnerOf, Owns
<1>4. LockInv /\ LockInv' /\ OrderInv /\ [Next]_vars
        => [Lock!Next]_([x \in Paths |-> OwnerOf(x)])
  BY NextLock
<1> QED
  BY <1>1, <1>2, <1>3, <1>4, PTL DEF Spec, ImplementsLock, Lock!Spec
=============================================================================
