------------------------ MODULE GarbageCollectorProofs ------------------------
(***************************************************************************)
(* Proofs about GarbageCollector, for every number of processes, threads   *)
(* and store paths and every reference graph.                              *)
(*                                                                         *)
(* The safety properties are not inductive.  The argument: a path that a   *)
(* process relies on is in its temproots file (ThreadInv); once the        *)
(* collector has read that file, what is in it is a root the collector     *)
(* knows, or slipped through a gap (KnownInv); a walk condemns only paths  *)
(* that are no known roots, and a root that arrives later is acknowledged  *)
(* while condemned only through a gap (DoomInv); only condemned paths are  *)
(* deleted.  IdleInv and SockInv tie the steps of the collector, the       *)
(* server and the threads together.                                        *)
(***************************************************************************)
EXTENDS GarbageCollector, TLAPS

\* The collector is past findTempRoots (for the file of process P).
HasRead(P) ==
    /\ gpc \in {"temproots", "scan", "visit", "delete", "unlink", "close", "unlock"}
    /\ P \notin unread

\* The lock, the walk and the victim at each step of the collector.
IdleInv ==
    /\ exclusive <=> gpc # "idle"
    /\ exclusive => shared = {}
    /\ gpc # "temproots" => unread = {}
    /\ gpc \in {"idle", "socket", "roots", "temproots", "scan", "close", "unlock"} =>
            visited = {} /\ queue = {}
    /\ gpc # "unlink" => victim = None
    /\ gpc = "unlink" => victim \in dead
    /\ gpc = "visit" => start \in Paths
    /\ gpc = "visit" => queue \subseteq visited

\* A message, a reply or an acknowledgement belongs to the thread that has the
\* socket locked, is about the path of that thread, and there is one at most.
SockInv ==
    /\ \A P \in Procs : sock[P] = "open" => listening
    /\ \A P \in Procs : (msg[P] # None \/ reply[P] # None) =>
            sock[P] = "open" /\ ~ack[P]
    /\ \A P \in Procs : msg[P] # None => reply[P] = None
    /\ \A P \in Procs : reply[P] # None => reply[P] \in tempRoots
    /\ \A t \in Threads : pc[t] \in {"send", "ack"} <=> user[ProcOf[t]] = t
    /\ \A t \in Threads : pc[t] = "ack" =>
            /\ msg[ProcOf[t]] \in {None, path[t]}
            /\ reply[ProcOf[t]] \in {None, path[t]}
    /\ \A P \in Procs : (msg[P] # None \/ reply[P] # None \/ ack[P]) =>
            \E t \in Threads : ProcOf[t] = P /\ user[P] = t /\ pc[t] = "ack"
    /\ listening => gpc \notin {"idle", "socket", "unlock"}

\* What a thread or a process relies on is in its temproots file, and a link that
\* was made for a valid path is a link.
ThreadInv ==
    /\ promised \subseteq perm
    /\ \A t \in Threads : pc[t] # "idle" => path[t] \in Paths
    /\ \A t \in Threads : pc[t] \in {"rooted", "register"} => path[t] \in file[ProcOf[t]]
    /\ \A P \in Procs : inUse[P] \subseteq file[P]
    /\ \A t \in Threads : pc[t] = "register" => path[t] \in disk \cup exposed

\* The collector knows the roots of threads that are past the lock, of the files
\* it has read, and the permanent ones, apart from the exposed paths.
KnownInv ==
    /\ \A t \in Threads : exclusive /\ PastLock(t) => path[t] \in tempRoots \cup exposed
    /\ \A t \in Threads : exclusive /\ pc[t] = "write_locked" => path[t] \in exposed
    /\ \A P \in Procs : HasRead(P) => file[P] \subseteq tempRoots \cup exposed
    /\ gpc \in {"temproots", "scan", "visit", "delete", "unlink"} =>
          \A p \in promised : p \in roots \cup tempRoots \cup exposed
                          \/ \E P \in unread : p \in file[P]

\* No path that somebody relies on is condemned, apart from the exposed paths.
DoomInv ==
    /\ \A t \in Threads : PastLock(t) /\ exclusive /\ path[t] \in Doomed => path[t] \in exposed
    /\ \A P \in Procs : file[P] \cap Doomed \subseteq exposed
    /\ promised \cap Doomed \subseteq exposed
    /\ victim \in valid => victim \in exposed

\* The inductive invariant.
GCInv ==
    /\ TypeOK /\ IdleInv /\ SockInv /\ ThreadInv /\ KnownInv /\ DoomInv
    /\ Closed /\ Protected /\ ValidOnDisk

-----------------------------------------------------------------------------
\* Every step keeps the types of the variables.
LEMMA NextType ==
    ASSUME TypeOK, IdleInv, ThreadInv, [Next]_vars
    PROVE  TypeOK'
<1> USE GCAssumption DEF TypeOK, ThreadSteps, GCSteps, permVars, storeVars, lockVars, procVars,
           threadVars, sockVars, gcVars
<1>1. ASSUME NEW t \in Threads, NEW p \in Paths, AddTempRoot(t, p)
      PROVE  TypeOK'
  BY <1>1 DEF AddTempRoot, Goto
<1>2. ASSUME NEW t \in Threads, TryGCLock(t)
      PROVE  TypeOK'
  BY <1>2 DEF TryGCLock, Goto
<1>3. ASSUME NEW t \in Threads, Connect(t)
      PROVE  TypeOK'
  BY <1>3 DEF Connect, Goto, Restart
<1>4. ASSUME NEW t \in Threads, Send(t)
      PROVE  TypeOK'
  BY <1>4 DEF Send, Goto, Restart
<1>5. ASSUME NEW t \in Threads, RecvAck(t)
      PROVE  TypeOK'
  <2>1. /\ sock' \in [Procs -> {"none", "open", "dead"}]
        /\ user' \in [Procs -> Threads \cup {None}]
        /\ pc' \in [Threads -> ThreadSteps]
    BY <1>5, SMTT(30) DEF RecvAck, Goto, Restart
  <2>2. ack' \in [Procs -> BOOLEAN]
    BY <1>5, ZenonT(60) DEF RecvAck
  <2> QED
    BY <1>5, <2>1, <2>2 DEF RecvAck
<1>6. ASSUME NEW t \in Threads, WriteRoot(t)
      PROVE  TypeOK'
  BY <1>6 DEF WriteRoot, Goto, ThreadInv
<1>7. ASSUME NEW t \in Threads, UsePath(t)
      PROVE  TypeOK'
  BY <1>7 DEF UsePath, Goto, Done
<1>8. ASSUME NEW t \in Threads, WritePath(t)
      PROVE  TypeOK'
  BY <1>8 DEF WritePath, Goto, ThreadInv
<1>9. ASSUME NEW t \in Threads, RegisterPath(t)
      PROVE  TypeOK'
  BY <1>9 DEF RegisterPath, Goto, Done, ThreadInv
<1>10. ASSUME NEW t \in Threads, AddPermRoot(t)
      PROVE  TypeOK'
  BY <1>10 DEF AddPermRoot, Goto, Done, ThreadInv
<1>11. ASSUME NEW p \in Paths, RemovePermRoot(p)
      PROVE  TypeOK'
  BY <1>11 DEF RemovePermRoot
<1>12. ASSUME NEW P \in Procs, ProcExit(P)
      PROVE  TypeOK'
  BY <1>12 DEF ProcExit
<1>13. ASSUME NEW P \in Procs, ServerRecv(P)
      PROVE  TypeOK'
  BY <1>13 DEF ServerRecv
<1>14. ASSUME NEW P \in Procs, ServerAck(P)
      PROVE  TypeOK'
  BY <1>14 DEF ServerAck
<1>15. ASSUME NEW T \in Targets, GCLock(T)
      PROVE  TypeOK'
  BY <1>15 DEF GCLock, PastLock, ThreadInv
<1>16. ASSUME OpenServer
      PROVE  TypeOK'
  BY <1>16 DEF OpenServer
<1>17. ASSUME FindRoots
      PROVE  TypeOK'
  BY <1>17 DEF FindRoots
<1>18. ASSUME NEW P \in Procs, ReadTempRoots(P)
      PROVE  TypeOK'
  BY <1>18 DEF ReadTempRoots
<1>19. ASSUME NEW p \in Paths, NextEntry(p)
      PROVE  TypeOK'
  BY <1>19 DEF NextEntry
<1>20. ASSUME NEW p \in Paths, VisitAlive(p)
      PROVE  TypeOK'
  BY <1>20 DEF VisitAlive, EndWalk, Kept, AfterWalk, IdleInv
<1>21. ASSUME NEW p \in Paths, VisitDead(p)
      PROVE  TypeOK'
  BY <1>21 DEF VisitDead
<1>22. ASSUME NEW p \in Paths, VisitRoot(p)
      PROVE  TypeOK'
  <2>1. ClosureOf(p) \subseteq Paths
    BY DEF ClosureOf
  <2> QED
    BY <1>22, <2>1 DEF VisitRoot, EndWalk, Kept, AfterWalk, IdleInv
<1>23. ASSUME NEW p \in Paths, VisitGarbage(p)
      PROVE  TypeOK'
  <2>1. CASE p \in valid
    <3>1. PICK R \in SUBSET Paths :
            /\ referrers' = referrers \cup {<<p, R>>}
            /\ visited' = visited \cup R
            /\ queue' = (queue \ {p}) \cup (R \ visited)
      BY <1>23, <2>1 DEF VisitGarbage
    <3> QED
      BY <1>23, <3>1 DEF VisitGarbage
  <2>2. CASE p \notin valid
    BY <1>23, <2>2 DEF VisitGarbage
  <2> QED
    BY <2>1, <2>2
<1>24. ASSUME BeginDelete
      PROVE  TypeOK'
  BY <1>24 DEF BeginDelete
<1>25. ASSUME NEW p \in Paths, Invalidate(p)
      PROVE  TypeOK'
  BY <1>25 DEF Invalidate
<1>26. ASSUME Unlink
      PROVE  TypeOK'
  BY <1>26 DEF Unlink, EndWalk, Kept
<1>27. ASSUME EndDelete
      PROVE  TypeOK'
  BY <1>27 DEF EndDelete, EndWalk, Kept
<1>28. ASSUME EndScan
      PROVE  TypeOK'
  BY <1>28 DEF EndScan, EndWalk, Kept
<1>29. ASSUME CloseServer
      PROVE  TypeOK'
  BY <1>29 DEF CloseServer, ServerGone
<1>30. ASSUME GCUnlock
      PROVE  TypeOK'
  BY <1>30 DEF GCUnlock, GCGone
<1>31. ASSUME GCKilled
      PROVE  TypeOK'
  BY <1>31 DEF GCKilled, GCGone, ServerGone
<1>32. CASE UNCHANGED vars
  BY <1>32 DEF vars, TypeOK
<1> QED
  BY ZenonT(60), <1>1, <1>2, <1>3, <1>4, <1>5, <1>6, <1>7, <1>8, <1>9, <1>10, <1>11,
     <1>12, <1>13, <1>14, <1>15, <1>16, <1>17, <1>18, <1>19, <1>20, <1>21,
     <1>22, <1>23, <1>24, <1>25, <1>26, <1>27, <1>28, <1>29, <1>30, <1>31,
     <1>32
  DEF Next, Client, Rooting, Server, Collect

\* The initial states satisfy the invariant.
LEMMA InitInv ==
    ASSUME Init PROVE GCInv
<1> USE GCAssumption DEF Init
<1>1. TypeOK
  BY DEF TypeOK, ThreadSteps, GCSteps
<1>2. IdleInv /\ SockInv /\ ThreadInv
  BY DEF IdleInv, SockInv, ThreadInv
<1>3. KnownInv /\ DoomInv
  BY DEF KnownInv, DoomInv, HasRead, PastLock, Doomed
<1>4. Closed /\ Protected /\ ValidOnDisk
  BY DEF Closed, Protected, ValidOnDisk
<1> QED
  BY <1>1, <1>2, <1>3, <1>4 DEF GCInv

\* Every step keeps the invariant: one step per action, and under it one for the
\* conjuncts that the action leaves alone and one per conjunct it can disturb.
LEMMA NextInv ==
    ASSUME GCInv, [Next]_vars
    PROVE  GCInv'
<1> USE GCAssumption DEF permVars, storeVars, lockVars, procVars, threadVars, sockVars, gcVars
<1>0. /\ TypeOK /\ IdleInv /\ SockInv /\ ThreadInv /\ KnownInv /\ DoomInv
      /\ Closed /\ Protected /\ ValidOnDisk
      /\ TypeOK'
  BY NextType DEF GCInv
<1> USE <1>0
<1>a. ASSUME IdleInv', SockInv', ThreadInv', KnownInv', DoomInv', Closed',
             Protected', ValidOnDisk'
      PROVE  GCInv'
  BY <1>a DEF GCInv
<1>1. ASSUME NEW t \in Threads, NEW p \in Paths, AddTempRoot(t, p)
      PROVE  GCInv'
  <2> USE DEF AddTempRoot, Goto
  <2>1. IdleInv' /\ Closed' /\ Protected' /\ ValidOnDisk'
    BY <1>1 DEF IdleInv, Closed, Protected, ValidOnDisk
  <2>2. SockInv'
    BY <1>1 DEF TypeOK, SockInv
  <2>3. ThreadInv'
    BY <1>1 DEF TypeOK, ThreadInv
  <2>4. KnownInv'
    BY <1>1 DEF TypeOK, KnownInv, PastLock, HasRead, SockInv
  <2>5. DoomInv'
    BY <1>1 DEF TypeOK, DoomInv, PastLock, Doomed, IdleInv
  <2> QED
    BY <1>a, <2>1, <2>2, <2>3, <2>4, <2>5
<1>2. ASSUME NEW t \in Threads, TryGCLock(t)
      PROVE  GCInv'
  <2> USE DEF TryGCLock, Goto
  <2>1. Closed' /\ Protected' /\ ValidOnDisk'
    BY <1>2 DEF Closed, Protected, ValidOnDisk
  <2>2. IdleInv'
    BY <1>2 DEF TypeOK, IdleInv
  <2>3. SockInv'
    BY <1>2 DEF TypeOK, SockInv
  <2>4. ThreadInv'
    BY <1>2 DEF TypeOK, ThreadInv
  <2>5. KnownInv'
    BY <1>2 DEF TypeOK, KnownInv, PastLock, HasRead, SockInv
  <2>6. DoomInv'
    BY <1>2 DEF TypeOK, DoomInv, PastLock, Doomed, IdleInv
  <2> QED
    BY <1>a, <2>1, <2>2, <2>3, <2>4, <2>5, <2>6
<1>3. ASSUME NEW t \in Threads, Connect(t)
      PROVE  GCInv'
  <2> USE DEF Connect, Goto, Restart
  <2>1. IdleInv' /\ Closed' /\ Protected' /\ ValidOnDisk'
    BY <1>3 DEF IdleInv, Closed, Protected, ValidOnDisk
  <2>2. SockInv'
    BY <1>3, SMTT(30) DEF TypeOK, SockInv
  <2>3. ThreadInv'
    BY <1>3 DEF TypeOK, ThreadInv
  <2>4. KnownInv'
    BY <1>3 DEF TypeOK, KnownInv, PastLock, HasRead, SockInv
  <2>5. DoomInv'
    BY <1>3 DEF TypeOK, DoomInv, PastLock, Doomed, IdleInv
  <2> QED
    BY <1>a, <2>1, <2>2, <2>3, <2>4, <2>5
<1>4. ASSUME NEW t \in Threads, Send(t)
      PROVE  GCInv'
  <2> USE DEF Send, Goto, Restart
  <2>1. IdleInv' /\ Closed' /\ Protected' /\ ValidOnDisk'
    BY <1>4 DEF IdleInv, Closed, Protected, ValidOnDisk
  <2>2. SockInv'
    BY <1>4, SMTT(60) DEF TypeOK, SockInv
  <2>3. ThreadInv'
    BY <1>4 DEF TypeOK, ThreadInv
  <2>4. KnownInv'
    BY <1>4 DEF TypeOK, KnownInv, PastLock, HasRead, SockInv
  <2>5. DoomInv'
    BY <1>4 DEF TypeOK, DoomInv, PastLock, Doomed, IdleInv, SockInv
  <2> QED
    BY <1>a, <2>1, <2>2, <2>3, <2>4, <2>5
<1>5. ASSUME NEW t \in Threads, RecvAck(t)
      PROVE  GCInv'
  <2> USE DEF RecvAck, Goto, Restart
  <2>1. IdleInv' /\ Closed' /\ Protected' /\ ValidOnDisk'
    BY <1>5 DEF IdleInv, Closed, Protected, ValidOnDisk
  <2>2. SockInv'
    <3>1. (\A P \in Procs : sock[P] = "open" => listening)'
      BY <1>5 DEF TypeOK, SockInv
    <3>2. (\A P \in Procs : (msg[P] # None \/ reply[P] # None) => sock[P] = "open" /\ ~ack[P])'
      BY <1>5 DEF TypeOK, SockInv
    <3>3. (\A P \in Procs : msg[P] # None => reply[P] = None)'
      BY <1>5 DEF TypeOK, SockInv
    <3>4. (\A P \in Procs : reply[P] # None => reply[P] \in tempRoots)'
      BY <1>5 DEF TypeOK, SockInv
    <3>5. (\A u \in Threads : pc[u] \in {"send", "ack"} <=> user[ProcOf[u]] = u)'
      BY <1>5 DEF TypeOK, SockInv
    <3>6. (\A u \in Threads : pc[u] = "ack" =>
            /\ msg[ProcOf[u]] \in {None, path[u]}
            /\ reply[ProcOf[u]] \in {None, path[u]})'
      BY <1>5 DEF TypeOK, SockInv
    <3>7. (\A P \in Procs : (msg[P] # None \/ reply[P] # None \/ ack[P]) =>
            \E u \in Threads : ProcOf[u] = P /\ user[P] = u /\ pc[u] = "ack")'
      BY <1>5 DEF TypeOK, SockInv
    <3>8. (listening => gpc \notin {"idle", "socket", "unlock"})'
      BY <1>5 DEF TypeOK, SockInv
    <3> QED
      BY <3>1, <3>2, <3>3, <3>4, <3>5, <3>6, <3>7, <3>8 DEF SockInv
  <2>3. ThreadInv'
    BY <1>5 DEF TypeOK, ThreadInv
  <2>4. KnownInv'
    BY <1>5 DEF TypeOK, KnownInv, PastLock, HasRead, SockInv
  <2>5. DoomInv'
    BY <1>5 DEF TypeOK, DoomInv, PastLock, Doomed, IdleInv
  <2> QED
    BY <1>a, <2>1, <2>2, <2>3, <2>4, <2>5
<1>6. ASSUME NEW t \in Threads, WriteRoot(t)
      PROVE  GCInv'
  <2> USE DEF WriteRoot, Goto
  <2>1. Closed' /\ Protected' /\ ValidOnDisk'
    BY <1>6 DEF Closed, Protected, ValidOnDisk
  <2>2. IdleInv'
    BY <1>6 DEF TypeOK, IdleInv
  <2>3. SockInv'
    BY <1>6 DEF TypeOK, SockInv
  <2>4. ThreadInv'
    BY <1>6 DEF TypeOK, ThreadInv
  <2>5. KnownInv'
    BY <1>6 DEF TypeOK, KnownInv, PastLock, HasRead, SockInv, ThreadInv, IdleInv
  <2>6. DoomInv'
    BY <1>6 DEF TypeOK, DoomInv, PastLock, Doomed, IdleInv
  <2> QED
    BY <1>a, <2>1, <2>2, <2>3, <2>4, <2>5, <2>6
<1>7. ASSUME NEW t \in Threads, UsePath(t)
      PROVE  GCInv'
  <2> USE DEF UsePath, Goto, Done
  <2>1. IdleInv' /\ Closed' /\ ValidOnDisk'
    BY <1>7 DEF IdleInv, Closed, ValidOnDisk
  <2>2. SockInv'
    BY <1>7 DEF TypeOK, SockInv
  <2>3. ThreadInv'
    BY <1>7 DEF TypeOK, ThreadInv
  <2>4. KnownInv'
    BY <1>7 DEF TypeOK, KnownInv, PastLock, HasRead, SockInv
  <2>5. DoomInv'
    BY <1>7 DEF TypeOK, DoomInv, PastLock, Doomed, IdleInv
  <2>6. Protected'
    BY <1>7 DEF TypeOK, Protected, ValidOnDisk
  <2> QED
    BY <1>a, <2>1, <2>2, <2>3, <2>4, <2>5, <2>6
<1>8. ASSUME NEW t \in Threads, WritePath(t)
      PROVE  GCInv'
  <2> USE DEF WritePath, Goto
  <2>1. IdleInv' /\ Closed'
    BY <1>8 DEF IdleInv, Closed
  <2>2. SockInv'
    BY <1>8 DEF TypeOK, SockInv
  <2>3. ThreadInv'
    BY <1>8 DEF TypeOK, ThreadInv
  <2>4. KnownInv'
    BY <1>8 DEF TypeOK, KnownInv, PastLock, HasRead, SockInv
  <2>5. DoomInv'
    BY <1>8 DEF TypeOK, DoomInv, PastLock, Doomed, IdleInv
  <2>6. Protected'
    BY <1>8 DEF TypeOK, Protected
  <2>7. ValidOnDisk'
    BY <1>8 DEF TypeOK, ValidOnDisk
  <2> QED
    BY <1>a, <2>1, <2>2, <2>3, <2>4, <2>5, <2>6, <2>7
<1>9. ASSUME NEW t \in Threads, RegisterPath(t)
      PROVE  GCInv'
  <2> USE DEF RegisterPath, Goto, Done
  <2>1. IdleInv'
    BY <1>9 DEF IdleInv
  <2>2. SockInv'
    BY <1>9 DEF TypeOK, SockInv
  <2>3. ThreadInv'
    BY <1>9 DEF TypeOK, ThreadInv
  <2>4. KnownInv'
    BY <1>9 DEF TypeOK, KnownInv, PastLock, HasRead, SockInv
  <2>5. DoomInv'
    BY <1>9 DEF TypeOK, DoomInv, PastLock, Doomed, IdleInv, ThreadInv
  <2>6. Closed'
    BY <1>9 DEF TypeOK, Closed
  <2>7. Protected'
    BY <1>9, SMTT(30) DEF TypeOK, Protected, ThreadInv
  <2>8. ValidOnDisk'
    BY <1>9 DEF TypeOK, ValidOnDisk, ThreadInv
  <2> QED
    BY <1>a, <2>1, <2>2, <2>3, <2>4, <2>5, <2>6, <2>7, <2>8
<1>10. ASSUME NEW t \in Threads, AddPermRoot(t)
      PROVE  GCInv'
  <2> USE DEF AddPermRoot, Goto, Done
  <2>1. IdleInv' /\ Closed' /\ ValidOnDisk'
    BY <1>10 DEF IdleInv, Closed, ValidOnDisk
  <2>2. SockInv'
    BY <1>10 DEF TypeOK, SockInv
  <2>3. ThreadInv'
    BY <1>10 DEF TypeOK, ThreadInv
  <2>4. KnownInv'
    BY <1>10 DEF TypeOK, KnownInv, PastLock, HasRead, SockInv, ThreadInv
  <2>5. DoomInv'
    BY <1>10 DEF TypeOK, DoomInv, PastLock, Doomed, IdleInv, ThreadInv
  <2>6. Protected'
    BY <1>10 DEF TypeOK, Protected, ValidOnDisk
  <2> QED
    BY <1>a, <2>1, <2>2, <2>3, <2>4, <2>5, <2>6
<1>11. ASSUME NEW p \in Paths, RemovePermRoot(p)
      PROVE  GCInv'
  <2> USE DEF RemovePermRoot
  <2>1. IdleInv' /\ SockInv' /\ ThreadInv' /\ Closed' /\ ValidOnDisk'
    BY <1>11 DEF IdleInv, SockInv, ThreadInv, Closed, ValidOnDisk
  <2>2. KnownInv'
    BY <1>11 DEF TypeOK, KnownInv, PastLock, HasRead, SockInv
  <2>3. DoomInv'
    BY <1>11 DEF TypeOK, DoomInv, PastLock, Doomed, IdleInv
  <2>4. Protected'
    BY <1>11 DEF TypeOK, Protected
  <2> QED
    BY <1>a, <2>1, <2>2, <2>3, <2>4
<1>12. ASSUME NEW P \in Procs, ProcExit(P)
      PROVE  GCInv'
  <2> USE DEF ProcExit
  <2>1. Closed'
    BY <1>12 DEF Closed
  <2>2. IdleInv'
    BY <1>12 DEF TypeOK, IdleInv
  <2>3. SockInv'
    <3>1. (\A Q \in Procs : sock[Q] = "open" => listening)'
      BY <1>12 DEF TypeOK, SockInv
    <3>2. (\A Q \in Procs : (msg[Q] # None \/ reply[Q] # None) => sock[Q] = "open" /\ ~ack[Q])'
      BY <1>12 DEF TypeOK, SockInv
    <3>3. (\A Q \in Procs : msg[Q] # None => reply[Q] = None)'
      BY <1>12 DEF TypeOK, SockInv
    <3>4. (\A Q \in Procs : reply[Q] # None => reply[Q] \in tempRoots)'
      BY <1>12 DEF TypeOK, SockInv
    <3>5. (\A u \in Threads : pc[u] \in {"send", "ack"} <=> user[ProcOf[u]] = u)'
      BY <1>12 DEF TypeOK, SockInv
    <3>6. (\A u \in Threads : pc[u] = "ack" =>
            /\ msg[ProcOf[u]] \in {None, path[u]}
            /\ reply[ProcOf[u]] \in {None, path[u]})'
      BY <1>12 DEF TypeOK, SockInv
    <3>7. (\A Q \in Procs : (msg[Q] # None \/ reply[Q] # None \/ ack[Q]) =>
            \E u \in Threads : ProcOf[u] = Q /\ user[Q] = u /\ pc[u] = "ack")'
      BY <1>12 DEF TypeOK, SockInv
    <3>8. (listening => gpc \notin {"idle", "socket", "unlock"})'
      BY <1>12 DEF TypeOK, SockInv
    <3> QED
      BY <3>1, <3>2, <3>3, <3>4, <3>5, <3>6, <3>7, <3>8 DEF SockInv
  <2>4. ThreadInv'
    BY <1>12 DEF TypeOK, ThreadInv
  <2>5. KnownInv'
    BY <1>12 DEF TypeOK, KnownInv, PastLock, HasRead, SockInv
  <2>6. DoomInv'
    BY <1>12 DEF TypeOK, DoomInv, PastLock, Doomed, IdleInv
  <2>7. Protected'
    BY <1>12 DEF TypeOK, Protected
  <2>8. ValidOnDisk'
    BY <1>12 DEF TypeOK, ValidOnDisk
  <2> QED
    BY <1>a, <2>1, <2>2, <2>3, <2>4, <2>5, <2>6, <2>7, <2>8
<1>13. ASSUME NEW P \in Procs, ServerRecv(P)
      PROVE  GCInv'
  <2> USE DEF ServerRecv
  <2>1. /\ IdleInv' /\ ThreadInv' /\ DoomInv' /\ Closed'
        /\ Protected' /\ ValidOnDisk'
    BY <1>13 DEF IdleInv, ThreadInv, DoomInv, PastLock, Doomed, Closed,
       Protected, ValidOnDisk
  <2>2. SockInv'
    BY <1>13 DEF TypeOK, SockInv
  <2>3. KnownInv'
    BY <1>13 DEF TypeOK, KnownInv, PastLock, HasRead, SockInv
  <2> QED
    BY <1>a, <2>1, <2>2, <2>3
<1>14. ASSUME NEW P \in Procs, ServerAck(P)
      PROVE  GCInv'
  <2> USE DEF ServerAck
  <2>1. IdleInv' /\ Closed'
    BY <1>14 DEF IdleInv, Closed
  <2>2. SockInv'
    BY <1>14 DEF TypeOK, SockInv
  <2>3. ThreadInv'
    BY <1>14 DEF TypeOK, ThreadInv
  <2>4. KnownInv'
    BY <1>14 DEF TypeOK, KnownInv, PastLock, HasRead, SockInv
  <2>5. DoomInv'
    BY <1>14 DEF TypeOK, DoomInv, PastLock, Doomed, IdleInv, SockInv
  <2>6. Protected'
    BY <1>14 DEF TypeOK, Protected
  <2>7. ValidOnDisk'
    BY <1>14 DEF TypeOK, ValidOnDisk
  <2> QED
    BY <1>a, <2>1, <2>2, <2>3, <2>4, <2>5, <2>6, <2>7
<1>15. ASSUME NEW T \in Targets, GCLock(T)
      PROVE  GCInv'
  <2> USE DEF GCLock
  <2>1. Closed'
    BY <1>15 DEF Closed
  <2>2. IdleInv'
    BY <1>15 DEF TypeOK, IdleInv
  <2>3. SockInv'
    BY <1>15 DEF TypeOK, SockInv
  <2>4. ThreadInv'
    BY <1>15 DEF TypeOK, ThreadInv
  <2>5. KnownInv'
    BY <1>15 DEF TypeOK, KnownInv, PastLock, HasRead, SockInv
  <2>6. DoomInv'
    BY <1>15 DEF TypeOK, DoomInv, PastLock, Doomed, IdleInv
  <2>7. Protected'
    BY <1>15 DEF TypeOK, Protected
  <2>8. ValidOnDisk'
    BY <1>15 DEF TypeOK, ValidOnDisk
  <2> QED
    BY <1>a, <2>1, <2>2, <2>3, <2>4, <2>5, <2>6, <2>7, <2>8
<1>16. ASSUME OpenServer
      PROVE  GCInv'
  <2> USE DEF OpenServer
  <2>1. ThreadInv' /\ Closed' /\ Protected' /\ ValidOnDisk'
    BY <1>16 DEF ThreadInv, Closed, Protected, ValidOnDisk
  <2>2. IdleInv'
    BY <1>16 DEF TypeOK, IdleInv
  <2>3. SockInv'
    BY <1>16 DEF TypeOK, SockInv
  <2>4. KnownInv'
    BY <1>16 DEF TypeOK, KnownInv, PastLock, HasRead, SockInv
  <2>5. DoomInv'
    BY <1>16 DEF TypeOK, DoomInv, PastLock, Doomed, IdleInv
  <2> QED
    BY <1>a, <2>1, <2>2, <2>3, <2>4, <2>5
<1>17. ASSUME FindRoots
      PROVE  GCInv'
  <2> USE DEF FindRoots
  <2>1. ThreadInv' /\ Closed' /\ Protected' /\ ValidOnDisk'
    BY <1>17 DEF ThreadInv, Closed, Protected, ValidOnDisk
  <2>2. IdleInv'
    BY <1>17 DEF TypeOK, IdleInv
  <2>3. SockInv'
    BY <1>17 DEF TypeOK, SockInv
  <2>4. KnownInv'
    BY <1>17 DEF TypeOK, KnownInv, PastLock, HasRead, SockInv, ThreadInv, Protected
  <2>5. DoomInv'
    BY <1>17 DEF TypeOK, DoomInv, PastLock, Doomed, IdleInv
  <2> QED
    BY <1>a, <2>1, <2>2, <2>3, <2>4, <2>5
<1>18. ASSUME NEW P \in Procs, ReadTempRoots(P)
      PROVE  GCInv'
  <2> USE DEF ReadTempRoots
  <2>1. ThreadInv' /\ Closed' /\ Protected' /\ ValidOnDisk'
    BY <1>18 DEF ThreadInv, Closed, Protected, ValidOnDisk
  <2>2. IdleInv'
    BY <1>18 DEF TypeOK, IdleInv
  <2>3. SockInv'
    BY <1>18 DEF TypeOK, SockInv
  <2>4. KnownInv'
    BY <1>18 DEF TypeOK, KnownInv, PastLock, HasRead, SockInv
  <2>5. DoomInv'
    BY <1>18 DEF TypeOK, DoomInv, PastLock, Doomed, IdleInv
  <2> QED
    BY <1>a, <2>1, <2>2, <2>3, <2>4, <2>5
<1>19. ASSUME NEW p \in Paths, NextEntry(p)
      PROVE  GCInv'
  <2> USE DEF NextEntry
  <2>1. ThreadInv' /\ Closed' /\ Protected' /\ ValidOnDisk'
    BY <1>19 DEF ThreadInv, Closed, Protected, ValidOnDisk
  <2>2. IdleInv'
    BY <1>19 DEF TypeOK, IdleInv
  <2>3. SockInv'
    BY <1>19 DEF TypeOK, SockInv
  <2>4. KnownInv'
    BY <1>19 DEF TypeOK, KnownInv, PastLock, HasRead, SockInv
  <2>5. DoomInv'
    BY <1>19 DEF TypeOK, DoomInv, PastLock, Doomed, IdleInv
  <2> QED
    BY <1>a, <2>1, <2>2, <2>3, <2>4, <2>5
<1>20. ASSUME NEW p \in Paths, VisitAlive(p)
      PROVE  GCInv'
  <2> USE DEF VisitAlive, EndWalk, Kept, AfterWalk
  <2>1. ThreadInv' /\ Closed' /\ Protected' /\ ValidOnDisk'
    BY <1>20 DEF ThreadInv, Closed, Protected, ValidOnDisk
  <2>2. IdleInv'
    BY <1>20 DEF TypeOK, IdleInv
  <2>3. SockInv'
    BY <1>20 DEF TypeOK, SockInv
  <2>4. KnownInv'
    BY <1>20 DEF TypeOK, KnownInv, PastLock, HasRead, SockInv
  <2>5. DoomInv'
    BY <1>20 DEF TypeOK, DoomInv, PastLock, Doomed, IdleInv
  <2> QED
    BY <1>a, <2>1, <2>2, <2>3, <2>4, <2>5
<1>21. ASSUME NEW p \in Paths, VisitDead(p)
      PROVE  GCInv'
  <2> USE DEF VisitDead
  <2>1. /\ SockInv' /\ ThreadInv' /\ KnownInv' /\ Closed'
        /\ Protected' /\ ValidOnDisk'
    BY <1>21 DEF SockInv, ThreadInv, KnownInv, PastLock, HasRead, Closed,
       Protected, ValidOnDisk
  <2>2. IdleInv'
    BY <1>21 DEF TypeOK, IdleInv
  <2>3. DoomInv'
    BY <1>21 DEF TypeOK, DoomInv, PastLock, Doomed, IdleInv
  <2> QED
    BY <1>a, <2>1, <2>2, <2>3
<1>22. ASSUME NEW p \in Paths, VisitRoot(p)
      PROVE  GCInv'
  <2> USE DEF VisitRoot, EndWalk, Kept, AfterWalk
  <2>1. ThreadInv' /\ Closed' /\ Protected' /\ ValidOnDisk'
    BY <1>22 DEF ThreadInv, Closed, Protected, ValidOnDisk
  <2>2. IdleInv'
    BY <1>22 DEF TypeOK, IdleInv
  <2>3. SockInv'
    BY <1>22 DEF TypeOK, SockInv
  <2>4. KnownInv'
    BY <1>22 DEF TypeOK, KnownInv, PastLock, HasRead, SockInv
  <2>5. DoomInv'
    BY <1>22 DEF TypeOK, DoomInv, PastLock, Doomed, IdleInv
  <2> QED
    BY <1>a, <2>1, <2>2, <2>3, <2>4, <2>5
<1>23. ASSUME NEW p \in Paths, VisitGarbage(p)
      PROVE  GCInv'
  <2> USE DEF VisitGarbage
  <2>1. /\ SockInv' /\ ThreadInv' /\ KnownInv' /\ Closed'
        /\ Protected' /\ ValidOnDisk'
    BY <1>23 DEF SockInv, ThreadInv, KnownInv, PastLock, HasRead, Closed,
       Protected, ValidOnDisk
  <2>2. IdleInv'
    BY <1>23 DEF TypeOK, IdleInv
  <2>3. DoomInv'
    <3>1. unread = {} /\ victim = None /\ exclusive
      BY <1>23 DEF IdleInv
    <3>2. Doomed' \subseteq Doomed \cup {p}
      BY <1>23, <3>1 DEF TypeOK, Doomed
    <3>3. p \in promised => p \in exposed
      BY <1>23, <3>1 DEF KnownInv
    <3>4. \A P \in Procs : p \in file[P] => p \in exposed
      BY <1>23, <3>1 DEF KnownInv, HasRead
    <3>5. \A t \in Threads : PastLock(t) /\ path[t] = p => p \in exposed
      BY <1>23, <3>1 DEF KnownInv
    <3> QED
      BY <1>23, <3>1, <3>2, <3>3, <3>4, <3>5 DEF TypeOK, DoomInv, PastLock
  <2> QED
    BY <1>a, <2>1, <2>2, <2>3
<1>24. ASSUME BeginDelete
      PROVE  GCInv'
  <2> USE DEF BeginDelete
  <2>1. ThreadInv' /\ Closed' /\ Protected' /\ ValidOnDisk'
    BY <1>24 DEF ThreadInv, Closed, Protected, ValidOnDisk
  <2>2. IdleInv'
    BY <1>24 DEF TypeOK, IdleInv
  <2>3. SockInv'
    BY <1>24 DEF TypeOK, SockInv
  <2>4. KnownInv'
    BY <1>24 DEF TypeOK, KnownInv, PastLock, HasRead, SockInv
  <2>5. DoomInv'
    BY <1>24 DEF TypeOK, DoomInv, PastLock, Doomed, IdleInv
  <2> QED
    BY <1>a, <2>1, <2>2, <2>3, <2>4, <2>5
<1>25. ASSUME NEW p \in Paths, Invalidate(p)
      PROVE  GCInv'
  <2> USE DEF Invalidate
  <2>1. ThreadInv'
    BY <1>25 DEF ThreadInv
  <2>2. IdleInv'
    BY <1>25 DEF TypeOK, IdleInv
  <2>3. SockInv'
    BY <1>25 DEF TypeOK, SockInv
  <2>4. KnownInv'
    BY <1>25 DEF TypeOK, KnownInv, PastLock, HasRead, SockInv
  <2>5. DoomInv'
    BY <1>25 DEF TypeOK, DoomInv, PastLock, Doomed, IdleInv
  <2>6. Closed'
    BY <1>25 DEF TypeOK, Closed, Referrers
  <2>7. Protected'
    BY <1>25 DEF TypeOK, Protected, DoomInv, Doomed, ThreadInv
  <2>8. ValidOnDisk'
    BY <1>25 DEF TypeOK, ValidOnDisk
  <2> QED
    BY <1>a, <2>1, <2>2, <2>3, <2>4, <2>5, <2>6, <2>7, <2>8
<1>26. ASSUME Unlink
      PROVE  GCInv'
  <2> USE DEF Unlink, EndWalk, Kept
  <2>1. Closed'
    BY <1>26 DEF Closed
  <2>2. IdleInv'
    BY <1>26 DEF TypeOK, IdleInv
  <2>3. SockInv'
    BY <1>26 DEF TypeOK, SockInv
  <2>4. ThreadInv'
    BY <1>26 DEF TypeOK, ThreadInv, DoomInv, Doomed, IdleInv
  <2>5. KnownInv'
    BY <1>26 DEF TypeOK, KnownInv, PastLock, HasRead, SockInv
  <2>6. DoomInv'
    BY <1>26 DEF TypeOK, DoomInv, PastLock, Doomed, IdleInv
  <2>7. Protected'
    BY <1>26 DEF TypeOK, Protected, DoomInv, Doomed, ThreadInv, IdleInv
  <2>8. ValidOnDisk'
    BY <1>26 DEF TypeOK, ValidOnDisk, DoomInv
  <2> QED
    BY <1>a, <2>1, <2>2, <2>3, <2>4, <2>5, <2>6, <2>7, <2>8
<1>27. ASSUME EndDelete
      PROVE  GCInv'
  <2> USE DEF EndDelete, EndWalk, Kept
  <2>1. ThreadInv' /\ Closed' /\ Protected' /\ ValidOnDisk'
    BY <1>27 DEF ThreadInv, Closed, Protected, ValidOnDisk
  <2>2. IdleInv'
    BY <1>27 DEF TypeOK, IdleInv
  <2>3. SockInv'
    BY <1>27 DEF TypeOK, SockInv
  <2>4. KnownInv'
    BY <1>27 DEF TypeOK, KnownInv, PastLock, HasRead, SockInv
  <2>5. DoomInv'
    BY <1>27 DEF TypeOK, DoomInv, PastLock, Doomed, IdleInv
  <2> QED
    BY <1>a, <2>1, <2>2, <2>3, <2>4, <2>5
<1>28. ASSUME EndScan
      PROVE  GCInv'
  <2> USE DEF EndScan, EndWalk, Kept
  <2>1. ThreadInv' /\ Closed' /\ Protected' /\ ValidOnDisk'
    BY <1>28 DEF ThreadInv, Closed, Protected, ValidOnDisk
  <2>2. IdleInv'
    BY <1>28 DEF TypeOK, IdleInv
  <2>3. SockInv'
    BY <1>28 DEF TypeOK, SockInv
  <2>4. KnownInv'
    BY <1>28 DEF TypeOK, KnownInv, PastLock, HasRead, SockInv
  <2>5. DoomInv'
    BY <1>28 DEF TypeOK, DoomInv, PastLock, Doomed, IdleInv
  <2> QED
    BY <1>a, <2>1, <2>2, <2>3, <2>4, <2>5
<1>29. ASSUME CloseServer
      PROVE  GCInv'
  <2> USE DEF CloseServer, ServerGone
  <2>1. ThreadInv' /\ Closed' /\ Protected' /\ ValidOnDisk'
    BY <1>29 DEF ThreadInv, Closed, Protected, ValidOnDisk
  <2>2. IdleInv'
    BY <1>29 DEF TypeOK, IdleInv
  <2>3. SockInv'
    BY <1>29 DEF TypeOK, SockInv
  <2>4. KnownInv'
    BY <1>29 DEF TypeOK, KnownInv, PastLock, HasRead, SockInv
  <2>5. DoomInv'
    BY <1>29 DEF TypeOK, DoomInv, PastLock, Doomed, IdleInv
  <2> QED
    BY <1>a, <2>1, <2>2, <2>3, <2>4, <2>5
<1>30. ASSUME GCUnlock
      PROVE  GCInv'
  <2> USE DEF GCUnlock, GCGone
  <2>1. Closed'
    BY <1>30 DEF Closed
  <2>2. IdleInv'
    BY <1>30 DEF TypeOK, IdleInv
  <2>3. SockInv'
    BY <1>30 DEF TypeOK, SockInv
  <2>4. ThreadInv'
    BY <1>30 DEF TypeOK, ThreadInv
  <2>5. KnownInv'
    BY <1>30 DEF TypeOK, KnownInv, PastLock, HasRead, SockInv
  <2>6. DoomInv'
    BY <1>30 DEF TypeOK, DoomInv, PastLock, Doomed, IdleInv
  <2>7. Protected'
    BY <1>30 DEF TypeOK, Protected
  <2>8. ValidOnDisk'
    BY <1>30 DEF TypeOK, ValidOnDisk
  <2> QED
    BY <1>a, <2>1, <2>2, <2>3, <2>4, <2>5, <2>6, <2>7, <2>8
<1>31. ASSUME GCKilled
      PROVE  GCInv'
  <2> USE DEF GCKilled, GCGone, ServerGone
  <2>1. Closed'
    BY <1>31 DEF Closed
  <2>2. IdleInv'
    BY <1>31 DEF TypeOK, IdleInv
  <2>3. SockInv'
    BY <1>31 DEF TypeOK, SockInv
  <2>4. ThreadInv'
    BY <1>31 DEF TypeOK, ThreadInv
  <2>5. KnownInv'
    BY <1>31 DEF TypeOK, KnownInv, PastLock, HasRead, SockInv
  <2>6. DoomInv'
    BY <1>31 DEF TypeOK, DoomInv, PastLock, Doomed, IdleInv
  <2>7. Protected'
    BY <1>31 DEF TypeOK, Protected
  <2>8. ValidOnDisk'
    BY <1>31 DEF TypeOK, ValidOnDisk
  <2> QED
    BY <1>a, <2>1, <2>2, <2>3, <2>4, <2>5, <2>6, <2>7, <2>8
<1>32. CASE UNCHANGED vars
  BY <1>32 DEF vars, GCInv, TypeOK, IdleInv, SockInv, ThreadInv, KnownInv, HasRead, PastLock,
               DoomInv, Doomed, Closed, Protected, ValidOnDisk, Referrers
<1> QED
  BY <1>1, <1>2, <1>3, <1>4, <1>5, <1>6, <1>7, <1>8, <1>9, <1>10, <1>11,
     <1>12, <1>13, <1>14, <1>15, <1>16, <1>17, <1>18, <1>19, <1>20, <1>21,
     <1>22, <1>23, <1>24, <1>25, <1>26, <1>27, <1>28, <1>29, <1>30, <1>31,
     <1>32
  DEF Next, Client, Rooting, Server, Collect

\* GCInv is an invariant of the specification.
LEMMA Invariance ==
    Spec => []GCInv
<1>1. Init => GCInv
  BY InitInv
<1>2. GCInv /\ [Next]_vars => GCInv'
  BY NextInv
<1> QED
  BY <1>1, <1>2, PTL DEF Spec

\* Type correctness: the state of the processes, the server and the collector
\* keeps its types, for any number of processes, threads and paths.
THEOREM TypeCorrect ==
    Spec => []TypeOK
<1>1. GCInv => TypeOK
  BY DEF GCInv
<1> QED
  BY <1>1, Invariance, PTL

\* The references of a valid path are valid, whatever the collector deletes and
\* clients register at the same time (registerValidPaths and
\* invalidatePathChecked), for every reference graph.
THEOREM StoreClosed ==
    Spec => []Closed
<1>1. GCInv => Closed
  BY DEF GCInv
<1> QED
  BY <1>1, Invariance, PTL

\* addTempRoot and addPermRoot protect: a path in use or linked as a root stays
\* valid and on disk unless it is in exposed, so the gaps that exposed records
\* are the only ways through the protocol of addTempRoot and collectGarbage.
THEOREM RootsProtected ==
    Spec => []Protected
<1>1. GCInv => Protected
  BY DEF GCInv
<1> QED
  BY <1>1, Invariance, PTL

\* collectGarbage never unlinks the files of a path that addToStore has
\* registered meanwhile, apart from those in exposed.
THEOREM ValidPathsOnDisk ==
    Spec => []ValidOnDisk
<1>1. GCInv => ValidOnDisk
  BY DEF GCInv
<1> QED
  BY <1>1, Invariance, PTL
=============================================================================
