---------------------------- MODULE FilesProofs -----------------------------
(***************************************************************************)
(* The files a process leaves on disk for others: the store optimiser keeps*)
(* their contents, the profiles of a user keep their generations.  For any *)
(* number of processes, files, users and generations.                      *)
(***************************************************************************)
EXTENDS Optimise, Profiles, WellFoundedInduction, TLAPS

(***************************************************************************)
(* Optimise: ContentsKept                                                  *)
(***************************************************************************)
-----------------------------------------------------------------------------
(* The inductive invariant                                                   *)

\* The points of optimisePath_ up to the removal of a corrupt entry.
Early == {"check", "stat", "remove"}

\* The processes that look for what is wrong with the entry.
Careful(p) == kind = "other size" \/ (kind = "same size" /\ p \in Repairing)

Points == Early \cup {"exists", "create", "compare", "temp", "rename",
                     "linked", "skipped", "failed", "threw"}
Inodes == Files \cup {"entry", NoInode}

OptimiseTypes ==
    /\ kind \in Kinds
    /\ inode \in [Files -> Inodes] /\ linkPath \in Inodes
    /\ temp \in [Optimisers -> Inodes] /\ opc \in [Optimisers -> Points]

\* A file keeps its inode until rename() succeeds, which is the last step; so the
\* inode of an entry that was there at the start never gets into .links again.
OwnInode ==
    \A p \in Optimisers :
        /\ inode[p] # NoInode
        /\ opc[p] # "linked" => inode[p] = p
        /\ opc[p] = "rename" => temp[p] # NoInode

\* A process that has looked neither finds nor holds a corrupt entry.
EntryGone ==
    \A p \in Optimisers : Careful(p) =>
        /\ inode[p] # "entry" /\ temp[p] # "entry"
        /\ opc[p] \notin Early => linkPath # "entry"

LinksInv == OptimiseTypes /\ OwnInode /\ EntryGone

-----------------------------------------------------------------------------
\* LinksInv implies what the run checks.
LEMMA LinksInvKept == LinksInv => ContentsKept
  BY OptimiseAssumption
     DEF LinksInv, OptimiseTypes, OwnInode, EntryGone, Careful, ContentsKept, Contents, Kinds

\* The initial states satisfy LinksInv.
LEMMA LinksInit == OptimiseInit => LinksInv
<1> SUFFICES ASSUME OptimiseInit
             PROVE  LinksInv
  OBVIOUS
<1> USE OptimiseAssumption DEF Files, Inodes
<1>1. PICK S \in SUBSET OtherFiles :
         inode = [f \in Files |-> IF f \in S /\ linkPath # NoInode THEN linkPath ELSE f]
  BY DEF OptimiseInit
<1>2. \A p \in Optimisers : inode[p] = p /\ temp[p] = NoInode /\ opc[p] = "check"
  BY <1>1 DEF OptimiseInit
<1>3. OptimiseTypes
  BY <1>1 DEF OptimiseInit, OptimiseTypes, Points, Early
<1>4. OwnInode /\ EntryGone
  BY <1>2 DEF OwnInode, EntryGone, Early
<1> QED
  BY <1>3, <1>4 DEF LinksInv

\* Every step of a process keeps LinksInv.
LEMMA LinksStep ==
    ASSUME LinksInv, NEW p \in Optimisers, OptimiseStep(p)
    PROVE  LinksInv'
<1> USE OptimiseAssumption DEF LinksInv
<1>a. p \in Files
  BY DEF Files
\* Most steps move p and may take the entry away or make it a link to the file of p.
<1>b. ASSUME NEW label \in Points \ {"rename"},
             opc[p] # "linked", opc' = [opc EXCEPT ![p] = label],
             UNCHANGED <<kind, inode, temp>>, linkPath' \in {linkPath, NoInode, p},
             Careful(p) /\ opc[p] \in Early /\ label \notin Early => linkPath' # "entry"
      PROVE  LinksInv'
  <2>1. OptimiseTypes'
    BY <1>a, <1>b DEF OptimiseTypes, Inodes
  <2>2. OwnInode'
    BY <1>b DEF OptimiseTypes, OwnInode
  <2>3. linkPath' = "entry" => linkPath = "entry"
    BY <1>a, <1>b DEF Files
  <2>4. EntryGone'
    BY <1>b, <2>3 DEF OptimiseTypes, EntryGone, Careful
  <2> QED
    BY <2>1, <2>2, <2>4
<1>1. CASE CheckEntry(p)
  <2>1. PICK label \in {"exists", "stat"} :
            /\ opc' = [opc EXCEPT ![p] = label]
            /\ label = "exists" => linkPath = NoInode
    BY <1>1 DEF CheckEntry, At
  <2> QED
    BY <1>1, <2>1, <1>b DEF CheckEntry, Points, Early
<1>2. CASE StatEntry(p)
  <2>1. PICK label \in {"threw", "remove", "exists"} :
            /\ opc' = [opc EXCEPT ![p] = label]
            /\ label = "threw" => linkPath = NoInode
            /\ label = "exists" => linkPath # NoInode /\ ~Corrupted(p)
    BY <1>2 DEF StatEntry, At
  <2>2. Careful(p) /\ ~Corrupted(p) => linkPath # "entry"
    BY DEF Careful, Corrupted, Contents
  <2> QED
    BY <1>2, <2>1, <2>2, <1>b DEF StatEntry, Points, Early
<1>3. CASE RemoveEntry(p)
  BY <1>3, <1>b DEF RemoveEntry, At, Points, Early
<1>4. CASE Exists(p)
  <2>1. PICK label \in {"create", "compare"} : opc' = [opc EXCEPT ![p] = label]
    BY <1>4 DEF Exists, At
  <2> QED
    BY <1>4, <2>1, <1>b DEF Exists, Points, Early
<1>5. CASE CreateEntry(p)
  <2>1. PICK label \in {"compare", "skipped"} : opc' = [opc EXCEPT ![p] = label]
    BY <1>5 DEF CreateEntry, At
  <2>2. linkPath' \in {linkPath, NoInode, p}
    BY <1>5 DEF CreateEntry, OwnInode
  <2> QED
    BY <1>5, <2>1, <2>2, <1>b DEF CreateEntry, Points, Early
<1>6. CASE Compare(p)
  <2>1. PICK label \in {"threw", "linked", "temp"} : opc' = [opc EXCEPT ![p] = label]
    BY <1>6 DEF Compare, At
  <2> QED
    BY <1>6, <2>1, <1>b DEF Compare, Points, Early
<1>7. CASE CreateTemp(p)
  <2>1. CASE linkPath # NoInode /\ temp' = [temp EXCEPT ![p] = linkPath] /\ At(p, "rename")
    <3>1. OptimiseTypes'
      BY <1>7, <2>1 DEF CreateTemp, OptimiseTypes, At, Points
    <3>2. OwnInode'
      BY <1>7, <2>1 DEF CreateTemp, OptimiseTypes, OwnInode, At
    <3>3. EntryGone'
      BY <1>7, <2>1 DEF CreateTemp, OptimiseTypes, EntryGone, Careful, At, Early
    <3> QED
      BY <3>1, <3>2, <3>3
  <2>2. CASE UNCHANGED temp
    <3>1. PICK label \in {"threw", "skipped", "rename"} : opc' = [opc EXCEPT ![p] = label]
      BY <1>7 DEF CreateTemp, At
    <3>2. CASE label = "rename"
      BY <1>7, <2>1, <2>2, <3>1, <3>2 DEF CreateTemp, At, OptimiseTypes
    <3>3. CASE label # "rename"
      BY <1>7, <2>2, <3>1, <3>3, <1>b DEF CreateTemp, Points, Early
    <3> QED
      BY <3>2, <3>3
  <2> QED
    BY <1>7, <2>1, <2>2 DEF CreateTemp
<1>8. CASE Rename(p)
  <2>1. PICK label \in {"linked", "skipped", "failed"} :
            /\ inode' = IF label = "linked" THEN [inode EXCEPT ![p] = temp[p]] ELSE inode
            /\ opc' = [opc EXCEPT ![p] = label]
    BY <1>8 DEF Rename, At
  <2>2. opc[p] = "rename" /\ temp' = [temp EXCEPT ![p] = NoInode] /\ UNCHANGED <<kind, linkPath>>
    BY <1>8 DEF Rename
  <2>3. temp[p] # NoInode /\ temp[p] \in Inodes
    BY <2>2 DEF OwnInode, OptimiseTypes
  <2>4. OptimiseTypes'
    BY <1>a, <2>1, <2>2, <2>3 DEF OptimiseTypes, Points, Inodes
  <2>5. OwnInode'
    BY <1>a, <2>1, <2>2, <2>3 DEF OptimiseTypes, OwnInode
  <2>6. EntryGone'
    <3> SUFFICES ASSUME NEW q \in Optimisers, Careful(q)
                 PROVE  /\ inode'[q] # "entry" /\ temp'[q] # "entry"
                        /\ opc'[q] \notin Early => linkPath' # "entry"
      BY <2>2 DEF EntryGone, Careful
    <3>1. q \in Files
      BY DEF Files
    <3>2. CASE q = p
      BY <1>a, <2>1, <2>2, <3>2 DEF OptimiseTypes, EntryGone, Early
    <3>3. CASE q # p
      BY <1>a, <2>1, <2>2, <3>1, <3>3 DEF OptimiseTypes, EntryGone
    <3> QED
      BY <3>2, <3>3
  <2> QED
    BY <2>4, <2>5, <2>6
<1> QED
  BY <1>1, <1>2, <1>3, <1>4, <1>5, <1>6, <1>7, <1>8 DEF OptimiseStep

\* Every step of the collector keeps LinksInv.
LEMMA LinksCollector ==
    ASSUME LinksInv,
           LinkCount \/ UnlinkEntry \/ (\E f \in OtherFiles : DeleteFile(f))
    PROVE  LinksInv'
<1> USE OptimiseAssumption DEF LinksInv, OptimiseTypes, OwnInode, EntryGone, Careful, Early
<1>1. CASE LinkCount
  BY <1>1 DEF LinkCount
<1>2. CASE UnlinkEntry
  BY <1>2 DEF UnlinkEntry, Inodes
<1>3. ASSUME NEW f \in OtherFiles, DeleteFile(f)
      PROVE  LinksInv'
  <2>1. inode' = [inode EXCEPT ![f] = NoInode] /\ f \in Files /\ UNCHANGED <<kind, linkPath, temp, opc>>
    BY <1>3 DEF DeleteFile, Files
  <2>2. \A p \in Optimisers : p \in Files /\ inode'[p] = inode[p]
    BY <2>1 DEF Files
  <2>3. OptimiseTypes'
    BY <2>1 DEF Inodes
  <2>4. OwnInode' /\ EntryGone'
    BY <2>1, <2>2
  <2> QED
    BY <2>3, <2>4
<1> QED
  BY <1>1, <1>2, <1>3

\* optimisePath_ keeps the contents of the files it works on, for any number of
\* processes next to a collector: only a corrupt entry that has the right size can
\* get in, and not where --repair looks for it.
THEOREM OptimiseKeepsContents == OptimiseSpec => []ContentsKept
<1>1. LinksInv /\ [OptimiseNext]_optimiseVars => LinksInv'
  <2> SUFFICES ASSUME LinksInv, [OptimiseNext]_optimiseVars
               PROVE  LinksInv'
    OBVIOUS
  <2>1. CASE OptimiseNext
    BY <2>1, LinksStep, LinksCollector DEF OptimiseNext
  <2>2. CASE UNCHANGED optimiseVars
    BY <2>2 DEF optimiseVars, LinksInv, OptimiseTypes, OwnInode, EntryGone, Careful
  <2> QED
    BY <2>1, <2>2
<1> QED
  BY <1>1, LinksInit, LinksInvKept, PTL DEF OptimiseSpec

(***************************************************************************)
(* Profiles: CurrentExists, NoLostUpdate and GenerationsKept               *)
(***************************************************************************)
-----------------------------------------------------------------------------
(* The inductive invariant                                                   *)

PointsOf(u) ==
    IF u \in Installers THEN {"idle", "token", "built", "find", "root", "switch", "done"}
    ELSE IF u \in Updaters THEN {"idle", "find", "root", "switch", "done"}
    ELSE {"idle", "switch", "delete"}

UserPoints == {"idle", "token", "built", "find", "root", "switch", "done", "delete"}

UserRecords ==
    [pc : UserPoints, token : 0 .. MaxGeneration, env : SUBSET Users,
     number : 0 .. MaxGeneration, todo : SUBSET Numbers]

Links == [env : SUBSET Users, by : Users \cup {"first", "nobody"}]

ProfileTypes ==
    /\ gens \in [Numbers -> Links]
    /\ current \in 0 .. MaxGeneration
    /\ user \in [Users -> UserRecords]
    /\ away \in SUBSET Installers /\ disturbed \in SUBSET Installers
    /\ \A u \in Users : user[u].pc \in PointsOf(u)

\* Installers and managers change the profile only while they have its lock, and
\* switch to a generation that exists.
LockedInv ==
    \A u \in Users \ Updaters :
        /\ user[u].pc \in {"find", "root", "switch", "delete"} => owner = u
        /\ user[u].pc = "switch" => user[u].number \in Existing

NumberInv == \A u \in Users : user[u].pc \in {"root", "switch"} => user[u].number \in Numbers

\* A generation that is about to be deleted is not the current one.
DeleteInv ==
    \A u \in Users : user[u].pc = "delete" => setter \in Updaters \/ current \notin user[u].todo

\* An installer with the lock is about to switch to the number that is current.
SwitchesToCurrent ==
    \E x \in Installers : user[x].pc = "switch" /\ user[x].number = current

\* Unless a command without the lock has disturbed it, an installer that has read the
\* environment of a generation that is current again or still has the current one, or
\* knows that it has changed, or somebody else is replacing it under the lock; and the
\* number that it has chosen is free, or an updater's.
TokenOf(u) ==
    /\ user[u].pc = "built" /\ user[u].token = current =>
          \/ u \in disturbed \/ u \in away \/ user[u].env = Env(current)
          \/ SwitchesToCurrent
    /\ user[u].pc \in {"find", "root"} =>
          \/ u \in disturbed
          \/ user[u].token = current /\ (u \in away \/ user[u].env = Env(current))
    /\ user[u].pc = "root" /\ user[u].number \in Existing =>
          gens[user[u].number].by \in Updaters

TokenInv == \A u \in Installers : TokenOf(u)

ProfileInv ==
    /\ ProfileTypes /\ LockedInv /\ NumberInv /\ DeleteInv /\ TokenInv /\ CurrentExists

-----------------------------------------------------------------------------
\* A set of generation numbers has a highest one.
LEMMA HighestExists ==
    ASSUME NEW S \in SUBSET Numbers, S # {}
    PROVE  Highest(S) \in S /\ \A k \in S : k <= Highest(S)
<1> DEFINE T == {k \in Nat : \A n \in S : n <= k}
<1>1. MaxGeneration \in T
  BY ProfilesAssumption DEF Numbers
<1>2. PICK x \in T : \A y \in T : ~(<<y, x>> \in OpToRel(<, Nat))
  BY <1>1, WFMin, NatLessThanWellFounded
<1>3. \A y \in T : ~(y < x)
  BY <1>2 DEF OpToRel
<1>4. x \in S
  <2> SUFFICES ASSUME x \notin S
               PROVE  FALSE
    OBVIOUS
  <2>1. PICK n \in S : TRUE
    OBVIOUS
  <2>2. \A k \in S : k \in Nat /\ 1 <= k /\ k <= x /\ k # x
    BY ProfilesAssumption DEF Numbers
  <2>4. x - 1 \in Nat
    BY <2>1, <2>2
  <2>5. x - 1 \in T
    BY <2>2, <2>4
  <2> QED
    BY <1>3, <2>4, <2>5
<1>5. \E n \in S : \A k \in S : k <= n
  BY <1>4
<1> QED
  BY <1>5 DEF Highest

\* The initial states satisfy ProfileInv.
LEMMA ProfileInitInv == ProfileInit => ProfileInv
<1> SUFFICES ASSUME ProfileInit
             PROVE  ProfileInv
  OBVIOUS
<1>1. Start("idle") \in UserRecords
  BY ProfilesAssumption DEF Start, UserRecords, UserPoints
<1>2. \A u \in Users : user[u].pc = "idle"
  BY DEF ProfileInit, Start
<1>3. gens \in [Numbers -> Links]
  BY DEF ProfileInit, NoLink, Links
<1>4. ProfileTypes
  BY <1>1, <1>2, <1>3, ProfilesAssumption DEF ProfileInit, ProfileTypes, PointsOf
<1>5. CurrentExists
  BY ProfilesAssumption DEF ProfileInit, CurrentExists, NoLink, Numbers
<1>6. Installers \subseteq Users
  BY DEF Users
<1> QED
  BY <1>2, <1>4, <1>5, <1>6
     DEF ProfileInv, LockedInv, NumberInv, DeleteInv, TokenInv, TokenOf

\* ProfileInv implies what the run checks.
LEMMA ProfileInvKept == ProfileInv => CurrentExists /\ NoLostUpdate
  BY DEF ProfileInv, TokenInv, TokenOf, NoLostUpdate

-----------------------------------------------------------------------------
(* Every step keeps ProfileInv                                               *)

\* A step that leaves the generations and the profile alone keeps what is said of
\* all users but u.
LEMMA UserMoves ==
    ASSUME ProfileInv, NEW u \in Users, NEW r \in UserRecords,
           user' = [user EXCEPT ![u] = r], UNCHANGED <<gens, current, setter>>,
           away' \in SUBSET Installers, \A v \in Users \ {u} : v \in away' <=> v \in away,
           disturbed' \in SUBSET Installers,
           \A v \in Users \ {u} : v \in disturbed' <=> v \in disturbed,
           \A v \in Users \ {u} : owner = v => owner' = v,
           user[u].pc # "switch", r.pc \in PointsOf(u),
           u \notin Updaters /\ r.pc \in {"find", "root", "switch", "delete"} => owner' = u,
           u \notin Updaters /\ r.pc = "switch" => r.number \in Existing,
           r.pc \in {"root", "switch"} => r.number \in Numbers,
           r.pc = "delete" => setter \in Updaters \/ current \notin r.todo,
           u \in Installers =>
              /\ r.pc = "built" => r.env = Env(current)
              /\ r.pc \in {"find", "root"} =>
                    \/ u \in disturbed'
                    \/ r.token = current /\ (u \in away' \/ r.env = Env(current))
              /\ r.pc = "root" => r.number \notin Existing
    PROVE  ProfileInv'
<1>1. user'[u] = r /\ \A v \in Users \ {u} : user'[v] = user[v]
  BY DEF ProfileInv, ProfileTypes
<1>2. ProfileTypes'
  <2>1. user' \in [Users -> UserRecords]
    BY DEF ProfileInv, ProfileTypes
  <2>2. \A v \in Users : user'[v].pc \in PointsOf(v)
    BY <1>1 DEF ProfileInv, ProfileTypes
  <2> QED
    BY <2>1, <2>2 DEF ProfileInv, ProfileTypes, PointsOf
<1>3. Existing' = Existing /\ Env(current)' = Env(current)
  BY DEF Existing, Env
<1>4. LockedInv'
  BY <1>1, <1>3 DEF ProfileInv, LockedInv
<1>5. NumberInv'
  BY <1>1 DEF ProfileInv, NumberInv
<1>6. DeleteInv'
  BY <1>1 DEF ProfileInv, DeleteInv
<1>7. SwitchesToCurrent => SwitchesToCurrent'
  BY <1>1 DEF SwitchesToCurrent, Users
<1>8. TokenInv'
  <2> SUFFICES ASSUME NEW v \in Installers
               PROVE  TokenOf(v)'
    BY DEF TokenInv
  <2>1. CASE v = u
    BY <1>1, <1>3, <2>1 DEF TokenOf
  <2>2. CASE v # u
    <3>1. v \in Users /\ user'[v] = user[v]
      BY <1>1, <2>2 DEF Users
    <3>2. TokenOf(v)
      BY DEF ProfileInv, TokenInv
    <3> QED
      BY <1>3, <1>7, <2>2, <3>1, <3>2 DEF TokenOf, Existing
  <2> QED
    BY <2>1, <2>2
<1>9. CurrentExists'
  BY DEF ProfileInv, CurrentExists
<1> QED
  BY <1>2, <1>4, <1>5, <1>6, <1>8, <1>9 DEF ProfileInv

\* What ProfileInv says of one user, and that its fields can be updated.
LEMMA UserFields ==
    ASSUME ProfileInv, NEW u \in Users
    PROVE  /\ user[u] \in UserRecords
           /\ user[u].pc \in PointsOf(u)
           /\ user = [v \in Users |-> user[v]]
  BY DEF ProfileInv, ProfileTypes

\* A user goes on with another token, number or environment.
LEMMA UserGoesOn ==
    ASSUME NEW r \in UserRecords, NEW p \in UserPoints, NEW k \in 0 .. MaxGeneration,
           NEW e \in SUBSET Users
    PROVE  /\ [r EXCEPT !.pc = p, !.token = k] \in UserRecords
           /\ [r EXCEPT !.pc = p, !.number = k] \in UserRecords
           /\ [r EXCEPT !.pc = p, !.env = e] \in UserRecords
  BY DEF UserRecords

\* The links that exist are Existing, and NewEnv is an environment.
LEMMA ExistingNumbers ==
    ASSUME ProfileInv
    PROVE  Existing \subseteq Numbers /\ \A u \in Users : NewEnv(u) \in SUBSET Users
  BY DEF ProfileInv, ProfileTypes, UserRecords, Existing, NewEnv

\* The environment of the current generation is a set of users.
LEMMA EnvType == ProfileInv => Env(current) \in SUBSET Users
  BY ProfilesAssumption DEF ProfileInv, ProfileTypes, Env, Links, Numbers

\* optimisticLockProfile keeps ProfileInv.
LEMMA TakeTokenInv == ASSUME ProfileInv, NEW u \in Users, TakeToken(u) PROVE ProfileInv'
<1> DEFINE r == [user[u] EXCEPT !.pc = "token", !.token = current]
<1>0. current \in 0 .. MaxGeneration
  BY DEF ProfileInv, ProfileTypes
<1>1. r \in UserRecords /\ r.pc = "token" /\ r.token = current
  <2>1. user[u] \in UserRecords  BY UserFields
  <2>2. "token" \in UserPoints  BY DEF UserPoints
  <2>3. r \in UserRecords  BY <1>0, <2>1, <2>2, UserGoesOn
  <2>. QED  BY <2>1, <2>3 DEF UserRecords
<1>2. user' = [user EXCEPT ![u] = r]
  BY UserFields DEF TakeToken
<1>3. r.pc \in PointsOf(u) /\ u \notin Updaters
  BY <1>1, ProfilesAssumption DEF TakeToken, PointsOf
<1>4. /\ away' \in SUBSET Installers /\ \A v \in Users \ {u} : v \in away' <=> v \in away
      /\ disturbed' \in SUBSET Installers
      /\ \A v \in Users \ {u} : v \in disturbed' <=> v \in disturbed
  BY DEF TakeToken, ProfileInv, ProfileTypes
<1> HIDE DEF r
<1> QED
  BY <1>1, <1>2, <1>3, <1>4, UserMoves DEF TakeToken

\* Reading the installed elements keeps ProfileInv.
LEMMA ReadEnvInv == ASSUME ProfileInv, NEW u \in Users, ReadEnv(u) PROVE ProfileInv'
<1> DEFINE r == [user[u] EXCEPT !.pc = "built", !.env = Env(current)]
<1>1. r \in UserRecords /\ r.pc = "built" /\ r.env = Env(current) /\ r.token = user[u].token
  <2>1. user[u] \in UserRecords  BY UserFields
  <2>2. "built" \in UserPoints /\ 0 \in 0 .. MaxGeneration  BY ProfilesAssumption DEF UserPoints
  <2>3. r \in UserRecords  BY <2>1, <2>2, EnvType, UserGoesOn
  <2>. QED  BY <2>1, <2>3 DEF UserRecords
<1>2. user' = [user EXCEPT ![u] = r]
  BY UserFields DEF ReadEnv
<1>3. r.pc \in PointsOf(u) /\ u \in Installers /\ u \notin Updaters
  BY <1>1, UserFields, ProfilesAssumption DEF ReadEnv, PointsOf
<1>4. /\ away' \in SUBSET Installers /\ \A v \in Users \ {u} : v \in away' <=> v \in away
      /\ disturbed' \in SUBSET Installers
      /\ \A v \in Users \ {u} : v \in disturbed' <=> v \in disturbed
  BY DEF ReadEnv, ProfileInv, ProfileTypes
<1> HIDE DEF r
<1> QED
  BY <1>1, <1>2, <1>3, <1>4, UserMoves DEF ReadEnv

\* createUserEnv's comparison under the lock keeps ProfileInv.
LEMMA CheckTokenInv == ASSUME ProfileInv, NEW u \in Users, CheckToken(u) PROVE ProfileInv'
<1> DEFINE same == user[u].token = current
           r == [user[u] EXCEPT !.pc = IF same THEN "find" ELSE "idle"]
<1>1. r \in UserRecords /\ r.pc = (IF same THEN "find" ELSE "idle")
      /\ r.env = user[u].env /\ r.token = user[u].token
  BY UserFields DEF UserRecords, UserPoints
<1>2. user' = [user EXCEPT ![u] = r]
  BY UserFields DEF CheckToken
<1>3. r.pc \in PointsOf(u) /\ u \in Installers /\ u \notin Updaters
  BY <1>1, UserFields, ProfilesAssumption DEF CheckToken, PointsOf
<1>4. /\ away' \in SUBSET Installers /\ \A v \in Users \ {u} : v \in away' <=> v \in away
      /\ disturbed' \in SUBSET Installers
      /\ \A v \in Users \ {u} : v \in disturbed' <=> v \in disturbed
  BY DEF CheckToken, ProfileInv, ProfileTypes
<1>5. r.pc = "find" =>
        \/ u \in disturbed'
        \/ r.token = current /\ (u \in away' \/ r.env = Env(current))
  <2>1. owner = "nobody" /\ user[u].pc = "built" /\ UNCHANGED <<away, disturbed>>
    BY DEF CheckToken
  <2>2. ~SwitchesToCurrent
    BY <2>1, ProfilesAssumption DEF SwitchesToCurrent, ProfileInv, LockedInv, Users
  <2>3. same => \/ u \in disturbed \/ u \in away \/ user[u].env = Env(current)
    BY <1>3, <2>1, <2>2 DEF ProfileInv, TokenInv, TokenOf
  <2> QED
    BY <1>1, <2>1, <2>3
<1>6. (\A v \in Users \ {u} : owner = v => owner' = v) /\ (r.pc = "find" => owner' = u)
  BY <1>1, ProfilesAssumption DEF CheckToken
<1>7. r.pc \in {"find", "idle"}
  BY <1>1
<1> HIDE DEF r
<1> QED
  BY <1>1, <1>2, <1>3, <1>4, <1>5, <1>6, <1>7, UserMoves DEF CheckToken

\* An updater that starts keeps ProfileInv.
LEMMA StartUpdateInv == ASSUME ProfileInv, NEW u \in Users, StartUpdate(u) PROVE ProfileInv'
<1> DEFINE r == [user[u] EXCEPT !.pc = "find"]
<1>1. r \in UserRecords /\ r.pc = "find"
  BY UserFields DEF UserRecords, UserPoints
<1>2. user' = [user EXCEPT ![u] = r]
  BY UserFields DEF StartUpdate
<1>3. r.pc \in PointsOf(u) /\ u \notin Installers /\ u \in Updaters
  BY <1>1, ProfilesAssumption DEF StartUpdate, PointsOf
<1>4. /\ away' \in SUBSET Installers /\ \A v \in Users \ {u} : v \in away' <=> v \in away
      /\ disturbed' \in SUBSET Installers
      /\ \A v \in Users \ {u} : v \in disturbed' <=> v \in disturbed
  BY DEF StartUpdate, ProfileInv, ProfileTypes
<1> HIDE DEF r
<1> QED
  BY <1>1, <1>2, <1>3, <1>4, UserMoves DEF StartUpdate

\* createGeneration's choice of the number keeps ProfileInv: the number after the
\* last one is free.
LEMMA FindLastInv == ASSUME ProfileInv, NEW u \in Users, FindLast(u) PROVE ProfileInv'
<1> DEFINE last == Highest(Existing)
           same == last # 0 /\ gens[last].env = NewEnv(u)
           n == IF same THEN last ELSE last + 1
           p == IF same THEN "switch" ELSE "root"
           r == [user[u] EXCEPT !.pc = p, !.number = n]
<1>1. last \in 0 .. MaxGeneration /\ (last # 0 => last \in Existing)
  BY HighestExists, ExistingNumbers, ProfilesAssumption DEF Highest, Numbers
<1>2. last + 1 \notin Existing
  <2>1. CASE Existing = {}
    BY <2>1
  <2>2. CASE Existing # {}
    BY <1>1, <2>2, HighestExists, ExistingNumbers, ProfilesAssumption DEF Numbers
  <2> QED
    BY <2>1, <2>2
<1>3. n \in Numbers /\ n \in 0 .. MaxGeneration
  BY <1>1, ProfilesAssumption DEF FindLast, Numbers
<1>4. r \in UserRecords /\ r.pc = p /\ r.number = n
      /\ r.env = user[u].env /\ r.token = user[u].token
  <2>1. p \in {"switch", "root"} /\ user[u] \in UserRecords
    BY UserFields
  <2> HIDE DEF last, same, n, p
  <2> QED
    BY <1>3, <2>1 DEF UserRecords, UserPoints
<1>5. user' = [user EXCEPT ![u] = r]
  BY UserFields DEF FindLast
<1>6. r.pc \in {"switch", "root"} /\ (r.pc = "switch" => r.number \in Existing)
      /\ (r.pc = "root" => r.number \notin Existing) /\ r.number \in Numbers
  <2> HIDE DEF last
  <2> QED
    BY <1>1, <1>2, <1>3, <1>4
<1>7. user[u].pc = "find" /\ UNCHANGED <<gens, current, owner, setter, away, disturbed>>
  BY DEF FindLast
<1> HIDE DEF r
<1>8. r.pc \in PointsOf(u) /\ u \in Installers \cup Updaters
  BY <1>6, <1>7, UserFields DEF PointsOf
<1>9. u \notin Updaters => owner' = u
  BY <1>7 DEF ProfileInv, LockedInv
<1>10. u \in Installers =>
        \/ u \in disturbed'
        \/ r.token = current /\ (u \in away' \/ r.env = Env(current))
  BY <1>4, <1>7 DEF ProfileInv, TokenInv, TokenOf
<1>11. away' \in SUBSET Installers /\ disturbed' \in SUBSET Installers
  BY <1>7 DEF ProfileInv, ProfileTypes
<1> QED
  BY <1>4, <1>5, <1>6, <1>7, <1>8, <1>9, <1>10, <1>11, UserMoves

\* addPermRoot keeps ProfileInv: whoever makes the link of the current generation has
\* the lock and is about to switch to it, or disturbs all who have read it.
LEMMA MakeLinkInv == ASSUME ProfileInv, NEW u \in Users, MakeLink(u) PROVE ProfileInv'
<1> DEFINE n == user[u].number
           link == [env |-> NewEnv(u), by |-> u]
<1>1. n \in Numbers /\ user[u].pc = "root" /\ u \in Installers \cup Updaters
  BY UserFields DEF MakeLink, ProfileInv, NumberInv, PointsOf
<1>2. link \in Links /\ link # NoLink
  BY ExistingNumbers, ProfilesAssumption DEF Links, NoLink
<1>3. gens' = [gens EXCEPT ![n] = link] /\ UNCHANGED <<current, owner, setter, away>>
      /\ disturbed' = IF u \in Updaters /\ n = current THEN disturbed \cup Reading ELSE disturbed
  BY DEF MakeLink
<1>4. /\ user' \in [Users -> UserRecords]
      /\ user'[u].pc = "switch" /\ user'[u].number = n
      /\ \A v \in Users \ {u} : user'[v] = user[v]
  <2> DEFINE r == [user[u] EXCEPT !.pc = "switch"]
  <2>1. r \in UserRecords /\ r.pc = "switch" /\ r.number = n
    BY UserFields DEF UserRecords, UserPoints
  <2>2. user' = [user EXCEPT ![u] = r]
    BY UserFields DEF MakeLink
  <2>3. user \in [Users -> UserRecords]
    BY DEF ProfileInv, ProfileTypes
  <2> HIDE DEF r, n
  <2> QED
    BY <2>1, <2>2, <2>3
<1>5. gens \in [Numbers -> Links]
  BY DEF ProfileInv, ProfileTypes
<1> HIDE DEF n, link
<1>6. gens'[n] = link /\ \A k \in Numbers \ {n} : gens'[k] = gens[k]
  BY <1>1, <1>3, <1>5
<1>7. gens' \in [Numbers -> Links]
  BY <1>2, <1>3, <1>5
<1>8. Existing' = Existing \cup {n}
  BY <1>1, <1>2, <1>6 DEF Existing
<1>9. ProfileTypes'
  <2>1. Reading \subseteq Installers
    BY DEF Reading
  <2> QED
    BY <1>1, <1>3, <1>4, <1>7, <2>1 DEF ProfileInv, ProfileTypes, PointsOf
<1>10. LockedInv'
  BY <1>1, <1>3, <1>4, <1>8 DEF ProfileInv, LockedInv
<1>11. NumberInv' /\ DeleteInv'
  BY <1>1, <1>3, <1>4 DEF ProfileInv, NumberInv, DeleteInv
<1>12. current # n => Env(current)' = Env(current)
  BY <1>3, <1>6, ProfilesAssumption DEF Env, ProfileInv, ProfileTypes, Numbers
<1>13. TokenInv'
  <2> SUFFICES ASSUME NEW v \in Installers
               PROVE  TokenOf(v)'
    BY DEF TokenInv
  <2>1. TokenOf(v) /\ v \in Users
    BY DEF ProfileInv, TokenInv, Users
  <2>2. CASE v = u
    BY <1>4, <2>2 DEF TokenOf
  <2>3. CASE v # u /\ u \in Installers
    <3>1. user'[v] = user[v] /\ user[v].pc \notin {"find", "root"}
      BY <1>1, <1>4, <2>1, <2>3, ProfilesAssumption DEF ProfileInv, LockedInv
    <3>2. CASE n = current
      <4>1. SwitchesToCurrent'
        BY <1>3, <1>4, <2>3, <3>2 DEF SwitchesToCurrent
      <4> QED
        BY <3>1, <4>1 DEF TokenOf
    <3>3. CASE n # current
      <4>1. SwitchesToCurrent => SwitchesToCurrent'
        BY <1>1, <1>3, <1>4 DEF SwitchesToCurrent, Users
      <4> QED
        BY <1>3, <1>12, <2>1, <3>1, <3>3, <4>1 DEF TokenOf
    <3> QED
      BY <3>2, <3>3
  <2>4. CASE v # u /\ u \in Updaters
    <3>1. user'[v] = user[v]
      BY <1>4, <2>1, <2>4
    <3>2. /\ user'[v].pc = "root" /\ user'[v].number \in Existing'
          => gens'[user'[v].number].by \in Updaters
      <4> SUFFICES ASSUME user[v].pc = "root", user[v].number \in Existing'
                   PROVE  gens'[user[v].number].by \in Updaters
        BY <3>1
      <4>1. CASE user[v].number = n
        BY <1>6, <2>4, <4>1 DEF link
      <4>2. CASE user[v].number # n
        <5>1. user[v].number \in Existing /\ user[v].number \in Numbers
          BY <1>8, <4>2 DEF Existing
        <5> QED
          BY <1>6, <2>1, <4>2, <5>1 DEF TokenOf
      <4> QED
        BY <4>1, <4>2
    <3>3. CASE n = current
      <4>1. user[v].pc \in {"built", "find", "root"} => v \in disturbed'
        BY <1>3, <2>4, <3>3 DEF Reading
      <4> QED
        BY <3>1, <3>2, <4>1 DEF TokenOf
    <3>4. CASE n # current
      <4>1. SwitchesToCurrent => SwitchesToCurrent'
        BY <1>1, <1>3, <1>4 DEF SwitchesToCurrent, Users
      <4> QED
        BY <1>3, <1>12, <2>1, <3>1, <3>2, <3>4, <4>1 DEF TokenOf
    <3> QED
      BY <3>3, <3>4
  <2> QED
    BY <1>1, <2>2, <2>3, <2>4
<1>14. CurrentExists'
  BY <1>2, <1>3, <1>6, <1>1, ProfilesAssumption DEF ProfileInv, CurrentExists, ProfileTypes, Numbers
<1> QED
  BY <1>9, <1>10, <1>11, <1>13, <1>14 DEF ProfileInv

\* switchLink keeps ProfileInv: whoever holds the lock switches to a generation that
\* exists, and who has read the profile is told.
LEMMA SwitchLinkInv == ASSUME ProfileInv, NEW u \in Users, SwitchLink(u) PROVE ProfileInv'
<1> DEFINE p == IF u \in Managers THEN "idle" ELSE "done"
<1>1. user[u].pc = "switch" /\ current' = user[u].number /\ setter' = u /\ gens' = gens
      /\ user[u].number \in Numbers
  BY DEF SwitchLink, ProfileInv, NumberInv
<1>2. Start(p) \in UserRecords /\ Start(p).pc = p
  BY ProfilesAssumption DEF Start, UserRecords, UserPoints
<1>3. /\ user' \in [Users -> UserRecords]
      /\ user'[u].pc = p
      /\ \A v \in Users \ {u} : user'[v] = user[v]
  <2>1. user' = [user EXCEPT ![u] = Start(p)] /\ user \in [Users -> UserRecords]
    BY DEF SwitchLink, ProfileInv, ProfileTypes
  <2> HIDE DEF p
  <2> QED
    BY <1>2, <2>1
<1>4. p \in PointsOf(u) /\ (u \in Updaters => p = "done") /\ p \in {"idle", "done"}
  BY ProfilesAssumption DEF PointsOf, Users
<1> HIDE DEF p
<1>5. /\ away' \in SUBSET Installers /\ disturbed' \in SUBSET Installers
      /\ \A v \in Installers : user[v].pc \in {"token", "built"} => v \in away'
      /\ u \in Updaters => \A v \in Installers :
            user[v].pc \in {"built", "find", "root"} => v \in disturbed'
  BY DEF SwitchLink, ProfileInv, ProfileTypes, Reading
<1>6. ProfileTypes'
  <2>1. current' \in 0 .. MaxGeneration
    BY <1>1, ProfilesAssumption DEF Numbers
  <2>2. \A v \in Users : user'[v].pc \in PointsOf(v)
    BY <1>3, <1>4 DEF ProfileInv, ProfileTypes
  <2> QED
    BY <1>1, <1>3, <1>5, <2>1, <2>2 DEF ProfileInv, ProfileTypes, PointsOf
<1>7. \A v \in Users \ {u} : owner = v => owner' = v
  BY DEF SwitchLink
<1>8. Existing' = Existing
  BY <1>1 DEF Existing
<1>9. LockedInv'
  BY <1>3, <1>4, <1>7, <1>8 DEF ProfileInv, LockedInv
<1>10. NumberInv'
  BY <1>3, <1>4 DEF ProfileInv, NumberInv
<1>11. u \notin Updaters => owner = u /\ user[u].number \in Existing
  BY <1>1 DEF ProfileInv, LockedInv
<1>12. DeleteInv'
  <2> SUFFICES ASSUME NEW v \in Users, user'[v].pc = "delete", u \notin Updaters
               PROVE  FALSE
    BY <1>1 DEF DeleteInv
  <2>1. v # u /\ user[v].pc = "delete"
    BY <1>3, <1>4
  <2>2. v \notin Updaters
    BY <2>1, UserFields, ProfilesAssumption DEF PointsOf
  <2> QED
    BY <1>11, <2>1, <2>2 DEF ProfileInv, LockedInv
<1>13. TokenInv'
  <2> SUFFICES ASSUME NEW v \in Installers
               PROVE  TokenOf(v)'
    BY DEF TokenInv
  <2>1. TokenOf(v) /\ v \in Users
    BY DEF ProfileInv, TokenInv, Users
  <2>2. CASE v = u
    BY <1>3, <1>4, <2>2 DEF TokenOf
  <2>3. CASE v # u /\ u \notin Updaters
    <3>1. user'[v] = user[v] /\ user[v].pc \notin {"find", "root"}
      BY <1>3, <1>11, <2>1, <2>3, ProfilesAssumption DEF ProfileInv, LockedInv
    <3> QED
      BY <1>5, <3>1 DEF TokenOf
  <2>4. CASE v # u /\ u \in Updaters
    <3>1. user'[v] = user[v]
      BY <1>3, <2>1, <2>4
    <3> QED
      BY <1>1, <1>5, <1>8, <2>1, <2>4, <3>1 DEF TokenOf
  <2> QED
    BY <2>2, <2>3, <2>4
<1>14. CurrentExists'
  BY <1>1, <1>11 DEF CurrentExists, Existing
<1> QED
  BY <1>6, <1>9, <1>10, <1>12, <1>13, <1>14 DEF ProfileInv

\* deleteGeneration keeps ProfileInv: it deletes what is not current, and nobody
\* else has the lock.
LEMMA DeleteGenerationInv ==
    ASSUME ProfileInv, NEW u \in Users, DeleteGeneration(u) PROVE ProfileInv'
<1>1. PICK n \in user[u].todo :
        /\ gens' = [gens EXCEPT ![n] = NoLink]
        /\ user' = [user EXCEPT ![u].todo = @ \ {n}]
        /\ disturbed' = IF n = current /\ setter \in Updaters THEN disturbed \cup Reading
                        ELSE disturbed
  BY DEF DeleteGeneration
<1>2. user[u].pc = "delete" /\ UNCHANGED <<current, owner, setter, away>>
  BY DEF DeleteGeneration
<1>3. u \notin Updaters /\ owner = u /\ u \notin Installers
  BY <1>2, UserFields, ProfilesAssumption DEF PointsOf, ProfileInv, LockedInv
<1>4. n \in Numbers
  BY <1>1, UserFields DEF UserRecords
<1>5. /\ user' \in [Users -> UserRecords]
      /\ user'[u].pc = "delete" /\ user'[u].todo = user[u].todo \ {n}
      /\ \A v \in Users \ {u} : user'[v] = user[v]
  <2> DEFINE r == [user[u] EXCEPT !.todo = @ \ {n}]
  <2>1. r \in UserRecords /\ r.pc = "delete" /\ r.todo = user[u].todo \ {n}
    BY <1>2, UserFields DEF UserRecords
  <2>2. user' = [user EXCEPT ![u] = r]
    BY <1>1, UserFields
  <2>3. user \in [Users -> UserRecords]
    BY DEF ProfileInv, ProfileTypes
  <2> HIDE DEF r
  <2> QED
    BY <2>1, <2>2, <2>3
<1>6. gens \in [Numbers -> Links] /\ gens' \in [Numbers -> Links]
      /\ gens'[n] = NoLink /\ \A k \in Numbers \ {n} : gens'[k] = gens[k]
  BY <1>1, <1>4 DEF ProfileInv, ProfileTypes, Links, NoLink
<1>7. Existing' = Existing \ {n}
  BY <1>4, <1>6 DEF Existing
<1>8. \A v \in Users \ {u} : v \notin Updaters =>
        user[v].pc \notin {"find", "root", "switch", "delete"}
  BY <1>3 DEF ProfileInv, LockedInv
<1>9. ProfileTypes'
  <2>1. Reading \subseteq Installers
    BY DEF Reading
  <2> QED
    BY <1>1, <1>2, <1>5, <1>6, <2>1 DEF ProfileInv, ProfileTypes, PointsOf
<1>10. LockedInv'
  BY <1>2, <1>3, <1>5, <1>8 DEF ProfileInv, LockedInv
<1>11. NumberInv'
  BY <1>2, <1>5 DEF ProfileInv, NumberInv
<1>12. DeleteInv'
  BY <1>2, <1>5 DEF ProfileInv, DeleteInv
<1>13. setter \in Updaters \/ current # n
  BY <1>1, <1>2 DEF ProfileInv, DeleteInv
<1>14. TokenInv'
  <2> SUFFICES ASSUME NEW v \in Installers
               PROVE  TokenOf(v)'
    BY DEF TokenInv
  <2>1. TokenOf(v) /\ v \in Users /\ v \notin Updaters
    BY ProfilesAssumption DEF ProfileInv, TokenInv, Users
  <2>2. user'[v] = user[v] /\ user[v].pc \notin {"find", "root"}
    BY <1>3, <1>5, <1>8, <2>1
  <2>3. CASE n = current
    <3>1. user[v].pc = "built" => v \in disturbed'
      BY <1>1, <1>13, <2>3 DEF Reading
    <3> QED
      BY <2>2, <3>1 DEF TokenOf
  <2>4. CASE n # current
    <3>1. Env(current)' = Env(current)
      BY <1>2, <1>6, <2>4, ProfilesAssumption DEF Env, ProfileInv, ProfileTypes, Numbers
    <3>2. SwitchesToCurrent => SwitchesToCurrent'
      BY <1>2, <1>3, <1>5 DEF SwitchesToCurrent, Users
    <3> QED
      BY <1>1, <1>2, <2>1, <2>2, <2>4, <3>1, <3>2 DEF TokenOf
  <2> QED
    BY <2>3, <2>4
<1>15. CurrentExists'
  BY <1>2, <1>6, <1>13, ProfilesAssumption
     DEF ProfileInv, CurrentExists, ProfileTypes, Numbers
<1> QED
  BY <1>9, <1>10, <1>11, <1>12, <1>14, <1>15 DEF ProfileInv

\* lockProfile and the choice of the generations to delete keep ProfileInv: however
\* they are chosen, the current one is not among them.
LEMMA StartDeleteInv == ASSUME ProfileInv, NEW u \in Users, StartDelete(u) PROVE ProfileInv'
<1>1. PICK todo : /\ todo \in (SUBSET (Existing \ {current})) \cup {DeleteOld(Existing, current)}
                               \cup {OlderThan(Existing, current, p) : p \in Existing}
                               \cup {GreaterThan(Existing, current, max) : max \in Numbers}
                  /\ user' = [user EXCEPT ![u].pc = "delete", ![u].todo = todo]
  BY DEF StartDelete
<1>2. todo \in SUBSET (Existing \ {current})
  <2>1. DeleteOld(Existing, current) \subseteq Existing \ {current}
    BY DEF DeleteOld
  <2>2. \A p \in Existing : OlderThan(Existing, current, p) \subseteq Existing \ {current}
    BY DEF OlderThan
  <2>3. current \in Nat /\ \A n \in Existing : n \in Nat
    BY ExistingNumbers, ProfilesAssumption DEF ProfileInv, ProfileTypes, Numbers
  <2>4. \A max \in Numbers : GreaterThan(Existing, current, max) \subseteq Existing \ {current}
    BY <2>3 DEF GreaterThan
  <2>5. CASE todo \in SUBSET (Existing \ {current})
    BY <2>5
  <2>6. CASE todo = DeleteOld(Existing, current)
    BY <2>1, <2>6
  <2>7. CASE \E p \in Existing : todo = OlderThan(Existing, current, p)
    BY <2>2, <2>7
  <2>8. CASE \E max \in Numbers : todo = GreaterThan(Existing, current, max)
    BY <2>4, <2>8
  <2> QED
    BY <1>1, <2>5, <2>6, <2>7, <2>8
<1> DEFINE r == [user[u] EXCEPT !.pc = "delete", !.todo = todo]
<1>3. todo \in SUBSET Numbers
  BY <1>2, ExistingNumbers
<1>4. r \in UserRecords /\ r.pc = "delete" /\ r.todo = todo
  <2>1. user[u] \in UserRecords
    BY UserFields
  <2> QED
    BY <1>3, <2>1 DEF UserRecords, UserPoints
<1>5. user' = [user EXCEPT ![u] = r]
  BY <1>1, UserFields
<1>6. r.pc \in PointsOf(u) /\ u \notin Updaters /\ u \notin Installers
  BY <1>4, ProfilesAssumption DEF StartDelete, PointsOf
<1>7. away' \in SUBSET Installers /\ disturbed' \in SUBSET Installers
      /\ UNCHANGED <<gens, current, setter, away, disturbed>>
      /\ owner' = u /\ owner = "nobody" /\ user[u].pc = "idle"
  BY DEF StartDelete, ProfileInv, ProfileTypes
<1>8. \A v \in Users \ {u} : owner = v => owner' = v
  BY <1>7, ProfilesAssumption
<1>9. current \notin r.todo
  BY <1>2, <1>4
<1> HIDE DEF r
<1> QED
  BY <1>4, <1>5, <1>6, <1>7, <1>8, <1>9, UserMoves

\* The end of a deletion keeps ProfileInv.
LEMMA DeleteEndsInv == ASSUME ProfileInv, NEW u \in Users, DeleteEnds(u) PROVE ProfileInv'
<1> DEFINE r == [user[u] EXCEPT !.pc = "idle"]
<1>1. r \in UserRecords /\ r.pc = "idle"
  BY UserFields DEF UserRecords, UserPoints
<1>2. user' = [user EXCEPT ![u] = r]
  BY UserFields DEF DeleteEnds
<1>3. u \notin Updaters /\ u \notin Installers /\ r.pc \in PointsOf(u)
  BY <1>1, UserFields, ProfilesAssumption DEF DeleteEnds, PointsOf
<1>4. away' \in SUBSET Installers /\ disturbed' \in SUBSET Installers /\ owner = u
  BY <1>3 DEF DeleteEnds, ProfileInv, ProfileTypes, LockedInv
<1> HIDE DEF r
<1> QED
  BY <1>1, <1>2, <1>3, <1>4, UserMoves DEF DeleteEnds

\* lockProfile and the choice of the generation to switch to keep ProfileInv.
LEMMA StartSwitchInv == ASSUME ProfileInv, NEW u \in Users, StartSwitch(u) PROVE ProfileInv'
<1> DEFINE before == {k \in Existing : k < current}
<1>1. PICK n : /\ n \in Existing \cup (IF before = {} THEN {} ELSE {Highest(before)})
               /\ user' = [user EXCEPT ![u].pc = "switch", ![u].number = n]
  BY DEF StartSwitch
<1>2. before # {} => Highest(before) \in before
  BY HighestExists, ExistingNumbers
<1>3. n \in Existing /\ n \in Numbers /\ n \in 0 .. MaxGeneration
  BY <1>1, <1>2, ExistingNumbers, ProfilesAssumption DEF Numbers
<1> DEFINE r == [user[u] EXCEPT !.pc = "switch", !.number = n]
<1>4. r \in UserRecords /\ r.pc = "switch" /\ r.number = n
  <2>1. user[u] \in UserRecords  BY UserFields
  <2>2. "switch" \in UserPoints  BY DEF UserPoints
  <2>3. r \in UserRecords  BY <1>3, <2>1, <2>2, UserGoesOn
  <2>. QED  BY <2>1, <2>3 DEF UserRecords
<1>5. user' = [user EXCEPT ![u] = r]
  BY <1>1, UserFields
<1>6. r.pc \in PointsOf(u) /\ u \notin Updaters /\ u \notin Installers
  BY <1>4, ProfilesAssumption DEF StartSwitch, PointsOf
<1>7. away' \in SUBSET Installers /\ disturbed' \in SUBSET Installers
      /\ UNCHANGED <<gens, current, setter, away, disturbed>>
      /\ owner' = u /\ owner = "nobody" /\ user[u].pc = "idle"
  BY DEF StartSwitch, ProfileInv, ProfileTypes
<1>8. \A v \in Users \ {u} : owner = v => owner' = v
  BY <1>7, ProfilesAssumption
<1> HIDE DEF r, before
<1> QED
  BY <1>3, <1>4, <1>5, <1>6, <1>7, <1>8, UserMoves

\* ProfileInv is inductive.
LEMMA ProfileStep == ProfileInv /\ [ProfileNext]_profileVars => ProfileInv'
<1> SUFFICES ASSUME ProfileInv, [ProfileNext]_profileVars
             PROVE  ProfileInv'
  OBVIOUS
<1>1. CASE UNCHANGED profileVars
  BY <1>1 DEF profileVars, ProfileInv, ProfileTypes, LockedInv, NumberInv, DeleteInv,
              TokenInv, TokenOf, SwitchesToCurrent, CurrentExists, Existing, Env, PointsOf
<1>2. CASE ProfileNext
  BY <1>2, TakeTokenInv, ReadEnvInv, CheckTokenInv, StartUpdateInv, FindLastInv, MakeLinkInv,
     SwitchLinkInv, StartDeleteInv, DeleteGenerationInv, DeleteEndsInv, StartSwitchInv
     DEF ProfileNext
<1> QED
  BY <1>1, <1>2

\* The profile points to a generation that exists, unless a command that takes no
\* lock has set it (profiles.cc switchLink, deleteGenerations*).
THEOREM ProfileExists == ProfileSpec => []CurrentExists
<1>1. ProfileInv => CurrentExists
  BY ProfileInvKept
<1> QED
  BY <1>1, ProfileInitInv, ProfileStep, PTL DEF ProfileSpec

\* What nix-env commits is based on the environment it replaces (user-env.cc
\* createUserEnv, optimisticLockProfile).
THEOREM UpdatesKept == ProfileSpec => []NoLostUpdate
<1>1. ProfileInv => NoLostUpdate
  BY ProfileInvKept
<1> QED
  BY <1>1, ProfileInitInv, ProfileStep, PTL DEF ProfileSpec

\* A step replaces a link only if an updater makes the new one or has made the old one.
LEMMA LinksKept ==
    ASSUME ProfileInv, [ProfileNext]_profileVars
    PROVE  [\A n \in Numbers :
              gens[n] # NoLink /\ gens'[n] # NoLink /\ gens'[n] # gens[n] =>
                  gens[n].by \in Updaters \/ gens'[n].by \in Updaters]_profileVars
<1> SUFFICES ASSUME NEW u \in Users, ProfileNext, NEW n \in Numbers,
                    gens[n] # NoLink, gens'[n] # NoLink, gens'[n] # gens[n],
                    \/ TakeToken(u) \/ ReadEnv(u) \/ CheckToken(u) \/ StartUpdate(u)
                    \/ FindLast(u) \/ MakeLink(u) \/ SwitchLink(u)
                    \/ StartDelete(u) \/ DeleteGeneration(u) \/ DeleteEnds(u) \/ StartSwitch(u)
             PROVE  gens[n].by \in Updaters \/ gens'[n].by \in Updaters
  BY DEF ProfileNext
<1>1. gens \in [Numbers -> Links]
  BY DEF ProfileInv, ProfileTypes
<1>2. CASE MakeLink(u)
  <2>1. user[u].pc = "root" /\ gens' = [gens EXCEPT ![user[u].number] = [env |-> NewEnv(u), by |-> u]]
    BY <1>2 DEF MakeLink
  <2>2. n = user[u].number
    BY <1>1, <2>1
  <2>3. u \in Installers \cup Updaters
    BY <2>1, UserFields DEF PointsOf
  <2>4. n \in Existing
    BY DEF Existing
  <2>5. CASE u \in Installers
    BY <2>1, <2>2, <2>4, <2>5 DEF ProfileInv, TokenInv, TokenOf
  <2>6. CASE u \in Updaters
    <3>1. gens'[n].by = u
      BY <1>1, <2>1, <2>2
    <3> QED
      BY <2>6, <3>1
  <2> QED
    BY <2>3, <2>5, <2>6
<1>3. CASE DeleteGeneration(u)
  <2>1. PICK k \in user[u].todo : gens' = [gens EXCEPT ![k] = NoLink]
    BY <1>3 DEF DeleteGeneration
  <2> QED
    BY <1>1, <2>1
<1> QED
  BY <1>2, <1>3
     DEF TakeToken, ReadEnv, CheckToken, StartUpdate, FindLast, SwitchLink, StartDelete,
         DeleteEnds, StartSwitch

\* A generation that exists is never replaced, except by a command that takes no lock,
\* or one that such a command has made (profiles.cc createGeneration).
THEOREM LinksNeverReplaced == ProfileSpec => GenerationsKept
  BY ProfileInitInv, ProfileStep, LinksKept, PTL DEF ProfileSpec, GenerationsKept
=============================================================================
