------------------------------ MODULE Profiles ------------------------------
(***************************************************************************)
(* libstore/profiles.cc: the generations of one profile and the processes  *)
(* that use it.  Installers are nix-env operations (optimistic locking,    *)
(* nix-env/user-env.cc), updaters are commands with --profile, which take  *)
(* no lock (libcmd/command.cc), managers switch and delete generations.    *)
(* The profile's lock is that of AbstractLock.                             *)
(***************************************************************************)
EXTENDS Naturals, FiniteSets

CONSTANTS
    Installers, Updaters, Managers,
    MaxGeneration       \* bound on generation numbers

Users == Installers \cup Updaters \cup Managers

ASSUME ProfilesAssumption ==
    /\ IsFiniteSet(Users) /\ MaxGeneration \in Nat \ {0}
    /\ Installers \cap Updaters = {} /\ Installers \cap Managers = {}
    /\ Updaters \cap Managers = {} /\ "nobody" \notin Users

Numbers == 1 .. MaxGeneration
NoLink == [env |-> {}, by |-> "nobody"]

VARIABLES
    gens,       \* gens[n]: what the link of generation n points to, and whose it is
    current,    \* the generation the profile points to, 0 if there is none
    owner,      \* who has the profile locked
    user,       \* where each process is, and its locals
    setter,     \* who set current
    away,       \* the installers under whose feet current has been set
    disturbed   \* those with an environment that a command without the lock has outdated

profileVars == <<gens, current, owner, user, setter, away, disturbed>>

Start(pc) == [pc |-> pc, token |-> 0, env |-> {}, number |-> 0, todo |-> {}]

ProfileInit ==
    /\ gens = [n \in Numbers |-> IF n = 1 THEN [env |-> {}, by |-> "first"] ELSE NoLink]
    /\ current \in {0, 1}
    /\ owner = "nobody"
    /\ user = [u \in Users |-> Start("idle")]
    /\ setter = "nobody"
    /\ away = {}
    /\ disturbed = {}

Existing == {n \in Numbers : gens[n] # NoLink}
Env(n) == IF n = 0 THEN {} ELSE gens[n].env
Highest(S) == IF S = {} THEN 0 ELSE CHOOSE n \in S : \A k \in S : k <= n

\* Installers that have read the environment and have not yet replaced it.
Reading == {v \in Installers : user[v].pc \in {"built", "find", "root"}}

\* nix-env: optimisticLockProfile(), then the installed elements are read.
TakeToken(u) ==
    /\ u \in Installers /\ user[u].pc = "idle"
    /\ user' = [user EXCEPT ![u].pc = "token", ![u].token = current]
    /\ away' = away \ {u}
    /\ disturbed' = disturbed \ {u}
    /\ UNCHANGED <<gens, current, owner, setter>>

ReadEnv(u) ==
    /\ user[u].pc = "token"
    /\ user' = [user EXCEPT ![u].pc = "built", ![u].env = Env(current)]
    /\ UNCHANGED <<gens, current, owner, setter, away, disturbed>>

\* Mutant of CheckToken: the environment is committed whatever has changed.
CheckNothing(u) ==
    /\ user[u].pc = "built" /\ owner = "nobody"
    /\ user' = [user EXCEPT ![u].pc = "find"]
    /\ owner' = u
    /\ UNCHANGED <<gens, current, setter, away, disturbed>>

\* createUserEnv: lock the profile; start again if it has changed.
CheckToken(u) ==
    /\ user[u].pc = "built" /\ owner = "nobody"
    /\ LET same == user[u].token = current
       IN  /\ user' = [user EXCEPT ![u].pc = IF same THEN "find" ELSE "idle"]
           /\ owner' = IF same THEN u ELSE owner
    /\ UNCHANGED <<gens, current, setter, away, disturbed>>

StartUpdate(u) ==
    /\ u \in Updaters /\ user[u].pc = "idle"
    /\ user' = [user EXCEPT ![u].pc = "find"]
    /\ UNCHANGED <<gens, current, owner, setter, away, disturbed>>

NewEnv(u) == user[u].env \cup {u}

\* Mutant of FindLast: the number after the current generation is taken.
FindCurrent(u) ==
    /\ user[u].pc = "find" /\ current < MaxGeneration
    /\ user' = [user EXCEPT ![u].pc = "root", ![u].number = current + 1]
    /\ UNCHANGED <<gens, current, owner, setter, away, disturbed>>

\* createGeneration: the last generation, if it is the same, or the next number.
FindLast(u) ==
    LET last == Highest(Existing)
        same == last # 0 /\ gens[last].env = NewEnv(u)
    IN  /\ user[u].pc = "find" /\ (same \/ last < MaxGeneration)
        /\ user' = [user EXCEPT ![u].pc = IF same THEN "switch" ELSE "root",
                                ![u].number = IF same THEN last ELSE last + 1]
        /\ UNCHANGED <<gens, current, owner, setter, away, disturbed>>

\* addPermRoot() makes the link or replaces it.
MakeLink(u) ==
    LET n == user[u].number
    IN  /\ user[u].pc = "root"
        /\ gens' = [gens EXCEPT ![n] = [env |-> NewEnv(u), by |-> u]]
        /\ user' = [user EXCEPT ![u].pc = "switch"]
        /\ disturbed' = IF u \in Updaters /\ n = current THEN disturbed \cup Reading ELSE disturbed
        /\ UNCHANGED <<current, owner, setter, away>>

\* switchLink(); the lock goes with it, if there is one.  The process is over, and
\* another one may follow.
SwitchLink(u) ==
    /\ user[u].pc = "switch"
    /\ current' = user[u].number
    /\ setter' = u
    /\ user' = [user EXCEPT ![u] = Start(IF u \in Managers THEN "idle" ELSE "done")]
    /\ owner' = IF owner = u THEN "nobody" ELSE owner
    /\ away' = {v \in Installers : user[v].pc \in {"token", "built"}} \cup (away \ {u})
    /\ disturbed' = IF u \in Updaters THEN disturbed \cup Reading ELSE disturbed
    /\ UNCHANGED gens

-----------------------------------------------------------------------------
(* switchGeneration and the deletions, for generations S and current one c   *)

DeleteOld(S, c) == S \ {c}

\* deleteGenerationsOlderThan: p is the last generation that is older; it was
\* current at the given time and stays.
OlderThan(S, c, p) == {n \in S : n < p} \ {c}

\* Mutant of GreaterThan: the generations to keep are counted from the last one.
GreaterThanLast(S, c, max) == {n \in S : Cardinality({k \in S : n < k}) >= max}

\* deleteGenerationsGreaterThan: keep max generations that end with the current
\* one, and all newer ones; nothing is deleted if the current one is not found.
GreaterThan(S, c, max) ==
    {n \in S : c \in S /\ n < c /\ Cardinality({k \in S : n < k /\ k <= c}) >= max}

\* lockProfile(), findGenerations() and what is to be deleted.
StartDelete(u) ==
    LET S == Existing
    IN  /\ u \in Managers /\ user[u].pc = "idle" /\ owner = "nobody"
        /\ \E todo \in (SUBSET (S \ {current})) \cup {DeleteOld(S, current)}
                         \cup {OlderThan(S, current, p) : p \in S}
                         \cup {GreaterThan(S, current, max) : max \in Numbers} :
              user' = [user EXCEPT ![u].pc = "delete", ![u].todo = todo]
        /\ owner' = u
        /\ UNCHANGED <<gens, current, setter, away, disturbed>>

DeleteGeneration(u) ==
    /\ user[u].pc = "delete"
    /\ \E n \in user[u].todo :
        /\ gens' = [gens EXCEPT ![n] = NoLink]
        /\ user' = [user EXCEPT ![u].todo = @ \ {n}]
        /\ disturbed' = IF n = current /\ setter \in Updaters THEN disturbed \cup Reading
                        ELSE disturbed
    /\ UNCHANGED <<current, owner, setter, away>>

DeleteEnds(u) ==
    /\ user[u].pc = "delete" /\ user[u].todo = {}
    /\ user' = [user EXCEPT ![u].pc = "idle"]
    /\ owner' = "nobody"
    /\ UNCHANGED <<gens, current, setter, away, disturbed>>

\* switchGeneration to a given generation or, as a rollback, to the one before.
StartSwitch(u) ==
    LET before == {n \in Existing : n < current}
    IN  /\ u \in Managers /\ user[u].pc = "idle" /\ owner = "nobody"
        /\ \E n \in Existing \cup (IF before = {} THEN {} ELSE {Highest(before)}) :
              user' = [user EXCEPT ![u].pc = "switch", ![u].number = n]
        /\ owner' = u
        /\ UNCHANGED <<gens, current, setter, away, disturbed>>

ProfileNext ==
    \E u \in Users :
        \/ TakeToken(u) \/ ReadEnv(u) \/ CheckToken(u) \/ StartUpdate(u)
        \/ FindLast(u) \/ MakeLink(u) \/ SwitchLink(u)
        \/ StartDelete(u) \/ DeleteGeneration(u) \/ DeleteEnds(u) \/ StartSwitch(u)

ProfileSpec == ProfileInit /\ [][ProfileNext]_profileVars

-----------------------------------------------------------------------------
\* The profile points to a generation that exists, whatever is deleted, rolled
\* back and installed at the same time; only a command that updates the profile
\* without the lock can find its generation deleted under it.
CurrentExists ==
    current # 0 => gens[current] # NoLink \/ setter \in Updaters

\* What an installer commits is based on the environment it replaces, although
\* it is built without the lock: if the profile changed meanwhile, it starts again.
\* (The check compares names: it does not see that the profile changed and came
\* back, which may be to another generation with the same number.)  Only a command
\* that takes no lock can set or replace the current generation, or have set one that
\* is deleted, after the installer has read it; one that is over and has not done so
\* while this installer was at work is no excuse.
NoLostUpdate ==
    \A u \in Installers : user[u].pc \in {"find", "root"} =>
        \/ user[u].env = Env(current)
        \/ user[u].token = current /\ u \in away
        \/ u \in disturbed

\* A generation that exists is never replaced, except by a command that takes no
\* lock, or one that such a command has made.
GenerationsKept ==
    [][\A n \in Numbers :
         gens[n] # NoLink /\ gens'[n] # NoLink /\ gens'[n] # gens[n] =>
             gens[n].by \in Updaters \/ gens'[n].by \in Updaters]_profileVars
=============================================================================
