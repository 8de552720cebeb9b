----------------------------- MODULE BuildHook -----------------------------
(***************************************************************************)
(* nix/build-remote/build-remote.cc: the processes that the scheduler asks *)
(* whether a derivation can be built on another machine.  They share the   *)
(* lock files in current-load: main-lock, and one for each slot of each    *)
(* machine.  flock and the machines are external; a process that dies      *)
(* loses its locks.                                                        *)
(***************************************************************************)
EXTENDS Naturals, FiniteSets

CONSTANTS
    Hooks,
    NrMachines,           \* they are numbered in the order of getMachines()
    MaxJobs, SpeedFactor, \* of each machine
    Suits,                \* Suits[m]: the hooks whose derivation m can build
    NoHook

Machines == 1 .. NrMachines
Slots == UNION {{m} \X (1 .. MaxJobs[m]) : m \in Machines}

ASSUME HookAssumption ==
    /\ NrMachines \in Nat
    /\ MaxJobs \in [Machines -> Nat] /\ SpeedFactor \in [Machines -> Nat \ {0}]
    /\ Suits \in [Machines -> SUBSET Hooks] /\ NoHook \notin Hooks

VARIABLES
    mainLock,   \* the hook that has main-lock
    slotLock,   \* slotLock[<<m, s>>]: the hook that has this slot locked
    hook,       \* the locals of each hook; best = <<0, 0>> stands for no slot
    found       \* found[h]: the machines with a free slot and their load, as
                \* h considered them; and whom it counted before they had chosen

hookVars == <<mainLock, slotLock, hook, found>>

\* A hook that goes on at pc with nothing in hand.
Fresh(pc, enabled) == [pc |-> pc, m |-> 1, best |-> <<0, 0>>, bestLoad |-> 0,
                       enabled |-> enabled, rightType |-> FALSE]

Nothing == [free |-> {}, load |-> [m \in Machines |-> 0], undecided |-> {}]

HookInit ==
    /\ mainLock = NoHook
    /\ slotLock = [s \in Slots |-> NoHook]
    /\ hook = [h \in Hooks |-> Fresh("idle", Machines)]
    /\ found = [h \in Hooks |-> Nothing]

\* The slot locks after h has closed all of its descriptors but one.
OnlySlot(h, keep) ==
    [s \in Slots |-> IF s = keep THEN h ELSE IF slotLock[s] = h THEN NoHook ELSE slotLock[s]]

\* Mutant of TakeMainLock: the lock is not waited for.
TakeNoLock(h) ==
    /\ hook[h].pc \in {"idle", "again"}
    /\ hook' = [hook EXCEPT ![h] = Fresh("scan", @.enabled)]
    /\ found' = [found EXCEPT ![h] = Nothing]
    /\ UNCHANGED <<mainLock, slotLock>>

\* A question from the scheduler, or the next round after a failed connection; the
\* hook has no slot while it waits.
TakeMainLock(h) ==
    /\ hook[h].pc \in {"idle", "again"} /\ mainLock = NoHook
    /\ mainLock' = h
    /\ hook' = [hook EXCEPT ![h] = Fresh("scan", @.enabled)]
    /\ found' = [found EXCEPT ![h] = Nothing]
    /\ UNCHANGED slotLock

\* Machine m with this load is better than the best one so far, n.
Better(m, load, n, bestLoad) ==
    LET a == load * SpeedFactor[n]
        b == bestLoad * SpeedFactor[m]
    IN  \/ a < b
        \/ a = b /\ SpeedFactor[m] > SpeedFactor[n]
        \/ a = b /\ SpeedFactor[m] = SpeedFactor[n] /\ load < bestLoad

\* One iteration of the loop over the machines: try to lock each of its slots,
\* keep the first that is free, and keep the better of it and the best one.
Consider(h) ==
    LET m == hook[h].m
        mine == {s \in Slots : s[1] = m}
        taken == {s \in mine : slotLock[s] # NoHook}
        load == Cardinality(taken)
        suitable == m \in hook[h].enabled /\ h \in Suits[m]
        free == CHOOSE s \in mine \ taken : \A t \in mine \ taken : s[2] <= t[2]
        best == hook[h].best
        wins == /\ suitable /\ taken # mine
                /\ best = <<0, 0>> \/ Better(m, load, best[1], hook[h].bestLoad)
    IN  /\ hook[h].pc = "scan" /\ m <= NrMachines
        /\ hook' = [hook EXCEPT ![h].m = m + 1, ![h].rightType = @ \/ suitable,
                                ![h].best = IF wins THEN free ELSE @,
                                ![h].bestLoad = IF wins THEN load ELSE @]
        /\ slotLock' = OnlySlot(h, IF wins THEN free ELSE best)
        /\ found' = IF ~suitable THEN found ELSE
              [found EXCEPT ![h].free = IF taken = mine THEN @ ELSE @ \cup {m},
                            ![h].load[m] = load,
                            ![h].undecided = @ \cup {slotLock[s] : s \in
                                {s \in taken : hook[slotLock[s]].pc = "scan"}}]
        /\ UNCHANGED mainLock

\* No slot: postpone, or decline.
Refuse(h) ==
    /\ hook[h].pc = "scan" /\ hook[h].m > NrMachines /\ hook[h].best = <<0, 0>>
    /\ \E canBuildLocally \in BOOLEAN :
          hook' = [hook EXCEPT ![h] = Fresh(IF @.rightType /\ ~canBuildLocally
                                            THEN "postponed" ELSE "declined", @.enabled)]
    /\ mainLock' = NoHook
    /\ found' = [found EXCEPT ![h] = Nothing]
    /\ UNCHANGED slotLock

ReleaseMainLock(h) ==
    /\ hook[h].pc = "scan" /\ hook[h].m > NrMachines /\ hook[h].best # <<0, 0>>
    /\ hook' = [hook EXCEPT ![h].pc = "connect"]
    /\ mainLock' = NoHook
    /\ UNCHANGED <<slotLock, found>>

\* Mutant of ConnectFails: the machine stays enabled.
ConnectFailsQuietly(h) ==
    /\ hook[h].pc = "connect"
    /\ hook' = [hook EXCEPT ![h].pc = "again"]
    /\ slotLock' = OnlySlot(h, <<0, 0>>)
    /\ UNCHANGED <<mainLock, found>>

\* Mutant of ConnectFails: the slot is kept for the next round.
ConnectFailsWithSlot(h) ==
    /\ hook[h].pc = "connect"
    /\ hook' = [hook EXCEPT ![h].pc = "again", ![h].enabled = @ \ {hook[h].best[1]}]
    /\ UNCHANGED <<mainLock, slotLock, found>>

\* The next round begins with the release of the slot, before main-lock is waited for.
ConnectFails(h) ==
    /\ hook[h].pc = "connect"
    /\ hook' = [hook EXCEPT ![h].pc = "again", ![h].enabled = @ \ {hook[h].best[1]}]
    /\ slotLock' = OnlySlot(h, <<0, 0>>)
    /\ UNCHANGED <<mainLock, found>>

\* "# accept"; the slot lock is kept until the process ends.
Accept(h) ==
    /\ hook[h].pc = "connect"
    /\ hook' = [hook EXCEPT ![h].pc = "accepted"]
    /\ found' = [found EXCEPT ![h] = Nothing]
    /\ UNCHANGED <<mainLock, slotLock>>

\* The scheduler tries again later with the same process.
AskAgain(h) ==
    /\ hook[h].pc \in {"postponed", "declined"}
    /\ hook' = [hook EXCEPT ![h].pc = "idle"]
    /\ UNCHANGED <<mainLock, slotLock, found>>

\* The build is over, or the process is killed at any point; a new one follows.
Exit(h) ==
    /\ hook[h].pc # "idle"
    /\ hook' = [hook EXCEPT ![h] = Fresh("idle", Machines)]
    /\ slotLock' = OnlySlot(h, <<0, 0>>)
    /\ mainLock' = IF mainLock = h THEN NoHook ELSE mainLock
    /\ found' = [found EXCEPT ![h] = Nothing]

HookStep(h) ==
    \/ (hook[h].pc # "idle" /\ TakeMainLock(h)) \/ Consider(h) \/ Refuse(h)
    \/ ReleaseMainLock(h) \/ ConnectFails(h) \/ Accept(h)

HookNext ==
    \E h \in Hooks : \/ TakeMainLock(h) \/ Consider(h) \/ Refuse(h) \/ ReleaseMainLock(h)
                     \/ ConnectFails(h) \/ Accept(h) \/ AskAgain(h) \/ Exit(h)

\* A process that has been asked runs, and main-lock is not denied to it for ever.
HookFairness ==
    \A h \in Hooks : SF_hookVars(HookStep(h))

HookSpec == HookInit /\ [][HookNext]_hookVars /\ HookFairness

-----------------------------------------------------------------------------
\* A slot is counted as load only if the hook that has it has decided for it; and
\* the machine a hook connects to is, of the suitable machines with a free slot,
\* one with the least load per speed and, of those, one of the fastest; the hook
\* still has the slot it found there.  No hook has another slot than its best one, and
\* none while it waits: neither after a refusal nor after a failed connection.
BestMachineChosen ==
    \A h \in Hooks :
        /\ \A s \in Slots : slotLock[s] = h =>
              s = hook[h].best /\ hook[h].pc \in {"scan", "connect", "accepted"}
        /\ found[h].undecided = {}
        /\ hook[h].pc = "connect" =>
              LET n == hook[h].best[1]
              IN  /\ slotLock[hook[h].best] = h
                  /\ n \in found[h].free
                  /\ \A m \in found[h].free :
                        LET a == found[h].load[m] * SpeedFactor[n]
                            b == found[h].load[n] * SpeedFactor[m]
                        IN  a > b \/ (a = b /\ SpeedFactor[m] <= SpeedFactor[n])

\* A hook that has failed to connect ends with an answer or a connection: it does
\* not try the same machine for ever.
HookAnswers ==
    \A h \in Hooks : hook[h].pc = "again" ~> hook[h].pc \notin {"again", "scan", "connect"}
=============================================================================
