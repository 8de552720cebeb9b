--------------------------- MODULE ConnectionPool ---------------------------
(***************************************************************************)
(* The connections of a RemoteStore: libutil/pool.hh, used by clients that *)
(* call getConnection() and, in addCAToStore, again while they read a      *)
(* source that calls the store (with the capacity raised for that time).   *)
(***************************************************************************)
EXTENDS Naturals, FiniteSets, Sequences

CONSTANTS
    Clients,
    Nesting,        \* the clients that may use the store while they use it
    MaxConnections

ASSUME PoolAssumption ==
    IsFiniteSet(Clients) /\ Nesting \subseteq Clients /\ MaxConnections \in Nat \ {0}

Connections == 1 .. MaxConnections + Cardinality(Clients)

VARIABLES
    inUse, max, idle,   \* struct State of the pool
    failed,             \* RemoteStore::failed
    cpc,                \* where each client is
    held,               \* held[c]: the connections of its handles
    nested              \* nested[c]: it uses the store while it uses it

connectionVars == <<inUse, max, idle, failed, cpc, held, nested>>

ConnectionInit ==
    /\ inUse = 0 /\ max = MaxConnections /\ idle = {} /\ failed = FALSE
    /\ cpc = [c \in Clients |-> "get"]
    /\ held = [c \in Clients |-> <<>>]
    /\ nested = [c \in Clients |-> "notYet"]

InHand == UNION {{held[c][i] : i \in DOMAIN held[c]} : c \in Clients}

\* cpc after c has gone on at label and wakeup.notify_one().
Notify(c, label) ==
    LET W == {d \in Clients : cpc[d] = "waiting"}
        at == [cpc EXCEPT ![c] = label]
    IN  IF W = {} THEN {at} ELSE {[at EXCEPT ![d] = "get"] : d \in W}

\* get(): no connection is idle and the capacity is used up.
Wait(c) ==
    /\ cpc[c] = "get" /\ idle = {} /\ inUse >= max
    /\ cpc' = [cpc EXCEPT ![c] = "waiting"]
    /\ UNCHANGED <<inUse, max, idle, failed, held, nested>>

\* get(): an idle connection that the validator accepts, after it has rejected
\* (and the pool dropped) some others.
TakeIdle(c) ==
    /\ cpc[c] = "get"
    /\ \E r \in idle : \E bad \in SUBSET (idle \ {r}) :
        /\ idle' = (idle \ {r}) \ bad
        /\ held' = [held EXCEPT ![c] = Append(@, r)]
    /\ inUse' = inUse + 1
    /\ cpc' = [cpc EXCEPT ![c] = "using"]
    /\ UNCHANGED <<max, failed, nested>>

\* get(): all idle connections are rejected, or there is none: make a new one.
Reserve(c) ==
    /\ cpc[c] = "get" /\ (idle # {} \/ inUse < max)
    /\ idle' = {} /\ inUse' = inUse + 1
    /\ cpc' = [cpc EXCEPT ![c] = "factory"]
    /\ UNCHANGED <<max, failed, held, nested>>

\* openConnectionWrapper(): no connection has failed so far.
StartOpening(c) ==
    /\ cpc[c] = "factory" /\ ~failed
    /\ cpc' = [cpc EXCEPT ![c] = "opening"]
    /\ UNCHANGED <<inUse, max, idle, failed, held, nested>>

\* openConnection() succeeds, although one of another client may have failed meanwhile.
Connected(c) ==
    /\ cpc[c] = "opening"
    /\ \E r \in Connections \ (idle \cup InHand) :
        /\ \A s \in Connections \ (idle \cup InHand) : r <= s
        /\ held' = [held EXCEPT ![c] = Append(@, r)]
    /\ cpc' = [cpc EXCEPT ![c] = "using"]
    /\ UNCHANGED <<inUse, max, idle, failed, nested>>

\* Mutant of ConnectionFails: nobody is told of the slot.
ConnectionFailsQuietly(c) ==
    /\ cpc[c] = "opening" \/ (cpc[c] = "factory" /\ failed)
    /\ failed' = TRUE
    /\ inUse' = inUse - 1
    /\ cpc' = [cpc EXCEPT ![c] = "threw"]
    /\ UNCHANGED <<max, idle, held, nested>>

\* The factory throws: openConnection() fails, or one has failed before this one began.
ConnectionFails(c) ==
    /\ cpc[c] = "opening" \/ (cpc[c] = "factory" /\ failed)
    /\ failed' = TRUE
    /\ inUse' = inUse - 1
    /\ cpc' \in Notify(c, "threw")
    /\ UNCHANGED <<max, idle, held, nested>>

\* addCAToStore: incCapacity() before the source is read (once, in this model).
IncCapacity(c) ==
    /\ c \in Nesting /\ cpc[c] = "using" /\ nested[c] = "notYet"
    /\ nested' = [nested EXCEPT ![c] = "now"]
    /\ max' = max + 1
    /\ cpc' = [cpc EXCEPT ![c] = "get"]
    /\ UNCHANGED <<inUse, idle, failed, held>>

\* The operation is over or throws.
Used(c) ==
    /\ cpc[c] = "using"
    /\ \E label \in {"returned", "threw"} : cpc' = [cpc EXCEPT ![c] = label]
    /\ UNCHANGED <<inUse, max, idle, failed, held, nested>>

\* The handles c has while it is not within get() at its level of nesting.
Depth(c) == IF nested[c] = "now" THEN 2 ELSE 1

\* Mutant of CloseHandle: inUse is not lowered.
CloseHandleUncounted(c) ==
    LET n == Len(held[c])
    IN  /\ cpc[c] \in {"returned", "threw"} /\ n = Depth(c)
        /\ held' = [held EXCEPT ![c] = SubSeq(@, 1, n - 1)]
        /\ \E bad \in {FALSE, cpc[c] = "threw"} :
              idle' = IF bad THEN idle ELSE idle \cup {held[c][n]}
        /\ cpc' = [cpc EXCEPT ![c] = IF @ = "returned" THEN "notify" ELSE "notifyThrew"]
        /\ UNCHANGED <<inUse, max, failed, nested>>

\* ~Handle of the innermost handle; ConnectionHandle has marked the connection
\* bad if an exception leaves that did not come from the daemon.
CloseHandle(c) ==
    LET n == Len(held[c])
    IN  /\ cpc[c] \in {"returned", "threw"} /\ n = Depth(c)
        /\ held' = [held EXCEPT ![c] = SubSeq(@, 1, n - 1)]
        /\ \E bad \in {FALSE, cpc[c] = "threw"} :
              idle' = IF bad THEN idle ELSE idle \cup {held[c][n]}
        /\ inUse' = inUse - 1
        /\ cpc' = [cpc EXCEPT ![c] = IF @ = "returned" THEN "notify" ELSE "notifyThrew"]
        /\ UNCHANGED <<max, failed, nested>>

\* wakeup.notify_one(), after the lock has been released.
HandleClosed(c) ==
    /\ cpc[c] \in {"notify", "notifyThrew"}
    /\ cpc' \in Notify(c, IF nested[c] # "now" THEN "done"
                          ELSE IF cpc[c] = "notify" THEN "left" ELSE "threw")
    /\ UNCHANGED <<inUse, max, idle, failed, held, nested>>

\* decCapacity() after the source has been read or has thrown.
DecCapacity(c) ==
    /\ nested[c] = "now" /\ cpc[c] \in {"left", "threw"} /\ Len(held[c]) = 1
    /\ nested' = [nested EXCEPT ![c] = "past"]
    /\ max' = max - 1
    /\ cpc' = [cpc EXCEPT ![c] = IF @ = "left" THEN "using" ELSE "threw"]
    /\ UNCHANGED <<inUse, idle, failed, held>>

\* An exception of get() leaves a client that has no handle.
NoHandle(c) ==
    /\ cpc[c] = "threw" /\ held[c] = <<>>
    /\ cpc' = [cpc EXCEPT ![c] = "done"]
    /\ UNCHANGED <<inUse, max, idle, failed, held, nested>>

ClientStep(c) ==
    \/ Wait(c) \/ TakeIdle(c) \/ Reserve(c) \/ StartOpening(c) \/ Connected(c)
    \/ ConnectionFails(c) \/ IncCapacity(c) \/ Used(c) \/ CloseHandle(c) \/ HandleClosed(c)
    \/ DecCapacity(c) \/ NoHandle(c)

ConnectionNext == \E c \in Clients : ClientStep(c)

\* A client that is not waiting runs, and its operations end.
ConnectionFairness == \A c \in Clients : WF_connectionVars(ClientStep(c))

ConnectionSpec == ConnectionInit /\ [][ConnectionNext]_connectionVars /\ ConnectionFairness

-----------------------------------------------------------------------------
\* No connection is used by two clients, or used and idle at once; inUse is the
\* number of handles and of connections being opened, and there are never more
\* connections than the maximum and one for each client that uses the store while
\* it uses it, although the capacity is lowered while connections are idle.
ConnectionsExclusive ==
    /\ \A c, d \in Clients : \A i \in DOMAIN held[c], j \in DOMAIN held[d] :
          held[c][i] = held[d][j] => c = d /\ i = j
    /\ idle \cap InHand = {}
    /\ inUse = Cardinality(InHand) + Cardinality({c \in Clients : cpc[c] \in {"factory", "opening"}})
    /\ inUse + Cardinality(idle) <= MaxConnections + Cardinality(Nesting)

\* Every client gets a connection or an exception and ends: no wake-up is lost,
\* and clients that use the store while they use it do not block each other.
ClientsDone == (\E c \in Clients : cpc[c] # "get") ~> \A c \in Clients : cpc[c] = "done"
=============================================================================
