------------------------------ MODULE MCThreads ------------------------------
(***************************************************************************)
(* What threads, callbacks and evaluations of a process share: the thread  *)
(* pool, the pool of connections, closures, the path info cache and lazy   *)
(* values.  A behaviour is one of the component that is chosen at the      *)
(* start; the others stay in an initial state.                             *)
(***************************************************************************)
EXTENDS ProcessGraph, ConnectionPool, Closure, PathInfoCache, Thunks

VARIABLE component

threadVars == <<component, graphVars, connectionVars, closureVars, cacheVars, thunkVars>>

\* Every graph on the nodes 1 to 3, up to their names: those with more references have
\* higher numbers.  Node 1 refers to itself and node 2 to a node that is not processed.
SomeGraphs ==
    LET Degree(g, n) == Cardinality(g[n] \ {0, n})
    IN  {g \in [Items -> SUBSET (0 .. 3)] :
            /\ \A n \in Items : (n \in g[n] <=> n = 1) /\ (0 \in g[n] <=> n = 2)
            /\ Degree(g, 1) <= Degree(g, 2) /\ Degree(g, 2) <= Degree(g, 3)}
NoLoops == {g \in [Elements -> SUBSET Elements] : \A e \in Elements : e \notin g[e]}

\* A number, throw, another value, tryEval of one, or the sum of two.
Leaf(op) == [op |-> op, n |-> 1, args |-> <<>>]
Node(op, args) == [op |-> op, n |-> 0, args |-> args]
Exprs ==
    {Leaf("number"), Leaf("throw")}
        \cup {Node(op, <<x>>) : op \in {"var", "try"}, x \in Values}
        \cup {Node("plus", <<p[1], p[2]>>) : p \in {q \in Values \X Values : q[1] # q[2]}}
\* Any expressions, but value 3 is no sum.
SomePrograms == {f \in [Values -> Exprs] : f[3].op # "plus"}

AnyOf(S) == {CHOOSE x \in S : TRUE}

ThreadsInit ==
    /\ component \in {"graph", "connection", "closure", "cache", "thunks"}
    /\ edges \in IF component = "graph" THEN Graphs ELSE AnyOf(Graphs)
    /\ edge \in IF component = "closure" THEN EdgeSets ELSE AnyOf(EdgeSets)
    /\ wanted \in IF component = "closure" THEN Starts ELSE AnyOf(Starts)
    /\ program \in IF component = "thunks" THEN Programs ELSE AnyOf(Programs)
    /\ apps \in IF component = "thunks" THEN AppSets ELSE AnyOf(AppSets)
    /\ GraphInit /\ ConnectionInit /\ ClosureInit /\ CacheInit /\ ThunksInit
    /\ component = "cache" \/ db = {}

OnlyGraph(A) ==
    component = "graph" /\ A
    /\ UNCHANGED <<component, connectionVars, closureVars, cacheVars, thunkVars>>
OnlyConnection(A) ==
    component = "connection" /\ A
    /\ UNCHANGED <<component, graphVars, closureVars, cacheVars, thunkVars>>
OnlyClosure(A) ==
    component = "closure" /\ A
    /\ UNCHANGED <<component, graphVars, connectionVars, cacheVars, thunkVars>>
OnlyCache(A) ==
    component = "cache" /\ A
    /\ UNCHANGED <<component, graphVars, connectionVars, closureVars, thunkVars>>
OnlyThunks(A) ==
    component = "thunks" /\ A
    /\ UNCHANGED <<component, graphVars, connectionVars, closureVars, cacheVars>>

ThreadsNext ==
    \/ OnlyGraph(GraphNext) \/ OnlyConnection(ConnectionNext)
    \/ OnlyClosure(ClosureNext) \/ OnlyCache(CacheNext) \/ OnlyThunks(ThunksNext)

\* The fairness of each component, while it is the one that runs.
ThreadsFairness ==
    /\ WF_threadVars(OnlyGraph(GraphMain))
    /\ \A t \in Threads : WF_threadVars(OnlyGraph(GraphThread(t)))
    /\ \A c \in Clients : WF_threadVars(OnlyConnection(ClientStep(c)))
    /\ WF_threadVars(OnlyClosure(EnqueueStart)) /\ WF_threadVars(OnlyClosure(Caller))
    /\ \A e \in Elements :
          WF_threadVars(OnlyClosure(EdgesArrive(e) \/ EnqueueChild(e) \/ CallbackDone(e)))

ThreadsSpec == ThreadsInit /\ [][ThreadsNext]_threadVars /\ ThreadsFairness
=============================================================================
