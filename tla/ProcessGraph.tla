---------------------------- MODULE ProcessGraph ----------------------------
(***************************************************************************)
(* processGraph of libutil/thread-pool.hh: process the nodes of a graph in *)
(* parallel, each one after the nodes it refers to, with a ThreadPool.     *)
(***************************************************************************)
EXTENDS ThreadPool

CONSTANT
    Graphs      \* the results of getEdges: functions from Items to sets

ASSUME GraphAssumption == (\A S \in SUBSET Items : S # None) /\ None \notin Threads

VARIABLES
    edges,      \* the graph at hand
    left, refs, rrefs,     \* struct Graph; refs[n] is None where it has no entry
    glock,      \* the thread that has graph_ locked
    at,         \* the point of the lambda worker each thread is at
    todo,       \* todo[t]: the rrefs its loop has not yet reached
    toEnqueue,  \* the nodes the first loop of processGraph has not enqueued
    processed   \* the nodes processNode() has returned for

graphVars == <<poolVars, edges, left, refs, rrefs, glock, at, todo, toEnqueue, processed>>
bodyVars == <<edges, left, refs, rrefs, glock, at, todo, toEnqueue, processed>>

GraphInit ==
    /\ PoolInit
    /\ edges \in Graphs
    /\ left = Items
    /\ refs = [n \in Items |-> None]
    /\ rrefs = [n \in Items |-> {}]
    /\ glock = None
    /\ at = [t \in Threads |-> "start"]
    /\ todo = [t \in Threads |-> {}]
    /\ toEnqueue = Items
    /\ processed = {}

GoOn(t, label) == at' = [at EXCEPT ![t] = label]

\* w() returns or throws.
ItemDone(t, threw) ==
    /\ tpc' = [tpc EXCEPT ![t] = "done"]
    /\ exc' = [exc EXCEPT ![t] = threw]
    /\ GoOn(t, "start")

\* The loop over the nodes, and process() after it or after ThreadPoolShutDown.
EnqueueNode ==
    /\ tpc[MainThread] = "main" /\ ~quit
    /\ \E n \in toEnqueue :
        /\ Enqueue(n, tpc)
        /\ toEnqueue' = toEnqueue \ {n}
    /\ UNCHANGED <<active, exception, draining, quit, item, exc>>
    /\ UNCHANGED <<edges, left, refs, rrefs, glock, at, todo, processed>>

StartProcessing ==
    /\ toEnqueue = {} \/ quit
    /\ Process
    /\ UNCHANGED bodyVars

\* A node with an entry in refs comes back after its references are done.
FindNode(t) ==
    /\ tpc[t] = "run" /\ at[t] = "start" /\ glock = None
    /\ GoOn(t, IF refs[item[t]] = None THEN "getRefs" ELSE "doWork")
    /\ UNCHANGED poolVars
    /\ UNCHANGED <<edges, left, refs, rrefs, glock, todo, toEnqueue, processed>>

\* getEdges() or processNode() throws.
NodeThrows(t) ==
    /\ tpc[t] = "run" /\ at[t] \in {"getRefs", "doWork"}
    /\ ItemDone(t, TRUE)
    /\ UNCHANGED <<pending, active, exception, workers, draining, quit, item>>
    /\ UNCHANGED <<edges, left, refs, rrefs, glock, todo, toEnqueue, processed>>

\* getEdges() returned: wait for the references that are left, if any.
GetRefs(t) ==
    LET n == item[t]
        waitFor == (edges[n] \ {n}) \cap left
    IN  /\ tpc[t] = "run" /\ at[t] = "getRefs" /\ glock = None
        /\ refs' = [refs EXCEPT ![n] = waitFor]
        /\ rrefs' = [r \in Items |-> IF r \in waitFor THEN rrefs[r] \cup {n} ELSE rrefs[r]]
        /\ IF waitFor = {}
           THEN GoOn(t, "doWork") /\ UNCHANGED <<tpc, exc>>
           ELSE ItemDone(t, FALSE)
        /\ UNCHANGED <<pending, active, exception, workers, draining, quit, item>>
        /\ UNCHANGED <<edges, left, glock, todo, toEnqueue, processed>>

\* processNode() returns and graph_ is locked for the loop over rrefs.
ProcessNode(t) ==
    /\ tpc[t] = "run" /\ at[t] = "doWork" /\ glock = None
    /\ processed' = processed \cup {item[t]}
    /\ glock' = t
    /\ todo' = [todo EXCEPT ![t] = rrefs[item[t]]]
    /\ GoOn(t, "release")
    /\ UNCHANGED poolVars
    /\ UNCHANGED <<edges, left, refs, rrefs, toEnqueue>>

\* Mutant of ReleaseRref: the waiting node is enqueued whatever else it needs.
ReleaseAny(t) ==
    /\ tpc[t] = "run" /\ at[t] = "release" /\ ~quit
    /\ \E r \in todo[t] :
        /\ refs' = [refs EXCEPT ![r] = @ \ {item[t]}]
        /\ todo' = [todo EXCEPT ![t] = @ \ {r}]
        /\ Enqueue(r, tpc)
    /\ UNCHANGED <<active, exception, draining, quit, item, exc>>
    /\ UNCHANGED <<edges, left, rrefs, glock, at, toEnqueue, processed>>

\* One iteration of that loop; enqueue throws if the pool is shutting down.
ReleaseRref(t) ==
    /\ tpc[t] = "run" /\ at[t] = "release"
    /\ \E r \in todo[t] :
        /\ refs' = [refs EXCEPT ![r] = @ \ {item[t]}]
        /\ todo' = [todo EXCEPT ![t] = @ \ {r}]
        /\ \/ /\ refs[r] # {item[t]}
              /\ UNCHANGED <<pending, workers, tpc, exc, glock, at>>
           \/ /\ refs[r] = {item[t]} /\ ~quit
              /\ Enqueue(r, tpc)
              /\ UNCHANGED <<exc, glock, at>>
           \/ /\ refs[r] = {item[t]} /\ quit
              /\ ItemDone(t, TRUE)
              /\ glock' = None
              /\ UNCHANGED <<pending, workers>>
    /\ UNCHANGED <<active, exception, draining, quit, item>>
    /\ UNCHANGED <<edges, left, rrefs, toEnqueue, processed>>

\* Mutant of ReleaseDone: the node stays in left.
ReleaseForget(t) ==
    /\ tpc[t] = "run" /\ at[t] = "release" /\ todo[t] = {}
    /\ refs' = [refs EXCEPT ![item[t]] = None]
    /\ rrefs' = [rrefs EXCEPT ![item[t]] = {}]
    /\ glock' = None
    /\ ItemDone(t, FALSE)
    /\ UNCHANGED <<pending, active, exception, workers, draining, quit, item>>
    /\ UNCHANGED <<edges, left, todo, toEnqueue, processed>>

ReleaseDone(t) ==
    /\ tpc[t] = "run" /\ at[t] = "release" /\ todo[t] = {}
    /\ left' = left \ {item[t]}
    /\ refs' = [refs EXCEPT ![item[t]] = None]
    /\ rrefs' = [rrefs EXCEPT ![item[t]] = {}]
    /\ glock' = None
    /\ ItemDone(t, FALSE)
    /\ UNCHANGED <<pending, active, exception, workers, draining, quit, item>>
    /\ UNCHANGED <<edges, todo, toEnqueue, processed>>

GraphThread(t) ==
    \/ DoWork(t) /\ UNCHANGED bodyVars
    \/ FindNode(t) \/ GetRefs(t) \/ NodeThrows(t)
    \/ ProcessNode(t) \/ ReleaseRref(t) \/ ReleaseDone(t)

GraphMain ==
    \/ EnqueueNode
    \/ StartProcessing
    \/ (Shutdown \/ Join) /\ UNCHANGED bodyVars

GraphNext == GraphMain \/ \E t \in Threads : GraphThread(t)

\* Every thread is scheduled, getEdges() and processNode() return or throw.
GraphFairness ==
    /\ WF_graphVars(GraphMain)
    /\ \A t \in Threads : WF_graphVars(GraphThread(t))

GraphSpec == GraphInit /\ [][GraphNext]_graphVars /\ GraphFairness

-----------------------------------------------------------------------------
\* All references of n that are to be processed are in S.
ReferencesIn(n, S) == (edges[n] \cap Items) \ {n} \subseteq S

\* The nodes whose processing has begun: processNode() runs or has returned.
Begun(n) == n \in processed \/ \E t \in Threads : item[t] = n /\ at[t] = "doWork"

\* processGraph processes "any item only after all its dependencies", and once:
\* when processNode(n) begins, it has returned for all references of n, although
\* they are found, registered and released by different threads, and n has not
\* been processed and will not be by another thread or queue entry.
DependenciesFirst ==
    /\ \A n \in Items : Begun(n) => ReferencesIn(n, processed)
    /\ \A t \in Threads : tpc[t] = "run" /\ at[t] = "doWork" =>
          /\ item[t] \notin processed
          /\ \A u \in Threads \ {t} : tpc[u] = "run" => item[u] # item[t]
          /\ \A i \in DOMAIN pending : pending[i] # item[t]

\* The nodes from which no cycle can be reached: the least set closed under
\* "all references are in it".
Closed(S) == \A n \in Items : ReferencesIn(n, S) => n \in S
Processable == {n \in Items : \A S \in SUBSET Items : Closed(S) => n \in S}

\* process() returns without an exception only when everything that is not
\* behind a cycle has been processed, and then left is empty exactly when the
\* graph has no cycle: "graph processing incomplete" is reported for cycles and
\* only for them.
CompleteOrCyclic ==
    tpc[MainThread] \in {"exited", "join", "gone"} /\ ~exception =>
        processed = Processable /\ left = Items \ Processable

\* Once a node is enqueued, processGraph returns or throws: no wake-up is lost
\* between enqueue, wait and shutdown, whatever items fail.  No thread runs then
\* that could refer to its stack frame.
GraphReturns ==
    /\ pending # <<>> ~> tpc[MainThread] = "gone"
    /\ [](tpc[MainThread] = "gone" => \A w \in Workers : tpc[w] \in {"none", "exited"})
=============================================================================
