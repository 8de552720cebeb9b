------------------------------ MODULE Closure ------------------------------
(***************************************************************************)
(* computeClosure of libutil/closure.hh: the elements reachable from a set *)
(* of elements, where the edges of an element arrive in a callback that    *)
(* any thread may run.                                                     *)
(***************************************************************************)
EXTENDS Naturals, FiniteSets

CONSTANTS
    Elements,
    EdgeSets,       \* the graphs: functions from Elements to sets of Elements
    Starts          \* the sets to start from

VARIABLES
    edge,           \* the graph at hand
    startElts,      \* the elements the first loop has still to enqueue
    wanted,         \* all start elements
    reached, requests, closureExc,   \* struct State: res, pending, exc
    reply,          \* reply[e]: where the callback for e is
    children,       \* children[e]: the edges it has still to enqueue
    caller          \* where the thread that computes the closure is

closureVars == <<edge, startElts, wanted, reached, requests, closureExc, reply,
                 children, caller>>

ClosureInit ==
    /\ edge \in EdgeSets
    /\ wanted \in Starts /\ startElts = wanted
    /\ reached = {} /\ requests = 0 /\ closureExc = FALSE
    /\ reply = [e \in Elements |-> "none"]
    /\ children = [e \in Elements |-> {}]
    /\ caller = "enqueue"

\* enqueue(e): unless there is an exception or e is known, ask for its edges.
\* getEdgesAsync reports an error through its callback, as computeFSClosure's does
\* (queryPathInfo is noexcept); one that throws itself is not modelled.
EnqueueElement(e) ==
    IF closureExc \/ e \in reached
    THEN UNCHANGED <<reached, requests, reply>>
    ELSE /\ reached' = reached \cup {e}
         /\ requests' = requests + 1
         /\ reply' = [reply EXCEPT ![e] = "asked"]

EnqueueStart ==
    /\ caller = "enqueue"
    /\ \E e \in startElts : startElts' = startElts \ {e} /\ EnqueueElement(e)
    /\ UNCHANGED <<edge, wanted, closureExc, children, caller>>

\* The callback runs with the edges of e, or with an exception.
EdgesArrive(e) ==
    /\ reply[e] = "asked"
    /\ \/ /\ reply' = [reply EXCEPT ![e] = "children"]
          /\ children' = [children EXCEPT ![e] = edge[e]]
       \/ /\ reply' = [reply EXCEPT ![e] = "failed"]
          /\ UNCHANGED children
    /\ UNCHANGED <<edge, startElts, wanted, reached, requests, closureExc, caller>>

EnqueueChild(e) ==
    /\ reply[e] = "children"
    /\ \E child \in children[e] :
        /\ children' = [children EXCEPT ![e] = @ \ {child}]
        /\ EnqueueElement(child)
    /\ UNCHANGED <<edge, startElts, wanted, closureExc, caller>>

\* Mutant of CallbackDone: the request is over before its children are enqueued.
CallbackDoneEarly(e) ==
    /\ \/ reply[e] = "children" /\ closureExc' = closureExc
       \/ reply[e] = "failed" /\ closureExc' = TRUE
    /\ requests' = requests - 1
    /\ reply' = [reply EXCEPT ![e] = "done"]
    /\ caller' = IF requests = 1 /\ caller = "waiting" THEN "check" ELSE caller
    /\ UNCHANGED <<edge, startElts, wanted, reached, children>>

\* The critical section at the end of the callback, in both branches.
CallbackDone(e) ==
    /\ \/ reply[e] = "children" /\ children[e] = {} /\ closureExc' = closureExc
       \/ reply[e] = "failed" /\ closureExc' = TRUE
    /\ requests' = requests - 1
    /\ reply' = [reply EXCEPT ![e] = "done"]
    /\ caller' = IF requests = 1 /\ caller = "waiting" THEN "check" ELSE caller
    /\ UNCHANGED <<edge, startElts, wanted, reached, children>>

\* The caller: wait for done while a request is pending, then return or throw.
Caller ==
    /\ caller = "check" \/ (caller = "enqueue" /\ startElts = {})
    /\ caller' = IF requests > 0 THEN "waiting"
                 ELSE IF closureExc THEN "threw" ELSE "returned"
    /\ UNCHANGED <<edge, startElts, wanted, reached, requests, closureExc, reply, children>>

ClosureNext ==
    \/ EnqueueStart \/ Caller
    \/ \E e \in Elements : EdgesArrive(e) \/ EnqueueChild(e) \/ CallbackDone(e)

\* The caller runs, and getEdgesAsync calls every callback.
ClosureFairness ==
    /\ WF_closureVars(EnqueueStart) /\ WF_closureVars(Caller)
    /\ \A e \in Elements :
          WF_closureVars(EdgesArrive(e) \/ EnqueueChild(e) \/ CallbackDone(e))

ClosureSpec == ClosureInit /\ [][ClosureNext]_closureVars /\ ClosureFairness

-----------------------------------------------------------------------------
\* The elements reachable from wanted.
Reachable ==
    LET f[S \in SUBSET Elements] ==
          LET T == S \cup UNION {edge[e] : e \in S} IN IF T = S THEN S ELSE f[T]
    IN  f[wanted]

\* Once computeClosure has asked for edges, it returns exactly the reachable
\* elements, whatever the order in which the callbacks run, or throws; and no
\* callback is still to come that would use its stack frame.
ClosureReturns ==
    /\ reached # {} ~> caller \in {"returned", "threw"}
    /\ [](caller \in {"returned", "threw"} =>
             /\ caller = "returned" => reached = Reachable
             /\ \A e \in Elements : reply[e] \in {"none", "done"})
=============================================================================
