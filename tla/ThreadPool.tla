----------------------------- MODULE ThreadPool -----------------------------
(***************************************************************************)
(* libutil/thread-pool.cc: a queue of work items, the threads that execute *)
(* them and the thread that called process().  A critical section of       *)
(* Sync<State> is one step; what a work item does is left to the module    *)
(* that uses the pool.                                                     *)
(***************************************************************************)
EXTENDS Naturals, FiniteSets, Sequences

CONSTANTS
    MainThread,   \* the thread that enqueues, calls process() and destroys
    Workers,      \* maxThreads - 1 threads the pool may start
    Items,        \* the work items
    None

Threads == {MainThread} \cup Workers

ASSUME ThreadPoolAssumption ==
    MainThread \notin Workers /\ IsFiniteSet(Workers) /\ None \notin Items

VARIABLES
    pending, active, exception, workers, draining,  \* struct State
    quit,
    tpc,     \* where each thread is
    item,    \* the work item it executes
    exc      \* exc[t]: w() threw

poolVars == <<pending, active, exception, workers, draining, quit, tpc, item, exc>>

PoolInit ==
    /\ pending = <<>> /\ active = 0 /\ exception = FALSE
    /\ workers = {} /\ draining = FALSE /\ quit = FALSE
    /\ tpc = [t \in Threads |-> IF t = MainThread THEN "main" ELSE "none"]
    /\ item = [t \in Threads |-> None]
    /\ exc = [t \in Threads |-> FALSE]

\* The threads after work.notify_all().
NotifyAll(at) == [t \in Threads |-> IF at[t] = "waiting" THEN "loop" ELSE at[t]]

\* The possible results of work.notify_one().
NotifyOne(at) ==
    LET W == {t \in Threads : at[t] = "waiting"}
    IN  IF W = {} THEN {at} ELSE {[at EXCEPT ![t] = "loop"] : t \in W}

\* enqueue(x), once quit is known to be false, called by a thread that goes on
\* as at says.  A new thread is started while there are fewer threads than
\* items and than maxThreads.
Enqueue(x, at) ==
    /\ pending' = Append(pending, x)
    /\ \E started \in SUBSET {w \in Workers : tpc[w] = "none"} :
        /\ Cardinality(started) =
              IF /\ Len(pending) + 1 > Cardinality(workers) + 1
                 /\ Cardinality(workers) < Cardinality(Workers) THEN 1 ELSE 0
        /\ workers' = workers \cup started
        /\ tpc' \in NotifyOne([t \in Threads |-> IF t \in started THEN "loop" ELSE at[t]])

-----------------------------------------------------------------------------
(* doWork.  A thread is at "loop" when it takes the lock without an item to  *)
(* account for, at "done" when w() has returned or thrown.                   *)

Ready(t) == tpc[t] = "loop" \/ (tpc[t] = "done" /\ ~exc[t])

\* active after the item that t has executed is accounted for.
ActiveNow(t) == IF tpc[t] = "done" THEN active - 1 ELSE active

\* Thread t ends its critical section without an item and goes on at label.
Idle(t, others, label) ==
    /\ active' = ActiveNow(t)
    /\ tpc' = [others EXCEPT ![t] = label]
    /\ item' = [item EXCEPT ![t] = None]
    /\ UNCHANGED <<pending, workers, draining, exc>>

\* An item threw: keep the first exception, make everybody quit.
WorkFailed(t) ==
    /\ tpc[t] = "done" /\ exc[t]
    /\ exception' = TRUE
    /\ quit' = TRUE
    /\ Idle(t, IF exception THEN tpc ELSE NotifyAll(tpc), "exited")

WorkQuit(t) ==
    /\ Ready(t) /\ quit
    /\ Idle(t, tpc, "exited")
    /\ UNCHANGED <<exception, quit>>

WorkTake(t) ==
    /\ Ready(t) /\ ~quit /\ pending # <<>>
    /\ active' = ActiveNow(t) + 1
    /\ item' = [item EXCEPT ![t] = Head(pending)]
    /\ pending' = Tail(pending)
    /\ tpc' = [tpc EXCEPT ![t] = "run"]
    /\ UNCHANGED <<exception, workers, draining, quit, exc>>

\* Mutant of WorkDrained: the waiting threads are not told to quit.
DrainedQuietly(t) ==
    /\ Ready(t) /\ ~quit /\ pending = <<>> /\ ActiveNow(t) = 0 /\ draining
    /\ quit' = TRUE
    /\ Idle(t, tpc, "exited")
    /\ UNCHANGED exception

\* Nothing is pending or active and process() runs: no item can be added.
WorkDrained(t) ==
    /\ Ready(t) /\ ~quit /\ pending = <<>> /\ ActiveNow(t) = 0 /\ draining
    /\ quit' = TRUE
    /\ Idle(t, NotifyAll(tpc), "exited")
    /\ UNCHANGED exception

WorkWait(t) ==
    /\ Ready(t) /\ ~quit /\ pending = <<>> /\ ~(ActiveNow(t) = 0 /\ draining)
    /\ Idle(t, tpc, "waiting")
    /\ UNCHANGED <<exception, quit>>

DoWork(t) ==
    WorkFailed(t) \/ WorkQuit(t) \/ WorkTake(t) \/ WorkDrained(t) \/ WorkWait(t)

\* process() starts.
Process ==
    /\ tpc[MainThread] = "main"
    /\ draining' = TRUE
    /\ tpc' = [tpc EXCEPT ![MainThread] = "loop"]
    /\ UNCHANGED <<pending, active, exception, workers, quit, item, exc>>

\* doWork(true) has returned to process(): shutdown(), which process() calls if
\* there is an exception and the destructor calls in any case.
Shutdown ==
    /\ tpc[MainThread] = "exited"
    /\ quit' = TRUE
    /\ tpc' = [NotifyAll(tpc) EXCEPT ![MainThread] = "join"]
    /\ UNCHANGED <<pending, active, exception, workers, draining, item, exc>>

Join ==
    /\ tpc[MainThread] = "join"
    /\ \A w \in workers : tpc[w] = "exited"
    /\ workers' = {}
    /\ tpc' = [tpc EXCEPT ![MainThread] = "gone"]
    /\ UNCHANGED <<pending, active, exception, draining, quit, item, exc>>
=============================================================================
