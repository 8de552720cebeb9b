---------------------------- MODULE PathInfoCache ----------------------------
(***************************************************************************)
(* The path info cache of a LocalStore (store-api.cc, local-store.cc,      *)
(* lru-cache.hh): threads that query, register and invalidate paths, while *)
(* other processes change the database.  The database is external; this    *)
(* process uses it with _state locked.                                     *)
(***************************************************************************)
EXTENDS Naturals, FiniteSets, Sequences

CONSTANTS
    StorePaths,
    Queriers,       \* threads in queryPathInfo
    Capacity        \* path-info-cache-size

ASSUME PathInfoCacheAssumption == IsFiniteSet(StorePaths) /\ Capacity \in Nat

VARIABLES
    db,         \* the valid paths, as committed
    data,       \* data[p]: "valid" or "invalid" as cached, or "none"
    lru,        \* the cached paths, the oldest first
    query,      \* query[t]: where t is, its path and the answer of the database
    adding,     \* the transaction of registerValidPaths: paths to add, paths added
    old,        \* old[t]: the path has changed since t read the database
    excused     \* the paths whose entry may be wrong for a known reason

cacheVars == <<db, data, lru, query, adding, old, excused>>

NoQuery == [pc |-> "idle", path |-> "none", answer |-> "none"]
NoTxn == [on |-> FALSE, todo |-> {}, done |-> {}]

CacheInit ==
    /\ db \in SUBSET StorePaths
    /\ data = [p \in StorePaths |-> "none"]
    /\ lru = <<>>
    /\ query = [t \in Queriers |-> NoQuery]
    /\ adding = NoTxn
    /\ old = [t \in Queriers |-> FALSE]
    /\ excused = {}

Validity(p) == IF p \in db THEN "valid" ELSE "invalid"

Erased(L, p) == SelectSeq(L, LAMBDA x : x # p)

\* LRUCache::erase and upsert, which retires the oldest item.
Erase(p) ==
    /\ data' = [data EXCEPT ![p] = "none"]
    /\ lru' = Erased(lru, p)

Upsert(p, value) ==
    LET L == Erased(lru, p)
        full == Len(L) >= Capacity
    IN  IF Capacity = 0
        THEN UNCHANGED <<data, lru>>
        ELSE /\ lru' = Append(IF full THEN Tail(L) ELSE L, p)
             /\ data' = [x \in StorePaths |-> IF x = p THEN value
                                              ELSE IF full /\ x = Head(L) THEN "none" ELSE data[x]]

\* The queries that have read the database before p changes.
Outdated(p) == [t \in Queriers |-> old[t] \/ (query[t].pc = "store" /\ query[t].path = p)]

-----------------------------------------------------------------------------
\* queryPathInfoFromClientCache: an entry is promoted, and answers the query
\* unless its time-to-live has passed.
Lookup(t) ==
    /\ query[t].pc = "idle"
    /\ \E p \in StorePaths, isKnownNow \in BOOLEAN :
        /\ isKnownNow => data[p] # "none"
        /\ lru' = IF data[p] = "none" THEN lru ELSE Append(Erased(lru, p), p)
        /\ query' = IF isKnownNow THEN query
                    ELSE [query EXCEPT ![t] = [pc |-> "ask", path |-> p, answer |-> "none"]]
    /\ UNCHANGED <<db, data, adding, old, excused>>

\* queryPathInfoUncached, with _state locked.
Ask(t) ==
    /\ query[t].pc = "ask" /\ ~adding.on
    /\ query' = [query EXCEPT ![t].pc = "store", ![t].answer = Validity(query[t].path)]
    /\ UNCHANGED <<db, data, lru, adding, old, excused>>

\* The callback caches the answer.
StoreAnswer(t) ==
    LET p == query[t].path
    IN  /\ query[t].pc = "store"
        /\ Upsert(p, query[t].answer)
        /\ query' = [query EXCEPT ![t] = NoQuery]
        /\ old' = [old EXCEPT ![t] = FALSE]
        /\ excused' = IF old[t] THEN excused \cup {p} ELSE excused \ {p}
        /\ UNCHANGED <<db, adding>>

-----------------------------------------------------------------------------
(* registerValidPaths                                                      *)

Begin ==
    /\ ~adding.on
    /\ \E S \in (SUBSET StorePaths) \ {{}} : adding' = [on |-> TRUE, todo |-> S, done |-> {}]
    /\ UNCHANGED <<db, data, lru, query, old, excused>>

\* Mutant of AddValidPath: the entry of the cache is left alone.
AddUncached ==
    /\ adding.on
    /\ \E p \in adding.todo : adding' = [adding EXCEPT !.todo = @ \ {p}, !.done = @ \cup {p}]
    /\ UNCHANGED <<db, data, lru, query, old, excused>>

\* updatePathInfo for a valid path, or addValidPath, which caches the new entry.
AddValidPath ==
    /\ adding.on
    /\ \E p \in adding.todo :
        /\ adding' = [adding EXCEPT !.todo = @ \ {p}, !.done = @ \cup {p}]
        /\ IF p \in db THEN UNCHANGED <<data, lru, old, excused>>
           ELSE Upsert(p, "valid") /\ old' = Outdated(p) /\ excused' = excused \ {p}
    /\ UNCHANGED <<db, query>>

Commit ==
    /\ adding.on /\ adding.todo = {}
    /\ db' = db \cup adding.done
    /\ adding' = NoTxn
    /\ UNCHANGED <<data, lru, query, old, excused>>

\* An exception (a bad derivation, a cycle, a missing reference): the database is
\* rolled back, the cache is not.
Rollback ==
    /\ adding.on
    /\ excused' = excused \cup (adding.done \ db)
    /\ adding' = NoTxn
    /\ UNCHANGED <<db, data, lru, query, old>>

\* invalidatePath.
Invalidate(p) ==
    /\ ~adding.on /\ p \in db
    /\ db' = db \ {p}
    /\ Erase(p)
    /\ old' = Outdated(p)
    /\ excused' = excused \ {p}
    /\ UNCHANGED <<query, adding>>

\* Another process registers or invalidates a path.
OtherProcess(p) ==
    /\ ~adding.on
    /\ db' = IF p \in db THEN db \ {p} ELSE db \cup {p}
    /\ old' = Outdated(p)
    /\ excused' = IF data[p] = "none" THEN excused ELSE excused \cup {p}
    /\ UNCHANGED <<data, lru, query, adding>>

CacheNext ==
    \/ \E t \in Queriers : Lookup(t) \/ Ask(t) \/ StoreAnswer(t)
    \/ \E p \in StorePaths : Invalidate(p) \/ OtherProcess(p)
    \/ Begin \/ AddValidPath \/ Commit \/ Rollback

CacheSpec == CacheInit /\ [][CacheNext]_cacheVars

-----------------------------------------------------------------------------
\* A cached answer is that of the database, except for four reasons: the path is in
\* a transaction, the transaction was rolled back, the path changed between a
\* query's read of the database and its store into the cache, or another process
\* changed it.
CacheCoherent ==
    \A p \in StorePaths :
        data[p] # "none" => data[p] = Validity(p) \/ p \in adding.done \cup excused

=============================================================================
