--------------------------- MODULE ThreadsProofs ----------------------------
(***************************************************************************)
(* What the threads of a process share: the path info cache, the pool of   *)
(* connections and the pool of threads.  For any paths, threads and        *)
(* capacity; any clients and connections; any nodes and references.  And   *)
(* the values of the evaluator, for any programs.                          *)
(***************************************************************************)
EXTENDS PathInfoCache, ConnectionPool, ProcessGraph, Thunks, Integers,
        FiniteSetTheorems, SequenceTheorems, TLAPS

(***************************************************************************)
(* PathInfoCache: CacheCoherent                                            *)
(***************************************************************************)
Cached == {"none", "valid", "invalid"}

Queries == [pc : {"idle", "ask", "store"}, path : StorePaths \cup {"none"}, answer : Cached]

Txns == [on : BOOLEAN, todo : SUBSET StorePaths, done : SUBSET StorePaths]

CacheTypes ==
    /\ db \in SUBSET StorePaths
    /\ data \in [StorePaths -> Cached]
    /\ query \in [Queriers -> Queries]
    /\ adding \in Txns
    /\ old \in [Queriers -> BOOLEAN]
    /\ excused \in SUBSET StorePaths
    /\ \A t \in Queriers : query[t].pc # "idle" => query[t].path \in StorePaths

\* What a query has read of the database is true, or it is known to be old: also
\* if the path is added by a transaction that is under way.
AnswerInv ==
    \A t \in Queriers : query[t].pc = "store" =>
        /\ old[t] \/ query[t].answer = Validity(query[t].path)
        /\ query[t].path \in adding.done \ db => old[t]

\* What a transaction has added is cached as valid, or not cached.
AddedInv ==
    /\ ~adding.on => adding.done = {}
    /\ \A p \in adding.done : data[p] \in {"none", "valid"} \/ p \in excused

SizedInv == Capacity = 0 => \A p \in StorePaths : data[p] = "none"

CacheInv == CacheTypes /\ AnswerInv /\ AddedInv /\ SizedInv /\ CacheCoherent

-----------------------------------------------------------------------------
\* LRUCache::upsert caches the value or nothing, and otherwise only drops entries.
LEMMA UpsertEntries ==
    ASSUME CacheInv, NEW p \in StorePaths, NEW value \in Cached, Upsert(p, value)
    PROVE  /\ data' \in [StorePaths -> Cached]
           /\ data'[p] \in {"none", value}
           /\ \A x \in StorePaths \ {p} : data'[x] \in {"none", data[x]}
           /\ SizedInv'
<1>1. data \in [StorePaths -> Cached]
  BY DEF CacheInv, CacheTypes
<1>2. CASE Capacity = 0
  BY <1>1, <1>2 DEF Upsert, CacheInv, SizedInv
<1>3. CASE Capacity # 0
  <2> DEFINE h == Head(Erased(lru, p))
             full == Len(Erased(lru, p)) >= Capacity
  <2>1. data' = [x \in StorePaths |-> IF x = p THEN value
                                      ELSE IF full /\ x = h THEN "none" ELSE data[x]]
    BY <1>3 DEF Upsert
  <2> HIDE DEF full, h
  <2>2. \A x \in StorePaths : data'[x] \in Cached
    BY <1>1, <2>1 DEF Cached
  <2>3. data' \in [StorePaths -> Cached]
    BY <2>1, <2>2
  <2>4. data'[p] = value /\ \A x \in StorePaths \ {p} : data'[x] \in {"none", data[x]}
    BY <2>1
  <2> QED
    BY <1>3, <2>3, <2>4 DEF SizedInv
<1> QED
  BY <1>2, <1>3

\* The queries that have read p before it changes are outdated, and no other.
LEMMA OutdatedQueries ==
    ASSUME CacheInv, NEW p
    PROVE  /\ Outdated(p) \in [Queriers -> BOOLEAN]
           /\ \A t \in Queriers : Outdated(p)[t] <=>
                 old[t] \/ (query[t].pc = "store" /\ query[t].path = p)
  BY DEF CacheInv, CacheTypes, Outdated

\* The initial states satisfy CacheInv.
LEMMA CacheInitInv == CacheInit => CacheInv
<1> SUFFICES ASSUME CacheInit
             PROVE  CacheInv
  OBVIOUS
<1>1. NoQuery \in Queries /\ NoQuery.pc = "idle"
  BY DEF NoQuery, Queries, Cached
<1>2. query = [t \in Queriers |-> NoQuery]
  BY DEF CacheInit
<1>3. query \in [Queriers -> Queries] /\ \A t \in Queriers : query[t].pc = "idle"
  BY <1>1, <1>2
<1>4. adding \in Txns /\ adding.done = {}
  BY DEF CacheInit, NoTxn, Txns
<1>5. data \in [StorePaths -> Cached] /\ \A p \in StorePaths : data[p] = "none"
  BY DEF CacheInit, Cached
<1>6. CacheTypes
  BY <1>3, <1>4, <1>5 DEF CacheInit, CacheTypes
<1> QED
  BY <1>3, <1>4, <1>5, <1>6 DEF CacheInv, AnswerInv, AddedInv, SizedInv, CacheCoherent

-----------------------------------------------------------------------------
\* A lookup keeps CacheInv.
LEMMA LookupInv == ASSUME CacheInv, NEW t \in Queriers, Lookup(t) PROVE CacheInv'
<1>1. UNCHANGED <<db, data, adding, old, excused>>
  BY DEF Lookup
<1>2. PICK p \in StorePaths : \/ query' = query
                              \/ query' = [query EXCEPT ![t] = [pc |-> "ask", path |-> p, answer |-> "none"]]
  BY DEF Lookup
<1>3. query' \in [Queriers -> Queries]
      /\ \A v \in Queriers : query'[v] = query[v] \/ (query'[v].pc = "ask" /\ query'[v].path \in StorePaths)
  BY <1>2 DEF CacheInv, CacheTypes, Queries, Cached
<1>4. CacheTypes'
  BY <1>1, <1>3 DEF CacheInv, CacheTypes
<1>5. AnswerInv'
  BY <1>1, <1>3 DEF CacheInv, AnswerInv, Validity
<1> QED
  BY <1>1, <1>4, <1>5 DEF CacheInv, AddedInv, SizedInv, CacheCoherent, Validity

\* A read of the database keeps CacheInv: there is no transaction.
LEMMA AskInv == ASSUME CacheInv, NEW t \in Queriers, Ask(t) PROVE CacheInv'
<1>1. UNCHANGED <<db, data, adding, old, excused>> /\ query[t].pc = "ask" /\ ~adding.on
  BY DEF Ask
<1> DEFINE a == Validity(query[t].path)
           r == [query[t] EXCEPT !.pc = "store", !.answer = a]
<1>2. query[t] \in Queries /\ query \in [Queriers -> Queries] /\ a \in Cached
      /\ query[t].path \in StorePaths
  BY <1>1 DEF CacheInv, CacheTypes, Validity, Cached
<1>3. query' = [query EXCEPT ![t] = r]
  BY <1>2 DEF Ask
<1>4. r \in Queries /\ r.pc = "store" /\ r.answer = a /\ r.path = query[t].path
  <2> HIDE DEF a
  <2> QED
    BY <1>2 DEF Queries
<1> HIDE DEF r
<1>5. query' \in [Queriers -> Queries] /\ query'[t] = r
      /\ \A v \in Queriers \ {t} : query'[v] = query[v]
  BY <1>2, <1>3, <1>4
<1>6. CacheTypes'
  BY <1>1, <1>2, <1>4, <1>5 DEF CacheInv, CacheTypes
<1>7. adding.done = {}
  BY <1>1 DEF CacheInv, AddedInv
<1>8. AnswerInv'
  BY <1>1, <1>4, <1>5, <1>7 DEF CacheInv, AnswerInv, Validity
<1> QED
  BY <1>1, <1>6, <1>8 DEF CacheInv, AddedInv, SizedInv, CacheCoherent, Validity

\* The store into the cache keeps CacheInv.
LEMMA StoreAnswerInv == ASSUME CacheInv, NEW t \in Queriers, StoreAnswer(t) PROVE CacheInv'
<1> DEFINE p == query[t].path
           a == query[t].answer
<1>1. /\ query[t].pc = "store" /\ Upsert(p, a)
      /\ query' = [query EXCEPT ![t] = NoQuery]
      /\ old' = [old EXCEPT ![t] = FALSE]
      /\ excused' = IF old[t] THEN excused \cup {p} ELSE excused \ {p}
      /\ UNCHANGED <<db, adding>>
  BY DEF StoreAnswer
<1>2. query[t] \in Queries /\ p \in StorePaths /\ a \in Cached
  BY <1>1 DEF CacheInv, CacheTypes, Queries
<1>3. old[t] \/ (a = Validity(p) /\ p \notin adding.done \ db)
  BY <1>1 DEF CacheInv, AnswerInv
<1> HIDE DEF p, a
<1>4. /\ data' \in [StorePaths -> Cached] /\ data'[p] \in {"none", a}
      /\ \A x \in StorePaths \ {p} : data'[x] \in {"none", data[x]}
      /\ SizedInv'
  BY <1>1, <1>2, UpsertEntries
<1>5. NoQuery \in Queries /\ NoQuery.pc = "idle"
  BY DEF NoQuery, Queries, Cached
<1>6. query' \in [Queriers -> Queries] /\ query'[t].pc = "idle"
      /\ \A v \in Queriers \ {t} : query'[v] = query[v]
  BY <1>1, <1>5 DEF CacheInv, CacheTypes
<1>7. old' \in [Queriers -> BOOLEAN] /\ \A v \in Queriers \ {t} : old'[v] = old[v]
  BY <1>1 DEF CacheInv, CacheTypes
<1>8. excused' \in SUBSET StorePaths /\ (\A x \in StorePaths \ {p} : x \in excused' <=> x \in excused)
      /\ (p \in excused' <=> old[t])
  BY <1>1, <1>2 DEF CacheInv, CacheTypes
<1>9. CacheTypes'
  BY <1>1, <1>4, <1>6, <1>7, <1>8 DEF CacheInv, CacheTypes
<1>10. AnswerInv'
  BY <1>1, <1>6, <1>7 DEF CacheInv, AnswerInv, Validity
<1>11. Validity(p) \in {"valid", "invalid"} /\ (Validity(p) = "invalid" => p \notin db)
  BY DEF Validity
<1>12. adding.done \in SUBSET StorePaths
  BY DEF CacheInv, CacheTypes, Txns
<1>13. AddedInv'
  <2> SUFFICES ASSUME NEW x \in adding.done
               PROVE  data'[x] \in {"none", "valid"} \/ x \in excused'
    BY <1>1 DEF CacheInv, AddedInv
  <2>1. CASE x = p
    BY <1>3, <1>4, <1>8, <1>11, <2>1
  <2>2. CASE x # p
    BY <1>4, <1>8, <1>12, <2>2 DEF CacheInv, AddedInv
  <2> QED
    BY <2>1, <2>2
<1>14. CacheCoherent'
  <2> SUFFICES ASSUME NEW x \in StorePaths, data'[x] # "none"
               PROVE  data'[x] = Validity(x) \/ x \in adding.done \cup excused'
    BY <1>1 DEF CacheCoherent, Validity
  <2>1. CASE x = p
    BY <1>3, <1>4, <1>8, <2>1
  <2>2. CASE x # p
    BY <1>4, <1>8, <2>2 DEF CacheInv, CacheCoherent
  <2> QED
    BY <2>1, <2>2
<1> QED
  BY <1>4, <1>9, <1>10, <1>13, <1>14 DEF CacheInv

\* The begin of a transaction keeps CacheInv.
LEMMA BeginInv == ASSUME CacheInv, Begin PROVE CacheInv'
<1>1. PICK S \in SUBSET StorePaths : adding' = [on |-> TRUE, todo |-> S, done |-> {}]
  BY DEF Begin
<1>2. adding' \in Txns /\ adding'.on /\ adding'.done = {} /\ adding.done = {}
  BY <1>1 DEF Txns, Begin, CacheInv, AddedInv
<1>3. UNCHANGED <<db, data, query, old, excused>>
  BY DEF Begin
<1>4. CacheTypes'
  BY <1>2, <1>3 DEF CacheInv, CacheTypes
<1> QED
  BY <1>2, <1>3, <1>4 DEF CacheInv, AnswerInv, AddedInv, SizedInv, CacheCoherent, Validity

\* Adding a path keeps CacheInv: who has read that it is not valid is outdated.
LEMMA AddValidPathInv == ASSUME CacheInv, AddValidPath PROVE CacheInv'
<1>1. PICK p \in adding.todo :
        /\ adding' = [adding EXCEPT !.todo = @ \ {p}, !.done = @ \cup {p}]
        /\ IF p \in db THEN UNCHANGED <<data, lru, old, excused>>
           ELSE Upsert(p, "valid") /\ old' = Outdated(p) /\ excused' = excused \ {p}
  BY DEF AddValidPath
<1>2. adding.on /\ UNCHANGED <<db, query>> /\ adding \in Txns
  BY DEF AddValidPath, CacheInv, CacheTypes
<1>3. adding' \in Txns /\ adding'.on = adding.on /\ adding'.done = adding.done \cup {p}
      /\ p \in StorePaths
  BY <1>1, <1>2 DEF Txns
<1>4. CASE p \in db
  <2>1. UNCHANGED <<data, old, excused>>
    BY <1>1, <1>4
  <2>2. CacheTypes'
    BY <1>2, <1>3, <2>1 DEF CacheInv, CacheTypes
  <2>3. AnswerInv'
    BY <1>2, <1>3, <1>4, <2>1 DEF CacheInv, AnswerInv, Validity
  <2>4. AddedInv'
    <3>1. data[p] \in {"none", "valid"} \/ p \in excused
      BY <1>3, <1>4 DEF CacheInv, AddedInv, CacheCoherent, Validity
    <3> QED
      BY <1>2, <1>3, <2>1, <3>1 DEF CacheInv, AddedInv
  <2> QED
    BY <1>2, <1>3, <2>1, <2>2, <2>3, <2>4 DEF CacheInv, SizedInv, CacheCoherent, Validity
<1>5. CASE p \notin db
  <2>1. Upsert(p, "valid") /\ old' = Outdated(p) /\ excused' = excused \ {p}
    BY <1>1, <1>5
  <2>2. /\ data' \in [StorePaths -> Cached] /\ data'[p] \in {"none", "valid"}
        /\ \A x \in StorePaths \ {p} : data'[x] \in {"none", data[x]}
        /\ SizedInv'
    BY <1>3, <2>1, UpsertEntries DEF Cached
  <2>3. /\ old' \in [Queriers -> BOOLEAN]
        /\ \A t \in Queriers : old'[t] <=> old[t] \/ (query[t].pc = "store" /\ query[t].path = p)
    BY <2>1, OutdatedQueries
  <2>4. CacheTypes'
    BY <1>2, <1>3, <2>1, <2>2, <2>3 DEF CacheInv, CacheTypes
  <2>5. AnswerInv'
    BY <1>2, <1>3, <2>3 DEF CacheInv, AnswerInv, Validity
  <2>6. adding.done \in SUBSET StorePaths
    BY <1>2 DEF Txns
  <2>7. AddedInv'
    BY <1>2, <1>3, <2>1, <2>2, <2>6 DEF CacheInv, AddedInv
  <2>8. CacheCoherent'
    BY <1>2, <1>3, <2>1, <2>2 DEF CacheInv, CacheCoherent, Validity
  <2> QED
    BY <2>2, <2>4, <2>5, <2>7, <2>8 DEF CacheInv
<1> QED
  BY <1>4, <1>5

\* The commit keeps CacheInv: what it makes valid is cached as valid.
LEMMA CommitInv == ASSUME CacheInv, Commit PROVE CacheInv'
<1>1. db' = db \cup adding.done /\ UNCHANGED <<data, query, old, excused>>
      /\ adding' \in Txns /\ ~adding'.on /\ adding'.done = {}
  BY DEF Commit, NoTxn, Txns
<1>2. adding.done \in SUBSET StorePaths
  BY DEF CacheInv, CacheTypes, Txns
<1>3. CacheTypes'
  BY <1>1, <1>2 DEF CacheInv, CacheTypes
<1>4. AnswerInv'
  BY <1>1 DEF CacheInv, AnswerInv, Validity
<1>5. CacheCoherent'
  BY <1>1 DEF CacheInv, CacheCoherent, AddedInv, Validity
<1> QED
  BY <1>1, <1>3, <1>4, <1>5 DEF CacheInv, AddedInv, SizedInv

\* A rollback keeps CacheInv.
LEMMA RollbackInv == ASSUME CacheInv, Rollback PROVE CacheInv'
<1>1. excused' = excused \cup (adding.done \ db) /\ UNCHANGED <<db, data, query, old>>
      /\ adding' \in Txns /\ ~adding'.on /\ adding'.done = {}
  BY DEF Rollback, NoTxn, Txns
<1>2. adding.done \in SUBSET StorePaths
  BY DEF CacheInv, CacheTypes, Txns
<1>3. CacheTypes'
  BY <1>1, <1>2 DEF CacheInv, CacheTypes
<1>4. AnswerInv'
  BY <1>1 DEF CacheInv, AnswerInv, Validity
<1>5. CacheCoherent'
  BY <1>1 DEF CacheInv, CacheCoherent, AddedInv, Validity
<1> QED
  BY <1>1, <1>3, <1>4, <1>5 DEF CacheInv, AddedInv, SizedInv

\* A path that changes outside of a transaction: its entry is erased, or excused.
LEMMA PathChanges ==
    ASSUME CacheInv, ~adding.on, NEW p \in StorePaths,
           db' \in SUBSET StorePaths, \A x \in StorePaths \ {p} : x \in db' <=> x \in db,
           old' = Outdated(p), UNCHANGED <<query, adding>>,
           data' \in [StorePaths -> Cached], data'[p] \in {"none", data[p]},
           \A x \in StorePaths \ {p} : data'[x] = data[x],
           excused' \in SUBSET StorePaths,
           \A x \in StorePaths \ {p} : x \in excused' <=> x \in excused,
           data'[p] # "none" => p \in excused'
    PROVE  CacheInv'
<1>1. /\ old' \in [Queriers -> BOOLEAN]
      /\ \A t \in Queriers : old'[t] <=> old[t] \/ (query[t].pc = "store" /\ query[t].path = p)
  BY OutdatedQueries
<1>2. adding.done = {}
  BY DEF CacheInv, AddedInv
<1>3. CacheTypes'
  BY <1>1 DEF CacheInv, CacheTypes
<1>4. AnswerInv'
  BY <1>1, <1>2 DEF CacheInv, CacheTypes, AnswerInv, Validity
<1>5. AddedInv' /\ SizedInv'
  BY <1>2 DEF CacheInv, AddedInv, SizedInv
<1>6. CacheCoherent'
  BY DEF CacheInv, CacheCoherent, Validity
<1> QED
  BY <1>3, <1>4, <1>5, <1>6 DEF CacheInv

\* invalidatePath keeps CacheInv.
LEMMA InvalidateInv == ASSUME CacheInv, NEW p \in StorePaths, Invalidate(p) PROVE CacheInv'
<1>1. data' = [data EXCEPT ![p] = "none"] /\ db' = db \ {p} /\ old' = Outdated(p)
      /\ excused' = excused \ {p} /\ UNCHANGED <<query, adding>> /\ ~adding.on
  BY DEF Invalidate, Erase
<1>2. data \in [StorePaths -> Cached] /\ db \in SUBSET StorePaths /\ excused \in SUBSET StorePaths
  BY DEF CacheInv, CacheTypes
<1>3. data' \in [StorePaths -> Cached] /\ data'[p] = "none"
      /\ \A x \in StorePaths \ {p} : data'[x] = data[x]
  BY <1>1, <1>2 DEF Cached
<1> QED
  BY <1>1, <1>2, <1>3, PathChanges

\* A change by another process keeps CacheInv.
LEMMA OtherProcessInv == ASSUME CacheInv, NEW p \in StorePaths, OtherProcess(p) PROVE CacheInv'
<1>1. data' = data /\ db' = (IF p \in db THEN db \ {p} ELSE db \cup {p}) /\ old' = Outdated(p)
      /\ excused' = (IF data[p] = "none" THEN excused ELSE excused \cup {p})
      /\ UNCHANGED <<query, adding>> /\ ~adding.on
  BY DEF OtherProcess
<1>2. data \in [StorePaths -> Cached] /\ db \in SUBSET StorePaths /\ excused \in SUBSET StorePaths
  BY DEF CacheInv, CacheTypes
<1>3. db' \in SUBSET StorePaths /\ \A x \in StorePaths \ {p} : x \in db' <=> x \in db
  BY <1>1, <1>2
<1>4. excused' \in SUBSET StorePaths /\ (\A x \in StorePaths \ {p} : x \in excused' <=> x \in excused)
      /\ (data[p] # "none" => p \in excused')
  BY <1>1, <1>2
<1> QED
  BY <1>1, <1>2, <1>3, <1>4, PathChanges

\* CacheInv is inductive.
LEMMA CacheStep == CacheInv /\ [CacheNext]_cacheVars => CacheInv'
<1> SUFFICES ASSUME CacheInv, [CacheNext]_cacheVars
             PROVE  CacheInv'
  OBVIOUS
<1>1. CASE UNCHANGED cacheVars
  BY <1>1 DEF cacheVars, CacheInv, CacheTypes, AnswerInv, AddedInv, SizedInv, CacheCoherent, Validity
<1>2. CASE CacheNext
  BY <1>2, LookupInv, AskInv, StoreAnswerInv, BeginInv, AddValidPathInv, CommitInv, RollbackInv,
     InvalidateInv, OtherProcessInv DEF CacheNext
<1> QED
  BY <1>1, <1>2

\* A cached answer is that of the database, but for the four known reasons
\* (store-api.cc queryPathInfo, local-store.cc registerValidPaths).
THEOREM CacheIsCoherent == CacheSpec => []CacheCoherent
<1>1. CacheInv => CacheCoherent
  BY DEF CacheInv
<1> QED
  BY <1>1, CacheInitInv, CacheStep, PTL DEF CacheSpec

(***************************************************************************)
(* ConnectionPool: ConnectionsExclusive                                    *)
(***************************************************************************)
Places ==
    {"get", "waiting", "factory", "opening", "using", "returned", "threw", "notify", "notifyThrew",
     "left", "done"}

ConnectionTypes ==
    /\ inUse \in Int /\ max \in Int /\ idle \in SUBSET Connections
    /\ cpc \in [Clients -> Places]
    /\ held \in [Clients -> Seq(Connections)]
    /\ nested \in [Clients -> {"notYet", "now", "past"}]

\* The clients that are opening a connection, and those within addCAToStore.
Opening == {c \in Clients : cpc[c] \in {"factory", "opening"}}
Within == {c \in Clients : nested[c] = "now"}

Distinct ==
    \A c, d \in Clients : \A i \in DOMAIN held[c], j \in DOMAIN held[d] :
        held[c][i] = held[d][j] => c = d /\ i = j

ConnectionInv ==
    /\ ConnectionTypes
    /\ Distinct
    /\ idle \cap InHand = {}
    /\ inUse = Cardinality(InHand) + Cardinality(Opening)
    /\ inUse + Cardinality(idle) <= MaxConnections + Cardinality(Nesting)
    /\ max = MaxConnections + Cardinality(Within)
    /\ Within \subseteq Nesting

-----------------------------------------------------------------------------
\* The sets that are counted are finite.
LEMMA CountFacts ==
    ASSUME ConnectionTypes
    PROVE  /\ InHand \subseteq Connections /\ Opening \subseteq Clients
           /\ IsFiniteSet(InHand) /\ Cardinality(InHand) \in Nat
           /\ IsFiniteSet(idle) /\ Cardinality(idle) \in Nat
           /\ IsFiniteSet(Opening) /\ Cardinality(Opening) \in Nat
           /\ IsFiniteSet(Within) /\ Cardinality(Within) \in Nat
           /\ IsFiniteSet(Nesting) /\ Cardinality(Nesting) \in Nat
<1>1. IsFiniteSet(Connections)
  <2>1. Cardinality(Clients) \in Nat  BY PoolAssumption, FS_CardinalityType
  <2>. QED  BY <2>1, PoolAssumption, FS_Interval DEF Connections
<1>2. InHand \subseteq Connections
  <2>. SUFFICES ASSUME NEW c \in Clients, NEW i \in DOMAIN held[c] PROVE held[c][i] \in Connections
    BY DEF InHand
  <2>1. held[c] \in Seq(Connections)  BY DEF ConnectionTypes
  <2>. QED  BY <2>1
<1>3. IsFiniteSet(InHand)  BY <1>1, <1>2, FS_Subset
<1>4. IsFiniteSet(idle)  BY <1>1, FS_Subset DEF ConnectionTypes
<1>5. IsFiniteSet(Opening)  BY PoolAssumption, FS_Subset DEF Opening
<1>6. IsFiniteSet(Within)  BY PoolAssumption, FS_Subset DEF Within
<1>7. IsFiniteSet(Nesting)  BY PoolAssumption, FS_Subset
<1>. QED  BY <1>2, <1>3, <1>4, <1>5, <1>6, <1>7, FS_CardinalityType DEF Opening

\* The numbers of the invariant.
LEMMA NumberFacts ==
    ASSUME ConnectionInv
    PROVE  /\ inUse \in Int /\ max \in Int /\ MaxConnections \in Nat
           /\ Cardinality(InHand) \in Nat /\ Cardinality(Opening) \in Nat
           /\ Cardinality(idle) \in Nat /\ Cardinality(Within) \in Nat
           /\ Cardinality(Nesting) \in Nat /\ Cardinality(Within) <= Cardinality(Nesting)
           /\ inUse = Cardinality(InHand) + Cardinality(Opening)
           /\ inUse + Cardinality(idle) <= MaxConnections + Cardinality(Nesting)
           /\ max = MaxConnections + Cardinality(Within)
<1>1. ConnectionTypes /\ Within \in SUBSET Nesting  BY DEF ConnectionInv
<1>2. Cardinality(Within) <= Cardinality(Nesting)  BY <1>1, CountFacts, FS_Subset
<1>. QED  BY <1>1, <1>2, CountFacts, PoolAssumption DEF ConnectionInv, ConnectionTypes

\* A handle is added.
LEMMA HandleAdded ==
    ASSUME ConnectionTypes, Distinct, NEW c \in Clients, NEW r \in Connections, r \notin InHand,
           held' = [held EXCEPT ![c] = Append(@, r)]
    PROVE  /\ held' \in [Clients -> Seq(Connections)]
           /\ Distinct' /\ InHand' = InHand \cup {r}
           /\ Cardinality(InHand \cup {r}) = Cardinality(InHand) + 1
<1>. DEFINE q == held[c]
<1>1. q \in Seq(Connections)  BY DEF ConnectionTypes
<1>2. held'[c] = Append(q, r) /\ \A d \in Clients \ {c} : held'[d] = held[d]
  BY DEF ConnectionTypes
<1>3. /\ Append(q, r) \in Seq(Connections)
      /\ DOMAIN Append(q, r) = DOMAIN q \cup {Len(q) + 1} /\ Len(q) + 1 \notin DOMAIN q
      /\ \A i \in DOMAIN q : Append(q, r)[i] = q[i]
      /\ Append(q, r)[Len(q) + 1] = r
  BY <1>1
<1>4. held' \in [Clients -> Seq(Connections)]  BY <1>2, <1>3 DEF ConnectionTypes
<1>5. \A d \in Clients : \A i \in DOMAIN held[d] : held[d][i] \in InHand
  BY DEF InHand
<1>6. InHand' = InHand \cup {r}
  <2>1. ASSUME NEW x \in InHand' PROVE x \in InHand \cup {r}
    <3>0. PICK d \in Clients : \E i \in DOMAIN held'[d] : x = held'[d][i]  BY DEF InHand
    <3>1. PICK i \in DOMAIN held'[d] : x = held'[d][i]  BY <3>0
    <3>. QED  BY <1>2, <1>3, <1>5, <3>1
  <2>2. ASSUME NEW d \in Clients, NEW i \in DOMAIN held[d] PROVE held[d][i] \in InHand'
    <3>1. i \in DOMAIN held'[d] /\ held'[d][i] = held[d][i]  BY <1>2, <1>3
    <3>. QED  BY <3>1 DEF InHand
  <2>3. r \in InHand'
    <3>1. Len(q) + 1 \in DOMAIN held'[c] /\ held'[c][Len(q) + 1] = r  BY <1>2, <1>3
    <3>. QED  BY <3>1 DEF InHand
  <2>4. InHand \subseteq InHand'  BY <2>2 DEF InHand
  <2>. QED  BY <2>1, <2>3, <2>4
<1>7. Distinct'
  <2>. SUFFICES ASSUME NEW d \in Clients, NEW e \in Clients, NEW i \in DOMAIN held'[d],
                       NEW j \in DOMAIN held'[e], held'[d][i] = held'[e][j]
                PROVE  d = e /\ i = j
    BY DEF Distinct
  <2>. DEFINE new(g, k) == g = c /\ k = Len(q) + 1
  <2>1. /\ ~new(d, i) => i \in DOMAIN held[d] /\ held'[d][i] = held[d][i]
        /\ ~new(e, j) => j \in DOMAIN held[e] /\ held'[e][j] = held[e][j]
        /\ new(d, i) => held'[d][i] = r
        /\ new(e, j) => held'[e][j] = r
    BY <1>2, <1>3
  <2>2. CASE new(d, i) /\ new(e, j)  BY <2>2
  <2>3. CASE ~new(d, i) /\ ~new(e, j)
    <3>. HIDE DEF new
    <3>. QED  BY <2>1, <2>3 DEF Distinct
  <2>4. CASE new(d, i) /\ ~new(e, j)
    <3>. HIDE DEF new
    <3>. QED  BY <1>5, <2>1, <2>4
  <2>5. CASE ~new(d, i) /\ new(e, j)
    <3>. HIDE DEF new
    <3>. QED  BY <1>5, <2>1, <2>5
  <2>. QED  BY <2>2, <2>3, <2>4, <2>5
<1>8. Cardinality(InHand \cup {r}) = Cardinality(InHand) + 1
  BY CountFacts, FS_AddElement
<1>. QED  BY <1>4, <1>6, <1>7, <1>8

\* The innermost handle is closed.
LEMMA HandleRemoved ==
    ASSUME ConnectionTypes, Distinct, NEW c \in Clients, NEW n \in Nat \ {0}, n = Len(held[c]),
           held' = [held EXCEPT ![c] = SubSeq(@, 1, n - 1)]
    PROVE  /\ held' \in [Clients -> Seq(Connections)]
           /\ Distinct' /\ held[c][n] \in InHand /\ InHand' = InHand \ {held[c][n]}
           /\ Cardinality(InHand \ {held[c][n]}) = Cardinality(InHand) - 1
<1>. DEFINE q == held[c]  p == SubSeq(q, 1, n - 1)
<1>1. q \in Seq(Connections) /\ n = Len(q)  BY DEF ConnectionTypes
<1>2. held'[c] = p /\ \A d \in Clients \ {c} : held'[d] = held[d]
  BY DEF ConnectionTypes
<1>3. /\ p \in Seq(Connections) /\ n \in DOMAIN q
      /\ DOMAIN p = DOMAIN q \ {n}
      /\ \A i \in DOMAIN p : p[i] = q[i]
  <2>1. Len(p) = n - 1 /\ p \in Seq(Connections)  BY <1>1
  <2>2. \A i \in 1 .. n - 1 : p[i] = q[i]  BY <1>1
  <2>3. DOMAIN q = 1 .. n /\ DOMAIN p = 1 .. n - 1  BY <1>1, <2>1
  <2>. HIDE DEF p
  <2>. QED  BY <2>1, <2>2, <2>3
<1>. HIDE DEF p
<1>4. held' \in [Clients -> Seq(Connections)]  BY <1>2, <1>3 DEF ConnectionTypes
<1>5. \A d \in Clients : \A i \in DOMAIN held'[d] :
         /\ i \in DOMAIN held[d] /\ held'[d][i] = held[d][i] /\ ~(d = c /\ i = n)
  BY <1>2, <1>3
<1>6. Distinct'
  BY <1>5 DEF Distinct
<1>7. q[n] \in InHand  BY <1>3 DEF InHand
<1>8. InHand' = InHand \ {q[n]}
  <2>1. ASSUME NEW x \in InHand' PROVE x \in InHand /\ x # q[n]
    <3>0. PICK d \in Clients : \E i \in DOMAIN held'[d] : x = held'[d][i]  BY DEF InHand
    <3>1. PICK i \in DOMAIN held'[d] : x = held'[d][i]  BY <3>0
    <3>2. x = held[d][i] /\ i \in DOMAIN held[d] /\ ~(d = c /\ i = n)  BY <1>5, <3>1
    <3>3. x \in InHand  BY <3>2 DEF InHand
    <3>. QED  BY <1>3, <3>2, <3>3 DEF Distinct
  <2>2. ASSUME NEW d \in Clients, NEW i \in DOMAIN held[d], held[d][i] # q[n]
        PROVE  held[d][i] \in InHand'
    <3>1. i \in DOMAIN held'[d] /\ held'[d][i] = held[d][i]  BY <1>2, <1>3, <2>2
    <3>. QED  BY <3>1 DEF InHand
  <2>3. InHand \ {q[n]} \subseteq InHand'  BY <2>2 DEF InHand
  <2>. QED  BY <2>1, <2>3
<1>9. Cardinality(InHand \ {q[n]}) = Cardinality(InHand) - 1
  BY <1>7, CountFacts, FS_RemoveElement
<1>. QED  BY <1>4, <1>6, <1>7, <1>8, <1>9

-----------------------------------------------------------------------------
\* Whom a notification wakes up is at "waiting" before and at "get" after it.
LEMMA NotifyFacts ==
    ASSUME ConnectionTypes, NEW c \in Clients, NEW label \in Places, cpc[c] # "waiting",
           cpc' \in Notify(c, label), label \notin {"factory", "opening"}
    PROVE  cpc' \in [Clients -> Places] /\ Opening' = Opening \ {c}
<1>. DEFINE W == {d \in Clients : cpc[d] = "waiting"}  next == [cpc EXCEPT ![c] = label]
<1>1. next \in [Clients -> Places] /\ {d \in Clients : next[d] \in {"factory", "opening"}} = Opening \ {c}
  BY DEF ConnectionTypes, Opening
<1>2. CASE W = {}
  <2>1. cpc' = next  BY <1>2 DEF Notify
  <2>. QED  BY <1>1, <2>1 DEF Opening
<1>3. CASE W # {}
  <2>1. PICK d \in W : cpc' = [next EXCEPT ![d] = "get"]  BY <1>3 DEF Notify
  <2>2. cpc' \in [Clients -> Places]  BY <1>1, <2>1 DEF Places
  <2>3. next[d] = "waiting"  BY DEF ConnectionTypes
  <2>4. \A e \in Clients : cpc'[e] \in {"factory", "opening"} <=> next[e] \in {"factory", "opening"}
    BY <1>1, <2>1, <2>3
  <2>. QED  BY <1>1, <2>2, <2>4 DEF Opening
<1>. QED  BY <1>2, <1>3

\* A client goes on elsewhere than in the factory.
LEMMA GoesOn ==
    ASSUME ConnectionTypes, NEW c \in Clients, NEW label \in Places,
           cpc' = [cpc EXCEPT ![c] = label], label \notin {"factory", "opening"}
    PROVE  /\ cpc' \in [Clients -> Places] /\ Opening' = Opening \ {c}
           /\ cpc[c] \notin {"factory", "opening"} => Opening' = Opening
BY DEF ConnectionTypes, Opening

\* What is in hand depends on the handles only.
LEMMA SameHandles ==
    ASSUME held' = held
    PROVE  InHand' = InHand /\ (Distinct' <=> Distinct)
BY DEF InHand, Distinct

\* Everything but the places of the clients is as before.
LEMMA PlaceOnly ==
    ASSUME ConnectionInv, cpc' \in [Clients -> Places], Opening' = Opening,
           UNCHANGED <<inUse, max, idle, held, nested>>
    PROVE  ConnectionInv'
<1>1. InHand' = InHand /\ (Distinct' <=> Distinct)  BY SameHandles
<1>2. Within' = Within  BY DEF Within
<1>3. ConnectionTypes'  BY DEF ConnectionInv, ConnectionTypes
<1>. QED  BY <1>1, <1>2, <1>3 DEF ConnectionInv

\* A client that is not opening a connection is not counted.
LEMMA NotOpening ==
    \A c \in Clients : cpc[c] \notin {"factory", "opening"} => Opening \ {c} = Opening
BY DEF Opening

\* The steps that only wait, open, return or throw.
LEMMA PlaceInv ==
    ASSUME ConnectionInv, NEW c \in Clients,
           Wait(c) \/ StartOpening(c) \/ Used(c) \/ NoHandle(c) \/ HandleClosed(c)
    PROVE  ConnectionInv'
<1>0. ConnectionTypes  BY DEF ConnectionInv
<1>1. CASE Wait(c)
  <2>1. cpc' \in [Clients -> Places] /\ Opening' = Opening  BY <1>0, <1>1, GoesOn DEF Places, Wait
  <2>. QED  BY <1>1, <2>1, PlaceOnly DEF Wait
<1>2. CASE Used(c)
  <2>1. PICK label \in {"returned", "threw"} : cpc' = [cpc EXCEPT ![c] = label]
    BY <1>2 DEF Used
  <2>2. cpc' \in [Clients -> Places] /\ Opening' = Opening
    BY <1>0, <1>2, <2>1, GoesOn DEF Places, Used
  <2>. QED  BY <1>2, <2>2, PlaceOnly DEF Used
<1>3. CASE NoHandle(c)
  <2>1. cpc' \in [Clients -> Places] /\ Opening' = Opening  BY <1>0, <1>3, GoesOn DEF Places, NoHandle
  <2>. QED  BY <1>3, <2>1, PlaceOnly DEF NoHandle
<1>4. CASE HandleClosed(c)
  <2>1. PICK label \in {"done", "left", "threw"} : cpc' \in Notify(c, label)
    BY <1>4 DEF HandleClosed
  <2>2. cpc' \in [Clients -> Places] /\ Opening' = Opening \ {c}
    BY <1>0, <1>4, <2>1, NotifyFacts DEF Places, HandleClosed
  <2>3. Opening' = Opening  BY <1>4, <2>2, NotOpening DEF HandleClosed
  <2>. QED  BY <1>4, <2>2, <2>3, PlaceOnly DEF HandleClosed
<1>5. CASE StartOpening(c)
  <2>1. cpc' \in [Clients -> Places] /\ Opening' = Opening
    BY <1>0, <1>5 DEF ConnectionTypes, Places, Opening, StartOpening
  <2>. QED  BY <1>5, <2>1, PlaceOnly DEF StartOpening
<1>. QED  BY <1>1, <1>2, <1>3, <1>4, <1>5

\* A client takes a connection off the idle ones.
LEMMA TakeIdleInv ==
    ASSUME ConnectionInv, NEW c \in Clients, TakeIdle(c)
    PROVE  ConnectionInv'
<1>1. ConnectionTypes /\ Distinct  BY DEF ConnectionInv
<1>2. PICK r \in idle : \E bad \in SUBSET (idle \ {r}) :
         idle' = (idle \ {r}) \ bad /\ held' = [held EXCEPT ![c] = Append(@, r)]
  BY DEF TakeIdle
<1>3. r \in Connections /\ r \notin InHand  BY DEF ConnectionInv, ConnectionTypes
<1>4. /\ held' \in [Clients -> Seq(Connections)]
      /\ Distinct' /\ InHand' = InHand \cup {r}
      /\ Cardinality(InHand \cup {r}) = Cardinality(InHand) + 1
  BY <1>1, <1>2, <1>3, HandleAdded
<1>5. cpc' \in [Clients -> Places] /\ Opening' = Opening  BY <1>1, GoesOn DEF Places, TakeIdle
<1>6. /\ idle' \in SUBSET (idle \ {r})
      /\ Cardinality(idle') \in Nat /\ Cardinality(idle') <= Cardinality(idle) - 1
  <2>1. idle' \in SUBSET (idle \ {r})  BY <1>2
  <2>2. IsFiniteSet(idle \ {r}) /\ Cardinality(idle \ {r}) = Cardinality(idle) - 1
    BY <1>1, CountFacts, FS_RemoveElement
  <2>3. IsFiniteSet(idle') /\ Cardinality(idle') <= Cardinality(idle) - 1
    BY <2>1, <2>2, FS_Subset
  <2>. QED  BY <2>1, <2>3, FS_CardinalityType
<1>7. inUse' = inUse + 1 /\ max' = max /\ nested' = nested  BY DEF TakeIdle
<1>8. ConnectionTypes'  BY <1>1, <1>4, <1>5, <1>6, <1>7 DEF ConnectionTypes
<1>9. idle' \cap InHand' = {}  BY <1>4, <1>6 DEF ConnectionInv
<1>10. Within' = Within  BY <1>7 DEF Within
<1>11. inUse' = Cardinality(InHand') + Cardinality(Opening')
  BY <1>4, <1>5, <1>7, NumberFacts
<1>12. inUse' + Cardinality(idle') <= MaxConnections + Cardinality(Nesting)
  BY <1>6, <1>7, NumberFacts
<1>. QED  BY <1>4, <1>7, <1>8, <1>9, <1>10, <1>11, <1>12 DEF ConnectionInv

\* A client counts itself in before it opens a connection.
LEMMA ReserveInv ==
    ASSUME ConnectionInv, NEW c \in Clients, Reserve(c)
    PROVE  ConnectionInv'
<1>1. ConnectionTypes  BY DEF ConnectionInv
<1>2. /\ idle' = {} /\ inUse' = inUse + 1 /\ max' = max /\ nested' = nested /\ held' = held
      /\ cpc' = [cpc EXCEPT ![c] = "factory"] /\ cpc[c] = "get" /\ (idle # {} \/ inUse < max)
  BY DEF Reserve
<1>3. cpc' \in [Clients -> Places] /\ Opening' = Opening \cup {c} /\ c \notin Opening
  BY <1>1, <1>2 DEF ConnectionTypes, Opening, Places
<1>4. Cardinality(Opening') = Cardinality(Opening) + 1
  BY <1>1, <1>3, CountFacts, FS_AddElement
<1>5. Distinct' /\ InHand' = InHand /\ Within' = Within
  BY <1>2, SameHandles DEF ConnectionInv, Within
<1>6. Cardinality(idle') = 0  BY <1>2, FS_EmptySet
<1>7. idle # {} => Cardinality(idle) >= 1
  BY <1>1, CountFacts, FS_EmptySet
<1>9. ConnectionTypes'  BY <1>1, <1>2, <1>3 DEF ConnectionTypes
<1>10. inUse + 1 <= MaxConnections + Cardinality(Nesting)
  BY <1>2, <1>7, NumberFacts
<1>11. inUse' = Cardinality(InHand') + Cardinality(Opening')
  BY <1>2, <1>4, <1>5, NumberFacts
<1>12. inUse' + Cardinality(idle') <= MaxConnections + Cardinality(Nesting)
  BY <1>2, <1>6, <1>10, NumberFacts
<1>. QED  BY <1>2, <1>5, <1>9, <1>11, <1>12 DEF ConnectionInv

\* The factory has returned a connection that nobody has seen.
LEMMA ConnectedInv ==
    ASSUME ConnectionInv, NEW c \in Clients, Connected(c)
    PROVE  ConnectionInv'
<1>1. ConnectionTypes /\ Distinct  BY DEF ConnectionInv
<1>2. PICK r \in Connections \ (idle \cup InHand) : held' = [held EXCEPT ![c] = Append(@, r)]
  BY DEF Connected
<1>3. r \in Connections /\ r \notin InHand  OBVIOUS
<1>4. /\ held' \in [Clients -> Seq(Connections)]
      /\ Distinct' /\ InHand' = InHand \cup {r}
      /\ Cardinality(InHand \cup {r}) = Cardinality(InHand) + 1
  BY <1>1, <1>2, <1>3, HandleAdded
<1>5. cpc' \in [Clients -> Places] /\ Opening' = Opening \ {c} /\ c \in Opening
  BY <1>1, GoesOn DEF Places, Connected, Opening
<1>6. Cardinality(Opening') = Cardinality(Opening) - 1
  BY <1>1, <1>5, CountFacts, FS_RemoveElement
<1>7. inUse' = inUse /\ max' = max /\ nested' = nested /\ idle' = idle  BY DEF Connected
<1>8. ConnectionTypes'  BY <1>1, <1>4, <1>5, <1>7 DEF ConnectionTypes
<1>9. idle' \cap InHand' = {}  BY <1>4, <1>7 DEF ConnectionInv
<1>10. Within' = Within  BY <1>7 DEF Within
<1>11. inUse' = Cardinality(InHand') + Cardinality(Opening')
  BY <1>4, <1>6, <1>7, NumberFacts
<1>. QED  BY <1>4, <1>7, <1>8, <1>9, <1>10, <1>11 DEF ConnectionInv

\* The factory threw, and the client counts itself out.
LEMMA ConnectionFailsInv ==
    ASSUME ConnectionInv, NEW c \in Clients, ConnectionFails(c)
    PROVE  ConnectionInv'
<1>1. ConnectionTypes  BY DEF ConnectionInv
<1>2. /\ inUse' = inUse - 1 /\ max' = max /\ nested' = nested /\ held' = held /\ idle' = idle
      /\ cpc' \in Notify(c, "threw") /\ cpc[c] \in {"factory", "opening"}
  BY DEF ConnectionFails
<1>3. cpc' \in [Clients -> Places] /\ Opening' = Opening \ {c} /\ c \in Opening
  BY <1>1, <1>2, NotifyFacts DEF Places, Opening
<1>4. Cardinality(Opening') = Cardinality(Opening) - 1
  BY <1>1, <1>3, CountFacts, FS_RemoveElement
<1>5. Distinct' /\ InHand' = InHand /\ Within' = Within
  BY <1>2, SameHandles DEF ConnectionInv, Within
<1>6. ConnectionTypes'  BY <1>1, <1>2, <1>3 DEF ConnectionTypes
<1>7. inUse' = Cardinality(InHand') + Cardinality(Opening')
  BY <1>2, <1>4, <1>5, NumberFacts
<1>8. inUse' + Cardinality(idle') <= MaxConnections + Cardinality(Nesting)
  BY <1>2, NumberFacts
<1>. QED  BY <1>2, <1>5, <1>6, <1>7, <1>8 DEF ConnectionInv

\* A client that holds a connection adds one to max for a nested use.
LEMMA IncCapacityInv ==
    ASSUME ConnectionInv, NEW c \in Clients, IncCapacity(c)
    PROVE  ConnectionInv'
<1>1. ConnectionTypes  BY DEF ConnectionInv
<1>2. /\ inUse' = inUse /\ max' = max + 1 /\ held' = held /\ idle' = idle
      /\ nested' = [nested EXCEPT ![c] = "now"] /\ nested[c] = "notYet" /\ c \in Nesting
      /\ cpc' = [cpc EXCEPT ![c] = "get"] /\ cpc[c] = "using"
  BY DEF IncCapacity
<1>3. cpc' \in [Clients -> Places] /\ Opening' = Opening
  BY <1>1, <1>2, GoesOn DEF Places
<1>4. Distinct' /\ InHand' = InHand
  BY <1>2, SameHandles DEF ConnectionInv
<1>5. nested' \in [Clients -> {"notYet", "now", "past"}]
  BY <1>1, <1>2 DEF ConnectionTypes
<1>6. Within' = Within \cup {c} /\ c \notin Within
  BY <1>1, <1>2 DEF Within, ConnectionTypes
<1>7. Cardinality(Within') = Cardinality(Within) + 1
  BY <1>1, <1>6, CountFacts, FS_AddElement
<1>8. ConnectionTypes'  BY <1>1, <1>2, <1>3, <1>5 DEF ConnectionTypes
<1>9. max' = MaxConnections + Cardinality(Within')
  BY <1>2, <1>7, NumberFacts
<1>10. Within' \subseteq Nesting  BY <1>2, <1>6 DEF ConnectionInv
<1>. QED  BY <1>2, <1>3, <1>4, <1>8, <1>9, <1>10 DEF ConnectionInv

\* The nested use is over, and max is what it was.
LEMMA DecCapacityInv ==
    ASSUME ConnectionInv, NEW c \in Clients, DecCapacity(c)
    PROVE  ConnectionInv'
<1>1. ConnectionTypes  BY DEF ConnectionInv
<1>2. /\ inUse' = inUse /\ max' = max - 1 /\ held' = held /\ idle' = idle
      /\ nested' = [nested EXCEPT ![c] = "past"] /\ nested[c] = "now"
      /\ cpc[c] \in {"left", "threw"}
  BY DEF DecCapacity
<1>3. PICK label \in {"using", "threw"} : cpc' = [cpc EXCEPT ![c] = label]
  BY DEF DecCapacity
<1>4. cpc' \in [Clients -> Places] /\ Opening' = Opening
  BY <1>1, <1>2, <1>3, GoesOn DEF Places
<1>5. Distinct' /\ InHand' = InHand
  BY <1>2, SameHandles DEF ConnectionInv
<1>6. nested' \in [Clients -> {"notYet", "now", "past"}]
  BY <1>1, <1>2 DEF ConnectionTypes
<1>7. Within' = Within \ {c} /\ c \in Within
  BY <1>1, <1>2 DEF Within, ConnectionTypes
<1>8. Cardinality(Within') = Cardinality(Within) - 1
  BY <1>1, <1>7, CountFacts, FS_RemoveElement
<1>9. ConnectionTypes'  BY <1>1, <1>2, <1>4, <1>6 DEF ConnectionTypes
<1>10. max' = MaxConnections + Cardinality(Within')
  BY <1>2, <1>8, NumberFacts
<1>11. Within' \subseteq Nesting  BY <1>7 DEF ConnectionInv
<1>. QED  BY <1>2, <1>4, <1>5, <1>9, <1>10, <1>11 DEF ConnectionInv

\* A connection goes back to the idle ones, or is closed if it is bad.
LEMMA CloseHandleInv ==
    ASSUME ConnectionInv, NEW c \in Clients, CloseHandle(c)
    PROVE  ConnectionInv'
<1>. DEFINE n == Len(held[c])  x == held[c][n]
<1>1. ConnectionTypes /\ Distinct  BY DEF ConnectionInv
<1>2. /\ inUse' = inUse - 1 /\ max' = max /\ nested' = nested
      /\ held' = [held EXCEPT ![c] = SubSeq(@, 1, n - 1)]
      /\ n \in {1, 2} /\ cpc[c] \in {"returned", "threw"}
      /\ idle' \in {idle, idle \cup {x}}
  BY DEF CloseHandle, Depth
<1>3. PICK label \in {"notify", "notifyThrew"} : cpc' = [cpc EXCEPT ![c] = label]
  BY DEF CloseHandle
<1>4. cpc' \in [Clients -> Places] /\ Opening' = Opening
  BY <1>1, <1>2, <1>3, GoesOn DEF Places
<1>5. n \in Nat \ {0} /\ n = Len(held[c])
  <2>1. n = 1 \/ n = 2  BY <1>2
  <2>2. 1 \in Nat \ {0} /\ 2 \in Nat \ {0}  OBVIOUS
  <2>3. n = Len(held[c])  OBVIOUS
  <2>. HIDE DEF n
  <2>. QED  BY <2>1, <2>2, <2>3
<1>. HIDE DEF n
<1>6. /\ held' \in [Clients -> Seq(Connections)]
      /\ Distinct' /\ x \in InHand /\ InHand' = InHand \ {x}
      /\ Cardinality(InHand \ {x}) = Cardinality(InHand) - 1
  BY <1>1, <1>2, <1>5, HandleRemoved
<1>. HIDE DEF x
<1>7. x \in Connections  BY <1>1, <1>6, CountFacts
<1>8. /\ Cardinality(idle') \in Nat /\ Cardinality(idle') <= Cardinality(idle) + 1
  <2>1. IsFiniteSet(idle) /\ Cardinality(idle) \in Nat  BY <1>1, CountFacts
  <2>2. /\ IsFiniteSet(idle \cup {x})
        /\ Cardinality(idle \cup {x}) \in {Cardinality(idle), Cardinality(idle) + 1}
    BY <2>1, FS_AddElement
  <2>3. CASE idle' = idle  BY <2>1, <2>3
  <2>4. CASE idle' = idle \cup {x}  BY <2>1, <2>2, <2>4
  <2>. QED  BY <1>2, <2>3, <2>4
<1>9. idle' \in SUBSET Connections /\ idle' \cap InHand' = {}
  BY <1>1, <1>2, <1>6, <1>7 DEF ConnectionInv, ConnectionTypes
<1>10. ConnectionTypes'  BY <1>1, <1>2, <1>4, <1>6, <1>9 DEF ConnectionTypes
<1>11. Within' = Within  BY <1>2 DEF Within
<1>12. inUse' = Cardinality(InHand') + Cardinality(Opening')
  BY <1>2, <1>4, <1>6, NumberFacts
<1>13. inUse' + Cardinality(idle') <= MaxConnections + Cardinality(Nesting)
  <2>1. inUse' = inUse - 1  BY <1>2
  <2>. QED  BY <1>8, <2>1, NumberFacts
<1>. QED  BY <1>2, <1>6, <1>9, <1>10, <1>11, <1>12, <1>13 DEF ConnectionInv

\* There are no connections at first.
LEMMA ConnectionInitInv == ConnectionInit => ConnectionInv
<1>. SUFFICES ASSUME ConnectionInit PROVE ConnectionInv  OBVIOUS
<1>1. ConnectionTypes
  BY PoolAssumption DEF ConnectionInit, ConnectionTypes, Places
<1>2. \A c \in Clients : DOMAIN held[c] = {}
  BY DEF ConnectionInit
<1>3. Distinct /\ InHand = {}  BY <1>2 DEF Distinct, InHand
<1>4. Opening = {} /\ Within = {} /\ idle = {}  BY DEF ConnectionInit, Opening, Within
<1>. QED  BY <1>1, <1>3, <1>4, CountFacts, FS_EmptySet, PoolAssumption DEF ConnectionInit, ConnectionInv

\* ConnectionInv is inductive.
LEMMA ConnectionStepInv == ConnectionInv /\ [ConnectionNext]_connectionVars => ConnectionInv'
<1>. SUFFICES ASSUME ConnectionInv, [ConnectionNext]_connectionVars PROVE ConnectionInv'
  OBVIOUS
<1>1. ASSUME NEW c \in Clients, ClientStep(c) PROVE ConnectionInv'
  BY <1>1, PlaceInv, TakeIdleInv, ReserveInv, ConnectedInv, ConnectionFailsInv, IncCapacityInv,
     DecCapacityInv, CloseHandleInv DEF ClientStep
<1>2. CASE UNCHANGED connectionVars
  <2>1. cpc' \in [Clients -> Places] /\ Opening' = Opening
    BY <1>2 DEF connectionVars, ConnectionInv, ConnectionTypes, Opening
  <2>. QED  BY <1>2, <2>1, PlaceOnly DEF connectionVars
<1>. QED  BY <1>1, <1>2 DEF ConnectionNext

\* The pool never hands a connection to two clients, counts what it has handed
\* out, and stays within its capacity, for any clients and any maximum.
THEOREM ConnectionsAreExclusive == ConnectionSpec => []ConnectionsExclusive
<1>1. ConnectionInv => ConnectionsExclusive
  BY DEF ConnectionInv, ConnectionsExclusive, Distinct, Opening
<1>. QED  BY <1>1, ConnectionInitInv, ConnectionStepInv, PTL DEF ConnectionSpec

(***************************************************************************)
(* ProcessGraph: DependenciesFirst and CompleteOrCyclic                    *)
(***************************************************************************)
Stages == {"start", "getRefs", "doWork", "release"}
ThreadPlaces ==
    {"main", "none", "loop", "waiting", "run", "done", "exited", "join", "gone"}

GraphTypes ==
    /\ pending \in Seq(Items) /\ active \in Int
    /\ exception \in BOOLEAN /\ draining \in BOOLEAN /\ quit \in BOOLEAN
    /\ tpc \in [Threads -> ThreadPlaces]
    /\ item \in [Threads -> Items \cup {None}]
    /\ exc \in [Threads -> BOOLEAN]
    /\ left \in SUBSET Items
    /\ refs \in [Items -> (SUBSET Items) \cup {None}]
    /\ rrefs \in [Items -> SUBSET Items]
    /\ glock \in Threads \cup {None}
    /\ at \in [Threads -> Stages]
    /\ todo \in [Threads -> SUBSET Items]
    /\ toEnqueue \in SUBSET Items /\ processed \in SUBSET Items

\* The references n waits for.
Needs(n) == IF refs[n] = None THEN {} ELSE refs[n]

Queued(n) == \E i \in DOMAIN pending : pending[i] = n
Runs(t, n) == tpc[t] = "run" /\ item[t] = n

\* Where a thread is in the lambda agrees with its node; whoever walks through
\* the reverse references has graph_ locked.
StageInv(t) ==
    /\ at[t] = "release" <=> glock = t
    /\ at[t] # "start" => tpc[t] = "run"
    /\ tpc[t] = "run" =>
          /\ item[t] \in Items /\ Needs(item[t]) = {}
          /\ at[t] \in {"doWork", "release"} => refs[item[t]] # None
          /\ at[t] = "getRefs" => refs[item[t]] = None
          /\ at[t] = "release" <=> item[t] \in processed

\* A node is at most at one place: to be enqueued, once in the queue, with one
\* thread, waiting (Needs is not empty) or processed.
OnePlace ==
    /\ \A i, j \in DOMAIN pending : pending[i] = pending[j] => i = j
    /\ \A t, u \in Threads : tpc[t] = "run" /\ Runs(u, item[t]) => t = u
    /\ \A n \in Items : Queued(n) => n \notin processed /\ Needs(n) = {} /\ \A t \in Threads : ~Runs(t, n)
    /\ \A n \in toEnqueue : /\ ~Queued(n) /\ n \notin processed /\ refs[n] = None
                            /\ \A t \in Threads : ~Runs(t, n)
    /\ \A n \in processed : Needs(n) = {}

\* refs, rrefs and the loop over them agree, and nothing a node needs is missing.
RefsInv ==
    /\ \A n \in Items : Needs(n) \subseteq (edges[n] \ {n}) \cap left
    /\ \A n \in Items : refs[n] # None => ReferencesIn(n, processed \cup Needs(n))
    /\ \A n, r \in Items : r \notin processed => (n \in rrefs[r] <=> r \in Needs(n))
    /\ \A t \in Threads : at[t] = "release" =>
          \A n \in Items : n \in todo[t] <=> item[t] \in Needs(n)

DoneInv ==
    /\ Items \ left \subseteq processed
    /\ \A n \in processed : ReferencesIn(n, processed)
    /\ processed \subseteq Processable

\* The threads with an item to account for; whether one of them threw.
Busy == {t \in Threads : tpc[t] \in {"run", "done"}}
Threw == \E t \in Threads : tpc[t] = "done" /\ exc[t]

\* Nothing is forgotten unless something failed.
TokenInv ==
    ~exception /\ ~Threw => \A n \in left :
        n \in toEnqueue \/ Queued(n) \/ Needs(n) # {} \/ \E t \in Threads : Runs(t, n)

\* The pool quits when something failed or nothing is left to do.
QuitInv ==
    /\ active = Cardinality(Busy)
    /\ tpc[MainThread] = "main" <=> ~draining
    /\ tpc[MainThread] \in {"exited", "join", "gone"} => quit
    /\ draining /\ ~quit => toEnqueue = {}
    /\ quit /\ ~exception => pending = <<>> /\ Busy = {} /\ toEnqueue = {}

GraphInv ==
    /\ GraphTypes
    /\ \A t \in Threads : StageInv(t)
    /\ OnePlace /\ RefsInv /\ DoneInv /\ TokenInv /\ QuitInv

-----------------------------------------------------------------------------
\* The threads are finite in number and None is not one of them.
LEMMA ThreadFacts ==
    /\ IsFiniteSet(Threads) /\ MainThread \in Threads /\ None \notin Threads
    /\ \A S \in SUBSET Threads : IsFiniteSet(S) /\ Cardinality(S) \in Nat
<1>1. IsFiniteSet(Threads)
  BY ThreadPoolAssumption, FS_Singleton, FS_Union DEF Threads
<1>2. \A S \in SUBSET Threads : IsFiniteSet(S) /\ Cardinality(S) \in Nat
  BY <1>1, FS_Subset, FS_CardinalityType
<1>. QED  BY <1>1, <1>2, GraphAssumption DEF Threads

\* What a node needs is a set of nodes.
LEMMA NeedsFacts ==
    ASSUME GraphTypes, NEW n \in Items
    PROVE  /\ Needs(n) \in SUBSET Items
           /\ refs[n] # None => refs[n] = Needs(n)
           /\ refs[n] = None => Needs(n) = {}
<1>1. refs[n] \in (SUBSET Items) \cup {None}  BY DEF GraphTypes
<1>. QED  BY <1>1 DEF Needs

\* A step of the pool that neither takes an item nor ends one leaves the graph
\* and the places of the nodes alone.
LEMMA SameWork ==
    ASSUME GraphInv, UNCHANGED bodyVars, pending' = pending,
           \A t \in Threads : tpc'[t] = "run" <=> tpc[t] = "run",
           \A t \in Threads : tpc[t] = "run" => item'[t] = item[t],
           ~exception' /\ ~Threw' => ~exception /\ ~Threw
    PROVE  (\A t \in Threads : StageInv(t)') /\ OnePlace' /\ RefsInv' /\ DoneInv' /\ TokenInv'
<1>1. /\ edges' = edges /\ left' = left /\ refs' = refs /\ rrefs' = rrefs /\ glock' = glock
      /\ at' = at /\ todo' = todo /\ toEnqueue' = toEnqueue /\ processed' = processed
  BY DEF bodyVars
<1>2. \A n \in Items : Needs(n)' = Needs(n) /\ (Queued(n)' <=> Queued(n))
  BY <1>1 DEF Needs, Queued
<1>3. \A n : \A t \in Threads : Runs(t, n)' <=> Runs(t, n)
  BY DEF Runs
<1>4. toEnqueue \subseteq Items /\ processed \subseteq Items /\ left \subseteq Items
  BY DEF GraphInv, GraphTypes
<1>5. ASSUME NEW t \in Threads PROVE StageInv(t)'
  <2>1. StageInv(t)  BY DEF GraphInv
  <2>2. tpc[t] = "run" => item'[t] = item[t] /\ item[t] \in Items  BY <2>1 DEF StageInv
  <2>3. tpc[t] = "run" => Needs(item[t])' = Needs(item[t])  BY <1>1, <2>2 DEF Needs
  <2>. QED  BY <1>1, <2>1, <2>2, <2>3 DEF StageInv
<1>6. OnePlace'
  <2>1. OnePlace  BY DEF GraphInv
  <2>2. \A i, j \in DOMAIN pending' : pending'[i] = pending'[j] => i = j  BY <2>1 DEF OnePlace
  <2>3. \A t, u \in Threads : tpc'[t] = "run" /\ Runs(u, item[t])' => t = u
    BY <2>1 DEF OnePlace, Runs
  <2>4. \A n \in Items : Queued(n)' => n \notin processed' /\ Needs(n)' = {} /\ \A t \in Threads : ~Runs(t, n)'
    BY <1>1, <1>2, <1>3, <2>1 DEF OnePlace
  <2>5. \A n \in toEnqueue' : /\ ~Queued(n)' /\ n \notin processed' /\ refs'[n] = None
                              /\ \A t \in Threads : ~Runs(t, n)'
    BY <1>1, <1>2, <1>3, <1>4, <2>1 DEF OnePlace
  <2>6. \A n \in processed' : Needs(n)' = {}  BY <1>1, <1>2, <1>4, <2>1 DEF OnePlace
  <2>. QED  BY <2>2, <2>3, <2>4, <2>5, <2>6 DEF OnePlace
<1>7. RefsInv'
  <2>1. RefsInv /\ \A t \in Threads : StageInv(t)  BY DEF GraphInv
  <2>2. \A t \in Threads : at[t] = "release" => item'[t] = item[t]
    BY <2>1 DEF StageInv
  <2>3. \A n \in Items : refs'[n] # None => ReferencesIn(n, processed \cup Needs(n))'
    BY <1>1, <1>2, <2>1 DEF RefsInv, ReferencesIn
  <2>. QED  BY <1>1, <1>2, <2>1, <2>2, <2>3 DEF RefsInv
<1>8. DoneInv'
  BY <1>1 DEF GraphInv, DoneInv, ReferencesIn, Processable, Closed
<1>9. TokenInv'
  BY <1>1, <1>2, <1>3, <1>4 DEF GraphInv, TokenInv
<1>. QED  BY <1>5, <1>6, <1>7, <1>8, <1>9

\* Notified threads go from "waiting" to "loop".
LEMMA NotifyAllFacts ==
    ASSUME GraphTypes
    PROVE  /\ NotifyAll(tpc) \in [Threads -> ThreadPlaces]
           /\ \A u \in Threads : \/ NotifyAll(tpc)[u] = tpc[u]
                                 \/ tpc[u] = "waiting" /\ NotifyAll(tpc)[u] = "loop"
BY DEF GraphTypes, NotifyAll, ThreadPlaces

\* A thread that has no item, or has ended its item, goes on without one.
LEMMA IdleInv ==
    ASSUME GraphInv, NEW t \in Threads, tpc[t] \in {"loop", "done"},
           NEW others \in [Threads -> ThreadPlaces],
           \A u \in Threads : others[u] = tpc[u] \/ (tpc[u] = "waiting" /\ others[u] = "loop"),
           NEW label \in {"exited", "waiting"}, Idle(t, others, label), UNCHANGED bodyVars,
           quit' \in BOOLEAN, exception' \in BOOLEAN, quit => quit', exception => exception',
           label = "exited" => quit',
           exception' \/ ~(tpc[t] = "done" /\ exc[t]),
           quit' /\ ~exception' => quit \/ (pending = <<>> /\ ActiveNow(t) = 0 /\ draining)
    PROVE  GraphInv'
<1>1. GraphTypes /\ QuitInv /\ MainThread \in Threads
  BY ThreadFacts DEF GraphInv
<1>2. /\ tpc' = [others EXCEPT ![t] = label] /\ item' = [item EXCEPT ![t] = None]
      /\ pending' = pending /\ draining' = draining /\ exc' = exc /\ active' = ActiveNow(t)
  BY DEF Idle
<1>3. /\ tpc' \in [Threads -> ThreadPlaces] /\ tpc'[t] = label
      /\ \A u \in Threads \ {t} : \/ tpc'[u] = tpc[u]
                                  \/ tpc[u] = "waiting" /\ tpc'[u] = "loop"
  BY <1>2 DEF ThreadPlaces
<1>4. item' \in [Threads -> Items \cup {None}] /\ \A u \in Threads \ {t} : item'[u] = item[u]
  BY <1>1, <1>2 DEF GraphTypes
<1>5. \A u \in Threads : /\ tpc'[u] = "run" <=> tpc[u] = "run"
                         /\ tpc[u] = "run" => item'[u] = item[u]
  BY <1>3, <1>4
<1>6. ~exception' /\ ~Threw' => ~exception /\ ~Threw
  BY <1>2, <1>3 DEF Threw
<1>7. (\A u \in Threads : StageInv(u)') /\ OnePlace' /\ RefsInv' /\ DoneInv' /\ TokenInv'
  BY <1>2, <1>5, <1>6, SameWork
<1>8. active \in Int /\ active' \in Int  BY <1>1, <1>2 DEF GraphTypes, ActiveNow
<1>9. GraphTypes'
  BY <1>1, <1>2, <1>3, <1>4, <1>8 DEF GraphTypes, bodyVars
<1>10. Busy' = Busy \ {t} /\ Busy \in SUBSET Threads
  BY <1>3 DEF Busy
<1>11. active' = Cardinality(Busy')
  <2>1. IsFiniteSet(Busy) /\ active = Cardinality(Busy)
    BY <1>1, <1>10, ThreadFacts DEF QuitInv
  <2>2. Cardinality(Busy \ {t}) = IF t \in Busy THEN Cardinality(Busy) - 1 ELSE Cardinality(Busy)
    BY <2>1, FS_RemoveElement
  <2>3. t \in Busy <=> tpc[t] = "done"  BY DEF Busy
  <2>. QED  BY <1>2, <1>8, <1>10, <2>1, <2>2, <2>3 DEF ActiveNow
<1>12. toEnqueue' = toEnqueue  BY DEF bodyVars
<1>13. tpc'[MainThread] = "main" <=> ~draining'
  BY <1>1, <1>2, <1>3 DEF QuitInv
<1>14. tpc'[MainThread] \in {"exited", "join", "gone"} => quit'
  BY <1>1, <1>3 DEF QuitInv
<1>15. draining' /\ ~quit' => toEnqueue' = {}
  BY <1>1, <1>2, <1>12 DEF QuitInv
<1>16. quit' /\ ~exception' => pending' = <<>> /\ Busy' = {} /\ toEnqueue' = {}
  <2>. SUFFICES ASSUME quit', ~exception' PROVE pending' = <<>> /\ Busy' = {} /\ toEnqueue' = {}
    OBVIOUS
  <2>1. CASE quit
    BY <1>1, <1>2, <1>10, <1>12, <2>1 DEF QuitInv
  <2>2. CASE ~quit
    <3>1. pending = <<>> /\ active' = 0 /\ draining  BY <1>2, <2>2
    <3>2. toEnqueue = {}  BY <1>1, <2>2, <3>1 DEF QuitInv
    <3>3. IsFiniteSet(Busy') /\ Cardinality(Busy') = 0
      BY <1>10, <1>11, <3>1, ThreadFacts
    <3>4. Busy' = {}  BY <3>3, FS_EmptySet
    <3>. QED  BY <1>2, <1>12, <3>1, <3>2, <3>4
  <2>. QED  BY <2>1, <2>2
<1>17. QuitInv'
  BY <1>11, <1>13, <1>14, <1>15, <1>16 DEF QuitInv
<1>. QED  BY <1>7, <1>9, <1>17 DEF GraphInv

\* The steps of doWork that take no item.
LEMMA WorkEndsInv ==
    ASSUME GraphInv, NEW t \in Threads, UNCHANGED bodyVars,
           WorkFailed(t) \/ WorkQuit(t) \/ WorkDrained(t) \/ WorkWait(t)
    PROVE  GraphInv'
<1>1. /\ GraphTypes /\ tpc \in [Threads -> ThreadPlaces]
      /\ quit \in BOOLEAN /\ exception \in BOOLEAN
  BY DEF GraphInv, GraphTypes
<1>2. /\ NotifyAll(tpc) \in [Threads -> ThreadPlaces]
      /\ \A u \in Threads : \/ NotifyAll(tpc)[u] = tpc[u]
                            \/ tpc[u] = "waiting" /\ NotifyAll(tpc)[u] = "loop"
  BY <1>1, NotifyAllFacts
<1>3. CASE WorkFailed(t)
  <2>. DEFINE others == IF exception THEN tpc ELSE NotifyAll(tpc)
  <2>1. /\ others \in [Threads -> ThreadPlaces]
        /\ \A u \in Threads : others[u] = tpc[u] \/ (tpc[u] = "waiting" /\ others[u] = "loop")
    BY <1>1, <1>2
  <2>2. tpc[t] = "done" /\ exception' = TRUE /\ quit' = TRUE /\ Idle(t, others, "exited")
    BY <1>3 DEF WorkFailed
  <2>. HIDE DEF others
  <2>. QED  BY <2>1, <2>2, IdleInv
<1>4. CASE WorkQuit(t)
  <2>1. /\ tpc[t] \in {"loop", "done"} /\ ~(tpc[t] = "done" /\ exc[t])
        /\ exception' = exception /\ quit /\ quit' = quit /\ Idle(t, tpc, "exited")
    BY <1>4 DEF WorkQuit, Ready
  <2>. QED  BY <1>1, <2>1, IdleInv
<1>5. CASE WorkDrained(t)
  <2>1. /\ tpc[t] \in {"loop", "done"} /\ ~(tpc[t] = "done" /\ exc[t])
        /\ exception' = exception /\ quit' = TRUE /\ Idle(t, NotifyAll(tpc), "exited")
        /\ pending = <<>> /\ ActiveNow(t) = 0 /\ draining
    BY <1>5 DEF WorkDrained, Ready
  <2>. QED  BY <1>1, <1>2, <2>1, IdleInv
<1>6. CASE WorkWait(t)
  <2>1. /\ tpc[t] \in {"loop", "done"} /\ ~(tpc[t] = "done" /\ exc[t])
        /\ exception' = exception /\ quit' = quit /\ ~quit /\ Idle(t, tpc, "waiting")
    BY <1>6 DEF WorkWait, Ready
  <2>. QED  BY <1>1, <2>1, IdleInv
<1>. QED  BY <1>3, <1>4, <1>5, <1>6

\* The steps of the main thread around doWork.
LEMMA MainInv ==
    ASSUME GraphInv, StartProcessing \/ ((Shutdown \/ Join) /\ UNCHANGED bodyVars)
    PROVE  GraphInv'
<1>. DEFINE m == MainThread
<1>1. GraphTypes /\ QuitInv /\ m \in Threads
  BY ThreadFacts DEF GraphInv
<1>2. /\ UNCHANGED bodyVars /\ pending' = pending /\ active' = active /\ exception' = exception
      /\ item' = item /\ exc' = exc
  BY DEF StartProcessing, Process, Shutdown, Join
<1>3. tpc' \in [Threads -> ThreadPlaces] /\ tpc[m] \in {"main", "exited", "join"}
      /\ \A u \in Threads \ {m} : tpc'[u] = tpc[u] \/ (tpc[u] = "waiting" /\ tpc'[u] = "loop")
  <2>1. CASE StartProcessing
    BY <1>1, <2>1 DEF StartProcessing, Process, GraphTypes, ThreadPlaces
  <2>2. CASE Shutdown
    <3>. DEFINE f == NotifyAll(tpc)
    <3>1. /\ f \in [Threads -> ThreadPlaces]
          /\ \A u \in Threads : f[u] = tpc[u] \/ (tpc[u] = "waiting" /\ f[u] = "loop")
      BY <1>1, NotifyAllFacts
    <3>2. tpc' = [f EXCEPT ![m] = "join"] /\ tpc[m] = "exited"  BY <2>2 DEF Shutdown
    <3>. HIDE DEF f
    <3>. QED  BY <3>1, <3>2 DEF ThreadPlaces
  <2>3. CASE Join
    BY <1>1, <2>3 DEF Join, GraphTypes, ThreadPlaces
  <2>. QED  BY <2>1, <2>2, <2>3
<1>4. /\ draining' \in BOOLEAN /\ quit' \in BOOLEAN /\ (quit => quit')
      /\ tpc'[m] \in {"loop", "join", "gone"}
      /\ tpc'[m] = "loop" => draining' /\ quit' = quit /\ (quit \/ toEnqueue = {})
      /\ tpc'[m] # "loop" => tpc[m] # "main" /\ draining' = draining /\ quit' = TRUE
  <2>1. CASE StartProcessing
    BY <1>1, <2>1 DEF StartProcessing, Process, GraphTypes
  <2>2. CASE Shutdown
    <3>1. NotifyAll(tpc) \in [Threads -> ThreadPlaces]  BY <1>1, NotifyAllFacts
    <3>2. tpc'[m] = "join"  BY <1>1, <2>2, <3>1 DEF Shutdown
    <3>. QED  BY <1>1, <2>2, <3>2 DEF Shutdown, GraphTypes
  <2>3. CASE Join
    <3>1. tpc'[m] = "gone" /\ quit' = quit /\ draining' = draining /\ tpc[m] = "join"
      BY <1>1, <2>3 DEF Join, GraphTypes
    <3>. QED  BY <1>1, <3>1 DEF QuitInv, GraphTypes
  <2>. QED  BY <2>1, <2>2, <2>3
<1>5. \A u \in Threads : tpc'[u] = "run" <=> tpc[u] = "run"
  BY <1>3, <1>4
<1>6. Busy' = Busy /\ (Threw <=> Threw')
  BY <1>2, <1>3, <1>4 DEF Busy, Threw
<1>7. (\A u \in Threads : StageInv(u)') /\ OnePlace' /\ RefsInv' /\ DoneInv' /\ TokenInv'
  BY <1>2, <1>5, <1>6, SameWork
<1>8. GraphTypes'
  BY <1>1, <1>2, <1>3, <1>4 DEF GraphTypes, bodyVars
<1>9. toEnqueue' = toEnqueue  BY <1>2 DEF bodyVars
<1>10. quit' /\ ~exception' => quit
  BY <1>1, <1>2, <1>3, <1>4 DEF QuitInv
<1>11. QuitInv'
  BY <1>1, <1>2, <1>4, <1>6, <1>9, <1>10 DEF QuitInv
<1>. QED  BY <1>7, <1>8, <1>11 DEF GraphInv

-----------------------------------------------------------------------------
\* The queue without its first item.
LEMMA TailFacts ==
    ASSUME NEW q \in Seq(Items), q # <<>>,
           \A i, j \in DOMAIN q : q[i] = q[j] => i = j
    PROVE  /\ Head(q) \in Items /\ Tail(q) \in Seq(Items)
           /\ \E i \in DOMAIN q : q[i] = Head(q)
           /\ \A i, j \in DOMAIN Tail(q) : Tail(q)[i] = Tail(q)[j] => i = j
           /\ \A n : (\E i \in DOMAIN Tail(q) : Tail(q)[i] = n)
                        <=> (\E i \in DOMAIN q : q[i] = n) /\ n # Head(q)
<1>1. Len(q) \in Nat \ {0} /\ DOMAIN q = 1 .. Len(q)  OBVIOUS
<1>2. /\ Tail(q) \in Seq(Items) /\ DOMAIN Tail(q) = 1 .. Len(q) - 1
      /\ \A i \in 1 .. Len(q) - 1 : Tail(q)[i] = q[i + 1]
  OBVIOUS
<1>3. Head(q) = q[1] /\ Head(q) \in Items  OBVIOUS
<1>. DEFINE l == Len(q)
<1>. HIDE DEF l
<1>4. l \in Nat \ {0} /\ DOMAIN q = 1 .. l /\ DOMAIN Tail(q) = 1 .. l - 1
      /\ \A i \in 1 .. l - 1 : Tail(q)[i] = q[i + 1]
  BY <1>1, <1>2 DEF l
<1>5. \A i, j \in DOMAIN Tail(q) : Tail(q)[i] = Tail(q)[j] => i = j
  <2>. SUFFICES ASSUME NEW i \in 1 .. l - 1, NEW j \in 1 .. l - 1, q[i + 1] = q[j + 1] PROVE i = j
    BY <1>4
  <2>1. i + 1 \in DOMAIN q /\ j + 1 \in DOMAIN q  BY <1>4
  <2>2. i + 1 = j + 1  BY <2>1
  <2>. QED  BY <1>4, <2>2
<1>6. ASSUME NEW n
      PROVE  (\E i \in DOMAIN Tail(q) : Tail(q)[i] = n)
                <=> (\E i \in DOMAIN q : q[i] = n) /\ n # Head(q)
  <2>1. ASSUME NEW i \in 1 .. l - 1, q[i + 1] = n PROVE (\E k \in DOMAIN q : q[k] = n) /\ n # q[1]
    <3>1. i + 1 \in DOMAIN q /\ 1 \in DOMAIN q /\ i + 1 # 1  BY <1>4
    <3>. QED  BY <2>1, <3>1
  <2>2. ASSUME NEW i \in DOMAIN q, q[i] = n, n # q[1]
        PROVE  \E k \in DOMAIN Tail(q) : Tail(q)[k] = n
    <3>1. i - 1 \in 1 .. l - 1 /\ (i - 1) + 1 = i  BY <1>4, <2>2
    <3>. QED  BY <1>4, <2>2, <3>1
  <2>. QED  BY <1>3, <1>4, <2>1, <2>2
<1>. QED  BY <1>1, <1>2, <1>3, <1>5, <1>6

\* The queue with one more item.
LEMMA AppendFacts ==
    ASSUME NEW q \in Seq(Items), NEW x \in Items, ~ \E i \in DOMAIN q : q[i] = x,
           \A i, j \in DOMAIN q : q[i] = q[j] => i = j
    PROVE  /\ Append(q, x) \in Seq(Items)
           /\ \A i, j \in DOMAIN Append(q, x) : Append(q, x)[i] = Append(q, x)[j] => i = j
           /\ \A n : (\E i \in DOMAIN Append(q, x) : Append(q, x)[i] = n)
                        <=> (\E i \in DOMAIN q : q[i] = n) \/ n = x
<1>. DEFINE p == Append(q, x)  l == Len(q) + 1
<1>1. /\ p \in Seq(Items) /\ DOMAIN p = DOMAIN q \cup {l} /\ l \notin DOMAIN q
      /\ p[l] = x /\ \A i \in DOMAIN q : p[i] = q[i]
  OBVIOUS
<1>. HIDE DEF p, l
<1>2. \A i, j \in DOMAIN p : p[i] = p[j] => i = j  BY <1>1
<1>3. \A n : (\E i \in DOMAIN p : p[i] = n) <=> (\E i \in DOMAIN q : q[i] = n) \/ n = x
  BY <1>1
<1>. QED  BY <1>1, <1>2, <1>3 DEF p

\* A thread takes the first item of the queue.
LEMMA WorkTakeInv ==
    ASSUME GraphInv, NEW t \in Threads, WorkTake(t), UNCHANGED bodyVars
    PROVE  GraphInv'
<1>. DEFINE n == Head(pending)
<1>1. /\ GraphTypes /\ QuitInv /\ OnePlace /\ RefsInv /\ DoneInv /\ TokenInv
      /\ \A u \in Threads : StageInv(u)
  BY DEF GraphInv
<1>2. /\ tpc[t] \in {"loop", "done"} /\ ~(tpc[t] = "done" /\ exc[t]) /\ ~quit /\ pending # <<>>
      /\ active' = ActiveNow(t) + 1 /\ item' = [item EXCEPT ![t] = n]
      /\ pending' = Tail(pending) /\ tpc' = [tpc EXCEPT ![t] = "run"]
      /\ exception' = exception /\ draining' = draining /\ quit' = quit /\ exc' = exc
  BY DEF WorkTake, Ready
<1>3. /\ edges' = edges /\ left' = left /\ refs' = refs /\ rrefs' = rrefs /\ glock' = glock
      /\ at' = at /\ todo' = todo /\ toEnqueue' = toEnqueue /\ processed' = processed
  BY DEF bodyVars
<1>4. /\ n \in Items /\ pending' \in Seq(Items) /\ Queued(n)
      /\ \A i, j \in DOMAIN pending' : pending'[i] = pending'[j] => i = j
      /\ \A k : Queued(k)' <=> Queued(k) /\ k # n
  <2>1. pending \in Seq(Items) /\ \A i, j \in DOMAIN pending : pending[i] = pending[j] => i = j
    BY <1>1 DEF GraphTypes, OnePlace
  <2>. QED  BY <1>2, <2>1, TailFacts DEF Queued
<1>. HIDE DEF n
<1>5. /\ tpc' \in [Threads -> ThreadPlaces] /\ tpc'[t] = "run" /\ item'[t] = n
      /\ item' \in [Threads -> Items \cup {None}]
      /\ \A u \in Threads \ {t} : tpc'[u] = tpc[u] /\ item'[u] = item[u]
  BY <1>1, <1>2, <1>4 DEF GraphTypes, ThreadPlaces
<1>6. n \notin processed /\ Needs(n) = {} /\ \A u \in Threads : ~Runs(u, n)
  BY <1>1, <1>4 DEF OnePlace
<1>7. \A k \in Items : Needs(k)' = Needs(k)
  BY <1>3 DEF Needs
<1>8. at[t] = "start" /\ glock # t
  BY <1>1, <1>2 DEF StageInv, GraphTypes, Stages
<1>9. ASSUME NEW u \in Threads PROVE StageInv(u)'
  <2>1. CASE u = t
    BY <1>3, <1>4, <1>5, <1>6, <1>8, <2>1 DEF StageInv, Needs
  <2>2. CASE u # t
    <3>1. StageInv(u) /\ tpc'[u] = tpc[u] /\ item'[u] = item[u]  BY <1>1, <1>5, <2>2
    <3>. QED  BY <1>3, <3>1 DEF StageInv, Needs
  <2>. QED  BY <2>1, <2>2
<1>10. \A k : \A u \in Threads : Runs(u, k)' <=> Runs(u, k) \/ (u = t /\ k = n)
  BY <1>2, <1>5 DEF Runs
<1>11. toEnqueue \subseteq Items /\ processed \subseteq Items /\ left \subseteq Items
  BY <1>1 DEF GraphTypes
<1>12. OnePlace'
  <2>1. \A u, v \in Threads : tpc'[u] = "run" /\ Runs(v, item[u])' => u = v
    BY <1>1, <1>5, <1>6 DEF OnePlace, Runs
  <2>2. \A k \in Items : Queued(k)' => k \notin processed' /\ Needs(k)' = {} /\ \A u \in Threads : ~Runs(u, k)'
    BY <1>1, <1>3, <1>4, <1>7, <1>10 DEF OnePlace
  <2>3. \A k \in toEnqueue' : /\ ~Queued(k)' /\ k \notin processed' /\ refs'[k] = None
                              /\ \A u \in Threads : ~Runs(u, k)'
    BY <1>1, <1>3, <1>4, <1>10 DEF OnePlace
  <2>4. \A k \in processed' : Needs(k)' = {}  BY <1>1, <1>3, <1>7, <1>11 DEF OnePlace
  <2>. QED  BY <1>4, <2>1, <2>2, <2>3, <2>4 DEF OnePlace
<1>13. RefsInv'
  <2>1. \A u \in Threads : at[u] = "release" => item'[u] = item[u]
    BY <1>5, <1>8
  <2>2. \A k \in Items : refs'[k] # None => ReferencesIn(k, processed \cup Needs(k))'
    BY <1>1, <1>3, <1>7 DEF RefsInv, ReferencesIn
  <2>. QED  BY <1>1, <1>3, <1>7, <2>1, <2>2 DEF RefsInv
<1>14. DoneInv'
  BY <1>1, <1>3 DEF DoneInv, ReferencesIn, Processable, Closed
<1>15. Threw' <=> Threw
  BY <1>2, <1>5 DEF Threw
<1>16. TokenInv'
  BY <1>1, <1>2, <1>3, <1>4, <1>7, <1>10, <1>11, <1>15 DEF TokenInv
<1>17. Busy' = Busy \cup {t} /\ Busy \in SUBSET Threads
  BY <1>5 DEF Busy
<1>18. active' = Cardinality(Busy')
  <2>1. IsFiniteSet(Busy) /\ active = Cardinality(Busy) /\ active \in Int
    BY <1>1, <1>17, ThreadFacts DEF QuitInv, GraphTypes
  <2>2. Cardinality(Busy \cup {t}) = IF t \in Busy THEN Cardinality(Busy) ELSE Cardinality(Busy) + 1
    BY <2>1, FS_AddElement
  <2>3. t \in Busy <=> tpc[t] = "done"  BY <1>2 DEF Busy
  <2>. QED  BY <1>2, <1>17, <2>1, <2>2, <2>3 DEF ActiveNow
<1>19. GraphTypes'
  <2>1. active' \in Int  BY <1>1, <1>2 DEF ActiveNow, GraphTypes
  <2>. QED  BY <1>1, <1>2, <1>3, <1>4, <1>5, <2>1 DEF GraphTypes
<1>20. QuitInv'
  <2>1. MainThread \in Threads  BY ThreadFacts
  <2>. QED  BY <1>1, <1>2, <1>3, <1>5, <1>18, <2>1 DEF QuitInv
<1>. QED  BY <1>4, <1>9, <1>12, <1>13, <1>14, <1>16, <1>19, <1>20 DEF GraphInv

\* enqueue() starts at most a thread and wakes up at most one.
LEMMA EnqueueFacts ==
    ASSUME GraphTypes, NEW x, Enqueue(x, tpc)
    PROVE  /\ pending' = Append(pending, x)
           /\ tpc' \in [Threads -> ThreadPlaces]
           /\ \A u \in Threads : \/ tpc'[u] = tpc[u]
                                 \/ tpc[u] \in {"none", "waiting"} /\ tpc'[u] = "loop"
<1>1. pending' = Append(pending, x)  BY DEF Enqueue
<1>2. PICK started \in SUBSET {w \in Workers : tpc[w] = "none"} :
         tpc' \in NotifyOne([t \in Threads |-> IF t \in started THEN "loop" ELSE tpc[t]])
  BY DEF Enqueue
<1>. DEFINE f == [t \in Threads |-> IF t \in started THEN "loop" ELSE tpc[t]]
            W == {t \in Threads : f[t] = "waiting"}
<1>3. /\ f \in [Threads -> ThreadPlaces]
      /\ \A u \in Threads : f[u] = tpc[u] \/ (tpc[u] = "none" /\ f[u] = "loop")
  BY DEF GraphTypes, ThreadPlaces
<1>4. tpc' \in NotifyOne(f)  BY <1>2
<1>. HIDE DEF f
<1>5. CASE W = {}
  <2>1. tpc' = f  BY <1>4, <1>5 DEF NotifyOne
  <2>. QED  BY <1>1, <1>3, <2>1
<1>6. CASE W # {}
  <2>1. PICK v \in W : tpc' = [f EXCEPT ![v] = "loop"]  BY <1>4, <1>6 DEF NotifyOne
  <2>2. v \in Threads /\ f[v] = "waiting"  OBVIOUS
  <2>3. tpc[v] = "waiting"  BY <1>3, <2>2
  <2>. QED  BY <1>1, <1>3, <2>1, <2>2, <2>3 DEF ThreadPlaces
<1>. QED  BY <1>5, <1>6

\* What enqueue() does to the pool while it has not quit.
LEMMA EnqueueQuit ==
    ASSUME GraphInv, ~quit,
           \A u \in Threads : \/ tpc'[u] = tpc[u]
                              \/ tpc[u] \in {"none", "waiting"} /\ tpc'[u] = "loop",
           active' = active /\ exception' = exception /\ draining' = draining
           /\ quit' = quit /\ exc' = exc,
           toEnqueue' \subseteq toEnqueue
    PROVE  QuitInv' /\ (Threw' <=> Threw)
<1>1. QuitInv /\ MainThread \in Threads  BY ThreadFacts DEF GraphInv
<1>2. Busy' = Busy /\ (Threw' <=> Threw)  BY DEF Busy, Threw
<1>. QED  BY <1>1, <1>2 DEF QuitInv

\* The first loop of processGraph.
LEMMA EnqueueNodeInv ==
    ASSUME GraphInv, EnqueueNode
    PROVE  GraphInv'
<1>1. /\ GraphTypes /\ QuitInv /\ OnePlace /\ RefsInv /\ DoneInv /\ TokenInv
      /\ \A u \in Threads : StageInv(u)
  BY DEF GraphInv
<1>2. PICK n \in toEnqueue : Enqueue(n, tpc) /\ toEnqueue' = toEnqueue \ {n}
  BY DEF EnqueueNode
<1>3. /\ edges' = edges /\ left' = left /\ refs' = refs /\ rrefs' = rrefs /\ glock' = glock
      /\ at' = at /\ todo' = todo /\ processed' = processed /\ ~quit
      /\ active' = active /\ exception' = exception /\ draining' = draining /\ quit' = quit
      /\ item' = item /\ exc' = exc
  BY DEF EnqueueNode
<1>4. /\ pending' = Append(pending, n) /\ tpc' \in [Threads -> ThreadPlaces]
      /\ \A u \in Threads : \/ tpc'[u] = tpc[u]
                            \/ tpc[u] \in {"none", "waiting"} /\ tpc'[u] = "loop"
  BY <1>1, <1>2, EnqueueFacts
<1>5. toEnqueue \subseteq Items /\ processed \subseteq Items /\ left \subseteq Items
  BY <1>1 DEF GraphTypes
<1>6. /\ n \in Items /\ ~Queued(n) /\ n \notin processed /\ refs[n] = None
      /\ \A u \in Threads : ~Runs(u, n)
  BY <1>1, <1>5 DEF OnePlace
<1>7. Needs(n) = {}  BY <1>6 DEF Needs
<1>8. /\ pending' \in Seq(Items)
      /\ \A i, j \in DOMAIN pending' : pending'[i] = pending'[j] => i = j
      /\ \A k : Queued(k)' <=> Queued(k) \/ k = n
  <2>1. pending \in Seq(Items) /\ \A i, j \in DOMAIN pending : pending[i] = pending[j] => i = j
    BY <1>1 DEF GraphTypes, OnePlace
  <2>. QED  BY <1>4, <1>6, <2>1, AppendFacts DEF Queued
<1>9. \A k \in Items : Needs(k)' = Needs(k)
  BY <1>3 DEF Needs
<1>10. \A u \in Threads : tpc'[u] = "run" <=> tpc[u] = "run"
  BY <1>4
<1>11. \A k : \A u \in Threads : Runs(u, k)' <=> Runs(u, k)
  BY <1>3, <1>10 DEF Runs
<1>12. \A u \in Threads : StageInv(u)'
  BY <1>1, <1>3, <1>10 DEF StageInv, Needs
<1>13. OnePlace'
  <2>1. \A u, v \in Threads : tpc'[u] = "run" /\ Runs(v, item[u])' => u = v
    BY <1>1, <1>3, <1>10 DEF OnePlace, Runs
  <2>2. \A k \in Items : Queued(k)' => k \notin processed' /\ Needs(k)' = {} /\ \A u \in Threads : ~Runs(u, k)'
    BY <1>1, <1>3, <1>6, <1>7, <1>8, <1>9, <1>11 DEF OnePlace
  <2>3. \A k \in toEnqueue' : /\ ~Queued(k)' /\ k \notin processed' /\ refs'[k] = None
                              /\ \A u \in Threads : ~Runs(u, k)'
    BY <1>1, <1>2, <1>3, <1>8, <1>11 DEF OnePlace
  <2>4. \A k \in processed' : Needs(k)' = {}  BY <1>1, <1>3, <1>5, <1>9 DEF OnePlace
  <2>. QED  BY <1>8, <2>1, <2>2, <2>3, <2>4 DEF OnePlace
<1>14. RefsInv'
  <2>1. \A k \in Items : refs'[k] # None => ReferencesIn(k, processed \cup Needs(k))'
    BY <1>1, <1>3, <1>9 DEF RefsInv, ReferencesIn
  <2>. QED  BY <1>1, <1>3, <1>9, <2>1 DEF RefsInv
<1>15. DoneInv'
  BY <1>1, <1>3 DEF DoneInv, ReferencesIn, Processable, Closed
<1>16. QuitInv' /\ (Threw' <=> Threw)
  BY <1>2, <1>3, <1>4, EnqueueQuit
<1>17. TokenInv'
  BY <1>1, <1>2, <1>3, <1>5, <1>8, <1>9, <1>11, <1>16 DEF TokenInv
<1>18. GraphTypes'
  BY <1>1, <1>2, <1>3, <1>4, <1>8 DEF GraphTypes
<1>. QED  BY <1>12, <1>13, <1>14, <1>15, <1>16, <1>17, <1>18 DEF GraphInv

-----------------------------------------------------------------------------
\* Only one thread is in the loop over the reverse references.
LEMMA OneReleases ==
    ASSUME GraphInv
    PROVE  /\ \A t, u \in Threads : at[t] = "release" /\ at[u] = "release" => t = u
           /\ glock = None => \A t \in Threads : at[t] # "release"
BY ThreadFacts DEF GraphInv, StageInv

\* Thread t takes its node off the references of r, which waits for it.
LEMMA Released ==
    ASSUME GraphInv, NEW t \in Threads, at[t] = "release", NEW r \in todo[t],
           refs' = [refs EXCEPT ![r] = @ \ {item[t]}],
           todo' = [todo EXCEPT ![t] = @ \ {r}],
           edges' = edges /\ left' = left /\ rrefs' = rrefs /\ processed' = processed
           /\ item' = item,
           at' = at \/ at' = [at EXCEPT ![t] = "start"]
    PROVE  /\ RefsInv' /\ DoneInv'
           /\ r \in Items /\ r \notin processed /\ ~Queued(r) /\ r \notin toEnqueue
           /\ \A u \in Threads : ~Runs(u, r)
           /\ refs[r] = Needs(r) /\ item[t] \in Needs(r)
           /\ refs' \in [Items -> (SUBSET Items) \cup {None}] /\ refs'[r] # None
           /\ Needs(r)' = Needs(r) \ {item[t]}
           /\ \A k \in Items \ {r} : refs'[k] = refs[k] /\ Needs(k)' = Needs(k)
           /\ todo' \in [Threads -> SUBSET Items]
<1>. DEFINE x == item[t]
<1>1. /\ GraphTypes /\ OnePlace /\ RefsInv /\ DoneInv /\ StageInv(t)
  BY DEF GraphInv
<1>2. tpc[t] = "run" /\ x \in Items /\ x \in processed
  BY <1>1 DEF StageInv
<1>3. r \in Items /\ x \in Needs(r)
  BY <1>1 DEF RefsInv, GraphTypes
<1>4. refs[r] = Needs(r) /\ refs[r] # None /\ Needs(r) \in SUBSET Items
  BY <1>1, <1>3, NeedsFacts
<1>5. /\ r \notin processed /\ ~Queued(r) /\ r \notin toEnqueue
      /\ \A u \in Threads : ~Runs(u, r)
  <2>1. r \notin processed /\ ~Queued(r)  BY <1>1, <1>3 DEF OnePlace
  <2>2. r \notin toEnqueue  BY <1>1, <1>4 DEF OnePlace
  <2>3. \A u \in Threads : ~Runs(u, r)  BY <1>3 DEF GraphInv, StageInv, Runs
  <2>. QED  BY <2>1, <2>2, <2>3
<1>6. refs' \in [Items -> (SUBSET Items) \cup {None}] /\ refs'[r] = Needs(r) \ {x}
      /\ \A k \in Items \ {r} : refs'[k] = refs[k]
  BY <1>1, <1>3, <1>4 DEF GraphTypes
<1>7. refs'[r] # None
  BY <1>4, <1>6, GraphAssumption
<1>8. Needs(r)' = Needs(r) \ {x}  BY <1>6, <1>7 DEF Needs
<1>9. \A k \in Items \ {r} : Needs(k)' = Needs(k)  BY <1>6 DEF Needs
<1>10. todo' \in [Threads -> SUBSET Items] /\ todo'[t] = todo[t] \ {r}
  BY <1>1 DEF GraphTypes
<1>11. RefsInv'
  <2>1. \A n \in Items : Needs(n)' \subseteq (edges'[n] \ {n}) \cap left'
    BY <1>1, <1>3, <1>8, <1>9 DEF RefsInv
  <2>2. ASSUME NEW n \in Items, refs'[n] # None PROVE ReferencesIn(n, processed \cup Needs(n))'
    <3>1. refs[n] # None  BY <1>4, <1>6, <2>2
    <3>2. ReferencesIn(n, processed \cup Needs(n))  BY <1>1, <3>1 DEF RefsInv
    <3>3. processed \cup Needs(n)' = processed \cup Needs(n)  BY <1>2, <1>3, <1>8, <1>9
    <3>. QED  BY <3>2, <3>3 DEF ReferencesIn
  <2>3. \A n, k \in Items : k \notin processed' => (n \in rrefs'[k] <=> k \in Needs(n)')
    BY <1>1, <1>2, <1>3, <1>8, <1>9 DEF RefsInv
  <2>4. ASSUME NEW u \in Threads, at'[u] = "release", NEW n \in Items
        PROVE  n \in todo'[u] <=> item'[u] \in Needs(n)'
    <3>1. u = t /\ at[u] = "release"
      BY <2>4, OneReleases, <1>1 DEF GraphTypes
    <3>2. n \in todo[t] <=> x \in Needs(n)  BY <1>1 DEF RefsInv
    <3>. QED  BY <1>3, <1>8, <1>9, <1>10, <3>1, <3>2
  <2>. QED  BY <2>1, <2>2, <2>3, <2>4 DEF RefsInv
<1>12. DoneInv'
  BY <1>1 DEF DoneInv, ReferencesIn, Processable, Closed
<1>. QED  BY <1>3, <1>4, <1>5, <1>6, <1>7, <1>8, <1>9, <1>10, <1>11, <1>12

\* One iteration of the loop over the reverse references.
LEMMA ReleaseRrefInv ==
    ASSUME GraphInv, NEW t \in Threads, ReleaseRref(t)
    PROVE  GraphInv'
<1>1. /\ GraphTypes /\ QuitInv /\ OnePlace /\ RefsInv /\ DoneInv /\ TokenInv
      /\ \A u \in Threads : StageInv(u)
  BY DEF GraphInv
<1>2. PICK r \in todo[t] :
        /\ refs' = [refs EXCEPT ![r] = @ \ {item[t]}]
        /\ todo' = [todo EXCEPT ![t] = @ \ {r}]
        /\ \/ /\ refs[r] # {item[t]}
              /\ UNCHANGED <<pending, workers, tpc, exc, glock, at>>
           \/ /\ refs[r] = {item[t]} /\ ~quit
              /\ Enqueue(r, tpc)
              /\ UNCHANGED <<exc, glock, at>>
           \/ /\ refs[r] = {item[t]} /\ quit
              /\ ItemDone(t, TRUE)
              /\ glock' = None
              /\ UNCHANGED <<pending, workers>>
  BY DEF ReleaseRref
<1>3. /\ active' = active /\ exception' = exception /\ draining' = draining /\ quit' = quit
      /\ item' = item /\ edges' = edges /\ left' = left /\ rrefs' = rrefs
      /\ toEnqueue' = toEnqueue /\ processed' = processed
      /\ tpc[t] = "run" /\ at[t] = "release"
  BY DEF ReleaseRref
<1>4. at' = at \/ at' = [at EXCEPT ![t] = "start"]
  BY <1>2 DEF ItemDone, GoOn
<1>5. /\ RefsInv' /\ DoneInv'
      /\ r \in Items /\ r \notin processed /\ ~Queued(r) /\ r \notin toEnqueue
      /\ \A u \in Threads : ~Runs(u, r)
      /\ refs[r] = Needs(r) /\ item[t] \in Needs(r)
      /\ refs' \in [Items -> (SUBSET Items) \cup {None}] /\ refs'[r] # None
      /\ Needs(r)' = Needs(r) \ {item[t]}
      /\ \A k \in Items \ {r} : refs'[k] = refs[k] /\ Needs(k)' = Needs(k)
      /\ todo' \in [Threads -> SUBSET Items]
  BY <1>2, <1>3, <1>4, Released
<1>6. toEnqueue \subseteq Items /\ processed \subseteq Items /\ left \subseteq Items
  BY <1>1 DEF GraphTypes
<1>7. \A u \in Threads : tpc[u] = "run" =>
         item[u] # r /\ refs'[item[u]] = refs[item[u]] /\ Needs(item[u])' = Needs(item[u])
  <2>1. \A u \in Threads : tpc[u] = "run" => item[u] # r /\ item[u] \in Items
    BY <1>1, <1>5 DEF Runs, StageInv
  <2>. QED  BY <1>3, <1>5, <2>1 DEF Needs
<1>8. \A n \in toEnqueue : refs'[n] = refs[n]  BY <1>5, <1>6
<1>9. \A n \in processed : Needs(n)' = Needs(n)  BY <1>5, <1>6
<1>10. CASE /\ refs[r] # {item[t]}
            /\ UNCHANGED <<pending, workers, tpc, exc, glock, at>>
  <2>1. /\ pending' = pending /\ tpc' = tpc /\ exc' = exc /\ glock' = glock /\ at' = at
        /\ Needs(r)' # {}
    BY <1>5, <1>10
  <2>2. \A k : (Queued(k)' <=> Queued(k)) /\ \A u \in Threads : Runs(u, k)' <=> Runs(u, k)
    BY <1>3, <2>1 DEF Queued, Runs
  <2>3. \A u \in Threads : StageInv(u)'
    BY <1>1, <1>3, <1>7, <2>1 DEF StageInv
  <2>4. OnePlace'
    <3>1. \A k \in Items : Queued(k)' => k \notin processed' /\ Needs(k)' = {} /\ \A u \in Threads : ~Runs(u, k)'
      BY <1>1, <1>3, <1>5, <2>2 DEF OnePlace
    <3>2. \A k \in toEnqueue' : /\ ~Queued(k)' /\ k \notin processed' /\ refs'[k] = None
                                /\ \A u \in Threads : ~Runs(u, k)'
      BY <1>1, <1>3, <1>8, <2>2 DEF OnePlace
    <3>3. \A k \in processed' : Needs(k)' = {}  BY <1>1, <1>3, <1>9 DEF OnePlace
    <3>4. \A u, v \in Threads : tpc'[u] = "run" /\ Runs(v, item[u])' => u = v
      BY <1>1, <1>3, <2>1 DEF OnePlace, Runs
    <3>. QED  BY <1>1, <2>1, <3>1, <3>2, <3>3, <3>4 DEF OnePlace
  <2>5. Busy' = Busy /\ (Threw' <=> Threw)  BY <2>1 DEF Busy, Threw
  <2>6. TokenInv'
    BY <1>1, <1>3, <1>5, <1>6, <2>1, <2>2, <2>5 DEF TokenInv
  <2>7. QuitInv'  BY <1>1, <1>3, <2>1, <2>5 DEF QuitInv
  <2>8. GraphTypes'  BY <1>1, <1>3, <1>5, <2>1 DEF GraphTypes
  <2>. QED  BY <1>5, <2>3, <2>4, <2>6, <2>7, <2>8 DEF GraphInv
<1>11. CASE /\ refs[r] = {item[t]} /\ ~quit
            /\ Enqueue(r, tpc)
            /\ UNCHANGED <<exc, glock, at>>
  <2>1. /\ pending' = Append(pending, r) /\ tpc' \in [Threads -> ThreadPlaces]
        /\ \A u \in Threads : \/ tpc'[u] = tpc[u]
                              \/ tpc[u] \in {"none", "waiting"} /\ tpc'[u] = "loop"
    BY <1>1, <1>11, EnqueueFacts
  <2>2. exc' = exc /\ glock' = glock /\ at' = at /\ Needs(r)' = {} /\ ~quit
    BY <1>5, <1>11
  <2>3. /\ pending' \in Seq(Items)
        /\ \A i, j \in DOMAIN pending' : pending'[i] = pending'[j] => i = j
        /\ \A k : Queued(k)' <=> Queued(k) \/ k = r
    <3>1. pending \in Seq(Items) /\ \A i, j \in DOMAIN pending : pending[i] = pending[j] => i = j
      BY <1>1 DEF GraphTypes, OnePlace
    <3>2. r \in Items /\ ~ \E i \in DOMAIN pending : pending[i] = r  BY <1>5 DEF Queued
    <3>. DEFINE q == Append(pending, r)
    <3>3. /\ q \in Seq(Items) /\ \A i, j \in DOMAIN q : q[i] = q[j] => i = j
          /\ \A k : (\E i \in DOMAIN q : q[i] = k) <=> (\E i \in DOMAIN pending : pending[i] = k) \/ k = r
      BY <3>1, <3>2, AppendFacts, Zenon
    <3>4. pending' = q  BY <2>1
    <3>. HIDE DEF q
    <3>. QED  BY <3>3, <3>4 DEF Queued
  <2>4. \A u \in Threads : tpc'[u] = "run" <=> tpc[u] = "run"  BY <2>1
  <2>5. \A k : \A u \in Threads : Runs(u, k)' <=> Runs(u, k)
    BY <1>3, <2>4 DEF Runs
  <2>6. \A u \in Threads : StageInv(u)'
    BY <1>1, <1>3, <1>7, <2>2, <2>4 DEF StageInv
  <2>7. OnePlace'
    <3>1. \A k \in Items : Queued(k)' => k \notin processed' /\ Needs(k)' = {} /\ \A u \in Threads : ~Runs(u, k)'
      BY <1>1, <1>3, <1>5, <2>2, <2>3, <2>5 DEF OnePlace
    <3>2. \A k \in toEnqueue' : /\ ~Queued(k)' /\ k \notin processed' /\ refs'[k] = None
                                /\ \A u \in Threads : ~Runs(u, k)'
      BY <1>1, <1>3, <1>5, <1>8, <2>3, <2>5 DEF OnePlace
    <3>3. \A k \in processed' : Needs(k)' = {}  BY <1>1, <1>3, <1>9 DEF OnePlace
    <3>4. \A u, v \in Threads : tpc'[u] = "run" /\ Runs(v, item[u])' => u = v
      BY <1>1, <1>3, <2>4 DEF OnePlace, Runs
    <3>. QED  BY <2>3, <3>1, <3>2, <3>3, <3>4 DEF OnePlace
  <2>8. QuitInv' /\ (Threw' <=> Threw)
    BY <1>3, <2>1, <2>2, EnqueueQuit
  <2>9. TokenInv'
    BY <1>1, <1>3, <1>5, <1>6, <2>3, <2>5, <2>8 DEF TokenInv
  <2>10. GraphTypes'  BY <1>1, <1>3, <1>5, <2>1, <2>2, <2>3 DEF GraphTypes
  <2>. QED  BY <1>5, <2>6, <2>7, <2>8, <2>9, <2>10 DEF GraphInv
<1>12. CASE /\ refs[r] = {item[t]} /\ quit
            /\ ItemDone(t, TRUE)
            /\ glock' = None
            /\ UNCHANGED <<pending, workers>>
  <2>1. /\ tpc' = [tpc EXCEPT ![t] = "done"] /\ exc' = [exc EXCEPT ![t] = TRUE]
        /\ at' = [at EXCEPT ![t] = "start"] /\ glock' = None /\ pending' = pending /\ quit
    BY <1>12 DEF ItemDone, GoOn
  <2>2. /\ tpc' \in [Threads -> ThreadPlaces] /\ exc' \in [Threads -> BOOLEAN]
        /\ at' \in [Threads -> Stages]
        /\ tpc'[t] = "done" /\ exc'[t] /\ at'[t] = "start"
        /\ \A u \in Threads \ {t} : tpc'[u] = tpc[u] /\ at'[u] = at[u]
    BY <1>1, <2>1 DEF GraphTypes, ThreadPlaces, Stages
  <2>3. \A u \in Threads \ {t} : at[u] # "release"  BY <1>3, OneReleases
  <2>4. ASSUME NEW u \in Threads PROVE StageInv(u)'
    <3>1. CASE u = t  BY <2>1, <2>2, <3>1, ThreadFacts DEF StageInv
    <3>2. CASE u # t
      <4>1. StageInv(u) /\ tpc'[u] = tpc[u] /\ at'[u] = at[u] /\ at[u] # "release" /\ glock' # u
        BY <1>1, <2>1, <2>2, <2>3, <3>2, ThreadFacts
      <4>. QED  BY <1>3, <1>7, <4>1 DEF StageInv
    <3>. QED  BY <3>1, <3>2
  <2>5. \A k : (Queued(k)' <=> Queued(k)) /\ \A u \in Threads : Runs(u, k)' => Runs(u, k)
    BY <1>3, <2>1, <2>2 DEF Queued, Runs
  <2>6. OnePlace'
    <3>1. \A k \in Items : Queued(k)' => k \notin processed' /\ Needs(k)' = {} /\ \A u \in Threads : ~Runs(u, k)'
      BY <1>1, <1>3, <1>5, <2>5 DEF OnePlace
    <3>2. \A k \in toEnqueue' : /\ ~Queued(k)' /\ k \notin processed' /\ refs'[k] = None
                                /\ \A u \in Threads : ~Runs(u, k)'
      BY <1>1, <1>3, <1>8, <2>5 DEF OnePlace
    <3>3. \A k \in processed' : Needs(k)' = {}  BY <1>1, <1>3, <1>9 DEF OnePlace
    <3>4. \A u, v \in Threads : tpc'[u] = "run" /\ Runs(v, item[u])' => u = v
      BY <1>1, <1>3, <2>2 DEF OnePlace, Runs
    <3>. QED  BY <1>1, <2>1, <3>1, <3>2, <3>3, <3>4 DEF OnePlace
  <2>7. Busy' = Busy /\ Threw' /\ t \in Busy  BY <1>3, <2>2 DEF Busy, Threw
  <2>8. TokenInv'  BY <2>7 DEF TokenInv
  <2>9. QuitInv'
    <3>1. exception  BY <1>1, <2>1, <2>7 DEF QuitInv
    <3>2. MainThread \in Threads  BY ThreadFacts
    <3>3. tpc'[MainThread] = "main" <=> tpc[MainThread] = "main"  BY <1>3, <2>2, <3>2
    <3>. QED  BY <1>1, <1>3, <2>1, <2>7, <3>1, <3>3 DEF QuitInv
  <2>10. GraphTypes'  BY <1>1, <1>3, <1>5, <2>1, <2>2 DEF GraphTypes
  <2>. QED  BY <1>5, <2>4, <2>6, <2>8, <2>9, <2>10 DEF GraphInv
<1>. QED  BY <1>2, <1>10, <1>11, <1>12

\* The node is done: nobody waits for it any more.
LEMMA ReleaseDoneInv ==
    ASSUME GraphInv, NEW t \in Threads, ReleaseDone(t)
    PROVE  GraphInv'
<1>. DEFINE x == item[t]
<1>1. /\ GraphTypes /\ QuitInv /\ OnePlace /\ RefsInv /\ DoneInv /\ TokenInv
      /\ \A u \in Threads : StageInv(u)
  BY DEF GraphInv
<1>2. /\ tpc[t] = "run" /\ at[t] = "release" /\ todo[t] = {}
      /\ left' = left \ {x} /\ refs' = [refs EXCEPT ![x] = None]
      /\ rrefs' = [rrefs EXCEPT ![x] = {}] /\ glock' = None
      /\ tpc' = [tpc EXCEPT ![t] = "done"] /\ exc' = [exc EXCEPT ![t] = FALSE]
      /\ at' = [at EXCEPT ![t] = "start"]
      /\ pending' = pending /\ active' = active /\ exception' = exception
      /\ draining' = draining /\ quit' = quit /\ item' = item
      /\ edges' = edges /\ todo' = todo /\ toEnqueue' = toEnqueue /\ processed' = processed
  BY DEF ReleaseDone, ItemDone, GoOn
<1>3. x \in Items /\ x \in processed /\ Needs(x) = {} /\ refs[x] # None
  BY <1>1, <1>2 DEF StageInv
<1>4. \A n \in Items : x \notin Needs(n)
  BY <1>1, <1>2 DEF RefsInv
<1>5. /\ tpc' \in [Threads -> ThreadPlaces] /\ exc' \in [Threads -> BOOLEAN]
      /\ at' \in [Threads -> Stages]
      /\ tpc'[t] = "done" /\ ~exc'[t] /\ at'[t] = "start"
      /\ \A u \in Threads \ {t} : tpc'[u] = tpc[u] /\ at'[u] = at[u] /\ exc'[u] = exc[u]
  BY <1>1, <1>2 DEF GraphTypes, ThreadPlaces, Stages
<1>6. /\ refs' \in [Items -> (SUBSET Items) \cup {None}] /\ refs'[x] = None
      /\ \A n \in Items \ {x} : refs'[n] = refs[n]
      /\ rrefs' \in [Items -> SUBSET Items] /\ \A n \in Items \ {x} : rrefs'[n] = rrefs[n]
  BY <1>1, <1>2, <1>3 DEF GraphTypes
<1>7. \A n \in Items : Needs(n)' = Needs(n)
  <2>1. Needs(x)' = {}  BY <1>2, <1>6 DEF Needs
  <2>. QED  BY <1>3, <1>6, <2>1 DEF Needs
<1>8. \A u \in Threads \ {t} : at[u] # "release"  BY <1>2, OneReleases
<1>9. ASSUME NEW u \in Threads PROVE StageInv(u)'
  <2>1. CASE u = t  BY <1>2, <1>5, <2>1, ThreadFacts DEF StageInv
  <2>2. CASE u # t
    <3>1. StageInv(u) /\ tpc'[u] = tpc[u] /\ at'[u] = at[u] /\ at[u] # "release" /\ glock' # u
      BY <1>1, <1>2, <1>5, <1>8, <2>2, ThreadFacts
    <3>2. tpc[u] = "run" => item[u] \in Items /\ item[u] # x
      BY <1>1, <1>2, <2>2, <3>1 DEF StageInv, OnePlace, Runs
    <3>3. tpc[u] = "run" => refs'[item[u]] = refs[item[u]] /\ Needs(item[u])' = Needs(item[u])
      BY <1>2, <1>6, <3>2 DEF Needs
    <3>. QED  BY <1>2, <3>1, <3>3 DEF StageInv
  <2>. QED  BY <2>1, <2>2
<1>10. \A k : (Queued(k)' <=> Queued(k)) /\ \A u \in Threads : Runs(u, k)' <=> Runs(u, k) /\ u # t
  BY <1>2, <1>5 DEF Queued, Runs
<1>11. toEnqueue \subseteq Items /\ processed \subseteq Items /\ left \subseteq Items
  BY <1>1 DEF GraphTypes
<1>12. OnePlace'
  <2>1. \A k \in Items : Queued(k)' => k \notin processed' /\ Needs(k)' = {} /\ \A u \in Threads : ~Runs(u, k)'
    BY <1>1, <1>2, <1>7, <1>10 DEF OnePlace
  <2>2. \A k \in toEnqueue' : /\ ~Queued(k)' /\ k \notin processed' /\ refs'[k] = None
                              /\ \A u \in Threads : ~Runs(u, k)'
    BY <1>1, <1>2, <1>6, <1>10, <1>11 DEF OnePlace
  <2>3. \A k \in processed' : Needs(k)' = {}  BY <1>1, <1>2, <1>7, <1>11 DEF OnePlace
  <2>4. \A u, v \in Threads : tpc'[u] = "run" /\ Runs(v, item[u])' => u = v
    BY <1>1, <1>2, <1>5 DEF OnePlace, Runs
  <2>. QED  BY <1>1, <1>2, <2>1, <2>2, <2>3, <2>4 DEF OnePlace
<1>13. RefsInv'
  <2>1. \A n \in Items : Needs(n)' \subseteq (edges'[n] \ {n}) \cap left'
    BY <1>1, <1>2, <1>4, <1>7 DEF RefsInv
  <2>2. \A n \in Items : refs'[n] # None => ReferencesIn(n, processed \cup Needs(n))'
    BY <1>1, <1>2, <1>6, <1>7 DEF RefsInv, ReferencesIn
  <2>3. \A n, k \in Items : k \notin processed' => (n \in rrefs'[k] <=> k \in Needs(n)')
    BY <1>1, <1>2, <1>3, <1>6, <1>7 DEF RefsInv
  <2>4. \A u \in Threads : at'[u] # "release"  BY <1>5, <1>8
  <2>. QED  BY <2>1, <2>2, <2>3, <2>4 DEF RefsInv
<1>14. DoneInv'
  <2>1. Items \ left' \subseteq processed'  BY <1>1, <1>2, <1>3 DEF DoneInv
  <2>. QED  BY <1>1, <1>2, <2>1 DEF DoneInv, ReferencesIn, Processable, Closed
<1>15. Busy' = Busy /\ (Threw' <=> Threw)
  BY <1>2, <1>5 DEF Busy, Threw
<1>16. TokenInv'
  <2>. SUFFICES ASSUME ~exception, ~Threw, NEW n \in left, n # x
                PROVE  n \in toEnqueue' \/ Queued(n)' \/ Needs(n)' # {} \/ \E u \in Threads : Runs(u, n)'
    BY <1>2, <1>15 DEF TokenInv
  <2>1. n \in toEnqueue \/ Queued(n) \/ Needs(n) # {} \/ \E u \in Threads : Runs(u, n)
    BY <1>1 DEF TokenInv
  <2>2. ~Runs(t, n)  BY DEF Runs
  <2>. QED  BY <1>2, <1>7, <1>10, <1>11, <2>1, <2>2
<1>17. QuitInv'
  <2>1. MainThread \in Threads  BY ThreadFacts
  <2>. QED  BY <1>1, <1>2, <1>5, <1>15, <2>1 DEF QuitInv
<1>18. GraphTypes'  BY <1>1, <1>2, <1>5, <1>6 DEF GraphTypes
<1>. QED  BY <1>9, <1>12, <1>13, <1>14, <1>16, <1>17, <1>18 DEF GraphInv

\* The thread finds out whether its node has been seen before.
LEMMA FindNodeInv ==
    ASSUME GraphInv, NEW t \in Threads, FindNode(t)
    PROVE  GraphInv'
<1>1. /\ GraphTypes /\ QuitInv /\ OnePlace /\ RefsInv /\ DoneInv /\ TokenInv
      /\ \A u \in Threads : StageInv(u)
  BY DEF GraphInv
<1>2. /\ tpc[t] = "run" /\ at[t] = "start" /\ glock = None
      /\ pending' = pending /\ active' = active /\ exception' = exception
      /\ draining' = draining /\ quit' = quit /\ item' = item /\ tpc' = tpc /\ exc' = exc
      /\ edges' = edges /\ left' = left /\ refs' = refs /\ rrefs' = rrefs /\ glock' = glock
      /\ todo' = todo /\ toEnqueue' = toEnqueue /\ processed' = processed
  BY DEF FindNode, poolVars
<1>3. PICK label \in {"getRefs", "doWork"} :
         /\ at' = [at EXCEPT ![t] = label]
         /\ label = "getRefs" <=> refs[item[t]] = None
  BY DEF FindNode, GoOn
<1>4. /\ at' \in [Threads -> Stages] /\ at'[t] = label
      /\ \A u \in Threads \ {t} : at'[u] = at[u]
  BY <1>1, <1>3 DEF GraphTypes, Stages
<1>5. \A u \in Threads : at[u] # "release"  BY <1>2, OneReleases
<1>6. \A u \in Threads : StageInv(u)'
  BY <1>1, <1>2, <1>3, <1>4, <1>5, ThreadFacts DEF StageInv, Needs
<1>7. OnePlace'  BY <1>1, <1>2 DEF OnePlace, Queued, Runs, Needs
<1>8. RefsInv'
  <2>1. \A u \in Threads : at'[u] # "release"  BY <1>4, <1>5
  <2>2. \A n \in Items : Needs(n)' = Needs(n)  BY <1>2 DEF Needs
  <2>3. \A n \in Items : refs'[n] # None => ReferencesIn(n, processed \cup Needs(n))'
    BY <1>1, <1>2, <2>2 DEF RefsInv, ReferencesIn
  <2>. QED  BY <1>1, <1>2, <2>1, <2>2, <2>3 DEF RefsInv
<1>9. DoneInv'  BY <1>1, <1>2 DEF DoneInv, ReferencesIn, Processable, Closed
<1>10. TokenInv'  BY <1>1, <1>2 DEF TokenInv, Threw, Queued, Runs, Needs
<1>11. QuitInv'  BY <1>1, <1>2 DEF QuitInv, Busy
<1>12. GraphTypes'  BY <1>1, <1>2, <1>4 DEF GraphTypes
<1>. QED  BY <1>6, <1>7, <1>8, <1>9, <1>10, <1>11, <1>12 DEF GraphInv

\* getEdges() or processNode() throws.
LEMMA NodeThrowsInv ==
    ASSUME GraphInv, NEW t \in Threads, NodeThrows(t)
    PROVE  GraphInv'
<1>1. /\ GraphTypes /\ QuitInv /\ OnePlace /\ RefsInv /\ DoneInv /\ TokenInv
      /\ \A u \in Threads : StageInv(u)
  BY DEF GraphInv
<1>2. /\ tpc[t] = "run" /\ at[t] \in {"getRefs", "doWork"}
      /\ tpc' = [tpc EXCEPT ![t] = "done"] /\ exc' = [exc EXCEPT ![t] = TRUE]
      /\ at' = [at EXCEPT ![t] = "start"]
      /\ pending' = pending /\ active' = active /\ exception' = exception
      /\ draining' = draining /\ quit' = quit /\ item' = item
      /\ edges' = edges /\ left' = left /\ refs' = refs /\ rrefs' = rrefs /\ glock' = glock
      /\ todo' = todo /\ toEnqueue' = toEnqueue /\ processed' = processed
  BY DEF NodeThrows, ItemDone, GoOn
<1>3. /\ tpc' \in [Threads -> ThreadPlaces] /\ exc' \in [Threads -> BOOLEAN]
      /\ at' \in [Threads -> Stages]
      /\ tpc'[t] = "done" /\ exc'[t] /\ at'[t] = "start"
      /\ \A u \in Threads \ {t} : tpc'[u] = tpc[u] /\ at'[u] = at[u]
  BY <1>1, <1>2 DEF GraphTypes, ThreadPlaces, Stages
<1>4. \A u \in Threads : StageInv(u)'
  BY <1>1, <1>2, <1>3 DEF StageInv, Needs
<1>5. \A k : (Queued(k)' <=> Queued(k)) /\ \A u \in Threads : Runs(u, k)' => Runs(u, k)
  BY <1>2, <1>3 DEF Queued, Runs
<1>6. \A n \in Items : Needs(n)' = Needs(n)  BY <1>2 DEF Needs
<1>7. toEnqueue \subseteq Items /\ processed \subseteq Items  BY <1>1 DEF GraphTypes
<1>8. OnePlace'
  <2>1. \A k \in Items : Queued(k)' => k \notin processed' /\ Needs(k)' = {} /\ \A u \in Threads : ~Runs(u, k)'
    BY <1>1, <1>2, <1>5, <1>6 DEF OnePlace
  <2>2. \A k \in toEnqueue' : /\ ~Queued(k)' /\ k \notin processed' /\ refs'[k] = None
                              /\ \A u \in Threads : ~Runs(u, k)'
    BY <1>1, <1>2, <1>5 DEF OnePlace
  <2>3. \A k \in processed' : Needs(k)' = {}  BY <1>1, <1>2, <1>6, <1>7 DEF OnePlace
  <2>4. \A u, v \in Threads : tpc'[u] = "run" /\ Runs(v, item[u])' => u = v
    BY <1>1, <1>2, <1>3 DEF OnePlace, Runs
  <2>. QED  BY <1>1, <1>2, <2>1, <2>2, <2>3, <2>4 DEF OnePlace
<1>9. RefsInv'
  <2>1. \A u \in Threads : at'[u] = "release" => at[u] = "release"  BY <1>3
  <2>2. \A n \in Items : refs'[n] # None => ReferencesIn(n, processed \cup Needs(n))'
    BY <1>1, <1>2, <1>6 DEF RefsInv, ReferencesIn
  <2>. QED  BY <1>1, <1>2, <1>6, <2>1, <2>2 DEF RefsInv
<1>10. DoneInv'  BY <1>1, <1>2 DEF DoneInv, ReferencesIn, Processable, Closed
<1>11. Busy' = Busy /\ Threw'  BY <1>2, <1>3 DEF Busy, Threw
<1>12. TokenInv'  BY <1>11 DEF TokenInv
<1>13. QuitInv'
  <2>1. MainThread \in Threads  BY ThreadFacts
  <2>. QED  BY <1>1, <1>2, <1>3, <1>11, <2>1 DEF QuitInv
<1>14. GraphTypes'  BY <1>1, <1>2, <1>3 DEF GraphTypes
<1>. QED  BY <1>4, <1>8, <1>9, <1>10, <1>12, <1>13, <1>14 DEF GraphInv

\* getEdges() has returned: the node waits for what is left of its references,
\* which learn that it does, or goes on if there is none.
LEMMA GetRefsInv ==
    ASSUME GraphInv, NEW t \in Threads, GetRefs(t)
    PROVE  GraphInv'
<1>. DEFINE x == item[t]
            waitFor == (edges[x] \ {x}) \cap left
            waits == waitFor # {}
<1>1. /\ GraphTypes /\ QuitInv /\ OnePlace /\ RefsInv /\ DoneInv /\ TokenInv
      /\ \A u \in Threads : StageInv(u)
  BY DEF GraphInv
<1>2. /\ tpc[t] = "run" /\ at[t] = "getRefs" /\ glock = None
      /\ refs' = [refs EXCEPT ![x] = waitFor]
      /\ rrefs' = [r \in Items |-> IF r \in waitFor THEN rrefs[r] \cup {x} ELSE rrefs[r]]
      /\ pending' = pending /\ active' = active /\ exception' = exception
      /\ draining' = draining /\ quit' = quit /\ item' = item
      /\ edges' = edges /\ left' = left /\ glock' = glock
      /\ todo' = todo /\ toEnqueue' = toEnqueue /\ processed' = processed
  BY DEF GetRefs
<1>3. x \in Items /\ x \notin processed /\ Needs(x) = {}
  BY <1>1, <1>2 DEF StageInv
<1>4. waitFor \in SUBSET Items /\ waitFor # None
  BY <1>1, GraphAssumption DEF GraphTypes
<1>5. ~waits => /\ tpc' = tpc /\ exc' = exc /\ at' = [at EXCEPT ![t] = "doWork"]
  BY DEF GetRefs, GoOn
<1>6. waits => /\ tpc' = [tpc EXCEPT ![t] = "done"] /\ exc' = [exc EXCEPT ![t] = FALSE]
               /\ at' = [at EXCEPT ![t] = "start"]
  BY DEF GetRefs, GoOn, ItemDone
<1>7. \A k \in Items \ processed : x \notin rrefs[k]
  BY <1>1, <1>3 DEF RefsInv
<1>8. waitFor = (edges[x] \ {x}) \cap left  OBVIOUS
<1>. HIDE DEF waitFor
<1>9. waits <=> waitFor # {}  OBVIOUS
<1>. HIDE DEF waits
<1>10. /\ refs' \in [Items -> (SUBSET Items) \cup {None}] /\ refs'[x] = waitFor
       /\ \A n \in Items \ {x} : refs'[n] = refs[n]
  BY <1>1, <1>2, <1>3, <1>4 DEF GraphTypes
<1>11. Needs(x)' = waitFor
  BY <1>2, <1>4, <1>10 DEF Needs
<1>12. \A n \in Items \ {x} : Needs(n)' = Needs(n)
  BY <1>10 DEF Needs
<1>13. rrefs' \in [Items -> SUBSET Items]
  BY <1>1, <1>2, <1>3 DEF GraphTypes
<1>14. \A n, k \in Items : n \in rrefs'[k] <=> n \in rrefs[k] \/ (n = x /\ k \in waitFor)
  BY <1>2
<1>15. /\ tpc' \in [Threads -> ThreadPlaces] /\ exc' \in [Threads -> BOOLEAN]
       /\ at' \in [Threads -> Stages]
       /\ \A u \in Threads \ {t} : tpc'[u] = tpc[u] /\ at'[u] = at[u] /\ exc'[u] = exc[u]
  <2>1. CASE waits  BY <1>1, <1>6, <2>1 DEF GraphTypes, ThreadPlaces, Stages
  <2>2. CASE ~waits  BY <1>1, <1>5, <2>2 DEF GraphTypes, ThreadPlaces, Stages
  <2>. QED  BY <2>1, <2>2
<1>16. waits => tpc'[t] = "done" /\ ~exc'[t] /\ at'[t] = "start"
  BY <1>1, <1>6 DEF GraphTypes
<1>17. ~waits => tpc'[t] = "run" /\ exc'[t] = exc[t] /\ at'[t] = "doWork"
  BY <1>1, <1>2, <1>5 DEF GraphTypes
<1>18. \A u \in Threads : at[u] # "release" /\ at'[u] # "release"
  <2>1. \A u \in Threads : at[u] # "release"  BY <1>2, OneReleases
  <2>. QED  BY <1>15, <1>16, <1>17, <2>1
<1>19. ASSUME NEW u \in Threads PROVE StageInv(u)'
  <2>1. glock' # u  BY <1>2, ThreadFacts
  <2>2. CASE u = t
    <3>1. CASE waits  BY <1>16, <2>1, <2>2, <3>1 DEF StageInv
    <3>2. CASE ~waits
      <4>1. Needs(item[t])' = {}  BY <1>2, <1>9, <1>11, <3>2 DEF Needs
      <4>2. refs'[item'[t]] # None  BY <1>2, <1>4, <1>10
      <4>3. item'[t] = x /\ processed' = processed  BY <1>2
      <4>. QED  BY <1>3, <1>17, <2>1, <2>2, <3>2, <4>1, <4>2, <4>3 DEF StageInv
    <3>. QED  BY <3>1, <3>2
  <2>3. CASE u # t
    <3>1. StageInv(u) /\ tpc'[u] = tpc[u] /\ at'[u] = at[u] /\ at[u] # "release"
      BY <1>1, <1>15, <1>18, <2>3
    <3>2. tpc[u] = "run" => item[u] \in Items /\ item[u] # x
      BY <1>1, <1>2, <2>3, <3>1 DEF StageInv, OnePlace, Runs
    <3>3. tpc[u] = "run" => refs'[item[u]] = refs[item[u]] /\ Needs(item[u])' = Needs(item[u])
      BY <1>2, <1>10, <3>2 DEF Needs
    <3>. QED  BY <1>2, <2>1, <3>1, <3>3 DEF StageInv
  <2>. QED  BY <2>2, <2>3
<1>20. \A k : (Queued(k)' <=> Queued(k)) /\ \A u \in Threads : Runs(u, k)' <=> Runs(u, k) /\ ~(u = t /\ waits)
  BY <1>2, <1>15, <1>16, <1>17 DEF Queued, Runs
<1>21. toEnqueue \subseteq Items /\ processed \subseteq Items /\ left \subseteq Items
  BY <1>1 DEF GraphTypes
<1>22. Runs(t, x)  BY <1>2 DEF Runs
<1>23. OnePlace'
  <2>1. \A k \in Items : Queued(k)' => k \notin processed' /\ Needs(k)' = {} /\ \A u \in Threads : ~Runs(u, k)'
    BY <1>1, <1>2, <1>12, <1>20, <1>22 DEF OnePlace
  <2>2. \A k \in toEnqueue' : /\ ~Queued(k)' /\ k \notin processed' /\ refs'[k] = None
                              /\ \A u \in Threads : ~Runs(u, k)'
    BY <1>1, <1>2, <1>10, <1>20, <1>21, <1>22 DEF OnePlace
  <2>3. \A k \in processed' : Needs(k)' = {}  BY <1>1, <1>2, <1>3, <1>12, <1>21 DEF OnePlace
  <2>4. \A u, v \in Threads : tpc'[u] = "run" /\ Runs(v, item[u])' => u = v
    <3>1. \A u \in Threads : tpc'[u] = "run" => tpc[u] = "run"
      BY <1>2, <1>15
    <3>. QED  BY <1>1, <1>2, <3>1 DEF OnePlace, Runs
  <2>. QED  BY <1>1, <1>2, <2>1, <2>2, <2>3, <2>4 DEF OnePlace
<1>24. RefsInv'
  <2>1. \A n \in Items : Needs(n)' \subseteq (edges'[n] \ {n}) \cap left'
    BY <1>1, <1>2, <1>8, <1>11, <1>12 DEF RefsInv
  <2>2. ReferencesIn(x, processed \cup waitFor)
    BY <1>1, <1>8 DEF DoneInv, ReferencesIn
  <2>3. \A n \in Items : refs'[n] # None => ReferencesIn(n, processed \cup Needs(n))'
    BY <1>1, <1>2, <1>10, <1>11, <1>12, <2>2 DEF RefsInv, ReferencesIn
  <2>4. ASSUME NEW n \in Items, NEW k \in Items, k \notin processed'
        PROVE  n \in rrefs'[k] <=> k \in Needs(n)'
    <3>1. n \in rrefs[k] <=> k \in Needs(n)  BY <1>1, <1>2, <2>4 DEF RefsInv
    <3>. QED  BY <1>2, <1>3, <1>11, <1>12, <1>14, <2>4, <3>1
  <2>. QED  BY <1>18, <2>1, <2>3, <2>4 DEF RefsInv
<1>25. DoneInv'  BY <1>1, <1>2 DEF DoneInv, ReferencesIn, Processable, Closed
<1>26. Busy' = Busy /\ (Threw' <=> Threw)
  BY <1>2, <1>15, <1>16, <1>17 DEF Busy, Threw
<1>27. TokenInv'
  <2>. SUFFICES ASSUME ~exception, ~Threw, NEW n \in left
                PROVE  n \in toEnqueue' \/ Queued(n)' \/ Needs(n)' # {} \/ \E u \in Threads : Runs(u, n)'
    BY <1>2, <1>26 DEF TokenInv
  <2>1. CASE n = x
    <3>1. Needs(n)' = waitFor  BY <1>2, <1>4, <1>10, <2>1 DEF Needs
    <3>. QED  BY <1>9, <1>20, <1>22, <2>1, <3>1
  <2>2. CASE n # x
    <3>1. n \in toEnqueue \/ Queued(n) \/ Needs(n) # {} \/ \E u \in Threads : Runs(u, n)
      BY <1>1 DEF TokenInv
    <3>2. ~Runs(t, n)  BY <2>2 DEF Runs
    <3>. QED  BY <1>2, <1>12, <1>20, <1>21, <2>2, <3>1, <3>2
  <2>. QED  BY <2>1, <2>2
<1>28. QuitInv'
  <2>1. MainThread \in Threads  BY ThreadFacts
  <2>2. \A u \in Threads : \/ tpc'[u] = tpc[u]
                           \/ tpc[u] = "run" /\ tpc'[u] = "done"
    BY <1>2, <1>15, <1>16, <1>17
  <2>. QED  BY <1>1, <1>2, <1>26, <2>1, <2>2 DEF QuitInv
<1>29. GraphTypes'  BY <1>1, <1>2, <1>10, <1>13, <1>15 DEF GraphTypes
<1>. QED  BY <1>19, <1>23, <1>24, <1>25, <1>27, <1>28, <1>29 DEF GraphInv

\* processNode() has returned, and all references of the node are processed.
LEMMA ProcessNodeInv ==
    ASSUME GraphInv, NEW t \in Threads, ProcessNode(t)
    PROVE  GraphInv'
<1>. DEFINE x == item[t]
<1>1. /\ GraphTypes /\ QuitInv /\ OnePlace /\ RefsInv /\ DoneInv /\ TokenInv
      /\ \A u \in Threads : StageInv(u)
  BY DEF GraphInv
<1>2. /\ tpc[t] = "run" /\ at[t] = "doWork" /\ glock = None
      /\ processed' = processed \cup {x} /\ glock' = t
      /\ todo' = [todo EXCEPT ![t] = rrefs[x]] /\ at' = [at EXCEPT ![t] = "release"]
      /\ pending' = pending /\ active' = active /\ exception' = exception
      /\ draining' = draining /\ quit' = quit /\ item' = item /\ tpc' = tpc /\ exc' = exc
      /\ edges' = edges /\ left' = left /\ refs' = refs /\ rrefs' = rrefs
      /\ toEnqueue' = toEnqueue
  BY DEF ProcessNode, GoOn, poolVars
<1>3. x \in Items /\ x \notin processed /\ Needs(x) = {} /\ refs[x] # None
  BY <1>1, <1>2 DEF StageInv
<1>4. ReferencesIn(x, processed)
  BY <1>1, <1>3 DEF RefsInv, ReferencesIn
<1>5. /\ at' \in [Threads -> Stages] /\ at'[t] = "release"
      /\ todo' \in [Threads -> SUBSET Items] /\ todo'[t] = rrefs[x]
      /\ \A u \in Threads \ {t} : at'[u] = at[u]
  BY <1>1, <1>2, <1>3 DEF GraphTypes, Stages
<1>6. \A u \in Threads : at[u] # "release"  BY <1>2, OneReleases
<1>7. \A n \in Items : Needs(n)' = Needs(n)  BY <1>2 DEF Needs
<1>8. \A u \in Threads \ {t} : tpc[u] = "run" => item[u] \in Items /\ item[u] # x
  BY <1>1, <1>2 DEF StageInv, OnePlace, Runs
<1>9. ASSUME NEW u \in Threads PROVE StageInv(u)'
  <2>1. CASE u = t
    <3>1. Needs(item[t])' = {}  BY <1>2, <1>3 DEF Needs
    <3>. QED  BY <1>2, <1>3, <1>5, <2>1, <3>1 DEF StageInv
  <2>2. CASE u # t
    <3>1. StageInv(u) /\ at'[u] = at[u] /\ at[u] # "release" /\ glock' # u
      BY <1>1, <1>2, <1>5, <1>6, <2>2
    <3>2. tpc[u] = "run" => item[u] # x /\ Needs(item[u])' = Needs(item[u])
      BY <1>2, <1>8, <2>2 DEF Needs
    <3>. QED  BY <1>2, <3>1, <3>2 DEF StageInv
  <2>. QED  BY <2>1, <2>2
<1>10. \A k : (Queued(k)' <=> Queued(k)) /\ \A u \in Threads : Runs(u, k)' <=> Runs(u, k)
  BY <1>2 DEF Queued, Runs
<1>11. Runs(t, x)  BY <1>2 DEF Runs
<1>12. toEnqueue \subseteq Items /\ processed \subseteq Items
  BY <1>1 DEF GraphTypes
<1>13. OnePlace'
  <2>1. \A k \in Items : Queued(k)' => k \notin processed' /\ Needs(k)' = {} /\ \A u \in Threads : ~Runs(u, k)'
    BY <1>1, <1>2, <1>7, <1>10, <1>11 DEF OnePlace
  <2>2. \A k \in toEnqueue' : /\ ~Queued(k)' /\ k \notin processed' /\ refs'[k] = None
                              /\ \A u \in Threads : ~Runs(u, k)'
    BY <1>1, <1>2, <1>10, <1>11 DEF OnePlace
  <2>3. \A k \in processed' : Needs(k)' = {}
    BY <1>1, <1>2, <1>3, <1>7, <1>12 DEF OnePlace
  <2>4. \A u, v \in Threads : tpc'[u] = "run" /\ Runs(v, item[u])' => u = v
    BY <1>1, <1>2 DEF OnePlace, Runs
  <2>. QED  BY <1>1, <1>2, <2>1, <2>2, <2>3, <2>4 DEF OnePlace
<1>14. RefsInv'
  <2>1. \A n \in Items : Needs(n)' \subseteq (edges'[n] \ {n}) \cap left'
    BY <1>1, <1>2, <1>7 DEF RefsInv
  <2>2. \A n \in Items : refs'[n] # None => ReferencesIn(n, processed \cup Needs(n))'
    BY <1>1, <1>2, <1>7 DEF RefsInv, ReferencesIn
  <2>3. \A n, k \in Items : k \notin processed' => (n \in rrefs'[k] <=> k \in Needs(n)')
    BY <1>1, <1>2, <1>7 DEF RefsInv
  <2>4. \A n \in Items : n \in rrefs[x] <=> x \in Needs(n)
    BY <1>1, <1>3 DEF RefsInv
  <2>5. ASSUME NEW u \in Threads, at'[u] = "release", NEW n \in Items
        PROVE  n \in todo'[u] <=> item'[u] \in Needs(n)'
    <3>1. u = t  BY <1>5, <1>6, <2>5
    <3>. QED  BY <1>2, <1>5, <1>7, <2>4, <3>1
  <2>. QED  BY <2>1, <2>2, <2>3, <2>5 DEF RefsInv
<1>15. DoneInv'
  <2>1. Items \ left' \subseteq processed'  BY <1>1, <1>2 DEF DoneInv
  <2>2. \A n \in processed' : ReferencesIn(n, processed)'
    BY <1>1, <1>2, <1>4 DEF DoneInv, ReferencesIn
  <2>3. Processable' = Processable  BY <1>2 DEF Processable, Closed, ReferencesIn
  <2>4. x \in Processable
    <3>. SUFFICES ASSUME NEW S \in SUBSET Items, Closed(S) PROVE x \in S
      BY <1>3 DEF Processable
    <3>1. processed \subseteq S  BY <1>1 DEF DoneInv, Processable
    <3>2. ReferencesIn(x, S)  BY <1>4, <3>1 DEF ReferencesIn
    <3>. QED  BY <1>3, <3>2 DEF Closed
  <2>. QED  BY <1>1, <1>2, <2>1, <2>2, <2>3, <2>4 DEF DoneInv
<1>16. TokenInv'
  BY <1>1, <1>2 DEF TokenInv, Threw, Queued, Runs, Needs
<1>17. QuitInv'  BY <1>1, <1>2 DEF QuitInv, Busy
<1>18. GraphTypes'  BY <1>1, <1>2, <1>3, <1>5 DEF GraphTypes
<1>. QED  BY <1>9, <1>13, <1>14, <1>15, <1>16, <1>17, <1>18 DEF GraphInv

-----------------------------------------------------------------------------
\* Before the first node is enqueued.
LEMMA GraphInitInv ==
    ASSUME GraphInit
    PROVE  GraphInv
<1>1. /\ pending = <<>> /\ active = 0 /\ exception = FALSE /\ draining = FALSE /\ quit = FALSE
      /\ tpc = [t \in Threads |-> IF t = MainThread THEN "main" ELSE "none"]
      /\ item = [t \in Threads |-> None] /\ exc = [t \in Threads |-> FALSE]
      /\ left = Items /\ refs = [n \in Items |-> None] /\ rrefs = [n \in Items |-> {}]
      /\ glock = None /\ at = [t \in Threads |-> "start"] /\ todo = [t \in Threads |-> {}]
      /\ toEnqueue = Items /\ processed = {}
  BY DEF GraphInit, PoolInit
<1>2. GraphTypes
  <2>1. pending \in Seq(Items) /\ active \in Int  BY <1>1
  <2>2. tpc \in [Threads -> ThreadPlaces]  BY <1>1 DEF ThreadPlaces
  <2>3. at \in [Threads -> Stages]  BY <1>1 DEF Stages
  <2>4. refs \in [Items -> (SUBSET Items) \cup {None}]  BY <1>1
  <2>5. item \in [Threads -> Items \cup {None}] /\ exc \in [Threads -> BOOLEAN]  BY <1>1
  <2>6. rrefs \in [Items -> SUBSET Items] /\ todo \in [Threads -> SUBSET Items]  BY <1>1
  <2>. QED  BY <1>1, <2>1, <2>2, <2>3, <2>4, <2>5, <2>6 DEF GraphTypes
<1>3. \A n \in Items : Needs(n) = {}  BY <1>1 DEF Needs
<1>4. \A n : ~Queued(n)
  <2>1. DOMAIN pending = {}  BY <1>1
  <2>. QED  BY <2>1 DEF Queued
<1>5. \A t \in Threads : tpc[t] \in {"main", "none"}  BY <1>1
<1>6. \A t \in Threads : StageInv(t)
  BY <1>1, <1>5, ThreadFacts DEF StageInv
<1>7. OnePlace
  <2>1. DOMAIN pending = {}  BY <1>1
  <2>. QED  BY <1>1, <1>3, <1>4, <1>5, <2>1 DEF OnePlace, Runs
<1>8. RefsInv  BY <1>1, <1>3 DEF RefsInv
<1>9. DoneInv  BY <1>1 DEF DoneInv
<1>10. TokenInv  BY <1>1 DEF TokenInv
<1>11. QuitInv
  <2>1. Busy = {}  BY <1>5 DEF Busy
  <2>2. Cardinality(Busy) = 0  BY <2>1, FS_EmptySet
  <2>3. tpc[MainThread] = "main"  BY <1>1, ThreadFacts
  <2>. QED  BY <1>1, <2>2, <2>3 DEF QuitInv
<1>. QED  BY <1>2, <1>6, <1>7, <1>8, <1>9, <1>10, <1>11 DEF GraphInv

\* Every step keeps the invariant.
LEMMA GraphStepInv == GraphInv /\ [GraphNext]_graphVars => GraphInv'
<1>. SUFFICES ASSUME GraphInv, [GraphNext]_graphVars PROVE GraphInv'
  OBVIOUS
<1>1. CASE EnqueueNode  BY <1>1, EnqueueNodeInv
<1>2. CASE StartProcessing \/ ((Shutdown \/ Join) /\ UNCHANGED bodyVars)  BY <1>2, MainInv
<1>3. ASSUME NEW t \in Threads, GraphThread(t) PROVE GraphInv'
  <2>1. CASE DoWork(t) /\ UNCHANGED bodyVars
    BY <2>1, WorkEndsInv, WorkTakeInv DEF DoWork
  <2>2. CASE FindNode(t) \/ GetRefs(t) \/ NodeThrows(t)
    BY <2>2, FindNodeInv, GetRefsInv, NodeThrowsInv
  <2>3. CASE ProcessNode(t) \/ ReleaseRref(t) \/ ReleaseDone(t)
    BY <2>3, ProcessNodeInv, ReleaseRrefInv, ReleaseDoneInv
  <2>. QED  BY <1>3, <2>1, <2>2, <2>3 DEF GraphThread
<1>4. CASE UNCHANGED graphVars
  <2>1. /\ pending' = pending /\ active' = active /\ exception' = exception /\ draining' = draining
        /\ quit' = quit /\ tpc' = tpc /\ item' = item /\ exc' = exc
        /\ edges' = edges /\ left' = left /\ refs' = refs /\ rrefs' = rrefs /\ glock' = glock
        /\ at' = at /\ todo' = todo /\ toEnqueue' = toEnqueue /\ processed' = processed
    BY <1>4 DEF graphVars, poolVars
  <2>2. UNCHANGED bodyVars  BY <2>1 DEF bodyVars
  <2>3. Threw' <=> Threw  BY <2>1 DEF Threw
  <2>4. (\A t \in Threads : StageInv(t)') /\ OnePlace' /\ RefsInv' /\ DoneInv' /\ TokenInv'
    BY <2>1, <2>2, <2>3, SameWork
  <2>5. GraphTypes'  BY <2>1 DEF GraphInv, GraphTypes
  <2>6. QuitInv'  BY <2>1 DEF GraphInv, QuitInv, Busy
  <2>. QED  BY <2>4, <2>5, <2>6 DEF GraphInv
<1>. QED  BY <1>1, <1>2, <1>3, <1>4 DEF GraphNext, GraphMain

\* What the invariant says of a node that is processed.
LEMMA GraphInvDependencies == GraphInv => DependenciesFirst
<1>. SUFFICES ASSUME GraphInv PROVE DependenciesFirst
  OBVIOUS
<1>1. /\ GraphTypes /\ OnePlace /\ RefsInv /\ DoneInv /\ \A u \in Threads : StageInv(u)
  BY DEF GraphInv
<1>2. ASSUME NEW t \in Threads, at[t] = "doWork"
      PROVE  /\ tpc[t] = "run" /\ item[t] \in Items /\ item[t] \notin processed
             /\ Needs(item[t]) = {} /\ refs[item[t]] # None
  BY <1>1, <1>2 DEF StageInv
<1>3. ASSUME NEW t \in Threads, at[t] = "doWork" PROVE ReferencesIn(item[t], processed)
  BY <1>1, <1>2, <1>3 DEF RefsInv, ReferencesIn
<1>4. \A n \in Items : Begun(n) => ReferencesIn(n, processed)
  BY <1>1, <1>3 DEF Begun, DoneInv
<1>5. ASSUME NEW t \in Threads, at[t] = "doWork"
      PROVE  /\ \A u \in Threads \ {t} : tpc[u] = "run" => item[u] # item[t]
             /\ \A i \in DOMAIN pending : pending[i] # item[t]
  <2>1. Runs(t, item[t]) /\ item[t] \in Items  BY <1>2, <1>5 DEF Runs
  <2>. QED  BY <1>1, <2>1 DEF OnePlace, Queued, Runs
<1>. QED  BY <1>2, <1>4, <1>5 DEF DependenciesFirst

\* What the invariant says of a pool that has quit without an exception.
LEMMA GraphInvComplete == GraphInv => CompleteOrCyclic
<1>. SUFFICES ASSUME GraphInv, tpc[MainThread] \in {"exited", "join", "gone"}, ~exception
              PROVE  processed = Processable /\ left = Items \ Processable
  BY DEF CompleteOrCyclic
<1>1. /\ GraphTypes /\ OnePlace /\ RefsInv /\ DoneInv /\ TokenInv /\ QuitInv
  BY DEF GraphInv
<1>2. pending = <<>> /\ Busy = {} /\ toEnqueue = {}
  BY <1>1 DEF QuitInv
<1>3. \A t \in Threads : tpc[t] \notin {"run", "done"}  BY <1>2 DEF Busy
<1>4. ~Threw /\ \A n : ~Queued(n) /\ \A t \in Threads : ~Runs(t, n)
  <2>1. DOMAIN pending = {}  BY <1>2
  <2>. QED  BY <1>3, <2>1 DEF Threw, Queued, Runs
<1>5. \A n \in left : Needs(n) # {}
  BY <1>1, <1>2, <1>4 DEF TokenInv
<1>6. left \cap processed = {}  BY <1>1, <1>5 DEF OnePlace
<1>7. left \subseteq Items /\ processed \subseteq Items /\ processed = Items \ left
  BY <1>1, <1>6 DEF GraphTypes, DoneInv
<1>8. Closed(processed)
  <2>. SUFFICES ASSUME NEW n \in left PROVE ~ReferencesIn(n, processed)
    BY <1>7 DEF Closed
  <2>1. n \in Items /\ Needs(n) # {} /\ Needs(n) \subseteq (edges[n] \ {n}) \cap left
    BY <1>1, <1>5, <1>7 DEF RefsInv
  <2>2. PICK r \in Needs(n) : r \in edges[n] /\ r # n /\ r \in left  BY <2>1
  <2>. QED  BY <1>7, <2>2 DEF ReferencesIn
<1>9. Processable \subseteq processed
  BY <1>7, <1>8 DEF Processable
<1>10. processed = Processable  BY <1>1, <1>9 DEF DoneInv
<1>. QED  BY <1>7, <1>10

\* processGraph processes a node only after the nodes it refers to, once and by
\* one thread, for any graph and any number of threads.
THEOREM DependenciesAreFirst == GraphSpec => []DependenciesFirst
<1>1. GraphSpec => []GraphInv
  BY GraphInitInv, GraphStepInv, PTL DEF GraphSpec
<1>. QED  BY <1>1, GraphInvDependencies, PTL

\* If process() returns without an exception, processGraph has processed exactly
\* the nodes from which no cycle can be reached, and left holds the others.
THEOREM CompletesOrCyclic == GraphSpec => []CompleteOrCyclic
<1>1. GraphSpec => []GraphInv
  BY GraphInitInv, GraphStepInv, PTL DEF GraphSpec
<1>. QED  BY <1>1, GraphInvComplete, PTL

(***************************************************************************)
(* Thunks: ForcedAgrees                                                    *)
(***************************************************************************)
\* The exceptions of throw and assert, and of an infinite recursion.
Failures == {Thrown, Recursion}

\* x is known to be no infinite recursion at a depth at which y is not.
Shallower(p, x, y) ==
    \E k \in 0 .. Cardinality(Values) :
        ToDepth(p)[k][x] # Recursion /\ ToDepth(p)[k][y] = Recursion

\* The frames of a stack; the last one, its operands and the one it waits for.
Frames == [v : Values, done : Seq(Nat)]
Top(s) == s[Len(s)]
Args(p, f) == p[f.v].args
Operand(p, f) == Args(p, f)[Len(f.done) + 1]

\* The operands that a frame of the stack has are what they mean.
OperandsOf(p, f) ==
    /\ Args(p, f) # <<>> /\ Len(f.done) < Len(Args(p, f))
    /\ \A j \in 1 .. Len(f.done) : f.done[j] = Meaning(p, Args(p, f)[j])

\* The stack of an evaluation of x: each frame waits for the next one; only the last
\* one may have no operands.
StackOK(p, s, x) ==
    /\ p \in [Values -> Expressions] /\ s \in Seq(Frames) /\ x \in Values
    /\ s # <<>> => s[1].v = x
    /\ \A i \in 1 .. Len(s) :
          \/ OperandsOf(p, s[i]) /\ (i < Len(s) => s[i + 1].v = Operand(p, s[i]))
          \/ i = Len(s) /\ Args(p, s[i]) = <<>> /\ s[i].done = <<>>

\* If x is no infinite recursion, nor is what is on its stack, each frame at a lesser
\* depth than those before.
DepthOK(p, s, x) ==
    Meaning(p, x) # Recursion =>
        \A j \in 1 .. Len(s) :
            /\ Meaning(p, s[j].v) # Recursion
            /\ \A i \in 1 .. j - 1 : Shallower(p, s[j].v, s[i].v)

\* A number in the heap is what the value means; a black hole is on the stack.
HeapOK(p, a, h, s) ==
    /\ a \in SUBSET Values /\ Cardinality(a) <= MaxCallDepth
    /\ h \in [Values -> Nat \cup {Thunk, BlackHole}]
    /\ \A y \in Values :
          /\ h[y] \in Nat => h[y] = Meaning(p, y)
          /\ h[y] = BlackHole => y \notin a /\ \E i \in 1 .. Len(s) : s[i].v = y

\* The value that is needed next: that of the operand, or what was forced from outside.
HasOperand(p, s) == s # <<>> => Args(p, Top(s)) # <<>>
NeededBy(p, s, x) == IF s = <<>> THEN x ELSE Operand(p, Top(s))

\* What happens next: n is the number of values forced so far.
ControlOK(p, s, x, c, n) ==
    /\ n \in Nat
    /\ \/ /\ c.mode = "idle" /\ s = <<>>
          /\ n > 0 => c.arg = Meaning(p, x)
       \/ c.mode = "force" /\ HasOperand(p, s) /\ c.arg = NeededBy(p, s, x)
       \/ /\ c.mode \in {"return", "operand"} /\ c.arg \in Nat
          /\ \/ HasOperand(p, s) /\ c.arg = Meaning(p, NeededBy(p, s, x))
             \/ s # <<>> /\ p[Top(s).v].op = "number" /\ c.arg = p[Top(s).v].n
       \/ c.mode = "raise" /\ c.arg = Recursion /\ Meaning(p, x) = Recursion
       \/ /\ c.mode = "raise" /\ c.arg = Thrown
          /\ \/ HasOperand(p, s) /\ Meaning(p, NeededBy(p, s, x)) = Thrown
             \/ s # <<>> /\ p[Top(s).v].op = "throw"

\* The invariant of the evaluator.
ThunkInv ==
    /\ StackOK(program, stack, forced) /\ DepthOK(program, stack, forced)
    /\ HeapOK(program, apps, heap, stack)
    /\ ControlOK(program, stack, forced, control, forces)

\* All the programs there are over Values.
AllPrograms == [Values -> Expressions]

\* The meanings one level deeper.
Deeper(p, m) == [y \in Values |-> FromOperands(p[y], m)]

\* How deep it takes to know a meaning, and what values may mean at a depth.
Depths == 0 .. Cardinality(Values)
Meanings == [Values -> Nat \cup Failures]

\* There is a value, and a number of them.
LEMMA NrValues == Cardinality(Values) \in Nat /\ Cardinality(Values) >= 1
<1>1. Cardinality(Values) \in Nat /\ Cardinality(Values) # 0
  BY ThunksAssumption, FS_CardinalityType, FS_EmptySet
<1>. QED  BY <1>1

\* A nonempty set of numbers has a least one.
LEMMA SmallestNumber ==
    ASSUME NEW S \in SUBSET Nat, S # {}
    PROVE  \E x \in S : \A y \in S : x <= y
<1>. DEFINE R == OpToRel(<, Nat)
<1>1. IsWellFoundedOn(R, Nat)
  BY NatLessThanWellFounded
<1>2. \A x, y \in Nat : <<y, x>> \in R <=> y < x
  BY DEF OpToRel
<1>. HIDE DEF R
<1>3. PICK x \in S : \A y \in S : ~ (<<y, x>> \in R)
  <2>1. S \subseteq Nat  OBVIOUS
  <2>. QED  BY <1>1, <2>1, WFMin, Zenon
<1>4. ASSUME NEW y \in S PROVE x <= y
  <2>1. ~ (y < x)  BY <1>2, <1>3
  <2>. QED  BY <2>1
<1>. QED  BY <1>4

\* The recursive definition of ToDepth has a solution.
LEMMA DepthFacts ==
    ASSUME NEW p
    PROVE  /\ ToDepth(p)[0] = [y \in Values |-> Recursion]
           /\ \A k \in 1 .. Cardinality(Values) : ToDepth(p)[k] = Deeper(p, ToDepth(p)[k - 1])
<1>. DEFINE N == Cardinality(Values)
            base == [y \in Values |-> Recursion]
            body(m, k) == IF k = 0 THEN base ELSE Deeper(p, m[k - 1])
            eq(m, K) == m = [k \in 0 .. K |-> body(m, k)]
            S == {K \in 0 .. N : ~ \E m : eq(m, K)}
<1>1. N \in Nat  BY NrValues
<1>2. ASSUME S # {} PROVE FALSE
  <2>1. S \in SUBSET Nat  BY <1>1
  <2>2. PICK K \in S : \A y \in S : K <= y
    <3>. HIDE DEF S
    <3>. QED  BY <1>2, <2>1, SmallestNumber
  <2>3. K \in 0 .. N /\ K \in Nat /\ ~ \E m : eq(m, K)  BY <1>1
  <2>. HIDE DEF base, N
  <2>4. CASE K = 0
    <3>. DEFINE m == [k \in 0 .. 0 |-> base]
    <3>1. \A k \in 0 .. 0 : body(m, k) = base  OBVIOUS
    <3>2. [k \in 0 .. 0 |-> body(m, k)] = [k \in 0 .. 0 |-> base]
      <4>. HIDE DEF body, m
      <4>. QED  BY <3>1
    <3>3. eq(m, 0)  BY <3>2
    <3>. HIDE DEF eq, m
    <3>. QED  BY <2>3, <2>4, <3>3
  <2>5. CASE K # 0
    <3>1. K - 1 \in 0 .. N /\ K - 1 \notin S
      <4>1. K - 1 \in 0 .. N /\ ~ (K <= K - 1)  BY <1>1, <2>3, <2>5
      <4>. HIDE DEF S
      <4>. QED  BY <2>2, <4>1
    <3>2. \E h : eq(h, K - 1)
      <4>. HIDE DEF eq
      <4>. QED  BY <3>1
    <3>3. PICK h : eq(h, K - 1)  BY <3>2
    <3>. DEFINE m == [k \in 0 .. K |-> IF k = K THEN Deeper(p, h[K - 1]) ELSE h[k]]
    <3>4. \A k \in 0 .. K - 1 : h[k] = body(h, k)
      <4>. HIDE DEF body
      <4>. QED  BY <3>3
    <3>5. ASSUME NEW k \in 0 .. K PROVE m[k] = body(m, k)
      <4>1. CASE k = K
        <5>1. K - 1 \in 0 .. K /\ K - 1 # K  BY <2>3, <2>5
        <5>2. m[K - 1] = h[K - 1]  BY <5>1
        <5>3. m[K] = Deeper(p, h[K - 1])  BY <2>3
        <5>. QED  BY <2>5, <4>1, <5>2, <5>3
      <4>2. CASE k # K /\ k = 0
        <5>1. m[0] = h[0] /\ 0 \in 0 .. K - 1  BY <2>3, <4>2
        <5>. QED  BY <3>4, <4>2, <5>1
      <4>3. CASE k # K /\ k # 0
        <5>1. k \in 0 .. K - 1 /\ k - 1 \in 0 .. K /\ k - 1 # K  BY <2>3, <4>3
        <5>2. m[k] = h[k] /\ m[k - 1] = h[k - 1]  BY <4>3, <5>1
        <5>. QED  BY <3>4, <4>3, <5>1, <5>2
      <4>. QED  BY <4>1, <4>2, <4>3
    <3>6. m = [k \in 0 .. K |-> m[k]]  OBVIOUS
    <3>7. [k \in 0 .. K |-> m[k]] = [k \in 0 .. K |-> body(m, k)]
      <4>. HIDE DEF body, m
      <4>. QED  BY <3>5
    <3>8. eq(m, K)
      <4>. HIDE DEF body, m
      <4>. QED  BY <3>6, <3>7
    <3>. HIDE DEF m, eq
    <3>. QED  BY <2>3, <3>8
  <2>. QED  BY <2>4, <2>5
<1>3. \E m : eq(m, N)
  BY <1>1, <1>2
<1>4. ToDepth(p) = CHOOSE m : eq(m, N)
  <2>1. \A m, k : [y \in Values |-> IF k = 0 THEN Recursion ELSE FromOperands(p[y], m[k - 1])]
                      = body(m, k)
    BY DEF Deeper
  <2>2. \A m : [k \in 0 .. N |-> [y \in Values |-> IF k = 0 THEN Recursion
                                               ELSE FromOperands(p[y], m[k - 1])]]
                   = [k \in 0 .. N |-> body(m, k)]
    <3>. HIDE DEF body
    <3>. QED  BY <2>1, Zenon
  <2>. QED  BY <2>2, Zenon DEF ToDepth
<1>5. eq(ToDepth(p), N)
  <2>. HIDE DEF eq
  <2>. QED  BY <1>3, <1>4
<1>6. \A k \in 0 .. N : ToDepth(p)[k] = body(ToDepth(p), k)
  <2>. HIDE DEF body, N
  <2>. QED  BY <1>5
<1>. QED  BY <1>1, <1>6

\* The kinds of expressions.
LEMMA ExpressionFacts ==
    ASSUME NEW e \in Expressions
    PROVE  /\ e.op \in {"number", "throw", "var", "try", "plus"} /\ e.n \in Nat
           /\ e.op \in {"number", "throw"} => e.args = <<>>
           /\ e.op \in {"var", "try"} => /\ e.args \in Seq(Values) /\ Len(e.args) = 1
                                         /\ DOMAIN e.args = {1} /\ e.args[1] \in Values
           /\ e.op = "plus" => /\ e.args \in Seq(Values) /\ Len(e.args) = 2
                               /\ DOMAIN e.args = {1, 2}
                               /\ e.args[1] \in Values /\ e.args[2] \in Values
<1>1. CASE e \in [op : {"number", "throw"}, n : Nat, args : {<<>>}]
  BY <1>1
<1>2. CASE e \in [op : {"var", "try"}, n : Nat, args : [1 .. 1 -> Values]]
  <2>1. e.args \in [1 .. 1 -> Values] /\ e.op \in {"var", "try"} /\ e.n \in Nat  BY <1>2
  <2>2. e.args \in Seq(Values) /\ Len(e.args) = 1 /\ DOMAIN e.args = {1}
    <3>1. e.args \in Seq(Values)  BY <2>1, SeqDef
    <3>2. Len(e.args) \in Nat /\ DOMAIN e.args = 1 .. Len(e.args)  BY <3>1, LenProperties
    <3>3. DOMAIN e.args = 1 .. 1  BY <2>1
    <3>4. \A l \in Nat : 1 .. l = 1 .. 1 => l = 1  OBVIOUS
    <3>5. 1 .. 1 = {1}  OBVIOUS
    <3>. QED  BY <3>1, <3>2, <3>3, <3>4, <3>5
  <2>. QED  BY <2>1, <2>2
<1>3. CASE e \in [op : {"plus"}, n : Nat, args : [1 .. 2 -> Values]]
  <2>1. e.args \in [1 .. 2 -> Values] /\ e.op = "plus" /\ e.n \in Nat  BY <1>3
  <2>2. e.args \in Seq(Values) /\ Len(e.args) = 2 /\ DOMAIN e.args = {1, 2}
    <3>1. e.args \in Seq(Values)  BY <2>1, SeqDef
    <3>2. Len(e.args) \in Nat /\ DOMAIN e.args = 1 .. Len(e.args)  BY <3>1, LenProperties
    <3>3. DOMAIN e.args = 1 .. 2  BY <2>1
    <3>4. \A l \in Nat : 1 .. l = 1 .. 2 => l = 2  OBVIOUS
    <3>5. 1 .. 2 = {1, 2}  OBVIOUS
    <3>. QED  BY <3>1, <3>2, <3>3, <3>4, <3>5
  <2>. QED  BY <2>1, <2>2
<1>. QED  BY <1>1, <1>2, <1>3 DEF Expressions

\* What an expression means, given what its operands mean.
Combines(e, m, r) ==
    /\ e.op = "number" => r = e.n
    /\ e.op = "throw" => r = Thrown
    /\ e.op = "var" => r = m[e.args[1]]
    /\ e.op = "try" => r = IF m[e.args[1]] = Thrown THEN 0 ELSE m[e.args[1]]
    /\ e.op = "plus" => r = IF m[e.args[1]] \in Failures THEN m[e.args[1]]
                            ELSE IF m[e.args[2]] \in Failures THEN m[e.args[2]]
                            ELSE m[e.args[1]] + m[e.args[2]]

\* The next depth combines the operands of this one.
LEMMA DeeperFacts ==
    ASSUME NEW p \in AllPrograms, NEW m, NEW y \in Values
    PROVE  Combines(p[y], m, Deeper(p, m)[y])
<1>. DEFINE e == p[y]
            given == [i \in DOMAIN e.args |-> m[e.args[i]]]
            failing == {i \in DOMAIN e.args : given[i] \in {Thrown, Recursion}}
            first == CHOOSE i \in failing : \A j \in failing : i <= j
            r == Deeper(p, m)[y]
<1>1. e \in Expressions  BY DEF AllPrograms
<1>2. r = CASE e.op = "number" -> e.n
            [] e.op = "throw" -> Thrown
            [] e.op = "try" /\ given[1] = Thrown -> 0
            [] OTHER -> IF failing = {} THEN Combined(e, given) ELSE given[first]
  BY DEF Deeper, FromOperands
<1>3. /\ e.op \in {"number", "throw", "var", "try", "plus"}
      /\ e.op \in {"var", "try"} => DOMAIN e.args = {1}
      /\ e.op = "plus" => DOMAIN e.args = {1, 2}
  <2>. HIDE DEF e
  <2>. QED  BY <1>1, ExpressionFacts
<1>4. \A i \in DOMAIN e.args : given[i] = m[e.args[i]]  OBVIOUS
<1>. HIDE DEF e, given, r
<1>5. CASE e.op = "number" \/ e.op = "throw"
  BY <1>2, <1>5 DEF Combines, e, r
<1>6. CASE e.op \in {"var", "try"}
  <2>1. given[1] = m[e.args[1]]  BY <1>3, <1>4, <1>6
  <2>2. failing = IF given[1] \in Failures THEN {1} ELSE {}  BY <1>3, <1>6 DEF Failures
  <2>3. failing = {1} => first = 1  OBVIOUS
  <2>. HIDE DEF failing, first
  <2>4. r = IF e.op = "try" /\ given[1] = Thrown THEN 0 ELSE given[1]
    BY <1>2, <1>6, <2>2, <2>3 DEF Combined
  <2>5. Combines(e, m, r)  BY <1>6, <2>1, <2>4 DEF Combines
  <2>. QED  BY <2>5 DEF e, r
<1>7. CASE e.op = "plus"
  <2>1. given[1] = m[e.args[1]] /\ given[2] = m[e.args[2]]  BY <1>3, <1>4, <1>7
  <2>2. failing = {i \in {1, 2} : given[i] \in Failures}  BY <1>3, <1>7 DEF Failures
  <2>3. 1 \in failing => first = 1
    <3>1. failing \subseteq {1, 2}  BY <2>2
    <3>. QED  BY <3>1
  <2>4. failing = {2} => first = 2  OBVIOUS
  <2>. HIDE DEF failing, first
  <2>5. r = IF failing = {} THEN given[1] + given[2] ELSE given[first]
    BY <1>2, <1>7 DEF Combined
  <2>6. CASE given[1] \in Failures
    <3>1. r = given[1]  BY <2>2, <2>3, <2>5, <2>6
    <3>. QED  BY <1>7, <2>1, <2>6, <3>1 DEF Combines, e, r
  <2>7. CASE given[1] \notin Failures /\ given[2] \in Failures
    <3>1. failing = {2}  BY <2>2, <2>7
    <3>2. r = given[2]  BY <2>4, <2>5, <3>1
    <3>. QED  BY <1>7, <2>1, <2>7, <3>2 DEF Combines, e, r
  <2>8. CASE given[1] \notin Failures /\ given[2] \notin Failures
    <3>1. r = given[1] + given[2]  BY <2>2, <2>5, <2>8
    <3>. QED  BY <1>7, <2>1, <2>8, <3>1 DEF Combines, e, r
  <2>. QED  BY <2>6, <2>7, <2>8
<1>. QED  BY <1>3, <1>5, <1>6, <1>7

\* What g says, h says as well; g may leave more open.
Refines(g, h) == \A y \in Values : g[y] # Recursion => h[y] = g[y]

\* The next depth gives every value a number or an exception.
LEMMA DeeperType ==
    ASSUME NEW p \in AllPrograms, NEW m \in Meanings
    PROVE  Deeper(p, m) \in Meanings
<1>1. ASSUME NEW y \in Values PROVE Deeper(p, m)[y] \in Nat \cup Failures
  <2>. DEFINE e == p[y]
              r == Deeper(p, m)[y]
  <2>1. e \in Expressions  BY DEF AllPrograms
  <2>2. Combines(e, m, r)  BY DeeperFacts
  <2>. HIDE DEF e, r
  <2>3. \A x \in Values : m[x] \in Nat \cup Failures  BY DEF Meanings
  <2>4. \A i, j \in Nat \cup Failures : i \notin Failures /\ j \notin Failures => i + j \in Nat
    OBVIOUS
  <2>5. r \in Nat \cup Failures
    BY <2>1, <2>2, <2>3, <2>4, ExpressionFacts DEF Combines, Failures
  <2>. QED  BY <2>5 DEF r
<1>2. Deeper(p, m) = [y \in Values |-> Deeper(p, m)[y]]
  BY DEF Deeper
<1>3. \A y \in Values : Deeper(p, m)[y] \in Nat \cup Failures  BY <1>1
<1>. DEFINE f(y) == Deeper(p, m)[y]
<1>4. [y \in Values |-> f(y)] \in Meanings
  <2>1. \A y \in Values : f(y) \in Nat \cup Failures  BY <1>3
  <2>. HIDE DEF f
  <2>. QED  BY <2>1 DEF Meanings
<1>. QED  BY <1>2, <1>4

\* Knowing more of the operands does not change what is known already.
LEMMA DeeperRefines ==
    ASSUME NEW p \in AllPrograms, NEW g \in Meanings, NEW h \in Meanings, Refines(g, h)
    PROVE  Refines(Deeper(p, g), Deeper(p, h))
<1>. SUFFICES ASSUME NEW y \in Values, Deeper(p, g)[y] # Recursion
              PROVE  Deeper(p, h)[y] = Deeper(p, g)[y]
  BY DEF Refines
<1>. DEFINE e == p[y]
            r == Deeper(p, g)[y]
            t == Deeper(p, h)[y]
<1>1. e \in Expressions  BY DEF AllPrograms
<1>2. Combines(e, g, r) /\ Combines(e, h, t)  BY DeeperFacts
<1>. HIDE DEF e, r, t
<1>3. \A x \in Values : g[x] # Recursion => h[x] = g[x]  BY DEF Refines
<1>4. r # Recursion  BY DEF r
<1>5. Recursion \in Failures  BY DEF Failures
<1>6. t = r
  <2>1. CASE e.op \in {"number", "throw"}
    BY <1>2, <2>1 DEF Combines
  <2>2. CASE e.op \in {"var", "try"}
    <3>1. e.args[1] \in Values  BY <1>1, <2>2, ExpressionFacts
    <3>2. g[e.args[1]] # Recursion
      <4>1. Recursion # Thrown  BY ThunksAssumption
      <4>. QED  BY <1>2, <1>4, <2>2, <4>1 DEF Combines
    <3>3. h[e.args[1]] = g[e.args[1]]  BY <1>3, <3>1, <3>2
    <3>. QED  BY <1>2, <2>2, <3>3 DEF Combines
  <2>3. CASE e.op = "plus"
    <3>1. e.args[1] \in Values /\ e.args[2] \in Values  BY <1>1, <2>3, ExpressionFacts
    <3>2. g[e.args[1]] # Recursion  BY <1>2, <1>4, <1>5, <2>3 DEF Combines
    <3>3. h[e.args[1]] = g[e.args[1]]  BY <1>3, <3>1, <3>2
    <3>4. CASE g[e.args[1]] \in Failures
      BY <1>2, <2>3, <3>3, <3>4 DEF Combines
    <3>5. CASE g[e.args[1]] \notin Failures
      <4>1. g[e.args[2]] # Recursion  BY <1>2, <1>4, <1>5, <2>3, <3>5 DEF Combines
      <4>2. h[e.args[2]] = g[e.args[2]]  BY <1>3, <3>1, <4>1
      <4>. QED  BY <1>2, <2>3, <3>3, <4>2 DEF Combines
    <3>. QED  BY <3>4, <3>5
  <2>. QED  BY <1>1, <2>1, <2>2, <2>3, ExpressionFacts
<1>. QED  BY <1>6 DEF r, t

\* So does every depth.
LEMMA DepthsType ==
    ASSUME NEW p \in AllPrograms, NEW k \in Depths
    PROVE  ToDepth(p)[k] \in Meanings
<1>. DEFINE S == {l \in Depths : ToDepth(p)[l] \notin Meanings}
<1>1. Cardinality(Values) \in Nat  BY NrValues
<1>2. ASSUME S # {} PROVE FALSE
  <2>1. S \in SUBSET Nat  BY <1>1 DEF Depths
  <2>2. PICK l \in S : \A y \in S : l <= y
    <3>. HIDE DEF S
    <3>. QED  BY <1>2, <2>1, SmallestNumber
  <2>3. l \in Depths /\ l \in Nat /\ ToDepth(p)[l] \notin Meanings  BY <2>1
  <2>4. CASE l = 0
    <3>1. ToDepth(p)[0] = [y \in Values |-> Recursion]  BY DepthFacts
    <3>2. [y \in Values |-> Recursion] \in Meanings  BY DEF Meanings, Failures
    <3>. QED  BY <2>3, <2>4, <3>1, <3>2
  <2>5. CASE l # 0
    <3>1. l \in 1 .. Cardinality(Values) /\ l - 1 \in Depths /\ ~ (l <= l - 1)
      BY <1>1, <2>3, <2>5 DEF Depths
    <3>2. l - 1 \notin S
      <4>. HIDE DEF S
      <4>. QED  BY <2>2, <3>1
    <3>3. ToDepth(p)[l - 1] \in Meanings  BY <3>1, <3>2
    <3>4. ToDepth(p)[l] = Deeper(p, ToDepth(p)[l - 1])  BY <3>1, DepthFacts
    <3>5. Deeper(p, ToDepth(p)[l - 1]) \in Meanings  BY <3>3, DeeperType
    <3>. QED  BY <2>3, <3>4, <3>5
  <2>. QED  BY <2>4, <2>5
<1>. QED  BY <1>2

\* One level deeper, nothing that is known changes.
LEMMA NextDepthRefines ==
    ASSUME NEW p \in AllPrograms, NEW k \in Nat, k + 1 \in Depths
    PROVE  Refines(ToDepth(p)[k], ToDepth(p)[k + 1])
<1>. DEFINE A(l) == ToDepth(p)[l]
            S == {l \in Nat : l + 1 \in Depths /\ ~ Refines(A(l), A(l + 1))}
<1>1. Cardinality(Values) \in Nat  BY NrValues
<1>2. ASSUME S # {} PROVE FALSE
  <2>1. S \in SUBSET Nat  OBVIOUS
  <2>2. PICK l \in S : \A y \in S : l <= y
    <3>. HIDE DEF S
    <3>. QED  BY <1>2, <2>1, SmallestNumber
  <2>3. l \in Nat /\ l + 1 \in Depths /\ ~ Refines(A(l), A(l + 1))  OBVIOUS
  <2>4. CASE l = 0
    <3>1. ToDepth(p)[0] = [y \in Values |-> Recursion]  BY DepthFacts
    <3>2. Refines([y \in Values |-> Recursion], A(1))  BY DEF Refines
    <3>. QED  BY <2>3, <2>4, <3>1, <3>2
  <2>5. CASE l # 0
    <3>1. /\ l \in 1 .. Cardinality(Values) /\ l + 1 \in 1 .. Cardinality(Values)
          /\ l - 1 \in Depths /\ l \in Depths /\ l - 1 + 1 = l /\ l + 1 - 1 = l
          /\ l - 1 \in Nat /\ ~ (l <= l - 1)
      BY <1>1, <2>3, <2>5 DEF Depths
    <3>2. l - 1 \notin S
      <4>. HIDE DEF S
      <4>. QED  BY <2>2, <3>1
    <3>3. Refines(A(l - 1), A(l - 1 + 1))
      <4>. HIDE DEF A
      <4>. QED  BY <3>1, <3>2
    <3>4. A(l) = Deeper(p, A(l - 1))  BY <3>1, DepthFacts
    <3>5. A(l + 1) = Deeper(p, A(l + 1 - 1))  BY <3>1, DepthFacts
    <3>6. A(l - 1) \in Meanings /\ A(l) \in Meanings  BY <3>1, DepthsType
    <3>. HIDE DEF A
    <3>7. Refines(Deeper(p, A(l - 1)), Deeper(p, A(l)))
      BY <3>1, <3>3, <3>6, DeeperRefines
    <3>. QED  BY <2>3, <3>1, <3>4, <3>5, <3>7
  <2>. QED  BY <2>4, <2>5
<1>. QED  BY <1>2

\* What is known at one depth is known at any greater depth.
LEMMA DepthsRefine ==
    ASSUME NEW p \in AllPrograms, NEW k \in Depths, NEW d \in Depths, k <= d
    PROVE  Refines(ToDepth(p)[k], ToDepth(p)[d])
<1>. DEFINE A(l) == ToDepth(p)[l]
            S == {l \in Nat : l \in Depths /\ k <= l /\ ~ Refines(A(k), A(l))}
<1>1. Cardinality(Values) \in Nat /\ k \in Nat /\ d \in Nat  BY NrValues DEF Depths
<1>2. ASSUME S # {} PROVE FALSE
  <2>1. S \in SUBSET Nat  OBVIOUS
  <2>2. PICK l \in S : \A y \in S : l <= y
    <3>. HIDE DEF S
    <3>. QED  BY <1>2, <2>1, SmallestNumber
  <2>3. l \in Nat /\ l \in Depths /\ k <= l /\ ~ Refines(A(k), A(l))  OBVIOUS
  <2>4. CASE l = k
    <3>1. Refines(A(k), A(k))  BY DEF Refines
    <3>. QED  BY <2>3, <2>4, <3>1
  <2>5. CASE l # k
    <3>1. l - 1 \in Nat /\ l - 1 \in Depths /\ k <= l - 1 /\ l - 1 + 1 = l /\ ~ (l <= l - 1)
      BY <1>1, <2>3, <2>5 DEF Depths
    <3>2. l - 1 \notin S
      <4>. HIDE DEF S
      <4>. QED  BY <2>2, <3>1
    <3>3. Refines(A(k), A(l - 1))
      <4>. HIDE DEF A
      <4>. QED  BY <3>1, <3>2
    <3>4. Refines(A(l - 1), A(l - 1 + 1))
      BY <2>3, <3>1, NextDepthRefines
    <3>. HIDE DEF A
    <3>5. Refines(A(k), A(l))
      BY <3>1, <3>3, <3>4 DEF Refines
    <3>. QED  BY <2>3, <3>5
  <2>. QED  BY <2>4, <2>5
<1>. QED  BY <1>1, <1>2

\* Once a level brings nothing new, no deeper one does.
LEMMA DepthsSettle ==
    ASSUME NEW p \in AllPrograms, NEW k \in Nat, k + 1 \in Depths,
           ToDepth(p)[k + 1] = ToDepth(p)[k],
           NEW d \in Depths, k <= d
    PROVE  ToDepth(p)[d] = ToDepth(p)[k]
<1>. DEFINE A(l) == ToDepth(p)[l]
            S == {l \in Nat : l \in Depths /\ k <= l /\ A(l) # A(k)}
<1>1. Cardinality(Values) \in Nat /\ d \in Nat  BY NrValues DEF Depths
<1>2. ASSUME S # {} PROVE FALSE
  <2>1. S \in SUBSET Nat  OBVIOUS
  <2>2. PICK l \in S : \A y \in S : l <= y
    <3>. HIDE DEF S
    <3>. QED  BY <1>2, <2>1, SmallestNumber
  <2>3. l \in Nat /\ l \in Depths /\ k <= l /\ A(l) # A(k)  OBVIOUS
  <2>4. l # k
    <3>. HIDE DEF A
    <3>. QED  BY <2>3
  <2>5. /\ l \in 1 .. Cardinality(Values) /\ k + 1 \in 1 .. Cardinality(Values)
        /\ l - 1 \in Nat /\ l - 1 \in Depths /\ k <= l - 1 /\ ~ (l <= l - 1) /\ k + 1 - 1 = k
    BY <1>1, <2>3, <2>4 DEF Depths
  <2>6. l - 1 \notin S
    <3>. HIDE DEF S
    <3>. QED  BY <2>2, <2>5
  <2>7. A(l - 1) = A(k)
    <3>. HIDE DEF A
    <3>. QED  BY <2>5, <2>6
  <2>8. A(l) = Deeper(p, A(l - 1))  BY <2>5, DepthFacts
  <2>9. A(k + 1) = Deeper(p, A(k + 1 - 1))  BY <2>5, DepthFacts
  <2>10. A(k + 1) = A(k)  OBVIOUS
  <2>. HIDE DEF A
  <2>. QED  BY <2>3, <2>5, <2>7, <2>8, <2>9, <2>10
<1>. QED  BY <1>1, <1>2

\* The values known at a depth: at each level there is one more, until a level
\* brings nothing new.
Known(p, k) == {y \in Values : ToDepth(p)[k][y] # Recursion}

\* As long as a depth tells more than the one before, it tells it of another value.
LEMMA KnownGrows ==
    ASSUME NEW p \in AllPrograms,
           \A k \in Nat : k + 1 \in Depths => ToDepth(p)[k + 1] # ToDepth(p)[k],
           NEW d \in Depths
    PROVE  Cardinality(Known(p, d)) >= d
<1>. DEFINE N == Cardinality(Values)
            S == {l \in Nat : l \in Depths /\ ~ (Cardinality(Known(p, l)) >= l)}
<1>1. N \in Nat /\ d \in Nat /\ IsFiniteSet(Values)  BY NrValues, ThunksAssumption DEF Depths
<1>2. \A l : IsFiniteSet(Known(p, l)) /\ Cardinality(Known(p, l)) \in Nat
  <2>1. \A l : Known(p, l) \subseteq Values  BY DEF Known
  <2>. QED  BY <1>1, <2>1, FS_Subset, FS_CardinalityType
<1>3. ASSUME S # {} PROVE FALSE
  <2>1. S \in SUBSET Nat  OBVIOUS
  <2>2. PICK l \in S : \A y \in S : l <= y
    <3>. HIDE DEF S
    <3>. QED  BY <1>3, <2>1, SmallestNumber
  <2>3. l \in Nat /\ l \in Depths /\ ~ (Cardinality(Known(p, l)) >= l)  OBVIOUS
  <2>4. l # 0  BY <1>2, <2>3
  <2>. DEFINE j == l - 1
  <2>5. j \in Nat /\ j \in Depths /\ j + 1 = l /\ ~ (l <= j)
    BY <1>1, <2>3, <2>4 DEF Depths
  <2>. HIDE DEF j
  <2>6. j \notin S
    <3>. HIDE DEF S
    <3>. QED  BY <2>2, <2>5
  <2>7. Cardinality(Known(p, j)) >= j  BY <2>5, <2>6
  <2>8. Refines(ToDepth(p)[j], ToDepth(p)[l])
    <3>1. j + 1 \in Depths  BY <2>3, <2>5
    <3>2. Refines(ToDepth(p)[j], ToDepth(p)[j + 1])  BY <2>5, <3>1, NextDepthRefines
    <3>. QED  BY <2>5, <3>2
  <2>9. Known(p, j) \subseteq Known(p, l)  BY <2>8 DEF Known, Refines
  <2>10. Known(p, j) # Known(p, l)
    <3>. SUFFICES ASSUME Known(p, j) = Known(p, l) PROVE FALSE
      OBVIOUS
    <3>1. ToDepth(p)[j] \in Meanings /\ ToDepth(p)[l] \in Meanings
      BY <2>3, <2>5, DepthsType
    <3>2. \A y \in Values : ToDepth(p)[l][y] = ToDepth(p)[j][y]
      BY <2>8 DEF Known, Refines
    <3>3. ToDepth(p)[l] = ToDepth(p)[j]  BY <3>1, <3>2 DEF Meanings
    <3>4. j + 1 \in Depths  BY <2>3, <2>5
    <3>. QED  BY <2>5, <3>3, <3>4
  <2>11. Cardinality(Known(p, j)) < Cardinality(Known(p, l))
    BY <1>2, <2>9, <2>10, FS_Subset
  <2>. QED  BY <1>2, <2>3, <2>5, <2>7, <2>11
<1>. QED  BY <1>1, <1>2, <1>3

\* What the values mean is a solution of the equations of the program.
LEMMA MeaningIsSettled ==
    ASSUME NEW p \in AllPrograms
    PROVE  Deeper(p, ToDepth(p)[Cardinality(Values)]) = ToDepth(p)[Cardinality(Values)]
<1>. DEFINE N == Cardinality(Values)
            M == ToDepth(p)[N]
<1>1. N \in Nat /\ N >= 1 /\ IsFiniteSet(Values) /\ N \in Depths /\ N - 1 \in Depths
      /\ N - 1 \in Nat /\ N - 1 + 1 = N
  BY NrValues, ThunksAssumption DEF Depths
<1>2. CASE \E k \in Nat : k + 1 \in Depths /\ ToDepth(p)[k + 1] = ToDepth(p)[k]
  <2>1. PICK k \in Nat : k + 1 \in Depths /\ ToDepth(p)[k + 1] = ToDepth(p)[k]  BY <1>2
  <2>2. k <= N /\ k + 1 \in 1 .. N /\ k + 1 - 1 = k  BY <1>1, <2>1 DEF Depths
  <2>3. M = ToDepth(p)[k]  BY <1>1, <2>1, <2>2, DepthsSettle
  <2>4. ToDepth(p)[k + 1] = Deeper(p, ToDepth(p)[k + 1 - 1])  BY <2>2, DepthFacts
  <2>. HIDE DEF M
  <2>5. Deeper(p, M) = M  BY <2>1, <2>2, <2>3, <2>4
  <2>. QED  BY <2>5 DEF M
<1>3. CASE \A k \in Nat : k + 1 \in Depths => ToDepth(p)[k + 1] # ToDepth(p)[k]
  <2>1. Cardinality(Known(p, N)) >= N  BY <1>1, <1>3, KnownGrows
  <2>2. Known(p, N) \subseteq Values  BY DEF Known
  <2>3. Known(p, N) = Values
    <3>1. Cardinality(Known(p, N)) \in Nat  BY <1>1, <2>2, FS_Subset, FS_CardinalityType
    <3>2. Known(p, N) # Values => Cardinality(Known(p, N)) < N
      BY <1>1, <2>2, <3>1, FS_Subset
    <3>. QED  BY <1>1, <2>1, <3>1, <3>2
  <2>4. \A y \in Values : M[y] # Recursion  BY <2>3 DEF Known
  <2>5. ToDepth(p)[N - 1] \in Meanings /\ M \in Meanings  BY <1>1, DepthsType
  <2>6. Refines(ToDepth(p)[N - 1], M)
    <3>1. N - 1 + 1 \in Depths  BY <1>1
    <3>2. Refines(ToDepth(p)[N - 1], ToDepth(p)[N - 1 + 1])  BY <1>1, <3>1, NextDepthRefines
    <3>. QED  BY <1>1, <3>2
  <2>7. M = Deeper(p, ToDepth(p)[N - 1])
    <3>1. N \in 1 .. N  BY <1>1
    <3>. QED  BY <3>1, DepthFacts
  <2>. HIDE DEF M
  <2>8. Refines(M, Deeper(p, M))
    <3>1. Refines(Deeper(p, ToDepth(p)[N - 1]), Deeper(p, M))  BY <2>5, <2>6, DeeperRefines
    <3>. QED  BY <2>7, <3>1
  <2>9. Deeper(p, M) \in Meanings  BY <2>5, DeeperType
  <2>10. \A y \in Values : Deeper(p, M)[y] = M[y]  BY <2>4, <2>8 DEF Refines
  <2>11. Deeper(p, M) = M  BY <2>5, <2>9, <2>10 DEF Meanings
  <2>. QED  BY <2>11 DEF M
<1>. QED  BY <1>2, <1>3

\* What a value means is what its expression makes of what its operands mean.
LEMMA MeaningFacts ==
    ASSUME NEW p \in AllPrograms, NEW y \in Values
    PROVE  /\ Meaning(p, y) \in Nat \cup Failures
           /\ Combines(p[y], [x \in Values |-> Meaning(p, x)], Meaning(p, y))
<1>. DEFINE M == ToDepth(p)[Cardinality(Values)]
<1>1. Cardinality(Values) \in Depths  BY NrValues DEF Depths
<1>2. M \in Meanings  BY <1>1, DepthsType
<1>3. \A x : Meaning(p, x) = M[x]  BY DEF Meaning
<1>4. Deeper(p, M) = M  BY MeaningIsSettled
<1>. HIDE DEF M
<1>5. M = [x \in Values |-> Meaning(p, x)]
  <2>1. M = [x \in Values |-> M[x]]  BY <1>2 DEF Meanings
  <2>. QED  BY <1>3, <2>1
<1>6. Combines(p[y], M, M[y])  BY <1>4, DeeperFacts
<1>. QED  BY <1>2, <1>3, <1>5, <1>6 DEF Meanings

\* An operand that is needed for the meaning of an expression is known at a lesser
\* depth.
LEMMA OperandIsShallower ==
    ASSUME NEW p \in AllPrograms, NEW y \in Values, Meaning(p, y) # Recursion,
           NEW x \in Values,
           \/ p[y].op \in {"var", "try", "plus"} /\ x = p[y].args[1]
           \/ p[y].op = "plus" /\ x = p[y].args[2] /\ Meaning(p, p[y].args[1]) \in Nat
    PROVE  Meaning(p, x) # Recursion /\ Shallower(p, x, y)
<1>. DEFINE N == Cardinality(Values)
            A(l) == ToDepth(p)[l]
            S == {l \in Nat : l \in Depths /\ A(l)[y] # Recursion}
<1>1. N \in Nat /\ N \in Depths  BY NrValues DEF Depths
<1>2. Meaning(p, y) = A(N)[y] /\ Meaning(p, x) = A(N)[x]
      /\ Meaning(p, p[y].args[1]) = A(N)[p[y].args[1]]
  BY DEF Meaning
<1>3. S \in SUBSET Nat /\ N \in S  BY <1>1, <1>2
<1>4. PICK k \in S : \A l \in S : k <= l
  <2>. HIDE DEF S
  <2>. QED  BY <1>3, SmallestNumber
<1>5. k \in Nat /\ k \in Depths /\ A(k)[y] # Recursion  OBVIOUS
<1>6. k # 0
  <2>1. A(0) = [z \in Values |-> Recursion]  BY DepthFacts
  <2>. HIDE DEF A
  <2>. QED  BY <1>5, <2>1
<1>. DEFINE j == k - 1
<1>7. j \in Nat /\ j \in Depths /\ k \in 1 .. N /\ k - 1 = j /\ ~ (k <= j) /\ j <= N
  BY <1>1, <1>5, <1>6 DEF Depths
<1>. HIDE DEF j
<1>8. A(j)[y] = Recursion
  <2>1. j \notin S
    <3>. HIDE DEF S
    <3>. QED  BY <1>4, <1>7
  <2>. HIDE DEF A
  <2>. QED  BY <1>7, <2>1
<1>9. A(k) = Deeper(p, A(j))  BY <1>7, DepthFacts
<1>10. Refines(A(j), A(N))  BY <1>1, <1>7, DepthsRefine
<1>. HIDE DEF A, S
<1>11. Combines(p[y], A(j), A(k)[y])  BY <1>9, DeeperFacts
<1>12. p[y] \in Expressions  BY DEF AllPrograms
<1>13. Recursion \in Failures /\ Recursion # Thrown  BY ThunksAssumption DEF Failures
<1>14. A(j) \in Meanings
  <2>1. ToDepth(p)[j] \in Meanings  BY <1>7, DepthsType
  <2>. QED  BY <2>1 DEF A
<1>15. A(j)[x] # Recursion
  <2>1. CASE p[y].op \in {"var", "try"} /\ x = p[y].args[1]
    BY <1>5, <1>11, <1>13, <2>1 DEF Combines
  <2>2. CASE p[y].op = "plus" /\ x = p[y].args[1]
    BY <1>5, <1>11, <1>13, <2>2 DEF Combines
  <2>3. CASE p[y].op = "plus" /\ x = p[y].args[2] /\ Meaning(p, p[y].args[1]) \in Nat
    <3>1. p[y].args[1] \in Values  BY <1>12, <2>3, ExpressionFacts
    <3>2. A(j)[p[y].args[1]] # Recursion => A(j)[p[y].args[1]] \in Nat
      BY <1>2, <1>10, <2>3, <3>1 DEF Refines
    <3>3. A(j)[p[y].args[1]] \notin Failures
      <4>1. A(j)[p[y].args[1]] # Recursion  BY <1>5, <1>11, <1>13, <2>3 DEF Combines
      <4>2. A(j)[p[y].args[1]] \in Nat  BY <3>2, <4>1
      <4>. QED  BY <4>2, ThunksAssumption DEF Failures
    <3>. QED  BY <1>5, <1>11, <1>13, <2>3, <3>3 DEF Combines
  <2>. QED  BY <2>1, <2>2, <2>3
<1>16. Meaning(p, x) # Recursion  BY <1>2, <1>10, <1>15 DEF Refines
<1>17. Shallower(p, x, y)
  <2>1. j \in 0 .. Cardinality(Values)  BY <1>7 DEF Depths
  <2>. QED  BY <1>8, <1>15, <2>1 DEF Shallower, A
<1>. QED  BY <1>16, <1>17

\* No value is known at a lesser depth than itself.
LEMMA NotShallower == \A p, x : ~ Shallower(p, x, x)
  BY DEF Shallower

\* The deeper of the two depths tells the least of the three from the greatest.
LEMMA ShallowerTransitive ==
    ASSUME NEW p \in AllPrograms, NEW x \in Values, NEW y \in Values, NEW z \in Values,
           Shallower(p, x, y), Shallower(p, y, z)
    PROVE  Shallower(p, x, z)
<1>. DEFINE A(l) == ToDepth(p)[l]
<1>1. PICK k \in Depths : A(k)[x] # Recursion /\ A(k)[y] = Recursion
  BY DEF Shallower, Depths
<1>2. PICK l \in Depths : A(l)[y] # Recursion /\ A(l)[z] = Recursion
  BY DEF Shallower, Depths
<1>3. k \in Nat /\ l \in Nat  BY NrValues DEF Depths
<1>4. ~ (l <= k)
  <2>. SUFFICES ASSUME l <= k PROVE FALSE  OBVIOUS
  <2>1. Refines(A(l), A(k))  BY DepthsRefine
  <2>. HIDE DEF A
  <2>. QED  BY <1>1, <1>2, <2>1 DEF Refines
<1>5. Refines(A(k), A(l))
  <2>1. k <= l  BY <1>3, <1>4
  <2>. QED  BY <2>1, DepthsRefine
<1>6. A(l)[x] # Recursion
  <2>. HIDE DEF A
  <2>. QED  BY <1>1, <1>5 DEF Refines
<1>. QED  BY <1>2, <1>6 DEF Shallower, Depths

\* What the value of each kind of expression means.
LEMMA MeaningCases ==
    ASSUME NEW p \in AllPrograms, NEW y \in Values, NEW e, e = p[y]
    PROVE  /\ Meaning(p, y) \in Nat \cup Failures
           /\ e.op = "number" => Meaning(p, y) = e.n
           /\ e.op = "throw" => Meaning(p, y) = Thrown
           /\ e.op = "var" => Meaning(p, y) = Meaning(p, e.args[1])
           /\ e.op = "try" => Meaning(p, y) = IF Meaning(p, e.args[1]) = Thrown THEN 0
                                              ELSE Meaning(p, e.args[1])
           /\ e.op = "plus" => Meaning(p, y) =
                 IF Meaning(p, e.args[1]) \in Failures THEN Meaning(p, e.args[1])
                 ELSE IF Meaning(p, e.args[2]) \in Failures THEN Meaning(p, e.args[2])
                 ELSE Meaning(p, e.args[1]) + Meaning(p, e.args[2])
<1>. DEFINE m == [z \in Values |-> Meaning(p, z)]
<1>1. e \in Expressions  BY DEF AllPrograms
<1>2. Meaning(p, y) \in Nat \cup Failures /\ Combines(e, m, Meaning(p, y))  BY MeaningFacts
<1>3. \A z \in Values : m[z] = Meaning(p, z)  OBVIOUS
<1>. HIDE DEF m
<1>4. CASE e.op \in {"number", "throw"}
  BY <1>2, <1>4 DEF Combines
<1>5. CASE e.op \in {"var", "try"}
  <2>1. e.args[1] \in Values  BY <1>1, <1>5, ExpressionFacts
  <2>. QED  BY <1>2, <1>3, <1>5, <2>1 DEF Combines
<1>6. CASE e.op = "plus"
  <2>1. e.args[1] \in Values /\ e.args[2] \in Values  BY <1>1, <1>6, ExpressionFacts
  <2>. QED  BY <1>2, <1>3, <1>6, <2>1 DEF Combines
<1>. QED  BY <1>1, <1>4, <1>5, <1>6, ExpressionFacts

\* The operand that a frame waits for, by the kind of its expression.
LEMMA OperandFacts ==
    ASSUME NEW p \in AllPrograms, NEW f \in Frames, OperandsOf(p, f)
    PROVE  /\ p[f.v] \in Expressions /\ f.v \in Values /\ f.done \in Seq(Nat)
           /\ Operand(p, f) \in Values
           /\ \/ /\ p[f.v].op \in {"var", "try"} /\ Len(Args(p, f)) = 1 /\ Len(f.done) = 0
                 /\ Operand(p, f) = p[f.v].args[1]
              \/ /\ p[f.v].op = "plus" /\ Len(Args(p, f)) = 2 /\ Len(f.done) = 0
                 /\ Operand(p, f) = p[f.v].args[1]
              \/ /\ p[f.v].op = "plus" /\ Len(Args(p, f)) = 2 /\ Len(f.done) = 1
                 /\ f.done[1] \in Nat /\ f.done[1] = Meaning(p, p[f.v].args[1])
                 /\ Operand(p, f) = p[f.v].args[2]
<1>. DEFINE e == p[f.v]
<1>1. f.v \in Values /\ f.done \in Seq(Nat)  BY DEF Frames
<1>2. e \in Expressions  BY <1>1 DEF AllPrograms
<1>3. e.args # <<>> /\ Len(f.done) < Len(e.args)
      /\ \A j \in 1 .. Len(f.done) : f.done[j] = Meaning(p, e.args[j])
  BY DEF OperandsOf, Args
<1>4. Len(f.done) \in Nat /\ \A j \in 1 .. Len(f.done) : f.done[j] \in Nat
  BY <1>1, ElementOfSeq, LenProperties
<1>5. Operand(p, f) = e.args[Len(f.done) + 1]  BY DEF Operand, Args
<1>6. Args(p, f) = e.args  BY DEF Args
<1>. HIDE DEF e
<1>7. CASE e.op \in {"var", "try"}
  <2>1. e.args[1] \in Values /\ Len(e.args) = 1  BY <1>2, <1>7, ExpressionFacts
  <2>2. Len(f.done) = 0  BY <1>3, <1>4, <2>1
  <2>. QED  BY <1>1, <1>2, <1>5, <1>6, <1>7, <2>1, <2>2 DEF e
<1>8. CASE e.op = "plus"
  <2>1. e.args[1] \in Values /\ e.args[2] \in Values /\ Len(e.args) = 2
    BY <1>2, <1>8, ExpressionFacts
  <2>2. Len(f.done) = 0 \/ Len(f.done) = 1
    <3>1. Len(f.done) < 2  BY <1>3, <2>1
    <3>2. \A n \in Nat : n < 2 => n = 0 \/ n = 1  OBVIOUS
    <3>. QED  BY <1>4, <3>1, <3>2
  <2>3. Len(f.done) = 1 => f.done[1] \in Nat /\ f.done[1] = Meaning(p, e.args[1])
    BY <1>3, <1>4
  <2>4. CASE Len(f.done) = 0
    <3>1. Operand(p, f) = e.args[1]  BY <1>5, <2>4
    <3>. QED  BY <1>1, <1>2, <1>6, <1>8, <2>1, <2>4, <3>1 DEF e
  <2>5. CASE Len(f.done) = 1
    <3>1. Operand(p, f) = e.args[2]  BY <1>5, <2>5
    <3>. QED  BY <1>1, <1>2, <1>6, <1>8, <2>1, <2>3, <2>5, <3>1 DEF e
  <2>. QED  BY <2>2, <2>4, <2>5
<1>. QED  BY <1>2, <1>3, <1>7, <1>8, ExpressionFacts

\* What the stack of an evaluation consists of.
LEMMA StackFacts ==
    ASSUME NEW p, NEW s, NEW x, StackOK(p, s, x)
    PROVE  /\ p \in AllPrograms /\ s \in Seq(Frames) /\ x \in Values /\ Len(s) \in Nat
           /\ \A i \in 1 .. Len(s) : s[i] \in Frames /\ s[i].v \in Values
                                     /\ p[s[i].v] \in Expressions
           /\ s # <<>> <=> Len(s) # 0
           /\ s # <<>> => Len(s) \in 1 .. Len(s) /\ Top(s) = s[Len(s)]
           /\ s # <<>> /\ HasOperand(p, s) => OperandsOf(p, Top(s))
           /\ s # <<>> /\ ~ HasOperand(p, s) => Top(s).done = <<>>
<1>1. p \in AllPrograms /\ s \in Seq(Frames) /\ x \in Values  BY DEF StackOK, AllPrograms
<1>2. Len(s) \in Nat /\ \A i \in 1 .. Len(s) : s[i] \in Frames
  BY <1>1, ElementOfSeq, LenProperties
<1>3. s # <<>> <=> Len(s) # 0  BY <1>1, EmptySeq
<1>4. \A i \in 1 .. Len(s) : s[i].v \in Values /\ p[s[i].v] \in Expressions
  BY <1>1, <1>2 DEF Frames, AllPrograms
<1>5. s # <<>> => Len(s) \in 1 .. Len(s)  BY <1>2, <1>3
<1>6. s # <<>> => \/ OperandsOf(p, s[Len(s)])
                  \/ Args(p, s[Len(s)]) = <<>> /\ s[Len(s)].done = <<>>
  BY <1>5 DEF StackOK
<1>. QED  BY <1>1, <1>2, <1>3, <1>4, <1>5, <1>6 DEF Top, HasOperand, OperandsOf

\* What is needed next is a value; if the whole is no infinite recursion, it is known
\* at a lesser depth than everything on the stack.
LEMMA NeededFacts ==
    ASSUME NEW p, NEW s, NEW x, StackOK(p, s, x), DepthOK(p, s, x), HasOperand(p, s)
    PROVE  /\ NeededBy(p, s, x) \in Values
           /\ Meaning(p, x) # Recursion =>
                 /\ Meaning(p, NeededBy(p, s, x)) # Recursion
                 /\ \A i \in 1 .. Len(s) : Shallower(p, NeededBy(p, s, x), s[i].v)
<1>1. CASE s = <<>>
  <2>1. Len(s) = 0 /\ x \in Values  BY <1>1, StackFacts
  <2>. QED  BY <1>1, <2>1 DEF NeededBy
<1>2. CASE s # <<>>
  <2>. DEFINE f == Top(s)
              y == Operand(p, f)
  <2>1. NeededBy(p, s, x) = y  BY <1>2 DEF NeededBy
  <2>2. /\ p \in AllPrograms /\ f \in Frames /\ OperandsOf(p, f) /\ Len(s) \in Nat
        /\ Len(s) \in 1 .. Len(s) /\ f = s[Len(s)]
    BY <1>2, StackFacts
  <2>3. \A i \in 1 .. Len(s) : s[i].v \in Values  BY StackFacts
  <2>. HIDE DEF f
  <2>4. y \in Values  BY <2>2, OperandFacts
  <2>5. ASSUME Meaning(p, x) # Recursion
        PROVE  /\ Meaning(p, y) # Recursion
               /\ \A i \in 1 .. Len(s) : Shallower(p, y, s[i].v)
    <3>1. Meaning(p, f.v) # Recursion /\ \A i \in 1 .. Len(s) - 1 : Shallower(p, f.v, s[i].v)
      BY <2>2, <2>5 DEF DepthOK
    <3>2. f.v \in Values  BY <2>2, <2>3
    <3>3. \/ p[f.v].op \in {"var", "try", "plus"} /\ y = p[f.v].args[1]
          \/ p[f.v].op = "plus" /\ y = p[f.v].args[2] /\ Meaning(p, p[f.v].args[1]) \in Nat
      BY <2>2, OperandFacts
    <3>. HIDE DEF y
    <3>4. Meaning(p, y) # Recursion /\ Shallower(p, y, f.v)
      BY <2>2, <2>4, <3>1, <3>2, <3>3, OperandIsShallower
    <3>5. ASSUME NEW i \in 1 .. Len(s) PROVE Shallower(p, y, s[i].v)
      <4>1. CASE i = Len(s)  BY <2>2, <3>4, <4>1
      <4>2. CASE i # Len(s)
        <5>1. i \in 1 .. Len(s) - 1  BY <2>2, <4>2
        <5>2. Shallower(p, f.v, s[i].v)  BY <3>1, <5>1
        <5>. QED  BY <2>2, <2>3, <2>4, <3>2, <3>4, <5>2, ShallowerTransitive
      <4>. QED  BY <4>1, <4>2
    <3>. QED  BY <3>4, <3>5
  <2>. QED  BY <2>1, <2>4, <2>5
<1>. QED  BY <1>1, <1>2

\* A stack with another frame.
Pushed(s, f) == Append(s, f)

\* The evaluation of what is needed next begins.
LEMMA PushOK ==
    ASSUME NEW p, NEW s, NEW x, StackOK(p, s, x), DepthOK(p, s, x), HasOperand(p, s),
           NEW f \in Frames, f.v = NeededBy(p, s, x), f.done = <<>>,
           NEW r, r = Pushed(s, f)
    PROVE  /\ StackOK(p, r, x) /\ DepthOK(p, r, x) /\ r # <<>> /\ Top(r) = f
           /\ Len(r) = Len(s) + 1 /\ \A i \in 1 .. Len(s) : r[i] = s[i]
<1>. DEFINE y == NeededBy(p, s, x)
<1>1. /\ y \in Values
      /\ Meaning(p, x) # Recursion =>
            Meaning(p, y) # Recursion /\ \A i \in 1 .. Len(s) : Shallower(p, y, s[i].v)
  BY NeededFacts
<1>2. /\ p \in AllPrograms /\ s \in Seq(Frames) /\ x \in Values /\ Len(s) \in Nat
      /\ s # <<>> <=> Len(s) # 0
  BY StackFacts
<1>3. s # <<>> => Top(s) = s[Len(s)] /\ OperandsOf(p, Top(s)) /\ y = Operand(p, Top(s))
      /\ Len(s) \in 1 .. Len(s)
  BY StackFacts DEF NeededBy
<1>4. s = <<>> => y = x  BY DEF NeededBy
<1>5. f.v = y /\ f.done = <<>>  OBVIOUS
<1>. HIDE DEF y
<1>7. /\ r \in Seq(Frames) /\ Len(r) = Len(s) + 1
      /\ \A i \in 1 .. Len(s) : r[i] = s[i]
      /\ r[Len(s) + 1] = f
  BY <1>2, AppendProperties DEF Pushed
<1>8. Args(p, f) = <<>> \/ OperandsOf(p, f)
  <2>1. p[y] \in Expressions  BY <1>1, <1>2 DEF AllPrograms
  <2>2. p[y].args = <<>> \/ Len(p[y].args) \in {1, 2}  BY <2>1, ExpressionFacts
  <2>3. Len(f.done) = 0  BY <1>5
  <2>. QED  BY <1>5, <2>2, <2>3 DEF Args, OperandsOf
<1>9. StackOK(p, r, x)
  <2>1. r[1].v = x
    <3>1. CASE s = <<>>
      <4>1. r[1] = f  BY <1>2, <1>7, <3>1
      <4>. QED  BY <1>4, <1>5, <3>1, <4>1
    <3>2. CASE s # <<>>
      <4>1. s[1].v = x  BY <3>2 DEF StackOK
      <4>2. 1 \in 1 .. Len(s)  BY <1>2, <3>2
      <4>. QED  BY <1>7, <4>1, <4>2
    <3>. QED  BY <3>1, <3>2
  <2>2. ASSUME NEW i \in 1 .. Len(r)
        PROVE  \/ OperandsOf(p, r[i]) /\ (i < Len(r) => r[i + 1].v = Operand(p, r[i]))
               \/ i = Len(r) /\ Args(p, r[i]) = <<>> /\ r[i].done = <<>>
    <3>1. CASE i = Len(s) + 1
      <4>1. r[i] = f /\ i = Len(r) /\ ~ (i < Len(r))  BY <1>2, <1>7, <3>1
      <4>. QED  BY <1>5, <1>8, <4>1
    <3>2. CASE i = Len(s)
      <4>1. s # <<>> /\ r[i] = s[i]  BY <1>2, <1>7, <3>2
      <4>2. r[i + 1].v = y  BY <1>5, <1>7, <3>2
      <4>. QED  BY <1>3, <3>2, <4>1, <4>2
    <3>3. CASE i \in 1 .. Len(s) - 1
      <4>1. i \in 1 .. Len(s) /\ i + 1 \in 1 .. Len(s) /\ i < Len(s) /\ i # Len(s)
        BY <1>2, <3>3
      <4>2. OperandsOf(p, s[i]) /\ s[i + 1].v = Operand(p, s[i])  BY <4>1 DEF StackOK
      <4>. QED  BY <1>7, <4>1, <4>2
    <3>. QED  BY <1>2, <1>7, <3>1, <3>2, <3>3
  <2>3. p \in [Values -> Expressions]  BY <1>2 DEF AllPrograms
  <2>. QED  BY <1>2, <1>7, <2>1, <2>2, <2>3 DEF StackOK
<1>10. DepthOK(p, r, x)
  <2>. SUFFICES ASSUME Meaning(p, x) # Recursion, NEW j \in 1 .. Len(r)
                PROVE  /\ Meaning(p, r[j].v) # Recursion
                       /\ \A i \in 1 .. j - 1 : Shallower(p, r[j].v, r[i].v)
    BY DEF DepthOK
  <2>1. CASE j = Len(s) + 1
    <3>1. r[j].v = y /\ 1 .. j - 1 = 1 .. Len(s)  BY <1>2, <1>5, <1>7, <2>1
    <3>. QED  BY <1>1, <1>7, <3>1
  <2>2. CASE j # Len(s) + 1
    <3>1. j \in 1 .. Len(s) /\ \A i \in 1 .. j - 1 : i \in 1 .. Len(s)  BY <1>2, <1>7, <2>2
    <3>2. Meaning(p, s[j].v) # Recursion /\ \A i \in 1 .. j - 1 : Shallower(p, s[j].v, s[i].v)
      BY <3>1 DEF DepthOK
    <3>. QED  BY <1>7, <3>1, <3>2
  <2>. QED  BY <2>1, <2>2
<1>11. r # <<>> /\ Top(r) = f
  <2>1. Len(r) # 0 /\ Len(<<>>) = 0  BY <1>2, <1>7
  <2>. QED  BY <1>7, <2>1 DEF Top
<1>. QED  BY <1>7, <1>9, <1>10, <1>11

\* The last frame goes: what it has evaluated is what the frame before it needs.
LEMMA PopOK ==
    ASSUME NEW p, NEW s, NEW x, StackOK(p, s, x), DepthOK(p, s, x), s # <<>>,
           NEW r, r = Front(s)
    PROVE  /\ StackOK(p, r, x) /\ DepthOK(p, r, x) /\ HasOperand(p, r)
           /\ NeededBy(p, r, x) = Top(s).v
           /\ Len(r) = Len(s) - 1 /\ \A i \in 1 .. Len(r) : r[i] = s[i]
           /\ r = <<>> <=> Len(s) = 1
<1>1. /\ p \in AllPrograms /\ s \in Seq(Frames) /\ x \in Values /\ Len(s) \in Nat
      /\ Len(s) # 0 /\ Top(s) = s[Len(s)] /\ \A i \in 1 .. Len(s) : s[i] \in Frames
  BY StackFacts
<1>2. r \in Seq(Frames) /\ Len(r) = Len(s) - 1 /\ \A i \in 1 .. Len(r) : r[i] = s[i]
  <2>. DEFINE n == Len(s) - 1
  <2>1. 1 \in Int /\ n \in Int /\ \A i \in 1 .. n : s[i] \in Frames  BY <1>1
  <2>2. r = SubSeq(s, 1, n)  BY DEF Front
  <2>3. n >= 0  BY <1>1
  <2>. HIDE DEF n
  <2>4. /\ r \in Seq(Frames) /\ Len(r) = (IF 1 <= n THEN n - 1 + 1 ELSE 0)
        /\ \A i \in 1 .. n - 1 + 1 : r[i] = s[1 + i - 1]
    BY <2>1, <2>2, SubSeqProperties
  <2>5. Len(r) = n  BY <2>1, <2>3, <2>4
  <2>6. \A i \in 1 .. n : r[i] = s[i]  BY <2>1, <2>4
  <2>. QED  BY <2>4, <2>5, <2>6 DEF n
<1>3. r = <<>> <=> Len(s) = 1
  <2>1. r = <<>> <=> Len(r) = 0  BY <1>2, EmptySeq
  <2>. QED  BY <1>1, <1>2, <2>1
<1>4. ASSUME NEW i \in 1 .. Len(r)
      PROVE  r[i] = s[i] /\ OperandsOf(p, r[i]) /\ s[i + 1].v = Operand(p, r[i])
  <2>1. i \in 1 .. Len(s) /\ i < Len(s) /\ i # Len(s)  BY <1>1, <1>2
  <2>2. OperandsOf(p, s[i]) /\ s[i + 1].v = Operand(p, s[i])  BY <2>1 DEF StackOK
  <2>. QED  BY <1>2, <2>2
<1>5. StackOK(p, r, x)
  <2>1. r # <<>> => r[1].v = x
    <3>1. s[1].v = x  BY DEF StackOK
    <3>2. r # <<>> => 1 \in 1 .. Len(r)  BY <1>1, <1>2, <1>3
    <3>. QED  BY <1>2, <3>1, <3>2
  <2>2. ASSUME NEW i \in 1 .. Len(r)
        PROVE  OperandsOf(p, r[i]) /\ (i < Len(r) => r[i + 1].v = Operand(p, r[i]))
    <3>1. i < Len(r) => i + 1 \in 1 .. Len(r)  BY <1>1, <1>2
    <3>. QED  BY <1>2, <1>4, <3>1
  <2>3. p \in [Values -> Expressions]  BY <1>1 DEF AllPrograms
  <2>. QED  BY <1>1, <1>2, <2>1, <2>2, <2>3 DEF StackOK
<1>6. DepthOK(p, r, x)
  <2>. SUFFICES ASSUME Meaning(p, x) # Recursion, NEW j \in 1 .. Len(r)
                PROVE  /\ Meaning(p, r[j].v) # Recursion
                       /\ \A i \in 1 .. j - 1 : Shallower(p, r[j].v, r[i].v)
    BY DEF DepthOK
  <2>1. j \in 1 .. Len(s) /\ \A i \in 1 .. j - 1 : i \in 1 .. Len(r)  BY <1>1, <1>2
  <2>2. Meaning(p, s[j].v) # Recursion /\ \A i \in 1 .. j - 1 : Shallower(p, s[j].v, s[i].v)
    BY <2>1 DEF DepthOK
  <2>. QED  BY <1>2, <2>1, <2>2
<1>7. HasOperand(p, r) /\ NeededBy(p, r, x) = Top(s).v
  <2>1. CASE r = <<>>
    <3>1. Len(s) = 1 /\ s[1].v = x  BY <1>3, <2>1 DEF StackOK
    <3>. QED  BY <1>1, <2>1, <3>1 DEF HasOperand, NeededBy
  <2>2. CASE r # <<>>
    <3>1. Len(r) \in 1 .. Len(r) /\ Len(r) + 1 = Len(s)  BY <1>1, <1>2, <1>3, <2>2
    <3>2. OperandsOf(p, r[Len(r)]) /\ s[Len(r) + 1].v = Operand(p, r[Len(r)])  BY <1>4, <3>1
    <3>. QED  BY <1>1, <2>2, <3>1, <3>2 DEF HasOperand, NeededBy, Top, OperandsOf
  <2>. QED  BY <2>1, <2>2
<1>. QED  BY <1>2, <1>3, <1>5, <1>6, <1>7

\* Computed, with an operand n and others to come.
Advanced(p, s, n, d, r) ==
    /\ d = Append(Top(s).done, n) /\ Len(d) < Len(Args(p, Top(s)))
    /\ r = [s EXCEPT ![Len(s)].done = d]

\* The last frame has another operand, and needs the one after it.
LEMMA NextOperand ==
    ASSUME NEW p, NEW s, NEW x, StackOK(p, s, x), DepthOK(p, s, x), HasOperand(p, s),
           s # <<>>, NEW n \in Nat, n = Meaning(p, NeededBy(p, s, x)),
           NEW d, NEW r, Advanced(p, s, n, d, r)
    PROVE  /\ StackOK(p, r, x) /\ DepthOK(p, r, x) /\ HasOperand(p, r) /\ r # <<>>
           /\ NeededBy(p, r, x) = Args(p, Top(s))[Len(d) + 1]
           /\ Len(r) = Len(s) /\ \A i \in 1 .. Len(s) : r[i].v = s[i].v
<1>. DEFINE f == Top(s)
            g == [f EXCEPT !.done = d]
<1>1. /\ p \in AllPrograms /\ s \in Seq(Frames) /\ x \in Values /\ Len(s) \in Nat
      /\ Len(s) \in 1 .. Len(s) /\ Top(s) = s[Len(s)] /\ OperandsOf(p, Top(s))
      /\ f \in Frames
  BY StackFacts
<1>2. \A j \in 1 .. Len(f.done) : f.done[j] = Meaning(p, Args(p, f)[j])
  BY <1>1 DEF OperandsOf
<1>3. f.v \in Values /\ f.done \in Seq(Nat) /\ Len(f.done) \in Nat
  BY <1>1, LenProperties DEF Frames
<1>4. n = Meaning(p, Args(p, f)[Len(f.done) + 1])  BY DEF NeededBy, Operand
<1>5. /\ d \in Seq(Nat) /\ Len(d) = Len(f.done) + 1 /\ d[Len(f.done) + 1] = n
      /\ \A j \in 1 .. Len(f.done) : d[j] = f.done[j]
  BY <1>3, AppendProperties DEF Advanced
<1>6. g \in Frames /\ g.v = f.v /\ g.done = d  BY <1>1, <1>5 DEF Frames
<1>7. Args(p, g) = Args(p, f)  BY <1>6 DEF Args
<1>8. Len(d) < Len(Args(p, f)) /\ Args(p, f) # <<>>  BY <1>1 DEF OperandsOf, Advanced
<1>9. r = [s EXCEPT ![Len(s)] = g]  BY <1>1 DEF Advanced
<1>. HIDE DEF f, g
<1>10. \A j \in 1 .. Len(d) : d[j] = Meaning(p, Args(p, f)[j])
  <2>. SUFFICES ASSUME NEW j \in 1 .. Len(d) PROVE d[j] = Meaning(p, Args(p, f)[j])
    OBVIOUS
  <2>1. CASE j = Len(f.done) + 1  BY <1>4, <1>5, <2>1
  <2>2. CASE j # Len(f.done) + 1
    <3>1. j \in 1 .. Len(f.done)  BY <1>3, <1>5, <2>2
    <3>. QED  BY <1>2, <1>5, <3>1
  <2>. QED  BY <2>1, <2>2
<1>11. OperandsOf(p, g)  BY <1>6, <1>7, <1>8, <1>10 DEF OperandsOf
<1>12. /\ r \in Seq(Frames) /\ Len(r) = Len(s) /\ r[Len(s)] = g
       /\ \A i \in 1 .. Len(s) : i # Len(s) => r[i] = s[i]
  <2>. DEFINE l == Len(s)
              t == [s EXCEPT ![l] = g]
  <2>1. l \in 1 .. Len(s) /\ r = t  BY <1>1, <1>9
  <2>2. /\ t \in Seq(Frames) /\ Len(t) = Len(s)
        /\ \A i \in 1 .. Len(s) : t[i] = IF i = l THEN g ELSE s[i]
    <3>1. s \in Seq(Frames) /\ g \in Frames  BY <1>1, <1>6
    <3>2. l \in 1 .. Len(s)  BY <2>1
    <3>. HIDE DEF l
    <3>. QED  BY <3>1, <3>2, ExceptSeq
  <2>. HIDE DEF t
  <2>. QED  BY <2>1, <2>2
<1>13. \A i \in 1 .. Len(s) : r[i].v = s[i].v
  <2>. SUFFICES ASSUME NEW i \in 1 .. Len(s) PROVE r[i].v = s[i].v  OBVIOUS
  <2>1. CASE i = Len(s)  BY <1>1, <1>6, <1>12, <2>1 DEF f
  <2>2. CASE i # Len(s)  BY <1>12, <2>2
  <2>. QED  BY <2>1, <2>2
<1>14. s # <<>> /\ Len(r) # 0 /\ r # <<>>  BY <1>1, <1>12, EmptySeq
<1>15. StackOK(p, r, x)
  <2>1. r[1].v = x  BY <1>1, <1>13 DEF StackOK
  <2>2. ASSUME NEW i \in 1 .. Len(r)
        PROVE  OperandsOf(p, r[i]) /\ (i < Len(r) => r[i + 1].v = Operand(p, r[i]))
    <3>1. CASE i = Len(s)
      <4>1. r[i] = g /\ ~ (i < Len(r))  BY <1>1, <1>12, <3>1
      <4>. QED  BY <1>11, <4>1
    <3>2. CASE i # Len(s)
      <4>1. i \in 1 .. Len(s) /\ i < Len(s) /\ i + 1 \in 1 .. Len(s)  BY <1>1, <1>12, <3>2
      <4>2. OperandsOf(p, s[i]) /\ s[i + 1].v = Operand(p, s[i])
        BY <3>2, <4>1 DEF StackOK
      <4>3. r[i] = s[i] /\ r[i + 1].v = s[i + 1].v  BY <1>12, <1>13, <3>2, <4>1
      <4>. QED  BY <4>2, <4>3
    <3>. QED  BY <3>1, <3>2
  <2>3. p \in [Values -> Expressions]  BY <1>1 DEF AllPrograms
  <2>. QED  BY <1>1, <1>12, <2>1, <2>2, <2>3 DEF StackOK
<1>16. DepthOK(p, r, x)
  <2>. SUFFICES ASSUME Meaning(p, x) # Recursion, NEW j \in 1 .. Len(r)
                PROVE  /\ Meaning(p, r[j].v) # Recursion
                       /\ \A i \in 1 .. j - 1 : Shallower(p, r[j].v, r[i].v)
    BY DEF DepthOK
  <2>1. j \in 1 .. Len(s) /\ \A i \in 1 .. j - 1 : i \in 1 .. Len(s)  BY <1>1, <1>12
  <2>2. Meaning(p, s[j].v) # Recursion /\ \A i \in 1 .. j - 1 : Shallower(p, s[j].v, s[i].v)
    BY <2>1 DEF DepthOK
  <2>. QED  BY <1>13, <2>1, <2>2
<1>17. Top(r) = g  BY <1>12 DEF Top
<1>18. HasOperand(p, r)  BY <1>7, <1>8, <1>17 DEF HasOperand
<1>19. NeededBy(p, r, x) = Args(p, f)[Len(d) + 1]
  BY <1>6, <1>7, <1>14, <1>17 DEF NeededBy, Operand
<1>. QED  BY <1>12, <1>13, <1>14, <1>15, <1>16, <1>18, <1>19 DEF f

\* The last frame has all its operands.
LEMMA LastOperand ==
    ASSUME NEW p \in AllPrograms, NEW f \in Frames, OperandsOf(p, f),
           NEW n \in Nat, n = Meaning(p, Operand(p, f)),
           NEW d, d = Append(f.done, n), ~ (Len(d) < Len(Args(p, f)))
    PROVE  Combined(p[f.v], d) = Meaning(p, f.v) /\ Meaning(p, f.v) \in Nat
<1>. DEFINE e == p[f.v]
<1>1. f.v \in Values /\ f.done \in Seq(Nat) /\ Len(f.done) \in Nat
  BY LenProperties DEF Frames
<1>2. /\ d \in Seq(Nat) /\ Len(d) = Len(f.done) + 1 /\ d[Len(f.done) + 1] = n
      /\ \A j \in 1 .. Len(f.done) : d[j] = f.done[j]
  BY <1>1, AppendProperties
<1>3. e = p[f.v]  OBVIOUS
<1>4. n \notin Failures  BY ThunksAssumption DEF Failures
<1>5. \/ e.op \in {"var", "try"} /\ Len(f.done) = 0 /\ Operand(p, f) = e.args[1]
      \/ e.op = "plus" /\ Len(Args(p, f)) = 2 /\ Len(f.done) = 0
      \/ /\ e.op = "plus" /\ Len(f.done) = 1 /\ Operand(p, f) = e.args[2]
         /\ f.done[1] \in Nat /\ f.done[1] = Meaning(p, e.args[1])
  BY OperandFacts
<1>. HIDE DEF e
<1>6. CASE e.op \in {"var", "try"} /\ Len(f.done) = 0 /\ Operand(p, f) = e.args[1]
  <2>1. d[1] = n /\ n = Meaning(p, e.args[1]) /\ n # Thrown  BY <1>2, <1>4, <1>6 DEF Failures
  <2>2. Combined(e, d) = n  BY <1>6, <2>1 DEF Combined
  <2>3. Meaning(p, f.v) = n  BY <1>1, <1>3, <1>6, <2>1, MeaningCases
  <2>. QED  BY <1>3, <2>2, <2>3
<1>7. CASE e.op = "plus" /\ Len(Args(p, f)) = 2 /\ Len(f.done) = 0
  BY <1>2, <1>7
<1>8. CASE /\ e.op = "plus" /\ Len(f.done) = 1 /\ Operand(p, f) = e.args[2]
           /\ f.done[1] \in Nat /\ f.done[1] = Meaning(p, e.args[1])
  <2>1. d[1] = Meaning(p, e.args[1]) /\ d[1] \in Nat /\ d[2] = n /\ n = Meaning(p, e.args[2])
    BY <1>2, <1>8
  <2>2. d[1] \notin Failures  BY <2>1, ThunksAssumption DEF Failures
  <2>3. Combined(e, d) = d[1] + d[2]  BY <1>8 DEF Combined
  <2>4. d[2] \notin Failures  BY <1>4, <2>1
  <2>5. Meaning(p, f.v) = IF d[1] \in Failures THEN d[1]
                          ELSE IF d[2] \in Failures THEN d[2] ELSE d[1] + d[2]
    <3>. DEFINE m1 == Meaning(p, e.args[1])
                m2 == Meaning(p, e.args[2])
    <3>1. Meaning(p, f.v) = IF m1 \in Failures THEN m1
                            ELSE IF m2 \in Failures THEN m2 ELSE m1 + m2
      BY <1>1, <1>3, <1>8, MeaningCases
    <3>2. m1 = d[1] /\ m2 = d[2]  BY <2>1
    <3>. HIDE DEF m1, m2
    <3>. QED  BY <3>1, <3>2
  <2>6. Meaning(p, f.v) = d[1] + d[2]  BY <2>2, <2>4, <2>5
  <2>7. d[1] + d[2] \in Nat  BY <2>1
  <2>. QED  BY <1>3, <2>3, <2>6, <2>7
<1>. QED  BY <1>5, <1>6, <1>7, <1>8

\* The last frame goes: the heap has what it means, or a thunk.
LEMMA PopHeap ==
    ASSUME NEW p, NEW s, NEW x, StackOK(p, s, x), DepthOK(p, s, x), s # <<>>,
           NEW a, NEW h, HeapOK(p, a, h, s), NEW r, r = Front(s),
           NEW n \in Nat \cup {Thunk}, n \in Nat => n = Meaning(p, Top(s).v),
           NEW g, g = [h EXCEPT ![Top(s).v] = n] \/ (g = h /\ Top(s).v \in a)
    PROVE  HeapOK(p, a, g, r)
<1>1. /\ Len(s) \in Nat /\ Len(s) # 0 /\ Top(s) = s[Len(s)] /\ Top(s).v \in Values
  BY StackFacts
<1>2. /\ NeededBy(p, r, x) = Top(s).v
      /\ Len(r) = Len(s) - 1 /\ \A i \in 1 .. Len(r) : r[i] = s[i]
  BY PopOK, SMTT(30)
<1>3. /\ a \in SUBSET Values /\ Cardinality(a) <= MaxCallDepth
      /\ h \in [Values -> Nat \cup {Thunk, BlackHole}]
      /\ \A y \in Values :
            /\ h[y] \in Nat => h[y] = Meaning(p, y)
            /\ h[y] = BlackHole => y \notin a /\ \E i \in 1 .. Len(s) : s[i].v = y
  BY DEF HeapOK
<1>4. Thunk # BlackHole /\ BlackHole \notin Nat  BY ThunksAssumption
<1>5. g \in [Values -> Nat \cup {Thunk, BlackHole}]  BY <1>3
<1>6. ASSUME NEW y \in Values
      PROVE  /\ g[y] \in Nat => g[y] = Meaning(p, y)
             /\ g[y] = BlackHole => y \notin a /\ \E i \in 1 .. Len(r) : r[i].v = y
  <2>1. CASE y = Top(s).v
    <3>1. g[y] # BlackHole  BY <1>1, <1>3, <1>4, <2>1
    <3>2. g[y] \in Nat => g[y] = Meaning(p, y)  BY <1>1, <1>3, <2>1
    <3>. QED  BY <3>1, <3>2
  <2>2. CASE y # Top(s).v
    <3>1. g[y] = h[y]  BY <1>1, <1>3, <2>2
    <3>2. ASSUME NEW i \in 1 .. Len(s), s[i].v = y
          PROVE  i \in 1 .. Len(r) /\ r[i].v = y
      <4>1. i # Len(s)  BY <1>1, <2>2, <3>2
      <4>2. i \in 1 .. Len(r)  BY <1>1, <1>2, <4>1
      <4>. QED  BY <1>2, <3>2, <4>2
    <3>. QED  BY <1>3, <3>1, <3>2
  <2>. QED  BY <2>1, <2>2
<1>. QED  BY <1>3, <1>5, <1>6 DEF HeapOK

\* What Finish does.
Finished(s, n, h, r, g, c) ==
    /\ r = Front(s) /\ g = [h EXCEPT ![Top(s).v] = n]
    /\ c = IF Len(s) = 1 THEN Outcome(n) ELSE [mode |-> "operand", arg |-> n]

\* Finish, with what the value means.
LEMMA FinishOK ==
    ASSUME NEW p, NEW s, NEW x, StackOK(p, s, x), DepthOK(p, s, x), s # <<>>,
           NEW a, NEW h, HeapOK(p, a, h, s), NEW n \in Nat, n = Meaning(p, Top(s).v),
           NEW r, NEW g, NEW c, Finished(s, n, h, r, g, c), NEW k \in Nat
    PROVE  /\ StackOK(p, r, x) /\ DepthOK(p, r, x) /\ HeapOK(p, a, g, r)
           /\ ControlOK(p, r, x, c, k)
<1>1. /\ StackOK(p, r, x) /\ DepthOK(p, r, x) /\ HasOperand(p, r)
      /\ NeededBy(p, r, x) = Top(s).v
      /\ r = <<>> <=> Len(s) = 1
  BY PopOK DEF Finished
<1>2. HeapOK(p, a, g, r)  BY PopHeap DEF Finished
<1>3. CASE Len(s) = 1
  <2>1. r = <<>> /\ x = Top(s).v  BY <1>1, <1>3 DEF NeededBy
  <2>2. c.mode = "idle" /\ c.arg = n  BY <1>3 DEF Outcome, Finished
  <2>. QED  BY <1>1, <1>2, <2>1, <2>2 DEF ControlOK
<1>4. CASE Len(s) # 1
  <2>1. c.mode = "operand" /\ c.arg = n  BY <1>4 DEF Finished
  <2>. QED  BY <1>1, <1>2, <2>1 DEF ControlOK
<1>. QED  BY <1>3, <1>4

\* What the evaluation of an expression begins with.
Begins(e, c) ==
    \/ e.op = "number" /\ c.mode = "return" /\ c.arg = e.n
    \/ e.op = "throw" /\ c.mode = "raise" /\ c.arg = Thrown
    \/ e.op \notin {"number", "throw"} /\ c.mode = "force" /\ c.arg = e.args[1]

\* The evaluation of what is needed begins, with a black hole unless it is an
\* application.
LEMMA StartOK ==
    ASSUME NEW p, NEW s, NEW x, StackOK(p, s, x), DepthOK(p, s, x), HasOperand(p, s),
           NEW a, NEW h, HeapOK(p, a, h, s), NEW y, y = NeededBy(p, s, x),
           NEW f \in Frames, f.v = y, f.done = <<>>, NEW r, r = Pushed(s, f),
           NEW g \in [Values -> Nat \cup {Thunk, BlackHole}],
           \A z \in Values : \/ g[z] = h[z]
                             \/ z = y /\ g[z] = BlackHole /\ y \notin a,
           NEW c, Begins(p[y], c),
           NEW k \in Nat
    PROVE  /\ StackOK(p, r, x) /\ DepthOK(p, r, x) /\ HeapOK(p, a, g, r)
           /\ ControlOK(p, r, x, c, k)
<1>1. y \in Values /\ p \in AllPrograms /\ Len(s) \in Nat
  <2>1. y \in Values  BY NeededFacts
  <2>. QED  BY <2>1, StackFacts
<1>2. /\ StackOK(p, r, x) /\ DepthOK(p, r, x) /\ r # <<>>
      /\ Top(r) = f /\ Len(r) = Len(s) + 1 /\ \A i \in 1 .. Len(s) : r[i] = s[i]
  BY PushOK
<1>3. Top(r).v = y /\ Top(r).done = <<>> /\ r[Len(s) + 1].v = y  BY <1>2 DEF Top
<1>4. HeapOK(p, a, g, r)
  <2>1. /\ a \in SUBSET Values /\ Cardinality(a) <= MaxCallDepth
        /\ h \in [Values -> Nat \cup {Thunk, BlackHole}]
        /\ \A z \in Values :
              /\ h[z] \in Nat => h[z] = Meaning(p, z)
              /\ h[z] = BlackHole => z \notin a /\ \E i \in 1 .. Len(s) : s[i].v = z
    BY DEF HeapOK
  <2>2. BlackHole \notin Nat  BY ThunksAssumption
  <2>4. Len(s) + 1 \in 1 .. Len(r) /\ \A i \in 1 .. Len(s) : i \in 1 .. Len(r)
    BY <1>1, <1>2
  <2>5. ASSUME NEW z \in Values
        PROVE  /\ g[z] \in Nat => g[z] = Meaning(p, z)
               /\ g[z] = BlackHole => z \notin a /\ \E i \in 1 .. Len(r) : r[i].v = z
    <3>1. CASE g[z] = h[z]
      <4>1. g[z] = BlackHole => z \notin a /\ \E i \in 1 .. Len(r) : r[i].v = z
        BY <1>2, <2>1, <2>4, <3>1
      <4>. QED  BY <2>1, <3>1, <4>1
    <3>2. CASE z = y /\ g[z] = BlackHole /\ y \notin a
      BY <1>3, <2>2, <2>4, <3>2
    <3>. QED  BY <1>1, <2>1, <3>1, <3>2
  <2>. QED  BY <2>1, <2>5 DEF HeapOK
<1>5. p[y] \in Expressions  BY <1>1 DEF AllPrograms
<1>6. CASE p[y].op = "number"
  <2>1. c.mode = "return" /\ c.arg = p[y].n  BY <1>6 DEF Begins
  <2>2. p[y].n \in Nat  BY <1>5, ExpressionFacts
  <2>3. ControlOK(p, r, x, c, k)  BY <1>2, <1>3, <1>6, <2>1, <2>2 DEF ControlOK
  <2>. QED  BY <1>2, <1>4, <2>3
<1>7. CASE p[y].op = "throw"
  <2>1. c.mode = "raise" /\ c.arg = Thrown  BY <1>7 DEF Begins
  <2>2. ControlOK(p, r, x, c, k)  BY <1>2, <1>3, <1>7, <2>1 DEF ControlOK
  <2>. QED  BY <1>2, <1>4, <2>2
<1>8. CASE p[y].op \notin {"number", "throw"}
  <2>1. c.mode = "force" /\ c.arg = p[y].args[1]  BY <1>8 DEF Begins
  <2>2. p[y].args # <<>>
    <3>. DEFINE e == p[y]
    <3>1. e \in Expressions /\ e.op \notin {"number", "throw"}  BY <1>5, <1>8
    <3>. HIDE DEF e
    <3>2. e.op \in {"var", "try", "plus"}  BY <3>1, ExpressionFacts
    <3>3. Len(e.args) = 1 \/ Len(e.args) = 2  BY <3>1, <3>2, ExpressionFacts
    <3>4. ~ (Len(e.args) = 0)  BY <3>3
    <3>5. e.args # <<>>
      <4>1. Len(<<>>) = 0  OBVIOUS
      <4>. QED  BY <3>4, <4>1, Zenon
    <3>. QED  BY <3>5 DEF e
  <2>3. Args(p, Top(r)) = p[y].args /\ Args(p, Top(r)) # <<>>  BY <1>3, <2>2 DEF Args
  <2>4. NeededBy(p, r, x) = p[y].args[1]
    BY <1>2, <1>3, <2>3 DEF NeededBy, Operand
  <2>5. HasOperand(p, r)  BY <2>3 DEF HasOperand
  <2>6. ControlOK(p, r, x, c, k)  BY <2>1, <2>4, <2>5 DEF ControlOK
  <2>. QED  BY <1>2, <1>4, <2>6
<1>. QED  BY <1>6, <1>7, <1>8

\* Two frames of an evaluation that is no infinite recursion are of different values.
LEMMA FramesDiffer ==
    ASSUME NEW p, NEW s, NEW x, StackOK(p, s, x), DepthOK(p, s, x),
           Meaning(p, x) # Recursion,
           NEW i \in 1 .. Len(s), NEW j \in 1 .. Len(s), i # j
    PROVE  s[i].v # s[j].v
<1>1. Len(s) \in Nat  BY StackFacts
<1>2. i \in 1 .. j - 1 \/ j \in 1 .. i - 1  BY <1>1
<1>3. Shallower(p, s[j].v, s[i].v) \/ Shallower(p, s[i].v, s[j].v)  BY <1>2 DEF DepthOK
<1>. QED  BY <1>3, NotShallower

\* More applications on the stack than there are: one of them needs itself.
LEMMA TooDeep ==
    ASSUME NEW p, NEW s, NEW x, StackOK(p, s, x), DepthOK(p, s, x),
           NEW a, NEW h, HeapOK(p, a, h, s),
           Cardinality({i \in DOMAIN s : s[i].v \in a}) > MaxCallDepth
    PROVE  Meaning(p, x) = Recursion
<1>. SUFFICES ASSUME Meaning(p, x) # Recursion PROVE FALSE
  OBVIOUS
<1>. DEFINE D == {i \in DOMAIN s : s[i].v \in a}
            f == [i \in D |-> s[i].v]
<1>1. s \in Seq(Frames) /\ Len(s) \in Nat  BY StackFacts
<1>2. DOMAIN s = 1 .. Len(s)  BY <1>1, LenProperties
<1>3. a \in SUBSET Values /\ Cardinality(a) <= MaxCallDepth  BY DEF HeapOK
<1>4. IsFiniteSet(a) /\ Cardinality(a) \in Nat
  BY <1>3, ThunksAssumption, FS_Subset, FS_CardinalityType
<1>5. \A i, j \in D : s[i].v = s[j].v => i = j  BY <1>2, FramesDiffer
<1>6. f \in Injection(D, a)
  <2>1. f \in [D -> a] /\ \A i \in D : f[i] = s[i].v  OBVIOUS
  <2>. HIDE DEF D, f
  <2>2. \A i, j \in D : f[i] = f[j] => i = j  BY <1>5, <2>1
  <2>. QED  BY <2>1, <2>2 DEF Injection, IsInjective
<1>. HIDE DEF f
<1>7. IsFiniteSet(D) /\ Cardinality(D) <= Cardinality(a)
  <2>. HIDE DEF D
  <2>. QED  BY <1>4, <1>6, FS_Injection DEF ExistsInjection
<1>8. Cardinality(D) \in Nat
  <2>. HIDE DEF D
  <2>. QED  BY <1>7, FS_CardinalityType
<1>9. Cardinality(D) > MaxCallDepth  OBVIOUS
<1>10. MaxCallDepth \in Nat  BY ThunksAssumption
<1>. HIDE DEF D
<1>. QED  BY <1>3, <1>4, <1>7, <1>8, <1>9, <1>10

\* A black hole is needed: its value needs itself.
LEMMA NeededBlackHole ==
    ASSUME NEW p, NEW s, NEW x, StackOK(p, s, x), DepthOK(p, s, x), HasOperand(p, s),
           NEW a, NEW h, HeapOK(p, a, h, s), h[NeededBy(p, s, x)] = BlackHole
    PROVE  Meaning(p, x) = Recursion
<1>. DEFINE y == NeededBy(p, s, x)
<1>1. /\ y \in Values
      /\ Meaning(p, x) # Recursion => \A i \in 1 .. Len(s) : Shallower(p, y, s[i].v)
  BY NeededFacts
<1>2. \E i \in 1 .. Len(s) : s[i].v = y  BY <1>1 DEF HeapOK
<1>. HIDE DEF y
<1>. QED  BY <1>1, <1>2, NotShallower

\* An exception that is not caught is what the value of the last frame means.
LEMMA ExceptionOK ==
    ASSUME NEW p, NEW s, NEW x, StackOK(p, s, x), s # <<>>,
           \/ HasOperand(p, s) /\ Meaning(p, NeededBy(p, s, x)) = Thrown
           \/ p[Top(s).v].op = "throw"
    PROVE  Meaning(p, Top(s).v) = IF p[Top(s).v].op = "try" THEN 0 ELSE Thrown
<1>. DEFINE f == Top(s)
            e == p[f.v]
<1>1. p \in AllPrograms /\ f \in Frames /\ f.v \in Values /\ e \in Expressions
  BY StackFacts
<1>2. e = p[f.v]  OBVIOUS
<1>3. Thrown \in Failures  BY DEF Failures
<1>4. CASE e.op = "throw"
  <2>1. Meaning(p, f.v) = Thrown  BY <1>1, <1>4, MeaningCases
  <2>. QED  BY <1>4, <2>1
<1>5. CASE HasOperand(p, s) /\ Meaning(p, NeededBy(p, s, x)) = Thrown
  <2>. DEFINE y == Operand(p, f)
              m == Meaning(p, f.v)
              m1 == Meaning(p, e.args[1])
              m2 == Meaning(p, e.args[2])
  <2>1. OperandsOf(p, f) /\ Meaning(p, y) = Thrown
    BY <1>5, StackFacts DEF NeededBy
  <2>2. \/ e.op \in {"var", "try"} /\ m1 = Thrown
        \/ e.op = "plus" /\ m1 = Thrown
        \/ e.op = "plus" /\ m2 = Thrown /\ m1 \in Nat
    <3>. HIDE DEF f
    <3>1. \/ e.op \in {"var", "try"} /\ y = e.args[1]
          \/ e.op = "plus" /\ y = e.args[1]
          \/ /\ e.op = "plus" /\ y = e.args[2]
             /\ f.done[1] \in Nat /\ f.done[1] = Meaning(p, e.args[1])
      BY <1>1, <2>1, OperandFacts
    <3>. HIDE DEF e, y
    <3>. QED  BY <2>1, <3>1
  <2>3. /\ e.op = "var" => m = m1
        /\ e.op = "try" => m = IF m1 = Thrown THEN 0 ELSE m1
        /\ e.op = "plus" => m = IF m1 \in Failures THEN m1
                                ELSE IF m2 \in Failures THEN m2 ELSE m1 + m2
    <3>. HIDE DEF f
    <3>. QED  BY <1>1, MeaningCases
  <2>4. m1 \in Nat => m1 \notin Failures  BY ThunksAssumption DEF Failures
  <2>5. m = IF e.op = "try" THEN 0 ELSE Thrown
    <3>. HIDE DEF m, m1, m2, e
    <3>. QED  BY <1>3, <2>2, <2>3, <2>4
  <2>. QED  BY <2>5
<1>. QED  BY <1>4, <1>5

\* Start ends with what the evaluation begins with.
LEMMA BeginsFacts ==
    ASSUME NEW e, NEW c,
           c = CASE e.op = "number" -> Return(e.n)
                 [] e.op = "throw" -> Raise(Thrown)
                 [] OTHER -> Need(e.args[1])
    PROVE  Begins(e, c)
<1>. DEFINE o == e.op
            first == Return(e.n)
            second == Raise(Thrown)
            third == Need(e.args[1])
<1>1. c = CASE o = "number" -> first [] o = "throw" -> second [] OTHER -> third
  OBVIOUS
<1>2. /\ o = "number" => c = first
      /\ o = "throw" => c = second
      /\ o \notin {"number", "throw"} => c = third
  <2>. HIDE DEF o, first, second, third
  <2>. QED  BY ONLY <1>1
<1>3. first.mode = "return" /\ first.arg = e.n  BY DEF Return
<1>4. second.mode = "raise" /\ second.arg = Thrown  BY DEF Raise
<1>5. third.mode = "force" /\ third.arg = e.args[1]  BY DEF Need
<1>6. o = e.op  OBVIOUS
<1>. HIDE DEF o, first, second, third
<1>. QED  BY ONLY <1>2, <1>3, <1>4, <1>5, <1>6, Zenon DEF Begins

\* The part of the invariant that a step leaves to the stack, the heap and what
\* happens next.
LEMMA ThunkInvNext ==
    ASSUME program' = program, apps' = apps,
           StackOK(program, stack', forced'), DepthOK(program, stack', forced'),
           HeapOK(program, apps, heap', stack'),
           ControlOK(program, stack', forced', control', forces')
    PROVE  ThunkInv'
BY DEF ThunkInv

\* A value forced from outside is one to be forced on an empty stack.
LEMMA ForceFromOutsideStep ==
    ASSUME ThunkInv, NEW x \in Values, ForceFromOutside(x)
    PROVE  ThunkInv'
<1>1. /\ control.mode = "idle" /\ control' = Need(x) /\ forced' = x /\ forces' = forces + 1
      /\ program' = program /\ apps' = apps /\ heap' = heap /\ stack' = stack
  BY DEF ForceFromOutside
<1>2. /\ StackOK(program, stack, forced) /\ HeapOK(program, apps, heap, stack)
      /\ stack = <<>> /\ forces \in Nat
  BY <1>1, Zenon DEF ThunkInv, ControlOK
<1>3. program \in [Values -> Expressions] /\ stack \in Seq(Frames) /\ Len(stack) = 0
  BY <1>2 DEF StackOK
<1>4. StackOK(program, stack, x)  BY <1>2, <1>3 DEF StackOK
<1>5. DepthOK(program, stack, x)  BY <1>3 DEF DepthOK
<1>6. HasOperand(program, stack) /\ NeededBy(program, stack, x) = x
  BY <1>2 DEF HasOperand, NeededBy
<1>7. control'.mode = "force" /\ control'.arg = x  BY <1>1 DEF Need
<1>8. ControlOK(program, stack, x, control', forces')
  BY <1>1, <1>2, <1>6, <1>7 DEF ControlOK
<1>. QED  BY <1>1, <1>2, <1>4, <1>5, <1>8, ThunkInvNext

\* What is known when a value is about to be forced.
LEMMA ForcedIsNeeded ==
    ASSUME ThunkInv, control.mode = "force"
    PROVE  /\ StackOK(program, stack, forced) /\ DepthOK(program, stack, forced)
           /\ HeapOK(program, apps, heap, stack)
           /\ heap \in [Values -> Nat \cup {Thunk, BlackHole}]
           /\ HasOperand(program, stack) /\ control.arg = NeededBy(program, stack, forced)
           /\ control.arg \in Values /\ forces \in Nat
<1>1. /\ StackOK(program, stack, forced) /\ DepthOK(program, stack, forced)
      /\ HeapOK(program, apps, heap, stack)
      /\ ControlOK(program, stack, forced, control, forces)
  BY DEF ThunkInv
<1>2. heap \in [Values -> Nat \cup {Thunk, BlackHole}]  BY <1>1 DEF HeapOK
<1>3. HasOperand(program, stack) /\ control.arg = NeededBy(program, stack, forced)
      /\ forces \in Nat
  BY <1>1 DEF ControlOK
<1>4. NeededBy(program, stack, forced) \in Values  BY <1>1, <1>3, NeededFacts
<1>. QED  BY <1>1, <1>2, <1>3, <1>4

\* The evaluation of a value begins, whatever its heap cell becomes.
LEMMA StartStep ==
    ASSUME ThunkInv, control.mode = "force", Start(control.arg),
           heap' \in [Values -> Nat \cup {Thunk, BlackHole}],
           \A z \in Values :
              \/ heap'[z] = heap[z]
              \/ z = control.arg /\ heap'[z] = BlackHole /\ control.arg \notin apps
    PROVE  ThunkInv'
<1>. DEFINE y == control.arg
            f == [v |-> y, done |-> <<>>]
<1>1. /\ StackOK(program, stack, forced) /\ DepthOK(program, stack, forced)
      /\ HeapOK(program, apps, heap, stack)
      /\ HasOperand(program, stack) /\ y = NeededBy(program, stack, forced)
      /\ y \in Values /\ forces \in Nat
  BY ForcedIsNeeded
<1>2. /\ program' = program /\ apps' = apps /\ forced' = forced /\ forces' = forces
      /\ control' = CASE program[y].op = "number" -> Return(program[y].n)
                      [] program[y].op = "throw" -> Raise(Thrown)
                      [] OTHER -> Need(program[y].args[1])
  BY DEF Start
<1>3. stack' = Pushed(stack, f)  BY DEF Start, Pushed
<1>4. f \in Frames /\ f.v = y /\ f.done = <<>>  BY <1>1 DEF Frames
<1>5. Begins(program[y], control')
  <2>. DEFINE e == program[y]
              c == control'
  <2>1. c = CASE e.op = "number" -> Return(e.n)
              [] e.op = "throw" -> Raise(Thrown)
              [] OTHER -> Need(e.args[1])
    BY <1>2
  <2>. HIDE DEF c, e
  <2>2. Begins(e, c)  BY <2>1, BeginsFacts
  <2>. QED  BY <2>2 DEF c, e
<1>. HIDE DEF f
<1>6. /\ StackOK(program, stack', forced) /\ DepthOK(program, stack', forced)
      /\ HeapOK(program, apps, heap', stack')
      /\ ControlOK(program, stack', forced, control', forces)
  <2>. DEFINE r == stack'
              c == control'
              g == heap'
  <2>1. r = Pushed(stack, f) /\ Begins(program[y], c)  BY <1>3, <1>5
  <2>2. /\ g \in [Values -> Nat \cup {Thunk, BlackHole}]
        /\ \A z \in Values : \/ g[z] = heap[z]
                             \/ z = y /\ g[z] = BlackHole /\ y \notin apps
    OBVIOUS
  <2>. HIDE DEF r, c, g, y
  <2>3. /\ StackOK(program, r, forced) /\ DepthOK(program, r, forced)
        /\ HeapOK(program, apps, g, r) /\ ControlOK(program, r, forced, c, forces)
    BY <1>1, <1>4, <2>1, <2>2, StartOK
  <2>. QED  BY <2>3 DEF r, c, g
<1>. QED  BY <1>2, <1>6, ThunkInvNext

\* A black hole is put only where no application is, and goes on the stack.
LEMMA ForceThunkStep ==
    ASSUME ThunkInv, ForceThunk
    PROVE  ThunkInv'
<1>1. /\ control.mode = "force" /\ Start(control.arg) /\ control.arg \notin apps
      /\ heap' = [heap EXCEPT ![control.arg] = BlackHole]
  BY DEF ForceThunk
<1>2. heap \in [Values -> Nat \cup {Thunk, BlackHole}]  BY <1>1, ForcedIsNeeded
<1>3. heap' \in [Values -> Nat \cup {Thunk, BlackHole}]  BY <1>1, <1>2
<1>4. \A z \in Values :
         \/ heap'[z] = heap[z]
         \/ z = control.arg /\ heap'[z] = BlackHole /\ control.arg \notin apps
  BY <1>1, <1>2
<1>. QED  BY <1>1, <1>3, <1>4, StartStep

\* An infinite recursion is found.
LEMMA RecursionStep ==
    ASSUME ThunkInv, Meaning(program, forced) = Recursion, control' = Raise(Recursion),
           UNCHANGED <<program, apps, heap, stack, forced, forces>>
    PROVE  ThunkInv'
<1>1. /\ StackOK(program, stack, forced) /\ DepthOK(program, stack, forced)
      /\ HeapOK(program, apps, heap, stack) /\ forces \in Nat
  BY DEF ThunkInv, ControlOK
<1>2. control'.mode = "raise" /\ control'.arg = Recursion  BY DEF Raise
<1>3. ControlOK(program, stack, forced, control', forces)  BY <1>1, <1>2 DEF ControlOK
<1>. QED  BY <1>1, <1>3, ThunkInvNext

\* Past the limit on nested calls, some application is on the stack twice.
LEMMA ForceAppStep ==
    ASSUME ThunkInv, ForceApp
    PROVE  ThunkInv'
<1>1. control.mode = "force" /\ heap' = heap  BY DEF ForceApp
<1>2. /\ StackOK(program, stack, forced) /\ DepthOK(program, stack, forced)
      /\ HeapOK(program, apps, heap, stack)
      /\ heap \in [Values -> Nat \cup {Thunk, BlackHole}]
  BY <1>1, ForcedIsNeeded
<1>3. CASE Cardinality({i \in DOMAIN stack : stack[i].v \in apps}) > MaxCallDepth
  <2>1. /\ control' = Raise(Recursion)
        /\ UNCHANGED <<program, apps, heap, stack, forced, forces>>
    BY <1>3 DEF ForceApp
  <2>2. Meaning(program, forced) = Recursion  BY <1>2, <1>3, TooDeep
  <2>. QED  BY <2>1, <2>2, RecursionStep
<1>4. CASE ~ (Cardinality({i \in DOMAIN stack : stack[i].v \in apps}) > MaxCallDepth)
  <2>1. Start(control.arg)  BY <1>4 DEF ForceApp
  <2>. QED  BY <1>1, <1>2, <2>1, StartStep
<1>. QED  BY <1>3, <1>4

\* A black hole that is needed is on the stack.
LEMMA ForceBlackHoleStep ==
    ASSUME ThunkInv, ForceBlackHole
    PROVE  ThunkInv'
<1>1. /\ control.mode = "force" /\ heap[control.arg] = BlackHole
      /\ control' = Raise(Recursion)
      /\ UNCHANGED <<program, apps, heap, stack, forced, forces>>
  BY DEF ForceBlackHole
<1>2. /\ StackOK(program, stack, forced) /\ DepthOK(program, stack, forced)
      /\ HeapOK(program, apps, heap, stack)
      /\ HasOperand(program, stack) /\ heap[NeededBy(program, stack, forced)] = BlackHole
  BY <1>1, ForcedIsNeeded
<1>3. Meaning(program, forced) = Recursion  BY <1>2, NeededBlackHole
<1>. QED  BY <1>1, <1>3, RecursionStep

\* A number in the heap is what the value means.
LEMMA ForceForcedStep ==
    ASSUME ThunkInv, ForceForced
    PROVE  ThunkInv'
<1>1. /\ control.mode = "force" /\ heap[control.arg] \notin {Thunk, BlackHole}
      /\ control' = Return(heap[control.arg])
      /\ UNCHANGED <<program, apps, heap, stack, forced, forces>>
  BY DEF ForceForced
<1>2. /\ StackOK(program, stack, forced) /\ DepthOK(program, stack, forced)
      /\ HeapOK(program, apps, heap, stack)
      /\ heap \in [Values -> Nat \cup {Thunk, BlackHole}]
      /\ HasOperand(program, stack) /\ control.arg = NeededBy(program, stack, forced)
      /\ control.arg \in Values /\ forces \in Nat
  BY <1>1, ForcedIsNeeded
<1>3. heap[control.arg] \in Nat  BY <1>1, <1>2
<1>4. heap[control.arg] = Meaning(program, control.arg)  BY <1>2, <1>3 DEF HeapOK
<1>5. control'.mode = "return" /\ control'.arg = heap[control.arg]  BY <1>1 DEF Return
<1>6. ControlOK(program, stack, forced, control', forces)
  BY <1>2, <1>3, <1>4, <1>5 DEF ControlOK
<1>. QED  BY <1>1, <1>2, <1>6, ThunkInvNext

\* What is known when a number or an operand has been computed, or an exception raised.
LEMMA StepFacts ==
    ASSUME ThunkInv, stack # <<>>
    PROVE  /\ StackOK(program, stack, forced) /\ DepthOK(program, stack, forced)
           /\ HeapOK(program, apps, heap, stack)
           /\ ControlOK(program, stack, forced, control, forces) /\ forces \in Nat
           /\ program \in AllPrograms /\ Frame = Top(stack) /\ Top(stack) \in Frames
           /\ Top(stack).v \in Values /\ ExprOf(Frame) = program[Top(stack).v]
<1>1. /\ StackOK(program, stack, forced) /\ DepthOK(program, stack, forced)
      /\ HeapOK(program, apps, heap, stack)
      /\ ControlOK(program, stack, forced, control, forces)
  BY DEF ThunkInv
<1>2. forces \in Nat  BY <1>1 DEF ControlOK
<1>3. /\ program \in AllPrograms /\ Len(stack) \in 1 .. Len(stack)
      /\ Top(stack) = stack[Len(stack)] /\ Top(stack) \in Frames /\ Top(stack).v \in Values
  BY <1>1, StackFacts
<1>4. Frame = Top(stack) /\ ExprOf(Frame) = program[Top(stack).v]
  BY DEF Frame, Last, Top, ExprOf
<1>. QED  BY <1>1, <1>2, <1>3, <1>4

\* The expression at the top of the stack has its value.
LEMMA FinishStep ==
    ASSUME ThunkInv, stack # <<>>, NEW n \in Nat, n = Meaning(program, Top(stack).v),
           Finish(n), UNCHANGED <<program, apps, forced, forces>>
    PROVE  ThunkInv'
<1>. DEFINE r == stack'
            g == heap'
            c == control'
<1>1. /\ StackOK(program, stack, forced) /\ DepthOK(program, stack, forced)
      /\ HeapOK(program, apps, heap, stack) /\ forces \in Nat /\ Frame = Top(stack)
  BY StepFacts
<1>2. Finished(stack, n, heap, r, g, c)  BY <1>1 DEF Finish, Finished
<1>3. /\ StackOK(program, r, forced) /\ DepthOK(program, r, forced)
      /\ HeapOK(program, apps, g, r) /\ ControlOK(program, r, forced, c, forces)
  <2>. HIDE DEF r, g, c
  <2>. QED  BY <1>1, <1>2, FinishOK
<1>. QED  BY <1>3, ThunkInvNext

\* A number or an operand: the next operand is needed, or the value is there.
LEMMA ComputedStep ==
    ASSUME ThunkInv, Computed
    PROVE  ThunkInv'
<1>. DEFINE f == Top(stack)
            e == program[f.v]
            d == Append(f.done, control.arg)
            n == control.arg
<1>1. /\ control.mode \in {"return", "operand"} /\ stack # <<>>
      /\ UNCHANGED <<program, apps, forced, forces>>
  BY DEF Computed
<1>2. /\ StackOK(program, stack, forced) /\ DepthOK(program, stack, forced)
      /\ HeapOK(program, apps, heap, stack)
      /\ ControlOK(program, stack, forced, control, forces) /\ forces \in Nat
      /\ program \in AllPrograms /\ Frame = f /\ f \in Frames
      /\ f.v \in Values /\ ExprOf(Frame) = e
  BY <1>1, StepFacts
<1>3. /\ n \in Nat
      /\ \/ HasOperand(program, stack) /\ n = Meaning(program, NeededBy(program, stack, forced))
         \/ e.op = "number" /\ n = e.n
  BY <1>1, <1>2 DEF ControlOK
<1>4. /\ e.op = "number" => Finish(Combined(e, <<n>>))
      /\ e.op # "number" =>
            IF Len(d) < Len(e.args)
            THEN /\ stack' = [stack EXCEPT ![Len(stack)].done = d]
                 /\ control' = Need(e.args[Len(d) + 1]) /\ heap' = heap
            ELSE Finish(Combined(e, d))
  BY <1>2 DEF Computed
<1>5. e \in Expressions  BY <1>2 DEF AllPrograms
<1>6. CASE e.op = "number" /\ n = e.n
  <2>1. Combined(e, <<n>>) = n  BY <1>6 DEF Combined
  <2>2. n = Meaning(program, f.v)  BY <1>2, <1>6, MeaningCases
  <2>3. Finish(n)  BY <1>4, <1>6, <2>1
  <2>. HIDE DEF n
  <2>. QED  BY <1>1, <1>3, <2>2, <2>3, FinishStep
<1>7. CASE HasOperand(program, stack) /\ n = Meaning(program, NeededBy(program, stack, forced))
  <2>1. OperandsOf(program, f)  BY <1>1, <1>2, <1>7, StackFacts
  <2>2. e.op \in {"var", "try", "plus"}
    <3>. HIDE DEF f
    <3>. QED  BY <1>2, <2>1, OperandFacts
  <2>3. Args(program, f) = e.args  BY DEF Args
  <2>4. CASE Len(d) < Len(e.args)
    <3>. DEFINE r == stack'
    <3>1. r = [stack EXCEPT ![Len(stack)].done = d] /\ control' = Need(e.args[Len(d) + 1])
          /\ heap' = heap
      BY <1>4, <2>2, <2>4
    <3>2. /\ StackOK(program, r, forced) /\ DepthOK(program, r, forced)
          /\ HasOperand(program, r) /\ r # <<>>
          /\ NeededBy(program, r, forced) = Args(program, f)[Len(d) + 1]
          /\ Len(r) = Len(stack) /\ \A i \in 1 .. Len(stack) : r[i].v = stack[i].v
      <4>1. Advanced(program, stack, n, d, r)  BY <2>3, <2>4, <3>1 DEF Advanced
      <4>. HIDE DEF r, d, n, e
      <4>. QED  BY <1>1, <1>2, <1>3, <1>7, <3>1, <4>1, NextOperand
    <3>3. HeapOK(program, apps, heap, r)
      <4>. HIDE DEF r
      <4>. QED  BY <1>2, <3>2 DEF HeapOK
    <3>4. control'.mode = "force" /\ control'.arg = NeededBy(program, r, forced)
      BY <2>3, <3>1, <3>2 DEF Need
    <3>5. ControlOK(program, r, forced, control', forces)
      <4>. HIDE DEF r
      <4>. QED  BY <1>2, <3>2, <3>4 DEF ControlOK
    <3>. QED  BY <1>1, <3>1, <3>2, <3>3, <3>5, ThunkInvNext
  <2>5. CASE ~ (Len(d) < Len(e.args))
    <3>1. n = Meaning(program, Operand(program, f))  BY <1>1, <1>7 DEF NeededBy
    <3>2. Combined(program[f.v], d) = Meaning(program, f.v) /\ Meaning(program, f.v) \in Nat
      <4>1. d = Append(f.done, n) /\ ~ (Len(d) < Len(Args(program, f)))  BY <2>3, <2>5
      <4>. HIDE DEF f, d, n
      <4>. QED  BY <1>2, <1>3, <2>1, <3>1, <4>1, LastOperand
    <3>3. Finish(Combined(e, d))  BY <1>4, <2>2, <2>5
    <3>. DEFINE m == Combined(e, d)
    <3>4. m \in Nat /\ m = Meaning(program, Top(stack).v) /\ Finish(m)  BY <3>2, <3>3
    <3>. HIDE DEF m
    <3>. QED  BY <1>1, <3>4, FinishStep
  <2>. QED  BY <2>4, <2>5
<1>. QED  BY <1>3, <1>6, <1>7

\* A value computed before, forced from outside.
LEMMA ReturnForcedStep ==
    ASSUME ThunkInv, ReturnForced
    PROVE  ThunkInv'
<1>1. /\ control.mode = "return" /\ stack = <<>> /\ control' = Outcome(control.arg)
      /\ UNCHANGED <<program, apps, heap, stack, forced, forces>>
  BY DEF ReturnForced
<1>2. /\ StackOK(program, stack, forced) /\ DepthOK(program, stack, forced)
      /\ HeapOK(program, apps, heap, stack)
      /\ ControlOK(program, stack, forced, control, forces)
  BY DEF ThunkInv
<1>3. control.arg = Meaning(program, forced) /\ forces \in Nat
  BY <1>1, <1>2 DEF ControlOK, NeededBy
<1>4. control'.mode = "idle" /\ control'.arg = Meaning(program, forced)
  BY <1>1, <1>3 DEF Outcome
<1>5. ControlOK(program, stack, forced, control', forces)
  BY <1>1, <1>3, <1>4 DEF ControlOK
<1>. QED  BY <1>1, <1>2, <1>5, ThunkInvNext

\* What an exception of throw or assert tells of the last frame.
LEMMA ThrownFacts ==
    ASSUME ThunkInv, stack # <<>>, control.mode = "raise", control.arg = Thrown
    PROVE  Meaning(program, Top(stack).v) =
              IF program[Top(stack).v].op = "try" THEN 0 ELSE Thrown
<1>1. StackOK(program, stack, forced) /\ ControlOK(program, stack, forced, control, forces)
  BY DEF ThunkInv
<1>2. Thrown # Recursion  BY ThunksAssumption
<1>3. \/ /\ HasOperand(program, stack)
         /\ Meaning(program, NeededBy(program, stack, forced)) = Thrown
      \/ program[Top(stack).v].op = "throw"
  BY <1>1, <1>2 DEF ControlOK
<1>. QED  BY <1>1, <1>3, ExceptionOK

\* tryEval makes false, 0, of an exception of throw or assert.
LEMMA TryEvalStep ==
    ASSUME ThunkInv, TryEval
    PROVE  ThunkInv'
<1>1. /\ control = Raise(Thrown) /\ stack # <<>> /\ ExprOf(Frame).op = "try"
      /\ Finish(0) /\ UNCHANGED <<program, apps, forced, forces>>
  BY DEF TryEval
<1>2. control.mode = "raise" /\ control.arg = Thrown  BY <1>1 DEF Raise
<1>3. program[Top(stack).v].op = "try"  BY <1>1, StepFacts
<1>4. 0 = Meaning(program, Top(stack).v)  BY <1>1, <1>2, <1>3, ThrownFacts
<1>. QED  BY <1>1, <1>4, FinishStep

\* An exception that goes through a value is what the value means.
LEMMA UnwindStep ==
    ASSUME ThunkInv, Unwind
    PROVE  ThunkInv'
<1>. DEFINE r == stack'
            g == heap'
<1>1. /\ control.mode = "raise" /\ stack # <<>>
      /\ ~ (control.arg = Thrown /\ ExprOf(Frame).op = "try")
      /\ heap' = IF Frame.v \in apps THEN heap ELSE [heap EXCEPT ![Frame.v] = Thunk]
      /\ stack' = Front(stack)
      /\ UNCHANGED <<program, apps, control, forced, forces>>
  BY DEF Unwind, MkThunk
<1>2. /\ StackOK(program, stack, forced) /\ DepthOK(program, stack, forced)
      /\ HeapOK(program, apps, heap, stack)
      /\ ControlOK(program, stack, forced, control, forces) /\ forces \in Nat
      /\ Frame = Top(stack) /\ ExprOf(Frame) = program[Top(stack).v]
  BY <1>1, StepFacts
<1>3. /\ r = Front(stack)
      /\ g = [heap EXCEPT ![Top(stack).v] = Thunk] \/ (g = heap /\ Top(stack).v \in apps)
  BY <1>1, <1>2
<1>4. Thunk \in Nat \cup {Thunk} /\ Thunk \notin Nat  BY ThunksAssumption
<1>. HIDE DEF r, g
<1>5. /\ StackOK(program, r, forced) /\ DepthOK(program, r, forced)
      /\ HasOperand(program, r) /\ NeededBy(program, r, forced) = Top(stack).v
  BY <1>1, <1>2, <1>3, PopOK
<1>6. HeapOK(program, apps, g, r)  BY <1>1, <1>2, <1>3, <1>4, PopHeap
<1>7. ControlOK(program, r, forced, control, forces)
  <2>1. CASE control.arg = Thrown
    <3>1. Meaning(program, Top(stack).v) = Thrown
      BY <1>1, <1>2, <2>1, ThrownFacts
    <3>. QED  BY <1>1, <1>2, <1>5, <2>1, <3>1 DEF ControlOK
  <2>2. CASE control.arg # Thrown
    <3>1. control.arg = Recursion /\ Meaning(program, forced) = Recursion
      BY <1>1, <1>2, <2>2 DEF ControlOK
    <3>. QED  BY <1>1, <1>2, <3>1 DEF ControlOK
  <2>. QED  BY <2>1, <2>2
<1>. QED  BY <1>1, <1>5, <1>6, <1>7, ThunkInvNext DEF r, g

\* An exception that leaves the evaluator is what the value forced means.
LEMMA UncaughtStep ==
    ASSUME ThunkInv, Uncaught
    PROVE  ThunkInv'
<1>1. /\ control.mode = "raise" /\ stack = <<>> /\ control' = Outcome(control.arg)
      /\ UNCHANGED <<program, apps, heap, stack, forced, forces>>
  BY DEF Uncaught
<1>2. /\ StackOK(program, stack, forced) /\ DepthOK(program, stack, forced)
      /\ HeapOK(program, apps, heap, stack)
      /\ ControlOK(program, stack, forced, control, forces)
  BY DEF ThunkInv
<1>3. control.arg = Meaning(program, forced) /\ forces \in Nat
  BY <1>1, <1>2 DEF ControlOK, NeededBy
<1>4. control'.mode = "idle" /\ control'.arg = Meaning(program, forced)
  BY <1>1, <1>3 DEF Outcome
<1>5. ControlOK(program, stack, forced, control', forces)
  BY <1>1, <1>3, <1>4 DEF ControlOK
<1>. QED  BY <1>1, <1>2, <1>5, ThunkInvNext

\* The invariant holds at first and is kept by every step.
THEOREM ThunkInvariant == ThunksSpec => []ThunkInv
<1>1. ThunksInit => ThunkInv
  <2>. SUFFICES ASSUME ThunksInit PROVE ThunkInv
    OBVIOUS
  <2>1. /\ program \in Programs /\ apps \in AppSets /\ heap = [x \in Values |-> Thunk]
        /\ stack = <<>> /\ control = Outcome(Thunk)
        /\ forced = (CHOOSE x \in Values : TRUE) /\ forces = 0
    BY DEF ThunksInit
  <2>2. program \in [Values -> Expressions] /\ forced \in Values
    BY <2>1, ThunksAssumption
  <2>3. stack \in Seq(Frames) /\ Len(stack) = 0  BY <2>1
  <2>4. StackOK(program, stack, forced)  BY <2>1, <2>2, <2>3 DEF StackOK
  <2>5. DepthOK(program, stack, forced)  BY <2>3 DEF DepthOK
  <2>6. apps \in SUBSET Values /\ Cardinality(apps) <= MaxCallDepth
    BY <2>1, ThunksAssumption
  <2>7. HeapOK(program, apps, heap, stack)
    <3>1. Thunk \notin Nat /\ Thunk # BlackHole  BY ThunksAssumption
    <3>. QED  BY <2>1, <2>6, <3>1 DEF HeapOK
  <2>8. ControlOK(program, stack, forced, control, forces)
    BY <2>1 DEF ControlOK, Outcome
  <2>. QED  BY <2>4, <2>5, <2>7, <2>8 DEF ThunkInv
<1>2. ThunkInv /\ [ThunksNext]_thunkVars => ThunkInv'
  <2>. SUFFICES ASSUME ThunkInv, [ThunksNext]_thunkVars PROVE ThunkInv'
    OBVIOUS
  <2>1. CASE \E x \in Values : ForceFromOutside(x)  BY <2>1, ForceFromOutsideStep
  <2>2. CASE ForceThunk  BY <2>2, ForceThunkStep
  <2>3. CASE ForceApp  BY <2>3, ForceAppStep
  <2>4. CASE ForceBlackHole  BY <2>4, ForceBlackHoleStep
  <2>5. CASE ForceForced  BY <2>5, ForceForcedStep
  <2>6. CASE Computed  BY <2>6, ComputedStep
  <2>7. CASE ReturnForced  BY <2>7, ReturnForcedStep
  <2>8. CASE TryEval  BY <2>8, TryEvalStep
  <2>9. CASE Unwind  BY <2>9, UnwindStep
  <2>10. CASE Uncaught  BY <2>10, UncaughtStep
  <2>11. CASE UNCHANGED thunkVars  BY <2>11 DEF thunkVars, ThunkInv
  <2>. QED
    BY <2>1, <2>2, <2>3, <2>4, <2>5, <2>6, <2>7, <2>8, <2>9, <2>10, <2>11 DEF ThunksNext
<1>. QED  BY <1>1, <1>2, PTL DEF ThunksSpec

\* Forcing a value gives what the value means, a number or an exception, whatever has
\* been forced before it, for every program and every set of applications.
THEOREM ForcingAgrees == ThunksSpec => []ForcedAgrees
<1>1. ThunkInv => ForcedAgrees  BY DEF ThunkInv, ControlOK, ForcedAgrees
<1>. QED  BY <1>1, ThunkInvariant, PTL
=============================================================================
