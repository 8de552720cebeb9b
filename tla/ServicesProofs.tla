--------------------------- MODULE ServicesProofs ---------------------------
(***************************************************************************)
(* What serves others: the download thread, the build hook, the daemon and *)
(* the sinks for references.  For any downloads, resources, buffers and    *)
(* numbers of tries; any hooks, machines, slots and speed factors; any     *)
(* operations, frames, log messages and socket buffers; any hashes and     *)
(* streams in any fragments.                                               *)
(***************************************************************************)
EXTENDS FileTransfer, BuildHook, DaemonProtocol, References, Integers, FiniteSetTheorems,
        SequenceTheorems, WellFoundedInduction, TLAPS

(***************************************************************************)
(* FileTransfer: CallbackOnce and SinkExact                                *)
(***************************************************************************)
Points == {"none", "loop", "look", "sink", "waiting", "woken", "unpausing", "returned", "threw"}

ItemRecords ==
    [calls : Nat, attempt : Nat, written : Nat, paused : BOOLEAN, curlPaused : BOOLEAN,
     embargo : BOOLEAN, resp : {"none", "ok", "resumed", "error"}, ranges : BOOLEAN,
     encoded : BOOLEAN, pos : Nat]

DownloadRecords ==
    [pc : Points, quit : BOOLEAN, exc : BOOLEAN, paused : BOOLEAN, data : Seq(Nat), sink : Seq(Nat)]

TransferTypes ==
    /\ res \in [Downloads -> [ranges : BOOLEAN, encoded : BOOLEAN]]
    /\ it \in [Downloads -> ItemRecords]
    /\ dl \in [Downloads -> DownloadRecords]
    /\ incoming \in SUBSET Downloads /\ unpause \in SUBSET Downloads
    /\ items \in SUBSET Downloads /\ toUnpause \in SUBSET Downloads
    /\ dying \in [{"worker", "signal"} -> SUBSET Downloads]

Dying(d) == d \in dying["worker"] \/ d \in dying["signal"]

\* An item that is queued, active or being destroyed is in one place, and its
\* callback has not been called; nobody refers to an item that is being destroyed.
CallInv(d) ==
    /\ it[d].calls \in {0, 1}
    /\ d \in incoming \/ d \in items \/ Dying(d) => it[d].calls = 0
    /\ ~(d \in items /\ d \in incoming)
    /\ ~(d \in dying["worker"] /\ d \in dying["signal"])
    /\ Dying(d) => ~Referenced(d) /\ dl[d].pc \notin {"none", "unpausing"}
    /\ dl[d].pc = "none" => ~Referenced(d) /\ it[d].calls = 0 /\ ~dl[d].quit
    /\ dl[d].quit /\ dl[d].pc # "threw" => it[d].calls = 1
    /\ dl[d].pc = "returned" => dl[d].quit

Got(d) == dl[d].sink \o dl[d].data

\* The caller has got what the item has written, a response starts where the last
\* one ended, and a resource that is encoded is not resumed.
SinkInv(d) ==
    /\ \A i \in 1 .. Len(Got(d)) : Got(d)[i] = i
    /\ ~dl[d].quit => Len(Got(d)) = it[d].written
    /\ it[d].resp \in {"ok", "resumed"} =>
          it[d].pos = it[d].written /\ (it[d].encoded <=> res[d].encoded)
    /\ it[d].resp = "resumed" => ~res[d].encoded
    /\ it[d].written > 0 /\ (it[d].resp # "ok" \/ d \in incoming) => ~res[d].encoded
    /\ dl[d].quit /\ ~dl[d].exc /\ dl[d].pc # "threw" => Len(Got(d)) = Size
    /\ dl[d].pc = "returned" => Len(dl[d].sink) = Size
    /\ dl[d].pc = "none" => it[d].written = 0

TransferInv == TransferTypes /\ \A d \in Downloads : CallInv(d) /\ SinkInv(d)

-----------------------------------------------------------------------------
(* What a step leaves alone                                                *)

\* The step does not touch download e.
Same(e) ==
    /\ it'[e] = it[e] /\ dl'[e] = dl[e]
    /\ e \in incoming' <=> e \in incoming
    /\ e \in unpause' <=> e \in unpause
    /\ e \in items' <=> e \in items
    /\ e \in toUnpause' <=> e \in toUnpause
    /\ e \in dying'["worker"] <=> e \in dying["worker"]
    /\ e \in dying'["signal"] <=> e \in dying["signal"]

\* A step that does not touch a download keeps what is said of it.
LEMMA SameKept ==
    ASSUME NEW e \in Downloads, CallInv(e), SinkInv(e), Same(e), res' = res
    PROVE  CallInv(e)' /\ SinkInv(e)'
<1>1. CallInv(e)'
  BY DEF CallInv, Same, Dying, Referenced
<1>2. SinkInv(e)'
  BY DEF SinkInv, Same, Got
<1> QED
  BY <1>1, <1>2

\* It is enough to look at the download that a step is about.
LEMMA OneDownload ==
    ASSUME TransferInv, TransferTypes', NEW d \in Downloads, res' = res,
           \A e \in Downloads \ {d} : Same(e), CallInv(d)', SinkInv(d)'
    PROVE  TransferInv'
<1>1. \A e \in Downloads \ {d} : CallInv(e)' /\ SinkInv(e)'
  BY SameKept DEF TransferInv
<1> QED
  BY <1>1 DEF TransferInv

\* Nothing is added by an empty buffer.
LEMMA ConcatEmpty == \A q \in Seq(Nat) : q \o <<>> = q
  OBVIOUS

\* The initial states satisfy TransferInv.
LEMMA TransferInitInv == TransferInit => TransferInv
<1> SUFFICES ASSUME TransferInit
             PROVE  TransferInv
  OBVIOUS
<1> DEFINE i0 == [calls |-> 0, attempt |-> 0, written |-> 0, paused |-> FALSE,
                  curlPaused |-> FALSE, embargo |-> FALSE, resp |-> "none",
                  ranges |-> FALSE, encoded |-> FALSE, pos |-> 0]
           d0 == [pc |-> "none", quit |-> FALSE, exc |-> FALSE, paused |-> FALSE,
                  data |-> <<>>, sink |-> <<>>]
<1>1. i0 \in ItemRecords /\ i0.calls = 0 /\ i0.written = 0 /\ i0.resp = "none"
  BY DEF ItemRecords
<1>2. d0 \in DownloadRecords /\ d0.pc = "none" /\ ~d0.quit /\ d0.data = <<>> /\ d0.sink = <<>>
  BY DEF DownloadRecords, Points
<1>3. it = [d \in Downloads |-> i0] /\ dl = [d \in Downloads |-> d0]
  BY DEF TransferInit
<1> HIDE DEF i0, d0
<1>4. it \in [Downloads -> ItemRecords] /\ dl \in [Downloads -> DownloadRecords]
  BY <1>1, <1>2, <1>3
<1>5. TransferTypes
  BY <1>4 DEF TransferInit, TransferTypes
<1>6. \A d \in Downloads : ~Referenced(d) /\ ~Dying(d)
  BY DEF TransferInit, Referenced, Dying
<1>7. \A d \in Downloads : Len(Got(d)) = 0
  <2>1. \A d \in Downloads : Got(d) = <<>> \o <<>>
    BY <1>2, <1>3 DEF Got
  <2>2. <<>> \o <<>> = <<>> /\ Len(<<>>) = 0
    BY ConcatEmpty
  <2> QED
    BY <2>1, <2>2
<1>8. \A d \in Downloads : CallInv(d)
  BY <1>1, <1>2, <1>3, <1>6 DEF CallInv, Dying, Referenced
<1>9. \A d \in Downloads : SinkInv(d)
  BY <1>1, <1>2, <1>3, <1>7 DEF SinkInv
<1> QED
  BY <1>5, <1>8, <1>9 DEF TransferInv

\* What TransferInv says of one download.
LEMMA DownloadFields ==
    ASSUME TransferInv, NEW d \in Downloads
    PROVE  /\ it[d] \in ItemRecords /\ dl[d] \in DownloadRecords
           /\ it \in [Downloads -> ItemRecords] /\ dl \in [Downloads -> DownloadRecords]
           /\ res[d] \in [ranges : BOOLEAN, encoded : BOOLEAN]
           /\ CallInv(d) /\ SinkInv(d)
           /\ dl[d].data \in Seq(Nat) /\ dl[d].sink \in Seq(Nat) /\ Got(d) \in Seq(Nat)
<1>1. dl[d] \in DownloadRecords /\ it[d] \in ItemRecords
  BY DEF TransferInv, TransferTypes
<1>2. dl[d].data \in Seq(Nat) /\ dl[d].sink \in Seq(Nat)
  BY <1>1 DEF DownloadRecords
<1>3. Got(d) \in Seq(Nat)
  BY <1>2 DEF Got
<1> QED
  BY <1>1, <1>2, <1>3 DEF TransferInv, TransferTypes

-----------------------------------------------------------------------------
(* The calling thread                                                      *)

\* A move of the calling thread, that may leave the loop or wait.
LEMMA GotoInv ==
    ASSUME TransferInv, NEW d \in Downloads, NEW label \in Points \ {"none"},
           dl' = MoveTo(d, label), UNCHANGED <<res, it, unpause, items, toUnpause, dying>>,
           incoming' = incoming \/ (incoming' = incoming \cup {d} /\ dl[d].pc = "none"),
           dl[d].pc \notin {"threw", "returned"},
           label = "returned" => dl[d].quit /\ ~dl[d].exc /\ dl[d].data = <<>>,
           label = "unpausing" => Referenced(d)
    PROVE  TransferInv'
<1> DEFINE s == [dl[d] EXCEPT !.pc = label, !.quit = @ \/ label = "threw"]
<1>1. s \in DownloadRecords /\ s.pc = label /\ (s.quit <=> dl[d].quit \/ label = "threw")
      /\ s.exc = dl[d].exc /\ s.data = dl[d].data /\ s.sink = dl[d].sink
  BY DownloadFields DEF DownloadRecords, Points
<1>2. dl' = [dl EXCEPT ![d] = s]
  BY DownloadFields DEF MoveTo
<1> HIDE DEF s
<1>3. dl' \in [Downloads -> DownloadRecords] /\ dl'[d] = s
      /\ \A e \in Downloads \ {d} : dl'[e] = dl[e]
  BY <1>1, <1>2, DownloadFields
<1>4. incoming' \in SUBSET Downloads /\ (\A e \in Downloads \ {d} : e \in incoming' <=> e \in incoming)
  BY DEF TransferInv, TransferTypes
<1>5. TransferTypes'
  BY <1>3, <1>4 DEF TransferInv, TransferTypes
<1>6. \A e \in Downloads \ {d} : Same(e)
  BY <1>3, <1>4 DEF Same
<1>7. CallInv(d)'
  <2>1. CallInv(d)
    BY DownloadFields
  <2>2. Dying(d)' <=> Dying(d)
    BY DEF Dying
  <2>3. Dying(d) => ~Referenced(d)' /\ label # "unpausing"
    BY <2>1 DEF CallInv, Referenced
  <2>4. d \in incoming' => d \notin items /\ it[d].calls = 0
    BY <2>1 DEF CallInv, Referenced
  <2> QED
    BY <1>1, <1>3, <2>1, <2>2, <2>3, <2>4 DEF CallInv
<1>8. SinkInv(d)'
  <2>1. SinkInv(d)
    BY DownloadFields
  <2>2. Got(d)' = Got(d) /\ dl'[d].sink = dl[d].sink
    BY <1>1, <1>3 DEF Got
  <2>3. label = "returned" => Len(dl[d].sink) = Size
    <3>1. label = "returned" => Len(Got(d)) = Size
      BY <2>1 DEF SinkInv
    <3>2. label = "returned" => Got(d) = dl[d].sink
      BY DownloadFields, ConcatEmpty DEF Got
    <3> QED
      BY <3>1, <3>2
  <2>4. it[d].written > 0 /\ (it[d].resp # "ok" \/ d \in incoming') => ~res[d].encoded
    BY <2>1, DownloadFields DEF SinkInv, ItemRecords
  <2> QED
    BY <1>1, <1>3, <2>1, <2>2, <2>3, <2>4 DEF SinkInv
<1> QED
  BY <1>5, <1>6, <1>7, <1>8, OneDownload

\* The steps of download() that only move the thread keep TransferInv.
LEMMA MovesInv ==
    ASSUME TransferInv, NEW d \in Downloads,
           StartDownload(d) \/ CheckInterrupt(d) \/ SinkReturns(d) \/ Look(d) \/ WokenForNothing(d)
    PROVE  TransferInv'
<1>1. CASE StartDownload(d)
  <2> DEFINE label == IF quitting THEN "threw" ELSE "loop"
  <2>1. label \in Points \ {"none"} /\ label \notin {"returned", "unpausing"} /\ dl' = MoveTo(d, label)
    BY <1>1 DEF StartDownload, Points
  <2> QED
    BY <1>1, <2>1, GotoInv DEF StartDownload, worker, others
<1>2. CASE CheckInterrupt(d)
  <2> DEFINE label == IF interrupted THEN "threw" ELSE "look"
  <2>1. label \in Points \ {"none"} /\ label \notin {"returned", "unpausing"} /\ dl' = MoveTo(d, label)
    BY <1>2 DEF CheckInterrupt, Points
  <2> QED
    BY <1>2, <2>1, GotoInv DEF CheckInterrupt, queues, worker, others
<1>3. CASE SinkReturns(d)
  <2>1. PICK label \in {"loop", "threw"} : dl' = MoveTo(d, label)
    BY <1>3 DEF SinkReturns
  <2>2. label \in Points \ {"none"}
    BY <2>1 DEF Points
  <2> QED
    BY <1>3, <2>1, <2>2, GotoInv DEF SinkReturns, queues, worker, others
<1>4. CASE Look(d)
  <2> DEFINE label == IF dl[d].quit THEN IF dl[d].exc THEN "threw" ELSE "returned"
                      ELSE IF ~dl[d].paused THEN "waiting"
                      ELSE IF Referenced(d) THEN "unpausing" ELSE "threw"
  <2>1. label \in Points \ {"none"} /\ dl' = MoveTo(d, label)
        /\ dl[d].pc = "look" /\ dl[d].data = <<>>
    BY <1>4 DEF Look, Points
  <2>2. (label = "returned" => dl[d].quit /\ ~dl[d].exc) /\ (label = "unpausing" => Referenced(d))
    OBVIOUS
  <2>3. UNCHANGED <<it, queues, worker, others>>
    BY <1>4 DEF Look
  <2> HIDE DEF label
  <2> QED
    BY <2>1, <2>2, <2>3, GotoInv DEF queues, worker, others
<1>5. CASE WokenForNothing(d)
  <2>1. "loop" \in Points \ {"none"}
    BY DEF Points
  <2> QED
    BY <1>5, <2>1, GotoInv DEF WokenForNothing, queues, worker, others
<1> QED
  BY <1>1, <1>2, <1>3, <1>4, <1>5

\* Moving the buffer to the sink keeps TransferInv: nothing is lost or reordered.
LEMMA TakeDataInv == ASSUME TransferInv, NEW d \in Downloads, TakeData(d) PROVE TransferInv'
<1> DEFINE s == [dl[d] EXCEPT !.pc = "sink", !.data = <<>>, !.sink = @ \o dl[d].data]
<1>1. dl[d].pc \in {"look", "woken"} /\ UNCHANGED <<res, it, incoming, unpause, items, toUnpause, dying>>
  BY DEF TakeData, queues, worker, others
<1>2. s \in DownloadRecords /\ s.pc = "sink" /\ s.quit = dl[d].quit
      /\ s.exc = dl[d].exc /\ s.data = <<>> /\ s.sink = Got(d)
  <2>1. <<>> \in Seq(Nat) /\ dl[d].sink \o dl[d].data = Got(d)
    BY DEF Got
  <2> QED
    BY <2>1, DownloadFields DEF DownloadRecords, Points
<1>3. dl' = [dl EXCEPT ![d] = s]
  BY DownloadFields DEF TakeData
<1> HIDE DEF s
<1>4. dl' \in [Downloads -> DownloadRecords] /\ dl'[d] = s
      /\ \A e \in Downloads \ {d} : dl'[e] = dl[e]
  BY <1>2, <1>3, DownloadFields
<1>5. TransferTypes'
  BY <1>1, <1>4 DEF TransferInv, TransferTypes
<1>6. \A e \in Downloads \ {d} : Same(e)
  BY <1>1, <1>4 DEF Same
<1>7. CallInv(d)'
  BY <1>1, <1>2, <1>4, DownloadFields DEF CallInv, Dying, Referenced
<1>8. Got(d)' = Got(d)
  <2>1. Got(d)' = Got(d) \o <<>> /\ Got(d) \in Seq(Nat)
    BY <1>2, <1>4, DownloadFields DEF Got
  <2> QED
    BY <2>1, ConcatEmpty
<1>9. SinkInv(d)'
  BY <1>1, <1>2, <1>4, <1>8, DownloadFields DEF SinkInv
<1> QED
  BY <1>1, <1>5, <1>6, <1>7, <1>9, OneDownload

\* unpauseTransfer keeps TransferInv.
LEMMA UnpauseTransferInv ==
    ASSUME TransferInv, NEW d \in Downloads, UnpauseTransfer(d) PROVE TransferInv'
<1> DEFINE s == [dl[d] EXCEPT !.paused = FALSE, !.pc = "waiting"]
<1>1. dl[d].pc = "unpausing" /\ unpause' = unpause \cup {d}
      /\ UNCHANGED <<res, it, incoming, items, toUnpause, dying>>
  BY DEF UnpauseTransfer, worker, others
<1>2. s \in DownloadRecords /\ s.pc = "waiting" /\ s.quit = dl[d].quit
      /\ s.exc = dl[d].exc /\ s.data = dl[d].data /\ s.sink = dl[d].sink
  BY DownloadFields DEF DownloadRecords, Points
<1>3. dl' = [dl EXCEPT ![d] = s]
  BY DownloadFields DEF UnpauseTransfer
<1> HIDE DEF s
<1>4. dl' \in [Downloads -> DownloadRecords] /\ dl'[d] = s
      /\ \A e \in Downloads \ {d} : dl'[e] = dl[e]
  BY <1>2, <1>3, DownloadFields
<1>5. TransferTypes'
  BY <1>1, <1>4 DEF TransferInv, TransferTypes
<1>6. \A e \in Downloads \ {d} : Same(e)
  BY <1>1, <1>4 DEF Same
<1>7. CallInv(d)'
  BY <1>1, <1>2, <1>4, DownloadFields DEF CallInv, Dying, Referenced
<1>8. SinkInv(d)'
  BY <1>1, <1>2, <1>4, DownloadFields DEF SinkInv, Got
<1> QED
  BY <1>1, <1>5, <1>6, <1>7, <1>8, OneDownload

-----------------------------------------------------------------------------
(* The callbacks of libcurl                                                *)

\* A step that changes the item but not what it counts, and may put it back into
\* the queue if it can be started again, keeps TransferInv.
LEMMA ItemInv ==
    ASSUME TransferInv, NEW d \in Downloads, NEW r \in ItemRecords,
           it' = [it EXCEPT ![d] = r], UNCHANGED <<res, dl, unpause, toUnpause, dying>>,
           r.calls = it[d].calls, r.written = it[d].written,
           incoming' \in SUBSET Downloads, items' \in SUBSET Downloads,
           \A e \in Downloads \ {d} : (e \in incoming' <=> e \in incoming) /\ (e \in items' <=> e \in items),
           d \in incoming' \/ d \in items' <=> d \in incoming \/ d \in items,
           ~(d \in incoming' /\ d \in items'),
           r.resp \in {"ok", "resumed"} =>
              r.pos = it[d].written /\ (r.encoded <=> res[d].encoded),
           r.resp = "resumed" => ~res[d].encoded,
           it[d].written > 0 /\ (r.resp # "ok" \/ d \in incoming') => ~res[d].encoded
    PROVE  TransferInv'
<1>1. it' \in [Downloads -> ItemRecords] /\ it'[d] = r /\ \A e \in Downloads \ {d} : it'[e] = it[e]
  BY DownloadFields
<1>2. TransferTypes'
  BY <1>1 DEF TransferInv, TransferTypes
<1>3. \A e \in Downloads \ {d} : Same(e)
  BY <1>1 DEF Same
<1>4. CallInv(d)'
  BY <1>1, DownloadFields DEF CallInv, Dying, Referenced
<1>5. SinkInv(d)'
  BY <1>1, DownloadFields DEF SinkInv, Got
<1> QED
  BY <1>2, <1>3, <1>4, <1>5, OneDownload

\* The headers of a response keep TransferInv.
LEMMA HeadersInv == ASSUME TransferInv, NEW d \in Downloads, Headers(d) PROVE TransferInv'
<1>1. d \in items /\ it[d].resp = "none"
      /\ UNCHANGED <<res, dl, incoming, items, unpause, toUnpause, dying>>
  BY DEF Headers, queues, worker, others
<1>2. it[d] \in ItemRecords /\ res[d] \in [ranges : BOOLEAN, encoded : BOOLEAN]
      /\ CallInv(d) /\ SinkInv(d) /\ it[d].written \in Nat
  BY DownloadFields DEF ItemRecords
<1>3. CASE /\ it[d].written = 0 \/ res[d].ranges
           /\ it' = [it EXCEPT ![d].resp = IF it[d].written = 0 THEN "ok" ELSE "resumed",
                     ![d].pos = it[d].written,
                     ![d].ranges = res[d].ranges, ![d].encoded = res[d].encoded]
  <2> DEFINE resp == IF it[d].written = 0 THEN "ok" ELSE "resumed"
             r == [it[d] EXCEPT !.resp = resp, !.pos = it[d].written,
                                !.ranges = res[d].ranges, !.encoded = res[d].encoded]
  <2>1. resp \in {"ok", "resumed"} /\ (resp = "ok" <=> it[d].written = 0)
    OBVIOUS
  <2>2. it' = [it EXCEPT ![d] = r]
    BY <1>3, DownloadFields
  <2> HIDE DEF resp
  <2>3. r \in ItemRecords /\ r.calls = it[d].calls /\ r.written = it[d].written
        /\ r.resp = resp /\ r.pos = it[d].written /\ r.encoded = res[d].encoded
    BY <1>2, <2>1 DEF ItemRecords
  <2> HIDE DEF r
  <2>4. it[d].written > 0 => ~res[d].encoded
    BY <1>1, <1>2 DEF SinkInv
  <2>5. resp = "resumed" => ~res[d].encoded
    BY <1>2, <2>1, <2>4
  <2>6. d \notin incoming /\ incoming' \in SUBSET Downloads /\ items' \in SUBSET Downloads
    BY <1>1, <1>2 DEF CallInv, TransferInv, TransferTypes
  <2> QED
    BY <1>1, <1>2, <2>1, <2>2, <2>3, <2>4, <2>5, <2>6, ItemInv
<1>4. CASE \E ranges \in BOOLEAN :
             it' = [it EXCEPT ![d].resp = "error", ![d].ranges = ranges, ![d].encoded = FALSE]
  <2>1. PICK ranges \in BOOLEAN :
          it' = [it EXCEPT ![d].resp = "error", ![d].ranges = ranges, ![d].encoded = FALSE]
    BY <1>4
  <2> DEFINE r == [it[d] EXCEPT !.resp = "error", !.ranges = ranges, !.encoded = FALSE]
  <2>2. it' = [it EXCEPT ![d] = r]
    BY <2>1, DownloadFields
  <2>3. r \in ItemRecords /\ r.calls = it[d].calls /\ r.written = it[d].written /\ r.resp = "error"
    BY <1>2 DEF ItemRecords
  <2> HIDE DEF r
  <2>4. it[d].written > 0 => ~res[d].encoded
    BY <1>1, <1>2 DEF SinkInv
  <2>5. d \notin incoming /\ incoming' \in SUBSET Downloads /\ items' \in SUBSET Downloads
    BY <1>1, <1>2 DEF CallInv, TransferInv, TransferTypes
  <2> QED
    BY <1>1, <1>2, <2>2, <2>3, <2>4, <2>5, ItemInv
<1> QED
  BY <1>3, <1>4 DEF Headers

\* A retry keeps TransferInv: a resource that is encoded starts again only if
\* nothing has been written.
LEMMA RetryInv == ASSUME TransferInv, NEW d \in Downloads, Retry(d) PROVE TransferInv'
<1> DEFINE r == [it[d] EXCEPT !.attempt = @ + 1, !.embargo = TRUE]
<1>1. d \in items /\ MayRetry(d) /\ incoming' = incoming \cup {d} /\ items' = items \ {d}
      /\ UNCHANGED <<res, dl, unpause, toUnpause, dying>>
  BY DEF Retry, others
<1>2. it[d] \in ItemRecords /\ CallInv(d) /\ SinkInv(d) /\ it[d].written \in Nat
      /\ it[d].attempt + 1 \in Nat
  BY DownloadFields DEF ItemRecords
<1>3. it' = [it EXCEPT ![d] = r]
  BY DownloadFields DEF Retry
<1>4. r \in ItemRecords /\ r.calls = it[d].calls /\ r.written = it[d].written /\ r.resp = it[d].resp
      /\ r.pos = it[d].pos /\ r.encoded = it[d].encoded
  BY <1>2 DEF ItemRecords
<1> HIDE DEF r
<1>5. it[d].written > 0 => ~res[d].encoded
  BY <1>1, <1>2 DEF MayRetry, SinkInv
<1>6. incoming' \in SUBSET Downloads /\ items' \in SUBSET Downloads
  BY <1>1 DEF TransferInv, TransferTypes
<1> QED
  BY <1>1, <1>2, <1>3, <1>4, <1>5, <1>6, ItemInv DEF SinkInv

\* The end of an embargo keeps TransferInv.
LEMMA EmbargoEndsInv == ASSUME TransferInv, NEW d \in Downloads, EmbargoEnds(d) PROVE TransferInv'
<1> DEFINE r == [it[d] EXCEPT !.embargo = FALSE]
<1>1. UNCHANGED <<res, dl, incoming, items, unpause, toUnpause, dying>>
  BY DEF EmbargoEnds, queues, worker, others
<1>2. it[d] \in ItemRecords /\ CallInv(d) /\ SinkInv(d)
  BY DownloadFields
<1>3. it' = [it EXCEPT ![d] = r]
  BY DownloadFields DEF EmbargoEnds
<1>4. r \in ItemRecords /\ r.calls = it[d].calls /\ r.written = it[d].written /\ r.resp = it[d].resp
      /\ r.pos = it[d].pos /\ r.encoded = it[d].encoded
  BY <1>2 DEF ItemRecords
<1> HIDE DEF r
<1>5. incoming' \in SUBSET Downloads /\ items' \in SUBSET Downloads /\ ~(d \in incoming /\ d \in items)
  BY <1>1, <1>2 DEF TransferInv, TransferTypes, CallInv
<1> QED
  BY <1>1, <1>2, <1>3, <1>4, <1>5, ItemInv DEF SinkInv

\* A chunk added to the buffer is added to what the caller gets.
LEMMA GotAppend ==
    ASSUME NEW q \in Seq(Nat), NEW b \in Seq(Nat), NEW x \in Nat
    PROVE  /\ Len(q \o Append(b, x)) = Len(q \o b) + 1
           /\ (q \o Append(b, x))[Len(q \o b) + 1] = x
           /\ \A i \in 1 .. Len(q \o b) : (q \o Append(b, x))[i] = (q \o b)[i]
           /\ Append(b, x) \in Seq(Nat)
<1>1. Append(b, x) \in Seq(Nat) /\ Len(Append(b, x)) = Len(b) + 1
      /\ Append(b, x)[Len(b) + 1] = x /\ \A i \in 1 .. Len(b) : Append(b, x)[i] = b[i]
  OBVIOUS
<1>2. \A c \in Seq(Nat) : Len(q \o c) = Len(q) + Len(c)
      /\ \A i \in 1 .. Len(q) + Len(c) :
            (q \o c)[i] = IF i <= Len(q) THEN q[i] ELSE c[i - Len(q)]
  OBVIOUS
<1>3. Len(q) \in Nat /\ Len(b) \in Nat
  OBVIOUS
<1> DEFINE a == Append(b, x)
<1> HIDE DEF a
<1>4. Len(q \o a) = Len(q) + Len(b) + 1 /\ Len(q \o b) = Len(q) + Len(b)
  BY <1>1, <1>2, <1>3 DEF a
<1>5. (q \o a)[Len(q) + Len(b) + 1] = x
  <2>1. Len(q) + Len(b) + 1 \in 1 .. Len(q) + Len(a) /\ ~(Len(q) + Len(b) + 1 <= Len(q))
        /\ Len(q) + Len(b) + 1 - Len(q) = Len(b) + 1
    BY <1>1, <1>3 DEF a
  <2>2. (q \o a)[Len(q) + Len(b) + 1] = a[Len(q) + Len(b) + 1 - Len(q)]
    BY <1>1, <1>2, <2>1 DEF a
  <2> QED
    BY <1>1, <2>1, <2>2 DEF a
<1>6. ASSUME NEW i \in 1 .. Len(q) + Len(b)
      PROVE  (q \o a)[i] = (q \o b)[i]
  <2>1. i \in 1 .. Len(q) + Len(a) /\ i \in Int
    BY <1>1, <1>3 DEF a
  <2>2. CASE i <= Len(q)
    BY <1>1, <1>2, <2>1, <2>2 DEF a
  <2>3. CASE ~(i <= Len(q))
    <3>1. i - Len(q) \in 1 .. Len(b)
      BY <1>3, <2>1, <2>3
    <3>2. (q \o a)[i] = a[i - Len(q)] /\ (q \o b)[i] = b[i - Len(q)]
      BY <1>1, <1>2, <2>1, <2>3 DEF a
    <3> QED
      BY <1>1, <3>1, <3>2 DEF a
  <2> QED
    BY <2>2, <2>3
<1> QED
  BY <1>1, <1>4, <1>5, <1>6 DEF a

\* writeCallback keeps TransferInv: the chunk is the next one of the resource.
LEMMA WriteInv ==
    ASSUME TransferInv, NEW d \in items, NEW paused \in BOOLEAN, WriteCallback(d, paused),
           UNCHANGED <<res, incoming, unpause, items, dying>>,
           toUnpause' \in SUBSET toUnpause,
           \A e \in Downloads \ {d} : e \in toUnpause' <=> e \in toUnpause
    PROVE  TransferInv'
<1> DEFINE r == [it[d] EXCEPT !.pos = @ + 1, !.written = @ + 1, !.paused = paused,
                              !.curlPaused = it[d].paused \/ Full(d)]
           x == IF it[d].encoded /\ it[d].resp = "resumed" THEN 0 ELSE it[d].pos + 1
           s == [dl[d] EXCEPT !.data = Append(@, x), !.pc = Notified(@), !.paused = @ \/ Full(d)]
<1>1. d \in Downloads
  BY DEF TransferInv, TransferTypes
<1>2. it[d] \in ItemRecords /\ CallInv(d) /\ SinkInv(d) /\ dl[d] \in DownloadRecords
      /\ it \in [Downloads -> ItemRecords] /\ dl \in [Downloads -> DownloadRecords]
      /\ dl[d].data \in Seq(Nat) /\ dl[d].sink \in Seq(Nat)
  BY <1>1, DownloadFields
<1>3. it[d].resp \in {"ok", "resumed"} /\ it' = [it EXCEPT ![d] = r] /\ Unlocked(d)
      /\ dl' = IF dl[d].quit THEN dl ELSE [dl EXCEPT ![d] = s]
  BY <1>1, <1>2 DEF WriteCallback
<1>4. Full(d) \in BOOLEAN /\ it[d].pos + 1 \in Nat /\ it[d].written + 1 \in Nat
      /\ it[d].pos \in Nat /\ it[d].written \in Nat /\ it[d].paused \in BOOLEAN
  BY <1>2 DEF Full, ItemRecords
<1>5. r \in ItemRecords /\ r.calls = it[d].calls /\ r.written = it[d].written + 1
      /\ r.pos = it[d].pos + 1 /\ r.resp = it[d].resp /\ r.encoded = it[d].encoded
  BY <1>2, <1>4 DEF ItemRecords
<1>6. x = it[d].written + 1
  BY <1>2, <1>3 DEF SinkInv
<1>7. Notified(dl[d].pc) \in Points /\ (Notified(dl[d].pc) = dl[d].pc \/ (dl[d].pc = "waiting" /\ Notified(dl[d].pc) = "woken"))
  BY <1>2 DEF Notified, DownloadRecords, Points
<1>8. s \in DownloadRecords /\ s.pc = Notified(dl[d].pc) /\ s.quit = dl[d].quit /\ s.exc = dl[d].exc
      /\ s.data = Append(dl[d].data, x) /\ s.sink = dl[d].sink
  <2>1. x \in Nat /\ Append(dl[d].data, x) \in Seq(Nat)
    BY <1>2, <1>4, <1>6
  <2>2. (dl[d].paused \/ Full(d)) \in BOOLEAN
    OBVIOUS
  <2> HIDE DEF x
  <2> QED
    BY <1>2, <1>7, <2>1, <2>2 DEF DownloadRecords
<1> HIDE DEF r, s, x
<1>9. it' \in [Downloads -> ItemRecords] /\ it'[d] = r /\ \A e \in Downloads \ {d} : it'[e] = it[e]
  BY <1>1, <1>2, <1>3, <1>5
<1>10. dl' \in [Downloads -> DownloadRecords] /\ dl'[d] = (IF dl[d].quit THEN dl[d] ELSE s)
       /\ \A e \in Downloads \ {d} : dl'[e] = dl[e]
  <2>1. CASE dl[d].quit
    BY <1>2, <1>3, <2>1
  <2>2. CASE ~dl[d].quit
    BY <1>1, <1>2, <1>3, <1>8, <2>2
  <2> QED
    BY <2>1, <2>2
<1>11. TransferTypes'
  BY <1>9, <1>10 DEF TransferInv, TransferTypes
<1>12. \A e \in Downloads \ {d} : Same(e)
  BY <1>9, <1>10 DEF Same
<1>13. dl'[d].quit = dl[d].quit /\ dl'[d].exc = dl[d].exc /\ dl'[d].sink = dl[d].sink
       /\ (dl'[d].pc = dl[d].pc \/ (dl[d].pc = "waiting" /\ dl'[d].pc = "woken"))
  BY <1>7, <1>8, <1>10
<1>14. d \notin incoming /\ ~Dying(d) /\ dl[d].pc # "none"
  BY <1>2 DEF CallInv, Referenced
<1>15. CallInv(d)'
  BY <1>2, <1>5, <1>9, <1>13, <1>14 DEF CallInv, Dying, Referenced
<1>16. SinkInv(d)'
  <2>1. ~it[d].written + 1 > 0 \/ it[d].resp = "ok" \/ ~res[d].encoded
    BY <1>2, <1>3 DEF SinkInv
  <2>2. CASE dl[d].quit
    <3>1. Got(d)' = Got(d)
      BY <1>10, <2>2 DEF Got
    <3> QED
      BY <1>2, <1>3, <1>4, <1>5, <1>9, <1>13, <1>14, <2>1, <2>2, <3>1 DEF SinkInv
  <2>3. CASE ~dl[d].quit
    <3>1. Got(d) = dl[d].sink \o dl[d].data /\ Got(d)' = dl[d].sink \o Append(dl[d].data, x)
      BY <1>8, <1>10, <2>3 DEF Got
    <3>2. Len(Got(d)) = it[d].written /\ \A i \in 1 .. Len(Got(d)) : Got(d)[i] = i
      BY <1>2, <2>3 DEF SinkInv
    <3>3. Len(Got(d)') = it[d].written + 1 /\ Got(d)'[it[d].written + 1] = x
          /\ \A i \in 1 .. it[d].written : Got(d)'[i] = Got(d)[i]
      <4> DEFINE q == dl[d].sink
                 b == dl[d].data
      <4>1. q \in Seq(Nat) /\ b \in Seq(Nat) /\ x \in Nat
        BY <1>2, <1>4, <1>6
      <4> HIDE DEF q, b
      <4>2. /\ Len(q \o Append(b, x)) = Len(q \o b) + 1
            /\ (q \o Append(b, x))[Len(q \o b) + 1] = x
            /\ \A i \in 1 .. Len(q \o b) : (q \o Append(b, x))[i] = (q \o b)[i]
        BY <4>1, GotAppend
      <4>3. Got(d) = q \o b /\ Got(d)' = q \o Append(b, x)
        BY <3>1 DEF q, b
      <4> QED
        BY <3>2, <4>2, <4>3
    <3>4. \A i \in 1 .. Len(Got(d)') : Got(d)'[i] = i
      <4> SUFFICES ASSUME NEW i \in 1 .. it[d].written + 1
                   PROVE  Got(d)'[i] = i
        BY <3>3
      <4>1. CASE i = it[d].written + 1
        BY <1>6, <3>3, <4>1
      <4>2. CASE i # it[d].written + 1
        <5>1. i \in 1 .. it[d].written
          BY <1>4, <4>2
        <5> QED
          BY <3>2, <3>3, <5>1
      <4> QED
        BY <4>1, <4>2
    <3> QED
      BY <1>2, <1>3, <1>4, <1>5, <1>9, <1>13, <1>14, <2>1, <2>3, <3>3, <3>4 DEF SinkInv, CallInv
  <2> QED
    BY <2>2, <2>3
<1> QED
  BY <1>1, <1>11, <1>12, <1>15, <1>16, OneDownload

\* A chunk that libcurl delivers keeps TransferInv.
LEMMA ReceiveInv == ASSUME TransferInv, NEW d \in Downloads, Receive(d) PROVE TransferInv'
<1>1. d \in items /\ WriteCallback(d, it[d].paused \/ Full(d))
      /\ UNCHANGED <<res, incoming, unpause, items, toUnpause, dying>>
  BY DEF Receive, queues, worker, others
<1> DEFINE paused == it[d].paused \/ Full(d)
<1>2. paused \in BOOLEAN
  OBVIOUS
<1> HIDE DEF paused
<1>3. WriteCallback(d, paused)
  BY <1>1 DEF paused
<1> QED
  BY <1>1, <1>2, <1>3, WriteInv

\* The callback is called of an item that was active or is being destroyed.
LEMMA CalledInv ==
    ASSUME TransferInv, NEW d \in Downloads, NEW failed \in BOOLEAN, Called(d, failed),
           UNCHANGED <<res, incoming, unpause, toUnpause>>,
           d \in items \/ Dying(d), d \notin items', ~Dying(d)',
           items' \in SUBSET Downloads, dying' \in [{"worker", "signal"} -> SUBSET Downloads],
           \A e \in Downloads \ {d} :
              /\ e \in items' <=> e \in items
              /\ e \in dying'["worker"] <=> e \in dying["worker"]
              /\ e \in dying'["signal"] <=> e \in dying["signal"],
           ~failed => it[d].resp \in {"ok", "resumed"} /\ it[d].pos = Size
    PROVE  TransferInv'
<1> DEFINE r == [it[d] EXCEPT !.calls = @ + 1]
           s == [dl[d] EXCEPT !.quit = TRUE, !.exc = failed, !.pc = Notified(@)]
<1>1. it[d] \in ItemRecords /\ CallInv(d) /\ SinkInv(d) /\ dl[d] \in DownloadRecords
      /\ it \in [Downloads -> ItemRecords] /\ dl \in [Downloads -> DownloadRecords]
  BY DownloadFields
<1>2. it' = [it EXCEPT ![d] = r] /\ dl' = [dl EXCEPT ![d] = s]
  BY <1>1 DEF Called
<1>3. it[d].calls = 0 /\ d \notin incoming /\ dl[d].pc \notin {"none", "returned"}
      /\ (dl[d].quit => dl[d].pc = "threw")
  BY <1>1 DEF CallInv, Referenced
<1>4. r \in ItemRecords /\ r.calls = 1 /\ r.written = it[d].written /\ r.pos = it[d].pos
      /\ r.resp = it[d].resp /\ r.encoded = it[d].encoded
  BY <1>1, <1>3 DEF ItemRecords
<1>5. Notified(dl[d].pc) \in Points /\ (Notified(dl[d].pc) = dl[d].pc \/ (dl[d].pc = "waiting" /\ Notified(dl[d].pc) = "woken"))
  BY <1>1 DEF Notified, DownloadRecords, Points
<1>6. s \in DownloadRecords /\ s.pc = Notified(dl[d].pc) /\ s.quit /\ s.exc = failed
      /\ s.data = dl[d].data /\ s.sink = dl[d].sink
  BY <1>1, <1>5 DEF DownloadRecords
<1> HIDE DEF r, s
<1>7. it' \in [Downloads -> ItemRecords] /\ it'[d] = r /\ \A e \in Downloads \ {d} : it'[e] = it[e]
  BY <1>1, <1>2, <1>4
<1>8. dl' \in [Downloads -> DownloadRecords] /\ dl'[d] = s /\ \A e \in Downloads \ {d} : dl'[e] = dl[e]
  BY <1>1, <1>2, <1>6
<1>9. TransferTypes'
  BY <1>7, <1>8 DEF TransferInv, TransferTypes
<1>10. \A e \in Downloads \ {d} : Same(e)
  BY <1>7, <1>8 DEF Same
<1>11. s.pc \notin {"none", "returned"} /\ (dl[d].pc = "threw" <=> s.pc = "threw")
  BY <1>3, <1>5, <1>6
<1>12. CallInv(d)'
  BY <1>3, <1>4, <1>6, <1>7, <1>8, <1>11 DEF CallInv, Dying
<1>13. Got(d)' = Got(d)
  BY <1>6, <1>8 DEF Got
<1>14. ~failed /\ dl[d].pc # "threw" => Len(Got(d)) = Size
  BY <1>1, <1>3 DEF SinkInv
<1>15. SinkInv(d)'
  BY <1>1, <1>3, <1>4, <1>6, <1>7, <1>8, <1>11, <1>13, <1>14 DEF SinkInv
<1> QED
  BY <1>9, <1>10, <1>12, <1>15, OneDownload

\* finish() with a result or an error keeps TransferInv.
LEMMA FinishInv ==
    ASSUME TransferInv, NEW d \in Downloads, Succeed(d) \/ Fail(d) PROVE TransferInv'
<1>1. d \in items /\ items' = items \ {d} /\ UNCHANGED <<res, incoming, unpause, toUnpause, dying>>
  BY DEF Succeed, Fail, queues, others
<1>2. PICK failed \in BOOLEAN :
        Called(d, failed) /\ (~failed => it[d].resp \in {"ok", "resumed"} /\ it[d].pos = Size)
  BY DEF Succeed, Fail
<1>3. ~Dying(d)' /\ d \notin items'
  BY <1>1, DownloadFields DEF CallInv, Dying, Referenced
<1>4. items' \in SUBSET Downloads /\ dying' \in [{"worker", "signal"} -> SUBSET Downloads]
  BY <1>1 DEF TransferInv, TransferTypes
<1> QED
  BY <1>1, <1>2, <1>3, <1>4, CalledInv

\* The destructor of an item keeps TransferInv.
LEMMA DestructorInv ==
    ASSUME TransferInv, NEW d \in Downloads, NEW t \in {"worker", "signal"}, Destructor(t, d)
    PROVE  TransferInv'
<1>1. d \in dying[t] /\ Called(d, TRUE) /\ dying' = [dying EXCEPT ![t] = @ \ {d}]
      /\ UNCHANGED <<res, incoming, unpause, items, toUnpause>>
  BY DEF Destructor, queues, worker
<1>2. dying \in [{"worker", "signal"} -> SUBSET Downloads] /\ items \in SUBSET Downloads
      /\ CallInv(d)
  BY DownloadFields DEF TransferInv, TransferTypes
<1>3. dying' \in [{"worker", "signal"} -> SUBSET Downloads] /\ dying'[t] = dying[t] \ {d}
      /\ \A u \in {"worker", "signal"} \ {t} : dying'[u] = dying[u]
  BY <1>1, <1>2
<1>4. Dying(d) /\ ~Dying(d)' /\ d \notin items'
  BY <1>1, <1>2, <1>3 DEF Dying, CallInv, Referenced
<1>5. \A e \in Downloads \ {d} : /\ e \in dying'["worker"] <=> e \in dying["worker"]
                                 /\ e \in dying'["signal"] <=> e \in dying["signal"]
  BY <1>3
<1> QED
  BY <1>1, <1>2, <1>3, <1>4, <1>5, CalledInv

-----------------------------------------------------------------------------
(* The worker and the signal thread                                        *)

\* A step that touches no download keeps TransferInv.
LEMMA UntouchedInv ==
    ASSUME TransferInv, UNCHANGED <<res, it, dl, incoming, unpause, items, toUnpause, dying>>
    PROVE  TransferInv'
<1>1. TransferTypes'
  BY DEF TransferInv, TransferTypes
<1>2. \A e \in Downloads : Same(e)
  BY DEF Same
<1>3. \A e \in Downloads : CallInv(e)' /\ SinkInv(e)'
  BY <1>2, SameKept DEF TransferInv
<1> QED
  BY <1>1, <1>3 DEF TransferInv

\* The worker's intake of the queue keeps TransferInv.
LEMMA IntakeInv == ASSUME TransferInv, Intake PROVE TransferInv'
<1> DEFINE r(d) == [it[d] EXCEPT !.resp = "none", !.curlPaused = FALSE]
<1>1. PICK S \in SUBSET {d \in incoming : ~it[d].embargo} :
        /\ incoming' = incoming \ S /\ items' = items \cup S
        /\ it' = [d \in Downloads |-> IF d \in S THEN r(d) ELSE it[d]]
  BY DEF Intake
<1>2. UNCHANGED <<res, dl, unpause, toUnpause, dying>> /\ S \subseteq incoming
  BY DEF Intake, others
<1>3. \A d \in Downloads :
        /\ r(d) \in ItemRecords /\ r(d).calls = it[d].calls /\ r(d).written = it[d].written
        /\ r(d).resp = "none"
  BY DownloadFields DEF ItemRecords
<1> HIDE DEF r
<1>4. it' \in [Downloads -> ItemRecords]
  BY <1>1, <1>3, DownloadFields
<1>5. \A d \in Downloads : it'[d] = IF d \in S THEN r(d) ELSE it[d]
  BY <1>1
<1>6. TransferTypes'
  BY <1>1, <1>2, <1>4 DEF TransferInv, TransferTypes
<1>7. ASSUME NEW d \in Downloads
      PROVE  CallInv(d)' /\ SinkInv(d)'
  <2>1. CallInv(d) /\ SinkInv(d) /\ it[d] \in ItemRecords
    BY DownloadFields
  <2>2. CASE d \in S
    <3>1. it'[d].calls = it[d].calls /\ it'[d].written = it[d].written /\ it'[d].resp = "none"
          /\ d \in incoming /\ d \notin incoming' /\ d \in items'
      BY <1>1, <1>2, <1>3, <1>5, <2>2
    <3>2. CallInv(d)'
      BY <1>2, <2>1, <3>1 DEF CallInv, Dying, Referenced
    <3>3. SinkInv(d)'
      BY <1>2, <2>1, <3>1 DEF SinkInv, Got
    <3> QED
      BY <3>2, <3>3
  <2>3. CASE d \notin S
    <3>1. Same(d)
      BY <1>1, <1>2, <1>5, <2>3 DEF Same
    <3> QED
      BY <1>2, <2>1, <3>1, SameKept
  <2> QED
    BY <2>2, <2>3
<1> QED
  BY <1>6, <1>7 DEF TransferInv

\* Taking over the list of transfers to unpause keeps TransferInv.
LEMMA CopyUnpauseInv == ASSUME TransferInv, CopyUnpause PROVE TransferInv'
<1>1. toUnpause' = unpause /\ unpause' = {} /\ UNCHANGED <<res, it, dl, incoming, items, dying>>
  BY DEF CopyUnpause, others
<1>2. TransferTypes'
  BY <1>1 DEF TransferInv, TransferTypes
<1>3. \A d \in Downloads : CallInv(d)'
  BY <1>1, DownloadFields DEF CallInv, Dying, Referenced
<1>4. \A d \in Downloads : SinkInv(d)'
  BY <1>1, DownloadFields DEF SinkInv, Got
<1> QED
  BY <1>2, <1>3, <1>4 DEF TransferInv

\* Dropping a reference keeps TransferInv: an item is destroyed only when nobody
\* refers to it any more and its callback has not been called.
LEMMA DroppedInv ==
    ASSUME TransferInv, NEW d \in Downloads, NEW t \in {"worker", "signal"}, Dropped(d, t),
           Referenced(d), UNCHANGED <<res, dl>>, it' \in [Downloads -> ItemRecords],
           \A e \in Downloads \ {d} : it'[e] = it[e],
           it'[d].calls = it[d].calls, it'[d].written = it[d].written, it'[d].resp = it[d].resp,
           it'[d].pos = it[d].pos, it'[d].encoded = it[d].encoded,
           incoming' \in SUBSET incoming, unpause' \in SUBSET unpause,
           items' \in SUBSET items, toUnpause' \in SUBSET toUnpause,
           \A e \in Downloads \ {d} :
              /\ e \in incoming' <=> e \in incoming
              /\ e \in unpause' <=> e \in unpause
              /\ e \in items' <=> e \in items
              /\ e \in toUnpause' <=> e \in toUnpause
    PROVE  TransferInv'
<1>1. dying \in [{"worker", "signal"} -> SUBSET Downloads] /\ CallInv(d) /\ SinkInv(d)
  BY DownloadFields DEF TransferInv, TransferTypes
<1> DEFINE kept == Referenced(d)' \/ ~Unlocked(d) \/ it[d].calls > 0
<1>2. dying' = [dying EXCEPT ![t] = IF kept THEN @ ELSE @ \cup {d}]
  BY DEF Dropped
<1>3. kept \/ (~Referenced(d)' /\ dl[d].pc # "unpausing" /\ it[d].calls = 0)
  BY <1>1 DEF CallInv, Unlocked
<1> HIDE DEF kept
<1>4. dying' \in [{"worker", "signal"} -> SUBSET Downloads]
      /\ dying'[t] = (IF kept THEN dying[t] ELSE dying[t] \cup {d})
      /\ \A u \in {"worker", "signal"} \ {t} : dying'[u] = dying[u]
  BY <1>1, <1>2
<1>5. TransferTypes'
  BY <1>4 DEF TransferInv, TransferTypes
<1>6. \A e \in Downloads \ {d} : Same(e)
  BY <1>4 DEF Same
<1>7. ~Dying(d) /\ dl[d].pc # "none"
  BY <1>1 DEF CallInv
<1>8. Dying(d)' => ~kept /\ ~(d \in dying'["worker"] /\ d \in dying'["signal"])
  BY <1>4, <1>7 DEF Dying
<1>9. CallInv(d)'
  <2>1. d \in incoming' \/ d \in items' \/ Dying(d)' => it[d].calls = 0
    BY <1>1, <1>3, <1>8 DEF CallInv
  <2>2. Dying(d)' => ~Referenced(d)' /\ dl[d].pc \notin {"none", "unpausing"}
    BY <1>3, <1>7, <1>8
  <2>3. ~(d \in dying'["worker"] /\ d \in dying'["signal"])
    BY <1>8 DEF Dying
  <2> QED
    BY <1>1, <1>7, <2>1, <2>2, <2>3 DEF CallInv
<1>10. SinkInv(d)'
  BY <1>1 DEF SinkInv, Got
<1> QED
  BY <1>5, <1>6, <1>9, <1>10, OneDownload

\* unpause() keeps TransferInv, whether libcurl flushes data from within it or not.
LEMMA UnpauseInv == ASSUME TransferInv, NEW d \in Downloads, Unpause(d) PROVE TransferInv'
<1>1. d \in toUnpause /\ toUnpause' = toUnpause \ {d} /\ Dropped(d, "worker")
      /\ UNCHANGED <<res, incoming, unpause, items>>
  BY DEF Unpause, queues
<1>2. CASE UNCHANGED dl /\ it' = [it EXCEPT ![d].paused = FALSE, ![d].curlPaused = @ /\ ~it[d].paused]
  <2> DEFINE r == [it[d] EXCEPT !.paused = FALSE, !.curlPaused = @ /\ ~it[d].paused]
  <2>1. r \in ItemRecords /\ r.calls = it[d].calls /\ r.written = it[d].written
        /\ r.resp = it[d].resp /\ r.pos = it[d].pos /\ r.encoded = it[d].encoded
    BY DownloadFields DEF ItemRecords
  <2>2. it' = [it EXCEPT ![d] = r]
    BY <1>2, DownloadFields
  <2> HIDE DEF r
  <2>3. it' \in [Downloads -> ItemRecords] /\ it'[d] = r /\ \A e \in Downloads \ {d} : it'[e] = it[e]
    BY <2>1, <2>2, DownloadFields
  <2>4. Referenced(d)
    BY <1>1 DEF Referenced
  <2>5. UNCHANGED dl
    BY <1>2
  <2> QED
    BY <1>1, <2>1, <2>3, <2>4, <2>5, DroppedInv
<1>3. CASE d \in items /\ WriteCallback(d, FALSE)
  <2>1. Referenced(d)'
    BY <1>1, <1>3 DEF Referenced
  <2>2. dying' = dying
    BY <1>1, <2>1 DEF Dropped, TransferInv, TransferTypes
  <2> QED
    BY <1>1, <1>3, <2>2, WriteInv
<1> QED
  BY <1>2, <1>3 DEF Unpause

\* The destruction of the worker's items keeps TransferInv.
LEMMA DropItemInv == ASSUME TransferInv, NEW d \in Downloads, DropItem(d) PROVE TransferInv'
<1>1. d \in items /\ items' = items \ {d} /\ Dropped(d, "worker")
      /\ UNCHANGED <<res, it, dl, incoming, unpause, toUnpause>>
  BY DEF DropItem, queues
<1>2. Referenced(d) /\ it' \in [Downloads -> ItemRecords]
  BY <1>1, DownloadFields DEF Referenced
<1> QED
  BY <1>1, <1>2, DroppedInv

\* quit() empties the queue and the list, and keeps TransferInv.
LEMMA QuitPopInv ==
    ASSUME TransferInv, NEW d \in Downloads, NEW t \in {"worker", "signal"}, QuitPop(t, d)
    PROVE  TransferInv'
<1>1. UNCHANGED <<res, it, dl, items, toUnpause>> /\ Dropped(d, t)
      /\ \/ d \in incoming /\ incoming' = incoming \ {d} /\ UNCHANGED unpause
         \/ d \in unpause /\ unpause' = unpause \ {d} /\ UNCHANGED incoming
  BY DEF QuitPop, worker
<1>2. Referenced(d) /\ it' \in [Downloads -> ItemRecords]
  BY <1>1, DownloadFields DEF Referenced
<1>3. /\ incoming' \in SUBSET incoming /\ unpause' \in SUBSET unpause
      /\ \A e \in Downloads \ {d} : (e \in incoming' <=> e \in incoming) /\ (e \in unpause' <=> e \in unpause)
  BY <1>1
<1> QED
  BY <1>1, <1>2, <1>3, DroppedInv

\* TransferInv is inductive.
LEMMA TransferStep == TransferInv /\ [TransferNext]_transferVars => TransferInv'
<1> SUFFICES ASSUME TransferInv, [TransferNext]_transferVars
             PROVE  TransferInv'
  OBVIOUS
<1>1. CASE UNCHANGED transferVars
  BY <1>1, UntouchedInv DEF transferVars
<1>2. CASE Interrupt \/ WorkerTop \/ IterationEnds \/ MainEnds
           \/ \E t \in {"worker", "signal"} : QuitBegin(t) \/ QuitEnd(t)
  <2>1. UNCHANGED <<res, it, dl, incoming, unpause, items, toUnpause, dying>>
    BY <1>2 DEF Interrupt, WorkerTop, IterationEnds, MainEnds, QuitBegin, QuitEnd,
                queues, worker, others
  <2> QED
    BY <2>1, UntouchedInv
<1>3. CASE Intake \/ CopyUnpause \/ \E d \in Downloads : Unpause(d) \/ DropItem(d)
  BY <1>3, IntakeInv, CopyUnpauseInv, UnpauseInv, DropItemInv
<1>4. CASE \E t \in {"worker", "signal"}, d \in Downloads : QuitPop(t, d) \/ Destructor(t, d)
  BY <1>4, QuitPopInv, DestructorInv
<1>5. CASE \E d \in Downloads : StartDownload(d) \/ DownloadStep(d)
  BY <1>5, MovesInv, TakeDataInv, UnpauseTransferInv DEF DownloadStep
<1>6. CASE \E d \in Downloads : EmbargoEnds(d) \/ Headers(d) \/ Receive(d) \/ Succeed(d) \/ Fail(d) \/ Retry(d)
  BY <1>6, EmbargoEndsInv, HeadersInv, ReceiveInv, FinishInv, RetryInv
<1> QED
  BY <1>1, <1>2, <1>3, <1>4, <1>5, <1>6 DEF TransferNext, WorkerStep, Quit

\* TransferInv implies what the run checks.
LEMMA TransferInvKept == TransferInv => CallbackOnce /\ SinkExact
<1> SUFFICES ASSUME TransferInv
             PROVE  CallbackOnce /\ SinkExact
  OBVIOUS
<1>1. CallbackOnce
  BY DownloadFields DEF CallbackOnce, CallInv
<1>2. ASSUME NEW d \in Downloads
      PROVE  Got(d) = [i \in 1 .. Len(Got(d)) |-> i] /\ (dl[d].pc = "returned" => Len(dl[d].sink) = Size)
  <2>1. Got(d) \in Seq(Nat) /\ SinkInv(d)
    BY DownloadFields
  <2>2. \A i \in 1 .. Len(Got(d)) : Got(d)[i] = i
    BY <2>1 DEF SinkInv
  <2>3. Got(d) = [i \in 1 .. Len(Got(d)) |-> Got(d)[i]]
    BY <2>1
  <2> QED
    BY <2>1, <2>2, <2>3 DEF SinkInv
<1>3. SinkExact
  BY <1>2 DEF SinkExact, Got
<1> QED
  BY <1>1, <1>3

\* The callback of a transfer is called at most once, and download() returns only
\* after it (filetransfer.cc TransferItem::finish, fail, ~TransferItem).
THEOREM CalledOnce == TransferSpec => []CallbackOnce
<1>1. TransferInv => CallbackOnce
  BY TransferInvKept
<1> QED
  BY <1>1, TransferInitInv, TransferStep, PTL DEF TransferSpec

\* The sink gets the resource, all of it and in order, over retries and pauses
\* (filetransfer.cc finalSink, finish, download).
THEOREM SinkGetsResource == TransferSpec => []SinkExact
<1>1. TransferInv => SinkExact
  BY TransferInvKept
<1> QED
  BY <1>1, TransferInitInv, TransferStep, PTL DEF TransferSpec

(***************************************************************************)
(* BuildHook: BestMachineChosen                                            *)
(***************************************************************************)
NoSlot == <<0, 0>>

HookRecords ==
    [pc : {"idle", "scan", "again", "connect", "accepted", "postponed", "declined"},
     m : Nat \ {0}, best : Slots \cup {NoSlot}, bestLoad : Nat, enabled : SUBSET Machines,
     rightType : BOOLEAN]

FoundRecords == [free : SUBSET Machines, load : [Machines -> Nat], undecided : SUBSET Hooks]

HookTypes ==
    /\ mainLock \in Hooks \cup {NoHook}
    /\ slotLock \in [Slots -> Hooks \cup {NoHook}]
    /\ hook \in [Hooks -> HookRecords]
    /\ found \in [Hooks -> FoundRecords]

\* Machine m with load a is no better than machine n with load b.
NoBetter(m, a, n, b) ==
    \/ a * SpeedFactor[n] > b * SpeedFactor[m]
    \/ a * SpeedFactor[n] = b * SpeedFactor[m] /\ SpeedFactor[m] <= SpeedFactor[n]

\* A hook has no slot but its best one, and none while it waits; whoever looks for a
\* machine has main-lock.
ScanInv(h) ==
    /\ \A s \in Slots : slotLock[s] = h =>
          s = hook[h].best /\ hook[h].pc \in {"scan", "connect", "accepted"}
    /\ hook[h].pc = "scan" =>
        /\ mainLock = h
        /\ \A m \in found[h].free : m < hook[h].m
        /\ hook[h].best = NoSlot => found[h].free = {}

\* The best slot so far is locked, and its machine is the best of those considered.
BestInv(h) ==
    hook[h].pc = "connect" \/ (hook[h].pc = "scan" /\ hook[h].best # NoSlot) =>
        LET n == hook[h].best[1]
        IN  /\ hook[h].best \in Slots /\ slotLock[hook[h].best] = h
            /\ n \in found[h].free
            /\ hook[h].bestLoad = found[h].load[n]
            /\ \A m \in found[h].free : NoBetter(m, found[h].load[m], n, found[h].load[n])

HookInv ==
    HookTypes /\ \A h \in Hooks : ScanInv(h) /\ BestInv(h) /\ found[h].undecided = {}

-----------------------------------------------------------------------------
\* What a slot is.
LEMMA SlotFacts ==
    /\ \A s \in Slots : s[1] \in Machines /\ s[2] \in 1 .. MaxJobs[s[1]] /\ s = <<s[1], s[2]>>
    /\ \A m \in Machines : m \in Nat \ {0}
    /\ NoSlot \notin Slots
<1>1. \A s \in Slots : s[1] \in Machines /\ s[2] \in 1 .. MaxJobs[s[1]] /\ s = <<s[1], s[2]>>
  BY DEF Slots
<1>2. \A m \in Machines : m \in Nat \ {0}
  BY HookAssumption DEF Machines
<1>. QED  BY <1>1, <1>2 DEF NoSlot

\* The slots of a machine are finite in number.
LEMMA LoadFacts ==
    ASSUME NEW m \in Machines, NEW T \in SUBSET {s \in Slots : s[1] = m}
    PROVE  Cardinality(T) \in Nat
<1>1. MaxJobs[m] \in Int  BY HookAssumption
<1>2. IsFiniteSet(1 .. MaxJobs[m])  BY <1>1, FS_Interval
<1>3. IsFiniteSet({m})  BY FS_Singleton
<1>4. IsFiniteSet({m} \X (1 .. MaxJobs[m]))  BY <1>2, <1>3, FS_Product
<1>5. T \subseteq {m} \X (1 .. MaxJobs[m])  BY DEF Slots
<1>6. IsFiniteSet(T)  BY <1>4, <1>5, FS_Subset
<1>. QED  BY <1>6, FS_CardinalityType

\* Of some slots of a machine there is a first one: Consider chooses it.
LEMMA FirstSlot ==
    ASSUME NEW m \in Machines, NEW T \in SUBSET {s \in Slots : s[1] = m}, T # {}
    PROVE  \E s \in T : \A t \in T : s[2] <= t[2]
<1>. DEFINE N == {s[2] : s \in T}
<1>1. N \in SUBSET Nat /\ N # {}
  BY SlotFacts, HookAssumption
<1>. DEFINE R == OpToRel(<, Nat)
<1>2. IsWellFoundedOn(R, Nat)
  BY NatLessThanWellFounded
<1>3. \A x, y \in Nat : <<y, x>> \in R <=> y < x
  BY DEF OpToRel
<1>. HIDE DEF R, N
<1>4. PICK x \in N : \A y \in N : ~ (<<y, x>> \in R)
  <2>1. N \subseteq Nat  BY <1>1
  <2>2. N # {}  BY <1>1
  <2>. QED  BY <1>2, <2>1, <2>2, WFMin, Zenon
<1>5. ASSUME NEW y \in N PROVE x <= y
  <2>1. x \in Nat /\ y \in Nat  BY <1>1
  <2>2. ~ (<<y, x>> \in R)  BY <1>4
  <2>3. ~ (y < x)  BY <1>3, <2>1, <2>2
  <2>. QED  BY <2>1, <2>3
<1>6. PICK s \in T : s[2] = x  BY DEF N
<1>. QED  BY <1>5, <1>6 DEF N

\* A product with a positive number keeps the order.
LEMMA ScaleFacts ==
    ASSUME NEW p \in Nat, NEW q \in Nat, NEW k \in Nat \ {0}
    PROVE  (p < q <=> p * k < q * k) /\ (p = q <=> p * k = q * k)
<1>1. p < q => p * k < q * k  OBVIOUS
<1>2. q < p => q * k < p * k  OBVIOUS
<1>3. p * k \in Nat /\ q * k \in Nat  OBVIOUS
<1>. QED  BY <1>1, <1>2, <1>3

\* Quotients a/x, b/y, c/z compared without division: the order is transitive.
LEMMA Products ==
    ASSUME NEW x \in Nat \ {0}, NEW y \in Nat \ {0}, NEW z \in Nat \ {0},
           NEW a \in Nat, NEW b \in Nat, NEW c \in Nat,
           a * y < b * x \/ (a * y = b * x /\ y <= x),
           c * y > b * z \/ (c * y = b * z /\ z <= y)
    PROVE  c * x > a * z \/ (c * x = a * z /\ z <= x)
<1>1. /\ a * y \in Nat /\ b * x \in Nat /\ c * y \in Nat /\ b * z \in Nat
      /\ c * x \in Nat /\ a * z \in Nat
  OBVIOUS
<1>2. /\ (a * y) * z \in Nat /\ (b * x) * z \in Nat /\ (c * y) * x \in Nat
      /\ (b * z) * x \in Nat /\ (c * x) * y \in Nat /\ (a * z) * y \in Nat
  BY <1>1
<1>3. (a * y) * z = (a * z) * y /\ (b * x) * z = (b * z) * x /\ (c * y) * x = (c * x) * y
  OBVIOUS
<1>4. /\ a * y < b * x <=> (a * y) * z < (b * x) * z
      /\ a * y = b * x <=> (a * y) * z = (b * x) * z
  BY <1>1, ScaleFacts
<1>5. /\ b * z < c * y <=> (b * z) * x < (c * y) * x
      /\ b * z = c * y <=> (b * z) * x = (c * y) * x
  BY <1>1, ScaleFacts
<1>6. /\ a * z < c * x <=> (a * z) * y < (c * x) * y
      /\ a * z = c * x <=> (a * z) * y = (c * x) * y
  BY <1>1, ScaleFacts
<1>7. (a * y < b * x \/ a * y = b * x) /\ (b * z < c * y \/ b * z = c * y)
  BY <1>1
<1>8. CASE a * y < b * x
  <2>1. (a * z) * y < (c * x) * y  BY <1>2, <1>3, <1>4, <1>5, <1>7, <1>8
  <2>. QED  BY <1>1, <1>6, <2>1
<1>9. CASE b * z < c * y
  <2>1. (a * z) * y < (c * x) * y  BY <1>2, <1>3, <1>4, <1>5, <1>7, <1>9
  <2>. QED  BY <1>1, <1>6, <2>1
<1>10. CASE a * y = b * x /\ b * z = c * y /\ y <= x /\ z <= y
  <2>1. a * z = c * x  BY <1>3, <1>4, <1>5, <1>6, <1>10
  <2>. QED  BY <1>10, <2>1
<1>. QED  BY <1>1, <1>8, <1>9, <1>10

\* The order on machines and their loads that Better decides is total, and a
\* machine no better than one that is then beaten is no better than the winner.
LEMMA BetterFacts ==
    ASSUME NEW m \in Machines, NEW n \in Machines, NEW k \in Machines,
           NEW a \in Nat, NEW b \in Nat, NEW c \in Nat
    PROVE  /\ NoBetter(m, a, m, a)
           /\ ~Better(m, a, n, b) => NoBetter(m, a, n, b)
           /\ Better(m, a, n, b) => NoBetter(n, b, m, a)
           /\ NoBetter(k, c, n, b) /\ Better(m, a, n, b) => NoBetter(k, c, m, a)
<1>. DEFINE x == SpeedFactor[m]  y == SpeedFactor[n]  z == SpeedFactor[k]
<1>1. x \in Nat \ {0} /\ y \in Nat \ {0} /\ z \in Nat \ {0}
  BY HookAssumption
<1>. HIDE DEF x, y, z
<1>2. a * x \in Nat /\ a * y \in Nat /\ b * x \in Nat /\ b * z \in Nat /\ c * y \in Nat
      /\ c * x \in Nat /\ a * z \in Nat
  BY <1>1, SMT
<1>3. NoBetter(m, a, m, a)  BY <1>1, <1>2 DEF NoBetter, x
<1>4. ~Better(m, a, n, b) => NoBetter(m, a, n, b)
  BY <1>1, <1>2 DEF Better, NoBetter, x, y
<1>5. Better(m, a, n, b) => NoBetter(n, b, m, a)
  BY <1>1, <1>2 DEF Better, NoBetter, x, y
<1>6. ASSUME NoBetter(k, c, n, b), Better(m, a, n, b) PROVE NoBetter(k, c, m, a)
  <2>1. a * y < b * x \/ (a * y = b * x /\ y <= x)
    BY <1>1, <1>2, <1>6 DEF Better, x, y
  <2>2. c * y > b * z \/ (c * y = b * z /\ z <= y)
    BY <1>6 DEF NoBetter, y, z
  <2>3. c * x > a * z \/ (c * x = a * z /\ z <= x)
    BY <1>1, <2>1, <2>2, Products
  <2>. QED  BY <2>3 DEF NoBetter, x, z
<1>. QED  BY <1>3, <1>4, <1>5, <1>6

-----------------------------------------------------------------------------
\* The slots of the other hooks do not change when h keeps one slot that is its
\* own or free, or none.
LEMMA OnlySlotFacts ==
    ASSUME HookTypes, NEW h \in Hooks, NEW keep \in Slots \cup {NoSlot},
           keep \in Slots => slotLock[keep] \in {h, NoHook},
           slotLock' = OnlySlot(h, keep)
    PROVE  /\ slotLock' \in [Slots -> Hooks \cup {NoHook}]
           /\ \A s \in Slots : slotLock'[s] = h <=> s = keep
           /\ \A g \in Hooks \ {h} : \A s \in Slots : slotLock'[s] = g <=> slotLock[s] = g
<1>1. \A s \in Slots : slotLock'[s] = IF s = keep THEN h ELSE
                                      IF slotLock[s] = h THEN NoHook ELSE slotLock[s]
  BY DEF OnlySlot
<1>2. slotLock' \in [Slots -> Hooks \cup {NoHook}]
  BY DEF OnlySlot, HookTypes
<1>. QED  BY <1>1, <1>2, HookAssumption

\* What holds of a hook is not disturbed by the others.
LEMMA OtherHook ==
    ASSUME HookInv, NEW g \in Hooks, hook'[g] = hook[g], found'[g] = found[g],
           \A s \in Slots : slotLock'[s] = g <=> slotLock[s] = g,
           hook[g].pc = "scan" => mainLock' = g
    PROVE  ScanInv(g)' /\ BestInv(g)' /\ found'[g].undecided = {}
<1>1. ScanInv(g) /\ BestInv(g) /\ found[g].undecided = {}
  BY DEF HookInv
<1>2. ScanInv(g)'  BY <1>1 DEF ScanInv
<1>3. BestInv(g)'
  <2>. SUFFICES ASSUME hook[g].pc = "connect" \/ (hook[g].pc = "scan" /\ hook[g].best # NoSlot)
                PROVE  LET n == hook[g].best[1]
                       IN  /\ hook[g].best \in Slots /\ slotLock'[hook[g].best] = g
                           /\ n \in found[g].free
                           /\ hook[g].bestLoad = found[g].load[n]
                           /\ \A m \in found[g].free :
                                  NoBetter(m, found[g].load[m], n, found[g].load[n])
    BY DEF BestInv, NoBetter
  <2>. QED  BY <1>1 DEF BestInv
<1>. QED  BY <1>1, <1>2, <1>3

\* A hook that starts over is a hook, and has nothing to keep.
LEMMA FreshHook ==
    ASSUME NEW h \in Hooks, NEW pc \in {"idle", "scan", "postponed", "declined"},
           NEW e \in SUBSET Machines,
           hook'[h] = Fresh(pc, e), found'[h] = Nothing,
           pc = "scan" => mainLock' = h, \A s \in Slots : slotLock'[s] # h
    PROVE  /\ Fresh(pc, e) \in HookRecords /\ Nothing \in FoundRecords
           /\ ScanInv(h)' /\ BestInv(h)' /\ found'[h].undecided = {}
<1>1. Fresh(pc, e) \in HookRecords
  BY DEF Fresh, HookRecords, NoSlot
<1>2. Nothing \in FoundRecords
  BY DEF Nothing, FoundRecords
<1>3. /\ hook'[h].pc = pc /\ hook'[h].best = NoSlot
      /\ found'[h].free = {} /\ found'[h].undecided = {}
  BY DEF Fresh, Nothing, NoSlot
<1>4. ScanInv(h)'  BY <1>3 DEF ScanInv
<1>5. BestInv(h)'  BY <1>3 DEF BestInv
<1>. QED  BY <1>1, <1>2, <1>3, <1>4, <1>5

\* Only h is at "scan" if h is, or if nobody has main-lock.
LEMMA OneScans ==
    ASSUME HookInv, NEW h \in Hooks, hook[h].pc = "scan" \/ mainLock = NoHook
    PROVE  \A g \in Hooks \ {h} : hook[g].pc # "scan"
BY HookAssumption DEF HookInv, ScanInv

\* No hook has been asked and no slot is taken.
LEMMA HookInitInv == HookInit => HookInv
<1>. SUFFICES ASSUME HookInit PROVE HookInv  OBVIOUS
<1>1. Fresh("idle", Machines) \in HookRecords /\ Nothing \in FoundRecords
  BY DEF Fresh, HookRecords, NoSlot, Nothing, FoundRecords
<1>2. HookTypes
  BY <1>1 DEF HookTypes, HookInit
<1>3. ASSUME NEW h \in Hooks PROVE ScanInv(h) /\ BestInv(h) /\ found[h].undecided = {}
  <2>1. hook[h].pc = "idle" /\ found[h].undecided = {}
    BY DEF HookInit, Fresh, Nothing
  <2>2. \A s \in Slots : slotLock[s] # h  BY HookAssumption DEF HookInit
  <2>. QED  BY <2>1, <2>2 DEF ScanInv, BestInv
<1>. QED  BY <1>2, <1>3 DEF HookInv

\* A hook that gets the main lock has no slot and scans from the start.
LEMMA TakeMainLockInv ==
    ASSUME HookInv, NEW h \in Hooks, TakeMainLock(h)
    PROVE  HookInv'
<1>. DEFINE r == Fresh("scan", hook[h].enabled)
<1>1. HookTypes /\ hook[h] \in HookRecords
  BY DEF HookInv, HookTypes
<1>2. hook[h].enabled \in SUBSET Machines  BY <1>1 DEF HookRecords
<1>3. hook' = [hook EXCEPT ![h] = r] /\ found' = [found EXCEPT ![h] = Nothing] /\ mainLock' = h
  BY DEF TakeMainLock
<1>4. slotLock' = slotLock /\ \A s \in Slots : slotLock[s] # h
  BY DEF TakeMainLock, HookInv, ScanInv
<1>. HIDE DEF r
<1>5. hook'[h] = r /\ found'[h] = Nothing  BY <1>1, <1>3 DEF HookTypes
<1>6. /\ r \in HookRecords /\ Nothing \in FoundRecords
      /\ ScanInv(h)' /\ BestInv(h)' /\ found'[h].undecided = {}
  BY <1>2, <1>3, <1>4, <1>5, FreshHook DEF r
<1>7. HookTypes'  BY <1>1, <1>3, <1>4, <1>6 DEF HookTypes
<1>8. ASSUME NEW g \in Hooks \ {h} PROVE ScanInv(g)' /\ BestInv(g)' /\ found'[g].undecided = {}
  <2>1. hook'[g] = hook[g] /\ found'[g] = found[g]  BY <1>1, <1>3 DEF HookTypes
  <2>2. hook[g].pc # "scan"  BY OneScans DEF TakeMainLock
  <2>. QED  BY <1>4, <2>1, <2>2, OtherHook
<1>. QED  BY <1>6, <1>7, <1>8 DEF HookInv

\* A hook that ends drops its locks, so its slots count as free again.
LEMMA ExitInv ==
    ASSUME HookInv, NEW h \in Hooks, Exit(h)
    PROVE  HookInv'
<1>. DEFINE r == Fresh("idle", Machines)
<1>1. HookTypes
  BY DEF HookInv
<1>3. /\ hook' = [hook EXCEPT ![h] = r] /\ found' = [found EXCEPT ![h] = Nothing]
      /\ mainLock' = IF mainLock = h THEN NoHook ELSE mainLock
  BY DEF Exit
<1>4. /\ slotLock' \in [Slots -> Hooks \cup {NoHook}] /\ \A s \in Slots : slotLock'[s] # h
      /\ \A g \in Hooks \ {h} : \A s \in Slots : slotLock'[s] = g <=> slotLock[s] = g
  BY <1>1, SlotFacts, OnlySlotFacts DEF Exit, NoSlot
<1>. HIDE DEF r
<1>5. hook'[h] = r /\ found'[h] = Nothing  BY <1>1, <1>3 DEF HookTypes
<1>6. /\ r \in HookRecords /\ Nothing \in FoundRecords
      /\ ScanInv(h)' /\ BestInv(h)' /\ found'[h].undecided = {}
  BY <1>4, <1>5, FreshHook DEF r
<1>7. HookTypes'  BY <1>1, <1>3, <1>4, <1>6 DEF HookTypes
<1>8. ASSUME NEW g \in Hooks \ {h} PROVE ScanInv(g)' /\ BestInv(g)' /\ found'[g].undecided = {}
  <2>1. hook'[g] = hook[g] /\ found'[g] = found[g]  BY <1>1, <1>3 DEF HookTypes
  <2>2. hook[g].pc = "scan" => mainLock = g  BY DEF HookInv, ScanInv
  <2>. QED  BY <1>3, <1>4, <2>1, <2>2, OtherHook
<1>. QED  BY <1>6, <1>7, <1>8 DEF HookInv

\* A hook that found no machine answers "decline" or "postpone".
LEMMA RefuseInv ==
    ASSUME HookInv, NEW h \in Hooks, Refuse(h)
    PROVE  HookInv'
<1>1. HookTypes /\ hook[h] \in HookRecords
  BY DEF HookInv, HookTypes
<1>2. hook[h].enabled \in SUBSET Machines  BY <1>1 DEF HookRecords
<1>3. PICK pc \in {"postponed", "declined"} :
         hook' = [hook EXCEPT ![h] = Fresh(pc, hook[h].enabled)]
  BY DEF Refuse
<1>. DEFINE r == Fresh(pc, hook[h].enabled)
<1>4. found' = [found EXCEPT ![h] = Nothing] /\ mainLock' = NoHook /\ slotLock' = slotLock
  BY DEF Refuse
<1>. HIDE DEF r
<1>5. hook'[h] = r /\ found'[h] = Nothing  BY <1>1, <1>3, <1>4 DEF HookTypes, r
<1>6. /\ r \in HookRecords /\ Nothing \in FoundRecords
      /\ ScanInv(h)' /\ BestInv(h)' /\ found'[h].undecided = {}
  <2>1. \A s \in Slots : slotLock'[s] # h
    BY <1>4, SlotFacts DEF Refuse, HookInv, ScanInv, NoSlot
  <2>. QED  BY <1>2, <1>5, <2>1, FreshHook DEF r
<1>7. HookTypes'  BY <1>1, <1>3, <1>4, <1>6 DEF HookTypes, r
<1>8. ASSUME NEW g \in Hooks \ {h} PROVE ScanInv(g)' /\ BestInv(g)' /\ found'[g].undecided = {}
  <2>1. hook'[g] = hook[g] /\ found'[g] = found[g]  BY <1>1, <1>3, <1>4 DEF HookTypes
  <2>2. hook[g].pc # "scan"  BY OneScans DEF Refuse
  <2>. QED  BY <1>4, <2>1, <2>2, OtherHook
<1>. QED  BY <1>6, <1>7, <1>8 DEF HookInv

\* A hook leaves the main lock with the slot of the best machine in hand.
LEMMA ReleaseMainLockInv ==
    ASSUME HookInv, NEW h \in Hooks, ReleaseMainLock(h)
    PROVE  HookInv'
<1>. DEFINE r == [hook[h] EXCEPT !.pc = "connect"]
<1>1. HookTypes /\ hook[h] \in HookRecords
  BY DEF HookInv, HookTypes
<1>2. /\ hook' = [hook EXCEPT ![h] = r] /\ mainLock' = NoHook
      /\ slotLock' = slotLock /\ found' = found
  BY DEF ReleaseMainLock
<1>3. /\ r \in HookRecords /\ r.pc = "connect" /\ r.best = hook[h].best
      /\ r.bestLoad = hook[h].bestLoad
  BY <1>1 DEF HookRecords
<1>. HIDE DEF r
<1>4. hook'[h] = r  BY <1>1, <1>2 DEF HookTypes
<1>5. HookTypes'  BY <1>1, <1>2, <1>3 DEF HookTypes
<1>6. BestInv(h) /\ hook[h].pc = "scan" /\ hook[h].best # NoSlot
  BY DEF HookInv, ReleaseMainLock, NoSlot
<1>7. BestInv(h)'  BY <1>2, <1>3, <1>4, <1>6 DEF BestInv, NoBetter
<1>8. ScanInv(h)' /\ found'[h].undecided = {}  BY <1>2, <1>3, <1>4 DEF ScanInv, HookInv
<1>9. ASSUME NEW g \in Hooks \ {h} PROVE ScanInv(g)' /\ BestInv(g)' /\ found'[g].undecided = {}
  <2>1. hook'[g] = hook[g] /\ found'[g] = found[g]  BY <1>1, <1>2 DEF HookTypes
  <2>2. hook[g].pc # "scan"  BY <1>6, OneScans
  <2>. QED  BY <1>2, <2>1, <2>2, OtherHook
<1>. QED  BY <1>5, <1>7, <1>8, <1>9 DEF HookInv

\* A hook that has decided gives up what it found, and has no more to keep.
LEMMA DecidedInv ==
    ASSUME HookInv, NEW h \in Hooks, hook[h].pc # "scan",
           NEW r \in HookRecords, r.pc \in {"again", "accepted", "idle"},
           hook' = [hook EXCEPT ![h] = r],
           found' \in {found, [found EXCEPT ![h] = Nothing]},
           mainLock' = mainLock, slotLock' \in [Slots -> Hooks \cup {NoHook}],
           \A s \in Slots : slotLock'[s] = h => s = r.best /\ r.pc = "accepted",
           \A g \in Hooks \ {h} : \A s \in Slots : slotLock'[s] = g <=> slotLock[s] = g
    PROVE  HookInv'
<1>1. HookTypes /\ found[h].undecided = {}
  BY DEF HookInv
<1>2. Nothing \in FoundRecords /\ Nothing.undecided = {}
  BY DEF Nothing, FoundRecords
<1>3. hook'[h] = r /\ found'[h] \in {found[h], Nothing}  BY <1>1 DEF HookTypes
<1>4. HookTypes'  BY <1>1, <1>2 DEF HookTypes
<1>5. ScanInv(h)' /\ BestInv(h)' /\ found'[h].undecided = {}
  BY <1>1, <1>2, <1>3 DEF ScanInv, BestInv
<1>6. ASSUME NEW g \in Hooks \ {h} PROVE ScanInv(g)' /\ BestInv(g)' /\ found'[g].undecided = {}
  <2>1. hook'[g] = hook[g] /\ found'[g] = found[g]  BY <1>1 DEF HookTypes
  <2>2. hook[g].pc = "scan" => mainLock = g  BY DEF HookInv, ScanInv
  <2>. QED  BY <2>1, <2>2, OtherHook
<1>. QED  BY <1>4, <1>5, <1>6 DEF HookInv

\* A machine that cannot be reached is not a candidate of this hook any more.
LEMMA ConnectFailsInv ==
    ASSUME HookInv, NEW h \in Hooks, ConnectFails(h)
    PROVE  HookInv'
<1>. DEFINE r == [hook[h] EXCEPT !.pc = "again", !.enabled = @ \ {hook[h].best[1]}]
<1>1. hook[h] \in HookRecords /\ hook \in [Hooks -> HookRecords]
  BY DEF HookInv, HookTypes
<1>2. r \in HookRecords /\ r.pc = "again"
  BY <1>1 DEF HookRecords
<1>3. hook' = [hook EXCEPT ![h] = r]
  BY <1>1 DEF ConnectFails, HookRecords
<1>4. hook[h].pc # "scan"  BY DEF ConnectFails
<1>5. mainLock' = mainLock /\ found' = found  BY DEF ConnectFails
<1>6. /\ slotLock' \in [Slots -> Hooks \cup {NoHook}] /\ \A s \in Slots : slotLock'[s] # h
      /\ \A g \in Hooks \ {h} : \A s \in Slots : slotLock'[s] = g <=> slotLock[s] = g
  BY SlotFacts, OnlySlotFacts DEF ConnectFails, NoSlot, HookInv
<1>. HIDE DEF r
<1>. QED  BY <1>2, <1>3, <1>4, <1>5, <1>6, DecidedInv

\* A hook that has reached its machine accepts the build.
LEMMA AcceptInv ==
    ASSUME HookInv, NEW h \in Hooks, Accept(h)
    PROVE  HookInv'
<1>. DEFINE r == [hook[h] EXCEPT !.pc = "accepted"]
<1>1. hook[h] \in HookRecords /\ hook \in [Hooks -> HookRecords]
  BY DEF HookInv, HookTypes
<1>2. r \in HookRecords /\ r.pc = "accepted" /\ r.best = hook[h].best
  BY <1>1 DEF HookRecords
<1>3. hook' = [hook EXCEPT ![h] = r]  BY DEF Accept
<1>4. hook[h].pc # "scan"  BY DEF Accept
<1>5. mainLock' = mainLock /\ slotLock' = slotLock /\ found' = [found EXCEPT ![h] = Nothing]
  BY DEF Accept
<1>6. /\ slotLock' \in [Slots -> Hooks \cup {NoHook}]
      /\ \A s \in Slots : slotLock'[s] = h => s = r.best
  BY <1>2, <1>5 DEF HookInv, HookTypes, ScanInv
<1>. HIDE DEF r
<1>. QED  BY <1>2, <1>3, <1>4, <1>5, <1>6, DecidedInv

\* The scheduler asks a hook that has refused again later.
LEMMA AskAgainInv ==
    ASSUME HookInv, NEW h \in Hooks, AskAgain(h)
    PROVE  HookInv'
<1>. DEFINE r == [hook[h] EXCEPT !.pc = "idle"]
<1>1. hook[h] \in HookRecords /\ hook \in [Hooks -> HookRecords]
  BY DEF HookInv, HookTypes
<1>2. r \in HookRecords /\ r.pc = "idle"
  BY <1>1 DEF HookRecords
<1>3. hook' = [hook EXCEPT ![h] = r]  BY DEF AskAgain
<1>4. hook[h].pc # "scan"  BY DEF AskAgain
<1>5. mainLock' = mainLock /\ slotLock' = slotLock /\ found' = found  BY DEF AskAgain
<1>6. slotLock \in [Slots -> Hooks \cup {NoHook}] /\ \A s \in Slots : slotLock[s] # h
  BY DEF AskAgain, HookInv, HookTypes, ScanInv
<1>. HIDE DEF r
<1>. QED  BY <1>2, <1>3, <1>4, <1>5, <1>6, DecidedInv

\* One machine more is considered.
LEMMA ConsiderInv ==
    ASSUME HookInv, NEW h \in Hooks, Consider(h)
    PROVE  HookInv'
<1>. DEFINE m == hook[h].m
            mine == {s \in Slots : s[1] = m}
            taken == {s \in mine : slotLock[s] # NoHook}
            load == Cardinality(taken)
            suitable == m \in hook[h].enabled /\ h \in Suits[m]
            free == CHOOSE s \in mine \ taken : \A t \in mine \ taken : s[2] <= t[2]
            best == hook[h].best
            wins == /\ suitable /\ taken # mine
                    /\ best = NoSlot \/ Better(m, load, best[1], hook[h].bestLoad)
            newBest == IF wins THEN free ELSE best
            newLoad == IF wins THEN load ELSE hook[h].bestLoad
            newType == hook[h].rightType \/ suitable
            undecided == {slotLock[s] : s \in {s \in taken : hook[slotLock[s]].pc = "scan"}}
            r == [hook[h] EXCEPT !.m = m + 1, !.rightType = newType,
                                 !.best = newBest, !.bestLoad = newLoad]
            f == [found[h] EXCEPT
                    !.free = IF taken = mine THEN @ ELSE @ \cup {m},
                    !.load[m] = load, !.undecided = @ \cup undecided]
            newFound == IF ~suitable THEN found[h] ELSE f
<1>1. /\ HookTypes /\ hook[h] \in HookRecords /\ found[h] \in FoundRecords
      /\ ScanInv(h) /\ BestInv(h) /\ found[h].undecided = {}
  BY DEF HookInv, HookTypes
<1>2. /\ hook[h].pc = "scan" /\ m <= NrMachines
      /\ slotLock' = OnlySlot(h, newBest) /\ mainLock' = mainLock
  BY DEF Consider, NoSlot
<1>3. hook' = [hook EXCEPT ![h] = r]
  <2>1. hook' = [hook EXCEPT ![h].m = m + 1, ![h].rightType = @ \/ suitable,
                             ![h].best = IF wins THEN free ELSE @,
                             ![h].bestLoad = IF wins THEN load ELSE @]
    BY DEF Consider, NoSlot
  <2>. HIDE DEF m, suitable, free, load, wins
  <2>. QED  BY <1>1, <2>1 DEF HookTypes, HookRecords
<1>4. found' = [found EXCEPT ![h] = newFound]
  <2>1. found' = IF ~suitable THEN found ELSE
              [found EXCEPT ![h].free = IF taken = mine THEN @ ELSE @ \cup {m},
                            ![h].load[m] = load,
                            ![h].undecided = @ \cup undecided]
    BY DEF Consider
  <2>. HIDE DEF m, suitable, taken, mine, load, undecided
  <2>. QED  BY <1>1, <2>1 DEF HookTypes, FoundRecords
<1>5. m \in Machines
  BY <1>1, <1>2, HookAssumption DEF HookRecords, Machines
<1>6. load \in Nat
  BY <1>5, LoadFacts
<1>7. wins => free \in Slots /\ free[1] = m /\ slotLock[free] = NoHook
  <2>. SUFFICES ASSUME wins PROVE free \in mine \ taken
    OBVIOUS
  <2>. DEFINE T == mine \ taken
  <2>1. T \in SUBSET {s \in Slots : s[1] = m} /\ T # {}  OBVIOUS
  <2>2. \E s \in T : \A t \in T : s[2] <= t[2]  BY <1>5, <2>1, FirstSlot
  <2>. QED  BY <2>2
<1>8. best \in Slots \cup {NoSlot} /\ hook[h].bestLoad \in Nat
  BY <1>1 DEF HookRecords
<1>9. best # NoSlot => /\ best \in Slots /\ slotLock[best] = h /\ best[1] \in found[h].free
                       /\ best[1] \in Machines
                       /\ hook[h].bestLoad = found[h].load[best[1]]
                       /\ \A k \in found[h].free :
                            NoBetter(k, found[h].load[k], best[1], hook[h].bestLoad)
  <2>1. found[h].free \subseteq Machines  BY <1>1 DEF FoundRecords
  <2>. QED  BY <1>1, <1>2, <2>1 DEF BestInv
<1>10. /\ mainLock = h
       /\ \A s \in Slots : slotLock[s] = h => s = best
       /\ \A k \in found[h].free : k < m
       /\ best = NoSlot => found[h].free = {}
  BY <1>1, <1>2 DEF ScanInv
<1>11. undecided = {}
  <2>. SUFFICES ASSUME NEW s \in taken, hook[slotLock[s]].pc = "scan" PROVE FALSE
    OBVIOUS
  <2>1. slotLock[s] \in Hooks /\ s \in Slots /\ s[1] = m  BY <1>1 DEF HookTypes
  <2>2. slotLock[s] = h  BY <1>2, <2>1, OneScans
  <2>3. s = best /\ best # NoSlot  BY <1>10, <2>1, <2>2, SlotFacts
  <2>4. m < m  BY <1>9, <1>10, <2>1, <2>3
  <2>. QED  BY <1>5, <2>4, SlotFacts
<1>12. /\ newBest \in Slots \cup {NoSlot} /\ newLoad \in Nat /\ newType \in BOOLEAN
       /\ newBest \in Slots => slotLock[newBest] \in {h, NoHook}
  <2>1. CASE wins  BY <1>6, <1>7, <2>1, <1>1 DEF HookRecords
  <2>2. CASE ~wins  BY <1>8, <1>9, <2>2, <1>1, SlotFacts DEF HookRecords
  <2>. QED  BY <2>1, <2>2
<1>13. /\ r \in HookRecords /\ r.pc = "scan" /\ r.m = m + 1
       /\ r.best = newBest /\ r.bestLoad = newLoad
  <2>1. m + 1 \in Nat \ {0}  BY <1>5, SlotFacts
  <2>. HIDE DEF m, newBest, newLoad, newType
  <2>. QED  BY <1>1, <1>2, <1>12, <2>1 DEF HookRecords
<1>14. /\ newFound \in FoundRecords /\ newFound.undecided = {}
       /\ newFound.free = IF suitable /\ taken # mine
                          THEN found[h].free \cup {m} ELSE found[h].free
       /\ newFound.load = IF suitable THEN [found[h].load EXCEPT ![m] = load]
                          ELSE found[h].load
  <2>. HIDE DEF m, suitable, taken, mine, load, undecided
  <2>1. CASE suitable
    <3>1. /\ f.free = IF taken # mine THEN found[h].free \cup {m} ELSE found[h].free
          /\ f.load = [found[h].load EXCEPT ![m] = load]
          /\ f.undecided = {}
      BY <1>1, <1>11 DEF FoundRecords
    <3>2. f \in FoundRecords
      BY <1>1, <1>5, <1>6, <1>11 DEF FoundRecords
    <3>. QED  BY <2>1, <3>1, <3>2
  <2>2. CASE ~suitable  BY <1>1, <2>2
  <2>. QED  BY <2>1, <2>2
<1>. HIDE DEF r, newFound
<1>15. hook'[h] = r /\ found'[h] = newFound
  BY <1>1, <1>3, <1>4 DEF HookTypes
<1>16. /\ slotLock' \in [Slots -> Hooks \cup {NoHook}]
       /\ \A s \in Slots : slotLock'[s] = h <=> s = newBest
       /\ \A g \in Hooks \ {h} : \A s \in Slots : slotLock'[s] = g <=> slotLock[s] = g
  <2>. HIDE DEF newBest
  <2>. QED  BY <1>1, <1>2, <1>12, OnlySlotFacts
<1>17. HookTypes'
  BY <1>1, <1>2, <1>3, <1>4, <1>13, <1>14, <1>16 DEF HookTypes
<1>18. newBest = NoSlot => ~wins /\ best = NoSlot
  BY <1>7, SlotFacts
<1>19. ScanInv(h)'
  <2>1. newBest = NoSlot => newFound.free = {}
    BY <1>10, <1>14, <1>18
  <2>2. \A k \in newFound.free : k < m + 1
    BY <1>5, <1>10, <1>14, <1>1, SlotFacts DEF FoundRecords
  <2>. HIDE DEF newBest, m
  <2>. QED  BY <1>2, <1>10, <1>13, <1>15, <1>16, <2>1, <2>2 DEF ScanInv
<1>20. ASSUME NEW k \in found[h].free
       PROVE  /\ k \in Machines /\ k # m /\ newFound.load[k] = found[h].load[k]
              /\ found[h].load[k] \in Nat
  <2>1. k \in Machines /\ found[h].load \in [Machines -> Nat]  BY <1>1 DEF FoundRecords
  <2>2. k # m  BY <1>5, <1>10, SlotFacts
  <2>. HIDE DEF suitable, load
  <2>. QED  BY <1>14, <2>1, <2>2
<1>21. suitable => newFound.load[m] = load
  <2>1. found[h].load \in [Machines -> Nat]  BY <1>1 DEF FoundRecords
  <2>. HIDE DEF suitable, load
  <2>. QED  BY <1>5, <1>14, <2>1
<1>22. ASSUME newBest # NoSlot
       PROVE  LET n == newBest[1]
              IN  /\ newBest \in Slots /\ n \in newFound.free
                  /\ newLoad = newFound.load[n]
                  /\ \A k \in newFound.free :
                        NoBetter(k, newFound.load[k], n, newFound.load[n])
  <2>1. CASE wins
    <3>1. newBest \in Slots /\ newBest[1] = m /\ newLoad = load /\ newFound.load[m] = load
      BY <1>7, <1>21, <2>1
    <3>2. newFound.free = found[h].free \cup {m}
      BY <1>14, <2>1
    <3>3. ASSUME NEW k \in found[h].free PROVE NoBetter(k, newFound.load[k], m, load)
      <4>1. best # NoSlot  BY <1>10
      <4>2. Better(m, load, best[1], hook[h].bestLoad)  BY <2>1, <4>1
      <4>3. NoBetter(k, found[h].load[k], best[1], hook[h].bestLoad) /\ best[1] \in Machines
        BY <1>9, <4>1
      <4>. HIDE DEF m, load, best, wins
      <4>4. NoBetter(k, found[h].load[k], m, load)
        BY <1>5, <1>6, <1>8, <1>20, <4>2, <4>3, BetterFacts
      <4>. QED  BY <1>20, <4>4
    <3>4. NoBetter(m, load, m, load)
      BY <1>5, <1>6, BetterFacts
    <3>. HIDE DEF m, load, newBest, newLoad, wins
    <3>. QED  BY <3>1, <3>2, <3>3, <3>4
  <2>2. CASE ~wins
    <3>1. newBest = best /\ newLoad = hook[h].bestLoad /\ best # NoSlot
      BY <1>22, <2>2
    <3>2. /\ best \in Slots /\ best[1] \in found[h].free /\ best[1] \in Machines
          /\ hook[h].bestLoad = newFound.load[best[1]]
          /\ \A k \in found[h].free :
                NoBetter(k, newFound.load[k], best[1], hook[h].bestLoad)
      BY <1>9, <1>20, <3>1
    <3>3. ASSUME NEW k \in newFound.free
          PROVE  NoBetter(k, newFound.load[k], best[1], hook[h].bestLoad)
      <4>1. CASE k \in found[h].free  BY <3>2, <4>1
      <4>2. CASE k \notin found[h].free
        <5>1. k = m /\ suitable /\ taken # mine  BY <1>14, <4>2
        <5>2. ~Better(m, load, best[1], hook[h].bestLoad)  BY <2>2, <3>1, <5>1
        <5>. HIDE DEF m, load, best
        <5>3. NoBetter(m, load, best[1], hook[h].bestLoad)
          BY <1>5, <1>6, <1>8, <3>2, <5>2, BetterFacts
        <5>. QED  BY <1>21, <5>1, <5>3
      <4>. QED  BY <4>1, <4>2
    <3>4. best[1] \in newFound.free  BY <1>14, <3>2
    <3>. HIDE DEF best, newBest, newLoad, wins
    <3>. QED  BY <3>1, <3>2, <3>3, <3>4
  <2>. QED  BY <2>1, <2>2
<1>23. BestInv(h)'
  <2>. HIDE DEF newBest, newLoad
  <2>1. SUFFICES ASSUME newBest # NoSlot PROVE BestInv(h)'
    BY <1>13, <1>15 DEF BestInv
  <2>. QED  BY <1>13, <1>15, <1>16, <1>22, <2>1 DEF BestInv, NoBetter
<1>24. ASSUME NEW g \in Hooks \ {h} PROVE ScanInv(g)' /\ BestInv(g)' /\ found'[g].undecided = {}
  <2>1. hook'[g] = hook[g] /\ found'[g] = found[g]  BY <1>1, <1>3, <1>4 DEF HookTypes
  <2>2. hook[g].pc # "scan"  BY <1>2, OneScans
  <2>. QED  BY <1>16, <2>1, <2>2, OtherHook
<1>. QED  BY <1>14, <1>15, <1>17, <1>19, <1>23, <1>24 DEF HookInv

\* HookInv is inductive.
LEMMA HookStepInv == HookInv /\ [HookNext]_hookVars => HookInv'
<1>. SUFFICES ASSUME HookInv, [HookNext]_hookVars PROVE HookInv'  OBVIOUS
<1>1. ASSUME NEW h \in Hooks,
             \/ TakeMainLock(h) \/ Consider(h) \/ Refuse(h) \/ ReleaseMainLock(h)
             \/ ConnectFails(h) \/ Accept(h) \/ AskAgain(h) \/ Exit(h)
      PROVE  HookInv'
  BY <1>1, TakeMainLockInv, ConsiderInv, RefuseInv, ReleaseMainLockInv, ConnectFailsInv,
     AcceptInv, AskAgainInv, ExitInv
<1>2. CASE UNCHANGED hookVars
  BY <1>2 DEF hookVars, HookInv, HookTypes, ScanInv, BestInv, NoBetter
<1>. QED  BY <1>1, <1>2 DEF HookNext

\* No hook counts a slot that another one has not decided for or keeps one while it
\* waits, and each connects
\* to the best machine that had a free slot, for any machines and hooks.
THEOREM BestMachineIsChosen == HookSpec => []BestMachineChosen
<1>1. HookInv => BestMachineChosen
  <2>1. HookInv => \A h \in Hooks, s \in Slots : slotLock[s] = h =>
                     s = hook[h].best /\ hook[h].pc \in {"scan", "connect", "accepted"}
    BY DEF HookInv, ScanInv
  <2>. SUFFICES ASSUME HookInv, NEW h \in Hooks, hook[h].pc = "connect"
                PROVE  LET n == hook[h].best[1]
                       IN  /\ slotLock[hook[h].best] = h
                           /\ n \in found[h].free
                           /\ \A m \in found[h].free :
                                NoBetter(m, found[h].load[m], n, found[h].load[n])
    BY <2>1 DEF BestMachineChosen, NoBetter, HookInv
  <2>. QED  BY DEF HookInv, BestInv
<1>. QED  BY <1>1, HookInitInv, HookStepInv, PTL DEF HookSpec

(***************************************************************************)
(* DaemonProtocol: InStep                                                  *)
(***************************************************************************)
Messages == {"plain", "silent", "nar", "framed", "checked", "frame", "end",
             "log", "last", "error", "reply"}

ClientRecords ==
    [pc : {"idle", "check", "write", "end", "await", "reply", "closed", "assert"},
     kind : Messages, left : Int, ops : Int, exc : {"none", "daemon", "other"}]

DaemonRecords ==
    [pc : {"top", "start", "work", "drain", "stop", "reply", "gone", "lost"},
     kind : Messages, eof : BOOLEAN, threw : BOOLEAN, canSendStderr : BOOLEAN,
     pendingMsgs : Nat, logs : Int, rejected : BOOLEAN]

DaemonTypes ==
    /\ up \in Seq(Messages) /\ down \in Seq(Messages)
    /\ client \in ClientRecords /\ daemon \in DaemonRecords

\* The frames of an upload that are under way; "end" is there unless more follow.
FramesLeft(s, more) ==
    /\ ~more => s # <<>>
    /\ \A i \in 1 .. Len(s) : s[i] = IF i = Len(s) /\ ~more THEN "end" ELSE "frame"

\* An operation that is under way, with its frames.
OpLeft(s, more) ==
    /\ s # <<>> /\ s[1] \in Kinds
    /\ IF Streams(s[1]) THEN FramesLeft(Tail(s), more) ELSE Len(s) = 1 /\ ~more

OnlyLogs(s, n) == \A i \in 1 .. n : s[i] = "log"

LastLeft(s) == s # <<>> /\ s[Len(s)] = "last" /\ OnlyLogs(s, Len(s) - 1)

ErrorLeft(s) == s # <<>> /\ s[Len(s)] = "error" /\ OnlyLogs(s, Len(s) - 1)

ReplyLeft(s) ==
    Len(s) > 1 /\ s[Len(s)] = "reply" /\ s[Len(s) - 1] = "last" /\ OnlyLogs(s, Len(s) - 2)

AnswerLeft(s, kind) == ErrorLeft(s) \/ (IF HasReply(kind) THEN ReplyLeft(s) ELSE LastLeft(s))

Sending == client.pc \in {"check", "write", "end"}

\* What is under way to the daemon is what it goes on to read.
UpInv ==
    /\ daemon.pc = "top" => (up = <<>> /\ ~Sending) \/ OpLeft(up, Sending)
    /\ daemon.pc \in {"start", "work"} =>
          IF daemon.eof THEN up = <<>> /\ ~Sending ELSE FramesLeft(up, Sending)
    /\ daemon.pc = "drain" => FramesLeft(up, Sending)
    /\ daemon.pc \in {"stop", "reply"} => up = <<>> /\ ~Sending

\* What is under way to the client is what it goes on to read.
DownInv ==
    /\ daemon.pc = "top" /\ up # <<>> => down = <<>> /\ client.pc \notin {"idle", "reply"}
    /\ daemon.pc = "top" /\ up = <<>> =>
          \/ client.pc = "idle" /\ down = <<>>
          \/ client.pc = "await" /\ AnswerLeft(down, client.kind)
          \/ client.pc = "reply" /\ down = <<"reply">>
    /\ daemon.pc = "start" => down = <<>> /\ client.pc \notin {"idle", "reply"}
    /\ daemon.pc \in {"work", "drain", "stop"} =>
          OnlyLogs(down, Len(down)) /\ client.pc \notin {"idle", "reply"}
    /\ daemon.pc = "reply" => \/ client.pc = "await" /\ LastLeft(down)
                              \/ client.pc = "reply" /\ down = <<>>
    /\ daemon.pc = "gone" /\ Sending => \A i \in 1 .. Len(down) : down[i] = "error"

\* The daemon works on the operation of the client.
KindInv ==
    /\ daemon.pc = "top" /\ up # <<>> => up[1] = client.kind
    /\ daemon.pc \in {"start", "work", "drain", "stop", "reply"} => daemon.kind = client.kind
    /\ daemon.pc = "reply" => HasReply(daemon.kind)

\* An error that reaches the client while it sends is the last word of the daemon;
\* log messages are held back between operations.
PeerInv ==
    /\ daemon.pc # "lost" /\ client.pc # "assert"
    /\ client.pc \in {"check", "write"} => client.exc = "none"
    /\ client.pc = "end" /\ client.exc = "daemon" => daemon.pc = "gone"
    /\ daemon.pc # "gone" => (daemon.canSendStderr <=> daemon.pc \in {"work", "drain", "stop"})

SyncInv == PeerInv /\ UpInv /\ KindInv /\ (client.pc # "closed" => DownInv)

DaemonInv == DaemonTypes /\ (daemon.rejected \/ SyncInv)

-----------------------------------------------------------------------------
(* What is under way, as it is read and written                            *)

\* A message added at the end.
LEMMA AppendFacts ==
    ASSUME NEW s \in Seq(Messages), NEW m \in Messages
    PROVE  /\ Append(s, m) \in Seq(Messages) /\ Append(s, m) # <<>>
           /\ Len(Append(s, m)) = Len(s) + 1 /\ Len(s) \in Nat
           /\ Append(s, m)[Len(s) + 1] = m
           /\ \A i \in 1 .. Len(s) : Append(s, m)[i] = s[i]
  OBVIOUS

\* Only the empty sequence has no length.
LEMMA EmptyLen == \A s \in Seq(Messages) : Len(s) = 0 <=> s = <<>>
  OBVIOUS

\* A message taken from the front.
LEMMA TailFacts ==
    ASSUME NEW s \in Seq(Messages), s # <<>>
    PROVE  /\ Tail(s) \in Seq(Messages) /\ Head(s) \in Messages /\ Head(s) = s[1]
           /\ Len(Tail(s)) = Len(s) - 1 /\ Len(s) \in Nat /\ Len(s) >= 1
           /\ \A i \in 1 .. Len(s) - 1 : Tail(s)[i] = s[i + 1]
           /\ Len(s) = 1 => Tail(s) = <<>>
<1>1. Len(s) \in Nat /\ Len(s) >= 1 /\ Head(s) = s[1] /\ Head(s) \in Messages
  OBVIOUS
<1>2. Tail(s) \in Seq(Messages) /\ Len(Tail(s)) = Len(s) - 1
  OBVIOUS
<1>3. \A i \in 1 .. Len(s) - 1 : Tail(s)[i] = s[i + 1]
  BY <1>1
<1>4. Len(s) = 1 => Tail(s) = <<>>
  <2>1. Len(s) = 1 => Len(Tail(s)) = 0
    BY <1>2
  <2> QED
    BY <1>2, <2>1, EmptyLen
<1> QED
  BY <1>1, <1>2, <1>3, <1>4

\* Frames are read one by one, and "end" is the last.
LEMMA FramesTail ==
    ASSUME NEW s \in Seq(Messages), s # <<>>, NEW more \in BOOLEAN, FramesLeft(s, more)
    PROVE  IF Head(s) = "end" THEN Tail(s) = <<>> /\ ~more ELSE FramesLeft(Tail(s), more)
<1>1. s[1] = (IF 1 = Len(s) /\ ~more THEN "end" ELSE "frame")
  <2>1. 1 \in 1 .. Len(s)
    BY TailFacts
  <2> QED
    BY <2>1 DEF FramesLeft
<1>2. CASE Head(s) = "end"
  BY <1>1, <1>2, TailFacts
<1>3. CASE Head(s) # "end"
  <2>1. ~more => Len(s) # 1
    BY <1>1, <1>3, TailFacts
  <2>2. ~more => Tail(s) # <<>>
    <3>1. ~more => Len(Tail(s)) # 0
      BY <2>1, TailFacts
    <3> QED
      BY <3>1
  <2>3. \A i \in 1 .. Len(Tail(s)) :
          Tail(s)[i] = IF i = Len(Tail(s)) /\ ~more THEN "end" ELSE "frame"
    <3> SUFFICES ASSUME NEW i \in 1 .. Len(s) - 1
                 PROVE  s[i + 1] = IF i = Len(s) - 1 /\ ~more THEN "end" ELSE "frame"
      BY TailFacts
    <3>1. i + 1 \in 1 .. Len(s)
      BY TailFacts
    <3> QED
      BY <3>1, TailFacts DEF FramesLeft
  <2> QED
    BY <1>3, <2>2, <2>3 DEF FramesLeft
<1> QED
  BY <1>2, <1>3

\* A frame or "end" is written.
LEMMA FramesAppend ==
    ASSUME NEW s \in Seq(Messages), FramesLeft(s, TRUE)
    PROVE  FramesLeft(Append(s, "frame"), TRUE) /\ FramesLeft(Append(s, "end"), FALSE)
<1>1. \A i \in 1 .. Len(s) : s[i] = "frame"
  BY DEF FramesLeft
<1>2. FramesLeft(Append(s, "frame"), TRUE)
  <2> SUFFICES ASSUME NEW i \in 1 .. Len(s) + 1
               PROVE  Append(s, "frame")[i] = "frame"
    BY AppendFacts DEF FramesLeft, Messages
  <2> QED
    BY <1>1, AppendFacts DEF Messages
<1>3. FramesLeft(Append(s, "end"), FALSE)
  <2>1. "end" \in Messages
    BY DEF Messages
  <2> SUFFICES ASSUME NEW i \in 1 .. Len(s) + 1
               PROVE  Append(s, "end")[i] = IF i = Len(s) + 1 THEN "end" ELSE "frame"
    BY <2>1, AppendFacts DEF FramesLeft
  <2> QED
    BY <1>1, <2>1, AppendFacts
<1> QED
  BY <1>2, <1>3

\* The same behind an operation that has not been read yet.
LEMMA OpAppend ==
    ASSUME NEW s \in Seq(Messages), OpLeft(s, TRUE)
    PROVE  OpLeft(Append(s, "frame"), TRUE) /\ OpLeft(Append(s, "end"), FALSE)
<1>1. s # <<>> /\ s[1] \in Kinds /\ Streams(s[1]) /\ FramesLeft(Tail(s), TRUE)
  BY DEF OpLeft
<1>2. Tail(s) \in Seq(Messages) /\ 1 \in 1 .. Len(s)
  BY <1>1, TailFacts
<1>3. \A m \in Messages : Append(s, m)[1] = s[1] /\ Append(s, m) # <<>>
  BY <1>2, AppendFacts
<1>4. \A m \in Messages : Tail(Append(s, m)) = Append(Tail(s), m)
  BY <1>1, SMTT(30)
<1>5. "frame" \in Messages /\ "end" \in Messages
  BY DEF Messages
<1> QED
  BY <1>1, <1>2, <1>3, <1>4, <1>5, FramesAppend DEF OpLeft

\* An operation is asked for.
LEMMA OpStarts ==
    ASSUME NEW kind \in Kinds
    PROVE  OpLeft(Append(<<>>, kind), Streams(kind))
<1>1. Append(<<>>, kind) = <<kind>> /\ Tail(<<kind>>) = <<>> /\ Len(<<kind>>) = 1
      /\ <<kind>> # <<>> /\ <<kind>>[1] = kind
  OBVIOUS
<1>2. FramesLeft(<<>>, TRUE)
  BY DEF FramesLeft
<1>3. CASE Streams(kind)
  BY <1>1, <1>2, <1>3 DEF OpLeft
<1>4. CASE ~Streams(kind)
  BY <1>1, <1>4 DEF OpLeft
<1> QED
  BY <1>3, <1>4

\* A log message, "last" and an answer are sent.
LEMMA LogsAppend ==
    ASSUME NEW s \in Seq(Messages), OnlyLogs(s, Len(s))
    PROVE  /\ OnlyLogs(Append(s, "log"), Len(Append(s, "log")))
           /\ LastLeft(Append(s, "last")) /\ ErrorLeft(Append(s, "error"))
<1>1. {"log", "last", "error"} \subseteq Messages
  BY DEF Messages
<1>2. OnlyLogs(Append(s, "log"), Len(Append(s, "log")))
  <2>1. \A i \in 1 .. Len(s) + 1 : Append(s, "log")[i] = "log"
    BY <1>1, AppendFacts DEF OnlyLogs
  <2> QED
    BY <1>1, <2>1, AppendFacts DEF OnlyLogs
<1>3. \A m \in Messages : \A i \in 1 .. Len(Append(s, m)) - 1 : Append(s, m)[i] = "log"
  BY AppendFacts DEF OnlyLogs
<1>4. \A m \in Messages : Append(s, m) # <<>> /\ Append(s, m)[Len(Append(s, m))] = m
  BY AppendFacts
<1> QED
  BY <1>1, <1>2, <1>3, <1>4 DEF OnlyLogs, LastLeft, ErrorLeft

\* The reply follows "last".
LEMMA ReplyAppend ==
    ASSUME NEW s \in Seq(Messages), LastLeft(s)
    PROVE  ReplyLeft(Append(s, "reply"))
<1> DEFINE a == Append(s, "reply")
<1>1. Len(a) = Len(s) + 1 /\ Len(s) \in Nat /\ Len(s) >= 1 /\ a[Len(s) + 1] = "reply"
      /\ \A i \in 1 .. Len(s) : a[i] = s[i]
  BY AppendFacts, TailFacts DEF LastLeft, Messages
<1> HIDE DEF a
<1>2. Len(a) > 1 /\ a[Len(a)] = "reply" /\ a[Len(a) - 1] = "last"
  BY <1>1 DEF LastLeft
<1>3. \A i \in 1 .. Len(a) - 2 : a[i] = "log"
  BY <1>1 DEF LastLeft, OnlyLogs
<1> QED
  BY <1>2, <1>3 DEF ReplyLeft, OnlyLogs, a

\* Log messages are read.
LEMMA LogsTail ==
    ASSUME NEW s \in Seq(Messages), s # <<>>, OnlyLogs(s, Len(s))
    PROVE  Head(s) = "log" /\ OnlyLogs(Tail(s), Len(Tail(s)))
<1>1. \A i \in 1 .. Len(s) - 1 : i + 1 \in 1 .. Len(s)
  BY TailFacts
<1> QED
  BY <1>1, TailFacts DEF OnlyLogs

\* "last" is read when there is nothing before it.
LEMMA LastTail ==
    ASSUME NEW s \in Seq(Messages), s # <<>>, LastLeft(s)
    PROVE  \/ Head(s) = "log" /\ LastLeft(Tail(s))
           \/ Head(s) = "last" /\ Tail(s) = <<>>
<1>0. Len(s) \in Nat /\ Len(s) >= 1 /\ Len(Tail(s)) = Len(s) - 1 /\ Head(s) = s[1]
      /\ Tail(s) \in Seq(Messages) /\ \A i \in 1 .. Len(s) - 1 : Tail(s)[i] = s[i + 1]
  BY TailFacts
<1>1. CASE Len(s) = 1
  BY <1>1, TailFacts DEF LastLeft
<1>2. CASE Len(s) # 1
  <2>1. Len(s) > 1 /\ Len(Tail(s)) = Len(s) - 1 /\ 1 \in 1 .. Len(s) - 1
    BY <1>0, <1>2
  <2>2. Head(s) = "log"
    BY <1>0, <2>1 DEF LastLeft, OnlyLogs
  <2>3. Tail(s)[Len(s) - 1] = s[Len(s)] /\ Tail(s) # <<>>
    <3>1. Len(s) - 1 \in 1 .. Len(s) - 1 /\ Len(s) - 1 + 1 = Len(s)
      BY <1>0, <2>1
    <3>2. Len(Tail(s)) # 0
      BY <1>0, <2>1
    <3>3. Tail(s) # <<>>
      BY <1>0, <3>2, EmptyLen
    <3> QED
      BY <1>0, <3>1, <3>3
  <2>4. \A i \in 1 .. Len(s) - 2 : Tail(s)[i] = "log"
    <3> SUFFICES ASSUME NEW i \in 1 .. Len(s) - 2
                 PROVE  Tail(s)[i] = "log"
      OBVIOUS
    <3>1. Tail(s)[i] = s[i + 1] /\ i + 1 \in 1 .. Len(s) - 1
      BY <2>1, TailFacts
    <3> QED
      BY <3>1 DEF LastLeft, OnlyLogs
  <2> QED
    BY <2>1, <2>2, <2>3, <2>4 DEF LastLeft, OnlyLogs
<1> QED
  BY <1>1, <1>2

\* The error is read when there is nothing before it.
LEMMA ErrorTail ==
    ASSUME NEW s \in Seq(Messages), s # <<>>, ErrorLeft(s)
    PROVE  \/ Head(s) = "log" /\ ErrorLeft(Tail(s))
           \/ Head(s) = "error" /\ Tail(s) = <<>>
<1> DEFINE n == Len(s)
           t == Tail(s)
<1>1. n \in Nat /\ n >= 1 /\ Len(t) = n - 1 /\ Head(s) = s[1] /\ t \in Seq(Messages)
      /\ \A i \in 1 .. n - 1 : t[i] = s[i + 1]
  BY TailFacts
<1>2. s[n] = "error" /\ OnlyLogs(s, n - 1)
  BY DEF ErrorLeft
<1>3. CASE n = 1
  BY <1>2, <1>3, TailFacts
<1>4. CASE n # 1
  <2> HIDE DEF n, t
  <2>1. Head(s) = "log" /\ t # <<>> /\ t[Len(t)] = "error"
    BY <1>1, <1>2, <1>4 DEF OnlyLogs
  <2>2. \A i \in 1 .. Len(t) - 1 : t[i] = "log"
    BY <1>1, <1>2, <1>4 DEF OnlyLogs
  <2> QED
    BY <2>1, <2>2 DEF ErrorLeft, OnlyLogs, t
<1> QED
  BY <1>3, <1>4

\* "last" is read before the reply.
LEMMA ReplyTail ==
    ASSUME NEW s \in Seq(Messages), s # <<>>, ReplyLeft(s)
    PROVE  \/ Head(s) = "log" /\ ReplyLeft(Tail(s))
           \/ Head(s) = "last" /\ Tail(s) = <<"reply">>
<1> DEFINE n == Len(s)
           t == Tail(s)
<1>1. n \in Nat /\ n >= 1 /\ Len(t) = n - 1 /\ Head(s) = s[1] /\ t \in Seq(Messages)
      /\ \A i \in 1 .. n - 1 : t[i] = s[i + 1]
  BY TailFacts
<1>2. n > 1 /\ s[n] = "reply" /\ s[n - 1] = "last" /\ OnlyLogs(s, n - 2)
  BY DEF ReplyLeft
<1>3. CASE n = 2
  <2>1. Len(t) = 1 /\ t[1] = "reply" /\ Head(s) = "last"
    <3> HIDE DEF n, t
    <3>1. n - 1 = 1 /\ 1 \in 1 .. n - 1 /\ 1 + 1 = n
      BY <1>1, <1>3
    <3> QED
      BY <1>1, <1>2, <3>1
  <2>2. t = <<"reply">>
    <3> HIDE DEF t
    <3> QED
      BY <1>1, <2>1
  <2> QED
    BY <2>1, <2>2
<1>4. CASE n # 2
  <2> HIDE DEF n, t
  <2>1. n > 2
    BY <1>1, <1>2, <1>4
  <2>2. Head(s) = "log" /\ Len(t) > 1 /\ t[Len(t)] = "reply" /\ t[Len(t) - 1] = "last"
    <3>1. 1 \in 1 .. n - 2 /\ n - 1 \in 1 .. n - 1 /\ n - 2 \in 1 .. n - 1
          /\ n - 1 + 1 = n /\ n - 2 + 1 = n - 1 /\ Len(t) - 1 = n - 2 /\ Len(t) > 1
      BY <1>1, <2>1
    <3>2. t[n - 1] = s[n] /\ t[n - 2] = s[n - 1]
      BY <1>1, <3>1
    <3>3. Head(s) = "log"
      BY <1>1, <1>2, <3>1 DEF OnlyLogs
    <3>4. t[Len(t)] = t[n - 1] /\ t[Len(t) - 1] = t[n - 2]
      BY <1>1, <3>1
    <3> QED
      BY <1>2, <3>1, <3>2, <3>3, <3>4
  <2>3. \A i \in 1 .. Len(t) - 2 : t[i] = "log"
    <3> SUFFICES ASSUME NEW i \in 1 .. Len(t) - 2
                 PROVE  t[i] = "log"
      OBVIOUS
    <3>1. i \in 1 .. n - 1 /\ i + 1 \in 1 .. n - 2
      BY <1>1, <2>1
    <3>2. t[i] = s[i + 1]
      BY <1>1, <3>1
    <3> QED
      BY <1>2, <3>1, <3>2 DEF OnlyLogs
  <2> QED
    BY <2>2, <2>3 DEF ReplyLeft, OnlyLogs, t
<1> QED
  BY <1>3, <1>4

\* An answer is an error, or "last" and the reply if the operation has one.
LEMMA AnswerTail ==
    ASSUME NEW s \in Seq(Messages), s # <<>>, NEW kind, AnswerLeft(s, kind)
    PROVE  \/ Head(s) = "log" /\ AnswerLeft(Tail(s), kind)
           \/ Head(s) = "error" /\ Tail(s) = <<>>
           \/ Head(s) = "last" /\ Tail(s) = IF HasReply(kind) THEN <<"reply">> ELSE <<>>
<1>1. CASE ErrorLeft(s)
  BY <1>1, ErrorTail DEF AnswerLeft
<1>2. CASE HasReply(kind) /\ ReplyLeft(s)
  BY <1>2, ReplyTail DEF AnswerLeft
<1>3. CASE ~HasReply(kind) /\ LastLeft(s)
  BY <1>3, LastTail DEF AnswerLeft
<1> QED
  BY <1>1, <1>2, <1>3 DEF AnswerLeft

-----------------------------------------------------------------------------
(* The steps of the client                                                 *)

\* The initial state satisfies DaemonInv.
LEMMA DaemonInitInv == DaemonInit => DaemonInv
<1> SUFFICES ASSUME DaemonInit
             PROVE  DaemonInv
  OBVIOUS
<1>1. client \in ClientRecords /\ client.pc = "idle"
  BY DEF DaemonInit, ClientRecords, Messages
<1>2. daemon \in DaemonRecords /\ daemon.pc = "top" /\ ~daemon.canSendStderr
  BY DEF DaemonInit, DaemonRecords, Messages
<1>3. up = <<>> /\ down = <<>> /\ <<>> \in Seq(Messages)
  BY DEF DaemonInit
<1> QED
  BY <1>1, <1>2, <1>3
     DEF DaemonInv, DaemonTypes, SyncInv, PeerInv, UpInv, DownInv, KindInv, Sending

\* ClientAt changes where the client is, and nothing else.
LEMMA ClientAtFields ==
    ASSUME client \in ClientRecords, NEW pc, ClientAt(pc),
           pc \in {"idle", "check", "write", "end", "await", "reply", "closed", "assert"}
    PROVE  /\ client' \in ClientRecords /\ client'.pc = pc /\ client'.exc = client.exc
           /\ client'.kind = client.kind
  BY DEF ClientAt, ClientRecords

\* DaemonAt changes where the daemon is, and nothing else.
LEMMA DaemonAtFields ==
    ASSUME daemon \in DaemonRecords, NEW pc, DaemonAt(pc),
           pc \in {"top", "start", "work", "drain", "stop", "reply", "gone", "lost"}
    PROVE  /\ daemon' \in DaemonRecords /\ daemon'.pc = pc /\ daemon'.eof = daemon.eof
           /\ daemon'.canSendStderr = daemon.canSendStderr /\ daemon'.rejected = daemon.rejected
           /\ daemon'.kind = daemon.kind
  BY DEF DaemonAt, DaemonRecords

\* A request is made only when nothing is under way.
LEMMA RequestSync ==
    ASSUME DaemonInv, Request
    PROVE  DaemonTypes' /\ daemon' = daemon /\ (SyncInv => SyncInv')
<1>1. PICK kind \in Kinds :
        /\ ToDaemon(kind)
        /\ \E n \in IF Streams(kind) THEN 0 .. MaxFrames ELSE {0} :
              client' = [pc |-> IF Streams(kind) THEN "check" ELSE "await",
                         kind |-> kind, left |-> n, ops |-> client.ops + 1, exc |-> "none"]
  BY DEF Request
<1>2. client.pc = "idle" /\ UNCHANGED <<down, daemon>>
  BY DEF Request
<1>3. kind \in Messages /\ daemon.pc # "gone" /\ up' = Append(up, kind)
  BY <1>1, DaemonProtocolAssumption DEF Messages, ToDaemon
<1>4. PICK n \in Int :
        client' = [pc |-> IF Streams(kind) THEN "check" ELSE "await",
                   kind |-> kind, left |-> n, ops |-> client.ops + 1, exc |-> "none"]
  BY <1>1
<1>5. client.ops + 1 \in Int
  BY DEF DaemonInv, DaemonTypes, ClientRecords
<1>6. client' \in ClientRecords /\ client'.pc = (IF Streams(kind) THEN "check" ELSE "await")
      /\ client'.exc = "none" /\ client'.kind = kind
  BY <1>3, <1>4, <1>5 DEF ClientRecords
<1>7. up' \in Seq(Messages) /\ up' # <<>> /\ (up = <<>> => up'[1] = kind)
  BY <1>3, AppendFacts DEF DaemonInv, DaemonTypes
<1>8. ASSUME SyncInv
      PROVE  SyncInv'
  <2>1. daemon.pc = "top" /\ up = <<>> /\ down = <<>>
    BY <1>2, <1>3, <1>8 DEF SyncInv, PeerInv, DownInv, DaemonInv, DaemonTypes, DaemonRecords
  <2>2. OpLeft(up', Streams(kind))
    BY <1>3, <2>1, OpStarts
  <2>3. Sending' <=> Streams(kind)
    BY <1>6 DEF Sending
  <2>4. UpInv'
    <3>1. OpLeft(up', Sending')
      <4>1. CASE Streams(kind)
        BY <2>2, <2>3, <4>1 DEF OpLeft, FramesLeft
      <4>2. CASE ~Streams(kind)
        BY <2>2, <2>3, <4>2 DEF OpLeft, FramesLeft
      <4> QED
        BY <4>1, <4>2
    <3> QED
      BY <1>2, <2>1, <3>1 DEF UpInv
  <2>5. PeerInv' /\ DownInv'
    BY <1>2, <1>6, <1>7, <1>8, <2>1 DEF SyncInv, PeerInv, DownInv
  <2>6. KindInv'
    BY <1>2, <1>6, <1>7, <2>1 DEF KindInv
  <2> QED
    BY <2>4, <2>5, <2>6 DEF SyncInv
<1> QED
  BY <1>2, <1>6, <1>7, <1>8 DEF DaemonInv, DaemonTypes

\* UpInv depends on the client only in that it sends or does not.
LEMMA UpKept ==
    ASSUME UpInv, daemon' = daemon, up' = up, Sending' <=> Sending
    PROVE  UpInv'
  BY DEF UpInv, OpLeft, FramesLeft

\* KindInv depends on the client only in the kind of its operation.
LEMMA KindKept ==
    ASSUME KindInv, daemon' = daemon, up' = up, client'.kind = client.kind
    PROVE  KindInv'
  BY DEF KindInv

\* checkError finds log messages, or that the daemon has ended.
LEMMA CheckErrorSync ==
    ASSUME DaemonInv, CheckError
    PROVE  DaemonTypes' /\ daemon' = daemon /\ (SyncInv => SyncInv')
<1>1. client.pc = "check" /\ UNCHANGED <<up, daemon>> /\ client \in ClientRecords
      /\ down \in Seq(Messages) /\ daemon \in DaemonRecords /\ Sending
  BY DEF CheckError, DaemonInv, DaemonTypes, Sending
<1>2. CASE down = <<>> /\ ClientAt(IF client.left > 0 THEN "write" ELSE "end") /\ UNCHANGED down
  <2>1. client' \in ClientRecords /\ client'.pc \in {"write", "end"} /\ client'.exc = client.exc
        /\ client'.kind = client.kind
    BY <1>1, <1>2, ClientAtFields
  <2>2. Sending'
    BY <2>1 DEF Sending
  <2>3. SyncInv => UpInv'
    BY <1>1, <2>2, UpKept DEF SyncInv
  <2>4. SyncInv => PeerInv' /\ DownInv' /\ KindInv'
    BY <1>1, <1>2, <2>1, KindKept DEF SyncInv, PeerInv, DownInv
  <2> QED
    BY <1>1, <1>2, <2>1, <2>3, <2>4 DEF SyncInv, DaemonInv, DaemonTypes
<1>3. CASE /\ down # <<>> /\ down' = Tail(down)
           /\ CASE Head(down) = "log" -> UNCHANGED client
                [] Head(down) = "error" -> client' = [client EXCEPT !.pc = "end", !.exc = "daemon"]
                [] OTHER -> ClientAt("assert")
  <2>1. down' \in Seq(Messages) /\ Head(down) \in Messages
    BY <1>1, <1>3, TailFacts
  <2>2. CASE Head(down) = "log"
    <3>1. client' = client
      BY <1>3, <2>2
    <3>2. ASSUME SyncInv
          PROVE  SyncInv'
      <4>1. UpInv' /\ PeerInv' /\ KindInv'
        BY <1>1, <3>1, <3>2, UpKept, KindKept DEF SyncInv, PeerInv, Sending
      <4>2. daemon.pc \in {"work", "drain"} /\ OnlyLogs(down, Len(down))
        <5>1. daemon.pc \notin {"stop", "reply", "top", "start", "lost"}
          BY <1>1, <1>3, <3>2 DEF SyncInv, PeerInv, UpInv, DownInv
        <5>2. daemon.pc = "gone" => down[1] = "error"
          BY <1>1, <1>3, <3>2, TailFacts DEF SyncInv, DownInv
        <5>3. daemon.pc # "gone"
          BY <1>1, <1>3, <2>2, <5>2, TailFacts
        <5>4. daemon.pc \in {"work", "drain"}
          BY <1>1, <5>1, <5>3 DEF DaemonRecords
        <5> QED
          BY <1>1, <3>2, <5>4 DEF SyncInv, DownInv
      <4>3. OnlyLogs(down', Len(down'))
        BY <1>1, <1>3, <4>2, LogsTail
      <4>4. DownInv'
        BY <1>1, <3>1, <4>2, <4>3 DEF DownInv
      <4> QED
        BY <4>1, <4>4 DEF SyncInv
    <3> QED
      BY <1>1, <2>1, <3>1, <3>2 DEF DaemonInv, DaemonTypes
  <2>3. CASE Head(down) # "log"
    <3>1. ASSUME SyncInv
          PROVE  daemon.pc = "gone" /\ Head(down) = "error"
      <4>1. daemon.pc \notin {"stop", "reply", "top", "start", "lost"}
        BY <1>1, <1>3, <3>1 DEF SyncInv, PeerInv, UpInv, DownInv
      <4>2. daemon.pc \in {"work", "drain"} => Head(down) = "log"
        BY <1>1, <1>3, <3>1, LogsTail DEF SyncInv, DownInv
      <4>3. daemon.pc = "gone"
        BY <1>1, <2>3, <4>1, <4>2 DEF DaemonRecords
      <4> QED
        BY <1>1, <1>3, <3>1, <4>3, TailFacts DEF SyncInv, DownInv
    <3>2. CASE Head(down) = "error"
      <4>1. client' \in ClientRecords /\ client'.pc = "end" /\ client'.kind = client.kind
        BY <1>1, <1>3, <3>2 DEF ClientRecords
      <4>2. ASSUME SyncInv
            PROVE  SyncInv'
        <5>1. UpInv'
          BY <1>1, <4>1, <4>2, UpKept DEF SyncInv, Sending
        <5>2. \A i \in 1 .. Len(down') : down'[i] = "error"
          BY <1>1, <1>3, <3>1, <4>2, TailFacts DEF SyncInv, DownInv
        <5> QED
          BY <1>1, <3>1, <4>1, <4>2, <5>1, <5>2, KindKept DEF SyncInv, PeerInv, DownInv
      <4> QED
        BY <1>1, <2>1, <4>1, <4>2 DEF DaemonInv, DaemonTypes
    <3>3. CASE Head(down) # "error"
      <4>1. client' \in ClientRecords
        BY <1>1, <1>3, <2>3, <3>3, ClientAtFields
      <4> QED
        BY <1>1, <2>1, <3>1, <3>3, <4>1 DEF DaemonInv, DaemonTypes
    <3> QED
      BY <3>2, <3>3
  <2> QED
    BY <2>2, <2>3
<1> QED
  BY <1>2, <1>3 DEF CheckError

\* More of the upload is written, or its end.
LEMMA UploadSync ==
    ASSUME DaemonInv, SyncInv, daemon' = daemon, down' = down, daemon.pc # "gone",
           client.pc \in {"write", "end"}, NEW m \in {"frame", "end"}, up' = Append(up, m),
           client'.pc = IF m = "frame" THEN "check" ELSE client'.pc,
           m = "end" => client'.pc \in {"await", "closed"}, client'.exc = client.exc,
           client'.kind = client.kind,
           m = "frame" => client.pc = "write"
    PROVE  SyncInv'
<1>1. Sending /\ up \in Seq(Messages) /\ m \in Messages /\ (Sending' <=> m = "frame")
      /\ daemon \in DaemonRecords
  BY DEF Sending, DaemonInv, DaemonTypes, Messages
<1>2. up' # <<>>
  BY <1>1, AppendFacts
<1>3. daemon.pc \notin {"stop", "reply", "lost"} /\ (daemon.pc \in {"start", "work"} => ~daemon.eof)
  BY <1>1 DEF SyncInv, UpInv, PeerInv
<1>4. daemon.pc = "top" => OpLeft(up', m = "frame")
  <2> SUFFICES ASSUME daemon.pc = "top"
               PROVE  OpLeft(up', m = "frame")
    OBVIOUS
  <2>1. OpLeft(up, TRUE)
    BY <1>1 DEF SyncInv, UpInv, OpLeft, FramesLeft
  <2>2. OpLeft(Append(up, "frame"), TRUE) /\ OpLeft(Append(up, "end"), FALSE)
    BY <1>1, <2>1, OpAppend
  <2>3. CASE m = "frame"
    BY <2>2, <2>3 DEF OpLeft, FramesLeft
  <2>4. CASE m = "end"
    BY <2>2, <2>4 DEF OpLeft, FramesLeft
  <2> QED
    BY <2>3, <2>4
<1>5. daemon.pc \in {"start", "work", "drain"} => FramesLeft(up', m = "frame")
  <2> SUFFICES ASSUME daemon.pc \in {"start", "work", "drain"}
               PROVE  FramesLeft(up', m = "frame")
    OBVIOUS
  <2>1. FramesLeft(up, TRUE)
    BY <1>1, <1>3 DEF SyncInv, UpInv, FramesLeft
  <2>2. FramesLeft(Append(up, "frame"), TRUE) /\ FramesLeft(Append(up, "end"), FALSE)
    BY <1>1, <2>1, FramesAppend
  <2>3. CASE m = "frame"
    BY <2>2, <2>3 DEF FramesLeft
  <2>4. CASE m = "end"
    BY <2>2, <2>4 DEF FramesLeft
  <2> QED
    BY <2>3, <2>4
<1>6. UpInv'
  <2>1. CASE m = "frame"
    BY <1>1, <1>3, <1>4, <1>5, <2>1 DEF UpInv, OpLeft, FramesLeft
  <2>2. CASE m = "end"
    BY <1>1, <1>3, <1>4, <1>5, <2>2 DEF UpInv, OpLeft, FramesLeft
  <2> QED
    BY <2>1, <2>2
<1>7. PeerInv'
  BY DEF SyncInv, PeerInv
<1>8. client'.pc # "closed" => DownInv'
  <2>1. daemon.pc = "top" => up # <<>>
    BY <1>1 DEF SyncInv, UpInv, OpLeft
  <2> QED
    BY <1>1, <1>2, <1>3, <2>1 DEF SyncInv, DownInv
<1>9. KindInv'
  <2>1. daemon.pc = "top" => up # <<>>
    BY <1>1 DEF SyncInv, UpInv, OpLeft
  <2>2. up # <<>> => up'[1] = up[1]
    BY <1>1, AppendFacts, TailFacts
  <2> QED
    BY <2>1, <2>2 DEF SyncInv, KindInv
<1> QED
  BY <1>6, <1>7, <1>8, <1>9 DEF SyncInv

\* A frame is written.
LEMMA WriteFrameSync ==
    ASSUME DaemonInv, WriteFrame
    PROVE  DaemonTypes' /\ daemon' = daemon /\ (SyncInv => SyncInv')
<1>1. client.pc = "write" /\ daemon.pc # "gone" /\ up' = Append(up, "frame")
      /\ client' = [client EXCEPT !.pc = "check", !.left = @ - 1] /\ UNCHANGED <<down, daemon>>
  BY DEF WriteFrame, ToDaemon
<1>2. client' \in ClientRecords /\ client'.pc = "check" /\ client'.exc = client.exc
      /\ client'.kind = client.kind
  <2>1. client \in ClientRecords /\ client.left - 1 \in Int
    BY DEF DaemonInv, DaemonTypes, ClientRecords
  <2> QED
    BY <1>1, <2>1 DEF ClientRecords
<1>3. up' \in Seq(Messages)
  BY <1>1, AppendFacts DEF DaemonInv, DaemonTypes, Messages
<1> QED
  BY <1>1, <1>2, <1>3, UploadSync DEF DaemonInv, DaemonTypes

\* ~FramedSink: an error of the daemon leaves the connection good, but the daemon
\* has ended then.
LEMMA EndFramesSync ==
    ASSUME DaemonInv, EndFrames
    PROVE  DaemonTypes' /\ daemon' = daemon /\ (SyncInv => SyncInv')
<1>1. client.pc = "end" /\ ClientAt(AfterFrames) /\ UNCHANGED <<down, daemon>>
      /\ client \in ClientRecords
  BY DEF EndFrames, DaemonInv, DaemonTypes
<1>2. /\ client.exc = "none" => AfterFrames = "await"
      /\ client.exc = "daemon" => AfterFrames = "idle"
      /\ client.exc = "other" => AfterFrames = "closed"
      /\ client.exc \in {"none", "daemon", "other"}
  BY <1>1 DEF AfterFrames, ClientRecords
<1>3. client' \in ClientRecords /\ client'.pc = AfterFrames /\ client'.exc = client.exc
      /\ client'.kind = client.kind
  BY <1>1, <1>2, ClientAtFields
<1>4. CASE ToDaemon("end")
  <2>1. daemon.pc # "gone" /\ up' = Append(up, "end")
    BY <1>4 DEF ToDaemon
  <2>2. up' \in Seq(Messages)
    BY <2>1, AppendFacts DEF DaemonInv, DaemonTypes, Messages
  <2>3. SyncInv => client'.pc \in {"await", "closed"}
    BY <1>1, <1>2, <1>3, <2>1 DEF SyncInv, PeerInv
  <2>4. SyncInv => SyncInv'
    BY <1>1, <1>3, <2>1, <2>3, UploadSync
  <2> QED
    BY <1>1, <1>3, <2>2, <2>4 DEF DaemonInv, DaemonTypes
<1>5. CASE daemon.pc = "gone" /\ UNCHANGED up
  <2>1. SyncInv => SyncInv'
    BY <1>1, <1>2, <1>3, <1>5, KindKept DEF SyncInv, PeerInv, UpInv, DownInv, Sending
  <2> QED
    BY <1>1, <1>3, <1>5, <2>1 DEF DaemonInv, DaemonTypes
<1> QED
  BY <1>4, <1>5 DEF EndFrames

\* The client reads the answer to its operation.
LEMMA ReceiveMsgSync ==
    ASSUME DaemonInv, ReceiveMsg
    PROVE  DaemonTypes' /\ daemon' = daemon /\ (SyncInv => SyncInv')
<1> DEFINE pc == CASE Head(down) = "last" /\ HasReply(client.kind) -> "reply"
                   [] Head(down) = "log" -> "await"
                   [] OTHER -> "idle"
<1>1. client.pc = "await" /\ down # <<>> /\ down' = Tail(down) /\ ClientAt(pc)
      /\ UNCHANGED <<up, daemon>> /\ client \in ClientRecords /\ down \in Seq(Messages)
      /\ daemon \in DaemonRecords
  BY DEF ReceiveMsg, DaemonInv, DaemonTypes
<1>2. /\ Head(down) = "error" => pc = "idle"
      /\ Head(down) = "last" => pc = IF HasReply(client.kind) THEN "reply" ELSE "idle"
      /\ Head(down) = "log" => pc = "await"
      /\ pc \in {"idle", "reply", "await"}
  BY <1>1
<1> HIDE DEF pc
<1>3. pc \in {"idle", "reply", "await"}
  BY <1>2
<1>4. client' \in ClientRecords /\ client'.pc = pc /\ down' \in Seq(Messages)
      /\ client'.kind = client.kind
  BY <1>1, <1>3, ClientAtFields, TailFacts
<1>5. ASSUME SyncInv
      PROVE  SyncInv'
  <2>1. ~Sending /\ ~Sending'
    BY <1>1, <1>3, <1>4 DEF Sending
  <2>2. UpInv'
    BY <1>1, <1>5, <2>1, UpKept DEF SyncInv
  <2>3. PeerInv' /\ KindInv'
    BY <1>1, <1>3, <1>4, <1>5, KindKept DEF SyncInv, PeerInv
  <2>4. DownInv /\ KindInv
    BY <1>1, <1>5 DEF SyncInv
  <2>5. CASE daemon.pc = "top"
    <3>1. up = <<>>
      BY <1>1, <2>4, <2>5 DEF DownInv
    <3>2. AnswerLeft(down, client.kind)
      BY <1>1, <2>4, <2>5, <3>1 DEF DownInv
    <3>3. \/ Head(down) = "log" /\ AnswerLeft(down', client.kind)
          \/ Head(down) = "error" /\ down' = <<>>
          \/ Head(down) = "last" /\ down' = IF HasReply(client.kind) THEN <<"reply">> ELSE <<>>
      BY <1>1, <3>2, AnswerTail
    <3>4. DownInv'
      <4>1. CASE Head(down) = "log"
        BY <1>1, <1>2, <1>4, <2>5, <3>1, <3>3, <4>1 DEF DownInv, AnswerLeft
      <4>2. CASE Head(down) # "log"
        BY <1>1, <1>2, <1>4, <2>5, <3>1, <3>3, <4>2 DEF DownInv
      <4> QED
        BY <4>1, <4>2
    <3> QED
      BY <2>2, <2>3, <3>4 DEF SyncInv
  <2>6. CASE daemon.pc \in {"work", "drain", "stop"}
    <3>1. client.pc = "await" /\ OnlyLogs(down, Len(down))
      BY <1>1, <2>4, <2>6 DEF DownInv
    <3>2. Head(down) = "log" /\ OnlyLogs(down', Len(down'))
      BY <1>1, <3>1, LogsTail
    <3>3. DownInv'
      BY <1>1, <1>2, <1>4, <2>6, <3>1, <3>2 DEF DownInv
    <3> QED
      BY <2>2, <2>3, <3>3 DEF SyncInv
  <2>7. CASE daemon.pc = "reply"
    <3>1. client.pc = "await" /\ LastLeft(down)
      BY <1>1, <2>4, <2>7 DEF DownInv
    <3>2. \/ Head(down) = "log" /\ LastLeft(down')
          \/ Head(down) = "last" /\ down' = <<>>
      BY <1>1, <3>1, LastTail
    <3>3. HasReply(client.kind)
      BY <2>4, <2>7 DEF KindInv
    <3>4. DownInv'
      BY <1>1, <1>2, <1>4, <2>7, <3>1, <3>2, <3>3 DEF DownInv
    <3> QED
      BY <2>2, <2>3, <3>4 DEF SyncInv
  <2>8. CASE daemon.pc = "gone"
    <3>1. DownInv'
      BY <1>1, <2>1, <2>8 DEF DownInv
    <3> QED
      BY <2>2, <2>3, <3>1 DEF SyncInv
  <2>9. daemon.pc \notin {"start", "lost"}
    BY <1>1, <1>5, <2>4 DEF DownInv, SyncInv, PeerInv
  <2> QED
    BY <1>1, <2>5, <2>6, <2>7, <2>8, <2>9 DEF DaemonRecords
<1> QED
  BY <1>1, <1>4, <1>5 DEF DaemonInv, DaemonTypes

\* The reply is the last message of an operation.
LEMMA ReceiveReplySync ==
    ASSUME DaemonInv, ReceiveReply
    PROVE  DaemonTypes' /\ daemon' = daemon /\ (SyncInv => SyncInv')
<1> DEFINE pc == IF Head(down) = "reply" THEN "idle" ELSE "closed"
<1>1. client.pc = "reply" /\ down # <<>> /\ down' = Tail(down) /\ ClientAt(pc)
      /\ UNCHANGED <<up, daemon>> /\ client \in ClientRecords /\ down \in Seq(Messages)
      /\ daemon \in DaemonRecords
  BY DEF ReceiveReply, DaemonInv, DaemonTypes
<1>2. pc \in {"idle", "closed"} /\ (Head(down) = "reply" => pc = "idle")
  OBVIOUS
<1> HIDE DEF pc
<1>3. client' \in ClientRecords /\ client'.pc = pc /\ down' \in Seq(Messages)
      /\ client'.kind = client.kind
  BY <1>1, <1>2, ClientAtFields, TailFacts
<1>4. ASSUME SyncInv
      PROVE  SyncInv'
  <2>1. ~Sending /\ ~Sending'
    BY <1>1, <1>2, <1>3 DEF Sending
  <2>2. UpInv' /\ KindInv'
    BY <1>1, <1>3, <1>4, <2>1, UpKept, KindKept DEF SyncInv
  <2>3. PeerInv'
    BY <1>1, <1>2, <1>3, <1>4 DEF SyncInv, PeerInv
  <2>4. CASE daemon.pc = "gone"
    BY <1>1, <2>1, <2>2, <2>3, <2>4 DEF SyncInv, DownInv
  <2>5. CASE daemon.pc # "gone"
    <3>1. daemon.pc = "top" /\ up = <<>> /\ down = <<"reply">>
      BY <1>1, <1>4, <2>5 DEF SyncInv, PeerInv, DownInv, DaemonRecords
    <3>2. down' = <<>>
      BY <1>1, <3>1
    <3>3. DownInv'
      BY <1>1, <1>2, <1>3, <3>1, <3>2, TailFacts DEF DownInv
    <3> QED
      BY <2>2, <2>3, <3>3 DEF SyncInv
  <2> QED
    BY <2>4, <2>5
<1> QED
  BY <1>1, <1>3, <1>4 DEF DaemonInv, DaemonTypes

\* An exception of the client ends the upload, or the connection.
LEMMA ClientThrowsSync ==
    ASSUME DaemonInv, ClientThrows
    PROVE  DaemonTypes' /\ daemon' = daemon /\ (SyncInv => SyncInv')
<1>1. UNCHANGED <<up, down, daemon>> /\ client \in ClientRecords
  BY DEF ClientThrows, DaemonInv, DaemonTypes
<1>2. CASE client.pc \in {"check", "write"} /\ client' = [client EXCEPT !.pc = "end", !.exc = "other"]
  <2>1. client' \in ClientRecords /\ client'.pc = "end" /\ client'.exc = "other"
        /\ client'.kind = client.kind
    BY <1>1, <1>2 DEF ClientRecords
  <2>2. SyncInv => UpInv'
    BY <1>1, <1>2, <2>1, UpKept DEF SyncInv, Sending
  <2>3. SyncInv => PeerInv' /\ DownInv' /\ KindInv'
    BY <1>1, <1>2, <2>1, KindKept DEF SyncInv, PeerInv, DownInv, Sending
  <2> QED
    BY <1>1, <2>1, <2>2, <2>3 DEF SyncInv, DaemonInv, DaemonTypes
<1>3. CASE client.pc \in {"await", "reply", "idle"} /\ ClientAt("closed")
  <2>1. client' \in ClientRecords /\ client'.pc = "closed" /\ client'.kind = client.kind
    BY <1>1, <1>3, ClientAtFields
  <2>2. SyncInv => UpInv'
    BY <1>1, <1>3, <2>1, UpKept DEF SyncInv, Sending
  <2>3. SyncInv => PeerInv' /\ KindInv'
    BY <1>1, <2>1, KindKept DEF SyncInv, PeerInv
  <2> QED
    BY <1>1, <2>1, <2>2, <2>3 DEF SyncInv, DaemonInv, DaemonTypes
<1> QED
  BY <1>2, <1>3 DEF ClientThrows

-----------------------------------------------------------------------------
(* The steps of the daemon                                                 *)

\* The daemon takes an operation for one.
LEMMA ReadOpSync ==
    ASSUME DaemonInv, ReadOp
    PROVE  DaemonTypes' /\ daemon'.rejected = daemon.rejected /\ (SyncInv => SyncInv')
<1> DEFINE pc == IF Head(up) \in Kinds THEN "start" ELSE "lost"
           r == [daemon EXCEPT !.pc = pc, !.kind = Head(up), !.eof = ~Streams(Head(up)),
                               !.threw = FALSE]
<1>1. daemon.pc = "top" /\ up # <<>> /\ up' = Tail(up) /\ daemon' = r
      /\ UNCHANGED <<down, client>> /\ up \in Seq(Messages) /\ daemon \in DaemonRecords
  BY DEF ReadOp, DaemonInv, DaemonTypes
<1>2. Head(up) \in Messages /\ Head(up) = up[1] /\ up' \in Seq(Messages)
  BY <1>1, TailFacts
<1>3. daemon' \in DaemonRecords /\ daemon'.pc = pc /\ (daemon'.eof <=> ~Streams(up[1]))
      /\ daemon'.kind = up[1]
      /\ daemon'.canSendStderr = daemon.canSendStderr /\ daemon'.rejected = daemon.rejected
  BY <1>1, <1>2 DEF DaemonRecords, Streams
<1> HIDE DEF r
<1>4. ASSUME SyncInv
      PROVE  SyncInv'
  <2>1. OpLeft(up, Sending)
    BY <1>1, <1>4 DEF SyncInv, UpInv
  <2>2. up[1] \in Kinds /\ daemon'.pc = "start"
    BY <1>2, <1>3, <2>1 DEF OpLeft
  <2>3. UpInv'
    <3>1. CASE Streams(up[1])
      <4>1. FramesLeft(up', Sending)
        BY <1>1, <2>1, <3>1 DEF OpLeft
      <4>2. ~daemon'.eof /\ (Sending' <=> Sending)
        BY <1>1, <1>3, <3>1 DEF Sending
      <4> QED
        BY <2>2, <4>1, <4>2 DEF UpInv, FramesLeft
    <3>2. CASE ~Streams(up[1])
      <4>1. Len(up) = 1 /\ ~Sending
        BY <2>1, <3>2 DEF OpLeft
      <4>2. up' = <<>> /\ ~Sending' /\ daemon'.eof
        BY <1>1, <1>3, <3>2, <4>1, TailFacts DEF Sending
      <4> QED
        BY <2>2, <4>2 DEF UpInv
    <3> QED
      BY <3>1, <3>2
  <2>4. PeerInv'
    BY <1>1, <1>3, <1>4, <2>2 DEF SyncInv, PeerInv
  <2>5. client.pc # "closed" => DownInv'
    BY <1>1, <1>4, <2>2 DEF SyncInv, DownInv
  <2>6. KindInv'
    BY <1>1, <1>3, <1>4, <2>2 DEF SyncInv, KindInv
  <2> QED
    BY <1>1, <2>3, <2>4, <2>5, <2>6 DEF SyncInv
<1> QED
  BY <1>1, <1>2, <1>3, <1>4 DEF DaemonInv, DaemonTypes

\* The messages that were held back are sent.
LEMMA PendingLogs ==
    ASSUME NEW n \in Nat, NEW s \in Seq(Messages)
    PROVE  /\ s \o [i \in 1 .. n |-> "log"] \in Seq(Messages)
           /\ s = <<>> => OnlyLogs(s \o [i \in 1 .. n |-> "log"],
                                   Len(s \o [i \in 1 .. n |-> "log"]))
<1> DEFINE f == [i \in 1 .. n |-> "log"]
<1>1. f \in Seq(Messages) /\ Len(f) = n /\ \A i \in 1 .. n : f[i] = "log"
  BY DEF Messages
<1> HIDE DEF f
<1>2. s \o f \in Seq(Messages)
  BY <1>1
<1>3. s = <<>> => s \o f = f
  BY <1>1
<1>4. OnlyLogs(f, Len(f))
  BY <1>1 DEF OnlyLogs
<1> QED
  BY <1>2, <1>3, <1>4 DEF f

\* startWork.
LEMMA StartWorkSync ==
    ASSUME DaemonInv, StartWork
    PROVE  DaemonTypes' /\ daemon'.rejected = daemon.rejected /\ (SyncInv => SyncInv')
<1>1. daemon.pc = "start" /\ UNCHANGED <<up, client>> /\ daemon \in DaemonRecords
      /\ down' = down \o [i \in 1 .. daemon.pendingMsgs |-> "log"]
      /\ daemon' = [daemon EXCEPT !.pc = "work", !.canSendStderr = TRUE, !.pendingMsgs = 0]
  BY DEF StartWork, DaemonInv, DaemonTypes
<1>2. down' \in Seq(Messages) /\ (down = <<>> => OnlyLogs(down', Len(down')))
  <2>1. daemon.pendingMsgs \in Nat /\ down \in Seq(Messages)
    BY <1>1 DEF DaemonRecords, DaemonInv, DaemonTypes
  <2> QED
    BY <1>1, <2>1, PendingLogs
<1>3. daemon' \in DaemonRecords /\ daemon'.pc = "work" /\ daemon'.canSendStderr
      /\ daemon'.eof = daemon.eof /\ daemon'.rejected = daemon.rejected
      /\ daemon'.kind = daemon.kind
  BY <1>1 DEF DaemonRecords
<1>4. ASSUME SyncInv
      PROVE  SyncInv'
  <2>1. UpInv'
    BY <1>1, <1>3, <1>4 DEF SyncInv, UpInv, FramesLeft, Sending
  <2>2. PeerInv' /\ KindInv'
    BY <1>1, <1>3, <1>4 DEF SyncInv, PeerInv, KindInv
  <2>3. client.pc # "closed" => DownInv'
    BY <1>1, <1>2, <1>3, <1>4 DEF SyncInv, DownInv
  <2> QED
    BY <1>1, <2>1, <2>2, <2>3 DEF SyncInv
<1> QED
  BY <1>1, <1>2, <1>3, <1>4 DEF DaemonInv, DaemonTypes

\* The daemon ends with two errors.
LEMMA BadArgumentsSync ==
    ASSUME DaemonInv, BadArguments
    PROVE  DaemonTypes' /\ daemon'.rejected = daemon.rejected /\ (SyncInv => SyncInv')
<1>1. daemon.pc = "start" /\ UNCHANGED <<up, client>> /\ daemon \in DaemonRecords
      /\ down' = down \o <<"error", "error">> /\ DaemonAt("gone") /\ down \in Seq(Messages)
  BY DEF BadArguments, DaemonInv, DaemonTypes
<1>2. <<"error", "error">> \in Seq(Messages)
  BY DEF Messages
<1>3. down' \in Seq(Messages)
  BY <1>1, <1>2
<1>4. daemon' \in DaemonRecords /\ daemon'.pc = "gone" /\ daemon'.rejected = daemon.rejected
  BY <1>1, DaemonAtFields
<1>5. ASSUME SyncInv
      PROVE  SyncInv'
  <2>1. client.pc # "closed" => down' = <<"error", "error">>
    <3>1. client.pc # "closed" => down = <<>>
      BY <1>1, <1>5 DEF SyncInv, DownInv
    <3>2. \A e \in Seq(Messages) : <<>> \o e = e
      OBVIOUS
    <3>3. <<>> \o <<"error", "error">> = <<"error", "error">>
      BY <1>2, <3>2
    <3> QED
      BY <1>1, <3>1, <3>3
  <2>2. client.pc # "closed" => \A i \in 1 .. Len(down') : down'[i] = "error"
    BY <2>1
  <2> QED
    BY <1>1, <1>4, <1>5, <2>2 DEF SyncInv, PeerInv, UpInv, DownInv, KindInv
<1> QED
  BY <1>1, <1>3, <1>4, <1>5 DEF DaemonInv, DaemonTypes

\* enqueueMsg sends only while an operation works.
LEMMA EnqueueMsgSync ==
    ASSUME DaemonInv, EnqueueMsg
    PROVE  DaemonTypes' /\ daemon'.rejected = daemon.rejected /\ (SyncInv => SyncInv')
<1>1. daemon.pc \in {"top", "start", "work", "drain"} /\ UNCHANGED <<up, client>>
      /\ daemon \in DaemonRecords /\ down \in Seq(Messages)
  BY DEF EnqueueMsg, DaemonInv, DaemonTypes
<1>2. daemon.logs + 1 \in Int /\ daemon.pendingMsgs + 1 \in Nat
  BY <1>1 DEF DaemonRecords
<1>3. CASE daemon.canSendStderr
  <2>1. down' = Append(down, "log") /\ daemon' = [daemon EXCEPT !.logs = @ + 1]
    BY <1>3 DEF EnqueueMsg, ToClient
  <2>2. daemon' \in DaemonRecords /\ daemon'.pc = daemon.pc /\ daemon'.eof = daemon.eof
        /\ daemon'.canSendStderr = daemon.canSendStderr /\ daemon'.rejected = daemon.rejected
        /\ daemon'.kind = daemon.kind
    BY <1>1, <1>2, <2>1 DEF DaemonRecords
  <2>3. down' \in Seq(Messages)
    BY <1>1, <2>1, AppendFacts DEF Messages
  <2>4. ASSUME SyncInv
        PROVE  SyncInv'
    <3>1. daemon.pc \in {"work", "drain"}
      BY <1>1, <1>3, <2>4 DEF SyncInv, PeerInv
    <3>2. client.pc # "closed" => OnlyLogs(down', Len(down'))
      BY <1>1, <2>1, <2>4, <3>1, LogsAppend DEF SyncInv, DownInv
    <3>3. client.pc # "closed" => DownInv'
      BY <1>1, <2>2, <2>4, <3>1, <3>2 DEF SyncInv, DownInv
    <3>4. UpInv' /\ PeerInv' /\ KindInv'
      BY <1>1, <2>2, <2>4, <3>1 DEF SyncInv, UpInv, PeerInv, KindInv, FramesLeft, Sending
    <3> QED
      BY <1>1, <3>3, <3>4 DEF SyncInv
  <2> QED
    BY <1>1, <2>2, <2>3, <2>4 DEF DaemonInv, DaemonTypes
<1>4. CASE ~daemon.canSendStderr
  <2>1. daemon' = [daemon EXCEPT !.logs = @ + 1, !.pendingMsgs = @ + 1] /\ down' = down
    BY <1>4 DEF EnqueueMsg
  <2>2. daemon' \in DaemonRecords /\ daemon'.pc = daemon.pc /\ daemon'.eof = daemon.eof
        /\ daemon'.canSendStderr = daemon.canSendStderr /\ daemon'.rejected = daemon.rejected
        /\ daemon'.kind = daemon.kind
    BY <1>1, <1>2, <2>1 DEF DaemonRecords
  <2>3. SyncInv => UpInv'
    BY <1>1, <2>2 DEF SyncInv, UpInv, OpLeft, FramesLeft, Sending
  <2>4. SyncInv => PeerInv' /\ KindInv' /\ (client.pc # "closed" => DownInv')
    BY <1>1, <2>1, <2>2 DEF SyncInv, PeerInv, KindInv, DownInv
  <2> QED
    BY <1>1, <2>1, <2>2, <2>3, <2>4 DEF SyncInv, DaemonInv, DaemonTypes
<1> QED
  BY <1>3, <1>4

\* A frame is read, by the operation or by ~FramedSource.
LEMMA FrameRead ==
    ASSUME DaemonInv, SyncInv, up # <<>>, up' = Tail(up), UNCHANGED <<down, client>>,
           daemon.pc \in {"work", "drain"}, daemon.pc = "work" => ~daemon.eof,
           daemon'.canSendStderr = daemon.canSendStderr, daemon'.kind = daemon.kind,
           \/ daemon'.pc = "work" /\ daemon.pc = "work" /\ (daemon'.eof <=> Head(up) = "end")
           \/ daemon'.pc = IF Head(up) = "end" THEN "stop" ELSE "drain"
    PROVE  SyncInv'
<1>1. up \in Seq(Messages) /\ (Sending' <=> Sending) /\ Sending \in BOOLEAN
  BY DEF DaemonInv, DaemonTypes, Sending
<1>2. FramesLeft(up, Sending)
  BY DEF SyncInv, UpInv
<1>3. IF Head(up) = "end" THEN up' = <<>> /\ ~Sending ELSE FramesLeft(up', Sending)
  BY <1>1, <1>2, FramesTail
<1>4. UpInv'
  <2>1. CASE Head(up) = "end"
    BY <1>1, <1>3, <2>1 DEF UpInv
  <2>2. CASE Head(up) # "end"
    BY <1>1, <1>3, <2>2 DEF UpInv, FramesLeft
  <2> QED
    BY <2>1, <2>2
<1>5. daemon'.pc \in {"work", "drain", "stop"}
  OBVIOUS
<1>6. PeerInv' /\ KindInv'
  BY <1>5 DEF SyncInv, PeerInv, KindInv
<1>7. client.pc # "closed" => DownInv'
  BY <1>5 DEF SyncInv, DownInv
<1> QED
  BY <1>4, <1>6, <1>7 DEF SyncInv

\* The operation reads a frame.
LEMMA ReadFrameSync ==
    ASSUME DaemonInv, ReadFrame
    PROVE  DaemonTypes' /\ daemon'.rejected = daemon.rejected /\ (SyncInv => SyncInv')
<1>1. daemon.pc = "work" /\ ~daemon.eof /\ up # <<>> /\ up' = Tail(up) /\ UNCHANGED <<down, client>>
      /\ daemon' = [daemon EXCEPT !.eof = Head(up) = "end"] /\ daemon \in DaemonRecords
  BY DEF ReadFrame, DaemonInv, DaemonTypes
<1>2. daemon' \in DaemonRecords /\ daemon'.pc = "work" /\ (daemon'.eof <=> Head(up) = "end")
      /\ daemon'.canSendStderr = daemon.canSendStderr /\ daemon'.rejected = daemon.rejected
      /\ daemon'.kind = daemon.kind
  BY <1>1 DEF DaemonRecords
<1>3. up' \in Seq(Messages)
  BY <1>1, TailFacts DEF DaemonInv, DaemonTypes
<1>4. SyncInv => SyncInv'
  BY <1>1, <1>2, FrameRead
<1> QED
  BY <1>1, <1>2, <1>3, <1>4 DEF DaemonInv, DaemonTypes

\* ~FramedSource reads a frame.
LEMMA DrainSync ==
    ASSUME DaemonInv, Drain
    PROVE  DaemonTypes' /\ daemon'.rejected = daemon.rejected /\ (SyncInv => SyncInv')
<1> DEFINE pc == IF Head(up) = "end" THEN "stop" ELSE "drain"
<1>1. daemon.pc = "drain" /\ up # <<>> /\ up' = Tail(up) /\ UNCHANGED <<down, client>>
      /\ DaemonAt(pc) /\ daemon \in DaemonRecords
  BY DEF Drain, DaemonInv, DaemonTypes
<1>2. daemon' \in DaemonRecords /\ daemon'.pc = pc
      /\ daemon'.canSendStderr = daemon.canSendStderr /\ daemon'.rejected = daemon.rejected
      /\ daemon'.kind = daemon.kind
  BY <1>1, DaemonAtFields
<1>3. up' \in Seq(Messages)
  BY <1>1, TailFacts DEF DaemonInv, DaemonTypes
<1>4. SyncInv => SyncInv'
  BY <1>1, <1>2, FrameRead
<1> QED
  BY <1>1, <1>2, <1>3, <1>4 DEF DaemonInv, DaemonTypes

\* An upload is rejected.
LEMMA RejectSync == ASSUME DaemonInv, Reject PROVE DaemonTypes' /\ daemon'.rejected
  BY DEF Reject, DaemonInv, DaemonTypes, DaemonRecords

\* The operation ends, and ~FramedSource is next if there are frames left.
LEMMA FinishSync ==
    ASSUME DaemonInv, Finish
    PROVE  DaemonTypes' /\ daemon'.rejected = daemon.rejected /\ (SyncInv => SyncInv')
<1> DEFINE pc == IF daemon.eof THEN "stop" ELSE "drain"
<1>1. PICK threw \in BOOLEAN : daemon' = [daemon EXCEPT !.pc = pc, !.threw = threw]
  BY DEF Finish
<1>2. daemon.pc = "work" /\ UNCHANGED <<up, down, client>> /\ daemon \in DaemonRecords
  BY DEF Finish, DaemonInv, DaemonTypes
<1>3. daemon' \in DaemonRecords /\ daemon'.pc = pc
      /\ daemon'.canSendStderr = daemon.canSendStderr /\ daemon'.rejected = daemon.rejected
      /\ daemon'.kind = daemon.kind
  <2>1. pc \in {"stop", "drain"}
    OBVIOUS
  <2> HIDE DEF pc
  <2> QED
    BY <1>1, <1>2, <2>1 DEF DaemonRecords
<1>4. ASSUME SyncInv
      PROVE  SyncInv'
  <2>1. UpInv'
    BY <1>2, <1>3, <1>4 DEF SyncInv, UpInv, FramesLeft, Sending
  <2>2. PeerInv' /\ KindInv' /\ (client.pc # "closed" => DownInv')
    BY <1>2, <1>3, <1>4 DEF SyncInv, PeerInv, KindInv, DownInv
  <2> QED
    BY <1>2, <2>1, <2>2 DEF SyncInv
<1> QED
  BY <1>2, <1>3, <1>4 DEF DaemonInv, DaemonTypes

\* stopWork: the client is waiting for the last message.
LEMMA StopWorkSync ==
    ASSUME DaemonInv, StopWork
    PROVE  DaemonTypes' /\ daemon'.rejected = daemon.rejected /\ (SyncInv => SyncInv')
<1> DEFINE m == IF daemon.threw THEN "error" ELSE "last"
           pc == IF ~daemon.threw /\ HasReply(daemon.kind) THEN "reply" ELSE "top"
<1>1. daemon.pc = "stop" /\ UNCHANGED <<up, client>> /\ down' = Append(down, m)
      /\ daemon' = [daemon EXCEPT !.pc = pc, !.canSendStderr = FALSE]
      /\ daemon \in DaemonRecords /\ down \in Seq(Messages) /\ client \in ClientRecords
  BY DEF StopWork, ToClient, DaemonInv, DaemonTypes
<1>2. \/ pc = "top" /\ m = "error"
      \/ pc = "reply" /\ m = "last" /\ HasReply(daemon.kind)
      \/ pc = "top" /\ m = "last" /\ ~HasReply(daemon.kind)
  OBVIOUS
<1> HIDE DEF pc, m
<1>3. daemon' \in DaemonRecords /\ daemon'.pc = pc /\ ~daemon'.canSendStderr
      /\ daemon'.rejected = daemon.rejected /\ daemon'.kind = daemon.kind
  BY <1>1, <1>2 DEF DaemonRecords
<1>4. down' \in Seq(Messages)
  BY <1>1, <1>2, AppendFacts DEF Messages
<1>5. ASSUME SyncInv
      PROVE  SyncInv'
  <2>1. up = <<>> /\ ~Sending
    BY <1>1, <1>5 DEF SyncInv, UpInv
  <2>2. UpInv'
    BY <1>1, <1>2, <1>3, <2>1 DEF UpInv, Sending
  <2>3. PeerInv' /\ KindInv'
    BY <1>1, <1>2, <1>3, <1>5, <2>1 DEF SyncInv, PeerInv, KindInv
  <2>4. ASSUME client.pc # "closed"
        PROVE  DownInv'
    <3>1. OnlyLogs(down, Len(down)) /\ client.pc = "await"
      BY <1>1, <1>5, <2>1, <2>4 DEF SyncInv, DownInv, PeerInv, Sending, ClientRecords
    <3>2. LastLeft(Append(down, "last")) /\ ErrorLeft(Append(down, "error"))
      BY <1>1, <3>1, LogsAppend
    <3>3. daemon.kind = client.kind
      BY <1>1, <1>5 DEF SyncInv, KindInv
    <3>4. IF pc = "top" THEN AnswerLeft(down', client.kind) ELSE LastLeft(down')
      BY <1>1, <1>2, <3>2, <3>3 DEF AnswerLeft
    <3> QED
      BY <1>1, <1>2, <1>3, <2>1, <3>1, <3>4 DEF DownInv, AnswerLeft
  <2> QED
    BY <1>1, <2>2, <2>3, <2>4 DEF SyncInv
<1> QED
  BY <1>1, <1>3, <1>4, <1>5 DEF DaemonInv, DaemonTypes

\* The reply ends the operation.
LEMMA ReplySync ==
    ASSUME DaemonInv, Reply
    PROVE  DaemonTypes' /\ daemon'.rejected = daemon.rejected /\ (SyncInv => SyncInv')
<1>1. daemon.pc = "reply" /\ down' = Append(down, "reply") /\ DaemonAt("top")
      /\ UNCHANGED <<up, client>> /\ daemon \in DaemonRecords /\ down \in Seq(Messages)
  BY DEF Reply, ToClient, DaemonInv, DaemonTypes
<1>2. daemon' \in DaemonRecords /\ daemon'.pc = "top" /\ daemon'.rejected = daemon.rejected
      /\ daemon'.canSendStderr = daemon.canSendStderr
      /\ daemon'.kind = daemon.kind
  BY <1>1, DaemonAtFields
<1>3. down' \in Seq(Messages)
  BY <1>1, AppendFacts DEF Messages
<1>4. ASSUME SyncInv
      PROVE  SyncInv'
  <2>1. up = <<>> /\ ~Sending
    BY <1>1, <1>4 DEF SyncInv, UpInv
  <2>2. UpInv' /\ PeerInv' /\ KindInv'
    BY <1>1, <1>2, <1>4, <2>1 DEF SyncInv, UpInv, PeerInv, KindInv, Sending
  <2>3. LastLeft(down) => AnswerLeft(down', client.kind)
    <3>1. HasReply(client.kind)
      BY <1>1, <1>4 DEF SyncInv, KindInv
    <3> QED
      BY <1>1, <3>1, ReplyAppend DEF AnswerLeft
  <2>4. down = <<>> => down' = <<"reply">>
    BY <1>1
  <2>5. client.pc # "closed" => DownInv'
    BY <1>1, <1>2, <1>4, <2>1, <2>3, <2>4 DEF SyncInv, DownInv, AnswerLeft
  <2> QED
    BY <1>1, <2>2, <2>5 DEF SyncInv
<1> QED
  BY <1>1, <1>2, <1>3, <1>4 DEF DaemonInv, DaemonTypes

\* The daemon ends in the middle of the reply, when the client does not send.
LEMMA ReplyFailsSync ==
    ASSUME DaemonInv, ReplyFails
    PROVE  DaemonTypes' /\ daemon'.rejected = daemon.rejected /\ (SyncInv => SyncInv')
<1>1. daemon.pc = "reply" /\ UNCHANGED <<up, client>> /\ daemon \in DaemonRecords
      /\ down' = down \o <<"error", "error">> /\ DaemonAt("gone") /\ down \in Seq(Messages)
  BY DEF ReplyFails, DaemonInv, DaemonTypes
<1>2. <<"error", "error">> \in Seq(Messages)
  BY DEF Messages
<1>3. down' \in Seq(Messages)
  BY <1>1, <1>2
<1>4. daemon' \in DaemonRecords /\ daemon'.pc = "gone" /\ daemon'.rejected = daemon.rejected
  BY <1>1, DaemonAtFields
<1>5. ASSUME SyncInv
      PROVE  SyncInv'
  <2>1. ~Sending'
    BY <1>1, <1>5 DEF SyncInv, UpInv, Sending
  <2> QED
    BY <1>1, <1>4, <1>5, <2>1 DEF SyncInv, PeerInv, UpInv, KindInv, DownInv
<1> QED
  BY <1>1, <1>3, <1>4, <1>5 DEF DaemonInv, DaemonTypes

\* The daemon ends after the client has closed the connection.
LEMMA HangUpSync ==
    ASSUME DaemonInv, HangUp
    PROVE  DaemonTypes' /\ daemon'.rejected = daemon.rejected /\ (SyncInv => SyncInv')
<1>1. client.pc = "closed" /\ DaemonAt("gone") /\ UNCHANGED <<up, down, client>>
      /\ daemon \in DaemonRecords
  BY DEF HangUp, DaemonInv, DaemonTypes
<1>2. daemon' \in DaemonRecords /\ daemon'.pc = "gone" /\ daemon'.rejected = daemon.rejected
  BY <1>1, DaemonAtFields
<1>3. SyncInv => SyncInv'
  BY <1>1, <1>2 DEF SyncInv, PeerInv, UpInv, KindInv
<1> QED
  BY <1>1, <1>2, <1>3 DEF DaemonInv, DaemonTypes

\* DaemonInv is inductive.
LEMMA DaemonInvStep == DaemonInv /\ [DaemonNext]_daemonVars => DaemonInv'
<1> SUFFICES ASSUME DaemonInv, [DaemonNext]_daemonVars
             PROVE  DaemonInv'
  OBVIOUS
<1>1. CASE UNCHANGED daemonVars
  <2>1. SyncInv => UpInv'
    BY <1>1, UpKept DEF SyncInv, Sending, daemonVars
  <2>2. SyncInv => PeerInv' /\ KindInv' /\ (client.pc # "closed" => DownInv')
    BY <1>1 DEF SyncInv, PeerInv, KindInv, DownInv, Sending, daemonVars
  <2> QED
    BY <1>1, <2>1, <2>2 DEF daemonVars, DaemonInv, DaemonTypes, SyncInv
<1>2. CASE DaemonNext
  <2>1. \/ DaemonTypes' /\ daemon'.rejected
        \/ DaemonTypes' /\ daemon'.rejected = daemon.rejected /\ (SyncInv => SyncInv')
    BY <1>2, RequestSync, CheckErrorSync, WriteFrameSync, EndFramesSync, ReceiveMsgSync,
       ReceiveReplySync, ReplyFailsSync,
       ClientThrowsSync, ReadOpSync, StartWorkSync, BadArgumentsSync, EnqueueMsgSync,
       ReadFrameSync, RejectSync, FinishSync, DrainSync, StopWorkSync, ReplySync, HangUpSync
       DEF DaemonNext, ClientProceeds, DaemonStep
  <2> QED
    BY <2>1 DEF DaemonInv
<1> QED
  BY <1>1, <1>2

\* DaemonInv implies what the run checks.
LEMMA DaemonInvInStep == DaemonInv => InStep
<1> SUFFICES ASSUME DaemonInv, SyncInv
             PROVE  AlwaysInStep
  BY DEF DaemonInv, InStep
<1>1. daemon \in DaemonRecords
  BY DEF DaemonInv, DaemonTypes
<1> QED
  BY <1>1 DEF AlwaysInStep, SyncInv, PeerInv, DownInv, DaemonRecords

\* A connection that goes back to the pool is in step, as long as no upload is
\* rejected before its frames are read (daemon.cc performOp, remote-store.cc
\* withFramedSink, ~ConnectionHandle).
THEOREM ConnectionInStep == DaemonSpec => []InStep
  BY DaemonInitInv, DaemonInvStep, DaemonInvInStep, PTL DEF DaemonSpec

(***************************************************************************)
(* References: ScanExact                                                   *)
(***************************************************************************)
\* What is assumed of the hashes.
LEMMA HashesAssumption ==
    /\ RefLength \in Nat \ {0}
    /\ Hashes \subseteq [1 .. RefLength -> Characters \ {0}]
  BY ReferencesAssumption

\* The windows of s that search() looks up between two positions: those without a
\* character that is not of base-32.
Window(s, i) == SubSeq(s, i, i + RefLength - 1)
Clean(s, i) == \A j \in i .. i + RefLength - 1 : s[j] # 0
WindowsIn(s, a, b) == {Window(s, j) : j \in {k \in a .. b - RefLength + 1 : Clean(s, k)}}

\* A set of integers between two bounds has a greatest element.
LEMMA GreatestElement ==
    ASSUME NEW b \in Int, NEW S, S # {}, \A x \in S : x \in Int /\ x <= b
    PROVE  \E x \in S : \A y \in S : y <= x
<1>. DEFINE N == {b - x : x \in S}
<1>1. N \subseteq Nat  OBVIOUS
<1>2. N # {}  OBVIOUS
<1>. DEFINE R == OpToRel(<, Nat)
<1>3. IsWellFoundedOn(R, Nat)
  BY NatLessThanWellFounded
<1>4. \A x, y \in Nat : <<y, x>> \in R <=> y < x
  BY DEF OpToRel
<1>. HIDE DEF R
<1>5. PICK m \in N : \A y \in N : ~ (<<y, m>> \in R)
  <2>. HIDE DEF N
  <2>. QED  BY <1>1, <1>2, <1>3, WFMin, Zenon
<1>6. PICK x \in S : m = b - x  OBVIOUS
<1>7. ASSUME NEW y \in S PROVE y <= x
  <2>1. b - y \in N  OBVIOUS
  <2>2. ~ (b - y < m)  BY <1>1, <1>4, <1>5, <2>1
  <2>. QED  BY <1>6, <2>2
<1>. QED  BY <1>7

\* If a window is not clean, it has a last bad character.
LEMMA LastBadFacts ==
    ASSUME NEW s, NEW i \in Nat, ~ Clean(s, i)
    PROVE  /\ Max(NotBase32(s, i)) \in i .. i + RefLength - 1
           /\ s[Max(NotBase32(s, i))] = 0
<1>. DEFINE bad == NotBase32(s, i)
<1>1. bad # {} /\ \A x \in bad : s[x] = 0 /\ x \in i .. i + RefLength - 1
  BY DEF Clean, NotBase32
<1>2. i + RefLength - 1 \in Int /\ \A x \in bad : x \in Int /\ x <= i + RefLength - 1
  BY <1>1, HashesAssumption
<1>. HIDE DEF bad
<1>3. PICK m \in bad : \A k \in bad : k <= m
  BY <1>1, <1>2, GreatestElement
<1>4. \A k \in bad : m >= k
  BY <1>2, <1>3
<1>5. Max(bad) \in bad
  BY <1>4 DEF Max
<1>. QED  BY <1>1, <1>5 DEF bad

\* One round of search(): with a clean window it goes on by one position, otherwise no
\* window that holds the bad character is lost, since all of them hold it.
LEMMA SearchRound ==
    ASSUME NEW s, NEW n \in Nat, NEW i \in 1 .. n + 1
    PROVE  /\ i + RefLength - 1 > n => WindowsIn(s, i, n) = {}
           /\ i + RefLength - 1 <= n /\ Clean(s, i)
                  => WindowsIn(s, i, n) = {Window(s, i)} \cup WindowsIn(s, i + 1, n)
           /\ i + RefLength - 1 <= n /\ ~ Clean(s, i)
                  => WindowsIn(s, i, n) = WindowsIn(s, 1 + Max(NotBase32(s, i)), n)
<1>. USE HashesAssumption
<1>. DEFINE K(a) == {k \in a .. n - RefLength + 1 : Clean(s, k)}
<1>1. \A a : WindowsIn(s, a, n) = {Window(s, j) : j \in K(a)}
  BY DEF WindowsIn
<1>2. i + RefLength - 1 > n => K(i) = {}
  OBVIOUS
<1>3. ASSUME i + RefLength - 1 <= n, Clean(s, i)
      PROVE  K(i) = {i} \cup K(i + 1)
  BY <1>3
<1>4. ASSUME i + RefLength - 1 <= n, ~ Clean(s, i)
      PROVE  K(i) = K(1 + Max(NotBase32(s, i)))
  <2>. DEFINE m == Max(NotBase32(s, i))
  <2>1. m \in i .. i + RefLength - 1 /\ s[m] = 0
    BY <1>4, LastBadFacts
  <2>. HIDE DEF m
  <2>2. \A k \in i .. m : ~ Clean(s, k)
    BY <2>1 DEF Clean
  <2>3. K(i) = K(1 + m)
    BY <2>1, <2>2
  <2>. QED  BY <2>3 DEF m
<1>. HIDE DEF K
<1>5. i + RefLength - 1 <= n /\ Clean(s, i)
          => {Window(s, j) : j \in K(i)} = {Window(s, i)} \cup {Window(s, j) : j \in K(i + 1)}
  <2>1. \A S : {Window(s, j) : j \in {i} \cup S}
                    = {Window(s, i)} \cup {Window(s, j) : j \in S}
    OBVIOUS
  <2>2. i + RefLength - 1 <= n /\ Clean(s, i) => K(i) = {i} \cup K(i + 1)
    BY <1>3
  <2>3. {Window(s, j) : j \in {i} \cup K(i + 1)}
            = {Window(s, i)} \cup {Window(s, j) : j \in K(i + 1)}
    BY <2>1, Zenon
  <2>. QED  BY <2>2, <2>3
<1>6. i + RefLength - 1 > n => WindowsIn(s, i, n) = {}
  BY <1>1, <1>2
<1>7. i + RefLength - 1 <= n /\ Clean(s, i)
          => WindowsIn(s, i, n) = {Window(s, i)} \cup WindowsIn(s, i + 1, n)
  BY <1>1, <1>5, Zenon
<1>8. i + RefLength - 1 <= n /\ ~ Clean(s, i)
          => WindowsIn(s, i, n) = WindowsIn(s, 1 + Max(NotBase32(s, i)), n)
  BY <1>1, <1>4, Zenon
<1>. QED  BY <1>6, <1>7, <1>8

\* search() looks up exactly the clean windows of what it is given.
LEMMA SearchFinds ==
    ASSUME NEW s, Len(s) \in Nat
    PROVE  Search(s) = WindowsIn(s, 1, Len(s))
<1>. USE HashesAssumption
<1>. DEFINE n == Len(s)
            body(f, i) == IF i + RefLength - 1 > n THEN {}
                          ELSE IF NotBase32(s, i) = {} THEN {Window(s, i)} \cup f[i + 1]
                          ELSE f[1 + Max(NotBase32(s, i))]
            eq(f) == f = [i \in 1 .. n + 1 |-> body(f, i)]
            w == [i \in 1 .. n + 1 |-> WindowsIn(s, i, n)]
            from == CHOOSE f : eq(f)
<1>0. \A i : NotBase32(s, i) = {} <=> Clean(s, i)
  BY DEF Clean, NotBase32
<1>1. Search(s) = from[1]
  BY Zenon DEF Search, Window
<1>2. \A i \in 1 .. n + 1 : i + RefLength - 1 <= n
          => /\ i + 1 \in 1 .. n + 1 /\ i + 1 > i
             /\ ~ Clean(s, i) => 1 + Max(NotBase32(s, i)) \in 1 .. n + 1 /\ 1 + Max(NotBase32(s, i)) > i
  <2>. SUFFICES ASSUME NEW i \in 1 .. n + 1, i + RefLength - 1 <= n
                PROVE  /\ i + 1 \in 1 .. n + 1 /\ i + 1 > i
                       /\ ~ Clean(s, i) => 1 + Max(NotBase32(s, i)) \in 1 .. n + 1 /\ 1 + Max(NotBase32(s, i)) > i
    OBVIOUS
  <2>1. ~ Clean(s, i) => Max(NotBase32(s, i)) \in i .. i + RefLength - 1
    BY LastBadFacts
  <2>. QED  BY <2>1
<1>3. eq(w)
  <2>1. ASSUME NEW i \in 1 .. n + 1 PROVE w[i] = body(w, i)
    <3>1. w[i] = WindowsIn(s, i, n)  OBVIOUS
    <3>2. i + RefLength - 1 <= n => w[i + 1] = WindowsIn(s, i + 1, n)
      BY <1>2
    <3>3. i + RefLength - 1 <= n /\ ~ Clean(s, i)
              => w[1 + Max(NotBase32(s, i))] = WindowsIn(s, 1 + Max(NotBase32(s, i)), n)
      BY <1>2
    <3>4. i + RefLength - 1 > n \/ i + RefLength - 1 <= n  OBVIOUS
    <3>5. ~ (i + RefLength - 1 > n /\ i + RefLength - 1 <= n)  OBVIOUS
    <3>. HIDE DEF w
    <3>. QED  BY <3>1, <3>2, <3>3, <3>4, <3>5, <1>0, SearchRound
  <2>2. w = [i \in 1 .. n + 1 |-> w[i]]  OBVIOUS
  <2>3. [i \in 1 .. n + 1 |-> w[i]] = [i \in 1 .. n + 1 |-> body(w, i)]
    <3>. HIDE DEF w, body
    <3>. QED  BY <2>1
  <2>. HIDE DEF w, body
  <2>. QED  BY <2>2, <2>3
<1>4. eq(from)
  <2>. HIDE DEF eq, w
  <2>. QED  BY <1>3
<1>5. \A i \in 1 .. n + 1 : from[i] = body(from, i)
  <2>. HIDE DEF from, body
  <2>. QED  BY <1>4
<1>. HIDE DEF from, w, eq
<1>6. \A i \in 1 .. n + 1 : from[i] = WindowsIn(s, i, n)
  <2>. DEFINE S == {i \in 1 .. n + 1 : from[i] # WindowsIn(s, i, n)}
  <2>1. SUFFICES ASSUME S # {} PROVE FALSE
    OBVIOUS
  <2>2. n + 1 \in Int /\ \A x \in S : x \in Int /\ x <= n + 1  OBVIOUS
  <2>3. PICK i \in S : \A y \in S : y <= i
    <3>. HIDE DEF S
    <3>. QED  BY <2>1, <2>2, GreatestElement
  <2>4. \A y \in 1 .. n + 1 : y > i => from[y] = WindowsIn(s, y, n)
    BY <2>3
  <2>5. i \in 1 .. n + 1 /\ from[i] # WindowsIn(s, i, n)
    OBVIOUS
  <2>6. from[i] = body(from, i)
    BY <1>5
  <2>7. CASE i + RefLength - 1 > n
    BY <2>5, <2>6, <2>7, SearchRound
  <2>8. CASE i + RefLength - 1 <= n /\ Clean(s, i)
    <3>1. from[i + 1] = WindowsIn(s, i + 1, n)  BY <1>2, <2>4, <2>8
    <3>2. from[i] = {Window(s, i)} \cup from[i + 1]  BY <1>0, <2>6, <2>8
    <3>. QED  BY <2>5, <2>8, <3>1, <3>2, SearchRound
  <2>9. CASE i + RefLength - 1 <= n /\ ~ Clean(s, i)
    <3>1. from[1 + Max(NotBase32(s, i))] = WindowsIn(s, 1 + Max(NotBase32(s, i)), n)  BY <1>2, <2>4, <2>9
    <3>2. from[i] = from[1 + Max(NotBase32(s, i))]  BY <1>0, <2>6, <2>9
    <3>. QED  BY <2>5, <2>9, <3>1, <3>2, SearchRound
  <2>. QED  BY <2>5, <2>7, <2>8, <2>9
<1>. QED  BY <1>1, <1>6

\* A part of a stream is a stream, and its windows are those of the stream.
LEMMA PartOfStream ==
    ASSUME NEW s \in Seq(Characters), NEW a \in 1 .. Len(s) + 1, NEW b \in a - 1 .. Len(s)
    PROVE  /\ SubSeq(s, a, b) \in Seq(Characters)
           /\ Len(SubSeq(s, a, b)) = b - a + 1
           /\ \A i \in 1 .. b - a + 1 : SubSeq(s, a, b)[i] = s[a + i - 1]
<1>1. \A i \in a .. b : s[i] \in Characters
  BY ElementOfSeq
<1>. QED  BY <1>1, SubSeqProperties

\* Parts of a part are parts of the stream.
LEMMA PartOfPart ==
    ASSUME NEW s \in Seq(Characters), NEW a \in 1 .. Len(s) + 1, NEW b \in a - 1 .. Len(s),
           NEW c \in 1 .. b - a + 2, NEW d \in c - 1 .. b - a + 1
    PROVE  SubSeq(SubSeq(s, a, b), c, d) = SubSeq(s, a + c - 1, a + d - 1)
<1>. DEFINE t == SubSeq(s, a, b)
<1>1. t \in Seq(Characters) /\ Len(t) = b - a + 1
      /\ \A i \in 1 .. b - a + 1 : t[i] = s[a + i - 1]
  BY PartOfStream
<1>. HIDE DEF t
<1>2. /\ SubSeq(t, c, d) \in Seq(Characters) /\ Len(SubSeq(t, c, d)) = d - c + 1
      /\ \A i \in 1 .. d - c + 1 : SubSeq(t, c, d)[i] = t[c + i - 1]
  BY <1>1, PartOfStream
<1>3. /\ SubSeq(s, a + c - 1, a + d - 1) \in Seq(Characters)
      /\ Len(SubSeq(s, a + c - 1, a + d - 1)) = d - c + 1
      /\ \A i \in 1 .. d - c + 1 : SubSeq(s, a + c - 1, a + d - 1)[i] = s[a + c - 1 + i - 1]
  <2>. DEFINE e == a + c - 1
              f == a + d - 1
  <2>1. e \in 1 .. Len(s) + 1 /\ f \in e - 1 .. Len(s) /\ f - e + 1 = d - c + 1
    OBVIOUS
  <2>. HIDE DEF e, f
  <2>2. /\ SubSeq(s, e, f) \in Seq(Characters) /\ Len(SubSeq(s, e, f)) = f - e + 1
        /\ \A i \in 1 .. f - e + 1 : SubSeq(s, e, f)[i] = s[e + i - 1]
    BY <2>1, PartOfStream
  <2>. QED  BY <2>1, <2>2 DEF e, f
<1>4. \A i \in 1 .. d - c + 1 : SubSeq(t, c, d)[i] = SubSeq(s, a + c - 1, a + d - 1)[i]
  <2>. SUFFICES ASSUME NEW i \in 1 .. d - c + 1
                PROVE  SubSeq(t, c, d)[i] = SubSeq(s, a + c - 1, a + d - 1)[i]
    OBVIOUS
  <2>1. c + i - 1 \in 1 .. b - a + 1 /\ a + (c + i - 1) - 1 = a + c - 1 + i - 1  OBVIOUS
  <2>. QED  BY <1>1, <1>2, <1>3, <2>1
<1>5. SubSeq(t, c, d) = SubSeq(s, a + c - 1, a + d - 1)
  BY <1>2, <1>3, <1>4, SeqEqual
<1>. QED  BY <1>5 DEF t

\* search() on a part of the stream looks up the clean windows within the part.
LEMMA SearchPart ==
    ASSUME NEW s \in Seq(Characters), NEW a \in 1 .. Len(s) + 1, NEW b \in a - 1 .. Len(s)
    PROVE  Search(SubSeq(s, a, b)) = WindowsIn(s, a, b)
<1>. USE HashesAssumption
<1>. DEFINE t == SubSeq(s, a, b)
<1>1. t \in Seq(Characters) /\ Len(t) = b - a + 1
      /\ \A i \in 1 .. b - a + 1 : t[i] = s[a + i - 1]
  BY PartOfStream
<1>2. Len(t) \in Nat
  BY <1>1
<1>3. Search(t) = WindowsIn(t, 1, Len(t))
  <2>. HIDE DEF t
  <2>. QED  BY <1>2, SearchFinds
<1>4. \A i \in 1 .. Len(t) - RefLength + 1 : Window(t, i) = Window(s, a + i - 1)
  <2>. SUFFICES ASSUME NEW i \in 1 .. Len(t) - RefLength + 1
                PROVE  Window(t, i) = Window(s, a + i - 1)
    OBVIOUS
  <2>1. i \in 1 .. b - a + 2 /\ i + RefLength - 1 \in i - 1 .. b - a + 1
        /\ a + (i + RefLength - 1) - 1 = a + i - 1 + RefLength - 1
    <3>. HIDE DEF t
    <3>1. Len(t) = b - a + 1
      BY <1>1
    <3>2. i \in 1 .. (b - a + 1) - RefLength + 1
      BY <3>1
    <3>3. i \in 1 .. b - a + 2 /\ i + RefLength - 1 \in i - 1 .. b - a + 1
      BY ONLY <3>2, HashesAssumption, a \in Int, b \in Int
    <3>4. a + (i + RefLength - 1) - 1 = a + i - 1 + RefLength - 1
      BY ONLY <3>2, HashesAssumption, a \in Int, b \in Int
    <3>. QED  BY ONLY <3>3, <3>4
  <2>2. SubSeq(t, i, i + RefLength - 1) = SubSeq(s, a + i - 1, a + (i + RefLength - 1) - 1)
    BY <2>1, PartOfPart
  <2>. QED  BY <2>1, <2>2 DEF Window
<1>. HIDE DEF t
<1>5. \A i \in 1 .. Len(t) - RefLength + 1 : Clean(t, i) <=> Clean(s, a + i - 1)
  <2>. SUFFICES ASSUME NEW i \in 1 .. Len(t) - RefLength + 1
                PROVE  Clean(t, i) <=> Clean(s, a + i - 1)
    OBVIOUS
  <2>1. ASSUME Clean(t, i), NEW j \in a + i - 1 .. a + i - 1 + RefLength - 1
        PROVE  s[j] # 0
    <3>1. j - a + 1 \in i .. i + RefLength - 1 /\ j - a + 1 \in 1 .. b - a + 1
          /\ a + (j - a + 1) - 1 = j
      BY <1>1
    <3>. QED  BY <1>1, <2>1, <3>1 DEF Clean
  <2>2. ASSUME Clean(s, a + i - 1), NEW j \in i .. i + RefLength - 1
        PROVE  t[j] # 0
    <3>1. a + j - 1 \in a + i - 1 .. a + i - 1 + RefLength - 1 /\ j \in 1 .. b - a + 1
      BY <1>1
    <3>. QED  BY <1>1, <2>2, <3>1 DEF Clean
  <2>. QED  BY <2>1, <2>2 DEF Clean
<1>6. WindowsIn(t, 1, Len(t)) \subseteq WindowsIn(s, a, b)
  <2>. SUFFICES ASSUME NEW i \in 1 .. Len(t) - RefLength + 1, Clean(t, i)
                PROVE  Window(t, i) \in WindowsIn(s, a, b)
    BY DEF WindowsIn
  <2>1. a + i - 1 \in a .. b - RefLength + 1  BY <1>1
  <2>2. Clean(s, a + i - 1) /\ Window(t, i) = Window(s, a + i - 1)  BY <1>4, <1>5
  <2>. QED  BY <2>1, <2>2 DEF WindowsIn
<1>7. WindowsIn(s, a, b) \subseteq WindowsIn(t, 1, Len(t))
  <2>. SUFFICES ASSUME NEW k \in a .. b - RefLength + 1, Clean(s, k)
                PROVE  Window(s, k) \in WindowsIn(t, 1, Len(t))
    BY DEF WindowsIn
  <2>. DEFINE i == k - a + 1
  <2>1. i \in 1 .. Len(t) - RefLength + 1 /\ a + i - 1 = k  BY <1>1
  <2>. HIDE DEF i
  <2>2. Clean(t, i) /\ Window(t, i) = Window(s, k)  BY <1>4, <1>5, <2>1
  <2>. QED  BY <2>1, <2>2 DEF WindowsIn
<1>. QED  BY <1>3, <1>6, <1>7 DEF t

\* The hashes of the property are the clean windows: a hash is of base-32.
LEMMA OccursInWindows ==
    ASSUME NEW s \in Seq(Characters), NEW g \in 0 .. Len(s)
    PROVE  {h \in Hashes : \E i \in 1 .. Len(First(s, g)) - RefLength + 1 :
                              SubSeq(First(s, g), i, i + RefLength - 1) = h}
               = Hashes \cap WindowsIn(s, 1, g)
<1>. USE HashesAssumption
<1>1. First(s, g) \in Seq(Characters) /\ Len(First(s, g)) = g
  BY PartOfStream DEF First
<1>2. \A i \in 1 .. g - RefLength + 1 :
         SubSeq(First(s, g), i, i + RefLength - 1) = Window(s, i)
  <2>. SUFFICES ASSUME NEW i \in 1 .. g - RefLength + 1
                PROVE  SubSeq(First(s, g), i, i + RefLength - 1) = Window(s, i)
    OBVIOUS
  <2>1. i \in 1 .. g - 1 + 2 /\ i + RefLength - 1 \in i - 1 .. g - 1 + 1
        /\ 1 + i - 1 = i /\ 1 + (i + RefLength - 1) - 1 = i + RefLength - 1
        /\ 1 \in 1 .. Len(s) + 1 /\ g \in 1 - 1 .. Len(s)
    OBVIOUS
  <2>2. SubSeq(SubSeq(s, 1, g), i, i + RefLength - 1)
            = SubSeq(s, 1 + i - 1, 1 + (i + RefLength - 1) - 1)
    BY <2>1, PartOfPart
  <2>. QED  BY <2>1, <2>2 DEF First, Window
<1>3. ASSUME NEW i \in 1 .. g - RefLength + 1, Window(s, i) \in Hashes
      PROVE  Clean(s, i)
  <2>. DEFINE h == Window(s, i)
  <2>1. h \in [1 .. RefLength -> Characters \ {0}]  BY <1>3
  <2>2. \A j \in 1 .. i + RefLength - 1 - i + 1 : h[j] = s[i + j - 1]
    <3>1. i \in 1 .. Len(s) + 1 /\ i + RefLength - 1 \in i - 1 .. Len(s)
      OBVIOUS
    <3>. QED  BY <3>1, PartOfStream DEF Window
  <2>. HIDE DEF h
  <2>. SUFFICES ASSUME NEW j \in i .. i + RefLength - 1 PROVE s[j] # 0
    BY DEF Clean
  <2>3. j - i + 1 \in 1 .. RefLength /\ i + (j - i + 1) - 1 = j
        /\ j - i + 1 \in 1 .. i + RefLength - 1 - i + 1
    OBVIOUS
  <2>4. h[j - i + 1] = s[j]  BY <2>2, <2>3
  <2>5. h[j - i + 1] # 0  BY <2>1, <2>3
  <2>. QED  BY <2>4, <2>5
<1>4. ASSUME NEW h \in Hashes
      PROVE  (\E i \in 1 .. Len(First(s, g)) - RefLength + 1 :
                  SubSeq(First(s, g), i, i + RefLength - 1) = h)
                 <=> h \in WindowsIn(s, 1, g)
  <2>1. (\E i \in 1 .. Len(First(s, g)) - RefLength + 1 :
            SubSeq(First(s, g), i, i + RefLength - 1) = h)
           <=> \E i \in 1 .. g - RefLength + 1 : Window(s, i) = h
    BY <1>1, <1>2
  <2>2. (\E i \in 1 .. g - RefLength + 1 : Window(s, i) = h)
           <=> h \in WindowsIn(s, 1, g)
    BY <1>3 DEF WindowsIn
  <2>. QED  BY <2>1, <2>2
<1>. QED  BY <1>4

\* A window of the stream so far and the next n characters is within the stream so
\* far, within the next characters, or within the tail and the start of the next ones.
LEMMA WindowsAcross ==
    ASSUME NEW s, NEW g \in Nat, NEW n \in Nat
    PROVE  WindowsIn(s, 1, g + n)
               = WindowsIn(s, 1, g)
                 \cup WindowsIn(s, g - Shorter(g, RefLength) + 1, g + Shorter(n, RefLength))
                 \cup WindowsIn(s, g + 1, g + n)
<1>. USE HashesAssumption
<1>. DEFINE a == g - Shorter(g, RefLength) + 1
            e == g + Shorter(n, RefLength)
<1>1. /\ 1 .. g - RefLength + 1 \subseteq 1 .. g + n - RefLength + 1
      /\ a .. e - RefLength + 1 \subseteq 1 .. g + n - RefLength + 1
      /\ g + 1 .. g + n - RefLength + 1 \subseteq 1 .. g + n - RefLength + 1
  BY DEF Shorter
<1>2. ASSUME NEW i \in 1 .. g + n - RefLength + 1
      PROVE  \/ i \in 1 .. g - RefLength + 1
             \/ i \in a .. e - RefLength + 1
             \/ i \in g + 1 .. g + n - RefLength + 1
  BY DEF Shorter
<1>. HIDE DEF a, e
<1>3. WindowsIn(s, 1, g + n) = WindowsIn(s, 1, g) \cup WindowsIn(s, a, e) \cup WindowsIn(s, g + 1, g + n)
  BY <1>1, <1>2 DEF WindowsIn
<1>. QED  BY <1>3 DEF a, e

\* Between two fragments: the tail is the end of what was given, as long as a hash
\* or all of it, and what has been seen is no longer looked for.
TailInv ==
    /\ input \in Seq(Characters) /\ given \in 0 .. Len(input)
    /\ tail = SubSeq(input, given - Shorter(given, RefLength) + 1, given)
    /\ seen \subseteq Hashes /\ hashes = Hashes \ seen
    /\ seen = Hashes \cap WindowsIn(input, 1, given)

\* The end of a part of the stream.
LEMMA EndOfPart ==
    ASSUME NEW s \in Seq(Characters), NEW a \in 1 .. Len(s) + 1, NEW b \in a - 1 .. Len(s),
           NEW l \in 0 .. b - a + 1
    PROVE  Final(SubSeq(s, a, b), l) = SubSeq(s, b - l + 1, b)
<1>. DEFINE t == SubSeq(s, a, b)
            n == b - a + 1
            c == n - l + 1
<1>1. Len(t) = n  BY PartOfStream
<1>2. /\ c \in 1 .. b - a + 2 /\ n \in c - 1 .. b - a + 1
      /\ a + c - 1 = b - l + 1 /\ a + n - 1 = b
  OBVIOUS
<1>3. Final(t, l) = SubSeq(t, c, n)
  <2>. HIDE DEF t, n
  <2>. QED  BY <1>1, Zenon DEF Final
<1>. HIDE DEF n, c
<1>4. SubSeq(t, c, n) = SubSeq(s, a + c - 1, a + n - 1)
  BY <1>2, PartOfPart
<1>. HIDE DEF t
<1>5. Final(t, l) = SubSeq(s, b - l + 1, b)
  BY <1>2, <1>3, <1>4
<1>. QED  BY <1>5 DEF t

\* The new tail is the end of the stream so far again.
LEMMA TailKept ==
    ASSUME TailInv, NEW n \in 0 .. Len(input) - given
    PROVE  KeptTail(SubSeq(input, given + 1, given + n))
               = SubSeq(input, given + n - Shorter(given + n, RefLength) + 1, given + n)
<1>. DEFINE data == SubSeq(input, given + 1, given + n)
            m == Shorter(given, RefLength)
            k == Shorter(n, RefLength)
            l == IF RefLength - k < m THEN RefLength - k ELSE m
            w == Shorter(given + n, RefLength)
<1>1. /\ input \in Seq(Characters) /\ given \in Nat /\ n \in Nat /\ Len(input) \in Nat
      /\ given <= Len(input) /\ given + n <= Len(input)
      /\ tail = SubSeq(input, given - m + 1, given)
  BY DEF TailInv
<1>2. /\ m \in 0 .. given /\ k \in 0 .. n /\ l \in 0 .. m /\ RefLength - k \in 0 .. RefLength
      /\ k # n => l = 0
      /\ l + k = w
  BY <1>1, HashesAssumption DEF Shorter
<1>3. /\ given + 1 \in 1 .. Len(input) + 1 /\ given + n \in given + 1 - 1 .. Len(input)
      /\ given + n - (given + 1) + 1 = n
  BY <1>1
<1>4. Len(data) = n
  <2>. DEFINE c == given + 1
              e == given + n
  <2>1. c \in 1 .. Len(input) + 1 /\ e \in c - 1 .. Len(input) /\ e - c + 1 = n
    BY <1>1, <1>3
  <2>. HIDE DEF c, e, m, k, l, w
  <2>2. Len(SubSeq(input, c, e)) = n
    BY <1>1, <2>1, PartOfStream
  <2>. QED  BY <2>2 DEF c, e
<1>5. KeptTail(data)
         = (IF RefLength - k < Len(tail) THEN Final(tail, RefLength - k) ELSE tail) \o Final(data, k)
  <2>. HIDE DEF data
  <2>. QED  BY <1>4, Zenon DEF KeptTail
<1>6. given - m + 1 \in 1 .. Len(input) + 1 /\ given \in given - m + 1 - 1 .. Len(input)
      /\ given - (given - m + 1) + 1 = m
  <2>. HIDE DEF m, l, k, w
  <2>. QED  BY <1>1, <1>2
<1>7. Len(tail) = m
  <2>. HIDE DEF m
  <2>. QED  BY <1>1, <1>6, PartOfStream
<1>8. (IF RefLength - k < Len(tail) THEN Final(tail, RefLength - k) ELSE tail)
         = SubSeq(input, given - l + 1, given)
  <2>1. CASE RefLength - k < m
    <3>1. l = RefLength - k /\ l \in 0 .. m  BY <1>2, <2>1
    <3>2. Final(tail, l) = SubSeq(input, given - l + 1, given)
      <4>. DEFINE c == given - m + 1
      <4>1. c \in 1 .. Len(input) + 1 /\ given \in c - 1 .. Len(input)
            /\ l \in 0 .. given - c + 1 /\ tail = SubSeq(input, c, given)
        <5>. HIDE DEF m, l
        <5>. QED  BY <1>1, <1>6, <3>1
      <4>. HIDE DEF m, l, c
      <4>. QED  BY <1>1, <4>1, EndOfPart
    <3>. HIDE DEF m, l, k
    <3>. QED  BY <1>7, <2>1, <3>1, <3>2
  <2>2. CASE ~ (RefLength - k < m)
    <3>1. l = m  BY <2>2
    <3>. HIDE DEF m, l, k
    <3>. QED  BY <1>1, <1>7, <2>2, <3>1
  <2>. QED  BY <2>1, <2>2
<1>9. Final(data, k) = SubSeq(input, given + n - k + 1, given + n)
  <2>. DEFINE c == given + 1
              e == given + n
  <2>1. c \in 1 .. Len(input) + 1 /\ e \in c - 1 .. Len(input) /\ k \in 0 .. e - c + 1
    <3>. HIDE DEF k, m, l, w
    <3>. QED  BY <1>1, <1>2, <1>3
  <2>. HIDE DEF k, c, e
  <2>2. Final(SubSeq(input, c, e), k) = SubSeq(input, e - k + 1, e)
    BY <1>1, <2>1, EndOfPart
  <2>3. data = SubSeq(input, c, e) /\ e - k + 1 = given + n - k + 1 /\ e = given + n
    BY <1>1, <1>2 DEF c, e
  <2>. HIDE DEF data
  <2>. QED  BY <2>2, <2>3
<1>. HIDE DEF data, m, k, l, w
<1>10. SubSeq(input, given - l + 1, given) \o SubSeq(input, given + n - k + 1, given + n)
         = SubSeq(input, given + n - w + 1, given + n)
  <2>1. CASE k = n
    <3>1. /\ given - l + 1 \in 1 .. Len(input) + 1
          /\ given \in given - l + 1 - 1 .. Len(input)
          /\ given + n \in given .. Len(input)
          /\ given + n - k + 1 = given + 1
          /\ given + n - w + 1 = given - l + 1
      BY <1>1, <1>2, <2>1
    <3>. DEFINE c == given - l + 1
                e == given + n
    <3>2. c \in 1 .. Len(input) + 1 /\ given \in c - 1 .. Len(input) /\ e \in given .. Len(input)
      BY <1>1, <1>2, <2>1
    <3>. HIDE DEF c, e
    <3>3. SubSeq(input, c, given) \o SubSeq(input, given + 1, e) = SubSeq(input, c, e)
      BY <1>1, <3>2, ConcatAdjacentSubSeq
    <3>4. SubSeq(input, given - l + 1, given) \o SubSeq(input, given + 1, given + n)
             = SubSeq(input, given - l + 1, given + n)
      BY <3>3 DEF c, e
    <3>. QED  BY <3>1, <3>4
  <2>2. CASE k # n
    <3>1. l = 0 /\ k = w  BY <1>2, <2>2
    <3>2. SubSeq(input, given - l + 1, given) = << >>
      <4>1. given - l + 1 \in Int /\ given \in Int /\ given < given - l + 1  BY <1>1, <3>1
      <4>. QED  BY <4>1, SubSeqEmpty
    <3>3. SubSeq(input, given + n - k + 1, given + n) \in Seq(Characters)
      <4>1. given + n - k + 1 \in 1 .. Len(input) + 1
            /\ given + n \in given + n - k + 1 - 1 .. Len(input)
        BY <1>1, <1>2
      <4>. QED  BY <1>1, <4>1, PartOfStream
    <3>4. << >> \o SubSeq(input, given + n - k + 1, given + n)
             = SubSeq(input, given + n - k + 1, given + n)
      BY <3>3, ConcatEmptySeq
    <3>. QED  BY <3>1, <3>2, <3>4
  <2>. QED  BY <2>1, <2>2
<1>11. KeptTail(data) = SubSeq(input, given + n - w + 1, given + n)
  BY <1>5, <1>8, <1>9, <1>10
<1>. QED  BY <1>11 DEF data, w

\* A fragment: what search() finds in the tail with the start of the data, and in the
\* data, is what the longer stream has more.
LEMMA FragmentKeeps ==
    ASSUME TailInv, Fragment
    PROVE  TailInv'
<1>. USE HashesAssumption
<1>1. PICK n \in 0 .. Len(input) - given :
         LET data == SubSeq(input, given + 1, given + n)
         IN  given' = given + n /\ Scan(data)
  BY DEF Fragment
<1>2. input' = input  BY DEF Fragment
<1>. DEFINE data == SubSeq(input, given + 1, given + n)
            k == Shorter(n, RefLength)
            a == given - Shorter(given, RefLength) + 1
<1>3. /\ input \in Seq(Characters) /\ given \in 0 .. Len(input) /\ Len(input) \in Nat
      /\ tail = SubSeq(input, a, given)
  BY DEF TailInv
<1>4. /\ given + 1 \in 1 .. Len(input) + 1 /\ given + n \in given + 1 - 1 .. Len(input)
      /\ a \in 1 .. given + 1 /\ k \in 0 .. n
  BY <1>3 DEF Shorter
<1>5. Search(data) = WindowsIn(input, given + 1, given + n)
  <2>. DEFINE c == given + 1
              e == given + n
  <2>. HIDE DEF k, a, data
  <2>1. c \in 1 .. Len(input) + 1 /\ e \in c - 1 .. Len(input)  BY <1>3, <1>4
  <2>. HIDE DEF c, e
  <2>2. Search(SubSeq(input, c, e)) = WindowsIn(input, c, e)  BY <1>3, <2>1, SearchPart
  <2>. QED  BY <2>2 DEF c, e, data
<1>6. Len(data) = n
  BY <1>3, <1>4, PartOfStream
<1>7. tail \o First(data, k) = SubSeq(input, a, given + k)
  <2>1. /\ 1 \in 1 .. given + n - (given + 1) + 2
        /\ k \in 1 - 1 .. given + n - (given + 1) + 1
        /\ given + 1 + 1 - 1 = given + 1 /\ given + 1 + k - 1 = given + k
    BY <1>3, <1>4
  <2>. HIDE DEF k
  <2>2. SubSeq(data, 1, k) = SubSeq(input, given + 1 + 1 - 1, given + 1 + k - 1)
    BY <1>3, <1>4, <2>1, PartOfPart
  <2>3. First(data, k) = SubSeq(input, given + 1, given + k)
    BY <2>1, <2>2 DEF First
  <2>4. /\ a \in 1 .. Len(input) + 1 /\ given \in a - 1 .. Len(input)
        /\ given + k \in given .. Len(input)
    BY <1>3, <1>4
  <2>. HIDE DEF a, data
  <2>5. SubSeq(input, a, given) \o SubSeq(input, given + 1, given + k)
           = SubSeq(input, a, given + k)
    BY <1>3, <2>4, ConcatAdjacentSubSeq
  <2>. QED  BY <1>3, <2>3, <2>5
<1>8. Search(tail \o First(data, k)) = WindowsIn(input, a, given + k)
  <2>1. a \in 1 .. Len(input) + 1 /\ given + k \in a - 1 .. Len(input)
    BY <1>3, <1>4
  <2>. HIDE DEF a, k, data
  <2>. QED  BY <1>3, <1>7, <2>1, SearchPart
<1>. DEFINE refs == hashes \cap (WindowsIn(input, a, given + k)
                                 \cup WindowsIn(input, given + 1, given + n))
<1>9. /\ hashes' = hashes \ refs /\ seen' = seen \cup refs
      /\ tail' = KeptTail(data)
  <2>1. Scan(data)  BY <1>1
  <2>2. Shorter(Len(data), RefLength) = k  BY <1>6
  <2>. HIDE DEF data, k, a
  <2>. QED  BY <1>5, <1>8, <2>1, <2>2 DEF Scan
<1>10. WindowsIn(input, 1, given + n)
          = WindowsIn(input, 1, given) \cup WindowsIn(input, a, given + k)
            \cup WindowsIn(input, given + 1, given + n)
  <2>1. given \in Nat /\ n \in Nat  BY <1>3
  <2>2. \A g \in Nat : \A x \in Nat :
           WindowsIn(input, 1, g + x)
               = WindowsIn(input, 1, g)
                 \cup WindowsIn(input, g - Shorter(g, RefLength) + 1, g + Shorter(x, RefLength))
                 \cup WindowsIn(input, g + 1, g + x)
    BY WindowsAcross
  <2>. QED  BY <2>1, <2>2, Zenon
<1>11. tail' = SubSeq(input, given + n - Shorter(given + n, RefLength) + 1, given + n)
  <2>. HIDE DEF k, a, refs
  <2>. QED  BY <1>9, TailKept
<1>. HIDE DEF data, k, a
<1>12. /\ seen' \subseteq Hashes /\ hashes' = Hashes \ seen'
       /\ seen' = Hashes \cap WindowsIn(input, 1, given + n)
  BY <1>9, <1>10 DEF TailInv
<1>13. given' = given + n /\ given' \in 0 .. Len(input)
  BY <1>1, <1>3
<1>14. tail' = SubSeq(input', given' - Shorter(given', RefLength) + 1, given')
  <2>1. \A x : x = given + n => tail' = SubSeq(input, x - Shorter(x, RefLength) + 1, x)
    <3>1. ASSUME NEW x, x = given + n
          PROVE  /\ x - Shorter(x, RefLength) + 1 = given + n - Shorter(given + n, RefLength) + 1
                 /\ x = given + n
      <4>1. Shorter(given + n, RefLength) \in Int /\ given + n \in Int
        BY <1>3 DEF Shorter
      <4>. QED  BY <1>3, <3>1, <4>1
    <3>. QED  BY <1>11, <3>1
  <2>2. tail' = SubSeq(input, given' - Shorter(given', RefLength) + 1, given')
    BY <1>13, <2>1
  <2>. QED  BY <1>2, <2>2
<1>15. seen' = Hashes \cap WindowsIn(input', 1, given')
  BY <1>2, <1>12, <1>13
<1>16. TailInv' = (/\ input' \in Seq(Characters) /\ given' \in 0 .. Len(input')
                   /\ tail' = SubSeq(input', given' - Shorter(given', RefLength) + 1, given')
                   /\ seen' \subseteq Hashes /\ hashes' = Hashes \ seen'
                   /\ seen' = Hashes \cap WindowsIn(input', 1, given'))
  BY Zenon DEF TailInv, WindowsIn, Window, Clean, Shorter
<1>. QED  BY <1>2, <1>3, <1>12, <1>13, <1>14, <1>15, <1>16

\* RefScanSink, for every length of hashes, every set of hashes, every stream and every
\* way to cut it: it has found exactly the hashes that occur in what it was given.
THEOREM ScanIsExact == ReferencesSpec => []ScanExact
<1>. USE HashesAssumption
<1>1. ReferencesInit => TailInv
  <2>. SUFFICES ASSUME ReferencesInit PROVE TailInv
    OBVIOUS
  <2>1. input \in Seq(Characters) /\ given = 0 /\ Len(input) \in Nat
    <3>1. PICK n \in 0 .. MaxLength : input \in [1 .. n -> Characters]  BY DEF ReferencesInit
    <3>. QED  BY <3>1, IsASeq, LenProperties DEF ReferencesInit
  <2>2. SubSeq(input, 0 - Shorter(0, RefLength) + 1, 0) = << >>
    BY SubSeqEmpty DEF Shorter
  <2>3. WindowsIn(input, 1, 0) = {}
    BY DEF WindowsIn
  <2>4. tail = SubSeq(input, given - Shorter(given, RefLength) + 1, given)
    BY <2>1, <2>2 DEF ReferencesInit
  <2>5. seen = {} /\ hashes = Hashes /\ seen = Hashes \cap WindowsIn(input, 1, given)
    BY <2>1, <2>3 DEF ReferencesInit
  <2>. QED  BY <2>1, <2>4, <2>5 DEF TailInv
<1>2. TailInv /\ [ReferencesNext]_referenceVars => TailInv'
  <2>. SUFFICES ASSUME TailInv, [ReferencesNext]_referenceVars PROVE TailInv'
    OBVIOUS
  <2>1. CASE Fragment  BY <2>1, FragmentKeeps
  <2>2. CASE FlushSink  BY <2>2 DEF FlushSink, TailInv
  <2>3. CASE UNCHANGED referenceVars  BY <2>3 DEF referenceVars, TailInv
  <2>. QED  BY <2>1, <2>2, <2>3 DEF ReferencesNext
<1>3. TailInv => ScanExact
  <2>. SUFFICES ASSUME TailInv PROVE ScanExact
    OBVIOUS
  <2>. QED  BY OccursInWindows DEF ScanExact, TailInv
<1>. QED  BY <1>1, <1>2, <1>3, PTL DEF ReferencesSpec

(***************************************************************************)
(* References: RewriteExact                                                *)
(***************************************************************************)
\* A set that has 0, and with a number its successor, has all numbers up to the bound.
LEMMA Climb ==
    ASSUME NEW N \in Nat, NEW S, 0 \in S, \A j \in 1 .. N : j - 1 \in S => j \in S
    PROVE  \A j \in 0 .. N : j \in S
<1>. DEFINE R == {-j : j \in {k \in 0 .. N : k \notin S}}
<1>1. SUFFICES ASSUME R # {} PROVE FALSE
  OBVIOUS
<1>2. 0 \in Int /\ \A x \in R : x \in Int /\ x <= 0  OBVIOUS
<1>3. PICK x \in R : \A y \in R : y <= x
  <2>. HIDE DEF R
  <2>. QED  BY <1>1, <1>2, GreatestElement
<1>4. PICK j \in 0 .. N : j \notin S /\ x = -j  OBVIOUS
<1>5. j # 0 /\ j \in 1 .. N /\ j - 1 \in 0 .. N  BY <1>4
<1>6. j - 1 \notin S  BY <1>4, <1>5
<1>7. -(j - 1) \in R  BY <1>5, <1>6
<1>8. x \in Int /\ -(j - 1) > x  BY <1>4
<1>9. -(j - 1) <= x
  <2>. HIDE DEF R
  <2>. QED  BY <1>3, <1>7
<1>. QED  BY <1>4, <1>8, <1>9

Pairs == Seq(Characters) \X Seq(Characters)

\* One round of the loop, and all of them.
Round(t, p, j) == IF Occurs(t, p[1], j) THEN ReplacedAt(t, p[2], j) ELSE t
Replaces(r, t, p, j) ==
    \A i \in 1 .. Len(t) : r[i] = IF Occurs(t, p[1], j) /\ i \in j .. j + Len(p[1]) - 1
                                  THEN p[2][i - j + 1] ELSE t[i]
Rounds(f, s, p) ==
    /\ \A j \in 0 .. Len(s) : f[j] \in Seq(Characters) /\ Len(f[j]) = Len(s)
    /\ f[0] = s
    /\ \A j \in 1 .. Len(s) : f[j] = Round(f[j - 1], p, j) /\ Replaces(f[j], f[j - 1], p, j)

\* A round gives a string of the same length, with the replacement where the string
\* searched for was.
LEMMA RoundFacts ==
    ASSUME NEW t \in Seq(Characters), NEW p \in Pairs, Len(p[1]) = Len(p[2]),
           NEW j \in Nat \ {0}
    PROVE  /\ Round(t, p, j) \in Seq(Characters)
           /\ Len(Round(t, p, j)) = Len(t)
           /\ Replaces(Round(t, p, j), t, p, j)
<1>1. p[1] \in Seq(Characters) /\ p[2] \in Seq(Characters)  BY DEF Pairs
<1>2. Len(t) \in Nat /\ Len(p[2]) \in Nat  BY <1>1, LenProperties
<1>3. CASE ~ Occurs(t, p[1], j)  BY <1>3 DEF Round, Replaces
<1>4. CASE Occurs(t, p[1], j)
  <2>. DEFINE e(i) == IF i \in j .. j + Len(p[2]) - 1 THEN p[2][i - j + 1] ELSE t[i]
              r == [i \in 1 .. Len(t) |-> e(i)]
  <2>1. \A i \in 1 .. Len(t) : e(i) \in Characters
    <3>. SUFFICES ASSUME NEW i \in 1 .. Len(t) PROVE e(i) \in Characters  OBVIOUS
    <3>1. i \in j .. j + Len(p[2]) - 1 => i - j + 1 \in 1 .. Len(p[2])  BY <1>2
    <3>2. i \in j .. j + Len(p[2]) - 1 => p[2][i - j + 1] \in Characters
      BY <1>1, <3>1, ElementOfSeq
    <3>3. t[i] \in Characters  BY ElementOfSeq
    <3>. QED  BY <3>2, <3>3
  <2>2. Round(t, p, j) = r  BY <1>4 DEF Round, ReplacedAt
  <2>3. \A i \in 1 .. Len(t) : r[i] = e(i)  OBVIOUS
  <2>4. r \in Seq(Characters) /\ Len(r) = Len(t)
    <3>. HIDE DEF e
    <3>1. r \in Seq(Characters)  BY <1>2, <2>1, IsASeq
    <3>2. DOMAIN r = 1 .. Len(t)  OBVIOUS
    <3>. HIDE DEF r
    <3>. QED  BY <1>2, <3>1, <3>2, LenProperties
  <2>. HIDE DEF r
  <2>5. \A i \in 1 .. Len(t) : Round(t, p, j)[i] = IF i \in j .. j + Len(p[1]) - 1
                                                  THEN p[2][i - j + 1] ELSE t[i]
    BY <2>2, <2>3
  <2>. QED  BY <1>4, <2>2, <2>4, <2>5 DEF Replaces
<1>. QED  BY <1>3, <1>4

\* The loop of rewriteStrings has its rounds.
LEMMA RoundsOfReplaced ==
    ASSUME NEW s \in Seq(Characters), NEW p \in Pairs, Len(p[1]) = Len(p[2])
    PROVE  \E f : Rounds(f, s, p) /\ Replaced(s, p) = f[Len(s)]
<1>. DEFINE L == Len(s)
            body(f, j) == IF j = 0 THEN s ELSE Round(f[j - 1], p, j)
            eq(f, K) == f = [j \in 0 .. K |-> body(f, j)]
            S == {K \in 0 .. L : \E f : eq(f, K)}
<1>1. L \in Nat  BY LenProperties
<1>. HIDE DEF L
<1>2. 0 \in S
  <2>. DEFINE f == [j \in 0 .. 0 |-> s]
  <2>1. \A j \in 0 .. 0 : body(f, j) = s  OBVIOUS
  <2>2. [j \in 0 .. 0 |-> body(f, j)] = [j \in 0 .. 0 |-> s]
    <3>. HIDE DEF body, f
    <3>. QED  BY <2>1
  <2>3. eq(f, 0)  BY <2>2
  <2>. HIDE DEF eq, f
  <2>. QED  BY <1>1, <2>3
<1>3. ASSUME NEW K \in 1 .. L, K - 1 \in S PROVE K \in S
  <2>1. PICK h : eq(h, K - 1)
    <3>. HIDE DEF eq
    <3>. QED  BY <1>3
  <2>. DEFINE f == [j \in 0 .. K |-> IF j = K THEN Round(h[K - 1], p, K) ELSE h[j]]
  <2>2. \A j \in 0 .. K - 1 : h[j] = body(h, j)
    <3>. HIDE DEF body
    <3>. QED  BY <2>1
  <2>3. ASSUME NEW j \in 0 .. K PROVE f[j] = body(f, j)
    <3>1. CASE j = K
      <4>1. K - 1 \in 0 .. K /\ K - 1 # K /\ K # 0  BY <1>3
      <4>2. f[K - 1] = h[K - 1]  BY <4>1
      <4>3. f[K] = Round(h[K - 1], p, K)  OBVIOUS
      <4>. QED  BY <3>1, <4>1, <4>2, <4>3
    <3>2. CASE j # K /\ j = 0
      <4>1. f[0] = h[0] /\ 0 \in 0 .. K - 1  BY <1>3, <3>2
      <4>. QED  BY <2>2, <3>2, <4>1
    <3>3. CASE j # K /\ j # 0
      <4>1. j \in 0 .. K - 1 /\ j - 1 \in 0 .. K /\ j - 1 # K  BY <3>3
      <4>2. f[j] = h[j] /\ f[j - 1] = h[j - 1]  BY <3>3, <4>1
      <4>. QED  BY <2>2, <3>3, <4>1, <4>2
    <3>. QED  BY <3>1, <3>2, <3>3
  <2>4. f = [j \in 0 .. K |-> f[j]]  OBVIOUS
  <2>5. [j \in 0 .. K |-> f[j]] = [j \in 0 .. K |-> body(f, j)]
    <3>. HIDE DEF body, f
    <3>. QED  BY <2>3
  <2>6. eq(f, K)
    <3>. HIDE DEF body, f
    <3>. QED  BY <2>4, <2>5
  <2>7. K \in 0 .. L  BY <1>1
  <2>. HIDE DEF f, eq
  <2>. QED  BY <2>6, <2>7
<1>4. L \in S
  <2>1. L \in 0 .. L  BY <1>1
  <2>. HIDE DEF S
  <2>. QED  BY <1>1, <1>2, <1>3, <2>1, Climb
<1>. DEFINE f == CHOOSE g : eq(g, L)
<1>5. eq(f, L)
  <2>. HIDE DEF eq
  <2>. QED  BY <1>4
<1>6. Replaced(s, p) = f[L]
  BY Zenon DEF Replaced, Round, L
<1>. HIDE DEF f
<1>7. \A j \in 0 .. L : f[j] = body(f, j)
  <2>. HIDE DEF body
  <2>. QED  BY <1>5
<1>8. f[0] = s /\ \A j \in 1 .. L : f[j] = Round(f[j - 1], p, j)
  <2>1. 0 \in 0 .. L /\ \A j \in 1 .. L : j \in 0 .. L /\ j # 0  BY <1>1
  <2>. QED  BY <1>7, <2>1
<1>9. \A j \in 0 .. L : f[j] \in Seq(Characters) /\ Len(f[j]) = L
  <2>. DEFINE T == {j \in 0 .. L : f[j] \in Seq(Characters) /\ Len(f[j]) = L}
  <2>1. 0 \in T  BY <1>1, <1>8 DEF L
  <2>2. ASSUME NEW j \in 1 .. L, j - 1 \in T PROVE j \in T
    <3>1. Round(f[j - 1], p, j) \in Seq(Characters) /\ Len(Round(f[j - 1], p, j)) = Len(f[j - 1])
      BY <2>2, RoundFacts
    <3>. QED  BY <1>8, <2>2, <3>1
  <2>3. \A j \in 0 .. L : j \in T
    <3>. HIDE DEF T
    <3>. QED  BY <1>1, <2>1, <2>2, Climb
  <2>. QED  BY <2>3
<1>10. \A j \in 1 .. L : Replaces(f[j], f[j - 1], p, j)
  <2>1. ASSUME NEW j \in 1 .. L PROVE Replaces(f[j], f[j - 1], p, j)
    <3>1. j - 1 \in 0 .. L /\ j \in Nat \ {0}  BY <1>1
    <3>2. f[j - 1] \in Seq(Characters)  BY <1>9, <3>1
    <3>3. Replaces(Round(f[j - 1], p, j), f[j - 1], p, j)  BY <3>1, <3>2, RoundFacts
    <3>4. f[j] = Round(f[j - 1], p, j)  BY <1>8
    <3>. QED  BY <3>3, <3>4
  <2>. QED  BY <2>1
<1>11. Rounds(f, s, p)  BY <1>8, <1>9, <1>10 DEF Rounds, L
<1>. QED  BY <1>6, <1>11 DEF L

\* What the rewriter holds back of g characters: one less than the string searched for.
Kept(p, g) == IF Len(p[1]) = 0 THEN 0 ELSE IF g < Len(p[1]) THEN g ELSE Len(p[1]) - 1

\* A string occurs in two strings that agree at its place.
LEMMA OccursInBoth ==
    ASSUME NEW t \in Seq(Characters), NEW u \in Seq(Characters), NEW from \in Seq(Characters),
           NEW d \in Nat, NEW j \in Nat \ {0},
           j + Len(from) - 1 <= Len(u) <=> d + j + Len(from) - 1 <= Len(t),
           \A i \in j .. j + Len(from) - 1 : i <= Len(u) => u[i] = t[d + i]
    PROVE  Occurs(u, from, j) <=> Occurs(t, from, d + j)
<1>1. Len(from) \in Nat /\ Len(t) \in Nat /\ Len(u) \in Nat  BY LenProperties
<1>2. CASE j + Len(from) - 1 <= Len(u)
  <2>1. ASSUME NEW i \in 1 .. Len(from) PROVE u[j + i - 1] = t[d + j + i - 1]
    <3>1. j + i - 1 \in j .. j + Len(from) - 1 /\ j + i - 1 <= Len(u)
          /\ d + (j + i - 1) = d + j + i - 1
      BY <1>1, <1>2
    <3>2. u[j + i - 1] = t[d + (j + i - 1)]  BY <3>1
    <3>. QED  BY <3>1, <3>2
  <2>. QED  BY <1>2, <2>1 DEF Occurs
<1>3. CASE ~ (j + Len(from) - 1 <= Len(u))
  BY <1>3 DEF Occurs
<1>. QED  BY <1>2, <1>3

\* No more is held back than there was; before it, every place of the string searched for
\* has been tried, and no string searched for ends in it.
LEMMA KeptFacts ==
    ASSUME NEW p, Len(p[1]) \in Nat, NEW g \in Nat
    PROVE  /\ Kept(p, g) \in 0 .. g /\ g - Kept(p, g) \in 0 .. g
           /\ \A j \in 1 .. g - Kept(p, g) : j + Len(p[1]) - 1 <= g
           /\ \A j \in g - Kept(p, g) + 1 .. g : ~ (j + Len(p[1]) - 1 <= g)
<1>. DEFINE n == Len(p[1])
<1>1. CASE n = 0  BY <1>1 DEF Kept
<1>2. CASE n # 0 /\ g < n
  <2>1. Kept(p, g) = g  BY <1>2 DEF Kept
  <2>. HIDE DEF n
  <2>. QED  BY <1>2, <2>1 DEF n
<1>3. CASE n # 0 /\ ~ (g < n)
  <2>1. Kept(p, g) = n - 1  BY <1>3 DEF Kept
  <2>. QED  BY <1>3, <2>1
<1>. QED  BY <1>1, <1>2, <1>3

\* P is the first g characters of X; Z is what was held back of P, and the rest of X.
StartOf(P, X, g) == Len(P) = g /\ \A i \in 1 .. g : P[i] = X[i]
HeldAndRest(Z, P, X, g, p) ==
    LET o == g - Kept(p, g)
    IN  /\ Len(Z) = Len(X) - o
        /\ \A i \in 1 .. Len(Z) : Z[i] = IF o + i <= g THEN Replaced(P, p)[o + i] ELSE X[o + i]

\* The loop on a stream of which the rewriter has had the first g characters is the loop
\* on those, as far as it came, followed by the loop on what was held back and the rest.
\* A place of the string searched for that ends in the rest has not been tried before.
LEMMA ReplacedAcross ==
    ASSUME NEW p \in Pairs, Len(p[1]) = Len(p[2]),
           NEW X \in Seq(Characters), NEW g \in 0 .. Len(X),
           NEW P \in Seq(Characters), StartOf(P, X, g),
           NEW Z \in Seq(Characters), HeldAndRest(Z, P, X, g, p)
    PROVE  \A i \in 1 .. Len(X) :
              Replaced(X, p)[i] = IF i <= g - Kept(p, g) THEN Replaced(P, p)[i]
                                  ELSE Replaced(Z, p)[i - (g - Kept(p, g))]
<1>. DEFINE L == Len(X)
            n == Len(p[1])
            c == Kept(p, g)
            o == g - c
<1>1. /\ p[1] \in Seq(Characters) /\ p[2] \in Seq(Characters)
      /\ n \in Nat /\ L \in Nat /\ g \in Nat /\ g <= L /\ Len(p[2]) = n
  BY LenProperties DEF Pairs
<1>2. /\ c \in 0 .. g /\ o \in 0 .. g /\ o + c = g
      /\ \A j \in 1 .. o : j + n - 1 <= g
      /\ \A j \in o + 1 .. g : ~ (j + n - 1 <= g)
  <2>1. /\ c \in 0 .. g /\ o \in 0 .. g
        /\ \A j \in 1 .. o : j + n - 1 <= g
        /\ \A j \in o + 1 .. g : ~ (j + n - 1 <= g)
    BY <1>1, KeptFacts
  <2>. HIDE DEF c, n
  <2>. QED  BY <1>1, <2>1
<1>3. /\ Len(P) = g /\ \A i \in 1 .. g : P[i] = X[i]
      /\ Len(Z) = L - o
      /\ \A i \in 1 .. Len(Z) : Z[i] = IF o + i <= g THEN Replaced(P, p)[o + i] ELSE X[o + i]
  BY DEF StartOf, HeldAndRest
<1>. HIDE DEF n, c, o, L
<1>0. L - o \in Nat  BY <1>1, <1>2
<1>4. PICK fX : Rounds(fX, X, p) /\ Replaced(X, p) = fX[L]  BY RoundsOfReplaced DEF L
<1>5. PICK fP : Rounds(fP, P, p) /\ Replaced(P, p) = fP[g]  BY <1>3, RoundsOfReplaced
<1>6. PICK fZ : Rounds(fZ, Z, p) /\ Replaced(Z, p) = fZ[L - o]  BY <1>3, RoundsOfReplaced
<1>7. /\ fX[0] = X /\ \A j \in 0 .. L : fX[j] \in Seq(Characters) /\ Len(fX[j]) = L
      /\ \A j \in 1 .. L : Replaces(fX[j], fX[j - 1], p, j)
  BY <1>4 DEF Rounds, L
<1>8. /\ fP[0] = P /\ \A j \in 0 .. g : fP[j] \in Seq(Characters) /\ Len(fP[j]) = g
      /\ \A j \in 1 .. g : fP[j] = Round(fP[j - 1], p, j) /\ Replaces(fP[j], fP[j - 1], p, j)
  BY <1>3, <1>5 DEF Rounds
<1>9. /\ fZ[0] = Z /\ \A j \in 0 .. L - o : fZ[j] \in Seq(Characters) /\ Len(fZ[j]) = L - o
      /\ \A j \in 1 .. L - o : Replaces(fZ[j], fZ[j - 1], p, j)
  BY <1>3, <1>6 DEF Rounds
\* As far as the loop came: the rest has not been touched.
<1>10. \A i \in 1 .. L : fX[o][i] = IF i <= g THEN fP[o][i] ELSE X[i]
  <2>. DEFINE S == {j \in 0 .. o : \A i \in 1 .. L : fX[j][i] = IF i <= g THEN fP[j][i] ELSE X[i]}
  <2>1. 0 \in S
    <3>1. \A i \in 1 .. L : X[i] = IF i <= g THEN P[i] ELSE X[i]  BY <1>1, <1>3
    <3>2. 0 \in 0 .. o  BY <1>2
    <3>. QED  BY <1>7, <1>8, <3>1, <3>2
  <2>2. ASSUME NEW j \in 1 .. o, j - 1 \in S PROVE j \in S
    <3>. DEFINE t == fX[j - 1]
                u == fP[j - 1]
    <3>1. /\ j \in Nat \ {0} /\ j \in 1 .. L /\ j \in 1 .. g /\ j - 1 \in 0 .. L /\ j - 1 \in 0 .. g
          /\ j + n - 1 <= g /\ j + n - 1 <= L
      <4>1. j + n - 1 <= g  BY <1>2
      <4>2. j \in Nat \ {0} /\ j <= g  BY <1>1, <1>2
      <4>. QED  BY <1>1, <4>1, <4>2
    <3>2. /\ t \in Seq(Characters) /\ Len(t) = L /\ u \in Seq(Characters) /\ Len(u) = g
          /\ Replaces(fX[j], t, p, j) /\ Replaces(fP[j], u, p, j)
      BY <1>7, <1>8, <3>1
    <3>3. \A i \in 1 .. L : t[i] = IF i <= g THEN u[i] ELSE X[i]  BY <2>2
    <3>. HIDE DEF t, u
    <3>4. \A i \in 1 .. L : fX[j][i] = IF Occurs(t, p[1], j) /\ i \in j .. j + n - 1
                                              THEN p[2][i - j + 1] ELSE t[i]
      BY <3>2 DEF Replaces, n
    <3>5. \A i \in 1 .. g : fP[j][i] = IF Occurs(u, p[1], j) /\ i \in j .. j + n - 1
                                              THEN p[2][i - j + 1] ELSE u[i]
      BY <3>2 DEF Replaces, n
    <3>6. Occurs(u, p[1], j) <=> Occurs(t, p[1], 0 + j)
      <4>1. \A i \in j .. j + n - 1 : i \in 1 .. L /\ i <= g /\ 0 + i = i  BY <1>1, <3>1
      <4>2. \A i \in j .. j + n - 1 : u[i] = t[0 + i]  BY <3>3, <4>1
      <4>3. j + n - 1 <= Len(u) <=> 0 + j + n - 1 <= Len(t)  BY <1>1, <3>1, <3>2
      <4>4. \A i \in j .. j + n - 1 : i <= Len(u) => u[i] = t[0 + i]  BY <4>2
      <4>5. 0 \in Nat /\ p[1] \in Seq(Characters) /\ j \in Nat \ {0}  BY <1>1, <3>1
      <4>. QED  BY <3>2, <4>3, <4>4, <4>5, OccursInBoth, Zenon DEF n
    <3>7. 0 + j = j  BY <3>1
    <3>8. ASSUME NEW i \in 1 .. L PROVE fX[j][i] = IF i <= g THEN fP[j][i] ELSE X[i]
      <4>1. fX[j][i] = IF Occurs(t, p[1], j) /\ i \in j .. j + n - 1
                                THEN p[2][i - j + 1] ELSE t[i]
        BY <3>4
      <4>2. CASE i <= g
        <5>1. i \in 1 .. g  BY <1>1, <4>2
        <5>2. fP[j][i] = IF Occurs(u, p[1], j) /\ i \in j .. j + n - 1
                                  THEN p[2][i - j + 1] ELSE u[i]
          BY <3>5, <5>1
        <5>. QED  BY <3>2, <3>3, <3>6, <3>7, <4>1, <4>2, <5>2
      <4>3. CASE ~ (i <= g)
        <5>1. i \notin j .. j + n - 1  BY <1>1, <3>1, <4>3
        <5>. QED  BY <3>2, <3>3, <4>1, <4>3, <5>1
      <4>. QED  BY <4>2, <4>3
    <3>. QED  BY <3>8
  <2>3. o \in 0 .. o /\ o \in Nat  BY <1>2
  <2>4. o \in S
    <3>. HIDE DEF S
    <3>. QED  BY <2>1, <2>2, <2>3, Climb
  <2>. QED  BY <2>4
\* No string searched for ends in what is held back.
<1>11. fP[g] = fP[o]
  <2>. DEFINE S == {k \in 0 .. c : fP[o + k] = fP[o]}
  <2>1. 0 \in S  BY <1>2
  <2>2. ASSUME NEW k \in 1 .. c, k - 1 \in S PROVE k \in S
    <3>1. /\ o + k \in 1 .. g /\ o + k \in o + 1 .. g /\ o + (k - 1) = o + k - 1
          /\ o + k - 1 \in 0 .. g
      BY <1>1, <1>2
    <3>2. fP[o + k] = Round(fP[o + k - 1], p, o + k) /\ Len(fP[o + k - 1]) = g
      <4>. DEFINE m == o + k
                  l == o + k - 1
      <4>1. m \in 1 .. g /\ l \in 0 .. g /\ m - 1 = l  BY <1>1, <1>2, <3>1
      <4>. HIDE DEF m, l
      <4>2. fP[m] = Round(fP[m - 1], p, m)  BY <1>8, <4>1
      <4>3. Len(fP[l]) = g  BY <1>8, <4>1
      <4>4. fP[m] = Round(fP[l], p, m) /\ Len(fP[l]) = g  BY <4>1, <4>2, <4>3
      <4>. QED  BY <4>4 DEF m, l
    <3>3. ~ Occurs(fP[o + k - 1], p[1], o + k)
      <4>1. ~ (o + k + n - 1 <= g)  BY <1>2, <3>1
      <4>. QED  BY <3>2, <4>1 DEF Occurs, n
    <3>4. fP[o + k] = fP[o + k - 1]  BY <3>2, <3>3 DEF Round
    <3>5. fP[o + (k - 1)] = fP[o]  BY <2>2
    <3>. QED  BY <3>1, <3>4, <3>5
  <2>3. c \in 0 .. c /\ c \in Nat  BY <1>2
  <2>4. c \in S
    <3>. HIDE DEF S
    <3>. QED  BY <2>1, <2>2, <2>3, Climb
  <2>. QED  BY <1>2, <2>4
\* From there on, the loop is the loop on what was held back and the rest.
<1>12. \A i \in 1 .. L : fX[L][i] = IF i <= o THEN fP[g][i] ELSE fZ[L - o][i - o]
  <2>. DEFINE S == {k \in 0 .. L - o : \A i \in 1 .. L :
                       fX[o + k][i] = IF i <= o THEN fP[g][i] ELSE fZ[k][i - o]}
  <2>1. 0 \in S
    <3>1. ASSUME NEW i \in 1 .. L PROVE fX[o][i] = IF i <= o THEN fP[g][i] ELSE fZ[0][i - o]
      <4>1. CASE i <= o  BY <1>1, <1>2, <1>10, <1>11, <4>1
      <4>2. CASE ~ (i <= o)
        <5>1. i - o \in 1 .. L - o /\ o + (i - o) = i  BY <1>1, <1>2, <4>2
        <5>2. Z[i - o] = IF i <= g THEN fP[g][i] ELSE X[i]  BY <1>3, <1>5, <5>1
        <5>. QED  BY <1>9, <1>10, <1>11, <4>2, <5>1, <5>2
      <4>. QED  BY <4>1, <4>2
    <3>2. 0 \in 0 .. L - o /\ o + 0 = o  BY <1>0, <1>2
    <3>. QED  BY <3>1, <3>2
  <2>2. ASSUME NEW k \in 1 .. L - o, k - 1 \in S PROVE k \in S
    <3>. DEFINE t == fX[o + k - 1]
                u == fZ[k - 1]
    <3>1. /\ k \in Nat \ {0} /\ o + k \in Nat \ {0} /\ o + k \in 1 .. L /\ k - 1 \in 0 .. L - o
          /\ o + k - 1 \in 0 .. L /\ o + (k - 1) = o + k - 1 /\ o \in Nat /\ k \in 0 .. L - o
      BY <1>0, <1>1, <1>2
    <3>2. /\ t \in Seq(Characters) /\ Len(t) = L /\ u \in Seq(Characters) /\ Len(u) = L - o
          /\ Replaces(fX[o + k], t, p, o + k) /\ Replaces(fZ[k], u, p, k)
      <4>. DEFINE m == o + k
                  l == o + k - 1
      <4>1. m \in 1 .. L /\ l \in 0 .. L /\ m - 1 = l  BY <1>1, <1>2, <3>1
      <4>. HIDE DEF m, l
      <4>2. /\ fX[l] \in Seq(Characters) /\ Len(fX[l]) = L
            /\ Replaces(fX[m], fX[m - 1], p, m)
        BY <1>7, <4>1
      <4>3. Replaces(fX[m], fX[l], p, m)  BY <4>1, <4>2
      <4>4. fZ[k - 1] \in Seq(Characters) /\ Len(fZ[k - 1]) = L - o /\ Replaces(fZ[k], u, p, k)
        BY <1>9, <3>1
      <4>. QED  BY <4>2, <4>3, <4>4 DEF m, l
    <3>3. \A i \in 1 .. L : t[i] = IF i <= o THEN fP[g][i] ELSE u[i - o]
      <4>1. \A i \in 1 .. L : fX[o + (k - 1)][i] = IF i <= o THEN fP[g][i] ELSE fZ[k - 1][i - o]
        BY <2>2
      <4>. QED  BY <3>1, <4>1
    <3>. HIDE DEF t, u
    <3>4. \A i \in 1 .. L :
             fX[o + k][i] = IF Occurs(t, p[1], o + k) /\ i \in o + k .. o + k + n - 1
                                     THEN p[2][i - (o + k) + 1] ELSE t[i]
      BY <3>2 DEF Replaces, n
    <3>5. \A i \in 1 .. L - o :
             fZ[k][i] = IF Occurs(u, p[1], k) /\ i \in k .. k + n - 1
                                 THEN p[2][i - k + 1] ELSE u[i]
      BY <3>2 DEF Replaces, n
    <3>6. Occurs(u, p[1], k) <=> Occurs(t, p[1], o + k)
      <4>1. k + n - 1 <= Len(u) <=> o + k + n - 1 <= Len(t)  BY <1>1, <3>1, <3>2
      <4>2. ASSUME NEW i \in k .. k + n - 1, i <= Len(u) PROVE u[i] = t[o + i]
        <5>1. o + i \in 1 .. L /\ ~ (o + i <= o) /\ o + i - o = i
          BY <1>1, <3>1, <3>2, <4>2, SMTT(40)
        <5>. DEFINE m == o + i
        <5>2. m \in 1 .. L /\ ~ (m <= o) /\ m - o = i  BY <1>1, <1>2, <5>1
        <5>. HIDE DEF m
        <5>3. t[m] = u[m - o]  BY <3>3, <5>2
        <5>4. t[m] = u[i]  BY <5>2, <5>3
        <5>. QED  BY <5>4 DEF m
      <4>. QED  BY <1>1, <3>1, <3>2, <4>1, <4>2, OccursInBoth DEF n
    <3>7. ASSUME NEW i \in 1 .. L
          PROVE  fX[o + k][i] = IF i <= o THEN fP[g][i] ELSE fZ[k][i - o]
      <4>1. fX[o + k][i] = IF Occurs(t, p[1], o + k) /\ i \in o + k .. o + k + n - 1
                                    THEN p[2][i - (o + k) + 1] ELSE t[i]
        BY <3>4
      <4>2. CASE i <= o
        <5>1. i \notin o + k .. o + k + n - 1  BY <1>1, <3>1, <4>2
        <5>. QED  BY <3>2, <3>3, <4>1, <4>2, <5>1
      <4>3. CASE ~ (i <= o)
        <5>1. /\ i - o \in 1 .. L - o /\ i - (o + k) + 1 = i - o - k + 1
              /\ i \in o + k .. o + k + n - 1 <=> i - o \in k .. k + n - 1
          BY <1>1, <3>1, <4>3
        <5>2. fZ[k][i - o] = IF Occurs(u, p[1], k) /\ i - o \in k .. k + n - 1
                                      THEN p[2][i - o - k + 1] ELSE u[i - o]
          <6>. DEFINE m == i - o
          <6>1. m \in 1 .. L - o  BY <5>1
          <6>. HIDE DEF m
          <6>3. fZ[k][m] = IF Occurs(u, p[1], k) /\ m \in k .. k + n - 1
                                    THEN p[2][m - k + 1] ELSE u[m]
            BY <3>5, <6>1
          <6>. QED  BY <6>3 DEF m
        <5>. QED  BY <3>2, <3>3, <3>6, <4>1, <4>3, <5>1, <5>2
      <4>. QED  BY <4>2, <4>3
    <3>. QED  BY <3>1, <3>7
  <2>3. L - o \in 0 .. L - o /\ L - o \in Nat /\ o + (L - o) = L  BY <1>0, <1>1, <1>2
  <2>4. L - o \in S
    <3>. HIDE DEF S
    <3>. QED  BY <2>1, <2>2, <2>3, Climb
  <2>. QED  BY <2>3, <2>4
<1>. QED  BY <1>4, <1>5, <1>6, <1>12 DEF o, c, L

\* The only pair; without one, nothing is searched for.
ThePair == IF Len(Rewrites) = 0 THEN << <<>>, <<>> >> ELSE Rewrites[1]

LEMMA ThePairFacts ==
    ASSUME Len(Rewrites) <= 1
    PROVE  /\ ThePair \in Pairs /\ Len(ThePair[1]) = Len(ThePair[2])
           /\ Len(ThePair[1]) \in Nat
           /\ MaxRewriteSize = Len(ThePair[1])
<1>1. /\ Rewrites \in Seq(Pairs)
      /\ \A i \in DOMAIN Rewrites : Len(Rewrites[i][1]) = Len(Rewrites[i][2])
  BY ReferencesAssumption DEF Pairs
<1>2. Len(Rewrites) \in Nat /\ DOMAIN Rewrites = 1 .. Len(Rewrites)  BY <1>1, LenProperties
<1>3. CASE Len(Rewrites) = 0
  <2>1. ThePair = << <<>>, <<>> >>  BY <1>3 DEF ThePair
  <2>2. ThePair \in Pairs /\ Len(ThePair[1]) = 0 /\ Len(ThePair[2]) = 0
    BY <2>1, EmptySeq DEF Pairs
  <2>3. DOMAIN Rewrites = {}  BY <1>2, <1>3
  <2>4. {0} \cup {Len(Rewrites[i][1]) : i \in DOMAIN Rewrites} = {0}  BY <2>3
  <2>5. MaxRewriteSize = 0  BY <2>4 DEF MaxRewriteSize
  <2>. QED  BY <2>2, <2>5
<1>4. CASE Len(Rewrites) # 0
  <2>1. Len(Rewrites) = 1 /\ DOMAIN Rewrites = {1}  BY <1>2, <1>4
  <2>2. ThePair = Rewrites[1]  BY <1>4 DEF ThePair
  <2>3. Rewrites[1] \in Pairs
    <3>1. 1 \in 1 .. Len(Rewrites)  BY <2>1
    <3>. QED  BY <1>1, <3>1, ElementOfSeq
  <2>4. Rewrites[1][1] \in Seq(Characters)  BY <2>3 DEF Pairs
  <2>5. Len(Rewrites[1][1]) = Len(Rewrites[1][2])  BY <1>1, <2>1
  <2>. DEFINE n == Len(Rewrites[1][1])
  <2>6. n \in Nat  BY <2>4, LenProperties
  <2>7. {0} \cup {Len(Rewrites[i][1]) : i \in DOMAIN Rewrites} = {0, n}  BY <2>1
  <2>. HIDE DEF n
  <2>8. MaxRewriteSize = CHOOSE m \in {0, n} : \A k \in {0, n} : k <= m
    BY <2>7 DEF MaxRewriteSize
  <2>9. n \in {0, n} /\ \A k \in {0, n} : k <= n  BY <2>6
  <2>10. MaxRewriteSize \in {0, n} /\ \A k \in {0, n} : k <= MaxRewriteSize  BY <2>8, <2>9
  <2>11. MaxRewriteSize = n  BY <2>6, <2>10
  <2>. QED  BY <2>2, <2>3, <2>5, <2>6, <2>11 DEF n
<1>. QED  BY <1>3, <1>4

\* The loop keeps the length, and does nothing if there is nothing to search for.
LEMMA ReplacedFacts ==
    ASSUME NEW s \in Seq(Characters), NEW p \in Pairs, Len(p[1]) = Len(p[2])
    PROVE  /\ Replaced(s, p) \in Seq(Characters) /\ Len(Replaced(s, p)) = Len(s)
           /\ Len(p[1]) = 0 => Replaced(s, p) = s
<1>. DEFINE L == Len(s)
<1>1. L \in Nat  BY LenProperties
<1>2. PICK f : Rounds(f, s, p) /\ Replaced(s, p) = f[L]  BY RoundsOfReplaced
<1>3. /\ \A j \in 0 .. L : f[j] \in Seq(Characters) /\ Len(f[j]) = L
      /\ f[0] = s
      /\ \A j \in 1 .. L : f[j] = Round(f[j - 1], p, j)
  BY <1>2 DEF Rounds
<1>4. ASSUME Len(p[1]) = 0 PROVE f[L] = s
  <2>. DEFINE S == {j \in 0 .. L : f[j] = s}
  <2>1. 0 \in S  BY <1>1, <1>3
  <2>2. ASSUME NEW j \in 1 .. L, j - 1 \in S PROVE j \in S
    <3>1. f[j] = Round(s, p, j) /\ j \in Nat \ {0}  BY <1>3, <2>2
    <3>2. /\ Round(s, p, j) \in Seq(Characters) /\ Len(Round(s, p, j)) = Len(s)
          /\ Replaces(Round(s, p, j), s, p, j)
      BY <3>1, RoundFacts
    <3>3. \A i \in 1 .. Len(s) : i \notin j .. j + Len(p[1]) - 1  BY <1>4, <3>1
    <3>4. \A i \in 1 .. Len(s) : Round(s, p, j)[i] = s[i]  BY <3>2, <3>3 DEF Replaces
    <3>5. Round(s, p, j) = s  BY <3>2, <3>4, SeqEqual
    <3>. QED  BY <1>1, <3>1, <3>5
  <2>3. L \in 0 .. L  BY <1>1
  <2>4. L \in S
    <3>. HIDE DEF S
    <3>. QED  BY <1>1, <2>1, <2>2, <2>3, Climb
  <2>. QED  BY <2>4
<1>5. L \in 0 .. L  BY <1>1
<1>. QED  BY <1>2, <1>3, <1>4, <1>5

\* With at most one pair, rewriteStrings is the loop for it.
LEMMA RewriteStringsIsReplaced ==
    ASSUME Len(Rewrites) <= 1, NEW s \in Seq(Characters)
    PROVE  RewriteStrings(s) = Replaced(s, ThePair)
<1>. DEFINE K == Len(Rewrites)
            body(f, k) == IF k = 0 THEN s ELSE Replaced(f[k - 1], Rewrites[k])
            eq(f) == f = [k \in 0 .. K |-> body(f, k)]
            w == [k \in 0 .. K |-> IF k = 0 THEN s ELSE Replaced(s, Rewrites[1])]
            after == CHOOSE f : eq(f)
<1>1. K = 0 \/ K = 1
  <2>1. Rewrites \in Seq(Pairs)  BY ReferencesAssumption DEF Pairs
  <2>2. K \in Nat  BY <2>1, LenProperties
  <2>3. K <= 1  OBVIOUS
  <2>. HIDE DEF K
  <2>. QED  BY <2>2, <2>3
<1>2. eq(w)
  <2>1. ASSUME NEW k \in 0 .. K PROVE w[k] = body(w, k)
    <3>1. CASE k = 0  BY <3>1
    <3>2. CASE k # 0
      <4>1. k = 1 /\ K = 1 /\ 0 \in 0 .. K  BY <1>1, <3>2
      <4>2. w[0] = s  BY <4>1
      <4>3. w[k] = Replaced(s, Rewrites[1])  BY <3>2
      <4>4. body(w, k) = Replaced(w[0], Rewrites[1])  BY <4>1
      <4>. QED  BY <4>2, <4>3, <4>4
    <3>. QED  BY <3>1, <3>2
  <2>2. w = [k \in 0 .. K |-> w[k]]  OBVIOUS
  <2>3. [k \in 0 .. K |-> w[k]] = [k \in 0 .. K |-> body(w, k)]
    <3>. HIDE DEF w, body
    <3>. QED  BY <2>1
  <2>. HIDE DEF w, body
  <2>. QED  BY <2>2, <2>3
<1>3. eq(after)
  <2>. HIDE DEF eq, w
  <2>. QED  BY <1>2
<1>4. RewriteStrings(s) = after[K]  BY Zenon DEF RewriteStrings
<1>. HIDE DEF after
<1>5. \A k \in 0 .. K : after[k] = body(after, k)
  <2>. HIDE DEF body
  <2>. QED  BY <1>3
<1>6. 0 \in 0 .. K /\ K \in 0 .. K  BY <1>1
<1>7. after[0] = s  BY <1>5, <1>6
<1>8. CASE K = 0
  <2>1. ThePair = << <<>>, <<>> >>  BY <1>8 DEF ThePair
  <2>2. ThePair \in Pairs /\ Len(ThePair[1]) = 0 /\ Len(ThePair[1]) = Len(ThePair[2])
    BY <2>1, ThePairFacts
  <2>3. Replaced(s, ThePair) = s  BY <2>2, ReplacedFacts
  <2>. QED  BY <1>4, <1>7, <1>8, <2>3
<1>9. CASE K = 1
  <2>1. ThePair = Rewrites[1]  BY <1>9 DEF ThePair
  <2>2. after[1] = Replaced(after[0], Rewrites[1])  BY <1>5, <1>6, <1>9
  <2>. QED  BY <1>4, <1>7, <1>9, <2>1, <2>2
<1>. QED  BY <1>1, <1>8, <1>9

\* What the rewriter has passed on and what it holds back are the rewritten stream so far.
PrevInv ==
    /\ input \in Seq(Characters) /\ given \in 0 .. Len(input)
    /\ out \in Seq(Characters) /\ prev \in Seq(Characters)
    /\ IF finished THEN out = Replaced(input, ThePair)
       ELSE /\ out \o prev = Replaced(First(input, given), ThePair)
            /\ Len(prev) = Kept(ThePair, given)

\* What is held back of a string that begins with what was held back before.
LEMMA HeldFacts ==
    ASSUME Len(Rewrites) <= 1, NEW g \in Nat, NEW n \in Nat,
           NEW s \in Seq(Characters), Len(s) = Kept(ThePair, g) + n
    PROVE  /\ First(s, Len(s) - Len(Held(s))) \in Seq(Characters) /\ Held(s) \in Seq(Characters)
           /\ First(s, Len(s) - Len(Held(s))) \o Held(s) = s
           /\ Len(Held(s)) = Kept(ThePair, g + n)
<1>. DEFINE L == Len(s)
            m == Len(ThePair[1])
            k == Kept(ThePair, g + n)
<1>1. m \in Nat /\ MaxRewriteSize = m /\ L \in Nat  BY ThePairFacts, LenProperties
<1>2. /\ k \in 0 .. L
      /\ L < m => k = L
      /\ ~ (L < m) => k = IF m = 0 THEN 0 ELSE m - 1
  <2>1. L = (IF m = 0 THEN 0 ELSE IF g < m THEN g ELSE m - 1) + n  BY DEF Kept
  <2>2. k = IF m = 0 THEN 0 ELSE IF g + n < m THEN g + n ELSE m - 1  BY DEF Kept
  <2>. HIDE DEF L, k, m
  <2>. QED  BY <1>1, <2>1, <2>2
<1>3. Held(s) = SubSeq(s, L - k + 1, L)
  <2>1. CASE L < m
    <3>1. Held(s) = s /\ L - k + 1 = 1  BY <1>1, <1>2, <2>1 DEF Held
    <3>2. SubSeq(s, 1, L) = s  BY SubSeqFull
    <3>. QED  BY <3>1, <3>2
  <2>2. CASE ~ (L < m) /\ m = 0
    <3>1. Held(s) = <<>> /\ k = 0  BY <1>1, <1>2, <2>2 DEF Held
    <3>2. SubSeq(s, L - 0 + 1, L) = <<>>
      <4>1. L - 0 + 1 \in Int /\ L \in Int /\ L < L - 0 + 1  BY <1>1
      <4>. QED  BY <4>1, SubSeqEmpty
    <3>. QED  BY <3>1, <3>2
  <2>3. CASE ~ (L < m) /\ m # 0
    <3>1. k = m - 1  BY <1>2, <2>3
    <3>2. Held(s) = Final(s, m - 1)  BY <1>1, <2>3 DEF Held
    <3>. QED  BY <3>1, <3>2 DEF Final
  <2>. QED  BY <2>1, <2>2, <2>3
<1>4. 1 \in 1 .. L + 1 /\ L - k \in 1 - 1 .. L /\ L \in L - k .. L
      /\ L - k + 1 \in 1 .. L + 1 /\ L \in L - k + 1 - 1 .. L
      /\ L - (L - k + 1) + 1 = k
  <2>. HIDE DEF L, k, m
  <2>. QED  BY <1>1, <1>2
<1>5. Held(s) \in Seq(Characters) /\ Len(Held(s)) = k
  <2>. DEFINE a == L - k + 1
  <2>1. a \in 1 .. L + 1 /\ L \in a - 1 .. L /\ L - a + 1 = k  BY <1>4
  <2>. HIDE DEF a, k, m
  <2>2. SubSeq(s, a, L) \in Seq(Characters) /\ Len(SubSeq(s, a, L)) = L - a + 1
    BY <2>1, PartOfStream
  <2>. QED  BY <1>3, <2>1, <2>2 DEF a
<1>6. First(s, L - k) \in Seq(Characters)  BY <1>4, PartOfStream DEF First
<1>7. First(s, L - k) \o SubSeq(s, L - k + 1, L) = s
  <2>1. SubSeq(s, 1, L - k) \o SubSeq(s, L - k + 1, L) = SubSeq(s, 1, L)
    <3>. HIDE DEF k, m
    <3>. QED  BY <1>4, ConcatAdjacentSubSeq
  <2>2. SubSeq(s, 1, L) = s  BY SubSeqFull
  <2>. QED  BY <2>1, <2>2 DEF First
<1>. QED  BY <1>3, <1>5, <1>6, <1>7

\* A fragment: the loop on what was held back and the fragment goes on where the loop on
\* the stream so far would.
LEMMA FragmentRewrites ==
    ASSUME Len(Rewrites) <= 1, PrevInv, Fragment
    PROVE  PrevInv'
<1>1. PICK n \in 0 .. Len(input) - given :
         LET data == SubSeq(input, given + 1, given + n)
         IN  given' = given + n /\ Rewrite(data)
  BY DEF Fragment
<1>2. ~ finished /\ input' = input /\ finished' = finished  BY DEF Fragment
<1>. DEFINE data == SubSeq(input, given + 1, given + n)
            P == First(input, given)
            X == First(input, given + n)
            Z == prev \o data
            p == ThePair
            o == given - Kept(p, given)
            s == RewriteStrings(Z)
<1>3. /\ input \in Seq(Characters) /\ given \in 0 .. Len(input) /\ Len(input) \in Nat
      /\ out \in Seq(Characters) /\ prev \in Seq(Characters)
      /\ out \o prev = Replaced(P, p) /\ Len(prev) = Kept(p, given)
  BY <1>2, LenProperties DEF PrevInv
<1>4. /\ p \in Pairs /\ Len(p[1]) = Len(p[2]) /\ Len(p[1]) \in Nat  BY ThePairFacts
<1>5. Kept(p, given) \in 0 .. given /\ o \in 0 .. given
  <2>1. given \in Nat  BY <1>3
  <2>. QED  BY <1>4, <2>1, KeptFacts
<1>6. /\ P \in Seq(Characters) /\ Len(P) = given
      /\ X \in Seq(Characters) /\ Len(X) = given + n
      /\ \A i \in 1 .. given : P[i] = input[i]
      /\ \A i \in 1 .. given + n : X[i] = input[i]
  <2>1. ASSUME NEW g \in 0 .. Len(input)
        PROVE  /\ First(input, g) \in Seq(Characters) /\ Len(First(input, g)) = g
               /\ \A i \in 1 .. g : First(input, g)[i] = input[i]
    <3>1. 1 \in 1 .. Len(input) + 1 /\ g \in 1 - 1 .. Len(input) /\ g - 1 + 1 = g
          /\ \A i \in 1 .. g : 1 + i - 1 = i
      BY <1>3
    <3>2. /\ SubSeq(input, 1, g) \in Seq(Characters) /\ Len(SubSeq(input, 1, g)) = g - 1 + 1
          /\ \A i \in 1 .. g - 1 + 1 : SubSeq(input, 1, g)[i] = input[1 + i - 1]
      BY <1>3, <3>1, PartOfStream
    <3>. QED  BY <3>1, <3>2 DEF First
  <2>2. given + n \in 0 .. Len(input)  BY <1>3
  <2>. QED  BY <1>3, <2>1, <2>2
<1>7. /\ data \in Seq(Characters) /\ Len(data) = n
      /\ \A i \in 1 .. n : data[i] = input[given + i]
  <2>. DEFINE a == given + 1
              b == given + n
  <2>1. a \in 1 .. Len(input) + 1 /\ b \in a - 1 .. Len(input) /\ b - a + 1 = n
        /\ \A i \in 1 .. n : a + i - 1 = given + i
    BY <1>3
  <2>. HIDE DEF a, b
  <2>2. /\ SubSeq(input, a, b) \in Seq(Characters) /\ Len(SubSeq(input, a, b)) = b - a + 1
        /\ \A i \in 1 .. b - a + 1 : SubSeq(input, a, b)[i] = input[a + i - 1]
    BY <1>3, <2>1, PartOfStream
  <2>3. data = SubSeq(input, a, b)  BY DEF a, b
  <2>. HIDE DEF data
  <2>. QED  BY <2>1, <2>2, <2>3
<1>8. /\ Z \in Seq(Characters) /\ Len(Z) = Kept(p, given) + n
      /\ \A i \in 1 .. Kept(p, given) + n :
            Z[i] = IF i <= Kept(p, given) THEN prev[i] ELSE data[i - Kept(p, given)]
  <2>. HIDE DEF data, p
  <2>1. prev \in Seq(Characters) /\ data \in Seq(Characters)  BY <1>3, <1>7
  <2>2. /\ prev \o data \in Seq(Characters) /\ Len(prev \o data) = Len(prev) + Len(data)
        /\ \A i \in 1 .. Len(prev) + Len(data) :
              (prev \o data)[i] = IF i <= Len(prev) THEN prev[i] ELSE data[i - Len(prev)]
    BY <2>1, ConcatProperties
  <2>3. Len(prev) = Kept(p, given) /\ Len(data) = n  BY <1>3, <1>7
  <2>. QED  BY <2>2, <2>3
<1>9. /\ Replaced(P, p) \in Seq(Characters) /\ Len(Replaced(P, p)) = given
      /\ Len(out) = o
      /\ \A i \in 1 .. given : Replaced(P, p)[i] = IF i <= o THEN out[i] ELSE prev[i - o]
  <2>1. Replaced(P, p) \in Seq(Characters) /\ Len(Replaced(P, p)) = given
    <3>. HIDE DEF P, p
    <3>. QED  BY <1>4, <1>6, ReplacedFacts
  <2>2. /\ Len(out \o prev) = Len(out) + Len(prev) /\ Len(out) \in Nat
        /\ \A i \in 1 .. Len(out) + Len(prev) :
              (out \o prev)[i] = IF i <= Len(out) THEN out[i] ELSE prev[i - Len(out)]
    BY <1>3, ConcatProperties, LenProperties
  <2>. HIDE DEF P, p
  <2>3. Len(out) + Kept(p, given) = given  BY <1>3, <2>1, <2>2
  <2>4. Len(out) = o
    <3>. DEFINE k == Kept(p, given)
    <3>1. k \in 0 .. given /\ Len(out) + k = given  BY <1>5, <2>3
    <3>. HIDE DEF k
    <3>2. Len(out) = given - k  BY <1>3, <2>2, <3>1
    <3>. QED  BY <3>2 DEF k
  <2>5. Len(out) + Len(prev) = given  BY <1>3, <2>3
  <2>. HIDE DEF o
  <2>. QED  BY <1>3, <2>1, <2>2, <2>4, <2>5
<1>. HIDE DEF data, P, X, Z, p
<1>10. StartOf(P, X, given)
  <2>1. \A i \in 1 .. given : i \in 1 .. given + n  BY <1>3
  <2>. QED  BY <1>6, <2>1 DEF StartOf
<1>11. HeldAndRest(Z, P, X, given, p)
  <2>1. Len(Z) = Len(X) - o  BY <1>3, <1>5, <1>6, <1>8
  <2>2. ASSUME NEW i \in 1 .. Len(Z)
        PROVE  Z[i] = IF o + i <= given THEN Replaced(P, p)[o + i] ELSE X[o + i]
    <3>. DEFINE k == Kept(p, given)
    <3>1. i \in 1 .. k + n /\ k \in 0 .. given /\ o = given - k  BY <1>5, <1>8
    <3>. HIDE DEF k, o
    <3>2. CASE i <= k
      <4>. DEFINE j == o + i
      <4>1. j \in 1 .. given /\ ~ (j <= o) /\ j - o = i /\ j <= given  BY <1>3, <3>1, <3>2
      <4>. HIDE DEF j
      <4>2. Replaced(P, p)[j] = prev[i]  BY <1>9, <4>1
      <4>3. Z[i] = prev[i]  BY <1>8, <3>1, <3>2 DEF k
      <4>. QED  BY <4>1, <4>2, <4>3 DEF j
    <3>3. CASE ~ (i <= k)
      <4>. DEFINE j == o + i
                  l == i - k
      <4>1. j \in 1 .. given + n /\ ~ (j <= given) /\ l \in 1 .. n /\ given + l = j
        BY <1>3, <3>1, <3>3
      <4>. HIDE DEF j
      <4>2. Z[i] = data[l]  BY <1>8, <3>1, <3>3 DEF k
      <4>. HIDE DEF l
      <4>3. data[l] = input[j] /\ X[j] = input[j]  BY <1>6, <1>7, <4>1
      <4>. QED  BY <4>1, <4>2, <4>3 DEF j
    <3>. QED  BY <3>2, <3>3
  <2>. QED  BY <2>1, <2>2 DEF HeldAndRest
<1>12. s = Replaced(Z, p) /\ s \in Seq(Characters) /\ Len(s) = Kept(p, given) + n
  <2>1. s = Replaced(Z, p)  BY <1>8, RewriteStringsIsReplaced DEF p
  <2>. HIDE DEF s
  <2>. QED  BY <1>4, <1>8, <2>1, ReplacedFacts
<1>13. out \o s = Replaced(X, p)
  <2>1. \A i \in 1 .. Len(X) : Replaced(X, p)[i] = IF i <= o THEN Replaced(P, p)[i]
                                                   ELSE Replaced(Z, p)[i - o]
    <3>1. given \in 0 .. Len(X)
      <4>1. Len(X) = given + n  BY <1>6
      <4>2. given + n \in Nat /\ given <= given + n /\ given \in Nat  BY <1>3
      <4>. QED  BY <4>1, <4>2
    <3>2. P \in Seq(Characters) /\ X \in Seq(Characters) /\ Z \in Seq(Characters)  BY <1>6, <1>8
    <3>3. p \in Pairs /\ Len(p[1]) = Len(p[2])  BY <1>4
    <3>. QED  BY <1>10, <1>11, <3>1, <3>2, <3>3, ReplacedAcross, ZenonT(40)
  <2>2. Replaced(X, p) \in Seq(Characters) /\ Len(Replaced(X, p)) = given + n
    BY <1>4, <1>6, ReplacedFacts
  <2>. DEFINE r == Replaced(X, p)
              k == Kept(p, given)
  <2>. HIDE DEF s
  <2>3. k \in 0 .. given /\ o = given - k /\ o \in 0 .. given /\ Len(s) = k + n  BY <1>5, <1>12
  <2>4. /\ out \o s \in Seq(Characters) /\ Len(out \o s) = Len(out) + Len(s)
        /\ \A i \in 1 .. Len(out) + Len(s) :
              (out \o s)[i] = IF i <= Len(out) THEN out[i] ELSE s[i - Len(out)]
    BY <1>3, <1>12, ConcatProperties
  <2>. HIDE DEF r, k, o
  <2>5. Len(out) + Len(s) = given + n  BY <1>3, <1>9, <2>3
  <2>6. ASSUME NEW i \in 1 .. given + n PROVE (out \o s)[i] = r[i]
    <3>1. (out \o s)[i] = IF i <= o THEN out[i] ELSE s[i - o]  BY <1>9, <2>4, <2>5
    <3>2. r[i] = IF i <= o THEN Replaced(P, p)[i] ELSE s[i - o]  BY <1>6, <1>12, <2>1 DEF r
    <3>3. i <= o => i \in 1 .. given  BY <1>3, <2>3
    <3>4. i <= o => Replaced(P, p)[i] = out[i]  BY <1>9, <3>3
    <3>. QED  BY <3>1, <3>2, <3>4
  <2>7. r \in Seq(Characters) /\ Len(r) = given + n  BY <2>2 DEF r
  <2>8. out \o s = r  BY <2>4, <2>5, <2>6, <2>7, SeqEqual
  <2>. QED  BY <2>8 DEF r
<1>. DEFINE f == First(s, Len(s) - Len(Held(s)))
<1>14. prev' = Held(s) /\ out' = out \o f  BY <1>1, Zenon DEF Rewrite, Z, data
<1>. HIDE DEF s
<1>15. /\ f \in Seq(Characters) /\ Held(s) \in Seq(Characters)
       /\ f \o Held(s) = s /\ Len(Held(s)) = Kept(p, given + n)
  <2>1. given \in Nat /\ n \in Nat  BY <1>3
  <2>. HIDE DEF f
  <2>2. /\ First(s, Len(s) - Len(Held(s))) \in Seq(Characters) /\ Held(s) \in Seq(Characters)
        /\ First(s, Len(s) - Len(Held(s))) \o Held(s) = s
        /\ Len(Held(s)) = Kept(ThePair, given + n)
    BY <1>12, <2>1, HeldFacts DEF p
  <2>. QED  BY <2>2, Zenon DEF f, p
<1>. HIDE DEF f
<1>16. out' \in Seq(Characters) /\ out' \o prev' = Replaced(X, p)
  <2>1. out \o f \in Seq(Characters)  BY <1>3, <1>15, ConcatProperties
  <2>2. (out \o f) \o Held(s) = out \o (f \o Held(s))
    <3>1. out \in Seq(Characters) /\ f \in Seq(Characters) /\ Held(s) \in Seq(Characters)
      BY <1>3, <1>15
    <3>2. \A x, y, z \in Seq(Characters) : (x \o y) \o z = x \o (y \o z)
      BY ConcatAssociative, SMTT(30)
    <3>. QED  BY <3>1, <3>2
  <2>. QED  BY <1>13, <1>14, <1>15, <2>1, <2>2
<1>17. given' = given + n /\ given' \in 0 .. Len(input)  BY <1>1, <1>3
<1>18. X = First(input', given')  BY <1>2, <1>17 DEF X
<1>19. Len(prev') = Kept(p, given')  BY <1>14, <1>15, <1>17
<1>20. prev' \in Seq(Characters)  BY <1>14, <1>15
<1>. QED  BY <1>2, <1>3, <1>16, <1>17, <1>18, <1>19, <1>20 DEF PrevInv, p

\* RewritingSink with one pair, as its other constructor makes it, and thereby
\* HashModuloSink: for every string, every replacement of its length, every stream and
\* every way to cut it, the output is that of rewriteStrings on the whole.
THEOREM OneRewriteIsExact ==
    ASSUME Len(Rewrites) <= 1
    PROVE  ReferencesSpec => []RewriteExact
<1>1. ReferencesInit => PrevInv
  <2>. SUFFICES ASSUME ReferencesInit PROVE PrevInv
    OBVIOUS
  <2>1. input \in Seq(Characters) /\ given = 0 /\ Len(input) \in Nat
    <3>1. PICK n \in 0 .. MaxLength : input \in [1 .. n -> Characters]  BY DEF ReferencesInit
    <3>. QED  BY <3>1, IsASeq, LenProperties DEF ReferencesInit
  <2>2. First(input, 0) = <<>>  BY SubSeqEmpty DEF First
  <2>3. <<>> \in Seq(Characters) /\ Len(<<>>) = 0 /\ <<>> \o <<>> = <<>>
    BY EmptySeq, ConcatEmptySeq
  <2>4. Replaced(<<>>, ThePair) = <<>>
    <3>1. Replaced(<<>>, ThePair) \in Seq(Characters) /\ Len(Replaced(<<>>, ThePair)) = Len(<<>>)
      BY <2>3, ThePairFacts, ReplacedFacts
    <3>. QED  BY <2>3, <3>1, EmptySeq
  <2>5. Kept(ThePair, 0) = 0
    <3>1. Len(ThePair[1]) \in Nat  BY ThePairFacts
    <3>. QED  BY <3>1 DEF Kept
  <2>6. prev = <<>> /\ out = <<>> /\ finished = FALSE  BY DEF ReferencesInit
  <2>7. given \in 0 .. Len(input)  BY <2>1
  <2>. QED  BY <2>1, <2>2, <2>3, <2>4, <2>5, <2>6, <2>7 DEF PrevInv
<1>2. PrevInv /\ [ReferencesNext]_referenceVars => PrevInv'
  <2>. SUFFICES ASSUME PrevInv, [ReferencesNext]_referenceVars PROVE PrevInv'
    OBVIOUS
  <2>1. CASE Fragment  BY <2>1, FragmentRewrites
  <2>2. CASE FlushSink
    <3>1. /\ given = Len(input) /\ ~ finished /\ out' = out \o prev /\ prev' = <<>>
          /\ finished' = TRUE /\ input' = input /\ given' = given
      BY <2>2 DEF FlushSink
    <3>2. First(input, given) = input  BY <3>1, SubSeqFull DEF PrevInv, First
    <3>3. out \o prev \in Seq(Characters)  BY ConcatProperties DEF PrevInv
    <3>4. <<>> \in Seq(Characters)  BY EmptySeq
    <3>. QED  BY <3>1, <3>2, <3>3, <3>4 DEF PrevInv
  <2>3. CASE UNCHANGED referenceVars  BY <2>3 DEF referenceVars, PrevInv
  <2>. QED  BY <2>1, <2>2, <2>3 DEF ReferencesNext
<1>3. PrevInv => RewriteExact
  BY RewriteStringsIsReplaced DEF PrevInv, RewriteExact
<1>. QED  BY <1>1, <1>2, <1>3, PTL DEF ReferencesSpec
=============================================================================
