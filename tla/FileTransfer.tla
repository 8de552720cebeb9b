---------------------------- MODULE FileTransfer ----------------------------
(***************************************************************************)
(* libstore/filetransfer.cc: downloads into a sink.  One thread per        *)
(* download runs FileTransfer::download; the worker thread drives libcurl, *)
(* retries failed transfers and pauses those whose buffer is full; the     *)
(* signal thread stops the worker when the user interrupts the program.    *)
(* libcurl and the servers are external.  The body of a resource is the    *)
(* sequence 1 .. Size of chunks; chunk 0 is what a byte range of an        *)
(* encoded body decodes to.                                                *)
(***************************************************************************)
EXTENDS Naturals, Sequences, FiniteSets

CONSTANTS
    Downloads,
    Size,               \* chunks of a resource
    BufferSize,         \* fileTransferSettings.downloadBufferSize, in chunks
    Tries,              \* FileTransferRequest::tries
    MaxQueueSize

ASSUME TransferAssumption == Size > 0 /\ Tries > 0 /\ MaxQueueSize > 0

VARIABLES
    res,        \* res[d]: does the server support ranges, does it encode
    it,         \* it[d]: the TransferItem and its curl handle
    dl,         \* dl[d]: State of download() and where the calling thread is
    incoming, unpause, quitting,        \* struct State of curlFileTransfer
    stateLock,  \* who has it locked: "worker", "signal" or "none"
    items, toUnpause, wquit,            \* locals of workerThreadMain
    wpc, spc,   \* where the worker and the signal thread are
    dying,      \* dying[t]: the items whose destructor runs in thread t
    interrupted

transferVars == <<res, it, dl, incoming, unpause, quitting, stateLock, items,
                  toUnpause, wquit, wpc, spc, dying, interrupted>>
queues == <<incoming, unpause, quitting, stateLock>>
worker == <<items, toUnpause, wquit, wpc>>
others == <<res, spc, dying, interrupted>>

TransferInit ==
    /\ res \in [Downloads -> [ranges : BOOLEAN, encoded : BOOLEAN]]
    /\ it = [d \in Downloads |->
              [calls |-> 0, attempt |-> 0, written |-> 0, paused |-> FALSE,
               curlPaused |-> FALSE, embargo |-> FALSE, resp |-> "none",
               ranges |-> FALSE, encoded |-> FALSE, pos |-> 0]]
    /\ dl = [d \in Downloads |->
              [pc |-> "none", quit |-> FALSE, exc |-> FALSE, paused |-> FALSE,
               data |-> <<>>, sink |-> <<>>]]
    /\ incoming = {} /\ unpause = {} /\ quitting = FALSE /\ stateLock = "none"
    /\ items = {} /\ toUnpause = {} /\ wquit = FALSE /\ wpc = "top" /\ spc = "none"
    /\ dying = [t \in {"worker", "signal"} |-> {}]
    /\ interrupted = FALSE

\* _state of download d can be locked; only unpauseTransfer() waits with it.
Unlocked(d) == dl[d].pc # "unpausing"

\* A wait on avail, if there is one, ends.
Notified(pc) == IF pc = "waiting" THEN "woken" ELSE pc

\* Who still refers to an item, apart from the reference a caller may hold.
Referenced(d) == d \in incoming \cup items \cup unpause \cup toUnpause

\* The callback of download d is called with a result or an exception.
Called(d, failed) ==
    /\ it' = [it EXCEPT ![d].calls = @ + 1]
    /\ dl' = [dl EXCEPT ![d].quit = TRUE, ![d].exc = failed, ![d].pc = Notified(@)]

-----------------------------------------------------------------------------
(* download(), the calling thread                                            *)

\* Thread d goes on at label; Finally sets quit when an exception leaves.
MoveTo(d, label) == [dl EXCEPT ![d].pc = label, ![d].quit = @ \/ label = "threw"]

\* enqueueFileTransfer, or its exception when the worker is shutting down.
StartDownload(d) ==
    /\ dl[d].pc = "none" /\ stateLock = "none"
    /\ incoming' = IF quitting THEN incoming ELSE incoming \cup {d}
    /\ dl' = MoveTo(d, IF quitting THEN "threw" ELSE "loop")
    /\ UNCHANGED <<it, unpause, quitting, stateLock, worker, others>>

CheckInterrupt(d) ==
    /\ dl[d].pc = "loop"
    /\ dl' = MoveTo(d, IF interrupted THEN "threw" ELSE "look")
    /\ UNCHANGED <<it, queues, worker, others>>

\* The buffer is moved to the sink, which consumes it without the lock.
TakeData(d) ==
    /\ dl[d].pc \in {"look", "woken"} /\ dl[d].data # <<>>
    /\ dl' = [dl EXCEPT ![d].pc = "sink", ![d].data = <<>>,
                        ![d].sink = @ \o dl[d].data]
    /\ UNCHANGED <<it, queues, worker, others>>

SinkReturns(d) ==
    /\ dl[d].pc = "sink"
    /\ \E label \in {"loop", "threw"} : dl' = MoveTo(d, label)
    /\ UNCHANGED <<it, queues, worker, others>>

\* The buffer is empty: return, rethrow, or wait for more.  shared_from_this()
\* throws when the item is being destroyed.
Look(d) ==
    LET s == dl[d]
    IN  /\ s.pc = "look" /\ s.data = <<>>
        /\ dl' = MoveTo(d, IF s.quit THEN IF s.exc THEN "threw" ELSE "returned"
                         ELSE IF ~s.paused THEN "waiting"
                         ELSE IF Referenced(d) THEN "unpausing" ELSE "threw")
        /\ UNCHANGED <<it, queues, worker, others>>

\* Mutant of UnpauseTransfer: the transfer does not get on the list.
UnpauseForgotten(d) ==
    /\ dl[d].pc = "unpausing" /\ stateLock = "none"
    /\ dl' = [dl EXCEPT ![d].paused = FALSE, ![d].pc = "waiting"]
    /\ UNCHANGED <<it, queues, worker, others>>

\* unpauseTransfer(handle), called with _state locked, and the wait after it.
UnpauseTransfer(d) ==
    /\ dl[d].pc = "unpausing" /\ stateLock = "none"
    /\ unpause' = unpause \cup {d}
    /\ dl' = [dl EXCEPT ![d].paused = FALSE, ![d].pc = "waiting"]
    /\ UNCHANGED <<it, incoming, quitting, stateLock, worker, others>>

WokenForNothing(d) ==
    /\ dl[d].pc = "woken" /\ dl[d].data = <<>>
    /\ dl' = MoveTo(d, "loop")
    /\ UNCHANGED <<it, queues, worker, others>>

DownloadStep(d) ==
    \/ CheckInterrupt(d) \/ TakeData(d) \/ SinkReturns(d) \/ Look(d)
    \/ UnpauseTransfer(d) \/ WokenForNothing(d)

-----------------------------------------------------------------------------
(* curl_multi_perform and the callbacks of the item                          *)

\* Response headers: of the resource, or of an error.  A resumed transfer fails
\* in libcurl if the server ignores the range.
Headers(d) ==
    /\ wpc = "perform" /\ d \in items /\ it[d].resp = "none"
    /\ \/ /\ it[d].written = 0 \/ res[d].ranges
          /\ it' = [it EXCEPT ![d].resp = IF it[d].written = 0 THEN "ok" ELSE "resumed",
                    ![d].pos = it[d].written,
                    ![d].ranges = res[d].ranges, ![d].encoded = res[d].encoded]
       \/ \E ranges \in BOOLEAN :
            it' = [it EXCEPT ![d].resp = "error", ![d].ranges = ranges,
                             ![d].encoded = FALSE]
    /\ UNCHANGED <<dl, queues, worker, others>>

\* dataCallback wants the transfer to be paused.
Full(d) == ~dl[d].quit /\ Len(dl[d].data) + 1 > BufferSize

\* writeCallback, finalSink and dataCallback for the next chunk of the response;
\* paused is what the item's flag is afterwards.
WriteCallback(d, paused) ==
    /\ it[d].resp \in {"ok", "resumed"} /\ it[d].pos < Size /\ Unlocked(d)
    /\ it' = [it EXCEPT ![d].pos = @ + 1, ![d].written = @ + 1, ![d].paused = paused,
                        ![d].curlPaused = it[d].paused \/ Full(d)]
    /\ dl' = IF dl[d].quit THEN dl
             ELSE [dl EXCEPT ![d].data = Append(@, IF it[d].encoded /\ it[d].resp = "resumed"
                                                   THEN 0 ELSE it[d].pos + 1),
                             ![d].pc = Notified(@), ![d].paused = @ \/ Full(d)]

Receive(d) ==
    /\ wpc = "perform" /\ d \in items /\ ~it[d].curlPaused
    /\ WriteCallback(d, it[d].paused \/ Full(d))
    /\ UNCHANGED <<queues, worker, others>>

\* finish(): the transfer succeeded.
Succeed(d) ==
    /\ wpc = "perform" /\ d \in items /\ Unlocked(d)
    /\ it[d].resp \in {"ok", "resumed"} /\ it[d].pos = Size
    /\ Called(d, FALSE)
    /\ items' = items \ {d}
    /\ UNCHANGED <<queues, toUnpause, wquit, wpc, others>>

\* finish(): an error that is not transient, an interrupt seen by
\* progressCallback, an exception in a callback, or one too many attempts.
Fail(d) ==
    /\ wpc = "perform" /\ d \in items /\ Unlocked(d)
    /\ Called(d, TRUE)
    /\ items' = items \ {d}
    /\ UNCHANGED <<queues, toUnpause, wquit, wpc, others>>

\* Mutant of MayRetry: the encoding is not looked at.
RetryEncoded(d) ==
    it[d].attempt + 1 < Tries /\ (it[d].written = 0 \/ it[d].ranges)

\* finish(): whether a transient error is retried.
MayRetry(d) ==
    /\ it[d].attempt + 1 < Tries
    /\ it[d].written = 0 \/ (it[d].ranges /\ ~it[d].encoded)

\* finish(): a retry, unless enqueueItem refuses it.
Retry(d) ==
    /\ wpc = "perform" /\ d \in items /\ MayRetry(d) /\ stateLock = "none" /\ ~quitting
    /\ it' = [it EXCEPT ![d].attempt = @ + 1, ![d].embargo = TRUE]
    /\ incoming' = incoming \cup {d}
    /\ items' = items \ {d}
    /\ UNCHANGED <<dl, unpause, quitting, stateLock, toUnpause, wquit, wpc, others>>

EmbargoEnds(d) ==
    /\ it[d].embargo
    /\ it' = [it EXCEPT ![d].embargo = FALSE]
    /\ UNCHANGED <<dl, queues, worker, others>>

-----------------------------------------------------------------------------
(* workerThreadMain and workerThreadEntry                                    *)

\* checkInterrupt() at the head of the loop.
WorkerTop ==
    /\ wpc = "top"
    /\ wpc' = IF interrupted THEN "unwind" ELSE "perform"
    /\ UNCHANGED <<it, dl, queues, items, toUnpause, wquit, others>>

\* The poll is over: take what may start from the queue, init() it, and read quit.
Intake ==
    /\ wpc = "perform" /\ stateLock = "none"
    /\ LET free == MaxQueueSize - Cardinality(items)
           may == {d \in incoming : ~it[d].embargo}
       IN  \E S \in SUBSET may :
             /\ Cardinality(S) = IF Cardinality(may) < free THEN Cardinality(may) ELSE free
             /\ incoming' = incoming \ S
             /\ items' = items \cup S
             /\ it' = [d \in Downloads |-> IF d \in S
                         THEN [it[d] EXCEPT !.resp = "none", !.curlPaused = FALSE]
                         ELSE it[d]]
    /\ wquit' = quitting
    /\ wpc' = "copy"
    /\ UNCHANGED <<dl, unpause, quitting, stateLock, toUnpause, others>>

CopyUnpause ==
    /\ wpc = "copy" /\ stateLock = "none"
    /\ toUnpause' = unpause /\ unpause' = {}
    /\ wpc' = "unpause"
    /\ UNCHANGED <<it, dl, incoming, quitting, stateLock, items, wquit, others>>

\* Mutant of Dropped: the destructor does not look at done.
DroppedAgain(d, t) ==
    dying' = [dying EXCEPT ![t] =
        IF Referenced(d)' \/ ~Unlocked(d) THEN @ ELSE @ \cup {d}]

\* d loses a reference in thread t; the destructor calls fail() if nobody did.
\* The primed sets are what the step leaves.
Dropped(d, t) ==
    dying' = [dying EXCEPT ![t] =
        IF Referenced(d)' \/ ~Unlocked(d) \/ it[d].calls > 0 THEN @ ELSE @ \cup {d}]

\* unpause() of an item; libcurl may flush data it has buffered from within
\* curl_easy_pause, before the flag is reset.
Unpause(d) ==
    /\ wpc = "unpause" /\ d \in toUnpause /\ dying["worker"] = {}
    /\ \/ /\ it' = [it EXCEPT ![d].paused = FALSE,
                              ![d].curlPaused = @ /\ ~it[d].paused]
          /\ UNCHANGED dl
       \/ it[d].paused /\ it[d].curlPaused /\ d \in items /\ WriteCallback(d, FALSE)
    /\ toUnpause' = toUnpause \ {d}
    /\ UNCHANGED <<queues, items, wquit, wpc>>
    /\ Dropped(d, "worker")
    /\ UNCHANGED <<res, spc, interrupted>>

IterationEnds ==
    /\ wpc = "unpause" /\ toUnpause = {} /\ dying["worker"] = {}
    /\ wpc' = IF wquit THEN "exit" ELSE "top"
    /\ UNCHANGED <<it, dl, queues, items, toUnpause, wquit, others>>

\* The map items is destroyed when workerThreadMain ends.
DropItem(d) ==
    /\ wpc \in {"exit", "unwind"} /\ d \in items /\ dying["worker"] = {}
    /\ items' = items \ {d}
    /\ UNCHANGED <<queues, it, dl, toUnpause, wquit, wpc>>
    /\ Dropped(d, "worker")
    /\ UNCHANGED <<res, spc, interrupted>>

MainEnds ==
    /\ wpc \in {"exit", "unwind"} /\ items = {} /\ dying["worker"] = {}
    /\ wpc' = IF wpc = "unwind" THEN "quit" ELSE "ended"
    /\ UNCHANGED <<it, dl, queues, items, toUnpause, wquit, others>>

\* The callback of an item that was destroyed too early.
Destructor(t, d) ==
    /\ d \in dying[t] /\ Unlocked(d)
    /\ Called(d, TRUE)
    /\ dying' = [dying EXCEPT ![t] = @ \ {d}]
    /\ UNCHANGED <<queues, worker, res, spc, interrupted>>

-----------------------------------------------------------------------------
(* quit(), in the worker that was interrupted and in the signal thread       *)

Stopping(t) == IF t = "worker" THEN wpc = "quit" ELSE spc = "quit"

QuitBegin(t) ==
    /\ Stopping(t) /\ stateLock = "none"
    /\ stateLock' = t
    /\ quitting' = TRUE
    /\ UNCHANGED <<it, dl, incoming, unpause, worker, others>>

QuitPop(t, d) ==
    /\ stateLock = t /\ dying[t] = {}
    /\ \/ d \in incoming /\ incoming' = incoming \ {d} /\ UNCHANGED unpause
       \/ incoming = {} /\ d \in unpause /\ unpause' = unpause \ {d} /\ UNCHANGED incoming
    /\ UNCHANGED <<quitting, stateLock, it, dl, worker>>
    /\ Dropped(d, t)
    /\ UNCHANGED <<res, spc, interrupted>>

QuitEnd(t) ==
    /\ stateLock = t /\ incoming = {} /\ unpause = {} /\ dying[t] = {}
    /\ stateLock' = "none"
    /\ IF t = "worker" THEN wpc' = "ended" /\ UNCHANGED spc
                       ELSE spc' = "done" /\ UNCHANGED wpc
    /\ UNCHANGED <<it, dl, incoming, unpause, quitting, items, toUnpause, wquit, res,
                   dying, interrupted>>

Quit(t) == QuitBegin(t) \/ QuitEnd(t) \/ \E d \in Downloads : QuitPop(t, d)

\* SIGINT: the flag, and the worker's interrupt callback while it is registered.
Interrupt ==
    /\ ~interrupted
    /\ interrupted' = TRUE
    /\ spc' = IF wpc \in {"quit", "ended"} THEN "done" ELSE "quit"
    /\ UNCHANGED <<it, dl, queues, worker, res, dying>>

-----------------------------------------------------------------------------
WorkerStep ==
    \/ WorkerTop \/ Intake \/ CopyUnpause \/ IterationEnds \/ MainEnds
    \/ \E d \in Downloads : Unpause(d) \/ DropItem(d)

\* What libcurl does with a transfer that it has not been told to pause: it
\* ends, or fails when it stalls.
CurlStep(d) ==
    ~it[d].curlPaused /\ (Headers(d) \/ Receive(d) \/ Succeed(d) \/ Fail(d) \/ Retry(d))

TransferNext ==
    \/ Interrupt \/ WorkerStep
    \/ \E t \in {"worker", "signal"} : Quit(t) \/ \E d \in Downloads : Destructor(t, d)
    \/ \E d \in Downloads :
        \/ StartDownload(d) \/ DownloadStep(d) \/ EmbargoEnds(d)
        \/ Headers(d) \/ Receive(d) \/ Succeed(d) \/ Fail(d) \/ Retry(d)

\* The threads run and the embargo of a retry passes; a transfer that is not
\* paused goes on, however often the worker looks after other things (curl
\* aborts it after stalledDownloadTimeout).  Nobody has to start a download or
\* to interrupt the program.
TransferFairness ==
    /\ WF_transferVars(WorkerStep)
    /\ \A t \in {"worker", "signal"} : WF_transferVars(Quit(t))
    /\ \A d \in Downloads :
        /\ WF_transferVars(DownloadStep(d)) /\ WF_transferVars(EmbargoEnds(d))
        /\ SF_transferVars(CurlStep(d))
        /\ \A t \in {"worker", "signal"} : WF_transferVars(Destructor(t, d))

TransferSpec == TransferInit /\ [][TransferNext]_transferVars /\ TransferFairness

-----------------------------------------------------------------------------
\* "either the success or failure function has been called": once, whether the
\* transfer ends, is refused by the queue, or is destroyed by a shutdown while it
\* is queued, active or about to be unpaused.
CallbackOnce ==
    \A d \in Downloads : it[d].calls <= 1 /\ (dl[d].pc = "returned" => it[d].calls = 1)

\* What a sink has been given and what waits in the buffer is a prefix of the
\* resource, over retries that resume a transfer in the middle; and download()
\* returns only when the sink has got all of it: neither a failure nor an interrupt
\* nor data left in the buffer is taken for the end.
SinkExact ==
    \A d \in Downloads : LET got == dl[d].sink \o dl[d].data
                         IN  /\ got = [i \in 1 .. Len(got) |-> i]
                             /\ dl[d].pc = "returned" => Len(dl[d].sink) = Size

\* The transfers that stay where they are: libcurl has paused them and nobody
\* knows; the worker ended before it saw that they are to be unpaused; the caller
\* left while they were paused (the FIXME of download()).
Stranded ==
    {d \in items : it[d].curlPaused /\ (~it[d].paused \/ dl[d].pc = "threw")}
        \cup {d \in unpause : wpc = "ended"}

\* Every download returns or throws, interrupted or not, unless its transfer or
\* one that keeps it from being started is stranded.
DownloadReturns ==
    \A d \in Downloads :
        dl[d].pc = "loop" ~> dl[d].pc \in {"returned", "threw"} \/ Stranded # {}
=============================================================================
