---------------------------- MODULE DaemonProtocol ----------------------------
(***************************************************************************)
(* One connection between a RemoteStore and the daemon: an operation is a  *)
(* request, possibly a stream of frames (withFramedSink, FramedSource),    *)
(* log messages in between and a reply (remote-store.cc, daemon.cc,        *)
(* worker-protocol-connection.cc, serialise.hh).  The sockets are          *)
(* external: two channels of bounded size.                                 *)
(***************************************************************************)
EXTENDS Naturals, Sequences

CONSTANTS
    Kinds,          \* operations: "plain" with a reply, "silent" without (RegisterDrvOutput,
                    \* SetOptions); "nar" with one that may break off (NarFromPath); with
                    \* frames, "framed" without a reply (AddMultipleToStore, AddToStoreNar)
                    \* and "checked" with one (AddToStore, AddBuildLog), which the daemon
                    \* may reject before it looks at the frames
    MaxOps,         \* bound on the operations of the client
    MaxFrames,      \* bound on the frames of an operation
    MaxLogs,        \* bound on the log messages of the daemon
    UpSize, DownSize    \* what the socket buffers hold

ASSUME DaemonProtocolAssumption ==
    /\ Kinds \subseteq {"plain", "silent", "nar", "framed", "checked"}
    /\ UpSize > 0 /\ DownSize > 0

VARIABLES
    up, down,   \* the messages under way to the daemon and to the client
    client,     \* pc; kind, frames left and number of its operations
    daemon      \* pc; kind, eof of FramedSource, state_ of TunnelLogger, logs so far,
                \* and whether it has rejected an upload

daemonVars == <<up, down, client, daemon>>

DaemonInit ==
    /\ up = <<>> /\ down = <<>>
    /\ client = [pc |-> "idle", kind |-> "plain", left |-> 0, ops |-> 0, exc |-> "none"]
    /\ daemon = [pc |-> "top", kind |-> "plain", eof |-> TRUE, threw |-> FALSE,
                 canSendStderr |-> FALSE, pendingMsgs |-> 0, logs |-> 0,
                 rejected |-> FALSE]

Streams(kind) == kind \in {"framed", "checked"}
HasReply(kind) == kind \notin {"silent", "framed"}
ToDaemon(m) == daemon.pc # "gone" /\ Len(up) < UpSize /\ up' = Append(up, m)
ToClient(m) == Len(down) < DownSize /\ down' = Append(down, m)
ClientAt(pc) == client' = [client EXCEPT !.pc = pc]
DaemonAt(pc) == daemon' = [daemon EXCEPT !.pc = pc]

-----------------------------------------------------------------------------
(* RemoteStore                                                             *)

Request ==
    /\ client.pc = "idle" /\ client.ops < MaxOps
    /\ \E kind \in Kinds :
        /\ ToDaemon(kind)
        /\ \E n \in IF Streams(kind) THEN 0 .. MaxFrames ELSE {0} :
              client' = [pc |-> IF Streams(kind) THEN "check" ELSE "await",
                         kind |-> kind, left |-> n, ops |-> client.ops + 1, exc |-> "none"]
    /\ UNCHANGED <<down, daemon>>

\* FramedSink::writeUnbuffered: the messages that have arrived are read (checkError).
CheckError ==
    /\ client.pc = "check"
    /\ \/ /\ down = <<>>
          /\ ClientAt(IF client.left > 0 THEN "write" ELSE "end") /\ UNCHANGED down
       \/ /\ down # <<>>
          /\ down' = Tail(down)
          /\ CASE Head(down) = "log" -> UNCHANGED client
               [] Head(down) = "error" -> client' = [client EXCEPT !.pc = "end", !.exc = "daemon"]
               [] OTHER -> ClientAt("assert")
    /\ UNCHANGED <<up, daemon>>

WriteFrame ==
    /\ client.pc = "write"
    /\ ToDaemon("frame")
    /\ client' = [client EXCEPT !.pc = "check", !.left = @ - 1]
    /\ UNCHANGED <<down, daemon>>

AfterFrames == CASE client.exc = "none" -> "await"
                 [] client.exc = "daemon" -> "idle"
                 [] client.exc = "other" -> "closed"

\* Mutant of EndFrames: ~FramedSink writes nothing.
EndNothing ==
    /\ client.pc = "end"
    /\ ClientAt(AfterFrames)
    /\ UNCHANGED <<up, down, daemon>>

\* ~FramedSink, which ignores errors, and ~ConnectionHandle after an exception: one
\* that came from the daemon leaves the connection good.
EndFrames ==
    /\ client.pc = "end"
    /\ ToDaemon("end") \/ (daemon.pc = "gone" /\ UNCHANGED up)
    /\ ClientAt(AfterFrames)
    /\ UNCHANGED <<down, daemon>>

\* processStderr.
ReceiveMsg ==
    /\ client.pc = "await" /\ down # <<>>
    /\ down' = Tail(down)
    /\ ClientAt(CASE Head(down) = "last" /\ HasReply(client.kind) -> "reply"
                  [] Head(down) = "log" -> "await"
                  [] OTHER -> "idle")
    /\ UNCHANGED <<up, daemon>>

\* The reply after STDERR_LAST; what is no reply makes its parser throw, which marks the
\* connection bad.
ReceiveReply ==
    /\ client.pc = "reply" /\ down # <<>>
    /\ down' = Tail(down)
    /\ ClientAt(IF Head(down) = "reply" THEN "idle" ELSE "closed")
    /\ UNCHANGED <<up, daemon>>

\* Another exception, of the source of the frames or because of an interrupt or
\* of a daemon that has gone: the connection is marked bad.
ClientThrows ==
    /\ \/ /\ client.pc \in {"check", "write"}
          /\ client' = [client EXCEPT !.pc = "end", !.exc = "other"]
       \/ client.pc \in {"await", "reply"} /\ ClientAt("closed")
       \/ client.pc = "idle" /\ daemon.pc = "gone" /\ ClientAt("closed")
    /\ UNCHANGED <<up, down, daemon>>

-----------------------------------------------------------------------------
(* processConnection and performOp                                         *)

\* readInt(): anything that is no operation is taken for one, and what follows is
\* not modelled.
ReadOp ==
    /\ daemon.pc = "top" /\ up # <<>>
    /\ up' = Tail(up)
    /\ daemon' = [daemon EXCEPT !.pc = IF Head(up) \in Kinds THEN "start" ELSE "lost",
                                !.kind = Head(up), !.eof = ~Streams(Head(up)), !.threw = FALSE]
    /\ UNCHANGED <<down, client>>

StartWork ==
    /\ daemon.pc = "start" /\ Len(down) + daemon.pendingMsgs <= DownSize
    /\ down' = down \o [i \in 1 .. daemon.pendingMsgs |-> "log"]
    /\ daemon' = [daemon EXCEPT !.pc = "work", !.canSendStderr = TRUE, !.pendingMsgs = 0]
    /\ UNCHANGED <<up, client>>

\* Reading the arguments fails: the error is sent, by both handlers, and the daemon
\* ends.
BadArguments ==
    /\ daemon.pc = "start" /\ Len(down) + 2 <= DownSize
    /\ down' = down \o <<"error", "error">>
    /\ DaemonAt("gone")
    /\ UNCHANGED <<up, client>>

\* enqueueMsg, by this or another thread.
EnqueueMsg ==
    /\ daemon.pc \in {"top", "start", "work", "drain"} /\ daemon.logs < MaxLogs
    /\ IF daemon.canSendStderr
       THEN /\ ToClient("log")
            /\ daemon' = [daemon EXCEPT !.logs = @ + 1]
       ELSE /\ daemon' = [daemon EXCEPT !.logs = @ + 1, !.pendingMsgs = @ + 1]
            /\ UNCHANGED down
    /\ UNCHANGED <<up, client>>

\* The store operation reads a frame; what follows "end" is not its.
ReadFrame ==
    /\ daemon.pc = "work" /\ ~daemon.eof /\ up # <<>>
    /\ up' = Tail(up)
    /\ daemon' = [daemon EXCEPT !.eof = Head(up) = "end"]
    /\ UNCHANGED <<down, client>>

\* A checked operation is rejected after startWork(), before FramedSource is made.
Reject ==
    /\ daemon.pc = "work" /\ daemon.kind = "checked" /\ ~daemon.eof
    /\ daemon' = [daemon EXCEPT !.pc = "stop", !.threw = TRUE, !.rejected = TRUE]
    /\ UNCHANGED <<up, down, client>>

\* Mutant of Finish: FramedSource is still in scope at stopWork().
FinishUndrained ==
    /\ daemon.pc = "work"
    /\ \E threw \in BOOLEAN : daemon' = [daemon EXCEPT !.pc = "stop", !.threw = threw]
    /\ UNCHANGED <<up, down, client>>

\* The store operation returns or throws, whatever it has read, and ~FramedSource
\* reads the rest.
Finish ==
    /\ daemon.pc = "work"
    /\ \E threw \in BOOLEAN :
          daemon' = [daemon EXCEPT !.pc = IF daemon.eof THEN "stop" ELSE "drain", !.threw = threw]
    /\ UNCHANGED <<up, down, client>>

Drain ==
    /\ daemon.pc = "drain" /\ up # <<>>
    /\ up' = Tail(up)
    /\ DaemonAt(IF Head(up) = "end" THEN "stop" ELSE "drain")
    /\ UNCHANGED <<down, client>>

\* stopWork(), with the error or not.
StopWork ==
    /\ daemon.pc = "stop"
    /\ IF daemon.threw THEN ToClient("error") ELSE ToClient("last")
    /\ daemon' = [daemon EXCEPT !.pc = IF ~daemon.threw /\ HasReply(daemon.kind) THEN "reply"
                                       ELSE "top",
                                !.canSendStderr = FALSE]
    /\ UNCHANGED <<up, client>>

Reply ==
    /\ daemon.pc = "reply"
    /\ ToClient("reply")
    /\ DaemonAt("top")
    /\ UNCHANGED <<up, client>>

\* narFromPath() throws in the middle of the reply, where errors are not allowed any
\* more: both handlers send it all the same, and the daemon ends.
ReplyFails ==
    /\ daemon.pc = "reply" /\ daemon.kind = "nar" /\ Len(down) + 2 <= DownSize
    /\ down' = down \o <<"error", "error">>
    /\ DaemonAt("gone")
    /\ UNCHANGED <<up, client>>

\* End of file, or MonitorFdHup interrupts the daemon.
HangUp ==
    /\ client.pc = "closed" /\ daemon.pc # "gone"
    /\ DaemonAt("gone")
    /\ UNCHANGED <<up, down, client>>

DaemonStep ==
    \/ ReadOp \/ StartWork \/ BadArguments \/ ReadFrame \/ Reject \/ Finish \/ Drain
    \/ StopWork \/ Reply \/ ReplyFails \/ HangUp

ClientProceeds ==
    \/ CheckError \/ WriteFrame \/ EndFrames \/ ReceiveMsg \/ ReceiveReply
    \/ daemon.pc = "gone" /\ (client.pc = "write" \/ down = <<>>) /\ ClientThrows

DaemonNext == Request \/ ClientProceeds \/ ClientThrows \/ DaemonStep \/ EnqueueMsg

\* Both processes run, and store operations end.
DaemonFairness == WF_daemonVars(ClientProceeds) /\ WF_daemonVars(DaemonStep)

DaemonSpec == DaemonInit /\ [][DaemonNext]_daemonVars /\ DaemonFairness

-----------------------------------------------------------------------------
\* A connection that goes back to the pool is in step: the daemon never takes a
\* part of an upload for an operation, and the client finds no message of an
\* earlier operation, unless the daemon has ended; nor does it ever find
\* STDERR_LAST while it still sends, which it asserts.
AlwaysInStep ==
    /\ daemon.pc # "lost" /\ client.pc # "assert"
    /\ client.pc = "idle" /\ daemon.pc # "gone" => down = <<>> /\ up = <<>>

\* The same, as long as no upload is rejected before its frames are read.
InStep == daemon.rejected \/ AlwaysInStep

\* Every operation ends, with frames that nobody wants and with errors on either
\* side, if the log messages of the daemon fit into the buffer of the socket and
\* the daemon is in step.
OperationEnds ==
    client.pc # "idle" ~> client.pc \in {"idle", "closed"} \/ daemon.pc = "lost"
=============================================================================
