----------------------------- MODULE McpClient -----------------------------
(***************************************************************************)
(* One MCP server over stdio: the StdioClient of                           *)
(* internal/mcp/stdio_client.go with its reader goroutine, and what        *)
(* startServer, CallTool and StopAll of manager.go do with it.  Calls to a *)
(* server come one after the other: initialize and tools/list from         *)
(* startServer, then tools/call from the turn.  The server is external:    *)
(* the process that was started, or a child of it that inherited the pipes *)
(* (npx starts one), answers late, in any order, or never.                 *)
(***************************************************************************)
EXTENDS Integers, Sequences

CONSTANTS
  MaxTools,        \* bound: calls of tools/call
  StdinCap,        \* requests the stdin pipe holds before a write blocks
  StdoutCap,       \* lines the stdout pipe holds before the server blocks
  Servers,         \* who may be the server, of {"leader", "child"}
  ServerRequests,  \* the server sends requests of its own, with ids of its own
  LongLines        \* an answer may exceed the 64 KB of a Scanner's line

ASSUME McpAssumption ==
  /\ MaxTools \in Nat
  /\ StdinCap \in Nat \ {0}
  /\ StdoutCap \in Nat \ {0}
  /\ Servers \subseteq {"leader", "child"} /\ Servers # {}
  /\ ServerRequests \in BOOLEAN
  /\ LongLines \in BOOLEAN

VARIABLES
  start,     \* where startServer is; "ready" and "failed" when it has returned
  startCtx,  \* startCtx has ended: its timeout, or the deferred cancel
  turnCtx,   \* the context of the turn that calls the tool was cancelled
  leader,    \* the process that was started
  serves,    \* which process is the server
  server,    \* that process
  closed,    \* c.closeCh is closed
  reqID,     \* the id of the last call
  pc,        \* where call() is
  got,       \* what it takes out of its select
  pending,   \* the ids in c.pending
  ch,        \* per id, the channel of its call, which holds one message
  reader,    \* readStdout: in Scan, sending msg to a call's channel, or over
  msg,       \* the line it has read
  requests,  \* the ids on stdin; Initialized is the notification
  owed,      \* the requests the server has read and not answered
  heard,     \* the requests the server has read
  answers    \* the lines on stdout

startVars == <<start, startCtx, turnCtx>>
processVars == <<leader, serves, server, closed>>
callVars == <<reqID, pc, got, pending>>
readerVars == <<reader, msg>>
serverVars == <<owed, heard>>
vars == <<startVars, processVars, callVars, ch, readerVars, requests,
          serverVars, answers>>

-----------------------------------------------------------------------------
Initialize == 1
ListTools == 2
Initialized == 0
MaxId == ListTools + MaxTools
Ids == 1 .. MaxId

\* A line of stdout.  A notification and a line that is no JSON have the id 0,
\* which no call has.
Line == [id : 0 .. MaxId, kind : {"result", "error", "request", "noise", "long"}]
NoLine == [id |-> 0, kind |-> "noise"]
Outcome == Line \cup [id : Ids, kind : {"write_error", "ctx_error"}]

TypeOK ==
  /\ start \in {"spawn", "initialize", "notify", "list", "ready", "failed"}
  /\ startCtx \in {"live", "ended"}
  /\ turnCtx \in {"live", "cancelled"}
  /\ leader \in {"none", "alive", "dead"}
  /\ serves \in Servers
  /\ server \in {"none", "alive", "dead"}
  /\ closed \in BOOLEAN
  /\ reqID \in 0 .. MaxId
  /\ pc \in {"idle", "write", "select", "return"}
  /\ got \in Outcome
  /\ pending \subseteq Ids
  /\ ch \in [Ids -> {<<>>} \cup {<<line>> : line \in Line}]
  /\ reader \in {"none", "scan", "send", "done"}
  /\ msg \in Line
  /\ requests \in Seq(0 .. MaxId) /\ Len(requests) <= StdinCap
  /\ owed \subseteq Ids
  /\ heard \subseteq 0 .. MaxId
  /\ answers \in Seq(Line) /\ Len(answers) <= StdoutCap

Init ==
  /\ start = "spawn"
  /\ startCtx = "live"
  /\ turnCtx = "live"
  /\ leader = "none"
  /\ serves \in Servers
  /\ server = "none"
  /\ closed = FALSE
  /\ reqID = 0
  /\ pc = "idle"
  /\ got = NoLine
  /\ pending = {}
  /\ ch = [i \in Ids |-> <<>>]
  /\ reader = "none"
  /\ msg = NoLine
  /\ requests = <<>>
  /\ owed = {}
  /\ heard = {}
  /\ answers = <<>>

\* StopAll is followed by the exit of katty.
Exited == closed /\ start = "ready"

-----------------------------------------------------------------------------
(* startServer.                                                            *)

\* SIGKILL to the process that was started.
KillLeader ==
  /\ leader' = "dead"
  /\ server' = IF serves = "leader" THEN "dead" ELSE server
  /\ UNCHANGED serves

\* NewStdioClient starts the process and the reader, or fails.
Spawn ==
  /\ start = "spawn"
  /\ \/ /\ start' = "initialize"
        /\ leader' = "alive"
        /\ server' = "alive"
        /\ reader' = "scan"
        /\ UNCHANGED startCtx
     \/ /\ start' = "failed"
        /\ startCtx' = "ended"
        /\ UNCHANGED <<leader, server, reader>>
  /\ UNCHANGED <<turnCtx, serves, closed, callVars, ch, msg, requests,
                 serverVars, answers>>

\* Fault: the notification is forgotten.
NotifyNot ==
  /\ start = "notify"
  /\ start' = "list"
  /\ UNCHANGED <<startCtx, turnCtx, processVars, callVars, ch, readerVars, requests,
                 serverVars, answers>>

\* The notification that ends the handshake; an error of its write is ignored.
Notify ==
  /\ start = "notify"
  /\ \/ /\ server = "alive" /\ Len(requests) < StdinCap
        /\ requests' = Append(requests, Initialized)
     \/ server = "dead" /\ UNCHANGED requests
  /\ start' = "list"
  /\ UNCHANGED <<startCtx, turnCtx, processVars, callVars, ch, readerVars,
                 serverVars, answers>>

\* The startup timeout passes.
StartTimeout ==
  /\ start \in {"initialize", "notify", "list"}
  /\ startCtx = "live"
  /\ startCtx' = "ended"
  /\ UNCHANGED <<start, turnCtx, processVars, callVars, ch, readerVars, requests,
                 serverVars, answers>>

\* os/exec kills the process it started once its context, startCtx, has ended.
ContextKills ==
  /\ startCtx = "ended"
  /\ leader = "alive"
  /\ KillLeader
  /\ UNCHANGED <<startVars, closed, callVars, ch, readerVars, requests,
                 serverVars, answers>>

-----------------------------------------------------------------------------
(* call().                                                                 *)

\* A new id, and its channel in pending.
CallBegin ==
  /\ pc = "idle"
  /\ \/ start \in {"initialize", "list"}
     \/ start = "ready" /\ ~closed /\ reqID < MaxId
  /\ reqID' = reqID + 1
  /\ pending' = pending \cup {reqID + 1}
  /\ turnCtx' = "live"
  /\ pc' = "write"
  /\ UNCHANGED <<start, startCtx, processVars, got, ch, readerVars, requests,
                 serverVars, answers>>

\* The write of the request: it fails when nobody holds the other end of the pipe
\* and waits, for whatever context, when the pipe is full.
Write ==
  /\ pc = "write"
  /\ ~Exited
  /\ \/ /\ server = "dead"
        /\ got' = [id |-> reqID, kind |-> "write_error"]
        /\ pc' = "return"
        /\ UNCHANGED requests
     \/ /\ server = "alive" /\ Len(requests) < StdinCap
        /\ requests' = Append(requests, reqID)
        /\ pc' = "select"
        /\ UNCHANGED got
  /\ UNCHANGED <<startVars, processVars, reqID, pending, ch, readerVars,
                 serverVars, answers>>

\* Fault: startServer gives its calls the context it was given.
ContextEndedTurn == turnCtx = "cancelled"

\* The call's own context has ended.
ContextEnded ==
  IF start = "ready" THEN turnCtx = "cancelled" ELSE startCtx = "ended"

\* Fault: one channel for all calls.
SelectAny ==
  /\ pc = "select"
  /\ ~Exited
  /\ \/ \E i \in Ids :
          /\ ch[i] # <<>>
          /\ got' = Head(ch[i])
          /\ ch' = [ch EXCEPT ![i] = <<>>]
     \/ /\ ContextEnded
        /\ got' = [id |-> reqID, kind |-> "ctx_error"]
        /\ UNCHANGED ch
  /\ pc' = "return"
  /\ UNCHANGED <<startVars, processVars, reqID, pending, readerVars, requests,
                 serverVars, answers>>

\* Fault: the call waits for its answer alone.
SelectAnswer ==
  /\ pc = "select"
  /\ ~Exited
  /\ ch[reqID] # <<>>
  /\ got' = Head(ch[reqID])
  /\ ch' = [ch EXCEPT ![reqID] = <<>>]
  /\ pc' = "return"
  /\ UNCHANGED <<startVars, processVars, reqID, pending, readerVars, requests,
                 serverVars, answers>>

\* The select of call: an answer, or the end of the context.
Select ==
  /\ pc = "select"
  /\ ~Exited
  /\ \/ /\ ch[reqID] # <<>>
        /\ got' = Head(ch[reqID])
        /\ ch' = [ch EXCEPT ![reqID] = <<>>]
     \/ /\ ContextEnded
        /\ got' = [id |-> reqID, kind |-> "ctx_error"]
        /\ UNCHANGED ch
  /\ pc' = "return"
  /\ UNCHANGED <<startVars, processVars, reqID, pending, readerVars, requests,
                 serverVars, answers>>

\* A result that is there and parses.  A request of the server that was taken for
\* the answer has none.
Succeeded == got.kind = "result"

\* The deferred delete, and what startServer does next: an error closes the client,
\* and startCtx is cancelled with the return of startServer.
CallEnd ==
  /\ pc = "return"
  /\ ~Exited
  /\ pc' = "idle"
  /\ pending' = pending \ {reqID}
  /\ \/ /\ start = "ready"
        /\ UNCHANGED <<start, startCtx, processVars>>
     \/ /\ start = "initialize" /\ Succeeded
        /\ start' = "notify"
        /\ UNCHANGED <<startCtx, processVars>>
     \/ /\ start = "list" /\ Succeeded
        /\ start' = "ready"
        /\ startCtx' = "ended"
        /\ UNCHANGED processVars
     \/ /\ start # "ready" /\ ~Succeeded
        /\ start' = "failed"
        /\ startCtx' = "ended"
        /\ closed' = TRUE
        /\ KillLeader
  /\ UNCHANGED <<turnCtx, reqID, got, ch, readerVars, requests, serverVars, answers>>

\* The turn that calls the tool is cancelled.
CancelTurn ==
  /\ start = "ready"
  /\ pc # "idle"
  /\ ~Exited
  /\ turnCtx = "live"
  /\ turnCtx' = "cancelled"
  /\ UNCHANGED <<start, startCtx, processVars, callVars, ch, readerVars, requests,
                 serverVars, answers>>

\* StopAll, from "/exit" and from main after the end of the input, also while a
\* turn is in a call: Close.
StopAll ==
  /\ start = "ready"
  /\ ~closed
  /\ closed' = TRUE
  /\ KillLeader
  /\ UNCHANGED <<startVars, callVars, ch, readerVars, requests, serverVars, answers>>

-----------------------------------------------------------------------------
(* readStdout.                                                             *)

\* The head of the loop.
NextLine == IF closed THEN "done" ELSE "scan"

\* Fault: a line that is no response ends the reader.
ReadLineStrict ==
  /\ reader = "scan"
  /\ ~Exited
  /\ answers # <<>>
  /\ answers' = Tail(answers)
  /\ reader' = IF Head(answers).kind = "noise" THEN "done"
               ELSE IF Head(answers).id \in pending THEN "send" ELSE NextLine
  /\ msg' = IF Head(answers).id \in pending THEN Head(answers) ELSE NoLine
  /\ UNCHANGED <<startVars, processVars, callVars, ch, requests, serverVars>>

\* A line: too long a one ends the scanner for good; one that no call waits for
\* is dropped.
ReadLine ==
  /\ reader = "scan"
  /\ ~Exited
  /\ answers # <<>>
  /\ answers' = Tail(answers)
  /\ LET line == Head(answers)
     IN /\ reader' = IF line.kind = "long" THEN "done"
                     ELSE IF line.id \in pending THEN "send" ELSE NextLine
        /\ msg' = IF line.kind # "long" /\ line.id \in pending THEN line ELSE NoLine
  /\ UNCHANGED <<startVars, processVars, callVars, ch, requests, serverVars>>

\* Fault: the channel has no buffer.
HasRoomUnbuffered == pc = "select" /\ msg.id = reqID

\* The channel that was looked up takes the message.
HasRoom == ch[msg.id] = <<>>

\* The send, outside the lock, to the channel that was looked up.
Send ==
  /\ reader = "send"
  /\ ~Exited
  /\ HasRoom
  /\ ch' = [ch EXCEPT ![msg.id] = <<msg>>]
  /\ reader' = NextLine
  /\ msg' = NoLine
  /\ UNCHANGED <<startVars, processVars, callVars, requests, serverVars, answers>>

\* The end of the stream.
ReadEnd ==
  /\ reader = "scan"
  /\ answers = <<>>
  /\ server = "dead"
  /\ reader' = "done"
  /\ UNCHANGED <<startVars, processVars, callVars, ch, msg, requests,
                 serverVars, answers>>

-----------------------------------------------------------------------------
(* The server.                                                             *)

ServerReads ==
  /\ server = "alive"
  /\ requests # <<>>
  /\ requests' = Tail(requests)
  /\ heard' = heard \cup {Head(requests)}
  /\ owed' = owed \cup ({Head(requests)} \ {Initialized})
  /\ UNCHANGED <<startVars, processVars, callVars, ch, readerVars, answers>>

\* It answers what it owes, in any order, once.
ServerAnswers ==
  /\ server = "alive"
  /\ Len(answers) < StdoutCap
  /\ \E i \in owed, kind \in {"result", "error"} \cup IF LongLines THEN {"long"} ELSE {} :
       /\ answers' = Append(answers, [id |-> i, kind |-> kind])
       /\ owed' = owed \ {i}
  /\ UNCHANGED <<startVars, processVars, callVars, ch, readerVars, requests, heard>>

\* A notification, or a request of its own.
ServerSpeaks ==
  /\ server = "alive"
  /\ Len(answers) < StdoutCap
  /\ \/ answers' = Append(answers, NoLine)
     \/ /\ ServerRequests
        /\ \E i \in Ids : answers' = Append(answers, [id |-> i, kind |-> "request"])
  /\ UNCHANGED <<startVars, processVars, callVars, ch, readerVars, requests, serverVars>>

ServerCrashes ==
  /\ server = "alive"
  /\ server' = "dead"
  /\ leader' = IF serves = "leader" THEN "dead" ELSE leader
  /\ UNCHANGED <<startVars, serves, closed, callVars, ch, readerVars, requests,
                 serverVars, answers>>

-----------------------------------------------------------------------------
Caller == Spawn \/ Notify \/ Write \/ Select \/ CallEnd
Reader == ReadLine \/ Send \/ ReadEnd
Server == ServerReads \/ ServerAnswers \/ ServerSpeaks \/ ServerCrashes

\* startServer has failed, every call was made, or katty has exited.
Finished ==
  /\ start = "failed" \/ Exited \/ (pc = "idle" /\ reqID = MaxId)
  /\ UNCHANGED vars

Next ==
  \/ Caller \/ CallBegin \/ CancelTurn \/ StartTimeout \/ StopAll
  \/ ContextKills \/ Reader \/ Server
  \/ Finished

Spec == Init /\ [][Next]_vars

\* The goroutines are scheduled and the startup timeout passes.
Fairness ==
  /\ WF_vars(Caller)
  /\ WF_vars(CallBegin /\ start # "ready")
  /\ WF_vars(StartTimeout)
  /\ WF_vars(ContextKills)
  /\ WF_vars(Reader)

FairSpec == Spec /\ Fairness

\* A server that reads its requests.
ServerListens == WF_vars(ServerReads)

-----------------------------------------------------------------------------
(* Properties.                                                             *)

\* A call takes nothing that was meant for another, and succeeds only with the
\* answer to its own request: neither the late answer to a call cancelled before
\* it nor a request of the server with the same id passes for one.
AnswerIsOwn ==
  pc = "return" => got.id = reqID /\ (Succeeded => reqID \in heard \ owed)

\* The reader never waits for a call: each has a channel of its own with room for
\* the one answer it gets, so a call cancelled after the lookup does not stop it.
ReaderNeverBlocks == reader = "send" /\ ~Exited => HasRoom

\* The server hears the initialized notification after it has answered initialize
\* and before the list of its tools is asked for.
HandshakeOrder ==
  LET sent == heard \cup {requests[i] : i \in DOMAIN requests}
  IN /\ Initialized \in sent => Initialize \in heard \ owed
     /\ \A i \in sent : i >= ListTools =>
          {Initialize, Initialized} \subseteq sent
     /\ \A i \in sent : i > ListTools => ListTools \in heard \ owed

\* startServer returns: its calls end with startCtx even if the server reads nothing
\* and answers nothing, when the pipe has room for the three lines it writes.
StartReturns == <>(start \in {"ready", "failed"})

\* The reader gets to an answer to request i: it has not ended, and there is no line
\* of more than 64 KB in front, at which it would.
Readable(i) ==
  /\ reader # "done"
  /\ \E k \in DOMAIN answers :
       answers[k].id = i /\ \A j \in 1 .. k : answers[j].kind # "long"

\* An answer on the pipe that the reader gets to ends the call that waits for it,
\* whatever other lines are in front of it.
AnswerEndsCall ==
  \A i \in Ids : pc = "select" /\ reqID = i /\ Readable(i) ~> pc # "select" \/ Exited

\* A call whose turn is cancelled returns, given a server that reads.
CancelledCallReturns ==
  ServerListens => (turnCtx = "cancelled" /\ pc # "idle" ~> pc = "idle" \/ Exited)

-----------------------------------------------------------------------------
(* What the repository says and the code does not do.                      *)

\* "Katty-Go can start and call configured MCP servers" (README.md:224): what was
\* started is killed by StopAll, and not before.
ServerOutlivesStart == [][ContextKills => start # "ready" \/ server' = server]_vars

\* "call_timeout_seconds" (README.md:239, config.go:66): a call ends even if no
\* answer comes and nobody cancels the turn.
CallsBounded ==
  ServerListens /\ WF_vars(ServerAnswers) => (pc = "select" ~> pc # "select" \/ Exited)
=============================================================================
