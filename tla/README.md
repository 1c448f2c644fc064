# A formal model of katty

katty is a terminal assistant: a REPL that sends what its user types to a model
service, parses tool calls out of the answers, runs them (files, processes,
sessions, remote targets, MCP servers) and feeds the results back until the
model is done. This directory holds TLA+ modules of its parts, TLC
configurations that check them on small instances, and TLAPS proofs of the
properties that matter most, for every instance.

Paths below are relative to `src/`; `repl.go` is `internal/repl/repl.go`.

## 1. Inventory

| Component | State | Operations | Hard behaviour |
| --- | --- | --- | --- |
| **REPL controller** (`repl.go`) | `r.state`, `r.turnCancel` under `r.mu`; `r.messages` under no lock; `pendingSteer`, `lastCtrlC`; the event channel | `Run`'s select: a line, an interrupt, the end of the input, a turn's result | the turn's goroutine and main interleave; steering and interrupts reach a turn that has not started, is ending, or waits for a tool |
| **Tool loop** (`repl.go`) | `messages`, the calls left, the round | `runToolLoop`, `executeTool` | cancellation between any two steps; rollback; the bound on rounds; display-only requests |
| **Input** (`repl.go`) | stdin, `sigCh`, the event channel | `readInput`, the signal goroutine | two producers on a full channel while main runs a `!` command, which reads the same stdin |
| **proc.exec** (`internal/builtin/proc.go`) | `procMgr.procs`, the command's processes and its pipes | start, wait, terminate, kill, `KillAll` | a timeout races the exit; children that hold a pipe, leave the group, or survive SIGTERM; pids used again |
| **target.exec** (`internal/builtin/target.go`) | the command's processes | exec, copy, info, ping, local and over ssh | only the leader is killed; an exit error hides the timeout |
| **Sessions** (`internal/builtin/session.go`) | the session map, the ring buffer, `Running` | start, send, read, stop, list | two pumps, a monitor that closes the pipes they read, cursors into a ring that wraps, a send to a process that does not read, or has closed its stdin |
| **MCP client** (`internal/mcp/stdio_client.go`) | `pending`, `nextID`, the pipes | initialize, tools/list, tools/call, Close | answers late, too long, unasked for; the death of the server |
| **MCP manager** (`internal/mcp/manager.go`) | `m.servers`, statuses | StartAll, startServer, CallTool, StopAll | one goroutine per server, all of which write the map |
| **File tools** (`internal/builtin/fs.go`) | the disk | read, write, append, patch, copy, move, remove, mkdir, list, stat, search, glob | several system calls per tool, any of which may fail, other processes on the same disk, limits |
| **Model client** (`internal/deepseek/client.go`) | none | `Chat` | an error, an empty answer, a reply, a timeout |
| **Transcript** (`internal/transcript/transcript.go`) | the log file | `Log` | one that cannot be opened |
| **Life cycle**, configuration and startup files (`main.go`, `internal/config`, `internal/startup`) | `~/.katty`, which every katty of the user's shares | first starts, starts, `/exit`, the end of the input, the second Ctrl-C | starts side by side, kills, edits and failures between a look and a write, a home that cannot be written to, what an end leaves running |
| Tool registry, OS and network tools, system context, environment probe | read once, or none | | sequential, no state that changes |

**How they interact.** Main starts one goroutine per turn and hears of its end
on `turnDone`; it stops it through the context behind `r.turnCancel`. The turn
calls the model client, then the tools one after the other: each gets the turn's
context. `proc.exec`, sessions and MCP servers have goroutines of their own that
outlive the call that started them; main reaches them with `/kill`, `/sessions`
and `/exit`. The user's lines and signals reach main through one channel.

**What makes each part correct.** The conversation grows by whole turns; one that
is undone leaves no trace; a cancelled turn goes no further than what it had passed
its look at the context with; the prompt is open exactly when no turn is. A
command's output is read after its last writer is gone, a killed command is not
taken for one that ran, the registry knows what runs (but for a pid used twice). A
session's reader is not put behind a line it was not given, as long as none is
overwritten. An MCP call takes only the answer to its own request. A file tool's
ok means the effect stated for it on a disk left alone, and its error a change of
no more than it was to change. A line typed is served or was read by a `!` command,
in order. A start replaces what the user saved in `~/.katty` only if it looked
before the save, and a damaged file there is one whose write was cut short. Where
the code falls short of what a reader would expect, section 4 says so.

`PROJECT.json` lists the hazards with their lines, and the properties that watch
each of them.

## 2. Modules

| Module | Models | Extends, uses |
| --- | --- | --- |
| `Conversation` | the abstract specification of the history: `Begin`, `Extend`, `Commit`, `Abort` | |
| `Repl` | main and the turn's goroutine of `repl.go` | instance of `Conversation` |
| `MCRepl` | sets of calls for the runs | `Repl` |
| `ReplProofs` | proofs about it | `Repl`, `SelectionProofs` |
| `InputQueue` | `readInput`, the signal goroutine, the event channel, and main as their consumer | |
| `InputQueueProofs` | proofs about it | `InputQueue`, `SelectionProofs` |
| `Selection`, `SelectionProofs` | the elements of a sequence that are in a set, by a recursive function, and what it computes for every sequence | |
| `ProcessGroup` | the operating system's side of a command: leader, child, group, pipes, signals, `cmd.Wait` | |
| `ProcExec` | `procExec`, `terminateProcessGroup`, `ProcManager` | `ProcessGroup` |
| `ProcExecProofs` | proofs about it | `ProcExec` |
| `TargetExec` | the commands of exec, copy, info and ping, and the command line for the remote shell | `ProcessGroup` |
| `RingBuffer` | `ringBuffer`'s `Append` and `Since`, as operators | `Selection` |
| `Session` | start, send, read, stop, the pumps and the monitor of a session | `RingBuffer` |
| `SessionProofs` | proofs about it and about `RingBuffer` | `Session`, `SelectionProofs` |
| `McpClient` | `StdioClient` with its reader, one `startServer`, the calls | |
| `McpStartup` | `StartAll` with a goroutine per server, and what `main.go` makes of its error | |
| `McpProofs` | proofs about both | `McpClient`, `McpStartup` |
| `FsTools`, `MCFsTools` | the file tools; disks and calls for its runs | |
| `ToolProofs` | proofs about the file tools and target.exec | `FsTools`, `TargetExec`, `SelectionProofs` |
| `Lifecycle` | `main.go` from its start to its end, `loadConfig`, `EnsureDir`, `startup.Load`, for several kattys over one `~/.katty` | |
| `LifecycleProofs` | proofs about it | `Lifecycle` |

### How a module corresponds to the code

*Steps.* An action is the code between two points at which another actor can be
seen: a locked access, a channel operation, a system call, a call that blocks.
What lies between is one action, with every assignment in it. `PROJECT.json`'s
`map` gives the lines of each definition.

*Repl.* `mainPc` is where main is (its select, a `!` command, the two halves of
`handleCtrlC`), `pc` where the turn is: `begin` and `arm` are `startTurn` and
the head of `runToolLoop`, before its cancel function can be reached; `round`,
`request`, `chat`, `reply`, `tool`, `start`, `exec`, `result` the loop; `return` its
deferred calls. The look at the context behind a request and behind a tool
(`ChatPasses`, `ToolPasses`) is a step of its own: a cancel may come between it and
the append of the reply or the result, which are `TakesReply` and `TakesResult`.
`messages` keeps a message's kind and turn; `base` is `baseMsgLen`. What the
model answers and what a tool returns are choices. `Interrupt` and `CancelTurn`
are two actions because `handleCtrlC` takes the lock twice. A user's line is a
model value; `DisplayOnly` is the set for which `isDisplayOnlyRequest` holds.

*InputQueue.* Lines carry their kind. They go from the terminal (`stdin`) to the
buffer of `r.reader`, through `readInput`'s hand and the event channel to main.
A `!` command has katty's stdin, and may take the next line or a part of it, as a
child it leaves behind may later (`ShellReads`); text behind the last newline comes
with an error, and `readInput` drops it (`ReadEnd`). The turn is reduced to none, one that
runs, one that drains, which decides what main makes of a line. The two-second
window of the double Ctrl-C is a flag that `Pause` clears, for the time typed
and for the time handled together.

*ProcessGroup.* A command is a leader and at most one child, which may leave the
group or hold the pipes. `cmd.Wait` is two steps, as in the Go library: the leader
is reaped, then os/exec's copying goroutines end, the one of the output when nobody
holds that pipe, the one of the input when the command, or a child, has taken it
or nobody is left to take it (`feeding`). A leader ends by itself or of a signal
that is not katty's, which is an exit like any other failure. A signal to a group
whose leader was reaped does nothing, because `Getpgid` fails.

*ProcExec.* The registry is keyed by pid, as `procMgr.procs` is: a command takes any
pid that no process has, also one an earlier command had, whose goroutine may then
remove the entry of the later one.

*TargetExec.* `tool` is the caller of `cmd.Run`, which decides what becomes of
its error (`RunResult`). `RemoteCommand` is the command line as pipelines of
commands, for what the remote shell makes of a cwd and a stdin together.

*Session.* Lines are numbered, so that "skipped" and "delivered again" can be
said; a blank line is 0, the value of a free slot. The pipe of a stream is a
sequence; the monitor's `cmd.Wait` empties it. A line that is too long for a
`bufio.Scanner` ends the pump of its stream. A send is its look at `Running`, and
writes for which the stdin pipe has room or not; the process reads, does not, or
closes its stdin and lives on (`ClosesInput`), which makes the write fail.

*McpClient.* A line is what it answers: an id, and whether it is an answer, a
request of the server's own, a notification, or too long for the scanner. The
server is the process that was started or a child of it, which a kill of the
leader does not reach.

*McpStartup.* A write of the map has a beginning and an end, so that two of them
can overlap; the runtime's check may then abort, or an entry may get lost.

*FsTools.* The disk is a function from paths (sequences of names) to
directories and files with their text. A handler's system calls are steps, and
`OutsideWrite` may come between any two of them. Any of them may also fail
(`DiskFails`), as on a full disk, of a device, or for want of a permission: a write
leaves a part of its text behind the truncation, `os.MkdirAll` the directories it
has made, `os.RemoveAll` what it has not come to, and the handler goes on or
returns as the code does with that error. `frames` are the activations
of `copyDir`; entries are taken in any order, of which `ReadDir`'s is one. A
file may be unreadable or read-only. `os.WriteFile` truncates and then writes at
the start of the file; `O_APPEND` writes at its end. A walk (`list`, `search`,
`glob`) visits one entry after the other, in any order, skips what the tool
skips and stops at the tool's limit; `search` has both of its engines.

*Lifecycle.* A file is absent, empty, katty's default, the user's, or broken. A
start looks at a file, truncates it, and writes its default: three steps, between
any two of which other starts, edits and kills may come; the write may fail. `cut`
and `overtaken` remember the files whose write did not come to its end, and the
starts behind whose look a user saved. What a turn does is reduced to the
commands and sessions it starts; what an end leaves of them is `orphans`.
`/kill` at the prompt finds the registry empty, since a command is registered
only while a call waits for it (`ProcExec`), so it has no action here. `/exit`
ends with `os.Exit`, which skips the deferred calls of `main`.

## 3. Runs

Each run is a question. A *violation* is a statement of the repository (help
text, README, message, schema) that the code does not keep; the finding in
`PROJECT.json` quotes it.

| Run | Shows |
| --- | --- |
| `repl_safety` | two turns of two rounds with two calls each, steered, interrupted and quit at any point, with a cancel between any look at the context and what follows it: the prompt is open exactly without a turn, `turnCancel` never outlives its context, requests end with a message of the user's role, a turn has no more replies than rounds, the transcript has the requests, replies and built-in tools' results of the turns in order; `Repl` implements `Conversation`, and a turn that was cancelled comes to no further request, tool, reply or result |
| `repl_liveness` | over three turns, with nothing but the scheduler assumed: a cancelled turn ends, unless its request or tool never returns; if the model and the tools answer, every turn ends, and a steering line starts the next one unless another line takes its place |
| `queue` | a line that no `!` command reads is not lost, served twice or out of order, nor overtaken by the end of the input; with `!` commands that end, every line is served or was read by one, and every Ctrl-C is served |
| `proc_safety` | two commands, with one pid or two, with input or none and a child that may hold the pipes and outlive its leader: output settled when read, the registry complete but for a pid used twice, and drained; a killed command reported as such; only a child that keeps a pipe busy delays a call beyond its context |
| `target_safety` | one command of exec, copy, info or ping, with a child of any kind, also one that leaves the group: output settled when read, and only a child that keeps a pipe busy delays the call |
| `session_safety` | more lines than the buffer holds, blank ones and one too long too: every read is a suffix of what is left, nothing is skipped until the buffer wraps; a stop ends the process, the end is reported; a send says truly what became of its input, also of a process that has closed its stdin, and ends if the process reads, closes its stdin or ends |
| `mcp_safety` | the handshake and two calls, with a server that does anything: an answer is that of its call (by id), initialized comes between initialize and tools/list |
| `mcp_liveness` | `startServer` ends whatever the server does; an answer that the reader gets to ends its call, and a cancel does if the server reads; with a server that answers each request at most once, the reader never waits for a call that gave up. Lines over 64 KB come too, behind which the reader gets to nothing |
| `mcp_start_kills` | *violation*: the server dies with the context of its start |
| `mcp_startup` | `StartAll` returns, not before the last of its goroutines, whatever becomes of the map; the REPL finds each enabled one running or failed; if required servers failed, the user was warned of exactly one of them, if none did, of nothing |
| `fs` | every call of the twelve tools on disks of six kinds, with up to two writes of other processes and two failures of the disk at any step: ok on a disk left alone means the effect `CallDid` describes and no other (for a copy, where neither path lies in the other: `CopyApart`), and if the disk failed, ok comes only from the tools that pass over errors; an error means that nothing changed but what `FailedCallsContained` allows; `truncated` is right for read from offsets that are not negative and for list, and for glob says of every match left out; a recursive copy without overwrite replaces nothing (`O_EXCL`) |
| `lifecycle` | three starts in two terminals over a home that is new, in use or read-only, with edits, kills and failing writes at any moment and ends of every kind: a start replaces what the user saved only if it was saved behind that start's look, and a damaged file is being written or its write was cut short |

Every module with a specification of the code states its `TypeOK` (`TargetTypeOK`,
`StartupTypeOK`), which is a theorem; TLC finds each to hold with `INVARIANT TypeOK`
added to a configuration of its module.

### Bounds, and why they are enough

* `MaxTurns` 2 or 3: the state that crosses turns is the history, `turnCancel`,
  the steering line and `lastCtrlC`; what one turn leaves behind acts on the
  next, and a third shows that the second left nothing. `MaxCalls` 2 and
  `MaxToolRounds` 2 have a call behind another and a round behind another. The calls
  of `repl_safety` are of built-in and other tools and not final: what a final call
  does, a call may do in a turn of a display-only request, of which there is one. The
  proofs hold for all values.
* Two commands in `proc_safety`: a waiting goroutine of one outlives its call
  into the other; with two pids they may or may not have the same. A child that
  leaves the group is in `target_safety`, over the same `ProcessGroup`; here it would
  add states, and little that a child in the group cannot do once the leader is
  reaped. One command is enough where a question is about one.
* `Cap` 3 with four lines: the buffer wraps, with a reader before, at and behind
  the oldest line; `MaxBytes` smaller than, equal to and larger than what is there.
* `MaxTools` 2 and pipes of 1 or 2: a late answer meets the next call, both
  pipes fill.
* Three enabled servers, two of them required: of two required failures one reaches
  main, an optional one may fail beside them, and two writes of the map overlap; one
  disabled entry is written by the loop itself.
* `Capacity` 1 instead of 16, `SigCapacity` 1: both fill, and both goroutines
  wait for room at once.
* `MaxCalls` 1 in `FsTools`: a call keeps no state but the disk, so a second
  call is a first call on another disk, of which `Trees` has the kinds that
  matter (nested, three levels deep, clashing, blocked, unreadable, hidden).
  `MaxOutside` 2 and `MaxFailures` 2: one write of another process and one failure
  at the worst moments, and a second of each behind it.
* Two terminals and three starts in `lifecycle`: two starts at the same file, and
  one that finds what they left. Edits and failing writes are not bounded.
* `MaxInput` 2 with a stdin pipe of 1: a send of which a part finds room.

No run uses symmetry. Runs whose system may rest (an idle prompt, a finished
call) do not check for deadlock; that nothing waits for good is what their
liveness properties say.

### Fairness, and why the code justifies it

* Every goroutine that can go on does (weak fairness), as the Go scheduler
  promises. Receiving a turn's result is strongly fair: a select picks among its
  ready cases at random, and a user cannot type for ever without a pause. So are
  the sends to the event channel: blocked senders are queued in order.
* Nothing makes a request, a tool or a `!` command return (`Repl!FairSpec`):
  `CancelledTurnEnds` says what holds then. `EveryTurnEnds` and `SteeringRuns` are
  about behaviours in which requests and tools return: `AnswerFairness` stands
  before their arrow. The HTTP client has a timeout; that some tools may not return
  is in section 4 (`CommandsBounded`, `SendReturns`, `CallsBounded`). `HangSpec`, with
  tools that return once cancelled, serves a counterexample only.
* `ProcExec` assumes its goroutines and no process: a command may run for ever,
  and only signals end it. Likewise `TargetExec`, and os/exec's watcher.
* `Session` assumes pumps, monitor, os/exec and the writes of a send that find
  room; `ReadingSpec` adds a user who reads. `SendEnds` is about processes that
  read, close their stdin or end: `ProcessServes` stands before its arrow.
* `Lifecycle` states no fairness: nothing has to happen.
* `McpClient` assumes the client, its reader and the startup timeout, and nothing of
  the server. `CancelledCallReturns` is about servers that read (`ServerListens`
  before its arrow): a write to a full pipe looks at no context.
* `InputQueue.EndingSpec` adds `!` commands that end; `FairSpec` does not, and
  that a Ctrl-C would end one is what fails. Neither makes a command read.

## 4. Counterexamples beside the runs

Each of these properties is one that a reader of the code or its documentation
would expect, and TLC answers with a behaviour of the code that breaks it. They
are kept for whoever changes that code; the properties stand at the end of their
modules, under "What the repository says and the code does not do" or "What the
code does not do", with the line they quote where there is one. `tlc -config <cfg> <module>` shows the behaviour. Where a
configuration lists several properties TLC stops at the first it refutes; each
of them is refuted when it is the only one left in the file.

| Configuration (module) | Property | What happens |
| --- | --- | --- |
| `ReplLostCancel` (`MCRepl`) | `CancelRequestEndsTurn` | between `startTurn` (`repl.go:182`) and the assignment of the cancel function (`repl.go:388`) a steering line or an interrupt cancels nothing, and the turn goes on |
| `ReplSteered` (`MCRepl`) | `InterruptReturnsToPrompt` | after "Interrupted. Returning to prompt." (`repl.go:380`) the steering line that waits starts a turn |
| | `SteeringNotReplaced` | the turn's goroutine sets `assistant_running` or `tool_running` (`repl.go:406`, `452`) over `draining`, and a second line replaces the first |
| | `ShellLinesBypassModel` | a `!` line typed while a turn runs goes to the model |
| `ReplTools` (`MCRepl`) | `EveryMessageLogged` | control messages (`repl.go:439`) and results of MCP and unknown tools (`repl.go:627`) are in the history, not in the transcript |
| | `EveryCallRuns` | the first printed result of a display-only request drops the calls behind it (`repl.go:462`) |
| `QueueShell` (`InputQueue`) | `CtrlCEndsShell` | main waits for the `!` command and takes no event, so nothing typed ends it (`repl.go:337`) |
| | `DoubleWasTyped` | two Ctrl-Cs typed far apart, while main is away for a `!` command or not yet scheduled, are served back to back and end katty (`repl.go:368`) |
| | `InputIsKattys` | a `!` command has katty's stdin and takes lines, or parts of lines, typed ahead (`repl.go:320`) |
| | `RestServed` | a last line without its newline comes with the error, and is dropped (`repl.go:213`) |
| `ProcUnbounded` (`ProcExec`) | `CommandsBounded` | a child that survives SIGTERM and holds the pipe keeps the call: the SIGKILL finds no leader to ask for its group (`proc.go:179`) |
| | `GroupKilled` | a call returns `timeout` with a process of the group alive (`proc.go:174`) |
| `ProcKillMisses` (`ProcExec`) | `KillAllKills` | the registry has forgotten commands whose children still run (`proc.go:309`) |
| `ProcReusedPid` (`ProcExec`) | `RegistryTracks` | the goroutine of a command that is over removes, late, the entry of the next one, which has its pid (`proc.go:300`, `306`) |
| | `EndedIsReported` | a command that ended by itself as the timeout came is reported as timed out (`proc.go:119`) |
| `TargetSaid` (`TargetExec`) | `KilledIsReported` | a command killed on its timeout is an ok result (`target.go:310`) |
| | `CommandsBounded` | only the leader is killed; a child with a pipe keeps the call (`target.go:305`) |
| | `RemoteRunsAsAsked` | with a cwd and a stdin the remote shell gives the stdin to the `cd`, and changes the directory of a subshell; a constant formula, which TLC refutes before the first state |
| `SessionStuck` (`Session`) | `SendReturns` | a send to a process that does not read waits for room, whatever the turn's context (`session.go:273`) |
| | `PipesDrain` | behind a line of more than 64 KB a pump reads no more (`session.go:218`) |
| | `OutputReachesBuffer` | `cmd.Wait` closes the pipes with lines in them (`session.go:238`) |
| `SessionBlindReader` (`Session`) | `NewLinesAreNew` | a reader at the end of a full buffer hears of no further line: a cursor counts from the oldest line left (`session.go:56`) |
| `SessionStuckReader` (`Session`) | `ReaderAdvances` | a line that reaches `max_bytes` is delivered again and again (`session.go:67`) |
| `McpUnboundedCall` (`McpClient`) | `CallsBounded` | a call to a server that is dead, or whose line was too long, waits for the user (`stdio_client.go:154`) |
| `McpStartupSaid` (`McpStartup`) | `RequiredFailureStops` | the REPL runs without a required server (`main.go:174`) |
| | `RequiredFailuresWarned` | of two required servers that fail, main hears of one (`manager.go:105`) |
| | `OptionalFailureWarned` | an optional server fails silently (`manager.go:94`) |
| | `EveryServerStarted` | two writes of `m.servers` meet; an entry is lost, or the runtime ends katty (`manager.go:117`) |
| `FsRaces` (`MCFsTools`) | `CopyKeepsDestination` | a destination that appeared after the check is replaced without `overwrite` (`fs.go:466`) |
| | `PatchKeepsOtherWrites` | a patch writes back what it read, without what others appended (`fs.go:432`) |
| `FsCopySelf` (`MCFsTools`) | `CopyKeepsSource` | a copy onto itself truncates the file before it is read (`fs.go:477`); a copy of a directory into itself, or onto one above it, may write what it has yet to read |
| `FsCopies` (`MCFsTools`) | `FailedCallsChangeNothing` | a copy whose write fails behind the truncation has lost the text that was there (`fs.go:483`), and so have a write and a patch (`fs.go:365`, `432`); a removal that fails has removed a part (`fs.go:591`) |
| | `FailuresAreReported` | `copyDir` does not look at the error of `io.Copy` (`fs.go:534`), copy and move take any error of `os.Stat` for "not there" (`fs.go:466`) |
| | `CopiedCountsFiles` | `copied` leaves out nested directories: the assertion to `float64` fails on an int (`fs.go:515`) |
| | `TreeCopyIsComplete` | files that do not open are passed over, and the result is ok (`fs.go:521`) |
| `FsWalks` (`MCFsTools`) | `GlobDescends` | `**` stands for one name, not for any number of directories (`fs.go:211`) |
| | `GlobTruncatedIffMore` | a glob whose list is just full says that there is more |
| | `SearchSaysTruncated` | neither engine of `fs.search` ever says that it has left anything out |
| | `TruncatedReads` | a negative offset reads from the start and makes the file look longer: `truncated` on a whole file (`fs.go:330`) |
| | `SearchFinds` | ripgrep prints no file name for a single file, and its lines are passed over |
| | `MissingIsError` | list, search and glob of a path that is not there are ok and empty |
| `LifecycleKills` (`Lifecycle`) | `EditsSurvive` | a file saved between a start's look at it and its write is replaced by the default (`startup.go:51`, `main.go:254`) |
| | `StartsFailForEdits` | a start killed between the truncation and the write of `config.json` leaves it empty, and every further start fails on it (`main.go:254`) |
| `LifecycleTwo` (`Lifecycle`) | `StartupFilesRead` | a startup file is read empty or half written into the system context: another start is writing it, or its write was cut short |
| `LifecycleEnds` (`Lifecycle`) | `ExitLeavesNothing` | `/exit` kills registered commands and stops servers, and leaves sessions running |
| | `CommandsEndWithKatty` | the end of the input and the second Ctrl-C in a turn leave its command running (`repl.go:130`) |
| | `WarningIsNoPanic` | without a transcript the first `Log` of a turn, or `/exit`, panics on the nil logger (`main.go:200`) |

## 5. Proofs

All proof modules are checked with SMT, Zenon and LS4 only.

| Theorem | Says, for every value of the constants |
| --- | --- |
| `ReplProofs!TypeCorrect` | `Spec => []TypeOK` |
| `ReplProofs!PromptExact` | `Spec => []PromptIffIdle` |
| `ReplProofs!CancelHandleExact` | `Spec => []CancelReachesTheTurn` |
| `ReplProofs!ConversationImplemented` | `Spec => ImplementsConversation`: every step of `Repl` is a step of `Conversation` or a stutter |
| `ReplProofs!RequestsWellFormed` | `Spec => []RequestsEndWithUser` |
| `ReplProofs!CancelledStaysSilent` | `Spec => SilentOnceCancelled`, an action property, with cancels at any step |
| `ReplProofs!RoundsAreBounded` | `Spec => []RoundsBounded` |
| `ReplProofs!TranscriptComplete` | `Spec => []TranscriptRecordsTurns`, with calls of built-in and other tools |
| `InputQueueProofs!TypeCorrect`, `LinesAreKept` | `Spec => []TypeOK` and `Spec => []LinesKept`, for any channel, any number of lines and signals, and `!` commands that read the same input |
| `ProcExecProofs!TypeCorrect`, `OutputIsSettled`, `RegistryIsComplete`, `KilledAreReported` | the four invariants of `ProcExec`, for any number of commands and of pids |
| `ToolProofs!TargetTypeCorrect`, `TargetOutputIsSettled` | `TargetSpec => []TargetTypeOK` and `TargetSpec => []OutputSettled`, for any number of commands |
| `ToolProofs!FsTypeCorrect` | `Spec => []TypeOK`: the disk is a tree after every step |
| `ToolProofs!FailedCallsLeaveDisk` | `Spec => []FailedCallsContained`: what an error may have changed, for any trees, calls, failures and writes of others |
| `ToolProofs!CallsTell` | `Spec => []OkCallsAreDone`: what each of the twelve file tools does when it says ok, and which of them say ok though the disk failed, for any tree, call and bound |
| `ToolProofs!TreeCopyKeeps` | `Spec => TreeCopyKeepsFiles`, an action property |
| `ToolProofs!TruncatedTells` | `Spec => []TruncatedIffMore`: `ReadSays` (offsets that are not negative), `ListSays` and `GlobSays` (one direction), for any bound, text and tree |
| `SessionProofs!TypeCorrect`, `SendAnswersTruly` | `Spec => []TypeOK`, `Spec => []SendAnswers`, for any pipe and a process that may close its stdin |
| `SessionProofs!SinceIsExact` | `Spec => []SinceIsSuffix`: what the loop of `Since` returns, for a buffer of any size |
| `SessionProofs!NothingIsSkipped` | `Spec => []NothingSkipped`, for any buffer, `max_bytes` and number of lines |
| `McpProofs!TypeCorrect`, `AnswersAreOwn`, `HandshakeInOrder` | `Spec => []TypeOK`, `Spec => []AnswerIsOwn`, `Spec => []HandshakeOrder`, for any number of calls and any capacity of the pipes |
| `McpProofs!ReaderGoesOn` | `Spec => []ReaderNeverBlocks`, where the server sends no requests of its own |
| `McpProofs!StartupTypeCorrect`, `StartupReported` | `StartupSpec => []StartupTypeOK`, `StartupSpec => []StartupIsReported`, for any set of servers |
| `LifecycleProofs!TypeCorrect` | `Spec => []TypeOK` |
| `LifecycleProofs!DamageExplained`, `ReplacesOnlyWhenOvertaken` | `Spec => []DamageIsFromCutWrites` and the action property `OnlyStaleLooksReplace`, for any number of terminals and starts, with kills, edits and failing writes at any moment |

*Assumptions.* The named assumptions of the modules on their constants
(`ReplAssumption`, `ProcessAssumption`, `CapAssumption`, `SessionAssumption`,
`McpAssumption`, `StartupAssumption`, `FsAssumption`, `LifecycleAssumption`):
types, and bounds that are naturals. In `FsAssumption` a disk that a call may find
is a tree, and the arguments have the types of the tools' schemas; a bound is
positive because the code takes its default for any other. One theorem assumes
more, since it is false without it: `ReaderGoesOn` assumes `~ServerRequests`. A server
that sends requests of its own under the ids of katty's calls can fill a call's
channel with one, and the answer then waits.

*Recursive functions.* `Selected` (what `SelectSeq` computes, with a set for the
test), which `Repl`, `InputQueue` and `RingBuffer` use to speak of a part of a
sequence, and the loop of `RingBuffer.Since` are recursive functions, and what they
compute is proved for every sequence and every buffer. The library's induction
theorems take an operator, which the provers cannot instantiate; the proofs use
that `<` is well-founded on the naturals, with a set in place of the predicate
(`NaturalsInductively`, `SequencesInductively`). A recursive function is a
`CHOOSE`: that there is one, on the first n numbers, is by the same induction
(`PartsExist`, `LoopExists`), and then it satisfies its equation
(`PartsRecursion`, `SinceIterates`). `SelectedAppend` and `SelectedConcat` are
what the other proofs cite.

*Repl.* `TypeOK` is not inductive alone: `ToolStart` takes the head of `calls`,
so `CallAtHand` (there is a call while one runs) goes with it. The prompt needs
`ShellAlone`: a `!` command, which ends by setting `awaiting_user`, never runs
beside a turn. The refinement maps the history to `messages` up to `base` and
the open turn to the rest; `HistoryInv` says that there is a rest as soon as the
turn has logged its request, and that the turn's number is within its bound. The
lemmas `BeginRefines`, `AppendRefines` and `FinishRefines` take the three kinds of
steps that change `messages`; they rest on facts about `SubSeq` of a longer
sequence, proved once. `LastInv` carries "the last message is not the
assistant's" from wherever the loop appended it to the next request.
`RoundsBounded` counts replies in a history that also shrinks, so `RoundInv`
counts them against `round` at every place of the loop (`RepliesPerRound`), and
says that no message is of a later turn (`TurnsInOrder`), which gives a new turn
the count zero. `SilentOnceCancelled` needs no invariant but the types and that a
rollback never lengthens the history (`HistoryInv`): every look at the context is a
step that a cancelled turn cannot take. `TranscriptInv` ties the transcript to the history, both seen as what
`Selected` leaves of them for one turn: they are equal while the turn is open,
except that a call's result is logged before it is appended, and the transcript
keeps what a rollback cuts off, so that afterwards the history is its beginning.

*InputQueue.* `LinesKept` compares the lines typed, less those `!` commands have
read, with what was served, what is in the channel, in `readInput`'s hand, in its
buffer and still at the terminal; `HandIsSent` and `EndIsLast` say what is in a
goroutine's hand and that the end of the input is behind every line.

*ProcExec.* `Inv` is `TypeOK` and, per command, `CmdInv`: how the leader, the
waiting goroutine, the call's phase and its result go together. `OutputSettled`
alone is not inductive: it needs that a call returns only after the waiting
goroutine has sent, and that this goroutine sends only when the output pipe is
closed. `AllTracked`, for `RegistryComplete`, says it of every command whose leader
is not reaped, with the one exception: a command of the same pid that is over has
removed the entry. *TargetExec* has its own `CmdInv`, over the same processes: a call that has
returned has been behind `cmd.Wait`, if it had started its command. (The names of its
specification begin with `Target`, so that one module can be about it and
`FsTools`.)

*FsTools.* `FsInv` has the disk a tree, which rests on what the steps may do: a
file is put only where one was or in a directory (`HasPlace`), `MkdirAll` meets no
file, and a rename moves a whole directory to a place that is not below it, so
that what was in it is in it again (`TargetFront`, `RenameTree`). `Holds` says that
a file a handler has open is still a file. `FailedCallsContained` rests on `Contained`,
which says at every place of a handler that it has touched only what `MayTouch` lets
it, and removed nothing before it returns, and on `Fresh`: up to the truncation a
handler has touched nothing, and behind it no step of it fails if the disk does
not, but for `MayLeave`, copyDir and `os.MkdirAll`. A step whose system call
fails (`DiskFails`) is taken apart by what it leaves behind (`FailureIs`). For
`TruncatedIffMore`,
`ListWalk` says that the entries the walk has found and what is below those it has
yet to visit part what there is to find (`Parted`): a visit keeps that whatever the
order (`VisitParted`), and an entry that is visited with the list full is one
more than the bound. `ReadGrown` says that a file is not shorter than its size at
`Stat`. `CutInv`, with both, was checked with TLC on the constants of `FsTools.cfg`
before it was proved. `GlobSays` follows from what `WalkTells` (below) has of a walk
that ends with room left.

`OkCallsAreDone` speaks of the end of a call only; `TellInv` says at every place of a
handler how far it has come, as long as nobody else writes and the disk does not
fail, and that a call that goes on behind a failure is of one of the tools of
`PassesOver`. `Untouched`: up to
its first change the disk is the one the call found. `WriteTells` and
`FileCopyTells`: an opened file is there and empty, the directories above it are
made, all else is as it was, so that one more write gives what the tool promises.
`WalkTells`: what `search` and `glob` have yet to visit and what they have found part
what there is to find (`Split`), or they have found as many as they may; a walk
that ends with room left has found all, and one that stops is exactly full.
`TreeCopyTells` is for `copyDir`. Its activations are one below the other, and no
entry one of them has yet to come to is above the directory of one that runs
(`Stacked`); the paths below no such entry are what it is past (`Done`); the disk is
the one the call found with exactly those copied (`TreeCopied`), but for the text of
the file in hand (`Streamed`). Entering a directory adds it to `Done`, copying or
passing over a file adds the file, a nested call moves an entry from one
activation to a new one, and the return of an activation with nothing left adds
nothing (`DirCopied`, `FileCopied`, `FilePassed`, `StackPushed`, `StackPopped`). This needs that the
copy does not change what it has yet to read, nor read what it wrote: `CopyApart`,
that neither path lies in the other (`CopyIsApart`). A file that cannot be
read, one that may not be written, and one whose destination is too deep are
passed over, as the code passes over every file that does not open. `TellInv` was
checked with TLC on the constants of `FsTools.cfg` and on deeper trees before it was
proved; it was a tree of three levels that showed what `Stacked` has to say.

*Session.* The flag that `send` reads is cleared behind the end of the process
or by a stop (`FlagIsBehind`), and the monitor is through only when the process
is gone (`MonitorWaits`); a write fails only of a process that is gone or has closed
its stdin. `SlotsAppended` reads the ring from its oldest slot on:
an append drops the first and adds one at the end, whatever `pos` is.
`LoopHasResult` is the invariant of the loop of `Since`: after i slots it has what
it should return for the lines among them. `NothingSkipped` speaks of a buffer in
which nothing was overwritten; that follows from the number of lines written
only with `FreeSlots`, which counts the lines still in the pipes: a line that is
pumped finds the oldest slot free. The invariant (`BufferInv`) was checked with TLC
on the constants of `SessionSafety` before it was proved.

*McpClient.* An answer is traced back to its request: a request is sent once, and
its id is either on its way, heard, or owed an answer (`SentOnce`,
`AnswersAreOwed`); a result in the pipe, in the reader's hand or in the channel
of a call is the answer to a request the server has heard, and a call only takes
one with its own id. `Handshaken` says what `startServer` knows at each of its
places of what the server has heard. The whole invariant was checked with TLC on
the constants of `McpSafety` before it was proved. `AnswersOnce`, for
`ReaderNeverBlocks`, has one place for each answer: the pipe, the reader's hand or
the channel; it holds because the server owes an answer once, and ids are new.

*McpStartup.* `StarterStatus` ties a goroutine's place to its server's status
and error, `WaitedFor` that the warning comes behind `wg.Wait`, and is of one
required server whose error was taken from the channel.

*Lifecycle.* `DamageIsFromCutWrites` is inductive with the types. `OnlyStaleLooksReplace`
needs `FoundOrOvertaken`: a start between its look and the end of its write has found
no file, and nobody has saved one since, unless it has been overtaken.

*Model-checked only.* Liveness, in every module: `EveryTurnEnds`, `SteeringRuns`,
`CancelledTurnEnds`; `LinesServed`, `CtrlCServed`; `RegistryDrains`, `LateOnlyForChild`;
`StopEndsProcess`, `EndIsReported`, `SendEnds`; `StartReturns`, `AnswerEndsCall`,
`CancelledCallReturns`, `StartAllReturns`. They rest on fairness, and so on ENABLED, of
which the provers know nothing. Every invariant and every action property
of the runs is a theorem.

## 6. Not modelled

* Slash commands but `/interrupt`, `/tool`, `/kill` and `/exit`: they print.
* The text of prompts, results and the system context; `parseToolCalls` and
  `isDanglingAction` as functions on text (a reply is the set of their outcomes).
* Several sessions at once, which share nothing but the map; `session.start`
  answers `exists` for the name of a stopped one too.
* Symbolic links, file modes but for readability, ripgrep's ignore files,
  removal by others; `target.list`.
* A pid that is used again by a process that is not katty's, which a late signal
  would reach.
* What `config.json` holds, the expansion of its paths; the doctor's report; the
  profiling flags.
* Environment probe, system context, tool registry, OS and network tools: text
  assembled once, or queries of the host without state.
* HTTP: `Chat` is an error, an empty answer, a reply, or the end of its timeout.

## 7. Plan

Done: `Conversation`, `Repl`; `ProcessGroup`, `ProcExec`, `TargetExec`;
`RingBuffer`, `Session`; `McpClient`, `McpStartup`; `InputQueue`; `FsTools`;
`Lifecycle`; proofs about all of them.

Next, extending the model:

1. `parseToolCalls` over token sequences, compared with a reference definition.
2. An abstract specification of a call to a server (asked, answered or given up,
   once) that `McpClient` implements, and one of the queue that `InputQueue`
   implements.
3. `StopAll` and `/exit` against running calls, composed from `McpClient` and
   `Lifecycle`.

Then, proving more: the invariants and action properties of the runs are proved.
What an extension of the model adds is to be proved along with it; the abstract
specifications of 2 by a refinement mapping, as `Conversation` is.
