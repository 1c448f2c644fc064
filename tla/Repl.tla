-------------------------------- MODULE Repl --------------------------------
(***************************************************************************)
(* The REPL of internal/repl/repl.go: the main goroutine that reads user   *)
(* events and the one goroutine a turn runs in.  They share r.state and    *)
(* r.turnCancel under r.mu, and r.messages with no lock at all.            *)
(*                                                                         *)
(* A step of a goroutine is the code between two points where the other    *)
(* one can be observed: a locked access, a blocking call, a channel        *)
(* operation.  The wording of messages is abstracted to their kind and the *)
(* turn they belong to; what the model service answers and what a tool     *)
(* prints are choices.                                                     *)
(***************************************************************************)
EXTENDS Integers, Sequences, FiniteSets, Selection

CONSTANTS
  Lines,                \* the lines a user types, blank ones and commands aside
  ShellLines,           \* the lines that begin with "!"
  DisplayOnly,          \* the lines isDisplayOnlyRequest holds for
  NoLine,               \* the empty pendingSteer
  MaxToolRounds,        \* cfg.Tooling.MaxToolRounds
  TerminalPassthrough,  \* cfg.Output.TerminalPassthrough
  Calls,                \* the tool calls a reply may hold, see Call
  MaxCalls,             \* bound: tool calls in one reply
  MaxTurns              \* bound: turns in one session

\* A parsed tool call: whether a built-in handles it, and its "final" flag.
Call == [builtin : BOOLEAN, final : BOOLEAN]

ASSUME ReplAssumption ==
  /\ ShellLines \subseteq Lines
  /\ DisplayOnly \subseteq Lines
  /\ NoLine \notin Lines
  /\ MaxToolRounds \in Int
  /\ TerminalPassthrough \in BOOLEAN
  /\ Calls \subseteq Call
  /\ MaxCalls \in Nat
  /\ MaxTurns \in Nat

VARIABLES
  \* the main goroutine
  running,       \* r.running: the process is alive
  mainPc,        \* where the main goroutine is
  pendingSteer,  \* the line that starts the next turn
  ctrlCRecent,   \* less than two seconds since r.lastCtrlC
  \* shared
  state,         \* r.state
  turnCancel,    \* r.turnCancel is not nil
  cause,         \* the cause the turn's context was cancelled with
  messages,      \* r.messages
  transcript,    \* the lines of the transcript file
  \* the turn's goroutine
  pc,            \* where the turn is, "none" without one
  turn,          \* turns started so far, the number of the last one
  input,         \* the line that started it
  base,          \* baseMsgLen
  round,         \* the round of the tool loop
  calls,         \* the calls of the last reply still to be executed
  outcome        \* what runToolLoop returns

mainVars == <<running, mainPc, pendingSteer, ctrlCRecent>>
loopVars == <<base, round, calls, outcome>>
vars == <<mainVars, state, turnCancel, cause, messages, transcript,
          pc, turn, input, loopVars>>

-----------------------------------------------------------------------------
States == {"awaiting_user", "assistant_running", "tool_running", "draining"}
Causes == {"none", "user_interrupt", "steering"}
MessageKinds ==
  {"system", "user", "assistant", "control", "tool_result", "tombstone",
   "other_result", "other_tombstone"}    \* the other tools are no built-ins
Message == [kind : MessageKinds, turn : Nat]
Entry == [kind : {"user", "assistant", "tool"}, turn : Nat]
MainPcs == {"select", "interrupting", "steering", "shell"}
TurnPcs == {"none", "begin", "arm", "round", "request", "chat", "reply",
            "tool", "start", "exec", "result", "return", "done"}

\* The turn has appended its request and its result was not yet received.
InTurn == pc \notin {"none", "begin"}

maxRounds == IF MaxToolRounds <= 0 THEN 5 ELSE MaxToolRounds

\* A message of the turn in progress, and a line of the transcript about it.
Msg(kind) == [kind |-> kind, turn |-> turn]
Logged(kind) == Append(transcript, [kind |-> kind, turn |-> turn])

\* Fault: the turn's request is kept when the turn is undone.
RolledBackPastRequest(msgs, length) ==
  IF length < 0 \/ length + 1 > Len(msgs) THEN msgs ELSE SubSeq(msgs, 1, length + 1)

\* rollbackMessages: a length out of range leaves the messages alone.
RolledBack(msgs, length) ==
  IF length < 0 \/ length > Len(msgs) THEN msgs ELSE SubSeq(msgs, 1, length)

Init ==
  /\ running = TRUE
  /\ mainPc = "select"
  /\ pendingSteer = NoLine
  /\ ctrlCRecent = FALSE
  /\ state = "awaiting_user"
  /\ turnCancel = FALSE
  /\ cause = "none"
  /\ messages = <<[kind |-> "system", turn |-> 0]>>
  /\ transcript = <<>>
  /\ pc = "none"
  /\ turn = 0
  /\ input = NoLine
  /\ base = 0
  /\ round = 0
  /\ calls = <<>>
  /\ outcome = "none"

-----------------------------------------------------------------------------
(* The main goroutine.  In Run's select it takes a user event or the       *)
(* result of the turn, whichever it likes when both are ready.             *)

Selecting == running /\ mainPc = "select"

turnVars == <<messages, transcript, loopVars>>

\* startTurn: the goroutine exists, and has not run yet.
StartTurn(line) ==
  /\ pc' = "begin"
  /\ turn' = turn + 1
  /\ input' = line
  /\ state' = "assistant_running"

\* A line typed at the prompt opens a turn.
PromptLine(line) ==
  /\ Selecting
  /\ state = "awaiting_user"
  /\ line \notin ShellLines
  /\ turn < MaxTurns
  /\ StartTurn(line)
  /\ UNCHANGED <<mainVars, turnCancel, cause, turnVars>>

\* "!command" at the prompt: main itself waits for the command, with a cancel
\* function in r.turnCancel that nobody else can call.  The command has katty's
\* input, and what it reads of it main does not get: see InputQueue.
ShellStart(line) ==
  /\ Selecting
  /\ state = "awaiting_user"
  /\ line \in ShellLines
  /\ mainPc' = "shell"
  /\ turnCancel' = TRUE
  /\ state' = "tool_running"
  /\ UNCHANGED <<running, pendingSteer, ctrlCRecent, cause, pc, turn, input, turnVars>>

\* The command ended, or could not be started.
ShellDone ==
  /\ running
  /\ mainPc = "shell"
  /\ mainPc' = "select"
  /\ turnCancel' = FALSE
  /\ state' = "awaiting_user"
  /\ UNCHANGED <<running, pendingSteer, ctrlCRecent, cause, pc, turn, input, turnVars>>

\* A line typed while a turn runs, unless the state says it is being cancelled:
\* it is kept for the next turn and the running one is to be cancelled.
Steer(line) ==
  /\ Selecting
  /\ state \in {"assistant_running", "tool_running"}
  /\ turn < MaxTurns
  /\ pendingSteer' = line
  /\ state' = "draining"
  /\ mainPc' = "steering"
  /\ UNCHANGED <<running, ctrlCRecent, turnCancel, cause, pc, turn, input, turnVars>>

\* Fault: an interrupt returns to the prompt without waiting for the turn.
InterruptToPrompt ==
  /\ Selecting
  /\ ~ctrlCRecent
  /\ ctrlCRecent' = TRUE
  /\ state' = "awaiting_user"
  /\ mainPc' = "interrupting"
  /\ UNCHANGED <<running, pendingSteer, turnCancel, cause, pc, turn, input, turnVars>>

\* handleCtrlC, for a signal or "/interrupt": the second one within two
\* seconds exits.
Interrupt ==
  /\ Selecting
  /\ IF ctrlCRecent
     THEN /\ running' = FALSE
          /\ UNCHANGED <<ctrlCRecent, state, mainPc>>
     ELSE /\ ctrlCRecent' = TRUE
          /\ state' = IF state # "awaiting_user" THEN "draining" ELSE state
          /\ mainPc' = "interrupting"
          /\ UNCHANGED running
  /\ UNCHANGED <<pendingSteer, turnCancel, cause, pc, turn, input, turnVars>>

\* cancelTurn: a turn whose cancel function is not in r.turnCancel goes on.
CancelTurn ==
  /\ running
  /\ mainPc \in {"interrupting", "steering"}
  /\ mainPc' = "select"
  /\ IF turnCancel
     THEN /\ cause' = IF mainPc = "steering" THEN "steering" ELSE "user_interrupt"
          /\ turnCancel' = FALSE
     ELSE UNCHANGED <<cause, turnCancel>>
  /\ UNCHANGED <<running, pendingSteer, ctrlCRecent, state, pc, turn, input, turnVars>>

\* Two seconds have passed since the last Ctrl-C.
CtrlCExpires ==
  /\ running
  /\ ctrlCRecent
  /\ ctrlCRecent' = FALSE
  /\ UNCHANGED <<running, mainPc, pendingSteer, state, turnCancel, cause,
                 pc, turn, input, turnVars>>

\* Fault: back at the prompt, the pending line is left where it is.
TurnFinishedUnsteered ==
  /\ Selecting
  /\ pc = "done"
  /\ messages' = IF outcome # "none" THEN RolledBack(messages, base) ELSE messages
  /\ pc' = "none"
  /\ state' = "awaiting_user"
  /\ UNCHANGED <<running, mainPc, pendingSteer, ctrlCRecent, turnCancel, cause,
                 transcript, turn, input, loopVars>>

\* The result of the turn: undo it if it was cancelled, then the prompt, or the
\* next turn when a line is pending.
TurnFinished ==
  /\ Selecting
  /\ pc = "done"
  /\ messages' = IF outcome # "none" THEN RolledBack(messages, base) ELSE messages
  /\ pendingSteer' = NoLine
  /\ IF pendingSteer # NoLine
     THEN StartTurn(pendingSteer)
     ELSE /\ pc' = "none"
          /\ state' = "awaiting_user"
          /\ UNCHANGED <<turn, input>>
  /\ UNCHANGED <<running, mainPc, ctrlCRecent, turnCancel, cause, transcript, loopVars>>

\* "/exit" at the prompt, and the end of the input at any time, end the process.
Quit ==
  /\ Selecting
  /\ running' = FALSE
  /\ UNCHANGED <<mainPc, pendingSteer, ctrlCRecent, state, turnCancel, cause,
                 pc, turn, input, turnVars>>

Main ==
  \/ \E line \in Lines : PromptLine(line) \/ ShellStart(line) \/ Steer(line)
  \/ ShellDone
  \/ Interrupt
  \/ CancelTurn
  \/ CtrlCExpires
  \/ TurnFinished
  \/ Quit

-----------------------------------------------------------------------------
(* The turn's goroutine.                                                   *)

TurnAt(p) == running /\ pc = p

unchangedByTurn == <<mainVars, turn, input>>

\* runToolLoop returns c.
Return(c) ==
  /\ pc' = "return"
  /\ outcome' = c

\* startTurn's goroutine: remember the length, log the request, append it.
TurnBegin ==
  /\ TurnAt("begin")
  /\ base' = Len(messages)
  /\ transcript' = Logged("user")
  /\ messages' = Append(messages, Msg("user"))
  /\ pc' = "arm"
  /\ UNCHANGED <<unchangedByTurn, state, turnCancel, cause, round, calls, outcome>>

\* runToolLoop makes the context; only now can cancelTurn reach the turn.
TurnArm ==
  /\ TurnAt("arm")
  /\ turnCancel' = TRUE
  /\ cause' = "none"
  /\ round' = 0
  /\ calls' = <<>>
  /\ pc' = "round"
  /\ UNCHANGED <<unchangedByTurn, state, messages, transcript, base, outcome>>

\* Fault: one round too many.
RoundCheckLate ==
  /\ TurnAt("round")
  /\ IF round > maxRounds \/ cause # "none"
     THEN Return(IF round > maxRounds THEN "none" ELSE cause)
     ELSE pc' = "request" /\ UNCHANGED outcome
  /\ UNCHANGED <<unchangedByTurn, state, turnCancel, cause, messages, transcript,
                 base, round, calls>>

\* The head of the loop: rounds left, and the context not cancelled.
RoundCheck ==
  /\ TurnAt("round")
  /\ \/ /\ round >= maxRounds
        /\ Return("none")
     \/ /\ round < maxRounds
        /\ cause # "none"
        /\ Return(cause)
     \/ /\ round < maxRounds
        /\ cause = "none"
        /\ pc' = "request"
        /\ UNCHANGED outcome
  /\ UNCHANGED <<unchangedByTurn, state, turnCancel, cause, messages, transcript,
                 base, round, calls>>

\* setState, whatever the main goroutine set it to since the check.
Request ==
  /\ TurnAt("request")
  /\ state' = "assistant_running"
  /\ pc' = "chat"
  /\ UNCHANGED <<unchangedByTurn, turnCancel, cause, messages, transcript, loopVars>>

\* Chat returns an error, or a reply after the cancel: the turn's result is the
\* cause, which is "none" for an error that is only reported.
ChatFails ==
  /\ TurnAt("chat")
  /\ Return(cause)
  /\ UNCHANGED <<unchangedByTurn, state, turnCancel, cause, messages, transcript,
                 base, round, calls>>

\* A reply without choices ends the turn, and is not checked for a cancel.
ChatEmpty ==
  /\ TurnAt("chat")
  /\ Return("none")
  /\ UNCHANGED <<unchangedByTurn, state, turnCancel, cause, messages, transcript,
                 base, round, calls>>

\* A reply has come, and the context is not cancelled: the loop looks at it
\* here, and no more before the reply is in the history.
ChatPasses ==
  /\ TurnAt("chat")
  /\ cause = "none"
  /\ pc' = "reply"
  /\ UNCHANGED <<unchangedByTurn, state, turnCancel, cause, messages, transcript,
                 loopVars>>

\* A plain answer ends the turn.
ChatAnswer ==
  /\ TurnAt("reply")
  /\ transcript' = Logged("assistant")
  /\ messages' = Append(messages, Msg("assistant"))
  /\ Return("none")
  /\ UNCHANGED <<unchangedByTurn, state, turnCancel, cause, base, round, calls>>

\* Fault: the loop goes on after such an answer without a control message.
ChatDanglingSilent ==
  /\ TurnAt("reply")
  /\ transcript' = Logged("assistant")
  /\ messages' = Append(messages, Msg("assistant"))
  /\ round' = round + 1
  /\ pc' = "round"
  /\ UNCHANGED <<unchangedByTurn, state, turnCancel, cause, base, calls, outcome>>

\* An answer that announces an action and holds no call gets a control message.
ChatDangling ==
  /\ TurnAt("reply")
  /\ transcript' = Logged("assistant")
  /\ messages' = messages \o <<Msg("assistant"), Msg("control")>>
  /\ round' = round + 1
  /\ pc' = "round"
  /\ UNCHANGED <<unchangedByTurn, state, turnCancel, cause, base, calls, outcome>>

\* A reply with tool calls.
ChatCalls ==
  /\ TurnAt("reply")
  /\ transcript' = Logged("assistant")
  /\ messages' = Append(messages, Msg("assistant"))
  /\ \E n \in 1 .. MaxCalls : calls' \in [1 .. n -> Calls]
  /\ pc' = "tool"
  /\ UNCHANGED <<unchangedByTurn, state, turnCancel, cause, base, round, outcome>>

\* The next call of the reply, or the next round after the last one.
ToolCheck ==
  /\ TurnAt("tool")
  /\ \/ /\ calls = <<>>
        /\ round' = round + 1
        /\ pc' = "round"
        /\ UNCHANGED outcome
     \/ /\ calls # <<>>
        /\ cause # "none"
        /\ Return(cause)
        /\ UNCHANGED round
     \/ /\ calls # <<>>
        /\ cause = "none"
        /\ pc' = "start"
        /\ UNCHANGED <<outcome, round>>
  /\ UNCHANGED <<unchangedByTurn, state, turnCancel, cause, messages, transcript,
                 base, calls>>

\* setState again, then the tool runs.
ToolStart ==
  /\ TurnAt("start")
  /\ state' = "tool_running"
  /\ pc' = "exec"
  /\ UNCHANGED <<unchangedByTurn, turnCancel, cause, messages, transcript, loopVars>>

isDisplayOnlyRequest(line) == line \in DisplayOnly

\* The user may see the result instead of the model.
ShowsResult ==
  TerminalPassthrough /\ (Head(calls).final \/ isDisplayOnlyRequest(input))

\* Fault: the result the user is shown is not logged.
ToolLoggedUnlessShown ==
  IF Head(calls).builtin /\ ~ShowsResult THEN Logged("tool") ELSE transcript

\* executeTool logs what a built-in returned, nothing for any other tool.
ToolLogged == IF Head(calls).builtin THEN Logged("tool") ELSE transcript

\* The tool returned after the cancel: its result is dropped.
ToolCancelled ==
  /\ TurnAt("exec")
  /\ cause # "none"
  /\ transcript' = ToolLogged
  /\ Return(cause)
  /\ UNCHANGED <<unchangedByTurn, state, turnCancel, cause, messages, base, round, calls>>

\* Fault: the context is not checked after the tool.
ToolPassesUnchecked ==
  /\ TurnAt("exec")
  /\ transcript' = ToolLogged
  /\ pc' = "result"
  /\ UNCHANGED <<unchangedByTurn, state, turnCancel, cause, messages, loopVars>>

\* The tool returned, and the context is not cancelled: the loop looks at it here,
\* and no more before the result is printed and in the history.
ToolPasses ==
  /\ TurnAt("exec")
  /\ cause = "none"
  /\ transcript' = ToolLogged
  /\ pc' = "result"
  /\ UNCHANGED <<unchangedByTurn, state, turnCancel, cause, messages, loopVars>>

\* What the history gets for the call.
ResultKind == IF Head(calls).builtin THEN "tool_result" ELSE "other_result"
TombstoneKind == IF Head(calls).builtin THEN "tombstone" ELSE "other_tombstone"

\* The result was printed, or the call is final: a tombstone, and the turn ends
\* with whatever calls are left.
ToolShown ==
  /\ TurnAt("result")
  /\ ShowsResult
  /\ messages' = Append(messages, Msg(TombstoneKind))
  /\ Return("none")
  /\ UNCHANGED <<unchangedByTurn, state, turnCancel, cause, transcript, base, round, calls>>

\* The result goes to the model: no passthrough, or not printable and not final.
ToolResult ==
  /\ TurnAt("result")
  /\ ShowsResult => ~Head(calls).final
  /\ messages' = Append(messages, Msg(ResultKind))
  /\ calls' = Tail(calls)
  /\ pc' = "tool"
  /\ UNCHANGED <<unchangedByTurn, state, turnCancel, cause, transcript, base, round, outcome>>

\* Fault: the cancel function outlives the turn.
TurnReturnArmed ==
  /\ TurnAt("return")
  /\ pc' = "done"
  /\ UNCHANGED <<unchangedByTurn, state, turnCancel, cause, messages, transcript, loopVars>>

\* Fault: a cancelled turn sends no result.
TurnReturnSilent ==
  /\ TurnAt("return")
  /\ outcome = "none"
  /\ turnCancel' = FALSE
  /\ pc' = "done"
  /\ UNCHANGED <<unchangedByTurn, state, cause, messages, transcript, loopVars>>

\* The deferred calls of runToolLoop, then the result is sent.
TurnReturn ==
  /\ TurnAt("return")
  /\ turnCancel' = FALSE
  /\ pc' = "done"
  /\ UNCHANGED <<unchangedByTurn, state, cause, messages, transcript, loopVars>>

ChatReturns == ChatFails \/ ChatEmpty \/ ChatPasses

ToolReturns == ToolCancelled \/ ToolPasses

TakesReply == ChatAnswer \/ ChatDangling \/ ChatCalls

TakesResult == ToolShown \/ ToolResult

\* The steps the goroutine takes by itself, that wait for nothing.
TurnRuns ==
  \/ TurnBegin \/ TurnArm \/ RoundCheck \/ Request \/ TakesReply
  \/ ToolCheck \/ ToolStart \/ TakesResult \/ TurnReturn

Turn == TurnRuns \/ ChatReturns \/ ToolReturns

\* The process has exited.
Exited == ~running /\ UNCHANGED vars

Next == Main \/ Turn \/ Exited

Spec == Init /\ [][Next]_vars

-----------------------------------------------------------------------------
(* Fairness.  The Go scheduler runs both goroutines; the select of Run     *)
(* picks at random among the channels that are ready, so a result that is  *)
(* ready again and again is received.  Two seconds pass.  Nothing makes a  *)
(* request, a tool or a "!" command return.                                *)

SchedulerFairness ==
  /\ WF_vars(TurnRuns)
  /\ WF_vars(CancelTurn)
  /\ SF_vars(TurnFinished)

FairSpec == Spec /\ SchedulerFairness

\* The model service and the tools answer, as Chat's timeout and the tools' do.
AnswerFairness == WF_vars(ChatReturns) /\ WF_vars(ToolReturns)

\* They may hang, but give up once their context is cancelled.
CancelFairness ==
  /\ WF_vars(cause # "none" /\ ChatReturns)
  /\ WF_vars(cause # "none" /\ ToolReturns)

HangSpec == FairSpec /\ CancelFairness

-----------------------------------------------------------------------------
(* Properties.                                                             *)

\* Every variable holds what its declaration says.
TypeOK ==
  /\ running \in BOOLEAN
  /\ mainPc \in MainPcs
  /\ pendingSteer \in Lines \cup {NoLine}
  /\ ctrlCRecent \in BOOLEAN
  /\ state \in States
  /\ turnCancel \in BOOLEAN
  /\ cause \in Causes
  /\ messages \in Seq(Message)
  /\ transcript \in Seq(Entry)
  /\ pc \in TurnPcs
  /\ turn \in Nat
  /\ input \in Lines \cup {NoLine}
  /\ base \in Nat
  /\ round \in Nat
  /\ calls \in Seq(Calls)
  /\ outcome \in Causes

\* r.state is the only thing main looks at before it takes a line: it says
\* "awaiting_user" exactly when no turn's goroutine is left.  Were it to say so
\* earlier, main and the turn would both write r.messages; later, every line
\* would be refused for good.  No line waits for a turn that is not there.
PromptIffIdle ==
  /\ state = "awaiting_user" <=> pc = "none" /\ mainPc # "shell"
  /\ pendingSteer # NoLine => pc # "none"

\* r.turnCancel cancels the turn in flight, whose context is not cancelled yet,
\* or belongs to the "!" command main waits for: it never outlives its context.
CancelReachesTheTurn ==
  turnCancel =>
    \/ mainPc = "shell" /\ pc = "none"
    \/ pc \notin {"none", "begin", "arm", "done"} /\ cause = "none"

\* What Chat sends ends with a message of the user's role, whichever of the
\* loop's branches appended last.
RequestsEndWithUser ==
  pc = "chat" => messages[Len(messages)].kind \notin {"system", "assistant"}

\* Where the replies of the turn t stand in the history.
Answers(t) == {i \in DOMAIN messages : messages[i].turn = t /\ messages[i].kind = "assistant"}

\* A turn is answered by the model at most maxRounds times, whatever the model
\* replies and however the turn is steered and cancelled.
RoundsBounded == \A t \in 1 .. turn : Cardinality(Answers(t)) <= maxRounds

\* What the turn t left in the history and in the transcript, as kinds of entry.
\* Control messages, and what tools that are no built-ins returned, are never
\* logged, and not looked at here.
HistoryOf(t) ==
  LET kept == Selected(messages,
                [kind : {"user", "assistant", "tool_result", "tombstone"}, turn : {t}])
  IN [i \in DOMAIN kept |->
        IF kept[i].kind \in {"tool_result", "tombstone"} THEN "tool" ELSE kept[i].kind]

TranscriptOf(t) ==
  LET logged == Selected(transcript, [kind : {"user", "assistant", "tool"}, turn : {t}])
  IN [i \in DOMAIN logged |-> logged[i].kind]

\* The transcript records every turn of the history in order: its request, its
\* replies and what its built-in tools returned, each once, and the turn of the
\* history is the beginning of what is logged of it, cancelled or not.  The control
\* messages and the results of other tools are missing: see EveryMessageLogged.
TranscriptRecordsTurns ==
  \A t \in 1 .. turn :
    /\ Len(HistoryOf(t)) <= Len(TranscriptOf(t))
    /\ SubSeq(TranscriptOf(t), 1, Len(HistoryOf(t))) = HistoryOf(t)

\* The conversation as its abstract specification sees it: the turn in progress
\* is what stands behind baseMsgLen.
History == IF InTurn THEN SubSeq(messages, 1, base) ELSE messages
Open == IF InTurn THEN SubSeq(messages, base + 1, Len(messages)) ELSE <<>>

Conversation == INSTANCE Conversation WITH
  SystemMessage <- [kind |-> "system", turn |-> 0],
  Requests <- [kind : {"user"}, turn : 1 .. MaxTurns],
  Replies <- [kind : MessageKinds \ {"system", "user"}, turn : 1 .. MaxTurns],
  history <- History,
  open <- Open

\* The history grows by whole turns, and a turn that is undone leaves no trace in
\* it, however the cancel, the tool loop and the rollback interleave.  Which of the
\* two a cancelled turn meets is the loop's to say: one whose cancel comes behind
\* its last look at the context is kept.
ImplementsConversation == Conversation!Spec

\* The context of the turn in flight is cancelled.
Cancelled == cause # "none" /\ InTurn /\ pc # "arm"

\* What the loop does behind a look at the context.
Passed == {"request", "reply", "start", "result"}

\* A turn whose context is cancelled comes to no further request, tool, reply or
\* result: the one that had passed its look at the context when the cancel came is
\* its last, and only that can still be written to the history.
SilentOnceCancelled ==
  [][Cancelled =>
       /\ pc' \in Passed => pc' = pc
       /\ Len(messages') > Len(messages) => pc \in {"reply", "result"}]_vars

\* If the model and the tools answer, every turn ends: the loop is bounded.
EveryTurnEnds ==
  AnswerFairness =>
    \A t \in 1 .. MaxTurns :
      turn = t /\ pc # "none" ~> pc = "none" \/ turn > t \/ ~running

\* If they do, a line typed while a turn runs starts the next turn, unless another
\* line takes its place.
SteeringRuns ==
  AnswerFairness =>
    \A line \in Lines, t \in 1 .. MaxTurns - 1 :
      pendingSteer = line /\ turn = t
        ~> \/ turn = t + 1 /\ input = line
           \/ pendingSteer \notin {line, NoLine}
           \/ ~running

\* A turn whose context was cancelled ends, unless the request or the tool it is
\* in never returns, which nothing makes it do.
CancelledTurnEnds ==
  Cancelled ~> pc = "done" \/ ~running \/ [](pc \in {"chat", "exec"})

-----------------------------------------------------------------------------
(* What the code does not do, some of it what the repository says.         *)

\* The transcript has a line for every message of the history but the system's:
\* not so, nothing logs the control messages, nor what other tools returned.
EveryMessageLogged ==
  \A t \in 1 .. turn :
    Cardinality({i \in DOMAIN messages : messages[i].turn = t})
      <= Cardinality({i \in DOMAIN transcript : transcript[i].turn = t})

\* "Steering received. Cancelling current turn..." (repl.go:160) and
\* "/interrupt - Cancel current operation" (repl.go:916): once main has handled
\* either, the turn it was meant for ends.
CancelRequestEndsTurn ==
  \A t \in 1 .. MaxTurns :
    turn = t /\ state = "draining" ~> pc = "none" \/ turn > t \/ ~running

\* "Interrupted. Returning to prompt." (repl.go:380): an interrupt leaves no line
\* behind that starts another turn instead.
InterruptReturnsToPrompt ==
  [][mainPc = "interrupting" /\ mainPc' = "select" => pendingSteer' = NoLine]_vars

\* "Still cancelling. Try again after the prompt returns." (repl.go:147): a
\* second line does not replace the one that waits.
SteeringNotReplaced ==
  [][pendingSteer # NoLine => pendingSteer' \in {pendingSteer, NoLine}]_vars

\* "That path bypasses DeepSeek entirely" (README.md:214), of "!" lines.
ShellLinesBypassModel == pc # "none" => input \notin ShellLines

\* "Multiple calls ... parsed and executed sequentially" (README.md): only a
\* final call, a cancel or the end of the reply keeps a call from running.
EveryCallRuns ==
  [][pc = "result" /\ pc' = "return" /\ ~Head(calls).final
       => Len(calls) = 1]_vars
=============================================================================
