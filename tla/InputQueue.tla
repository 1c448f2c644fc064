----------------------------- MODULE InputQueue -----------------------------
(***************************************************************************)
(* How input reaches the REPL: readInput and the signal goroutine of Run,  *)
(* in internal/repl/repl.go, the event channel they share, and the loop    *)
(* that takes its events one by one.  Repl takes the events as they come;  *)
(* here they wait, while main runs a "!" command above all.  Such a command*)
(* has katty's own input, and takes from it what r.reader has not buffered.*)
(***************************************************************************)
EXTENDS Naturals, SequencesExt, Selection

CONSTANTS
  Capacity,      \* of the event channel
  SigCapacity,   \* of sigCh
  Kinds,         \* the kinds of lines that are typed
  MaxLines,      \* bound: lines typed
  MaxPresses     \* bound: Ctrl-Cs

ASSUME QueueAssumption ==
  /\ Capacity \in Nat \ {0} /\ SigCapacity \in Nat \ {0}
  /\ Kinds \subseteq {"text", "!", "/interrupt", "/exit"}
  /\ MaxLines \in Nat /\ MaxPresses \in Nat

VARIABLES
  typed,     \* the lines typed, less what a "!" command has read of them
  closed,    \* the end of the input was typed
  rest,      \* the text after the last newline: none, typed or dropped
  stdin,     \* the lines nobody has read
  taken,     \* how many lines "!" commands have read
  buffer,    \* the lines in r.reader's buffer
  reader,    \* readInput: at ReadString, at the send, or gone
  hand,      \* what it is sending
  sig,       \* how many signals are in sigCh
  forward,   \* the signal goroutine: at its channel, or at the send of one
  events,    \* the event channel
  main,      \* Run: at its select, in a "!" command, or why it ended
  turn,      \* no turn, one that runs, or one that drains
  steered,   \* pendingSteer is set
  recent,    \* lastCtrlC is less than two seconds ago
  served,    \* the lines main has taken
  ran,       \* a "!" command has run: it, or a child it left, may read
  presses,   \* the Ctrl-Cs so far
  pressed,   \* the last of them is less than two seconds ago
  rapid      \* two of them were typed within two seconds

userVars == <<closed, presses, pressed, rapid>>
inputVars == <<typed, stdin, taken, rest>>
readerVars == <<reader, hand, buffer>>
signalVars == <<sig, forward>>
mainVars == <<main, turn, steered, recent, served, ran>>
vars == <<userVars, inputVars, readerVars, signalVars, events, mainVars>>

Running == {"select", "shell"}
Gone == main \notin Running

TypeOK ==
  /\ typed \in Seq(Kinds) /\ stdin \in Seq(Kinds) /\ buffer \in Seq(Kinds)
  /\ served \in Seq(Kinds) /\ taken \in Nat
  /\ rest \in {"none", "typed", "dropped"}
  /\ reader \in {"read", "send", "gone"}
  /\ hand \in Kinds \cup {"none", "eof"}
  /\ sig \in 0..SigCapacity /\ presses \in 0..MaxPresses
  /\ events \in Seq(Kinds \cup {"ctrl-c", "eof"}) /\ Len(events) <= Capacity
  /\ main \in Running \cup {"ended by eof", "ended by double", "ended by exit"}
  /\ turn \in {"none", "runs", "drains"}
  /\ forward \in {"wait", "send"}
  /\ {closed, steered, recent, pressed, rapid, ran} \subseteq BOOLEAN

Init ==
  /\ typed = <<>> /\ stdin = <<>> /\ buffer = <<>> /\ served = <<>> /\ events = <<>>
  /\ taken = 0 /\ rest = "none" /\ ran = FALSE
  /\ reader = "read" /\ hand = "none"
  /\ sig = 0 /\ presses = 0
  /\ main = "select" /\ turn = "none"
  /\ forward = "wait"
  /\ closed = FALSE /\ steered = FALSE /\ recent = FALSE
  /\ pressed = FALSE /\ rapid = FALSE

-----------------------------------------------------------------------------
\* The user, at the terminal.
TypeLine(kind) ==
  /\ ~Gone /\ ~closed /\ Len(typed) + taken < MaxLines
  /\ typed' = Append(typed, kind)
  /\ stdin' = Append(stdin, kind)
  /\ UNCHANGED <<userVars, taken, rest, readerVars, signalVars, events, mainVars>>

\* The end of the input, perhaps behind text without a newline.
TypeEnd ==
  /\ ~Gone /\ ~closed
  /\ closed' = TRUE
  /\ rest' \in {"none", "typed"}
  /\ UNCHANGED <<presses, pressed, rapid, typed, stdin, taken, readerVars,
                 signalVars, events, mainVars>>

\* signal.Notify drops a signal when sigCh is full.  A "!" command does not
\* get it: Setpgid has taken it out of the terminal's process group.
PressCtrlC ==
  /\ ~Gone /\ presses < MaxPresses
  /\ presses' = presses + 1
  /\ pressed' = TRUE
  /\ rapid' = (rapid \/ pressed)
  /\ sig' = Min({sig + 1, SigCapacity})
  /\ UNCHANGED <<closed, inputVars, readerVars, forward, events, mainVars>>

\* Two seconds without a Ctrl-C, typed or handled.
Pause ==
  /\ pressed \/ recent
  /\ pressed' = FALSE /\ recent' = FALSE
  /\ UNCHANGED <<closed, presses, rapid, inputVars, readerVars, signalVars, events,
                 main, turn, steered, served, ran>>

-----------------------------------------------------------------------------
Room == Len(events) < Capacity

\* r.reader reads: one line from a terminal, as many as fit from a pipe.
Fill ==
  /\ reader = "read" /\ buffer = <<>> /\ ~Gone
  /\ \E n \in 1 .. Len(stdin) :
       /\ buffer' = SubSeq(stdin, 1, n)
       /\ stdin' = SubSeq(stdin, n + 1, Len(stdin))
  /\ UNCHANGED <<userVars, typed, taken, rest, reader, hand, signalVars, events,
                 mainVars>>

\* ReadString returns a line, or an error with the text before the end, which
\* readInput does not look at.
ReadLine ==
  /\ buffer # <<>>
  /\ hand' = Head(buffer) /\ buffer' = Tail(buffer)
  /\ UNCHANGED rest

ReadEnd ==
  /\ buffer = <<>> /\ stdin = <<>> /\ closed
  /\ hand' = "eof"
  /\ rest' = IF rest = "typed" THEN "dropped" ELSE rest
  /\ UNCHANGED buffer

Read ==
  /\ reader = "read" /\ ~Gone
  /\ ReadLine \/ ReadEnd
  /\ reader' = "send"
  /\ UNCHANGED <<userVars, typed, stdin, taken, signalVars, events, mainVars>>

\* A "!" command reads of the next line all or a part, whose remainder is a line
\* of any kind, or the text after the last.
TakeWhole == {Tail(stdin)}
TakePart == {<<kind>> \o Tail(stdin) : kind \in Kinds}

ShellReads ==
  /\ ran /\ ~Gone
  /\ \/ /\ stdin # <<>>
        /\ stdin' \in TakeWhole \cup TakePart
        /\ typed' = SubSeq(typed, 1, Len(typed) - Len(stdin)) \o stdin'
        /\ taken' = taken + (Len(stdin) - Len(stdin'))
        /\ UNCHANGED rest
     \/ /\ stdin = <<>> /\ rest = "typed"
        /\ rest' = "none"
        /\ UNCHANGED <<typed, stdin, taken>>
  /\ UNCHANGED <<userVars, readerVars, signalVars, events, mainVars>>

\* Fault: the reader ends with its first line.
SendOnce ==
  /\ reader = "send" /\ ~Gone /\ Room
  /\ events' = Append(events, hand)
  /\ hand' = "none"
  /\ reader' = "gone"
  /\ UNCHANGED <<userVars, inputVars, buffer, signalVars, mainVars>>

\* Fault: the end has a channel of its own, and overtakes the lines before it.
SendEndFirst ==
  /\ reader = "send" /\ ~Gone /\ (Room \/ hand = "eof")
  /\ events' = IF hand = "eof" THEN <<hand>> \o events ELSE Append(events, hand)
  /\ hand' = "none"
  /\ reader' = IF hand = "eof" THEN "gone" ELSE "read"
  /\ UNCHANGED <<userVars, inputVars, buffer, signalVars, mainVars>>

Send ==
  /\ reader = "send" /\ ~Gone /\ Room
  /\ events' = Append(events, hand)
  /\ hand' = "none"
  /\ reader' = IF hand = "eof" THEN "gone" ELSE "read"
  /\ UNCHANGED <<userVars, inputVars, buffer, signalVars, mainVars>>

ForwardTake ==
  /\ forward = "wait" /\ sig > 0 /\ ~Gone
  /\ forward' = "send" /\ sig' = sig - 1
  /\ UNCHANGED <<userVars, inputVars, readerVars, events, mainVars>>

\* Fault: the goroutine ends with its first signal.
ForwardOnce ==
  /\ forward = "send" /\ ~Gone /\ Room
  /\ forward' = "gone"
  /\ events' = Append(events, "ctrl-c")
  /\ UNCHANGED <<userVars, inputVars, readerVars, sig, mainVars>>

ForwardSend ==
  /\ forward = "send" /\ ~Gone /\ Room
  /\ forward' = "wait"
  /\ events' = Append(events, "ctrl-c")
  /\ UNCHANGED <<userVars, inputVars, readerVars, sig, mainVars>>

-----------------------------------------------------------------------------
\* Main takes an event.
Take(kind) ==
  /\ main = "select" /\ events # <<>> /\ Head(events) = kind
  /\ events' = Tail(events)
  /\ served' = IF kind \in Kinds THEN Append(served, kind) ELSE served
  /\ ran' = (ran \/ (kind = "!" /\ turn = "none"))
  /\ UNCHANGED <<userVars, inputVars, readerVars, signalVars>>

\* handleCtrlC.
HandleCtrlC ==
  \/ recent /\ main' = "ended by double" /\ UNCHANGED <<turn, steered, recent>>
  \/ /\ ~recent /\ recent' = TRUE
     /\ turn' = IF turn = "none" THEN "none" ELSE "drains"
     /\ UNCHANGED <<main, steered>>

TakeEnd ==
  /\ Take("eof")
  /\ main' = "ended by eof"
  /\ UNCHANGED <<turn, steered, recent>>

TakeCtrlC == Take("ctrl-c") /\ HandleCtrlC

TakeInterrupt ==
  /\ Take("/interrupt")
  /\ \/ turn # "drains" /\ HandleCtrlC
     \/ turn = "drains" /\ UNCHANGED <<main, turn, steered, recent>>

TakeExit ==
  /\ Take("/exit")
  /\ main' = IF turn = "none" THEN "ended by exit" ELSE main
  /\ UNCHANGED <<turn, steered, recent>>

\* A line that steers: plain text, or any line a turn finds that has no slash.
SteerOrRefuse ==
  /\ turn # "none"
  /\ steered' = (steered \/ turn = "runs")
  /\ turn' = "drains"
  /\ UNCHANGED <<main, recent>>

TakeText ==
  /\ Take("text")
  /\ \/ turn = "none" /\ turn' = "runs" /\ UNCHANGED <<main, steered, recent>>
     \/ SteerOrRefuse

TakeShell ==
  /\ Take("!")
  /\ \/ turn = "none" /\ main' = "shell" /\ UNCHANGED <<turn, steered, recent>>
     \/ SteerOrRefuse

\* The end of a "!" command, and of a turn.
ShellEnds ==
  /\ main = "shell" /\ main' = "select"
  /\ UNCHANGED <<userVars, inputVars, readerVars, signalVars, events, turn, steered,
                 recent, served, ran>>

TurnEnds ==
  /\ main = "select" /\ turn # "none"
  /\ turn' = IF steered THEN "runs" ELSE "none"
  /\ steered' = FALSE
  /\ UNCHANGED <<userVars, inputVars, readerVars, signalVars, events, main, recent,
                 served, ran>>

TakeEvent ==
  TakeEnd \/ TakeCtrlC \/ TakeInterrupt \/ TakeExit \/ TakeText \/ TakeShell

Next ==
  \/ \E kind \in Kinds : TypeLine(kind)
  \/ TypeEnd \/ PressCtrlC \/ Pause
  \/ Fill \/ Read \/ Send \/ ShellReads \/ ForwardTake \/ ForwardSend
  \/ TakeEvent \/ ShellEnds \/ TurnEnds

Spec == Init /\ [][Next]_vars

\* The goroutines run, and the senders that wait for room get it in turn, as
\* they do in Go; nothing makes a "!" command end, or read.
GoroutinesRun ==
  /\ WF_vars(Fill) /\ WF_vars(Read) /\ SF_vars(Send)
  /\ WF_vars(ForwardTake) /\ SF_vars(ForwardSend)
  /\ WF_vars(TakeEvent) /\ WF_vars(TurnEnds)

FairSpec == Spec /\ GoroutinesRun

\* "!" commands that end.
EndingSpec == FairSpec /\ WF_vars(ShellEnds)

-----------------------------------------------------------------------------
IsLine(event) == event \in Kinds

\* However full the channel is and however long main is away, every line that
\* no "!" command has read is served, in the order typed, or is still on its way,
\* once; and katty does not end by the end of its input with such a line
\* unserved.  Text after the last newline is no line: see RestServed.
LinesKept ==
  /\ typed = served \o Selected(events, Kinds)
             \o (IF IsLine(hand) THEN <<hand>> ELSE <<>>) \o (buffer \o stdin)
  /\ main = "ended by eof" => served = typed

\* If "!" commands end, every line is served in the end, or read by one of them,
\* unless katty ends.
LinesServed ==
  \A n \in 1..MaxLines :
    Len(typed) + taken >= n ~> (Len(served) + taken >= n \/ Gone)

\* And so is every Ctrl-C that was not dropped: none waits for good.
CtrlCWaits == sig > 0 \/ forward = "send" \/ \E i \in DOMAIN events : events[i] = "ctrl-c"
CtrlCServed == CtrlCWaits ~> (~CtrlCWaits \/ Gone)

-----------------------------------------------------------------------------
(* What the code does not do, some of it what the repository says.         *)

\* A Ctrl-C during a "!" command ends it, which runShellPassthrough's wait for
\* its context is for: not so, main would have to take the event.
CtrlCEndsShell == main = "shell" /\ CtrlCWaits ~> main # "shell"

\* What is typed goes to katty: not so, a "!" command takes lines, and parts of
\* lines, that it was not meant to have.
InputIsKattys == taken = 0

\* The last line counts without its newline: not so, ReadString returns it along
\* with the error, and readInput drops it.
RestServed == rest # "dropped"

\* Only a double Ctrl-C ends katty as one: not so, two that wait while a "!"
\* command runs are served at once, whenever they were typed.
DoubleWasTyped == main = "ended by double" /\ "/interrupt" \notin Kinds => rapid
=============================================================================
