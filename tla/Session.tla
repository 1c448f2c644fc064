------------------------------ MODULE Session ------------------------------
(***************************************************************************)
(* A session of internal/builtin/session.go: katty.session.start, send,    *)
(* read and stop, the two goroutines that move the process's output into   *)
(* the ring buffer, and the one in cmd.Wait, which closes the pipes.  The  *)
(* tool calls come one after the other from the turn, and a send may wait; *)
(* the goroutines run on between them.                                     *)
(***************************************************************************)
EXTENDS RingBuffer, FiniteSets

CONSTANTS
  MaxLines,     \* bound: lines the process writes
  MaxBytes,     \* the max_bytes of a read, in lines
  MaxInput,     \* bound: the input of a send, in writes
  StdinCap,     \* the writes the stdin pipe has room for
  BlankLines,   \* the process may write blank lines
  LongLines,    \* it may write lines too long for a bufio.Scanner
  IgnoresStop   \* the process may survive the signal of a stop

ASSUME SessionAssumption ==
  /\ MaxLines \in Nat
  /\ MaxBytes \in Nat \ {0}
  /\ MaxInput \in Nat \ {0} /\ StdinCap \in Nat \ {0}
  /\ BlankLines \in BOOLEAN /\ LongLines \in BOOLEAN
  /\ IgnoresStop \in BOOLEAN

Streams == {"stdout", "stderr"}
Long == MaxLines + 1

VARIABLES
  process,     \* the process of the session
  running,     \* session.Running
  cancelled,   \* the context of the command
  monitor,     \* the goroutine in cmd.Wait: "none", "waiting" or "done"
  pipe,        \* per stream, the lines written and not read yet
  pump,        \* per stream, the goroutine that reads it
  buffer,      \* session.buffer
  written,     \* the number of lines the process has written
  cursor,      \* the seq the last read returned, the since_seq of the next
  seen,        \* the lines the reads have returned
  open,        \* the process, or a child of it, has its stdin open
  stdin,       \* the number of writes in the stdin pipe
  left,        \* those a send has still to make
  sent         \* the send: "none", "writing", or how the last one ended

output == <<pipe, pump, buffer, written>>
reader == <<cursor, seen>>
input == <<open, stdin, left, sent>>
vars == <<process, running, cancelled, monitor, output, reader, input>>

TypeOK ==
  /\ process \in {"none", "alive", "zombie", "gone"}
  /\ running \in BOOLEAN
  /\ cancelled \in BOOLEAN
  /\ monitor \in {"none", "waiting", "done"}
  /\ pipe \in [Streams -> Seq(0 .. Long)]
  /\ pump \in [Streams -> {"none", "reading", "done"}]
  /\ buffer \in [data : [0 .. Cap - 1 -> 0 .. MaxLines], pos : 0 .. Cap - 1]
  /\ written \in 0 .. MaxLines
  /\ cursor \in Nat
  /\ seen \subseteq 1 .. MaxLines
  /\ open \in BOOLEAN /\ stdin \in 0 .. StdinCap /\ left \in 0 .. MaxInput
  /\ sent \in {"none", "writing", "ok", "io_error", "stopped"}

Init ==
  /\ process = "none"
  /\ running = FALSE
  /\ cancelled = FALSE
  /\ monitor = "none"
  /\ pipe = [s \in Streams |-> <<>>]
  /\ pump = [s \in Streams |-> "none"]
  /\ buffer = newRingBuffer
  /\ written = 0
  /\ cursor = 0
  /\ seen = {}
  /\ open = FALSE /\ stdin = 0 /\ left = 0 /\ sent = "none"

\* sessionMgr knows the session once its process has started.
registered == process # "none"

\* No other tool runs while a send waits.
callable == registered /\ sent # "writing"

-----------------------------------------------------------------------------
(* The tools.                                                              *)

\* session.start: the process and its three goroutines, then the registration.
Start ==
  /\ process = "none"
  /\ process' = "alive"
  /\ running' = TRUE
  /\ monitor' = "waiting"
  /\ pump' = [s \in Streams |-> "reading"]
  /\ open' = TRUE
  /\ UNCHANGED <<cancelled, pipe, buffer, written, reader, stdin, left, sent>>

\* session.read with since_seq at the cursor of the read before.
Read ==
  /\ callable
  /\ LET answer == Since(buffer, cursor, MaxBytes)
     IN /\ seen' = seen \cup {answer.lines[i] : i \in DOMAIN answer.lines}
        /\ cursor' = answer.seq
  /\ UNCHANGED <<process, running, cancelled, monitor, output, input>>

\* Fault: a stop that sends the signal and leaves the context alone.
StopWithoutCancel ==
  /\ callable
  /\ \/ process = "alive" /\ process' = "zombie"
     \/ (process = "alive" => IgnoresStop) /\ UNCHANGED process
  /\ running' = FALSE
  /\ UNCHANGED <<cancelled, monitor, output, reader, input>>

\* session.stop: the context, the signal to the group, and the flag.
Stop ==
  /\ callable
  /\ cancelled' = TRUE
  /\ \/ process = "alive" /\ process' = "zombie"
     \/ (process = "alive" => IgnoresStop) /\ UNCHANGED process
  /\ running' = FALSE
  /\ UNCHANGED <<monitor, output, reader, input>>

\* session.send looks at the flag, and writes its input to the pipe.
Send(n) ==
  /\ callable
  /\ \/ running /\ left' = n /\ sent' = "writing"
     \/ ~running /\ sent' = "stopped" /\ UNCHANGED left
  /\ UNCHANGED <<process, running, cancelled, monitor, output, reader, open, stdin>>

\* A write for which the pipe has room; the process or a child of it may read.
SendWrites ==
  /\ sent = "writing"
  /\ process # "gone" /\ open /\ stdin < StdinCap
  /\ stdin' = stdin + 1
  /\ left' = left - 1
  /\ sent' = IF left = 1 THEN "ok" ELSE "writing"
  /\ UNCHANGED <<process, running, cancelled, monitor, output, reader, open>>

\* Fault: a write that failed is tried again.
SendRetries == sent = "writing" /\ (process # "alive" \/ ~open) /\ UNCHANGED vars

\* Nobody has the other end open any more, or cmd.Wait has closed this one.
SendFails ==
  /\ sent = "writing"
  /\ process # "alive" \/ ~open
  /\ left' = 0 /\ sent' = "io_error"
  /\ UNCHANGED <<process, running, cancelled, monitor, output, reader, open, stdin>>

-----------------------------------------------------------------------------
(* The process and the goroutines.                                         *)

\* The process reads its input, or does not.
TakesInput ==
  /\ process = "alive"
  /\ stdin > 0
  /\ stdin' = stdin - 1
  /\ UNCHANGED <<process, running, cancelled, monitor, output, reader, open, left, sent>>

\* It closes its stdin and runs on; what the pipe holds is gone.
ClosesInput ==
  /\ process = "alive" /\ open
  /\ open' = FALSE /\ stdin' = 0
  /\ UNCHANGED <<process, running, cancelled, monitor, output, reader, left, sent>>

\* The process writes a line: blank only on stdout, where it gets no prefix.
Write(s) ==
  /\ process = "alive"
  /\ written < MaxLines
  /\ written' = written + 1
  /\ \/ pipe' = [pipe EXCEPT ![s] = Append(@, written + 1)]
     \/ BlankLines /\ s = "stdout" /\ pipe' = [pipe EXCEPT ![s] = Append(@, Blank)]
     \/ LongLines /\ pipe' = [pipe EXCEPT ![s] = Append(@, Long)]
  /\ UNCHANGED <<process, running, cancelled, monitor, pump, buffer, reader, input>>

Exit ==
  /\ process = "alive"
  /\ process' = "zombie"
  /\ UNCHANGED <<running, cancelled, monitor, output, reader, input>>

\* os/exec kills the process of a cancelled context.
ContextKills ==
  /\ cancelled
  /\ process = "alive"
  /\ process' = "zombie"
  /\ UNCHANGED <<running, cancelled, monitor, output, reader, input>>

\* A line from the pipe into the buffer.
Pump(s) ==
  /\ pump[s] = "reading"
  /\ pipe[s] # <<>> /\ Head(pipe[s]) # Long
  /\ buffer' = Appended(buffer, Head(pipe[s]))
  /\ pipe' = [pipe EXCEPT ![s] = Tail(@)]
  /\ UNCHANGED <<process, running, cancelled, monitor, pump, written, reader, input>>

\* Scan returns false: the end of the stream, or a line that is too long.
PumpEnds(s) ==
  /\ pump[s] = "reading"
  /\ \/ pipe[s] = <<>> /\ process # "alive"
     \/ pipe[s] # <<>> /\ Head(pipe[s]) = Long
  /\ pump' = [pump EXCEPT ![s] = "done"]
  /\ UNCHANGED <<process, running, cancelled, monitor, pipe, buffer, written,
                 reader, input>>

\* cmd.Wait reaps the process and closes our ends of the pipes, whatever they
\* still hold; then the flag.
WaitReturns ==
  /\ monitor = "waiting"
  /\ process = "zombie"
  /\ process' = "gone"
  /\ pipe' = [s \in Streams |-> <<>>]
  /\ monitor' = "done"
  /\ UNCHANGED <<running, cancelled, pump, buffer, written, reader, input>>

\* Fault: only a stop clears the flag.
ClearRunningIfStopped ==
  /\ monitor = "done"
  /\ running /\ cancelled
  /\ running' = FALSE
  /\ UNCHANGED <<process, cancelled, monitor, output, reader, input>>

ClearRunning ==
  /\ monitor = "done"
  /\ running
  /\ running' = FALSE
  /\ UNCHANGED <<process, cancelled, monitor, output, reader, input>>

Goroutines ==
  \/ \E s \in Streams : Pump(s) \/ PumpEnds(s)
  \/ ContextKills
  \/ WaitReturns
  \/ ClearRunning
  \/ SendWrites \/ SendFails

Next ==
  \/ Start \/ Read \/ Stop
  \/ \E n \in 1 .. MaxInput : Send(n)
  \/ \E s \in Streams : Write(s)
  \/ Exit \/ TakesInput \/ ClosesInput
  \/ Goroutines

Spec == Init /\ [][Next]_vars

\* The goroutines are scheduled; the model reads on for as long as it likes.
Fairness ==
  /\ \A s \in Streams : WF_vars(Pump(s) \/ PumpEnds(s))
  /\ WF_vars(ContextKills)
  /\ WF_vars(WaitReturns)
  /\ WF_vars(ClearRunning)
  /\ WF_vars(SendWrites \/ SendFails)

FairSpec == Spec /\ Fairness
\* A process that reads its input, closes it or ends.
ProcessServes == WF_vars(open /\ (TakesInput \/ ClosesInput \/ Exit))

ReadingSpec == FairSpec /\ WF_vars(Read)

-----------------------------------------------------------------------------
(* Properties.                                                             *)

\* As long as nothing was overwritten, the cursor stands behind no line that was
\* not delivered: breaking at max_bytes repeats a line and skips none.
NothingSkipped ==
  LET stored == Stored(buffer)
  IN written <= Cap =>
       /\ cursor <= Len(stored)
       /\ \A i \in 1 .. cursor : stored[i] \in seen

\* What the loop of Since computes is the part of the stored lines behind seq,
\* cut at max_bytes; a cut leaves the cursor on the last line returned.
SinceIsSuffix ==
  \A seq \in 0 .. Cap + 1, max \in 1 .. Cap + 1 :
    LET stored == Stored(buffer)
        behind == IF seq < Len(stored) THEN Len(stored) - seq ELSE 0
        answer == Since(buffer, seq, max)
    IN IF behind >= max
       THEN answer = [lines |-> SubSeq(stored, seq + 1, seq + max), seq |-> seq + max - 1]
       ELSE answer = [lines |-> SubSeq(stored, seq + 1, Len(stored)), seq |-> Len(stored)]

\* A stopped session's process ends even if it ignores the signal: one that is
\* reported as not running does not stay alive.
StopEndsProcess == process = "alive" /\ ~running ~> process = "gone"

\* A session whose process ended is reported as not running.
EndIsReported == process = "zombie" ~> ~running

\* A send is refused as stopped only if the process was told to end or has ended,
\* and fails only if it has ended or has closed its stdin.
SendAnswers ==
  /\ sent = "stopped" => cancelled \/ process # "alive"
  /\ sent = "io_error" => process # "alive" \/ ~open

\* A send returns, if the process reads its input, closes it or ends, whatever the
\* pipe holds and whenever the process is stopped.
SendEnds == ProcessServes => (sent = "writing" ~> sent # "writing")

-----------------------------------------------------------------------------
(* What the repository says and the code does not do.  "Output is buffered *)
(* so the assistant can check progress without losing context"             *)
(* (README.md:162).                                                        *)

\* The last lines of a process are delivered to a reader that keeps reading: they
\* reach the buffer before the pipe is closed.
OutputReachesBuffer ==
  [][\A s \in Streams : pipe[s] # <<>> => pipe'[s] # <<>> \/ buffer' # buffer]_vars

\* A reader that keeps reading gets every line that is in the buffer, with a
\* max_bytes that a line exceeds too.
ReaderAdvances ==
  \A n \in 1 .. MaxLines :
    (\E i \in DOMAIN buffer.data : buffer.data[i] = n)
      ~> n \in seen \/ ~(\E i \in DOMAIN buffer.data : buffer.data[i] = n)

\* A reader whose cursor is the end of the buffer is told of the next line even
\* when the buffer is full.
NewLinesAreNew ==
  [][\A s \in Streams :
       Pump(s) /\ Head(pipe[s]) # Blank /\ cursor >= Len(Stored(buffer))
         => Since(buffer', cursor, Cap + 1).lines # <<>>]_vars

\* A send returns whatever the process does: not so, the write waits for room
\* and looks at no context.
SendReturns == sent = "writing" ~> sent # "writing"

\* What the process writes is read: not so behind a line of more than 64 KB, at
\* which the goroutine ends.
PipesDrain == \A s \in Streams : pipe[s] # <<>> ~> pipe[s] = <<>>
=============================================================================
