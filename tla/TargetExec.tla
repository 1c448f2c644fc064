----------------------------- MODULE TargetExec -----------------------------
(***************************************************************************)
(* The tools of internal/builtin/target.go that run a command: exec, local *)
(* and over ssh, info and ping over ssh and nc, copy_to and copy_from over *)
(* scp (on the local target a copy is FsTools' copy with overwrite).  All  *)
(* of them use exec.CommandContext and cmd.Run.  When the context ends,    *)
(* os/exec kills the process it started and nobody else; Run prefers the   *)
(* exit error of that process to the error of the context.                 *)
(***************************************************************************)
EXTENDS ProcessGroup, Naturals, Sequences

VARIABLES
  tool,    \* the tool that runs the command
  phase,   \* the call is idle, in cmd.Run, or has returned
  ctx,     \* procCtx
  watch,   \* os/exec has killed the process because the context ended
  outcome  \* what the call returned; "ok" with whatever exit code

targetVars == <<tool, processVars, waiter, phase, ctx, watch, outcome>>

TargetTypeOK ==
  /\ ProcessTypeOK
  /\ tool \in [Cmds -> {"exec", "copy", "info", "ping"}]
  /\ phase \in [Cmds -> {"idle", "running", "returned"}]
  /\ ctx \in [Cmds -> {"live", "ended"}]
  /\ watch \in [Cmds -> BOOLEAN]
  /\ outcome \in [Cmds -> {"none", "ok", "exec_error", "timeout"}]

TargetInit ==
  /\ ProcessInit
  /\ tool \in [Cmds -> {"exec", "copy", "info", "ping"}]
  /\ phase = [c \in Cmds |-> "idle"]
  /\ ctx = [c \in Cmds |-> "live"]
  /\ watch = [c \in Cmds |-> FALSE]
  /\ outcome = [c \in Cmds |-> "none"]

ReturnResult(c, r) ==
  /\ phase' = [phase EXCEPT ![c] = "returned"]
  /\ outcome' = [outcome EXCEPT ![c] = r]

\* The timeout passes, or the turn is cancelled, even before the start.
ContextEnds(c) ==
  /\ phase[c] # "returned"
  /\ ctx[c] = "live"
  /\ ctx' = [ctx EXCEPT ![c] = "ended"]
  /\ UNCHANGED <<processVars, waiter, phase, watch, outcome>>

\* cmd.Start fails; it does when the context has already ended.
StartFails(c) ==
  /\ phase[c] = "idle"
  /\ ReturnResult(c, CASE tool[c] = "exec" /\ ctx[c] = "ended" -> "timeout"
                      [] tool[c] \in {"info", "ping"} -> "ok"
                      [] OTHER -> "exec_error")
  /\ UNCHANGED <<processVars, waiter, ctx, watch>>

Start(c) ==
  /\ phase[c] = "idle"
  /\ ctx[c] = "live"
  /\ \E input \in BOOLEAN : (input => tool[c] = "exec") /\ Started(c, input)
  /\ phase' = [phase EXCEPT ![c] = "running"]
  /\ UNCHANGED <<ctx, watch, outcome>>

\* Fault: a command that was not given its context.
WatchIgnores(c) ==
  /\ ctx[c] = "ended"
  /\ ~watch[c]
  /\ waiter[c] = "waiting"
  /\ watch' = [watch EXCEPT ![c] = TRUE]
  /\ UNCHANGED <<processVars, waiter, phase, ctx, outcome>>

\* os/exec's watcher kills the leader while it is not reaped.
WatchKills(c) ==
  /\ ctx[c] = "ended"
  /\ ~watch[c]
  /\ waiter[c] = "waiting"
  /\ watch' = [watch EXCEPT ![c] = TRUE]
  /\ IF leader[c] = "alive"
     THEN /\ leader' = [leader EXCEPT ![c] = "zombie"]
          /\ exit' = [exit EXCEPT ![c] = "killed"]
     ELSE UNCHANGED <<leader, exit>>
  /\ UNCHANGED <<child, inGroup, holds, feeding, waiter, phase, ctx, outcome>>

\* A process that a signal or its own doing ended badly makes an ExitError.
exitError(c) == exit[c] \in {"failure", "killed"}

\* What the tools make of Run's error.  For exec an ExitError is none, and only
\* without one does the error of the context count; for a copy every error is
\* one; info and ping put it into their result.
RunResult(c) ==
  CASE tool[c] = "exec" ->
         IF exitError(c) THEN {"ok"}
         ELSE IF watch[c] THEN {"timeout"}
         ELSE {"ok", IF ctx[c] = "ended" THEN "timeout" ELSE "exec_error"}
    [] tool[c] = "copy" ->
         IF exitError(c) \/ watch[c] THEN {"exec_error"} ELSE {"ok", "exec_error"}
    [] tool[c] \in {"info", "ping"} -> {"ok"}

\* Fault: the call does not wait for Run once its context has ended.
ReceiveEarly(c) ==
  /\ phase[c] = "running"
  /\ waiter[c] = "sent" \/ watch[c]
  /\ \E r \in RunResult(c) :
       /\ ReturnResult(c, r)
       /\ IF r = "timeout" THEN SignalKill({c}) ELSE UNCHANGED processVars
  /\ UNCHANGED <<waiter, ctx, watch>>

\* Run has returned.  killProcessGroup, on a timeout, comes after the leader was
\* reaped.
Receive(c) ==
  /\ phase[c] = "running"
  /\ waiter[c] = "sent"
  /\ \E r \in RunResult(c) :
       /\ ReturnResult(c, r)
       /\ IF r = "timeout" THEN SignalKill({c}) ELSE UNCHANGED processVars
  /\ UNCHANGED <<waiter, ctx, watch>>

Wait(c) == (Reap(c) \/ WaitReturns(c)) /\ UNCHANGED <<phase, ctx, watch, outcome>>

Finished == (\A c \in Cmds : phase[c] = "returned") /\ UNCHANGED targetVars

TargetNext ==
  \/ /\ \/ \E c \in Cmds : \/ ContextEnds(c) \/ StartFails(c) \/ Start(c)
                           \/ WatchKills(c) \/ Wait(c) \/ Receive(c)
        \/ Processes /\ UNCHANGED <<phase, ctx, watch, outcome>>
     /\ UNCHANGED tool
  \/ Finished

TargetSpec == TargetInit /\ [][TargetNext]_targetVars

\* As for proc.exec: the call, os/exec's goroutines, and no process by itself.
Fairness ==
  \A c \in Cmds : /\ WF_targetVars(Wait(c) /\ UNCHANGED tool)
                  /\ WF_targetVars(WatchKills(c) /\ UNCHANGED tool)
                  /\ WF_targetVars(Receive(c) /\ UNCHANGED tool)

FairTarget == TargetSpec /\ Fairness

-----------------------------------------------------------------------------
(* The command line targetExecSSH makes for the remote shell: pipelines    *)
(* joined by "&&", each a sequence of commands.  stdin goes in front of    *)
(* all of it as the output of an echo.                                     *)
RemoteCommand(cwd, stdin) ==
  LET run == IF cwd THEN <<<<"cd">>, <<"cmd">>>> ELSE <<<<"cmd">>>>
  IN IF stdin THEN <<<<"echo">> \o Head(run)>> \o Tail(run) ELSE run

\* A shell runs the commands of a pipeline of several in shells of their own.
ChangesDir(list) == \E i \in 1 .. Len(list) - 1 : list[i] = <<"cd">>
GetsInput(list) == \E i \in DOMAIN list : list[i] = <<"echo", "cmd">>

-----------------------------------------------------------------------------
(* Properties.                                                             *)

\* A tool looks at the output of its command only when nobody writes it any more:
\* the process is reaped and no child of it holds the pipe, although only the
\* process itself is killed.
OutputSettled ==
  \A c \in Cmds :
    phase[c] = "returned" /\ waiter[c] # "none" =>
      leader[c] = "gone" /\ ~PipeOpen(c, "output")

\* A call outlives its context only as long as a child of its command holds the
\* output pipe, or holds its stdin and leaves input of the call unread.
LateOnlyForChild ==
  \A c \in Cmds :
    phase[c] = "running" /\ ctx[c] = "ended" ~> phase[c] = "returned" \/ ChildDelays(c)

-----------------------------------------------------------------------------
(* What the repository says and the code does not do.                      *)

\* "Route to proc.exec behavior" (target.go:278), where a command that was killed
\* is an error of the kind "timeout" or "cancelled" (ProcExec, KilledIsReported).
KilledIsReported ==
  \A c \in Cmds : tool[c] = "exec" /\ outcome[c] = "ok" => exit[c] # "killed"

\* The same line: a call returns once its context has ended, when the command and
\* its child would die of a signal to their group (ProcExec, CommandsBounded).
CommandsBounded == \A c \in Cmds : ctx[c] = "ended" ~> phase[c] # "running"

\* A remote command runs in the cwd and with the stdin it was given: not so with
\* both, "echo stdin | cd dir && cmd" gives the stdin to cd, which changes the
\* directory of a subshell.
RemoteRunsAsAsked ==
  \A cwd \in BOOLEAN, stdin \in BOOLEAN :
    LET list == RemoteCommand(cwd, stdin)
    IN (cwd <=> ChangesDir(list)) /\ (stdin <=> GetsInput(list))
=============================================================================
