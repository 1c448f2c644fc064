------------------------------ MODULE ProcExec ------------------------------
(***************************************************************************)
(* katty.proc.exec of internal/builtin/proc.go, with the registry of       *)
(* running commands that /kill and /exit read.  A call runs in the turn's  *)
(* goroutine (or in main, for /tool), so two calls never overlap; each has *)
(* a goroutine that waits for its command.  /kill is served at the prompt  *)
(* only, that is between calls: Repl's PromptIffIdle.                      *)
(***************************************************************************)
EXTENDS ProcessGroup

CONSTANT
  Pids   \* the pids the system gives to commands

VARIABLES
  pid,      \* the pid a command gets, or would get, from the system
  phase,    \* where procExec is: its select, or terminateProcessGroup
  ctx,      \* procCtx: live, past its deadline, or cancelled with the turn
  result,   \* what procExec returned
  procs     \* procMgr.procs, as the set of its commands: one to a pid

vars == <<processVars, waiter, pid, phase, ctx, result, procs>>

Phases == {"idle", "running", "term", "kill", "returned"}

TypeOK ==
  /\ ProcessTypeOK
  /\ pid \in [Cmds -> Pids]
  /\ phase \in [Cmds -> Phases]
  /\ ctx \in [Cmds -> {"live", "deadline", "cancelled"}]
  /\ result \in [Cmds -> {"none", "not_started", "ok", "exec_error", "timeout", "cancelled"}]
  /\ procs \subseteq Cmds

Init ==
  /\ ProcessInit
  /\ pid \in [Cmds -> Pids]
  /\ phase = [c \in Cmds |-> "idle"]
  /\ ctx = [c \in Cmds |-> "live"]
  /\ result = [c \in Cmds |-> "none"]
  /\ procs = {}

\* No call is in progress.
Between == \A c \in Cmds : phase[c] \in {"idle", "returned"}

\* No process has the pid, and no process group: the system may give it away.
Free(p) ==
  \A d \in Cmds : pid[d] = p =>
    leader[d] \in {"none", "gone"} /\ ~(child[d] = "alive" /\ inGroup[d])

\* delete(procs, pid), for the pid of c.
Without(c) == {d \in procs : pid[d] # pid[c]}

ReturnResult(c, r) ==
  /\ phase' = [phase EXCEPT ![c] = "returned"]
  /\ result' = [result EXCEPT ![c] = r]

\* cmd.Start fails.
StartFails(c) ==
  /\ Between
  /\ phase[c] = "idle"
  /\ ReturnResult(c, "not_started")
  /\ UNCHANGED <<processVars, waiter, ctx, procs>>

\* Fault: the command is not registered.
StartUnregistered(c) ==
  /\ Between
  /\ phase[c] = "idle" /\ Free(pid[c])
  /\ \E input \in BOOLEAN : Started(c, input)
  /\ phase' = [phase EXCEPT ![c] = "running"]
  /\ UNCHANGED <<ctx, result, procs>>

\* cmd.Start, procMgr.Add, which replaces an entry with its pid, and the goroutine
\* that waits.
Start(c) ==
  /\ Between
  /\ phase[c] = "idle" /\ Free(pid[c])
  /\ \E input \in BOOLEAN : Started(c, input)
  /\ procs' = Without(c) \cup {c}
  /\ phase' = [phase EXCEPT ![c] = "running"]
  /\ UNCHANGED <<ctx, result>>

\* The timeout of the call passes, or its turn is cancelled.
ContextEnds(c) ==
  /\ phase[c] \in {"running", "term", "kill"}
  /\ ctx[c] = "live"
  /\ \E e \in {"deadline", "cancelled"} : ctx' = [ctx EXCEPT ![c] = e]
  /\ UNCHANGED <<processVars, waiter, phase, result, procs>>

\* The select takes the end of the context: SIGTERM to the group.
Terminate(c) ==
  /\ phase[c] = "running"
  /\ ctx[c] # "live"
  /\ SignalTerm(c)
  /\ phase' = [phase EXCEPT ![c] = "term"]
  /\ UNCHANGED <<waiter, ctx, result, procs>>

\* Fault: SIGTERM again instead of SIGKILL.
KillGently(c) ==
  /\ phase[c] = "term"
  /\ SignalTerm(c)
  /\ phase' = [phase EXCEPT ![c] = "kill"]
  /\ UNCHANGED <<waiter, ctx, result, procs>>

\* Two seconds later: SIGKILL to the group.
Kill(c) ==
  /\ phase[c] = "term"
  /\ SignalKill({c})
  /\ phase' = [phase EXCEPT ![c] = "kill"]
  /\ UNCHANGED <<waiter, ctx, result, procs>>

\* What the error of Wait makes of a command that ended: exec_error is an error in
\* copying, which Wait returns only if the command itself succeeded.
EndResults(c) == {"ok"} \cup (IF exit[c] = "success" THEN {"exec_error"} ELSE {})
ContextResult(c) == IF ctx[c] = "deadline" THEN "timeout" ELSE "cancelled"

\* Fault: procExec does not wait for done once it has sent SIGKILL.
ReceiveEarly(c) ==
  /\ \/ /\ phase[c] = "running"
        /\ waiter[c] \in {"sent", "removed"}
        /\ \E r \in EndResults(c) : ReturnResult(c, r)
     \/ /\ phase[c] = "term" => waiter[c] \in {"sent", "removed"}
        /\ phase[c] \in {"term", "kill"}
        /\ ReturnResult(c, ContextResult(c))
  /\ UNCHANGED <<processVars, waiter, ctx, procs>>

\* Fault: the exit error is looked at before the context.
ReceiveOk(c) ==
  /\ waiter[c] \in {"sent", "removed"}
  /\ phase[c] \in {"running", "term", "kill"}
  /\ \E r \in EndResults(c) : ReturnResult(c, r)
  /\ UNCHANGED <<processVars, waiter, ctx, procs>>

\* procExec receives from done, wherever it waits for it.
Receive(c) ==
  /\ waiter[c] \in {"sent", "removed"}
  /\ \/ /\ phase[c] = "running"
        /\ \E r \in EndResults(c) : ReturnResult(c, r)
     \/ phase[c] \in {"term", "kill"} /\ ReturnResult(c, ContextResult(c))
  /\ UNCHANGED <<processVars, waiter, ctx, procs>>

\* Fault: the entry stays.
RemoveNothing(c) ==
  /\ waiter[c] = "sent"
  /\ waiter' = [waiter EXCEPT ![c] = "removed"]
  /\ UNCHANGED <<processVars, phase, ctx, result, procs>>

\* The waiting goroutine's last step: the entry with the pid goes, whose ever it is.
Remove(c) ==
  /\ waiter[c] = "sent"
  /\ waiter' = [waiter EXCEPT ![c] = "removed"]
  /\ procs' = Without(c)
  /\ UNCHANGED <<processVars, phase, ctx, result>>

\* /kill: SIGKILL to the group of every registered command, which is forgotten.
KillAll ==
  /\ Between
  /\ SignalKill(procs)
  /\ procs' = {}
  /\ UNCHANGED <<waiter, phase, ctx, result>>

Waiter(c) ==
  \/ Reap(c) /\ UNCHANGED <<phase, ctx, result, procs>>
  \/ WaitReturns(c) /\ UNCHANGED <<phase, ctx, result, procs>>
  \/ Remove(c)

Call(c) == StartFails(c) \/ Start(c) \/ Terminate(c) \/ Kill(c) \/ Receive(c)

\* All calls are over; what they left behind may still run.
Finished ==
  /\ \A c \in Cmds : phase[c] = "returned"
  /\ UNCHANGED vars

Next ==
  \/ /\ \/ \E c \in Cmds : Call(c) \/ ContextEnds(c) \/ Waiter(c)
        \/ Processes /\ UNCHANGED <<phase, ctx, result, procs>>
        \/ KillAll
     /\ UNCHANGED pid
  \/ Finished

Spec == Init /\ [][Next]_vars

\* The call and its waiting goroutine are scheduled, and two seconds pass.  No
\* process has to exit by itself.
Fairness ==
  \A c \in Cmds : /\ WF_vars((Terminate(c) \/ Kill(c) \/ Receive(c)) /\ UNCHANGED pid)
                  /\ WF_vars(Waiter(c) /\ UNCHANGED pid)

FairSpec == Spec /\ Fairness

-----------------------------------------------------------------------------
(* Properties.                                                             *)

\* procExec reads stdout and stderr only when nobody writes them any more: the
\* leader is reaped and no child of it holds the pipe, whichever way it returns.
OutputSettled ==
  \A c \in Cmds :
    phase[c] = "returned" /\ result[c] # "not_started" =>
      leader[c] = "gone" /\ ~PipeOpen(c, "output")

\* The registry knows every command that has not ended, but for one whose pid an
\* earlier command has had: the goroutine of that one may be late and remove the
\* entry of this.  No other Remove or KillAll drops it.
RegistryComplete ==
  \A c \in Cmds : leader[c] \in {"alive", "zombie"} =>
    \/ c \in procs
    \/ \E d \in Cmds \ {c} : pid[d] = pid[c] /\ waiter[d] = "removed"

\* A command that katty killed is reported as an error, never as one that ran to
\* its end (docs/testing.md:41), and an error says of the context what became of
\* it.  A command that ended by itself may be reported as killed (EndedIsReported).
KilledIsReported ==
  \A c \in Cmds :
    /\ result[c] \in {"ok", "exec_error"} => exit[c] # "killed"
    /\ result[c] = "timeout" => ctx[c] = "deadline"
    /\ result[c] = "cancelled" => ctx[c] = "cancelled"

\* Every command that ended is eventually forgotten.
RegistryDrains == \A c \in Cmds : phase[c] = "returned" ~> c \notin procs

\* A call outlives its context only as long as a child of its command holds the
\* output pipe, or holds its stdin and leaves input of the call unread: the leader
\* cannot delay it, whatever signals it ignores.
LateOnlyForChild ==
  \A c \in Cmds :
    phase[c] \in {"running", "term", "kill"} /\ ctx[c] # "live" ~>
      phase[c] = "returned" \/ ChildDelays(c)

-----------------------------------------------------------------------------
(* What the repository says and the code does not do.                      *)

\* "Use these to run bounded commands" (README.md:154): a call returns once its
\* timeout has passed or its turn is cancelled.
CommandsBounded ==
  \A c \in Cmds : ctx[c] # "live" ~> phase[c] = "returned"

\* "Set process group for clean killing" (proc.go:103): a call that killed its
\* command leaves nobody in the command's group.
GroupKilled ==
  \A c \in Cmds :
    result[c] \in {"timeout", "cancelled"} => ~(child[c] = "alive" /\ inGroup[c])

\* "/kill - Kill active non-MCP exec subprocesses" (repl.go:919): nothing is left
\* of the groups of the commands it found or missed.
KillAllKills ==
  [][KillAll => \A c \in Cmds : inGroup[c] => child'[c] # "alive"]_vars

\* "Process Manager for tracking non-MCP subprocesses" (proc.go:285): every command
\* that has not ended is tracked, also one with the pid of an earlier one.
RegistryTracks ==
  \A c \in Cmds : leader[c] \in {"alive", "zombie"} => c \in procs

\* "command timed out" (proc.go:127), "command cancelled" (proc.go:123): of commands
\* that katty ended.  Not so: one that ends by itself while the call turns to its
\* context, or handles the SIGTERM, is reported like this too, whatever its exit.
EndedIsReported ==
  \A c \in Cmds : result[c] \in {"timeout", "cancelled"} => exit[c] = "killed"
=============================================================================
