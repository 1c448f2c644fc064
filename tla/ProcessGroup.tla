---------------------------- MODULE ProcessGroup ----------------------------
(***************************************************************************)
(* The operating system's side of a command started with os/exec in its    *)
(* own process group: the leader, at most one process it leaves behind,    *)
(* the pipes for its input and its output, signals to the group, and the   *)
(* goroutine in cmd.Wait.                                                  *)
(*                                                                         *)
(* What the system and os/exec do is modelled as internal/builtin/proc.go  *)
(* and target.go rely on it: Wait reaps the leader first and then waits    *)
(* for os/exec's copying goroutines, the one of the output until no        *)
(* process holds that pipe, the one of the input until it was taken or     *)
(* nobody is left to take it; Getpgid of a reaped process fails.           *)
(***************************************************************************)
EXTENDS FiniteSets

CONSTANTS
  Cmds,          \* the commands that are run
  LeaderWaits,   \* a leader ends before its child only when katty kills it
  MayDetach,     \* a child may leave the group (setsid)
  IgnoresTerm    \* which of "leader", "child" may survive a SIGTERM

ASSUME ProcessAssumption ==
  /\ LeaderWaits \in BOOLEAN
  /\ MayDetach \in BOOLEAN
  /\ IgnoresTerm \subseteq {"leader", "child"}

VARIABLES
  leader,     \* the process that was started
  exit,       \* how it ended, what Wait reports of it
  child,      \* the process it forked
  inGroup,    \* the child is in the leader's group
  holds,      \* the pipes in use that the child has inherited
  feeding,    \* a goroutine still has input to write to the command
  waiter      \* the goroutine that calls cmd.Wait

processVars == <<leader, exit, child, inGroup, holds, feeding>>

Pipes == {"input", "output"}

\* "killed" is by a signal of katty; one of somebody else makes a "failure" like any
\* other, an ExitError.
Exits == {"none", "success", "failure", "killed"}

ProcessTypeOK ==
  /\ leader \in [Cmds -> {"none", "alive", "zombie", "gone"}]
  /\ exit \in [Cmds -> Exits]
  /\ child \in [Cmds -> {"none", "alive", "gone"}]
  /\ inGroup \in [Cmds -> BOOLEAN]
  /\ holds \in [Cmds -> SUBSET Pipes]
  /\ feeding \in [Cmds -> BOOLEAN]
  /\ waiter \in [Cmds -> {"none", "waiting", "reaped", "sent", "removed"}]

ProcessInit ==
  /\ leader = [c \in Cmds |-> "none"]
  /\ exit = [c \in Cmds |-> "none"]
  /\ child = [c \in Cmds |-> "none"]
  /\ inGroup = [c \in Cmds |-> FALSE]
  /\ holds = [c \in Cmds |-> {}]
  /\ feeding = [c \in Cmds |-> FALSE]
  /\ waiter = [c \in Cmds |-> "none"]

\* A process of the command has its end of the pipe.
PipeOpen(c, pipe) == leader[c] = "alive" \/ (child[c] = "alive" /\ pipe \in holds[c])

\* A child of the command keeps one of the goroutines busy that Wait waits for.
ChildDelays(c) ==
  /\ child[c] = "alive"
  /\ "output" \in holds[c] \/ (feeding[c] /\ "input" \in holds[c])

\* cmd.Start succeeds, with more input than the pipe takes or not, and a goroutine
\* waits for the command.
Started(c, input) ==
  /\ leader' = [leader EXCEPT ![c] = "alive"]
  /\ waiter' = [waiter EXCEPT ![c] = "waiting"]
  /\ feeding' = [feeding EXCEPT ![c] = input]
  /\ UNCHANGED <<exit, child, inGroup, holds>>

\* The pipes a goroutine of os/exec still works on.
InUse(c) == {"output"} \cup (IF feeding[c] THEN {"input"} ELSE {})

\* The leader forks, once; the child may redirect its output or leave the group.
Fork(c) ==
  /\ leader[c] = "alive"
  /\ child[c] = "none"
  /\ child' = [child EXCEPT ![c] = "alive"]
  /\ \E g \in BOOLEAN : (g \/ MayDetach) /\ inGroup' = [inGroup EXCEPT ![c] = g]
  /\ \E pipes \in SUBSET InUse(c) : holds' = [holds EXCEPT ![c] = pipes]
  /\ UNCHANGED <<leader, exit, feeding, waiter>>

\* It ends by itself, or of a signal that is not katty's.
LeaderExits(c) ==
  /\ leader[c] = "alive"
  /\ LeaderWaits => child[c] # "alive"
  /\ leader' = [leader EXCEPT ![c] = "zombie"]
  /\ \E s \in {"success", "failure"} : exit' = [exit EXCEPT ![c] = s]
  /\ UNCHANGED <<child, inGroup, holds, feeding, waiter>>

\* The child ends; what it held and where it was no longer matters.
ChildExits(c) ==
  /\ child[c] = "alive"
  /\ child' = [child EXCEPT ![c] = "gone"]
  /\ inGroup' = [inGroup EXCEPT ![c] = FALSE]
  /\ holds' = [holds EXCEPT ![c] = {}]
  /\ UNCHANGED <<leader, exit, feeding, waiter>>

\* The command, or a child that has inherited its stdin, takes its input.
TakesInput(c) ==
  /\ feeding[c]
  /\ PipeOpen(c, "input")
  /\ feeding' = [feeding EXCEPT ![c] = FALSE]
  /\ holds' = [holds EXCEPT ![c] = @ \ {"input"}]
  /\ UNCHANGED <<leader, exit, child, inGroup, waiter>>

\* Wait reaps the leader: from here its pid names nobody.
Reap(c) ==
  /\ waiter[c] = "waiting"
  /\ leader[c] = "zombie"
  /\ leader' = [leader EXCEPT ![c] = "gone"]
  /\ waiter' = [waiter EXCEPT ![c] = "reaped"]
  /\ UNCHANGED <<exit, child, inGroup, holds, feeding>>

\* The output is copied to its end, the input as far as it is taken: nobody reads
\* the rest, and os/exec passes over the EPIPE.  Wait returns, the result is sent.
WaitReturns(c) ==
  /\ waiter[c] = "reaped"
  /\ ~PipeOpen(c, "output")
  /\ feeding[c] => ~PipeOpen(c, "input")
  /\ waiter' = [waiter EXCEPT ![c] = "sent"]
  /\ feeding' = [feeding EXCEPT ![c] = FALSE]
  /\ holds' = [holds EXCEPT ![c] = {}]
  /\ UNCHANGED <<leader, exit, child, inGroup>>

Processes == \E c \in Cmds : Fork(c) \/ LeaderExits(c) \/ ChildExits(c) \/ TakesInput(c)

\* signalProcessGroup for the commands of S: Getpgid of the leader's pid, which
\* fails once the leader is reaped, and the signal to the group.
Signal(S, survivors) ==
  LET reached == {c \in S : leader[c] \in {"alive", "zombie"}}
      dies == {c \in reached : leader[c] = "alive" /\ "leader" \notin survivors}
      loses == {c \in reached : child[c] = "alive" /\ inGroup[c] /\ "child" \notin survivors}
  IN /\ leader' = [c \in Cmds |-> IF c \in dies THEN "zombie" ELSE leader[c]]
     /\ exit' = [c \in Cmds |-> IF c \in dies THEN "killed" ELSE exit[c]]
     /\ child' = [c \in Cmds |-> IF c \in loses THEN "gone" ELSE child[c]]
     /\ inGroup' = [c \in Cmds |-> inGroup[c] /\ c \notin loses]
     /\ holds' = [c \in Cmds |-> IF c \in loses THEN {} ELSE holds[c]]
     /\ UNCHANGED feeding

SignalTerm(c) == \E survivors \in SUBSET IgnoresTerm : Signal({c}, survivors)
SignalKill(S) == Signal(S, {})
=============================================================================
