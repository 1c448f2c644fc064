--------------------------- MODULE ProcExecProofs ---------------------------
(***************************************************************************)
(* What ProcExec promises of the output it reads, of its registry and of   *)
(* what it reports, for any set of commands and whatever their processes   *)
(* do.                                                                     *)
(***************************************************************************)
EXTENDS ProcExec, TLAPS

\* A command is in the registry, or one that had its pid has taken it out.
Tracked(c) ==
  \/ c \in procs
  \/ \E d \in Cmds \ {c} : pid[d] = pid[c] /\ waiter[d] = "removed"

\* What holds of one command: the waiting goroutine knows of the leader's end,
\* and the call of both.  A leader that is still there belongs to the one call in
\* progress, so KillAll never reaches it and its exit is its own until the call
\* itself sends a signal.
CmdInv(c) ==
  /\ leader[c] = "none" <=> waiter[c] = "none"
  /\ leader[c] = "none" => exit[c] = "none" /\ child[c] = "none"
  /\ leader[c] \in {"alive", "zombie"} <=> waiter[c] = "waiting"
  /\ waiter[c] \in {"sent", "removed"} => ~PipeOpen(c, "output")
  /\ phase[c] = "idle" => waiter[c] = "none"
  /\ phase[c] \in {"running", "term", "kill"} => waiter[c] # "none"
  /\ phase[c] = "returned" /\ result[c] # "not_started" =>
       waiter[c] \in {"sent", "removed"}
  /\ result[c] = "not_started" => waiter[c] = "none"
  /\ result[c] # "none" => phase[c] = "returned"
  /\ phase[c] = "returned" => result[c] # "none"
  /\ leader[c] \in {"zombie", "gone"} => exit[c] # "none"
  /\ phase[c] = "running" => exit[c] # "killed"
  /\ phase[c] \in {"term", "kill"} => ctx[c] # "live"
  /\ result[c] \in {"ok", "exec_error"} => exit[c] \in {"success", "failure"}
  /\ result[c] = "timeout" => ctx[c] = "deadline"
  /\ result[c] = "cancelled" => ctx[c] = "cancelled"

Inv == TypeOK /\ \A c \in Cmds : CmdInv(c)

AllTracked == \A c \in Cmds : waiter[c] = "waiting" => Tracked(c)

USE DEF Exits, Phases, Pipes

\* What a signal to the groups of S does to one command: its leader becomes a
\* zombie, if it was in S and alive, and its child may end.
Signalled(S) ==
  /\ leader' \in [Cmds -> {"none", "alive", "zombie", "gone"}]
  /\ exit' \in [Cmds -> Exits]
  /\ child' \in [Cmds -> {"none", "alive", "gone"}]
  /\ inGroup' \in [Cmds -> BOOLEAN] /\ holds' \in [Cmds -> SUBSET Pipes] /\ feeding' = feeding
  /\ \A c \in Cmds :
       /\ \/ leader'[c] = leader[c] /\ exit'[c] = exit[c]
          \/ /\ c \in S
             /\ leader[c] = "alive"
             /\ leader'[c] = "zombie"
             /\ exit'[c] = "killed"
       /\ child'[c] \in {child[c], "gone"}
       /\ child[c] = "none" => child'[c] = "none"
       /\ child'[c] = "alive" => holds'[c] = holds[c]

\* It is what Signal does, whoever survives it.
LEMMA SignalEffect ==
  ASSUME NEW S \in SUBSET Cmds, NEW survivors, ProcessTypeOK, Signal(S, survivors)
  PROVE  Signalled(S)
  BY DEF Signal, ProcessTypeOK, Signalled

\* A step that takes no entry out, and starts no waiting, keeps the registry's part.
LEMMA KeepsTracked ==
  ASSUME AllTracked, UNCHANGED pid, procs \subseteq procs',
         \A c \in Cmds : waiter'[c] = "waiting" => waiter[c] = "waiting",
         \A c \in Cmds : waiter[c] = "removed" => waiter'[c] = "removed"
  PROVE  AllTracked'
BY DEF AllTracked, Tracked

\* The initial state.
LEMMA InvInit == Init => Inv
  BY DEF Init, ProcessInit, Inv, CmdInv, TypeOK, ProcessTypeOK, PipeOpen

\* Every step of the call of a command.
LEMMA InvCall ==
  ASSUME Inv, UNCHANGED pid, NEW d \in Cmds, Call(d)
  PROVE  Inv'
<1> USE DEF Inv, processVars
<1>1. CASE StartFails(d)
  BY <1>1 DEF StartFails, ReturnResult, CmdInv, TypeOK, ProcessTypeOK, PipeOpen
<1>2. CASE Start(d)
  BY <1>2 DEF Start, Started, Without, CmdInv, TypeOK, ProcessTypeOK, PipeOpen
<1>3. CASE Terminate(d)
  <2>1. \E survivors \in SUBSET IgnoresTerm : Signal({d}, survivors)
    BY <1>3 DEF Terminate, SignalTerm
  <2>2. Signalled({d})
    BY <2>1, SignalEffect DEF Inv, TypeOK
  <2>3. TypeOK'
    BY <1>3, <2>2 DEF Terminate, Signalled, TypeOK, ProcessTypeOK
  <2>4. ASSUME NEW c \in Cmds
        PROVE  CmdInv(c)'
    <3>1. CmdInv(c) /\ TypeOK
      OBVIOUS
    <3> QED
      BY <1>3, <2>2, <3>1 DEF Terminate, Signalled, CmdInv, TypeOK, ProcessTypeOK, PipeOpen
  <2> QED
    BY <2>3, <2>4
<1>4. CASE Kill(d)
  <2>1. Signalled({d})
    BY <1>4, SignalEffect DEF Kill, SignalKill, Inv, TypeOK
  <2>2. TypeOK'
    BY <1>4, <2>1 DEF Kill, Signalled, TypeOK, ProcessTypeOK
  <2>3. ASSUME NEW c \in Cmds
        PROVE  CmdInv(c)'
    <3>1. CmdInv(c) /\ TypeOK
      OBVIOUS
    <3> QED
      BY <1>4, <2>1, <3>1 DEF Kill, Signalled, CmdInv, TypeOK, ProcessTypeOK, PipeOpen
  <2> QED
    BY <2>2, <2>3
<1>5. CASE Receive(d)
  <2>1. PICK r : /\ phase' = [phase EXCEPT ![d] = "returned"]
                 /\ result' = [result EXCEPT ![d] = r]
                 /\ \/ phase[d] = "running" /\ r \in {"ok", "exec_error"}
                    \/ ctx[d] = "deadline" /\ r = "timeout"
                    \/ ctx[d] = "cancelled" /\ r = "cancelled"
    BY <1>5 DEF Receive, ReturnResult, EndResults, ContextResult, CmdInv, TypeOK
  <2>2. /\ waiter[d] \in {"sent", "removed"} /\ phase[d] \in {"running", "term", "kill"}
        /\ UNCHANGED <<processVars, waiter, ctx, procs>>
    BY <1>5 DEF Receive
  <2>3. leader[d] = "gone" /\ exit[d] # "none"
    BY <2>2 DEF CmdInv, TypeOK, ProcessTypeOK
  <2>4. TypeOK'
    BY <2>1, <2>2 DEF TypeOK, ProcessTypeOK
  <2> QED BY <2>1, <2>2, <2>3, <2>4 DEF CmdInv, TypeOK, ProcessTypeOK, PipeOpen
<1> QED
  BY <1>1, <1>2, <1>3, <1>4, <1>5 DEF Call

\* Every step of its waiting goroutine.
LEMMA InvWaiter ==
  ASSUME Inv, UNCHANGED pid, NEW d \in Cmds, Waiter(d)
  PROVE  Inv'
<1> USE DEF Inv, CmdInv, TypeOK, ProcessTypeOK, PipeOpen
<1>1. CASE Reap(d) /\ UNCHANGED <<phase, ctx, result, procs>>
  BY <1>1 DEF Reap
<1>2. CASE WaitReturns(d) /\ UNCHANGED <<phase, ctx, result, procs>>
  BY <1>2 DEF WaitReturns, processVars
<1>3. CASE Remove(d)
  BY <1>3 DEF Remove, Without, processVars
<1> QED
  BY <1>1, <1>2, <1>3 DEF Waiter

\* What the processes do by themselves.
LEMMA InvProcesses ==
  ASSUME Inv, NEW d \in Cmds, UNCHANGED <<pid, phase, ctx, result, procs>>,
         Fork(d) \/ LeaderExits(d) \/ ChildExits(d) \/ TakesInput(d)
  PROVE  Inv'
<1> USE DEF Inv, CmdInv, TypeOK, ProcessTypeOK, PipeOpen
<1>1. CASE Fork(d)
  <2>1. \E pipes \in SUBSET Pipes : holds' = [holds EXCEPT ![d] = pipes]
    BY <1>1 DEF Fork, InUse
  <2> QED BY <1>1, <2>1 DEF Fork
<1>2. CASE LeaderExits(d)
  BY <1>2 DEF LeaderExits
<1>3. CASE ChildExits(d)
  BY <1>3 DEF ChildExits
<1>4. CASE TakesInput(d)
  BY <1>4 DEF TakesInput
<1> QED
  BY <1>1, <1>2, <1>3, <1>4

\* /kill comes between calls, when every leader is gone: it changes no exit, and
\* what it forgets has ended.
LEMMA InvKillAll ==
  ASSUME Inv, UNCHANGED pid, KillAll
  PROVE  Inv'
<1>1. procs \in SUBSET Cmds /\ Signal(procs, {})
  BY DEF KillAll, SignalKill, Inv, TypeOK
<1>2. Signalled(procs)
  BY <1>1, SignalEffect DEF Inv, TypeOK
<1>3. \A c \in Cmds : leader[c] \in {"none", "gone"}
  BY DEF KillAll, Between, Inv, CmdInv, TypeOK, ProcessTypeOK
<1> QED
  BY <1>2, <1>3 DEF Signalled, KillAll, Inv, CmdInv, TypeOK, ProcessTypeOK, PipeOpen

\* Every step of the specification.
LEMMA InvNext == Inv /\ [Next]_vars => Inv'
<1> SUFFICES ASSUME Inv, [Next]_vars
             PROVE  Inv'
  OBVIOUS
<1>1. ASSUME NEW d \in Cmds, ContextEnds(d), UNCHANGED pid
      PROVE  Inv'
  BY <1>1 DEF ContextEnds, processVars, Inv, CmdInv, TypeOK, ProcessTypeOK, PipeOpen
<1>2. CASE UNCHANGED vars
  BY <1>2 DEF vars, processVars, Inv, CmdInv, TypeOK, ProcessTypeOK, PipeOpen
<1> QED
  BY <1>1, <1>2, InvCall, InvWaiter, InvProcesses, InvKillAll
     DEF Next, Processes, Finished

\* What they do to the registry: a step that takes entries out comes between calls,
\* when no leader is left, or is the Remove of a goroutine, which takes out the one
\* entry that has its own pid.
LEMMA TrackedNext == Inv /\ AllTracked /\ [Next]_vars => AllTracked'
<1> SUFFICES ASSUME Inv, AllTracked, [Next]_vars
             PROVE  AllTracked'
  OBVIOUS
<1>1. TypeOK /\ procs \subseteq Cmds
  BY DEF Inv, TypeOK
<1>2. ASSUME Between PROVE \A c \in Cmds : waiter[c] # "waiting"
  BY <1>2 DEF Between, Inv, CmdInv, TypeOK, ProcessTypeOK
<1>3. ASSUME NEW d \in Cmds, Start(d), UNCHANGED pid
      PROVE  AllTracked'
  <2>1. d \in procs' /\ \A c \in Cmds \ {d} : waiter'[c] # "waiting"
    BY <1>1, <1>2, <1>3 DEF Start, Started, TypeOK, ProcessTypeOK
  <2> QED BY <2>1 DEF AllTracked, Tracked
<1>4. ASSUME NEW d \in Cmds, Remove(d), UNCHANGED pid
      PROVE  AllTracked'
  <2> SUFFICES ASSUME NEW c \in Cmds, waiter'[c] = "waiting" PROVE Tracked(c)'
    BY DEF AllTracked
  <2>1. /\ waiter'[d] = "removed" /\ procs' = Without(d)
        /\ \A e \in Cmds \ {d} : waiter'[e] = waiter[e]
    BY <1>1, <1>4 DEF Remove, TypeOK, ProcessTypeOK
  <2>2. c # d /\ Tracked(c)
    BY <2>1 DEF AllTracked
  <2>3. CASE pid[c] = pid[d]
    BY <1>4, <2>1, <2>2, <2>3 DEF Tracked
  <2>4. CASE pid[c] # pid[d] /\ c \in procs
    BY <2>1, <2>4 DEF Without, Tracked
  <2>5. CASE \E e \in Cmds \ {c} : pid[e] = pid[c] /\ waiter[e] = "removed"
    <3>1. PICK e \in Cmds \ {c} : pid[e] = pid[c] /\ waiter[e] = "removed"
      BY <2>5
    <3>2. waiter'[e] = "removed"
      BY <2>1, <3>1
    <3> QED BY <1>4, <3>1, <3>2 DEF Tracked
  <2> QED BY <2>2, <2>3, <2>4, <2>5 DEF Tracked
<1>5. ASSUME KillAll
      PROVE  AllTracked'
  BY <1>2, <1>5 DEF KillAll, AllTracked
<1>6. ASSUME NEW d \in Cmds, UNCHANGED pid,
             StartFails(d) \/ Terminate(d) \/ Kill(d) \/ Receive(d) \/ ContextEnds(d)
      PROVE  AllTracked'
  <2>1. UNCHANGED <<waiter, procs>>
    BY <1>6 DEF StartFails, Terminate, Kill, Receive, ContextEnds
  <2> QED BY <1>6, <2>1, KeepsTracked
<1>7. ASSUME NEW d \in Cmds, UNCHANGED <<pid, procs>>, Reap(d) \/ WaitReturns(d)
      PROVE  AllTracked'
  BY <1>1, <1>7, KeepsTracked DEF Reap, WaitReturns, TypeOK, ProcessTypeOK
<1>8. ASSUME Processes, UNCHANGED <<pid, procs>>
      PROVE  AllTracked'
  BY <1>8, KeepsTracked
  DEF Processes, Fork, LeaderExits, ChildExits, TakesInput
<1>9. CASE UNCHANGED vars
  BY <1>9, KeepsTracked DEF vars
<1> QED
  BY <1>3, <1>4, <1>5, <1>6, <1>7, <1>8, <1>9 DEF Next, Call, Waiter, Finished

LEMMA TrackedInit == Init => AllTracked
  BY DEF Init, ProcessInit, AllTracked

\* The invariants hold in every state.
LEMMA Invariant == Spec => [](Inv /\ AllTracked)
  BY InvInit, InvNext, TrackedInit, TrackedNext, PTL DEF Spec

\* The variables of the calls, the registry and the processes keep their types.
THEOREM TypeCorrect == Spec => []TypeOK
<1>1. Inv => TypeOK
  BY DEF Inv
<1> QED
  BY <1>1, Invariant, PTL

\* Whichever way procExec returns, nobody writes the output it reads.
THEOREM OutputIsSettled == Spec => []OutputSettled
<1>1. Inv => OutputSettled
  BY DEF Inv, CmdInv, OutputSettled, TypeOK, ProcessTypeOK
<1> QED
  BY <1>1, Invariant, PTL

\* /kill and /exit know every command whose leader is not reaped, but for one whose pid
\* an earlier command has had.
THEOREM RegistryIsComplete == Spec => []RegistryComplete
<1>1. Inv /\ AllTracked => RegistryComplete
  BY DEF Inv, CmdInv, AllTracked, Tracked, RegistryComplete
<1> QED
  BY <1>1, Invariant, PTL

\* No command that katty killed is reported as one that ran to its end, and an error says
\* what became of the context.
THEOREM KilledAreReported == Spec => []KilledIsReported
<1>1. Inv => KilledIsReported
  BY DEF Inv, CmdInv, KilledIsReported
<1> QED
  BY <1>1, Invariant, PTL
=============================================================================
