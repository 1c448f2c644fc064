----------------------------- MODULE McpStartup -----------------------------
(***************************************************************************)
(* The start of the configured MCP servers: StartAll of                    *)
(* internal/mcp/manager.go, one goroutine per enabled server, and what     *)
(* main.go does with its error before the REPL runs.  How one server       *)
(* starts, and that it ends within its timeout, is McpClient.              *)
(*                                                                         *)
(* StartAll holds m.mu, but m.servers is written by itself and by the      *)
(* goroutines, none of which takes the lock: writes of the map overlap.    *)
(* The Go runtime aborts the process when it notices two, and otherwise an *)
(* entry may get lost.                                                     *)
(***************************************************************************)
EXTENDS FiniteSets

CONSTANTS
  Names,     \* the configured servers
  Enabled,   \* those with "enabled"
  Required   \* those with "required"

ASSUME StartupAssumption == Enabled \subseteq Names /\ Required \subseteq Names

VARIABLES
  main,      \* StartAll's loop, its wg.Wait, the REPL, or the end of katty
  todo,      \* the servers the loop has not come to
  starter,   \* per server, the goroutine that starts it
  storing,   \* the servers whose entry is being written into m.servers
  overlaps,  \* those of them whose write overlapped another one
  servers,   \* the keys of m.servers
  status,    \* ss.status
  errCh,     \* the servers whose error is in errCh
  warned     \* the servers main.go has printed a warning about

mapVars == <<storing, overlaps, servers>>
resultVars == <<errCh, warned>>
startupVars == <<main, todo, starter, mapVars, status, resultVars>>

StartupTypeOK ==
  /\ main \in {"loop", "wait", "repl", "crashed"}
  /\ todo \subseteq Names
  /\ starter \in [Names -> {"none", "store", "start", "report", "done"}]
  /\ storing \subseteq Names
  /\ overlaps \subseteq storing
  /\ servers \subseteq Names
  /\ status \in [Names -> {"none", "disabled", "starting", "running", "failed"}]
  /\ errCh \subseteq Names
  /\ warned \subseteq Names

StartupInit ==
  /\ main = "loop"
  /\ todo = Names
  /\ starter = [n \in Names |-> "none"]
  /\ storing = {}
  /\ overlaps = {}
  /\ servers = {}
  /\ status = [n \in Names |-> "none"]
  /\ errCh = {}
  /\ warned = {}

-----------------------------------------------------------------------------
\* A write of m.servers begins.
BeginStore(n) ==
  /\ storing' = storing \cup {n}
  /\ overlaps' = IF storing = {} THEN overlaps ELSE storing \cup {n}
  /\ UNCHANGED servers

\* It ends: the entry is there, or was lost in an overlap.
EndStore(n) ==
  /\ storing' = storing \ {n}
  /\ overlaps' = overlaps \ {n}
  /\ \/ servers' = servers \cup {n}
     \/ n \in overlaps /\ UNCHANGED servers

\* The runtime notices an overlap.
Crash ==
  /\ overlaps # {}
  /\ main \in {"loop", "wait"}
  /\ main' = "crashed"
  /\ UNCHANGED <<todo, starter, mapVars, status, resultVars>>

\* The loop's goroutine is not in a write itself.
Looping == main = "loop" /\ storing \subseteq Enabled

\* The loop, in the map's random order: a goroutine for an enabled server.
Go(n) ==
  /\ Looping
  /\ n \in todo \cap Enabled
  /\ todo' = todo \ {n}
  /\ starter' = [starter EXCEPT ![n] = "store"]
  /\ UNCHANGED <<main, mapVars, status, resultVars>>

\* An entry for a disabled one, written by the loop.
Disable(n) ==
  /\ Looping
  /\ n \in todo \ Enabled
  /\ todo' = todo \ {n}
  /\ status' = [status EXCEPT ![n] = "disabled"]
  /\ BeginStore(n)
  /\ UNCHANGED <<main, starter, resultVars>>

Disabled(n) ==
  /\ main = "loop"
  /\ n \in storing \ Enabled
  /\ EndStore(n)
  /\ UNCHANGED <<main, todo, starter, status, resultVars>>

LoopEnds ==
  /\ Looping
  /\ todo = {}
  /\ main' = "wait"
  /\ UNCHANGED <<todo, starter, mapVars, status, resultVars>>

\* startServer begins with the entry of its server.
StoreEntry(n) ==
  /\ main # "crashed"
  /\ starter[n] = "store"
  /\ n \notin storing
  /\ status' = [status EXCEPT ![n] = "starting"]
  /\ BeginStore(n)
  /\ UNCHANGED <<main, todo, starter, resultVars>>

EntryStored(n) ==
  /\ main # "crashed"
  /\ starter[n] = "store"
  /\ n \in storing
  /\ EndStore(n)
  /\ starter' = [starter EXCEPT ![n] = "start"]
  /\ UNCHANGED <<main, todo, status, resultVars>>

\* It ends with the tools of the server, or an error.
ServerStarts(n) ==
  /\ main # "crashed"
  /\ starter[n] = "start"
  /\ \/ /\ status' = [status EXCEPT ![n] = "running"]
        /\ starter' = [starter EXCEPT ![n] = "done"]
     \/ /\ status' = [status EXCEPT ![n] = "failed"]
        /\ starter' = [starter EXCEPT ![n] = "report"]
  /\ UNCHANGED <<main, todo, mapVars, resultVars>>

\* Fault: errCh has no buffer, and StartAll does not receive before wg.Wait.
ReportUnbuffered(n) ==
  /\ starter[n] = "report"
  /\ n \notin Required
  /\ starter' = [starter EXCEPT ![n] = "done"]
  /\ UNCHANGED <<main, todo, mapVars, status, resultVars>>

\* The error of a required server goes to errCh, which has room for all.
Report(n) ==
  /\ main # "crashed"
  /\ starter[n] = "report"
  /\ errCh' = IF n \in Required THEN errCh \cup {n} ELSE errCh
  /\ starter' = [starter EXCEPT ![n] = "done"]
  /\ UNCHANGED <<main, todo, mapVars, status, warned>>

\* Fault: wg.Add is called in the goroutine, when it runs.
ReplEarly ==
  /\ main = "wait"
  /\ \A n \in Enabled : starter[n] \in {"store", "done"}
  /\ storing = {}
  /\ main' = "repl"
  /\ \/ errCh = {} /\ UNCHANGED warned
     \/ \E n \in errCh : warned' = {n}
  /\ UNCHANGED <<todo, starter, mapVars, status, errCh>>

\* wg.Wait returns; StartAll returns one of the errors, main.go prints it as a
\* warning and runs the REPL.
Repl ==
  /\ main = "wait"
  /\ \A n \in Enabled : starter[n] = "done"
  /\ main' = "repl"
  /\ \/ errCh = {} /\ UNCHANGED warned
     \/ \E n \in errCh : warned' = {n}
  /\ UNCHANGED <<todo, starter, mapVars, status, errCh>>

Starter(n) == StoreEntry(n) \/ EntryStored(n) \/ ServerStarts(n) \/ Report(n)

StartAll == LoopEnds \/ Repl \/ \E n \in Names : Go(n) \/ Disable(n) \/ Disabled(n)

StartupFinished == main \in {"repl", "crashed"} /\ UNCHANGED startupVars

StartupNext == StartAll \/ (\E n \in Names : Starter(n)) \/ Crash \/ StartupFinished

StartupSpec == StartupInit /\ [][StartupNext]_startupVars

\* Every goroutine runs; a server's start is bounded by its timeout.
FairStartup == StartupSpec /\ WF_startupVars(StartAll) /\ \A n \in Names : WF_startupVars(Starter(n))

-----------------------------------------------------------------------------
(* Properties.                                                             *)

Failed(required) == {n \in Enabled \cap required : status[n] = "failed"}

\* When the REPL runs no goroutine of StartAll is left, so that what it reads of
\* the servers without m.mu does not change under it, and of the required servers
\* that failed, if there are any, the user was warned of one and of nothing else.
StartupIsReported ==
  main = "repl" =>
    /\ \A n \in Enabled : status[n] \in {"running", "failed"}
    /\ IF Failed(Required) = {} THEN warned = {}
       ELSE \E n \in Failed(Required) : warned = {n}

\* StartAll returns, or the runtime has aborted: no goroutine waits for it.
StartAllReturns == <>(main \in {"repl", "crashed"})

-----------------------------------------------------------------------------
(* What the repository says and the code does not do.                      *)

\* "required failures stop startup" (README.md:243).
RequiredFailureStops == main = "repl" => Failed(Required) = {}

\* "Check for required failures" (manager.go:104): the user hears of all of them.
RequiredFailuresWarned == main = "repl" => Failed(Required) \subseteq warned

\* "Optional failures are reported as warnings" (README.md:243).
OptionalFailureWarned == main = "repl" => Failed(Names \ Required) \subseteq warned

\* "Start all enabled servers concurrently" (manager.go:77): when the REPL runs,
\* m.servers holds every one of them.
EveryServerStarted == main = "repl" => Names \subseteq servers
=============================================================================
