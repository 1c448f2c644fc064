----------------------------- MODULE Lifecycle ------------------------------
(***************************************************************************)
(* The life of a katty process from main.go to its end, over several       *)
(* processes one after the other and side by side: the configuration and   *)
(* the startup files in ~/.katty, which a first start writes and a user    *)
(* edits, the transcript, and what each way to end katty leaves running.   *)
(*                                                                         *)
(* Failures: a process is killed at any step (a signal before the REPL     *)
(* catches SIGINT, or a kill), a write that stops half way, and a home     *)
(* directory that cannot be written to.  How MCP servers start is          *)
(* McpStartup; what a turn does is Repl.                                   *)
(***************************************************************************)
EXTENDS Naturals

CONSTANTS
  Kattys,      \* the terminals in which katty is started
  MaxStarts    \* bound: starts, in all of them

ASSUME LifecycleAssumption == MaxStarts \in Nat

Files == {"config", "soul", "preferences"}
Startup == {"soul", "preferences"}

VARIABLES
  disk,       \* what is in each file
  writable,   \* the home directory
  pc,         \* where main is
  file,       \* the file it is at
  mode,       \* how it was called: "repl", "doctor" or "print-system"
  read,       \* what sFiles has of the startup files
  logger,     \* the transcript is open
  running,    \* the commands and sessions it has started
  orphans,    \* those whose katty is gone
  starts,
  overtaken,  \* history: the kattys whose file was saved since they found it absent
  cut         \* history: the files whose write was killed or failed behind the truncation

history == <<overtaken, cut>>
local == <<file, mode, read, logger>>
processes == <<running, orphans>>
vars == <<disk, writable, pc, local, processes, starts, history>>

\* A file may be torn: empty, or a part of its default.
Contents == {"absent", "torn", "default", "edited", "broken"}
Places == {"off", "failed", "panicked",
           "look", "create", "fill", "load", "servers", "prompt", "turn"}
Jobs == {"command", "session"}

TypeOK ==
  /\ disk \in [Files -> Contents]
  /\ writable \in BOOLEAN
  /\ pc \in [Kattys -> Places]
  /\ file \in [Kattys -> Files]
  /\ mode \in [Kattys -> {"repl", "doctor", "print-system"}]
  /\ read \in [Kattys -> [Startup -> Contents]]
  /\ logger \in [Kattys -> BOOLEAN]
  /\ running \in [Kattys -> SUBSET Jobs]
  /\ orphans \subseteq Jobs
  /\ starts \in 0..MaxStarts
  /\ overtaken \subseteq Kattys
  /\ cut \subseteq Files

Init ==
  /\ disk \in {[f \in Files |-> "absent"], [f \in Files |-> "edited"]}
  /\ writable \in BOOLEAN
  /\ pc = [k \in Kattys |-> "off"]
  /\ file = [k \in Kattys |-> "config"]
  /\ mode = [k \in Kattys |-> "repl"]
  /\ read = [k \in Kattys |-> [f \in Startup |-> "absent"]]
  /\ logger = [k \in Kattys |-> FALSE]
  /\ running = [k \in Kattys |-> {}]
  /\ orphans = {}
  /\ starts = 0
  /\ overtaken = {}
  /\ cut = {}

Ended(k) == pc[k] \in {"off", "failed", "panicked"}

\* main goes to a place, and leaves the files and processes alone.
GoTo(k, place) == pc' = [pc EXCEPT ![k] = place]
At(k, place) == pc[k] = place /\ UNCHANGED <<writable, starts>>

\* It ends; what it has started and not ended goes on.
End(k, how) ==
  /\ GoTo(k, how)
  /\ orphans' = orphans \cup running[k]
  /\ running' = [running EXCEPT ![k] = {}]

-----------------------------------------------------------------------------
(* main.go, to the REPL.                                                   *)

Start(k) ==
  /\ Ended(k) /\ starts < MaxStarts
  /\ starts' = starts + 1
  /\ GoTo(k, "look")
  /\ file' = [file EXCEPT ![k] = "config"]
  /\ \E m \in {"repl", "doctor", "print-system"} : mode' = [mode EXCEPT ![k] = m]
  /\ logger' = [logger EXCEPT ![k] = FALSE]
  /\ read' = [read EXCEPT ![k] = [f \in Startup |-> "absent"]]
  /\ UNCHANGED <<disk, writable, processes, history>>

\* After a file: loadConfig, then EnsureDir for soul.md and preferences.md, then
\* startup.Load.  Doctor mode stops behind the configuration.
NextFile(k) ==
  CASE file[k] = "config" /\ mode[k] = "doctor" ->
         GoTo(k, "off") /\ UNCHANGED file
    [] file[k] = "config" /\ mode[k] # "doctor" ->
         GoTo(k, "look") /\ file' = [file EXCEPT ![k] = "soul"]
    [] file[k] = "soul" ->
         GoTo(k, "look") /\ file' = [file EXCEPT ![k] = "preferences"]
    [] file[k] = "preferences" ->
         GoTo(k, "load") /\ file' = [file EXCEPT ![k] = "soul"]

\* Fault: what does not parse is replaced by the defaults as well.
LookReplacing(k) ==
  /\ At(k, "look")
  /\ \/ /\ disk[file[k]] \in {"absent", "torn", "broken"} /\ GoTo(k, "create")
        /\ UNCHANGED file
     \/ disk[file[k]] \in {"default", "edited"} /\ NextFile(k)
  /\ UNCHANGED <<disk, mode, read, logger, processes, history>>

\* os.ReadFile of the configuration, os.Stat of the others.  A configuration that
\* does not parse ends katty.
Look(k) ==
  /\ At(k, "look")
  /\ LET content == disk[file[k]]
         unparsed == file[k] = "config" /\ content \in {"torn", "broken"}
     IN  \/ content = "absent" /\ GoTo(k, "create") /\ UNCHANGED file
         \/ unparsed /\ GoTo(k, "failed") /\ UNCHANGED file
         \/ content # "absent" /\ ~unparsed /\ NextFile(k)
  /\ UNCHANGED <<disk, mode, read, logger, processes, history>>

\* Fault: the file is created, and its default left to a first save.
CreateBare(k) ==
  /\ At(k, "create")
  /\ disk' = IF writable THEN [disk EXCEPT ![file[k]] = "torn"] ELSE disk
  /\ NextFile(k)
  /\ overtaken' = overtaken \ {k}
  /\ UNCHANGED <<mode, read, logger, processes, cut>>

\* os.WriteFile, which truncates the file and writes it; its error is ignored.
Create(k) ==
  /\ At(k, "create")
  /\ \/ /\ writable
        /\ disk' = [disk EXCEPT ![file[k]] = "torn"]
        /\ GoTo(k, "fill") /\ UNCHANGED <<file, overtaken>>
     \/ ~writable /\ NextFile(k) /\ overtaken' = overtaken \ {k} /\ UNCHANGED disk
  /\ UNCHANGED <<mode, read, logger, processes, cut>>

\* The write may fail before its end.
Fill(k) ==
  /\ At(k, "fill")
  /\ \/ /\ disk' = [disk EXCEPT ![file[k]] = "default"]
        /\ cut' = cut \ {file[k]}
     \/ /\ disk' = [disk EXCEPT ![file[k]] = "torn"]
        /\ cut' = cut \cup {file[k]}
  /\ NextFile(k)
  /\ overtaken' = overtaken \ {k}
  /\ UNCHANGED <<mode, read, logger, processes>>

\* startup.Load reads the files one after the other; print-system stops there.
Load(k) ==
  /\ At(k, "load")
  /\ read' = [read EXCEPT ![k][file[k]] = disk[file[k]]]
  /\ \/ file[k] = "soul" /\ file' = [file EXCEPT ![k] = "preferences"] /\ UNCHANGED pc
     \/ /\ file[k] = "preferences" /\ UNCHANGED file
        /\ GoTo(k, IF mode[k] = "print-system" THEN "off" ELSE "servers")
  /\ UNCHANGED <<disk, mode, logger, processes, history>>

\* The MCP servers, and the transcript: without one, a warning and a nil logger.
OpenTranscript(k) ==
  /\ At(k, "servers")
  /\ logger' = [logger EXCEPT ![k] = writable]
  /\ GoTo(k, "prompt")
  /\ UNCHANGED <<disk, file, mode, read, processes, history>>

-----------------------------------------------------------------------------
(* The REPL.                                                               *)

\* Main takes the next input: not while it runs a "!" command or a /tool.
takesInput(k) == pc[k] = "prompt" /\ "command" \notin running[k]

\* The first thing a turn does is to log its input.
Turn(k) ==
  /\ At(k, "prompt") /\ takesInput(k)
  /\ \/ logger[k] /\ GoTo(k, "turn") /\ UNCHANGED processes
     \/ ~logger[k] /\ End(k, "panicked")
  /\ UNCHANGED <<disk, local, history>>

\* A tool of the turn starts a command, or a "!" or a /tool at the prompt does.
RunCommand(k) ==
  /\ At(k, pc[k]) /\ (pc[k] = "turn" \/ takesInput(k))
  /\ running' = [running EXCEPT ![k] = @ \cup {"command"}]
  /\ UNCHANGED <<disk, pc, local, orphans, history>>

\* The command is over, and so is the tool, which logs its result; a "!" does not.
CommandEnds(k) ==
  /\ At(k, pc[k])
  /\ pc[k] \in {"prompt", "turn"} /\ "command" \in running[k]
  /\ \/ /\ running' = [running EXCEPT ![k] = @ \ {"command"}]
        /\ UNCHANGED <<pc, orphans>>
     \/ /\ ~logger[k]
        /\ GoTo(k, "panicked")
        /\ orphans' = orphans \cup (running[k] \ {"command"})
        /\ running' = [running EXCEPT ![k] = {}]
  /\ UNCHANGED <<disk, local, history>>

\* session.start, in a turn or with /tool, which logs its result.
StartSession(k) ==
  /\ At(k, pc[k])
  /\ pc[k] \in {"prompt", "turn"} /\ "command" \notin running[k]
  /\ \/ /\ logger[k]
        /\ running' = [running EXCEPT ![k] = @ \cup {"session"}]
        /\ UNCHANGED <<pc, orphans>>
     \/ /\ ~logger[k]
        /\ GoTo(k, "panicked")
        /\ orphans' = orphans \cup running[k] \cup {"session"}
        /\ running' = [running EXCEPT ![k] = {}]
  /\ UNCHANGED <<disk, local, history>>

TurnEnds(k) ==
  /\ At(k, "turn") /\ "command" \notin running[k]
  /\ GoTo(k, "prompt")
  /\ UNCHANGED <<disk, local, processes, history>>

SessionEnds(k) ==
  /\ At(k, pc[k]) /\ "session" \in running[k]
  /\ running' = [running EXCEPT ![k] = @ \ {"session"}]
  /\ UNCHANGED <<disk, pc, local, orphans, history>>

OrphanEnds(job) ==
  /\ job \in orphans
  /\ orphans' = orphans \ {job}
  /\ UNCHANGED <<disk, writable, pc, local, running, starts, history>>

-----------------------------------------------------------------------------
(* The ends.                                                               *)

\* /exit, at the prompt: cleanup stops the servers, kills the registered commands
\* and closes the transcript, or panics without one.
Exit(k) ==
  /\ At(k, "prompt") /\ takesInput(k)
  /\ End(k, IF logger[k] THEN "off" ELSE "panicked")
  /\ UNCHANGED <<disk, local, history>>

\* The end of the input, after which main stops the servers and returns, and the
\* second Ctrl-C, an os.Exit without any cleanup: in the middle of a turn too.
Leave(k) ==
  /\ At(k, pc[k]) /\ (pc[k] = "turn" \/ takesInput(k))
  /\ End(k, "off")
  /\ UNCHANGED <<disk, local, history>>

Kill(k) ==
  /\ At(k, pc[k]) /\ ~Ended(k)
  /\ End(k, "off")
  /\ cut' = cut \cup IF pc[k] = "fill" THEN {file[k]} ELSE {}
  /\ overtaken' = overtaken \ {k}
  /\ UNCHANGED <<disk, local>>

Writing(k) == pc[k] \in {"create", "fill"}

\* A user saves a file, which need not parse.
Edit(f) ==
  /\ writable
  /\ \E content \in {"edited", IF f = "config" THEN "broken" ELSE "edited"} :
       disk' = [disk EXCEPT ![f] = content]
  /\ overtaken' = overtaken \cup {k \in Kattys : Writing(k) /\ file[k] = f}
  /\ cut' = cut \ {f}
  /\ UNCHANGED <<writable, pc, local, processes, starts>>

Main(k) == Look(k) \/ Create(k) \/ Fill(k) \/ Load(k) \/ OpenTranscript(k)

Next ==
  \/ \E k \in Kattys :
       \/ Start(k) \/ Main(k)
       \/ Turn(k) \/ RunCommand(k) \/ CommandEnds(k) \/ StartSession(k)
       \/ TurnEnds(k) \/ SessionEnds(k)
       \/ Exit(k) \/ Leave(k) \/ Kill(k)
  \/ \E job \in Jobs : OrphanEnds(job)
  \/ \E f \in Files : Edit(f)

Spec == Init /\ [][Next]_vars

-----------------------------------------------------------------------------
(* Properties.                                                             *)

Saved == {"edited", "broken"}

\* The only start that changes what a user saved is one whose look at the file came
\* before the save, and found none: a file that was there at the look (os.ReadFile of
\* loadConfig, os.Stat of EnsureDir) is not written, whatever other starts do.
OnlyStaleLooksReplace ==
  [][\A f \in Files :
       disk[f] \in Saved /\ disk'[f] \notin Saved =>
         \E k \in overtaken : file[k] = f /\ pc'[k] # pc[k]]_vars

\* A file that is empty or holds a part of its default is being written, or its
\* write (os.WriteFile in writeConfig and EnsureDir) was cut short behind the
\* truncation, by a kill or an error that is ignored: nothing else damages one.
DamageIsFromCutWrites ==
  \A f \in Files :
    disk[f] = "torn" =>
      f \in cut \/ \E k \in Kattys : pc[k] = "fill" /\ file[k] = f

-----------------------------------------------------------------------------
(* What the repository says and the code does not do.                      *)

\* "Config not found at %s, writing defaults" (main.go:229): defaults are written
\* where there is no file, and what a user saved stays.  Not so, the file may have
\* come between the look and the write.
EditsSurvive ==
  [][\A f \in Files : disk[f] \in Saved => disk'[f] \in Saved]_vars

\* "Config not found ..., writing defaults" (main.go:229): a start fails for the
\* configuration only if the user's own does not parse.
StartsFailForEdits ==
  [][\A k \in Kattys : pc[k] = "look" /\ pc'[k] = "failed" => disk["config"] = "broken"]_vars

\* "Transcript warning" (main.go:200): katty runs on without a transcript.
WarningIsNoPanic == \A k \in Kattys : pc[k] # "panicked"

\* The system context has the startup files that are on the disk by default
\* ("Ensure .katty directory and default files", main.go:121).
StartupFilesRead ==
  \A k \in Kattys : pc[k] = "prompt" /\ writable => \A f \in Startup : read[k][f] # "torn"

\* katty's end is the end of the commands of its turns.
CommandsEndWithKatty == "command" \notin orphans

\* "Exit Katty" (repl.go:926): nothing that katty started is left.
ExitLeavesNothing == (\A k \in Kattys : pc[k] = "off") => orphans = {}
=============================================================================
