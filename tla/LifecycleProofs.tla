-------------------------- MODULE LifecycleProofs ---------------------------
(***************************************************************************)
(* Proofs about Lifecycle, for any number of kattys and of starts: which   *)
(* start may replace what a user saved, and what damages a file, with      *)
(* edits, kills and failing writes at any moment.                          *)
(*                                                                         *)
(* OnlyStaleLooksReplace is not inductive: it rests on what a start knows  *)
(* of the file between its look and its write, which FoundOrOvertaken      *)
(* states: that nobody has saved it, unless the start has been overtaken.  *)
(***************************************************************************)
EXTENDS Lifecycle, TLAPS

\* The part of the type invariant the proofs need.
Typed ==
  /\ disk \in [Files -> Contents]
  /\ pc \in [Kattys -> Places]
  /\ file \in [Kattys -> Files]

FoundOrOvertaken == \A k \in Kattys \ overtaken : Writing(k) => disk[file[k]] \notin Saved

IInv == Typed /\ FoundOrOvertaken /\ DamageIsFromCutWrites

\* What the action property says of one step.
StaleReplace ==
  \A f \in Files :
    disk[f] \in Saved /\ disk'[f] \notin Saved =>
      \E k \in overtaken : file[k] = f /\ pc'[k] # pc[k]

LEMMA InitIInv == Init => IInv
BY DEF Init, IInv, Typed, FoundOrOvertaken, DamageIsFromCutWrites, Writing, Files, Contents,
       Places

\* Where NextFile goes: never to a write.
LEMMA NextFileMoves ==
  ASSUME Typed, NEW k \in Kattys, NextFile(k)
  PROVE  /\ \E place \in {"off", "look", "load"} : GoTo(k, place)
         /\ file' \in [Kattys -> Files]
         /\ \A j \in Kattys \ {k} : file'[j] = file[j]
BY DEF NextFile, GoTo, Typed, Files

\* The steps that leave the disk alone, and send one katty to a place that is not a
\* write (or leave it where it is), keep the invariant.
LEMMA OtherStep ==
  ASSUME IInv, UNCHANGED disk, NEW k \in Kattys,
         file' \in [Kattys -> Files],
         \A j \in Kattys \ {k} : file'[j] = file[j],
         pc' \in [Kattys -> Places],
         \A j \in Kattys \ {k} : pc'[j] = pc[j],
         pc'[k] \notin {"create", "fill"},
         overtaken \ {k} \subseteq overtaken',
         cut \cup (IF pc[k] = "fill" THEN {file[k]} ELSE {}) \subseteq cut'
  PROVE  IInv'
BY DEF IInv, Typed, FoundOrOvertaken, DamageIsFromCutWrites, Writing

\* NextFile behind a step that leaves the disk and the write of this file alone.
LEMMA NextFileStep ==
  ASSUME IInv, UNCHANGED <<disk, cut>>, NEW k \in Kattys, NextFile(k), pc[k] # "fill",
         overtaken \ {k} \subseteq overtaken'
  PROVE  IInv'
<1>1. PICK place \in {"off", "look", "load"} : GoTo(k, place)
  BY NextFileMoves DEF IInv
<1>2. /\ file' \in [Kattys -> Files]
      /\ \A j \in Kattys \ {k} : file'[j] = file[j]
  BY NextFileMoves DEF IInv
<1>3. /\ pc' \in [Kattys -> Places]
      /\ pc'[k] \notin {"create", "fill"}
      /\ \A j \in Kattys \ {k} : pc'[j] = pc[j]
  BY <1>1 DEF GoTo, IInv, Typed, Places
<1> QED
  BY <1>2, <1>3, OtherStep

\* A step of main.
LEMMA MainStep ==
  ASSUME IInv, NEW k \in Kattys, Main(k)
  PROVE  IInv' /\ StaleReplace
<1> USE DEF At, history
<1>1. CASE Look(k)
  <2>1. UNCHANGED <<disk, overtaken, cut>> /\ pc[k] = "look"
    BY <1>1 DEF Look
  <2>2. ASSUME disk[file[k]] = "absent", GoTo(k, "create"), UNCHANGED file
        PROVE  IInv'
    BY <2>1, <2>2 DEF GoTo, IInv, Typed, FoundOrOvertaken, DamageIsFromCutWrites, Writing, Saved,
                      Places
  <2>3. ASSUME GoTo(k, "failed"), UNCHANGED file
        PROVE  IInv'
    BY <2>1, <2>3, OtherStep DEF GoTo, IInv, Typed, Places
  <2>4. ASSUME NextFile(k)
        PROVE  IInv'
    BY <2>1, <2>4, NextFileStep
  <2> QED
    BY <1>1, <2>1, <2>2, <2>3, <2>4 DEF Look, StaleReplace
<1>2. CASE Create(k)
  <2>1. CASE ~writable /\ NextFile(k) /\ UNCHANGED disk /\ overtaken' = overtaken \ {k}
    BY <1>2, <2>1, NextFileStep DEF Create, StaleReplace
  <2>2. CASE /\ disk' = [disk EXCEPT ![file[k]] = "torn"]
             /\ GoTo(k, "fill") /\ UNCHANGED <<file, overtaken>>
    <3>1. pc[k] = "create" /\ UNCHANGED cut
      BY <1>2 DEF Create
    <3>2. IInv'
      BY <2>2, <3>1 DEF GoTo, IInv, Typed, FoundOrOvertaken, DamageIsFromCutWrites, Writing,
                        Saved, Contents, Places
    <3>3. StaleReplace
      <4> SUFFICES ASSUME NEW f \in Files, disk[f] \in Saved, disk'[f] \notin Saved
                   PROVE  \E j \in overtaken : file[j] = f /\ pc'[j] # pc[j]
        BY DEF StaleReplace
      <4>1. f = file[k] /\ k \in overtaken
        BY <2>2, <3>1 DEF IInv, Typed, FoundOrOvertaken, Writing
      <4>2. pc'[k] # pc[k]
        BY <2>2, <3>1 DEF GoTo, IInv, Typed
      <4> QED
        BY <4>1, <4>2
    <3> QED
      BY <3>2, <3>3
  <2> QED
    BY <1>2, <2>1, <2>2 DEF Create
<1>3. CASE Fill(k)
  <2>1. /\ pc[k] = "fill" /\ overtaken' = overtaken \ {k}
        /\ \/ disk' = [disk EXCEPT ![file[k]] = "default"] /\ cut' = cut \ {file[k]}
           \/ disk' = [disk EXCEPT ![file[k]] = "torn"] /\ cut' = cut \cup {file[k]}
    BY <1>3 DEF Fill
  <2>2. PICK place \in {"off", "look", "load"} : GoTo(k, place)
    BY <1>3, NextFileMoves DEF Fill, IInv
  <2>3. /\ file' \in [Kattys -> Files]
        /\ \A j \in Kattys \ {k} : file'[j] = file[j]
    BY <1>3, NextFileMoves DEF Fill, IInv
  <2>4. /\ pc' \in [Kattys -> Places] /\ pc'[k] # pc[k]
        /\ pc'[k] \notin {"create", "fill"}
        /\ \A j \in Kattys \ {k} : pc'[j] = pc[j]
    BY <2>1, <2>2 DEF GoTo, IInv, Typed, Places
  <2>5. IInv'
    BY <2>1, <2>3, <2>4 DEF IInv, Typed, FoundOrOvertaken, DamageIsFromCutWrites, Writing, Saved,
                            Contents
  <2>6. StaleReplace
    <3> SUFFICES ASSUME NEW f \in Files, disk[f] \in Saved, disk'[f] \notin Saved
                 PROVE  \E j \in overtaken : file[j] = f /\ pc'[j] # pc[j]
      BY DEF StaleReplace
    <3>1. f = file[k] /\ k \in overtaken
      BY <2>1 DEF IInv, Typed, FoundOrOvertaken, Writing
    <3> QED
      BY <2>4, <3>1
  <2> QED
    BY <2>5, <2>6
<1>4. CASE Load(k) \/ OpenTranscript(k)
  BY <1>4, OtherStep DEF Load, OpenTranscript, GoTo, IInv, Typed, Files, Places, StaleReplace
<1> QED
  BY <1>1, <1>2, <1>3, <1>4 DEF Main

\* A start, a step of the REPL and an end leave the disk alone.
LEMMA ReplStep ==
  ASSUME IInv, NEW k \in Kattys,
         \/ Start(k)
         \/ Turn(k) \/ RunCommand(k) \/ CommandEnds(k) \/ StartSession(k)
         \/ TurnEnds(k) \/ SessionEnds(k)
         \/ Exit(k) \/ Leave(k) \/ Kill(k)
  PROVE  IInv' /\ UNCHANGED disk
<1> USE DEF At, End, GoTo, local, history, IInv, Typed, Files, Places
<1>1. CASE Start(k)
  BY <1>1, OtherStep DEF Start, Ended
<1>2. CASE RunCommand(k) \/ SessionEnds(k)
  BY <1>2 DEF RunCommand, SessionEnds, FoundOrOvertaken, DamageIsFromCutWrites, Writing
<1>3. CASE Turn(k) \/ TurnEnds(k)
  BY <1>3, OtherStep DEF Turn, TurnEnds
<1>4. CASE StartSession(k)
  BY <1>4, OtherStep DEF StartSession
<1>5. CASE Exit(k) \/ Leave(k)
  BY <1>5, OtherStep DEF Exit, Leave, takesInput
<1>6. CASE Kill(k)
  BY <1>6, OtherStep DEF Kill
<1>7. CASE CommandEnds(k)
  <2>1. CASE UNCHANGED pc
    BY <1>7, <2>1 DEF CommandEnds, FoundOrOvertaken, DamageIsFromCutWrites, Writing
  <2>2. CASE GoTo(k, "panicked")
    BY <1>7, <2>2, OtherStep DEF CommandEnds
  <2>3. UNCHANGED pc \/ GoTo(k, "panicked")
    BY <1>7 DEF CommandEnds
  <2> QED
    BY <2>1, <2>2, <2>3
<1> QED
  BY <1>1, <1>2, <1>3, <1>4, <1>5, <1>6, <1>7

\* A save overtakes the starts that are at the file, and leaves a saved file.
LEMMA EditStep ==
  ASSUME IInv, NEW f \in Files, Edit(f)
  PROVE  IInv' /\ StaleReplace
<1>1. PICK content \in {"edited", "broken"} : disk' = [disk EXCEPT ![f] = content]
  BY DEF Edit
<1>2. /\ UNCHANGED <<pc, file>> /\ cut' = cut \ {f}
      /\ overtaken' = overtaken \cup {k \in Kattys : Writing(k) /\ file[k] = f}
  BY DEF Edit, local
<1> QED
  BY <1>1, <1>2 DEF IInv, Typed, FoundOrOvertaken, DamageIsFromCutWrites, Writing, Saved,
                    Contents, StaleReplace

LEMMA NextStep ==
  ASSUME IInv, [Next]_vars
  PROVE  IInv' /\ StaleReplace
<1>1. CASE \E k \in Kattys : Main(k)
  BY <1>1, MainStep
<1>2. CASE \E k \in Kattys :
             \/ Start(k)
             \/ Turn(k) \/ RunCommand(k) \/ CommandEnds(k) \/ StartSession(k)
             \/ TurnEnds(k) \/ SessionEnds(k)
             \/ Exit(k) \/ Leave(k) \/ Kill(k)
  BY <1>2, ReplStep DEF StaleReplace
<1>3. CASE (\E job \in Jobs : OrphanEnds(job)) \/ UNCHANGED vars
  BY <1>3 DEF OrphanEnds, vars, local, history, IInv, Typed, FoundOrOvertaken,
              DamageIsFromCutWrites, Writing, StaleReplace
<1>4. CASE \E f \in Files : Edit(f)
  BY <1>4, EditStep
<1> QED
  BY <1>1, <1>2, <1>3, <1>4 DEF Next

\* The invariant holds throughout.
LEMMA Invariance == Spec => []IInv
<1>1. IInv /\ [Next]_vars => IInv'
  BY NextStep
<1> QED
  BY <1>1, InitIInv, PTL DEF Spec

\* os.WriteFile in writeConfig and EnsureDir: a file that is empty or half written is
\* being written, or its write was killed or failed; nothing else damages it.
THEOREM DamageExplained == Spec => []DamageIsFromCutWrites
<1>1. IInv => DamageIsFromCutWrites
  BY DEF IInv
<1> QED
  BY <1>1, Invariance, PTL

\* loadConfig and EnsureDir replace what a user saved only where it was saved between
\* their look at the file, which found none, and their write.
THEOREM ReplacesOnlyWhenOvertaken == Spec => OnlyStaleLooksReplace
<1>1. IInv /\ [Next]_vars => [StaleReplace]_vars
  BY NextStep
<1> QED
  BY <1>1, Invariance, PTL DEF Spec, OnlyStaleLooksReplace, StaleReplace

-----------------------------------------------------------------------------
(* Types.                                                                  *)

LEMMA TypeStep == TypeOK /\ [Next]_vars => TypeOK'
<1> SUFFICES ASSUME TypeOK, [Next]_vars PROVE TypeOK'
  OBVIOUS
<1> USE DEF At, local, processes, history
<1>1. CASE UNCHANGED vars
  BY <1>1 DEF vars, TypeOK
<1>2. ASSUME NEW k \in Kattys, Look(k) \/ Create(k) \/ Fill(k)
      PROVE  TypeOK'
  <2>1. UNCHANGED <<writable, starts, mode, read, logger, running, orphans>>
    BY <1>2 DEF Look, Create, Fill
  <2>2. disk' \in [Files -> Contents] /\ overtaken' \subseteq Kattys /\ cut' \subseteq Files
    BY <1>2 DEF Look, Create, Fill, TypeOK, Contents
  <2>3. CASE NextFile(k)
    <3>1. /\ \E place \in {"off", "look", "load"} : GoTo(k, place)
          /\ file' \in [Kattys -> Files]
      BY <2>3, NextFileMoves DEF TypeOK, Typed
    <3> QED
      BY <2>1, <2>2, <3>1 DEF GoTo, TypeOK, Places
  <2>4. CASE UNCHANGED file /\ \E place \in Places : GoTo(k, place)
    BY <2>1, <2>2, <2>4 DEF GoTo, TypeOK
  <2> QED
    BY <1>2, <2>3, <2>4 DEF Look, Create, Fill, Places
<1>3. ASSUME NEW k \in Kattys, Load(k)
      PROVE  TypeOK'
  <2>1. PICK place \in Places : pc' = [pc EXCEPT ![k] = place] \/ UNCHANGED pc
    BY <1>3 DEF Load, GoTo, Places
  <2>2. read' = [read EXCEPT ![k][file[k]] = disk[file[k]]] /\ disk[file[k]] \in Contents
    BY <1>3 DEF Load, TypeOK
  <2>3. read' \in [Kattys -> [Startup -> Contents]]
    BY <2>2 DEF TypeOK
  <2>4. file' \in [Kattys -> Files]
    BY <1>3 DEF Load, TypeOK, Files
  <2> QED
    BY <1>3, <2>1, <2>3, <2>4 DEF Load, TypeOK
<1>4. ASSUME NEW k \in Kattys, OpenTranscript(k) \/ TurnEnds(k)
      PROVE  TypeOK'
  BY <1>4 DEF OpenTranscript, TurnEnds, GoTo, TypeOK, Places
<1>5. ASSUME NEW k \in Kattys, Start(k)
      PROVE  TypeOK'
  <2>1. starts' \in 0 .. MaxStarts /\ file' \in [Kattys -> Files]
    BY <1>5, LifecycleAssumption DEF Start, TypeOK, Files
  <2>2. read' \in [Kattys -> [Startup -> Contents]]
    BY <1>5 DEF Start, TypeOK, Contents
  <2> QED
    BY <1>5, <2>1, <2>2 DEF Start, GoTo, TypeOK, Places
<1>6. ASSUME NEW k \in Kattys,
             RunCommand(k) \/ CommandEnds(k) \/ StartSession(k) \/ SessionEnds(k)
      PROVE  TypeOK'
  <2>1. UNCHANGED <<disk, writable, file, mode, read, logger, starts, overtaken, cut>>
    BY <1>6 DEF RunCommand, CommandEnds, StartSession, SessionEnds
  <2>2. PICK jobs \in SUBSET Jobs : running' = [running EXCEPT ![k] = jobs]
    BY <1>6 DEF RunCommand, CommandEnds, StartSession, SessionEnds, TypeOK, Jobs
  <2>3. orphans' \subseteq Jobs
    BY <1>6 DEF RunCommand, CommandEnds, StartSession, SessionEnds, TypeOK, Jobs
  <2>4. pc' \in [Kattys -> Places]
    BY <1>6 DEF RunCommand, CommandEnds, StartSession, SessionEnds, GoTo, TypeOK, Places
  <2> QED
    BY <2>1, <2>2, <2>3, <2>4 DEF TypeOK
<1>7. ASSUME NEW k \in Kattys, Turn(k) \/ Exit(k) \/ Leave(k) \/ Kill(k)
      PROVE  TypeOK'
  <2>1. /\ UNCHANGED <<disk, writable, file, mode, read, logger, starts>>
        /\ overtaken' \subseteq Kattys /\ cut' \subseteq Files
    BY <1>7 DEF Turn, Exit, Leave, Kill, TypeOK
  <2>2. \/ GoTo(k, "turn") /\ UNCHANGED <<running, orphans>>
        \/ \E how \in {"off", "panicked"} : End(k, how)
    BY <1>7 DEF Turn, Exit, Leave, Kill
  <2> QED
    BY <2>1, <2>2 DEF End, GoTo, TypeOK, Places
<1>8. CASE \E job \in Jobs : OrphanEnds(job)
  BY <1>8 DEF OrphanEnds, TypeOK
<1>9. CASE \E f \in Files : Edit(f)
  BY <1>9 DEF Edit, TypeOK, Contents
<1> QED
  BY <1>1, <1>2, <1>3, <1>4, <1>5, <1>6, <1>7, <1>8, <1>9 DEF Next, Main

\* The places of main, the files, the processes and the count of starts keep their
\* types, whatever is killed or edited and when.
THEOREM TypeCorrect == Spec => []TypeOK
<1>1. Init => TypeOK
  BY LifecycleAssumption DEF Init, TypeOK, Files, Startup, Contents, Places
<1> QED
  BY <1>1, TypeStep, PTL DEF Spec
=============================================================================
