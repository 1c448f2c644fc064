----------------------------- MODULE ReplProofs -----------------------------
(***************************************************************************)
(* Theorems about Repl, for every set of lines and calls and every bound:  *)
(* its state and its prompt; r.messages, which implements Conversation and *)
(* is fit to be sent whenever it is; and the transcript, which records it. *)
(***************************************************************************)
EXTENDS Repl, SelectionProofs, FiniteSetTheorems

USE DEF Msg, Logged, Return, TurnAt, Selecting, StartTurn, turnVars,
        unchangedByTurn, mainVars, loopVars

\* A tool runs, and has a result, only with a call at hand, so the calls left after it
\* are a sequence: what type correctness needs besides itself.
CallAtHand == pc \in {"start", "exec", "result"} => calls # <<>>

\* A message or a transcript line made for the turn is one.
LEMMA MsgTyped ==
  ASSUME TypeOK, NEW kind \in MessageKinds
  PROVE  Msg(kind) \in Message
  BY DEF TypeOK, Message

LEMMA LoggedTyped ==
  ASSUME TypeOK, NEW kind \in {"user", "assistant", "tool"}
  PROVE  Logged(kind) \in Seq(Entry)
  BY DEF TypeOK, Entry

\* Rolling back gives a prefix of the messages.
LEMMA RolledBackProperties ==
  ASSUME NEW S, NEW msgs \in Seq(S), NEW length \in Nat
  PROVE  /\ RolledBack(msgs, length) \in Seq(S)
         /\ length <= Len(msgs) =>
              RolledBack(msgs, length) = SubSeq(msgs, 1, length)
  <1>1. CASE length > Len(msgs)
    BY <1>1 DEF RolledBack
  <1>2. CASE length <= Len(msgs)
    <2>1. \A i \in 1 .. length : msgs[i] \in S
      BY <1>2, ElementOfSeq
    <2>2. SubSeq(msgs, 1, length) \in Seq(S)
      BY <2>1, SubSeqProperties
    <2>3. RolledBack(msgs, length) = SubSeq(msgs, 1, length)
      BY <1>2 DEF RolledBack
    <2> QED BY <2>2, <2>3
  <1> QED BY <1>1, <1>2

\* A reply's calls, a function on 1 .. n, are a sequence.
LEMMA CallsTyped ==
  ASSUME NEW n \in Nat, NEW c \in [1 .. n -> Calls]
  PROVE  c \in Seq(Calls) /\ Len(c) = n
  BY SeqDef

-----------------------------------------------------------------------------
\* Type correctness of the main goroutine's steps.
LEMMA MainTyped ==
  ASSUME TypeOK, Main
  PROVE  TypeOK'
  <1> USE ReplAssumption
  <1>1. ASSUME NEW line \in Lines, PromptLine(line)
        PROVE  TypeOK'
    BY <1>1 DEF TypeOK, PromptLine, States, TurnPcs
  <1>2. ASSUME NEW line \in Lines, ShellStart(line)
        PROVE  TypeOK'
    BY <1>2 DEF TypeOK, ShellStart, States, MainPcs
  <1>3. ASSUME NEW line \in Lines, Steer(line)
        PROVE  TypeOK'
    BY <1>3 DEF TypeOK, Steer, States, MainPcs
  <1>4. CASE ShellDone
    BY <1>4 DEF TypeOK, ShellDone, States, MainPcs
  <1>5. CASE Interrupt
    BY <1>5 DEF TypeOK, Interrupt, States, MainPcs
  <1>6. CASE CancelTurn
    BY <1>6 DEF TypeOK, CancelTurn, Causes, MainPcs
  <1>7. CASE CtrlCExpires
    BY <1>7 DEF TypeOK, CtrlCExpires
  <1>8. CASE TurnFinished
    <2>1. messages' \in Seq(Message)
      BY <1>8, RolledBackProperties DEF TypeOK, TurnFinished
    <2> QED BY <1>8, <2>1 DEF TypeOK, TurnFinished, States, TurnPcs
  <1>9. CASE Quit
    BY <1>9 DEF TypeOK, Quit
  <1> QED
    BY <1>1, <1>2, <1>3, <1>4, <1>5, <1>6, <1>7, <1>8, <1>9 DEF Main

\* Type correctness of the turn's steps.
LEMMA TurnTyped ==
  ASSUME TypeOK, CallAtHand, Turn
  PROVE  TypeOK'
  <1> USE ReplAssumption
  <1>1. CASE TurnBegin
    <2>1. messages' \in Seq(Message) /\ transcript' \in Seq(Entry)
      BY <1>1, MsgTyped, LoggedTyped DEF TypeOK, TurnBegin, MessageKinds
    <2> QED BY <1>1, <2>1 DEF TypeOK, TurnBegin, TurnPcs
  <1>2. CASE TurnArm
    BY <1>2 DEF TypeOK, TurnArm, TurnPcs, Causes
  <1>3. CASE RoundCheck
    BY <1>3 DEF TypeOK, RoundCheck, TurnPcs, Causes
  <1>4. CASE Request
    BY <1>4 DEF TypeOK, Request, TurnPcs, States
  <1>5. CASE ToolCheck
    BY <1>5 DEF TypeOK, ToolCheck, TurnPcs, Causes
  <1>6. CASE ToolStart
    BY <1>6 DEF TypeOK, ToolStart, TurnPcs, States
  <1>7. CASE TurnReturn
    BY <1>7 DEF TypeOK, TurnReturn, TurnPcs
  <1>8. CASE ChatFails
    BY <1>8 DEF TypeOK, ChatFails, TurnPcs
  <1>9. CASE ChatEmpty
    BY <1>9 DEF TypeOK, ChatEmpty, TurnPcs, Causes
  <1>10. ASSUME messages' = Append(messages, Msg("assistant")),
                transcript' = Logged("assistant")
         PROVE  messages' \in Seq(Message) /\ transcript' \in Seq(Entry)
    BY <1>10, MsgTyped, LoggedTyped DEF TypeOK, MessageKinds
  <1>18. CASE ChatPasses
    BY <1>18 DEF TypeOK, ChatPasses, TurnPcs
  <1>11. CASE ChatAnswer
    <2>1. messages' \in Seq(Message) /\ transcript' \in Seq(Entry)
      BY <1>10, <1>11 DEF ChatAnswer
    <2> QED BY <1>11, <2>1 DEF TypeOK, ChatAnswer, TurnPcs, Causes
  <1>12. CASE ChatDangling
    <2>1. transcript' \in Seq(Entry)
      BY <1>12, LoggedTyped DEF ChatDangling
    <2>2. <<Msg("assistant"), Msg("control")>> \in Seq(Message)
      BY MsgTyped DEF MessageKinds
    <2>3. messages' \in Seq(Message)
      BY <1>12, <2>2, ConcatProperties DEF ChatDangling, TypeOK
    <2> QED BY <1>12, <2>1, <2>3 DEF TypeOK, ChatDangling, TurnPcs
  <1>13. CASE ChatCalls
    <2>1. messages' \in Seq(Message) /\ transcript' \in Seq(Entry)
      BY <1>10, <1>13 DEF ChatCalls
    <2>2. calls' \in Seq(Calls)
      BY <1>13, CallsTyped DEF ChatCalls
    <2> QED BY <1>13, <2>1, <2>2 DEF TypeOK, ChatCalls, TurnPcs
  <1>14. ToolLogged \in Seq(Entry)
    BY LoggedTyped DEF TypeOK, ToolLogged
  <1>15. CASE ToolCancelled
    BY <1>14, <1>15 DEF TypeOK, ToolCancelled, TurnPcs
  <1>19. CASE ToolPasses
    BY <1>14, <1>19 DEF TypeOK, ToolPasses, TurnPcs
  <1>20. ResultKind \in MessageKinds /\ TombstoneKind \in MessageKinds
    BY DEF ResultKind, TombstoneKind, MessageKinds
  <1>16. CASE ToolShown
    <2>1. messages' \in Seq(Message)
      BY <1>16, <1>20, MsgTyped, AppendProperties DEF TypeOK, ToolShown
    <2> QED BY <1>16, <2>1 DEF TypeOK, ToolShown, TurnPcs, Causes
  <1>17. CASE ToolResult
    <2>1. messages' \in Seq(Message)
      BY <1>17, <1>20, MsgTyped, AppendProperties DEF TypeOK, ToolResult
    <2>2. calls' \in Seq(Calls)
      BY <1>17, HeadTailProperties DEF TypeOK, ToolResult, CallAtHand
    <2> QED BY <1>17, <2>1, <2>2 DEF TypeOK, ToolResult, TurnPcs
  <1> QED
    BY <1>1, <1>2, <1>3, <1>4, <1>5, <1>6, <1>7, <1>8, <1>9, <1>11, <1>12,
       <1>13, <1>15, <1>16, <1>17, <1>18, <1>19
       DEF Turn, TurnRuns, TakesReply, TakesResult, ChatReturns, ToolReturns

\* The calls that are left are not empty while one of them runs.
LEMMA CallAtHandKept ==
  ASSUME TypeOK, CallAtHand, [Next]_vars
  PROVE  CallAtHand'
  <1>1. CASE Main
    BY <1>1 DEF CallAtHand, Main, PromptLine, ShellStart, Steer, ShellDone, Interrupt,
       CancelTurn, CtrlCExpires, TurnFinished, Quit
  <1>2. CASE Turn
    BY <1>2 DEF CallAtHand, Turn, TurnRuns, TakesReply, TakesResult, ChatReturns,
       ToolReturns, TurnBegin, TurnArm, RoundCheck, Request, ToolCheck, ToolStart,
       TurnReturn, ChatFails, ChatEmpty, ChatPasses, ChatAnswer, ChatDangling,
       ChatCalls, ToolCancelled, ToolPasses, ToolShown, ToolResult
  <1>3. CASE UNCHANGED vars
    BY <1>3 DEF CallAtHand, vars
  <1> QED BY <1>1, <1>2, <1>3 DEF Next, Exited

\* The two together are inductive.
LEMMA Typed == Spec => [](TypeOK /\ CallAtHand)
  <1>1. Init => TypeOK /\ CallAtHand
    <2> SUFFICES ASSUME Init
                 PROVE  TypeOK /\ CallAtHand
      OBVIOUS
    <2>1. [kind |-> "system", turn |-> 0] \in Message
      BY DEF Message, MessageKinds
    <2>2. messages \in Seq(Message) /\ transcript \in Seq(Entry) /\ calls \in Seq(Calls)
      BY <2>1 DEF Init
    <2>3. CallAtHand
      BY DEF Init, CallAtHand
    <2> QED
      BY <2>2, <2>3 DEF Init, TypeOK, States, Causes, TurnPcs, MainPcs
  <1>2. TypeOK /\ CallAtHand /\ [Next]_vars => (TypeOK /\ CallAtHand)'
    <2>1. ASSUME TypeOK, UNCHANGED vars
          PROVE  TypeOK'
      BY <2>1 DEF TypeOK, vars
    <2> QED BY <2>1, MainTyped, TurnTyped, CallAtHandKept DEF Next, Exited
  <1> QED BY <1>1, <1>2, PTL DEF Spec

\* Every variable of the REPL keeps its type.
THEOREM TypeCorrect == Spec => []TypeOK
  BY Typed, PTL

-----------------------------------------------------------------------------
(* The prompt.                                                             *)

\* PromptIffIdle is not inductive: the end of a "!" command makes the state
\* "awaiting_user", which is right because no turn can have started meanwhile.
ShellAlone == mainPc = "shell" => pc = "none"

PromptInv == PromptIffIdle /\ ShellAlone

LEMMA MainKeepsPrompt ==
  ASSUME TypeOK, PromptInv, Main
  PROVE  PromptInv'
  <1> USE DEF PromptInv, PromptIffIdle, ShellAlone
  <1>1. ASSUME NEW line \in Lines, PromptLine(line)
        PROVE  PromptInv'
    BY <1>1 DEF PromptLine
  <1>2. ASSUME NEW line \in Lines, ShellStart(line)
        PROVE  PromptInv'
    BY <1>2 DEF ShellStart
  <1>3. ASSUME NEW line \in Lines, Steer(line)
        PROVE  PromptInv'
    BY <1>3 DEF Steer
  <1>4. CASE ShellDone
    BY <1>4 DEF ShellDone
  <1>5. CASE Interrupt
    BY <1>5 DEF Interrupt
  <1>6. CASE CancelTurn
    BY <1>6 DEF CancelTurn
  <1>7. CASE CtrlCExpires
    BY <1>7 DEF CtrlCExpires
  <1>8. CASE TurnFinished
    BY <1>8 DEF TurnFinished
  <1>9. CASE Quit
    BY <1>9 DEF Quit
  <1> QED
    BY <1>1, <1>2, <1>3, <1>4, <1>5, <1>6, <1>7, <1>8, <1>9 DEF Main

\* A step of the turn leaves it in flight and never sets "awaiting_user".
LEMMA TurnStepFacts ==
  ASSUME Turn
  PROVE  /\ pc # "none" /\ pc' # "none"
         /\ UNCHANGED <<running, mainPc, pendingSteer, ctrlCRecent, turn, input>>
         /\ state' \in {state, "assistant_running", "tool_running"}
  <1>1. CASE TurnRuns
    BY <1>1 DEF TurnRuns, TurnBegin, TurnArm, RoundCheck, Request, TakesReply,
       ChatAnswer, ChatDangling, ChatCalls, ToolCheck, ToolStart, TakesResult,
       ToolShown, ToolResult, TurnReturn
  <1>2. CASE ChatReturns
    BY <1>2 DEF ChatReturns, ChatFails, ChatEmpty, ChatPasses
  <1>3. CASE ToolReturns
    BY <1>3 DEF ToolReturns, ToolCancelled, ToolPasses
  <1> QED BY <1>1, <1>2, <1>3 DEF Turn

LEMMA TurnKeepsPrompt ==
  ASSUME TypeOK, PromptInv, Turn
  PROVE  PromptInv'
  BY TurnStepFacts DEF PromptInv, PromptIffIdle, ShellAlone

LEMMA PromptInvariant == Spec => []PromptInv
  <1>1. Init => PromptInv
    BY DEF Init, PromptInv, PromptIffIdle, ShellAlone
  <1>2. TypeOK /\ PromptInv /\ [Next]_vars => PromptInv'
    <2>1. ASSUME PromptInv, UNCHANGED vars
          PROVE  PromptInv'
      BY <2>1 DEF PromptInv, PromptIffIdle, ShellAlone, vars
    <2> QED BY <2>1, MainKeepsPrompt, TurnKeepsPrompt DEF Next, Exited
  <1> QED BY <1>1, <1>2, TypeCorrect, PTL DEF Spec

\* The prompt is there exactly when no turn's goroutine is: main and the turn
\* never write r.messages at the same time, and the REPL never stays closed to
\* input without a turn that will reopen it.
THEOREM PromptExact == Spec => []PromptIffIdle
  BY PromptInvariant, PTL DEF PromptInv

\* r.turnCancel never outlives the context it cancels.
THEOREM CancelHandleExact == Spec => []CancelReachesTheTurn
  <1>1. Init => CancelReachesTheTurn
    BY DEF Init, CancelReachesTheTurn
  <1>2. PromptInv /\ CancelReachesTheTurn /\ [Next]_vars => CancelReachesTheTurn'
    <2> SUFFICES ASSUME PromptInv, CancelReachesTheTurn, [Next]_vars
                 PROVE  CancelReachesTheTurn'
      OBVIOUS
    <2> USE DEF CancelReachesTheTurn, PromptInv, PromptIffIdle, ShellAlone
    <2>1. CASE Main
      <3>1. ASSUME NEW line \in Lines,
                   PromptLine(line) \/ ShellStart(line) \/ Steer(line)
            PROVE  CancelReachesTheTurn'
        BY <3>1 DEF PromptLine, ShellStart, Steer
      <3>2. CASE ShellDone \/ CancelTurn
        BY <3>2 DEF ShellDone, CancelTurn
      <3>3. CASE Interrupt \/ CtrlCExpires \/ Quit
        BY <3>3 DEF Interrupt, CtrlCExpires, Quit
      <3>4. CASE TurnFinished
        BY <3>4 DEF TurnFinished
      <3> QED BY <2>1, <3>1, <3>2, <3>3, <3>4 DEF Main
    <2>2. CASE TurnRuns
      BY <2>2 DEF TurnRuns, TurnBegin, TurnArm, RoundCheck, Request, TakesReply,
         ChatAnswer, ChatDangling, ChatCalls, ToolCheck, ToolStart, TakesResult,
         ToolShown, ToolResult, TurnReturn
    <2>3. CASE ChatReturns
      BY <2>3 DEF ChatReturns, ChatFails, ChatEmpty, ChatPasses
    <2>4. CASE ToolReturns
      BY <2>4 DEF ToolReturns, ToolCancelled, ToolPasses
    <2>5. CASE UNCHANGED vars
      BY <2>5 DEF vars
    <2> QED BY <2>1, <2>2, <2>3, <2>4, <2>5 DEF Next, Turn, Exited
  <1> QED BY <1>1, <1>2, PromptInvariant, PTL DEF Spec

-----------------------------------------------------------------------------
(* The messages.                                                           *)

\* The turn in progress owns the messages behind base, at least its request;
\* turn numbers stay within the bound.
HistoryInv ==
  /\ pendingSteer # NoLine => turn < MaxTurns
  /\ pc # "none" => turn \in 1 .. MaxTurns
  /\ InTurn => base < Len(messages)

Replies == [kind : MessageKinds \ {"system", "user"}, turn : 1 .. MaxTurns]

-----------------------------------------------------------------------------
(* Sequences.                                                              *)

\* A prefix, and what stands behind it, of a sequence that got longer.
LEMMA PrefixOfLonger ==
  ASSUME NEW S, NEW m \in Seq(S), NEW s \in Seq(S), NEW n \in 0 .. Len(m)
  PROVE  SubSeq(m \o s, 1, n) = SubSeq(m, 1, n)
  <1>1. CASE n = 0
    BY <1>1, SubSeqEmpty
  <1>2. CASE n # 0
    <2>1. 1 \in 1 .. Len(m) /\ n \in 1 .. Len(m)
      BY <1>2
    <2> QED BY <2>1, SubSeqOfConcat1
  <1> QED BY <1>1, <1>2

\* The elements of the part of a sequence behind its first n.
LEMMA SuffixElements ==
  ASSUME NEW S, NEW m \in Seq(S), NEW n \in Nat, n <= Len(m)
  PROVE  /\ SubSeq(m, n + 1, Len(m)) \in Seq(S)
         /\ Len(SubSeq(m, n + 1, Len(m))) = Len(m) - n
         /\ \A i \in 1 .. Len(m) - n : SubSeq(m, n + 1, Len(m))[i] = m[n + i]
  <1>1. \A i \in n + 1 .. Len(m) : m[i] \in S
    BY ElementOfSeq
  <1>2. /\ SubSeq(m, n + 1, Len(m)) \in Seq(S)
        /\ Len(SubSeq(m, n + 1, Len(m))) =
             IF n + 1 <= Len(m) THEN Len(m) - (n + 1) + 1 ELSE 0
        /\ \A i \in 1 .. Len(m) - (n + 1) + 1 :
             SubSeq(m, n + 1, Len(m))[i] = m[n + 1 + i - 1]
    <2>1. n + 1 \in Int /\ Len(m) \in Int
      BY LenProperties
    <2> QED BY <1>1, <2>1, SubSeqProperties
  <1> QED BY <1>2

\* The part of m \o s behind the first n of m is the part of m behind them,
\* then s.
LEMMA SuffixOfLonger ==
  ASSUME NEW S, NEW m \in Seq(S), NEW s \in Seq(S), NEW n \in Nat, n <= Len(m)
  PROVE  SubSeq(m \o s, n + 1, Len(m \o s)) = SubSeq(m, n + 1, Len(m)) \o s
  <1> DEFINE long == m \o s
             left == SubSeq(long, n + 1, Len(long))
             suffix == SubSeq(m, n + 1, Len(m))
  <1>1. /\ long \in Seq(S) /\ Len(long) = Len(m) + Len(s)
        /\ \A i \in 1 .. Len(m) + Len(s) :
             long[i] = IF i <= Len(m) THEN m[i] ELSE s[i - Len(m)]
    BY ConcatProperties
  <1>2. Len(m) \in Nat /\ Len(s) \in Nat
    BY LenProperties
  <1>3. /\ left \in Seq(S) /\ Len(left) = Len(long) - n
        /\ \A i \in 1 .. Len(long) - n : left[i] = long[n + i]
    <2> HIDE DEF long
    <2>1. n <= Len(long)
      BY <1>1, <1>2
    <2> QED BY <1>1, <2>1, SuffixElements
  <1>4. /\ suffix \in Seq(S) /\ Len(suffix) = Len(m) - n
        /\ \A i \in 1 .. Len(m) - n : suffix[i] = m[n + i]
    BY SuffixElements
  <1> HIDE DEF long, left, suffix
  <1>5. /\ suffix \o s \in Seq(S)
        /\ Len(suffix \o s) = Len(suffix) + Len(s)
        /\ \A i \in 1 .. Len(suffix) + Len(s) :
             (suffix \o s)[i] =
               IF i <= Len(suffix) THEN suffix[i] ELSE s[i - Len(suffix)]
    BY <1>4, ConcatProperties
  <1>6. Len(left) = Len(suffix \o s)
    BY <1>1, <1>2, <1>3, <1>4, <1>5
  <1>7. ASSUME NEW i \in 1 .. Len(left)
        PROVE  left[i] = (suffix \o s)[i]
    <2>1. left[i] = IF n + i <= Len(m) THEN m[n + i] ELSE s[n + i - Len(m)]
      BY <1>1, <1>2, <1>3
    <2>2. (suffix \o s)[i] = IF i <= Len(m) - n THEN m[n + i] ELSE s[i - (Len(m) - n)]
      BY <1>1, <1>2, <1>3, <1>4, <1>5
    <2>3. n + i - Len(m) = i - (Len(m) - n)
      BY <1>2
    <2>4. n + i <= Len(m) <=> i <= Len(m) - n
      BY <1>2
    <2> QED BY <2>1, <2>2, <2>3, <2>4
  <1>8. left = suffix \o s
    BY <1>3, <1>5, <1>6, <1>7, SeqEqual
  <1> QED BY <1>8 DEF left, suffix, long

-----------------------------------------------------------------------------
(* The messages of the turn in progress.                                   *)

\* The steps that append to the messages, once the turn has its base.
Appends(s) ==
  /\ pc \in {"reply", "result"}
  /\ pc' # "none"
  /\ InTurn'
  /\ base' = base
  /\ messages' = messages \o s

\* The steps of the turn that leave messages, base and "being in a turn" alone.
KeepsMessages ==
  /\ pc # "none" /\ pc' # "none"
  /\ InTurn' = InTurn
  /\ UNCHANGED <<messages, base, turn>>

\* Every step of the turn opens it, appends replies to it, or leaves it alone.
LEMMA TurnStepKinds ==
  ASSUME TypeOK, HistoryInv, Turn
  PROVE  \/ TurnBegin
         \/ \E s \in Seq(Replies) : s # <<>> /\ Appends(s)
         \/ KeepsMessages
  <1> DEFINE Goal == \/ TurnBegin
                     \/ \E s \in Seq(Replies) : s # <<>> /\ Appends(s)
                     \/ KeepsMessages
  <1>1. \A kind \in MessageKinds \ {"system", "user"} :
          pc # "none" => Msg(kind) \in Replies
    BY DEF HistoryInv, Replies
  <1>2. ASSUME NEW kind \in MessageKinds \ {"system", "user"},
               pc \in {"reply", "result"}, pc' \in {"return", "tool"}, base' = base,
               messages' = Append(messages, Msg(kind))
        PROVE  Goal
    <2>1. <<Msg(kind)>> \in Seq(Replies) /\ <<Msg(kind)>> # <<>>
      BY <1>1, <1>2
    <2>2. Msg(kind) \in Message
      BY MsgTyped
    <2>3. messages' = messages \o <<Msg(kind)>>
      BY <1>2, <2>2, AppendIsConcat DEF TypeOK
    <2>4. Appends(<<Msg(kind)>>)
      BY <1>2, <2>3 DEF Appends, InTurn
    <2> QED BY <2>1, <2>4
  <1>3. CASE TurnBegin
    BY <1>3
  <1>4. CASE TurnArm \/ RoundCheck \/ Request \/ ToolCheck \/ ToolStart \/ TurnReturn
    BY <1>4 DEF TurnArm, RoundCheck, Request, ToolCheck, ToolStart, TurnReturn,
       KeepsMessages, InTurn
  <1>5. CASE ChatFails \/ ChatEmpty \/ ChatPasses \/ ToolCancelled \/ ToolPasses
    BY <1>5 DEF ChatFails, ChatEmpty, ChatPasses, ToolCancelled, ToolPasses,
       KeepsMessages, InTurn
  <1>11. /\ ResultKind \in MessageKinds \ {"system", "user"}
         /\ TombstoneKind \in MessageKinds \ {"system", "user"}
    BY DEF ResultKind, TombstoneKind, MessageKinds
  <1>6. CASE ChatAnswer
    BY <1>2, <1>6 DEF ChatAnswer, MessageKinds
  <1>7. CASE ChatCalls
    BY <1>2, <1>7 DEF ChatCalls, MessageKinds
  <1>8. CASE ToolShown
    BY <1>2, <1>8, <1>11 DEF ToolShown
  <1>9. CASE ToolResult
    BY <1>2, <1>9, <1>11 DEF ToolResult
  <1>10. CASE ChatDangling
    <2>1. pc = "reply" /\ pc' = "round"
      BY <1>10 DEF ChatDangling
    <2>2. <<Msg("assistant"), Msg("control")>> \in Seq(Replies)
      BY <1>1, <2>1 DEF MessageKinds
    <2>3. Appends(<<Msg("assistant"), Msg("control")>>)
      BY <1>10, <2>1 DEF ChatDangling, Appends, InTurn
    <2> QED BY <2>2, <2>3
  <1> QED
    BY <1>3, <1>4, <1>5, <1>6, <1>7, <1>8, <1>9, <1>10
       DEF Turn, TurnRuns, TakesReply, TakesResult, ChatReturns, ToolReturns

LEMMA RepliesAreMessages == Replies \subseteq Message
  BY DEF Replies, Message

\* Main leaves the history alone but for the rollback.
LEMMA MainStepKinds ==
  ASSUME Main
  PROVE  TurnFinished \/ (UNCHANGED <<messages, base>> /\ InTurn' = InTurn)
                      \/ (UNCHANGED <<messages, base>> /\ state = "awaiting_user" /\ pc' = "begin")
  BY DEF Main, PromptLine, ShellStart, Steer, ShellDone, Interrupt, CancelTurn,
     CtrlCExpires, Quit, InTurn

LEMMA HistoryKept ==
  ASSUME TypeOK, PromptInv, HistoryInv, [Next]_vars
  PROVE  HistoryInv'
  <1>1. CASE Main
    <2>1. (pendingSteer # NoLine => turn < MaxTurns)'
      BY <1>1, ReplAssumption DEF TypeOK, PromptInv, PromptIffIdle, HistoryInv, Main,
         PromptLine, ShellStart, Steer, ShellDone, Interrupt, CancelTurn, CtrlCExpires,
         TurnFinished, Quit
    <2>2. (pc # "none" => turn \in 1 .. MaxTurns)'
      BY <1>1, ReplAssumption DEF TypeOK, PromptInv, PromptIffIdle, HistoryInv, Main,
         PromptLine, ShellStart, Steer, ShellDone, Interrupt, CancelTurn, CtrlCExpires,
         TurnFinished, Quit
    <2>3. CASE TurnFinished
      <3>1. ~InTurn'
        BY <2>3 DEF TurnFinished, InTurn
      <3> QED BY <2>1, <2>2, <3>1 DEF HistoryInv
    <2>4. CASE UNCHANGED <<messages, base>> /\ InTurn' = InTurn
      BY <2>1, <2>2, <2>4 DEF HistoryInv
    <2>5. CASE UNCHANGED <<messages, base>> /\ pc' = "begin"
      BY <2>1, <2>2, <2>5 DEF HistoryInv, InTurn
    <2> QED BY <1>1, <2>3, <2>4, <2>5, MainStepKinds
  <1>2. CASE Turn
    <2>1. UNCHANGED <<pendingSteer, turn>> /\ pc # "none"
      BY <1>2, TurnStepFacts
    <2>2. (InTurn => base < Len(messages))'
      <3>1. CASE TurnBegin
        <4>1. Msg("user") \in Message
          BY MsgTyped DEF MessageKinds
        <4>2. Len(messages') = Len(messages) + 1 /\ Len(messages) \in Nat
          BY <3>1, <4>1, AppendProperties, LenProperties DEF TurnBegin, TypeOK
        <4> QED BY <3>1, <4>2 DEF TurnBegin
      <3>2. CASE \E s \in Seq(Replies) : s # <<>> /\ Appends(s)
        <4>1. PICK s \in Seq(Replies) : s # <<>> /\ Appends(s)
          BY <3>2
        <4>2. s \in Seq(Message)
          BY RepliesAreMessages, SeqMonotonic
        <4>3. Len(messages') = Len(messages) + Len(s)
          BY <4>1, <4>2, ConcatProperties DEF Appends, TypeOK
        <4>4. base < Len(messages)
          BY <4>1 DEF Appends, HistoryInv, InTurn
        <4>5. Len(messages) \in Nat /\ Len(s) \in Nat /\ base \in Nat
          BY <4>2, LenProperties DEF TypeOK
        <4> QED BY <4>1, <4>3, <4>4, <4>5 DEF Appends
      <3>3. CASE KeepsMessages
        BY <3>3 DEF KeepsMessages, HistoryInv
      <3> QED BY <1>2, <3>1, <3>2, <3>3, TurnStepKinds
    <2> QED BY <2>1, <2>2 DEF HistoryInv
  <1>3. CASE UNCHANGED vars
    BY <1>3 DEF vars, HistoryInv, InTurn
  <1> QED BY <1>1, <1>2, <1>3 DEF Next, Exited

LEMMA HistoryInvariant == Spec => []HistoryInv
  <1>1. Init => HistoryInv
    BY DEF Init, HistoryInv, InTurn
  <1> QED BY <1>1, HistoryKept, TypeCorrect, PromptInvariant, PTL DEF Spec

-----------------------------------------------------------------------------
(* The refinement.                                                         *)

USE DEF InTurn, History, Open

\* The request opens the turn and leaves the history alone.
LEMMA BeginRefines ==
  ASSUME TypeOK, HistoryInv, TurnBegin
  PROVE  Conversation!Begin
  <1>1. Msg("user") \in Message
    BY MsgTyped DEF MessageKinds
  <1>2. Msg("user") \in [kind : {"user"}, turn : 1 .. MaxTurns]
    BY DEF HistoryInv, TurnBegin
  <1>3. messages \in Seq(Message) /\ Len(messages) \in Nat
    BY LenProperties DEF TypeOK
  <1>4. /\ messages' = messages \o <<Msg("user")>>
        /\ base' = Len(messages)
        /\ Len(messages') = Len(messages) + 1
    BY <1>1, <1>3, AppendIsConcat, AppendProperties DEF TurnBegin
  <1>5. <<Msg("user")>> \in Seq(Message)
    BY <1>1
  <1>6. SubSeq(messages', 1, base') = messages
    BY <1>3, <1>4, <1>5, PrefixOfLonger, SubSeqFull
  <1>7. SubSeq(messages', base' + 1, Len(messages')) = <<Msg("user")>>
    <2>1. SubSeq(messages, Len(messages) + 1, Len(messages)) = <<>>
      BY <1>3, SubSeqEmpty
    <2>2. SubSeq(messages', base' + 1, Len(messages')) = <<>> \o <<Msg("user")>>
      <3>1. Len(messages) <= Len(messages)
        BY <1>3
      <3>2. SubSeq(messages \o <<Msg("user")>>, Len(messages) + 1,
                   Len(messages \o <<Msg("user")>>))
              = SubSeq(messages, Len(messages) + 1, Len(messages)) \o <<Msg("user")>>
        BY <1>3, <1>5, <3>1, SuffixOfLonger
      <3> QED BY <1>4, <2>1, <3>2
    <2> QED BY <1>5, <2>2, ConcatEmptySeq
  <1>8. ~InTurn /\ InTurn'
    BY DEF TurnBegin
  <1> QED
    BY <1>2, <1>6, <1>7, <1>8 DEF Conversation!Begin

\* Whatever the loop appends extends the open turn.
LEMMA AppendRefines ==
  ASSUME TypeOK, HistoryInv, NEW s \in Seq(Replies), s # <<>>, Appends(s)
  PROVE  Conversation!Extend
  <1>1. s \in Seq(Message)
    BY RepliesAreMessages, SeqMonotonic
  <1>2. messages \in Seq(Message) /\ Len(messages) \in Nat /\ base \in Nat
    BY LenProperties DEF TypeOK
  <1>3. InTurn /\ InTurn' /\ base < Len(messages)
    BY DEF Appends, HistoryInv
  <1>4. History' = History
    BY <1>1, <1>2, <1>3, PrefixOfLonger DEF Appends
  <1>5. Open' = Open \o s
    <2>1. base <= Len(messages)
      BY <1>2, <1>3
    <2>2. SubSeq(messages \o s, base + 1, Len(messages \o s))
            = SubSeq(messages, base + 1, Len(messages)) \o s
      BY <1>1, <1>2, <2>1, SuffixOfLonger
    <2> QED BY <1>3, <2>2 DEF Appends
  <1>6. Open \in Seq(Message) /\ Len(Open) = Len(messages) - base
    BY <1>2, <1>3, SuffixElements
  <1>7. Len(s) \in Nat \ {0} /\ Len(Open) \in Nat \ {0}
    BY <1>2, <1>3, <1>6, EmptySeq
  <1> HIDE DEF Open, History
  <1>8. /\ Len(Open \o s) = Len(Open) + Len(s)
        /\ \A i \in 1 .. Len(Open) + Len(s) :
             (Open \o s)[i] = IF i <= Len(Open) THEN Open[i] ELSE s[i - Len(Open)]
    BY <1>1, <1>6, ConcatProperties
  <1>9. SubSeq(Open \o s, 1, Len(Open)) = Open
    BY <1>1, <1>6, <1>7, PrefixOfLonger, SubSeqFull
  <1>10. ASSUME NEW i \in Len(Open) + 1 .. Len(Open \o s)
         PROVE  (Open \o s)[i] \in Replies
    <2>1. i - Len(Open) \in 1 .. Len(s)
      BY <1>7, <1>8
    <2>2. (Open \o s)[i] = s[i - Len(Open)]
      BY <1>7, <1>8
    <2> QED BY <2>1, <2>2, ElementOfSeq
  <1>11. Open # <<>>
    BY <1>7, EmptySeq
  <1>12. /\ Len(Open') > Len(Open)
         /\ SubSeq(Open', 1, Len(Open)) = Open
         /\ \A i \in Len(Open) + 1 .. Len(Open') :
              Open'[i] \in [kind : MessageKinds \ {"system", "user"}, turn : 1 .. MaxTurns]
    BY <1>5, <1>7, <1>8, <1>9, <1>10 DEF Replies
  <1> QED
    BY <1>4, <1>11, <1>12 DEF Conversation!Extend

\* Receiving the result commits the turn, or undoes it if it was cancelled.
LEMMA FinishRefines ==
  ASSUME TypeOK, HistoryInv, TurnFinished
  PROVE  Conversation!Commit \/ Conversation!Abort
  <1>1. messages \in Seq(Message) /\ Len(messages) \in Nat /\ base \in Nat
    BY LenProperties DEF TypeOK
  <1>2. InTurn /\ ~InTurn' /\ base < Len(messages)
    BY DEF TurnFinished, HistoryInv
  <1>3. Open # <<>> /\ Open' = <<>>
    <2>1. Len(SubSeq(messages, base + 1, Len(messages))) = Len(messages) - base
      <3>1. base <= Len(messages)
        BY <1>1, <1>2
      <3> QED BY <1>1, <3>1, SuffixElements
    <2>2. Len(SubSeq(messages, base + 1, Len(messages))) # 0
      BY <1>1, <1>2, <2>1
    <2>3. SubSeq(messages, base + 1, Len(messages)) # <<>>
      BY <2>2, EmptySeq
    <2> QED BY <1>2, <2>3
  <1>4. CASE outcome = "none"
    <2>1. SubSeq(messages, 1, base) \o SubSeq(messages, base + 1, Len(messages))
            = SubSeq(messages, 1, Len(messages))
      <3>1. /\ 1 \in 1 .. Len(messages) + 1
            /\ base \in 1 - 1 .. Len(messages)
            /\ Len(messages) \in base .. Len(messages)
        BY <1>1, <1>2
      <3> QED BY <1>1, <3>1, ConcatAdjacentSubSeq, Zenon
    <2>2. SubSeq(messages, 1, Len(messages)) = messages
      BY <1>1, SubSeqFull
    <2>3. History' = History \o Open
      BY <1>2, <1>4, <2>1, <2>2 DEF TurnFinished
    <2> QED BY <1>3, <2>3 DEF Conversation!Commit
  <1>5. CASE outcome # "none"
    <2>1. messages' = SubSeq(messages, 1, base)
      BY <1>1, <1>2, <1>5 DEF TurnFinished, RolledBack
    <2>2. History' = History
      BY <1>2, <2>1
    <2> QED BY <1>3, <2>2 DEF Conversation!Abort
  <1> QED BY <1>4, <1>5

LEMMA StepRefines ==
  ASSUME TypeOK, PromptInv, HistoryInv, [Next]_vars
  PROVE  [Conversation!Next]_(Conversation!vars)
  <1>1. CASE TurnFinished
    BY <1>1, FinishRefines DEF Conversation!Next
  <1>2. CASE TurnBegin
    BY <1>2, BeginRefines DEF Conversation!Next
  <1>3. CASE \E s \in Seq(Replies) : s # <<>> /\ Appends(s)
    BY <1>3, AppendRefines DEF Conversation!Next
  <1>4. ASSUME UNCHANGED <<messages, base>>, InTurn' = InTurn
        PROVE  UNCHANGED Conversation!vars
    BY <1>4 DEF Conversation!vars
  <1>5. CASE UNCHANGED <<messages, base>> /\ state = "awaiting_user" /\ pc' = "begin"
    <2>1. ~InTurn /\ ~InTurn'
      BY <1>5 DEF PromptInv, PromptIffIdle
    <2> QED BY <1>5, <2>1 DEF Conversation!vars
  <1>6. CASE Main
    BY <1>1, <1>4, <1>5, <1>6, MainStepKinds
  <1>7. CASE Turn
    <2>1. CASE KeepsMessages
      BY <1>4, <2>1 DEF KeepsMessages
    <2> QED BY <1>2, <1>3, <1>7, <2>1, TurnStepKinds
  <1>8. CASE UNCHANGED vars
    BY <1>8 DEF vars, Conversation!vars
  <1> QED BY <1>6, <1>7, <1>8 DEF Next, Exited

\* The REPL implements the abstract conversation: the history it sends to the
\* model grows by whole turns, and a turn that is undone leaves no trace.
THEOREM ConversationImplemented == Spec => ImplementsConversation
  <1>1. Init => Conversation!Init
    BY DEF Init, Conversation!Init
  <1>2. Spec => Conversation!Spec
    BY <1>1, StepRefines, TypeCorrect, PromptInvariant, HistoryInvariant, PTL
       DEF Spec, Conversation!Spec
  <1> QED BY <1>2 DEF ImplementsConversation

-----------------------------------------------------------------------------
(* What Chat sends.                                                        *)

\* The last message has the user's role wherever the loop can reach Chat without
\* appending: behind the request, a control message, the last call's result.
LastInv ==
  pc \in {"arm", "round", "request", "chat"} \/ (pc = "tool" /\ calls = <<>>) =>
    /\ Len(messages) > 0
    /\ messages[Len(messages)].kind \notin {"system", "assistant"}

\* Appending a message of another kind than those two establishes it.
LEMMA AppendLast ==
  ASSUME TypeOK, NEW kind \in MessageKinds \ {"system", "assistant"},
         messages' = Append(messages, Msg(kind))
  PROVE  /\ Len(messages') > 0
         /\ messages'[Len(messages')].kind \notin {"system", "assistant"}
  <1>1. Msg(kind) \in Message
    BY MsgTyped
  <1>2. messages \in Seq(Message) /\ Len(messages) \in Nat
    BY LenProperties DEF TypeOK
  <1>3. Len(messages') = Len(messages) + 1 /\ messages'[Len(messages) + 1] = Msg(kind)
    BY <1>1, <1>2, AppendProperties
  <1> QED BY <1>2, <1>3

LEMMA LastKept ==
  ASSUME TypeOK, LastInv, [Next]_vars
  PROVE  LastInv'
  <1> USE DEF LastInv
  <1>1. CASE Main
    BY <1>1 DEF Main, PromptLine, ShellStart, Steer, ShellDone, Interrupt, CancelTurn,
       CtrlCExpires, TurnFinished, Quit
  <1>2. CASE TurnBegin
    <2>1. /\ Len(messages') > 0
          /\ messages'[Len(messages')].kind \notin {"system", "assistant"}
      BY <1>2, AppendLast DEF TurnBegin, MessageKinds
    <2> QED BY <2>1
  <1>3. CASE TurnArm \/ RoundCheck \/ Request \/ ToolCheck \/ ToolStart \/ TurnReturn
    BY <1>3 DEF TurnArm, RoundCheck, Request, ToolCheck, ToolStart, TurnReturn
  <1>4. CASE ChatFails \/ ChatEmpty \/ ChatPasses \/ ChatAnswer \/ ToolCancelled
               \/ ToolPasses \/ ToolShown
    BY <1>4 DEF ChatFails, ChatEmpty, ChatPasses, ChatAnswer, ToolCancelled, ToolPasses,
       ToolShown
  <1>5. CASE ChatDangling
    <2>1. messages \in Seq(Message) /\ Len(messages) \in Nat
      BY LenProperties DEF TypeOK
    <2>2. <<Msg("assistant"), Msg("control")>> \in Seq(Message)
      BY MsgTyped DEF MessageKinds
    <2>3. Len(messages') = Len(messages) + 2 /\ messages'[Len(messages) + 2] = Msg("control")
      BY <1>5, <2>1, <2>2, ConcatProperties DEF ChatDangling
    <2> QED BY <2>1, <2>3
  <1>6. CASE ChatCalls
    <2>1. PICK n \in 1 .. MaxCalls : calls' \in [1 .. n -> Calls]
      BY <1>6 DEF ChatCalls
    <2>2. n \in Nat \ {0} /\ Len(calls') = n
      BY <2>1, CallsTyped, ReplAssumption
    <2>3. calls' # <<>> /\ pc' = "tool"
      BY <1>6, <2>2, EmptySeq DEF ChatCalls
    <2> QED BY <2>3
  <1>7. CASE ToolResult
    <2>1. /\ Len(messages') > 0
          /\ messages'[Len(messages')].kind \notin {"system", "assistant"}
      <3>1. ResultKind \in MessageKinds \ {"system", "assistant"}
        BY DEF ResultKind, MessageKinds
      <3> QED BY <1>7, <3>1, AppendLast DEF ToolResult
    <2> QED BY <2>1
  <1>8. CASE UNCHANGED vars
    BY <1>8 DEF vars
  <1> QED
    BY <1>1, <1>2, <1>3, <1>4, <1>5, <1>6, <1>7, <1>8
       DEF Next, Turn, TurnRuns, TakesReply, TakesResult, ChatReturns, ToolReturns, Exited

\* Every request to the model ends with a message of the user's role.
THEOREM RequestsWellFormed == Spec => []RequestsEndWithUser
  <1>1. Init => LastInv
    BY DEF Init, LastInv
  <1>2. LastInv => RequestsEndWithUser
    BY DEF LastInv, RequestsEndWithUser
  <1> QED BY <1>1, <1>2, LastKept, TypeCorrect, PTL DEF Spec

-----------------------------------------------------------------------------
(* After a cancel.                                                         *)

\* Behind the cancel no look at the context passes, and only what had passed one
\* is appended; the rollback shortens.
LEMMA CancelledStep ==
  ASSUME TypeOK, HistoryInv, [Next]_vars, Cancelled
  PROVE  /\ pc' \in Passed => pc' = pc
         /\ Len(messages') > Len(messages) => pc \in {"reply", "result"}
  <1> USE DEF Cancelled, Passed
  <1>1. Len(messages) \in Nat /\ messages \in Seq(Message) /\ base \in Nat
    BY LenProperties DEF TypeOK
  <1>2. ASSUME UNCHANGED messages, pc' \notin Passed \/ pc' = pc
        PROVE  /\ pc' \in Passed => pc' = pc
               /\ Len(messages') > Len(messages) => pc \in {"reply", "result"}
    BY <1>1, <1>2
  <1>3. CASE TurnFinished
    <2>1. base < Len(messages)
      BY DEF HistoryInv
    <2>2. messages' = messages \/ messages' = SubSeq(messages, 1, base)
      BY <1>1, <1>3, <2>1 DEF TurnFinished, RolledBack
    <2>3. ~(Len(messages') > Len(messages))
      BY <1>1, <2>1, <2>2
    <2>4. pc' \in {"begin", "none"}
      BY <1>3 DEF TurnFinished
    <2> QED BY <2>3, <2>4
  <1>4. CASE Main
    <2>1. CASE ~TurnFinished
      <3>1. UNCHANGED messages /\ (pc' = pc \/ pc' = "begin")
        BY <1>4, <2>1 DEF Main, PromptLine, ShellStart, Steer, ShellDone, Interrupt,
           CancelTurn, CtrlCExpires, Quit
      <3> QED BY <1>2, <3>1
    <2> QED BY <1>3, <2>1
  <1>5. CASE Turn
    <2>1. CASE TakesReply \/ TakesResult
      BY <2>1 DEF TakesReply, TakesResult, ChatAnswer, ChatDangling, ChatCalls,
         ToolShown, ToolResult
    <2>2. CASE ~(TakesReply \/ TakesResult)
      <3>1. UNCHANGED messages /\ (pc' \notin Passed \/ pc' = pc \/ pc' \in {"chat", "exec"})
        BY <1>5, <2>2 DEF Turn, TurnRuns, ChatReturns, ToolReturns, TurnBegin, TurnArm,
           RoundCheck, Request, ToolCheck, ToolStart, TurnReturn, ChatFails, ChatEmpty,
           ChatPasses, ToolCancelled, ToolPasses
      <3> QED BY <1>2, <3>1
    <2> QED BY <2>1, <2>2
  <1>6. CASE UNCHANGED vars
    BY <1>2, <1>6 DEF vars
  <1> QED BY <1>4, <1>5, <1>6 DEF Next, Exited

\* A turn whose context is cancelled, armed with it, comes to no further request,
\* tool, reply or result, and writes to the history only the one it had at hand.
THEOREM CancelledStaysSilent == Spec => SilentOnceCancelled
  <1>1. TypeOK /\ HistoryInv /\ [Next]_vars =>
          [Cancelled =>
             /\ pc' \in Passed => pc' = pc
             /\ Len(messages') > Len(messages) => pc \in {"reply", "result"}]_vars
    BY CancelledStep
  <1> QED
    BY <1>1, TypeCorrect, HistoryInvariant, PTL DEF Spec, SilentOnceCancelled

-----------------------------------------------------------------------------
(* The rounds.                                                             *)

\* No message is of a later turn, or of one that has not logged its request.
TurnsInOrder ==
  /\ \A i \in DOMAIN messages : messages[i].turn <= turn
  /\ pc = "begin" => \A i \in DOMAIN messages : messages[i].turn < turn

\* The replies of the turn in progress: one per round behind it, one more where
\* the round has been answered.
RepliesPerRound ==
  /\ pc = "arm" => Cardinality(Answers(turn)) <= 0
  /\ pc \in {"round", "request", "chat", "reply"} => Cardinality(Answers(turn)) <= round
  /\ pc \in {"tool", "start", "exec", "result"} => Cardinality(Answers(turn)) <= round + 1
  /\ pc \in {"request", "chat", "reply", "tool", "start", "exec", "result"}
       => round < maxRounds

RoundInv == TurnsInOrder /\ RepliesPerRound /\ RoundsBounded

LEMMA MaxRoundsTyped == maxRounds \in Nat \ {0}
  BY ReplAssumption DEF maxRounds

LEMMA MessagesFunction ==
  ASSUME TypeOK
  PROVE  /\ Len(messages) \in Nat /\ DOMAIN messages = 1 .. Len(messages)
         /\ \A i \in 1 .. Len(messages) : messages[i] \in Message
  BY LenProperties, ElementOfSeq DEF TypeOK

LEMMA AnswersFinite ==
  ASSUME TypeOK, NEW t
  PROVE  IsFiniteSet(Answers(t)) /\ Cardinality(Answers(t)) \in Nat
  <1>1. Answers(t) \subseteq 1 .. Len(messages)
    BY MessagesFunction DEF Answers
  <1>2. IsFiniteSet(1 .. Len(messages))
    BY MessagesFunction, FS_Interval
  <1> QED BY <1>1, <1>2, FS_Subset, FS_CardinalityType

\* A turn without messages has no replies.
LEMMA NoAnswers ==
  ASSUME NEW t, \A i \in DOMAIN messages : messages[i].turn # t
  PROVE  Cardinality(Answers(t)) = 0
  <1>1. Answers(t) = {}
    BY DEF Answers
  <1> QED BY <1>1, FS_EmptySet

\* The messages of the turn are appended: kinds that are no reply leave the
\* replies alone, and the order as well.
AppendedOf(n) ==
  /\ DOMAIN messages' = 1 .. n
  /\ \A i \in 1 .. Len(messages) : messages'[i] = messages[i]
  /\ \A i \in Len(messages) + 1 .. n : messages'[i] \in Message /\ messages'[i].turn = turn

LEMMA AppendOne ==
  ASSUME TypeOK, NEW kind \in MessageKinds, messages' = Append(messages, Msg(kind))
  PROVE  AppendedOf(Len(messages) + 1) /\ messages'[Len(messages) + 1] = Msg(kind)
  <1>1. Msg(kind) \in Message
    BY MsgTyped
  <1>2. /\ Len(messages') = Len(messages) + 1
        /\ messages'[Len(messages) + 1] = Msg(kind)
        /\ \A i \in 1 .. Len(messages) : messages'[i] = messages[i]
        /\ DOMAIN messages' = 1 .. Len(messages) + 1
    BY <1>1, AppendProperties, LenProperties DEF TypeOK
  <1>3. \A i \in Len(messages) + 1 .. Len(messages) + 1 :
          messages'[i] \in Message /\ messages'[i].turn = turn
    BY <1>1, <1>2, MessagesFunction
  <1> QED BY <1>2, <1>3 DEF AppendedOf

LEMMA AppendedInOrder ==
  ASSUME TypeOK, TurnsInOrder, NEW n \in Nat, AppendedOf(n), turn' = turn, pc' # "begin"
  PROVE  TurnsInOrder'
  <1>1. ASSUME NEW i \in 1 .. n
        PROVE  messages'[i].turn <= turn
    <2>1. CASE i \in 1 .. Len(messages)
      BY <2>1, MessagesFunction DEF AppendedOf, TurnsInOrder
    <2>2. CASE i \in Len(messages) + 1 .. n
      BY <2>2 DEF AppendedOf, TypeOK
    <2> QED BY <2>1, <2>2, MessagesFunction
  <1> QED BY <1>1 DEF TurnsInOrder, AppendedOf

LEMMA AppendOther ==
  ASSUME TypeOK, NEW kind \in MessageKinds \ {"assistant"}, NEW t,
         messages' = Append(messages, Msg(kind))
  PROVE  Answers(t)' = Answers(t)
  <1>1. AppendedOf(Len(messages) + 1) /\ messages'[Len(messages) + 1] = Msg(kind)
    BY AppendOne
  <1> QED BY <1>1, MessagesFunction DEF Answers, AppendedOf

\* A reply, with a control message behind it or not, is one more of its turn.
LEMMA AppendAnswer ==
  ASSUME TypeOK, NEW t, NEW n \in Nat, n > Len(messages), AppendedOf(n),
         messages'[Len(messages) + 1].kind = "assistant",
         \A i \in Len(messages) + 2 .. n : messages'[i].kind = "control"
  PROVE  Cardinality(Answers(t)') <= Cardinality(Answers(t)) + (IF t = turn THEN 1 ELSE 0)
  <1>1. ASSUME NEW i \in 1 .. n
        PROVE  \/ i \in 1 .. Len(messages) /\ messages'[i] = messages[i]
               \/ i = Len(messages) + 1 /\ messages'[i].turn = turn
                    /\ messages'[i].kind = "assistant"
               \/ i \notin 1 .. Len(messages) + 1 /\ messages'[i].kind = "control"
    BY MessagesFunction DEF AppendedOf
  <1>2. DOMAIN messages' = 1 .. n /\ Len(messages) + 1 \in 1 .. n
    BY MessagesFunction DEF AppendedOf
  <1>3. CASE t = turn
    <2>1. Answers(t)' = Answers(t) \cup {Len(messages) + 1}
      BY <1>1, <1>2, <1>3, MessagesFunction DEF Answers
    <2>2. Len(messages) + 1 \notin Answers(t)
      BY MessagesFunction DEF Answers
    <2>3. Cardinality(Answers(t)') = Cardinality(Answers(t)) + 1
      BY <2>1, <2>2, AnswersFinite, FS_AddElement
    <2> QED BY <1>3, <2>3, AnswersFinite
  <1>4. CASE t # turn
    <2>1. Answers(t)' = Answers(t)
      BY <1>1, <1>2, <1>4, MessagesFunction DEF Answers
    <2> QED BY <1>4, <2>1, AnswersFinite
  <1> QED BY <1>3, <1>4

\* The rollback takes messages away and keeps the others where they are.
LEMMA FinishedIsPart ==
  ASSUME TypeOK, TurnFinished
  PROVE  /\ DOMAIN messages' \subseteq DOMAIN messages
         /\ \A i \in DOMAIN messages' : messages'[i] = messages[i]
         /\ \A t : Answers(t)' \subseteq Answers(t)
  <1>1. messages \in Seq(Message) /\ Len(messages) \in Nat /\ base \in Nat
    BY LenProperties DEF TypeOK
  <1>2. CASE messages' = messages
    BY <1>2 DEF Answers
  <1>3. CASE messages' = SubSeq(messages, 1, base) /\ base <= Len(messages)
    <2>1. /\ DOMAIN messages' = 1 .. base
          /\ \A i \in 1 .. base : messages'[i] = messages[i]
      BY <1>1, <1>3
    <2> QED BY <1>1, <1>3, <2>1, MessagesFunction DEF Answers
  <1> QED BY <1>1, <1>2, <1>3 DEF TurnFinished, RolledBack

\* Main takes messages away, or starts a turn that has none.
LEMMA MainKeepsRounds ==
  ASSUME TypeOK, PromptInv, RoundInv, Main
  PROVE  RoundInv'
  <1> USE DEF RoundInv
  <1>1. turn \in Nat /\ maxRounds \in Nat /\ maxRounds' = maxRounds
    BY MaxRoundsTyped DEF TypeOK, maxRounds
  <1>2. \A i \in DOMAIN messages : messages[i].turn \in Nat
    BY MessagesFunction DEF Message
  <1>3. ASSUME NEW line, PromptLine(line)
        PROVE  RoundInv'
    <2>1. messages' = messages /\ turn' = turn + 1 /\ pc' = "begin"
      BY <1>3 DEF PromptLine
    <2>2. TurnsInOrder' /\ RepliesPerRound'
      BY <1>1, <1>2, <2>1 DEF TurnsInOrder, RepliesPerRound
    <2>3. \A t : Answers(t)' = Answers(t)
      BY <2>1 DEF Answers
    <2>4. Cardinality(Answers(turn + 1)) = 0
      BY <1>1, <1>2, NoAnswers DEF TurnsInOrder
    <2> QED BY <1>1, <2>1, <2>2, <2>3, <2>4 DEF RoundsBounded
  <1>4. CASE TurnFinished
    <2>1. (turn' = turn + 1 /\ pc' = "begin") \/ (turn' = turn /\ pc' = "none")
      BY <1>4 DEF TurnFinished
    <2>2. TurnsInOrder' /\ RepliesPerRound'
      BY <1>1, <1>2, <1>4, <2>1, FinishedIsPart DEF TurnsInOrder, RepliesPerRound
    <2>3. \A t : Cardinality(Answers(t)') \in Nat /\ Cardinality(Answers(t)') <= Cardinality(Answers(t))
      BY <1>4, AnswersFinite, FinishedIsPart, FS_Subset, FS_CardinalityType
    <2>4. Cardinality(Answers(turn + 1)) = 0
      BY <1>1, <1>2, NoAnswers DEF TurnsInOrder
    <2>5. \A t : Cardinality(Answers(t)) \in Nat
      BY AnswersFinite
    <2>6. ASSUME NEW t \in 1 .. turn'
          PROVE  Cardinality(Answers(t)') <= maxRounds
      <3>1. CASE t = turn + 1
        BY <1>1, <2>3, <2>4, <2>5, <3>1
      <3>2. CASE t \in 1 .. turn
        <4>1. Cardinality(Answers(t)) <= maxRounds
          BY <3>2 DEF RoundsBounded
        <4> QED BY <1>1, <2>3, <2>5, <4>1
      <3> QED BY <1>1, <2>1, <3>1, <3>2
    <2> QED BY <1>1, <2>2, <2>6 DEF RoundsBounded
  <1>5. CASE UNCHANGED <<messages, turn, pc, round>>
    <2>1. \A t : Answers(t)' = Answers(t)
      BY <1>5 DEF Answers
    <2> QED BY <1>1, <1>5, <2>1 DEF TurnsInOrder, RepliesPerRound, RoundsBounded
  <1> QED
    BY <1>3, <1>4, <1>5
       DEF Main, ShellStart, Steer, ShellDone, Interrupt, CancelTurn, CtrlCExpires, Quit

\* The turn adds a reply only where a round is left for it.
LEMMA TurnKeepsRounds ==
  ASSUME TypeOK, RoundInv, Turn
  PROVE  RoundInv'
  <1> USE DEF RoundInv
  <1>1. /\ turn \in Nat /\ round \in Nat /\ turn' = turn
        /\ maxRounds \in Nat \ {0} /\ maxRounds' = maxRounds
    BY MaxRoundsTyped, TurnStepFacts DEF TypeOK, maxRounds
  <1>2. \A t : Cardinality(Answers(t)) \in Nat
    BY AnswersFinite
  <1>3. ASSUME UNCHANGED messages, pc' # "begin", RepliesPerRound'
        PROVE  RoundInv'
    <2>1. \A t : Answers(t)' = Answers(t)
      BY <1>3 DEF Answers
    <2> QED BY <1>1, <1>3, <2>1 DEF TurnsInOrder, RoundsBounded
  <1>4. CASE TurnArm \/ RoundCheck \/ Request \/ ToolCheck \/ ToolStart \/ TurnReturn
               \/ ChatFails \/ ChatEmpty \/ ChatPasses \/ ToolCancelled \/ ToolPasses
    <2>1. UNCHANGED messages /\ pc' # "begin"
      BY <1>4 DEF TurnArm, RoundCheck, Request, ToolCheck, ToolStart, TurnReturn,
         ChatFails, ChatEmpty, ChatPasses, ToolCancelled, ToolPasses
    <2>2. Answers(turn)' = Answers(turn)
      BY <1>1, <2>1 DEF Answers
    <2>3. RepliesPerRound'
      BY <1>1, <1>2, <1>4, <2>2 DEF RepliesPerRound, TurnArm, RoundCheck, Request, ToolCheck,
         ToolStart, TurnReturn, ChatFails, ChatEmpty, ChatPasses, ToolCancelled, ToolPasses
    <2> QED BY <1>3, <2>1, <2>3
  <1>5. ASSUME NEW kind \in MessageKinds \ {"assistant"}, pc' # "begin",
               messages' = Append(messages, Msg(kind)),
               pc' = "arm" \/ pc' = "return" \/ (pc = "result" /\ pc' = "tool" /\ round' = round),
               pc' = "arm" => pc = "begin"
        PROVE  RoundInv'
    <2>1. \A t : Answers(t)' = Answers(t)
      BY <1>5, AppendOther
    <2>2. TurnsInOrder'
      <3>1. Len(messages) + 1 \in Nat /\ AppendedOf(Len(messages) + 1)
        BY <1>5, AppendOne, MessagesFunction
      <3> QED BY <1>1, <1>5, <3>1, AppendedInOrder
    <2>3. pc = "begin" => Cardinality(Answers(turn)) = 0
      <3>1. \A i \in DOMAIN messages : messages[i].turn \in Nat
        BY MessagesFunction DEF Message
      <3> QED BY <1>1, <3>1, NoAnswers DEF TurnsInOrder
    <2>4. RepliesPerRound'
      BY <1>1, <1>2, <1>5, <2>1, <2>3 DEF RepliesPerRound
    <2> QED BY <1>1, <2>1, <2>2, <2>4 DEF RoundsBounded
  <1>6. CASE TurnBegin
    BY <1>5, <1>6 DEF TurnBegin, MessageKinds
  <1>14. /\ ResultKind \in MessageKinds \ {"assistant"}
         /\ TombstoneKind \in MessageKinds \ {"assistant"}
    BY DEF ResultKind, TombstoneKind, MessageKinds
  <1>7. CASE ToolShown
    BY <1>5, <1>7, <1>14 DEF ToolShown
  <1>8. CASE ToolResult
    BY <1>5, <1>8, <1>14 DEF ToolResult
  <1>9. ASSUME NEW n \in Nat, n > Len(messages), AppendedOf(n),
               messages'[Len(messages) + 1].kind = "assistant",
               \A i \in Len(messages) + 2 .. n : messages'[i].kind = "control",
               pc = "reply",
               \/ pc' = "return"
               \/ pc' = "tool" /\ round' = round
               \/ pc' = "round" /\ round' = round + 1
        PROVE  RoundInv'
    <2>1. TurnsInOrder'
      BY <1>1, <1>9, AppendedInOrder
    <2>2. \A t : Cardinality(Answers(t)') <= Cardinality(Answers(t)) + (IF t = turn THEN 1 ELSE 0)
      BY <1>9, AppendAnswer
    <2>3. \A t : Cardinality(Answers(t)') \in Nat
      <3>1. ASSUME NEW t
            PROVE  Cardinality(Answers(t)') \in Nat
        <4>1. Answers(t)' \subseteq 1 .. n
          BY <1>9 DEF Answers, AppendedOf
        <4>2. IsFiniteSet(1 .. n)
          BY FS_Interval
        <4> QED BY <4>1, <4>2, FS_Subset, FS_CardinalityType
      <3> QED BY <3>1
    <2>4. round < maxRounds /\ Cardinality(Answers(turn)) <= round
      BY <1>9 DEF RepliesPerRound
    <2>5. Cardinality(Answers(turn)') <= round + 1
      BY <1>1, <1>2, <2>2, <2>3, <2>4
    <2>6. RepliesPerRound'
      BY <1>1, <1>9, <2>4, <2>5 DEF RepliesPerRound
    <2>7. ASSUME NEW t \in 1 .. turn
          PROVE  Cardinality(Answers(t)') <= maxRounds
      <3>1. CASE t = turn
        BY <1>1, <2>3, <2>4, <2>5, <3>1
      <3>2. CASE t # turn
        <4>1. Cardinality(Answers(t)) <= maxRounds
          BY DEF RoundsBounded
        <4> QED BY <1>1, <1>2, <2>2, <2>3, <3>2, <4>1
      <3> QED BY <3>1, <3>2
    <2> QED BY <1>1, <2>1, <2>6, <2>7 DEF RoundsBounded
  <1>10. ASSUME messages' = Append(messages, Msg("assistant")), pc = "reply",
                pc' = "return" \/ (pc' = "tool" /\ round' = round)
         PROVE  RoundInv'
    <2>1. /\ AppendedOf(Len(messages) + 1)
          /\ messages'[Len(messages) + 1] = Msg("assistant")
      BY <1>10, AppendOne DEF MessageKinds
    <2>2. /\ Len(messages) + 1 \in Nat /\ Len(messages) + 1 > Len(messages)
          /\ \A i \in Len(messages) + 2 .. Len(messages) + 1 : FALSE
      BY MessagesFunction
    <2>3. messages'[Len(messages) + 1].kind = "assistant"
      BY <2>1
    <2> QED BY <1>9, <1>10, <2>1, <2>2, <2>3
  <1>11. CASE ChatAnswer
    BY <1>10, <1>11 DEF ChatAnswer
  <1>12. CASE ChatCalls
    BY <1>10, <1>12 DEF ChatCalls
  <1>13. CASE ChatDangling
    <2>1. <<Msg("assistant"), Msg("control")>> \in Seq(Message)
      BY MsgTyped DEF MessageKinds
    <2>2. Len(messages) \in Nat /\ messages \in Seq(Message)
      BY MessagesFunction DEF TypeOK
    <2>3. /\ DOMAIN messages' = 1 .. Len(messages) + 2
          /\ \A i \in 1 .. Len(messages) : messages'[i] = messages[i]
          /\ messages'[Len(messages) + 1] = Msg("assistant")
          /\ messages'[Len(messages) + 2] = Msg("control")
      BY <1>13, <2>1, <2>2, ConcatProperties DEF ChatDangling
    <2>4. AppendedOf(Len(messages) + 2)
      <3>1. \A i \in Len(messages) + 1 .. Len(messages) + 2 :
              i = Len(messages) + 1 \/ i = Len(messages) + 2
        BY <2>2
      <3>2. Msg("assistant") \in Message /\ Msg("control") \in Message
        BY MsgTyped DEF MessageKinds
      <3> QED BY <2>3, <3>1, <3>2 DEF AppendedOf
    <2>5. /\ messages'[Len(messages) + 1].kind = "assistant"
          /\ \A i \in Len(messages) + 2 .. Len(messages) + 2 : messages'[i].kind = "control"
      BY <2>2, <2>3
    <2>6. /\ Len(messages) + 2 \in Nat /\ Len(messages) + 2 > Len(messages)
          /\ pc = "reply" /\ pc' = "round" /\ round' = round + 1
      BY <1>13, <2>2 DEF ChatDangling
    <2> QED BY <1>9, <2>4, <2>5, <2>6
  <1> QED
    BY <1>4, <1>6, <1>7, <1>8, <1>11, <1>12, <1>13
       DEF Turn, TurnRuns, TakesReply, TakesResult, ChatReturns, ToolReturns

LEMMA RoundInvariant == Spec => []RoundInv
  <1>1. Init => RoundInv
    <2> SUFFICES ASSUME Init PROVE RoundInv
      OBVIOUS
    <2>1. DOMAIN messages = {1} /\ messages[1].turn = 0 /\ turn = 0 /\ pc = "none"
      BY DEF Init
    <2> QED BY <2>1 DEF RoundInv, TurnsInOrder, RepliesPerRound, RoundsBounded
  <1>2. TypeOK /\ PromptInv /\ RoundInv /\ [Next]_vars => RoundInv'
    <2>1. ASSUME RoundInv, UNCHANGED vars
          PROVE  RoundInv'
      <3>1. \A t : Answers(t)' = Answers(t)
        BY <2>1 DEF Answers, vars
      <3> QED
        BY <2>1, <3>1 DEF RoundInv, TurnsInOrder, RepliesPerRound, RoundsBounded, vars, maxRounds
    <2> QED BY <2>1, MainKeepsRounds, TurnKeepsRounds DEF Next, Exited
  <1> QED BY <1>1, <1>2, TypeCorrect, PromptInvariant, PTL DEF Spec

\* The model is asked, and answers, at most maxRounds times in a turn, for any
\* bound in the configuration (five, if it is not positive).
THEOREM RoundsAreBounded == Spec => []RoundsBounded
  BY RoundInvariant, PTL DEF RoundInv

-----------------------------------------------------------------------------
(* The transcript.                                                         *)

\* What an entry is told as, and a sequence of them.
Mark(x) == IF x.kind \in {"tool_result", "tombstone"} THEN "tool" ELSE x.kind
Marks(s) == [i \in DOMAIN s |-> Mark(s[i])]
MarkKinds == MessageKinds \cup {"tool"}

Told(t) == [kind : {"user", "assistant", "tool_result", "tombstone"}, turn : {t}]
Heard(t) == [kind : {"user", "assistant", "tool"}, turn : {t}]

\* The transcript's turns are in order as the messages' are.
LogInOrder ==
  /\ \A i \in DOMAIN transcript : transcript[i].turn <= turn
  /\ pc = "begin" => \A i \in DOMAIN transcript : transcript[i].turn < turn

\* While the loop runs, the transcript and the history tell the same of its turn,
\* but for the result of a built-in that is logged and not yet in the history.
InLoop == pc \notin {"none", "begin", "return", "done"}
Ahead == pc = "result" /\ Head(calls).builtin
SameSoFar ==
  \A t \in Nat : t = turn /\ InLoop =>
    TranscriptOf(t) = IF Ahead THEN Append(HistoryOf(t), "tool") ELSE HistoryOf(t)

TranscriptInv == LogInOrder /\ SameSoFar /\ TranscriptRecordsTurns

LEMMA MarksTyped ==
  ASSUME NEW S, NEW s \in Seq(S)
  PROVE  /\ Marks(s) \in Seq({Mark(x) : x \in S})
         /\ Len(Marks(s)) = Len(s)
         /\ DOMAIN Marks(s) = 1 .. Len(s)
         /\ \A i \in 1 .. Len(s) : Marks(s)[i] = Mark(s[i])
  <1>1. Len(s) \in Nat /\ DOMAIN s = 1 .. Len(s) /\ \A i \in 1 .. Len(s) : s[i] \in S
    BY LenProperties, ElementOfSeq
  <1>2. Marks(s) = [i \in 1 .. Len(s) |-> Mark(s[i])]
    BY <1>1 DEF Marks
  <1>3. Marks(s) \in [1 .. Len(s) -> {Mark(x) : x \in S}]
    BY <1>1, <1>2
  <1>4. Marks(s) \in Seq({Mark(x) : x \in S})
    BY <1>1, <1>3, SeqDef
  <1> QED BY <1>1, <1>2, <1>4, LenProperties

LEMMA MarksOfLonger ==
  ASSUME NEW S, NEW s \in Seq(S), NEW e \in S
  PROVE  Marks(Append(s, e)) = Append(Marks(s), Mark(e))
  <1> DEFINE long == Append(s, e)
             M == {Mark(x) : x \in S}
  <1>1. /\ long \in Seq(S) /\ Len(long) = Len(s) + 1 /\ long[Len(s) + 1] = e
        /\ \A i \in 1 .. Len(s) : long[i] = s[i]
    BY AppendProperties
  <1>2. Len(s) \in Nat
    BY LenProperties
  <1>3. /\ Marks(s) \in Seq(M) /\ Len(Marks(s)) = Len(s)
        /\ \A i \in 1 .. Len(s) : Marks(s)[i] = Mark(s[i])
    BY MarksTyped
  <1> HIDE DEF long
  <1>4. /\ Marks(long) \in Seq(M) /\ Len(Marks(long)) = Len(s) + 1
        /\ \A i \in 1 .. Len(s) + 1 : Marks(long)[i] = Mark(long[i])
    BY <1>1, MarksTyped
  <1>5. Mark(e) \in M
    OBVIOUS
  <1> DEFINE u == Append(Marks(s), Mark(e))
  <1> HIDE DEF M
  <1>6. /\ u \in Seq(M) /\ Len(u) = Len(s) + 1 /\ u[Len(s) + 1] = Mark(e)
        /\ \A i \in 1 .. Len(s) : u[i] = Marks(s)[i]
    BY <1>3, <1>5, AppendProperties
  <1> HIDE DEF u
  <1>7. ASSUME NEW i \in 1 .. Len(s) + 1
        PROVE  Marks(long)[i] = u[i]
    <2>1. CASE i = Len(s) + 1
      BY <1>1, <1>4, <1>6, <2>1
    <2>2. CASE i \in 1 .. Len(s)
      BY <1>1, <1>3, <1>4, <1>6, <2>2
    <2> QED BY <1>2, <2>1, <2>2
  <1>8. Marks(long) = u
    BY <1>4, <1>6, <1>7, SeqEqual
  <1> QED BY <1>8 DEF long, u

\* What is told of a sequence, when it gets longer by one.
LEMMA ToldOfLonger ==
  ASSUME NEW S, NEW s \in Seq(S), NEW e \in S, NEW keep
  PROVE  Marks(Selected(Append(s, e), keep)) =
           IF e \in keep THEN Append(Marks(Selected(s, keep)), Mark(e))
           ELSE Marks(Selected(s, keep))
  <1>1. Selected(Append(s, e), keep) =
          IF e \in keep THEN Append(Selected(s, keep), e) ELSE Selected(s, keep)
    BY SelectedAppend
  <1>2. Selected(s, keep) \in Seq(S)
    <2>1. Selected(s, keep) \in Seq(S \cap keep)
      BY SelectedType
    <2> QED BY <2>1, SeqMonotonic
  <1>3. Marks(Append(Selected(s, keep), e)) = Append(Marks(Selected(s, keep)), Mark(e))
    BY <1>2, MarksOfLonger
  <1> QED BY <1>1, <1>3, Zenon

\* A line of the transcript is told as the kind it has.
LEMMA TranscriptMarks ==
  ASSUME NEW log \in Seq(Entry), NEW keep
  PROVE  [i \in DOMAIN Selected(log, keep) |-> Selected(log, keep)[i].kind]
           = Marks(Selected(log, keep))
  <1> DEFINE logged == Selected(log, keep)
  <1>1. logged \in Seq(Entry)
    <2>1. logged \in Seq(Entry \cap keep)
      BY SelectedType
    <2> QED BY <2>1, SeqMonotonic
  <1> HIDE DEF logged
  <1>2. \A i \in DOMAIN logged : logged[i].kind = Mark(logged[i])
    <2>1. \A i \in DOMAIN logged : logged[i] \in Entry
      BY <1>1, ElementOfSeq, LenProperties
    <2> QED BY <2>1 DEF Entry, Mark
  <1>3. [i \in DOMAIN logged |-> logged[i].kind] = Marks(logged)
    BY <1>2 DEF Marks
  <1> QED BY <1>3 DEF logged

LEMMA AsMarks ==
  ASSUME TypeOK, NEW t \in Nat
  PROVE  /\ HistoryOf(t) = Marks(Selected(messages, Told(t)))
         /\ TranscriptOf(t) = Marks(Selected(transcript, Heard(t)))
         /\ HistoryOf(t) \in Seq(MarkKinds) /\ TranscriptOf(t) \in Seq(MarkKinds)
  <1>1. /\ Selected(messages, Told(t)) \in Seq(Message)
        /\ Selected(transcript, Heard(t)) \in Seq(Entry)
    <2>1. /\ Selected(messages, Told(t)) \in Seq(Message \cap Told(t))
          /\ Selected(transcript, Heard(t)) \in Seq(Entry \cap Heard(t))
      BY SelectedType DEF TypeOK
    <2> QED BY <2>1, SeqMonotonic
  <1>2. HistoryOf(t) = Marks(Selected(messages, Told(t)))
    BY DEF HistoryOf, Marks, Mark, Told
  <1>3. TranscriptOf(t) = Marks(Selected(transcript, Heard(t)))
    BY TranscriptMarks DEF TypeOK, TranscriptOf, Heard
  <1>4. {Mark(x) : x \in Message} \subseteq MarkKinds /\ {Mark(x) : x \in Entry} \subseteq MarkKinds
    BY DEF Mark, Message, Entry, MarkKinds, MessageKinds
  <1>5. /\ HistoryOf(t) \in Seq({Mark(x) : x \in Message})
        /\ TranscriptOf(t) \in Seq({Mark(x) : x \in Entry})
    BY <1>1, <1>2, <1>3, MarksTyped
  <1> QED BY <1>2, <1>3, <1>4, <1>5, SeqMonotonic

\* A message more, and a line of the transcript more.
LEMMA HistoryOfLonger ==
  ASSUME TypeOK, TypeOK', NEW t \in Nat, NEW kind \in MessageKinds,
         messages' = Append(messages, Msg(kind))
  PROVE  HistoryOf(t)' =
           IF t = turn /\ kind \in {"user", "assistant", "tool_result", "tombstone"}
           THEN Append(HistoryOf(t), Mark(Msg(kind))) ELSE HistoryOf(t)
  <1>1. messages \in Seq(Message) /\ Msg(kind) \in Message
    BY MsgTyped DEF TypeOK
  <1>2. Msg(kind) \in Told(t) <=> t = turn /\ kind \in {"user", "assistant", "tool_result", "tombstone"}
    BY DEF Told
  <1>3. HistoryOf(t)' = Marks(Selected(messages', Told(t)))
    BY DEF HistoryOf, Marks, Mark, Told
  <1>4. HistoryOf(t) = Marks(Selected(messages, Told(t)))
    BY AsMarks
  <1>5. Marks(Selected(Append(messages, Msg(kind)), Told(t))) =
          IF Msg(kind) \in Told(t)
          THEN Append(Marks(Selected(messages, Told(t))), Mark(Msg(kind)))
          ELSE Marks(Selected(messages, Told(t)))
    <2> DEFINE m == Msg(kind)
    <2>1. m \in Message
      BY <1>1
    <2> HIDE DEF m
    <2>2. Marks(Selected(Append(messages, m), Told(t))) =
            IF m \in Told(t) THEN Append(Marks(Selected(messages, Told(t))), Mark(m))
            ELSE Marks(Selected(messages, Told(t)))
      BY <1>1, <2>1, ToldOfLonger
    <2> QED BY <2>2 DEF m
  <1> QED BY <1>2, <1>3, <1>4, <1>5, Zenon

LEMMA TranscriptOfLonger ==
  ASSUME TypeOK, NEW t \in Nat, NEW kind \in {"user", "assistant", "tool"},
         transcript' = Logged(kind), TypeOK'
  PROVE  TranscriptOf(t)' =
           IF t = turn THEN Append(TranscriptOf(t), kind) ELSE TranscriptOf(t)
  <1> DEFINE e == [kind |-> kind, turn |-> turn]
  <1>1. /\ transcript \in Seq(Entry) /\ e \in Entry
        /\ transcript' = Append(transcript, e)
        /\ e \in Heard(t) <=> t = turn
        /\ Mark(e) = kind
    BY DEF TypeOK, Entry, Heard, Mark
  <1> HIDE DEF e
  <1>2. Marks(Selected(Append(transcript, e), Heard(t))) =
          IF e \in Heard(t) THEN Append(Marks(Selected(transcript, Heard(t))), Mark(e))
          ELSE Marks(Selected(transcript, Heard(t)))
    BY <1>1, ToldOfLonger
  <1>3. TranscriptOf(t) = Marks(Selected(transcript, Heard(t)))
    BY AsMarks
  <1>4. TranscriptOf(t)' = Marks(Selected(transcript', Heard(t)))
    BY TranscriptMarks DEF TypeOK, TranscriptOf, Heard
  <1> QED BY <1>1, <1>2, <1>3, <1>4, Zenon

\* Nothing is told, or heard, of a turn without an entry.
LEMMA NothingTold ==
  ASSUME TypeOK, NEW t \in Nat
  PROVE  /\ (\A i \in DOMAIN messages : messages[i].turn # t) => HistoryOf(t) = <<>>
         /\ (\A i \in DOMAIN transcript : transcript[i].turn # t) => TranscriptOf(t) = <<>>
  <1>1. /\ messages \in Seq(Message) /\ DOMAIN messages = 1 .. Len(messages)
        /\ transcript \in Seq(Entry) /\ DOMAIN transcript = 1 .. Len(transcript)
    BY LenProperties DEF TypeOK
  <1>2. Marks(<<>>) = <<>>
    BY DEF Marks
  <1>3. ASSUME \A i \in DOMAIN messages : messages[i].turn # t
        PROVE  HistoryOf(t) = <<>>
    <2>1. \A i \in 1 .. Len(messages) : messages[i] \notin Told(t)
      BY <1>1, <1>3 DEF Told
    <2>2. Selected(messages, Told(t)) = <<>>
      BY <1>1, <2>1, SelectedNone
    <2> QED BY <1>2, <2>2, AsMarks
  <1>4. ASSUME \A i \in DOMAIN transcript : transcript[i].turn # t
        PROVE  TranscriptOf(t) = <<>>
    <2>1. \A i \in 1 .. Len(transcript) : transcript[i] \notin Heard(t)
      BY <1>1, <1>4 DEF Heard
    <2>2. Selected(transcript, Heard(t)) = <<>>
      BY <1>1, <2>1, SelectedNone
    <2> QED BY <1>2, <2>2, AsMarks
  <1> QED BY <1>3, <1>4

\* What TranscriptRecordsTurns says of a turn, place by place.
Recorded(t) ==
  /\ Len(HistoryOf(t)) <= Len(TranscriptOf(t))
  /\ SubSeq(TranscriptOf(t), 1, Len(HistoryOf(t))) = HistoryOf(t)

StartsWith(l, h) ==
  Len(h) <= Len(l) /\ \A i \in 1 .. Len(h) : l[i] = h[i]

LEMMA AsPrefix ==
  ASSUME NEW S, NEW h \in Seq(S), NEW l \in Seq(S)
  PROVE  Len(h) <= Len(l) /\ SubSeq(l, 1, Len(h)) = h <=> StartsWith(l, h)
  <1>1. Len(h) \in Nat /\ Len(l) \in Nat
    BY LenProperties
  <1>2. ASSUME Len(h) <= Len(l)
        PROVE  /\ SubSeq(l, 1, Len(h)) \in Seq(S)
               /\ Len(SubSeq(l, 1, Len(h))) = Len(h)
               /\ \A i \in 1 .. Len(h) : SubSeq(l, 1, Len(h))[i] = l[i]
    <2>1. \A i \in 1 .. Len(h) : l[i] \in S
      BY <1>1, <1>2, ElementOfSeq
    <2> QED BY <1>1, <2>1, SubSeqProperties
  <1>3. ASSUME Len(h) <= Len(l), SubSeq(l, 1, Len(h)) = h
        PROVE  StartsWith(l, h)
    BY <1>2, <1>3 DEF StartsWith
  <1>4. ASSUME StartsWith(l, h)
        PROVE  SubSeq(l, 1, Len(h)) = h
    BY <1>2, <1>4, SeqEqual DEF StartsWith
  <1> QED BY <1>3, <1>4 DEF StartsWith

LEMMA RecordedAsPrefix ==
  ASSUME TypeOK, NEW t \in Nat
  PROVE  Recorded(t) <=> StartsWith(TranscriptOf(t), HistoryOf(t))
  <1>1. HistoryOf(t) \in Seq(MarkKinds) /\ TranscriptOf(t) \in Seq(MarkKinds)
    BY AsMarks
  <1> QED BY <1>1, AsPrefix DEF Recorded

\* A turn stays recorded while its history does not change, or equals what the
\* transcript says of it.
LEMMA StaysRecorded ==
  ASSUME TypeOK, NEW t \in Nat, Recorded(t), HistoryOf(t)' = HistoryOf(t),
         NEW k \in MarkKinds,
         TranscriptOf(t)' = TranscriptOf(t) \/ TranscriptOf(t)' = Append(TranscriptOf(t), k)
  PROVE  Recorded(t)'
  <1> DEFINE h == HistoryOf(t)
             l == TranscriptOf(t)
  <1>1. h \in Seq(MarkKinds) /\ l \in Seq(MarkKinds) /\ StartsWith(l, h)
    BY AsMarks, RecordedAsPrefix
  <1>2. h' = h /\ (l' = l \/ l' = Append(l, k))
    OBVIOUS
  <1>3. Recorded(t)' <=> Len(h') <= Len(l') /\ SubSeq(l', 1, Len(h')) = h'
    BY DEF Recorded
  <1> HIDE DEF h, l
  <1>4. /\ Append(l, k) \in Seq(MarkKinds) /\ Len(Append(l, k)) = Len(l) + 1
        /\ Len(l) \in Nat /\ Len(h) \in Nat
        /\ \A i \in 1 .. Len(l) : Append(l, k)[i] = l[i]
    BY <1>1, AppendProperties, LenProperties
  <1>5. StartsWith(Append(l, k), h)
    BY <1>1, <1>4 DEF StartsWith
  <1>6. \A m \in Seq(MarkKinds) :
          Len(h) <= Len(m) /\ SubSeq(m, 1, Len(h)) = h <=> StartsWith(m, h)
    BY <1>1, AsPrefix
  <1>7. CASE l' = l
    BY <1>1, <1>2, <1>3, <1>6, <1>7, Zenon
  <1>8. CASE l' = Append(l, k)
    BY <1>2, <1>3, <1>4, <1>5, <1>6, <1>8, Zenon
  <1> QED BY <1>2, <1>7, <1>8

LEMMA LogGrowsInOrder ==
  ASSUME TypeOK, LogInOrder, turn' = turn, pc' # "begin",
         NEW kind \in {"user", "assistant", "tool"}, transcript' = Logged(kind)
  PROVE  LogInOrder'
  <1> DEFINE e == [kind |-> kind, turn |-> turn]
  <1>1. /\ transcript \in Seq(Entry) /\ e \in Entry /\ e.turn = turn
        /\ transcript' = Append(transcript, e) /\ turn \in Nat
    BY DEF TypeOK, Entry
  <1> HIDE DEF e
  <1>2. /\ DOMAIN transcript = 1 .. Len(transcript) /\ Len(transcript) \in Nat
        /\ DOMAIN transcript' = 1 .. Len(transcript) + 1
        /\ transcript'[Len(transcript) + 1] = e
        /\ \A i \in 1 .. Len(transcript) : transcript'[i] = transcript[i]
    BY <1>1, AppendProperties, LenProperties
  <1> QED BY <1>1, <1>2 DEF LogInOrder

\* A turn that tells and logs the same, one entry of each.
LEMMA TellsAndLogs ==
  ASSUME TypeOK, TypeOK', TurnsInOrder, TranscriptInv, turn' = turn,
         NEW mark \in {"user", "assistant", "tool"},
         \A t \in Nat : HistoryOf(t)' =
                          IF t = turn THEN Append(HistoryOf(t), mark) ELSE HistoryOf(t),
         transcript' = Logged(mark),
         pc = "begin" \/ (InLoop /\ pc # "result"), pc' \notin {"begin", "result"}
  PROVE  TranscriptInv'
  <1>1. turn \in Nat /\ mark \in MarkKinds
    BY DEF TypeOK, MarkKinds, MessageKinds
  <1>2. \A t \in Nat : TranscriptOf(t)' =
          IF t = turn THEN Append(TranscriptOf(t), mark) ELSE TranscriptOf(t)
    BY TranscriptOfLonger
  <1>3. \A t \in Nat : t = turn => HistoryOf(t) = TranscriptOf(t)
    <2>1. CASE pc = "begin"
      <3>1. \A i \in DOMAIN messages : messages[i].turn # turn
        <4>1. \A i \in DOMAIN messages : messages[i].turn \in Nat
          BY MessagesFunction DEF Message
        <4> QED BY <1>1, <2>1, <4>1 DEF TurnsInOrder
      <3>2. \A i \in DOMAIN transcript : transcript[i].turn # turn
        <4>1. \A i \in DOMAIN transcript : transcript[i].turn \in Nat
          <5>1. transcript \in Seq(Entry)
            BY DEF TypeOK
          <5>2. \A i \in DOMAIN transcript : transcript[i] \in Entry
            BY <5>1, ElementOfSeq, LenProperties
          <5> QED BY <5>2 DEF Entry
        <4> QED BY <1>1, <2>1, <4>1 DEF TranscriptInv, LogInOrder
      <3> QED BY <1>1, <3>1, <3>2, NothingTold
    <2>2. CASE InLoop /\ pc # "result"
      BY <2>2 DEF TranscriptInv, SameSoFar, Ahead
    <2> QED BY <2>1, <2>2
  <1>4. \A t \in Nat : t = turn => HistoryOf(t)' = TranscriptOf(t)'
    BY <1>2, <1>3
  <1>5. LogInOrder'
    BY LogGrowsInOrder DEF TranscriptInv
  <1>6. SameSoFar'
    BY <1>1, <1>4 DEF SameSoFar, Ahead
  <1>7. ASSUME NEW t \in 1 .. turn
        PROVE  Recorded(t)'
    <2>1. t \in Nat
      BY <1>1
    <2>2. CASE t = turn
      <3>1. HistoryOf(t)' = TranscriptOf(t)'
        BY <1>4, <2>1, <2>2
      <3>2. TranscriptOf(t)' \in Seq(MarkKinds)
        <4>1. TranscriptOf(t) \in Seq(MarkKinds)
          BY <2>1, AsMarks
        <4>2. Append(TranscriptOf(t), mark) \in Seq(MarkKinds)
          BY <1>1, <4>1, AppendProperties
        <4> QED BY <1>2, <2>1, <2>2, <4>2
      <3>3. Len(TranscriptOf(t)') \in Nat
              /\ SubSeq(TranscriptOf(t)', 1, Len(TranscriptOf(t)')) = TranscriptOf(t)'
        BY <3>2, LenProperties, SubSeqFull
      <3> QED BY <3>1, <3>3 DEF Recorded
    <2>3. CASE t # turn
      <3>1. HistoryOf(t)' = HistoryOf(t) /\ TranscriptOf(t)' = TranscriptOf(t)
        BY <1>2, <2>1, <2>3
      <3>2. Recorded(t)
        BY DEF TranscriptInv, TranscriptRecordsTurns, Recorded
      <3> QED BY <1>1, <2>1, <3>1, <3>2, StaysRecorded
    <2> QED BY <2>2, <2>3
  <1> QED
    BY <1>5, <1>6, <1>7 DEF TranscriptInv, TranscriptRecordsTurns, Recorded

\* A control message is not told.
LEMMA DanglingTold ==
  ASSUME TypeOK, TypeOK', NEW t \in Nat, turn' = turn,
         messages' = messages \o <<Msg("assistant"), Msg("control")>>
  PROVE  HistoryOf(t)' =
           IF t = turn THEN Append(HistoryOf(t), "assistant") ELSE HistoryOf(t)
  <1> DEFINE a == Msg("assistant")
             c == Msg("control")
             longer == Append(messages, a)
  <1>1. messages \in Seq(Message) /\ a \in Message /\ c \in Message
    BY MsgTyped DEF TypeOK, MessageKinds
  <1>2. longer \in Seq(Message)
    BY <1>1, AppendProperties
  <1>3. messages' = Append(longer, c)
    <2>1. <<a, c>> = Append(<<a>>, c) /\ <<a>> \in Seq(Message)
      BY <1>1
    <2>2. longer = messages \o <<a>>
      BY <1>1, AppendIsConcat
    <2> DEFINE one == <<a>>
    <2>3. one \in Seq(Message) /\ messages' = messages \o Append(one, c) /\ longer = messages \o one
      BY <2>1, <2>2
    <2> HIDE DEF a, c, one, longer
    <2>4. messages \o Append(one, c) = Append(messages \o one, c)
      BY <1>1, <2>3, AppendToLast
    <2> QED BY <2>3, <2>4, Zenon
  <1>4. a \in Told(t) <=> t = turn
    BY DEF Told, MessageKinds
  <1>5. c \notin Told(t) /\ Mark(a) = "assistant"
    BY DEF Told, Mark
  <1>6. HistoryOf(t)' = Marks(Selected(messages', Told(t)))
    BY DEF HistoryOf, Marks, Mark, Told
  <1>7. HistoryOf(t) = Marks(Selected(messages, Told(t)))
    BY AsMarks
  <1> HIDE DEF a, c
  <1>8. Marks(Selected(longer, Told(t))) =
          IF a \in Told(t) THEN Append(Marks(Selected(messages, Told(t))), Mark(a))
          ELSE Marks(Selected(messages, Told(t)))
    BY <1>1, ToldOfLonger
  <1> HIDE DEF longer
  <1>9. Marks(Selected(Append(longer, c), Told(t))) =
          IF c \in Told(t) THEN Append(Marks(Selected(longer, Told(t))), Mark(c))
          ELSE Marks(Selected(longer, Told(t)))
    BY <1>1, <1>2, ToldOfLonger
  <1> QED BY <1>3, <1>4, <1>5, <1>6, <1>7, <1>8, <1>9, Zenon

\* The result of a built-in comes into the history behind its line of the
\* transcript; that of another tool is told of in neither.
LEMMA ResultKeepsTranscript ==
  ASSUME TypeOK, TypeOK', TranscriptInv, turn' = turn, UNCHANGED transcript,
         pc = "result", pc' \in {"tool", "return"},
         NEW kind \in IF Head(calls).builtin THEN {"tool_result", "tombstone"}
                      ELSE {"other_result", "other_tombstone"},
         messages' = Append(messages, Msg(kind))
  PROVE  TranscriptInv'
  <1>1. turn \in Nat /\ kind \in MessageKinds
    BY DEF TypeOK, MessageKinds
  <1>2. \A t : TranscriptOf(t)' = TranscriptOf(t)
    BY DEF TranscriptOf
  <1>3. \A t \in Nat : HistoryOf(t)' =
          IF t = turn /\ kind \in {"user", "assistant", "tool_result", "tombstone"}
          THEN Append(HistoryOf(t), Mark(Msg(kind))) ELSE HistoryOf(t)
    BY <1>1, HistoryOfLonger
  <1>4. Head(calls).builtin => Mark(Msg(kind)) = "tool"
    BY DEF Mark, Msg
  <1>5. \A t \in Nat : HistoryOf(t)' =
          IF t = turn /\ Head(calls).builtin
          THEN Append(HistoryOf(t), "tool") ELSE HistoryOf(t)
    <2>1. kind \in {"user", "assistant", "tool_result", "tombstone"} <=> Head(calls).builtin
      OBVIOUS
    <2> QED BY <1>3, <1>4, <2>1, Zenon
  <1>6. TranscriptOf(turn) =
          IF Head(calls).builtin THEN Append(HistoryOf(turn), "tool") ELSE HistoryOf(turn)
    BY <1>1 DEF TranscriptInv, SameSoFar, InLoop, Ahead
  <1>7. HistoryOf(turn)' = TranscriptOf(turn)
    BY <1>1, <1>5, <1>6
  <1>8. \A t \in Nat : t = turn => HistoryOf(t)' = TranscriptOf(t)'
    BY <1>2, <1>7
  <1>9. LogInOrder'
    BY <1>1 DEF TranscriptInv, LogInOrder
  <1>10. SameSoFar'
    BY <1>1, <1>8 DEF SameSoFar, Ahead
  <1>11. ASSUME NEW t \in 1 .. turn
         PROVE  Recorded(t)'
    <2>1. t \in Nat
      BY <1>1
    <2>2. CASE t = turn
      <3>1. HistoryOf(t)' = TranscriptOf(t)'
        BY <1>8, <2>1, <2>2
      <3>2. TranscriptOf(t)' \in Seq(MarkKinds)
        BY <1>2, <2>1, AsMarks
      <3>3. Len(TranscriptOf(t)') \in Nat
              /\ SubSeq(TranscriptOf(t)', 1, Len(TranscriptOf(t)')) = TranscriptOf(t)'
        BY <3>2, LenProperties, SubSeqFull
      <3> QED BY <3>1, <3>3 DEF Recorded
    <2>3. CASE t # turn
      <3>1. HistoryOf(t)' = HistoryOf(t) /\ TranscriptOf(t)' = TranscriptOf(t)
        BY <1>2, <1>5, <2>1, <2>3
      <3>2. Recorded(t) /\ "tool" \in MarkKinds
        BY DEF TranscriptInv, TranscriptRecordsTurns, Recorded, MarkKinds
      <3> QED BY <2>1, <3>1, <3>2, StaysRecorded
    <2> QED BY <2>2, <2>3
  <1> QED
    BY <1>1, <1>9, <1>10, <1>11 DEF TranscriptInv, TranscriptRecordsTurns, Recorded

\* A tool returned: its line, if it is a built-in, before anything else.
LEMMA ReturnKeepsTranscript ==
  ASSUME TypeOK, TypeOK', TranscriptInv, turn' = turn, UNCHANGED <<messages, calls>>,
         pc = "exec", pc' \in {"result", "return"}, transcript' = ToolLogged
  PROVE  TranscriptInv'
  <1>1. turn \in Nat /\ "tool" \in MarkKinds
    BY DEF TypeOK, MarkKinds
  <1>2. \A t : HistoryOf(t)' = HistoryOf(t)
    BY DEF HistoryOf
  <1>3. \A t \in Nat : TranscriptOf(t)' =
          IF t = turn /\ Head(calls).builtin
          THEN Append(TranscriptOf(t), "tool") ELSE TranscriptOf(t)
    <2>1. CASE Head(calls).builtin
      <3>1. transcript' = Logged("tool")
        BY <2>1 DEF ToolLogged
      <3>2. \A t \in Nat : TranscriptOf(t)' =
              IF t = turn THEN Append(TranscriptOf(t), "tool") ELSE TranscriptOf(t)
        BY <3>1, TranscriptOfLonger
      <3> QED BY <2>1, <3>2, Zenon
    <2>2. CASE ~Head(calls).builtin
      <3>1. transcript' = transcript
        BY <2>2 DEF ToolLogged
      <3> QED BY <2>2, <3>1 DEF TranscriptOf
    <2> QED BY <2>1, <2>2
  <1>4. LogInOrder'
    <2>1. CASE transcript' = transcript
      BY <1>1, <2>1 DEF TranscriptInv, LogInOrder
    <2>2. CASE transcript' = Logged("tool")
      BY <1>1, <2>2, LogGrowsInOrder DEF TranscriptInv
    <2> QED BY <2>1, <2>2 DEF ToolLogged
  <1>5. HistoryOf(turn) = TranscriptOf(turn)
    BY <1>1 DEF TranscriptInv, SameSoFar, InLoop, Ahead
  <1>6. SameSoFar'
    <2>1. CASE pc' = "return"
      BY <2>1 DEF SameSoFar, InLoop
    <2>2. CASE pc' = "result"
      <3>1. Ahead' <=> Head(calls).builtin
        BY <2>2 DEF Ahead
      <3>2. \A t \in Nat : t = turn =>
              TranscriptOf(t)' = IF Head(calls).builtin THEN Append(HistoryOf(t)', "tool")
                                 ELSE HistoryOf(t)'
        BY <1>2, <1>3, <1>5
      <3>3. \A t \in Nat : t = turn =>
              TranscriptOf(t)' = IF Ahead' THEN Append(HistoryOf(t)', "tool")
                                 ELSE HistoryOf(t)'
        BY <3>1, <3>2, Zenon
      <3> QED BY <3>3 DEF SameSoFar
    <2> QED BY <2>1, <2>2
  <1>7. ASSUME NEW t \in 1 .. turn
        PROVE  Recorded(t)'
    <2>1. t \in Nat /\ Recorded(t)
      BY <1>1 DEF TranscriptInv, TranscriptRecordsTurns, Recorded
    <2>2. TranscriptOf(t)' = TranscriptOf(t) \/ TranscriptOf(t)' = Append(TranscriptOf(t), "tool")
      BY <1>3, <2>1
    <2> QED BY <1>1, <1>2, <2>1, <2>2, StaysRecorded
  <1> QED
    BY <1>1, <1>4, <1>6, <1>7 DEF TranscriptInv, TranscriptRecordsTurns, Recorded

LEMMA TurnKeepsTranscript ==
  ASSUME TypeOK, TypeOK', CallAtHand, TurnsInOrder, TranscriptInv, Turn
  PROVE  TranscriptInv'
  <1>1. turn' = turn /\ turn \in Nat
    BY TurnStepFacts DEF TypeOK
  <1>2. ASSUME UNCHANGED messages
        PROVE  \A t : HistoryOf(t)' = HistoryOf(t)
    BY <1>2 DEF HistoryOf
  <1>3. CASE TurnArm \/ RoundCheck \/ Request \/ ToolCheck \/ ToolStart \/ TurnReturn
               \/ ChatFails \/ ChatEmpty \/ ChatPasses
    <2>1. /\ UNCHANGED <<messages, transcript>>
          /\ pc' \notin {"begin", "result"} /\ pc # "result"
          /\ (InLoop' => InLoop)
      BY <1>3 DEF TurnArm, RoundCheck, Request, ToolCheck, ToolStart, TurnReturn,
         ChatFails, ChatEmpty, ChatPasses, InLoop, TurnAt, Return
    <2>2. \A t : HistoryOf(t)' = HistoryOf(t) /\ TranscriptOf(t)' = TranscriptOf(t)
      BY <1>2, <2>1 DEF TranscriptOf
    <2>3. LogInOrder'
      BY <1>1, <2>1 DEF TranscriptInv, LogInOrder
    <2>4. SameSoFar'
      <3>1. ~Ahead /\ ~Ahead'
        BY <2>1 DEF Ahead
      <3> QED BY <1>1, <2>1, <2>2, <3>1 DEF TranscriptInv, SameSoFar
    <2>5. TranscriptRecordsTurns'
      BY <1>1, <2>2 DEF TranscriptInv, TranscriptRecordsTurns
    <2> QED BY <2>3, <2>4, <2>5 DEF TranscriptInv
  <1>4. CASE ToolCancelled \/ ToolPasses
    BY <1>1, <1>4, ReturnKeepsTranscript DEF ToolCancelled, ToolPasses, TurnAt, Return,
       loopVars
  <1>5. ASSUME NEW kind \in {"user", "assistant"},
               messages' = Append(messages, Msg(kind)), transcript' = Logged(kind),
               pc = "begin" \/ (InLoop /\ pc # "result"), pc' \notin {"begin", "result"}
        PROVE  TranscriptInv'
    <2>1. kind \in MessageKinds /\ Mark(Msg(kind)) = kind
      BY DEF MessageKinds, Mark, Msg
    <2>2. \A t \in Nat : HistoryOf(t)' =
            IF t = turn /\ kind \in {"user", "assistant", "tool_result", "tombstone"}
            THEN Append(HistoryOf(t), Mark(Msg(kind))) ELSE HistoryOf(t)
      BY <1>5, <2>1, HistoryOfLonger
    <2>3. kind \in {"user", "assistant", "tool_result", "tombstone"}
      OBVIOUS
    <2>4. \A t \in Nat : HistoryOf(t)' =
            IF t = turn THEN Append(HistoryOf(t), kind) ELSE HistoryOf(t)
      BY <2>1, <2>2, <2>3, Zenon
    <2> QED BY <1>1, <1>5, <2>4, TellsAndLogs
  <1>6. CASE TurnBegin
    BY <1>5, <1>6 DEF TurnBegin, TurnAt
  <1>7. CASE ChatAnswer \/ ChatCalls
    BY <1>5, <1>7 DEF ChatAnswer, ChatCalls, InLoop, TurnAt, Return
  <1>8. CASE ToolShown \/ ToolResult
    <2>1. /\ pc = "result" /\ pc' \in {"tool", "return"} /\ UNCHANGED transcript
          /\ \/ messages' = Append(messages, Msg(ResultKind))
             \/ messages' = Append(messages, Msg(TombstoneKind))
      BY <1>8 DEF ToolShown, ToolResult, TurnAt, Return
    <2>2. \E kind \in IF Head(calls).builtin THEN {"tool_result", "tombstone"}
                       ELSE {"other_result", "other_tombstone"} :
            messages' = Append(messages, Msg(kind))
      BY <2>1 DEF ResultKind, TombstoneKind
    <2> QED BY <1>1, <2>1, <2>2, ResultKeepsTranscript
  <1>9. CASE ChatDangling
    <2>1. \A t \in Nat : HistoryOf(t)' =
            IF t = turn THEN Append(HistoryOf(t), "assistant") ELSE HistoryOf(t)
      BY <1>1, <1>9, DanglingTold DEF ChatDangling
    <2> QED BY <1>1, <1>9, <2>1, TellsAndLogs DEF ChatDangling, InLoop, TurnAt
  <1> QED
    BY <1>3, <1>4, <1>6, <1>7, <1>8, <1>9
       DEF Turn, TurnRuns, ChatReturns, ToolReturns, TakesReply, TakesResult

\* The rollback takes entries away at the end of the history, so that what is
\* left of a turn is the beginning of what was told of it.
LEMMA RolledBackTold ==
  ASSUME TypeOK, TypeOK', TurnFinished, NEW t \in Nat
  PROVE  StartsWith(HistoryOf(t), HistoryOf(t)')
  <1>1. messages \in Seq(Message) /\ Len(messages) \in Nat /\ base \in Nat
    BY LenProperties DEF TypeOK
  <1>2. /\ HistoryOf(t) = Marks(Selected(messages, Told(t)))
        /\ HistoryOf(t) \in Seq(MarkKinds)
    BY AsMarks
  <1>3. HistoryOf(t)' = Marks(Selected(messages', Told(t)))
    BY DEF HistoryOf, Marks, Mark, Told
  <1>4. CASE messages' = messages
    <2>1. HistoryOf(t)' = HistoryOf(t) /\ Len(HistoryOf(t)) \in Nat
      BY <1>2, <1>3, <1>4, LenProperties
    <2> QED BY <2>1 DEF StartsWith
  <1>5. CASE messages' = SubSeq(messages, 1, base) /\ base <= Len(messages)
    <2> DEFINE kept == SubSeq(messages, 1, base)
               lost == SubSeq(messages, base + 1, Len(messages))
               h == Selected(kept, Told(t))
               u == Selected(lost, Told(t))
    <2>1. kept \in Seq(Message)
      <3>1. \A i \in 1 .. base : messages[i] \in Message
        BY <1>1, <1>5, ElementOfSeq
      <3> QED BY <1>1, <3>1, SubSeqProperties
    <2>2. lost \in Seq(Message)
      BY <1>1, <1>5, SuffixElements
    <2>3. messages = kept \o lost
      <3>1. /\ 1 \in 1 .. Len(messages) + 1
            /\ base \in 1 - 1 .. Len(messages)
            /\ Len(messages) \in base .. Len(messages)
        BY <1>1, <1>5
      <3>2. kept \o lost = SubSeq(messages, 1, Len(messages))
        BY <1>1, <3>1, ConcatAdjacentSubSeq, Zenon
      <3> QED BY <1>1, <3>2, SubSeqFull
    <2>4. messages' = kept
      BY <1>5
    <2> HIDE DEF kept, lost
    <2>5. Selected(kept \o lost, Told(t)) = h \o u
      BY <2>1, <2>2, SelectedConcat
    <2>6. h \in Seq(Message) /\ u \in Seq(Message)
      <3>1. h \in Seq(Message \cap Told(t)) /\ u \in Seq(Message \cap Told(t))
        BY <2>1, <2>2, SelectedType
      <3> QED BY <3>1, SeqMonotonic
    <2>7. HistoryOf(t) = Marks(h \o u) /\ HistoryOf(t)' = Marks(h)
      BY <1>2, <1>3, <2>3, <2>4, <2>5, Zenon
    <2> HIDE DEF h, u
    <2>8. /\ h \o u \in Seq(Message) /\ Len(h \o u) = Len(h) + Len(u)
          /\ Len(h) \in Nat /\ Len(u) \in Nat
          /\ \A i \in 1 .. Len(h) : (h \o u)[i] = h[i]
      BY <2>6, ConcatProperties, LenProperties
    <2> DEFINE whole == h \o u
    <2>9. /\ Len(Marks(whole)) = Len(whole)
          /\ \A i \in 1 .. Len(whole) : Marks(whole)[i] = Mark(whole[i])
      <3>1. whole \in Seq(Message)
        BY <2>8
      <3> HIDE DEF whole
      <3> QED BY <3>1, MarksTyped
    <2>10. /\ Len(Marks(h)) = Len(h)
           /\ \A i \in 1 .. Len(h) : Marks(h)[i] = Mark(h[i])
      BY <2>6, MarksTyped
    <2>11. /\ Len(whole) = Len(h) + Len(u) /\ \A i \in 1 .. Len(h) : whole[i] = h[i]
      BY <2>8
    <2>12. HistoryOf(t) = Marks(whole)
      BY <2>7
    <2> HIDE DEF whole
    <2>13. StartsWith(Marks(whole), Marks(h))
      <3>1. Len(Marks(h)) <= Len(Marks(whole))
        BY <2>8, <2>9, <2>10, <2>11
      <3>2. \A i \in 1 .. Len(Marks(h)) : Marks(whole)[i] = Marks(h)[i]
        BY <2>8, <2>9, <2>10, <2>11
      <3> QED BY <3>1, <3>2 DEF StartsWith
    <2> QED BY <2>7, <2>12, <2>13, Zenon
  <1> QED BY <1>1, <1>4, <1>5 DEF TurnFinished, RolledBack

LEMMA PrefixOfPrefix ==
  ASSUME NEW S, NEW a \in Seq(S), NEW b \in Seq(S), NEW c \in Seq(S),
         StartsWith(c, b), StartsWith(b, a)
  PROVE  StartsWith(c, a)
  <1>1. Len(a) \in Nat /\ Len(b) \in Nat /\ Len(c) \in Nat
    BY LenProperties
  <1> QED BY <1>1 DEF StartsWith

LEMMA MainKeepsTranscript ==
  ASSUME TypeOK, TypeOK', TurnsInOrder, TurnsInOrder', TranscriptInv, Main
  PROVE  TranscriptInv'
  <1>1. /\ turn \in Nat
        /\ \A i \in DOMAIN messages : messages[i].turn \in Nat
        /\ \A i \in DOMAIN transcript : transcript[i].turn \in Nat
    <2>1. \A i \in DOMAIN transcript : transcript[i] \in Entry
      <3>1. transcript \in Seq(Entry)
        BY DEF TypeOK
      <3> QED BY <3>1, ElementOfSeq, LenProperties
    <2> QED BY <2>1, MessagesFunction DEF TypeOK, Message, Entry
  <1>2. UNCHANGED transcript
    BY DEF Main, PromptLine, ShellStart, Steer, ShellDone, Interrupt, CancelTurn,
       CtrlCExpires, TurnFinished, Quit
  <1>3. \A t : TranscriptOf(t)' = TranscriptOf(t)
    BY <1>2 DEF TranscriptOf
  <1>4. \/ turn' = turn /\ (pc' = pc \/ pc' = "none")
        \/ turn' = turn + 1 /\ pc' = "begin"
    BY DEF Main, PromptLine, ShellStart, Steer, ShellDone, Interrupt, CancelTurn,
       CtrlCExpires, TurnFinished, Quit
  <1>5. LogInOrder'
    BY <1>1, <1>2, <1>4 DEF TranscriptInv, LogInOrder
  <1>6. UNCHANGED messages \/ (TurnFinished /\ ~InLoop')
    BY DEF Main, PromptLine, ShellStart, Steer, ShellDone, Interrupt, CancelTurn,
       CtrlCExpires, TurnFinished, Quit, InLoop
  <1>7. SameSoFar'
    <2>1. CASE UNCHANGED messages
      <3>1. \A t : HistoryOf(t)' = HistoryOf(t)
        BY <2>1 DEF HistoryOf
      <3>2. UNCHANGED calls
        BY DEF Main, PromptLine, ShellStart, Steer, ShellDone, Interrupt, CancelTurn,
           CtrlCExpires, TurnFinished, Quit, turnVars, loopVars
      <3>3. pc' \notin {"none", "begin"} => turn' = turn /\ pc' = pc /\ Ahead' = Ahead
        BY <1>4, <3>2 DEF Ahead
      <3>4. InLoop' => turn' = turn /\ InLoop /\ Ahead' = Ahead
        BY <3>3 DEF InLoop
      <3> QED BY <1>3, <3>1, <3>4 DEF TranscriptInv, SameSoFar
    <2>2. CASE ~InLoop'
      BY <2>2 DEF SameSoFar
    <2> QED BY <1>6, <2>1, <2>2
  <1>8. ASSUME NEW t \in 1 .. turn'
        PROVE  Recorded(t)'
    <2>1. t \in Nat
      BY <1>1, <1>4
    <2>2. Recorded(t)
      <3>1. CASE t \in 1 .. turn
        BY <3>1 DEF TranscriptInv, TranscriptRecordsTurns, Recorded
      <3>2. CASE t = turn + 1
        <4>1. HistoryOf(t) = <<>> /\ TranscriptOf(t) = <<>>
          <5>1. \A i \in DOMAIN messages : messages[i].turn # t
            BY <1>1, <3>2 DEF TurnsInOrder
          <5>2. \A i \in DOMAIN transcript : transcript[i].turn # t
            BY <1>1, <3>2 DEF TranscriptInv, LogInOrder
          <5> QED BY <2>1, <5>1, <5>2, NothingTold
        <4>2. StartsWith(<<>>, <<>>)
          BY DEF StartsWith
        <4> QED BY <2>1, <4>1, <4>2, RecordedAsPrefix
      <3> QED BY <1>1, <1>4, <3>1, <3>2
    <2>3. CASE UNCHANGED messages
      <3>1. HistoryOf(t)' = HistoryOf(t)
        BY <2>3 DEF HistoryOf
      <3>2. "tool" \in MarkKinds
        BY DEF MarkKinds
      <3> QED BY <1>3, <2>1, <2>2, <3>1, <3>2, StaysRecorded
    <2>4. CASE TurnFinished
      <3> DEFINE h == HistoryOf(t)
                 l == TranscriptOf(t)
                 g == HistoryOf(t)'
      <3>1. h \in Seq(MarkKinds) /\ l \in Seq(MarkKinds) /\ StartsWith(l, h)
        BY <2>1, <2>2, AsMarks, RecordedAsPrefix
      <3>2. StartsWith(h, g)
        BY <2>1, <2>4, RolledBackTold
      <3>3. g \in Seq(MarkKinds)
        <4>1. messages' \in Seq(Message)
          BY DEF TypeOK
        <4>2. Selected(messages', Told(t)) \in Seq(Message \cap Told(t))
          BY <4>1, SelectedType
        <4>3. Marks(Selected(messages', Told(t)))
                \in Seq({Mark(x) : x \in Message \cap Told(t)})
          BY <4>2, MarksTyped
        <4>4. {Mark(x) : x \in Message \cap Told(t)} \subseteq MarkKinds
          BY DEF Mark, Message, MarkKinds, MessageKinds
        <4>5. g = Marks(Selected(messages', Told(t)))
          BY DEF HistoryOf, Marks, Mark, Told
        <4> QED BY <4>3, <4>4, <4>5, SeqMonotonic
      <3>4. l = TranscriptOf(t)'
        BY <1>3
      <3>5. Recorded(t)' <=> Len(g) <= Len(l) /\ SubSeq(l, 1, Len(g)) = g
        BY <3>4 DEF Recorded
      <3> HIDE DEF h, l, g
      <3>6. StartsWith(l, g)
        BY <3>1, <3>2, <3>3, PrefixOfPrefix
      <3> QED BY <3>1, <3>3, <3>5, <3>6, AsPrefix
    <2> QED BY <1>6, <2>3, <2>4
  <1> QED
    BY <1>5, <1>7, <1>8 DEF TranscriptInv, TranscriptRecordsTurns, Recorded

\* The transcript records the requests, the replies and the built-in tools' results
\* of every turn, whatever tools there are: what the history holds of them is the
\* beginning of what is logged, and a cancelled turn stays logged when it is rolled
\* back.  Control messages and other tools' results are neither told nor logged.
THEOREM TranscriptComplete == Spec => []TranscriptRecordsTurns
  <1>1. Init => TranscriptInv
    BY DEF Init, TranscriptInv, LogInOrder, SameSoFar, InLoop, TranscriptRecordsTurns
  <1>2. /\ TypeOK /\ TypeOK' /\ CallAtHand /\ RoundInv /\ RoundInv' /\ TranscriptInv
        /\ [Next]_vars
        => TranscriptInv'
    <2>1. ASSUME TranscriptInv, UNCHANGED vars
          PROVE  TranscriptInv'
      <3>1. \A t : HistoryOf(t)' = HistoryOf(t) /\ TranscriptOf(t)' = TranscriptOf(t)
        BY <2>1 DEF vars, HistoryOf, TranscriptOf
      <3>2. UNCHANGED <<transcript, turn, pc>> /\ Ahead' = Ahead /\ InLoop' = InLoop
        BY <2>1 DEF vars, loopVars, Ahead, InLoop
      <3>3. LogInOrder' /\ TranscriptRecordsTurns'
        BY <2>1, <3>1, <3>2 DEF TranscriptInv, LogInOrder, TranscriptRecordsTurns
      <3>4. SameSoFar'
        BY <2>1, <3>1, <3>2 DEF TranscriptInv, SameSoFar
      <3> QED BY <3>3, <3>4 DEF TranscriptInv
    <2> QED
      BY <2>1, MainKeepsTranscript, TurnKeepsTranscript DEF Next, Exited, RoundInv
  <1>3. TranscriptInv => TranscriptRecordsTurns
    BY DEF TranscriptInv
  <1> QED BY <1>1, <1>2, <1>3, Typed, RoundInvariant, PTL DEF Spec
=============================================================================
