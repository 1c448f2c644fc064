-------------------------- MODULE InputQueueProofs --------------------------
(***************************************************************************)
(* Proofs about InputQueue, for any capacity of the two channels and any   *)
(* kinds of lines: no line that is typed, and that no "!" command reads, is*)
(* lost, repeated or overtaken on its way from the terminal through        *)
(* readInput and the event channel to main, and none is left behind by the *)
(* end of the input.                                                       *)
(*                                                                         *)
(* That the end overtakes no line needs to know where the end is: EndIsLast*)
(* follows it from the terminal to the channel.                            *)
(***************************************************************************)
EXTENDS InputQueue, SelectionProofs

Events == Kinds \cup {"ctrl-c", "eof"}

\* The reader holds a line, or the end, only while it sends it.
HandIsSent ==
  /\ reader # "send" => hand = "none"
  /\ reader = "send" => hand \in Kinds \cup {"eof"}

\* The end is read when nothing is left to read, then sent, then nothing more.
EndIsLast ==
  /\ hand = "eof" \/ reader = "gone" => closed /\ buffer = <<>> /\ stdin = <<>>
  /\ \A i \in DOMAIN events : events[i] = "eof" =>
       /\ reader = "gone"
       /\ \A j \in DOMAIN events : j > i => events[j] \notin Kinds

IInv == TypeOK /\ HandIsSent /\ EndIsLast /\ LinesKept

-----------------------------------------------------------------------------
\* The lines in the channel.
LEMMA LinesTyped ==
  ASSUME NEW s \in Seq(Events)
  PROVE  Selected(s, Kinds) \in Seq(Kinds)
  <1>1. Selected(s, Kinds) \in Seq(Events \cap Kinds) /\ Events \cap Kinds = Kinds
    BY SelectedType DEF Events
  <1> QED BY <1>1

\* The part of a channel behind its first event.
LEMMA LinesOfTail ==
  ASSUME NEW s \in Seq(Events), s # <<>>
  PROVE  Selected(s, Kinds) = (IF Head(s) \in Kinds THEN <<Head(s)>> ELSE <<>>)
                              \o Selected(Tail(s), Kinds)
  <1>1. /\ Head(s) \in Events /\ Tail(s) \in Seq(Events)
        /\ s = <<Head(s)>> \o Tail(s) /\ <<Head(s)>> \in Seq(Events)
    BY HeadThenTail
  <1> DEFINE one == <<Head(s)>>
             behind == Tail(s)
  <1>2. Selected(one, Kinds) = IF Head(s) \in Kinds THEN <<Head(s)>> ELSE <<>>
    BY <1>1, SelectedOne, Zenon
  <1>3. one \in Seq(Events) /\ behind \in Seq(Events) /\ s = one \o behind
    BY <1>1
  <1> HIDE DEF one, behind
  <1>4. Selected(one \o behind, Kinds) = Selected(one, Kinds) \o Selected(behind, Kinds)
    BY <1>3, SelectedConcat
  <1> QED BY <1>2, <1>3, <1>4, Zenon DEF behind

\* An event more at the end of the channel.
LEMMA LinesOfLonger ==
  ASSUME NEW s \in Seq(Events), NEW e \in Events
  PROVE  Selected(Append(s, e), Kinds) =
           IF e \in Kinds THEN Append(Selected(s, Kinds), e) ELSE Selected(s, Kinds)
  BY SelectedAppend, Zenon

\* No event, and nothing in hand, has the name of a line.
LEMMA NoLine == {"none", "eof", "ctrl-c"} \cap Kinds = {}
  BY QueueAssumption

\* The four places a line can be in: served, in the channel, in hand, unread.
\* Typing, reading and sending a line move it one place on.
LEMMA TypedLine ==
  ASSUME NEW S, NEW a \in Seq(S), NEW b \in Seq(S), NEW c \in Seq(S), NEW d \in Seq(S),
         NEW e \in S
  PROVE  a \o b \o c \o Append(d, e) = Append(a \o b \o c \o d, e)
  <1> DEFINE front == a \o b \o c
  <1>1. front \in Seq(S)
    BY ConcatProperties
  <1> HIDE DEF front
  <1>2. front \o Append(d, e) = Append(front \o d, e)
    BY <1>1, AppendToLast
  <1> QED BY <1>2 DEF front

LEMMA LineRead ==
  ASSUME NEW S, NEW a \in Seq(S), NEW b \in Seq(S), NEW d \in Seq(S), d # <<>>
  PROVE  a \o b \o <<>> \o d = a \o b \o <<Head(d)>> \o Tail(d)
  <1> DEFINE front == a \o b
             one == <<Head(d)>>
             behind == Tail(d)
  <1>1. front \in Seq(S) /\ front \o <<>> = front
    BY ConcatProperties, ConcatEmptySeq
  <1>2. one \in Seq(S) /\ behind \in Seq(S) /\ d = one \o behind
    BY HeadThenTail
  <1> HIDE DEF front, one, behind
  <1>3. front \o (one \o behind) = (front \o one) \o behind
    BY <1>1, <1>2, ConcatAssociative
  <1>4. (front \o <<>>) \o d = (front \o one) \o behind
    BY <1>1, <1>2, <1>3, Zenon
  <1> QED BY <1>4, Zenon DEF front, one, behind

LEMMA SentLine ==
  ASSUME NEW S, NEW a \in Seq(S), NEW b \in Seq(S), NEW d \in Seq(S), NEW e \in S
  PROVE  a \o b \o <<e>> \o d = a \o Append(b, e) \o <<>> \o d
  <1> DEFINE one == <<e>>
             longer == Append(b, e)
  <1>0. one \in Seq(S)
    OBVIOUS
  <1>1. longer \in Seq(S) /\ longer = b \o one
    BY AppendIsConcat, AppendProperties
  <1> HIDE DEF one, longer
  <1>2. a \o longer \in Seq(S)
    BY <1>1, ConcatProperties
  <1>3. (a \o longer) \o <<>> = a \o longer
    BY <1>2, ConcatEmptySeq
  <1>4. a \o (b \o one) = (a \o b) \o one
    BY <1>0, ConcatAssociative
  <1>5. ((a \o b) \o one) \o d = ((a \o longer) \o <<>>) \o d
    BY <1>1, <1>3, <1>4, Zenon
  <1> QED BY <1>5, Zenon DEF one, longer

-----------------------------------------------------------------------------
InHand == IF IsLine(hand) THEN <<hand>> ELSE <<>>
Unread == buffer \o stdin
Lines == Selected(events, Kinds)

\* The parts LinesKept puts together are sequences of lines.
LEMMA QueueTyped ==
  ASSUME TypeOK
  PROVE  /\ Lines \in Seq(Kinds) /\ InHand \in Seq(Kinds)
         /\ typed \in Seq(Kinds) /\ served \in Seq(Kinds) /\ Unread \in Seq(Kinds)
         /\ stdin \in Seq(Kinds) /\ buffer \in Seq(Kinds) /\ served \o Lines \in Seq(Kinds)
         /\ served \o Lines \o InHand \in Seq(Kinds)
         /\ events \in Seq(Events)
  <1>1. events \in Seq(Events) /\ served \in Seq(Kinds)
    BY DEF TypeOK, Events
  <1>2. Lines \in Seq(Kinds)
    BY <1>1, LinesTyped DEF Lines
  <1>3. InHand \in Seq(Kinds)
    BY DEF InHand, IsLine
  <1>4. served \o Lines \in Seq(Kinds)
    BY <1>1, <1>2, ConcatProperties
  <1>5. served \o Lines \o InHand \in Seq(Kinds)
    BY <1>3, <1>4, ConcatProperties
  <1>6. Unread \in Seq(Kinds)
    BY ConcatProperties DEF TypeOK, Unread
  <1> QED BY <1>1, <1>2, <1>3, <1>4, <1>5, <1>6 DEF TypeOK

\* Typing a line puts it behind all the others.
LEMMA TypeLineKeeps ==
  ASSUME IInv, NEW kind \in Kinds, TypeLine(kind)
  PROVE  IInv'
  <1>1. TypeOK'
    <2>1. typed' \in Seq(Kinds) /\ stdin' \in Seq(Kinds)
      BY AppendProperties DEF TypeLine, IInv, TypeOK
    <2> QED BY <2>1 DEF TypeLine, IInv, TypeOK, userVars, mainVars, readerVars, signalVars
  <1>2. HandIsSent' /\ EndIsLast'
    BY DEF TypeLine, IInv, HandIsSent, EndIsLast, readerVars
  <1>3. /\ typed' = Append(typed, kind) /\ Unread' = Append(Unread, kind)
        /\ served' = served /\ Lines' = Lines /\ InHand' = InHand
        /\ main' # "ended by eof"
    <2>1. buffer \in Seq(Kinds) /\ stdin \in Seq(Kinds)
      BY DEF IInv, TypeOK
    <2>2. buffer \o Append(stdin, kind) = Append(buffer \o stdin, kind)
      BY <2>1, AppendToLast
    <2>3. buffer' = buffer /\ stdin' = Append(stdin, kind)
      BY DEF TypeLine, readerVars
    <2>4. Unread' = Append(Unread, kind)
      BY <2>2, <2>3, Zenon DEF Unread
    <2> QED BY <2>4 DEF TypeLine, readerVars, mainVars, Lines, InHand, Gone, Running
  <1>4. served \o Lines \o InHand \o Append(Unread, kind) =
          Append(served \o Lines \o InHand \o Unread, kind)
    <2>1. /\ served \in Seq(Kinds) /\ Lines \in Seq(Kinds)
          /\ InHand \in Seq(Kinds) /\ Unread \in Seq(Kinds)
      BY QueueTyped DEF IInv
    <2> QED BY <2>1, TypedLine
  <1>5. typed = served \o Lines \o InHand \o Unread
    BY DEF IInv, LinesKept, Lines, InHand, Unread
  <1>6. typed' = served' \o Lines' \o InHand' \o Unread'
    BY <1>3, <1>4, <1>5, Zenon
  <1> QED BY <1>1, <1>2, <1>3, <1>6 DEF IInv, LinesKept, Lines, InHand, Unread

\* A step that leaves the lines where they are.
LEMMA LinesStay ==
  ASSUME IInv,
         typed' = typed, served' = served, Lines' = Lines, InHand' = InHand,
         Unread' = Unread, main' = "ended by eof" => main = "ended by eof"
  PROVE  LinesKept'
  <1>1. typed = served \o Lines \o InHand \o Unread
    BY DEF IInv, LinesKept, Lines, InHand, Unread
  <1>2. typed' = served' \o Lines' \o InHand' \o Unread'
    BY <1>1, Zenon
  <1>3. main' = "ended by eof" => served' = typed'
    BY DEF IInv, LinesKept
  <1> QED BY <1>2, <1>3 DEF LinesKept, Lines, InHand, Unread

LEMMA QuietSteps ==
  ASSUME IInv, TypeEnd \/ PressCtrlC \/ Pause \/ ForwardTake \/ ShellEnds \/ TurnEnds
  PROVE  IInv'
  <1>1. /\ typed' = typed /\ served' = served /\ stdin' = stdin /\ hand' = hand
        /\ events' = events /\ reader' = reader /\ buffer' = buffer /\ taken' = taken
        /\ main' = "ended by eof" => main = "ended by eof"
        /\ closed' = closed \/ closed' = TRUE
    BY DEF TypeEnd, PressCtrlC, Pause, ForwardTake, ShellEnds, TurnEnds, userVars,
           inputVars, readerVars, signalVars, mainVars, IInv, TypeOK
  <1>2. Min({sig + 1, SigCapacity}) \in 0 .. SigCapacity
    <2>1. sig + 1 \in Nat /\ SigCapacity \in Nat
      <3>1. sig \in 0 .. SigCapacity
        BY DEF IInv, TypeOK
      <3>2. SigCapacity \in Nat
        BY QueueAssumption
      <3> QED BY <3>1, <3>2
    <2>2. \A x \in {sig + 1, SigCapacity} : \A y \in {sig + 1, SigCapacity} :
            x <= y \/ y <= x
      BY <2>1
    <2>3. \E x \in {sig + 1, SigCapacity} : \A y \in {sig + 1, SigCapacity} : x <= y
      BY <2>1
    <2>4. Min({sig + 1, SigCapacity}) \in {sig + 1, SigCapacity}
          /\ \A y \in {sig + 1, SigCapacity} : Min({sig + 1, SigCapacity}) <= y
      BY <2>3, Zenon DEF Min
    <2> QED BY <2>1, <2>4
  <1>3. TypeOK'
    <2>0. sig \in 0 .. SigCapacity /\ presses \in 0 .. MaxPresses
      BY DEF IInv, TypeOK
    <2>1. presses' \in 0 .. MaxPresses /\ sig' \in 0 .. SigCapacity
      <3> USE DEF userVars, signalVars
      <3>1. CASE PressCtrlC
        BY <1>2, <2>0, <3>1, QueueAssumption DEF PressCtrlC
      <3>2. CASE ForwardTake
        BY <2>0, <3>2, QueueAssumption DEF ForwardTake
      <3>3. CASE TypeEnd \/ Pause \/ ShellEnds \/ TurnEnds
        BY <2>0, <3>3 DEF TypeEnd, Pause, ShellEnds, TurnEnds
      <3> QED BY <3>1, <3>2, <3>3
    <2>2. /\ main' \in Running \cup {"ended by eof", "ended by double", "ended by exit"}
          /\ turn' \in {"none", "runs", "drains"} /\ forward' \in {"wait", "send"}
          /\ rest' \in {"none", "typed", "dropped"}
      BY DEF TypeEnd, PressCtrlC, Pause, ForwardTake, ShellEnds, TurnEnds, Running,
         inputVars, signalVars, mainVars, IInv, TypeOK
    <2>3. {closed', steered', recent', pressed', rapid', ran'} \subseteq BOOLEAN
      BY DEF TypeEnd, PressCtrlC, Pause, ForwardTake, ShellEnds, TurnEnds,
         userVars, mainVars, IInv, TypeOK
    <2> QED BY <1>1, <2>1, <2>2, <2>3 DEF IInv, TypeOK
  <1>4. HandIsSent' /\ EndIsLast'
    <2>1. HandIsSent'
      BY <1>1, Zenon DEF IInv, HandIsSent
    <2>3. closed => closed'
      BY DEF TypeEnd, PressCtrlC, Pause, ForwardTake, ShellEnds, TurnEnds, userVars
    <2>2. hand' = "eof" \/ reader' = "gone" => closed' /\ buffer' = <<>> /\ stdin' = <<>>
      BY <1>1, <2>3, Zenon DEF IInv, EndIsLast
    <2> QED BY <1>1, <2>1, <2>2, Zenon DEF IInv, EndIsLast
  <1>5. LinesKept'
    <2>1. Lines' = Lines /\ InHand' = InHand /\ Unread' = Unread
      BY <1>1 DEF Lines, InHand, Unread, IsLine
    <2> QED BY <1>1, <2>1, LinesStay
  <1> QED BY <1>3, <1>4, <1>5 DEF IInv

\* A sequence in two parts.
LEMMA PartsOf ==
  ASSUME NEW S, NEW s \in Seq(S), NEW n \in 1 .. Len(s)
  PROVE  /\ SubSeq(s, 1, n) \in Seq(S) /\ SubSeq(s, n + 1, Len(s)) \in Seq(S)
         /\ SubSeq(s, 1, n) \o SubSeq(s, n + 1, Len(s)) = s
  <1> DEFINE front == SubSeq(s, 1, n)
             back == SubSeq(s, n + 1, Len(s))
  <1>1. Len(s) \in Nat /\ n \in Int /\ \A i \in 1 .. Len(s) : s[i] \in S
    BY LenProperties, ElementOfSeq
  <1>2. /\ front \in Seq(S) /\ Len(front) = n
        /\ \A i \in 1 .. n : front[i] = s[i]
    BY <1>1, SubSeqProperties
  <1>3. /\ back \in Seq(S) /\ Len(back) = Len(s) - n
        /\ \A i \in 1 .. Len(s) - n : back[i] = s[n + i]
    BY <1>1, SubSeqProperties
  <1> HIDE DEF front, back
  <1>4. /\ front \o back \in Seq(S) /\ Len(front \o back) = Len(s)
        /\ \A i \in 1 .. Len(s) :
             (front \o back)[i] = IF i <= n THEN front[i] ELSE back[i - n]
    <2>1. /\ front \o back \in Seq(S)
          /\ Len(front \o back) = Len(front) + Len(back)
          /\ \A i \in 1 .. Len(front) + Len(back) :
               (front \o back)[i] =
                 IF i <= Len(front) THEN front[i] ELSE back[i - Len(front)]
      BY <1>2, <1>3, ConcatProperties
    <2>2. Len(front) + Len(back) = Len(s)
      BY <1>1, <1>2, <1>3
    <2> QED BY <1>2, <2>1, <2>2
  <1>5. \A i \in 1 .. Len(s) : (front \o back)[i] = s[i]
    BY <1>1, <1>2, <1>3, <1>4
  <1>6. front \o back = s
    BY <1>4, <1>5, SeqEqual
  <1> QED BY <1>2, <1>3, <1>6 DEF front, back

\* The front of a sequence, by the length of what is behind it.
LEMMA FrontOf ==
  ASSUME NEW S, NEW front \in Seq(S), NEW back \in Seq(S), NEW whole \in Seq(S),
         whole = front \o back
  PROVE  SubSeq(whole, 1, Len(whole) - Len(back)) = front
  <1>1. /\ Len(front) \in Nat /\ Len(back) \in Nat
        /\ Len(whole) = Len(front) + Len(back)
        /\ \A i \in 1 .. Len(front) : whole[i] = front[i] /\ whole[i] \in S
    BY LenProperties, ConcatProperties, ElementOfSeq
  <1>2. Len(whole) - Len(back) = Len(front)
    BY <1>1
  <1> DEFINE part == SubSeq(whole, 1, Len(front))
  <1>3. /\ part \in Seq(S) /\ Len(part) = Len(front)
        /\ \A i \in 1 .. Len(front) : part[i] = whole[i]
    BY <1>1, SubSeqProperties
  <1> HIDE DEF part
  <1>4. part = front
    BY <1>1, <1>3, SeqEqual
  <1> QED BY <1>2, <1>4 DEF part

\* r.reader's buffer gets the first lines of the input.
LEMMA FillKeeps ==
  ASSUME IInv, Fill
  PROVE  IInv'
  <1> USE DEF userVars, signalVars, mainVars
  <1>1. PICK n \in 1 .. Len(stdin) :
          /\ buffer' = SubSeq(stdin, 1, n)
          /\ stdin' = SubSeq(stdin, n + 1, Len(stdin))
    BY DEF Fill
  <1>2. stdin \in Seq(Kinds) /\ buffer = <<>>
    BY DEF IInv, TypeOK, Fill
  <1>3. buffer' \in Seq(Kinds) /\ stdin' \in Seq(Kinds) /\ Unread' = stdin
    <2>1. /\ SubSeq(stdin, 1, n) \in Seq(Kinds)
          /\ SubSeq(stdin, n + 1, Len(stdin)) \in Seq(Kinds)
          /\ SubSeq(stdin, 1, n) \o SubSeq(stdin, n + 1, Len(stdin)) = stdin
      BY <1>2, PartsOf
    <2> QED BY <1>1, <2>1, Zenon DEF Unread
  <1>4. Unread = stdin
    BY <1>2, ConcatEmptySeq DEF Unread
  <1>5. TypeOK'
    BY <1>3 DEF Fill, IInv, TypeOK
  <1>6. HandIsSent' /\ EndIsLast'
    <2>1. reader = "read" /\ reader' = "read" /\ hand' = hand /\ events' = events
      BY DEF Fill
    <2>2. hand = "none"
      BY <2>1 DEF IInv, HandIsSent
    <2> QED BY <2>1, <2>2 DEF IInv, HandIsSent, EndIsLast
  <1>7. /\ typed' = typed /\ served' = served /\ Lines' = Lines /\ InHand' = InHand
        /\ main' = main
    BY DEF Fill, Lines, InHand, IsLine
  <1> QED BY <1>3, <1>4, <1>5, <1>6, <1>7, LinesStay DEF IInv

\* The reader takes a line off its buffer, or finds the end of the input.
LEMMA ReadKeeps ==
  ASSUME IInv, Read
  PROVE  IInv'
  <1> USE DEF userVars, signalVars, mainVars
  <1>1. hand = "none" /\ InHand = <<>>
    BY NoLine DEF IInv, HandIsSent, Read, InHand, IsLine
  <1>2. /\ typed' = typed /\ served' = served /\ Lines' = Lines /\ main' = main
        /\ stdin' = stdin /\ main # "ended by eof"
    BY DEF Read, Gone, Running, Lines
  <1>3. CASE ReadLine
    <2>1. /\ buffer # <<>> /\ buffer \in Seq(Kinds) /\ stdin \in Seq(Kinds)
          /\ hand' = Head(buffer) /\ buffer' = Tail(buffer)
          /\ Head(buffer) \in Kinds /\ Tail(buffer) \in Seq(Kinds)
      BY <1>3, HeadTailProperties DEF IInv, TypeOK, ReadLine
    <2>2. TypeOK'
      BY <1>3, <2>1 DEF Read, ReadLine, IInv, TypeOK
    <2>3. HandIsSent' /\ EndIsLast'
      BY <2>1, QueueAssumption DEF Read, IInv, HandIsSent, EndIsLast
    <2>4. InHand' = <<Head(buffer)>>
      BY <2>1 DEF InHand, IsLine
    <2> DEFINE one == <<Head(buffer)>>
    <2>5. one \in Seq(Kinds) /\ buffer = one \o Tail(buffer)
      BY <2>1, HeadThenTail
    <2> DEFINE others == Tail(buffer)
    <2> HIDE DEF one, others
    <2>6. others \in Seq(Kinds) /\ buffer = one \o others /\ buffer' = others
      BY <2>1, <2>5 DEF others
    <2>7. (one \o others) \o stdin = one \o (others \o stdin)
      BY <2>1, <2>5, <2>6, ConcatAssociative
    <2>8. Unread = one \o Unread' /\ Unread' \in Seq(Kinds)
      <3>1. Unread = one \o Unread'
        BY <1>2, <2>6, <2>7, Zenon DEF Unread
      <3>2. others \o stdin \in Seq(Kinds)
        BY <2>1, <2>6, ConcatProperties
      <3> QED BY <1>2, <2>6, <3>1, <3>2 DEF Unread
    <2>9. typed' = served' \o Lines' \o InHand' \o Unread'
      <3> DEFINE front == served \o Lines
                 left == Unread'
      <3>1. front \in Seq(Kinds) /\ front \o <<>> = front /\ left \in Seq(Kinds)
        BY <2>8, QueueTyped, ConcatEmptySeq DEF IInv
      <3>2. typed = (front \o <<>>) \o (one \o left)
        BY <1>1, <2>8, Zenon DEF IInv, LinesKept, Lines, InHand, Unread
      <3>3. InHand' = one
        BY <2>4 DEF one
      <3> HIDE DEF front, left
      <3>4. front \o (one \o left) = (front \o one) \o left
        BY <2>5, <3>1, ConcatAssociative
      <3>5. typed = (front \o one) \o left
        BY <3>1, <3>2, <3>4, Zenon
      <3> QED BY <1>2, <3>3, <3>5, Zenon DEF front, left
    <2> QED BY <1>2, <2>2, <2>3, <2>9 DEF IInv, LinesKept, Lines, InHand, Unread
  <1>4. CASE ReadEnd
    <2>1. TypeOK'
      BY <1>4 DEF Read, ReadEnd, IInv, TypeOK
    <2>2. HandIsSent' /\ EndIsLast'
      BY <1>4 DEF Read, ReadEnd, IInv, HandIsSent, EndIsLast
    <2>3. InHand' = InHand /\ Unread' = Unread
      BY <1>1, <1>2, <1>4, QueueAssumption DEF ReadEnd, InHand, IsLine, Unread
    <2> QED BY <1>2, <1>4, <2>1, <2>2, <2>3, LinesStay DEF IInv
  <1> QED BY <1>3, <1>4 DEF Read

\* A "!" command takes of the input what the reader has not buffered.
LEMMA ShellReadsKeeps ==
  ASSUME IInv, ShellReads
  PROVE  IInv'
  <1> USE DEF userVars, readerVars, signalVars, mainVars
  <1>1. /\ served' = served /\ events' = events /\ hand' = hand /\ buffer' = buffer
        /\ reader' = reader /\ closed' = closed /\ main' = main
        /\ main # "ended by eof"
    BY DEF ShellReads, Gone, Running
  <1>2. Lines' = Lines /\ InHand' = InHand
    BY <1>1 DEF Lines, InHand, IsLine
  <1>3. CASE stdin # <<>> /\ stdin' \in TakeWhole \cup TakePart
             /\ typed' = SubSeq(typed, 1, Len(typed) - Len(stdin)) \o stdin'
             /\ taken' = taken + (Len(stdin) - Len(stdin')) /\ rest' = rest
    <2>1. /\ stdin \in Seq(Kinds) /\ Tail(stdin) \in Seq(Kinds)
          /\ Len(Tail(stdin)) = Len(stdin) - 1 /\ Len(stdin) \in Nat
      BY <1>3, HeadTailProperties, LenProperties DEF IInv, TypeOK
    <2>2. stdin' \in Seq(Kinds) /\ Len(stdin) - Len(stdin') \in Nat
      <3>1. CASE stdin' \in TakeWhole
        BY <2>1, <3>1 DEF TakeWhole
      <3>2. CASE stdin' \in TakePart
        <4>1. PICK kind \in Kinds : stdin' = <<kind>> \o Tail(stdin)
          BY <3>2 DEF TakePart
        <4> DEFINE one == <<kind>>
        <4>2. one \in Seq(Kinds) /\ Len(one) = 1
          OBVIOUS
        <4> HIDE DEF one
        <4>3. one \o Tail(stdin) \in Seq(Kinds) /\ Len(one \o Tail(stdin)) = Len(stdin)
          BY <2>1, <4>2, ConcatProperties
        <4>4. stdin' = one \o Tail(stdin)
          BY <4>1 DEF one
        <4> QED BY <2>1, <4>3, <4>4
      <3> QED BY <1>3, <3>1, <3>2
    <2>3. served \in Seq(Kinds) /\ Lines \in Seq(Kinds) /\ InHand \in Seq(Kinds)
          /\ buffer \in Seq(Kinds) /\ typed \in Seq(Kinds)
          /\ served \o Lines \o InHand \in Seq(Kinds)
      BY QueueTyped DEF IInv
    <2> DEFINE front == served \o Lines \o InHand
               place == front \o buffer
    <2>4. typed = front \o (buffer \o stdin)
      BY DEF IInv, LinesKept, Lines, InHand
    <2>5. front \in Seq(Kinds)
      BY <2>3
    <2> HIDE DEF front
    <2>6. place \in Seq(Kinds) /\ place \o stdin = front \o (buffer \o stdin)
          /\ place \o stdin' = front \o (buffer \o stdin')
      <3> DEFINE left == stdin'
      <3>1. stdin \in Seq(Kinds) /\ left \in Seq(Kinds) /\ buffer \in Seq(Kinds)
        BY <2>1, <2>2, <2>3
      <3> HIDE DEF left
      <3>2. \A x, y, z \in Seq(Kinds) : (x \o y) \o z = x \o (y \o z)
        BY ConcatAssociative
      <3>3. front \o buffer \in Seq(Kinds)
        BY <2>5, <3>1, ConcatProperties
      <3> HIDE DEF place
      <3>4. /\ (front \o buffer) \o stdin = front \o (buffer \o stdin)
            /\ (front \o buffer) \o left = front \o (buffer \o left)
        BY <2>5, <3>1, <3>2, Zenon
      <3> QED BY <3>3, <3>4, Zenon DEF left, place
    <2> HIDE DEF place
    <2>7. typed = place \o stdin
      BY <2>4, <2>6, Zenon
    <2>8. SubSeq(typed, 1, Len(typed) - Len(stdin)) = place
      BY <2>1, <2>3, <2>6, <2>7, FrontOf
    <2>9. typed' = place \o stdin'
      BY <1>3, <2>8, Zenon
    <2>10. typed' \in Seq(Kinds)
      BY <2>2, <2>6, <2>9, ConcatProperties
    <2>11. typed' = front \o (buffer' \o stdin')
      BY <1>1, <2>6, <2>9, Zenon
    <2>12. typed' = served' \o Lines' \o InHand' \o (buffer' \o stdin')
      BY <1>1, <1>2, <2>11, Zenon DEF front
    <2>13. taken' \in Nat
      <3> DEFINE read == Len(stdin) - Len(stdin')
      <3>1. taken \in Nat /\ read \in Nat /\ taken' = taken + read
        BY <1>3, <2>2 DEF IInv, TypeOK
      <3> HIDE DEF read
      <3> QED BY <3>1
    <2>14. TypeOK'
      BY <1>3, <2>2, <2>10, <2>13 DEF ShellReads, IInv, TypeOK
    <2>15. HandIsSent' /\ EndIsLast'
      BY <1>1, <1>3 DEF IInv, HandIsSent, EndIsLast
    <2> QED BY <1>1, <2>12, <2>14, <2>15 DEF IInv, LinesKept, Lines, InHand
  <1>4. CASE rest' = "none" /\ UNCHANGED <<typed, stdin, taken>>
    <2>1. TypeOK'
      BY <1>4 DEF ShellReads, IInv, TypeOK
    <2>2. HandIsSent' /\ EndIsLast'
      BY <1>1, <1>4 DEF IInv, HandIsSent, EndIsLast
    <2>3. Unread' = Unread
      BY <1>1, <1>4 DEF Unread
    <2> QED BY <1>1, <1>2, <1>4, <2>1, <2>2, <2>3, LinesStay DEF IInv
  <1> QED BY <1>3, <1>4 DEF ShellReads

-----------------------------------------------------------------------------
\* The reader sends what it has in hand.
LEMMA SendKeeps ==
  ASSUME IInv, Send
  PROVE  IInv'
  <1> USE DEF userVars, inputVars, signalVars, mainVars
  <1>1. /\ hand \in Kinds \cup {"eof"} /\ hand \in Events /\ hand' = "none"
        /\ events \in Seq(Events) /\ events' = Append(events, hand)
        /\ Len(events) < Capacity
    BY QueueTyped DEF IInv, HandIsSent, Send, Events, Room
  <1>2. /\ events' \in Seq(Events) /\ Len(events') = Len(events) + 1
        /\ Len(events) \in Nat /\ events'[Len(events) + 1] = hand
        /\ \A i \in 1 .. Len(events) : events'[i] = events[i]
    BY <1>1, AppendProperties, LenProperties
  <1>3. DOMAIN events = 1 .. Len(events) /\ DOMAIN events' = 1 .. (Len(events) + 1)
    BY <1>1, <1>2, LenProperties
  <1>4. TypeOK'
    <2>1. Len(events') <= Capacity
      BY <1>1, <1>2, QueueAssumption
    <2>2. events' \in Seq(Kinds \cup {"ctrl-c", "eof"})
      BY <1>2 DEF Events
    <2> QED BY <1>1, <2>1, <2>2 DEF Send, IInv, TypeOK
  <1>5. InHand' = <<>>
    BY <1>1, NoLine DEF InHand, IsLine
  <1>6. Lines' = IF hand \in Kinds THEN Append(Lines, hand) ELSE Lines
    BY <1>1, LinesOfLonger, Zenon DEF Lines
  <1>7. /\ typed' = typed /\ served' = served /\ stdin' = stdin /\ main' = main
        /\ closed' = closed /\ buffer' = buffer /\ main # "ended by eof"
        /\ Unread' = Unread
    BY DEF Send, Gone, Running, Unread
  <1>8. \A i \in DOMAIN events : events[i] # "eof"
    BY DEF Send, IInv, EndIsLast
  <1>9. CASE hand = "eof"
    <2>1. reader' = "gone" /\ hand \notin Kinds /\ closed /\ buffer = <<>> /\ stdin = <<>>
      BY <1>9, QueueAssumption DEF Send, IInv, EndIsLast
    <2>2. HandIsSent' /\ EndIsLast'
      <3>1. \A i \in DOMAIN events' : events'[i] = "eof" => i = Len(events) + 1
        BY <1>2, <1>3, <1>8
      <3>2. \A j \in DOMAIN events' : ~(j > Len(events) + 1)
        BY <1>2, <1>3
      <3>3. closed' /\ buffer' = <<>> /\ stdin' = <<>>
        BY <1>7, <2>1
      <3>4. HandIsSent'
        BY <1>1, <2>1 DEF HandIsSent
      <3> QED BY <2>1, <3>1, <3>2, <3>3, <3>4 DEF EndIsLast
    <2>3. Lines' = Lines /\ InHand' = InHand
      BY <1>5, <1>6, <2>1 DEF InHand, IsLine
    <2> QED BY <1>4, <1>7, <2>2, <2>3, LinesStay DEF IInv
  <1>10. CASE hand # "eof"
    <2>1. reader' = "read" /\ hand \in Kinds
      BY <1>1, <1>10 DEF Send
    <2>2. HandIsSent' /\ EndIsLast'
      BY <1>1, <1>2, <1>3, <1>8, <1>10, <2>1 DEF HandIsSent, EndIsLast
    <2>3. InHand = <<hand>> /\ Lines' = Append(Lines, hand)
      BY <1>6, <2>1 DEF InHand, IsLine
    <2>4. served \o Lines \o <<hand>> \o Unread = served \o Append(Lines, hand) \o <<>> \o Unread
      <3>1. served \in Seq(Kinds) /\ Lines \in Seq(Kinds) /\ Unread \in Seq(Kinds)
        BY QueueTyped DEF IInv
      <3> QED BY <2>1, <3>1, SentLine
    <2>5. typed = served \o Lines \o InHand \o Unread
      BY DEF IInv, LinesKept, Lines, InHand, Unread
    <2>6. typed' = served' \o Lines' \o InHand' \o Unread'
      BY <1>5, <1>7, <2>3, <2>4, <2>5, Zenon
    <2> QED BY <1>4, <1>7, <2>2, <2>6 DEF IInv, LinesKept, Lines, InHand, Unread
  <1> QED BY <1>9, <1>10

\* The signal goroutine sends a Ctrl-C, which is no line, and may come behind
\* the end.
LEMMA ForwardSendKeeps ==
  ASSUME IInv, ForwardSend
  PROVE  IInv'
  <1> USE DEF userVars, inputVars, readerVars, mainVars
  <1>1. /\ "ctrl-c" \in Events /\ "ctrl-c" \notin Kinds
        /\ events \in Seq(Events) /\ events' = Append(events, "ctrl-c")
        /\ Len(events) < Capacity
    BY QueueTyped, NoLine DEF IInv, ForwardSend, Events, Room
  <1>2. /\ events' \in Seq(Events) /\ Len(events') = Len(events) + 1
        /\ Len(events) \in Nat /\ events'[Len(events) + 1] = "ctrl-c"
        /\ \A i \in 1 .. Len(events) : events'[i] = events[i]
    BY <1>1, AppendProperties, LenProperties
  <1>3. DOMAIN events = 1 .. Len(events) /\ DOMAIN events' = 1 .. (Len(events) + 1)
    BY <1>1, <1>2, LenProperties
  <1>4. /\ typed' = typed /\ served' = served /\ stdin' = stdin /\ main' = main
        /\ closed' = closed /\ hand' = hand /\ reader' = reader /\ buffer' = buffer
        /\ Unread' = Unread
    BY DEF ForwardSend, Unread
  <1>5. TypeOK'
    <2>1. Len(events') <= Capacity
      BY <1>1, <1>2, QueueAssumption
    <2>2. events' \in Seq(Kinds \cup {"ctrl-c", "eof"})
      BY <1>2 DEF Events
    <2> QED BY <2>1, <2>2 DEF ForwardSend, IInv, TypeOK
  <1>6. HandIsSent' /\ EndIsLast'
    <2>1. HandIsSent'
      BY <1>4 DEF IInv, HandIsSent
    <2>2. EndIsLast'
      BY <1>1, <1>2, <1>3, <1>4 DEF IInv, EndIsLast
    <2> QED BY <2>1, <2>2
  <1>7. Lines' = Lines
    BY <1>1, LinesOfLonger, Zenon DEF Lines
  <1>8. InHand' = InHand
    BY <1>4 DEF InHand, IsLine
  <1> QED BY <1>4, <1>5, <1>6, <1>7, <1>8, LinesStay DEF IInv

-----------------------------------------------------------------------------
\* What main leaves in the channel when it takes an event.
LEMMA TakeMoves ==
  ASSUME IInv, NEW kind \in Events, Take(kind)
  PROVE  /\ events' \in Seq(Events) /\ Len(events') <= Capacity
         /\ served' \in Seq(Kinds) /\ EndIsLast'
         /\ typed' = served' \o Lines' \o InHand' \o Unread'
         /\ kind = "eof" => served' = typed'
  <1> USE DEF userVars, inputVars, readerVars, signalVars
  <1>1. /\ events \in Seq(Events) /\ events # <<>> /\ events' = Tail(events)
        /\ Head(events) = kind /\ main = "select"
        /\ served' = IF kind \in Kinds THEN Append(served, kind) ELSE served
    BY QueueTyped DEF IInv, Take
  <1>2. /\ typed' = typed /\ stdin' = stdin /\ hand' = hand /\ closed' = closed
        /\ reader' = reader /\ buffer' = buffer /\ Unread' = Unread
    BY DEF Take, Unread
  <1>3. /\ events' \in Seq(Events) /\ Len(events') = Len(events) - 1
        /\ Len(events) \in Nat \ {0} /\ events[1] = kind
        /\ \A i \in 1 .. Len(events') : events'[i] = events[i + 1]
    BY <1>1, HeadTailProperties, LenProperties, EmptySeq
  <1>4. /\ DOMAIN events = 1 .. Len(events) /\ DOMAIN events' = 1 .. (Len(events) - 1)
    BY <1>1, <1>3, LenProperties
  <1>5. Len(events') <= Capacity
    <2>1. Len(events) <= Capacity
      BY DEF IInv, TypeOK
    <2>2. Capacity \in Nat
      BY QueueAssumption
    <2> QED BY <1>3, <2>1, <2>2
  <1>6. served' \in Seq(Kinds)
    BY <1>1, AppendProperties DEF IInv, TypeOK
  <1>7. EndIsLast'
    <2>1. hand' = "eof" \/ reader' = "gone" => closed' /\ buffer' = <<>> /\ stdin' = <<>>
      BY <1>2 DEF IInv, EndIsLast
    <2>2. ASSUME NEW i \in DOMAIN events', events'[i] = "eof"
          PROVE  /\ reader' = "gone"
                 /\ \A j \in DOMAIN events' : j > i => events'[j] \notin Kinds
      <3>1. i + 1 \in DOMAIN events /\ events[i + 1] = "eof"
        BY <1>3, <1>4, <2>2
      <3>2. /\ reader = "gone"
            /\ \A j \in DOMAIN events : j > i + 1 => events[j] \notin Kinds
        BY <3>1 DEF IInv, EndIsLast
      <3> QED BY <1>2, <1>3, <1>4, <3>2
    <2> QED BY <2>1, <2>2 DEF EndIsLast
  <1>8. Lines = (IF kind \in Kinds THEN <<kind>> ELSE <<>>) \o Lines'
    BY <1>1, LinesOfTail, Zenon DEF Lines
  <1>9. InHand' = InHand
    BY <1>2 DEF InHand, IsLine
  <1>10. Lines' \in Seq(Kinds)
    BY <1>3, LinesTyped DEF Lines
  <1>11. /\ served \in Seq(Kinds) /\ InHand \in Seq(Kinds) /\ Unread \in Seq(Kinds)
    BY QueueTyped DEF IInv
  <1>12. typed = served \o Lines \o InHand \o Unread
    BY DEF IInv, LinesKept, Lines, InHand, Unread
  <1>13. typed' = served' \o Lines' \o InHand' \o Unread'
    <2> DEFINE others == Lines'
    <2> HIDE DEF others
    <2>1. CASE kind \in Kinds
      <3>1. Lines = <<kind>> \o others /\ served' = Append(served, kind)
        BY <1>1, <1>8, <2>1, Zenon DEF others
      <3>2. others \in Seq(Kinds)
        BY <1>10 DEF others
      <3> DEFINE one == <<kind>>
      <3>3. one \in Seq(Kinds)
        BY <2>1
      <3>4. Append(served, kind) = served \o one
        BY <1>11, <2>1, AppendIsConcat
      <3>5. Lines = one \o others
        BY <3>1
      <3> HIDE DEF one
      <3>6. served \o (one \o others) = (served \o one) \o others
        BY <1>11, <3>2, <3>3, ConcatAssociative
      <3>7. served \o Lines = served' \o others
        BY <3>1, <3>4, <3>5, <3>6, Zenon
      <3> QED BY <1>2, <1>9, <1>12, <3>7, Zenon DEF others
    <2>2. CASE kind \notin Kinds
      <3>1. <<>> \o Lines' = Lines'
        BY <1>10, ConcatEmptySeq
      <3>2. Lines = Lines' /\ served' = served
        BY <1>1, <1>8, <2>2, <3>1, Zenon
      <3> QED BY <1>2, <1>9, <1>12, <3>2, Zenon
    <2> QED BY <2>1, <2>2
  <1>14. ASSUME kind = "eof"
         PROVE  served' = typed'
    <2>1. /\ reader = "gone" /\ buffer = <<>> /\ stdin = <<>> /\ "eof" \notin Kinds
          /\ \A j \in DOMAIN events : j > 1 => events[j] \notin Kinds
      BY <1>3, <1>4, <1>14, QueueAssumption DEF IInv, EndIsLast
    <2>2. InHand = <<>>
      BY <2>1, NoLine DEF IInv, HandIsSent, InHand, IsLine
    <2>3. \A i \in 1 .. Len(events') : events'[i] \notin Kinds
      BY <1>3, <1>4, <2>1
    <2>4. Lines' = <<>>
      BY <1>3, <2>3, SelectedNone DEF Lines
    <2>7. <<>> \o <<>> = <<>>
      OBVIOUS
    <2>8. Unread' = <<>>
      BY <1>2, <2>1, <2>7, Zenon DEF Unread
    <2>5. typed' = served' \o <<>> \o <<>> \o <<>>
      BY <1>2, <1>9, <1>13, <2>2, <2>4, <2>8, Zenon
    <2>6. served' \o <<>> = served'
      BY <1>6, ConcatEmptySeq
    <2> QED BY <2>5, <2>6, Zenon
  <1> QED BY <1>3, <1>5, <1>6, <1>7, <1>13, <1>14

LEMMA TakeEventKeeps ==
  ASSUME IInv, TakeEvent
  PROVE  IInv'
  <1> USE DEF userVars, inputVars, readerVars, signalVars
  <1>1. PICK kind \in Events : /\ Take(kind)
                               /\ main' = "ended by eof" => kind = "eof"
    <2>1. CASE TakeEnd
      BY <2>1 DEF TakeEnd, Events
    <2>2. CASE ~TakeEnd
      <3>1. PICK kind : Take(kind) /\ main' # "ended by eof"
        BY <2>2 DEF TakeEvent, TakeCtrlC, TakeInterrupt, TakeExit, TakeText, TakeShell,
                    HandleCtrlC, SteerOrRefuse, Take
      <3>2. kind \in Events
        BY <3>1, HeadTailProperties, QueueTyped DEF Take, IInv
      <3> QED BY <3>1, <3>2
    <2> QED BY <2>1, <2>2
  <1>2. /\ events' \in Seq(Events) /\ Len(events') <= Capacity
        /\ served' \in Seq(Kinds) /\ EndIsLast'
        /\ typed' = served' \o Lines' \o InHand' \o Unread'
        /\ kind = "eof" => served' = typed'
    BY <1>1, TakeMoves
  <1>3. /\ typed' = typed /\ stdin' = stdin /\ hand' = hand /\ closed' = closed
        /\ reader' = reader /\ sig' = sig /\ presses' = presses /\ forward' = forward
        /\ buffer' = buffer /\ taken' = taken /\ rest' = rest
        /\ pressed' = pressed /\ rapid' = rapid
    BY <1>1 DEF Take
  <1>4. /\ main' \in Running \cup {"ended by eof", "ended by double", "ended by exit"}
        /\ turn' \in {"none", "runs", "drains"}
    BY DEF TakeEvent, TakeEnd, TakeCtrlC, TakeInterrupt, TakeExit, TakeText, TakeShell,
           HandleCtrlC, SteerOrRefuse, IInv, TypeOK, Running
  <1>8. ran' \in BOOLEAN
    BY <1>1, Zenon DEF Take, IInv, TypeOK
  <1>5. {steered', recent'} \subseteq BOOLEAN
    BY DEF TakeEvent, TakeEnd, TakeCtrlC, TakeInterrupt, TakeExit, TakeText, TakeShell,
           HandleCtrlC, SteerOrRefuse, IInv, TypeOK
  <1>6. TypeOK'
    <2>1. events' \in Seq(Kinds \cup {"ctrl-c", "eof"})
      BY <1>2 DEF Events
    <2> QED BY <1>2, <1>3, <1>4, <1>5, <1>8, <2>1 DEF IInv, TypeOK
  <1>7. HandIsSent'
    BY <1>3 DEF IInv, HandIsSent
  <1> QED BY <1>1, <1>2, <1>6, <1>7 DEF IInv, LinesKept, Lines, InHand, Unread

-----------------------------------------------------------------------------
LEMMA NextKeeps ==
  ASSUME IInv, [Next]_vars
  PROVE  IInv'
  <1>1. CASE \E kind \in Kinds : TypeLine(kind)
    BY <1>1, TypeLineKeeps
  <1>2. CASE TypeEnd \/ PressCtrlC \/ Pause \/ ForwardTake \/ ShellEnds \/ TurnEnds
    BY <1>2, QuietSteps
  <1>3. CASE Fill \/ Read \/ Send \/ ShellReads
    BY <1>3, FillKeeps, ReadKeeps, SendKeeps, ShellReadsKeeps
  <1>4. CASE ForwardSend
    BY <1>4, ForwardSendKeeps
  <1>5. CASE TakeEvent
    BY <1>5, TakeEventKeeps
  <1>6. CASE UNCHANGED vars
    BY <1>6 DEF vars, userVars, inputVars, readerVars, signalVars, mainVars, IInv, TypeOK,
       HandIsSent, EndIsLast, LinesKept, IsLine
  <1> QED BY <1>1, <1>2, <1>3, <1>4, <1>5, <1>6 DEF Next

LEMMA InitHolds ==
  ASSUME Init
  PROVE  IInv
  <1>1. Selected(<<>>, Kinds) = <<>>
    BY SelectedEmpty
  <1>2. TypeOK
    <2>1. /\ <<>> \in Seq(Kinds) /\ <<>> \in Seq(Kinds \cup {"ctrl-c", "eof"})
          /\ Len(<<>>) = 0
      BY EmptySeq
    <2>2. /\ Len(<<>>) <= Capacity /\ 0 \in 0 .. SigCapacity /\ 0 \in 0 .. MaxPresses
      BY <2>1, QueueAssumption
    <2> QED BY <2>1, <2>2 DEF Init, TypeOK, Running
  <1>3. HandIsSent /\ EndIsLast
    BY DEF Init, HandIsSent, EndIsLast
  <1>4. <<>> = <<>> \o <<>> \o <<>> \o (<<>> \o <<>>)
    BY ConcatEmptySeq, EmptySeq
  <1>5. hand \notin Kinds
    BY NoLine DEF Init
  <1>6. LinesKept
    BY <1>1, <1>4, <1>5 DEF Init, LinesKept, IsLine
  <1> QED BY <1>2, <1>3, <1>6 DEF IInv

THEOREM InvariantHolds == Spec => []IInv
  <1>1. Init => IInv
    BY InitHolds
  <1>2. IInv /\ [Next]_vars => IInv'
    BY NextKeeps
  <1> QED BY <1>1, <1>2, PTL DEF Spec

\* readInput, the signal goroutine and main keep to the types of their state:
\* above all, no channel holds more than it can.
THEOREM TypeCorrect == Spec => []TypeOK
  <1>1. IInv => TypeOK
    BY DEF IInv
  <1> QED BY <1>1, InvariantHolds, PTL

\* No line that no "!" command reads is lost, repeated or overtaken between the
\* terminal and main,
\* whatever the channel holds and however long main is away in a "!" command;
\* and katty ends by the end of its input only when it has served every such line.
THEOREM LinesAreKept == Spec => []LinesKept
  <1>1. IInv => LinesKept
    BY DEF IInv
  <1> QED BY <1>1, InvariantHolds, PTL
=============================================================================
