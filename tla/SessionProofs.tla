---------------------------- MODULE SessionProofs ----------------------------
(***************************************************************************)
(* Proofs about Session, for any buffer, input and output: what            *)
(* session.send answers about its process is true, and a reader of the     *)
(* ring buffer is given every line it still holds.                         *)
(*                                                                         *)
(* The flag a send looks at is cleared by the monitor and by a stop, at    *)
(* times of their own; FlagIsBehind says what a cleared flag means.        *)
(* BufferInv says which line each slot of the ring holds; what the loop    *)
(* of Since gives of it is shown with the lemmas of SelectionProofs.       *)
(***************************************************************************)
EXTENDS Session, SelectionProofs

\* Before the start there is nothing, and nobody has sent.
NotStarted ==
  process = "none" => monitor = "none" /\ sent = "none"

\* The monitor is through only when the process is gone.
MonitorWaits ==
  /\ process \in {"none", "alive", "zombie", "gone"}
  /\ monitor = "done" => process = "gone"

\* The flag is cleared behind the end of the process, or behind a stop.
FlagIsBehind ==
  process # "none" /\ ~running => cancelled \/ process # "alive"

IInv == NotStarted /\ MonitorWaits /\ FlagIsBehind /\ SendAnswers

LEMMA InitIInv == Init => IInv
BY DEF Init, IInv, NotStarted, MonitorWaits, FlagIsBehind, SendAnswers

\* A step that leaves the process, the flag and the send alone.
LEMMA OtherStep ==
  ASSUME IInv, UNCHANGED <<process, running, cancelled, monitor, open, sent>>
  PROVE  IInv'
BY DEF IInv, NotStarted, MonitorWaits, FlagIsBehind, SendAnswers

\* A call of a tool.
LEMMA ToolStep ==
  ASSUME IInv, Start \/ Read \/ Stop \/ \E n \in 1 .. MaxInput : Send(n)
  PROVE  IInv'
<1> USE DEF IInv, NotStarted, MonitorWaits, FlagIsBehind, SendAnswers
<1>1. CASE Start
  BY <1>1 DEF Start, input
<1>2. CASE Read
  BY <1>2, OtherStep DEF Read, input
<1>3. CASE Stop
  BY <1>3 DEF Stop, callable, registered, input
<1>4. CASE \E n \in 1 .. MaxInput : Send(n)
  BY <1>4 DEF Send, callable, registered
<1> QED
  BY <1>1, <1>2, <1>3, <1>4

\* A step of the process.
LEMMA ProcessStep ==
  ASSUME IInv, (\E s \in Streams : Write(s)) \/ Exit \/ TakesInput \/ ClosesInput
  PROVE  IInv'
<1>1. CASE \E s \in Streams : Write(s)
  BY <1>1, OtherStep DEF Write, input
<1>2. CASE Exit
  BY <1>2 DEF Exit, input, IInv, NotStarted, MonitorWaits, FlagIsBehind, SendAnswers
<1>3. CASE TakesInput
  BY <1>3, OtherStep DEF TakesInput
<1>4. CASE ClosesInput
  BY <1>4 DEF ClosesInput, IInv, NotStarted, MonitorWaits, FlagIsBehind, SendAnswers
<1> QED
  BY <1>1, <1>2, <1>3, <1>4

\* A step of a goroutine, os/exec's among them.
LEMMA GoroutineStep == ASSUME IInv, Goroutines PROVE IInv'
<1> USE DEF IInv, NotStarted, MonitorWaits, FlagIsBehind, SendAnswers
<1>1. CASE \E s \in Streams : Pump(s) \/ PumpEnds(s)
  BY <1>1, OtherStep DEF Pump, PumpEnds, input
<1>2. CASE ContextKills
  BY <1>2 DEF ContextKills, input
<1>3. CASE WaitReturns
  BY <1>3 DEF WaitReturns, input
<1>4. CASE ClearRunning
  BY <1>4 DEF ClearRunning, input
<1>5. CASE SendWrites \/ SendFails
  BY <1>5 DEF SendWrites, SendFails
<1> QED
  BY <1>1, <1>2, <1>3, <1>4, <1>5 DEF Goroutines

LEMMA NextStep == IInv /\ [Next]_vars => IInv'
<1>1. IInv /\ UNCHANGED vars => IInv'
  BY OtherStep DEF vars, input
<1> QED
  BY <1>1, ToolStep, ProcessStep, GoroutineStep DEF Next

\* sessionSend, against sessionStop and the monitor: "stopped" is answered only of a
\* session that was stopped or has ended, "io_error" only of one that has ended or has
\* closed its stdin.
THEOREM SendAnswersTruly == Spec => []SendAnswers
<1>1. IInv => SendAnswers
  BY DEF IInv
<1> QED
  BY <1>1, InitIInv, NextStep, PTL DEF Spec

-----------------------------------------------------------------------------
(* The ring buffer: what the loop of Since computes.                       *)

NonBlank == Int \ {Blank}

\* The slots, oldest first: what the loop goes through.
Slots(rb) == [i \in 1 .. Cap |-> rb.data[(rb.pos + i - 1) % Cap]]

Buffers == [data : [0 .. Cap - 1 -> Int], pos : 0 .. Cap - 1]

LEMMA Wrapped ==
  ASSUME NEW p \in 0 .. Cap - 1, NEW i \in 1 .. Cap
  PROVE  /\ (p + i) % Cap \in 0 .. Cap - 1
         /\ (p + i) % Cap = p <=> i = Cap
         /\ (((p + 1) % Cap) + i - 1) % Cap = (p + i) % Cap
  <1> DEFINE wrap(x) == IF x < Cap THEN x ELSE x - Cap
  <1>1. \A x \in 0 .. 2 * Cap - 1 : x % Cap = wrap(x)
    BY CapAssumption
  <1>2. p + i \in 0 .. 2 * Cap - 1 /\ p + 1 \in 0 .. 2 * Cap - 1
        /\ wrap(p + 1) + i - 1 \in 0 .. 2 * Cap - 1
    BY CapAssumption
  <1>3. /\ (p + i) % Cap = wrap(p + i) /\ (p + 1) % Cap = wrap(p + 1)
        /\ (wrap(p + 1) + i - 1) % Cap = wrap(wrap(p + 1) + i - 1)
    <2> HIDE DEF wrap
    <2> QED BY <1>1, <1>2
  <1>4. wrap(wrap(p + 1) + i - 1) = wrap(p + i)
    BY CapAssumption
  <1>5. wrap(p + i) \in 0 .. Cap - 1 /\ (wrap(p + i) = p <=> i = Cap)
    BY CapAssumption
  <1>6. (((p + 1) % Cap) + i - 1) % Cap = (p + i) % Cap
    BY <1>3, <1>4
  <1>7. (p + i) % Cap \in 0 .. Cap - 1 /\ ((p + i) % Cap = p <=> i = Cap)
    <2> HIDE DEF wrap
    <2> QED BY <1>3, <1>5
  <1> QED BY <1>6, <1>7

LEMMA SlotsTyped ==
  ASSUME NEW rb \in Buffers
  PROVE  /\ Slots(rb) \in Seq(Int) /\ Len(Slots(rb)) = Cap
         /\ \A i \in 1 .. Cap : Slots(rb)[i] = rb.data[(rb.pos + i - 1) % Cap]
  <1>1. ASSUME NEW i \in 1 .. Cap
        PROVE  rb.data[(rb.pos + i - 1) % Cap] \in Int
    <2>1. i - 1 \in 0 .. Cap /\ rb.pos \in 0 .. Cap - 1
      BY CapAssumption DEF Buffers
    <2>2. (rb.pos + (i - 1)) % Cap \in 0 .. Cap - 1
      BY <2>1, CapAssumption
    <2> QED BY <2>1, <2>2 DEF Buffers
  <1>2. Slots(rb) \in [1 .. Cap -> Int]
    BY <1>1 DEF Slots
  <1>3. Slots(rb) \in Seq(Int) /\ Len(Slots(rb)) = Cap
    BY <1>2, CapAssumption, SeqDef
  <1> QED BY <1>3 DEF Slots

\* Appending a line drops the oldest slot.
LEMMA SlotsAppended ==
  ASSUME NEW rb \in Buffers, NEW line \in Int
  PROVE  /\ Appended(rb, line) \in Buffers
         /\ Slots(Appended(rb, line)) = Append(Tail(Slots(rb)), line)
  <1> DEFINE new == Appended(rb, line)
             s == Slots(rb)
             t == Append(Tail(s), line)
  <1>1. rb.pos \in 0 .. Cap - 1 /\ rb.data \in [0 .. Cap - 1 -> Int] /\ Cap \in Nat \ {0}
    BY CapAssumption DEF Buffers
  <1>2. new.pos = (rb.pos + 1) % Cap /\ new.pos \in 0 .. Cap - 1
    BY <1>1 DEF Appended
  <1>3. new.data \in [0 .. Cap - 1 -> Int]
    BY <1>1 DEF Appended
  <1>4. new \in Buffers
    BY <1>2, <1>3 DEF Appended, Buffers
  <1>5. /\ s \in Seq(Int) /\ Len(s) = Cap
        /\ \A i \in 1 .. Cap : s[i] = rb.data[(rb.pos + i - 1) % Cap]
    BY SlotsTyped
  <1>6. /\ Slots(new) \in Seq(Int) /\ Len(Slots(new)) = Cap
        /\ \A i \in 1 .. Cap : Slots(new)[i] = new.data[(new.pos + i - 1) % Cap]
    <2> HIDE DEF new
    <2> QED BY <1>4, SlotsTyped
  <1> HIDE DEF s
  <1>7. /\ Tail(s) \in Seq(Int) /\ Len(Tail(s)) = Cap - 1
        /\ \A i \in 1 .. Cap - 1 : Tail(s)[i] = s[i + 1]
    <2>1. s # <<>>
      BY <1>1, <1>5, EmptySeq
    <2> QED BY <1>1, <1>5, <2>1, HeadTailProperties
  <1>8. /\ t \in Seq(Int) /\ Len(t) = Cap /\ t[Cap] = line
        /\ \A i \in 1 .. Cap - 1 : t[i] = s[i + 1]
    <2> DEFINE r == Tail(s)
    <2>1. /\ r \in Seq(Int) /\ Len(r) = Cap - 1
          /\ \A i \in 1 .. Cap - 1 : r[i] = s[i + 1]
      BY <1>7
    <2> HIDE DEF r
    <2>2. /\ Append(r, line) \in Seq(Int) /\ Len(Append(r, line)) = Cap
          /\ Append(r, line)[Cap] = line
          /\ \A i \in 1 .. Cap - 1 : Append(r, line)[i] = r[i]
      BY <1>1, <2>1, AppendProperties
    <2> QED BY <2>1, <2>2 DEF r
  <1>9. ASSUME NEW i \in 1 .. Cap
        PROVE  Slots(new)[i] = t[i]
    <2>1. /\ (new.pos + i - 1) % Cap = (rb.pos + i) % Cap
          /\ (rb.pos + i) % Cap \in 0 .. Cap - 1
          /\ (rb.pos + i) % Cap = rb.pos <=> i = Cap
      <3> DEFINE p == rb.pos
      <3>1. p \in 0 .. Cap - 1 /\ new.pos = (p + 1) % Cap
        BY <1>1, <1>2
      <3> HIDE DEF p, new
      <3>2. /\ (p + i) % Cap \in 0 .. Cap - 1
            /\ (p + i) % Cap = p <=> i = Cap
            /\ (((p + 1) % Cap) + i - 1) % Cap = (p + i) % Cap
        BY <3>1, Wrapped
      <3>3. (new.pos + i - 1) % Cap = (p + i) % Cap
        BY <3>1, <3>2, Zenon
      <3> QED BY <3>2, <3>3 DEF p
    <2>2. Slots(new)[i] = new.data[(rb.pos + i) % Cap]
      BY <1>6, <2>1, Zenon
    <2>3. new.data = [rb.data EXCEPT ![rb.pos] = line]
      BY DEF Appended
    <2>4. CASE i = Cap
      <3>1. Slots(new)[i] = new.data[rb.pos]
        BY <2>1, <2>2, <2>4, Zenon
      <3>2. new.data[rb.pos] = line
        BY <1>1, <2>3
      <3> QED BY <1>8, <2>4, <3>1, <3>2, Zenon
    <2>5. CASE i # Cap
      <3> DEFINE k == (rb.pos + i) % Cap
      <3>1. k # rb.pos /\ k \in 0 .. Cap - 1
        BY <2>1, <2>5
      <3>2. i + 1 \in 1 .. Cap /\ i \in 1 .. Cap - 1 /\ rb.pos + (i + 1) - 1 = rb.pos + i
        BY <1>1, <2>5
      <3>3. s[i + 1] = rb.data[k] /\ t[i] = s[i + 1]
        BY <1>5, <1>8, <3>2, Zenon
      <3>4. Slots(new)[i] = new.data[k]
        BY <2>2
      <3> HIDE DEF k
      <3>5. new.data[k] = rb.data[k]
        BY <1>1, <2>3, <3>1
      <3> QED BY <3>3, <3>4, <3>5, Zenon
    <2> QED BY <2>4, <2>5
  <1> HIDE DEF new, t
  <1>10. Slots(new) = t
    BY <1>6, <1>8, <1>9, SeqEqual
  <1> QED BY <1>4, <1>10 DEF new, t, s

-----------------------------------------------------------------------------
\* The loop of Since, after i of its iterations, as the definition has it.
Iterated(rb, seq, max, loop, i) ==
  IF i = 0 THEN At(<<>>, 0, FALSE)
  ELSE SinceStep(rb, seq, max, i - 1, loop[i - 1])

LEMMA IteratedLater ==
  ASSUME NEW rb, NEW seq, NEW max, NEW loop, NEW i, i # 0
  PROVE  Iterated(rb, seq, max, loop, i) = SinceStep(rb, seq, max, i - 1, loop[i - 1])
  BY DEF Iterated

\* There is such a function.
LEMMA LoopExists ==
  ASSUME NEW rb, NEW seq, NEW max
  PROVE  \E loop : loop = [i \in 0 .. Cap |-> Iterated(rb, seq, max, loop, i)]
  <1> DEFINE Rec(p, i) == Iterated(rb, seq, max, p, i)
             T == {m \in Nat : \E loop : loop = [i \in 0 .. m |-> Rec(loop, i)]}
  <1>1. 0 \in T
    <2> DEFINE first == [i \in 0 .. 0 |-> At(<<>>, 0, FALSE)]
    <2>1. first = [i \in 0 .. 0 |-> Rec(first, i)]
      BY DEF Iterated
    <2> QED BY <2>1
  <1>2. ASSUME NEW m \in Nat, m \in T
        PROVE  m + 1 \in T
    <2>1. PICK p : p = [i \in 0 .. m |-> Rec(p, i)]
      BY <1>2
    <2> DEFINE q == [i \in 0 .. m + 1 |-> IF i <= m THEN p[i] ELSE Rec(p, i)]
    <2>2. ASSUME NEW i \in 0 .. m + 1
          PROVE  Rec(q, i) = q[i]
      <3>1. i # 0 => q[i - 1] = p[i - 1]
        OBVIOUS
      <3> HIDE DEF q
      <3>2. Rec(q, i) = Rec(p, i)
        BY <3>1, Zenon DEF Iterated
      <3>3. i <= m => p[i] = Rec(p, i)
        <4> HIDE DEF Rec
        <4> QED BY <2>1
      <3> HIDE DEF Rec
      <3> QED BY <3>2, <3>3 DEF q
    <2>3. q = [i \in 0 .. m + 1 |-> Rec(q, i)]
      <3> HIDE DEF Rec
      <3>1. q = [i \in 0 .. m + 1 |-> q[i]]
        OBVIOUS
      <3> HIDE DEF q
      <3> QED BY <2>2, <3>1
    <2> HIDE DEF q, Rec
    <2> QED BY <2>3
  <1> HIDE DEF T
  <1>3. Cap \in T
    BY <1>1, <1>2, NaturalsInductively, CapAssumption
  <1> QED BY <1>3 DEF T

\* Since is its last value.
LEMMA SinceIterates ==
  ASSUME NEW rb, NEW seq, NEW max
  PROVE  \E loop :
           /\ \A i \in 0 .. Cap : loop[i] = Iterated(rb, seq, max, loop, i)
           /\ Since(rb, seq, max) = [lines |-> loop[Cap].lines, seq |-> loop[Cap].currentSeq]
  <1> DEFINE L == CHOOSE loop : loop = [i \in 0 .. Cap |-> Iterated(rb, seq, max, loop, i)]
  <1>1. Since(rb, seq, max) = [lines |-> L[Cap].lines, seq |-> L[Cap].currentSeq]
    BY Zenon DEF Since, Iterated
  <1>5. L = CHOOSE loop : loop = [i \in 0 .. Cap |-> Iterated(rb, seq, max, loop, i)]
    OBVIOUS
  <1> HIDE DEF L
  <1>6. \E loop : loop = [i \in 0 .. Cap |-> Iterated(rb, seq, max, loop, i)]
    BY LoopExists, Zenon
  <1>3. L = [i \in 0 .. Cap |-> Iterated(rb, seq, max, L, i)]
    BY <1>5, <1>6, Zenon
  <1>4. \A i \in 0 .. Cap : L[i] = Iterated(rb, seq, max, L, i)
    BY <1>3, Zenon
  <1> QED BY <1>1, <1>4

\* The end of a sequence that gets longer, from its m-th element on.
LEMMA EndOfLonger ==
  ASSUME NEW S, NEW s \in Seq(S), NEW e \in S, NEW m \in 1 .. Len(s) + 1
  PROVE  SubSeq(Append(s, e), m, Len(s) + 1) = Append(SubSeq(s, m, Len(s)), e)
  <1> DEFINE long == Append(s, e)
             lhs == SubSeq(long, m, Len(s) + 1)
             short == SubSeq(s, m, Len(s))
             rhs == Append(short, e)
  <1>1. /\ long \in Seq(S) /\ Len(long) = Len(s) + 1 /\ long[Len(s) + 1] = e
        /\ \A i \in 1 .. Len(s) : long[i] = s[i]
        /\ Len(s) \in Nat /\ m \in Nat \ {0}
    BY AppendProperties, LenProperties
  <1> HIDE DEF long
  <1>2. /\ lhs \in Seq(S) /\ Len(lhs) = Len(s) + 2 - m
        /\ \A i \in 1 .. Len(s) + 2 - m : lhs[i] = long[m + i - 1]
    <2>1. \A i \in m .. Len(s) + 1 : long[i] \in S
      BY <1>1, ElementOfSeq
    <2> QED BY <1>1, <2>1, SubSeqProperties
  <1>3. /\ short \in Seq(S) /\ Len(short) = Len(s) + 1 - m
        /\ \A i \in 1 .. Len(s) + 1 - m : short[i] = s[m + i - 1]
    <2>1. \A i \in m .. Len(s) : s[i] \in S
      BY <1>1, ElementOfSeq
    <2> QED BY <1>1, <2>1, SubSeqProperties
  <1> HIDE DEF lhs, short
  <1>4. /\ rhs \in Seq(S) /\ Len(rhs) = Len(s) + 2 - m /\ rhs[Len(s) + 2 - m] = e
        /\ \A i \in 1 .. Len(s) + 1 - m : rhs[i] = short[i]
    BY <1>1, <1>3, AppendProperties
  <1> HIDE DEF rhs
  <1>5. ASSUME NEW i \in 1 .. Len(s) + 2 - m
        PROVE  lhs[i] = rhs[i]
    <2>1. CASE i = Len(s) + 2 - m
      BY <1>1, <1>2, <1>4, <2>1
    <2>2. CASE i \in 1 .. Len(s) + 1 - m
      <3>1. m + i - 1 \in 1 .. Len(s) /\ i \in 1 .. Len(s) + 2 - m
        BY <1>1, <2>2
      <3>2. lhs[i] = s[m + i - 1]
        BY <1>1, <1>2, <3>1
      <3>3. rhs[i] = s[m + i - 1]
        BY <1>3, <1>4, <2>2
      <3> QED BY <3>2, <3>3
    <2> QED BY <1>1, <2>1, <2>2
  <1>6. lhs = rhs
    BY <1>2, <1>4, <1>5, SeqEqual
  <1> QED BY <1>6 DEF lhs, rhs, long, short

\* The inside of a sequence does not change when it gets longer.
LEMMA InsideOfLonger ==
  ASSUME NEW S, NEW s \in Seq(S), NEW e \in S, NEW m \in Nat \ {0}, NEW n \in 0 .. Len(s)
  PROVE  SubSeq(Append(s, e), m, n) = SubSeq(s, m, n)
  <1> DEFINE long == Append(s, e)
  <1>1. /\ long \in Seq(S) /\ Len(long) = Len(s) + 1 /\ Len(s) \in Nat
        /\ \A i \in 1 .. Len(s) : long[i] = s[i]
    BY AppendProperties, LenProperties
  <1> HIDE DEF long
  <1> DEFINE lhs == SubSeq(long, m, n)
             rhs == SubSeq(s, m, n)
  <1>2. /\ lhs \in Seq(S) /\ Len(lhs) = IF m <= n THEN n - m + 1 ELSE 0
        /\ \A i \in 1 .. n - m + 1 : lhs[i] = long[m + i - 1]
    <2>1. \A i \in m .. n : long[i] \in S
      BY <1>1, ElementOfSeq
    <2> QED BY <1>1, <2>1, SubSeqProperties
  <1>3. /\ rhs \in Seq(S) /\ Len(rhs) = IF m <= n THEN n - m + 1 ELSE 0
        /\ \A i \in 1 .. n - m + 1 : rhs[i] = s[m + i - 1]
    <2>1. \A i \in m .. n : s[i] \in S
      BY <1>1, ElementOfSeq
    <2> QED BY <1>1, <2>1, SubSeqProperties
  <1> HIDE DEF lhs, rhs
  <1>4. \A i \in 1 .. Len(lhs) : lhs[i] = rhs[i]
    BY <1>1, <1>2, <1>3
  <1>5. lhs = rhs
    BY <1>2, <1>3, <1>4, SeqEqual
  <1> QED BY <1>5 DEF lhs, rhs, long

-----------------------------------------------------------------------------
LEMMA Stopped ==
  ASSUME NEW l, NEW c
  PROVE  At(l, c, TRUE).lines = l /\ At(l, c, TRUE).currentSeq = c /\ At(l, c, TRUE).stop
  BY DEF At

LEMMA Going ==
  ASSUME NEW l, NEW c
  PROVE  At(l, c, FALSE).lines = l /\ At(l, c, FALSE).currentSeq = c /\ ~At(l, c, FALSE).stop
  BY DEF At

\* What the loop should have when it has gone through the lines p.
Result(p, seq, max) ==
  IF Len(p) >= seq + max
  THEN At(SubSeq(p, seq + 1, seq + max), seq + max - 1, TRUE)
  ELSE At(SubSeq(p, seq + 1, Len(p)), Len(p), FALSE)

LEMMA ResultCut ==
  ASSUME NEW p, NEW seq, NEW max, Len(p) >= seq + max
  PROVE  Result(p, seq, max) = At(SubSeq(p, seq + 1, seq + max), seq + max - 1, TRUE)
  BY Zenon DEF Result

LEMMA ResultWhole ==
  ASSUME NEW p, NEW seq, NEW max, ~(Len(p) >= seq + max)
  PROVE  Result(p, seq, max) = At(SubSeq(p, seq + 1, Len(p)), Len(p), FALSE)
  BY Zenon DEF Result

\* What an iteration makes of st when the line is not blank.
Iteration(st, e, seq, max) ==
  IF st.stop THEN st
  ELSE IF st.currentSeq < seq THEN At(st.lines, st.currentSeq + 1, FALSE)
  ELSE IF Len(st.lines) + 1 >= max THEN At(Append(st.lines, e), st.currentSeq, TRUE)
  ELSE At(Append(st.lines, e), st.currentSeq + 1, FALSE)

\* A line more.
LEMMA ResultOfLonger ==
  ASSUME NEW S, NEW p \in Seq(S), NEW e \in S, NEW seq \in Nat, NEW max \in Nat \ {0}
  PROVE  Result(Append(p, e), seq, max) = Iteration(Result(p, seq, max), e, seq, max)
  <1> DEFINE long == Append(p, e)
             n == Len(p)
             st == Result(p, seq, max)
             before == SubSeq(p, seq + 1, n)
  <1>1. n \in Nat /\ Len(long) = n + 1
    BY AppendProperties, LenProperties
  <1> HIDE DEF n, long, st, before
  <1>2. CASE n >= seq + max
    <2>1. SubSeq(long, seq + 1, seq + max) = SubSeq(p, seq + 1, seq + max)
      <3>1. seq + 1 \in Nat \ {0} /\ seq + max \in 0 .. Len(p)
        BY <1>1, <1>2 DEF n
      <3> QED BY <3>1, InsideOfLonger DEF long
    <2>2. Len(long) >= seq + max
      BY <1>1, <1>2
    <2>3. Result(long, seq, max) = At(SubSeq(long, seq + 1, seq + max), seq + max - 1, TRUE)
      BY <2>2, ResultCut
    <2>4. st = At(SubSeq(p, seq + 1, seq + max), seq + max - 1, TRUE)
      BY <1>2, ResultCut DEF n, st
    <2>5. st.stop
      BY <2>4, Stopped, Zenon
    <2>6. Iteration(st, e, seq, max) = st
      BY <2>5, Zenon DEF Iteration
    <2> QED BY <2>1, <2>3, <2>4, <2>6, Zenon DEF long, st
  <1>3. CASE n < seq + max
    <2>1. st = At(before, n, FALSE)
      <3>1. ~(Len(p) >= seq + max)
        BY <1>1, <1>3 DEF n
      <3> QED BY <3>1, ResultWhole, Zenon DEF n, st, before
    <2>2. st.lines = before /\ st.currentSeq = n /\ ~st.stop
      BY <2>1, Going, Zenon
    <2>3. CASE n < seq
      <3>1. before = <<>> /\ SubSeq(long, seq + 1, n + 1) = <<>>
        <4>1. seq + 1 > n + 1 /\ seq + 1 > n /\ seq + 1 \in Int /\ n \in Int /\ n + 1 \in Int
          BY <1>1, <2>3
        <4> QED BY <4>1, SubSeqEmpty DEF before
      <3>2. ~(Len(long) >= seq + max)
        BY <1>1, <2>3
      <3>3. Result(long, seq, max) = At(<<>>, n + 1, FALSE)
        BY <1>1, <3>1, <3>2, ResultWhole, Zenon
      <3>4. Iteration(st, e, seq, max) = At(<<>>, n + 1, FALSE)
        BY <2>2, <2>3, <3>1, Zenon DEF Iteration
      <3> QED BY <3>3, <3>4, Zenon DEF long, st
    <2>4. CASE n >= seq
      <3>1. SubSeq(long, seq + 1, n + 1) = Append(before, e)
        <4>1. seq + 1 \in 1 .. Len(p) + 1
          BY <1>1, <2>4 DEF n
        <4> QED BY <4>1, EndOfLonger DEF n, long, before
      <3>2. Len(before) = n - seq
        <4>1. \A i \in seq + 1 .. n : p[i] \in S
          BY <1>1, ElementOfSeq DEF n
        <4>2. Len(before) = IF seq + 1 <= n THEN n - (seq + 1) + 1 ELSE 0
          BY <1>1, <4>1, SubSeqProperties DEF before
        <4> QED BY <1>1, <2>4, <4>2
      <3>3. ~(n < seq) /\ (Len(before) + 1 >= max <=> n + 1 >= seq + max)
        BY <1>1, <2>4, <3>2
      <3>4. CASE n + 1 >= seq + max
        <4>1. n + 1 = seq + max /\ seq + max - 1 = n /\ Len(long) >= seq + max
          BY <1>1, <1>3, <3>4
        <4>2. Result(long, seq, max) = At(Append(before, e), n, TRUE)
          BY <3>1, <4>1, ResultCut, Zenon
        <4>3. Iteration(st, e, seq, max) = At(Append(before, e), n, TRUE)
          BY <2>2, <3>3, <3>4, Zenon DEF Iteration
        <4> QED BY <4>2, <4>3, Zenon DEF long, st
      <3>5. CASE ~(n + 1 >= seq + max)
        <4>1. ~(Len(long) >= seq + max)
          BY <1>1, <3>5
        <4>2. Result(long, seq, max) = At(Append(before, e), n + 1, FALSE)
          BY <1>1, <3>1, <4>1, ResultWhole, Zenon
        <4>3. Iteration(st, e, seq, max) = At(Append(before, e), n + 1, FALSE)
          BY <2>2, <3>3, <3>5, Zenon DEF Iteration
        <4> QED BY <4>2, <4>3, Zenon DEF long, st
      <3> QED BY <3>4, <3>5
    <2> QED BY <1>1, <2>3, <2>4
  <1> QED BY <1>1, <1>2, <1>3

\* The loop has that after each of its iterations.
LEMMA LoopHasResult ==
  ASSUME NEW rb \in Buffers, NEW seq \in Nat, NEW max \in Nat \ {0}, NEW loop,
         \A i \in 0 .. Cap : loop[i] = Iterated(rb, seq, max, loop, i)
  PROVE  \A i \in 0 .. Cap : loop[i] = Result(Parts(Slots(rb), NonBlank)[i], seq, max)
  <1> DEFINE s == Slots(rb)
             p == Parts(s, NonBlank)
             T == {i \in Nat : i <= Cap => loop[i] = Result(p[i], seq, max)}
  <1>1. /\ s \in Seq(Int) /\ Len(s) = Cap
        /\ \A i \in 1 .. Cap : s[i] = rb.data[(rb.pos + i - 1) % Cap]
        /\ Cap \in Nat /\ rb.pos \in Nat
    BY SlotsTyped, CapAssumption DEF Buffers
  <1> HIDE DEF s
  <1>2. /\ p[0] = <<>>
        /\ \A i \in 1 .. Cap :
             p[i] = IF s[i] \in NonBlank THEN Append(p[i - 1], s[i]) ELSE p[i - 1]
    <2> HIDE DEF p
    <2>1. s \in Seq(Int)
      BY <1>1
    <2>2. /\ Parts(s, NonBlank)[0] = <<>>
          /\ \A i \in 1 .. Len(s) : Parts(s, NonBlank)[i] =
               IF s[i] \in NonBlank THEN Append(Parts(s, NonBlank)[i - 1], s[i])
               ELSE Parts(s, NonBlank)[i - 1]
      <3> HIDE DEF NonBlank
      <3> QED BY <2>1, PartsRecursion
    <2> QED BY <1>1, <2>2, Zenon DEF p
  <1>3. \A i \in 0 .. Cap : p[i] \in Seq(Int)
    <2>1. \A i \in 0 .. Cap : p[i] \in Seq(Int \cap NonBlank)
      BY <1>1, PartsTyped
    <2> QED BY <2>1, SeqMonotonic
  <1> HIDE DEF p
  <1>4. 0 \in T
    <2>1. loop[0] = At(<<>>, 0, FALSE)
      <3>1. 0 \in 0 .. Cap
        BY <1>1
      <3>2. loop[0] = Iterated(rb, seq, max, loop, 0)
        BY <3>1
      <3> QED BY <3>2, Zenon DEF Iterated
    <2>2. SubSeq(<<>>, seq + 1, 0) = <<>> /\ Len(<<>>) = 0 /\ ~(Len(<<>>) >= seq + max)
      BY SubSeqEmpty
    <2>3. Result(<<>>, seq, max) = At(<<>>, 0, FALSE)
      BY <2>2, ResultWhole, Zenon
    <2> QED BY <1>2, <2>1, <2>3, Zenon
  <1>5. ASSUME NEW i \in Nat, i \in T
        PROVE  i + 1 \in T
    <2> SUFFICES ASSUME i + 1 <= Cap
                 PROVE  loop[i + 1] = Result(p[i + 1], seq, max)
      OBVIOUS
    <2> DEFINE st == loop[i]
               line == s[i + 1]
    <2>1. i + 1 \in 1 .. Cap /\ i \in 0 .. Cap /\ i + 1 # 0 /\ i + 1 - 1 = i
      BY <1>1
    <2>2. st = Result(p[i], seq, max) /\ p[i] \in Seq(Int)
      BY <1>1, <1>3, <1>5
    <2>3. loop[i + 1] = SinceStep(rb, seq, max, i, st)
      <3>1. loop[i + 1] = SinceStep(rb, seq, max, i + 1 - 1, loop[i + 1 - 1])
        <4>1. i + 1 \in 0 .. Cap
          BY <1>1, <2>1
        <4>2. loop[i + 1] = Iterated(rb, seq, max, loop, i + 1)
          BY <4>1
        <4> HIDE DEF st
        <4>3. i + 1 # 0
          BY <2>1
        <4>4. Iterated(rb, seq, max, loop, i + 1) =
                SinceStep(rb, seq, max, i + 1 - 1, loop[i + 1 - 1])
          <5> DEFINE k == i + 1
          <5>1. k # 0
            BY <4>3
          <5> HIDE DEF k
          <5>2. Iterated(rb, seq, max, loop, k) = SinceStep(rb, seq, max, k - 1, loop[k - 1])
            BY <5>1, IteratedLater
          <5> QED BY <5>2 DEF k
        <4> QED BY <4>2, <4>4, Zenon
      <3> QED BY <2>1, <3>1
    <2>4. line \in Int /\ line = rb.data[(rb.pos + i) % Cap]
      <3>1. rb.pos + (i + 1) - 1 = rb.pos + i
        BY <1>1
      <3>2. line = rb.data[(rb.pos + (i + 1) - 1) % Cap]
        BY <1>1, <2>1, Zenon
      <3>3. line \in Int
        BY <1>1, <2>1, ElementOfSeq
      <3> QED BY <3>1, <3>2, <3>3, Zenon
    <2>5. p[i + 1] = IF line \in NonBlank THEN Append(p[i], line) ELSE p[i]
      BY <1>2, <2>1
    <2> HIDE DEF st, line
    <2>6. loop[i + 1] = IF line = Blank THEN st ELSE Iteration(st, line, seq, max)
      <3>1. rb.data[(rb.pos + i) % Cap] = line
        BY <2>4
      <3> QED BY <2>3, <3>1, Zenon DEF SinceStep, Iteration
    <2>7. CASE line = Blank
      <3>1. p[i + 1] = p[i]
        BY <2>5, <2>7 DEF NonBlank
      <3> QED BY <2>2, <2>6, <2>7, <3>1, Zenon
    <2>8. CASE line # Blank
      <3>1. p[i + 1] = Append(p[i], line)
        BY <2>4, <2>5, <2>8 DEF NonBlank
      <3>2. Result(Append(p[i], line), seq, max) = Iteration(st, line, seq, max)
        BY <2>2, <2>4, ResultOfLonger
      <3> QED BY <2>6, <2>8, <3>1, <3>2, Zenon
    <2> QED BY <2>7, <2>8
  <1> HIDE DEF T
  <1>6. Nat \subseteq T
    BY <1>4, <1>5, NaturalsInductively
  <1>7. \A i \in 0 .. Cap : loop[i] = Result(p[i], seq, max)
    BY <1>1, <1>6 DEF T
  <1> QED BY <1>7 DEF p, s

\* So Since returns the stored lines behind seq, cut at max.
LEMMA SinceReturns ==
  ASSUME NEW rb \in Buffers, NEW seq \in Nat, NEW max \in Nat \ {0}
  PROVE  /\ Stored(rb) \in Seq(NonBlank)
         /\ Since(rb, seq, max) =
              IF Len(Stored(rb)) >= seq + max
              THEN [lines |-> SubSeq(Stored(rb), seq + 1, seq + max), seq |-> seq + max - 1]
              ELSE [lines |-> SubSeq(Stored(rb), seq + 1, Len(Stored(rb))),
                    seq |-> Len(Stored(rb))]
  <1>1. PICK loop :
          /\ \A i \in 0 .. Cap : loop[i] = Iterated(rb, seq, max, loop, i)
          /\ Since(rb, seq, max) = [lines |-> loop[Cap].lines, seq |-> loop[Cap].currentSeq]
    BY SinceIterates
  <1>2. Slots(rb) \in Seq(Int) /\ Len(Slots(rb)) = Cap
    BY SlotsTyped
  <1>3. Stored(rb) = Parts(Slots(rb), NonBlank)[Cap]
    BY <1>2 DEF Stored, Selected, Slots, NonBlank
  <1>4. Stored(rb) \in Seq(NonBlank)
    <2>1. Stored(rb) = Selected(Slots(rb), NonBlank)
      BY DEF Stored, Slots, NonBlank
    <2>2. Stored(rb) \in Seq(Int \cap NonBlank) /\ Int \cap NonBlank = NonBlank
      BY <1>2, <2>1, SelectedType DEF NonBlank
    <2> QED BY <2>2
  <1>5. loop[Cap] = Result(Stored(rb), seq, max)
    BY <1>1, <1>3, LoopHasResult, CapAssumption
  <1> DEFINE last == loop[Cap]
  <1> HIDE DEF last
  <1>6. CASE Len(Stored(rb)) >= seq + max
    <2>1. last = At(SubSeq(Stored(rb), seq + 1, seq + max), seq + max - 1, TRUE)
      BY <1>5, <1>6, ResultCut, Zenon DEF last
    <2>2. last.lines = SubSeq(Stored(rb), seq + 1, seq + max)
          /\ last.currentSeq = seq + max - 1
      BY <2>1, Stopped, Zenon
    <2> QED BY <1>1, <1>4, <1>6, <2>2, Zenon DEF last
  <1>7. CASE ~(Len(Stored(rb)) >= seq + max)
    <2>1. last = At(SubSeq(Stored(rb), seq + 1, Len(Stored(rb))), Len(Stored(rb)), FALSE)
      BY <1>5, <1>7, ResultWhole, Zenon DEF last
    <2>2. last.lines = SubSeq(Stored(rb), seq + 1, Len(Stored(rb)))
          /\ last.currentSeq = Len(Stored(rb))
      BY <2>1, Going, Zenon
    <2> QED BY <1>1, <1>4, <1>7, <2>2, Zenon DEF last
  <1> QED BY <1>6, <1>7

\* What a read from the cursor c takes from the stored lines.
LEMMA ReadTakes ==
  ASSUME NEW rb \in Buffers, NEW c \in Nat, NEW max \in Nat \ {0},
         NEW st, st = Stored(rb), NEW answer, answer = Since(rb, c, max)
  PROVE  /\ answer.seq \in Nat
         /\ \A j \in DOMAIN answer.lines : \E i \in 1 .. Len(st) : answer.lines[j] = st[i]
         /\ c <= Len(st) =>
              /\ answer.seq <= Len(st)
              /\ \A i \in 1 .. answer.seq :
                   i <= c \/ \E j \in DOMAIN answer.lines : answer.lines[j] = st[i]
  <1> DEFINE cut == Len(st) >= c + max
             n == IF cut THEN c + max ELSE Len(st)
             part == SubSeq(st, c + 1, n)
  <1>1. st \in Seq(NonBlank) /\ Len(st) \in Nat
    BY SinceReturns, LenProperties
  <1>2. answer.lines = part /\ answer.seq = IF cut THEN c + max - 1 ELSE Len(st)
    <2>1. answer = IF cut THEN [lines |-> SubSeq(st, c + 1, c + max), seq |-> c + max - 1]
                   ELSE [lines |-> SubSeq(st, c + 1, Len(st)), seq |-> Len(st)]
      BY SinceReturns
    <2> QED BY <2>1
  <1>3. n \in 0 .. Len(st) /\ (c <= Len(st) => c <= n)
    BY <1>1
  <1>4. /\ DOMAIN part = 1 .. Len(part) /\ Len(part) = IF c + 1 <= n THEN n - c ELSE 0
        /\ \A j \in 1 .. n - c : part[j] = st[c + j]
    <2>1. \A i \in c + 1 .. n : st[i] \in NonBlank
      BY <1>1, <1>3, ElementOfSeq
    <2>2. /\ part \in Seq(NonBlank) /\ Len(part) = IF c + 1 <= n THEN n - (c + 1) + 1 ELSE 0
          /\ \A j \in 1 .. n - (c + 1) + 1 : part[j] = st[(c + 1) + j - 1]
      <3> HIDE DEF n
      <3> QED BY <1>3, <2>1, SubSeqProperties
    <2> HIDE DEF part, n
    <2>3. DOMAIN part = 1 .. Len(part)
      BY <2>2, LenProperties
    <2> QED BY <1>3, <2>2, <2>3
  <1>5. answer.seq \in 0 .. n
    BY <1>1, <1>2
  <1> HIDE DEF part, n, cut
  <1>6. ASSUME NEW j \in DOMAIN answer.lines
        PROVE  \E i \in 1 .. Len(st) : answer.lines[j] = st[i]
    <2>1. j \in 1 .. n - c /\ c + j \in 1 .. Len(st)
      BY <1>1, <1>2, <1>3, <1>4
    <2> QED BY <1>2, <1>4, <2>1
  <1>7. ASSUME c <= Len(st), NEW i \in 1 .. answer.seq, ~(i <= c)
        PROVE  \E j \in DOMAIN answer.lines : answer.lines[j] = st[i]
    <2>1. i - c \in 1 .. n - c /\ c + (i - c) = i /\ Len(part) = n - c
      BY <1>3, <1>4, <1>5, <1>7
    <2>2. i - c \in DOMAIN part /\ part[i - c] = st[i]
      BY <1>4, <2>1
    <2> QED BY <1>2, <2>2
  <1> QED BY <1>1, <1>3, <1>5, <1>6, <1>7

\* A line that goes where a slot is free loses nothing.
LEMMA StoredAppended ==
  ASSUME NEW rb \in Buffers, NEW line \in Int, Slots(rb)[1] = Blank
  PROVE  Stored(Appended(rb, line)) =
           IF line = Blank THEN Stored(rb) ELSE Append(Stored(rb), line)
  <1> DEFINE s == Slots(rb)
             r == Tail(s)
  <1>1. s \in Seq(Int) /\ Len(s) = Cap /\ s # <<>>
    <2>1. s \in Seq(Int) /\ Len(s) = Cap
      BY SlotsTyped
    <2> QED BY <2>1, CapAssumption, EmptySeq
  <1> HIDE DEF s
  <1>2. r \in Seq(Int) /\ s = <<Blank>> \o r
    <2>1. Head(s) = Blank
      BY <1>1 DEF s
    <2>2. r \in Seq(Int) /\ s = <<Head(s)>> \o r
      BY <1>1, HeadThenTail
    <2> QED BY <2>1, <2>2, Zenon
  <1> HIDE DEF r
  <1>3. Selected(s, NonBlank) = Selected(r, NonBlank)
    <2> DEFINE one == <<Blank>>
    <2>1. one \in Seq(Int) /\ Blank \in Int /\ Blank \notin NonBlank
      BY DEF Blank, NonBlank
    <2>2. Selected(one, NonBlank) = <<>>
      BY <2>1, SelectedOne
    <2> HIDE DEF one
    <2>3. Selected(one \o r, NonBlank) = Selected(one, NonBlank) \o Selected(r, NonBlank)
      BY <1>2, <2>1, SelectedConcat
    <2>4. Selected(r, NonBlank) \in Seq(Int \cap NonBlank)
      BY <1>2, SelectedType
    <2>5. <<>> \o Selected(r, NonBlank) = Selected(r, NonBlank)
      BY <2>4, ConcatEmptySeq
    <2> QED BY <1>2, <2>2, <2>3, <2>5, Zenon DEF one
  <1>4. Selected(Append(r, line), NonBlank) =
          IF line \in NonBlank THEN Append(Selected(r, NonBlank), line)
          ELSE Selected(r, NonBlank)
    BY <1>2, SelectedAppend
  <1>5. Stored(rb) = Selected(s, NonBlank)
    BY DEF Stored, Slots, NonBlank, s
  <1>6. Stored(Appended(rb, line)) = Selected(Append(r, line), NonBlank)
    <2>1. Stored(Appended(rb, line)) = Selected(Slots(Appended(rb, line)), NonBlank)
      BY DEF Stored, Slots, NonBlank
    <2> QED BY <2>1, SlotsAppended, Zenon DEF r, s
  <1>7. line \in NonBlank <=> line # Blank
    BY DEF NonBlank
  <1> QED BY <1>3, <1>4, <1>5, <1>6, <1>7, Zenon

\* What is stored was written.
LEMMA StoredWritten ==
  ASSUME NEW rb \in [data : [0 .. Cap - 1 -> 0 .. MaxLines], pos : 0 .. Cap - 1]
  PROVE  rb \in Buffers /\ \A i \in 1 .. Len(Stored(rb)) : Stored(rb)[i] \in 1 .. MaxLines
  <1> DEFINE s == Slots(rb)
             Lines == 0 .. MaxLines
  <1>1. rb \in Buffers
    BY CapAssumption, SessionAssumption DEF Buffers
  <1>2. Len(s) = Cap /\ \A i \in 1 .. Cap : s[i] \in Lines
    <2>1. ASSUME NEW i \in 1 .. Cap
          PROVE  s[i] \in Lines
      <3>1. i - 1 \in 0 .. Cap /\ rb.pos \in 0 .. Cap - 1
        BY CapAssumption
      <3>2. (rb.pos + i - 1) % Cap \in 0 .. Cap - 1
        BY <3>1, CapAssumption
      <3>3. s[i] = rb.data[(rb.pos + i - 1) % Cap]
        BY DEF Slots
      <3> QED BY <3>2, <3>3
    <2> QED BY <1>1, <2>1, SlotsTyped
  <1>3. s \in Seq(Lines)
    <2>1. s \in [1 .. Cap -> Lines]
      BY <1>2 DEF Slots
    <2> QED BY <2>1, CapAssumption, SeqDef
  <1> HIDE DEF s
  <1>4. Stored(rb) = Selected(s, NonBlank)
    BY DEF Stored, Slots, NonBlank, s
  <1>5. Stored(rb) \in Seq(Lines \cap NonBlank)
    <2> HIDE DEF Lines
    <2>1. Selected(s, NonBlank) \in Seq(Lines \cap NonBlank)
      BY <1>3, SelectedType
    <2> QED BY <1>4, <2>1, Zenon
  <1>6. \A i \in 1 .. Len(Stored(rb)) : Stored(rb)[i] \in Lines \cap NonBlank
    BY <1>5, ElementOfSeq
  <1>7. Lines \cap NonBlank \subseteq 1 .. MaxLines
    BY SessionAssumption DEF NonBlank, Blank
  <1> QED BY <1>1, <1>6, <1>7

-----------------------------------------------------------------------------
(* The buffer behind the pipes.  A line that was written is in a pipe, in  *)
(* the buffer or lost with the pipe, so that the slots still free are at   *)
(* least those no written line has taken yet.                              *)

Pending == Len(pipe["stdout"]) + Len(pipe["stderr"])

FreeSlots ==
  written <= Cap =>
    /\ Pending <= written
    /\ \A i \in 1 .. Cap - written + Pending : Slots(buffer)[i] = Blank

\* A send that is at it has writes to make.
SendHasLeft == sent = "writing" => left > 0

BufferInv == TypeOK /\ SendHasLeft /\ FreeSlots /\ NothingSkipped

LEMMA PendingTyped == TypeOK => Pending \in Nat
BY LenProperties DEF TypeOK, Pending, Streams

\* One stream makes the difference.
LEMMA PendingOf ==
  ASSUME NEW S, NEW s \in Streams, pipe \in [Streams -> Seq(S)],
         \A t \in Streams : t # s => pipe'[t] = pipe[t]
  PROVE  /\ Len(pipe[s]) \in Nat /\ Pending \in Nat /\ Pending >= Len(pipe[s])
         /\ \A n \in Int : Len(pipe'[s]) = Len(pipe[s]) + n => Pending' = Pending + n
  <1> DEFINE out == Len(pipe["stdout"])
             err == Len(pipe["stderr"])
  <1>1. out \in Nat /\ err \in Nat
    BY LenProperties DEF Streams
  <1>2. Pending = out + err
    BY DEF Pending
  <1>3. CASE s = "stdout"
    <2>1. pipe'["stderr"] = pipe["stderr"]
      BY <1>3 DEF Streams
    <2>2. Pending' = Len(pipe'["stdout"]) + err
      BY <2>1, Zenon DEF Pending
    <2> DEFINE then == Len(pipe'["stdout"])
    <2>3. Len(pipe[s]) = out /\ Len(pipe'[s]) = then
      BY <1>3, Zenon
    <2>4. Pending' = then + err
      BY <2>2
    <2> HIDE DEF out, err, then
    <2> QED BY <1>1, <1>2, <2>3, <2>4
  <1>4. CASE s = "stderr"
    <2>1. pipe'["stdout"] = pipe["stdout"]
      BY <1>4 DEF Streams
    <2>2. Pending' = out + Len(pipe'["stderr"])
      BY <2>1, Zenon DEF Pending
    <2> DEFINE then == Len(pipe'["stderr"])
    <2>3. Len(pipe[s]) = err /\ Len(pipe'[s]) = then
      BY <1>4, Zenon
    <2>4. Pending' = out + then
      BY <2>2
    <2> HIDE DEF out, err, then
    <2> QED BY <1>1, <1>2, <2>3, <2>4
  <1> QED BY <1>3, <1>4 DEF Streams

LEMMA InitBuffer == Init => BufferInv
  <1> SUFFICES ASSUME Init PROVE BufferInv
    OBVIOUS
  <1>1. <<>> \in Seq(0 .. Long) /\ Len(<<>>) = 0
    OBVIOUS
  <1>2. TypeOK
    <2>1. open \in BOOLEAN /\ running \in BOOLEAN /\ cancelled \in BOOLEAN
      BY Zenon DEF Init
    <2> QED
      BY <1>1, <2>1, CapAssumption, SessionAssumption
      DEF Init, TypeOK, newRingBuffer, Blank, Long
  <1>3. SendHasLeft
    BY DEF Init, SendHasLeft
  <1>4. Pending = 0 /\ written = 0
    BY <1>1 DEF Init, Pending, Streams
  <1>5. ASSUME NEW i \in 1 .. Cap
        PROVE  Slots(buffer)[i] = Blank
    <2>1. i - 1 \in 0 .. Cap - 1 /\ buffer.pos = 0 /\ 0 + i - 1 = i - 1
      BY CapAssumption DEF Init, newRingBuffer
    <2>2. (i - 1) % Cap = i - 1
      BY <2>1, CapAssumption
    <2>3. Slots(buffer)[i] = buffer.data[(buffer.pos + i - 1) % Cap]
      BY DEF Slots
    <2>4. Slots(buffer)[i] = buffer.data[i - 1]
      BY <2>1, <2>2, <2>3
    <2> QED BY <2>1, <2>4 DEF Init, newRingBuffer
  <1>6. FreeSlots
    BY <1>4, <1>5, CapAssumption DEF FreeSlots
  <1>7. NothingSkipped
    <2>1. cursor = 0 /\ Len(Stored(buffer)) \in Nat
      <3>1. buffer \in Buffers
        BY <1>2, StoredWritten DEF TypeOK
      <3>2. Stored(buffer) \in Seq(NonBlank)
        <4>1. 0 \in Nat /\ 1 \in Nat \ {0}
          OBVIOUS
        <4> QED BY <3>1, <4>1, SinceReturns
      <3> QED BY <3>2, LenProperties DEF Init
    <2> QED BY <2>1 DEF NothingSkipped
  <1> QED BY <1>2, <1>3, <1>6, <1>7 DEF BufferInv

\* A read: the cursor follows the lines returned.
LEMMA ReadKeeps == ASSUME BufferInv, Read PROVE BufferInv'
  <1> DEFINE st == Stored(buffer)
             answer == Since(buffer, cursor, MaxBytes)
  <1>1. /\ UNCHANGED <<process, running, cancelled, monitor, output, input>>
        /\ seen' = seen \cup {answer.lines[i] : i \in DOMAIN answer.lines}
        /\ cursor' = answer.seq
    BY DEF Read
  <1>2. /\ buffer \in Buffers /\ \A i \in 1 .. Len(st) : st[i] \in 1 .. MaxLines
        /\ cursor \in Nat /\ MaxBytes \in Nat \ {0}
    BY StoredWritten, SessionAssumption DEF BufferInv, TypeOK
  <1>3. /\ answer.seq \in Nat
        /\ \A j \in DOMAIN answer.lines : \E i \in 1 .. Len(st) : answer.lines[j] = st[i]
        /\ cursor <= Len(st) =>
              /\ answer.seq <= Len(st)
              /\ \A i \in 1 .. answer.seq :
                   i <= cursor \/ \E j \in DOMAIN answer.lines : answer.lines[j] = st[i]
    BY <1>2, ReadTakes
  <1> HIDE DEF answer, st
  <1>4. TypeOK'
    <2>1. cursor' \in Nat
      BY <1>1, <1>3
    <2>2. seen' \subseteq 1 .. MaxLines
      <3>1. seen \subseteq 1 .. MaxLines
        BY DEF BufferInv, TypeOK
      <3>2. \A j \in DOMAIN answer.lines : answer.lines[j] \in 1 .. MaxLines
        BY <1>2, <1>3
      <3> QED BY <1>1, <3>1, <3>2
    <2> QED BY <1>1, <2>1, <2>2 DEF BufferInv, TypeOK, output, input
  <1>5. SendHasLeft' /\ FreeSlots'
    BY <1>1 DEF BufferInv, SendHasLeft, FreeSlots, Pending, output, input
  <1>6. NothingSkipped'
    <2>1. buffer' = buffer /\ written' = written
      BY <1>1 DEF output
    <2>2. written <= Cap => cursor <= Len(st) /\ \A i \in 1 .. cursor : st[i] \in seen
      BY DEF BufferInv, NothingSkipped, st
    <2>3. written <= Cap =>
            /\ cursor' <= Len(st)
            /\ \A i \in 1 .. cursor' : st[i] \in seen'
      BY <1>1, <1>2, <1>3, <2>2
    <2> QED BY <2>1, <2>3 DEF NothingSkipped, st
  <1> QED BY <1>4, <1>5, <1>6 DEF BufferInv

\* A line of a pipe goes into the buffer, where a slot is free for it.
LEMMA PumpKeeps ==
  ASSUME BufferInv, NEW s \in Streams, Pump(s)
  PROVE  BufferInv'
  <1> DEFINE line == Head(pipe[s])
             lines == pipe[s]
  <1>1. /\ UNCHANGED <<process, running, cancelled, monitor, pump, written, reader, input>>
        /\ lines # <<>> /\ line # Long
        /\ buffer' = Appended(buffer, line)
        /\ pipe' = [pipe EXCEPT ![s] = Tail(lines)]
    BY DEF Pump
  <1>2. lines \in Seq(0 .. Long) /\ Long = MaxLines + 1 /\ MaxLines \in Nat
        /\ pipe \in [Streams -> Seq(0 .. Long)]
    BY SessionAssumption DEF BufferInv, TypeOK, Long
  <1> HIDE DEF lines
  <1>3. /\ Head(lines) \in 0 .. Long /\ Tail(lines) \in Seq(0 .. Long)
        /\ Len(Tail(lines)) = Len(lines) - 1
    <2> DEFINE Any == 0 .. Long
    <2>1. lines \in Seq(Any) /\ lines # <<>>
      BY <1>1, <1>2
    <2> HIDE DEF Any
    <2>2. Head(lines) \in Any /\ Tail(lines) \in Seq(Any) /\ Len(Tail(lines)) = Len(lines) - 1
      BY <2>1, HeadTailProperties
    <2> QED BY <2>2 DEF Any
  <1>4. line \in 0 .. MaxLines /\ line \in Int
    BY <1>1, <1>2, <1>3 DEF lines
  <1> HIDE DEF line
  <1>5. pipe' \in [Streams -> Seq(0 .. Long)]
    BY <1>1, <1>2, <1>3
  <1>6. Pending \in Nat /\ Pending' = Pending - 1
    <2>1. \A t \in Streams : t # s => pipe'[t] = pipe[t]
      BY <1>1, <1>2
    <2>2. Len(pipe'[s]) = Len(pipe[s]) + (-1)
      <3>1. pipe'[s] = Tail(lines) /\ Len(lines) \in Nat
        BY <1>1, <1>2, LenProperties
      <3> QED BY <1>3, <3>1 DEF lines
    <2>3. Pending \in Nat /\ Pending' = Pending + (-1)
      BY <1>2, <2>1, <2>2, PendingOf
    <2> QED BY <2>3
  <1>7. /\ buffer \in [data : [0 .. Cap - 1 -> 0 .. MaxLines], pos : 0 .. Cap - 1]
        /\ buffer \in Buffers
    BY StoredWritten DEF BufferInv, TypeOK
  <1>8. buffer' \in [data : [0 .. Cap - 1 -> 0 .. MaxLines], pos : 0 .. Cap - 1]
    <2>1. (buffer.pos + 1) % Cap \in 0 .. Cap - 1
      BY <1>7, CapAssumption
    <2> QED BY <1>1, <1>4, <1>7, <2>1 DEF Appended
  <1>9. TypeOK'
    BY <1>1, <1>5, <1>8 DEF BufferInv, TypeOK, reader, input
  <1>10. SendHasLeft'
    BY <1>1 DEF BufferInv, SendHasLeft, input
  <1>11. written' = written /\ written \in Nat
    BY <1>1, SessionAssumption DEF BufferInv, TypeOK
  <1>12. FreeSlots'
    <2> SUFFICES ASSUME written <= Cap
                 PROVE  /\ Pending' <= written
                        /\ \A i \in 1 .. Cap - written + Pending' : Slots(buffer')[i] = Blank
      BY <1>11 DEF FreeSlots
    <2>1. /\ Pending <= written
          /\ \A i \in 1 .. Cap - written + Pending : Slots(buffer)[i] = Blank
      BY DEF BufferInv, FreeSlots
    <2>2. ASSUME NEW i \in 1 .. Cap - written + Pending'
          PROVE  Slots(buffer')[i] = Blank
      <3> DEFINE r == Tail(Slots(buffer))
      <3>1. Slots(buffer') = Append(r, line)
        BY <1>1, <1>4, <1>7, SlotsAppended
      <3>2. Slots(buffer) \in Seq(Int) /\ Len(Slots(buffer)) = Cap
        BY <1>7, SlotsTyped
      <3>3. r \in Seq(Int) /\ Len(r) = Cap - 1 /\ \A j \in 1 .. Cap - 1 : r[j] = Slots(buffer)[j + 1]
        <4>1. Slots(buffer) # <<>>
          BY <3>2, CapAssumption, EmptySeq
        <4> QED BY <3>2, <4>1, HeadTailProperties
      <3> HIDE DEF r
      <3>4. i \in 1 .. Cap - 1 /\ i + 1 \in 1 .. Cap - written + Pending
        BY <1>6, <1>11, <2>1, CapAssumption
      <3>5. Append(r, line)[i] = r[i]
        BY <1>4, <3>3, <3>4, AppendProperties
      <3> QED BY <2>1, <3>1, <3>3, <3>4, <3>5
    <2> QED BY <1>6, <1>11, <2>1, <2>2
  <1>13. NothingSkipped'
    <2> SUFFICES ASSUME written <= Cap
                 PROVE  /\ cursor <= Len(Stored(buffer'))
                        /\ \A i \in 1 .. cursor : Stored(buffer')[i] \in seen
      BY <1>1, <1>11 DEF NothingSkipped, reader
    <2> DEFINE st == Stored(buffer)
    <2>1. cursor <= Len(st) /\ \A i \in 1 .. cursor : st[i] \in seen
      BY DEF BufferInv, NothingSkipped
    <2>2. Slots(buffer)[1] = Blank
      <3>1. 1 \in 1 .. Cap - written + Pending
        <4>1. Len(lines) \in Nat \ {0}
          BY <1>1, <1>2, LenProperties, EmptySeq
        <4>2. Pending >= 1
          <5>1. \A t \in Streams : t # s => pipe'[t] = pipe[t]
            BY <1>1, <1>2
          <5>2. Pending \in Nat /\ Pending >= Len(pipe[s])
            BY <1>2, <5>1, PendingOf
          <5> QED BY <4>1, <5>2 DEF lines
        <4> QED BY <1>6, <1>11, <4>2, CapAssumption
      <3> QED BY <3>1 DEF BufferInv, FreeSlots
    <2>3. Stored(buffer') = IF line = Blank THEN st ELSE Append(st, line)
      BY <1>1, <1>4, <1>7, <2>2, StoredAppended
    <2>4. st \in Seq(Int) /\ Len(st) \in Nat /\ cursor \in Nat
      <3>1. st \in Seq(NonBlank)
        <4>1. 1 \in Nat \ {0} /\ 0 \in Nat
          OBVIOUS
        <4> QED BY <1>7, <4>1, SinceReturns
      <3>2. NonBlank \subseteq Int
        BY DEF NonBlank
      <3> QED BY <3>1, <3>2, SeqMonotonic, LenProperties DEF BufferInv, TypeOK
    <2> HIDE DEF st
    <2>5. CASE line = Blank
      BY <2>1, <2>3, <2>5
    <2>6. CASE line # Blank
      <3>1. Len(Append(st, line)) = Len(st) + 1
            /\ \A i \in 1 .. Len(st) : Append(st, line)[i] = st[i]
        BY <1>4, <2>4, AppendProperties
      <3> QED BY <2>1, <2>3, <2>4, <2>6, <3>1
    <2> QED BY <2>5, <2>6
  <1> QED BY <1>9, <1>10, <1>12, <1>13 DEF BufferInv

\* A line is written: a slot less is free, a line more is on its way.
LEMMA WriteKeeps ==
  ASSUME BufferInv, NEW s \in Streams, Write(s)
  PROVE  BufferInv'
  <1> DEFINE lines == pipe[s]
  <1>1. /\ UNCHANGED <<process, running, cancelled, monitor, pump, buffer, reader, input>>
        /\ written < MaxLines /\ written' = written + 1 /\ written \in 0 .. MaxLines
        /\ MaxLines \in Nat
    BY SessionAssumption DEF Write, BufferInv, TypeOK
  <1>2. PICK line \in 0 .. Long : pipe' = [pipe EXCEPT ![s] = Append(lines, line)]
    BY <1>1 DEF Write, Long, Blank
  <1>3. pipe \in [Streams -> Seq(0 .. Long)] /\ lines \in Seq(0 .. Long)
    BY DEF BufferInv, TypeOK
  <1> HIDE DEF lines
  <1>4. Append(lines, line) \in Seq(0 .. Long) /\ Len(Append(lines, line)) = Len(lines) + 1
    <2> DEFINE Any == 0 .. Long
    <2>1. lines \in Seq(Any) /\ line \in Any
      BY <1>3
    <2> HIDE DEF Any
    <2>2. Append(lines, line) \in Seq(Any) /\ Len(Append(lines, line)) = Len(lines) + 1
      BY <2>1, AppendProperties
    <2> QED BY <2>2 DEF Any
  <1>5. TypeOK'
    <2>1. pipe' \in [Streams -> Seq(0 .. Long)]
      BY <1>2, <1>3, <1>4
    <2>2. written' \in 0 .. MaxLines
      BY <1>1
    <2> QED BY <1>1, <2>1, <2>2 DEF BufferInv, TypeOK, reader, input
  <1>6. Pending \in Nat /\ Pending' = Pending + 1
    <2>1. \A t \in Streams : t # s => pipe'[t] = pipe[t]
      BY <1>2, <1>3
    <2>2. Len(pipe'[s]) = Len(pipe[s]) + 1
      <3>1. pipe'[s] = Append(lines, line)
        BY <1>2, <1>3
      <3> QED BY <1>4, <3>1 DEF lines
    <2> QED BY <1>3, <2>1, <2>2, PendingOf
  <1>7. FreeSlots'
    <2> SUFFICES ASSUME written + 1 <= Cap
                 PROVE  /\ Pending' <= written + 1
                        /\ \A i \in 1 .. Cap - (written + 1) + Pending' :
                             Slots(buffer)[i] = Blank
      BY <1>1 DEF FreeSlots
    <2>1. /\ Pending <= written
          /\ \A i \in 1 .. Cap - written + Pending : Slots(buffer)[i] = Blank
      BY <1>1, CapAssumption DEF BufferInv, FreeSlots
    <2>2. Cap - (written + 1) + Pending' = Cap - written + Pending
      BY <1>1, <1>6, CapAssumption
    <2> QED BY <1>1, <1>6, <2>1, <2>2
  <1>8. NothingSkipped'
    <2>1. written' <= Cap => written <= Cap
      BY <1>1, CapAssumption
    <2> QED BY <1>1, <2>1 DEF BufferInv, NothingSkipped, reader
  <1>9. SendHasLeft'
    BY <1>1 DEF BufferInv, SendHasLeft, input
  <1> QED BY <1>5, <1>7, <1>8, <1>9 DEF BufferInv

\* cmd.Wait empties the pipes.
LEMMA WaitKeeps == ASSUME BufferInv, WaitReturns PROVE BufferInv'
  <1>1. /\ UNCHANGED <<running, cancelled, pump, buffer, written, reader, input>>
        /\ process' = "gone" /\ monitor' = "done"
        /\ pipe' = [s \in Streams |-> <<>>]
    BY DEF WaitReturns
  <1>2. TypeOK'
    <2>1. <<>> \in Seq(0 .. Long)
      OBVIOUS
    <2> QED BY <1>1, <2>1 DEF BufferInv, TypeOK, reader, input
  <1>3. Pending \in Nat /\ Pending' = 0
    <2>1. Len(<<>>) = 0
      OBVIOUS
    <2>2. Pending' = 0
      BY <1>1, <2>1 DEF Pending, Streams
    <2> QED BY <2>2, PendingTyped DEF BufferInv
  <1>4. FreeSlots'
    <2> SUFFICES ASSUME written <= Cap
                 PROVE  /\ Pending' <= written
                        /\ \A i \in 1 .. Cap - written + Pending' : Slots(buffer)[i] = Blank
      BY <1>1 DEF FreeSlots
    <2>1. \A i \in 1 .. Cap - written + Pending : Slots(buffer)[i] = Blank
      BY DEF BufferInv, FreeSlots
    <2>2. written \in Nat /\ Cap \in Nat
      BY CapAssumption, SessionAssumption DEF BufferInv, TypeOK
    <2> QED BY <1>3, <2>1, <2>2
  <1>5. NothingSkipped' /\ SendHasLeft'
    BY <1>1 DEF BufferInv, NothingSkipped, SendHasLeft, reader, input
  <1> QED BY <1>2, <1>4, <1>5 DEF BufferInv

\* The other steps leave the pipes, the buffer and the cursor alone.
LEMMA OtherKeeps ==
  ASSUME BufferInv, TypeOK', SendHasLeft', UNCHANGED <<pipe, buffer, written, reader>>
  PROVE  BufferInv'
BY DEF BufferInv, FreeSlots, NothingSkipped, Pending, reader

LEMMA NextBuffer == BufferInv /\ [Next]_vars => BufferInv'
<1> SUFFICES ASSUME BufferInv, [Next]_vars PROVE BufferInv'
  OBVIOUS
<1>1. TypeOK /\ SendHasLeft /\ MaxInput \in Nat
  BY SessionAssumption DEF BufferInv
<1>2. CASE Start \/ Stop \/ Exit \/ ContextKills \/ ClearRunning
           \/ \E s \in Streams : PumpEnds(s)
  <2>1. UNCHANGED <<pipe, buffer, written, reader, stdin, left, sent>>
    BY <1>2 DEF Start, Stop, Exit, ContextKills, ClearRunning, PumpEnds, output, input
  <2>2. open' \in BOOLEAN /\ running' \in BOOLEAN /\ cancelled' \in BOOLEAN
    BY <1>1, <1>2, Zenon
    DEF Start, Stop, Exit, ContextKills, ClearRunning, PumpEnds, TypeOK, output, input
  <2>3. /\ process' \in {"none", "alive", "zombie", "gone"}
        /\ monitor' \in {"none", "waiting", "done"}
        /\ pump' \in [Streams -> {"none", "reading", "done"}]
    BY <1>1, <1>2
    DEF Start, Stop, Exit, ContextKills, ClearRunning, PumpEnds, TypeOK, output
  <2>4. TypeOK'
    BY <1>1, <2>1, <2>2, <2>3 DEF TypeOK, reader
  <2> QED BY <1>1, <2>1, <2>4, OtherKeeps DEF SendHasLeft
<1>3. CASE TakesInput \/ ClosesInput \/ SendWrites \/ SendFails \/ \E n \in 1 .. MaxInput : Send(n)
  <2>1. UNCHANGED <<process, running, cancelled, monitor, output, reader>>
    BY <1>3 DEF TakesInput, ClosesInput, SendWrites, SendFails, Send
  <2>2. open' \in BOOLEAN
    BY <1>1, <1>3, Zenon DEF TakesInput, ClosesInput, SendWrites, SendFails, Send, TypeOK
  <2>3. stdin' \in 0 .. StdinCap
    BY <1>1, <1>3, SessionAssumption
    DEF TakesInput, ClosesInput, SendWrites, SendFails, Send, TypeOK
  <2>4. /\ left' \in 0 .. MaxInput
        /\ sent' \in {"none", "writing", "ok", "io_error", "stopped"}
        /\ SendHasLeft'
    BY <1>1, <1>3, SessionAssumption
    DEF TakesInput, ClosesInput, SendWrites, SendFails, Send, TypeOK, SendHasLeft
  <2>5. TypeOK'
    BY <1>1, <2>1, <2>2, <2>3, <2>4 DEF TypeOK, output, reader
  <2> QED BY <2>1, <2>4, <2>5, OtherKeeps DEF output
<1>4. CASE UNCHANGED vars
  BY <1>1, <1>4, OtherKeeps DEF vars, TypeOK, SendHasLeft, output, reader, input
<1> QED
  BY <1>2, <1>3, <1>4, ReadKeeps, PumpKeeps, WriteKeeps, WaitKeeps DEF Next, Goroutines

\* The variables of a session keep their types.
THEOREM TypeCorrect == Spec => []TypeOK
<1>1. BufferInv => TypeOK
  BY DEF BufferInv
<1> QED
  BY <1>1, InitBuffer, NextBuffer, PTL DEF Spec

\* sessionRead, as long as no line of the buffer was overwritten: every line in front of
\* the cursor was delivered, whatever the bounds and the order of the goroutines.
THEOREM NothingIsSkipped == Spec => []NothingSkipped
<1>1. BufferInv => NothingSkipped
  BY DEF BufferInv
<1> QED
  BY <1>1, InitBuffer, NextBuffer, PTL DEF Spec

\* ringBuffer.Since: the loop returns the stored lines from seq on, cut at max_bytes,
\* and the cursor behind them, or on the last of them where it was cut.
THEOREM SinceIsExact == Spec => []SinceIsSuffix
<1>1. ASSUME BufferInv PROVE SinceIsSuffix
  <2>1. buffer \in Buffers
    BY <1>1, StoredWritten DEF BufferInv, TypeOK
  <2> DEFINE stored == Stored(buffer)
             n == Len(stored)
  <2> SUFFICES ASSUME NEW seq \in 0 .. Cap + 1, NEW max \in 1 .. Cap + 1
               PROVE  IF (IF seq < n THEN n - seq ELSE 0) >= max
                      THEN Since(buffer, seq, max) =
                             [lines |-> SubSeq(stored, seq + 1, seq + max), seq |-> seq + max - 1]
                      ELSE Since(buffer, seq, max) =
                             [lines |-> SubSeq(stored, seq + 1, n), seq |-> n]
    BY Zenon DEF SinceIsSuffix
  <2>2. seq \in Nat /\ max \in Nat \ {0}
    BY CapAssumption
  <2>3. /\ stored \in Seq(NonBlank)
        /\ Since(buffer, seq, max) =
             IF n >= seq + max
             THEN [lines |-> SubSeq(stored, seq + 1, seq + max), seq |-> seq + max - 1]
             ELSE [lines |-> SubSeq(stored, seq + 1, n), seq |-> n]
    BY <2>1, <2>2, SinceReturns
  <2>4. n \in Nat
    BY <2>3, LenProperties
  <2> HIDE DEF n
  <2>5. (IF seq < n THEN n - seq ELSE 0) >= max <=> n >= seq + max
    BY <2>2, <2>4
  <2> QED BY <2>3, <2>5, Zenon DEF n
<1> QED
  BY <1>1, InitBuffer, NextBuffer, PTL DEF Spec
=============================================================================
