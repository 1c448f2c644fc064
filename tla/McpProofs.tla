------------------------------ MODULE McpProofs ------------------------------
(***************************************************************************)
(* Proofs about the MCP servers.  About McpClient, for any number of tool  *)
(* calls, any pipes and any server: a call takes no answer but its own,    *)
(* the handshake comes in its order, and the reader never waits for a call *)
(* that has given up.  About McpStartup, for any set of servers: when the  *)
(* REPL runs, no goroutine of StartAll is left, and a required server that *)
(* failed was reported.                                                    *)
(*                                                                         *)
(* A request is on its way, owed or answered, and is each of them once:    *)
(* that is SentOnce.  AnswersAreOwed then follows a result from the server *)
(* to the call, along stdout, the reader and the channel; Handshaken says  *)
(* what startServer knows to be answered; and AnswersOnce that no id is    *)
(* answered twice, whether its call still waits or not.                    *)
(***************************************************************************)
EXTENDS McpClient, McpStartup, TLAPS

-----------------------------------------------------------------------------
(* The elements of a sequence.                                             *)

Elems(s) == {s[i] : i \in DOMAIN s}
Once(s) == \A i, j \in DOMAIN s : s[i] = s[j] => i = j

LEMMA AppendElems ==
  ASSUME NEW S, NEW s \in Seq(S), NEW x \in S
  PROVE  /\ Append(s, x) \in Seq(S) /\ Len(Append(s, x)) = Len(s) + 1
         /\ Elems(Append(s, x)) = Elems(s) \cup {x}
         /\ Once(s) /\ x \notin Elems(s) => Once(Append(s, x))
<1>1. /\ Append(s, x) \in Seq(S) /\ Len(Append(s, x)) = Len(s) + 1
      /\ DOMAIN Append(s, x) = 1 .. Len(s) + 1
  OBVIOUS
<1>2. DOMAIN s = 1 .. Len(s) /\ Len(s) \in Nat
  OBVIOUS
<1>3. /\ \A i \in 1 .. Len(s) : Append(s, x)[i] = s[i]
      /\ Append(s, x)[Len(s) + 1] = x
  OBVIOUS
<1>4. Elems(Append(s, x)) = Elems(s) \cup {x}
  BY <1>1, <1>2, <1>3 DEF Elems
<1>5. Once(s) /\ x \notin Elems(s) => Once(Append(s, x))
  BY <1>1, <1>2, <1>3 DEF Elems, Once
<1> QED
  BY <1>1, <1>4, <1>5

LEMMA ElemsType == ASSUME NEW S, NEW s \in Seq(S) PROVE Elems(s) \subseteq S
BY DEF Elems

LEMMA AppendLength ==
  ASSUME NEW S, NEW s \in Seq(S), NEW x \in S
  PROVE  Append(s, x) \in Seq(S) /\ Len(Append(s, x)) = Len(s) + 1 /\ Len(s) \in Nat
OBVIOUS

LEMMA TailElems ==
  ASSUME NEW S, NEW s \in Seq(S), s # <<>>
  PROVE  /\ Tail(s) \in Seq(S) /\ Len(Tail(s)) = Len(s) - 1
         /\ Head(s) \in Elems(s) /\ Head(s) \in S
         /\ Elems(s) = Elems(Tail(s)) \cup {Head(s)}
         /\ Once(s) => Once(Tail(s)) /\ Head(s) \notin Elems(Tail(s))
<1>1. /\ Tail(s) \in Seq(S) /\ Len(Tail(s)) = Len(s) - 1
      /\ Head(s) = s[1] /\ 1 \in DOMAIN s
      /\ DOMAIN Tail(s) = 1 .. Len(s) - 1
      /\ DOMAIN s = 1 .. Len(s) /\ Len(s) \in Nat \ {0}
  OBVIOUS
<1>2. \A i \in 1 .. Len(s) - 1 : Tail(s)[i] = s[i + 1]
  OBVIOUS
<1>3. Head(s) \in Elems(s) /\ Head(s) \in S
  BY <1>1 DEF Elems
<1>4. Elems(s) = Elems(Tail(s)) \cup {Head(s)}
  <2>1. ASSUME NEW i \in DOMAIN s PROVE s[i] \in Elems(Tail(s)) \cup {Head(s)}
    <3>1. CASE i = 1
      BY <3>1, <1>1
    <3>2. CASE i # 1
      <4>1. i - 1 \in DOMAIN Tail(s) /\ Tail(s)[i - 1] = s[i]
        BY <3>2, <1>1, <1>2
      <4> QED
        BY <4>1 DEF Elems
    <3> QED
      BY <3>1, <3>2
  <2>2. ASSUME NEW i \in DOMAIN Tail(s) PROVE Tail(s)[i] \in Elems(s)
    <3>1. i + 1 \in DOMAIN s /\ s[i + 1] = Tail(s)[i]
      BY <1>1, <1>2
    <3> QED
      BY <3>1 DEF Elems
  <2> QED
    BY <2>1, <2>2, <1>3 DEF Elems
<1>5. Once(s) => Once(Tail(s)) /\ Head(s) \notin Elems(Tail(s))
  BY <1>1, <1>2 DEF Elems, Once
<1> QED
  BY <1>1, <1>3, <1>4, <1>5

-----------------------------------------------------------------------------
(* The invariant.                                                          *)

Sent == heard \cup Elems(requests)
Answered == heard \ owed

\* Which call startServer is in.
CallPlace ==
  /\ start = "spawn" => pc = "idle" /\ reqID = 0
  /\ start = "initialize" => reqID = IF pc = "idle" THEN 0 ELSE 1
  /\ start = "notify" => pc = "idle" /\ reqID = 1
  /\ start = "list" => reqID = IF pc = "idle" THEN 1 ELSE 2
  /\ start = "ready" => reqID >= 2 /\ (pc # "idle" => reqID > 2)
  /\ start = "failed" => pc = "idle"

\* A request is sent once, and is no longer on its way when it was heard.
SentOnce ==
  /\ \A i \in Sent : i <= reqID
  /\ pc = "write" => reqID \notin Sent
  /\ Once(requests)
  /\ Elems(requests) \cap heard = {}
  /\ owed \subseteq heard

\* A result, wherever it is, is the answer to a request.
AnswersAreOwed ==
  /\ \A line \in Elems(answers) : line.kind = "result" => line.id \in Answered
  /\ msg.kind = "result" => msg.id \in Answered
  /\ reader = "send" => msg.id \in Ids
  /\ \A i \in Ids : ch[i] # <<>> =>
       /\ Head(ch[i]).id = i
       /\ Head(ch[i]).kind = "result" => i \in Answered
  /\ pc = "return" => got.id = reqID /\ (Succeeded => reqID \in Answered)

\* What startServer knows of the server.  The notification is not sent to a
\* server that has died, and then nothing else is.
Handshaken ==
  /\ start \in {"spawn", "initialize", "notify"} => Initialized \notin Sent
  /\ start \in {"notify", "list", "ready"} => Initialize \in Answered
  /\ start \in {"list", "ready"} => Initialized \in Sent \/ server = "dead"
  /\ start = "ready" => ListTools \in Answered
  /\ Initialized \in Sent => Initialize \in Answered
  /\ \A i \in Sent : i >= ListTools => {Initialize, Initialized} \subseteq Sent
  /\ \A i \in Sent : i > ListTools => ListTools \in Answered

IInv == TypeOK /\ CallPlace /\ SentOnce /\ AnswersAreOwed /\ Handshaken

-----------------------------------------------------------------------------
(* Types.                                                                  *)

Kinds == {"result", "error", "request", "noise", "long"}
Channel == {<<>>} \cup {<<line>> : line \in Line}

LEMMA Bounds ==
  /\ MaxId \in Nat /\ MaxId >= 2
  /\ Ids = 1 .. MaxId
  /\ Initialized = 0 /\ Initialize = 1 /\ ListTools = 2
BY McpAssumption DEF MaxId, Ids, Initialized, Initialize, ListTools

LEMMA Lines ==
  /\ \A i \in 0 .. MaxId, kind \in Kinds : [id |-> i, kind |-> kind] \in Line
  /\ \A line \in Line : line.id \in 0 .. MaxId /\ line.kind \in Kinds
  /\ NoLine \in Line /\ NoLine.id = 0 /\ NoLine.kind = "noise"
BY Bounds DEF Line, Kinds, NoLine

LEMMA Outcomes ==
  /\ \A line \in Line : line \in Outcome
  /\ \A i \in Ids, kind \in {"write_error", "ctx_error"} : [id |-> i, kind |-> kind] \in Outcome
BY DEF Outcome

LEMMA Channels ==
  /\ <<>> \in Channel
  /\ \A line \in Line : <<line>> \in Channel /\ Head(<<line>>) = line /\ <<line>> # <<>>
  /\ \A c \in Channel : c # <<>> => Head(c) \in Line
<1>1. \A c \in Channel : c # <<>> => Head(c) \in Line
  <2>1. SUFFICES ASSUME NEW c \in Channel, c # <<>> PROVE Head(c) \in Line
    OBVIOUS
  <2>2. PICK line \in Line : c = <<line>>
    BY <2>1 DEF Channel
  <2> QED
    BY <2>2
<1>2. \A line \in Line : <<line>> \in Channel /\ Head(<<line>>) = line /\ <<line>> # <<>>
  BY DEF Channel
<1> QED
  BY <1>1, <1>2 DEF Channel

LEMMA TypeInit == Init => TypeOK
<1> SUFFICES ASSUME Init PROVE TypeOK
  OBVIOUS
<1>1. got \in Outcome /\ msg \in Line
  BY Lines, Outcomes DEF Init
<1>2. ch \in [Ids -> Channel]
  BY Channels DEF Init
<1>3. requests \in Seq(0 .. MaxId) /\ Len(requests) <= StdinCap
  BY McpAssumption DEF Init
<1>4. answers \in Seq(Line) /\ Len(answers) <= StdoutCap
  BY McpAssumption DEF Init
<1>5. reqID \in 0 .. MaxId
  BY Bounds DEF Init
<1> QED
  BY <1>1, <1>2, <1>3, <1>4, <1>5 DEF Init, TypeOK, Channel

LEMMA TypeStep == ASSUME TypeOK, CallPlace, [Next]_vars PROVE TypeOK'
<1> USE DEF startVars, processVars, callVars, readerVars, serverVars
<1>a. /\ reqID \in 0 .. MaxId
      /\ pc \in {"write", "select", "return"} => reqID \in Ids
      /\ pc = "idle" /\ start \in {"initialize", "list"} => reqID < MaxId
  BY Bounds DEF TypeOK, CallPlace
<1>b. /\ requests \in Seq(0 .. MaxId) /\ Len(requests) <= StdinCap
      /\ answers \in Seq(Line) /\ Len(answers) <= StdoutCap
      /\ StdinCap \in Nat /\ StdoutCap \in Nat
  BY McpAssumption DEF TypeOK
<1>c. /\ ch \in [Ids -> Channel] /\ got \in Outcome /\ pending \subseteq Ids
      /\ owed \subseteq Ids /\ heard \subseteq 0 .. MaxId
  BY DEF TypeOK, Channel
<1>1. CASE Spawn
  BY <1>1 DEF TypeOK, Spawn
<1>2. CASE StartTimeout \/ CancelTurn
  BY <1>2 DEF TypeOK, StartTimeout, CancelTurn
<1>3. CASE StopAll
  BY <1>3 DEF TypeOK, StopAll, KillLeader
<1>4. CASE ContextKills
  BY <1>4 DEF TypeOK, ContextKills, KillLeader
<1>5. CASE ServerCrashes
  BY <1>5 DEF TypeOK, ServerCrashes
<1>6. CASE Notify
  <2>1. requests' \in Seq(0 .. MaxId) /\ Len(requests') <= StdinCap
    <3>1. /\ Append(requests, Initialized) \in Seq(0 .. MaxId)
          /\ Len(Append(requests, Initialized)) = Len(requests) + 1 /\ Len(requests) \in Nat
      <4>1. Initialized \in 0 .. MaxId
        BY Bounds
      <4> QED
        BY <1>b, <4>1, AppendLength
    <3>2. \/ requests' = requests
          \/ requests' = Append(requests, Initialized) /\ Len(requests) < StdinCap
      BY <1>6 DEF Notify
    <3>3. CASE requests' = requests
      BY <1>b, <3>3
    <3>4. CASE Len(requests) < StdinCap
      <4> DEFINE longer == Append(requests, Initialized)
      <4>1. longer \in Seq(0 .. MaxId) /\ Len(longer) <= StdinCap
        BY <1>b, <3>1, <3>4
      <4> QED
        BY <1>b, <3>2, <4>1, Zenon
    <3> QED
      BY <3>2, <3>3, <3>4
  <2> QED
    BY <1>6, <2>1 DEF Notify, TypeOK
<1>7. CASE CallBegin
  <2>1. reqID' \in 0 .. MaxId /\ pending' \subseteq Ids
    BY <1>7, <1>a, <1>c, Bounds DEF CallBegin
  <2> QED
    BY <1>7, <2>1 DEF CallBegin, TypeOK
<1>8. CASE Write
  <2>1. got' \in Outcome
    BY <1>8, <1>a, <1>c, Outcomes DEF Write
  <2>2. requests' \in Seq(0 .. MaxId) /\ Len(requests') <= StdinCap
    <3>1. /\ Append(requests, reqID) \in Seq(0 .. MaxId)
          /\ Len(Append(requests, reqID)) = Len(requests) + 1 /\ Len(requests) \in Nat
      BY <1>a, <1>b, AppendLength
    <3>2. \/ requests' = requests
          \/ requests' = Append(requests, reqID) /\ Len(requests) < StdinCap
      BY <1>8 DEF Write
    <3>3. CASE requests' = requests
      BY <1>b, <3>3
    <3>4. CASE Len(requests) < StdinCap
      <4> DEFINE longer == Append(requests, reqID)
      <4>1. longer \in Seq(0 .. MaxId) /\ Len(longer) <= StdinCap
        BY <1>b, <3>1, <3>4
      <4> QED
        BY <1>b, <3>2, <4>1, Zenon
    <3> QED
      BY <3>2, <3>3, <3>4
  <2> QED
    BY <1>8, <2>1, <2>2 DEF Write, TypeOK
<1>9. CASE Select
  <2>1. got' \in Outcome
    BY <1>9, <1>a, <1>c, Outcomes, Channels DEF Select
  <2>2. ch' \in [Ids -> Channel]
    BY <1>9, <1>c, Channels DEF Select
  <2> QED
    BY <1>9, <2>1, <2>2 DEF Select, TypeOK, Channel
<1>10. CASE CallEnd
  BY <1>10 DEF TypeOK, CallEnd, KillLeader
<1>11. CASE ReadLine
  <2>1. answers' \in Seq(Line) /\ Len(answers') <= StdoutCap /\ Head(answers) \in Line
    BY <1>11, <1>b, TailElems DEF ReadLine
  <2>2. msg' \in Line /\ reader' \in {"scan", "send", "done"}
    BY <1>11, <2>1, Lines DEF ReadLine, NextLine
  <2> QED
    BY <1>11, <2>1, <2>2 DEF ReadLine, TypeOK
<1>12. CASE Send
  <2>1. ch' \in [Ids -> Channel] /\ msg' \in Line /\ reader' \in {"scan", "done"}
    BY <1>12, <1>c, Lines, Channels DEF Send, TypeOK, NextLine
  <2> QED
    BY <1>12, <2>1 DEF Send, TypeOK, Channel
<1>13. CASE ReadEnd
  BY <1>13 DEF TypeOK, ReadEnd
<1>14. CASE ServerReads
  <2>1. /\ requests' \in Seq(0 .. MaxId) /\ Len(requests') <= StdinCap
        /\ Head(requests) \in 0 .. MaxId
    <3>1. /\ Tail(requests) \in Seq(0 .. MaxId)
          /\ Len(Tail(requests)) = Len(requests) - 1
          /\ Head(requests) \in 0 .. MaxId
      BY <1>14, <1>b, TailElems DEF ServerReads
    <3>2. Len(requests) \in Nat
      BY <1>b
    <3> QED
      BY <1>14, <1>b, <3>1, <3>2 DEF ServerReads
  <2>2. owed' \subseteq Ids /\ heard' \subseteq 0 .. MaxId
    <3>1. {Head(requests)} \ {Initialized} \subseteq Ids
      BY <2>1, Bounds
    <3> QED
      BY <1>14, <1>c, <2>1, <3>1 DEF ServerReads
  <2> QED
    BY <1>14, <2>1, <2>2 DEF ServerReads, TypeOK
<1>15. CASE ServerAnswers
  <2>1. answers' \in Seq(Line) /\ Len(answers') <= StdoutCap
    <3>1. PICK i \in owed, kind \in Kinds : answers' = Append(answers, [id |-> i, kind |-> kind])
      BY <1>15 DEF ServerAnswers, Kinds
    <3>2. [id |-> i, kind |-> kind] \in Line
      BY Lines, Bounds DEF TypeOK
    <3> QED
      BY <1>15, <1>b, <3>1, <3>2 DEF ServerAnswers
  <2>2. owed' \subseteq Ids
    BY <1>15, <1>c DEF ServerAnswers
  <2> QED
    BY <1>15, <2>1, <2>2 DEF ServerAnswers, TypeOK
<1>16. CASE ServerSpeaks
  <2>1. PICK line \in Line : answers' = Append(answers, line)
    <3>1. \A i \in Ids : [id |-> i, kind |-> "request"] \in Line
      <4>1. "request" \in Kinds /\ \A i \in Ids : i \in 0 .. MaxId
        BY Bounds DEF Kinds
      <4> QED
        BY <4>1, Lines
    <3> QED
      BY <1>16, <3>1, Lines DEF ServerSpeaks
  <2>2. answers' \in Seq(Line) /\ Len(answers') <= StdoutCap
    BY <1>16, <1>b, <2>1 DEF ServerSpeaks
  <2> QED
    BY <1>16, <2>2 DEF ServerSpeaks, TypeOK
<1>17. CASE UNCHANGED vars
  BY <1>17 DEF TypeOK, vars
<1> QED
  BY <1>1, <1>2, <1>3, <1>4, <1>5, <1>6, <1>7, <1>8, <1>9, <1>10, <1>11, <1>12, <1>13,
     <1>14, <1>15, <1>16, <1>17 DEF Next, Caller, Reader, Server, Finished

-----------------------------------------------------------------------------
(* The steps.                                                              *)

LEMMA PlaceStep == ASSUME TypeOK, CallPlace, [Next]_vars PROVE CallPlace'
<1> USE DEF startVars, processVars, callVars, readerVars, serverVars
<1>a. reqID \in Nat
  BY Bounds DEF TypeOK
<1>1. CASE UNCHANGED <<start, pc, reqID>>
  BY <1>1 DEF CallPlace
<1>2. CASE Spawn \/ Notify
  BY <1>2 DEF Spawn, Notify, CallPlace
<1>3. CASE Write \/ Select
  BY <1>3 DEF Write, Select, CallPlace
<1>4. CASE CallBegin
  BY <1>4, <1>a DEF CallBegin, CallPlace
<1>5. CASE CallEnd
  BY <1>5, <1>a DEF CallEnd, CallPlace, TypeOK
<1>6. Next => \/ UNCHANGED <<start, pc, reqID>>
              \/ Spawn \/ Notify \/ Write \/ Select \/ CallBegin \/ CallEnd
  BY DEF Next, Caller, Reader, Server, Finished, CancelTurn, StartTimeout, StopAll,
         ContextKills, ReadLine, Send, ReadEnd, ServerReads, ServerAnswers, ServerSpeaks,
         ServerCrashes, vars
<1> QED
  BY <1>1, <1>2, <1>3, <1>4, <1>5, <1>6 DEF vars

\* What a step does to the requests: nothing is taken back, and one is added only
\* by Notify and Write, to a server that lives.
Grows ==
  /\ Answered \subseteq Answered'
  /\ \/ Sent' = Sent
     \/ Notify /\ server = "alive" /\ Sent' = Sent \cup {Initialized}
     \/ Write /\ server = "alive" /\ Sent' = Sent \cup {reqID}

LEMMA SentStep ==
  ASSUME TypeOK, CallPlace, SentOnce, Handshaken, [Next]_vars
  PROVE  SentOnce' /\ Grows
<1> USE DEF startVars, processVars, callVars, readerVars, serverVars
<1>a. /\ requests \in Seq(0 .. MaxId) /\ owed \subseteq Ids /\ heard \subseteq 0 .. MaxId
      /\ reqID \in 0 .. MaxId
  BY DEF TypeOK
<1>b. /\ Once(requests) /\ Elems(requests) \cap heard = {} /\ owed \subseteq heard
      /\ \A i \in Sent : i <= reqID
      /\ pc = "write" => reqID \notin Sent
  BY DEF SentOnce
<1>1. CASE UNCHANGED <<reqID, requests, owed, heard>> /\ pc' # "write"
  <2>1. Sent' = Sent /\ Answered' = Answered /\ Elems(requests)' = Elems(requests)
    BY <1>1 DEF Sent, Answered, Elems
  <2> QED
    BY <1>1, <1>b, <2>1 DEF SentOnce, Grows, Once
<1>2. CASE UNCHANGED <<reqID, requests, owed, heard, pc>>
  <2>1. Sent' = Sent /\ Answered' = Answered /\ Elems(requests)' = Elems(requests)
    BY <1>2 DEF Sent, Answered, Elems
  <2> QED
    BY <1>2, <1>b, <2>1 DEF SentOnce, Grows, Once
<1>3. CASE CallBegin
  <2>1. /\ Sent' = Sent /\ Answered' = Answered /\ Elems(requests)' = Elems(requests)
        /\ reqID' = reqID + 1 /\ requests' = requests /\ owed' = owed /\ heard' = heard
    BY <1>3 DEF CallBegin, Sent, Answered, Elems
  <2>2. Elems(requests) \subseteq 0 .. MaxId
    BY <1>a, ElemsType
  <2>3. Sent \subseteq 0 .. MaxId
    BY <1>a, <2>2 DEF Sent
  <2>4. \A i \in Sent : i <= reqID + 1 /\ i # reqID + 1
    BY <1>a, <1>b, <2>3, Bounds
  <2> QED
    BY <1>b, <2>1, <2>4 DEF SentOnce, Grows, Once
<1>4. ASSUME NEW i \in 0 .. MaxId, i \notin Sent, i <= reqID, pc' # "write",
             requests' = Append(requests, i), UNCHANGED <<reqID, owed, heard>>
      PROVE  SentOnce' /\ Answered' = Answered /\ Sent' = Sent \cup {i}
  <2>1. i \notin Elems(requests) /\ i \notin heard
    BY <1>4 DEF Sent
  <2>2. Elems(requests)' = Elems(requests) \cup {i} /\ Once(requests)'
    <3>1. /\ Elems(Append(requests, i)) = Elems(requests) \cup {i}
          /\ Once(Append(requests, i))
      <4> DEFINE S == 0 .. MaxId
      <4> i \in S /\ requests \in Seq(S)
        BY <1>4, <1>a
      <4> HIDE DEF S
      <4>1. /\ Elems(Append(requests, i)) = Elems(requests) \cup {i}
            /\ Once(requests) /\ i \notin Elems(requests) => Once(Append(requests, i))
        BY AppendElems
      <4> QED
        BY <1>b, <2>1, <4>1
    <3> QED
      BY <1>4, <3>1
  <2>3. Sent' = Sent \cup {i} /\ Answered' = Answered
    BY <1>4, <2>2 DEF Sent, Answered
  <2> QED
    BY <1>4, <1>b, <2>1, <2>2, <2>3 DEF SentOnce
<1>5. CASE Notify
  <2>1. \/ requests' = requests
        \/ requests' = Append(requests, Initialized) /\ server = "alive"
    BY <1>5 DEF Notify
  <2>2. pc' = "idle" /\ pc = "idle" /\ UNCHANGED <<reqID, owed, heard>>
    BY <1>5 DEF Notify, CallPlace
  <2>3. Initialized \in 0 .. MaxId /\ Initialized <= reqID /\ Initialized \notin Sent
    BY <1>5, <1>a, Bounds DEF Notify, Handshaken
  <2>4. CASE requests' = requests
    BY <1>1, <2>2, <2>4
  <2>5. CASE requests' = Append(requests, Initialized) /\ server = "alive"
    <3>1. UNCHANGED <<reqID, owed, heard>> /\ pc' # "write"
      BY <2>2
    <3>2. SentOnce' /\ Answered' = Answered /\ Sent' = Sent \cup {Initialized}
      BY <1>4, <2>3, <2>5, <3>1
    <3> QED
      BY <1>5, <2>5, <3>2 DEF Grows
  <2> QED
    BY <2>1, <2>4, <2>5
<1>6. CASE Write
  <2>1. \/ requests' = requests
        \/ requests' = Append(requests, reqID) /\ server = "alive"
    BY <1>6 DEF Write
  <2>2. pc = "write" /\ pc' # "write" /\ UNCHANGED <<reqID, owed, heard>>
    BY <1>6 DEF Write
  <2>3. CASE requests' = requests
    BY <1>1, <2>2, <2>3
  <2>4. CASE requests' = Append(requests, reqID) /\ server = "alive"
    <3>1. reqID \notin Sent /\ reqID <= reqID
      BY <1>a, <1>b, <2>2
    <3> QED
      <4>1. SentOnce' /\ Answered' = Answered /\ Sent' = Sent \cup {reqID}
        BY <1>4, <1>a, <2>2, <2>4, <3>1
      <4> QED
        BY <1>6, <2>4, <4>1 DEF Grows
  <2> QED
    BY <2>1, <2>3, <2>4
<1>7. CASE ServerReads
  <2>1. requests # <<>>
    BY <1>7 DEF ServerReads
  <2> DEFINE id == Head(requests)
  <2>2. /\ Elems(requests) = Elems(Tail(requests)) \cup {id}
        /\ Once(Tail(requests)) /\ id \notin Elems(Tail(requests))
    BY <1>a, <1>b, <2>1, TailElems
  <2>3. /\ requests' = Tail(requests) /\ heard' = heard \cup {id}
        /\ owed' = owed \cup ({id} \ {Initialized}) /\ UNCHANGED <<reqID, pc>>
    BY <1>7 DEF ServerReads
  <2>4. Elems(requests)' = Elems(Tail(requests)) /\ Once(requests)'
    BY <2>2, <2>3
  <2> HIDE DEF id
  <2>5. Sent' = Sent
    BY <2>2, <2>3, <2>4 DEF Sent
  <2>6. id \notin heard
    BY <1>b, <2>2
  <2>7. Answered \subseteq Answered'
    BY <2>3, <2>6 DEF Answered
  <2>8. owed' \subseteq heard' /\ Elems(requests)' \cap heard' = {}
    BY <1>b, <2>2, <2>3, <2>4
  <2> QED
    BY <1>b, <2>3, <2>4, <2>5, <2>7, <2>8 DEF SentOnce, Grows
<1>8. CASE ServerAnswers
  <2>1. UNCHANGED <<reqID, pc, requests, heard>> /\ owed' \subseteq owed
    BY <1>8 DEF ServerAnswers
  <2>2. Sent' = Sent /\ Elems(requests)' = Elems(requests) /\ Answered \subseteq Answered'
    BY <2>1 DEF Sent, Answered, Elems
  <2> QED
    BY <1>b, <2>1, <2>2 DEF SentOnce, Grows, Once
<1>9. Next => \/ UNCHANGED <<reqID, requests, owed, heard>> /\ pc' # "write"
              \/ UNCHANGED <<reqID, requests, owed, heard, pc>>
              \/ CallBegin \/ Notify \/ Write \/ ServerReads \/ ServerAnswers
  BY DEF Next, Caller, Reader, Server, Finished, CancelTurn, StartTimeout, StopAll, Spawn,
         Select, CallEnd, ContextKills, ReadLine, Send, ReadEnd, ServerSpeaks,
         ServerCrashes, vars
<1> QED
  BY <1>1, <1>2, <1>3, <1>5, <1>6, <1>7, <1>8, <1>9 DEF vars

LEMMA OwedStep ==
  ASSUME TypeOK, CallPlace, SentOnce, AnswersAreOwed, Answered \subseteq Answered', [Next]_vars
  PROVE  AnswersAreOwed'
<1> USE DEF startVars, processVars, callVars, readerVars, serverVars
<1>a. /\ answers \in Seq(Line) /\ msg \in Line /\ ch \in [Ids -> Channel]
      /\ pending \subseteq Ids /\ owed \subseteq heard /\ owed \subseteq Ids
  BY DEF TypeOK, SentOnce, Channel
<1>b. /\ \A line \in Elems(answers) : line.kind = "result" => line.id \in Answered
      /\ msg.kind = "result" => msg.id \in Answered
      /\ reader = "send" => msg.id \in Ids
      /\ \A i \in Ids : ch[i] # <<>> =>
           /\ Head(ch[i]).id = i
           /\ Head(ch[i]).kind = "result" => i \in Answered
      /\ pc = "return" => got.id = reqID /\ (got.kind = "result" => reqID \in Answered)
  BY DEF AnswersAreOwed, Succeeded
<1>1. CASE UNCHANGED <<answers, msg, ch, got, reqID>> /\ pc' # "return" /\ reader' # "send"
  BY <1>1, <1>b DEF AnswersAreOwed, Succeeded
<1>2. CASE UNCHANGED <<answers, msg, ch, got, reqID, pc, reader>>
  BY <1>2, <1>b DEF AnswersAreOwed, Succeeded
<1>3. CASE CallBegin \/ CallEnd
  BY <1>3, <1>b DEF CallBegin, CallEnd, AnswersAreOwed, Succeeded
<1>4. CASE Write
  BY <1>4, <1>b DEF Write, AnswersAreOwed, Succeeded
<1>5. CASE Select
  <2>1. /\ UNCHANGED <<answers, msg, reader, reqID>>
        /\ \A i \in Ids : ch'[i] # <<>> => ch'[i] = ch[i]
    BY <1>5, <1>a DEF Select
  <2>2. got'.id = reqID /\ (got'.kind = "result" => reqID \in Answered)
    <3>1. reqID \in Ids
      BY <1>5, Bounds DEF Select, TypeOK, CallPlace
    <3> QED
      BY <1>5, <1>b, <3>1 DEF Select
  <2> QED
    BY <1>b, <2>1, <2>2 DEF AnswersAreOwed, Succeeded
<1>6. CASE ReadLine
  <2> DEFINE line == Head(answers)
  <2>1. answers # <<>> /\ answers' = Tail(answers)
    BY <1>6 DEF ReadLine
  <2>2. line \in Elems(answers) /\ Elems(Tail(answers)) \subseteq Elems(answers)
    BY <1>a, <2>1, TailElems
  <2>3. UNCHANGED <<ch, got, reqID, pc>>
    BY <1>6 DEF ReadLine
  <2>4. /\ reader' = IF line.kind = "long" THEN "done"
                     ELSE IF line.id \in pending THEN "send" ELSE NextLine
        /\ msg' = IF line.kind # "long" /\ line.id \in pending THEN line ELSE NoLine
    BY <1>6 DEF ReadLine
  <2> HIDE DEF line
  <2>5. Elems(answers)' \subseteq Elems(answers)
    BY <2>1, <2>2
  <2>6. /\ msg'.kind = "result" => msg'.id \in Answered
        /\ reader' = "send" => msg'.id \in Ids
    BY <1>a, <1>b, <2>2, <2>4, Lines DEF NextLine
  <2> QED
    BY <1>b, <2>3, <2>5, <2>6 DEF AnswersAreOwed, Succeeded
<1>7. CASE Send
  <2>1. /\ UNCHANGED <<answers, got, reqID, pc>> /\ msg' = NoLine /\ reader' # "send"
        /\ msg.id \in Ids
        /\ \A i \in Ids : ch'[i] = IF i = msg.id THEN <<msg>> ELSE ch[i]
    BY <1>7, <1>a, <1>b DEF Send, NextLine
  <2>2. \A i \in Ids : ch'[i] # <<>> =>
           /\ Head(ch'[i]).id = i
           /\ Head(ch'[i]).kind = "result" => i \in Answered
    BY <1>a, <1>b, <2>1, Channels
  <2> QED
    BY <1>b, <2>1, <2>2, Lines DEF AnswersAreOwed, Succeeded
<1>8. CASE ServerAnswers
  <2>1. PICK i \in owed, kind \in Kinds :
          /\ answers' = Append(answers, [id |-> i, kind |-> kind])
          /\ owed' = owed \ {i}
    BY <1>8 DEF ServerAnswers, Kinds
  <2>2. UNCHANGED <<msg, ch, got, reqID, pc, reader, heard>>
    BY <1>8 DEF ServerAnswers
  <2>3. i \in Answered'
    BY <1>a, <2>1, <2>2 DEF Answered
  <2>4. Elems(answers)' = Elems(answers) \cup {[id |-> i, kind |-> kind]}
    <3>1. [id |-> i, kind |-> kind] \in Line
      BY <1>a, <2>1, Lines, Bounds
    <3>2. Elems(Append(answers, [id |-> i, kind |-> kind]))
            = Elems(answers) \cup {[id |-> i, kind |-> kind]}
      BY <1>a, <3>1, AppendElems
    <3> QED
      BY <2>1, <3>2
  <2> QED
    BY <1>b, <2>2, <2>3, <2>4 DEF AnswersAreOwed, Succeeded
<1>9. CASE ServerSpeaks
  <2>1. PICK line \in Line : answers' = Append(answers, line) /\ line.kind # "result"
    <3>1. \A i \in Ids : [id |-> i, kind |-> "request"] \in Line
      <4>1. "request" \in Kinds /\ \A i \in Ids : i \in 0 .. MaxId
        BY Bounds DEF Kinds
      <4> QED
        BY <4>1, Lines
    <3> QED
      BY <1>9, <3>1, Lines DEF ServerSpeaks
  <2>2. UNCHANGED <<msg, ch, got, reqID, pc, reader>>
    BY <1>9 DEF ServerSpeaks
  <2>3. Elems(answers)' = Elems(answers) \cup {line}
    BY <1>a, <2>1, AppendElems
  <2> QED
    BY <1>b, <2>1, <2>2, <2>3 DEF AnswersAreOwed, Succeeded
<1>10. Next => \/ UNCHANGED <<answers, msg, ch, got, reqID>> /\ pc' # "return" /\ reader' # "send"
               \/ UNCHANGED <<answers, msg, ch, got, reqID, pc, reader>>
               \/ ReadEnd \/ CallBegin \/ CallEnd \/ Write \/ Select \/ ReadLine \/ Send
               \/ ServerAnswers \/ ServerSpeaks
  <2>1. Spawn => /\ UNCHANGED <<answers, msg, ch, got, reqID, pc>> /\ pc' # "return"
                 /\ reader' # "send" \/ UNCHANGED reader
    BY DEF Spawn, CallPlace
  <2>2. UNCHANGED vars \/ Notify \/ CancelTurn \/ StartTimeout \/ StopAll \/ ContextKills
          \/ ServerReads \/ ServerCrashes =>
          UNCHANGED <<answers, msg, ch, got, reqID, pc, reader>>
    BY DEF vars, Notify, CancelTurn, StartTimeout, StopAll, ContextKills, ServerReads, ServerCrashes
  <2> QED
    BY <2>1, <2>2 DEF Next, Caller, Reader, Server, Finished
<1>11. CASE ReadEnd
  BY <1>11, <1>b DEF ReadEnd, AnswersAreOwed, Succeeded
<1> QED
  BY <1>1, <1>2, <1>3, <1>4, <1>5, <1>6, <1>7, <1>8, <1>9, <1>10, <1>11 DEF vars

LEMMA ShakeStep ==
  ASSUME TypeOK, CallPlace, SentOnce, AnswersAreOwed, Handshaken, Grows, [Next]_vars
  PROVE  Handshaken'
<1> USE DEF startVars, processVars, callVars, readerVars, serverVars
<1>a. /\ start \in {"spawn", "initialize", "notify"} => Initialized \notin Sent
      /\ start \in {"notify", "list", "ready"} => Initialize \in Answered
      /\ start \in {"list", "ready"} => Initialized \in Sent \/ server = "dead"
      /\ start = "ready" => ListTools \in Answered
      /\ Initialized \in Sent => Initialize \in Answered
      /\ \A i \in Sent : i >= ListTools => {Initialize, Initialized} \subseteq Sent
      /\ \A i \in Sent : i > ListTools => ListTools \in Answered
  BY DEF Handshaken
<1>b. Answered \subseteq Sent /\ Answered \subseteq Answered'
  BY DEF Answered, Sent, Grows
<1>1. CASE UNCHANGED <<start, Sent>> /\ (server = "dead" => server' = "dead")
  BY <1>1, <1>a, <1>b DEF Handshaken
<1>2. CASE Spawn
  <2>1. UNCHANGED Sent /\ start' \in {"initialize", "failed"} /\ start = "spawn"
    BY <1>2 DEF Spawn, Sent, Elems
  <2> QED
    BY <1>a, <1>b, <2>1 DEF Handshaken
<1>3. CASE Notify
  <2>1. start = "notify" /\ start' = "list" /\ server' = server
    BY <1>3 DEF Notify
  <2>2. CASE Sent' = Sent /\ server = "dead"
    BY <1>a, <1>b, <2>1, <2>2 DEF Handshaken
  <2>3. CASE Sent' = Sent \cup {Initialized}
    BY <1>a, <1>b, <2>1, <2>3, Bounds DEF Handshaken
  <2>4. Sent' = Sent => server = "dead"
    <3>1. CASE requests' = Append(requests, Initialized)
      <4>1. requests' = Append(requests, Initialized) => Initialized \in Elems(requests')
        <5>1. requests \in Seq(0 .. MaxId) /\ Initialized \in 0 .. MaxId
          BY Bounds DEF TypeOK
        <5> DEFINE S == 0 .. MaxId
        <5> requests \in Seq(S) /\ Initialized \in S
          BY <5>1
        <5> HIDE DEF S
        <5> QED
          BY AppendElems
      <4> QED
        BY <3>1, <4>1, <1>a, <2>1 DEF Sent
    <3> QED
      BY <1>3, <3>1 DEF Notify
  <2>5. Write => FALSE
    BY <2>1 DEF Write, CallPlace
  <2> QED
    BY <2>2, <2>3, <2>4, <2>5 DEF Grows
<1>4. CASE Write
  <2>1. UNCHANGED <<start, server>> /\ pc = "write"
    BY <1>4 DEF Write
  <2>2. CASE Sent' = Sent
    BY <1>1, <2>1, <2>2
  <2>3. CASE server = "alive" /\ Sent' = Sent \cup {reqID}
    <3>1. start \in {"initialize", "list", "ready"}
      BY <2>1 DEF CallPlace, TypeOK
    <3>2. CASE start = "initialize"
      <4>1. reqID = 1
        BY <2>1, <3>2 DEF CallPlace
      <4> QED
        BY <1>a, <1>b, <2>1, <2>3, <3>2, <4>1, Bounds DEF Handshaken
    <3>3. CASE start = "list"
      <4>1. reqID = 2
        BY <2>1, <3>3 DEF CallPlace
      <4> QED
        BY <1>a, <1>b, <2>1, <2>3, <3>3, <4>1, Bounds DEF Handshaken
    <3>4. CASE start = "ready"
      <4>1. reqID > 2
        BY <2>1, <3>4 DEF CallPlace
      <4> QED
        BY <1>a, <1>b, <2>1, <2>3, <3>4, <4>1, Bounds DEF Handshaken
    <3> QED
      BY <3>1, <3>2, <3>3, <3>4
  <2>4. ~Notify
    BY <2>1 DEF Notify, CallPlace
  <2> QED
    BY <2>2, <2>3, <2>4 DEF Grows
<1>5. CASE CallEnd
  <2>1. UNCHANGED Sent /\ pc = "return" /\ (server = "dead" => server' = "dead")
    BY <1>5 DEF CallEnd, Sent, Elems, KillLeader
  <2>2. \/ start' = start
        \/ start = "initialize" /\ start' = "notify" /\ Succeeded
        \/ start = "list" /\ start' = "ready" /\ Succeeded
        \/ start' = "failed"
    BY <1>5 DEF CallEnd
  <2>3. CASE start' = start
    BY <1>1, <2>1, <2>3
  <2>4. CASE start = "initialize" /\ start' = "notify" /\ Succeeded
    <3>1. Initialize \in Answered
      BY <2>1, <2>4, Bounds DEF AnswersAreOwed, CallPlace
    <3> QED
      BY <1>a, <1>b, <2>1, <2>4, <3>1 DEF Handshaken
  <2>5. CASE start = "list" /\ start' = "ready" /\ Succeeded
    <3>1. ListTools \in Answered
      BY <2>1, <2>5, Bounds DEF AnswersAreOwed, CallPlace
    <3> QED
      BY <1>a, <1>b, <2>1, <2>5, <3>1 DEF Handshaken
  <2>6. CASE start' = "failed"
    BY <1>a, <1>b, <2>1, <2>6 DEF Handshaken
  <2> QED
    BY <2>2, <2>3, <2>4, <2>5, <2>6
<1>6. CASE ~(Spawn \/ Notify \/ Write \/ CallEnd)
  <2>1. Sent' = Sent
    BY <1>6 DEF Grows
  <2>2. start' = start /\ (server = "dead" => server' = "dead")
    BY <1>6 DEF Next, Caller, Reader, Server, Finished, Select, CallBegin, CancelTurn,
       StartTimeout, StopAll, ContextKills, KillLeader, ReadLine, Send, ReadEnd,
       ServerReads, ServerAnswers, ServerSpeaks, ServerCrashes, vars
  <2> QED
    BY <1>1, <2>1, <2>2
<1> QED
  BY <1>2, <1>3, <1>4, <1>5, <1>6

-----------------------------------------------------------------------------
(* The theorems.                                                           *)

LEMMA InitIInv == Init => IInv
<1> SUFFICES ASSUME Init PROVE IInv
  OBVIOUS
<1>1. Elems(requests) = {} /\ Elems(answers) = {} /\ Once(requests)
  BY DEF Init, Elems, Once
<1>2. Sent = {}
  BY <1>1 DEF Init, Sent
<1>3. SentOnce /\ Handshaken
  BY <1>1, <1>2 DEF Init, SentOnce, Handshaken
<1>4. AnswersAreOwed
  BY <1>1, Lines DEF Init, AnswersAreOwed
<1> QED
  BY <1>3, <1>4, TypeInit DEF Init, IInv, CallPlace

LEMMA Inductive == Spec => []IInv
<1>1. ASSUME IInv, [Next]_vars PROVE IInv'
  <2>1. TypeOK' /\ CallPlace'
    BY <1>1, TypeStep, PlaceStep DEF IInv
  <2>2. SentOnce' /\ Grows
    BY <1>1, SentStep DEF IInv
  <2>3. AnswersAreOwed'
    BY <1>1, <2>2, OwedStep DEF IInv, Grows
  <2>4. Handshaken'
    BY <1>1, <2>2, ShakeStep DEF IInv
  <2> QED
    BY <2>1, <2>2, <2>3, <2>4 DEF IInv
<1> QED
  BY <1>1, InitIInv, PTL DEF Spec

\* A call takes no message of another, and succeeds only with the answer of the
\* server to its own request (stdio_client.go, call and readStdout).
THEOREM AnswersAreOwn == Spec => []AnswerIsOwn
<1>1. IInv => AnswerIsOwn
  BY DEF IInv, AnswersAreOwed, AnswerIsOwn, Answered
<1> QED
  BY <1>1, Inductive, PTL

\* initialize is answered before the initialized notification is sent, the list of
\* tools is asked for after it, and no tool is called before the list has come
\* (manager.go, startServer).
THEOREM HandshakeInOrder == Spec => []HandshakeOrder
<1>1. IInv => HandshakeOrder
  BY DEF IInv, Handshaken, HandshakeOrder, Sent, Elems, Answered
<1> QED
  BY <1>1, Inductive, PTL

\* The variables of a client keep their types.
THEOREM TypeCorrect == Spec => []TypeOK
<1>1. IInv => TypeOK
  BY DEF IInv
<1> QED
  BY <1>1, Inductive, PTL

-----------------------------------------------------------------------------
(* The room in the channels.                                               *)

\* No id is twice among the lines.
IdsOnce(s) == \A i, j \in DOMAIN s : s[i].id \in Ids /\ s[i].id = s[j].id => i = j

\* An answer is on stdout, with the reader or in the channel of its call, and is
\* each of them once.
AnswersOnce ==
  /\ IdsOnce(answers)
  /\ \A line \in Elems(answers) : line.id \in Ids =>
       /\ line.id \in Answered
       /\ ch[line.id] = <<>>
       /\ reader = "send" => msg.id # line.id
  /\ reader = "send" => msg.id \in Ids \cap Answered /\ HasRoom
  /\ \A i \in Ids : ch[i] # <<>> => i \in Answered

LEMMA AppendIds ==
  ASSUME NEW s \in Seq(Line), NEW x \in Line, IdsOnce(s),
         x.id \in Ids => \A line \in Elems(s) : line.id # x.id
  PROVE  IdsOnce(Append(s, x)) /\ Elems(Append(s, x)) = Elems(s) \cup {x}
<1> DEFINE t == Append(s, x)
<1>1. /\ DOMAIN t = 1 .. Len(s) + 1 /\ DOMAIN s = 1 .. Len(s) /\ Len(s) \in Nat
      /\ t[Len(s) + 1] = x /\ \A i \in 1 .. Len(s) : t[i] = s[i]
  OBVIOUS
<1>2. \A i \in 1 .. Len(s) : s[i] \in Elems(s)
  BY <1>1 DEF Elems
<1> HIDE DEF t
<1>3. ASSUME NEW i \in DOMAIN t, NEW j \in DOMAIN t, t[i].id \in Ids, t[i].id = t[j].id
      PROVE  i = j
  <2>1. CASE i \in 1 .. Len(s) /\ j \in 1 .. Len(s)
    BY <1>1, <1>3, <2>1 DEF IdsOnce
  <2>2. CASE i \in 1 .. Len(s) /\ j = Len(s) + 1
    BY <1>1, <1>2, <1>3, <2>2
  <2>3. CASE i = Len(s) + 1 /\ j \in 1 .. Len(s)
    BY <1>1, <1>2, <1>3, <2>3
  <2> QED
    BY <1>1, <2>1, <2>2, <2>3
<1>4. IdsOnce(t)
  BY <1>3 DEF IdsOnce
<1> QED
  BY <1>4, AppendElems DEF t

LEMMA TailIds ==
  ASSUME NEW s \in Seq(Line), s # <<>>, IdsOnce(s)
  PROVE  /\ IdsOnce(Tail(s))
         /\ Elems(Tail(s)) \subseteq Elems(s) /\ Head(s) \in Elems(s)
         /\ \A line \in Elems(Tail(s)) : line.id \in Ids => line.id # Head(s).id
<1> DEFINE t == Tail(s)
<1>1. /\ DOMAIN t = 1 .. Len(s) - 1 /\ DOMAIN s = 1 .. Len(s) /\ Len(s) \in Nat \ {0}
      /\ Head(s) = s[1] /\ \A i \in 1 .. Len(s) - 1 : t[i] = s[i + 1]
  OBVIOUS
<1>2. Elems(t) \subseteq Elems(s) /\ Head(s) \in Elems(s)
  BY TailElems
<1> HIDE DEF t
<1>3. \A i \in DOMAIN t : i + 1 \in DOMAIN s /\ t[i] = s[i + 1] /\ i + 1 # 1
  BY <1>1
<1>4. IdsOnce(t)
  <2> SUFFICES ASSUME NEW i \in DOMAIN t, NEW j \in DOMAIN t, t[i].id \in Ids, t[i].id = t[j].id
               PROVE  i = j
    BY DEF IdsOnce
  <2>1. i + 1 = j + 1
    BY <1>3 DEF IdsOnce
  <2> QED
    BY <1>1, <2>1
<1>5. ASSUME NEW line \in Elems(t), line.id \in Ids
      PROVE  line.id # Head(s).id
  <2>1. PICK i \in DOMAIN t : line = t[i]
    BY DEF Elems
  <2>2. 1 \in DOMAIN s
    BY <1>1
  <2> QED
    BY <1>1, <1>3, <1>5, <2>1, <2>2 DEF IdsOnce
<1> QED
  BY <1>2, <1>4, <1>5 DEF t

LEMMA OnceStep ==
  ASSUME ~ServerRequests, TypeOK, SentOnce, AnswersOnce, Answered \subseteq Answered',
         [Next]_vars
  PROVE  AnswersOnce'
<1> USE DEF startVars, processVars, callVars, readerVars, serverVars
<1>a. /\ answers \in Seq(Line) /\ msg \in Line /\ ch \in [Ids -> Channel]
      /\ pending \subseteq Ids /\ owed \subseteq heard /\ owed \subseteq Ids
  BY DEF TypeOK, SentOnce, Channel
<1>b. /\ IdsOnce(answers)
      /\ \A line \in Elems(answers) : line.id \in Ids =>
           /\ line.id \in Answered
           /\ ch[line.id] = <<>>
           /\ reader = "send" => msg.id # line.id
      /\ reader = "send" => msg.id \in Ids \cap Answered /\ ch[msg.id] = <<>>
      /\ \A i \in Ids : ch[i] # <<>> => i \in Answered
  BY DEF AnswersOnce, HasRoom
<1>1. CASE UNCHANGED <<answers, msg, ch, reader>>
  BY <1>1, <1>b DEF AnswersOnce, HasRoom
<1>2. CASE UNCHANGED <<answers, msg, ch>> /\ reader' # "send"
  BY <1>2, <1>b DEF AnswersOnce, HasRoom
<1>3. CASE Select
  <2>1. UNCHANGED <<answers, msg, reader>>
    BY <1>3 DEF Select
  <2>2. \A i \in Ids : ch'[i] # <<>> => ch[i] # <<>>
    BY <1>3, <1>a DEF Select
  <2> QED
    BY <1>b, <2>1, <2>2 DEF AnswersOnce, HasRoom
<1>4. CASE ReadLine
  <2> DEFINE line == Head(answers)
  <2>1. answers # <<>> /\ answers' = Tail(answers) /\ ch' = ch
    BY <1>4 DEF ReadLine
  <2>2. /\ IdsOnce(Tail(answers))
        /\ Elems(Tail(answers)) \subseteq Elems(answers) /\ line \in Elems(answers)
        /\ \A l \in Elems(Tail(answers)) : l.id \in Ids => l.id # line.id
    BY <1>a, <1>b, <2>1, TailIds
  <2>3. /\ reader' = IF line.kind = "long" THEN "done"
                     ELSE IF line.id \in pending THEN "send" ELSE NextLine
        /\ msg' = IF line.kind # "long" /\ line.id \in pending THEN line ELSE NoLine
    BY <1>4 DEF ReadLine
  <2> HIDE DEF line
  <2>4. reader' = "send" => msg' = line /\ line.id \in Ids
    BY <1>a, <2>3 DEF NextLine
  <2>5. IdsOnce(answers')
    BY <2>1, <2>2
  <2>6. ASSUME NEW l \in Elems(answers'), l.id \in Ids
        PROVE  l.id \in Answered' /\ ch'[l.id] = <<>> /\ (reader' = "send" => msg'.id # l.id)
    BY <1>b, <2>1, <2>2, <2>4, <2>6
  <2>7. reader' = "send" => msg'.id \in Ids \cap Answered' /\ ch'[msg'.id] = <<>>
    BY <1>b, <2>1, <2>2, <2>4
  <2> QED
    BY <1>b, <2>1, <2>5, <2>6, <2>7 DEF AnswersOnce, HasRoom, IdsOnce, Elems
<1>5. CASE Send
  <2>1. /\ answers' = answers /\ reader' # "send" /\ reader = "send"
        /\ \A i \in Ids : ch'[i] = IF i = msg.id THEN <<msg>> ELSE ch[i]
    BY <1>5, <1>a DEF Send, NextLine
  <2> QED
    BY <1>b, <2>1 DEF AnswersOnce
<1>6. CASE ServerAnswers
  <2>1. PICK i \in owed, kind \in Kinds : answers' = Append(answers, [id |-> i, kind |-> kind])
                                          /\ owed' = owed \ {i}
    BY <1>6 DEF ServerAnswers, Kinds
  <2> DEFINE line == [id |-> i, kind |-> kind]
  <2>2. line \in Line /\ line.id = i
    BY <1>a, Lines, Bounds
  <2>3. i \in Answered' /\ i \notin Answered /\ i \in Ids
    BY <1>6, <1>a, <2>1 DEF Answered, ServerAnswers
  <2>4. UNCHANGED <<ch, msg, reader>>
    BY <1>6 DEF ServerAnswers
  <2>5. answers' = Append(answers, line)
    BY <2>1
  <2> HIDE DEF line
  <2>6. \A l \in Elems(answers) : l.id # line.id
    BY <1>b, <2>2, <2>3
  <2>7. IdsOnce(answers') /\ Elems(answers') = Elems(answers) \cup {line}
    BY <1>a, <1>b, <2>2, <2>5, <2>6, AppendIds
  <2>8. ch[i] = <<>> /\ (reader = "send" => msg.id # i)
    BY <1>b, <2>3
  <2>9. ASSUME NEW l \in Elems(answers'), l.id \in Ids
        PROVE  l.id \in Answered' /\ ch'[l.id] = <<>> /\ (reader' = "send" => msg'.id # l.id)
    BY <1>b, <2>2, <2>3, <2>4, <2>7, <2>8, <2>9
  <2> QED
    BY <1>b, <2>4, <2>7, <2>9 DEF AnswersOnce, HasRoom, IdsOnce, Elems
<1>7. CASE ServerSpeaks
  <2>1. answers' = Append(answers, NoLine) /\ UNCHANGED <<ch, msg, reader>>
    BY <1>7 DEF ServerSpeaks
  <2>2. NoLine \in Line /\ NoLine.id \notin Ids
    BY Lines, Bounds
  <2>3. IdsOnce(answers') /\ Elems(answers') = Elems(answers) \cup {NoLine}
    BY <1>a, <1>b, <2>1, <2>2, AppendIds
  <2>4. ASSUME NEW l \in Elems(answers'), l.id \in Ids
        PROVE  l.id \in Answered' /\ ch'[l.id] = <<>> /\ (reader' = "send" => msg'.id # l.id)
    BY <1>b, <2>1, <2>2, <2>3, <2>4
  <2> QED
    BY <1>b, <2>1, <2>3, <2>4 DEF AnswersOnce, HasRoom, IdsOnce, Elems
<1>8. Next => \/ UNCHANGED <<answers, msg, ch, reader>>
              \/ UNCHANGED <<answers, msg, ch>> /\ reader' # "send"
              \/ Select \/ ReadLine \/ Send \/ ServerAnswers \/ ServerSpeaks
  BY DEF Next, Caller, Reader, Server, Finished, CancelTurn, StartTimeout, StopAll, Spawn,
         Notify, Write, CallBegin, CallEnd, ContextKills, ReadEnd, ServerReads,
         ServerCrashes, vars
<1> QED
  BY <1>1, <1>2, <1>3, <1>4, <1>5, <1>6, <1>7, <1>8 DEF vars

\* A server that sends no requests of its own cannot make readStdout wait: the one
\* answer of a call finds the room of its channel, also when the call has given up.
THEOREM ReaderGoesOn == ASSUME ~ServerRequests PROVE Spec => []ReaderNeverBlocks
<1>1. Init => AnswersOnce
  BY DEF Init, AnswersOnce, IdsOnce, Elems
<1>2. ASSUME IInv, AnswersOnce, [Next]_vars PROVE AnswersOnce'
  BY <1>2, SentStep, OnceStep DEF IInv, Grows
<1>3. AnswersOnce => ReaderNeverBlocks
  BY DEF AnswersOnce, ReaderNeverBlocks
<1> QED
  BY <1>1, <1>2, <1>3, Inductive, PTL DEF Spec

-----------------------------------------------------------------------------
(* StartAll.  StartupIsReported speaks of the status when the REPL runs;   *)
(* StarterStatus ties the status to where the server's goroutine is, so    *)
(* that wg.Wait, which waits for the goroutines, waits for the statuses.   *)

\* The status and the error of a server, from where its goroutine is.
StarterStatus ==
  \A n \in Names :
    /\ starter[n] # "none" => n \in Enabled \ todo
    /\ starter[n] = "report" => status[n] = "failed"
    /\ starter[n] = "done" =>
         /\ status[n] \in {"running", "failed"}
         /\ n \in Required /\ status[n] = "failed" => n \in errCh
    /\ n \in errCh =>
         n \in Enabled \cap Required /\ starter[n] = "done" /\ status[n] = "failed"

\* The warning of main.go, and that it comes behind wg.Wait.
WaitedFor ==
  /\ main = "repl" =>
       /\ \A n \in Enabled : starter[n] = "done"
       /\ IF errCh = {} THEN warned = {} ELSE \E n \in errCh : warned = {n}
  /\ main # "repl" => warned = {}

StartupInv == StartupTypeOK /\ StarterStatus /\ WaitedFor

LEMMA InitStartup == StartupInit => StartupInv
BY StartupAssumption DEF StartupInit, StartupInv, StartupTypeOK, StarterStatus, WaitedFor

\* A step of StartAll itself.
LEMMA StartAllStep == ASSUME StartupInv, StartAll PROVE StartupInv'
<1> USE StartupAssumption DEF StartupInv
<1>1. CASE LoopEnds
  BY <1>1 DEF LoopEnds, Looping, StartupTypeOK, StarterStatus, WaitedFor, mapVars, resultVars
<1>2. CASE Repl
  <2>1. /\ \A n \in Enabled : starter[n] = "done"
        /\ main' = "repl"
        /\ UNCHANGED <<todo, starter, mapVars, status, errCh>>
    BY <1>2 DEF Repl
  <2>2. warned = {}
    BY <1>2 DEF Repl, WaitedFor
  <2>3. /\ warned' \subseteq Names
        /\ IF errCh = {} THEN warned' = {} ELSE \E n \in errCh : warned' = {n}
    BY <1>2, <2>2 DEF Repl, StartupTypeOK
  <2> QED
    <3>1. StartupTypeOK'
      BY <2>1, <2>3 DEF StartupTypeOK, mapVars
    <3>2. StarterStatus'
      BY <2>1 DEF StarterStatus
    <3>3. WaitedFor'
      <4>1. CASE errCh = {}
        BY <2>1, <2>3, <4>1 DEF WaitedFor
      <4>2. CASE errCh # {}
        BY <2>1, <2>3, <4>2 DEF WaitedFor
      <4> QED BY <4>1, <4>2
    <3> QED BY <3>1, <3>2, <3>3
<1>3. ASSUME NEW n \in Names, Go(n) PROVE StartupInv'
  BY <1>3 DEF Go, Looping, StartupTypeOK, StarterStatus, WaitedFor, mapVars, resultVars
<1>4. ASSUME NEW n \in Names, Disable(n) PROVE StartupInv'
  BY <1>4 DEF Disable, Looping, BeginStore, StartupTypeOK, StarterStatus, WaitedFor, resultVars
<1>5. ASSUME NEW n \in Names, Disabled(n) PROVE StartupInv'
  BY <1>5 DEF Disabled, EndStore, StartupTypeOK, StarterStatus, WaitedFor, resultVars
<1> QED
  BY <1>1, <1>2, <1>3, <1>4, <1>5 DEF StartAll

\* A step of a server's goroutine.
LEMMA StarterStep == ASSUME StartupInv, NEW n \in Names, Starter(n) PROVE StartupInv'
<1> USE StartupAssumption DEF StartupInv
<1>1. CASE StoreEntry(n)
  BY <1>1 DEF StoreEntry, BeginStore, StartupTypeOK, StarterStatus, WaitedFor, resultVars
<1>2. CASE EntryStored(n)
  BY <1>2 DEF EntryStored, EndStore, StartupTypeOK, StarterStatus, WaitedFor, resultVars
<1>3. CASE ServerStarts(n)
  BY <1>3 DEF ServerStarts, StartupTypeOK, StarterStatus, WaitedFor, mapVars, resultVars
<1>4. CASE Report(n)
  BY <1>4 DEF Report, StartupTypeOK, StarterStatus, WaitedFor, mapVars
<1> QED
  BY <1>1, <1>2, <1>3, <1>4 DEF Starter

LEMMA StartupStep == StartupInv /\ [StartupNext]_startupVars => StartupInv'
<1> SUFFICES ASSUME StartupInv, [StartupNext]_startupVars PROVE StartupInv'
  OBVIOUS
<1>1. CASE Crash
  BY <1>1 DEF Crash, StartupInv, StartupTypeOK, StarterStatus, WaitedFor, mapVars, resultVars
<1>2. CASE UNCHANGED startupVars
  BY <1>2 DEF startupVars, StartupInv, StartupTypeOK, StarterStatus, WaitedFor, mapVars, resultVars
<1> QED
  BY <1>1, <1>2, StartAllStep, StarterStep DEF StartupNext, StartupFinished

\* The variables of StartAll keep their types.
THEOREM StartupTypeCorrect == StartupSpec => []StartupTypeOK
<1>1. StartupInv => StartupTypeOK
  BY DEF StartupInv
<1> QED
  BY <1>1, InitStartup, StartupStep, PTL DEF StartupSpec

\* StartAll and main.go: the REPL finds every enabled server running or failed, and
\* the user was warned of exactly one of the required servers that failed, if any did.
THEOREM StartupReported == StartupSpec => []StartupIsReported
<1>1. ASSUME StartupInv, main = "repl" PROVE errCh = Failed(Required)
  BY <1>1, StartupAssumption
  DEF StartupInv, StartupTypeOK, StarterStatus, WaitedFor, Failed
<1>2. StartupInv => StartupIsReported
  BY <1>1, StartupAssumption
  DEF StartupInv, StartupTypeOK, StarterStatus, WaitedFor, StartupIsReported
<1> QED
  BY <1>2, InitStartup, StartupStep, PTL DEF StartupSpec
=============================================================================
