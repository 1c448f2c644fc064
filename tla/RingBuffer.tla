----------------------------- MODULE RingBuffer -----------------------------
(***************************************************************************)
(* The ringBuffer of internal/builtin/session.go: a fixed array of lines   *)
(* in which "" means a free slot, so that a blank line of output is        *)
(* indistinguishable from one.  A line is its number, Blank is "", and     *)
(* every other line counts as one unit of max_bytes.                       *)
(***************************************************************************)
EXTENDS Integers, Sequences, Selection

CONSTANT Cap   \* the number of slots, 10000 in the code

ASSUME CapAssumption == Cap \in Nat \ {0}

Blank == 0

newRingBuffer == [data |-> [i \in 0 .. Cap - 1 |-> Blank], pos |-> 0]

Appended(rb, line) ==
  [data |-> [rb.data EXCEPT ![rb.pos] = line], pos |-> (rb.pos + 1) % Cap]

\* Where the loop of Since stands: currentSeq counts the lines gone by.
At(lines, currentSeq, stop) ==
  [lines |-> lines, currentSeq |-> currentSeq, stop |-> stop]

\* Fault: the line that reaches max_bytes is counted and not returned.
SinceStepDropping(rb, seq, maxBytes, i, st) ==
  LET line == rb.data[(rb.pos + i) % Cap]
  IN IF st.stop \/ line = Blank THEN st
     ELSE IF st.currentSeq < seq THEN At(st.lines, st.currentSeq + 1, FALSE)
     ELSE IF Len(st.lines) + 1 >= maxBytes
       THEN At(st.lines, st.currentSeq + 1, TRUE)
     ELSE At(Append(st.lines, line), st.currentSeq + 1, FALSE)

\* Fault: the cursor names the last line delivered, not the next one.
SinceStepShifted(rb, seq, maxBytes, i, st) ==
  LET line == rb.data[(rb.pos + i) % Cap]
  IN IF st.stop \/ line = Blank THEN st
     ELSE IF st.currentSeq <= seq THEN At(st.lines, st.currentSeq + 1, FALSE)
     ELSE IF Len(st.lines) + 1 >= maxBytes
       THEN At(Append(st.lines, line), st.currentSeq, TRUE)
     ELSE At(Append(st.lines, line), st.currentSeq + 1, FALSE)

\* One iteration of the loop of Since: the slot i places behind pos.
SinceStep(rb, seq, maxBytes, i, st) ==
  LET line == rb.data[(rb.pos + i) % Cap]
  IN IF st.stop \/ line = Blank THEN st
     ELSE IF st.currentSeq < seq THEN At(st.lines, st.currentSeq + 1, FALSE)
     ELSE IF Len(st.lines) + 1 >= maxBytes
       THEN At(Append(st.lines, line), st.currentSeq, TRUE)
     ELSE At(Append(st.lines, line), st.currentSeq + 1, FALSE)

\* Since: the lines from the seq-th one that is still there, and the cursor for
\* the next call.  A line that reaches maxBytes breaks out of the loop before it
\* is counted.
Since(rb, seq, maxBytes) ==
  LET loop[i \in 0 .. Cap] ==
        IF i = 0 THEN At(<<>>, 0, FALSE)
        ELSE SinceStep(rb, seq, maxBytes, i - 1, loop[i - 1])
  IN [lines |-> loop[Cap].lines, seq |-> loop[Cap].currentSeq]

\* The lines in the buffer, oldest first.
Stored(rb) ==
  Selected([i \in 1 .. Cap |-> rb.data[(rb.pos + i - 1) % Cap]], Int \ {Blank})
=============================================================================
