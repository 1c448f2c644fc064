---------------------------- MODULE Conversation ----------------------------
(***************************************************************************)
(* What the REPL promises about the conversation it sends to the model:    *)
(* the history grows by whole turns.  A turn in progress is kept apart     *)
(* from the history; it is added as one block when it ends, or undone and  *)
(* leaves no trace.                                                        *)
(***************************************************************************)
EXTENDS Naturals, Sequences

CONSTANTS
  SystemMessage,   \* the system prompt, the first message of every request
  Requests,        \* the messages that can open a turn
  Replies          \* the messages that can follow in the same turn

VARIABLES
  history,         \* the messages of the turns that ended
  open             \* the messages of the turn in progress, <<>> without one

vars == <<history, open>>

Init ==
  /\ history = <<SystemMessage>>
  /\ open = <<>>

\* A turn is opened by exactly one request, and only when none is open.
Begin ==
  /\ open = <<>>
  /\ \E m \in Requests : open' = <<m>>
  /\ UNCHANGED history

\* The turn in progress gets further messages.
Extend ==
  /\ open # <<>>
  /\ Len(open') > Len(open)
  /\ SubSeq(open', 1, Len(open)) = open
  /\ \A i \in Len(open) + 1 .. Len(open') : open'[i] \in Replies
  /\ UNCHANGED history

\* The turn ends and becomes part of the history.
Commit ==
  /\ open # <<>>
  /\ history' = history \o open
  /\ open' = <<>>

\* The turn is undone: the history is what it was when the turn opened.
Abort ==
  /\ open # <<>>
  /\ open' = <<>>
  /\ UNCHANGED history

Next == Begin \/ Extend \/ Commit \/ Abort

Spec == Init /\ [][Next]_vars
=============================================================================
