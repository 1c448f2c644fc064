------------------------------ MODULE Selection ------------------------------
(***************************************************************************)
(* The elements of a sequence that are in a set, in their order.  It is    *)
(* SelectSeq with a set for the test and a recursive function for the      *)
(* recursion, so that SelectionProofs can say what it computes.            *)
(***************************************************************************)
EXTENDS Naturals, Sequences

\* Parts(s, keep)[i] is what is selected of the first i elements of s.
Parts(s, keep) ==
  LET part[i \in 0 .. Len(s)] ==
        IF i = 0 THEN <<>>
        ELSE IF s[i] \in keep THEN Append(part[i - 1], s[i])
        ELSE part[i - 1]
  IN part

Selected(s, keep) == Parts(s, keep)[Len(s)]
=============================================================================
