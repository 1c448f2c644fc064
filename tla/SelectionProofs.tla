--------------------------- MODULE SelectionProofs ---------------------------
(***************************************************************************)
(* Induction for the proofs of this project, and what Selected computes.   *)
(*                                                                         *)
(* The induction theorems of the library take a predicate as a parameter,  *)
(* which the provers cannot instantiate.  Here the predicate is the set of *)
(* those it holds for, and induction the least-number principle: WFMin for *)
(* the well-founded order of the natural numbers.                          *)
(***************************************************************************)
EXTENDS Selection, Integers, SequenceTheorems, WellFoundedInduction, TLAPS

-----------------------------------------------------------------------------
\* A set of natural numbers that is not empty has a least element.
LEMMA LeastNumber ==
  ASSUME NEW T, T \subseteq Nat, T # {}
  PROVE  \E x \in T : \A y \in T : x <= y
  <1> DEFINE R == OpToRel(<, Nat)
  <1>1. IsWellFoundedOn(R, Nat)
    BY NatLessThanWellFounded, Zenon
  <1>2. \A y, x \in Nat : y < x => <<y, x>> \in R
    BY DEF OpToRel
  <1> HIDE DEF R
  <1>3. PICK x \in T : \A y \in T : <<y, x>> \notin R
    BY <1>1, WFMin
  <1>4. \A y \in T : ~(y < x)
    BY <1>2, <1>3
  <1> QED BY <1>3, <1>4

\* Induction over the natural numbers, with the set of those it holds for.
LEMMA NaturalsInductively ==
  ASSUME NEW T, 0 \in T, \A n \in Nat : n \in T => n + 1 \in T
  PROVE  Nat \subseteq T
  <1> SUFFICES ASSUME Nat \ T # {}
               PROVE  FALSE
    OBVIOUS
  <1>1. PICK x \in Nat \ T : \A y \in Nat \ T : x <= y
    BY LeastNumber
  <1>2. x - 1 \in Nat /\ x - 1 \notin Nat \ T
    BY <1>1
  <1> QED BY <1>1, <1>2

\* Induction over sequences, the same way.
LEMMA SequencesInductively ==
  ASSUME NEW S, NEW T, <<>> \in T,
         \A s \in Seq(S), e \in S : s \in T => Append(s, e) \in T
  PROVE  Seq(S) \subseteq T
  <1> DEFINE Short == {n \in Nat : \A s \in Seq(S) : Len(s) = n => s \in T}
  <1>1. 0 \in Short
    <2>1. \A s \in Seq(S) : Len(s) = 0 => s = <<>>
      BY EmptySeq
    <2> QED BY <2>1
  <1>2. ASSUME NEW n \in Nat, n \in Short
        PROVE  n + 1 \in Short
    <2> SUFFICES ASSUME NEW s \in Seq(S), Len(s) = n + 1
                 PROVE  s \in T
      OBVIOUS
    <2>1. s # <<>>
      BY <1>2, EmptySeq
    <2>2. PICK front \in Seq(S), e \in S : s = Append(front, e)
      BY <2>1, SequenceEmptyOrAppend
    <2>3. Len(front) \in Nat /\ Len(s) = Len(front) + 1
      BY <2>2, AppendProperties, LenProperties
    <2>4. front \in T
      BY <1>2, <2>3
    <2> QED BY <2>2, <2>4
  <1> HIDE DEF Short
  <1>3. Nat \subseteq Short
    BY <1>1, <1>2, NaturalsInductively
  <1>4. ASSUME NEW s \in Seq(S)
        PROVE  s \in T
    <2>1. Len(s) \in Short
      BY <1>3, LenProperties
    <2> QED BY <2>1 DEF Short
  <1> QED BY <1>4

-----------------------------------------------------------------------------
\* What is appended to the last of two parts is appended to the whole.
LEMMA AppendToLast ==
  ASSUME NEW S, NEW s \in Seq(S), NEW t \in Seq(S), NEW e \in S
  PROVE  s \o Append(t, e) = Append(s \o t, e)
  <1>1. <<e>> \in Seq(S) /\ s \o t \in Seq(S)
    BY ConcatProperties
  <1>2. Append(t, e) = t \o <<e>> /\ Append(s \o t, e) = (s \o t) \o <<e>>
    BY <1>1, AppendIsConcat
  <1> QED BY <1>1, <1>2, ConcatAssociative

\* A sequence is its first element and the others.
LEMMA HeadThenTail ==
  ASSUME NEW S, NEW s \in Seq(S), s # <<>>
  PROVE  /\ Head(s) \in S /\ Tail(s) \in Seq(S)
         /\ s = <<Head(s)>> \o Tail(s)
  <1>1. Head(s) \in S /\ Tail(s) \in Seq(S) /\ <<Head(s)>> \in Seq(S)
    BY HeadTailProperties
  <1>2. /\ Len(Tail(s)) = Len(s) - 1 /\ Len(s) \in Nat
        /\ \A i \in 1 .. Len(Tail(s)) : Tail(s)[i] = s[i + 1]
    BY HeadTailProperties, LenProperties
  <1>3. /\ <<Head(s)>> \o Tail(s) \in Seq(S)
        /\ Len(<<Head(s)>> \o Tail(s)) = Len(s)
        /\ \A i \in 1 .. Len(s) : (<<Head(s)>> \o Tail(s))[i] =
             IF i <= 1 THEN <<Head(s)>>[i] ELSE Tail(s)[i - 1]
    BY <1>1, <1>2, ConcatProperties
  <1>4. \A i \in 1 .. Len(s) : (<<Head(s)>> \o Tail(s))[i] = s[i]
    BY <1>2, <1>3
  <1> QED BY <1>1, <1>3, <1>4, SeqEqual

-----------------------------------------------------------------------------
\* The recursion has a solution, whatever the sequence.
Part(s, keep, part, i) ==
  IF i = 0 THEN <<>>
  ELSE IF s[i] \in keep THEN Append(part[i - 1], s[i])
  ELSE part[i - 1]

LEMMA PartsExist ==
  ASSUME NEW s, NEW keep, NEW n \in Nat
  PROVE  \E part : part = [i \in 0 .. n |-> Part(s, keep, part, i)]
  <1> DEFINE Rec(p, i) == Part(s, keep, p, i)
             T == {m \in Nat : \E part : part = [i \in 0 .. m |-> Rec(part, i)]}
  <1>1. 0 \in T
    <2> DEFINE first == [i \in 0 .. 0 |-> <<>>]
    <2>1. first = [i \in 0 .. 0 |-> Rec(first, i)]
      BY DEF Part
    <2> QED BY <2>1
  <1>2. ASSUME NEW m \in Nat, m \in T
        PROVE  m + 1 \in T
    <2>1. PICK p : p = [i \in 0 .. m |-> Rec(p, i)]
      BY <1>2
    <2> DEFINE q == [i \in 0 .. m + 1 |-> IF i <= m THEN p[i] ELSE Rec(p, i)]
    <2>2. ASSUME NEW i \in 0 .. m + 1
          PROVE  Rec(q, i) = q[i]
      <3>1. i # 0 => q[i - 1] = p[i - 1]
        OBVIOUS
      <3>2. Rec(q, i) = Rec(p, i)
        BY <3>1 DEF Part
      <3>3. i <= m => p[i] = Rec(p, i)
        <4> HIDE DEF Rec
        <4> QED BY <2>1
      <3> HIDE DEF Rec
      <3> QED BY <3>2, <3>3
    <2>3. q = [i \in 0 .. m + 1 |-> Rec(q, i)]
      <3> HIDE DEF Rec
      <3>1. q = [i \in 0 .. m + 1 |-> q[i]]
        OBVIOUS
      <3> HIDE DEF q
      <3> QED BY <2>2, <3>1
    <2> HIDE DEF q, Rec
    <2> QED BY <2>3
  <1> HIDE DEF T
  <1>3. n \in T
    BY <1>1, <1>2, NaturalsInductively
  <1> QED BY <1>3 DEF T

\* So Parts is one.
LEMMA PartsRecursion ==
  ASSUME NEW S, NEW s \in Seq(S), NEW keep
  PROVE  /\ Parts(s, keep) = [i \in 0 .. Len(s) |-> Parts(s, keep)[i]]
         /\ Parts(s, keep)[0] = <<>>
         /\ \A i \in 1 .. Len(s) : Parts(s, keep)[i] =
              IF s[i] \in keep THEN Append(Parts(s, keep)[i - 1], s[i])
              ELSE Parts(s, keep)[i - 1]
  <1> DEFINE p == Parts(s, keep)
  <1>1. Len(s) \in Nat
    BY LenProperties
  <1>2. p = CHOOSE part : part = [i \in 0 .. Len(s) |-> Part(s, keep, part, i)]
    BY Zenon DEF Parts, Part
  <1>3. p = [i \in 0 .. Len(s) |-> Part(s, keep, p, i)]
    BY <1>1, <1>2, PartsExist, Zenon
  <1> HIDE DEF p
  <1>4. \A i \in 0 .. Len(s) : p[i] = Part(s, keep, p, i)
    BY <1>3, Zenon
  <1>5. p = [i \in 0 .. Len(s) |-> p[i]]
    BY <1>3
  <1>6. p[0] = <<>>
    BY <1>1, <1>4 DEF Part
  <1>7. \A i \in 1 .. Len(s) :
          p[i] = IF s[i] \in keep THEN Append(p[i - 1], s[i]) ELSE p[i - 1]
    BY <1>1, <1>4 DEF Part
  <1> QED BY <1>5, <1>6, <1>7, Zenon DEF p

\* Every part is made of elements that are in the set.
LEMMA PartsTyped ==
  ASSUME NEW S, NEW s \in Seq(S), NEW keep
  PROVE  \A i \in 0 .. Len(s) : Parts(s, keep)[i] \in Seq(S \cap keep)
  <1> DEFINE p == Parts(s, keep)
             T == {i \in Nat : i <= Len(s) => p[i] \in Seq(S \cap keep)}
  <1>1. Len(s) \in Nat /\ \A i \in 1 .. Len(s) : s[i] \in S
    BY LenProperties, ElementOfSeq
  <1>2. /\ p[0] = <<>>
        /\ \A i \in 1 .. Len(s) :
             p[i] = IF s[i] \in keep THEN Append(p[i - 1], s[i]) ELSE p[i - 1]
    BY PartsRecursion
  <1> HIDE DEF p
  <1>3. 0 \in T
    BY <1>2, EmptySeq
  <1>4. ASSUME NEW i \in Nat, i \in T
        PROVE  i + 1 \in T
    <2> SUFFICES ASSUME i + 1 <= Len(s)
                 PROVE  p[i + 1] \in Seq(S \cap keep)
      OBVIOUS
    <2>1. i + 1 \in 1 .. Len(s) /\ i + 1 - 1 = i /\ p[i] \in Seq(S \cap keep)
      BY <1>1, <1>4
    <2>2. p[i + 1] = IF s[i + 1] \in keep THEN Append(p[i], s[i + 1]) ELSE p[i]
      BY <1>2, <2>1
    <2>3. CASE s[i + 1] \in keep
      <3>1. s[i + 1] \in S \cap keep
        BY <1>1, <2>1, <2>3
      <3> QED BY <2>1, <2>2, <2>3, <3>1, AppendProperties
    <2> QED BY <2>1, <2>2, <2>3
  <1> HIDE DEF T
  <1>5. Nat \subseteq T
    BY <1>3, <1>4, NaturalsInductively
  <1>6. \A i \in 0 .. Len(s) : p[i] \in Seq(S \cap keep)
    BY <1>1, <1>5 DEF T
  <1> QED BY <1>6 DEF p

\* What follows in a sequence does not change what its beginning makes.
LEMMA PartsOfLonger ==
  ASSUME NEW S, NEW s \in Seq(S), NEW t \in Seq(S), NEW keep, Len(s) <= Len(t),
         \A i \in 1 .. Len(s) : s[i] = t[i]
  PROVE  \A i \in 0 .. Len(s) : Parts(t, keep)[i] = Parts(s, keep)[i]
  <1> DEFINE T == {i \in Nat : i <= Len(s) => Parts(t, keep)[i] = Parts(s, keep)[i]}
  <1>1. Len(s) \in Nat /\ Len(t) \in Nat
    BY LenProperties
  <1>2. 0 \in T
    BY PartsRecursion
  <1>3. ASSUME NEW i \in Nat, i \in T
        PROVE  i + 1 \in T
    <2> SUFFICES ASSUME i + 1 <= Len(s)
                 PROVE  Parts(t, keep)[i + 1] = Parts(s, keep)[i + 1]
      OBVIOUS
    <2>1. i + 1 \in 1 .. Len(s) /\ i + 1 \in 1 .. Len(t) /\ i + 1 - 1 = i
      BY <1>1
    <2>2. Parts(t, keep)[i] = Parts(s, keep)[i]
      BY <1>1, <1>3
    <2>3. Parts(s, keep)[i + 1] = IF s[i + 1] \in keep
            THEN Append(Parts(s, keep)[i], s[i + 1]) ELSE Parts(s, keep)[i]
      BY <2>1, PartsRecursion
    <2>4. Parts(t, keep)[i + 1] = IF t[i + 1] \in keep
            THEN Append(Parts(t, keep)[i], t[i + 1]) ELSE Parts(t, keep)[i]
      BY <2>1, PartsRecursion
    <2> QED BY <2>1, <2>2, <2>3, <2>4
  <1> HIDE DEF T
  <1>4. Nat \subseteq T
    BY <1>2, <1>3, NaturalsInductively
  <1> QED BY <1>1, <1>4 DEF T

-----------------------------------------------------------------------------
\* Nothing is selected from nothing.
LEMMA SelectedEmpty ==
  ASSUME NEW keep
  PROVE  Selected(<<>>, keep) = <<>>
  <1>1. <<>> \in Seq({}) /\ Len(<<>>) = 0
    BY EmptySeq
  <1>2. Parts(<<>>, keep)[0] = <<>>
    BY <1>1, PartsRecursion
  <1> QED BY <1>1, <1>2 DEF Selected

\* An element more is selected behind the others, or is not.
LEMMA SelectedAppend ==
  ASSUME NEW S, NEW s \in Seq(S), NEW e \in S, NEW keep
  PROVE  Selected(Append(s, e), keep) =
           IF e \in keep THEN Append(Selected(s, keep), e) ELSE Selected(s, keep)
  <1> DEFINE t == Append(s, e)
  <1>1. /\ t \in Seq(S) /\ Len(t) = Len(s) + 1 /\ t[Len(s) + 1] = e
        /\ \A i \in 1 .. Len(s) : t[i] = s[i]
    BY AppendProperties
  <1>2. Len(s) \in Nat
    BY LenProperties
  <1> HIDE DEF t
  <1>3. Parts(t, keep)[Len(s)] = Parts(s, keep)[Len(s)]
    BY <1>1, <1>2, PartsOfLonger
  <1>4. Len(t) \in 1 .. Len(t) /\ Len(t) - 1 = Len(s)
    BY <1>1, <1>2
  <1>5. Parts(t, keep)[Len(t)] =
          IF t[Len(t)] \in keep THEN Append(Parts(t, keep)[Len(t) - 1], t[Len(t)])
          ELSE Parts(t, keep)[Len(t) - 1]
    BY <1>1, <1>4, PartsRecursion
  <1> QED BY <1>1, <1>3, <1>4, <1>5 DEF Selected, t

\* Of one element, it is selected or nothing is.
LEMMA SelectedOne ==
  ASSUME NEW S, NEW e \in S, NEW keep
  PROVE  Selected(<<e>>, keep) = IF e \in keep THEN <<e>> ELSE <<>>
  <1>1. <<>> \in Seq(S) /\ Append(<<>>, e) = <<e>>
    BY EmptySeq
  <1>2. Selected(Append(<<>>, e), keep) =
          IF e \in keep THEN Append(Selected(<<>>, keep), e) ELSE Selected(<<>>, keep)
    BY <1>1, SelectedAppend
  <1>3. Selected(<<>>, keep) = <<>>
    BY SelectedEmpty
  <1> QED BY <1>1, <1>2, <1>3, Zenon

\* What is selected are elements of the sequence that are in the set.
LEMMA SelectedType ==
  ASSUME NEW S, NEW s \in Seq(S), NEW keep
  PROVE  Selected(s, keep) \in Seq(S \cap keep)
  <1> DEFINE T == {t \in Seq(S) : Selected(t, keep) \in Seq(S \cap keep)}
  <1>1. <<>> \in T
    BY SelectedEmpty, EmptySeq
  <1>2. ASSUME NEW t \in Seq(S), NEW e \in S, t \in T
        PROVE  Append(t, e) \in T
    <2>1. Append(t, e) \in Seq(S)
      BY AppendProperties
    <2>2. Selected(t, keep) \in Seq(S \cap keep)
      BY <1>2
    <2>3. CASE e \in keep
      <3>1. Append(Selected(t, keep), e) \in Seq(S \cap keep)
        BY <2>2, <2>3, AppendProperties
      <3>2. Selected(Append(t, e), keep) = Append(Selected(t, keep), e)
        BY <2>3, SelectedAppend
      <3> QED BY <2>1, <3>1, <3>2
    <2>4. CASE e \notin keep
      BY <2>1, <2>2, <2>4, SelectedAppend
    <2> QED BY <2>3, <2>4
  <1> HIDE DEF T
  <1>3. Seq(S) \subseteq T
    BY <1>1, <1>2, SequencesInductively
  <1> QED BY <1>3 DEF T

\* What is selected of two parts is what is selected of each.
LEMMA SelectedConcat ==
  ASSUME NEW S, NEW s \in Seq(S), NEW t \in Seq(S), NEW keep
  PROVE  Selected(s \o t, keep) = Selected(s, keep) \o Selected(t, keep)
  <1> DEFINE T == {u \in Seq(S) :
                     Selected(s \o u, keep) = Selected(s, keep) \o Selected(u, keep)}
  <1>1. ASSUME NEW u \in Seq(S)
        PROVE  Selected(u, keep) \in Seq(S)
    <2>1. Selected(u, keep) \in Seq(S \cap keep) /\ S \cap keep \subseteq S
      BY SelectedType
    <2> QED BY <2>1, SeqMonotonic
  <1>2. <<>> \in T
    <2>1. <<>> \in Seq(S) /\ s \o <<>> = s
      BY ConcatEmptySeq
    <2>2. Selected(s, keep) \o <<>> = Selected(s, keep)
      BY <1>1, ConcatEmptySeq
    <2> QED BY <2>1, <2>2, SelectedEmpty
  <1>3. ASSUME NEW u \in Seq(S), NEW e \in S, u \in T
        PROVE  Append(u, e) \in T
    <2>1. /\ Append(u, e) \in Seq(S) /\ <<e>> \in Seq(S)
          /\ Append(u, e) = u \o <<e>>
          /\ s \o u \in Seq(S)
          /\ Append(s \o u, e) = (s \o u) \o <<e>>
      BY AppendProperties, AppendIsConcat, ConcatProperties
    <2>2. s \o Append(u, e) = Append(s \o u, e)
      BY <2>1, ConcatAssociative
    <2>3. Selected(s \o u, keep) = Selected(s, keep) \o Selected(u, keep)
      BY <1>3
    <2>4. Selected(s \o Append(u, e), keep) =
            IF e \in keep THEN Append(Selected(s \o u, keep), e)
            ELSE Selected(s \o u, keep)
      BY <2>1, <2>2, SelectedAppend
    <2>5. Selected(Append(u, e), keep) =
            IF e \in keep THEN Append(Selected(u, keep), e) ELSE Selected(u, keep)
      BY SelectedAppend
    <2>6. Append(Selected(s, keep) \o Selected(u, keep), e) =
            Selected(s, keep) \o Append(Selected(u, keep), e)
      <3> DEFINE a == Selected(s, keep)  b == Selected(u, keep)
      <3>1. a \in Seq(S) /\ b \in Seq(S) /\ <<e>> \in Seq(S) /\ a \o b \in Seq(S)
        BY <1>1, <2>1, ConcatProperties
      <3> HIDE DEF a, b
      <3>2. Append(a \o b, e) = (a \o b) \o <<e>> /\ Append(b, e) = b \o <<e>>
        BY <3>1, AppendIsConcat
      <3>3. (a \o b) \o <<e>> = a \o (b \o <<e>>)
        BY <3>1, ConcatAssociative
      <3> QED BY <3>2, <3>3 DEF a, b
    <2> QED BY <2>1, <2>3, <2>4, <2>5, <2>6
  <1> HIDE DEF T
  <1>4. Seq(S) \subseteq T
    BY <1>2, <1>3, SequencesInductively
  <1> QED BY <1>4 DEF T

\* Nothing is selected of a sequence without an element of the set.
LEMMA SelectedNone ==
  ASSUME NEW S, NEW s \in Seq(S), NEW keep, \A i \in 1 .. Len(s) : s[i] \notin keep
  PROVE  Selected(s, keep) = <<>>
  <1> DEFINE T == {t \in Seq(S) : (\A i \in 1 .. Len(t) : t[i] \notin keep)
                                    => Selected(t, keep) = <<>>}
  <1>1. <<>> \in T
    BY SelectedEmpty
  <1>2. ASSUME NEW t \in Seq(S), NEW e \in S, t \in T
        PROVE  Append(t, e) \in T
    <2>1. Append(t, e) \in Seq(S)
      BY AppendProperties
    <2> SUFFICES ASSUME \A i \in 1 .. Len(Append(t, e)) : Append(t, e)[i] \notin keep
                 PROVE  Selected(Append(t, e), keep) = <<>>
      BY <2>1
    <2>2. /\ Len(t) \in Nat /\ Len(Append(t, e)) = Len(t) + 1
          /\ Append(t, e)[Len(t) + 1] = e
          /\ \A i \in 1 .. Len(t) : Append(t, e)[i] = t[i]
      BY AppendProperties, LenProperties
    <2>3. e \notin keep
      BY <2>2
    <2>4. \A i \in 1 .. Len(t) : t[i] \notin keep
      BY <2>2
    <2> QED BY <1>2, <2>3, <2>4, SelectedAppend
  <1> HIDE DEF T
  <1>3. Seq(S) \subseteq T
    BY <1>1, <1>2, SequencesInductively
  <1> QED BY <1>3 DEF T
=============================================================================
