----------------------------- MODULE ToolProofs -----------------------------
(***************************************************************************)
(* Proofs about the tools: FsTools, for any disks and any calls, and       *)
(* TargetExec, for any set of commands and whatever their processes do.    *)
(*                                                                         *)
(* FsInv says that the disk stays a tree (renaming a directory is what is  *)
(* hard to see), that the files a handler has open are there, that it has  *)
(* touched nothing (Fresh) until the steps behind which it fails only if   *)
(* the disk does, but for copyDir and os.MkdirAll (MayLeave), and nothing  *)
(* that is not its own to change (Contained).  CutInv follows a walk of    *)
(* fsList: what it has yet to visit and what it has found part what there  *)
(* is to find.                                                             *)
(*                                                                         *)
(* TellInv says at every place of a handler how far it has come with what  *)
(* its tool promises, when nobody else writes and the disk does not fail:  *)
(* the disk is as it was until the first change; a file opened with        *)
(* O_TRUNC is there and empty, and all else is as it was; a walk of        *)
(* fsSearch and fsGlob parts what there is to find (Split); and copyDir    *)
(* has copied what its activations are past (Done), which are one below    *)
(* the other and leave out exactly what lies below an entry they have yet  *)
(* to come to (Stacked, Ahead).  GlobSays follows when the walk ends.      *)
(*                                                                         *)
(* What TargetExec's tools look at is what cmd.Run has left, so CmdInv     *)
(* follows a command's leader to the Wait that has reaped it and then      *)
(* waited for the goroutine that reads the output.                         *)
(***************************************************************************)
EXTENDS FsTools, TargetExec, SelectionProofs, FiniteSetTheorems

-----------------------------------------------------------------------------
(* Paths.                                                                  *)

LEMMA PathLen ==
  ASSUME NEW p \in Paths
  PROVE  Len(p) \in Nat /\ (p = <<>> <=> Len(p) = 0) /\ \A i \in 1 .. Len(p) : p[i] \in STRING
BY EmptySeq, LenProperties, ElementOfSeq DEF Paths

LEMMA PathsEqual ==
  ASSUME NEW p \in Paths, NEW q \in Paths, Len(p) = Len(q), \A i \in 1 .. Len(p) : p[i] = q[i]
  PROVE  p = q
BY SeqEqual DEF Paths

LEMMA PathStart ==
  ASSUME NEW p \in Paths, NEW n \in 0 .. Len(p)
  PROVE  /\ SubSeq(p, 1, n) \in Paths /\ Len(SubSeq(p, 1, n)) = n
         /\ \A i \in 1 .. n : SubSeq(p, 1, n)[i] = p[i]
  <1>1. Len(p) \in Nat /\ \A i \in 1 .. n : p[i] \in STRING
    BY PathLen
  <1>2. /\ SubSeq(p, 1, n) \in Seq(STRING)
        /\ Len(SubSeq(p, 1, n)) = IF 1 <= n THEN n - 1 + 1 ELSE 0
        /\ \A i \in 1 .. n - 1 + 1 : SubSeq(p, 1, n)[i] = p[1 + i - 1]
    BY <1>1, SubSeqProperties
  <1> QED BY <1>1, <1>2 DEF Paths

LEMMA PrefixIs ==
  ASSUME NEW p \in Paths, NEW q \in Paths
  PROVE  IsPrefix(p, q) <=> Len(p) <= Len(q) /\ \A i \in 1 .. Len(p) : p[i] = q[i]
  <1>1. Len(p) \in Nat /\ Len(q) \in Nat
    BY PathLen
  <1>2. CASE Len(p) <= Len(q)
    <2>1. Len(p) \in 0 .. Len(p) /\ Len(p) \in 0 .. Len(q)
      BY <1>1, <1>2
    <2>2. /\ SubSeq(p, 1, Len(p)) \in Paths /\ Len(SubSeq(p, 1, Len(p))) = Len(p)
          /\ \A i \in 1 .. Len(p) : SubSeq(p, 1, Len(p))[i] = p[i]
          /\ SubSeq(q, 1, Len(p)) \in Paths /\ Len(SubSeq(q, 1, Len(p))) = Len(p)
          /\ \A i \in 1 .. Len(p) : SubSeq(q, 1, Len(p))[i] = q[i]
      BY <2>1, PathStart
    <2>3. SubSeq(p, 1, Len(p)) = SubSeq(q, 1, Len(p)) <=> \A i \in 1 .. Len(p) : p[i] = q[i]
      BY <2>2, PathsEqual
    <2> QED BY <1>2, <2>3 DEF IsPrefix
  <1> QED BY <1>2 DEF IsPrefix

LEMMA FrontIs ==
  ASSUME NEW q \in Paths
  PROVE  /\ Front(q) \in Paths
         /\ q # <<>> => /\ Len(Front(q)) = Len(q) - 1
                        /\ \A i \in 1 .. Len(q) - 1 : Front(q)[i] = q[i]
         /\ q = <<>> => Front(q) = <<>>
  <1>1. Len(q) \in Nat /\ (q = <<>> <=> Len(q) = 0)
    BY PathLen
  <1>2. CASE q # <<>>
    <2>1. Len(q) - 1 \in 0 .. Len(q)
      BY <1>1, <1>2
    <2> QED BY <1>2, <2>1, PathStart DEF Front
  <1>3. CASE q = <<>>
    <2>1. Front(q) = <<>>
      BY <1>1, <1>3, SubSeqEmpty DEF Front
    <2> QED BY <1>3, <2>1
  <1> QED BY <1>2, <1>3

LEMMA PrefixItself ==
  ASSUME NEW p \in Paths
  PROVE  IsPrefix(p, p)
BY PrefixIs, PathLen

LEMMA FrontAbove ==
  ASSUME NEW p \in Paths
  PROVE  Front(p) \in Paths /\ IsPrefix(Front(p), p)
<1>1. CASE p = <<>>
  BY <1>1, FrontIs, PrefixItself
<1>2. CASE p # <<>>
  <2>1. /\ Front(p) \in Paths /\ Len(Front(p)) = Len(p) - 1 /\ Len(p) \in Nat
        /\ \A i \in 1 .. Len(p) - 1 : Front(p)[i] = p[i]
    BY <1>2, FrontIs, PathLen
  <2> QED
    BY <2>1, PrefixIs
<1> QED
  BY <1>1, <1>2

LEMMA PrefixTransitive ==
  ASSUME NEW p \in Paths, NEW q \in Paths, NEW r \in Paths, IsPrefix(p, q), IsPrefix(q, r)
  PROVE  IsPrefix(p, r)
BY PrefixIs, PathLen

LEMMA PrefixBothWays ==
  ASSUME NEW p \in Paths, NEW q \in Paths, IsPrefix(p, q), Len(q) <= Len(p)
  PROVE  p = q
BY PrefixIs, PathLen, PathsEqual

\* Two ancestors of a path are one above the other.
LEMMA PrefixesOfOne ==
  ASSUME NEW p \in Paths, NEW q \in Paths, NEW r \in Paths, IsPrefix(p, r), IsPrefix(q, r),
         Len(p) <= Len(q)
  PROVE  IsPrefix(p, q)
BY PrefixIs, PathLen

LEMMA PrefixOfFront ==
  ASSUME NEW p \in Paths, NEW q \in Paths, q # <<>>
  PROVE  /\ IsPrefix(p, q) <=> p = q \/ IsPrefix(p, Front(q))
         /\ ~IsPrefix(q, Front(q)) /\ IsPrefix(Front(q), q)
  <1>1. /\ Front(q) \in Paths /\ Len(Front(q)) = Len(q) - 1
        /\ \A i \in 1 .. Len(q) - 1 : Front(q)[i] = q[i]
    BY FrontIs
  <1>2. Len(p) \in Nat /\ Len(q) \in Nat \ {0}
    BY PathLen
  <1>3. /\ IsPrefix(p, q) <=> Len(p) <= Len(q) /\ \A i \in 1 .. Len(p) : p[i] = q[i]
        /\ IsPrefix(p, Front(q)) <=>
             Len(p) <= Len(q) - 1 /\ \A i \in 1 .. Len(p) : p[i] = Front(q)[i]
        /\ IsPrefix(Front(q), q) <=>
             Len(q) - 1 <= Len(q) /\ \A i \in 1 .. Len(q) - 1 : Front(q)[i] = q[i]
        /\ IsPrefix(q, Front(q)) => Len(q) <= Len(q) - 1
    BY <1>1, PrefixIs
  <1>4. IsPrefix(p, q) /\ Len(p) = Len(q) => p = q
    BY <1>2, PrefixBothWays
  <1>5. IsPrefix(p, q) /\ Len(p) # Len(q) => IsPrefix(p, Front(q))
    BY <1>1, <1>2, <1>3
  <1>6. IsPrefix(p, Front(q)) => IsPrefix(p, q)
    BY <1>1, <1>2, <1>3
  <1>7. p = q => IsPrefix(p, q)
    BY PrefixItself
  <1> QED BY <1>1, <1>2, <1>3, <1>4, <1>5, <1>6, <1>7

\* The empty path is above all.
LEMMA PrefixEmpty ==
  ASSUME NEW p \in Paths
  PROVE  <<>> \in Paths /\ IsPrefix(<<>>, p) /\ (IsPrefix(p, <<>>) => p = <<>>)
  <1>1. <<>> \in Paths /\ Len(<<>>) = 0
    BY EmptySeq DEF Paths
  <1> QED BY <1>1, PrefixIs, PathLen

-----------------------------------------------------------------------------
(* Disks.                                                                  *)

LEMMA PutIs ==
  ASSUME NEW d, NEW p, NEW node
  PROVE  DOMAIN Put(d, p, node) = DOMAIN d \cup {p}
BY DEF Put

LEMMA MkdirAllIs ==
  ASSUME NEW d, NEW p
  PROVE  /\ DOMAIN MkdirAll(d, p) = DOMAIN d \cup Ancestors(p)
         /\ \A q \in DOMAIN d : MkdirAll(d, p)[q] = d[q]
         /\ \A q \in Ancestors(p) \ DOMAIN d : MkdirAll(d, p)[q] = Dir
BY DEF MkdirAll, Exists

\* d can have a file at p.
HasPlace(d, p) == IsFile(d, p) \/ (~Exists(d, p) /\ IsDir(d, Front(p)))

\* What was there still is, and of the same kind.
Grows(d, e) ==
  \A q \in DOMAIN d : (IsFile(d, q) => IsFile(e, q)) /\ (IsDir(d, q) => IsDir(e, q))

LEMMA TreePrefix ==
  ASSUME NEW d, IsTree(d), NEW q \in DOMAIN d, NEW r \in Paths, IsPrefix(r, q), r # q
  PROVE  IsDir(d, r)
  <1> DEFINE T == {n \in Nat : \A p \in DOMAIN d :
                                 Len(p) = n /\ IsPrefix(r, p) /\ r # p => IsDir(d, r)}
  <1>1. 0 \in T
    BY PathLen, PrefixEmpty DEF IsTree
  <1>2. ASSUME NEW n \in Nat, n \in T
        PROVE  n + 1 \in T
    <2> SUFFICES ASSUME NEW p \in DOMAIN d, Len(p) = n + 1, IsPrefix(r, p), r # p
                 PROVE  IsDir(d, r)
      OBVIOUS
    <2>1. p \in Paths /\ p # <<>>
      BY PathLen DEF IsTree
    <2>2. IsDir(d, Front(p)) /\ Front(p) \in DOMAIN d /\ Len(Front(p)) = n
      BY <2>1, FrontIs DEF IsTree, IsDir, Exists
    <2>3. IsPrefix(r, Front(p))
      BY <2>1, PrefixOfFront
    <2> QED BY <1>2, <2>2, <2>3
  <1>3. Nat \subseteq T
    BY <1>1, <1>2, NaturalsInductively
  <1>4. Len(q) \in Nat
    BY PathLen DEF IsTree
  <1> QED BY <1>3, <1>4

LEMMA PutTree ==
  ASSUME NEW d, IsTree(d), NEW p \in Paths, NEW node \in FileNodes, HasPlace(d, p)
  PROVE  /\ IsTree(Put(d, p, node)) /\ Grows(d, Put(d, p, node)) /\ IsFile(Put(d, p, node), p)
         /\ \A q : IsDir(Put(d, p, node), q) => IsDir(d, q)
  <1> DEFINE e == Put(d, p, node)
  <1>1. /\ DOMAIN e = DOMAIN d \cup {p} /\ e[p] = node
        /\ \A q \in DOMAIN d \ {p} : e[q] = d[q]
    BY DEF Put
  <1> HIDE DEF e
  <1>2. node # Dir
    BY FsAssumption
  <1>3. IsFile(e, p) /\ \A q : IsDir(d, q) <=> IsDir(e, q)
    BY <1>1, <1>2 DEF HasPlace, IsFile, IsDir, Exists
  <1>4. Grows(d, e)
    BY <1>1, <1>3 DEF Grows, IsFile, IsDir, Exists
  <1>5. IsFiniteSet(DOMAIN e)
    BY <1>1, FS_AddElement DEF IsTree
  <1>6. p = <<>> \/ IsDir(d, Front(p))
    BY DEF HasPlace, IsTree, IsFile, Exists
  <1>7. IsTree(e)
    BY <1>1, <1>3, <1>5, <1>6 DEF IsTree
  <1> QED BY <1>3, <1>4, <1>7 DEF e

LEMMA AncestorsTyped ==
  ASSUME NEW p \in Paths
  PROVE  /\ IsFiniteSet(Ancestors(p))
         /\ \A q \in Ancestors(p) : /\ q \in Paths /\ IsPrefix(q, p)
                                    /\ q = <<>> \/ Front(q) \in Ancestors(p)
  <1>1. Len(p) \in Nat
    BY PathLen
  <1>2. IsFiniteSet(Ancestors(p))
    <2> DEFINE f == [i \in 0 .. Len(p) |-> SubSeq(p, 1, i)]
    <2>1. f \in Surjection(0 .. Len(p), Ancestors(p))
      BY DEF Surjection, Ancestors
    <2> QED BY <1>1, <2>1, FS_Interval, FS_Surjection
  <1>3. ASSUME NEW i \in 0 .. Len(p)
        PROVE  LET q == SubSeq(p, 1, i)
               IN  /\ q \in Paths /\ IsPrefix(q, p)
                   /\ q = <<>> \/ Front(q) \in Ancestors(p)
    <2> DEFINE q == SubSeq(p, 1, i)
    <2>1. q \in Paths /\ Len(q) = i /\ \A j \in 1 .. i : q[j] = p[j]
      BY PathStart
    <2> HIDE DEF q
    <2>2. IsPrefix(q, p)
      BY <1>1, <2>1, PrefixIs
    <2>3. CASE i # 0
      <3>1. i - 1 \in 0 .. Len(p) /\ q # <<>>
        BY <1>1, <2>1, <2>3, PathLen
      <3> DEFINE r == SubSeq(p, 1, i - 1)
      <3>2. r \in Paths /\ Len(r) = i - 1 /\ \A j \in 1 .. i - 1 : r[j] = p[j]
        BY <3>1, PathStart
      <3>3. r \in Ancestors(p)
        BY <3>1 DEF Ancestors
      <3> HIDE DEF r
      <3>4. /\ Front(q) \in Paths /\ Len(Front(q)) = i - 1
            /\ \A j \in 1 .. i - 1 : Front(q)[j] = q[j]
        BY <2>1, <3>1, FrontIs
      <3>5. \A j \in 1 .. i - 1 : Front(q)[j] = r[j]
        BY <1>1, <2>1, <3>2, <3>4
      <3>6. Front(q) = r
        BY <3>2, <3>4, <3>5, PathsEqual
      <3> QED BY <2>1, <2>2, <3>3, <3>6 DEF q
    <2>4. CASE i = 0
      BY <2>1, <2>2, <2>4, PathLen DEF q
    <2> QED BY <2>3, <2>4
  <1> QED BY <1>2, <1>3 DEF Ancestors

LEMMA MkdirTree ==
  ASSUME NEW d, IsTree(d), NEW p \in Paths, \A q \in Ancestors(p) : ~IsFile(d, q)
  PROVE  /\ IsTree(MkdirAll(d, p)) /\ Grows(d, MkdirAll(d, p))
         /\ Same(d, MkdirAll(d, p), DOMAIN d)
  <1> DEFINE e == MkdirAll(d, p)
  <1>1. /\ DOMAIN e = DOMAIN d \cup Ancestors(p)
        /\ \A q \in DOMAIN d : e[q] = d[q]
        /\ \A q \in Ancestors(p) \ DOMAIN d : e[q] = Dir
    BY MkdirAllIs
  <1> HIDE DEF e
  <1>2. \A q \in Ancestors(p) : IsDir(e, q)
    BY <1>1 DEF IsDir, IsFile, Exists
  <1>3. Grows(d, e) /\ Same(d, e, DOMAIN d)
    BY <1>1 DEF Grows, Same, IsDir, IsFile, Exists
  <1>4. IsFiniteSet(DOMAIN e)
    BY <1>1, AncestorsTyped, FS_Union DEF IsTree
  <1>5. \A q \in DOMAIN d : q = <<>> \/ IsDir(e, Front(q))
    BY <1>3 DEF IsTree, Grows, IsDir, Exists
  <1>6. IsTree(e)
    BY <1>1, <1>2, <1>4, <1>5, AncestorsTyped DEF IsTree, IsDir
  <1> QED BY <1>3, <1>6 DEF e

\* The directories above one that can be made are there.
LEMMA CanMkdirAncestors ==
  ASSUME NEW d, IsTree(d), NEW p \in Paths, CanMkdir(d, p), NEW q \in Ancestors(p)
  PROVE  ~IsFile(d, q)
  <1>1. ~Exists(d, p) /\ IsDir(d, Front(p)) /\ Front(p) \in DOMAIN d
    BY DEF CanMkdir, IsDir, Exists
  <1>2. p # <<>>
    BY <1>1, FrontIs DEF Exists
  <1>3. q \in Paths /\ (q = p \/ IsPrefix(q, Front(p)))
    BY <1>2, AncestorsTyped, PrefixOfFront
  <1>4. q # p /\ q # Front(p) => IsDir(d, q)
    BY <1>1, <1>3, TreePrefix
  <1> QED BY <1>1, <1>4 DEF IsFile, IsDir, Exists

\* A tree without some of its paths and what is below them.
LEMMA PartsTree ==
  ASSUME NEW d, IsTree(d), NEW gone \in SUBSET DOMAIN d,
         \A p \in gone : Under(d, p) \subseteq gone
  PROVE  IsTree(Restrict(d, DOMAIN d \ gone))
  <1> DEFINE e == Restrict(d, DOMAIN d \ gone)
  <1>1. DOMAIN e = DOMAIN d \ gone /\ \A q \in DOMAIN e : e[q] = d[q]
    BY DEF Restrict
  <1> HIDE DEF e
  <1>2. IsFiniteSet(DOMAIN e)
    BY <1>1, FS_Subset DEF IsTree
  <1>3. ASSUME NEW q \in DOMAIN e, q # <<>>
        PROVE  IsDir(e, Front(q))
    <2>1. q \in Paths /\ q \in DOMAIN d /\ IsDir(d, Front(q)) /\ IsPrefix(Front(q), q)
      BY <1>1, <1>3, FrontAbove DEF IsTree
    <2>2. Front(q) \notin gone
      BY <1>1, <2>1 DEF Under
    <2> QED BY <1>1, <2>1, <2>2 DEF IsDir, Exists
  <1>4. IsTree(e)
    BY <1>1, <1>2, <1>3 DEF IsTree
  <1> QED BY <1>4 DEF e

LEMMA RemoveTree ==
  ASSUME NEW d, IsTree(d), NEW p \in Paths
  PROVE  IsTree(Restrict(d, DOMAIN d \ Under(d, p)))
  <1>1. \A q \in Under(d, p) : Under(d, q) \subseteq Under(d, p)
    BY PrefixTransitive DEF Under, IsTree
  <1> QED BY <1>1, PartsTree DEF Under

LEMMA TargetIs ==
  ASSUME NEW p \in Paths, NEW src \in Paths, NEW dst \in Paths, IsPrefix(src, p)
  PROVE  /\ Target(p, src, dst) \in Paths
         /\ Len(Target(p, src, dst)) = Len(dst) + Len(p) - Len(src)
         /\ \A i \in 1 .. Len(dst) + Len(p) - Len(src) : Target(p, src, dst)[i] =
              IF i <= Len(dst) THEN dst[i] ELSE p[i - Len(dst) + Len(src)]
         /\ IsPrefix(dst, Target(p, src, dst))
  <1> DEFINE rest == SubSeq(p, Len(src) + 1, Len(p))
             t == Target(p, src, dst)
  <1>1. Len(p) \in Nat /\ Len(src) \in Nat /\ Len(dst) \in Nat /\ Len(src) <= Len(p)
    BY PathLen, PrefixIs
  <1>2. \A i \in Len(src) + 1 .. Len(p) : p[i] \in STRING
    BY <1>1, PathLen
  <1>3. /\ rest \in Paths
        /\ Len(rest) = IF Len(src) + 1 <= Len(p) THEN Len(p) - (Len(src) + 1) + 1 ELSE 0
        /\ \A i \in 1 .. Len(p) - (Len(src) + 1) + 1 : rest[i] = p[Len(src) + 1 + i - 1]
    BY <1>1, <1>2, SubSeqProperties DEF Paths
  <1> HIDE DEF rest
  <1>4. Len(rest) = Len(p) - Len(src) /\ \A i \in 1 .. Len(rest) : rest[i] = p[Len(src) + i]
    BY <1>1, <1>3
  <1>5. /\ dst \o rest \in Paths /\ Len(dst \o rest) = Len(dst) + Len(rest)
        /\ \A i \in 1 .. Len(dst) + Len(rest) : (dst \o rest)[i] =
             IF i <= Len(dst) THEN dst[i] ELSE rest[i - Len(dst)]
    BY <1>3, ConcatProperties DEF Paths
  <1>6. t = dst \o rest
    BY DEF Target, rest
  <1> HIDE DEF t
  <1>7. /\ t \in Paths /\ Len(t) = Len(dst) + Len(p) - Len(src)
        /\ \A i \in 1 .. Len(dst) + Len(p) - Len(src) : t[i] =
             IF i <= Len(dst) THEN dst[i] ELSE p[i - Len(dst) + Len(src)]
    BY <1>1, <1>4, <1>5, <1>6
  <1>8. IsPrefix(dst, t)
    <2>1. Len(dst) <= Len(t) /\ \A i \in 1 .. Len(dst) : dst[i] = t[i]
      BY <1>1, <1>7
    <2> QED BY <1>7, <2>1, PrefixIs
  <1> QED BY <1>7, <1>8 DEF t

LEMMA TargetBack ==
  ASSUME NEW p \in Paths, NEW src \in Paths, NEW dst \in Paths, IsPrefix(src, p)
  PROVE  Target(Target(p, src, dst), dst, src) = p
  <1> DEFINE t == Target(p, src, dst)
             u == Target(t, dst, src)
  <1>1. Len(p) \in Nat /\ Len(src) \in Nat /\ Len(dst) \in Nat /\ Len(src) <= Len(p)
        /\ \A i \in 1 .. Len(src) : src[i] = p[i]
    BY PathLen, PrefixIs
  <1>2. /\ t \in Paths /\ Len(t) = Len(dst) + Len(p) - Len(src) /\ IsPrefix(dst, t)
        /\ \A i \in 1 .. Len(dst) + Len(p) - Len(src) : t[i] =
             IF i <= Len(dst) THEN dst[i] ELSE p[i - Len(dst) + Len(src)]
    BY TargetIs
  <1> HIDE DEF t
  <1>3. /\ u \in Paths /\ Len(u) = Len(src) + Len(t) - Len(dst)
        /\ \A i \in 1 .. Len(src) + Len(t) - Len(dst) : u[i] =
             IF i <= Len(src) THEN src[i] ELSE t[i - Len(src) + Len(dst)]
    BY <1>2, TargetIs
  <1> HIDE DEF u
  <1>4. Len(u) = Len(p)
    BY <1>1, <1>2, <1>3
  <1>5. ASSUME NEW i \in 1 .. Len(p)
        PROVE  u[i] = p[i]
    <2>1. CASE i <= Len(src)
      BY <1>1, <1>3, <1>4, <2>1
    <2>2. CASE i > Len(src)
      <3> DEFINE k == i - Len(src) + Len(dst)
      <3>1. u[i] = t[k]
        BY <1>1, <1>3, <1>4, <2>2
      <3>2. /\ k \in 1 .. Len(dst) + Len(p) - Len(src) /\ ~(k <= Len(dst))
            /\ k - Len(dst) + Len(src) = i
        BY <1>1, <2>2
      <3> HIDE DEF k
      <3>3. t[k] = p[k - Len(dst) + Len(src)]
        BY <1>2, <3>2
      <3> QED BY <3>1, <3>2, <3>3
    <2> QED BY <1>1, <2>1, <2>2
  <1>6. u = p
    BY <1>3, <1>4, <1>5, PathsEqual
  <1> QED BY <1>6 DEF t, u

LEMMA TargetFront ==
  ASSUME NEW p \in Paths, NEW src \in Paths, NEW dst \in Paths, IsPrefix(src, p), p # src
  PROVE  /\ p # <<>> /\ IsPrefix(src, Front(p)) /\ Target(p, src, dst) # <<>>
         /\ Front(Target(p, src, dst)) = Target(Front(p), src, dst)
  <1> DEFINE t == Target(p, src, dst)
             u == Target(Front(p), src, dst)
  <1>1. p # <<>> /\ IsPrefix(src, Front(p))
    BY PrefixEmpty, PrefixOfFront
  <1>2. /\ Front(p) \in Paths /\ Len(Front(p)) = Len(p) - 1
        /\ \A i \in 1 .. Len(p) - 1 : Front(p)[i] = p[i]
    BY <1>1, FrontIs
  <1>3. Len(p) \in Nat /\ Len(src) \in Nat /\ Len(dst) \in Nat /\ Len(src) <= Len(p) - 1
    BY <1>1, <1>2, PathLen, PrefixIs
  <1>4. /\ t \in Paths /\ Len(t) = Len(dst) + Len(p) - Len(src)
        /\ \A i \in 1 .. Len(dst) + Len(p) - Len(src) : t[i] =
             IF i <= Len(dst) THEN dst[i] ELSE p[i - Len(dst) + Len(src)]
    BY TargetIs
  <1>5. /\ u \in Paths /\ Len(u) = Len(dst) + Len(Front(p)) - Len(src)
        /\ \A i \in 1 .. Len(dst) + Len(Front(p)) - Len(src) : u[i] =
             IF i <= Len(dst) THEN dst[i] ELSE Front(p)[i - Len(dst) + Len(src)]
    BY <1>1, <1>2, TargetIs
  <1> HIDE DEF t, u
  <1>6. t # <<>>
    BY <1>3, <1>4, PathLen
  <1>7. /\ Front(t) \in Paths /\ Len(Front(t)) = Len(t) - 1
        /\ \A i \in 1 .. Len(t) - 1 : Front(t)[i] = t[i]
    BY <1>4, <1>6, FrontIs
  <1>8. Len(Front(t)) = Len(u)
    BY <1>2, <1>3, <1>4, <1>5, <1>7
  <1>9. ASSUME NEW i \in 1 .. Len(u)
        PROVE  Front(t)[i] = u[i]
    <2>1. i \in 1 .. Len(t) - 1 /\ i \in 1 .. Len(dst) + Len(p) - Len(src)
          /\ i \in 1 .. Len(dst) + Len(Front(p)) - Len(src)
      BY <1>2, <1>3, <1>4, <1>5, <1>8
    <2>2. CASE i <= Len(dst)
      BY <1>4, <1>5, <1>7, <2>1, <2>2
    <2>3. CASE i > Len(dst)
      <3>1. i - Len(dst) + Len(src) \in 1 .. Len(p) - 1
        BY <1>2, <1>3, <2>1, <2>3
      <3> QED BY <1>2, <1>3, <1>4, <1>5, <1>7, <2>1, <2>3, <3>1
    <2> QED BY <1>3, <2>2, <2>3
  <1>10. Front(t) = u
    BY <1>5, <1>7, <1>8, <1>9, PathsEqual
  <1> QED BY <1>1, <1>6, <1>10 DEF t, u

LEMMA TargetOfItself ==
  ASSUME NEW src \in Paths, NEW dst \in Paths
  PROVE  Target(src, src, dst) = dst
  <1>1. Len(src) \in Nat /\ SubSeq(src, Len(src) + 1, Len(src)) = <<>>
    BY PathLen, SubSeqEmpty
  <1> QED BY <1>1, ConcatEmptySeq DEF Target, Paths

LEMMA RenameTree ==
  ASSUME NEW d, IsTree(d), NEW src \in Paths, NEW dst \in Paths, CanRename(d, src, dst)
  PROVE  IsTree(Renamed(d, src, dst)) /\ dst \in DOMAIN Renamed(d, src, dst)
  <1> DEFINE To(p) == Target(p, src, dst)
             moved == {To(p) : p \in Under(d, src)}
             kept == DOMAIN d \ Under(d, src)
             e == Renamed(d, src, dst)
  <1>1. /\ Exists(d, src) /\ ~IsDir(d, dst) /\ IsDir(d, Front(dst)) /\ Front(dst) \in DOMAIN d
        /\ ~(IsPrefix(src, dst) /\ src # dst) /\ (Exists(d, dst) => IsFile(d, src))
    BY DEF CanRename, IsStrictPrefix, IsDir, Exists
  <1>2. dst # <<>>
    BY <1>1, FrontIs
  <1>3. \A p \in DOMAIN d : p \in Paths
    BY DEF IsTree
  <1>4. ASSUME NEW p \in Under(d, src)
        PROVE  /\ p \in DOMAIN d /\ p \in Paths /\ IsPrefix(src, p)
               /\ To(p) \in Paths /\ IsPrefix(dst, To(p)) /\ Target(To(p), dst, src) = p
    <2>1. p \in DOMAIN d /\ p \in Paths /\ IsPrefix(src, p)
      BY <1>3 DEF Under
    <2> QED BY <2>1, TargetIs, TargetBack
  <1>5. /\ DOMAIN e = kept \cup moved
        /\ \A q \in moved : e[q] = d[Target(q, dst, src)]
        /\ \A q \in kept : q \notin moved => e[q] = d[q]
    BY DEF Renamed
  <1> HIDE DEF e
  <1>6. \A p \in Under(d, src) : To(p) \in moved /\ e[To(p)] = d[p]
    BY <1>4, <1>5
  <1>7. IsFiniteSet(DOMAIN e)
    <2> DEFINE f == [p \in Under(d, src) |-> To(p)]
    <2>1. f \in Surjection(Under(d, src), moved)
      BY DEF Surjection
    <2>2. IsFiniteSet(Under(d, src)) /\ IsFiniteSet(kept)
      BY FS_Subset DEF IsTree, Under
    <2>3. IsFiniteSet(moved)
      BY <2>1, <2>2, FS_Surjection
    <2> QED BY <1>5, <2>2, <2>3, FS_Union
  <1> HIDE DEF moved
  \* Nothing is under dst, but dst itself when it is a file that is replaced.
  <1>8. ASSUME NEW q \in DOMAIN d, IsPrefix(dst, q)
        PROVE  q = dst
    BY <1>1, <1>3, <1>8, TreePrefix
  <1>9. /\ IsDir(e, Front(dst)) /\ dst \in moved
    <2>1. Front(dst) \in Paths
      BY FrontIs
    <2>2. ~IsPrefix(src, Front(dst))
      <3> SUFFICES ASSUME IsPrefix(src, Front(dst))
                   PROVE  FALSE
        OBVIOUS
      <3>1. IsPrefix(src, dst)
        BY <1>2, PrefixOfFront
      <3>2. src = dst
        BY <1>1, <3>1
      <3> QED BY <1>2, <3>2, PrefixOfFront
    <2>3. Front(dst) \in kept
      BY <1>1, <2>2 DEF Under
    <2>4. Front(dst) \notin moved
      BY <1>2, <1>4, <2>1, PrefixOfFront DEF moved
    <2>5. src \in Under(d, src) /\ To(src) = dst
      BY <1>1, PrefixItself, TargetOfItself DEF Under, Exists
    <2> QED BY <1>1, <1>5, <1>6, <2>3, <2>4, <2>5 DEF IsDir, Exists
  <1>10. ASSUME NEW q \in kept
         PROVE  q = <<>> \/ IsDir(e, Front(q))
    <2> SUFFICES ASSUME q # <<>>
                 PROVE  IsDir(e, Front(q))
      OBVIOUS
    <2>1. /\ q \in DOMAIN d /\ q \in Paths /\ ~IsPrefix(src, q)
          /\ IsDir(d, Front(q)) /\ Front(q) \in DOMAIN d
      BY <1>3 DEF IsTree, Under, IsDir, Exists
    <2>2. Front(q) \in kept
      BY <2>1, PrefixOfFront DEF Under
    <2>3. Front(q) \notin moved
      <3> SUFFICES ASSUME Front(q) \in moved
                   PROVE  FALSE
        OBVIOUS
      <3>1. IsPrefix(dst, Front(q))
        BY <1>4 DEF moved
      <3>2. Front(q) = dst
        BY <1>8, <2>1, <3>1
      <3> QED BY <1>1, <2>1, <3>2
    <2> QED BY <1>5, <2>1, <2>2, <2>3 DEF IsDir, Exists
  <1>11. ASSUME NEW p \in Under(d, src)
         PROVE  To(p) = <<>> \/ IsDir(e, Front(To(p)))
    <2>1. CASE p = src
      BY <1>9, <2>1, TargetOfItself
    <2>2. CASE p # src
      <3>1. p # <<>> /\ IsPrefix(src, Front(p)) /\ Front(To(p)) = To(Front(p))
        BY <1>4, <2>2, TargetFront
      <3>2. IsDir(d, Front(p)) /\ Front(p) \in Under(d, src)
        BY <1>4, <3>1 DEF IsTree, IsDir, Exists, Under
      <3> QED BY <1>5, <1>6, <3>1, <3>2 DEF IsDir, Exists
    <2> QED BY <2>1, <2>2
  <1>12. ASSUME NEW q \in DOMAIN e
         PROVE  /\ q \in Paths /\ (q = <<>> \/ IsDir(e, Front(q)))
                /\ e[q] = Dir \/ e[q] \in FileNodes
    <2>1. CASE q \in moved
      <3>1. PICK p \in Under(d, src) : q = To(p)
        BY <2>1 DEF moved
      <3> QED BY <1>4, <1>6, <1>11, <3>1 DEF IsTree
    <2>2. CASE q \notin moved
      BY <1>3, <1>5, <1>10, <2>2 DEF IsTree
    <2> QED BY <2>1, <2>2
  <1>13. IsTree(e)
    BY <1>7, <1>12 DEF IsTree
  <1> QED BY <1>5, <1>9, <1>13 DEF e

-----------------------------------------------------------------------------
(* What holds of a call.                                                   *)

LEMMA CallTyped ==
  ASSUME call \in Calls
  PROVE  /\ call.tool \in {"read", "write", "append", "patch", "remove", "mkdir", "stat",
                           "list", "search", "glob"} => call.path \in Paths
         /\ call.tool \in {"copy", "move"} =>
              call.src \in Paths /\ call.dst \in Paths /\ call.overwrite \in BOOLEAN
         /\ call.tool = "read" => call.offset \in Int
         /\ call.tool \in {"write", "append"} => call.text \in Seq(Words)
         /\ call.tool = "write" => call.dirs \in BOOLEAN
         /\ call.tool = "patch" => call.new \in Words
         /\ call.tool \in {"read", "list", "search", "glob"} => call.max \in Nat \ {0}
         /\ call.tool = "list" => call.all \in BOOLEAN /\ call.recursive \in BOOLEAN
BY FsAssumption, SMTT(60) DEF Arguments, Bounds

\* The parts of a handler before its first change of the disk.
Early == {"begin", "check", "open", "walk"}

Fresh ==
  /\ pc \in Early =>
       /\ touched = {} /\ DOMAIN disk \subseteq DOMAIN before \cup foreign
       /\ \A p : IsDir(disk, p) => IsDir(before, p)
  /\ pc = "truncate" => touched = {} \/ MayLeave

\* The files a handler has open are there.
Holds ==
  /\ pc = "data" /\ call.tool \in {"read", "write", "append", "patch"} => IsFile(disk, call.path)
  /\ pc \in {"check", "open", "truncate", "data"} /\ call.tool = "copy" => IsFile(disk, call.src)
  /\ pc = "data" /\ call.tool = "copy" => IsFile(disk, call.dst)
  /\ pc = "stream" => /\ IsFile(disk, srcPath(frame.entry)) /\ IsFile(disk, dstPath(frame.entry))
                      /\ dstPath(frame.entry) \in touched

\* copyDir writes below the destination of the call only.
Frames == [src : Paths, dst : {p \in Paths : IsPrefix(call.dst, p)}, todo : SUBSET Paths, entry : Paths, copied : Nat]

Nesting ==
  /\ frames \in Seq(Frames)
  /\ pc \in {"enter", "readdir", "entries", "stream"} <=> frames # <<>>
  /\ frames # <<>> => call.tool = "copy" /\ IsDir(before, call.src)

Shapes ==
  /\ walk = [pending |-> walk.pending, found |-> walk.found, cut |-> walk.cut]
  /\ pc # "idle" => call \in Calls

\* A call has changed only what it may, and has removed nothing before it returns.
Contained ==
  pc # "idle" => /\ DOMAIN before \subseteq DOMAIN disk
                 /\ \A p : IsDir(before, p) => IsDir(disk, p)
                 /\ \A p \in touched : MayTouch(p)

FsInv == TypeOK /\ Shapes /\ Fresh /\ Holds /\ Nesting /\ Contained /\ FailedCallsContained

LEMMA FsInitInv == Init => FsInv
<1> SUFFICES ASSUME Init PROVE FsInv
  OBVIOUS
<1>1. IsTree(disk) /\ <<>> \in Seq(Words) /\ <<>> \in Seq(Frames)
  BY FsAssumption, EmptySeq DEF Init
<1>2. TypeOK
  BY <1>1, FsAssumption DEF Init, TypeOK, NoWalk, NoResult
<1>3. Shapes /\ Fresh /\ Holds /\ Nesting /\ Contained /\ FailedCallsContained
  BY <1>1 DEF Init, Shapes, Fresh, Early, Holds, Nesting, Contained, FailedCallsContained, NoWalk,
       NoResult
<1> QED
  BY <1>2, <1>3 DEF FsInv

\* What every step of a handler leaves alone.
LEMMA StepLeaves ==
  ASSUME FsInv, Step \/ Failure
  PROVE  /\ UNCHANGED <<call, before, foreign, calls, outside>>
         /\ failures' \in 0..MaxFailures /\ (failures' = failures \/ failures' # 0)
         /\ Failure => failures' # 0
BY FsAssumption DEF FsInv, TypeOK, Step, Failure, boundVars

LEMMA StepIs ==
  ASSUME FsInv, Step \/ Failure
  PROVE  /\ UNCHANGED <<call, before, foreign>> /\ (failures' = failures \/ failures' # 0)
         /\ Failure => failures' # 0
         /\ \A p : MayTouch(p)' <=> MayTouch(p)
         /\ Frames' = Frames /\ (MayLeave' <=> MayLeave)
<1>1. /\ UNCHANGED <<call, before, foreign>> /\ (failures' = failures \/ failures' # 0)
      /\ Failure => failures' # 0
  BY StepLeaves
<1>2. MayLeave' <=> MayLeave
  BY <1>1 DEF MayLeave, IsDir, Exists
<1>3. \A p : MayTouch(p)' <=> MayTouch(p)
  BY <1>1, <1>2 DEF MayTouch, IsDir, Exists, destination
<1>4. Frames' = Frames
  BY <1>1 DEF Frames
<1> QED
  BY <1>1, <1>2, <1>3, <1>4

\* A handler returns.
LEMMA ReturnStep ==
  ASSUME FsInv, Step \/ Failure, NEW r, Return(r), r.status \in {"error", "ok"},
         IsTree(disk'), touched' \subseteq DOMAIN disk' \cup DOMAIN before \cup foreign,
         r.status = "error" =>
           /\ MayLeave \/ touched' = {} \/ Failure
           /\ \A p \in touched' : MayTouch(p)
  PROVE  FsInv'
<1>1. <<>> \in Seq(Words) /\ <<>> \in Seq(Frames)
  BY EmptySeq
<1>2. TypeOK'
  BY <1>1, StepLeaves DEF FsInv, TypeOK, Return, NoWalk
<1>3. Shapes' /\ Fresh' /\ Holds' /\ Nesting' /\ Contained'
  BY <1>1, StepIs DEF Shapes, Fresh, Early, Holds, Nesting, Contained, Return, NoWalk
<1>4. FailedCallsContained'
  BY StepIs DEF FailedCallsContained, Return
<1> QED
  BY <1>2, <1>3, <1>4 DEF FsInv

LEMMA RefuseStep ==
  ASSUME FsInv, Step \/ Failure, Refuse, pc # "idle", touched = {} \/ MayLeave \/ Failure
  PROVE  FsInv'
BY ReturnStep DEF Refuse, Error, FsInv, TypeOK, Contained

\* A handler goes on and has changed nothing yet.
LEMMA GoStep ==
  ASSUME FsInv, Step \/ Failure, NEW place, GoTo(place), UNCHANGED frames, pc \in Early,
         place \in {"check", "open", "truncate", "data", "walk"},
         buf' \in Seq(Words), size' \in Nat,
         walk'.pending \subseteq DOMAIN disk, walk'.cut \in BOOLEAN,
         walk' = [pending |-> walk'.pending, found |-> walk'.found, cut |-> walk'.cut],
         Holds'
  PROVE  FsInv'
<1>1. TypeOK'
  BY StepLeaves DEF FsInv, TypeOK, GoTo
<1>2. Shapes' /\ Fresh' /\ Nesting' /\ Contained'
  BY StepIs DEF FsInv, Shapes, Fresh, Nesting, Contained, GoTo, Early, IsDir, Exists
<1>3. FailedCallsContained'
  BY DEF FailedCallsContained, GoTo
<1> QED
  BY <1>1, <1>2, <1>3 DEF FsInv

LEMMA ReadStep ==
  ASSUME FsInv, ReadOpen \/ ReadData
  PROVE  FsInv'
<1>1. CASE ReadOpen
  <2>1. At("read", "begin") /\ Step
    BY <1>1 DEF ReadOpen
  <2>2. CASE ~Opens(disk, call.path) /\ Refuse
    BY <2>1, <2>2, RefuseStep DEF FsInv, Fresh, Early, At
  <2>3. CASE /\ Opens(disk, call.path)
             /\ size' = Len(disk[call.path].text)
             /\ UNCHANGED <<buf, frames, walk>>
             /\ GoTo("data")
    <3>1. IsFile(disk, call.path) /\ disk[call.path].text \in Seq(Words)
      BY <2>3 DEF Opens, IsFile, Exists, FsInv, TypeOK, IsTree, FileNodes
    <3>2. size' \in Nat
      BY <2>3, <3>1, LenProperties
    <3>3. Holds'
      BY <2>1, <2>3, <3>1 DEF Holds, GoTo, Step, At, IsFile, Exists
    <3> QED
      BY <2>1, <2>3, <3>2, <3>3, GoStep DEF FsInv, TypeOK, Shapes, At, Early
  <2> QED
    BY <1>1, <2>2, <2>3 DEF ReadOpen
<1>2. CASE ReadData
  <2>1. At("read", "data") /\ Step /\ UNCHANGED <<disk, touched>>
    BY <1>2 DEF ReadData
  <2>2. PICK r : Return(r) /\ r.status = "ok"
    BY <1>2 DEF ReadData
  <2> QED
    BY <2>1, <2>2, ReturnStep DEF FsInv, TypeOK
<1> QED
  BY <1>1, <1>2

-----------------------------------------------------------------------------
(* Writes.                                                                 *)

LEMMA NewFile == File(<<>>) \in FileNodes
BY EmptySeq DEF File, FileNodes

LEMMA OverwriteTyped ==
  ASSUME NEW text \in Seq(Words), NEW new \in Seq(Words)
  PROVE  File(Overwrite(text, new)) \in FileNodes
<1>1. Len(text) \in Nat /\ Len(new) \in Nat
  BY LenProperties
<1>2. \A i \in Len(new) + 1 .. Len(text) : text[i] \in Words
  BY <1>1, ElementOfSeq
<1>3. SubSeq(text, Len(new) + 1, Len(text)) \in Seq(Words)
  BY <1>1, <1>2, SubSeqProperties
<1> QED
  BY <1>3, ConcatProperties DEF Overwrite, File, FileNodes

LEMMA TextTyped ==
  ASSUME FsInv, NEW p, IsFile(disk, p)
  PROVE  disk[p].text \in Seq(Words) /\ HasPlace(disk, p)
BY DEF FsInv, TypeOK, IsTree, IsFile, Exists, FileNodes, HasPlace

LEMMA WriteDisk ==
  ASSUME FsInv, NEW p \in Paths, NEW node \in FileNodes, HasPlace(disk, p), Write(p, node)
  PROVE  /\ IsTree(disk') /\ Grows(disk, disk') /\ IsFile(disk', p)
         /\ DOMAIN disk' = DOMAIN disk \cup {p} /\ touched' = touched \cup {p}
         /\ touched' \subseteq DOMAIN disk' \cup DOMAIN before \cup foreign
<1>1. disk' = Put(disk, p, node) /\ touched' = touched \cup {p}
  BY DEF Write
<1>2. IsTree(disk') /\ Grows(disk, disk') /\ IsFile(disk', p)
  BY <1>1, PutTree DEF FsInv, TypeOK
<1>3. DOMAIN disk' = DOMAIN disk \cup {p}
  BY <1>1 DEF Put
<1> QED
  BY <1>1, <1>2, <1>3 DEF FsInv, TypeOK

\* The last write of a handler.
LEMMA LastWrite ==
  ASSUME FsInv, Step, NEW p \in Paths, NEW text \in Seq(Words), NEW new \in Seq(Words),
         IsFile(disk, p), Write(p, File(Overwrite(text, new))), Return(Ok)
  PROVE  FsInv'
BY TextTyped, OverwriteTyped, WriteDisk, ReturnStep DEF Ok

\* A handler has created or truncated its file, and goes on to write it.
LEMMA TruncateWrite ==
  ASSUME FsInv, Step, NEW p \in Paths, HasPlace(disk, p), Write(p, File(<<>>)),
         pc' = "data", UNCHANGED <<localVars, result>>,
         \/ call.tool \in {"write", "append", "patch"} /\ p = call.path
         \/ call.tool = "copy" /\ p = call.dst /\ IsFile(disk, call.src),
         pc \in {"begin", "truncate"}
  PROVE  FsInv'
<1>1. /\ IsTree(disk') /\ Grows(disk, disk') /\ IsFile(disk', p)
      /\ DOMAIN disk' = DOMAIN disk \cup {p}
      /\ touched' \subseteq DOMAIN disk' \cup DOMAIN before \cup foreign
  BY NewFile, WriteDisk
<1>2. TypeOK'
  BY <1>1 DEF FsInv, TypeOK, Step, localVars, boundVars
<1>3. Holds'
  BY <1>1 DEF Holds, Grows, IsFile, Exists, Step
<1>4. Shapes' /\ Fresh' /\ Nesting' /\ FailedCallsContained'
  BY StepIs DEF FsInv, Shapes, Fresh, Early, Nesting, FailedCallsContained, localVars
<1>5. Contained'
  <2>1. MayTouch(p) /\ touched' = touched \cup {p}
    BY DEF MayTouch, Write, FsInv, Contained, IsFile, IsDir
  <2> QED
    BY <1>1, <2>1, StepIs DEF FsInv, Contained, Grows, IsDir, Exists
<1> QED
  BY <1>2, <1>3, <1>4, <1>5 DEF FsInv

LEMMA CreatesPlace ==
  ASSUME FsInv, NEW p, Creates(disk, p)
  PROVE  HasPlace(disk, p)
BY DEF Creates, Writable, HasPlace

LEMMA TruncateStep ==
  ASSUME FsInv, Step, NEW p \in Paths, Truncate(p), pc = "truncate",
         \/ call.tool \in {"write", "patch"} /\ p = call.path
         \/ call.tool = "copy" /\ p = call.dst
  PROVE  FsInv'
<1>1. CASE ~Creates(disk, p) /\ Refuse
  BY <1>1, RefuseStep DEF FsInv, Fresh
<1>2. CASE /\ Creates(disk, p) /\ Write(p, File(<<>>)) /\ pc' = "data"
           /\ UNCHANGED <<localVars, result>>
  BY <1>2, CreatesPlace, TruncateWrite DEF FsInv, Holds
<1> QED
  BY <1>1, <1>2 DEF Truncate

\* os.MkdirAll.
LEMMA MkdirDisk ==
  ASSUME FsInv, NEW p \in Paths, \A q \in Ancestors(p) : ~IsFile(disk, q),
         disk' = MkdirAll(disk, p), touched' = touched \cup (DOMAIN disk' \ DOMAIN disk)
  PROVE  /\ IsTree(disk') /\ Grows(disk, disk') /\ Same(disk, disk', DOMAIN disk)
         /\ DOMAIN disk \subseteq DOMAIN disk'
         /\ touched' \subseteq DOMAIN disk' \cup DOMAIN before \cup foreign
<1>1. IsTree(disk') /\ Grows(disk, disk') /\ Same(disk, disk', DOMAIN disk)
  BY MkdirTree DEF FsInv, TypeOK
<1>2. DOMAIN disk \subseteq DOMAIN disk'
  BY MkdirAllIs
<1> QED
  BY <1>1, <1>2 DEF FsInv, TypeOK

\* The ancestors of a path are its prefixes.
LEMMA AncestorsAre ==
  ASSUME NEW p \in Paths, NEW q \in Paths
  PROVE  q \in Ancestors(p) <=> IsPrefix(q, p)
<1>1. ASSUME IsPrefix(q, p)
      PROVE  q \in Ancestors(p)
  <2>1. Len(q) \in 0 .. Len(p) /\ \A i \in 1 .. Len(q) : q[i] = p[i]
    BY <1>1, PrefixIs, PathLen
  <2> DEFINE r == SubSeq(p, 1, Len(q))
  <2>2. r \in Paths /\ Len(r) = Len(q) /\ \A i \in 1 .. Len(q) : r[i] = p[i]
    BY <2>1, PathStart
  <2>3. r \in Ancestors(p)
    BY <2>1 DEF Ancestors
  <2> HIDE DEF r
  <2>4. r = q
    BY <2>1, <2>2, PathsEqual
  <2> QED
    BY <2>3, <2>4
<1> QED
  BY <1>1, AncestorsTyped

LEMMA AncestorsWithin ==
  ASSUME NEW p \in Paths, NEW q \in Paths, IsPrefix(q, p)
  PROVE  Ancestors(q) \subseteq Ancestors(p)
BY AncestorsAre, AncestorsTyped, PrefixTransitive

\* What a call makes on the way to its destination, it may leave.
LEMMA OnTheWay ==
  ASSUME MayLeave, NEW p \in Paths, destination \in Paths,
         \/ IsPrefix(p, destination)
         \/ call.tool = "copy" /\ IsDir(before, call.src) /\ IsPrefix(call.dst, p),
         NEW q \in Ancestors(p), q \notin DOMAIN before
  PROVE  MayTouch(q)
<1>1. q \in Paths /\ IsPrefix(q, p)
  BY AncestorsTyped
<1>2. CASE IsPrefix(q, destination)
  BY <1>1, <1>2, AncestorsAre DEF MayTouch
<1>3. CASE call.tool = "copy" /\ IsDir(before, call.src) /\ IsPrefix(call.dst, p)
  <2>1. IsPrefix(q, call.dst) \/ IsPrefix(call.dst, q)
    BY <1>1, <1>3, PrefixIs, PathLen DEF destination
  <2> QED
    BY <1>2, <1>3, <2>1 DEF MayTouch, destination
<1> QED
  BY <1>1, <1>2, <1>3, PrefixTransitive

\* A handler has made directories on the way to its destination.
LEMMA DirsMade ==
  ASSUME FsInv, Step \/ Failure, pc # "idle", MayLeave, NEW p \in Paths, destination \in Paths,
         \/ IsPrefix(p, destination)
         \/ call.tool = "copy" /\ IsDir(before, call.src) /\ IsPrefix(call.dst, p),
         \A q \in Ancestors(p) : ~IsFile(disk, q), MakeDirs(p)
  PROVE  /\ IsTree(disk') /\ Grows(disk, disk') /\ DOMAIN disk \subseteq DOMAIN disk'
         /\ touched' \subseteq DOMAIN disk' \cup DOMAIN before \cup foreign
         /\ \A q \in touched' : MayTouch(q)
         /\ pc' # "idle" => Contained'
<1>1. disk' = MkdirAll(disk, p) /\ touched' = touched \cup (DOMAIN disk' \ DOMAIN disk)
  BY DEF MakeDirs
<1>2. /\ IsTree(disk') /\ Grows(disk, disk') /\ DOMAIN disk \subseteq DOMAIN disk'
      /\ touched' \subseteq DOMAIN disk' \cup DOMAIN before \cup foreign
  BY <1>1, MkdirDisk
<1>3. \A q \in DOMAIN disk' \ DOMAIN disk : q \in Ancestors(p) /\ q \notin DOMAIN before
  <2>1. DOMAIN disk' = DOMAIN disk \cup Ancestors(p)
    BY <1>1, MkdirAllIs
  <2> QED
    BY <2>1 DEF FsInv, Contained
<1>4. \A q \in touched' : MayTouch(q)
  BY <1>1, <1>3, OnTheWay DEF FsInv, Contained
<1>5. Contained'
  BY <1>2, <1>4, StepIs DEF FsInv, Contained, Grows, IsDir, Exists
<1> QED
  BY <1>2, <1>4, <1>5

\* os.MkdirAll fails and has made some of them.
LEMMA DirsStop ==
  ASSUME FsInv, Step \/ Failure, pc # "idle", MayLeave, NEW p \in Paths, destination \in Paths,
         \/ IsPrefix(p, destination)
         \/ call.tool = "copy" /\ IsDir(before, call.src) /\ IsPrefix(call.dst, p),
         \A q \in Ancestors(p) : ~IsFile(disk, q),
         NEW made \in Ancestors(p), MkdirStops(made)
  PROVE  FsInv'
<1>1. made \in Paths /\ IsPrefix(made, p)
  BY AncestorsTyped
<1>2. Ancestors(made) \subseteq Ancestors(p)
  BY <1>1, AncestorsWithin
<1>3. Return(Error) /\ disk' = MkdirAll(disk, made)
      /\ touched' = touched \cup (DOMAIN disk' \ DOMAIN disk)
  BY DEF MkdirStops, MakeDirs
<1>4. /\ IsTree(disk')
      /\ touched' \subseteq DOMAIN disk' \cup DOMAIN before \cup foreign
  BY <1>1, <1>2, <1>3, MkdirDisk
<1>5. \A q \in DOMAIN disk' \ DOMAIN disk : q \in Ancestors(p) /\ q \notin DOMAIN before
  <2>1. DOMAIN disk' = DOMAIN disk \cup Ancestors(made)
    BY <1>3, MkdirAllIs
  <2> QED
    BY <1>2, <2>1 DEF FsInv, Contained
<1>6. \A q \in touched' : MayTouch(q)
  BY <1>3, <1>5, OnTheWay DEF FsInv, Contained
<1> QED
  BY <1>3, <1>4, <1>6, ReturnStep DEF Error

LEMMA DirsRefused ==
  ASSUME FsInv, Step, pc # "idle", MayLeave, NEW p \in Paths, destination \in Paths,
         \/ IsPrefix(p, destination)
         \/ call.tool = "copy" /\ IsDir(before, call.src) /\ IsPrefix(call.dst, p),
         MkdirRefused(p)
  PROVE  FsInv'
<1>1. CASE Refuse
  BY <1>1, RefuseStep
<1>2. CASE /\ \A q \in Ancestors(p) : ~IsFile(disk, q)
           /\ Len(p) > MaxDepth /\ MkdirStops(SubSeq(p, 1, MaxDepth))
  <2>1. MaxDepth \in 0 .. Len(p)
    BY <1>2, FsAssumption, PathLen
  <2>2. SubSeq(p, 1, MaxDepth) \in Ancestors(p)
    BY <2>1 DEF Ancestors
  <2> QED
    BY <1>2, <2>2, DirsStop
<1> QED
  BY <1>1, <1>2 DEF MkdirRefused

LEMMA WriteStep ==
  ASSUME FsInv, WriteDirs \/ WriteTruncate \/ WriteData
  PROVE  FsInv'
<1>1. /\ Step /\ call.tool = "write" /\ call \in Calls
      /\ call.path \in Paths /\ call.text \in Seq(Words) /\ call.dirs \in BOOLEAN
  BY CallTyped DEF WriteDirs, WriteTruncate, WriteData, At, FsInv, Shapes
<1>2. CASE WriteDirs
  <2>1. pc = "begin" /\ touched = {}
    BY <1>2 DEF WriteDirs, At, FsInv, Fresh, Early
  <2>2. CASE ~call.dirs /\ UNCHANGED localVars /\ GoTo("truncate")
    <3>1. Holds'
      BY <1>1, <2>2 DEF Holds, GoTo, Step
    <3> QED
      BY <1>1, <2>1, <2>2, <3>1, GoStep DEF FsInv, TypeOK, Shapes, Early, localVars
  <2>5. /\ Front(call.path) \in Paths /\ IsPrefix(Front(call.path), destination)
        /\ destination \in Paths /\ (call.dirs => MayLeave)
    BY <1>1, FrontAbove DEF destination, MayLeave
  <2>3. CASE call.dirs /\ MkdirRefused(Front(call.path))
    BY <1>1, <2>1, <2>3, <2>5, DirsRefused
  <2>4. CASE /\ call.dirs /\ CanMkdirAll(disk, Front(call.path))
             /\ MakeDirs(Front(call.path))
             /\ pc' = "truncate"
             /\ UNCHANGED <<localVars, result>>
    <3>1. /\ IsTree(disk') /\ DOMAIN disk \subseteq DOMAIN disk'
          /\ touched' \subseteq DOMAIN disk' \cup DOMAIN before \cup foreign /\ Contained'
      BY <1>1, <2>1, <2>4, <2>5, DirsMade DEF CanMkdirAll
    <3>2. TypeOK'
      BY <1>1, <2>4, <3>1 DEF FsInv, TypeOK, Step, localVars, boundVars
    <3>3. Shapes' /\ Fresh' /\ Holds' /\ Nesting' /\ FailedCallsContained'
      BY <1>1, <2>1, <2>4, StepIs DEF FsInv, Shapes, Fresh, Early, MayLeave, Holds, Nesting,
           FailedCallsContained, localVars
    <3> QED
      BY <3>1, <3>2, <3>3 DEF FsInv
  <2> QED
    BY <1>2, <2>2, <2>3, <2>4 DEF WriteDirs
<1>3. CASE WriteTruncate
  BY <1>1, <1>3, TruncateStep DEF WriteTruncate, At
<1>4. CASE WriteData
  <2>1. IsFile(disk, call.path)
    BY <1>1, <1>4 DEF WriteData, At, FsInv, Holds
  <2>2. disk[call.path].text \in Seq(Words)
    BY <2>1, TextTyped
  <2> QED
    BY <1>1, <1>4, <2>1, <2>2, LastWrite DEF WriteData
<1> QED
  BY <1>2, <1>3, <1>4

LEMMA AppendStep ==
  ASSUME FsInv, AppendOpen \/ AppendData
  PROVE  FsInv'
<1>1. /\ Step /\ call.tool = "append" /\ call \in Calls
      /\ call.path \in Paths /\ call.text \in Seq(Words)
  BY CallTyped DEF AppendOpen, AppendData, At, FsInv, Shapes
<1>2. CASE AppendOpen
  <2>1. pc = "begin" /\ touched = {}
    BY <1>2 DEF AppendOpen, At, FsInv, Fresh, Early
  <2>2. CASE Writable(disk, call.path) /\ UNCHANGED localVars /\ GoTo("data")
    <3>1. Holds'
      BY <1>1, <2>2 DEF Holds, GoTo, Step, Writable, IsFile, Exists
    <3> QED
      BY <1>1, <2>1, <2>2, <3>1, GoStep DEF FsInv, TypeOK, Shapes, Early, localVars
  <2>3. CASE /\ Creates(disk, call.path) /\ Write(call.path, File(<<>>))
             /\ pc' = "data" /\ UNCHANGED <<localVars, result>>
    BY <1>1, <2>1, <2>3, CreatesPlace, TruncateWrite
  <2>4. CASE Refuse
    BY <1>1, <2>1, <2>4, RefuseStep
  <2> QED
    BY <1>2, <2>2, <2>3, <2>4 DEF AppendOpen
<1>3. CASE AppendData
  <2>1. IsFile(disk, call.path)
    BY <1>1, <1>3 DEF AppendData, At, FsInv, Holds
  <2>2. disk[call.path].text \in Seq(Words) /\ HasPlace(disk, call.path)
    BY <2>1, TextTyped
  <2>3. File(Appended(disk[call.path].text, call.text)) \in FileNodes
    BY <1>1, <2>2, ConcatProperties DEF Appended, File, FileNodes
  <2> QED
    BY <1>1, <1>3, <2>2, <2>3, WriteDisk, ReturnStep DEF AppendData, Ok
<1> QED
  BY <1>2, <1>3

LEMMA ReplacedTyped ==
  ASSUME NEW text \in Seq(Words), call.new \in Words
  PROVE  Replaced(text) \in Seq(Words)
<1> DEFINE chosen == IF call.all THEN Hits(text) ELSE {Min(Hits(text))}
           new == [i \in DOMAIN text |-> IF i \in chosen THEN call.new ELSE text[i]]
<1>1. Len(text) \in Nat /\ DOMAIN text = 1 .. Len(text) /\ \A i \in 1 .. Len(text) : text[i] \in Words
  BY LenProperties, ElementOfSeq
<1> HIDE DEF chosen
<1>2. new \in [1 .. Len(text) -> Words]
  BY <1>1
<1>3. new \in Seq(Words)
  BY <1>1, <1>2, SeqDef
<1> QED
  BY <1>3 DEF Replaced, chosen

LEMMA PatchStep ==
  ASSUME FsInv, PatchRead \/ PatchTruncate \/ PatchData
  PROVE  FsInv'
<1>1. /\ Step /\ call.tool = "patch" /\ call \in Calls
      /\ call.path \in Paths /\ call.new \in Words
  BY CallTyped DEF PatchRead, PatchTruncate, PatchData, At, FsInv, Shapes
<1>2. CASE PatchRead
  <2>1. pc = "begin" /\ touched = {}
    BY <1>2 DEF PatchRead, At, FsInv, Fresh, Early
  <2>2. CASE /\ Opens(disk, call.path)
             /\ buf' = Replaced(disk[call.path].text)
             /\ UNCHANGED <<size, frames, walk>> /\ GoTo("truncate")
    <3>1. Holds'
      BY <1>1, <2>2 DEF Holds, GoTo, Step
    <3>2. buf' \in Seq(Words)
      BY <1>1, <2>2, TextTyped, ReplacedTyped DEF Opens
    <3> QED
      BY <1>1, <2>1, <2>2, <3>1, <3>2, GoStep DEF FsInv, TypeOK, Shapes, Early
  <2>3. CASE Refuse
    BY <1>1, <2>1, <2>3, RefuseStep
  <2> QED
    BY <1>2, <2>2, <2>3 DEF PatchRead
<1>3. CASE PatchTruncate
  BY <1>1, <1>3, TruncateStep DEF PatchTruncate, At
<1>4. CASE PatchData
  <2>1. IsFile(disk, call.path)
    BY <1>1, <1>4 DEF PatchData, At, FsInv, Holds
  <2>2. disk[call.path].text \in Seq(Words) /\ buf \in Seq(Words)
    BY <2>1, TextTyped DEF FsInv, TypeOK
  <2> QED
    BY <1>1, <1>4, <2>1, <2>2, LastWrite DEF PatchData
<1> QED
  BY <1>2, <1>3, <1>4

-----------------------------------------------------------------------------
(* Copies.                                                                 *)

LEMMA CopyFileStep ==
  ASSUME FsInv, CopyStat \/ CopyCheck \/ CopyOpen \/ CopyTruncate \/ CopyData
  PROVE  FsInv'
<1>1. /\ Step /\ call.tool = "copy" /\ call \in Calls
      /\ call.src \in Paths /\ call.dst \in Paths
  BY CallTyped DEF CopyStat, CopyCheck, CopyOpen, CopyTruncate, CopyData, At, FsInv, Shapes
<1>2. CASE CopyStat
  <2>1. pc = "begin" /\ touched = {}
    BY <1>2 DEF CopyStat, At, FsInv, Fresh, Early
  <2>2. CASE Refuse
    BY <1>1, <2>1, <2>2, RefuseStep
  <2>3. CASE IsFile(disk, call.src) /\ UNCHANGED localVars /\ GoTo("check")
    <3>1. Holds'
      BY <1>1, <2>3 DEF Holds, GoTo, Step, IsFile, Exists
    <3> QED
      BY <1>1, <2>1, <2>3, <3>1, GoStep DEF FsInv, TypeOK, Shapes, Early, localVars
  <2>4. CASE /\ IsDir(disk, call.src)
             /\ frames' = <<[src |-> call.src, dst |-> call.dst,
                             todo |-> {}, entry |-> <<>>, copied |-> 0]>>
             /\ UNCHANGED <<buf, size, walk>> /\ GoTo("enter")
    <3>1. <<>> \in Paths
      BY EmptySeq DEF Paths
    <3>2. frames' \in Seq(Frames) /\ frames' # <<>>
      <4>1. [src |-> call.src, dst |-> call.dst, todo |-> {}, entry |-> <<>>,
             copied |-> 0] \in Frames
        BY <1>1, <3>1, PrefixItself DEF Frames
      <4> QED
        BY <2>4, <4>1
    <3>3. TypeOK'
      BY <1>1, <2>4 DEF FsInv, TypeOK, Step, GoTo, boundVars
    <3>4. IsDir(before, call.src)
      BY <2>1, <2>4 DEF FsInv, Fresh, Early
    <3>5. Shapes' /\ Fresh' /\ Holds' /\ FailedCallsContained'
      BY <1>1, <2>4, <3>2, <3>4 DEF FsInv, Shapes, Fresh, Early, Holds,
           FailedCallsContained, Step, GoTo, IsDir, Exists
    <3>6. Nesting'
      BY <1>1, <2>4, <3>2, <3>4, StepIs DEF FsInv, Nesting, GoTo, IsDir, Exists
    <3>7. Contained'
      BY <1>1, <2>1, <2>4, StepIs DEF FsInv, Contained, GoTo, IsDir, Exists
    <3> QED
      BY <3>3, <3>5, <3>6, <3>7 DEF FsInv
  <2> QED
    BY <1>2, <2>2, <2>3, <2>4 DEF CopyStat
<1>3. CASE CopyCheck
  <2>1. pc = "check" /\ touched = {} /\ IsFile(disk, call.src)
    BY <1>1, <1>3 DEF CopyCheck, At, FsInv, Fresh, Early, Holds
  <2>2. CASE Refuse
    BY <1>1, <2>1, <2>2, RefuseStep
  <2>3. CASE UNCHANGED localVars /\ GoTo("open")
    <3>1. Holds'
      BY <1>1, <2>1, <2>3 DEF Holds, GoTo, Step, IsFile, Exists
    <3> QED
      BY <1>1, <2>1, <2>3, <3>1, GoStep DEF FsInv, TypeOK, Shapes, Early, localVars
  <2> QED
    BY <1>3, <2>2, <2>3 DEF CopyCheck
<1>4. CASE CopyOpen
  <2>1. pc = "open" /\ touched = {} /\ IsFile(disk, call.src)
    BY <1>1, <1>4 DEF CopyOpen, At, FsInv, Fresh, Early, Holds
  <2>2. CASE Refuse
    BY <1>1, <2>1, <2>2, RefuseStep
  <2>3. CASE UNCHANGED localVars /\ GoTo("truncate")
    <3>1. Holds'
      BY <1>1, <2>1, <2>3 DEF Holds, GoTo, Step, IsFile, Exists
    <3> QED
      BY <1>1, <2>1, <2>3, <3>1, GoStep DEF FsInv, TypeOK, Shapes, Early, localVars
  <2> QED
    BY <1>4, <2>2, <2>3 DEF CopyOpen
<1>5. CASE CopyTruncate
  BY <1>1, <1>5, TruncateStep DEF CopyTruncate, At
<1>6. CASE CopyData
  <2>1. IsFile(disk, call.src) /\ IsFile(disk, call.dst)
    BY <1>1, <1>6 DEF CopyData, At, FsInv, Holds
  <2>2. disk[call.src].text \in Seq(Words) /\ disk[call.dst].text \in Seq(Words)
    BY <2>1, TextTyped
  <2> QED
    BY <1>1, <1>6, <2>1, <2>2, LastWrite DEF CopyData
<1> QED
  BY <1>2, <1>3, <1>4, <1>5, <1>6

\* The innermost activation of copyDir.
LEMMA FirstFrame ==
  ASSUME NEW x \in Frames, NEW rest \in Seq(Frames)
  PROVE  <<x>> \o rest \in Seq(Frames) /\ <<x>> \o rest # <<>> /\ Head(<<x>> \o rest) = x
<1>1. <<x>> \in Seq(Frames) /\ Len(<<x>>) = 1 /\ <<x>>[1] = x
  OBVIOUS
<1>2. /\ <<x>> \o rest \in Seq(Frames) /\ Len(<<x>> \o rest) = 1 + Len(rest)
      /\ Len(rest) \in Nat
      /\ \A i \in 1 .. 1 + Len(rest) : (<<x>> \o rest)[i] =
           IF i <= 1 THEN <<x>>[i] ELSE rest[i - 1]
  BY <1>1, ConcatProperties, LenProperties
<1>3. (<<x>> \o rest)[1] = x /\ <<x>> \o rest # <<>>
  BY <1>1, <1>2, EmptySeq
<1> QED
  BY <1>2, <1>3, HeadTailProperties

LEMMA FrameTyped ==
  ASSUME FsInv, \/ At("copy", "enter") \/ At("copy", "readdir")
                \/ At("copy", "entries") \/ At("copy", "stream")
  PROVE  /\ frames # <<>> /\ frame \in Frames /\ Tail(frames) \in Seq(Frames)
         /\ call.tool = "copy" /\ call \in Calls /\ IsDir(before, call.src)
         /\ pc # "idle" /\ pc \notin Early /\ pc # "truncate" /\ pc # "data"
BY HeadTailProperties DEF FsInv, Nesting, Shapes, At, frame, Early

LEMMA EntryPaths ==
  ASSUME frame \in Frames, NEW entry \in Paths
  PROVE  srcPath(entry) \in Paths /\ dstPath(entry) \in Paths
BY ConcatProperties DEF Frames, srcPath, dstPath, Paths

\* An entry goes below the destination of the call.
LEMMA EntryBelowCall ==
  ASSUME FsInv, frames # <<>>, frame \in Frames, NEW entry \in Paths
  PROVE  /\ dstPath(entry) \in Paths /\ IsPrefix(call.dst, dstPath(entry))
         /\ MayTouch(dstPath(entry))
<1>1. /\ call.tool = "copy" /\ IsDir(before, call.src) /\ call.dst \in Paths
      /\ frame.dst \in Paths /\ IsPrefix(call.dst, frame.dst)
  BY CallTyped DEF FsInv, Nesting, Shapes, Frames
<1>2. dstPath(entry) \in Paths /\ IsPrefix(frame.dst, dstPath(entry))
  <2>1. /\ dstPath(entry) \in Paths /\ Len(frame.dst) \in Nat /\ Len(entry) \in Nat
        /\ Len(dstPath(entry)) = Len(frame.dst) + Len(entry)
        /\ \A i \in 1 .. Len(frame.dst) : dstPath(entry)[i] = frame.dst[i]
    BY <1>1, ConcatProperties, LenProperties DEF dstPath, Paths
  <2> QED
    BY <1>1, <2>1, PrefixIs
<1>3. IsPrefix(call.dst, dstPath(entry))
  BY <1>1, <1>2, PrefixTransitive
<1> QED
  BY <1>1, <1>2, <1>3 DEF MayTouch

\* copyDir goes on.
LEMMA FrameStep ==
  ASSUME FsInv, Step \/ Failure, frames # <<>>, frames' \in Seq(Frames), frames' # <<>>,
         pc' \in {"enter", "readdir", "entries", "stream"}, UNCHANGED <<buf, size, walk, result>>,
         IsTree(disk'), DOMAIN disk \subseteq DOMAIN disk', Grows(disk, disk'),
         touched' \subseteq DOMAIN disk' \cup DOMAIN before \cup foreign,
         \A p \in touched' : MayTouch(p),
         pc' = "stream" => Holds'
  PROVE  FsInv'
<1>1. TypeOK'
  BY StepLeaves DEF FsInv, TypeOK
<1>2. Holds'
  BY DEF Holds
<1>3. Shapes' /\ Fresh' /\ FailedCallsContained'
  BY StepLeaves DEF FsInv, Shapes, Fresh, Early, Nesting, FailedCallsContained
<1>4. Nesting'
  BY StepIs DEF FsInv, Nesting, IsDir, Exists
<1>5. Contained'
  BY StepIs DEF FsInv, Contained, Nesting, Grows, IsDir, Exists
<1> QED
  BY <1>1, <1>2, <1>3, <1>4, <1>5 DEF FsInv

\* What does not change the disk lets it grow.
LEMMA GrowsItself ==
  ASSUME UNCHANGED <<disk, touched>>, FsInv, pc # "idle"
  PROVE  /\ IsTree(disk') /\ DOMAIN disk \subseteq DOMAIN disk' /\ Grows(disk, disk')
         /\ touched' \subseteq DOMAIN disk' \cup DOMAIN before \cup foreign
         /\ \A p \in touched' : MayTouch(p)
BY DEF FsInv, TypeOK, Contained, Grows

LEMMA DirEnterStep ==
  ASSUME FsInv, DirEnter
  PROVE  FsInv'
<1>1. /\ Step /\ frames # <<>> /\ frame \in Frames /\ frames \in Seq(Frames) /\ pc # "idle"
      /\ call.tool = "copy" /\ IsDir(before, call.src) /\ call \in Calls
  BY FrameTyped DEF DirEnter, FsInv, Nesting
<1>2. /\ frame.dst \in Paths /\ IsPrefix(call.dst, frame.dst) /\ MayLeave
      /\ destination \in Paths
  BY <1>1, CallTyped DEF Frames, MayLeave, destination
<1>3. CASE MkdirRefused(frame.dst)
  BY <1>1, <1>2, <1>3, DirsRefused
<1>4. CASE /\ CanMkdirAll(disk, frame.dst)
           /\ MakeDirs(frame.dst)
           /\ pc' = "readdir"
           /\ UNCHANGED <<localVars, result>>
  <2>1. /\ IsTree(disk') /\ DOMAIN disk \subseteq DOMAIN disk' /\ Grows(disk, disk')
        /\ touched' \subseteq DOMAIN disk' \cup DOMAIN before \cup foreign
        /\ \A q \in touched' : MayTouch(q)
    BY <1>1, <1>2, <1>4, DirsMade DEF CanMkdirAll
  <2> QED
    BY <1>1, <1>4, <2>1, FrameStep DEF localVars
<1> QED
  BY <1>3, <1>4 DEF DirEnter

LEMMA DirReadStep ==
  ASSUME FsInv, DirRead
  PROVE  FsInv'
<1> DEFINE names == {<<Last(p)>> : p \in Entries(disk, frame.src)}
<1>1. /\ Step /\ frames # <<>> /\ frame \in Frames /\ Tail(frames) \in Seq(Frames)
      /\ pc # "idle" /\ IsTree(disk)
  BY FrameTyped DEF DirRead, FsInv, TypeOK
<1>2. ASSUME NEW p \in Entries(disk, frame.src)
      PROVE  <<Last(p)>> \in Paths
  <2>1. p \in Paths /\ p # <<>>
    BY <1>1 DEF Entries, IsTree
  <2>2. Last(p) \in STRING
    BY <2>1, PathLen DEF Last
  <2> QED
    BY <2>2 DEF Paths
<1>3. names \in SUBSET Paths
  BY <1>2
<1>4. /\ frames' = <<[frame EXCEPT !.todo = names]>> \o Tail(frames)
      /\ pc' = "entries" /\ UNCHANGED <<buf, size, walk, disk, touched, result>>
  BY DEF DirRead, GoTo
<1> HIDE DEF names
<1>5. [frame EXCEPT !.todo = names] \in Frames
  BY <1>1, <1>3 DEF Frames
<1> QED
  BY <1>1, <1>4, <1>5, FirstFrame, GrowsItself, FrameStep

LEMMA DirNestedStep ==
  ASSUME FsInv, NEW entry, DirNested(entry)
  PROVE  FsInv'
<1>1. /\ Step /\ frames # <<>> /\ frame \in Frames /\ Tail(frames) \in Seq(Frames)
      /\ entry \in Paths /\ pc # "idle"
  BY FrameTyped DEF DirNested, Frames
<1> DEFINE inner == [src |-> srcPath(entry), dst |-> dstPath(entry),
                     todo |-> {}, entry |-> <<>>, copied |-> 0]
           outer == [frame EXCEPT !.todo = @ \ {entry}]
<1>2. inner \in Frames
  BY <1>1, EntryPaths, EntryBelowCall, PrefixEmpty DEF Frames
<1>3. outer \in Frames
  BY <1>1 DEF Frames
<1>4. frames' = <<inner, outer>> \o Tail(frames)
  BY DEF DirNested
<1>5. /\ UNCHANGED <<buf, size, walk>> /\ pc' = "enter"
      /\ UNCHANGED <<disk, touched, result>>
  BY DEF DirNested, GoTo
<1> HIDE DEF inner, outer
<1>6. <<inner, outer>> \in Seq(Frames) /\ Len(<<inner, outer>>) = 2
  BY <1>2, <1>3
<1>7. frames' \in Seq(Frames) /\ frames' # <<>>
  BY <1>1, <1>4, <1>6, ConcatProperties, EmptySeq, LenProperties
<1> QED
  BY <1>1, <1>5, <1>7, GrowsItself, FrameStep

\* The frame that has come to a file.
LEMMA FrameCopies ==
  ASSUME NEW f \in Frames, NEW e \in Paths
  PROVE  LET g == [f EXCEPT !.todo = @ \ {e}, !.entry = e, !.copied = @ + 1]
         IN  g \in Frames /\ g.src = f.src /\ g.dst = f.dst /\ g.entry = e
<1>1. f.copied + 1 \in Nat /\ f.todo \ {e} \in SUBSET Paths
  BY DEF Frames
<1>2. ASSUME NEW t \in SUBSET Paths, NEW n \in Nat
      PROVE  LET g == [f EXCEPT !.todo = t, !.entry = e, !.copied = n]
             IN  g \in Frames /\ g.src = f.src /\ g.dst = f.dst /\ g.entry = e
  BY DEF Frames
<1> QED
  BY <1>1, <1>2

\* copyDir passes over a file.
LEMMA EntryPassed ==
  ASSUME FsInv, Step \/ Failure, At("copy", "entries"), NEW entry,
         frames' = <<[frame EXCEPT !.todo = @ \ {entry}]>> \o Tail(frames),
         UNCHANGED <<buf, size, walk>>, GoTo("entries")
  PROVE  FsInv'
<1>1. /\ frames # <<>> /\ frame \in Frames /\ Tail(frames) \in Seq(Frames) /\ pc # "idle"
  BY FrameTyped
<1>2. [frame EXCEPT !.todo = @ \ {entry}] \in Frames
  BY <1>1 DEF Frames
<1> QED
  BY <1>1, <1>2, FirstFrame, GrowsItself, FrameStep DEF GoTo

LEMMA DirFileStep ==
  ASSUME FsInv, NEW entry, DirFile(entry)
  PROVE  FsInv'
<1>1. /\ Step /\ frames # <<>> /\ frame \in Frames /\ Tail(frames) \in Seq(Frames)
      /\ entry \in Paths /\ call.tool = "copy" /\ pc # "idle"
  BY FrameTyped DEF DirFile, Frames
<1>2. CASE /\ frames' = <<[frame EXCEPT !.todo = @ \ {entry}]>> \o Tail(frames)
           /\ UNCHANGED <<buf, size, walk>> /\ GoTo("entries")
  BY <1>1, <1>2, EntryPassed DEF DirFile
<1>3. CASE /\ Opens(disk, srcPath(entry)) /\ DestinationOpens(dstPath(entry))
           /\ Write(dstPath(entry), File(<<>>))
           /\ frames' = <<[frame EXCEPT !.todo = @ \ {entry}, !.entry = entry,
                                        !.copied = @ + 1]>> \o Tail(frames)
           /\ pc' = "stream" /\ UNCHANGED <<buf, size, walk, result>>
  <2> DEFINE to == dstPath(entry)
             from == srcPath(entry)
             new == [frame EXCEPT !.todo = @ \ {entry}, !.entry = entry, !.copied = @ + 1]
  <2>1. new \in Frames /\ new.src = frame.src /\ new.dst = frame.dst /\ new.entry = entry
    BY <1>1, FrameCopies
  <2>2. to \in Paths /\ HasPlace(disk, to) /\ IsFile(disk, from) /\ MayTouch(to)
    BY <1>1, <1>3, EntryBelowCall, CreatesPlace DEF DestinationOpens, Opens
  <2>3. frames' = <<new>> \o Tail(frames)
    BY <1>3
  <2> HIDE DEF new
  <2>4. frames' \in Seq(Frames) /\ frames' # <<>> /\ frame' = new
    BY <1>1, <2>1, <2>3, FirstFrame DEF frame
  <2>5. from = srcPath(frame.entry)' /\ to = dstPath(frame.entry)'
    BY <2>1, <2>4 DEF srcPath, dstPath
  <2> HIDE DEF from, to
  <2>6. Write(to, File(<<>>))
    BY <1>3 DEF to
  <2>7. /\ IsTree(disk') /\ Grows(disk, disk') /\ IsFile(disk', to)
        /\ DOMAIN disk \subseteq DOMAIN disk' /\ touched' = touched \cup {to}
        /\ touched' \subseteq DOMAIN disk' \cup DOMAIN before \cup foreign
    BY <2>2, <2>6, NewFile, WriteDisk
  <2>8. IsFile(disk', from)
    BY <2>2, <2>7 DEF Grows, IsFile, Exists
  <2>9. Holds'
    BY <1>3, <2>5, <2>7, <2>8 DEF Holds
  <2>10. \A p \in touched' : MayTouch(p)
    BY <1>1, <2>2, <2>7 DEF FsInv, Contained
  <2> QED
    BY <1>1, <1>3, <2>4, <2>7, <2>9, <2>10, FrameStep
<1> QED
  BY <1>2, <1>3 DEF DirFile

\* What io.Copy writes, all of it or a part.
LEMMA StreamWrites ==
  ASSUME FsInv, Step \/ Failure, At("copy", "stream"), NEW part \in Seq(Words), pc' = "entries",
         Write(dstPath(frame.entry), File(Overwrite(disk[dstPath(frame.entry)].text, part))),
         UNCHANGED <<localVars, result>>
  PROVE  FsInv'
<1> DEFINE to == dstPath(frame.entry)
<1>1. /\ frames # <<>> /\ frame.entry \in Paths /\ frame \in Frames /\ pc # "idle"
  BY FrameTyped DEF Frames
<1>2. IsFile(disk, to) /\ to \in Paths /\ MayTouch(to)
  BY <1>1, EntryBelowCall DEF At, FsInv, Holds
<1>3. /\ Write(to, File(Overwrite(disk[to].text, part)))
      /\ pc' = "entries" /\ UNCHANGED <<buf, size, frames, walk, result>>
  BY DEF localVars
<1> HIDE DEF to
<1>4. /\ IsTree(disk') /\ Grows(disk, disk') /\ DOMAIN disk \subseteq DOMAIN disk'
      /\ touched' = touched \cup {to}
      /\ touched' \subseteq DOMAIN disk' \cup DOMAIN before \cup foreign
  BY <1>2, <1>3, TextTyped, OverwriteTyped, WriteDisk
<1>5. \A p \in touched' : MayTouch(p)
  BY <1>1, <1>2, <1>4 DEF FsInv, Contained
<1> QED
  BY <1>1, <1>3, <1>4, <1>5, FrameStep DEF FsInv, Nesting

LEMMA DirStreamStep ==
  ASSUME FsInv, DirStream
  PROVE  FsInv'
<1>1. IsFile(disk, srcPath(frame.entry))
  BY DEF DirStream, At, FsInv, Holds
<1>2. disk[srcPath(frame.entry)].text \in Seq(Words)
  BY <1>1, TextTyped
<1> QED
  BY <1>2, StreamWrites DEF DirStream

LEMMA DirLeaveStep ==
  ASSUME FsInv, DirLeave
  PROVE  FsInv'
<1>1. /\ Step /\ frames # <<>> /\ frames \in Seq(Frames) /\ UNCHANGED <<disk, touched>>
      /\ pc # "idle"
  BY FrameTyped DEF DirLeave, FsInv, Nesting
<1>2. CASE Return([status |-> "ok", copied |-> frame.copied])
  BY <1>1, <1>2, ReturnStep DEF FsInv, TypeOK
<1>3. CASE /\ Len(frames) > 1
           /\ frames' = <<[frames[2] EXCEPT !.copied = @ + NestedCount(frame.copied)]>>
                          \o SubSeq(frames, 3, Len(frames))
           /\ UNCHANGED <<buf, size, walk, pc, result>>
  <2>1. Len(frames) \in Nat /\ \A i \in 1 .. Len(frames) : frames[i] \in Frames
    BY <1>1, LenProperties, ElementOfSeq
  <2>2. [frames[2] EXCEPT !.copied = @ + NestedCount(frame.copied)] \in Frames
    BY <1>3, <2>1 DEF Frames, NestedCount
  <2>3. SubSeq(frames, 3, Len(frames)) \in Seq(Frames)
    BY <1>3, <2>1, SubSeqProperties
  <2>4. frames' \in Seq(Frames) /\ frames' # <<>>
    BY <1>3, <2>2, <2>3, FirstFrame
  <2>5. pc' = "entries"
    BY <1>3 DEF DirLeave, At
  <2> QED
    BY <1>1, <1>3, <2>4, <2>5, GrowsItself, FrameStep
<1> QED
  BY <1>2, <1>3 DEF DirLeave

-----------------------------------------------------------------------------
(* The other tools, and other processes.                                   *)

LEMMA MoveStep ==
  ASSUME FsInv, MoveCheck \/ MoveRename
  PROVE  FsInv'
<1>1. /\ Step /\ call.tool = "move" /\ call \in Calls
      /\ call.src \in Paths /\ call.dst \in Paths
  BY CallTyped DEF MoveCheck, MoveRename, At, FsInv, Shapes
<1>2. CASE MoveCheck
  <2>1. pc = "begin" /\ touched = {}
    BY <1>2 DEF MoveCheck, At, FsInv, Fresh, Early
  <2>2. CASE Refuse
    BY <1>1, <2>1, <2>2, RefuseStep
  <2>3. CASE UNCHANGED localVars /\ GoTo("open")
    <3>1. Holds'
      BY <1>1, <2>3 DEF Holds, GoTo, Step
    <3> QED
      BY <1>1, <2>1, <2>3, <3>1, GoStep DEF FsInv, TypeOK, Shapes, Early, localVars
  <2> QED
    BY <1>2, <2>2, <2>3 DEF MoveCheck
<1>3. CASE MoveRename
  <2>1. /\ pc = "open" /\ touched = {} /\ IsTree(disk)
        /\ DOMAIN disk \subseteq DOMAIN before \cup foreign
    BY <1>3 DEF MoveRename, At, FsInv, TypeOK, Fresh, Early
  <2>2. CASE Refuse
    BY <1>1, <2>1, <2>2, RefuseStep
  <2>3. CASE /\ CanRename(disk, call.src, call.dst)
             /\ disk' = Renamed(disk, call.src, call.dst)
             /\ touched' = touched \cup (IF call.src = call.dst THEN {}
                                         ELSE Under(disk, call.src) \cup {call.dst})
             /\ Return(Ok)
    <3>1. IsTree(disk') /\ call.dst \in DOMAIN disk'
      BY <1>1, <2>1, <2>3, RenameTree
    <3>2. touched' \subseteq DOMAIN disk' \cup DOMAIN before \cup foreign
      BY <2>1, <2>3, <3>1 DEF Under
    <3> QED
      BY <1>1, <2>3, <3>1, <3>2, ReturnStep DEF Ok
  <2> QED
    BY <1>3, <2>2, <2>3 DEF MoveRename
<1> QED
  BY <1>2, <1>3

LEMMA RemoveStep ==
  ASSUME FsInv, RemovePath
  PROVE  FsInv'
<1>1. /\ Step /\ call.tool = "remove" /\ call \in Calls /\ call.path \in Paths
      /\ pc = "begin" /\ touched = {} /\ IsTree(disk)
      /\ DOMAIN disk \subseteq DOMAIN before \cup foreign
  BY CallTyped DEF RemovePath, At, FsInv, TypeOK, Shapes, Fresh, Early
<1>2. CASE Refuse
  BY <1>1, <1>2, RefuseStep
<1>3. CASE /\ disk' = Restrict(disk, DOMAIN disk \ Under(disk, call.path))
           /\ touched' = touched \cup Under(disk, call.path)
           /\ Return(Ok)
  BY <1>1, <1>3, RemoveTree, ReturnStep DEF Under, Ok
<1> QED
  BY <1>2, <1>3 DEF RemovePath

LEMMA MkdirStep ==
  ASSUME FsInv, Mkdir
  PROVE  FsInv'
<1>1. /\ Step /\ call.tool = "mkdir" /\ call \in Calls /\ call.path \in Paths
      /\ pc = "begin" /\ touched = {} /\ IsTree(disk)
  BY CallTyped DEF Mkdir, At, FsInv, TypeOK, Shapes, Fresh, Early
<1>2. CASE Refuse
  BY <1>1, <1>2, RefuseStep
<1>3. CASE call.parents /\ MkdirRefused(call.path)
  <2>1. MayLeave /\ destination \in Paths /\ IsPrefix(call.path, destination)
    BY <1>1, <1>3, PrefixItself DEF MayLeave, destination
  <2> QED
    BY <1>1, <1>3, <2>1, DirsRefused
<1>4. CASE /\ IF call.parents THEN CanMkdirAll(disk, call.path)
                              ELSE CanMkdir(disk, call.path)
           /\ MakeDirs(call.path)
           /\ Return(Ok)
  <2>1. \A q \in Ancestors(call.path) : ~IsFile(disk, q)
    <3>1. CASE CanMkdirAll(disk, call.path)
      BY <3>1 DEF CanMkdirAll
    <3>2. CASE CanMkdir(disk, call.path)
      BY <1>1, <3>2, CanMkdirAncestors
    <3> QED
      BY <1>4, <3>1, <3>2
  <2> QED
    BY <1>1, <1>4, <2>1, MkdirDisk, ReturnStep DEF Ok, MakeDirs
<1> QED
  BY <1>2, <1>3, <1>4 DEF Mkdir

LEMMA StatStep ==
  ASSUME FsInv, Stat
  PROVE  FsInv'
<1>1. Step /\ pc = "begin" /\ touched = {}
  BY DEF Stat, At, FsInv, Fresh, Early
<1>2. CASE Refuse
  BY <1>1, <1>2, RefuseStep
<1>3. CASE /\ Return([status |-> "ok", dir |-> IsDir(disk, call.path)])
           /\ UNCHANGED <<disk, touched>>
  BY <1>1, <1>3, ReturnStep DEF FsInv, TypeOK
<1> QED
  BY <1>2, <1>3 DEF Stat

\* A step of WalkDir.
LEMMA WalkGoes ==
  ASSUME FsInv, Step \/ Failure, GoTo("walk"), UNCHANGED <<buf, size, frames>>,
         pc \in {"begin", "walk"},
         walk'.pending \subseteq DOMAIN disk, walk'.cut \in BOOLEAN,
         walk' = [pending |-> walk'.pending, found |-> walk'.found, cut |-> walk'.cut]
  PROVE  FsInv'
<1>1. Holds'
  BY DEF Holds, GoTo
<1> QED
  BY <1>1, GoStep DEF FsInv, TypeOK, Early

LEMMA VisitIs ==
  ASSUME FsInv, NEW p, NEW finds, NEW descend, Visit(p, finds, descend)
  PROVE  /\ walk'.found = walk.found \cup finds
         /\ walk'.pending = (walk.pending \ {p}) \cup IF descend THEN Entries(disk, p) ELSE {}
         /\ walk'.cut = walk.cut /\ walk'.pending \subseteq DOMAIN disk
         /\ walk' = [pending |-> walk'.pending, found |-> walk'.found, cut |-> walk'.cut]
<1>1. Entries(disk, p) \subseteq DOMAIN disk
  BY DEF Entries
<1> DEFINE more == IF descend THEN Entries(disk, p) ELSE {}
<1>2. more \subseteq DOMAIN disk
  BY <1>1
<1>3. walk' = [walk EXCEPT !.found = @ \cup finds, !.pending = (@ \ {p}) \cup more]
  BY DEF Visit
<1> HIDE DEF more
<1>4. walk' = [pending |-> (walk.pending \ {p}) \cup more, found |-> walk.found \cup finds,
               cut |-> walk.cut]
  BY <1>3 DEF FsInv, Shapes
<1>5. walk'.pending = (walk.pending \ {p}) \cup more /\ walk'.pending \subseteq DOMAIN disk
  BY <1>2, <1>4 DEF FsInv, TypeOK
<1> QED
  BY <1>4, <1>5 DEF more

LEMMA SkipAllIs ==
  ASSUME FsInv, NEW cut, SkipAll(cut)
  PROVE  walk' = [pending |-> {}, found |-> walk.found, cut |-> cut]
BY DEF SkipAll, FsInv, Shapes

LEMMA WalkStep ==
  ASSUME FsInv, \/ WalkBegin \/ WalkEnds \/ SearchRg
                \/ \E p \in walk.pending : ListVisit(p) \/ SearchVisit(p) \/ GlobVisit(p)
  PROVE  FsInv'
<1>1. CASE WalkBegin
  <2>1. walk' = [pending |-> {call.path} \cap DOMAIN disk, found |-> {}, cut |-> FALSE]
    BY <1>1 DEF WalkBegin, NoWalk
  <2>2. /\ walk'.pending \subseteq DOMAIN disk /\ walk'.cut \in BOOLEAN
        /\ walk' = [pending |-> walk'.pending, found |-> walk'.found, cut |-> walk'.cut]
    BY <2>1
  <2>3. /\ Step /\ GoTo("walk") /\ UNCHANGED <<buf, size, frames>> /\ pc = "begin"
    BY <1>1 DEF WalkBegin
  <2> QED
    BY <2>2, <2>3, WalkGoes
<1>2. CASE WalkEnds
  <2>1. PICK r : Return(r) /\ r.status = "ok"
    BY <1>2 DEF WalkEnds
  <2> QED
    BY <1>2, <2>1, ReturnStep DEF WalkEnds, FsInv, TypeOK
<1>3. CASE SearchRg
  <2>1. Step /\ pc = "begin" /\ touched = {}
    BY <1>3 DEF SearchRg, At, FsInv, Fresh, Early
  <2>2. CASE Refuse
    BY <2>1, <2>2, RefuseStep
  <2>3. CASE \E r : Return(r) /\ r.status = "ok" /\ UNCHANGED <<disk, touched>>
    BY <2>1, <2>3, ReturnStep DEF FsInv, TypeOK
  <2> QED
    BY <1>3, <2>2, <2>3 DEF SearchRg
<1>4. ASSUME NEW p \in walk.pending, ListVisit(p) \/ SearchVisit(p) \/ GlobVisit(p)
      PROVE  FsInv'
  <2>1. Step /\ GoTo("walk") /\ UNCHANGED <<buf, size, frames>> /\ pc = "walk"
    BY <1>4 DEF ListVisit, SearchVisit, GlobVisit, Walking, At
  <2>2. CASE \E finds, descend : Visit(p, finds, descend)
    BY <2>1, <2>2, VisitIs, WalkGoes DEF FsInv, TypeOK
  <2>3. CASE \E cut \in BOOLEAN : SkipAll(cut)
    BY <2>1, <2>3, SkipAllIs, WalkGoes
  <2> QED
    BY <1>4, <2>2, <2>3 DEF ListVisit, SearchVisit, GlobVisit
<1> QED
  BY <1>1, <1>2, <1>3, <1>4

LEMMA BeginStep ==
  ASSUME FsInv, NEW c \in Calls, Begin(c)
  PROVE  FsInv'
<1>1. TypeOK'
  BY FsAssumption DEF FsInv, TypeOK, Begin, NoResult, localVars
<1>2. Shapes' /\ Fresh' /\ Holds' /\ Contained' /\ FailedCallsContained'
  BY DEF FsInv, Shapes, Fresh, Early, Holds, Nesting, Contained, FailedCallsContained, Begin,
       NoResult, localVars
<1>3. Nesting'
  BY EmptySeq DEF FsInv, Nesting, Begin, localVars
<1> QED
  BY <1>1, <1>2, <1>3 DEF FsInv

LEMMA OutsideStep ==
  ASSUME FsInv, NEW p \in Shared, OutsideWrite(p)
  PROVE  FsInv'
<1> DEFINE old == IF IsFile(disk, p) THEN disk[p].text ELSE <<>>
<1>1. p \in Paths /\ HasPlace(disk, p) /\ Other \in Words
  BY CreatesPlace, FsAssumption DEF OutsideWrite
<1>2. old \in Seq(Words)
  BY TextTyped, EmptySeq
<1> HIDE DEF old
<1>3. File(old \o <<Other>>) \in FileNodes
  <2>1. <<Other>> \in Seq(Words)
    BY <1>1
  <2> QED
    BY <1>2, <2>1, ConcatProperties DEF File, FileNodes
<1>4. disk' = Put(disk, p, File(old \o <<Other>>))
  BY DEF OutsideWrite, old
<1>5. /\ IsTree(disk') /\ Grows(disk, disk') /\ DOMAIN disk' = DOMAIN disk \cup {p}
      /\ \A q : IsDir(disk', q) => IsDir(disk, q)
  BY <1>1, <1>3, <1>4, PutTree, PutIs DEF FsInv, TypeOK
<1>6. /\ foreign' = foreign \cup {p} /\ outside' = outside + 1 /\ outside < MaxOutside
      /\ UNCHANGED <<call, pc, buf, size, frames, walk, result, before, touched, failures, calls>>
  BY DEF OutsideWrite, localVars
<1>7. TypeOK'
  BY <1>5, <1>6, FsAssumption DEF FsInv, TypeOK
<1>8. Shapes' /\ Fresh'
  BY <1>5, <1>6 DEF FsInv, Shapes, Fresh, MayLeave
<1>10. /\ (MayLeave' <=> MayLeave) /\ Frames' = Frames
       /\ \A q : MayTouch(q)' <=> MayTouch(q)
  BY <1>6 DEF MayLeave, Frames, MayTouch, destination
<1>11. Nesting' /\ FailedCallsContained'
  BY <1>6, <1>10 DEF FsInv, Nesting, FailedCallsContained
<1>12. Contained'
  BY <1>5, <1>6, <1>10 DEF FsInv, Contained, Grows, IsDir, Exists
<1>9. Holds'
  BY <1>5, <1>6 DEF FsInv, Holds, Grows, IsFile, Exists, srcPath, dstPath, frame
<1> QED
  BY <1>7, <1>8, <1>9, <1>11, <1>12 DEF FsInv

-----------------------------------------------------------------------------
(* Failures of the disk.                                                   *)

LEMMA PartTyped ==
  ASSUME NEW text \in Seq(Words), NEW part \in Prefixes(text)
  PROVE  part \in Seq(Words)
<1>1. PICK n \in 0 .. Len(text) : part = SubSeq(text, 1, n)
  BY DEF Prefixes
<1>2. Len(text) \in Nat /\ \A i \in 1 .. n : text[i] \in Words
  BY LenProperties, ElementOfSeq
<1> QED
  BY <1>1, <1>2, SubSeqProperties

\* The rest of a text is not written.
LEMMA WriteStopsStep ==
  ASSUME FsInv, WriteStops
  PROVE  FsInv'
<1> DEFINE new == CASE call.tool \in {"write", "append"} -> call.text
                    [] call.tool = "patch" -> buf
                    [] call.tool = "copy" -> disk[call.src].text
           old == disk[destination].text
<1>1. /\ Failure /\ pc = "data" /\ call.tool \in {"write", "append", "patch", "copy"}
      /\ Return(Error) /\ call \in Calls
  BY DEF WriteStops, FsInv, Shapes
<1>2. /\ destination \in Paths /\ IsFile(disk, destination)
      /\ call.tool = "copy" => IsFile(disk, call.src)
  BY <1>1, CallTyped DEF destination, FsInv, Holds
<1>3. MayTouch(destination)
  <2>1. CASE call.tool = "copy"
    <3>1. ~IsDir(before, call.src)
      BY <1>1, <1>2, <2>1 DEF FsInv, Contained, IsFile, IsDir
    <3> QED
      BY <2>1, <3>1 DEF MayTouch, destination
  <2> QED
    BY <1>1, <2>1 DEF MayTouch, destination
<1>4. new \in Seq(Words) /\ old \in Seq(Words)
  <2>1. call.tool = "copy" => disk[call.src].text \in Seq(Words)
    BY <1>2, TextTyped
  <2>2. old \in Seq(Words)
    BY <1>2, TextTyped
  <2> QED
    BY <1>1, <2>1, <2>2, CallTyped DEF FsInv, TypeOK
<1>5. PICK part \in Prefixes(new) :
        Write(destination, File(IF call.tool = "append" THEN Appended(old, part)
                                                       ELSE Overwrite(old, part)))
  BY DEF WriteStops
<1> HIDE DEF new, old
<1>6. part \in Seq(Words)
  BY <1>4, <1>5, PartTyped
<1>7. PICK node \in FileNodes : Write(destination, node)
  <2>1. File(Overwrite(old, part)) \in FileNodes
    BY <1>4, <1>6, OverwriteTyped
  <2>2. File(Appended(old, part)) \in FileNodes
    BY <1>4, <1>6, ConcatProperties DEF Appended, File, FileNodes
  <2> QED
    BY <1>5, <2>1, <2>2
<1>8. /\ IsTree(disk') /\ touched' = touched \cup {destination}
      /\ touched' \subseteq DOMAIN disk' \cup DOMAIN before \cup foreign
  BY <1>2, <1>7, TextTyped, WriteDisk
<1>9. \A p \in touched' : MayTouch(p)
  BY <1>1, <1>3, <1>8 DEF FsInv, Contained
<1> QED
  BY <1>1, <1>8, <1>9, ReturnStep DEF Error

LEMMA DirsFailStep ==
  ASSUME FsInv, DirsFail
  PROVE  FsInv'
<1>1. /\ call \in Calls /\ pc # "idle" /\ Failure
  BY DEF DirsFail, MkdirFails, At, FsInv, Shapes
<1>2. ASSUME NEW p \in Paths, MkdirFails(p), MayLeave, destination \in Paths,
             \/ IsPrefix(p, destination)
             \/ call.tool = "copy" /\ IsDir(before, call.src) /\ IsPrefix(call.dst, p)
      PROVE  FsInv'
  BY <1>1, <1>2, DirsStop DEF MkdirFails
<1>3. CASE At("write", "begin") /\ call.dirs /\ MkdirFails(Front(call.path))
  BY <1>1, <1>2, <1>3, CallTyped, FrontAbove DEF At, MayLeave, destination
<1>4. CASE At("mkdir", "begin") /\ call.parents /\ MkdirFails(call.path)
  BY <1>1, <1>2, <1>4, CallTyped, PrefixItself DEF At, MayLeave, destination
<1>5. CASE At("copy", "enter") /\ MkdirFails(frame.dst)
  <2>1. /\ frame \in Frames /\ IsDir(before, call.src) /\ call.tool = "copy"
    BY <1>5, FrameTyped
  <2>2. frame.dst \in Paths /\ IsPrefix(call.dst, frame.dst) /\ call.dst \in Paths
    BY <1>1, <2>1, CallTyped DEF Frames
  <2> QED
    BY <1>2, <1>5, <2>1, <2>2 DEF MayLeave, destination
<1> QED
  BY <1>3, <1>4, <1>5 DEF DirsFail

LEMMA RemoveStopsStep ==
  ASSUME FsInv, RemoveStops
  PROVE  FsInv'
<1>1. /\ Failure /\ call.tool = "remove" /\ call \in Calls /\ call.path \in Paths
      /\ pc = "begin" /\ touched = {} /\ IsTree(disk) /\ Return(Error)
      /\ DOMAIN disk \subseteq DOMAIN before \cup foreign
  BY CallTyped DEF RemoveStops, At, FsInv, TypeOK, Shapes, Fresh, Early
<1>2. PICK gone \in SUBSET (Under(disk, call.path) \ {call.path}) :
        /\ \A p \in gone : Under(disk, p) \subseteq gone
        /\ disk' = Restrict(disk, DOMAIN disk \ gone)
        /\ touched' = touched \cup gone
  BY DEF RemoveStops
<1>3. IsTree(disk')
  BY <1>1, <1>2, PartsTree DEF Under
<1>4. touched' \subseteq DOMAIN disk' \cup DOMAIN before \cup foreign
  BY <1>1, <1>2 DEF Under
<1>5. \A p \in touched' : MayTouch(p)
  BY <1>1, <1>2 DEF MayTouch, Under, IsStrictPrefix
<1> QED
  BY <1>1, <1>3, <1>4, <1>5, ReturnStep DEF Error

LEMMA DiskFailsStep ==
  ASSUME FsInv, DiskFails
  PROVE  FsInv'
<1>1. CASE CallFails
  <2>1. Failure /\ Refuse /\ pc # "idle"
    BY <1>1 DEF CallFails, At
  <2> QED
    BY <2>1, RefuseStep
<1>2. CASE StreamStops
  <2>1. IsFile(disk, srcPath(frame.entry))
    BY <1>2 DEF StreamStops, At, FsInv, Holds
  <2>2. disk[srcPath(frame.entry)].text \in Seq(Words)
    BY <2>1, TextTyped
  <2> QED
    BY <1>2, <2>2, PartTyped, StreamWrites DEF StreamStops
<1>3. CASE \E entry : DirPassesOver(entry)
  BY <1>3, EntryPassed DEF DirPassesOver
<1>4. CASE StatFails
  <2>1. Failure /\ UNCHANGED localVars /\ GoTo("open") /\ pc \in Early
    BY <1>4 DEF StatFails, At, Early
  <2>2. Holds'
    BY <1>4, <2>1 DEF StatFails, At, FsInv, Holds, GoTo, Failure, IsFile, Exists
  <2> QED
    BY <2>1, <2>2, GoStep DEF FsInv, TypeOK, Shapes, localVars
<1>5. CASE WalkLoses
  <2>1. PICK lost : walk' = [walk EXCEPT !.pending = @ \ lost]
    BY <1>5 DEF WalkLoses
  <2>2. walk' = [pending |-> walk.pending \ lost, found |-> walk.found, cut |-> walk.cut]
    BY <2>1 DEF FsInv, Shapes
  <2>3. /\ walk'.pending \subseteq DOMAIN disk /\ walk'.cut \in BOOLEAN
        /\ walk' = [pending |-> walk'.pending, found |-> walk'.found, cut |-> walk'.cut]
    BY <2>2 DEF FsInv, TypeOK
  <2> QED
    BY <1>5, <2>3, WalkGoes DEF WalkLoses
<1> QED
  BY <1>1, <1>2, <1>3, <1>4, <1>5, WriteStopsStep, DirsFailStep, RemoveStopsStep DEF DiskFails

LEMMA FsNextInv == FsInv /\ [Next]_vars => FsInv'
<1> SUFFICES ASSUME FsInv, [Next]_vars PROVE FsInv'
  OBVIOUS
<1>1. CASE UNCHANGED vars
  <2>1. UNCHANGED <<disk, call, pc, buf, size, frames, walk, result, before, touched, foreign,
                    failures, calls, outside>>
    BY <1>1 DEF vars, localVars, historyVars, boundVars
  <2>2. TypeOK' /\ Shapes' /\ Fresh' /\ Holds'
    BY <2>1 DEF FsInv, TypeOK, Shapes, Fresh, MayLeave, Holds, srcPath, dstPath, frame
  <2>3. /\ (MayLeave' <=> MayLeave) /\ Frames' = Frames
        /\ \A q : MayTouch(q)' <=> MayTouch(q)
    BY <2>1 DEF MayLeave, Frames, MayTouch, destination
  <2>4. Nesting' /\ Contained' /\ FailedCallsContained'
    BY <2>1, <2>3 DEF FsInv, Nesting, Contained, FailedCallsContained
  <2> QED
    BY <2>2, <2>4 DEF FsInv
<1>2. CASE CallStep
  <2>1. CASE \E entry : DirNested(entry) \/ DirFile(entry)
    BY <2>1, DirNestedStep, DirFileStep
  <2> QED
    BY <1>2, <2>1, ReadStep, WriteStep, AppendStep, PatchStep, CopyFileStep, DirEnterStep,
       DirReadStep, DirStreamStep, DirLeaveStep, MoveStep, RemoveStep, MkdirStep, StatStep, WalkStep
       DEF CallStep
<1> QED
  BY <1>1, <1>2, DiskFailsStep, BeginStep, OutsideStep DEF Next

LEMMA FsInvariant == Spec => []FsInv
BY FsInitInv, FsNextInv, PTL DEF Spec

\* The disk stays a tree, whatever the tools and other processes do to it, and the
\* handlers' variables have their types.
THEOREM FsTypeCorrect == Spec => []TypeOK
<1>1. FsInv => TypeOK
  BY DEF FsInv
<1> QED
  BY <1>1, FsInvariant, PTL

\* The handlers of fs.go that return an error have changed nothing if the disk has not
\* failed, but for copyDir and os.MkdirAll; and whatever fails, nothing but what they
\* were to change: whatever other processes write between their steps.
THEOREM FailedCallsLeaveDisk == Spec => []FailedCallsContained
<1>1. FsInv => FailedCallsContained
  BY DEF FsInv
<1> QED
  BY <1>1, FsInvariant, PTL

-----------------------------------------------------------------------------
(* copyDir and what was there before.                                      *)

\* While copyDir runs, the changes are its own.
LEMMA TreeCopyStep ==
  ASSUME FsInv, Next, frames # <<>>, ~call.overwrite, outside' = outside
  PROVE  Same(disk, disk', DOMAIN disk \ touched)
<1> USE DEF Same, Exists
<1>1. /\ call.tool = "copy" /\ pc \in {"enter", "readdir", "entries", "stream"} /\ IsTree(disk)
  BY DEF FsInv, Nesting, TypeOK
<1>2. CASE UNCHANGED disk
  BY <1>2
<1>3. CASE DirEnter \/ DirsFail
  <2>1. frame.dst \in Paths /\ At("copy", "enter")
    BY <1>1, <1>3, FrameTyped DEF DirEnter, DirsFail, At, Frames
  <2>2. PICK p \in Ancestors(frame.dst) :
          UNCHANGED disk \/ ((\A q \in Ancestors(frame.dst) : ~IsFile(disk, q))
                             /\ disk' = MkdirAll(disk, p))
    <3>1. CASE DirsFail
      BY <1>1, <2>1, <3>1 DEF DirsFail, At, MkdirFails, MkdirStops, MakeDirs
    <3>2. CASE DirEnter /\ MkdirRefused(frame.dst) /\ Len(frame.dst) > MaxDepth
      <4>1. MaxDepth \in 0 .. Len(frame.dst)
        BY <2>1, <3>2, FsAssumption, PathLen
      <4>2. SubSeq(frame.dst, 1, MaxDepth) \in Ancestors(frame.dst)
        BY <4>1 DEF Ancestors
      <4> QED
        BY <3>2, <4>2 DEF MkdirRefused, Refuse, MkdirStops, MakeDirs
    <3>3. CASE DirEnter /\ Refuse
      BY <2>1, <3>3, PrefixItself, AncestorsAre DEF Refuse
    <3>4. CASE CanMkdirAll(disk, frame.dst) /\ MakeDirs(frame.dst)
      BY <2>1, <3>4, PrefixItself, AncestorsAre DEF CanMkdirAll, MakeDirs
    <3> QED
      BY <1>3, <3>1, <3>2, <3>3, <3>4 DEF DirEnter, MkdirRefused
  <2>3. p \in Paths /\ Ancestors(p) \subseteq Ancestors(frame.dst)
    BY <2>1, AncestorsTyped, AncestorsWithin
  <2> QED
    BY <1>1, <2>2, <2>3, MkdirTree
<1>4. CASE \E entry : DirFile(entry)
  <2>1. PICK entry : DirFile(entry)
    BY <1>4
  <2>2. \/ UNCHANGED disk
        \/ ~Exists(disk, dstPath(entry)) /\ disk' = Put(disk, dstPath(entry), File(<<>>))
    BY <2>1 DEF DirFile, GoTo, DestinationOpens, Write
  <2> QED
    BY <2>2 DEF Put
<1>5. CASE DirStream \/ StreamStops
  <2> DEFINE to == dstPath(frame.entry)
  <2>1. to \in touched /\ \E node : disk' = Put(disk, to, node)
    BY <1>5 DEF DirStream, StreamStops, At, FsInv, Holds, Write
  <2> QED
    BY <2>1 DEF Put
<1>6. CASE DirRead \/ DirLeave \/ \E entry : DirNested(entry) \/ DirPassesOver(entry)
  BY <1>6 DEF DirRead, DirLeave, DirNested, DirPassesOver, GoTo
<1>7. CASE \E p \in Shared : OutsideWrite(p)
  BY <1>7 DEF OutsideWrite, FsInv, TypeOK
<1>8. CASE CallFails
  BY <1>8 DEF CallFails, Refuse
<1>9. DiskFails => CallFails \/ DirsFail \/ StreamStops \/ \E entry : DirPassesOver(entry)
  BY <1>1 DEF DiskFails, At, WriteStops, StatFails, RemoveStops, WalkLoses
<1> QED
  BY <1>1, <1>2, <1>3, <1>4, <1>5, <1>6, <1>7, <1>8, <1>9
     DEF Next, CallStep, Begin, At, ReadOpen, ReadData, WriteDirs, WriteTruncate, WriteData,
         AppendOpen, AppendData, PatchRead, PatchTruncate, PatchData, CopyStat, CopyCheck,
         CopyOpen, CopyTruncate, CopyData, MoveCheck, MoveRename, RemovePath, Mkdir, Stat,
         WalkBegin, WalkEnds, SearchRg, ListVisit, SearchVisit, GlobVisit, Walking

\* copyDir without overwrite (O_EXCL): a file it has not made itself is not changed by
\* it, were it put there while it runs.
THEOREM TreeCopyKeeps == Spec => TreeCopyKeepsFiles
<1>1. FsInv /\ [Next]_vars =>
        [frames # <<>> /\ ~call.overwrite /\ outside' = outside =>
           Same(disk, disk', DOMAIN disk \ touched)]_vars
  BY TreeCopyStep
<1> QED
  BY <1>1, FsInvariant, PTL DEF Spec, TreeCopyKeepsFiles

-----------------------------------------------------------------------------
(* What fsRead and fsList say of what they leave out.                      *)

\* A file only gets longer while fsRead has it open.
ReadGrown == At("read", "data") => Len(disk[call.path].text) >= size

Walks == pc = "walk" => call.tool \in {"list", "search", "glob"}

\* An entry fsList comes to: no directory between it and the root is hidden.
Reached(p) ==
  /\ p \in Under(disk, call.path)
  /\ \A q \in Under(disk, call.path) :
       IsPrefix(q, p) /\ q # p /\ q # call.path => call.all \/ Last(q) \notin Hidden
  /\ call.recursive \/ Len(p) <= Len(call.path) + 1

\* What WalkDir has yet to visit is apart from what was found, and together they
\* are all there is to find.
Parted(pending, found) ==
  /\ found \subseteq ToFind(disk)
  /\ \A p \in pending : Reached(p)
  /\ \A p, r \in pending : IsPrefix(p, r) => p = r
  /\ \A p \in pending, f \in found : ~IsPrefix(p, f)
  /\ \A q \in ToFind(disk) : q \in found \/ \E p \in pending : IsPrefix(p, q)

ListWalk ==
  At("list", "walk") /\ Undisturbed =>
    IF walk.cut
    THEN walk.pending = {} /\ Cardinality(ToFind(disk)) > call.max
    ELSE Cardinality(walk.found) <= call.max /\ Parted(walk.pending, walk.found)

CutInv == Walks /\ ReadGrown /\ ListWalk /\ ReadSays /\ ListSays

LEMMA ListFinds ==
  ASSUME call.tool = "list", NEW d, NEW p
  PROVE  p \in ToFind(d) <=>
           /\ p \in Under(d, call.path)
           /\ \/ call.all
              \/ /\ Last(p) \notin Hidden
                 /\ \A q \in Under(d, call.path) :
                      IsPrefix(q, p) /\ q # call.path => Last(q) \notin Hidden
           /\ call.recursive \/ Len(p) <= Len(call.path) + 1
<1> DEFINE tree == Under(d, call.path)
           Between(x) == {q \in tree : IsPrefix(q, x) /\ q # call.path} \cup {x}
           listed == {x \in tree : (call.all \/ \A q \in Between(x) : Last(q) \notin Hidden)
                                     /\ (call.recursive \/ Len(x) <= Len(call.path) + 1)}
<1>1. ToFind(d) = listed
  BY DEF ToFind
<1> QED
  BY <1>1

\* Towards what is below a directory there is an entry of it.
LEMMA EntryTowards ==
  ASSUME NEW d, IsTree(d), NEW p \in Paths, NEW q \in DOMAIN d, IsPrefix(p, q), p # q
  PROVE  \E e \in Entries(d, p) : IsPrefix(e, q)
<1> DEFINE e == SubSeq(q, 1, Len(p) + 1)
<1>1. q \in Paths
  BY DEF IsTree
<1>2. Len(p) \in Nat /\ Len(q) \in Nat /\ Len(p) <= Len(q) /\ \A i \in 1 .. Len(p) : p[i] = q[i]
  BY <1>1, PathLen, PrefixIs
<1>3. Len(p) # Len(q)
  BY <1>1, <1>2, PrefixBothWays
<1>4. Len(p) + 1 \in 0 .. Len(q)
  BY <1>2, <1>3
<1>5. e \in Paths /\ Len(e) = Len(p) + 1 /\ \A i \in 1 .. Len(p) + 1 : e[i] = q[i]
  BY <1>1, <1>4, PathStart
<1> HIDE DEF e
<1>6. e # <<>>
  BY <1>2, <1>5, PathLen
<1>7. Front(e) = p
  <2>1. /\ Front(e) \in Paths /\ Len(Front(e)) = Len(e) - 1
        /\ \A i \in 1 .. Len(e) - 1 : Front(e)[i] = e[i]
    BY <1>5, <1>6, FrontIs
  <2>3. Len(e) - 1 = Len(p)
    BY <1>2, <1>5
  <2>4. Len(Front(e)) = Len(p) /\ \A i \in 1 .. Len(p) : Front(e)[i] = e[i]
    BY <2>1, <2>3
  <2>2. \A i \in 1 .. Len(p) : Front(e)[i] = p[i]
    BY <1>2, <1>5, <2>4
  <2> QED
    BY <2>1, <2>2, <2>4, PathsEqual
<1>8. IsPrefix(e, q)
  BY <1>1, <1>2, <1>4, <1>5, PrefixIs
<1>9. e \in DOMAIN d
  BY <1>5, <1>8, TreePrefix DEF IsDir, Exists
<1> QED
  BY <1>6, <1>7, <1>8, <1>9 DEF Entries

\* An entry of a directory is below it, and below what it is below.
LEMMA EntryBelow ==
  ASSUME NEW d, IsTree(d), NEW p \in Paths, NEW e \in Entries(d, p)
  PROVE  /\ e \in DOMAIN d /\ e \in Paths /\ IsPrefix(p, e) /\ e # p /\ Len(e) = Len(p) + 1
         /\ ~IsPrefix(e, p) /\ \A q \in Paths : IsPrefix(q, e) <=> q = e \/ IsPrefix(q, p)
<1>1. e \in DOMAIN d /\ e \in Paths /\ e # <<>> /\ Front(e) = p
  BY DEF Entries, IsTree
<1>2. Len(e) \in Nat /\ Len(p) \in Nat /\ Len(p) = Len(e) - 1
  BY <1>1, FrontIs, PathLen
<1> QED
  BY <1>1, <1>2, PrefixOfFront

\* What the walk has found is a finite set, and so is what there is to find.
LEMMA FindsFinite ==
  ASSUME FsInv, call.tool = "list"
  PROVE  /\ IsFiniteSet(ToFind(disk)) /\ Cardinality(ToFind(disk)) \in Nat
         /\ \A f \in SUBSET ToFind(disk) : IsFiniteSet(f) /\ Cardinality(f) \in Nat
<1>1. ToFind(disk) \subseteq DOMAIN disk
  BY ListFinds DEF Under
<1>2. IsFiniteSet(DOMAIN disk)
  BY DEF FsInv, TypeOK, IsTree
<1>3. IsFiniteSet(ToFind(disk)) /\ \A f \in SUBSET ToFind(disk) : IsFiniteSet(f)
  BY <1>1, <1>2, FS_Subset
<1> QED
  BY <1>3, FS_CardinalityType

\* The visitor goes on: it takes the entry or passes it over, and its entries follow
\* or what is below it is not to be found.
LEMMA VisitParted ==
  ASSUME FsInv, call.tool = "list", NEW pending, NEW found, Parted(pending, found),
         NEW p \in pending, NEW finds \in SUBSET {p}, finds \subseteq ToFind(disk),
         NEW more \in SUBSET Entries(disk, p), \A e \in more : Reached(e),
         \A q \in ToFind(disk) :
           IsPrefix(p, q) => q \in finds \/ \E e \in more : IsPrefix(e, q)
  PROVE  Parted((pending \ {p}) \cup more, found \cup finds)
<1> DEFINE rest == pending \ {p}
<1>1. IsTree(disk) /\ \A q \in DOMAIN disk : q \in Paths
  BY DEF FsInv, TypeOK, IsTree
<1>2. /\ \A q \in pending : q \in DOMAIN disk /\ q \in Paths
      /\ \A q \in ToFind(disk) : q \in DOMAIN disk /\ q \in Paths
  BY <1>1, ListFinds DEF Parted, Reached, Under
<1>3. ASSUME NEW e \in more
      PROVE  /\ e \in Paths /\ IsPrefix(p, e) /\ ~IsPrefix(e, p)
             /\ \A q \in Paths : IsPrefix(q, e) <=> q = e \/ IsPrefix(q, p)
  BY <1>1, <1>2, EntryBelow
<1>4. \A r \in rest : ~IsPrefix(r, p) /\ ~IsPrefix(p, r)
  BY DEF Parted
<1>5. ASSUME NEW e \in more, NEW q \in Paths, ~IsPrefix(p, q)
      PROVE  ~IsPrefix(e, q)
  BY <1>2, <1>3, <1>5, PrefixTransitive
<1>6. \A q, r \in rest \cup more : IsPrefix(q, r) => q = r
  <2>1. \A q, r \in rest : IsPrefix(q, r) => q = r
    BY DEF Parted
  <2>2. \A q \in rest, r \in more : IsPrefix(q, r) => q = r
    BY <1>2, <1>3, <1>4
  <2>3. \A q \in more, r \in rest : ~IsPrefix(q, r)
    BY <1>2, <1>4, <1>5
  <2>4. \A q, r \in more : IsPrefix(q, r) => q = r
    BY <1>3
  <2> QED
    BY <2>1, <2>2, <2>3, <2>4
<1>7. \A q \in rest \cup more, f \in found \cup finds : ~IsPrefix(q, f)
  <2>1. \A q \in pending, f \in found : ~IsPrefix(q, f) /\ f \in Paths
    BY <1>2 DEF Parted
  <2>2. \A q \in more, f \in found : ~IsPrefix(q, f)
    BY <1>5, <2>1
  <2> QED
    BY <1>3, <1>4, <2>1, <2>2
<1>8. \A q \in ToFind(disk) : q \in found \cup finds \/ \E r \in rest \cup more : IsPrefix(r, q)
  BY DEF Parted
<1>9. \A q \in rest \cup more : Reached(q)
  BY DEF Parted
<1> HIDE DEF rest
<1>10. found \cup finds \subseteq ToFind(disk)
  BY DEF Parted
<1>11. Parted(rest \cup more, found \cup finds)
  BY <1>6, <1>7, <1>8, <1>9, <1>10 DEF Parted
<1> QED
  BY <1>11 DEF rest

\* An entry fsList comes to that is not hidden is to be found; of one that is hidden
\* and is not the root, nothing is.
LEMMA ReachedFinds ==
  ASSUME FsInv, call.tool = "list", NEW p, Reached(p)
  PROVE  /\ ~hides(p) => p \in ToFind(disk)
         /\ hides(p) => /\ p \notin ToFind(disk)
                        /\ p # call.path =>
                             \A q \in ToFind(disk) : ~IsPrefix(p, q)
<1>1. p \in Under(disk, call.path) /\ (call.recursive \/ Len(p) <= Len(call.path) + 1)
  BY DEF Reached
<1>2. \/ call.all
      \/ \A q \in Under(disk, call.path) :
           IsPrefix(q, p) /\ q # p /\ q # call.path => Last(q) \notin Hidden
  BY DEF Reached
<1>3. ~hides(p) => p \in ToFind(disk)
  <2>1. ~hides(p) => call.all \/ Last(p) \notin Hidden
    BY DEF hides
  <2> QED
    BY <1>1, <1>2, <2>1, ListFinds
<1>4. ASSUME hides(p)
      PROVE  p \notin ToFind(disk) /\ (p # call.path => \A q \in ToFind(disk) : ~IsPrefix(p, q))
  <2>1. ~call.all /\ Last(p) \in Hidden
    BY <1>4 DEF hides
  <2> QED
    BY <1>1, <2>1, ListFinds
<1> QED
  BY <1>3, <1>4

\* The entries of one fsList comes to and enters.
LEMMA EntriesReached ==
  ASSUME FsInv, call \in Calls, call.tool = "list", NEW p, Reached(p),
         p = call.path \/ (call.recursive /\ ~hides(p)),
         NEW e \in Entries(disk, p)
  PROVE  Reached(e)
<1>1. call.path \in Paths /\ p \in Paths /\ IsPrefix(call.path, p) /\ IsTree(disk)
  BY CallTyped DEF FsInv, TypeOK, IsTree, Reached, Under
<1>2. /\ e \in DOMAIN disk /\ e \in Paths /\ IsPrefix(p, e) /\ Len(e) = Len(p) + 1
      /\ \A q \in Paths : IsPrefix(q, e) <=> q = e \/ IsPrefix(q, p)
  BY <1>1, EntryBelow
<1>3. e \in Under(disk, call.path)
  BY <1>1, <1>2, PrefixTransitive DEF Under
<1>4. ASSUME NEW q \in Under(disk, call.path), IsPrefix(q, e), q # e, q # call.path
      PROVE  call.all \/ Last(q) \notin Hidden
  <2>1. q \in Paths /\ IsPrefix(call.path, q) /\ IsPrefix(q, p)
    BY <1>1, <1>2, <1>4 DEF Under, IsTree
  <2>2. p # call.path
    BY <1>1, <1>4, <2>1, PrefixIs, PrefixBothWays
  <2>3. CASE q = p
    BY <2>2, <2>3 DEF hides
  <2>4. CASE q # p
    BY <1>4, <2>1, <2>4 DEF Reached
  <2> QED
    BY <2>3, <2>4
<1>5. call.recursive \/ Len(e) <= Len(call.path) + 1
  BY <1>1, <1>2, PathLen
<1> QED
  BY <1>3, <1>4, <1>5 DEF Reached

LEMMA FindsStay ==
  ASSUME call.tool = "list", UNCHANGED <<disk, call>>
  PROVE  /\ ToFind(disk)' = ToFind(disk)
         /\ \A pending, found : Parted(pending, found) => Parted(pending, found)'
<1>1. ToFind(disk)' = ToFind(disk)
  BY DEF ToFind, Under
<1>2. \A p : Reached(p) => Reached(p)'
  BY DEF Reached, Under
<1> QED
  BY <1>1, <1>2 DEF Parted

LEMMA ListVisitStep ==
  ASSUME FsInv, ListWalk, Undisturbed, NEW p \in walk.pending, ListVisit(p)
  PROVE  ListWalk'
<1>1. /\ At("list", "walk") /\ Step /\ UNCHANGED <<disk, call>>
      /\ call.tool = "list" /\ call \in Calls
  BY DEF ListVisit, Walking, At, Step, GoTo, FsInv, Shapes
<1>2. ~walk.cut /\ Cardinality(walk.found) <= call.max /\ Parted(walk.pending, walk.found)
  BY <1>1 DEF ListWalk
<1>3. Reached(p) /\ IsTree(disk) /\ p \in DOMAIN disk /\ p \in Paths /\ IsPrefix(p, p)
  BY <1>2, PrefixItself DEF Parted, FsInv, TypeOK, IsTree
<1>4. p \notin walk.found
  BY <1>2, <1>3 DEF Parted
<1>5. /\ IsFiniteSet(walk.found) /\ IsFiniteSet(ToFind(disk)) /\ walk.found \subseteq ToFind(disk)
      /\ Cardinality(walk.found) \in Nat /\ Cardinality(ToFind(disk)) \in Nat
  BY <1>1, <1>2, FindsFinite DEF Parted
<1>6. call.path \in Paths /\ call.max \in Nat /\ call.recursive \in BOOLEAN
  BY <1>1, CallTyped
<1> DEFINE below == Entries(disk, p)
<1>7. CASE ~hides(p) /\ full /\ SkipAll(TRUE)
  <2>1. walk'.cut = TRUE /\ walk'.pending = {}
    BY <1>7 DEF SkipAll, FsInv, Shapes
  <2>2. p \in ToFind(disk)
    BY <1>1, <1>3, <1>7, ReachedFinds
  <2>3. Cardinality(walk.found \cup {p}) = Cardinality(walk.found) + 1
    BY <1>4, <1>5, FS_AddElement
  <2>4. Cardinality(walk.found \cup {p}) <= Cardinality(ToFind(disk))
    BY <1>5, <2>2, FS_Subset
  <2>5. Cardinality(ToFind(disk)) > call.max
    BY <1>5, <1>6, <1>7, <2>3, <2>4 DEF full
  <2> QED
    BY <1>1, <2>1, <2>5, FindsStay DEF ListWalk
<1>8. ASSUME NEW finds \in SUBSET {p}, NEW descend \in BOOLEAN, Visit(p, finds, descend),
             finds \subseteq ToFind(disk), Cardinality(walk.found \cup finds) <= call.max,
             descend => \A e \in below : Reached(e),
             \A q \in ToFind(disk) : IsPrefix(p, q) =>
               q \in finds \/ (descend /\ \E e \in below : IsPrefix(e, q))
      PROVE  ListWalk'
  <2> DEFINE more == IF descend THEN below ELSE {}
  <2>1. /\ walk'.found = walk.found \cup finds
        /\ walk'.pending = (walk.pending \ {p}) \cup more /\ walk'.cut = walk.cut
    BY <1>8, VisitIs
  <2>2. /\ more \in SUBSET Entries(disk, p) /\ \A e \in more : Reached(e)
        /\ \A q \in ToFind(disk) : IsPrefix(p, q) => q \in finds \/ \E e \in more : IsPrefix(e, q)
    BY <1>8
  <2> HIDE DEF more
  <2>3. Parted((walk.pending \ {p}) \cup more, walk.found \cup finds)
    BY <1>1, <1>2, <1>8, <2>2, VisitParted
  <2>4. Parted(walk.pending, walk.found)'
    BY <1>1, <2>1, <2>3, FindsStay
  <2>5. Cardinality(walk.found)' <= call'.max /\ ~walk'.cut
    BY <1>1, <1>2, <1>8, <2>1
  <2> QED
    BY <2>4, <2>5 DEF ListWalk
<1>9. \A q \in ToFind(disk) : IsPrefix(p, q) /\ p # q => \E e \in below : IsPrefix(e, q)
  BY <1>1, <1>3, ListFinds, EntryTowards DEF Under
<1>10. CASE hides(p) /\ Visit(p, {}, p = call.path)
  <2>1. p \notin ToFind(disk) /\ (p # call.path => \A q \in ToFind(disk) : ~IsPrefix(p, q))
    BY <1>1, <1>3, <1>10, ReachedFinds
  <2>2. \A q \in ToFind(disk) : IsPrefix(p, q) =>
          p = call.path /\ \E e \in below : IsPrefix(e, q)
    BY <1>9, <2>1
  <2>3. p = call.path => \A e \in below : Reached(e)
    BY <1>1, <1>3, EntriesReached
  <2>4. walk.found \cup {} = walk.found /\ {} \in SUBSET {p} /\ {} \subseteq ToFind(disk)
    OBVIOUS
  <2>5. Cardinality(walk.found \cup {}) <= call.max
    BY <1>2, <2>4
  <2>6. (p = call.path) \in BOOLEAN
    OBVIOUS
  <2> QED
    BY <1>8, <1>10, <2>2, <2>3, <2>4, <2>5, <2>6
<1>11. CASE ~hides(p) /\ ~full /\ Visit(p, {p}, p = call.path \/ call.recursive)
  <2>1. p \in ToFind(disk)
    BY <1>1, <1>3, <1>11, ReachedFinds
  <2>2. Cardinality(walk.found \cup {p}) <= call.max
    <3>1. Cardinality(walk.found \cup {p}) = Cardinality(walk.found) + 1
      BY <1>4, <1>5, FS_AddElement
    <3>2. ~(Cardinality(walk.found) >= call.max)
      BY <1>11 DEF full
    <3> QED
      BY <1>5, <1>6, <3>1, <3>2
  <2>3. p = call.path \/ call.recursive => \A e \in below : Reached(e)
    BY <1>1, <1>3, <1>11, EntriesReached
  <2>4. ASSUME NEW q \in ToFind(disk), IsPrefix(p, q), q # p
        PROVE  p = call.path \/ call.recursive
    <3>1. IsPrefix(call.path, p) /\ q \in Paths /\ (call.recursive \/ Len(q) <= Len(call.path) + 1)
      BY <1>1, <1>3, <2>4, ListFinds DEF Reached, Under, IsTree
    <3>2. Len(p) < Len(q) /\ Len(p) \in Nat /\ Len(q) \in Nat /\ Len(call.path) \in Nat
      BY <1>3, <1>6, <2>4, <3>1, PathLen, PrefixBothWays
    <3>3. Len(p) <= Len(call.path) => p = call.path
      BY <1>3, <1>6, <3>1, PrefixBothWays
    <3> QED
      BY <3>1, <3>2, <3>3
  <2>5. \A q \in ToFind(disk) : IsPrefix(p, q) =>
          q \in {p} \/ ((p = call.path \/ call.recursive) /\ \E e \in below : IsPrefix(e, q))
    BY <1>9, <2>4
  <2>6. (p = call.path \/ call.recursive) \in BOOLEAN
    OBVIOUS
  <2> QED
    BY <1>8, <1>11, <2>1, <2>2, <2>3, <2>5, <2>6
<1> QED
  BY <1>7, <1>10, <1>11 DEF ListVisit

\* A call of another tool, or one that is refused.
LEMMA CutElsewhere ==
  ASSUME CutInv, UNCHANGED call,
         \/ call.tool \notin {"read", "list"} /\ (pc' = "walk" => call.tool \in {"search", "glob"})
         \/ pc' = "idle" /\ result'.status = "error"
  PROVE  CutInv'
BY DEF CutInv, Walks, ReadGrown, ListWalk, ReadSays, ListSays, At, Succeeded, Returned

LEMMA ReadCut ==
  ASSUME FsInv, CutInv, ReadOpen \/ ReadData
  PROVE  CutInv'
<1>1. CASE ReadOpen
  <2>1. CASE Refuse
    BY <1>1, <2>1, CutElsewhere DEF ReadOpen, Step, Refuse, Return, Error
  <2>2. CASE GoTo("data") /\ size' = Len(disk[call.path].text)
    <3>1. call' = call /\ call.tool = "read" /\ disk' = disk /\ pc' = "data"
      BY <1>1, <2>2 DEF ReadOpen, At, Step, GoTo
    <3>2. size' \in Nat
      BY <1>1, FsNextInv, TextTyped, LenProperties DEF ReadOpen, Next, CallStep, FsInv, TypeOK
    <3> QED
      BY <2>2, <3>1, <3>2 DEF CutInv, Walks, ReadGrown, ListWalk, ReadSays, ListSays, At, Succeeded, Returned
  <2> QED
    BY <1>1, <2>1, <2>2 DEF ReadOpen
<1>2. CASE ReadData
  <2> DEFINE text == disk[call.path].text
             from == SeekTo(call.offset)
             end == Min({from + call.max, Len(text)})
             content == SubSeq(text, from + 1, end)
  <2>1. /\ call' = call /\ call.tool = "read" /\ call \in Calls /\ pc = "data" /\ pc' = "idle"
        /\ result' = [status |-> "ok", content |-> content, size |-> size,
                      rest |-> Len(text) > from + Len(content),
                      truncated |-> Truncated(Len(content))]
    BY <1>2 DEF ReadData, At, Step, Return, FsInv, Shapes
  <2>2. text \in Seq(Words) /\ size \in Nat /\ Len(text) >= size
    BY <2>1, TextTyped DEF CutInv, ReadGrown, At, FsInv, TypeOK, Holds
  <2>3. call.offset \in Int /\ call.max \in Nat \ {0} /\ Len(text) \in Nat
    BY <2>1, <2>2, CallTyped, LenProperties
  <2> HIDE DEF text
  <2>4. from \in Nat
    BY <2>3 DEF SeekTo
  <2>5. end \in {from + call.max, Len(text)} /\ end <= from + call.max /\ end <= Len(text)
    BY <2>3, <2>4 DEF Min
  <2> HIDE DEF end
  <2>6. \A i \in from + 1 .. end : text[i] \in Words
    BY <2>2, <2>3, <2>4, <2>5, ElementOfSeq
  <2>7. Len(content) = IF from + 1 <= end THEN end - (from + 1) + 1 ELSE 0
    BY <2>3, <2>4, <2>5, <2>6, SubSeqProperties
  <2> HIDE DEF content
  <2>8. ASSUME call.offset >= 0
        PROVE  /\ Truncated(Len(content)) => Len(text) > from + Len(content)
               /\ ~Truncated(Len(content)) => call.offset + Len(content) >= size
    <3>1. from = call.offset
      BY <2>3, <2>8 DEF SeekTo
    <3> HIDE DEF from
    <3>2. CASE end = from + call.max
      <4>1. Len(content) = call.max
        BY <2>3, <2>4, <2>7, <3>2
      <4> QED
        BY <2>2, <2>3, <2>5, <3>1, <3>2, <4>1 DEF Truncated
    <3>3. CASE end = Len(text) /\ end < from + call.max
      <4>1. Len(content) < call.max /\ Len(content) \in Nat /\ from + Len(content) >= Len(text)
        BY <2>3, <2>4, <2>7, <3>3
      <4> QED
        BY <2>2, <2>3, <3>1, <4>1 DEF Truncated
    <3> QED
      BY <2>3, <2>4, <2>5, <3>2, <3>3
  <2> HIDE DEF from
  <2> QED
    BY <2>1, <2>8 DEF CutInv, Walks, ReadGrown, ListWalk, ReadSays, ListSays, At, Succeeded, Returned
<1> QED
  BY <1>1, <1>2

LEMMA ListCut ==
  ASSUME FsInv, CutInv, WalkBegin \/ WalkEnds \/ \E p \in walk.pending : ListVisit(p)
  PROVE  CutInv'
<1>1. /\ call' = call /\ (Undisturbed' <=> Undisturbed) /\ disk' = disk
  BY DEF WalkBegin, WalkEnds, ListVisit, Walking, GoTo, Step, Undisturbed
<1>3. call.tool \in {"list", "search", "glob"}
  BY DEF WalkBegin, WalkEnds, ListVisit, Walking, At, CutInv, Walks
<1>2. CASE call.tool \notin {"read", "list"}
  BY <1>1, <1>2, <1>3, CutElsewhere
<1>4. CASE call.tool = "list" /\ WalkBegin
  <2>1. /\ pc' = "walk" /\ call \in Calls
        /\ walk' = [pending |-> {call.path} \cap DOMAIN disk, found |-> {}, cut |-> FALSE]
    BY <1>4 DEF WalkBegin, GoTo, NoWalk, FsInv, Shapes
  <2>2. call.path \in Paths /\ call.max \in Nat /\ IsTree(disk)
    BY <1>4, <2>1, CallTyped DEF FsInv, TypeOK
  <2>3. ASSUME NEW q \in ToFind(disk)
        PROVE  call.path \in DOMAIN disk /\ IsPrefix(call.path, q)
    <3>1. q \in DOMAIN disk /\ IsPrefix(call.path, q)
      BY <1>4, <2>3, ListFinds DEF Under
    <3> QED
      BY <2>2, <3>1, TreePrefix DEF IsDir, Exists
  <2>4. call.path \in DOMAIN disk => Reached(call.path)
    <3>1. IsPrefix(call.path, call.path) /\ Len(call.path) <= Len(call.path) + 1
      BY <2>2, PrefixItself, PathLen
    <3>2. \A q \in Under(disk, call.path) : IsPrefix(q, call.path) => q = call.path
      BY <2>2, PrefixIs, PrefixBothWays DEF Under, IsTree
    <3> QED
      BY <3>1, <3>2 DEF Reached, Under
  <2>5. Parted({call.path} \cap DOMAIN disk, {})
    BY <2>3, <2>4 DEF Parted
  <2>6. ListWalk'
    BY <1>1, <1>4, <2>1, <2>2, <2>5, FindsStay, FS_EmptySet DEF ListWalk
  <2> QED
    BY <1>1, <1>3, <2>1, <2>6 DEF CutInv, Walks, ReadGrown, ReadSays, ListSays, At, Succeeded, Returned
<1>5. CASE call.tool = "list" /\ WalkEnds
  <2>1. /\ pc = "walk" /\ pc' = "idle" /\ walk.pending = {}
        /\ result'.truncated = walk.cut
    BY <1>5 DEF WalkEnds, Return
  <2>2. ASSUME Undisturbed
        PROVE  walk.cut <=> Cardinality(ToFind(disk)) > call.max
    <3>1. CASE walk.cut
      BY <1>5, <2>1, <2>2, <3>1 DEF CutInv, ListWalk, At
    <3>2. CASE ~walk.cut
      <4>1. Cardinality(walk.found) <= call.max /\ Parted(walk.pending, walk.found)
        BY <1>5, <2>1, <2>2, <3>2 DEF CutInv, ListWalk, At
      <4>2. ToFind(disk) = walk.found
        BY <2>1, <4>1 DEF Parted
      <4>3. Cardinality(ToFind(disk)) \in Nat /\ call.max \in Nat
        BY <1>5, <2>1, FindsFinite, CallTyped DEF FsInv, Shapes
      <4> QED
        BY <3>2, <4>1, <4>2, <4>3
    <3> QED
      BY <3>1, <3>2
  <2>3. ListSays'
    BY <1>1, <1>3, <1>5, <2>1, <2>2, FindsStay DEF ListSays, Succeeded, Returned
  <2> QED
    BY <1>1, <1>5, <2>1, <2>3 DEF CutInv, Walks, ReadGrown, ListWalk, ReadSays, At, Succeeded, Returned
<1>6. CASE \E p \in walk.pending : ListVisit(p)
  <2>1. call.tool = "list" /\ pc' = "walk"
    BY <1>6 DEF ListVisit, Walking, At, GoTo
  <2>2. ListWalk'
    BY <1>1, <1>6, ListVisitStep DEF CutInv, ListWalk
  <2> QED
    BY <1>1, <2>1, <2>2 DEF CutInv, Walks, ReadGrown, ReadSays, ListSays, At, Succeeded, Returned
<1> QED
  BY <1>2, <1>3, <1>4, <1>5, <1>6

LEMMA OutsideCut ==
  ASSUME FsInv, CutInv, NEW p \in Shared, OutsideWrite(p)
  PROVE  CutInv'
<1> DEFINE old == IF IsFile(disk, p) THEN disk[p].text ELSE <<>>
<1>1. /\ UNCHANGED <<call, pc, size, walk, result>> /\ foreign' = foreign \cup {p}
      /\ disk' = Put(disk, p, File(old \o <<Other>>)) /\ Other \in Words
  BY FsAssumption DEF OutsideWrite, localVars
<1>2. ~Undisturbed'
  BY <1>1 DEF Undisturbed
<1>3. ASSUME At("read", "data")
      PROVE  Len(disk'[call.path].text) >= size
  <2>1. IsFile(disk, call.path) /\ disk[call.path].text \in Seq(Words)
    BY <1>3, TextTyped DEF FsInv, Holds, At
  <2>2. Len(disk[call.path].text) >= size /\ size \in Nat /\ Len(disk[call.path].text) \in Nat
    BY <1>3, <2>1, LenProperties DEF CutInv, ReadGrown, FsInv, TypeOK
  <2>3. CASE p = call.path
    <3>1. disk'[call.path] = File(old \o <<Other>>) /\ old = disk[call.path].text
      BY <1>1, <2>1, <2>3 DEF Put
    <3>2. <<Other>> \in Seq(Words) /\ Len(<<Other>>) = 1
      BY <1>1
    <3> HIDE DEF old
    <3>3. Len(old \o <<Other>>) = Len(old) + Len(<<Other>>)
      BY <2>1, <3>1, <3>2, ConcatProperties
    <3> QED
      BY <2>2, <3>1, <3>2, <3>3 DEF File
  <2>4. CASE p # call.path
    BY <1>1, <2>1, <2>2, <2>4 DEF Put, IsFile, Exists
  <2> QED
    BY <2>3, <2>4
<1> QED
  BY <1>1, <1>2, <1>3 DEF CutInv, Walks, ReadGrown, ListWalk, ReadSays, ListSays, At, Succeeded, Returned

\* A system call fails: the handler returns an error, or passes it over.
LEMMA FailureIs ==
  ASSUME FsInv, Walks, DiskFails
  PROVE  /\ UNCHANGED <<call, before, foreign>> /\ failures' \in Nat /\ failures' # 0
         /\ pc # "idle"
         /\ pc' = "idle" => result'.status = "error"
         /\ pc' # "idle" => /\ call.tool \in PassesOver /\ pc' # "data"
                            /\ pc' = "walk" => pc = "walk"
<1> USE DEF PassesOver
<1>1. Failure
  BY DEF DiskFails, CallFails, DirsFail, MkdirFails, WriteStops, StreamStops, DirPassesOver,
         StatFails, RemoveStops, WalkLoses
<1>2. UNCHANGED <<call, before, foreign>> /\ failures' \in Nat /\ failures' # 0
  BY <1>1, StepLeaves, FsAssumption
<1>3. Return(Error) => pc' = "idle" /\ result'.status = "error"
  BY DEF Return, Error
<1>4. CASE CallFails \/ DirsFail \/ WriteStops \/ RemoveStops
  <2>1. Return(Error) /\ pc # "idle"
    BY <1>4 DEF CallFails, DirsFail, MkdirFails, MkdirStops, WriteStops, RemoveStops, Refuse, At
  <2> QED
    BY <1>2, <1>3, <2>1
<1>5. CASE StreamStops \/ \E entry : DirPassesOver(entry)
  BY <1>2, <1>5 DEF StreamStops, DirPassesOver, At, GoTo
<1>6. CASE StatFails
  BY <1>2, <1>6 DEF StatFails, At, GoTo
<1>7. CASE WalkLoses
  BY <1>2, <1>7 DEF WalkLoses, Walks, GoTo
<1> QED
  BY <1>4, <1>5, <1>6, <1>7 DEF DiskFails

LEMMA FailureCut ==
  ASSUME FsInv, CutInv, DiskFails
  PROVE  CutInv'
<1>1. /\ UNCHANGED call /\ ~Undisturbed'
      /\ pc' = "idle" => result'.status = "error"
      /\ pc' # "idle" => pc' # "data" /\ (pc' = "walk" => pc = "walk")
  BY FailureIs DEF CutInv, Undisturbed
<1> QED
  BY <1>1 DEF CutInv, Walks, ReadGrown, ListWalk, ReadSays, ListSays, At, Succeeded, Returned

LEMMA CutNext == FsInv /\ CutInv /\ [Next]_vars => CutInv'
<1> SUFFICES ASSUME FsInv, CutInv, [Next]_vars PROVE CutInv'
  OBVIOUS
<1>1. CASE UNCHANGED vars
  <2>1. UNCHANGED <<disk, call, pc, size, walk, result, foreign, failures>>
    BY <1>1 DEF vars, localVars, historyVars
  <2> QED
    BY <2>1, FindsStay
       DEF CutInv, Walks, ReadGrown, ListWalk, ReadSays, ListSays, At, Succeeded, Returned,
           Undisturbed
<1>2. CASE \E c \in Calls : Begin(c)
  BY <1>2 DEF Begin, CutInv, Walks, ReadGrown, ListWalk, ReadSays, ListSays, At, Succeeded, Returned
<1>3. CASE CallStep
  <2>1. CASE ReadOpen \/ ReadData
    BY <2>1, ReadCut
  <2>2. CASE WalkBegin \/ WalkEnds \/ \E p \in walk.pending : ListVisit(p)
    BY <2>2, ListCut
  <2>3. CASE WriteDirs \/ WriteTruncate \/ WriteData \/ AppendOpen \/ AppendData
             \/ PatchRead \/ PatchTruncate \/ PatchData
    BY <2>3, CutElsewhere
       DEF At, Step, WriteDirs, WriteTruncate, WriteData, AppendOpen, AppendData, PatchRead,
           PatchTruncate, PatchData, Truncate, MkdirRefused, MkdirStops, GoTo, Refuse, Return
  <2>4. CASE CopyStat \/ CopyCheck \/ CopyOpen \/ CopyTruncate \/ CopyData
             \/ MoveCheck \/ MoveRename \/ RemovePath \/ Mkdir \/ Stat
    BY <2>4, CutElsewhere
       DEF At, Step, CopyStat, CopyCheck, CopyOpen, CopyTruncate, CopyData, MoveCheck, MoveRename,
           RemovePath, Mkdir, Stat, Truncate, MkdirRefused, MkdirStops, GoTo, Refuse, Return
  <2>5. CASE \/ DirEnter \/ DirRead \/ DirStream \/ DirLeave
             \/ \E entry : DirNested(entry) \/ DirFile(entry)
    BY <2>5, CutElsewhere
       DEF At, Step, DirEnter, DirRead, DirStream, DirLeave, DirNested, DirFile, MkdirRefused,
           MkdirStops, GoTo, Refuse, Return
  <2>6. CASE SearchRg \/ \E p \in walk.pending : SearchVisit(p) \/ GlobVisit(p)
    BY <2>6, CutElsewhere DEF At, Step, SearchRg, SearchVisit, GlobVisit, Walking
  <2> QED
    BY <1>3, <2>1, <2>2, <2>3, <2>4, <2>5, <2>6 DEF CallStep
<1>4. CASE \E p \in Shared : OutsideWrite(p)
  BY <1>4, OutsideCut
<1>5. CASE DiskFails
  BY <1>5, FailureCut
<1> QED
  BY <1>1, <1>2, <1>3, <1>4, <1>5 DEF Next

-----------------------------------------------------------------------------
(* What the calls that return ok have done.                                *)

\* The disk is as it was until the handler's first change; and while fsRead has its
\* file open.
Untouched ==
  \/ pc \in Early
  \/ call.tool = "read"
  \/ call.tool \in {"patch", "copy"} /\ pc = "truncate"
  => disk = before

\* d1 is d0 with the text in the file at p, and the directories above it.
Written(d0, d1, p, text) ==
  /\ DOMAIN d1 = DOMAIN d0 \cup Ancestors(p)
  /\ \A q \in Ancestors(p) \ {p} : IsDir(d1, q)
  /\ d1[p] = File(text) /\ Same(d0, d1, DOMAIN d0 \ {p})

OldText(p) == IF IsFile(before, p) THEN before[p].text ELSE <<>>

\* fsWrite, fsAppend and fsPatch: an open file is as the call will leave it, but for
\* the text that is still to be written.
WriteTells ==
  /\ At("write", "truncate") =>
       /\ DOMAIN disk = DOMAIN before \cup IF call.dirs THEN Ancestors(Front(call.path)) ELSE {}
       /\ Same(before, disk, DOMAIN before)
  /\ At("write", "data") => Written(before, disk, call.path, <<>>)
  /\ At("append", "data") => Becomes(before, disk, call.path, File(OldText(call.path)))
  /\ At("patch", "truncate") \/ At("patch", "data") =>
       /\ IsFile(before, call.path) /\ Hits(before[call.path].text) # {}
       /\ buf = Replaced(before[call.path].text)
  /\ At("patch", "data") => Becomes(before, disk, call.path, File(<<>>))

\* fsCopy of a file.
FileCopyTells ==
  call.tool = "copy" /\ pc \in {"check", "open", "truncate", "data"} =>
    /\ IsFile(before, call.src)
    /\ pc = "data" => Becomes(before, disk, call.dst, File(<<>>))

\* The paths copyDir has yet to come to, and those it has come to.
Entered(f) == {f.src \o e : e \in f.todo}
AllEntered(fs) == UNION {Entered(fs[i]) : i \in DOMAIN fs}
Ahead ==
  AllEntered(frames) \cup (IF pc = "enter" THEN {frame.src}
                           ELSE IF pc = "readdir" THEN Entries(before, frame.src) ELSE {})
DoneBut(ahead) == {p \in Under(before, call.src) : \A r \in ahead : ~IsPrefix(r, p)}
Done == DoneBut(Ahead)

\* The activations of copyDir are one below the other, and none is below what another
\* has yet to come to.
Stacked(fs) ==
  \A i \in DOMAIN fs :
    LET f == fs[i]
    IN  /\ f.src \in Under(before, call.src) /\ IsDir(before, f.src)
        /\ f.dst = Target(f.src, call.src, call.dst)
        /\ \A e \in f.todo : Len(e) = 1 /\ f.src \o e \in DOMAIN before
        /\ \A j \in 1 .. i - 1 :
              /\ IsPrefix(f.src, fs[j].src) /\ f.src # fs[j].src
              /\ \A r \in Entered(f) : ~IsPrefix(r, fs[j].src)

FramesTell ==
  /\ Stacked(frames)
  /\ pc \in {"enter", "readdir"} => frame.todo = {}
  /\ pc = "stream" => disk[dstPath(frame.entry)] = File(<<>>)

\* The disk, but for the text of the file that is being copied.
Streamed ==
  IF pc = "stream" THEN Put(disk, dstPath(frame.entry), File(disk[srcPath(frame.entry)].text))
                   ELSE disk

TreeCopyTells == frames # <<>> => FramesTell /\ TreeCopied(Done, before, Streamed)

\* A walk of fsSearch and fsGlob: what it has yet to visit and what it has found part
\* what there is to find, or it has found as much as it may.
PathOf(f) == IF call.tool = "search" THEN f[1] ELSE f
Split(pending, found) ==
  /\ pending \subseteq Under(disk, call.path)
  /\ \A p, r \in pending : IsPrefix(p, r) => p = r
  /\ \A p \in pending, f \in found : ~IsPrefix(p, PathOf(f))
  /\ \A q \in ToFind(disk) : q \in found \/ \E p \in pending : IsPrefix(p, PathOf(q))

WalkTells ==
  pc = "walk" =>
    /\ call.tool \in {"list", "search", "glob"}
    /\ walk.found \subseteq ToFind(disk) /\ Cardinality(walk.found) <= call.max
    /\ \/ Cardinality(walk.found) = call.max
       \/ IF call.tool = "list" THEN ~walk.cut ELSE Split(walk.pending, walk.found)

Tells == Untouched /\ WriteTells /\ FileCopyTells /\ TreeCopyTells /\ WalkTells

TellInv ==
  /\ IsTree(before)
  /\ pc # "idle" /\ Undisturbed /\ CopyApart(call) => Tells
  /\ pc # "idle" /\ failures > 0 => call.tool \in PassesOver
  /\ OkCallsAreDone

\* A handler returns, and if it says ok its call did what its tool promises.
LEMMA ReturnTells ==
  ASSUME TellInv, Step, pc # "idle", pc' = "idle",
         result'.status = "ok" /\ Undisturbed /\ CopyApart(call) => CallDid(before, disk)'
  PROVE  TellInv'
<1>1. UNCHANGED <<before, foreign, failures, call>>
  BY DEF Step
<1>2. CopyApart(call)' <=> CopyApart(call)
  BY <1>1 DEF CopyApart
<1> QED
  BY <1>1, <1>2 DEF TellInv, OkCallsAreDone, Undisturbed

LEMMA RefuseTells ==
  ASSUME TellInv, Step, pc # "idle", Refuse
  PROVE  TellInv'
BY ReturnTells DEF Refuse, Return, Error

LEMMA MkdirRefusedTells ==
  ASSUME TellInv, Step, pc # "idle", NEW p, MkdirRefused(p)
  PROVE  TellInv'
BY ReturnTells DEF MkdirRefused, MkdirStops, Refuse, Return, Error

\* A handler goes on.
LEMMA GoTells ==
  ASSUME TellInv, Step, pc # "idle", pc' # "idle",
         Undisturbed /\ CopyApart(call) /\ Tells => Tells'
  PROVE  TellInv'
<1>1. UNCHANGED <<before, foreign, failures, call>>
  BY DEF Step
<1>2. CopyApart(call)' <=> CopyApart(call)
  BY <1>1 DEF CopyApart
<1> QED
  BY <1>1, <1>2 DEF TellInv, OkCallsAreDone, Undisturbed

LEMMA ReadTells ==
  ASSUME FsInv, TellInv, ReadOpen \/ ReadData \/ Stat
  PROVE  TellInv'
<1>1. Step /\ call' = call /\ before' = before /\ pc # "idle"
  BY DEF ReadOpen, ReadData, Stat, At, Step
<1>2. CASE Refuse
  BY <1>1, <1>2, RefuseTells
<1>3. CASE ReadOpen /\ GoTo("data")
  <2>1. /\ call.tool = "read" /\ pc = "begin" /\ disk' = disk /\ pc' = "data"
        /\ frames' = frames /\ frames = <<>>
    BY <1>3 DEF ReadOpen, At, GoTo, FsInv, Nesting, Refuse, Return
  <2>2. Tells => Tells'
    BY <1>1, <2>1 DEF Tells, Untouched, Early, WriteTells, FileCopyTells, TreeCopyTells, WalkTells, At
  <2> QED
    BY <1>1, <2>1, <2>2, GoTells
<1>4. CASE ReadData \/ (Stat /\ ~Refuse)
  <2>1. call.tool \in {"read", "stat"} /\ disk' = disk /\ pc' = "idle" /\ (pc = "begin" \/ call.tool = "read")
    BY <1>4 DEF ReadData, Stat, At, Return
  <2>2. TellInv /\ Undisturbed /\ CopyApart(call) => disk = before
    BY <1>1, <2>1 DEF TellInv, Tells, Untouched, Early
  <2>3. Undisturbed /\ CopyApart(call) => CallDid(before, disk)'
    BY <1>1, <2>1, <2>2 DEF CallDid
  <2> QED
    BY <1>1, <2>1, <2>3, ReturnTells
<1> QED
  BY <1>2, <1>3, <1>4 DEF ReadOpen

-----------------------------------------------------------------------------
(* Writes.                                                                 *)

LEMMA EmptyOverwrite ==
  ASSUME NEW new \in Seq(Words)
  PROVE  Overwrite(<<>>, new) = new
<1>1. Len(new) \in Nat /\ Len(<<>>) = 0
  BY LenProperties
<1>2. SubSeq(<<>>, Len(new) + 1, Len(<<>>)) = <<>>
  BY <1>1, SubSeqEmpty
<1> QED
  BY <1>2, ConcatEmptySeq DEF Overwrite

\* A file that may be written.
LEMMA WritableFile ==
  ASSUME NEW d, IsTree(d), NEW p, Writable(d, p)
  PROVE  d[p] = File(d[p].text) /\ d[p].text \in Seq(Words)
BY DEF IsTree, Writable, IsFile, Exists, File, FileNodes

\* The path itself is the last of its ancestors, and the others are those of the
\* directory it is in.
LEMMA AncestorsOfFront ==
  ASSUME NEW p \in Paths
  PROVE  p \in Ancestors(p) /\ Ancestors(p) = Ancestors(Front(p)) \cup {p}
<1>1. Len(p) \in Nat /\ Front(p) \in Paths
  BY PathLen, FrontIs
<1>2. SubSeq(p, 1, Len(p)) = p
  <2>1. Len(p) \in 0 .. Len(p)
    BY <1>1
  <2> DEFINE r == SubSeq(p, 1, Len(p))
  <2>2. r \in Paths /\ Len(r) = Len(p) /\ \A i \in 1 .. Len(p) : r[i] = p[i]
    BY <2>1, PathStart
  <2> HIDE DEF r
  <2>3. r = p
    BY <2>2, PathsEqual
  <2> QED
    BY <2>3 DEF r
<1>3. p \in Ancestors(p)
  <2>1. Len(p) \in 0 .. Len(p)
    BY <1>1
  <2>2. SubSeq(p, 1, Len(p)) \in Ancestors(p)
    BY <2>1 DEF Ancestors
  <2> QED
    BY <1>2, <2>2
<1>4. CASE p = <<>>
  <2>1. Front(p) = p
    BY <1>4, FrontIs
  <2> QED
    BY <1>3, <2>1
<1>5. CASE p # <<>>
  <2>1. Len(p) > 0 /\ Len(Front(p)) = Len(p) - 1 /\ \A i \in 1 .. Len(p) - 1 : Front(p)[i] = p[i]
    BY <1>5, FrontIs, PathLen
  <2>2. ASSUME NEW i \in 0 .. Len(p) - 1
        PROVE  SubSeq(p, 1, i) = SubSeq(Front(p), 1, i)
    <3>1. i \in 0 .. Len(p) /\ i \in 0 .. Len(Front(p))
      BY <1>1, <2>1
    <3>2. /\ SubSeq(p, 1, i) \in Paths /\ Len(SubSeq(p, 1, i)) = i
          /\ \A k \in 1 .. i : SubSeq(p, 1, i)[k] = p[k]
          /\ SubSeq(Front(p), 1, i) \in Paths /\ Len(SubSeq(Front(p), 1, i)) = i
          /\ \A k \in 1 .. i : SubSeq(Front(p), 1, i)[k] = Front(p)[k]
      BY <1>1, <3>1, PathStart
    <3>3. \A k \in 1 .. i : SubSeq(p, 1, i)[k] = SubSeq(Front(p), 1, i)[k]
      BY <1>1, <2>1, <3>2
    <3> QED
      BY <3>2, <3>3, PathsEqual
  <2>3. Ancestors(Front(p)) = {SubSeq(p, 1, i) : i \in 0 .. Len(p) - 1}
    BY <2>1, <2>2 DEF Ancestors
  <2>4. 0 .. Len(p) = (0 .. Len(p) - 1) \cup {Len(p)}
    BY <1>1, <2>1
  <2>5. Ancestors(p) = {SubSeq(p, 1, i) : i \in 0 .. Len(p) - 1} \cup {SubSeq(p, 1, Len(p))}
    BY <2>4 DEF Ancestors
  <2> QED
    BY <1>2, <1>3, <2>3, <2>5
<1> QED
  BY <1>4, <1>5

\* What is above something there is are directories.
LEMMA AncestorsThere ==
  ASSUME NEW d, IsTree(d), NEW p \in DOMAIN d, NEW q \in Ancestors(p)
  PROVE  q \in DOMAIN d /\ (q # p => IsDir(d, q))
BY AncestorsTyped, TreePrefix DEF IsTree, IsDir, Exists

LEMMA WriteTellsStep ==
  ASSUME FsInv, TellInv, WriteDirs \/ WriteTruncate \/ WriteData
  PROVE  TellInv'
<1>1. /\ Step /\ call.tool = "write" /\ call' = call /\ before' = before /\ pc # "idle"
      /\ call \in Calls /\ call.path \in Paths /\ call.text \in Seq(Words) /\ IsTree(disk)
      /\ call.dirs \in BOOLEAN
  BY CallTyped DEF WriteDirs, WriteTruncate, WriteData, At, Step, FsInv, Shapes, TypeOK
<1> DEFINE p == call.path
<1>2. Front(p) \in Paths /\ Ancestors(p) = Ancestors(Front(p)) \cup {p}
  BY <1>1, FrontIs, AncestorsOfFront
<1>3. CASE Refuse \/ MkdirRefused(Front(p))
  BY <1>1, <1>3, RefuseTells, MkdirRefusedTells
<1>4. CASE WriteDirs /\ ~Refuse /\ ~MkdirRefused(Front(p))
  <2>1. /\ pc = "begin" /\ pc' = "truncate" /\ frames' = <<>>
        /\ ~call.dirs => disk' = disk
        /\ call.dirs => disk' = MkdirAll(disk, Front(p))
    BY <1>4 DEF WriteDirs, MakeDirs, At, GoTo, localVars, FsInv, Nesting
  <2>2. ASSUME disk = before
        PROVE  /\ DOMAIN disk' = DOMAIN before \cup IF call.dirs THEN Ancestors(Front(p)) ELSE {}
               /\ Same(before, disk', DOMAIN before)
    <3>1. CASE ~call.dirs
      BY <2>1, <2>2, <3>1 DEF Same, Exists
    <3>2. CASE call.dirs
      BY <2>1, <2>2, <3>2 DEF MkdirAll, Same, Exists
    <3> QED
      BY <1>1, <3>1, <3>2
  <2>3. Tells => Tells'
    BY <1>1, <2>1, <2>2 DEF Tells, Untouched, Early, WriteTells, FileCopyTells, TreeCopyTells,
         WalkTells, At
  <2> QED
    BY <1>1, <2>1, <2>3, GoTells
<1>5. CASE WriteTruncate /\ ~Refuse
  <2>1. /\ pc = "truncate" /\ pc' = "data" /\ frames' = <<>>
        /\ Creates(disk, p) /\ disk' = Put(disk, p, File(<<>>))
    BY <1>5 DEF WriteTruncate, Truncate, Write, At, localVars, FsInv, Nesting
  <2>2. ASSUME DOMAIN disk = DOMAIN before \cup IF call.dirs THEN Ancestors(Front(p)) ELSE {},
               Same(before, disk, DOMAIN before)
        PROVE  Written(before, disk', p, <<>>)
    <3>1. /\ DOMAIN disk' = DOMAIN disk \cup {p} /\ disk'[p] = File(<<>>)
          /\ \A q \in DOMAIN disk \ {p} : disk'[q] = disk[q]
      BY <2>1 DEF Put
    <3>2. IsTree(disk')
      BY <1>1, <2>1, PutTree, CreatesPlace, NewFile
    <3>3. \A q \in Ancestors(p) : q \in DOMAIN disk' /\ (q # p => IsDir(disk', q))
      BY <3>1, <3>2, AncestorsThere
    <3>4. DOMAIN disk' = DOMAIN before \cup Ancestors(p)
      <4>1. CASE call.dirs
        BY <1>2, <2>2, <3>1, <4>1
      <4>2. CASE ~call.dirs
        BY <1>2, <2>2, <3>1, <3>3, <4>2
      <4> QED
        BY <1>1, <4>1, <4>2
    <3>5. Same(before, disk', DOMAIN before \ {p})
      BY <2>2, <3>1 DEF Same, Exists
    <3> QED
      BY <3>1, <3>3, <3>4, <3>5 DEF Written
  <2>3. Tells => Tells'
    BY <1>1, <2>1, <2>2 DEF Tells, Untouched, Early, WriteTells, FileCopyTells, TreeCopyTells,
         WalkTells, At
  <2> QED
    BY <1>1, <2>1, <2>3, GoTells
<1>6. CASE WriteData
  <2>1. /\ pc = "data" /\ pc' = "idle"
        /\ disk' = Put(disk, p, File(Overwrite(disk[p].text, call.text)))
    BY <1>6 DEF WriteData, Write, At, Return
  <2>2. ASSUME Written(before, disk, p, <<>>)
        PROVE  Written(before, disk', p, call.text)
    <3>1. disk[p].text = <<>> /\ p \in DOMAIN disk
      BY <1>2, <2>2 DEF Written, File
    <3>2. disk' = Put(disk, p, File(call.text))
      BY <1>1, <2>1, <3>1, EmptyOverwrite
    <3>3. /\ DOMAIN disk' = DOMAIN disk /\ disk'[p] = File(call.text)
          /\ \A q \in DOMAIN disk \ {p} : disk'[q] = disk[q]
      BY <3>1, <3>2 DEF Put
    <3> QED
      BY <2>2, <3>3 DEF Written, Same, IsDir, Exists
  <2>3. Undisturbed /\ CopyApart(call) => CallDid(before, disk)'
    <3>1. Undisturbed /\ CopyApart(call) => Written(before, disk', p, call.text)
      BY <1>1, <2>1, <2>2 DEF TellInv, Tells, WriteTells, At
    <3> QED
      BY <1>1, <3>1 DEF CallDid, Written
  <2> QED
    BY <1>1, <2>1, <2>3, ReturnTells
<1> QED
  BY <1>3, <1>4, <1>5, <1>6

LEMMA AppendTellsStep ==
  ASSUME FsInv, TellInv, AppendOpen \/ AppendData
  PROVE  TellInv'
<1>1. /\ Step /\ call.tool = "append" /\ call' = call /\ before' = before /\ pc # "idle"
      /\ call \in Calls /\ call.path \in Paths /\ call.text \in Seq(Words) /\ IsTree(disk)
  BY CallTyped DEF AppendOpen, AppendData, At, Step, FsInv, Shapes, TypeOK
<1> DEFINE p == call.path
<1>2. CASE Refuse
  BY <1>1, <1>2, RefuseTells
<1>3. CASE AppendOpen /\ ~Refuse
  <2>1. /\ pc = "begin" /\ pc' = "data" /\ frames' = <<>>
        /\ \/ Writable(disk, p) /\ disk' = disk
           \/ ~Exists(disk, p) /\ disk' = Put(disk, p, File(<<>>))
    BY <1>3 DEF AppendOpen, Write, At, GoTo, localVars, FsInv, Nesting
  <2>2. ASSUME disk = before
        PROVE  Becomes(before, disk', p, File(OldText(p)))
    <3>1. CASE Writable(disk, p) /\ disk' = disk
      <4>1. disk[p] = File(disk[p].text) /\ IsFile(disk, p)
        BY <1>1, <3>1, WritableFile DEF Writable
      <4> QED
        BY <2>2, <3>1, <4>1 DEF Becomes, OldText, Same, IsFile, Exists
    <3>2. CASE ~Exists(disk, p) /\ disk' = Put(disk, p, File(<<>>))
      BY <2>2, <3>2 DEF Put, Becomes, OldText, Same, IsFile, Exists
    <3> QED
      BY <2>1, <3>1, <3>2
  <2>3. Tells => Tells'
    BY <1>1, <2>1, <2>2 DEF Tells, Untouched, Early, WriteTells, FileCopyTells, TreeCopyTells,
         WalkTells, At, OldText
  <2> QED
    BY <1>1, <2>1, <2>3, GoTells
<1>4. CASE AppendData
  <2>1. /\ pc = "data" /\ pc' = "idle"
        /\ disk' = Put(disk, p, File(disk[p].text \o call.text))
    BY <1>4 DEF AppendData, Appended, Write, At, Return
  <2>2. ASSUME Becomes(before, disk, p, File(OldText(p)))
        PROVE  Becomes(before, disk', p, File(OldText(p) \o call.text))
    <3>1. disk[p].text = OldText(p) /\ DOMAIN disk = DOMAIN before \cup {p}
      BY <2>2 DEF Becomes, File
    <3>2. disk' = Put(disk, p, File(OldText(p) \o call.text))
      BY <2>1, <3>1
    <3> QED
      BY <2>2, <3>1, <3>2 DEF Put, Becomes, Same, Exists
  <2>3. Undisturbed /\ CopyApart(call) => CallDid(before, disk)'
    <3>1. Undisturbed /\ CopyApart(call) => Becomes(before, disk', p, File(OldText(p) \o call.text))
      BY <1>1, <2>1, <2>2 DEF TellInv, Tells, WriteTells, At
    <3>2. "path" \in DOMAIN call
      BY <1>1, FsAssumption DEF Arguments
    <3> QED
      BY <1>1, <3>1, <3>2 DEF CallDid, OldText, Becomes
  <2> QED
    BY <1>1, <2>1, <2>3, ReturnTells
<1> QED
  BY <1>2, <1>3, <1>4

\* The first of a set of places in a text.
LEMMA FirstIs ==
  ASSUME NEW S \in SUBSET Nat, S # {}
  PROVE  Min(S) \in S /\ \A n \in S : Min(S) <= n
BY LeastNumber DEF Min

\* The text fsPatch writes: the first hit replaced, or all.
LEMMA ReplacedIs ==
  ASSUME NEW text \in Seq(Words), call.all \in BOOLEAN, Hits(text) # {}
  PROVE  /\ DOMAIN Replaced(text) = DOMAIN text
         /\ \A i \in DOMAIN text :
              Replaced(text)[i] =
                IF text[i] = call.old /\ (call.all \/ \A j \in 1 .. (i - 1) : text[j] # call.old)
                THEN call.new ELSE text[i]
<1> DEFINE chosen == IF call.all THEN Hits(text) ELSE {Min(Hits(text))}
<1>1. DOMAIN text = 1 .. Len(text) /\ Len(text) \in Nat /\ Hits(text) \in SUBSET Nat
  BY LenProperties DEF Hits
<1>2. Min(Hits(text)) \in Hits(text) /\ \A n \in Hits(text) : Min(Hits(text)) <= n
  BY <1>1, FirstIs
<1>3. Replaced(text) = [i \in DOMAIN text |-> IF i \in chosen THEN call.new ELSE text[i]]
  BY DEF Replaced
<1>4. ASSUME NEW i \in DOMAIN text
      PROVE  i \in chosen <=>
               text[i] = call.old /\ (call.all \/ \A j \in 1 .. (i - 1) : text[j] # call.old)
  <2>1. CASE call.all
    BY <2>1 DEF Hits
  <2>2. CASE ~call.all
    <3> DEFINE m == Min(Hits(text))
    <3>1. i \in chosen <=> i = m
      BY <2>2
    <3> HIDE DEF m
    <3>2. m \in Hits(text) /\ (\A n \in Hits(text) : m <= n) /\ m \in Nat
      BY <1>1, <1>2 DEF m
    <3>4. i = m => i \in Hits(text) /\ \A j \in 1 .. (i - 1) : j \notin Hits(text)
      BY <1>1, <3>2
    <3>5. i \in Hits(text) /\ (\A j \in 1 .. (i - 1) : j \notin Hits(text)) => i = m
      BY <1>1, <3>2 DEF Hits
    <3>3. \A j \in 1 .. (i - 1) : j \in Hits(text) <=> text[j] = call.old
      BY <1>1 DEF Hits
    <3> QED
      BY <2>2, <3>1, <3>3, <3>4, <3>5 DEF Hits
  <2> QED
    BY <2>1, <2>2
<1> HIDE DEF chosen
<1> QED
  BY <1>3, <1>4

LEMMA PatchTellsStep ==
  ASSUME FsInv, TellInv, PatchRead \/ PatchTruncate \/ PatchData
  PROVE  TellInv'
<1>1. /\ Step /\ call.tool = "patch" /\ call' = call /\ before' = before /\ pc # "idle"
      /\ call \in Calls /\ call.path \in Paths /\ call.new \in Words /\ IsTree(disk)
  BY CallTyped DEF PatchRead, PatchTruncate, PatchData, At, Step, FsInv, Shapes, TypeOK
<1> DEFINE p == call.path
<1>2. CASE Refuse
  BY <1>1, <1>2, RefuseTells
<1>3. CASE PatchRead /\ ~Refuse
  <2>1. /\ pc = "begin" /\ pc' = "truncate" /\ frames' = <<>> /\ disk' = disk
        /\ IsFile(disk, p) /\ Hits(disk[p].text) # {} /\ buf' = Replaced(disk[p].text)
    BY <1>3 DEF PatchRead, Opens, At, GoTo, FsInv, Nesting
  <2>2. ASSUME disk = before
        PROVE  /\ IsFile(before, p) /\ Hits(before[p].text) # {}
               /\ buf' = Replaced(before[p].text)
    BY <2>1, <2>2
  <2>3. (Hits(before[p].text) # {})' <=> Hits(before[p].text) # {}
    BY <1>1 DEF Hits
  <2>4. Replaced(before[p].text)' = Replaced(before[p].text)
    BY <1>1 DEF Replaced, Hits
  <2>5. Tells => Tells'
    BY <1>1, <2>1, <2>2, <2>3, <2>4 DEF Tells, Untouched, Early, WriteTells, FileCopyTells,
         TreeCopyTells, WalkTells, At
  <2> QED
    BY <1>1, <2>1, <2>5, GoTells
<1>4. CASE PatchTruncate /\ ~Refuse
  <2>1. /\ pc = "truncate" /\ pc' = "data" /\ frames' = <<>> /\ buf' = buf
        /\ disk' = Put(disk, p, File(<<>>))
    BY <1>4 DEF PatchTruncate, Truncate, Write, At, localVars, FsInv, Nesting
  <2>2. ASSUME disk = before, IsFile(before, p)
        PROVE  Becomes(before, disk', p, File(<<>>))
    BY <2>1, <2>2 DEF Put, Becomes, Same, Exists
  <2>3. (Hits(before[p].text) # {})' <=> Hits(before[p].text) # {}
    BY <1>1 DEF Hits
  <2>4. Replaced(before[p].text)' = Replaced(before[p].text)
    BY <1>1 DEF Replaced, Hits
  <2>5. Tells => Tells'
    BY <1>1, <2>1, <2>2, <2>3, <2>4 DEF Tells, Untouched, Early, WriteTells, FileCopyTells,
         TreeCopyTells, WalkTells, At
  <2> QED
    BY <1>1, <2>1, <2>5, GoTells
<1>5. CASE PatchData
  <2>1. /\ pc = "data" /\ pc' = "idle"
        /\ disk' = Put(disk, p, File(Overwrite(disk[p].text, buf)))
    BY <1>5 DEF PatchData, Write, At, Return
  <2>2. call.all \in BOOLEAN /\ "path" \in DOMAIN call
    BY <1>1, FsAssumption DEF Arguments
  <2>3. buf \in Seq(Words)
    BY DEF FsInv, TypeOK
  <2>4. ASSUME Undisturbed, CopyApart(call)
        PROVE  CallDid(before, disk)'
    <3>1. /\ IsFile(before, p) /\ Hits(before[p].text) # {} /\ buf = Replaced(before[p].text)
          /\ Becomes(before, disk, p, File(<<>>))
      BY <1>1, <2>1, <2>4 DEF TellInv, Tells, WriteTells, At
    <3>2. before[p].text \in Seq(Words)
      BY <3>1 DEF TellInv, IsTree, IsFile, Exists, FileNodes
    <3>3. Becomes(before, disk', p, File(buf))
      <4>1. disk[p].text = <<>>
        BY <3>1 DEF Becomes, File
      <4>2. disk' = Put(disk, p, File(buf))
        BY <2>1, <2>3, <4>1, EmptyOverwrite
      <4> QED
        BY <3>1, <4>2 DEF Put, Becomes, Same, Exists
    <3>4. disk'[p].text = Replaced(before[p].text) /\ Same(before, disk', DOMAIN before \ {p})
          /\ DOMAIN disk' = DOMAIN before
      <4>1. disk'[p] = File(buf) /\ p \in DOMAIN before
        BY <3>1, <3>3 DEF Becomes, IsFile, Exists
      <4>2. disk'[p].text = buf
        BY <4>1 DEF File
      <4> QED
        BY <3>1, <3>3, <4>1, <4>2 DEF Becomes
    <3>5. /\ DOMAIN disk'[p].text = DOMAIN before[p].text
          /\ \A i \in DOMAIN before[p].text :
               disk'[p].text[i] =
                 IF before[p].text[i] = call.old
                      /\ (call.all \/ \A j \in 1 .. (i - 1) : before[p].text[j] # call.old)
                 THEN call.new ELSE before[p].text[i]
      BY <2>2, <3>1, <3>2, <3>4, ReplacedIs
    <3> QED
      BY <1>1, <2>2, <3>1, <3>4, <3>5 DEF CallDid
  <2> QED
    BY <1>1, <2>1, <2>4, ReturnTells
<1> QED
  BY <1>2, <1>3, <1>4, <1>5

-----------------------------------------------------------------------------
(* Copies of a file, and the tools that make one change.                   *)

LEMMA CopyFileTells ==
  ASSUME FsInv, TellInv, CopyStat \/ CopyCheck \/ CopyOpen \/ CopyTruncate \/ CopyData,
         frames' = <<>>
  PROVE  TellInv'
<1>1. /\ Step /\ call.tool = "copy" /\ call' = call /\ before' = before /\ pc # "idle"
      /\ call \in Calls /\ call.src \in Paths /\ call.dst \in Paths
  BY CallTyped DEF CopyStat, CopyCheck, CopyOpen, CopyTruncate, CopyData, At, Step, FsInv, Shapes
<1>2. CASE Refuse
  BY <1>1, <1>2, RefuseTells
<1>3. CASE (CopyStat \/ CopyCheck \/ CopyOpen) /\ ~Refuse
  <2>1. /\ pc \in Early /\ pc' \in {"check", "open", "truncate"} /\ disk' = disk
        /\ pc = "begin" => IsFile(disk, call.src)
        /\ pc # "begin" => pc \in {"check", "open", "truncate", "data"}
    BY <1>3, <1>1 DEF CopyStat, CopyCheck, CopyOpen, At, GoTo, FsInv, Nesting, Early
  <2>2. Tells => Tells'
    BY <1>1, <2>1 DEF Tells, Untouched, Early, WriteTells, FileCopyTells, TreeCopyTells,
         WalkTells, At
  <2> QED
    BY <1>1, <2>1, <2>2, GoTells
<1>4. CASE CopyTruncate /\ ~Refuse
  <2>1. pc = "truncate" /\ pc' = "data" /\ disk' = Put(disk, call.dst, File(<<>>))
    BY <1>4 DEF CopyTruncate, Truncate, Write, At
  <2>2. ASSUME disk = before
        PROVE  Becomes(before, disk', call.dst, File(<<>>))
    BY <2>1, <2>2 DEF Put, Becomes, Same, Exists
  <2>3. Tells => Tells'
    BY <1>1, <2>1, <2>2 DEF Tells, Untouched, Early, WriteTells, FileCopyTells, TreeCopyTells,
         WalkTells, At
  <2> QED
    BY <1>1, <2>1, <2>3, GoTells
<1>5. CASE CopyData
  <2>1. /\ pc = "data" /\ pc' = "idle"
        /\ disk' = Put(disk, call.dst, File(Overwrite(disk[call.dst].text, disk[call.src].text)))
    BY <1>5 DEF CopyData, Write, At, Return
  <2>2. ASSUME Undisturbed, CopyApart(call)
        PROVE  CallDid(before, disk)'
    <3>1. IsFile(before, call.src) /\ Becomes(before, disk, call.dst, File(<<>>))
      BY <1>1, <2>1, <2>2 DEF TellInv, Tells, FileCopyTells
    <3>2. call.src # call.dst
      BY <1>1, <2>2, PrefixItself DEF CopyApart
    <3>3. disk[call.dst].text = <<>> /\ disk[call.src] = before[call.src]
      BY <3>1, <3>2 DEF Becomes, Same, File, IsFile, Exists
    <3>4. before[call.src].text \in Seq(Words)
      BY <3>1 DEF TellInv, IsTree, IsFile, Exists, FileNodes
    <3>5. disk' = Put(disk, call.dst, File(before[call.src].text))
      BY <2>1, <3>3, <3>4, EmptyOverwrite
    <3>6. Becomes(before, disk', call.dst, File(before[call.src].text))
      BY <3>1, <3>5 DEF Put, Becomes, Same, Exists
    <3> QED
      BY <1>1, <3>1, <3>6 DEF CallDid, Becomes, IsFile, IsDir
  <2> QED
    BY <1>1, <2>1, <2>2, ReturnTells
<1> QED
  BY <1>2, <1>3, <1>4, <1>5

LEMMA RemoveTells ==
  ASSUME FsInv, TellInv, RemovePath
  PROVE  TellInv'
<1>1. Step /\ call.tool = "remove" /\ call' = call /\ before' = before /\ pc = "begin"
  BY DEF RemovePath, At, Step
<1>2. CASE Refuse
  BY <1>1, <1>2, RefuseTells
<1>3. CASE RemovePath /\ ~Refuse
  <2>1. pc' = "idle" /\ disk' = Restrict(disk, DOMAIN disk \ Under(disk, call.path))
    BY <1>3 DEF RemovePath, Return
  <2>2. ASSUME disk = before
        PROVE  CallDid(before, disk)'
    <3>1. /\ DOMAIN disk' = DOMAIN before \ Under(before, call.path)
          /\ \A q \in DOMAIN disk' : disk'[q] = before[q]
      BY <2>1, <2>2 DEF Restrict
    <3> QED
      BY <1>1, <3>1 DEF CallDid, Same, Exists, Under
  <2> QED
    BY <1>1, <2>1, <2>2, ReturnTells DEF TellInv, Tells, Untouched, Early
<1> QED
  BY <1>2, <1>3

LEMMA MkdirTells ==
  ASSUME FsInv, TellInv, Mkdir
  PROVE  TellInv'
<1>1. /\ Step /\ call.tool = "mkdir" /\ call' = call /\ before' = before /\ pc = "begin"
      /\ call \in Calls /\ call.path \in Paths /\ IsTree(disk)
  BY CallTyped DEF Mkdir, At, Step, FsInv, Shapes, TypeOK
<1>2. CASE Refuse \/ MkdirRefused(call.path)
  BY <1>1, <1>2, RefuseTells, MkdirRefusedTells
<1>3. CASE Mkdir /\ ~Refuse /\ ~MkdirRefused(call.path)
  <2>1. /\ pc' = "idle" /\ disk' = MkdirAll(disk, call.path)
        /\ CanMkdirAll(disk, call.path) \/ CanMkdir(disk, call.path)
    BY <1>3 DEF Mkdir, MakeDirs, Return
  <2>2. ~IsFile(disk, call.path) /\ call.path \in Ancestors(call.path)
    BY <1>1, <2>1, AncestorsOfFront, CanMkdirAncestors DEF CanMkdirAll
  <2>3. ASSUME disk = before
        PROVE  CallDid(before, disk)'
    <3>1. /\ DOMAIN disk' = DOMAIN before \cup Ancestors(call.path)
          /\ IsDir(disk', call.path) /\ Same(before, disk', DOMAIN before)
      BY <2>1, <2>2, <2>3 DEF MkdirAll, IsDir, IsFile, Same, Exists
    <3> QED
      BY <1>1, <3>1 DEF CallDid, Same, Exists, Ancestors, IsDir
  <2> QED
    BY <1>1, <2>1, <2>3, ReturnTells DEF TellInv, Tells, Untouched, Early
<1> QED
  BY <1>2, <1>3

\* What os.Rename makes of a tree: what was under src is what is under dst now.
LEMMA RenamedIs ==
  ASSUME NEW d, IsTree(d), NEW src \in Paths, NEW dst \in Paths, CanRename(d, src, dst)
  PROVE  LET e == Renamed(d, src, dst)
         IN  /\ \A p \in Under(d, src) :
                  Target(p, src, dst) \in DOMAIN e /\ e[Target(p, src, dst)] = d[p]
             /\ Cardinality(Under(e, dst)) = Cardinality(Under(d, src))
             /\ src # dst => Under(e, src) = {}
             /\ Same(d, e, DOMAIN d \ (Under(d, src) \cup {dst}))
<1> DEFINE To(p) == Target(p, src, dst)
           moved == {To(p) : p \in Under(d, src)}
           kept == DOMAIN d \ Under(d, src)
           e == Renamed(d, src, dst)
<1>1. /\ Exists(d, src) /\ ~IsDir(d, dst)
      /\ ~(IsPrefix(src, dst) /\ src # dst)
  BY DEF CanRename, IsStrictPrefix
<1>2. /\ DOMAIN e = kept \cup moved
      /\ \A q \in moved : e[q] = d[Target(q, dst, src)]
      /\ \A q \in kept : q \notin moved => e[q] = d[q]
  BY DEF Renamed
<1>3. ASSUME NEW p \in Under(d, src)
      PROVE  /\ p \in Paths /\ IsPrefix(src, p)
             /\ To(p) \in Paths /\ IsPrefix(dst, To(p)) /\ Target(To(p), dst, src) = p
  <2>1. p \in Paths /\ IsPrefix(src, p)
    BY DEF Under, IsTree
  <2> QED
    BY <2>1, TargetIs, TargetBack
<1> HIDE DEF e
<1>4. \A p \in Under(d, src) : To(p) \in DOMAIN e /\ e[To(p)] = d[p]
  BY <1>2, <1>3
\* Nothing was under dst but a file there is replaced.
<1>5. ASSUME NEW q \in DOMAIN d, IsPrefix(dst, q)
      PROVE  q = dst
  BY <1>1, <1>5, TreePrefix DEF IsTree
<1>6. dst \in moved
  <2>1. src \in Under(d, src) /\ To(src) = dst
    BY <1>1, PrefixItself, TargetOfItself DEF Under, Exists
  <2> QED
    BY <2>1
<1>7. ASSUME NEW q \in moved
      PROVE  q \in Paths /\ IsPrefix(dst, q)
  BY <1>3
<1>8. Under(e, dst) = moved
  BY <1>2, <1>5, <1>6, <1>7 DEF Under
<1>9. Cardinality(moved) = Cardinality(Under(d, src))
  <2> DEFINE f == [p \in Under(d, src) |-> To(p)]
  <2>1. f \in Surjection(Under(d, src), moved)
    BY DEF Surjection
  <2>2. f \in Injection(Under(d, src), moved)
    BY <1>3 DEF Injection, IsInjective
  <2>3. IsFiniteSet(Under(d, src))
    BY FS_Subset DEF IsTree, Under
  <2> QED
    BY <2>1, <2>2, <2>3, FS_Surjection
<1>10. ASSUME src # dst, NEW q \in Under(e, src)
       PROVE  FALSE
  <2>1. q \in DOMAIN e /\ IsPrefix(src, q)
    BY <1>10 DEF Under
  <2>2. q \in moved
    BY <1>2, <2>1 DEF Under
  <2>3. IsPrefix(src, dst) \/ IsPrefix(dst, src)
    BY <1>7, <2>1, <2>2, PrefixesOfOne, PathLen
  <2> QED
    BY <1>1, <1>5, <1>10, <2>3 DEF Exists
<1>11. ASSUME NEW q \in kept, q # dst
       PROVE  q \in DOMAIN e /\ e[q] = d[q]
  BY <1>2, <1>5, <1>7, <1>11
<1> QED
  BY <1>4, <1>8, <1>9, <1>10, <1>11 DEF e, Same, Exists

LEMMA MoveTells ==
  ASSUME FsInv, TellInv, MoveCheck \/ MoveRename
  PROVE  TellInv'
<1>1. /\ Step /\ call.tool = "move" /\ call' = call /\ before' = before
      /\ call \in Calls /\ call.src \in Paths /\ call.dst \in Paths /\ IsTree(disk)
      /\ pc \in Early /\ pc # "idle"
  BY CallTyped DEF MoveCheck, MoveRename, At, Step, FsInv, Shapes, TypeOK, Early
<1>2. CASE Refuse
  BY <1>1, <1>2, RefuseTells
<1>3. CASE MoveCheck /\ ~Refuse
  <2>1. pc' = "open" /\ disk' = disk /\ frames' = <<>>
    BY <1>3 DEF MoveCheck, At, GoTo, localVars, FsInv, Nesting
  <2>2. Tells => Tells'
    BY <1>1, <2>1 DEF Tells, Untouched, Early, WriteTells, FileCopyTells, TreeCopyTells,
         WalkTells, At
  <2> QED
    BY <1>1, <2>1, <2>2, GoTells
<1>4. CASE MoveRename /\ ~Refuse
  <2>1. /\ pc' = "idle" /\ CanRename(disk, call.src, call.dst)
        /\ disk' = Renamed(disk, call.src, call.dst)
    BY <1>4 DEF MoveRename, Return
  <2>2. ASSUME disk = before
        PROVE  CallDid(before, disk)'
    <3>1. /\ \A p \in Under(before, call.src) :
               /\ Target(p, call.src, call.dst) \in DOMAIN disk'
               /\ disk'[Target(p, call.src, call.dst)] = before[p]
          /\ Cardinality(Under(disk', call.dst)) = Cardinality(Under(before, call.src))
          /\ call.src # call.dst => Under(disk', call.src) = {}
          /\ Same(before, disk', DOMAIN before \ (Under(before, call.src) \cup {call.dst}))
      BY <1>1, <2>1, <2>2, RenamedIs
    <3> QED
      BY <1>1, <3>1 DEF CallDid, Exists, Under, Same, Target
  <2> QED
    BY <1>1, <2>1, <2>2, ReturnTells DEF TellInv, Tells, Untouched
<1> QED
  BY <1>2, <1>3, <1>4

-----------------------------------------------------------------------------
(* Walks.                                                                  *)

LEMMA LinesToFind ==
  ASSUME call.tool = "search", NEW d
  PROVE  ToFind(d) =
           UNION {LinesWith(d, p) : p \in {q \in Under(d, call.path) : Opens(d, q) /\ Chosen(q)}}
BY DEF ToFind

LEMMA MatchesToFind ==
  ASSUME call.tool = "glob", NEW d
  PROVE  ToFind(d) = {p \in Under(d, call.path) : Matches(call.path, p)}
BY DEF ToFind

\* The lines of a file.
LEMMA LinesAre ==
  ASSUME NEW d, IsTree(d), NEW p, IsFile(d, p)
  PROVE  /\ IsFiniteSet(LinesWith(d, p))
         /\ \A h \in LinesWith(d, p) : h[1] = p /\ h[2] \in Nat /\ h = <<p, h[2]>>
<1> DEFINE text == d[p].text
           there == {j \in DOMAIN text : text[j] = call.query}
           f == [i \in there |-> <<p, i>>]
<1>1. text \in Seq(Words)
  BY DEF IsTree, IsFile, Exists, FileNodes
<1> HIDE DEF text
<1>2. DOMAIN text = 1 .. Len(text) /\ Len(text) \in Nat
  BY <1>1, LenProperties
<1>3. IsFiniteSet(there)
  <2>1. IsFiniteSet(1 .. Len(text)) /\ there \in SUBSET (1 .. Len(text))
    BY <1>2, FS_Interval
  <2> QED
    BY <2>1, FS_Subset
<1>4. LinesWith(d, p) = {<<p, i>> : i \in there}
  BY DEF LinesWith, text
<1>5. f \in Surjection(there, LinesWith(d, p))
  BY <1>4 DEF Surjection
<1>6. \A i \in there : i \in Nat
  BY <1>2
<1> HIDE DEF there, f
<1>7. IsFiniteSet(LinesWith(d, p))
  BY <1>3, <1>5, FS_Surjection
<1> QED
  BY <1>4, <1>6, <1>7

\* What there is to find is finite, and under the root of the walk.
LEMMA ToFindIs ==
  ASSUME FsInv, call.tool \in {"list", "search", "glob"}
  PROVE  /\ IsFiniteSet(ToFind(disk)) /\ Cardinality(ToFind(disk)) \in Nat
         /\ \A f \in SUBSET ToFind(disk) :
              /\ IsFiniteSet(f) /\ Cardinality(f) \in Nat
              /\ Cardinality(f) <= Cardinality(ToFind(disk))
         /\ call.tool # "list" => \A q \in ToFind(disk) : PathOf(q) \in Under(disk, call.path)
<1>1. IsTree(disk) /\ IsFiniteSet(DOMAIN disk)
  BY DEF FsInv, TypeOK, IsTree
<1> DEFINE opened == {q \in Under(disk, call.path) : Opens(disk, q) /\ Chosen(q)}
           lines == {LinesWith(disk, p) : p \in opened}
           f == [p \in opened |-> LinesWith(disk, p)]
<1>2. \A p \in opened : IsFile(disk, p) /\ p \in Under(disk, call.path)
  BY DEF Opens
<1>3. IsFiniteSet(opened)
  BY <1>1, FS_Subset DEF Under
<1>4. f \in Surjection(opened, lines)
  BY DEF Surjection
<1> HIDE DEF opened
<1>5. IsFiniteSet(lines)
  BY <1>3, <1>4, FS_Surjection
<1>6. \A T \in lines : IsFiniteSet(T)
  BY <1>1, <1>2, LinesAre
<1>7. IsFiniteSet(UNION lines)
  BY <1>5, <1>6, FS_UNION
<1>8. call.tool = "search" => ToFind(disk) = UNION lines
  BY LinesToFind DEF opened
<1>9. call.tool = "search" => \A q \in ToFind(disk) : PathOf(q) \in Under(disk, call.path)
  BY <1>1, <1>2, <1>8, LinesAre DEF PathOf
<1>10. call.tool = "glob" => ToFind(disk) \subseteq Under(disk, call.path)
  BY MatchesToFind
<1>11. IsFiniteSet(ToFind(disk))
  BY <1>1, <1>7, <1>8, <1>10, FindsFinite, FS_Subset DEF Under
<1> QED
  BY <1>9, <1>10, <1>11, FS_Subset, FS_CardinalityType DEF PathOf

\* Of numbered things, those that fewer than k are before: k of them, or all.
LEMMA FirstOnes ==
  ASSUME NEW H, IsFiniteSet(H), \A h \in H : h[2] \in Nat,
         \A g, h \in H : g[2] = h[2] => g = h,
         NEW k \in Nat
  PROVE  LET first == {h \in H : Cardinality({g \in H : g[2] < h[2]}) < k}
         IN  IsFiniteSet(first) /\ (Cardinality(first) = k \/ (first = H /\ Cardinality(H) <= k))
<1> DEFINE Lower(h) == {g \in H : g[2] < h[2]}
           First(n) == {h \in H : Cardinality(Lower(h)) < n}
           T == {n \in Nat : Cardinality(First(n)) = n \/ (First(n) = H /\ Cardinality(H) <= n)}
<1>1. ASSUME NEW S \in SUBSET H
      PROVE  IsFiniteSet(S) /\ Cardinality(S) \in Nat
  BY FS_Subset, FS_CardinalityType
<1>2. /\ \A h \in H : Lower(h) \in SUBSET H /\ \A g \in H : g \in Lower(h) <=> g[2] < h[2]
      /\ \A n \in Nat : First(n) \in SUBSET H
      /\ \A n \in Nat, h \in H : h \in First(n) <=> Cardinality(Lower(h)) < n
  OBVIOUS
<1> HIDE DEF Lower, First
<1>3. \A h \in H : Cardinality(Lower(h)) \in Nat
  BY <1>1, <1>2
<1>4. 0 \in T
  <2>1. First(0) = {}
    BY <1>2, <1>3
  <2> QED
    BY <2>1, FS_EmptySet
<1>5. ASSUME NEW n \in Nat, n \in T
      PROVE  n + 1 \in T
  <2>1. First(n) \in SUBSET H /\ IsFiniteSet(First(n)) /\ Cardinality(H) \in Nat
    BY <1>1, <1>2
  <2>2. CASE First(n) = H /\ Cardinality(H) <= n
    <3>1. \A h \in H : Cardinality(Lower(h)) < n + 1
      BY <1>2, <1>3, <2>2
    <3>2. First(n + 1) \in SUBSET H /\ \A h \in H : h \in First(n + 1)
      BY <1>2, <3>1
    <3>3. First(n + 1) = H
      BY <3>2
    <3> QED
      BY <2>1, <2>2, <3>3
  <2>3. CASE Cardinality(First(n)) = n /\ First(n) = H
    <3>1. Cardinality(H) <= n
      BY <2>3
    <3> QED
      BY <2>2, <2>3, <3>1
  <2>4. CASE Cardinality(First(n)) = n /\ First(n) # H
    <3>1. PICK x \in H \ First(n) : \A h \in H \ First(n) : x[2] <= h[2]
      <4> DEFINE numbers == {h[2] : h \in H \ First(n)}
      <4>1. numbers \subseteq Nat /\ numbers # {}
        BY <2>1, <2>4
      <4>2. PICK m \in numbers : \A i \in numbers : m <= i
        BY <4>1, LeastNumber
      <4> QED
        BY <4>2
    <3>2. x \in H \ First(n) /\ \A h \in H \ First(n) : x[2] <= h[2]
      BY <3>1
    <3>3. Cardinality(Lower(x)) >= n /\ x[2] \in Nat
      BY <1>2, <1>3, <3>2
    \* What is before x is First(n).
    <3>4. ASSUME NEW g \in Lower(x)
          PROVE  g \in First(n)
      BY <1>2, <3>2
    <3>5. ASSUME NEW g \in First(n)
          PROVE  g \in Lower(x)
      <4>1. g \in H /\ g[2] \in Nat /\ Cardinality(Lower(g)) < n
        BY <1>2
      <4>2. ~(x[2] <= g[2])
        <5> SUFFICES ASSUME x[2] <= g[2]
                     PROVE  FALSE
          OBVIOUS
        <5>1. Lower(x) \in SUBSET Lower(g)
          BY <1>2, <3>2, <3>3, <4>1
        <5>2. Cardinality(Lower(x)) <= Cardinality(Lower(g))
          BY <1>1, <1>2, <4>1, <5>1, FS_Subset
        <5> QED
          BY <1>3, <3>2, <3>3, <4>1, <5>2
      <4> QED
        BY <1>2, <3>2, <3>3, <4>1, <4>2
    <3>6. Lower(x) = First(n)
      BY <3>4, <3>5
    \* The others that are not are behind x.
    <3>7. ASSUME NEW h \in H \ First(n), h # x
          PROVE  h \notin First(n + 1)
      <4>1. h \in H /\ h[2] \in Nat /\ x[2] < h[2] /\ x \in H
        BY <3>2, <3>3, <3>7
      <4>2. First(n) \cup {x} \subseteq Lower(h)
        BY <1>2, <3>2, <3>3, <3>6, <4>1
      <4>3. Cardinality(First(n) \cup {x}) = n + 1
        BY <2>1, <2>4, <3>2, FS_AddElement
      <4>4. Cardinality(First(n) \cup {x}) <= Cardinality(Lower(h))
        BY <1>1, <1>2, <4>1, <4>2, FS_Subset
      <4> QED
        BY <1>2, <1>3, <4>1, <4>3, <4>4
    <3>8. x \in First(n + 1) /\ First(n) \subseteq First(n + 1)
      BY <1>2, <1>3, <2>1, <2>4, <3>2, <3>6
    <3>9. First(n + 1) = First(n) \cup {x}
      BY <1>2, <2>1, <3>2, <3>7, <3>8
    <3>10. Cardinality(First(n + 1)) = n + 1
      BY <2>1, <2>4, <3>2, <3>9, FS_AddElement
    <3> QED
      BY <3>10
  <2> QED
    BY <1>5, <2>2, <2>3, <2>4
<1>6. k \in T
  <2> HIDE DEF T
  <2> QED
    BY <1>4, <1>5, NaturalsInductively
<1>7. IsFiniteSet(First(k))
  BY <1>1, <1>2
<1> QED
  BY <1>6, <1>7 DEF First, Lower

\* The visitor of fsSearch or fsGlob takes what there is of an entry, and the entries
\* of a directory follow.
LEMMA VisitSplit ==
  ASSUME FsInv, call.tool \in {"search", "glob"}, call \in Calls,
         NEW pending, NEW found, Split(pending, found), found \subseteq ToFind(disk),
         NEW p \in pending, NEW finds \in SUBSET ToFind(disk), \A f \in finds : PathOf(f) = p,
         NEW more \in SUBSET Entries(disk, p),
         \A q \in ToFind(disk) :
           IsPrefix(p, PathOf(q)) => q \in finds \/ \E e \in more : IsPrefix(e, PathOf(q))
  PROVE  Split((pending \ {p}) \cup more, found \cup finds)
<1> DEFINE rest == pending \ {p}
<1>1. IsTree(disk) /\ \A q \in DOMAIN disk : q \in Paths
  BY DEF FsInv, TypeOK, IsTree
<1>2. /\ \A q \in pending : q \in DOMAIN disk /\ q \in Paths /\ IsPrefix(call.path, q)
      /\ \A q \in ToFind(disk) : PathOf(q) \in Paths
      /\ call.path \in Paths
  BY <1>1, ToFindIs, CallTyped DEF Split, Under
<1>3. ASSUME NEW e \in more
      PROVE  /\ e \in Paths /\ e \in DOMAIN disk /\ IsPrefix(p, e) /\ ~IsPrefix(e, p)
             /\ \A q \in Paths : IsPrefix(q, e) <=> q = e \/ IsPrefix(q, p)
  BY <1>1, <1>2, EntryBelow
<1>4. \A r \in rest : ~IsPrefix(r, p) /\ ~IsPrefix(p, r)
  BY DEF Split
<1>5. ASSUME NEW e \in more, NEW q \in Paths, ~IsPrefix(p, q)
      PROVE  ~IsPrefix(e, q)
  BY <1>2, <1>3, <1>5, PrefixTransitive
<1>6. \A q, r \in rest \cup more : IsPrefix(q, r) => q = r
  <2>1. \A q, r \in rest : IsPrefix(q, r) => q = r
    BY DEF Split
  <2>2. \A q \in rest, r \in more : IsPrefix(q, r) => q = r
    BY <1>2, <1>3, <1>4
  <2>3. \A q \in more, r \in rest : ~IsPrefix(q, r)
    BY <1>2, <1>4, <1>5
  <2>4. \A q, r \in more : IsPrefix(q, r) => q = r
    BY <1>3
  <2> QED
    BY <2>1, <2>2, <2>3, <2>4
<1>7. \A q \in rest \cup more, f \in found \cup finds : ~IsPrefix(q, PathOf(f))
  <2>1. \A q \in pending, f \in found : ~IsPrefix(q, PathOf(f)) /\ PathOf(f) \in Paths
    BY <1>2 DEF Split
  <2>2. \A q \in more, f \in found : ~IsPrefix(q, PathOf(f))
    BY <1>5, <2>1
  <2> QED
    BY <1>3, <1>4, <2>1, <2>2
<1>8. \A q \in ToFind(disk) :
        q \in found \cup finds \/ \E r \in rest \cup more : IsPrefix(r, PathOf(q))
  BY DEF Split
<1>9. rest \cup more \subseteq Under(disk, call.path)
  BY <1>2, <1>3, PrefixTransitive DEF Under
<1> HIDE DEF rest
<1>10. Split(rest \cup more, found \cup finds)
  BY <1>6, <1>7, <1>8, <1>9 DEF Split
<1> QED
  BY <1>10 DEF rest

LEMMA SplitStays ==
  ASSUME UNCHANGED <<disk, call>>
  PROVE  /\ ToFind(disk)' = ToFind(disk)
         /\ \A pending, found : Split(pending, found) => Split(pending, found)'
<1>1. ToFind(disk)' = ToFind(disk)
  BY DEF ToFind, Under, LinesWith, Opens, IsFile, Exists, Chosen, Matches
<1>2. \A f : PathOf(f)' = PathOf(f)
  BY DEF PathOf
<1> QED
  BY <1>1, <1>2 DEF Split, Under

\* What the invariant says of a walk is what WalkTells says.
LEMMA WalkGoTells ==
  ASSUME TellInv, Step, pc # "idle", pc' = "walk", disk' = disk, frames' = frames,
         frames = <<>>, pc \in Early, Undisturbed /\ CopyApart(call) /\ Tells => WalkTells'
  PROVE  TellInv'
<1>1. Tells /\ WalkTells' => Tells'
  BY DEF Tells, Untouched, Early, WriteTells, FileCopyTells, TreeCopyTells, At, Step
<1> QED
  BY <1>1, GoTells

LEMMA WalkBeginTells ==
  ASSUME FsInv, TellInv, WalkBegin
  PROVE  TellInv'
<1>1. /\ Step /\ disk' = disk /\ call' = call /\ pc = "begin" /\ pc' = "walk"
      /\ call.tool \in {"list", "search", "glob"} /\ call \in Calls /\ frames' = frames
      /\ frames = <<>>
      /\ walk' = [pending |-> {call.path} \cap DOMAIN disk, found |-> {}, cut |-> FALSE]
  BY DEF WalkBegin, GoTo, NoWalk, Step, FsInv, Shapes, Nesting
<1>2. call.path \in Paths /\ call.max \in Nat /\ IsTree(disk) /\ IsPrefix(call.path, call.path)
  BY <1>1, CallTyped, PrefixItself DEF FsInv, TypeOK
<1> DEFINE start == {call.path} \cap DOMAIN disk
<1>3. ASSUME call.tool # "list"
      PROVE  Split(start, {})
  <2>1. ASSUME NEW q \in ToFind(disk)
        PROVE  call.path \in start /\ IsPrefix(call.path, PathOf(q))
    <3>1. PathOf(q) \in DOMAIN disk /\ IsPrefix(call.path, PathOf(q))
      BY <1>1, <1>3, ToFindIs DEF Under
    <3> QED
      BY <1>2, <3>1, TreePrefix DEF IsDir, Exists
  <2> QED
    BY <1>2, <2>1 DEF Split, Under
<1>4. WalkTells'
  <2>1. call.tool # "list" => Split(walk'.pending, walk'.found)
    BY <1>1, <1>3
  <2>2. call.tool # "list" => Split(walk.pending, walk.found)'
    BY <1>1, <2>1, SplitStays
  <2>3. walk'.found = {} /\ Cardinality(walk'.found) = 0 /\ walk'.cut = FALSE
    BY <1>1, FS_EmptySet
  <2> QED
    BY <1>1, <1>2, <2>2, <2>3 DEF WalkTells
<1> QED
  BY <1>1, <1>4, WalkGoTells DEF Early

\* A step of the visitor of fsSearch or fsGlob that takes finds.
LEMMA VisitTells ==
  ASSUME FsInv, WalkTells, pc = "walk", Step, GoTo("walk"),
         call.tool \in {"search", "glob"},
         NEW p \in walk.pending, NEW finds \in SUBSET ToFind(disk), NEW descend \in BOOLEAN,
         Visit(p, finds, descend), \A f \in finds : PathOf(f) = p,
         Cardinality(walk.found \cup finds) <= call.max,
         Cardinality(walk.found) = call.max => finds = {},
         Cardinality(walk.found \cup finds) # call.max =>
           \A q \in ToFind(disk) : PathOf(q) = p => q \in finds,
         descend \/ IsFile(disk, p)
  PROVE  WalkTells'
<1>1. /\ disk' = disk /\ call' = call /\ pc' = "walk" /\ call \in Calls /\ call.max \in Nat
      /\ IsTree(disk)
  BY CallTyped DEF GoTo, Step, FsInv, Shapes, TypeOK
<1> DEFINE more == IF descend THEN Entries(disk, p) ELSE {}
<1>2. walk'.found = walk.found \cup finds /\ walk'.pending = (walk.pending \ {p}) \cup more
  BY VisitIs
<1>3. walk'.found \subseteq ToFind(disk)'
  BY <1>1, <1>2, SplitStays DEF WalkTells
<1>4. CASE Cardinality(walk.found \cup finds) = call.max
  BY <1>1, <1>2, <1>3, <1>4 DEF WalkTells
<1>5. CASE Cardinality(walk.found \cup finds) # call.max
  <2>1. Split(walk.pending, walk.found) /\ walk.found \subseteq ToFind(disk)
    <3>1. Cardinality(walk.found) # call.max
      <4> SUFFICES ASSUME Cardinality(walk.found) = call.max
                   PROVE  FALSE
        OBVIOUS
      <4>1. walk.found \cup finds = walk.found
        OBVIOUS
      <4> QED
        BY <1>5, <4>1
    <3> QED
      BY <3>1 DEF WalkTells
  <2>2. p \in DOMAIN disk /\ p \in Paths
    BY <1>1, <2>1 DEF Split, Under, IsTree
  <2>3. ASSUME NEW q \in ToFind(disk), IsPrefix(p, PathOf(q))
        PROVE  q \in finds \/ \E e \in more : IsPrefix(e, PathOf(q))
    <3>1. PathOf(q) \in DOMAIN disk /\ PathOf(q) \in Paths
      BY <1>1, ToFindIs DEF Under, IsTree
    <3>2. CASE PathOf(q) = p
      BY <1>5, <3>2
    <3>3. CASE PathOf(q) # p
      <4>1. IsDir(disk, p)
        BY <1>1, <2>2, <2>3, <3>1, <3>3, TreePrefix
      <4>2. descend
        BY <4>1 DEF IsDir, IsFile
      <4>3. \E e \in Entries(disk, p) : IsPrefix(e, PathOf(q))
        BY <1>1, <2>2, <2>3, <3>1, <3>3, EntryTowards
      <4> QED
        BY <4>2, <4>3
    <3> QED
      BY <3>2, <3>3
  <2>4. more \in SUBSET Entries(disk, p)
    OBVIOUS
  <2> HIDE DEF more
  <2>5. Split((walk.pending \ {p}) \cup more, walk.found \cup finds)
    BY <1>1, <2>1, <2>3, <2>4, VisitSplit
  <2>6. Split(walk.pending, walk.found)'
    BY <1>1, <1>2, <2>5, SplitStays
  <2> QED
    BY <1>1, <1>2, <1>3, <2>6 DEF WalkTells
<1> QED
  BY <1>4, <1>5

\* The bound is reached: the walk stops, or takes nothing.
LEMMA SkipTells ==
  ASSUME FsInv, WalkTells, pc = "walk", Step, GoTo("walk"), full, NEW cut, SkipAll(cut)
  PROVE  WalkTells'
<1>1. disk' = disk /\ call' = call /\ pc' = "walk" /\ call \in Calls
  BY DEF GoTo, Step, FsInv, Shapes
<1>2. call.tool \in {"list", "search", "glob"} /\ walk.found \subseteq ToFind(disk)
      /\ Cardinality(walk.found) <= call.max
  BY DEF WalkTells
<1>3. Cardinality(walk.found) \in Nat /\ call.max \in Nat
  BY <1>1, <1>2, ToFindIs, CallTyped
<1>4. Cardinality(walk.found) = call.max
  BY <1>2, <1>3 DEF full
<1>5. walk'.found = walk.found
  BY SkipAllIs
<1> QED
  BY <1>1, <1>2, <1>4, <1>5, SplitStays DEF WalkTells

LEMMA GlobTells ==
  ASSUME FsInv, TellInv, NEW p \in walk.pending, GlobVisit(p)
  PROVE  TellInv'
<1>1. /\ Step /\ GoTo("walk") /\ frames' = frames /\ frames = <<>> /\ pc = "walk"
      /\ call.tool = "glob" /\ disk' = disk /\ call' = call /\ pc' = "walk" /\ call \in Calls
      /\ p \in DOMAIN disk
  BY DEF GlobVisit, Walking, At, GoTo, Step, FsInv, Shapes, Nesting, TypeOK
<1>2. ASSUME WalkTells
      PROVE  WalkTells'
  <2>1. CASE full /\ SkipAll(FALSE)
    BY <1>1, <1>2, <2>1, SkipTells
  <2>2. CASE ~full /\ Visit(p, {p} \cap {q \in DOMAIN disk : Matches(call.path, q)}, TRUE)
    <3> DEFINE finds == {p} \cap {q \in DOMAIN disk : Matches(call.path, q)}
    <3>1. walk.found \subseteq ToFind(disk) /\ Cardinality(walk.found) <= call.max
      BY <1>1, <1>2 DEF WalkTells
    <3>2. IsFiniteSet(walk.found) /\ Cardinality(walk.found) \in Nat /\ call.max \in Nat
      BY <1>1, <3>1, ToFindIs, CallTyped
    <3>3. Cardinality(walk.found) < call.max
      BY <2>2, <3>2 DEF full
    <3>4. p \in Under(disk, call.path)
      BY <1>1, <1>2, <3>2, <3>3 DEF WalkTells, Split
    <3>5. finds \in SUBSET ToFind(disk) /\ \A q \in ToFind(disk) : q = p => q \in finds
      BY <1>1, <3>4, MatchesToFind
    <3>6. Cardinality(walk.found \cup finds) <= call.max
      <4>1. Cardinality(walk.found \cup {p}) <= Cardinality(walk.found) + 1
        BY <3>2, FS_AddElement
      <4>2. finds = {} \/ finds = {p}
        OBVIOUS
      <4>3. finds = {} => walk.found \cup finds = walk.found
        OBVIOUS
      <4> HIDE DEF finds
      <4>4. CASE finds = {}
        BY <3>1, <4>3, <4>4
      <4>5. CASE finds = {p}
        <5>1. Cardinality(walk.found \cup {p}) \in Nat
          BY <3>2, FS_AddElement, FS_CardinalityType
        <5> QED
          BY <3>2, <3>3, <4>1, <4>5, <5>1
      <4> QED
        BY <4>2, <4>4, <4>5
    <3>7. \A f : PathOf(f) = f
      BY <1>1 DEF PathOf
    <3>8. \A f \in finds : f = p
      OBVIOUS
    <3>9. Visit(p, finds, TRUE)
      BY <2>2
    <3>10. Cardinality(walk.found) # call.max
      BY <3>2, <3>3
    <3> HIDE DEF finds
    <3> QED
      BY <1>1, <1>2, <3>5, <3>6, <3>7, <3>8, <3>9, <3>10, VisitTells
  <2> QED
    BY <2>1, <2>2 DEF GlobVisit
<1> QED
  BY <1>1, <1>2, WalkGoTells DEF Tells, Early

LEMMA SearchTells ==
  ASSUME FsInv, TellInv, NEW p \in walk.pending, SearchVisit(p)
  PROVE  TellInv'
<1>1. /\ Step /\ GoTo("walk") /\ frames' = frames /\ frames = <<>> /\ pc = "walk"
      /\ call.tool = "search" /\ disk' = disk /\ call' = call /\ pc' = "walk" /\ call \in Calls
      /\ p \in DOMAIN disk /\ IsTree(disk)
  BY DEF SearchVisit, Walking, At, GoTo, Step, FsInv, Shapes, Nesting, TypeOK
<1> DEFINE hits == IF Chosen(p) /\ Opens(disk, p) THEN LinesWith(disk, p) ELSE {}
           room == call.max - Cardinality(walk.found)
           first(k) == {h \in hits : Cardinality({g \in hits : g[2] < h[2]}) < k}
<1>2. /\ IsFiniteSet(hits) /\ \A h \in hits : PathOf(h) = p /\ h[2] \in Nat
      /\ \A g, h \in hits : g[2] = h[2] => g = h
  <2>1. CASE Chosen(p) /\ Opens(disk, p)
    <3>1. IsFile(disk, p)
      BY <2>1 DEF Opens
    <3>2. /\ IsFiniteSet(LinesWith(disk, p))
          /\ \A h \in LinesWith(disk, p) : h[1] = p /\ h[2] \in Nat /\ h = <<p, h[2]>>
      BY <1>1, <3>1, LinesAre
    <3> QED
      BY <1>1, <2>1, <3>2 DEF PathOf
  <2>2. CASE ~(Chosen(p) /\ Opens(disk, p))
    BY <2>2, FS_EmptySet
  <2> QED
    BY <2>1, <2>2
<1>3. /\ \A q \in ToFind(disk) : PathOf(q) = p => q \in hits
      /\ p \in Under(disk, call.path) => hits \subseteq ToFind(disk)
  <2>1. ToFind(disk) = UNION {LinesWith(disk, q) : q \in {r \in Under(disk, call.path) :
                                                        Opens(disk, r) /\ Chosen(r)}}
    BY <1>1, LinesToFind
  <2>2. ASSUME NEW q \in ToFind(disk), PathOf(q) = p
        PROVE  q \in hits
    <3>1. PICK r \in Under(disk, call.path) : Opens(disk, r) /\ Chosen(r) /\ q \in LinesWith(disk, r)
      BY <2>1
    <3>2. q[1] = r
      BY <1>1, <3>1, LinesAre DEF Opens
    <3> QED
      BY <1>1, <2>2, <3>1, <3>2 DEF PathOf
  <2>3. p \in Under(disk, call.path) => hits \subseteq ToFind(disk)
    BY <2>1
  <2> QED
    BY <2>2, <2>3
<1>4. ~Opens(disk, p) \/ ~Chosen(p) => hits = {}
  OBVIOUS
<1>5. SearchVisit(p) =>
        \/ IsDir(disk, p) /\ Visit(p, {}, TRUE)
        \/ full /\ SkipAll(FALSE)
        \/ IsFile(disk, p) /\ ~(Chosen(p) /\ full) /\ Visit(p, first(room), FALSE)
  BY DEF SearchVisit
<1> HIDE DEF hits
<1>6. /\ \A k : first(k) \subseteq hits
      /\ \A k \in Nat : Cardinality(first(k)) = k \/ (first(k) = hits /\ Cardinality(hits) <= k)
  BY <1>2, FirstOnes
<1> HIDE DEF first
<1>7. ASSUME WalkTells
      PROVE  WalkTells'
  <2>1. walk.found \subseteq ToFind(disk) /\ Cardinality(walk.found) <= call.max
    BY <1>1, <1>7 DEF WalkTells
  <2>2. IsFiniteSet(walk.found) /\ Cardinality(walk.found) \in Nat /\ call.max \in Nat
    BY <1>1, <2>1, ToFindIs, CallTyped
  <2>3. walk.found \cup {} = walk.found /\ {} \in SUBSET ToFind(disk)
    OBVIOUS
  <2>4. CASE IsDir(disk, p) /\ Visit(p, {}, TRUE)
    <3>1. hits = {}
      BY <1>4, <2>4 DEF Opens, IsDir, IsFile
    <3> QED
      BY <1>1, <1>3, <1>7, <2>1, <2>3, <2>4, <3>1, VisitTells
  <2>5. CASE full /\ SkipAll(FALSE)
    BY <1>1, <1>7, <2>5, SkipTells
  <2>6. CASE IsFile(disk, p) /\ ~Chosen(p) /\ Visit(p, first(room), FALSE)
    <3>1. hits = {} /\ first(room) = {}
      BY <1>4, <1>6, <2>6
    <3> QED
      BY <1>1, <1>3, <1>7, <2>1, <2>3, <2>6, <3>1, VisitTells
  <2>7. CASE IsFile(disk, p) /\ Chosen(p) /\ ~full /\ Visit(p, first(room), FALSE)
    <3>1. Cardinality(walk.found) < call.max /\ room \in Nat
          /\ Cardinality(walk.found) + room = call.max
      BY <2>2, <2>7 DEF full
    <3>2. Split(walk.pending, walk.found)
      BY <1>1, <1>7, <2>2, <3>1 DEF WalkTells
    <3>3. hits \subseteq ToFind(disk) /\ p \in Paths
      BY <1>1, <1>3, <3>2 DEF Split, IsTree
    <3> DEFINE taken == first(room)
    <3> HIDE DEF room
    <3>4. taken \subseteq hits /\ IsFiniteSet(taken) /\ IsFiniteSet(hits)
      BY <1>2, <1>6, FS_Subset
    <3>5. walk.found \cap taken = {}
      <4>1. \A f \in walk.found : PathOf(f) # p
        BY <3>2, <3>3, PrefixItself DEF Split
      <4> QED
        BY <1>2, <3>4, <4>1
    <3>6. Cardinality(walk.found \cup taken) = Cardinality(walk.found) + Cardinality(taken)
          /\ Cardinality(taken) \in Nat
      <4>1. Cardinality(walk.found \cup taken)
              = Cardinality(walk.found) + Cardinality(taken) - Cardinality(walk.found \cap taken)
        BY <2>2, <3>4, FS_Union
      <4>2. Cardinality(taken) \in Nat /\ Cardinality(walk.found \cap taken) = 0
        BY <3>4, <3>5, FS_EmptySet, FS_CardinalityType
      <4> QED
        BY <2>2, <4>1, <4>2
    <3>7. Cardinality(taken) = room \/ (taken = hits /\ Cardinality(taken) <= room)
      BY <1>6, <3>1
    <3>8. Cardinality(walk.found \cup taken) <= call.max
      BY <2>2, <3>1, <3>6, <3>7
    <3>9. Cardinality(walk.found \cup taken) # call.max => taken = hits
      BY <2>2, <3>1, <3>6, <3>7
    <3>10. taken \in SUBSET ToFind(disk) /\ \A f \in taken : PathOf(f) = p
      BY <1>2, <3>3, <3>4
    <3>11. Visit(p, taken, FALSE)
      BY <2>7
    <3>12. Cardinality(walk.found) # call.max
      BY <2>2, <3>1
    <3> HIDE DEF taken
    <3> QED
      BY <1>1, <1>3, <1>7, <2>7, <3>8, <3>9, <3>10, <3>11, <3>12, VisitTells
  <2> QED
    BY <1>5, <2>4, <2>5, <2>6, <2>7
<1> QED
  BY <1>1, <1>7, WalkGoTells DEF Tells, Early

LEMMA ListTells ==
  ASSUME FsInv, CutInv, TellInv, NEW p \in walk.pending, ListVisit(p)
  PROVE  TellInv'
<1>1. /\ Step /\ GoTo("walk") /\ frames' = frames /\ frames = <<>> /\ pc = "walk"
      /\ call.tool = "list" /\ disk' = disk /\ call' = call /\ pc' = "walk"
      /\ Undisturbed' <=> Undisturbed
  BY DEF ListVisit, Walking, At, GoTo, Step, FsInv, Nesting, Undisturbed
<1>2. ASSUME Undisturbed, WalkTells
      PROVE  WalkTells'
  <2>1. CASE full /\ SkipAll(TRUE)
    BY <1>1, <1>2, <2>1, SkipTells
  <2>2. ASSUME NEW finds, NEW descend \in BOOLEAN, Visit(p, finds, descend)
        PROVE  WalkTells'
    <3>1. ~walk.cut /\ walk'.cut = walk.cut
      BY <1>1, <1>2, <2>2, VisitIs DEF CutInv, ListWalk, At
    <3>2. ListWalk'
      BY <1>2, ListVisitStep DEF CutInv
    <3>3. Cardinality(walk'.found) <= call'.max /\ walk'.found \subseteq ToFind(disk)'
      BY <1>1, <1>2, <3>1, <3>2 DEF ListWalk, Parted, At
    <3> QED
      BY <1>1, <3>1, <3>3 DEF WalkTells
  <2> QED
    BY <2>1, <2>2 DEF ListVisit
<1> QED
  BY <1>1, <1>2, WalkGoTells DEF Tells, Early

LEMMA ToFindBefore ==
  ASSUME disk = before, UNCHANGED <<before, call>>
  PROVE  ToFind(before)' = ToFind(disk)
BY DEF ToFind, Under, LinesWith, Opens, IsFile, Exists, Chosen, Matches

\* The least of two numbers.
LEMMA MinIs ==
  ASSUME NEW m \in Nat, NEW n \in Nat
  PROVE  m <= n => Min({m, n}) = m /\ Min({n, m}) = m
<1>1. Min({m, n}) \in {m, n} /\ Min({m, n}) <= m /\ Min({m, n}) <= n
  BY FirstIs
<1>2. {n, m} = {m, n}
  OBVIOUS
<1> QED
  BY <1>1, <1>2

\* A list, search or glob returns what it has found: as much as there is, or as it may.
LEMMA WalkEndsTells ==
  ASSUME FsInv, CutInv, TellInv, WalkEnds
  PROVE  TellInv'
<1>1. /\ Step /\ pc = "walk" /\ pc' = "idle" /\ disk' = disk /\ call' = call /\ before' = before
      /\ walk.pending = {} /\ result'.found = walk.found /\ call \in Calls
  BY DEF WalkEnds, Return, Step, FsInv, Shapes
<1>2. ASSUME Undisturbed, CopyApart(call)
      PROVE  CallDid(before, disk)'
  <2>1. WalkTells /\ disk = before
    BY <1>1, <1>2 DEF TellInv, Tells, Untouched, Early
  <2>2. /\ call.tool \in {"list", "search", "glob"} /\ walk.found \subseteq ToFind(disk)
        /\ Cardinality(walk.found) <= call.max
    BY <1>1, <2>1 DEF WalkTells
  <2>3. /\ Cardinality(walk.found) \in Nat /\ Cardinality(ToFind(disk)) \in Nat
        /\ Cardinality(walk.found) <= Cardinality(ToFind(disk)) /\ call.max \in Nat
    BY <1>1, <2>2, ToFindIs, CallTyped
  <2>4. Cardinality(walk.found) = call.max \/ walk.found = ToFind(disk)
    <3>1. CASE call.tool # "list" /\ Split(walk.pending, walk.found)
      BY <1>1, <2>2, <3>1 DEF Split
    <3>2. CASE call.tool = "list" /\ ~walk.cut
      BY <1>1, <1>2, <2>2, <3>2 DEF CutInv, ListWalk, Parted, At
    <3> QED
      BY <1>1, <2>1, <3>1, <3>2 DEF WalkTells
  <2>5. Cardinality(walk.found) = Min({call.max, Cardinality(ToFind(disk))})
    BY <2>2, <2>3, <2>4, MinIs
  <2>6. ToFind(before)' = ToFind(disk)
    BY <1>1, <2>1, ToFindBefore
  <2>7. /\ disk' = before' /\ result'.found \subseteq ToFind(before)'
        /\ Cardinality(result'.found) = Min({call'.max, Cardinality(ToFind(before)')})
    BY <1>1, <2>1, <2>2, <2>5, <2>6
  <2> QED
    BY <1>1, <2>2, <2>7 DEF CallDid
<1> QED
  BY <1>1, <1>2, ReturnTells

\* The lines ripgrep prints are among those there are.
LEMMA SearchRgTells ==
  ASSUME FsInv, TellInv, SearchRg
  PROVE  TellInv'
<1> DEFINE files == RgSearched(disk)
           hits == UNION {LinesWith(disk, p) : p \in files}
           some == kSubset(Min({call.max, Cardinality(hits)}), hits)
<1>1. /\ Step /\ call.tool = "search" /\ pc = "begin" /\ call' = call /\ before' = before
  BY DEF SearchRg, At, Step
<1>2. CASE Refuse
  BY <1>1, <1>2, RefuseTells
<1>3. ASSUME \A p \in files : Opens(disk, p), NEW found \in some,
             Return([status |-> "ok", truncated |-> FALSE, engine |-> "rg",
                     found |-> IF IsDir(disk, call.path) THEN found ELSE {}]),
             disk' = disk
      PROVE  TellInv'
  <2>1. found \subseteq hits
    BY DEF kSubset
  <2>2. hits \subseteq ToFind(disk)
    <3>1. \A p \in files : p \in Under(disk, call.path) /\ Opens(disk, p) /\ Chosen(p)
      BY <1>3 DEF RgSearched
    <3> QED
      BY <1>1, <3>1, LinesToFind
  <2>3. pc' = "idle" /\ result'.found \subseteq ToFind(disk) /\ "engine" \in DOMAIN result'
    BY <1>3, <2>1, <2>2 DEF Return
  <2>4. ASSUME Undisturbed, CopyApart(call)
        PROVE  CallDid(before, disk)'
    <3>1. disk = before
      BY <1>1, <2>4 DEF TellInv, Tells, Untouched, Early
    <3>2. disk' = before' /\ result'.found \subseteq ToFind(before)'
      BY <1>1, <1>3, <2>3, <3>1, ToFindBefore
    <3> QED
      BY <1>1, <2>3, <3>2 DEF CallDid
  <2> QED
    BY <1>1, <2>3, <2>4, ReturnTells
<1> QED
  BY <1>2, <1>3 DEF SearchRg

-----------------------------------------------------------------------------
(* Copies of trees.                                                        *)

\* Where copyDir copies a path to, and the files it copies.
To(p) == Target(p, call.src, call.dst)
Copies(p) ==
  /\ Opens(before, p)
  /\ IF Exists(before, To(p)) THEN call.overwrite /\ Writable(before, To(p))
                              ELSE Len(To(p)) <= MaxDepth

\* The disk d is the one there was with the paths ps copied.
Copied(ps, d) ==
  /\ \A q : q \in DOMAIN d <=>
       \/ q \in DOMAIN before
       \/ \E p \in ps : IsDir(before, p) /\ q \in Ancestors(To(p))
       \/ \E p \in ps : Copies(p) /\ q = To(p)
  /\ \A p \in ps : IsDir(before, p) => \A q \in Ancestors(To(p)) : d[q] = Dir
  /\ \A p \in ps : Copies(p) => d[To(p)] = File(before[p].text)
  /\ \A q \in DOMAIN before : (\A p \in ps : Copies(p) => q # To(p)) => d[q] = before[q]

LEMMA TreeCopiedIs ==
  ASSUME NEW ps, NEW d
  PROVE  TreeCopied(ps, before, d) <=> Copied(ps, d)
<1> DEFINE dirs == {p \in ps : IsDir(before, p)}
           files == {p \in ps \ dirs :
                       /\ Opens(before, p)
                       /\ IF Exists(before, To(p)) THEN call.overwrite /\ Writable(before, To(p))
                                                   ELSE Len(To(p)) <= MaxDepth}
           made == UNION {Ancestors(To(p)) : p \in dirs}
           copies == {To(p) : p \in files}
<1>1. TreeCopied(ps, before, d) <=>
        /\ DOMAIN d = DOMAIN before \cup made \cup copies
        /\ \A q \in made : d[q] = Dir
        /\ \A p \in files : d[To(p)] = File(before[p].text)
        /\ Same(before, d, DOMAIN before \ copies)
  BY DEF TreeCopied, To
<1>2. \A p : p \in files <=> p \in ps /\ Copies(p)
  BY DEF Copies, Opens, IsFile, IsDir
<1> HIDE DEF files
<1>3. /\ \A q : q \in made <=> \E p \in ps : IsDir(before, p) /\ q \in Ancestors(To(p))
      /\ \A q : q \in copies <=> \E p \in ps : Copies(p) /\ q = To(p)
  BY <1>2
<1>4. (\A q \in made : d[q] = Dir)
        <=> \A p \in ps : IsDir(before, p) => \A q \in Ancestors(To(p)) : d[q] = Dir
  BY <1>3
<1>5. (\A p \in files : d[To(p)] = File(before[p].text))
        <=> \A p \in ps : Copies(p) => d[To(p)] = File(before[p].text)
  BY <1>2
<1> HIDE DEF made, copies
<1>6. DOMAIN d = DOMAIN before \cup made \cup copies <=>
        \A q : q \in DOMAIN d <=> q \in DOMAIN before \/ q \in made \/ q \in copies
  OBVIOUS
<1>7. DOMAIN before \subseteq DOMAIN d =>
        (Same(before, d, DOMAIN before \ copies)
           <=> \A q \in DOMAIN before : q \notin copies => d[q] = before[q])
  BY DEF Same, Exists
<1> QED
  BY <1>1, <1>3, <1>4, <1>5, <1>6, <1>7 DEF Copied

\* The targets of a tree lie to each other as its paths do.
LEMMA TargetPrefix ==
  ASSUME NEW src \in Paths, NEW dst \in Paths, NEW p \in Paths, NEW q \in Paths,
         IsPrefix(src, p), IsPrefix(src, q)
  PROVE  /\ IsPrefix(Target(p, src, dst), Target(q, src, dst)) => IsPrefix(p, q)
         /\ Target(p, src, dst) = Target(q, src, dst) => p = q
<1> DEFINE t == Target(p, src, dst)
           u == Target(q, src, dst)
<1>1. t = u => p = q
  BY TargetBack
<1>2. /\ t \in Paths /\ Len(t) = Len(dst) + Len(p) - Len(src)
      /\ \A i \in 1 .. Len(dst) + Len(p) - Len(src) : t[i] =
           IF i <= Len(dst) THEN dst[i] ELSE p[i - Len(dst) + Len(src)]
  BY TargetIs
<1>3. /\ u \in Paths /\ Len(u) = Len(dst) + Len(q) - Len(src)
      /\ \A i \in 1 .. Len(dst) + Len(q) - Len(src) : u[i] =
           IF i <= Len(dst) THEN dst[i] ELSE q[i - Len(dst) + Len(src)]
  BY TargetIs
<1>4. /\ Len(p) \in Nat /\ Len(q) \in Nat /\ Len(src) \in Nat /\ Len(dst) \in Nat
      /\ Len(src) <= Len(p) /\ Len(src) <= Len(q)
      /\ \A i \in 1 .. Len(src) : p[i] = src[i] /\ q[i] = src[i]
  <2>1. Len(p) \in Nat /\ Len(q) \in Nat /\ Len(src) \in Nat /\ Len(dst) \in Nat
    BY PathLen
  <2> QED
    BY <2>1, PrefixIs
<1> HIDE DEF t, u
<1>5. ASSUME IsPrefix(t, u)
      PROVE  IsPrefix(p, q)
  <2>1. Len(t) <= Len(u) /\ \A i \in 1 .. Len(t) : t[i] = u[i]
    BY <1>2, <1>3, <1>5, PrefixIs
  <2>2. Len(p) <= Len(q)
    BY <1>2, <1>3, <1>4, <2>1
  <2>3. ASSUME NEW i \in 1 .. Len(p)
        PROVE  p[i] = q[i]
    <3>1. CASE i <= Len(src)
      BY <1>4, <3>1
    <3>2. CASE i > Len(src)
      <4> DEFINE j == i + Len(dst) - Len(src)
      <4>1. /\ j \in 1 .. Len(dst) + Len(p) - Len(src) /\ j \in 1 .. Len(dst) + Len(q) - Len(src)
            /\ j > Len(dst) /\ j - Len(dst) + Len(src) = i /\ j \in 1 .. Len(t)
        BY <1>2, <1>4, <2>2, <3>2
      <4> HIDE DEF j
      <4>2. t[j] = p[i] /\ u[j] = q[i]
        BY <1>2, <1>3, <1>4, <4>1
      <4> QED
        BY <2>1, <4>1, <4>2
    <3> QED
      BY <1>4, <3>1, <3>2
  <2> QED
    BY <2>2, <2>3, PrefixIs
<1> QED
  BY <1>1, <1>5 DEF t, u

\* A path with one more name.
LEMMA ChildIs ==
  ASSUME NEW p \in Paths, NEW e \in Paths, Len(e) = 1
  PROVE  /\ p \o e \in Paths /\ Len(p \o e) = Len(p) + 1 /\ p \o e # <<>> /\ p \o e # p
         /\ \A i \in 1 .. Len(p) : (p \o e)[i] = p[i]
         /\ (p \o e)[Len(p) + 1] = e[1]
         /\ IsPrefix(p, p \o e) /\ Front(p \o e) = p
<1> DEFINE q == p \o e
<1>1. Len(p) \in Nat
  BY PathLen
<1>2. /\ q \in Paths /\ Len(q) = Len(p) + 1
      /\ \A i \in 1 .. Len(p) : q[i] = p[i]
      /\ q[Len(p) + 1] = e[1]
  <2>1. /\ q \in Paths /\ Len(q) = Len(p) + Len(e)
        /\ \A i \in 1 .. Len(p) + Len(e) : q[i] = IF i <= Len(p) THEN p[i] ELSE e[i - Len(p)]
    BY ConcatProperties DEF Paths
  <2> HIDE DEF q
  <2> QED
    BY <1>1, <2>1
<1> HIDE DEF q
<1>3. IsPrefix(p, q) /\ q # <<>> /\ q # p
  BY <1>1, <1>2, PrefixIs, PathLen
<1>4. Front(q) = p
  <2>1. /\ Front(q) \in Paths /\ Len(Front(q)) = Len(q) - 1
        /\ \A i \in 1 .. Len(q) - 1 : Front(q)[i] = q[i]
    BY <1>2, <1>3, FrontIs
  <2>2. Len(Front(q)) = Len(p) /\ \A i \in 1 .. Len(Front(q)) : Front(q)[i] = p[i]
    BY <1>1, <1>2, <2>1
  <2> QED
    BY <2>1, <2>2, PathsEqual
<1> QED
  BY <1>2, <1>3, <1>4 DEF q

LEMMA ChildName ==
  ASSUME NEW p \in Paths, NEW e \in Paths, NEW f \in Paths, Len(e) = 1, Len(f) = 1,
         p \o f = p \o e
  PROVE  f = e
<1>1. (p \o e)[Len(p) + 1] = e[1] /\ (p \o f)[Len(p) + 1] = f[1]
  BY ChildIs
<1>2. f[1] = e[1]
  BY <1>1
<1> QED
  BY <1>2, PathsEqual

LEMMA TargetChild ==
  ASSUME NEW src \in Paths, NEW dst \in Paths, NEW p \in Paths, IsPrefix(src, p),
         NEW e \in Paths, Len(e) = 1
  PROVE  /\ IsPrefix(src, p \o e) /\ p \o e # src
         /\ Target(p \o e, src, dst) = Target(p, src, dst) \o e
<1> DEFINE q == p \o e
           t == Target(p, src, dst)
           u == Target(q, src, dst)
           v == t \o e
<1>1. /\ Len(p) \in Nat /\ Len(src) \in Nat /\ Len(dst) \in Nat /\ Len(src) <= Len(p)
      /\ \A i \in 1 .. Len(src) : src[i] = p[i]
  BY PathLen, PrefixIs
<1>2. /\ q \in Paths /\ Len(q) = Len(p) + 1
      /\ \A i \in 1 .. Len(p) : q[i] = p[i]
      /\ q[Len(p) + 1] = e[1] /\ IsPrefix(p, q)
  BY ChildIs
<1> HIDE DEF q
<1>3. IsPrefix(src, q) /\ q # src
  BY <1>1, <1>2, PrefixTransitive
<1>4. /\ t \in Paths /\ Len(t) = Len(dst) + Len(p) - Len(src)
      /\ \A i \in 1 .. Len(dst) + Len(p) - Len(src) : t[i] =
           IF i <= Len(dst) THEN dst[i] ELSE p[i - Len(dst) + Len(src)]
  BY TargetIs
<1> HIDE DEF t
<1>5. /\ u \in Paths /\ Len(u) = Len(dst) + Len(q) - Len(src)
      /\ \A i \in 1 .. Len(dst) + Len(q) - Len(src) : u[i] =
           IF i <= Len(dst) THEN dst[i] ELSE q[i - Len(dst) + Len(src)]
  BY <1>2, <1>3, TargetIs
<1>6. /\ v \in Paths /\ Len(v) = Len(t) + 1
      /\ \A i \in 1 .. Len(t) : v[i] = t[i]
      /\ v[Len(t) + 1] = e[1]
  <2>1. t \in Paths
    BY <1>4
  <2> QED
    BY <2>1, ChildIs
<1> HIDE DEF u, v
<1>7. u = v
  <2> DEFINE n == Len(dst) + Len(p) - Len(src)
             back(i) == i - Len(dst) + Len(src)
  <2>1. n \in Nat /\ Len(u) = n + 1 /\ Len(v) = n + 1 /\ Len(t) = n
    BY <1>1, <1>2, <1>4, <1>5, <1>6
  <2>2. ASSUME NEW i \in 1 .. n
        PROVE  u[i] = v[i]
    <3>1. i \in 1 .. Len(dst) + Len(q) - Len(src)
      BY <1>1, <1>2, <2>1
    <3>2. CASE i <= Len(dst)
      BY <1>4, <1>5, <1>6, <2>1, <3>1, <3>2
    <3>3. CASE i > Len(dst)
      <4>1. back(i) \in 1 .. Len(p)
        BY <1>1, <2>1, <3>3
      <4>2. u[i] = q[back(i)] /\ t[i] = p[back(i)] /\ v[i] = t[i]
        BY <1>1, <1>4, <1>5, <1>6, <2>1, <3>1, <3>3
      <4> HIDE DEF back
      <4> QED
        BY <1>2, <4>1, <4>2
    <3> QED
      BY <1>1, <2>1, <3>2, <3>3
  <2>3. u[n + 1] = v[n + 1]
    <3>1. /\ n + 1 \in 1 .. Len(dst) + Len(q) - Len(src) /\ ~(n + 1 <= Len(dst))
          /\ back(n + 1) = Len(p) + 1
      BY <1>1, <1>2, <2>1
    <3>2. u[n + 1] = q[back(n + 1)]
      BY <1>5, <3>1
    <3> QED
      BY <1>2, <1>6, <2>1, <3>1, <3>2
  <2> HIDE DEF n
  <2>4. \A i \in 1 .. Len(u) : u[i] = v[i]
    BY <2>1, <2>2, <2>3
  <2> QED
    BY <1>5, <1>6, <2>1, <2>4, PathsEqual
<1> QED
  BY <1>3, <1>7 DEF q, u, v, t

\* A path that is not empty is the one it is in with its last name.
LEMMA FrontAndLast ==
  ASSUME NEW p \in Paths, p # <<>>
  PROVE  <<Last(p)>> \in Paths /\ Len(<<Last(p)>>) = 1 /\ Front(p) \o <<Last(p)>> = p
<1> DEFINE e == <<Last(p)>>
           q == Front(p) \o e
<1>1. /\ Front(p) \in Paths /\ Len(Front(p)) = Len(p) - 1 /\ Len(p) \in Nat \ {0}
      /\ \A i \in 1 .. Len(p) - 1 : Front(p)[i] = p[i]
  BY FrontIs, PathLen
<1>2. e \in Paths /\ Len(e) = 1 /\ e[1] = p[Len(p)]
  <2>1. Last(p) \in STRING /\ Last(p) = p[Len(p)]
    BY <1>1, PathLen DEF Last
  <2> QED
    BY <2>1 DEF Paths
<1> HIDE DEF e
<1>3. /\ q \in Paths /\ Len(q) = Len(p)
      /\ \A i \in 1 .. Len(p) : q[i] = IF i <= Len(p) - 1 THEN Front(p)[i] ELSE e[i - (Len(p) - 1)]
  <2>1. /\ q \in Paths /\ Len(q) = Len(Front(p)) + Len(e)
        /\ \A i \in 1 .. Len(Front(p)) + Len(e) : q[i] =
             IF i <= Len(Front(p)) THEN Front(p)[i] ELSE e[i - Len(Front(p))]
    BY <1>1, <1>2, ConcatProperties DEF Paths
  <2> QED
    BY <1>1, <1>2, <2>1
<1> HIDE DEF q
<1>4. \A i \in 1 .. Len(p) : q[i] = p[i]
  BY <1>1, <1>2, <1>3
<1>5. q = p
  BY <1>3, <1>4, PathsEqual
<1> QED
  BY <1>2, <1>5 DEF q, e

\* A copy apart from its source has come to the paths ps.
CopyGoes(ps, d) ==
  /\ IsTree(before) /\ IsTree(d)
  /\ call.src \in Paths /\ call.dst \in Paths
  /\ ~IsPrefix(call.src, call.dst) /\ ~IsPrefix(call.dst, call.src)
  /\ ps \subseteq Under(before, call.src) /\ Copied(ps, d)

LEMMA CopyPaths ==
  ASSUME NEW ps, NEW d, CopyGoes(ps, d), NEW p \in Under(before, call.src)
  PROVE  /\ p \in Paths /\ p \in DOMAIN before /\ IsPrefix(call.src, p)
         /\ To(p) \in Paths /\ IsPrefix(call.dst, To(p))
         /\ \A q \in Ancestors(To(p)) : q \in Paths /\ IsPrefix(q, To(p))
         /\ \A q \in Under(before, call.src) :
              /\ IsPrefix(To(p), To(q)) => IsPrefix(p, q)
              /\ To(p) = To(q) => p = q
<1>1. call.src \in Paths /\ call.dst \in Paths /\ p \in Paths /\ p \in DOMAIN before
      /\ IsPrefix(call.src, p)
  BY DEF CopyGoes, Under, IsTree
<1>2. \A q \in Under(before, call.src) : q \in Paths /\ IsPrefix(call.src, q)
  BY DEF CopyGoes, Under, IsTree
<1>3. To(p) \in Paths /\ IsPrefix(call.dst, To(p))
  BY <1>1, TargetIs DEF To
<1>4. \A q \in Ancestors(To(p)) : q \in Paths /\ IsPrefix(q, To(p))
  BY <1>3, AncestorsTyped
<1>5. \A q \in Under(before, call.src) :
        /\ IsPrefix(To(p), To(q)) => IsPrefix(p, q)
        /\ To(p) = To(q) => p = q
  BY <1>1, <1>2, TargetPrefix DEF To
<1> QED
  BY <1>1, <1>3, <1>4, <1>5

\* Nothing lies both in the source and in the destination.
LEMMA CopyIsApart ==
  ASSUME NEW ps, NEW d, CopyGoes(ps, d), NEW q \in Paths, IsPrefix(call.src, q),
         NEW t \in Paths, IsPrefix(call.dst, t)
  PROVE  ~IsPrefix(q, t)
<1> SUFFICES ASSUME IsPrefix(q, t)
             PROVE  FALSE
  OBVIOUS
<1>1. call.src \in Paths /\ call.dst \in Paths
  BY DEF CopyGoes
<1>2. IsPrefix(call.src, t)
  BY <1>1, PrefixTransitive
<1>3. Len(call.src) \in Nat /\ Len(call.dst) \in Nat
  BY <1>1, PathLen
<1>4. IsPrefix(call.src, call.dst) \/ IsPrefix(call.dst, call.src)
  BY <1>1, <1>2, <1>3, PrefixesOfOne
<1> QED
  BY <1>4 DEF CopyGoes

\* The source stays as it was.
LEMMA CopySource ==
  ASSUME NEW ps, NEW d, CopyGoes(ps, d)
  PROVE  /\ \A q \in Under(before, call.src) : q \in DOMAIN d /\ d[q] = before[q]
         /\ \A q \in DOMAIN d : IsPrefix(call.src, q) => q \in Under(before, call.src)
         /\ \A r \in Under(before, call.src) : Entries(d, r) = Entries(before, r)
<1>1. ASSUME NEW q \in Paths, IsPrefix(call.src, q), NEW p \in ps
      PROVE  q # To(p) /\ q \notin Ancestors(To(p))
  <2>1. p \in Under(before, call.src)
    BY DEF CopyGoes
  <2>2. ~IsPrefix(q, To(p))
    BY <1>1, <2>1, CopyPaths, CopyIsApart
  <2> QED
    BY <1>1, <2>1, <2>2, CopyPaths, PrefixItself
<1>2. ASSUME NEW q \in Under(before, call.src)
      PROVE  q \in DOMAIN d /\ d[q] = before[q]
  BY <1>1, CopyPaths DEF CopyGoes, Copied
<1>3. ASSUME NEW q \in DOMAIN d, IsPrefix(call.src, q)
      PROVE  q \in Under(before, call.src)
  <2>1. q \in Paths
    BY DEF CopyGoes, IsTree
  <2> QED
    BY <1>1, <1>3, <2>1 DEF CopyGoes, Copied, Under
<1>4. ASSUME NEW r \in Under(before, call.src)
      PROVE  Entries(d, r) = Entries(before, r)
  <2>1. r \in Paths /\ IsPrefix(call.src, r) /\ call.src \in Paths /\ IsTree(before) /\ IsTree(d)
    BY CopyPaths DEF CopyGoes
  <2>2. \A e \in Entries(before, r) : e \in DOMAIN before /\ e \in Paths /\ IsPrefix(r, e)
    BY <2>1, EntryBelow
  <2>3. \A e \in Entries(d, r) : e \in DOMAIN d /\ e \in Paths /\ IsPrefix(r, e)
    BY <2>1, EntryBelow
  <2>4. \A e \in Entries(before, r) : e \in Under(before, call.src)
    BY <2>1, <2>2, PrefixTransitive DEF Under
  <2>5. \A e \in Entries(d, r) : e \in Under(before, call.src)
    BY <1>3, <2>1, <2>3, PrefixTransitive
  <2> QED
    BY <1>2, <2>4, <2>5 DEF Entries, Under
<1> QED
  BY <1>2, <1>3, <1>4

LEMMA DirCopied ==
  ASSUME NEW ps, NEW d, CopyGoes(ps, d), NEW r, IsDir(before, r),
         \A q \in Ancestors(To(r)) : ~IsFile(d, q)
  PROVE  Copied(ps \cup {r}, MkdirAll(d, To(r)))
<1> DEFINE e == MkdirAll(d, To(r))
<1>1. /\ DOMAIN e = DOMAIN d \cup Ancestors(To(r))
      /\ \A q \in DOMAIN d : e[q] = d[q]
      /\ \A q \in Ancestors(To(r)) \ DOMAIN d : e[q] = Dir
  BY MkdirAllIs
<1> HIDE DEF e
<1>2. \A q \in Ancestors(To(r)) : e[q] = Dir
  BY <1>1 DEF IsFile, Exists
<1>3. ~Copies(r)
  BY DEF Copies, Opens, IsFile, IsDir
<1>4. Copied(ps, d)
  BY DEF CopyGoes
<1>5. \A q : q \in DOMAIN e <=>
       \/ q \in DOMAIN before
       \/ \E p \in ps \cup {r} : IsDir(before, p) /\ q \in Ancestors(To(p))
       \/ \E p \in ps \cup {r} : Copies(p) /\ q = To(p)
  BY <1>1, <1>3, <1>4 DEF Copied
<1>6. \A p \in ps \cup {r} : IsDir(before, p) => \A q \in Ancestors(To(p)) : e[q] = Dir
  BY <1>1, <1>2, <1>4 DEF Copied
<1>7. \A p \in ps \cup {r} : Copies(p) => e[To(p)] = File(before[p].text)
  BY <1>1, <1>3, <1>4 DEF Copied
<1>8. \A q \in DOMAIN before : (\A p \in ps \cup {r} : Copies(p) => q # To(p)) => e[q] = before[q]
  BY <1>1, <1>3, <1>4 DEF Copied
<1>9. Copied(ps \cup {r}, e)
  BY <1>5, <1>6, <1>7, <1>8 DEF Copied
<1> QED
  BY <1>9 DEF e

LEMMA FilePassed ==
  ASSUME NEW ps, NEW d, CopyGoes(ps, d), NEW r, ~IsDir(before, r), ~Copies(r)
  PROVE  Copied(ps \cup {r}, d)
<1>1. Copied(ps, d)
  BY DEF CopyGoes
<1> QED
  BY <1>1 DEF Copied

LEMMA FileCopied ==
  ASSUME NEW ps, NEW d, CopyGoes(ps, d), NEW r \in Under(before, call.src), r \notin ps,
         Copies(r), HasPlace(d, To(r))
  PROVE  Copied(ps \cup {r}, Put(d, To(r), File(before[r].text)))
<1> DEFINE e == Put(d, To(r), File(before[r].text))
<1>1. /\ DOMAIN e = DOMAIN d \cup {To(r)} /\ e[To(r)] = File(before[r].text)
      /\ \A q \in DOMAIN d \ {To(r)} : e[q] = d[q]
  BY DEF Put
<1> HIDE DEF e
<1>2. ~IsDir(before, r)
  BY DEF Copies, Opens, IsFile, IsDir
<1>3. Copied(ps, d)
  BY DEF CopyGoes
<1>4. \A p \in ps : To(p) # To(r)
  BY CopyPaths DEF CopyGoes
<1>5. \A p \in ps : IsDir(before, p) => To(r) \notin Ancestors(To(p))
  BY <1>3 DEF Copied, HasPlace, IsFile, Exists
<1>6. \A q : q \in DOMAIN e <=>
       \/ q \in DOMAIN before
       \/ \E p \in ps \cup {r} : IsDir(before, p) /\ q \in Ancestors(To(p))
       \/ \E p \in ps \cup {r} : Copies(p) /\ q = To(p)
  BY <1>1, <1>2, <1>3 DEF Copied
<1>7. \A p \in ps \cup {r} : IsDir(before, p) => \A q \in Ancestors(To(p)) : e[q] = Dir
  BY <1>1, <1>2, <1>3, <1>5 DEF Copied
<1>8. \A p \in ps \cup {r} : Copies(p) => e[To(p)] = File(before[p].text)
  BY <1>1, <1>3, <1>4 DEF Copied
<1>9. \A q \in DOMAIN before : (\A p \in ps \cup {r} : Copies(p) => q # To(p)) => e[q] = before[q]
  BY <1>1, <1>3 DEF Copied
<1>10. Copied(ps \cup {r}, e)
  BY <1>6, <1>7, <1>8, <1>9 DEF Copied
<1> QED
  BY <1>10 DEF e

\* Whether a file is copied is as it was when the copy began.
LEMMA FileOpens ==
  ASSUME NEW ps, CopyGoes(ps, disk), NEW r \in Under(before, call.src), r \notin ps,
         IsFile(before, r), r # call.src, Front(r) \in ps, IsDir(before, Front(r))
  PROVE  Opens(disk, r) /\ DestinationOpens(To(r)) <=> Copies(r)
<1> DEFINE t == To(r)
<1>1. IsTree(before) /\ r \in Paths /\ r \in DOMAIN before /\ t \in Paths
  BY CopyPaths DEF CopyGoes
<1>2. Opens(disk, r) <=> Opens(before, r)
  BY <1>1, CopySource DEF Opens, IsFile, Exists
<1>3. Copied(ps, disk)
  BY DEF CopyGoes
<1>4. ASSUME NEW p \in ps
      PROVE  t # To(p) /\ (IsDir(before, p) => t \notin Ancestors(To(p)))
  <2>1. p \in Under(before, call.src) /\ p # r
    BY DEF CopyGoes
  <2>2. t # To(p)
    BY <2>1, CopyPaths
  <2>3. ASSUME t \in Ancestors(To(p))
        PROVE  FALSE
    <3>1. IsPrefix(t, To(p))
      BY <2>1, <2>3, CopyPaths
    <3>2. IsPrefix(r, p) /\ p \in DOMAIN before
      BY <2>1, <3>1, CopyPaths
    <3>3. IsDir(before, r)
      BY <1>1, <2>1, <3>2, TreePrefix
    <3> QED
      BY <3>3 DEF IsDir, IsFile
  <2> QED
    BY <2>2, <2>3
<1>5. (Exists(disk, t) <=> Exists(before, t)) /\ (Exists(before, t) => disk[t] = before[t])
  BY <1>3, <1>4 DEF Copied, Exists
<1>6. IsDir(disk, Front(t))
  <2>1. Front(t) = To(Front(r))
    BY <1>1, CopyPaths, TargetFront DEF To, CopyGoes
  <2>2. To(Front(r)) \in Paths
    BY CopyPaths DEF CopyGoes
  <2>3. Front(t) \in Ancestors(To(Front(r)))
    BY <2>1, <2>2, AncestorsOfFront
  <2> QED
    BY <1>3, <2>3 DEF Copied, IsDir, Exists
<1> HIDE DEF t
<1>7. Writable(disk, t) <=> Writable(before, t)
  BY <1>5 DEF Writable, IsFile, Exists
<1>8. DestinationOpens(t) <=>
        IF Exists(before, t) THEN call.overwrite /\ Writable(before, t) ELSE Len(t) <= MaxDepth
  BY <1>5, <1>6, <1>7 DEF DestinationOpens, Creates, Writable, IsFile
<1> QED
  BY <1>2, <1>8 DEF t, Copies

-----------------------------------------------------------------------------
(* The activations of copyDir.                                             *)

\* What the activations below the innermost have yet to come to.
Below(fs) == UNION {Entered(fs[i]) : i \in DOMAIN fs \ {1}}

\* A directory and its copy, and an entry that is ahead of it.
LEMMA StackedFrame ==
  ASSUME NEW ps, NEW d, CopyGoes(ps, d), NEW fs \in Seq(Frames), Stacked(fs),
         NEW i \in DOMAIN fs
  PROVE  LET f == fs[i]
         IN  /\ i \in Nat \ {0} /\ f \in Frames
             /\ f.src \in Under(before, call.src) /\ f.src \in Paths /\ IsDir(before, f.src)
             /\ f.dst = To(f.src) /\ call.src \in Paths /\ call.dst \in Paths
             /\ \A e \in f.todo :
                  /\ e \in Paths /\ Len(e) = 1
                  /\ f.src \o e \in Paths /\ f.src \o e # call.src
                  /\ f.src \o e \in Under(before, call.src) /\ f.dst \o e = To(f.src \o e)
                  /\ Front(f.src \o e) = f.src /\ Len(f.src \o e) = Len(f.src) + 1
                  /\ f.src \o e # <<>> /\ ~IsPrefix(f.src \o e, f.src)
                  /\ \A g \in Paths : Len(g) = 1 /\ f.src \o g = f.src \o e => g = e
<1> DEFINE f == fs[i]
<1>1. i \in Nat \ {0} /\ f \in Frames
  BY LenProperties, ElementOfSeq
<1>2. /\ f.src \in Under(before, call.src) /\ IsDir(before, f.src) /\ f.dst = To(f.src)
      /\ \A e \in f.todo : Len(e) = 1 /\ f.src \o e \in DOMAIN before
  BY DEF Stacked, To
<1> HIDE DEF f
<1>3. /\ f.src \in Paths /\ IsPrefix(call.src, f.src) /\ call.src \in Paths /\ call.dst \in Paths
      /\ f.todo \in SUBSET Paths
  BY <1>1, <1>2, CopyPaths DEF CopyGoes, Frames
<1>4. ASSUME NEW e \in f.todo
      PROVE  /\ e \in Paths /\ Len(e) = 1
             /\ f.src \o e \in Paths /\ f.src \o e # call.src
             /\ f.src \o e \in Under(before, call.src) /\ f.dst \o e = To(f.src \o e)
             /\ Front(f.src \o e) = f.src /\ Len(f.src \o e) = Len(f.src) + 1
             /\ f.src \o e # <<>> /\ ~IsPrefix(f.src \o e, f.src)
             /\ \A g \in Paths : Len(g) = 1 /\ f.src \o g = f.src \o e => g = e
  <2>1. e \in Paths /\ Len(e) = 1 /\ f.src \o e \in DOMAIN before
    BY <1>2, <1>3
  <2>2. /\ f.src \o e \in Paths /\ Len(f.src \o e) = Len(f.src) + 1
        /\ f.src \o e # <<>> /\ Front(f.src \o e) = f.src
        /\ IsPrefix(call.src, f.src \o e) /\ f.src \o e # call.src
        /\ Target(f.src \o e, call.src, call.dst) = Target(f.src, call.src, call.dst) \o e
        /\ \A g \in Paths : Len(g) = 1 /\ f.src \o g = f.src \o e => g = e
    <3>1. /\ f.src \o e \in Paths /\ Len(f.src \o e) = Len(f.src) + 1
          /\ f.src \o e # <<>> /\ Front(f.src \o e) = f.src
      BY <1>3, <2>1, ChildIs
    <3>2. /\ IsPrefix(call.src, f.src \o e) /\ f.src \o e # call.src
          /\ Target(f.src \o e, call.src, call.dst) = Target(f.src, call.src, call.dst) \o e
      <4> DEFINE p == f.src
                 src == call.src
                 dst == call.dst
      <4>1. src \in Paths /\ dst \in Paths /\ p \in Paths /\ IsPrefix(src, p)
        BY <1>3
      <4> HIDE DEF p, src, dst
      <4>2. e \in Paths /\ Len(e) = 1
        BY <2>1
      <4>3. IsPrefix(src, p \o e) /\ p \o e # src
        BY <4>1, <4>2, TargetChild
      <4>4. Target(p \o e, src, dst) = Target(p, src, dst) \o e
        BY <4>1, <4>2, TargetChild
      <4> QED
        BY <4>3, <4>4 DEF p, src, dst
    <3>3. \A g \in Paths : Len(g) = 1 /\ f.src \o g = f.src \o e => g = e
      BY <1>3, <2>1, ChildName
    <3> QED
      BY <3>1, <3>2, <3>3
  <2>3. f.dst \o e = To(f.src \o e)
    BY <1>2, <2>2 DEF To
  <2>4. ~IsPrefix(f.src \o e, f.src)
    <3>1. Len(f.src) \in Nat /\ ~(Len(f.src \o e) <= Len(f.src))
      BY <1>3, <2>2, PathLen
    <3> QED
      BY <1>3, <2>2, <3>1, PrefixIs
  <2> QED
    BY <2>1, <2>2, <2>3, <2>4 DEF Under
<1> QED
  BY <1>1, <1>2, <1>3, <1>4 DEF f

\* Nothing that is ahead is above the innermost directory, or it; and what the others
\* have ahead is not above an entry of it either.
LEMMA StackedAhead ==
  ASSUME NEW ps, NEW d, CopyGoes(ps, d), NEW fs \in Seq(Frames), fs # <<>>, Stacked(fs)
  PROVE  /\ 1 \in DOMAIN fs
         /\ AllEntered(fs) = Entered(fs[1]) \cup Below(fs)
         /\ \A r \in Entered(fs[1]) \cup Below(fs) : r \in Paths /\ ~IsPrefix(r, fs[1].src)
         /\ \A r \in Below(fs), q \in Paths :
              q # <<>> /\ Front(q) = fs[1].src => ~IsPrefix(r, q)
         /\ \A i \in DOMAIN fs : i > 1 =>
              /\ IsPrefix(fs[i].src, fs[1].src) /\ fs[i].src # fs[1].src
              /\ Len(fs[i].src) < Len(fs[1].src)
              /\ \A r \in Entered(fs[i]) : ~IsPrefix(r, fs[1].src)
<1>1. 1 \in DOMAIN fs
  BY LenProperties, EmptySeq
<1>2. AllEntered(fs) = Entered(fs[1]) \cup Below(fs)
  BY <1>1 DEF AllEntered, Below
<1>3. fs[1].src \in Paths /\ Len(fs[1].src) \in Nat
  BY <1>1, StackedFrame, PathLen
<1>4. ASSUME NEW i \in DOMAIN fs, i > 1
      PROVE  /\ IsPrefix(fs[i].src, fs[1].src) /\ fs[i].src # fs[1].src
             /\ Len(fs[i].src) < Len(fs[1].src)
             /\ \A r \in Entered(fs[i]) : ~IsPrefix(r, fs[1].src)
  <2>1. 1 \in 1 .. i - 1 /\ fs[i].src \in Paths
    BY <1>4, StackedFrame
  <2>2. /\ IsPrefix(fs[i].src, fs[1].src) /\ fs[i].src # fs[1].src
        /\ \A r \in Entered(fs[i]) : ~IsPrefix(r, fs[1].src)
    BY <2>1 DEF Stacked
  <2>3. Len(fs[i].src) < Len(fs[1].src)
    BY <1>3, <2>1, <2>2, PrefixBothWays, PathLen
  <2> QED
    BY <2>2, <2>3
<1>5. ASSUME NEW i \in DOMAIN fs, NEW r \in Entered(fs[i])
      PROVE  r \in Paths /\ ~IsPrefix(r, fs[1].src)
  <2>1. PICK e \in fs[i].todo : r = fs[i].src \o e
    BY DEF Entered
  <2>2. r \in Paths /\ ~IsPrefix(r, fs[i].src)
    BY <2>1, StackedFrame
  <2>3. i = 1 \/ i > 1
    BY StackedFrame
  <2> QED
    BY <1>4, <2>2, <2>3
<1>6. ASSUME NEW r \in Below(fs), NEW q \in Paths, q # <<>>, Front(q) = fs[1].src
      PROVE  ~IsPrefix(r, q)
  <2>1. PICK i \in DOMAIN fs \ {1} : r \in Entered(fs[i])
    BY DEF Below
  <2>2. PICK e \in fs[i].todo : r = fs[i].src \o e
    BY <2>1 DEF Entered
  <2>3. i > 1
    BY <2>1, StackedFrame
  <2>4. r \in Paths /\ Len(r) = Len(fs[i].src) + 1 /\ fs[i].src \in Paths
    BY <2>1, <2>2, StackedFrame
  <2>5. Len(q) = Len(fs[1].src) + 1
    BY <1>3, <1>6, FrontIs, PathLen
  <2>6. r # q
    BY <1>3, <1>4, <2>1, <2>3, <2>4, <2>5, PathLen
  <2> QED
    BY <1>5, <1>6, <2>1, <2>4, <2>6, PrefixOfFront
<1> QED
  BY <1>1, <1>2, <1>4, <1>5, <1>6 DEF Below

\* The innermost activation goes on.
LEMMA StackGoesOn ==
  ASSUME NEW fs, NEW gs, Stacked(fs), 1 \in DOMAIN fs, DOMAIN gs = DOMAIN fs,
         \A i \in DOMAIN fs : i \in Nat \ {0} /\ 1 .. i - 1 \subseteq DOMAIN fs,
         \A i \in DOMAIN fs \ {1} : gs[i] = fs[i],
         gs[1].src = fs[1].src, gs[1].dst = fs[1].dst,
         \A e \in gs[1].todo : Len(e) = 1 /\ gs[1].src \o e \in DOMAIN before
  PROVE  Stacked(gs) /\ Below(gs) = Below(fs)
<1>1. Below(gs) = Below(fs)
  BY DEF Below
<1>2. \A i \in DOMAIN fs : gs[i].src = fs[i].src
  OBVIOUS
<1>4. \A i \in DOMAIN fs : \A j \in 1 .. i - 1 : gs[j].src = fs[j].src
  BY <1>2
<1>3. ASSUME NEW i \in DOMAIN gs
      PROVE  LET f == gs[i]
             IN  /\ f.src \in Under(before, call.src) /\ IsDir(before, f.src)
                 /\ f.dst = Target(f.src, call.src, call.dst)
                 /\ \A e \in f.todo : Len(e) = 1 /\ f.src \o e \in DOMAIN before
                 /\ \A j \in 1 .. i - 1 :
                       /\ IsPrefix(f.src, gs[j].src) /\ f.src # gs[j].src
                       /\ \A r \in Entered(f) : ~IsPrefix(r, gs[j].src)
  <2>1. /\ fs[i].src \in Under(before, call.src) /\ IsDir(before, fs[i].src)
        /\ fs[i].dst = Target(fs[i].src, call.src, call.dst)
        /\ \A e \in fs[i].todo : Len(e) = 1 /\ fs[i].src \o e \in DOMAIN before
        /\ \A j \in 1 .. i - 1 :
             /\ IsPrefix(fs[i].src, fs[j].src) /\ fs[i].src # fs[j].src
             /\ \A r \in Entered(fs[i]) : ~IsPrefix(r, fs[j].src)
    BY DEF Stacked
  <2>2. CASE i = 1
    <3>1. 1 .. i - 1 = {}
      BY <2>2
    <3> QED
      BY <2>1, <2>2, <3>1
  <2>3. CASE i # 1
    <3>1. gs[i] = fs[i] /\ \A j \in 1 .. i - 1 : gs[j].src = fs[j].src
      BY <1>4, <2>3
    <3> QED
      BY <2>1, <3>1
  <2> QED
    BY <2>2, <2>3
<1> QED
  BY <1>1, <1>3 DEF Stacked

\* copyDir calls itself for a directory it has come to.
LEMMA StackPushed ==
  ASSUME NEW ps, NEW d, CopyGoes(ps, d), NEW fs \in Seq(Frames), fs # <<>>, Stacked(fs),
         NEW entry \in fs[1].todo, IsDir(before, fs[1].src \o entry),
         NEW gs, DOMAIN gs = 1 .. Len(fs) + 1,
         gs[1].src = fs[1].src \o entry, gs[1].dst = fs[1].dst \o entry, gs[1].todo = {},
         gs[2].src = fs[1].src, gs[2].dst = fs[1].dst, gs[2].todo = fs[1].todo \ {entry},
         \A i \in 3 .. Len(fs) + 1 : gs[i] = fs[i - 1]
  PROVE  /\ Stacked(gs)
         /\ AllEntered(gs) \cup {gs[1].src} = AllEntered(fs)
<1> DEFINE p == fs[1].src \o entry
<1>1. /\ Len(fs) \in Nat \ {0} /\ DOMAIN fs = 1 .. Len(fs) /\ 1 \in DOMAIN fs
      /\ \A i \in DOMAIN fs : fs[i].src \in Paths
  BY StackedAhead, StackedFrame, LenProperties
<1>2. /\ p \in Under(before, call.src) /\ p \in Paths /\ fs[1].src \in Paths
      /\ fs[1].dst \o entry = To(p) /\ p # <<>> /\ Front(p) = fs[1].src
      /\ Len(p) = Len(fs[1].src) + 1 /\ entry \in Paths /\ Len(entry) = 1
  BY <1>1, StackedFrame
<1>3. IsPrefix(fs[1].src, p) /\ fs[1].src # p
  BY <1>1, <1>2, ChildIs
<1>4. \A i \in 3 .. Len(fs) + 1 : i - 1 \in DOMAIN fs /\ i - 1 > 1
  BY <1>1
<1>5. /\ Entered(gs[1]) = {}
      /\ Entered(gs[2]) \cup {p} = Entered(fs[1])
      /\ Entered(gs[2]) \subseteq Entered(fs[1])
      /\ \A i \in 3 .. Len(fs) + 1 : Entered(gs[i]) = Entered(fs[i - 1])
  BY DEF Entered
<1>6. \A r \in Entered(gs[2]) : ~IsPrefix(r, p)
  <2> SUFFICES ASSUME NEW r \in Entered(gs[2]), IsPrefix(r, p)
               PROVE  FALSE
    OBVIOUS
  <2>1. PICK e \in fs[1].todo \ {entry} : r = fs[1].src \o e
    BY DEF Entered
  <2>2. /\ r \in Paths /\ Len(r) = Len(fs[1].src) + 1 /\ e \in Paths /\ Len(e) = 1
    BY <1>1, <2>1, StackedFrame
  <2>3. Len(p) <= Len(r)
    BY <1>2, <2>2, PathLen
  <2>4. r = p
    BY <1>2, <2>2, <2>3, PrefixBothWays
  <2>5. e = entry
    BY <1>2, <2>1, <2>2, <2>4, ChildName
  <2> QED
    BY <2>1, <2>5
<1> HIDE DEF p
<1>7. \A i \in 3 .. Len(fs) + 1 :
        /\ IsPrefix(gs[i].src, p) /\ gs[i].src # p
        /\ IsPrefix(gs[i].src, fs[1].src) /\ gs[i].src # fs[1].src
        /\ \A r \in Entered(gs[i]) : ~IsPrefix(r, p) /\ ~IsPrefix(r, fs[1].src)
  <2> SUFFICES ASSUME NEW i \in 3 .. Len(fs) + 1
               PROVE  /\ IsPrefix(gs[i].src, p) /\ gs[i].src # p
                      /\ IsPrefix(gs[i].src, fs[1].src) /\ gs[i].src # fs[1].src
                      /\ \A r \in Entered(gs[i]) : ~IsPrefix(r, p) /\ ~IsPrefix(r, fs[1].src)
    OBVIOUS
  <2>1. /\ i - 1 \in DOMAIN fs \ {1} /\ gs[i] = fs[i - 1] /\ i - 1 > 1
    BY <1>4
  <2>2. /\ IsPrefix(gs[i].src, fs[1].src) /\ gs[i].src # fs[1].src
        /\ Len(gs[i].src) < Len(fs[1].src)
        /\ \A r \in Entered(gs[i]) : ~IsPrefix(r, fs[1].src)
    BY <2>1, StackedAhead
  <2>3. gs[i].src \in Paths
    BY <1>1, <2>1
  <2>4. IsPrefix(gs[i].src, p) /\ gs[i].src # p
    BY <1>2, <1>3, <2>2, <2>3, PrefixTransitive, PrefixBothWays, PathLen
  <2>5. Entered(gs[i]) \subseteq Below(fs)
    BY <2>1 DEF Below
  <2>6. \A r \in Entered(gs[i]) : ~IsPrefix(r, p)
    BY <1>2, <2>5, StackedAhead
  <2> QED
    BY <2>2, <2>4, <2>6
<1>8. ASSUME NEW i \in DOMAIN gs
      PROVE  LET f == gs[i]
             IN  /\ f.src \in Under(before, call.src) /\ IsDir(before, f.src)
                 /\ f.dst = Target(f.src, call.src, call.dst)
                 /\ \A e \in f.todo : Len(e) = 1 /\ f.src \o e \in DOMAIN before
                 /\ \A j \in 1 .. i - 1 :
                       /\ IsPrefix(f.src, gs[j].src) /\ f.src # gs[j].src
                       /\ \A r \in Entered(f) : ~IsPrefix(r, gs[j].src)
  <2>1. CASE i = 1
    <3>1. 1 .. i - 1 = {}
      BY <2>1
    <3>2. gs[1].src = p /\ IsDir(before, p) /\ gs[1].dst = Target(p, call.src, call.dst)
      BY <1>2 DEF p, To
    <3> QED
      BY <1>2, <2>1, <3>1, <3>2
  <2>2. CASE i = 2
    <3>1. \A j \in 1 .. i - 1 : j = 1
      BY <2>2
    <3>2. gs[1].src = p /\ \A r \in Entered(gs[2]) : ~IsPrefix(r, gs[1].src)
      BY <1>6 DEF p
    <3>3. /\ fs[1].src \in Under(before, call.src) /\ IsDir(before, fs[1].src)
          /\ fs[1].dst = Target(fs[1].src, call.src, call.dst)
          /\ \A e \in fs[1].todo : Len(e) = 1 /\ fs[1].src \o e \in DOMAIN before
      BY <1>1 DEF Stacked
    <3> QED
      BY <1>3, <2>2, <3>1, <3>2, <3>3
  <2>3. CASE i \in 3 .. Len(fs) + 1
    <3>1. i - 1 \in DOMAIN fs /\ gs[i] = fs[i - 1]
      BY <1>4, <2>3
    <3>2. /\ fs[i - 1].src \in Under(before, call.src) /\ IsDir(before, fs[i - 1].src)
          /\ fs[i - 1].dst = Target(fs[i - 1].src, call.src, call.dst)
          /\ \A e \in fs[i - 1].todo : Len(e) = 1 /\ fs[i - 1].src \o e \in DOMAIN before
          /\ \A j \in 1 .. (i - 1) - 1 :
               /\ IsPrefix(fs[i - 1].src, fs[j].src) /\ fs[i - 1].src # fs[j].src
               /\ \A r \in Entered(fs[i - 1]) : ~IsPrefix(r, fs[j].src)
      BY <3>1 DEF Stacked
    <3>3. ASSUME NEW j \in 1 .. i - 1
          PROVE  /\ IsPrefix(gs[i].src, gs[j].src) /\ gs[i].src # gs[j].src
                 /\ \A r \in Entered(gs[i]) : ~IsPrefix(r, gs[j].src)
      <4>1. CASE j = 1
        BY <1>7, <2>3, <4>1 DEF p
      <4>2. CASE j = 2
        BY <1>7, <2>3, <4>2
      <4>3. CASE j > 2
        <5>1. j \in 3 .. Len(fs) + 1 /\ j - 1 \in 1 .. (i - 1) - 1
          BY <1>1, <2>3, <4>3
        <5>2. gs[j] = fs[j - 1]
          BY <5>1
        <5> QED
          BY <3>1, <3>2, <5>1, <5>2
      <4> QED
        BY <2>3, <4>1, <4>2, <4>3
    <3> QED
      BY <3>1, <3>2, <3>3
  <2> QED
    BY <1>1, <2>1, <2>2, <2>3
<1>9. AllEntered(gs) \cup {gs[1].src} = AllEntered(fs)
  <2> DEFINE new == AllEntered(gs)
             old == AllEntered(fs)
  <2>1. gs[1].src = p
    BY DEF p
  <2>2. \A i \in DOMAIN gs : Entered(gs[i]) \subseteq new
    BY DEF AllEntered
  <2>3. \A k \in DOMAIN fs : Entered(fs[k]) \subseteq old
    BY DEF AllEntered
  <2>4. new \subseteq old
    <3>1. \A i \in DOMAIN gs : i = 1 \/ i = 2 \/ i \in 3 .. Len(fs) + 1
      BY <1>1
    <3>2. \A i \in DOMAIN gs : Entered(gs[i]) \subseteq old
      <4> HIDE DEF old
      <4> QED
        BY <1>1, <1>4, <1>5, <2>3, <3>1
    <3> QED
      BY <3>2 DEF AllEntered
  <2>5. old \subseteq new \cup {p}
    <3>1. 2 \in DOMAIN gs
      BY <1>1
    <3>2. \A k \in DOMAIN fs : k # 1 => k + 1 \in 3 .. Len(fs) + 1 /\ k + 1 \in DOMAIN gs /\ (k + 1) - 1 = k
      BY <1>1
    <3>3. Entered(fs[1]) \subseteq new \cup {p}
      <4> HIDE DEF new
      <4> QED
        BY <1>5, <2>2, <3>1
    <3>4. \A k \in DOMAIN fs : k # 1 => Entered(fs[k]) \subseteq new
      <4> HIDE DEF new
      <4> QED
        BY <1>5, <2>2, <3>2
    <3>5. \A k \in DOMAIN fs : Entered(fs[k]) \subseteq new \cup {p}
      <4> HIDE DEF new
      <4> QED
        BY <3>3, <3>4
    <3> QED
      BY <3>5 DEF AllEntered
  <2>6. p \in old
    <3> HIDE DEF old
    <3> QED
      BY <1>1, <1>5, <2>3
  <2> HIDE DEF old, new
  <2>7. new \cup {gs[1].src} = old
    BY <2>1, <2>4, <2>5, <2>6
  <2> QED
    BY <2>7 DEF old, new
<1>10. Stacked(gs)
  BY <1>8 DEF Stacked
<1> QED
  BY <1>9, <1>10

\* It returns to the one that called it.
LEMMA StackPopped ==
  ASSUME NEW fs \in Seq(Frames), Stacked(fs), Len(fs) > 1, fs[1].todo = {},
         NEW gs, DOMAIN gs = 1 .. Len(fs) - 1,
         \A i \in DOMAIN gs : /\ gs[i].src = fs[i + 1].src /\ gs[i].dst = fs[i + 1].dst
                              /\ gs[i].todo = fs[i + 1].todo
  PROVE  /\ Stacked(gs)
         /\ AllEntered(gs) = AllEntered(fs)
<1>1. Len(fs) \in Nat /\ DOMAIN fs = 1 .. Len(fs)
  BY LenProperties
<1>2. \A i \in DOMAIN gs : i + 1 \in DOMAIN fs /\ Entered(gs[i]) = Entered(fs[i + 1])
  <2>1. \A i \in DOMAIN gs : i + 1 \in DOMAIN fs
    BY <1>1
  <2> QED
    BY <2>1 DEF Entered
<1>3. Entered(fs[1]) = {}
  BY DEF Entered
<1>4. ASSUME NEW i \in DOMAIN gs
      PROVE  LET f == gs[i]
             IN  /\ f.src \in Under(before, call.src) /\ IsDir(before, f.src)
                 /\ f.dst = Target(f.src, call.src, call.dst)
                 /\ \A e \in f.todo : Len(e) = 1 /\ f.src \o e \in DOMAIN before
                 /\ \A j \in 1 .. i - 1 :
                       /\ IsPrefix(f.src, gs[j].src) /\ f.src # gs[j].src
                       /\ \A r \in Entered(f) : ~IsPrefix(r, gs[j].src)
  <2>1. LET f == fs[i + 1]
        IN  /\ f.src \in Under(before, call.src) /\ IsDir(before, f.src)
            /\ f.dst = Target(f.src, call.src, call.dst)
            /\ \A e \in f.todo : Len(e) = 1 /\ f.src \o e \in DOMAIN before
            /\ \A j \in 1 .. (i + 1) - 1 :
                  /\ IsPrefix(f.src, fs[j].src) /\ f.src # fs[j].src
                  /\ \A r \in Entered(f) : ~IsPrefix(r, fs[j].src)
    BY <1>2 DEF Stacked
  <2>2. \A j \in 1 .. i - 1 : j \in DOMAIN gs /\ j + 1 \in 1 .. (i + 1) - 1
    BY <1>1
  <2>3. \A j \in 1 .. i - 1 :
          /\ IsPrefix(gs[i].src, gs[j].src) /\ gs[i].src # gs[j].src
          /\ \A r \in Entered(gs[i]) : ~IsPrefix(r, gs[j].src)
    BY <1>2, <2>1, <2>2
  <2> QED
    BY <2>1, <2>3
<1>5. Stacked(gs)
  BY <1>4 DEF Stacked
<1>6. ASSUME NEW k \in DOMAIN fs
      PROVE  Entered(fs[k]) \subseteq UNION {Entered(gs[i]) : i \in DOMAIN gs}
  <2>1. CASE k = 1
    BY <1>3, <2>1
  <2>2. CASE k # 1
    <3>1. k - 1 \in DOMAIN gs /\ (k - 1) + 1 = k
      BY <1>1, <2>2
    <3>2. Entered(gs[k - 1]) = Entered(fs[k])
      BY <1>2, <3>1
    <3> QED
      BY <3>1, <3>2
  <2> QED
    BY <2>1, <2>2
<1> QED
  BY <1>2, <1>5, <1>6 DEF AllEntered

\* What the invariant says of a recursive copy is what TreeCopyTells says.
LEMMA TreeCopyGoTells ==
  ASSUME FsInv, TellInv, Step, frames # <<>>, pc' \in {"enter", "readdir", "entries", "stream"},
         CopyApart(call) /\ TreeCopyTells => TreeCopyTells'
  PROVE  TellInv'
<1>1. call' = call /\ call.tool = "copy" /\ pc \in {"enter", "readdir", "entries", "stream"}
  BY DEF FsInv, Nesting, Step
<1>2. TreeCopyTells' => Tells'
  BY <1>1 DEF Tells, Untouched, Early, WriteTells, FileCopyTells, WalkTells, At
<1> QED
  BY <1>1, <1>2, GoTells DEF Tells

LEMMA TreeCopyHere ==
  ASSUME FsInv, TellInv, frames # <<>>, CopyApart(call), TreeCopyTells
  PROVE  /\ frames \in Seq(Frames) /\ frame = frames[1] /\ Stacked(frames)
         /\ Len(frames) \in Nat \ {0} /\ DOMAIN frames = 1 .. Len(frames)
         /\ Tail(frames) \in Seq(Frames) /\ Len(Tail(frames)) = Len(frames) - 1
         /\ \A i \in 1 .. Len(frames) - 1 : Tail(frames)[i] = frames[i + 1]
         /\ pc # "stream" => CopyGoes(Done, disk)
         /\ Copied(Done, Streamed)
<1>1. /\ frames \in Seq(Frames) /\ call.tool = "copy" /\ call \in Calls /\ IsTree(disk)
  BY DEF FsInv, Nesting, Shapes, TypeOK
<1>2. Len(frames) \in Nat \ {0} /\ DOMAIN frames = 1 .. Len(frames) /\ frame = frames[1]
  BY <1>1, LenProperties, EmptySeq DEF frame
<1>3. /\ Tail(frames) \in Seq(Frames) /\ Len(Tail(frames)) = Len(frames) - 1
      /\ \A i \in 1 .. Len(frames) - 1 : Tail(frames)[i] = frames[i + 1]
  BY <1>1, HeadTailProperties
<1>4. Stacked(frames) /\ Copied(Done, Streamed)
  BY TreeCopiedIs DEF TreeCopyTells, FramesTell
<1>5. ASSUME pc # "stream"
      PROVE  CopyGoes(Done, disk)
  <2>1. Streamed = disk
    BY <1>5 DEF Streamed
  <2>2. Done \subseteq Under(before, call.src)
    BY DEF Done, DoneBut
  <2>3. call.src \in Paths /\ call.dst \in Paths
    BY <1>1, CallTyped
  <2> QED
    BY <1>1, <1>4, <2>1, <2>2, <2>3 DEF CopyGoes, CopyApart, TellInv
<1> QED
  BY <1>1, <1>2, <1>3, <1>4, <1>5

\* What is said of the call and of the disk it found stays.
LEMMA CopyStays ==
  ASSUME Step
  PROVE  /\ \A fs : Stacked(fs) => Stacked(fs)'
         /\ \A ps, d : TreeCopied(ps, before, d) => TreeCopied(ps, before, d)'
         /\ \A A : DoneBut(A)' = DoneBut(A)
<1>1. call' = call /\ before' = before
  BY DEF Step
<1>2. \A f : Entered(f)' = Entered(f)
  BY DEF Entered
<1>3. \A fs : Stacked(fs) => Stacked(fs)'
  BY <1>1, <1>2 DEF Stacked
<1>4. \A ps, d : TreeCopied(ps, before, d) => TreeCopied(ps, before, d)'
  BY <1>1 DEF TreeCopied
<1>5. \A A : DoneBut(A)' = DoneBut(A)
  BY <1>1 DEF DoneBut
<1> QED
  BY <1>3, <1>4, <1>5

LEMMA TreeCopyNext ==
  ASSUME Step, Stacked(frames'), Copied(DoneBut(Ahead'), Streamed'),
         pc' \in {"enter", "readdir"} => Head(frames').todo = {},
         pc' = "stream" => (disk[dstPath(frame.entry)] = File(<<>>))'
  PROVE  TreeCopyTells'
<1>1. Stacked(frames)'
  BY CopyStays
<1>2. FramesTell'
  BY <1>1 DEF FramesTell, frame
<1>3. TreeCopied(DoneBut(Ahead'), before, Streamed')
  BY TreeCopiedIs
<1>5. Done' = DoneBut(Ahead')
  BY CopyStays DEF Done
<1>4. TreeCopied(Done, before, Streamed)'
  BY <1>3, <1>5, CopyStays
<1> QED
  BY <1>2, <1>4 DEF TreeCopyTells

\* The innermost activation goes on: its place among the others.
LEMMA FramesGoOn ==
  ASSUME frames \in Seq(Frames), frames # <<>>, NEW g \in Frames,
         frames' = <<g>> \o Tail(frames)
  PROVE  /\ DOMAIN frames' = DOMAIN frames /\ Head(frames') = g /\ frames'[1] = g
         /\ frames' \in Seq(Frames)
         /\ \A i \in DOMAIN frames \ {1} : frames'[i] = frames[i]
         /\ 1 \in DOMAIN frames
         /\ \A i \in DOMAIN frames : i \in Nat \ {0} /\ 1 .. i - 1 \subseteq DOMAIN frames
<1>1. /\ Len(frames) \in Nat \ {0} /\ DOMAIN frames = 1 .. Len(frames)
  BY LenProperties, EmptySeq
<1>2. /\ Tail(frames) \in Seq(Frames) /\ Len(Tail(frames)) = Len(frames) - 1
      /\ \A i \in 1 .. Len(frames) - 1 : Tail(frames)[i] = frames[i + 1]
  BY <1>1, HeadTailProperties
<1>3. <<g>> \in Seq(Frames) /\ Len(<<g>>) = 1 /\ <<g>>[1] = g
  OBVIOUS
<1>4. /\ frames' \in Seq(Frames) /\ Len(frames') = Len(<<g>>) + Len(Tail(frames))
      /\ \A i \in 1 .. Len(<<g>>) + Len(Tail(frames)) :
           frames'[i] = IF i <= Len(<<g>>) THEN <<g>>[i] ELSE Tail(frames)[i - Len(<<g>>)]
  BY <1>2, <1>3, ConcatProperties
<1>5. Len(frames') = Len(frames) /\ DOMAIN frames' = DOMAIN frames
  BY <1>1, <1>2, <1>3, <1>4, LenProperties
<1>6. \A i \in 1 .. Len(frames) : frames'[i] = IF i <= 1 THEN g ELSE Tail(frames)[i - 1]
  BY <1>1, <1>2, <1>3, <1>4
<1>7. frames'[1] = g
  BY <1>1, <1>6
<1>8. \A i \in DOMAIN frames \ {1} : frames'[i] = frames[i]
  BY <1>1, <1>2, <1>6
<1>9. Head(frames') = frames'[1]
  BY <1>4, <1>5, <1>1
<1>10. \A i \in DOMAIN frames : i \in Nat \ {0} /\ 1 .. i - 1 \subseteq DOMAIN frames
  BY <1>1
<1> QED
  BY <1>1, <1>4, <1>5, <1>7, <1>8, <1>9, <1>10

\* A recursive copy begins.
LEMMA CopyTreeTells ==
  ASSUME FsInv, TellInv, CopyStat, frames' # <<>>
  PROVE  TellInv'
<1> DEFINE x == [src |-> call.src, dst |-> call.dst, todo |-> {}, entry |-> <<>>, copied |-> 0]
<1>1. /\ Step /\ call.tool = "copy" /\ pc = "begin" /\ frames = <<>> /\ call \in Calls
      /\ call' = call /\ before' = before /\ call.src \in Paths /\ call.dst \in Paths
  BY CallTyped DEF CopyStat, At, Step, FsInv, Nesting, Shapes
<1>2. /\ IsDir(disk, call.src) /\ frames' = <<x>> /\ disk' = disk /\ pc' = "enter"
  BY <1>1 DEF CopyStat, Refuse, Return, GoTo, localVars
<1>3. /\ x.src = call.src /\ x.dst = call.dst /\ x.todo = {}
  OBVIOUS
<1> HIDE DEF x
<1>4. DOMAIN frames' = {1} /\ frames'[1] = x /\ Head(frames') = x
  BY <1>2
<1>5. ASSUME disk = before
      PROVE  TreeCopyTells'
  <2>1. call.src \in Under(before, call.src)
    BY <1>1, <1>2, <1>5, PrefixItself DEF Under, IsDir, Exists
  <2>2. Stacked(frames')
    BY <1>1, <1>2, <1>3, <1>4, <1>5, <2>1, TargetOfItself DEF Stacked
  <2>3. Ahead' = {call.src}
    BY <1>2, <1>3, <1>4 DEF Ahead, AllEntered, Entered, frame
  <2>4. DoneBut(Ahead') = {}
    BY <2>3 DEF DoneBut, Under
  <2>5. Copied({}, before)
    BY DEF Copied
  <2>6. Streamed' = before
    BY <1>2, <1>5 DEF Streamed
  <2> QED
    BY <1>1, <1>2, <1>3, <1>4, <2>2, <2>4, <2>5, <2>6, TreeCopyNext
<1>6. TreeCopyTells' => Tells'
  BY <1>1, <1>2 DEF Tells, Untouched, Early, WriteTells, FileCopyTells, WalkTells, At
<1>7. Tells => disk = before
  BY <1>1 DEF Tells, Untouched, Early
<1> QED
  BY <1>1, <1>2, <1>5, <1>6, <1>7, GoTells

\* copyDir makes its directory.
LEMMA DirEnterTells ==
  ASSUME FsInv, TellInv, DirEnter
  PROVE  TellInv'
<1> DEFINE r == frames[1].src
<1>1. /\ Step /\ frames # <<>> /\ frame \in Frames /\ pc = "enter" /\ call.tool = "copy"
  BY FrameTyped DEF DirEnter, At
<1>2. CASE MkdirRefused(frame.dst)
  BY <1>1, <1>2, MkdirRefusedTells
<1>3. ASSUME CanMkdirAll(disk, frame.dst), disk' = MkdirAll(disk, frame.dst),
             frames' = frames, pc' = "readdir"
      PROVE  TellInv'
  <2>1. ASSUME CopyApart(call), TreeCopyTells
        PROVE  TreeCopyTells'
    <3>1. /\ frames \in Seq(Frames) /\ frame = frames[1] /\ Stacked(frames) /\ 1 \in DOMAIN frames
          /\ CopyGoes(Done, disk) /\ frames[1].todo = {}
      BY <1>1, <2>1, TreeCopyHere DEF TreeCopyTells, FramesTell
    <3>2. /\ r \in Under(before, call.src) /\ r \in Paths /\ IsDir(before, r)
          /\ frame.dst = To(r) /\ IsTree(before) /\ IsTree(disk)
      BY <3>1, StackedFrame DEF CopyGoes
    <3>3. Copied(Done \cup {r}, disk')
      BY <1>3, <3>1, <3>2, DirCopied DEF CanMkdirAll
    <3>4. \A p \in Entries(before, r) :
            /\ p \in DOMAIN before /\ p \in Paths /\ IsPrefix(r, p) /\ p # r /\ ~IsPrefix(p, r)
      BY <3>2, EntryBelow DEF Entries
    <3>5. AllEntered(frames) = Below(frames)
      <4>1. AllEntered(frames) = Entered(frames[1]) \cup Below(frames) /\ Entered(frames[1]) = {}
        BY <1>1, <3>1, StackedAhead DEF Entered
      <4> QED
        BY <4>1
    <3>6. Ahead = Below(frames) \cup {r}
      BY <1>1, <3>1, <3>5 DEF Ahead
    <3>7. Ahead' = Below(frames) \cup Entries(before, r)
      <4>1. AllEntered(frames)' = AllEntered(frames) /\ Entries(before, frame.src)' = Entries(before, r)
        BY <1>1, <1>3, <3>1 DEF AllEntered, Entered, Entries, frame, Step
      <4> QED
        BY <1>3, <3>5, <4>1 DEF Ahead
    <3>8. \A a \in Below(frames) : a \in Paths /\ ~IsPrefix(a, r)
      BY <1>1, <3>1, StackedAhead
    <3>9. DoneBut(Ahead') = Done \cup {r}
      <4>1. ASSUME NEW p \in DoneBut(Ahead')
            PROVE  p \in Done \cup {r}
        <5>1. p \in Under(before, call.src) /\ \A a \in Ahead' : ~IsPrefix(a, p)
          BY DEF DoneBut
        <5>2. p \in DOMAIN before
          BY <5>1 DEF Under
        <5>3. CASE IsPrefix(r, p) /\ p # r
          <6>1. \E e \in Entries(before, r) : IsPrefix(e, p)
            BY <3>2, <5>2, <5>3, EntryTowards
          <6> QED
            BY <3>7, <5>1, <6>1
        <5>4. CASE ~IsPrefix(r, p)
          BY <3>6, <3>7, <5>1, <5>4 DEF Done, DoneBut
        <5> QED
          BY <5>3, <5>4
      <4>2. ASSUME NEW p \in Done
            PROVE  p \in DoneBut(Ahead')
        <5>1. p \in Under(before, call.src) /\ \A a \in Ahead : ~IsPrefix(a, p)
          BY DEF Done, DoneBut
        <5>2. p \in Paths /\ ~IsPrefix(r, p)
          BY <3>2, <3>6, <5>1 DEF Under, IsTree
        <5>3. \A e \in Entries(before, r) : ~IsPrefix(e, p)
          BY <3>2, <3>4, <5>2, PrefixTransitive
        <5> QED
          BY <3>6, <3>7, <5>1, <5>3 DEF DoneBut
      <4>3. r \in DoneBut(Ahead')
        BY <3>2, <3>4, <3>7, <3>8 DEF DoneBut
      <4> QED
        BY <4>1, <4>2, <4>3
    <3>10. Streamed' = disk'
      BY <1>3 DEF Streamed
    <3>11. Copied(DoneBut(Ahead'), Streamed')
      BY <3>3, <3>9, <3>10
    <3>12. Stacked(frames') /\ Head(frames').todo = {}
      BY <1>3, <3>1 DEF frame
    <3> QED
      BY <1>1, <1>3, <3>11, <3>12, TreeCopyNext
  <2> QED
    BY <1>1, <1>3, <2>1, TreeCopyGoTells
<1> QED
  BY <1>2, <1>3 DEF DirEnter, MakeDirs, localVars

\* It reads the directory it copies: its entries, as they were when the copy began.
LEMMA DirReadTells ==
  ASSUME FsInv, TellInv, DirRead
  PROVE  TellInv'
<1> DEFINE names == {<<Last(p)>> : p \in Entries(disk, frame.src)}
           g == [frame EXCEPT !.todo = names]
           r == frames[1].src
<1>1. /\ Step /\ frames # <<>> /\ frame \in Frames /\ pc = "readdir" /\ call.tool = "copy"
  BY FrameTyped DEF DirRead, At
<1>2. disk' = disk /\ frames' = <<g>> \o Tail(frames) /\ pc' = "entries"
  BY DEF DirRead, GoTo
<1>3. ASSUME CopyApart(call), TreeCopyTells
      PROVE  TreeCopyTells'
  <2>1. /\ frames \in Seq(Frames) /\ frame = frames[1] /\ Stacked(frames) /\ 1 \in DOMAIN frames
        /\ CopyGoes(Done, disk) /\ frames[1].todo = {} /\ Copied(Done, Streamed)
    BY <1>1, <1>3, TreeCopyHere DEF TreeCopyTells, FramesTell
  <2>2. /\ r \in Under(before, call.src) /\ r \in Paths /\ IsTree(before)
    BY <2>1, StackedFrame DEF CopyGoes
  <2>3. Entries(disk, r) = Entries(before, r)
    BY <2>1, <2>2, CopySource
  <2>4. \A p \in Entries(before, r) : p \in DOMAIN before /\ p \in Paths /\ Front(p) = r /\ p # <<>>
    BY <2>2, EntryBelow DEF Entries
  <2>5. \A p \in Entries(before, r) :
          <<Last(p)>> \in Paths /\ Len(<<Last(p)>>) = 1 /\ r \o <<Last(p)>> = p
    BY <2>4, FrontAndLast
  <2>6. names = {<<Last(p)>> : p \in Entries(before, r)}
    BY <2>1, <2>3
  <2>7. /\ names \in SUBSET Paths
        /\ \A e \in names : Len(e) = 1 /\ r \o e \in DOMAIN before
        /\ {r \o e : e \in names} = Entries(before, r)
    <3>1. \A e \in names : e \in Paths /\ Len(e) = 1 /\ r \o e \in Entries(before, r)
      BY <2>5, <2>6
    <3>2. \A p \in Entries(before, r) : \E e \in names : p = r \o e
      BY <2>5, <2>6
    <3> HIDE DEF names
    <3> QED
      BY <2>4, <3>1, <3>2
  <2> HIDE DEF names
  <2>8. g \in Frames /\ g.src = frame.src /\ g.dst = frame.dst /\ g.todo = names
    BY <1>1, <2>7 DEF Frames
  <2> HIDE DEF g
  <2>9. /\ DOMAIN frames' = DOMAIN frames /\ Head(frames') = g /\ frames'[1] = g
        /\ frames' \in Seq(Frames)
        /\ \A i \in DOMAIN frames \ {1} : frames'[i] = frames[i]
        /\ \A i \in DOMAIN frames : i \in Nat \ {0} /\ 1 .. i - 1 \subseteq DOMAIN frames
    BY <1>1, <1>2, <2>1, <2>8, FramesGoOn
  <2>10. frames'[1].src = r /\ frames'[1].dst = frames[1].dst /\ frames'[1].todo = names
    BY <2>1, <2>8, <2>9
  <2>11. Stacked(frames') /\ Below(frames') = Below(frames)
    BY <2>1, <2>7, <2>9, <2>10, StackGoesOn
  <2>12. Ahead = Below(frames) \cup Entries(before, r)
    <3>1. AllEntered(frames) = Entered(frames[1]) \cup Below(frames) /\ Entered(frames[1]) = {}
      BY <1>1, <2>1, StackedAhead DEF Entered
    <3> QED
      BY <1>1, <2>1, <3>1 DEF Ahead
  <2>13. Ahead' = Below(frames) \cup Entries(before, r)
    <3>1. Entered(frames'[1]) = Entries(before, r)
      BY <2>7, <2>10 DEF Entered
    <3>2. AllEntered(frames') = Entered(frames'[1]) \cup Below(frames')
      BY <2>1, <2>9 DEF AllEntered, Below
    <3>3. Ahead' = AllEntered(frames')
      BY <1>2 DEF Ahead
    <3> QED
      BY <2>11, <3>1, <3>2, <3>3
  <2>14. Streamed' = Streamed
    BY <1>1, <1>2 DEF Streamed
  <2>15. Copied(DoneBut(Ahead'), Streamed')
    BY <2>1, <2>12, <2>13, <2>14 DEF Done
  <2> QED
    BY <1>1, <1>2, <2>11, <2>15, TreeCopyNext
<1> QED
  BY <1>1, <1>2, <1>3, TreeCopyGoTells

\* A new activation on top: its place and the places of the others.
LEMMA FramesPush ==
  ASSUME frames \in Seq(Frames), frames # <<>>, NEW a \in Frames, NEW b \in Frames,
         frames' = <<a, b>> \o Tail(frames)
  PROVE  /\ DOMAIN frames' = 1 .. Len(frames) + 1 /\ Head(frames') = a
         /\ frames'[1] = a /\ frames'[2] = b
         /\ \A i \in 3 .. Len(frames) + 1 : frames'[i] = frames[i - 1]
<1>1. /\ Len(frames) \in Nat \ {0} /\ DOMAIN frames = 1 .. Len(frames)
  BY LenProperties, EmptySeq
<1>2. /\ Tail(frames) \in Seq(Frames) /\ Len(Tail(frames)) = Len(frames) - 1
      /\ \A i \in 1 .. Len(frames) - 1 : Tail(frames)[i] = frames[i + 1]
  BY <1>1, HeadTailProperties
<1>3. <<a, b>> \in Seq(Frames) /\ Len(<<a, b>>) = 2 /\ <<a, b>>[1] = a /\ <<a, b>>[2] = b
  OBVIOUS
<1> DEFINE top == <<a, b>>
           rest == Tail(frames)
<1> HIDE DEF top, rest
<1>4. /\ top \in Seq(Frames) /\ Len(top) = 2 /\ top[1] = a /\ top[2] = b
      /\ rest \in Seq(Frames) /\ Len(rest) = Len(frames) - 1
      /\ \A i \in 1 .. Len(frames) - 1 : rest[i] = frames[i + 1]
      /\ frames' = top \o rest
  BY <1>2, <1>3 DEF top, rest
<1>5. /\ frames' \in Seq(Frames) /\ Len(frames') = Len(top) + Len(rest)
      /\ \A i \in 1 .. Len(top) + Len(rest) :
           frames'[i] = IF i <= Len(top) THEN top[i] ELSE rest[i - Len(top)]
  BY <1>4, ConcatProperties
<1>6. Len(frames') = Len(frames) + 1 /\ DOMAIN frames' = 1 .. Len(frames) + 1
  BY <1>1, <1>4, <1>5, LenProperties
<1>7. \A i \in 1 .. Len(frames) + 1 : frames'[i] = IF i <= 2 THEN top[i] ELSE rest[i - 2]
  BY <1>1, <1>4, <1>5
<1>8. frames'[1] = a /\ frames'[2] = b
  BY <1>1, <1>4, <1>7
<1>9. ASSUME NEW i \in 3 .. Len(frames) + 1
      PROVE  frames'[i] = frames[i - 1]
  <2>1. i \in 1 .. Len(frames) + 1 /\ ~(i <= 2) /\ i - 2 \in 1 .. Len(frames) - 1 /\ (i - 2) + 1 = i - 1
    BY <1>1
  <2>2. frames'[i] = rest[i - 2] /\ rest[i - 2] = frames[(i - 2) + 1]
    BY <1>4, <1>7, <2>1
  <2> QED
    BY <2>1, <2>2
<1>10. Head(frames') = frames'[1]
  BY <1>1, <1>5, <1>6
<1> QED
  BY <1>6, <1>8, <1>9, <1>10

\* What an entry is that copyDir comes to.
LEMMA EntryIs ==
  ASSUME FsInv, TellInv, frames # <<>>, CopyApart(call), TreeCopyTells, pc = "entries",
         NEW entry \in frame.todo
  PROVE  /\ srcPath(entry) = frames[1].src \o entry
         /\ srcPath(entry) \in Under(before, call.src) /\ srcPath(entry) \in Paths
         /\ srcPath(entry) # call.src /\ srcPath(entry) # <<>>
         /\ Front(srcPath(entry)) = frames[1].src
         /\ dstPath(entry) = To(srcPath(entry))
         /\ srcPath(entry) \in DOMAIN disk /\ disk[srcPath(entry)] = before[srcPath(entry)]
         /\ frames[1].src \in Done /\ srcPath(entry) \notin Done /\ IsDir(before, frames[1].src)
         /\ CopyGoes(Done, disk) /\ entry \in Paths /\ Len(entry) = 1
<1>1. /\ frames \in Seq(Frames) /\ frame = frames[1] /\ Stacked(frames) /\ 1 \in DOMAIN frames
      /\ CopyGoes(Done, disk)
  BY TreeCopyHere
<1>2. /\ frames[1].src \o entry \in Under(before, call.src) /\ frames[1].src \o entry \in Paths
      /\ frames[1].src \o entry # call.src /\ frames[1].src \o entry # <<>>
      /\ Front(frames[1].src \o entry) = frames[1].src
      /\ frames[1].dst \o entry = To(frames[1].src \o entry)
      /\ frames[1].src \in Under(before, call.src) /\ IsDir(before, frames[1].src)
      /\ entry \in Paths /\ Len(entry) = 1
  <2>1. entry \in frames[1].todo
    BY <1>1
  <2> DEFINE fs == frames
  <2>2. /\ fs \in Seq(Frames) /\ Stacked(fs) /\ 1 \in DOMAIN fs /\ CopyGoes(Done, disk)
        /\ entry \in fs[1].todo
    BY <1>1, <2>1
  <2> HIDE DEF fs
  <2>3. /\ fs[1].src \o entry \in Under(before, call.src) /\ fs[1].src \o entry \in Paths
        /\ fs[1].src \o entry # call.src /\ fs[1].src \o entry # <<>>
        /\ Front(fs[1].src \o entry) = fs[1].src
        /\ fs[1].dst \o entry = To(fs[1].src \o entry)
        /\ entry \in Paths /\ Len(entry) = 1
    BY <2>2, StackedFrame
  <2>4. fs[1].src \in Under(before, call.src) /\ IsDir(before, fs[1].src)
    BY <2>2, StackedFrame
  <2> QED
    BY <2>3, <2>4 DEF fs
<1>3. srcPath(entry) = frames[1].src \o entry /\ dstPath(entry) = frames[1].dst \o entry
  BY <1>1 DEF srcPath, dstPath
<1>4. Ahead = Entered(frames[1]) \cup Below(frames)
  BY <1>1, StackedAhead DEF Ahead
<1>5. frames[1].src \in Done
  BY <1>1, <1>2, <1>4, StackedAhead DEF Done, DoneBut
<1>6. srcPath(entry) \in Ahead
  BY <1>1, <1>3, <1>4 DEF Entered
<1>7. srcPath(entry) \notin Done
  BY <1>2, <1>3, <1>6, PrefixItself DEF Done, DoneBut
<1>8. srcPath(entry) \in DOMAIN disk /\ disk[srcPath(entry)] = before[srcPath(entry)]
  BY <1>1, <1>2, <1>3, CopySource
<1> QED
  BY <1>1, <1>2, <1>3, <1>5, <1>7, <1>8

\* copyDir calls itself.
LEMMA DirNestedTells ==
  ASSUME FsInv, TellInv, NEW entry, DirNested(entry)
  PROVE  TellInv'
<1> DEFINE inner == [src |-> srcPath(entry), dst |-> dstPath(entry),
                     todo |-> {}, entry |-> <<>>, copied |-> 0]
           outer == [frame EXCEPT !.todo = @ \ {entry}]
<1>1. /\ Step /\ frames # <<>> /\ frame \in Frames /\ pc = "entries" /\ call.tool = "copy"
      /\ entry \in frame.todo /\ IsDir(disk, srcPath(entry)) /\ disk' = disk /\ pc' = "enter"
      /\ frames' = <<inner, outer>> \o Tail(frames) /\ entry \in Paths
  BY FrameTyped DEF DirNested, At, GoTo, Frames
<1>2. inner \in Frames
  BY <1>1, EntryPaths, EntryBelowCall, PrefixEmpty DEF Frames
<1>3. /\ outer \in Frames /\ outer.src = frame.src /\ outer.dst = frame.dst
      /\ outer.todo = frame.todo \ {entry}
  BY <1>1 DEF Frames
<1>4. inner.src = srcPath(entry) /\ inner.dst = dstPath(entry) /\ inner.todo = {}
  OBVIOUS
<1> HIDE DEF inner, outer
<1>5. ASSUME CopyApart(call), TreeCopyTells
      PROVE  TreeCopyTells'
  <2>1. /\ frames \in Seq(Frames) /\ frame = frames[1] /\ Stacked(frames) /\ 1 \in DOMAIN frames
        /\ CopyGoes(Done, disk) /\ Copied(Done, Streamed)
    BY <1>1, <1>5, TreeCopyHere
  <2>2. /\ srcPath(entry) = frames[1].src \o entry /\ dstPath(entry) = frames[1].dst \o entry
        /\ disk[srcPath(entry)] = before[srcPath(entry)]
        /\ srcPath(entry) \in Under(before, call.src)
    BY <1>1, <1>5, <2>1, EntryIs DEF dstPath
  <2>3. IsDir(before, frames[1].src \o entry)
    BY <1>1, <2>2 DEF IsDir, Exists, Under
  <2>4. /\ DOMAIN frames' = 1 .. Len(frames) + 1 /\ Head(frames') = inner
        /\ frames'[1] = inner /\ frames'[2] = outer
        /\ \A i \in 3 .. Len(frames) + 1 : frames'[i] = frames[i - 1]
    BY <1>1, <1>2, <1>3, <2>1, FramesPush
  <2>5. /\ frames'[1].src = frames[1].src \o entry /\ frames'[1].dst = frames[1].dst \o entry
        /\ frames'[1].todo = {} /\ frames'[2].src = frames[1].src
        /\ frames'[2].dst = frames[1].dst /\ frames'[2].todo = frames[1].todo \ {entry}
        /\ entry \in frames[1].todo
    BY <1>1, <1>3, <1>4, <2>1, <2>2, <2>4
  <2>6. Stacked(frames') /\ AllEntered(frames') \cup {frames'[1].src} = AllEntered(frames)
    <3> DEFINE gs == frames'
               fs == frames
    <3>1. /\ CopyGoes(Done, disk) /\ fs \in Seq(Frames) /\ fs # <<>> /\ Stacked(fs)
          /\ entry \in fs[1].todo /\ IsDir(before, fs[1].src \o entry)
      BY <1>1, <2>1, <2>3, <2>5
    <3>2. /\ DOMAIN gs = 1 .. Len(fs) + 1
          /\ gs[1].src = fs[1].src \o entry /\ gs[1].dst = fs[1].dst \o entry /\ gs[1].todo = {}
          /\ gs[2].src = fs[1].src /\ gs[2].dst = fs[1].dst /\ gs[2].todo = fs[1].todo \ {entry}
          /\ \A i \in 3 .. Len(fs) + 1 : gs[i] = fs[i - 1]
      BY <2>4, <2>5
    <3> HIDE DEF gs, fs
    <3>3. Stacked(gs) /\ AllEntered(gs) \cup {gs[1].src} = AllEntered(fs)
      BY <3>1, <3>2, StackPushed
    <3> QED
      BY <3>3 DEF gs, fs
  <2>7. Ahead' = Ahead
    BY <1>1, <2>4, <2>6 DEF Ahead, frame
  <2>8. Streamed' = disk /\ Streamed = disk
    BY <1>1 DEF Streamed
  <2>9. Copied(DoneBut(Ahead'), Streamed')
    BY <2>1, <2>7, <2>8 DEF Done
  <2> QED
    BY <1>1, <1>4, <2>4, <2>6, <2>9, TreeCopyNext
<1> QED
  BY <1>1, <1>5, TreeCopyGoTells

\* copyDir has come to a file.
LEMMA FileIsDone ==
  ASSUME FsInv, TellInv, frames # <<>>, CopyApart(call), TreeCopyTells, pc = "entries",
         NEW entry \in frame.todo, IsFile(before, srcPath(entry)),
         NEW g \in Frames, g.src = frame.src, g.dst = frame.dst, g.todo = frame.todo \ {entry},
         frames' = <<g>> \o Tail(frames), pc' \notin {"enter", "readdir"}
  PROVE  /\ Stacked(frames') /\ Head(frames') = g
         /\ DoneBut(Ahead') = Done \cup {srcPath(entry)}
<1> DEFINE p == srcPath(entry)
<1>1. /\ frames \in Seq(Frames) /\ frame = frames[1] /\ Stacked(frames) /\ 1 \in DOMAIN frames
      /\ CopyGoes(Done, disk) /\ IsTree(before)
  BY TreeCopyHere DEF CopyGoes
<1>2. /\ p = frames[1].src \o entry /\ p \in Under(before, call.src) /\ p \in Paths
      /\ p # <<>> /\ Front(p) = frames[1].src /\ frames[1].src \in Paths
      /\ p \notin Done /\ entry \in Paths /\ Len(entry) = 1 /\ Len(p) = Len(frames[1].src) + 1
  <2>1. /\ p = frames[1].src \o entry /\ p \in Under(before, call.src) /\ p \in Paths
        /\ p # <<>> /\ Front(p) = frames[1].src
        /\ p \notin Done /\ entry \in Paths /\ Len(entry) = 1
    BY EntryIs
  <2>2. frames[1].src \in Paths
    BY <1>1, StackedFrame
  <2>3. Len(p) = Len(frames[1].src) + 1
    BY <2>1, <2>2, ChildIs
  <2> QED
    BY <2>1, <2>2, <2>3
<1>3. /\ DOMAIN frames' = DOMAIN frames /\ Head(frames') = g /\ frames'[1] = g
      /\ \A i \in DOMAIN frames \ {1} : frames'[i] = frames[i]
      /\ \A i \in DOMAIN frames : i \in Nat \ {0} /\ 1 .. i - 1 \subseteq DOMAIN frames
  BY <1>1, FramesGoOn
<1>4. /\ frames'[1].src = frames[1].src /\ frames'[1].dst = frames[1].dst
      /\ frames'[1].todo = frames[1].todo \ {entry}
  BY <1>1, <1>3
<1>5. \A e \in frames'[1].todo : Len(e) = 1 /\ frames'[1].src \o e \in DOMAIN before
  BY <1>1, <1>4 DEF Stacked
<1>6. Stacked(frames') /\ Below(frames') = Below(frames)
  BY <1>1, <1>3, <1>4, <1>5, StackGoesOn
<1>7. Ahead = Entered(frames[1]) \cup Below(frames)
  BY <1>1, StackedAhead DEF Ahead
<1>8. Ahead' = Entered(frames'[1]) \cup Below(frames)
  <2>1. AllEntered(frames') = Entered(frames'[1]) \cup Below(frames')
    BY <1>1, <1>3 DEF AllEntered, Below
  <2> QED
    BY <1>6, <2>1 DEF Ahead
<1>9. Entered(frames'[1]) \subseteq Entered(frames[1])
      /\ Entered(frames[1]) \subseteq Entered(frames'[1]) \cup {p}
  BY <1>2, <1>4 DEF Entered
<1> HIDE DEF p
<1>10. ASSUME NEW a \in Ahead'
       PROVE  ~IsPrefix(a, p)
  <2>1. CASE a \in Below(frames)
    BY <1>1, <1>2, <2>1, StackedAhead
  <2>2. CASE a \in Entered(frames'[1])
    <3>1. PICK e \in frames[1].todo \ {entry} : a = frames[1].src \o e
      BY <1>4, <2>2 DEF Entered
    <3>2. e \in Paths /\ Len(e) = 1
      <4> DEFINE fs == frames
      <4>1. /\ fs \in Seq(Frames) /\ Stacked(fs) /\ 1 \in DOMAIN fs /\ CopyGoes(Done, disk)
            /\ e \in fs[1].todo
        BY <1>1, <3>1
      <4> HIDE DEF fs
      <4> QED
        BY <4>1, StackedFrame
    <3>3. a \in Paths /\ Len(a) = Len(frames[1].src) + 1
      BY <1>2, <3>1, <3>2, ChildIs
    <3>4. a # p
      BY <1>2, <3>1, <3>2, ChildName
    <3>5. Len(p) <= Len(a)
      BY <1>2, <3>3, PathLen
    <3> SUFFICES ASSUME IsPrefix(a, p)
                 PROVE  FALSE
      OBVIOUS
    <3>6. a = p
      BY <1>2, <3>3, <3>5, PrefixBothWays
    <3> QED
      BY <3>4, <3>6
  <2> QED
    BY <1>8, <2>1, <2>2
<1>11. ASSUME NEW q \in DoneBut(Ahead')
       PROVE  q \in Done \cup {p}
  <2>1. q \in Under(before, call.src) /\ \A a \in Ahead' : ~IsPrefix(a, q)
    BY DEF DoneBut
  <2>2. CASE IsPrefix(p, q)
    <3>1. q \in DOMAIN before
      BY <2>1 DEF Under
    <3>2. p # q => IsDir(before, p)
      BY <1>1, <1>2, <2>2, <3>1, TreePrefix
    <3> QED
      BY <3>2 DEF p, IsDir, IsFile
  <2>3. CASE ~IsPrefix(p, q)
    BY <1>7, <1>8, <1>9, <2>1, <2>3 DEF Done, DoneBut
  <2> QED
    BY <2>2, <2>3
<1>12. Done \subseteq DoneBut(Ahead')
  BY <1>7, <1>8, <1>9 DEF Done, DoneBut
<1>13. p \in DoneBut(Ahead')
  BY <1>2, <1>10 DEF DoneBut
<1>14. DoneBut(Ahead') = Done \cup {p}
  BY <1>11, <1>12, <1>13
<1> QED
  BY <1>3, <1>6, <1>14 DEF p

LEMMA DirFileTells ==
  ASSUME FsInv, TellInv, NEW entry, DirFile(entry)
  PROVE  TellInv'
<1> DEFINE p == srcPath(entry)
           t == dstPath(entry)
<1>1. /\ Step /\ frames # <<>> /\ frame \in Frames /\ pc = "entries" /\ call.tool = "copy"
      /\ entry \in frame.todo /\ IsFile(disk, p) /\ entry \in Paths
  BY FrameTyped DEF DirFile, At, Frames
\* What is known of the entry.
<1>2. ASSUME CopyApart(call), TreeCopyTells
      PROVE  /\ CopyGoes(Done, disk) /\ p \in Under(before, call.src) /\ p \notin Done
             /\ p \in Paths /\ t = To(p) /\ IsFile(before, p) /\ ~IsDir(before, p)
             /\ (Opens(disk, p) /\ DestinationOpens(t) <=> Copies(p))
             /\ disk[p] = before[p] /\ p # t /\ t \in Paths
  <2>1. /\ CopyGoes(Done, disk) /\ p \in Under(before, call.src) /\ p \notin Done
        /\ p \in Paths /\ p # call.src /\ t = To(p)
        /\ p \in DOMAIN disk /\ disk[p] = before[p]
        /\ Front(p) \in Done /\ IsDir(before, Front(p))
    BY <1>1, <1>2, EntryIs
  <2> HIDE DEF p, t
  <2>2. IsFile(before, p) /\ ~IsDir(before, p)
    BY <1>1, <2>1 DEF IsFile, IsDir, Exists, Under
  <2>3. Opens(disk, p) /\ DestinationOpens(t) <=> Copies(p)
    BY <2>1, <2>2, FileOpens
  <2>4. t \in Paths /\ IsPrefix(call.dst, t) /\ IsPrefix(call.src, p)
    BY <2>1, CopyPaths
  <2>5. p # t
    BY <2>1, <2>4, CopyIsApart, PrefixItself
  <2> QED
    BY <2>1, <2>2, <2>3, <2>4, <2>5
<1>3. ASSUME ~(Opens(disk, p) /\ DestinationOpens(t)),
             frames' = <<[frame EXCEPT !.todo = @ \ {entry}]>> \o Tail(frames),
             disk' = disk, pc' = "entries"
      PROVE  TellInv'
  <2> DEFINE g == [frame EXCEPT !.todo = @ \ {entry}]
  <2>1. g \in Frames /\ g.src = frame.src /\ g.dst = frame.dst /\ g.todo = frame.todo \ {entry}
    BY <1>1 DEF Frames
  <2>2. frames' = <<g>> \o Tail(frames)
    BY <1>3
  <2> HIDE DEF g
  <2>3. ASSUME CopyApart(call), TreeCopyTells
        PROVE  TreeCopyTells'
    <3>1. /\ CopyGoes(Done, disk) /\ IsFile(before, p) /\ ~IsDir(before, p) /\ ~Copies(p)
      BY <1>2, <1>3, <2>3
    <3>2. Stacked(frames') /\ DoneBut(Ahead') = Done \cup {p}
      BY <1>1, <1>3, <2>1, <2>2, <2>3, <3>1, FileIsDone
    <3>3. Copied(Done \cup {p}, disk)
      BY <3>1, FilePassed
    <3>4. Streamed' = disk
      BY <1>3 DEF Streamed
    <3>5. Copied(DoneBut(Ahead'), Streamed')
      BY <3>2, <3>3, <3>4
    <3> QED
      BY <1>1, <1>3, <3>2, <3>5, TreeCopyNext
  <2> QED
    BY <1>1, <1>3, <2>3, TreeCopyGoTells
<1>4. ASSUME Opens(disk, p), DestinationOpens(t), disk' = Put(disk, t, File(<<>>)),
             frames' = <<[frame EXCEPT !.todo = @ \ {entry}, !.entry = entry,
                                       !.copied = @ + 1]>> \o Tail(frames),
             pc' = "stream"
      PROVE  TellInv'
  <2> DEFINE g == [frame EXCEPT !.todo = @ \ {entry}, !.entry = entry, !.copied = @ + 1]
  <2>1. g \in Frames /\ g.src = frame.src /\ g.dst = frame.dst /\ g.entry = entry
    BY <1>1, FrameCopies
  <2>2. g.todo = frame.todo \ {entry}
    BY <1>1 DEF Frames
  <2>3. frames' = <<g>> \o Tail(frames)
    BY <1>4
  <2> HIDE DEF g
  <2>4. ASSUME CopyApart(call), TreeCopyTells
        PROVE  TreeCopyTells'
    <3>1. /\ CopyGoes(Done, disk) /\ p \in Under(before, call.src) /\ p \notin Done
          /\ t = To(p) /\ IsFile(before, p) /\ Copies(p) /\ disk[p] = before[p] /\ p # t
          /\ t \in Paths
      BY <1>2, <1>4, <2>4
    <3>2. Stacked(frames') /\ Head(frames') = g /\ DoneBut(Ahead') = Done \cup {p}
      BY <1>1, <1>4, <2>1, <2>2, <2>3, <2>4, <3>1, FileIsDone
    <3>3. HasPlace(disk, t)
      BY <1>4, CreatesPlace DEF DestinationOpens
    <3>4. Copied(Done \cup {p}, Put(disk, t, File(before[p].text)))
      BY <3>1, <3>3, FileCopied
    <3>5. srcPath(frame.entry)' = p /\ dstPath(frame.entry)' = t
      <4>1. frame' = g
        BY <3>2 DEF frame
      <4> QED
        BY <2>1, <4>1 DEF srcPath, dstPath
    <3> HIDE DEF p, t
    <3>6. disk'[p] = before[p] /\ disk'[t] = File(<<>>)
      BY <1>1, <1>4, <3>1 DEF Put, IsFile, Exists
    <3>7. Streamed' = Put(disk', t, File(before[p].text))
      BY <1>4, <3>5, <3>6 DEF Streamed
    <3>8. Put(disk', t, File(before[p].text)) = Put(disk, t, File(before[p].text))
      BY <1>4 DEF Put
    <3>9. Copied(DoneBut(Ahead'), Streamed')
      BY <3>2, <3>4, <3>7, <3>8
    <3>10. (disk[dstPath(frame.entry)] = File(<<>>))'
      BY <3>5, <3>6
    <3> QED
      BY <1>1, <1>4, <3>2, <3>9, <3>10, TreeCopyNext
  <2> QED
    BY <1>1, <1>4, <2>4, TreeCopyGoTells
<1> QED
  BY <1>3, <1>4 DEF DirFile, Write, GoTo

\* The text of the copy.
LEMMA DirStreamTells ==
  ASSUME FsInv, TellInv, DirStream
  PROVE  TellInv'
<1> DEFINE from == srcPath(frame.entry)
           to == dstPath(frame.entry)
<1>1. /\ Step /\ frames # <<>> /\ frames' = frames /\ pc = "stream" /\ pc' = "entries"
      /\ disk' = Put(disk, to, File(Overwrite(disk[to].text, disk[from].text)))
      /\ IsFile(disk, from) /\ IsTree(disk)
  BY FrameTyped DEF DirStream, At, localVars, Write, FsInv, Holds, TypeOK
<1> HIDE DEF from, to
<1>2. disk[from].text \in Seq(Words)
  BY <1>1, TextTyped
<1>3. ASSUME CopyApart(call), TreeCopyTells
      PROVE  TreeCopyTells'
  <2>1. Stacked(frames) /\ Copied(Done, Streamed)
    BY <1>1, <1>3, TreeCopyHere
  <2>2. disk[to].text = <<>>
    BY <1>1, <1>3 DEF TreeCopyTells, FramesTell, File, to
  <2>3. disk' = Put(disk, to, File(disk[from].text))
    BY <1>1, <1>2, <2>2, EmptyOverwrite
  <2>4. Streamed = disk'
    BY <1>1, <2>3 DEF Streamed, from, to
  <2>5. Streamed' = disk'
    BY <1>1 DEF Streamed
  <2>6. Ahead' = Ahead
    BY <1>1 DEF Ahead, frame
  <2>7. Copied(DoneBut(Ahead'), Streamed')
    BY <2>1, <2>4, <2>5, <2>6 DEF Done
  <2>8. Stacked(frames')
    BY <1>1, <2>1
  <2> QED
    BY <1>1, <2>7, <2>8, TreeCopyNext
<1> QED
  BY <1>1, <1>3, TreeCopyGoTells

\* copyDir returns: to the activation that called it, or to the model.
LEMMA DirLeaveTells ==
  ASSUME FsInv, TellInv, DirLeave
  PROVE  TellInv'
<1>1. /\ Step /\ frames # <<>> /\ frames \in Seq(Frames) /\ pc = "entries" /\ disk' = disk
      /\ call.tool = "copy" /\ IsDir(before, call.src) /\ frame.todo = {}
      /\ call' = call /\ before' = before /\ call \in Calls
  BY FrameTyped DEF DirLeave, At, Step, FsInv, Nesting
<1>2. Len(frames) \in Nat \ {0} /\ DOMAIN frames = 1 .. Len(frames) /\ frame = frames[1]
  BY <1>1, LenProperties, EmptySeq DEF frame
<1>3. ASSUME Len(frames) = 1, pc' = "idle"
      PROVE  TellInv'
  <2>1. ASSUME Undisturbed, CopyApart(call)
        PROVE  CallDid(before, disk)'
    <3>1. TreeCopyTells
      BY <1>1, <2>1 DEF TellInv, Tells
    <3>2. Copied(Done, Streamed)
      BY <1>1, <2>1, <3>1, TreeCopyHere
    <3>3. Streamed = disk
      BY <1>1 DEF Streamed
    <3>4. Ahead = {}
      <4>1. DOMAIN frames = {1} /\ Entered(frames[1]) = {}
        BY <1>1, <1>2, <1>3 DEF Entered
      <4> QED
        BY <1>1, <4>1 DEF Ahead, AllEntered
    <3>5. Done = Under(before, call.src)
      BY <3>4 DEF Done, DoneBut
    <3>6. TreeCopied(Under(before, call.src), before, disk)
      BY <3>2, <3>3, <3>5, TreeCopiedIs
    <3>7. TreeCopied(Under(before, call.src), before, disk)'
      <4>1. Under(before, call.src)' = Under(before, call.src)
        BY <1>1 DEF Under
      <4> QED
        BY <1>1, <3>6, <4>1, CopyStays
    <3> QED
      BY <1>1, <3>7 DEF CallDid
  <2> QED
    BY <1>1, <1>3, <2>1, ReturnTells
<1>4. ASSUME Len(frames) > 1, pc' = pc,
             frames' = <<[frames[2] EXCEPT !.copied = @ + NestedCount(frame.copied)]>>
                         \o SubSeq(frames, 3, Len(frames))
      PROVE  TellInv'
  <2> DEFINE g == [frames[2] EXCEPT !.copied = @ + NestedCount(frame.copied)]
             rest == SubSeq(frames, 3, Len(frames))
  <2>1. \A i \in 1 .. Len(frames) : frames[i] \in Frames
    BY <1>1, <1>2, ElementOfSeq
  <2>2. /\ g \in Frames /\ g.src = frames[2].src /\ g.dst = frames[2].dst
        /\ g.todo = frames[2].todo
    BY <1>2, <1>4, <2>1 DEF Frames, NestedCount
  <2>3. /\ rest \in Seq(Frames) /\ Len(rest) = Len(frames) - 2
        /\ \A i \in 1 .. Len(frames) - 2 : rest[i] = frames[i + 2]
    <3>1. \A i \in 3 .. Len(frames) : frames[i] \in Frames
      BY <1>2, <2>1
    <3>2. /\ rest \in Seq(Frames)
          /\ Len(rest) = IF 3 <= Len(frames) THEN Len(frames) - 3 + 1 ELSE 0
          /\ \A i \in 1 .. Len(frames) - 3 + 1 : rest[i] = frames[3 + i - 1]
      BY <1>2, <3>1, SubSeqProperties
    <3> QED
      BY <1>2, <1>4, <3>2
  <2> HIDE DEF g, rest
  <2>4. frames' = <<g>> \o rest
    BY <1>4 DEF g, rest
  <2>5. <<g>> \in Seq(Frames) /\ Len(<<g>>) = 1 /\ <<g>>[1] = g
    BY <2>2
  <2>6. /\ frames' \in Seq(Frames) /\ Len(frames') = Len(<<g>>) + Len(rest)
        /\ \A i \in 1 .. Len(<<g>>) + Len(rest) :
             frames'[i] = IF i <= Len(<<g>>) THEN <<g>>[i] ELSE rest[i - Len(<<g>>)]
    BY <2>3, <2>4, <2>5, ConcatProperties
  <2>7. DOMAIN frames' = 1 .. Len(frames) - 1
    BY <1>2, <2>3, <2>5, <2>6, LenProperties
  <2>8. \A i \in DOMAIN frames' : frames'[i] = IF i = 1 THEN g ELSE frames[i + 1]
    <3>1. \A i \in 1 .. Len(frames) - 1 : frames'[i] = IF i <= 1 THEN g ELSE rest[i - 1]
      BY <1>2, <2>3, <2>5, <2>6
    <3>2. \A i \in 1 .. Len(frames) - 1 :
            i # 1 => ~(i <= 1) /\ i - 1 \in 1 .. Len(frames) - 2 /\ (i - 1) + 2 = i + 1
      BY <1>2
    <3>3. \A i \in 1 .. Len(frames) - 1 : i # 1 => rest[i - 1] = frames[i + 1]
      BY <2>3, <3>2
    <3> QED
      BY <2>7, <3>1, <3>2, <3>3
  <2>9. \A i \in DOMAIN frames' :
          /\ frames'[i].src = frames[i + 1].src /\ frames'[i].dst = frames[i + 1].dst
          /\ frames'[i].todo = frames[i + 1].todo
    BY <2>2, <2>8
  <2>10. ASSUME CopyApart(call), TreeCopyTells
         PROVE  TreeCopyTells'
    <3>1. Stacked(frames) /\ Copied(Done, Streamed)
      BY <1>1, <2>10, TreeCopyHere
    <3>2. Stacked(frames') /\ AllEntered(frames') = AllEntered(frames)
      BY <1>1, <1>2, <1>4, <2>7, <2>9, <3>1, StackPopped
    <3>3. Ahead' = Ahead
      BY <1>1, <1>4, <3>2 DEF Ahead
    <3>4. Streamed' = disk /\ Streamed = disk
      BY <1>1, <1>4 DEF Streamed
    <3>5. Copied(DoneBut(Ahead'), Streamed')
      BY <3>1, <3>3, <3>4 DEF Done
    <3> QED
      BY <1>1, <1>4, <3>2, <3>5, TreeCopyNext
  <2> QED
    BY <1>1, <1>4, <2>10, TreeCopyGoTells
<1> QED
  BY <1>3, <1>4 DEF DirLeave, Return

\* A call begins; another process writes; nothing happens.
LEMMA BeginTells ==
  ASSUME FsInv, TellInv, NEW c \in Calls, Begin(c)
  PROVE  TellInv'
<1>1. /\ pc' = "begin" /\ before' = disk /\ disk' = disk /\ frames' = frames
      /\ frames = <<>> /\ IsTree(disk) /\ failures' = 0
  BY DEF Begin, localVars, FsInv, Nesting, TypeOK
<1>2. Tells'
  BY <1>1 DEF Tells, Untouched, WriteTells, FileCopyTells, TreeCopyTells, WalkTells, At
<1>3. ~(failures' > 0)
  BY <1>1
<1> QED
  BY <1>1, <1>2, <1>3 DEF TellInv, OkCallsAreDone

LEMMA OutsideTells ==
  ASSUME FsInv, TellInv, NEW p \in Shared, OutsideWrite(p)
  PROVE  TellInv'
BY DEF OutsideWrite, TellInv, OkCallsAreDone, Undisturbed

\* A system call fails: the call is disturbed, and says error or passes it over.
LEMMA FailureTells ==
  ASSUME FsInv, CutInv, TellInv, DiskFails
  PROVE  TellInv'
<1>1. /\ UNCHANGED <<call, before>> /\ ~Undisturbed'
      /\ pc' = "idle" => result'.status = "error"
      /\ pc' # "idle" => call.tool \in PassesOver
  BY FailureIs DEF CutInv, Undisturbed
<1> QED
  BY <1>1 DEF TellInv, OkCallsAreDone, PassesOver

\* What returns ok has been called.
Called == result.status = "ok" => call \in Calls

LEMMA CalledNext == FsInv /\ Called /\ [Next]_vars => Called'
<1> SUFFICES ASSUME FsInv, Called, [Next]_vars PROVE Called'
  OBVIOUS
<1>1. CASE UNCHANGED vars \/ \E p \in Shared : OutsideWrite(p)
  BY <1>1 DEF vars, OutsideWrite, Called
<1>2. CASE \E c \in Calls : Begin(c)
  BY <1>2 DEF Begin, Called
<1>3. ASSUME CallStep
      PROVE  call' = call /\ call \in Calls
  <2>1. pc # "idle" /\ Step
    BY <1>3 DEF CallStep, At, ReadOpen, ReadData, WriteDirs, WriteTruncate, WriteData, AppendOpen,
                AppendData, PatchRead, PatchTruncate, PatchData, CopyStat, CopyCheck, CopyOpen,
                CopyTruncate, CopyData, DirEnter, DirRead, DirStream, DirLeave, DirNested, DirFile,
                MoveCheck, MoveRename, RemovePath, Mkdir, Stat, WalkBegin, WalkEnds, SearchRg,
                ListVisit, SearchVisit, GlobVisit, Walking
  <2> QED
    BY <2>1 DEF Step, FsInv, Shapes
<1>4. ASSUME DiskFails
      PROVE  call' = call /\ call \in Calls
  <2>1. pc # "idle" /\ Failure
    BY <1>4 DEF DiskFails, CallFails, DirsFail, MkdirFails, WriteStops, StreamStops, DirPassesOver,
                StatFails, RemoveStops, WalkLoses, At
  <2> QED
    BY <2>1 DEF Failure, FsInv, Shapes
<1> QED
  BY <1>1, <1>2, <1>3, <1>4 DEF Next, Called

LEMMA TellsStay ==
  ASSUME TellInv, Called, UNCHANGED vars
  PROVE  TellInv'
<1>1. UNCHANGED <<disk, call, pc, buf, frames, walk, result, before, foreign, failures>>
  BY DEF vars, localVars, historyVars
<1>2. CopyApart(call)' <=> CopyApart(call)
  BY <1>1 DEF CopyApart
<1>3. WriteTells' <=> WriteTells
  BY <1>1 DEF WriteTells, At, OldText, Replaced, Hits
<1>4. TreeCopyTells => TreeCopyTells'
  <2>1. Stacked(frames) => Stacked(frames)'
    BY <1>1 DEF Stacked, Entered
  <2>2. Streamed' = Streamed
    BY <1>1 DEF Streamed, frame, srcPath, dstPath
  <2>3. Done' = Done
    <3>1. Ahead' = Ahead
      BY <1>1 DEF Ahead, AllEntered, Entered, Entries, frame
    <3> QED
      BY <1>1, <3>1 DEF Done, DoneBut
  <2>4. TreeCopied(Done, before, Streamed) => TreeCopied(Done, before, Streamed)'
    BY <1>1, <2>2, <2>3 DEF TreeCopied
  <2> QED
    BY <1>1, <2>1, <2>4 DEF TreeCopyTells, FramesTell, frame, dstPath
<1>5. WalkTells => WalkTells'
  BY <1>1, SplitStays DEF WalkTells
<1>6. ASSUME call \in Calls, CallDid(before, disk)
      PROVE  CallDid(before, disk)'
  <2>1. ToFind(before)' = ToFind(before)
    BY <1>1 DEF ToFind, LinesWith, Chosen, Matches
  <2>2. TreeCopied(Under(before, call.src), before, disk)
          => TreeCopied(Under(before, call.src), before, disk)'
    BY <1>1 DEF TreeCopied
  <2>3. CASE call.tool \in {"read", "stat"}
    BY <1>1, <1>6, <2>3 DEF CallDid
  <2>4. CASE call.tool \in {"list", "search", "glob"}
    BY <1>1, <1>6, <2>1, <2>4 DEF CallDid
  <2>5. CASE call.tool \in {"write", "append"}
    BY <1>1, <1>6, <2>5 DEF CallDid
  <2>6. CASE call.tool = "patch"
    BY <1>1, <1>6, <2>6 DEF CallDid
  <2>7. CASE call.tool = "copy"
    BY <1>1, <1>6, <2>2, <2>7 DEF CallDid
  <2>8. CASE call.tool = "move"
    BY <1>1, <1>6, <2>8 DEF CallDid
  <2>9. CASE call.tool \in {"remove", "mkdir"}
    BY <1>1, <1>6, <2>9 DEF CallDid
  <2>10. call.tool \in {"read", "stat", "list", "search", "glob", "write", "append", "patch",
                        "copy", "move", "remove", "mkdir"}
    BY <1>6, FsAssumption, SMTT(60) DEF Arguments
  <2> QED
    BY <2>3, <2>4, <2>5, <2>6, <2>7, <2>8, <2>9, <2>10
<1> QED
  BY <1>1, <1>2, <1>3, <1>4, <1>5, <1>6
     DEF TellInv, Tells, Untouched, FileCopyTells, OkCallsAreDone, Called, Undisturbed

LEMMA TellNext == FsInv /\ CutInv /\ Called /\ TellInv /\ [Next]_vars => TellInv'
<1> SUFFICES ASSUME FsInv, CutInv, Called, TellInv, [Next]_vars PROVE TellInv'
  OBVIOUS
<1>1. CASE UNCHANGED vars
  BY <1>1, TellsStay
<1>2. CASE \E c \in Calls : Begin(c)
  BY <1>2, BeginTells
<1>3. CASE CallStep
  <2>1. CASE ReadOpen \/ ReadData \/ Stat
    BY <2>1, ReadTells
  <2>2. CASE WriteDirs \/ WriteTruncate \/ WriteData
    BY <2>2, WriteTellsStep
  <2>3. CASE AppendOpen \/ AppendData
    BY <2>3, AppendTellsStep
  <2>4. CASE PatchRead \/ PatchTruncate \/ PatchData
    BY <2>4, PatchTellsStep
  <2>5. CASE CopyStat \/ CopyCheck \/ CopyOpen \/ CopyTruncate \/ CopyData
    <3>1. CASE frames' = <<>>
      BY <2>5, <3>1, CopyFileTells
    <3>2. CASE frames' # <<>>
      <4>1. ASSUME CopyCheck \/ CopyOpen \/ CopyTruncate \/ CopyData
            PROVE  FALSE
        BY <3>2, <4>1
           DEF CopyCheck, CopyOpen, CopyTruncate, CopyData, At, Truncate, Refuse, Return, FsInv,
               Nesting, localVars
      <4> QED
        BY <2>5, <3>2, <4>1, CopyTreeTells
    <3> QED
      BY <3>1, <3>2
  <2>6. CASE DirEnter \/ DirRead \/ DirStream \/ DirLeave
    BY <2>6, DirEnterTells, DirReadTells, DirStreamTells, DirLeaveTells
  <2>7. CASE \E entry \in IF frames = <<>> THEN {} ELSE frame.todo :
               DirNested(entry) \/ DirFile(entry)
    BY <2>7, DirNestedTells, DirFileTells
  <2>8. CASE MoveCheck \/ MoveRename
    BY <2>8, MoveTells
  <2>9. CASE RemovePath \/ Mkdir
    BY <2>9, RemoveTells, MkdirTells
  <2>10. CASE WalkBegin \/ WalkEnds \/ SearchRg
    BY <2>10, WalkBeginTells, WalkEndsTells, SearchRgTells
  <2>11. CASE \E p \in walk.pending : ListVisit(p) \/ SearchVisit(p) \/ GlobVisit(p)
    BY <2>11, ListTells, SearchTells, GlobTells
  <2> QED
    BY <1>3, <2>1, <2>2, <2>3, <2>4, <2>5, <2>6, <2>7, <2>8, <2>9, <2>10, <2>11 DEF CallStep
<1>4. CASE \E p \in Shared : OutsideWrite(p)
  BY <1>4, OutsideTells
<1>5. CASE DiskFails
  BY <1>5, FailureTells
<1> QED
  BY <1>1, <1>2, <1>3, <1>4, <1>5 DEF Next

LEMMA CallsInit == FsInv /\ Init => CutInv /\ TellInv /\ Called /\ GlobSays
BY DEF Init, NoCall, NoResult, CutInv, Walks, ReadGrown, ListWalk, ReadSays, ListSays, GlobSays, At,
       Succeeded, Returned, Called, FsInv, TypeOK, TellInv, OkCallsAreDone

\* A handler of fs.go that says ok when nobody else writes and no system call fails has
\* done to the disk what CallDid says and nothing else, in however many steps, for
\* every tree, call and bound (a copy that does not write where it reads); when a system
\* call has failed, only fsCopy, fsMove and the walks can say ok.
THEOREM CallsTell == Spec => []OkCallsAreDone
<1>1. TellInv => OkCallsAreDone
  BY DEF TellInv
<1> QED
  BY <1>1, CallsInit, CutNext, CalledNext, TellNext, FsInvariant, PTL DEF Spec

LEMMA GlobElsewhere ==
  ASSUME UNCHANGED call, pc' # "idle" \/ call.tool # "glob" \/ result'.status = "error"
  PROVE  GlobSays'
BY DEF GlobSays, Succeeded, Returned

\* A glob that is not full has come to every path.
LEMMA WalkEndsGlob ==
  ASSUME FsInv, TellInv, WalkEnds
  PROVE  GlobSays'
<1>1. /\ pc = "walk" /\ disk' = disk /\ call' = call /\ (Undisturbed' <=> Undisturbed)
      /\ walk.pending = {} /\ result'.found = walk.found /\ call \in Calls
      /\ result'.truncated = IF call.tool = "glob" THEN full ELSE walk.cut
  BY DEF WalkEnds, Return, Step, Undisturbed, FsInv, Shapes
<1>2. ASSUME call.tool = "glob", Undisturbed, ~full
      PROVE  ToFind(disk) \subseteq walk.found
  <2>1. WalkTells
    BY <1>1, <1>2 DEF TellInv, Tells, CopyApart
  <2>2. Cardinality(walk.found) # call.max
    <3>1. call.max \in Nat
      BY <1>1, <1>2, CallTyped
    <3> QED
      BY <1>2, <3>1 DEF full
  <2> QED
    BY <1>1, <1>2, <2>1, <2>2 DEF WalkTells, Split
<1>3. ToFind(disk)' = ToFind(disk)
  BY <1>1, SplitStays
<1> QED
  BY <1>1, <1>2, <1>3 DEF GlobSays, Succeeded, Returned

LEMMA GlobNext == FsInv /\ CutInv /\ TellInv /\ GlobSays /\ [Next]_vars => GlobSays'
<1> SUFFICES ASSUME FsInv, CutInv, TellInv, GlobSays, [Next]_vars PROVE GlobSays'
  OBVIOUS
<1>1. CASE UNCHANGED vars
  <2>1. UNCHANGED <<disk, call, pc, result, foreign, failures>>
    BY <1>1 DEF vars, localVars, historyVars
  <2>2. ToFind(disk)' = ToFind(disk)
    BY <2>1, SplitStays
  <2> QED
    BY <2>1, <2>2 DEF GlobSays, Succeeded, Returned, Undisturbed
<1>2. CASE \E c \in Calls : Begin(c)
  BY <1>2 DEF Begin, GlobSays, Succeeded, Returned
<1>3. CASE CallStep
  <2>1. CASE ReadOpen \/ ReadData \/ WriteDirs \/ WriteTruncate \/ WriteData \/ AppendOpen
             \/ AppendData \/ PatchRead \/ PatchTruncate \/ PatchData
    BY <2>1, GlobElsewhere
       DEF At, Step, ReadOpen, ReadData, WriteDirs, WriteTruncate, WriteData, AppendOpen, AppendData,
           PatchRead, PatchTruncate, PatchData
  <2>2. CASE CopyStat \/ CopyCheck \/ CopyOpen \/ CopyTruncate \/ CopyData
             \/ MoveCheck \/ MoveRename \/ RemovePath \/ Mkdir \/ Stat
    BY <2>2, GlobElsewhere
       DEF At, Step, CopyStat, CopyCheck, CopyOpen, CopyTruncate, CopyData, MoveCheck, MoveRename,
           RemovePath, Mkdir, Stat
  <2>3. CASE \/ DirEnter \/ DirRead \/ DirStream \/ DirLeave
             \/ \E entry : DirNested(entry) \/ DirFile(entry)
    BY <2>3, GlobElsewhere DEF At, Step, DirEnter, DirRead, DirStream, DirLeave, DirNested, DirFile
  <2>4. CASE SearchRg
    BY <2>4, GlobElsewhere DEF SearchRg, At, Step
  <2>5. CASE WalkBegin \/ \E p \in walk.pending : ListVisit(p) \/ SearchVisit(p) \/ GlobVisit(p)
    BY <2>5, GlobElsewhere
       DEF Step, WalkBegin, ListVisit, SearchVisit, GlobVisit, Walking, GoTo
  <2>6. CASE WalkEnds
    BY <2>6, WalkEndsGlob
  <2> QED
    BY <1>3, <2>1, <2>2, <2>3, <2>4, <2>5, <2>6 DEF CallStep
<1>4. CASE \E p \in Shared : OutsideWrite(p)
  BY <1>4 DEF OutsideWrite, GlobSays, Undisturbed
<1>5. CASE DiskFails
  BY <1>5, FailureIs, GlobElsewhere DEF CutInv
<1> QED
  BY <1>1, <1>2, <1>3, <1>4, <1>5 DEF Next

\* fsRead from an offset that is not negative says truncated only if it has left text
\* out, and without it has given the model what there was; on a disk that is left alone
\* fsList says it exactly if an entry was left out, and fsGlob whenever a match was: for
\* every bound and tree.
THEOREM TruncatedTells == Spec => []TruncatedIffMore
<1>1. CutInv /\ GlobSays => TruncatedIffMore
  BY DEF CutInv, TruncatedIffMore
<1> QED
  BY <1>1, CallsInit, CutNext, CalledNext, TellNext, GlobNext, FsInvariant, PTL DEF Spec

-----------------------------------------------------------------------------
(* target.exec and the tools that run their command as it does.            *)

\* What holds of one command.
CmdInv(c) ==
  /\ waiter[c] \in {"none", "waiting"} \/ leader[c] = "gone"
  /\ leader[c] = "gone" => waiter[c] \in {"reaped", "sent"}
  /\ waiter[c] = "none" <=> leader[c] = "none"
  /\ waiter[c] = "sent" => ~PipeOpen(c, "output")
  /\ phase[c] = "idle" => waiter[c] = "none"
  /\ phase[c] = "returned" => waiter[c] \in {"none", "sent"}

Inv == TargetTypeOK /\ \A c \in Cmds : CmdInv(c)

USE DEF Exits, Pipes

LEMMA InvInit == TargetInit => Inv
BY DEF TargetInit, ProcessInit, Inv, CmdInv, TargetTypeOK, ProcessTypeOK

\* The end of a context, a start, and one that fails.
LEMMA InvStart ==
  ASSUME Inv, NEW d \in Cmds, UNCHANGED tool, ContextEnds(d) \/ StartFails(d) \/ Start(d)
  PROVE  Inv'
<1> USE DEF Inv, CmdInv, TargetTypeOK, ProcessTypeOK, processVars, PipeOpen
<1>1. CASE ContextEnds(d)
  BY <1>1 DEF ContextEnds
<1>2. CASE StartFails(d)
  BY <1>2 DEF StartFails, ReturnResult
<1>3. CASE Start(d)
  BY <1>3 DEF Start, Started
<1> QED
  BY <1>1, <1>2, <1>3

\* The steps of os/exec.
LEMMA InvRun ==
  ASSUME Inv, NEW d \in Cmds, UNCHANGED tool, WatchKills(d) \/ Wait(d)
  PROVE  Inv'
<1> USE DEF Inv, CmdInv, TargetTypeOK, ProcessTypeOK, processVars, PipeOpen
<1>1. CASE WatchKills(d)
  <2>1. CASE leader[d] = "alive"
    BY <1>1, <2>1 DEF WatchKills
  <2>2. CASE leader[d] # "alive"
    BY <1>1, <2>2 DEF WatchKills
  <2> QED
    BY <2>1, <2>2
<1>2. CASE Reap(d) /\ UNCHANGED <<phase, ctx, watch, outcome>>
  BY <1>2 DEF Reap
<1>3. CASE WaitReturns(d) /\ UNCHANGED <<phase, ctx, watch, outcome>>
  BY <1>3 DEF WaitReturns
<1> QED
  BY <1>1, <1>2, <1>3 DEF Wait

LEMMA ResultType ==
  ASSUME Inv, NEW c \in Cmds, NEW r \in RunResult(c)
  PROVE  r \in {"ok", "exec_error", "timeout"}
BY DEF RunResult, Inv, TargetTypeOK

\* The return of a call.  SignalKill comes too late for the leader.
LEMMA InvReceive ==
  ASSUME Inv, NEW d \in Cmds, UNCHANGED tool, Receive(d)
  PROVE  Inv'
<1>1. PICK r \in RunResult(d) :
        /\ ReturnResult(d, r)
        /\ IF r = "timeout" THEN SignalKill({d}) ELSE UNCHANGED processVars
  BY DEF Receive
<1>2. phase[d] = "running" /\ waiter[d] = "sent" /\ leader[d] = "gone"
  BY DEF Receive, Inv, CmdInv
<1>3. UNCHANGED <<leader, exit, child, inGroup, holds, feeding>>
  BY <1>1, <1>2 DEF SignalKill, Signal, processVars, Inv, TargetTypeOK, ProcessTypeOK
<1>4. UNCHANGED <<waiter, ctx, watch>>
  BY DEF Receive
<1>5. TargetTypeOK'
  BY <1>1, <1>3, <1>4, ResultType DEF ReturnResult, Inv, TargetTypeOK, ProcessTypeOK
<1>6. ASSUME NEW c \in Cmds PROVE CmdInv(c)'
  BY <1>1, <1>2, <1>3, <1>4 DEF ReturnResult, Inv, CmdInv, TargetTypeOK, PipeOpen
<1> QED
  BY <1>5, <1>6 DEF Inv

\* What the processes do by themselves.
LEMMA InvProcesses ==
  ASSUME Inv, NEW d \in Cmds, UNCHANGED <<tool, phase, ctx, watch, outcome>>,
         Fork(d) \/ LeaderExits(d) \/ ChildExits(d) \/ TakesInput(d)
  PROVE  Inv'
<1> USE DEF Inv, CmdInv, TargetTypeOK, ProcessTypeOK, PipeOpen
<1>1. CASE Fork(d)
  <2>1. \E pipes \in SUBSET Pipes : holds' = [holds EXCEPT ![d] = pipes]
    BY <1>1 DEF Fork, InUse
  <2> QED BY <1>1, <2>1 DEF Fork
<1>2. CASE LeaderExits(d)
  BY <1>2 DEF LeaderExits
<1>3. CASE ChildExits(d)
  BY <1>3 DEF ChildExits
<1>4. CASE TakesInput(d)
  BY <1>4 DEF TakesInput
<1> QED
  BY <1>1, <1>2, <1>3, <1>4

LEMMA InvNext == Inv /\ [TargetNext]_targetVars => Inv'
<1>1. Inv /\ UNCHANGED targetVars => Inv'
  BY DEF targetVars, processVars, Inv, CmdInv, TargetTypeOK, ProcessTypeOK, PipeOpen
<1>2. Inv /\ TargetNext => Inv'
  BY <1>1, InvStart, InvRun, InvReceive, InvProcesses DEF TargetNext, Processes, Finished
<1> QED
  BY <1>1, <1>2

\* procExecLocal, targetExecSSH, the copies, info and ping: when the tool looks at the
\* output of its command, nobody writes it any more.
THEOREM TargetOutputIsSettled == TargetSpec => []OutputSettled
<1>1. Inv => OutputSettled
  BY DEF Inv, CmdInv, OutputSettled
<1> QED
  BY <1>1, InvInit, InvNext, PTL DEF TargetSpec

\* The processes, the commands' states and their results keep their types.
THEOREM TargetTypeCorrect == TargetSpec => []TargetTypeOK
<1>1. Inv => TargetTypeOK
  BY DEF Inv
<1> QED
  BY <1>1, InvInit, InvNext, PTL DEF TargetSpec
=============================================================================
