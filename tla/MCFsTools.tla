----------------------------- MODULE MCFsTools ------------------------------
(***************************************************************************)
(* Disks and calls for the runs of FsTools.                                *)
(***************************************************************************)
EXTENDS FsTools

CONSTANTS x, y

Sealed(text) == [text |-> text, perm |-> "none"]
ReadOnly(text) == [text |-> text, perm |-> "r"]
Root == <<>> :> Dir

\* A file, a directory and a file in it.
Plain ==
  Root @@ <<"a">> :> File(<<x, y, x>>) @@ <<"b">> :> Dir @@ <<"b", "a">> :> File(<<y>>)

\* A directory with a file and a directory.
Nested ==
  Root @@ <<"a">> :> Dir @@ <<"a", "a">> :> File(<<x>>)
       @@ <<"a", "b">> :> Dir @@ <<"a", "b", "a">> :> File(<<y, x>>)

\* Two directories with common names, a file that does not open, and files that
\* may not be written.
Clashing ==
  Root @@ <<"a">> :> Dir @@ <<"a", "a">> :> Sealed(<<x>>) @@ <<"a", "b">> :> ReadOnly(<<x>>)
       @@ <<"a", "c">> :> File(<<y>>)
       @@ <<"b">> :> Dir @@ <<"b", "a">> :> File(<<y>>) @@ <<"b", "b">> :> ReadOnly(<<x>>)
       @@ <<"b", "c">> :> ReadOnly(<<x>>)

\* A file where the other directory has a directory.
Blocked ==
  Root @@ <<"a">> :> Dir @@ <<"a", "b">> :> Dir @@ <<"a", "a">> :> File(<<x>>)
       @@ <<"b">> :> Dir @@ <<"b", "b">> :> File(<<y>>)

\* Hidden files and directories.
Dotted ==
  Root @@ <<"a">> :> Dir @@ <<"a", ".h">> :> Dir @@ <<"a", ".h", "a">> :> File(<<x>>)
       @@ <<"a", "b">> :> Dir @@ <<"a", "b", "a">> :> File(<<x, x>>)
       @@ <<"a", "b", ".h">> :> File(<<y>>) @@ <<".h">> :> Dir @@ <<".h", "a">> :> Sealed(<<x>>)

\* Three levels, with the same names on each.
Deep ==
  Root @@ <<"a">> :> Dir @@ <<"a", "a">> :> File(<<x, x>>)
       @@ <<"a", "b">> :> Dir @@ <<"a", "b", "a">> :> File(<<y>>)
       @@ <<"a", "b", "b">> :> Dir @@ <<"a", "b", "b", "a">> :> File(<<x>>)

AllTrees == {Plain, Nested, Clashing, Blocked, Dotted, Deep}
CopyTrees == {Plain, Nested}
SkipTrees == {Nested, Clashing}

Places == {<<"a">>, <<"b">>, <<"a", "a">>, <<"a", "b">>, <<"b", "a">>, <<"c", "a">>}
\* The last directory of it, and it itself, are too long to be made.
TooLong == <<"c", "a", "b", "a", "b">>
Texts == {<<y>>, <<y, x>>}

Reads == [tool : {"read"}, path : Places, offset : {-1, 0, 1, 2}, max : {1, 2}]
Writes == [tool : {"write"}, path : Places \cup {TooLong}, text : Texts, dirs : BOOLEAN]
Appends == [tool : {"append"}, path : Places, text : Texts, create : BOOLEAN]
Patches == [tool : {"patch"}, path : Places, old : {x, y}, new : {x, y}, all : BOOLEAN]
Pairs == [tool : {"copy", "move"}, src : Places, dst : Places,
          overwrite : BOOLEAN, recursive : BOOLEAN]
Removals == [tool : {"remove"}, path : Places, recursive : BOOLEAN]
Makings == [tool : {"mkdir"}, path : Places \cup {TooLong}, parents : BOOLEAN]

Stats == [tool : {"stat"}, path : Places]
Roots == {<<"a">>, <<"b">>, <<".h">>, <<"a", "b">>}
Lists == [tool : {"list"}, path : Roots, all : BOOLEAN, recursive : BOOLEAN, max : 1..4]
Searches == [tool : {"search"}, path : Roots, query : {x}, names : {{"a"}, {"a", "b", ".h"}},
             max : 1..3]
AnyName == {"a", "b", "c", ".h", "."}
Globs == [tool : {"glob"}, path : Roots, max : 1..3,
          pattern : {<<{"a"}>>, <<AnyName>>, <<AnyName, {"a"}>>}]
Walks == Lists \cup Searches \cup Globs
Looks == Walks \cup Reads

AllCalls == Reads \cup Writes \cup Appends \cup Patches \cup Removals \cup Makings
              \cup Stats \cup Walks \cup Pairs
Copies == {c \in Pairs : CopyApart(c) /\ c.tool = "copy"}
SelfCopies == {c \in Pairs : c.tool = "copy" /\ c.overwrite /\ IsPrefix(c.src, c.dst)}
=============================================================================
