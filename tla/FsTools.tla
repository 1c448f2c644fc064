------------------------------ MODULE FsTools -------------------------------
(***************************************************************************)
(* The tools of internal/builtin/fs.go.  Turns run one call at a time; the *)
(* processes of katty's sessions, of "!" commands' children and of anybody *)
(* else use the same disk, so a call is modelled as the system calls it    *)
(* makes, with the writes of others between them.  Any of them may fail:   *)
(* the disk is full, a device gives an error, a directory may not be read. *)
(*                                                                         *)
(* A path is a sequence of names, the disk a tree of directories and of    *)
(* files whose text is a sequence of words.                                *)
(***************************************************************************)
EXTENDS Naturals, Integers, SequencesExt

CONSTANTS
  Words,       \* what texts are made of
  Other,       \* the word other processes write
  Dir,         \* the node of a directory
  Shared,      \* the paths they write to
  Hidden,      \* the names that begin with a dot
  Dot,         \* "."
  Trees,       \* the disks a call may find
  Calls,       \* the calls turns may make
  MaxDepth,    \* the longest path the operating system takes
  MaxCalls,    \* bound: calls
  MaxOutside,  \* bound: writes of other processes
  MaxFailures  \* bound: failures of the disk a call meets

VARIABLES
  disk,      \* the node at every path there is
  call,      \* the call that runs, or ran last
  pc,        \* where its handler is
  buf,       \* the text the handler holds
  size,      \* the size fsRead has from Stat
  frames,    \* the activations of copyDir, the innermost first
  walk,      \* what WalkDir has yet to visit, and what was found
  result,    \* what the handler has returned
  before,    \* the disk when the call began
  touched,   \* the paths the call has changed
  foreign,   \* the files others have written to since it began
  failures,  \* the failures of the disk it has met
  calls, outside

localVars == <<buf, size, frames, walk>>
historyVars == <<before, touched, foreign, failures>>
boundVars == <<calls, outside>>
vars == <<disk, call, pc, localVars, result, historyVars, boundVars>>

NoCall == [tool |-> "none"]
NoResult == [status |-> "none"]
Error == [status |-> "error"]
Ok == [status |-> "ok"]

NoWalk == [pending |-> {}, found |-> {}, cut |-> FALSE]

File(text) == [text |-> text, perm |-> "rw"]

Exists(d, p) == p \in DOMAIN d
IsDir(d, p) == Exists(d, p) /\ d[p] = Dir
IsFile(d, p) == Exists(d, p) /\ d[p] # Dir
Under(d, p) == {q \in DOMAIN d : IsPrefix(p, q)}

Paths == Seq(STRING)
FileNodes == [text : Seq(Words), perm : {"rw", "r", "none"}]

\* What is at a path is in a directory.
IsTree(d) ==
  /\ IsFiniteSet(DOMAIN d)
  /\ \A p \in DOMAIN d : /\ p \in Paths
                         /\ p = <<>> \/ IsDir(d, Front(p))
                         /\ d[p] = Dir \/ d[p] \in FileNodes

\* The tools' arguments.  A bound that is not positive stands for the default.
Bounds == Nat \ {0}
Arguments ==
  [tool : {"read"}, path : Paths, offset : Int, max : Bounds]
    \cup [tool : {"write"}, path : Paths, text : Seq(Words), dirs : BOOLEAN]
    \cup [tool : {"append"}, path : Paths, text : Seq(Words), create : BOOLEAN]
    \cup [tool : {"patch"}, path : Paths, old : Words, new : Words, all : BOOLEAN]
    \cup [tool : {"copy", "move"}, src : Paths, dst : Paths,
          overwrite : BOOLEAN, recursive : BOOLEAN]
    \cup [tool : {"remove"}, path : Paths, recursive : BOOLEAN]
    \cup [tool : {"mkdir"}, path : Paths, parents : BOOLEAN]
    \cup [tool : {"stat"}, path : Paths]
    \cup [tool : {"list"}, path : Paths, all : BOOLEAN, recursive : BOOLEAN, max : Bounds]
    \cup [tool : {"search"}, path : Paths, query : Words, names : SUBSET STRING, max : Bounds]
    \cup [tool : {"glob"}, path : Paths, pattern : Seq(SUBSET STRING), max : Bounds]

ASSUME FsAssumption ==
  /\ MaxDepth \in Nat /\ MaxCalls \in Nat /\ MaxOutside \in Nat /\ MaxFailures \in Nat
  /\ Dir \notin FileNodes /\ Other \in Words
  /\ Shared \subseteq Paths /\ Calls \subseteq Arguments
  /\ \A d \in Trees : IsTree(d)

\* os.Open of a file; os.OpenFile for writing; and of one that may be created.
Opens(d, p) == IsFile(d, p) /\ d[p].perm # "none"
Writable(d, p) == IsFile(d, p) /\ d[p].perm = "rw"
Creates(d, p) == Writable(d, p) \/ (~Exists(d, p) /\ Len(p) <= MaxDepth /\ IsDir(d, Front(p)))

Entries(d, p) == {q \in DOMAIN d : q # <<>> /\ Front(q) = p}

Put(d, p, node) == [q \in DOMAIN d \cup {p} |-> IF q = p THEN node ELSE d[q]]

\* os.MkdirAll, when nothing fails.
Ancestors(p) == {SubSeq(p, 1, i) : i \in 0..Len(p)}
CanMkdirAll(d, p) == Len(p) <= MaxDepth /\ \A q \in Ancestors(p) : ~IsFile(d, q)

MkdirAll(d, p) == [q \in DOMAIN d \cup Ancestors(p) |-> IF Exists(d, q) THEN d[q] ELSE Dir]

\* A write at the start of a file that was opened without O_APPEND.
Overwrite(text, new) == new \o SubSeq(text, Len(new) + 1, Len(text))

TypeOK ==
  /\ IsTree(disk)
  /\ call \in Calls \cup {NoCall}
  /\ pc \in {"idle", "begin", "check", "open", "truncate", "data",
             "enter", "readdir", "entries", "stream", "walk"}
  /\ buf \in Seq(Words)
  /\ size \in Nat
  /\ walk.pending \subseteq DOMAIN disk /\ walk.cut \in BOOLEAN
  /\ result.status \in {"none", "error", "ok"}
  /\ foreign \subseteq Shared /\ touched \subseteq DOMAIN disk \cup DOMAIN before \cup foreign
  /\ calls \in 0..MaxCalls /\ outside \in 0..MaxOutside /\ failures \in 0..MaxFailures

Init ==
  /\ disk \in Trees
  /\ call = NoCall /\ pc = "idle"
  /\ buf = <<>> /\ size = 0 /\ frames = <<>> /\ walk = NoWalk
  /\ result = NoResult
  /\ before = disk /\ touched = {} /\ foreign = {} /\ failures = 0
  /\ calls = 0 /\ outside = 0

-----------------------------------------------------------------------------
\* A turn calls a tool.
Begin(c) ==
  /\ pc = "idle" /\ calls < MaxCalls
  /\ call' = c /\ pc' = "begin"
  /\ calls' = calls + 1
  /\ result' = NoResult
  /\ before' = disk /\ touched' = {} /\ foreign' = {} /\ failures' = 0
  /\ UNCHANGED <<disk, localVars, outside>>

At(tool, place) == call.tool = tool /\ pc = place

\* What every step of a handler leaves alone: one that works, and one whose system
\* call fails.
Step == UNCHANGED <<call, before, foreign, failures, boundVars>>
Failure ==
  /\ failures < MaxFailures /\ failures' = failures + 1
  /\ UNCHANGED <<call, before, foreign, boundVars>>

\* A step that only reads; it goes on at another place, or returns.
GoTo(place) == pc' = place /\ UNCHANGED <<disk, touched, result>>
Return(r) ==
  /\ pc' = "idle" /\ result' = r
  /\ buf' = <<>> /\ size' = 0 /\ frames' = <<>> /\ walk' = NoWalk
Refuse == Return(Error) /\ UNCHANGED <<disk, touched>>

\* The node at p becomes another one.
Write(p, node) ==
  /\ disk' = Put(disk, p, node)
  /\ touched' = touched \cup {p}

\* os.OpenFile with O_CREATE and O_TRUNC.
Truncate(p) ==
  \/ /\ Creates(disk, p)
     /\ Write(p, File(<<>>))
     /\ pc' = "data"
     /\ UNCHANGED <<localVars, result>>
  \/ ~Creates(disk, p) /\ Refuse

\* os.MkdirAll, from above.  It stops behind a directory it has come to, and what
\* it has made stays.
MakeDirs(p) ==
  /\ disk' = MkdirAll(disk, p)
  /\ touched' = touched \cup (DOMAIN disk' \ DOMAIN disk)
MkdirStops(made) == MakeDirs(made) /\ Return(Error)

\* It looks for a file in its way before it makes anything, and does not find a
\* name too long.
MkdirRefused(p) ==
  \/ (\E q \in Ancestors(p) : IsFile(disk, q)) /\ Refuse
  \/ /\ \A q \in Ancestors(p) : ~IsFile(disk, q)
     /\ Len(p) > MaxDepth /\ MkdirStops(SubSeq(p, 1, MaxDepth))

-----------------------------------------------------------------------------
\* os.Open and Stat of fsRead: a directory opens, and fails to be read.
ReadOpen ==
  /\ At("read", "begin") /\ Step
  /\ \/ /\ Opens(disk, call.path)
        /\ size' = Len(disk[call.path].text)
        /\ UNCHANGED <<buf, frames, walk>>
        /\ GoTo("data")
     \/ ~Opens(disk, call.path) /\ Refuse

SeekTo(offset) == IF offset > 0 THEN offset ELSE 0

\* n == maxBytes && info.Size()-int64(offset) > int64(maxBytes)
Truncated(n) == n = call.max /\ size - call.offset > call.max

ReadData ==
  /\ At("read", "data") /\ Step
  /\ LET text == disk[call.path].text
         from == SeekTo(call.offset)
         content == SubSeq(text, from + 1, Min({from + call.max, Len(text)}))
     IN  Return([status |-> "ok", content |-> content, size |-> size,
                 rest |-> Len(text) > from + Len(content),
                 truncated |-> Truncated(Len(content))])
  /\ UNCHANGED <<disk, touched>>

-----------------------------------------------------------------------------
\* fsWrite: the directories, then os.WriteFile, which truncates and writes.
WriteDirs ==
  /\ At("write", "begin") /\ Step
  /\ \/ ~call.dirs /\ UNCHANGED localVars /\ GoTo("truncate")
     \/ /\ call.dirs /\ CanMkdirAll(disk, Front(call.path))
        /\ MakeDirs(Front(call.path))
        /\ pc' = "truncate"
        /\ UNCHANGED <<localVars, result>>
     \/ call.dirs /\ MkdirRefused(Front(call.path))

WriteTruncate ==
  /\ At("write", "truncate") /\ Step
  /\ Truncate(call.path)

WriteData ==
  /\ At("write", "data") /\ Step
  /\ Write(call.path, File(Overwrite(disk[call.path].text, call.text)))
  /\ Return(Ok)

-----------------------------------------------------------------------------
AppendOpen ==
  /\ At("append", "begin") /\ Step
  /\ \/ /\ Writable(disk, call.path)
        /\ UNCHANGED localVars
        /\ GoTo("data")
     \/ /\ call.create /\ ~Exists(disk, call.path) /\ Creates(disk, call.path)
        /\ Write(call.path, File(<<>>))
        /\ pc' = "data"
        /\ UNCHANGED <<localVars, result>>
     \/ /\ ~Writable(disk, call.path)
        /\ ~(call.create /\ Creates(disk, call.path))
        /\ Refuse

\* O_APPEND: the text goes to the end the file has now.
Appended(text, new) == text \o new

AppendData ==
  /\ At("append", "data") /\ Step
  /\ Write(call.path, File(Appended(disk[call.path].text, call.text)))
  /\ Return(Ok)

-----------------------------------------------------------------------------
Hits(text) == {i \in DOMAIN text : text[i] = call.old}

\* Fault: replace_all is not looked at.
ReplacedAlways(text) ==
  [i \in DOMAIN text |-> IF i \in Hits(text) THEN call.new ELSE text[i]]

\* strings.ReplaceAll, and strings.Replace with n = 1.
Replaced(text) ==
  LET chosen == IF call.all THEN Hits(text) ELSE {Min(Hits(text))}
  IN  [i \in DOMAIN text |-> IF i \in chosen THEN call.new ELSE text[i]]

\* fsPatch: os.ReadFile, then os.WriteFile of the replaced text.
PatchRead ==
  /\ At("patch", "begin") /\ Step
  /\ \/ /\ Opens(disk, call.path)
        /\ Hits(disk[call.path].text) # {}
        /\ buf' = Replaced(disk[call.path].text)
        /\ UNCHANGED <<size, frames, walk>>
        /\ GoTo("truncate")
     \/ Opens(disk, call.path) /\ Hits(disk[call.path].text) = {} /\ Refuse
     \/ ~Opens(disk, call.path) /\ Refuse

PatchTruncate ==
  /\ At("patch", "truncate") /\ Step
  /\ Truncate(call.path)

PatchData ==
  /\ At("patch", "data") /\ Step
  /\ Write(call.path, File(Overwrite(disk[call.path].text, buf)))
  /\ Return(Ok)

-----------------------------------------------------------------------------
\* fsCopy of a file.
CopyStat ==
  /\ At("copy", "begin") /\ Step
  /\ \/ ~Exists(disk, call.src) /\ Refuse
     \/ IsDir(disk, call.src) /\ ~call.recursive /\ Refuse
     \/ /\ IsDir(disk, call.src) /\ call.recursive
        /\ frames' = <<[src |-> call.src, dst |-> call.dst,
                        todo |-> {}, entry |-> <<>>, copied |-> 0]>>
        /\ UNCHANGED <<buf, size, walk>>
        /\ GoTo("enter")
     \/ IsFile(disk, call.src) /\ UNCHANGED localVars /\ GoTo("check")

CopyCheck ==
  /\ At("copy", "check") /\ Step
  /\ \/ ~call.overwrite /\ Exists(disk, call.dst) /\ Refuse
     \/ /\ call.overwrite \/ ~Exists(disk, call.dst)
        /\ UNCHANGED localVars
        /\ GoTo("open")

\* Fault: the destination is created before the source is opened.
CopyOpenLate ==
  /\ At("copy", "open") /\ Step
  /\ \/ /\ Opens(disk, call.src) /\ UNCHANGED localVars /\ GoTo("truncate")
     \/ /\ ~Opens(disk, call.src) /\ Creates(disk, call.dst)
        /\ Write(call.dst, File(<<>>)) /\ Return(Error)

CopyOpen ==
  /\ At("copy", "open") /\ Step
  /\ \/ Opens(disk, call.src) /\ UNCHANGED localVars /\ GoTo("truncate")
     \/ ~Opens(disk, call.src) /\ Refuse

CopyTruncate ==
  /\ At("copy", "truncate") /\ Step
  /\ Truncate(call.dst)

CopyData ==
  /\ At("copy", "data") /\ Step
  /\ Write(call.dst, File(Overwrite(disk[call.dst].text, disk[call.src].text)))
  /\ Return(Ok)

-----------------------------------------------------------------------------
(***************************************************************************)
(* copyDir.  frames holds its activations: the directories it copies       *)
(* between, the entries of ReadDir it has not come to, and the count.      *)
(***************************************************************************)
frame == Head(frames)
srcPath(entry) == frame.src \o entry
dstPath(entry) == frame.dst \o entry

DirEnter ==
  /\ At("copy", "enter") /\ Step
  /\ \/ /\ CanMkdirAll(disk, frame.dst)
        /\ MakeDirs(frame.dst)
        /\ pc' = "readdir"
        /\ UNCHANGED <<localVars, result>>
     \/ MkdirRefused(frame.dst)

\* os.ReadDir.
DirRead ==
  /\ At("copy", "readdir") /\ Step
  /\ frames' = <<[frame EXCEPT !.todo = {<<Last(p)>> : p \in Entries(disk, frame.src)}]>>
               \o Tail(frames)
  /\ UNCHANGED <<buf, size, walk>>
  /\ GoTo("entries")

\* The entry is a directory: copyDir calls itself.
DirNested(entry) ==
  /\ At("copy", "entries") /\ Step
  /\ entry \in frame.todo /\ IsDir(disk, srcPath(entry))
  /\ frames' = <<[src |-> srcPath(entry), dst |-> dstPath(entry),
                  todo |-> {}, entry |-> <<>>, copied |-> 0],
                 [frame EXCEPT !.todo = @ \ {entry}]>> \o Tail(frames)
  /\ UNCHANGED <<buf, size, walk>>
  /\ GoTo("enter")

\* Fault: O_EXCL is left out.
DestinationOpensAny(p) == Creates(disk, p)

\* os.OpenFile of the copy: O_TRUNC with overwrite, O_EXCL without.
DestinationOpens(p) ==
  /\ Creates(disk, p)
  /\ call.overwrite \/ ~Exists(disk, p)

\* The entry is a file.  One that cannot be opened is passed over.
DirFile(entry) ==
  /\ At("copy", "entries") /\ Step
  /\ entry \in frame.todo /\ IsFile(disk, srcPath(entry))
  /\ \/ /\ Opens(disk, srcPath(entry)) /\ DestinationOpens(dstPath(entry))
        /\ Write(dstPath(entry), File(<<>>))
        /\ frames' = <<[frame EXCEPT !.todo = @ \ {entry}, !.entry = entry, !.copied = @ + 1]>>
                     \o Tail(frames)
        /\ pc' = "stream"
        /\ UNCHANGED <<buf, size, walk, result>>
     \/ /\ ~(Opens(disk, srcPath(entry)) /\ DestinationOpens(dstPath(entry)))
        /\ frames' = <<[frame EXCEPT !.todo = @ \ {entry}]>> \o Tail(frames)
        /\ UNCHANGED <<buf, size, walk>>
        /\ GoTo("entries")

\* io.Copy.
DirStream ==
  /\ At("copy", "stream") /\ Step
  /\ LET from == srcPath(frame.entry)
         to == dstPath(frame.entry)
     IN  Write(to, File(Overwrite(disk[to].text, disk[from].text)))
  /\ pc' = "entries"
  /\ UNCHANGED <<localVars, result>>

\* res.Content["copied"].(float64): the count is an int, never a float64.
NestedCount(copied) == 0

DirLeave ==
  /\ At("copy", "entries") /\ Step
  /\ frame.todo = {}
  /\ UNCHANGED <<disk, touched>>
  /\ \/ /\ Len(frames) = 1
        /\ Return([status |-> "ok", copied |-> frame.copied])
     \/ /\ Len(frames) > 1
        /\ frames' = <<[frames[2] EXCEPT !.copied = @ + NestedCount(frame.copied)]>>
                     \o SubSeq(frames, 3, Len(frames))
        /\ UNCHANGED <<buf, size, walk, pc, result>>

-----------------------------------------------------------------------------
MoveCheck ==
  /\ At("move", "begin") /\ Step
  /\ \/ ~call.overwrite /\ Exists(disk, call.dst) /\ Refuse
     \/ /\ call.overwrite \/ ~Exists(disk, call.dst)
        /\ UNCHANGED localVars
        /\ GoTo("open")

\* os.Rename refuses a destination that is a directory.
CanRename(d, src, dst) ==
  /\ Exists(d, src) /\ ~IsDir(d, dst)
  /\ IsDir(d, Front(dst)) /\ ~IsStrictPrefix(src, dst)
  /\ Exists(d, dst) => IsFile(d, src)

\* Where a path under src goes to when src goes to dst.
Target(p, src, dst) == dst \o SubSeq(p, Len(src) + 1, Len(p))

Renamed(d, src, dst) ==
  LET moved == {Target(p, src, dst) : p \in Under(d, src)}
  IN  [q \in (DOMAIN d \ Under(d, src)) \cup moved |->
         IF q \in moved THEN d[Target(q, dst, src)] ELSE d[q]]

MoveRename ==
  /\ At("move", "open") /\ Step
  /\ \/ /\ CanRename(disk, call.src, call.dst)
        /\ disk' = Renamed(disk, call.src, call.dst)
        /\ touched' = touched \cup (IF call.src = call.dst THEN {}
                                    ELSE Under(disk, call.src) \cup {call.dst})
        /\ Return(Ok)
     \/ ~CanRename(disk, call.src, call.dst) /\ Refuse

-----------------------------------------------------------------------------
\* fsRemove asks for recursive before it removes a directory.
Removes == Exists(disk, call.path) /\ (IsDir(disk, call.path) => call.recursive)

RemovePath ==
  /\ At("remove", "begin") /\ Step
  /\ \/ /\ Removes
        /\ disk' = Restrict(disk, DOMAIN disk \ Under(disk, call.path))
        /\ touched' = touched \cup Under(disk, call.path)
        /\ Return(Ok)
     \/ ~Removes /\ Refuse

CanMkdir(d, p) == ~Exists(d, p) /\ Len(p) <= MaxDepth /\ IsDir(d, Front(p))

Mkdir ==
  /\ At("mkdir", "begin") /\ Step
  /\ \/ /\ IF call.parents THEN CanMkdirAll(disk, call.path)
                           ELSE CanMkdir(disk, call.path)
        /\ MakeDirs(call.path)
        /\ Return(Ok)
     \/ call.parents /\ MkdirRefused(call.path)
     \/ ~call.parents /\ ~CanMkdir(disk, call.path) /\ Refuse

-----------------------------------------------------------------------------
Stat ==
  /\ At("stat", "begin") /\ Step
  /\ \/ /\ Exists(disk, call.path)
        /\ Return([status |-> "ok", dir |-> IsDir(disk, call.path)])
        /\ UNCHANGED <<disk, touched>>
     \/ ~Exists(disk, call.path) /\ Refuse

(***************************************************************************)
(* filepath.WalkDir, for list, search and glob.  A directory is visited    *)
(* before its entries; among the others any may be next, of which the      *)
(* lexical one is one.  A root that is not there makes an error for the    *)
(* visitor, which passes over errors: an ok with nothing found.            *)
(***************************************************************************)
WalkBegin ==
  /\ pc = "begin" /\ call.tool \in {"list", "search", "glob"} /\ Step
  /\ walk' = [NoWalk EXCEPT !.pending = {call.path} \cap DOMAIN disk]
  /\ UNCHANGED <<buf, size, frames>>
  /\ GoTo("walk")

full == Cardinality(walk.found) >= call.max

\* The visitor takes finds and returns nil: the entries of a directory follow.
Visit(p, finds, descend) ==
  walk' = [walk EXCEPT !.found = @ \cup finds,
                       !.pending = (@ \ {p}) \cup IF descend THEN Entries(disk, p) ELSE {}]

\* filepath.SkipAll.
SkipAll(cut) == walk' = [walk EXCEPT !.pending = {}, !.cut = cut]

Walking(tool, p) ==
  /\ At(tool, "walk") /\ Step
  /\ p \in walk.pending
  /\ UNCHANGED <<buf, size, frames>>
  /\ GoTo("walk")

hides(p) == ~call.all /\ Last(p) \in Hidden

\* Fault: the bound is looked at before the name.
ListVisitFullFirst(p) ==
  /\ Walking("list", p)
  /\ \/ full /\ SkipAll(TRUE)
     \/ ~full /\ hides(p) /\ Visit(p, {}, p = call.path)
     \/ ~full /\ ~hides(p) /\ Visit(p, {p}, p = call.path \/ call.recursive)

\* fsList's visitor.  A hidden root is entered and not listed.
ListVisit(p) ==
  /\ Walking("list", p)
  /\ \/ hides(p) /\ Visit(p, {}, p = call.path)
     \/ ~hides(p) /\ full /\ SkipAll(TRUE)
     \/ ~hides(p) /\ ~full /\ Visit(p, {p}, p = call.path \/ call.recursive)

\* The lines of a file that hold the query; a line is a word here.
LinesWith(d, p) == {<<p, i>> : i \in {j \in DOMAIN d[p].text : d[p].text[j] = call.query}}

Chosen(p) == Last(p) \in call.names

\* fsSearchGo's visitor: of a file, the first lines until there is no room.
SearchVisit(p) ==
  /\ Walking("search", p)
  /\ \/ IsDir(disk, p) /\ Visit(p, {}, TRUE)
     \/ IsFile(disk, p) /\ Chosen(p) /\ full /\ SkipAll(FALSE)
     \/ /\ IsFile(disk, p) /\ ~(Chosen(p) /\ full)
        /\ LET hits == IF Chosen(p) /\ Opens(disk, p) THEN LinesWith(disk, p) ELSE {}
               room == call.max - Cardinality(walk.found)
           IN  Visit(p, {h \in hits : Cardinality({g \in hits : g[2] < h[2]}) < room}, FALSE)

\* What ripgrep prints of the files under a directory: all lines with the query,
\* those of hidden files not.  It fails when a file does not open.
RgSearched(d) ==
  {p \in Under(d, call.path) :
     /\ IsFile(d, p) /\ Chosen(p)
     /\ \A i \in Len(call.path) + 1 .. Len(p) : p[i] \notin Hidden}

\* fsSearchRg: as many of the lines as there is room for.  Of a file that is
\* named itself ripgrep prints lines without a name, which are passed over.
SearchRg ==
  /\ At("search", "begin") /\ Step
  /\ LET files == RgSearched(disk)
         hits == UNION {LinesWith(disk, p) : p \in files}
         works == Exists(disk, call.path) /\ \A p \in files : Opens(disk, p)
     IN  \/ ~works /\ Refuse
         \/ /\ works
            /\ \E found \in kSubset(Min({call.max, Cardinality(hits)}), hits) :
                 Return([status |-> "ok", truncated |-> FALSE, engine |-> "rg",
                         found |-> IF IsDir(disk, call.path) THEN found ELSE {}])
            /\ UNCHANGED <<disk, touched>>

\* filepath.Match of the pattern, name by name, with what filepath.Rel makes of
\* the path: "." for the root.
Matches(root, p) ==
  LET rel == IF p = root THEN <<Dot>> ELSE SubSeq(p, Len(root) + 1, Len(p))
  IN  /\ Len(rel) = Len(call.pattern)
      /\ \A i \in DOMAIN rel : rel[i] \in call.pattern[i]

GlobVisit(p) ==
  /\ Walking("glob", p)
  /\ \/ full /\ SkipAll(FALSE)
     \/ ~full /\ Visit(p, {p} \cap {q \in DOMAIN disk : Matches(call.path, q)}, TRUE)

\* The result; glob takes a full list for a cut one.
WalkEnds ==
  /\ pc = "walk" /\ walk.pending = {} /\ Step
  /\ Return([status |-> "ok", found |-> walk.found,
             truncated |-> IF call.tool = "glob" THEN full ELSE walk.cut])
  /\ UNCHANGED <<disk, touched>>

-----------------------------------------------------------------------------
(* A system call fails.                                                    *)

\* It has changed nothing, and the handler returns its error.  list and glob look at
\* no error; move and write go on, or fail as below.
CallFails ==
  /\ Failure
  /\ \/ pc \in {"open", "truncate", "readdir"} \/ At("read", "data")
     \/ At("mkdir", "begin") /\ ~call.parents
     \/ pc = "begin" /\ call.tool \in {"read", "append", "patch", "copy", "remove", "stat", "search"}
  /\ Refuse

\* os.MkdirAll, of one of the directories it has come to.
MkdirFails(p) ==
  /\ Failure
  /\ \A q \in Ancestors(p) : ~IsFile(disk, q)
  /\ \E made \in Ancestors(p) \ {p} : Len(made) <= MaxDepth /\ MkdirStops(made)
DirsFail ==
  \/ At("write", "begin") /\ call.dirs /\ MkdirFails(Front(call.path))
  \/ At("mkdir", "begin") /\ call.parents /\ MkdirFails(call.path)
  \/ At("copy", "enter") /\ MkdirFails(frame.dst)

\* os.WriteFile, io.Copy and WriteString: a part of the text is written.
destination == IF call.tool = "copy" THEN call.dst ELSE call.path
WriteStops ==
  /\ Failure /\ pc = "data"
  /\ LET new == CASE call.tool \in {"write", "append"} -> call.text
                  [] call.tool = "patch" -> buf
                  [] call.tool = "copy" -> disk[call.src].text
         old == disk[destination].text
     IN  /\ call.tool \in {"write", "append", "patch", "copy"}
         /\ \E part \in Prefixes(new) :
              Write(destination, File(IF call.tool = "append" THEN Appended(old, part)
                                                             ELSE Overwrite(old, part)))
  /\ Return(Error)

\* copyDir does not look at the error of io.Copy, and passes over a file of which
\* one side does not open.
StreamStops ==
  /\ At("copy", "stream") /\ Failure
  /\ LET to == dstPath(frame.entry)
     IN  \E part \in Prefixes(disk[srcPath(frame.entry)].text) :
           Write(to, File(Overwrite(disk[to].text, part)))
  /\ pc' = "entries"
  /\ UNCHANGED <<localVars, result>>

DirPassesOver(entry) ==
  /\ At("copy", "entries") /\ Failure
  /\ entry \in frame.todo /\ IsFile(disk, srcPath(entry))
  /\ frames' = <<[frame EXCEPT !.todo = @ \ {entry}]>> \o Tail(frames)
  /\ UNCHANGED <<buf, size, walk>>
  /\ GoTo("entries")

\* os.Stat of the destination: any error is taken for "not there".
StatFails ==
  /\ At("copy", "check") \/ At("move", "begin")
  /\ Failure /\ ~call.overwrite
  /\ UNCHANGED localVars
  /\ GoTo("open")

\* os.RemoveAll, which removes a directory when it has removed what was in it.
RemoveStops ==
  /\ At("remove", "begin") /\ Failure
  /\ Removes /\ call.recursive
  /\ \E gone \in SUBSET (Under(disk, call.path) \ {call.path}) :
       /\ \A p \in gone : Under(disk, p) \subseteq gone
       /\ disk' = Restrict(disk, DOMAIN disk \ gone)
       /\ touched' = touched \cup gone
  /\ Return(Error)

\* A walk: paths it does not come to, because they or their directory cannot be
\* read; the visitors pass over errors.
WalkLoses ==
  /\ pc = "walk" /\ Failure
  /\ \E lost \in SUBSET walk.pending \ {{}} :
       walk' = [walk EXCEPT !.pending = @ \ lost]
  /\ UNCHANGED <<buf, size, frames>>
  /\ GoTo("walk")

-----------------------------------------------------------------------------
\* Another process appends to a file, or creates one.
OutsideWrite(p) ==
  /\ outside < MaxOutside /\ Creates(disk, p)
  /\ disk' = Put(disk, p, File((IF IsFile(disk, p) THEN disk[p].text ELSE <<>>)
                               \o <<Other>>))
  /\ foreign' = foreign \cup {p}
  /\ outside' = outside + 1
  /\ UNCHANGED <<call, pc, localVars, result, before, touched, failures, calls>>

CallStep ==
  \/ ReadOpen \/ ReadData
  \/ WriteDirs \/ WriteTruncate \/ WriteData
  \/ AppendOpen \/ AppendData
  \/ PatchRead \/ PatchTruncate \/ PatchData
  \/ CopyStat \/ CopyCheck \/ CopyOpen \/ CopyTruncate \/ CopyData
  \/ DirEnter \/ DirRead \/ DirStream \/ DirLeave
  \/ \E entry \in IF frames = <<>> THEN {} ELSE frame.todo :
       DirNested(entry) \/ DirFile(entry)
  \/ MoveCheck \/ MoveRename
  \/ RemovePath \/ Mkdir \/ Stat
  \/ WalkBegin \/ WalkEnds \/ SearchRg
  \/ \E p \in walk.pending : ListVisit(p) \/ SearchVisit(p) \/ GlobVisit(p)

DiskFails ==
  \/ CallFails \/ DirsFail \/ WriteStops \/ StreamStops
  \/ \E entry \in IF frames = <<>> THEN {} ELSE frame.todo : DirPassesOver(entry)
  \/ StatFails \/ RemoveStops \/ WalkLoses

Next ==
  \/ \E c \in Calls : Begin(c)
  \/ CallStep
  \/ DiskFails
  \/ \E p \in Shared : OutsideWrite(p)

Spec == Init /\ [][Next]_vars
-----------------------------------------------------------------------------
Returned(tool) == pc = "idle" /\ call.tool = tool
Succeeded(tool) == Returned(tool) /\ result.status = "ok"

\* The files and directories at ps are what they were.
Same(d0, d1, ps) == \A p \in ps : Exists(d1, p) /\ d1[p] = d0[p]

\* d1 is d0 with the node at p.
Becomes(d0, d1, p, node) ==
  /\ DOMAIN d1 = DOMAIN d0 \cup {p}
  /\ d1[p] = node /\ Same(d0, d1, DOMAIN d0 \ {p})

\* What copyDir does of the paths ps when nothing is in its way: directories, and
\* the files that open on both sides.
TreeCopied(ps, d0, d1) ==
  LET To(p) == Target(p, call.src, call.dst)
      dirs == {p \in ps : IsDir(d0, p)}
      files == {p \in ps \ dirs :
                  /\ Opens(d0, p)
                  /\ IF Exists(d0, To(p)) THEN call.overwrite /\ Writable(d0, To(p))
                                         ELSE Len(To(p)) <= MaxDepth}
      made == UNION {Ancestors(To(p)) : p \in dirs}
      copies == {To(p) : p \in files}
  IN  /\ DOMAIN d1 = DOMAIN d0 \cup made \cup copies
      /\ \A q \in made : d1[q] = Dir
      /\ \A p \in files : d1[To(p)] = File(d0[p].text)
      /\ Same(d0, d1, DOMAIN d0 \ copies)

\* What there is for a walk to find: entries no hidden directory hides, one
\* level deep or all; lines; paths that match.
ToFind(d) ==
  LET tree == Under(d, call.path)
      Between(p) == {q \in tree : IsPrefix(q, p) /\ q # call.path} \cup {p}
  IN  CASE call.tool = "list" ->
             {p \in tree : (call.all \/ \A q \in Between(p) : Last(q) \notin Hidden)
                             /\ (call.recursive \/ Len(p) <= Len(call.path) + 1)}
        [] call.tool = "search" ->
             UNION {LinesWith(d, p) : p \in {q \in tree : Opens(d, q) /\ Chosen(q)}}
        [] call.tool = "glob" -> {p \in tree : Matches(call.path, p)}

\* What each tool's description says it does.
CallDid(d0, d1) ==
  LET c == call
      \* "copy" and "move" name their paths otherwise
      old == IF "path" \in DOMAIN c /\ IsFile(d0, c.path)
             THEN d0[c.path].text ELSE <<>>
  IN  CASE c.tool \in {"read", "stat"} -> d1 = d0
        [] c.tool \in {"list", "search", "glob"} ->
             /\ d1 = d0 /\ result.found \subseteq ToFind(d0)
             /\ "engine" \in DOMAIN result \/ Cardinality(result.found) = Min({c.max, Cardinality(ToFind(d0))})
        [] c.tool = "write" ->
             /\ DOMAIN d1 = DOMAIN d0 \cup Ancestors(c.path)
             /\ \A q \in Ancestors(c.path) \ {c.path} : IsDir(d1, q)
             /\ d1[c.path] = File(c.text) /\ Same(d0, d1, DOMAIN d0 \ {c.path})
        [] c.tool = "append" -> Becomes(d0, d1, c.path, File(old \o c.text))
        [] c.tool = "patch" ->
             /\ DOMAIN d1[c.path].text = DOMAIN old
             /\ \A i \in DOMAIN old :
                  d1[c.path].text[i] =
                    IF old[i] = c.old /\ (c.all \/ \A j \in 1..(i-1) : old[j] # c.old)
                    THEN c.new ELSE old[i]
             /\ Same(d0, d1, DOMAIN d0 \ {c.path}) /\ DOMAIN d1 = DOMAIN d0
        [] c.tool = "copy" /\ IsDir(d0, c.src) ->
             TreeCopied(Under(d0, c.src), d0, d1)
        [] c.tool = "copy" /\ ~IsDir(d0, c.src) ->
             Becomes(d0, d1, c.dst, File(d0[c.src].text))
        [] c.tool = "move" ->
             /\ \A p \in Under(d0, c.src) :
                  LET q == Target(p, c.src, c.dst) IN Exists(d1, q) /\ d1[q] = d0[p]
             /\ Cardinality(Under(d1, c.dst)) = Cardinality(Under(d0, c.src))
             /\ c.src # c.dst => Under(d1, c.src) = {}
             /\ Same(d0, d1, DOMAIN d0 \ (Under(d0, c.src) \cup {c.dst}))
        [] c.tool = "remove" ->
             /\ DOMAIN d1 = DOMAIN d0 \ Under(d0, c.path)
             /\ Same(d0, d1, DOMAIN d1)
        [] c.tool = "mkdir" ->
             /\ DOMAIN d1 = DOMAIN d0 \cup Ancestors(c.path)
             /\ IsDir(d1, c.path) /\ Same(d0, d1, DOMAIN d0)

\* A copy that does not write where it reads: neither path lies in the other.
CopyApart(c) == c.tool = "copy" => ~IsPrefix(c.src, c.dst) /\ ~IsPrefix(c.dst, c.src)

\* Nobody else has written to the disk, and the disk has not failed.
Undisturbed == foreign = {} /\ failures = 0

\* The tools that return ok though a system call of theirs has failed.
PassesOver == {"copy", "move", "list", "search", "glob"}

\* A call that returns ok has done to the disk what CallDid says and nothing else,
\* whatever steps it took, when nobody else writes, no system call fails and a copy
\* does not write where it reads.  That is what the tools' descriptions say, but for
\* two cases in which CallDid asks less: copyDir leaves out the files that do not
\* open (TreeCopyIsComplete below), and "**" of a pattern is one name (GlobDescends).
\* If a system call has failed, only a tool of PassesOver returns ok.
OkCallsAreDone ==
  pc = "idle" /\ result.status = "ok" =>
    /\ failures > 0 => call.tool \in PassesOver
    /\ Undisturbed /\ CopyApart(call) => CallDid(before, disk)

\* The calls that change the disk before they are through with what may fail.
MayLeave ==
  \/ call.tool = "copy" /\ IsDir(before, call.src)
  \/ call.tool = "write" /\ call.dirs
  \/ call.tool = "mkdir" /\ call.parents

\* What a call that fails may have changed: what it was to write or to remove, and
\* the directories on the way to it, if they are new.
MayTouch(p) ==
  \/ call.tool \in {"write", "append", "patch"} /\ p = call.path
  \/ call.tool = "remove" /\ IsStrictPrefix(call.path, p)
  \/ call.tool = "copy" /\ (IF IsDir(before, call.src) THEN IsPrefix(call.dst, p) ELSE p = call.dst)
  \/ MayLeave /\ p \in Ancestors(destination) \ DOMAIN before

\* A call that returns an error has left the disk alone, whoever else writes, if the
\* disk has not failed under it; but for copyDir and os.MkdirAll, which keep what
\* they have made.  Wherever a call fails, nothing is changed that is not its own to
\* change: a failed copy leaves its source and its neighbours as they were, and a
\* failed removal the directory itself.
FailedCallsContained ==
  pc = "idle" /\ result.status = "error" =>
    /\ failures = 0 /\ ~MayLeave => touched = {}
    /\ \A p \in touched : MayTouch(p)

\* fsRead from an offset that is not negative says truncated only if there is more to
\* read, and unless it says so the model has all the text there was when the file was
\* opened, though the size it compares with is older than the text.
ReadSays ==
  Succeeded("read") /\ call.offset >= 0 =>
    /\ result.truncated => result.rest
    /\ ~result.truncated => call.offset + Len(result.content) >= result.size

\* On a disk that is left alone fsList says truncated exactly if an entry was left out,
\* and a glob that does not say it has left no match out.
ListSays ==
  Succeeded("list") /\ Undisturbed =>
    (result.truncated <=> Cardinality(ToFind(disk)) > call.max)
GlobSays ==
  Succeeded("glob") /\ Undisturbed =>
    (~result.truncated => ToFind(disk) \subseteq result.found)

\* What the model is not told of: fsRead, fsList and fsGlob do not hide that they leave
\* something out, and the first two say it only then.
TruncatedIffMore == ReadSays /\ ListSays /\ GlobSays

\* Without overwrite copyDir never changes a file it has not made, even one
\* that appears while it runs (O_EXCL).
TreeCopyKeepsFiles ==
  [][frames # <<>> /\ ~call.overwrite /\ outside' = outside =>
       Same(disk, disk', DOMAIN disk \ touched)]_vars

-----------------------------------------------------------------------------
(* What the repository says and the code does not do.                      *)

\* Without overwrite no call replaces a destination that exists when it writes:
\* not so, fsCopy and fsMove look at the destination before.
CopyKeepsDestination ==
  [][/\ pc # "idle" /\ call.tool \in {"copy", "move"} /\ ~call.overwrite
     /\ outside' = outside
     => Same(disk, disk', {p \in {call.dst} : IsFile(disk, p)} \ touched)]_vars

\* A call that returns an error has left the disk alone: not so, a write that fails
\* behind the truncation has lost the text that was there, and a removal that fails
\* has removed a part.
FailedCallsChangeNothing ==
  pc = "idle" /\ result.status = "error" /\ ~MayLeave => touched = {}

\* A call under which the disk has failed says so: not so, copyDir does not look at
\* the error of io.Copy, fsCopy and fsMove take any error of os.Stat for "not there",
\* and the walks pass over what they cannot read.
FailuresAreReported == pc = "idle" /\ failures > 0 => result.status = "error"

\* A patch replaces the text it was given and keeps the rest of the file: not
\* so, it writes back what it read before others wrote.
PatchKeepsOtherWrites ==
  Succeeded("patch") /\ call.path \in foreign =>
    \E i \in DOMAIN disk[call.path].text : disk[call.path].text[i] = Other

\* A copy leaves its source as it was: not so when the destination is the
\* source, which is truncated before it is read, or lies in it.
CopyKeepsSource ==
  Returned("copy") /\ Undisturbed =>
    /\ Under(disk, call.src) = Under(before, call.src)
    /\ Same(before, disk, Under(before, call.src))

\* The count a recursive copy reports is that of the files it has copied: not
\* so, the counts of nested directories are dropped.
CopiedCountsFiles ==
  Succeeded("copy") /\ "copied" \in DOMAIN result =>
    result.copied = Cardinality({p \in touched : IsFile(disk, p)})

\* A recursive copy that returns ok has copied every file: not so, those that
\* do not open are passed over.
TreeCopyIsComplete ==
  Succeeded("copy") /\ "copied" \in DOMAIN result /\ Undisturbed =>
    \A p \in Under(before, call.src) : IsFile(before, p) =>
      LET q == Target(p, call.src, call.dst)
      IN  IsFile(disk, q) /\ disk[q].text = before[p].text

\* fsRead says truncated only if there is more to read: not so of a negative offset,
\* which reads from the start and makes the file look longer.
TruncatedReads == Succeeded("read") /\ result.truncated => result.rest

\* A search that does not say truncated has found all there is: not so, neither engine
\* ever says it.
SearchSaysTruncated ==
  Succeeded("search") /\ Undisturbed /\ ~result.truncated /\ IsDir(disk, call.path) =>
    Cardinality(ToFind(disk)) <= Cardinality(result.found)

\* A glob that says truncated has left matches out: not so, it says so of a list
\* that is just full.
GlobTruncatedIffMore ==
  Succeeded("glob") /\ Undisturbed =>
    (result.truncated <=> Cardinality(ToFind(disk)) > call.max)

\* "Glob pattern (e.g., **/*.go)" (fs.go:211): "**" stands for any number of
\* directories.  Not so: filepath.Match takes it for one name.
GlobDescends ==
  Succeeded("glob") /\ Undisturbed /\ ~result.truncated /\ Len(call.pattern) = 2 =>
    {p \in Under(disk, call.path) : p # call.path /\ Last(p) \in call.pattern[2]}
      \subseteq result.found

\* A search finds what there is to find, with either engine: not so, ripgrep's
\* lines of a single file have no name, and are passed over.
SearchFinds ==
  Succeeded("search") /\ Undisturbed /\ ToFind(disk) # {} => result.found # {}

\* A tool that is asked about a path that is not there says so: not so, list,
\* search and glob return ok and nothing.
MissingIsError ==
  pc = "idle" /\ result.status = "ok" /\ "path" \in DOMAIN call /\ Undisturbed
    => Exists(before, call.path) \/ Exists(disk, call.path)
=============================================================================
