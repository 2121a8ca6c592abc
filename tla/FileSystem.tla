------------------------------ MODULE FileSystem ------------------------------
(***************************************************************************)
(* A POSIX file system with symbolic links, as far as the storage layer    *)
(* relies on it: what a path leads to, and os.path.realpath. A path is the *)
(* sequence of its names, seen from the root; fs gives each path that      *)
(* exists what is there. A link has the path it points to, as seen from    *)
(* the root or from its own directory.                                     *)
(***************************************************************************)
EXTENDS Integers, Sequences, SequencesExt

CONSTANT Steps      \* how many names and links a resolution takes before ELOOP

ASSUME StepsAssumption == Steps \in Nat

File == [kind |-> "file"]
Dir == [kind |-> "dir"]
Special == [kind |-> "special"]
AbsLink(p) == [kind |-> "link", abs |-> TRUE, to |-> p]
RelLink(p) == [kind |-> "link", abs |-> FALSE, to |-> p]

KindAt(fs, p) == IF p = <<>> THEN "dir" ELSE IF p \in DOMAIN fs THEN fs[p].kind ELSE "none"

Parent(p) == IF p = <<>> THEN <<>> ELSE Front(p)

\* Why nothing below a path can be reached, "" if it is a directory.
Obstacle(fs, dir) ==
    CASE KindAt(fs, dir) = "dir" -> ""
      [] KindAt(fs, dir) = "none" -> "absent"
      [] OTHER -> "notdir"

\* One step of a walk: the directory it has come to, the names left, and the
\* first obstacle, which only the kernel minds.
Onward(fs, walk) ==
    LET name == Head(walk.rest)
        next == Append(walk.dir, name)
        Go(dir, rest) ==
            [dir |-> dir, rest |-> rest,
             fault |-> IF walk.fault # "" THEN walk.fault ELSE Obstacle(fs, walk.dir)] IN
    CASE walk.rest = <<>> -> walk
      [] walk.rest # <<>> /\ name = "." -> Go(walk.dir, Tail(walk.rest))
      [] walk.rest # <<>> /\ name = ".." -> Go(Parent(walk.dir), Tail(walk.rest))
      [] walk.rest # <<>> /\ name \notin {".", ".."} /\ KindAt(fs, next) = "link" ->
           Go(IF fs[next].abs THEN <<>> ELSE walk.dir, fs[next].to \o Tail(walk.rest))
      [] OTHER -> Go(next, Tail(walk.rest))

\* The walk along a path, after each number of steps.
Walk(fs, path) ==
    LET After[n \in 0..Steps] ==
            IF n = 0 THEN [dir |-> <<>>, rest |-> path, fault |-> ""]
            ELSE Onward(fs, After[n - 1])
    IN After

\* os.path.realpath: links are followed, what is missing is taken as it is.
Reached(end) == end.dir \o end.rest

RealPath(fs, path) == Reached(Walk(fs, path)[Steps])

\* The path as the kernel follows it, every name but the last that of a
\* directory: where it ends, or why it ends nowhere.
Ending(end) ==
    LET Fail(fault) == [fault |-> fault, at |-> <<>>] IN
    IF end.fault # "" THEN Fail(end.fault)
    ELSE IF end.rest # <<>> THEN Fail("loop")
    ELSE [fault |-> "", at |-> end.dir]

Follow(fs, path) == Ending(Walk(fs, path)[Steps])

\* os.stat: the kind of what the path leads to, or why it leads nowhere.
KindOf(fs, end) ==
    IF end.fault # "" THEN end.fault
    ELSE IF KindAt(fs, end.at) = "none" THEN "absent" ELSE KindAt(fs, end.at)

Stat(fs, path) == KindOf(fs, Follow(fs, path))

\* What has a name in the directory where a path ends.
KindBelow(fs, end, name) ==
    IF end.fault # "" THEN end.fault
    ELSE CASE KindAt(fs, end.at) = "none" -> "absent"
           [] KindAt(fs, end.at) \in {"file", "special"} -> "notdir"
           [] OTHER -> LET kind == KindAt(fs, Append(end.at, name)) IN
                       IF kind = "none" THEN "absent" ELSE kind

\* os.lstat: a link that the path names is not followed.
LStat(fs, path) ==
    IF path = <<>> \/ Last(path) \in {".", ".."} THEN Stat(fs, path)
    ELSE KindBelow(fs, Follow(fs, Front(path)), Last(path))

Faults == {"absent", "notdir", "loop"}

LExists(fs, path) == LStat(fs, path) \notin Faults
IsDir(fs, path) == Stat(fs, path) = "dir"

\* os.scandir: the names in a directory that exists.
NamesIn(fs, dir) ==
    LET at == Follow(fs, dir).at IN
    {Last(p) : p \in {q \in DOMAIN fs : Front(q) = at}}
=============================================================================
