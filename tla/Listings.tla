------------------------------- MODULE Listings -------------------------------
(***************************************************************************)
(* list_objects and list_dir of the local, SFTP and S3 backends            *)
(* (local_enumerate.py, local_list.py, sftp_enumerate.py,                  *)
(* sftp_directory.py, s3_enumerate.py) over a tree that stands still. A    *)
(* listing is [error, objects, prefixes]; the order in which a directory   *)
(* gives its names is any fixed one. A server that leaves the type out of  *)
(* a listing is asked for it again, which gives the same.                  *)
(***************************************************************************)
EXTENDS FileSystem, FiniteSets

NoLimit == 99       \* max_results = None

Listing(error, objects) == [error |-> error, objects |-> objects, prefixes |-> <<>>, pending |-> <<>>]
Empty == Listing("", <<>>)
Failed(error) == Listing(error, <<>>)

Count(found) == Len(found.objects) + Len(found.prefixes)

\* Mutant of Full: the groups are not counted.
FullObjects(found, max) == max # NoLimit /\ Len(found.objects) >= max

\* full(), in both backends
Full(found, max) == max # NoLimit /\ Count(found) >= max

-----------------------------------------------------------------------------
\* What becomes of a child of a kind: the file is listed, the directory is a
\* group of its own or entered unless a link led to it.
Enlist(found, path, kind, linked, grouped) ==
    CASE kind = "file" -> [found EXCEPT !.objects = Append(@, path)]
      [] kind = "dir" /\ grouped -> [found EXCEPT !.prefixes = Append(@, path)]
      [] kind = "dir" /\ ~grouped /\ ~linked -> [found EXCEPT !.pending = Append(@, path)]
      [] OTHER -> found

\* Local: every child is stat'ed, and a link to nothing passed over.
LocalEnter(fs, found, path, grouped) ==
    LET kind == Stat(fs, path)
        linked == LStat(fs, path) = "link" IN
    IF kind \in Faults
    THEN IF linked /\ kind # "loop" THEN found ELSE Failed("StorageError")
    ELSE Enlist(found, path, kind, linked, grouped)

\* SFTP: the server says "no such file" for ENOENT and for ENOTDIR.
NotFound(kind) == kind \in {"absent", "notdir"}

\* The type of a child is the link's own; links are stat'ed.
SftpEnter(fs, found, path, grouped) ==
    LET linked == LStat(fs, path) = "link"
        kind == IF linked THEN Stat(fs, path) ELSE LStat(fs, path) IN
    CASE linked /\ NotFound(kind) -> found
      [] kind = "loop" -> Failed("StorageError")
      [] OTHER -> Enlist(found, path, kind, linked, grouped)

-----------------------------------------------------------------------------
\* What a backend makes of the next child of a directory.
Child(fs, backend, grouped, max, dir, found, name) ==
    IF found.error # "" \/ Full(found, max) THEN found
    ELSE IF backend = "local" THEN LocalEnter(fs, found, Append(dir, name), grouped)
    ELSE SftpEnter(fs, found, Append(dir, name), grouped)

\* The loop over the children of the directory that became pending last.
OneDirectory(fs, backend, grouped, max, found) ==
    IF found.error # "" \/ found.pending = <<>> \/ Full(found, max) THEN found
    ELSE LET dir == Last(found.pending) IN
         FoldLeft(LAMBDA f, name : Child(fs, backend, grouped, max, dir, f, name),
                  [found EXCEPT !.pending = Front(@)], SetToSeq(NamesIn(fs, dir)))

\* The loop over the pending directories. A directory is pending only once, so
\* that there are not more rounds than paths.
Traverse(fs, backend, root, grouped, max) ==
    FoldLeft(LAMBDA f, round : OneDirectory(fs, backend, grouped, max, f),
             [Empty EXCEPT !.pending = <<root>>],
             [round \in 1..Cardinality(DOMAIN fs) + 1 |-> round])

-----------------------------------------------------------------------------
\* Local
LocalObjects(fs, prefix, grouped, max) ==
    IF max < 0 THEN Failed("ValueError")
    ELSE IF max = 0 THEN Empty
    ELSE CASE Stat(fs, prefix) = "absent" -> Empty
           [] Stat(fs, prefix) = "notdir" ->
                IF LStat(fs, prefix) = "link" THEN Empty ELSE Failed("StorageError")
           [] Stat(fs, prefix) = "loop" -> Failed("StorageError")
           [] Stat(fs, prefix) = "file" -> Listing("", <<prefix>>)
           [] Stat(fs, prefix) = "special" -> Empty
           [] OTHER -> Traverse(fs, "local", prefix, grouped, max)

\* os.scandir raises for what is no directory; links are followed, and left out
\* if they lead nowhere.
LocalDir(fs, path) ==
    LET Kind(name) == Stat(fs, Append(path, name))
        Names == SetToSeq({n \in NamesIn(fs, path) : Kind(n) \in {"file", "dir"}}) IN
    CASE Stat(fs, path) = "absent" -> Failed("PathNotFoundError")
      [] Stat(fs, path) \in {"notdir", "loop", "file", "special"} -> Failed("StorageError")
      [] OTHER -> IF \E n \in NamesIn(fs, path) : Kind(n) = "loop" THEN Failed("StorageError")
                  ELSE Listing("", [i \in DOMAIN Names |-> <<Names[i], Kind(Names[i])>>])

-----------------------------------------------------------------------------
\* _check_not_directory: which of the two it was, from the first path upward
\* that is there.
CheckNotDirectory(fs, path) ==
    LET there == {n \in 0..Len(path) : ~NotFound(Stat(fs, SubSeq(path, 1, n)))}
        nearest == SubSeq(path, 1, CHOOSE n \in there : \A m \in there : m <= n) IN
    IF Stat(fs, nearest) = "dir" THEN "" ELSE "StorageError"

SftpObjects(fs, prefix, grouped, max) ==
    IF max < 0 THEN Failed("ValueError")
    ELSE IF max = 0 THEN Empty
    ELSE CASE NotFound(Stat(fs, prefix)) -> Failed(CheckNotDirectory(fs, prefix))
           [] Stat(fs, prefix) = "loop" -> Failed("StorageError")
           [] Stat(fs, prefix) = "file" -> Listing("", <<prefix>>)
           [] Stat(fs, prefix) = "special" -> Empty
           [] OTHER -> Traverse(fs, "sftp", prefix, grouped, max)

\* listdir_attr gives the children as they are: a link is a file to it.
SftpDir(fs, path) ==
    LET Names == SetToSeq(NamesIn(fs, path))
        Kind(name) == IF LStat(fs, Append(path, name)) = "dir" THEN "dir" ELSE "file" IN
    CASE NotFound(Stat(fs, path)) \/ Stat(fs, path) \in {"file", "special"} ->
           IF CheckNotDirectory(fs, path) = "" THEN Failed("PathNotFoundError")
           ELSE Failed("StorageError")
      [] Stat(fs, path) = "loop" -> Failed("StorageError")
      [] OTHER -> Listing("", [i \in DOMAIN Names |-> <<Names[i], Kind(Names[i])>>])

-----------------------------------------------------------------------------
\* S3: all pages are read, groups are made by the service, and the result is
\* cut afterwards, objects first. The prefix is that of a folder, "a/b/".

\* Python's sequence[:n]
Cut(s, n) ==
    LET to == IF n < 0 THEN Len(s) + n ELSE n IN
    SubSeq(s, 1, IF to < 0 THEN 0 ELSE IF to > Len(s) THEN Len(s) ELSE to)

S3Objects(keys, prefix, grouped, max) ==
    LET level == Len(prefix) + 1
        under == {k \in keys : IsPrefix(prefix, k) /\ Len(k) >= level}
        objects == SetToSeq({k \in under : grouped => Len(k) = level})
        groups == SetToSeq({SubSeq(k, 1, level) : k \in {q \in under : grouped /\ Len(q) > level}})
        over == max # NoLimit /\ Len(objects) + Len(groups) > max
        kept == IF over THEN Cut(objects, max) ELSE objects
        left == max - Len(kept) IN
    [Listing("", kept) EXCEPT
        !.prefixes = IF over THEN Cut(groups, IF left < 0 THEN 0 ELSE left) ELSE groups]
=============================================================================
