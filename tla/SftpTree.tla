------------------------------- MODULE SftpTree -------------------------------
(***************************************************************************)
(* mkdir(parents=True), write_from_bytes, rmdir and list_dir of the SFTP   *)
(* backend against a server that other clients use too                     *)
(* (storage/backends/sftp/sftp_directory.py, sftp_write.py and             *)
(* _helpers.py). The tree is one path: place 1 its first directory, place  *)
(* Depth the path itself. Each request to the server is a step.            *)
(***************************************************************************)
EXTENDS Integers

CONSTANT Depth      \* components of the path

ASSUME DepthAssumption == Depth \in Nat \ {0}

VARIABLES
    tree,       \* what is at each place: "none", "dir" or "file"
    modes,      \* whether this server tells the type of a file
    call,       \* the running or last call
    target,     \* its path
    at,         \* the place the next request is about
    step,       \* the next request, "idle" if no call runs
    met,        \* what was at each place since the call began
    refused,    \* requests the server refused for a reason of its own
    undone,     \* whether others removed or renamed something during the call
    result      \* of the last call

treeVars == <<tree, modes, call, target, at, step, met, refused, undone, result>>

\* mkdir with and without parents, and the other operations.
Calls == {"mkdir", "single", "write", "rmdir", "list"}
Place == 1..Depth
Kind == {"none", "dir", "file"}

\* Something is only in a directory.
Sound(w) == \A p \in Place : p > 1 /\ w[p] # "none" => w[p - 1] = "dir"

TreeInit ==
    /\ tree \in {w \in [Place -> Kind] : Sound(w)}
    /\ modes \in BOOLEAN
    /\ call = "mkdir" /\ target = 1 /\ at = 1 /\ step = "idle"
    /\ met = [p \in Place |-> {}] /\ refused = FALSE /\ undone = FALSE
    /\ result = "none"

Meet(w) == [p \in Place |-> met[p] \cup {w[p]}]

\* The server finds p, or says NO_SUCH_FILE, also when a file is in the way.
Found(p) == tree[p] # "none"

-----------------------------------------------------------------------------
\* Others create, remove and replace what they like.
Others ==
    /\ tree' \in {w \in [Place -> Kind] : Sound(w) /\ \E p \in Place :
                     /\ w[p] # tree[p]
                     /\ \A q \in Place \ {p} : w[q] = tree[q]}
    /\ met' = Meet(tree')
    /\ undone' = (undone \/ \E p \in Place : tree[p] = "dir" /\ tree'[p] # "dir")
    /\ UNCHANGED <<modes, call, target, at, step, refused, result>>

\* A call. A path in the working directory needs no parent.
Invoke(c, p) ==
    /\ step = "idle"
    /\ call' = c /\ target' = p
    /\ at' = IF c \in {"mkdir", "write"} THEN 1 ELSE p
    /\ step' = CASE c = "write" /\ p = 1 -> "open"
                 [] c = "mkdir" \/ (c = "write" /\ p # 1) -> "stat"
                 [] c = "single" -> "mkdir"
                 [] OTHER -> c
    /\ met' = [q \in Place |-> {tree[q]}]
    /\ refused' = FALSE /\ undone' = FALSE /\ result' = "running"
    /\ UNCHANGED <<tree, modes>>

EndCall(r) == step' = "idle" /\ result' = r

\* The last directory mkdir has to make: write makes the parents of its file.
LastDirectory == IF call = "write" THEN target - 1 ELSE target

\* On to the next directory, or to what follows the last one.
Advance ==
    IF call \in {"mkdir", "write"} /\ at < LastDirectory THEN at' = at + 1 /\ step' = "stat" /\ UNCHANGED result
    ELSE IF call = "write" THEN at' = target /\ step' = "open" /\ UNCHANGED result
    ELSE EndCall("done") /\ UNCHANGED at

-----------------------------------------------------------------------------
\* mkdir: ask for each directory before it is made. Without a mode an ancestor
\* is taken for a directory, and the path itself is tried.
StatDirectory ==
    /\ step = "stat"
    /\ \/ /\ Found(at) /\ (IF modes THEN tree[at] = "dir" ELSE at # LastDirectory)
          /\ Advance
       \/ /\ Found(at) /\ modes /\ tree[at] = "file"
          /\ EndCall("notdir") /\ UNCHANGED at
       \/ /\ ~Found(at) \/ (~modes /\ at = LastDirectory)
          /\ step' = "mkdir" /\ UNCHANGED <<at, result>>
    /\ UNCHANGED <<tree, modes, call, target, met, refused, undone>>

\* The failure of a mkdir whose code may mean that the name is taken.
Generic == IF call = "single" THEN EndCall("failed") ELSE step' = "recheck" /\ UNCHANGED result

\* The server makes the directory, or fails: with NO_SUCH_FILE for want of the
\* parent, with a generic code because the name is taken, or for a quota.
Mkdir ==
    /\ step = "mkdir"
    /\ IF Found(at) THEN Generic /\ UNCHANGED <<tree, met, at>>
       ELSE IF at > 1 /\ tree[at - 1] # "dir"
            THEN EndCall("missing") /\ UNCHANGED <<tree, met, at>>
            ELSE /\ tree' = [tree EXCEPT ![at] = "dir"]
                 /\ met' = Meet(tree')
                 /\ Advance
    /\ UNCHANGED <<modes, call, target, refused, undone>>

MkdirFails ==
    /\ step = "mkdir"
    /\ Generic /\ refused' = TRUE
    /\ UNCHANGED <<tree, modes, call, target, at, met, undone>>

\* Mutant of LostRace: what is there now is taken for the directory.
LostRaceAnyway == Found(at)

\* Mutant of LostRace: a failed mkdir is a failure.
LostRaceNever == FALSE

\* What is there now decides whether the failure was a lost race.
LostRace == tree[at] = "dir" /\ modes

Recheck ==
    /\ step = "recheck"
    /\ IF LostRace THEN Advance ELSE EndCall("failed") /\ UNCHANGED at
    /\ UNCHANGED <<tree, modes, call, target, met, refused, undone>>

-----------------------------------------------------------------------------
\* write: open(path, "wb") makes or empties the file.
OpenFile ==
    /\ step = "open"
    /\ IF tree[at] = "dir" THEN EndCall("failed") /\ UNCHANGED <<tree, met>>
       ELSE IF at > 1 /\ tree[at - 1] # "dir" THEN EndCall("missing") /\ UNCHANGED <<tree, met>>
       ELSE /\ tree' = [tree EXCEPT ![at] = "file"]
            /\ met' = Meet(tree')
            /\ EndCall("done")
    /\ UNCHANGED <<modes, call, target, at, refused, undone>>

Rmdir ==
    /\ step = "rmdir"
    /\ IF ~Found(at) THEN EndCall("missing") /\ UNCHANGED <<tree, met>>
       ELSE IF tree[at] = "file" \/ (at < Depth /\ Found(at + 1))
            THEN EndCall("failed") /\ UNCHANGED <<tree, met>>
            ELSE /\ tree' = [tree EXCEPT ![at] = "none"]
                 /\ met' = Meet(tree')
                 /\ EndCall("done")
    /\ UNCHANGED <<modes, call, target, at, refused, undone>>

\* list_dir: NO_SUCH_FILE may stand for ENOTDIR, so the path and then its
\* ancestors are asked for.
List ==
    /\ step = "list"
    /\ IF tree[at] = "dir" THEN EndCall("done")
                           ELSE step' = "ascend" /\ UNCHANGED result
    /\ UNCHANGED <<tree, modes, call, target, at, met, refused, undone>>

\* _check_not_directory, one candidate per step.
Ascend ==
    /\ step = "ascend"
    /\ IF Found(at)
       THEN /\ EndCall(IF ~modes THEN "failed"
                      ELSE IF tree[at] = "file" THEN "notdir" ELSE "missing")
            /\ UNCHANGED at
       ELSE IF at = 1 THEN EndCall("missing") /\ UNCHANGED at
       ELSE at' = at - 1 /\ UNCHANGED <<step, result>>
    /\ UNCHANGED <<tree, modes, call, target, met, refused, undone>>

\* The connection or a permission is lost at any request: an error of its own
\* type, which is no evidence of a race.
RequestFails ==
    /\ step # "idle"
    /\ EndCall("broken")
    /\ UNCHANGED <<tree, modes, call, target, at, met, refused, undone>>

TreeNext ==
    \/ Others
    \/ \E c \in Calls, p \in Place : Invoke(c, p)
    \/ StatDirectory \/ Mkdir \/ MkdirFails \/ Recheck
    \/ OpenFile \/ Rmdir \/ List \/ Ascend \/ RequestFails

TreeSpec == TreeInit /\ [][TreeNext]_treeVars

-----------------------------------------------------------------------------
\* What was there, at some moment of the call, when it says it is done.
Promised == CASE call = "write" -> "file" [] call = "rmdir" -> "none" [] OTHER -> "dir"

Makes == call \in {"mkdir", "write"}

\* mkdir and the other operations tell the truth while others change the tree:
\* done means that the path was what it should be at some moment of the call,
\* also after a failed mkdir was taken for a lost race; "not a directory" means
\* that one on the way was none; and to lose a race for a directory is never an
\* error: mkdir fails only if the server refused, or somebody removed a directory
\* or had a file in the way.
MkdirTellsTheTruth ==
    step = "idle" =>
        /\ result = "done" => Promised \in met[target]
        /\ result = "notdir" => \E p \in 1..target : "file" \in met[p]
        /\ Makes /\ modes /\ result \in {"failed", "missing", "notdir"} =>
              \/ refused \/ undone
              \/ \E p \in 1..LastDirectory : "file" \in met[p]
              \/ call = "write" /\ "dir" \in met[target]
=============================================================================
