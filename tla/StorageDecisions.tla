---------------------------- MODULE StorageDecisions ----------------------------
(***************************************************************************)
(* What the storage layer's pure decisions promise: where a path may lead, *)
(* which bytes come back, what a listing and an error tell, and what       *)
(* becomes of a configuration. Each property compares what the code        *)
(* computes with a definition of its own, over all the questions that a    *)
(* model asks.                                                             *)
(***************************************************************************)
EXTENDS LocationPolicy, TransformOrder, Listings, ErrorMapping, ProfileSettings

VARIABLE question       \* [about |-> ..., and what the question is about]

Answers(about, Good(_)) == question.about = about => Good(question)

-----------------------------------------------------------------------------
(* Locations *)

\* What a confined facade hands to its backend is a path without links inside
\* the root, and the file the caller's path leads to, if it leads to one; a path
\* that leads to a file inside is not refused; and a copy into a directory writes
\* inside the root too (location.py: symlinks and ".." are resolved).
ConfinedPath(q) ==
    LET root == RealPath(q.fs, q.root)
        reach == Follow(q.fs, Join(root, q.path, q.abs))
        path == Confine(q.fs, q.root, q.path, q.abs)
        target == CopyTarget(q.fs, q.root, <<"r", q.name>>, path) IN
    /\ path # Refused =>
          /\ Inside(path, root) /\ RealPath(q.fs, path) = path
          /\ reach.fault = "" => reach.at = path
    /\ reach.fault = "" /\ Inside(reach.at, root) => path = reach.at
    /\ target # Refused => Inside(Written(q.fs, <<"r", q.name>>, target), root)

ConfinedStaysInside == Answers("path", ConfinedPath)

\* Whether a policy, or the facade's own profile, gives leave for a host: of an
\* S3 facade under the name of its provider, of HTTP under the URL's scheme.
HasLeave(f, scheme, host) ==
    \/ ~f.policy.active
    \/ f.provider # "http" /\ (f.anyBucket \/ host = f.profileHost)
    \/ LET listed == IF f.provider = "http" THEN scheme ELSE f.provider IN
       listed \in DOMAIN f.policy.allowed /\
           (f.policy.allowed[listed] = {} \/ host \in f.policy.allowed[listed])

\* A backend turns to a host only with leave, and a location that is well
\* formed and has leave is not refused.
RemoteHost(q) ==
    LET host == Contacted(q.facade, q.loc) IN
    host # NoHost /\ q.loc.scheme \notin {NoScheme, Malformed} =>
        (Checked(q.facade, q.loc) <=> HasLeave(q.facade, q.loc.scheme, host))

\* A copy writes where the destination's own policy gives leave, also when the
\* source's backend does it.
CopyHost(q) ==
    LET host == Contacted(q.dst, q.loc) IN
    host # NoHost /\ CopyAllowed(q.src, q.dst, q.plain, q.loc) =>
        HasLeave(q.dst, q.loc.scheme, host)

\* Every request goes to a host for which there is leave (README.md "Location
\* policy"), and those are all that may be reached.
RemoteNeedsLeave == Answers("host", RemoteHost) /\ Answers("copy", CopyHost)

-----------------------------------------------------------------------------
(* Transforms *)

\* The suffixes at the end of a name that each stand for a tool, from the first
\* of them on; the first suffix of a name without a stem is the name.
FirstAt(stem, suffixes) == IF stem = "" /\ suffixes # <<>> THEN 2 ELSE 1

ToolSuffixes(stem, suffixes) ==
    LET known == {"gz", "GZ", "gzip", "gpg", "asc", "PGP"}
        first == FirstAt(stem, suffixes) IN
    CHOOSE i \in first..Len(suffixes) + 1 :
        /\ \A j \in i..Len(suffixes) : suffixes[j] \in known
        /\ i > first => suffixes[i - 1] \notin known

\* What the tools make of a plain file whose name grows suffix by suffix.
Tool(s) == IF s \in {"gz", "GZ", "gzip"} THEN "gzip" ELSE "gpg"
Made(suffixes) == FoldLeft(LAMBDA bytes, s : Wrap(Tool(s), bytes), Plain, suffixes)

Produced(stem, suffixes) ==
    Made(SubSeq(suffixes, ToolSuffixes(stem, suffixes), Len(suffixes)))

\* A read whose pipeline is inferred from the name gives the plain text of a file
\* that the usual tools made, and a read through the pipeline that wrote it what
\* was written, whatever the order of the layers (suffixes.py, pipeline.py).
Inference(q) ==
    LET read == Effective(q.stem, q.suffixes, q.gpg, TRUE, <<>>)
        own == Effective(q.stem, q.suffixes, q.gpg, FALSE, q.pipeline) IN
    /\ read # Raises => ApplyRead(read, Produced(q.stem, q.suffixes)) = Plain
    /\ read = Raises => ~q.gpg /\ \E i \in DOMAIN q.suffixes : q.suffixes[i] \in {"gpg", "asc", "PGP"}
    /\ ReadBack("stream", own, ApplyWrite(own, Plain)) = Plain
    /\ q.pipeline # <<>> => Effective(q.stem, q.suffixes, q.gpg, TRUE, q.pipeline) = Raises

InferenceUndoesWriting == Answers("name", Inference)

-----------------------------------------------------------------------------
(* Listings *)

\* The names below the place a prefix leads to, seen from there, and the paths a
\* listing is about: those below the prefix, but for what is below a group. What
\* is behind a link has no place below it.
Below(fs, root) ==
    LET at == Follow(fs, root).at IN
    {SubSeq(p, Len(at) + 1, Len(p)) : p \in {q \in DOMAIN fs : IsStrictPrefix(at, q)}}

Children(fs, root, grouped) == {root \o s : s \in {t \in Below(fs, root) : grouped => Len(t) = 1}}

\* README.md "Exact-path object enumeration": whether it is an error, and if it
\* is none what belongs in the listing.
MustFail(fs, prefix, grouped) ==
    \/ Stat(fs, prefix) = "loop"
    \/ Stat(fs, prefix) = "notdir" /\ LStat(fs, prefix) # "link"
    \/ /\ Stat(fs, prefix) = "dir"
       /\ \E c \in Children(fs, prefix, grouped) : Stat(fs, c) = "loop"

Listed(fs, prefix, grouped) ==
    CASE Stat(fs, prefix) = "file" -> {prefix}
      [] Stat(fs, prefix) = "dir" ->
           {c \in Children(fs, prefix, grouped) : Stat(fs, c) = "file"}
      [] OTHER -> {}

Groups(fs, prefix, grouped) ==
    IF Stat(fs, prefix) = "dir" /\ grouped
    THEN {c \in Children(fs, prefix, grouped) : Stat(fs, c) = "dir"} ELSE {}

\* A listing is what belongs in it, or as many of those as the limit allows.
IsListing(found, objects, groups, max) ==
    LET total == Cardinality(objects) + Cardinality(groups) IN
    /\ found.error = ""
    /\ ToSet(found.objects) \subseteq objects /\ ToSet(found.prefixes) \subseteq groups
    /\ IsInjective(found.objects) /\ IsInjective(found.prefixes)
    /\ Count(found) = IF max # NoLimit /\ max < total THEN max ELSE total

\* A listing with a limit may be full before it meets what it would fail for.
Objects(fs, prefix, grouped, max, found) ==
    LET right == IsListing(found, Listed(fs, prefix, grouped), Groups(fs, prefix, grouped), max) IN
    IF max > 0 /\ MustFail(fs, prefix, grouped)
    THEN \/ found.error = "StorageError"
         \/ max # NoLimit /\ Stat(fs, prefix) = "dir" /\ right
    ELSE right

\* A file on the way to a path. A link on the way that leads through a file is
\* none: an SFTP server calls that missing, and the backend believes it.
BelowFile(fs, path) ==
    \E n \in 1..Len(path) - 1 : Stat(fs, SubSeq(path, 1, n)) \in {"file", "special"}

Plainly(fs) == \A p \in DOMAIN fs : fs[p].kind \in {"file", "dir"}

\* The local and the SFTP backend list what the contract says, errors included;
\* S3 lists the same for the keys of the same files, but for the directories
\* that hold none; and list_dir fails alike.
Agreement(q) ==
    LET local == LocalDir(q.fs, q.prefix)
        sftp == SftpDir(q.fs, q.prefix)
        keys == {p \in DOMAIN q.fs : q.fs[p].kind = "file"}
        filled == {g \in Groups(q.fs, q.prefix, q.grouped) :
                     \E k \in keys : IsPrefix(g, k) /\ k # g} IN
    /\ Objects(q.fs, q.prefix, q.grouped, q.max, LocalObjects(q.fs, q.prefix, q.grouped, q.max))
    /\ LET found == SftpObjects(q.fs, q.prefix, q.grouped, q.max) IN
       IF Stat(q.fs, q.prefix) = "notdir" /\ ~BelowFile(q.fs, q.prefix) THEN found = Empty
       ELSE Objects(q.fs, q.prefix, q.grouped, q.max, found)
    /\ Plainly(q.fs) /\ KindAt(q.fs, q.prefix) = "dir" /\ Stat(q.fs, q.prefix) = "dir" =>
          IsListing(S3Objects(keys, q.prefix, q.grouped, q.max),
                    Listed(q.fs, q.prefix, q.grouped), filled, q.max)
    /\ Plainly(q.fs) => local.error = sftp.error /\ ToSet(local.objects) = ToSet(sftp.objects)

ListingsAgree == Answers("listing", Agreement)

-----------------------------------------------------------------------------
(* Errors *)

\* What each backend makes of its library's exception for one kind of failure.
\* The kinds are those the exceptions' docstrings name (_core/exceptions.py).
ErrorFor(kind) ==
    CASE kind = "absent" -> "PathNotFoundError"
      [] kind = "forbidden" -> "PermissionDeniedError"
      [] kind = "credentials" -> "AuthenticationError"
      [] kind = "disconnected" -> "StorageConnectionError"
      [] kind = "changed" -> "ObjectChangedError"
      [] kind = "other" -> "StorageError"
      [] kind = "caller" -> AsItIs

\* The same failure is the same StorageError whatever the backend, and a path is
\* reported as missing for no other reason than that it is.
SameError(q) ==
    /\ Mapped(q.backend, q.exc) = ErrorFor(q.kind)
    /\ PathExists(q.backend, {q.exc}) =
          IF q.kind = "absent" \/ (q.backend = "local" /\ q.exc.cls = "NotADirectoryError")
          THEN "false" ELSE "raises"

SameFailureSameError == Answers("failure", SameError)

\* An upload that failed because of the caller's own stream raises what that
\* stream raised, however the library wrapped it, and any other failure is never
\* taken for the caller's (stream_errors.py).
CallerError(q) ==
    LET came == Uploaded(q.cause, q.context, q.own, q.top)
        mine == {e \in q.own : LeadsTo(q.cause, q.context, q.top, e)} IN
    IF mine = {} THEN came = <<"mapped", q.top>> ELSE came[1] = "own" /\ came[2] \in mine

CallerErrorSurvives == Answers("upload", CallerError)

-----------------------------------------------------------------------------
(* Settings *)

\* No error of resolve_storage, nor what it was raised from, shows a value that
\* was looked up as a secret (loader.py:106-129).
Secret(q) ==
    LET result == ResolveStorage(q.block)
        secrets == ({"storage"} \X Shape(q.block.params)) \cup ({"auth"} \X Shape(q.block.auth.params)) IN
    result.error # "" => result.quotes \cap secrets = {}

SecretsStayOut == Answers("block", Secret)

\* The pair that resolve_storage returns is one that the connection accepts;
\* what is wrong with a configuration is found before a connection is open, a
\* provider without a backend included, whatever its parameters
\* (support-matrix.md:24); and the requests of an open backend are signed with
\* what was configured, at the configured service and at no other.
Pair(q) ==
    LET result == ResolveStorage(q.block)
        auth == [q.auth EXCEPT !.mode = result.mode]
        facade == OpenFacade(result.spec, q.profile, auth, q.managed, q.store, q.ambient) IN
    result.error = "" =>
        /\ facade.error # "UnsupportedAuthProfileError"
        /\ facade.opened /\ facade.error # "" => q.managed /\ result.spec.provider \in Backends
        /\ result.spec.provider \notin Backends => facade.error \in {"TransportConnectionError", "ValueError"}
        /\ facade.error = "" /\ auth.mode = "iam" =>
              /\ facade.signer = "ambient" => ~auth.keys /\ ~auth.profile /\ ~auth.role
              /\ facade.signer = "keys" => ~auth.profile /\ ~auth.role
              /\ facade.signer = "profile" => ~auth.keys /\ ~auth.role
              /\ facade.signer = "role" => auth.role /\ ~(auth.keys /\ auth.profile)
        /\ facade.error = "" /\ result.spec.provider = "s3" =>
              ("endpoint_url" \in S3Arguments(q.profile) <=>
                  q.profile.flavor \notin {"aws", "express"} \/ "ENDPOINT_URL" \in q.profile.given)
        /\ facade.error = "" => (facade.signer = "managed" <=> q.managed)

ResolvedPairConnects == Answers("pair", Pair)
=============================================================================
