---------------------------- MODULE LocationPolicy ----------------------------
(***************************************************************************)
(* Which locations a facade accepts under a LocationPolicy (location.py,   *)
(* the _check of storage/facade/facade.py, backend_detection.py and the    *)
(* backends' own reading of a path). A local path is a sequence of names   *)
(* in a file system with symbolic links; a remote location is a record of  *)
(* what the parsers tell apart. The operators are pure: the file system    *)
(* does not change while one of them is evaluated.                         *)
(***************************************************************************)
EXTENDS FileSystem

Refused == <<"/refused">>

-----------------------------------------------------------------------------
\* Mutant of Resolve: a path that does not exist is taken as it is written.
ResolveExistingOnly(fs, path) == IF LExists(fs, path) THEN RealPath(fs, path) ELSE path

\* _resolve: the part of the path that exists is resolved, what is missing may
\* not go up.
Resolve(fs, path) ==
    LET Of[p \in Seq(STRING)] ==
            IF LExists(fs, p) THEN RealPath(fs, p)
            ELSE CASE Last(p) = "." -> Of[Front(p)]
                   [] Last(p) = ".." -> Refused
                   [] OTHER -> LET head == Of[Front(p)] IN
                               IF head = Refused THEN Refused ELSE Append(head, Last(p))
    IN Of[path]

Inside(path, root) == IsPrefix(root, path)

\* os.path.join of the root and an absolute or a relative path.
Join(root, path, abs) == IF abs THEN path ELSE root \o path

\* confine_local under an active policy that has a root.
Confine(fs, policyRoot, path, abs) ==
    LET root == RealPath(fs, policyRoot)
        effective == Resolve(fs, Join(root, path, abs)) IN
    IF effective = Refused \/ ~Inside(effective, root) THEN Refused ELSE effective

\* Mutant of CopyTarget: the name in the directory is not looked at.
CopyTargetUnseen(fs, policyRoot, src, dst) == dst

\* facade.copy: a destination that is a directory stands for a name in it.
CopyTarget(fs, policyRoot, src, dst) ==
    IF dst = Refused \/ ~IsDir(fs, dst) THEN dst
    ELSE LET final == Confine(fs, policyRoot, Append(dst, Last(src)), TRUE) IN
         IF final = Refused \/ IsDir(fs, final) THEN Refused ELSE final

\* Where the backend's copy2 writes: a directory it is given gets a new name,
\* and a link is followed.
Written(fs, src, dst) == RealPath(fs, IF IsDir(fs, dst) THEN Append(dst, Last(src)) ELSE dst)

-----------------------------------------------------------------------------
\* Remote locations: [scheme, host, port, extra]. The scheme is canonical, ""
\* for a bare path, NoScheme for one that is not registered, Malformed when
\* urlsplit raises; host is NoHost if it cannot be encoded; extra stands for a
\* query or a fragment. A facade is [provider, profile, policy]: the profile
\* gives the host it is for, NoHost if it has none, the policy is [active,
\* allowed], a function from schemes to hosts that lists no other scheme.

NoScheme == "unregistered"
Malformed == "malformed"
NoHost == "no host"

S3Family == {"s3", "s3express", "r2", "minio", "b2"}

\* SCHEMES: which provider serves a scheme. Providers are named by their scheme.
Provider(scheme) ==
    CASE scheme \in {"", "file"} -> "local"
      [] scheme \in {"http", "https"} -> "http"
      [] OTHER -> scheme

\* detect_provider_from_path, which from_path calls.
Detected(scheme) ==
    IF scheme \in {NoScheme, Malformed} THEN "refused" ELSE Provider(scheme)

\* parse_s3_path: a URL of the family, whatever the facade's own provider, or
\* bucket/key; a host with a port is no bucket.
Bucket(loc) ==
    IF loc.scheme \in S3Family /\ loc.port = "none" /\ loc.host # "" THEN loc.host
    ELSE IF loc.scheme = "" /\ loc.host # "" THEN loc.host
    ELSE NoHost

\* Mutant of AllowRemote: a scheme that is not listed admits every host.
AllowRemoteUnlisted(scheme, host, policy, profileHost) ==
    /\ host # NoHost
    /\ \/ profileHost # NoHost /\ host = profileHost
       \/ scheme \notin DOMAIN policy.allowed
       \/ policy.allowed[scheme] = {} \/ host \in policy.allowed[scheme]

\* allow_remote under an active policy.
AllowRemote(scheme, host, policy, profileHost) ==
    /\ host # NoHost
    /\ \/ profileHost # NoHost /\ host = profileHost
       \/ /\ scheme \in DOMAIN policy.allowed
          /\ policy.allowed[scheme] = {} \/ host \in policy.allowed[scheme]

\* Mutant of Checked: an SFTP URL is left to the backend.
CheckedByName(f, loc) ==
    \/ ~f.policy.active
    \/ /\ loc.scheme \notin {NoScheme, Malformed}
       /\ CASE f.provider \in S3Family ->
                 f.anyBucket \/ AllowRemote(loc.scheme, Bucket(loc), f.policy, f.profileHost)
            [] OTHER -> TRUE

\* facade._check of a location that is not local. An S3 profile without a
\* bucket is for every bucket.
Checked(f, loc) ==
    \/ ~f.policy.active
    \/ /\ loc.scheme \notin {NoScheme, Malformed}
       /\ CASE f.provider \in S3Family ->
                 f.anyBucket \/ AllowRemote(f.provider, Bucket(loc), f.policy, f.profileHost)
            [] f.provider = "sftp" ->
                 loc.scheme = "sftp" => AllowRemote("sftp", loc.host, f.policy, f.profileHost)
            [] f.provider = "http" -> AllowRemote(loc.scheme, loc.host, f.policy, NoHost)
            [] OTHER -> TRUE

\* The host the backend turns to, NoHost if it refuses the location itself:
\* _remote_path only takes a URL of the profile's own server.
Contacted(f, loc) ==
    CASE f.provider \in S3Family -> Bucket(loc)
      [] f.provider = "sftp" ->
           IF loc.scheme # "sftp" THEN f.profileHost
           ELSE IF loc.host = f.profileHost /\ loc.port = "none" /\ ~loc.extra THEN loc.host
           ELSE NoHost
      [] f.provider = "http" -> IF loc.scheme \in {"http", "https"} THEN loc.host ELSE NoHost
      [] OTHER -> NoHost

\* Mutant of NativeCopy: the policies are not compared.
NativeCopyUnpoliced(src, dst, plain) ==
    /\ plain
    /\ src.provider \in S3Family \cup {"local"}
    /\ src.provider = dst.provider \/ {src.provider, dst.provider} \subseteq S3Family
    /\ src.profile = dst.profile

\* copy_between() leaves the copy to the source's backend: one that both share,
\* with the same profile object under an equal policy.
NativeCopy(src, dst, plain) ==
    /\ plain
    /\ src.provider \in S3Family \cup {"local"}
    /\ src.provider = dst.provider \/ {src.provider, dst.provider} \subseteq S3Family
    /\ src.policy = dst.policy
    /\ src.profile = dst.profile

\* Whose check the destination of a copy has to pass.
CopyAllowed(src, dst, plain, loc) ==
    IF NativeCopy(src, dst, plain) THEN Checked(src, loc) ELSE Checked(dst, loc)
=============================================================================
