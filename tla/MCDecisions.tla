------------------------------ MODULE MCDecisions ------------------------------
(***************************************************************************)
(* The questions that TLC puts to the decisions of the storage layer: for  *)
(* each property all combinations of small inputs.                         *)
(***************************************************************************)
EXTENDS StorageDecisions

-----------------------------------------------------------------------------
\* Paths: a root r with links in it, a directory o outside, l a link to r.

Assignments(options) ==     \* the functions that give each element one of its options
    {f \in [DOMAIN options -> UNION {options[p] : p \in DOMAIN options}] :
        \A p \in DOMAIN options : f[p] \in options[p]}

Absent == [kind |-> "none"]
Exists(w) == [p \in {q \in DOMAIN w : w[q] # Absent} |-> w[p]]
Rooted(fs) == \A p \in DOMAIN fs : KindAt(fs, Parent(p)) = "dir"

Links == {AbsLink(<<"o">>), RelLink(<<"..", "o">>), RelLink(<<"b">>), AbsLink(<<"r">>),
          RelLink(<<"..">>), AbsLink(<<"o", "x">>)}

Confinement ==
    {fs \in {Exists(w) : w \in Assignments(
        (<<"r">> :> {Dir}) @@ (<<"o">> :> {Dir}) @@ (<<"o", "s">> :> {File})
        @@ (<<"l">> :> {AbsLink(<<"r">>)})
        @@ (<<"r", "a">> :> {File, Dir} \cup Links) @@ (<<"r", "b">> :> {File, Dir} \cup Links)
        @@ (<<"r", "a", "c">> :> {Absent, RelLink(<<"..", "..", "o">>), File}))} : Rooted(fs)}

PathQuestions ==
    [about : {"path"}, fs : Confinement, root : {<<"r">>, <<"l">>}, abs : {FALSE}, name : {"a", "s"},
     path : {<<x>> : x \in {"a", "b", ".."}}
            \cup {<<x, y>> : x \in {"a", "b", "."}, y \in {"b", "c", "s", ".."}}
            \cup {<<x, y, z>> : x \in {"a", "b"}, y \in {"..", "c"}, z \in {"a", "s", ".."}}]
    \cup
    [about : {"path"}, fs : Confinement, root : {<<"r">>}, abs : {TRUE}, name : {"a"},
     path : {<<"r", x>> : x \in {"a", "b", ".."}} \cup {<<"l", x>> : x \in {"a", "b"}}
            \cup {<<"r", "a", "s">>, <<"o">>, <<"o", "x">>}]

\* Hosts
Policies ==
    {[active |-> a, allowed |-> f] :
        a \in BOOLEAN, f \in UNION {[D -> {{}, {"h2"}}] : D \in SUBSET {"s3", "r2", "sftp", "https"}}}

FacadesFor(policies, profiles) ==
    {[provider |-> p, anyBucket |-> p \in {"s3", "r2"} /\ h = NoHost,
      profileHost |-> IF p = "http" THEN NoHost ELSE h, policy |-> policy, profile |-> id] :
        p \in {"s3", "r2", "sftp", "http"}, h \in {NoHost, "h1"}, policy \in policies, id \in profiles}

Locations == [scheme : {"", "s3", "r2", "sftp", "ssh", "http", "https", NoScheme, Malformed},
              host : {"h1", "h2", ""}, port : {"none", "2222"}, extra : BOOLEAN]

Only(p) == [active |-> TRUE, allowed |-> p]

\* Facades that share a profile object are of one provider.
CopyQuestions ==
    {[about |-> "copy", src |-> s, dst |-> d, plain |-> plain, loc |-> l] :
        s \in FacadesFor({Only(<<>>), Only("s3" :> {}), Only("s3" :> {"h2"})}, {1, 2}),
        d \in FacadesFor({Only(<<>>), Only("s3" :> {})}, {1}),
        plain \in BOOLEAN,
        l \in [scheme : {"", "s3"}, host : {"h1", "h2"}, port : {"none"}, extra : {FALSE}]}

HostQuestions ==
    [about : {"host"}, facade : FacadesFor(Policies, {1}), loc : Locations]
    \cup {q \in CopyQuestions : q.src.profile = q.dst.profile =>
              q.src.provider = q.dst.provider /\ q.src.profileHost = q.dst.profileHost}

\* Names and pipelines
UpTo(S, n) == UNION {[1..k -> S] : k \in 0..n}

NameQuestions ==
    [about : {"name"}, stem : {"", "data"}, suffixes : UpTo({"gz", "GZ", "asc", "PGP", "csv", ""}, 3),
     gpg : BOOLEAN, pipeline : UpTo({"gzip", "gpg"}, 2)]

-----------------------------------------------------------------------------
\* Listings of trees with links, in and out of the directory that is listed, to
\* nothing and to themselves, and with special files.

Trees ==
    {fs \in {Exists(w) : w \in Assignments(
        (<<"p">> :> {Dir}) @@ (<<"f">> :> {File})
        @@ (<<"p", "a">> :> {Absent, File, Dir, Special, RelLink(<<"b">>), RelLink(<<"..", "f">>),
                             RelLink(<<"gone">>), RelLink(<<"a">>), RelLink(<<"b", "c">>)})
        @@ (<<"p", "b">> :> {Absent, File, Dir, RelLink(<<"..">>)})
        @@ (<<"p", "a", "c">> :> {Absent, File, Dir}) @@ (<<"p", "a", "c", "d">> :> {Absent, File, Dir})
        @@ (<<"p", "b", "c">> :> {Absent, File, Dir, RelLink(<<"..", "..">>)}))} : Rooted(fs)}

ListingQuestions ==
    [about : {"listing"}, fs : Trees, grouped : BOOLEAN, max : {0, 1, 2, NoLimit},
     prefix : {<<"p">>, <<"p", "a">>, <<"p", "b">>, <<"p", "a", "c">>, <<"p", "b", "c">>, <<"x">>}]

-----------------------------------------------------------------------------
\* What the libraries raise for each kind of failure.

Exceptions(classes, codes, status, chains) ==
    [cls : classes, code : codes, status : status, chain : chains]
Native(classes) == Exceptions(classes, {""}, {0}, {{}})
Client(codes, status) == Exceptions({"ClientError"}, codes, {status}, {{}})
Status(s) == Exceptions({StatusError(s)}, {""}, {s}, {{}, {"NetworkError"}})

Failures(backend, kind, exceptions) ==
    [about : {"failure"}, backend : {backend}, kind : {kind}, exc : exceptions]

FailureQuestions == UNION {
    Failures("local", "absent", Native({"FileNotFoundError"})),
    Failures("local", "forbidden", Native({"PermissionError"})),
    Failures("local", "disconnected", Native({"ConnectionError", "TimeoutError"})),
    Failures("local", "other", Native({"OSError", "NotADirectoryError"})),
    Failures("local", "caller", Native({"StorageError", "UnsupportedOperation", "SameFileError"})),
    Failures("sftp", "absent", Native({"FileNotFoundError"})
                               \cup Exceptions({"OSError"}, {"ENOENT"}, {0}, {{}})),
    Failures("sftp", "forbidden", Native({"PermissionError"})
                                  \cup Exceptions({"OSError"}, {"EACCES", "EPERM"}, {0}, {{}})),
    Failures("sftp", "credentials", Native({"AuthenticationException"})),
    Failures("sftp", "disconnected", Native({"ConnectionError", "TimeoutError", "EOFError",
                                             "SSHException", "NoValidConnectionsError"})),
    Failures("sftp", "other", Native({"OSError", "SFTPError"})),
    Failures("sftp", "caller", Native({"StorageError", "UnsupportedOperation"})),
    Failures("s3", "absent", Client({"NoSuchKey", "NoSuchBucket", "404", "other"}, 404)),
    Failures("s3", "forbidden", Client({"AccessDenied", "other"}, 403)),
    Failures("s3", "credentials", Client({"InvalidAccessKeyId", "SignatureDoesNotMatch"}, 403)
                                  \cup Client({"ExpiredToken"}, 400) \cup Client({"other"}, 401)
                                  \cup Native({"NoCredentialsError"})),
    Failures("s3", "disconnected", Client({"RequestTimeout"}, 400)
                                   \cup Native({"boto.ConnectionError", "HTTPClientError",
                                                "IncompleteReadError", "EOFError", "TimeoutError"})),
    Failures("s3", "changed", Client({"PreconditionFailed", "other"}, 412)),
    Failures("s3", "other", Client({"other"}, 500) \cup Native({"BotoCoreError", "OSError"})),
    Failures("s3", "caller", Native({"StorageError", "UnsupportedOperation", "ParamValidationError"})),
    Failures("http", "absent", Status(404)),
    Failures("http", "forbidden", Status(403)),
    Failures("http", "credentials", Status(401)),
    Failures("http", "changed", Status(412)),
    Failures("http", "disconnected", Native({"HttpConnectionError", "HttpTimeoutError", "NetworkError",
                                             "TimeoutException", "ProxyError"})
                                     \cup Exceptions({"HttpTransportError", "HTTPError"},
                                                     {""}, {0}, {{"NetworkError"}, {"TimeoutError"}})),
    Failures("http", "other", UNION {Exceptions({StatusError(s)}, {""}, {s}, {{}}) : s \in {400, 409, 429, 503}}
                              \cup Native({"HttpTransportError", "HTTPError", "OSError"})),
    Failures("http", "caller", Native({"StorageError", "HttpRequestError", "InvalidURL",
                                       "UnsupportedProtocol", "LocalProtocolError"}))}

\* Three exceptions with every way to chain them.
UploadQuestions ==
    [about : {"upload"}, cause : [1..3 -> 0..3], context : [1..3 -> 0..3],
     own : SUBSET {2, 3} \cup {{1}}, top : {1}]

-----------------------------------------------------------------------------
\* Configuration blocks: values at the top and in a mapping, from a secret store
\* or not, missing or not valid.

Parameters(places) == UNION {[D -> {"plain", "secret"}] : D \in SUBSET places}

Auths(modes) ==
    {[given |-> "block", mode |-> m, params |-> p, invalid |-> i] : m \in modes,
        p \in Parameters({<<"USERNAME">>, <<"PASSWORD">>}), i \in {{}, {<<"PASSWORD">>}}}
    \cup {[given |-> "no", mode |-> "default", params |-> <<>>, invalid |-> {}]}

\* Each provider with the places of its own parameters, and a provider that is
\* not known.
Blocks(provider, places, invalid) ==
    {[about |-> "block",
      block |-> [found |-> TRUE, provider |-> provider, params |-> params, invalid |-> i, auth |-> auth]] :
        params \in Parameters(places), i \in invalid, auth \in Auths({"default", "token"})}

BlockQuestions ==
    Blocks("sftp", {<<"HOST">>, <<"USERNAME">>, <<"PORT">>},
           {{}, {<<>>}, {<<"HOST">>}, {<<"PORT">>}, {<<"HOST">>, <<"PORT">>}})
    \cup Blocks("http", {<<"TIMEOUT_READ">>, <<"HEADERS", "x">>, <<"HEADERS", "y">>},
                {{}, {<<>>}, {<<"HEADERS">>}, {<<"HEADERS", "x">>, <<"TIMEOUT_READ">>},
                 {<<"HEADERS", "x", "z">>}})
    \cup Blocks("smb", {<<"SERVER">>, <<"ENCRYPT">>}, {{}, {<<>>}, {<<"ENCRYPT">>}})
    \cup Blocks("local", {<<"ROOT_PATH">>}, {{}, {<<"ROOT_PATH">>}})
    \cup Blocks("floppy", {<<"HOST">>}, {{}})

\* Blocks that are valid as such, with every mode, and what else decides.
Enough == [p \in {<<n>> : n \in UNION {SpecOf[q].required : q \in DOMAIN SpecOf} \cup {"USERNAME"}} |-> "plain"]

\* What may be set of the parameters that decide: of S3 those of its endpoint,
\* of a provider without a backend whatever its arguments are made from.
Settable(provider) ==
    CASE provider = "s3" -> {"ENDPOINT_URL", "ACCOUNT_ID", "ACCELERATE_ENDPOINT"}
      [] provider = "azure_storage" ->
           {"ACCOUNT_URL", "API_VERSION", "SECONDARY_HOSTNAME", "TOKEN_INTENT", "MAX_BLOCK_SIZE"}
      [] provider = "gcs" -> {"API_ENDPOINT", "USER_PROJECT"}
      [] provider = "smb" -> {"USERNAME", "DOMAIN"}
      [] provider = "github" -> {"REF"}
      [] provider = "http" -> {"HEADERS"}
      [] OTHER -> {}

Profiles(provider) ==
    [flavor : IF provider = "s3" THEN {"aws", "express", "r2", "minio", "b2"} ELSE {"aws"},
     files : IF provider = "azure_storage" THEN BOOLEAN ELSE {FALSE}, given : SUBSET Settable(provider)]

AuthProfiles(mode) ==
    LET iam == IF mode \in {"iam", "default"} THEN BOOLEAN ELSE {FALSE} IN
    [mode : {""}, keys : iam, profile : iam, role : iam, token : BOOLEAN]

PairQuestions(p, m) ==
    [about : {"pair"},
     block : [found : {TRUE}, provider : {p}, params : {Enough}, invalid : {{}},
              auth : [given : {"block"}, mode : {m}, params : {Enough}, invalid : {{}}]],
     profile : Profiles(p), auth : AuthProfiles(m), managed : BOOLEAN, store : BOOLEAN,
     ambient : IF p = "s3" THEN BOOLEAN ELSE {FALSE}]

-----------------------------------------------------------------------------
Asked ==
    \/ question \in PathQuestions \/ question \in HostQuestions
    \/ question \in NameQuestions \/ question \in ListingQuestions
    \/ question \in FailureQuestions \/ question \in UploadQuestions
    \/ question \in BlockQuestions
    \/ \E p \in DOMAIN SpecOf, m \in Modes \cup {"default", "floppy"} : question \in PairQuestions(p, m)
=============================================================================
