---------------------------- MODULE ProfileSettings ----------------------------
(***************************************************************************)
(* From a named block of configuration to an open backend                  *)
(* (settings/storage/loader.py and profiles/, connections/__init__.py,     *)
(* connections/s3.py, auth_strategy.py, the constructor of StorageFacade   *)
(* and storage/registry/registry.py). Parameters are a function from the   *)
(* place of a value, a sequence of names, to "plain" or "secret": what the *)
(* settings had to look up. What a parameter is for is left out.           *)
(***************************************************************************)
EXTENDS Integers, Sequences, FiniteSets, SequencesExt

\* A provider's specification: the provider type its connection is chosen by,
\* the modes of authentication, the parameters that have no default, and the
\* others.
ProfileSpec(provider, default, others, required, optional) ==
    [provider |-> provider, default |-> default, supported |-> {default} \cup others,
     required |-> required, optional |-> optional]

RangeParameters == {"RANGE_CACHE", "RANGE_BLOCK_SIZE", "RANGE_MAX_BLOCKS"}

S3Spec == ProfileSpec("s3", "iam", {"none"}, {},
    RangeParameters \cup {"FLAVOR", "REGION", "BUCKET", "ACCOUNT_ID", "ENDPOINT_URL", "USE_SSL",
        "ADDRESSING_STYLE", "ACCELERATE_ENDPOINT", "DUALSTACK_ENDPOINT", "VERIFY_SSL",
        "CONNECT_TIMEOUT", "READ_TIMEOUT"})

SftpSpec == ProfileSpec("sftp", "password", {"certificate", "kerberos", "none"},
    {"HOST", "USERNAME"},
    RangeParameters \cup {"PORT", "TIMEOUT", "BANNER_TIMEOUT", "AUTH_TIMEOUT", "ALLOW_AGENT",
        "LOOK_FOR_KEYS", "COMPRESS", "KNOWN_HOSTS_FILE", "HOST_KEY_POLICY"})

\* HEADERS is the one parameter of all that is a mapping.
HttpSpec == ProfileSpec("http", "none", {"token", "password", "oauth2"}, {},
    RangeParameters \cup {"TIMEOUT_CONNECT", "TIMEOUT_READ", "TIMEOUT_WRITE",
        "FOLLOW_REDIRECTS", "MAX_REDIRECTS", "VERIFY_SSL", "HEADERS"})

LocalSpec == ProfileSpec("local", "none", {}, {}, {"ROOT_PATH", "CREATE_PATH"})

AzureSpec == ProfileSpec("azure_blob", "azure_ad", {"token", "password", "none"}, {"ACCOUNT_NAME"},
    {"SERVICE_TYPE", "CONTAINER_OR_SHARE", "ACCOUNT_URL", "ENDPOINT_SUFFIX", "TOKEN_INTENT",
     "API_VERSION", "SECONDARY_HOSTNAME", "MAX_BLOCK_SIZE"})

GcsSpec == ProfileSpec("gcs", "service_account", {"iam", "oauth2", "token", "none"}, {"PROJECT"},
    {"BUCKET_NAME", "API_ENDPOINT", "LOCATION", "USER_PROJECT"})

FtpSpec == ProfileSpec("ftp", "password", {"none"}, {"HOST"},
    {"PORT", "USERNAME", "ACCOUNT", "TIMEOUT", "SOURCE_ADDRESS", "ENCODING", "USE_TLS",
     "PASSIVE_MODE"})

SmbSpec == ProfileSpec("smb", "password", {"kerberos"}, {"SERVER"},
    {"PORT", "USERNAME", "DOMAIN", "ENCRYPT", "CONNECTION_TIMEOUT"})

GithubSpec == ProfileSpec("github", "token", {"jwt", "none"}, {"ORG", "REPO"},
    {"REF", "BASE_URL", "TIMEOUT"})

\* STORAGE_REGISTRY: under its name, which need not be that of the type.
SpecOf == [s3 |-> S3Spec, sftp |-> SftpSpec, http |-> HttpSpec, local |-> LocalSpec,
           azure_storage |-> AzureSpec, gcs |-> GcsSpec, ftp |-> FtpSpec, smb |-> SmbSpec,
           github |-> GithubSpec]

Modes == UNION {SpecOf[p].supported : p \in DOMAIN SpecOf}

\* auth-client's own requirement, as far as it is known here.
AuthRequired(mode) == IF mode = "password" THEN {"USERNAME"} ELSE {}

-----------------------------------------------------------------------------
\* pydantic's errors: one for every name that is missing, one for every place
\* where the value is not valid.
ErrorsOf(required, params, invalid) ==
    {[loc |-> <<n>>, missing |-> TRUE] :
        n \in {r \in required : \A p \in DOMAIN params : p[1] # r}}
    \cup {[loc |-> l, missing |-> FALSE] : l \in invalid}

\* What the text of an error quotes: the value at its place, or the mapping in
\* which a name is missing.
Quoted(error, params) ==
    {p \in DOMAIN params : \/ IsPrefix(p, error.loc)
                           \/ IsPrefix(IF error.missing THEN Front(error.loc) ELSE error.loc, p)}

\* _reference_shape: where the references are.
Shape(params) == {p \in DOMAIN params : params[p] = "secret"}

\* Mutant of Sensitive: an error counts by the value at its place alone.
SensitiveInPlace(errors, shape) ==
    \E e \in errors : \E p \in shape : IsPrefix(p, e.loc) \/ IsPrefix(e.loc, p)

\* _sensitive_validation
Sensitive(errors, shape) ==
    \E e \in errors :
        IF e.loc = <<>> \/ e.missing THEN shape # {}
        ELSE \E p \in shape : IsPrefix(p, e.loc) \/ IsPrefix(e.loc, p)

-----------------------------------------------------------------------------
\* resolve_storage of a block [found, provider, params, invalid, auth]: auth is
\* [given, mode, params, invalid], given "no", "null" or "block"; the mode is
\* "default" if none is named. The result is the provider and the mode, or an
\* error and the values that it, and what it was raised from, quotes.

Refuse(error) == [error |-> error, quotes |-> {}]

RefuseInvalid(part, errors, params) ==
    [error |-> "ProfileResolutionError",
     quotes |-> IF Sensitive(errors, Shape(params)) THEN {}
                ELSE UNION {{<<part, p>> : p \in Quoted(e, params)} : e \in errors}]

EffectiveMode(spec, auth) == IF auth.mode = "default" THEN spec.default ELSE auth.mode

\* Mutant of ResolveAuth: what a provider supports is left to the connection.
ResolveAuthAny(block, spec) ==
    LET mode == EffectiveMode(spec, block.auth) IN
    IF mode \notin Modes THEN Refuse("ProfileResolutionError")
    ELSE [error |-> "", quotes |-> {}, spec |-> spec, mode |-> mode]

ResolveAuth(block, spec) ==
    LET mode == EffectiveMode(spec, block.auth)
        errors == ErrorsOf(AuthRequired(mode), block.auth.params, block.auth.invalid) IN
    CASE mode \notin Modes -> Refuse("ProfileResolutionError")
      [] mode \in Modes /\ mode \notin spec.supported -> Refuse("UnsupportedAuthProfileError")
      [] mode \in spec.supported /\ errors # {} ->
           IF block.auth.given = "null" THEN Refuse("AttributeError")
           ELSE RefuseInvalid("auth", errors, block.auth.params)
      [] OTHER -> [error |-> "", quotes |-> {}, spec |-> spec, mode |-> mode]

ResolveStorage(block) ==
    IF ~block.found THEN Refuse("ProfileNotFoundError")
    ELSE IF block.provider \notin DOMAIN SpecOf THEN Refuse("ProfileResolutionError")
    ELSE LET spec == SpecOf[block.provider]
             errors == ErrorsOf(spec.required, block.params, block.invalid) IN
         IF errors # {} THEN RefuseInvalid("storage", errors, block.params) ELSE ResolveAuth(block, spec)

-----------------------------------------------------------------------------
\* create_connection. An auth profile is [mode, keys, profile, role, token]: the
\* keys, PROFILE_NAME and ROLE_ARN of IAM, the static token of OAuth2.

ConnectionClass(provider) ==
    CASE provider = "local" -> "NullConnection"
      [] provider = "s3" -> "S3Connection"
      [] provider = "sftp" -> "SFTPConnection"
      [] OTHER -> "HTTPConnection"

Family(provider) ==
    CASE provider = "http" -> "HTTP" [] provider = "s3" -> "BOTO"
      [] provider = "sftp" -> "PARAMIKO" [] OTHER -> "none"

\* A profile is [flavor, files, given]: the flavor of S3, whether the service of
\* Azure is files, and the parameters that are set and have no default.

\* Mutant of Endpoint: MinIO without an endpoint falls to boto3's own.
EndpointOptional(profile) ==
    CASE "ENDPOINT_URL" \in profile.given -> "given"
      [] "ENDPOINT_URL" \notin profile.given /\ profile.flavor = "r2"
            /\ "ACCOUNT_ID" \in profile.given -> "r2"
      [] "ENDPOINT_URL" \notin profile.given /\ profile.flavor = "b2" -> "b2"
      [] OTHER -> "aws"

\* _resolve_endpoint_url
Endpoint(profile) ==
    IF "ENDPOINT_URL" \in profile.given THEN "given"
    ELSE CASE profile.flavor = "r2" ->
                IF "ACCOUNT_ID" \in profile.given THEN "r2" ELSE "ValueError"
           [] profile.flavor = "minio" -> "ValueError"
           [] profile.flavor = "b2" -> "b2"
           [] profile.flavor \in {"aws", "express"} -> "aws"

\* The arguments of each library's client, by name: names gives the argument for
\* a parameter that is passed on only if it is set.
Given(profile, names) == {names[p] : p \in profile.given \cap DOMAIN names}

S3Arguments(profile) ==
    {"service_name", "region_name", "use_ssl", "verify", "addressing_style"}
    \cup (IF Endpoint(profile) = "aws" THEN {} ELSE {"endpoint_url"})
    \cup (IF profile.flavor # "aws" THEN {}
          ELSE Given(profile, [ACCELERATE_ENDPOINT |-> "use_accelerate_endpoint",
                               DUALSTACK_ENDPOINT |-> "use_dualstack_endpoint"]))
    \cup Given(profile, [CONNECT_TIMEOUT |-> "connect_timeout", READ_TIMEOUT |-> "read_timeout"])

SftpArguments(profile) ==
    {"hostname", "port", "username", "timeout", "allow_agent", "look_for_keys", "compress",
     "_post_connect"}
    \cup Given(profile, [BANNER_TIMEOUT |-> "banner_timeout", AUTH_TIMEOUT |-> "auth_timeout"])

HttpArguments(profile) ==
    {"timeout", "follow_redirects", "max_redirects", "verify"} \cup Given(profile, [HEADERS |-> "headers"])

AzureArguments(profile) ==
    {"account_url", "service_type", "service_class_path"}
    \cup Given(profile, [API_VERSION |-> "api_version", SECONDARY_HOSTNAME |-> "secondary_hostname"])
    \cup (IF profile.files THEN Given(profile, [TOKEN_INTENT |-> "token_intent"])
          ELSE Given(profile, [MAX_BLOCK_SIZE |-> "max_block_size"]))

GcsArguments(profile) ==
    {"project"} \cup Given(profile, [API_ENDPOINT |-> "client_options", USER_PROJECT |-> "client_options"])

FtpArguments(profile) == {"ftp_class_path", "init_kwargs", "_connect_kwargs", "_post_connect"}

SmbArguments(profile) ==
    {"server", "port", "encrypt", "connection_timeout"} \cup Given(profile, [USERNAME |-> "username"])

GithubArguments(profile) ==
    {"org", "repo", "base_url", "timeout"} \cup Given(profile, [REF |-> "sha"])

\* emit(), or to_handler_kwargs() of a profile without a family
Arguments(spec, profile) ==
    CASE spec.provider = "s3" -> S3Arguments(profile)
      [] spec.provider = "sftp" -> SftpArguments(profile)
      [] spec.provider = "http" -> HttpArguments(profile)
      [] spec.provider = "azure_blob" -> AzureArguments(profile)
      [] spec.provider = "gcs" -> GcsArguments(profile)
      [] spec.provider = "ftp" -> FtpArguments(profile)
      [] spec.provider = "smb" -> SmbArguments(profile)
      [] spec.provider = "github" -> GithubArguments(profile)

\* The arguments of httpx.Client; it raises TypeError for any other.
HttpxArguments ==
    {"auth", "params", "headers", "cookies", "verify", "cert", "http1", "http2", "proxy", "mounts",
     "timeout", "follow_redirects", "limits", "max_redirects", "event_hooks", "base_url",
     "transport", "trust_env", "default_encoding"}

\* The provider types that have a backend.
Backends == {"local", "s3", "s3express", "r2", "minio", "b2", "sftp", "http"}

\* _emit_kwargs for BOTO: a role or a named profile needs a session, and a role
\* is AWS's own.
EmitBoto(profile, auth) ==
    CASE Endpoint(profile) = "ValueError" -> "ValueError"
      [] Endpoint(profile) # "ValueError" /\ auth.mode # "none" /\ auth.role
            /\ profile.flavor \in {"r2", "minio", "b2"} -> "ValueError"
      [] OTHER -> IF auth.mode # "none" /\ (auth.role \/ auth.profile) THEN "session" ELSE "flat"

\* Mutant of S3Signer: a named profile goes before keys.
S3SignerProfileFirst(auth, ambient) ==
    IF auth.role THEN "role"
    ELSE IF auth.profile THEN "profile" ELSE IF auth.keys THEN "keys" ELSE "ambient"

\* _build_via_session, and the flat client: which credentials sign a request.
S3Signer(auth, ambient) ==
    CASE auth.profile /\ auth.keys -> "ValueError"
      [] ~(auth.profile /\ auth.keys) /\ auth.role
            /\ ~auth.profile /\ ~auth.keys /\ ~ambient -> "TransportConnectionError"
      [] ~(auth.profile /\ auth.keys) /\ auth.role
            /\ (auth.profile \/ auth.keys \/ ambient) -> "role"
      [] OTHER -> IF auth.profile THEN "profile" ELSE IF auth.keys THEN "keys" ELSE "ambient"

\* create_auth_strategy
AuthStrategy(auth, managed, store) ==
    IF ~managed THEN "static"
    ELSE IF auth.mode # "oauth2" \/ ~store THEN "ValueError" ELSE "managed"

-----------------------------------------------------------------------------
\* StorageFacade.__init__ with a profile of the spec: create_connection, the
\* checks of managed OAuth, connect(), get_storage_backend(). What comes of it
\* is [error, opened, signer]: whether a connection was open by then, and what
\* signs the backend's requests.

Raise(error, opened) == [error |-> error, opened |-> opened, signer |-> ""]

Connected(spec, profile, auth, ambient, strategy) ==
    LET signer == CASE auth.mode = "none" -> IF spec.provider = "s3" THEN "ambient" ELSE "none"
                    [] auth.mode = "iam" -> S3Signer(auth, ambient)
                    [] OTHER -> IF strategy = "managed" THEN "managed" ELSE "static" IN
    CASE spec.provider = "s3" /\ signer \in {"ValueError", "TransportConnectionError"} ->
           Raise(signer, FALSE)
      [] ConnectionClass(spec.provider) = "HTTPConnection"
            /\ ~(Arguments(spec, profile) \subseteq HttpxArguments) ->
           Raise("TransportConnectionError", FALSE)
      [] OTHER ->
           IF spec.provider \notin Backends \/ (strategy = "managed" /\ spec.provider # "http")
           THEN Raise("BackendNotImplementedError", TRUE)
           ELSE [error |-> "", opened |-> TRUE, signer |-> signer]

OpenFacade(spec, profile, auth, managed, store, ambient) ==
    LET strategy == AuthStrategy(auth, managed, store) IN
    CASE auth.mode \notin spec.supported -> Raise("UnsupportedAuthProfileError", FALSE)
      [] auth.mode \in spec.supported /\ Family(spec.provider) = "BOTO"
            /\ EmitBoto(profile, auth) = "ValueError" -> Raise("ValueError", FALSE)
      [] OTHER ->
           IF strategy = "ValueError" \/ (auth.mode = "oauth2" /\ strategy = "static" /\ ~auth.token)
           THEN Raise("ValueError", FALSE)
           ELSE Connected(spec, profile, auth, ambient, strategy)
=============================================================================
