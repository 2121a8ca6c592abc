----------------------------- MODULE ErrorMapping -----------------------------
(***************************************************************************)
(* Which StorageError a backend makes of what its library raises (the      *)
(* _helpers.py of the local, S3, SFTP and HTTP backends, path_exists, and  *)
(* _core/stream_errors.py for the caller's own stream). An exception is    *)
(* [cls, code, status, chain]: its class, an S3 or errno code, an HTTP     *)
(* status, and the classes that its cause or a hidden context leads to.    *)
(* Of codes and classes that are treated alike there is one of each kind.  *)
(***************************************************************************)
EXTENDS Integers, Sequences, FiniteSets, FiniteSetsExt

\* _core/exceptions.py, as far as a backend raises it: StorageError is the base.
StorageErrors == {"StorageError", "ObjectChangedError", "StorageConnectionError",
                  "PathNotFoundError", "AuthenticationError", "PermissionDeniedError"}

\* _core/http/errors.py: all are HttpTransportErrors.
HttpClientErrors == {"HttpClientError", "HttpNotFoundError", "HttpAuthenticationError",
                     "HttpForbiddenError", "HttpRateLimitError", "HttpConflictError"}
HttpErrors == HttpClientErrors \cup
              {"HttpServerError", "HttpConnectionError", "HttpTimeoutError",
               "HttpRedirectError", "HttpRequestError", "HttpTransportError"}

\* The bases that the libraries' own classes have, of those that are asked for.
OSErrors == {"FileNotFoundError", "PermissionError", "NotADirectoryError", "ConnectionError",
             "TimeoutError", "UnsupportedOperation", "SameFileError", "OSError",
             "NoValidConnectionsError"}
BotoErrors == {"NoCredentialsError", "ParamValidationError", "boto.ConnectionError",
               "HTTPClientError", "IncompleteReadError", "BotoCoreError"}
HttpxErrors == {"NetworkError", "TimeoutException", "ProxyError", "LocalProtocolError",
                "UnsupportedProtocol", "HTTPError"}

Bases(cls) ==
    {cls} \cup (IF cls \in StorageErrors THEN {"StorageError"} ELSE {})
          \cup (IF cls \in HttpClientErrors THEN {"HttpClientError"} ELSE {})
          \cup (IF cls \in HttpErrors THEN {"HttpTransportError"} ELSE {})
          \cup (IF cls \in OSErrors THEN {"OSError"} ELSE {})
          \cup (IF cls \in BotoErrors THEN {"BotoCoreError"} ELSE {})
          \cup (IF cls \in HttpxErrors THEN {"HTTPError"} ELSE {})
          \cup (IF cls = "AuthenticationException" THEN {"SSHException"} ELSE {})

IsA(cls, classes) == Bases(cls) \cap classes # {}

AsItIs == "as it is"

\* The first row of a table with one of the classes decides.
Lookup(table, cls, otherwise) ==
    LET hits == {i \in DOMAIN table : IsA(cls, table[i][1])} IN
    IF hits = {} THEN otherwise ELSE table[Min(hits)][2]

-----------------------------------------------------------------------------
LocalTable ==
    << <<{"StorageError", "UnsupportedOperation", "SameFileError"}, AsItIs>>,
       <<{"FileNotFoundError"}, "PathNotFoundError">>,
       <<{"PermissionError"}, "PermissionDeniedError">>,
       <<{"ConnectionError", "TimeoutError"}, "StorageConnectionError">>,
       <<{"OSError"}, "StorageError">> >>

MapLocal(exc) == Lookup(LocalTable, exc.cls, AsItIs)

\* The errno of an OSError counts as much as its class.
MapSftp(exc) ==
    IF exc.code = "ENOENT" THEN "PathNotFoundError"
    ELSE IF exc.code \in {"EACCES", "EPERM"} THEN "PermissionDeniedError"
    ELSE Lookup(<< <<{"StorageError", "UnsupportedOperation"}, AsItIs>>,
                   <<{"FileNotFoundError"}, "PathNotFoundError">>,
                   <<{"PermissionError"}, "PermissionDeniedError">>,
                   <<{"AuthenticationException"}, "AuthenticationError">>,
                   <<{"ConnectionError", "TimeoutError", "EOFError", "SSHException",
                      "NoValidConnectionsError"}, "StorageConnectionError">>,
                   <<{"OSError", "SFTPError"}, "StorageError">> >>, exc.cls, AsItIs)

\* Mutant of MapClientError: the status is asked first.
MapClientErrorByStatus(exc) ==
    CASE exc.status = 412 -> "ObjectChangedError"
      [] exc.status = 401 -> "AuthenticationError"
      [] exc.status = 403 -> "PermissionDeniedError"
      [] exc.status = 404 -> "PathNotFoundError"
      [] OTHER -> "StorageError"

\* A ClientError goes by its code, then by its status.
MapClientError(exc) ==
    CASE exc.code \in {"InvalidAccessKeyId", "SignatureDoesNotMatch", "ExpiredToken"} ->
           "AuthenticationError"
      [] exc.code \in {"NoSuchKey", "NoSuchBucket", "404"} -> "PathNotFoundError"
      [] exc.code = "AccessDenied" -> "PermissionDeniedError"
      [] exc.code = "RequestTimeout" -> "StorageConnectionError"
      [] exc.code = "PreconditionFailed" -> "ObjectChangedError"
      [] OTHER -> CASE exc.status = 412 -> "ObjectChangedError"
                    [] exc.status = 401 -> "AuthenticationError"
                    [] exc.status = 403 -> "PermissionDeniedError"
                    [] exc.status = 404 -> "PathNotFoundError"
                    [] OTHER -> "StorageError"

MapS3(exc) ==
    IF exc.cls = "ClientError" THEN MapClientError(exc)
    ELSE Lookup(<< <<{"StorageError", "UnsupportedOperation", "ParamValidationError"}, AsItIs>>,
                   <<{"NoCredentialsError"}, "AuthenticationError">>,
                   <<{"ConnectionError", "TimeoutError", "EOFError", "boto.ConnectionError",
                      "HTTPClientError", "IncompleteReadError"}, "StorageConnectionError">>,
                   <<{"OSError", "BotoCoreError"}, "StorageError">> >>, exc.cls, AsItIs)

\* map_status_to_error
StatusError(status) ==
    CASE status = 401 -> "HttpAuthenticationError" [] status = 403 -> "HttpForbiddenError"
      [] status = 404 -> "HttpNotFoundError" [] status = 409 -> "HttpConflictError"
      [] status = 429 -> "HttpRateLimitError"
      [] status \in (400..499) \ {401, 403, 404, 409, 429} -> "HttpClientError"
      [] OTHER -> "HttpServerError"

\* What an engine error hides still tells that the connection is to blame.
HttpLost == {"HttpConnectionError", "HttpTimeoutError", "NetworkError", "TimeoutException",
             "ProxyError", "ConnectionError", "TimeoutError"}

MapHttp(exc) ==
    LET class == Lookup(
            << <<{"StorageError", "HttpRequestError", "InvalidURL", "UnsupportedProtocol",
                  "LocalProtocolError"}, AsItIs>>,
               <<{"HttpNotFoundError"}, "PathNotFoundError">>,
               <<{"HttpAuthenticationError"}, "AuthenticationError">>,
               <<{"HttpForbiddenError"}, "PermissionDeniedError">>,
               <<{"HttpTransportError", "HTTPError", "OSError"}, "StorageError">> >>,
            exc.cls, AsItIs) IN
    IF class # "StorageError" THEN class
    ELSE IF exc.cls = "HttpClientError" /\ exc.status = 412 THEN "ObjectChangedError"
    ELSE IF \E c \in {exc.cls} \cup exc.chain : IsA(c, HttpLost) THEN "StorageConnectionError"
    ELSE "StorageError"

\* _mapped of each backend
Mapped(backend, exc) ==
    CASE backend = "local" -> MapLocal(exc) [] backend = "sftp" -> MapSftp(exc)
      [] backend = "s3" -> MapS3(exc) [] backend = "http" -> MapHttp(exc)

-----------------------------------------------------------------------------
\* path_exists: what was raised, if anything, makes it false, or goes on. A
\* local path below a file is one that does not exist.
PathExists(backend, raised) ==
    IF raised = {} THEN "true"
    ELSE LET exc == CHOOSE e \in raised : TRUE IN
         IF backend = "local" /\ exc.cls \in {"FileNotFoundError", "NotADirectoryError"}
         THEN "false"
         ELSE IF Mapped(backend, exc) = "PathNotFoundError" THEN "false" ELSE "raises"

-----------------------------------------------------------------------------
\* _CallerInput: an upload raised the exception top. Each exception has a
\* cause and a context, None or another one; own are those the caller's stream
\* raised, in the order in which it did.

None == 0

\* Mutant of OriginalIn: only what was chained on purpose is followed.
OriginalInCauses(cause, context, own, top) ==
    LET Search[current \in Nat, left \in Nat] ==
            IF current = None \/ left = 0 THEN None
            ELSE IF current \in own THEN current
            ELSE Search[cause[current], left - 1]
    IN Search[top, Cardinality(DOMAIN cause)]

\* original_in: depth first from what was raised, causes before contexts, the
\* first that is one of them. An exception that was seen is passed over.
Chained(e) == IF e = None THEN <<>> ELSE <<e>>

OriginalIn(cause, context, own, top) ==
    LET Search[s \in [pending : Seq(DOMAIN cause), seen : SUBSET DOMAIN cause]] ==
            IF s.pending = <<>> THEN None
            ELSE LET current == s.pending[Len(s.pending)]
                     rest == SubSeq(s.pending, 1, Len(s.pending) - 1)
                     next == Chained(context[current]) \o Chained(cause[current]) IN
                 IF current \in s.seen THEN Search[[pending |-> rest, seen |-> s.seen]]
                 ELSE IF current \in own THEN current
                 ELSE Search[[pending |-> rest \o next, seen |-> s.seen \cup {current}]]
    IN Search[[pending |-> <<top>>, seen |-> {}]]

\* write_from_stream of S3 and HTTP: the caller's own exception as it was, else
\* what _mapped raised, from the exception, in its place.
Uploaded(cause, context, own, top) ==
    LET original == OriginalIn(cause, context, own, top) IN
    IF original # None THEN <<"own", original>> ELSE <<"mapped", top>>

\* What the tracebacks lead to from an exception: e is in every set that has it
\* and, with an exception, that one's cause and context.
LeadsTo(cause, context, top, e) ==
    \A S \in SUBSET DOMAIN cause :
        top \in S /\ (\A x \in S : {cause[x], context[x]} \ {None} \subseteq S) => e \in S
=============================================================================
