------------------------------ MODULE RangedRead ------------------------------
(***************************************************************************)
(* A RangedReader over an object that others replace while it is open      *)
(* (_core/ranged_io.py and the open_ranged of the S3, HTTP and SFTP        *)
(* backends). A byte is the version of the object it belongs to; where it  *)
(* was read is kept by position. fsspec's cache is external: it remembers  *)
(* what it fetched as long as it likes.                                    *)
(***************************************************************************)
EXTENDS Integers

CONSTANTS
    MaxSize,    \* bytes of the longest object
    Versions    \* how often it is replaced, at most

ASSUME RangeAssumption == MaxSize \in Nat \ {0} /\ Versions \in Nat

VARIABLES
    version,    \* how often the object was replaced or overwritten
    length,     \* its length now
    source,     \* what open_ranged returned: "closed", "etag", "http", "s3" or "file"
    first,      \* the version that was there when it was opened
    size,       \* RangedSource.size
    cache,      \* the version of each byte the cache holds, NotCached elsewhere
    pos,        \* _pos
    end,        \* where the running read ends, pos when none runs
    missing,    \* positions of the running read that are to be fetched
    got,        \* the last read: the version of each byte it returned
    asked,      \* where the last read began and where it should have ended
    outcome     \* its error: "none", "changed", "short" or "mismatch"

rangeVars == <<version, length, source, first, size, cache, pos, end, missing,
               got, asked, outcome>>

Offsets == 0..MaxSize - 1
NotCached == -1
Nothing == [o \in Offsets |-> NotCached]

RangeInit ==
    /\ version = 0 /\ length \in 1..MaxSize
    /\ source = "closed" /\ first = 0 /\ size = 0
    /\ cache = Nothing /\ pos = 0 /\ end = 0 /\ missing = {}
    /\ got = Nothing /\ asked = <<0, 0>> /\ outcome = "none"

-----------------------------------------------------------------------------
\* Another client writes the object anew. (A remote file that was renamed over
\* stays as it is for the handle that is open: no step.)
Replace ==
    /\ version < Versions
    /\ version' = version + 1
    /\ length' \in 1..MaxSize
    /\ UNCHANGED <<source, first, size, cache, pos, end, missing, got, asked, outcome>>

\* open_ranged and the reader's __init__: the length and, if it is a strong
\* one, the ETag of the object. A remote file has no version to ask for.
Open ==
    /\ source = "closed"
    /\ source' \in {"etag", "http", "s3", "file"}
    /\ first' = version /\ size' = length
    /\ UNCHANGED <<version, length, cache, pos, end, missing, got, asked, outcome>>

\* Mutant of StrongEtag: no range request carries one.
StrongEtagForgotten == FALSE

\* Only a strong validator is sent with If-Match.
StrongEtag == source = "etag"

-----------------------------------------------------------------------------
\* seek() moves without a request; also behind the end.
Seek(p) ==
    /\ source # "closed" /\ pos = end
    /\ pos' = p /\ end' = p
    /\ UNCHANGED <<version, length, source, first, size, cache, missing, got, asked, outcome>>

ReadEnd(n) == IF pos + n < size THEN pos + n ELSE size

\* read(n), and read(-1) with n large: what of it has to be fetched.
StartRead(n) ==
    /\ source # "closed" /\ pos = end /\ pos < ReadEnd(n)
    /\ end' = ReadEnd(n)
    /\ missing' = {o \in pos..end' - 1 : cache[o] = NotCached}
    /\ asked' = <<pos, end'>> /\ outcome' = "none"
    /\ UNCHANGED <<version, length, source, first, size, cache, pos, got>>

\* Mutant of Answer: what comes is taken, whatever its length.
AnswerUnchecked(to) ==
    IF StrongEtag /\ version # first THEN "changed"
    ELSE IF source = "http" /\ length # size THEN "mismatch"
    ELSE "none"

\* The server's answer to a range: the error the backend's fetch, or the length
\* check of the reader's _fetch, makes of it. HTTP compares Content-Range with
\* the size it was told first, S3 and SFTP only see how many bytes come.
Answer(to) ==
    IF StrongEtag /\ version # first THEN "changed"
    ELSE IF source = "http" /\ length # size THEN "mismatch"
    ELSE IF to > length THEN "short"
    ELSE "none"

\* One range: from the first missing position on, and over more than what is
\* missing if the cache reads ahead. An error leaves reader and cache as they are.
Fetch ==
    /\ missing # {}
    /\ \E from \in missing, to \in 1..size :
        /\ \A o \in missing : from <= o
        /\ from < to
        /\ outcome' = Answer(to)
        /\ IF outcome' = "none"
           THEN /\ cache' = [o \in Offsets |-> IF from <= o /\ o < to /\ o < length
                                               THEN version ELSE cache[o]]
                /\ missing' = missing \ (from..to - 1)
                /\ UNCHANGED end
           ELSE missing' = {} /\ end' = pos /\ UNCHANGED cache
    /\ UNCHANGED <<version, length, source, first, size, pos, got, asked>>

\* All is there: the bytes are returned and the position moves by their number.
Deliver ==
    /\ pos < end /\ missing = {}
    /\ got' = [o \in Offsets |-> IF pos <= o /\ o < end THEN cache[o] ELSE NotCached]
    /\ pos' = end
    /\ UNCHANGED <<version, length, source, first, size, cache, end, missing, asked, outcome>>

\* The cache drops what it likes between two reads.
Evict ==
    /\ pos = end
    /\ \E keep \in SUBSET Offsets :
          cache' = [o \in Offsets |-> IF o \in keep THEN cache[o] ELSE NotCached]
    /\ UNCHANGED <<version, length, source, first, size, pos, end, missing, got, asked, outcome>>

RangeNext ==
    \/ Replace \/ Open
    \/ \E p \in 0..MaxSize : Seek(p)
    \/ \E n \in 1..MaxSize : StartRead(n)
    \/ Fetch \/ Deliver \/ Evict

RangeSpec == RangeInit /\ [][RangeNext]_rangeVars

-----------------------------------------------------------------------------
Delivered == {o \in Offsets : got[o] # NotCached}

\* A reader that has a strong ETag returns bytes of the version it opened and
\* of no other, through its cache or not and however its ranges are cut, and it
\* raises ObjectChangedError only if the object was in fact replaced.
OneVersion ==
    /\ source = "etag" => \A o \in Delivered : got[o] = first
    /\ outcome = "changed" => version # first

\* A read that raises nothing returns as many bytes as the object had when it
\* was opened, each with the content of its place in a version that was there
\* since; an object that has shrunk is an error and not an early end.
RangesExact ==
    /\ outcome = "none" /\ pos = end /\ asked[2] = pos /\ asked[1] < asked[2] =>
          asked[1]..asked[2] - 1 \subseteq Delivered
    /\ \A o \in Delivered : got[o] \in first..version
=============================================================================
