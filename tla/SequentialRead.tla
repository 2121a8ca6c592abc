---------------------------- MODULE SequentialRead ----------------------------
(***************************************************************************)
(* One forward-only reader, from its first read to its end: what it hands  *)
(* on of the bytes of the stream under it (_core/sequential_io.py,         *)
(* _core/transforms/_stream_encoder.py and compression.py, the backends'   *)
(* read_to_stream). The bytes are numbered from 1. What a gzip encoder     *)
(* gives is the bytes that its deflate stream stands for, between a header *)
(* and a trailer, which are numbered on at either end.                     *)
(***************************************************************************)
EXTENDS Integers, Sequences, SequencesExt

CONSTANTS
    Size,       \* bytes of the source
    Chunk       \* the longest chunk, and the longest read

ASSUME ReadAssumption == Size \in Nat /\ Chunk \in Nat \ {0}

VARIABLES
    reader,     \* "sized", "chunks", "encoder" or "bounded"
    given,      \* how many bytes the source has given
    pending,    \* IterBytesReader._pending or GzipCompressingReader._buffer
    held,       \* bytes the compressor took and has not given out
    ended,      \* the source said that it has ended
    bound,      \* max_decompressed_bytes
    want,       \* the size of the running read, 0 when none runs
    out,        \* all the reader has returned
    told        \* its last word: "data", "eof", "failed" or "refused"

readVars == <<reader, given, pending, held, ended, bound, want, out, told>>

ReadInit ==
    /\ reader \in {"sized", "chunks", "encoder", "bounded"}
    /\ bound \in IF reader = "bounded" THEN 0..Size + 1 ELSE {Size}
    /\ given = 0 /\ pending = <<>> /\ held = <<>> /\ ended = FALSE
    /\ want = 0 /\ out = <<>> /\ told = "data"

Bytes(from, to) == [i \in 1..(to - from) |-> from + i]
Least(a, b) == IF a < b THEN a ELSE b

GzipHeader == 0
GzipTrailer == Size + 1

-----------------------------------------------------------------------------
\* readinto with a buffer of n bytes; an empty buffer is answered with 0.
Ask(n) ==
    /\ want = 0 /\ told = "data"
    /\ want' = n
    /\ UNCHANGED <<reader, given, pending, held, ended, bound, out, told>>

Return(data) ==
    /\ out' = out \o data
    /\ told' = IF data = <<>> THEN "eof" ELSE "data"
    /\ want' = 0

\* ForwardOnlyReader over a native sized read, which may return less.
ReadSized ==
    /\ reader = "sized" /\ want > 0
    /\ given' \in IF given = Size THEN {Size} ELSE given + 1..Least(given + want, Size)
    /\ Return(Bytes(given, given'))
    /\ UNCHANGED <<reader, pending, held, ended, bound>>

\* Mutant of NextChunk: an empty chunk is returned as it is.
NextChunkOnce ==
    /\ reader = "chunks" /\ want > 0 /\ pending = <<>>
    /\ given' \in given..Least(given + Chunk, Size)
    /\ pending' = Bytes(given, given')
    /\ IF given' = given THEN Return(<<>>) ELSE UNCHANGED <<want, out, told>>
    /\ UNCHANGED <<reader, held, ended, bound>>

\* IterBytesReader: the next chunk, if nothing is left of the last one. A chunk
\* may be empty, and one that is empty is followed by another attempt.
NextChunk ==
    /\ reader = "chunks" /\ want > 0 /\ pending = <<>>
    /\ given' \in given..Least(given + Chunk, Size)
    /\ pending' = Bytes(given, given')
    /\ UNCHANGED <<reader, held, ended, bound, want, out, told>>

NoMoreChunks ==
    /\ reader = "chunks" /\ want > 0 /\ pending = <<>> /\ given = Size
    /\ Return(<<>>)
    /\ UNCHANGED <<reader, given, pending, held, ended, bound>>

\* As much of what is pending as was asked for; the encoder waits until there
\* is enough, or the trailer.
TakePending ==
    /\ want > 0
    /\ \/ reader = "chunks" /\ pending # <<>>
       \/ reader = "encoder" /\ (Len(pending) >= want \/ ended)
    /\ LET n == Least(want, Len(pending)) IN
       /\ Return(SubSeq(pending, 1, n))
       /\ pending' = SubSeq(pending, n + 1, Len(pending))
    /\ UNCHANGED <<reader, given, held, ended, bound>>

-----------------------------------------------------------------------------
\* GzipCompressingReader._fill

\* The first call adds the header and goes on.
Header == IF given = 0 THEN <<GzipHeader>> ELSE <<>>

\* zlib's compress(): it takes the bytes in and gives out some of those it has.
Fill ==
    /\ reader = "encoder" /\ want > Len(pending) /\ ~ended /\ given < Size
    /\ given' \in given + 1..Least(given + Chunk, Size)
    /\ \E n \in 0..Len(held) + given' - given :
          LET all == held \o Bytes(given, given') IN
          /\ pending' = pending \o Header \o SubSeq(all, 1, n)
          /\ held' = SubSeq(all, n + 1, Len(all))
    /\ UNCHANGED <<reader, ended, bound, want, out, told>>

\* Mutant of FillLast: the trailer without a flush.
FillLastUnflushed ==
    /\ reader = "encoder" /\ want > Len(pending) /\ ~ended /\ given = Size
    /\ ended' = TRUE
    /\ pending' = pending \o Header \o <<GzipTrailer>>
    /\ held' = <<>>
    /\ UNCHANGED <<reader, given, bound, want, out, told>>

\* The source is exhausted: flush(Z_FINISH) and the trailer.
FillLast ==
    /\ reader = "encoder" /\ want > Len(pending) /\ ~ended /\ given = Size
    /\ ended' = TRUE
    /\ pending' = pending \o Header \o held \o <<GzipTrailer>>
    /\ held' = <<>>
    /\ UNCHANGED <<reader, given, bound, want, out, told>>

-----------------------------------------------------------------------------
\* _BoundedGzipFile: one byte past the limit is asked for, so that data of
\* exactly that length is told from data that goes on.

\* Mutant of Cap: nothing past the limit is asked for.
CapAtBound(n) == Least(n, bound - given)

Cap(n) == Least(n, bound - given + 1)

\* Mutant of Passed: data as long as the limit is refused.
PassedAt(p) == p >= bound

\* _check, after a read that brought the position to p.
Passed(p) == p > bound

ReadBounded ==
    /\ reader = "bounded" /\ want > 0
    /\ given' \in IF given = Size \/ Cap(want) = 0 THEN {given}
                                     ELSE given + 1..Least(given + Cap(want), Size)
    /\ IF Passed(given') THEN told' = "refused" /\ want' = 0 /\ UNCHANGED out
                         ELSE Return(Bytes(given, given'))
    /\ UNCHANGED <<reader, pending, held, ended, bound>>

\* read(-1): chunk after chunk to the end, all or nothing.
ReadAllBounded ==
    /\ reader = "bounded" /\ want = 0 /\ told = "data"
    /\ given' = Least(given + Cap(Size), Size)
    /\ IF Passed(given') THEN told' = "refused" /\ UNCHANGED out
       ELSE out' = out \o Bytes(given, given') /\ told' = "eof"
    /\ UNCHANGED <<reader, pending, held, ended, bound, want>>

-----------------------------------------------------------------------------
\* The stream under the reader raises. The read delivers nothing; the reader
\* is not read again here (a chunk iterator that raised has ended).
SourceFails ==
    /\ want > 0 /\ (reader = "chunks" => pending = <<>>)
    /\ told' = "failed" /\ want' = 0
    /\ UNCHANGED <<reader, given, pending, held, ended, bound, out>>

ReadNext ==
    \/ \E n \in 1..Chunk : Ask(n)
    \/ ReadSized \/ NextChunk \/ NoMoreChunks \/ TakePending
    \/ Fill \/ FillLast \/ ReadBounded \/ ReadAllBounded
    \/ SourceFails

ReadSpec == ReadInit /\ [][ReadNext]_readVars

-----------------------------------------------------------------------------
Whole == IF reader = "encoder" THEN <<GzipHeader>> \o Bytes(0, Size) \o <<GzipTrailer>>
                               ELSE Bytes(0, Size)

\* Whatever the sizes of reads and chunks, the reader returns the bytes of its
\* source in order, none lost or repeated; it says that they are at an end only
\* when all are delivered, and refuses only data that is longer than its limit,
\* none of which beyond the limit it delivers.
DeliversEverything ==
    /\ IsPrefix(out, Whole)
    /\ told = "eof" => out = Whole
    /\ told = "refused" => Size > bound
    /\ reader = "bounded" => Len(out) <= bound
=============================================================================
