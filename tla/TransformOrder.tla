---------------------------- MODULE TransformOrder ----------------------------
(***************************************************************************)
(* Which transforms a read applies to stored bytes, and in which order     *)
(* (storage/path_helpers/suffixes.py, _core/transforms/pipeline.py and     *)
(* encryption.py, _resolve_pipeline of storage/facade/facade.py). Bytes    *)
(* are the sequence of the layers around the plain text, the outermost     *)
(* first. A file name is its stem and its suffixes, the last one last.     *)
(***************************************************************************)
EXTENDS Integers, Sequences, SequencesExt

Plain == <<>>
Raises == <<"raises">>

\* One suffix of each kind: "" is a name's last dot, csv stands for all that are
\* not known.
SuffixNames == {"gz", "GZ", "gzip", "gpg", "asc", "PGP", "csv", ""}

\* SUFFIX_TRANSFORMS, on the suffix in lower case.
Lower == [s \in SuffixNames |->
            CASE s = "GZ" -> "gz" [] s = "PGP" -> "pgp" [] OTHER -> s]

SuffixTransform(s) ==
    CASE s \in {"gz", "gzip"} -> "gzip"
      [] s \in {"gpg", "asc", "pgp"} -> "gpg"
      [] OTHER -> "none"

\* _split_final_suffix: a dot that begins or ends a name begins no suffix.
HasSuffix(stem, suffixes) ==
    /\ suffixes # <<>> /\ Last(suffixes) # ""
    /\ stem # "" \/ Len(suffixes) > 1

\* Mutant of FinalKind: suffixes in capitals are not known.
FinalKindAsWritten(stem, suffixes) ==
    IF HasSuffix(stem, suffixes) THEN SuffixTransform(Last(suffixes)) ELSE "none"

FinalKind(stem, suffixes) ==
    IF HasSuffix(stem, suffixes) THEN SuffixTransform(Lower[Last(suffixes)]) ELSE "none"

\* infer_pipeline: the transforms of the known suffixes, from the right to the
\* left and therefore the outermost first, up to the first that is not known.
Infer(stem, suffixes, hasGpg) ==
    LET Peel[s \in Seq(SuffixNames)] ==
            LET kind == FinalKind(stem, s) IN
            IF kind = "none" THEN <<>>
            ELSE IF kind = "gpg" /\ ~hasGpg THEN Raises
            ELSE LET rest == Peel[Front(s)] IN
                 IF rest = Raises THEN Raises ELSE <<kind>> \o rest
    IN Peel[suffixes]

\* _resolve_pipeline: what was inferred, or else the explicit pipeline.
Effective(stem, suffixes, hasGpg, infer, pipeline) ==
    IF ~infer THEN pipeline
    ELSE IF pipeline # <<>> THEN Raises
    ELSE Infer(stem, suffixes, hasGpg)

\* A transform's wrap, and its unwrap, which fails on what it did not wrap.
Wrap(kind, bytes) == <<kind>> \o bytes
Unwrap(kind, bytes) ==
    IF bytes # <<>> /\ bytes # Raises /\ Head(bytes) = kind THEN Tail(bytes) ELSE Raises

\* Mutant of ApplyWrite: in the order of the list.
ApplyWriteInOrder(pipeline, bytes) == FoldLeft(LAMBDA b, k : Wrap(k, b), bytes, pipeline)

\* Pipeline.apply_write: the innermost transform first.
ApplyWrite(pipeline, bytes) == FoldRight(Wrap, pipeline, bytes)

\* Pipeline.apply_read: the outermost first.
ApplyRead(pipeline, bytes) == FoldLeft(LAMBDA b, k : Unwrap(k, b), bytes, pipeline)

\* read_stream's rule for the access modes.
ReadBack(access, pipeline, bytes) ==
    IF pipeline = Raises THEN Raises
    ELSE IF access = "random" /\ pipeline # <<>> THEN Raises
    ELSE ApplyRead(pipeline, bytes)
=============================================================================
