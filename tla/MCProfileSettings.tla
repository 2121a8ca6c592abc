--------------------------- MODULE MCProfileSettings ---------------------------
(* The blocks of configuration that TLC puts to resolve_storage. *)
EXTENDS ProfileSettings, TLC

VARIABLE block

\* SFTP blocks that name a host and a user, with an auth section of every shape:
\* none, empty ("auth:" in YAML), or a mapping.
BlockInit ==
    block \in [found : BOOLEAN, provider : {"sftp", "floppy"},
               params : {[p \in {<<"HOST">>, <<"USERNAME">>} |-> "plain"]}, invalid : {{}},
               auth : {[given |-> g, mode |-> "default", params |-> <<>>, invalid |-> {}] :
                          g \in {"no", "null"}}
                      \cup {[given |-> "block", mode |-> m, params |-> p, invalid |-> {}] :
                              m \in {"default", "none", "iam", "floppy"},
                              p \in {<<>>, <<"USERNAME">> :> "plain", <<"USERNAME">> :> "secret"}}]

BlockSpec == BlockInit /\ [][UNCHANGED block]_block

\* resolve_storage raises ProfileNotFoundError, UnsupportedAuthProfileError, or
\* ProfileResolutionError for a block that is not valid or whose parameters do
\* not validate, and nothing else (the docstring, loader.py:204-209).
FailuresAreProfileErrors ==
    ResolveStorage(block).error \in
        {"", "ProfileNotFoundError", "ProfileResolutionError", "UnsupportedAuthProfileError"}
=============================================================================
