---------------------------- MODULE StorageStreams ----------------------------
(***************************************************************************)
(* The life of a StorageFacade and of the streams it returns               *)
(* (storage/facade/facade.py, storage/facade/cross_backend.py,             *)
(* _core/transforms/pipeline.py): a source facade that reads, a            *)
(* destination facade that copy_between() writes to, and one read at a     *)
(* time. A read stacks transform layers on a source stream; layer 0 is the *)
(* source and layer k the k-th distinct stream a transform returned. Every *)
(* step may fail. What the bytes are is left to SequentialRead.            *)
(***************************************************************************)
EXTENDS Integers, Sequences

CONSTANT MaxTransforms      \* length of the longest pipeline

ASSUME TransformsAssumption == MaxTransforms \in Nat

VARIABLES
    stage,      \* of each facade: "absent", "making", "failing", "ready", "dead"
    closed,     \* its _closed
    conn,       \* its _connection: "none", "made" or "live"
    cuts,       \* how often its connection was disconnected
    op,         \* the current or last read: what it is for
    place,      \* where that read is
    todo,       \* transforms of its pipeline not applied yet
    top,        \* the last layer built, -1 if there is none
    greedy,     \* layers that close the layer under them when they close
    open,       \* layers that are open
    closes,     \* how often a layer was closed by the cleanup or a greedy layer
    stack,      \* the ExitStacks: layers to close, the next one last
    raised,     \* the error on its way to the caller, "none" if there is none
    failed,     \* what has failed in this read
    written     \* the destination of a copy: "no", "partly" or "whole"

life == <<stage, closed, conn, cuts>>
layers == <<top, greedy, open, closes, stack>>
vars == <<life, layers, op, place, todo, raised, failed, written>>

Facades == {"src", "dst"}
Layer == 0..MaxTransforms

\* read(), read_stream() with each access mode, and copy_between() without and
\* with a Gzip destination pipeline, whose encoder owns the stream it reads.
Reads == {"read", "stream", "buffered", "random", "copy", "encode"}
Copies == {"copy", "encode"}

Init ==
    /\ stage = [f \in Facades |-> "absent"]
    /\ closed = [f \in Facades |-> FALSE]
    /\ conn = [f \in Facades |-> "none"]
    /\ cuts = [f \in Facades |-> 0]
    /\ op = "read" /\ place = "idle" /\ todo = 0
    /\ top = -1 /\ greedy = {} /\ open = {} /\ closes = [l \in Layer |-> 0]
    /\ stack = <<>>
    /\ raised = "none" /\ failed = {} /\ written = "no"

-----------------------------------------------------------------------------
\* A facade's life. The caller is the only thread.

CallerHasControl == place = "idle" \/ (place = "open" /\ op \in {"stream", "random"})

\* __init__: a profile gets a connection, a local facade may do without.
Construct(f) ==
    /\ CallerHasControl /\ stage[f] = "absent"
    /\ stage' = [stage EXCEPT ![f] = "making"]
    /\ \E c \in {"none", "made"} : conn' = [conn EXCEPT ![f] = c]
    /\ UNCHANGED <<closed, cuts>>

Connect(f) ==
    /\ stage[f] = "making" /\ conn[f] = "made"
    /\ conn' = [conn EXCEPT ![f] = "live"]
    /\ UNCHANGED <<stage, closed, cuts>>

Constructed(f) ==
    /\ stage[f] = "making" /\ conn[f] # "made"
    /\ stage' = [stage EXCEPT ![f] = "ready"]
    /\ UNCHANGED <<closed, conn, cuts>>

\* Mutant of ConstructFails: the constructor raises without closing.
ConstructFailsHolding(f) ==
    /\ stage[f] = "making"
    /\ stage' = [stage EXCEPT ![f] = "dead"]
    /\ UNCHANGED <<closed, conn, cuts>>

\* create_auth_strategy, connect or get_storage_backend raises; close() follows.
ConstructFails(f) ==
    /\ stage[f] = "making"
    /\ stage' = [stage EXCEPT ![f] = "failing"]
    /\ UNCHANGED <<closed, conn, cuts>>

\* close(): the facade gives the connection up before it disconnects it, so it
\* makes no difference here whether disconnect() raises.
Close(f) ==
    /\ \/ stage[f] = "failing"
       \/ stage[f] = "ready" /\ CallerHasControl
    /\ stage' = [stage EXCEPT ![f] = IF @ = "failing" THEN "dead" ELSE @]
    /\ closed' = [closed EXCEPT ![f] = TRUE]
    /\ conn' = [conn EXCEPT ![f] = "none"]
    /\ cuts' = [cuts EXCEPT ![f] = IF ~closed[f] /\ conn[f] # "none" THEN @ + 1 ELSE @]

Life(f) ==
    /\ Construct(f) \/ Connect(f) \/ Constructed(f) \/ ConstructFails(f) \/ Close(f)
    /\ UNCHANGED <<layers, op, place, todo, raised, failed, written>>

-----------------------------------------------------------------------------
\* Opening a stream.

\* _require, in the facade that works.
Usable(f) == stage[f] = "ready" /\ ~closed[f]

Begin(k) ==
    /\ place = "idle" /\ Usable("src") /\ (k \in Copies => Usable("dst"))
    /\ op' = k /\ place' = "opening"
    /\ todo' \in 0..MaxTransforms
    /\ k = "random" => todo' = 0
    /\ top' = -1 /\ greedy' = {} /\ open' = {} /\ closes' = [l \in Layer |-> 0]
    /\ stack' = <<>>
    /\ raised' = "none" /\ failed' = {} /\ written' = "no"
    /\ UNCHANGED life

\* The backend's read_to_stream or open_ranged raises.
OpenFails ==
    /\ place = "opening"
    /\ place' = "idle" /\ raised' = "opening" /\ failed' = failed \cup {"opening"}
    /\ UNCHANGED <<life, layers, op, todo, written>>

\* The source stream and its entry in the facade's ExitStack.
OpenSource ==
    /\ place = "opening" /\ op # "random"
    /\ place' = "building"
    /\ top' = 0 /\ open' = {0} /\ stack' = <<0>>
    /\ UNCHANGED <<life, op, todo, greedy, closes, raised, failed, written>>

\* A RangedReader; only some sources hold something that on_close releases.
OpenRanged ==
    /\ place = "opening" /\ op = "random"
    /\ \E owns \in BOOLEAN :
          IF owns THEN top' = 0 /\ open' = {0} /\ stack' = <<0>>
                  ELSE UNCHANGED <<top, open, stack>>
    /\ \/ place' = "open" /\ UNCHANGED <<raised, failed>>
       \/ place' = "closing" /\ raised' = "opening" /\ failed' = failed \cup {"opening"}
    /\ UNCHANGED <<life, op, todo, greedy, closes, written>>

\* unwrap() returns a stream of its own, which is entered in the ExitStack,
\* or one of those there already are.
AddLayer ==
    /\ place = "building" /\ todo > 0
    /\ todo' = todo - 1
    /\ \/ UNCHANGED layers
       \/ /\ top' = top + 1
          /\ open' = open \cup {top'}
          /\ stack' = Append(stack, top')
          /\ \E g \in BOOLEAN : greedy' = IF g THEN greedy \cup {top'} ELSE greedy
          /\ UNCHANGED closes
    /\ UNCHANGED <<life, op, place, raised, failed, written>>

\* Mutant of UnwrapRaises: apply_read does not clean up after itself.
UnwrapRaisesHolding ==
    /\ place = "building" /\ todo > 0
    /\ place' = "unwinding" /\ raised' = "opening" /\ failed' = failed \cup {"opening"}
    /\ stack' = <<0>>
    /\ UNCHANGED <<life, top, greedy, open, closes, op, todo, written>>

\* unwrap() raises: apply_read closes what it built, read_stream the source.
UnwrapRaises ==
    /\ place = "building" /\ todo > 0
    /\ place' = "unwinding" /\ raised' = "opening" /\ failed' = failed \cup {"opening"}
    /\ UNCHANGED <<life, layers, op, todo, written>>

Built ==
    /\ place = "building" /\ todo = 0
    /\ place' = "open"
    /\ UNCHANGED <<life, layers, op, todo, raised, failed, written>>

-----------------------------------------------------------------------------
\* Using a stream and closing it.

\* The stream is read to its end or fails: by read(), by materialize(), by the
\* with block of the caller, by the destination's write_from_stream. A gzip
\* encoder that read it all closes it when it is finalized.
Use ==
    /\ place = "open"
    /\ \/ /\ raised' = "none" /\ failed' = failed
          /\ place' = IF op = "encode" THEN "finalizing" ELSE "closing"
          /\ written' = IF op \in Copies THEN "whole" ELSE "no"
       \/ /\ raised' = "use" /\ failed' = failed \cup {"use"}
          /\ place' = "closing"
          /\ written' \in IF op \in Copies THEN {"no", "partly"} ELSE {"no"}
    /\ UNCHANGED <<life, layers, op, todo>>

\* Mutant of Needed: every entry of the stack is closed.
NeededAnyway(l) == TRUE

\* Only what an earlier close left open is closed (_close_if_open).
Needed(l) == l \in open

\* Which layers the close of l closes: a greedy one takes the next along.
Closed(l) == {l} \cup (IF l \in greedy THEN {l - 1} \cap open ELSE {})

\* Mutant of TopEntry: the first callback first.
TopEntryFirst(s) == s[1]

\* ExitStack pops its last callback.
TopEntry(s) == s[Len(s)]

Rest(s) == SubSeq(s, 1, Len(s) - 1)

\* Mutant of Replaced: an unwinding raises the failure of its own cleanup.
ReplacedAlways(e) == e

\* A later failure replaces an earlier one, but while a failed open is unwound
\* and while an encoder is finalized the failures of close() are dropped.
Replaced(e) == IF place = "closing" THEN e ELSE raised

\* What a failed close() leaves: the backends' readers mark themselves closed
\* in any case, a layer of another library need not.
StaysOpen(l) == IF l = 0 THEN {{}} ELSE {{}, {l}}

CloseLayer ==
    /\ place \in {"unwinding", "closing", "finalizing"} /\ stack # <<>>
    /\ LET l == TopEntry(stack) IN
       /\ stack' = Rest(stack)
       /\ IF Needed(l)
          THEN /\ closes' = [m \in Layer |-> IF m \in Closed(l) THEN closes[m] + 1 ELSE closes[m]]
               /\ \/ open' = open \ Closed(l) /\ UNCHANGED <<raised, failed>>
                  \/ /\ \E s \in StaysOpen(l) : open' = (open \ Closed(l)) \cup s
                     /\ raised' = Replaced("close")
                     /\ failed' = failed \cup
                          {IF place = "finalizing" THEN "finalizer" ELSE "close"}
          ELSE UNCHANGED <<open, closes, raised, failed>>
    /\ UNCHANGED <<life, op, place, todo, top, greedy, written>>

\* The last callback has run; the facade marks the stream closed and returns or
\* raises. The close() that copy_between makes after an encoder is a no-op.
Finish ==
    /\ place \in {"unwinding", "closing", "finalizing"} /\ stack = <<>>
    /\ place' = "idle"
    /\ UNCHANGED <<life, layers, op, todo, raised, failed, written>>

Read ==
    \/ \E k \in Reads : Begin(k)
    \/ OpenFails \/ OpenSource \/ OpenRanged
    \/ AddLayer \/ UnwrapRaises \/ Built
    \/ Use \/ CloseLayer \/ Finish

Next == (\E f \in Facades : Life(f)) \/ Read

Spec == Init /\ [][Next]_vars

-----------------------------------------------------------------------------
TypeOK ==
    /\ stage \in [Facades -> {"absent", "making", "failing", "ready", "dead"}]
    /\ closed \in [Facades -> BOOLEAN]
    /\ conn \in [Facades -> {"none", "made", "live"}]
    /\ cuts \in [Facades -> 0..1]
    /\ op \in Reads
    /\ place \in {"idle", "opening", "building", "open", "unwinding", "closing", "finalizing"}
    /\ todo \in 0..MaxTransforms
    /\ top \in {-1} \cup Layer
    /\ greedy \subseteq Layer /\ open \subseteq Layer
    /\ closes \in [Layer -> Nat]
    /\ stack \in Seq(Layer)
    /\ raised \in {"none", "opening", "use", "close"}
    /\ failed \subseteq {"opening", "use", "close", "finalizer"}
    /\ written \in {"no", "partly", "whole"}

\* A layer is closed once, after all the layers above it, also if one of them
\* closed it or failed to close; when the read is over, however it ended,
\* close() was tried on every layer it had built.
ClosedOnceFromTheTop ==
    /\ place = "idle" => \A l \in 0..top : closes[l] > 0
    /\ \A l \in Layer :
        /\ closes[l] <= 1
        /\ closes[l] > 0 => \A m \in Layer : l < m /\ m <= top => closes[m] > 0

\* What the caller is told is true: no error means that nothing failed, but for
\* the closes an encoder's finalizer makes, and that a copy is whole; the error
\* of a failed open is not hidden by one of its cleanup. (A ranged open is left
\* out: there read_stream lets a failing on_close replace the error.)
OutcomeIsTrue ==
    place = "idle" =>
        /\ raised = "none" => failed \subseteq {"finalizer"}
        /\ raised = "none" /\ op \in Copies /\ top >= 0 => written = "whole"
        /\ "opening" \in failed /\ op # "random" => raised = "opening"

\* A connection is held only by a facade that can still be closed and is
\* disconnected once, whether the constructor fails, and at what step, or
\* close() is called, and however often.
ConnectionHasOwner ==
    \A f \in Facades :
        /\ conn[f] # "none" => ~closed[f] /\ stage[f] \in {"making", "failing", "ready"}
        /\ cuts[f] <= 1
=============================================================================
