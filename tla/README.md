# A TLA+ verification of mountainash-transport

This directory holds TLA+ models of `src/mountainash_transport`, the TLC
configurations that check them on small instances, and theorems about them
checked by TLAPS. Paths below are relative to `src/mountainash_transport/`
unless they start with `docs-site/`.

- [1. The system](#1-the-system): components, state, interactions, what is hard
- [2. The modules](#2-the-modules): how state and actions correspond to the code
- [3. The runs](#3-the-runs): what each shows, its bounds, its fairness
- [4. The proofs](#4-the-proofs): theorems, invariants, assumptions
- [5. Findings](#5-findings)
- [6. What is not covered](#6-what-is-not-covered)
- [7. The plan](#7-the-plan)

How to run a check and a proof:

    tlc -config ForwarderSafety.cfg MCTunnelForwarder.tla
    tlapm TunnelForwarderProofs.tla

## 1. The system

mountainash-transport reads and writes files on local disk, S3, SFTP and HTTP
through one facade. The package is a library: its threads are the caller's,
except those of the SSH tunnel.

| Component | State it keeps | Operations that change it | What makes it correct |
|---|---|---|---|
| **Tunnel forwarder** `connections/tunnel.py` `_Forwarder`, `_ForwardHandler` | stop event, listener, registry of accepted sockets and worker threads, snapshot of workers, first cleanup error | construct, `request_stop`, `wait_stopped` (owner); accept, register, reject (serving thread); open channel, relay, close (workers) | a stop reported as complete leaves no thread, socket or channel; a stop always ends; failures are not lost; a timeout is reported only if there was one |
| **Byte relay** `_ForwardHandler.handle` | one chunk, the two streams | select, recv, send in both directions | each direction is forwarded in order without a gap |
| **Tunnelled connection** `TunnelledConnection` | `_inner`, `_forwarder`, the bastion's `_ssh` | `connect`, `disconnect`, `_teardown` | nothing leaks whatever fails; repeated calls are safe; the error that matters is the one raised |
| **Connections** `connections/{ssh,sftp,s3,http,null}.py` | one SDK client each; SFTP owns its SSH connection | `connect`, `disconnect` | the same, for a stack of two |
| **HTTP engine** `_core/http/engine.py`, `policy.py` | per call: attempt counter, refresh flag, open response, headers | `request`, `stream`, redirects | bounded attempts, no blind repeat of an unsafe request, one refresh, no response left open |
| **Auth strategy** `connections/auth_strategy.py` | a lock around an `OAuth2TokenManager` | `get_headers`, `refresh` | threads that share it do not undo each other's refresh |
| **Connection factory** `connections/__init__.py` | none | `create_connection` | a resolved profile is one its connection accepts; misconfiguration is found before anything is open |
| **Facade** `storage/facade/facade.py` | connection, backend, `_closed` | construct, `close`, `read_stream`, writes, copies | closes its connection once; refuses work after close; streams it returned belong to the caller |
| **Copy** `storage/facade/cross_backend.py` | none | `copy_between` | the source stream is closed however the write ends; the destination's policy decides |
| **Ranged reads** `_core/ranged_io.py` and the backends' `open_ranged` | position, cache, pinned ETag | `seek`, `read`, `close` | bytes of one version of the object, at the right offsets |
| **Sequential readers** `_core/sequential_io.py`, `_core/stream_errors.py` | pending chunk, closed flag | `readinto`, `close` | no byte lost or repeated; the caller's own error comes back |
| **Transforms** `_core/transforms/` | stack of layers, codec state | `apply_read`, `apply_write`, `close` | layers closed last-in first-out, each once, although one raises; a read undoes a write |
| **Backends** `storage/backends/` | the remote store | one SDK call per operation; SFTP `mkdir` and the listings are loops | races with other clients are told from failures; the same failure is the same error; the same tree the same listing |
| **Location policy** `location.py` | none | confinement checks | nothing outside the root or the allowed hosts is named |
| **Path helpers** `storage/path_helpers/` | none | suffix inference, joins | the inferred pipeline undoes the suffixes |
| **Settings** `settings/storage/` | the configuration | `resolve_storage`, `to_handler_kwargs` | only the documented errors; no secret in an error |
| **Registry, schemes, extras** | tables filled at import | look-ups | declarative |

How they interact: the facade creates a connection and an auth strategy, opens
the connection and hands both to a backend. The HTTP backend makes an engine
around the connection's client; the engine calls the strategy (before a call
and after a 401) and calls back into the facade's location check before every
hop of a redirect. `create_tunnelled_connection` puts a `TunnelledConnection`
around an inner connection; its forwarder shares the paramiko transport of the
bastion's `SSHConnection` with the worker threads. The lock in `_Forwarder`
guards its registry and its first error; everything else the threads exchange
goes through an event, socket closes and `Thread.ident`/`is_alive`.

The hard behaviours are therefore: the interleavings of the forwarder's three
kinds of thread during a stop; sends that block for ever and the one-second
budget; teardown in which any step raises; the engine's budget with a refresh
that does not count, retries of requests the server may have acted on, and
responses that must be closed on every path; stacks of streams that are half
built when a layer raises, or whose closes raise; an object replaced between two
ranges; directories that other clients make and remove meanwhile; and decisions
with many cases whose wrong answer nobody notices: where a path with links
leads, which of two policies applies to a copy, in which order layers are taken
off, what a failure is called, what an error message shows. `PROJECT.json` lists
each hazard at its line with the properties that cover it.

## 2. The modules

    TunnelForwarder ──implements──> TunnelContract
      └ TunnelForwarderProofs  └ MCTunnelForwarder (TLC)
    TunnelRelay ── TunnelRelayProofs     (one worker's loop, with bytes)
    TunnelledConnection ── TunnelledConnectionProofs
    HttpEngine ── HttpEngineProofs ── MCHttpEngine (TLC)

    StorageStreams ┐                          machines, composed by
    SequentialRead ├── StorageProofs ──────┐  MCStorage (TLC)
    RangedRead     │                       │
    SftpTree       ┘                       │
    StorageDecisions ── MCDecisions (TLC) ─┘  pure decisions: the five modules
      ├ LocationPolicy ─┐                     below compute what the code does,
      ├ Listings ───────┴ FileSystem          StorageDecisions what it should
      ├ TransformOrder, ErrorMapping
      ├ ProfileSettings ── MCProfileSettings (TLC)
      └ DecisionProofs ── ConfinementProofs ── ListingProofs

An operator whose comment starts with "Mutant" is a plausible bug in the
operator after it. No specification uses it; it is there so that each property
can be shown to fail on wrong code (the pairs are in `PROJECT.json`).

### TunnelForwarder (`connections/tunnel.py` 24-57, 60-182)

One action is one section under the lock or one call that another thread can
observe. The owner's control (`ownerPc`) goes from the constructor to
`request_stop` (`OwnerRequestStop`: event and snapshot in one locked section,
then `OwnerCloseListener`, `OwnerCloseSocket` for each socket of the snapshot),
to the SSH disconnect `_teardown` makes in between, to `wait_stopped`
(`OwnerJoinServe`, `OwnerJoinWorker`, `OwnerReport`). The serving thread
(`servePc`) polls, accepts, and registers or rejects under the lock. A worker
(`workerPc`) tests the stop event where the code does, opens a channel, relays,
and closes its channel and socket on its way out.

- `sock[r]` is the server side of connection `r`: `pending` in the accept queue,
  `open` once accepted, `refused` when the closing listener resets it.
- `Started(r)` is `thread.ident is not None`; `failed` is a worker whose
  `start()` raised, `new` one that is registered and not started.
- `expired` is the shared deadline: a join of a live thread returns only when it
  is set. A join of a thread that ended returns at once.
- A close may fail (`MayFail`); the failure sets `cleanupError`.
- A send on the channel or the socket may block for ever; `Cut` says what ends
  it (the transport going down, the socket being closed).

### TunnelContract

What the forwarder promises its owner, with no threads: connections are
admitted before the stop and never after it; a served connection ends; a report
other than a timeout says that none is served any more; a clean report that no
release failed. `ImplementsContract` maps `registry` to the served connections
and the owner's control to the contract's phase.

### TunnelRelay (`connections/tunnel.py` 36-52)

The bytes of each direction are numbered, so a stream is a sequence of numbers.
`window` is the SSH window. `SendChan` takes what fits in the window and
drops the rest, as `Channel.send` with its result ignored does; `RecvSock`,
`RecvChan`, `SendSock` and `TestClosed` follow the loop line by line, with its
one shared `data`. The local socket is a blocking one, whose `send` takes the
whole chunk. The stop event at the head of the loop is TunnelForwarder's.

### TunnelledConnection (`tunnel.py` 222-308, `ssh.py` 31-88, `sftp.py` 23-63)

One caller makes any sequence of `connect` and `disconnect` calls on a tunnel
whose inner connection is an `SFTPConnection`. `held` are the attributes that
are set (`_ssh._client`, `_forwarder`, `_inner._ssh._client`, `_inner._sftp`),
`live` counts for each the objects made and not yet told to close, so that
a leak and a double close both show. `Teardown` takes the attributes over and
lists the actions (`Wanted`, in the order `Place`); `Run` runs the next of them
and combines its error (`Combined`: the first, unless a later one is a timeout).
`connect` is `Connect`, the teardown, `TornDownBefore`, `ReuseSsh` or `DialSsh`,
`BindForwarder`, `ConnectInner`; each step has its failure, which leads through
`Fail` to the cleanup and to `TornDownAfter`, which raises the primary error.
The forwarder is one object here: its threads are TunnelForwarder's, and
`wait_stopped` succeeds, fails or times out.

### HttpEngine (`_core/http/engine.py` 318-564, `policy.py` 65-72)

One call of `request()` or `stream()`: `call` holds the policy and what the
engine asks about the method and the body. `BeginTry` is the head of the loop;
`Send`, `Redirect`, `Challenge`, `Answer` and the transport failures are
`_send_with_redirects`; `judge` is the code after it. The server, the strategy
and the location check may do anything at each step. `request()` has read and
closed its response by the time it judges it; `stream()` holds it open. The
differences between the two are in the actions where they occur: the flag set
before or after `refresh()`, a refresh denied that raises or goes on to judge the status,
3xx looked at before the retryable statuses. Bodies, URLs, header values and
the jitter's distribution are abstracted: `refused` says that the server
answered 401 to the headers in use, `acted` that it may have acted on a
request, `pause` is what `time.sleep` is called with.

### StorageStreams (`facade.py`, `cross_backend.py`, `pipeline.py`, `_stream_encoder.py`)

A source facade, a destination facade and one read at a time. `Life` is a
facade: `Construct`, `Connect`, `Constructed` or `ConstructFails` (the
constructor's `except` clause, which closes), and `Close`, which gives the
connection up before it disconnects. `Begin` starts a read of one kind:
`read()`, `read_stream()` in its three access modes, or `copy_between()` without
and with a gzip encoder, which owns the stream it compresses. `OpenSource`,
`AddLayer` and `Built` are `read_stream` and `apply_read`: `unwrap()` returns a
stream of its own, which may be *greedy* (it closes the stream under it), or one
there already is, or raises (`UnwrapRaises`). `CloseLayer` pops one callback of
the `ExitStack`s and closes what is still open; whether its failure replaces the
error that is already on its way is `Replaced`. `failed` and `closes` are
history: they record what really happened, to be compared with what the caller is told.

### SequentialRead (`sequential_io.py`, `_stream_encoder.py`, `compression.py`)

One reader from its first read to its end: a sized native read, an iterator of
chunks (`IterBytesReader`, whose chunks may be empty), the gzip encoder
(header, bytes the compressor holds back as long as it likes, flush, trailer)
and the gzip decoder with a limit. Bytes are numbered; a gzip stream is
the bytes it stands for, between two marks.

### RangedRead (`ranged_io.py`, `open_ranged` of S3, HTTP and SFTP)

A reader over an object that others replace with a longer or shorter one. A byte
is represented by the version it belongs to. `Answer` is what the server's
answer to a range makes of it: `If-Match` for a strong ETag, the comparison of
`Content-Range` for HTTP, the count of bytes for all. The cache is fsspec's: it
may read ahead (`Fetch` takes more than is missing) and forget (`Evict`).

### SftpTree (`sftp_directory.py`, `sftp_write.py`, `sftp/_helpers.py`)

A path of `Depth` directories on a server that other clients change between any
two requests (`Others`). `mkdir` is the loop of stat, mkdir and, after a generic
failure, another stat; `write` makes the parents first; `list_dir` looks for
the ancestor that is no directory. `modes` is whether the server tells the
type of a file; any request may be refused or lose the connection. `met`
records what was at each place since the call began.

### FileSystem, LocationPolicy, Listings

A file system with links is a function from paths to what is there; `RealPath`
and `Follow` walk it, `Steps` names or links at most (ELOOP). `LocationPolicy`
has `_resolve`, `confine_local`, the second look at a copy's target
(`CopyTarget`), `_check` of remote locations (`Checked`), what each backend makes
of a location (`Contacted`), and the condition of the native copy. `Listings` has
the loops of `list_objects` and `list_dir` of the local, SFTP and S3 backends;
`NoLimit` (99) stands for `max_results=None`.

### TransformOrder, ErrorMapping, ProfileSettings

Bytes are the sequence of layers around the plain text; `Effective` is
`_resolve_pipeline` and `infer_pipeline`. An exception is its class, code, status
and chain; `Mapped` is each backend's table in the order in which it is tried,
`OriginalIn` the search for the caller's own exception through causes and
contexts, as a graph that may have cycles. A block of configuration is the places of its values,
each plain or looked up as a secret; `ResolveStorage` is the loader with what an
error quotes, `Arguments` what each profile emits, `OpenFacade` the rest of the
way to an open backend.

### StorageDecisions, MCDecisions, MCStorage

`StorageDecisions` defines what is expected independently of the code's way of
computing it: a walk by the operating system instead of `_resolve`, the set of
files a listing should hold instead of a loop, the tools that made a file
instead of a table of suffixes. `question` is one input; `MCDecisions` defines
the sets of inputs. In `MCStorage` one behaviour runs one of the four machines while
the others rest, or puts one question; the machines share no state, so nothing
is lost by not interleaving them.

## 3. The runs

| Run | Expects | States | What it shows |
|---|---|---|---|
| `forwarder_safety` | pass | 325,456 | every interleaving of owner, serving thread and three workers: what a stop releases and reports, that the registry takes nothing after the stop, and that the threads implement `TunnelContract` |
| `forwarder_liveness` | pass | 64,612 | a stop ends, even with a hung worker; with the SSH transport gone everything is released, after a timed-out stop too |
| `relay_downstream` | pass | 30,773 | what the remote sends reaches the client in order and without a gap, and upstream traffic does not starve it |
| `relay_upstream` | violation | | a chunk larger than the SSH window loses its end, and later chunks follow (finding 1) |
| `relay_answer` | violation | | a remote that answers and closes has the end of its answer dropped (finding 2) |
| `tunnelled_connection` | pass | 147 | any sequence of connects and disconnects with any failures: no leak, no double close, nothing held after a failure, whole tunnels only, timeouts reported |
| `engine_call` | pass | 171,600 | budget, no blind repeat, responses released, refused headers not sent again, the full budget used, and the call ends |
| `engine_long_wait`, `engine_nan`, `engine_refresh_fails` | violation | | findings 3, 4 and 5 |
| `storage` | pass | 348,618 | the storage layer, below |
| `loader_null_auth` | violation | | an empty `auth:` section ends in an `AttributeError` (finding 6) |

What `storage` shows, property by property:

| Property | Says | Of |
|---|---|---|
| `ClosedOnceFromTheTop` | whatever raises, each layer is closed once, after those above it, and none is left | StorageStreams |
| `OutcomeIsTrue` | no error means nothing failed and a copy is whole; a failed open is not hidden by its cleanup | StorageStreams |
| `ConnectionHasOwner` | a connection has somebody who can still close it, and is disconnected once | StorageStreams |
| `DeliversEverything` | all bytes once and in order; an end only at the end; a limit is exact | SequentialRead |
| `OneVersion` | a pinned reader returns one version, and reports a change only if there was one | RangedRead |
| `RangesExact` | a read returns what the object had or fails; it is never short | RangedRead |
| `MkdirTellsTheTruth` | a lost race is not an error, and an error not a lost race | SftpTree |
| `ConfinedStaysInside` | through links, `..` and missing parts, nothing outside the root is handed on, and nothing inside is refused | LocationPolicy |
| `RemoteNeedsLeave` | a backend turns to a host exactly when a policy or its own profile gives leave; a copy obeys the destination's | LocationPolicy |
| `InferenceUndoesWriting` | an inferred pipeline gives back the plain text, in any order of layers | TransformOrder |
| `ListingsAgree` | three backends list the same tree alike, limits, links and errors included; a limit that is reached first is the only reason not to fail where a listing must | Listings |
| `SameFailureSameError` | one kind of failure is one kind of error in every backend | ErrorMapping |
| `CallerErrorSurvives` | an upload that the caller's stream broke raises the caller's error and no other | ErrorMapping |
| `SecretsStayOut` | no error, nor what is chained to it, shows a secret | ProfileSettings |
| `ResolvedPairConnects` | a pair the loader accepts, the connection accepts; requests are signed as configured | ProfileSettings |

**Bounds.** Nothing is cut off by a state constraint. Three connections are
enough for the forwarder to have one being accepted, one starting and one
relaying at the moment of the stop; the theorems hold for any number, and the
connections are symmetric (only the safety run uses the symmetry). The liveness
run has two. The relay has five bytes each way with chunks and a window of two:
three chunks, the last one shorter, and a window that is full, partly full and
empty when a chunk is sent. The two violating relay instances are the smallest with the
case. The engine runs with 0, 1 and 3 attempts (a policy that allows none, one,
and one with room for two retries and a refresh between them), one redirect,
statuses that stand for each class the code tells apart, waits below and above
`max_retry_after`, and retry sets that are empty, the usual one, and one that
includes 401 and 304. `TriesCap` bounds the history counter `tries` only; it is
larger than any `max_attempts`, and no guard looks at it. TunnelledConnection is
finite without a bound: its `live` counters are proved to be 0 or 1.

For `storage`: pipelines of up to two transforms, so stacks of three with a
greedy layer above, between and below others; the theorem holds for any depth.
Five bytes with chunks and reads of up to three, so that a chunk is empty,
short, exactly a read, and longer than one, and limits from 0 to past the end.
Objects of up to three bytes, replaced once: the smallest with a range before
and one after it, a shorter and a longer successor. Paths of three directories:
a first, a middle and a last one. Path questions have every assignment of links
(up, down, absolute, outside, dangling, circular) to two names below the root
and one below a directory, and paths of up to three names through them; `Steps`
is larger than any walk that ends. The trees to list have up to three levels
below the prefix, with links at the first two that lead to a file, a directory,
nothing or themselves, and are listed with no limit and with 0, 1 and 2. Names
have up to three suffixes, pipelines two layers, exceptions are three with every
cause and context. Of codes, statuses and parameters that the code treats alike
there is one of each kind.

**Deadlock** is checked for the forwarder (whose only resting states are those
of `AtRest`) and for TunnelledConnection. An engine call and a relay end, so
their configurations switch it off; that they end where they should is said by
`CallEnds` and by the relay's properties. A sequential read that was told its
end, a ranged read at its end and a question that was answered stop too.

**Fairness.** The storage layer's properties are safety properties, of a caller
that runs alone and may stop anywhere; they need none. Forwarder: weak fairness for the serving thread, for each
worker's runnable steps (`WorkerGoesOn` leaves out an `open_channel` or a send
that nothing cuts short, which may block for ever), and for the owner once it
has begun to construct or to stop; nobody is obliged to stop, and clients and the loss of the
transport are unfair. The threads never wait for a lock held across a blocking
call, so an operating system that schedules runnable threads is all this asks
for. Relay: the handler runs, and the remote reads what it is sent; with a
remote that never reads, both directions may stall behind one send, which is
how the code is. Engine: the calling thread runs, a send is answered or times
out (the engine always sets a timeout), `refresh()` returns and the caller of
`stream()` leaves its `with` block.

## 4. The proofs

Of each state machine the proofs state an inductive invariant as a conjunction
of named parts, prove that `Init` implies it and that it is kept, with one step
per action, and derive the properties. Each invariant was checked by TLC on the
instances above before it was proved; the runs keep only the properties. The
assumptions on the constants are the named `ASSUME`s of the modules: sizes,
bounds and depths are natural numbers, some of them not zero.

**TunnelForwarderProofs**, for any set of connections. `CleanStopReleasesAll`
is far from inductive: it speaks of the end of a stop that took a snapshot long
before. `IInv` adds what the threads agree on in between: the owner's progress
determines the stop event and the listener (`OwnerInv`); the serving thread holds
a connection exactly at certain places (`ServingInv`); registration, the
worker's control and the socket go together (`WorkerInv`); after the stop every
registered connection is in the snapshot, because registration looks at the
event under the lock (`SnapshotInv`); and as long as no join found a live
thread, what is still registered is still to be joined, and the serving thread
is gone (`JoinInv`). The last two carry the argument: a clean report is true of every
worker, although only those of the snapshot were joined. Theorems: `TypeCorrect`,
`CleanStop`, `CleanReport`, `OpenSockets`, `Timeouts`, `Serving`,
`NoLateRegistration` and `Refinement` (every step of a thread is a step or a stutter of
`TunnelContract`, by cases on who moves).

**HttpEngineProofs**, for any attempts, redirect limit, waits and retry sets.
`CounterInv` ties the history counter `tries` to the code's `attempt` and the
refresh that takes one off; `RefreshInv` says that the refresh happens once;
`AnswerInv` says who may hold a response and what the last status says once a
request may have been acted on or its headers refused. Theorems: `TypeCorrect`,
`BoundedTries`, `NeverBlind`, `Released`, `RefusedNotResent`, `FullBudget`.

**TunnelledConnectionProofs**, for any number of calls. `LiveIsOwned` says that
at every moment, inside an operation too, each live object has one owner: the attribute that
holds it or, for a forwarder the teardown has taken over, the wait still to be
made. `HeldByPlace` says what is set at each place, `StopIsFirst` and
`TimeoutIsKept` carry the order and the error. Theorems: `TypeCorrect`,
`NoLeak`, `Outcome`, `Whole`, `Waiting`, `TimeoutReported`.

**TunnelRelayProofs**, for any sizes of the streams, of a chunk and of the
window. `DownInv` says where the bytes are that the handler has received: at the
client, or, between the recv and the send, partly in `data`. That what a send
adds continues what the client has is the lemma `StretchesJoin`. Theorem:
`DownstreamInOrder`.

**StorageProofs** has an induction for each of the four storage machines.

- *StorageStreams* (`StreamIInv`), for pipelines of any length.
  `ClosedOnceFromTheTop` speaks of the end of a cleanup; `StackInv` says that
  what is left on the `ExitStack`s at any moment is the lowest layers in their
  order, and `CloseInv` that all above are closed once, all below are open, and
  the topmost one left may have been closed by a greedy layer. `FacadeInv` ties
  the connection to the facade's stage, `ErrorInv` what was raised to what has
  failed, place by place. Theorems: `StreamTypes`, `LayersClosed`,
  `TrueOutcome`, `OwnedConnection`.
- *SequentialRead* (`ReadIInv`), for streams, chunks, reads and limits of any
  size. What was returned, what is pending, what the compressor holds and what
  the source has still to give are one run of consecutive bytes (`IsRun`), cut in
  different places by each action. The lemmas say how runs are joined, split and
  compared. Theorem: `EverythingDelivered`.
- *RangedRead* (`RangeIInv`), for objects of any size, replaced any number of
  times. `VersionInv` extends the property from the bytes returned to those in
  the cache, which outlive a read; `RangeReadInv` says that of a running read
  each byte is cached or missing. Theorems: `RangeTypes`, `PinnedRead`,
  `ExactRead`.
- *SftpTree* (`TreeIInv`), for paths of any depth and any number of other
  clients. `WayInv` is the argument: the parent of the place a call has come to
  is a directory unless somebody removed one, and a failure that is being looked
  into has one of the causes that the property admits. Theorems: `TreeTypes`,
  `MkdirIsTruthful`.

The last three modules are about `StorageDecisions`. Its properties are put to a
question that does not change, so a theorem is: a question of the right shape
stays one, and of every such question the property holds. The shapes
(`IsPathQuestion`, `IsUpload`, `IsFailure`, `IsHostQuestion`, ...) only say what
the code can be asked, for any strings, sets and lengths; every question that
MCDecisions enumerates has one of them, but for the 551 of its 9280 path
questions in which links form a loop.

**DecisionProofs**, first part. Names, pipelines and chains of exceptions are
recursive, and an induction theorem with an operator as its parameter cannot be
instantiated here. It is done by hand: `LeastBy` gives the least input of which
a set of inputs fails (from the well-foundedness of the naturals), and
`LinearRecursion` and `TailRecursion` build the solution of a recursive equation
along a measure that descends, without which the equation of a recursive
function cannot be used at all. On these rest the equations of the folds
(`ReadFold`, `WriteFold`, `MadeFold`) and of the search. `ReadsWhatWasWritten`,
for names with any number of suffixes and pipelines of any length, goes along
the suffixes from the first that stands for a tool: what was made so far is what
the pipeline inferred so far takes off. `CallersErrorSurvives`, for any finite
graph of causes and contexts, has the invariant `Sound` of the search (the links
of what was seen lead to what was seen or is pending) and the measure `Left`,
which counts an exception that was not seen three times, as it may put two on
the stack.

**DecisionProofs**, second part. `FailuresAreAlike`, for exceptions of any code,
status and chain: a table of classes is the chain of its rows (`FirstRow`), and
the shapes `LocalFailure` to `HttpFailure` say which exceptions of a library
stand for which kind of failure. `RemoteGoesWithLeave`, for any policies, hosts
and facades; of two facades that share a profile object it assumes that the
profile is for one provider and one host. `SecretsStayHidden` assumes nothing: a
quotation contains, or lies in, the place of an error, and a refusal that meets
a secret there quotes nothing. `ResolvedPairsConnect`, for any block, profile
and credentials, follows the mode from the block to the signature.

**ConfinementProofs**, for every file system with links, every root and path.
`Canon` are the paths without links and dots: a walk always stands at one
(`DirsCanon`), and one is walked straight to itself (`Straight`), which is why
resolving twice is resolving once. `LastStep` says where a path ends from where
its parent ends, by cases on its last name; with it `FoundOfAll` goes through a
path name by name: what `_resolve` returns is `realpath` of the path, and it
refuses no path along which the kernel arrives. `ConfinedPathsStayInside` follows
for the path, the copy's target and what is written there. It assumes, beside a
tree (what exists has a directory above it), two things. `Settled`: no
resolution meets more than `Steps` names and links; past that the model's walk
stops midway. `LinksLeadAlike`: a link that `realpath` resolves to a directory
can be followed by the kernel. Without it `FoundOfNext`, and the property, are
false: see the first observation in section 5.

**ListingProofs**, for every finite file system with links, any prefix, grouping
and limit. The expected listing (`Listed`, `Groups`, `MustFail`) is a set of
paths without a bound on their depth: what is below the place a prefix leads to,
seen from the prefix. The argument has four parts.

- *What the kernel says.* `Further` says where one more name leads, `StatsAlong`
  what `stat` says of the beginnings of a path: a fault stays, and below a file
  there are faults only. From it follow what a look upward finds
  (`Diagnosed`), and that a child of a directory reached through any link has the
  kind of what is really there (`EachChild`).
- *The loops.* Both backends add a child alike (`EnterIs`), although one stats
  every child and the other lists types and stats links. The invariant is `Stage`,
  after each child: the listing failed on a loop, or it is full, or it lists each file
  and group of the children gone through once (`Lists`) and has the directories among
  them done or pending, each once (`Waits`). A round does one directory more
  (`RoundStep`) and there are not more of them than paths, so that at the last
  round nothing is pending (`AtLastOver`); then every child was gone through
  (`AllGone`).
- *The answer.* A full listing is as long as the limit, a complete one as long as
  the set it lists (`CutListing`, `FullListing`).
- *S3 and `list_dir`*, over files and directories: such a tree is walked straight
  (`LeadsToItself`), the keys under the prefix are the files to list
  (`SelectedAreListed`), a common prefix is a directory with a file below it
  (`GroupedAreFilled`), and the limit takes the objects first (`CutBoth`).

`ListingsAgreeForEveryTree` assumes of a question (`Asked`) that what exists has a
directory above it, that no name is a dot, that the tree is finite, and
`Reachable`: of what is below the prefix only a link may take more than `Steps`
names and links; past that the model's walk stops midway, where a kernel would go
on. All 4368 listing questions of MCDecisions are such.

Only model-checked: liveness (`StopEnds`, `StopDrains`, `DownstreamAdvances`,
`CallEnds`), which needs fairness and `ENABLED`. Every other property of a passing
run is stated by a theorem.

## 5. Findings

1. `connections/tunnel.py:43` ignores the count `Channel.send` returns: when the
   SSH window is smaller than the chunk, bytes are lost in the middle of the
   stream (`relay_upstream`).
2. `connections/tunnel.py:49` ends the loop on `channel.closed` although the
   channel still buffers received bytes: the end of an answer is dropped
   (`relay_answer`).
3. `policy.py:62` says a request with a longer `Retry-After` is not retried;
   the engine caps the wait and retries (`engine_long_wait`). A test and
   chapter 12 of the docs side with the code.
4. `Retry-After: nan` passes through `max` and `min` into `time.sleep`, which
   raises `ValueError` out of the engine (`engine_nan`).
5. A `refresh()` that raises is passed on as it is, where chapter 12 promises
   `HttpAuthenticationError` (`engine_refresh_fails`). The package's own strategy
   never returns `False`: all its failures raise.

6. `settings/storage/loader.py:281`: an empty `auth:` is `None`, its reference
   shape `False`, and `False.get` raises `AttributeError` when the default mode's
   parameters do not validate, where the docstring (204-209) promises
   `ProfileResolutionError` (`loader_null_auth`).

Observed, and not counted as findings:

- `_resolve` (`location.py:110-120`) asks the kernel whether a path exists and
  `realpath` where it leads. They disagree on a link to `missing/../d`: `realpath`
  finds `d`, the kernel nothing. A name below such a link is then added to `d`
  as it is, also if it is a link in `d`, so the path handed on is not resolved and
  `ConfinedStaysInside` does not hold. The proof that failed here led to it; the
  theorem leaves such links out (`LinksLeadAlike`), and the trees of
  `MCDecisions` have none.
- `is_connected` says only that a client is held. After the bastion is lost, the
  first `connect()` uses the dead session again and fails; its cleanup drops the
  session (`EndsEmpty`), so the next one dials anew.
- A failing `on_close` replaces the error of a failed `open_ranged`
  (`facade.py:402-405`, and SFTP's `open_ranged`), other than in the sequential
  modes; `OutcomeIsTrue` leaves `random` out of its last part.
- A failing `close()` in `copy_between`'s `finally` replaces the write's error,
  as Python chains it; the failures of the closes that a gzip encoder's
  finalizer makes are swallowed (`failed` has them as `finalizer`).
- `IterBytesReader` over the generator of an HTTP read: after a chunk raised, a
  further read gives an ordinary end. The model's reader is not read again.
- An S3 URL is parsed by `urlsplit`, a bare `bucket/key` by its first slash.
- A copy between two facades that hold the *same* profile object as different
  S3 providers would be decided by the source's policy name alone; the questions
  of `CopyQuestions` leave it out, as a profile is of one provider.
- `rmdir` of the local backend removes a directory with its contents, that of
  SFTP an empty one only.
- S3's `list_objects` with a negative limit slices its result. SFTP's `list_dir`
  calls links files, the local one resolves them; `ListingsAgree` compares
  `list_dir` where there are no links.
- A path below a link that leads through a file is an error locally and an empty
  listing over SFTP, whose server says NO_SUCH_FILE (`BelowFile`).
- The providers without a backend (Azure, GCS, FTP, SMB, GitHub) get an
  `HTTPConnection`, which refuses their arguments, or, with none, a facade
  that finds no backend; either way an error before any request, as
  `docs-site/` has it. `ResolvedPairConnects` checks that.
- A facade without a profile for S3, SFTP or local ignores `oauth_provider`.
- The messages for an unknown provider or mode quote the value itself
  (`loader.py:227`, `252`).

## 6. What is not covered

Within the modelled parts:

- exceptions that are not `Exception` from `worker.start()` (they would end
  `_serve`), and a `KeyboardInterrupt` between two statements of `connect`;
- the moment in which `Thread.ident` is set and the thread has not run yet:
  `join` waits for it as for a running one;
- headers merged once per call (`engine.py:363`), and threads that share an auth
  strategy: whether a renewal leaves a token in use valid is decided by
  `OAuth2TokenManager` of mountainash-auth-client, which is not in the repository;
  a model of it would show its own assumptions. HttpEngine takes a strategy that
  may answer anything, which includes what other threads do to it;
- a POST that a 303 redirect answered and that a 429 on the following GET makes
  the engine send again: `acted` does not count what happened before a redirect;
- `backoff_base * 2 ** (attempt - 1)` in floating point, which overflows only
  after about a thousand attempts;
- an inner connection that is not SFTP: the others hold one client, a simpler
  case of the same code path; and an SFTPConnection that reconnects on its own;
- facade operations that check the path and delegate with no state of their own
  (write, list, delete, metadata): their check is `Checked` and `Confine`, their
  call the backend's; and the making of a declared root (`CREATE_PATH`);
- a file system that changes while a path is resolved. The code resolves, then
  opens by name, and nothing it says of the policy speaks of a tree that others
  change meanwhile; the model's stands still;
- `_check_tree` and `tree=True` of `location.py`, which nothing in `src/` calls;
- backend operations of a single request (delete, copy and metadata other than
  existence), and the GPG processes: a GPG layer is one that inverts;
- validators of single settings (a port, a host name): a parameter is valid or not.

Not modelled at all: response value classes, redaction, extras and the package
façade. They are declarative, or string handling without state.

## 7. The plan

Done: the tunnel, the engine, the connections under a tunnel, and the storage
layer with its decisions. What is left, in order of importance:

1. Larger questions for `StorageDecisions` where a case needs them, and the
   writes of the facade as actions beside its reads (a write that fails halfway in
   `write_from_stream`, `CREATE_PATH`).
2. Proofs: that TunnelledConnection's abstraction of `wait_stopped` is
   TunnelContract's.
3. A refinement for RangedRead and SequentialRead: both as an abstract file of
   fixed contents with a position, which a reader implements until it raises.
4. `SFTPConnection` and `SSHConnection` on their own, with reconnects that keep
   the SSH session.
