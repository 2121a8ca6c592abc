-------------------------- MODULE TunnelForwarder --------------------------
(***************************************************************************)
(* The local end of an SSH tunnel: class _Forwarder and its handler in     *)
(* connections/tunnel.py.  Three kinds of thread share one object: the     *)
(* owner constructs it, calls request_stop and then wait_stopped; the      *)
(* serving thread accepts sockets and starts a worker for each; a worker   *)
(* opens an SSH channel and relays.  An action is one lock-protected       *)
(* section or one call another thread can see.                             *)
(***************************************************************************)
EXTENDS Naturals, FiniteSets

CONSTANTS
    Requests,    \* the inbound TCP connections that local clients may make
    NoRequest    \* the serving thread holds no accepted socket

ASSUME RequestsAssumption == NoRequest \notin Requests

VARIABLES
    stop,          \* the _stop event
    listener,      \* the listening socket: "open" or "closed"
    registry,      \* keys of _requests
    sock,          \* each connection as the server side sees it
    chan,          \* its direct-tcpip channel
    transport,     \* the SSH transport the channels run over: "up" or "down"
    cleanupError,  \* _cleanup_error is set
    servePc,       \* control of the serving thread
    serving,       \* the accepted socket the serving thread holds
    workerPc,      \* control of each worker thread
    ownerPc,       \* control of the owner
    toClose,       \* request_stop's snapshot of sockets, those still to close
    unjoined,      \* _workers_at_stop, those wait_stopped has still to look at
    remaining,     \* wait_stopped found a live thread after its join
    expired        \* wait_stopped's one-second budget is used up

serveVars == <<servePc, serving>>
ownerVars == <<ownerPc, toClose, unjoined, remaining, expired>>
vars == <<stop, listener, registry, sock, chan, transport, cleanupError,
          serveVars, workerPc, ownerVars>>

Terminal == {"clean", "failed", "timedOut", "aborted"}
Waiting  == {"joinServe", "joinWorkers"}

TypeOK ==
    /\ stop \in BOOLEAN
    /\ listener \in {"open", "closed"}
    /\ registry \in SUBSET Requests
    /\ sock \in [Requests -> {"none", "pending", "refused", "open", "closed"}]
    /\ chan \in [Requests -> {"none", "open", "closed"}]
    /\ transport \in {"up", "down"}
    /\ cleanupError \in BOOLEAN
    /\ servePc \in {"unstarted", "check", "waiting", "accepted", "reject",
                    "starting", "unregister", "dead"}
    /\ serving \in Requests \cup {NoRequest}
    /\ workerPc \in [Requests -> {"none", "new", "failed", "begin", "handle",
                        "opening", "loop", "select", "sendUp", "sendDown",
                        "chanClose", "closing", "unlink", "dead"}]
    /\ ownerPc \in {"ctor", "running", "closeListener", "closeSockets",
                    "stopRequested", "sshClosed"} \cup Waiting \cup Terminal
    /\ toClose \in SUBSET Requests
    /\ unjoined \in SUBSET Requests
    /\ remaining \in BOOLEAN
    /\ expired \in BOOLEAN

\* The server socket is bound and listening; the serving thread is not started.
Init ==
    /\ stop = FALSE /\ listener = "open" /\ registry = {}
    /\ sock = [r \in Requests |-> "none"]
    /\ chan = [r \in Requests |-> "none"]
    /\ transport = "up" /\ cleanupError = FALSE
    /\ servePc = "unstarted" /\ serving = NoRequest
    /\ workerPc = [r \in Requests |-> "none"]
    /\ ownerPc = "ctor" /\ toClose = {} /\ unjoined = {}
    /\ remaining = FALSE /\ expired = FALSE

ServeAlive == servePc \notin {"unstarted", "dead"}
Started(r) == workerPc[r] \notin {"none", "new", "failed"}    \* ident is set
WorkerAlive(r) == Started(r) /\ workerPc[r] # "dead"

\* A close that may fail: the first failure is recorded.
MayFail == cleanupError' \in {cleanupError, TRUE}

\* _close_socket: shutting down a closed socket is EBADF, which is ignored.
CloseSocket(r) ==
    /\ sock' = [sock EXCEPT ![r] = "closed"]
    /\ IF sock[r] = "open" THEN MayFail ELSE UNCHANGED cleanupError

----------------------------------------------------------------------------
(* The environment: local clients and the SSH server. *)

ClientConnect(r) ==
    /\ sock[r] = "none" /\ listener = "open"
    /\ sock' = [sock EXCEPT ![r] = "pending"]
    /\ UNCHANGED <<stop, listener, registry, chan, transport, cleanupError,
                   serveVars, workerPc, ownerVars>>

TransportLost ==
    /\ transport = "up"
    /\ transport' = "down"
    /\ UNCHANGED <<stop, listener, registry, sock, chan, cleanupError,
                   serveVars, workerPc, ownerVars>>

----------------------------------------------------------------------------
(* The serving thread: _serve and _start_request. *)

ServeCheck ==
    /\ servePc = "check"
    /\ servePc' = IF stop THEN "dead" ELSE "waiting"
    /\ UNCHANGED <<stop, listener, registry, sock, chan, transport, cleanupError,
                   serving, workerPc, ownerVars>>

\* handle_request returns after its poll interval, or, the listener being
\* closed under it, raises an error that _serve passes on unless stop is set.
ServeIdle ==
    /\ servePc = "waiting"
    /\ servePc' = IF listener = "closed" /\ ~stop THEN "dead" ELSE "check"
    /\ UNCHANGED <<stop, listener, registry, sock, chan, transport, cleanupError,
                   serving, workerPc, ownerVars>>

ServeAccept(r) ==
    /\ servePc = "waiting" /\ listener = "open" /\ sock[r] = "pending"
    /\ sock' = [sock EXCEPT ![r] = "open"]
    /\ servePc' = "accepted" /\ serving' = r
    /\ UNCHANGED <<stop, listener, registry, chan, transport, cleanupError,
                   workerPc, ownerVars>>

\* The locked section of _start_request.
RegisterUnless(stopped) ==
    /\ servePc = "accepted"
    /\ IF stopped
       THEN servePc' = "reject" /\ UNCHANGED <<registry, workerPc>>
       ELSE /\ servePc' = "starting"
            /\ registry' = registry \cup {serving}
            /\ workerPc' = [workerPc EXCEPT ![serving] = "new"]
    /\ UNCHANGED <<stop, listener, sock, chan, transport, cleanupError,
                   serving, ownerVars>>

\* Mutant: the stop event is not looked at under the lock.
ServeRegisterBlindly == RegisterUnless(FALSE)
ServeRegister == RegisterUnless(stop)

ServeReject ==
    /\ servePc = "reject"
    /\ CloseSocket(serving)
    /\ servePc' = "check" /\ serving' = NoRequest
    /\ UNCHANGED <<stop, listener, registry, chan, transport, workerPc, ownerVars>>

ServeStartWorker ==
    /\ servePc = "starting"
    /\ workerPc' = [workerPc EXCEPT ![serving] = "begin"]
    /\ servePc' = "check" /\ serving' = NoRequest
    /\ UNCHANGED <<stop, listener, registry, sock, chan, transport, cleanupError,
                   ownerVars>>

\* Mutant: the socket of a worker that could not be started is not closed.
ServeStartFailsOpen ==
    /\ servePc = "starting"
    /\ workerPc' = [workerPc EXCEPT ![serving] = "failed"]
    /\ servePc' = "unregister"
    /\ UNCHANGED <<stop, listener, registry, sock, chan, transport, cleanupError,
                   serving, ownerVars>>

ServeStartFails ==
    /\ servePc = "starting"
    /\ workerPc' = [workerPc EXCEPT ![serving] = "failed"]
    /\ CloseSocket(serving)
    /\ servePc' = "unregister"
    /\ UNCHANGED <<stop, listener, registry, chan, transport, serving, ownerVars>>

\* The failure is raised again, socketserver reports it, and serving goes on.
ServeUnregister ==
    /\ servePc = "unregister"
    /\ registry' = registry \ {serving}
    /\ servePc' = "check" /\ serving' = NoRequest
    /\ UNCHANGED <<stop, listener, sock, chan, transport, cleanupError,
                   workerPc, ownerVars>>

Serve ==
    \/ ServeCheck \/ ServeIdle \/ \E r \in Requests : ServeAccept(r)
    \/ ServeRegister \/ ServeReject
    \/ ServeStartWorker \/ ServeStartFails \/ ServeUnregister

----------------------------------------------------------------------------
(* A worker: _run_request around _ForwardHandler.handle. *)

Goto(r, from, targets) ==
    /\ workerPc[r] \in from
    /\ \E to \in targets : workerPc' = [workerPc EXCEPT ![r] = to]

\* A step of a worker that touches nothing the other threads read.
Move(r, from, targets) ==
    /\ Goto(r, from, targets)
    /\ UNCHANGED <<stop, listener, registry, sock, chan, transport, cleanupError,
                   serveVars, ownerVars>>

\* _run_request tests stop before finish_request, and handle tests it again.
WorkerBegin(r)  == Move(r, {"begin"}, {IF stop THEN "closing" ELSE "handle"})
WorkerHandle(r) == Move(r, {"handle"}, {IF stop THEN "closing" ELSE "opening"})

\* open_channel answers, however late: no test of stop comes before the loop's.
WorkerOpened(r) ==
    /\ transport = "up"
    /\ Goto(r, {"opening"}, {"loop"})
    /\ chan' = [chan EXCEPT ![r] = "open"]
    /\ UNCHANGED <<stop, listener, registry, sock, transport, cleanupError,
                   serveVars, ownerVars>>

\* open_channel (or getpeername on a closed socket) raises, or gives None.
WorkerOpenFails(r) == Move(r, {"opening"}, {"closing"})

\* Mutant: the loop does not test stop.
WorkerLoopForever(r) == Move(r, {"loop"}, {"select"})
WorkerLoop(r) == Move(r, {"loop"}, {IF stop THEN "chanClose" ELSE "select"})

\* select times out, data arrived, or a stream ended or failed.
WorkerSelect(r) ==
    Move(r, {"select"}, {"loop", "sendUp", "sendDown", "chanClose"})

\* A send returns or raises.  The channel's may block until the SSH window
\* opens, the socket's until the local client reads.
WorkerSent(r) ==
    \/ Move(r, {"sendUp"}, {"sendDown", "loop", "chanClose"})
    \/ Move(r, {"sendDown"}, {"loop", "chanClose"})

WorkerCloseChannel(r) ==
    /\ Goto(r, {"chanClose"}, {"closing"})
    /\ chan' = [chan EXCEPT ![r] = "closed"]
    /\ MayFail
    /\ UNCHANGED <<stop, listener, registry, sock, transport, serveVars, ownerVars>>

WorkerCloseSocket(r) ==
    /\ Goto(r, {"closing"}, {"unlink"})
    /\ CloseSocket(r)
    /\ UNCHANGED <<stop, listener, registry, chan, transport, serveVars, ownerVars>>

WorkerUnlink(r) ==
    /\ Goto(r, {"unlink"}, {"dead"})
    /\ registry' = registry \ {r}
    /\ UNCHANGED <<stop, listener, sock, chan, transport, cleanupError,
                   serveVars, ownerVars>>

Worker(r) ==
    \/ WorkerBegin(r) \/ WorkerHandle(r) \/ WorkerOpened(r) \/ WorkerOpenFails(r)
    \/ WorkerLoop(r) \/ WorkerSelect(r) \/ WorkerSent(r)
    \/ WorkerCloseChannel(r) \/ WorkerCloseSocket(r) \/ WorkerUnlink(r)

----------------------------------------------------------------------------
(* The owner: __init__, request_stop, ssh.disconnect, wait_stopped. *)

OwnerStartThread ==
    /\ ownerPc = "ctor"
    /\ servePc' = "check" /\ ownerPc' = "running"
    /\ UNCHANGED <<stop, listener, registry, sock, chan, transport, cleanupError,
                   serving, workerPc, toClose, unjoined, remaining, expired>>

\* request_stop's locked section, called by _teardown, or by __init__ when
\* the serving thread could not be started.
RequestStop(event, snapshot) ==
    /\ ownerPc \in {"running", "ctor"}
    /\ stop' = event
    /\ toClose' = snapshot /\ unjoined' = snapshot
    /\ ownerPc' = "closeListener"
    /\ UNCHANGED <<listener, registry, sock, chan, transport, cleanupError,
                   serveVars, workerPc, remaining, expired>>

\* Mutants: the event is set too late, the snapshot is taken too early, or it
\* includes the socket the serving thread holds.
OwnerRequestStopUnset == RequestStop(FALSE, registry)
OwnerRequestStopUnseen == RequestStop(TRUE, {})
OwnerRequestStopServing == RequestStop(TRUE, registry \cup {serving})
OwnerRequestStop == RequestStop(TRUE, registry)

\* server_close; the kernel resets connections still in the accept queue.
OwnerCloseListener ==
    /\ ownerPc = "closeListener"
    /\ listener' = "closed"
    /\ sock' = [r \in Requests |-> IF sock[r] = "pending" THEN "refused" ELSE sock[r]]
    /\ MayFail
    /\ ownerPc' = "closeSockets"
    /\ UNCHANGED <<stop, registry, chan, transport, serveVars, workerPc,
                   toClose, unjoined, remaining, expired>>

OwnerCloseSocket(r) ==
    /\ ownerPc = "closeSockets" /\ r \in toClose
    /\ CloseSocket(r)
    /\ toClose' = toClose \ {r}
    /\ UNCHANGED <<stop, listener, registry, chan, transport, serveVars, workerPc,
                   ownerPc, unjoined, remaining, expired>>

OwnerGoto(to) ==
    /\ ownerPc' = to
    /\ UNCHANGED <<stop, listener, registry, sock, chan, transport, cleanupError,
                   serveVars, workerPc, toClose, unjoined, remaining, expired>>

\* request_stop returns: to _teardown, or to __init__, which raises.
OwnerStopReturns ==
    /\ ownerPc = "closeSockets" /\ toClose = {}
    /\ OwnerGoto(IF servePc = "unstarted" THEN "aborted" ELSE "stopRequested")

\* _teardown(close_ssh=True) disconnects SSH between the two calls.
OwnerCloseSsh ==
    /\ ownerPc = "stopRequested"
    /\ transport' = "down" /\ ownerPc' = "sshClosed"
    /\ UNCHANGED <<stop, listener, registry, sock, chan, cleanupError,
                   serveVars, workerPc, toClose, unjoined, remaining, expired>>

\* _teardown(close_ssh=False), or an ssh.disconnect that raised, goes straight on.
OwnerWait == ownerPc \in {"stopRequested", "sshClosed"} /\ OwnerGoto("joinServe")

Expire ==
    /\ ownerPc \in Waiting /\ ~expired
    /\ expired' = TRUE
    /\ UNCHANGED <<stop, listener, registry, sock, chan, transport, cleanupError,
                   serveVars, workerPc, ownerPc, toClose, unjoined, remaining>>

OwnerJoinServe ==
    /\ ownerPc = "joinServe"
    /\ ServeAlive => expired
    /\ remaining' = ServeAlive
    /\ ownerPc' = "joinWorkers"
    /\ UNCHANGED <<stop, listener, registry, sock, chan, transport, cleanupError,
                   serveVars, workerPc, toClose, unjoined, expired>>

\* The join of a worker comes back when `returns`; it remains if `live`.
JoinWorker(r, returns, live) ==
    /\ ownerPc = "joinWorkers" /\ r \in unjoined
    /\ returns
    /\ remaining' = (remaining \/ live)
    /\ unjoined' = unjoined \ {r}
    /\ UNCHANGED <<stop, listener, registry, sock, chan, transport, cleanupError,
                   serveVars, workerPc, ownerPc, toClose, expired>>

\* Mutants: a live worker is not waited for; a worker that never started always
\* remains; the join has no timeout.
OwnerJoinWorkerNever(r) == JoinWorker(r, TRUE, ~Started(r) /\ ServeAlive)
OwnerJoinWorkerUnborn(r) ==
    JoinWorker(r, WorkerAlive(r) => expired, WorkerAlive(r) \/ ~Started(r))
OwnerJoinWorkerForever(r) == JoinWorker(r, ~WorkerAlive(r), ~Started(r) /\ ServeAlive)

\* A worker without an ident was never started: it counts as remaining only
\* while the serving thread lives, which may still start it.  That thread was
\* counted itself then, so the order of the two tests of ident does not matter.
OwnerJoinWorker(r) ==
    JoinWorker(r, WorkerAlive(r) => expired,
               WorkerAlive(r) \/ (~Started(r) /\ ServeAlive))

OwnerReport ==
    /\ ownerPc = "joinWorkers" /\ unjoined = {}
    /\ OwnerGoto(IF remaining THEN "timedOut" ELSE
                 IF cleanupError THEN "failed" ELSE "clean")

Owner ==
    \/ OwnerStartThread \/ OwnerRequestStop \/ OwnerCloseListener
    \/ \E r \in Requests : OwnerCloseSocket(r)
    \/ OwnerStopReturns \/ OwnerCloseSsh \/ OwnerWait \/ Expire \/ OwnerJoinServe
    \/ \E r \in Requests : OwnerJoinWorker(r)
    \/ OwnerReport

----------------------------------------------------------------------------
\* No thread of the forwarder can act any more.
Quiet == ~ServeAlive /\ \A r \in Requests : ~WorkerAlive(r)

\* The only states in which the whole object may come to rest.
AtRest == ownerPc \in Terminal /\ Quiet /\ UNCHANGED vars

Next ==
    \/ \E r \in Requests : ClientConnect(r)
    \/ TransportLost
    \/ Serve
    \/ \E r \in Requests : Worker(r)
    \/ Owner
    \/ AtRest

\* What makes a blocked send of worker r return.
Cut(r) ==
    \/ workerPc[r] = "sendUp" /\ transport = "down"
    \/ workerPc[r] = "sendDown" /\ sock[r] = "closed"

\* A runnable thread runs.  An open_channel or a send that nothing cuts short
\* may block for ever, and nobody is obliged to close the tunnel.
WorkerGoesOn(r) ==
    \/ WorkerBegin(r) \/ WorkerHandle(r)
    \/ transport = "down" /\ WorkerOpenFails(r)
    \/ WorkerLoop(r) \/ WorkerSelect(r)
    \/ Cut(r) /\ WorkerSent(r)
    \/ WorkerCloseChannel(r) \/ WorkerCloseSocket(r) \/ WorkerUnlink(r)

Fairness ==
    /\ WF_vars(Serve)
    /\ \A r \in Requests : WF_vars(WorkerGoesOn(r))
    /\ WF_vars(ownerPc # "running" /\ Owner)

Spec == Init /\ [][Next]_vars
FairSpec == Spec /\ Fairness

----------------------------------------------------------------------------
(* Properties. *)

\* When wait_stopped returns without raising, the tunnel is gone: listener and
\* every accepted socket and channel are closed and no thread is left, then
\* and for ever after (wait_stopped joins only the workers request_stop saw).
CleanStopReleasesAll ==
    ownerPc = "clean" =>
        /\ listener = "closed"
        /\ Quiet
        /\ \A r \in Requests : sock[r] # "open" /\ chan[r] # "open"

\* A cleanup failure of any thread is never lost: at a clean report none has
\* been recorded and none ever is, although workers and the serving thread
\* close sockets and channels concurrently with wait_stopped.
CleanReportIsTrue == ownerPc = "clean" => ~cleanupError

\* Once request_stop has returned, the one socket that can still be open is
\* the one the serving thread accepted during the stop and is about to reject.
StopLeavesOneSocketAtMost ==
    ownerPc \in {"stopRequested", "sshClosed"} \cup Waiting \cup Terminal =>
        \A r \in Requests : sock[r] = "open" =>
            serving = r /\ servePc \in {"accepted", "reject"}

\* An open socket always has somebody who will close it: it is registered, so
\* that request_stop sees it, or the serving thread still holds it.
OpenSocketIsOwned ==
    \A r \in Requests : sock[r] = "open" =>
        \/ r \in registry
        \/ serving = r /\ servePc \in {"accepted", "reject"}

\* ConnectionTimeoutError is raised only if the one-second budget ran out: a
\* worker whose start failed, or one registered just before the stop, never
\* makes a timely stop report a timeout (the two tests of ident in wait_stopped).
TimeoutNeedsExpiry == ownerPc = "timedOut" => expired

\* The serving thread ends only because the owner asked for it: the listener is
\* never closed under a _serve that does not know why.
ServesUntilStopped == servePc = "dead" => stop

\* After the stop event no connection enters the registry, so the snapshot
\* request_stop took of it is complete.
NoRegistrationAfterStop == [][stop => registry' \subseteq registry]_vars

\* The threads together keep the promise of the tunnel: a connection is served
\* while it is registered, and what wait_stopped reports is true of every thread.
Phase == IF ~stop THEN "serving" ELSE IF ownerPc \in Terminal THEN ownerPc ELSE "stopping"
Conn == [r \in Requests |-> IF r \in registry THEN "served"
                            ELSE IF sock[r] \in {"closed", "refused"} THEN "over"
                            ELSE "idle"]
Contract == INSTANCE TunnelContract WITH phase <- Phase, conn <- Conn, faulty <- cleanupError
ImplementsContract == Contract!Spec

\* wait_stopped is bounded: it ends even if a worker hangs in a native call.
StopEnds == stop ~> ownerPc \in Terminal

\* Once the SSH transport is gone too, a stopped forwarder always drains: every
\* worker and the serving thread end, and no socket or channel stays open,
\* even those a timed-out wait_stopped has given up on.
StopDrains ==
    (stop /\ transport = "down") ~>
        (Quiet /\ \A r \in Requests : sock[r] # "open" /\ chan[r] # "open")
=============================================================================
