------------------------ MODULE TunnelledConnection ------------------------
(***************************************************************************)
(* The life of a TunnelledConnection (connections/tunnel.py) around an     *)
(* inner SFTPConnection (sftp.py), each over an SSHConnection (ssh.py):    *)
(* any sequence of connect and disconnect calls of one caller, where every *)
(* call into paramiko may fail and the SSH server may go away.             *)
(***************************************************************************)
EXTENDS Integers

\* The objects that have to be closed, by the attribute that holds them:
\* _ssh._client, _forwarder, _inner._ssh._client and _inner._sftp.
Resources == {"bastion", "forwarder", "session", "channel"}

\* What _teardown may have to do, by the call it makes: _inner.disconnect,
\* request_stop, _ssh.disconnect and wait_stopped.
Actions == {"inner", "stop", "ssh", "wait"}

Errors == {"none", "failed", "timeout"}

VARIABLES
    op,         \* the caller's operation: "none", "connect" or "disconnect"
    pc,         \* where it is
    todo,       \* the actions _teardown has still to run
    error,      \* the error of _teardown so far
    primary,    \* the exception connect is handling
    result,     \* how the last operation ended
    held,       \* the attributes that are set
    inner,      \* _inner is set
    live,       \* objects made and not yet told to close, by resource
    stopping,   \* request_stop has been called on the forwarder
    lost,       \* the transport of the bastion's client is dead
    timedOut    \* a wait_stopped of this operation has timed out

call == <<op, pc, primary, result>>
teardown == <<todo, error, timedOut>>
objects == <<held, inner, live, stopping, lost>>
vars == <<call, teardown, objects>>

Tearing == {"before", "after", "closing"}

TypeOK ==
    /\ op \in {"none", "connect", "disconnect"}
    /\ pc \in {"idle", "dial", "bind", "inner"} \cup Tearing
    /\ todo \in SUBSET Actions
    /\ error \in Errors /\ primary \in Errors /\ result \in Errors
    /\ held \in SUBSET Resources /\ inner \in BOOLEAN
    /\ live \in [Resources -> Nat]
    /\ stopping \in BOOLEAN /\ lost \in BOOLEAN /\ timedOut \in BOOLEAN

Init ==
    /\ op = "none" /\ pc = "idle" /\ todo = {}
    /\ error = "none" /\ primary = "none" /\ result = "none"
    /\ held = {} /\ inner = FALSE /\ live = [r \in Resources |-> 0]
    /\ stopping = FALSE /\ lost = FALSE /\ timedOut = FALSE

\* Mutant: an attribute that is not set is closed too.
ReleaseUnset(R) ==
    /\ held' = held \ R
    /\ live' = [r \in Resources |-> IF r \in R THEN live[r] - 1 ELSE live[r]]

\* Of the attributes R, those that are set are unset and their objects closed.
Release(R) ==
    /\ held' = held \ R
    /\ live' = [r \in Resources |-> IF r \in R \cap held THEN live[r] - 1 ELSE live[r]]

\* The attributes R are set to new objects.
Make(R) ==
    /\ held' = held \cup R
    /\ live' = [r \in Resources |-> IF r \in R THEN live[r] + 1 ELSE live[r]]

----------------------------------------------------------------------------
(* _teardown. *)

\* Mutant: the session is left to the end.
PlaceWaiting(a) == CASE a = "inner" -> 1 [] a = "stop" -> 2 [] a = "wait" -> 3 [] a = "ssh" -> 4

\* The order in which the list has the actions.
Place(a) == CASE a = "inner" -> 1 [] a = "stop" -> 2 [] a = "ssh" -> 3 [] a = "wait" -> 4

Earlier(a) == {b \in Actions : Place(b) < Place(a)}

\* Mutant: without an inner connection there is nothing to do.
WantedByInner(set, closeSsh) ==
    IF ~set THEN {}
    ELSE {"inner"} \cup (IF closeSsh THEN {"ssh"} ELSE {})
         \cup (IF "forwarder" \in held THEN {"stop", "wait"} ELSE {})

\* The actions listed; set says whether _inner is.
Wanted(set, closeSsh) ==
    (IF set THEN {"inner"} ELSE {}) \cup (IF closeSsh THEN {"ssh"} ELSE {})
    \cup (IF "forwarder" \in held THEN {"stop", "wait"} ELSE {})

\* Mutant: the inner connection stays set.
TeardownKeeping(set, closeSsh) ==
    /\ todo' = Wanted(set, closeSsh) /\ error' = "none"
    /\ held' = held \ {"forwarder"}
    /\ UNCHANGED <<inner, live, stopping, lost>>

\* The first part of _teardown: the attributes are taken over.
Teardown(set, closeSsh) ==
    /\ todo' = Wanted(set, closeSsh) /\ error' = "none"
    /\ held' = held \ {"forwarder"} /\ inner' = FALSE
    /\ UNCHANGED <<live, stopping, lost>>

\* Mutant: the first error is kept, whatever it is.
CombinedFirst(e) == IF error = "none" THEN e ELSE error

\* The first error is kept, unless a later one is a timeout.
Combined(e) == IF error = "none" \/ e = "timeout" THEN e ELSE error

\* An action of the list runs, raising e or nothing; the next one runs anyway.
Run(action, e) ==
    /\ pc \in Tearing /\ action \in todo /\ Earlier(action) \cap todo = {}
    /\ todo' = todo \ {action} /\ error' = Combined(e)
    /\ UNCHANGED call

\* Mutant: a channel that does not close keeps its SSH client open.
DisconnectInnerChannelFirst ==
    /\ \E e \in {"none", "failed"} :
        /\ {"session", "channel"} \cap held = {} => e = "none"
        /\ Run("inner", e)
        /\ Release(IF e = "none" THEN {"session", "channel"} ELSE {"channel"})
    /\ UNCHANGED <<inner, stopping, lost, timedOut>>

\* SFTPConnection.disconnect closes the channel and, whether that raised or
\* not, its SSH client; closing what is not there cannot fail.
DisconnectInner ==
    /\ \E e \in {"none", "failed"} :
        /\ {"session", "channel"} \cap held = {} => e = "none"
        /\ Run("inner", e)
    /\ Release({"session", "channel"})
    /\ UNCHANGED <<inner, stopping, lost, timedOut>>

\* request_stop records its failures for wait_stopped.
StopForwarder ==
    /\ Run("stop", "none")
    /\ stopping' = TRUE
    /\ UNCHANGED <<held, inner, live, lost, timedOut>>

DisconnectSsh ==
    /\ \E e \in {"none", "failed"} :
        /\ "bastion" \notin held => e = "none"
        /\ Run("ssh", e)
    /\ Release({"bastion"})
    /\ UNCHANGED <<inner, stopping, lost, timedOut>>

\* wait_stopped gives up on workers that do not end: see TunnelForwarder.
WaitForwarder ==
    /\ \E e \in Errors :
        /\ Run("wait", e)
        /\ timedOut' = (timedOut \/ e = "timeout")
    /\ live' = [live EXCEPT !["forwarder"] = @ - 1]
    /\ UNCHANGED <<held, inner, stopping, lost>>

----------------------------------------------------------------------------
(* connect and disconnect. *)

Connect ==
    /\ pc = "idle"
    /\ op' = "connect" /\ pc' = "before" /\ primary' = "none" /\ result' = "none"
    /\ timedOut' = FALSE
    /\ Teardown(inner, FALSE)

Disconnect ==
    /\ pc = "idle"
    /\ op' = "disconnect" /\ pc' = "closing" /\ primary' = "none" /\ result' = "none"
    /\ timedOut' = FALSE
    /\ Teardown(inner, TRUE)

Finish(how) == pc' = "idle" /\ op' = op /\ result' = how /\ UNCHANGED primary

\* connect's handler: disconnect, and raise the exception again.
Fail(e) ==
    /\ primary' = e /\ pc' = "after"
    /\ UNCHANGED <<op, result>>

TornDownBefore ==
    /\ pc = "before" /\ todo = {}
    /\ IF error = "none"
       THEN pc' = "dial" /\ UNCHANGED <<op, primary, result, teardown, objects>>
       ELSE Fail(error) /\ Teardown(inner, TRUE) /\ UNCHANGED timedOut

\* What the cleanup raised is only a note on the primary exception.
TornDownAfter ==
    /\ pc = "after" /\ todo = {}
    /\ Finish(primary)
    /\ UNCHANGED <<teardown, objects>>

TornDown ==
    /\ pc = "closing" /\ todo = {}
    /\ Finish(error)
    /\ UNCHANGED <<teardown, objects>>

\* is_connected only says that a client is held: a dead one is used again.
ReuseSsh ==
    /\ pc = "dial" /\ "bastion" \in held
    /\ pc' = "bind"
    /\ UNCHANGED <<op, primary, result, teardown, objects>>

DialSsh ==
    /\ pc = "dial" /\ "bastion" \notin held
    /\ Make({"bastion"}) /\ lost' = FALSE
    /\ pc' = "bind"
    /\ UNCHANGED <<op, primary, result, teardown, inner, stopping>>

\* SSHConnection.connect closes the client it made before it raises.
DialSshFails(e) ==
    /\ pc = "dial" /\ "bastion" \notin held
    /\ Fail(e) /\ Teardown(inner, TRUE)
    /\ UNCHANGED timedOut

BindForwarder ==
    /\ pc = "bind"
    /\ Make({"forwarder"}) /\ stopping' = FALSE
    /\ pc' = "inner"
    /\ UNCHANGED <<op, primary, result, teardown, inner, lost>>

\* The listener cannot be bound, or its thread not started.
BindForwarderFails ==
    /\ pc = "bind"
    /\ Fail("failed") /\ Teardown(inner, TRUE)
    /\ UNCHANGED timedOut

\* The factory's new SFTPConnection connects through the tunnel.
ConnectInner ==
    /\ pc = "inner" /\ ~lost
    /\ inner' = TRUE /\ Make({"session", "channel"})
    /\ Finish("none")
    /\ UNCHANGED <<teardown, stopping, lost>>

\* The factory raises, or the new connection's connect, which first closes
\* what it has opened; _teardown then finds it set, and empty.
ConnectInnerFails(e) ==
    /\ pc = "inner"
    /\ Fail(e)
    /\ \E set \in BOOLEAN : Teardown(set, TRUE)
    /\ UNCHANGED timedOut

\* The bastion goes away: nothing in the object notices.
ServerLost ==
    /\ "bastion" \in held /\ ~lost
    /\ lost' = TRUE
    /\ UNCHANGED <<call, teardown, held, inner, live, stopping>>

Next ==
    \/ Connect \/ Disconnect
    \/ DisconnectInner \/ StopForwarder \/ DisconnectSsh \/ WaitForwarder
    \/ TornDownBefore \/ TornDownAfter \/ TornDown
    \/ ReuseSsh \/ DialSsh \/ BindForwarder \/ BindForwarderFails \/ ConnectInner
    \/ \E e \in {"failed", "timeout"} : DialSshFails(e) \/ ConnectInnerFails(e)
    \/ ServerLost

Spec == Init /\ [][Next]_vars

----------------------------------------------------------------------------
(* Properties. *)

\* However often the caller connects, disconnects and connects again, and
\* whatever fails in between, no object is forgotten or closed twice: between
\* operations those that are live are exactly those an attribute holds.
NothingForgotten ==
    pc = "idle" => \A r \in Resources : live[r] = IF r \in held THEN 1 ELSE 0

\* A failed connect, and a disconnect however it ends, leave nothing held: every
\* action of _teardown has run although earlier ones raised.
EndsEmpty ==
    pc = "idle" /\ (op = "disconnect" \/ result # "none") => held = {} /\ ~inner

\* A connect that returns, and nothing else, leaves the object connected; and
\* that is a whole tunnel: the channel, the session it belongs to, the forwarder
\* it runs through and the bastion's session.
ConnectedIsWhole ==
    pc = "idle" => /\ inner <=> op = "connect" /\ result = "none"
                   /\ inner => held = Resources

\* A tunnel is waited for only after it was told to stop, and after the session
\* its workers may be blocked in was closed, unless that session is kept.
WaitsLast ==
    pc \in Tearing /\ "wait" \in todo /\ Earlier("wait") \cap todo = {} =>
        stopping /\ (pc = "before" \/ "bastion" \notin held)

\* A disconnect that gave up on a worker says so, whatever else has failed.
TimeoutIsReported ==
    pc = "idle" /\ op = "disconnect" /\ timedOut => result = "timeout"

----------------------------------------------------------------------------
(* The inductive invariant of TunnelledConnectionProofs. *)

\* At every moment each live object has one owner: the attribute that holds it
\* or, for a forwarder _teardown has taken over, the wait it has still to make.
LiveIsOwned ==
    \A r \in Resources :
        live[r] = IF r \in held \/ (r = "forwarder" /\ "wait" \in todo) THEN 1 ELSE 0

\* What is set at each place of connect and disconnect.
HeldByPlace ==
    /\ pc \in {"idle", "dial", "bind", "inner"} => todo = {}
    /\ pc \notin {"idle", "closing"} => op = "connect"
    /\ pc = "closing" => op = "disconnect"
    /\ pc = "after" => primary # "none"
    /\ pc \in Tearing => ~inner /\ "forwarder" \notin held
    /\ pc \in Tearing /\ "inner" \notin todo => held \subseteq {"bastion"}
    /\ pc \in {"after", "closing"} /\ "ssh" \notin todo => "bastion" \notin held
    /\ pc \in {"dial", "bind", "inner"} => ~inner
    /\ pc = "dial" => held \subseteq {"bastion"}
    /\ pc = "bind" => held = {"bastion"}
    /\ pc = "inner" => held = {"bastion", "forwarder"}
    /\ pc = "idle" => \/ held = {} /\ ~inner /\ ~(op = "connect" /\ result = "none")
                      \/ held = Resources /\ inner /\ op = "connect" /\ result = "none"

StopIsFirst ==
    pc \in Tearing /\ "wait" \in todo /\ "stop" \notin todo => stopping

TimeoutIsKept ==
    timedOut => \/ pc \notin {"idle", "closing"}
                \/ pc = "closing" /\ error = "timeout"
                \/ pc = "idle" /\ (op = "connect" \/ result = "timeout")

IInv == TypeOK /\ LiveIsOwned /\ HeldByPlace /\ StopIsFirst /\ TimeoutIsKept
=============================================================================
