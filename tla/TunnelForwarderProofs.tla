----------------------- MODULE TunnelForwarderProofs -----------------------
(* The inductive invariant of TunnelForwarder, and what follows from it. *)
EXTENDS TunnelForwarder, TLAPS

----------------------------------------------------------------------------
(* The inductive invariant, one conjunct per thing the threads agree on. *)

Relaying == {"loop", "select", "sendUp", "sendDown", "chanClose"}
Holding  == {"accepted", "reject"}
Stopping == {"closeListener", "closeSockets"}

\* The owner's progress decides the stop event and the listener.
OwnerInv ==
    /\ stop <=> ownerPc \notin {"ctor", "running"}
    /\ listener = "closed" <=> ownerPc \notin {"ctor", "running", "closeListener"}
    /\ ownerPc \in {"ctor", "aborted"} => servePc = "unstarted"
    /\ servePc = "unstarted" => ownerPc \in {"ctor", "aborted"} \cup Stopping
    /\ servePc \in {"dead", "reject"} => stop

\* What the serving thread holds, and how far it has got with it.
ServingInv ==
    /\ serving \in Requests <=> servePc \in Holding \cup {"starting", "unregister"}
    /\ servePc \in Holding => sock[serving] = "open" /\ workerPc[serving] = "none"
    /\ servePc = "starting" => workerPc[serving] = "new"
    /\ servePc = "unregister" => workerPc[serving] = "failed"

\* Registration, the worker's control and the connection go together.
WorkerInv(r) ==
    /\ r \in registry <=> \/ workerPc[r] = "new" \/ WorkerAlive(r)
                          \/ servePc = "unregister" /\ serving = r
    /\ workerPc[r] = "new" => servePc = "starting" /\ serving = r
    /\ workerPc[r] = "none" /\ sock[r] = "open" => servePc \in Holding /\ serving = r
    /\ workerPc[r] # "none" => sock[r] \in {"open", "closed"}
    /\ workerPc[r] \in {"failed", "unlink", "dead"} => sock[r] = "closed"
    /\ chan[r] = "open" => workerPc[r] \in Relaying
    /\ servePc = "unstarted" => workerPc[r] = "none"

\* request_stop's snapshot covers every registered connection.
SnapshotInv ==
    /\ \A r \in toClose \cup unjoined : workerPc[r] # "none"
    /\ stop => \A r \in registry : sock[r] = "open" =>
                        r \in toClose /\ ownerPc \in Stopping
    /\ stop /\ ownerPc \notin Waiting \cup Terminal => registry \subseteq unjoined
    /\ ownerPc = "joinServe" => registry \subseteq unjoined

\* What wait_stopped may conclude from the joins made so far.
JoinInv ==
    /\ remaining => expired
    /\ ownerPc = "joinWorkers" /\ ~remaining => ~ServeAlive /\ registry \subseteq unjoined
    /\ ownerPc \in {"clean", "failed", "aborted"} => ~ServeAlive /\ registry = {}
    /\ ownerPc = "clean" => ~cleanupError
    /\ ownerPc = "failed" => cleanupError
    /\ ownerPc = "timedOut" => expired

IInv ==
    /\ TypeOK
    /\ OwnerInv
    /\ ServingInv
    /\ \A r \in Requests : WorkerInv(r)
    /\ SnapshotInv
    /\ JoinInv

----------------------------------------------------------------------------
(* The inductive invariant holds initially and every step preserves it. *)

\* The state __init__ builds before it starts the serving thread satisfies it.
LEMMA InitIInv == Init => IInv
BY RequestsAssumption
   DEF Init, IInv, TypeOK, OwnerInv, ServingInv, WorkerInv, SnapshotInv, JoinInv,
       ServeAlive, Started, WorkerAlive, Holding, Stopping, Waiting, Terminal

\* Local clients and the loss of the SSH transport preserve it.
LEMMA EnvironmentStep ==
    ASSUME IInv, (\E r \in Requests : ClientConnect(r)) \/ TransportLost
    PROVE  IInv'
<1> USE RequestsAssumption
    DEF IInv, TypeOK, OwnerInv, ServingInv, WorkerInv, SnapshotInv, JoinInv,
        ServeAlive, Started, WorkerAlive, Holding, Stopping, Waiting, Terminal,
        serveVars, ownerVars
<1>1. ASSUME NEW c \in Requests, ClientConnect(c) PROVE IInv'
  BY <1>1 DEF ClientConnect
<1>2. CASE TransportLost
  BY <1>2 DEF TransportLost
<1>3. QED
  BY <1>1, <1>2

\* The serving thread preserves it.
LEMMA ServeStep == ASSUME IInv, Serve PROVE IInv'
<1> USE RequestsAssumption
    DEF IInv, TypeOK, OwnerInv, ServingInv, WorkerInv, SnapshotInv, JoinInv,
        ServeAlive, Started, WorkerAlive, Holding, Stopping, Waiting, Terminal,
        Relaying, ownerVars
<1>1. CASE ServeCheck
  BY <1>1 DEF ServeCheck
<1>2. CASE ServeIdle
  \* A closed listener means that stop is set, so the thread does not die here.
  <2>1. listener = "closed" => stop
    OBVIOUS
  <2>2. QED
    BY <1>2, <2>1 DEF ServeIdle
<1>3. ASSUME NEW c \in Requests, ServeAccept(c) PROVE IInv'
  \* A connection that is still pending was never registered nor given a worker.
  <2>1. c \notin registry /\ workerPc[c] = "none"
    BY <1>3 DEF ServeAccept
  <2>2. QED
    BY <1>3, <2>1 DEF ServeAccept
<1>4. CASE ServeRegister
  <2>1. serving \in Requests /\ serving \notin registry
    BY <1>4 DEF ServeRegister, RegisterUnless
  <2>2. CASE stop
    BY <1>4, <2>1, <2>2 DEF ServeRegister, RegisterUnless
  \* Before the stop neither a snapshot nor a join constrains the registry.
  <2>3. CASE ~stop
    <3>1. ownerPc \in {"ctor", "running"}
      BY <2>3
    <3>2. QED
      BY <1>4, <2>1, <2>3, <3>1 DEF ServeRegister, RegisterUnless
  <2>4. QED
    BY <2>2, <2>3
<1>5. CASE ServeReject
  BY <1>5, ZenonT(30) DEF ServeReject, CloseSocket, MayFail
<1>6. CASE ServeStartWorker
  BY <1>6 DEF ServeStartWorker
<1>7. CASE ServeStartFails
  BY <1>7, ZenonT(30) DEF ServeStartFails, CloseSocket, MayFail
<1>8. CASE ServeUnregister
  BY <1>8 DEF ServeUnregister
<1>9. QED
  BY <1>1, <1>2, <1>3, <1>4, <1>5, <1>6, <1>7, <1>8 DEF Serve

\* A worker that has a thread is registered, so no complete report was made.
LEMMA WorkerIsRegistered ==
    ASSUME IInv, NEW w \in Requests, WorkerAlive(w)
    PROVE  /\ w \in registry
           /\ ownerPc \notin {"clean", "failed", "aborted"}
           /\ servePc = "unregister" => serving # w
BY DEF IInv, ServingInv, WorkerInv, JoinInv, WorkerAlive, Started

\* A worker preserves it.
LEMMA WorkerStep == ASSUME IInv, NEW w \in Requests, Worker(w) PROVE IInv'
<1> USE RequestsAssumption
    DEF IInv, TypeOK, OwnerInv, ServingInv, WorkerInv, SnapshotInv, JoinInv,
        ServeAlive, Started, WorkerAlive, Holding, Stopping, Waiting, Terminal,
        Relaying, serveVars, ownerVars
<1>1. CASE WorkerBegin(w) \/ WorkerHandle(w)
  BY <1>1 DEF WorkerBegin, WorkerHandle, Move, Goto
<1>2. CASE WorkerOpened(w)
  BY <1>2 DEF WorkerOpened, Goto
<1>3. CASE WorkerOpenFails(w)
  BY <1>3 DEF WorkerOpenFails, Move, Goto
<1>4. CASE WorkerLoop(w)
  BY <1>4 DEF WorkerLoop, Move, Goto
<1>5. CASE WorkerSelect(w)
  BY <1>5 DEF WorkerSelect, Move, Goto
<1>6. CASE WorkerSent(w)
  BY <1>6 DEF WorkerSent, Move, Goto
<1>7. CASE WorkerCloseChannel(w)
  <2>1. WorkerAlive(w) /\ workerPc[w] = "chanClose"
    BY <1>7 DEF WorkerCloseChannel, Goto
  <2>2. /\ workerPc' = [workerPc EXCEPT ![w] = "closing"]
        /\ cleanupError' \in BOOLEAN
    BY <1>7 DEF WorkerCloseChannel, Goto, MayFail
  <2>3. OwnerInv' /\ ServingInv' /\ SnapshotInv'
    BY <1>7, <2>1 DEF WorkerCloseChannel, Goto
  <2>4. ASSUME NEW r \in Requests PROVE WorkerInv(r)'
    BY <1>7 DEF WorkerCloseChannel, Goto
  <2>5. JoinInv'
    BY <1>7, <2>1, WorkerIsRegistered DEF WorkerCloseChannel, Goto
  <2>6. TypeOK'
    BY <1>7, <2>2 DEF WorkerCloseChannel
  <2>7. QED
    BY <2>3, <2>4, <2>5, <2>6 DEF IInv
<1>8. CASE WorkerCloseSocket(w)
  <2>1. WorkerAlive(w) /\ workerPc[w] = "closing"
    BY <1>8 DEF WorkerCloseSocket, Goto
  <2>2. /\ workerPc' = [workerPc EXCEPT ![w] = "unlink"]
        /\ cleanupError' \in BOOLEAN
    BY <1>8 DEF WorkerCloseSocket, Goto, CloseSocket, MayFail
  <2>3. OwnerInv' /\ ServingInv' /\ SnapshotInv'
    BY <1>8, <2>1 DEF WorkerCloseSocket, Goto, CloseSocket
  <2>4. ASSUME NEW r \in Requests PROVE WorkerInv(r)'
    BY <1>8 DEF WorkerCloseSocket, Goto, CloseSocket
  <2>5. JoinInv'
    BY <1>8, <2>1, WorkerIsRegistered DEF WorkerCloseSocket, Goto
  <2>6. TypeOK'
    BY <1>8, <2>2 DEF WorkerCloseSocket, CloseSocket
  <2>7. QED
    BY <2>3, <2>4, <2>5, <2>6 DEF IInv
<1>9. CASE WorkerUnlink(w)
  BY <1>9 DEF WorkerUnlink, Goto
<1>10. QED
  BY <1>1, <1>2, <1>3, <1>4, <1>5, <1>6, <1>7, <1>8, <1>9 DEF Worker

\* The owner preserves it.
LEMMA OwnerStep == ASSUME IInv, Owner PROVE IInv'
<1> USE RequestsAssumption
    DEF IInv, TypeOK, OwnerInv, ServingInv, WorkerInv, SnapshotInv, JoinInv,
        ServeAlive, Started, WorkerAlive, Holding, Stopping, Waiting, Terminal,
        serveVars
<1>1. CASE OwnerStartThread
  BY <1>1 DEF OwnerStartThread
<1>2. CASE OwnerRequestStop
  BY <1>2 DEF OwnerRequestStop, RequestStop
<1>3. CASE OwnerCloseListener
  BY <1>3, ZenonT(30) DEF OwnerCloseListener, MayFail
<1>4. ASSUME NEW c \in Requests, OwnerCloseSocket(c) PROVE IInv'
  BY <1>4, ZenonT(30) DEF OwnerCloseSocket, CloseSocket, MayFail
<1>5. CASE OwnerStopReturns
  \* toClose is empty, so no registered socket is open any more.
  <2>1. \A r \in registry : sock[r] # "open"
    BY <1>5 DEF OwnerStopReturns
  <2>2. servePc = "unstarted" => registry = {}
    OBVIOUS
  <2>3. QED
    BY <1>5, <2>1, <2>2 DEF OwnerStopReturns, OwnerGoto
<1>6. CASE OwnerCloseSsh
  BY <1>6 DEF OwnerCloseSsh
<1>7. CASE OwnerWait
  BY <1>7 DEF OwnerWait, OwnerGoto
<1>8. CASE Expire
  BY <1>8 DEF Expire
<1>9. CASE OwnerJoinServe
  BY <1>9 DEF OwnerJoinServe
<1>10. ASSUME NEW c \in Requests, OwnerJoinWorker(c) PROVE IInv'
  \* If nothing remains, the worker just joined has left the registry: it is
  \* neither alive, nor new, nor being unregistered by a live serving thread.
  <2>1. ~remaining' => ~ServeAlive /\ c \notin registry
    BY <1>10 DEF OwnerJoinWorker, JoinWorker
  <2>2. QED
    BY <1>10, <2>1 DEF OwnerJoinWorker, JoinWorker
<1>11. CASE OwnerReport
  <2>1. ~remaining => ~ServeAlive /\ registry = {}
    BY <1>11 DEF OwnerReport
  <2>2. QED
    BY <1>11, <2>1 DEF OwnerReport, OwnerGoto
<1>12. QED
  BY <1>1, <1>2, <1>3, <1>4, <1>5, <1>6, <1>7, <1>8, <1>9, <1>10, <1>11 DEF Owner

\* A step that changes nothing preserves it.
LEMMA StutterStep == ASSUME IInv, UNCHANGED vars PROVE IInv'
BY DEF vars, serveVars, ownerVars, IInv, TypeOK, OwnerInv, ServingInv, WorkerInv,
       SnapshotInv, JoinInv, ServeAlive, Started, WorkerAlive

\* IInv is an invariant of the forwarder.
THEOREM Invariance == Spec => []IInv
<1>1. IInv /\ [Next]_vars => IInv'
  BY EnvironmentStep, ServeStep, WorkerStep, OwnerStep, StutterStep DEF Next, AtRest
<1>2. QED
  BY InitIInv, <1>1, PTL DEF Spec

----------------------------------------------------------------------------
(* The properties. *)

\* Every variable keeps its type, for any set of connections.
THEOREM TypeCorrect == Spec => []TypeOK
<1>1. IInv => TypeOK
  BY DEF IInv
<1>2. QED
  BY Invariance, <1>1, PTL

\* After a clean report the listener, every socket, every channel and every
\* thread are gone.
THEOREM CleanStop == Spec => []CleanStopReleasesAll
<1>1. IInv => CleanStopReleasesAll
  <2> SUFFICES ASSUME IInv, ownerPc = "clean"
               PROVE  /\ listener = "closed"
                      /\ Quiet
                      /\ \A r \in Requests : sock[r] # "open" /\ chan[r] # "open"
    BY DEF CleanStopReleasesAll
  <2>1. listener = "closed"
    BY DEF IInv, OwnerInv, TypeOK
  <2>2. ~ServeAlive /\ registry = {}
    BY DEF IInv, JoinInv
  <2>3. ASSUME NEW r \in Requests
        PROVE  ~WorkerAlive(r) /\ sock[r] # "open" /\ chan[r] # "open"
    BY <2>2 DEF IInv, WorkerInv, TypeOK, ServeAlive, WorkerAlive, Started, Relaying, Holding
  <2>4. QED
    BY <2>1, <2>2, <2>3 DEF Quiet
<1>2. QED
  BY Invariance, <1>1, PTL

\* A clean report means that no release failed, before it or after it.
THEOREM CleanReport == Spec => []CleanReportIsTrue
<1>1. IInv => CleanReportIsTrue
  BY DEF IInv, JoinInv, CleanReportIsTrue
<1>2. QED
  BY Invariance, <1>1, PTL

\* Every open socket has an owner, and after request_stop only the serving
\* thread can still own one.
THEOREM OpenSockets == Spec => [](OpenSocketIsOwned /\ StopLeavesOneSocketAtMost)
<1>1. IInv => OpenSocketIsOwned
  BY DEF IInv, TypeOK, WorkerInv, WorkerAlive, Started, OpenSocketIsOwned, Holding
<1>2. IInv /\ OpenSocketIsOwned => StopLeavesOneSocketAtMost
  BY DEF IInv, OwnerInv, SnapshotInv, Stopping, Waiting, Terminal,
         OpenSocketIsOwned, StopLeavesOneSocketAtMost
<1>3. QED
  BY Invariance, <1>1, <1>2, PTL

\* A timeout is reported only when the budget ran out.
THEOREM Timeouts == Spec => []TimeoutNeedsExpiry
<1>1. IInv => TimeoutNeedsExpiry
  BY DEF IInv, JoinInv, TimeoutNeedsExpiry
<1>2. QED
  BY Invariance, <1>1, PTL

\* The serving thread ends only after a stop: no failure of a connection ends it
\* (handle_error and the check of the event around handle_request).
THEOREM Serving == Spec => []ServesUntilStopped
<1>1. IInv => ServesUntilStopped
  BY DEF IInv, OwnerInv, ServesUntilStopped
<1>2. QED
  BY Invariance, <1>1, PTL

----------------------------------------------------------------------------
(* The contract. *)

\* After stop, _start_request closes a late connection instead of registering it.
THEOREM NoLateRegistration == Spec => NoRegistrationAfterStop
<1>1. [Next]_vars => [stop => registry' \subseteq registry]_vars
  <2> SUFFICES ASSUME Next, stop PROVE registry' \subseteq registry
    OBVIOUS
  <2>1. ASSUME NEW r \in Requests, ClientConnect(r) PROVE registry' \subseteq registry
    BY <2>1 DEF ClientConnect
  <2>2. CASE TransportLost \/ AtRest
    BY <2>2 DEF TransportLost, AtRest, vars
  <2>3. CASE Serve
    BY <2>3 DEF Serve, ServeCheck, ServeIdle, ServeAccept, ServeRegister, RegisterUnless, ServeReject,
       ServeStartWorker, ServeStartFails, ServeUnregister
  <2>4. ASSUME NEW r \in Requests, Worker(r) PROVE registry' \subseteq registry
    BY <2>4 DEF Worker, Move, WorkerBegin, WorkerHandle, WorkerOpened, WorkerOpenFails,
       WorkerLoop, WorkerSelect, WorkerSent, WorkerCloseChannel, WorkerCloseSocket,
       WorkerUnlink
  <2>5. CASE Owner
    BY <2>5 DEF Owner, OwnerStartThread, OwnerRequestStop, RequestStop, OwnerCloseListener,
       OwnerCloseSocket, OwnerGoto, OwnerStopReturns, OwnerCloseSsh, OwnerWait, Expire,
       OwnerJoinServe, OwnerJoinWorker, JoinWorker, OwnerReport
  <2>6. QED
    BY <2>1, <2>2, <2>3, <2>4, <2>5 DEF Next
<1>2. QED
  BY <1>1, PTL DEF Spec, NoRegistrationAfterStop

\* The values of the refinement mapping, as the proofs below use them.
LEMMA Mapping ==
    ASSUME IInv
    PROVE  /\ Phase = "serving" <=> ~stop
           /\ Phase \in {"clean", "failed", "aborted"} <=>
                ownerPc \in {"clean", "failed", "aborted"}
           /\ stop /\ ownerPc \notin Terminal => Phase = "stopping"
           /\ ServeAlive => Phase \notin {"clean", "failed", "aborted"}
           /\ \A r \in Requests : Conn[r] = "served" <=> r \in registry
BY DEF IInv, OwnerInv, JoinInv, Phase, Conn, Terminal

\* A step that leaves the mapped state alone, but may record a failed release.
LEMMA QuietStep ==
    ASSUME IInv, Phase' = Phase, Conn' = Conn,
           \/ UNCHANGED cleanupError
           \/ MayFail /\ ownerPc \notin {"clean", "failed", "aborted"}
    PROVE  [Contract!Next]_(Contract!vars)
BY Mapping DEF MayFail, IInv, TypeOK, Contract!Next, Contract!Fault, Contract!vars,
       Contract!Settled

\* The end of a served connection.
LEMMA EndStep ==
    ASSUME IInv, NEW r \in registry, sock[r] = "closed",
           ownerPc \notin {"clean", "failed", "aborted"},
           registry' = registry \ {r},
           UNCHANGED <<stop, ownerPc, sock, cleanupError>>
    PROVE  Contract!Next
<1>1. r \in Requests
  BY DEF IInv, TypeOK
<1>2. Conn' = [Conn EXCEPT ![r] = "over"]
  BY <1>1 DEF Conn
<1>3. Contract!End(r)
  BY <1>1, <1>2, Mapping DEF Contract!End, Contract!Settled, Phase
<1>4. QED
  BY <1>1, <1>3 DEF Contract!Next

\* Connections that were not served are turned away.
LEMMA TurnAwayStep ==
    ASSUME IInv, stop, ownerPc \notin {"clean", "failed", "aborted"},
           NEW R \in SUBSET Requests,
           \A r \in R : r \notin registry /\ sock[r] \notin {"closed", "refused"},
           \A r \in R : sock'[r] \in {"closed", "refused"},
           \A r \in Requests \ R : sock'[r] = sock[r],
           MayFail, Phase' = Phase, registry' = registry
    PROVE  Contract!Next
<1>1. Conn' = [r \in Requests |-> IF r \in R THEN "over" ELSE Conn[r]]
  BY DEF Conn
<1>2. Contract!TurnAway(R)
  <2>1. Phase \in {"stopping", "timedOut"}
    BY Mapping DEF Phase, Terminal
  <2>2. \A r \in R : Conn[r] = "idle"
    BY DEF Conn
  <2>3. QED
    BY <1>1, <2>1, <2>2 DEF Contract!TurnAway, Contract!MayFault, MayFail
<1>3. QED
  BY <1>2 DEF Contract!Next

\* The serving thread keeps the contract.
LEMMA ServeContract == ASSUME IInv, Serve PROVE [Contract!Next]_(Contract!vars)
<1>1. ServeAlive /\ ownerPc \notin {"clean", "failed", "aborted"}
  BY DEF IInv, OwnerInv, JoinInv, ServeAlive, Serve, ServeCheck, ServeIdle,
     ServeAccept, ServeRegister, RegisterUnless, ServeReject, ServeStartWorker, ServeStartFails,
     ServeUnregister
<1>2. Phase' = Phase
  BY DEF Phase, ownerVars, Serve, ServeCheck, ServeIdle, ServeAccept, ServeRegister, RegisterUnless,
     ServeReject, ServeStartWorker, ServeStartFails, ServeUnregister
<1>3. CASE ServeCheck \/ ServeIdle \/ ServeStartWorker
  BY <1>2, <1>3, QuietStep DEF Conn, ServeCheck, ServeIdle, ServeStartWorker
<1>4. ASSUME NEW c \in Requests, ServeAccept(c) PROVE [Contract!Next]_(Contract!vars)
  <2>1. Conn' = Conn
    BY <1>4 DEF Conn, ServeAccept, IInv, TypeOK
  <2>2. QED
    BY <1>2, <1>4, <2>1, QuietStep DEF ServeAccept
<1>5. CASE ServeRegister
  <2>1. serving \in Requests /\ sock[serving] = "open" /\ serving \notin registry
    BY <1>5 DEF ServeRegister, RegisterUnless, IInv, ServingInv, WorkerInv, WorkerAlive, Started, Holding
  <2>2. CASE stop
    BY <1>2, <1>5, <2>2, QuietStep DEF ServeRegister, RegisterUnless, Conn
  <2>3. CASE ~stop
    <3>1. Conn[serving] = "idle" /\ Conn' = [Conn EXCEPT ![serving] = "served"]
      BY <1>5, <2>1, <2>3 DEF Conn, ServeRegister, RegisterUnless
    <3>2. Contract!Admit(serving)
      BY <1>2, <1>5, <2>3, <3>1, Mapping DEF Contract!Admit, ServeRegister, RegisterUnless
    <3>3. QED
      BY <2>1, <3>2 DEF Contract!Next
  <2>4. QED
    BY <2>2, <2>3
<1>6. CASE ServeReject
  <2>1. serving \in Requests /\ sock[serving] = "open" /\ serving \notin registry /\ stop
    BY <1>6 DEF ServeReject, IInv, OwnerInv, ServingInv, WorkerInv, WorkerAlive, Started,
       Holding
  <2>2. /\ sock' = [sock EXCEPT ![serving] = "closed"] /\ registry' = registry
        /\ MayFail
    BY <1>6, <2>1 DEF ServeReject, CloseSocket
  <2> DEFINE R == {serving}
  <2>3. /\ R \in SUBSET Requests
        /\ \A r \in R : r \notin registry /\ sock[r] \notin {"closed", "refused"}
    BY <2>1
  <2>4. /\ \A r \in R : sock'[r] \in {"closed", "refused"}
        /\ \A r \in Requests \ R : sock'[r] = sock[r]
    BY <2>1, <2>2 DEF IInv, TypeOK
  <2> HIDE DEF R
  <2>5. QED
    BY <1>1, <1>2, <2>1, <2>2, <2>3, <2>4, TurnAwayStep
<1>7. CASE ServeStartFails
  <2>1. serving \in registry
    BY <1>7 DEF ServeStartFails, IInv, ServingInv, WorkerInv
  <2>2. Conn' = Conn
    BY <1>7, <2>1 DEF Conn, ServeStartFails, CloseSocket, IInv, TypeOK
  <2>3. QED
    BY <1>1, <1>2, <1>7, <2>2, QuietStep DEF ServeStartFails, CloseSocket
<1>8. CASE ServeUnregister
  <2>1. serving \in registry /\ sock[serving] = "closed"
    BY <1>8 DEF ServeUnregister, IInv, ServingInv, WorkerInv
  <2>2. QED
    BY <1>1, <1>8, <2>1, EndStep DEF ServeUnregister, ownerVars
<1>9. QED
  BY <1>3, <1>4, <1>5, <1>6, <1>7, <1>8 DEF Serve

\* A worker keeps the contract: it stays registered until its socket is closed.
LEMMA WorkerContract ==
    ASSUME IInv, NEW w \in Requests, Worker(w) PROVE [Contract!Next]_(Contract!vars)
<1>1. WorkerAlive(w)
  BY DEF Worker, Goto, Move, WorkerBegin, WorkerHandle, WorkerOpened, WorkerOpenFails,
     WorkerLoop, WorkerSelect, WorkerSent, WorkerCloseChannel, WorkerCloseSocket,
     WorkerUnlink, WorkerAlive, Started
<1>2. w \in registry /\ ownerPc \notin {"clean", "failed", "aborted"}
  BY <1>1, WorkerIsRegistered
<1>3. Phase' = Phase
  BY DEF Phase, ownerVars, Worker, Move, WorkerBegin, WorkerHandle, WorkerOpened,
     WorkerOpenFails, WorkerLoop, WorkerSelect, WorkerSent, WorkerCloseChannel,
     WorkerCloseSocket, WorkerUnlink
<1>4. CASE WorkerUnlink(w)
  <2>1. sock[w] = "closed"
    BY <1>4 DEF WorkerUnlink, Goto, IInv, WorkerInv
  <2>2. QED
    BY <1>2, <1>4, <2>1, EndStep DEF WorkerUnlink, ownerVars
<1>5. CASE WorkerCloseSocket(w)
  <2>1. Conn' = Conn
    BY <1>2, <1>5 DEF Conn, WorkerCloseSocket, CloseSocket, IInv, TypeOK
  <2>2. QED
    BY <1>2, <1>3, <1>5, <2>1, QuietStep DEF WorkerCloseSocket, CloseSocket
<1>6. CASE WorkerCloseChannel(w)
  BY <1>2, <1>3, <1>6, QuietStep DEF WorkerCloseChannel, Conn
<1>7. CASE /\ ~WorkerUnlink(w) /\ ~WorkerCloseSocket(w) /\ ~WorkerCloseChannel(w)
  <2>1. UNCHANGED <<registry, sock, cleanupError>>
    BY <1>7 DEF Worker, Move, WorkerBegin, WorkerHandle, WorkerOpened,
       WorkerOpenFails, WorkerLoop, WorkerSelect, WorkerSent
  <2>2. QED
    BY <1>3, <2>1, QuietStep DEF Conn
<1>8. QED
  BY <1>4, <1>5, <1>6, <1>7

\* The owner keeps the contract, and its reports are the contract's.
LEMMA OwnerContract == ASSUME IInv, Owner PROVE [Contract!Next]_(Contract!vars)
<1> USE DEF Waiting, Terminal
<1>1. CASE OwnerStartThread
  BY <1>1, QuietStep DEF OwnerStartThread, Phase, Conn, IInv, OwnerInv
<1>2. CASE OwnerRequestStop
  <2>1. ~stop /\ Conn' = Conn /\ Phase' = "stopping"
    BY <1>2 DEF OwnerRequestStop, RequestStop, Conn, Phase, IInv, OwnerInv
  <2>2. Contract!Stop
    BY <1>2, <2>1, Mapping DEF Contract!Stop, OwnerRequestStop, RequestStop
  <2>3. QED
    BY <2>2 DEF Contract!Next
<1>3. CASE OwnerCloseListener
  <2> DEFINE R == {r \in Requests : sock[r] = "pending"}
  <2>1. stop /\ Phase' = Phase /\ MayFail /\ registry' = registry
    BY <1>3 DEF OwnerCloseListener, Phase, IInv, OwnerInv
  <2>2. \A r \in R : r \notin registry
    BY DEF IInv, TypeOK, WorkerInv, ServingInv, WorkerAlive, Started
  <2>3. /\ \A r \in R : sock'[r] = "refused"
        /\ \A r \in Requests \ R : sock'[r] = sock[r]
    BY <1>3 DEF OwnerCloseListener
  <2>4. ownerPc \notin {"clean", "failed", "aborted"} /\ R \in SUBSET Requests
    BY <1>3 DEF OwnerCloseListener
  <2>5. \A r \in R : sock[r] \notin {"closed", "refused"}
    OBVIOUS
  <2> HIDE DEF R
  <2>6. QED
    BY <2>1, <2>2, <2>3, <2>4, <2>5, TurnAwayStep
<1>4. ASSUME NEW c \in Requests, OwnerCloseSocket(c)
      PROVE  [Contract!Next]_(Contract!vars)
  \* A connection that has left the registry was closed before.
  <2>1. c \in registry \/ sock[c] = "closed"
    BY <1>4 DEF OwnerCloseSocket, IInv, TypeOK, SnapshotInv, WorkerInv, WorkerAlive, Started
  <2>2. Conn' = Conn
    BY <1>4, <2>1 DEF OwnerCloseSocket, CloseSocket, Conn, IInv, TypeOK
  <2>3. QED
    BY <1>4, <2>2, QuietStep DEF OwnerCloseSocket, CloseSocket, Phase
<1>5. CASE OwnerStopReturns \/ OwnerReport
  <2>1. stop /\ ownerPc \notin Terminal /\ Phase = "stopping" /\ Conn' = Conn
    BY <1>5, Mapping DEF OwnerStopReturns, OwnerReport, OwnerGoto, Conn, IInv, OwnerInv
  <2>2. CASE ownerPc' \notin Terminal
    BY <1>5, <2>1, <2>2, QuietStep DEF OwnerStopReturns, OwnerReport, OwnerGoto, Phase
  <2>3. CASE ownerPc' \in Terminal
    <3>1. Phase' = ownerPc'
      BY <1>5, <2>1, <2>3 DEF OwnerStopReturns, OwnerReport, OwnerGoto, Phase
    <3>2. ownerPc' # "timedOut" => registry = {}
      BY <1>5, <2>3 DEF OwnerStopReturns, OwnerReport, OwnerGoto, IInv, TypeOK, WorkerInv,
         OwnerInv, SnapshotInv, JoinInv, WorkerAlive, Started
    <3>3. /\ ownerPc' = "clean" => ~cleanupError
          /\ ownerPc' = "failed" => cleanupError
      BY <1>5 DEF OwnerStopReturns, OwnerReport, OwnerGoto
    <3>4. UNCHANGED cleanupError
      BY <1>5 DEF OwnerStopReturns, OwnerReport, OwnerGoto
    <3>5. Contract!Report(ownerPc')
      BY <2>1, <3>1, <3>2, <3>3, <3>4, Mapping DEF Contract!Report
    <3>6. QED
      BY <2>3, <3>5 DEF Contract!Next, Contract!Settled
  <2>4. QED
    BY <2>2, <2>3
<1>6. CASE OwnerCloseSsh \/ OwnerWait \/ Expire
  BY <1>6, QuietStep DEF OwnerCloseSsh, OwnerWait, OwnerGoto, Expire, Phase, Conn
<1>7. CASE OwnerJoinServe
  BY <1>7, QuietStep DEF OwnerJoinServe, Phase, Conn
<1>8. ASSUME NEW c \in Requests, OwnerJoinWorker(c)
      PROVE  [Contract!Next]_(Contract!vars)
  BY <1>8, QuietStep DEF OwnerJoinWorker, JoinWorker, Phase, Conn
<1>9. QED
  BY <1>1, <1>2, <1>3, <1>4, <1>5, <1>6, <1>7, <1>8 DEF Owner

\* The forwarder implements TunnelContract.
THEOREM Refinement == Spec => ImplementsContract
<1>1. Init => Contract!Init
  BY DEF Init, Contract!Init, Phase, Conn
<1>2. IInv /\ [Next]_vars => [Contract!Next]_(Contract!vars)
  <2> SUFFICES ASSUME IInv, [Next]_vars PROVE [Contract!Next]_(Contract!vars)
    OBVIOUS
  <2>1. ASSUME NEW r \in Requests, ClientConnect(r)
        PROVE  [Contract!Next]_(Contract!vars)
    <3>1. Conn' = Conn
      BY <2>1 DEF ClientConnect, Conn, IInv, TypeOK
    <3>2. QED
      BY <2>1, <3>1, QuietStep DEF ClientConnect, Phase, ownerVars
  <2>2. CASE TransportLost \/ AtRest \/ UNCHANGED vars
    BY <2>2, QuietStep DEF TransportLost, AtRest, vars, ownerVars, Phase, Conn
  <2>3. QED
    BY <2>1, <2>2, ServeContract, WorkerContract, OwnerContract DEF Next
<1>3. QED
  BY Invariance, <1>1, <1>2, PTL DEF Spec, Contract!Spec, ImplementsContract
=============================================================================
