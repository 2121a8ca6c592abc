---------------------------- MODULE TunnelRelay ----------------------------
(***************************************************************************)
(* The byte relay of one forwarded connection: the loop of                 *)
(* _ForwardHandler.handle (connections/tunnel.py) between a local client's *)
(* socket and a paramiko channel.  The bytes of a stream are numbered, so  *)
(* that a stream is a sequence of numbers.  The stop event, which may end  *)
(* the loop at its head at any time, is TunnelForwarder's.                 *)
(***************************************************************************)
EXTENDS Naturals, Sequences, SequencesExt

CONSTANTS
    Up,       \* how many bytes the client has to send
    Down,     \* how many bytes the remote has to send
    Chunk,    \* the most one recv takes (1024 in the code)
    Window    \* the SSH window: bytes the remote will take before it reads

ASSUME SizesAssumption == Up \in Nat /\ Down \in Nat /\ Chunk \in Nat \ {0} /\ Window \in Nat \ {0}

VARIABLES
    upSent,      \* bytes the client has written to its socket
    upRead,      \* of those, the handler has received
    clientDone,  \* the client has closed its side
    window,      \* what the remote will still take
    remoteGot,   \* the bytes that reached the remote, in order
    downSent,    \* bytes the remote has written to the channel
    downRead,    \* of those, the handler has received
    closed,      \* the remote has closed the channel
    clientGot,   \* the bytes that reached the client, in order
    pc,          \* control of the handler
    readable,    \* select's answer
    data         \* the chunk just received

vars == <<upSent, upRead, clientDone, window, remoteGot,
          downSent, downRead, closed, clientGot, pc, readable, data>>
peers == <<upSent, clientDone, downSent, closed>>

Bytes(from, to) == [i \in 1 .. (to - from) |-> from + i]
\* Mutant: recv always fills its buffer.
LeastIgnored(a, b) == b
Least(a, b) == IF a < b THEN a ELSE b

TypeOK ==
    /\ upSent \in 0 .. Up /\ upRead \in 0 .. upSent
    /\ downSent \in 0 .. Down /\ downRead \in 0 .. downSent
    /\ window \in 0 .. Window
    /\ remoteGot \in BoundedSeq(1 .. Up, Up) /\ clientGot \in BoundedSeq(1 .. Down, Down)
    /\ clientDone \in BOOLEAN /\ closed \in BOOLEAN
    /\ pc \in {"select", "recvSock", "sendChan", "recvChan", "sendSock", "test", "ended"}
    /\ readable \in SUBSET {"sock", "chan"}
    /\ data \in Seq(1 .. (Up + Down)) /\ Len(data) <= Chunk

Init ==
    /\ upSent = 0 /\ upRead = 0 /\ clientDone = FALSE
    /\ window = Window /\ remoteGot = <<>>
    /\ downSent = 0 /\ downRead = 0 /\ closed = FALSE /\ clientGot = <<>>
    /\ pc = "select" /\ readable = {} /\ data = <<>>

----------------------------------------------------------------------------
(* The peers.  A client closes when it has its whole answer; a remote when it *)
(* has sent all of it.                                                        *)

ClientSend ==
    /\ upSent < Up /\ ~clientDone
    /\ upSent' = upSent + 1
    /\ UNCHANGED <<upRead, clientDone, window, remoteGot, downSent, downRead,
                   closed, clientGot, pc, readable, data>>

ClientClose ==
    /\ ~clientDone /\ Len(clientGot) = Down
    /\ clientDone' = TRUE
    /\ UNCHANGED <<upSent, upRead, window, remoteGot, downSent, downRead,
                   closed, clientGot, pc, readable, data>>

RemoteSend ==
    /\ downSent < Down /\ ~closed
    /\ downSent' = downSent + 1
    /\ UNCHANGED <<upSent, upRead, clientDone, window, remoteGot, downRead,
                   closed, clientGot, pc, readable, data>>

\* The remote reads, and its window adjustment reaches the handler's side.
RemoteRead ==
    /\ window < Window
    /\ \E w \in window + 1 .. Window : window' = w
    /\ UNCHANGED <<upSent, upRead, clientDone, remoteGot, downSent, downRead,
                   closed, clientGot, pc, readable, data>>

RemoteClose ==
    /\ ~closed /\ downSent = Down
    /\ closed' = TRUE
    /\ UNCHANGED <<upSent, upRead, clientDone, window, remoteGot, downSent,
                   downRead, clientGot, pc, readable, data>>

----------------------------------------------------------------------------
(* The handler. *)

\* A select that times out finds nothing readable and loops: a stutter.
Select ==
    /\ pc = "select"
    /\ readable' = (IF upRead < upSent \/ clientDone THEN {"sock"} ELSE {})
              \cup (IF downRead < downSent \/ closed THEN {"chan"} ELSE {})
    /\ readable' # {}
    /\ pc' = "recvSock"
    /\ UNCHANGED <<peers, upRead, window, remoteGot, downRead, clientGot, data>>

RecvSock ==
    /\ pc = "recvSock"
    /\ \/ "sock" \notin readable /\ pc' = "recvChan" /\ UNCHANGED <<upRead, data>>
       \/ "sock" \in readable /\ upRead = upSent /\ pc' = "ended" /\ UNCHANGED <<upRead, data>>
       \/ /\ "sock" \in readable /\ upRead < upSent
          /\ upRead' = Least(upSent, upRead + Chunk)
          /\ data' = Bytes(upRead, upRead')
          /\ pc' = "sendChan"
    /\ UNCHANGED <<peers, window, remoteGot, downRead, clientGot, readable>>

\* Mutant: a send on a closed channel waits.
SendChanWaits ==
    /\ pc = "sendChan" /\ ~closed /\ window > 0
    /\ LET taken == Least(Len(data), window) IN
       /\ remoteGot' = remoteGot \o SubSeq(data, 1, taken)
       /\ window' = window - taken
    /\ pc' = "recvChan" /\ data' = <<>>
    /\ UNCHANGED <<peers, upRead, downRead, clientGot, readable>>

\* Channel.send waits for some window, takes what fits in it and returns that
\* count; the handler does not look at the count.  On a closed channel it raises.
SendChan ==
    /\ pc = "sendChan"
    /\ \/ closed /\ pc' = "ended" /\ UNCHANGED <<window, remoteGot>>
       \/ LET taken == Least(Len(data), window) IN
          /\ ~closed /\ window > 0
          /\ remoteGot' = remoteGot \o SubSeq(data, 1, taken)
          /\ window' = window - taken
          /\ pc' = "recvChan"
    /\ data' = <<>>
    /\ UNCHANGED <<peers, upRead, downRead, clientGot, readable>>

RecvChan ==
    /\ pc = "recvChan"
    /\ \/ "chan" \notin readable /\ pc' = "test" /\ UNCHANGED <<downRead, data>>
       \/ "chan" \in readable /\ downRead = downSent /\ pc' = "ended" /\ UNCHANGED <<downRead, data>>
       \/ /\ "chan" \in readable /\ downRead < downSent
          /\ downRead' = Least(downSent, downRead + Chunk)
          /\ data' = Bytes(downRead, downRead')
          /\ pc' = "sendSock"
    /\ UNCHANGED <<peers, upRead, window, remoteGot, clientGot, readable>>

SendSockTaking(n) ==
    /\ pc = "sendSock"
    /\ clientGot' = clientGot \o SubSeq(data, 1, n)
    /\ data' = <<>>
    /\ pc' = "test"
    /\ UNCHANGED <<peers, upRead, window, remoteGot, downRead, readable>>

\* Mutant: the socket takes a part of the chunk, as a non-blocking one would.
SendSockPartly == SendSockTaking(1)

\* The local socket is a blocking one: send returns when it has taken the chunk.
SendSock == SendSockTaking(Len(data))

TestClosed ==
    /\ pc = "test"
    /\ pc' = IF closed THEN "ended" ELSE "select"
    /\ UNCHANGED <<peers, upRead, window, remoteGot, downRead, clientGot, readable, data>>

Handler == Select \/ RecvSock \/ SendChan \/ RecvChan \/ SendSock \/ TestClosed

Next ==
    \/ ClientSend \/ ClientClose \/ RemoteSend \/ RemoteRead \/ RemoteClose
    \/ Handler

Spec == Init /\ [][Next]_vars

\* The handler's thread runs, and the remote reads what it is sent.
FairSpec == Spec /\ WF_vars(Handler) /\ WF_vars(RemoteRead)

----------------------------------------------------------------------------
(* Properties. *)

\* The client's bytes reach the remote without gap, whatever was lost at the
\* end: what the tunnel forwards is the connection the client made.
UpstreamHasNoGap == IsPrefix(remoteGot, Bytes(0, upSent))

\* A remote that sends its answer and closes has its whole answer forwarded, if
\* the client is still there to take it.
AnswerIsForwarded ==
    pc = "ended" /\ ~clientDone => clientGot = Bytes(0, downSent)

\* The client never sees a gap or a reordering in what the remote sent,
\* although both directions share one buffer and one loop.
DownstreamHasNoGap == IsPrefix(clientGot, Bytes(0, downSent))

\* Upstream traffic, even when it waits for the window, does not starve the
\* other direction: what the remote sent arrives, or the connection ended.
DownstreamAdvances ==
    \A n \in 1 .. Down :
        downSent >= n ~> (Len(clientGot) >= n \/ pc = "ended")
=============================================================================
