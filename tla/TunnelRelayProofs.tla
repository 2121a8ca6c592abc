-------------------------- MODULE TunnelRelayProofs --------------------------
(***************************************************************************)
(* The downstream direction of the relay keeps the order of the remote's   *)
(* bytes and leaves none out, for any sizes of the streams, of a chunk and *)
(* of the SSH window.  The invariant says where the bytes are that the     *)
(* handler has received: at the client, or, before the send, in data.      *)
(***************************************************************************)
EXTENDS TunnelRelay, SequenceTheorems, TLAPS

CountsInv ==
    /\ upSent \in Nat /\ downSent \in Nat /\ downRead \in Nat
    /\ downRead <= downSent

DownInv ==
    /\ pc # "sendSock" => clientGot = Bytes(0, downRead)
    /\ pc = "sendSock" =>
          \E k \in 0 .. downRead :
              clientGot = Bytes(0, k) /\ data = Bytes(k, downRead)

IInv == CountsInv /\ DownInv

\* A stretch of the stream is a sequence as long as its ends are apart.
LEMMA StretchIsSeq ==
    ASSUME NEW a \in Nat, NEW b \in Nat, a <= b
    PROVE  /\ Bytes(a, b) \in Seq(Nat) /\ Len(Bytes(a, b)) = b - a
           /\ \A i \in 1 .. (b - a) : Bytes(a, b)[i] = a + i
<1>1. b - a \in Nat
  OBVIOUS
<1>2. Bytes(a, b) \in [1 .. (b - a) -> Nat]
  BY <1>1 DEF Bytes
<1>3. QED
  BY <1>1, <1>2 DEF Bytes

\* Two adjacent stretches, the second one sent whole, are one stretch.
LEMMA StretchesJoin ==
    ASSUME NEW a \in Nat, NEW b \in Nat, NEW c \in Nat, a <= b, b <= c
    PROVE  Bytes(a, b) \o SubSeq(Bytes(b, c), 1, Len(Bytes(b, c))) = Bytes(a, c)
<1> DEFINE s == Bytes(a, b)
           t == Bytes(b, c)
           u == Bytes(a, c)
<1>1. /\ s \in Seq(Nat) /\ Len(s) = b - a
      /\ \A i \in 1 .. (b - a) : s[i] = a + i
  BY StretchIsSeq
<1>2. /\ t \in Seq(Nat) /\ Len(t) = c - b
      /\ \A i \in 1 .. (c - b) : t[i] = b + i
  BY StretchIsSeq
<1>3. a <= c /\ c - a \in Nat
  OBVIOUS
<1>4. /\ u \in Seq(Nat) /\ Len(u) = c - a
      /\ \A i \in 1 .. (c - a) : u[i] = a + i
  BY <1>3, StretchIsSeq
<1> HIDE DEF s, t, u
<1>5. SubSeq(t, 1, Len(t)) = t
  BY <1>2
<1>6. /\ s \o t \in Seq(Nat) /\ Len(s \o t) = c - a
      /\ \A i \in 1 .. (c - a) : (s \o t)[i] = a + i
  BY <1>1, <1>2
<1>7. s \o t = u
  <2>1. Len(s \o t) = Len(u)
    BY <1>4, <1>6
  <2>2. \A i \in 1 .. Len(s \o t) : (s \o t)[i] = u[i]
    BY <1>4, <1>6
  <2>3. QED
    BY <1>4, <1>6, <2>1, <2>2, SeqEqual
<1>8. QED
  BY <1>5, <1>7 DEF s, t, u

\* A shorter stretch is a prefix of a longer one with the same start.
LEMMA StretchIsPrefix ==
    ASSUME NEW b \in Nat, NEW c \in Nat, b <= c
    PROVE  IsPrefix(Bytes(0, b), Bytes(0, c))
<1> DEFINE s == Bytes(0, b)
           t == Bytes(0, c)
<1>1. s \in Seq(Nat) /\ Len(s) = b /\ \A i \in 1 .. b : s[i] = 0 + i
  BY StretchIsSeq
<1>2. t \in Seq(Nat) /\ Len(t) = c /\ \A i \in 1 .. c : t[i] = 0 + i
  BY StretchIsSeq
<1> HIDE DEF s, t
<1>3. SubSeq(s, 1, b) = SubSeq(t, 1, b)
  BY <1>1, <1>2
<1>4. QED
  BY <1>1, <1>2, <1>3 DEF IsPrefix, s, t

LEMMA InitInv == Init => IInv
<1>1. Init => clientGot = Bytes(0, 0)
  BY DEF Init, Bytes
<1>2. QED
  BY <1>1 DEF Init, IInv, CountsInv, DownInv

\* What a recv takes ends at the sent count or before it, and not before its start.
LEMMA RecvInv ==
    ASSUME SizesAssumption, IInv, RecvChan
    PROVE  IInv'
<1> USE SizesAssumption DEF IInv, CountsInv
<1>1. CASE pc' # "sendSock"
  BY <1>1 DEF RecvChan, peers, DownInv
<1>2. CASE pc' = "sendSock"
  <2>1. /\ downRead < downSent /\ pc = "recvChan"
        /\ downRead' = Least(downSent, downRead + Chunk)
        /\ data' = Bytes(downRead, downRead')
        /\ clientGot' = clientGot /\ downSent' = downSent /\ upSent' = upSent
    BY <1>2 DEF RecvChan, peers
  <2>2. PICK r : r = Least(downSent, downRead + Chunk)
    OBVIOUS
  <2>3. r \in Nat /\ downRead <= r /\ r <= downSent
    BY <2>1, <2>2 DEF Least, SizesAssumption
  <2>4. downRead \in 0 .. r
    BY <2>3
  <2>5. clientGot' = Bytes(0, downRead) /\ data' = Bytes(downRead, r) /\ downRead' = r
    BY <2>1, <2>2 DEF DownInv
  <2>6. DownInv'
    BY <1>2, <2>4, <2>5 DEF DownInv
  <2>7. QED
    BY <2>1, <2>3, <2>5, <2>6
<1>3. QED
  BY <1>1, <1>2

\* The send of a chunk closes the gap between what was received and delivered.
LEMMA SendInv ==
    ASSUME IInv, SendSock
    PROVE  IInv'
<1> USE DEF IInv, CountsInv
<1>1. /\ pc = "sendSock" /\ pc' = "test"
      /\ clientGot' = clientGot \o SubSeq(data, 1, Len(data))
      /\ downRead' = downRead /\ downSent' = downSent /\ upSent' = upSent
  BY DEF SendSock, SendSockTaking, peers
<1>2. PICK k \in 0 .. downRead : clientGot = Bytes(0, k) /\ data = Bytes(k, downRead)
  BY <1>1 DEF DownInv
<1>3. k \in Nat /\ k <= downRead /\ 0 <= k
  BY <1>2
<1>4. clientGot' = Bytes(0, downRead)
  BY <1>1, <1>2, <1>3, StretchesJoin
<1>5. QED
  BY <1>1, <1>4 DEF DownInv

LEMMA NextInv ==
    ASSUME SizesAssumption, IInv, [Next]_vars
    PROVE  IInv'
<1> USE DEF IInv, CountsInv, DownInv, peers
<1>1. CASE ClientSend
  BY <1>1 DEF ClientSend
<1>2. CASE ClientClose
  BY <1>2 DEF ClientClose
<1>3. CASE RemoteSend
  BY <1>3 DEF RemoteSend
<1>4. CASE RemoteRead
  BY <1>4 DEF RemoteRead
<1>5. CASE RemoteClose
  BY <1>5 DEF RemoteClose
<1>6. CASE Select
  BY <1>6 DEF Select
<1>7. CASE RecvSock
  BY <1>7 DEF RecvSock
<1>8. CASE SendChan
  BY <1>8 DEF SendChan
<1>9. CASE RecvChan
  BY <1>9, RecvInv
<1>10. CASE SendSock
  BY <1>10, SendInv
<1>11. CASE TestClosed
  BY <1>11 DEF TestClosed
<1>12. CASE UNCHANGED vars
  BY <1>12 DEF vars
<1>13. QED
  BY <1>1, <1>2, <1>3, <1>4, <1>5, <1>6, <1>7, <1>8, <1>9, <1>10, <1>11, <1>12
  DEF Next, Handler

\* The client never sees a gap or a reordering in what the remote sent, whatever
\* the loop of _ForwardHandler.handle does upstream with the same buffer.
THEOREM DownstreamInOrder == Spec => []DownstreamHasNoGap
<1>1. IInv => DownstreamHasNoGap
  <2> SUFFICES ASSUME IInv PROVE DownstreamHasNoGap
    OBVIOUS
  <2>1. PICK k \in 0 .. downRead : clientGot = Bytes(0, k)
    BY DEF IInv, CountsInv, DownInv
  <2>2. k \in Nat /\ downSent \in Nat /\ k <= downSent
    BY <2>1 DEF IInv, CountsInv
  <2>3. QED
    BY <2>1, <2>2, StretchIsPrefix DEF DownstreamHasNoGap
<1>2. IInv /\ [Next]_vars => IInv'
  BY NextInv, SizesAssumption
<1>3. QED
  BY <1>1, <1>2, InitInv, PTL DEF Spec
=============================================================================
